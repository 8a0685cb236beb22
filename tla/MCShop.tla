------------------------------- MODULE MCShop -------------------------------
(* Shop.tla on small sets.  ShopProofs brings the inductive invariant, which *)
(* TLC checks before it is proved.                                           *)
EXTENDS ShopProofs, TLC

Symmetry == Permutations(Users) \union Permutations(Redemptions) \union Permutations(Tx)
=============================================================================
