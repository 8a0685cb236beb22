--------------------------- MODULE MCActionRedemption ---------------------------
(* Small instances of ActionRedemption for TLC. *)
EXTENDS ActionRedemption, TLC

CONSTANTS c1, c2

OneCode == {c1}
TwoCodes == {c1, c2}
Alone == {}
Positive == {1}
Signed == {-1, 1}
InOrder == {<<c1, c2>>}
Symmetry ==
  Permutations(Users) \union Permutations(Actions) \union Permutations(Events)
    \union Permutations(Tx)
=============================================================================
