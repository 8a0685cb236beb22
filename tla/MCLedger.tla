------------------------------- MODULE MCLedger -------------------------------
(* Small instances of Ledger for TLC. *)
EXTENDS Ledger, TLC

MCDeltas == {[points |-> 1, xp |-> 1], [points |-> -1, xp |-> 0]}
MCOpenings ==
  {[stored |-> Zero, ledger |-> Zero],
   [stored |-> [points |-> 1, xp |-> 0], ledger |-> [points |-> 0, xp |-> 1]]}
Symmetry == Permutations(Users) \union Permutations(Admins) \union Permutations(Keys)
              \union Permutations(Events) \union Permutations(Tx)
=============================================================================
