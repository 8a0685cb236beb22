-------------------------- MODULE MCAdminOperators --------------------------
(* AdminOperators.tla on small sets.                                         *)
EXTENDS AdminOperators, TLC

\* Changes of profile, of status with profile, or resets of access.  Once no
\* general administrator is left, nothing more may happen.
Campaign == {{"GENERAL", "SHOP"}, {"deactivate", "SHOP"}, {"RESET"}}
ProfilesOnly == {{"GENERAL", "SHOP"}}

Symmetry == Permutations(Codes) \union Permutations(Tx)
=============================================================================
