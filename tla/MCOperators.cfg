\* Two operators, two codes and two open transactions: changes of profile and of
\* status, or resets of access.
CONSTANTS
  Operators = {1, 2}
  Codes = {c1, c2}
  Campaigns <- Campaign
  Tx = {t1, t2}
  None = None
  NoUser = NoUser
  NoActivation = NoActivation
SYMMETRY Symmetry
SPECIFICATION Spec
CHECK_DEADLOCK FALSE
PROPERTIES LostOnlyUnlisted CodesActivateOnce
