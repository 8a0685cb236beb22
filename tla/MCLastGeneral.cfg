\* Two operators and two open transactions; changes of profile and of status.
\* Once no general administrator is left, nothing more may happen.
CONSTANTS
  Operators = {1, 2}
  Codes = {c1}
  Campaigns <- ProfilesOnly
  Tx = {t1, t2}
  None = None
  NoUser = NoUser
  NoActivation = NoActivation
SYMMETRY Symmetry
SPECIFICATION Spec
PROPERTY LastGeneralProtected
CHECK_DEADLOCK FALSE
