SPECIFICATION Spec
CONSTANTS
  Users = {u1, u2}
  Actions = {a1}
  c1 = c1
  c2 = c2
  Codes <- OneCode
  Precedes <- Alone
  Events = {e1, e2}
  Worths <- Signed
  Tx = {t1, t2}
  None = None
  NoAction = NoAction
  NoCode = NoCode
  NoEvent = NoEvent
SYMMETRY Symmetry
INVARIANTS PaidOnce
PROPERTIES GrantsAreCurrent
