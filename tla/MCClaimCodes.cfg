SPECIFICATION Spec
CONSTANTS
  Users = {u1}
  Actions = {a1}
  c1 = c1
  c2 = c2
  Codes <- TwoCodes
  Precedes <- InOrder
  Events = {e1, e2}
  Worths <- Positive
  Tx = {t1, t2}
  None = None
  NoAction = NoAction
  NoCode = NoCode
  NoEvent = NoEvent
SYMMETRY Symmetry
INVARIANTS OnlyGrantsDeadlock
PROPERTIES UsedCodesAreFinal BulkReportsAreTrue
