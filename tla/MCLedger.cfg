SPECIFICATION Spec
CONSTANTS
  Users = {u1, u2}
  Admins = {a1}
  Keys = {k1, k2}
  Events = {e1, e2, e3}
  Deltas <- MCDeltas
  Openings <- MCOpenings
  Gains = {1}
  Tx = {t1, t2}
  None = None
  NoEvent = NoEvent
SYMMETRY Symmetry
INVARIANTS AnswersAgree CorrectionsAreExact
PROPERTIES RetriesSucceed ImplementsAtomicLedger
