\* A restore of which up to four commands fail; three scripts over three
\* releases, of which two commands fail; two administrators who record three
\* changes of a row; two who may want two operations on a participant, with two
\* idempotency keys each; two people who sign in one after the other on one tab.
CONSTANTS
  MaxRestoreFaults = 4
  LostAnswers = FALSE
  MaxRelease = 3
  MaxRuns = 3
  MaxReleaseFaults = 2
  CopyFails = FALSE
  None = None
  Blank = Blank
  Absent = Absent
  Missing = Missing
  Administrators = {a1, a2}
  MaxTrail = 3
  MaxStock = 1
  Price = 2
  Admins = {a1, a2}
  Deltas = {1}
  Gains <- Spent
  Openings <- Histories
  MaxKeys = 2
  MaxWishes = 2
  MaxStored = 2
  Unset = Unset
  Users = {a1, a2}
  Typed = {"login", "lojinha", "participantes/id"}
  MaxSignIns = 2
SYMMETRY Symmetry
SPECIFICATION Spec
\* A script ends, and nobody has to run another.
CHECK_DEADLOCK FALSE
INVARIANTS OriginalSurvives OutcomeIsAsReported DeploymentIsAllOrNothing
INVARIANTS EveryCallIsKept AuditIsContinuous OperationsAreAsWished
INVARIANTS SignedOutAreForgotten OffersAreAdmitted
PROPERTIES StartsOnlyWhatIsWhole MigrationsAreSafe
