\* Two sessions and three requests under way; two codes before three scanners;
\* three exports of four rows for two slots, and two artifacts of three cards for
\* one, while one and two steps fail.
CONSTANTS
  Sessions = {s1, s2}
  Calls = {c1, c2, c3}
  Absent = Absent
  Scanners = {c1, c2, c3}
  Codes = {s1, s2}
  NoCode = NoCode
  Capacity <- Slots
  Requests = {c1, c2, c3}
  LastId = 4
  BatchSize = 2
  MaxRows = 3
  MaxBytes = 5
  RowBytes <- Widths
  MaxWrites = 2
  MaxExportFaults = 1
  Downloads = {s1, s2}
  MaxCards = 3
  Leaves <- Anywhere
  MaxArtifactFaults = 2
SYMMETRY Symmetry
SPECIFICATION Spec
INVARIANTS TokenFollowsTheCookie DialogIsAsShown
INVARIANTS SentFilesAreFaithful FinishedMeansWhole
INVARIANTS SlotsAreTheExports SlotsAreTheArtifacts
