\* Two sessions and two requests with three passwords after the first; two
\* collectors over a day of two collections and the start of the next, one
\* participant; two processes that count the requests of three minutes, whose
\* rows are kept for one; the first place of three users on two days.
CONSTANTS
  Ids = {s1, s2}
  Requests = {p1, p2}
  MaxSessionTime = 2
  MaxHash = 3
  Life = 1
  Validity = 2
  Keep = 1
  Nobody = Nobody
  Absent = Absent
  Deleted = Deleted
  NoOne = NoOne
  Collectors = {p1, p2}
  MaxPresenceTime = 2
  DayLength = 2
  MaxPeople = 1
  PresenceWindow = 0
  KeptDays = 0
  NoReading = NoReading
  Processes = {p1, p2}
  HttpStatuses = {s401}
  MaxMinute = 2
  MaxEvents = 2
  Retention = 1
  MetricsWindow = 2
  Threshold = 2
  Accounts = {1, 2, 3}
  Registrations <- NewestFirst
  Granted <- OneGrant
  Limits = {1}
  MaxDay = 2
  MaxCredits = 2
  NoUser = NoUser
SYMMETRY Symmetry
SPECIFICATION Spec
INVARIANTS InactiveHaveNoSession PresenceIsAsCollected CountsAddUp PlacesAreOfOneOrder
PROPERTIES OutcomesStand
