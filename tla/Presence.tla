------------------------------- MODULE Presence -------------------------------
(***************************************************************************)
(* Presence of participants: presence/presence.service.ts and              *)
(* presence.repository.ts.  Once a minute every API process takes the      *)
(* time, counts with one query and puts the counts in the summary of that  *)
(* day with one upsert.  A process never overlaps its own collections, but *)
(* nothing orders those of two processes, and one may be slow.             *)
(*                                                                         *)
(* The sessions behind the counts are those of Sessions.tla: here they are *)
(* a number that goes up and down, below the number of participants.       *)
(***************************************************************************)
EXTENDS Integers, FiniteSetsExt, Folds

CONSTANTS
  Collectors,  \* API processes
  MaxPresenceTime,     \* bound on the clock, in units of the collection's interval
  DayLength,   \* units of an operational day
  MaxPeople,   \* bound on the participants
  PresenceWindow,      \* units for which a collection is fresh (PRESENCE_ONLINE_WINDOW_SECONDS)
  KeptDays,    \* days a summary is kept (24 months in the code)
  NoReading

ASSUME PresenceAssumption ==
  /\ MaxPresenceTime \in Nat /\ MaxPeople \in Nat /\ PresenceWindow \in Nat /\ KeptDays \in Nat
  /\ DayLength \in Nat \ {0}

PresenceTime == 0..MaxPresenceTime
People == 0..MaxPeople

\* operationalDateUtc: which day an instant belongs to.
DayOf(t) == t \div DayLength
Days == 0..DayOf(MaxPresenceTime)

Observation ==
  [at : PresenceTime, online : People, registered : People]

Summary ==
  [lastObservedOnline : People, lastRegistered : People, lastCollectedAt : PresenceTime,
   peakOnline : People, peakAt : PresenceTime, registeredAtPeak : People]

ASSUME NoReadingAssumption == NoReading \notin Summary /\ NoReading \notin Int

VARIABLES
  presenceNow,
  online,      \* participants a query would count online now
  registered,  \* participants there are now
  summary,     \* the PresenceDailySummary row of each day, or None
  presencePc,          \* the next step of each collector
  obs,         \* what each collector has: the time, then the counts
  seen         \* history: the observations upserted, of the days that are kept

presenceVars == <<presenceNow, online, registered, summary, presencePc, obs, seen>>

BlankObservation == [at |-> 0, online |-> 0, registered |-> 0]

PresenceInit ==
  /\ presenceNow = 0
  /\ online = 0
  /\ registered = 0
  /\ summary = [d \in Days |-> NoReading]
  /\ presencePc = [c \in Collectors |-> "idle"]
  /\ obs = [c \in Collectors |-> BlankObservation]
  /\ seen = {}

-----------------------------------------------------------------------------

PresenceTick ==
  /\ presenceNow < MaxPresenceTime
  /\ presenceNow' = presenceNow + 1
  /\ UNCHANGED <<online, registered, summary, presencePc, obs, seen>>

\* Participants register, come online and leave.
PeopleMove ==
  /\ registered' \in registered..MaxPeople
  /\ online' \in 0..registered'
  /\ UNCHANGED <<presenceNow, summary, presencePc, obs, seen>>

\* collect: the time, with which expireSessions and the query are asked.  The
\* participants there are now were created before it.
Collect(c) ==
  /\ presencePc[c] = "idle"
  /\ obs' = [obs EXCEPT ![c] = [BlankObservation EXCEPT !.at = presenceNow, !.registered = registered]]
  /\ presencePc' = [presencePc EXCEPT ![c] = "getCollectionCounts"]
  /\ UNCHANGED <<presenceNow, online, registered, summary, seen>>

\* Of the participants created since, the query counts those whose creation was
\* stamped before the collection's time; sessions it counts as they are.  The
\* two counters of the day, which only grow, are left out.
GetCollectionCounts(c) ==
  /\ presencePc[c] = "getCollectionCounts"
  /\ \E n \in obs[c].registered..registered :
       obs' = [obs EXCEPT ![c] = [@ EXCEPT !.online = online, !.registered = n]]
  /\ presencePc' = [presencePc EXCEPT ![c] = "upsertDailySummary"]
  /\ UNCHANGED <<presenceNow, online, registered, summary, seen>>

Larger(a, b) == IF a >= b THEN a ELSE b

\* INSERT, and ON CONFLICT DO UPDATE.
Inserted(o) ==
  [lastObservedOnline |-> o.online, lastRegistered |-> o.registered, lastCollectedAt |-> o.at,
   peakOnline |-> o.online, peakAt |-> o.at, registeredAtPeak |-> o.registered]

\* With a bug: the time of the peak follows a tie, the registered do not.
HalfMoved(row, o) ==
  [row EXCEPT !.peakOnline = Larger(@, o.online),
              !.peakAt = IF o.online >= row.peakOnline THEN o.at ELSE @,
              !.registeredAtPeak = IF o.online > row.peakOnline THEN o.registered ELSE @]
PeakMoved(row, o) ==
  IF o.online > row.peakOnline
  THEN [row EXCEPT !.peakOnline = o.online, !.peakAt = o.at, !.registeredAtPeak = o.registered]
  ELSE row

\* With a bug: the last collection to arrive counts as the newest.
LastArrived(row, o) ==
  [PeakMoved(row, o) EXCEPT !.lastObservedOnline = o.online, !.lastRegistered = o.registered,
                            !.lastCollectedAt = o.at]
Updated(row, o) ==
  [PeakMoved(row, o) EXCEPT !.lastObservedOnline = o.online, !.lastRegistered = o.registered,
                            !.lastCollectedAt = Larger(@, o.at)]

\* With a bug: the row is that of the day on which the upsert runs.
DayOfUpsert(o) == DayOf(presenceNow)
\* operationalDate: the day of the collection's own time.
RowOf(o) == DayOf(o.at)

UpsertDailySummary(c) ==
  /\ presencePc[c] = "upsertDailySummary"
  /\ LET o == obs[c]
         d == RowOf(o)
     IN  /\ summary' = [summary EXCEPT ![d] = IF @ = NoReading THEN Inserted(o) ELSE Updated(@, o)]
         /\ seen' = seen \union {[row |-> d, at |-> o.at, online |-> o.online,
                                  registered |-> o.registered]}
  /\ presencePc' = [presencePc EXCEPT ![c] = "idle"]
  /\ obs' = [obs EXCEPT ![c] = BlankObservation]
  /\ UNCHANGED <<presenceNow, online, registered>>

\* A query fails; the scheduler logs it and waits for the next minute.
Fail(c) ==
  /\ presencePc[c] # "idle"
  /\ presencePc' = [presencePc EXCEPT ![c] = "idle"]
  /\ obs' = [obs EXCEPT ![c] = BlankObservation]
  /\ UNCHANGED <<presenceNow, online, registered, summary, seen>>

\* deleteSummariesBefore.
DeleteRetainedPresence ==
  LET Before(d) == d < DayOf(presenceNow) - KeptDays
  IN  /\ summary' = [d \in Days |-> IF Before(d) THEN NoReading ELSE summary[d]]
      /\ seen' = {o \in seen : ~Before(o.row)}
      /\ UNCHANGED <<presenceNow, online, registered, presencePc, obs>>

PresenceNext ==
  \/ PresenceTick
  \/ PeopleMove
  \/ DeleteRetainedPresence
  \/ \E c \in Collectors :
       \/ Collect(c)
       \/ GetCollectionCounts(c)
       \/ UpsertDailySummary(c)
       \/ Fail(c)

PresenceSpec == PresenceInit /\ [][PresenceNext]_presenceVars

-----------------------------------------------------------------------------
(* What the panel and the exports show.                                    *)

Today == summary[DayOf(presenceNow)]

\* getOverview: whether the counts are shown as those of now.
PresenceStatus ==
  IF Today # NoReading /\ presenceNow - Today.lastCollectedAt <= PresenceWindow THEN "LIVE" ELSE "DEGRADED"

\* findOverallPeak, which goes through the summaries by day.
KeptSummaries == {d \in Days : summary[d] # NoReading}

\* With a bug: of two equal peaks the later day is taken.
LaterOnTies(current, d) ==
  IF current = NoReading \/ summary[d].peakOnline >= summary[current].peakOnline THEN d ELSE current
HigherPeak(current, d) ==
  IF current = NoReading THEN d
  ELSE LET a == summary[current]
           b == summary[d]
       IN  IF b.peakOnline # a.peakOnline
           THEN IF b.peakOnline > a.peakOnline THEN d ELSE current
           ELSE IF b.peakAt < a.peakAt THEN d ELSE current

OverallPeak ==
  MapThenFoldSet(LAMBDA d, current : HigherPeak(current, d), NoReading, LAMBDA d : d, Max, KeptSummaries)

-----------------------------------------------------------------------------
(* Properties.                                                             *)

PresenceTypeOK ==
  /\ presenceNow \in PresenceTime /\ registered \in People /\ online \in 0..registered
  /\ summary \in [Days -> Summary \union {NoReading}]
  /\ presencePc \in [Collectors -> {"idle", "getCollectionCounts", "upsertDailySummary"}]
  /\ obs \in [Collectors -> Observation]
  /\ seen \subseteq [row : Days, at : PresenceTime, online : People, registered : People]

SeenOn(d) == {o \in seen : o.row = d}

\* The peak of a day, its time and the number of registered are those of one
\* collection, of which no other counted more.
PeakIsOneObservation ==
  \A d \in Days : summary[d] # NoReading =>
    /\ [row |-> d, at |-> summary[d].peakAt, online |-> summary[d].peakOnline,
        registered |-> summary[d].registeredAtPeak] \in seen
    /\ \A o \in SeenOn(d) : o.online <= summary[d].peakOnline

\* The panel is LIVE exactly when some collection of today was begun within the
\* window, in whatever order the collections arrived.
LiveMeansRecent ==
  PresenceStatus = "LIVE" <=> \E o \in SeenOn(DayOf(presenceNow)) : presenceNow - o.at <= PresenceWindow

\* A collection that spans midnight counts for the day on which it began.
RowsHoldTheirDay ==
  \A d \in Days : summary[d] # NoReading =>
    DayOf(summary[d].peakAt) = d /\ DayOf(summary[d].lastCollectedAt) = d

\* The overall peak is the highest of the days kept, and the earliest of those.
OverallPeakIsHighest ==
  IF KeptSummaries = {} THEN OverallPeak = NoReading
  ELSE /\ OverallPeak \in KeptSummaries
       /\ \A d \in KeptSummaries :
            \/ summary[d].peakOnline < summary[OverallPeak].peakOnline
            \/ /\ summary[d].peakOnline = summary[OverallPeak].peakOnline
               /\ summary[d].peakAt >= summary[OverallPeak].peakAt

\* Two processes, late collections and midnight never lower the peak of a day nor
\* part it from what was counted with it, and the panel compares and dates the
\* days by what was really collected.
PresenceIsAsCollected ==
  PeakIsOneObservation /\ LiveMeansRecent /\ RowsHoldTheirDay /\ OverallPeakIsHighest

\* Not kept by the code (README, "What the code does not keep").  What is shown as
\* counted at lastCollectedAt was counted then.
LastCountsAreThoseOfTheirTime ==
  \A d \in Days : summary[d] # NoReading =>
    [row |-> d, at |-> summary[d].lastCollectedAt, online |-> summary[d].lastObservedOnline,
     registered |-> summary[d].lastRegistered] \in seen
=============================================================================
