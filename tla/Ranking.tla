------------------------------- MODULE Ranking -------------------------------
(***************************************************************************)
(* One request for the ranking, of all time or of the day, while others    *)
(* earn experience, join and are deactivated: ranking.service.ts over the  *)
(* statements of ranking.repository.ts, which run one by one on the        *)
(* committed rows, outside any transaction.                                *)
(***************************************************************************)
EXTENDS Naturals, Sequences, FiniteSets, FiniteSetsExt

CONSTANTS
  Accounts,      \* users, by the order of their ids
  Registrations, \* when each account was created: the cases looked at
  Granted,       \* experience each account has from elsewhere: questions, adjustments
  Limits,        \* how many places are asked for
  MaxDay,        \* bound on the operational days
  MaxCredits,    \* bound on the experience users earn, together
  NoUser         \* nobody, or nothing read yet

ASSUME RankingAssumption ==
  /\ Accounts \subseteq Nat /\ IsFiniteSet(Accounts) /\ NoUser \notin Accounts
  /\ Registrations \subseteq [Accounts -> Nat] /\ Granted \in [Accounts -> Nat]
  /\ Limits \subseteq 1 .. 50
  /\ MaxDay \in Nat \ {0} /\ MaxCredits \in Nat

VARIABLES
  eligible,  \* User: the active participants
  createdAt, \* User: when each account was created
  xp,        \* User: the experience of each account
  earned,    \* PointEvent: credits of redeemed activities by user and operational day;
             \* the ranking of the day counts no other
  day,       \* the operational day
  ask,       \* the request: its arguments, what it has read, its answer
  moved      \* whether a row changed since the request began

rankingVars == <<eligible, createdAt, xp, earned, day, ask, moved>>

Periods == {"all", "daily"}
NoAsk == [pc |-> "idle"]

Row(u, score) == [id |-> u, xp |-> score, createdAt |-> createdAt[u]]

RankingInit ==
  /\ eligible \in SUBSET Accounts /\ createdAt \in Registrations
  /\ xp = Granted
  /\ earned = [u \in Accounts |-> [d \in 1 .. MaxDay |-> 0]]
  /\ day = 1
  /\ ask = NoAsk
  /\ moved = FALSE

-----------------------------------------------------------------------------
(* ranking.repository.ts and compareRankingUsers.                           *)

Comes(a, b) ==
  \/ a.xp > b.xp
  \/ a.xp = b.xp /\ a.createdAt < b.createdAt
  \/ a.xp = b.xp /\ a.createdAt = b.createdAt /\ a.id < b.id

\* The i-th of the rows is the one that i - 1 of them come before.
Sorted(rows) ==
  [i \in 1 .. Cardinality(rows) |-> CHOOSE r \in rows : Cardinality({s \in rows : Comes(s, r)}) = i - 1]
First(limit, rows) == SubSeq(rows, 1, IF limit < Len(rows) THEN limit ELSE Len(rows))

findTopGeneralRanking(limit) == First(limit, Sorted({Row(u, xp[u]) : u \in {v \in eligible : xp[v] > 0}}))
findEligibleUser(u) == {Row(v, xp[v]) : v \in eligible \intersect {u}}
findEligibleUsers == {Row(u, xp[u]) : u \in eligible}
findActionCreditTotals(window) == [u \in Accounts |-> earned[u][window]]

\* With a bug: equal experience is not told apart.
countUsersWithMore(user) == Cardinality({v \in eligible : xp[v] > user.xp})
countUsersAhead(user) == Cardinality({v \in eligible : Comes(Row(v, xp[v]), user)})

toRankingEntry(user, position) == [position |-> position, id |-> user.id, xp |-> user.xp]
Entries(rows) == [i \in 1 .. Len(rows) |-> toRankingEntry(rows[i], i)]
IndexOf(rows, u) ==
  IF \E i \in 1 .. Len(rows) : rows[i].id = u
  THEN CHOOSE i \in 1 .. Len(rows) : rows[i].id = u ELSE 0

-----------------------------------------------------------------------------
(* The request.                                                             *)

Ask(u, period, limit) ==
  /\ ask = NoAsk
  /\ ask' = [pc |-> "reads", user |-> u, period |-> period, limit |-> limit, window |-> day,
             first |-> NoUser, second |-> NoUser, answer |-> NoUser]
  /\ moved' = FALSE
  /\ UNCHANGED <<eligible, createdAt, xp, earned, day>>

\* Promise.all: the two statements come in either order.
ReadFirst ==
  /\ ask.pc = "reads" /\ ask.first = NoUser
  /\ ask' = [ask EXCEPT !.first =
       IF ask.period = "all" THEN findTopGeneralRanking(ask.limit) ELSE findEligibleUsers]
  /\ UNCHANGED <<eligible, createdAt, xp, earned, day, moved>>
ReadSecond ==
  /\ ask.pc = "reads" /\ ask.second = NoUser
  /\ ask' = [ask EXCEPT !.second =
       IF ask.period = "all" THEN findEligibleUser(ask.user) ELSE findActionCreditTotals(ask.window)]
  /\ UNCHANGED <<eligible, createdAt, xp, earned, day, moved>>

AnswerWith(answer) ==
  /\ ask' = [ask EXCEPT !.pc = "answered", !.answer = answer]
  /\ UNCHANGED <<eligible, createdAt, xp, earned, day, moved>>
BothRead == ask.pc = "reads" /\ ask.first # NoUser /\ ask.second # NoUser

\* getGeneralRanking: a place beyond those listed takes one more statement.
AnswerGeneral ==
  /\ BothRead /\ ask.period = "all"
  /\ LET ranking == Entries(ask.first)
         topIndex == IndexOf(ask.first, ask.user)
     IN  \/ ask.second = {} /\ AnswerWith([ranking |-> ranking, me |-> NoUser])
         \/ \E user \in ask.second :
              AnswerWith([ranking |-> ranking,
                     me |-> toRankingEntry(user, IF topIndex > 0 THEN topIndex
                                                 ELSE countUsersAhead(user) + 1)])

\* getPeriodRanking.  With a bug: the place is looked for among those listed.
Ranked == {[u EXCEPT !.xp = ask.second[u.id]] : u \in ask.first}
Listed == {u \in Ranked : u.xp > 0}
AnswerFrom(rows) ==
  /\ BothRead /\ ask.period = "daily"
  /\ LET mine == IndexOf(rows, ask.user)
     IN  AnswerWith([ranking |-> Entries(First(ask.limit, Sorted(Listed))),
                     me |-> IF mine > 0 THEN toRankingEntry(rows[mine], mine) ELSE NoUser])
AnswerOfTheListed == AnswerFrom(Sorted(Listed))
AnswerPeriod == AnswerFrom(Sorted(Ranked))

-----------------------------------------------------------------------------
(* What others do: actions.repository.ts, admin-participants.service.ts.    *)

Credit(u) ==
  /\ u \in eligible
  /\ MapThenSumSet(LAMBDA v : xp[v] - Granted[v], Accounts) < MaxCredits
  /\ xp' = [xp EXCEPT ![u] = @ + 1]
  /\ earned' = [earned EXCEPT ![u][day] = @ + 1]
  /\ moved' = TRUE
  /\ UNCHANGED <<eligible, createdAt, day, ask>>

ToggleAccount(u) ==
  /\ eligible' = IF u \in eligible THEN eligible \ {u} ELSE eligible \union {u}
  /\ moved' = TRUE
  /\ UNCHANGED <<createdAt, xp, earned, day, ask>>

\* startOfOperationalDayUtc.
NextDay ==
  /\ day < MaxDay
  /\ day' = day + 1
  /\ UNCHANGED <<eligible, createdAt, xp, earned, ask, moved>>

Done ==
  /\ ask.pc = "answered"
  /\ ask' = NoAsk
  /\ UNCHANGED <<eligible, createdAt, xp, earned, day, moved>>

RankingNext ==
  \/ \E u \in Accounts, period \in Periods, limit \in Limits : Ask(u, period, limit)
  \/ ReadFirst \/ ReadSecond \/ AnswerGeneral \/ AnswerPeriod \/ Done
  \/ \E u \in Accounts : Credit(u) \/ ToggleAccount(u)
  \/ NextDay

RankingSpec == RankingInit /\ [][RankingNext]_rankingVars

-----------------------------------------------------------------------------
RankingTypeOK ==
  /\ eligible \subseteq Accounts /\ createdAt \in Registrations
  /\ xp \in [Accounts -> Nat] /\ earned \in [Accounts -> [1 .. MaxDay -> Nat]]
  /\ day \in 1 .. MaxDay
  /\ \/ ask = NoAsk
     \/ /\ ask = [pc |-> ask.pc, user |-> ask.user, period |-> ask.period, limit |-> ask.limit, window |-> ask.window,
                   first |-> ask.first, second |-> ask.second, answer |-> ask.answer]
        /\ ask.pc \in {"reads", "answered"} /\ ask.user \in Accounts /\ ask.period \in Periods
        /\ ask.limit \in Limits /\ ask.window \in 1 .. day
  /\ moved \in BOOLEAN

\* One more than the eligible users who come first; the period's experience.
Score(u) == IF ask.period = "all" THEN xp[u] ELSE earned[u][ask.window]
Place(u) == 1 + Cardinality({v \in eligible : Comes(Row(v, Score(v)), Row(u, Score(u)))})
Entry(u) == [position |-> Place(u), id |-> u, xp |-> Score(u)]

(***************************************************************************)
(* When nobody's rows change during a request, all its answers tell one    *)
(* order: the listed places and the asker's own are the places of everyone *)
(* in the same total order, whichever of the three ways computed them (an  *)
(* index in the list, a count of those ahead, an index among all), for the *)
(* day on which the request began, even when midnight passes meanwhile.    *)
(***************************************************************************)
PlacesAreOfOneOrder ==
  ask.pc = "answered" /\ ~moved =>
    /\ ask.answer.me = IF ask.user \in eligible THEN Entry(ask.user) ELSE NoUser
    /\ {ask.answer.ranking[i] : i \in 1 .. Len(ask.answer.ranking)} =
         {Entry(u) : u \in {v \in eligible : Score(v) > 0 /\ Place(v) <= ask.limit}}
    /\ \A i \in 1 .. Len(ask.answer.ranking) : ask.answer.ranking[i].position = i

(***************************************************************************)
(* Not kept by the code (README).  The statements of one request see       *)
(* different instants, so that the place of who asks may contradict the    *)
(* list beside it.                                                         *)
(***************************************************************************)
MeIsAsListed ==
  ask.pc = "answered" /\ ask.answer.me # NoUser =>
    LET me == ask.answer.me IN
      me.xp > 0 /\ me.position <= ask.limit
        => \E i \in 1 .. Len(ask.answer.ranking) : ask.answer.ranking[i] = me
=============================================================================
