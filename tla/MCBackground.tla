---------------------------- MODULE MCBackground ----------------------------
(* What the API keeps count of on its own: Sessions, Presence,               *)
(* SecurityMetrics and Ranking on small sets.  They share no variable, so    *)
(* one run explores one of them from each initial state.                     *)
EXTENDS Sessions, Presence, SecurityMetrics, Ranking, TLC

VARIABLE part

\* The first account is the newest, and two are of the same instant.
NewestFirst == {1 :> 2 @@ 2 :> 1 @@ 3 :> 1}
OneGrant == 1 :> 0 @@ 2 :> 0 @@ 3 :> 1

Init ==
  /\ part \in {"sessions", "presence", "metrics", "ranking"}
  /\ SessionInit /\ PresenceInit /\ MetricsInit /\ RankingInit
  /\ part # "ranking" => eligible = {}

countVars == <<presenceVars, metricsVars>>

Next ==
  \/ part = "sessions" /\ SessionNext /\ UNCHANGED <<part, countVars, rankingVars>>
  \/ part = "presence" /\ PresenceNext /\ UNCHANGED <<part, sessionVars, metricsVars, rankingVars>>
  \/ part = "metrics" /\ MetricsNext /\ UNCHANGED <<part, sessionVars, presenceVars, rankingVars>>
  \/ part = "ranking" /\ RankingNext /\ UNCHANGED <<part, sessionVars, countVars>>

Spec == Init /\ [][Next]_<<part, sessionVars, countVars, rankingVars>>

\* Requests, Collectors and Processes are the same set, no two of them used from
\* one initial state, so that TLC has fewer permutations to try.
Symmetry == Permutations(Ids) \union Permutations(Requests)
=============================================================================
