----------------------------- MODULE MCProgress ------------------------------
(* What must eventually happen, in three components that share no variable,   *)
(* on smaller sets than those of the safety runs and without symmetry: each  *)
(* initial state explores one of them, under its own fairness.               *)
EXTENDS Shop, SecurityMetrics, MCArtifacts

VARIABLE part

MCInit ==
  /\ part \in {"shop", "metrics", "artifacts"}
  /\ Init /\ MetricsInit /\ ArtifactInit

MCNext ==
  \/ part = "shop" /\ Next /\ UNCHANGED <<part, metricsVars, artifactVars>>
  \/ part = "metrics" /\ MetricsNext /\ UNCHANGED <<part, vars, artifactVars>>
  \/ part = "artifacts" /\ ArtifactNext /\ UNCHANGED <<part, vars, metricsVars>>

\* LiveSpec, MetricsLiveSpec and ArtifactFairSpec, each in its part.
MCFairness ==
  /\ \A t \in Tx : SF_vars(part = "shop" /\ Statement(t))
  /\ \A p \in Processes : /\ WF_metricsVars(part = "metrics" /\ Drain(p))
                          /\ SF_metricsVars(part = "metrics" /\ UpsertMinutes(p))
  /\ \A d \in Downloads : /\ WF_artifactVars(part = "artifacts" /\ Step(d))
                          /\ WF_artifactVars(part = "artifacts" /\ Finish(d))

MCSpec == MCInit /\ [][MCNext]_<<part, vars, metricsVars, artifactVars>> /\ MCFairness
=============================================================================
