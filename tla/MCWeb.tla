-------------------------------- MODULE MCWeb --------------------------------
(* What one browser does, and the downloads it may ask for, on small sets:    *)
(* the session of a tab; the dialog that reads a code; Exports and Artifacts, *)
(* whose kinds of slots keep them apart.  They share no variable; each        *)
(* initial state explores one of them.                                        *)
EXTENDS WebSession, RedeemDialog, Exports, MCArtifacts, TLC

VARIABLE part

\* The last row of an export is a wide one.
Widths == [i \in 1 .. LastId |-> IF i = LastId THEN 3 ELSE 1]
Init ==
  /\ part \in {"tab", "dialog", "exports", "artifacts"}
  /\ TabInit /\ DialogInit /\ ExportInit /\ ArtifactInit
  /\ part # "exports" => selected = {}

Next ==
  \/ /\ part = "tab" /\ TabNext
     /\ UNCHANGED <<part, dialogVars, exportVars, artifactVars>>
  \/ /\ part = "dialog" /\ DialogNext
     /\ UNCHANGED <<part, tabVars, exportVars, artifactVars>>
  \/ /\ part = "exports" /\ ExportNext
     /\ UNCHANGED <<part, tabVars, dialogVars, download, artifactFaults>>
  \/ /\ part = "artifacts" /\ ArtifactNext
     /\ UNCHANGED <<part, tabVars, dialogVars, selected, export, writes, exportFaults>>

Spec == Init /\ [][Next]_<<part, tabVars, dialogVars, exportVars, artifactVars>>

\* Codes and Downloads are the set Sessions, Scanners and Requests the set Calls,
\* no two of them used from one initial state, so that TLC has fewer permutations.
Symmetry == Permutations(Sessions) \union Permutations(Calls)
=============================================================================
