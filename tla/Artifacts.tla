------------------------------ MODULE Artifacts ------------------------------
(***************************************************************************)
(* The QR downloads of claim-codes/claim-code-artifacts.service.ts: the PDF *)
(* and the ZIP of a batch, rendered card after card into the HTTP response, *)
(* and the PNG of a reusable code.  At most one is produced at a time; its  *)
(* slot comes back when the promise of the work settles, which depends on   *)
(* the events of two streams, the response (the output) and the PDF         *)
(* document or the archive piped into it (the source), and on who listens   *)
(* when they are emitted: a stream emits `close' once.                      *)
(***************************************************************************)
EXTENDS DownloadGate, FiniteSets

CONSTANTS
  Downloads,         \* the requests for an artifact
  MaxCards,          \* the largest artifact (MAX_QR_CARDS)
  Leaves,            \* <<kind, pc>>: where the client may leave
  MaxArtifactFaults  \* bound on the renderings and streams that fail

Kinds == {"pdf", "zip", "png"}
Working == {"render", "resize", "finalize", "flush"}
Resting == {"idle", "busy", "complete", "failed"}

ASSUME ArtifactsAssumption ==
  /\ MaxCards \in Nat \ {0} /\ MaxArtifactFaults \in Nat
  /\ Leaves \subseteq Kinds \X ({"reading"} \union Working)

VARIABLES
  download,  \* the downloads
  artifactFaults

artifactVars == <<active, download, artifactFaults>>

\* reading: the cards are being read, before the gate.  listening, settled, source:
\* monitorOutput (endWithBuffer for a PNG, which has no source).
DownloadState == [kind : Kinds, pc : {"reading"} \union Working \union Resting,
             size : 1 .. MaxCards, done : 0 .. MaxCards,
             output : {"open", "finished", "closed"}, listening : BOOLEAN,
             settled : {"no", "ok", "failed"},
             source : {"none", "live", "broken", "destroyed"}]

Asked(kind, size) ==
  [kind |-> kind, pc |-> "reading", size |-> size, done |-> 0, output |-> "open",
   listening |-> FALSE, settled |-> "no", source |-> "none"]

ArtifactTypeOK ==
  /\ GateTypeOK
  /\ download \in [Downloads -> DownloadState]
  /\ artifactFaults \in 0 .. MaxArtifactFaults

ArtifactInit ==
  /\ GateInit
  /\ download = [d \in Downloads |-> [Asked("pdf", 1) EXCEPT !.pc = "idle"]]
  /\ artifactFaults = 0

-----------------------------------------------------------------------------

UpdateArtifact(d, e) == download' = [download EXCEPT ![d] = e]
Goes(d, e) == UpdateArtifact(d, e) /\ UNCHANGED active
EndsWithoutFinally(d, e) ==
  UpdateArtifact(d, e) /\ IF e.pc = "complete" THEN GiveBack("qr") ELSE UNCHANGED active
Ends(d, e) == UpdateArtifact(d, e) /\ GiveBack("qr")

\* finish and fail of monitorOutput: the first one settles the promise, and the
\* listeners are removed.
Settled(e, outcome) ==
  IF e.listening /\ e.settled = "no" THEN [e EXCEPT !.settled = outcome] ELSE e

DestroySource(e) == IF e.source = "none" THEN e ELSE [e EXCEPT !.source = "destroyed"]

\* The catch of writeQrPdf and writeQrZip: lifecycle.abort, then the error leaves
\* the work.  writeQrPng has none, and the answer is left to the error filter.
AbortDownloadByEnding(e) == [e EXCEPT !.pc = "failed", !.output = "finished"]
AbortDownload(e) ==
  IF e.kind = "png" THEN [e EXCEPT !.pc = "failed"]
  ELSE [Settled(DestroySource(e), "failed") EXCEPT
          !.pc = "failed", !.output = IF @ = "open" THEN "closed" ELSE @]

\* An administrator asks for an artifact.
AskArtifact(d) ==
  /\ download[d].pc \in Resting
  /\ \E kind \in Kinds, size \in 1 .. MaxCards :
       /\ kind = "png" => size = 1
       /\ Goes(d, Asked(kind, size))
  /\ UNCHANGED artifactFaults

\* The cards have been read.  beforeWrite sets the headers, the writer begins.
Enter(d) ==
  LET e == download[d]
  IN /\ e.pc = "reading"
     /\ IF Busy("qr")
        THEN Goes(d, [e EXCEPT !.pc = "busy"])
        ELSE /\ UpdateArtifact(d, IF e.kind = "png" THEN [e EXCEPT !.pc = "render"]
                          ELSE [e EXCEPT !.pc = "render", !.listening = TRUE,
                                         !.source = "live"])
             /\ TakeSlot("qr")
     /\ UNCHANGED artifactFaults

\* lifecycle.throwIfAborted.
Aborted(e) == e.settled = "failed"

\* The end of an iteration: the next card, or the end of the source.
NextCard(d, e) ==
  \/ e.done < e.size /\ ~Aborted(e) /\ Goes(d, [e EXCEPT !.pc = "render"])
  \/ e.done < e.size /\ Aborted(e) /\ Ends(d, AbortDownload(e))
  \/ /\ e.done = e.size
     /\ Goes(d, [e EXCEPT !.pc = IF e.kind = "zip" THEN "finalize" ELSE "flush"])

\* renderQrCardPng answers.  endWithBuffer begins to listen only now.
Rendered(d) ==
  LET e == download[d]
  IN /\ e.pc = "render"
     /\ \/ /\ e.kind = "png"
           /\ Goes(d, [e EXCEPT !.pc = "flush", !.done = 1, !.listening = TRUE])
        \/ e.kind # "png" /\ Aborted(e) /\ Ends(d, AbortDownload(e))
        \/ e.kind = "pdf" /\ ~Aborted(e) /\ Goes(d, [e EXCEPT !.pc = "resize"])
        \/ e.kind = "zip" /\ ~Aborted(e) /\ NextCard(d, [e EXCEPT !.done = @ + 1])
     /\ UNCHANGED artifactFaults

\* The image is resized for the page, and drawn.
Resized(d) ==
  /\ download[d].pc = "resize"
  /\ NextCard(d, [download[d] EXCEPT !.done = @ + 1])
  /\ UNCHANGED artifactFaults

ArtifactFault == artifactFaults < MaxArtifactFaults /\ artifactFaults' = artifactFaults + 1

RenderingFails(d) ==
  /\ download[d].pc \in {"render", "resize"}
  /\ ArtifactFault
  /\ Ends(d, AbortDownload(download[d]))

\* archive.finalize() settles on two events of archiver's engine alone: its end,
\* once the archive has been read to its end, and its error.  An archive that is
\* destroyed raises neither.
Finalized(d) ==
  LET e == download[d]
  IN /\ e.pc = "finalize"
     /\ \/ e.source = "live" /\ e.output # "closed" /\ Goes(d, [e EXCEPT !.pc = "flush"])
        \/ e.source = "broken" /\ Ends(d, AbortDownload(e))
     /\ UNCHANGED artifactFaults

\* The output is closed and reads no more, but the archive was not destroyed and
\* its rest fits the buffers on the way, so that its engine ends all the same.
FinalizedUnread(d) ==
  LET e == download[d]
  IN /\ e.pc = "finalize" /\ e.source = "live" /\ e.output = "closed"
     /\ Goes(d, [e EXCEPT !.pc = "flush"])
     /\ UNCHANGED artifactFaults

\* await lifecycle.promise.
PromiseSettles(d) ==
  LET e == download[d]
  IN /\ e.pc = "flush"
     /\ \/ e.settled = "ok" /\ Ends(d, [e EXCEPT !.pc = "complete"])
        \/ e.settled = "failed" /\ Ends(d, AbortDownload(e))
     /\ UNCHANGED artifactFaults

\* The output emits finish: the source has ended, and everything is written.
Finish(d) ==
  LET e == download[d]
  IN /\ e.pc \in {"finalize", "flush"}
     /\ e.output = "open" /\ e.source \in {"none", "live"}
     /\ Goes(d, Settled([e EXCEPT !.output = "finished"], "ok"))
     /\ UNCHANGED artifactFaults

\* The same with nobody listening to close.
LeaveUnheard(d) ==
  LET e == download[d]
  IN /\ <<e.kind, e.pc>> \in Leaves /\ e.output = "open"
     /\ Goes(d, [e EXCEPT !.output = "closed"])
     /\ UNCHANGED artifactFaults

\* The client leaves and the output emits close.  With onClose listening, the
\* source is destroyed too.
LeaveArtifact(d) ==
  LET e == [download[d] EXCEPT !.output = "closed"]
  IN /\ <<e.kind, e.pc>> \in Leaves
     /\ download[d].output = "open"
     /\ Goes(d, IF e.listening /\ e.settled = "no"
                THEN Settled(DestroySource(e), "failed") ELSE e)
     /\ UNCHANGED artifactFaults

\* The output emits error, then close, for which nobody listens any more.
OutputFails(d) ==
  LET e == download[d]
  IN /\ e.pc \in Working /\ e.listening /\ e.output = "open"
     /\ Goes(d, Settled([e EXCEPT !.output = "closed"], "failed"))
     /\ ArtifactFault

\* The document or the archive emits error.
SourceFails(d) ==
  LET e == download[d]
  IN /\ e.pc \in Working /\ e.source = "live" /\ e.output = "open"
     /\ Goes(d, Settled([e EXCEPT !.source = "broken"], "failed"))
     /\ ArtifactFault

Step(d) == Enter(d) \/ Rendered(d) \/ Resized(d) \/ Finalized(d) \/ PromiseSettles(d)

ArtifactNext ==
  \E d \in Downloads :
    \/ AskArtifact(d) \/ Step(d) \/ FinalizedUnread(d)
    \/ RenderingFails(d) \/ Finish(d) \/ LeaveArtifact(d) \/ OutputFails(d) \/ SourceFails(d)

ArtifactSpec == ArtifactInit /\ [][ArtifactNext]_artifactVars

\* The process and its libraries go on, and a client that stays reads its file.
\* That the rest of an archive nobody reads is small is not asked.
ArtifactFairSpec == ArtifactSpec /\ \A d \in Downloads : WF_artifactVars(Step(d)) /\ WF_artifactVars(Finish(d))

-----------------------------------------------------------------------------

(* The slot is held by exactly the artifacts in production, never by more   *)
(* than the capacity (DownloadGate.run around the writers).                 *)
SlotsAreTheArtifacts ==
  /\ active["qr"] = Cardinality({d \in Downloads : download[d].pc \in Working})
  /\ active["qr"] <= Capacity["qr"]

(* A response that finished carries every card, and only such a response    *)
(* counts as complete: when a rendering or a stream fails half-way the      *)
(* client sees the connection break, never a shorter file that looks whole  *)
(* (abort and monitorOutput).                                               *)
FinishedMeansWhole ==
  \A d \in Downloads :
    /\ download[d].output = "finished" => download[d].done = download[d].size
    /\ download[d].pc = "complete" => download[d].output = "finished"

(* An artifact in production whose client is still there once its writer    *)
(* listens comes to an end and gives its slot back, whichever of client,    *)
(* card, stream and archive fails first, unless the response closes while   *)
(* archive.finalize() is awaited (monitorOutput and its onClose).           *)
HeardDownloadsEnd ==
  \A d \in Downloads :
    download[d].pc \in Working /\ download[d].listening /\ download[d].output = "open"
      ~> \/ download[d].pc \notin Working
         \/ download[d].pc = "finalize" /\ download[d].output = "closed"

(* Every artifact whose production began comes to an end and gives its      *)
(* slot back, whether or not its client waits for it (marco-12 design, line *)
(* 395).  The code does not keep this: not for a client that leaves before  *)
(* the writer listens, nor for one that leaves an archive being finalized.  *)
DownloadsEnd ==
  \A d \in Downloads : download[d].pc \in Working ~> download[d].pc \notin Working
=============================================================================
