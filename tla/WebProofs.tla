------------------------------- MODULE WebProofs -------------------------------
(***************************************************************************)
(* Proofs about what a browser does and downloads: the dialog that redeems *)
(* a code (RedeemDialog), the QR downloads (Artifacts), the CSV exports    *)
(* (Exports) and the session of a tab (WebSession).                        *)
(***************************************************************************)
EXTENDS WebSession, RedeemDialog, Exports, Artifacts, FiniteSetTheorems, TLAPS

-----------------------------------------------------------------------------
(* The dialog.  A scanner is lit from the moment its stream plays; it is   *)
(* handed over to the one that is on the screen, which is on the screen of *)
(* an open dialog, or stopped.                                             *)

LitWhileShown ==
  \A s \in Scanners :
    /\ scanner[s].mounted => open
    /\ scanner[s].lit => scanner[s].stage = "playing"
                         \/ (scanner[s].stage = "running" /\ scanner[s].mounted)
OneMounted ==
  \A s, t \in Scanners : scanner[s].mounted /\ scanner[t].mounted => s = t
DetectedIsTheField == cameraState = "detected" => field = detectedCode

DialogTypes ==
  /\ open \in BOOLEAN
  /\ cameraState \in {"manual", "detected", "camera-error"} \union Viewfinder
  /\ field \in Codes \union {NoCode} /\ detectedCode \in Codes \union {NoCode}
  /\ scanner \in [Scanners -> Scanner]
  /\ pending \in Codes \union {NoCode} /\ redeemed \subseteq Codes

DialogInvariant == DialogTypes /\ LitWhileShown /\ OneMounted /\ DetectedIsTheField

\* Scanners of which at most one is mounted are at most one.
LEMMA AtMostOneMounted ==
  ASSUME OneMounted
  PROVE  Cardinality({s \in Scanners : scanner[s].mounted}) <= 1
<1> DEFINE M == {s \in Scanners : scanner[s].mounted}
<1>1. CASE M = {}
  BY <1>1, FS_EmptySet
<1>2. CASE M # {}
  <2>1. PICK s \in M : TRUE
    BY <1>2
  <2>2. M = {s}
    BY <2>1 DEF OneMounted
  <2> QED BY <2>2, FS_Singleton
<1> QED BY <1>1, <1>2

\* Unmounting every scanner keeps them scanners, leaves none on the screen, and
\* lit only those whose start is under way.
LEMMA UnmountingStops ==
  ASSUME NEW scanners \in [Scanners -> Scanner],
         \A s \in Scanners : scanners[s].lit =>
           scanners[s].stage = "playing" \/ (scanners[s].stage = "running" /\ scanners[s].mounted)
  PROVE  /\ ScannerUnmounted(scanners) \in [Scanners -> Scanner]
         /\ \A s \in Scanners :
              /\ ~ScannerUnmounted(scanners)[s].mounted
              /\ ScannerUnmounted(scanners)[s].lit => ScannerUnmounted(scanners)[s].stage = "playing"
<1> SUFFICES ASSUME NEW sc \in Scanner,
                    sc.lit => sc.stage = "playing" \/ (sc.stage = "running" /\ sc.mounted)
             PROVE  /\ Cleanup(sc) \in Scanner
                    /\ ~Cleanup(sc).mounted
                    /\ Cleanup(sc).lit => Cleanup(sc).stage = "playing"
  BY DEF ScannerUnmounted
<1>1. sc \in Scanner
  OBVIOUS
<1>2. sc.lit => sc.stage = "playing" \/ (sc.stage = "running" /\ sc.mounted)
  OBVIOUS
<1>3. CASE ~sc.mounted
  <2>1. Cleanup(sc) = sc
    BY <1>3 DEF Cleanup
  <2> QED BY <1>1, <1>2, <1>3, <2>1
<1>4. CASE sc.mounted /\ sc.stage = "running"
  BY <1>1, <1>4 DEF Cleanup, Stopped, Scanner
<1>5. CASE sc.mounted /\ sc.stage # "running"
  <2>1. Cleanup(sc) = [sc EXCEPT !.mounted = FALSE]
    BY <1>5 DEF Cleanup
  <2>2. [sc EXCEPT !.mounted = FALSE] \in Scanner
    BY <1>1 DEF Scanner
  <2>3. [sc EXCEPT !.mounted = FALSE].lit = sc.lit /\ [sc EXCEPT !.mounted = FALSE].stage = sc.stage
        /\ [sc EXCEPT !.mounted = FALSE].mounted = FALSE
    BY <1>1 DEF Scanner
  <2> QED BY <1>2, <1>5, <2>1, <2>2, <2>3
<1> QED BY <1>3, <1>4, <1>5

\* The invariant when every scanner has been unmounted.
LEMMA UnmountedDialogIsConsistent ==
  ASSUME NEW scanners \in [Scanners -> Scanner],
         \A s \in Scanners : scanners[s].lit =>
           scanners[s].stage = "playing" \/ (scanners[s].stage = "running" /\ scanners[s].mounted),
         scanner' = ScannerUnmounted(scanners)
  PROVE  scanner' \in [Scanners -> Scanner] /\ LitWhileShown' /\ OneMounted'
BY UnmountingStops DEF LitWhileShown, OneMounted

\* A new scanner is mounted, and no other.
LEMMA StartCameraKeepsOne ==
  ASSUME DialogInvariant, open, open', StartCamera(scanner)
  PROVE  scanner' \in [Scanners -> Scanner] /\ LitWhileShown' /\ OneMounted'
<1>1. PICK s \in Scanners :
        scanner' = [ScannerUnmounted(scanner) EXCEPT
                      ![s] = [Unused EXCEPT !.stage = "importing", !.mounted = TRUE]]
  BY DEF StartCamera
<1>2. /\ ScannerUnmounted(scanner) \in [Scanners -> Scanner]
      /\ \A t \in Scanners :
           /\ ~ScannerUnmounted(scanner)[t].mounted
           /\ ScannerUnmounted(scanner)[t].lit => ScannerUnmounted(scanner)[t].stage = "playing"
  BY UnmountingStops DEF DialogInvariant, DialogTypes, LitWhileShown
<1> DEFINE mounting == [Unused EXCEPT !.stage = "importing", !.mounted = TRUE]
<1>3. Unused \in Scanner /\ Unused.lit = FALSE
  BY DEF Unused, Scanner
<1>4. mounting \in Scanner /\ mounting.lit = FALSE
  BY <1>3 DEF Scanner
<1>5. scanner' = [ScannerUnmounted(scanner) EXCEPT ![s] = mounting]
  BY <1>1
<1> HIDE DEF mounting
<1> QED BY <1>2, <1>4, <1>5 DEF LitWhileShown, OneMounted

\* A scanner changes alone, and stays or stops being on the screen.
LEMMA OneScannerChanges ==
  ASSUME DialogInvariant, NEW s \in Scanners, NEW sc \in Scanner,
         scanner' = [scanner EXCEPT ![s] = sc], open' = open,
         sc.mounted => scanner[s].mounted,
         sc.lit => sc.stage = "playing" \/ (sc.stage = "running" /\ sc.mounted)
  PROVE  scanner' \in [Scanners -> Scanner] /\ LitWhileShown' /\ OneMounted'
BY DEF DialogInvariant, DialogTypes, LitWhileShown, OneMounted

\* The start of a scanner, and its frames.
LEMMA ScannerStepsKeepTheDialog ==
  ASSUME DialogInvariant, NEW s \in Scanners,
         Imported(s) \/ Granted(s) \/ StartFails(s) \/ FirstFrame(s) \/ Frame(s)
  PROVE  DialogInvariant'
<1> DEFINE sc == scanner[s]
<1>0. sc \in Scanner /\ scanner \in [Scanners -> Scanner]
  BY DEF DialogInvariant, DialogTypes
<1>t. sc.lit => sc.stage = "playing" \/ (sc.stage = "running" /\ sc.mounted)
  BY DEF DialogInvariant, LitWhileShown
<1>1. CASE Imported(s)
  <2>1. scanner' = [scanner EXCEPT ![s] = [sc EXCEPT !.stage = "asking"]]
    BY <1>0, <1>1 DEF Imported
  <2>2. [sc EXCEPT !.stage = "asking"] \in Scanner
    BY <1>0 DEF Scanner
  <2>3. ~sc.lit
    BY <1>t, <1>1 DEF Imported
  <2>4. scanner' \in [Scanners -> Scanner] /\ LitWhileShown' /\ OneMounted'
    BY <1>0, <1>1, <2>1, <2>2, <2>3, OneScannerChanges DEF Imported, Scanner
  <2> QED BY <1>1, <2>4 DEF Imported, DialogInvariant, DialogTypes, DetectedIsTheField, form, requests
<1>2. CASE Granted(s)
  <2>1. scanner' = [scanner EXCEPT ![s] = [sc EXCEPT !.stage = "playing", !.lit = TRUE]]
    BY <1>0, <1>2 DEF Granted
  <2>2. [sc EXCEPT !.stage = "playing", !.lit = TRUE] \in Scanner
    BY <1>0 DEF Scanner
  <2>3. scanner' \in [Scanners -> Scanner] /\ LitWhileShown' /\ OneMounted'
    BY <1>0, <1>2, <2>1, <2>2, OneScannerChanges DEF Granted, Scanner
  <2> QED BY <1>2, <2>3 DEF Granted, DialogInvariant, DialogTypes, DetectedIsTheField, form, requests
<1>s. Stopped(sc) \in Scanner /\ ~Stopped(sc).lit /\ Stopped(sc).mounted = sc.mounted
  BY <1>0 DEF Stopped, Scanner
<1>3. CASE StartFails(s)
  <2>1. CASE sc.mounted
    <3>1. /\ scanner' = ScannerUnmounted([scanner EXCEPT ![s] = Stopped(sc)])
          /\ cameraState' = "camera-error"
      BY <1>3, <2>1 DEF StartFails
    <3> DEFINE stopped == Stopped(sc)
    <3> HIDE DEF stopped
    <3>0. stopped \in Scanner /\ ~stopped.lit
      BY <1>s DEF stopped
    <3> DEFINE scanners == [scanner EXCEPT ![s] = stopped]
    <3>3. scanners \in [Scanners -> Scanner]
      BY <1>0, <3>0
    <3>4. \A t \in Scanners : scanners[t].lit =>
            scanners[t].stage = "playing" \/ (scanners[t].stage = "running" /\ scanners[t].mounted)
      BY <1>0, <3>0 DEF DialogInvariant, LitWhileShown
    <3>5. scanner' = ScannerUnmounted(scanners)
      BY <3>1 DEF stopped
    <3> HIDE DEF scanners
    <3>2. scanner' \in [Scanners -> Scanner] /\ LitWhileShown' /\ OneMounted'
      BY <3>3, <3>4, <3>5, UnmountedDialogIsConsistent
    <3> QED BY <1>3, <3>1, <3>2 DEF StartFails, DialogInvariant, DialogTypes, DetectedIsTheField, form, requests
  <2>2. CASE ~sc.mounted
    <3>1. scanner' = [scanner EXCEPT ![s] = Stopped(sc)] /\ cameraState' = cameraState
      BY <1>3, <2>2 DEF StartFails
    <3>2. scanner' \in [Scanners -> Scanner] /\ LitWhileShown' /\ OneMounted'
      BY <1>3, <1>s, <3>1, OneScannerChanges DEF StartFails
    <3> QED BY <1>3, <3>1, <3>2 DEF StartFails, DialogInvariant, DialogTypes, DetectedIsTheField, form, requests
  <2> QED BY <2>1, <2>2
<1>4. ASSUME NEW c \in Codes, Detect(s, c)
      PROVE  DialogInvariant'
  <2> DEFINE stopped == [Stopped(sc) EXCEPT !.hasDetected = TRUE]
  <2>1. stopped \in Scanner /\ ~stopped.lit
    BY <1>0, <1>s DEF Stopped, Scanner
  <2>2. scanner' = ScannerUnmounted([scanner EXCEPT ![s] = stopped])
    BY <1>4 DEF Detect
  <2> HIDE DEF stopped
  <2> DEFINE scanners == [scanner EXCEPT ![s] = stopped]
  <2>4. scanners \in [Scanners -> Scanner]
    BY <1>0, <2>1
  <2>5. \A t \in Scanners : scanners[t].lit =>
          scanners[t].stage = "playing" \/ (scanners[t].stage = "running" /\ scanners[t].mounted)
    BY <1>0, <2>1 DEF DialogInvariant, LitWhileShown
  <2>6. scanner' = ScannerUnmounted(scanners)
    BY <2>2
  <2> HIDE DEF scanners
  <2>3. scanner' \in [Scanners -> Scanner] /\ LitWhileShown' /\ OneMounted'
    BY <2>4, <2>5, <2>6, UnmountedDialogIsConsistent
  <2> QED BY <1>4, <2>3 DEF Detect, DialogInvariant, DialogTypes, DetectedIsTheField, form, requests
<1>5. ASSUME sc.stage = "playing", HandOver(s), UNCHANGED <<open, form, requests>>
      PROVE  DialogInvariant'
  <2>1. CASE sc.mounted
    <3>1. scanner' = [scanner EXCEPT ![s] = [sc EXCEPT !.stage = "running"]]
      BY <1>0, <1>5, <2>1 DEF HandOver
    <3>2. [sc EXCEPT !.stage = "running"] \in Scanner
      BY <1>0 DEF Scanner
    <3>3. scanner' \in [Scanners -> Scanner] /\ LitWhileShown' /\ OneMounted'
      BY <1>0, <1>5, <2>1, <3>1, <3>2, OneScannerChanges DEF Scanner
    <3>4. cameraState' = IF cameraState = "requesting" THEN "scanning" ELSE cameraState
      BY <1>5, <2>1 DEF HandOver
    <3> QED BY <1>5, <3>3, <3>4 DEF DialogInvariant, DialogTypes, DetectedIsTheField, form, requests, Viewfinder
  <2>2. CASE ~sc.mounted
    <3>1. scanner' = [scanner EXCEPT ![s] = Stopped(sc)] /\ cameraState' = cameraState
      BY <1>5, <2>2 DEF HandOver
    <3>2. scanner' \in [Scanners -> Scanner] /\ LitWhileShown' /\ OneMounted'
      BY <1>5, <1>s, <3>1, OneScannerChanges
    <3> QED BY <1>5, <3>1, <3>2 DEF DialogInvariant, DialogTypes, DetectedIsTheField, form, requests
  <2> QED BY <2>1, <2>2
<1>6. CASE FirstFrame(s)
  BY <1>4, <1>5, <1>6 DEF FirstFrame
<1>7. CASE Frame(s)
  BY <1>4, <1>7 DEF Frame
<1> QED BY <1>1, <1>2, <1>3, <1>6, <1>7

\* The user, and the answers of the API.
LEMMA UserStepsKeepTheDialog ==
  ASSUME DialogInvariant, User \/ Accepted \/ Refused
  PROVE  DialogInvariant'
<1> USE DEF DialogInvariant, DialogTypes, DetectedIsTheField, form, requests
<1>0. scanner \in [Scanners -> Scanner]
  OBVIOUS
<1>1. CASE OpenDialog
  BY <1>1 DEF OpenDialog, LitWhileShown, OneMounted
<1>r. ASSUME Reset
      PROVE  scanner' \in [Scanners -> Scanner] /\ LitWhileShown' /\ OneMounted'
  BY <1>r, UnmountedDialogIsConsistent DEF Reset, LitWhileShown
<1>2. CASE CloseDialog
  BY <1>2, <1>r DEF CloseDialog, Reset
<1>3. CASE UseCamera
  <2>1. scanner' \in [Scanners -> Scanner] /\ LitWhileShown' /\ OneMounted'
    BY <1>3, StartCameraKeepsOne DEF UseCamera
  <2> QED BY <1>3, <2>1 DEF UseCamera, StartCamera, Viewfinder
<1>4. CASE StopCamera
  <2>1. scanner' \in [Scanners -> Scanner] /\ LitWhileShown' /\ OneMounted'
    BY <1>4, UnmountedDialogIsConsistent DEF StopCamera, LitWhileShown
  <2> QED BY <1>4, <2>1 DEF StopCamera
<1>5. CASE ScanAgain
  <2>1. scanner' \in [Scanners -> Scanner] /\ LitWhileShown' /\ OneMounted'
    BY <1>5, StartCameraKeepsOne DEF ScanAgain
  <2> QED BY <1>5, <2>1 DEF ScanAgain, StartCamera, Viewfinder
<1>6. CASE SubmitCode
  BY <1>6 DEF SubmitCode, LitWhileShown, OneMounted
<1>7. ASSUME NEW c \in Codes \union {NoCode}, Type(c)
      PROVE  DialogInvariant'
  <2>1. LitWhileShown' /\ OneMounted'
    BY <1>7 DEF Type, LitWhileShown, OneMounted
  <2> QED BY <1>7, <2>1 DEF Type
<1>8. CASE Accepted
  BY <1>8, <1>r DEF Accepted, Reset
<1>9. CASE Refused
  BY <1>9 DEF Refused, LitWhileShown, OneMounted
<1> QED BY <1>1, <1>2, <1>3, <1>4, <1>5, <1>6, <1>7, <1>8, <1>9 DEF User

LEMMA DialogStutters ==
  ASSUME DialogInvariant, UNCHANGED dialogVars
  PROVE  DialogInvariant'
BY DEF DialogInvariant, DialogTypes, LitWhileShown, OneMounted, DetectedIsTheField, dialogVars, form, requests

(* What the dialog shows, and which scanners are on the screen and lit, is *)
(* so in every behaviour of redeem-code-dialog.tsx and qr-scanner.ts, for   *)
(* any number of scanners and codes.                                       *)
THEOREM DialogInvariance == DialogSpec => []DialogInvariant
<1>1. DialogInit => DialogInvariant
  <2>1. Unused \in Scanner /\ Unused.lit = FALSE /\ Unused.mounted = FALSE
    BY DEF Unused, Scanner
  <2> QED BY <2>1 DEF DialogInit, DialogInvariant, DialogTypes, LitWhileShown, OneMounted, DetectedIsTheField
<1>2. DialogInvariant /\ [DialogNext]_dialogVars => DialogInvariant'
  BY ScannerStepsKeepTheDialog, UserStepsKeepTheDialog, DialogStutters DEF DialogNext
<1> QED BY <1>1, <1>2, PTL DEF DialogSpec

(* The types, and that at most one scanner is mounted at a time.            *)
THEOREM DialogTypeCorrect == DialogSpec => []DialogTypeOK
<1>1. DialogInvariant => DialogTypeOK
  BY AtMostOneMounted DEF DialogInvariant, DialogTypes, DialogTypeOK
<1> QED BY <1>1, DialogInvariance, PTL

(* "Confirmar resgate" redeems the code shown as detected, and a camera is  *)
(* lit only for the scanner on the screen of an open dialog or for one that *)
(* is still starting.                                                       *)
THEOREM DialogStaysAsShown == DialogSpec => []DialogIsAsShown
<1>1. DialogInvariant => DialogIsAsShown
  BY DEF DialogInvariant, LitWhileShown, DetectedIsTheField, DialogIsAsShown
<1> QED BY <1>1, DialogInvariance, PTL

-----------------------------------------------------------------------------
(* The slots.  Whoever takes one was not under way, and gives it back when  *)
(* it ceases to be.                                                         *)

Counts(n, S) == IsFiniteSet(S) /\ n = Cardinality(S)

\* One more holder: the gate had a slot left.
LEMMA SlotTaken ==
  ASSUME GateTypeOK, NEW kind \in DownloadKinds, NEW S, NEW x, x \notin S,
         Counts(active[kind], S), ~Busy(kind), TakeSlot(kind)
  PROVE  GateTypeOK' /\ Counts(active'[kind], S \union {x})
<1>1. IsFiniteSet(S \union {x}) /\ Cardinality(S \union {x}) = Cardinality(S) + 1
  BY FS_AddElement DEF Counts
<1>0. active[kind] \in Nat /\ Capacity[kind] \in Nat /\ active \in [DownloadKinds -> Nat]
  BY CapacityAssumption DEF GateTypeOK
<1>2. active[kind] < Capacity[kind]
  BY <1>0 DEF Busy
<1>3. /\ active' \in [DownloadKinds -> Nat] /\ active'[kind] = active[kind] + 1
      /\ \A k \in DownloadKinds \ {kind} : active'[k] = active[k]
  BY <1>0 DEF TakeSlot
<1>4. \A k \in DownloadKinds : active'[k] <= Capacity[k]
  <2> SUFFICES ASSUME NEW k \in DownloadKinds PROVE active'[k] <= Capacity[k]
    OBVIOUS
  <2>1. CASE k = kind
    BY <1>0, <1>2, <1>3, <2>1
  <2>2. CASE k # kind
    BY <1>3, <2>2 DEF GateTypeOK
  <2> QED BY <2>1, <2>2
<1> QED BY <1>1, <1>3, <1>4 DEF GateTypeOK, Counts

\* One holder less: the counter is not at zero.
LEMMA SlotGivenBack ==
  ASSUME GateTypeOK, NEW kind \in DownloadKinds, NEW S, NEW x \in S,
         Counts(active[kind], S), GiveBack(kind)
  PROVE  GateTypeOK' /\ Counts(active'[kind], S \ {x})
<1>1. IsFiniteSet(S \ {x}) /\ Cardinality(S \ {x}) = Cardinality(S) - 1
  BY FS_RemoveElement DEF Counts
<1>2. Cardinality(S) \in Nat /\ Cardinality(S \ {x}) \in Nat
  BY <1>1, FS_CardinalityType DEF Counts
<1>3. active[kind] > 0 /\ active[kind] \in Nat
  BY <1>1, <1>2 DEF Counts
<1>4. /\ active' \in [DownloadKinds -> Nat] /\ active'[kind] = active[kind] - 1
      /\ \A k \in DownloadKinds \ {kind} : active'[k] = active[k]
  BY <1>3 DEF GiveBack, GateTypeOK
<1>5. \A k \in DownloadKinds : active'[k] <= Capacity[k]
  <2> SUFFICES ASSUME NEW k \in DownloadKinds PROVE active'[k] <= Capacity[k]
    OBVIOUS
  <2>0. Capacity[k] \in Nat /\ active[k] <= Capacity[k]
    BY CapacityAssumption DEF GateTypeOK
  <2>1. CASE k = kind
    BY <1>3, <1>4, <2>0, <2>1
  <2>2. CASE k # kind
    BY <1>4, <2>0, <2>2
  <2> QED BY <2>1, <2>2
<1> QED BY <1>1, <1>4, <1>5 DEF GateTypeOK, Counts

-----------------------------------------------------------------------------
(* The QR downloads.  An artifact is finished only after its last card, and *)
(* its promise is kept only by an output that finished.                     *)

Producing == {d \in Downloads : download[d].pc \in Working}

\* What its response carries, and what its promise was told of it.
Truthful(e) ==
  /\ e \in DownloadState
  /\ e.kind = "png" => e.size = 1
  /\ e.output = "finished" => e.done = e.size
  /\ e.settled = "ok" => e.output = "finished"
Sound(e) ==
  /\ Truthful(e)
  /\ e.pc \in {"finalize", "flush", "complete"} => e.done = e.size
  /\ e.pc \in {"reading", "render", "resize"} => e.done < e.size /\ e.output # "finished"
  /\ e.pc = "complete" => e.output = "finished"

ArtifactInvariant ==
  /\ GateTypeOK /\ Counts(active["qr"], Producing)
  /\ download \in [Downloads -> DownloadState]
  /\ artifactFaults \in 0 .. MaxArtifactFaults
  /\ \A d \in Downloads : Sound(download[d])

\* What a step does to the slots: nothing, take one, or give one back.
Keeps(d, e) == Goes(d, e) /\ (e.pc \in Working <=> download[d].pc \in Working)
Takes(d, e) ==
  /\ UpdateArtifact(d, e) /\ TakeSlot("qr") /\ ~Busy("qr")
  /\ e.pc \in Working /\ download[d].pc \notin Working
GivesBack(d, e) == Ends(d, e) /\ e.pc \notin Working /\ download[d].pc \in Working

LEMMA SlotsFollowTheArtifacts ==
  ASSUME ArtifactInvariant, NEW d \in Downloads, NEW e, Sound(e),
         Keeps(d, e) \/ Takes(d, e) \/ GivesBack(d, e),
         artifactFaults' \in 0 .. MaxArtifactFaults
  PROVE  ArtifactInvariant'
<1>0. download' = [download EXCEPT ![d] = e] /\ download \in [Downloads -> DownloadState]
  BY DEF Keeps, Takes, GivesBack, Goes, Ends, UpdateArtifact, ArtifactInvariant
<1>1. /\ download' \in [Downloads -> DownloadState]
      /\ \A x \in Downloads : Sound(download[x])'
  BY <1>0 DEF Sound, Truthful, ArtifactInvariant
<1>2. GateTypeOK' /\ Counts(active'["qr"], Producing')
  <2>0. GateTypeOK /\ Counts(active["qr"], Producing) /\ "qr" \in DownloadKinds
    BY DEF ArtifactInvariant, DownloadKinds
  <2>1. CASE Keeps(d, e)
    <3>1. Producing' = Producing
      BY <1>0, <2>1 DEF Keeps, Producing
    <3> QED BY <2>0, <2>1, <3>1 DEF Keeps, Goes, GateTypeOK, Counts
  <2>2. CASE Takes(d, e)
    <3>1. Producing' = Producing \union {d} /\ d \notin Producing
      BY <1>0, <2>2 DEF Takes, Producing
    <3>2. GateTypeOK' /\ Counts(active'["qr"], Producing \union {d})
      BY <2>0, <2>2, <3>1, SlotTaken DEF Takes
    <3> QED BY <3>1, <3>2 DEF Counts
  <2>3. CASE GivesBack(d, e)
    <3>1. Producing' = Producing \ {d} /\ d \in Producing
      BY <1>0, <2>3 DEF GivesBack, Producing
    <3>2. GateTypeOK' /\ Counts(active'["qr"], Producing \ {d})
      BY <2>0, <2>3, <3>1, SlotGivenBack DEF GivesBack, Ends
    <3> QED BY <3>1, <3>2 DEF Counts
  <2> QED BY <2>1, <2>2, <2>3
<1> QED BY <1>1, <1>2 DEF ArtifactInvariant

\* settled moves once, with what it is told.
LEMMA SettlingIsTruthful ==
  ASSUME NEW e, Truthful(e), NEW outcome \in {"ok", "failed"},
         outcome = "ok" => e.output = "finished"
  PROVE  /\ Truthful(Settled(e, outcome))
         /\ Settled(e, outcome).pc = e.pc /\ Settled(e, outcome).output = e.output
         /\ Settled(e, outcome).done = e.done /\ Settled(e, outcome).size = e.size
BY DEF Settled, Truthful, DownloadState

LEMMA DestroyingIsTruthful ==
  ASSUME NEW e, Truthful(e)
  PROVE  /\ Truthful(DestroySource(e))
         /\ DestroySource(e).pc = e.pc /\ DestroySource(e).output = e.output
         /\ DestroySource(e).done = e.done /\ DestroySource(e).size = e.size
BY DEF DestroySource, Truthful, DownloadState

LEMMA AbortIsSound ==
  ASSUME NEW e, Truthful(e)
  PROVE  Sound(AbortDownload(e)) /\ AbortDownload(e).pc = "failed"
<1>1. CASE e.kind = "png"
  BY <1>1 DEF AbortDownload, Sound, Truthful, DownloadState, Working, Resting
<1>2. CASE e.kind # "png"
  <2> DEFINE f == Settled(DestroySource(e), "failed")
  <2>1. Truthful(f)
    BY SettlingIsTruthful, DestroyingIsTruthful
  <2>2. AbortDownload(e)
          = [f EXCEPT !.pc = "failed", !.output = IF @ = "open" THEN "closed" ELSE @]
    BY <1>2 DEF AbortDownload
  <2> HIDE DEF f
  <2>3. CASE f.output = "open"
    BY <2>1, <2>2, <2>3 DEF Sound, Truthful, DownloadState, Working, Resting
  <2>4. CASE f.output # "open"
    BY <2>1, <2>2, <2>4 DEF Sound, Truthful, DownloadState, Working, Resting
  <2> QED BY <2>3, <2>4
<1> QED BY <1>1, <1>2

\* An artifact that is aborted gives its slot back.
LEMMA AbortingGivesBack ==
  ASSUME ArtifactInvariant, NEW d \in Downloads, download[d].pc \in Working,
         NEW e, Truthful(e), Ends(d, AbortDownload(e)), artifactFaults' \in 0 .. MaxArtifactFaults
  PROVE  ArtifactInvariant'
<1>1. Sound(AbortDownload(e)) /\ GivesBack(d, AbortDownload(e))
  BY AbortIsSound DEF GivesBack, Working
<1> QED BY <1>1, SlotsFollowTheArtifacts

\* The end of an iteration.
LEMMA NextCardKeepsTheInvariant ==
  ASSUME ArtifactInvariant, NEW d \in Downloads, download[d].pc \in Working,
         NEW e, Truthful(e), e.pc \in {"render", "resize"}, e.output # "finished",
         NextCard(d, e), artifactFaults' \in 0 .. MaxArtifactFaults
  PROVE  ArtifactInvariant'
<1>1. CASE e.done < e.size /\ ~Aborted(e) /\ Goes(d, [e EXCEPT !.pc = "render"])
  <2>1. Sound([e EXCEPT !.pc = "render"])
    BY <1>1 DEF Sound, Truthful, DownloadState, Working
  <2>2. Keeps(d, [e EXCEPT !.pc = "render"])
    BY <1>1 DEF Keeps, Truthful, DownloadState, Working
  <2> QED BY <2>1, <2>2, SlotsFollowTheArtifacts
<1>2. CASE e.done < e.size /\ Aborted(e) /\ Ends(d, AbortDownload(e))
  BY <1>2, AbortingGivesBack
<1>3. CASE e.done = e.size /\ Goes(d, [e EXCEPT !.pc = IF e.kind = "zip" THEN "finalize" ELSE "flush"])
  <2> DEFINE f == [e EXCEPT !.pc = IF e.kind = "zip" THEN "finalize" ELSE "flush"]
  <2>1. Sound(f) /\ f.pc \in Working
    BY <1>3 DEF Sound, Truthful, DownloadState, Working
  <2>2. Keeps(d, f)
    BY <1>3, <2>1 DEF Keeps
  <2> QED BY <2>1, <2>2, SlotsFollowTheArtifacts
<1> QED BY <1>1, <1>2, <1>3 DEF NextCard

\* The work goes on.
LEMMA StepKeepsTheArtifacts ==
  ASSUME ArtifactInvariant, NEW d \in Downloads, Step(d)
  PROVE  ArtifactInvariant'
<1> DEFINE e == download[d]
<1>0. /\ Sound(e) /\ Truthful(e)
      /\ artifactFaults' = artifactFaults /\ artifactFaults' \in 0 .. MaxArtifactFaults
  BY DEF ArtifactInvariant, Sound, Step, Enter, Rendered, Resized, Finalized, PromiseSettles
<1>1. CASE Enter(d)
  <2>1. CASE Busy("qr") /\ Goes(d, [e EXCEPT !.pc = "busy"])
    <3>1. Sound([e EXCEPT !.pc = "busy"]) /\ Keeps(d, [e EXCEPT !.pc = "busy"])
      BY <1>0, <1>1, <2>1 DEF Enter, Sound, Truthful, DownloadState, Keeps, Working, Resting
    <3> QED BY <1>0, <3>1, SlotsFollowTheArtifacts
  <2>2. ASSUME ~Busy("qr"), TakeSlot("qr"), NEW f, UpdateArtifact(d, f),
               f \in {[e EXCEPT !.pc = "render"],
                      [e EXCEPT !.pc = "render", !.listening = TRUE, !.source = "live"]}
        PROVE  ArtifactInvariant'
    <3>1. Sound(f)
      BY <1>0, <1>1, <2>2 DEF Enter, Sound, Truthful, DownloadState, Working
    <3>2. Takes(d, f)
      BY <1>0, <1>1, <2>2 DEF Enter, Takes, Truthful, DownloadState, Working
    <3> QED BY <1>0, <3>1, <3>2, SlotsFollowTheArtifacts
  <2> QED BY <1>1, <2>1, <2>2 DEF Enter
<1>2. CASE Rendered(d)
  <2>1. CASE e.kind = "png" /\ Goes(d, [e EXCEPT !.pc = "flush", !.done = 1, !.listening = TRUE])
    <3> DEFINE f == [e EXCEPT !.pc = "flush", !.done = 1, !.listening = TRUE]
    <3>0. e \in DownloadState /\ e.size = 1 /\ (e.settled = "ok" => e.output = "finished")
          /\ e.output # "finished"
      BY <1>0, <1>2, <2>1 DEF Rendered, Sound, Truthful
    <3>3. /\ f.pc = "flush" /\ f.done = 1 /\ f.size = 1 /\ f.kind = "png"
          /\ f.output = e.output /\ f.settled = e.settled
      BY <2>1, <3>0 DEF DownloadState
    <3>5. 1 \in 0 .. MaxCards
      BY ArtifactsAssumption
    <3>4. f \in DownloadState
      <4>1. [e EXCEPT !.pc = "flush"] \in DownloadState
        BY <3>0 DEF DownloadState, Working
      <4>2. [[e EXCEPT !.pc = "flush"] EXCEPT !.done = 1] \in DownloadState
        BY <3>5, <4>1 DEF DownloadState
      <4> DEFINE h == [[e EXCEPT !.pc = "flush"] EXCEPT !.done = 1]
      <4>3. f = [h EXCEPT !.listening = TRUE]
        OBVIOUS
      <4> HIDE DEF h
      <4> QED BY <4>2, <4>3 DEF DownloadState, h
    <3> HIDE DEF f
    <3>1. Sound(f) /\ f.pc = "flush"
      BY <3>0, <3>3, <3>4 DEF Sound, Truthful
    <3>2. Keeps(d, f)
      BY <1>2, <2>1, <3>1 DEF Rendered, Keeps, Working, f
    <3> QED BY <1>0, <3>1, <3>2, SlotsFollowTheArtifacts
  <2>2. CASE Ends(d, AbortDownload(e))
    BY <1>0, <1>2, <2>2, AbortingGivesBack DEF Rendered, Working
  <2>3. CASE Goes(d, [e EXCEPT !.pc = "resize"])
    <3>1. Sound([e EXCEPT !.pc = "resize"]) /\ Keeps(d, [e EXCEPT !.pc = "resize"])
      BY <1>0, <1>2, <2>3 DEF Rendered, Sound, Truthful, DownloadState, Keeps, Working
    <3> QED BY <1>0, <3>1, SlotsFollowTheArtifacts
  <2>4. CASE e.kind = "zip" /\ NextCard(d, [e EXCEPT !.done = @ + 1])
    <3> DEFINE f == [e EXCEPT !.done = @ + 1]
    <3>1. Truthful(f) /\ f.pc = "render" /\ f.output # "finished"
      BY <1>0, <1>2, <2>4, ArtifactsAssumption DEF Rendered, Sound, Truthful, DownloadState, Working
    <3> QED BY <1>0, <1>2, <2>4, <3>1, NextCardKeepsTheInvariant DEF Rendered, Working
  <2> QED BY <1>2, <2>1, <2>2, <2>3, <2>4 DEF Rendered
<1>3. CASE Resized(d)
  <2> DEFINE f == [e EXCEPT !.done = @ + 1]
  <2>1. Truthful(f) /\ f.pc = "resize" /\ f.output # "finished"
    BY <1>0, <1>3, ArtifactsAssumption DEF Resized, Sound, Truthful, DownloadState, Working
  <2> QED BY <1>0, <1>3, <2>1, NextCardKeepsTheInvariant DEF Resized, Working
<1>4. CASE Finalized(d)
  <2>1. CASE Goes(d, [e EXCEPT !.pc = "flush"])
    <3>1. Sound([e EXCEPT !.pc = "flush"]) /\ Keeps(d, [e EXCEPT !.pc = "flush"])
      BY <1>0, <1>4, <2>1 DEF Finalized, Sound, Truthful, DownloadState, Keeps, Working
    <3> QED BY <1>0, <3>1, SlotsFollowTheArtifacts
  <2>2. CASE Ends(d, AbortDownload(e))
    BY <1>0, <1>4, <2>2, AbortingGivesBack DEF Finalized, Working
  <2> QED BY <1>4, <2>1, <2>2 DEF Finalized
<1>5. CASE PromiseSettles(d)
  <2>1. CASE e.settled = "ok" /\ Ends(d, [e EXCEPT !.pc = "complete"])
    <3>1. Sound([e EXCEPT !.pc = "complete"]) /\ GivesBack(d, [e EXCEPT !.pc = "complete"])
      BY <1>0, <1>5, <2>1 DEF PromiseSettles, Sound, Truthful, DownloadState, GivesBack, Working, Resting
    <3> QED BY <1>0, <3>1, SlotsFollowTheArtifacts
  <2>2. CASE Ends(d, AbortDownload(e))
    BY <1>0, <1>5, <2>2, AbortingGivesBack DEF PromiseSettles, Working
  <2> QED BY <1>5, <2>1, <2>2 DEF PromiseSettles
<1> QED BY <1>1, <1>2, <1>3, <1>4, <1>5 DEF Step

\* What the user, the streams and the renderer do.
LEMMA EventsKeepTheArtifacts ==
  ASSUME ArtifactInvariant, NEW d \in Downloads,
         \/ AskArtifact(d) \/ RenderingFails(d) \/ Finish(d) \/ LeaveArtifact(d)
         \/ OutputFails(d) \/ SourceFails(d) \/ FinalizedUnread(d)
  PROVE  ArtifactInvariant'
<1> DEFINE e == download[d]
<1>0. /\ Sound(e) /\ Truthful(e)
      /\ artifactFaults' \in 0 .. MaxArtifactFaults
  BY ArtifactsAssumption DEF ArtifactInvariant, Sound, AskArtifact, RenderingFails, Finish,
       LeaveArtifact, OutputFails, SourceFails, FinalizedUnread, ArtifactFault
<1>1. CASE AskArtifact(d)
  <2>1. PICK kind \in Kinds, size \in 1 .. MaxCards :
          (kind = "png" => size = 1) /\ Goes(d, Asked(kind, size))
    BY <1>1 DEF AskArtifact
  <2>2. Sound(Asked(kind, size))
    BY <2>1, ArtifactsAssumption DEF Asked, Sound, Truthful, DownloadState, Working, Resting
  <2>3. Keeps(d, Asked(kind, size))
    BY <1>1, <2>1 DEF AskArtifact, Asked, Keeps, Working, Resting
  <2> QED BY <1>0, <2>2, <2>3, SlotsFollowTheArtifacts
<1>2. CASE RenderingFails(d)
  BY <1>0, <1>2, AbortingGivesBack DEF RenderingFails, Working
\* An event that leaves pc, done and size as they are.
<1>3. ASSUME NEW f, Truthful(f), Goes(d, f), f.pc = e.pc, f.done = e.done, f.size = e.size,
             f.output = e.output \/ (f.output = "closed" /\ e.output = "open")
                \/ (f.output = "finished" /\ e.pc \in {"finalize", "flush"})
      PROVE  ArtifactInvariant'
  <2>1. Sound(f) /\ Keeps(d, f)
    BY <1>0, <1>3 DEF Sound, Keeps
  <2> QED BY <1>0, <2>1, SlotsFollowTheArtifacts
<1>4. CASE Finish(d)
  <2> DEFINE g == [e EXCEPT !.output = "finished"]
  <2>1. /\ Truthful(g) /\ g.output = "finished"
        /\ g.pc = e.pc /\ g.done = e.done /\ g.size = e.size
    BY <1>0, <1>4 DEF Finish, Sound, Truthful, DownloadState
  <2>2. Goes(d, Settled(g, "ok")) /\ e.pc \in {"finalize", "flush"}
    BY <1>4 DEF Finish
  <2> HIDE DEF g
  <2> QED BY <1>3, <2>1, <2>2, SettlingIsTruthful
<1> DEFINE c == [e EXCEPT !.output = "closed"]
<1>5. ASSUME e.output = "open"
      PROVE  /\ Truthful(c) /\ c.output = "closed"
             /\ c.pc = e.pc /\ c.done = e.done /\ c.size = e.size
  BY <1>0, <1>5 DEF Sound, Truthful, DownloadState
<1>6. CASE LeaveArtifact(d)
  <2>1. /\ Goes(d, IF c.listening /\ c.settled = "no"
                   THEN Settled(DestroySource(c), "failed") ELSE c)
        /\ e.output = "open"
    BY <1>6 DEF LeaveArtifact
  <2>2. Goes(d, Settled(DestroySource(c), "failed")) \/ Goes(d, c)
    BY <2>1
  <2> HIDE DEF c
  <2>3. /\ Truthful(DestroySource(c)) /\ DestroySource(c).output = "closed"
        /\ DestroySource(c).pc = e.pc /\ DestroySource(c).done = e.done /\ DestroySource(c).size = e.size
    BY <1>5, <2>1, DestroyingIsTruthful
  <2> QED BY <1>3, <1>5, <2>1, <2>2, <2>3, SettlingIsTruthful
<1>7. CASE OutputFails(d)
  <2>1. Goes(d, Settled(c, "failed")) /\ e.output = "open"
    BY <1>7 DEF OutputFails
  <2> HIDE DEF c
  <2> QED BY <1>3, <1>5, <2>1, SettlingIsTruthful
<1>8. CASE SourceFails(d)
  <2> DEFINE b == [e EXCEPT !.source = "broken"]
  <2>1. /\ Truthful(b) /\ b.output = e.output
        /\ b.pc = e.pc /\ b.done = e.done /\ b.size = e.size
    BY <1>0, <1>8 DEF SourceFails, Sound, Truthful, DownloadState
  <2>2. Goes(d, Settled(b, "failed"))
    BY <1>8 DEF SourceFails
  <2> HIDE DEF b
  <2> QED BY <1>3, <2>1, <2>2, SettlingIsTruthful
<1>9. CASE FinalizedUnread(d)
  <2>1. Sound([e EXCEPT !.pc = "flush"]) /\ Keeps(d, [e EXCEPT !.pc = "flush"])
    BY <1>0, <1>9 DEF FinalizedUnread, Sound, Truthful, DownloadState, Keeps, Working
  <2> QED BY <1>0, <1>9, <2>1, SlotsFollowTheArtifacts DEF FinalizedUnread
<1> QED BY <1>1, <1>2, <1>4, <1>6, <1>7, <1>8, <1>9

(* The slots and the promises of the QR downloads, in every behaviour of    *)
(* claim-code-artifacts.service.ts, wherever its clients leave (Leaves).    *)
THEOREM ArtifactInvariance == ArtifactSpec => []ArtifactInvariant
<1>1. ArtifactInit => ArtifactInvariant
  <2> SUFFICES ASSUME ArtifactInit PROVE ArtifactInvariant
    OBVIOUS
  <2>1. GateTypeOK /\ active["qr"] = 0
    BY CapacityAssumption DEF ArtifactInit, GateInit, GateTypeOK, DownloadKinds
  <2> DEFINE e == [Asked("pdf", 1) EXCEPT !.pc = "idle"]
  <2>6. 1 \in 1 .. MaxCards /\ 0 \in 0 .. MaxCards
    BY ArtifactsAssumption
  <2>7. /\ Asked("pdf", 1) \in DownloadState
        /\ Asked("pdf", 1).kind = "pdf" /\ Asked("pdf", 1).output = "open"
        /\ Asked("pdf", 1).settled = "no"
    BY <2>6 DEF Asked, DownloadState, Kinds, Working, Resting
  <2>8. /\ e \in DownloadState /\ e.pc = "idle"
        /\ e.kind = "pdf" /\ e.output = "open" /\ e.settled = "no"
    BY <2>7 DEF DownloadState, Resting
  <2>2. Sound(e) /\ e.pc = "idle"
    BY <2>8 DEF Sound, Truthful
  <2>3. download = [d \in Downloads |-> e]
    BY DEF ArtifactInit
  <2> HIDE DEF e
  <2>4. Producing = {}
    BY <2>2, <2>3 DEF Producing, Working
  <2>5. Counts(active["qr"], Producing)
    BY <2>1, <2>4, FS_EmptySet DEF Counts
  <2> QED BY <2>1, <2>2, <2>3, <2>5, ArtifactsAssumption DEF ArtifactInit, ArtifactInvariant, Sound, Truthful
<1>2. ArtifactInvariant /\ [ArtifactNext]_artifactVars => ArtifactInvariant'
  <2>1. ArtifactInvariant /\ UNCHANGED artifactVars => ArtifactInvariant'
    BY DEF ArtifactInvariant, artifactVars, GateTypeOK, Counts, Producing
  <2> QED BY <2>1, StepKeepsTheArtifacts, EventsKeepTheArtifacts DEF ArtifactNext
<1> QED BY <1>1, <1>2, PTL DEF ArtifactSpec

(* The types of the QR downloads.                                           *)
THEOREM ArtifactTypeCorrect == ArtifactSpec => []ArtifactTypeOK
<1>1. ArtifactInvariant => ArtifactTypeOK
  BY DEF ArtifactInvariant, ArtifactTypeOK
<1> QED BY <1>1, ArtifactInvariance, PTL

(* The slot of the QR downloads is held by exactly those in production, and *)
(* never by more than its capacity: nothing keeps one or gives one back     *)
(* twice (DownloadGate.run).                                                *)
THEOREM ArtifactSlotsAreHeld == ArtifactSpec => []SlotsAreTheArtifacts
<1>1. ArtifactInvariant => SlotsAreTheArtifacts
  BY DEF ArtifactInvariant, SlotsAreTheArtifacts, Counts, Producing, GateTypeOK, DownloadKinds
<1> QED BY <1>1, ArtifactInvariance, PTL

(* Only a response with every card finishes, and only one that finished     *)
(* counts as complete.                                                      *)
THEOREM ArtifactsFinishWhole == ArtifactSpec => []FinishedMeansWhole
<1>1. ArtifactInvariant => FinishedMeansWhole
  BY DEF ArtifactInvariant, FinishedMeansWhole, Sound, Truthful
<1> QED BY <1>1, ArtifactInvariance, PTL

-----------------------------------------------------------------------------
(* The exports.  Blocks of rows in the order of their identifiers.          *)

Increasing(s) == \A m, n \in 1 .. Len(s) : m < n => s[m] < s[n]

\* As many rows lie below another the lower it is.
LEMMA LowerHasFewerBelow ==
  ASSUME NEW S \in SUBSET Nat, IsFiniteSet(S), NEW i \in S, NEW j \in S, i < j
  PROVE  Cardinality({k \in S : k < i}) < Cardinality({k \in S : k < j})
<1> DEFINE A == {k \in S : k < i}
           B == {k \in S : k < j}
<1>1. IsFiniteSet(A) /\ IsFiniteSet(B)
  BY FS_Subset
<1>2. A \union {i} \subseteq B /\ i \notin A
  <2>1. \A k \in S : k \in Nat
    OBVIOUS
  <2>2. \A k \in S : k < i => k < j
    BY <2>1
  <2>3. ~(i < i)
    BY <2>1
  <2> QED BY <2>2, <2>3
<1>3. IsFiniteSet(A \union {i}) /\ Cardinality(A \union {i}) = Cardinality(A) + 1
  BY <1>1, <1>2, FS_AddElement
<1>4. Cardinality(A \union {i}) <= Cardinality(B)
  BY <1>1, <1>2, FS_Subset
<1>5. Cardinality(A) \in Nat /\ Cardinality(B) \in Nat
  BY <1>1, FS_CardinalityType
<1> QED BY <1>3, <1>4, <1>5

\* Of the rows of a finite set, one has each number of rows below it.
LEMMA EveryPlaceIsTaken ==
  ASSUME NEW S \in SUBSET Nat, IsFiniteSet(S), NEW n \in 1 .. Cardinality(S)
  PROVE  \E i \in S : Cardinality({j \in S : j < i}) = n - 1
<1>0. Cardinality(S) \in Nat
  BY FS_CardinalityType
<1> DEFINE Place == [i \in S |-> Cardinality({j \in S : j < i}) + 1]
<1>1. \A i \in S : Cardinality({j \in S : j < i}) \in Nat /\ Cardinality({j \in S : j < i}) < Cardinality(S)
  <2> SUFFICES ASSUME NEW i \in S
               PROVE  LET B == {j \in S : j < i}
                      IN Cardinality(B) \in Nat /\ Cardinality(B) < Cardinality(S)
    OBVIOUS
  <2> DEFINE B == {j \in S : j < i}
  <2>1. IsFiniteSet(B) /\ Cardinality(B) <= Cardinality(S) /\ (Cardinality(S) = Cardinality(B) => S = B)
    BY FS_Subset
  <2>2. S # B
    OBVIOUS
  <2>3. Cardinality(B) \in Nat
    BY <2>1, FS_CardinalityType
  <2> HIDE DEF B
  <2>4. Cardinality(B) \in Nat /\ Cardinality(B) < Cardinality(S)
    BY <1>0, <2>1, <2>2, <2>3
  <2> QED BY <2>4 DEF B
<1>2. Place \in [S -> 1 .. Cardinality(S)]
  BY <1>0, <1>1
<1>3. Place \in Injection(S, 1 .. Cardinality(S))
  <2> SUFFICES ASSUME NEW i \in S, NEW j \in S, Place[i] = Place[j] PROVE i = j
    BY <1>2 DEF Injection, IsInjective
  <2>1. Cardinality({k \in S : k < i}) = Cardinality({k \in S : k < j})
    BY <1>1
  <2>2. ~(i < j) /\ ~(j < i)
    BY <1>1, <2>1, LowerHasFewerBelow
  <2> QED BY <2>2
<1>4. IsFiniteSet(1 .. Cardinality(S)) /\ Cardinality(1 .. Cardinality(S)) = Cardinality(S)
  BY <1>0, FS_Interval
<1>5. Place \in Surjection(S, 1 .. Cardinality(S))
  BY <1>3, <1>4, FS_Injection
<1>6. PICK i \in S : Place[i] = n
  BY <1>5 DEF Surjection
<1> QED BY <1>1, <1>6

\* The sequence of a finite set of rows: increasing, and exactly these rows.
LEMMA RowsInOrder ==
  ASSUME NEW S \in SUBSET Nat, IsFiniteSet(S)
  PROVE  /\ InOrder(S) \in Seq(S) /\ Len(InOrder(S)) = Cardinality(S)
         /\ Increasing(InOrder(S)) /\ Range(InOrder(S)) = S
<1>0. Cardinality(S) \in Nat
  BY FS_CardinalityType
<1> DEFINE s == InOrder(S)
           Below(i) == Cardinality({j \in S : j < i})
<1>1. \A n \in 1 .. Cardinality(S) : s[n] \in S /\ Below(s[n]) = n - 1
  BY EveryPlaceIsTaken DEF InOrder
<1>2. s \in [1 .. Cardinality(S) -> S] /\ DOMAIN s = 1 .. Cardinality(S)
  BY <1>1 DEF InOrder
<1>3. s \in Seq(S) /\ Len(s) = Cardinality(S)
  BY <1>0, <1>2
<1>5. \A i \in S : Below(i) \in Nat
  BY FS_Subset, FS_CardinalityType
<1> HIDE DEF s, Below
<1>6. Increasing(s)
  <2> SUFFICES ASSUME NEW m \in 1 .. Len(s), NEW n \in 1 .. Len(s), m < n PROVE s[m] < s[n]
    BY DEF Increasing
  <2>1. Below(s[m]) < Below(s[n]) /\ s[m] \in S /\ s[n] \in S
    BY <1>0, <1>1, <1>3
  <2>2. s[m] \in Nat /\ s[n] \in Nat
    BY <2>1
  <2>3. Below(s[m]) \in Nat /\ Below(s[n]) \in Nat
    BY <1>5, <2>1
  <2>4. ~(s[n] < s[m])
    <3>1. s[n] < s[m] => Below(s[n]) < Below(s[m])
      BY <2>1, LowerHasFewerBelow DEF Below
    <3> QED BY <2>1, <2>3, <3>1
  <2>5. s[n] # s[m]
    BY <2>1, <2>3
  <2> QED BY <2>2, <2>4, <2>5
<1>7. Range(s) = S
  <2>1. \A m, n \in 1 .. Cardinality(S) : s[m] = s[n] => m = n
    BY <1>0, <1>1
  <2>2. s \in Injection(1 .. Cardinality(S), S)
    BY <1>2, <2>1 DEF Injection, IsInjective
  <2>3. IsFiniteSet(1 .. Cardinality(S)) /\ Cardinality(1 .. Cardinality(S)) = Cardinality(S)
    BY <1>0, FS_Interval
  <2>4. s \in Surjection(1 .. Cardinality(S), S)
    BY <2>2, <2>3, FS_Injection
  <2> QED BY <1>2, <2>4 DEF Surjection, Range
<1> QED BY <1>3, <1>6, <1>7 DEF s

LEMMA IdsAreFinite ==
  ASSUME NEW S \in SUBSET Ids
  PROVE  S \in SUBSET Nat /\ IsFiniteSet(S)
<1>1. LastId \in Int /\ 1 \in Int /\ Ids \subseteq Nat
  BY SizesAssumption DEF Ids
<1>2. IsFiniteSet(Ids)
  BY <1>1, FS_Interval DEF Ids
<1> QED BY <1>1, <1>2, FS_Subset

\* An empty block: the filter selects nothing further.  Otherwise the block has
\* every selected row from the identifier it starts after to its last one.
LEMMA BlockIsNext ==
  ASSUME selected \in SUBSET Ids, NEW a \in 0 .. LastId
  PROVE  LET block == FindExportBlock(a)
         IN /\ block \in Seq(Ids) /\ Increasing(block)
            /\ block = <<>> => \A i \in selected : i <= a
            /\ \A n \in 1 .. Len(block) : block[n] \in selected /\ a < block[n]
            /\ block # <<>> =>
                 /\ Last(block) \in Ids
                 /\ \A n \in 1 .. Len(block) : block[n] <= Last(block)
                 /\ \A i \in selected : a < i /\ i <= Last(block) => i \in Range(block)
<1> DEFINE rest == {i \in selected : i > a}
           S == {i \in rest : Cardinality({j \in rest : j < i}) < BatchSize}
           block == InOrder(S)
<1>0. LastId \in Nat /\ BatchSize \in Nat /\ BatchSize > 0
  BY SizesAssumption
<1>1. /\ rest \in SUBSET Nat /\ IsFiniteSet(rest) /\ S \in SUBSET Nat /\ IsFiniteSet(S)
      /\ S \subseteq rest /\ rest \subseteq selected /\ rest \subseteq Ids
  BY IdsAreFinite
<1>2. /\ block \in Seq(S) /\ Len(block) = Cardinality(S)
      /\ Increasing(block) /\ Range(block) = S
  BY <1>1, RowsInOrder
<1>r. \A i \in rest : i \in Nat /\ a < i /\ i \in selected
  BY <1>1
<1>3. \A i \in S, k \in rest : k < i => k \in S
  <2> SUFFICES ASSUME NEW i \in S, NEW k \in rest, k < i
               PROVE  Cardinality({j \in rest : j < k}) < BatchSize
    OBVIOUS
  <2>1. Cardinality({j \in rest : j < k}) < Cardinality({j \in rest : j < i})
    BY <1>1, LowerHasFewerBelow
  <2>2. Cardinality({j \in rest : j < k}) \in Nat /\ Cardinality({j \in rest : j < i}) \in Nat
    BY <1>1, FS_Subset, FS_CardinalityType
  <2> QED BY <1>0, <2>1, <2>2
<1>4. S = {} => rest = {}
  <2> SUFFICES ASSUME S = {}, rest # {} PROVE FALSE
    OBVIOUS
  <2>1. Cardinality(rest) \in Nat /\ Cardinality(rest) # 0
    BY <1>1, FS_EmptySet, FS_CardinalityType
  <2>3. 1 \in 1 .. Cardinality(rest)
    BY <2>1
  <2>2. PICK i \in rest : Cardinality({j \in rest : j < i}) = 0
    <3> HIDE DEF rest
    <3>1. \A n \in 1 .. Cardinality(rest) : \E i \in rest : Cardinality({j \in rest : j < i}) = n - 1
      BY <1>1, EveryPlaceIsTaken
    <3>2. PICK i \in rest : Cardinality({j \in rest : j < i}) = 1 - 1
      BY <2>3, <3>1
    <3>3. 1 - 1 = 0
      OBVIOUS
    <3> QED BY <3>2, <3>3
  <2> QED BY <1>0, <2>2
<1> HIDE DEF block, S, rest
<1>5. block = <<>> <=> S = {}
  <2>1. Cardinality(S) = 0 <=> S = {}
    BY <1>1, FS_EmptySet
  <2>2. block = <<>> <=> Len(block) = 0
    BY <1>2
  <2> QED BY <1>2, <2>1, <2>2
<1>6. \A n \in 1 .. Len(block) : block[n] \in S
  BY <1>2
<1>7. /\ block \in Seq(Ids)
      /\ \A n \in 1 .. Len(block) : block[n] \in selected /\ a < block[n]
  <2>1. S \subseteq Ids
    BY <1>1
  <2>2. Seq(S) \subseteq Seq(Ids)
    BY <2>1
  <2>3. \A i \in S : i \in selected /\ a < i
    BY <1>1, <1>r
  <2> QED BY <1>2, <1>6, <2>2, <2>3
<1>8. block = <<>> => \A i \in selected : i <= a
  <2>1. rest = {} => \A i \in selected : i <= a
    BY SizesAssumption DEF rest, Ids
  <2> QED BY <1>4, <1>5, <2>1
<1>9. ASSUME block # <<>>
      PROVE  /\ Last(block) \in Ids
             /\ \A n \in 1 .. Len(block) : block[n] <= Last(block)
             /\ \A i \in selected : a < i /\ i <= Last(block) => i \in Range(block)
  <2>1. Len(block) \in Nat /\ Len(block) > 0
    BY <1>2, <1>9
  <2>2. Last(block) = block[Len(block)] /\ Last(block) \in S
    BY <1>6, <2>1 DEF Last
  <2>3. \A n \in 1 .. Len(block) : block[n] <= Last(block)
    <3> SUFFICES ASSUME NEW n \in 1 .. Len(block) PROVE block[n] <= Last(block)
      OBVIOUS
    <3>1. block[n] \in Nat /\ Last(block) \in Nat
      BY <1>1, <1>6, <2>2
    <3>2. CASE n = Len(block)
      BY <2>2, <3>1, <3>2
    <3>3. CASE n < Len(block)
      BY <1>2, <2>1, <2>2, <3>1, <3>3 DEF Increasing
    <3> QED BY <2>1, <3>2, <3>3
  <2>4. ASSUME NEW i \in selected, a < i, i <= Last(block) PROVE i \in Range(block)
    <3>1. i \in rest
      BY <2>4, SizesAssumption DEF rest, Ids
    <3>3. i \in Nat /\ Last(block) \in Nat
      BY <1>1, <2>2, <3>1
    <3>2. i = Last(block) \/ i < Last(block)
      BY <2>4, <3>3
    <3> QED BY <1>2, <1>3, <2>2, <3>1, <3>2
  <2> QED BY <1>1, <2>2, <2>3, <2>4
<1>10. FindExportBlock(a) = block
  BY DEF FindExportBlock, block, S, rest
<1> QED BY <1>2, <1>7, <1>8, <1>9, <1>10

\* A block after the rows read so far.
LEMMA BlockFollows ==
  ASSUME NEW rows \in Seq(Ids), NEW block \in Seq(Ids), NEW a \in Nat,
         Increasing(rows), Increasing(block),
         \A n \in 1 .. Len(rows) : rows[n] <= a,
         \A n \in 1 .. Len(block) : a < block[n]
  PROVE  /\ rows \o block \in Seq(Ids)
         /\ Increasing(rows \o block)
         /\ Range(rows \o block) = Range(rows) \union Range(block)
<1> DEFINE all == rows \o block
<1>1. /\ all \in Seq(Ids) /\ Len(all) = Len(rows) + Len(block)
      /\ Len(rows) \in Nat /\ Len(block) \in Nat
      /\ DOMAIN all = 1 .. Len(all) /\ DOMAIN rows = 1 .. Len(rows) /\ DOMAIN block = 1 .. Len(block)
  OBVIOUS
<1>2. \A n \in 1 .. Len(all) :
        \/ n \in 1 .. Len(rows) /\ all[n] = rows[n]
        \/ n - Len(rows) \in 1 .. Len(block) /\ all[n] = block[n - Len(rows)] /\ n > Len(rows)
  BY <1>1
<1>3. /\ \A n \in 1 .. Len(rows) : n \in 1 .. Len(all) /\ all[n] = rows[n]
      /\ \A n \in 1 .. Len(block) : n + Len(rows) \in 1 .. Len(all) /\ all[n + Len(rows)] = block[n]
  BY <1>1
<1>4. \A i \in Ids : i \in Nat
  BY SizesAssumption DEF Ids
<1> HIDE DEF all
<1>5. Increasing(all)
  <2> SUFFICES ASSUME NEW m \in 1 .. Len(all), NEW n \in 1 .. Len(all), m < n PROVE all[m] < all[n]
    BY DEF Increasing
  <2>1. CASE n \in 1 .. Len(rows) /\ all[n] = rows[n]
    <3>1. m \in 1 .. Len(rows) /\ all[m] = rows[m]
      BY <1>1, <1>3, <2>1
    <3> QED BY <2>1, <3>1 DEF Increasing
  <2>2. CASE n - Len(rows) \in 1 .. Len(block) /\ all[n] = block[n - Len(rows)] /\ n > Len(rows)
    <3>1. CASE m \in 1 .. Len(rows) /\ all[m] = rows[m]
      <4>1. rows[m] <= a /\ a < block[n - Len(rows)]
        BY <2>2, <3>1
      <4>2. rows[m] \in Nat /\ block[n - Len(rows)] \in Nat
        BY <1>4, <2>2, <3>1
      <4> QED BY <2>2, <3>1, <4>1, <4>2
    <3>2. CASE m - Len(rows) \in 1 .. Len(block) /\ all[m] = block[m - Len(rows)]
      <4>1. m - Len(rows) < n - Len(rows)
        BY <1>1
      <4> QED BY <2>2, <3>2, <4>1 DEF Increasing
    <3> QED BY <1>2, <3>1, <3>2
  <2> QED BY <1>2, <2>1, <2>2
<1>6. Range(all) = Range(rows) \union Range(block)
  <2>1. ASSUME NEW x \in Range(all) PROVE x \in Range(rows) \union Range(block)
    <3>1. PICK n \in 1 .. Len(all) : x = all[n]
      BY <1>1 DEF Range
    <3> QED BY <1>1, <1>2, <3>1 DEF Range
  <2>2. ASSUME NEW x \in Range(rows) PROVE x \in Range(all)
    BY <1>1, <1>3 DEF Range
  <2>3. ASSUME NEW x \in Range(block) PROVE x \in Range(all)
    BY <1>1, <1>3 DEF Range
  <2> QED BY <2>1, <2>2, <2>3
<1> QED BY <1>1, <1>5, <1>6 DEF all

\* What an export has read: the rows up to afterId, in their order, among them
\* every row that the filter has selected since it began.
ReadSoFar(e) ==
  /\ Increasing(e.rows) /\ Len(e.rows) <= MaxRows
  /\ \A n \in 1 .. Len(e.rows) : e.rows[n] <= e.afterId
  /\ e.always \subseteq selected /\ selected \subseteq e.ever
  /\ \A i \in e.always : i <= e.afterId => i \in Range(e.rows)
  /\ Range(e.rows) \subseteq e.ever
SentWhole(e) ==
  /\ Increasing(e.rows) /\ Len(e.rows) <= MaxRows /\ Bytes(e.rows) <= MaxBytes
  /\ e.always \subseteq Range(e.rows) /\ Range(e.rows) \subseteq e.ever
ExportIsSound(e) ==
  /\ e.pc \in ExportUnderWay => ReadSoFar(e)
  /\ e.pc = "sent" => SentWhole(e)

ExportInvariant ==
  /\ GateTypeOK /\ Counts(active["csv"], Running)
  /\ selected \in SUBSET Ids
  /\ export \in [Requests -> Export]
  /\ writes \in 0 .. MaxWrites /\ exportFaults \in 0 .. MaxExportFaults
  /\ \A r \in Requests : ExportIsSound(export[r])

\* What a step of an export does to the slots.
KeepsExport(r, e) == UpdateExport(r, e) /\ UNCHANGED active /\ (e.pc \in ExportUnderWay <=> r \in Running)
TakesExport(r, e) ==
  UpdateExport(r, e) /\ TakeSlot("csv") /\ ~Busy("csv") /\ e.pc \in ExportUnderWay /\ r \notin Running
GivesExportBack(r, e) ==
  UpdateExport(r, e) /\ GiveBack("csv") /\ e.pc \notin ExportUnderWay /\ r \in Running

LEMMA SlotsFollowTheExports ==
  ASSUME ExportInvariant, NEW r \in Requests, NEW e \in Export, ExportIsSound(e),
         KeepsExport(r, e) \/ TakesExport(r, e) \/ GivesExportBack(r, e),
         UNCHANGED <<selected, writes>>, exportFaults' \in 0 .. MaxExportFaults
  PROVE  ExportInvariant'
<1>0. export' = [export EXCEPT ![r] = e] /\ export \in [Requests -> Export]
  BY DEF KeepsExport, TakesExport, GivesExportBack, UpdateExport, ExportInvariant
<1>1. export' \in [Requests -> Export]
  BY <1>0
<1>2. \A x \in Requests : ExportIsSound(export[x])'
  <2>1. \A x \in Requests : ExportIsSound(export'[x])
    BY <1>0 DEF ExportInvariant
  <2> QED BY <2>1 DEF ExportIsSound, ReadSoFar
<1>3. GateTypeOK' /\ Counts(active'["csv"], Running')
  <2>0. GateTypeOK /\ Counts(active["csv"], Running) /\ "csv" \in DownloadKinds
    BY DEF ExportInvariant, DownloadKinds
  <2>1. CASE KeepsExport(r, e)
    <3>1. Running' = Running
      BY <1>0, <2>1 DEF KeepsExport, Running
    <3> QED BY <2>0, <2>1, <3>1 DEF KeepsExport, GateTypeOK, Counts
  <2>2. CASE TakesExport(r, e)
    <3>1. Running' = Running \union {r} /\ r \notin Running
      BY <1>0, <2>2 DEF TakesExport, Running
    <3>2. GateTypeOK' /\ Counts(active'["csv"], Running \union {r})
      BY <2>0, <2>2, <3>1, SlotTaken DEF TakesExport
    <3> QED BY <3>1, <3>2
  <2>3. CASE GivesExportBack(r, e)
    <3>1. Running' = Running \ {r} /\ r \in Running
      BY <1>0, <2>3 DEF GivesExportBack, Running
    <3>2. GateTypeOK' /\ Counts(active'["csv"], Running \ {r})
      BY <2>0, <2>3, <3>1, SlotGivenBack DEF GivesExportBack
    <3> QED BY <3>1, <3>2
  <2> QED BY <2>1, <2>2, <2>3
<1> QED BY <1>1, <1>2, <1>3 DEF ExportInvariant

LEMMA NoExportIsSound ==
  ASSUME NEW answer \in TurnedAway \union {"idle"}
  PROVE  LET e == [NoExport EXCEPT !.pc = answer]
         IN e \in Export /\ e.pc = answer /\ ExportIsSound(e)
<1> DEFINE e == [NoExport EXCEPT !.pc = answer]
<1>1. NoExport \in Export
  BY SizesAssumption DEF NoExport, Export
<1>2. e \in Export /\ e.pc = answer
  BY <1>1 DEF Export
<1> HIDE DEF e
<1>3. ExportIsSound(e)
  BY <1>2 DEF ExportIsSound, TurnedAway, ExportUnderWay
<1> QED BY <1>2, <1>3 DEF e

\* An export that is refused or fails leaves nothing and gives its slot back.
LEMMA EndingEmptyHanded ==
  ASSUME ExportInvariant, NEW r \in Running, NEW answer \in TurnedAway, End(r, answer),
         UNCHANGED <<selected, writes>>, exportFaults' \in 0 .. MaxExportFaults
  PROVE  ExportInvariant'
<1> DEFINE e == [NoExport EXCEPT !.pc = answer]
<1>1. e \in Export /\ e.pc = answer /\ ExportIsSound(e)
  BY NoExportIsSound
<1>2. UpdateExport(r, e) /\ GiveBack("csv")
  BY DEF End, TurnedAway
<1> HIDE DEF e
<1>3. GivesExportBack(r, e) /\ r \in Requests
  BY <1>1, <1>2 DEF GivesExportBack, TurnedAway, ExportUnderWay, Running
<1> QED BY <1>1, <1>3, SlotsFollowTheExports

LEMMA AskKeepsTheExports ==
  ASSUME ExportInvariant, NEW r \in Requests, AskExport(r)
  PROVE  ExportInvariant'
<1>0. UNCHANGED <<selected, writes>> /\ exportFaults' \in 0 .. MaxExportFaults /\ r \notin Running
  BY DEF AskExport, ExportInvariant
<1>1. CASE Busy("csv")
  <2> DEFINE e == [NoExport EXCEPT !.pc = "busy"]
  <2>1. e \in Export /\ e.pc = "busy" /\ ExportIsSound(e)
    BY NoExportIsSound DEF TurnedAway
  <2>2. UpdateExport(r, e) /\ UNCHANGED active
    BY <1>1 DEF AskExport
  <2> HIDE DEF e
  <2> QED BY <1>0, <2>1, <2>2, SlotsFollowTheExports DEF KeepsExport, ExportUnderWay
<1>2. CASE ~Busy("csv")
  <2> DEFINE e == [NoExport EXCEPT !.pc = "counting", !.always = selected, !.ever = selected]
  <2>0. NoExport \in Export /\ NoExport.rows = <<>> /\ NoExport.afterId = 0
    BY SizesAssumption DEF NoExport, Export
  <2>1. /\ e \in Export /\ e.pc = "counting" /\ e.rows = <<>> /\ e.afterId = 0
        /\ e.always = selected /\ e.ever = selected
    BY <2>0 DEF Export, ExportUnderWay, ExportInvariant
  <2>2. UpdateExport(r, e) /\ TakeSlot("csv")
    BY <1>2 DEF AskExport
  <2> HIDE DEF e
  <2>3. ReadSoFar(e)
    <3>1. \A i \in selected : i \in 1 .. LastId
      BY DEF ExportInvariant, Ids
    <3>2. ~(\E i \in selected : i <= 0)
      BY <3>1, SizesAssumption
    <3>3. Len(e.rows) = 0 /\ Range(e.rows) = {} /\ 1 .. 0 = {}
      BY <2>1 DEF Range
    <3> QED BY <2>1, <3>2, <3>3, SizesAssumption DEF ReadSoFar, Increasing
  <2>4. ExportIsSound(e)
    BY <2>1, <2>3 DEF ExportIsSound
  <2> QED BY <1>0, <1>2, <2>1, <2>2, <2>4, SlotsFollowTheExports DEF TakesExport, ExportUnderWay
<1> QED BY <1>1, <1>2

LEMMA CountKeepsTheExports ==
  ASSUME ExportInvariant, NEW r \in Requests, Count(r)
  PROVE  ExportInvariant'
<1>0. UNCHANGED <<selected, writes>> /\ exportFaults' \in 0 .. MaxExportFaults /\ r \in Running
  BY DEF Count, ExportInvariant, Running, ExportUnderWay
<1>1. CASE End(r, "tooManyRows")
  BY <1>0, <1>1, EndingEmptyHanded DEF TurnedAway
<1>2. CASE UpdateExport(r, [export[r] EXCEPT !.pc = "reading"]) /\ UNCHANGED active
  <2> DEFINE e == [export[r] EXCEPT !.pc = "reading"]
  <2>1. export[r] \in Export /\ ReadSoFar(export[r])
    BY DEF Count, ExportInvariant, ExportIsSound, ExportUnderWay
  <2>2. /\ e \in Export /\ e.pc = "reading" /\ e.rows = export[r].rows /\ e.afterId = export[r].afterId
        /\ e.always = export[r].always /\ e.ever = export[r].ever
    BY <2>1 DEF Export, ExportUnderWay
  <2> HIDE DEF e
  <2>3. ExportIsSound(e)
    BY <2>1, <2>2 DEF ExportIsSound, ReadSoFar
  <2>4. KeepsExport(r, e)
    BY <1>0, <1>2, <2>2 DEF KeepsExport, ExportUnderWay, e
  <2> QED BY <1>0, <2>2, <2>3, <2>4, SlotsFollowTheExports
<1> QED BY <1>1, <1>2 DEF Count

LEMMA ReadBlockKeepsTheExports ==
  ASSUME ExportInvariant, NEW r \in Requests, ReadBlock(r)
  PROVE  ExportInvariant'
<1> DEFINE o == export[r]
           block == FindExportBlock(o.afterId)
           rows == o.rows \o block
<1>0. /\ UNCHANGED <<selected, writes>> /\ exportFaults' \in 0 .. MaxExportFaults /\ r \in Running
      /\ o.pc = "reading"
  BY DEF ReadBlock, ExportInvariant, Running, ExportUnderWay
<1>1. o \in Export /\ ReadSoFar(o) /\ selected \in SUBSET Ids
  BY <1>0 DEF ExportInvariant, ExportIsSound, ExportUnderWay
<1>2. o.afterId \in 0 .. LastId /\ o.rows \in Seq(Ids) /\ o.afterId \in Nat
  BY <1>1, SizesAssumption DEF Export
<1>3. /\ block \in Seq(Ids) /\ Increasing(block)
      /\ block = <<>> => \A i \in selected : i <= o.afterId
      /\ \A n \in 1 .. Len(block) : block[n] \in selected /\ o.afterId < block[n]
      /\ block # <<>> =>
           /\ Last(block) \in Ids
           /\ \A n \in 1 .. Len(block) : block[n] <= Last(block)
           /\ \A i \in selected : o.afterId < i /\ i <= Last(block) => i \in Range(block)
  BY <1>1, <1>2, BlockIsNext
<1>4. /\ rows \in Seq(Ids) /\ Increasing(rows)
      /\ Range(rows) = Range(o.rows) \union Range(block)
  BY <1>1, <1>2, <1>3, BlockFollows DEF ReadSoFar
<1>c. \/ block = <<>> /\ Serialize(r)
      \/ End(r, "tooManyRows")
      \/ /\ block # <<>> /\ ~TooMany(Len(rows))
         /\ UpdateExport(r, [o EXCEPT !.rows = rows, !.afterId = Last(block)])
         /\ UNCHANGED active
  BY DEF ReadBlock
<1> HIDE DEF block, rows
<1>5. CASE End(r, "tooManyRows") \/ End(r, "tooManyBytes")
  BY <1>0, <1>5, EndingEmptyHanded DEF TurnedAway
<1>6. CASE block = <<>> /\ Bytes(o.rows) <= MaxBytes /\ End(r, "sent")
  <2> DEFINE e == [o EXCEPT !.pc = "sent", !.afterId = 0]
  <2>0. 0 \in 0 .. LastId
    BY SizesAssumption
  <2>1. /\ e \in Export /\ e.pc = "sent" /\ e.rows = o.rows
        /\ e.always = o.always /\ e.ever = o.ever
    BY <1>1, <2>0 DEF Export
  <2>2. UpdateExport(r, e) /\ GiveBack("csv")
    BY <1>6 DEF End
  <2> HIDE DEF e
  <2>3. SentWhole(e)
    BY <1>1, <1>3, <1>6, <2>1 DEF ReadSoFar, SentWhole
  <2>4. ExportIsSound(e) /\ GivesExportBack(r, e)
    BY <1>0, <2>1, <2>2, <2>3 DEF ExportIsSound, GivesExportBack, ExportUnderWay
  <2> QED BY <1>0, <2>1, <2>4, SlotsFollowTheExports
<1>7. ASSUME block # <<>>, ~TooMany(Len(rows)),
             UpdateExport(r, [o EXCEPT !.rows = rows, !.afterId = Last(block)]), UNCHANGED active
      PROVE  ExportInvariant'
  <2> DEFINE e == [o EXCEPT !.rows = rows, !.afterId = Last(block)]
  <2>0. Last(block) \in 0 .. LastId /\ Last(block) \in Ids
    BY <1>3, <1>7, SizesAssumption DEF Ids
  <2>1. /\ e \in Export /\ e.pc = "reading" /\ e.rows = rows /\ e.afterId = Last(block)
        /\ e.always = o.always /\ e.ever = o.ever
    BY <1>0, <1>1, <1>4, <2>0 DEF Export
  <2>2. UpdateExport(r, e)
    BY <1>7
  <2> HIDE DEF e
  <2>3. ReadSoFar(e)
    <3>1. Len(rows) <= MaxRows
      BY <1>4, <1>7, SizesAssumption DEF TooMany
    <3>2. o.afterId <= Last(block)
      <4>1. 1 \in 1 .. Len(block)
        BY <1>3, <1>7
      <4>2. o.afterId < block[1] /\ block[1] <= Last(block) /\ block[1] \in Ids
        BY <1>3, <1>7, <4>1
      <4>3. block[1] \in Nat /\ Last(block) \in Nat
        BY <4>2, <2>0, SizesAssumption DEF Ids
      <4> QED BY <1>2, <4>2, <4>3
    <3>3. \A x \in Range(rows) : x <= Last(block)
      <4>1. ASSUME NEW x \in Range(o.rows) PROVE x <= Last(block)
        <5>1. x \in Ids /\ x <= o.afterId
          BY <1>1, <1>2, <4>1 DEF ReadSoFar, Range
        <5> QED BY <1>2, <2>0, <3>2, <5>1, SizesAssumption DEF Ids
      <4>2. ASSUME NEW x \in Range(block) PROVE x <= Last(block)
        BY <1>3, <1>7, <4>2 DEF Range
      <4> QED BY <1>4, <4>1, <4>2
    <3>4. \A n \in 1 .. Len(rows) : rows[n] <= Last(block)
      BY <1>4, <3>3 DEF Range
    <3>5. \A i \in o.always : i <= Last(block) => i \in Range(rows)
      <4> SUFFICES ASSUME NEW i \in o.always, i <= Last(block) PROVE i \in Range(rows)
        OBVIOUS
      <4>0. i \in selected /\ i \in Ids
        BY <1>1 DEF ReadSoFar
      <4>1. i \in selected /\ i \in Nat
        BY <4>0, SizesAssumption DEF Ids
      <4>2. CASE i <= o.afterId
        BY <1>1, <1>4, <4>2 DEF ReadSoFar
      <4>3. CASE o.afterId < i
        BY <1>3, <1>4, <1>7, <4>1, <4>3
      <4> QED BY <1>2, <4>1, <4>2, <4>3
    <3>6. Range(rows) \subseteq o.ever
      <4>1. Range(block) \subseteq selected
        BY <1>3 DEF Range
      <4> QED BY <1>1, <1>4, <4>1 DEF ReadSoFar
    <3> QED BY <1>1, <1>4, <2>1, <3>1, <3>4, <3>5, <3>6 DEF ReadSoFar
  <2>4. ExportIsSound(e) /\ KeepsExport(r, e)
    BY <1>0, <1>7, <2>1, <2>2, <2>3 DEF ExportIsSound, KeepsExport, ExportUnderWay
  <2> QED BY <1>0, <2>1, <2>4, SlotsFollowTheExports
<1>8. CASE block = <<>> /\ Serialize(r)
  BY <1>5, <1>6, <1>8 DEF Serialize
<1> QED BY <1>c, <1>5, <1>7, <1>8

\* A row written between two blocks.
LEMMA WriteKeepsTheExports ==
  ASSUME ExportInvariant, NEW i \in Ids, Write(i)
  PROVE  ExportInvariant'
<1>1. /\ writes' \in 0 .. MaxWrites /\ exportFaults' \in 0 .. MaxExportFaults
      /\ selected' \in SUBSET Ids /\ active' = active
  <2>0. writes \in 0 .. MaxWrites /\ MaxWrites \in Nat
    BY SizesAssumption DEF ExportInvariant
  <2>1. writes' \in 0 .. MaxWrites
    <3>1. writes < MaxWrites /\ writes' = writes + 1
      BY Zenon DEF Write
    <3> QED BY <2>0, <3>1
  <2>2. selected' = selected \ {i} \/ selected' = selected \union {i}
    BY DEF Write
  <2> QED BY <2>1, <2>2 DEF Write, ExportInvariant
<1>2. ASSUME NEW r \in Requests
      PROVE  /\ export'[r] \in Export /\ export'[r].pc = export[r].pc
             /\ ExportIsSound(export[r])'
  <2>0. export[r] \in Export /\ ExportIsSound(export[r])
    BY DEF ExportInvariant
  <2>1. CASE r \notin Running
    <3>1. export'[r] = export[r] /\ export[r].pc \notin ExportUnderWay
      BY <2>1 DEF Write, Running
    <3> QED BY <2>0, <3>1 DEF ExportIsSound, SentWhole
  <2>2. CASE r \in Running
    <3> DEFINE e == [export[r] EXCEPT !.always = @ \intersect selected', !.ever = @ \union selected']
    <3>1. /\ e \in Export /\ e.pc = export[r].pc /\ e.rows = export[r].rows
          /\ e.afterId = export[r].afterId
          /\ e.always = export[r].always \intersect selected'
          /\ e.ever = export[r].ever \union selected'
      BY <1>1, <2>0 DEF Export
    <3>2. export'[r] = e /\ export[r].pc \in ExportUnderWay
      BY <2>2 DEF Write, Running
    <3> HIDE DEF e
    <3>3. ReadSoFar(export[r])
      BY <2>0, <3>2 DEF ExportIsSound
    <3>4. ReadSoFar(export[r])'
      BY <3>1, <3>2, <3>3 DEF ReadSoFar
    <3> QED BY <3>1, <3>2, <3>4 DEF ExportIsSound, ExportUnderWay
  <2> QED BY <2>1, <2>2
<1>3. export' \in [Requests -> Export]
  <2>1. DOMAIN export' = Requests /\ export' = [r \in Requests |-> export'[r]]
    BY DEF Write
  <2> QED BY <1>2, <2>1
<1>4. Running' = Running
  BY <1>2 DEF Running
<1>5. GateTypeOK' /\ Counts(active'["csv"], Running')
  BY <1>1, <1>4 DEF ExportInvariant, GateTypeOK
<1> QED BY <1>1, <1>2, <1>3, <1>5 DEF ExportInvariant

(* What the exports have read, and the slots they hold, in every behaviour  *)
(* of admin-exports.repository.ts and admin-exports.service.ts: for every   *)
(* table, size of block, limit and writing meanwhile.                       *)
THEOREM ExportInvariance == ExportSpec => []ExportInvariant
<1>1. ExportInit => ExportInvariant
  <2> SUFFICES ASSUME ExportInit PROVE ExportInvariant
    OBVIOUS
  <2>1. GateTypeOK /\ active["csv"] = 0
    BY CapacityAssumption DEF ExportInit, GateInit, GateTypeOK, DownloadKinds
  <2>2. NoExport \in Export /\ NoExport.pc = "idle"
    BY SizesAssumption DEF NoExport, Export
  <2>3. Running = {} /\ export \in [Requests -> Export]
    BY <2>2 DEF ExportInit, Running, ExportUnderWay
  <2>4. \A r \in Requests : ExportIsSound(export[r])
    BY <2>2 DEF ExportInit, ExportIsSound, ExportUnderWay
  <2> QED BY <2>1, <2>3, <2>4, FS_EmptySet, SizesAssumption DEF ExportInit, ExportInvariant, Counts
<1>2. ExportInvariant /\ [ExportNext]_exportVars => ExportInvariant'
  <2> SUFFICES ASSUME ExportInvariant, [ExportNext]_exportVars PROVE ExportInvariant'
    OBVIOUS
  <2>1. CASE UNCHANGED exportVars
    BY <2>1 DEF ExportInvariant, exportVars, GateTypeOK, Counts, Running, ExportIsSound, ReadSoFar
  <2>2. ASSUME NEW r \in Requests, QueryFails(r) PROVE ExportInvariant'
    <3>1. exportFaults' \in 0 .. MaxExportFaults
      BY <2>2, SizesAssumption DEF QueryFails, ExportInvariant
    <3> QED BY <2>2, <3>1, EndingEmptyHanded DEF QueryFails, TurnedAway
  <2> QED BY <2>1, <2>2, AskKeepsTheExports, CountKeepsTheExports, ReadBlockKeepsTheExports,
             WriteKeepsTheExports DEF ExportNext
<1> QED BY <1>1, <1>2, PTL DEF ExportSpec

(* The types of the exports.                                                *)
THEOREM ExportTypeCorrect == ExportSpec => []ExportTypeOK
<1>1. ExportInvariant => ExportTypeOK
  BY DEF ExportInvariant, ExportTypeOK
<1> QED BY <1>1, ExportInvariance, PTL

(* A file that was sent has each row once, every row selected throughout    *)
(* and none that never was, and passes no limit.                            *)
THEOREM SentFilesStayFaithful == ExportSpec => []SentFilesAreFaithful
<1>1. ASSUME NEW s \in Seq(Ids), Increasing(s)
      PROVE  IsInjective(s)
  <2> SUFFICES ASSUME NEW m \in 1 .. Len(s), NEW n \in 1 .. Len(s), s[m] = s[n], m # n
               PROVE  FALSE
    BY DEF IsInjective
  <2>1. s[m] \in Nat
    BY SizesAssumption DEF Ids
  <2>2. m < n \/ n < m
    OBVIOUS
  <2> QED BY <1>1, <2>1, <2>2 DEF Increasing
<1>2. ExportInvariant => SentFilesAreFaithful
  <2> SUFFICES ASSUME ExportInvariant, NEW r \in Requests, export[r].pc = "sent"
               PROVE  /\ IsInjective(export[r].rows) /\ SentWhole(export[r])
    BY DEF SentFilesAreFaithful, SentWhole
  <2>1. export[r].rows \in Seq(Ids) /\ SentWhole(export[r])
    BY DEF ExportInvariant, ExportIsSound, Export
  <2> QED BY <1>1, <2>1 DEF SentWhole
<1> QED BY <1>2, ExportInvariance, PTL

(* The slots of the exports are held by exactly those under way, and by no  *)
(* more than the capacity.                                                  *)
THEOREM ExportSlotsAreHeld == ExportSpec => []SlotsAreTheExports
<1>1. ExportInvariant => SlotsAreTheExports
  BY DEF ExportInvariant, SlotsAreTheExports, Counts, GateTypeOK, DownloadKinds
<1> QED BY <1>1, ExportInvariance, PTL

-----------------------------------------------------------------------------
(* The session of a tab.  An answer that has arrived and that changes the   *)
(* session will set or clear the token, and outdate the token requests.     *)
(* Unless one has, the token is the cookie's or was overtaken, and so will  *)
(* be the answer of every token request that is still current.              *)

Renews(e) == e.op \in {"login", "logout", "change"} /\ e.stage = "arrived" /\ e.status = "ok"
Renewing(calls) == \E c \in Calls : Renews(calls[c])

TokenRequestFollows(e, ck) ==
  e.op = "token" /\ e.current => /\ e.stage = "sent" => e.cookie = ck
                                 /\ e.status = "ok" => e.token = ck
TokensFollow(calls, ck, token, late) ==
  /\ token \in {Absent, ck} \/ late
  /\ \A c \in Calls : TokenRequestFollows(calls[c], ck)
Follows(calls, ck, token, late) == Renewing(calls) \/ TokensFollow(calls, ck, token, late)
RequestIsOne(calls, request) == request # Absent => calls[request].op = "token"

\* One request.
TabCall(e) ==
  \/ e = Nothing
  \/ /\ e \in Call
     /\ (e.stage = "waiting") = (e.waits # Absent)
     /\ e.op \in Unsafe /\ e.stage = "sent" => e.header # Absent
     /\ e.op \notin Unsafe => e.stage # "waiting"
     /\ e.status = "ok" /\ e.op \in {"login", "token", "security"} => e.token # Absent
CallsAre(calls) ==
  /\ calls \in [Calls -> Call \union {Nothing}]
  /\ \A c \in Calls : TabCall(calls[c])

TabTypes ==
  /\ live \subseteq issued /\ issued \subseteq Sessions
  /\ cookie \in Sessions \union {Absent} /\ csrfToken \in Sessions \union {Absent}
  /\ csrfTokenRequest \in Calls \union {Absent} /\ page \in Pages /\ overtaken \in BOOLEAN

TabInvariant ==
  /\ TabTypes
  /\ CallsAre(call)
  /\ Follows(call, cookie, csrfToken, overtaken)
  /\ RequestIsOne(call, csrfTokenRequest)

LEMMA NothingIsNoCall ==
  /\ Nothing.op = "none"
  /\ \A e \in Call : e.op # "none" /\ e # Nothing
BY DEF Nothing, Call, Unsafe

LEMMA TabRequestIsACall ==
  ASSUME NEW op \in {"token", "security", "login"} \union Unsafe,
         cookie \in Sessions \union {Absent}
  PROVE  LET e == TabRequest(op)
         IN /\ e \in Call /\ e.op = op /\ e.stage = "sent" /\ e.waits = Absent
            /\ e.cookie = cookie /\ e.header = Absent /\ e.status = "none"
<1>1. TRUE \in BOOLEAN /\ "sent" \in {"waiting", "sent", "handled", "arrived"}
      /\ "none" \in {"none", "ok", "unauthorized", "forbidden", "lost"}
  OBVIOUS
<1> QED BY <1>1 DEF TabRequest, Call

\* Requests come, go and change without a token ceasing to follow the cookie when
\* what renews the session stays and the token requests are as they were.
SameRenewals(calls, others) ==
  /\ \A c \in Calls : Renews(calls[c]) => Renews(others[c])
  /\ \A c \in Calls : others[c].op = "token" => others[c] = calls[c]

LEMMA FollowingStays ==
  ASSUME NEW calls, NEW others, SameRenewals(calls, others), NEW ck, NEW token, NEW late,
         Follows(calls, ck, token, late)
  PROVE  Follows(others, ck, token, late)
<1>1. CASE Renewing(calls)
  BY <1>1 DEF Renewing, SameRenewals, Follows
<1>2. CASE TokensFollow(calls, ck, token, late)
  <2>1. \A c \in Calls : TokenRequestFollows(others[c], ck)
    BY <1>2 DEF TokensFollow, TokenRequestFollows, SameRenewals
  <2> QED BY <1>2, <2>1 DEF TokensFollow, Follows
<1> QED BY <1>1, <1>2 DEF Follows

\* One request is forgotten.
LEMMA ForgettingKeepsTheCalls ==
  ASSUME NEW c \in Calls, CallsAre(call)
  PROVE  /\ CallsAre(Without(c)) /\ Without(c)[c] = Nothing
         /\ \A d \in Calls \ {c} : Without(c)[d] = call[d]
BY DEF CallsAre, Without, TabCall

\* One that does not renew the session, nor is a token request.
LEMMA ForgettingKeepsTheTab ==
  ASSUME TabInvariant, NEW c \in Calls, ~Renews(call[c]), call[c].op # "token"
  PROVE  /\ CallsAre(Without(c)) /\ Follows(Without(c), cookie, csrfToken, overtaken)
         /\ RequestIsOne(Without(c), csrfTokenRequest)
<1>1. /\ CallsAre(Without(c)) /\ Without(c)[c] = Nothing
      /\ \A d \in Calls \ {c} : Without(c)[d] = call[d]
  BY ForgettingKeepsTheCalls DEF TabInvariant
<1>2. SameRenewals(call, Without(c))
  <2>1. \A d \in Calls : Renews(call[d]) => Renews(Without(c)[d])
    BY <1>1
  <2>2. \A d \in Calls : Without(c)[d].op = "token" => Without(c)[d] = call[d]
    BY <1>1, NothingIsNoCall
  <2> QED BY <2>1, <2>2 DEF SameRenewals
<1>3. RequestIsOne(Without(c), csrfTokenRequest)
  BY <1>1 DEF RequestIsOne, TabInvariant, TabTypes
<1> QED BY <1>1, <1>2, <1>3, FollowingStays DEF TabInvariant

\* After the session has moved on, no token request is current.
LEMMA OutdatingKeepsTheCalls ==
  ASSUME NEW calls, CallsAre(calls)
  PROVE  /\ CallsAre(Outdated(calls))
         /\ \A c \in Calls : Outdated(calls)[c].op = "token" => ~Outdated(calls)[c].current
<1> DEFINE o == Outdated(calls)
<1>1. ASSUME NEW c \in Calls
      PROVE  TabCall(o[c]) /\ (o[c].op = "token" => ~o[c].current)
  <2>0. TabCall(calls[c])
    BY DEF CallsAre
  <2>1. CASE calls[c].op # "token"
    <3>1. o[c] = calls[c]
      BY <2>1 DEF Outdated
    <3> QED BY <2>0, <2>1, <3>1
  <2>2. CASE calls[c].op = "token"
    <3> DEFINE e == calls[c]
               f == [e EXCEPT !.current = FALSE]
    <3>1. o[c] = f
      BY <2>2 DEF Outdated
    <3>2. e \in Call
      BY <2>0, <2>2, NothingIsNoCall DEF TabCall
    <3>3. /\ f \in Call /\ f.op = e.op /\ f.stage = e.stage /\ f.waits = e.waits
          /\ f.header = e.header /\ f.status = e.status /\ f.token = e.token /\ f.current = FALSE
      BY <3>2 DEF Call
    <3> HIDE DEF f
    <3>4. TabCall(f)
      BY <2>0, <2>2, <3>3, NothingIsNoCall DEF TabCall
    <3> QED BY <3>1, <3>3, <3>4
  <2> QED BY <2>1, <2>2
<1>2. o \in [Calls -> Call \union {Nothing}]
  BY <1>1 DEF Outdated, TabCall
<1> QED BY <1>1, <1>2 DEF CallsAre

\* Leaving a page drops no request but a heartbeat's, and changes the outcome of none.
LEMMA LeavingKeepsTheCalls ==
  ASSUME NEW calls, page \in Pages, CallsAre(calls)
  PROVE  LET left == TabUnmounted(calls, page)
         IN /\ CallsAre(left) /\ SameRenewals(calls, left)
            /\ \A c \in Calls : calls[c].op = "token" => left[c] = calls[c]
<1> DEFINE left == TabUnmounted(calls, page)
<1>0. OwnRequests(page) \subseteq {"login", "heartbeat", "logout", "security", "change"}
  BY DEF OwnRequests, Pages
<1>1. ASSUME NEW c \in Calls
      PROVE  /\ TabCall(left[c]) /\ (Renews(calls[c]) => Renews(left[c]))
             /\ left[c].op = "token" \/ calls[c].op = "token" => left[c] = calls[c]
  <2>0. TabCall(calls[c])
    BY DEF CallsAre
  <2>1. CASE left[c] = calls[c]
    BY <2>0, <2>1
  <2>2. CASE left[c] = Nothing /\ calls[c].op = "heartbeat"
    BY <2>2, NothingIsNoCall DEF TabCall, Renews
  <2>3. CASE left[c] = [calls[c] EXCEPT !.mounted = FALSE]
             /\ calls[c].op \in {"login", "heartbeat", "logout", "security", "change"}
    <3> DEFINE e == calls[c]
               f == [e EXCEPT !.mounted = FALSE]
    <3>1. e \in Call
      BY <2>0, <2>3, NothingIsNoCall DEF TabCall
    <3>2. /\ f \in Call /\ f.op = e.op /\ f.stage = e.stage /\ f.waits = e.waits
          /\ f.header = e.header /\ f.status = e.status /\ f.token = e.token
      BY <3>1 DEF Call
    <3> HIDE DEF f
    <3>3. TabCall(f)
      BY <2>0, <3>1, <3>2, NothingIsNoCall DEF TabCall
    <3>4. Renews(e) => Renews(f)
      BY <3>2 DEF Renews
    <3>5. left[c] = f
      BY <2>3 DEF f
    <3> QED BY <2>3, <3>2, <3>3, <3>4, <3>5
  <2>4. \/ left[c] = calls[c]
        \/ left[c] = Nothing /\ calls[c].op = "heartbeat"
        \/ left[c] = [calls[c] EXCEPT !.mounted = FALSE] /\ calls[c].op \in OwnRequests(page)
    BY DEF TabUnmounted
  <2> QED BY <1>0, <2>1, <2>2, <2>3, <2>4
<1>2. left \in [Calls -> Call \union {Nothing}]
  BY <1>1 DEF TabUnmounted, TabCall
<1> HIDE DEF left
<1> QED BY <1>1, <1>2 DEF left, CallsAre, SameRenewals

\* A page asks for nothing when it is mounted, but the check of the session.
LEMMA MountingKeepsTheCalls ==
  ASSUME TabTypes, NEW calls, NEW others, NEW to, CallsAre(calls), others \in Mounted(calls, to)
  PROVE  /\ CallsAre(others) /\ SameRenewals(calls, others)
         /\ \A c \in Calls : calls[c].op = "token" => others[c] = calls[c]
<1>1. CASE others = calls
  BY <1>1 DEF SameRenewals
<1>2. ASSUME NEW c \in Calls, calls[c] = Nothing,
             others = [calls EXCEPT ![c] = TabRequest("security")]
      PROVE  /\ CallsAre(others) /\ SameRenewals(calls, others)
             /\ \A d \in Calls : calls[d].op = "token" => others[d] = calls[d]
  <2> DEFINE e == TabRequest("security")
  <2>1. /\ e \in Call /\ e.op = "security" /\ e.stage = "sent" /\ e.waits = Absent /\ e.status = "none"
    BY TabRequestIsACall DEF TabTypes
  <2> HIDE DEF e
  <2>2. TabCall(e)
    BY <2>1 DEF TabCall, Unsafe
  <2>3. /\ others \in [Calls -> Call \union {Nothing}] /\ others[c] = e
        /\ \A d \in Calls \ {c} : others[d] = calls[d]
    BY <1>2, <2>1 DEF CallsAre, e
  <2>4. CallsAre(others)
    BY <2>2, <2>3 DEF CallsAre
  <2>5. ~Renews(calls[c]) /\ calls[c].op # "token" /\ others[c].op # "token"
    BY <1>2, <2>1, <2>3, NothingIsNoCall DEF Renews
  <2>6. \A d \in Calls : /\ Renews(calls[d]) => Renews(others[d])
                         /\ others[d].op = "token" \/ calls[d].op = "token" => others[d] = calls[d]
    BY <2>3, <2>5
  <2> QED BY <2>4, <2>6 DEF SameRenewals
<1>3. \/ others = calls
      \/ \E c \in Calls : calls[c] = Nothing /\ others = [calls EXCEPT ![c] = TabRequest("security")]
  BY DEF Mounted
<1> QED BY <1>1, <1>2, <1>3

\* Whatever page is shown next, the session goes on as it was.
LEMMA VisitKeepsTheCalls ==
  ASSUME NEW calls, NEW target \in Pages, TabTypes, CallsAre(calls), Visit(calls, target)
  PROVE  /\ page' \in Pages
         /\ CallsAre(call') /\ SameRenewals(calls, call')
         /\ \A c \in Calls : calls[c].op = "token" => call'[c] = calls[c]
<1>1. CASE page' = page /\ call' = calls
  BY <1>1 DEF TabTypes, SameRenewals
<1>2. ASSUME NEW to \in Pages, page' = to, call' \in Mounted(TabUnmounted(calls, page), to)
      PROVE  /\ page' \in Pages /\ CallsAre(call') /\ SameRenewals(calls, call')
             /\ \A c \in Calls : calls[c].op = "token" => call'[c] = calls[c]
  <2> DEFINE left == TabUnmounted(calls, page)
  <2>1. /\ CallsAre(left) /\ SameRenewals(calls, left)
        /\ \A c \in Calls : calls[c].op = "token" => left[c] = calls[c]
    BY LeavingKeepsTheCalls DEF TabTypes
  <2>0. call' \in Mounted(left, to)
    BY <1>2
  <2> HIDE DEF left
  <2>2. /\ CallsAre(call') /\ SameRenewals(left, call')
        /\ \A c \in Calls : left[c].op = "token" => call'[c] = left[c]
    BY <2>0, <2>1, MountingKeepsTheCalls
  <2>3. \A c \in Calls : Renews(calls[c]) => Renews(call'[c])
    BY <2>1, <2>2 DEF SameRenewals
  <2>4. \A c \in Calls : call'[c].op = "token" => call'[c] = calls[c]
    BY <2>1, <2>2 DEF SameRenewals
  <2>5. \A c \in Calls : calls[c].op = "token" => call'[c] = calls[c]
    BY <2>1, <2>2
  <2> QED BY <1>2, <2>2, <2>3, <2>4, <2>5 DEF SameRenewals
<1>3. "login" \in Pages
  BY DEF Pages
<1> QED BY <1>1, <1>2, <1>3 DEF Visit

\* The session moves on: the token is the cookie's, gone or overtaken, and every
\* token request is outdated.
LEMMA MovingOnKeepsTheTab ==
  ASSUME TabTypes, NEW calls, CallsAre(calls), NEW target \in Pages,
         \/ Visit(Outdated(calls), target)
         \/ call' = Outdated(calls) /\ page' \in Pages,
         \/ SetCsrfToken(csrfToken') /\ csrfToken' \in Sessions
         \/ ClearCsrfToken,
         UNCHANGED <<sessions, cookie>>
  PROVE  TabInvariant'
<1> DEFINE o == Outdated(calls)
<1>1. CallsAre(o) /\ \A c \in Calls : o[c].op = "token" => ~o[c].current
  BY OutdatingKeepsTheCalls
<1>0. Visit(o, target) \/ (call' = o /\ page' \in Pages)
  OBVIOUS
<1> HIDE DEF o
<1>2. /\ page' \in Pages /\ CallsAre(call')
      /\ \A c \in Calls : call'[c].op = "token" => call'[c] = o[c]
  BY <1>0, <1>1, VisitKeepsTheCalls DEF SameRenewals
<1>3. \A c \in Calls : TokenRequestFollows(call'[c], cookie)
  BY <1>1, <1>2 DEF TokenRequestFollows
<1>4. /\ csrfTokenRequest' = Absent /\ csrfToken' \in Sessions \union {Absent}
      /\ csrfToken' \in {Absent, cookie} \/ overtaken'
      /\ overtaken' \in BOOLEAN
  BY DEF SetCsrfToken, ClearCsrfToken
<1>5. TokensFollow(call', cookie, csrfToken', overtaken')
  BY <1>3, <1>4 DEF TokensFollow
<1>6. cookie' = cookie /\ live' = live /\ issued' = issued
  BY DEF sessions
<1> QED BY <1>2, <1>4, <1>5, <1>6 DEF TabInvariant, TabTypes, Follows, RequestIsOne

\* The pages change and the token does not.
LEMMA VisitKeepsTheTab ==
  ASSUME TabTypes, NEW calls, CallsAre(calls), NEW target \in Pages, Visit(calls, target),
         Follows(calls, cookie, csrfToken, overtaken), RequestIsOne(calls, csrfTokenRequest),
         UNCHANGED <<sessions, cookie, csrf, overtaken>>
  PROVE  TabInvariant'
<1>1. /\ page' \in Pages /\ CallsAre(call') /\ SameRenewals(calls, call')
      /\ \A c \in Calls : calls[c].op = "token" => call'[c] = calls[c]
  BY VisitKeepsTheCalls
<1>2. Follows(call', cookie, csrfToken, overtaken)
  BY <1>1, FollowingStays
<1>3. RequestIsOne(call', csrfTokenRequest)
  BY <1>1 DEF RequestIsOne, TabTypes
<1> QED BY <1>1, <1>2, <1>3 DEF TabInvariant, TabTypes, sessions, csrf

\* A request is sent, or begins to wait, in a free place.
Begins(calls, c, e, others) ==
  /\ c \in Calls /\ calls[c] = Nothing
  /\ e \in Call /\ TabCall(e) /\ e.stage # "arrived"
  /\ TokenRequestFollows(e, cookie)
  /\ others = [calls EXCEPT ![c] = e]

LEMMA NewRequestKeeps ==
  ASSUME NEW calls, CallsAre(calls), Follows(calls, cookie, csrfToken, overtaken),
         NEW c, NEW e, NEW others, Begins(calls, c, e, others)
  PROVE  /\ CallsAre(others) /\ Follows(others, cookie, csrfToken, overtaken)
         /\ others[c] = e /\ (\A d \in Calls \ {c} : others[d] = calls[d])
         /\ \A r \in Calls : calls[r].op = "token" => others[r].op = "token"
<1>1. /\ others \in [Calls -> Call \union {Nothing}] /\ others[c] = e
      /\ \A d \in Calls \ {c} : others[d] = calls[d]
  BY DEF CallsAre, Begins
<1>2. CallsAre(others)
  BY <1>1 DEF CallsAre, Begins
<1>3. ASSUME Renewing(calls) PROVE Follows(others, cookie, csrfToken, overtaken)
  <2>1. PICK d \in Calls : Renews(calls[d])
    BY <1>3 DEF Renewing
  <2>2. d # c
    BY <2>1, NothingIsNoCall DEF Renews, Begins
  <2> QED BY <1>1, <2>1, <2>2 DEF Renewing, Follows
<1>4. ASSUME TokensFollow(calls, cookie, csrfToken, overtaken)
      PROVE  Follows(others, cookie, csrfToken, overtaken)
  <2>1. \A d \in Calls : TokenRequestFollows(others[d], cookie)
    BY <1>1, <1>4 DEF TokensFollow, Begins
  <2> QED BY <1>4, <2>1 DEF TokensFollow, Follows
<1>5. Follows(others, cookie, csrfToken, overtaken)
  BY <1>3, <1>4 DEF Follows
<1>6. \A r \in Calls : calls[r].op = "token" => others[r].op = "token"
  BY <1>1, NothingIsNoCall DEF Begins
<1> QED BY <1>1, <1>2, <1>5, <1>6

LEMMA SubmitLoginKeepsTheTab ==
  ASSUME TabInvariant, SubmitLogin
  PROVE  TabInvariant'
<1>1. PICK c \in Calls : Free(c) /\ call' = [call EXCEPT ![c] = TabRequest("login")]
  BY DEF SubmitLogin, Send
<1> DEFINE e == TabRequest("login")
<1>2. e \in Call /\ e.op = "login" /\ e.stage = "sent" /\ e.waits = Absent /\ e.status = "none"
  BY TabRequestIsACall DEF TabInvariant, TabTypes
<1>0. call' = [call EXCEPT ![c] = e]
  BY <1>1
<1> HIDE DEF e
<1>3. TabCall(e) /\ TokenRequestFollows(e, cookie)
  BY <1>2 DEF TabCall, Unsafe, TokenRequestFollows
<1>4. Begins(call, c, e, call')
  BY <1>0, <1>1, <1>2, <1>3 DEF Begins, Free
<1>5. /\ CallsAre(call') /\ Follows(call', cookie, csrfToken, overtaken)
      /\ \A r \in Calls : call[r].op = "token" => call'[r].op = "token"
  BY <1>4, NewRequestKeeps DEF TabInvariant
<1>6. UNCHANGED <<live, issued, cookie, csrfToken, csrfTokenRequest, page, overtaken>>
  BY DEF SubmitLogin, sessions, csrf
<1> QED BY <1>5, <1>6 DEF TabInvariant, TabTypes, RequestIsOne

LEMMA ApiFetchKeepsTheTab ==
  ASSUME TabInvariant, NEW op \in Unsafe, ApiFetch(op)
  PROVE  TabInvariant'
<1>1. PICK c \in Calls :
        /\ Free(c)
        /\ UNCHANGED <<sessions, cookie, csrfToken, page, overtaken>>
        /\ \/ /\ csrfToken # Absent
              /\ call' = [call EXCEPT ![c] = [TabRequest(op) EXCEPT !.header = csrfToken]]
              /\ UNCHANGED csrfTokenRequest
           \/ /\ csrfToken = Absent /\ csrfTokenRequest # Absent
              /\ call' = [call EXCEPT ![c] =
                   [TabRequest(op) EXCEPT !.stage = "waiting", !.waits = csrfTokenRequest]]
              /\ UNCHANGED csrfTokenRequest
           \/ /\ csrfToken = Absent /\ csrfTokenRequest = Absent
              /\ \E r \in Calls \ {c} :
                   /\ Free(r)
                   /\ csrfTokenRequest' = r
                   /\ call' = [call EXCEPT ![r] = TabRequest("token"),
                        ![c] = [TabRequest(op) EXCEPT !.stage = "waiting", !.waits = r]]
  BY DEF ApiFetch
<1> DEFINE t == TabRequest(op)
           w(r) == [t EXCEPT !.stage = "waiting", !.waits = r]
           h == [t EXCEPT !.header = csrfToken]
<1>2. /\ t \in Call /\ t.op = op /\ t.stage = "sent" /\ t.waits = Absent /\ t.status = "none"
  BY TabRequestIsACall DEF TabInvariant, TabTypes
<1>3. op \notin {"token", "security", "login"}
  BY DEF Unsafe
<1>4. ASSUME NEW r \in Calls
      PROVE  /\ w(r) \in Call /\ TabCall(w(r)) /\ w(r).stage # "arrived"
             /\ TokenRequestFollows(w(r), cookie)
  <2>1. /\ w(r) \in Call /\ w(r).op = op /\ w(r).stage = "waiting" /\ w(r).waits = r
        /\ w(r).status = "none"
    BY <1>2 DEF Call
  <2>2. r # Absent
    BY AbsentAssumption
  <2> HIDE DEF w
  <2> QED BY <1>3, <2>1, <2>2 DEF TabCall, TokenRequestFollows
<1>5. CASE csrfToken # Absent /\ call' = [call EXCEPT ![c] = h] /\ UNCHANGED csrfTokenRequest
  <2>1. /\ h \in Call /\ h.op = op /\ h.stage = "sent" /\ h.waits = Absent
        /\ h.status = "none" /\ h.header = csrfToken
    BY <1>2 DEF Call, TabInvariant, TabTypes
  <2>0. call' = [call EXCEPT ![c] = h]
    BY <1>5
  <2> HIDE DEF h
  <2>2. TabCall(h) /\ TokenRequestFollows(h, cookie)
    BY <1>3, <1>5, <2>1 DEF TabCall, TokenRequestFollows
  <2>3. Begins(call, c, h, call')
    BY <1>1, <2>0, <2>1, <2>2 DEF Begins, Free
  <2>4. /\ CallsAre(call') /\ Follows(call', cookie, csrfToken, overtaken)
        /\ \A r \in Calls : call[r].op = "token" => call'[r].op = "token"
    BY <2>3, NewRequestKeeps DEF TabInvariant
  <2> QED BY <1>1, <1>5, <2>4 DEF TabInvariant, TabTypes, RequestIsOne, sessions
<1>6. CASE csrfTokenRequest # Absent /\ call' = [call EXCEPT ![c] = w(csrfTokenRequest)]
           /\ UNCHANGED csrfTokenRequest
  <2>1. csrfTokenRequest \in Calls
    BY <1>6 DEF TabInvariant, TabTypes
  <2> DEFINE e == w(csrfTokenRequest)
  <2>2. e \in Call /\ TabCall(e) /\ e.stage # "arrived" /\ TokenRequestFollows(e, cookie)
    BY <1>4, <2>1
  <2>0. call' = [call EXCEPT ![c] = e]
    BY <1>6
  <2> HIDE DEF e, w
  <2>3. Begins(call, c, e, call')
    BY <1>1, <2>0, <2>2 DEF Begins, Free
  <2>4. /\ CallsAre(call') /\ Follows(call', cookie, csrfToken, overtaken)
        /\ \A r \in Calls : call[r].op = "token" => call'[r].op = "token"
    BY <2>3, NewRequestKeeps DEF TabInvariant
  <2> QED BY <1>1, <1>6, <2>4 DEF TabInvariant, TabTypes, RequestIsOne, sessions
<1>7. ASSUME NEW r \in Calls \ {c}, Free(r), csrfTokenRequest' = r,
             call' = [call EXCEPT ![r] = TabRequest("token"), ![c] = w(r)]
      PROVE  TabInvariant'
  <2> DEFINE k == TabRequest("token")
             calls == [call EXCEPT ![r] = k]
             e == w(r)
  <2>1. /\ k \in Call /\ k.op = "token" /\ k.stage = "sent" /\ k.waits = Absent
        /\ k.status = "none" /\ k.cookie = cookie
    BY TabRequestIsACall DEF TabInvariant, TabTypes
  <2>0. call' = [calls EXCEPT ![c] = e]
    BY <1>7
  <2>e. e \in Call /\ TabCall(e) /\ e.stage # "arrived" /\ TokenRequestFollows(e, cookie)
    BY <1>4
  <2> HIDE DEF k, e, w
  <2>2. TabCall(k) /\ TokenRequestFollows(k, cookie)
    BY <2>1 DEF TabCall, Unsafe, TokenRequestFollows
  <2>3. /\ CallsAre(calls) /\ Follows(calls, cookie, csrfToken, overtaken)
        /\ calls[r] = k /\ \A d \in Calls \ {r} : calls[d] = call[d]
    <3>1. Begins(call, r, k, calls)
      BY <1>7, <2>1, <2>2 DEF Begins, Free
    <3> HIDE DEF calls
    <3> QED BY <3>1, NewRequestKeeps DEF TabInvariant
  <2>4. calls[c] = Nothing
    BY <1>1, <1>7, <2>3 DEF Free
  <2> HIDE DEF calls
  <2>5. /\ CallsAre(call') /\ Follows(call', cookie, csrfToken, overtaken)
        /\ \A d \in Calls \ {c} : call'[d] = calls[d]
    <3>1. Begins(calls, c, e, call')
      BY <1>1, <2>0, <2>e, <2>4 DEF Begins
    <3> QED BY <2>3, <3>1, NewRequestKeeps
  <2>6. call'[r].op = "token"
    BY <1>7, <2>1, <2>3, <2>5
  <2> QED BY <1>1, <1>7, <2>5, <2>6 DEF TabInvariant, TabTypes, RequestIsOne, sessions
<1> QED BY <1>1, <1>5, <1>6, <1>7

\* A request moves on, and the cookie stays.
LEMMA MovingKeeps ==
  ASSUME TabInvariant, NEW c \in Calls, NEW e \in Call, call[c].stage # "arrived",
         e.op = call[c].op, TabCall(e), call' = [call EXCEPT ![c] = e],
         TokenRequestFollows(call[c], cookie) => TokenRequestFollows(e, cookie),
         UNCHANGED <<cookie, csrf, page, overtaken>>,
         live' \subseteq issued' /\ issued' \subseteq Sessions
  PROVE  TabInvariant'
<1>1. /\ call' \in [Calls -> Call \union {Nothing}] /\ call'[c] = e
      /\ \A d \in Calls \ {c} : call'[d] = call[d]
  BY DEF TabInvariant, CallsAre
<1>2. CallsAre(call')
  BY <1>1 DEF TabInvariant, CallsAre
<1>3. Renewing(call) => Renewing(call')
  BY <1>1 DEF Renewing, Renews
<1>4. TokensFollow(call, cookie, csrfToken, overtaken) => TokensFollow(call', cookie, csrfToken, overtaken)
  BY <1>1 DEF TokensFollow
<1>5. Follows(call', cookie, csrfToken, overtaken)
  BY <1>3, <1>4 DEF Follows, TabInvariant
<1>6. RequestIsOne(call', csrfTokenRequest)
  BY <1>1 DEF RequestIsOne, TabInvariant, TabTypes
<1> QED BY <1>2, <1>5, <1>6 DEF TabInvariant, TabTypes, csrf

\* A request gets its outcome.
LEMMA OutcomeKeepsTheTab ==
  ASSUME TabInvariant, NEW c \in Calls, call[c] # Nothing, call[c].stage \in {"sent", "handled"},
         NEW stage \in {"handled", "arrived"}, NEW status \in {"ok", "unauthorized", "forbidden", "lost"},
         NEW token \in Sessions \union {Absent}, Outcome(c, stage, status, token),
         status = "ok" /\ call[c].op \in {"login", "token", "security"} => token # Absent,
         status = "ok" => call[c].stage = "sent" /\ (call[c].op = "token" => token = call[c].cookie),
         UNCHANGED <<cookie, csrf, page, overtaken>>,
         live' \subseteq issued' /\ issued' \subseteq Sessions
  PROVE  TabInvariant'
<1> DEFINE e == call[c]
           f == [e EXCEPT !.stage = stage, !.status = status, !.token = token,
                          !.cookie = Absent, !.header = Absent]
<1>0. e \in Call /\ TabCall(e)
  BY DEF TabInvariant, CallsAre
<1>1. call' = [call EXCEPT ![c] = f]
  BY DEF Outcome, TabInvariant, CallsAre
<1>2. /\ f \in Call /\ f.op = e.op /\ f.stage = stage /\ f.waits = e.waits
      /\ f.status = status /\ f.token = token /\ f.current = e.current
  BY <1>0 DEF Call
<1> HIDE DEF f
<1>3. TabCall(f)
  BY <1>0, <1>2 DEF TabCall
<1>4. TokenRequestFollows(e, cookie) => TokenRequestFollows(f, cookie)
  BY <1>2 DEF TokenRequestFollows
<1> QED BY <1>1, <1>2, <1>3, <1>4, MovingKeeps

LEMMA HandleKeepsTheTab ==
  ASSUME TabInvariant, NEW c \in Calls, Handle(c)
  PROVE  TabInvariant'
<1> DEFINE e == call[c]
<1>1. /\ live \subseteq issued /\ issued \subseteq Sessions
      /\ UNCHANGED <<cookie, csrf, page, overtaken>> /\ e # Nothing /\ e.stage = "sent"
  BY DEF TabInvariant, TabTypes, Handle
<1>2. ASSUME NEW status \in {"ok", "unauthorized", "forbidden"},
             NEW token \in Sessions \union {Absent},
             Reply(c, status, token), live' \subseteq issued' /\ issued' \subseteq Sessions,
             status = "ok" /\ e.op \in {"login", "token", "security"} => token # Absent,
             status = "ok" /\ e.op = "token" => token = e.cookie
      PROVE  TabInvariant'
  BY <1>1, <1>2, OutcomeKeepsTheTab DEF Reply
<1>3. CASE HandleLogin(c)
  <2>1. CASE Reply(c, "unauthorized", Absent) /\ UNCHANGED sessions
    BY <1>1, <1>2, <2>1 DEF sessions
  <2>2. ASSUME NEW s \in Sessions \ issued, issued' = issued \union {s}, live' = live \union {s},
               Reply(c, "ok", s)
        PROVE  TabInvariant'
    BY <1>1, <1>2, <1>3, <2>2, AbsentAssumption DEF HandleLogin
  <2> QED BY <1>3, <2>1, <2>2 DEF HandleLogin
<1>4. CASE HandleToken(c)
  <2>1. CASE e.cookie \in live /\ Reply(c, "ok", e.cookie)
    BY <1>1, <1>2, <1>4, <2>1, AbsentAssumption DEF HandleToken, sessions
  <2>2. CASE Reply(c, "unauthorized", Absent)
    BY <1>1, <1>2, <1>4, <2>2 DEF HandleToken, sessions
  <2> QED BY <1>4, <2>1, <2>2 DEF HandleToken
<1>5. CASE HandleUnsafe(c)
  <2>1. e.op \notin {"login", "token", "security"}
    BY <1>5 DEF HandleUnsafe, Unsafe
  <2>2. PICK status \in {"ok", "unauthorized", "forbidden"} : Reply(c, status, Absent)
    BY <1>5 DEF HandleUnsafe
  <2>3. live' \subseteq issued' /\ issued' \subseteq Sessions
    BY <1>1, <1>5 DEF HandleUnsafe, sessions
  <2> QED BY <1>2, <2>1, <2>2, <2>3
<1> QED BY <1>3, <1>4, <1>5 DEF Handle

LEMMA LoseKeepsTheTab ==
  ASSUME TabInvariant, NEW c \in Calls, Lose(c)
  PROVE  TabInvariant'
<1>1. /\ UNCHANGED <<cookie, csrf, page, overtaken>>
      /\ live' \subseteq issued' /\ issued' \subseteq Sessions
  BY DEF Lose, sessions, TabInvariant, TabTypes
<1> QED BY <1>1, OutcomeKeepsTheTab DEF Lose

\* The cookie that an answer brings, or takes away: its continuation will renew.
LEMMA ArriveKeepsTheTab ==
  ASSUME TabInvariant, NEW c \in Calls, Arrive(c)
  PROVE  TabInvariant'
<1> DEFINE e == call[c]
           f == [e EXCEPT !.stage = "arrived"]
<1>0. e \in Call /\ e # Nothing /\ e.stage = "handled" /\ TabCall(e)
  BY DEF TabInvariant, CallsAre, Arrive
<1>1. call' = [call EXCEPT ![c] = f] /\ UNCHANGED <<sessions, csrf, page, overtaken>>
  BY DEF Arrive, TabInvariant, CallsAre
<1>2. /\ f \in Call /\ f.op = e.op /\ f.stage = "arrived" /\ f.waits = e.waits
      /\ f.status = e.status /\ f.token = e.token /\ f.current = e.current
  BY <1>0 DEF Call
<1> HIDE DEF f
<1>3. TabCall(f)
  BY <1>0, <1>2 DEF TabCall
<1>4. CASE e.status = "ok" /\ e.op \in {"login", "logout", "change"}
  <2>1. /\ call' \in [Calls -> Call \union {Nothing}] /\ call'[c] = f
        /\ \A d \in Calls \ {c} : call'[d] = call[d]
    BY <1>1, <1>2 DEF TabInvariant, CallsAre
  <2>2. CallsAre(call')
    BY <1>3, <2>1 DEF TabInvariant, CallsAre
  <2>3. Renewing(call')
    BY <1>2, <1>4, <2>1 DEF Renewing, Renews
  <2>4. RequestIsOne(call', csrfTokenRequest)
    BY <1>2, <2>1 DEF RequestIsOne, TabInvariant, TabTypes
  <2>5. cookie' \in Sessions \union {Absent}
    BY <1>0 DEF Arrive, Call, TabInvariant, TabTypes
  <2> QED BY <1>1, <2>2, <2>3, <2>4, <2>5
      DEF TabInvariant, TabTypes, Follows, sessions, csrf
<1>5. CASE ~(e.status = "ok" /\ e.op \in {"login", "logout", "change"})
  <2>1. cookie' = cookie
    BY <1>5 DEF Arrive
  <2>2. TokenRequestFollows(e, cookie) => TokenRequestFollows(f, cookie)
    BY <1>2 DEF TokenRequestFollows
  <2>3. live' \subseteq issued' /\ issued' \subseteq Sessions
    BY <1>1 DEF sessions, TabInvariant, TabTypes
  <2> QED BY <1>0, <1>1, <1>2, <1>3, <2>1, <2>2, <2>3, MovingKeeps
<1> QED BY <1>4, <1>5

\* The user goes elsewhere.
LEMMA NavigateKeepsTheTab ==
  ASSUME TabInvariant, NEW to \in Pages, Navigate(to)
  PROVE  TabInvariant'
BY VisitKeepsTheTab DEF Navigate, TabInvariant

\* The scripts start afresh.
LEMMA ReloadKeepsTheTab ==
  ASSUME TabInvariant, Reload
  PROVE  TabInvariant'
<1> DEFINE none == [c \in Calls |-> Nothing]
<1>1. /\ csrfToken' = Absent /\ csrfTokenRequest' = Absent /\ overtaken' = FALSE
      /\ UNCHANGED <<sessions, cookie>>
      /\ page' \in Pages
      /\ call' \in Mounted(none, page')
  BY DEF Reload, ClearCsrfToken, TabInvariant, TabTypes, Pages
<1>2. CallsAre(none) /\ \A c \in Calls : none[c].op # "token"
  BY NothingIsNoCall DEF CallsAre, TabCall
<1> HIDE DEF none
<1>3. CallsAre(call') /\ SameRenewals(none, call')
  BY <1>1, <1>2, MountingKeepsTheCalls DEF TabInvariant
<1>4. \A c \in Calls : call'[c].op # "token"
  BY <1>2, <1>3 DEF SameRenewals
<1>5. TokensFollow(call', cookie, Absent, FALSE)
  BY <1>4 DEF TokensFollow, TokenRequestFollows
<1> QED BY <1>1, <1>3, <1>5 DEF TabInvariant, TabTypes, Follows, RequestIsOne, sessions

LEMMA RevokeKeepsTheTab ==
  ASSUME TabInvariant, NEW s \in Sessions, Revoke(s)
  PROVE  TabInvariant'
BY DEF TabInvariant, TabTypes, Revoke, csrf

LEMMA AfterLoginKeepsTheTab ==
  ASSUME TabInvariant, NEW c \in Calls, call[c] # Nothing,
         call[c].stage = "arrived", AfterLogin(c), UNCHANGED <<sessions, cookie>>
  PROVE  TabInvariant'
<1> DEFINE e == call[c]
<1>0. e \in Call /\ TabCall(e) /\ e.op = "login"
  BY DEF TabInvariant, CallsAre, AfterLogin
<1>1. CASE e.status = "ok"
  <2>1. PICK to \in {"home", "validating"} : Visit(Outdated(Without(c)), to)
    BY <1>1 DEF AfterLogin
  <2>2. csrfToken' \in Sessions /\ SetCsrfToken(csrfToken')
    BY <1>0, <1>1 DEF AfterLogin, SetCsrfToken, TabCall, Call
  <2>3. CallsAre(Without(c)) /\ to \in Pages
    BY ForgettingKeepsTheCalls DEF TabInvariant, Pages
  <2> QED BY <2>1, <2>2, <2>3, MovingOnKeepsTheTab DEF TabInvariant
<1>2. CASE e.status # "ok"
  <2>1. call' = Without(c) /\ UNCHANGED <<csrf, page, overtaken>>
    BY <1>2 DEF AfterLogin
  <2>2. ~Renews(e) /\ e.op # "token"
    BY <1>0, <1>2 DEF Renews
  <2> QED BY <2>1, <2>2, ForgettingKeepsTheTab DEF TabInvariant, TabTypes, sessions, csrf
<1> QED BY <1>1, <1>2

LEMMA AfterSecurityKeepsTheTab ==
  ASSUME TabInvariant, NEW c \in Calls, call[c] # Nothing,
         call[c].stage = "arrived", AfterSecurity(c), UNCHANGED <<sessions, cookie>>
  PROVE  TabInvariant'
<1> DEFINE e == call[c]
<1>0. e \in Call /\ TabCall(e) /\ e.op = "security"
  BY DEF TabInvariant, CallsAre, AfterSecurity
<1>1. ~Renews(e) /\ e.op # "token"
  BY <1>0 DEF Renews
<1>2. /\ CallsAre(Without(c)) /\ Follows(Without(c), cookie, csrfToken, overtaken)
      /\ RequestIsOne(Without(c), csrfTokenRequest)
  BY <1>1, ForgettingKeepsTheTab
<1>p. {"login", "home", "change"} \subseteq Pages
  BY DEF Pages
<1>3. CASE e.status = "ok" /\ SetCsrfToken(e.token)
           /\ \/ call' = Outdated(Without(c)) /\ page' = (IF e.mounted THEN "change" ELSE page)
              \/ Visit(Outdated(Without(c)), "home")
  <2>1. csrfToken' \in Sessions /\ SetCsrfToken(csrfToken')
    BY <1>0, <1>3 DEF SetCsrfToken, TabCall, Call
  <2>2. \/ Visit(Outdated(Without(c)), "home")
        \/ call' = Outdated(Without(c)) /\ page' \in Pages
    BY <1>3, <1>p DEF TabInvariant, TabTypes
  <2> QED BY <1>2, <1>p, <2>1, <2>2, MovingOnKeepsTheTab DEF TabInvariant
<1>4. CASE Visit(Without(c), "login") /\ UNCHANGED <<csrf, overtaken>>
  BY <1>2, <1>4, <1>p, VisitKeepsTheTab DEF TabInvariant
<1>5. CASE call' = Without(c) /\ UNCHANGED <<csrf, page, overtaken>>
  BY <1>2, <1>5 DEF TabInvariant, TabTypes, sessions, csrf
<1> QED BY <1>3, <1>4, <1>5 DEF AfterSecurity

LEMMA SigningOutKeepsTheTab ==
  ASSUME TabTypes, NEW calls, CallsAre(calls),
         ClearCsrfToken, Visit(Outdated(calls), "login"), UNCHANGED <<sessions, cookie>>
  PROVE  TabInvariant'
<1>1. "login" \in Pages
  BY DEF Pages
<1> QED BY <1>1, MovingOnKeepsTheTab

LEMMA AfterOthersKeepTheTab ==
  ASSUME TabInvariant, NEW c \in Calls, call[c] # Nothing,
         call[c].stage = "arrived", AfterSignOut(c) \/ AfterMutation(c) \/ AfterHeartbeat(c),
         UNCHANGED <<sessions, cookie>>
  PROVE  TabInvariant'
<1>1. CASE call' = Without(c) /\ UNCHANGED <<csrf, page, overtaken>> /\ ~Renews(call[c])
  <2>1. call[c].op # "token"
    BY DEF AfterSignOut, AfterMutation, AfterHeartbeat
  <2> QED BY <1>1, <2>1, ForgettingKeepsTheTab DEF TabInvariant, TabTypes, sessions, csrf
<1>2. CASE ClearCsrfToken /\ Visit(Outdated(Without(c)), "login")
  BY <1>2, ForgettingKeepsTheCalls, SigningOutKeepsTheTab DEF TabInvariant
<1> QED BY <1>1, <1>2 DEF AfterSignOut, AfterMutation, AfterHeartbeat, SignedOut, Renews

\* Requests other than those that renew the session take the place of others: those
\* who waited for the token request c, and c itself.
LEMMA AnsweringKeepsTheTab ==
  ASSUME TabInvariant, NEW c \in Calls, call[c].op = "token", NEW others,
         others = [d \in Calls |-> others[d]],
         others[c] = Nothing,
         \A d \in Calls \ {c} : \/ others[d] = call[d]
                                \/ others[d] = Nothing /\ call[d].stage = "waiting"
                                \/ /\ others[d] \in Call /\ TabCall(others[d])
                                   /\ others[d].op = call[d].op /\ call[d].stage = "waiting"
  PROVE  /\ CallsAre(others) /\ Follows(others, cookie, csrfToken, overtaken)
         /\ \A r \in Calls \ {c} : call[r].op = "token" => others[r] = call[r]
         /\ \A r \in Calls : others[r].op = "token" => others[r] = call[r]
<1>1. ASSUME NEW d \in Calls, call[d].stage = "waiting", d # c, others[d] # call[d]
      PROVE  call[d].op # "token" /\ ~Renews(call[d]) /\ others[d].op # "token"
  <2>1. call[d].op \in Unsafe \/ call[d].op = "none"
    BY <1>1, NothingIsNoCall DEF TabInvariant, CallsAre, TabCall
  <2> QED BY <1>1, <2>1, NothingIsNoCall DEF Unsafe, Renews
<1>2. \A d \in Calls : TabCall(others[d]) /\ others[d] \in Call \union {Nothing}
  BY DEF TabInvariant, CallsAre, TabCall
<1>3. CallsAre(others)
  <2>1. others \in [Calls -> Call \union {Nothing}]
    BY <1>2
  <2> QED BY <1>2, <2>1 DEF CallsAre
<1>4. SameRenewals(call, others)
  <2>1. \A d \in Calls : Renews(call[d]) => Renews(others[d])
    BY <1>1 DEF Renews
  <2>2. \A d \in Calls : others[d].op = "token" => others[d] = call[d]
    BY <1>1, NothingIsNoCall
  <2> QED BY <2>1, <2>2 DEF SameRenewals
<1> QED BY <1>1, <1>3, <1>4, FollowingStays DEF TabInvariant, SameRenewals

LEMMA RequestForgotten ==
  ASSUME TabInvariant, NEW c \in Calls, TokenRequestForgotten(c), NEW others,
         \A r \in Calls \ {c} : call[r].op = "token" => others[r] = call[r]
  PROVE  RequestIsOne(others, csrfTokenRequest') /\ csrfTokenRequest' \in Calls \union {Absent}
<1>1. csrfTokenRequest' = (IF csrfTokenRequest = c THEN Absent ELSE csrfTokenRequest)
  BY DEF TokenRequestForgotten
<1> QED BY <1>1 DEF RequestIsOne, TabInvariant, TabTypes

\* The token request is answered: those who waited are sent.
LEMMA TokenGivenKeepsTheTab ==
  ASSUME TabInvariant, NEW c \in Calls, call[c] # Nothing, call[c].op = "token",
         call[c].status = "ok", TokenGiven(c), UNCHANGED <<sessions, cookie>>
  PROVE  TabInvariant'
<1> DEFINE e == call[c]
           given == IF e.current \/ csrfToken = Absent THEN e.token ELSE csrfToken
           sent(w) == [call[w] EXCEPT !.stage = "sent", !.waits = Absent, !.cookie = cookie, !.header = given]
<1>0. e \in Call /\ TabCall(e)
  BY DEF TabInvariant, CallsAre
<1>1. e.token \in Sessions /\ given \in Sessions
  BY <1>0 DEF TabCall, Call, TabInvariant, TabTypes
<1>g. given # Absent
  BY <1>1, AbsentAssumption
<1>2. /\ call' = [w \in Calls |->
            IF w = c \/ (w \in Waiting(c) /\ call[w].op = "heartbeat" /\ ~call[w].mounted)
            THEN Nothing
            ELSE IF w \in Waiting(c) THEN sent(w) ELSE call[w]]
      /\ TokenStored(c) /\ TokenRequestForgotten(c) /\ page' = page
  BY DEF TokenGiven
<1> HIDE DEF given
<1>3. ASSUME NEW w \in Waiting(c)
      PROVE  /\ call[w].stage = "waiting" /\ sent(w) \in Call /\ TabCall(sent(w))
             /\ sent(w).op = call[w].op
  <2>1. w \in Calls /\ call[w] \in Call /\ TabCall(call[w]) /\ call[w].stage = "waiting"
    BY DEF Waiting, Free, TabInvariant, CallsAre
  <2>2. call[w].op \in Unsafe
    BY <2>1, NothingIsNoCall DEF TabCall
  <2>3. /\ sent(w) \in Call /\ sent(w).op = call[w].op /\ sent(w).stage = "sent" /\ sent(w).waits = Absent
        /\ sent(w).header = given
    BY <1>1, <2>1 DEF Call, TabInvariant, TabTypes
  <2> HIDE DEF sent
  <2>4. TabCall(sent(w))
    BY <1>g, <2>2, <2>3 DEF TabCall, Unsafe
  <2> QED BY <2>1, <2>3, <2>4
<1>4. \A d \in Calls \ {c} : \/ call'[d] = call[d]
                             \/ call'[d] = Nothing /\ call[d].stage = "waiting"
                             \/ /\ call'[d] \in Call /\ TabCall(call'[d])
                                /\ call'[d].op = call[d].op /\ call[d].stage = "waiting"
  BY <1>2, <1>3
<1>5. /\ CallsAre(call') /\ Follows(call', cookie, csrfToken, overtaken)
      /\ \A r \in Calls \ {c} : call[r].op = "token" => call'[r] = call[r]
      /\ \A r \in Calls : call'[r].op = "token" => call'[r] = call[r]
  <2>1. call' = [d \in Calls |-> call'[d]] /\ call'[c] = Nothing
    BY <1>2
  <2> QED BY <1>4, <2>1, AnsweringKeepsTheTab
<1>6. Follows(call', cookie, csrfToken', overtaken') /\ csrfToken' \in Sessions \union {Absent}
      /\ overtaken' \in BOOLEAN
  <2>1. CASE e.current
    <3>1. csrfToken' = e.token /\ overtaken' = FALSE
      BY <1>2, <2>1 DEF TokenStored
    <3>2. CASE Renewing(call)
      <4>1. PICK d \in Calls : Renews(call[d])
        BY <3>2 DEF Renewing
      <4>2. d # c /\ call[d].stage = "arrived"
        BY <4>1 DEF Renews
      <4>3. Renews(call'[d])
        BY <1>4, <4>1, <4>2
      <4> QED BY <1>1, <3>1, <4>3 DEF Follows, Renewing
    <3>3. CASE TokensFollow(call, cookie, csrfToken, overtaken)
      <4>1. e.token = cookie
        BY <2>1, <3>3 DEF TokensFollow, TokenRequestFollows
      <4>2. \A d \in Calls : TokenRequestFollows(call'[d], cookie)
        BY <1>5, <3>3 DEF TokensFollow, TokenRequestFollows
      <4> QED BY <1>1, <3>1, <4>1, <4>2 DEF Follows, TokensFollow
    <3> QED BY <3>2, <3>3 DEF TabInvariant, Follows
  <2>2. CASE ~e.current
    BY <1>2, <1>5, <2>2 DEF TokenStored, TabInvariant, TabTypes
  <2> QED BY <2>1, <2>2
<1>7. RequestIsOne(call', csrfTokenRequest') /\ csrfTokenRequest' \in Calls \union {Absent}
  BY <1>2, <1>5, RequestForgotten
<1> QED BY <1>2, <1>5, <1>6, <1>7 DEF TabInvariant, TabTypes, sessions

\* The token request is refused: those who waited fail with it.
LEMMA TokenRefusedKeepsTheTab ==
  ASSUME TabInvariant, NEW c \in Calls, call[c] # Nothing, call[c].op = "token",
         TokenRefused(c), UNCHANGED <<sessions, cookie>>
  PROVE  TabInvariant'
<1> DEFINE left == [w \in Calls |-> IF w \in Waiting(c) \union {c} THEN Nothing ELSE call[w]]
<1>1. /\ left = [d \in Calls |-> left[d]] /\ left[c] = Nothing
      /\ \A d \in Calls \ {c} : \/ left[d] = call[d]
                                \/ left[d] = Nothing /\ call[d].stage = "waiting"
  BY DEF Waiting
<1>c. \/ ClearCsrfToken /\ Visit(Outdated(left), "login")
      \/ call' = left /\ TokenRequestForgotten(c) /\ UNCHANGED <<csrfToken, page, overtaken>>
  BY DEF TokenRefused, SignedOut
<1> HIDE DEF left
<1>2. /\ CallsAre(left) /\ Follows(left, cookie, csrfToken, overtaken)
      /\ \A r \in Calls \ {c} : call[r].op = "token" => left[r] = call[r]
  BY <1>1, AnsweringKeepsTheTab
<1>3. CASE ClearCsrfToken /\ Visit(Outdated(left), "login")
  BY <1>2, <1>3, SigningOutKeepsTheTab DEF TabInvariant
<1>4. CASE call' = left /\ TokenRequestForgotten(c) /\ UNCHANGED <<csrfToken, page, overtaken>>
  <2>1. RequestIsOne(left, csrfTokenRequest') /\ csrfTokenRequest' \in Calls \union {Absent}
    BY <1>2, <1>4, RequestForgotten
  <2> QED BY <1>2, <1>4, <2>1 DEF TabInvariant, TabTypes, sessions
<1> QED BY <1>c, <1>3, <1>4

LEMMA ContinueKeepsTheTab ==
  ASSUME TabInvariant, NEW c \in Calls, Continue(c)
  PROVE  TabInvariant'
<1>1. /\ call[c] # Nothing /\ call[c].stage = "arrived" /\ UNCHANGED <<sessions, cookie>>
      /\ \/ AfterLogin(c) \/ AfterSecurity(c) \/ AfterSignOut(c) \/ AfterMutation(c)
         \/ AfterHeartbeat(c) \/ AfterToken(c)
  BY DEF Continue
<1>2. CASE AfterToken(c)
  BY <1>1, <1>2, TokenGivenKeepsTheTab, TokenRefusedKeepsTheTab DEF AfterToken
<1> QED BY <1>1, <1>2, AfterLoginKeepsTheTab, AfterSecurityKeepsTheTab, AfterOthersKeepTheTab

LEMMA TabStepsKeepTheInvariant ==
  ASSUME TabInvariant, [TabNext]_tabVars
  PROVE  TabInvariant'
<1>1. CASE SubmitLogin \/ Heartbeat \/ Mutate \/ Logout \/ ChangePassword
  BY <1>1, SubmitLoginKeepsTheTab, ApiFetchKeepsTheTab
     DEF Heartbeat, Mutate, Logout, ChangePassword, Unsafe
<1>2. CASE UNCHANGED tabVars
  BY <1>2 DEF TabInvariant, TabTypes, tabVars, sessions, csrf
<1> QED BY <1>1, <1>2, ReloadKeepsTheTab, NavigateKeepsTheTab, RevokeKeepsTheTab,
           HandleKeepsTheTab, ArriveKeepsTheTab, LoseKeepsTheTab, ContinueKeepsTheTab DEF TabNext

LEMMA TabStarts == TabInit => TabInvariant
<1> SUFFICES ASSUME TabInit PROVE TabInvariant
  OBVIOUS
<1>1. \A c \in Calls : call[c] = Nothing /\ call[c].op = "none"
  BY NothingIsNoCall DEF TabInit
<1>2. call \in [Calls -> Call \union {Nothing}]
  BY DEF TabInit
<1>3. CallsAre(call) /\ TokensFollow(call, cookie, Absent, FALSE)
  BY <1>1, <1>2 DEF CallsAre, TabCall, TokensFollow, TokenRequestFollows
<1> QED BY <1>3 DEF TabInit, TabInvariant, TabTypes, Follows, RequestIsOne, Pages

(* The requests of a tab, its token and the cookie, in every behaviour of   *)
(* csrf.ts and client.ts, whatever page is left while a request is under    *)
(* way.                                                                     *)
THEOREM TabInvariance == TabSpec => []TabInvariant
<1>1. TabInvariant /\ [TabNext]_tabVars => TabInvariant'
  BY TabStepsKeepTheInvariant
<1> QED BY <1>1, TabStarts, PTL DEF TabSpec

(* The types of the tab, and a token with every request that needs one.     *)
THEOREM TabTypeCorrect == TabSpec => []TabTypeOK
<1>1. TabInvariant => TabTypeOK
  BY DEF TabInvariant, TabTypes, CallsAre, TabCall, TabTypeOK, Free
<1> QED BY <1>1, TabInvariance, PTL

(* Once nothing is under way the token in memory is the one of the session  *)
(* the browser is signed in with, unless an answer to a sign-in or a        *)
(* session check brought it too late; and the token request that callers    *)
(* join is one that will be answered: for any number of requests and        *)
(* sign-ins, on whatever pages.                                             *)
THEOREM TokenStaysWithTheCookie == TabSpec => []TokenFollowsTheCookie
<1>1. TabInvariant => TokenFollowsTheCookie
  <2> SUFFICES ASSUME TabInvariant PROVE TokenFollowsTheCookie
    OBVIOUS
  <2>1. ASSUME Quiet, csrfToken # Absent, ~overtaken PROVE csrfToken = cookie
    <3>1. ~Renewing(call)
      BY <2>1, NothingIsNoCall DEF Renewing, Renews, Quiet, Free
    <3> QED BY <2>1, <3>1 DEF TabInvariant, Follows, TokensFollow
  <2>2. csrfTokenRequest # Absent => call[csrfTokenRequest].op = "token"
    BY DEF TabInvariant, RequestIsOne
  <2> QED BY <2>1, <2>2 DEF TokenFollowsTheCookie
<1> QED BY <1>1, TabInvariance, PTL
=============================================================================
