---------------------------- MODULE RedeemDialog ----------------------------
(***************************************************************************)
(* The dialog in which a participant redeems a code, typed or scanned:     *)
(* redeem-code-dialog.tsx with its states, qr-code-scanner.tsx, mounted    *)
(* while the dialog asks for the camera or scans, and qr-scanner.ts, whose *)
(* start goes through the import of the reader, the permission of the user *)
(* and the first frame.  The user may close the dialog, stop the camera or *)
(* start another scanner at each of these points.  Every mount is a        *)
(* scanner of its own, with its own video element.                         *)
(***************************************************************************)
EXTENDS Naturals, FiniteSets

CONSTANTS
  Scanners,  \* the times the scanner may be mounted
  Codes,     \* well-formed codes
  NoCode       \* no code

ASSUME NoCodeAssumption == NoCode \notin Codes

VARIABLES
  open,          \* isOpen
  cameraState,   \* cameraState
  field,         \* the form's code
  detectedCode,  \* detectedCode
  scanner,       \* the scanners
  pending,       \* the code whose redemption is under way
  redeemed       \* server: the codes this participant has redeemed

form == <<field, detectedCode>>
requests == <<pending, redeemed>>
dialogVars == <<open, cameraState, form, scanner, requests>>

\* stage: where startQrScanner is; playing: the stream is attached and the first frame
\* not decoded.  lit: the camera's track is live.  mounted: ~isCancelled.
Scanner == [stage : {"unused", "importing", "asking", "playing", "running", "ended"},
            mounted : BOOLEAN, lit : BOOLEAN, hasDetected : BOOLEAN]
Unused == [stage |-> "unused", mounted |-> FALSE, lit |-> FALSE, hasDetected |-> FALSE]
Viewfinder == {"requesting", "scanning"}

DialogTypeOK ==
  /\ open \in BOOLEAN
  /\ cameraState \in {"manual", "detected", "camera-error"} \union Viewfinder
  /\ field \in Codes \union {NoCode} /\ detectedCode \in Codes \union {NoCode}
  /\ scanner \in [Scanners -> Scanner]
  /\ pending \in Codes \union {NoCode} /\ redeemed \subseteq Codes
  /\ Cardinality({s \in Scanners : scanner[s].mounted}) <= 1

DialogInit ==
  /\ open = FALSE /\ cameraState = "manual"
  /\ field = NoCode /\ detectedCode = NoCode
  /\ scanner = [s \in Scanners |-> Unused]
  /\ pending = NoCode /\ redeemed = {}

-----------------------------------------------------------------------------
(* The scanner.                                                            *)

Stopped(sc) == [sc EXCEPT !.stage = "ended", !.lit = FALSE]

\* The cleanup of the effect: the start that is still under way learns of it later.
CleanupWithoutStop(sc) == [sc EXCEPT !.mounted = FALSE]
Cleanup(sc) ==
  IF ~sc.mounted THEN sc
  ELSE IF sc.stage = "running" THEN [Stopped(sc) EXCEPT !.mounted = FALSE]
  ELSE [sc EXCEPT !.mounted = FALSE]

\* The dialog leaves the viewfinder, or is closed: what was mounted is unmounted.
ScannerUnmounted(scanners) == [s \in Scanners |-> Cleanup(scanners[s])]

\* startCamera: a scanner is mounted.
StartCamera(scanners) ==
  /\ cameraState' = "requesting"
  /\ detectedCode' = NoCode
  /\ \E s \in Scanners :
       /\ scanners[s] = Unused
       /\ scanner' = [ScannerUnmounted(scanners) EXCEPT
                        ![s] = [Unused EXCEPT !.stage = "importing", !.mounted = TRUE]]

\* The import of @zxing/browser answers, and the reader asks for the camera.
Imported(s) ==
  /\ scanner[s].stage = "importing"
  /\ scanner' = [scanner EXCEPT ![s].stage = "asking"]
  /\ UNCHANGED <<open, cameraState, form, requests>>

\* The permission is given and the stream attached to the video.
Granted(s) ==
  /\ scanner[s].stage = "asking"
  /\ scanner' = [scanner EXCEPT ![s].stage = "playing", ![s].lit = TRUE]
  /\ UNCHANGED <<open, cameraState, form, requests>>

\* startQrScanner throws: no secure context, no reader, no permission, no device.
StartFails(s) ==
  /\ scanner[s].stage \in {"importing", "asking", "playing"}
  /\ IF scanner[s].mounted
     THEN /\ cameraState' = "camera-error"
          /\ scanner' = ScannerUnmounted([scanner EXCEPT ![s] = Stopped(@)])
     ELSE /\ scanner' = [scanner EXCEPT ![s] = Stopped(@)]
          /\ UNCHANGED cameraState
  /\ UNCHANGED <<open, form, requests>>

\* handleCameraDetected, called by the scanner s with the code c.
Detect(s, c) ==
  /\ field' = c /\ detectedCode' = c
  /\ cameraState' = "detected"
  /\ scanner' = ScannerUnmounted([scanner EXCEPT ![s] = [Stopped(@) EXCEPT !.hasDetected = TRUE]])
  /\ UNCHANGED <<open, requests>>

\* .then of startQrScanner: a scanner unmounted meanwhile is stopped.
HandOverAnyway(s) ==
  /\ scanner' = [scanner EXCEPT ![s].stage = "running"]
  /\ cameraState' = IF cameraState = "requesting" THEN "scanning" ELSE cameraState
HandOver(s) ==
  IF scanner[s].mounted
  THEN /\ scanner' = [scanner EXCEPT ![s].stage = "running"]
       /\ cameraState' = IF cameraState = "requesting" THEN "scanning" ELSE cameraState
  ELSE /\ scanner' = [scanner EXCEPT ![s] = Stopped(@)]
       /\ UNCHANGED cameraState

\* The first frame is decoded, then the controls arrive.
FirstFrame(s) ==
  /\ scanner[s].stage = "playing"
  /\ \/ \E c \in Codes : Detect(s, c)
     \/ HandOver(s) /\ UNCHANGED <<open, form, requests>>

\* A later frame shows a code.
Frame(s) ==
  /\ scanner[s].stage = "running"
  /\ \E c \in Codes : Detect(s, c)

-----------------------------------------------------------------------------
(* The dialog.                                                             *)

OpenDialog ==
  /\ ~open /\ open' = TRUE
  /\ UNCHANGED <<cameraState, form, scanner, requests>>

Reset ==
  /\ cameraState' = "manual" /\ field' = NoCode /\ detectedCode' = NoCode
  /\ open' = FALSE
  /\ scanner' = ScannerUnmounted(scanner)

\* handleClose.
CloseDialog == open /\ Reset /\ UNCHANGED requests

\* The user types, or clears the field.
TypeOver(c) ==
  /\ open /\ field' = c
  /\ UNCHANGED <<open, cameraState, detectedCode, scanner, requests>>
Type(c) ==
  /\ open /\ c # field
  /\ field' = c
  /\ IF cameraState = "detected"
     THEN cameraState' = "manual" /\ detectedCode' = NoCode
     ELSE UNCHANGED <<cameraState, detectedCode>>
  /\ UNCHANGED <<open, scanner, requests>>

UseCamera ==
  /\ open /\ cameraState \in {"manual", "camera-error"}
  /\ StartCamera(scanner)
  /\ UNCHANGED <<open, field, requests>>

StopCamera ==
  /\ open /\ cameraState \in Viewfinder
  /\ cameraState' = "manual"
  /\ scanner' = ScannerUnmounted(scanner)
  /\ UNCHANGED <<open, form, requests>>

ScanAgain ==
  /\ open /\ cameraState = "detected"
  /\ field' = NoCode
  /\ StartCamera(scanner)
  /\ UNCHANGED <<open, requests>>

\* handleSubmit; the button is disabled while a redemption is pending.
SubmitCode ==
  /\ open /\ pending = NoCode /\ field # NoCode
  /\ pending' = field
  /\ UNCHANGED <<open, cameraState, form, scanner, redeemed>>

\* The API accepts the code, and onSuccess resets and closes the dialog, whether or not
\* the user has closed and opened it since.
Accepted ==
  /\ pending # NoCode /\ pending \notin redeemed
  /\ redeemed' = redeemed \union {pending}
  /\ pending' = NoCode
  /\ Reset

\* The code is refused, or the answer is lost after it was redeemed or before.
Refused ==
  /\ pending # NoCode
  /\ redeemed' \in {redeemed, redeemed \union {pending}}
  /\ pending' = NoCode
  /\ UNCHANGED <<open, cameraState, form, scanner>>

User ==
  \/ OpenDialog \/ CloseDialog \/ UseCamera \/ StopCamera \/ ScanAgain \/ SubmitCode
  \/ \E c \in Codes \union {NoCode} : Type(c)

DialogNext ==
  \/ User \/ Accepted \/ Refused
  \/ \E s \in Scanners :
       Imported(s) \/ Granted(s) \/ StartFails(s) \/ FirstFrame(s) \/ Frame(s)

DialogSpec == DialogInit /\ [][DialogNext]_dialogVars

-----------------------------------------------------------------------------

(* "Confirmar resgate" redeems the code that the dialog shows: while one is *)
(* shown as detected it is the one in the form, whatever was typed, scanned *)
(* or answered before.  And a camera is lit only for the scanner on the     *)
(* screen, or for one whose start has not come to its end (isCancelled in   *)
(* qr-code-scanner.tsx, the stopper of qr-scanner.ts).                      *)
DialogIsAsShown ==
  /\ cameraState = "detected" => field = detectedCode
  /\ \A s \in Scanners :
       scanner[s].lit => scanner[s].stage = "playing" \/ (scanner[s].mounted /\ open)

(* Not kept by the code.  A scanner that was stopped or unmounted hands over *)
(* no code: the design says that closing the dialog or going back to typing  *)
(* ends the callbacks.                                                       *)
StoppedScannersDetectNothing ==
  [][\A s \in Scanners :
       scanner'[s].hasDetected /\ ~scanner[s].hasDetected => scanner[s].mounted]_dialogVars
=============================================================================
