---------------------------- MODULE DownloadGate ----------------------------
(***************************************************************************)
(* common/download-gate.ts: the number of downloads of each kind that are  *)
(* under way, kept in the module and so shared by every request of the     *)
(* process.  DownloadGate.run takes a slot of a kind before the work       *)
(* begins and gives it back in the `finally' of the work, however it ends. *)
(***************************************************************************)
EXTENDS Naturals

DownloadKinds == {"csv", "qr"}

CONSTANT Capacity  \* DOWNLOAD_CAPACITY

ASSUME CapacityAssumption == Capacity \in [DownloadKinds -> Nat \ {0}]

VARIABLE active    \* activeDownloads

GateTypeOK == active \in [DownloadKinds -> Nat] /\ \A k \in DownloadKinds : active[k] <= Capacity[k]

GateInit == active = [k \in DownloadKinds |-> 0]

\* active >= DOWNLOAD_CAPACITY[kind]: DownloadCapacityError, 429 with Retry-After.
\* With a bug: the comparison lets one more through.
OneTooMany(kind) == active[kind] > Capacity[kind]
Busy(kind) == active[kind] >= Capacity[kind]

TakeSlot(kind) == active' = [active EXCEPT ![kind] = @ + 1]

GiveBack(kind) == active' = [active EXCEPT ![kind] = IF @ > 0 THEN @ - 1 ELSE 0]
=============================================================================
