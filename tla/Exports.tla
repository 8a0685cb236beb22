------------------------------- MODULE Exports -------------------------------
(***************************************************************************)
(* The CSV exports of apps/api/src/exports: participants, shop orders,     *)
(* point events and code redemptions, the same algorithm over four tables. *)
(* An export counts the rows its filter selects and reads them block by    *)
(* block, each block after the last identifier of the previous one, with   *)
(* no transaction around them: rows are written, and enter or leave the    *)
(* filter, between two blocks.  A row is its identifier, the identifiers   *)
(* are ordered as the database orders them, and the file is the sequence   *)
(* of the rows.                                                            *)
(***************************************************************************)
EXTENDS DownloadGate, SequencesExt

CONSTANTS
  Requests,   \* the requests for an export
  LastId,     \* rows are 1..LastId, in the order of their identifiers
  BatchSize,  \* EXPORT_BATCH_SIZE
  MaxRows,    \* MAX_EXPORT_ROWS
  MaxBytes,   \* MAX_EXPORT_BYTES
  RowBytes,   \* the bytes of each row; the header counts one
  MaxWrites,  \* bound on the rows that change while exports run
  MaxExportFaults   \* bound on the queries that fail

ASSUME SizesAssumption ==
  /\ LastId \in Nat /\ BatchSize \in Nat \ {0} /\ MaxRows \in Nat /\ MaxBytes \in Nat
  /\ RowBytes \in [1 .. LastId -> Nat]
  /\ MaxWrites \in Nat /\ MaxExportFaults \in Nat

VARIABLES
  selected,  \* the rows that the filter selects in the database
  export,    \* the exports
  writes, exportFaults

exportVars == <<active, selected, export, writes, exportFaults>>

Ids == 1 .. LastId
ExportUnderWay == {"counting", "reading"}
TurnedAway == {"busy", "tooManyRows", "tooManyBytes", "failed"}

\* always, ever: the rows the filter selected at every moment since the export
\* began, and at some moment of it.  A client that closes the connection is not in
\* it: no code of the exports is told, and nothing changes.
Export == [pc : {"idle", "sent"} \union ExportUnderWay \union TurnedAway,
           rows : Seq(Ids), afterId : 0 .. LastId,
           always : SUBSET Ids, ever : SUBSET Ids]
NoExport == [pc |-> "idle", rows |-> <<>>, afterId |-> 0,
             always |-> {}, ever |-> {}]

Running == {r \in Requests : export[r].pc \in ExportUnderWay}

ExportTypeOK ==
  /\ GateTypeOK
  /\ selected \subseteq Ids
  /\ export \in [Requests -> Export]
  /\ writes \in 0 .. MaxWrites /\ exportFaults \in 0 .. MaxExportFaults

ExportInit ==
  /\ GateInit
  /\ selected \in SUBSET Ids
  /\ export = [r \in Requests |-> NoExport]
  /\ writes = 0 /\ exportFaults = 0

-----------------------------------------------------------------------------

UpdateExport(r, e) == export' = [export EXCEPT ![r] = e]

\* The slot given back only when the work succeeds.
EndWithoutFinally(r, answer) ==
  /\ UpdateExport(r, IF answer = "sent" THEN [export[r] EXCEPT !.pc = answer]
               ELSE [NoExport EXCEPT !.pc = answer])
  /\ IF answer = "sent" THEN GiveBack("csv") ELSE UNCHANGED active

\* The export's promise settles: `finally' of DownloadGate.run, then the answer.
End(r, answer) ==
  /\ UpdateExport(r, IF answer = "sent"
               THEN [export[r] EXCEPT !.pc = answer, !.afterId = 0]
               ELSE [NoExport EXCEPT !.pc = answer])
  /\ GiveBack("csv")

\* An administrator asks for the file; the previous one, if any, is forgotten.
AskExport(r) ==
  /\ r \notin Running
  /\ IF Busy("csv")
     THEN /\ UpdateExport(r, [NoExport EXCEPT !.pc = "busy"])
          /\ UNCHANGED active
     ELSE /\ UpdateExport(r, [NoExport EXCEPT !.pc = "counting",
                        !.always = selected, !.ever = selected])
          /\ TakeSlot("csv")
  /\ UNCHANGED <<selected, writes, exportFaults>>

\* assertRowCount.
TooMany(n) == n > MaxRows

Count(r) ==
  /\ export[r].pc = "counting"
  /\ IF TooMany(Cardinality(selected))
     THEN End(r, "tooManyRows")
     ELSE /\ UpdateExport(r, [export[r] EXCEPT !.pc = "reading"])
          /\ UNCHANGED active
  /\ UNCHANGED <<selected, writes, exportFaults>>

\* Rows in the order of their identifiers: each comes after those below it.
\* (SetToSortSeq would do, but its order is no definition one can prove about.)
InOrder(ids) ==
  [n \in 1 .. Cardinality(ids) |-> CHOOSE i \in ids : Cardinality({j \in ids : j < i}) = n - 1]

\* The last rows instead of the first: the order turned round.
FindLastBlock(afterId) ==
  LET rest == {i \in selected : i > afterId}
  IN InOrder({i \in rest : Cardinality({j \in rest : j > i}) < BatchSize})

\* The first rows after an identifier, in order.
FindExportBlock(afterId) ==
  LET rest == {i \in selected : i > afterId}
  IN InOrder({i \in rest : Cardinality({j \in rest : j < i}) < BatchSize})

\* serializeCsv: the line that would pass the limit ends the export.
Bytes(rows) == FoldSeq(LAMBDA i, sum : RowBytes[i] + sum, 1, rows)
SendAnyway(r) == End(r, "sent")
Serialize(r) ==
  IF Bytes(export[r].rows) <= MaxBytes THEN End(r, "sent") ELSE End(r, "tooManyBytes")

ReadBlock(r) ==
  LET block == FindExportBlock(export[r].afterId)
      rows == export[r].rows \o block
  IN /\ export[r].pc = "reading"
     /\ \/ block = <<>> /\ Serialize(r)
        \/ block # <<>> /\ TooMany(Len(rows)) /\ End(r, "tooManyRows")
        \/ /\ block # <<>> /\ ~TooMany(Len(rows))
           /\ UpdateExport(r, [export[r] EXCEPT !.rows = rows, !.afterId = Last(block)])
           /\ UNCHANGED active
     /\ UNCHANGED <<selected, writes, exportFaults>>

\* A query fails: the error leaves the work, and the slot with it.
QueryFails(r) ==
  /\ r \in Running /\ exportFaults < MaxExportFaults
  /\ End(r, "failed")
  /\ exportFaults' = exportFaults + 1
  /\ UNCHANGED <<selected, writes>>

\* A row is inserted, or changes so that the filter begins or ceases to select it.
Write(i) ==
  /\ writes < MaxWrites
  /\ writes' = writes + 1
  /\ selected' = IF i \in selected THEN selected \ {i} ELSE selected \union {i}
  /\ export' = [r \in Requests |->
                  IF r \notin Running THEN export[r]
                  ELSE [export[r] EXCEPT !.always = @ \intersect selected',
                                         !.ever = @ \union selected']]
  /\ UNCHANGED <<active, exportFaults>>

ExportNext ==
  \/ \E r \in Requests : AskExport(r) \/ Count(r) \/ ReadBlock(r) \/ QueryFails(r)
  \/ \E i \in Ids : Write(i)

ExportSpec == ExportInit /\ [][ExportNext]_exportVars

-----------------------------------------------------------------------------

(* A file that was sent has no row twice, has every row that the filter     *)
(* selected from the beginning of the export to its end, and no row that it *)
(* never selected in between, whatever was written meanwhile; and it passes *)
(* no limit, although rows are inserted after the count (the keyset pages   *)
(* under exportParticipants and the three loops like it, serializeCsv).     *)
SentFilesAreFaithful ==
  \A r \in Requests :
    export[r].pc = "sent" =>
      /\ IsInjective(export[r].rows)
      /\ export[r].always \subseteq Range(export[r].rows)
      /\ Range(export[r].rows) \subseteq export[r].ever
      /\ Len(export[r].rows) <= MaxRows /\ Bytes(export[r].rows) <= MaxBytes

(* The slots are exactly the exports under way, never more than the         *)
(* capacity, so that no failure, refusal or file too large keeps one        *)
(* (DownloadGate.run, ExportLimits.runCsv).                                 *)
SlotsAreTheExports ==
  /\ active["csv"] = Cardinality(Running)
  /\ active["csv"] <= Capacity["csv"]
=============================================================================
