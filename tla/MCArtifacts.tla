----------------------------- MODULE MCArtifacts -----------------------------
(* Where the client of a QR download may leave.                              *)
EXTENDS Artifacts

Slots == [k \in DownloadKinds |-> IF k = "csv" THEN 2 ELSE 1]

Anywhere == Kinds \X ({"reading"} \union Working)
\* The cards of the batch are still being read.
BeforeTheWriter == {<<"pdf", "reading">>, <<"zip", "reading">>}
\* The card is being rendered, and endWithBuffer has not begun.
DuringThePng == {<<"png", "render">>}
\* Every card has been appended, and the archive is coming to its end.
WhileFinalizing == {<<"zip", "finalize">>}
=============================================================================
