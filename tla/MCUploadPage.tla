------------------------------ MODULE MCUploadPage ------------------------------
(* Instances of UploadPage for TLC. *)
EXTENDS UploadPage, TLC

CONSTANTS f1, f2

TwoFiles == {f1, f2}
\* A list of two files, the first with more chunks than the second.
PageLists == {<<f1, f2>>}
Sizes == f1 :> 3 @@ f2 :> 1
\* One chunk more than is sent at once would be one state too many for liveness.
SmallSizes == f1 :> 2 @@ f2 :> 1
=============================================================================
