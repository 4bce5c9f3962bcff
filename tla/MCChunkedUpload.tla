--------------------------- MODULE MCChunkedUpload ---------------------------
(* Instances of ChunkedUpload for TLC. *)
EXTENDS ChunkedUpload, TLC

CONSTANTS u1, u2, q1, q2, q3, q4

OneUpload == {u1}
TwoUploads == {u1, u2}
TwoRequests == {q1, q2}
ThreeRequests == {q1, q2, q3}
\* Two chunks of two bytes, the last with one; and one chunk.
Sizes == u1 :> 3 @@ u2 :> 1
OneSize == u1 :> 3
FourRequests == {q1, q2, q3, q4}
Symmetric == Permutations(Requests)
=============================================================================
