--------------------------- MODULE MCSingleFlight ---------------------------
(* Instances of SingleFlight for TLC. *)
EXTENDS SingleFlight, TLC

CONSTANTS r1, r2, r3, seg, virt

ThreeRequests == {r1, r2, r3}
TwoRequests == {r1, r2}
TwoKeys == {seg, virt}
VirtualFromSegment == virt :> <<seg>>
\* Made of two sources, of one key so that two keys suffice.
VirtualFromTwice == virt :> <<seg, seg>>
SegmentInParts == {seg}
Whole == {}
\* The third request is a prefetch.
TwoClients == {r1, r2}
=============================================================================
