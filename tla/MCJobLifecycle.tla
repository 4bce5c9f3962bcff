--------------------------- MODULE MCJobLifecycle ---------------------------
(* Instances of JobLifecycle for TLC. *)
EXTENDS JobLifecycle, TLC

CONSTANTS j1, j2

OneJob == {j1}
TwoJobs == {j1, j2}
NoTimeouts == {}
NoFaults == {TRUE}
Faults == {TRUE, FALSE}
AllOrigins == {"upload", "library", "url"}
UploadsOnly == {"upload"}
JobSymmetry == Permutations(Jobs)
=============================================================================
