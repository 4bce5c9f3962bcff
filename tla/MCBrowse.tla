-------------------------------- MODULE MCBrowse --------------------------------
(* Instances of Browse for TLC. *)
EXTENDS Browse

CONSTANTS j1, j2, j3, j4, upload, theme

Videos  == {j1, j2, j3, j4}
\* One video is still to come.
Newest  == <<j1, j2, j3>>
Hits    == {j1, j3, j4}
Quick   == <<upload, theme>>
Toggle  == <<theme>>
Numbers == {1, 2}
Season  == [j \in Videos |-> IF j \in {j1, j4} THEN 1 ELSE 2]
=============================================================================
