------------------------------ MODULE MCWatchPage ------------------------------
(* Instances of WatchPage for TLC. *)
EXTENDS WatchPage
=============================================================================
