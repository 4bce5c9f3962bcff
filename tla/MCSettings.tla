------------------------------- MODULE MCSettings -------------------------------
(* Instances of Settings for TLC. *)
EXTENDS Settings, TLC

CONSTANTS p1, p2, ttl, secret, w1

TwoPages == {p1, p2}
OneInt   == {ttl}
OneWord  == {w1}
Typed    == {0, 2}
Seconds  == {1, 60}
\* The first bot of the table was deleted long ago.
Bots     == <<2>>

Symmetry == Permutations(TwoPages)
=============================================================================
