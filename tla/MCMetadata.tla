------------------------------- MODULE MCMetadata -------------------------------
(* Instances of Metadata for TLC. *)
EXTENDS Metadata, TLC

CONSTANTS f1, f2, a, b

Both  == {f1, f2}
Names == <<f2, f1>>
\* The second file says neither its part nor its episode.
Said  == [f \in Both |-> [title |-> "x", series |-> "", season |-> Nothing,
            episode |-> IF f = f1 THEN 1 ELSE Nothing, part |-> IF f = f1 THEN 1 ELSE Nothing]]
Used  == {"Film Series", "Anime TV"}
Shown == {"", "x"}
Some  == {Nothing, 1}
Form(title, number) ==
  [title |-> title, series |-> "x", season |-> number, episode |-> number, part |-> number]
Left  == {Form("x", 1), Form("x", Nothing), Form("", 1)}
Known == {a, b}
Asked == {"v", "w"}
Finds == [w \in Asked |-> IF w = "v" THEN <<a, b>> ELSE <<b, a>>]
Named == [i \in Known |-> IF i = a THEN "y" ELSE ""]
=============================================================================
