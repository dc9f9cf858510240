--------------------------- MODULE MCMediaLibrary ---------------------------
(* Instances of MediaLibrary for TLC: a1 and a2 are two uploads of the same *)
(* bytes.                                                                   *)
EXTENDS MediaLibrary, TLC

CONSTANTS a1, a2, b

Uploads == {a1, a2, b}
Content == [u \in Uploads |-> IF u = b THEN "b" ELSE "a"]
Reposts == [m \in Messages |-> {a1, a2}]
Edits == [m \in Messages |-> {a1, b}]
Anything == [m \in Messages |-> Uploads]
Permanent == {}
AllRescue == Messages
NoSkip == {FALSE}
AlwaysSkip == {TRUE}
Interchangeable == Permutations(Workers) \cup Permutations(Messages)
=============================================================================
