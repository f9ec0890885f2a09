--------------------------- MODULE MCMemoryForget ---------------------------
(* A small instance of MemoryForget. *)
EXTENDS MemoryForget

Pair == {{1, 2}, {2, 3}}
SameName == <<1, 3>>
Times == [k \in Event |-> IF k = "people" THEN 2 ELSE 1]
=============================================================================
