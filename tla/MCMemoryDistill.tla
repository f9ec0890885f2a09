--------------------------- MODULE MCMemoryDistill ---------------------------
(* A small instance of MemoryDistill. *)
EXTENDS MemoryDistill

\* Four episodic memories, of which only the last two are alike: the first fetch
\* is cut and finds no cluster, so it goes in batches.  Three memories that
\* phases 1, 2 and 3 take for one cluster, but that the reference is for phase 1 only.
Kinds   == <<"episodic", "episodic", "episodic", "episodic", "project", "project", "reference">>
Labels  == <<"log", "log", "log", "log", "plan", "plan", "plan">>
Similar == {{3, 4}, {5, 6}, {5, 7}}
Times   == [k \in Event |-> 1]
=============================================================================
