------------------------------ MODULE MCMarker ------------------------------
(* TLC instance of Marker: six objects.  Objects 1 to 3 live in the first    *)
(* block, where 2 covers two lines and shares one with 3, which starts too   *)
(* far into it for any walk; object 4 lives in the third block, the second   *)
(* is empty; 5 and 6 are large, with a free chunk between them.              *)
EXTENDS Marker

MCObjects == 1 .. 6
MCHome == <<1, 1, 1, 3, 4, 6>>
MCFirstLine == <<1, 2, 3, 1, 0, 0>>
MCLastLine == <<1, 3, 3, 1, 0, 0>>
MCSlot == <<0, 3, 20, 1, 0, 0>>

\* Two objects are roots (0), at most one is referred to from nowhere (7), and
\* one object refers to each of the others.  With a stack of one word such a graph
\* can overflow twice and still leave something to find.
Parents == {f \in [MCObjects -> 0 .. 7] :
              /\ Cardinality({p \in MCObjects : f[p] = 0}) = 2
              /\ Cardinality({p \in MCObjects : f[p] = 7}) <= 1
              /\ \A p \in MCObjects : f[p] # p}

\* References on top of that, which make objects shared and close cycles.
Extra == {{}, {<<2, 6>>, <<6, 3>>}}

Graph(f, E, S) ==
    [refs |-> [o \in MCObjects |-> {p \in MCObjects : f[p] = o \/ <<o, p>> \in E}],
     roots |-> {p \in MCObjects : f[p] = 0},
     stale |-> S]

\* Object 3, which no walk gets to, may carry a mark from before.
MCHeaps == {Graph(f, E, S) : f \in Parents, E \in Extra, S \in {{}, {3}}}

=============================================================================
