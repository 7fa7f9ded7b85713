------------------------- MODULE MCCheckpointedRun -------------------------
EXTENDS CheckpointedRun

Port(n, from, required) == [node |-> n, from |-> from, required |-> required]

\* 1 feeds 2 and 3; 4 needs 3 and takes 2 if it comes.
Wide == {Port(2, {1}, TRUE), Port(3, {1}, TRUE), Port(4, {2}, FALSE), Port(4, {3}, TRUE)}

\* 1 to 4 in a row; 2 also starts without 1.
Chain == {Port(2, {1}, FALSE), Port(3, {2}, TRUE), Port(4, {3}, TRUE)}

MCGraphs ==
    {[ports |-> Wide, emits |-> E] : E \in {{1, 2, 3}, {1, 2}}}
        \union {[ports |-> Chain, emits |-> {1, 2, 3}]}
=============================================================================
