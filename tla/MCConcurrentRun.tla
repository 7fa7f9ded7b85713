--------------------------- MODULE MCConcurrentRun ---------------------------
(* The graph of the missed deadlock, for TLC. *)
EXTENDS ConcurrentRun, TLC

Edg(s, o, d, i) == [src |-> s, out |-> o, dst |-> d, inp |-> i]

Plain ==
    [element |-> {}, optional |-> {}, initial |-> {}, stream |-> {}, required |-> {},
     fails |-> {}, panics |-> {}, checkpointed |-> FALSE,
     keepState |-> TRUE, storeFails |-> FALSE,
     restored |-> [n \in {} |-> 0], cancellable |-> FALSE, valid |-> TRUE, emits |-> 2]

\* a streams to c, which waits for b before it reads; b waits for a and d.
HalfEndedGraph ==
    [Plain EXCEPT !.element = {<<"c", 1>>}, !.stream = {<<"a", 1>>}, !.optional = {<<"c", 1>>}]
    @@ [nodes |-> {"a", "b", "c", "d"},
        chan |-> <<Edg("a", 1, "c", 1), Edg("a", 2, "b", 1), Edg("d", 1, "b", 2),
                   Edg("b", 1, "c", 2)>>]

MCGraphs == {HalfEndedGraph}
=============================================================================
