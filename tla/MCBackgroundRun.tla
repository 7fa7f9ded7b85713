--------------------------- MODULE MCBackgroundRun ---------------------------
(* Small graphs, in the foreground and launched, for TLC. *)
EXTENDS BackgroundRun, TLC

Edg(s, o, d, i) == [src |-> s, out |-> o, dst |-> d, inp |-> i]

Plain ==
    [nodes |-> {}, chan |-> <<>>,
     element |-> {}, optional |-> {}, initial |-> {}, stream |-> {}, required |-> {},
     fails |-> {}, panics |-> {}, checkpointed |-> FALSE,
     keepState |-> TRUE, storeFails |-> FALSE,
     restored |-> [n \in {} |-> 0], cancellable |-> FALSE, valid |-> TRUE,
     spawned |-> FALSE, liveIn |-> 0, liveOut |-> 0, timed |-> FALSE, emits |-> 2]

\* a streams to c, which reads it element by element and waits for b whole.
Diamond ==
    [Plain EXCEPT !.nodes = {"a", "b", "c"},
        !.chan = <<Edg("a", 1, "c", 1), Edg("a", 2, "b", 1), Edg("b", 1, "c", 2)>>,
        !.element = {<<"c", 1>>}, !.optional = {<<"c", 1>>}, !.stream = {<<"a", 1>>},
        !.required = {<<"b", 1>>}, !.fails = {"a"}, !.cancellable = TRUE]

\* a streams to b and c on one port; b reads it whole, with checkpoints.
FanOut ==
    [Plain EXCEPT !.nodes = {"a", "b", "c"},
        !.chan = <<Edg("a", 1, "b", 1), Edg("a", 1, "c", 1)>>,
        !.element = {<<"c", 1>>}, !.stream = {<<"a", 1>>},
        !.fails = {"a"}, !.checkpointed = TRUE]

\* The same, resumed: a was finished with two elements.
Resumed == [FanOut EXCEPT !.fails = {"b"}, !.storeFails = TRUE,
               !.restored = [n \in {"a"} |-> [p \in {1} |-> 2]]]

\* Its inputs are kept and nothing else.
Entries == [FanOut EXCEPT !.fails = {}, !.keepState = FALSE, !.emits = 1]

\* The caller feeds a, which streams back to it.
Echo ==
    [Plain EXCEPT !.nodes = {"a"},
        !.chan = <<Edg("caller", 1, "a", 1), Edg("a", 1, "caller", 1)>>,
        !.element = {<<"a", 1>>}, !.optional = {<<"a", 1>>}, !.stream = {<<"a", 1>>},
        !.spawned = TRUE, !.liveIn = 1, !.liveOut = 2]

Timed == [Echo EXCEPT !.timed = TRUE, !.cancellable = TRUE, !.emits = 1]
\* Launched without streams: b streams to a, and may panic.
Panics ==
    [Plain EXCEPT !.nodes = {"a", "b"}, !.chan = <<Edg("b", 1, "a", 1)>>,
        !.element = {<<"a", 1>>}, !.stream = {<<"b", 1>>},
        !.spawned = TRUE, !.timed = TRUE, !.panics = {"b"}]
Invalid == [Echo EXCEPT !.valid = FALSE]

\* a reads whole what the caller sends it.
Collect ==
    [Plain EXCEPT !.nodes = {"a"}, !.chan = <<Edg("caller", 1, "a", 1)>>,
        !.spawned = TRUE, !.liveIn = 1, !.timed = TRUE, !.cancellable = TRUE]

\* a waits for the caller's first element and for b, whole: when b ends while
\* a waits, a caller who reads before it sends is in the deadlock the detector
\* misses.
HalfEndedGraph ==
    [Echo EXCEPT !.nodes = {"a", "b"}, !.emits = 1,
        !.chan = <<Edg("caller", 1, "a", 1), Edg("b", 1, "a", 2), Edg("a", 1, "caller", 1)>>,
        !.optional = {}, !.liveOut = 3]

MCGraphs == {HalfEndedGraph, Diamond, FanOut, Resumed, Entries, Echo, Timed, Panics, Invalid,
             Collect}
=============================================================================
