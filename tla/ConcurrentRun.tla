---------------------------- MODULE ConcurrentRun ----------------------------
(***************************************************************************)
(* One run of a dataflow graph under the concurrent executor               *)
(* (extension/rag3weaver/src/dataflow/concurrent.rs): one thread per node, *)
(* the edges as channels of a StreamHub, a main thread that writes the     *)
(* checkpoints the nodes hand it and joins the threads, and a cancel       *)
(* handle anybody may pull.                                                *)
(*                                                                         *)
(* A node's own code is any sequence of reads, emissions and closed inputs *)
(* followed by a return: a step of it is one call on its context, which    *)
(* takes the hub's mutex once.                                             *)
(***************************************************************************)
EXTENDS StreamHub, Sequences

CONSTANT
    Graphs      \* the graphs and settings a run may start with

(***************************************************************************)
(* A graph is a record: nodes; chan, its edges, from an output port to an  *)
(* input port; element, the input ports read one element at a time (the    *)
(* others are read whole); optional, the inputs that may stay empty;       *)
(* initial, the inputs given a value by the caller; stream and required,   *)
(* the output ports that are streams, and that must be set; fails and      *)
(* panics, the nodes that may; checkpointed, keepState (the mode Full) and *)
(* storeFails; restored, the nodes finished by an earlier run, each with   *)
(* its elements per port; emits, the BOUND on the elements one node emits  *)
(* on its streams; and what a launch in the background adds (see           *)
(* BackgroundRun).                                                         *)
(***************************************************************************)
\* The hub numbers its channels and its workers: a node is never taken for the
\* caller, the launch or the timer.
ASSUME GraphsAssumption ==
    \A g \in Graphs :
        /\ g.nodes \cap {"caller", "launch", "timer"} = {}
        /\ DOMAIN g.chan \subseteq Nat \ {0}

VARIABLES
    graph,      \* the graph of this run: never changes
    hub,        \* its StreamHub
    th,         \* the thread of each node
    persistq,   \* Persist messages handed to the main thread, oldest first
    saved,      \* the nodes the store holds as completed
    storeErr,   \* a save failed
    main,       \* the main thread: where it is and what it returns
    handle      \* the CancelHandle: cancelled, attached, and due, the clones
                \* of the hub a cancel() has taken and not yet cancelled

runvars == <<graph, hub, th, persistq, saved, storeErr, main, handle>>

Nodes == graph.nodes
Edge(c) == graph.chan[c]
In(n) == {c \in DOMAIN graph.chan : Edge(c).dst = n}
Out(n) == {c \in DOMAIN graph.chan : Edge(c).src = n}
InPorts(n) == {Edge(c).inp : c \in In(n)}
OutPorts(n) == {Edge(c).out : c \in Out(n)}
InChans(n, P) == {c \in In(n) : Edge(c).inp \in P}
OutChans(n, p) == {c \in Out(n) : Edge(c).out = p}
Elements(n) == {p \in InPorts(n) : <<n, p>> \in graph.element}
Required(n) == {p \in InPorts(n) : <<n, p>> \notin graph.optional}
StreamOuts(n) == {p \in OutPorts(n) : <<n, p>> \in graph.stream}
WholeChans(n) == In(n) \ InChans(n, Elements(n))

-----------------------------------------------------------------------------
(* The thread of a node                                                    *)

NoCall == [op |-> "none", ports |-> {}]
Call(op, P) == [op |-> op, ports |-> P]

\* start, todo: the channels the departure waits for, and those retain has
\* still to look at.  filled: the ports with something read or given before
\* execute.  bound: the inputs of the StreamBinding.  eof: the ports whose
\* end the node has read.  given: the outputs that went out.  left: what a
\* restored node has still to replay.  closing: channels to release.
Thread(n) ==
    LET start == InChans(n, Required(n) \cup (InPorts(n) \ Elements(n)))
        restored == n \in DOMAIN graph.restored
    IN [pc |-> IF restored THEN "drop" ELSE IF start = {} THEN "context" ELSE "scan",
        start |-> start, todo |-> start,
        filled |-> {p \in InPorts(n) : <<n, p>> \in graph.initial},
        bound |-> {}, eof |-> {}, call |-> NoCall, emits |-> 0, given |-> {}, outs |-> {},
        left |-> IF restored THEN graph.restored[n] ELSE [p \in {} |-> 0],
        closing |-> IF restored THEN In(n) ELSE {},
        stopped |-> FALSE, ending |-> "none"]

SetTh(n, t) == th' = [th EXCEPT ![n] = t]

\* Where a node that ends as `how' goes: finish releases its outputs, then
\* its bound inputs.
ToFinish(t, how) == [t EXCEPT !.pc = "finish", !.ending = how, !.call = NoCall]

\* retain: one channel is looked at per lock of the hub.  It ignores cancel.
Scan(n) ==
    /\ th[n].pc = "scan"
    /\ LET c == Min(th[n].todo)
           p == Edge(c).inp
           served == (p \in Elements(n) /\ p \in th[n].filled) \/ Ended(hub, c)
           start == IF served THEN th[n].start \ {c} ELSE th[n].start
           todo == th[n].todo \ {c}
       IN SetTh(n, [th[n] EXCEPT !.start = start, !.todo = todo,
                      !.pc = IF todo # {} THEN "scan"
                             ELSE IF start = {} THEN "context" ELSE "await"])
    /\ UNCHANGED <<graph, hub, persistq, saved, storeErr, main, handle>>

\* recv_any on the channels the departure still waits for.
Await(n) ==
    /\ th[n].pc = "await"
    /\ MayRun(hub, n)
    /\ LET r == RecvAny(hub, n, th[n].start)
           t == th[n]
       IN /\ hub' = r.hub
          /\ \/ r.res = "blocked" /\ SetTh(n, t)
             \/ r.res = "end" /\ SetTh(n, [t EXCEPT !.pc = "context"])
             \/ r.res = "cancelled" /\ SetTh(n, ToFinish(t, "cancelled"))
             \/ /\ r.res = "value"
                /\ SetTh(n, [t EXCEPT !.pc = "scan", !.todo = t.start,
                               !.filled = @ \cup {Edge(Min(r.chans)).inp}])
    /\ UNCHANGED <<graph, persistq, saved, storeErr, main, handle>>

\* The context is made: element inputs are bound, whole inputs folded.  A
\* fold of values that do not merge fails the node, a required input without
\* data skips it.
Context(n) ==
    /\ th[n].pc = "context"
    /\ LET t == [th[n] EXCEPT !.bound = Elements(n)]
       IN \/ n \in graph.fails /\ WholeChans(n) # {} /\ SetTh(n, [t EXCEPT !.pc = "failing"])
          \/ ~(Required(n) \subseteq t.filled) /\ SetTh(n, ToFinish(t, "skipped"))
          \/ Required(n) \subseteq t.filled /\ SetTh(n, [t EXCEPT !.pc = "exec"])
    /\ UNCHANGED <<graph, hub, persistq, saved, storeErr, main, handle>>

-----------------------------------------------------------------------------
(* What a node may do while it executes                                    *)

Executing(n) == th[n].pc = "exec"
Free(n) == Executing(n) /\ th[n].call = NoCall /\ ~th[n].stopped

\* next and next_any give what was read before execute first.
TakePending(n, p) ==
    /\ Free(n)
    /\ p \in th[n].bound \cap th[n].filled
    /\ SetTh(n, [th[n] EXCEPT !.filled = @ \ {p}])
    /\ UNCHANGED <<graph, hub, persistq, saved, storeErr, main, handle>>

\* next reads one port (P = {p}), next_any all the bound ones.
Next_(n, P) ==
    /\ Free(n) \/ (Executing(n) /\ th[n].call = Call("recv", P))
    /\ MayRun(hub, n)
    /\ P # {} /\ P \cap th[n].filled = {} /\ ~(P \subseteq th[n].eof)
    /\ LET r == RecvAny(hub, n, InChans(n, P))
       IN /\ hub' = r.hub
          /\ SetTh(n, [th[n] EXCEPT
                !.call = IF r.res = "blocked" THEN Call("recv", P) ELSE NoCall,
                !.eof = IF r.res = "end" THEN @ \cup P ELSE @,
                !.stopped = r.res = "cancelled"])
    /\ UNCHANGED <<graph, persistq, saved, storeErr, main, handle>>

\* emit on a connected stream output.
Emit(n, p) ==
    /\ \/ Free(n) /\ th[n].emits < graph.emits
       \/ Executing(n) /\ th[n].call = Call("send", {p})
    /\ MayRun(hub, n)
    /\ p \in StreamOuts(n)
    /\ LET r == Send(hub, n, OutChans(n, p))
       IN /\ hub' = r.hub
          /\ SetTh(n, [th[n] EXCEPT
                !.call = IF r.res = "blocked" THEN Call("send", {p}) ELSE NoCall,
                !.emits = IF r.res = "blocked" THEN @ ELSE @ + 1,
                !.given = IF r.res = "ok" THEN @ \cup {p} ELSE @,
                !.stopped = r.res = "cancelled"])
    /\ UNCHANGED <<graph, persistq, saved, storeErr, main, handle>>

\* close_input: the port leaves the binding, then each channel its reader.
CloseInput(n, p) ==
    /\ Free(n)
    /\ p \in th[n].bound
    /\ SetTh(n, [th[n] EXCEPT !.bound = @ \ {p}, !.filled = @ \ {p},
                   !.closing = InChans(n, {p}), !.call = Call("close", {p})])
    /\ UNCHANGED <<graph, hub, persistq, saved, storeErr, main, handle>>

CloseStep(n) ==
    /\ Executing(n) /\ th[n].call.op = "close"
    /\ \E c \in th[n].closing :
          LET rest == th[n].closing \ {c}
          IN /\ hub' = ReleaseReceiver(hub, c)
             /\ SetTh(n, [th[n] EXCEPT !.closing = rest,
                            !.call = IF rest = {} THEN NoCall ELSE @])
    /\ UNCHANGED <<graph, persistq, saved, storeErr, main, handle>>

\* Mutant: the run is not looked at again once the node has returned.
ReturnUnchecked(n) ==
    /\ Executing(n) /\ th[n].call = NoCall
    /\ \E O \in SUBSET (OutPorts(n) \ StreamOuts(n)) :
          SetTh(n, [th[n] EXCEPT !.outs = O, !.pc = "outputs"])
    /\ UNCHANGED <<graph, hub, persistq, saved, storeErr, main, handle>>

\* execute returns, and the executor looks whether the run was cancelled
\* meanwhile: then the node was stopped, whatever it returned.  Otherwise an
\* error or a required output that is not set fails it.
Return(n) ==
    /\ Executing(n) /\ th[n].call = NoCall
    /\ LET t == th[n]
           lacks(O) == {p \in OutPorts(n) : <<n, p>> \in graph.required} \ (O \cup t.given)
       IN \/ Cancelled(hub) /\ SetTh(n, ToFinish(t, "cancelled"))
          \/ /\ ~Cancelled(hub) /\ n \in graph.fails
             /\ SetTh(n, [t EXCEPT !.pc = "failing"])
          \/ /\ ~Cancelled(hub)
             /\ \E O \in SUBSET (OutPorts(n) \ StreamOuts(n)) :
                   SetTh(n, [t EXCEPT !.outs = O,
                               !.pc = IF lacks(O) = {} THEN "outputs" ELSE "failing"])
    /\ UNCHANGED <<graph, hub, persistq, saved, storeErr, main, handle>>

\* A panic: nothing of the binding is released, WorkerGuard cancels the run
\* and signs the worker out.
Panic(n) ==
    /\ Free(n)
    /\ n \in graph.panics
    /\ hub' = CancelHub(hub, Failed(n))
    /\ SetTh(n, [th[n] EXCEPT !.pc = "leave", !.ending = "panicked"])
    /\ UNCHANGED <<graph, persistq, saved, storeErr, main, handle>>

-----------------------------------------------------------------------------
(* After execute                                                           *)

Persist(what, n) ==
    persistq' = IF graph.checkpointed
                THEN Append(persistq, [what |-> what, node |-> n]) ELSE persistq

\* Mutant: the failed node's channels end without the run being cancelled.
FailQuietly(n) ==
    /\ th[n].pc = "failing"
    /\ Persist("failed", n)
    /\ SetTh(n, ToFinish(th[n], "failed"))
    /\ UNCHANGED <<graph, hub, saved, storeErr, main, handle>>

\* The node's failure: the run is cancelled BEFORE its channels end.
Fail(n) ==
    /\ th[n].pc = "failing"
    /\ hub' = CancelHub(hub, Failed(n))
    /\ Persist("failed", n)
    /\ SetTh(n, ToFinish(th[n], "failed"))
    /\ UNCHANGED <<graph, saved, storeErr, main, handle>>

\* The values the node set go out, in any order of their ports.
SendOutput(n, p) ==
    /\ th[n].pc = "outputs"
    /\ p \in th[n].outs
    /\ th[n].call \in {NoCall, Call("send", {p})}
    /\ MayRun(hub, n)
    /\ LET r == Send(hub, n, OutChans(n, p))
           t == th[n]
       IN /\ hub' = r.hub
          /\ \/ r.res = "blocked" /\ SetTh(n, [t EXCEPT !.call = Call("send", {p})])
             \/ r.res = "cancelled" /\ SetTh(n, ToFinish(t, "cancelled"))
             \/ /\ r.res \in {"ok", "noreader"}
                /\ SetTh(n, [t EXCEPT !.call = NoCall, !.outs = @ \ {p}])
    /\ UNCHANGED <<graph, persistq, saved, storeErr, main, handle>>

\* Everything went out: handed to the persister, unless an output cannot be
\* written to a checkpoint.  Only then does finish end the channels.
Complete(n) ==
    /\ th[n].pc = "outputs" /\ th[n].outs = {}
    /\ \/ /\ graph.checkpointed /\ n \in graph.fails
          /\ SetTh(n, [th[n] EXCEPT !.pc = "failing"])
          /\ UNCHANGED persistq
       \/ Persist("completed", n) /\ SetTh(n, ToFinish(th[n], "completed"))
    /\ UNCHANGED <<graph, hub, saved, storeErr, main, handle>>

\* finish: one release per lock, the outputs first.
HeldOut(n) == {c \in Out(n) : hub.senders[c] > 0}
HeldIn(n) == {c \in InChans(n, th[n].bound) : hub.receivers[c] > 0}

\* Mutant: the outputs never end.
FinishInputs(n) ==
    /\ th[n].pc = "finish"
    /\ \/ \E c \in HeldIn(n) : hub' = ReleaseReceiver(hub, c) /\ UNCHANGED th
       \/ HeldIn(n) = {} /\ SetTh(n, [th[n] EXCEPT !.pc = "leave"]) /\ UNCHANGED hub
    /\ UNCHANGED <<graph, persistq, saved, storeErr, main, handle>>

Finish(n) ==
    /\ th[n].pc = "finish"
    /\ \/ \E c \in HeldOut(n) : hub' = ReleaseSender(hub, c) /\ UNCHANGED th
       \/ /\ HeldOut(n) = {}
          /\ \E c \in HeldIn(n) : hub' = ReleaseReceiver(hub, c) /\ UNCHANGED th
       \/ /\ HeldOut(n) = {} /\ HeldIn(n) = {}
          /\ SetTh(n, [th[n] EXCEPT !.pc = "leave"]) /\ UNCHANGED hub
    /\ UNCHANGED <<graph, persistq, saved, storeErr, main, handle>>

\* The drop of WorkerGuard.
Leave(n) ==
    /\ th[n].pc = "leave"
    /\ hub' = WorkerDone(hub, n)
    /\ SetTh(n, [th[n] EXCEPT !.pc = "done"])
    /\ UNCHANGED <<graph, persistq, saved, storeErr, main, handle>>

-----------------------------------------------------------------------------
(* A node an earlier run finished: its inputs are dropped, its outputs     *)
(* replayed, it does not execute.                                          *)

DropInputs(n) ==
    /\ th[n].pc = "drop"
    /\ IF th[n].closing = {}
       THEN SetTh(n, [th[n] EXCEPT !.pc = "replay"]) /\ UNCHANGED hub
       ELSE \E c \in th[n].closing :
               /\ hub' = ReleaseReceiver(hub, c)
               /\ SetTh(n, [th[n] EXCEPT !.closing = @ \ {c}])
    /\ UNCHANGED <<graph, persistq, saved, storeErr, main, handle>>

Replay(n) ==
    /\ th[n].pc = "replay"
    /\ MayRun(hub, n)
    /\ LET t == th[n]
           ports == {p \in DOMAIN t.left \cap OutPorts(n) : t.left[p] > 0}
           p == Min(ports)
           r == Send(hub, n, OutChans(n, p))
       IN IF ports = {}
          THEN SetTh(n, ToFinish(t, "completed")) /\ UNCHANGED hub
          ELSE /\ hub' = r.hub
               /\ \/ r.res = "blocked" /\ SetTh(n, t)
                  \/ r.res = "ok" /\ SetTh(n, [t EXCEPT !.left[p] = @ - 1])
                  \/ r.res = "noreader" /\ SetTh(n, [t EXCEPT !.left[p] = 0])
                  \/ r.res = "cancelled" /\ SetTh(n, ToFinish(t, "cancelled"))
    /\ UNCHANGED <<graph, persistq, saved, storeErr, main, handle>>

-----------------------------------------------------------------------------
(* The main thread and the cancel handle                                   *)

\* CancelHandle::attach, under the handle's own mutex: a handle pulled
\* before cancels the hub at once.
Attach ==
    /\ main.pc = "attach"
    /\ hub' = IF handle.cancelled THEN CancelHub(hub, External) ELSE hub
    /\ handle' = [handle EXCEPT !.attached = TRUE]
    /\ main' = [main EXCEPT !.pc = "mount"]
    /\ UNCHANGED <<graph, th, persistq, saved, storeErr>>

\* Every worker signs in before the first thread starts.  A spawned run then
\* signs out the worker that stood for them; the threads start.
Mount ==
    /\ main.pc = "mount" /\ graph.valid
    /\ hub' = Register(hub, Nodes)
    /\ main' = [main EXCEPT !.pc = "leave"]
    /\ UNCHANGED <<graph, th, persistq, saved, storeErr, handle>>

Start ==
    /\ main.pc = "leave"
    /\ hub' = IF "launch" \in hub.names THEN WorkerDone(hub, "launch") ELSE hub
    /\ th' = [n \in Nodes |-> Thread(n)]
    /\ main' = [main EXCEPT !.pc = "run"]
    /\ UNCHANGED <<graph, persistq, saved, storeErr, handle>>

\* The persister writes what the nodes hand it, in the order it arrives.  The
\* first save that fails cancels the run; the loop goes on to the last thread.
\* An execution that keeps its inputs only has nothing written.
Save ==
    /\ main.pc = "run" /\ persistq # <<>>
    /\ persistq' = Tail(persistq)
    /\ \/ /\ Head(persistq).what = "failed" \/ ~graph.keepState
          /\ UNCHANGED <<hub, saved, storeErr>>
       \/ /\ Head(persistq).what = "completed" /\ graph.keepState
          /\ saved' = saved \cup {Head(persistq).node}
          /\ UNCHANGED <<hub, storeErr>>
       \/ /\ Head(persistq).what = "completed" /\ graph.keepState /\ graph.storeFails
          /\ storeErr' = TRUE
          /\ hub' = IF storeErr THEN hub ELSE CancelHub(hub, Failed(Head(persistq).node))
          /\ UNCHANGED saved
    /\ UNCHANGED <<graph, th, main, handle>>

Endings(how) == {n \in Nodes : th[n].ending = how}

\* The error of a failed store, else the cause, else a node's failure.
RunResult ==
    IF storeErr \/ hub.cancel.why \in {"failed", "deadlock"} \/ Endings("failed") # {}
    THEN "error"
    ELSE IF Cancelled(hub) THEN "stopped" ELSE "ok"

\* Mutant: what is still in the queue is not written.
JoinUndrained ==
    /\ main.pc = "run"
    /\ \A n \in Nodes : th[n].pc = "done"
    /\ main' = [pc |-> "ended", result |-> RunResult]
    /\ handle' = [handle EXCEPT !.attached = FALSE]
    /\ UNCHANGED <<graph, hub, th, persistq, saved, storeErr>>

\* The threads are joined (a panic is raised again here: the handle keeps the
\* hub), the hub is detached, the result chosen.
Join ==
    /\ main.pc = "run" /\ persistq = <<>>
    /\ \A n \in Nodes : th[n].pc = "done"
    /\ IF Endings("panicked") # {}
       THEN main' = [pc |-> "panicked", result |-> "none"] /\ UNCHANGED handle
       ELSE /\ main' = [pc |-> "ended", result |-> RunResult]
            /\ handle' = [handle EXCEPT !.attached = FALSE]
    /\ UNCHANGED <<graph, hub, th, persistq, saved, storeErr>>

\* CancelHandle::cancel: the flag and the copy of the hubs under the handle's
\* mutex, the cancellations after it.
PullHandle ==
    /\ handle' = [handle EXCEPT !.cancelled = TRUE, !.due = @ \/ handle.attached]

FireCancel ==
    /\ handle.due
    /\ hub' = CancelHub(hub, External)
    /\ handle' = [handle EXCEPT !.due = FALSE]
    /\ UNCHANGED <<graph, th, persistq, saved, storeErr, main>>

\* Somebody outside pulls the handle of a run in the foreground.
CancelRun ==
    /\ graph.cancellable
    /\ ~handle.cancelled
    /\ PullHandle
    /\ UNCHANGED <<graph, hub, th, persistq, saved, storeErr, main>>

-----------------------------------------------------------------------------

Init ==
    /\ graph \in Graphs
    /\ hub = NewHub(DOMAIN graph.chan, graph.nodes \cup {"caller", "launch", "timer"})
    /\ th = [n \in graph.nodes |-> [Thread(n) EXCEPT !.pc = "unborn"]]
    /\ persistq = <<>>
    /\ saved = DOMAIN graph.restored
    /\ storeErr = FALSE
    /\ main = [pc |-> "attach", result |-> "none"]
    /\ handle = [cancelled |-> FALSE, attached |-> FALSE, due |-> FALSE]

NodeStep(n) ==
    \/ Scan(n) \/ Await(n) \/ Context(n)
    \/ \E p \in InPorts(n) : TakePending(n, p) \/ Next_(n, {p}) \/ CloseInput(n, p)
    \/ Next_(n, th[n].bound)
    \/ \E p \in OutPorts(n) : Emit(n, p) \/ SendOutput(n, p)
    \/ CloseStep(n) \/ Return(n) \/ Panic(n)
    \/ Fail(n) \/ Complete(n) \/ Finish(n) \/ Leave(n)
    \/ DropInputs(n) \/ Replay(n)

MainStep == Attach \/ Mount \/ Start \/ Save \/ Join

RunStep == MainStep \/ FireCancel \/ \E n \in Nodes : NodeStep(n)

\* The run is over, or its main thread died of a node's panic.
Over == main.pc \in {"ended", "panicked"}
Terminated == Over /\ ~handle.due /\ UNCHANGED runvars

Next == RunStep \/ CancelRun \/ Terminated

\* The operating system runs every thread that can run; a node's own code
\* returns once its reads and emissions are answered.
RunFairness ==
    /\ WF_runvars(MainStep)
    /\ WF_runvars(FireCancel)
    /\ \A n \in UNION {g.nodes : g \in Graphs} : WF_runvars(n \in Nodes /\ NodeStep(n))

Spec == Init /\ [][Next]_runvars /\ RunFairness

-----------------------------------------------------------------------------
(* Properties                                                              *)

Threads == {"unborn", "scan", "await", "context", "exec", "failing", "outputs",
            "finish", "leave", "done", "drop", "replay"}
EndingsOf == {"none", "completed", "skipped", "failed", "cancelled", "panicked"}

\* The state has the shape of the Rust structures, and the hub's own
\* bookkeeping holds: who sleeps has declared a wait, and no channel grows
\* past its capacity.
RunTypeOK ==
    /\ graph \in Graphs
    /\ \A c \in DOMAIN graph.chan :
          hub.buf[c] \in 0..Capacity /\ hub.senders[c] \in 0..1 /\ hub.receivers[c] \in 0..1
    /\ hub.asleep \subseteq Waiting(hub)
    /\ \A n \in Nodes : th[n].pc \in Threads /\ th[n].ending \in EndingsOf
    /\ main.pc \in {"attach", "mount", "leave", "run", "ended", "panicked"}
    /\ main.result \in {"none", "ok", "stopped", "error"}

\* Who can still act on the hub: the main thread until it started the
\* others, and every thread that has not signed out.
Actors ==
    (IF main.pc \in {"attach", "mount", "leave"} THEN {"launch"} ELSE {})
        \cup {n \in Nodes : th[n].pc # "done"}

\* stream.rs: a deadlock is declared only when it is one.  At the step that
\* declares it, everybody who could still act on the hub is a registered
\* worker in a wait nothing will answer, but for the one whose own wait or
\* departure closes the circle.
DeadlockIsReal ==
    [][(hub'.cancel = Deadlock /\ ~Cancelled(hub)) =>
          /\ Actors' \subseteq hub'.names
          /\ \A w \in hub'.names : Blocked(hub', w) \/ hub'.waiting[w] = NoWait
          /\ Cardinality({w \in hub'.names : hub'.waiting[w] = NoWait}) <= 1]_runvars

\* stream.rs:11-13: "when every live worker waits, the run is cancelled".
EveryDeadlockIsDeclared == ~Cancelled(hub) => ~AllBlocked(hub)

\* The detector misses a deadlock in one case only: somebody waits on several
\* channels of which one has ended.
MissedOnlyHalfEnded ==
    (~Cancelled(hub) /\ AllBlocked(hub)) => \E w \in hub.names : HalfEnded(hub, w)

EndedWell(n) == th[n].ending \in {"completed", "skipped"}

\* stream.rs:8-9: a reader never takes an interrupted stream for a complete
\* one.  A node that completes has read its whole inputs to their end, and
\* each was ended by a producer that completed or was skipped: what a node
\* computes from a truncated input is never kept.  (A caller may still send
\* after it closed a launched run's input: LiveIn::send does not look at
\* closed.)
TruncatedNeverCompletes ==
    \A n \in Nodes : \A c \in WholeChans(n) :
        (th[n].ending = "completed" /\ n \notin DOMAIN graph.restored) =>
            /\ hub.senders[c] = 0
            /\ Edge(c).src \in Nodes => Ended(hub, c) /\ EndedWell(Edge(c).src)

\* The end a node reads through next or next_any is a true end: at that step
\* every producer of the port has completed or been skipped.
EndIsTrue ==
    [][\A n \in Nodes : th'[n].eof # th[n].eof =>
          \A c \in InChans(n, th'[n].eof \ th[n].eof) :
              Edge(c).src \in Nodes => EndedWell(Edge(c).src)]_runvars

\* The checkpoints: a node the store holds as completed has completed; one
\* that fails, is cancelled or panics is never restored as done.
SavedMeansCompleted ==
    \A n \in saved \ DOMAIN graph.restored : th[n].ending = "completed"

\* A node that completed in a checkpointed run that keeps its state and ends
\* without a store error is in the store: the main thread reads the queue to
\* its end.
CompletedIsSaved ==
    (main.pc = "ended" /\ graph.checkpointed /\ graph.keepState /\ ~storeErr) =>
        Endings("completed") \subseteq saved

\* The store holds what completed and nothing else.
SavedExactly == SavedMeansCompleted /\ CompletedIsSaved

\* A cancel that was asked for reaches the hub of a run in progress, also
\* when it comes before the run attached itself.
CancelReachesHub ==
    (handle.cancelled /\ ~handle.due /\ main.pc \in {"mount", "leave", "run"}) => Cancelled(hub)

\* A run the graph did not interrupt returns ok only when every node
\* completed or was skipped.
OkMeansAllEndedWell == main.result = "ok" => \A n \in Nodes : EndedWell(n)

\* What a node and a run say of their end is true of the streams they read:
\* neither an interrupted input nor an unfinished node hides behind an ok.
OutcomesAreTrue == TruncatedNeverCompletes /\ OkMeansAllEndedWell

=============================================================================
