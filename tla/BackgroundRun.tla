---------------------------- MODULE BackgroundRun ----------------------------
(***************************************************************************)
(* A run launched in the background                                        *)
(* (extension/rag3weaver/src/dataflow/background.rs), over ConcurrentRun:  *)
(* the background thread that executes the graph and announces its end,    *)
(* the registry entry through which it is stopped, the timer of            *)
(* max_duration, and the caller, which feeds the run's open input and      *)
(* reads its output stream through the same hub.                           *)
(*                                                                         *)
(* A graph record adds: spawned (FALSE: a run in the foreground, the rest  *)
(* of this module is idle); liveIn and liveOut, the channel from and to    *)
(* the caller or 0; timed, max_duration is set; valid, the graph passes    *)
(* validate_with.  The caller is one thread: the handle under an actor of  *)
(* its own that LiveIn::for_another_thread gives is left out.              *)
(***************************************************************************)
EXTENDS ConcurrentRun

VARIABLES
    fond,       \* the background thread, once the run has returned
    entry,      \* the registry entry: present, alive, cause (the first wins)
    timer,      \* the timer thread
    caller,     \* the caller: pc, the operation it is in, what it knows
    closed,     \* LiveIn.closed, shared by every handle of the input
    told        \* what RunFinished and the caller's mailbox say

bgvars == <<fond, entry, timer, caller, closed, told>>
vars == <<runvars, bgvars>>

\* spawn makes the two channels of the caller: it is at their other end.
ASSUME LaunchAssumption ==
    \A g \in Graphs :
        /\ {g.spawned, g.timed, g.valid} \subseteq BOOLEAN
        /\ g.liveIn # 0 => g.liveIn \in DOMAIN g.chan /\ g.chan[g.liveIn].src = "caller"
        /\ g.liveOut # 0 => g.liveOut \in DOMAIN g.chan /\ g.chan[g.liveOut].dst = "caller"

Live(g) == g.liveIn # 0 \/ g.liveOut # 0
NoCause == "none"

\* The workers spawn registers: the caller, one that stands for the nodes
\* until they are, and the timer of a run with an input stream.
LaunchWorkers(g) ==
    (IF Live(g) THEN {"caller", "launch"} ELSE {})
        \cup (IF g.timed /\ g.liveIn # 0 THEN {"timer"} ELSE {})

\* spawn, up to the start of its threads.
BgInit ==
    /\ graph \in Graphs
    /\ hub = Register(NewHub(DOMAIN graph.chan, graph.nodes \cup {"caller", "launch", "timer"}),
                      LaunchWorkers(graph))
    /\ th = [n \in graph.nodes |-> [Thread(n) EXCEPT !.pc = "unborn"]]
    /\ persistq = <<>>
    /\ saved = DOMAIN graph.restored
    /\ storeErr = FALSE
    /\ main = [pc |-> "attach", result |-> "none"]
    /\ handle = [cancelled |-> FALSE, attached |-> FALSE, due |-> FALSE]
    /\ fond = "run"
    /\ entry = [present |-> graph.spawned, alive |-> graph.spawned, cause |-> NoCause]
    /\ timer = IF graph.timed THEN "armed" ELSE "gone"
    /\ caller = [pc |-> "idle", op |-> "none", sent |-> 0, done |-> {}]
    /\ closed = FALSE
    /\ told = [result |-> "none", cause |-> NoCause, times |-> 0]

UnchangedRun == UNCHANGED <<graph, th, persistq, saved, storeErr, main>>

-----------------------------------------------------------------------------
(* The background thread                                                   *)

\* validate_with refuses the graph: execute_spawned returns the error before
\* anything is mounted; nobody releases the channels of the hub.
Refuse ==
    /\ main.pc = "mount" /\ ~graph.valid
    /\ main' = [pc |-> "ended", result |-> "error"]
    /\ handle' = [handle EXCEPT !.attached = FALSE]
    /\ UNCHANGED <<graph, hub, th, persistq, saved, storeErr, bgvars>>

\* LiveIn::close, once for all the handles of the input.
CloseLiveIn(h) == IF closed THEN h ELSE ReleaseSender(h, graph.liveIn)

FondClose ==
    /\ graph.spawned /\ main.pc = "ended" /\ fond = "run"
    /\ fond' = "part"
    /\ IF graph.liveIn # 0
       THEN hub' = CloseLiveIn(hub) /\ closed' = TRUE
       ELSE UNCHANGED <<hub, closed>>
    /\ UnchangedRun /\ UNCHANGED <<handle, entry, timer, caller, told>>

FondPart ==
    /\ fond = "part"
    /\ fond' = "cause"
    /\ hub' = IF Live(graph) THEN WorkerDone(hub, "caller") ELSE hub
    /\ UnchangedRun /\ UNCHANGED <<handle, entry, timer, caller, closed, told>>

\* cause_of, or else what the run says of its own stop.
FondCause ==
    /\ fond = "cause"
    /\ fond' = "tell"
    /\ told' = [told EXCEPT !.result = main.result,
                   !.cause = IF entry.cause # NoCause THEN entry.cause ELSE hub.cancel.why]
    /\ UnchangedRun /\ UNCHANGED <<hub, handle, entry, timer, caller, closed>>

\* RunFinished on the bus, then the message to the caller.
FondTell ==
    /\ fond = "tell"
    /\ fond' = "done"
    /\ told' = [told EXCEPT !.times = @ + 1]
    /\ UnchangedRun /\ UNCHANGED <<hub, handle, entry, timer, caller, closed>>

FondDone ==
    /\ fond = "done"
    /\ fond' = "remove"
    /\ entry' = [entry EXCEPT !.alive = FALSE]
    /\ UnchangedRun /\ UNCHANGED <<hub, handle, timer, caller, closed, told>>

\* fini_tx.send, then Registry::remove.
FondRemove ==
    /\ fond = "remove"
    /\ fond' = "gone"
    /\ entry' = [entry EXCEPT !.present = FALSE]
    /\ UnchangedRun /\ UNCHANGED <<hub, handle, timer, caller, closed, told>>

FondStep ==
    Refuse \/ FondClose \/ FondPart \/ FondCause \/ FondTell \/ FondDone \/ FondRemove

-----------------------------------------------------------------------------
(* The registry and the timer                                              *)

\* Mutant: the last cause wins.
NotedLast(e, cause) == [e EXCEPT !.cause = cause]
Noted(e, cause) == IF e.cause = NoCause THEN [e EXCEPT !.cause = cause] ELSE e

\* Registry::cancel, cancel_on_behalf, cancel_by_parent and cancel_all: an
\* entry that is alive notes its first cause and pulls the run's handle.
\* They differ by the cause they note and by who may ask.
StopEntry(cause) ==
    /\ entry.present /\ entry.alive
    /\ entry' = Noted(entry, cause)
    /\ PullHandle

\* Somebody stops the run; a second pull would change nothing.
Cancel(cause) ==
    /\ graph.spawned /\ graph.cancellable /\ ~handle.cancelled
    /\ StopEntry(cause)
    /\ UnchangedRun /\ UNCHANGED <<hub, fond, timer, caller, closed, told>>

\* The run has ended: fini_rx answers, the timer leaves.
TimerFini ==
    /\ timer \in {"armed", "grace"} /\ fond = "gone"
    /\ timer' = "part"
    /\ UnchangedRun /\ UNCHANGED <<hub, handle, fond, entry, caller, closed, told>>

\* max_duration is over and the run has an open input: it is closed first.
TimerClose ==
    /\ timer = "armed" /\ fond # "gone" /\ graph.liveIn # 0
    /\ timer' = "grace"
    /\ entry' = IF entry.present THEN Noted(entry, "timeout") ELSE entry
    /\ hub' = CloseLiveIn(hub)
    /\ closed' = TRUE
    /\ UnchangedRun /\ UNCHANGED <<handle, fond, caller, told>>

\* The grace (or, without an open input, max_duration) is over.
TimerCancel ==
    /\ timer = (IF graph.liveIn # 0 THEN "grace" ELSE "armed") /\ fond # "gone"
    /\ timer' = "part"
    /\ IF entry.present /\ entry.alive
       THEN StopEntry("timeout") ELSE UNCHANGED <<entry, handle>>
    /\ UnchangedRun /\ UNCHANGED <<hub, fond, caller, closed, told>>

TimerPart ==
    /\ timer = "part"
    /\ timer' = "gone"
    /\ hub' = IF graph.liveIn # 0 THEN WorkerDone(hub, "timer") ELSE hub
    /\ UnchangedRun /\ UNCHANGED <<handle, fond, entry, caller, closed, told>>

TimerStep == TimerFini \/ TimerClose \/ TimerCancel \/ TimerPart

-----------------------------------------------------------------------------
(* The caller: LiveIn and LiveOut, one operation at a time                 *)

CallerChan(op) == {IF op = "send" THEN graph.liveIn ELSE graph.liveOut}
Try(op, h) == IF op = "send" THEN TrySend(h, CallerChan(op)) ELSE TryRecv(h, CallerChan(op))

\* What the caller makes of an answer: it knows when there is no use going on.
Answered(res, op) ==
    [pc |-> "idle", op |-> "none", sent |-> IF op = "send" THEN caller.sent + 1 ELSE caller.sent,
     done |-> IF res \in {"noreader", "end"} THEN caller.done \cup {op}
              ELSE IF res = "cancelled" THEN {"send", "recv"} ELSE caller.done]

CallerMay(op) ==
    /\ caller.pc = "idle" /\ op \notin caller.done
    /\ IF op = "send" THEN graph.liveIn # 0 /\ caller.sent < graph.emits ELSE graph.liveOut # 0

\* send and recv: they wait as long as it takes.
CallerBlocking(op) ==
    /\ CallerMay(op) \/ (caller.pc = "blocking" /\ caller.op = op)
    /\ MayRun(hub, "caller")
    /\ LET r == IF op = "send" THEN Send(hub, "caller", CallerChan(op))
                ELSE RecvAny(hub, "caller", CallerChan(op))
       IN /\ hub' = r.hub
          /\ caller' = IF r.res = "blocked" THEN [caller EXCEPT !.pc = "blocking", !.op = op]
                       ELSE Answered(r.res, op)
    /\ UnchangedRun /\ UNCHANGED <<handle, fond, entry, timer, closed, told>>

\* try_send, try_recv, and each turn of send_timeout and recv_timeout: either
\* the deadline is past, or the mutex is taken again to wait.
CallerTry(op) ==
    /\ CallerMay(op) \/ (caller.pc = "turn" /\ caller.op = op)
    /\ LET r == Try(op, hub)
       IN /\ hub' = r.hub
          /\ IF r.res \in {"full", "empty"}
             THEN \/ caller' = [caller EXCEPT !.pc = "idle", !.op = "none"]
                  \/ caller' = [caller EXCEPT !.pc = "gap", !.op = op]
             ELSE caller' = Answered(r.res, op)
    /\ UnchangedRun /\ UNCHANGED <<handle, fond, entry, timer, closed, told>>

\* The second lock of send_timeout and recv_timeout.  The sender looks again
\* for a full channel, the reader does not look again.
CallerNap ==
    /\ caller.pc = "gap"
    /\ LET c == Min(CallerChan(caller.op))
           room == caller.op = "send" /\ ~Full(hub, c)
           what == IF caller.op = "send" THEN SendWait(c) ELSE RecvWait({c})
       IN hub' = IF room THEN hub ELSE Sleep(hub, "caller", what)
    /\ caller' = [caller EXCEPT !.pc = "nap"]
    /\ UnchangedRun /\ UNCHANGED <<handle, fond, entry, timer, closed, told>>

\* Woken, or the deadline has come: sign out and try once more.
CallerWake ==
    /\ caller.pc = "nap"
    /\ hub' = Awake(hub, "caller")
    /\ caller' = [caller EXCEPT !.pc = "turn"]
    /\ UnchangedRun /\ UNCHANGED <<handle, fond, entry, timer, closed, told>>

CallerClose ==
    /\ caller.pc = "idle" /\ graph.liveIn # 0 /\ ~closed
    /\ hub' = CloseLiveIn(hub)
    /\ closed' = TRUE
    /\ UnchangedRun /\ UNCHANGED <<handle, fond, entry, timer, caller, told>>

\* The caller gets an answer to what it is in the middle of.
CallerResume ==
    \/ caller.pc = "blocking" /\ CallerBlocking(caller.op)
    \/ caller.pc = "turn" /\ CallerTry(caller.op)
    \/ CallerNap \/ CallerWake

CallerStep ==
    \/ \E op \in {"send", "recv"} : CallerBlocking(op) \/ CallerTry(op)
    \/ CallerNap \/ CallerWake \/ CallerClose

-----------------------------------------------------------------------------

BgOver ==
    /\ Over /\ ~handle.due
    /\ graph.spawned => (fond = "gone" /\ timer = "gone") \/ main.pc = "panicked"
    /\ UNCHANGED vars

BgNext ==
    \/ (RunStep \/ (CancelRun /\ ~graph.spawned)) /\ UNCHANGED bgvars
    \/ FondStep
    \/ Cancel("requested")
    \/ TimerStep
    \/ CallerStep
    \/ BgOver

\* Time passes for the timer; a caller is only assumed to be scheduled in the
\* middle of an operation, never to begin one.
BgSpec ==
    /\ BgInit /\ [][BgNext]_vars
    /\ WF_vars(MainStep /\ UNCHANGED bgvars)
    /\ WF_vars(FireCancel /\ UNCHANGED bgvars)
    /\ \A n \in UNION {g.nodes : g \in Graphs} :
          WF_vars(n \in Nodes /\ NodeStep(n) /\ UNCHANGED bgvars)
    /\ WF_vars(FondStep)
    /\ WF_vars(TimerStep)
    /\ WF_vars(CallerResume)

-----------------------------------------------------------------------------
(* Properties                                                              *)

TypeOK ==
    /\ RunTypeOK
    /\ fond \in {"run", "part", "cause", "tell", "done", "remove", "gone"}
    /\ timer \in {"armed", "grace", "part", "gone"}
    /\ caller.pc \in {"idle", "blocking", "turn", "gap", "nap"}
    /\ told.times \in 0..1
    /\ entry.alive => entry.present

\* "The timer is an actor of the hub": no deadlock is declared while the
\* timer of an open input may still close it or cancel the run.
NoDeadlockBeforeTimer ==
    [][(hub'.cancel = Deadlock /\ ~Cancelled(hub)) =>
          graph.liveIn = 0 \/ timer' = "gone"]_vars

\* What the hub tells those who wait is true: a deadlock is declared when it is
\* one, the caller and the timer counted, and an end only when its producers
\* came to theirs.
WaitersAreToldTheTruth == DeadlockIsReal /\ NoDeadlockBeforeTimer /\ EndIsTrue

\* A launched run that was stopped says why: the first cause the registry
\* noted, whoever pulled the handle next and however late.
StopIsExplained ==
    (told.times = 1 /\ told.result = "stopped") =>
        told.cause = entry.cause /\ entry.cause # NoCause

\* Nobody is left in the hub of a run that is over.
HubIsLeftEmpty ==
    (fond = "gone" /\ timer = "gone" /\ graph.valid) => hub.names = {}

\* A stop goes through: it reaches the hub, it is told once and with its cause,
\* and nobody stays behind.
StopIsSound == TypeOK /\ CancelReachesHub /\ StopIsExplained /\ HubIsLeftEmpty

\* A run in the foreground, one whose duration is bounded and one that is
\* cancelled come to an end; a launched one is told once and leaves the
\* registry, whatever its caller does.  Two exceptions: a node's panic kills
\* the background thread, and without a timer nobody ends the deadlock the
\* detector misses.
RunEnds ==
    (~graph.spawned \/ graph.timed \/ Cancelled(hub)) ~>
        \/ Over /\ (graph.spawned => fond = "gone" /\ told.times = 1 /\ ~entry.present)
        \/ main.pc = "panicked"
        \/ ~graph.timed /\ ~Cancelled(hub) /\ AllBlocked(hub)

\* finish gives up the inputs that are read element by element: one that is
\* read whole keeps its reader for ever.
LiveInReadWhole ==
    graph.liveIn # 0 /\ <<Edge(graph.liveIn).dst, Edge(graph.liveIn).inp>> \notin graph.element

\* A caller in the middle of an operation gets an answer once the run it talks
\* to is cancelled, and also when it is over ("the run has ended, and so has
\* its input: a handle taken up later sees NoReader", background.rs:754-755),
\* with two exceptions that no line of the code states: a run that was refused
\* before it was mounted, and an element sent to an input that is read whole.
CallerIsAnswered ==
    (/\ caller.pc = "blocking"
     /\ \/ Cancelled(hub)
        \/ main.pc = "ended" /\ graph.valid /\ ~(caller.op = "send" /\ LiveInReadWhole))
        ~> caller.pc # "blocking"
=============================================================================
