----------------------------- MODULE DaemonHost -----------------------------
(***************************************************************************)
(* The host of the daemon at work and at its end                           *)
(* (extension/rag3weaver/src/daemon_host.rs): the threads that take the    *)
(* requests, the read-write lock of a hosted backend, the thread that      *)
(* stops an idle host, and the way out of serve.                           *)
(*                                                                         *)
(* One backend is hosted; its slot holds the number of the instance that   *)
(* is open, or 0.  A call holds the slot for reading while it runs.  What  *)
(* is done to the slot under its write lock is one step: nobody else can   *)
(* read or write it meanwhile.  A teammate or a judge is a thread of the   *)
(* host that takes the backend like a call, and that nobody joins.         *)
(***************************************************************************)
EXTENDS Naturals, Sequences, FiniteSets

CONSTANTS
    Worker,         \* the threads that take requests
    Agent,          \* the teammate's or the judge's thread
    MaxRequests,    \* bound: requests that arrive, or whose connection fails
    MaxAgentCalls   \* bound: backend takings of the agent

ASSUME AgentAssumption == Agent \notin Worker
ASSUME WorkerAssumption == IsFiniteSet(Worker)

Thread == Worker \union {Agent}

VARIABLES
    queue,      \* the server's queue: "request"s, "error"s of its sockets, "unblock" tokens
    arrived,    \* requests that came, or that failed to
    thread,     \* thread[t]: [pc, inst, reopened]
    agentCalls,
    slot, opened,       \* Hosted: backend, opened
    sick, indexing,     \* of the open instance: must_reopen, indexings_running
    stopping, idler, main,
    late        \* history: opened, or left open, past the closing of the backends

slotVars == <<slot, opened, sick, indexing, late>>
endVars == <<stopping, idler, main>>
vars == <<queue, arrived, thread, agentCalls, slotVars, endVars>>

Resting == [pc |-> "rest", inst |-> 0, reopened |-> FALSE]
At(t, pc) == thread[t].pc = pc
Go(t, pc) == thread' = [thread EXCEPT ![t].pc = pc]
Done(t) == thread' = [thread EXCEPT ![t] = Resting]

Running == main # "exit"
Readers == {t \in Thread : At(t, "run")}
Busy(t) == thread[t].pc \notin {"rest", "recv", "gone"}
InFlight == {w \in Worker : Busy(w)}    \* Activite::en_vol

-----------------------------------------------------------------------------
(* The slot, under its write lock                                          *)

\* ecrire_le_slot waits for the readers; it gives up after SLOT_WRITE_WAIT.
\* Mutant: the calls in flight are not waited for.
CanWriteAtOnce == TRUE
CanWrite == Readers = {}

Clear == sick' = FALSE /\ indexing' = FALSE
Empty == slot' = 0 /\ Clear /\ UNCHANGED <<opened, late>>

\* open_slot on an empty slot: the next instance.
OpenNew ==
    /\ slot' = opened + 1 /\ opened' = opened + 1
    /\ Clear
    /\ late' = (late \/ main \in {"closed", "exit"})

\* open_slot: an open backend is kept; a missing manifest, a standalone writer
\* or the opener refuses.
OpenSlot(t, next) ==
    \/ slot # 0 /\ Go(t, next) /\ UNCHANGED slotVars
    \/ slot = 0 /\ OpenNew /\ Go(t, next)
    \/ slot = 0 /\ Done(t) /\ UNCHANGED slotVars

-----------------------------------------------------------------------------
(* A request, or the agent, with the backend: with_backend                 *)

Same == UNCHANGED <<queue, arrived, agentCalls, endVars>>

Look(t) ==
    /\ At(t, "look")
    /\ Go(t, IF slot = 0 THEN "open" ELSE "take")
    /\ Same /\ UNCHANGED slotVars

OpenClosed(t) ==
    /\ At(t, "open") /\ CanWrite
    /\ OpenSlot(t, "take")
    /\ Same

\* The loop that ends with the slot held for reading.  An embedder that was
\* missing at the opening and answers again (when it does is left open) makes
\* the call reopen, once.
Take(t) ==
    /\ At(t, "take")
    /\ \/ slot = 0 /\ Done(t)
       \/ slot # 0 /\ thread' = [thread EXCEPT ![t] = [pc |-> "run", inst |-> slot, reopened |-> thread[t].reopened]]
       \/ /\ slot # 0 /\ ~thread[t].reopened
          /\ thread' = [thread EXCEPT ![t] = [pc |-> "reopen", inst |-> opened, reopened |-> TRUE]]
    /\ Same /\ UNCHANGED slotVars

\* close_slot refuses while an indexing runs; it may also fail after it took
\* the backend out.  Then the slot is opened again, or the call fails.
Reopen(t) ==
    /\ At(t, "reopen") /\ CanWrite
    /\ LET mine == slot # 0 /\ opened = thread[t].inst /\ ~indexing
           retake == thread' = [thread EXCEPT ![t] = [pc |-> "take", inst |-> 0, reopened |-> thread[t].reopened]]
       IN  \/ ~mine /\ retake /\ UNCHANGED slotVars
           \/ mine /\ OpenNew /\ retake
           \/ mine /\ Empty /\ (retake \/ Done(t))
    /\ Same

\* A call may leave an indexing behind.  The base that must be reopened is seen,
\* unless another call holds the catalog.
Serve(t) ==
    /\ At(t, "run")
    /\ indexing' \in {indexing, TRUE}
    /\ (thread' = [thread EXCEPT ![t].pc = "letgo"] /\ sick) \/ Done(t)
    /\ Same /\ UNCHANGED <<slot, opened, sick, late>>

\* The base must be reopened: the instance of this call is dropped, no other.
\* Mutant: whatever instance is open by now.
LetGoAnything(t) ==
    /\ At(t, "letgo") /\ CanWrite
    /\ Empty
    /\ Done(t)
    /\ Same
LetGo(t) ==
    /\ At(t, "letgo") /\ CanWrite
    /\ IF opened = thread[t].inst THEN Empty ELSE UNCHANGED slotVars
    /\ Done(t)
    /\ Same

\* POST /backend/open: a manifest that changed since the opening (when it does
\* is left open) is read again.
OpenRequest(t) ==
    /\ At(t, "reread") /\ CanWrite
    /\ \/ OpenSlot(t, "look")
       \/ slot # 0 /\ indexing /\ Done(t) /\ UNCHANGED slotVars
       \/ slot # 0 /\ ~indexing /\ OpenNew /\ Go(t, "look")
       \/ slot # 0 /\ ~indexing /\ Empty /\ Done(t)
    /\ Same

\* POST /backend/close.
CloseRequest(t) ==
    /\ At(t, "close") /\ CanWrite
    /\ IF slot = 0 \/ indexing THEN UNCHANGED slotVars ELSE Empty
    /\ Done(t)
    /\ Same

\* SLOT_WRITE_WAIT passed: refused, and nothing was done.
WriteRefused(t) ==
    /\ thread[t].pc \in {"open", "reopen", "reread", "close"}
    /\ \E u \in Thread \ {t} : Busy(u)
    /\ Done(t)
    /\ Same /\ UNCHANGED slotVars

WithBackend(t) ==
    \/ Look(t) \/ OpenClosed(t) \/ Take(t) \/ Reopen(t) \/ Serve(t) \/ LetGo(t)
    \/ OpenRequest(t) \/ CloseRequest(t) \/ WriteRefused(t)

-----------------------------------------------------------------------------
(* The server                                                              *)

Unblocks == [i \in 1..Cardinality(Worker) |-> "unblock"]

\* Stopper::stop: one token for every worker.
\* Mutant: one token in all.
StopUnblocksOne == stopping' = TRUE /\ queue' = Append(queue, "unblock")
StopServer == stopping' = TRUE /\ queue' = queue \o Unblocks

Arrive ==
    /\ arrived < MaxRequests /\ main = "serve"
    /\ arrived' = arrived + 1
    /\ \E m \in {"request", "error"} : queue' = Append(queue, m)
    /\ UNCHANGED <<thread, agentCalls, slotVars, endVars>>

\* The request of a worker: a call, POST /backend/open, /backend/close, /arret.
Entries == {"look", "reread", "close", "stop"}

\* The loop of a worker: it looks at the flag before it waits, and leaves once
\* the host stops, it is unblocked, or it is given an error; a request it took
\* meanwhile is refused with 503.
WorkerLoop(w) ==
    /\ At(w, "rest")
    /\ Go(w, IF stopping THEN "gone" ELSE "recv")
    /\ UNCHANGED <<queue, arrived, agentCalls, slotVars, endVars>>
Recv(w) ==
    /\ At(w, "recv") /\ queue # <<>>
    /\ queue' = Tail(queue)
    /\ IF Head(queue) # "request" \/ stopping
         THEN Go(w, "gone")
         ELSE \E e \in Entries : Go(w, e)
    /\ UNCHANGED <<arrived, agentCalls, slotVars, endVars>>

\* POST /arret: answered, then the host stops.
StopRequest(w) ==
    /\ At(w, "stop")
    /\ StopServer /\ Go(w, "gone")
    /\ UNCHANGED <<arrived, agentCalls, slotVars, idler, main>>

Signal ==
    /\ main = "serve" /\ ~stopping
    /\ StopServer
    /\ UNCHANGED <<arrived, thread, agentCalls, slotVars, idler, main>>

\* The thread of the idle stop: no request in flight for the delay, then no
\* work in progress, then the stop.  A request may come in between.  The
\* background runs, the catalog and the watch may hold it back as well.
IdleLook ==
    /\ idler = "watch" /\ ~stopping /\ InFlight = {}
    /\ idler' = "check"
    /\ UNCHANGED <<queue, arrived, thread, agentCalls, slotVars, stopping, main>>
travail_en_cours == Readers # {} \/ indexing
IdleCheck ==
    /\ idler = "check"
    /\ idler' = "watch" \/ (idler' = "stop" /\ ~travail_en_cours)
    /\ UNCHANGED <<queue, arrived, thread, agentCalls, slotVars, stopping, main>>
IdleStop ==
    /\ idler = "stop"
    /\ StopServer /\ idler' = "watch"
    /\ UNCHANGED <<arrived, thread, agentCalls, slotVars, main>>
IdlerLeave ==
    /\ idler = "watch" /\ stopping
    /\ idler' = "gone"
    /\ UNCHANGED <<queue, arrived, thread, agentCalls, slotVars, stopping, main>>

\* serve joins its threads, cancels the background runs, waits for them a
\* bounded time, and closes the backend; a call of the agent may outlast the
\* wait, and its backend stays open.
Join ==
    /\ main = "serve" /\ idler = "gone" /\ \A w \in Worker : At(w, "gone")
    /\ main' = "cancel"
    /\ UNCHANGED <<queue, arrived, thread, agentCalls, slotVars, stopping, idler>>
Shutdown ==
    /\ main = "cancel"
    /\ main' = "closed"
    /\ IF CanWrite THEN Empty ELSE late' = TRUE /\ UNCHANGED <<slot, opened, sick, indexing>>
    /\ UNCHANGED <<queue, arrived, thread, agentCalls, stopping, idler>>
Exit ==
    /\ main = "closed"
    /\ main' = "exit"
    /\ UNCHANGED <<queue, arrived, thread, agentCalls, slotVars, stopping, idler>>

-----------------------------------------------------------------------------
(* What happens beside                                                     *)

AgentTakes ==
    /\ Running /\ At(Agent, "rest") /\ agentCalls < MaxAgentCalls
    /\ agentCalls' = agentCalls + 1
    /\ Go(Agent, "look")
    /\ UNCHANGED <<queue, arrived, slotVars, endVars>>

Beside == UNCHANGED <<queue, arrived, thread, agentCalls, slot, opened, late, endVars>>

Sicken ==
    /\ Running /\ slot # 0 /\ ~sick /\ sick' = TRUE
    /\ Beside /\ UNCHANGED indexing
IndexingEnds ==
    /\ Running /\ indexing /\ indexing' = FALSE
    /\ Beside /\ UNCHANGED sick

-----------------------------------------------------------------------------

Init ==
    /\ queue = <<>> /\ arrived = 0
    /\ thread = [t \in Thread |-> Resting] /\ agentCalls = 0
    /\ slot = 0 /\ opened = 0
    /\ sick = FALSE /\ indexing = FALSE
    /\ stopping = FALSE /\ idler = "watch" /\ main = "serve" /\ late = FALSE

WorkerStep(w) == WithBackend(w) \/ WorkerLoop(w) \/ Recv(w) \/ StopRequest(w)
IdlerStep == IdleCheck \/ IdleStop \/ IdlerLeave
MainStep == Join \/ Shutdown \/ Exit

Next ==
    \/ Arrive
    \/ \E w \in Worker : WorkerStep(w)
    \/ Running /\ WithBackend(Agent)
    \/ AgentTakes \/ Signal \/ IdleLook \/ IdlerStep \/ MainStep
    \/ Sicken \/ IndexingEnds

\* Calls come to an end, and every thread runs on.
Fairness ==
    /\ \A w \in Worker : WF_vars(WorkerStep(w))
    /\ WF_vars(Running /\ WithBackend(Agent))
    /\ WF_vars(IdlerStep) /\ WF_vars(MainStep)

Spec == Init /\ [][Next]_vars /\ Fairness

-----------------------------------------------------------------------------
(* Properties                                                              *)

TypeOK ==
    /\ queue \in Seq({"request", "error", "unblock"})
    /\ slot \in 0..opened
    /\ idler \in {"watch", "check", "stop", "gone"}
    /\ main \in {"serve", "cancel", "closed", "exit"}

\* A call keeps the instance it took until it returns: neither a close, nor a
\* reread, nor a sick base seen by another call takes it away.  At the end no
\* worker is left and the backend is closed, but for what a teammate or a judge
\* took in the last moments.
BackendIsWhole ==
    /\ TypeOK
    /\ \A t \in Readers : slot = thread[t].inst
    /\ main # "serve" => InFlight = {}
    /\ main = "exit" => slot = 0 \/ late

\* While the host serves, the open backend goes only because its own base must
\* be reopened, or by a clean closing, which no indexing in progress allows.
CleanlyClosing(t) == thread[t].pc \in {"reopen", "reread", "close"} /\ thread'[t] # thread[t]
HealthyIsKept ==
    [][slot # 0 /\ slot' # slot /\ main' = main =>
          sick \/ (~indexing /\ \E t \in Thread : CleanlyClosing(t))]_vars

\* Every request that was taken is answered, so that between bursts none is in
\* flight, and a host that is asked to stop, or stops by itself, comes to its end.
EveryoneIsAnswered == []<>(InFlight = {} /\ (stopping => main = "exit"))

=============================================================================
