------------------------------ MODULE StreamHub ------------------------------
(***************************************************************************)
(* The bounded channels of one dataflow run                                *)
(* (extension/rag3weaver/src/dataflow/stream.rs).                          *)
(*                                                                         *)
(* Every method of the hub takes its one mutex, so a method that does not  *)
(* sleep is one step.  A hub is a record and a method is an operator from  *)
(* a hub to a hub; the modules that EXTEND this one hold the record in a   *)
(* variable.                                                               *)
(*                                                                         *)
(*   buf[c]       how many elements wait in channel c                      *)
(*   senders[c]   its senders that have not released it                    *)
(*   receivers[c] its receivers that have not released it                  *)
(*   names        the workers the deadlock detector counts as alive        *)
(*   waiting[w]   what worker w declared it waits for, or NoWait           *)
(*   asleep       the workers inside Condvar::wait that no notify_all has  *)
(*                woken; a woken worker stays in waiting until it holds    *)
(*                the mutex again                                          *)
(*   cancel       why the run stops, or NotCancelled                       *)
(*                                                                         *)
(* The elements themselves are left out: a channel is a queue with one     *)
(* reader, and which element comes next is decided by its length.          *)
(***************************************************************************)
EXTENDS Naturals, FiniteSets, FiniteSetsExt

CONSTANT
    Capacity    \* the service "stream_capacity"

\* StreamHub::channel takes capacity.max(1).
ASSUME CapacityAssumption == Capacity \in Nat \ {0}

NotCancelled == [why |-> "none", node |-> "none"]
External == [why |-> "external", node |-> "none"]
Deadlock == [why |-> "deadlock", node |-> "none"]
Failed(n) == [why |-> "failed", node |-> n]

NoWait == [kind |-> "none", chans |-> {}]
RecvWait(C) == [kind |-> "recv", chans |-> C]
SendWait(c) == [kind |-> "send", chans |-> {c}]

-----------------------------------------------------------------------------
(* Reading the state                                                       *)

Waiting(h) == {w \in DOMAIN h.waiting : h.waiting[w] # NoWait}
Cancelled(h) == h.cancel # NotCancelled
Ended(h, c) == h.senders[c] = 0 /\ h.buf[c] = 0
Full(h, c) == h.buf[c] >= Capacity
Unended(h, C) == {c \in C : h.senders[c] > 0}

\* Can the wait of w be answered, as detect_deadlock judges it?
Servable(h, w) ==
    \/ /\ h.waiting[w].kind = "recv"
       /\ \E c \in h.waiting[w].chans : h.buf[c] > 0 \/ h.senders[c] = 0
    \/ /\ h.waiting[w].kind = "send"
       /\ \E c \in h.waiting[w].chans : ~Full(h, c) \/ h.receivers[c] = 0

-----------------------------------------------------------------------------
(* Changing it                                                             *)

NewHub(C, W) ==
    [buf |-> [c \in C |-> 0], senders |-> [c \in C |-> 1], receivers |-> [c \in C |-> 1],
     names |-> {}, waiting |-> [w \in W |-> NoWait], asleep |-> {}, cancel |-> NotCancelled]

\* Mutant: notify_one.
NotifyOne(h) ==
    [h EXCEPT !.asleep = IF @ = {} THEN {} ELSE @ \ {CHOOSE w \in @ : TRUE}]

NotifyAll(h) == [h EXCEPT !.asleep = {}]

SetCancel(h, cause) == IF Cancelled(h) THEN h ELSE [h EXCEPT !.cancel = cause]

DetectDeadlock(h) ==
    IF /\ ~Cancelled(h)
       /\ h.names # {}
       /\ h.names \subseteq Waiting(h)
       /\ \A w \in Waiting(h) : ~Servable(h, w)
    THEN SetCancel(h, Deadlock)
    ELSE h

Register(h, W) == [h EXCEPT !.names = @ \cup W]

WorkerDone(h, w) ==
    NotifyAll(DetectDeadlock(
        [h EXCEPT !.names = @ \ {w}, !.waiting[w] = NoWait, !.asleep = @ \ {w}]))

ReleaseSender(h, c) ==
    NotifyAll([h EXCEPT !.senders[c] = IF @ = 0 THEN 0 ELSE @ - 1])

ReleaseReceiver(h, c) ==
    LET left == IF h.receivers[c] = 0 THEN 0 ELSE h.receivers[c] - 1
    IN NotifyAll([h EXCEPT !.receivers[c] = left,
                           !.buf[c] = IF left = 0 THEN 0 ELSE @])

CancelHub(h, cause) == NotifyAll(SetCancel(h, cause))

\* Mutant: the last to wait does not look for a deadlock.
SleepUnchecked(h, w, what) ==
    [h EXCEPT !.waiting[w] = what, !.asleep = @ \cup {w}]

\* wait, until it sleeps: sign in, look for a deadlock; a run that is
\* cancelled wakes everybody and does not sleep.
Sleep(h, w, what) ==
    LET d == DetectDeadlock([h EXCEPT !.waiting[w] = what])
    IN IF Cancelled(d)
       THEN [NotifyAll(d) EXCEPT !.waiting[w] = NoWait]
       ELSE [d EXCEPT !.asleep = @ \cup {w}]

\* wait, once awake and holding the mutex again: sign out.
Awake(h, w) == [h EXCEPT !.waiting[w] = NoWait, !.asleep = @ \ {w}]

-----------------------------------------------------------------------------
(* send and recv_any.  A result is the hub after one pass of the method's  *)
(* loop, what the caller got, and the channel it came from or went to.     *)

Result(h, r, C) == [hub |-> h, res |-> r, chans |-> C]

TrySend(h, C) ==
    LET live == {c \in C : h.receivers[c] > 0}
    IN CASE Cancelled(h)                 -> Result(h, "cancelled", {})
         [] ~Cancelled(h) /\ live = {}   -> Result(h, "noreader", {})
         [] ~Cancelled(h) /\ (\E c \in live : Full(h, c)) ->
                Result(h, "full", {c \in live : Full(h, c)})
         [] OTHER ->
                Result(NotifyAll([h EXCEPT !.buf =
                           [c \in DOMAIN @ |-> IF c \in live THEN @[c] + 1 ELSE @[c]]]),
                       "ok", live)

\* Channels are numbered in the order the readers list them, so the first
\* non-empty one is the smallest.
TryRecv(h, C) ==
    LET ready == {c \in C : h.buf[c] > 0}
    IN CASE Cancelled(h)                  -> Result(h, "cancelled", {})
         [] ~Cancelled(h) /\ ready # {}   ->
                Result(NotifyAll([h EXCEPT !.buf[Min(ready)] = @ - 1]), "value", {Min(ready)})
         [] ~Cancelled(h) /\ ready = {} /\ Unended(h, C) = {} -> Result(h, "end", {})
         [] OTHER                         -> Result(h, "empty", {})

\* One pass of the loop of send: it sleeps on the first full channel.
Send(h, w, C) ==
    LET r == TrySend(Awake(h, w), C)
        s == Sleep(r.hub, w, SendWait(Min(r.chans)))
    IN IF r.res # "full" THEN r
       ELSE Result(s, IF Cancelled(s) THEN "cancelled" ELSE "blocked", {})

\* One pass of the loop of recv_any: it sleeps on all its channels.
RecvAny(h, w, C) ==
    LET r == TryRecv(Awake(h, w), C)
        s == Sleep(r.hub, w, RecvWait(C))
    IN IF r.res # "empty" THEN r
       ELSE Result(s, IF Cancelled(s) THEN "cancelled" ELSE "blocked", {})

\* A worker may take the mutex unless it is inside Condvar::wait.
MayRun(h, w) == w \notin h.asleep

-----------------------------------------------------------------------------
(* What the detector is for                                                *)

\* No step of anybody but the waiter's counterparts can end this wait:
\* recv_any answers an element or the end of ALL its channels, send a place
\* or the loss of its reader.
Blocked(h, w) ==
    \/ /\ h.waiting[w].kind = "recv"
       /\ \A c \in h.waiting[w].chans : h.buf[c] = 0
       /\ Unended(h, h.waiting[w].chans) # {}
    \/ /\ h.waiting[w].kind = "send"
       /\ \A c \in h.waiting[w].chans : Full(h, c) /\ h.receivers[c] > 0

\* Every live worker is blocked: nothing in this hub will ever move again.
AllBlocked(h) ==
    /\ h.names # {}
    /\ \A w \in h.names : w \in h.asleep /\ Blocked(h, w)

\* The waits the detector takes for servable although they are not: some
\* channel has ended, another has not.
HalfEnded(h, w) ==
    /\ h.waiting[w].kind = "recv"
    /\ \E c \in h.waiting[w].chans : h.senders[c] = 0
    /\ Blocked(h, w)
=============================================================================
