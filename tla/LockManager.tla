---------------------------- MODULE LockManager ----------------------------
(***************************************************************************)
(* The lock manager of parallel writes (src/src/transaction/               *)
(* lock_manager.cpp) and its only caller, Transaction::acquireLocks        *)
(* (transaction.cpp).                                                      *)
(*                                                                         *)
(* A transaction asks for a group of locks.  The manager takes them one by *)
(* one in the order of the resources, keeping its mutex from one request   *)
(* to the next, and gives the mutex up only when it has to wait.  A        *)
(* request that would close a cycle of waiters is refused on the spot.     *)
(*                                                                         *)
(* The deque of waiters of a resource is kept as the set of its members    *)
(* (`waiters`) and, for each transaction, the set of those in front of it  *)
(* (`ahead`): the code only ever asks who stands before a position.        *)
(* A member of Txn is a slot that runs one transaction after another.      *)
(***************************************************************************)
EXTENDS Integers, FiniteSets

CONSTANTS
    Txn,        \* transactions that may be open at the same time
    Resource,   \* lockable resources; < stands for LockResource::operator<=>
    Requests,   \* the groups of requests a client may make
    MaxCalls,   \* bound: acquireLocks calls of one transaction
    Nobody      \* no transaction, no resource

ASSUME ResourceAssumption == Resource \subseteq Int /\ Nobody \notin Resource
ASSUME TxnAssumption == Nobody \notin Txn
ASSUME MaxCallsAssumption == MaxCalls \in Nat

Mode == {"SHARED", "EXCLUSIVE"}
NoLock == "NONE"

ASSUME RequestsAssumption == Requests \subseteq SUBSET (Resource \X Mode)

(* Outcomes other than ACQUIRED: the transaction has to be rolled back. *)
Failed == {"DEADLOCK", "TIMEOUT", "INTERRUPTED"}

VARIABLES
    mtx,        \* who holds LockManager::mtx, or Nobody
    resources,  \* resources that have an entry in the map
    holders,    \* holders[r][t]: the mode in which t holds r, or NoLock
    waiters,    \* waiters[r]: the members of r's deque
    ahead,      \* ahead[t]: those that stand before t in the deque t is in
    heldBy,     \* heldBy[t]: the resources t has to give back
    waitingFor, \* waitingFor[t]: the resource t waits for, or Nobody
    pc,         \* where the thread of t is
    request,    \* request[t][r]: the mode t asks for on r, or NoLock
    todo,       \* todo[t]: requests of the current call not served yet
    patient,    \* patient[t]: the second call of acquireLocks, which waits
    calls       \* calls[t]: acquireLocks calls made by the transaction

table == <<resources, holders, waiters, ahead, heldBy, waitingFor>>
vars == <<mtx, table, pc, request, todo, patient, calls>>

----------------------------------------------------------------------------
(* Each resource once, in the strongest mode asked for. *)
Ordered(reqs) ==
    [r \in Resource |-> IF <<r, "EXCLUSIVE">> \in reqs THEN "EXCLUSIVE"
                        ELSE IF <<r, "SHARED">> \in reqs THEN "SHARED"
                        ELSE NoLock]

(* Mutant: the group sorted by mode before resource. *)
IsNextByMode(t, r) ==
    r \in todo[t] /\ \A s \in todo[t] :
        /\ request[t][r] = request[t][s] => r <= s
        /\ request[t][r] = "SHARED" => request[t][s] = "SHARED"

(* The next request of the group: the least resource left. *)
IsNext(t, r) == r \in todo[t] /\ \A s \in todo[t] : r <= s

Incompatible(m, n) == m = "EXCLUSIVE" \/ n = "EXCLUSIVE"

Holds(t, r) == holders[r][t] # NoLock

(* Mutants: only exclusive holders are looked at; the queue is not. *)
canGrantOverShared(t, r, m, front) ==
    /\ \A u \in Txn \ {t} : holders[r][u] # "EXCLUSIVE"
    /\ Holds(t, r) \/ \A u \in front : ~Incompatible(m, request[u][r])

canGrantPastQueue(t, r, m, front) ==
    \A u \in Txn \ {t} : Holds(u, r) => ~Incompatible(m, holders[r][u])

(* Can t be served in mode m on r, with the waiters of `front` before it?  *)
(* An upgrade passes the queue.                                            *)
canGrant(t, r, m, front) ==
    /\ \A u \in Txn \ {t} : Holds(u, r) => ~Incompatible(m, holders[r][u])
    /\ Holds(t, r) \/ \A u \in front : ~Incompatible(m, request[u][r])

(* Mutant: the waiters in front are forgotten. *)
collectHolders(t, r, m, front) ==
    {u \in Txn \ {t} : Holds(u, r) /\ Incompatible(m, holders[r][u])}

(* The transactions that keep t from being served. *)
collectBlockers(t, r, m, front) ==
    {u \in Txn \ {t} : Holds(u, r) /\ Incompatible(m, holders[r][u])}
    \cup {u \in front \ {t} : ~Holds(t, r) /\ Incompatible(m, request[u][r])}

(* The edges of the wait-for graph out of u. *)
Blockers(u) ==
    IF waitingFor[u] \in resources /\ u \in waiters[waitingFor[u]]
    THEN collectBlockers(u, waitingFor[u], request[u][waitingFor[u]], ahead[u])
    ELSE {}

(* Mutant: the search stops at the first edge. *)
reachesInOneStep(from, target) == from = target \/ target \in Blockers(from)

(* The depth-first search from `from` meets `target`: every set that holds *)
(* `from` and is closed under the edges holds `target`.                    *)
reaches(from, target) ==
    \A C \in SUBSET Txn :
        (from \in C /\ \A u \in C : Blockers(u) \subseteq C) => target \in C

(* Mutant: an upgrade is not checked. *)
ClosesCycleUnlessUpgrade(t, r, m) ==
    ~Holds(t, r) /\ \E b \in collectBlockers(t, r, m, waiters[r]) : reaches(b, t)

(* Would a request of t for r close a cycle? *)
ClosesCycle(t, r, m) ==
    \E b \in collectBlockers(t, r, m, waiters[r]) : reaches(b, t)

StrongEnough(held, m) == held = "EXCLUSIVE" \/ (held = "SHARED" /\ m = "SHARED")

----------------------------------------------------------------------------
(* The grant: a new holder is recorded in heldBy, an old one only goes up. *)
grant(t, r, m) ==
    /\ resources' = resources \cup {r}
    /\ holders' = [holders EXCEPT ![r][t] =
                      IF @ = NoLock \/ m = "EXCLUSIVE" THEN m ELSE @]
    /\ heldBy' = [heldBy EXCEPT ![t] = @ \cup {r}]

leaveTheQueue(t, r) ==
    /\ waiters' = [waiters EXCEPT ![r] = @ \ {t}]
    /\ ahead' = [u \in Txn |-> IF u = t THEN {} ELSE ahead[u] \ {t}]
    /\ waitingFor' = [waitingFor EXCEPT ![t] = Nobody]

(* Mutant: the waiters are not looked at. *)
eraseIfUnheld(S, r, holdersOfR, waitersOfR) ==
    IF \A u \in Txn : holdersOfR[u] = NoLock THEN S \ {r} ELSE S

(* The map without r when r has neither holder nor waiter any more. *)
eraseIfUnused(S, r, holdersOfR, waitersOfR) ==
    IF (\A u \in Txn : holdersOfR[u] = NoLock) /\ waitersOfR = {}
    THEN S \ {r} ELSE S

Init ==
    /\ mtx = Nobody
    /\ resources = {}
    /\ holders = [r \in Resource |-> [t \in Txn |-> NoLock]]
    /\ waiters = [r \in Resource |-> {}]
    /\ ahead = [t \in Txn |-> {}]
    /\ heldBy = [t \in Txn |-> {}]
    /\ waitingFor = [t \in Txn |-> Nobody]
    /\ pc = [t \in Txn |-> "idle"]
    /\ request = [t \in Txn |-> [r \in Resource |-> NoLock]]
    /\ todo = [t \in Txn |-> {}]
    /\ patient = [t \in Txn |-> FALSE]
    /\ calls = [t \in Txn |-> 0]

----------------------------------------------------------------------------
(* Transaction::acquireLocks, called by a write of t. *)
AcquireLocks(t) ==
    /\ pc[t] = "idle" /\ calls[t] < MaxCalls
    /\ \E reqs \in Requests \ {{}} : request' = [request EXCEPT ![t] = Ordered(reqs)]
    /\ patient' = [patient EXCEPT ![t] = FALSE]
    /\ calls' = [calls EXCEPT ![t] = @ + 1]
    /\ pc' = [pc EXCEPT ![t] = "call"]
    /\ UNCHANGED <<mtx, table, todo>>

(* LockManager::acquire takes the mutex and starts on the group. *)
Acquire(t) ==
    /\ pc[t] = "call" /\ mtx = Nobody
    /\ mtx' = t
    /\ todo' = [todo EXCEPT ![t] = {r \in Resource : request[t][r] # NoLock}]
    /\ pc' = [pc EXCEPT ![t] = "locked"]
    /\ UNCHANGED <<table, request, patient, calls>>

(* acquireOneNoLock: t holds r in a mode that is enough. *)
AlreadyHeld(t, r) ==
    /\ pc[t] = "locked" /\ IsNext(t, r)
    /\ StrongEnough(holders[r][t], request[t][r])
    /\ todo' = [todo EXCEPT ![t] = @ \ {r}]
    /\ UNCHANGED <<mtx, table, pc, request, patient, calls>>

(* acquireOneNoLock: served without waiting, behind the whole queue. *)
GrantNow(t, r) ==
    /\ pc[t] = "locked" /\ IsNext(t, r)
    /\ ~StrongEnough(holders[r][t], request[t][r])
    /\ canGrant(t, r, request[t][r], waiters[r])
    /\ grant(t, r, request[t][r])
    /\ todo' = [todo EXCEPT ![t] = @ \ {r}]
    /\ UNCHANGED <<mtx, waiters, ahead, waitingFor, pc, request, patient, calls>>

MustWait(t, r) ==
    /\ pc[t] = "locked" /\ IsNext(t, r)
    /\ ~StrongEnough(holders[r][t], request[t][r])
    /\ ~canGrant(t, r, request[t][r], waiters[r])

(* acquireOneNoLock: the request would close a cycle. *)
RefuseDeadlock(t, r) ==
    /\ MustWait(t, r)
    /\ ClosesCycle(t, r, request[t][r])
    /\ resources' = eraseIfUnused(resources \cup {r}, r, holders[r], waiters[r])
    /\ mtx' = Nobody
    /\ pc' = [pc EXCEPT ![t] = "DEADLOCK"]
    /\ todo' = [todo EXCEPT ![t] = {}]
    /\ UNCHANGED <<holders, waiters, ahead, heldBy, waitingFor, request, patient, calls>>

(* acquireOneNoLock with deadline = now: the waiter is queued and leaves   *)
(* the queue in the same turn of the loop.  A TIMEOUT sends acquireLocks   *)
(* to its second call, an interruption ends the transaction.               *)
GiveUpAtOnce(t, r) ==
    /\ MustWait(t, r) /\ ~patient[t]
    /\ ~ClosesCycle(t, r, request[t][r])
    /\ resources' = eraseIfUnused(resources \cup {r}, r, holders[r], waiters[r])
    /\ mtx' = Nobody
    /\ \/ pc' = [pc EXCEPT ![t] = "INTERRUPTED"] /\ UNCHANGED patient
       \/ /\ pc' = [pc EXCEPT ![t] = "call"]
          /\ patient' = [patient EXCEPT ![t] = TRUE]
    /\ todo' = [todo EXCEPT ![t] = {}]
    /\ UNCHANGED <<holders, waiters, ahead, heldBy, waitingFor, request, calls>>

(* acquireOneNoLock: to the back of the queue; wait_until gives the mutex  *)
(* up.                                                                     *)
Enqueue(t, r) ==
    /\ MustWait(t, r) /\ patient[t]
    /\ ~ClosesCycle(t, r, request[t][r])
    /\ resources' = resources \cup {r}
    /\ waiters' = [waiters EXCEPT ![r] = @ \cup {t}]
    /\ ahead' = [ahead EXCEPT ![t] = waiters[r]]
    /\ waitingFor' = [waitingFor EXCEPT ![t] = r]
    /\ mtx' = Nobody
    /\ pc' = [pc EXCEPT ![t] = "waiting"]
    /\ UNCHANGED <<holders, heldBy, request, todo, patient, calls>>

(* The waiter is awake with the mutex and can be served: it goes on with   *)
(* its group.                                                              *)
WakeGranted(t, r) ==
    /\ pc[t] = "waiting" /\ IsNext(t, r) /\ mtx = Nobody
    /\ canGrant(t, r, request[t][r], ahead[t])
    /\ leaveTheQueue(t, r)
    /\ grant(t, r, request[t][r])
    /\ mtx' = t
    /\ todo' = [todo EXCEPT ![t] = @ \ {r}]
    /\ pc' = [pc EXCEPT ![t] = "locked"]
    /\ UNCHANGED <<request, patient, calls>>

(* Mutants: the waiter that gives up loses the lock it wanted to upgrade;  *)
(* it answers with an outcome that its caller does not know.               *)
WakeDropsLock(t, r) ==
    /\ pc[t] = "waiting" /\ IsNext(t, r) /\ mtx = Nobody
    /\ ~canGrant(t, r, request[t][r], ahead[t])
    /\ leaveTheQueue(t, r)
    /\ holders' = [holders EXCEPT ![r][t] = NoLock]
    /\ pc' = [pc EXCEPT ![t] = "TIMEOUT"]
    /\ todo' = [todo EXCEPT ![t] = {}]
    /\ UNCHANGED <<mtx, resources, heldBy, request, patient, calls>>

WakeUnknownOutcome(t, r) ==
    /\ pc[t] = "waiting" /\ IsNext(t, r) /\ mtx = Nobody
    /\ ~canGrant(t, r, request[t][r], ahead[t])
    /\ leaveTheQueue(t, r)
    /\ pc' = [pc EXCEPT ![t] = "NONE"]
    /\ todo' = [todo EXCEPT ![t] = {}]
    /\ UNCHANGED <<mtx, resources, holders, heldBy, request, patient, calls>>

(* The waiter is awake, cannot be served, and its connection is            *)
(* interrupted or its deadline has passed.                                 *)
WakeGivesUp(t, r) ==
    /\ pc[t] = "waiting" /\ IsNext(t, r) /\ mtx = Nobody
    /\ ~canGrant(t, r, request[t][r], ahead[t])
    /\ leaveTheQueue(t, r)
    /\ resources' = eraseIfUnused(resources, r, holders[r], waiters[r] \ {t})
    /\ \E outcome \in {"INTERRUPTED", "TIMEOUT"} : pc' = [pc EXCEPT ![t] = outcome]
    /\ todo' = [todo EXCEPT ![t] = {}]
    /\ UNCHANGED <<mtx, holders, heldBy, request, patient, calls>>

(* The whole group is held: acquire returns ACQUIRED. *)
Return(t) ==
    /\ pc[t] = "locked" /\ todo[t] = {}
    /\ mtx' = Nobody
    /\ pc' = [pc EXCEPT ![t] = "idle"]
    /\ request' = [request EXCEPT ![t] = [r \in Resource |-> NoLock]]
    /\ patient' = [patient EXCEPT ![t] = FALSE]
    /\ UNCHANGED <<table, todo, calls>>

(* releaseAll, at the end of the transaction, committed or rolled back.    *)
(* The slot is free for another transaction.                               *)
ReleaseAll(t) ==
    /\ pc[t] \in {"idle"} \cup Failed /\ calls[t] > 0 /\ mtx = Nobody
    /\ holders' = [r \in Resource |-> IF r \in heldBy[t]
                                      THEN [holders[r] EXCEPT ![t] = NoLock]
                                      ELSE holders[r]]
    /\ resources' = {r \in resources : r \in heldBy[t] =>
                        r \in eraseIfUnused(resources, r,
                                [holders[r] EXCEPT ![t] = NoLock], waiters[r])}
    /\ heldBy' = [heldBy EXCEPT ![t] = {}]
    /\ pc' = [pc EXCEPT ![t] = "idle"]
    /\ calls' = [calls EXCEPT ![t] = 0]
    /\ request' = [request EXCEPT ![t] = [r \in Resource |-> NoLock]]
    /\ patient' = [patient EXCEPT ![t] = FALSE]
    /\ UNCHANGED <<mtx, waiters, ahead, waitingFor, todo>>

Step(t, r) ==
    \/ AlreadyHeld(t, r) \/ GrantNow(t, r) \/ RefuseDeadlock(t, r)
    \/ GiveUpAtOnce(t, r) \/ Enqueue(t, r)
    \/ WakeGranted(t, r) \/ WakeGivesUp(t, r)

Next ==
    \E t \in Txn :
        \/ AcquireLocks(t) \/ Acquire(t) \/ Return(t) \/ ReleaseAll(t)
        \/ \E r \in Resource : Step(t, r)

Spec == Init /\ [][Next]_vars

(***************************************************************************)
(* Fairness.  A thread that asks for the mutex again and again gets it,    *)
(* and every transaction ends: strong fairness, since both are disabled    *)
(* while another thread holds the mutex.  A waiter wakes up every          *)
(* WAIT_SLICE: if from some point on it could be served, it is; being      *)
(* servable now and then is not enough, since a shared waiter may be       *)
(* passed by a later shared request that then upgrades.  Timeouts and      *)
(* interruptions are not assumed to happen.                                *)
(***************************************************************************)
Proceed(t) ==
    \/ Acquire(t) \/ Return(t)
    \/ \E r \in Resource :
         AlreadyHeld(t, r) \/ GrantNow(t, r) \/ RefuseDeadlock(t, r)
         \/ GiveUpAtOnce(t, r) \/ Enqueue(t, r)

Grantable(t) ==
    pc[t] = "waiting" /\ canGrant(t, waitingFor[t], request[t][waitingFor[t]], ahead[t])

Fairness ==
    \A t \in Txn :
        /\ SF_vars(Proceed(t)) /\ SF_vars(ReleaseAll(t))
        /\ []<><<\E r \in Resource : WakeGranted(t, r)>>_vars \/ []<>~Grantable(t)

FairSpec == Spec /\ Fairness

----------------------------------------------------------------------------
(* Every variable has its type (the fields of LockManager, the locals of   *)
(* acquire and acquireLocks).                                              *)
TypeOK ==
    /\ mtx \in Txn \cup {Nobody}
    /\ resources \in SUBSET Resource
    /\ holders \in [Resource -> [Txn -> Mode \cup {NoLock}]]
    /\ waiters \in [Resource -> SUBSET Txn]
    /\ ahead \in [Txn -> SUBSET Txn]
    /\ heldBy \in [Txn -> SUBSET Resource]
    /\ waitingFor \in [Txn -> Resource \cup {Nobody}]
    /\ pc \in [Txn -> {"idle", "call", "locked", "waiting"} \cup Failed]
    /\ request \in [Txn -> [Resource -> Mode \cup {NoLock}]]
    /\ todo \in [Txn -> SUBSET Resource]
    /\ patient \in [Txn -> BOOLEAN]
    /\ calls \in [Txn -> 0 .. MaxCalls]

(* "Several shared, or one exclusive" (lock_manager.h, ResourceState): an  *)
(* exclusive holder is alone, whatever upgrades and queue jumps there were.*)
MutualExclusion ==
    \A r \in Resource : \A t, u \in Txn :
        (t # u /\ holders[r][t] = "EXCLUSIVE") => holders[r][u] = NoLock

(* Detection at the moment of the request is enough: no later grant,       *)
(* upgrade or departure ever leaves a set of waiters that all wait for     *)
(* each other.                                                             *)
NoWaitCycle ==
    \A S \in (SUBSET Txn) \ {{}} : \E t \in S : Blockers(t) \cap S = {}

(* collectBlockers sees exactly what canGrant sees: a waiter that cannot   *)
(* be served has an edge in the graph, so the detection is not blind.      *)
BlockersExplainTheWait ==
    \A t \in Txn : \A r \in Resource :
        waitingFor[t] = r =>
            (canGrant(t, r, request[t][r], ahead[t]) <=> Blockers(t) = {})

(* When every transaction waits, one of them can be served: nobody depends *)
(* on a timeout.                                                           *)
SomeoneCanMove ==
    (Txn # {} /\ \A t \in Txn : pc[t] = "waiting") =>
        \E t \in Txn : Grantable(t)

(* A resource keeps its entry exactly as long as it is used: the reference *)
(* a sleeping waiter keeps into the map never dangles, and nothing leaks.  *)
EntryIffUsed ==
    \A r \in Resource :
        r \in resources <=> (waiters[r] # {} \/ \E t \in Txn : Holds(t, r))

(* heldBy lists exactly what releaseAll has to give back. *)
HeldByExact == \A t \in Txn : heldBy[t] = {r \in Resource : Holds(t, r)}

(* A waiter is in one queue, the one waitingFor names, behind members of   *)
(* that queue only.                                                        *)
QueueExact ==
    \A t \in Txn :
        /\ pc[t] = "waiting" <=> waitingFor[t] # Nobody
        /\ \A r \in Resource : t \in waiters[r] <=> waitingFor[t] = r
        /\ \A u \in ahead[t] : u # t /\ waitingFor[u] = waitingFor[t]
                              /\ waitingFor[t] # Nobody

(* What release, wake-up and detection rely on: entries, holdings and      *)
(* queues agree with each other through every grant and departure.         *)
Bookkeeping == EntryIffUsed /\ HeldByExact /\ QueueExact

(* Grouped calls do not deadlock between themselves ("deux prises groupees *)
(* ne s'interbloquent pas entre elles", lock_manager.h): a request is      *)
(* refused only if some transaction is in its second call at least.        *)
GroupedNeverDeadlock ==
    [][\A t \in Txn : pc[t] = "locked" /\ pc'[t] = "DEADLOCK" =>
          \E u \in Txn : calls[u] > 1]_vars

(* A lock is kept, and never weakened, until the transaction ends.         *)
LocksKeptToTheEnd ==
    [][\A t \in Txn : \A r \in Resource :
          Holds(t, r) /\ holders'[r][t] # holders[r][t] =>
            \/ holders[r][t] = "SHARED" /\ holders'[r][t] = "EXCLUSIVE"
            \/ heldBy'[t] = {} /\ calls'[t] = 0]_vars

(* An exclusive waiter is not starved by later requests: it is served (or  *)
(* gives up) although no timeout is assumed to fire.                       *)
ExclusiveWaiterServed ==
    \A t \in Txn :
        (pc[t] = "waiting" /\ \E r \in Resource : IsNext(t, r) /\ request[t][r] = "EXCLUSIVE")
            ~> pc[t] # "waiting"
============================================================================
