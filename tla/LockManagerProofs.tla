------------------------- MODULE LockManagerProofs -------------------------
(***************************************************************************)
(* Proofs about LockManager, for any number of transactions and resources. *)
(* The order: types, the queues, exclusion and bookkeeping, and then the   *)
(* absence of a cycle of waiters, which rests on all of them.              *)
(***************************************************************************)
EXTENDS LockManager, TLAPS

(* What the steps of one thread rely on: the mutex is held exactly during  *)
(* a call, a call in progress has requests left, and a waiter waits for    *)
(* the next of them.                                                       *)
CallState ==
    \A t \in Txn :
        /\ pc[t] = "locked" <=> mtx = t
        /\ todo[t] # {} => pc[t] \in {"locked", "waiting"}
        /\ \A r \in todo[t] : request[t][r] # NoLock
        /\ pc[t] = "waiting" => IsNext(t, waitingFor[t])

(* The inductive invariant. *)
IInv ==
    /\ TypeOK
    /\ CallState
    /\ QueueExact
    /\ MutualExclusion
    /\ HeldByExact
    /\ EntryIffUsed
    /\ NoWaitCycle

----------------------------------------------------------------------------
(* A group given to acquireLocks is one mode at most per resource. *)
LEMMA OrderedType == \A reqs : Ordered(reqs) \in [Resource -> Mode \cup {NoLock}]
  BY DEF Ordered, Mode, NoLock

(* The empty lock table has its type. *)
LEMMA InitTypeOK == Init => TypeOK
  BY MaxCallsAssumption DEF Init, TypeOK, Mode, NoLock

(* Every step keeps the types. *)
LEMMA StepTypeOK == TypeOK /\ [Next]_vars => TypeOK'
<1> SUFFICES ASSUME TypeOK, [Next]_vars PROVE TypeOK'
  OBVIOUS
<1> USE TxnAssumption, ResourceAssumption, MaxCallsAssumption
<1>1. ASSUME NEW t \in Txn, AcquireLocks(t) PROVE TypeOK'
  BY <1>1, OrderedType DEF AcquireLocks, TypeOK, table
<1>2. ASSUME NEW t \in Txn, Acquire(t) PROVE TypeOK'
  BY <1>2 DEF Acquire, TypeOK, table
<1>3. ASSUME NEW t \in Txn, Return(t) PROVE TypeOK'
  BY <1>3 DEF Return, TypeOK, table, NoLock
<1>4. ASSUME NEW t \in Txn, ReleaseAll(t) PROVE TypeOK'
  <2>1. holders' \in [Resource -> [Txn -> Mode \cup {NoLock}]]
    BY <1>4 DEF ReleaseAll, TypeOK
  <2>2. resources' \in SUBSET Resource
    BY <1>4 DEF ReleaseAll, TypeOK
  <2> QED
    BY <1>4, <2>1, <2>2 DEF ReleaseAll, TypeOK
<1>5. ASSUME NEW t \in Txn, NEW r \in Resource, AlreadyHeld(t, r) PROVE TypeOK'
  BY <1>5 DEF AlreadyHeld, TypeOK, table
<1>6. ASSUME NEW t \in Txn, NEW r \in Resource, GrantNow(t, r) PROVE TypeOK'
  BY <1>6 DEF GrantNow, grant, TypeOK
<1>7. ASSUME NEW t \in Txn, NEW r \in Resource, RefuseDeadlock(t, r) PROVE TypeOK'
  BY <1>7 DEF RefuseDeadlock, eraseIfUnused, TypeOK, Failed
<1>8. ASSUME NEW t \in Txn, NEW r \in Resource, GiveUpAtOnce(t, r) PROVE TypeOK'
  BY <1>8 DEF GiveUpAtOnce, eraseIfUnused, TypeOK, Failed
<1>9. ASSUME NEW t \in Txn, NEW r \in Resource, Enqueue(t, r) PROVE TypeOK'
  BY <1>9 DEF Enqueue, TypeOK
<1>10. ASSUME NEW t \in Txn, NEW r \in Resource, WakeGranted(t, r) PROVE TypeOK'
  BY <1>10 DEF WakeGranted, leaveTheQueue, grant, TypeOK
<1>11. ASSUME NEW t \in Txn, NEW r \in Resource, WakeGivesUp(t, r) PROVE TypeOK'
  BY <1>11 DEF WakeGivesUp, leaveTheQueue, eraseIfUnused, TypeOK, Failed
<1>12. CASE UNCHANGED vars
  BY <1>12 DEF vars, table, TypeOK
<1> QED
  BY <1>1, <1>2, <1>3, <1>4, <1>5, <1>6, <1>7, <1>8, <1>9, <1>10, <1>11, <1>12
     DEF Next, Step

(* The type invariant holds of every behaviour. *)
THEOREM TypeCorrect == Spec => []TypeOK
  BY InitTypeOK, StepTypeOK, PTL DEF Spec
(* Two requests that come next are the same one. *)
LEMMA NextIsUnique ==
    ASSUME TypeOK, NEW t \in Txn, NEW r \in Resource, NEW s \in Resource,
           IsNext(t, r), IsNext(t, s)
    PROVE  r = s
  BY ResourceAssumption DEF IsNext

(* The state of a call in progress. *)
LEMMA StepCallState == TypeOK /\ CallState /\ QueueExact /\ [Next]_vars => CallState'
<1> SUFFICES ASSUME TypeOK, CallState, QueueExact, [Next]_vars PROVE CallState'
  OBVIOUS
<1> USE TxnAssumption, ResourceAssumption
<1>1. ASSUME NEW t \in Txn, AcquireLocks(t) PROVE CallState'
  BY <1>1 DEF AcquireLocks, CallState, TypeOK, QueueExact, IsNext, table, Failed, NoLock
<1>2. ASSUME NEW t \in Txn, Acquire(t) PROVE CallState'
  BY <1>2 DEF Acquire, CallState, TypeOK, QueueExact, IsNext, table, Failed, NoLock
<1>3. ASSUME NEW t \in Txn, Return(t) PROVE CallState'
  BY <1>3 DEF Return, CallState, TypeOK, QueueExact, IsNext, table, Failed, NoLock
<1>4. ASSUME NEW t \in Txn, ReleaseAll(t) PROVE CallState'
  BY <1>4 DEF ReleaseAll, CallState, TypeOK, QueueExact, IsNext, table, Failed, NoLock
<1>5. ASSUME NEW t \in Txn, NEW r \in Resource, AlreadyHeld(t, r) PROVE CallState'
  BY <1>5 DEF AlreadyHeld, CallState, TypeOK, QueueExact, IsNext, table, Failed, NoLock
<1>6. ASSUME NEW t \in Txn, NEW r \in Resource, GrantNow(t, r) PROVE CallState'
  BY <1>6 DEF GrantNow, grant, CallState, TypeOK, QueueExact, IsNext, table, Failed, NoLock
<1>7. ASSUME NEW t \in Txn, NEW r \in Resource, RefuseDeadlock(t, r) PROVE CallState'
  BY <1>7 DEF RefuseDeadlock, MustWait, CallState, TypeOK, QueueExact, IsNext, table, Failed, NoLock
<1>8. ASSUME NEW t \in Txn, NEW r \in Resource, GiveUpAtOnce(t, r) PROVE CallState'
  BY <1>8 DEF GiveUpAtOnce, MustWait, CallState, TypeOK, QueueExact, IsNext, table, Failed, NoLock
<1>9. ASSUME NEW t \in Txn, NEW r \in Resource, Enqueue(t, r) PROVE CallState'
  BY <1>9 DEF Enqueue, MustWait, CallState, TypeOK, QueueExact, IsNext, table, Failed, NoLock
<1>10. ASSUME NEW t \in Txn, NEW r \in Resource, WakeGranted(t, r) PROVE CallState'
  BY <1>10 DEF WakeGranted, leaveTheQueue, grant, CallState, TypeOK, QueueExact, IsNext, table, Failed, NoLock
<1>11. ASSUME NEW t \in Txn, NEW r \in Resource, WakeGivesUp(t, r) PROVE CallState'
  BY <1>11 DEF WakeGivesUp, leaveTheQueue, CallState, TypeOK, QueueExact, IsNext, table, Failed, NoLock
<1>12. CASE UNCHANGED vars
  BY <1>12 DEF vars, CallState, TypeOK, QueueExact, IsNext, table, Failed, NoLock
<1> QED
  BY <1>1, <1>2, <1>3, <1>4, <1>5, <1>6, <1>7, <1>8, <1>9, <1>10, <1>11, <1>12 DEF Next, Step

(* The queues and waitingFor agree. *)
LEMMA StepQueueExact == TypeOK /\ CallState /\ QueueExact /\ [Next]_vars => QueueExact'
<1> SUFFICES ASSUME TypeOK, CallState, QueueExact, [Next]_vars PROVE QueueExact'
  OBVIOUS
<1> USE TxnAssumption, ResourceAssumption
<1>1. ASSUME NEW t \in Txn, AcquireLocks(t) PROVE QueueExact'
  BY <1>1, NextIsUnique DEF AcquireLocks, CallState, TypeOK, QueueExact, table, Failed
<1>2. ASSUME NEW t \in Txn, Acquire(t) PROVE QueueExact'
  BY <1>2, NextIsUnique DEF Acquire, CallState, TypeOK, QueueExact, table, Failed
<1>3. ASSUME NEW t \in Txn, Return(t) PROVE QueueExact'
  BY <1>3, NextIsUnique DEF Return, CallState, TypeOK, QueueExact, table, Failed
<1>4. ASSUME NEW t \in Txn, ReleaseAll(t) PROVE QueueExact'
  BY <1>4, NextIsUnique DEF ReleaseAll, CallState, TypeOK, QueueExact, table, Failed
<1>5. ASSUME NEW t \in Txn, NEW r \in Resource, AlreadyHeld(t, r) PROVE QueueExact'
  BY <1>5, NextIsUnique DEF AlreadyHeld, CallState, TypeOK, QueueExact, table, Failed
<1>6. ASSUME NEW t \in Txn, NEW r \in Resource, GrantNow(t, r) PROVE QueueExact'
  BY <1>6, NextIsUnique DEF GrantNow, grant, CallState, TypeOK, QueueExact, table, Failed
<1>7. ASSUME NEW t \in Txn, NEW r \in Resource, RefuseDeadlock(t, r) PROVE QueueExact'
  BY <1>7, NextIsUnique DEF RefuseDeadlock, MustWait, CallState, TypeOK, QueueExact, table, Failed
<1>8. ASSUME NEW t \in Txn, NEW r \in Resource, GiveUpAtOnce(t, r) PROVE QueueExact'
  BY <1>8, NextIsUnique DEF GiveUpAtOnce, MustWait, CallState, TypeOK, QueueExact, table, Failed
<1>9. ASSUME NEW t \in Txn, NEW r \in Resource, Enqueue(t, r) PROVE QueueExact'
  BY <1>9, NextIsUnique DEF Enqueue, MustWait, CallState, TypeOK, QueueExact, table, Failed
<1>10. ASSUME NEW t \in Txn, NEW r \in Resource, WakeGranted(t, r) PROVE QueueExact'
  BY <1>10, NextIsUnique DEF WakeGranted, leaveTheQueue, grant, CallState, TypeOK, QueueExact, table, Failed
<1>11. ASSUME NEW t \in Txn, NEW r \in Resource, WakeGivesUp(t, r) PROVE QueueExact'
  BY <1>11, NextIsUnique DEF WakeGivesUp, leaveTheQueue, CallState, TypeOK, QueueExact, table, Failed
<1>12. CASE UNCHANGED vars
  BY <1>12 DEF vars, CallState, TypeOK, QueueExact, table, Failed
<1> QED
  BY <1>1, <1>2, <1>3, <1>4, <1>5, <1>6, <1>7, <1>8, <1>9, <1>10, <1>11, <1>12 DEF Next, Step

(* An exclusive holder is alone. *)
LEMMA StepMutualExclusion == TypeOK /\ MutualExclusion /\ [Next]_vars => MutualExclusion'
<1> SUFFICES ASSUME TypeOK, MutualExclusion, [Next]_vars PROVE MutualExclusion'
  OBVIOUS
<1>1. ASSUME NEW t \in Txn, AcquireLocks(t) PROVE MutualExclusion'
  BY <1>1 DEF AcquireLocks, MutualExclusion, TypeOK, canGrant, Holds, Incompatible, Mode, NoLock, table
<1>2. ASSUME NEW t \in Txn, Acquire(t) PROVE MutualExclusion'
  BY <1>2 DEF Acquire, MutualExclusion, TypeOK, canGrant, Holds, Incompatible, Mode, NoLock, table
<1>3. ASSUME NEW t \in Txn, Return(t) PROVE MutualExclusion'
  BY <1>3 DEF Return, MutualExclusion, TypeOK, canGrant, Holds, Incompatible, Mode, NoLock, table
<1>4. ASSUME NEW t \in Txn, ReleaseAll(t) PROVE MutualExclusion'
  BY <1>4 DEF ReleaseAll, MutualExclusion, TypeOK, canGrant, Holds, Incompatible, Mode, NoLock, table
<1>5. ASSUME NEW t \in Txn, NEW r \in Resource, AlreadyHeld(t, r) PROVE MutualExclusion'
  BY <1>5 DEF AlreadyHeld, MutualExclusion, TypeOK, canGrant, Holds, Incompatible, Mode, NoLock, table
<1>6. ASSUME NEW t \in Txn, NEW r \in Resource, GrantNow(t, r) PROVE MutualExclusion'
  BY <1>6 DEF GrantNow, grant, MutualExclusion, TypeOK, canGrant, Holds, Incompatible, Mode, NoLock, table
<1>7. ASSUME NEW t \in Txn, NEW r \in Resource, RefuseDeadlock(t, r) PROVE MutualExclusion'
  BY <1>7 DEF RefuseDeadlock, MustWait, MutualExclusion, TypeOK, canGrant, Holds, Incompatible, Mode, NoLock, table
<1>8. ASSUME NEW t \in Txn, NEW r \in Resource, GiveUpAtOnce(t, r) PROVE MutualExclusion'
  BY <1>8 DEF GiveUpAtOnce, MustWait, MutualExclusion, TypeOK, canGrant, Holds, Incompatible, Mode, NoLock, table
<1>9. ASSUME NEW t \in Txn, NEW r \in Resource, Enqueue(t, r) PROVE MutualExclusion'
  BY <1>9 DEF Enqueue, MustWait, MutualExclusion, TypeOK, canGrant, Holds, Incompatible, Mode, NoLock, table
<1>10. ASSUME NEW t \in Txn, NEW r \in Resource, WakeGranted(t, r) PROVE MutualExclusion'
  BY <1>10 DEF WakeGranted, leaveTheQueue, grant, MutualExclusion, TypeOK, canGrant, Holds, Incompatible, Mode, NoLock, table
<1>11. ASSUME NEW t \in Txn, NEW r \in Resource, WakeGivesUp(t, r) PROVE MutualExclusion'
  BY <1>11 DEF WakeGivesUp, leaveTheQueue, MutualExclusion, TypeOK, canGrant, Holds, Incompatible, Mode, NoLock, table
<1>12. CASE UNCHANGED vars
  BY <1>12 DEF vars, MutualExclusion, TypeOK, canGrant, Holds, Incompatible, Mode, NoLock, table
<1> QED
  BY <1>1, <1>2, <1>3, <1>4, <1>5, <1>6, <1>7, <1>8, <1>9, <1>10, <1>11, <1>12 DEF Next, Step

(* heldBy is what the table says. *)
LEMMA StepHeldByExact == TypeOK /\ CallState /\ HeldByExact /\ [Next]_vars => HeldByExact'
<1> SUFFICES ASSUME TypeOK, CallState, HeldByExact, [Next]_vars PROVE HeldByExact'
  OBVIOUS
<1>1. ASSUME NEW t \in Txn, AcquireLocks(t) PROVE HeldByExact'
  BY <1>1 DEF AcquireLocks, CallState, IsNext, HeldByExact, TypeOK, Holds, Mode, NoLock, table
<1>2. ASSUME NEW t \in Txn, Acquire(t) PROVE HeldByExact'
  BY <1>2 DEF Acquire, CallState, IsNext, HeldByExact, TypeOK, Holds, Mode, NoLock, table
<1>3. ASSUME NEW t \in Txn, Return(t) PROVE HeldByExact'
  BY <1>3 DEF Return, CallState, IsNext, HeldByExact, TypeOK, Holds, Mode, NoLock, table
<1>4. ASSUME NEW t \in Txn, ReleaseAll(t) PROVE HeldByExact'
  BY <1>4 DEF ReleaseAll, CallState, IsNext, HeldByExact, TypeOK, Holds, Mode, NoLock, table
<1>5. ASSUME NEW t \in Txn, NEW r \in Resource, AlreadyHeld(t, r) PROVE HeldByExact'
  BY <1>5 DEF AlreadyHeld, CallState, IsNext, HeldByExact, TypeOK, Holds, Mode, NoLock, table
<1>6. ASSUME NEW t \in Txn, NEW r \in Resource, GrantNow(t, r) PROVE HeldByExact'
  BY <1>6 DEF GrantNow, grant, CallState, IsNext, HeldByExact, TypeOK, Holds, Mode, NoLock, table
<1>7. ASSUME NEW t \in Txn, NEW r \in Resource, RefuseDeadlock(t, r) PROVE HeldByExact'
  BY <1>7 DEF RefuseDeadlock, MustWait, CallState, IsNext, HeldByExact, TypeOK, Holds, Mode, NoLock, table
<1>8. ASSUME NEW t \in Txn, NEW r \in Resource, GiveUpAtOnce(t, r) PROVE HeldByExact'
  BY <1>8 DEF GiveUpAtOnce, MustWait, CallState, IsNext, HeldByExact, TypeOK, Holds, Mode, NoLock, table
<1>9. ASSUME NEW t \in Txn, NEW r \in Resource, Enqueue(t, r) PROVE HeldByExact'
  BY <1>9 DEF Enqueue, MustWait, CallState, IsNext, HeldByExact, TypeOK, Holds, Mode, NoLock, table
<1>10. ASSUME NEW t \in Txn, NEW r \in Resource, WakeGranted(t, r) PROVE HeldByExact'
  BY <1>10 DEF WakeGranted, leaveTheQueue, grant, CallState, IsNext, HeldByExact, TypeOK, Holds, Mode, NoLock, table
<1>11. ASSUME NEW t \in Txn, NEW r \in Resource, WakeGivesUp(t, r) PROVE HeldByExact'
  BY <1>11 DEF WakeGivesUp, leaveTheQueue, CallState, IsNext, HeldByExact, TypeOK, Holds, Mode, NoLock, table
<1>12. CASE UNCHANGED vars
  BY <1>12 DEF vars, CallState, IsNext, HeldByExact, TypeOK, Holds, Mode, NoLock, table
<1> QED
  BY <1>1, <1>2, <1>3, <1>4, <1>5, <1>6, <1>7, <1>8, <1>9, <1>10, <1>11, <1>12 DEF Next, Step

(* A resource has an entry as long as it is used. *)
LEMMA StepEntryIffUsed ==
    TypeOK /\ CallState /\ QueueExact /\ HeldByExact /\ EntryIffUsed /\ [Next]_vars
        => EntryIffUsed'
<1> SUFFICES ASSUME TypeOK, CallState, QueueExact, HeldByExact, EntryIffUsed, [Next]_vars
             PROVE  EntryIffUsed'
  OBVIOUS
<1>0. SUFFICES ASSUME NEW s \in Resource
               PROVE  s \in resources' <=> (waiters'[s] # {} \/ \E u \in Txn : holders'[s][u] # NoLock)
  BY DEF EntryIffUsed, Holds
<1> DEFINE UsedBefore == waiters[s] # {} \/ \E u \in Txn : holders[s][u] # NoLock
<1>U. s \in resources <=> UsedBefore
  BY DEF EntryIffUsed, Holds
<1> DEFINE Goal == s \in resources' <=> (waiters'[s] # {} \/ \E u \in Txn : holders'[s][u] # NoLock)
<1>A. ASSUME UNCHANGED <<resources, waiters, holders>> PROVE Goal
  BY <1>A, <1>U
<1>1. ASSUME NEW t \in Txn, AcquireLocks(t) PROVE Goal
  BY <1>1, <1>A DEF AcquireLocks, table
<1>2. ASSUME NEW t \in Txn, Acquire(t) PROVE Goal
  BY <1>2, <1>A DEF Acquire, table
<1>3. ASSUME NEW t \in Txn, Return(t) PROVE Goal
  BY <1>3, <1>A DEF Return, table
<1>4. ASSUME NEW t \in Txn, ReleaseAll(t) PROVE Goal
  <2>1. waiters' = waiters
    BY <1>4 DEF ReleaseAll
  <2>2. CASE s \notin heldBy[t]
    <3>1. holders'[s] = holders[s] /\ (s \in resources' <=> s \in resources)
      BY <1>4, <2>2 DEF ReleaseAll, TypeOK
    <3> QED
      BY <2>1, <3>1, <1>U
  <2>3. CASE s \in heldBy[t]
    <3>1. holders'[s] = [holders[s] EXCEPT ![t] = NoLock]
      BY <1>4, <2>3 DEF ReleaseAll
    <3>2. s \in resources
      BY <2>3, <1>U DEF HeldByExact, Holds
    <3>3. s \in resources' <=> s \in eraseIfUnused(resources, s, holders'[s], waiters[s])
      BY <1>4, <2>3, <3>1, <3>2 DEF ReleaseAll
    <3> QED
      BY <2>1, <3>2, <3>3 DEF eraseIfUnused
  <2> QED
    BY <2>2, <2>3
<1>5. ASSUME NEW t \in Txn, NEW r \in Resource, AlreadyHeld(t, r) PROVE Goal
  BY <1>5, <1>A DEF AlreadyHeld, table
<1>6. ASSUME NEW t \in Txn, NEW r \in Resource, grant(t, r, request[t][r]),
             r \in todo[t], s # r => waiters'[s] = waiters[s]
      PROVE  Goal
  <2>1. CASE s = r
    <3>1. holders'[r][t] # NoLock
      BY <1>6 DEF grant, CallState, TypeOK, Mode, NoLock
    <3> QED
      BY <1>6, <2>1, <3>1 DEF grant
  <2>2. CASE s # r
    <3>1. holders'[s] = holders[s] /\ (s \in resources' <=> s \in resources)
      BY <1>6, <2>2 DEF grant, TypeOK
    <3> QED
      BY <1>6, <2>2, <3>1, <1>U
  <2> QED
    BY <2>1, <2>2
<1>7. ASSUME NEW t \in Txn, NEW r \in Resource, GrantNow(t, r) PROVE Goal
  BY <1>6, <1>7 DEF GrantNow, IsNext
<1>8. ASSUME NEW t \in Txn, NEW r \in Resource,
             resources' = eraseIfUnused(resources \cup {r}, r, holders[r], waiters[r]),
             UNCHANGED <<holders, waiters>>
      PROVE  Goal
  <2>1. CASE s = r
    BY <1>8, <2>1 DEF eraseIfUnused
  <2>2. CASE s # r
    <3>1. s \in resources' <=> s \in resources
      BY <1>8, <2>2 DEF eraseIfUnused
    <3> QED
      BY <1>8, <3>1, <1>U
  <2> QED
    BY <2>1, <2>2
<1>9. ASSUME NEW t \in Txn, NEW r \in Resource, RefuseDeadlock(t, r) PROVE Goal
  BY <1>8, <1>9 DEF RefuseDeadlock
<1>10. ASSUME NEW t \in Txn, NEW r \in Resource, GiveUpAtOnce(t, r) PROVE Goal
  BY <1>8, <1>10 DEF GiveUpAtOnce
<1>11. ASSUME NEW t \in Txn, NEW r \in Resource, Enqueue(t, r) PROVE Goal
  <2>1. CASE s = r
    <3>1. t \in waiters'[r] /\ r \in resources'
      BY <1>11 DEF Enqueue, TypeOK
    <3> QED
      BY <2>1, <3>1
  <2>2. CASE s # r
    <3>1. waiters'[s] = waiters[s] /\ holders' = holders /\ (s \in resources' <=> s \in resources)
      BY <1>11, <2>2 DEF Enqueue, TypeOK
    <3> QED
      BY <3>1, <1>U
  <2> QED
    BY <2>1, <2>2
<1>12. ASSUME NEW t \in Txn, NEW r \in Resource, WakeGranted(t, r) PROVE Goal
  <2>1. s # r => waiters'[s] = waiters[s]
    BY <1>12 DEF WakeGranted, leaveTheQueue, TypeOK
  <2> QED
    BY <1>6, <1>12, <2>1 DEF WakeGranted, IsNext
<1>13. ASSUME NEW t \in Txn, NEW r \in Resource, WakeGivesUp(t, r) PROVE Goal
  <2>0. /\ holders' = holders
        /\ waiters' = [waiters EXCEPT ![r] = @ \ {t}]
        /\ resources' = eraseIfUnused(resources, r, holders[r], waiters[r] \ {t})
    BY <1>13 DEF WakeGivesUp, leaveTheQueue
  <2>1. CASE s = r
    <3>1. t \in waiters[r]
      BY <1>13, NextIsUnique DEF WakeGivesUp, CallState, QueueExact, TypeOK
    <3>2. r \in resources
      BY <2>1, <3>1, <1>U
    <3>3. waiters'[r] = waiters[r] \ {t}
      BY <2>0 DEF TypeOK
    <3> QED
      BY <2>0, <2>1, <3>2, <3>3 DEF eraseIfUnused
  <2>2. CASE s # r
    <3>1. waiters'[s] = waiters[s] /\ (s \in resources' <=> s \in resources)
      BY <2>0, <2>2 DEF eraseIfUnused, TypeOK
    <3> QED
      BY <2>0, <3>1, <1>U
  <2> QED
    BY <2>1, <2>2
<1>14. CASE UNCHANGED vars
  BY <1>14, <1>A DEF vars, table
<1> QED
  BY <1>1, <1>2, <1>3, <1>4, <1>5, <1>7, <1>9, <1>10, <1>11, <1>12, <1>13, <1>14 DEF Next, Step

----------------------------------------------------------------------------
(* The edges out of u, once the queues are known to agree. *)
Edges(u, w) ==
    {v \in Txn \ {u} : Holds(v, w) /\ Incompatible(request[u][w], holders[w][v])}
    \cup {v \in ahead[u] : ~Holds(u, w) /\ Incompatible(request[u][w], request[v][w])}

EdgesKnown ==
    \A u \in Txn :
        /\ waitingFor[u] = Nobody => Blockers(u) = {}
        /\ waitingFor[u] # Nobody => /\ waitingFor[u] \in Resource
                                    /\ Blockers(u) = Edges(u, waitingFor[u])

(* Blockers, with its look-ups in waitingFor and in the map, is Edges.     *)
LEMMA EdgesAreKnown == TypeOK /\ QueueExact /\ EntryIffUsed => EdgesKnown
<1> SUFFICES ASSUME TypeOK, QueueExact, EntryIffUsed, NEW u \in Txn
             PROVE  /\ waitingFor[u] = Nobody => Blockers(u) = {}
                    /\ waitingFor[u] # Nobody => /\ waitingFor[u] \in Resource
                                                /\ Blockers(u) = Edges(u, waitingFor[u])
  BY DEF EdgesKnown
<1>1. CASE waitingFor[u] = Nobody
  BY <1>1, ResourceAssumption DEF Blockers, TypeOK
<1>2. CASE waitingFor[u] # Nobody
  <2>1. waitingFor[u] \in Resource /\ u \in waiters[waitingFor[u]]
    BY <1>2 DEF TypeOK, QueueExact
  <2>2. waitingFor[u] \in resources
    BY <2>1 DEF EntryIffUsed
  <2>3. u \notin ahead[u]
    BY DEF QueueExact
  <2> QED
    BY <1>2, <2>1, <2>2, <2>3 DEF Blockers, collectBlockers, Edges
<1> QED
  BY <1>1, <1>2

(* A step may add edges towards a transaction that does not wait, and drop *)
(* any edge: no cycle appears.                                             *)
LEMMA EdgesTowardsRunner ==
    ASSUME NoWaitCycle, NEW t \in Txn, Blockers(t)' = {},
           \A u \in Txn : Blockers(u)' \subseteq Blockers(u) \cup {t}
    PROVE  NoWaitCycle'
<1> SUFFICES ASSUME NEW S \in (SUBSET Txn) \ {{}}
             PROVE  \E u \in S : Blockers(u)' \cap S = {}
  BY DEF NoWaitCycle
<1>1. CASE t \in S
  BY <1>1
<1>2. CASE t \notin S
  <2>1. PICK u \in S : Blockers(u) \cap S = {}
    BY DEF NoWaitCycle
  <2> QED
    BY <1>2, <2>1
<1> QED
  BY <1>1, <1>2

(* A new waiter whose blockers do not lead back to it closes no cycle: the *)
(* transactions that do not reach it form a closed set that holds all its  *)
(* blockers, and a cycle through it would leave one inside that set.       *)
LEMMA NewWaiterClosesNoCycle ==
    ASSUME NoWaitCycle, NEW t \in Txn,
           \A u \in Txn : Blockers(u) \in SUBSET Txn,
           \A u \in Txn \ {t} : Blockers(u)' = Blockers(u),
           \A b \in Blockers(t)' : b \in Txn /\ ~reaches(b, t)
    PROVE  NoWaitCycle'
<1> SUFFICES ASSUME NEW S \in (SUBSET Txn) \ {{}},
                    \A u \in S : Blockers(u)' \cap S # {}
             PROVE  FALSE
  BY DEF NoWaitCycle
<1> DEFINE C == {u \in Txn : ~reaches(u, t)}
<1>1. \A u \in C : Blockers(u) \subseteq C
  <2> SUFFICES ASSUME NEW u \in C, NEW v \in Blockers(u) PROVE ~reaches(v, t)
    OBVIOUS
  <2>1. PICK D \in SUBSET Txn : u \in D /\ (\A w \in D : Blockers(w) \subseteq D) /\ t \notin D
    BY DEF reaches
  <2> QED
    BY <2>1 DEF reaches
<1>2. t \notin C
  BY DEF reaches
<1>3. CASE t \notin S
  <2>1. PICK u \in S : Blockers(u) \cap S = {}
    BY DEF NoWaitCycle
  <2> QED
    BY <1>3, <2>1
<1>4. CASE t \in S
  <2>1. S \cap C \in (SUBSET Txn) \ {{}}
    BY <1>4
  <2>2. PICK u \in S \cap C : Blockers(u) \cap (S \cap C) = {}
    BY <2>1 DEF NoWaitCycle
  <2>3. Blockers(u)' = Blockers(u) /\ Blockers(u) \subseteq C
    BY <1>1, <1>2, <2>2
  <2> QED
    BY <2>2, <2>3
<1> QED
  BY <1>3, <1>4

(* Every step keeps the wait-for graph free of cycles. *)
LEMMA StepNoWaitCycle ==
    /\ TypeOK /\ CallState /\ QueueExact /\ EntryIffUsed /\ NoWaitCycle
    /\ TypeOK' /\ QueueExact' /\ EntryIffUsed'
    /\ [Next]_vars
    => NoWaitCycle'
<1> SUFFICES ASSUME TypeOK, CallState, QueueExact, EntryIffUsed, NoWaitCycle,
                    TypeOK', QueueExact', EntryIffUsed', [Next]_vars
             PROVE  NoWaitCycle'
  OBVIOUS
<1> USE TxnAssumption, ResourceAssumption
<1>W. EdgesKnown
  BY EdgesAreKnown
<1>P. EdgesKnown'
  BY EdgesAreKnown, PTL
<1>T. \A u \in Txn : Blockers(u) \in SUBSET Txn
  BY <1>W DEF EdgesKnown, Edges, TypeOK
<1>A. ASSUME NEW t \in Txn, waitingFor'[t] = Nobody,
             \A u \in Txn \ {t} : waitingFor'[u] = waitingFor[u],
             \A u \in Txn \ {t} : \A w \in Resource : waitingFor[u] = w =>
                Edges(u, w)' \subseteq Edges(u, w) \cup {t}
      PROVE  NoWaitCycle'
  <2>1. Blockers(t)' = {}
    BY <1>A, <1>P DEF EdgesKnown
  <2>2. ASSUME NEW u \in Txn PROVE Blockers(u)' \subseteq Blockers(u) \cup {t}
    <3>1. CASE waitingFor'[u] = Nobody
      BY <3>1, <1>P DEF EdgesKnown
    <3>2. CASE waitingFor'[u] # Nobody
      <4>1. u # t /\ waitingFor[u] = waitingFor'[u] /\ waitingFor[u] \in Resource
        BY <3>2, <1>A, <1>P DEF EdgesKnown
      <4> DEFINE w == waitingFor[u]
      <4>2. Blockers(u)' = Edges(u, w)'
        BY <3>2, <4>1, <1>P DEF EdgesKnown
      <4>3. Blockers(u) = Edges(u, w)
        BY <3>2, <4>1, <1>W DEF EdgesKnown
      <4>4. Edges(u, w)' \subseteq Edges(u, w) \cup {t}
        BY <1>A, <4>1
      <4> QED
        BY <4>2, <4>3, <4>4
    <3> QED
      BY <3>1, <3>2
  <2> QED
    BY <2>1, <2>2, EdgesTowardsRunner
<1>1. ASSUME NEW t \in Txn, AcquireLocks(t) PROVE NoWaitCycle'
  <2>1. /\ waitingFor'[t] = Nobody
        /\ \A u \in Txn \ {t} : waitingFor'[u] = waitingFor[u]
    BY <1>1 DEF AcquireLocks, table, TypeOK, QueueExact, Failed
  <2>2. ASSUME NEW u \in Txn \ {t}, NEW w \in Resource, waitingFor[u] = w
        PROVE  Edges(u, w)' \subseteq Edges(u, w) \cup {t}
    <3>1. /\ ahead'[u] = ahead[u] \ {t} /\ t \notin ahead'[u]
          /\ \A v \in Txn \ {t} : request'[v] = request[v]
          /\ \A v \in Txn \ {t} : holders'[w][v] = holders[w][v]
      BY <1>1, <2>2 DEF AcquireLocks, table, TypeOK, QueueExact, Failed
    <3> QED
      BY <2>2, <3>1 DEF Edges, Holds, TypeOK
  <2> QED
    BY <1>A, <2>1, <2>2
<1>2. ASSUME NEW t \in Txn, Acquire(t) PROVE NoWaitCycle'
  <2>1. /\ waitingFor'[t] = Nobody
        /\ \A u \in Txn \ {t} : waitingFor'[u] = waitingFor[u]
    BY <1>2 DEF Acquire, table, TypeOK, QueueExact, Failed
  <2>2. ASSUME NEW u \in Txn \ {t}, NEW w \in Resource, waitingFor[u] = w
        PROVE  Edges(u, w)' \subseteq Edges(u, w) \cup {t}
    <3>1. /\ ahead'[u] = ahead[u] \ {t} /\ t \notin ahead'[u]
          /\ \A v \in Txn \ {t} : request'[v] = request[v]
          /\ \A v \in Txn \ {t} : holders'[w][v] = holders[w][v]
      BY <1>2, <2>2 DEF Acquire, table, TypeOK, QueueExact, Failed
    <3> QED
      BY <2>2, <3>1 DEF Edges, Holds, TypeOK
  <2> QED
    BY <1>A, <2>1, <2>2
<1>3. ASSUME NEW t \in Txn, Return(t) PROVE NoWaitCycle'
  <2>1. /\ waitingFor'[t] = Nobody
        /\ \A u \in Txn \ {t} : waitingFor'[u] = waitingFor[u]
    BY <1>3 DEF Return, table, TypeOK, QueueExact, Failed
  <2>2. ASSUME NEW u \in Txn \ {t}, NEW w \in Resource, waitingFor[u] = w
        PROVE  Edges(u, w)' \subseteq Edges(u, w) \cup {t}
    <3>1. /\ ahead'[u] = ahead[u] \ {t} /\ t \notin ahead'[u]
          /\ \A v \in Txn \ {t} : request'[v] = request[v]
          /\ \A v \in Txn \ {t} : holders'[w][v] = holders[w][v]
      BY <1>3, <2>2 DEF Return, table, TypeOK, QueueExact, Failed
    <3> QED
      BY <2>2, <3>1 DEF Edges, Holds, TypeOK
  <2> QED
    BY <1>A, <2>1, <2>2
<1>4. ASSUME NEW t \in Txn, ReleaseAll(t) PROVE NoWaitCycle'
  <2>1. /\ waitingFor'[t] = Nobody
        /\ \A u \in Txn \ {t} : waitingFor'[u] = waitingFor[u]
    BY <1>4 DEF ReleaseAll, table, TypeOK, QueueExact, Failed
  <2>2. ASSUME NEW u \in Txn \ {t}, NEW w \in Resource, waitingFor[u] = w
        PROVE  Edges(u, w)' \subseteq Edges(u, w) \cup {t}
    <3>1. /\ ahead'[u] = ahead[u] \ {t} /\ t \notin ahead'[u]
          /\ \A v \in Txn \ {t} : request'[v] = request[v]
          /\ \A v \in Txn \ {t} : holders'[w][v] = holders[w][v]
      BY <1>4, <2>2 DEF ReleaseAll, table, TypeOK, QueueExact, Failed
    <3> QED
      BY <2>2, <3>1 DEF Edges, Holds, TypeOK
  <2> QED
    BY <1>A, <2>1, <2>2
<1>5. ASSUME NEW t \in Txn, NEW r \in Resource, AlreadyHeld(t, r) PROVE NoWaitCycle'
  <2>1. /\ waitingFor'[t] = Nobody
        /\ \A u \in Txn \ {t} : waitingFor'[u] = waitingFor[u]
    BY <1>5 DEF AlreadyHeld, table, TypeOK, QueueExact, Failed
  <2>2. ASSUME NEW u \in Txn \ {t}, NEW w \in Resource, waitingFor[u] = w
        PROVE  Edges(u, w)' \subseteq Edges(u, w) \cup {t}
    <3>1. /\ ahead'[u] = ahead[u] \ {t} /\ t \notin ahead'[u]
          /\ \A v \in Txn \ {t} : request'[v] = request[v]
          /\ \A v \in Txn \ {t} : holders'[w][v] = holders[w][v]
      BY <1>5, <2>2 DEF AlreadyHeld, table, TypeOK, QueueExact, Failed
    <3> QED
      BY <2>2, <3>1 DEF Edges, Holds, TypeOK
  <2> QED
    BY <1>A, <2>1, <2>2
<1>6. ASSUME NEW t \in Txn, NEW r \in Resource, GrantNow(t, r) PROVE NoWaitCycle'
  <2>1. /\ waitingFor'[t] = Nobody
        /\ \A u \in Txn \ {t} : waitingFor'[u] = waitingFor[u]
    BY <1>6 DEF GrantNow, grant, table, TypeOK, QueueExact, Failed
  <2>2. ASSUME NEW u \in Txn \ {t}, NEW w \in Resource, waitingFor[u] = w
        PROVE  Edges(u, w)' \subseteq Edges(u, w) \cup {t}
    <3>1. /\ ahead'[u] = ahead[u] \ {t} /\ t \notin ahead'[u]
          /\ \A v \in Txn \ {t} : request'[v] = request[v]
          /\ \A v \in Txn \ {t} : holders'[w][v] = holders[w][v]
      BY <1>6, <2>2 DEF GrantNow, grant, table, TypeOK, QueueExact, Failed
    <3> QED
      BY <2>2, <3>1 DEF Edges, Holds, TypeOK
  <2> QED
    BY <1>A, <2>1, <2>2
<1>7. ASSUME NEW t \in Txn, NEW r \in Resource, RefuseDeadlock(t, r) PROVE NoWaitCycle'
  <2>1. /\ waitingFor'[t] = Nobody
        /\ \A u \in Txn \ {t} : waitingFor'[u] = waitingFor[u]
    BY <1>7 DEF RefuseDeadlock, MustWait, table, TypeOK, QueueExact, Failed
  <2>2. ASSUME NEW u \in Txn \ {t}, NEW w \in Resource, waitingFor[u] = w
        PROVE  Edges(u, w)' \subseteq Edges(u, w) \cup {t}
    <3>1. /\ ahead'[u] = ahead[u] \ {t} /\ t \notin ahead'[u]
          /\ \A v \in Txn \ {t} : request'[v] = request[v]
          /\ \A v \in Txn \ {t} : holders'[w][v] = holders[w][v]
      BY <1>7, <2>2 DEF RefuseDeadlock, MustWait, table, TypeOK, QueueExact, Failed
    <3> QED
      BY <2>2, <3>1 DEF Edges, Holds, TypeOK
  <2> QED
    BY <1>A, <2>1, <2>2
<1>8. ASSUME NEW t \in Txn, NEW r \in Resource, GiveUpAtOnce(t, r) PROVE NoWaitCycle'
  <2>1. /\ waitingFor'[t] = Nobody
        /\ \A u \in Txn \ {t} : waitingFor'[u] = waitingFor[u]
    BY <1>8 DEF GiveUpAtOnce, MustWait, table, TypeOK, QueueExact, Failed
  <2>2. ASSUME NEW u \in Txn \ {t}, NEW w \in Resource, waitingFor[u] = w
        PROVE  Edges(u, w)' \subseteq Edges(u, w) \cup {t}
    <3>1. /\ ahead'[u] = ahead[u] \ {t} /\ t \notin ahead'[u]
          /\ \A v \in Txn \ {t} : request'[v] = request[v]
          /\ \A v \in Txn \ {t} : holders'[w][v] = holders[w][v]
      BY <1>8, <2>2 DEF GiveUpAtOnce, MustWait, table, TypeOK, QueueExact, Failed
    <3> QED
      BY <2>2, <3>1 DEF Edges, Holds, TypeOK
  <2> QED
    BY <1>A, <2>1, <2>2
<1>9. ASSUME NEW t \in Txn, NEW r \in Resource, WakeGranted(t, r) PROVE NoWaitCycle'
  <2>1. /\ waitingFor'[t] = Nobody
        /\ \A u \in Txn \ {t} : waitingFor'[u] = waitingFor[u]
    BY <1>9 DEF WakeGranted, leaveTheQueue, grant, table, TypeOK, QueueExact, Failed
  <2>2. ASSUME NEW u \in Txn \ {t}, NEW w \in Resource, waitingFor[u] = w
        PROVE  Edges(u, w)' \subseteq Edges(u, w) \cup {t}
    <3>1. /\ ahead'[u] = ahead[u] \ {t} /\ t \notin ahead'[u]
          /\ \A v \in Txn \ {t} : request'[v] = request[v]
          /\ \A v \in Txn \ {t} : holders'[w][v] = holders[w][v]
      BY <1>9, <2>2 DEF WakeGranted, leaveTheQueue, grant, table, TypeOK, QueueExact, Failed
    <3> QED
      BY <2>2, <3>1 DEF Edges, Holds, TypeOK
  <2> QED
    BY <1>A, <2>1, <2>2
<1>10. ASSUME NEW t \in Txn, NEW r \in Resource, WakeGivesUp(t, r) PROVE NoWaitCycle'
  <2>1. /\ waitingFor'[t] = Nobody
        /\ \A u \in Txn \ {t} : waitingFor'[u] = waitingFor[u]
    BY <1>10 DEF WakeGivesUp, leaveTheQueue, table, TypeOK, QueueExact, Failed
  <2>2. ASSUME NEW u \in Txn \ {t}, NEW w \in Resource, waitingFor[u] = w
        PROVE  Edges(u, w)' \subseteq Edges(u, w) \cup {t}
    <3>1. /\ ahead'[u] = ahead[u] \ {t} /\ t \notin ahead'[u]
          /\ \A v \in Txn \ {t} : request'[v] = request[v]
          /\ \A v \in Txn \ {t} : holders'[w][v] = holders[w][v]
      BY <1>10, <2>2 DEF WakeGivesUp, leaveTheQueue, table, TypeOK, QueueExact, Failed
    <3> QED
      BY <2>2, <3>1 DEF Edges, Holds, TypeOK
  <2> QED
    BY <1>A, <2>1, <2>2
<1>11. ASSUME NEW t \in Txn, NEW r \in Resource, Enqueue(t, r) PROVE NoWaitCycle'
  <2>1. /\ waitingFor[t] = Nobody /\ waitingFor'[t] = r /\ ahead'[t] = waiters[r]
        /\ holders' = holders /\ request' = request
        /\ \A u \in Txn \ {t} : waitingFor'[u] = waitingFor[u] /\ ahead'[u] = ahead[u]
        /\ ~ClosesCycle(t, r, request[t][r])
    BY <1>11 DEF Enqueue, MustWait, TypeOK, QueueExact
  <2>2. \A b \in Blockers(t)' : b \in Txn /\ ~reaches(b, t)
    <3>1. Blockers(t)' = Edges(t, r)'
      BY <2>1, <1>P DEF EdgesKnown
    <3>2. Edges(t, r)' \subseteq collectBlockers(t, r, request[t][r], waiters[r])
      <4>1. t \notin waiters[r]
        BY <2>1 DEF QueueExact
      <4> QED
        BY <2>1, <4>1 DEF Edges, collectBlockers, Holds
    <3>3. collectBlockers(t, r, request[t][r], waiters[r]) \subseteq Txn
      BY DEF collectBlockers, TypeOK
    <3> QED
      BY <2>1, <3>1, <3>2, <3>3 DEF ClosesCycle
  <2>3. ASSUME NEW u \in Txn \ {t} PROVE Blockers(u)' = Blockers(u)
    <3>1. CASE waitingFor[u] = Nobody
      BY <3>1, <2>1, <1>W, <1>P DEF EdgesKnown
    <3>2. CASE waitingFor[u] # Nobody
      <4>1. PICK w \in Resource : w = waitingFor[u] /\ waitingFor'[u] = w
        BY <3>2, <2>1, <1>W DEF EdgesKnown
      <4>2. Blockers(u) = Edges(u, w) /\ Blockers(u)' = Edges(u, w)'
        BY <3>2, <4>1, <1>W, <1>P DEF EdgesKnown
      <4>3. Edges(u, w)' = Edges(u, w)
        BY <2>1 DEF Edges, Holds
      <4> QED
        BY <4>2, <4>3
    <3> QED
      BY <3>1, <3>2
  <2> QED
    BY <1>T, <2>2, <2>3, NewWaiterClosesNoCycle
<1>12. CASE UNCHANGED vars
  <2>1. \A u \in Txn : Blockers(u)' = Blockers(u)
    BY <1>12 DEF vars, table, Blockers, collectBlockers, Holds
  <2> QED
    BY <2>1 DEF NoWaitCycle
<1> QED
  BY <1>1, <1>2, <1>3, <1>4, <1>5, <1>6, <1>7, <1>8, <1>9, <1>10, <1>11, <1>12 DEF Next, Step

----------------------------------------------------------------------------
(* The empty lock table satisfies the inductive invariant. *)
LEMMA InitIInv == Init => IInv
<1> SUFFICES ASSUME Init PROVE IInv
  OBVIOUS
<1> USE TxnAssumption, ResourceAssumption
<1>1. TypeOK
  BY InitTypeOK
<1>2. CallState /\ QueueExact
  BY DEF Init, CallState, QueueExact
<1>3. MutualExclusion /\ HeldByExact /\ EntryIffUsed
  BY DEF Init, MutualExclusion, HeldByExact, EntryIffUsed, Holds, NoLock
<1>4. \A t \in Txn : Blockers(t) = {}
  BY DEF Init, Blockers
<1>5. NoWaitCycle
  BY <1>4 DEF NoWaitCycle
<1> QED
  BY <1>1, <1>2, <1>3, <1>5 DEF IInv

(* Every step of acquire, of its waits and of releaseAll keeps it. *)
LEMMA StepIInv == IInv /\ [Next]_vars => IInv'
  BY StepTypeOK, StepCallState, StepQueueExact, StepMutualExclusion, StepHeldByExact,
     StepEntryIffUsed, StepNoWaitCycle DEF IInv

(* The inductive invariant holds of every behaviour. *)
LEMMA Invariance == Spec => []IInv
  BY InitIInv, StepIInv, PTL DEF Spec

(* An exclusive lock is never shared: the upgrade that passes the queue    *)
(* and the group that keeps its partial locks are covered.                 *)
THEOREM ExclusionHolds == Spec => []MutualExclusion
<1>1. IInv => MutualExclusion
  BY DEF IInv
<1> QED
  BY <1>1, Invariance, PTL

(* The table, heldBy, waitingFor and the queues tell the same story, and   *)
(* the entry a sleeping waiter refers to is never erased.                  *)
THEOREM BookkeepingHolds == Spec => []Bookkeeping
<1>1. IInv => Bookkeeping
  BY DEF IInv, Bookkeeping
<1> QED
  BY <1>1, Invariance, PTL

(* Checking for a cycle once, when a transaction starts to wait, is        *)
(* enough: no set of waiters ever waits for itself.                        *)
THEOREM NoWaitCycleHolds == Spec => []NoWaitCycle
<1>1. IInv => NoWaitCycle
  BY DEF IInv
<1> QED
  BY <1>1, Invariance, PTL

(* The graph the search walks is the one that decides grants. *)
THEOREM BlockersExplainTheWaitHolds == Spec => []BlockersExplainTheWait
<1>1. IInv => BlockersExplainTheWait
  <2> SUFFICES ASSUME IInv, NEW t \in Txn, NEW r \in Resource, waitingFor[t] = r
               PROVE  canGrant(t, r, request[t][r], ahead[t]) <=> Blockers(t) = {}
    BY DEF BlockersExplainTheWait
  <2>1. Blockers(t) = Edges(t, r)
    BY EdgesAreKnown, ResourceAssumption DEF IInv, EdgesKnown
  <2> QED
    BY <2>1 DEF Edges, canGrant, IInv, TypeOK
<1> QED
  BY <1>1, Invariance, PTL

(* If everybody waits, somebody can be served: progress never has to come  *)
(* from a timeout.                                                         *)
THEOREM SomeoneCanMoveHolds == Spec => []SomeoneCanMove
<1>1. IInv /\ BlockersExplainTheWait => SomeoneCanMove
  <2> SUFFICES ASSUME IInv, BlockersExplainTheWait, Txn # {},
                      \A t \in Txn : pc[t] = "waiting"
               PROVE  \E t \in Txn : Grantable(t)
    BY DEF SomeoneCanMove
  <2>1. PICK t \in Txn : Blockers(t) \cap Txn = {}
    BY DEF IInv, NoWaitCycle
  <2>2. waitingFor[t] \in Resource
    BY DEF IInv, TypeOK, QueueExact
  <2>3. Blockers(t) = {}
    BY <2>1, EdgesAreKnown DEF IInv, EdgesKnown, Edges, TypeOK
  <2> QED
    BY <2>2, <2>3 DEF BlockersExplainTheWait, Grantable
<1> QED
  BY <1>1, Invariance, BlockersExplainTheWaitHolds, PTL

(* Strict two-phase locking: what a transaction holds it keeps until it    *)
(* ends, possibly raised from shared to exclusive.                         *)
THEOREM LocksKeptToTheEndHolds == Spec => LocksKeptToTheEnd
<1> DEFINE Kept == \A t \in Txn : \A r \in Resource :
                     Holds(t, r) /\ holders'[r][t] # holders[r][t] =>
                       \/ holders[r][t] = "SHARED" /\ holders'[r][t] = "EXCLUSIVE"
                       \/ heldBy'[t] = {} /\ calls'[t] = 0
<1>1. TypeOK /\ [Next]_vars => [Kept]_vars
  <2> SUFFICES ASSUME TypeOK, [Next]_vars, NEW t \in Txn, NEW r \in Resource,
                      Holds(t, r), holders'[r][t] # holders[r][t]
               PROVE  \/ holders[r][t] = "SHARED" /\ holders'[r][t] = "EXCLUSIVE"
                      \/ heldBy'[t] = {} /\ calls'[t] = 0
    OBVIOUS
  <2>1. ASSUME NEW u \in Txn, NEW s \in Resource, grant(u, s, request[u][s])
        PROVE  holders[r][t] = "SHARED" /\ holders'[r][t] = "EXCLUSIVE"
    BY <2>1 DEF grant, TypeOK, Holds, Mode, NoLock
  <2>2. ASSUME NEW u \in Txn, ReleaseAll(u) PROVE heldBy'[t] = {} /\ calls'[t] = 0
    BY <2>2 DEF ReleaseAll, TypeOK
  <2>3. CASE UNCHANGED vars
    BY <2>3 DEF vars, table
  <2>4. ASSUME NEW u \in Txn, AcquireLocks(u) \/ Acquire(u) \/ Return(u) PROVE FALSE
    BY <2>4 DEF AcquireLocks, Acquire, Return, table
  <2>5. ASSUME NEW u \in Txn, NEW s \in Resource, Step(u, s)
        PROVE  grant(u, s, request[u][s])
    BY <2>5 DEF Step, table, AlreadyHeld, GrantNow, RefuseDeadlock, GiveUpAtOnce, Enqueue,
       WakeGranted, WakeGivesUp
  <2> QED
    BY <2>1, <2>2, <2>3, <2>4, <2>5 DEF Next
<1> QED
  BY <1>1, TypeCorrect, PTL DEF Spec, LocksKeptToTheEnd

----------------------------------------------------------------------------
(* What the first group of a transaction holds at any time.  Before it     *)
(* nothing; during it locks in the mode asked for, each before every       *)
(* resource of the group that is still to be had, the second call of       *)
(* acquireLocks, which walks the group again, included; and a waiter has   *)
(* nothing yet of what it waits for.                                       *)
FirstGroup(t) ==
    calls[t] <= 1 =>
        /\ calls[t] = 0 => \A r \in Resource : ~Holds(t, r)
        /\ pc[t] \in {"call", "locked", "waiting"} =>
             \A r \in Resource : Holds(t, r) =>
                 /\ holders[r][t] = request[t][r]
                 /\ \A s \in Resource : request[t][s] # NoLock /\ ~Holds(t, s) => r < s
        /\ pc[t] \in {"locked", "waiting"} =>
             \A s \in Resource : request[t][s] # NoLock /\ s \notin todo[t] => Holds(t, s)
        /\ pc[t] = "waiting" => ~Holds(t, waitingFor[t])

(* A thread that is not idle is a transaction that has called acquireLocks.*)
InCall == \A t \in Txn : pc[t] # "idle" => calls[t] > 0

(* The strengthening that the order of acquisition gives. *)
GroupsAreOrdered == InCall /\ \A t \in Txn : FirstGroup(t)

(* A thread changes its own call and its own locks only. *)
LEMMA FirstGroupOfOthers ==
    ASSUME TypeOK, QueueExact, NEW t \in Txn, NEW u \in Txn, u # t,
           AcquireLocks(t) \/ Acquire(t) \/ Return(t) \/ ReleaseAll(t)
             \/ \E r \in Resource : Step(t, r),
           FirstGroup(u)
    PROVE  FirstGroup(u)'
<1>1. /\ calls'[u] = calls[u] /\ pc'[u] = pc[u] /\ request'[u] = request[u]
      /\ todo'[u] = todo[u]
  BY DEF TypeOK, AcquireLocks, Acquire, Return, ReleaseAll, Step, AlreadyHeld, GrantNow,
     RefuseDeadlock, GiveUpAtOnce, Enqueue, WakeGranted, WakeGivesUp
<1>2. waitingFor'[u] = waitingFor[u]
  BY DEF TypeOK, AcquireLocks, Acquire, Return, ReleaseAll, Step, AlreadyHeld, GrantNow,
     RefuseDeadlock, GiveUpAtOnce, Enqueue, WakeGranted, WakeGivesUp, leaveTheQueue, table
<1>3. \A r \in Resource : holders'[r][u] = holders[r][u]
  <2>1. CASE ReleaseAll(t)
    BY <2>1 DEF ReleaseAll, TypeOK
  <2>2. ASSUME NEW s \in Resource, grant(t, s, request[t][s])
        PROVE  \A r \in Resource : holders'[r][u] = holders[r][u]
    BY <2>2 DEF grant, TypeOK
  <2>3. CASE UNCHANGED holders
    BY <2>3
  <2> QED
    BY <2>1, <2>2, <2>3 DEF AcquireLocks, Acquire, Return, Step, AlreadyHeld, GrantNow,
       RefuseDeadlock, GiveUpAtOnce, Enqueue, WakeGranted, WakeGivesUp, table
<1>4. pc[u] = "waiting" => waitingFor[u] \in Resource
  BY DEF QueueExact, TypeOK
<1> QED
  BY <1>1, <1>2, <1>3, <1>4 DEF FirstGroup, Holds

(* Every step keeps the order of the first group. *)
LEMMA StepGroups ==
    IInv /\ GroupsAreOrdered /\ [Next]_vars => GroupsAreOrdered'
<1> SUFFICES ASSUME IInv, GroupsAreOrdered, [Next]_vars PROVE GroupsAreOrdered'
  OBVIOUS
<1> USE TxnAssumption, ResourceAssumption, MaxCallsAssumption
<1>t. TypeOK /\ CallState /\ QueueExact /\ HeldByExact
  BY DEF IInv
<1>i. InCall'
  <2>1. CASE UNCHANGED vars
    BY <2>1 DEF vars, GroupsAreOrdered, InCall
  <2>2. ASSUME NEW t \in Txn, AcquireLocks(t) \/ Acquire(t) \/ Return(t) \/ ReleaseAll(t)
        PROVE  InCall'
    BY <2>2, <1>t DEF GroupsAreOrdered, InCall, TypeOK, AcquireLocks, Acquire, Return,
       ReleaseAll
  <2>3. ASSUME NEW t \in Txn, NEW r \in Resource, Step(t, r) PROVE InCall'
    <3>1. pc[t] # "idle" /\ UNCHANGED calls /\ \A u \in Txn \ {t} : pc'[u] = pc[u]
      BY <2>3, <1>t DEF TypeOK, Step, MustWait, AlreadyHeld, GrantNow, RefuseDeadlock,
         GiveUpAtOnce, Enqueue, WakeGranted, WakeGivesUp
    <3> QED
      BY <3>1 DEF GroupsAreOrdered, InCall
  <2> QED
    BY <2>1, <2>2, <2>3 DEF Next
<1>o. ASSUME NEW t \in Txn, FirstGroup(t)',
             AcquireLocks(t) \/ Acquire(t) \/ Return(t) \/ ReleaseAll(t)
               \/ \E r \in Resource : Step(t, r)
      PROVE  GroupsAreOrdered'
  BY <1>t, <1>i, <1>o, FirstGroupOfOthers DEF GroupsAreOrdered
<1>f. \A t \in Txn : FirstGroup(t) /\ (pc[t] # "idle" => calls[t] > 0)
  BY DEF GroupsAreOrdered, InCall
<1>1. ASSUME NEW t \in Txn, AcquireLocks(t) PROVE FirstGroup(t)'
  BY <1>1, <1>t, <1>f DEF AcquireLocks, FirstGroup, TypeOK, Holds, table
<1>2. ASSUME NEW t \in Txn, Acquire(t) PROVE FirstGroup(t)'
  BY <1>2, <1>t, <1>f DEF Acquire, FirstGroup, TypeOK, Holds, table
<1>3. ASSUME NEW t \in Txn, Return(t) PROVE FirstGroup(t)'
  BY <1>3, <1>t, <1>f DEF Return, FirstGroup, TypeOK, Holds, table
<1>4. ASSUME NEW t \in Txn, ReleaseAll(t) PROVE FirstGroup(t)'
  <2>1. \A r \in Resource : holders'[r][t] = NoLock
    BY <1>4, <1>t DEF ReleaseAll, HeldByExact, TypeOK, Holds
  <2>2. pc'[t] = "idle"
    BY <1>4, <1>t DEF ReleaseAll, TypeOK
  <2> QED
    BY <2>1, <2>2 DEF FirstGroup, Holds
<1>5. ASSUME NEW t \in Txn, NEW r \in Resource, AlreadyHeld(t, r) PROVE FirstGroup(t)'
  BY <1>5, <1>t, <1>f DEF AlreadyHeld, StrongEnough, FirstGroup, TypeOK, Holds, table, NoLock
<1>6. ASSUME NEW t \in Txn, NEW r \in Resource, pc[t] \in {"locked", "waiting"},
             IsNext(t, r), ~StrongEnough(holders[r][t], request[t][r]),
             calls[t] <= 1
      PROVE  holders[r][t] = NoLock /\ request[t][r] \in Mode
  BY <1>6, <1>t, <1>f DEF FirstGroup, TypeOK, CallState, IsNext, StrongEnough, Holds, Mode,
     NoLock
<1>7. ASSUME NEW t \in Txn, NEW r \in Resource, pc[t] \in {"locked", "waiting"},
             IsNext(t, r), grant(t, r, request[t][r]), calls[t] > 1 \/ holders[r][t] = NoLock,
             todo' = [todo EXCEPT ![t] = @ \ {r}], pc'[t] = "locked",
             UNCHANGED <<request, calls>>
      PROVE  FirstGroup(t)'
  <2> SUFFICES ASSUME calls[t] <= 1, holders[r][t] = NoLock PROVE FirstGroup(t)'
    BY <1>7, <1>t DEF FirstGroup, TypeOK
  <2>1. request[t][r] \in Mode
    BY <1>7, <1>t DEF TypeOK, CallState, IsNext, Mode, NoLock
  <2>2. \A s \in Resource : holders'[s][t] = IF s = r THEN request[t][r] ELSE holders[s][t]
    BY <1>7, <1>t DEF grant, TypeOK
  <2>3. todo'[t] = todo[t] \ {r}
    BY <1>7, <1>t DEF TypeOK
  <2>4. calls[t] > 0
    BY <1>7, <1>f
  <2>5. ASSUME NEW s \in Resource, Holds(t, s)', NEW x \in Resource, request[t][x] # NoLock,
               ~Holds(t, x)'
        PROVE  s < x
    <3>1. x # r /\ ~Holds(t, x)
      BY <2>5, <2>1, <2>2 DEF Holds, Mode, NoLock
    <3>2. CASE s = r
      <4>1. x \in todo[t]
        BY <3>1, <1>7, <1>f, <2>5 DEF FirstGroup
      <4> QED
        BY <4>1, <3>1, <3>2, <1>7 DEF IsNext
    <3>3. CASE s # r
      BY <3>1, <3>3, <2>2, <2>5, <1>7, <1>f DEF FirstGroup, Holds
    <3> QED
      BY <3>2, <3>3
  <2>6. \A s \in Resource : Holds(t, s)' => holders'[s][t] = request'[t][s]
    BY <2>2, <1>7, <1>f DEF FirstGroup, Holds
  <2>7. \A s \in Resource : request'[t][s] # NoLock /\ s \notin todo'[t] => Holds(t, s)'
    BY <2>1, <2>2, <2>3, <1>7, <1>f DEF FirstGroup, Holds, Mode, NoLock
  <2>8. calls'[t] # 0 /\ pc'[t] = "locked" /\ request'[t] = request[t]
    BY <2>4, <1>7
  <2> QED
    BY <2>5, <2>6, <2>7, <2>8 DEF FirstGroup
<1>8. ASSUME NEW t \in Txn, NEW r \in Resource, GrantNow(t, r) PROVE FirstGroup(t)'
  <2>1. pc'[t] = "locked" /\ calls[t] \in Int
    BY <1>8, <1>t DEF GrantNow, TypeOK
  <2>2. calls[t] > 1 \/ holders[r][t] = NoLock
    BY <1>8, <1>6, <2>1 DEF GrantNow
  <2> QED
    BY <1>8, <1>7, <2>1, <2>2 DEF GrantNow
<1>9. ASSUME NEW t \in Txn, NEW r \in Resource, WakeGranted(t, r) PROVE FirstGroup(t)'
  <2>1. pc'[t] = "locked"
    BY <1>9, <1>t DEF WakeGranted, TypeOK
  <2>2. calls[t] > 1 \/ ~Holds(t, waitingFor[t])
    BY <1>9, <1>t, <1>f DEF WakeGranted, FirstGroup, TypeOK
  <2>3. waitingFor[t] = r
    <3>1. waitingFor[t] \in Resource /\ IsNext(t, waitingFor[t]) /\ IsNext(t, r)
      BY <1>9, <1>t DEF WakeGranted, CallState, QueueExact, TypeOK
    <3> QED
      BY <3>1, <1>t, NextIsUnique
  <2> QED
    BY <1>9, <1>7, <2>1, <2>2, <2>3 DEF WakeGranted, Holds
<1>10. ASSUME NEW t \in Txn, NEW r \in Resource,
              RefuseDeadlock(t, r) \/ WakeGivesUp(t, r)
       PROVE  FirstGroup(t)'
  BY <1>10, <1>t, <1>f DEF RefuseDeadlock, MustWait, WakeGivesUp, leaveTheQueue, FirstGroup,
     TypeOK, Holds
<1>11. ASSUME NEW t \in Txn, NEW r \in Resource, GiveUpAtOnce(t, r) PROVE FirstGroup(t)'
  BY <1>11, <1>t, <1>f DEF GiveUpAtOnce, MustWait, FirstGroup, TypeOK, Holds
<1>12. ASSUME NEW t \in Txn, NEW r \in Resource, Enqueue(t, r) PROVE FirstGroup(t)'
  <2>1. calls[t] > 1 \/ ~Holds(t, r)
    BY <1>12, <1>6, <1>t DEF Enqueue, MustWait, TypeOK, Holds
  <2>2. pc[t] = "locked" /\ pc'[t] = "waiting" /\ waitingFor'[t] = r
    BY <1>12, <1>t DEF Enqueue, MustWait, TypeOK
  <2>3. UNCHANGED <<holders, request, todo, calls>>
    BY <1>12 DEF Enqueue
  <2> QED
    BY <2>1, <2>2, <2>3, <1>f, <1>t DEF FirstGroup, Holds, TypeOK
<1>13. CASE UNCHANGED vars
  BY <1>13, <1>i DEF vars, table, GroupsAreOrdered, FirstGroup, Holds
<1> QED
  BY <1>1, <1>2, <1>3, <1>4, <1>5, <1>8, <1>9, <1>10, <1>11, <1>12, <1>13, <1>o DEF Next, Step

(* Among transactions in their first group, the transactions that run, or  *)
(* wait for r or for something after it, block each other only: the search *)
(* from a blocker of a request for r stays among them, and t, which holds  *)
(* only what comes before r, is not one of them.                           *)
LEMMA FirstGroupsCloseNoCycle ==
    ASSUME IInv, GroupsAreOrdered, \A u \in Txn : calls[u] <= 1,
           NEW t \in Txn, NEW r \in Resource, MustWait(t, r)
    PROVE  ~ClosesCycle(t, r, request[t][r])
<1> USE TxnAssumption, ResourceAssumption
<1> DEFINE C == {u \in Txn \ {t} : waitingFor[u] = Nobody \/ waitingFor[u] >= r}
<1>t. TypeOK /\ CallState /\ QueueExact /\ EdgesKnown
  BY EdgesAreKnown DEF IInv
<1>f. \A u \in Txn : FirstGroup(u)
  BY DEF GroupsAreOrdered
<1>1. pc[t] = "locked" /\ IsNext(t, r) /\ request[t][r] \in Mode /\ waitingFor[t] = Nobody
  BY <1>t DEF MustWait, CallState, QueueExact, IsNext, TypeOK, Mode, NoLock
<1>2. ~Holds(t, r)
  BY <1>1, <1>f DEF MustWait, FirstGroup, StrongEnough, Holds, Mode
<1>3. \A s \in Resource : Holds(t, s) => s < r
  BY <1>1, <1>2, <1>f DEF FirstGroup, Mode, NoLock
<1>4. ASSUME NEW u \in Txn, NEW s \in Resource, Holds(u, s), waitingFor[u] # Nobody
      PROVE  waitingFor[u] \in Resource /\ s < waitingFor[u]
  <2>1. waitingFor[u] \in Resource /\ pc[u] = "waiting" /\ request[u][waitingFor[u]] # NoLock
    BY <1>4, <1>t DEF TypeOK, QueueExact, CallState, IsNext
  <2> QED
    BY <1>4, <2>1, <1>f DEF FirstGroup
<1>5. ASSUME NEW b \in Txn \ {t}, NEW s \in Resource, s >= r, Holds(b, s) PROVE b \in C
  <2>1. CASE waitingFor[b] = Nobody
    BY <2>1
  <2>2. CASE waitingFor[b] # Nobody
    <3>1. waitingFor[b] \in Resource /\ s < waitingFor[b]
      BY <1>5, <2>2, <1>4
    <3>2. waitingFor[b] \in Int /\ s \in Int /\ r \in Int
      BY <3>1
    <3>3. waitingFor[b] >= r
      BY <1>5, <3>1, <3>2
    <3> QED
      BY <3>3
  <2> QED
    BY <2>1, <2>2
<1>6. ASSUME NEW b \in collectBlockers(t, r, request[t][r], waiters[r]) PROVE b \in C
  <2>1. b \in Txn \ {t}
    BY <1>6, <1>t DEF collectBlockers, TypeOK
  <2>2. Holds(b, r) \/ b \in waiters[r]
    BY <1>6 DEF collectBlockers
  <2>3. r >= r
    OBVIOUS
  <2>4. b \in waiters[r] => waitingFor[b] = r
    BY <2>1, <1>t DEF QueueExact
  <2>5. b \in waiters[r] => b \in C
    BY <2>1, <2>3, <2>4
  <2> QED
    BY <2>1, <2>2, <2>3, <2>5, <1>5
<1>7. ASSUME NEW u \in C, NEW v \in Blockers(u) PROVE v \in C
  <2>1. waitingFor[u] \in Resource /\ waitingFor[u] >= r /\ v \in Edges(u, waitingFor[u])
    BY <1>7, <1>t DEF EdgesKnown
  <2>2. v \in Txn /\ (Holds(v, waitingFor[u]) \/ v \in ahead[u])
    BY <2>1, <1>t DEF Edges, TypeOK
  <2>3. CASE Holds(v, waitingFor[u])
    <3>1. ASSUME NEW s \in Resource, s >= r, s < r PROVE FALSE
      <4>1. s \in Int /\ r \in Int
        OBVIOUS
      <4> QED
        BY <3>1, <4>1
    <3>2. v # t
      BY <2>1, <2>3, <3>1, <1>3
    <3> HIDE DEF C
    <3> QED
      BY <3>2, <2>1, <2>2, <2>3, <1>5
  <2>4. CASE v \in ahead[u]
    <3>1. waitingFor[v] = waitingFor[u]
      BY <2>4, <1>t DEF QueueExact
    <3>2. v # t
      BY <3>1, <2>1, <1>1
    <3> QED
      BY <3>1, <3>2, <2>1, <2>2
  <2> QED
    BY <2>2, <2>3, <2>4
<1>8. C \in SUBSET Txn /\ t \notin C
  OBVIOUS
<1> HIDE DEF C
<1> QED
  BY <1>6, <1>7, <1>8 DEF ClosesCycle, reaches

(* Grouped calls never deadlock between themselves: without a transaction  *)
(* in its second call, no request is refused, whatever the groups and      *)
(* their modes.                                                            *)
THEOREM GroupedNeverDeadlockHolds == Spec => GroupedNeverDeadlock
<1> DEFINE Refused == \A t \in Txn : pc[t] = "locked" /\ pc'[t] = "DEADLOCK" =>
                         \E u \in Txn : calls[u] > 1
<1>1. Init => GroupsAreOrdered
  BY DEF Init, GroupsAreOrdered, InCall, FirstGroup, Holds
<1>2. IInv /\ GroupsAreOrdered /\ [Next]_vars => [Refused]_vars
  <2> SUFFICES ASSUME IInv, GroupsAreOrdered, [Next]_vars, NEW t \in Txn, pc[t] = "locked",
                      pc'[t] = "DEADLOCK", \A u \in Txn : ~(calls[u] > 1)
               PROVE  FALSE
    OBVIOUS
  <2>1. TypeOK
    BY DEF IInv
  <2>2. PICK r \in Resource : RefuseDeadlock(t, r)
    <3>1. pc' # pc
      OBVIOUS
    <3>2. ~(UNCHANGED vars)
      BY <3>1 DEF vars
    <3>3. ASSUME NEW u \in Txn,
                 AcquireLocks(u) \/ Acquire(u) \/ Return(u) \/ ReleaseAll(u)
          PROVE  FALSE
      BY <3>3, <2>1 DEF TypeOK, AcquireLocks, Acquire, Return, ReleaseAll
    <3>4. ASSUME NEW u \in Txn, NEW r \in Resource, Step(u, r)
          PROVE  RefuseDeadlock(t, r)
      <4>1. AlreadyHeld(u, r) \/ GrantNow(u, r) \/ GiveUpAtOnce(u, r) \/ Enqueue(u, r)
              \/ WakeGranted(u, r) \/ WakeGivesUp(u, r) => FALSE
        BY <2>1 DEF TypeOK, AlreadyHeld, GrantNow, GiveUpAtOnce, Enqueue, WakeGranted,
           WakeGivesUp
      <4>2. RefuseDeadlock(u, r) => u = t
        BY <2>1 DEF TypeOK, RefuseDeadlock
      <4> QED
        BY <3>4, <4>1, <4>2 DEF Step
    <3> QED
      BY <3>2, <3>3, <3>4 DEF Next
  <2>3. \A u \in Txn : calls[u] <= 1
    BY <2>1, MaxCallsAssumption DEF TypeOK
  <2> QED
    BY <2>2, <2>3, FirstGroupsCloseNoCycle DEF RefuseDeadlock
<1>3. Spec => []GroupsAreOrdered
  BY <1>1, StepGroups, Invariance, PTL DEF Spec
<1> QED
  BY <1>2, <1>3, Invariance, PTL DEF Spec, GroupedNeverDeadlock
============================================================================
