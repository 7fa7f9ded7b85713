------------------------- MODULE TransactionManager -------------------------
(***************************************************************************)
(* The transaction manager (src/src/transaction/transaction_manager.cpp):  *)
(* BEGIN, COMMIT, ROLLBACK and CHECKPOINT of several connections, the gate *)
(* that holds new transactions back, the queue of forced commits (A7), the *)
(* automatic checkpoint requested by a commit and written by the last to   *)
(* leave (A8), and what a crash leaves of the committed transactions.      *)
(*                                                                         *)
(* Every function of the manager runs under its public mutex and gives it  *)
(* up only in its waits and while a checkpoint is written.  `mtx` is the   *)
(* connection that keeps the mutex from one action to the next.            *)
(*                                                                         *)
(* Data is abstracted to the identity of transactions: which are applied   *)
(* in memory, which are in the journal, which are in the image of the last *)
(* checkpoint, and which have left half of their effects behind.  Once a   *)
(* checkpoint has failed, memory no longer matches the files               *)
(* (transaction_manager.h, checkpointFailed): a checkpoint that is written *)
(* all the same finds any part of it, and its image is `wrong`.            *)
(***************************************************************************)
EXTENDS Integers, FiniteSets

CONSTANTS
    Client,         \* connections
    Nobody,         \* no connection
    Kinds,          \* kinds of transactions that are begun (see Kind)
    Configs,        \* configurations of the database (see Config)
    Faults,         \* which calls may fail (see Fault)
    LockWaits,      \* statements may wait for locks of other writers
    MaxTxns,        \* bound: transactions begun
    MaxCheckpoints  \* bound: CHECKPOINT statements made

(* A reader; a writer that journals; a writer whose durability is its own  *)
(* checkpoint (COPY outside the journal); one that in addition has a       *)
(* pre-commit action (CREATE_VECTOR_INDEX).                                *)
Kind == {"READ", "WRITE", "FORCED", "INDEX"}

(* The database has no files; DBConfig::enableMultiWrites. *)
Config == [inMemory : BOOLEAN, multiWrites : BOOLEAN]

(* A commit that throws half-way; a journal whose sync throws once its     *)
(* bytes are written; a rollback that throws half-way; a checkpoint that   *)
(* throws; the death of the process.                                       *)
Fault == {"commit", "journal", "rollback", "checkpoint", "crash"}

ASSUME ConstantsAssumption ==
    /\ IsFiniteSet(Client) /\ Nobody \notin Client
    /\ Kinds \subseteq Kind /\ Faults \subseteq Fault
    /\ Configs \subseteq Config /\ LockWaits \in BOOLEAN
    /\ MaxTxns \in Nat /\ MaxCheckpoints \in Nat

VARIABLES
    config,                  \* the configuration; it never changes
    mtx,                     \* holder of mtxForSerializingPublicFunctionCalls
    client,                  \* per connection: where it is, and its transaction
    active,                  \* connections with a transaction in activeTransactions
    queuedCheckpointCommits, \* A7: forced commits that wait for the pending checkpoint
    commitQueuedNow,
    checkpointPending,
    checkpointWriting,
    autoCheckpointRequested,
    lastTimestamp,
    lastTransactionID,
    lastBlockingTransactionID,
    checkpointsStarted,
    lastCompletedCheckpoint,
    checkpointTS,
    oldestReaderTS,
    checkpointFailed,
    rollbackFailed,
    checkpointCarriesForcedCommit,
    carried,                 \* carriesForcedCommit of the checkpoint being written
    image,                   \* what the checkpoint being written holds
    memory,                  \* transactions whose commit is applied in memory
    half,                    \* transactions of which memory holds a part
    journal,                 \* transactions whose COMMIT is in the journal
    disk,                    \* what the last complete checkpoint holds
    checkpointCalls,         \* CHECKPOINT statements made (bound)
    acked                    \* writes whose COMMIT returned without error

manager == <<queuedCheckpointCommits, commitQueuedNow, checkpointPending,
             checkpointWriting, autoCheckpointRequested>>
numbers == <<lastTimestamp, lastTransactionID, lastBlockingTransactionID,
             checkpointsStarted, lastCompletedCheckpoint, checkpointTS, oldestReaderTS,
             checkpointCalls>>
verdict == <<checkpointFailed, rollbackFailed, checkpointCarriesForcedCommit, carried>>
store == <<image, memory, half, journal, disk, acked>>
vars == <<config, mtx, client, active, manager, numbers, verdict, store>>

----------------------------------------------------------------------------
NoTxn == [pc |-> "idle", kind |-> "READ", id |-> 0, startTS |-> 0, ticket |-> 0,
          purpose |-> "none", lockOf |-> 0]

InMemory == config.inMemory
MultiWrites == config.multiWrites

At(c, l) == client[c].pc = l
Goto(c, l) == client' = [client EXCEPT ![c].pc = l]
End(c) == client' = [client EXCEPT ![c] = NoTxn]

id(c) == client[c].id
isWrite(c) == client[c].kind # "READ"
shouldForceCheckpoint(c) == client[c].kind \in {"FORCED", "INDEX"} /\ ~InMemory
hasPreCommitActions(c) == client[c].kind = "INDEX"
Writers(S) == {c \in S : isWrite(c)}
hasActiveWriteTransaction == Writers(active) # {}
mustReopen == checkpointFailed \/ rollbackFailed

Smallest(S) == CHOOSE x \in S : \A y \in S : x <= y
Largest(S) == CHOOSE x \in S : \A y \in S : x >= y

Init ==
    /\ config \in Configs
    /\ mtx = Nobody
    /\ client = [c \in Client |-> NoTxn]
    /\ active = {}
    /\ queuedCheckpointCommits = {} /\ commitQueuedNow = FALSE
    /\ checkpointPending = FALSE /\ checkpointWriting = FALSE
    /\ autoCheckpointRequested = FALSE
    /\ lastTimestamp = 1 /\ lastTransactionID = 0 /\ lastBlockingTransactionID = 0
    /\ checkpointCalls = 0 /\ checkpointsStarted = 0 /\ lastCompletedCheckpoint = 0
    /\ checkpointTS = 0 /\ oldestReaderTS = 0
    /\ checkpointFailed = FALSE /\ rollbackFailed = FALSE
    /\ checkpointCarriesForcedCommit = FALSE /\ carried = FALSE
    /\ image = [applied |-> {}, half |-> {}, wrong |-> FALSE]
    /\ memory = {} /\ half = {} /\ journal = {}
    /\ disk = [applied |-> {}, half |-> {}, wrong |-> FALSE]
    /\ acked = {}

----------------------------------------------------------------------------
(* BEGIN *)

(* Mutant: writers too come in while the checkpoint is written. *)
heldUntilWriting(k) == checkpointPending /\ ~checkpointWriting

(* waitWhileCheckpointPendingNoLock: a writer is held while a checkpoint   *)
(* is requested, awaited or written, a reader not while it is written.     *)
held(k) == checkpointPending /\ ~(k = "READ" /\ checkpointWriting)

BeginCall(c, k) ==
    /\ At(c, "idle")
    /\ lastTransactionID + Cardinality({d \in Client : At(d, "begin")}) < MaxTxns
    /\ client' = [client EXCEPT ![c] = [@ EXCEPT !.pc = "begin", !.kind = k]]
    /\ UNCHANGED <<config, mtx, active, manager, numbers, verdict, store>>

tooManyWriters(c) == isWrite(c) /\ ~MultiWrites /\ hasActiveWriteTransaction

BeginTransaction(c) ==
    /\ At(c, "begin") /\ mtx = Nobody /\ ~held(client[c].kind)
    /\ ~mustReopen /\ ~tooManyWriters(c)
    /\ lastTransactionID' = lastTransactionID + 1
    /\ client' = [client EXCEPT ![c] = [@ EXCEPT !.pc = "open", !.id = lastTransactionID',
                                                 !.startTS = lastTimestamp]]
    /\ active' = active \cup {c}
    /\ UNCHANGED <<config, mtx, manager, lastTimestamp, lastBlockingTransactionID, checkpointsStarted,
                   lastCompletedCheckpoint, checkpointTS, oldestReaderTS, checkpointCalls, verdict,
                   store>>

BeginRefused(c) ==
    /\ At(c, "begin") /\ mtx = Nobody /\ ~held(client[c].kind)
    /\ mustReopen \/ tooManyWriters(c)
    /\ End(c)
    /\ UNCHANGED <<config, mtx, active, manager, numbers, verdict, store>>

(* Mutant: a held BEGIN gives the request up only when nobody is open. *)
CancelWhenAlone(c) ==
    /\ At(c, "begin") /\ mtx = Nobody /\ held(client[c].kind)
    /\ autoCheckpointRequested /\ active = {}
    /\ autoCheckpointRequested' = FALSE
    /\ checkpointPending' = FALSE
    /\ UNCHANGED <<config, mtx, client, active, queuedCheckpointCommits, commitQueuedNow,
                   checkpointWriting, numbers, verdict, store>>

(* A BEGIN held for AUTO_CHECKPOINT_WAIT gives the request up and notes    *)
(* the transactions that kept it from being served.                        *)
CancelAutoCheckpointRequest(c) ==
    /\ At(c, "begin") /\ mtx = Nobody /\ held(client[c].kind)
    /\ autoCheckpointRequested
    /\ autoCheckpointRequested' = FALSE
    /\ lastBlockingTransactionID' = Largest({lastBlockingTransactionID} \cup {id(d) : d \in active})
    /\ checkpointPending' = FALSE
    /\ UNCHANGED <<config, mtx, client, active, queuedCheckpointCommits, commitQueuedNow,
                   checkpointWriting, lastTimestamp, lastTransactionID, checkpointsStarted,
                   lastCompletedCheckpoint, checkpointTS, oldestReaderTS, checkpointCalls, verdict,
                   store>>

(* Statements of an open transaction *)

(* refreshSnapshot, after the announced locks were waited for. *)
RefreshSnapshot(c) ==
    /\ At(c, "open") /\ mtx = Nobody /\ isWrite(c) /\ client[c].lockOf = 0
    /\ client[c].startTS # lastTimestamp
    /\ client' = [client EXCEPT ![c].startTS = lastTimestamp]
    /\ UNCHANGED <<config, mtx, active, manager, numbers, verdict, store>>

(* A statement waits for a lock that the transaction of d holds to its     *)
(* end.  The lock manager refuses a cycle of lock waits (NoWaitCycle).     *)
LockHolder(c) == {d \in active : id(d) = client[c].lockOf}

lockReaches(d, c) ==
    \A S \in SUBSET Client :
        (d \in S /\ \A e \in S : LockHolder(e) \subseteq S) => c \in S

LockWait(c, d) ==
    /\ LockWaits
    /\ At(c, "open") /\ isWrite(c) /\ client[c].lockOf = 0
    /\ d \in Writers(active) \ {c} /\ ~lockReaches(d, c)
    /\ client' = [client EXCEPT ![c].lockOf = id(d)]
    /\ UNCHANGED <<config, mtx, active, manager, numbers, verdict, store>>

LockGranted(c) ==
    /\ client[c].lockOf # 0 /\ LockHolder(c) = {}
    /\ client' = [client EXCEPT ![c].lockOf = 0]
    /\ UNCHANGED <<config, mtx, active, manager, numbers, verdict, store>>

LockTimeout(c) ==
    /\ LockHolder(c) # {}
    /\ client' = [client EXCEPT ![c] = [@ EXCEPT !.lockOf = 0, !.pc = "mustRollback"]]
    /\ UNCHANGED <<config, mtx, active, manager, numbers, verdict, store>>

(* A statement of an explicit write transaction failed: its effects are    *)
(* undone now, the transaction stays open for its ROLLBACK.                *)
FailAfterStatement(c) ==
    /\ At(c, "open") /\ mtx = Nobody /\ isWrite(c) /\ client[c].lockOf = 0
    /\ \/ UNCHANGED <<half, rollbackFailed>>
       \/ /\ "rollback" \in Faults
          /\ half' = half \cup {id(c)}
          /\ rollbackFailed' = TRUE
    /\ Goto(c, "failedStatement")
    /\ UNCHANGED <<config, mtx, active, manager, numbers, checkpointFailed,
                   checkpointCarriesForcedCommit, carried, image, memory, journal, disk, acked>>

----------------------------------------------------------------------------
(* COMMIT *)

Running(c) == At(c, "open") /\ mtx = Nobody /\ client[c].lockOf = 0

(* Transaction::commit applied it in memory, and journaled it unless its   *)
(* durability is a checkpoint.                                             *)
applyCommit(c) ==
    /\ lastTimestamp' = lastTimestamp + 1
    /\ memory' = memory \cup {id(c)}
    /\ active' = active \ {c}
    /\ journal' = IF shouldForceCheckpoint(c) \/ InMemory THEN journal
                  ELSE journal \cup {id(c)}

(* Transaction::commit threw: part of it is applied, and it stays active.  *)
(* If it is the sync that threw, the journal has its bytes.                *)
commitThrows(c) ==
    /\ lastTimestamp' = lastTimestamp + 1
    /\ half' = half \cup {id(c)}
    /\ \/ "commit" \in Faults /\ UNCHANGED journal
       \/ /\ "journal" \in Faults /\ ~shouldForceCheckpoint(c) /\ ~InMemory
          /\ journal' = journal \cup {id(c)}

(* Everything of the group "numbers" but the timestamp. *)
otherNumbers == <<lastTransactionID, lastBlockingTransactionID, checkpointsStarted,
                  lastCompletedCheckpoint, checkpointTS, oldestReaderTS, checkpointCalls>>

CommitRead(c) ==
    /\ Running(c) /\ ~isWrite(c)
    /\ active' = active \ {c}
    /\ mtx' = c
    /\ Goto(c, "leaving")
    /\ UNCHANGED <<config, manager, numbers, verdict, store>>

commitsAtOnce(c) ==
    /\ Running(c) /\ isWrite(c) /\ ~shouldForceCheckpoint(c)
    /\ ~hasPreCommitActions(c)

CommitWrite(c) ==
    /\ commitsAtOnce(c)
    /\ applyCommit(c)
    /\ mtx' = c
    /\ Goto(c, "committed")
    /\ UNCHANGED <<config, manager, otherNumbers, verdict, image, half, disk, acked>>

CommitWriteThrows(c) ==
    /\ commitsAtOnce(c)
    /\ commitThrows(c)
    /\ Goto(c, "mustRollback")
    /\ UNCHANGED <<config, mtx, active, manager, otherNumbers, verdict, image, memory, disk, acked>>

(* After a commit that is not forced.  Below the threshold, with a         *)
(* checkpoint pending, or behind a transaction that already made one give  *)
(* up, there is no checkpoint.                                             *)
NoCheckpointNow(c) ==
    /\ At(c, "committed") /\ mtx = c
    /\ Goto(c, "leaving")
    /\ UNCHANGED <<config, mtx, active, manager, numbers, verdict, store>>

AutoCheckpointNow(c) ==
    /\ At(c, "committed") /\ mtx = c /\ ~InMemory
    /\ ~checkpointPending /\ ~hasActiveWriteTransaction
    /\ checkpointPending' = TRUE
    /\ client' = [client EXCEPT ![c] = [@ EXCEPT !.pc = "start", !.purpose = "auto"]]
    /\ UNCHANGED <<config, mtx, active, queuedCheckpointCommits, commitQueuedNow, checkpointWriting,
                   autoCheckpointRequested, numbers, verdict, store>>

(* A8: others are open; they will write it when the last writer leaves. *)
AutoCheckpointRequest(c) ==
    /\ At(c, "committed") /\ mtx = c /\ ~InMemory
    /\ ~checkpointPending /\ hasActiveWriteTransaction
    /\ \A d \in active : id(d) > lastBlockingTransactionID
    /\ checkpointPending' = TRUE
    /\ autoCheckpointRequested' = TRUE
    /\ Goto(c, "leaving")
    /\ UNCHANGED <<config, mtx, active, queuedCheckpointCommits, commitQueuedNow, checkpointWriting,
                   numbers, verdict, store>>

(* writeRequestedCheckpointIfLastNoLock *)
lastToLeave == autoCheckpointRequested /\ ~hasActiveWriteTransaction

LeaveAndWrite(c) ==
    /\ At(c, "leaving") /\ mtx = c /\ lastToLeave
    /\ autoCheckpointRequested' = FALSE
    /\ client' = [client EXCEPT ![c] = [@ EXCEPT !.pc = "start", !.purpose = "last"]]
    /\ UNCHANGED <<config, mtx, active, queuedCheckpointCommits, commitQueuedNow, checkpointPending,
                   checkpointWriting, numbers, verdict, store>>

acknowledge(c) == acked' = IF isWrite(c) THEN acked \cup {id(c)} ELSE acked

Leave(c) ==
    /\ At(c, "leaving") /\ mtx = c /\ ~lastToLeave
    /\ acknowledge(c)
    /\ mtx' = Nobody
    /\ End(c)
    /\ UNCHANGED <<config, active, manager, numbers, verdict, image, memory, half, journal, disk>>

----------------------------------------------------------------------------
(* stopNewTransactionsAndWaitForOthersNoLock *)

(* It closes the gate, taking over an automatic request, or waits for the  *)
(* checkpoint that has closed it.                                          *)
stopNewTransactions(c, p) ==
    IF checkpointPending /\ ~autoCheckpointRequested
    THEN /\ client' = [client EXCEPT ![c] = [@ EXCEPT !.pc = "gate", !.purpose = p]]
         /\ mtx' = Nobody
         /\ UNCHANGED <<checkpointPending, autoCheckpointRequested>>
    ELSE /\ client' = [client EXCEPT ![c] = [@ EXCEPT !.pc = "drain", !.purpose = p]]
         /\ mtx' = c
         /\ checkpointPending' = TRUE
         /\ autoCheckpointRequested' = FALSE

PassGate(c) ==
    /\ At(c, "gate") /\ mtx = Nobody /\ ~checkpointPending
    /\ checkpointPending' = TRUE
    /\ mtx' = c
    /\ Goto(c, "drain")
    /\ UNCHANGED <<config, active, queuedCheckpointCommits, commitQueuedNow, checkpointWriting,
                   autoCheckpointRequested, numbers, verdict, store>>

(* A forced commit and a pre-commit action stay and wait for everybody; a  *)
(* plain checkpoint waits for the writers.                                 *)
staysActive(c) == client[c].purpose \in {"forced", "alone"}

awaited(c) == IF staysActive(c) THEN active \ {c} ELSE Writers(active)
afterDrain(c) == IF staysActive(c) THEN "ready" ELSE "start"

DrainWait(c) ==
    /\ At(c, "drain") /\ mtx = c
    /\ ~(awaited(c) \subseteq queuedCheckpointCommits)
    /\ mtx' = Nobody
    /\ UNCHANGED <<config, client, active, manager, numbers, verdict, store>>

(* Only queued commits are left: none, or they commit now and are awaited. *)
Drained(c) ==
    /\ At(c, "drain") /\ mtx \in {Nobody, c}
    /\ awaited(c) \subseteq queuedCheckpointCommits
    /\ IF queuedCheckpointCommits = {}
       THEN mtx' = c /\ Goto(c, afterDrain(c)) /\ UNCHANGED commitQueuedNow
       ELSE mtx' = Nobody /\ Goto(c, "drainQueue") /\ commitQueuedNow' = TRUE
    /\ UNCHANGED <<config, active, queuedCheckpointCommits, checkpointPending, checkpointWriting,
                   autoCheckpointRequested, numbers, verdict, store>>

(* Mutant: the queue has to be empty, its commits need not have left. *)
QueueEmptied(c) ==
    /\ At(c, "drainQueue") /\ mtx = Nobody /\ queuedCheckpointCommits = {}
    /\ commitQueuedNow' = FALSE
    /\ mtx' = c
    /\ Goto(c, afterDrain(c))
    /\ UNCHANGED <<config, active, queuedCheckpointCommits, checkpointPending, checkpointWriting,
                   autoCheckpointRequested, numbers, verdict, store>>

QueueDrained(c) ==
    /\ At(c, "drainQueue") /\ mtx = Nobody /\ awaited(c) = {}
    /\ commitQueuedNow' = FALSE
    /\ mtx' = c
    /\ Goto(c, afterDrain(c))
    /\ UNCHANGED <<config, active, queuedCheckpointCommits, checkpointPending, checkpointWriting,
                   autoCheckpointRequested, numbers, verdict, store>>

(* The error of a transaction that is still active makes it roll back; a   *)
(* CHECKPOINT, or the checkpoint of a commit already done, ends with it.   *)
giveUp(c) == IF staysActive(c) THEN Goto(c, "mustRollback") ELSE End(c)

(* Either wait of the two is bounded by checkpointWaitTimeoutInMicros. *)
DrainTimeout(c) ==
    /\ mtx = Nobody
    /\ \/ At(c, "drain") /\ ~(awaited(c) \subseteq queuedCheckpointCommits)
       \/ At(c, "drainQueue") /\ awaited(c) # {}
    /\ commitQueuedNow' = (commitQueuedNow /\ At(c, "drain"))
    /\ checkpointPending' = FALSE
    /\ giveUp(c)
    /\ UNCHANGED <<config, mtx, active, queuedCheckpointCommits, checkpointWriting,
                   autoCheckpointRequested, numbers, verdict, store>>

----------------------------------------------------------------------------
(* A forced commit takes over an automatic request; behind any other       *)
(* pending checkpoint it queues (A7); otherwise it closes the gate.        *)
CommitForced(c) ==
    /\ Running(c) /\ shouldForceCheckpoint(c)
    /\ IF checkpointPending /\ ~autoCheckpointRequested
       THEN /\ queuedCheckpointCommits' = queuedCheckpointCommits \cup {c}
            /\ Goto(c, "queued")
            /\ UNCHANGED <<mtx, checkpointPending, autoCheckpointRequested>>
       ELSE /\ stopNewTransactions(c, "forced")
            /\ UNCHANGED queuedCheckpointCommits
    /\ UNCHANGED <<config, active, commitQueuedNow, checkpointWriting, numbers, verdict, store>>

(* A commit with a pre-commit action and no checkpoint (waitsWithout-      *)
(* Checkpoint).                                                            *)
CommitAlone(c) ==
    /\ Running(c) /\ InMemory /\ hasPreCommitActions(c)
    /\ stopNewTransactions(c, "alone")
    /\ UNCHANGED <<config, active, queuedCheckpointCommits, commitQueuedNow, checkpointWriting,
                   numbers, verdict, store>>

(* Mutant: CHECKPOINT does not ask whether the database has to be reopened. *)
CheckpointAnyway(c) ==
    /\ At(c, "idle") /\ mtx = Nobody /\ ~InMemory
    /\ checkpointCalls < MaxCheckpoints /\ checkpointCalls' = checkpointCalls + 1
    /\ stopNewTransactions(c, "explicit")
    /\ UNCHANGED <<config, active, queuedCheckpointCommits, commitQueuedNow, checkpointWriting,
                   lastTimestamp, lastTransactionID, lastBlockingTransactionID,
                   checkpointsStarted, lastCompletedCheckpoint, checkpointTS, oldestReaderTS,
                   verdict, store>>

(* CHECKPOINT *)
Checkpoint(c) ==
    /\ At(c, "idle") /\ mtx = Nobody /\ ~InMemory
    /\ ~mustReopen
    /\ checkpointCalls < MaxCheckpoints /\ checkpointCalls' = checkpointCalls + 1
    /\ stopNewTransactions(c, "explicit")
    /\ UNCHANGED <<config, active, queuedCheckpointCommits, commitQueuedNow, checkpointWriting,
                   lastTimestamp, lastTransactionID, lastBlockingTransactionID,
                   checkpointsStarted, lastCompletedCheckpoint, checkpointTS, oldestReaderTS,
                   verdict, store>>

(* The others have left: the commit that waited for them. *)
ReadyCommit(c) ==
    /\ At(c, "ready") /\ mtx = c
    /\ applyCommit(c)
    /\ IF shouldForceCheckpoint(c)
       THEN /\ checkpointCarriesForcedCommit' = TRUE
            /\ Goto(c, "start")
            /\ UNCHANGED checkpointPending
       ELSE /\ checkpointPending' = FALSE
            /\ Goto(c, "leaving")
            /\ UNCHANGED checkpointCarriesForcedCommit
    /\ UNCHANGED <<config, mtx, queuedCheckpointCommits, commitQueuedNow, checkpointWriting,
                   autoCheckpointRequested, otherNumbers, checkpointFailed, rollbackFailed,
                   carried, image, half, disk, acked>>

ReadyCommitThrows(c) ==
    /\ At(c, "ready") /\ mtx = c
    /\ commitThrows(c)
    /\ checkpointPending' = FALSE
    /\ mtx' = Nobody
    /\ Goto(c, "mustRollback")
    /\ UNCHANGED <<config, active, queuedCheckpointCommits, commitQueuedNow, checkpointWriting,
                   autoCheckpointRequested, otherNumbers, verdict, image, memory, disk, acked>>

(* commitInCheckpointQueueNoLock *)

(* Mutant: it commits and stays in the queue. *)
QueueCommitStays(c) ==
    /\ At(c, "queued") /\ mtx = Nobody /\ commitQueuedNow /\ ~checkpointFailed
    /\ applyCommit(c)
    /\ checkpointCarriesForcedCommit' = TRUE
    /\ client' = [client EXCEPT ![c] = [@ EXCEPT !.pc = "queueDone", !.ticket = checkpointsStarted]]
    /\ UNCHANGED <<config, mtx, manager, otherNumbers, checkpointFailed, rollbackFailed,
                   carried, image, half, disk, acked>>

(* Its turn: it commits in memory, and takes the number of the checkpoint  *)
(* that must have started after it.                                        *)
QueueCommit(c) ==
    /\ At(c, "queued") /\ mtx = Nobody /\ commitQueuedNow /\ ~checkpointFailed
    /\ applyCommit(c)
    /\ checkpointCarriesForcedCommit' = TRUE
    /\ queuedCheckpointCommits' = queuedCheckpointCommits \ {c}
    /\ client' = [client EXCEPT ![c] = [@ EXCEPT !.pc = "queueDone", !.ticket = checkpointsStarted]]
    /\ UNCHANGED <<config, mtx, commitQueuedNow, checkpointPending, checkpointWriting,
                   autoCheckpointRequested, otherNumbers, checkpointFailed, rollbackFailed,
                   carried, image, half, disk, acked>>

QueueCommitThrows(c) ==
    /\ At(c, "queued") /\ mtx = Nobody /\ commitQueuedNow /\ ~checkpointFailed
    /\ commitThrows(c)
    /\ queuedCheckpointCommits' = queuedCheckpointCommits \ {c}
    /\ Goto(c, "mustRollback")
    /\ UNCHANGED <<config, mtx, active, commitQueuedNow, checkpointPending, checkpointWriting,
                   autoCheckpointRequested, otherNumbers, verdict, image, memory, disk, acked>>

(* The pending checkpoint failed or gave up before its turn: nothing is    *)
(* committed, it takes the ordinary way.                                   *)
QueueAbandoned(c) ==
    /\ At(c, "queued") /\ mtx = Nobody
    /\ checkpointFailed \/ (~checkpointPending /\ ~commitQueuedNow)
    /\ queuedCheckpointCommits' = queuedCheckpointCommits \ {c}
    /\ IF mustReopen
       THEN Goto(c, "mustRollback")
            /\ UNCHANGED <<mtx, checkpointPending, autoCheckpointRequested>>
       ELSE stopNewTransactions(c, "forced")
    /\ UNCHANGED <<config, active, commitQueuedNow, checkpointWriting, numbers, verdict, store>>

(* Mutant: the checkpoint before it is taken for one that contains it. *)
QueueServedTooSoon(c) ==
    /\ At(c, "queueDone") /\ mtx = Nobody
    /\ lastCompletedCheckpoint >= client[c].ticket
    /\ End(c)
    /\ IF mustReopen THEN UNCHANGED acked ELSE acknowledge(c)
    /\ UNCHANGED <<config, mtx, active, manager, numbers, verdict, image, memory, half, journal, disk>>

(* Committed in memory: a checkpoint that started after it is complete, or *)
(* it failed, or none will come and the commit writes its own.             *)
QueueServed(c) ==
    /\ At(c, "queueDone") /\ mtx = Nobody
    /\ lastCompletedCheckpoint > client[c].ticket \/ checkpointFailed \/ ~checkpointPending
    /\ IF mustReopen \/ lastCompletedCheckpoint > client[c].ticket
       THEN /\ End(c)
            /\ IF mustReopen THEN UNCHANGED acked ELSE acknowledge(c)
            /\ UNCHANGED <<mtx, checkpointPending, autoCheckpointRequested>>
       ELSE stopNewTransactions(c, "own") /\ UNCHANGED acked
    /\ UNCHANGED <<config, active, queuedCheckpointCommits, commitQueuedNow, checkpointWriting, numbers,
                   verdict, image, memory, half, journal, disk>>

----------------------------------------------------------------------------
(* checkpointNoLock, once the gate is closed and the writers are gone *)

(* Mutant: nobody's snapshot is looked at. *)
newestSnapshot == lastTimestamp

(* F: the oldest snapshot still open. *)
oldestSnapshot == Smallest({lastTimestamp} \cup {client[d].startTS : d \in active})

(* What a checkpoint finds of the commits applied in memory: all, or after *)
(* one that failed whatever that one has left of them.                     *)
readable == IF checkpointFailed THEN SUBSET memory ELSE {memory}

(* T, F and the number of the checkpoint are set, and the mutex is given   *)
(* up for the writing.  What is written is what memory holds: the commits, *)
(* and whatever an unfinished transaction has left in it.  checkpointFailed *)
(* is not looked at: only CHECKPOINT does so, before it comes to the gate. *)
StartCheckpoint(c) ==
    /\ At(c, "start") /\ mtx = c
    /\ checkpointTS' = lastTimestamp
    /\ oldestReaderTS' = oldestSnapshot
    /\ checkpointsStarted' = checkpointsStarted + 1
    /\ carried' = checkpointCarriesForcedCommit
    /\ checkpointCarriesForcedCommit' = FALSE
    /\ checkpointWriting' = TRUE
    /\ \E found \in readable :
           image' = [applied |-> found, half |-> half \cup {id(d) : d \in Writers(active)},
                     wrong |-> disk.wrong \/ checkpointFailed]
    /\ mtx' = Nobody
    /\ Goto(c, "writing")
    /\ UNCHANGED <<config, active, queuedCheckpointCommits, commitQueuedNow, checkpointPending,
                   autoCheckpointRequested, lastTimestamp, lastTransactionID,
                   lastBlockingTransactionID, lastCompletedCheckpoint, checkpointCalls,
                   checkpointFailed, rollbackFailed, memory, half, journal, disk, acked>>

(* The image is on disk and the journal is emptied with it. *)
installImage == disk' = image /\ journal' = {}

writingEnds(c) ==
    /\ At(c, "writing") /\ mtx = Nobody
    /\ checkpointWriting' = FALSE
    /\ checkpointPending' = FALSE
    /\ End(c)

CheckpointDone(c) ==
    /\ writingEnds(c)
    /\ installImage
    /\ lastCompletedCheckpoint' = checkpointsStarted
    /\ acknowledge(c)
    /\ UNCHANGED <<config, mtx, active, queuedCheckpointCommits, commitQueuedNow,
                   autoCheckpointRequested, lastTimestamp, lastTransactionID,
                   lastBlockingTransactionID, checkpointsStarted, checkpointTS, oldestReaderTS,
                   checkpointCalls, verdict, image, memory, half>>

(* Mutant: the database stays open whatever the checkpoint carries. *)
CheckpointRefusedForced(c) ==
    /\ "checkpoint" \in Faults
    /\ writingEnds(c)
    /\ UNCHANGED <<config, mtx, active, queuedCheckpointCommits, commitQueuedNow,
                   autoCheckpointRequested, numbers, verdict, store>>

(* It threw before it changed anything that is served, and carries no      *)
(* forced commit: the database stays open.                                 *)
CheckpointRefused(c) ==
    /\ "checkpoint" \in Faults /\ ~carried
    /\ writingEnds(c)
    /\ UNCHANGED <<config, mtx, active, queuedCheckpointCommits, commitQueuedNow,
                   autoCheckpointRequested, numbers, verdict, store>>

(* It threw otherwise, before its mark was in the journal or after.        *)
CheckpointFails(c) ==
    /\ "checkpoint" \in Faults
    /\ writingEnds(c)
    /\ checkpointFailed' = TRUE
    /\ installImage \/ UNCHANGED <<disk, journal>>
    /\ UNCHANGED <<config, mtx, active, queuedCheckpointCommits, commitQueuedNow,
                   autoCheckpointRequested, numbers, rollbackFailed,
                   checkpointCarriesForcedCommit, carried, image, memory, half, acked>>

----------------------------------------------------------------------------
(* ROLLBACK *)

(* A rollback that leaves nobody behind gives an automatic request up. *)
cancelIfLast ==
    IF autoCheckpointRequested /\ active' = {}
    THEN autoCheckpointRequested' = FALSE /\ checkpointPending' = FALSE
    ELSE UNCHANGED <<autoCheckpointRequested, checkpointPending>>

leavesByRollback(c) ==
    /\ client[c].pc \in {"open", "failedStatement", "mustRollback"}
    /\ mtx = Nobody /\ client[c].lockOf = 0
    /\ active' = active \ {c}
    /\ cancelIfLast
    /\ End(c)
    /\ UNCHANGED <<config, mtx, queuedCheckpointCommits, commitQueuedNow, checkpointWriting, numbers,
                   checkpointFailed, checkpointCarriesForcedCommit, carried,
                   image, memory, journal, disk, acked>>

(* The undo of a failed statement is not run again. *)
Rollback(c) ==
    /\ leavesByRollback(c)
    /\ half' = IF At(c, "failedStatement") THEN half ELSE half \ {id(c)}
    /\ UNCHANGED rollbackFailed

(* The undo threw half-way: the transaction leaves all the same. *)
RollbackThrows(c) ==
    /\ "rollback" \in Faults /\ isWrite(c) /\ ~At(c, "failedStatement")
    /\ leavesByRollback(c)
    /\ half' = half \cup {id(c)}
    /\ rollbackFailed' = TRUE

(* The process dies and the database is opened again: the journal is       *)
(* replayed over the last complete checkpoint.  A checkpoint being written *)
(* counts or does not.                                                     *)
Crash ==
    /\ "crash" \in Faults /\ ~InMemory
    /\ (checkpointWriting /\ installImage) \/ UNCHANGED <<disk, journal>>
    /\ memory' = disk'.applied \cup journal'
    /\ half' = disk'.half
    /\ mtx' = Nobody
    /\ client' = [c \in Client |-> NoTxn]
    /\ active' = {}
    /\ queuedCheckpointCommits' = {} /\ commitQueuedNow' = FALSE
    /\ checkpointPending' = FALSE /\ checkpointWriting' = FALSE
    /\ autoCheckpointRequested' = FALSE
    /\ lastTimestamp' = 1 /\ lastBlockingTransactionID' = 0
    /\ checkpointsStarted' = 0 /\ lastCompletedCheckpoint' = 0
    /\ checkpointTS' = 0 /\ oldestReaderTS' = 0
    /\ checkpointFailed' = FALSE /\ rollbackFailed' = FALSE
    /\ checkpointCarriesForcedCommit' = FALSE /\ carried' = FALSE
    /\ image' = [applied |-> {}, half |-> {}, wrong |-> FALSE]
    /\ UNCHANGED <<config, lastTransactionID, checkpointCalls, acked>>

----------------------------------------------------------------------------
(* What a connection asks for. *)
Ask(c) ==
    \/ \E k \in Kinds : BeginCall(c, k)
    \/ RefreshSnapshot(c) \/ \E d \in Client : LockWait(c, d)
    \/ FailAfterStatement(c)
    \/ CommitRead(c) \/ CommitWrite(c) \/ CommitWriteThrows(c)
    \/ CommitForced(c) \/ CommitAlone(c)
    \/ Checkpoint(c)

(* What the manager does for it. *)
Serve(c) ==
    \/ BeginTransaction(c) \/ BeginRefused(c) \/ CancelAutoCheckpointRequest(c)
    \/ LockGranted(c) \/ LockTimeout(c)
    \/ NoCheckpointNow(c) \/ AutoCheckpointNow(c) \/ AutoCheckpointRequest(c)
    \/ LeaveAndWrite(c) \/ Leave(c)
    \/ PassGate(c) \/ DrainWait(c) \/ Drained(c) \/ QueueDrained(c) \/ DrainTimeout(c)
    \/ ReadyCommit(c) \/ ReadyCommitThrows(c)
    \/ QueueCommit(c) \/ QueueCommitThrows(c) \/ QueueAbandoned(c) \/ QueueServed(c)
    \/ StartCheckpoint(c) \/ CheckpointDone(c) \/ CheckpointRefused(c) \/ CheckpointFails(c)

Abort(c) == Rollback(c) \/ RollbackThrows(c)

Next == (\E c \in Client : Ask(c) \/ Serve(c) \/ Abort(c)) \/ Crash

Spec == Init /\ [][Next]_vars

(* The manager serves whoever waits; timeouts fire; a transaction whose    *)
(* statement or commit failed is rolled back.  Nothing makes a connection  *)
(* end a healthy transaction.                                              *)
Fairness ==
    \A c \in Client : WF_vars(Serve(c)) /\ WF_vars(At(c, "mustRollback") /\ Abort(c))

FairSpec == Spec /\ Fairness

----------------------------------------------------------------------------
(* The fields of the manager, of the connections and of the files. *)
Pc == {"idle", "begin", "open", "failedStatement", "mustRollback", "committed", "leaving",
       "gate", "drain", "drainQueue", "ready", "queued", "queueDone", "start", "writing"}
Purpose == {"none", "auto", "last", "forced", "alone", "explicit", "own"}
Image == [applied : SUBSET (1 .. MaxTxns), half : SUBSET (1 .. MaxTxns), wrong : BOOLEAN]

Connection == [pc : Pc, kind : Kind, id : 0 .. MaxTxns, startTS : Nat, ticket : Nat,
               purpose : Purpose, lockOf : 0 .. MaxTxns]

TypeOK ==
    /\ config \in Configs
    /\ mtx \in Client \cup {Nobody}
    /\ client \in [Client -> Connection]
    /\ active \subseteq Client /\ queuedCheckpointCommits \subseteq active
    /\ commitQueuedNow \in BOOLEAN /\ checkpointPending \in BOOLEAN
    /\ checkpointWriting \in BOOLEAN /\ autoCheckpointRequested \in BOOLEAN
    /\ checkpointFailed \in BOOLEAN /\ rollbackFailed \in BOOLEAN
    /\ checkpointCarriesForcedCommit \in BOOLEAN /\ carried \in BOOLEAN
    /\ lastTimestamp \in Nat /\ lastTransactionID \in 0 .. MaxTxns
    /\ lastBlockingTransactionID \in 0 .. MaxTxns
    /\ checkpointsStarted \in Nat /\ lastCompletedCheckpoint \in Nat
    /\ checkpointTS \in Nat /\ oldestReaderTS \in Nat
    /\ checkpointCalls \in 0 .. MaxCheckpoints
    /\ image \in Image /\ disk \in Image
    /\ memory \subseteq 1 .. MaxTxns /\ half \subseteq 1 .. MaxTxns
    /\ journal \subseteq 1 .. MaxTxns /\ acked \subseteq 1 .. MaxTxns

(* "No committed transaction is lost" (throwIfCheckpointFailedNoLock): a   *)
(* COMMIT that returned without error survives a crash at any moment,      *)
(* whether the journal or a checkpoint carries it and whatever checkpoint  *)
(* failed before, as long as none was written from memory that a failed    *)
(* one had left (see FailuresStayInMemory).                                *)
AckedIsDurable == ~InMemory /\ ~disk.wrong => acked \subseteq disk.applied \cup journal

(* How far the refusal goes: after a failed checkpoint nobody comes to     *)
(* write one any more, so that only a CHECKPOINT that already stood at the *)
(* gate can bring wrong memory to the disk.                                *)
WantsCheckpoint(c) ==
    client[c].pc \in {"gate", "drain", "drainQueue", "ready", "start", "writing"}
OnlyTheGateOutlivesFailure ==
    [][/\ checkpointFailed => \A c \in Client : WantsCheckpoint(c)' => WantsCheckpoint(c)
       /\ disk'.wrong => disk.wrong \/ checkpointFailed]_vars

(* A checkpoint never makes a part of a transaction durable: not of one    *)
(* still open, not of a commit that threw and waits for its rollback; only *)
(* a rollback that did not complete in this process can add one.           *)
HalfOnlyAfterFailedRollback == [][~rollbackFailed => disk'.half \subseteq disk.half]_vars

(* transaction_manager.h says of checkpointFailed that "every transaction  *)
(* and every checkpoint is refused until the database is reopened", since  *)
(* "a later checkpoint would make it durable", and of rollbackFailed that  *)
(* the database is refused in the same way: neither what a failed          *)
(* checkpoint left of memory nor a half-undone transaction reaches the     *)
(* disk.  Of this the least: no disk ever shows both.                      *)
FailuresStayInMemory == disk.half = {} \/ ~disk.wrong

(* While a checkpoint is written no writer is open and nothing is          *)
(* committed: emptying the journal at its end drops nothing.               *)
NothingCommitsWhileWriting ==
    checkpointWriting =>
        /\ Writers(active) = {} /\ lastTimestamp = checkpointTS
        /\ ~image.wrong => journal \cap memory \subseteq image.applied

(* Every snapshot open while a checkpoint is written is one for which the  *)
(* old generation of the blocks is kept (at or after F).                   *)
OpenSnapshotsAreKept ==
    checkpointWriting => \A c \in active : client[c].startTS >= oldestReaderTS

(* The gate has one owner at most, and an automatic request has none: its  *)
(* BEGINs can always be let through.                                       *)
Owners == {c \in Client : client[c].pc \in {"drain", "drainQueue", "ready", "start", "writing"}}
GateHasOneOwner ==
    /\ Cardinality(Owners) <= 1
    /\ (checkpointPending /\ ~autoCheckpointRequested) <=> Owners # {}
    /\ autoCheckpointRequested => checkpointPending

(* A transaction that others wait for never waits for them at the gate:    *)
(* only CHECKPOINT and commits already done stand there.  In memory, two   *)
(* commits with a pre-commit action do meet, until the first gives up.     *)
NobodyActiveAtGate ==
    \A c \in Client : At(c, "gate") /\ client[c].purpose # "alone" => c \notin active

(* The gate: one owner, nobody that others wait for stands at it, and      *)
(* behind it nothing is committed while the checkpoint is written.         *)
GateIsSound == GateHasOneOwner /\ NobodyActiveAtGate /\ NothingCommitsWhileWriting

(* Where only one writer is allowed, a write becomes durable in the journal *)
(* only on top of durable writes, whatever fails: no forced commit that    *)
(* lives in memory alone is behind it.                                     *)
SingleWriterStandsOnDurable ==
    [][~MultiWrites /\ journal \subseteq journal' /\ journal # journal' =>
          memory \subseteq disk.applied \cup journal]_vars

(* A pre-commit action runs once the other transactions have left          *)
(* (transaction.h, addPreCommitAction), except in the queue, where the     *)
(* owner of the checkpoint and the other queued commits are still there.   *)
PreCommitRunsAlone ==
    [][\A c \in active :
          hasPreCommitActions(c) /\ ~At(c, "queued") /\ id(c) \in memory' \ memory =>
              active = {c}]_vars

(* What a commit may stand on, and whom it may meet.                       *)
CommitsAreOrderly == SingleWriterStandsOnDurable /\ PreCommitRunsAlone

(* A held BEGIN is let through or refused in the end, although nobody ends *)
(* the transactions that are open.                                         *)
HeldBeginProceeds == \A c \in Client : At(c, "begin") ~> ~At(c, "begin")

(* No commit and no CHECKPOINT waits for ever: neither in the queue, nor   *)
(* for the others, nor at the gate, unless an automatic request closes the *)
(* gate again: a queued commit may then stay in the queue for ever.        *)
NobodyWaitsForever ==
    \A c \in Client :
        client[c].pc \in {"queued", "queueDone", "gate", "drain", "drainQueue"}
            ~> client[c].pc \in {"idle", "mustRollback", "writing"} \/ autoCheckpointRequested

(* Whoever waits for the manager comes out of it.                          *)
EveryWaitEnds == HeldBeginProceeds /\ NobodyWaitsForever
============================================================================
