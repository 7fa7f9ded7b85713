---------------------- MODULE TransactionManagerProofs ----------------------
(***************************************************************************)
(* Theorems about TransactionManager, for any finite set of connections    *)
(* and any bounds: what a COMMIT acknowledged is durable, the gate and the *)
(* checkpoint it protects are sound, open snapshots are kept, only a       *)
(* rollback that failed leaves a half on disk, commits are orderly, and    *)
(* only a CHECKPOINT at the gate outlives a failed one.                    *)
(*                                                                         *)
(* One inductive invariant, IInv, carries them all.  Its conjuncts say     *)
(* what the position of each connection means for the fields of the        *)
(* manager (ActiveInv .. AloneInv), which numbers transactions have        *)
(* (IdInv, BoundInv), and what memory, journal and disk hold relative to   *)
(* each other (WritingInv .. SingleInv).  There is one lemma per action.   *)
(***************************************************************************)
EXTENDS TransactionManager, TLAPS, FiniteSetTheorems, WellFoundedInduction

(* The transaction of a connection is in activeTransactions. *)
isActive(c) ==
    \/ client[c].pc \in {"open", "failedStatement", "mustRollback", "queued", "ready"}
    \/ client[c].pc \in {"gate", "drain", "drainQueue"} /\ staysActive(c)

(* It is committed in memory, and its COMMIT has not returned. *)
isCommitted(c) ==
    /\ isWrite(c)
    /\ \/ client[c].pc \in {"committed", "leaving", "start", "writing", "queueDone"}
       \/ client[c].pc \in {"gate", "drain", "drainQueue"} /\ ~staysActive(c)

(* Who is active follows from where the connections are. *)
ActiveInv == active = {c \in Client : isActive(c)}

(* What a connection stopped for fits its transaction and its position. *)
PurposeInv == \A c \in Client :
    /\ At(c, "idle") => client[c] = NoTxn
    /\ client[c].lockOf # 0 => At(c, "open") /\ isWrite(c)
    /\ At(c, "gate") => client[c].purpose \in {"alone", "explicit", "own"}
    /\ client[c].pc \in {"drain", "drainQueue"} =>
           client[c].purpose \in {"forced", "alone", "explicit", "own"}
    /\ At(c, "ready") => staysActive(c)
    /\ client[c].pc \in {"gate", "drain", "drainQueue", "ready"} =>
           /\ client[c].purpose = "forced" => shouldForceCheckpoint(c)
           /\ client[c].purpose = "alone" => InMemory /\ isWrite(c)
    /\ At(c, "queued") => shouldForceCheckpoint(c)
    /\ At(c, "queueDone") => isWrite(c)

(* Who keeps the public mutex between two steps is in the middle of one of *)
(* the functions that do.                                                  *)
MtxInv ==
    /\ mtx # Nobody => client[mtx].pc \in {"committed", "leaving", "ready", "start", "drain"}
    /\ \A c \in Client :
           client[c].pc \in {"committed", "leaving", "ready", "start"} => mtx = c

(* c stopped the new transactions for a checkpoint of its own. *)
Owns(c) == client[c].pc \in {"drain", "drainQueue", "ready", "start", "writing"}

(* The gate has at most one owner; closed without one, it was requested. *)
GateInv ==
    /\ \A c, d \in Client : Owns(c) /\ Owns(d) => c = d
    /\ (checkpointPending /\ ~autoCheckpointRequested) <=> \E c \in Client : Owns(c)
    /\ autoCheckpointRequested => checkpointPending

(* The queue and the two flags of its owner follow from the positions. *)
QueueInv ==
    /\ queuedCheckpointCommits = {c \in Client : At(c, "queued")}
    /\ commitQueuedNow <=> \E c \in Client : At(c, "drainQueue")
    /\ checkpointWriting <=> \E c \in Client : At(c, "writing")

(* Before a checkpoint is started no writer is open; before a commit that  *)
(* has to be alone nothing else is.                                        *)
AloneInv == \A c \in Client :
    /\ At(c, "start") => Writers(active) = {}
    /\ At(c, "ready") => active = {c}

(* Numbers of transactions are given once; memory, journal and disk hold   *)
(* given numbers; what is active is not applied; what is committed is.     *)
IdInv ==
    /\ \A c \in Client : id(c) \in 0 .. lastTransactionID
    /\ \A c \in active : id(c) # 0
    /\ \A c, d \in Client : c # d /\ id(c) = id(d) => id(c) = 0
    /\ memory \cup journal \cup disk.applied \subseteq 1 .. lastTransactionID
    /\ \A c \in active : /\ id(c) \notin memory \cup disk.applied
                         /\ hasPreCommitActions(c) => id(c) \notin journal
    /\ \A c \in Client : isCommitted(c) => id(c) \in memory
    /\ \A c \in Client : At(c, "begin") => id(c) = 0

(* There are numbers left for the transactions that are about to begin. *)
Beginners == {c \in Client : At(c, "begin")}
BoundInv == lastTransactionID + Cardinality(Beginners) <= MaxTxns

(* While a checkpoint is written its image is what memory holds, or wrong  *)
(* after a failed one, and the old blocks of every open snapshot are kept. *)
WritingInv ==
    checkpointWriting =>
        /\ Writers(active) = {} /\ lastTimestamp = checkpointTS
        /\ image.applied \subseteq memory /\ (~checkpointFailed => image.applied = memory)
        /\ image.wrong <=> (disk.wrong \/ checkpointFailed)
        /\ half \subseteq image.half /\ (~rollbackFailed => image.half \subseteq disk.half)
        /\ oldestReaderTS <= lastTimestamp
        /\ \A c \in active : client[c].startTS >= oldestReaderTS

(* What is acknowledged is durable, and so is what is about to be: by the  *)
(* journal, or by a checkpoint started after the ticket of a queued commit *)
(* was taken.                                                              *)
DurableInv ==
    /\ ~disk.wrong => acked \subseteq memory
    /\ ~InMemory /\ ~disk.wrong => acked \subseteq disk.applied \cup journal
    /\ ~InMemory /\ ~disk.wrong => \A c \in Client :
           client[c].pc \in {"committed", "leaving"} /\ isWrite(c) =>
               id(c) \in disk.applied \cup journal
    /\ lastCompletedCheckpoint <= checkpointsStarted
    /\ \A c \in Client :
           ~disk.wrong /\ At(c, "queueDone") /\ lastCompletedCheckpoint > client[c].ticket =>
               id(c) \in disk.applied

(* A half in memory that is not on disk is that of an open transaction     *)
(* that has to be rolled back, unless a rollback failed.                   *)
HalfInv ==
    ~rollbackFailed =>
        half \subseteq disk.half \cup
            {id(c) : c \in {d \in active : isWrite(d) /\ At(d, "mustRollback")}}

(* c brings a forced commit to the disk. *)
Carrier(c) ==
    \/ client[c].pc \in {"drainQueue", "start"} /\ checkpointCarriesForcedCommit
    \/ At(c, "writing") /\ carried

(* Where one writer is allowed, a forced commit that lives in memory alone *)
(* has no writer beside it, and a carrier or a failed checkpoint.          *)
SingleInv ==
    ~MultiWrites /\ ~InMemory =>
        /\ \A c, d \in active : isWrite(c) /\ isWrite(d) => c = d
        /\ \/ memory \subseteq disk.applied \cup journal
           \/ Writers(active) = {} /\ (checkpointFailed \/ \E c \in Client : Carrier(c))

(* The inductive invariant: each conjunct needs others of them. *)
IInv ==
    /\ TypeOK /\ ActiveInv /\ PurposeInv /\ MtxInv /\ GateInv /\ QueueInv /\ AloneInv
    /\ IdInv /\ BoundInv /\ WritingInv /\ DurableInv /\ HalfInv /\ SingleInv
-----------------------------------------------------------------------------
(* A transaction has a number while it is open, and until its COMMIT       *)
(* returns.                                                                *)
LEMMA OwnId ==
    ASSUME IInv, NEW c \in Client, isActive(c) \/ isCommitted(c)
    PROVE  id(c) \in 1 .. MaxTxns
  BY ConstantsAssumption DEF IInv, IdInv, ActiveInv, TypeOK, Connection, id

(* The least and the greatest of a set of numbers. *)
LEMMA SmallestFacts ==
    ASSUME NEW S \in SUBSET Nat, S # {}
    PROVE  Smallest(S) \in S /\ \A y \in S : Smallest(S) <= y
<1>1. PICK x \in S : \A y \in S : ~(<<y, x>> \in OpToRel(<, Nat))
  BY WFMin, NatLessThanWellFounded
<1>2. ASSUME NEW y \in S PROVE x <= y
  <2>1. <<y, x>> \in Nat \X Nat /\ <<y, x>>[1] = y /\ <<y, x>>[2] = x
    OBVIOUS
  <2>2. ~(y < x)
    BY <1>1, <2>1, Zenon DEF OpToRel
  <2> QED
    BY <2>2
<1> QED
  BY <1>2 DEF Smallest

LEMMA LargestFacts ==
    ASSUME NEW n \in Nat, NEW S \in SUBSET (0 .. n), S # {}
    PROVE  Largest(S) \in S
<1> DEFINE T == {n - x : x \in S}
<1>1. T \in SUBSET Nat /\ T # {}
  <2>1. \A x \in S : n - x \in Nat
    OBVIOUS
  <2>2. PICK x \in S : TRUE
    OBVIOUS
  <2>3. n - x \in T
    OBVIOUS
  <2> QED
    BY <2>1, <2>3
<1>2. PICK t \in T : \A y \in T : t <= y
  <2> HIDE DEF T
  <2> QED
    BY <1>1, SmallestFacts
<1>3. PICK x \in S : t = n - x
  BY <1>2
<1>4. \A y \in S : x >= y
  BY <1>2, <1>3
<1> QED
  BY <1>3, <1>4 DEF Largest

(* A step of c that keeps the rest of its connection, and the others'.     *)
Moved(c) ==
    /\ \A d \in Client \ {c} : client'[d] = client[d]
    /\ client'[c].kind = client[c].kind /\ client'[c].id = client[c].id
    /\ client'[c].startTS = client[c].startTS /\ client'[c].ticket = client[c].ticket

(* What stopNewTransactions does: c stands at the gate, or it owns it.     *)
Stopped(c, p) ==
    /\ Moved(c)
    /\ client'[c].purpose = p /\ client'[c].lockOf = client[c].lockOf
    /\ \/ /\ checkpointPending /\ ~autoCheckpointRequested
          /\ client'[c].pc = "gate" /\ mtx' = Nobody
          /\ UNCHANGED <<checkpointPending, autoCheckpointRequested>>
       \/ /\ ~(checkpointPending /\ ~autoCheckpointRequested)
          /\ client'[c].pc = "drain" /\ mtx' = c
          /\ checkpointPending' = TRUE /\ autoCheckpointRequested' = FALSE

(* What stopNewTransactions does to the connections and the gate.          *)
LEMMA StopFacts ==
    ASSUME TypeOK, NEW c \in Client, NEW p \in Purpose, stopNewTransactions(c, p)
    PROVE  Stopped(c, p) /\ client' \in [Client -> Connection]
<1>1. client \in [Client -> Connection] /\ "gate" \in Pc /\ "drain" \in Pc
  BY DEF TypeOK, Pc
<1>2. CASE checkpointPending /\ ~autoCheckpointRequested
  <2>1. client' = [client EXCEPT ![c] = [@ EXCEPT !.pc = "gate", !.purpose = p]]
    BY <1>2 DEF stopNewTransactions
  <2>2. client' \in [Client -> Connection]
    BY <1>1, <2>1 DEF Connection
  <2>3. Moved(c) /\ client'[c].pc = "gate" /\ client'[c].purpose = p
        /\ client'[c].lockOf = client[c].lockOf
    BY <1>1, <2>1 DEF Connection, Moved
  <2> QED
    BY <1>2, <2>2, <2>3 DEF stopNewTransactions, Stopped
<1>3. CASE ~(checkpointPending /\ ~autoCheckpointRequested)
  <2>1. client' = [client EXCEPT ![c] = [@ EXCEPT !.pc = "drain", !.purpose = p]]
    BY <1>3 DEF stopNewTransactions
  <2>2. client' \in [Client -> Connection]
    BY <1>1, <2>1 DEF Connection
  <2>3. Moved(c) /\ client'[c].pc = "drain" /\ client'[c].purpose = p
        /\ client'[c].lockOf = client[c].lockOf
    BY <1>1, <2>1 DEF Connection, Moved
  <2> QED
    BY <1>3, <2>2, <2>3 DEF stopNewTransactions, Stopped
<1> QED
  BY <1>2, <1>3

-----------------------------------------------------------------------------
(* The steps of the connections *)

(* A BEGIN is called: it takes one of the numbers left. *)
LEMMA BeginCallInv == ASSUME IInv, NEW c \in Client, NEW k \in Kinds, BeginCall(c, k) PROVE IInv'
<1> TypeOK
  BY DEF IInv
<1>1. client' \in [Client -> Connection]
  <2>1. /\ client \in [Client -> Connection]
        /\ client' = [client EXCEPT ![c] = [@ EXCEPT !.pc = "begin", !.kind = k]]
        /\ k \in Kind
    BY ConstantsAssumption DEF BeginCall, TypeOK
  <2> QED
    BY <2>1 DEF Connection, Pc
<1>2. TypeOK'
  <2>1. queuedCheckpointCommits' \subseteq active'
    BY DEF BeginCall, IInv, TypeOK, QueueInv, At, manager
  <2> QED
    BY <1>1, <2>1 DEF BeginCall, TypeOK, Image, manager, numbers, verdict, store
<1> USE ConstantsAssumption DEF IInv, BeginCall, At, id, isWrite, shouldForceCheckpoint,
     hasPreCommitActions, staysActive, InMemory, MultiWrites, manager, numbers, verdict,
     store, otherNumbers
<1>3. (ActiveInv /\ PurposeInv /\ MtxInv)'
  BY DEF ActiveInv, PurposeInv, isActive, MtxInv
<1>4. (GateInv /\ QueueInv /\ AloneInv)'
  BY DEF GateInv, Owns, QueueInv, ActiveInv, isActive, AloneInv, Writers
<1>5. IdInv'
  BY DEF IdInv, isCommitted, PurposeInv, NoTxn
<1>6. BoundInv'
  <2>1. Beginners' = Beginners \cup {c} /\ c \notin Beginners
    BY DEF Beginners, TypeOK, Connection
  <2>2. IsFiniteSet(Beginners)
    BY FS_Subset DEF Beginners
  <2>3. Cardinality(Beginners') = Cardinality(Beginners) + 1
    BY <2>1, <2>2, FS_AddElement
  <2>4. Cardinality(Beginners) \in Nat
    BY <2>2, FS_CardinalityType
  <2> QED
    BY <2>3, <2>4 DEF BoundInv, Beginners, TypeOK
<1>7. (WritingInv /\ HalfInv /\ DurableInv /\ SingleInv)'
  BY DEF WritingInv, Writers, HalfInv, ActiveInv, isActive, DurableInv, SingleInv, Carrier
<1> QED
  BY <1>2, <1>3, <1>4, <1>5, <1>6, <1>7 DEF IInv

(* A writer takes a newer snapshot; no checkpoint is written then. *)
LEMMA RefreshSnapshotInv == ASSUME IInv, NEW c \in Client, RefreshSnapshot(c) PROVE IInv'
<1> TypeOK
  BY DEF IInv
<1>1. client' \in [Client -> Connection]
  BY DEF RefreshSnapshot, TypeOK, Connection, Pc
<1>2. TypeOK'
  <2>1. queuedCheckpointCommits' \subseteq active'
    BY DEF RefreshSnapshot, IInv, TypeOK, QueueInv, At, manager
  <2> QED
    BY <1>1, <2>1 DEF RefreshSnapshot, TypeOK, Image, manager, numbers, verdict, store
<1> USE DEF IInv, RefreshSnapshot
<1>3. (ActiveInv /\ PurposeInv /\ MtxInv)'
  BY DEF ActiveInv, PurposeInv, isActive, MtxInv, At, isWrite, shouldForceCheckpoint,
     staysActive, InMemory
<1>4. (GateInv /\ QueueInv /\ AloneInv)'
  BY DEF GateInv, Owns, QueueInv, AloneInv, Writers, At, isWrite, manager
<1>5. IdInv' /\ UNCHANGED <<Beginners, lastTransactionID>>
  BY DEF IdInv, isCommitted, Beginners, At, id, isWrite, hasPreCommitActions, staysActive,
     numbers, store
<1>6. (WritingInv /\ HalfInv /\ DurableInv /\ SingleInv)'
  BY DEF WritingInv, Writers, HalfInv, DurableInv, SingleInv, Carrier, At, id, isWrite,
     InMemory, MultiWrites, manager, numbers, verdict, store
<1> QED
  BY <1>2, <1>3, <1>4, <1>5, <1>6 DEF IInv, BoundInv

(* A statement waits for a lock. *)
LEMMA LockWaitInv == ASSUME IInv, NEW c \in Client, NEW d \in Client, LockWait(c, d) PROVE IInv'
<1> TypeOK
  BY DEF IInv
<1>1. client' \in [Client -> Connection]
  BY DEF LockWait, TypeOK, Connection, Pc, id
<1>2. TypeOK'
  <2>1. queuedCheckpointCommits' \subseteq active'
    BY DEF LockWait, IInv, TypeOK, QueueInv, At, manager
  <2> QED
    BY <1>1, <2>1 DEF LockWait, TypeOK, Image, manager, numbers, verdict, store
<1> USE DEF IInv, LockWait
<1>3. (ActiveInv /\ PurposeInv /\ MtxInv)'
  BY DEF ActiveInv, PurposeInv, isActive, MtxInv, At, isWrite, shouldForceCheckpoint,
     staysActive, InMemory
<1>4. (GateInv /\ QueueInv /\ AloneInv)'
  BY DEF GateInv, Owns, QueueInv, AloneInv, At, manager
<1>5. IdInv' /\ UNCHANGED <<Beginners, lastTransactionID>>
  BY DEF IdInv, isCommitted, Beginners, At, id, isWrite, hasPreCommitActions, staysActive,
     numbers, store
<1>6. (WritingInv /\ HalfInv /\ DurableInv /\ SingleInv)'
  BY DEF WritingInv, HalfInv, DurableInv, SingleInv, At, id, isWrite, InMemory, MultiWrites,
     manager, numbers, verdict, store
<1> QED
  BY <1>2, <1>3, <1>4, <1>5, <1>6 DEF IInv, BoundInv

(* A failed statement is undone, or leaves a half behind and is known to. *)
LEMMA FailAfterStatementInv == ASSUME IInv, NEW c \in Client, FailAfterStatement(c) PROVE IInv'
<1> TypeOK
  BY DEF IInv
<1>1. client' \in [Client -> Connection]
  BY DEF FailAfterStatement, Goto, TypeOK, Connection, Pc
<1>2. TypeOK'
  <2>1. queuedCheckpointCommits' \subseteq active' /\ id(c) \in 1 .. MaxTxns
    BY OwnId DEF FailAfterStatement, IInv, TypeOK, QueueInv, At, isActive, isCommitted,
       staysActive, isWrite, manager
  <2>2. /\ memory' \subseteq 1 .. MaxTxns /\ half' \subseteq 1 .. MaxTxns
        /\ journal' \subseteq 1 .. MaxTxns /\ acked' \subseteq 1 .. MaxTxns
    BY <2>1 DEF FailAfterStatement, TypeOK, store
  <2> QED
    BY <1>1, <2>1, <2>2 DEF FailAfterStatement, TypeOK, manager, numbers, verdict, store
<1> USE DEF IInv, FailAfterStatement, Goto
<1>3. (ActiveInv /\ PurposeInv /\ MtxInv)'
  BY DEF ActiveInv, PurposeInv, isActive, MtxInv, At, isWrite, shouldForceCheckpoint,
     staysActive, InMemory
<1>4. (GateInv /\ QueueInv /\ AloneInv)'
  BY DEF GateInv, Owns, QueueInv, AloneInv, Writers, At, isWrite, manager
<1>5. IdInv' /\ UNCHANGED <<Beginners, lastTransactionID>>
  BY DEF IdInv, isCommitted, Beginners, At, id, isWrite, hasPreCommitActions, staysActive,
     numbers
<1>6. (WritingInv /\ HalfInv /\ DurableInv /\ SingleInv)'
  BY DEF WritingInv, Writers, HalfInv, ActiveInv, isActive, DurableInv, SingleInv, At, id,
     isWrite, InMemory, MultiWrites, manager, numbers
<1> QED
  BY <1>2, <1>3, <1>4, <1>5, <1>6 DEF IInv, BoundInv

(* A reader leaves. *)
LEMMA CommitReadInv == ASSUME IInv, NEW c \in Client, CommitRead(c) PROVE IInv'
<1> TypeOK
  BY DEF IInv
<1>1. client' \in [Client -> Connection]
  BY DEF CommitRead, Goto, TypeOK, Connection, Pc
<1>2. TypeOK'
  <2>1. queuedCheckpointCommits' \subseteq active'
    BY DEF CommitRead, Running, IInv, TypeOK, QueueInv, At, manager
  <2> QED
    BY <1>1, <2>1 DEF CommitRead, TypeOK, Image, manager, numbers, verdict, store
<1> USE DEF IInv, CommitRead, Running, Goto
<1>3. (ActiveInv /\ PurposeInv /\ MtxInv)'
  BY ConstantsAssumption DEF ActiveInv, PurposeInv, isActive, MtxInv, TypeOK, At, isWrite,
     shouldForceCheckpoint, staysActive, InMemory
<1>4. (GateInv /\ QueueInv /\ AloneInv)'
  BY DEF GateInv, Owns, QueueInv, AloneInv, Writers, At, isWrite, manager
<1>5. IdInv' /\ UNCHANGED <<Beginners, lastTransactionID>>
  BY DEF IdInv, isCommitted, Beginners, At, id, isWrite, hasPreCommitActions, staysActive,
     numbers, store
<1>6. (WritingInv /\ HalfInv /\ DurableInv /\ SingleInv)'
  BY DEF WritingInv, Writers, HalfInv, DurableInv, SingleInv, Carrier, At, id, isWrite,
     InMemory, MultiWrites, manager, numbers, verdict, store
<1> QED
  BY <1>2, <1>3, <1>4, <1>5, <1>6 DEF IInv, BoundInv

(* A commit that journals: no checkpoint is being written, for c is a      *)
(* writer that is open.                                                    *)
LEMMA CommitWriteInv == ASSUME IInv, NEW c \in Client, CommitWrite(c) PROVE IInv'
<1> TypeOK
  BY DEF IInv
<1>1. client' \in [Client -> Connection]
  BY DEF CommitWrite, Goto, TypeOK, Connection, Pc
<1>2. TypeOK'
  <2>1. queuedCheckpointCommits' \subseteq active' /\ id(c) \in 1 .. MaxTxns
    BY OwnId DEF CommitWrite, commitsAtOnce, Running, applyCommit, IInv, TypeOK, QueueInv,
       At, isActive, isCommitted, staysActive, isWrite, manager
  <2>2. /\ memory' \subseteq 1 .. MaxTxns /\ half' \subseteq 1 .. MaxTxns
        /\ journal' \subseteq 1 .. MaxTxns /\ acked' \subseteq 1 .. MaxTxns
    BY <2>1 DEF CommitWrite, commitsAtOnce, applyCommit, TypeOK, store
  <2> QED
    BY <1>1, <2>1, <2>2 DEF CommitWrite, commitsAtOnce, applyCommit, TypeOK, manager,
       numbers, verdict, store, otherNumbers
<1> USE DEF IInv, CommitWrite, commitsAtOnce, Running, applyCommit, Goto
<1>3. (ActiveInv /\ PurposeInv /\ MtxInv)'
  BY ConstantsAssumption DEF ActiveInv, PurposeInv, isActive, MtxInv, TypeOK, At, isWrite,
     shouldForceCheckpoint, staysActive, InMemory
<1>4. (GateInv /\ QueueInv /\ AloneInv)'
  BY DEF GateInv, Owns, QueueInv, AloneInv, Writers, At, isWrite, manager
<1>5. IdInv' /\ UNCHANGED <<Beginners, lastTransactionID>>
  BY DEF IdInv, isCommitted, ActiveInv, isActive, Beginners, At, id, isWrite,
     hasPreCommitActions, staysActive, otherNumbers
<1>6. (WritingInv /\ HalfInv /\ DurableInv /\ SingleInv)'
  BY DEF WritingInv, Writers, HalfInv, ActiveInv, isActive, DurableInv, SingleInv, At, id,
     isWrite, InMemory, MultiWrites, manager, verdict, otherNumbers
<1> QED
  BY <1>2, <1>3, <1>4, <1>5, <1>6 DEF IInv, BoundInv

(* The same commit, thrown half-way: its half is that of a transaction to  *)
(* roll back.                                                              *)
LEMMA CommitWriteThrowsInv == ASSUME IInv, NEW c \in Client, CommitWriteThrows(c) PROVE IInv'
<1> TypeOK
  BY DEF IInv
<1>1. client' \in [Client -> Connection]
  BY DEF CommitWriteThrows, Goto, TypeOK, Connection, Pc
<1>2. TypeOK'
  <2>1. queuedCheckpointCommits' \subseteq active' /\ id(c) \in 1 .. MaxTxns
    BY OwnId DEF CommitWriteThrows, commitsAtOnce, Running, commitThrows, IInv, TypeOK,
       QueueInv, At, isActive, isCommitted, staysActive, isWrite, manager
  <2>2. /\ memory' \subseteq 1 .. MaxTxns /\ half' \subseteq 1 .. MaxTxns
        /\ journal' \subseteq 1 .. MaxTxns /\ acked' \subseteq 1 .. MaxTxns
    BY <2>1 DEF CommitWriteThrows, commitsAtOnce, commitThrows, TypeOK, store
  <2> QED
    BY <1>1, <2>1, <2>2 DEF CommitWriteThrows, commitsAtOnce, commitThrows, TypeOK, manager,
       numbers, verdict, store, otherNumbers
<1> USE DEF IInv, CommitWriteThrows, commitsAtOnce, Running, commitThrows, Goto
<1>3. (ActiveInv /\ PurposeInv /\ MtxInv)'
  BY DEF ActiveInv, PurposeInv, isActive, MtxInv, At, isWrite, shouldForceCheckpoint,
     staysActive, InMemory
<1>4. (GateInv /\ QueueInv /\ AloneInv)'
  BY DEF GateInv, Owns, QueueInv, AloneInv, Writers, At, isWrite, manager
<1>5. IdInv' /\ UNCHANGED <<Beginners, lastTransactionID>>
  BY DEF IdInv, isCommitted, ActiveInv, isActive, Beginners, At, id, isWrite,
     hasPreCommitActions, staysActive, otherNumbers
<1>6. (WritingInv /\ HalfInv /\ DurableInv /\ SingleInv)'
  BY DEF WritingInv, Writers, HalfInv, ActiveInv, isActive, DurableInv, SingleInv, TypeOK,
     At, id, isWrite, InMemory, MultiWrites, manager, verdict, otherNumbers
<1> QED
  BY <1>2, <1>3, <1>4, <1>5, <1>6 DEF IInv, BoundInv

(* A forced commit queues, or stops the others. *)
LEMMA CommitForcedInv == ASSUME IInv, NEW c \in Client, CommitForced(c) PROVE IInv'
<1> TypeOK
  BY DEF IInv
<1>1. \/ /\ Moved(c) /\ client'[c].pc = "queued" /\ client'[c].lockOf = client[c].lockOf
         /\ checkpointPending /\ ~autoCheckpointRequested
         /\ queuedCheckpointCommits' = queuedCheckpointCommits \cup {c}
         /\ UNCHANGED <<mtx, checkpointPending, autoCheckpointRequested>>
      \/ Stopped(c, "forced") /\ UNCHANGED queuedCheckpointCommits
         /\ ~(checkpointPending /\ ~autoCheckpointRequested)
  <2>1. CASE checkpointPending /\ ~autoCheckpointRequested
    BY <2>1 DEF CommitForced, Goto, TypeOK, Connection, Moved
  <2>2. CASE ~(checkpointPending /\ ~autoCheckpointRequested)
    BY <2>2, StopFacts DEF CommitForced, Purpose
  <2> QED
    BY <2>1, <2>2
<1>2. client' \in [Client -> Connection]
  BY StopFacts DEF CommitForced, Goto, TypeOK, Connection, Pc, Purpose
<1>3. TypeOK'
  <2>1. c \in active /\ active' = active
    BY DEF CommitForced, Running, At, IInv, ActiveInv, isActive
  <2>2. queuedCheckpointCommits' \subseteq active'
    BY <2>1 DEF CommitForced, TypeOK
  <2> QED
    BY <1>2, <2>2 DEF CommitForced, stopNewTransactions, TypeOK, numbers, verdict, store
<1> USE DEF IInv, CommitForced, Running
<1>4. (ActiveInv /\ PurposeInv /\ MtxInv)'
  BY <1>1, ConstantsAssumption DEF ActiveInv, PurposeInv, isActive, MtxInv, At, isWrite,
     shouldForceCheckpoint, staysActive, InMemory, Moved, Stopped
<1>5. (GateInv /\ QueueInv /\ AloneInv)'
  BY <1>1 DEF GateInv, Owns, QueueInv, AloneInv, Writers, TypeOK, At, isWrite, Moved,
     Stopped
<1>6. IdInv' /\ UNCHANGED <<Beginners, lastTransactionID>>
  BY <1>1 DEF IdInv, isCommitted, Beginners, TypeOK, At, id, isWrite, hasPreCommitActions,
     staysActive, numbers, store, Moved, Stopped
<1>7. (WritingInv /\ HalfInv /\ DurableInv /\ SingleInv)'
  BY <1>1 DEF WritingInv, Writers, HalfInv, DurableInv, SingleInv, Carrier, TypeOK, At, id,
     isWrite, InMemory, MultiWrites, numbers, verdict, store, Moved, Stopped
<1> QED
  BY <1>3, <1>4, <1>5, <1>6, <1>7 DEF IInv, BoundInv

(* A pre-commit action without files stops the others. *)
LEMMA CommitAloneInv == ASSUME IInv, NEW c \in Client, CommitAlone(c) PROVE IInv'
<1> TypeOK
  BY DEF IInv
<1>1. Stopped(c, "alone")
  BY StopFacts DEF CommitAlone, Purpose
<1>2. client' \in [Client -> Connection]
  BY StopFacts DEF CommitAlone, Purpose
<1>3. TypeOK'
  <2>1. queuedCheckpointCommits' \subseteq active'
    BY DEF CommitAlone, Running, stopNewTransactions, IInv, TypeOK, QueueInv, At, manager
  <2> QED
    BY <1>2, <2>1 DEF CommitAlone, stopNewTransactions, TypeOK, Image, manager, numbers,
       verdict, store
<1> USE DEF IInv, CommitAlone, Running
<1>4. (ActiveInv /\ PurposeInv /\ MtxInv)'
  BY <1>1, ConstantsAssumption DEF ActiveInv, PurposeInv, isActive, MtxInv, At, isWrite,
     shouldForceCheckpoint, hasPreCommitActions, staysActive, InMemory, Moved, Stopped
<1>5. (GateInv /\ QueueInv /\ AloneInv)'
  BY <1>1 DEF GateInv, Owns, QueueInv, AloneInv, Writers, TypeOK, At, isWrite, Moved,
     Stopped
<1>6. IdInv' /\ UNCHANGED <<Beginners, lastTransactionID>>
  BY <1>1 DEF IdInv, isCommitted, Beginners, TypeOK, At, id, isWrite, hasPreCommitActions,
     staysActive, numbers, store, Moved, Stopped
<1>7. (WritingInv /\ HalfInv /\ DurableInv /\ SingleInv)'
  BY <1>1 DEF WritingInv, Writers, PurposeInv, HalfInv, DurableInv, SingleInv, TypeOK, At,
     id, isWrite, InMemory, numbers, verdict, store, Moved, Stopped
<1> QED
  BY <1>3, <1>4, <1>5, <1>6, <1>7 DEF IInv, BoundInv

(* A CHECKPOINT stops the others. *)
LEMMA CheckpointInv == ASSUME IInv, NEW c \in Client, Checkpoint(c) PROVE IInv'
<1> TypeOK
  BY DEF IInv
<1>1. Stopped(c, "explicit")
  BY StopFacts DEF Checkpoint, Purpose
<1>2. client' \in [Client -> Connection]
  BY StopFacts DEF Checkpoint, Purpose
<1>3. TypeOK'
  <2>1. checkpointCalls' \in 0 .. MaxCheckpoints
    BY ConstantsAssumption DEF Checkpoint, TypeOK
  <2> QED
    BY <1>2, <2>1 DEF Checkpoint, stopNewTransactions, TypeOK, verdict, store
<1> USE DEF IInv, Checkpoint
<1>4. (ActiveInv /\ PurposeInv /\ MtxInv)'
  BY <1>1, ConstantsAssumption DEF ActiveInv, PurposeInv, isActive, MtxInv, At, isWrite,
     shouldForceCheckpoint, staysActive, InMemory, Moved, Stopped
<1>5. (GateInv /\ QueueInv /\ AloneInv)'
  BY <1>1 DEF GateInv, Owns, QueueInv, AloneInv, Writers, TypeOK, At, isWrite, Moved,
     Stopped
<1>6. IdInv' /\ UNCHANGED <<Beginners, lastTransactionID>>
  BY <1>1 DEF IdInv, isCommitted, PurposeInv, NoTxn, Beginners, TypeOK, At, id, isWrite,
     hasPreCommitActions, staysActive, store, Moved, Stopped
<1>7. (WritingInv /\ HalfInv /\ DurableInv /\ SingleInv)'
  BY <1>1 DEF WritingInv, Writers, HalfInv, DurableInv, SingleInv, Carrier, TypeOK, At, id,
     isWrite, MultiWrites, verdict, store, Moved, Stopped
<1> QED
  BY <1>3, <1>4, <1>5, <1>6, <1>7 DEF IInv, BoundInv

(* A transaction begins with a new number and the last timestamp; where    *)
(* one writer is allowed, it is the only one.                              *)
LEMMA BeginTransactionInv == ASSUME IInv, NEW c \in Client, BeginTransaction(c) PROVE IInv'
<1> TypeOK
  BY DEF IInv
<1>1. lastTransactionID < MaxTxns
  <2>1. c \in Beginners /\ IsFiniteSet(Beginners)
    BY FS_Subset, ConstantsAssumption DEF Beginners, BeginTransaction
  <2>2. Cardinality(Beginners) \in Nat /\ Cardinality(Beginners) # 0
    BY <2>1, FS_CardinalityType, FS_EmptySet
  <2> QED
    BY <2>2, ConstantsAssumption DEF IInv, BoundInv, TypeOK
<1>2. client' \in [Client -> Connection]
  <2>1. lastTransactionID' \in 0 .. MaxTxns
    BY <1>1, ConstantsAssumption DEF BeginTransaction, TypeOK
  <2>2. /\ client \in [Client -> Connection] /\ lastTimestamp \in Nat /\ "open" \in Pc
        /\ client' = [client EXCEPT ![c] = [@ EXCEPT !.pc = "open", !.id = lastTransactionID',
                                                     !.startTS = lastTimestamp]]
    BY DEF BeginTransaction, TypeOK, Pc
  <2> QED
    BY <2>1, <2>2 DEF Connection
<1>3. TypeOK'
  <2>1. lastTransactionID' \in 0 .. MaxTxns /\ queuedCheckpointCommits' \subseteq active'
    BY <1>1, ConstantsAssumption DEF BeginTransaction, TypeOK, manager
  <2>2. active' \subseteq Client
    BY DEF BeginTransaction, TypeOK
  <2> QED
    BY <1>2, <2>1, <2>2 DEF BeginTransaction, TypeOK, manager, verdict, store
<1> USE ConstantsAssumption DEF IInv, BeginTransaction, held, mustReopen, tooManyWriters,
     hasActiveWriteTransaction, At, id, isWrite, shouldForceCheckpoint, hasPreCommitActions,
     staysActive, InMemory, MultiWrites, manager, numbers, verdict, store, otherNumbers
<1>4. (ActiveInv /\ PurposeInv /\ MtxInv)'
  BY DEF ActiveInv, PurposeInv, isActive, MtxInv, TypeOK
<1>5. (GateInv /\ QueueInv /\ AloneInv)'
  BY DEF GateInv, Owns, QueueInv, AloneInv
<1>6. IdInv'
  BY DEF IdInv, isCommitted, TypeOK
<1>7. BoundInv'
  <2>1. Beginners' = Beginners \ {c} /\ c \in Beginners
    BY DEF Beginners, TypeOK, Connection
  <2>2. IsFiniteSet(Beginners)
    BY FS_Subset DEF Beginners
  <2>3. Cardinality(Beginners') = Cardinality(Beginners) - 1
    BY <2>1, <2>2, FS_RemoveElement
  <2>4. Cardinality(Beginners) \in Nat
    BY <2>2, FS_CardinalityType
  <2> QED
    BY <2>3, <2>4 DEF BoundInv, TypeOK
<1>8. (WritingInv /\ HalfInv /\ DurableInv /\ SingleInv)'
  BY DEF WritingInv, Writers, GateInv, Owns, QueueInv, HalfInv, DurableInv, SingleInv,
     Carrier, TypeOK
<1> QED
  BY <1>3, <1>4, <1>5, <1>6, <1>7, <1>8 DEF IInv

(* A BEGIN is refused. *)
LEMMA BeginRefusedInv == ASSUME IInv, NEW c \in Client, BeginRefused(c) PROVE IInv'
<1> TypeOK
  BY DEF IInv
<1>1. client' \in [Client -> Connection]
  BY ConstantsAssumption DEF BeginRefused, End, NoTxn, Kind, TypeOK, Connection, Pc, Purpose
<1>2. TypeOK'
  <2>1. queuedCheckpointCommits' \subseteq active'
    BY DEF BeginRefused, IInv, TypeOK, QueueInv, At, manager
  <2> QED
    BY <1>1, <2>1 DEF BeginRefused, TypeOK, Image, manager, numbers, verdict, store
<1> USE ConstantsAssumption DEF IInv, BeginRefused, End, NoTxn, At, id, isWrite,
     shouldForceCheckpoint, hasPreCommitActions, staysActive, InMemory, MultiWrites, manager,
     numbers, verdict, store, otherNumbers
<1>3. (ActiveInv /\ PurposeInv /\ MtxInv)'
  BY DEF ActiveInv, PurposeInv, isActive, MtxInv
<1>4. (GateInv /\ QueueInv /\ AloneInv)'
  BY DEF GateInv, Owns, QueueInv, AloneInv, Writers
<1>5. IdInv'
  BY DEF IdInv, isCommitted
<1>6. BoundInv'
  <2>1. Beginners' = Beginners \ {c} /\ c \in Beginners
    BY DEF Beginners, TypeOK, Connection, NoTxn
  <2>2. IsFiniteSet(Beginners)
    BY FS_Subset DEF Beginners
  <2>3. Cardinality(Beginners') = Cardinality(Beginners) - 1
    BY <2>1, <2>2, FS_RemoveElement
  <2>4. Cardinality(Beginners) \in Nat
    BY <2>2, FS_CardinalityType
  <2> QED
    BY <2>3, <2>4 DEF BoundInv, TypeOK
<1>7. (WritingInv /\ HalfInv /\ DurableInv /\ SingleInv)'
  BY DEF WritingInv, Writers, HalfInv, IdInv, DurableInv, SingleInv, Carrier
<1> QED
  BY <1>2, <1>3, <1>4, <1>5, <1>6, <1>7 DEF IInv

(* A held BEGIN gives an automatic request up: the gate had no owner. *)
LEMMA CancelAutoCheckpointRequestInv ==
    ASSUME IInv, NEW c \in Client, CancelAutoCheckpointRequest(c)
    PROVE  IInv'
<1> TypeOK
  BY DEF IInv
<1>1. client' \in [Client -> Connection]
  BY DEF CancelAutoCheckpointRequest, TypeOK, Connection, Pc
<1>2. TypeOK'
  <2>1. {lastBlockingTransactionID} \cup {id(d) : d \in active} \in SUBSET (0 .. MaxTxns)
    BY DEF TypeOK, Connection, id
  <2>2. lastBlockingTransactionID' \in 0 .. MaxTxns
    BY <2>1, LargestFacts, ConstantsAssumption DEF CancelAutoCheckpointRequest
  <2> QED
    BY <1>1, <2>2 DEF CancelAutoCheckpointRequest, TypeOK, verdict, store
<1> USE DEF IInv, CancelAutoCheckpointRequest
<1>3. (ActiveInv /\ PurposeInv /\ MtxInv)'
  BY DEF ActiveInv, PurposeInv, isActive, MtxInv, At, isWrite, shouldForceCheckpoint,
     staysActive, InMemory
<1>4. (GateInv /\ QueueInv /\ AloneInv)'
  BY DEF GateInv, Owns, QueueInv, AloneInv, At
<1>5. IdInv' /\ UNCHANGED <<Beginners, lastTransactionID>>
  BY DEF IdInv, isCommitted, Beginners, At, id, isWrite, hasPreCommitActions, staysActive,
     store
<1>6. (WritingInv /\ HalfInv /\ DurableInv /\ SingleInv)'
  BY DEF WritingInv, Writers, HalfInv, DurableInv, SingleInv, Carrier, At, id, isWrite,
     InMemory, MultiWrites, verdict, store
<1> QED
  BY <1>2, <1>3, <1>4, <1>5, <1>6 DEF IInv, BoundInv

(* A lock is granted. *)
LEMMA LockGrantedInv == ASSUME IInv, NEW c \in Client, LockGranted(c) PROVE IInv'
<1> TypeOK
  BY DEF IInv
<1>1. client' \in [Client -> Connection]
  BY ConstantsAssumption DEF LockGranted, TypeOK, Connection, Pc
<1>2. TypeOK'
  <2>1. queuedCheckpointCommits' \subseteq active'
    BY DEF LockGranted, IInv, TypeOK, QueueInv, At, manager
  <2> QED
    BY <1>1, <2>1 DEF LockGranted, TypeOK, Image, manager, numbers, verdict, store
<1> USE DEF IInv, LockGranted
<1>3. (ActiveInv /\ PurposeInv /\ MtxInv)'
  BY DEF ActiveInv, PurposeInv, isActive, MtxInv, At, isWrite, shouldForceCheckpoint,
     staysActive, InMemory
<1>4. (GateInv /\ QueueInv /\ AloneInv)'
  BY DEF GateInv, Owns, QueueInv, AloneInv, Writers, At, isWrite, manager
<1>5. IdInv' /\ UNCHANGED <<Beginners, lastTransactionID>>
  BY DEF IdInv, isCommitted, Beginners, At, id, isWrite, hasPreCommitActions, staysActive,
     numbers, store
<1>6. (WritingInv /\ HalfInv /\ DurableInv /\ SingleInv)'
  BY DEF WritingInv, Writers, HalfInv, DurableInv, SingleInv, Carrier, At, id, isWrite,
     InMemory, MultiWrites, manager, numbers, verdict, store
<1> QED
  BY <1>2, <1>3, <1>4, <1>5, <1>6 DEF IInv, BoundInv

(* A lock is not: the transaction has to be rolled back. *)
LEMMA LockTimeoutInv == ASSUME IInv, NEW c \in Client, LockTimeout(c) PROVE IInv'
<1> TypeOK
  BY DEF IInv
<1>1. /\ At(c, "open") /\ isWrite(c)
      /\ Moved(c) /\ client'[c].pc = "mustRollback"
      /\ client'[c].purpose = client[c].purpose /\ client'[c].lockOf = 0
  <2>1. client[c].lockOf # 0
    BY DEF LockTimeout, LockHolder, IInv, IdInv
  <2> QED
    BY <2>1 DEF LockTimeout, IInv, PurposeInv, TypeOK, Connection, Moved
<1>2. client' \in [Client -> Connection]
  <2>1. /\ client \in [Client -> Connection]
        /\ client' = [client EXCEPT ![c] = [@ EXCEPT !.lockOf = 0, !.pc = "mustRollback"]]
        /\ 0 \in 0 .. MaxTxns
    BY ConstantsAssumption DEF LockTimeout, TypeOK
  <2> QED
    BY <2>1 DEF Connection, Pc
<1>3. TypeOK'
  <2>1. queuedCheckpointCommits' \subseteq active'
    BY DEF LockTimeout, IInv, TypeOK, QueueInv, At, manager
  <2> QED
    BY <1>2, <2>1 DEF LockTimeout, TypeOK, Image, manager, numbers, verdict, store
<1> USE DEF IInv, LockTimeout, LockHolder
<1>4. (ActiveInv /\ PurposeInv /\ MtxInv)'
  BY <1>1 DEF ActiveInv, PurposeInv, isActive, MtxInv, At, isWrite, shouldForceCheckpoint,
     staysActive, InMemory
<1>5. (GateInv /\ QueueInv /\ AloneInv)'
  BY <1>1 DEF GateInv, Owns, QueueInv, AloneInv, Writers, At, isWrite, manager
<1>6. IdInv' /\ UNCHANGED <<Beginners, lastTransactionID>>
  BY <1>1 DEF IdInv, isCommitted, Beginners, At, id, isWrite, hasPreCommitActions,
     staysActive, numbers, store
<1>7. (WritingInv /\ HalfInv /\ DurableInv /\ SingleInv)'
  BY <1>1 DEF WritingInv, Writers, HalfInv, DurableInv, SingleInv, Carrier, At, id, isWrite,
     InMemory, MultiWrites, manager, numbers, verdict, store
<1> QED
  BY <1>3, <1>4, <1>5, <1>6, <1>7 DEF IInv, BoundInv

(* A commit leaves without a checkpoint. *)
LEMMA NoCheckpointNowInv == ASSUME IInv, NEW c \in Client, NoCheckpointNow(c) PROVE IInv'
<1> TypeOK
  BY DEF IInv
<1>1. client' \in [Client -> Connection]
  BY DEF NoCheckpointNow, Goto, TypeOK, Connection, Pc
<1>2. TypeOK'
  <2>1. queuedCheckpointCommits' \subseteq active'
    BY DEF NoCheckpointNow, IInv, TypeOK, QueueInv, At, manager
  <2> QED
    BY <1>1, <2>1 DEF NoCheckpointNow, TypeOK, Image, manager, numbers, verdict, store
<1> USE DEF IInv, NoCheckpointNow, Goto
<1>3. (ActiveInv /\ PurposeInv /\ MtxInv)'
  BY DEF ActiveInv, PurposeInv, isActive, MtxInv, At, isWrite, shouldForceCheckpoint,
     staysActive, InMemory
<1>4. (GateInv /\ QueueInv /\ AloneInv)'
  BY DEF GateInv, Owns, QueueInv, AloneInv, Writers, At, isWrite, manager
<1>5. IdInv' /\ UNCHANGED <<Beginners, lastTransactionID>>
  BY DEF IdInv, isCommitted, Beginners, At, id, isWrite, hasPreCommitActions, staysActive,
     numbers, store
<1>6. (WritingInv /\ HalfInv /\ DurableInv /\ SingleInv)'
  BY DEF WritingInv, Writers, HalfInv, DurableInv, SingleInv, Carrier, At, id, isWrite,
     InMemory, MultiWrites, manager, numbers, verdict, store
<1> QED
  BY <1>2, <1>3, <1>4, <1>5, <1>6 DEF IInv, BoundInv

(* A commit starts a checkpoint: it owns the gate, and no writer is open. *)
LEMMA AutoCheckpointNowInv == ASSUME IInv, NEW c \in Client, AutoCheckpointNow(c) PROVE IInv'
<1> TypeOK
  BY DEF IInv
<1>1. client' \in [Client -> Connection]
  <2>1. /\ client \in [Client -> Connection]
        /\ client' = [client EXCEPT ![c] = [@ EXCEPT !.pc = "start", !.purpose = "auto"]]
        /\ "start" \in Pc /\ "auto" \in Purpose
    BY DEF AutoCheckpointNow, TypeOK, Pc, Purpose
  <2> QED
    BY <2>1 DEF Connection
<1>2. TypeOK'
  <2>1. queuedCheckpointCommits' \subseteq active'
    BY DEF AutoCheckpointNow, IInv, TypeOK, QueueInv, At, manager
  <2> QED
    BY <1>1, <2>1 DEF AutoCheckpointNow, TypeOK, Image, manager, numbers, verdict, store
<1> USE DEF IInv, AutoCheckpointNow, hasActiveWriteTransaction
<1>3. (ActiveInv /\ PurposeInv /\ MtxInv)'
  BY DEF ActiveInv, PurposeInv, isActive, MtxInv, At, isWrite, shouldForceCheckpoint,
     staysActive, InMemory
<1>4. (GateInv /\ QueueInv /\ AloneInv)'
  BY DEF GateInv, Owns, QueueInv, AloneInv, Writers, TypeOK, At, isWrite
<1>5. IdInv' /\ UNCHANGED <<Beginners, lastTransactionID>>
  BY DEF IdInv, isCommitted, Beginners, At, id, isWrite, hasPreCommitActions, staysActive,
     numbers, store
<1>6. (WritingInv /\ HalfInv /\ DurableInv /\ SingleInv)'
  BY DEF WritingInv, Writers, HalfInv, DurableInv, SingleInv, Carrier, At, id, isWrite,
     MultiWrites, numbers, verdict, store
<1> QED
  BY <1>2, <1>3, <1>4, <1>5, <1>6 DEF IInv, BoundInv

(* A commit leaves the checkpoint to the last writer: the gate is closed,  *)
(* and nobody's.                                                           *)
LEMMA AutoCheckpointRequestInv ==
    ASSUME IInv, NEW c \in Client, AutoCheckpointRequest(c)
    PROVE  IInv'
<1> TypeOK
  BY DEF IInv
<1>1. client' \in [Client -> Connection]
  BY DEF AutoCheckpointRequest, Goto, TypeOK, Connection, Pc
<1>2. TypeOK'
  <2>1. queuedCheckpointCommits' \subseteq active'
    BY DEF AutoCheckpointRequest, IInv, TypeOK, QueueInv, At, manager
  <2> QED
    BY <1>1, <2>1 DEF AutoCheckpointRequest, TypeOK, Image, manager, numbers, verdict, store
<1> USE DEF IInv, AutoCheckpointRequest, Goto
<1>3. (ActiveInv /\ PurposeInv /\ MtxInv)'
  BY DEF ActiveInv, PurposeInv, isActive, MtxInv, At, isWrite, shouldForceCheckpoint,
     staysActive, InMemory
<1>4. (GateInv /\ QueueInv /\ AloneInv)'
  BY DEF GateInv, Owns, QueueInv, AloneInv, At
<1>5. IdInv' /\ UNCHANGED <<Beginners, lastTransactionID>>
  BY DEF IdInv, isCommitted, Beginners, At, id, isWrite, hasPreCommitActions, staysActive,
     numbers, store
<1>6. (WritingInv /\ HalfInv /\ DurableInv /\ SingleInv)'
  BY DEF WritingInv, Writers, HalfInv, DurableInv, SingleInv, Carrier, At, id, isWrite,
     MultiWrites, numbers, verdict, store
<1> QED
  BY <1>2, <1>3, <1>4, <1>5, <1>6 DEF IInv, BoundInv

(* The last writer to leave owns the gate. *)
LEMMA LeaveAndWriteInv == ASSUME IInv, NEW c \in Client, LeaveAndWrite(c) PROVE IInv'
<1> TypeOK
  BY DEF IInv
<1>1. client' \in [Client -> Connection]
  <2>1. /\ client \in [Client -> Connection]
        /\ client' = [client EXCEPT ![c] = [@ EXCEPT !.pc = "start", !.purpose = "last"]]
        /\ "start" \in Pc /\ "last" \in Purpose
    BY DEF LeaveAndWrite, TypeOK, Pc, Purpose
  <2> QED
    BY <2>1 DEF Connection
<1>2. TypeOK'
  <2>1. queuedCheckpointCommits' \subseteq active'
    BY DEF LeaveAndWrite, IInv, TypeOK, QueueInv, At, manager
  <2> QED
    BY <1>1, <2>1 DEF LeaveAndWrite, TypeOK, Image, manager, numbers, verdict, store
<1> USE DEF IInv, LeaveAndWrite, lastToLeave, hasActiveWriteTransaction
<1>3. (ActiveInv /\ PurposeInv /\ MtxInv)'
  BY DEF ActiveInv, PurposeInv, isActive, MtxInv, At, isWrite, shouldForceCheckpoint,
     staysActive, InMemory
<1>4. (GateInv /\ QueueInv /\ AloneInv)'
  BY DEF GateInv, Owns, QueueInv, AloneInv, Writers, TypeOK, At, isWrite
<1>5. IdInv' /\ UNCHANGED <<Beginners, lastTransactionID>>
  BY DEF IdInv, isCommitted, Beginners, At, id, isWrite, hasPreCommitActions, staysActive,
     numbers, store
<1>6. (WritingInv /\ HalfInv /\ DurableInv /\ SingleInv)'
  BY DEF WritingInv, Writers, HalfInv, DurableInv, SingleInv, Carrier, At, id, isWrite,
     InMemory, MultiWrites, numbers, verdict, store
<1> QED
  BY <1>2, <1>3, <1>4, <1>5, <1>6 DEF IInv, BoundInv

(* A COMMIT returns: it is in the journal. *)
LEMMA LeaveInv == ASSUME IInv, NEW c \in Client, Leave(c) PROVE IInv'
<1> TypeOK
  BY DEF IInv
<1>1. client' \in [Client -> Connection]
  BY ConstantsAssumption DEF Leave, End, NoTxn, Kind, TypeOK, Connection, Pc, Purpose
<1>2. TypeOK'
  <2>1. queuedCheckpointCommits' \subseteq active' /\ (isWrite(c) => id(c) \in 1 .. MaxTxns)
    BY OwnId DEF Leave, IInv, TypeOK, QueueInv, At, isActive, isCommitted, staysActive,
       isWrite, manager
  <2>2. /\ memory' \subseteq 1 .. MaxTxns /\ half' \subseteq 1 .. MaxTxns
        /\ journal' \subseteq 1 .. MaxTxns /\ acked' \subseteq 1 .. MaxTxns
    BY <2>1 DEF Leave, acknowledge, TypeOK, store
  <2> QED
    BY <1>1, <2>1, <2>2 DEF Leave, TypeOK, manager, numbers, verdict, store
<1> USE ConstantsAssumption DEF IInv, Leave, acknowledge, End, NoTxn, At, id, isWrite,
     shouldForceCheckpoint, hasPreCommitActions, staysActive, InMemory, MultiWrites, manager,
     numbers, verdict, store, otherNumbers
<1>3. (ActiveInv /\ PurposeInv /\ MtxInv)'
  BY DEF ActiveInv, PurposeInv, isActive, MtxInv, TypeOK
<1>4. (GateInv /\ QueueInv /\ AloneInv)'
  BY DEF GateInv, Owns, QueueInv, AloneInv, Writers
<1>5. IdInv' /\ UNCHANGED <<Beginners, lastTransactionID>>
  BY DEF IdInv, isCommitted, ActiveInv, isActive, Beginners, TypeOK
<1>6. (WritingInv /\ HalfInv /\ SingleInv)'
  BY DEF WritingInv, Writers, HalfInv, ActiveInv, isActive, SingleInv, Carrier
<1>7. DurableInv'
  <2>1. isWrite(c) => /\ id(c) \in memory
                      /\ ~InMemory /\ ~disk.wrong => id(c) \in disk.applied \cup journal
    BY DEF DurableInv, IdInv, isCommitted
  <2>2. \A d \in Client : d # c => client'[d] = client[d]
    BY DEF TypeOK, Connection
  <2>3. At(c, "idle")'
    BY DEF TypeOK, Connection
  <2>4. acked' \subseteq acked \cup {id(c)} /\ (~isWrite(c) => acked' = acked)
    OBVIOUS
  <2>5. UNCHANGED <<memory, disk, journal, config, lastCompletedCheckpoint, checkpointsStarted>>
    OBVIOUS
  <2> HIDE DEF Leave, acknowledge, End
  <2> QED
    BY <2>1, <2>2, <2>3, <2>4, <2>5 DEF DurableInv
<1> QED
  BY <1>2, <1>3, <1>4, <1>5, <1>6, <1>7 DEF IInv, BoundInv

(* The gate is open again, and has a new owner. *)
LEMMA PassGateInv == ASSUME IInv, NEW c \in Client, PassGate(c) PROVE IInv'
<1> TypeOK
  BY DEF IInv
<1>1. client' \in [Client -> Connection]
  BY DEF PassGate, Goto, TypeOK, Connection, Pc
<1>2. TypeOK'
  <2>1. queuedCheckpointCommits' \subseteq active'
    BY DEF PassGate, IInv, TypeOK, QueueInv, At, manager
  <2> QED
    BY <1>1, <2>1 DEF PassGate, TypeOK, Image, manager, numbers, verdict, store
<1> USE DEF IInv, PassGate, Goto
<1>3. (ActiveInv /\ PurposeInv /\ MtxInv)'
  BY ConstantsAssumption DEF ActiveInv, PurposeInv, isActive, MtxInv, TypeOK, At, isWrite,
     shouldForceCheckpoint, staysActive, InMemory
<1>4. (GateInv /\ QueueInv /\ AloneInv)'
  BY DEF GateInv, Owns, QueueInv, AloneInv, TypeOK, At
<1>5. IdInv' /\ UNCHANGED <<Beginners, lastTransactionID>>
  BY DEF IdInv, isCommitted, Beginners, At, id, isWrite, hasPreCommitActions, staysActive,
     numbers, store
<1>6. (WritingInv /\ HalfInv /\ DurableInv /\ SingleInv)'
  BY DEF WritingInv, Writers, HalfInv, DurableInv, SingleInv, Carrier, At, id, isWrite,
     InMemory, MultiWrites, numbers, verdict, store
<1> QED
  BY <1>2, <1>3, <1>4, <1>5, <1>6 DEF IInv, BoundInv

(* The owner waits. *)
LEMMA DrainWaitInv == ASSUME IInv, NEW c \in Client, DrainWait(c) PROVE IInv'
<1> TypeOK
  BY DEF IInv
<1>1. client' \in [Client -> Connection]
  BY DEF DrainWait, TypeOK, Connection, Pc
<1>2. TypeOK'
  <2>1. queuedCheckpointCommits' \subseteq active'
    BY DEF DrainWait, IInv, TypeOK, QueueInv, At, manager
  <2> QED
    BY <1>1, <2>1 DEF DrainWait, TypeOK, Image, manager, numbers, verdict, store
<1> USE DEF IInv, DrainWait
<1>3. (ActiveInv /\ PurposeInv /\ MtxInv)'
  BY DEF ActiveInv, PurposeInv, isActive, MtxInv, At, isWrite, shouldForceCheckpoint,
     staysActive, InMemory
<1>4. (GateInv /\ QueueInv /\ AloneInv)'
  BY DEF GateInv, Owns, QueueInv, AloneInv, At, manager
<1>5. IdInv' /\ UNCHANGED <<Beginners, lastTransactionID>>
  BY DEF IdInv, isCommitted, Beginners, At, id, isWrite, hasPreCommitActions, staysActive,
     numbers, store
<1>6. (WritingInv /\ HalfInv /\ DurableInv /\ SingleInv)'
  BY DEF WritingInv, Writers, HalfInv, DurableInv, SingleInv, Carrier, At, id, isWrite,
     InMemory, MultiWrites, manager, numbers, verdict, store
<1> QED
  BY <1>2, <1>3, <1>4, <1>5, <1>6 DEF IInv, BoundInv

(* Only queued commits are left: the owner goes on, or it lets them        *)
(* commit.                                                                 *)
LEMMA DrainedInv == ASSUME IInv, NEW c \in Client, Drained(c) PROVE IInv'
<1> TypeOK
  BY DEF IInv
<1>1. client' \in [Client -> Connection]
  BY DEF Drained, afterDrain, Goto, TypeOK, Connection, Pc
<1>2. TypeOK'
  <2>1. queuedCheckpointCommits' \subseteq active'
    BY DEF Drained, IInv, TypeOK, QueueInv, At, manager
  <2> QED
    BY <1>1, <2>1 DEF Drained, TypeOK, Image, manager, numbers, verdict, store
<1> USE DEF IInv, Drained, awaited, afterDrain, Goto
<1>3. (ActiveInv /\ PurposeInv /\ MtxInv)'
  BY ConstantsAssumption DEF ActiveInv, PurposeInv, isActive, MtxInv, TypeOK, Connection, At,
     isWrite, shouldForceCheckpoint, staysActive, InMemory
<1>4. (GateInv /\ QueueInv /\ AloneInv)'
  BY DEF GateInv, Owns, QueueInv, ActiveInv, isActive, AloneInv, Writers, TypeOK, Connection,
     At, isWrite
<1>5. IdInv' /\ UNCHANGED <<Beginners, lastTransactionID>>
  BY DEF IdInv, isCommitted, Beginners, TypeOK, Connection, At, id, isWrite,
     hasPreCommitActions, staysActive, numbers, store
<1>6. (WritingInv /\ HalfInv /\ DurableInv /\ SingleInv)'
  BY DEF WritingInv, Writers, HalfInv, ActiveInv, DurableInv, SingleInv, Carrier, TypeOK,
     Connection, At, id, isWrite, InMemory, MultiWrites, numbers, verdict, store
<1> QED
  BY <1>2, <1>3, <1>4, <1>5, <1>6 DEF IInv, BoundInv

(* The queued commits are done. *)
LEMMA QueueDrainedInv == ASSUME IInv, NEW c \in Client, QueueDrained(c) PROVE IInv'
<1> TypeOK
  BY DEF IInv
<1>1. client' \in [Client -> Connection]
  BY DEF QueueDrained, afterDrain, Goto, TypeOK, Connection, Pc
<1>2. TypeOK'
  <2>1. queuedCheckpointCommits' \subseteq active'
    BY DEF QueueDrained, IInv, TypeOK, QueueInv, At, manager
  <2> QED
    BY <1>1, <2>1 DEF QueueDrained, TypeOK, Image, manager, numbers, verdict, store
<1> USE DEF IInv, QueueDrained, awaited, afterDrain, Goto
<1>3. (ActiveInv /\ PurposeInv /\ MtxInv)'
  BY ConstantsAssumption DEF ActiveInv, PurposeInv, isActive, MtxInv, TypeOK, At, isWrite,
     shouldForceCheckpoint, staysActive, InMemory
<1>4. (GateInv /\ QueueInv /\ AloneInv)'
  BY DEF GateInv, Owns, QueueInv, ActiveInv, isActive, AloneInv, Writers, TypeOK, At,
     isWrite
<1>5. IdInv' /\ UNCHANGED <<Beginners, lastTransactionID>>
  BY DEF IdInv, isCommitted, Beginners, At, id, isWrite, hasPreCommitActions, staysActive,
     numbers, store
<1>6. (WritingInv /\ HalfInv /\ DurableInv /\ SingleInv)'
  BY DEF WritingInv, Writers, PurposeInv, HalfInv, ActiveInv, isActive, DurableInv,
     SingleInv, Carrier, At, id, isWrite, shouldForceCheckpoint, staysActive, InMemory,
     MultiWrites, numbers, verdict, store
<1> QED
  BY <1>2, <1>3, <1>4, <1>5, <1>6 DEF IInv, BoundInv

(* The owner gives up: what the queue has committed in the meantime is     *)
(* behind it.                                                              *)
LEMMA DrainTimeoutInv == ASSUME IInv, NEW c \in Client, DrainTimeout(c) PROVE IInv'
<1> TypeOK
  BY DEF IInv
<1>1. client' \in [Client -> Connection]
  BY ConstantsAssumption DEF DrainTimeout, giveUp, Goto, End, NoTxn, Kind, TypeOK,
     Connection, Pc, Purpose
<1>2. TypeOK'
  <2>1. queuedCheckpointCommits' \subseteq active'
    BY DEF DrainTimeout, giveUp, IInv, TypeOK, QueueInv, At, manager
  <2> QED
    BY <1>1, <2>1 DEF DrainTimeout, giveUp, TypeOK, Image, manager, numbers, verdict, store
<1> USE DEF IInv, DrainTimeout, awaited, giveUp, Goto, End, NoTxn
<1>3. (ActiveInv /\ PurposeInv /\ MtxInv)'
  BY DEF ActiveInv, PurposeInv, isActive, MtxInv, TypeOK, Connection, At, isWrite,
     shouldForceCheckpoint, staysActive, InMemory
<1>4. (GateInv /\ QueueInv /\ AloneInv)'
  BY DEF GateInv, Owns, QueueInv, AloneInv, TypeOK, Connection, At
<1>5. IdInv' /\ UNCHANGED <<Beginners, lastTransactionID>>
  BY DEF IdInv, isCommitted, ActiveInv, isActive, Beginners, TypeOK, Connection, At, id,
     isWrite, hasPreCommitActions, staysActive, numbers, store
<1>6. (WritingInv /\ HalfInv /\ DurableInv /\ SingleInv)'
  BY DEF WritingInv, Writers, PurposeInv, HalfInv, ActiveInv, isActive, DurableInv,
     SingleInv, TypeOK, Connection, At, id, isWrite, shouldForceCheckpoint, staysActive,
     InMemory, MultiWrites, numbers, verdict, store
<1> QED
  BY <1>2, <1>3, <1>4, <1>5, <1>6 DEF IInv, BoundInv

(* The owner commits, alone. *)
LEMMA ReadyCommitInv == ASSUME IInv, NEW c \in Client, ReadyCommit(c) PROVE IInv'
<1> TypeOK
  BY DEF IInv
<1>1. client' \in [Client -> Connection]
  BY DEF ReadyCommit, Goto, TypeOK, Connection, Pc
<1>2. TypeOK'
  <2>1. queuedCheckpointCommits' \subseteq active' /\ active' \subseteq Client /\ id(c) \in 1 .. MaxTxns
    BY OwnId DEF ReadyCommit, applyCommit, IInv, TypeOK, QueueInv, At, isActive
  <2>2. /\ memory' \subseteq 1 .. MaxTxns /\ half' \subseteq 1 .. MaxTxns
        /\ journal' \subseteq 1 .. MaxTxns /\ acked' \subseteq 1 .. MaxTxns
    BY <2>1 DEF ReadyCommit, applyCommit, TypeOK
  <2>3. lastTimestamp' \in Nat
    BY DEF ReadyCommit, applyCommit, TypeOK
  <2> QED
    BY <1>1, <2>1, <2>2, <2>3 DEF ReadyCommit, TypeOK, otherNumbers
<1> USE DEF IInv, ReadyCommit, applyCommit, Goto
<1>3. (ActiveInv /\ PurposeInv /\ MtxInv)'
  BY DEF ActiveInv, PurposeInv, isActive, MtxInv, TypeOK, Connection, At, isWrite,
     shouldForceCheckpoint, staysActive, InMemory
<1>4. (GateInv /\ QueueInv /\ AloneInv)'
  BY DEF GateInv, Owns, QueueInv, AloneInv, Writers, TypeOK, Connection, At
<1>5. IdInv' /\ UNCHANGED <<Beginners, lastTransactionID>>
  BY DEF IdInv, isCommitted, ActiveInv, isActive, Beginners, TypeOK, Connection, At, id,
     isWrite, hasPreCommitActions, staysActive, otherNumbers
<1>6. (WritingInv /\ HalfInv /\ DurableInv /\ SingleInv)'
  BY DEF WritingInv, Writers, PurposeInv, HalfInv, ActiveInv, isActive, DurableInv,
     SingleInv, Carrier, TypeOK, Connection, At, id, isWrite, shouldForceCheckpoint,
     staysActive, InMemory, MultiWrites, otherNumbers
<1> QED
  BY <1>2, <1>3, <1>4, <1>5, <1>6 DEF IInv, BoundInv

(* The owner's commit is thrown half-way. *)
LEMMA ReadyCommitThrowsInv == ASSUME IInv, NEW c \in Client, ReadyCommitThrows(c) PROVE IInv'
<1> TypeOK
  BY DEF IInv
<1>1. client' \in [Client -> Connection]
  BY DEF ReadyCommitThrows, Goto, TypeOK, Connection, Pc
<1>2. TypeOK'
  <2>1. id(c) \in 1 .. MaxTxns
    BY OwnId DEF ReadyCommitThrows, At, isActive
  <2>2. half' \subseteq 1 .. MaxTxns /\ journal' \subseteq 1 .. MaxTxns
    BY <2>1 DEF ReadyCommitThrows, commitThrows, TypeOK
  <2>3. lastTimestamp' \in Nat
    BY DEF ReadyCommitThrows, commitThrows, TypeOK
  <2> QED
    BY <1>1, <2>2, <2>3 DEF ReadyCommitThrows, TypeOK, otherNumbers, verdict
<1> USE DEF IInv, ReadyCommitThrows, commitThrows, Goto
<1>3. (ActiveInv /\ PurposeInv /\ MtxInv)'
  BY DEF ActiveInv, PurposeInv, isActive, MtxInv, TypeOK, At, isWrite, shouldForceCheckpoint,
     staysActive, InMemory
<1>4. (GateInv /\ QueueInv /\ AloneInv)'
  BY DEF GateInv, Owns, QueueInv, AloneInv, TypeOK, At
<1>5. IdInv' /\ UNCHANGED <<Beginners, lastTransactionID>>
  BY DEF IdInv, isCommitted, PurposeInv, Beginners, At, id, isWrite, hasPreCommitActions,
     staysActive, otherNumbers
<1>6. (WritingInv /\ HalfInv /\ DurableInv /\ SingleInv)'
  BY DEF WritingInv, Writers, PurposeInv, HalfInv, ActiveInv, isActive, DurableInv,
     SingleInv, TypeOK, At, id, isWrite, shouldForceCheckpoint, staysActive, InMemory,
     MultiWrites, verdict, otherNumbers
<1> QED
  BY <1>2, <1>3, <1>4, <1>5, <1>6 DEF IInv, BoundInv

(* A queued commit is in memory, and takes the number of the checkpoint    *)
(* before the one that will hold it.                                       *)
LEMMA QueueCommitInv == ASSUME IInv, NEW c \in Client, QueueCommit(c) PROVE IInv'
<1> TypeOK
  BY DEF IInv
<1>1. client' \in [Client -> Connection]
  <2>1. /\ client \in [Client -> Connection]
        /\ client' = [client EXCEPT ![c] = [@ EXCEPT !.pc = "queueDone", !.ticket = checkpointsStarted]]
        /\ checkpointsStarted \in Nat
    BY DEF QueueCommit, TypeOK
  <2> QED
    BY <2>1 DEF Connection, Pc
<1>2. TypeOK'
  <2>1. queuedCheckpointCommits' \subseteq active' /\ id(c) \in 1 .. MaxTxns
    BY OwnId DEF QueueCommit, applyCommit, IInv, TypeOK, QueueInv, At, isActive, isCommitted,
       staysActive, isWrite, manager
  <2>2. /\ memory' \subseteq 1 .. MaxTxns /\ half' \subseteq 1 .. MaxTxns
        /\ journal' \subseteq 1 .. MaxTxns /\ acked' \subseteq 1 .. MaxTxns
    BY <2>1 DEF QueueCommit, applyCommit, TypeOK, store
  <2> QED
    BY <1>1, <2>1, <2>2 DEF QueueCommit, applyCommit, TypeOK, manager, numbers, verdict,
       store, otherNumbers
<1> USE DEF IInv, QueueCommit, applyCommit
<1>3. (ActiveInv /\ PurposeInv /\ MtxInv)'
  BY DEF ActiveInv, PurposeInv, isActive, MtxInv, TypeOK, At, isWrite, shouldForceCheckpoint,
     staysActive, InMemory
<1>4. (GateInv /\ QueueInv /\ AloneInv)'
  BY DEF GateInv, Owns, QueueInv, AloneInv, TypeOK, At
<1>5. IdInv' /\ UNCHANGED <<Beginners, lastTransactionID>>
  BY DEF IdInv, isCommitted, ActiveInv, isActive, Beginners, At, id, isWrite,
     hasPreCommitActions, staysActive, otherNumbers
<1>6. (WritingInv /\ HalfInv /\ DurableInv /\ SingleInv)'
  BY DEF WritingInv, Writers, QueueInv, PurposeInv, HalfInv, DurableInv, SingleInv, Carrier,
     TypeOK, At, id, isWrite, shouldForceCheckpoint, MultiWrites, otherNumbers
<1> QED
  BY <1>2, <1>3, <1>4, <1>5, <1>6 DEF IInv, BoundInv

(* A queued commit is thrown half-way. *)
LEMMA QueueCommitThrowsInv == ASSUME IInv, NEW c \in Client, QueueCommitThrows(c) PROVE IInv'
<1> TypeOK
  BY DEF IInv
<1>1. client' \in [Client -> Connection]
  BY DEF QueueCommitThrows, Goto, TypeOK, Connection, Pc
<1>2. TypeOK'
  <2>1. queuedCheckpointCommits' \subseteq active' /\ id(c) \in 1 .. MaxTxns
    BY OwnId DEF QueueCommitThrows, commitThrows, IInv, TypeOK, QueueInv, At, isActive,
       isCommitted, staysActive, isWrite, manager
  <2>2. /\ memory' \subseteq 1 .. MaxTxns /\ half' \subseteq 1 .. MaxTxns
        /\ journal' \subseteq 1 .. MaxTxns /\ acked' \subseteq 1 .. MaxTxns
    BY <2>1 DEF QueueCommitThrows, commitThrows, TypeOK, store
  <2> QED
    BY <1>1, <2>1, <2>2 DEF QueueCommitThrows, commitThrows, TypeOK, manager, numbers,
       verdict, store, otherNumbers
<1> USE DEF IInv, QueueCommitThrows, commitThrows, Goto
<1>3. (ActiveInv /\ PurposeInv /\ MtxInv)'
  BY DEF ActiveInv, PurposeInv, isActive, MtxInv, At, isWrite, shouldForceCheckpoint,
     staysActive, InMemory
<1>4. (GateInv /\ QueueInv /\ AloneInv)'
  BY DEF GateInv, Owns, QueueInv, AloneInv, TypeOK, At
<1>5. IdInv' /\ UNCHANGED <<Beginners, lastTransactionID>>
  BY DEF IdInv, isCommitted, PurposeInv, Beginners, At, id, isWrite, hasPreCommitActions,
     staysActive, otherNumbers
<1>6. (WritingInv /\ HalfInv /\ DurableInv /\ SingleInv)'
  BY DEF WritingInv, Writers, PurposeInv, HalfInv, ActiveInv, isActive, DurableInv,
     SingleInv, TypeOK, At, id, isWrite, shouldForceCheckpoint, MultiWrites, verdict,
     otherNumbers
<1> QED
  BY <1>2, <1>3, <1>4, <1>5, <1>6 DEF IInv, BoundInv

(* A queued commit has to go the ordinary way, or to roll back. *)
LEMMA QueueAbandonedInv == ASSUME IInv, NEW c \in Client, QueueAbandoned(c) PROVE IInv'
<1> TypeOK
  BY DEF IInv
<1>1. \/ /\ Moved(c) /\ client'[c].pc = "mustRollback" /\ client'[c].lockOf = client[c].lockOf
         /\ UNCHANGED <<mtx, checkpointPending, autoCheckpointRequested>>
      \/ Stopped(c, "forced") /\ ~checkpointPending
  <2>1. CASE mustReopen
    BY <2>1 DEF QueueAbandoned, Goto, TypeOK, Connection, Moved
  <2>2. CASE ~mustReopen
    BY <2>2, StopFacts DEF QueueAbandoned, Purpose, mustReopen
  <2> QED
    BY <2>1, <2>2
<1>2. client' \in [Client -> Connection]
  BY StopFacts DEF QueueAbandoned, Goto, TypeOK, Connection, Pc, Purpose
<1>3. TypeOK'
  <2>1. queuedCheckpointCommits' \subseteq active'
    BY DEF QueueAbandoned, stopNewTransactions, IInv, TypeOK, QueueInv, At, manager
  <2> QED
    BY <1>2, <2>1 DEF QueueAbandoned, stopNewTransactions, TypeOK, Image, manager, numbers,
       verdict, store
<1> USE DEF IInv, QueueAbandoned
<1>4. (ActiveInv /\ PurposeInv /\ MtxInv)'
  BY <1>1, ConstantsAssumption DEF ActiveInv, PurposeInv, isActive, MtxInv, At, isWrite,
     shouldForceCheckpoint, staysActive, InMemory, Moved, Stopped
<1>5. (GateInv /\ QueueInv /\ AloneInv)'
  BY <1>1 DEF GateInv, Owns, QueueInv, AloneInv, Writers, TypeOK, At, isWrite, Moved,
     Stopped
<1>6. IdInv' /\ UNCHANGED <<Beginners, lastTransactionID>>
  BY <1>1 DEF IdInv, isCommitted, Beginners, TypeOK, At, id, isWrite, hasPreCommitActions,
     staysActive, numbers, store, Moved, Stopped
<1>7. (WritingInv /\ HalfInv /\ DurableInv /\ SingleInv)'
  BY <1>1, ConstantsAssumption DEF WritingInv, Writers, AloneInv, GateInv, Owns, QueueInv,
     PurposeInv, HalfInv, ActiveInv, isActive, IdInv, DurableInv, isCommitted, SingleInv,
     Carrier, hasActiveWriteTransaction, TypeOK, Connection, At, id, isWrite,
     shouldForceCheckpoint, hasPreCommitActions, staysActive, InMemory, MultiWrites, manager,
     numbers, verdict, store, otherNumbers, Moved, Stopped
<1> QED
  BY <1>3, <1>4, <1>5, <1>6, <1>7 DEF IInv, BoundInv

(* A queued commit returns: a checkpoint that started after it is          *)
(* complete; or it writes its own.                                         *)
LEMMA QueueServedInv == ASSUME IInv, NEW c \in Client, QueueServed(c) PROVE IInv'
<1> TypeOK
  BY DEF IInv
<1>1. \/ /\ client'[c] = NoTxn /\ \A d \in Client \ {c} : client'[d] = client[d]
         /\ UNCHANGED <<mtx, checkpointPending, autoCheckpointRequested>>
         /\ \/ UNCHANGED acked
            \/ lastCompletedCheckpoint > client[c].ticket /\ acknowledge(c)
      \/ Stopped(c, "own") /\ UNCHANGED acked
  <2>1. CASE mustReopen \/ lastCompletedCheckpoint > client[c].ticket
    BY <2>1 DEF QueueServed, End, TypeOK
  <2>2. CASE ~(mustReopen \/ lastCompletedCheckpoint > client[c].ticket)
    BY <2>2, StopFacts DEF QueueServed, Purpose
  <2> QED
    BY <2>1, <2>2
<1>2. client' \in [Client -> Connection]
  BY StopFacts, ConstantsAssumption DEF QueueServed, End, NoTxn, TypeOK, Connection, Pc,
     Kind, Purpose
<1>3. TypeOK'
  <2>1. queuedCheckpointCommits' \subseteq active' /\ id(c) \in 1 .. MaxTxns
    BY OwnId DEF QueueServed, stopNewTransactions, IInv, TypeOK, QueueInv, At, isActive,
       isCommitted, staysActive, isWrite, manager, PurposeInv
  <2>2. /\ memory' \subseteq 1 .. MaxTxns /\ half' \subseteq 1 .. MaxTxns
        /\ journal' \subseteq 1 .. MaxTxns /\ acked' \subseteq 1 .. MaxTxns
    BY <2>1 DEF QueueServed, stopNewTransactions, acknowledge, TypeOK, store
  <2> QED
    BY <1>2, <2>1, <2>2 DEF QueueServed, stopNewTransactions, TypeOK, manager, numbers,
       verdict, store
<1> USE ConstantsAssumption DEF IInv, QueueServed, acknowledge, NoTxn, At, id, isWrite,
     shouldForceCheckpoint, hasPreCommitActions, staysActive, InMemory, MultiWrites, manager,
     numbers, verdict, store, otherNumbers
<1>4. (ActiveInv /\ MtxInv)'
  BY <1>1 DEF ActiveInv, isActive, MtxInv, Moved, Stopped
<1>5. PurposeInv'
  <2>1. \/ client'[c].pc = "idle" /\ client'[c] = NoTxn /\ client'[c].lockOf = 0
        \/ /\ client'[c].pc \in {"gate", "drain"} /\ client'[c].purpose = "own"
           /\ client'[c].lockOf = client[c].lockOf
    BY <1>1 DEF Stopped
  <2>2. \A d \in Client \ {c} : client'[d] = client[d]
    BY <1>1 DEF Stopped, Moved
  <2> QED
    BY <2>1, <2>2 DEF PurposeInv, At, staysActive, isWrite, shouldForceCheckpoint, InMemory
<1>6. (GateInv /\ QueueInv /\ AloneInv)'
  BY <1>1 DEF GateInv, Owns, QueueInv, AloneInv, Writers, TypeOK, Moved, Stopped
<1>7. IdInv' /\ UNCHANGED <<Beginners, lastTransactionID>>
  BY <1>1 DEF IdInv, isCommitted, ActiveInv, isActive, Beginners, TypeOK, Moved, Stopped
<1>8. (WritingInv /\ HalfInv /\ SingleInv)'
  BY <1>1 DEF WritingInv, Writers, PurposeInv, HalfInv, SingleInv, Carrier, TypeOK, Moved,
     Stopped
<1>9. DurableInv'
  <2>1. UNCHANGED <<memory, disk, journal, config, lastCompletedCheckpoint, checkpointsStarted>>
    BY DEF numbers
  <2>2. /\ id(c) \in memory
        /\ ~disk.wrong /\ lastCompletedCheckpoint > client[c].ticket => id(c) \in disk.applied
    BY DEF DurableInv, IdInv, isCommitted, PurposeInv, At
  <2>3. /\ acked' \subseteq acked \cup {id(c)}
        /\ acked' # acked => lastCompletedCheckpoint > client[c].ticket
    BY <1>1
  <2>4. \A d \in Client : \/ client'[d] = client[d]
                           \/ client'[d].pc \in {"idle", "gate", "drain"}
    BY <1>1 DEF Stopped, Moved
  <2> HIDE DEF QueueServed, acknowledge, NoTxn
  <2> QED
    BY <2>1, <2>2, <2>3, <2>4 DEF DurableInv, At, id, isWrite, InMemory
<1> QED
  BY <1>3, <1>4, <1>5, <1>6, <1>7, <1>8, <1>9 DEF IInv, BoundInv

(* A checkpoint is started: its image is what memory holds, no writer is   *)
(* open, and every open snapshot is at or after F.                         *)
LEMMA StartCheckpointInv == ASSUME IInv, NEW c \in Client, StartCheckpoint(c) PROVE IInv'
<1> TypeOK
  BY DEF IInv
<1>1. /\ oldestSnapshot \in Nat /\ oldestSnapshot <= lastTimestamp
      /\ \A d \in active : oldestSnapshot <= client[d].startTS
  <2> DEFINE S == {lastTimestamp} \cup {client[d].startTS : d \in active}
  <2>1. S \in SUBSET Nat /\ S # {}
    BY DEF TypeOK, Connection
  <2>2. Smallest(S) \in S /\ \A y \in S : Smallest(S) <= y
    <3> HIDE DEF S
    <3> QED
      BY <2>1, SmallestFacts
  <2> QED
    BY <2>1, <2>2 DEF oldestSnapshot
<1>2. client' \in [Client -> Connection]
  BY DEF StartCheckpoint, Goto, TypeOK, Connection, Pc
<1>3. /\ image'.applied \subseteq memory /\ (~checkpointFailed => image'.applied = memory)
      /\ image'.half = half \cup {id(d) : d \in Writers(active)}
      /\ image'.wrong = (disk.wrong \/ checkpointFailed)
      /\ image' = [applied |-> image'.applied, half |-> image'.half, wrong |-> image'.wrong]
  BY DEF StartCheckpoint, readable
<1>4. TypeOK'
  <2>1. image' \in Image
    <3>1. \A d \in active : id(d) \in 1 .. MaxTxns
      BY OwnId DEF IInv, ActiveInv
    <3>2. {id(d) : d \in Writers(active)} \in SUBSET (1 .. MaxTxns)
      BY <3>1 DEF Writers
    <3> QED
      BY <1>3, <3>2 DEF Image, TypeOK
  <2>2. checkpointTS' \in Nat /\ checkpointsStarted' \in Nat
    BY DEF StartCheckpoint, TypeOK
  <2> QED
    BY <1>2, <1>1, <2>1, <2>2 DEF StartCheckpoint, TypeOK
<1> USE ConstantsAssumption DEF IInv, StartCheckpoint, Goto, At, id, isWrite,
     shouldForceCheckpoint, hasPreCommitActions, staysActive, InMemory, MultiWrites, manager,
     numbers, verdict, store, otherNumbers
<1>5. (ActiveInv /\ PurposeInv /\ MtxInv)'
  BY DEF ActiveInv, PurposeInv, isActive, MtxInv, TypeOK
<1>6. (GateInv /\ QueueInv /\ AloneInv)'
  BY DEF GateInv, Owns, QueueInv, AloneInv, TypeOK
<1>7. IdInv' /\ UNCHANGED <<Beginners, lastTransactionID>>
  BY DEF IdInv, isCommitted, Beginners
<1>8. WritingInv'
  <2>1. Writers(active) = {}
    BY DEF AloneInv
  <2>2. image'.half = half
    BY <2>1, <1>3
  <2>3. ~rollbackFailed => half \subseteq disk.half
    BY <2>1 DEF HalfInv, Writers
  <2>4. \A d \in active : client'[d].startTS = client[d].startTS /\ client'[d].kind = client[d].kind
    BY DEF TypeOK, Connection
  <2> QED
    BY <1>1, <1>3, <2>1, <2>2, <2>3, <2>4 DEF WritingInv, Writers, TypeOK
<1>9. (HalfInv /\ DurableInv /\ SingleInv)'
  BY DEF HalfInv, DurableInv, GateInv, Owns, SingleInv, Carrier, Writers, TypeOK
<1> QED
  BY <1>4, <1>5, <1>6, <1>7, <1>8, <1>9 DEF IInv, BoundInv

(* A checkpoint is complete: its image is still what memory holds. *)
LEMMA CheckpointDoneInv == ASSUME IInv, NEW c \in Client, CheckpointDone(c) PROVE IInv'
<1> TypeOK
  BY DEF IInv
<1>1. client' \in [Client -> Connection]
  BY ConstantsAssumption DEF CheckpointDone, writingEnds, End, NoTxn, Kind, TypeOK,
     Connection, Pc, Purpose
<1>2. TypeOK'
  <2>1. queuedCheckpointCommits' \subseteq active' /\ (isWrite(c) => id(c) \in 1 .. MaxTxns)
    BY OwnId DEF CheckpointDone, writingEnds, IInv, TypeOK, QueueInv, At, isActive,
       isCommitted, staysActive, isWrite, manager
  <2>2. /\ memory' \subseteq 1 .. MaxTxns /\ half' \subseteq 1 .. MaxTxns
        /\ journal' \subseteq 1 .. MaxTxns /\ acked' \subseteq 1 .. MaxTxns
    BY <2>1 DEF CheckpointDone, writingEnds, installImage, acknowledge, TypeOK, store
  <2> QED
    BY <1>1, <2>1, <2>2 DEF CheckpointDone, writingEnds, installImage, TypeOK, manager,
       numbers, verdict, store
<1> USE ConstantsAssumption DEF IInv, CheckpointDone, writingEnds, installImage, acknowledge,
     End, NoTxn, At, id, isWrite, shouldForceCheckpoint, hasPreCommitActions, staysActive,
     InMemory, MultiWrites, manager, numbers, verdict, store, otherNumbers
<1>3. (ActiveInv /\ PurposeInv /\ MtxInv)'
  BY DEF ActiveInv, PurposeInv, isActive, MtxInv
<1>4. (GateInv /\ QueueInv /\ AloneInv)'
  BY DEF GateInv, Owns, QueueInv, AloneInv, TypeOK
<1>5. IdInv'
  <2>1. image.applied \subseteq memory /\ disk'.applied \in {image.applied, disk.applied}
        /\ journal' \subseteq journal
    BY DEF QueueInv, WritingInv
  <2>2. \A d \in Client : d # c => client'[d] = client[d]
    BY DEF TypeOK, Connection
  <2>3. At(c, "idle")' /\ id(c)' = 0 /\ ~isCommitted(c)'
    BY DEF TypeOK, Connection, isCommitted
  <2>4. UNCHANGED <<memory, active, lastTransactionID>> /\ c \notin active
    BY DEF ActiveInv, isActive
  <2> HIDE DEF CheckpointDone, writingEnds, installImage, End, acknowledge
  <2>5. \A d \in Client : id(d)' \in {0, id(d)} /\ (isCommitted(d)' => isCommitted(d) /\ id(d)' = id(d))
    BY <2>2, <2>3 DEF isCommitted
  <2>6. \A d \in Client : (At(d, "begin")' => At(d, "begin")) /\ (d \in active => client'[d] = client[d])
    BY <2>2, <2>3, <2>4
  <2>7. (memory \cup journal \cup disk.applied \subseteq 1 .. lastTransactionID)'
    BY <2>1, <2>4 DEF IdInv
  <2>8. \A d \in active' : id(d)' \notin memory' \cup disk'.applied
                          /\ (hasPreCommitActions(d)' => id(d)' \notin journal')
    BY <2>1, <2>4, <2>6 DEF IdInv, TypeOK
  <2>9. \A d \in Client : id(d)' \in 0 .. lastTransactionID'
    BY <2>4, <2>5 DEF IdInv, TypeOK
  <2> QED
    BY <2>4, <2>5, <2>6, <2>7, <2>8, <2>9 DEF IdInv, TypeOK
<1>6. UNCHANGED <<Beginners, lastTransactionID>>
  BY DEF Beginners
<1>7. (WritingInv /\ HalfInv /\ SingleInv)'
  <2>1. /\ disk' = image /\ ~checkpointWriting' /\ Writers(active) = {}
        /\ checkpointFailed \/ image.applied = memory
        /\ half \subseteq image.half
    BY DEF QueueInv, WritingInv
  <2>2. UNCHANGED <<half, memory, active, config, checkpointFailed, rollbackFailed>> /\ c \notin active
    BY DEF ActiveInv, isActive
  <2>3. \A d \in active : d \in Client /\ client'[d] = client[d]
    BY <2>2 DEF TypeOK, Connection
  <2> HIDE DEF CheckpointDone, acknowledge, writingEnds, installImage, End
  <2>4. WritingInv' /\ HalfInv'
    BY <2>1, <2>2 DEF WritingInv, HalfInv
  <2>5. Writers(active)' = {}
    BY <2>1, <2>2, <2>3 DEF Writers
  <2>6. SingleInv'
    BY <2>1, <2>2, <2>3, <2>5 DEF SingleInv
  <2> QED
    BY <2>4, <2>6
<1>8. DurableInv'
  <2>1. /\ disk' = image /\ UNCHANGED memory
        /\ ~image.wrong => image.applied = memory /\ ~disk.wrong
    BY DEF QueueInv, WritingInv, TypeOK, Image
  <2>2. \A d \in Client : d # c => client'[d] = client[d]
    BY DEF TypeOK, Connection
  <2>3. At(c, "idle")'
    BY DEF TypeOK, Connection
  <2>4. ~disk.wrong => acked' \subseteq memory
    BY DEF DurableInv, IdInv, isCommitted
  <2>5. lastCompletedCheckpoint' = checkpointsStarted /\ UNCHANGED <<config, checkpointsStarted>>
    OBVIOUS
  <2>6. \A d \in Client : isCommitted(d) => id(d) \in memory
    BY DEF IdInv
  <2> HIDE DEF CheckpointDone, acknowledge, writingEnds, installImage, End
  <2> QED
    BY <2>1, <2>2, <2>3, <2>4, <2>5, <2>6 DEF DurableInv, isCommitted, TypeOK, PurposeInv
<1> QED
  BY <1>2, <1>3, <1>4, <1>5, <1>6, <1>7, <1>8 DEF IInv, BoundInv

(* A checkpoint that carries no forced commit is refused. *)
LEMMA CheckpointRefusedInv == ASSUME IInv, NEW c \in Client, CheckpointRefused(c) PROVE IInv'
<1> TypeOK
  BY DEF IInv
<1>1. client' \in [Client -> Connection]
  BY ConstantsAssumption DEF CheckpointRefused, writingEnds, End, NoTxn, Kind, TypeOK,
     Connection, Pc, Purpose
<1>2. TypeOK'
  <2>1. queuedCheckpointCommits' \subseteq active'
    BY DEF CheckpointRefused, writingEnds, IInv, TypeOK, QueueInv, At, manager
  <2> QED
    BY <1>1, <2>1 DEF CheckpointRefused, writingEnds, TypeOK, Image, manager, numbers,
       verdict, store
<1> USE DEF IInv, CheckpointRefused, writingEnds, End, NoTxn
<1>3. (ActiveInv /\ PurposeInv /\ MtxInv)'
  BY DEF ActiveInv, PurposeInv, isActive, MtxInv, At, isWrite, shouldForceCheckpoint,
     staysActive, InMemory
<1>4. (GateInv /\ QueueInv /\ AloneInv)'
  BY DEF GateInv, Owns, QueueInv, AloneInv, TypeOK, At
<1>5. IdInv' /\ UNCHANGED <<Beginners, lastTransactionID>>
  BY DEF IdInv, isCommitted, ActiveInv, isActive, Beginners, TypeOK, At, id, isWrite,
     hasPreCommitActions, staysActive, numbers, store
<1>6. (WritingInv /\ HalfInv /\ DurableInv /\ SingleInv)'
  BY DEF WritingInv, Writers, HalfInv, DurableInv, SingleInv, Carrier, At, id, isWrite,
     InMemory, MultiWrites, numbers, verdict, store
<1> QED
  BY <1>2, <1>3, <1>4, <1>5, <1>6 DEF IInv, BoundInv

(* A checkpoint fails, with its image on disk or without. *)
LEMMA CheckpointFailsInv == ASSUME IInv, NEW c \in Client, CheckpointFails(c) PROVE IInv'
<1> TypeOK
  BY DEF IInv
<1>1. client' \in [Client -> Connection]
  BY ConstantsAssumption DEF CheckpointFails, writingEnds, End, NoTxn, Kind, TypeOK,
     Connection, Pc, Purpose
<1>2. TypeOK'
  <2>1. queuedCheckpointCommits' \subseteq active'
    BY DEF CheckpointFails, writingEnds, IInv, TypeOK, QueueInv, At, manager
  <2> QED
    BY <1>1, <2>1 DEF CheckpointFails, writingEnds, installImage, TypeOK, Image, manager,
       numbers, verdict, store
<1> USE ConstantsAssumption DEF IInv, CheckpointFails, writingEnds, installImage, End, NoTxn,
     At, id, isWrite, shouldForceCheckpoint, hasPreCommitActions, staysActive, InMemory,
     MultiWrites, manager, numbers, verdict, store, otherNumbers
<1>3. (ActiveInv /\ PurposeInv /\ MtxInv)'
  BY DEF ActiveInv, PurposeInv, isActive, MtxInv
<1>4. (GateInv /\ QueueInv /\ AloneInv)'
  BY DEF GateInv, Owns, QueueInv, AloneInv, TypeOK
<1>5. IdInv'
  <2>1. image.applied \subseteq memory /\ disk'.applied \in {image.applied, disk.applied}
        /\ journal' \subseteq journal
    BY DEF QueueInv, WritingInv
  <2>2. \A d \in Client : d # c => client'[d] = client[d]
    BY DEF TypeOK, Connection
  <2>3. At(c, "idle")' /\ id(c)' = 0 /\ ~isCommitted(c)'
    BY DEF TypeOK, Connection, isCommitted
  <2>4. UNCHANGED <<memory, active, lastTransactionID>> /\ c \notin active
    BY DEF ActiveInv, isActive
  <2> HIDE DEF CheckpointFails, writingEnds, installImage, End
  <2>5. \A d \in Client : id(d)' \in {0, id(d)} /\ (isCommitted(d)' => isCommitted(d) /\ id(d)' = id(d))
    BY <2>2, <2>3 DEF isCommitted
  <2>6. \A d \in Client : (At(d, "begin")' => At(d, "begin")) /\ (d \in active => client'[d] = client[d])
    BY <2>2, <2>3, <2>4
  <2>7. (memory \cup journal \cup disk.applied \subseteq 1 .. lastTransactionID)'
    BY <2>1, <2>4 DEF IdInv
  <2>8. \A d \in active' : id(d)' \notin memory' \cup disk'.applied
                          /\ (hasPreCommitActions(d)' => id(d)' \notin journal')
    BY <2>1, <2>4, <2>6 DEF IdInv, TypeOK
  <2>9. \A d \in Client : id(d)' \in 0 .. lastTransactionID'
    BY <2>4, <2>5 DEF IdInv, TypeOK
  <2> QED
    BY <2>4, <2>5, <2>6, <2>7, <2>8, <2>9 DEF IdInv, TypeOK
<1>6. UNCHANGED <<Beginners, lastTransactionID>>
  BY DEF Beginners
<1>7. (WritingInv /\ HalfInv /\ DurableInv /\ SingleInv)'
  BY DEF WritingInv, Writers, QueueInv, PurposeInv, HalfInv, IdInv, DurableInv, isCommitted,
     SingleInv
<1> QED
  BY <1>2, <1>3, <1>4, <1>5, <1>6, <1>7 DEF IInv, BoundInv

(* A rollback takes the half away. *)
LEMMA RollbackInv == ASSUME IInv, NEW c \in Client, Rollback(c) PROVE IInv'
<1> TypeOK
  BY DEF IInv
<1>1. client' \in [Client -> Connection]
  BY ConstantsAssumption DEF Rollback, leavesByRollback, End, NoTxn, Kind, TypeOK,
     Connection, Pc, Purpose
<1>2. TypeOK'
  <2>1. queuedCheckpointCommits' \subseteq active' /\ (isWrite(c) => id(c) \in 1 .. MaxTxns)
    BY OwnId DEF Rollback, leavesByRollback, cancelIfLast, IInv, TypeOK, QueueInv, At,
       isActive, isCommitted, staysActive, isWrite, manager
  <2>2. /\ memory' \subseteq 1 .. MaxTxns /\ half' \subseteq 1 .. MaxTxns
        /\ journal' \subseteq 1 .. MaxTxns /\ acked' \subseteq 1 .. MaxTxns
    BY <2>1 DEF Rollback, leavesByRollback, cancelIfLast, TypeOK, store
  <2> QED
    BY <1>1, <2>1, <2>2 DEF Rollback, leavesByRollback, cancelIfLast, TypeOK, manager,
       numbers, verdict, store
<1> USE ConstantsAssumption DEF IInv, Rollback, leavesByRollback, cancelIfLast, End, NoTxn,
     At, id, isWrite, shouldForceCheckpoint, hasPreCommitActions, staysActive, InMemory,
     MultiWrites, manager, numbers, verdict, store, otherNumbers
<1>3. (ActiveInv /\ PurposeInv /\ MtxInv)'
  BY DEF ActiveInv, PurposeInv, isActive, MtxInv, TypeOK
<1>4. (GateInv /\ QueueInv /\ AloneInv)'
  BY DEF GateInv, Owns, QueueInv, AloneInv, Writers
<1>5. IdInv' /\ UNCHANGED <<Beginners, lastTransactionID>>
  BY DEF IdInv, isCommitted, Beginners, TypeOK
<1>6. WritingInv'
  <2>1. \A d \in active' : d \in active /\ client'[d] = client[d]
    BY DEF TypeOK, Connection
  <2>2. half' \subseteq half
    OBVIOUS
  <2>3. UNCHANGED <<checkpointWriting, lastTimestamp, checkpointTS, oldestReaderTS, image, memory,
                    disk, checkpointFailed, rollbackFailed>>
    OBVIOUS
  <2> HIDE DEF Rollback, leavesByRollback, cancelIfLast, End
  <2> QED
    BY <2>1, <2>2, <2>3 DEF WritingInv, Writers
<1>7. HalfInv'
  <2>1. \A d \in active \ {c} : d \in active' /\ client'[d] = client[d]
    BY DEF TypeOK, Connection
  <2>2. half' \subseteq half /\ (At(c, "mustRollback") => id(c) \notin half')
    OBVIOUS
  <2>3. UNCHANGED <<disk, rollbackFailed>>
    OBVIOUS
  <2> HIDE DEF Rollback, leavesByRollback, cancelIfLast, End
  <2> QED
    BY <2>1, <2>2, <2>3 DEF HalfInv
<1>8. (DurableInv /\ SingleInv)'
  BY DEF DurableInv, SingleInv, Carrier, Writers
<1> QED
  BY <1>2, <1>3, <1>4, <1>5, <1>6, <1>7, <1>8 DEF IInv, BoundInv

(* A rollback that throws leaves a half behind, and is known to. *)
LEMMA RollbackThrowsInv == ASSUME IInv, NEW c \in Client, RollbackThrows(c) PROVE IInv'
<1> TypeOK
  BY DEF IInv
<1>1. client' \in [Client -> Connection]
  BY ConstantsAssumption DEF RollbackThrows, leavesByRollback, End, NoTxn, Kind, TypeOK,
     Connection, Pc, Purpose
<1>2. TypeOK'
  <2>1. queuedCheckpointCommits' \subseteq active' /\ id(c) \in 1 .. MaxTxns
    BY OwnId DEF RollbackThrows, leavesByRollback, cancelIfLast, IInv, TypeOK, QueueInv, At,
       isActive, isCommitted, staysActive, isWrite, manager
  <2>2. /\ memory' \subseteq 1 .. MaxTxns /\ half' \subseteq 1 .. MaxTxns
        /\ journal' \subseteq 1 .. MaxTxns /\ acked' \subseteq 1 .. MaxTxns
    BY <2>1 DEF RollbackThrows, leavesByRollback, cancelIfLast, TypeOK, store
  <2> QED
    BY <1>1, <2>1, <2>2 DEF RollbackThrows, leavesByRollback, cancelIfLast, TypeOK, manager,
       numbers, verdict, store
<1> USE DEF IInv, RollbackThrows, leavesByRollback, cancelIfLast, End, NoTxn
<1>3. (ActiveInv /\ PurposeInv /\ MtxInv)'
  BY DEF ActiveInv, PurposeInv, isActive, MtxInv, TypeOK, At, isWrite, shouldForceCheckpoint,
     staysActive, InMemory
<1>4. (GateInv /\ QueueInv /\ AloneInv)'
  BY DEF GateInv, Owns, QueueInv, AloneInv, Writers, At, isWrite
<1>5. IdInv' /\ UNCHANGED <<Beginners, lastTransactionID>>
  BY DEF IdInv, isCommitted, Beginners, TypeOK, At, id, isWrite, hasPreCommitActions,
     staysActive, numbers
<1>6. (WritingInv /\ HalfInv /\ DurableInv /\ SingleInv)'
  BY DEF WritingInv, Writers, HalfInv, ActiveInv, isActive, DurableInv, SingleInv, At, id,
     isWrite, InMemory, MultiWrites, numbers
<1> QED
  BY <1>2, <1>3, <1>4, <1>5, <1>6 DEF IInv, BoundInv

(* A crash forgets the connections; what it leaves in memory is on disk.   *)
LEMMA CrashInv == ASSUME IInv, Crash PROVE IInv'
<1> TypeOK
  BY DEF IInv
<1> USE ConstantsAssumption
<1>1. \A c \in Client : client'[c] = NoTxn /\ client' \in [Client -> Connection]
  BY DEF Crash, NoTxn, Connection, Pc, Kind, Purpose
<1>2. \/ checkpointWriting /\ disk' = image /\ journal' = {}
      \/ UNCHANGED <<disk, journal>>
  BY DEF Crash, installImage
<1>3. checkpointWriting => /\ image.applied \subseteq memory /\ (~image.wrong => image.applied = memory)
                           /\ disk.wrong => image.wrong
  BY DEF IInv, WritingInv, TypeOK, Image
<1>4. /\ memory' = disk'.applied \cup journal' /\ half' = disk'.half
      /\ active' = {} /\ queuedCheckpointCommits' = {} /\ mtx' = Nobody
      /\ ~InMemory /\ UNCHANGED <<config, lastTransactionID, checkpointCalls, acked>>
  BY DEF Crash
<1>5. /\ ~commitQueuedNow' /\ ~checkpointPending' /\ ~checkpointWriting'
      /\ ~autoCheckpointRequested' /\ lastCompletedCheckpoint' = 0 /\ checkpointsStarted' = 0
  BY DEF Crash
<1>6. \A c \in Client : /\ client'[c].pc = "idle" /\ client'[c].kind = "READ"
                        /\ client'[c].id = 0 /\ client'[c].lockOf = 0
  BY <1>1 DEF NoTxn
<1>7. TypeOK'
  <2>1. client' \in [Client -> Connection]
    BY DEF Crash, NoTxn, Connection, Pc, Kind, Purpose
  <2>2. disk' \in Image /\ image' \in Image /\ journal' \subseteq 1 .. MaxTxns
    BY <1>2 DEF Crash, TypeOK, Image
  <2>3. memory' \subseteq 1 .. MaxTxns /\ half' \subseteq 1 .. MaxTxns
    BY <1>4, <2>2 DEF Image
  <2>4. /\ lastTimestamp' \in Nat /\ lastBlockingTransactionID' \in 0 .. MaxTxns
        /\ checkpointsStarted' \in Nat /\ lastCompletedCheckpoint' \in Nat
        /\ checkpointTS' \in Nat /\ oldestReaderTS' \in Nat
    BY DEF Crash
  <2>5. /\ checkpointFailed' \in BOOLEAN /\ rollbackFailed' \in BOOLEAN
        /\ checkpointCarriesForcedCommit' \in BOOLEAN /\ carried' \in BOOLEAN
        /\ commitQueuedNow' \in BOOLEAN /\ checkpointPending' \in BOOLEAN
        /\ checkpointWriting' \in BOOLEAN /\ autoCheckpointRequested' \in BOOLEAN
    BY DEF Crash
  <2> QED
    BY <1>4, <2>1, <2>2, <2>3, <2>4, <2>5 DEF TypeOK
<1>8. (ActiveInv /\ PurposeInv /\ MtxInv /\ GateInv /\ QueueInv /\ AloneInv)'
  BY <1>1, <1>4, <1>5, <1>6 DEF ActiveInv, isActive, PurposeInv, MtxInv, GateInv, Owns, QueueInv,
     AloneInv, Writers, At, staysActive, isWrite, shouldForceCheckpoint
<1>9. IdInv'
  <2>1. memory' \cup journal' \cup disk'.applied \subseteq 1 .. lastTransactionID
    BY <1>2, <1>3, <1>4 DEF IInv, IdInv
  <2> QED
    BY <1>4, <1>6, <2>1 DEF IdInv, isCommitted, isWrite, At, id, TypeOK
<1>10. BoundInv'
  <2>1. Beginners' = {}
    BY <1>6 DEF Beginners, At
  <2> QED
    BY <1>4, <2>1, FS_EmptySet DEF BoundInv, TypeOK
<1>11. (WritingInv /\ HalfInv)'
  BY <1>4, <1>5 DEF WritingInv, HalfInv
<1>12. DurableInv'
  <2>1. ~disk'.wrong => acked \subseteq disk'.applied \cup journal'
    BY <1>2, <1>3, <1>4 DEF IInv, DurableInv
  <2> QED
    BY <1>4, <1>5, <1>6, <2>1 DEF DurableInv, At
<1>13. SingleInv'
  BY <1>4 DEF SingleInv, Writers
<1> QED
  BY <1>7, <1>8, <1>9, <1>10, <1>11, <1>12, <1>13 DEF IInv

(* An opened database satisfies the invariant.                             *)
LEMMA InitInv == Init => IInv
<1> SUFFICES ASSUME Init PROVE IInv
  OBVIOUS
<1> USE ConstantsAssumption
<1>1. client \in [Client -> Connection] /\ \A c \in Client : client[c] = NoTxn
  BY DEF Init, NoTxn, Connection, Pc, Kind, Purpose
<1>2. \A c \in Client : /\ client[c].pc = "idle" /\ client[c].kind = "READ"
                        /\ client[c].id = 0 /\ client[c].lockOf = 0
  BY <1>1 DEF NoTxn
<1>3. TypeOK
  <2>1. image \in Image /\ disk \in Image
    BY DEF Init, Image
  <2>2. /\ lastTransactionID \in 0 .. MaxTxns /\ lastBlockingTransactionID \in 0 .. MaxTxns
        /\ checkpointCalls \in 0 .. MaxCheckpoints
    BY DEF Init
  <2> QED
    BY <1>1, <2>1, <2>2 DEF Init, TypeOK
<1>4. ActiveInv /\ PurposeInv /\ MtxInv /\ GateInv /\ QueueInv /\ AloneInv
  BY <1>1, <1>2 DEF Init, ActiveInv, isActive, PurposeInv, MtxInv, GateInv, Owns, QueueInv,
     AloneInv, Writers, At, staysActive, isWrite, shouldForceCheckpoint
<1>5. IdInv
  BY <1>2 DEF Init, IdInv, isCommitted, isWrite, At, id
<1>6. BoundInv
  <2>1. Beginners = {}
    BY <1>2 DEF Beginners, At
  <2> QED
    BY <2>1, FS_EmptySet DEF BoundInv, Init
<1>7. WritingInv /\ HalfInv /\ SingleInv
  BY DEF Init, WritingInv, HalfInv, SingleInv, Writers
<1>8. DurableInv
  BY <1>2 DEF Init, DurableInv, At
<1> QED
  BY <1>3, <1>4, <1>5, <1>6, <1>7, <1>8 DEF IInv

(* Every step of the manager, of a connection and of a crash keeps it.     *)
THEOREM Invariance == Spec => []IInv
<1>1. IInv /\ [Next]_vars => IInv'
  <2> SUFFICES ASSUME IInv, [Next]_vars PROVE IInv'
    OBVIOUS
  <2>1. ASSUME NEW c \in Client, Ask(c) PROVE IInv'
    BY <2>1, BeginCallInv, RefreshSnapshotInv, LockWaitInv, FailAfterStatementInv,
       CommitReadInv, CommitWriteInv, CommitWriteThrowsInv, CommitForcedInv,
       CommitAloneInv, CheckpointInv
       DEF Ask
  <2>2. ASSUME NEW c \in Client, Serve(c) PROVE IInv'
    BY <2>2, BeginTransactionInv, BeginRefusedInv, CancelAutoCheckpointRequestInv,
       LockGrantedInv, LockTimeoutInv, NoCheckpointNowInv, AutoCheckpointNowInv,
       AutoCheckpointRequestInv, LeaveAndWriteInv, LeaveInv, PassGateInv,
       DrainWaitInv, DrainedInv, QueueDrainedInv, DrainTimeoutInv,
       ReadyCommitInv, ReadyCommitThrowsInv, QueueCommitInv,
       QueueCommitThrowsInv, QueueAbandonedInv, QueueServedInv,
       StartCheckpointInv, CheckpointDoneInv, CheckpointRefusedInv,
       CheckpointFailsInv
       DEF Serve
  <2>3. ASSUME NEW c \in Client, Abort(c) PROVE IInv'
    BY <2>3, RollbackInv, RollbackThrowsInv DEF Abort
  <2>4. CASE UNCHANGED vars
    BY <2>4 DEF vars, manager, numbers, verdict, store, IInv, TypeOK, ActiveInv, isActive,
       staysActive, At, PurposeInv, isWrite, shouldForceCheckpoint, InMemory, MtxInv, GateInv,
       Owns, QueueInv, AloneInv, Writers, IdInv, id, hasPreCommitActions, isCommitted, BoundInv,
       Beginners, WritingInv, DurableInv, HalfInv, SingleInv, MultiWrites, Carrier
  <2> QED
    BY <2>1, <2>2, <2>3, <2>4, CrashInv DEF Next
<1> QED
  BY <1>1, InitInv, PTL DEF Spec
-----------------------------------------------------------------------------
(* The fields of the manager, of the connections and of the files keep     *)
(* their types: no step gives out a number beyond the transactions begun,  *)
(* and only active commits are queued (transaction_manager.h).             *)
THEOREM TypeCorrect == Spec => []TypeOK
<1>1. IInv => TypeOK
  BY DEF IInv
<1> QED
  BY <1>1, Invariance, PTL

(* A COMMIT that returned without error is in the journal or in the last   *)
(* checkpoint at every moment, so that a crash keeps it, whatever commit,  *)
(* journal, rollback or checkpoint failed (commit, checkpointNoLock): the  *)
(* only exception is a checkpoint that passed the gate after a failed one. *)
THEOREM AckedDurable == Spec => []AckedIsDurable
<1>1. IInv => AckedIsDurable
  BY DEF IInv, DurableInv, AckedIsDurable
<1> QED
  BY <1>1, Invariance, PTL

(* No snapshot open while a checkpoint is written is older than the        *)
(* oldest reader for which checkpointNoLock keeps the old blocks.          *)
THEOREM SnapshotsKept == Spec => []OpenSnapshotsAreKept
<1>1. IInv => OpenSnapshotsAreKept
  BY DEF IInv, WritingInv, OpenSnapshotsAreKept
<1> QED
  BY <1>1, Invariance, PTL

(* The gate of stopNewTransactions has at most one owner and, closed by an *)
(* automatic request, none; nobody that others wait for stands at it; and  *)
(* behind it no writer is open and nothing is committed while the          *)
(* checkpoint is written.                                                  *)
THEOREM GateSound == Spec => []GateIsSound
<1>1. IInv => GateIsSound
  <2> SUFFICES ASSUME IInv PROVE GateIsSound
    OBVIOUS
  <2>1. Owners = {c \in Client : Owns(c)}
    BY DEF Owners, Owns
  <2>2. Cardinality(Owners) <= 1
    <3>1. CASE Owners = {}
      BY <3>1, FS_EmptySet
    <3>2. ASSUME NEW c \in Owners PROVE Cardinality(Owners) <= 1
      <4>1. Owners = {c}
        BY <2>1, <3>2 DEF IInv, GateInv
      <4>2. Cardinality({c}) = 1
        BY FS_Singleton
      <4> QED
        BY <4>1, <4>2
    <3> QED
      BY <3>1, <3>2
  <2>3. GateHasOneOwner
    BY <2>1, <2>2 DEF GateHasOneOwner, IInv, GateInv
  <2>4. NobodyActiveAtGate
    BY DEF NobodyActiveAtGate, IInv, ActiveInv, isActive, staysActive, PurposeInv, At
  <2>5. NothingCommitsWhileWriting
    BY DEF NothingCommitsWhileWriting, IInv, WritingInv
  <2> QED
    BY <2>3, <2>4, <2>5 DEF GateIsSound
<1> QED
  BY <1>1, Invariance, PTL

(* The disk changes by the image of the checkpoint that is being written.  *)
LEMMA DiskStep ==
    ASSUME IInv, [Next]_vars
    PROVE  disk' = disk \/ (disk' = image /\ checkpointWriting)
<1>1. ASSUME NEW c \in Client, Ask(c) \/ Abort(c) PROVE disk' = disk
  BY <1>1 DEF Ask, Abort, BeginCall, RefreshSnapshot, LockWait, FailAfterStatement, CommitRead,
     CommitWrite, CommitWriteThrows, CommitForced, CommitAlone, Checkpoint,
     Rollback, RollbackThrows, leavesByRollback, store
<1>2. ASSUME NEW c \in Client, writingEnds(c) PROVE checkpointWriting
  BY <1>2 DEF writingEnds, IInv, QueueInv
<1>3. ASSUME NEW c \in Client, Serve(c) PROVE disk' = disk \/ (disk' = image /\ checkpointWriting)
  BY <1>2, <1>3 DEF Serve, installImage, BeginTransaction, BeginRefused, CancelAutoCheckpointRequest, LockGranted,
     LockTimeout, NoCheckpointNow, AutoCheckpointNow, AutoCheckpointRequest,
     LeaveAndWrite, Leave, PassGate, DrainWait, Drained, QueueDrained,
     DrainTimeout, ReadyCommit, ReadyCommitThrows, QueueCommit,
     QueueCommitThrows, QueueAbandoned, QueueServed, StartCheckpoint,
     CheckpointDone, CheckpointRefused, CheckpointFails, store
<1> QED
  BY <1>1, <1>3 DEF Next, Crash, installImage, vars, store

(* Only a rollback that failed in this process can bring a part of a       *)
(* transaction to the disk: the checkpoints written until then add none.   *)
THEOREM HalfOnly == Spec => HalfOnlyAfterFailedRollback
<1>1. IInv /\ [Next]_vars => [~rollbackFailed => disk'.half \subseteq disk.half]_vars
  BY DiskStep DEF IInv, WritingInv
<1> QED
  BY <1>1, Invariance, PTL DEF Spec, HalfOnlyAfterFailedRollback

(* Once a checkpoint has failed no writer is open, nothing is requested    *)
(* and no commit is about to ask for a checkpoint.                         *)
FailedInv ==
    checkpointFailed =>
        /\ Writers(active) = {} /\ ~autoCheckpointRequested
        /\ \A c \in Client : ~At(c, "committed")

(* Nothing that needs an open writer, a commit or a BEGIN happens after a  *)
(* failed checkpoint, so that nobody comes to write one.                   *)
LEMMA FailedStep ==
    ASSUME IInv, FailedInv, [Next]_vars
    PROVE  /\ FailedInv'
           /\ checkpointFailed => \A c \in Client : WantsCheckpoint(c)' => WantsCheckpoint(c)
<1> DEFINE NobodyComes == \A d \in Client : WantsCheckpoint(d)' => WantsCheckpoint(d)
<1> TypeOK /\ client \in [Client -> Connection] /\ active \subseteq Client
  BY DEF IInv, TypeOK
<1>1. CASE ~checkpointFailed
  <2>1. ASSUME NEW c \in Client, Ask(c) \/ Abort(c) PROVE checkpointFailed' = checkpointFailed
    BY <2>1 DEF Ask, Abort, BeginCall, RefreshSnapshot, LockWait, FailAfterStatement, CommitRead,
       CommitWrite, CommitWriteThrows, CommitForced, CommitAlone, Checkpoint,
       Rollback, RollbackThrows, leavesByRollback, verdict
  <2>2. ASSUME NEW c \in Client, Serve(c)
        PROVE  checkpointFailed' = checkpointFailed \/ CheckpointFails(c)
    BY <2>2 DEF Serve, BeginTransaction, BeginRefused, CancelAutoCheckpointRequest, LockGranted,
       LockTimeout, NoCheckpointNow, AutoCheckpointNow, AutoCheckpointRequest,
       LeaveAndWrite, Leave, PassGate, DrainWait, Drained, QueueDrained,
       DrainTimeout, ReadyCommit, ReadyCommitThrows, QueueCommit,
       QueueCommitThrows, QueueAbandoned, QueueServed, StartCheckpoint,
       CheckpointDone, CheckpointRefused, verdict
  <2>3. ASSUME NEW c \in Client, CheckpointFails(c) PROVE FailedInv'
    <3>1. At(c, "writing") /\ mtx = Nobody /\ c \notin active
      BY <2>3 DEF CheckpointFails, writingEnds, IInv, ActiveInv, isActive, At
    <3>2. Writers(active) = {} /\ ~autoCheckpointRequested
      BY <3>1 DEF IInv, QueueInv, WritingInv, GateInv, Owns, At
    <3>3. \A d \in Client : ~At(d, "committed")
      BY <3>1, ConstantsAssumption DEF IInv, MtxInv, At
    <3>4. /\ UNCHANGED <<active, autoCheckpointRequested>>
          /\ client' = [client EXCEPT ![c] = NoTxn]
      BY <2>3 DEF CheckpointFails, writingEnds, End
    <3> QED
      BY <3>1, <3>2, <3>3, <3>4 DEF FailedInv, Writers, isWrite, At, NoTxn
  <2> QED
    BY <1>1, <2>1, <2>2, <2>3 DEF FailedInv, Next, Crash, vars, verdict
<1>2. CASE checkpointFailed
  <2>1. /\ mustReopen /\ ~autoCheckpointRequested
        /\ \A d \in Client : ~At(d, "committed") /\ (isWrite(d) => ~isActive(d))
    BY <1>2 DEF FailedInv, mustReopen, Writers, IInv, ActiveInv
  <2>2. ASSUME NEW c \in Client, client'[c].kind = client[c].kind \/ c \notin active',
               \A d \in Client \ {c} : client'[d] = client[d],
               active' \subseteq active, UNCHANGED autoCheckpointRequested,
               client'[c].pc # "committed"
        PROVE  FailedInv'
    BY <2>1, <2>2 DEF FailedInv, Writers, isWrite, At, IInv, ActiveInv
  <2>3. ASSUME NEW c \in Client, Ask(c) PROVE FailedInv' /\ NobodyComes
    <3>1. CASE \E k \in Kinds : BeginCall(c, k)
      <4>1. At(c, "idle") /\ c \notin active
        BY <3>1 DEF BeginCall, IInv, ActiveInv, isActive, At
      <4>2. client'[c].pc = "begin" /\ \A d \in Client \ {c} : client'[d] = client[d]
        BY <3>1 DEF BeginCall, Connection
      <4>3. UNCHANGED <<active, autoCheckpointRequested>>
        BY <3>1 DEF BeginCall, manager
      <4> QED
        BY <2>2, <4>1, <4>2, <4>3 DEF WantsCheckpoint
    <3>2. CASE CommitRead(c)
      <4>1. client'[c].pc = "leaving" /\ client'[c].kind = client[c].kind
            /\ \A d \in Client \ {c} : client'[d] = client[d]
        BY <3>2 DEF CommitRead, Goto, Connection
      <4>2. active' \subseteq active /\ UNCHANGED autoCheckpointRequested
        BY <3>2 DEF CommitRead, manager
      <4> QED
        BY <2>2, <4>1, <4>2 DEF WantsCheckpoint
    <3>3. At(c, "open") => ~isWrite(c)
      BY <2>1 DEF isActive, At
    <3> QED
      BY <2>1, <2>3, <3>1, <3>2, <3>3
         DEF Ask, RefreshSnapshot, LockWait, FailAfterStatement, Running, commitsAtOnce,
             CommitWrite, CommitWriteThrows, CommitForced, CommitAlone, Checkpoint,
             shouldForceCheckpoint, hasPreCommitActions, isWrite
  <2>4. ASSUME NEW c \in Client, Serve(c) PROVE FailedInv' /\ NobodyComes
    <3>1. client[c].pc \in {"ready", "queued"} => FALSE
      BY <2>1 DEF isActive, At, IInv, PurposeInv, staysActive, shouldForceCheckpoint, isWrite
    <3>2. ~BeginTransaction(c) /\ ~CancelAutoCheckpointRequest(c) /\ ~NoCheckpointNow(c)
          /\ ~AutoCheckpointNow(c) /\ ~AutoCheckpointRequest(c) /\ ~LeaveAndWrite(c)
          /\ ~ReadyCommit(c) /\ ~ReadyCommitThrows(c) /\ ~QueueCommit(c)
          /\ ~QueueCommitThrows(c) /\ ~QueueAbandoned(c)
      BY <2>1, <3>1
         DEF BeginTransaction, CancelAutoCheckpointRequest, NoCheckpointNow, AutoCheckpointNow,
             AutoCheckpointRequest, LeaveAndWrite, lastToLeave, ReadyCommit, ReadyCommitThrows,
             QueueCommit, QueueCommitThrows, QueueAbandoned, At
    <3>3. UNCHANGED <<active, autoCheckpointRequested>>
      BY <2>1, <2>4, <3>2
         DEF Serve, BeginRefused, LockGranted, LockTimeout, Leave, PassGate, DrainWait, Drained,
             QueueDrained, DrainTimeout, QueueServed, StartCheckpoint, CheckpointDone,
             CheckpointRefused, CheckpointFails, writingEnds, manager
    <3>4. CASE BeginRefused(c) \/ Leave(c) \/ QueueServed(c) \/ CheckpointDone(c)
               \/ CheckpointRefused(c) \/ CheckpointFails(c)
      <4>1. client' = [client EXCEPT ![c] = NoTxn] /\ c \notin active
        BY <2>1, <3>4 DEF BeginRefused, Leave, QueueServed, CheckpointDone, CheckpointRefused,
           CheckpointFails, writingEnds, End, IInv, ActiveInv, isActive, At
      <4> QED
        BY <2>2, <3>3, <4>1 DEF WantsCheckpoint, NoTxn
    <3>5. CASE LockGranted(c) \/ LockTimeout(c)
      <4>1. client'[c].pc \in {client[c].pc, "mustRollback"} /\ client'[c].kind = client[c].kind
            /\ \A d \in Client \ {c} : client'[d] = client[d]
        BY <3>5 DEF LockGranted, LockTimeout, Connection
      <4> QED
        BY <2>1, <2>2, <3>3, <4>1 DEF WantsCheckpoint, At
    <3>6. CASE DrainWait(c)
      BY <1>2, <3>6, <3>3, <2>1 DEF DrainWait, FailedInv, WantsCheckpoint, Writers, isWrite, At
    <3>7. CASE PassGate(c) \/ Drained(c) \/ QueueDrained(c) \/ StartCheckpoint(c)
      <4>1. WantsCheckpoint(c)
        BY <3>7 DEF PassGate, Drained, QueueDrained, StartCheckpoint, At, WantsCheckpoint
      <4>2. client'[c].pc # "committed" /\ client'[c].kind = client[c].kind
            /\ \A d \in Client \ {c} : client'[d] = client[d]
        BY <3>7 DEF PassGate, Drained, QueueDrained, StartCheckpoint, Goto, afterDrain, Connection
      <4> QED
        BY <2>2, <3>3, <4>1, <4>2 DEF WantsCheckpoint
    <3>8. CASE DrainTimeout(c)
      <4>1. \A d \in Client \ {c} : client'[d] = client[d]
        BY <3>8 DEF DrainTimeout, giveUp, Goto, End, Connection
      <4>2. client'[c].pc \in {"idle", "mustRollback"} /\ c \notin active
        <5>1. ~staysActive(c)
          BY <2>1, <3>8 DEF DrainTimeout, isActive, At, IInv, PurposeInv, staysActive,
             shouldForceCheckpoint, isWrite
        <5>2. client' = [client EXCEPT ![c] = NoTxn]
          BY <3>8, <5>1 DEF DrainTimeout, giveUp, End
        <5>3. c \notin active
          BY <3>8, <5>1 DEF DrainTimeout, IInv, ActiveInv, isActive, At
        <5> QED
          BY <5>2, <5>3 DEF NoTxn
      <4> QED
        BY <2>2, <3>3, <4>1, <4>2 DEF WantsCheckpoint
    <3> QED
      BY <2>4, <3>2, <3>4, <3>5, <3>6, <3>7, <3>8 DEF Serve
  <2>5. ASSUME NEW c \in Client, Abort(c) PROVE FailedInv' /\ NobodyComes
    <3>1. leavesByRollback(c)
      BY <2>5 DEF Abort, Rollback, RollbackThrows
    <3>2. client' = [client EXCEPT ![c] = NoTxn] /\ active' \subseteq active /\ c \notin active'
      BY <3>1 DEF leavesByRollback, End
    <3>3. UNCHANGED autoCheckpointRequested
      BY <2>1, <3>1 DEF leavesByRollback, cancelIfLast
    <3> QED
      BY <2>2, <3>2, <3>3 DEF WantsCheckpoint, NoTxn
  <2>6. CASE Crash
    BY <2>6 DEF Crash, FailedInv, WantsCheckpoint, NoTxn
  <2>7. CASE UNCHANGED vars
    BY <2>7 DEF vars, manager, verdict, FailedInv, WantsCheckpoint, Writers, isWrite, At
  <2> QED
    BY <2>3, <2>4, <2>5, <2>6, <2>7 DEF Next
<1> QED
  BY <1>1, <1>2

(* After a failed checkpoint nobody new comes to write one, and only one   *)
(* written after it brings what it left of memory to the disk              *)
(* (throwIfCheckpointFailedNoLock, stopNewTransactionsAndWaitForOthers).   *)
THEOREM OnlyTheGate == Spec => OnlyTheGateOutlivesFailure
<1>1. Init => FailedInv
  BY DEF Init, FailedInv
<1>2. IInv /\ FailedInv /\ [Next]_vars => FailedInv'
  BY FailedStep
<1>3. IInv /\ FailedInv /\ [Next]_vars =>
        [/\ checkpointFailed => \A c \in Client : WantsCheckpoint(c)' => WantsCheckpoint(c)
         /\ disk'.wrong => disk.wrong \/ checkpointFailed]_vars
  BY FailedStep, DiskStep DEF IInv, WritingInv
<1> QED
  BY <1>1, <1>2, <1>3, Invariance, PTL DEF Spec, OnlyTheGateOutlivesFailure

(* Memory and the journal change by commits, checkpoints and crashes.      *)
LEMMA CommitStep ==
    ASSUME [Next]_vars
    PROVE  \/ UNCHANGED <<memory, journal>>
           \/ Crash
           \/ \E c \in Client :
                 \/ writingEnds(c) /\ memory' = memory /\ (journal' = journal \/ journal' = {})
                 \/ CommitWrite(c) \/ CommitWriteThrows(c)
                 \/ ReadyCommit(c) \/ ReadyCommitThrows(c)
                 \/ QueueCommit(c) \/ QueueCommitThrows(c)
<1>1. ASSUME NEW c \in Client, Ask(c) \/ Abort(c)
      PROVE  \/ UNCHANGED <<memory, journal>> \/ CommitWrite(c) \/ CommitWriteThrows(c)
  BY <1>1 DEF Ask, Abort, BeginCall, RefreshSnapshot, LockWait, FailAfterStatement, CommitRead,
     CommitForced, CommitAlone, Checkpoint,
     Rollback, RollbackThrows, leavesByRollback, store
<1>2. ASSUME NEW c \in Client, Serve(c)
      PROVE  \/ UNCHANGED <<memory, journal>>
             \/ writingEnds(c) /\ memory' = memory /\ (journal' = journal \/ journal' = {})
             \/ ReadyCommit(c) \/ ReadyCommitThrows(c)
             \/ QueueCommit(c) \/ QueueCommitThrows(c)
  BY <1>2 DEF Serve, installImage, BeginTransaction, BeginRefused, CancelAutoCheckpointRequest, LockGranted,
     LockTimeout, NoCheckpointNow, AutoCheckpointNow, AutoCheckpointRequest,
     LeaveAndWrite, Leave, PassGate, DrainWait, Drained, QueueDrained,
     DrainTimeout, QueueAbandoned, QueueServed, StartCheckpoint, CheckpointDone,
     CheckpointRefused, CheckpointFails, store
<1> QED
  BY <1>1, <1>2 DEF Next, vars, store

(* Where one writer is allowed, a commit reaches the journal only on top   *)
(* of durable commits; and outside the queue a commit with a pre-commit    *)
(* action is alone when it is applied (Transaction::commit).               *)
THEOREM Orderly == Spec => CommitsAreOrderly
<1>1. IInv /\ [Next]_vars =>
        [~MultiWrites /\ journal \subseteq journal' /\ journal # journal' =>
            memory \subseteq disk.applied \cup journal]_vars
  <2> SUFFICES ASSUME IInv, [Next]_vars, ~MultiWrites,
                      journal \subseteq journal', journal # journal'
               PROVE  memory \subseteq disk.applied \cup journal
    BY DEF vars, store
  <2>1. ASSUME NEW c \in Client, c \in active, isWrite(c), ~InMemory
        PROVE  memory \subseteq disk.applied \cup journal
    BY <2>1 DEF IInv, SingleInv, Writers
  <2>2. ASSUME NEW c \in Client, CommitWrite(c) \/ CommitWriteThrows(c)
        PROVE  memory \subseteq disk.applied \cup journal
    <3>1. c \in active /\ isWrite(c) /\ ~InMemory
      BY <2>2 DEF CommitWrite, CommitWriteThrows, commitsAtOnce, Running, applyCommit, commitThrows,
         store, At, IInv, ActiveInv, isActive
    <3> QED
      BY <3>1, <2>1
  <2>3. ASSUME NEW c \in Client, ReadyCommit(c) \/ ReadyCommitThrows(c) PROVE FALSE
    BY <2>3 DEF ReadyCommit, ReadyCommitThrows, applyCommit, commitThrows, At, IInv, PurposeInv,
       staysActive, shouldForceCheckpoint
  <2>4. ASSUME NEW c \in Client, QueueCommit(c) \/ QueueCommitThrows(c) PROVE FALSE
    BY <2>4 DEF QueueCommit, QueueCommitThrows, applyCommit, commitThrows, At, IInv, PurposeInv
  <2>5. ~Crash
    BY DEF Crash, installImage
  <2> QED
    BY CommitStep, <2>2, <2>3, <2>4, <2>5
<1>2. IInv /\ [Next]_vars =>
        [\A c \in active :
            hasPreCommitActions(c) /\ ~At(c, "queued") /\ id(c) \in memory' \ memory =>
                active = {c}]_vars
  <2> SUFFICES ASSUME IInv, [Next]_vars, NEW c \in active,
                      hasPreCommitActions(c), ~At(c, "queued"), id(c) \in memory' \ memory
               PROVE  active = {c}
    BY DEF vars, store
  <2>1. c \in Client /\ id(c) # 0 /\ id(c) \notin disk.applied \cup journal
    BY DEF IInv, TypeOK, IdInv
  <2>2. ASSUME NEW d \in Client, memory' = memory \cup {id(d)} PROVE d = c
    BY <2>1, <2>2 DEF IInv, IdInv
  <2>3. ASSUME NEW d \in Client, CommitWrite(d) PROVE active = {c}
    BY <2>2, <2>3 DEF CommitWrite, commitsAtOnce, applyCommit
  <2>4. ASSUME NEW d \in Client, ReadyCommit(d) PROVE active = {c}
    BY <2>2, <2>4 DEF ReadyCommit, applyCommit, IInv, AloneInv
  <2>5. ASSUME NEW d \in Client, QueueCommit(d) PROVE active = {c}
    BY <2>2, <2>5 DEF QueueCommit, applyCommit
  <2>6. ~Crash
    BY <2>1 DEF Crash, installImage, IInv, WritingInv
  <2>7. ASSUME NEW d \in Client,
               CommitWriteThrows(d) \/ ReadyCommitThrows(d) \/ QueueCommitThrows(d)
        PROVE  FALSE
    BY <2>7 DEF CommitWriteThrows, ReadyCommitThrows, QueueCommitThrows
  <2> QED
    BY CommitStep, <2>3, <2>4, <2>5, <2>6, <2>7
<1> QED
  BY <1>1, <1>2, Invariance, PTL
     DEF Spec, CommitsAreOrderly, SingleWriterStandsOnDurable, PreCommitRunsAlone
=============================================================================
