------------------------- MODULE CheckpointRecovery -------------------------
(***************************************************************************)
(* The three files of a database and the steps that change them: a commit  *)
(* that appends to the journal (wal.cpp), a checkpoint (checkpointer.cpp,  *)
(* shadow_file.cpp), and the recovery of the next opening                  *)
(* (wal_replayer.cpp).  The process or the machine may die between any two *)
(* steps, during recovery too.                                             *)
(*                                                                         *)
(* A file has what the operating system shows (`data`, `shadow`, `wal`)    *)
(* and what is on the medium (`dataDisk`, ...): only a sync makes them     *)
(* equal, and a crash keeps any mixture of the two.  The code syncs no     *)
(* directory: creations and removals are taken to become durable in their  *)
(* order, at the latest with the next sync, as journaling file systems do. *)
(*                                                                         *)
(* The content of a table is the set of transactions applied to it.  The   *)
(* data file is reduced to one page of each sort: the header; `index`, a   *)
(* page that keeps its place and is replaced through the shadow file; and  *)
(* the pages that are written directly at a place the header does not      *)
(* designate (columns, overflow), and designated by the next header.       *)
(***************************************************************************)
EXTENDS Integers, Sequences, FiniteSets, SequencesExt

CONSTANTS
    Page,           \* pages of the data file that hold columns
    MaxTxns,        \* bound: write transactions
    MaxCheckpoints, \* bound: checkpoints started
    MaxCrashes      \* bound: crashes

ASSUME PageAssumption == Cardinality(Page) >= 2
ASSUME BoundsAssumption == MaxTxns \in Nat /\ MaxCheckpoints \in Nat /\ MaxCrashes \in Nat

VARIABLES
    pc,             \* the next step of the engine
    mem,            \* transactions applied in memory
    header,         \* StorageManager::databaseHeader
    forced,         \* the transaction that this checkpoint makes durable, or 0
    fresh,          \* the page this checkpoint wrote
    toApply,        \* shadow pages not copied yet
    data, dataDisk,
    shadow, shadowDisk,
    wal, walDisk,
    lastTxn, checkpoints, crashes,
    acked           \* transactions whose COMMIT returned

memory == <<mem, header, forced, fresh, toApply>>
bounds == <<lastTxn, checkpoints, crashes>>
vars == <<pc, memory, data, dataDisk, shadow, shadowDisk, wal, walDisk, bounds, acked>>

----------------------------------------------------------------------------
(* What a page holds when it was written half, or was never written. *)
Garbage == {0}

NoShadow == [state |-> "absent", header |-> [at |-> 0, content |-> Garbage], index |-> Garbage]
PartShadow == [state |-> "partial", header |-> NoShadow.header, index |-> Garbage]

Mark == 0                   \* the CHECKPOINT record; a COMMIT record is its transaction
NoWal == [exists |-> FALSE, log |-> <<>>, torn |-> FALSE]
EmptyWal == [exists |-> TRUE, log |-> <<>>, torn |-> FALSE]
append(w, r) == [exists |-> TRUE, log |-> Append(w.log, r), torn |-> w.torn]

isLastRecordCheckpoint(w) == w.log # <<>> /\ Last(w.log) = Mark
commits(w) == Range(w.log) \ {Mark}

(* The header, and what it designates, are of the same checkpoint. *)
OneImage(d) ==
    /\ d.index = d.header.content
    /\ d.page[d.header.at] = d.header.content

shadowApplied(d, s) == [header |-> s.header, index |-> s.index, page |-> d.page]

(* What an opening that is not disturbed serves from these files. *)
Recovered(d, s, w) ==
    LET image == IF isLastRecordCheckpoint(w) /\ s.state # "absent" THEN shadowApplied(d, s) ELSE d
    IN  IF ~(image.header.at \in Page /\ OneImage(image)) THEN Garbage
        ELSE image.header.content \cup
             (IF w.exists /\ ~isLastRecordCheckpoint(w) THEN commits(w) ELSE {})

durableState == Recovered(dataDisk, shadowDisk, walDisk)

Init ==
    /\ pc = "open"
    /\ mem = {} /\ forced = 0 /\ toApply = {}
    /\ header \in [at : Page, content : {{}}]
    /\ fresh = header.at
    /\ data = [header |-> header, index |-> {}, page |-> [p \in Page |-> {}]]
    /\ dataDisk = data
    /\ shadow = NoShadow /\ shadowDisk = NoShadow
    /\ wal = NoWal /\ walDisk = NoWal
    /\ lastTxn = 0 /\ checkpoints = 0 /\ crashes = 0
    /\ acked = {}

(* syncFile on one file: the file, and the removals made before it. *)
removed(s, onDisk) == IF s.state = "absent" THEN s ELSE onDisk
walRemoved(w, onDisk) == IF w.exists THEN onDisk ELSE w

syncData ==
    /\ dataDisk' = data
    /\ shadowDisk' = removed(shadow, shadowDisk)
    /\ walDisk' = walRemoved(wal, walDisk)

syncShadow ==
    /\ shadowDisk' = shadow
    /\ walDisk' = walRemoved(wal, walDisk)
    /\ UNCHANGED dataDisk

syncWal ==
    /\ walDisk' = wal
    /\ shadowDisk' = removed(shadow, shadowDisk)
    /\ UNCHANGED dataDisk

medium == <<dataDisk, shadowDisk, walDisk>>

----------------------------------------------------------------------------
(* Commits *)

(* Transaction::commit: applied in memory, then appended to the journal.   *)
LogCommittedWAL ==
    /\ pc = "open" /\ lastTxn < MaxTxns
    /\ lastTxn' = lastTxn + 1
    /\ mem' = mem \cup {lastTxn'}
    /\ wal' = append(wal, lastTxn')
    /\ pc' = "committing"
    /\ UNCHANGED <<header, forced, fresh, toApply, data, shadow, medium, checkpoints, crashes, acked>>

CommitSynced ==
    /\ pc = "committing"
    /\ syncWal
    /\ acked' = acked \cup {lastTxn}
    /\ pc' = "open"
    /\ UNCHANGED <<memory, data, shadow, wal, bounds>>

(* Mutant: pages of the last checkpoint are given out again. *)
OptimisticWriteAnywhere(p) ==
    /\ pc = "open" /\ data.page[p] # Garbage
    /\ data' = [data EXCEPT !.page[p] = Garbage]
    /\ UNCHANGED <<pc, memory, shadow, wal, medium, bounds, acked>>

(* A COPY that is not committed writes its pages directly, where the       *)
(* header designates nothing.                                              *)
OptimisticWrite(p) ==
    /\ pc = "open" /\ p # header.at /\ data.page[p] # Garbage
    /\ data' = [data EXCEPT !.page[p] = Garbage]
    /\ UNCHANGED <<pc, memory, shadow, wal, medium, bounds, acked>>

(* A forced commit: applied in memory, nothing to the journal, and a       *)
(* checkpoint at once.  Otherwise CHECKPOINT, or the automatic one.        *)
StartCheckpoint ==
    /\ pc = "open" /\ checkpoints < MaxCheckpoints
    /\ checkpoints' = checkpoints + 1
    /\ \/ UNCHANGED <<lastTxn, mem, forced>>
       \/ /\ lastTxn < MaxTxns /\ lastTxn' = lastTxn + 1
          /\ mem' = mem \cup {lastTxn'} /\ forced' = lastTxn'
    /\ pc' = "storage"
    /\ UNCHANGED <<header, fresh, toApply, data, shadow, wal, medium, crashes, acked>>

----------------------------------------------------------------------------
(* Checkpointer::writeCheckpoint, in its order *)

CheckpointStorage(p) ==
    /\ pc = "storage" /\ p # header.at
    /\ data' = [data EXCEPT !.page[p] = mem]
    /\ fresh' = p
    /\ pc' = "serialize"
    /\ UNCHANGED <<mem, header, forced, toApply, shadow, wal, medium, bounds, acked>>

(* Index pages, catalog, metadata and header go to shadow pages; some of   *)
(* them may already be in the file.  The header in memory is the new one.  *)
SerializeAndWriteHeader ==
    /\ pc = "serialize"
    /\ shadow' = PartShadow
    /\ header' = [at |-> fresh, content |-> mem]
    /\ pc' = "flushShadow"
    /\ UNCHANGED <<mem, forced, fresh, toApply, data, wal, medium, bounds, acked>>

FlushShadow ==
    /\ pc = "flushShadow"
    /\ shadow' = [state |-> "complete", header |-> header, index |-> mem]
    /\ pc' = "syncShadow"
    /\ UNCHANGED <<memory, data, wal, medium, bounds, acked>>

SyncShadow ==
    /\ pc = "syncShadow"
    /\ syncShadow
    /\ pc' = "syncData"
    /\ UNCHANGED <<memory, data, shadow, wal, bounds, acked>>

(* Mutant: the pages written directly are not synced before the mark. *)
SkipSyncData ==
    /\ pc = "syncData"
    /\ pc' = "logMark"
    /\ UNCHANGED <<memory, data, shadow, wal, medium, bounds, acked>>

SyncData ==
    /\ pc = "syncData"
    /\ syncData
    /\ pc' = "logMark"
    /\ UNCHANGED <<memory, data, shadow, wal, bounds, acked>>

LogCheckpoint ==
    /\ pc = "logMark"
    /\ wal' = append(wal, Mark)
    /\ pc' = "syncMark"
    /\ UNCHANGED <<memory, data, shadow, medium, bounds, acked>>

SyncMark ==
    /\ pc = "syncMark"
    /\ syncWal
    /\ toApply' = {"header", "index"}
    /\ pc' = "apply"
    /\ UNCHANGED <<mem, header, forced, fresh, data, shadow, wal, bounds, acked>>

ApplyShadowPage(s) ==
    /\ pc = "apply" /\ s \in toApply
    /\ data' = [data EXCEPT ![s] = shadow[s]]
    /\ toApply' = toApply \ {s}
    /\ UNCHANGED <<pc, mem, header, forced, fresh, shadow, wal, medium, bounds, acked>>

SyncApplied ==
    /\ pc = "apply" /\ toApply = {}
    /\ syncData
    /\ pc' = "clearWal"
    /\ UNCHANGED <<memory, data, shadow, wal, bounds, acked>>

ClearWal ==
    /\ pc = "clearWal"
    /\ wal' = EmptyWal
    /\ pc' = "resetWal"
    /\ UNCHANGED <<memory, data, shadow, medium, bounds, acked>>

ResetWal ==
    /\ pc = "resetWal"
    /\ wal' = NoWal
    /\ pc' = "resetShadow"
    /\ UNCHANGED <<memory, data, shadow, medium, bounds, acked>>

(* The checkpoint is over, and with it the forced commit that it carries. *)
ResetShadow ==
    /\ pc = "resetShadow"
    /\ shadow' = NoShadow
    /\ acked' = IF forced = 0 THEN acked ELSE acked \cup {forced}
    /\ forced' = 0
    /\ pc' = "open"
    /\ UNCHANGED <<mem, header, fresh, toApply, data, wal, medium, bounds>>

(* It throws before it changed anything that is served (no group swapped   *)
(* yet, even if pages are written): the database stays open.               *)
CheckpointRefused ==
    /\ pc \in {"storage", "serialize"} /\ forced = 0
    /\ pc' = "open"
    /\ UNCHANGED <<memory, data, shadow, wal, medium, bounds, acked>>

(* It throws later, or carries a forced commit, or has swapped a group:    *)
(* nothing is served until the database is opened again.  One checkpoint   *)
(* still passes, a CHECKPOINT that waited at the gate when this one failed *)
(* (TransactionManager, OnlyTheGateOutlivesFailure): what it may write is  *)
(* that module's subject, and here the files are left as this one left     *)
(* them.                                                                   *)
CheckpointSteps == {"storage", "serialize", "flushShadow", "syncShadow", "syncData", "logMark",
                    "syncMark", "apply", "clearWal", "resetWal", "resetShadow"}

CheckpointFails ==
    /\ pc \in CheckpointSteps
    /\ pc' = "failed"
    /\ UNCHANGED <<memory, data, shadow, wal, medium, bounds, acked>>

----------------------------------------------------------------------------
(* The end of the process *)

(* Closed without a checkpoint: the files stay as they are shown. *)
Close ==
    /\ pc \in {"open", "failed"}
    /\ pc' = "down"
    /\ mem' = {} /\ forced' = 0 /\ toApply' = {}
    /\ UNCHANGED <<header, fresh, data, shadow, wal, medium, bounds, acked>>

(* Of every page that was not synced, the old, the new, or (a page larger  *)
(* than a sector) a part.  The fields of the header fit a sector.          *)
pageAfter(old, new) == IF old = new THEN {old} ELSE {old, new, Garbage}

dataAfter ==
    {[header |-> h, index |-> i, page |-> f] :
        h \in {dataDisk.header, data.header},
        i \in pageAfter(dataDisk.index, data.index),
        f \in {g \in [Page -> UNION {pageAfter(dataDisk.page[p], data.page[p]) : p \in Page}] :
                  \A p \in Page : g[p] \in pageAfter(dataDisk.page[p], data.page[p])}}

shadowAfter ==
    {shadowDisk, shadow} \cup (IF shadow \in {shadowDisk, NoShadow} THEN {} ELSE {PartShadow})

(* The journal on the medium is one that was removed since (or emptied, to *)
(* be removed): it was removed before the shadow file was.                 *)
replacedWal == ~(walDisk.exists /\ wal.exists /\ IsPrefix(walDisk.log, wal.log))

(* The last record may be torn, or missing; a journal that was removed may *)
(* be back; one that was created may be gone.                              *)
walAfter ==
    {walDisk, wal} \cup
    (IF wal = walDisk \/ wal.log = <<>> THEN {}
     ELSE {[exists |-> TRUE, log |-> Front(wal.log), torn |-> b] : b \in BOOLEAN}
          \cup IF replacedWal THEN {NoWal} ELSE {})

Crash ==
    /\ crashes < MaxCrashes /\ crashes' = crashes + 1
    /\ data' \in dataAfter /\ dataDisk' = data'
    /\ shadow' \in shadowAfter /\ shadowDisk' = shadow'
    /\ wal' \in walAfter /\ walDisk' = wal'
    /\ (replacedWal /\ shadow' # shadowDisk) => (wal' # walDisk \/ walDisk = NoWal)
    /\ pc' = "down"
    /\ mem' = {} /\ forced' = 0 /\ toApply' = {}
    /\ UNCHANGED <<header, fresh, lastTxn, checkpoints, acked>>

----------------------------------------------------------------------------
(* WALReplayer::replay *)

(* No journal: the shadow file is of no use. *)
RecoverNoWal ==
    /\ pc = "down" /\ ~wal.exists
    /\ shadow' = NoShadow
    /\ pc' = "read"
    /\ UNCHANGED <<memory, data, wal, medium, bounds, acked>>

RecoverEmptyWal ==
    /\ pc = "down" /\ wal = EmptyWal
    /\ pc' = "removeWal"
    /\ UNCHANGED <<memory, data, shadow, wal, medium, bounds, acked>>

(* The journal is synced, read once, and its end decides: an interrupted   *)
(* checkpoint is completed, unless the shadow file is gone.                *)
RecoverCheckpoint ==
    /\ pc = "down" /\ isLastRecordCheckpoint(wal)
    /\ syncWal
    /\ IF shadow.state = "absent" THEN toApply' = {} /\ pc' = "removeWal"
       ELSE toApply' = {"header", "index"} /\ pc' = "replayShadow"
    /\ UNCHANGED <<mem, header, forced, fresh, data, shadow, wal, bounds, acked>>

ReplayShadowPage(s) ==
    /\ pc = "replayShadow" /\ s \in toApply
    /\ data' = [data EXCEPT ![s] = shadow[s]]
    /\ toApply' = toApply \ {s}
    /\ UNCHANGED <<pc, mem, header, forced, fresh, shadow, wal, medium, bounds, acked>>

(* Mutant: the copied shadow pages are not synced. *)
SkipSyncReplayed ==
    /\ pc = "replayShadow" /\ toApply = {}
    /\ pc' = "removeWal"
    /\ UNCHANGED <<memory, data, shadow, wal, medium, bounds, acked>>

SyncReplayed ==
    /\ pc = "replayShadow" /\ toApply = {}
    /\ syncData
    /\ pc' = "removeWal"
    /\ UNCHANGED <<memory, data, shadow, wal, bounds, acked>>

(* removeWALAndShadowFiles: the journal first. *)
RemoveWal ==
    /\ pc = "removeWal"
    /\ wal' = NoWal
    /\ pc' = "removeShadow"
    /\ UNCHANGED <<memory, data, shadow, medium, bounds, acked>>

RemoveShadow ==
    /\ pc = "removeShadow"
    /\ shadow' = NoShadow
    /\ pc' = "read"
    /\ UNCHANGED <<memory, data, wal, medium, bounds, acked>>

(* Checkpointer::readCheckpoint, with no journal to replay. *)
ReadCheckpoint ==
    /\ pc = "read"
    /\ header' = data.header
    /\ mem' = data.header.content
    /\ pc' = "open"
    /\ UNCHANGED <<forced, fresh, toApply, data, shadow, wal, medium, bounds, acked>>

(* Mutant: a journal with a torn end is refused. *)
RecoverWholeWal ==
    /\ pc = "down" /\ wal.exists /\ wal # EmptyWal /\ ~isLastRecordCheckpoint(wal)
    /\ ~wal.torn
    /\ syncWal
    /\ shadow' = NoShadow
    /\ pc' = "replayWal"
    /\ UNCHANGED <<memory, data, wal, bounds, acked>>

(* No mark: the shadow file is removed, the last checkpoint is read, the   *)
(* journal is replayed over it, and its torn end is cut.                   *)
RecoverWal ==
    /\ pc = "down" /\ wal.exists /\ wal # EmptyWal /\ ~isLastRecordCheckpoint(wal)
    /\ syncWal
    /\ shadow' = NoShadow
    /\ pc' = "replayWal"
    /\ UNCHANGED <<memory, data, wal, bounds, acked>>

ReplayWal ==
    /\ pc = "replayWal"
    /\ header' = data.header
    /\ mem' = data.header.content \cup commits(wal)
    /\ pc' = IF wal.torn THEN "truncateWal" ELSE "open"
    /\ UNCHANGED <<forced, fresh, toApply, data, shadow, wal, medium, bounds, acked>>

TruncateWal ==
    /\ pc = "truncateWal"
    /\ wal' = [wal EXCEPT !.torn = FALSE]
    /\ walDisk' = wal'
    /\ shadowDisk' = removed(shadow, shadowDisk)
    /\ pc' = "open"
    /\ UNCHANGED <<memory, data, shadow, dataDisk, bounds, acked>>

----------------------------------------------------------------------------
Write ==
    \/ LogCommittedWAL \/ CommitSynced \/ StartCheckpoint
    \/ \E p \in Page : OptimisticWrite(p)

CheckpointStep ==
    \/ \E p \in Page : CheckpointStorage(p)
    \/ SerializeAndWriteHeader \/ FlushShadow \/ SyncShadow \/ SyncData
    \/ LogCheckpoint \/ SyncMark \/ (\E s \in toApply : ApplyShadowPage(s)) \/ SyncApplied
    \/ ClearWal \/ ResetWal \/ ResetShadow

RecoveryStep ==
    \/ RecoverNoWal \/ RecoverEmptyWal \/ RecoverCheckpoint
    \/ (\E s \in toApply : ReplayShadowPage(s)) \/ SyncReplayed \/ RemoveWal \/ RemoveShadow
    \/ ReadCheckpoint \/ RecoverWal \/ ReplayWal \/ TruncateWal

Next ==
    \/ Write \/ CheckpointStep \/ CheckpointRefused \/ CheckpointFails
    \/ Close \/ Crash \/ RecoveryStep

Spec == Init /\ [][Next]_vars

----------------------------------------------------------------------------
(* The locals of the engine and the contents of the files. *)
RecoverySteps == {"down", "read", "removeWal", "removeShadow", "replayShadow", "replayWal",
                  "truncateWal"}
Content == SUBSET (0 .. MaxTxns)
Header == [at : Page \cup {0}, content : Content]
DataFile == [header : Header, index : Content, page : [Page -> Content]]
ShadowFile == [state : {"absent", "partial", "complete"}, header : Header, index : Content]
Wal == [exists : BOOLEAN, log : Seq(0 .. MaxTxns), torn : BOOLEAN]

TypeOK ==
    /\ pc \in {"open", "committing", "failed"} \cup CheckpointSteps \cup RecoverySteps
    /\ mem \in Content /\ header \in Header /\ forced \in 0 .. MaxTxns /\ fresh \in Page
    /\ toApply \subseteq {"header", "index"}
    /\ data \in DataFile /\ dataDisk \in DataFile
    /\ shadow \in ShadowFile /\ shadowDisk \in ShadowFile
    /\ wal \in Wal /\ walDisk \in Wal
    /\ lastTxn \in 0 .. MaxTxns /\ checkpoints \in 0 .. MaxCheckpoints /\ crashes \in 0 .. MaxCrashes
    /\ acked \subseteq 1 .. MaxTxns

(* Whenever the last checkpoint is read, its header and the pages that the *)
(* header designates belong together: no page of a checkpoint that did not *)
(* complete, none lost with an unsynced write.                             *)
RecoveryReadsOneImage == pc \in {"read", "replayWal"} => OneImage(data)

(* The journal is never replayed over a checkpoint that already holds its  *)
(* transactions (a replayed insertion would insert the rows twice).        *)
NoDoubleReplay == pc = "replayWal" => commits(wal) \cap data.header.content = {}

(* What COMMIT returned for is what a reopening would serve, whatever dies *)
(* and whenever.                                                           *)
AckedIsRecovered == acked \subseteq durableState

(* A reopening serves each acknowledged transaction once, from one image.  *)
RecoveryIsExact == RecoveryReadsOneImage /\ NoDoubleReplay /\ AckedIsRecovered

(* The page a transaction in progress, or a checkpoint in progress, writes *)
(* is not one that the last complete checkpoint needs.                     *)
LastCheckpointUntouched ==
    (pc = "open" \/ pc = "committing") => OneImage(data) /\ OneImage(dataDisk)

(* The files, whatever the interleaving of crashes, commits, checkpoints   *)
(* and recoveries, move from one committed state to the next atomically.   *)
Store == INSTANCE DurableStore WITH
    Txn <- 1 .. MaxTxns,
    durable <- durableState,
    target <- IF pc \in RecoverySteps THEN Recovered(data, shadow, wal) ELSE mem

StoreSpec == Store!Spec

(* No crash, of a recovery either, leaves files that the next opening is   *)
(* stuck on: what it reads has its type and some step of WALReplayer or    *)
(* ShadowFile handles it.                                                  *)
RecoveryNeverStuck == TypeOK /\ (pc \in RecoverySteps => ENABLED RecoveryStep)
============================================================================
