---------------------- MODULE CheckpointRecoveryProofs ----------------------
(* Proofs about the three files of a database: for every number of pages,  *)
(* transactions, checkpoints and crashes, a recovery after any crash reads *)
(* one image and serves every acknowledged commit, the last checkpoint is  *)
(* never written over, and the files implement the abstract store of       *)
(* DurableStore.                                                           *)
(*                                                                         *)
(* The invariant splits on where the checkpoint mark is: nowhere, in the   *)
(* journal that is shown only, in both journals, or only in the journal on *)
(* the medium, that was emptied or removed and whose removal may be lost.  *)
(* In each case it says which image the data file and the shadow file      *)
(* hold, so that whatever a crash leaves opens to the state before or to   *)
(* the state after.                                                        *)
EXTENDS CheckpointRecovery, TLAPS

(* A data file that can be opened as it is, and a shadow file that makes   *)
(* one of it.                                                              *)
Clean(d) == d.header.at \in Page /\ OneImage(d)

Replayable(d, s) ==
    /\ s.state = "complete" /\ s.header.at \in Page
    /\ s.index = s.header.content /\ d.page[s.header.at] = s.header.content

(* The journal ends with the mark: as the engine sees it, and on the       *)
(* medium.                                                                 *)
Marked == isLastRecordCheckpoint(wal)
MarkedOnDisk == isLastRecordCheckpoint(walDisk)

(* The same image is shown and on the medium. *)
SameImage == Clean(data) /\ Clean(dataDisk) /\ data.header = dataDisk.header

(* Only transactions that have begun.                                      *)
Past(c) == c \subseteq 1 .. lastTxn

(* The steps of which the journal shown is the one on the medium, or is    *)
(* removed, and the one where it has a record more.                        *)
JournalOnDisk == wal = walDisk \/ (wal.log = <<>> /\ walDisk.log = <<>>)
Logged(log) == wal.exists /\ wal.log = Append(log, lastTxn)

(* No mark: one image is shown and on the medium, and the journals are the *)
(* same, but for the record of a commit that is not synced yet.            *)
QuietInv ==
    ~Marked /\ ~MarkedOnDisk =>
        /\ SameImage
        /\ IF pc = "committing" THEN Logged(walDisk.log) ELSE JournalOnDisk

(* The mark is written and not synced: the data file is whole, and so is   *)
(* the shadow file, so that either outcome of the mark is an image.        *)
MarkingInv ==
    Marked /\ ~MarkedOnDisk =>
        /\ data = dataDisk /\ shadow = shadowDisk
        /\ Clean(data) /\ Replayable(data, shadow) /\ Past(shadow.header.content)
        /\ wal.exists /\ wal.log = Append(walDisk.log, Mark)
        /\ data.header.content \cup commits(walDisk) \subseteq shadow.header.content
        /\ pc \in {"syncMark", "failed", "down"}

(* The mark is on the medium: the shadow file is the image, whatever part  *)
(* of it has been copied to the data file.                                 *)
MarkedInv ==
    Marked /\ MarkedOnDisk =>
        /\ wal = walDisk /\ shadow = shadowDisk
        /\ Replayable(data, shadow) /\ Replayable(dataDisk, shadow)
        /\ Past(shadow.header.content)
        /\ pc \in {"apply", "clearWal", "failed", "down", "replayShadow", "removeWal"}

(* The journal is emptied or removed, and on the medium still ends with    *)
(* the mark: the data file is the image already, and a shadow file that a  *)
(* crash brings back with the journal holds the same one.                  *)
StaleInv ==
    ~Marked /\ MarkedOnDisk =>
        /\ SameImage
        /\ Replayable(data, shadowDisk) /\ Replayable(dataDisk, shadowDisk)
        /\ data.header = shadowDisk.header
        /\ IF pc = "committing" THEN Logged(<<>>) ELSE wal.log = <<>>

(* A journal holds transactions that have begun, and none that the image   *)
(* below it holds.                                                         *)
JournalInv ==
    /\ wal.exists \/ wal = NoWal
    /\ walDisk.exists \/ walDisk = NoWal
    /\ commits(wal) \subseteq 1 .. lastTxn /\ commits(walDisk) \subseteq 1 .. lastTxn
    /\ ~Marked => commits(wal) \cap data.header.content = {}
    /\ ~MarkedOnDisk => commits(walDisk) \cap dataDisk.header.content = {}

(* The transaction of a forced checkpoint, that has no record.             *)
Forced == IF forced = 0 THEN {} ELSE {forced}

(* What memory and the files are at each step of the engine.               *)
MemoryInv ==
    /\ Past(mem) /\ Past(Forced)
    /\ Past(data.header.content) /\ Past(dataDisk.header.content)
    /\ pc \in {"open", "committing"} => forced = 0
    /\ pc \in {"open", "committing", "storage", "serialize"} => header = data.header
    /\ pc \in {"open", "committing", "storage", "serialize", "flushShadow", "syncShadow",
               "syncData", "logMark"}
          => mem = data.header.content \cup commits(wal) \cup Forced
    /\ pc \in CheckpointSteps => Forced \subseteq mem
    /\ pc \in {"storage", "serialize", "flushShadow", "syncShadow", "resetShadow", "open"} => (wal.exists => wal = walDisk)
    /\ pc \in {"open", "storage", "serialize", "flushShadow", "syncShadow",
               "syncData", "logMark", "resetWal", "resetShadow",
               "read", "removeShadow", "replayWal", "truncateWal"} => ~Marked
    /\ pc = "committing" => lastTxn \in commits(wal) /\ ~Marked
    /\ pc = "serialize" => fresh \in Page /\ data.page[fresh] = mem
    /\ pc \in {"flushShadow", "syncShadow"} =>
            header.content = mem /\ header.at \in Page /\ data.page[header.at] = mem
    /\ pc \in {"syncShadow", "syncData", "logMark", "syncMark", "apply", "clearWal"} =>
            Replayable(data, shadow) /\ shadow.header.content = mem /\ shadow.header = header
    /\ pc \in {"syncData", "logMark"} => shadow = shadowDisk /\ wal = walDisk
    /\ pc = "logMark" => data = dataDisk
    /\ pc \in {"syncMark"} => Marked /\ ~MarkedOnDisk
    /\ pc \in {"apply", "clearWal", "replayShadow"} => Marked /\ MarkedOnDisk
    /\ pc \in {"apply", "replayShadow"} =>
            /\ "header" \notin toApply => data.header = shadow.header
            /\ "index" \notin toApply => data.index = shadow.index
    /\ pc = "clearWal" => data = dataDisk /\ data.header = shadow.header /\ data.index = shadow.index
    /\ pc \in {"resetWal", "resetShadow"} => MarkedOnDisk /\ mem = data.header.content /\ data.header = header
    /\ pc = "removeWal" => \/ wal.log = <<>>
                           \/ /\ Marked /\ MarkedOnDisk
                              /\ data = dataDisk /\ data.header = shadow.header /\ data.index = shadow.index
    /\ pc \in {"resetShadow", "removeShadow", "read"} => wal = NoWal
    /\ pc \in {"replayWal", "truncateWal"} => wal = walDisk /\ wal.exists
    /\ pc = "truncateWal" => mem = data.header.content \cup commits(wal) /\ header = data.header
    /\ pc \in RecoverySteps => forced = 0
    /\ pc = "failed" /\ Marked /\ ~MarkedOnDisk => mem = shadow.header.content

(* What the files on the medium, and the files shown, stand for. *)
OnDisk == IF MarkedOnDisk THEN shadowDisk.header.content
          ELSE dataDisk.header.content \cup commits(walDisk)
Shown == IF Marked THEN shadow.header.content ELSE data.header.content \cup commits(wal)

(* What is acknowledged is on the medium, and what is on the medium is     *)
(* shown.                                                                  *)
AckedInv == acked \subseteq OnDisk /\ OnDisk \subseteq Shown

(* The inductive invariant.                                                *)
IInv ==
    /\ TypeOK /\ QuietInv /\ MarkingInv /\ MarkedInv /\ StaleInv
    /\ JournalInv /\ MemoryInv /\ AckedInv
-----------------------------------------------------------------------------
(* A journal with one record more: its end, its content, what is left when *)
(* the record is lost.                                                     *)
LEMMA AppendFacts ==
    ASSUME NEW S, NEW q \in Seq(S), NEW x \in S
    PROVE  /\ Append(q, x) \in Seq(S) /\ Append(q, x) # <<>>
           /\ Last(Append(q, x)) = x
           /\ Front(Append(q, x)) = q
           /\ Range(Append(q, x)) = Range(q) \cup {x}
           /\ IsPrefix(q, Append(q, x))
<1>1. Append(q, x) \in Seq(S) /\ Append(q, x) # <<>> /\ Last(Append(q, x)) = x
  BY DEF Last
<1>2. Front(Append(q, x)) = q
  BY DEF Front
<1>3. Range(Append(q, x)) = Range(q) \cup {x}
  <2>1. DOMAIN Append(q, x) = DOMAIN q \cup {Len(q) + 1} /\ Append(q, x)[Len(q) + 1] = x
    OBVIOUS
  <2>2. \A i \in DOMAIN q : Append(q, x)[i] = q[i]
    OBVIOUS
  <2> QED
    BY <2>1, <2>2, Zenon DEF Range
<1>4. IsPrefix(q, Append(q, x))
  BY DEF IsPrefix
<1> QED
  BY <1>1, <1>2, <1>3, <1>4

(* A journal that ends with the mark is not the beginning of an empty one, *)
(* nor of one with a single commit.                                        *)
LEMMA MarkIsNoPrefix ==
    ASSUME NEW v \in Wal, isLastRecordCheckpoint(v)
    PROVE  /\ ~IsPrefix(v.log, <<>>)
           /\ \A t \in 1 .. MaxTxns : ~IsPrefix(v.log, Append(<<>>, t))
<1>1. v.log \in Seq(0 .. MaxTxns) /\ v.log # <<>> /\ v.log[Len(v.log)] = 0
  BY DEF Wal, isLastRecordCheckpoint, Last, Mark
<1>2. Len(v.log) \in Nat /\ Len(v.log) # 0
  BY <1>1
<1>3. ~IsPrefix(v.log, <<>>)
  BY <1>2 DEF IsPrefix
<1>4. ASSUME NEW t \in 1 .. MaxTxns, IsPrefix(v.log, Append(<<>>, t)) PROVE FALSE
  <2> DEFINE q == Append(<<>>, t)
  <2>1. q \in Seq(0 .. MaxTxns) /\ Len(q) = 1 /\ q[1] = t
    OBVIOUS
  <2>2. Len(v.log) = 1
    <3>1. Len(v.log) <= Len(q)
      BY <1>4 DEF IsPrefix
    <3>2. \A n \in Nat : n # 0 /\ n <= 1 => n = 1
      OBVIOUS
    <3> QED
      BY <1>2, <2>1, <3>1, <3>2, Zenon
  <2>3. SubSeq(v.log, 1, 1)[1] = v.log[1]
    BY <2>2, <1>1
  <2>4. SubSeq(q, 1, 1)[1] = q[1]
    BY <2>1
  <2>5. SubSeq(v.log, 1, 1) = SubSeq(q, 1, 1)
    BY <1>4, <2>2 DEF IsPrefix
  <2> QED
    BY <1>1, <2>1, <2>2, <2>3, <2>4, <2>5
<1> QED
  BY <1>3, <1>4

(* append: one record more, and only a mark marks it. *)
LEMMA AppendWal ==
    ASSUME NEW w \in Wal, NEW r \in 0 .. MaxTxns
    PROVE  /\ append(w, r) \in Wal /\ append(w, r).exists
           /\ append(w, r).log = Append(w.log, r)
           /\ isLastRecordCheckpoint(append(w, r)) <=> r = Mark
           /\ commits(append(w, r)) = commits(w) \cup ({r} \ {Mark})
<1>1. w.log \in Seq(0 .. MaxTxns)
  BY DEF Wal
<1>2. /\ append(w, r) \in Wal /\ append(w, r).exists
      /\ append(w, r).log = Append(w.log, r)
  BY <1>1 DEF Wal, append
<1>3. Range(Append(w.log, r)) = Range(w.log) \cup {r}
  BY <1>1, AppendFacts
<1>4. Append(w.log, r) # <<>> /\ Last(Append(w.log, r)) = r
  BY <1>1, AppendFacts
<1> QED
  BY <1>2, <1>3, <1>4 DEF isLastRecordCheckpoint, commits

(* The journals that have no record. *)
LEMMA EmptyWalFacts ==
    /\ NoWal \in Wal /\ NoWal.log = <<>> /\ ~NoWal.exists
    /\ EmptyWal \in Wal /\ EmptyWal.log = <<>> /\ EmptyWal.exists
    /\ \A w \in Wal : w.log = <<>> => ~isLastRecordCheckpoint(w) /\ commits(w) = {}
<1>1. NoWal \in Wal /\ NoWal.log = <<>> /\ ~NoWal.exists
  BY DEF NoWal, Wal
<1>2. EmptyWal \in Wal /\ EmptyWal.log = <<>> /\ EmptyWal.exists
  BY DEF EmptyWal, Wal
<1>3. Range(<<>>) = {}
  BY DEF Range
<1>4. ASSUME NEW w \in Wal, w.log = <<>>
      PROVE  ~isLastRecordCheckpoint(w) /\ commits(w) = {}
  BY <1>3, <1>4 DEF isLastRecordCheckpoint, commits
<1> QED
  BY <1>1, <1>2, <1>4

(* What an opening serves of a marked journal. *)
LEMMA RecoveredMarked ==
    ASSUME NEW d \in DataFile, NEW s \in ShadowFile, NEW w \in Wal,
           isLastRecordCheckpoint(w), Replayable(d, s)
    PROVE  Recovered(d, s, w) = s.header.content
  BY DEF Recovered, Replayable, shadowApplied, OneImage, DataFile, ShadowFile, Wal, Header

(* What an opening serves of a journal without the mark.                   *)
LEMMA RecoveredClean ==
    ASSUME NEW d \in DataFile, NEW s \in ShadowFile, NEW w \in Wal,
           ~isLastRecordCheckpoint(w), Clean(d), w.exists \/ w.log = <<>>
    PROVE  Recovered(d, s, w) = d.header.content \cup commits(w)
  BY EmptyWalFacts DEF Recovered, Clean

(* One shadow page is copied to its place in the data file. *)
LEMMA CopyShadowPage ==
    ASSUME TypeOK, NEW s \in toApply, data' = [data EXCEPT ![s] = shadow[s]]
    PROVE  /\ data' \in DataFile /\ data'.page = data.page
           /\ s = "header" => data'.header = shadow.header /\ data'.index = data.index
           /\ s = "index" => data'.header = data.header /\ data'.index = shadow.index
           /\ s \in {"header", "index"}
<1>1. data \in DataFile /\ shadow \in ShadowFile /\ s \in {"header", "index"}
  BY DEF TypeOK
<1>2. CASE s = "header"
  BY <1>1, <1>2 DEF DataFile, ShadowFile
<1>3. CASE s = "index"
  BY <1>1, <1>3 DEF DataFile, ShadowFile
<1> QED
  BY <1>1, <1>2, <1>3

-----------------------------------------------------------------------------
(* The steps of the engine, one lemma for each. *)

(* A commit is one record more in the journal, on top of what is on the    *)
(* medium.                                                                 *)
LEMMA LogCommittedWALInv == ASSUME IInv, LogCommittedWAL PROVE IInv'
<1> USE DEF IInv, LogCommittedWAL, memory, bounds, medium
<1>1. lastTxn' \in 1 .. MaxTxns /\ lastTxn' = lastTxn + 1 /\ lastTxn \in Nat
  BY BoundsAssumption DEF TypeOK
<1>2. /\ wal' \in Wal /\ wal'.exists /\ wal'.log = Append(wal.log, lastTxn')
      /\ ~isLastRecordCheckpoint(wal') /\ commits(wal') = commits(wal) \cup {lastTxn'}
  <2>1. wal \in Wal /\ wal' = append(wal, lastTxn') /\ lastTxn' # Mark /\ lastTxn' \in 0 .. MaxTxns
    BY <1>1 DEF TypeOK, Mark
  <2> HIDE DEF IInv, LogCommittedWAL
  <2> QED
    BY <2>1, AppendWal
<1>3. TypeOK'
  BY BoundsAssumption, <1>1, <1>2 DEF TypeOK, MemoryInv, JournalInv, Header, Content,
     DataFile, ShadowFile, CheckpointSteps, RecoverySteps
<1>4. QuietInv' /\ MarkingInv' /\ MarkedInv' /\ StaleInv'
  BY <1>1, <1>2 DEF QuietInv, MarkingInv, MarkedInv, StaleInv, Marked, MarkedOnDisk,
     MemoryInv, SameImage, Clean, Replayable, OneImage, JournalOnDisk, Logged, Past, TypeOK,
     DataFile, JournalInv, CheckpointSteps
<1>5. JournalInv'
  BY <1>1, <1>2 DEF JournalInv, Marked, MemoryInv, Past, TypeOK, DataFile, MarkedInv,
     QuietInv, StaleInv, SameImage, MarkedOnDisk
<1>6. MemoryInv'
  BY <1>1, <1>2 DEF MemoryInv, Past, Forced, Marked, MarkedOnDisk, Replayable,
     CheckpointSteps, RecoverySteps, QuietInv, MarkingInv, MarkedInv, StaleInv, SameImage,
     JournalOnDisk, TypeOK, DataFile, JournalInv
<1>7. AckedInv'
  BY <1>1, <1>2 DEF AckedInv, OnDisk, Shown, Marked, MarkedOnDisk, QuietInv, MarkingInv,
     MarkedInv, StaleInv, SameImage, Logged, MemoryInv, JournalInv, TypeOK, DataFile,
     CheckpointSteps, Forced
<1> QED
  BY <1>3, <1>4, <1>5, <1>6, <1>7

(* Its sync makes durable what is shown, and takes a removed shadow file   *)
(* along.                                                                  *)
LEMMA CommitSyncedInv == ASSUME IInv, CommitSynced PROVE IInv'
<1> USE DEF IInv, CommitSynced, syncWal, removed, memory, bounds, medium
<1>1. TypeOK'
  BY BoundsAssumption, EmptyWalFacts DEF TypeOK, MemoryInv, JournalInv, Header, Content,
     DataFile, ShadowFile, CheckpointSteps, RecoverySteps
<1>2. QuietInv' /\ MarkingInv' /\ MarkedInv' /\ StaleInv'
  BY EmptyWalFacts DEF QuietInv, MarkingInv, MarkedInv, StaleInv, Marked, MarkedOnDisk,
     MemoryInv, SameImage, Clean, Replayable, OneImage, JournalOnDisk, Logged, Past, TypeOK,
     DataFile, JournalInv, CheckpointSteps
<1>3. JournalInv'
  BY EmptyWalFacts DEF JournalInv, Marked, MemoryInv, Past, TypeOK, DataFile, MarkedInv,
     QuietInv, StaleInv, SameImage, MarkedOnDisk
<1>4. MemoryInv'
  BY EmptyWalFacts DEF MemoryInv, Past, Forced, Marked, MarkedOnDisk, Replayable,
     CheckpointSteps, RecoverySteps, QuietInv, MarkingInv, MarkedInv, StaleInv, SameImage,
     JournalOnDisk, TypeOK, DataFile, JournalInv
<1>5. AckedInv'
  BY EmptyWalFacts DEF AckedInv, OnDisk, Shown, Marked, MarkedOnDisk, QuietInv, MarkingInv,
     MarkedInv, StaleInv, SameImage, Logged, MemoryInv, JournalInv, TypeOK, DataFile,
     CheckpointSteps, Forced
<1> QED
  BY <1>1, <1>2, <1>3, <1>4, <1>5

(* A page is written where the header designates nothing. *)
LEMMA OptimisticWriteInv == ASSUME IInv, NEW p \in Page, OptimisticWrite(p) PROVE IInv'
<1> USE DEF IInv, OptimisticWrite, memory, bounds, medium
<1>1. TypeOK'
  BY BoundsAssumption, EmptyWalFacts DEF TypeOK, DataFile, Header, Content, Garbage
<1>2. QuietInv' /\ MarkingInv' /\ MarkedInv' /\ StaleInv'
  BY EmptyWalFacts DEF QuietInv, MarkingInv, MarkedInv, StaleInv, Marked, MarkedOnDisk,
     MemoryInv, SameImage, Clean, Replayable, OneImage, JournalOnDisk, Logged, Past, TypeOK,
     DataFile, JournalInv, CheckpointSteps
<1>3. JournalInv'
  BY EmptyWalFacts DEF JournalInv, Marked, MemoryInv, Past, TypeOK, DataFile, MarkedInv,
     QuietInv, StaleInv, SameImage, MarkedOnDisk
<1>4. MemoryInv'
  BY EmptyWalFacts DEF MemoryInv, Past, Forced, Marked, MarkedOnDisk, Replayable,
     CheckpointSteps, RecoverySteps, QuietInv, MarkingInv, MarkedInv, StaleInv, SameImage,
     JournalOnDisk, TypeOK, DataFile, JournalInv
<1>5. AckedInv'
  BY EmptyWalFacts DEF AckedInv, OnDisk, Shown, Marked, MarkedOnDisk, QuietInv, MarkingInv,
     MarkedInv, StaleInv, SameImage, Logged, MemoryInv, JournalInv, TypeOK, DataFile,
     CheckpointSteps, Forced
<1> QED
  BY <1>1, <1>2, <1>3, <1>4, <1>5

(* A checkpoint is begun, with or without a forced commit. *)
LEMMA StartCheckpointInv == ASSUME IInv, StartCheckpoint PROVE IInv'
<1> USE DEF IInv, StartCheckpoint, memory, bounds, medium
<1>1. \/ lastTxn' = lastTxn /\ mem' = mem /\ forced' = forced
      \/ /\ lastTxn' \in 1 .. MaxTxns /\ lastTxn' = lastTxn + 1 /\ lastTxn \in Nat
         /\ mem' = mem \cup {lastTxn'} /\ forced' = lastTxn'
  BY BoundsAssumption DEF TypeOK
<1>2. mem' \in Content
  <2>1. mem \subseteq 0 .. MaxTxns /\ lastTxn \in 0 .. MaxTxns
    BY DEF TypeOK, Content
  <2>2. lastTxn' \in 0 .. MaxTxns
    BY <1>1, <2>1, BoundsAssumption
  <2> HIDE DEF IInv, StartCheckpoint
  <2> QED
    BY <1>1, <2>1, <2>2 DEF Content
<1>3. TypeOK'
  BY BoundsAssumption, <1>1, <1>2 DEF TypeOK, CheckpointSteps
<1>4. QuietInv' /\ MarkingInv' /\ MarkedInv' /\ StaleInv'
  BY <1>1 DEF QuietInv, MarkingInv, MarkedInv, StaleInv, Marked, MarkedOnDisk, MemoryInv,
     SameImage, Clean, Replayable, OneImage, JournalOnDisk, Logged, Past, TypeOK, DataFile,
     JournalInv, CheckpointSteps
<1>5. JournalInv'
  BY <1>1 DEF JournalInv, Marked, MemoryInv, Past, TypeOK, DataFile, MarkedInv, QuietInv,
     StaleInv, SameImage, MarkedOnDisk
<1>6. MemoryInv'
  BY <1>1 DEF MemoryInv, Past, Forced, Marked, MarkedOnDisk, Replayable, CheckpointSteps,
     RecoverySteps, QuietInv, MarkingInv, MarkedInv, StaleInv, SameImage, JournalOnDisk,
     TypeOK, DataFile, JournalInv
<1>7. AckedInv'
  BY <1>1 DEF AckedInv, OnDisk, Shown, Marked, MarkedOnDisk, QuietInv, MarkingInv, MarkedInv,
     StaleInv, SameImage, Logged, MemoryInv, JournalInv, TypeOK, DataFile, CheckpointSteps,
     Forced
<1> QED
  BY <1>3, <1>4, <1>5, <1>6, <1>7

(* The columns go to a page that the last checkpoint does not need. *)
LEMMA CheckpointStorageInv == ASSUME IInv, NEW p \in Page, CheckpointStorage(p) PROVE IInv'
<1> USE DEF IInv, CheckpointStorage, memory, bounds, medium
<1>1. TypeOK'
  BY BoundsAssumption, EmptyWalFacts DEF TypeOK, MemoryInv, JournalInv, Header, Content,
     DataFile, ShadowFile, CheckpointSteps, RecoverySteps
<1>2. QuietInv' /\ MarkingInv' /\ MarkedInv' /\ StaleInv'
  BY EmptyWalFacts DEF QuietInv, MarkingInv, MarkedInv, StaleInv, Marked, MarkedOnDisk,
     MemoryInv, SameImage, Clean, Replayable, OneImage, JournalOnDisk, Logged, Past, TypeOK,
     DataFile, JournalInv, CheckpointSteps
<1>3. JournalInv'
  BY EmptyWalFacts DEF JournalInv, Marked, MemoryInv, Past, TypeOK, DataFile, MarkedInv,
     QuietInv, StaleInv, SameImage, MarkedOnDisk
<1>4. MemoryInv'
  BY EmptyWalFacts DEF MemoryInv, Past, Forced, Marked, MarkedOnDisk, Replayable,
     CheckpointSteps, RecoverySteps, QuietInv, MarkingInv, MarkedInv, StaleInv, SameImage,
     JournalOnDisk, TypeOK, DataFile, JournalInv
<1>5. AckedInv'
  BY EmptyWalFacts DEF AckedInv, OnDisk, Shown, Marked, MarkedOnDisk, QuietInv, MarkingInv,
     MarkedInv, StaleInv, SameImage, Logged, MemoryInv, JournalInv, TypeOK, DataFile,
     CheckpointSteps, Forced
<1> QED
  BY <1>1, <1>2, <1>3, <1>4, <1>5

(* The shadow file is begun; the header in memory designates the new page. *)
LEMMA SerializeAndWriteHeaderInv == ASSUME IInv, SerializeAndWriteHeader PROVE IInv'
<1> USE DEF IInv, SerializeAndWriteHeader, PartShadow, NoShadow, Garbage, memory, bounds, medium
<1>1. TypeOK'
  BY BoundsAssumption, EmptyWalFacts DEF TypeOK, MemoryInv, JournalInv, Header, Content,
     DataFile, ShadowFile, CheckpointSteps, RecoverySteps
<1>2. QuietInv' /\ MarkingInv' /\ MarkedInv' /\ StaleInv'
  BY EmptyWalFacts DEF QuietInv, MarkingInv, MarkedInv, StaleInv, Marked, MarkedOnDisk,
     MemoryInv, SameImage, Clean, Replayable, OneImage, JournalOnDisk, Logged, Past, TypeOK,
     DataFile, JournalInv, CheckpointSteps
<1>3. JournalInv'
  BY EmptyWalFacts DEF JournalInv, Marked, MemoryInv, Past, TypeOK, DataFile, MarkedInv,
     QuietInv, StaleInv, SameImage, MarkedOnDisk
<1>4. MemoryInv'
  BY EmptyWalFacts DEF MemoryInv, Past, Forced, Marked, MarkedOnDisk, Replayable,
     CheckpointSteps, RecoverySteps, QuietInv, MarkingInv, MarkedInv, StaleInv, SameImage,
     JournalOnDisk, TypeOK, DataFile, JournalInv
<1>5. AckedInv'
  BY EmptyWalFacts DEF AckedInv, OnDisk, Shown, Marked, MarkedOnDisk, QuietInv, MarkingInv,
     MarkedInv, StaleInv, SameImage, Logged, MemoryInv, JournalInv, TypeOK, DataFile,
     CheckpointSteps, Forced
<1> QED
  BY <1>1, <1>2, <1>3, <1>4, <1>5

(* The shadow file holds the image that memory holds. *)
LEMMA FlushShadowInv == ASSUME IInv, FlushShadow PROVE IInv'
<1> USE DEF IInv, FlushShadow, memory, bounds, medium
<1>1. TypeOK'
  BY BoundsAssumption, EmptyWalFacts DEF TypeOK, MemoryInv, JournalInv, Header, Content,
     DataFile, ShadowFile, CheckpointSteps, RecoverySteps
<1>2. QuietInv' /\ MarkingInv' /\ MarkedInv' /\ StaleInv'
  BY EmptyWalFacts DEF QuietInv, MarkingInv, MarkedInv, StaleInv, Marked, MarkedOnDisk,
     MemoryInv, SameImage, Clean, Replayable, OneImage, JournalOnDisk, Logged, Past, TypeOK,
     DataFile, JournalInv, CheckpointSteps
<1>3. JournalInv'
  BY EmptyWalFacts DEF JournalInv, Marked, MemoryInv, Past, TypeOK, DataFile, MarkedInv,
     QuietInv, StaleInv, SameImage, MarkedOnDisk
<1>4. MemoryInv'
  BY EmptyWalFacts DEF MemoryInv, Past, Forced, Marked, MarkedOnDisk, Replayable,
     CheckpointSteps, RecoverySteps, QuietInv, MarkingInv, MarkedInv, StaleInv, SameImage,
     JournalOnDisk, TypeOK, DataFile, JournalInv
<1>5. AckedInv'
  BY EmptyWalFacts DEF AckedInv, OnDisk, Shown, Marked, MarkedOnDisk, QuietInv, MarkingInv,
     MarkedInv, StaleInv, SameImage, Logged, MemoryInv, JournalInv, TypeOK, DataFile,
     CheckpointSteps, Forced
<1> QED
  BY <1>1, <1>2, <1>3, <1>4, <1>5

(* The shadow file is on the medium, and a journal that was removed is     *)
(* gone.                                                                   *)
LEMMA SyncShadowInv == ASSUME IInv, SyncShadow PROVE IInv'
<1> USE DEF IInv, SyncShadow, syncShadow, walRemoved, memory, bounds, medium
<1>1. TypeOK'
  BY BoundsAssumption, EmptyWalFacts DEF TypeOK, MemoryInv, JournalInv, Header, Content,
     DataFile, ShadowFile, CheckpointSteps, RecoverySteps
<1>2. QuietInv' /\ MarkingInv' /\ MarkedInv' /\ StaleInv'
  BY EmptyWalFacts DEF QuietInv, MarkingInv, MarkedInv, StaleInv, Marked, MarkedOnDisk,
     MemoryInv, SameImage, Clean, Replayable, OneImage, JournalOnDisk, Logged, Past, TypeOK,
     DataFile, JournalInv, CheckpointSteps
<1>3. JournalInv'
  BY EmptyWalFacts DEF JournalInv, Marked, MemoryInv, Past, TypeOK, DataFile, MarkedInv,
     QuietInv, StaleInv, SameImage, MarkedOnDisk
<1>4. MemoryInv'
  BY EmptyWalFacts DEF MemoryInv, Past, Forced, Marked, MarkedOnDisk, Replayable,
     CheckpointSteps, RecoverySteps, QuietInv, MarkingInv, MarkedInv, StaleInv, SameImage,
     JournalOnDisk, TypeOK, DataFile, JournalInv
<1>5. AckedInv'
  BY EmptyWalFacts DEF AckedInv, OnDisk, Shown, Marked, MarkedOnDisk, QuietInv, MarkingInv,
     MarkedInv, StaleInv, SameImage, Logged, MemoryInv, JournalInv, TypeOK, DataFile,
     CheckpointSteps, Forced
<1> QED
  BY <1>1, <1>2, <1>3, <1>4, <1>5

(* The pages written directly are on the medium before the mark is. *)
LEMMA SyncDataInv == ASSUME IInv, SyncData PROVE IInv'
<1> USE DEF IInv, SyncData, syncData, removed, walRemoved, memory, bounds, medium
<1>1. TypeOK'
  BY BoundsAssumption, EmptyWalFacts DEF TypeOK, MemoryInv, JournalInv, Header, Content,
     DataFile, ShadowFile, CheckpointSteps, RecoverySteps
<1>2. QuietInv' /\ MarkingInv' /\ MarkedInv' /\ StaleInv'
  BY EmptyWalFacts DEF QuietInv, MarkingInv, MarkedInv, StaleInv, Marked, MarkedOnDisk,
     MemoryInv, SameImage, Clean, Replayable, OneImage, JournalOnDisk, Logged, Past, TypeOK,
     DataFile, JournalInv, CheckpointSteps
<1>3. JournalInv'
  BY EmptyWalFacts DEF JournalInv, Marked, MemoryInv, Past, TypeOK, DataFile, MarkedInv,
     QuietInv, StaleInv, SameImage, MarkedOnDisk
<1>4. MemoryInv'
  BY EmptyWalFacts DEF MemoryInv, Past, Forced, Marked, MarkedOnDisk, Replayable,
     CheckpointSteps, RecoverySteps, QuietInv, MarkingInv, MarkedInv, StaleInv, SameImage,
     JournalOnDisk, TypeOK, DataFile, JournalInv
<1>5. AckedInv'
  BY EmptyWalFacts DEF AckedInv, OnDisk, Shown, Marked, MarkedOnDisk, QuietInv, MarkingInv,
     MarkedInv, StaleInv, SameImage, Logged, MemoryInv, JournalInv, TypeOK, DataFile,
     CheckpointSteps, Forced
<1> QED
  BY <1>1, <1>2, <1>3, <1>4, <1>5

(* The mark is written: what is shown is ahead of what is on the medium. *)
LEMMA LogCheckpointInv == ASSUME IInv, LogCheckpoint PROVE IInv'
<1> USE DEF IInv, LogCheckpoint, memory, bounds, medium
<1>1. /\ wal' \in Wal /\ wal'.exists /\ wal'.log = Append(wal.log, Mark)
      /\ isLastRecordCheckpoint(wal') /\ commits(wal') = commits(wal)
  <2>1. wal \in Wal /\ wal' = append(wal, Mark) /\ Mark \in 0 .. MaxTxns
    BY BoundsAssumption DEF TypeOK, Mark
  <2> HIDE DEF IInv, LogCheckpoint
  <2> QED
    BY <2>1, AppendWal
<1>2. TypeOK'
  BY BoundsAssumption, <1>1 DEF TypeOK, MemoryInv, JournalInv, Header, Content, DataFile,
     ShadowFile, CheckpointSteps, RecoverySteps
<1>3. QuietInv' /\ MarkingInv' /\ MarkedInv' /\ StaleInv'
  BY <1>1 DEF QuietInv, MarkingInv, MarkedInv, StaleInv, Marked, MarkedOnDisk, MemoryInv,
     SameImage, Clean, Replayable, OneImage, JournalOnDisk, Logged, Past, TypeOK, DataFile,
     JournalInv, CheckpointSteps
<1>4. JournalInv'
  BY <1>1 DEF JournalInv, Marked, MemoryInv, Past, TypeOK, DataFile, MarkedInv, QuietInv,
     StaleInv, SameImage, MarkedOnDisk
<1>5. MemoryInv'
  BY <1>1 DEF MemoryInv, Past, Forced, Marked, MarkedOnDisk, Replayable, CheckpointSteps,
     RecoverySteps, QuietInv, MarkingInv, MarkedInv, StaleInv, SameImage, JournalOnDisk,
     TypeOK, DataFile, JournalInv
<1>6. AckedInv'
  BY <1>1 DEF AckedInv, OnDisk, Shown, Marked, MarkedOnDisk, QuietInv, MarkingInv, MarkedInv,
     StaleInv, SameImage, Logged, MemoryInv, JournalInv, TypeOK, DataFile, CheckpointSteps,
     Forced
<1> QED
  BY <1>2, <1>3, <1>4, <1>5, <1>6

(* The mark is on the medium: the shadow file is the image from here on. *)
LEMMA SyncMarkInv == ASSUME IInv, SyncMark PROVE IInv'
<1> USE DEF IInv, SyncMark, syncWal, removed, memory, bounds, medium
<1>1. TypeOK'
  BY BoundsAssumption, EmptyWalFacts DEF TypeOK, MemoryInv, JournalInv, Header, Content,
     DataFile, ShadowFile, CheckpointSteps, RecoverySteps
<1>2. QuietInv' /\ MarkingInv' /\ MarkedInv' /\ StaleInv'
  BY EmptyWalFacts DEF QuietInv, MarkingInv, MarkedInv, StaleInv, Marked, MarkedOnDisk,
     MemoryInv, SameImage, Clean, Replayable, OneImage, JournalOnDisk, Logged, Past, TypeOK,
     DataFile, JournalInv, CheckpointSteps
<1>3. JournalInv'
  BY EmptyWalFacts DEF JournalInv, Marked, MemoryInv, Past, TypeOK, DataFile, MarkedInv,
     QuietInv, StaleInv, SameImage, MarkedOnDisk
<1>4. MemoryInv'
  BY EmptyWalFacts DEF MemoryInv, Past, Forced, Marked, MarkedOnDisk, Replayable,
     CheckpointSteps, RecoverySteps, QuietInv, MarkingInv, MarkedInv, StaleInv, SameImage,
     JournalOnDisk, TypeOK, DataFile, JournalInv
<1>5. AckedInv'
  BY EmptyWalFacts DEF AckedInv, OnDisk, Shown, Marked, MarkedOnDisk, QuietInv, MarkingInv,
     MarkedInv, StaleInv, SameImage, Logged, MemoryInv, JournalInv, TypeOK, DataFile,
     CheckpointSteps, Forced
<1> QED
  BY <1>1, <1>2, <1>3, <1>4, <1>5

(* A shadow page is copied; until it is synced the mark covers it. *)
LEMMA ApplyShadowPageInv == ASSUME IInv, NEW s \in toApply, ApplyShadowPage(s) PROVE IInv'
<1> USE DEF IInv, ApplyShadowPage, memory, bounds, medium
<1>1. /\ data' \in DataFile /\ data'.page = data.page
      /\ s = "header" => data'.header = shadow.header /\ data'.index = data.index
      /\ s = "index" => data'.header = data.header /\ data'.index = shadow.index
      /\ s \in {"header", "index"}
  BY CopyShadowPage
<1>2. TypeOK'
  BY BoundsAssumption, <1>1 DEF TypeOK, MemoryInv, JournalInv, Header, Content, DataFile,
     ShadowFile, CheckpointSteps, RecoverySteps
<1>3. QuietInv' /\ MarkingInv' /\ MarkedInv' /\ StaleInv'
  BY <1>1 DEF QuietInv, MarkingInv, MarkedInv, StaleInv, Marked, MarkedOnDisk, MemoryInv,
     SameImage, Clean, Replayable, OneImage, JournalOnDisk, Logged, Past, TypeOK, DataFile,
     JournalInv, CheckpointSteps
<1>4. JournalInv'
  BY <1>1 DEF JournalInv, Marked, MemoryInv, Past, TypeOK, DataFile, MarkedInv, QuietInv,
     StaleInv, SameImage, MarkedOnDisk
<1>5. MemoryInv'
  BY <1>1 DEF MemoryInv, Past, Forced, Marked, MarkedOnDisk, Replayable, CheckpointSteps,
     RecoverySteps, QuietInv, MarkingInv, MarkedInv, StaleInv, SameImage, JournalOnDisk,
     TypeOK, DataFile, JournalInv
<1>6. AckedInv'
  BY <1>1 DEF AckedInv, OnDisk, Shown, Marked, MarkedOnDisk, QuietInv, MarkingInv, MarkedInv,
     StaleInv, SameImage, Logged, MemoryInv, JournalInv, TypeOK, DataFile, CheckpointSteps,
     Forced
<1> QED
  BY <1>2, <1>3, <1>4, <1>5, <1>6

(* The copied pages are on the medium. *)
LEMMA SyncAppliedInv == ASSUME IInv, SyncApplied PROVE IInv'
<1> USE DEF IInv, SyncApplied, syncData, removed, walRemoved, memory, bounds, medium
<1>1. TypeOK'
  BY BoundsAssumption, EmptyWalFacts DEF TypeOK, MemoryInv, JournalInv, Header, Content,
     DataFile, ShadowFile, CheckpointSteps, RecoverySteps
<1>2. QuietInv' /\ MarkingInv' /\ MarkedInv' /\ StaleInv'
  BY EmptyWalFacts DEF QuietInv, MarkingInv, MarkedInv, StaleInv, Marked, MarkedOnDisk,
     MemoryInv, SameImage, Clean, Replayable, OneImage, JournalOnDisk, Logged, Past, TypeOK,
     DataFile, JournalInv, CheckpointSteps
<1>3. JournalInv'
  BY EmptyWalFacts DEF JournalInv, Marked, MemoryInv, Past, TypeOK, DataFile, MarkedInv,
     QuietInv, StaleInv, SameImage, MarkedOnDisk
<1>4. MemoryInv'
  BY EmptyWalFacts DEF MemoryInv, Past, Forced, Marked, MarkedOnDisk, Replayable,
     CheckpointSteps, RecoverySteps, QuietInv, MarkingInv, MarkedInv, StaleInv, SameImage,
     JournalOnDisk, TypeOK, DataFile, JournalInv
<1>5. AckedInv'
  BY EmptyWalFacts DEF AckedInv, OnDisk, Shown, Marked, MarkedOnDisk, QuietInv, MarkingInv,
     MarkedInv, StaleInv, SameImage, Logged, MemoryInv, JournalInv, TypeOK, DataFile,
     CheckpointSteps, Forced
<1> QED
  BY <1>1, <1>2, <1>3, <1>4, <1>5

(* The journal is emptied; on the medium it may still end with the mark. *)
LEMMA ClearWalInv == ASSUME IInv, ClearWal PROVE IInv'
<1> USE DEF IInv, ClearWal, memory, bounds, medium
<1>1. TypeOK'
  BY BoundsAssumption, EmptyWalFacts DEF TypeOK, MemoryInv, JournalInv, Header, Content,
     DataFile, ShadowFile, CheckpointSteps, RecoverySteps
<1>2. QuietInv' /\ MarkingInv' /\ MarkedInv' /\ StaleInv'
  BY EmptyWalFacts DEF QuietInv, MarkingInv, MarkedInv, StaleInv, Marked, MarkedOnDisk,
     MemoryInv, SameImage, Clean, Replayable, OneImage, JournalOnDisk, Logged, Past, TypeOK,
     DataFile, JournalInv, CheckpointSteps
<1>3. JournalInv'
  BY EmptyWalFacts DEF JournalInv, Marked, MemoryInv, Past, TypeOK, DataFile, MarkedInv,
     QuietInv, StaleInv, SameImage, MarkedOnDisk
<1>4. MemoryInv'
  BY EmptyWalFacts DEF MemoryInv, Past, Forced, Marked, MarkedOnDisk, Replayable,
     CheckpointSteps, RecoverySteps, QuietInv, MarkingInv, MarkedInv, StaleInv, SameImage,
     JournalOnDisk, TypeOK, DataFile, JournalInv
<1>5. AckedInv'
  BY EmptyWalFacts DEF AckedInv, OnDisk, Shown, Marked, MarkedOnDisk, QuietInv, MarkingInv,
     MarkedInv, StaleInv, SameImage, Logged, MemoryInv, JournalInv, TypeOK, DataFile,
     CheckpointSteps, Forced
<1> QED
  BY <1>1, <1>2, <1>3, <1>4, <1>5

(* The journal is removed; on the medium it may still be there. *)
LEMMA ResetWalInv == ASSUME IInv, ResetWal PROVE IInv'
<1> USE DEF IInv, ResetWal, memory, bounds, medium
<1>1. TypeOK'
  BY BoundsAssumption, EmptyWalFacts DEF TypeOK, MemoryInv, JournalInv, Header, Content,
     DataFile, ShadowFile, CheckpointSteps, RecoverySteps
<1>2. QuietInv' /\ MarkingInv' /\ MarkedInv' /\ StaleInv'
  BY EmptyWalFacts DEF QuietInv, MarkingInv, MarkedInv, StaleInv, Marked, MarkedOnDisk,
     MemoryInv, SameImage, Clean, Replayable, OneImage, JournalOnDisk, Logged, Past, TypeOK,
     DataFile, JournalInv, CheckpointSteps
<1>3. JournalInv'
  BY EmptyWalFacts DEF JournalInv, Marked, MemoryInv, Past, TypeOK, DataFile, MarkedInv,
     QuietInv, StaleInv, SameImage, MarkedOnDisk
<1>4. MemoryInv'
  BY EmptyWalFacts DEF MemoryInv, Past, Forced, Marked, MarkedOnDisk, Replayable,
     CheckpointSteps, RecoverySteps, QuietInv, MarkingInv, MarkedInv, StaleInv, SameImage,
     JournalOnDisk, TypeOK, DataFile, JournalInv
<1>5. AckedInv'
  BY EmptyWalFacts DEF AckedInv, OnDisk, Shown, Marked, MarkedOnDisk, QuietInv, MarkingInv,
     MarkedInv, StaleInv, SameImage, Logged, MemoryInv, JournalInv, TypeOK, DataFile,
     CheckpointSteps, Forced
<1> QED
  BY <1>1, <1>2, <1>3, <1>4, <1>5

(* The shadow file is removed, after the journal. *)
LEMMA ResetShadowInv == ASSUME IInv, ResetShadow PROVE IInv'
<1> USE DEF IInv, ResetShadow, NoShadow, Garbage, memory, bounds, medium
<1>1. TypeOK'
  BY BoundsAssumption, EmptyWalFacts DEF TypeOK, MemoryInv, JournalInv, Header, Content,
     DataFile, ShadowFile, CheckpointSteps, RecoverySteps
<1>2. QuietInv' /\ MarkingInv' /\ MarkedInv' /\ StaleInv'
  BY EmptyWalFacts DEF QuietInv, MarkingInv, MarkedInv, StaleInv, Marked, MarkedOnDisk,
     MemoryInv, SameImage, Clean, Replayable, OneImage, JournalOnDisk, Logged, Past, TypeOK,
     DataFile, JournalInv, CheckpointSteps
<1>3. JournalInv'
  BY EmptyWalFacts DEF JournalInv, Marked, MemoryInv, Past, TypeOK, DataFile, MarkedInv,
     QuietInv, StaleInv, SameImage, MarkedOnDisk
<1>4. MemoryInv'
  BY EmptyWalFacts DEF MemoryInv, Past, Forced, Marked, MarkedOnDisk, Replayable,
     CheckpointSteps, RecoverySteps, QuietInv, MarkingInv, MarkedInv, StaleInv, SameImage,
     JournalOnDisk, TypeOK, DataFile, JournalInv
<1>5. AckedInv'
  BY EmptyWalFacts DEF AckedInv, OnDisk, Shown, Marked, MarkedOnDisk, QuietInv, MarkingInv,
     MarkedInv, StaleInv, SameImage, Logged, MemoryInv, JournalInv, TypeOK, DataFile,
     CheckpointSteps, Forced
<1> QED
  BY <1>1, <1>2, <1>3, <1>4, <1>5

(* A checkpoint that is refused has changed nothing that is served. *)
LEMMA CheckpointRefusedInv == ASSUME IInv, CheckpointRefused PROVE IInv'
<1> USE DEF IInv, CheckpointRefused, memory, bounds, medium
<1>1. TypeOK'
  BY BoundsAssumption, EmptyWalFacts DEF TypeOK, MemoryInv, JournalInv, Header, Content,
     DataFile, ShadowFile, CheckpointSteps, RecoverySteps
<1>2. QuietInv' /\ MarkingInv' /\ MarkedInv' /\ StaleInv'
  BY EmptyWalFacts DEF QuietInv, MarkingInv, MarkedInv, StaleInv, Marked, MarkedOnDisk,
     MemoryInv, SameImage, Clean, Replayable, OneImage, JournalOnDisk, Logged, Past, TypeOK,
     DataFile, JournalInv, CheckpointSteps
<1>3. JournalInv'
  BY EmptyWalFacts DEF JournalInv, Marked, MemoryInv, Past, TypeOK, DataFile, MarkedInv,
     QuietInv, StaleInv, SameImage, MarkedOnDisk
<1>4. MemoryInv'
  BY EmptyWalFacts DEF MemoryInv, Past, Forced, Marked, MarkedOnDisk, Replayable,
     CheckpointSteps, RecoverySteps, QuietInv, MarkingInv, MarkedInv, StaleInv, SameImage,
     JournalOnDisk, TypeOK, DataFile, JournalInv
<1>5. AckedInv'
  BY EmptyWalFacts DEF AckedInv, OnDisk, Shown, Marked, MarkedOnDisk, QuietInv, MarkingInv,
     MarkedInv, StaleInv, SameImage, Logged, MemoryInv, JournalInv, TypeOK, DataFile,
     CheckpointSteps, Forced
<1> QED
  BY <1>1, <1>2, <1>3, <1>4, <1>5

(* A checkpoint that fails leaves the files as they are. *)
LEMMA CheckpointFailsInv == ASSUME IInv, CheckpointFails PROVE IInv'
<1> USE DEF IInv, CheckpointFails, memory, bounds, medium
<1>1. TypeOK'
  BY BoundsAssumption, EmptyWalFacts DEF TypeOK, MemoryInv, JournalInv, Header, Content,
     DataFile, ShadowFile, CheckpointSteps, RecoverySteps
<1>2. QuietInv' /\ MarkingInv' /\ MarkedInv' /\ StaleInv'
  BY EmptyWalFacts DEF QuietInv, MarkingInv, MarkedInv, StaleInv, Marked, MarkedOnDisk,
     MemoryInv, SameImage, Clean, Replayable, OneImage, JournalOnDisk, Logged, Past, TypeOK,
     DataFile, JournalInv, CheckpointSteps
<1>3. JournalInv'
  BY EmptyWalFacts DEF JournalInv, Marked, MemoryInv, Past, TypeOK, DataFile, MarkedInv,
     QuietInv, StaleInv, SameImage, MarkedOnDisk
<1>4. MemoryInv'
  BY EmptyWalFacts DEF MemoryInv, Past, Forced, Marked, MarkedOnDisk, Replayable,
     CheckpointSteps, RecoverySteps, QuietInv, MarkingInv, MarkedInv, StaleInv, SameImage,
     JournalOnDisk, TypeOK, DataFile, JournalInv
<1>5. AckedInv'
  BY EmptyWalFacts DEF AckedInv, OnDisk, Shown, Marked, MarkedOnDisk, QuietInv, MarkingInv,
     MarkedInv, StaleInv, SameImage, Logged, MemoryInv, JournalInv, TypeOK, DataFile,
     CheckpointSteps, Forced
<1> QED
  BY <1>1, <1>2, <1>3, <1>4, <1>5

(* The process ends without a crash. *)
LEMMA CloseInv == ASSUME IInv, Close PROVE IInv'
<1> USE DEF IInv, Close, memory, bounds, medium
<1>1. TypeOK'
  BY BoundsAssumption, EmptyWalFacts DEF TypeOK, MemoryInv, JournalInv, Header, Content,
     DataFile, ShadowFile, CheckpointSteps, RecoverySteps
<1>2. QuietInv' /\ MarkingInv' /\ MarkedInv' /\ StaleInv'
  BY EmptyWalFacts DEF QuietInv, MarkingInv, MarkedInv, StaleInv, Marked, MarkedOnDisk,
     MemoryInv, SameImage, Clean, Replayable, OneImage, JournalOnDisk, Logged, Past, TypeOK,
     DataFile, JournalInv, CheckpointSteps
<1>3. JournalInv'
  BY EmptyWalFacts DEF JournalInv, Marked, MemoryInv, Past, TypeOK, DataFile, MarkedInv,
     QuietInv, StaleInv, SameImage, MarkedOnDisk
<1>4. MemoryInv'
  BY EmptyWalFacts DEF MemoryInv, Past, Forced, Marked, MarkedOnDisk, Replayable,
     CheckpointSteps, RecoverySteps, QuietInv, MarkingInv, MarkedInv, StaleInv, SameImage,
     JournalOnDisk, TypeOK, DataFile, JournalInv
<1>5. AckedInv'
  BY EmptyWalFacts DEF AckedInv, OnDisk, Shown, Marked, MarkedOnDisk, QuietInv, MarkingInv,
     MarkedInv, StaleInv, SameImage, Logged, MemoryInv, JournalInv, TypeOK, DataFile,
     CheckpointSteps, Forced
<1> QED
  BY <1>1, <1>2, <1>3, <1>4, <1>5

(* An opening without a journal. *)
LEMMA RecoverNoWalInv == ASSUME IInv, RecoverNoWal PROVE IInv'
<1> USE DEF IInv, RecoverNoWal, NoShadow, Garbage, memory, bounds, medium
<1>1. TypeOK'
  BY BoundsAssumption, EmptyWalFacts DEF TypeOK, MemoryInv, JournalInv, Header, Content,
     DataFile, ShadowFile, CheckpointSteps, RecoverySteps
<1>2. QuietInv' /\ MarkingInv' /\ MarkedInv' /\ StaleInv'
  BY EmptyWalFacts DEF QuietInv, MarkingInv, MarkedInv, StaleInv, Marked, MarkedOnDisk,
     MemoryInv, SameImage, Clean, Replayable, OneImage, JournalOnDisk, Logged, Past, TypeOK,
     DataFile, JournalInv, CheckpointSteps
<1>3. JournalInv'
  BY EmptyWalFacts DEF JournalInv, Marked, MemoryInv, Past, TypeOK, DataFile, MarkedInv,
     QuietInv, StaleInv, SameImage, MarkedOnDisk
<1>4. MemoryInv'
  BY EmptyWalFacts DEF MemoryInv, Past, Forced, Marked, MarkedOnDisk, Replayable,
     CheckpointSteps, RecoverySteps, QuietInv, MarkingInv, MarkedInv, StaleInv, SameImage,
     JournalOnDisk, TypeOK, DataFile, JournalInv
<1>5. AckedInv'
  BY EmptyWalFacts DEF AckedInv, OnDisk, Shown, Marked, MarkedOnDisk, QuietInv, MarkingInv,
     MarkedInv, StaleInv, SameImage, Logged, MemoryInv, JournalInv, TypeOK, DataFile,
     CheckpointSteps, Forced
<1> QED
  BY <1>1, <1>2, <1>3, <1>4, <1>5

(* An opening with an empty journal. *)
LEMMA RecoverEmptyWalInv == ASSUME IInv, RecoverEmptyWal PROVE IInv'
<1> USE DEF IInv, RecoverEmptyWal, memory, bounds, medium
<1>1. TypeOK'
  BY BoundsAssumption, EmptyWalFacts DEF TypeOK, MemoryInv, JournalInv, Header, Content,
     DataFile, ShadowFile, CheckpointSteps, RecoverySteps
<1>2. QuietInv' /\ MarkingInv' /\ MarkedInv' /\ StaleInv'
  BY EmptyWalFacts DEF QuietInv, MarkingInv, MarkedInv, StaleInv, Marked, MarkedOnDisk,
     MemoryInv, SameImage, Clean, Replayable, OneImage, JournalOnDisk, Logged, Past, TypeOK,
     DataFile, JournalInv, CheckpointSteps
<1>3. JournalInv'
  BY EmptyWalFacts DEF JournalInv, Marked, MemoryInv, Past, TypeOK, DataFile, MarkedInv,
     QuietInv, StaleInv, SameImage, MarkedOnDisk
<1>4. MemoryInv'
  BY EmptyWalFacts DEF MemoryInv, Past, Forced, Marked, MarkedOnDisk, Replayable,
     CheckpointSteps, RecoverySteps, QuietInv, MarkingInv, MarkedInv, StaleInv, SameImage,
     JournalOnDisk, TypeOK, DataFile, JournalInv
<1>5. AckedInv'
  BY EmptyWalFacts DEF AckedInv, OnDisk, Shown, Marked, MarkedOnDisk, QuietInv, MarkingInv,
     MarkedInv, StaleInv, SameImage, Logged, MemoryInv, JournalInv, TypeOK, DataFile,
     CheckpointSteps, Forced
<1> QED
  BY <1>1, <1>2, <1>3, <1>4, <1>5

(* An opening that completes a checkpoint. *)
LEMMA RecoverCheckpointInv == ASSUME IInv, RecoverCheckpoint PROVE IInv'
<1> USE DEF IInv, RecoverCheckpoint, syncWal, removed, memory, bounds, medium
<1>1. TypeOK'
  BY BoundsAssumption, EmptyWalFacts DEF TypeOK, MemoryInv, JournalInv, Header, Content,
     DataFile, ShadowFile, CheckpointSteps, RecoverySteps
<1>2. QuietInv' /\ MarkingInv' /\ MarkedInv' /\ StaleInv'
  BY EmptyWalFacts DEF QuietInv, MarkingInv, MarkedInv, StaleInv, Marked, MarkedOnDisk,
     MemoryInv, SameImage, Clean, Replayable, OneImage, JournalOnDisk, Logged, Past, TypeOK,
     DataFile, JournalInv, CheckpointSteps
<1>3. JournalInv'
  BY EmptyWalFacts DEF JournalInv, Marked, MemoryInv, Past, TypeOK, DataFile, MarkedInv,
     QuietInv, StaleInv, SameImage, MarkedOnDisk
<1>4. MemoryInv'
  BY EmptyWalFacts DEF MemoryInv, Past, Forced, Marked, MarkedOnDisk, Replayable,
     CheckpointSteps, RecoverySteps, QuietInv, MarkingInv, MarkedInv, StaleInv, SameImage,
     JournalOnDisk, TypeOK, DataFile, JournalInv
<1>5. AckedInv'
  BY EmptyWalFacts DEF AckedInv, OnDisk, Shown, Marked, MarkedOnDisk, QuietInv, MarkingInv,
     MarkedInv, StaleInv, SameImage, Logged, MemoryInv, JournalInv, TypeOK, DataFile,
     CheckpointSteps, Forced
<1> QED
  BY <1>1, <1>2, <1>3, <1>4, <1>5

(* As ApplyShadowPage. *)
LEMMA ReplayShadowPageInv == ASSUME IInv, NEW s \in toApply, ReplayShadowPage(s) PROVE IInv'
<1> USE DEF IInv, ReplayShadowPage, memory, bounds, medium
<1>1. /\ data' \in DataFile /\ data'.page = data.page
      /\ s = "header" => data'.header = shadow.header /\ data'.index = data.index
      /\ s = "index" => data'.header = data.header /\ data'.index = shadow.index
      /\ s \in {"header", "index"}
  BY CopyShadowPage
<1>2. TypeOK'
  BY BoundsAssumption, <1>1 DEF TypeOK, MemoryInv, JournalInv, Header, Content, DataFile,
     ShadowFile, CheckpointSteps, RecoverySteps
<1>3. QuietInv' /\ MarkingInv' /\ MarkedInv' /\ StaleInv'
  BY <1>1 DEF QuietInv, MarkingInv, MarkedInv, StaleInv, Marked, MarkedOnDisk, MemoryInv,
     SameImage, Clean, Replayable, OneImage, JournalOnDisk, Logged, Past, TypeOK, DataFile,
     JournalInv, CheckpointSteps
<1>4. JournalInv'
  BY <1>1 DEF JournalInv, Marked, MemoryInv, Past, TypeOK, DataFile, MarkedInv, QuietInv,
     StaleInv, SameImage, MarkedOnDisk
<1>5. MemoryInv'
  BY <1>1 DEF MemoryInv, Past, Forced, Marked, MarkedOnDisk, Replayable, CheckpointSteps,
     RecoverySteps, QuietInv, MarkingInv, MarkedInv, StaleInv, SameImage, JournalOnDisk,
     TypeOK, DataFile, JournalInv
<1>6. AckedInv'
  BY <1>1 DEF AckedInv, OnDisk, Shown, Marked, MarkedOnDisk, QuietInv, MarkingInv, MarkedInv,
     StaleInv, SameImage, Logged, MemoryInv, JournalInv, TypeOK, DataFile, CheckpointSteps,
     Forced
<1> QED
  BY <1>2, <1>3, <1>4, <1>5, <1>6

(* As SyncApplied. *)
LEMMA SyncReplayedInv == ASSUME IInv, SyncReplayed PROVE IInv'
<1> USE DEF IInv, SyncReplayed, syncData, removed, walRemoved, memory, bounds, medium
<1>1. TypeOK'
  BY BoundsAssumption, EmptyWalFacts DEF TypeOK, MemoryInv, JournalInv, Header, Content,
     DataFile, ShadowFile, CheckpointSteps, RecoverySteps
<1>2. QuietInv' /\ MarkingInv' /\ MarkedInv' /\ StaleInv'
  BY EmptyWalFacts DEF QuietInv, MarkingInv, MarkedInv, StaleInv, Marked, MarkedOnDisk,
     MemoryInv, SameImage, Clean, Replayable, OneImage, JournalOnDisk, Logged, Past, TypeOK,
     DataFile, JournalInv, CheckpointSteps
<1>3. JournalInv'
  BY EmptyWalFacts DEF JournalInv, Marked, MemoryInv, Past, TypeOK, DataFile, MarkedInv,
     QuietInv, StaleInv, SameImage, MarkedOnDisk
<1>4. MemoryInv'
  BY EmptyWalFacts DEF MemoryInv, Past, Forced, Marked, MarkedOnDisk, Replayable,
     CheckpointSteps, RecoverySteps, QuietInv, MarkingInv, MarkedInv, StaleInv, SameImage,
     JournalOnDisk, TypeOK, DataFile, JournalInv
<1>5. AckedInv'
  BY EmptyWalFacts DEF AckedInv, OnDisk, Shown, Marked, MarkedOnDisk, QuietInv, MarkingInv,
     MarkedInv, StaleInv, SameImage, Logged, MemoryInv, JournalInv, TypeOK, DataFile,
     CheckpointSteps, Forced
<1> QED
  BY <1>1, <1>2, <1>3, <1>4, <1>5

(* Recovery removes the journal, empty or marked. *)
LEMMA RemoveWalInv == ASSUME IInv, RemoveWal PROVE IInv'
<1> USE DEF IInv, RemoveWal, memory, bounds, medium
<1>1. TypeOK'
  BY BoundsAssumption, EmptyWalFacts DEF TypeOK, MemoryInv, JournalInv, Header, Content,
     DataFile, ShadowFile, CheckpointSteps, RecoverySteps
<1>2. QuietInv' /\ MarkingInv' /\ MarkedInv' /\ StaleInv'
  BY EmptyWalFacts DEF QuietInv, MarkingInv, MarkedInv, StaleInv, Marked, MarkedOnDisk,
     MemoryInv, SameImage, Clean, Replayable, OneImage, JournalOnDisk, Logged, Past, TypeOK,
     DataFile, JournalInv, CheckpointSteps
<1>3. JournalInv'
  BY EmptyWalFacts DEF JournalInv, Marked, MemoryInv, Past, TypeOK, DataFile, MarkedInv,
     QuietInv, StaleInv, SameImage, MarkedOnDisk
<1>4. MemoryInv'
  BY EmptyWalFacts DEF MemoryInv, Past, Forced, Marked, MarkedOnDisk, Replayable,
     CheckpointSteps, RecoverySteps, QuietInv, MarkingInv, MarkedInv, StaleInv, SameImage,
     JournalOnDisk, TypeOK, DataFile, JournalInv
<1>5. AckedInv'
  BY EmptyWalFacts DEF AckedInv, OnDisk, Shown, Marked, MarkedOnDisk, QuietInv, MarkingInv,
     MarkedInv, StaleInv, SameImage, Logged, MemoryInv, JournalInv, TypeOK, DataFile,
     CheckpointSteps, Forced
<1> QED
  BY <1>1, <1>2, <1>3, <1>4, <1>5

(* Recovery removes the shadow file. *)
LEMMA RemoveShadowInv == ASSUME IInv, RemoveShadow PROVE IInv'
<1> USE DEF IInv, RemoveShadow, NoShadow, Garbage, memory, bounds, medium
<1>1. TypeOK'
  BY BoundsAssumption, EmptyWalFacts DEF TypeOK, MemoryInv, JournalInv, Header, Content,
     DataFile, ShadowFile, CheckpointSteps, RecoverySteps
<1>2. QuietInv' /\ MarkingInv' /\ MarkedInv' /\ StaleInv'
  BY EmptyWalFacts DEF QuietInv, MarkingInv, MarkedInv, StaleInv, Marked, MarkedOnDisk,
     MemoryInv, SameImage, Clean, Replayable, OneImage, JournalOnDisk, Logged, Past, TypeOK,
     DataFile, JournalInv, CheckpointSteps
<1>3. JournalInv'
  BY EmptyWalFacts DEF JournalInv, Marked, MemoryInv, Past, TypeOK, DataFile, MarkedInv,
     QuietInv, StaleInv, SameImage, MarkedOnDisk
<1>4. MemoryInv'
  BY EmptyWalFacts DEF MemoryInv, Past, Forced, Marked, MarkedOnDisk, Replayable,
     CheckpointSteps, RecoverySteps, QuietInv, MarkingInv, MarkedInv, StaleInv, SameImage,
     JournalOnDisk, TypeOK, DataFile, JournalInv
<1>5. AckedInv'
  BY EmptyWalFacts DEF AckedInv, OnDisk, Shown, Marked, MarkedOnDisk, QuietInv, MarkingInv,
     MarkedInv, StaleInv, SameImage, Logged, MemoryInv, JournalInv, TypeOK, DataFile,
     CheckpointSteps, Forced
<1> QED
  BY <1>1, <1>2, <1>3, <1>4, <1>5

(* The last checkpoint is read. *)
LEMMA ReadCheckpointInv == ASSUME IInv, ReadCheckpoint PROVE IInv'
<1> USE DEF IInv, ReadCheckpoint, memory, bounds, medium
<1>1. TypeOK'
  BY BoundsAssumption, EmptyWalFacts DEF TypeOK, MemoryInv, JournalInv, Header, Content,
     DataFile, ShadowFile, CheckpointSteps, RecoverySteps
<1>2. QuietInv' /\ MarkingInv' /\ MarkedInv' /\ StaleInv'
  BY EmptyWalFacts DEF QuietInv, MarkingInv, MarkedInv, StaleInv, Marked, MarkedOnDisk,
     MemoryInv, SameImage, Clean, Replayable, OneImage, JournalOnDisk, Logged, Past, TypeOK,
     DataFile, JournalInv, CheckpointSteps
<1>3. JournalInv'
  BY EmptyWalFacts DEF JournalInv, Marked, MemoryInv, Past, TypeOK, DataFile, MarkedInv,
     QuietInv, StaleInv, SameImage, MarkedOnDisk
<1>4. MemoryInv'
  BY EmptyWalFacts DEF MemoryInv, Past, Forced, Marked, MarkedOnDisk, Replayable,
     CheckpointSteps, RecoverySteps, QuietInv, MarkingInv, MarkedInv, StaleInv, SameImage,
     JournalOnDisk, TypeOK, DataFile, JournalInv
<1>5. AckedInv'
  BY EmptyWalFacts DEF AckedInv, OnDisk, Shown, Marked, MarkedOnDisk, QuietInv, MarkingInv,
     MarkedInv, StaleInv, SameImage, Logged, MemoryInv, JournalInv, TypeOK, DataFile,
     CheckpointSteps, Forced
<1> QED
  BY <1>1, <1>2, <1>3, <1>4, <1>5

(* An opening with commits to replay. *)
LEMMA RecoverWalInv == ASSUME IInv, RecoverWal PROVE IInv'
<1> USE DEF IInv, RecoverWal, syncWal, removed, NoShadow, Garbage, memory, bounds, medium
<1>1. TypeOK'
  BY BoundsAssumption, EmptyWalFacts DEF TypeOK, MemoryInv, JournalInv, Header, Content,
     DataFile, ShadowFile, CheckpointSteps, RecoverySteps
<1>2. QuietInv' /\ MarkingInv' /\ MarkedInv' /\ StaleInv'
  BY EmptyWalFacts DEF QuietInv, MarkingInv, MarkedInv, StaleInv, Marked, MarkedOnDisk,
     MemoryInv, SameImage, Clean, Replayable, OneImage, JournalOnDisk, Logged, Past, TypeOK,
     DataFile, JournalInv, CheckpointSteps
<1>3. JournalInv'
  BY EmptyWalFacts DEF JournalInv, Marked, MemoryInv, Past, TypeOK, DataFile, MarkedInv,
     QuietInv, StaleInv, SameImage, MarkedOnDisk
<1>4. MemoryInv'
  BY EmptyWalFacts DEF MemoryInv, Past, Forced, Marked, MarkedOnDisk, Replayable,
     CheckpointSteps, RecoverySteps, QuietInv, MarkingInv, MarkedInv, StaleInv, SameImage,
     JournalOnDisk, TypeOK, DataFile, JournalInv
<1>5. AckedInv'
  BY EmptyWalFacts DEF AckedInv, OnDisk, Shown, Marked, MarkedOnDisk, QuietInv, MarkingInv,
     MarkedInv, StaleInv, SameImage, Logged, MemoryInv, JournalInv, TypeOK, DataFile,
     CheckpointSteps, Forced
<1> QED
  BY <1>1, <1>2, <1>3, <1>4, <1>5

(* The commits are replayed over the last checkpoint. *)
LEMMA ReplayWalInv == ASSUME IInv, ReplayWal PROVE IInv'
<1> USE DEF IInv, ReplayWal, memory, bounds, medium
<1>1. TypeOK'
  BY BoundsAssumption, EmptyWalFacts DEF TypeOK, MemoryInv, JournalInv, Header, Content,
     DataFile, ShadowFile, CheckpointSteps, RecoverySteps
<1>2. QuietInv' /\ MarkingInv' /\ MarkedInv' /\ StaleInv'
  BY EmptyWalFacts DEF QuietInv, MarkingInv, MarkedInv, StaleInv, Marked, MarkedOnDisk,
     MemoryInv, SameImage, Clean, Replayable, OneImage, JournalOnDisk, Logged, Past, TypeOK,
     DataFile, JournalInv, CheckpointSteps
<1>3. JournalInv'
  BY EmptyWalFacts DEF JournalInv, Marked, MemoryInv, Past, TypeOK, DataFile, MarkedInv,
     QuietInv, StaleInv, SameImage, MarkedOnDisk
<1>4. MemoryInv'
  BY EmptyWalFacts DEF MemoryInv, Past, Forced, Marked, MarkedOnDisk, Replayable,
     CheckpointSteps, RecoverySteps, QuietInv, MarkingInv, MarkedInv, StaleInv, SameImage,
     JournalOnDisk, TypeOK, DataFile, JournalInv
<1>5. AckedInv'
  BY EmptyWalFacts DEF AckedInv, OnDisk, Shown, Marked, MarkedOnDisk, QuietInv, MarkingInv,
     MarkedInv, StaleInv, SameImage, Logged, MemoryInv, JournalInv, TypeOK, DataFile,
     CheckpointSteps, Forced
<1> QED
  BY <1>1, <1>2, <1>3, <1>4, <1>5

(* A torn end is cut. *)
LEMMA TruncateWalInv == ASSUME IInv, TruncateWal PROVE IInv'
<1> USE DEF IInv, TruncateWal, removed, memory, bounds, medium
<1>1. /\ wal' \in Wal /\ wal'.exists = wal.exists /\ wal'.log = wal.log
  BY DEF TypeOK, Wal
<1>2. (isLastRecordCheckpoint(wal') <=> isLastRecordCheckpoint(wal)) /\ commits(wal') = commits(wal)
  BY <1>1 DEF isLastRecordCheckpoint, commits
<1>3. TypeOK'
  BY BoundsAssumption, <1>1, <1>2 DEF TypeOK, MemoryInv, JournalInv, Header, Content,
     DataFile, ShadowFile, CheckpointSteps, RecoverySteps
<1>4. QuietInv' /\ MarkingInv' /\ MarkedInv' /\ StaleInv'
  BY <1>1, <1>2 DEF QuietInv, MarkingInv, MarkedInv, StaleInv, Marked, MarkedOnDisk,
     MemoryInv, SameImage, Clean, Replayable, OneImage, JournalOnDisk, Logged, Past, TypeOK,
     DataFile, JournalInv, CheckpointSteps
<1>5. JournalInv'
  BY <1>1, <1>2 DEF JournalInv, Marked, MemoryInv, Past, TypeOK, DataFile, MarkedInv,
     QuietInv, StaleInv, SameImage, MarkedOnDisk
<1>6. MemoryInv'
  BY <1>1, <1>2 DEF MemoryInv, Past, Forced, Marked, MarkedOnDisk, Replayable,
     CheckpointSteps, RecoverySteps, QuietInv, MarkingInv, MarkedInv, StaleInv, SameImage,
     JournalOnDisk, TypeOK, DataFile, JournalInv
<1>7. AckedInv'
  BY <1>1, <1>2 DEF AckedInv, OnDisk, Shown, Marked, MarkedOnDisk, QuietInv, MarkingInv,
     MarkedInv, StaleInv, SameImage, Logged, MemoryInv, JournalInv, TypeOK, DataFile,
     CheckpointSteps, Forced
<1> QED
  BY <1>3, <1>4, <1>5, <1>6, <1>7

-----------------------------------------------------------------------------
(* The crash *)

(* Of a page that is the same on the medium, a crash leaves that page. *)
LEMMA DataAfterFacts ==
    ASSUME TypeOK, NEW d \in dataAfter
    PROVE  /\ d \in DataFile
           /\ d.header \in {data.header, dataDisk.header}
           /\ data.index = dataDisk.index => d.index = data.index
           /\ \A p \in Page : data.page[p] = dataDisk.page[p] => d.page[p] = data.page[p]
<1>1. PICK h \in {dataDisk.header, data.header},
           i \in pageAfter(dataDisk.index, data.index),
           f \in {g \in [Page -> UNION {pageAfter(dataDisk.page[p], data.page[p]) : p \in Page}] :
                     \A p \in Page : g[p] \in pageAfter(dataDisk.page[p], data.page[p])} :
           d = [header |-> h, index |-> i, page |-> f]
  BY DEF dataAfter
<1>2. /\ data.header \in Header /\ dataDisk.header \in Header
      /\ data.index \in Content /\ dataDisk.index \in Content
      /\ data.page \in [Page -> Content] /\ dataDisk.page \in [Page -> Content]
  BY DEF TypeOK, DataFile
<1>3. Garbage \in Content
  BY BoundsAssumption DEF Garbage, Content
<1>4. i \in Content /\ h \in Header
  BY <1>1, <1>2, <1>3 DEF pageAfter
<1>5. f \in [Page -> Content]
  BY <1>1, <1>2, <1>3 DEF pageAfter
<1>6. d \in DataFile
  BY <1>1, <1>4, <1>5 DEF DataFile
<1>7. data.index = dataDisk.index => d.index = data.index
  BY <1>1 DEF pageAfter
<1>8. \A p \in Page : data.page[p] = dataDisk.page[p] => d.page[p] = data.page[p]
  BY <1>1 DEF pageAfter
<1>9. d.header \in {data.header, dataDisk.header}
  BY <1>1
<1> QED
  BY <1>6, <1>7, <1>8, <1>9

(* A shadow file that is on the medium survives a crash.                   *)
LEMMA ShadowAfterFacts ==
    ASSUME TypeOK, NEW s \in shadowAfter
    PROVE  s \in ShadowFile /\ (shadow = shadowDisk => s = shadow)
<1>1. PartShadow \in ShadowFile
  BY BoundsAssumption DEF PartShadow, NoShadow, ShadowFile, Header, Content, Garbage
<1> QED
  BY <1>1 DEF shadowAfter, TypeOK

(* The journal after a crash: the one on the medium, the one shown, or the *)
(* one shown without its last record.                                      *)
LEMMA WalAfterCases ==
    ASSUME NEW w \in walAfter
    PROVE  \/ w = walDisk \/ w = wal
           \/ /\ wal # walDisk /\ wal.log # <<>>
              /\ \/ w.exists /\ w.log = Front(wal.log) /\ w.torn \in BOOLEAN
                                  /\ w = [exists |-> TRUE, log |-> Front(wal.log), torn |-> w.torn]
                 \/ w = NoWal /\ replacedWal
  BY DEF walAfter

(* A journal that lost a torn record is the one that it was without it.    *)
LEMMA ShorterWal ==
    ASSUME NEW w, NEW v \in Wal, NEW b \in BOOLEAN,
           w = [exists |-> TRUE, log |-> v.log, torn |-> b]
    PROVE  /\ w \in Wal /\ w.exists /\ w.log = v.log
           /\ isLastRecordCheckpoint(w) <=> isLastRecordCheckpoint(v)
           /\ commits(w) = commits(v)
  BY DEF Wal, isLastRecordCheckpoint, commits

(* A journal that a crash may leave.                                       *)
Intact(w) == w \in Wal /\ (w.exists \/ w = NoWal)

(* A crash without a mark: the commit that was being synced is there or is *)
(* not.                                                                    *)
LEMMA QuietCrash ==
    ASSUME IInv, ~Marked, ~MarkedOnDisk, NEW w \in walAfter
    PROVE  /\ Intact(w) /\ ~isLastRecordCheckpoint(w)
           /\ commits(w) = commits(walDisk) \/ commits(w) = commits(wal)
<1>1. wal \in Wal /\ walDisk \in Wal /\ Intact(wal) /\ Intact(walDisk)
  BY DEF IInv, TypeOK, JournalInv, Intact
<1>2. CASE w = walDisk \/ w = wal
  BY <1>1, <1>2 DEF Marked, MarkedOnDisk
<1>3. CASE wal # walDisk /\ wal.log # <<>>
  <2>1. pc = "committing" /\ wal.exists /\ wal.log = Append(walDisk.log, lastTxn)
    BY <1>3 DEF IInv, QuietInv, JournalOnDisk, Logged
  <2>2. walDisk.log \in Seq(0 .. MaxTxns) /\ lastTxn \in 0 .. MaxTxns
    BY <1>1 DEF IInv, TypeOK, Wal
  <2> DEFINE q == Append(walDisk.log, lastTxn)
  <2>3. Front(q) = walDisk.log /\ IsPrefix(walDisk.log, q)
    BY <2>2, AppendFacts
  <2>4. Front(wal.log) = walDisk.log /\ IsPrefix(walDisk.log, wal.log)
    BY <2>1, <2>3
  <2>5. CASE w.torn \in BOOLEAN /\ w = [exists |-> TRUE, log |-> Front(wal.log), torn |-> w.torn]
    <3>1. w = [exists |-> TRUE, log |-> walDisk.log, torn |-> w.torn]
      BY <2>4, <2>5
    <3> QED
      BY <3>1, <2>5, <1>1, ShorterWal DEF MarkedOnDisk, Intact
  <2>6. CASE w = NoWal /\ replacedWal
    <3>1. walDisk = NoWal
      BY <2>1, <2>4, <2>6, <1>1 DEF replacedWal, Intact
    <3> QED
      BY <3>1, <2>6, <1>1 DEF MarkedOnDisk
  <2> QED
    BY <2>5, <2>6, <1>2, WalAfterCases
<1> QED
  BY <1>2, <1>3, WalAfterCases

(* A crash while the mark is being synced: the mark is there, or the       *)
(* journal is the one before it.                                           *)
LEMMA MarkingCrash ==
    ASSUME IInv, Marked, ~MarkedOnDisk, NEW w \in walAfter
    PROVE  \/ w = wal
           \/ Intact(w) /\ ~isLastRecordCheckpoint(w) /\ commits(w) = commits(walDisk)
<1>1. wal \in Wal /\ walDisk \in Wal /\ Intact(wal) /\ Intact(walDisk)
  BY DEF IInv, TypeOK, JournalInv, Intact
<1>2. CASE w = walDisk \/ w = wal
  BY <1>1, <1>2 DEF Marked, MarkedOnDisk
<1>3. wal.exists /\ wal.log = Append(walDisk.log, Mark)
  BY DEF IInv, MarkingInv
<1>4. walDisk.log \in Seq(0 .. MaxTxns) /\ Mark \in 0 .. MaxTxns
  BY <1>1, BoundsAssumption DEF Wal, Mark
<1> DEFINE q == Append(walDisk.log, Mark)
<1>5. Front(q) = walDisk.log /\ IsPrefix(walDisk.log, q)
  BY <1>4, AppendFacts
<1>6. Front(wal.log) = walDisk.log /\ IsPrefix(walDisk.log, wal.log)
  BY <1>3, <1>5
<1>7. CASE w.torn \in BOOLEAN /\ w = [exists |-> TRUE, log |-> Front(wal.log), torn |-> w.torn]
  <2>1. w = [exists |-> TRUE, log |-> walDisk.log, torn |-> w.torn]
    BY <1>6, <1>7
  <2> QED
    BY <2>1, <1>7, <1>1, ShorterWal DEF MarkedOnDisk, Intact
<1>8. CASE w = NoWal /\ replacedWal
  <2>1. walDisk = NoWal
    BY <1>3, <1>6, <1>8, <1>1 DEF replacedWal, Intact
  <2> QED
    BY <2>1, <1>8, <1>1 DEF MarkedOnDisk
<1> QED
  BY <1>2, <1>7, <1>8, WalAfterCases

(* A crash after the journal was emptied or removed: the old journal is    *)
(* back, and its shadow file with it, or it is gone.                       *)
LEMMA StaleCrash ==
    ASSUME IInv, ~Marked, MarkedOnDisk, NEW w \in walAfter
    PROVE  /\ replacedWal /\ walDisk # NoWal
           /\ \/ w = walDisk
              \/ /\ Intact(w) /\ ~isLastRecordCheckpoint(w)
                 /\ commits(w) = {} \/ commits(w) = commits(wal)
<1>1. wal \in Wal /\ walDisk \in Wal /\ Intact(wal) /\ Intact(walDisk)
  BY DEF IInv, TypeOK, JournalInv, Intact
<1>2. walDisk # NoWal
  BY <1>1, EmptyWalFacts DEF MarkedOnDisk
<1>3. \/ wal.log = <<>>
      \/ wal.log = Append(<<>>, lastTxn) /\ lastTxn \in 1 .. MaxTxns
  <2>1. pc = "committing" => lastTxn \in commits(wal) /\ commits(wal) \subseteq 1 .. lastTxn
    BY DEF IInv, MemoryInv, JournalInv
  <2>2. lastTxn \in 0 .. MaxTxns /\ MaxTxns \in Nat
    BY BoundsAssumption DEF IInv, TypeOK
  <2>3. pc = "committing" => lastTxn \in 1 .. MaxTxns
    BY <2>1, <2>2
  <2> QED
    BY <2>3 DEF IInv, StaleInv, Logged
<1>4. replacedWal
  <2>1. CASE wal.log = <<>>
    BY <1>1, <2>1, MarkIsNoPrefix DEF replacedWal, MarkedOnDisk
  <2>2. CASE wal.log = Append(<<>>, lastTxn) /\ lastTxn \in 1 .. MaxTxns
    <3>1. ~IsPrefix(walDisk.log, Append(<<>>, lastTxn))
      BY <1>1, <2>2, MarkIsNoPrefix DEF MarkedOnDisk
    <3> QED
      BY <2>2, <3>1 DEF replacedWal
  <2> QED
    BY <1>3, <2>1, <2>2
<1>5. CASE wal.log # <<>> /\ w.torn \in BOOLEAN
           /\ w = [exists |-> TRUE, log |-> Front(wal.log), torn |-> w.torn]
  <2>1. Front(wal.log) = <<>>
    <3>1. <<>> \in Seq(0 .. MaxTxns) /\ lastTxn \in 0 .. MaxTxns
      BY DEF IInv, TypeOK
    <3>2. Front(Append(<<>>, lastTxn)) = <<>>
      BY <3>1, AppendFacts
    <3> QED
      BY <1>3, <1>5, <3>2
  <2>2. w = [exists |-> TRUE, log |-> NoWal.log, torn |-> w.torn]
    BY <2>1, <1>5, EmptyWalFacts
  <2> QED
    BY <2>2, <1>2, <1>4, <1>5, EmptyWalFacts, ShorterWal DEF Intact
<1>6. CASE w = NoWal
  BY <1>2, <1>4, <1>6, EmptyWalFacts DEF Intact
<1>7. CASE w = walDisk \/ w = wal
  BY <1>1, <1>2, <1>4, <1>7 DEF Marked
<1> QED
  BY <1>5, <1>6, <1>7, WalAfterCases

(* Whatever a crash leaves opens to what was on the medium or was shown.   *)
LEMMA CrashOutcome ==
    ASSUME IInv, Crash
    PROVE  /\ data' \in DataFile /\ shadow' \in ShadowFile /\ Intact(wal')
           /\ data'.header \in {data.header, dataDisk.header}
           /\ isLastRecordCheckpoint(wal') =>
                 /\ commits(wal') \in {commits(wal), commits(walDisk)}
                 /\ Replayable(data', shadow') /\ Past(shadow'.header.content)
                 /\ shadow'.header.content \in {OnDisk, Shown}
           /\ ~isLastRecordCheckpoint(wal') =>
                 /\ Clean(data')
                 /\ commits(wal') \in {{}, commits(wal), commits(walDisk)}
                 /\ commits(wal') \cap data'.header.content = {}
                 /\ data'.header.content \cup commits(wal') \in {OnDisk, Shown}
<1>1. /\ data' \in DataFile /\ data'.header \in {data.header, dataDisk.header}
      /\ data.index = dataDisk.index => data'.index = data.index
      /\ \A p \in Page : data.page[p] = dataDisk.page[p] => data'.page[p] = data.page[p]
  BY DataAfterFacts DEF IInv, Crash
<1>2. shadow' \in ShadowFile /\ (shadow = shadowDisk => shadow' = shadow)
  BY ShadowAfterFacts DEF IInv, Crash
<1>3. wal' \in walAfter
  BY DEF Crash
<1>4. Intact(wal) /\ Intact(walDisk)
  BY DEF IInv, TypeOK, JournalInv, Intact
<1>5. CASE ~Marked /\ ~MarkedOnDisk
  <2>1. Intact(wal') /\ ~isLastRecordCheckpoint(wal') /\ commits(wal') \in {commits(wal), commits(walDisk)}
    BY <1>3, <1>5, QuietCrash
  <2>2. Clean(data') /\ data'.header = data.header
    BY <1>1, <1>5 DEF IInv, QuietInv, SameImage, Clean, OneImage
  <2>3. commits(walDisk) \subseteq commits(wal) /\ commits(wal) \cap data.header.content = {}
    BY <1>5 DEF IInv, JournalInv, AckedInv, OnDisk, Shown, QuietInv, SameImage
  <2> QED
    BY <1>1, <1>2, <1>5, <2>1, <2>2, <2>3 DEF OnDisk, Shown, IInv, QuietInv, SameImage
<1>6. CASE Marked /\ ~MarkedOnDisk
  <2>1. /\ data' \in DataFile /\ data'.header = data.header /\ data'.index = data.index
        /\ \A p \in Page : data'.page[p] = data.page[p]
    BY <1>1, <1>6 DEF IInv, MarkingInv
  <2>2. shadow' = shadow /\ Clean(data') /\ Replayable(data', shadow) /\ Past(shadow.header.content)
    BY <1>2, <1>6, <2>1 DEF IInv, MarkingInv, Clean, OneImage, Replayable
  <2>3. \/ wal' = wal
        \/ Intact(wal') /\ ~isLastRecordCheckpoint(wal') /\ commits(wal') = commits(walDisk)
    BY <1>3, <1>6, MarkingCrash
  <2>4. commits(walDisk) \cap data.header.content = {} /\ data = dataDisk
    BY <1>6 DEF IInv, MarkingInv, JournalInv
  <2>5. CASE wal' = wal
    BY <1>1, <1>2, <1>4, <1>6, <2>2, <2>5 DEF Marked, Shown
  <2>6. CASE Intact(wal') /\ ~isLastRecordCheckpoint(wal') /\ commits(wal') = commits(walDisk)
    BY <1>1, <1>2, <1>6, <2>1, <2>2, <2>4, <2>6 DEF OnDisk
  <2> QED
    BY <2>3, <2>5, <2>6
<1>7. CASE Marked /\ MarkedOnDisk
  <2>1. wal = walDisk /\ shadow = shadowDisk /\ Past(shadow.header.content)
    BY <1>7 DEF IInv, MarkedInv
  <2>2. wal' = wal
    BY <1>3, <2>1, WalAfterCases
  <2>3. Replayable(data', shadow)
    BY <1>1, <1>7 DEF IInv, MarkedInv, Replayable
  <2> QED
    BY <1>1, <1>2, <1>4, <1>7, <2>1, <2>2, <2>3 DEF Marked, Shown
<1>8. CASE ~Marked /\ MarkedOnDisk
  <2>1. /\ replacedWal /\ walDisk # NoWal
        /\ \/ wal' = walDisk
           \/ /\ Intact(wal') /\ ~isLastRecordCheckpoint(wal')
              /\ commits(wal') = {} \/ commits(wal') = commits(wal)
    BY <1>3, <1>8, StaleCrash
  <2>2. Clean(data') /\ data'.header = data.header /\ Replayable(data', shadowDisk)
    BY <1>1, <1>8 DEF IInv, StaleInv, SameImage, Clean, OneImage, Replayable
  <2>3. CASE wal' = walDisk
    <3>1. shadow' = shadowDisk
      BY <2>1, <2>3 DEF Crash
    <3>2. Past(shadowDisk.header.content)
      BY <1>8 DEF IInv, StaleInv, MemoryInv, Past
    <3> QED
      BY <1>1, <1>2, <1>4, <1>8, <2>2, <2>3, <3>1, <3>2 DEF MarkedOnDisk, OnDisk
  <2>4. CASE /\ Intact(wal') /\ ~isLastRecordCheckpoint(wal')
             /\ commits(wal') = {} \/ commits(wal') = commits(wal)
    <3>1. commits(wal) \cap data.header.content = {} /\ data.header = shadowDisk.header
      BY <1>8 DEF IInv, JournalInv, StaleInv
    <3> QED
      BY <1>1, <1>2, <1>8, <2>2, <2>4, <3>1 DEF OnDisk, Shown
  <2> QED
    BY <2>1, <2>3, <2>4
<1> QED
  BY <1>5, <1>6, <1>7, <1>8

(* A crash keeps the invariant.                                            *)
LEMMA CrashInv == ASSUME IInv, Crash PROVE IInv'
<1>1. /\ pc' = "down" /\ mem' = {} /\ forced' = 0 /\ toApply' = {}
      /\ dataDisk' = data' /\ shadowDisk' = shadow' /\ walDisk' = wal'
      /\ UNCHANGED <<header, fresh, lastTxn, checkpoints, acked>>
      /\ crashes < MaxCrashes /\ crashes' = crashes + 1
  BY DEF Crash
<1>2. wal' \in Wal /\ (wal'.exists \/ wal' = NoWal)
  BY CrashOutcome DEF Intact
<1>3. TypeOK'
  BY <1>1, <1>2, CrashOutcome, BoundsAssumption DEF IInv, TypeOK, Content, RecoverySteps
<1>4. commits(wal') \subseteq 1 .. lastTxn /\ Past(data'.header.content)
  BY CrashOutcome DEF IInv, JournalInv, MemoryInv, Past
<1>5. QuietInv' /\ MarkingInv' /\ MarkedInv' /\ StaleInv'
  BY <1>1, CrashOutcome DEF QuietInv, MarkingInv, MarkedInv, StaleInv, Marked, MarkedOnDisk,
     SameImage, JournalOnDisk, Past, Replayable, Clean, OneImage
<1>6. JournalInv'
  BY <1>1, <1>2, <1>4, CrashOutcome DEF JournalInv, Marked, MarkedOnDisk
<1>7. MemoryInv'
  BY <1>1, <1>4 DEF MemoryInv, Past, Forced, CheckpointSteps, RecoverySteps
<1>8. AckedInv'
  <2>1. acked \subseteq OnDisk /\ OnDisk \subseteq Shown
    BY DEF IInv, AckedInv
  <2>2. OnDisk' \in {OnDisk, Shown} /\ Shown' = OnDisk'
    BY <1>1, CrashOutcome DEF OnDisk, Shown, Marked, MarkedOnDisk
  <2> QED
    BY <1>1, <2>1, <2>2 DEF AckedInv
<1> QED
  BY <1>3, <1>5, <1>6, <1>7, <1>8 DEF IInv

-----------------------------------------------------------------------------
(* An empty database.                                                      *)
LEMMA InitInv == Init => IInv
<1> SUFFICES ASSUME Init PROVE IInv
  OBVIOUS
<1>1. /\ pc = "open" /\ mem = {} /\ forced = 0 /\ toApply = {} /\ acked = {}
      /\ lastTxn = 0 /\ checkpoints = 0 /\ crashes = 0
      /\ header.at \in Page /\ header.content = {} /\ header \in [at : Page, content : {{}}] /\ fresh = header.at
      /\ data.header = header /\ data.index = {} /\ data.page = [p \in Page |-> {}]
      /\ data = [header |-> header, index |-> {}, page |-> [p \in Page |-> {}]]
      /\ dataDisk = data /\ shadow = NoShadow /\ shadowDisk = NoShadow
      /\ wal = NoWal /\ walDisk = NoWal
  BY DEF Init
<1>2. NoShadow \in ShadowFile
  BY BoundsAssumption DEF NoShadow, Garbage, ShadowFile, Header, Content
<1>3. ~Marked /\ ~MarkedOnDisk /\ commits(wal) = {} /\ commits(walDisk) = {}
  BY <1>1, EmptyWalFacts DEF Marked, MarkedOnDisk
<1>4. header \in Header /\ data \in DataFile
  BY <1>1, BoundsAssumption DEF Header, Content, DataFile
<1>5. TypeOK
  BY <1>1, <1>2, <1>4, EmptyWalFacts, BoundsAssumption DEF TypeOK, Content
<1>6. QuietInv /\ MarkingInv /\ MarkedInv /\ StaleInv
  BY <1>1, <1>3 DEF QuietInv, MarkingInv, MarkedInv, StaleInv, SameImage, Clean, OneImage, JournalOnDisk
<1>7. JournalInv /\ MemoryInv
  BY <1>1, <1>3 DEF JournalInv, MemoryInv, Past, Forced, CheckpointSteps, RecoverySteps
<1>8. AckedInv
  BY <1>1, <1>3 DEF AckedInv, OnDisk, Shown
<1> QED
  BY <1>5, <1>6, <1>7, <1>8 DEF IInv

(* What an opening of the files would serve, read off the mark.            *)
LEMMA FilesMean ==
    IInv => durableState = OnDisk /\ Recovered(data, shadow, wal) = Shown
<1> SUFFICES ASSUME IInv PROVE durableState = OnDisk /\ Recovered(data, shadow, wal) = Shown
  OBVIOUS
<1>1. /\ data \in DataFile /\ dataDisk \in DataFile /\ shadow \in ShadowFile
      /\ shadowDisk \in ShadowFile /\ wal \in Wal /\ walDisk \in Wal
  BY DEF IInv, TypeOK
<1>2. (wal.exists \/ wal.log = <<>>) /\ (walDisk.exists \/ walDisk.log = <<>>)
  BY EmptyWalFacts DEF IInv, JournalInv
<1>3. durableState = OnDisk
  <2>1. CASE MarkedOnDisk
    <3>1. Replayable(dataDisk, shadowDisk)
      BY <2>1 DEF IInv, MarkedInv, StaleInv
    <3> QED
      BY <1>1, <2>1, <3>1, RecoveredMarked DEF durableState, OnDisk, MarkedOnDisk
  <2>2. CASE ~MarkedOnDisk
    <3>1. Clean(dataDisk)
      BY <2>2 DEF IInv, QuietInv, MarkingInv, SameImage
    <3> QED
      BY <1>1, <1>2, <2>2, <3>1, RecoveredClean DEF durableState, OnDisk, MarkedOnDisk
  <2> QED
    BY <2>1, <2>2
<1>4. Recovered(data, shadow, wal) = Shown
  <2>1. CASE Marked
    <3>1. Replayable(data, shadow)
      BY <2>1 DEF IInv, MarkedInv, MarkingInv
    <3> QED
      BY <1>1, <2>1, <3>1, RecoveredMarked DEF Shown, Marked
  <2>2. CASE ~Marked
    <3>1. Clean(data)
      BY <2>2 DEF IInv, QuietInv, StaleInv, SameImage
    <3> QED
      BY <1>1, <1>2, <2>2, <3>1, RecoveredClean DEF Shown, Marked
  <2> QED
    BY <2>1, <2>2
<1> QED
  BY <1>3, <1>4

(* The same of the next state.                                             *)
LEMMA FilesMeanNext ==
    IInv' => (durableState = OnDisk /\ Recovered(data, shadow, wal) = Shown)'
<1>1. (IInv => durableState = OnDisk /\ Recovered(data, shadow, wal) = Shown)'
  BY FilesMean, PTL
<1> QED
  BY <1>1

-----------------------------------------------------------------------------
(* The state that the store is moving to.                                  *)
Target == IF pc \in RecoverySteps THEN Shown ELSE mem

(* A step of DurableStore, in the words of the invariant: a transition is  *)
(* started, is finished, is decided by a crash, is given up, or nothing    *)
(* happens.                                                                *)
StoreStep ==
    \/ /\ Target = OnDisk
       /\ \E t \in (1 .. MaxTxns) \ OnDisk : Target' = OnDisk \cup {t}
       /\ OnDisk' = OnDisk
    \/ OnDisk' = Target /\ Target' = Target
    \/ OnDisk' \in {OnDisk, Target} /\ Target' = OnDisk'
    \/ Target' = OnDisk /\ OnDisk' = OnDisk
    \/ OnDisk' = OnDisk /\ Target' = Target

(* A state that is shown and is not on the medium is the one in memory,    *)
(* and a served database has nothing under way.                            *)
LEMMA Settled ==
    ASSUME IInv
    PROVE  /\ pc \notin RecoverySteps => Shown \in {OnDisk, mem}
           /\ pc # "committing" /\ (Marked => MarkedOnDisk) => Shown = OnDisk
           /\ pc = "open" => mem = OnDisk /\ Past(mem)
<1>1. ASSUME pc # "committing", Marked => MarkedOnDisk PROVE Shown = OnDisk
  BY <1>1, EmptyWalFacts DEF IInv, TypeOK, QuietInv, MarkedInv, StaleInv, SameImage, JournalOnDisk, OnDisk, Shown, Marked, MarkedOnDisk
<1>2. ASSUME pc = "committing" PROVE Shown = mem
  BY <1>2 DEF IInv, MemoryInv, Shown, Forced
<1>3. ASSUME pc \notin RecoverySteps, Marked, ~MarkedOnDisk PROVE Shown = mem
  BY <1>3 DEF IInv, MarkingInv, MemoryInv, Shown, RecoverySteps
<1>4. ASSUME pc = "open" PROVE mem = OnDisk /\ Past(mem)
  <2>1. ~Marked /\ mem = Shown /\ Past(mem)
    BY <1>4 DEF IInv, MemoryInv, Shown, Forced
  <2> QED
    BY <1>1, <1>4, <2>1
<1> QED
  BY <1>1, <1>2, <1>3, <1>4

(* Every step of the files is a step of the abstract store, or none. *)
LEMMA StepRefines == ASSUME IInv, Next PROVE StoreStep
<1> USE DEF StoreStep, Target, OnDisk, Shown, Marked, MarkedOnDisk, RecoverySteps
<1>1. ASSUME LogCommittedWAL PROVE StoreStep
  <2>1. mem = OnDisk /\ Past(mem)
    BY <1>1, Settled DEF LogCommittedWAL
  <2>2. lastTxn \in Nat /\ lastTxn' = lastTxn + 1 /\ lastTxn' \in 1 .. MaxTxns
    BY <1>1, BoundsAssumption DEF LogCommittedWAL, IInv, TypeOK
  <2>3. lastTxn' \notin OnDisk
    BY <2>1, <2>2 DEF Past
  <2>4. mem' = mem \cup {lastTxn'} /\ pc = "open" /\ pc' = "committing" /\ OnDisk' = OnDisk
    BY <1>1 DEF LogCommittedWAL, medium
  <2> QED
    BY <2>1, <2>2, <2>3, <2>4
<1>2. ASSUME CommitSynced PROVE StoreStep
  BY <1>2, Settled, EmptyWalFacts DEF CommitSynced, syncWal, removed, memory, bounds, medium,
     IInv, QuietInv, MarkingInv, MarkedInv, StaleInv, SameImage, JournalOnDisk, MemoryInv,
     JournalInv, Forced, TypeOK, CheckpointSteps
<1>3. ASSUME NEW p \in Page, OptimisticWrite(p) PROVE StoreStep
  BY <1>3, Settled, EmptyWalFacts DEF OptimisticWrite, memory, bounds, medium, IInv,
     QuietInv, MarkingInv, MarkedInv, StaleInv, SameImage, JournalOnDisk, MemoryInv,
     JournalInv, Forced, TypeOK, CheckpointSteps
<1>4. ASSUME StartCheckpoint PROVE StoreStep
  <2>1. mem = OnDisk /\ Past(mem)
    BY <1>4, Settled DEF StartCheckpoint
  <2>2. lastTxn \in Nat /\ MaxTxns \in Nat
    BY BoundsAssumption DEF IInv, TypeOK
  <2>3. pc = "open" /\ pc' = "storage" /\ OnDisk' = OnDisk
    BY <1>4 DEF StartCheckpoint, medium
  <2>4. CASE lastTxn < MaxTxns /\ lastTxn' = lastTxn + 1 /\ mem' = mem \cup {lastTxn'}
    <3>1. lastTxn' \in 1 .. MaxTxns /\ lastTxn' \notin OnDisk
      BY <2>1, <2>2, <2>4 DEF Past
    <3> QED
      BY <2>1, <2>2, <2>3, <2>4, <3>1
  <2> QED
    BY <1>4, <2>3, <2>4 DEF StartCheckpoint
<1>5. ASSUME NEW p \in Page, CheckpointStorage(p) PROVE StoreStep
  BY <1>5, Settled, EmptyWalFacts DEF CheckpointStorage, memory, bounds, medium, IInv,
     QuietInv, MarkingInv, MarkedInv, StaleInv, SameImage, JournalOnDisk, MemoryInv,
     JournalInv, Forced, TypeOK, CheckpointSteps
<1>6. ASSUME SerializeAndWriteHeader PROVE StoreStep
  BY <1>6, Settled, EmptyWalFacts DEF SerializeAndWriteHeader, PartShadow, NoShadow, Garbage,
     memory, bounds, medium, IInv, QuietInv, MarkingInv, MarkedInv, StaleInv, SameImage,
     JournalOnDisk, MemoryInv, JournalInv, Forced, TypeOK, CheckpointSteps
<1>7. ASSUME FlushShadow PROVE StoreStep
  BY <1>7, Settled, EmptyWalFacts DEF FlushShadow, memory, bounds, medium, IInv, QuietInv,
     MarkingInv, MarkedInv, StaleInv, SameImage, JournalOnDisk, MemoryInv, JournalInv,
     Forced, TypeOK, CheckpointSteps
<1>8. ASSUME SyncShadow PROVE StoreStep
  BY <1>8, Settled, EmptyWalFacts DEF SyncShadow, syncShadow, walRemoved, memory, bounds,
     medium, IInv, QuietInv, MarkingInv, MarkedInv, StaleInv, SameImage, JournalOnDisk,
     MemoryInv, JournalInv, Forced, TypeOK, CheckpointSteps
<1>9. ASSUME SyncData PROVE StoreStep
  BY <1>9, Settled, EmptyWalFacts DEF SyncData, syncData, removed, walRemoved, memory,
     bounds, medium, IInv, QuietInv, MarkingInv, MarkedInv, StaleInv, SameImage,
     JournalOnDisk, MemoryInv, JournalInv, Forced, TypeOK, CheckpointSteps
<1>10. ASSUME LogCheckpoint PROVE StoreStep
  BY <1>10, Settled, EmptyWalFacts DEF LogCheckpoint, memory, bounds, medium, IInv, QuietInv,
     MarkingInv, MarkedInv, StaleInv, SameImage, JournalOnDisk, MemoryInv, JournalInv,
     Forced, TypeOK, CheckpointSteps
<1>11. ASSUME SyncMark PROVE StoreStep
  BY <1>11, Settled, EmptyWalFacts DEF SyncMark, syncWal, removed, memory, bounds, medium,
     IInv, QuietInv, MarkingInv, MarkedInv, StaleInv, SameImage, JournalOnDisk, MemoryInv,
     JournalInv, Forced, TypeOK, CheckpointSteps
<1>12. ASSUME NEW s \in toApply, ApplyShadowPage(s) PROVE StoreStep
  BY <1>12, Settled, EmptyWalFacts DEF ApplyShadowPage, memory, bounds, medium, IInv,
     QuietInv, MarkingInv, MarkedInv, StaleInv, SameImage, JournalOnDisk, MemoryInv,
     JournalInv, Forced, TypeOK, CheckpointSteps
<1>13. ASSUME SyncApplied PROVE StoreStep
  BY <1>13, Settled, EmptyWalFacts DEF SyncApplied, syncData, removed, walRemoved, memory,
     bounds, medium, IInv, QuietInv, MarkingInv, MarkedInv, StaleInv, SameImage,
     JournalOnDisk, MemoryInv, JournalInv, Forced, TypeOK, CheckpointSteps
<1>14. ASSUME ClearWal PROVE StoreStep
  BY <1>14, Settled, EmptyWalFacts DEF ClearWal, memory, bounds, medium, IInv, QuietInv,
     MarkingInv, MarkedInv, StaleInv, SameImage, JournalOnDisk, MemoryInv, JournalInv,
     Forced, TypeOK, CheckpointSteps
<1>15. ASSUME ResetWal PROVE StoreStep
  BY <1>15, Settled, EmptyWalFacts DEF ResetWal, memory, bounds, medium, IInv, QuietInv,
     MarkingInv, MarkedInv, StaleInv, SameImage, JournalOnDisk, MemoryInv, JournalInv,
     Forced, TypeOK, CheckpointSteps
<1>16. ASSUME ResetShadow PROVE StoreStep
  BY <1>16, Settled, EmptyWalFacts DEF ResetShadow, NoShadow, Garbage, memory, bounds,
     medium, IInv, QuietInv, MarkingInv, MarkedInv, StaleInv, SameImage, JournalOnDisk,
     MemoryInv, JournalInv, Forced, TypeOK, CheckpointSteps
<1>17. ASSUME CheckpointRefused PROVE StoreStep
  BY <1>17, Settled, EmptyWalFacts DEF CheckpointRefused, memory, bounds, medium, IInv,
     QuietInv, MarkingInv, MarkedInv, StaleInv, SameImage, JournalOnDisk, MemoryInv,
     JournalInv, Forced, TypeOK, CheckpointSteps
<1>18. ASSUME CheckpointFails PROVE StoreStep
  BY <1>18, Settled, EmptyWalFacts DEF CheckpointFails, memory, bounds, medium, IInv,
     QuietInv, MarkingInv, MarkedInv, StaleInv, SameImage, JournalOnDisk, MemoryInv,
     JournalInv, Forced, TypeOK, CheckpointSteps
<1>19. ASSUME Close PROVE StoreStep
  BY <1>19, Settled, EmptyWalFacts DEF Close, memory, bounds, medium, IInv, QuietInv,
     MarkingInv, MarkedInv, StaleInv, SameImage, JournalOnDisk, MemoryInv, JournalInv,
     Forced, TypeOK, CheckpointSteps
<1>20. ASSUME RecoverNoWal PROVE StoreStep
  BY <1>20, Settled, EmptyWalFacts DEF RecoverNoWal, NoShadow, Garbage, memory, bounds,
     medium, IInv, QuietInv, MarkingInv, MarkedInv, StaleInv, SameImage, JournalOnDisk,
     MemoryInv, JournalInv, Forced, TypeOK, CheckpointSteps
<1>21. ASSUME RecoverEmptyWal PROVE StoreStep
  BY <1>21, Settled, EmptyWalFacts DEF RecoverEmptyWal, memory, bounds, medium, IInv,
     QuietInv, MarkingInv, MarkedInv, StaleInv, SameImage, JournalOnDisk, MemoryInv,
     JournalInv, Forced, TypeOK, CheckpointSteps
<1>22. ASSUME RecoverCheckpoint PROVE StoreStep
  BY <1>22, Settled, EmptyWalFacts DEF RecoverCheckpoint, syncWal, removed, memory, bounds,
     medium, IInv, QuietInv, MarkingInv, MarkedInv, StaleInv, SameImage, JournalOnDisk,
     MemoryInv, JournalInv, Forced, TypeOK, CheckpointSteps
<1>23. ASSUME NEW s \in toApply, ReplayShadowPage(s) PROVE StoreStep
  BY <1>23, Settled, EmptyWalFacts DEF ReplayShadowPage, memory, bounds, medium, IInv,
     QuietInv, MarkingInv, MarkedInv, StaleInv, SameImage, JournalOnDisk, MemoryInv,
     JournalInv, Forced, TypeOK, CheckpointSteps
<1>24. ASSUME SyncReplayed PROVE StoreStep
  BY <1>24, Settled, EmptyWalFacts DEF SyncReplayed, syncData, removed, walRemoved, memory,
     bounds, medium, IInv, QuietInv, MarkingInv, MarkedInv, StaleInv, SameImage,
     JournalOnDisk, MemoryInv, JournalInv, Forced, TypeOK, CheckpointSteps
<1>25. ASSUME RemoveWal PROVE StoreStep
  BY <1>25, Settled, EmptyWalFacts DEF RemoveWal, memory, bounds, medium, IInv, QuietInv,
     MarkingInv, MarkedInv, StaleInv, SameImage, JournalOnDisk, MemoryInv, JournalInv,
     Forced, TypeOK, CheckpointSteps
<1>26. ASSUME RemoveShadow PROVE StoreStep
  BY <1>26, Settled, EmptyWalFacts DEF RemoveShadow, NoShadow, Garbage, memory, bounds,
     medium, IInv, QuietInv, MarkingInv, MarkedInv, StaleInv, SameImage, JournalOnDisk,
     MemoryInv, JournalInv, Forced, TypeOK, CheckpointSteps
<1>27. ASSUME ReadCheckpoint PROVE StoreStep
  BY <1>27, Settled, EmptyWalFacts DEF ReadCheckpoint, memory, bounds, medium, IInv,
     QuietInv, MarkingInv, MarkedInv, StaleInv, SameImage, JournalOnDisk, MemoryInv,
     JournalInv, Forced, TypeOK, CheckpointSteps
<1>28. ASSUME RecoverWal PROVE StoreStep
  BY <1>28, Settled, EmptyWalFacts DEF RecoverWal, syncWal, removed, NoShadow, Garbage,
     memory, bounds, medium, IInv, QuietInv, MarkingInv, MarkedInv, StaleInv, SameImage,
     JournalOnDisk, MemoryInv, JournalInv, Forced, TypeOK, CheckpointSteps
<1>29. ASSUME ReplayWal PROVE StoreStep
  BY <1>29, Settled, EmptyWalFacts DEF ReplayWal, memory, bounds, medium, IInv, QuietInv,
     MarkingInv, MarkedInv, StaleInv, SameImage, JournalOnDisk, MemoryInv, JournalInv,
     Forced, TypeOK, CheckpointSteps
<1>30. ASSUME TruncateWal PROVE StoreStep
  <2>1. wal \in Wal /\ wal' = [wal EXCEPT !.torn = FALSE] /\ walDisk' = wal' /\ wal = walDisk
    BY <1>30 DEF TruncateWal, IInv, TypeOK, MemoryInv
  <2>2. (isLastRecordCheckpoint(wal') <=> isLastRecordCheckpoint(wal)) /\ commits(wal') = commits(wal)
    BY <2>1 DEF isLastRecordCheckpoint, commits, Wal
  <2> QED
    BY <1>30, <2>1, <2>2 DEF TruncateWal, memory, IInv, MemoryInv
<1>31. ASSUME Crash PROVE StoreStep
  <2>1. OnDisk' \in {OnDisk, Shown} /\ Shown' = OnDisk' /\ pc' = "down"
    BY <1>31, CrashOutcome DEF Crash
  <2> QED
    BY <2>1, Settled
<1> QED
  BY <1>1, <1>2, <1>3, <1>4, <1>5, <1>6, <1>7, <1>8, <1>9, <1>10, <1>11, <1>12, <1>13, <1>14,
     <1>15, <1>16, <1>17, <1>18, <1>19, <1>20, <1>21, <1>22, <1>23, <1>24, <1>25, <1>26,
     <1>27, <1>28, <1>29, <1>30, <1>31 DEF Next, Write, CheckpointStep, RecoveryStep

-----------------------------------------------------------------------------
(* The inductive invariant holds for ever. *)
THEOREM Invariance == Spec => []IInv
<1>1. Init => IInv
  BY InitInv
<1>2. IInv /\ [Next]_vars => IInv'
  <2> SUFFICES ASSUME IInv, [Next]_vars PROVE IInv'
    OBVIOUS
  <2>1. CASE Next
    BY <2>1, LogCommittedWALInv, CommitSyncedInv, OptimisticWriteInv, StartCheckpointInv,
       CheckpointStorageInv, SerializeAndWriteHeaderInv, FlushShadowInv, SyncShadowInv,
       SyncDataInv, LogCheckpointInv, SyncMarkInv, ApplyShadowPageInv, SyncAppliedInv,
       ClearWalInv, ResetWalInv, ResetShadowInv, CheckpointRefusedInv, CheckpointFailsInv,
       CloseInv, RecoverNoWalInv, RecoverEmptyWalInv, RecoverCheckpointInv,
       ReplayShadowPageInv, SyncReplayedInv, RemoveWalInv, RemoveShadowInv,
       ReadCheckpointInv, RecoverWalInv, ReplayWalInv, TruncateWalInv, CrashInv
       DEF Next, Write, CheckpointStep, RecoveryStep

  <2>2. CASE UNCHANGED vars
    BY <2>2 DEF vars, memory, bounds, IInv, TypeOK, QuietInv, MarkingInv, MarkedInv, StaleInv,
       JournalInv, MemoryInv, AckedInv, Marked, MarkedOnDisk, SameImage, JournalOnDisk, Logged,
       Past, Forced, OnDisk, Shown
  <2> QED
    BY <2>1, <2>2
<1> QED
  BY <1>1, <1>2, PTL DEF Spec

(* The locals of the engine and the contents of the files keep their       *)
(* types.                                                                  *)
THEOREM TypeCorrect == Spec => []TypeOK
<1>1. IInv => TypeOK
  BY DEF IInv
<1> QED
  BY <1>1, Invariance, PTL

(* Whatever dies and whenever, a recovery reads one image, replays no      *)
(* transaction that the image holds, and serves every commit that was      *)
(* acknowledged (WALReplayer::replay after any crash).                     *)
THEOREM RecoveryExact == Spec => []RecoveryIsExact
<1>1. IInv => RecoveryIsExact
  <2> SUFFICES ASSUME IInv PROVE RecoveryIsExact
    OBVIOUS
  <2>1. pc \in {"read", "replayWal"} => ~Marked
    BY DEF IInv, MemoryInv
  <2>2. RecoveryReadsOneImage
    BY <2>1 DEF RecoveryReadsOneImage, IInv, QuietInv, StaleInv, SameImage, Clean
  <2>3. NoDoubleReplay
    BY <2>1 DEF NoDoubleReplay, IInv, JournalInv
  <2>4. AckedIsRecovered
    BY FilesMean DEF AckedIsRecovered, IInv, AckedInv
  <2> QED
    BY <2>2, <2>3, <2>4 DEF RecoveryIsExact
<1> QED
  BY <1>1, Invariance, PTL

(* While transactions run, the last checkpoint is whole, in the file that  *)
(* is shown and on the medium.                                             *)
THEOREM LastCheckpointSafe == Spec => []LastCheckpointUntouched
<1>1. IInv => LastCheckpointUntouched
  BY DEF IInv, MemoryInv, QuietInv, StaleInv, SameImage, Clean, LastCheckpointUntouched
<1> QED
  BY <1>1, Invariance, PTL

(* The three files implement the abstract store: commits, checkpoints,     *)
(* crashes and recoveries, of recoveries too, move the served state from   *)
(* one committed state to the next in one step.                            *)
THEOREM Refinement == Spec => StoreSpec
<1>1. Init => Store!Init
  <2> SUFFICES ASSUME Init PROVE Store!Init
    OBVIOUS
  <2>1. durableState = OnDisk
    BY InitInv, FilesMean
  <2>2. OnDisk = {}
    BY EmptyWalFacts DEF Init, OnDisk, MarkedOnDisk
  <2>3. pc = "open" /\ mem = {}
    BY DEF Init
  <2> QED
    BY <2>1, <2>2, <2>3 DEF Store!Init, RecoverySteps
<1>2. IInv /\ IInv' /\ [Next]_vars => [Store!Next]_(Store!vars)
  <2> SUFFICES ASSUME IInv, IInv', [Next]_vars PROVE [Store!Next]_(Store!vars)
    OBVIOUS
  <2> DEFINE target == IF pc \in RecoverySteps THEN Recovered(data, shadow, wal) ELSE mem
  <2>1. durableState = OnDisk /\ target = Target
    BY FilesMean DEF Target
  <2>2. durableState' = OnDisk' /\ target' = Target'
    BY FilesMeanNext DEF Target
  <2>3. CASE UNCHANGED vars
    BY <2>3 DEF vars, memory, Store!vars, durableState
  <2>4. CASE Next
    <3>1. StoreStep
      BY <2>4, StepRefines
    <3> HIDE DEF target
    <3> QED
      BY <2>1, <2>2, <3>1 DEF StoreStep, target, Store!Next, Store!Start, Store!Finish, Store!Crash,
         Store!Abandon, Store!vars
  <2> QED
    BY <2>3, <2>4
<1> QED
  BY <1>1, <1>2, Invariance, PTL DEF Spec, StoreSpec, Store!Spec
=============================================================================
