-------------------------- MODULE CodeIndexProofs --------------------------
(***************************************************************************)
(* What an edit is promised during an indexing is owed to it, and the      *)
(* index never differs from a file without a sign, for any number of       *)
(* files, contents, edits, indexings and faults.                           *)
(***************************************************************************)
EXTENDS CodeIndex, TLAPS

(* The types of what the promises depend on. *)
SyncPc == {"off", "enrolled", "nodes", "reading", "resume", "again", "rewrite"}
EditPc == {"idle", "write", "writeOnly", "note", "wait", "ingest"}
Types ==
    /\ disk \in [File -> Text]
    /\ registry \in [on : BOOLEAN, lus : SUBSET File, aReprendre : SUBSET File]
    /\ sync \in [pc : SyncPc, retenus : SUBSET File, faits : SUBSET File, paquet : SUBSET File,
                 read : Reads, seen : SUBSET File, paths : SUBSET File]
    /\ editor \in [Editor -> [pc : EditPc, file : File \union {Absent}, text : Text]]
    /\ "pc" \in DOMAIN react

(* Who holds the catalog, and that the source is enrolled exactly then. *)
Holders ==
    /\ catalog = "sync" <=> sync.pc # "off"
    /\ registry.on <=> sync.pc # "off"
    /\ \A e \in Editor : editor[e].pc \in {"write", "ingest"} => catalog = e
    /\ react.pc = "reading" => catalog = "reaction"

(* The files the registry calls read are those of the batches, done or in    *)
(* hand; the queue has only files that were read.                            *)
Batches ==
    /\ registry.lus = sync.faits \union sync.paquet
    /\ registry.aReprendre \subseteq registry.lus
    /\ DOMAIN sync.read # {} => sync.pc \in {"reading", "rewrite"}
    /\ sync.paquet # {} => sync.pc = "reading"
    /\ sync.paths # {} => sync.pc \in {"again", "rewrite"}
    /\ sync.pc \in {"off", "enrolled"} => sync.retenus = {} /\ sync.faits = {}
    /\ sync.pc \in {"resume", "again", "rewrite"} => sync.faits = sync.retenus

IInv == Types /\ Holders /\ Batches /\ PromisesAreOwed

(* A batch begins with nothing read. *)
LEMMA NothingIsARead == Nothing \in Reads /\ DOMAIN Nothing = {}
  BY DEF Nothing, Reads

(* source.read adds one file to what was read, and changes no other. *)
LEMMA WithIsARead ==
  ASSUME NEW got \in Reads, NEW f \in File, disk \in [File -> Text]
  PROVE  With(got, f) \in Reads /\ DOMAIN With(got, f) = DOMAIN got \union {f}
<1>1. PICK fs \in SUBSET File : got \in [fs -> Text]
  BY DEF Reads
<1>2. With(got, f) \in [fs \union {f} -> Text]
  BY <1>1 DEF With
<1> QED
  BY <1>1, <1>2 DEF Reads

(* A fresh process has no indexing, no edit and no promise. *)
LEMMA InitIInv == Init => IInv
  BY NothingIsARead, HolderAssumption
  DEF Init, IInv, Types, Holders, Batches, PromisesAreOwed, Off, NoSync, NoReaction, Idle, Text, SyncPc, EditPc, Owed

(* The steps of a whole indexing. *)
LEMMA SyncStep ==
  ASSUME IInv, SyncNext
  PROVE  IInv'
<1> USE HolderAssumption, NothingIsARead
    DEF IInv, Types, Holders, Batches, PromisesAreOwed, Owed, SyncElse, SyncPc
<1>1. CASE SyncEnrol
  BY <1>1 DEF SyncEnrol, Sync, Take, Off, history
<1>2. CASE SyncBegin
  BY <1>2 DEF SyncBegin, Begun, Present, history
<1>3. ASSUME NEW b \in SUBSET (sync.retenus \ sync.faits), SyncMark(b)
      PROVE  IInv'
  BY <1>3 DEF SyncMark, Marked, history
<1>4. ASSUME NEW f \in File, SyncRead(f)
      PROVE  IInv'
  <2>1. With(sync.read, f) \in Reads /\ DOMAIN With(sync.read, f) = DOMAIN sync.read \union {f}
    BY WithIsARead
  <2>2. sync' = [sync EXCEPT !.read = With(sync.read, f)]
    BY <1>4 DEF SyncRead
  <2>3. UNCHANGED <<disk, catalog, registry, editor, react>> /\ promised' = promised \ {f} /\ sync.pc = "reading"
    BY <1>4 DEF SyncRead
  <2>4. (Types /\ Holders /\ Batches)'
    BY <2>1, <2>2, <2>3
  <2>5. Owed \ {f} \subseteq Owed'
    BY <2>1, <2>2, <2>3
  <2>6. PromisesAreOwed'
    BY <2>2, <2>3, <2>5
  <2> QED
    BY <2>4, <2>6
<1>5. CASE SyncWrite
  BY <1>5 DEF SyncWrite, history
<1>6. CASE SyncFinish
  BY <1>6 DEF SyncFinish, Sync
<1>7. CASE SyncResume
  BY <1>7 DEF SyncResume, history
<1>8. CASE SyncLeave
  BY <1>8 DEF SyncLeave, NoSync, Off, Give
<1>9. ASSUME NEW f \in File, SyncReread(f)
      PROVE  IInv'
  BY <1>9, WithIsARead DEF SyncReread
<1>10. CASE SyncRewrite
  BY <1>10 DEF SyncRewrite
<1>11. ASSUME NEW w \in SUBSET DOMAIN sync.read, SyncFail(w)
       PROVE  IInv'
  BY <1>11 DEF SyncFail, SyncStops, NoSync, Off, Give
<1>12. CASE SyncSuspend
  BY <1>12 DEF SyncSuspend, SyncStops, NoSync, Off, Give
<1> QED
  BY <1>1, <1>2, <1>3, <1>4, <1>5, <1>6, <1>7, <1>8, <1>9, <1>10, <1>11, <1>12 DEF SyncNext

(* The steps of the edit tool: a promise is made by EditNote alone. *)
LEMMA EditStep ==
  ASSUME IInv, NEW e \in Editor, EditNext(e)
  PROVE  IInv'
<1> USE HolderAssumption
    DEF IInv, Types, Holders, Batches, PromisesAreOwed, Owed, EditElse, EditPc
<1>1. ASSUME NEW f \in File, NEW c \in Content, EditCall(e, f, c)
      PROVE  IInv'
  BY <1>1 DEF EditCall, Take, Text
<1>2. CASE EditWrite(e)
  <2>1. /\ disk' \in [File -> Text]
        /\ \/ editor[e].pc = "write" /\ editor' = [editor EXCEPT ![e].pc = "ingest"]
           \/ editor[e].pc = "writeOnly" /\ editor' = [editor EXCEPT ![e].pc = "note"]
        /\ UNCHANGED <<catalog, registry, sync, react, promised>>
    BY <1>2 DEF EditWrite, Edit, Put
  <2>2. editor' \in [Editor -> [pc : EditPc, file : File \union {Absent}, text : Text]]
    BY <2>1
  <2>3. \A d \in Editor : editor'[d].pc \in {"write", "ingest"} => catalog = d
    BY <2>1
  <2> QED
    BY <2>1, <2>2, <2>3
<1>3. CASE EditNote(e)
  BY <1>3 DEF EditNote, EditDone, NoteChange, Idle, Text
<1>4. CASE EditMissed(e)
  BY <1>4 DEF EditMissed, Edit
<1>5. CASE EditWait(e)
  BY <1>5 DEF EditWait, Edit, Take
<1>6. CASE EditIngest(e)
  BY <1>6 DEF EditIngest, EditDone, Give, Idle, Text
<1>7. CASE EditNotIngested(e)
  BY <1>7 DEF EditNotIngested, EditDone, Give, Idle, Text
<1> QED
  BY <1>1, <1>2, <1>3, <1>4, <1>5, <1>6, <1>7 DEF EditNext

(* The steps of the reaction: it may add to the queue what was read. *)
LEMMA ReactStep ==
  ASSUME IInv, ReactNext
  PROVE  IInv'
<1> USE HolderAssumption
    DEF IInv, Types, Holders, Batches, PromisesAreOwed, Owed, ReactElse
<1>1. CASE ReactStart
  BY <1>1 DEF ReactStart, NoReaction
<1>2. CASE ReactSee
  BY <1>2 DEF ReactSee
<1>3. CASE ReactSay
  BY <1>3 DEF ReactSay, ReactGo, NoReaction
<1>4. ASSUME NEW f \in File, ReactDefer(f)
      PROVE  IInv'
  BY <1>4 DEF ReactDefer, NoteChange, NoReaction
<1>5. ASSUME NEW f \in File, ReactRead(f)
      PROVE  IInv'
  BY <1>5 DEF ReactRead
<1>6. ASSUME NEW l \in SUBSET react.todo, ReactTake(l)
      PROVE  IInv'
  BY <1>6 DEF ReactTake, Take
<1>7. ASSUME NEW ok \in SUBSET react.lot, ReactWrite(ok)
      PROVE  IInv'
  BY <1>7 DEF ReactWrite, ReactGo, NoReaction, Give
<1> QED
  BY <1>1, <1>2, <1>3, <1>4, <1>5, <1>6, <1>7 DEF ReactNext

(* Every step, of any thread, keeps the invariant. *)
LEMMA NextIInv == IInv /\ [Next]_vars => IInv'
<1> SUFFICES ASSUME IInv, [Next]_vars
             PROVE  IInv'
  OBVIOUS
<1>1. ASSUME NEW f \in File, NEW c \in Text, OutsideChange(f, c)
      PROVE  IInv'
  BY <1>1 DEF OutsideChange, Put, IInv, Types, Holders, Batches, PromisesAreOwed, Owed
<1>2. CASE WatchNext
  <2>1. UNCHANGED <<disk, catalog, registry, sync, editor, promised, react>>
    BY <1>2 DEF WatchNext, Scan, Publish, EventsMissed, WatchElse, history
  <2> QED
    BY <2>1 DEF IInv, Types, Holders, Batches, PromisesAreOwed, Owed
<1>3. CASE Restart
  BY <1>3, NothingIsARead, HolderAssumption
  DEF Restart, Reconciled, Off, NoSync, NoReaction, Idle, Text, SyncPc, EditPc,
      IInv, Types, Holders, Batches, PromisesAreOwed, Owed
<1>4. CASE UNCHANGED vars
  BY <1>4 DEF vars, history, IInv, Types, Holders, Batches, PromisesAreOwed, Owed
<1> QED
  BY <1>1, <1>2, <1>3, <1>4, SyncStep, EditStep, ReactStep DEF Next

\* Every promise of note_change is owed by the indexing in progress, or was made
\* for a file it had not listed: marquer_lus before the reads, note_change after
\* the write, and the way out of the registry under its lock are enough.
THEOREM PromisesAreOwedHolds == Spec => []PromisesAreOwed
<1>1. IInv => PromisesAreOwed
  BY DEF IInv
<1> QED
  BY InitIInv, NextIInv, <1>1, PTL DEF Spec

-----------------------------------------------------------------------------
(* What tells a reader that the index of f may be old: the lag of the file, *)
(* what the watch is about to say or to see, or one of the cases that       *)
(* escape.  Of a file that was read, only what came after the instant that  *)
(* the lag takes for the read will stay.                                    *)
Seen(f) == f \in scanner.found \union hidden \/ disk[f] # scanner.known[f]
Sign(f) == f \in lag.pending \/ Seen(f)
LateSign(f, late) == f \in lag.pending \cap late \/ Seen(f)

(* A session that is not closed is the one of the indexing in progress, or   *)
(* of one that stopped halfway.                                              *)
Sessions ==
    /\ session # "closed" => incomplete \/ sync.pc \in {"nodes", "reading"}
    /\ sync.pc \in {"resume", "again", "rewrite"} => session = "closed"

(* What was read and is not yet written is what the file holds, or the       *)
(* change will leave its sign.                                               *)
ReadsAreSigned ==
    /\ \A f \in DOMAIN sync.read : sync.read[f] = disk[f] \/ LateSign(f, lag.lateSync)
    /\ \A f \in DOMAIN react.read : react.read[f] = disk[f] \/ LateSign(f, lag.lateReact)
    /\ DOMAIN react.read # {} => react.pc = "reading"
    /\ DOMAIN react.read \subseteq react.lot

(* What the end of the session will make of the files that no batch is still *)
(* to carry.                                                                 *)
CarriedIsSigned ==
    /\ sync.pc \in {"off", "enrolled"} => sync.seen = {}
    /\ sync.pc \in {"nodes", "reading"} =>
        /\ sync.seen \subseteq sync.faits /\ sync.faits \subseteq sync.retenus
        /\ sync.paquet \subseteq sync.retenus \ sync.faits /\ DOMAIN sync.read \subseteq sync.paquet
        /\ \A f \in File \ (sync.retenus \ sync.faits) :
              (IF f \in sync.seen THEN row[f] ELSE Absent) = disk[f] \/ Sign(f)

(* A whole index, that nobody is building: each file is exact, or has a sign. *)
IndexIsSigned ==
    sync.pc \in {"resume", "again", "rewrite"} \/ (sync.pc = "off" /\ ~incomplete)
        => \A f \in File : Exact(f) \/ Sign(f)

(* The types of what the signs depend on, beside Types. *)
IndexTypes ==
    /\ row \in [File -> Text] /\ scopes \in [File -> SUBSET Content]
    /\ session \in {"closed", "open", "suspended"}
    /\ catalog \in {Nobody, "sync", "reaction"} \union Editor
    /\ scanner \in [known : [File -> Text], moving : SUBSET File, moved : BOOLEAN, found : SUBSET File]
    /\ react \in [pc : {"idle", "see", "defer", "lots", "reading", "say"},
                  todo : SUBSET File, lot : SUBSET File, read : Reads, deferred : SUBSET File]
    /\ lag \in [pending : SUBSET File, lateSync : SUBSET File, lateReact : SUBSET File]
    /\ events \in SUBSET File /\ promised \in SUBSET File /\ hidden \in SUBSET File
    /\ incomplete \in BOOLEAN
    /\ \A e \in Editor : editor[e].pc # "idle" => editor[e].file \in File

SignInv == IndexTypes /\ Sessions /\ ReadsAreSigned /\ CarriedIsSigned /\ IndexIsSigned

(* An index that was built whole, or none. *)
LEMMA InitSign == Init => SignInv
<1> SUFFICES ASSUME Init PROVE SignInv
  OBVIOUS
<1>1. IndexTypes
  BY NothingIsARead, HolderAssumption
     DEF Init, IndexTypes, Off, NoSync, NoReaction, NoLag, Idle, Text, Scopes
<1>2. Sessions /\ ReadsAreSigned /\ CarriedIsSigned
  BY NothingIsARead DEF Init, Sessions, ReadsAreSigned, CarriedIsSigned, NoSync, NoReaction
<1>3. IndexIsSigned
  <2>1. ~incomplete => row = disk
    BY DEF Init
  <2>2. scopes = [f \in File |-> Scopes(row[f])]
    BY DEF Init
  <2> QED
    BY <2>1, <2>2 DEF IndexIsSigned, Exact, Init, NoSync
<1> QED
  BY <1>1, <1>2, <1>3 DEF SignInv

(* reingest_file(s): the files that are not named keep their index. *)
LEMMA ReingestFacts ==
  ASSUME row \in [File -> Text], scopes \in [File -> SUBSET Content], NEW got \in Reads, Reingest(got)
  PROVE  /\ row' \in [File -> Text] /\ scopes' \in [File -> SUBSET Content]
         /\ \A f \in File \ DOMAIN got : row'[f] = row[f] /\ scopes'[f] = scopes[f]
         /\ ~Deferred => \A f \in DOMAIN got \cap File : row'[f] = got[f] /\ scopes'[f] = Scopes(got[f])
<1>1. PICK fs \in SUBSET File : got \in [fs -> Text]
  BY DEF Reads
<1>2. \A f \in fs : Scopes(got[f]) \in SUBSET Content
  BY <1>1 DEF Scopes, Text
<1>3. row' \in [File -> Text]
  BY <1>1 DEF Reingest
<1>4. scopes' \in [File -> SUBSET Content]
  BY <1>1, <1>2 DEF Reingest
<1> QED
  BY <1>1, <1>3, <1>4 DEF Reingest

(* ingest_code: what is there is written, and no scope is taken away. *)
LEMMA IngestFacts ==
  ASSUME row \in [File -> Text], scopes \in [File -> SUBSET Content], NEW got \in Reads, Ingest(got)
  PROVE  /\ row' \in [File -> Text] /\ scopes' \in [File -> SUBSET Content]
         /\ \A f \in File : row'[f] = IF f \in DOMAIN got /\ got[f] # Absent THEN got[f] ELSE row[f]
<1>1. PICK fs \in SUBSET File : got \in [fs -> Text]
  BY DEF Reads
<1>2. \A f \in fs : Scopes(got[f]) \in SUBSET Content
  BY <1>1 DEF Scopes, Text
<1>3. row' \in [File -> Text]
  BY <1>1 DEF Ingest
<1>4. scopes' \in [File -> SUBSET Content]
  <2>1. \A f \in File : UNION {Scopes(got[g]) : g \in DOMAIN got \cap {f}} \in SUBSET Content
    BY <1>1, <1>2
  <2> QED
    BY <2>1 DEF Ingest
<1> QED
  BY <1>3, <1>4 DEF Ingest

(* The steps of a whole indexing. *)
LEMMA SyncSign == ASSUME IInv, IInv', SignInv, SyncNext PROVE SignInv'
<1> USE HolderAssumption, NothingIsARead DEF IInv, SignInv, SyncElse
<1>1. CASE SyncEnrol
  <2>1. IndexTypes'
    BY <1>1 DEF SyncEnrol, Sync, Take, Off, history, indexVars, IndexTypes, Types
  <2>2. Sessions'
    BY <1>1 DEF SyncEnrol, Sync, Take, Off, history, indexVars, Sessions, IndexTypes,
       Types
  <2>3. ReadsAreSigned'
    BY <1>1 DEF SyncEnrol, Sync, Take, Off, history, indexVars, ReadsAreSigned,
       LateSign, Seen, IndexTypes, Types, Holders
  <2>4. CarriedIsSigned'
    BY <1>1 DEF SyncEnrol, Sync, Take, Off, history, indexVars, CarriedIsSigned,
       ReadsAreSigned, Sign, LateSign, Seen, IndexTypes, Types, Holders
  <2>5. IndexIsSigned'
    BY <1>1 DEF SyncEnrol, Sync, Take, Off, history, indexVars, IndexIsSigned,
       CarriedIsSigned, ReadsAreSigned, Sessions, Sign, LateSign, Seen, Exact,
       IndexTypes, Types, Holders
  <2> QED
    BY <2>1, <2>2, <2>3, <2>4, <2>5 DEF SignInv
<1>2. CASE SyncBegin
  <2>1. /\ sync'.pc = "nodes" /\ sync'.retenus = {f \in File : disk[f] # Absent}
        /\ sync'.faits = {} /\ sync'.paquet = {} /\ sync'.seen = {} /\ DOMAIN sync'.read = {}
    <3>1. /\ sync.pc = "enrolled" /\ sync.faits = {} /\ sync.paquet = {} /\ sync.seen = {}
          /\ DOMAIN sync.read = {}
      BY <1>2 DEF SyncBegin, Batches, CarriedIsSigned
    <3> QED
      BY <1>2, <3>1 DEF SyncBegin, Present, Types
  <2>2. IndexTypes'
    BY <1>2, <2>1 DEF SyncBegin, Begun, history, IndexTypes, Types
  <2>3. Sessions'
    BY <1>2, <2>1 DEF SyncBegin, Begun, history, Sessions, IndexTypes, Types
  <2>4. ReadsAreSigned'
    BY <1>2, <2>1 DEF SyncBegin, Begun, history, ReadsAreSigned, LateSign, Seen,
       IndexTypes, Types, Holders
  <2>5. CarriedIsSigned'
    BY <1>2, <2>1 DEF SyncBegin, Begun, history, CarriedIsSigned, ReadsAreSigned,
       Sign, LateSign, Seen, IndexTypes, Types, Holders
  <2>6. IndexIsSigned'
    BY <1>2, <2>1 DEF SyncBegin, Begun, history, IndexIsSigned, CarriedIsSigned,
       ReadsAreSigned, Sessions, Sign, LateSign, Seen, Exact, IndexTypes, Types,
       Holders
  <2> QED
    BY <2>2, <2>3, <2>4, <2>5, <2>6 DEF SignInv
<1>3. ASSUME NEW b \in SUBSET (sync.retenus \ sync.faits), SyncMark(b)
      PROVE  SignInv'
  <2>1. IndexTypes'
    BY <1>3 DEF SyncMark, Marked, history, indexVars, Batches, IndexTypes, Types
  <2>2. Sessions'
    BY <1>3 DEF SyncMark, Marked, history, indexVars, Batches, Sessions, IndexTypes,
       Types
  <2>3. ReadsAreSigned'
    BY <1>3 DEF SyncMark, Marked, history, indexVars, Batches, ReadsAreSigned,
       LateSign, Seen, IndexTypes, Types, Holders
  <2>4. CarriedIsSigned'
    BY <1>3 DEF SyncMark, Marked, history, indexVars, Batches, CarriedIsSigned,
       ReadsAreSigned, Sign, LateSign, Seen, IndexTypes, Types, Holders
  <2>5. IndexIsSigned'
    BY <1>3 DEF SyncMark, Marked, history, indexVars, Batches, IndexIsSigned,
       CarriedIsSigned, ReadsAreSigned, Sessions, Sign, LateSign, Seen, Exact,
       IndexTypes, Types, Holders
  <2> QED
    BY <2>1, <2>2, <2>3, <2>4, <2>5 DEF SignInv
<1>4. ASSUME NEW f \in File, SyncRead(f)
      PROVE  SignInv'
  <2>1. IndexTypes'
    BY <1>4 DEF SyncRead, indexVars, IndexTypes, Types
  <2>2. Sessions'
    BY <1>4, WithIsARead DEF SyncRead, With, indexVars, Sessions, IndexTypes, Types
  <2>3. ReadsAreSigned'
    BY <1>4, WithIsARead DEF SyncRead, With, indexVars, ReadsAreSigned, LateSign,
       Seen, IndexTypes, Types, Holders
  <2>4. CarriedIsSigned'
    BY <1>4, WithIsARead DEF SyncRead, With, indexVars, CarriedIsSigned,
       ReadsAreSigned, Sign, LateSign, Seen, IndexTypes, Types, Holders
  <2>5. IndexIsSigned'
    BY <1>4, WithIsARead DEF SyncRead, With, indexVars, IndexIsSigned,
       CarriedIsSigned, ReadsAreSigned, Sessions, Sign, LateSign, Seen, Exact,
       IndexTypes, Types, Holders
  <2> QED
    BY <2>1, <2>2, <2>3, <2>4, <2>5 DEF SignInv
<1>5. CASE SyncWrite
  <2>1. /\ row' \in [File -> Text] /\ scopes' \in [File -> SUBSET Content]
        /\ \A f \in File : row'[f] = IF f \in DOMAIN sync.read /\ sync.read[f] # Absent
                                     THEN sync.read[f] ELSE row[f]
    BY <1>5, IngestFacts DEF SyncWrite, IndexTypes, Types
  <2>2. IndexTypes'
    BY <1>5, <2>1 DEF SyncWrite, StillLate, history, IndexTypes, Types
  <2>3. Sessions'
    BY <1>5, <2>1 DEF SyncWrite, StillLate, history, Sessions, IndexTypes, Types
  <2>4. ReadsAreSigned'
    BY <1>5, <2>1 DEF SyncWrite, StillLate, history, ReadsAreSigned, LateSign, Seen,
       IndexTypes, Types, Holders
  <2>5. CarriedIsSigned'
    <3>1. /\ DOMAIN sync.read = sync.paquet /\ sync.pc = "reading" /\ sync'.pc = "nodes"
          /\ sync'.retenus = sync.retenus /\ sync'.faits = sync.faits \union sync.paquet
          /\ sync'.paquet = {} /\ sync'.read = Nothing
          /\ sync'.seen = sync.seen \union {f \in sync.paquet : sync.read[f] # Absent}
      BY <1>5 DEF SyncWrite, Types
    <3>2. /\ \A f \in sync.paquet : LateSign(f, lag.lateSync) => Sign(f)'
          /\ \A f \in File \ sync.paquet : Sign(f) => Sign(f)'
      BY <1>5 DEF SyncWrite, StillLate, history, LateSign, Sign, Seen, IndexTypes
    <3>3. /\ sync.seen \subseteq sync.faits /\ sync.faits \subseteq sync.retenus
          /\ sync.paquet \subseteq sync.retenus \ sync.faits
          /\ \A f \in File \ (sync.retenus \ sync.faits) :
                (IF f \in sync.seen THEN row[f] ELSE Absent) = disk[f] \/ Sign(f)
      BY <3>1 DEF CarriedIsSigned
    <3>4. \A f \in sync.paquet : sync.read[f] = disk[f] \/ LateSign(f, lag.lateSync)
      BY <3>1 DEF ReadsAreSigned
    <3>5. disk' = disk
      BY <1>5 DEF SyncWrite
    <3>6. ASSUME NEW f \in File \ (sync'.retenus \ sync'.faits)
          PROVE  (IF f \in sync'.seen THEN row'[f] ELSE Absent) = disk'[f] \/ Sign(f)'
      <4>1. CASE f \in sync.paquet
        BY <2>1, <3>1, <3>2, <3>3, <3>4, <3>5, <4>1
      <4>2. CASE f \notin sync.paquet
        BY <2>1, <3>1, <3>2, <3>3, <3>5, <3>6, <4>2
      <4> QED
        BY <4>1, <4>2
    <3> QED
      BY <3>1, <3>3, <3>6 DEF CarriedIsSigned
  <2>6. IndexIsSigned'
    BY <1>5, <2>1 DEF SyncWrite, StillLate, history, IndexIsSigned, CarriedIsSigned,
       ReadsAreSigned, Sessions, Sign, LateSign, Seen, Exact, IndexTypes, Types,
       Holders
  <2> QED
    BY <2>2, <2>3, <2>4, <2>5, <2>6 DEF SignInv
<1>6. CASE SyncFinish
  <2>1. IndexTypes'
    <3>1. \A c \in Text : Scopes(c) \in SUBSET Content
      BY DEF Scopes, Text
    <3>2. Absent \in Text
      BY DEF Text
    <3> QED
      BY <1>6, <3>1, <3>2 DEF SyncFinish, Sync, Hide, IndexTypes, Types
  <2>2. Sessions'
    BY <1>6 DEF SyncFinish, Sync, Hide, Batches, Sessions, IndexTypes, Types
  <2>3. ReadsAreSigned'
    BY <1>6 DEF SyncFinish, Sync, Hide, Batches, ReadsAreSigned, LateSign, Seen,
       IndexTypes, Types, Holders
  <2>4. CarriedIsSigned'
    BY <1>6 DEF SyncFinish, Sync, Hide, Batches, CarriedIsSigned, ReadsAreSigned,
       Sign, LateSign, Seen, IndexTypes, Types, Holders
  <2>5. IndexIsSigned'
    <3>1. \A f \in File : row'[f] = disk[f] \/ Sign(f)
      BY <1>6 DEF SyncFinish, Sync, CarriedIsSigned, IndexTypes, Types
    <3>2. \A f \in File : scopes'[f] = Scopes(row'[f])
      BY <1>6 DEF SyncFinish, Scopes
    <3>3. \A f \in File : Exact(f)' \/ Sign(f)'
      BY <1>6, <3>1, <3>2 DEF SyncFinish, Hide, Exact, Sign, Seen
    <3> QED
      BY <3>3 DEF IndexIsSigned
  <2> QED
    BY <2>1, <2>2, <2>3, <2>4, <2>5 DEF SignInv
<1>7. CASE SyncResume
  <2>1. IndexTypes'
    BY <1>7 DEF SyncResume, history, indexVars, IndexTypes, Types
  <2>2. Sessions'
    BY <1>7 DEF SyncResume, history, indexVars, Sessions, IndexTypes, Types
  <2>3. ReadsAreSigned'
    BY <1>7 DEF SyncResume, history, indexVars, ReadsAreSigned, LateSign, Seen,
       IndexTypes, Types, Holders
  <2>4. CarriedIsSigned'
    BY <1>7 DEF SyncResume, history, indexVars, CarriedIsSigned, ReadsAreSigned,
       Sign, LateSign, Seen, IndexTypes, Types, Holders
  <2>5. IndexIsSigned'
    BY <1>7 DEF SyncResume, history, indexVars, IndexIsSigned, CarriedIsSigned,
       ReadsAreSigned, Sessions, Sign, LateSign, Seen, Exact, IndexTypes, Types,
       Holders
  <2> QED
    BY <2>1, <2>2, <2>3, <2>4, <2>5 DEF SignInv
<1>8. CASE SyncLeave
  <2>1. IndexTypes'
    BY <1>8 DEF SyncLeave, NoSync, Off, Give, indexVars, IndexTypes, Types
  <2>2. Sessions'
    BY <1>8 DEF SyncLeave, NoSync, Off, Give, indexVars, Sessions, IndexTypes, Types
  <2>3. ReadsAreSigned'
    BY <1>8 DEF SyncLeave, NoSync, Off, Give, indexVars, ReadsAreSigned, LateSign,
       Seen, IndexTypes, Types, Holders
  <2>4. CarriedIsSigned'
    BY <1>8 DEF SyncLeave, NoSync, Off, Give, indexVars, CarriedIsSigned,
       ReadsAreSigned, Sign, LateSign, Seen, IndexTypes, Types, Holders
  <2>5. IndexIsSigned'
    BY <1>8 DEF SyncLeave, NoSync, Off, Give, indexVars, IndexIsSigned,
       CarriedIsSigned, ReadsAreSigned, Sessions, Sign, LateSign, Seen, Exact,
       IndexTypes, Types, Holders
  <2> QED
    BY <2>1, <2>2, <2>3, <2>4, <2>5 DEF SignInv
<1>9. ASSUME NEW f \in File, SyncReread(f)
      PROVE  SignInv'
  <2>1. IndexTypes'
    BY <1>9, WithIsARead DEF SyncReread, With, indexVars, IndexTypes, Types
  <2>2. Sessions'
    BY <1>9, WithIsARead DEF SyncReread, With, indexVars, Sessions, IndexTypes,
       Types
  <2>3. ReadsAreSigned'
    BY <1>9, WithIsARead DEF SyncReread, With, indexVars, ReadsAreSigned, LateSign,
       Seen, IndexTypes, Types, Holders
  <2>4. CarriedIsSigned'
    BY <1>9, WithIsARead DEF SyncReread, With, indexVars, CarriedIsSigned,
       ReadsAreSigned, Sign, LateSign, Seen, IndexTypes, Types, Holders
  <2>5. IndexIsSigned'
    BY <1>9, WithIsARead DEF SyncReread, With, indexVars, IndexIsSigned,
       CarriedIsSigned, ReadsAreSigned, Sessions, Sign, LateSign, Seen, Exact,
       IndexTypes, Types, Holders
  <2> QED
    BY <2>1, <2>2, <2>3, <2>4, <2>5 DEF SignInv
<1>10. CASE SyncRewrite
  <2>1. /\ row' \in [File -> Text] /\ scopes' \in [File -> SUBSET Content]
        /\ \A f \in File \ DOMAIN sync.read : row'[f] = row[f] /\ scopes'[f] = scopes[f]
        /\ ~Deferred => \A f \in DOMAIN sync.read \cap File :
                            row'[f] = sync.read[f] /\ scopes'[f] = Scopes(sync.read[f])
    BY <1>10, ReingestFacts DEF SyncRewrite, IndexTypes, Types
  <2>2. IndexTypes'
    BY <1>10, <2>1 DEF SyncRewrite, Deferred, Hide, StillLate, IndexTypes, Types
  <2>3. Sessions'
    BY <1>10, <2>1 DEF SyncRewrite, Deferred, Hide, StillLate, Sessions, IndexTypes,
       Types
  <2>4. ReadsAreSigned'
    BY <1>10, <2>1 DEF SyncRewrite, Deferred, Hide, StillLate, ReadsAreSigned,
       LateSign, Seen, IndexTypes, Types, Holders
  <2>5. CarriedIsSigned'
    BY <1>10, <2>1 DEF SyncRewrite, Deferred, Hide, StillLate, CarriedIsSigned,
       ReadsAreSigned, Sign, LateSign, Seen, IndexTypes, Types, Holders
  <2>6. IndexIsSigned'
    <3>1. ~Deferred /\ disk' = disk /\ scanner' = scanner
      BY <1>10 DEF SyncRewrite, Sessions, Deferred
    <3>2. /\ \A f \in File : Exact(f)' \/ (f \in hidden => f \in hidden')
          /\ lag'.pending = lag.pending \ (DOMAIN sync.read \ lag.lateSync)
      BY <1>10 DEF SyncRewrite, Hide, Exact, StillLate, IndexTypes
    <3>3. \A f \in File : Exact(f) \/ Sign(f)
      BY <1>10 DEF SyncRewrite, IndexIsSigned
    <3>4. \A f \in DOMAIN sync.read : sync.read[f] = disk[f] \/ LateSign(f, lag.lateSync)
      BY DEF ReadsAreSigned
    <3>5. ASSUME NEW f \in File PROVE Exact(f)' \/ Sign(f)'
      <4>1. CASE f \in DOMAIN sync.read
        BY <2>1, <3>1, <3>2, <3>4, <4>1 DEF Exact, Sign, LateSign, Seen
      <4>2. CASE f \notin DOMAIN sync.read
        BY <2>1, <3>1, <3>2, <3>3, <4>2 DEF Exact, Sign, Seen
      <4> QED
        BY <4>1, <4>2
    <3> QED
      BY <3>5 DEF IndexIsSigned
  <2> QED
    BY <2>2, <2>3, <2>4, <2>5, <2>6 DEF SignInv
<1>11. ASSUME NEW w \in SUBSET DOMAIN sync.read, SyncFail(w)
       PROVE  SignInv'
  <2>1. row' \in [File -> Text] /\ scopes' \in [File -> SUBSET Content]
    <3>1. [f \in w |-> sync.read[f]] \in Reads
      BY <1>11 DEF Types, Reads
    <3> QED
      BY <1>11, <3>1, IngestFacts DEF SyncFail, IndexTypes
  <2>2. IndexTypes'
    BY <1>11, <2>1 DEF SyncFail, SyncStops, NoSync, Off, Give, IndexTypes, Types
  <2>3. Sessions'
    BY <1>11, <2>1 DEF SyncFail, SyncStops, NoSync, Off, Give, Sessions, IndexTypes,
       Types
  <2>4. ReadsAreSigned'
    BY <1>11, <2>1 DEF SyncFail, SyncStops, NoSync, Off, Give, ReadsAreSigned,
       LateSign, Seen, IndexTypes, Types, Holders
  <2>5. CarriedIsSigned'
    BY <1>11, <2>1 DEF SyncFail, SyncStops, NoSync, Off, Give, CarriedIsSigned,
       ReadsAreSigned, Sign, LateSign, Seen, IndexTypes, Types, Holders
  <2>6. IndexIsSigned'
    BY <1>11, <2>1 DEF SyncFail, SyncStops, NoSync, Off, Give, IndexIsSigned,
       CarriedIsSigned, ReadsAreSigned, Sessions, Sign, LateSign, Seen, Exact,
       IndexTypes, Types, Holders
  <2> QED
    BY <2>2, <2>3, <2>4, <2>5, <2>6 DEF SignInv
<1>12. CASE SyncSuspend
  <2>1. IndexTypes'
    BY <1>12 DEF SyncSuspend, SyncStops, NoSync, Off, Give, IndexTypes, Types
  <2>2. Sessions'
    BY <1>12 DEF SyncSuspend, SyncStops, NoSync, Off, Give, Sessions, IndexTypes,
       Types
  <2>3. ReadsAreSigned'
    BY <1>12 DEF SyncSuspend, SyncStops, NoSync, Off, Give, ReadsAreSigned, LateSign,
       Seen, IndexTypes, Types, Holders
  <2>4. CarriedIsSigned'
    BY <1>12 DEF SyncSuspend, SyncStops, NoSync, Off, Give, CarriedIsSigned,
       ReadsAreSigned, Sign, LateSign, Seen, IndexTypes, Types, Holders
  <2>5. IndexIsSigned'
    BY <1>12 DEF SyncSuspend, SyncStops, NoSync, Off, Give, IndexIsSigned,
       CarriedIsSigned, ReadsAreSigned, Sessions, Sign, LateSign, Seen, Exact,
       IndexTypes, Types, Holders
  <2> QED
    BY <2>1, <2>2, <2>3, <2>4, <2>5 DEF SignInv
<1> QED
  BY <1>1, <1>2, <1>3, <1>4, <1>5, <1>6, <1>7, <1>8, <1>9, <1>10, <1>11, <1>12 DEF SyncNext

(* The steps of the edit tool. *)
LEMMA EditSign == ASSUME IInv, IInv', SignInv, NEW e \in Editor, EditNext(e) PROVE SignInv'
<1> USE HolderAssumption DEF IInv, SignInv, EditElse
<1>1. ASSUME NEW f \in File, NEW c \in Content, EditCall(e, f, c)
      PROVE  SignInv'
  <2>1. IndexTypes'
    BY <1>1 DEF EditCall, Take, Text, indexVars, IndexTypes, Types
  <2>2. Sessions'
    BY <1>1 DEF EditCall, Take, Text, indexVars, Sessions, IndexTypes, Types
  <2>3. ReadsAreSigned'
    BY <1>1 DEF EditCall, Take, Text, indexVars, ReadsAreSigned, LateSign, Seen,
       IndexTypes, Types, Holders
  <2>4. CarriedIsSigned'
    BY <1>1 DEF EditCall, Take, Text, indexVars, CarriedIsSigned, ReadsAreSigned,
       Sign, LateSign, Seen, IndexTypes, Types, Holders
  <2>5. IndexIsSigned'
    BY <1>1 DEF EditCall, Take, Text, indexVars, IndexIsSigned, CarriedIsSigned,
       ReadsAreSigned, Sessions, Sign, LateSign, Seen, Exact, IndexTypes, Types,
       Holders
  <2> QED
    BY <2>1, <2>2, <2>3, <2>4, <2>5 DEF SignInv
<1>2. CASE EditWrite(e)
  <2>1. editor[e].file \in File /\ editor[e].text \in Text
    BY <1>2 DEF EditWrite, Edit, Types, IndexTypes
  <2>2. IndexTypes'
    <3>1. \A d \in Editor : editor'[d].file = editor[d].file
      BY <1>2 DEF EditWrite, Edit, Types
    <3>2. \A d \in Editor : editor[d].pc = "idle" => editor'[d].pc = "idle"
      BY <1>2 DEF EditWrite, Edit, Types
    <3>3. \A d \in Editor : editor'[d].pc # "idle" => editor'[d].file \in File
      BY <3>1, <3>2 DEF IndexTypes
    <3> QED
      BY <1>2, <2>1, <3>3 DEF EditWrite, Put, indexVars, IndexTypes
  <2>3. Sessions'
    BY <1>2, <2>1 DEF EditWrite, Put, indexVars, Sessions, IndexTypes, Types
  <2>4. ReadsAreSigned'
    BY <1>2, <2>1 DEF EditWrite, Put, indexVars, ReadsAreSigned, LateSign, Seen,
       IndexTypes, Types, Holders
  <2>5. CarriedIsSigned'
    BY <1>2, <2>1 DEF EditWrite, Put, indexVars, CarriedIsSigned, ReadsAreSigned,
       Sign, LateSign, Seen, IndexTypes, Types, Holders
  <2>6. IndexIsSigned'
    BY <1>2, <2>1 DEF EditWrite, Put, indexVars, IndexIsSigned, CarriedIsSigned,
       ReadsAreSigned, Sessions, Sign, LateSign, Seen, Exact, IndexTypes, Types,
       Holders
  <2> QED
    BY <2>2, <2>3, <2>4, <2>5, <2>6 DEF SignInv
<1>3. CASE EditNote(e)
  <2>1. IndexTypes'
    <3>1. editor[e].file \in File
      BY <1>3 DEF EditNote, EditDone, Types, IndexTypes
    <3>2. \A d \in Editor : editor'[d].pc # "idle" => editor'[d].file \in File
      BY <1>3 DEF EditNote, EditDone, Idle, Types, IndexTypes
    <3> QED
      BY <1>3, <3>1, <3>2 DEF EditNote, indexVars, IndexTypes
  <2>2. Sessions'
    BY <1>3 DEF EditNote, indexVars, Sessions, IndexTypes, Types
  <2>3. ReadsAreSigned'
    BY <1>3 DEF EditNote, indexVars, ReadsAreSigned, LateSign, Seen, IndexTypes,
       Types, Holders
  <2>4. CarriedIsSigned'
    BY <1>3 DEF EditNote, indexVars, CarriedIsSigned, ReadsAreSigned, Sign, LateSign,
       Seen, IndexTypes, Types, Holders
  <2>5. IndexIsSigned'
    BY <1>3 DEF EditNote, indexVars, IndexIsSigned, CarriedIsSigned, ReadsAreSigned,
       Sessions, Sign, LateSign, Seen, Exact, IndexTypes, Types, Holders
  <2> QED
    BY <2>1, <2>2, <2>3, <2>4, <2>5 DEF SignInv
<1>4. CASE EditMissed(e)
  <2>1. IndexTypes'
    BY <1>4 DEF EditMissed, Edit, indexVars, IndexTypes, Types
  <2>2. Sessions'
    BY <1>4 DEF EditMissed, Edit, indexVars, Sessions, IndexTypes, Types
  <2>3. ReadsAreSigned'
    BY <1>4 DEF EditMissed, Edit, indexVars, ReadsAreSigned, LateSign, Seen,
       IndexTypes, Types, Holders
  <2>4. CarriedIsSigned'
    BY <1>4 DEF EditMissed, Edit, indexVars, CarriedIsSigned, ReadsAreSigned, Sign,
       LateSign, Seen, IndexTypes, Types, Holders
  <2>5. IndexIsSigned'
    BY <1>4 DEF EditMissed, Edit, indexVars, IndexIsSigned, CarriedIsSigned,
       ReadsAreSigned, Sessions, Sign, LateSign, Seen, Exact, IndexTypes, Types,
       Holders
  <2> QED
    BY <2>1, <2>2, <2>3, <2>4, <2>5 DEF SignInv
<1>5. CASE EditWait(e)
  <2>1. IndexTypes'
    BY <1>5 DEF EditWait, Edit, Take, indexVars, IndexTypes, Types
  <2>2. Sessions'
    BY <1>5 DEF EditWait, Edit, Take, indexVars, Sessions, IndexTypes, Types
  <2>3. ReadsAreSigned'
    BY <1>5 DEF EditWait, Edit, Take, indexVars, ReadsAreSigned, LateSign, Seen,
       IndexTypes, Types, Holders
  <2>4. CarriedIsSigned'
    BY <1>5 DEF EditWait, Edit, Take, indexVars, CarriedIsSigned, ReadsAreSigned,
       Sign, LateSign, Seen, IndexTypes, Types, Holders
  <2>5. IndexIsSigned'
    BY <1>5 DEF EditWait, Edit, Take, indexVars, IndexIsSigned, CarriedIsSigned,
       ReadsAreSigned, Sessions, Sign, LateSign, Seen, Exact, IndexTypes, Types,
       Holders
  <2> QED
    BY <2>1, <2>2, <2>3, <2>4, <2>5 DEF SignInv
<1>6. CASE EditIngest(e)
  <2>1. editor[e].text \in Text /\ editor[e].file \in File
    BY <1>6 DEF EditIngest, EditDone, Types, IndexTypes
  <2>2. /\ row' \in [File -> Text] /\ scopes' \in [File -> SUBSET Content]
        /\ \A f \in File : f # editor[e].file => row'[f] = row[f] /\ scopes'[f] = scopes[f]
        /\ ~Deferred => /\ row'[editor[e].file] = editor[e].text
                        /\ scopes'[editor[e].file] = Scopes(editor[e].text)
    <3> DEFINE got == [f \in {editor[e].file} |-> editor[e].text]
    <3>1. got \in Reads /\ DOMAIN got = {editor[e].file} /\ got[editor[e].file] = editor[e].text
      <4>1. got \in [{editor[e].file} -> Text] /\ {editor[e].file} \in SUBSET File
        BY <2>1
      <4> QED
        BY <4>1 DEF Reads
    <3>2. Reingest(got)
      BY <1>6 DEF EditIngest
    <3> HIDE DEF got
    <3> QED
      BY <2>1, <3>1, <3>2, ReingestFacts DEF IndexTypes
  <2>3. \A d \in Editor : editor'[d].pc # "idle" => editor'[d].file \in File
    BY <1>6 DEF EditIngest, EditDone, Idle, Types, IndexTypes
  <2>4. sync.pc = "off" /\ react.pc # "reading" /\ DOMAIN sync.read = {} /\ DOMAIN react.read = {}
    BY <1>6 DEF EditIngest, EditDone, Holders, Batches, ReadsAreSigned
  <2>5. IndexTypes'
    BY <1>6, <2>1, <2>2, <2>3 DEF EditIngest, Give, Hide, Overtaken, IndexTypes
  <2>6. Sessions'
    BY <1>6, <2>4, <2>2 DEF EditIngest, Deferred, Give, Hide, Overtaken, Sessions,
       IndexTypes, Types
  <2>7. ReadsAreSigned'
    BY <1>6, <2>4, <2>2 DEF EditIngest, Deferred, Give, Hide, Overtaken,
       ReadsAreSigned, LateSign, Seen, IndexTypes, Types, Holders
  <2>8. CarriedIsSigned'
    BY <1>6, <2>4, <2>2 DEF EditIngest, Deferred, Give, Hide, Overtaken,
       CarriedIsSigned, ReadsAreSigned, Sign, LateSign, Seen, IndexTypes, Types,
       Holders
  <2>9. IndexIsSigned'
    <3>1. /\ lag' = lag /\ scanner' = scanner /\ disk' = disk /\ incomplete' = incomplete
          /\ sync' = sync
      BY <1>6 DEF EditIngest
    <3>2. \A f \in File : Exact(f)' \/ (f \in hidden \union Overtaken(e) => f \in hidden')
      BY <1>6, <3>1 DEF EditIngest, Hide, Exact
    <3>3. SUFFICES ASSUME ~incomplete, NEW f \in File PROVE Exact(f)' \/ Sign(f)'
      BY <2>4, <3>1 DEF IndexIsSigned
    <3>4. ~Deferred /\ (Exact(f) \/ Sign(f))
      BY <2>4, <3>3 DEF Sessions, IndexIsSigned, Deferred
    <3>5. CASE f = editor[e].file
      BY <2>2, <3>1, <3>2, <3>4, <3>5 DEF Exact, Sign, Seen, Overtaken
    <3>6. CASE f # editor[e].file
      BY <2>2, <3>1, <3>2, <3>4, <3>6 DEF Exact, Sign, Seen
    <3> QED
      BY <3>5, <3>6
  <2> QED
    BY <2>5, <2>6, <2>7, <2>8, <2>9 DEF SignInv
<1>7. CASE EditNotIngested(e)
  <2>1. sync.pc = "off" /\ react.pc # "reading" /\ DOMAIN sync.read = {} /\ DOMAIN react.read = {}
    BY <1>7 DEF EditNotIngested, EditDone, Holders, Batches, ReadsAreSigned
  <2>2. editor[e].text \in Text /\ editor[e].file \in File
    BY <1>7 DEF EditNotIngested, EditDone, Types, IndexTypes
  <2>3. /\ row' \in [File -> Text] /\ scopes' \in [File -> SUBSET Content]
        /\ \A f \in File : f # editor[e].file => row'[f] = row[f] /\ scopes'[f] = scopes[f]
        /\ row'[editor[e].file] \in {row[editor[e].file], editor[e].text}
        /\ ~Deferred => scopes'[editor[e].file] \in
                {scopes[editor[e].file], scopes[editor[e].file] \cap {editor[e].text},
                 (scopes[editor[e].file] \cap {editor[e].text}) \cup Scopes(editor[e].text)}
    <3>1. Scopes(editor[e].text) \in SUBSET Content
      BY <2>2 DEF Scopes, Text
    <3> QED
      BY <1>7, <2>2, <3>1 DEF EditNotIngested, IndexTypes
  <2>4. \A d \in Editor : editor'[d].pc # "idle" => editor'[d].file \in File
    BY <1>7 DEF EditNotIngested, EditDone, Idle, Types, IndexTypes
  <2>5. IndexTypes'
    BY <1>7, <2>2, <2>3, <2>4 DEF EditNotIngested, Give, Hide, Overtaken, IndexTypes
  <2>6. Sessions'
    BY <1>7, <2>1, <2>3 DEF EditNotIngested, Deferred, Give, Hide, Overtaken,
       Sessions, IndexTypes, Types
  <2>7. ReadsAreSigned'
    BY <1>7, <2>1, <2>3 DEF EditNotIngested, Deferred, Give, Hide, Overtaken,
       ReadsAreSigned, LateSign, Seen, IndexTypes, Types, Holders
  <2>8. CarriedIsSigned'
    BY <1>7, <2>1, <2>3 DEF EditNotIngested, Deferred, Give, Hide, Overtaken,
       CarriedIsSigned, ReadsAreSigned, Sign, LateSign, Seen, IndexTypes, Types,
       Holders
  <2>9. IndexIsSigned'
    <3>1. /\ lag' = lag /\ scanner' = scanner /\ disk' = disk /\ incomplete' = incomplete
          /\ sync' = sync
      BY <1>7 DEF EditNotIngested
    <3>2. \A f \in File : Exact(f)' \/ (f \in hidden \union Overtaken(e) => f \in hidden')
      BY <1>7, <3>1 DEF EditNotIngested, Hide, Exact
    <3>3. SUFFICES ASSUME ~incomplete, NEW f \in File PROVE Exact(f)' \/ Sign(f)'
      BY <2>1, <3>1 DEF IndexIsSigned
    <3>4. ~Deferred /\ (Exact(f) \/ Sign(f))
      BY <2>1, <3>3 DEF Sessions, IndexIsSigned, Deferred
    <3>5. CASE f = editor[e].file
      BY <2>3, <3>1, <3>2, <3>4, <3>5 DEF Exact, Sign, Seen, Overtaken, Scopes
    <3>6. CASE f # editor[e].file
      BY <2>3, <3>1, <3>2, <3>4, <3>6 DEF Exact, Sign, Seen
    <3> QED
      BY <3>5, <3>6
  <2> QED
    BY <2>5, <2>6, <2>7, <2>8, <2>9 DEF SignInv
<1> QED
  BY <1>1, <1>2, <1>3, <1>4, <1>5, <1>6, <1>7 DEF EditNext

(* The steps of the reaction. *)
LEMMA ReactSign == ASSUME IInv, IInv', SignInv, ReactNext PROVE SignInv'
<1> USE HolderAssumption, NothingIsARead DEF IInv, SignInv, ReactElse
<1>1. CASE ReactStart
  <2>1. IndexTypes'
    BY <1>1 DEF ReactStart, NoReaction, IndexTypes, Types
  <2>2. Sessions'
    BY <1>1 DEF ReactStart, NoReaction, Sessions, IndexTypes, Types
  <2>3. ReadsAreSigned'
    BY <1>1 DEF ReactStart, NoReaction, ReadsAreSigned, LateSign, Seen, IndexTypes,
       Types, Holders
  <2>4. CarriedIsSigned'
    BY <1>1 DEF ReactStart, NoReaction, CarriedIsSigned, ReadsAreSigned, Sign,
       LateSign, Seen, IndexTypes, Types, Holders
  <2>5. IndexIsSigned'
    BY <1>1 DEF ReactStart, NoReaction, IndexIsSigned, CarriedIsSigned,
       ReadsAreSigned, Sessions, Sign, LateSign, Seen, Exact, IndexTypes, Types,
       Holders
  <2> QED
    BY <2>1, <2>2, <2>3, <2>4, <2>5 DEF SignInv
<1>2. CASE ReactSee
  <2>1. IndexTypes'
    BY <1>2 DEF ReactSee, IndexTypes, Types
  <2>2. Sessions'
    BY <1>2 DEF ReactSee, Sessions, IndexTypes, Types
  <2>3. ReadsAreSigned'
    BY <1>2 DEF ReactSee, ReadsAreSigned, LateSign, Seen, IndexTypes, Types, Holders
  <2>4. CarriedIsSigned'
    BY <1>2 DEF ReactSee, CarriedIsSigned, ReadsAreSigned, Sign, LateSign, Seen,
       IndexTypes, Types, Holders
  <2>5. IndexIsSigned'
    BY <1>2 DEF ReactSee, IndexIsSigned, CarriedIsSigned, ReadsAreSigned, Sessions,
       Sign, LateSign, Seen, Exact, IndexTypes, Types, Holders
  <2> QED
    BY <2>1, <2>2, <2>3, <2>4, <2>5 DEF SignInv
<1>3. CASE ReactSay
  <2>1. IndexTypes'
    BY <1>3 DEF ReactSay, ReactGo, NoReaction, IndexTypes, Types
  <2>2. Sessions'
    BY <1>3 DEF ReactSay, ReactGo, NoReaction, Sessions, IndexTypes, Types
  <2>3. ReadsAreSigned'
    BY <1>3 DEF ReactSay, ReactGo, NoReaction, ReadsAreSigned, LateSign, Seen,
       IndexTypes, Types, Holders
  <2>4. CarriedIsSigned'
    BY <1>3 DEF ReactSay, ReactGo, NoReaction, CarriedIsSigned, ReadsAreSigned, Sign,
       LateSign, Seen, IndexTypes, Types, Holders
  <2>5. IndexIsSigned'
    BY <1>3 DEF ReactSay, ReactGo, NoReaction, IndexIsSigned, CarriedIsSigned,
       ReadsAreSigned, Sessions, Sign, LateSign, Seen, Exact, IndexTypes, Types,
       Holders
  <2> QED
    BY <2>1, <2>2, <2>3, <2>4, <2>5 DEF SignInv
<1>4. ASSUME NEW f \in File, ReactDefer(f)
      PROVE  SignInv'
  <2>1. IndexTypes'
    BY <1>4 DEF ReactDefer, NoteChange, NoReaction, IndexTypes, Types
  <2>2. Sessions'
    BY <1>4 DEF ReactDefer, NoteChange, NoReaction, Sessions, IndexTypes, Types
  <2>3. ReadsAreSigned'
    BY <1>4 DEF ReactDefer, NoteChange, NoReaction, ReadsAreSigned, LateSign, Seen,
       IndexTypes, Types, Holders
  <2>4. CarriedIsSigned'
    BY <1>4 DEF ReactDefer, NoteChange, NoReaction, CarriedIsSigned, ReadsAreSigned,
       Sign, LateSign, Seen, IndexTypes, Types, Holders
  <2>5. IndexIsSigned'
    BY <1>4 DEF ReactDefer, NoteChange, NoReaction, IndexIsSigned, CarriedIsSigned,
       ReadsAreSigned, Sessions, Sign, LateSign, Seen, Exact, IndexTypes, Types,
       Holders
  <2> QED
    BY <2>1, <2>2, <2>3, <2>4, <2>5 DEF SignInv
<1>5. ASSUME NEW f \in File, ReactRead(f)
      PROVE  SignInv'
  <2>1. /\ With(react.read, f) \in Reads
        /\ DOMAIN With(react.read, f) = DOMAIN react.read \union {f}
    BY WithIsARead DEF Types, IndexTypes
  <2>2. IndexTypes'
    BY <1>5, <2>1 DEF ReactRead, IndexTypes
  <2>3. Sessions'
    BY <1>5, <2>1 DEF ReactRead, With, Sessions, IndexTypes, Types
  <2>4. ReadsAreSigned'
    BY <1>5, <2>1 DEF ReactRead, With, ReadsAreSigned, LateSign, Seen, IndexTypes,
       Types, Holders
  <2>5. CarriedIsSigned'
    BY <1>5, <2>1 DEF ReactRead, With, CarriedIsSigned, ReadsAreSigned, Sign,
       LateSign, Seen, IndexTypes, Types, Holders
  <2>6. IndexIsSigned'
    BY <1>5, <2>1 DEF ReactRead, With, IndexIsSigned, CarriedIsSigned,
       ReadsAreSigned, Sessions, Sign, LateSign, Seen, Exact, IndexTypes, Types,
       Holders
  <2> QED
    BY <2>2, <2>3, <2>4, <2>5, <2>6 DEF SignInv
<1>6. ASSUME NEW l \in SUBSET react.todo, ReactTake(l)
      PROVE  SignInv'
  <2>1. IndexTypes'
    BY <1>6 DEF ReactTake, Take, IndexTypes, Types
  <2>2. Sessions'
    BY <1>6 DEF ReactTake, Take, Sessions, IndexTypes, Types
  <2>3. ReadsAreSigned'
    BY <1>6 DEF ReactTake, Take, ReadsAreSigned, LateSign, Seen, IndexTypes, Types,
       Holders
  <2>4. CarriedIsSigned'
    BY <1>6 DEF ReactTake, Take, CarriedIsSigned, ReadsAreSigned, Sign, LateSign,
       Seen, IndexTypes, Types, Holders
  <2>5. IndexIsSigned'
    BY <1>6 DEF ReactTake, Take, IndexIsSigned, CarriedIsSigned, ReadsAreSigned,
       Sessions, Sign, LateSign, Seen, Exact, IndexTypes, Types, Holders
  <2> QED
    BY <2>1, <2>2, <2>3, <2>4, <2>5 DEF SignInv
<1>7. ASSUME NEW ok \in SUBSET react.lot, ReactWrite(ok)
      PROVE  SignInv'
  <2> DEFINE later == {f \in ok : Deferred /\ (ok = react.lot \/ react.read[f] # Absent)}
  <2>1. /\ react.pc = "reading" /\ react.lot = DOMAIN react.read /\ sync.pc = "off"
        /\ DOMAIN sync.read = {} /\ react.lot \subseteq File
    BY <1>7 DEF ReactWrite, Holders, Batches, IndexTypes
  <2>2. /\ row' \in [File -> Text] /\ scopes' \in [File -> SUBSET Content]
        /\ \A f \in File \ ok : row'[f] = row[f] /\ scopes'[f] = scopes[f]
        /\ ~Deferred => \A f \in ok : row'[f] = react.read[f] /\ scopes'[f] = Scopes(react.read[f])
    <3> DEFINE got == [f \in ok |-> react.read[f]]
    <3>1. got \in Reads /\ DOMAIN got = ok /\ \A f \in ok : got[f] = react.read[f]
      BY <2>1 DEF IndexTypes, Reads
    <3>2. Reingest(got)
      BY <1>7 DEF ReactWrite
    <3> HIDE DEF got
    <3> QED
      BY <2>1, <3>1, <3>2, ReingestFacts DEF IndexTypes
  <2>3. /\ lag' = [lag EXCEPT !.pending = lag.pending \ ((ok \ later) \ lag.lateReact), !.lateReact = {}]
        /\ react'.read = Nothing /\ react' \in [pc : {"idle", "lots", "say"}, todo : SUBSET File,
                          lot : SUBSET File, read : {Nothing}, deferred : SUBSET File]
        /\ hidden' \in SUBSET File /\ catalog' = Nobody
        /\ \A f \in File : Exact(f)' \/ (f \in hidden => f \in hidden')
    <3>1. later \subseteq File
      BY <2>1
    <3>2. lag' = [lag EXCEPT !.pending = lag.pending \ ((ok \ later) \ lag.lateReact), !.lateReact = {}]
      BY <1>7 DEF ReactWrite, StillLate
    <3>3. react' = IF later = {} THEN ReactGo(react.todo)
                   ELSE [NoReaction EXCEPT !.pc = "say", !.todo = react.todo, !.deferred = later]
      BY <1>7 DEF ReactWrite
    <3>4. disk' = disk /\ Hide({}) /\ catalog' = Nobody
      BY <1>7 DEF ReactWrite, Give
    <3>5. hidden' \in SUBSET File /\ \A f \in File : Exact(f)' \/ (f \in hidden => f \in hidden')
      BY <3>4 DEF Hide, Exact, IndexTypes
    <3> HIDE DEF later
    <3>6. /\ react'.read = Nothing /\ react' \in [pc : {"idle", "lots", "say"}, todo : SUBSET File,
                          lot : SUBSET File, read : {Nothing}, deferred : SUBSET File]
      BY <3>1, <3>3 DEF ReactGo, NoReaction, IndexTypes
    <3> QED
      BY <3>2, <3>4, <3>5, <3>6
  <2>4. /\ UNCHANGED <<disk, session, sync, editor, scanner, promised, incomplete, registry, events>>
    BY <1>7 DEF ReactWrite
  <2>5. IndexTypes'
    BY <2>2, <2>3, <2>4 DEF IndexTypes
  <2>6. Sessions'
    BY <2>4 DEF Sessions
  <2>7. ReadsAreSigned'
    BY <2>1, <2>3, <2>4 DEF ReadsAreSigned
  <2>8. CarriedIsSigned'
    BY <2>1, <2>4 DEF CarriedIsSigned
  <2>9. IndexIsSigned'
    <3>1. SUFFICES ASSUME ~incomplete, NEW f \in File PROVE Exact(f)' \/ Sign(f)'
      BY <2>1, <2>4 DEF IndexIsSigned
    <3>2. ~Deferred /\ (Exact(f) \/ Sign(f)) /\ later = {}
      BY <2>1, <3>1 DEF Sessions, IndexIsSigned, Deferred
    <3>3. lag'.pending = lag.pending \ (ok \ lag.lateReact)
      BY <2>3, <3>2 DEF IndexTypes
    <3>4. CASE f \in ok
      <4>1. react.read[f] = disk[f] \/ LateSign(f, lag.lateReact)
        BY <2>1, <3>4 DEF ReadsAreSigned
      <4> QED
        BY <2>2, <2>3, <2>4, <3>2, <3>3, <3>4, <4>1 DEF Exact, Sign, LateSign, Seen
    <3>5. CASE f \notin ok
      BY <2>2, <2>3, <2>4, <3>2, <3>3, <3>5 DEF Exact, Sign, Seen
    <3> QED
      BY <3>4, <3>5
  <2> QED
    BY <2>5, <2>6, <2>7, <2>8, <2>9 DEF SignInv
<1> QED
  BY <1>1, <1>2, <1>3, <1>4, <1>5, <1>6, <1>7 DEF ReactNext

(* Every step, of any thread. *)
LEMMA NextSign == IInv /\ IInv' /\ SignInv /\ [Next]_vars => SignInv'
<1> SUFFICES ASSUME IInv, IInv', SignInv, [Next]_vars
             PROVE  SignInv'
  OBVIOUS
<1> USE HolderAssumption, NothingIsARead DEF IInv, SignInv
<1>1. ASSUME NEW f \in File, NEW c \in Text, OutsideChange(f, c)
      PROVE  SignInv'
  <2>1. IndexTypes'
    BY <1>1 DEF OutsideChange, Put, indexVars, IndexTypes, Types
  <2>2. Sessions'
    BY <1>1 DEF OutsideChange, Put, indexVars, Sessions, IndexTypes, Types
  <2>3. ReadsAreSigned'
    BY <1>1 DEF OutsideChange, Put, indexVars, ReadsAreSigned, LateSign, Seen,
       IndexTypes, Types, Holders
  <2>4. CarriedIsSigned'
    BY <1>1 DEF OutsideChange, Put, indexVars, CarriedIsSigned, ReadsAreSigned, Sign,
       LateSign, Seen, IndexTypes, Types, Holders
  <2>5. IndexIsSigned'
    BY <1>1 DEF OutsideChange, Put, indexVars, IndexIsSigned, CarriedIsSigned,
       ReadsAreSigned, Sessions, Sign, LateSign, Seen, Exact, IndexTypes, Types,
       Holders
  <2> QED
    BY <2>1, <2>2, <2>3, <2>4, <2>5 DEF SignInv
<1>2. ASSUME NEW relist \in BOOLEAN, NEW s \in SUBSET File, Scan(relist, s)
      PROVE  SignInv'
  <2>1. UNCHANGED <<disk, indexVars, catalog, registry, sync, editor, react, history, events, lag>>
    BY <1>2 DEF Scan, WatchElse
  <2>2. scanner' \in [known : [File -> Text], moving : SUBSET File, moved : BOOLEAN, found : SUBSET File]
    <3> DEFINE gone == Known \ Present
               changed == {f \in (IF relist THEN Present ELSE Known \union scanner.moving) \cap Present :
                              scanner.known[f] # disk[f]}
    <3>1. gone \in SUBSET File /\ changed \in SUBSET File
      BY DEF Known, Present
    <3>2. \/ scanner' = [scanner EXCEPT !.moved = FALSE]
          \/ scanner' = [known |-> [f \in File |-> IF f \in gone \union s THEN disk[f]
                                                    ELSE scanner.known[f]],
                         moving |-> changed \ s, moved |-> FALSE, found |-> gone \union s]
      BY <1>2 DEF Scan
    <3> HIDE DEF gone, changed
    <3> DEFINE known == [f \in File |-> IF f \in gone \union s THEN disk[f] ELSE scanner.known[f]]
    <3>3. known \in [File -> Text]
      BY DEF IndexTypes, Types
    <3>4. \/ scanner' = [scanner EXCEPT !.moved = FALSE]
          \/ scanner' = [known |-> known, moving |-> changed \ s, moved |-> FALSE, found |-> gone \union s]
      BY <3>2
    <3> HIDE DEF known
    <3>5. CASE scanner' = [scanner EXCEPT !.moved = FALSE]
      BY <3>5 DEF IndexTypes
    <3>6. CASE scanner' = [known |-> known, moving |-> changed \ s, moved |-> FALSE, found |-> gone \union s]
      <4>1. changed \ s \in SUBSET File /\ gone \union s \in SUBSET File
        BY <3>1
      <4> QED
        BY <3>3, <3>6, <4>1
    <3> QED
      BY <3>4, <3>5, <3>6
  <2>3. \A f \in File : Seen(f) => Seen(f)'
    BY <1>2, <2>1 DEF Scan, Present, Known, Seen, IndexTypes, Types, history
  <2>4. DOMAIN sync.read \subseteq File /\ DOMAIN react.read \subseteq File
    BY DEF Types, IndexTypes, Reads
  <2>5. IndexTypes'
    BY <2>1, <2>2 DEF IndexTypes, indexVars, history
  <2>6. Sessions'
    BY <2>1 DEF Sessions, indexVars, history
  <2>7. ReadsAreSigned'
    BY <2>1, <2>3, <2>4 DEF ReadsAreSigned, LateSign
  <2>8. CarriedIsSigned'
    BY <2>1, <2>3 DEF CarriedIsSigned, Sign, indexVars
  <2>9. IndexIsSigned'
    BY <2>1, <2>3 DEF IndexIsSigned, Sign, Exact, indexVars, history
  <2> QED
    BY <2>5, <2>6, <2>7, <2>8, <2>9 DEF SignInv
<1>3. CASE Publish
  <2>1. IndexTypes'
    BY <1>3 DEF Publish, Note, WatchElse, indexVars, history, IndexTypes, Types
  <2>2. Sessions'
    BY <1>3 DEF Publish, Note, WatchElse, indexVars, history, Sessions, IndexTypes,
       Types
  <2>3. ReadsAreSigned'
    <3>1. /\ UNCHANGED <<disk, sync, react, hidden>> /\ scanner'.known = scanner.known
          /\ lag'.pending = lag.pending \union scanner.found
          /\ sync.pc \in {"reading", "rewrite"} => lag'.lateSync = lag.lateSync \union scanner.found
          /\ react.pc = "reading" => lag'.lateReact = lag.lateReact \union scanner.found
      BY <1>3 DEF Publish, Note, WatchElse, history, IndexTypes
    <3>2. sync.pc \in {"reading", "rewrite"} =>
            \A f \in File : LateSign(f, lag.lateSync) => LateSign(f, lag.lateSync)'
      BY <3>1 DEF LateSign, Seen
    <3>3. react.pc = "reading" =>
            \A f \in File : LateSign(f, lag.lateReact) => LateSign(f, lag.lateReact)'
      BY <3>1 DEF LateSign, Seen
    <3>4. DOMAIN sync.read \subseteq File /\ DOMAIN react.read \subseteq File
      BY DEF Types, IndexTypes, Reads
    <3> QED
      BY <3>1, <3>2, <3>3, <3>4 DEF ReadsAreSigned, Batches
  <2>4. CarriedIsSigned'
    BY <1>3 DEF Publish, Note, WatchElse, indexVars, history, CarriedIsSigned,
       ReadsAreSigned, Sign, LateSign, Seen, IndexTypes, Types, Holders
  <2>5. IndexIsSigned'
    BY <1>3 DEF Publish, Note, WatchElse, indexVars, history, IndexIsSigned,
       CarriedIsSigned, ReadsAreSigned, Sessions, Sign, LateSign, Seen, Exact,
       IndexTypes, Types, Holders
  <2> QED
    BY <2>1, <2>2, <2>3, <2>4, <2>5 DEF SignInv
<1>4. CASE EventsMissed
  <2>1. IndexTypes'
    BY <1>4 DEF EventsMissed, WatchElse, indexVars, history, IndexTypes, Types
  <2>2. Sessions'
    BY <1>4 DEF EventsMissed, WatchElse, indexVars, history, Sessions, IndexTypes,
       Types
  <2>3. ReadsAreSigned'
    BY <1>4 DEF EventsMissed, WatchElse, indexVars, history, ReadsAreSigned,
       LateSign, Seen, IndexTypes, Types, Holders
  <2>4. CarriedIsSigned'
    BY <1>4 DEF EventsMissed, WatchElse, indexVars, history, CarriedIsSigned,
       ReadsAreSigned, Sign, LateSign, Seen, IndexTypes, Types, Holders
  <2>5. IndexIsSigned'
    BY <1>4 DEF EventsMissed, WatchElse, indexVars, history, IndexIsSigned,
       CarriedIsSigned, ReadsAreSigned, Sessions, Sign, LateSign, Seen, Exact,
       IndexTypes, Types, Holders
  <2> QED
    BY <2>1, <2>2, <2>3, <2>4, <2>5 DEF SignInv
<1>5. CASE Restart
  <2>1. IndexTypes'
    BY <1>5 DEF Restart, Reconciled, Off, NoSync, NoReaction, NoLag, Idle, Text,
       indexVars, IndexTypes, Types
  <2>2. Sessions'
    BY <1>5 DEF Restart, Reconciled, Off, NoSync, NoReaction, NoLag, Idle, Text,
       indexVars, Sessions, IndexTypes, Types
  <2>3. ReadsAreSigned'
    BY <1>5 DEF Restart, Reconciled, Off, NoSync, NoReaction, NoLag, Idle, Text,
       indexVars, ReadsAreSigned, LateSign, Seen, IndexTypes, Types, Holders
  <2>4. CarriedIsSigned'
    BY <1>5 DEF Restart, Reconciled, Off, NoSync, NoReaction, NoLag, Idle, Text,
       indexVars, CarriedIsSigned, ReadsAreSigned, Sign, LateSign, Seen, IndexTypes,
       Types, Holders
  <2>5. IndexIsSigned'
    BY <1>5 DEF Restart, Reconciled, Off, NoSync, NoReaction, NoLag, Idle, Text,
       indexVars, IndexIsSigned, CarriedIsSigned, ReadsAreSigned, Sessions, Sign,
       LateSign, Seen, Exact, IndexTypes, Types, Holders
  <2> QED
    BY <2>1, <2>2, <2>3, <2>4, <2>5 DEF SignInv
<1>6. CASE UNCHANGED vars
  <2>1. IndexTypes'
    BY <1>6 DEF vars, history, indexVars, IndexTypes, Types
  <2>2. Sessions'
    BY <1>6 DEF vars, history, indexVars, Sessions, IndexTypes, Types
  <2>3. ReadsAreSigned'
    BY <1>6 DEF vars, history, indexVars, ReadsAreSigned, LateSign, Seen, IndexTypes,
       Types, Holders
  <2>4. CarriedIsSigned'
    BY <1>6 DEF vars, history, indexVars, CarriedIsSigned, ReadsAreSigned, Sign,
       LateSign, Seen, IndexTypes, Types, Holders
  <2>5. IndexIsSigned'
    BY <1>6 DEF vars, history, indexVars, IndexIsSigned, CarriedIsSigned,
       ReadsAreSigned, Sessions, Sign, LateSign, Seen, Exact, IndexTypes, Types,
       Holders
  <2> QED
    BY <2>1, <2>2, <2>3, <2>4, <2>5 DEF SignInv
<1> QED
  BY <1>1, <1>2, <1>3, <1>4, <1>5, <1>6, SyncSign, EditSign, ReactSign DEF Next, WatchNext

\* The index never differs from a file without a sign: what clears the lag of a
\* file has read it after the change was noted, or leaves the change to the watch;
\* the end of a session keeps only what a batch carried; and a session that is
\* not closed is said by incomplete.
THEOREM NeverSilentlyStaleHolds == Spec => []NeverSilentlyStale
<1>1. IInv /\ SignInv => NeverSilentlyStale
  BY DEF IInv, Types, SignInv, IndexTypes, IndexIsSigned, NeverSilentlyStale, Sign, Seen, TypeOK, SyncPc, EditPc
<1> QED
  BY InitIInv, NextIInv, InitSign, NextSign, <1>1, PTL DEF Spec
=============================================================================
