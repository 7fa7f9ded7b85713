------------------------------ MODULE CodeIndex ------------------------------
(***************************************************************************)
(* The index of a working tree follows its files: a whole indexing         *)
(* (code_sync.rs), the edit tool, the watch (watch.rs) and the reaction    *)
(* that reindexes what the watch saw (dataflow/reindex_nodes.rs) work on   *)
(* one catalog, behind one lock, while anybody writes the files.           *)
(*                                                                         *)
(* A file is its content, and a content stands for the scopes it defines.  *)
(* The index keeps a row per file, with the hash of the content written    *)
(* last, and the scopes; scopes of an older content stay until the end of  *)
(* a snapshot session takes them away.  The sessions on the files and on   *)
(* the scopes of the source open and close together: one session here.     *)
(***************************************************************************)
EXTENDS Naturals

CONSTANTS
    File, Content, Absent,
    Editor,         \* calls of the edit tool
    Nobody,         \* holds the catalog when it is free
    MaxWrites,      \* bound: writes of files
    MaxSyncs,       \* bound: whole indexings
    MaxFaults,      \* bound: errors, stops asked for and deaths of the process
    MaxStimuli      \* bound: all of these together

Text == Content \union {Absent}

ASSUME AbsentAssumption == Absent \notin Content
ASSUME HolderAssumption ==
    Nobody \notin {"sync", "reaction"} /\ {Nobody, "sync", "reaction"} \cap Editor = {}

VARIABLES
    disk,       \* the files
    row,        \* File.content_hash
    scopes,     \* the contents whose scopes are indexed
    session,    \* the snapshot session of the source
    catalog,    \* who holds Mutex<Catalog>
    registry,   \* EN_COURS: [on, lus, aReprendre]
    sync,       \* sync_source: [pc, retenus, faits, paquet, read, seen, paths]
    editor,     \* editor[e]: [pc, file, text]
    scanner,    \* the watch: [known, moving, moved, found]
    events,     \* FileChanged, not yet taken by the reaction
    react,      \* ReindexFileNode: [pc, todo, lot, read, deferred]
    lag,        \* Lag: [pending, lateSync, lateReact], noted since a reader's instant
    used,       \* bounds: [writes, syncs, faults]
    promised,   \* history: told that the indexing in progress takes it, not read since
    hidden,     \* history: taken back before the watch looked, or indexed too late
    incomplete  \* history: an indexing stopped halfway and none has ended since

indexVars == <<row, scopes, session>>
history == <<promised, hidden, incomplete>>
vars == <<disk, indexVars, catalog, registry, sync, editor, scanner, events, react, lag,
          used, history>>

Nothing == [f \in {} |-> Absent]
Off == [on |-> FALSE, lus |-> {}, aReprendre |-> {}]
NoSync == [pc |-> "off", retenus |-> {}, faits |-> {}, paquet |-> {}, read |-> Nothing,
           seen |-> {}, paths |-> {}]
NoReaction == [pc |-> "idle", todo |-> {}, lot |-> {}, read |-> Nothing, deferred |-> {}]
NoLag == [pending |-> {}, lateSync |-> {}, lateReact |-> {}]
Idle == [pc |-> "idle", file |-> Absent, text |-> Absent]

Present == {f \in File : disk[f] # Absent}
Scopes(c) == {c} \ {Absent}
Exact(f) == row[f] = disk[f] /\ scopes[f] = Scopes(disk[f])

\* A read of f from the disk, beside those already made.
With(got, f) == [g \in DOMAIN got \union {f} |-> IF g = f THEN disk[f] ELSE got[g]]

Within == used.writes + used.syncs + used.faults < MaxStimuli
Fault == Within /\ used.faults < MaxFaults /\ used' = [used EXCEPT !.faults = @ + 1]
Take(who) == catalog = Nobody /\ catalog' = who
Give == catalog' = Nobody

-----------------------------------------------------------------------------
(* The files                                                               *)

\* A write or a removal.  A directory's date moves with the files it gains or
\* loses.  A change that is taken back before the watch hashed it is a touch.
Put(f, c) ==
    /\ Within /\ used.writes < MaxWrites /\ used' = [used EXCEPT !.writes = @ + 1]
    /\ disk' = [disk EXCEPT ![f] = c]
    /\ scanner' = [scanner EXCEPT !.moved = @ \/ disk[f] = Absent \/ c = Absent]
    /\ hidden' = hidden \union {g \in {f} : c = scanner.known[f]}

\* Anybody else writes or removes a file: git, a build, another program.
OutsideChange(f, c) ==
    /\ c # disk[f] /\ Put(f, c)
    /\ UNCHANGED <<indexVars, catalog, registry, sync, editor, events, react, lag, promised, incomplete>>

-----------------------------------------------------------------------------
(* The index and the lag                                                   *)

\* reingest_file(s) and remove_file on what was read: a session on the grain of
\* each file takes its other scopes away.  It is refused while one is open on
\* the whole source; then what is there is written and nothing is taken away.
Deferred == session # "closed"
Reingest(got) ==
    /\ row' = [f \in File |-> IF f \notin DOMAIN got \/ (Deferred /\ got[f] = Absent)
                              THEN row[f] ELSE got[f]]
    /\ scopes' = [f \in File |-> IF f \notin DOMAIN got THEN scopes[f]
                                 ELSE Scopes(got[f]) \union IF Deferred THEN scopes[f] ELSE {}]

Hide(fs) == hidden' = {f \in hidden \union fs : row'[f] # disk[f] \/ scopes'[f] # Scopes(disk[f])}

\* ingest_code: the scopes of before stay until the end of the session.
Ingest(got) ==
    /\ row' = [f \in File |-> IF f \in DOMAIN got /\ got[f] # Absent THEN got[f] ELSE row[f]]
    /\ scopes' = [f \in File |-> scopes[f] \union UNION {Scopes(got[g]) : g \in DOMAIN got \cap {f}}]

\* Lag::note.  "After" is the order of the events; the code compares instants in
\* milliseconds, and a change noted in the very millisecond of the read's instant
\* counts as before it.
Note(fs) ==
    [pending |-> lag.pending \union fs,
     lateSync |-> IF sync.pc \in {"reading", "rewrite"} THEN lag.lateSync \union fs ELSE {},
     lateReact |-> IF react.pc = "reading" THEN lag.lateReact \union fs ELSE {}]

\* Lag::done: a change noted after the instant of the read keeps its lag.
\* Mutant: it is struck off with the others.
LateForgotten(fs, late) == lag.pending \ fs
StillLate(fs, late) == lag.pending \ (fs \ late)

\* note_change
NoteChange(f) ==
    registry' = [registry EXCEPT !.aReprendre = @ \union (registry.lus \cap {f})]

-----------------------------------------------------------------------------
(* A whole indexing: run_index holds the catalog during sync_source        *)

Sync(from, to) == sync.pc = from /\ sync' = [sync EXCEPT !.pc = to]
SyncElse == UNCHANGED <<disk, editor, scanner, events, react>>

\* The lock of the catalog, then Inscription::new.  Between the two, as between
\* the way out of the registry and the end of the lock, whoever finds the source
\* not being indexed has only to wait for the catalog: one step each.
SyncEnrol ==
    /\ Sync("off", "enrolled") /\ Take("sync")
    /\ Within /\ used.syncs < MaxSyncs /\ used' = [used EXCEPT !.syncs = @ + 1]
    /\ registry' = [Off EXCEPT !.on = TRUE]
    /\ SyncElse /\ UNCHANGED <<indexVars, lag, history>>

\* begin_snapshot takes a suspended session over and refuses beside an open
\* one; then the source is listed.
Begun == session # "open" /\ session' = "open"
SyncBegin ==
    /\ sync.pc = "enrolled" /\ Begun
    /\ sync' = [sync EXCEPT !.pc = "nodes", !.retenus = Present]
    /\ SyncElse /\ UNCHANGED <<row, scopes, catalog, registry, lag, used, history>>

\* marquer_lus comes before the first read of a batch, any of the files left.
\* Mutant: it is left to the end of the batch.
MarkedLater(b) == registry
Marked(b) == [registry EXCEPT !.lus = @ \union b]
SyncMark(b) ==
    /\ sync.pc = "nodes" /\ b # {}
    /\ sync' = [sync EXCEPT !.pc = "reading", !.paquet = b]
    /\ registry' = Marked(b)
    /\ SyncElse /\ UNCHANGED <<indexVars, catalog, lag, used, history>>

SyncRead(f) ==
    /\ sync.pc = "reading" /\ f \in sync.paquet \ DOMAIN sync.read
    /\ sync' = [sync EXCEPT !.read = With(@, f)]
    /\ promised' = promised \ {f}
    /\ SyncElse /\ UNCHANGED <<indexVars, catalog, registry, lag, used, hidden, incomplete>>

\* The batch is written and marked as carried; its lag falls.
SyncWrite ==
    /\ sync.pc = "reading" /\ sync.paquet = DOMAIN sync.read
    /\ Ingest(sync.read)
    /\ sync' = [sync EXCEPT !.pc = "nodes", !.faits = @ \union sync.paquet, !.paquet = {},
                            !.read = Nothing,
                            !.seen = @ \union {f \in sync.paquet : sync.read[f] # Absent}]
    /\ lag' = [lag EXCEPT !.pending = StillLate(sync.paquet, lag.lateSync), !.lateSync = {}]
    /\ SyncElse /\ UNCHANGED <<session, catalog, registry, used, history>>

\* The end of the session takes away what no batch carried.  An indexing that
\* carried nothing is refused.
SyncFinish ==
    /\ Sync("nodes", "resume") /\ sync.faits = sync.retenus /\ sync.seen # {}
    /\ row' = [f \in File |-> IF f \in sync.seen THEN row[f] ELSE Absent]
    /\ scopes' = [f \in File |-> IF f \in sync.seen THEN Scopes(row[f]) ELSE {}]
    /\ session' = "closed"
    /\ Hide({})
    /\ SyncElse /\ UNCHANGED <<catalog, registry, lag, used, promised, incomplete>>

\* reprendre_ou_sortir: the files to take up again, or the way out, under the
\* lock of the registry.
SyncResume ==
    /\ sync.pc = "resume" /\ registry.aReprendre # {}
    /\ sync' = [sync EXCEPT !.pc = "again", !.paths = registry.aReprendre]
    /\ registry' = [registry EXCEPT !.aReprendre = {}]
    /\ SyncElse /\ UNCHANGED <<indexVars, catalog, lag, used, history>>
SyncLeave ==
    /\ sync.pc = "resume" /\ registry.aReprendre = {}
    /\ sync' = NoSync /\ registry' = Off /\ Give
    /\ promised' = {} /\ incomplete' = FALSE
    /\ SyncElse /\ UNCHANGED <<indexVars, lag, used, hidden>>

SyncReread(f) ==
    /\ sync.pc = "again" /\ f \in sync.paths
    /\ sync' = [sync EXCEPT !.pc = "rewrite", !.paths = @ \ {f}, !.read = With(Nothing, f)]
    /\ promised' = promised \ {f}
    /\ SyncElse /\ UNCHANGED <<indexVars, catalog, registry, lag, used, hidden, incomplete>>
SyncRewrite ==
    /\ sync.pc = "rewrite"
    /\ Reingest(sync.read) /\ Hide({})
    /\ sync' = [sync EXCEPT !.pc = IF sync.paths = {} THEN "resume" ELSE "again", !.read = Nothing]
    /\ lag' = [lag EXCEPT !.pending = StillLate(DOMAIN sync.read, lag.lateSync), !.lateSync = {}]
    /\ SyncElse /\ UNCHANGED <<session, catalog, registry, used, promised, incomplete>>

\* An error anywhere: nothing is taken away, and the registry's queue is dropped.
\* Part of a batch may be written.  The sessions are given up, unless the error
\* comes between begin_snapshot and synchroniser: then they are left open.
SyncStops ==
    /\ sync' = NoSync /\ registry' = Off /\ Give
    /\ lag' = [lag EXCEPT !.lateSync = {}]
    /\ promised' = {} /\ incomplete' = TRUE
    /\ SyncElse /\ UNCHANGED hidden
Refused == (sync.pc = "enrolled" /\ session = "open")
             \/ (sync.pc = "nodes" /\ sync.faits = sync.retenus /\ sync.seen = {})
SyncFail(w) ==
    /\ sync.pc # "off"
    /\ IF Refused THEN UNCHANGED used ELSE Fault
    /\ Ingest([f \in w |-> sync.read[f]])
    /\ session' \in IF sync.pc = "enrolled" THEN {session, "open"} ELSE {"closed"}
    /\ SyncStops

\* A stop asked for between two batches: the sessions stay, suspended.
SyncSuspend ==
    /\ Fault
    /\ sync.pc = "nodes" /\ sync.faits \notin {{}, sync.retenus}
    /\ session' = "suspended"
    /\ SyncStops /\ UNCHANGED <<row, scopes>>

SyncNext ==
    \/ SyncEnrol \/ SyncBegin \/ SyncWrite \/ SyncFinish \/ SyncResume \/ SyncLeave
    \/ SyncRewrite \/ SyncSuspend
    \/ \E b \in SUBSET (sync.retenus \ sync.faits) : SyncMark(b)
    \/ \E f \in File : SyncRead(f) \/ SyncReread(f)
    \/ \E w \in SUBSET DOMAIN sync.read : SyncFail(w)

-----------------------------------------------------------------------------
(* The edit tool: edit_file_shared                                         *)

Edit(e, from, to) == editor[e].pc = from /\ editor' = [editor EXCEPT ![e].pc = to]
EditDone(e, from) == editor[e].pc = from /\ editor' = [editor EXCEPT ![e] = Idle]
EditElse == UNCHANGED <<sync, events, react, lag, incomplete>>

\* try_lock: a catalog held by an indexing of the source is not waited for, one
\* held by anything else is tried again.
EditCall(e, f, c) ==
    /\ editor[e].pc = "idle" /\ c # disk[f] /\ Within /\ used.writes < MaxWrites
    /\ \/ Take(e) /\ editor' = [editor EXCEPT ![e] = [pc |-> "write", file |-> f, text |-> c]]
       \/ /\ registry.on /\ UNCHANGED catalog
          /\ editor' = [editor EXCEPT ![e] = [pc |-> "writeOnly", file |-> f, text |-> c]]
    /\ EditElse /\ UNCHANGED <<disk, indexVars, registry, scanner, used, promised, hidden>>

\* write_edit
EditWrite(e) ==
    /\ Edit(e, "write", "ingest") \/ Edit(e, "writeOnly", "note")
    /\ Put(editor[e].file, editor[e].text)
    /\ EditElse /\ UNCHANGED <<indexVars, catalog, registry, promised>>

\* note_change, after the write: the indexing in progress takes it, or none is
\* in progress any more.
EditNote(e) ==
    /\ EditDone(e, "note") /\ registry.on
    /\ NoteChange(editor[e].file)
    /\ promised' = promised \union {editor[e].file}
    /\ EditElse /\ UNCHANGED <<disk, indexVars, catalog, scanner, used, hidden>>
EditMissed(e) ==
    /\ Edit(e, "note", "wait") /\ ~registry.on
    /\ EditElse /\ UNCHANGED <<disk, indexVars, catalog, registry, scanner, used, promised, hidden>>
EditWait(e) ==
    /\ Edit(e, "wait", "ingest") /\ Take(e)
    /\ EditElse /\ UNCHANGED <<disk, indexVars, registry, scanner, used, promised, hidden>>

\* reingest_file of the text that was written, whatever the file holds now.
Overtaken(e) == {f \in {editor[e].file} : disk[f] # editor[e].text}
EditIngest(e) ==
    /\ EditDone(e, "ingest") /\ Give
    /\ Reingest([f \in {editor[e].file} |-> editor[e].text]) /\ Hide(Overtaken(e))
    /\ EditElse /\ UNCHANGED <<disk, session, registry, scanner, used, promised>>

\* It fails: before or after the scopes of before were taken away, then after the
\* row was written, then after the scopes were.  A session it leaves on the grain
\* of the file refuses the whole indexings until the file is indexed again: an
\* error of SyncFail like any other.
EditNotIngested(e) ==
    LET f == editor[e].file
        c == editor[e].text
        kept == IF Deferred THEN scopes[f] ELSE scopes[f] \cap {c}
    IN
    /\ Fault
    /\ EditDone(e, "ingest") /\ Give
    /\ \/ row' = row /\ \E k \in {scopes[f], kept} : scopes' = [scopes EXCEPT ![f] = k]
       \/ /\ row' = [row EXCEPT ![f] = c]
          /\ \E k \in {kept, kept \union Scopes(c)} : scopes' = [scopes EXCEPT ![f] = k]
    /\ Hide(Overtaken(e))
    /\ EditElse /\ UNCHANGED <<disk, session, registry, scanner, promised>>

EditNext(e) ==
    \/ \E f \in File, c \in Content : EditCall(e, f, c)
    \/ EditWrite(e) \/ EditNote(e) \/ EditMissed(e) \/ EditWait(e)
    \/ EditIngest(e) \/ EditNotIngested(e)

-----------------------------------------------------------------------------
(* The watch                                                               *)

Known == {f \in File : scanner.known[f] # Absent}
WatchElse == UNCHANGED <<disk, indexVars, catalog, registry, sync, editor, react, history>>

\* scan: the source is listed when a directory moved, and from time to time.
\* A listing without a file says nothing.  A known file that is gone is said at
\* once; a changed or new one, once it has settled (s) and if its hash differs.
Scan(relist, s) ==
    LET listed == Present
        candidates == IF relist THEN listed ELSE Known \union scanner.moving
        gone == Known \ Present
        changed == {f \in candidates \cap Present : scanner.known[f] # disk[f]}
    IN  /\ scanner.found = {}
        /\ scanner.moved => relist
        /\ s \subseteq changed
        /\ IF relist /\ listed = {} /\ Known # {}
           THEN s = {} /\ scanner' = [scanner EXCEPT !.moved = FALSE]
           ELSE scanner' = [known |-> [f \in File |-> IF f \in gone \union s THEN disk[f]
                                                      ELSE scanner.known[f]],
                            moving |-> changed \ s,
                            moved |-> FALSE,
                            found |-> gone \union s]
        /\ WatchElse /\ UNCHANGED <<events, lag, used>>

\* What the scan found, or the reconciliation: the lag first, then the event.
Publish ==
    /\ scanner.found # {}
    /\ lag' = Note(scanner.found)
    /\ events' = events \union scanner.found
    /\ scanner' = [scanner EXCEPT !.found = {}]
    /\ WatchElse /\ UNCHANGED used

\* The bus overflows before the reaction reads it.
EventsMissed ==
    /\ Fault /\ events # {}
    /\ events' = {}
    /\ WatchElse /\ UNCHANGED <<scanner, lag>>

WatchNext ==
    \/ \E relist \in BOOLEAN, s \in SUBSET File : Scan(relist, s)
    \/ Publish \/ EventsMissed

-----------------------------------------------------------------------------
(* The reaction: ReindexFileNode                                           *)

React(from, to) == react.pc = from /\ react' = [react EXCEPT !.pc = to]
ReactElse == UNCHANGED <<disk, session, sync, editor, scanner, promised, incomplete>>

\* A run of the reaction waits for the catalog, gives it back at once, and asks
\* indexing_in_progress.
ReactStart ==
    /\ react.pc = "idle" /\ events # {} /\ catalog = Nobody
    /\ react' = [NoReaction EXCEPT !.pc = "see", !.todo = events]
    /\ events' = {}
    /\ ReactElse /\ UNCHANGED <<row, scopes, catalog, registry, lag, used, hidden>>
ReactSee ==
    /\ react.pc = "see"
    /\ react' = [react EXCEPT !.pc = IF registry.on THEN "defer" ELSE "lots"]
    /\ ReactElse /\ UNCHANGED <<row, scopes, catalog, registry, events, lag, used, hidden>>

\* An indexing in progress takes the files; their lag stays.
ReactDefer(f) ==
    /\ react.pc = "defer" /\ f \in react.todo
    /\ react' = IF react.todo = {f} THEN NoReaction ELSE [react EXCEPT !.todo = @ \ {f}]
    /\ NoteChange(f)
    /\ ReactElse /\ UNCHANGED <<row, scopes, catalog, events, lag, used, hidden>>

ReactTake(l) ==
    /\ react.pc = "lots" /\ l # {} /\ Take("reaction")
    /\ react' = [react EXCEPT !.pc = "reading", !.lot = l, !.todo = @ \ l]
    /\ ReactElse /\ UNCHANGED <<row, scopes, registry, events, lag, used, hidden>>
ReactRead(f) ==
    /\ react.pc = "reading" /\ f \in react.lot \ DOMAIN react.read
    /\ react' = [react EXCEPT !.read = With(@, f)]
    /\ ReactElse /\ UNCHANGED <<row, scopes, catalog, registry, events, lag, used, hidden>>

ReactGo(todo) == IF todo = {} THEN NoReaction ELSE [NoReaction EXCEPT !.pc = "lots", !.todo = todo]

\* reindexer_en_lot, in a transaction.  A lot that fails is done again file by
\* file, of which those in ok succeed; a removal is then never "deferred".
ReactWrite(ok) ==
    LET later == {f \in ok : Deferred /\ (ok = react.lot \/ react.read[f] # Absent)}
    IN  /\ react.pc = "reading" /\ react.lot = DOMAIN react.read
        /\ IF ok = react.lot THEN UNCHANGED used ELSE Fault
        /\ Give
        /\ Reingest([f \in ok |-> react.read[f]]) /\ Hide({})
        /\ lag' = [lag EXCEPT !.pending = StillLate(ok \ later, lag.lateReact), !.lateReact = {}]
        /\ react' = IF later = {} THEN ReactGo(react.todo)
                    ELSE [NoReaction EXCEPT !.pc = "say", !.todo = react.todo, !.deferred = later]
        /\ ReactElse /\ UNCHANGED <<registry, events>>

\* The deferred files are left to an indexing that may have begun meanwhile.
ReactSay ==
    /\ react.pc = "say"
    /\ registry' = [registry EXCEPT !.aReprendre = @ \union (registry.lus \cap react.deferred)]
    /\ react' = ReactGo(react.todo)
    /\ ReactElse /\ UNCHANGED <<row, scopes, catalog, events, lag, used, hidden>>

ReactNext ==
    \/ ReactStart \/ ReactSee \/ ReactSay
    \/ \E f \in File : ReactDefer(f) \/ ReactRead(f)
    \/ \E l \in SUBSET react.todo : ReactTake(l)
    \/ \E ok \in SUBSET react.lot : ReactWrite(ok)

-----------------------------------------------------------------------------
(* The process dies and comes back: mount_watches takes the picture of the *)
(* disk and reconciles it with the rows, unless the index has none.  What  *)
(* the reconciliation found is said at the first turn of the watch: here   *)
(* before its scan, there together with what the scan finds.               *)

Reconciled == {f \in File : row[f] # disk[f] /\ \E g \in File : row[g] # Absent}
Restart ==
    /\ Fault
    /\ catalog' = Nobody /\ registry' = Off /\ sync' = NoSync
    /\ editor' = [e \in Editor |-> Idle]
    /\ react' = NoReaction /\ events' = {} /\ lag' = NoLag
    /\ scanner' = [known |-> disk, moving |-> {}, moved |-> FALSE,
                   found |-> Reconciled]
    /\ promised' = {} /\ hidden' = {f \in File : row[f] = disk[f] /\ ~Exact(f)}
    /\ incomplete' = (incomplete \/ sync.pc \in {"nodes", "reading"} \/ \A f \in File : row[f] = Absent)
    /\ UNCHANGED <<disk, indexVars>>

\* A tree that was indexed whole, or never, and a watch that has just started.
Init ==
    /\ disk \in [File -> Text]
    /\ row \in {disk, [f \in File |-> Absent]}
    /\ scopes = [f \in File |-> Scopes(row[f])]
    /\ session = "closed" /\ catalog = Nobody
    /\ registry = Off /\ sync = NoSync
    /\ editor = [e \in Editor |-> Idle]
    /\ scanner = [known |-> disk, moving |-> {}, moved |-> FALSE, found |-> {}]
    /\ events = {} /\ react = NoReaction /\ lag = NoLag
    /\ used = [writes |-> 0, syncs |-> 0, faults |-> 0]
    /\ promised = {} /\ hidden = {}
    /\ incomplete = (row # disk)

Next ==
    \/ \E f \in File, c \in Text : OutsideChange(f, c)
    \/ SyncNext
    \/ \E e \in Editor : EditNext(e)
    \/ WatchNext
    \/ ReactNext
    \/ Restart

Spec == Init /\ [][Next]_vars

-----------------------------------------------------------------------------
(* Properties                                                              *)

Reads == UNION {[fs -> Text] : fs \in SUBSET File}
TypeOK ==
    /\ disk \in [File -> Text] /\ row \in [File -> Text]
    /\ scopes \in [File -> SUBSET Content]
    /\ session \in {"closed", "open", "suspended"}
    /\ catalog \in {Nobody, "sync", "reaction"} \union Editor
    /\ registry \in [on : BOOLEAN, lus : SUBSET File, aReprendre : SUBSET File]
    /\ sync \in [pc : {"off", "enrolled", "nodes", "reading", "resume", "again", "rewrite"},
                 retenus : SUBSET File, faits : SUBSET File, paquet : SUBSET File, read : Reads,
                 seen : SUBSET File, paths : SUBSET File]
    /\ editor \in [Editor -> [pc : {"idle", "write", "writeOnly", "note", "wait", "ingest"},
                              file : File \union {Absent}, text : Text]]
    /\ scanner \in [known : [File -> Text], moving : SUBSET File, moved : BOOLEAN, found : SUBSET File]
    /\ react \in [pc : {"idle", "see", "defer", "lots", "reading", "say"},
                  todo : SUBSET File, lot : SUBSET File, read : Reads, deferred : SUBSET File]
    /\ lag \in [pending : SUBSET File, lateSync : SUBSET File, lateReact : SUBSET File]
    /\ events \in SUBSET File /\ promised \in SUBSET File /\ hidden \in SUBSET File

\* Told "the indexing in progress will read it when it reaches it" or "the index
\* will pick it up at the end" (code_tools.rs), an edit is taken: until the file
\* is read after the write, it waits for its batch, in the queue of the registry
\* or in the hands of the resumption.  Only a file that the indexing had not
\* listed waits for nothing.
Owed == (sync.retenus \ (sync.faits \union sync.paquet)) \union (sync.paquet \ DOMAIN sync.read)
           \union registry.aReprendre \union sync.paths
PromisesAreOwed ==
    /\ promised # {} => registry.on /\ catalog = "sync"
    /\ sync.pc # "enrolled" => \A f \in promised : f \in Owed \/ f \notin sync.retenus

\* The index never differs from a file without a sign: the file's lag, a change
\* the watch is about to say or to see, an indexing whose session is not closed
\* yet, or one that stopped halfway.  Three cases escape (hidden): a change taken
\* back before the watch hashed it, an edit whose text is indexed after a later
\* one's, and scopes that are lost or left while the row agrees, at a restart.
NeverSilentlyStale ==
    /\ TypeOK
    /\ \A f \in File :
          \/ Exact(f)
          \/ f \in lag.pending \union scanner.found \/ disk[f] # scanner.known[f]
          \/ sync.pc \in {"enrolled", "nodes", "reading"} \/ incomplete
          \/ f \in hidden
==============================================================================
