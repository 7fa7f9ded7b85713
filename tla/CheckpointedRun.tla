--------------------------- MODULE CheckpointedRun ---------------------------
(***************************************************************************)
(* One drain executed level by level under checkpoints, and its resumes    *)
(* (extension/rag3weaver/src/dataflow/runtime.rs, checkpoint_store.rs,     *)
(* catalog.rs drain and drain_resume).                                     *)
(*                                                                         *)
(* What survives a crash of the process: the row of the execution (exec),  *)
(* one row per node (row) and the files of the batches (files).  A batch   *)
(* is handed to a writing thread (spool) and its path is stored at once,   *)
(* so a row may name a file that is never written.  A path holds the       *)
(* process that wrote it (inc; the token of the Spiller) and a timestamp   *)
(* (att, the attempt).                                                     *)
(*                                                                         *)
(* Nodes are numbered in topological order and have one output each.  The  *)
(* value of a batch is left out, and so are undo contexts and the stop     *)
(* handle, which no drain attaches.                                        *)
(***************************************************************************)
EXTENDS Integers, Sequences, FiniteSets, SequencesExt

CONSTANTS
    Node,           \* 1..N, in the order of topological_sort
    Graphs,         \* records [ports, emits]: ports is a set of input ports
                    \* [node, from, required], emits the nodes that publish
    MaxCrashes,     \* bound: how often the process dies
    MaxFaults       \* bound: errors of a node, of the database, of a file

\* topological_sort has refused the cycles before a run starts, and validate
\* the edges to unknown ports.
ASSUME GraphAssumption ==
    \A g \in Graphs :
        /\ g.emits \subseteq Node
        /\ \A p \in g.ports :
              p.node \in Node /\ p.from # {} /\ \A m \in p.from : m \in Node /\ m < p.node

ASSUME BoundsAssumption ==
    IsFiniteSet(Node) /\ Node \subseteq Nat /\ MaxCrashes \in Nat /\ MaxFaults \in Nat

VARIABLES
    graph,      \* the graph of this drain, the same at every resume
    \* what survives a crash
    exec,       \* status of the _DataflowExecution row, or "none"
    row,        \* row[n]: the _DataflowNodeState row of node n
    files,      \* the files on disk
    \* the process
    inc, att, spool, fileErr,
    \* the attempt: the locals of execute_inner_with_checkpoint
    pc, keep, done, avail, data, left, running, result,
    restored,   \* the nodes the checkpoint gave it, done when it began
    \* counters and history
    crashes, faults,
    did,        \* nodes that executed to their end, in any attempt
    got,        \* got[n]: the producers whose value n was last started with
    cleaned,    \* files were removed for an end that was not recorded
    finisher    \* the process that recorded the end, or 0

durable == <<exec, row, files>>
process == <<inc, att, spool, fileErr>>
locals == <<keep, done, avail, data, left, running, result, restored>>
history == <<did, got, cleaned, finisher>>
vars == <<graph, exec, row, files, inc, att, spool, fileErr, pc, keep, done, avail,
          data, left, running, result, restored, crashes, faults, did, got, cleaned, finisher>>

NoFile == [of |-> "none", node |-> 0, inc |-> 0, att |-> 0]
File(of, n) == [of |-> of, node |-> n, inc |-> inc, att |-> att]
NoRow == [status |-> "absent", known |-> FALSE, file |-> NoFile]

-----------------------------------------------------------------------------
(* The graph                                                               *)

PortsOf(n) == {p \in graph.ports : p.node = n}
Producers(n) == UNION {p.from : p \in PortsOf(n)}
Consumers(n) == {m \in Node : n \in Producers(m)}
Sources == {n \in Node : PortsOf(n) = {}}

\* The nodes on a branch that is taken, in a run nothing interrupts: each of
\* their required ports is fed by a node that is taken and publishes.
FedBy(s) == {n \in Node : \A p \in PortsOf(n) :
                             p.required => p.from \intersect graph.emits \intersect s # {}}
Taken == {n \in Node : \A s \in SUBSET Node : FedBy(s) \subseteq s => n \in s}

\* The producers an uninterrupted run hands to n.
Due(n) == Producers(n) \intersect graph.emits \intersect Taken

-----------------------------------------------------------------------------
(* The writing thread and the errors                                       *)

Fault == faults < MaxFaults /\ faults' = faults + 1
NoFault == faults' = faults

\* The inputs of the sources, written under the first attempt of process 1.
Inputs == {[of |-> "in", node |-> n, inc |-> 1, att |-> 1] : n \in Sources}

\* A path whose file is absent or torn does not read back.
Readable(f) == f = NoFile \/ f \in files

\* Spiller::flush waits until the thread has nothing left.
Flushed == spool = <<>>

SpillWrite ==
    /\ spool # <<>>
    /\ spool' = Tail(spool)
    /\ \/ files' = files \union {Head(spool)} /\ NoFault /\ UNCHANGED fileErr
       \/ Fault /\ fileErr' = TRUE /\ UNCHANGED files
    /\ UNCHANGED <<graph, exec, row, inc, att, pc, crashes, locals, history>>

-----------------------------------------------------------------------------
(* A drain: create_execution                                               *)

\* Every consumer counts but those already done: they consume no more.
\* Mutant: the consumers already done still count.
RemainingAll(n, finished) == Cardinality(Consumers(n))
Remaining(n, finished) == Cardinality(Consumers(n) \ finished)

Enter(finished, published, keeps) ==
    /\ keep' = keeps
    /\ done' = finished
    /\ avail' = published
    /\ data' = published
    /\ left' = [n \in Node |-> Remaining(n, finished)]
    /\ running' = {}
    /\ result' = [n \in Node |-> "none"]
    /\ restored' = finished

Drain ==
    /\ pc = "idle" /\ exec = "none" /\ att = 0
    /\ \E keeps \in BOOLEAN : Enter({}, {}, keeps)
    /\ att' = 1
    /\ spool' \in SetToSeqs(Inputs)
    /\ pc' = "create"
    /\ UNCHANGED <<graph, durable, inc, fileErr, crashes, faults, history>>

\* The row of the execution, then one row per node in the order of a HashMap;
\* an error leaves what is there.
CreateRow ==
    /\ pc = "create"
    /\ \/ exec' = "running" /\ pc' = "rows" /\ NoFault
       \/ Fault /\ pc' = "idle" /\ UNCHANGED exec
    /\ UNCHANGED <<graph, row, files, process, crashes, locals, history>>

CreateNodeRow(n) ==
    /\ pc = "rows"
    /\ row[n] = NoRow
    /\ \/ /\ row' = [row EXCEPT ![n] = [NoRow EXCEPT !.status = "pending", !.known = TRUE]]
          /\ pc' = IF \E m \in Node \ {n} : row[m] = NoRow THEN "rows" ELSE "level"
          /\ NoFault
       \/ Fault /\ pc' = "idle" /\ UNCHANGED row
    /\ UNCHANGED <<graph, exec, files, process, crashes, locals, history>>

-----------------------------------------------------------------------------
(* A resume: load_execution, then the restored nodes                       *)

\* find_incomplete lists these; a completed execution is a no-op.
\* Mutant: only what is marked failed is resumed.
IsIncompleteFailed == exec = "failed"
IsIncomplete == exec \in {"running", "failed"}

\* A row that carries no execution_id is not found by load_execution.
Saved(n) == row[n].known /\ row[n].status = "completed"

\* A batch that does not read back is not a node done.
\* Mutant: a completed row is trusted although its file is missing.
RestoredUnread == {n \in Node : Saved(n)}
\* Mutant: a node that saved no output is executed again.
RestoredWithOutput == {n \in Node : Saved(n) /\ row[n].file \in files}
Restored == {n \in Node : Saved(n) /\ Readable(row[n].file)}

\* A resume is always Full, whatever the drain kept.  An input that does not
\* read back refuses the resume and changes nothing.
Resume ==
    /\ pc = "idle" /\ IsIncomplete
    /\ Flushed /\ ~fileErr
    /\ Inputs \subseteq files
    /\ Enter(Restored, {n \in Restored : row[n].file \in files}, TRUE)
    /\ att' = att + 1
    /\ pc' = "level"
    /\ UNCHANGED <<graph, durable, inc, spool, fileErr, crashes, faults, history>>

\* The flush of a load reports what the thread could not write, once.
ResumeRefused ==
    /\ pc = "idle" /\ IsIncomplete
    /\ Flushed /\ fileErr
    /\ fileErr' = FALSE
    /\ UNCHANGED <<graph, durable, inc, att, spool, pc, crashes, faults, locals, history>>

-----------------------------------------------------------------------------
(* One level                                                               *)

\* A node is skipped when every producer has finished or is skipped, and a
\* required port has no value (skip_reason, after the skips of s).
SkipReason(s) ==
    {n \in Node \ done :
        /\ Producers(n) \subseteq done \union s
        /\ \E p \in PortsOf(n) : p.required /\ p.from \intersect avail = {}}

\* skip_until_fixpoint.
Skipped == {n \in Node : \A s \in SUBSET Node : SkipReason(s) \subseteq s => n \in s}

\* Nodes whose every producer has finished; one with an empty required port
\* has been skipped.
ReadyAfter(finished) ==
    {n \in Node \ finished :
        \A p \in PortsOf(n) :
            p.from \subseteq finished /\ (p.required => p.from \intersect avail # {})}

\* The sequential hand-out of one level: an edge takes a value while the count
\* of its consumers is not used up, and the last one takes it away.
HandOut(skips, ready) ==
    LET taken(n) == Cardinality(Consumers(n) \intersect
                        (skips \union (IF n \in data THEN ready ELSE {})))
    IN  /\ left' = [n \in Node |-> left[n] - taken(n)]
        /\ data' = {n \in data : taken(n) = 0 \/ left[n] > taken(n)}

\* A level ends the run when everything is done, fails it when nothing is
\* ready, or starts every ready node on a thread of its own.
StartLevel ==
    LET skips == Skipped
        finished == done \union skips
        ready == ReadyAfter(finished)
    IN  /\ pc = "level"
        /\ done' = finished
        /\ HandOut(skips, ready)
        /\ running' = ready
        /\ got' = [n \in Node |-> IF n \in ready THEN Producers(n) \intersect data ELSE got[n]]
        /\ pc' = CASE ready # {} -> "run"
                   [] ready = {} /\ finished = Node -> "end"
                   [] OTHER -> "failed"
        /\ UNCHANGED <<graph, durable, process, keep, avail, result, restored, crashes,
                       faults, did, cleaned, finisher>>

RunNode(n) ==
    /\ pc = "run" /\ n \in running
    /\ running' = running \ {n}
    /\ \/ result' = [result EXCEPT ![n] = "ok"] /\ did' = did \union {n} /\ NoFault
       \/ Fault /\ result' = [result EXCEPT ![n] = "err"] /\ UNCHANGED did
    /\ pc' = IF running = {n} THEN "store" ELSE "run"
    /\ UNCHANGED <<graph, durable, process, keep, done, avail, data, left, restored,
                   crashes, got, cleaned, finisher>>

-----------------------------------------------------------------------------
(* Storing the results of a level, in order                                *)

ToStore == {n \in Node : result[n] # "none"}

\* An output nobody will consume is not checkpointed.
\* Mutant: a value with a single reader is not checkpointed.
OutputOfShared(n) == IF n \in graph.emits /\ left[n] > 1 THEN File("out", n) ELSE NoFile
OutputOf(n) == IF n \in graph.emits /\ left[n] > 0 THEN File("out", n) ELSE NoFile

\* save_node_completed merges the row and sets no execution_id: a row that was
\* never created is merged without one.
RowCompleted(n) == [row EXCEPT ![n] = [@ EXCEPT !.status = "completed", !.file = OutputOf(n)]]

StoreOk(n) ==
    /\ pc = "store" /\ n = Min(ToStore) /\ result[n] = "ok"
    /\ result' = [result EXCEPT ![n] = "none"]
    /\ spool' = IF keep /\ OutputOf(n) # NoFile THEN Append(spool, OutputOf(n)) ELSE spool
    /\ row' = IF keep THEN RowCompleted(n) ELSE row
    /\ done' = done \union {n}
    /\ avail' = IF n \in graph.emits THEN avail \union {n} ELSE avail
    /\ data' = IF n \in graph.emits THEN data \union {n} ELSE data
    /\ pc' = CASE ToStore # {n} -> "store"
               [] ToStore = {n} /\ done' = Node -> "end"
               [] OTHER -> "level"
    /\ UNCHANGED <<graph, exec, files, inc, att, fileErr, keep, left, running, restored,
                   crashes, faults, history>>

\* An output that somebody will consume does not serialise (kept or not), or the
\* database refuses the row or the update of the execution after it.
StoreRefused(n) ==
    /\ pc = "store" /\ n = Min(ToStore) /\ result[n] = "ok"
    /\ Fault
    /\ \/ OutputOf(n) # NoFile /\ UNCHANGED <<spool, row>>
       \/ /\ keep
          /\ spool' = IF OutputOf(n) # NoFile THEN Append(spool, OutputOf(n)) ELSE spool
          /\ row' \in {row, RowCompleted(n)}
    /\ pc' = "failed"
    /\ UNCHANGED <<graph, exec, files, inc, att, fileErr, locals, crashes, history>>

\* save_node_failed, whose own error is ignored; the results behind are dropped.
StoreErr(n) ==
    /\ pc = "store" /\ n = Min(ToStore) /\ result[n] = "err"
    /\ \/ row' = [row EXCEPT ![n] = [@ EXCEPT !.status = "failed"]] /\ NoFault
       \/ Fault /\ UNCHANGED row
    /\ pc' = "failed"
    /\ UNCHANGED <<graph, exec, files, process, locals, crashes, history>>

-----------------------------------------------------------------------------
(* mark_failed and mark_completed                                          *)

\* Nothing of mark_failed is reported; an unwritten file keeps the status.
MarkFailed ==
    /\ pc = "failed" /\ Flushed
    /\ fileErr' = FALSE
    /\ \/ exec' = (IF fileErr THEN exec ELSE "failed") /\ NoFault
       \/ ~fileErr /\ Fault /\ UNCHANGED exec
    /\ pc' = "idle"
    /\ UNCHANGED <<graph, row, files, inc, att, spool, crashes, locals, history>>

\* nettoyer_apres_fin removes the directory of this process.
Clean == {f \in files : f.inc # inc}

MarkFlush ==
    /\ pc = "end" /\ Flushed
    /\ fileErr' = FALSE
    /\ files' = IF fileErr THEN files ELSE Clean
    /\ cleaned' = (cleaned \/ ~fileErr)
    /\ pc' = IF fileErr THEN "idle" ELSE "status"
    /\ UNCHANGED <<graph, exec, row, inc, att, spool, crashes, faults, locals,
                   did, got, finisher>>

MarkStatus ==
    /\ pc = "status"
    /\ \/ exec' = "completed" /\ finisher' = inc /\ cleaned' = FALSE /\ pc' = "forget" /\ NoFault
       \/ Fault /\ pc' = "idle" /\ UNCHANGED <<exec, finisher, cleaned>>
    /\ UNCHANGED <<graph, row, files, process, crashes, locals, did, got>>

\* The rows without undo context go; a row without execution_id is not found.
MarkRows ==
    /\ pc = "forget"
    /\ \/ row' = [n \in Node |-> IF row[n].known THEN NoRow ELSE row[n]] /\ NoFault
       \/ Fault /\ UNCHANGED row
    /\ pc' = "idle"
    /\ UNCHANGED <<graph, exec, files, process, crashes, locals, history>>

-----------------------------------------------------------------------------
(* The process dies, and another one opens the base                        *)

\* The process only: the spooled files are written and never synced, and what the
\* thread wrote is kept by the system although the process is gone.
Crash ==
    /\ crashes < MaxCrashes /\ att > 0
    /\ crashes' = crashes + 1
    /\ inc' = inc + 1
    /\ spool' = <<>> /\ fileErr' = FALSE
    /\ Enter({}, {}, FALSE)
    /\ pc' = "idle"
    /\ UNCHANGED <<graph, durable, att, faults, history>>

-----------------------------------------------------------------------------

Init ==
    /\ graph \in Graphs
    /\ exec = "none" /\ row = [n \in Node |-> NoRow] /\ files = {}
    /\ inc = 1 /\ att = 0 /\ spool = <<>> /\ fileErr = FALSE
    /\ pc = "idle" /\ keep = FALSE /\ done = {} /\ avail = {} /\ data = {}
    /\ left = [n \in Node |-> Cardinality(Consumers(n))]
    /\ running = {} /\ result = [n \in Node |-> "none"] /\ restored = {}
    /\ crashes = 0 /\ faults = 0
    /\ did = {} /\ got = [n \in Node |-> {}] /\ cleaned = FALSE /\ finisher = 0

\* One thread carries the drain, whatever it is at.
Step ==
    \/ CreateRow \/ StartLevel \/ MarkFailed \/ MarkFlush \/ MarkStatus \/ MarkRows
    \/ \E n \in Node : \/ CreateNodeRow(n) \/ RunNode(n)
                       \/ StoreOk(n) \/ StoreRefused(n) \/ StoreErr(n)

Next == Drain \/ Resume \/ ResumeRefused \/ Step \/ SpillWrite \/ Crash

\* The threads run on, and whoever opens the base resumes what
\* check_pending_checkpoints lists.
Fairness == WF_vars(Step) /\ WF_vars(SpillWrite) /\ WF_vars(Resume \/ ResumeRefused)

Spec == Init /\ [][Next]_vars /\ Fairness

-----------------------------------------------------------------------------
(* Properties                                                              *)

\* The values of the state; remaining_consumers is a usize that is decremented.
TypeOK ==
    /\ exec \in {"none", "running", "failed", "completed"}
    /\ \A n \in Node : row[n].status \in {"absent", "pending", "completed", "failed"}
    /\ pc \in {"idle", "create", "rows", "level", "run", "store", "failed", "end",
               "status", "forget"}
    /\ \A n \in Node : left[n] \in 0..Cardinality(Consumers(n))
    /\ done \subseteq Node /\ data \subseteq avail /\ avail \subseteq graph.emits
    /\ running \subseteq Node \ done

\* "Un lot qui ne se relit pas n'est pas un noeud fait": an execution marked
\* completed has executed every node of the branches that are taken, in one
\* attempt or another.
CompletedMeansAllDone ==
    exec = "completed" => Taken \subseteq did

\* A value some node still waits for is in the store of ports, through every
\* skip, hand-out and restore.
InputStillThere ==
    pc \in {"level", "run", "store"} =>
        \A n \in avail :
            \A m \in Consumers(n) : m \notin done \union running \union ToStore => n \in data

\* At the end every published value has been counted once by each of its readers,
\* restored or not.  What the attempt returns is exactly what none of its own
\* nodes read: a value taken or skipped by one is gone ("libere, pas laisse dans la
\* sortie finale"), and one whose readers were all restored stays.
EveryReaderCounted ==
    pc = "end" =>
        \A n \in avail : left[n] = 0 /\ (n \in data <=> Consumers(n) \subseteq restored)

\* A node is started with the values an uninterrupted run hands it, whichever
\* producers were restored, replayed or skipped.  The one exception is a resume
\* after the files were removed for an end the database did not record.
LikeUninterrupted ==
    /\ \A n \in running : got[n] = Due(n)
    /\ pc = "level" => Skipped \intersect Taken = {}
StartedWithItsInputs == cleaned \/ LikeUninterrupted

\* The directory of the process that recorded the end holds nothing: no batch
\* is written after it was removed.
NothingWrittenAfterTheEnd == finisher # 0 => \A f \in files : f.inc # finisher

\* The recorded end of an execution is one: all is done, and no file will come.
CompletedIsTheEnd == CompletedMeansAllDone /\ NothingWrittenAfterTheEnd

\* No level finds nodes left and none ready: the "deadlock" error is never met.
SomeNodeIsReady ==
    pc = "level" => LET finished == done \union Skipped
                    IN  finished = Node \/ ReadyAfter(finished) # {}

\* The store of ports through skips, hand-outs and restores: no value is missing,
\* none outstays a reader of the attempt, and the level always has somewhere to go.
PortsAreSound == TypeOK /\ InputStillThere /\ EveryReaderCounted /\ SomeNodeIsReady

\* A node whose completed row and file read back is not executed again.
SavedIsNotReplayed ==
    [][\A n \in running' \ running : ~(Saved(n) /\ Readable(row[n].file))]_vars

\* A completed execution stays completed and executes nothing more.
CompletedIsFinal == [][exec = "completed" => exec' = "completed" /\ running' = running]_vars

\* What is done is not done again.
DoneIsNotRedone == SavedIsNotReplayed /\ CompletedIsFinal

\* An execution that is resumed as long as it is incomplete ends completed,
\* unless it left no row or its inputs cannot be read back.
ResumedUntilCompleted ==
    <>[](\/ exec = "completed"
         \/ exec = "none" /\ pc = "idle"
         \/ Flushed /\ ~(Inputs \subseteq files))
=============================================================================
