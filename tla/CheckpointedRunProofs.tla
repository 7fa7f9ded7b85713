----------------------- MODULE CheckpointedRunProofs -----------------------
(***************************************************************************)
(* What CheckpointedRun promises, proved for every finite graph of nodes,  *)
(* every number of crashes and every number of failed writes: the end that *)
(* is recorded is one, the store of ports is sound, nodes are started with *)
(* the values of an uninterrupted run, and what is done is not redone.     *)
(*                                                                         *)
(* The argument is one inductive invariant, IInv.  Its heart is ValueInv:  *)
(* for every node that is done, either all its readers have started or its *)
(* value is published; and a node saved without its value (an output that  *)
(* nobody will consume is not checkpointed) is read by nodes that all read *)
(* back, so that no resume has to hand it out again.                       *)
(***************************************************************************)
EXTENDS CheckpointedRun, TLAPS, FiniteSetTheorems, WellFoundedInduction

(* The nodes that are done, at work or whose result is to be stored. *)
Started == done \union running \union ToStore

(* The paths of batches. *)
Files == [of : {"in", "out"}, node : Node, inc : Nat, att : Nat]

(* The types of the state, the ones TypeOK leaves out too. *)
Types ==
    /\ graph \in Graphs
    /\ pc \in {"idle", "create", "rows", "level", "run", "store", "failed", "end",
               "status", "forget"}
    /\ exec \in {"none", "running", "failed", "completed"}
    /\ keep \in BOOLEAN /\ fileErr \in BOOLEAN /\ cleaned \in BOOLEAN
    /\ row \in [Node -> [status : {"absent", "pending", "completed", "failed"},
                         known : BOOLEAN, file : Files \union {NoFile}]]
    /\ files \subseteq Files /\ spool \in Seq(Files)
    /\ inc \in Nat \ {0} /\ att \in Nat
    /\ done \subseteq Node /\ avail \subseteq Node /\ running \subseteq Node
    /\ left \in [Node -> Nat] /\ got \in [Node -> SUBSET Node]
    /\ result \in [Node -> {"none", "ok", "err"}]

(* What each place of the drain says of the rows, the status and the nodes *)
(* at work.                                                                *)
Position ==
    /\ pc # "run" => running = {}
    /\ pc \in {"create", "rows", "level"} => ToStore = {}
    /\ pc \in {"end", "status", "forget"} => done = Node
    /\ exec = "none" => pc \in {"idle", "create"} /\ row = [n \in Node |-> NoRow]
    /\ pc = "create" => exec = "none"
    /\ pc = "forget" => exec = "completed"
    /\ pc = "rows" => \A n \in Node : row[n].status # "completed"
    /\ exec = "completed" => pc \in {"idle", "forget"}

(* A node is done, at work or to be stored, and only one of them; unless   *)
(* it was restored, it was started or skipped when its producers were done; *)
(* what is published is the value of a node that is done.                  *)
Order ==
    /\ running \intersect done = {} /\ ToStore \intersect (done \union running) = {}
    /\ \A n \in running \union ToStore : Producers(n) \subseteq done
    /\ avail \subseteq done \intersect graph.emits /\ data \subseteq avail
    /\ restored \subseteq done /\ \A n \in done \ restored : Producers(n) \subseteq done

(* remaining_consumers counts the readers that have not started.  Of a     *)
(* node that was restored without its value it may count more.             *)
LeftInv ==
    \A n \in Node :
        /\ left[n] <= Cardinality(Consumers(n))
        /\ left[n] >= Cardinality(Consumers(n) \ Started)
        /\ n \in avail \/ n \notin done => left[n] = Cardinality(Consumers(n) \ Started)

(* A published value stays in the store until its last reader starts, and   *)
(* for good when its readers were all restored.                            *)
InputInv ==
    \A n \in avail :
        n \in data <=> Consumers(n) \subseteq restored \/ ~(Consumers(n) \subseteq Started)

(* A completed row whose value, if it names one, is on the disk. *)
Restorable(n) == Saved(n) /\ Readable(row[n].file)

(* A row names a batch of its own node, and completed is written for a     *)
(* node that was executed.                                                 *)
RowInv ==
    /\ \A n \in Node :
        /\ row[n].file # NoFile => row[n].file.node = n /\ n \in graph.emits
        /\ row[n].status = "completed" => n \in did

(* A node whose row reads back, or will once the spool is written, is done *)
(* in the attempt at work.                                                 *)
ReadBack(n) == Saved(n) /\ row[n].file \in {NoFile} \union files \union Range(spool)
SavedInv ==
    pc \in {"level", "run", "store"} => \A n \in Node : ReadBack(n) => n \in done

(* What is done and on a branch that is taken was executed, and the files  *)
(* are removed after all of it was.                                        *)
DidInv ==
    /\ \A n \in Node : result[n] = "ok" => n \in did
    /\ done \intersect Taken \subseteq did
    /\ cleaned \/ exec = "completed" => Taken \subseteq did

(* Between the removal of the files and the end nothing is left to write,  *)
(* and an execution that is not completed has no finisher.                 *)
EndInv ==
    /\ pc = "status" => spool = <<>> /\ \A f \in files : f.inc # inc
    /\ exec = "completed" => spool = <<>> /\ \A f \in files : f.inc # finisher
    /\ exec # "completed" => finisher = 0

(* The values are those of an uninterrupted run: what is at work, stored   *)
(* or published is on a branch that is taken; a value is there for every   *)
(* reader that has not started; the nodes at work got what is due to them; *)
(* a node was done before its producers only by a row that reads back; and *)
(* a node saved without its value is read by nodes that read back.         *)
ValueInv ==
    ~cleaned /\ exec # "completed" =>
        /\ running \union ToStore \union avail \subseteq Taken
        /\ \A n \in Node : row[n].status = "completed" => n \in Taken
        /\ \A n \in done \intersect graph.emits \intersect Taken :
               Consumers(n) \subseteq Started \/ n \in avail
        /\ \A n \in running : got[n] = Due(n)
        /\ \A n \in done : Producers(n) \subseteq done \/ Restorable(n)
        /\ \A n \in graph.emits : Saved(n) /\ row[n].file = NoFile =>
               \A m \in Consumers(n) : Restorable(m)

(* The inductive invariant. *)
IInv ==
    /\ Types /\ Position /\ Order /\ LeftInv /\ InputInv
    /\ RowInv /\ SavedInv /\ DidInv /\ EndInv /\ ValueInv
-----------------------------------------------------------------------------
(* The graph                                                               *)

(* A set of numbers that is not empty has a smallest member. *)
LEMMA SmallestNode ==
    ASSUME NEW S \in SUBSET Node, S # {}
    PROVE  \E x \in S : \A y \in S : x <= y
<1>1. S \in SUBSET Nat
  BY BoundsAssumption
<1>2. PICK x \in S : \A y \in S : ~(<<y, x>> \in OpToRel(<, Nat))
  BY <1>1, WFMin, NatLessThanWellFounded
<1>3. ASSUME NEW y \in S PROVE x <= y
  <2>1. <<y, x>> \in Nat \X Nat /\ <<y, x>>[1] = y /\ <<y, x>>[2] = x
    BY <1>1
  <2>2. ~(y < x)
    BY <1>2, <2>1, Zenon DEF OpToRel
  <2> QED
    BY <1>1, <2>2
<1> QED
  BY <1>3

(* Edges go from smaller to greater numbers. *)
LEMMA GraphFacts ==
    ASSUME graph \in Graphs
    PROVE  /\ graph.emits \subseteq Node
           /\ \A n \in Node : Producers(n) \subseteq Node /\ \A m \in Producers(n) : m < n
           /\ \A n \in Node : \A p \in PortsOf(n) : p.from \subseteq Producers(n)
           /\ \A n, m \in Node : m \in Consumers(n) <=> n \in Producers(m)
           /\ \A n \in Node : Consumers(n) \subseteq Node
  BY GraphAssumption DEF Producers, PortsOf, Consumers

(* The graph of a drain never changes. *)
LEMMA SameGraph ==
    ASSUME graph' = graph
    PROVE  /\ Taken' = Taken /\ Sources' = Sources
           /\ \A n \in Node : /\ PortsOf(n)' = PortsOf(n) /\ Producers(n)' = Producers(n)
                              /\ Consumers(n)' = Consumers(n) /\ Due(n)' = Due(n)
<1>1. \A n : PortsOf(n)' = PortsOf(n)
  BY DEF PortsOf
<1>2. \A n : Producers(n)' = Producers(n)
  BY <1>1 DEF Producers
<1>3. \A s : FedBy(s)' = FedBy(s)
  BY <1>1 DEF FedBy
<1>4. Taken' = Taken
  BY <1>3 DEF Taken
<1> QED
  BY <1>1, <1>2, <1>4 DEF Sources, Consumers, Due

(* The nodes that are taken are those that taken nodes feed. *)
LEMMA TakenIsFed == Taken = FedBy(Taken)
<1>1. \A s, t \in SUBSET Node : s \subseteq t => FedBy(s) \subseteq FedBy(t)
  BY DEF FedBy
<1>2. Taken \in SUBSET Node /\ FedBy(Taken) \in SUBSET Node
  BY DEF Taken, FedBy
<1>3. FedBy(Taken) \subseteq Taken
  <2> SUFFICES ASSUME NEW s \in SUBSET Node, FedBy(s) \subseteq s PROVE FedBy(Taken) \subseteq s
    BY <1>2 DEF Taken
  <2>1. Taken \subseteq s
    BY DEF Taken
  <2> QED
    BY <1>1, <1>2, <2>1
<1>4. FedBy(FedBy(Taken)) \subseteq FedBy(Taken)
  BY <1>1, <1>2, <1>3
<1>5. Taken \subseteq FedBy(Taken)
  BY <1>2, <1>4 DEF Taken
<1> QED
  BY <1>3, <1>5

(* skip_until_fixpoint ends at a fixpoint. *)
LEMMA SkippedIsFixpoint == Skipped = SkipReason(Skipped)
<1>1. \A s, t \in SUBSET Node : s \subseteq t => SkipReason(s) \subseteq SkipReason(t)
  BY DEF SkipReason
<1>2. Skipped \in SUBSET Node /\ SkipReason(Skipped) \in SUBSET Node
  BY DEF Skipped, SkipReason
<1>3. SkipReason(Skipped) \subseteq Skipped
  <2> SUFFICES ASSUME NEW s \in SUBSET Node, SkipReason(s) \subseteq s
               PROVE  SkipReason(Skipped) \subseteq s
    BY <1>2 DEF Skipped
  <2>1. Skipped \subseteq s
    BY DEF Skipped
  <2> QED
    BY <1>1, <1>2, <2>1
<1>4. SkipReason(SkipReason(Skipped)) \subseteq SkipReason(Skipped)
  BY <1>1, <1>2, <1>3
<1>5. Skipped \subseteq SkipReason(Skipped)
  BY <1>2, <1>4 DEF Skipped
<1> QED
  BY <1>3, <1>5

(* Nothing skipped is taken: the values of taken producers are there. *)
LEMMA SkippedIsNotTaken ==
    ASSUME IInv, pc = "level", ~cleaned, exec # "completed"
    PROVE  Skipped \intersect Taken = {}
<1> SUFFICES ASSUME Skipped \intersect Taken # {} PROVE FALSE
  OBVIOUS
<1>1. Skipped \subseteq Node
  BY DEF Skipped
<1>2. PICK n \in Skipped \intersect Taken : \A m \in Skipped \intersect Taken : n <= m
  BY <1>1, SmallestNode
<1>3. /\ n \in Node \ done /\ Producers(n) \subseteq done \union Skipped
      /\ \E p \in PortsOf(n) : p.required /\ p.from \intersect avail = {}
  BY <1>2, SkippedIsFixpoint DEF SkipReason
<1>4. PICK p \in PortsOf(n) : p.required /\ p.from \intersect avail = {}
  BY <1>3
<1>5. PICK m \in p.from : m \in graph.emits /\ m \in Taken
  BY <1>2, <1>4, TakenIsFed DEF FedBy
<1>6. m \in Producers(n) /\ m \in Node /\ m < n /\ n \in Consumers(m)
  BY <1>3, <1>4, <1>5, GraphFacts DEF IInv, Types
<1>7. m \notin Skipped
  BY <1>1, <1>2, <1>3, <1>5, <1>6, BoundsAssumption
<1>8. n \notin Started
  BY <1>3 DEF IInv, Position, Started
<1> QED
  BY <1>3, <1>4, <1>5, <1>6, <1>7, <1>8 DEF IInv, ValueInv
-----------------------------------------------------------------------------
(* Readers, files and sequences                                            *)

(* The readers left once some more have started. *)
LEMMA ReadersLeft ==
    ASSUME NEW n \in Node, NEW D, NEW X, X \intersect D = {}
    PROVE  /\ IsFiniteSet(Consumers(n)) /\ Cardinality(Consumers(n) \ D) \in Nat
           /\ Cardinality(Consumers(n) \intersect X) \in Nat
           /\ Cardinality(Consumers(n) \ (D \union X))
                = Cardinality(Consumers(n) \ D) - Cardinality(Consumers(n) \intersect X)
           /\ Cardinality(Consumers(n) \ D) <= Cardinality(Consumers(n))
           /\ Cardinality(Consumers(n) \ (D \union X)) \in Nat
<1> DEFINE C == Consumers(n)
<1>1. IsFiniteSet(C)
  BY BoundsAssumption, FS_Subset DEF Consumers
<1>2. IsFiniteSet(C \ D) /\ Cardinality(C \ D) <= Cardinality(C)
  BY <1>1, FS_Subset
<1>3. IsFiniteSet(C \intersect X)
  BY <1>1, FS_Subset
<1>4. (C \ D) \ X = C \ (D \union X) /\ (C \ D) \intersect X = C \intersect X
  OBVIOUS
<1>5. /\ Cardinality((C \ D) \ X) = Cardinality(C \ D) - Cardinality((C \ D) \intersect X)
      /\ IsFiniteSet((C \ D) \ X)
  BY <1>2, FS_Difference
<1>6. Cardinality((C \ D) \ X) \in Nat
  BY <1>5, FS_CardinalityType
<1> QED
  BY <1>1, <1>2, <1>3, <1>4, <1>5, <1>6, FS_CardinalityType

(* A value is used up by its last reader, and not before. *)
LEMMA NoneLeft ==
    ASSUME NEW n \in Node, NEW D
    PROVE  Cardinality(Consumers(n) \ D) = 0 <=> Consumers(n) \subseteq D
<1>1. IsFiniteSet(Consumers(n) \ D)
  BY BoundsAssumption, FS_Subset DEF Consumers
<1> QED
  BY <1>1, FS_EmptySet

(* The batch that the writing thread takes, and those behind it.           *)
LEMMA SpoolHead ==
    ASSUME NEW S, NEW s \in Seq(S), s # <<>>
    PROVE  Head(s) \in S /\ Tail(s) \in Seq(S) /\ Range(s) = {Head(s)} \union Range(Tail(s))
<1>1. Head(s) \in S /\ Tail(s) \in Seq(S) /\ Len(s) \in Nat \ {0} /\ Len(Tail(s)) = Len(s) - 1
  OBVIOUS
<1>2. \A i \in 1 .. Len(s) - 1 : Tail(s)[i] = s[i + 1]
  OBVIOUS
<1>3. Head(s) = s[1]
  OBVIOUS
<1>4. DOMAIN s = 1 .. Len(s) /\ DOMAIN Tail(s) = 1 .. Len(s) - 1
  BY <1>1
<1>5. Range(Tail(s)) \subseteq Range(s) /\ Head(s) \in Range(s)
  BY <1>1, <1>2, <1>3, <1>4 DEF Range
<1>6. ASSUME NEW i \in 1 .. Len(s), i # 1 PROVE s[i] \in Range(Tail(s))
  <2>1. i - 1 \in 1 .. Len(s) - 1 /\ (i - 1) + 1 = i
    BY <1>1, <1>6
  <2> QED
    BY <1>2, <1>4, <2>1 DEF Range
<1> QED
  BY <1>1, <1>3, <1>4, <1>5, <1>6 DEF Range

(* One batch more for the writing thread.                                  *)
LEMMA SpoolAppend ==
    ASSUME NEW S, NEW s \in Seq(S), NEW x \in S
    PROVE  Append(s, x) \in Seq(S) /\ Range(Append(s, x)) = Range(s) \union {x}
<1>1. /\ Append(s, x) \in Seq(S) /\ Len(Append(s, x)) = Len(s) + 1 /\ Len(s) \in Nat
      /\ Append(s, x)[Len(s) + 1] = x /\ \A i \in 1 .. Len(s) : Append(s, x)[i] = s[i]
  OBVIOUS
<1>2. DOMAIN s = 1 .. Len(s) /\ DOMAIN Append(s, x) = 1 .. Len(s) + 1
  BY <1>1
<1>3. 1 .. Len(s) + 1 = 1 .. Len(s) \union {Len(s) + 1}
  BY <1>1
<1> QED
  BY <1>1, <1>2, <1>3 DEF Range
-----------------------------------------------------------------------------
(* The steps                                                               *)

(* A step that leaves the locals of the attempt alone keeps what is said of *)
(* them.                                                                    *)
LEMMA LocalsKept ==
    ASSUME IInv, UNCHANGED <<graph, locals>>
    PROVE  (Order /\ LeftInv /\ InputInv)'
<1>1. Started' = Started /\ ToStore' = ToStore
  BY DEF locals, Started, ToStore
<1>2. /\ graph' = graph /\ done \subseteq Node /\ running \union ToStore \subseteq Node
      /\ avail \subseteq Node
      /\ UNCHANGED <<done, avail, data, left, running, restored>>
  BY DEF IInv, Types, ToStore, locals
<1>3. Order'
  BY <1>1, <1>2, SameGraph DEF IInv, Order
<1>4. LeftInv'
  BY <1>1, <1>2, SameGraph DEF IInv, LeftInv
<1>5. InputInv'
  BY <1>1, <1>2, SameGraph DEF IInv, InputInv
<1> QED
  BY <1>3, <1>4, <1>5

(* The values are still those of an uninterrupted run: rows and locals are *)
(* the same, and no file is gone.                                          *)
LEMMA ValuesKept ==
    ASSUME IInv, UNCHANGED <<graph, row, locals, got, cleaned>>, files \subseteq files',
           exec' # "completed" => exec # "completed"
    PROVE  ValueInv'
<1>1. Started' = Started /\ ToStore' = ToStore
  BY DEF locals, Started, ToStore
<1>2. /\ graph' = graph /\ done \subseteq Node /\ running \union ToStore \subseteq Node
      /\ avail \subseteq Node
      /\ graph.emits \subseteq Node /\ \A n \in Node : Consumers(n) \subseteq Node
      /\ UNCHANGED <<done, avail, data, left, running, row, got>>
  BY GraphFacts DEF IInv, Types, ToStore, locals
<1>3. \A n \in Node : Saved(n)' = Saved(n) /\ (Restorable(n) => Restorable(n)')
  BY <1>2 DEF Saved, Restorable, Readable
<1> SUFFICES ASSUME ~cleaned, exec # "completed" PROVE ValueInv'
  BY DEF ValueInv
<1>4. /\ (running \union ToStore \union avail \subseteq Taken)'
      /\ (\A n \in Node : row[n].status = "completed" => n \in Taken)'
  BY <1>1, <1>2, SameGraph DEF IInv, ValueInv
<1>5. \A n \in done \intersect graph.emits \intersect Taken :
        Consumers(n)' \subseteq Started' \/ n \in avail'
  BY <1>1, <1>2, SameGraph DEF IInv, ValueInv
<1>6. \A n \in running : got[n] = Due(n)'
  BY <1>2, SameGraph DEF IInv, ValueInv
<1>7. \A n \in graph.emits : Saved(n)' /\ row[n].file = NoFile =>
          \A m \in Consumers(n)' : Restorable(m)'
  BY <1>2, <1>3, SameGraph DEF IInv, ValueInv
<1>8. \A n \in done : Producers(n)' \subseteq done \/ Restorable(n)'
  BY <1>2, <1>3, SameGraph DEF IInv, ValueInv
<1> QED
  BY <1>2, <1>4, <1>5, <1>6, <1>7, <1>8, SameGraph DEF ValueInv

(* An attempt begins: with the restored nodes done. *)
LEMMA EnterFacts ==
    ASSUME IInv, graph' = graph, NEW finished \in SUBSET Node,
           NEW published \in SUBSET (finished \intersect graph.emits),
           NEW keeps \in BOOLEAN, Enter(finished, published, keeps)
    PROVE  /\ (Order /\ LeftInv /\ InputInv)'
           /\ running' = {} /\ ToStore' = {} /\ Started' = finished
           /\ done' = finished /\ avail' = published /\ keep' = keeps
           /\ left' \in [Node -> Nat] /\ result' = [n \in Node |-> "none"]
<1>1. /\ keep' = keeps /\ done' = finished /\ avail' = published /\ data' = published
      /\ left' = [n \in Node |-> Remaining(n, finished)] /\ running' = {}
      /\ result' = [n \in Node |-> "none"] /\ restored' = finished
  BY DEF Enter
<1>2. ToStore' = {}
  BY <1>1 DEF ToStore
<1>3. Started' = finished
  BY <1>1, <1>2 DEF Started
<1>4. \A n \in Node : /\ Cardinality(Consumers(n) \ finished) \in Nat
                      /\ Cardinality(Consumers(n) \ finished) <= Cardinality(Consumers(n))
  <2> TAKE n \in Node
  <2>1. {} \intersect finished = {}
    OBVIOUS
  <2> QED
    BY <2>1, ReadersLeft
<1>5. Order' /\ InputInv'
  BY <1>1, <1>2, <1>3 DEF Order, InputInv
<1>6. left' \in [Node -> Nat]
  BY <1>1, <1>4 DEF Remaining
<1>7. LeftInv'
  BY <1>1, <1>3, <1>4, SameGraph DEF LeftInv, Remaining
<1> QED
  BY <1>1, <1>2, <1>3, <1>5, <1>6, <1>7

(* A batch is written, or its write fails: what is on the disk or in the   *)
(* spool only shrinks.                                                     *)
LEMMA SpillWriteInv == ASSUME IInv, SpillWrite PROVE IInv'
<1>1. (Order /\ LeftInv /\ InputInv)'
  BY LocalsKept DEF SpillWrite
<1>2. /\ spool # <<>> /\ spool' = Tail(spool) /\ files' \in {files, files \union {Head(spool)}}
      /\ UNCHANGED <<graph, exec, row, inc, att, pc, locals, history>> /\ fileErr' \in BOOLEAN
  BY DEF SpillWrite, IInv, Types
<1>3. /\ Head(spool) \in Files /\ spool' \in Seq(Files) /\ files' \subseteq Files
      /\ files' \union Range(spool') \subseteq files \union Range(spool)
  BY <1>2, SpoolHead DEF IInv, Types
<1>4. Types'
  BY <1>2, <1>3 DEF IInv, Types, locals, history
<1>5. ToStore' = ToStore /\ Started' = Started
  BY <1>2 DEF locals, Started, ToStore
<1>6. (Position /\ RowInv /\ DidInv /\ EndInv)'
  BY <1>2, <1>5, SameGraph DEF IInv, Position, RowInv, DidInv, EndInv, locals, history
<1>7. SavedInv'
  BY <1>2, <1>3 DEF IInv, SavedInv, ReadBack, Saved, locals
<1>8. ValueInv'
  BY <1>2, ValuesKept DEF history
<1> QED
  BY <1>1, <1>4, <1>6, <1>7, <1>8 DEF IInv

(* A drain begins: nothing is done, and the inputs are to be written.      *)
LEMMA DrainInv == ASSUME IInv, Drain PROVE IInv'
<1>1. PICK keeps \in BOOLEAN : Enter({}, {}, keeps)
  BY DEF Drain
<1>2. /\ pc = "idle" /\ exec = "none" /\ att' = 1 /\ spool' \in SetToSeqs(Inputs)
      /\ pc' = "create"
      /\ UNCHANGED <<graph, exec, row, files, inc, fileErr, did, got, cleaned, finisher>>
  BY DEF Drain, durable, history
<1>3. /\ (Order /\ LeftInv /\ InputInv)' /\ running' = {} /\ ToStore' = {} /\ Started' = {}
      /\ done' = {} /\ avail' = {} /\ keep' = keeps
      /\ left' \in [Node -> Nat] /\ result' = [n \in Node |-> "none"]
  BY <1>1, <1>2, EnterFacts
<1>4. spool' \in Seq(Files)
  <2>1. Inputs \subseteq Files
    BY DEF Inputs, Files, Sources
  <2>2. IsFiniteSet(Sources)
    BY BoundsAssumption, FS_Subset DEF Sources
  <2>3. IsFiniteSet(Inputs)
    <3> DEFINE f == [n \in Sources |-> [of |-> "in", node |-> n, inc |-> 1, att |-> 1]]
    <3>1. f \in Surjection(Sources, Inputs)
      BY DEF Surjection, Inputs
    <3> QED
      BY <2>2, <3>1, FS_Surjection
  <2>4. Cardinality(Inputs) \in Nat
    BY <2>3, FS_CardinalityType
  <2>5. spool' \in [1 .. Cardinality(Inputs) -> Inputs]
    BY <1>2 DEF SetToSeqs
  <2> QED
    BY <2>1, <2>4, <2>5
<1>5. Types'
  BY <1>2, <1>3, <1>4 DEF IInv, Types
<1>6. \A n \in Node : row[n] = NoRow
  BY <1>2 DEF IInv, Position
<1>7. (Position /\ RowInv /\ SavedInv)'
  BY <1>2, <1>3, <1>6 DEF IInv, Position, RowInv, SavedInv, NoRow
<1>8. (DidInv /\ EndInv)'
  BY <1>2, <1>3, SameGraph DEF IInv, DidInv, EndInv
<1>9. ValueInv'
  <2>1. \A n \in Node : ~Saved(n)' /\ row'[n].status # "completed"
    BY <1>2, <1>6 DEF Saved, NoRow
  <2>2. graph'.emits \subseteq Node
    BY <1>2, GraphFacts DEF IInv, Types
  <2> QED
    BY <1>3, <2>1, <2>2 DEF ValueInv, Restorable
<1> QED
  BY <1>3, <1>5, <1>7, <1>8, <1>9 DEF IInv

(* create_execution writes the row of the execution, or fails.             *)
LEMMA CreateRowInv == ASSUME IInv, CreateRow PROVE IInv'
<1>1. (Order /\ LeftInv /\ InputInv)'
  BY LocalsKept DEF CreateRow
<1>2. /\ pc = "create" /\ \/ exec' = "running" /\ pc' = "rows"
                          \/ pc' = "idle" /\ exec' = exec
      /\ UNCHANGED <<graph, row, files, process, locals, history>>
  BY DEF CreateRow
<1>3. ToStore' = ToStore /\ Started' = Started
  BY <1>2 DEF locals, Started, ToStore
<1>4. \A n \in Node : row[n] = NoRow
  BY <1>2 DEF IInv, Position
<1>5. Types'
  BY <1>2 DEF IInv, Types, process, locals, history
<1>6. Position'
  BY <1>2, <1>3, <1>4 DEF IInv, Position, NoRow, locals
<1>7. (RowInv /\ SavedInv /\ DidInv /\ EndInv)'
  BY <1>2, <1>3, SameGraph DEF IInv, Position, RowInv, SavedInv, DidInv, EndInv, process,
     locals, history
<1>8. ValueInv'
  BY <1>2, ValuesKept DEF history, IInv, Position
<1> QED
  BY <1>1, <1>5, <1>6, <1>7, <1>8 DEF IInv

(* create_execution writes the row of a node, or fails.                    *)
LEMMA CreateNodeRowInv == ASSUME IInv, NEW n \in Node, CreateNodeRow(n) PROVE IInv'
<1>1. (Order /\ LeftInv /\ InputInv)'
  BY LocalsKept DEF CreateNodeRow
<1>2. /\ pc = "rows" /\ row[n] = NoRow /\ pc' \in {"rows", "level", "idle"}
      /\ UNCHANGED <<graph, exec, files, process, locals, history>>
      /\ \/ UNCHANGED row
         \/ row' = [row EXCEPT ![n] = [status |-> "pending", known |-> TRUE, file |-> NoFile]]
  BY DEF CreateNodeRow, NoRow
<1>3. ToStore' = ToStore /\ Started' = Started
  BY <1>2 DEF locals, Started, ToStore
<1>4. \A m \in Node : /\ row'[m].status # "completed"
                      /\ row'[m].file = NoFile \/ row'[m] = row[m]
  BY <1>2 DEF IInv, Position, Types
<1>5. Types'
  <2>1. row' \in [Node -> [status : {"absent", "pending", "completed", "failed"},
                           known : BOOLEAN, file : Files \union {NoFile}]]
    <3>1. CASE UNCHANGED row
      BY <3>1 DEF IInv, Types
    <3>2. CASE ~UNCHANGED row
      <4> DEFINE new == [status |-> "pending", known |-> TRUE, file |-> NoFile]
      <4>1. new \in [status : {"absent", "pending", "completed", "failed"},
                     known : BOOLEAN, file : Files \union {NoFile}]
        OBVIOUS
      <4>2. row' = [row EXCEPT ![n] = new]
        BY <1>2, <3>2
      <4> HIDE DEF new
      <4> QED
        BY <4>1, <4>2 DEF IInv, Types
    <3> QED
      BY <3>1, <3>2
  <2> QED
    BY <1>2, <2>1 DEF IInv, Types, process, locals, history
<1>6. Position'
  BY <1>2, <1>3, <1>4 DEF IInv, Position, locals
<1>7. (RowInv /\ SavedInv /\ DidInv /\ EndInv)'
  BY <1>2, <1>3, <1>4, SameGraph DEF IInv, Position, RowInv, SavedInv, ReadBack, Saved, DidInv,
     EndInv, process, locals, history
<1>8. ValueInv'
  <2>1. \A m \in Node : ~Saved(m)' /\ ~Saved(m) /\ ~Restorable(m)
    BY <1>2, <1>4 DEF Saved, Restorable, IInv, Position
  <2>2. graph.emits \subseteq Node /\ done \subseteq Node /\ running \subseteq Node
          /\ graph' = graph
    BY <1>2, GraphFacts DEF IInv, Types
  <2>3. UNCHANGED <<exec, done, avail, running, cleaned, got>>
    BY <1>2 DEF locals, history
  <2> QED
    BY <1>3, <1>4, <2>1, <2>2, <2>3, SameGraph DEF IInv, ValueInv
<1> QED
  BY <1>1, <1>5, <1>6, <1>7, <1>8 DEF IInv

(* drain_resume: what reads back is done, and what has a batch is published. *)
(* A value that has none is of a node whose readers are all restored.      *)
LEMMA ResumeInv == ASSUME IInv, Resume PROVE IInv'
<1> DEFINE published == {n \in Restored : row[n].file \in files}
<1>1. /\ pc = "idle" /\ exec \in {"running", "failed"} /\ spool = <<>>
      /\ Enter(Restored, published, TRUE) /\ att' = att + 1 /\ pc' = "level"
      /\ UNCHANGED <<graph, exec, row, files, inc, spool, fileErr, did, got, cleaned, finisher>>
  BY DEF Resume, IsIncomplete, Flushed, durable, history
<1>2. NoFile \notin Files
  BY DEF NoFile, Files
<1>3. Restored \subseteq Node
  BY DEF Restored
<1>4. \A n \in published : n \in graph.emits
  BY <1>2, <1>3 DEF IInv, Types, RowInv
<1>5. published \subseteq Restored \intersect graph.emits
  BY <1>4
<1>6. /\ (Order /\ LeftInv /\ InputInv)' /\ running' = {} /\ ToStore' = {}
      /\ Started' = Restored
      /\ done' = Restored /\ avail' = published /\ keep' = TRUE
      /\ left' \in [Node -> Nat] /\ result' = [n \in Node |-> "none"]
  <2> HIDE DEF published
  <2> QED
    BY <1>1, <1>3, <1>5, EnterFacts
<1>7. Types'
  BY <1>1, <1>3, <1>6 DEF IInv, Types
<1>8. Position'
  BY <1>1, <1>6 DEF IInv, Position
<1>9. RowInv' /\ EndInv'
  BY <1>1 DEF IInv, RowInv, EndInv
<1>10. SavedInv'
  <2>1. Range(spool) = {}
    BY <1>1 DEF Range
  <2> QED
    BY <1>1, <1>6, <2>1 DEF SavedInv, ReadBack, Restored, Readable, Saved
<1>11. DidInv'
  BY <1>1, <1>3, <1>6, SameGraph DEF IInv, DidInv, RowInv, Restored, Saved
<1>12. ValueInv'
  <2> SUFFICES ASSUME ~cleaned, exec # "completed" PROVE ValueInv'
    BY <1>1 DEF ValueInv
  <2>1. \A n \in Restored : n \in Taken
    BY DEF IInv, ValueInv, Restored, Saved
  <2>2. \A n \in Restored \intersect graph.emits :
            Consumers(n) \subseteq Restored \/ n \in published
    BY GraphFacts DEF IInv, Types, ValueInv, Restored, Restorable, Readable
  <2>3. \A n \in Node : Saved(n)' = Saved(n) /\ Restorable(n)' = Restorable(n)
    BY <1>1 DEF Saved, Restorable, Readable
  <2>4. graph.emits \subseteq Node /\ \A n \in Node : Consumers(n) \subseteq Node
    BY GraphFacts DEF IInv, Types
  <2>5. \A n \in Restored : Restorable(n)
    BY DEF Restored, Restorable
  <2> HIDE DEF published
  <2> QED
    BY <1>1, <1>3, <1>5, <1>6, <2>1, <2>2, <2>3, <2>4, <2>5, SameGraph DEF IInv, ValueInv
<1> QED
  BY <1>6, <1>7, <1>8, <1>9, <1>10, <1>11, <1>12 DEF IInv

(* A resume that is told of an unwritten batch changes nothing.            *)
LEMMA ResumeRefusedInv == ASSUME IInv, ResumeRefused PROVE IInv'
<1>1. (Order /\ LeftInv /\ InputInv)'
  BY LocalsKept DEF ResumeRefused
<1>2. /\ pc = "idle" /\ fileErr' = FALSE
      /\ UNCHANGED <<graph, durable, inc, att, spool, pc, locals, history>>
  BY DEF ResumeRefused
<1>3. ToStore' = ToStore /\ Started' = Started
  BY <1>2 DEF locals, Started, ToStore
<1>4. (Types /\ Position /\ RowInv /\ SavedInv /\ DidInv /\ EndInv)'
  BY <1>2, <1>3, SameGraph DEF IInv, Types, Position, RowInv, SavedInv, DidInv, EndInv,
     durable, locals, history
<1>5. ValueInv'
  BY <1>2, ValuesKept DEF durable, history
<1> QED
  BY <1>1, <1>4, <1>5 DEF IInv

(* A level: what is skipped is done, and what is ready starts. *)
LEMMA StartLevelInv == ASSUME IInv, StartLevel PROVE IInv'
<1> DEFINE skips == Skipped
           finished == done \union skips
           ready == ReadyAfter(finished)
           used(n) == Cardinality(Consumers(n) \intersect
                          (skips \union (IF n \in data THEN ready ELSE {})))
<1>1. /\ pc = "level" /\ done' = finished /\ running' = ready
      /\ left' = [n \in Node |-> left[n] - used(n)]
      /\ data' = {n \in data : used(n) = 0 \/ left[n] > used(n)}
      /\ got' = [n \in Node |-> IF n \in ready THEN Producers(n) \intersect data ELSE got[n]]
      /\ UNCHANGED <<graph, exec, row, files, inc, att, spool, fileErr, keep, avail, result,
           restored, did, cleaned, finisher>>
  BY DEF StartLevel, HandOut, durable, process
<1>2. /\ \/ pc' = "run"
         \/ pc' = "end" /\ ready = {} /\ finished = Node
         \/ pc' = "failed" /\ ready = {}
  BY DEF StartLevel
<1>3. /\ skips \subseteq Node \ done /\ \A n \in skips : Producers(n) \subseteq finished
  BY SkippedIsFixpoint DEF SkipReason
<1>4. /\ ready \subseteq Node \ finished
      /\ \A n \in ready : \A p \in PortsOf(n) : p.from \subseteq finished
      /\ \A n \in ready : \A p \in PortsOf(n) : p.required => p.from \intersect avail # {}
  BY DEF ReadyAfter
<1>5. \A n \in ready : Producers(n) \subseteq finished
  BY <1>4 DEF Producers
<1>6. running = {} /\ ToStore = {} /\ Started = done /\ ToStore' = {}
        /\ Started' = finished \union ready
  BY <1>1 DEF IInv, Position, Started, ToStore
<1>7. /\ graph' = graph /\ done \subseteq Node
      /\ avail \subseteq done \intersect graph.emits /\ data \subseteq avail
      /\ graph.emits \subseteq Node /\ \A n \in Node : Consumers(n) \subseteq Node
      /\ \A n, m \in Node : m \in Consumers(n) <=> n \in Producers(m)
      /\ \A n \in Node : left[n] \in Nat
  BY <1>1, GraphFacts DEF IInv, Types, Order
<1>8. \A n \in Node : \A m \in skips \union ready : m \in Consumers(n) => n \in finished
  BY <1>3, <1>4, <1>5, <1>7
<1>9. skips \intersect done = {} /\ (skips \union ready) \intersect done = {}
  BY <1>3, <1>4
<1> HIDE DEF skips, ready
<1>10. ASSUME NEW n \in Node
       PROVE  /\ used(n) \in Nat /\ Cardinality(Consumers(n) \ done) \in Nat
              /\ Cardinality(Consumers(n) \ Started') \in Nat
              /\ Cardinality(Consumers(n) \ Started') <= Cardinality(Consumers(n) \ done) - used(n)
              /\ n \in avail \/ n \notin finished =>
                    Cardinality(Consumers(n) \ Started') = Cardinality(Consumers(n) \ done) - used(n)
  <2> DEFINE X == skips \union (IF n \in data THEN ready ELSE {})
             Y == skips \union ready
  <2>1. /\ Cardinality(Consumers(n) \ done) \in Nat
        /\ Cardinality(Consumers(n) \intersect X) \in Nat
        /\ Cardinality(Consumers(n) \ (done \union X))
             = Cardinality(Consumers(n) \ done) - Cardinality(Consumers(n) \intersect X)
    <3>1. X \intersect done = {}
      BY <1>9
    <3> HIDE DEF X
    <3> QED
      BY <3>1, ReadersLeft
  <2>2. /\ Cardinality(Consumers(n) \ (done \union Y)) \in Nat
        /\ Cardinality(Consumers(n) \ (done \union Y))
             = Cardinality(Consumers(n) \ done) - Cardinality(Consumers(n) \intersect Y)
        /\ Cardinality(Consumers(n) \intersect Y) \in Nat /\ IsFiniteSet(Consumers(n))
    <3>1. Y \intersect done = {}
      BY <1>9
    <3> HIDE DEF Y
    <3> QED
      BY <3>1, ReadersLeft
  <2>3. Cardinality(Consumers(n) \intersect X) <= Cardinality(Consumers(n) \intersect Y)
    <3>1. IsFiniteSet(Consumers(n) \intersect Y)
      BY <2>2, FS_Subset
    <3>2. Consumers(n) \intersect X \subseteq Consumers(n) \intersect Y
      OBVIOUS
    <3> QED
      BY <3>1, <3>2, FS_Subset
  <2>4. Started' = done \union Y
    BY <1>6
  <2>5. ASSUME n \in avail \/ n \notin finished
        PROVE  Consumers(n) \intersect X = Consumers(n) \intersect Y
    <3>1. CASE n \notin finished
      BY <1>8, <3>1
    <3>2. CASE n \in data
      BY <3>2
    <3>3. CASE n \in avail /\ n \notin data
      <4>1. Consumers(n) \subseteq done
        BY <1>6, <3>3 DEF IInv, InputInv
      <4> QED
        BY <1>9, <4>1
    <3> QED
      BY <2>5, <3>1, <3>2, <3>3
  <2>6. used(n) = Cardinality(Consumers(n) \intersect X)
    OBVIOUS
  <2>7. n \in avail \/ n \notin finished =>
          Cardinality(Consumers(n) \intersect X) = Cardinality(Consumers(n) \intersect Y)
    <3> HIDE DEF X, Y
    <3> QED
      BY <2>5
  <2>8. Cardinality(Consumers(n) \ Started') = Cardinality(Consumers(n) \ (done \union Y))
    BY <2>4
  <2> HIDE DEF X, Y, used, finished
  <2> QED
    BY <2>1, <2>2, <2>3, <2>6, <2>7, <2>8
<1> HIDE DEF used
<1>11. \A n \in Node : left[n] - used(n) \in Nat
  <2> TAKE n \in Node
  <2>1. left[n] \in Nat /\ left[n] >= Cardinality(Consumers(n) \ done)
    BY <1>6, <1>7 DEF IInv, LeftInv
  <2>2. /\ used(n) \in Nat /\ Cardinality(Consumers(n) \ done) \in Nat
        /\ Cardinality(Consumers(n) \ Started') \in Nat
        /\ Cardinality(Consumers(n) \ Started') <= Cardinality(Consumers(n) \ done) - used(n)
    BY <1>10
  <2> QED
    BY <2>1, <2>2
<1>12. LeftInv'
  <2> SUFFICES ASSUME NEW n \in Node
               PROVE  /\ left'[n] <= Cardinality(Consumers(n))
                      /\ left'[n] >= Cardinality(Consumers(n) \ Started')
                      /\ n \in avail' \/ n \notin done' =>
                           left'[n] = Cardinality(Consumers(n) \ Started')
    BY <1>7, SameGraph DEF LeftInv
  <2>1. left'[n] = left[n] - used(n) /\ left[n] \in Nat
    BY <1>1, <1>7
  <2>2. /\ left[n] <= Cardinality(Consumers(n)) /\ left[n] >= Cardinality(Consumers(n) \ done)
        /\ n \in avail \/ n \notin done => left[n] = Cardinality(Consumers(n) \ done)
    BY <1>6 DEF IInv, LeftInv
  <2>3. IsFiniteSet(Consumers(n)) /\ Cardinality(Consumers(n)) \in Nat
    BY BoundsAssumption, FS_Subset, FS_CardinalityType DEF Consumers
  <2> QED
    BY <1>1, <1>10, <2>1, <2>2, <2>3
<1>13. Order'
  <2>1. running' \intersect done' = {} /\ ToStore' \intersect (done' \union running') = {}
    BY <1>1, <1>4, <1>6
  <2>2. \A n \in running' \union ToStore' : Producers(n)' \subseteq done'
    BY <1>1, <1>4, <1>5, <1>6, <1>7, SameGraph
  <2>3. restored' \subseteq done' /\ \A n \in done' \ restored' : Producers(n)' \subseteq done'
    BY <1>1, <1>3, <1>7, SameGraph DEF IInv, Order
  <2> QED
    BY <1>1, <1>7, <2>1, <2>2, <2>3 DEF Order
<1>14. InputInv'
  <2> SUFFICES ASSUME NEW n \in avail
               PROVE  n \in data' <=>
                        Consumers(n) \subseteq restored \/ ~(Consumers(n) \subseteq Started')
    BY <1>1, <1>7, SameGraph DEF InputInv
  <2>1. n \in Node /\ restored \subseteq done /\ done \subseteq Started'
    BY <1>6, <1>7 DEF IInv, Order
  <2>2. /\ n \in data <=> Consumers(n) \subseteq restored \/ ~(Consumers(n) \subseteq done)
    BY <1>6 DEF IInv, InputInv
  <2>3. /\ left[n] = Cardinality(Consumers(n) \ done)
        /\ left[n] - used(n) = Cardinality(Consumers(n) \ Started')
    BY <1>6, <1>10, <2>1 DEF IInv, LeftInv
  <2>4. used(n) \in Nat /\ Cardinality(Consumers(n) \ Started') \in Nat /\ left[n] \in Nat
    BY <1>7, <1>10, <2>1
  <2>5. CASE n \notin data
    BY <1>1, <2>1, <2>2, <2>5
  <2>6. CASE n \in data /\ Consumers(n) \subseteq done
    <3>1. left[n] = 0
      BY <2>1, <2>3, <2>6, NoneLeft
    <3>2. used(n) = 0
      BY <2>3, <2>4, <3>1
    <3> QED
      BY <1>1, <2>2, <2>6, <3>2
  <2>7. CASE n \in data /\ ~(Consumers(n) \subseteq done)
    <3>1. left[n] # 0 /\ (left[n] - used(n) = 0 <=> Consumers(n) \subseteq Started')
      BY <2>1, <2>3, <2>7, NoneLeft
    <3>2. ~(Consumers(n) \subseteq restored)
      BY <2>1, <2>7
    <3>3. (used(n) = 0 \/ left[n] > used(n)) <=> ~(left[n] - used(n) = 0)
      BY <2>3, <2>4, <3>1
    <3> QED
      BY <1>1, <2>7, <3>1, <3>2, <3>3
  <2> QED
    BY <2>5, <2>6, <2>7
<1>15. Types'
  <2>1. left' \in [Node -> Nat]
    BY <1>1, <1>11
  <2>2. got' \in [Node -> SUBSET Node]
    BY <1>1, <1>7 DEF IInv, Types
  <2> QED
    BY <1>1, <1>2, <1>3, <1>4, <2>1, <2>2 DEF IInv, Types
<1>16. Position'
  BY <1>1, <1>2, <1>6 DEF IInv, Position
<1>17. RowInv' /\ EndInv'
  BY <1>1, <1>2 DEF IInv, RowInv, EndInv
<1>18. SavedInv'
  BY <1>1 DEF IInv, SavedInv, ReadBack, Saved
<1>19. ~cleaned /\ exec # "completed" => skips \intersect Taken = {}
  BY <1>1, SkippedIsNotTaken DEF skips
<1>20. DidInv'
  <2>1. finished \intersect Taken \subseteq did
    BY <1>19 DEF IInv, DidInv
  <2> QED
    BY <1>1, <2>1, SameGraph DEF IInv, DidInv
<1>21. ValueInv'
  <2> SUFFICES ASSUME ~cleaned, exec # "completed" PROVE ValueInv'
    BY <1>1 DEF ValueInv
  <2>1. \A n \in ready : n \in Taken
    <3> SUFFICES ASSUME NEW n \in ready, NEW p \in PortsOf(n), p.required
                 PROVE  p.from \intersect graph.emits \intersect Taken # {}
      BY <1>4, TakenIsFed DEF FedBy
    <3>1. PICK m \in p.from : m \in avail
      BY <1>4
    <3> QED
      BY <1>7, <3>1 DEF IInv, ValueInv
  <2>2. \A n \in finished \intersect graph.emits \intersect Taken :
          Consumers(n) \subseteq Started' \/ n \in avail
    BY <1>6, <1>19 DEF IInv, ValueInv
  <2>3. \A n \in ready : got'[n] = Due(n)
    <3> SUFFICES ASSUME NEW n \in ready PROVE Producers(n) \intersect data = Due(n)
      BY <1>1, <1>4
    <3>1. n \in Node /\ n \notin Started /\ Producers(n) \subseteq finished
      BY <1>4, <1>5, <1>6
    <3>2. ASSUME NEW m \in Producers(n), m \in data PROVE m \in graph.emits /\ m \in Taken
      BY <1>7, <3>2 DEF IInv, ValueInv
    <3>3. ASSUME NEW m \in Producers(n), m \in graph.emits, m \in Taken PROVE m \in data
      <4>1. m \in done
        BY <1>19, <3>1, <3>3
      <4>2. n \in Consumers(m) /\ m \in Node
        BY <1>7, <3>1, <4>1
      <4>3. m \in avail
        BY <3>1, <3>3, <4>1, <4>2 DEF IInv, ValueInv
      <4> QED
        BY <3>1, <4>2, <4>3 DEF IInv, InputInv
    <3> QED
      BY <3>2, <3>3 DEF Due
  <2>4. \A n \in Node : Saved(n)' = Saved(n) /\ Restorable(n)' = Restorable(n)
    BY <1>1 DEF Saved, Restorable, Readable
  <2>5. ready \subseteq Node /\ finished \subseteq Node
    BY <1>3, <1>4, <1>7
  <2>6. (running \union ToStore \union avail \subseteq Taken)'
    BY <1>1, <1>6, <1>7, <2>1, SameGraph DEF IInv, ValueInv
  <2>7. \A n \in graph.emits : Saved(n)' /\ row'[n].file = NoFile =>
            \A m \in Consumers(n)' : Restorable(m)'
    BY <1>1, <1>7, <2>4, SameGraph DEF IInv, ValueInv
  <2>8. (\A n \in Node : row[n].status = "completed" => n \in Taken)'
    BY <1>1, SameGraph DEF IInv, ValueInv
  <2>9. (\A n \in running : got[n] = Due(n))'
    BY <1>1, <2>3, <2>5, SameGraph
  <2>10. (\A n \in done \intersect graph.emits \intersect Taken :
           Consumers(n) \subseteq Started \/ n \in avail)'
    BY <1>1, <2>2, <2>5, SameGraph
  <2>11. (\A n \in done : Producers(n) \subseteq done \/ Restorable(n))'
    BY <1>1, <1>3, <1>7, <2>4, <2>5, SameGraph DEF IInv, ValueInv
  <2> QED
    BY <1>1, <2>6, <2>7, <2>8, <2>9, <2>10, <2>11 DEF ValueInv
<1> QED
  BY <1>12, <1>13, <1>14, <1>15, <1>16, <1>17, <1>18, <1>20, <1>21 DEF IInv

(* A node ends: its result is to be stored. *)
LEMMA RunNodeInv == ASSUME IInv, NEW n \in Node, RunNode(n) PROVE IInv'
<1>1. /\ pc = "run" /\ n \in running /\ running' = running \ {n}
      /\ \/ result' = [result EXCEPT ![n] = "ok"] /\ did' = did \union {n}
         \/ result' = [result EXCEPT ![n] = "err"] /\ did' = did
      /\ \/ pc' = "store" /\ running' = {}
         \/ pc' = "run"
      /\ UNCHANGED <<graph, exec, row, files, inc, att, spool, fileErr, keep, done, avail,
           data, left, restored, got, cleaned, finisher>>
  BY DEF RunNode, durable, process
<1>2. /\ graph' = graph /\ done \subseteq Node /\ running \union ToStore \subseteq Node
      /\ avail \subseteq Node
      /\ graph.emits \subseteq Node /\ \A m \in Node : Consumers(m) \subseteq Node
  BY <1>1, GraphFacts DEF IInv, Types, ToStore
<1>3. result \in [Node -> {"none", "ok", "err"}] /\ result' \in [Node -> {"none", "ok", "err"}]
  BY <1>1 DEF IInv, Types
<1>4. ToStore' = ToStore \union {n}
  BY <1>1, <1>3 DEF ToStore
<1>5. Started' = Started
  BY <1>1, <1>4 DEF Started
<1>6. Types'
  BY <1>1, <1>3 DEF IInv, Types
<1>7. Position'
  BY <1>1 DEF IInv, Position
<1>8. Order'
  BY <1>1, <1>2, <1>4, SameGraph DEF IInv, Order
<1>9. LeftInv' /\ InputInv'
  BY <1>1, <1>2, <1>5, SameGraph DEF IInv, LeftInv, InputInv
<1>10. (RowInv /\ SavedInv /\ EndInv)'
  BY <1>1 DEF IInv, RowInv, SavedInv, ReadBack, Saved, EndInv
<1>11. DidInv'
  <2>1. \A m \in Node : result'[m] = "ok" => m \in did'
    BY <1>1, <1>3 DEF IInv, DidInv
  <2> QED
    BY <1>1, <2>1, SameGraph DEF IInv, DidInv
<1>12. ValueInv'
  <2> SUFFICES ASSUME ~cleaned, exec # "completed" PROVE ValueInv'
    BY <1>1 DEF ValueInv
  <2>1. \A m \in Node : Saved(m)' = Saved(m) /\ Restorable(m)' = Restorable(m)
    BY <1>1 DEF Saved, Restorable, Readable
  <2> QED
    BY <1>1, <1>2, <1>4, <1>5, <2>1, SameGraph DEF IInv, ValueInv
<1> QED
  BY <1>6, <1>7, <1>8, <1>9, <1>10, <1>11, <1>12 DEF IInv

(* The row and the file of a result that is stored. *)
LEMMA StoredRow ==
    ASSUME IInv, pc = "store", NEW n \in ToStore, result[n] = "ok", graph' = graph,
           files' = files,
           row' = row \/ row' = RowCompleted(n),
           spool' = spool \/ (OutputOf(n) # NoFile /\ spool' = Append(spool, OutputOf(n)))
    PROVE  /\ row' \in [Node -> [status : {"absent", "pending", "completed", "failed"},
                                 known : BOOLEAN, file : Files \union {NoFile}]]
           /\ spool' \in Seq(Files)
           /\ RowInv
           /\ \A m \in Node :
                 row'[m].file # NoFile => row'[m].file.node = m /\ m \in graph.emits
           /\ \A m \in Node \ {n} : row'[m] = row[m]
           /\ \A m \in Node \ {n} : ReadBack(m)' => ReadBack(m)
           /\ \A m \in Node \ {n} : Saved(m)' = Saved(m) /\ Restorable(m)' = Restorable(m)
           /\ ~Restorable(n)
           /\ ~cleaned /\ exec # "completed" =>
                 \A k \in graph.emits : Saved(k)' /\ row'[k].file = NoFile =>
                     \A m \in Consumers(k) : Restorable(m)'
<1> DEFINE R == [status : {"absent", "pending", "completed", "failed"},
                 known : BOOLEAN, file : Files \union {NoFile}]
<1>1. n \in Node /\ n \notin done /\ row \in [Node -> R] /\ spool \in Seq(Files)
  BY DEF IInv, Types, Order, ToStore
<1>2. /\ OutputOf(n) \in Files \union {NoFile}
      /\ OutputOf(n) # NoFile => OutputOf(n).node = n /\ n \in graph.emits
      /\ OutputOf(n) = NoFile /\ n \in graph.emits => ~(left[n] > 0)
  BY <1>1 DEF OutputOf, File, Files, NoFile, IInv, Types
<1>3. \A m \in Node \ {n} : row'[m] = row[m]
  BY <1>1 DEF RowCompleted
<1>4. /\ row'[n] \in R
      /\ row'[n].file \in {row[n].file, OutputOf(n)}
      /\ row' # row => row'[n].file = OutputOf(n)
  <2>1. CASE row' = row
    BY <1>1, <2>1
  <2>2. CASE row' = RowCompleted(n)
    <3>1. row'[n] = [row[n] EXCEPT !.status = "completed", !.file = OutputOf(n)]
      BY <1>1, <2>2 DEF RowCompleted
    <3>2. row[n] \in R
      BY <1>1
    <3> QED
      BY <1>2, <3>1, <3>2
  <2> QED
    BY <2>1, <2>2
<1>5. row' \in [Node -> R]
  <2>1. DOMAIN row' = Node /\ row' = [m \in Node |-> row'[m]]
    BY <1>1 DEF RowCompleted
  <2>2. \A m \in Node : row'[m] \in R
    BY <1>1, <1>3, <1>4
  <2> HIDE DEF R
  <2> QED
    BY <2>1, <2>2
<1>6. /\ spool' \in Seq(Files)
      /\ Range(spool') \subseteq Range(spool) \union ({OutputOf(n)} \ {NoFile})
  <2>1. CASE spool' = spool
    BY <1>1, <2>1
  <2>2. CASE OutputOf(n) # NoFile /\ spool' = Append(spool, OutputOf(n))
    <3>1. OutputOf(n) \in Files
      BY <1>2, <2>2
    <3> QED
      BY <1>1, <2>2, <3>1, SpoolAppend
  <2> QED
    BY <2>1, <2>2
<1>7. \A m \in Node : row'[m].file # NoFile => row'[m].file.node = m /\ m \in graph.emits
  BY <1>2, <1>3, <1>4 DEF IInv, RowInv
<1>8. \A m \in Node \ {n} : ReadBack(m)' => ReadBack(m)
  BY <1>2, <1>3, <1>6, <1>7 DEF ReadBack, Saved
<1>9. \A m \in Node \ {n} : Saved(m)' = Saved(m) /\ Restorable(m)' = Restorable(m)
  BY <1>3 DEF Saved, Restorable, Readable
<1>10. ~Restorable(n)
  BY <1>1 DEF IInv, SavedInv, ReadBack, Restorable, Readable
<1>11. ASSUME ~cleaned, exec # "completed", NEW k \in graph.emits, Saved(k)',
         row'[k].file = NoFile,
              NEW m \in Consumers(k)
       PROVE  Restorable(m)'
  <2>1. k \in Node /\ m \in Node /\ k \in Producers(m)
    BY GraphFacts DEF IInv, Types
  <2>2. CASE k = n /\ row' # row
    <3>1. ~(left[n] > 0) /\ left[n] \in Nat
      BY <1>1, <1>2, <1>4, <1>11, <2>2 DEF IInv, Types
    <3>2. left[n] = Cardinality(Consumers(n) \ Started)
      BY <1>1 DEF IInv, LeftInv
    <3>3. Consumers(n) \subseteq Started
      BY <1>1, <3>1, <3>2, NoneLeft
    <3>4. m \in done
      BY <1>1, <2>1, <2>2, <3>3 DEF IInv, Order, Started
    <3>5. Restorable(m)
      BY <1>1, <1>11, <2>1, <2>2, <3>4 DEF IInv, ValueInv
    <3>6. m # n
      BY <1>1, <3>4
    <3> QED
      BY <1>9, <2>1, <3>5, <3>6
  <2>3. CASE k # n \/ row' = row
    <3>1. Saved(k) /\ row[k].file = NoFile
      BY <1>3, <1>11, <2>1, <2>3 DEF Saved
    <3>2. Restorable(m)
      BY <1>11, <3>1 DEF IInv, ValueInv
    <3> QED
      BY <1>9, <1>10, <2>1, <3>2
  <2> QED
    BY <2>2, <2>3
<1> QED
  BY <1>3, <1>5, <1>6, <1>7, <1>8, <1>9, <1>10, <1>11 DEF IInv

(* A result is stored: its row is completed, and it is published.          *)
LEMMA StoreOkInv == ASSUME IInv, NEW n \in Node, StoreOk(n) PROVE IInv'
<1>1. /\ pc = "store" /\ result[n] = "ok" /\ result' = [result EXCEPT ![n] = "none"]
      /\ spool' = spool \/ (OutputOf(n) # NoFile /\ spool' = Append(spool, OutputOf(n)))
      /\ row' = row \/ row' = RowCompleted(n)
      /\ done' = done \union {n}
      /\ avail' = (IF n \in graph.emits THEN avail \union {n} ELSE avail)
      /\ data' = (IF n \in graph.emits THEN data \union {n} ELSE data)
      /\ UNCHANGED <<graph, exec, files, inc, att, fileErr, keep, left, running, restored,
           did, got, cleaned, finisher>>
  BY DEF StoreOk, history
<1>2. pc' = "store" \/ (pc' = "end" /\ done' = Node) \/ (pc' = "level" /\ ToStore = {n})
  BY DEF StoreOk
<1>3. /\ n \in ToStore /\ n \notin done /\ running = {} /\ graph' = graph
      /\ done \subseteq Node /\ ToStore \subseteq Node /\ avail \subseteq Node
      /\ avail \subseteq done
      /\ graph.emits \subseteq Node /\ \A m \in Node : Consumers(m) \subseteq Node
      /\ result \in [Node -> {"none", "ok", "err"}]
  BY <1>1, GraphFacts DEF IInv, Types, Order, Position, ToStore
<1>4. ToStore' = ToStore \ {n} /\ Started' = Started
  <2>1. ToStore' = ToStore \ {n}
    BY <1>1, <1>3 DEF ToStore
  <2> QED
    BY <1>1, <1>3, <2>1 DEF Started
<1>5. /\ row' \in [Node -> [status : {"absent", "pending", "completed", "failed"},
                            known : BOOLEAN, file : Files \union {NoFile}]]
      /\ spool' \in Seq(Files)
      /\ \A m \in Node : row'[m].file # NoFile => row'[m].file.node = m /\ m \in graph.emits
      /\ \A m \in Node \ {n} : row'[m] = row[m]
      /\ \A m \in Node \ {n} : ReadBack(m)' => ReadBack(m)
      /\ \A m \in Node \ {n} : Saved(m)' = Saved(m) /\ Restorable(m)' = Restorable(m)
      /\ ~cleaned /\ exec # "completed" =>
            \A k \in graph.emits : Saved(k)' /\ row'[k].file = NoFile =>
                \A m \in Consumers(k) : Restorable(m)'
  BY <1>1, <1>3, StoredRow
<1>6. Types'
  BY <1>1, <1>2, <1>3, <1>5 DEF IInv, Types
<1>7. Position'
  BY <1>1, <1>2, <1>4 DEF IInv, Position
<1>8. Order'
  BY <1>1, <1>3, <1>4, SameGraph DEF IInv, Order
<1>9. LeftInv' /\ InputInv'
  <2>1. LeftInv'
    BY <1>1, <1>3, <1>4, SameGraph DEF IInv, LeftInv
  <2>2. Consumers(n) \subseteq Started => Consumers(n) \subseteq restored
    BY <1>3, GraphFacts DEF IInv, Types, Order, Started
  <2>3. data \subseteq avail /\ n \notin avail
    BY <1>3 DEF IInv, Order
  <2>4. InputInv'
    BY <1>1, <1>3, <1>4, <2>2, <2>3, SameGraph DEF IInv, InputInv
  <2> QED
    BY <2>1, <2>4
<1>10. RowInv'
  BY <1>1, <1>5 DEF IInv, RowInv, DidInv
<1>11. SavedInv'
  BY <1>1, <1>5 DEF IInv, SavedInv
<1>12. DidInv' /\ EndInv'
  <2>1. \A m \in Node : result'[m] = "ok" => result[m] = "ok"
    BY <1>1, <1>3
  <2> QED
    BY <1>1, <1>2, <2>1, SameGraph DEF IInv, DidInv, EndInv, Position
<1>13. ValueInv'
  <2> SUFFICES ASSUME ~cleaned, exec # "completed" PROVE ValueInv'
    BY <1>1 DEF ValueInv
  <2>1. n \in Taken /\ Producers(n) \subseteq done
    BY <1>3 DEF IInv, ValueInv, Order
  <2>2. (running \union ToStore \union avail \subseteq Taken)'
    BY <1>1, <1>3, <1>4, <2>1, SameGraph DEF IInv, ValueInv
  <2>3. (\A m \in Node : row[m].status = "completed" => m \in Taken)'
    BY <1>3, <1>5, <2>1, SameGraph DEF IInv, ValueInv
  <2>4. (\A m \in done \intersect graph.emits \intersect Taken :
          Consumers(m) \subseteq Started \/ m \in avail)'
    BY <1>1, <1>3, <1>4, SameGraph DEF IInv, ValueInv
  <2>5. (\A m \in running : got[m] = Due(m))'
    BY <1>1, <1>3
  <2>6. (\A m \in done : Producers(m) \subseteq done \/ Restorable(m))'
    BY <1>1, <1>3, <1>5, <2>1, SameGraph DEF IInv, ValueInv
  <2>7. \A k \in graph.emits : Saved(k)' /\ row'[k].file = NoFile =>
            \A m \in Consumers(k)' : Restorable(m)'
    BY <1>3, <1>5, SameGraph
  <2> QED
    BY <1>3, <2>2, <2>3, <2>4, <2>5, <2>6, <2>7 DEF ValueInv
<1> QED
  BY <1>6, <1>7, <1>8, <1>9, <1>10, <1>11, <1>12, <1>13 DEF IInv

(* The database refuses the row: the attempt fails, and the row may be there. *)
LEMMA StoreRefusedInv == ASSUME IInv, NEW n \in Node, StoreRefused(n) PROVE IInv'
<1>1. /\ pc = "store" /\ result[n] = "ok" /\ pc' = "failed"
      /\ spool' = spool \/ (OutputOf(n) # NoFile /\ spool' = Append(spool, OutputOf(n)))
      /\ row' = row \/ row' = RowCompleted(n)
      /\ UNCHANGED <<graph, exec, files, inc, att, fileErr, locals, history>>
  BY DEF StoreRefused
<1>2. /\ n \in ToStore /\ n \notin done /\ running = {} /\ graph' = graph
      /\ done \subseteq Node /\ ToStore \subseteq Node /\ avail \subseteq Node
      /\ graph.emits \subseteq Node /\ \A m \in Node : Consumers(m) \subseteq Node
      /\ UNCHANGED <<done, avail, running, result, got, cleaned, did, finisher, keep, left>>
  BY <1>1, GraphFacts DEF IInv, Types, Order, Position, ToStore, locals, history
<1>3. (Order /\ LeftInv /\ InputInv)'
  BY <1>1, LocalsKept
<1>4. ToStore' = ToStore /\ Started' = Started
  BY <1>2 DEF Started, ToStore
<1>5. /\ row' \in [Node -> [status : {"absent", "pending", "completed", "failed"},
                            known : BOOLEAN, file : Files \union {NoFile}]]
      /\ spool' \in Seq(Files)
      /\ \A m \in Node : row'[m].file # NoFile => row'[m].file.node = m /\ m \in graph.emits
      /\ \A m \in Node \ {n} : row'[m] = row[m]
      /\ \A m \in Node \ {n} : Saved(m)' = Saved(m) /\ Restorable(m)' = Restorable(m)
      /\ ~cleaned /\ exec # "completed" =>
            \A k \in graph.emits : Saved(k)' /\ row'[k].file = NoFile =>
                \A m \in Consumers(k) : Restorable(m)'
  BY <1>1, <1>2, StoredRow
<1>6. Types'
  BY <1>1, <1>2, <1>5 DEF IInv, Types
<1>7. (Position /\ SavedInv /\ EndInv)'
  BY <1>1, <1>2, <1>4 DEF IInv, Position, SavedInv, EndInv
<1>8. RowInv' /\ DidInv'
  BY <1>1, <1>2, <1>5, SameGraph DEF IInv, RowInv, DidInv
<1>9. ValueInv'
  <2> SUFFICES ASSUME ~cleaned, exec # "completed" PROVE ValueInv'
    BY <1>1, <1>2 DEF ValueInv
  <2>1. (\A m \in Node : row[m].status = "completed" => m \in Taken)'
    BY <1>2, <1>5, SameGraph DEF IInv, ValueInv
  <2>2. (\A m \in done : Producers(m) \subseteq done \/ Restorable(m))'
    BY <1>2, <1>5, SameGraph DEF IInv, ValueInv
  <2>3. \A k \in graph.emits : Saved(k)' /\ row'[k].file = NoFile =>
            \A m \in Consumers(k)' : Restorable(m)'
    BY <1>2, <1>5, SameGraph
  <2> QED
    BY <1>2, <1>4, <2>1, <2>2, <2>3, SameGraph DEF IInv, ValueInv
<1> QED
  BY <1>3, <1>6, <1>7, <1>8, <1>9 DEF IInv

(* A failed node: the attempt fails.                                       *)
LEMMA StoreErrInv == ASSUME IInv, NEW n \in Node, StoreErr(n) PROVE IInv'
<1>1. /\ pc = "store" /\ result[n] = "err" /\ pc' = "failed"
      /\ row' = row \/ row' = [row EXCEPT ![n] = [@ EXCEPT !.status = "failed"]]
      /\ UNCHANGED <<graph, exec, files, process, locals, history>>
  BY DEF StoreErr
<1>2. /\ n \in ToStore /\ n \notin done /\ running = {} /\ graph' = graph
      /\ done \subseteq Node /\ ToStore \subseteq Node /\ avail \subseteq Node
      /\ graph.emits \subseteq Node /\ \A m \in Node : Consumers(m) \subseteq Node
      /\ UNCHANGED <<done, avail, running, result, got, cleaned, did, finisher, keep, left,
                     inc, att, spool, fileErr>>
  BY <1>1, GraphFacts DEF IInv, Types, Order, Position, ToStore, locals, history, process
<1>3. (Order /\ LeftInv /\ InputInv)'
  BY <1>1, LocalsKept
<1>4. ToStore' = ToStore /\ Started' = Started
  BY <1>2 DEF Started, ToStore
<1>5. /\ row' \in [Node -> [status : {"absent", "pending", "completed", "failed"},
                            known : BOOLEAN, file : Files \union {NoFile}]]
      /\ \A m \in Node : /\ row'[m].file = row[m].file
                         /\ row'[m].status = "completed" => row[m].status = "completed"
                         /\ row'[m].known = row[m].known
      /\ \A m \in Node \ {n} : row'[m] = row[m]
  <2>1. CASE row' = row
    BY <2>1 DEF IInv, Types
  <2>2. CASE row' = [row EXCEPT ![n] = [@ EXCEPT !.status = "failed"]]
    BY <2>2 DEF IInv, Types
  <2> QED
    BY <1>1, <2>1, <2>2
<1>6. ~Restorable(n)
  BY <1>1, <1>2 DEF IInv, SavedInv, ReadBack, Restorable, Readable
<1>7. \A m \in Node : (Saved(m)' => Saved(m)) /\ (Restorable(m) => Restorable(m)')
  BY <1>1, <1>5, <1>6 DEF Saved, Restorable, Readable
<1>8. Types'
  BY <1>1, <1>2, <1>5 DEF IInv, Types
<1>9. (Position /\ SavedInv /\ EndInv)'
  BY <1>1, <1>2, <1>4 DEF IInv, Position, SavedInv, EndInv
<1>10. RowInv' /\ DidInv'
  BY <1>1, <1>2, <1>5, SameGraph DEF IInv, RowInv, DidInv
<1>11. ValueInv'
  <2> SUFFICES ASSUME ~cleaned, exec # "completed" PROVE ValueInv'
    BY <1>1, <1>2 DEF ValueInv
  <2>1. (\A m \in Node : row[m].status = "completed" => m \in Taken)'
    BY <1>2, <1>5, SameGraph DEF IInv, ValueInv
  <2>2. (\A m \in done : Producers(m) \subseteq done \/ Restorable(m))'
    BY <1>2, <1>7, SameGraph DEF IInv, ValueInv
  <2>3. \A k \in graph.emits : Saved(k)' /\ row'[k].file = NoFile =>
            \A m \in Consumers(k)' : Restorable(m)'
    BY <1>2, <1>5, <1>7, SameGraph DEF IInv, ValueInv
  <2> QED
    BY <1>2, <1>4, <2>1, <2>2, <2>3, SameGraph DEF IInv, ValueInv
<1> QED
  BY <1>3, <1>8, <1>9, <1>10, <1>11 DEF IInv

(* mark_failed, reported or not.                                           *)
LEMMA MarkFailedInv == ASSUME IInv, MarkFailed PROVE IInv'
<1>1. /\ pc = "failed" /\ pc' = "idle" /\ fileErr' = FALSE /\ exec' \in {exec, "failed"}
      /\ exec \in {"running", "failed"}
      /\ UNCHANGED <<graph, row, files, inc, att, spool, locals, history>>
  BY DEF MarkFailed, IInv, Types, Position
<1>2. (Order /\ LeftInv /\ InputInv)'
  BY <1>1, LocalsKept
<1>3. ToStore' = ToStore
  BY <1>1 DEF locals, ToStore
<1>4. ValueInv'
  BY <1>1, ValuesKept DEF history
<1>5. (Types /\ Position /\ RowInv /\ SavedInv /\ DidInv /\ EndInv)'
  BY <1>1, <1>3, SameGraph DEF IInv, Types, Position, RowInv, SavedInv, DidInv, EndInv,
     locals, history
<1> QED
  BY <1>2, <1>4, <1>5 DEF IInv

(* mark_completed waits for the thread and removes the files: everything   *)
(* that is taken was executed by then.                                     *)
LEMMA MarkFlushInv == ASSUME IInv, MarkFlush PROVE IInv'
<1>1. /\ pc = "end" /\ spool = <<>> /\ fileErr' = FALSE /\ files' \subseteq files
      /\ \/ pc' = "idle" /\ files' = files /\ cleaned' = cleaned
         \/ pc' = "status" /\ files' = Clean /\ cleaned' = TRUE
      /\ UNCHANGED <<graph, exec, row, inc, att, spool, locals, did, got, finisher>>
  BY DEF MarkFlush, Flushed, Clean, IInv, Types
<1>2. (Order /\ LeftInv /\ InputInv)'
  BY <1>1, LocalsKept
<1>3. ToStore' = ToStore
  BY <1>1 DEF locals, ToStore
<1>4. exec # "completed" /\ exec # "none" /\ Taken \subseteq did
  BY <1>1 DEF IInv, Position, DidInv, Taken
<1>5. ValueInv'
  <2>1. CASE cleaned'
    BY <2>1 DEF ValueInv
  <2>2. CASE ~cleaned'
    BY <1>1, <1>4, <2>2, ValuesKept
  <2> QED
    BY <2>1, <2>2
<1>6. Types'
  BY <1>1 DEF IInv, Types, locals
<1>7. (Position /\ RowInv /\ SavedInv)'
  BY <1>1, <1>3, <1>4 DEF IInv, Position, RowInv, SavedInv, locals
<1>8. (DidInv /\ EndInv)'
  BY <1>1, <1>4, SameGraph DEF IInv, DidInv, EndInv, Clean, locals
<1> QED
  BY <1>2, <1>5, <1>6, <1>7, <1>8 DEF IInv

(* mark_completed records the end, or fails to.                            *)
LEMMA MarkStatusInv == ASSUME IInv, MarkStatus PROVE IInv'
<1>1. /\ pc = "status"
      /\ \/ exec' = "completed" /\ finisher' = inc /\ cleaned' = FALSE /\ pc' = "forget"
         \/ pc' = "idle" /\ UNCHANGED <<exec, finisher, cleaned>>
      /\ UNCHANGED <<graph, row, files, process, locals, did, got>>
  BY DEF MarkStatus
<1>2. (Order /\ LeftInv /\ InputInv)'
  BY <1>1, LocalsKept
<1>3. ToStore' = ToStore
  BY <1>1 DEF locals, ToStore
<1>4. exec # "completed" /\ exec # "none" /\ Taken \subseteq did
  BY <1>1 DEF IInv, Position, DidInv, Taken
<1>5. ValueInv'
  <2>1. CASE exec' = "completed"
    BY <2>1 DEF ValueInv
  <2>2. CASE exec' # "completed"
    BY <1>1, <1>4, <2>2, ValuesKept
  <2> QED
    BY <2>1, <2>2
<1>6. Types'
  BY <1>1 DEF IInv, Types, process, locals
<1>7. (Position /\ RowInv /\ SavedInv)'
  BY <1>1, <1>3, <1>4 DEF IInv, Position, RowInv, SavedInv, process, locals
<1>8. (DidInv /\ EndInv)'
  BY <1>1, <1>4, SameGraph DEF IInv, DidInv, EndInv, process, locals
<1> QED
  BY <1>2, <1>5, <1>6, <1>7, <1>8 DEF IInv

(* mark_completed forgets the rows, or fails to.                           *)
LEMMA MarkRowsInv == ASSUME IInv, MarkRows PROVE IInv'
<1>1. /\ pc = "forget" /\ pc' = "idle" /\ exec = "completed"
      /\ row' = row \/ row' = [n \in Node |-> IF row[n].known THEN NoRow ELSE row[n]]
      /\ UNCHANGED <<graph, exec, files, process, locals, history>>
  BY DEF MarkRows, IInv, Position
<1>2. (Order /\ LeftInv /\ InputInv)'
  BY <1>1, LocalsKept
<1>3. ToStore' = ToStore
  BY <1>1 DEF locals, ToStore
<1>4. \A n \in Node : row'[n] \in {row[n], NoRow}
  BY <1>1
<1>5. Types'
  <2> DEFINE R == [status : {"absent", "pending", "completed", "failed"},
                   known : BOOLEAN, file : Files \union {NoFile}]
  <2>1. NoRow \in R /\ row \in [Node -> R]
    BY DEF NoRow, IInv, Types
  <2>2. row' \in [Node -> R]
    <3> HIDE DEF R
    <3> QED
      BY <1>1, <2>1
  <2> QED
    BY <1>1, <2>2 DEF IInv, Types, process, locals, history
<1>6. (Position /\ SavedInv /\ DidInv /\ EndInv /\ ValueInv)'
  BY <1>1, <1>3, SameGraph DEF IInv, Position, SavedInv, DidInv, EndInv, ValueInv, process,
     locals, history
<1>7. RowInv'
  BY <1>1, <1>4 DEF IInv, RowInv, NoRow, history
<1> QED
  BY <1>2, <1>5, <1>6, <1>7 DEF IInv

(* The process dies: the locals and the spool are lost.                    *)
LEMMA CrashInv == ASSUME IInv, Crash PROVE IInv'
<1>1. /\ inc' = inc + 1 /\ spool' = <<>> /\ fileErr' = FALSE /\ pc' = "idle"
      /\ Enter({}, {}, FALSE)
      /\ UNCHANGED <<graph, exec, row, files, att, did, got, cleaned, finisher>>
  BY DEF Crash, durable, history
<1>2. /\ (Order /\ LeftInv /\ InputInv)' /\ running' = {} /\ ToStore' = {} /\ Started' = {}
      /\ done' = {} /\ avail' = {} /\ keep' = FALSE
      /\ left' \in [Node -> Nat] /\ result' = [n \in Node |-> "none"]
  BY <1>1, EnterFacts
<1>3. Types'
  <2>1. spool' \in Seq(Files) /\ inc' \in Nat \ {0}
    BY <1>1 DEF IInv, Types
  <2>2. result' \in [Node -> {"none", "ok", "err"}]
    BY <1>2
  <2> QED
    BY <1>1, <1>2, <2>1, <2>2 DEF IInv, Types
<1>4. (Position /\ RowInv /\ SavedInv)'
  BY <1>1, <1>2 DEF IInv, Position, RowInv, SavedInv
<1>5. (DidInv /\ EndInv)'
  BY <1>1, <1>2, SameGraph DEF IInv, DidInv, EndInv
<1>6. ValueInv'
  <2>1. \A n \in Node : Saved(n)' = Saved(n) /\ Restorable(n)' = Restorable(n)
    BY <1>1 DEF Saved, Restorable, Readable
  <2>2. graph.emits \subseteq Node /\ \A n \in Node : Consumers(n) \subseteq Node
    BY GraphFacts DEF IInv, Types
  <2> QED
    BY <1>1, <1>2, <2>1, <2>2, SameGraph DEF IInv, ValueInv
<1> QED
  BY <1>2, <1>3, <1>4, <1>5, <1>6 DEF IInv

(* Before the drain.                                                       *)
LEMMA InitInv == Init => IInv
<1> SUFFICES ASSUME Init PROVE IInv
  OBVIOUS
<1>1. ToStore = {} /\ Started = {}
  BY DEF Init, ToStore, Started
<1>2. \A n \in Node : Cardinality(Consumers(n)) \in Nat
  BY BoundsAssumption, FS_Subset, FS_CardinalityType DEF Consumers
<1>3. graph.emits \subseteq Node
  BY GraphAssumption DEF Init
<1>4. Types
  <2>1. NoRow \in [status : {"absent", "pending", "completed", "failed"},
                   known : BOOLEAN, file : Files \union {NoFile}]
    BY DEF NoRow
  <2>2. spool \in Seq(Files)
    BY DEF Init
  <2>3. row \in [Node -> [status : {"absent", "pending", "completed", "failed"},
                          known : BOOLEAN, file : Files \union {NoFile}]]
    BY <2>1 DEF Init
  <2>4. /\ left \in [Node -> Nat] /\ got \in [Node -> SUBSET Node]
        /\ result \in [Node -> {"none", "ok", "err"}]
    BY <1>2 DEF Init
  <2>5. graph \in Graphs /\ files \subseteq Files
    BY DEF Init
  <2>6. /\ pc = "idle" /\ exec = "none" /\ inc = 1 /\ att = 0
        /\ keep \in BOOLEAN /\ fileErr \in BOOLEAN /\ cleaned \in BOOLEAN
    BY DEF Init
  <2>7. done \subseteq Node /\ avail \subseteq Node /\ running \subseteq Node
    BY DEF Init
  <2> QED
    BY <2>2, <2>3, <2>4, <2>5, <2>6, <2>7 DEF Types
<1>5. Position /\ Order /\ InputInv /\ RowInv /\ SavedInv /\ EndInv
  BY <1>1 DEF Init, Position, Order, InputInv, RowInv, SavedInv, EndInv, NoRow
<1>6. LeftInv
  <2>1. \A n \in Node : Consumers(n) \ {} = Consumers(n)
    OBVIOUS
  <2> QED
    BY <1>1, <1>2, <2>1 DEF Init, LeftInv
<1>7. DidInv
  BY DEF Init, DidInv
<1>8. ValueInv
  BY <1>1, <1>3 DEF Init, ValueInv, Saved, NoRow
<1> QED
  BY <1>4, <1>5, <1>6, <1>7, <1>8 DEF IInv

(* Every step keeps the invariant. *)
LEMMA NextInv == ASSUME IInv, [Next]_vars PROVE IInv'
<1>1. CASE Step
  BY <1>1, CreateRowInv, StartLevelInv, MarkFailedInv, MarkFlushInv, MarkStatusInv, MarkRowsInv,
     CreateNodeRowInv, RunNodeInv, StoreOkInv, StoreRefusedInv, StoreErrInv DEF Step
<1>2. CASE UNCHANGED vars
  <2>1. UNCHANGED <<graph, locals>> /\ UNCHANGED <<exec, row, files, process, pc, history>>
    BY <1>2 DEF vars, locals, process, history
  <2>2. (Order /\ LeftInv /\ InputInv)'
    BY <2>1, LocalsKept
  <2>3. ValueInv'
    BY <2>1, ValuesKept DEF history
  <2>4. ToStore' = ToStore
    BY <2>1 DEF locals, ToStore
  <2>5. (Types /\ Position /\ RowInv /\ SavedInv /\ DidInv /\ EndInv)'
    BY <2>1, <2>4, SameGraph DEF IInv, Types, Position, RowInv, SavedInv, ReadBack, Saved,
       DidInv, EndInv, process, locals, history
  <2> QED
    BY <2>2, <2>3, <2>5 DEF IInv
<1> QED
  BY <1>1, <1>2, DrainInv, ResumeInv, ResumeRefusedInv, SpillWriteInv, CrashInv DEF Next

(* The invariant holds in every reachable state, for every finite graph whose *)
(* edges go upwards and whatever the number of crashes and failed writes.  *)
THEOREM Invariance == Spec => []IInv
<1>1. IInv /\ [Next]_vars => IInv'
  BY NextInv
<1> QED
  BY <1>1, InitInv, PTL DEF Spec
-----------------------------------------------------------------------------
(* The theorems                                                            *)

(* An execution that mark_completed recorded as completed has executed every *)
(* node on the branches that are taken, in one attempt or another, and the *)
(* directory of the process that recorded it stays empty: no batch of the  *)
(* writing thread comes after nettoyer_apres_fin.                          *)
THEOREM CompletedIsTheEndHolds == Spec => []CompletedIsTheEnd
<1>1. IInv => CompletedIsTheEnd
  BY DEF IInv, DidInv, EndInv, CompletedIsTheEnd, CompletedMeansAllDone,
     NothingWrittenAfterTheEnd
<1> QED
  BY <1>1, Invariance, PTL

(* The store of ports through skips, hand-outs and restores: the count of  *)
(* readers (a usize) never goes below zero, a value that a node still waits *)
(* for is there, at the end exactly the values that no node of the attempt *)
(* reads are left (nobody's, or of readers that were all restored), and a  *)
(* level with nodes left always finds one that is ready, so that the       *)
(* "deadlock" error is never met.                                          *)
THEOREM PortsAreSoundHolds == Spec => []PortsAreSound
<1>1. IInv => PortsAreSound
  <2> SUFFICES ASSUME IInv PROVE PortsAreSound
    OBVIOUS
  <2>1. \A n \in Node : left[n] \in 0 .. Cardinality(Consumers(n))
    <3> TAKE n \in Node
    <3>1. IsFiniteSet(Consumers(n)) /\ Cardinality(Consumers(n)) \in Nat
      BY BoundsAssumption, FS_Subset, FS_CardinalityType DEF Consumers
    <3>2. left[n] \in Nat /\ left[n] <= Cardinality(Consumers(n))
      BY DEF IInv, Types, LeftInv
    <3> QED
      BY <3>1, <3>2
  <2>2. TypeOK
    BY <2>1 DEF IInv, Types, Order, TypeOK
  <2>3. InputStillThere
    BY DEF IInv, InputInv, InputStillThere, Started
  <2>4. EveryReaderCounted
    <3> SUFFICES ASSUME pc = "end", NEW n \in avail
                 PROVE  left[n] = 0 /\ (n \in data <=> Consumers(n) \subseteq restored)
      BY DEF EveryReaderCounted
    <3>1. n \in Node /\ done = Node
      BY DEF IInv, Types, Position
    <3>2. Consumers(n) \subseteq Started
      BY <3>1 DEF Consumers, Started
    <3>3. Cardinality(Consumers(n) \ Started) = 0
      BY <3>1, <3>2, NoneLeft
    <3> QED
      BY <3>1, <3>2, <3>3 DEF IInv, LeftInv, InputInv
  <2>5. SomeNodeIsReady
    <3> DEFINE finished == done \union Skipped
    <3> SUFFICES ASSUME pc = "level", finished # Node PROVE ReadyAfter(finished) # {}
      BY DEF SomeNodeIsReady
    <3>1. Skipped \subseteq Node /\ done \subseteq Node
      BY DEF Skipped, IInv, Types
    <3>2. PICK n \in Node \ finished : \A m \in Node \ finished : n <= m
      <4>1. Node \ finished \in SUBSET Node /\ Node \ finished # {}
        BY <3>1
      <4> HIDE DEF finished
      <4> QED
        BY <4>1, SmallestNode
    <3>3. Producers(n) \subseteq finished
      <4> SUFFICES ASSUME NEW m \in Producers(n), m \notin finished PROVE FALSE
        OBVIOUS
      <4>1. m \in Node /\ m < n
        BY GraphFacts DEF IInv, Types
      <4> QED
        BY <3>2, <4>1, BoundsAssumption
    <3>4. \A p \in PortsOf(n) : p.required => p.from \intersect avail # {}
      <4>1. n \notin SkipReason(Skipped)
        BY <3>2, SkippedIsFixpoint
      <4> QED
        BY <3>2, <3>3, <4>1 DEF SkipReason
    <3>5. n \in ReadyAfter(finished)
      BY <3>2, <3>3, <3>4, GraphFacts DEF ReadyAfter, IInv, Types
    <3> QED
      BY <3>5
  <2> QED
    BY <2>2, <2>3, <2>4, <2>5 DEF PortsAreSound
<1> QED
  BY <1>1, Invariance, PTL

(* A node is started with the values that an uninterrupted run hands it, and *)
(* no node on a branch that is taken is skipped, whichever producers were  *)
(* restored, replayed or saved without their value.  The exception is a    *)
(* resume after mark_completed removed the files of an end it did not record. *)
THEOREM StartedWithItsInputsHolds == Spec => []StartedWithItsInputs
<1>1. IInv => StartedWithItsInputs
  <2> SUFFICES ASSUME IInv, ~cleaned PROVE LikeUninterrupted
    BY DEF StartedWithItsInputs
  <2>1. CASE exec = "completed"
    BY <2>1 DEF IInv, Position, LikeUninterrupted
  <2>2. CASE exec # "completed"
    BY <2>2, SkippedIsNotTaken DEF IInv, ValueInv, LikeUninterrupted
  <2> QED
    BY <2>1, <2>2
<1> QED
  BY <1>1, Invariance, PTL

(* A step never starts a node whose completed row and batch read back, and *)
(* no step leaves the status completed or executes a node under it.        *)
THEOREM DoneIsNotRedoneHolds == Spec => DoneIsNotRedone
<1>1. IInv /\ [Next]_vars =>
        [\A n \in running' \ running : ~(Saved(n) /\ Readable(row[n].file))]_vars
  <2> SUFFICES ASSUME IInv, Next, NEW n \in running' \ running
               PROVE  ~(Saved(n) /\ Readable(row[n].file))
    BY DEF vars
  <2>1. StartLevel
    BY DEF Next, Step, Drain, Resume, ResumeRefused, SpillWrite, Crash, Enter, CreateRow,
       CreateNodeRow, RunNode, StoreOk, StoreRefused, StoreErr, MarkFailed, MarkFlush,
       MarkStatus,
       MarkRows, locals
  <2>2. n \in Node \ done /\ pc = "level"
    BY <2>1 DEF StartLevel, ReadyAfter
  <2> QED
    BY <2>2 DEF IInv, SavedInv, ReadBack, Readable
<1>2. IInv /\ [Next]_vars =>
        [exec = "completed" => exec' = "completed" /\ running' = running]_vars
  <2> SUFFICES ASSUME IInv, Next, exec = "completed"
               PROVE  exec' = "completed" /\ running' = running
    BY DEF vars
  <2>1. pc \in {"idle", "forget"} /\ running = {}
    BY DEF IInv, Position
  <2>2. CASE Step
    BY <2>1, <2>2 DEF Step, CreateRow, StartLevel, CreateNodeRow, RunNode, StoreOk,
       StoreRefused, StoreErr, MarkFailed, MarkFlush, MarkStatus, MarkRows, locals
  <2> QED
    BY <2>1, <2>2 DEF Next, Drain, Resume, IsIncomplete, ResumeRefused, SpillWrite, Crash,
       Enter, durable, locals
<1> QED
  BY <1>1, <1>2, Invariance, PTL DEF Spec, DoneIsNotRedone, SavedIsNotReplayed, CompletedIsFinal
=============================================================================
