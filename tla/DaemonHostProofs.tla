-------------------------- MODULE DaemonHostProofs --------------------------
(***************************************************************************)
(* BackendIsWhole and HealthyIsKept for any number of request threads,     *)
(* requests and calls of the agent.                                        *)
(***************************************************************************)
EXTENDS DaemonHost, TLAPS, FiniteSetTheorems

Pc == {"rest", "recv", "gone", "look", "open", "take", "reopen", "run", "letgo",
       "reread", "close", "stop"}

(* The types of the slot, of the threads and of the way out. *)
SlotTyped ==
    /\ opened \in Nat /\ slot \in 0..opened
    /\ sick \in BOOLEAN /\ indexing \in BOOLEAN /\ late \in BOOLEAN
ThreadTyped ==
    thread \in [Thread -> [pc : Pc, inst : Nat, reopened : BOOLEAN]]
EndTyped ==
    /\ stopping \in BOOLEAN
    /\ idler \in {"watch", "check", "stop", "gone"}
    /\ main \in {"serve", "cancel", "closed", "exit"}
QueueTyped == queue \in Seq({"request", "error", "unblock"})

(* A call keeps the instance it took. *)
ReadersHold == \A t \in Thread : At(t, "run") => slot = thread[t].inst

(* The instance a call has seen was opened, and the one it is to let go is *)
(* still the sick one if it is open at all.                                *)
InstIsPast == \A t \in Thread : thread[t].inst <= opened
LetGoIsSick ==
    \A t \in Thread : At(t, "letgo") /\ opened = thread[t].inst /\ slot # 0 => sick

(* Past the join no worker is left, and past the closing nothing is open   *)
(* but what the history variable owns up to.                               *)
WorkersAreGone == main # "serve" => \A w \in Worker : At(w, "gone")
ClosedIsClosed == main \in {"closed", "exit"} => slot = 0 \/ late

(* The inductive invariant. *)
IInv ==
    /\ SlotTyped /\ ThreadTyped /\ EndTyped /\ QueueTyped
    /\ ReadersHold /\ InstIsPast /\ LetGoIsSick
    /\ WorkersAreGone /\ ClosedIsClosed

-----------------------------------------------------------------------------
(* What is done to the slot under its write lock keeps its type. *)
LEMMA SlotOps ==
    ASSUME SlotTyped, OpenNew \/ Empty \/ UNCHANGED slotVars PROVE SlotTyped'
<1>1. CASE OpenNew
  <2>1. opened' \in Nat /\ slot' \in 0..opened'
    BY <1>1 DEF OpenNew, SlotTyped
  <2>2. late' \in BOOLEAN /\ sick' \in BOOLEAN /\ indexing' \in BOOLEAN
    BY <1>1 DEF OpenNew, Clear
  <2> QED
    BY <2>1, <2>2 DEF SlotTyped
<1>2. CASE Empty
  <2>1. slot' = 0 /\ opened' = opened /\ late' = late
    BY <1>2 DEF Empty
  <2>2. sick' \in BOOLEAN /\ indexing' \in BOOLEAN
    BY <1>2 DEF Empty, Clear
  <2> QED
    BY <2>1, <2>2 DEF SlotTyped
<1>3. CASE UNCHANGED slotVars
  BY <1>3 DEF SlotTyped, slotVars
<1> QED
  BY <1>1, <1>2, <1>3

(* A thread that goes on, or is done, keeps its type. *)
LEMMA ThreadOps ==
    ASSUME ThreadTyped, NEW t \in Thread,
           Done(t) \/ (\E pc \in Pc : Go(t, pc)) \/ UNCHANGED thread
    PROVE  ThreadTyped'
<1>1. CASE Done(t)
  BY <1>1 DEF Done, Resting, ThreadTyped, Pc
<1>2. ASSUME NEW pc \in Pc, Go(t, pc) PROVE ThreadTyped'
  BY <1>2 DEF Go, ThreadTyped
<1> QED
  BY <1>1, <1>2 DEF ThreadTyped

(* The slot keeps its type. *)
LEMMA StepSlotTyped == IInv /\ Next => SlotTyped'
<1> SUFFICES ASSUME IInv, Next PROVE SlotTyped'
  OBVIOUS
<1> USE AgentAssumption DEF IInv, SlotTyped, ThreadTyped, EndTyped, Thread
<1>1. ASSUME NEW t \in Thread, Look(t), t = Agent => Running PROVE SlotTyped'
  BY <1>1 DEF Look, slotVars, endVars, Go, Same
<1>2. ASSUME NEW t \in Thread, OpenClosed(t), t = Agent => Running PROVE SlotTyped'
  <2>1. OpenNew \/ Empty \/ UNCHANGED slotVars
    BY <1>2 DEF OpenClosed, OpenSlot
  <2> QED
    BY <2>1, SlotOps
<1>3. ASSUME NEW t \in Thread, Take(t), t = Agent => Running PROVE SlotTyped'
  BY <1>3 DEF Take, slotVars, endVars, Done, Resting, Same
<1>4. ASSUME NEW t \in Thread, Reopen(t), t = Agent => Running PROVE SlotTyped'
  <2>1. OpenNew \/ Empty \/ UNCHANGED slotVars
    BY <1>4 DEF Reopen
  <2> QED
    BY <2>1, SlotOps
<1>5. ASSUME NEW t \in Thread, Serve(t), t = Agent => Running PROVE SlotTyped'
  BY <1>5 DEF Serve, slotVars, endVars, Done, Resting, Same
<1>6. ASSUME NEW t \in Thread, LetGo(t), t = Agent => Running PROVE SlotTyped'
  <2>1. OpenNew \/ Empty \/ UNCHANGED slotVars
    BY <1>6 DEF LetGo
  <2> QED
    BY <2>1, SlotOps
<1>7. ASSUME NEW t \in Thread, OpenRequest(t), t = Agent => Running PROVE SlotTyped'
  <2>1. OpenNew \/ Empty \/ UNCHANGED slotVars
    BY <1>7 DEF OpenRequest, OpenSlot
  <2> QED
    BY <2>1, SlotOps
<1>8. ASSUME NEW t \in Thread, CloseRequest(t), t = Agent => Running PROVE SlotTyped'
  <2>1. OpenNew \/ Empty \/ UNCHANGED slotVars
    BY <1>8 DEF CloseRequest
  <2> QED
    BY <2>1, SlotOps
<1>9. ASSUME NEW t \in Thread, WriteRefused(t), t = Agent => Running PROVE SlotTyped'
  BY <1>9 DEF WriteRefused, slotVars, endVars, Done, Resting, Same
<1>10. ASSUME NEW w \in Worker, WorkerLoop(w) PROVE SlotTyped'
  BY <1>10 DEF WorkerLoop, slotVars, endVars, Go
<1>11. ASSUME NEW w \in Worker, Recv(w) PROVE SlotTyped'
  BY <1>11 DEF Recv, slotVars, endVars, Go, Entries
<1>12. ASSUME NEW w \in Worker, StopRequest(w) PROVE SlotTyped'
  BY <1>12 DEF StopRequest, slotVars, endVars, StopServer, Go
<1>13. ASSUME Arrive PROVE SlotTyped'
  BY <1>13 DEF Arrive, slotVars, endVars
<1>14. ASSUME AgentTakes PROVE SlotTyped'
  BY <1>14 DEF AgentTakes, slotVars, endVars, Go
<1>15. ASSUME Signal PROVE SlotTyped'
  BY <1>15 DEF Signal, slotVars, endVars, StopServer
<1>16. ASSUME IdleLook PROVE SlotTyped'
  BY <1>16 DEF IdleLook, slotVars, endVars
<1>17. ASSUME IdleCheck PROVE SlotTyped'
  BY <1>17 DEF IdleCheck, slotVars, endVars
<1>18. ASSUME IdleStop PROVE SlotTyped'
  BY <1>18 DEF IdleStop, slotVars, endVars, StopServer
<1>19. ASSUME IdlerLeave PROVE SlotTyped'
  BY <1>19 DEF IdlerLeave, slotVars, endVars
<1>20. ASSUME Join PROVE SlotTyped'
  BY <1>20 DEF Join, slotVars, endVars
<1>21. ASSUME Shutdown PROVE SlotTyped'
  <2>1. CASE CanWrite
    BY <1>21, <2>1, SlotOps DEF Shutdown
  <2>2. CASE ~CanWrite
    BY <1>21, <2>2 DEF Shutdown
  <2> QED
    BY <2>1, <2>2
<1>22. ASSUME Exit PROVE SlotTyped'
  BY <1>22 DEF Exit, slotVars, endVars
<1>23. ASSUME Sicken PROVE SlotTyped'
  BY <1>23 DEF Sicken, slotVars, endVars, Beside
<1>24. ASSUME IndexingEnds PROVE SlotTyped'
  BY <1>24 DEF IndexingEnds, slotVars, endVars, Beside
<1> QED
  BY <1>1, <1>2, <1>3, <1>4, <1>5, <1>6, <1>7, <1>8, <1>9, <1>10, <1>11, <1>12, <1>13, <1>14, <1>15, <1>16, <1>17, <1>18, <1>19, <1>20, <1>21, <1>22, <1>23, <1>24
  DEF Next, WorkerStep, WithBackend, IdlerStep, MainStep, Thread

(* The threads keep their types. *)
LEMMA StepThreadTyped == IInv /\ Next => ThreadTyped'
<1> SUFFICES ASSUME IInv, Next PROVE ThreadTyped'
  OBVIOUS
<1> USE AgentAssumption DEF IInv, SlotTyped, ThreadTyped, EndTyped, Thread, Pc, At
<1>1. ASSUME NEW t \in Thread, Look(t), t = Agent => Running PROVE ThreadTyped'
  BY <1>1 DEF Look, slotVars, endVars, Go, Same
<1>2. ASSUME NEW t \in Thread, OpenClosed(t), t = Agent => Running PROVE ThreadTyped'
  <2>1. Go(t, "take") \/ Done(t)
    BY <1>2 DEF OpenClosed, OpenSlot
  <2> QED
    BY <2>1, ThreadOps
<1>3. ASSUME NEW t \in Thread, Take(t), t = Agent => Running PROVE ThreadTyped'
  <2>1. CASE Done(t)
    BY <2>1, ThreadOps
  <2>2. CASE thread' = [thread EXCEPT ![t].pc = "run", ![t].inst = slot]
    BY <2>2
  <2>3. CASE thread' = [thread EXCEPT ![t] = [pc |-> "reopen", inst |-> opened, reopened |-> TRUE]]
    BY <2>3
  <2> QED
    BY <1>3, <2>1, <2>2, <2>3 DEF Take
<1>4. ASSUME NEW t \in Thread, Reopen(t), t = Agent => Running PROVE ThreadTyped'
  <2>1. CASE Done(t)
    BY <2>1, ThreadOps
  <2>2. CASE thread' = [thread EXCEPT ![t].pc = "take", ![t].inst = 0]
    BY <2>2
  <2> QED
    BY <1>4, <2>1, <2>2 DEF Reopen
<1>5. ASSUME NEW t \in Thread, Serve(t), t = Agent => Running PROVE ThreadTyped'
  <2>1. Go(t, "letgo") \/ Done(t)
    BY <1>5 DEF Serve, Go
  <2> QED
    BY <2>1, ThreadOps
<1>6. ASSUME NEW t \in Thread, LetGo(t), t = Agent => Running PROVE ThreadTyped'
  BY <1>6 DEF LetGo, slotVars, endVars, Empty, Clear, Done, Resting, Same
<1>7. ASSUME NEW t \in Thread, OpenRequest(t), t = Agent => Running PROVE ThreadTyped'
  <2>1. Go(t, "look") \/ Done(t)
    BY <1>7 DEF OpenRequest, OpenSlot
  <2> QED
    BY <2>1, ThreadOps
<1>8. ASSUME NEW t \in Thread, CloseRequest(t), t = Agent => Running PROVE ThreadTyped'
  BY <1>8 DEF CloseRequest, slotVars, endVars, Empty, Clear, Done, Resting, Same
<1>9. ASSUME NEW t \in Thread, WriteRefused(t), t = Agent => Running PROVE ThreadTyped'
  BY <1>9 DEF WriteRefused, slotVars, endVars, Done, Resting, Same
<1>10. ASSUME NEW w \in Worker, WorkerLoop(w) PROVE ThreadTyped'
  BY <1>10 DEF WorkerLoop, slotVars, endVars, Go
<1>11. ASSUME NEW w \in Worker, Recv(w) PROVE ThreadTyped'
  <2>1. \E pc \in Pc : Go(w, pc)
    BY <1>11 DEF Recv, Entries
  <2> QED
    BY <2>1, ThreadOps
<1>12. ASSUME NEW w \in Worker, StopRequest(w) PROVE ThreadTyped'
  BY <1>12 DEF StopRequest, slotVars, endVars, StopServer, Go
<1>13. ASSUME Arrive PROVE ThreadTyped'
  BY <1>13 DEF Arrive, slotVars, endVars
<1>14. ASSUME AgentTakes PROVE ThreadTyped'
  BY <1>14 DEF AgentTakes, slotVars, endVars, Go
<1>15. ASSUME Signal PROVE ThreadTyped'
  BY <1>15 DEF Signal, slotVars, endVars, StopServer
<1>16. ASSUME IdleLook PROVE ThreadTyped'
  BY <1>16 DEF IdleLook, slotVars, endVars
<1>17. ASSUME IdleCheck PROVE ThreadTyped'
  BY <1>17 DEF IdleCheck, slotVars, endVars
<1>18. ASSUME IdleStop PROVE ThreadTyped'
  BY <1>18 DEF IdleStop, slotVars, endVars, StopServer
<1>19. ASSUME IdlerLeave PROVE ThreadTyped'
  BY <1>19 DEF IdlerLeave, slotVars, endVars
<1>20. ASSUME Join PROVE ThreadTyped'
  BY <1>20 DEF Join, slotVars, endVars
<1>21. ASSUME Shutdown PROVE ThreadTyped'
  BY <1>21 DEF Shutdown, slotVars, endVars, Empty, Clear
<1>22. ASSUME Exit PROVE ThreadTyped'
  BY <1>22 DEF Exit, slotVars, endVars
<1>23. ASSUME Sicken PROVE ThreadTyped'
  BY <1>23 DEF Sicken, slotVars, endVars, Beside
<1>24. ASSUME IndexingEnds PROVE ThreadTyped'
  BY <1>24 DEF IndexingEnds, slotVars, endVars, Beside
<1> QED
  BY <1>1, <1>2, <1>3, <1>4, <1>5, <1>6, <1>7, <1>8, <1>9, <1>10, <1>11, <1>12, <1>13, <1>14, <1>15, <1>16, <1>17, <1>18, <1>19, <1>20, <1>21, <1>22, <1>23, <1>24
  DEF Next, WorkerStep, WithBackend, IdlerStep, MainStep, Thread

(* The way out keeps its type. *)
LEMMA StepEndTyped == IInv /\ Next => EndTyped'
<1> SUFFICES ASSUME IInv, Next PROVE EndTyped'
  OBVIOUS
<1> USE AgentAssumption DEF IInv, SlotTyped, ThreadTyped, EndTyped, Thread
<1>1. ASSUME NEW t \in Thread, Look(t), t = Agent => Running PROVE EndTyped'
  BY <1>1 DEF Look, slotVars, endVars, Go, Same
<1>2. ASSUME NEW t \in Thread, OpenClosed(t), t = Agent => Running PROVE EndTyped'
  BY <1>2 DEF OpenClosed, slotVars, endVars, OpenSlot, OpenNew, Clear, Go, Done, Resting, Same
<1>3. ASSUME NEW t \in Thread, Take(t), t = Agent => Running PROVE EndTyped'
  BY <1>3 DEF Take, slotVars, endVars, Done, Resting, Same
<1>4. ASSUME NEW t \in Thread, Reopen(t), t = Agent => Running PROVE EndTyped'
  BY <1>4 DEF Reopen, slotVars, endVars, OpenNew, Empty, Clear, Done, Resting, Same
<1>5. ASSUME NEW t \in Thread, Serve(t), t = Agent => Running PROVE EndTyped'
  BY <1>5 DEF Serve, slotVars, endVars, Done, Resting, Same
<1>6. ASSUME NEW t \in Thread, LetGo(t), t = Agent => Running PROVE EndTyped'
  BY <1>6 DEF LetGo, slotVars, endVars, Empty, Clear, Done, Resting, Same
<1>7. ASSUME NEW t \in Thread, OpenRequest(t), t = Agent => Running PROVE EndTyped'
  BY <1>7 DEF OpenRequest, slotVars, endVars, OpenSlot, OpenNew, Empty, Clear, Go, Done, Resting, Same
<1>8. ASSUME NEW t \in Thread, CloseRequest(t), t = Agent => Running PROVE EndTyped'
  BY <1>8 DEF CloseRequest, slotVars, endVars, Empty, Clear, Done, Resting, Same
<1>9. ASSUME NEW t \in Thread, WriteRefused(t), t = Agent => Running PROVE EndTyped'
  BY <1>9 DEF WriteRefused, slotVars, endVars, Done, Resting, Same
<1>10. ASSUME NEW w \in Worker, WorkerLoop(w) PROVE EndTyped'
  BY <1>10 DEF WorkerLoop, slotVars, endVars, Go
<1>11. ASSUME NEW w \in Worker, Recv(w) PROVE EndTyped'
  BY <1>11 DEF Recv, slotVars, endVars, Go, Entries
<1>12. ASSUME NEW w \in Worker, StopRequest(w) PROVE EndTyped'
  BY <1>12 DEF StopRequest, slotVars, endVars, StopServer, Go
<1>13. ASSUME Arrive PROVE EndTyped'
  BY <1>13 DEF Arrive, slotVars, endVars
<1>14. ASSUME AgentTakes PROVE EndTyped'
  BY <1>14 DEF AgentTakes, slotVars, endVars, Go
<1>15. ASSUME Signal PROVE EndTyped'
  BY <1>15 DEF Signal, slotVars, endVars, StopServer
<1>16. ASSUME IdleLook PROVE EndTyped'
  BY <1>16 DEF IdleLook, slotVars, endVars
<1>17. ASSUME IdleCheck PROVE EndTyped'
  BY <1>17 DEF IdleCheck, slotVars, endVars
<1>18. ASSUME IdleStop PROVE EndTyped'
  BY <1>18 DEF IdleStop, slotVars, endVars, StopServer
<1>19. ASSUME IdlerLeave PROVE EndTyped'
  BY <1>19 DEF IdlerLeave, slotVars, endVars
<1>20. ASSUME Join PROVE EndTyped'
  BY <1>20 DEF Join, slotVars, endVars
<1>21. ASSUME Shutdown PROVE EndTyped'
  BY <1>21 DEF Shutdown, slotVars, endVars, Empty, Clear
<1>22. ASSUME Exit PROVE EndTyped'
  BY <1>22 DEF Exit, slotVars, endVars
<1>23. ASSUME Sicken PROVE EndTyped'
  BY <1>23 DEF Sicken, slotVars, endVars, Beside
<1>24. ASSUME IndexingEnds PROVE EndTyped'
  BY <1>24 DEF IndexingEnds, slotVars, endVars, Beside
<1> QED
  BY <1>1, <1>2, <1>3, <1>4, <1>5, <1>6, <1>7, <1>8, <1>9, <1>10, <1>11, <1>12, <1>13, <1>14, <1>15, <1>16, <1>17, <1>18, <1>19, <1>20, <1>21, <1>22, <1>23, <1>24
  DEF Next, WorkerStep, WithBackend, IdlerStep, MainStep, Thread

(* What is done to the slot leaves the calls their instance. *)
LEMMA StepReaders == IInv /\ Next => ReadersHold'
<1> SUFFICES ASSUME IInv, Next PROVE ReadersHold'
  OBVIOUS
<1> USE AgentAssumption DEF IInv, SlotTyped, ThreadTyped, EndTyped, ReadersHold, Thread, At, CanWrite, Readers
<1>1. ASSUME NEW t \in Thread, Look(t), t = Agent => Running PROVE ReadersHold'
  BY <1>1 DEF Look, slotVars, endVars, Go, Same
<1>2. ASSUME NEW t \in Thread, OpenClosed(t), t = Agent => Running PROVE ReadersHold'
  BY <1>2 DEF OpenClosed, slotVars, endVars, OpenSlot, OpenNew, Clear, Go, Done, Resting, Same
<1>3. ASSUME NEW t \in Thread, Take(t), t = Agent => Running PROVE ReadersHold'
  BY <1>3 DEF Take, slotVars, endVars, Done, Resting, Same
<1>4. ASSUME NEW t \in Thread, Reopen(t), t = Agent => Running PROVE ReadersHold'
  BY <1>4 DEF Reopen, slotVars, endVars, OpenNew, Empty, Clear, Done, Resting, Same
<1>5. ASSUME NEW t \in Thread, Serve(t), t = Agent => Running PROVE ReadersHold'
  BY <1>5 DEF Serve, slotVars, endVars, Done, Resting, Same
<1>6. ASSUME NEW t \in Thread, LetGo(t), t = Agent => Running PROVE ReadersHold'
  BY <1>6 DEF LetGo, slotVars, endVars, Empty, Clear, Done, Resting, Same
<1>7. ASSUME NEW t \in Thread, OpenRequest(t), t = Agent => Running PROVE ReadersHold'
  BY <1>7 DEF OpenRequest, slotVars, endVars, OpenSlot, OpenNew, Empty, Clear, Go, Done, Resting, Same
<1>8. ASSUME NEW t \in Thread, CloseRequest(t), t = Agent => Running PROVE ReadersHold'
  BY <1>8 DEF CloseRequest, slotVars, endVars, Empty, Clear, Done, Resting, Same
<1>9. ASSUME NEW t \in Thread, WriteRefused(t), t = Agent => Running PROVE ReadersHold'
  BY <1>9 DEF WriteRefused, slotVars, endVars, Done, Resting, Same
<1>10. ASSUME NEW w \in Worker, WorkerLoop(w) PROVE ReadersHold'
  BY <1>10 DEF WorkerLoop, slotVars, endVars, Go
<1>11. ASSUME NEW w \in Worker, Recv(w) PROVE ReadersHold'
  BY <1>11 DEF Recv, slotVars, endVars, Go, Entries
<1>12. ASSUME NEW w \in Worker, StopRequest(w) PROVE ReadersHold'
  BY <1>12 DEF StopRequest, slotVars, endVars, StopServer, Go
<1>13. ASSUME Arrive PROVE ReadersHold'
  BY <1>13 DEF Arrive, slotVars, endVars
<1>14. ASSUME AgentTakes PROVE ReadersHold'
  BY <1>14 DEF AgentTakes, slotVars, endVars, Go
<1>15. ASSUME Signal PROVE ReadersHold'
  BY <1>15 DEF Signal, slotVars, endVars, StopServer
<1>16. ASSUME IdleLook PROVE ReadersHold'
  BY <1>16 DEF IdleLook, slotVars, endVars
<1>17. ASSUME IdleCheck PROVE ReadersHold'
  BY <1>17 DEF IdleCheck, slotVars, endVars
<1>18. ASSUME IdleStop PROVE ReadersHold'
  BY <1>18 DEF IdleStop, slotVars, endVars, StopServer
<1>19. ASSUME IdlerLeave PROVE ReadersHold'
  BY <1>19 DEF IdlerLeave, slotVars, endVars
<1>20. ASSUME Join PROVE ReadersHold'
  BY <1>20 DEF Join, slotVars, endVars
<1>21. ASSUME Shutdown PROVE ReadersHold'
  BY <1>21 DEF Shutdown, slotVars, endVars, Empty, Clear
<1>22. ASSUME Exit PROVE ReadersHold'
  BY <1>22 DEF Exit, slotVars, endVars
<1>23. ASSUME Sicken PROVE ReadersHold'
  BY <1>23 DEF Sicken, slotVars, endVars, Beside
<1>24. ASSUME IndexingEnds PROVE ReadersHold'
  BY <1>24 DEF IndexingEnds, slotVars, endVars, Beside
<1> QED
  BY <1>1, <1>2, <1>3, <1>4, <1>5, <1>6, <1>7, <1>8, <1>9, <1>10, <1>11, <1>12, <1>13, <1>14, <1>15, <1>16, <1>17, <1>18, <1>19, <1>20, <1>21, <1>22, <1>23, <1>24
  DEF Next, WorkerStep, WithBackend, IdlerStep, MainStep, Thread

(* An instance seen was opened. *)
LEMMA StepInst == IInv /\ Next => InstIsPast'
<1> SUFFICES ASSUME IInv, Next PROVE InstIsPast'
  OBVIOUS
<1> USE AgentAssumption DEF IInv, SlotTyped, ThreadTyped, EndTyped, InstIsPast, Thread, At
<1>1. ASSUME NEW t \in Thread, Look(t), t = Agent => Running PROVE InstIsPast'
  BY <1>1 DEF Look, slotVars, endVars, Go, Same
<1>2. ASSUME NEW t \in Thread, OpenClosed(t), t = Agent => Running PROVE InstIsPast'
  BY <1>2 DEF OpenClosed, slotVars, endVars, OpenSlot, OpenNew, Clear, Go, Done, Resting, Same
<1>3. ASSUME NEW t \in Thread, Take(t), t = Agent => Running PROVE InstIsPast'
  BY <1>3 DEF Take, slotVars, endVars, Done, Resting, Same
<1>4. ASSUME NEW t \in Thread, Reopen(t), t = Agent => Running PROVE InstIsPast'
  BY <1>4 DEF Reopen, slotVars, endVars, OpenNew, Empty, Clear, Done, Resting, Same
<1>5. ASSUME NEW t \in Thread, Serve(t), t = Agent => Running PROVE InstIsPast'
  BY <1>5 DEF Serve, slotVars, endVars, Done, Resting, Same
<1>6. ASSUME NEW t \in Thread, LetGo(t), t = Agent => Running PROVE InstIsPast'
  BY <1>6 DEF LetGo, slotVars, endVars, Empty, Clear, Done, Resting, Same
<1>7. ASSUME NEW t \in Thread, OpenRequest(t), t = Agent => Running PROVE InstIsPast'
  BY <1>7 DEF OpenRequest, slotVars, endVars, OpenSlot, OpenNew, Empty, Clear, Go, Done, Resting, Same
<1>8. ASSUME NEW t \in Thread, CloseRequest(t), t = Agent => Running PROVE InstIsPast'
  BY <1>8 DEF CloseRequest, slotVars, endVars, Empty, Clear, Done, Resting, Same
<1>9. ASSUME NEW t \in Thread, WriteRefused(t), t = Agent => Running PROVE InstIsPast'
  BY <1>9 DEF WriteRefused, slotVars, endVars, Done, Resting, Same
<1>10. ASSUME NEW w \in Worker, WorkerLoop(w) PROVE InstIsPast'
  BY <1>10 DEF WorkerLoop, slotVars, endVars, Go
<1>11. ASSUME NEW w \in Worker, Recv(w) PROVE InstIsPast'
  BY <1>11 DEF Recv, slotVars, endVars, Go, Entries
<1>12. ASSUME NEW w \in Worker, StopRequest(w) PROVE InstIsPast'
  BY <1>12 DEF StopRequest, slotVars, endVars, StopServer, Go
<1>13. ASSUME Arrive PROVE InstIsPast'
  BY <1>13 DEF Arrive, slotVars, endVars
<1>14. ASSUME AgentTakes PROVE InstIsPast'
  BY <1>14 DEF AgentTakes, slotVars, endVars, Go
<1>15. ASSUME Signal PROVE InstIsPast'
  BY <1>15 DEF Signal, slotVars, endVars, StopServer
<1>16. ASSUME IdleLook PROVE InstIsPast'
  BY <1>16 DEF IdleLook, slotVars, endVars
<1>17. ASSUME IdleCheck PROVE InstIsPast'
  BY <1>17 DEF IdleCheck, slotVars, endVars
<1>18. ASSUME IdleStop PROVE InstIsPast'
  BY <1>18 DEF IdleStop, slotVars, endVars, StopServer
<1>19. ASSUME IdlerLeave PROVE InstIsPast'
  BY <1>19 DEF IdlerLeave, slotVars, endVars
<1>20. ASSUME Join PROVE InstIsPast'
  BY <1>20 DEF Join, slotVars, endVars
<1>21. ASSUME Shutdown PROVE InstIsPast'
  BY <1>21 DEF Shutdown, slotVars, endVars, Empty, Clear
<1>22. ASSUME Exit PROVE InstIsPast'
  BY <1>22 DEF Exit, slotVars, endVars
<1>23. ASSUME Sicken PROVE InstIsPast'
  BY <1>23 DEF Sicken, slotVars, endVars, Beside
<1>24. ASSUME IndexingEnds PROVE InstIsPast'
  BY <1>24 DEF IndexingEnds, slotVars, endVars, Beside
<1> QED
  BY <1>1, <1>2, <1>3, <1>4, <1>5, <1>6, <1>7, <1>8, <1>9, <1>10, <1>11, <1>12, <1>13, <1>14, <1>15, <1>16, <1>17, <1>18, <1>19, <1>20, <1>21, <1>22, <1>23, <1>24
  DEF Next, WorkerStep, WithBackend, IdlerStep, MainStep, Thread

(* An instance to let go is sick, or gone. *)
LEMMA StepLetGo == IInv /\ Next => LetGoIsSick'
<1> SUFFICES ASSUME IInv, Next PROVE LetGoIsSick'
  OBVIOUS
<1> USE AgentAssumption DEF IInv, SlotTyped, ThreadTyped, EndTyped, LetGoIsSick, InstIsPast, ReadersHold, Thread, At
<1>1. ASSUME NEW t \in Thread, Look(t), t = Agent => Running PROVE LetGoIsSick'
  BY <1>1 DEF Look, slotVars, endVars, Go, Same
<1>2. ASSUME NEW t \in Thread, OpenClosed(t), t = Agent => Running PROVE LetGoIsSick'
  BY <1>2 DEF OpenClosed, slotVars, endVars, OpenSlot, OpenNew, Clear, Go, Done, Resting, Same
<1>3. ASSUME NEW t \in Thread, Take(t), t = Agent => Running PROVE LetGoIsSick'
  BY <1>3 DEF Take, slotVars, endVars, Done, Resting, Same
<1>4. ASSUME NEW t \in Thread, Reopen(t), t = Agent => Running PROVE LetGoIsSick'
  BY <1>4 DEF Reopen, slotVars, endVars, OpenNew, Empty, Clear, Done, Resting, Same
<1>5. ASSUME NEW t \in Thread, Serve(t), t = Agent => Running PROVE LetGoIsSick'
  BY <1>5 DEF Serve, slotVars, endVars, Done, Resting, Same
<1>6. ASSUME NEW t \in Thread, LetGo(t), t = Agent => Running PROVE LetGoIsSick'
  BY <1>6 DEF LetGo, slotVars, endVars, Empty, Clear, Done, Resting, Same
<1>7. ASSUME NEW t \in Thread, OpenRequest(t), t = Agent => Running PROVE LetGoIsSick'
  BY <1>7 DEF OpenRequest, slotVars, endVars, OpenSlot, OpenNew, Empty, Clear, Go, Done, Resting, Same
<1>8. ASSUME NEW t \in Thread, CloseRequest(t), t = Agent => Running PROVE LetGoIsSick'
  BY <1>8 DEF CloseRequest, slotVars, endVars, Empty, Clear, Done, Resting, Same
<1>9. ASSUME NEW t \in Thread, WriteRefused(t), t = Agent => Running PROVE LetGoIsSick'
  BY <1>9 DEF WriteRefused, slotVars, endVars, Done, Resting, Same
<1>10. ASSUME NEW w \in Worker, WorkerLoop(w) PROVE LetGoIsSick'
  BY <1>10 DEF WorkerLoop, slotVars, endVars, Go
<1>11. ASSUME NEW w \in Worker, Recv(w) PROVE LetGoIsSick'
  BY <1>11 DEF Recv, slotVars, endVars, Go, Entries
<1>12. ASSUME NEW w \in Worker, StopRequest(w) PROVE LetGoIsSick'
  BY <1>12 DEF StopRequest, slotVars, endVars, StopServer, Go
<1>13. ASSUME Arrive PROVE LetGoIsSick'
  BY <1>13 DEF Arrive, slotVars, endVars
<1>14. ASSUME AgentTakes PROVE LetGoIsSick'
  BY <1>14 DEF AgentTakes, slotVars, endVars, Go
<1>15. ASSUME Signal PROVE LetGoIsSick'
  BY <1>15 DEF Signal, slotVars, endVars, StopServer
<1>16. ASSUME IdleLook PROVE LetGoIsSick'
  BY <1>16 DEF IdleLook, slotVars, endVars
<1>17. ASSUME IdleCheck PROVE LetGoIsSick'
  BY <1>17 DEF IdleCheck, slotVars, endVars
<1>18. ASSUME IdleStop PROVE LetGoIsSick'
  BY <1>18 DEF IdleStop, slotVars, endVars, StopServer
<1>19. ASSUME IdlerLeave PROVE LetGoIsSick'
  BY <1>19 DEF IdlerLeave, slotVars, endVars
<1>20. ASSUME Join PROVE LetGoIsSick'
  BY <1>20 DEF Join, slotVars, endVars
<1>21. ASSUME Shutdown PROVE LetGoIsSick'
  BY <1>21 DEF Shutdown, slotVars, endVars, Empty, Clear
<1>22. ASSUME Exit PROVE LetGoIsSick'
  BY <1>22 DEF Exit, slotVars, endVars
<1>23. ASSUME Sicken PROVE LetGoIsSick'
  BY <1>23 DEF Sicken, slotVars, endVars, Beside
<1>24. ASSUME IndexingEnds PROVE LetGoIsSick'
  BY <1>24 DEF IndexingEnds, slotVars, endVars, Beside
<1> QED
  BY <1>1, <1>2, <1>3, <1>4, <1>5, <1>6, <1>7, <1>8, <1>9, <1>10, <1>11, <1>12, <1>13, <1>14, <1>15, <1>16, <1>17, <1>18, <1>19, <1>20, <1>21, <1>22, <1>23, <1>24
  DEF Next, WorkerStep, WithBackend, IdlerStep, MainStep, Thread

(* No worker comes back. *)
LEMMA StepGone == IInv /\ Next => WorkersAreGone'
<1> SUFFICES ASSUME IInv, Next PROVE WorkersAreGone'
  OBVIOUS
<1> USE AgentAssumption DEF IInv, SlotTyped, ThreadTyped, EndTyped, WorkersAreGone, Thread, At
<1>1. ASSUME NEW t \in Thread, Look(t), t = Agent => Running PROVE WorkersAreGone'
  BY <1>1 DEF Look, slotVars, endVars, Go, Same
<1>2. ASSUME NEW t \in Thread, OpenClosed(t), t = Agent => Running PROVE WorkersAreGone'
  BY <1>2 DEF OpenClosed, slotVars, endVars, OpenSlot, OpenNew, Clear, Go, Done, Resting, Same
<1>3. ASSUME NEW t \in Thread, Take(t), t = Agent => Running PROVE WorkersAreGone'
  BY <1>3 DEF Take, slotVars, endVars, Done, Resting, Same
<1>4. ASSUME NEW t \in Thread, Reopen(t), t = Agent => Running PROVE WorkersAreGone'
  BY <1>4 DEF Reopen, slotVars, endVars, OpenNew, Empty, Clear, Done, Resting, Same
<1>5. ASSUME NEW t \in Thread, Serve(t), t = Agent => Running PROVE WorkersAreGone'
  BY <1>5 DEF Serve, slotVars, endVars, Done, Resting, Same
<1>6. ASSUME NEW t \in Thread, LetGo(t), t = Agent => Running PROVE WorkersAreGone'
  BY <1>6 DEF LetGo, slotVars, endVars, Empty, Clear, Done, Resting, Same
<1>7. ASSUME NEW t \in Thread, OpenRequest(t), t = Agent => Running PROVE WorkersAreGone'
  BY <1>7 DEF OpenRequest, slotVars, endVars, OpenSlot, OpenNew, Empty, Clear, Go, Done, Resting, Same
<1>8. ASSUME NEW t \in Thread, CloseRequest(t), t = Agent => Running PROVE WorkersAreGone'
  BY <1>8 DEF CloseRequest, slotVars, endVars, Empty, Clear, Done, Resting, Same
<1>9. ASSUME NEW t \in Thread, WriteRefused(t), t = Agent => Running PROVE WorkersAreGone'
  BY <1>9 DEF WriteRefused, slotVars, endVars, Done, Resting, Same
<1>10. ASSUME NEW w \in Worker, WorkerLoop(w) PROVE WorkersAreGone'
  BY <1>10 DEF WorkerLoop, slotVars, endVars, Go
<1>11. ASSUME NEW w \in Worker, Recv(w) PROVE WorkersAreGone'
  BY <1>11 DEF Recv, slotVars, endVars, Go, Entries
<1>12. ASSUME NEW w \in Worker, StopRequest(w) PROVE WorkersAreGone'
  BY <1>12 DEF StopRequest, slotVars, endVars, StopServer, Go
<1>13. ASSUME Arrive PROVE WorkersAreGone'
  BY <1>13 DEF Arrive, slotVars, endVars
<1>14. ASSUME AgentTakes PROVE WorkersAreGone'
  BY <1>14 DEF AgentTakes, slotVars, endVars, Go
<1>15. ASSUME Signal PROVE WorkersAreGone'
  BY <1>15 DEF Signal, slotVars, endVars, StopServer
<1>16. ASSUME IdleLook PROVE WorkersAreGone'
  BY <1>16 DEF IdleLook, slotVars, endVars
<1>17. ASSUME IdleCheck PROVE WorkersAreGone'
  BY <1>17 DEF IdleCheck, slotVars, endVars
<1>18. ASSUME IdleStop PROVE WorkersAreGone'
  BY <1>18 DEF IdleStop, slotVars, endVars, StopServer
<1>19. ASSUME IdlerLeave PROVE WorkersAreGone'
  BY <1>19 DEF IdlerLeave, slotVars, endVars
<1>20. ASSUME Join PROVE WorkersAreGone'
  BY <1>20 DEF Join, slotVars, endVars
<1>21. ASSUME Shutdown PROVE WorkersAreGone'
  BY <1>21 DEF Shutdown, slotVars, endVars, Empty, Clear
<1>22. ASSUME Exit PROVE WorkersAreGone'
  BY <1>22 DEF Exit, slotVars, endVars
<1>23. ASSUME Sicken PROVE WorkersAreGone'
  BY <1>23 DEF Sicken, slotVars, endVars, Beside
<1>24. ASSUME IndexingEnds PROVE WorkersAreGone'
  BY <1>24 DEF IndexingEnds, slotVars, endVars, Beside
<1> QED
  BY <1>1, <1>2, <1>3, <1>4, <1>5, <1>6, <1>7, <1>8, <1>9, <1>10, <1>11, <1>12, <1>13, <1>14, <1>15, <1>16, <1>17, <1>18, <1>19, <1>20, <1>21, <1>22, <1>23, <1>24
  DEF Next, WorkerStep, WithBackend, IdlerStep, MainStep, Thread

(* The backend is closed at the end, or late. *)
LEMMA StepClosed == IInv /\ Next => ClosedIsClosed'
<1> SUFFICES ASSUME IInv, Next PROVE ClosedIsClosed'
  OBVIOUS
<1> USE AgentAssumption DEF IInv, SlotTyped, ThreadTyped, EndTyped, ClosedIsClosed, WorkersAreGone, Thread, At, Running
<1>1. ASSUME NEW t \in Thread, Look(t), t = Agent => Running PROVE ClosedIsClosed'
  BY <1>1 DEF Look, slotVars, endVars, Go, Same
<1>2. ASSUME NEW t \in Thread, OpenClosed(t), t = Agent => Running PROVE ClosedIsClosed'
  <2>1. OpenNew \/ Empty \/ UNCHANGED slotVars
    BY <1>2 DEF OpenClosed, OpenSlot
  <2>2. main' = main
    BY <1>2 DEF OpenClosed, Same, endVars
  <2>3. CASE OpenNew
    BY <2>2, <2>3 DEF OpenNew
  <2>4. CASE Empty
    BY <2>4 DEF Empty
  <2>5. CASE UNCHANGED slotVars
    BY <2>2, <2>5 DEF slotVars
  <2> QED
    BY <2>1, <2>3, <2>4, <2>5
<1>3. ASSUME NEW t \in Thread, Take(t), t = Agent => Running PROVE ClosedIsClosed'
  BY <1>3 DEF Take, slotVars, endVars, Done, Resting, Same
<1>4. ASSUME NEW t \in Thread, Reopen(t), t = Agent => Running PROVE ClosedIsClosed'
  BY <1>4 DEF Reopen, slotVars, endVars, OpenNew, Empty, Clear, Done, Resting, Same
<1>5. ASSUME NEW t \in Thread, Serve(t), t = Agent => Running PROVE ClosedIsClosed'
  BY <1>5 DEF Serve, slotVars, endVars, Done, Resting, Same
<1>6. ASSUME NEW t \in Thread, LetGo(t), t = Agent => Running PROVE ClosedIsClosed'
  BY <1>6 DEF LetGo, slotVars, endVars, Empty, Clear, Done, Resting, Same
<1>7. ASSUME NEW t \in Thread, OpenRequest(t), t = Agent => Running PROVE ClosedIsClosed'
  <2>1. OpenNew \/ Empty \/ UNCHANGED slotVars
    BY <1>7 DEF OpenRequest, OpenSlot
  <2>2. main' = main
    BY <1>7 DEF OpenRequest, Same, endVars
  <2>3. CASE OpenNew
    BY <2>2, <2>3 DEF OpenNew
  <2>4. CASE Empty
    BY <2>4 DEF Empty
  <2>5. CASE UNCHANGED slotVars
    BY <2>2, <2>5 DEF slotVars
  <2> QED
    BY <2>1, <2>3, <2>4, <2>5
<1>8. ASSUME NEW t \in Thread, CloseRequest(t), t = Agent => Running PROVE ClosedIsClosed'
  BY <1>8 DEF CloseRequest, slotVars, endVars, Empty, Clear, Done, Resting, Same
<1>9. ASSUME NEW t \in Thread, WriteRefused(t), t = Agent => Running PROVE ClosedIsClosed'
  BY <1>9 DEF WriteRefused, slotVars, endVars, Done, Resting, Same
<1>10. ASSUME NEW w \in Worker, WorkerLoop(w) PROVE ClosedIsClosed'
  BY <1>10 DEF WorkerLoop, slotVars, endVars, Go
<1>11. ASSUME NEW w \in Worker, Recv(w) PROVE ClosedIsClosed'
  BY <1>11 DEF Recv, slotVars, endVars, Go, Entries
<1>12. ASSUME NEW w \in Worker, StopRequest(w) PROVE ClosedIsClosed'
  BY <1>12 DEF StopRequest, slotVars, endVars, StopServer, Go
<1>13. ASSUME Arrive PROVE ClosedIsClosed'
  BY <1>13 DEF Arrive, slotVars, endVars
<1>14. ASSUME AgentTakes PROVE ClosedIsClosed'
  BY <1>14 DEF AgentTakes, slotVars, endVars, Go
<1>15. ASSUME Signal PROVE ClosedIsClosed'
  BY <1>15 DEF Signal, slotVars, endVars, StopServer
<1>16. ASSUME IdleLook PROVE ClosedIsClosed'
  BY <1>16 DEF IdleLook, slotVars, endVars
<1>17. ASSUME IdleCheck PROVE ClosedIsClosed'
  BY <1>17 DEF IdleCheck, slotVars, endVars
<1>18. ASSUME IdleStop PROVE ClosedIsClosed'
  BY <1>18 DEF IdleStop, slotVars, endVars, StopServer
<1>19. ASSUME IdlerLeave PROVE ClosedIsClosed'
  BY <1>19 DEF IdlerLeave, slotVars, endVars
<1>20. ASSUME Join PROVE ClosedIsClosed'
  BY <1>20 DEF Join, slotVars, endVars
<1>21. ASSUME Shutdown PROVE ClosedIsClosed'
  BY <1>21 DEF Shutdown, slotVars, endVars, Empty, Clear
<1>22. ASSUME Exit PROVE ClosedIsClosed'
  BY <1>22 DEF Exit, slotVars, endVars
<1>23. ASSUME Sicken PROVE ClosedIsClosed'
  BY <1>23 DEF Sicken, slotVars, endVars, Beside
<1>24. ASSUME IndexingEnds PROVE ClosedIsClosed'
  BY <1>24 DEF IndexingEnds, slotVars, endVars, Beside
<1> QED
  BY <1>1, <1>2, <1>3, <1>4, <1>5, <1>6, <1>7, <1>8, <1>9, <1>10, <1>11, <1>12, <1>13, <1>14, <1>15, <1>16, <1>17, <1>18, <1>19, <1>20, <1>21, <1>22, <1>23, <1>24
  DEF Next, WorkerStep, WithBackend, IdlerStep, MainStep, Thread

(* The queue holds requests and tokens.  There are finitely many workers,  *)
(* so a stop adds a sequence of tokens.                                    *)
LEMMA UnblocksType == Unblocks \in Seq({"request", "error", "unblock"})
<1>1. Cardinality(Worker) \in Nat
  BY WorkerAssumption, FS_CardinalityType
<1> QED
  BY <1>1 DEF Unblocks

LEMMA StepQueueTyped == IInv /\ Next => QueueTyped'
<1> SUFFICES ASSUME IInv, Next PROVE QueueTyped'
  OBVIOUS
<1> USE DEF IInv, QueueTyped
<1>1. CASE UNCHANGED queue
  BY <1>1
<1>2. CASE StopServer
  BY <1>2, UnblocksType DEF StopServer
<1>3. CASE Arrive
  BY <1>3 DEF Arrive
<1>4. ASSUME NEW w \in Worker, Recv(w) PROVE QueueTyped'
  BY <1>4 DEF Recv
<1>5. ASSUME NEW t \in Thread, WithBackend(t) PROVE UNCHANGED queue
  BY <1>5 DEF WithBackend, Look, OpenClosed, Take, Reopen, Serve, LetGo, OpenRequest,
              CloseRequest, WriteRefused, Same
<1>6. ASSUME NEW w \in Worker, WorkerLoop(w) \/ StopRequest(w)
      PROVE  UNCHANGED queue \/ StopServer
  BY <1>6 DEF WorkerLoop, StopRequest
<1>7. ASSUME AgentTakes \/ Signal \/ IdleLook \/ IdlerStep \/ MainStep \/ Sicken \/ IndexingEnds
      PROVE  UNCHANGED queue \/ StopServer
  BY <1>7 DEF AgentTakes, Signal, IdleLook, IdlerStep, IdleCheck, IdleStop, IdlerLeave,
              MainStep, Join, Shutdown, Exit, Sicken, IndexingEnds, Beside
<1> QED
  BY <1>1, <1>2, <1>3, <1>4, <1>5, <1>6, <1>7 DEF Next, WorkerStep, Thread

-----------------------------------------------------------------------------
(* The host starts with no backend open and every thread at rest. *)
LEMMA InitIInv == Init => IInv
<1> SUFFICES ASSUME Init PROVE IInv
  OBVIOUS
<1>1. SlotTyped /\ EndTyped /\ QueueTyped
  <2>1. opened \in Nat /\ slot \in 0..opened /\ queue \in Seq({"request", "error", "unblock"})
    BY DEF Init
  <2>2. /\ sick \in BOOLEAN /\ indexing \in BOOLEAN /\ late \in BOOLEAN
        /\ EndTyped
    BY DEF Init, EndTyped
  <2> QED
    BY <2>1, <2>2 DEF SlotTyped, QueueTyped
<1>2. ThreadTyped /\ \A t \in Thread : thread[t].pc = "rest" /\ thread[t].inst = 0
  BY DEF Init, ThreadTyped, Resting, Pc
<1> QED
  BY <1>1, <1>2 DEF Init, IInv, ReadersHold, InstIsPast, LetGoIsSick, WorkersAreGone,
                    ClosedIsClosed, At

(* The invariant is inductive. *)
LEMMA Invariance == Spec => []IInv
<1>1. IInv /\ [Next]_vars => IInv'
  <2> SUFFICES ASSUME IInv, [Next]_vars PROVE IInv'
    OBVIOUS
  <2>1. CASE Next
    BY <2>1, StepSlotTyped, StepThreadTyped, StepEndTyped, StepQueueTyped, StepReaders,
       StepInst, StepLetGo, StepGone, StepClosed DEF IInv
  <2>2. CASE UNCHANGED vars
    BY <2>2 DEF vars, slotVars, endVars, IInv, SlotTyped, ThreadTyped, EndTyped, QueueTyped,
                ReadersHold, InstIsPast, LetGoIsSick, WorkersAreGone, ClosedIsClosed, At
  <2> QED
    BY <2>1, <2>2
<1> QED
  BY <1>1, InitIInv, PTL DEF Spec

(* A call keeps the instance it took through closings, re-readings and the *)
(* letting go of a sick base by other calls (with_backend, ecrire_le_slot),*)
(* and serve returns with no worker left and the backend closed, but for   *)
(* what an agent took in the last moments.                                 *)
THEOREM BackendIsWholeHolds == Spec => []BackendIsWhole
<1>1. IInv => BackendIsWhole
  <2> SUFFICES ASSUME IInv PROVE BackendIsWhole
    OBVIOUS
  <2>1. TypeOK
    BY DEF IInv, TypeOK, SlotTyped, EndTyped, QueueTyped
  <2>2. \A t \in Readers : slot = thread[t].inst
    BY DEF IInv, ReadersHold, Readers
  <2>3. main # "serve" => InFlight = {}
    BY DEF IInv, WorkersAreGone, InFlight, Busy, At
  <2>4. main = "exit" => slot = 0 \/ late
    BY DEF IInv, ClosedIsClosed
  <2> QED
    BY <2>1, <2>2, <2>3, <2>4 DEF BackendIsWhole
<1> QED
  BY <1>1, Invariance, PTL

(* An open backend goes only because its own base must be reopened, or by  *)
(* a clean closing with no indexing in progress: a call that saw a sick    *)
(* base never drops the instance another one has opened since.             *)
THEOREM HealthyIsKeptHolds == Spec => HealthyIsKept
<1> DEFINE Kept == slot # 0 /\ slot' # slot /\ main' = main =>
                       sick \/ (~indexing /\ \E t \in Thread : CleanlyClosing(t))
<1>1. IInv /\ [Next]_vars => [Kept]_vars
  <2> SUFFICES ASSUME IInv, Next, slot # 0, slot' # slot, main' = main
               PROVE  sick \/ (~indexing /\ \E t \in Thread : CleanlyClosing(t))
    BY DEF vars, slotVars
  <2>1. ASSUME NEW t \in Thread, WithBackend(t)
        PROVE  sick \/ (~indexing /\ \E u \in Thread : CleanlyClosing(u))
    <3>1. CASE Look(t) \/ OpenClosed(t) \/ Take(t) \/ Serve(t) \/ WriteRefused(t)
      BY <3>1 DEF Look, OpenClosed, OpenSlot, Take, Serve, WriteRefused, slotVars
    <3>2. CASE LetGo(t)
      BY <3>2 DEF LetGo, slotVars, IInv, LetGoIsSick, At
    <3>3. CASE Reopen(t)
      <4>1. thread'[t] # thread[t]
        BY <3>3 DEF Reopen, At, Done, Resting, IInv, ThreadTyped, slotVars
      <4> QED
        BY <3>3, <4>1 DEF Reopen, At, CleanlyClosing, slotVars
    <3>4. CASE OpenRequest(t)
      <4>1. thread'[t] # thread[t]
        BY <3>4 DEF OpenRequest, OpenSlot, At, Done, Resting, Go, IInv, ThreadTyped, slotVars
      <4> QED
        BY <3>4, <4>1 DEF OpenRequest, OpenSlot, At, CleanlyClosing, slotVars
    <3>5. CASE CloseRequest(t)
      <4>1. thread'[t] # thread[t]
        BY <3>5 DEF CloseRequest, At, Done, Resting, IInv, ThreadTyped
      <4> QED
        BY <3>5, <4>1 DEF CloseRequest, At, CleanlyClosing, slotVars
    <3> QED
      BY <2>1, <3>1, <3>2, <3>3, <3>4, <3>5 DEF WithBackend
  <2>2. ASSUME NEW w \in Worker, WorkerLoop(w) \/ Recv(w) \/ StopRequest(w) PROVE FALSE
    BY <2>2 DEF WorkerLoop, Recv, StopRequest, slotVars
  <2>3. ASSUME \/ Arrive \/ AgentTakes \/ Signal \/ IdleLook \/ IdlerStep \/ MainStep
               \/ Sicken \/ IndexingEnds
        PROVE  FALSE
    BY <2>3 DEF Arrive, AgentTakes, Signal, IdleLook, IdlerStep, IdleCheck, IdleStop,
                IdlerLeave, MainStep, Join, Shutdown, Exit, Sicken, IndexingEnds, Beside, slotVars
  <2> QED
    BY <2>1, <2>2, <2>3 DEF Next, WorkerStep, Thread
<1> QED
  BY <1>1, Invariance, PTL DEF Spec, HealthyIsKept
=============================================================================
