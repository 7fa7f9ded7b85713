------------------------ MODULE BackgroundRunProofs ------------------------
(***************************************************************************)

(* The concurrent run and its launch in the background, for every graph,   *)

(* every capacity of the channels and every number of elements: what the   *)

(* hub tells those who wait is true, no outcome hides an interrupted       *)

(* stream, the store holds what completed, a stop goes through, and the    *)

(* deadlock detector misses one kind of deadlock only.                     *)

(*                                                                         *)

(* First what each method of the hub does to it, then the inductive        *)

(* invariant, then one lemma per action.  A step is sound when it keeps    *)

(* the invariant and declares no deadlock and tells no end that is not     *)

(* true (SoundStep): the two action properties rest on the same case       *)

(* analysis as the invariant.                                              *)
(***************************************************************************)
EXTENDS BackgroundRun, TLAPS, FiniteSetTheorems, WellFoundedInduction

(* The channels of a hub have numbers. *)
Numbers(C) == C \subseteq Nat

(* The type of a hub over the channels C and the workers W; a wait names at least one
   channel. *)
Causes(W) == {NotCancelled, External, Deadlock} \union {Failed(w) : w \in W}
Waits(C) ==
    {NoWait} \union {x \in [kind : {"recv", "send"}, chans : SUBSET C] : x.chans # {}}
HubOf(C, W) ==
    [buf : [C -> 0..Capacity], senders : [C -> 0..1], receivers : [C -> 0..1],
     names : SUBSET W, waiting : [W -> Waits(C)], asleep : SUBSET W, cancel : Causes(W)]

(* detect_deadlock has left nothing to declare: when every live worker waits and the run
   is not cancelled, some wait passes for servable. *)
Detected(h) ==
    (~Cancelled(h) /\ h.names # {} /\ h.names \subseteq Waiting(h)) =>
        \E w \in Waiting(h) : Servable(h, w)

(* The type, and the bookkeeping of those who sleep. *)
HubOK(C, W, h) == h \in HubOf(C, W) /\ h.asleep \subseteq Waiting(h)

(* From h to k, worker w declares no deadlock that is not one. *)
DeclaredBy(h, k, w) ==
    (k.cancel = Deadlock /\ ~Cancelled(h)) =>
        k.waiting[w] = NoWait /\ \A v \in k.names \ {w} : Blocked(k, v)

(* From h to k, worker w changes no wait but its own, and sets no cause but a deadlock. *)
KeptBut(W, h, k, w) ==
    /\ k.names = h.names
    /\ k.senders = h.senders
    /\ \A v \in W \ {w} : k.waiting[v] = h.waiting[v]
    /\ k.cancel = h.cancel \/ (~Cancelled(h) /\ k.cancel = Deadlock)

(* The causes are distinct. *)
LEMMA CauseValues ==
    /\ NotCancelled # External /\ NotCancelled # Deadlock /\ External # Deadlock
    /\ \A n : Failed(n) # NotCancelled /\ Failed(n) # External /\ Failed(n) # Deadlock
  BY DEF NotCancelled, External, Deadlock, Failed

(* A set of numbers that is not empty holds its minimum. *)
LEMMA MinIn ==
    ASSUME NEW S \in SUBSET Nat, S # {}
    PROVE  Min(S) \in S
<1>1. PICK x \in S : \A y \in S : ~(<<y, x>> \in OpToRel(<, Nat))
  BY WFMin, NatLessThanWellFounded
<1>2. ASSUME NEW y \in S PROVE x <= y
  <2>1. <<y, x>> \in Nat \X Nat /\ <<y, x>>[1] = y /\ <<y, x>>[2] = x
    OBVIOUS
  <2>2. ~(y < x)
    BY <1>1, <2>1, Zenon DEF OpToRel
  <2> QED
    BY <2>2
<1> QED
  BY <1>2 DEF Min

(* wait, once awake: the worker signs out and nothing else changes. *)
LEMMA AwakeFacts ==
    ASSUME NEW C, NEW W, NEW h, HubOK(C, W, h), NEW w \in W, NEW k, k = Awake(h, w)
    PROVE  /\ HubOK(C, W, k)
           /\ KeptBut(W, h, k, w) /\ k.cancel = h.cancel
           /\ k.buf = h.buf /\ k.receivers = h.receivers
           /\ k.waiting[w] = NoWait
<1>1. k.names = h.names /\ k.senders = h.senders /\ k.cancel = h.cancel /\ k.buf = h.buf
      /\ k.receivers = h.receivers /\ k.waiting = [h.waiting EXCEPT ![w] = NoWait]
      /\ k.asleep = h.asleep \ {w} /\ k \in HubOf(C, W)
  BY DEF Awake, HubOK, HubOf, Waits
<1>2. DOMAIN k.waiting = W /\ DOMAIN h.waiting = W /\ k.waiting[w] = NoWait
      /\ \A v \in W \ {w} : k.waiting[v] = h.waiting[v]
  BY <1>1 DEF HubOK, HubOf
<1>3. k.asleep \subseteq Waiting(k)
  BY <1>1, <1>2 DEF HubOK, Waiting
<1> QED
  BY <1>1, <1>2, <1>3 DEF HubOK, KeptBut

(* A wait the detector cannot serve is one nothing will answer. *)
LEMMA UnservableIsBlocked ==
    ASSUME NEW C, NEW W, NEW h \in HubOf(C, W), NEW w \in W, h.waiting[w] # NoWait,
           ~Servable(h, w)
    PROVE  Blocked(h, w)
<1>0. h.waiting[w] \in {x \in [kind : {"recv", "send"}, chans : SUBSET C] : x.chans # {}}
  BY DEF HubOf, Waits
<1>1. h.waiting[w].kind \in {"recv", "send"} /\ h.waiting[w].chans \in SUBSET C
      /\ h.waiting[w].chans # {}
  BY <1>0
<1>2. \A c \in C : h.buf[c] \in Nat /\ h.senders[c] \in Nat /\ h.receivers[c] \in Nat
  BY CapacityAssumption DEF HubOf
<1>3. CASE h.waiting[w].kind = "recv"
  BY <1>1, <1>2, <1>3 DEF Servable, Blocked, Unended
<1>4. CASE h.waiting[w].kind = "send"
  BY <1>1, <1>2, <1>4 DEF Servable, Blocked
<1> QED
  BY <1>1, <1>3, <1>4

(* What a worker looks at does not depend on who sleeps or on the cause. *)
LEMMA SameView ==
    ASSUME NEW h, NEW k, NEW w, k.buf = h.buf, k.senders = h.senders,
           k.receivers = h.receivers, k.waiting[w] = h.waiting[w]
    PROVE  (Blocked(k, w) <=> Blocked(h, w)) /\ (Servable(k, w) <=> Servable(h, w))
  BY DEF Blocked, Servable, Unended, Full

(* detect_deadlock. *)
LEMMA DetectFacts ==
    ASSUME NEW C, NEW W, NEW h \in HubOf(C, W), NEW k, k = DetectDeadlock(h)
    PROVE  /\ k \in HubOf(C, W)
           /\ k.names = h.names /\ k.senders = h.senders /\ k.buf = h.buf
           /\ k.receivers = h.receivers /\ k.waiting = h.waiting /\ k.asleep = h.asleep
           /\ k.cancel = h.cancel \/ (~Cancelled(h) /\ k.cancel = Deadlock)
           /\ Detected(k)
           /\ (k.cancel = Deadlock /\ ~Cancelled(h)) =>
                h.names \subseteq Waiting(h) /\ \A v \in h.names : Blocked(h, v)
<1> DEFINE found == /\ ~Cancelled(h) /\ h.names # {} /\ h.names \subseteq Waiting(h)
                    /\ \A w \in Waiting(h) : ~Servable(h, w)
<1>1. CASE ~found
  <2>1. k = h
    BY <1>1 DEF DetectDeadlock
  <2>2. Detected(k)
    BY <1>1, <2>1 DEF Detected
  <2>3. h.cancel = Deadlock => Cancelled(h)
    BY CauseValues DEF Cancelled
  <2> QED
    BY <2>1, <2>2, <2>3
<1>2. CASE found
  <2>1. k = [h EXCEPT !.cancel = Deadlock] /\ ~Cancelled(h)
    BY <1>2 DEF DetectDeadlock, SetCancel
  <2>2. k.names = h.names /\ k.senders = h.senders /\ k.buf = h.buf /\ k \in HubOf(C, W)
        /\ k.receivers = h.receivers /\ k.waiting = h.waiting /\ k.asleep = h.asleep
        /\ k.cancel = Deadlock
    BY <2>1 DEF HubOf, Causes
  <2>3. Detected(k)
    BY <2>2, CauseValues DEF Detected, Cancelled
  <2>4. ASSUME NEW v \in h.names PROVE Blocked(h, v)
    <3>1. v \in W /\ h.waiting[v] # NoWait /\ ~Servable(h, v)
      BY <1>2 DEF Waiting, HubOf
    <3> QED
      BY <3>1, UnservableIsBlocked
  <2> QED
    BY <1>2, <2>1, <2>2, <2>3, <2>4
<1> QED
  BY <1>1, <1>2

(* notify_all changes who sleeps and nothing else. *)
LEMMA NotifyFacts ==
    ASSUME NEW C, NEW W, NEW h \in HubOf(C, W), NEW k, k = NotifyAll(h)
    PROVE  /\ HubOK(C, W, k)
           /\ k.names = h.names /\ k.senders = h.senders /\ k.buf = h.buf
           /\ k.receivers = h.receivers /\ k.waiting = h.waiting /\ k.asleep = {}
           /\ k.cancel = h.cancel
  BY DEF NotifyAll, HubOf, HubOK

(* wait, until it sleeps. *)
LEMMA SleepFacts ==
    ASSUME NEW C, NEW W, NEW h, HubOK(C, W, h), NEW w \in W, NEW what \in Waits(C),
           what # NoWait, NEW k, k = Sleep(h, w, what)
    PROVE  /\ HubOK(C, W, k) /\ Detected(k)
           /\ KeptBut(W, h, k, w) /\ DeclaredBy(h, k, w)
           /\ k.buf = h.buf /\ k.receivers = h.receivers
           /\ k.waiting[w] = IF Cancelled(k) THEN NoWait ELSE what
<1> DEFINE g == [h EXCEPT !.waiting[w] = what]
           d == DetectDeadlock(g)
<1>1. /\ g \in HubOf(C, W) /\ g.names = h.names /\ g.senders = h.senders
      /\ g.buf = h.buf /\ g.receivers = h.receivers /\ g.asleep = h.asleep
      /\ g.cancel = h.cancel /\ g.waiting = [h.waiting EXCEPT ![w] = what]
  BY DEF HubOK, HubOf
<1> HIDE DEF g
<1>2. /\ d \in HubOf(C, W) /\ d.names = g.names /\ d.senders = g.senders /\ d.buf = g.buf
      /\ d.receivers = g.receivers /\ d.waiting = g.waiting /\ d.asleep = g.asleep
      /\ d.cancel = g.cancel \/ (~Cancelled(g) /\ d.cancel = Deadlock)
      /\ Detected(d)
      /\ (d.cancel = Deadlock /\ ~Cancelled(g)) => \A v \in g.names : Blocked(g, v)
  BY <1>1, DetectFacts
<1> USE DEF g
<1>3. k = IF Cancelled(d) THEN [NotifyAll(d) EXCEPT !.waiting[w] = NoWait]
          ELSE [d EXCEPT !.asleep = @ \cup {w}]
  BY DEF Sleep
<1>4. Cancelled(g) <=> Cancelled(h)
  BY <1>1 DEF Cancelled
<1> HIDE DEF g, d
<1>5. g.waiting[w] = what /\ \A v \in W \ {w} : g.waiting[v] = h.waiting[v]
  BY <1>1 DEF HubOK, HubOf
<1>6. CASE Cancelled(d)
  <2> DEFINE e == NotifyAll(d)
  <2>1. /\ e \in HubOf(C, W) /\ e.names = d.names /\ e.senders = d.senders /\ e.buf = d.buf
        /\ e.receivers = d.receivers /\ e.waiting = d.waiting /\ e.asleep = {}
        /\ e.cancel = d.cancel
    BY <1>2, NotifyFacts DEF HubOK
  <2>2. k = [e EXCEPT !.waiting[w] = NoWait]
    BY <1>3, <1>6
  <2> HIDE DEF e
  <2>3. /\ k \in HubOf(C, W) /\ k.names = d.names /\ k.senders = d.senders /\ k.buf = d.buf
        /\ k.receivers = d.receivers /\ k.waiting = [d.waiting EXCEPT ![w] = NoWait]
        /\ k.asleep = {} /\ k.cancel = d.cancel
    BY <2>1, <2>2 DEF HubOf, Waits
  <2>4. k.waiting[w] = NoWait /\ \A v \in W \ {w} : k.waiting[v] = h.waiting[v]
    BY <1>2, <1>5, <2>3 DEF HubOf
  <2>5. Detected(k) /\ Cancelled(k)
    BY <1>6, <2>3 DEF Detected, Cancelled
  <2>6. ASSUME k.cancel = Deadlock, ~Cancelled(h), NEW v \in k.names \ {w}
        PROVE  Blocked(k, v)
    <3>1. Blocked(g, v) /\ v \in W
      BY <1>1, <1>2, <1>4, <2>3, <2>6 DEF HubOf
    <3>2. k.waiting[v] = g.waiting[v]
      BY <1>5, <2>4, <3>1
    <3> QED
      BY <1>2, <2>3, <3>1, <3>2, SameView
  <2>7. DeclaredBy(h, k, w)
    BY <2>4, <2>6 DEF DeclaredBy
  <2> QED
    BY <1>1, <1>2, <1>4, <2>3, <2>4, <2>5, <2>7 DEF HubOK, KeptBut
<1>7. CASE ~Cancelled(d)
  <2>1. k = [d EXCEPT !.asleep = @ \cup {w}]
    BY <1>3, <1>7
  <2>2. /\ k \in HubOf(C, W) /\ k.names = d.names /\ k.senders = d.senders /\ k.buf = d.buf
        /\ k.receivers = d.receivers /\ k.waiting = d.waiting
        /\ k.asleep = d.asleep \union {w} /\ k.cancel = d.cancel
    BY <1>2, <2>1 DEF HubOf
  <2>3. k.cancel = NotCancelled /\ ~Cancelled(k) /\ k.cancel = h.cancel
    BY <1>1, <1>2, <1>7, <2>2, CauseValues DEF Cancelled
  <2>4. DeclaredBy(h, k, w)
    BY <2>3, CauseValues DEF DeclaredBy
  <2>5. Detected(k)
    <3>1. ASSUME NEW v PROVE Servable(k, v) <=> Servable(d, v)
      BY <2>2, SameView
    <3>2. Waiting(k) = Waiting(d) /\ Cancelled(k) = Cancelled(d)
      BY <2>2 DEF Waiting, Cancelled
    <3> QED
      BY <1>2, <2>2, <3>1, <3>2 DEF Detected
  <2>6. k.asleep \subseteq Waiting(k)
    <3>1. DOMAIN k.waiting = W /\ DOMAIN h.waiting = W
      BY <2>2 DEF HubOK, HubOf
    <3>2. h.asleep \subseteq W /\ \A v \in h.asleep : h.waiting[v] # NoWait
      BY DEF HubOK, HubOf, Waiting
    <3> QED
      BY <1>1, <1>2, <1>5, <2>2, <3>1, <3>2 DEF Waiting
  <2>7. KeptBut(W, h, k, w)
    BY <1>1, <1>2, <1>5, <2>2, <2>3 DEF KeptBut
  <2> QED
    BY <1>1, <1>2, <1>5, <2>2, <2>3, <2>4, <2>5, <2>6, <2>7 DEF HubOK
<1> QED
  BY <1>6, <1>7

(* worker_done. *)
LEMMA WorkerDoneFacts ==
    ASSUME NEW C, NEW W, NEW h, HubOK(C, W, h), NEW w \in W, NEW k, k = WorkerDone(h, w)
    PROVE  /\ HubOK(C, W, k) /\ Detected(k)
           /\ k.names = h.names \ {w} /\ k.senders = h.senders /\ k.buf = h.buf
           /\ k.receivers = h.receivers
           /\ k.waiting[w] = NoWait /\ \A v \in W \ {w} : k.waiting[v] = h.waiting[v]
           /\ k.cancel = h.cancel \/ (~Cancelled(h) /\ k.cancel = Deadlock)
           /\ DeclaredBy(h, k, w)
<1> DEFINE g == [h EXCEPT !.names = @ \ {w}, !.waiting[w] = NoWait, !.asleep = @ \ {w}]
           d == DetectDeadlock(g)
<1>1. /\ g \in HubOf(C, W) /\ g.names = h.names \ {w} /\ g.senders = h.senders
      /\ g.buf = h.buf /\ g.receivers = h.receivers /\ g.cancel = h.cancel
      /\ g.waiting = [h.waiting EXCEPT ![w] = NoWait]
  BY DEF HubOK, HubOf, Waits
<1>2. k = NotifyAll(d)
  BY DEF WorkerDone
<1> HIDE DEF g
<1>3. /\ d \in HubOf(C, W) /\ d.names = g.names /\ d.senders = g.senders /\ d.buf = g.buf
      /\ d.receivers = g.receivers /\ d.waiting = g.waiting
      /\ d.cancel = g.cancel \/ (~Cancelled(g) /\ d.cancel = Deadlock)
      /\ Detected(d)
      /\ (d.cancel = Deadlock /\ ~Cancelled(g)) => \A v \in g.names : Blocked(g, v)
  BY <1>1, DetectFacts
<1> HIDE DEF d
<1>4. /\ HubOK(C, W, k) /\ k.names = d.names /\ k.senders = d.senders /\ k.buf = d.buf
      /\ k.receivers = d.receivers /\ k.waiting = d.waiting /\ k.cancel = d.cancel
  BY <1>2, <1>3, NotifyFacts
<1>5. k.waiting[w] = NoWait /\ \A v \in W \ {w} : k.waiting[v] = h.waiting[v]
  BY <1>1, <1>3, <1>4 DEF HubOK, HubOf
<1>6. Cancelled(g) <=> Cancelled(h)
  BY <1>1 DEF Cancelled
<1>7. Detected(k)
  <2>1. ASSUME NEW v PROVE Servable(k, v) <=> Servable(d, v)
    BY <1>4, SameView
  <2>2. Waiting(k) = Waiting(d) /\ Cancelled(k) = Cancelled(d)
    BY <1>4 DEF Waiting, Cancelled
  <2> QED
    BY <1>3, <1>4, <2>1, <2>2 DEF Detected
<1>8. ASSUME k.cancel = Deadlock, ~Cancelled(h), NEW v \in k.names PROVE Blocked(k, v)
  <2>1. Blocked(g, v)
    BY <1>3, <1>4, <1>6, <1>8
  <2> QED
    BY <1>3, <1>4, <2>1, SameView
<1>9. DeclaredBy(h, k, w)
  BY <1>5, <1>8 DEF DeclaredBy
<1> QED
  BY <1>1, <1>3, <1>4, <1>5, <1>6, <1>7, <1>9

(* release_sender: more can be served. *)
LEMMA ReleaseSenderFacts ==
    ASSUME NEW C, NEW W, NEW h, HubOK(C, W, h), NEW c \in C, NEW k, k = ReleaseSender(h, c)
    PROVE  /\ HubOK(C, W, k)
           /\ k.names = h.names /\ k.buf = h.buf /\ k.receivers = h.receivers
           /\ k.waiting = h.waiting /\ k.cancel = h.cancel
           /\ k.senders[c] = 0 /\ \A d \in C \ {c} : k.senders[d] = h.senders[d]
           /\ Detected(h) => Detected(k)
<1> DEFINE g == [h EXCEPT !.senders[c] = IF @ = 0 THEN 0 ELSE @ - 1]
<1>1. h.senders \in [C -> 0..1]
  BY DEF HubOK, HubOf
<1>2. /\ g.names = h.names /\ g.buf = h.buf /\ g.receivers = h.receivers
      /\ g.waiting = h.waiting /\ g.cancel = h.cancel
      /\ g.senders = [h.senders EXCEPT ![c] = IF @ = 0 THEN 0 ELSE @ - 1]
  BY DEF HubOK, HubOf
<1>3. g.senders \in [C -> 0..1] /\ g.senders[c] = 0
      /\ \A d \in C \ {c} : g.senders[d] = h.senders[d]
  BY <1>1, <1>2
<1>4. g \in HubOf(C, W)
  BY <1>3 DEF HubOK, HubOf
<1>5. k = NotifyAll(g)
  BY DEF ReleaseSender
<1> HIDE DEF g
<1>6. /\ HubOK(C, W, k) /\ k.names = g.names /\ k.senders = g.senders /\ k.buf = g.buf
      /\ k.receivers = g.receivers /\ k.waiting = g.waiting /\ k.cancel = g.cancel
  BY <1>4, <1>5, NotifyFacts
<1>7. ASSUME Detected(h) PROVE Detected(k)
  <2>1. Waiting(k) = Waiting(h) /\ (Cancelled(k) <=> Cancelled(h))
    BY <1>2, <1>6 DEF Waiting, Cancelled
  <2>2. ASSUME NEW v \in Waiting(h), Servable(h, v) PROVE Servable(k, v)
    <3>1. h.waiting[v] \in Waits(C) /\ h.waiting[v] # NoWait
      BY DEF Waiting, HubOK, HubOf
    <3>2. h.waiting[v].chans \subseteq C
      BY <3>1 DEF Waits
    <3>3. \A d \in C : h.senders[d] = 0 => k.senders[d] = 0
      BY <1>3, <1>6
    <3> QED
      BY <1>2, <1>6, <2>2, <3>2, <3>3 DEF Servable, Full
  <2> QED
    BY <1>2, <1>6, <1>7, <2>1, <2>2 DEF Detected
<1> QED
  BY <1>2, <1>3, <1>6, <1>7

(* release_receiver: the last one empties the channel. *)
LEMMA ReleaseReceiverFacts ==
    ASSUME NEW C, NEW W, NEW h, HubOK(C, W, h), NEW c \in C, NEW k, k = ReleaseReceiver(h, c)
    PROVE  /\ HubOK(C, W, k)
           /\ k.names = h.names /\ k.senders = h.senders
           /\ k.waiting = h.waiting /\ k.cancel = h.cancel
           /\ \A d \in C : k.buf[d] = h.buf[d] \/ k.buf[d] = 0
<1> DEFINE left == IF h.receivers[c] = 0 THEN 0 ELSE h.receivers[c] - 1
           g == [h EXCEPT !.receivers[c] = left, !.buf[c] = IF left = 0 THEN 0 ELSE @]
<1>1. /\ h.receivers \in [C -> 0..1] /\ h.buf \in [C -> 0..Capacity] /\ Capacity \in Nat
      /\ left \in 0..1
  BY CapacityAssumption DEF HubOK, HubOf
<1>2. k = NotifyAll(g)
  BY DEF ReleaseReceiver
<1> HIDE DEF left
<1>3. /\ g.names = h.names /\ g.senders = h.senders
      /\ g.waiting = h.waiting /\ g.cancel = h.cancel
      /\ g.receivers = [h.receivers EXCEPT ![c] = left]
      /\ g.buf = [h.buf EXCEPT ![c] = IF left = 0 THEN 0 ELSE @]
  BY DEF HubOK, HubOf
<1>4. g.receivers \in [C -> 0..1] /\ g.buf \in [C -> 0..Capacity]
      /\ \A d \in C : g.buf[d] = h.buf[d] \/ g.buf[d] = 0
  BY <1>1, <1>3
<1>5. g \in HubOf(C, W)
  BY <1>4 DEF HubOK, HubOf
<1> HIDE DEF g
<1>6. /\ HubOK(C, W, k) /\ k.names = g.names /\ k.senders = g.senders /\ k.buf = g.buf
      /\ k.waiting = g.waiting /\ k.cancel = g.cancel
  BY <1>2, <1>5, NotifyFacts
<1> QED
  BY <1>3, <1>4, <1>6

(* cancel: the first cause stays. *)
LEMMA CancelHubFacts ==
    ASSUME NEW C, NEW W, NEW h, HubOK(C, W, h), NEW cause \in Causes(W),
           cause # NotCancelled, NEW k, k = CancelHub(h, cause)
    PROVE  /\ HubOK(C, W, k) /\ Detected(k) /\ Cancelled(k)
           /\ k.names = h.names /\ k.senders = h.senders /\ k.buf = h.buf
           /\ k.receivers = h.receivers /\ k.waiting = h.waiting
           /\ k.cancel = IF Cancelled(h) THEN h.cancel ELSE cause
<1> DEFINE g == SetCancel(h, cause)
<1>1. /\ g \in HubOf(C, W) /\ g.names = h.names /\ g.senders = h.senders /\ g.buf = h.buf
      /\ g.receivers = h.receivers /\ g.waiting = h.waiting
      /\ g.cancel = IF Cancelled(h) THEN h.cancel ELSE cause
  <2>1. CASE Cancelled(h)
    BY <2>1 DEF SetCancel, HubOK
  <2>2. CASE ~Cancelled(h)
    BY <2>2 DEF SetCancel, HubOK, HubOf
  <2> QED
    BY <2>1, <2>2
<1>2. k = NotifyAll(g)
  BY DEF CancelHub
<1> HIDE DEF g
<1>3. /\ HubOK(C, W, k) /\ k.names = g.names /\ k.senders = g.senders /\ k.buf = g.buf
      /\ k.receivers = g.receivers /\ k.waiting = g.waiting /\ k.cancel = g.cancel
  BY <1>1, <1>2, NotifyFacts
<1>4. Cancelled(k)
  BY <1>1, <1>3 DEF Cancelled
<1>5. Detected(k)
  BY <1>4 DEF Detected
<1> QED
  BY <1>1, <1>3, <1>4, <1>5

(* What a send leaves alone and what it answers. *)
LEMMA TrySendFacts ==
    ASSUME NEW C, NEW W, NEW h, HubOK(C, W, h), NEW S \in SUBSET C, NEW r, r = TrySend(h, S)
    PROVE  /\ HubOK(C, W, r.hub)
           /\ r.hub.names = h.names /\ r.hub.senders = h.senders
           /\ r.hub.receivers = h.receivers
           /\ r.hub.waiting = h.waiting /\ r.hub.cancel = h.cancel
           /\ \A c \in C \ S : r.hub.buf[c] = h.buf[c]
           /\ r.res \in {"cancelled", "noreader", "full", "ok"}
           /\ r.res # "ok" => r.hub = h
           /\ r.res = "cancelled" <=> Cancelled(h)
           /\ r.res = "full" => r.chans \subseteq S /\ r.chans # {}
<1> DEFINE live == {c \in S : h.receivers[c] > 0}
           full == {c \in live : Full(h, c)}
           new == [c \in DOMAIN h.buf |-> IF c \in live THEN h.buf[c] + 1 ELSE h.buf[c]]
           g == [h EXCEPT !.buf = new]
<1>1. CASE Cancelled(h)
  <2>1. r = Result(h, "cancelled", {})
    BY <1>1 DEF TrySend
  <2> QED
    BY <1>1, <2>1 DEF Result
<1>2. CASE ~Cancelled(h) /\ live = {}
  <2>1. r = Result(h, "noreader", {})
    BY <1>2 DEF TrySend
  <2> QED
    BY <1>2, <2>1 DEF Result
<1>3. CASE ~Cancelled(h) /\ live # {} /\ full # {}
  <2>1. r = Result(h, "full", full)
    BY <1>3 DEF TrySend
  <2>2. full \subseteq S
    OBVIOUS
  <2> HIDE DEF full
  <2> QED
    BY <1>3, <2>1, <2>2 DEF Result
<1>4. CASE ~Cancelled(h) /\ live # {} /\ full = {}
  <2>1. r = Result(NotifyAll(g), "ok", live)
    BY <1>4 DEF TrySend
  <2>2. h.buf \in [C -> 0..Capacity] /\ Capacity \in Nat
    BY CapacityAssumption DEF HubOK, HubOf
  <2>3. \A c \in live : h.buf[c] < Capacity
    BY <1>4, <2>2 DEF Full
  <2>4. new \in [C -> 0..Capacity] /\ \A c \in C \ S : new[c] = h.buf[c]
    BY <2>2, <2>3
  <2> HIDE DEF new
  <2>5. /\ g \in HubOf(C, W) /\ g.names = h.names /\ g.senders = h.senders /\ g.buf = new
        /\ g.receivers = h.receivers /\ g.waiting = h.waiting /\ g.cancel = h.cancel
    BY <2>4 DEF HubOK, HubOf
  <2> HIDE DEF g, live
  <2>6. r.hub = NotifyAll(g) /\ r.res = "ok"
    BY <2>1 DEF Result
  <2>7. /\ HubOK(C, W, r.hub) /\ r.hub.names = g.names /\ r.hub.senders = g.senders
        /\ r.hub.buf = g.buf /\ r.hub.receivers = g.receivers
        /\ r.hub.waiting = g.waiting /\ r.hub.cancel = g.cancel
    BY <2>5, <2>6, NotifyFacts
  <2> QED
    BY <1>4, <2>4, <2>5, <2>6, <2>7
<1> HIDE DEF live, full
<1> QED
  BY <1>1, <1>2, <1>3, <1>4

(* What a read leaves alone and what it answers. *)
LEMMA TryRecvFacts ==
    ASSUME NEW C, Numbers(C), NEW W, NEW h, HubOK(C, W, h), NEW S \in SUBSET C,
           NEW r, r = TryRecv(h, S)
    PROVE  /\ HubOK(C, W, r.hub)
           /\ r.hub.names = h.names /\ r.hub.senders = h.senders
           /\ r.hub.receivers = h.receivers
           /\ r.hub.waiting = h.waiting /\ r.hub.cancel = h.cancel
           /\ \A c \in C : h.buf[c] = 0 => r.hub.buf[c] = 0
           /\ r.res \in {"cancelled", "value", "end", "empty"}
           /\ r.res # "value" => r.hub = h
           /\ r.res = "cancelled" <=> Cancelled(h)
           /\ r.res = "end" => \A c \in S : Ended(h, c)
           /\ r.res = "empty" => S # {}
<1> DEFINE ready == {c \in S : h.buf[c] > 0}
           m == Min(ready)
           g == [h EXCEPT !.buf[m] = @ - 1]
<1>0. h.buf \in [C -> 0..Capacity] /\ h.senders \in [C -> 0..1] /\ Capacity \in Nat
  BY CapacityAssumption DEF HubOK, HubOf
<1>1. CASE Cancelled(h)
  <2>1. r = Result(h, "cancelled", {})
    BY <1>1 DEF TryRecv
  <2> QED
    BY <1>1, <2>1 DEF Result
<1>2. CASE ~Cancelled(h) /\ ready # {}
  <2>1. r = Result(NotifyAll(g), "value", {m})
    BY <1>2 DEF TryRecv
  <2>2. m \in ready
    BY <1>2, MinIn DEF Numbers
  <2>3. m \in C /\ h.buf[m] > 0
    BY <2>2
  <2> HIDE DEF m, ready
  <2>4. /\ g.names = h.names /\ g.senders = h.senders /\ g.buf = [h.buf EXCEPT ![m] = @ - 1]
        /\ g.receivers = h.receivers /\ g.waiting = h.waiting /\ g.cancel = h.cancel
    BY DEF HubOK, HubOf
  <2>5. g.buf \in [C -> 0..Capacity] /\ \A c \in C : h.buf[c] = 0 => g.buf[c] = 0
    BY <1>0, <2>3, <2>4
  <2>6. g \in HubOf(C, W)
    BY <2>5 DEF HubOK, HubOf
  <2> HIDE DEF g
  <2>7. r.hub = NotifyAll(g) /\ r.res = "value"
    BY <2>1 DEF Result
  <2>8. /\ HubOK(C, W, r.hub) /\ r.hub.names = g.names /\ r.hub.senders = g.senders
        /\ r.hub.buf = g.buf /\ r.hub.receivers = g.receivers
        /\ r.hub.waiting = g.waiting /\ r.hub.cancel = g.cancel
    BY <2>6, <2>7, NotifyFacts
  <2> QED
    BY <1>2, <2>4, <2>5, <2>7, <2>8
<1>3. CASE ~Cancelled(h) /\ ready = {} /\ Unended(h, S) = {}
  <2>1. r = Result(h, "end", {})
    BY <1>3 DEF TryRecv
  <2>2. \A c \in S : Ended(h, c)
    BY <1>0, <1>3 DEF Unended, Ended
  <2> QED
    BY <1>3, <2>1, <2>2 DEF Result
<1>4. CASE ~Cancelled(h) /\ ready = {} /\ Unended(h, S) # {}
  <2>1. r = Result(h, "empty", {})
    BY <1>4 DEF TryRecv
  <2>2. S # {}
    BY <1>4 DEF Unended
  <2> QED
    BY <1>4, <2>1, <2>2 DEF Result
<1> HIDE DEF ready
<1> QED
  BY <1>1, <1>2, <1>3, <1>4

(* Somebody who does not wait keeps the detector quiet. *)
LEMMA UpIsDetected ==
    ASSUME NEW h, NEW w \in h.names, h.waiting[w] = NoWait
    PROVE  Detected(h)
  BY DEF Detected, Waiting

(* One pass of send. *)
LEMMA SendFacts ==
    ASSUME NEW C, Numbers(C), NEW W, NEW h, HubOK(C, W, h), NEW w \in W,
           NEW S \in SUBSET C, NEW r, r = Send(h, w, S)
    PROVE  /\ HubOK(C, W, r.hub)
           /\ KeptBut(W, h, r.hub, w) /\ DeclaredBy(h, r.hub, w)
           /\ \A c \in C \ S : r.hub.buf[c] = h.buf[c]
           /\ r.res \in {"cancelled", "noreader", "ok", "blocked"}
           /\ r.res = "cancelled" => Cancelled(r.hub)
           /\ r.res # "blocked" => r.hub.waiting[w] = NoWait
           /\ (w \in h.names \/ r.res = "blocked") => Detected(r.hub)
<1> DEFINE a == Awake(h, w)
           t == TrySend(a, S)
           m == Min(t.chans)
           s == Sleep(t.hub, w, SendWait(m))
<1>1. /\ HubOK(C, W, a) /\ KeptBut(W, h, a, w) /\ a.cancel = h.cancel
      /\ a.buf = h.buf /\ a.receivers = h.receivers /\ a.waiting[w] = NoWait
  BY AwakeFacts
<1>2. r = IF t.res # "full" THEN t
          ELSE Result(s, IF Cancelled(s) THEN "cancelled" ELSE "blocked", {})
  BY DEF Send
<1> HIDE DEF a
<1>8. t = TrySend(a, S)
  OBVIOUS
<1> HIDE DEF t
<1>3. /\ HubOK(C, W, t.hub)
      /\ t.hub.names = a.names /\ t.hub.senders = a.senders
      /\ t.hub.receivers = a.receivers
      /\ t.hub.waiting = a.waiting /\ t.hub.cancel = a.cancel
      /\ \A c \in C \ S : t.hub.buf[c] = a.buf[c]
      /\ t.res \in {"cancelled", "noreader", "full", "ok"}
      /\ t.res # "ok" => t.hub = a
      /\ t.res = "cancelled" <=> Cancelled(a)
      /\ t.res = "full" => t.chans \subseteq S /\ t.chans # {}
  BY <1>1, <1>8, TrySendFacts
<1>4. KeptBut(W, h, t.hub, w) /\ t.hub.cancel = h.cancel /\ t.hub.waiting[w] = NoWait
  BY <1>1, <1>3 DEF KeptBut
<1>5. (Cancelled(t.hub) <=> Cancelled(h)) /\ (Cancelled(a) <=> Cancelled(h))
  BY <1>1, <1>4 DEF Cancelled
<1>6. CASE t.res # "full"
  <2>1. r = t
    BY <1>2, <1>6
  <2>2. DeclaredBy(h, t.hub, w)
    BY <1>4, CauseValues DEF DeclaredBy, Cancelled
  <2>3. w \in h.names => Detected(t.hub)
    BY <1>4, UpIsDetected DEF KeptBut
  <2> QED
    BY <1>1, <1>3, <1>4, <1>5, <1>6, <2>1, <2>2, <2>3
<1>7. CASE t.res = "full"
  <2>1. m \in C
    BY <1>3, <1>7, MinIn DEF Numbers
  <2>2. SendWait(m) \in Waits(C) /\ SendWait(m) # NoWait
    BY <2>1 DEF SendWait, NoWait, Waits
  <2> HIDE DEF m
  <2>3. /\ HubOK(C, W, s) /\ Detected(s)
        /\ KeptBut(W, t.hub, s, w) /\ DeclaredBy(t.hub, s, w)
        /\ s.buf = t.hub.buf
        /\ s.waiting[w] = IF Cancelled(s) THEN NoWait ELSE SendWait(m)
    BY <1>3, <2>2, SleepFacts
  <2>4. r = Result(s, IF Cancelled(s) THEN "cancelled" ELSE "blocked", {})
    BY <1>2, <1>7
  <2> HIDE DEF s
  <2>5. r.hub = s /\ r.res = IF Cancelled(s) THEN "cancelled" ELSE "blocked"
    BY <2>4 DEF Result
  <2>6. KeptBut(W, h, s, w) /\ DeclaredBy(h, s, w)
    BY <1>4, <1>5, <2>3 DEF KeptBut, DeclaredBy
  <2> QED
    BY <1>1, <1>3, <2>3, <2>5, <2>6
<1> QED
  BY <1>6, <1>7

(* One pass of recv_any. *)
LEMMA RecvAnyFacts ==
    ASSUME NEW C, Numbers(C), NEW W, NEW h, HubOK(C, W, h), NEW w \in W,
           NEW S \in SUBSET C, NEW r, r = RecvAny(h, w, S)
    PROVE  /\ HubOK(C, W, r.hub)
           /\ KeptBut(W, h, r.hub, w) /\ DeclaredBy(h, r.hub, w)
           /\ \A c \in C : h.buf[c] = 0 => r.hub.buf[c] = 0
           /\ r.res \in {"cancelled", "value", "end", "blocked"}
           /\ r.res = "cancelled" => Cancelled(r.hub)
           /\ r.res = "end" => ~Cancelled(h) /\ \A c \in S : Ended(h, c)
           /\ r.res # "blocked" => r.hub.waiting[w] = NoWait
           /\ (w \in h.names \/ r.res = "blocked") => Detected(r.hub)
<1> DEFINE a == Awake(h, w)
           t == TryRecv(a, S)
           s == Sleep(t.hub, w, RecvWait(S))
<1>1. /\ HubOK(C, W, a) /\ KeptBut(W, h, a, w) /\ a.cancel = h.cancel
      /\ a.buf = h.buf /\ a.receivers = h.receivers /\ a.waiting[w] = NoWait
  BY AwakeFacts
<1>2. r = IF t.res # "empty" THEN t
          ELSE Result(s, IF Cancelled(s) THEN "cancelled" ELSE "blocked", {})
  BY DEF RecvAny
<1> HIDE DEF a
<1>8. t = TryRecv(a, S)
  OBVIOUS
<1> HIDE DEF t
<1>3. /\ HubOK(C, W, t.hub)
      /\ t.hub.names = a.names /\ t.hub.senders = a.senders
      /\ t.hub.receivers = a.receivers
      /\ t.hub.waiting = a.waiting /\ t.hub.cancel = a.cancel
      /\ \A c \in C : a.buf[c] = 0 => t.hub.buf[c] = 0
      /\ t.res \in {"cancelled", "value", "end", "empty"}
      /\ t.res # "value" => t.hub = a
      /\ t.res = "cancelled" <=> Cancelled(a)
      /\ t.res = "end" => \A c \in S : Ended(a, c)
      /\ t.res = "empty" => S # {}
  BY <1>1, <1>8, TryRecvFacts
<1>4. KeptBut(W, h, t.hub, w) /\ t.hub.cancel = h.cancel /\ t.hub.waiting[w] = NoWait
  BY <1>1, <1>3 DEF KeptBut
<1>5. /\ Cancelled(t.hub) <=> Cancelled(h)
      /\ Cancelled(a) <=> Cancelled(h)
      /\ \A c : Ended(a, c) <=> Ended(h, c)
  BY <1>1, <1>4 DEF Cancelled, Ended, KeptBut
<1>6. CASE t.res # "empty"
  <2>1. r = t
    BY <1>2, <1>6
  <2>2. DeclaredBy(h, t.hub, w)
    BY <1>4, CauseValues DEF DeclaredBy, Cancelled
  <2>3. w \in h.names => Detected(t.hub)
    BY <1>4, UpIsDetected DEF KeptBut
  <2> QED
    BY <1>1, <1>3, <1>4, <1>5, <1>6, <2>1, <2>2, <2>3
<1>7. CASE t.res = "empty"
  <2>2. RecvWait(S) \in Waits(C) /\ RecvWait(S) # NoWait
    BY <1>3, <1>7 DEF RecvWait, NoWait, Waits
  <2>3. /\ HubOK(C, W, s) /\ Detected(s)
        /\ KeptBut(W, t.hub, s, w) /\ DeclaredBy(t.hub, s, w)
        /\ s.buf = t.hub.buf
        /\ s.waiting[w] = IF Cancelled(s) THEN NoWait ELSE RecvWait(S)
    BY <1>3, <2>2, SleepFacts
  <2>4. r = Result(s, IF Cancelled(s) THEN "cancelled" ELSE "blocked", {})
    BY <1>2, <1>7
  <2> HIDE DEF s
  <2>5. r.hub = s /\ r.res = IF Cancelled(s) THEN "cancelled" ELSE "blocked"
    BY <2>4 DEF Result
  <2>6. KeptBut(W, h, s, w) /\ DeclaredBy(h, s, w)
    BY <1>4, <1>5, <2>3 DEF KeptBut, DeclaredBy
  <2> QED
    BY <1>1, <1>3, <2>3, <2>5, <2>6
<1> QED
  BY <1>6, <1>7

(* register_worker adds names and nothing else. *)
LEMMA RegisterFacts ==
    ASSUME NEW C, NEW W, NEW h, HubOK(C, W, h), NEW N \in SUBSET W, NEW k, k = Register(h, N)
    PROVE  /\ HubOK(C, W, k) /\ k.names = h.names \union N
           /\ k.senders = h.senders /\ k.buf = h.buf /\ k.receivers = h.receivers
           /\ k.waiting = h.waiting /\ k.cancel = h.cancel
<1>1. /\ k \in HubOf(C, W) /\ k.names = h.names \union N
      /\ k.senders = h.senders /\ k.buf = h.buf /\ k.receivers = h.receivers
      /\ k.waiting = h.waiting /\ k.cancel = h.cancel /\ k.asleep = h.asleep
  BY DEF HubOK, HubOf, Register
<1> QED
  BY <1>1 DEF HubOK, Waiting

-----------------------------------------------------------------------------
(* The inductive invariant                                                 *)

(* What a run's hub is made of. *)
Workers == Nodes \union {"caller", "launch", "timer"}
Chans == DOMAIN graph.chan
Restored == DOMAIN graph.restored

(* The fields of a thread. *)
ThreadFields == {"pc", "start", "todo", "filled", "bound", "eof", "call", "emits", "given",
                 "outs", "left", "closing", "stopped", "ending"}

(* The hub has its type, and the detector has nothing to declare. *)
HubInv == HubOK(Chans, Workers, hub) /\ Detected(hub)

(* A channel read whole is at its end: no sender is left and, unless the caller may have
   sent after it closed (LiveIn::send does not look at closed), nothing is left in it. *)
Closed(h, c) == h.senders[c] = 0 /\ (Edge(c).src \in Nodes => h.buf[c] = 0)

(* EndedWell, of the threads T. *)
Well(T, n) == T[n].ending \in {"completed", "skipped"}

(* The type of a thread: it has an ending exactly once it is past execute, and only a node
   that did not panic goes through finish. *)
ThreadType(n, t) ==
    /\ DOMAIN t = ThreadFields
    /\ t.pc \in Threads /\ t.ending \in EndingsOf
    /\ t.start \subseteq Chans /\ t.closing \subseteq Chans
    /\ t.ending = "none" <=> t.pc \notin {"finish", "leave", "done"}
    /\ t.pc = "finish" => t.ending # "panicked"
    /\ t.pc \in {"drop", "replay"} => n \in Restored
    /\ t.pc = "unborn" => t.eof = {}

(* A node is counted as waiting only where its code is inside a send or a read. *)
ToReplay(n, t) == {p \in DOMAIN t.left \cap OutPorts(n) : t.left[p] > 0}
WaitsWhere(n, t, h) ==
    h.waiting[n] # NoWait =>
        \/ t.pc = "await"
        \/ t.pc = "exec" /\ t.call.op \in {"recv", "send"}
        \/ t.pc = "outputs" /\ t.outs # {}
        \/ t.pc = "replay" /\ ToReplay(n, t) # {}

(* Who fails, is cancelled or panics leaves a cancelled run behind. *)
Interrupted(t, h) == t.ending \in {"failed", "cancelled", "panicked"} => Cancelled(h)

(* What the departure of a node reads: until it is let go, each whole input is at its end
   or is still waited for; once its outputs go out, each was ended by a producer that
   completed or was skipped. *)
ReadWhole(n, T, h) ==
    /\ T[n].pc \in {"scan", "await"} =>
          \A c \in WholeChans(n) : c \in T[n].start \/ Closed(h, c)
    /\ T[n].pc \in {"context", "exec"} => \A c \in WholeChans(n) : Closed(h, c)
    /\ (n \notin Restored /\ (T[n].pc = "outputs" \/ T[n].ending = "completed")) =>
          \A c \in WholeChans(n) :
              Closed(h, c) /\ (Edge(c).src \in Nodes => Well(T, Edge(c).src))

(* An output ends only when its producer has an ending, and not by a panic. *)
Releases(n, t, h) ==
    \A c \in Out(n) : h.senders[c] = 0 => t.ending \notin {"none", "panicked"}

(* All of it, for one thread and for all. *)
ThreadInv(n, T, h) ==
    /\ ThreadType(n, T[n]) /\ WaitsWhere(n, T[n], h) /\ Interrupted(T[n], h)
    /\ ReadWhole(n, T, h) /\ Releases(n, T[n], h)
ThreadsInv == th = [n \in Nodes |-> th[n]] /\ \A n \in Nodes : ThreadInv(n, th, hub)

(* The threads have not started, or never will. *)
Launching == main.pc \in {"attach", "mount", "leave"} \/ ~graph.valid

(* The main thread: the nodes are born when it starts them and done when it has joined
   them, ok says that all ended well, stopped that the cause came from outside, and no
   deadlock is declared before the start. *)
MainInv ==
    /\ graph \in Graphs
    /\ main \in [pc : {"attach", "mount", "leave", "run", "ended", "panicked"},
                 result : {"none", "ok", "stopped", "error"}]
    /\ ~graph.valid => main.pc \in {"attach", "mount", "ended"}
    /\ \A n \in Nodes : th[n].pc = "unborn" <=> Launching
    /\ (main.pc \in {"ended", "panicked"} /\ graph.valid) =>
          persistq = <<>> /\ \A n \in Nodes : th[n].pc = "done"
    /\ main.result # "none" => main.pc = "ended"
    /\ main.result = "ok" => \A n \in Nodes : EndedWell(n)
    /\ main.result = "stopped" => hub.cancel = External
    /\ Launching => hub.cancel # Deadlock

(* Who is signed in at the hub, for each kind of worker. *)
NamesInv ==
    /\ \A n \in Nodes :
          n \in hub.names <=> (main.pc = "leave" \/ th[n].pc \notin {"unborn", "done"})
    /\ "launch" \in hub.names <=> (Live(graph) /\ Launching)
    /\ "caller" \in hub.names <=> (Live(graph) /\ fond \in {"run", "part"})
    /\ "timer" \in hub.names <=> (graph.liveIn # 0 /\ timer # "gone")
    /\ hub.waiting["launch"] = NoWait /\ hub.waiting["timer"] = NoWait

(* The messages to the persister. *)
Messages == [what : {"completed", "failed"}, node : Nodes]
Message(what, n) == [what |-> what, node |-> n]

(* What is in the store, or on its way to it, has completed; what completed is in the
   store or on its way, unless a save has failed or the state is not kept. *)
SaveInv ==
    /\ persistq \in Seq(Messages)
    /\ Restored \subseteq saved /\ saved \subseteq Nodes \union Restored
    /\ storeErr \in BOOLEAN
    /\ \A n \in saved \ Restored : th[n].ending = "completed"
    /\ \A i \in 1..Len(persistq) :
          persistq[i].what = "completed" => th[persistq[i].node].ending = "completed"
    /\ (graph.checkpointed /\ graph.keepState /\ ~storeErr) =>
          \A n \in Nodes : th[n].ending = "completed" =>
              n \in saved \/ \E i \in 1..Len(persistq) : persistq[i] = Message("completed", n)

(* The cancel handle: a pull before attach is seen by attach, a later one is due to the
   hub, and a launched run that is stopped has a cause in the registry. *)
HandleInv ==
    /\ handle \in [cancelled : BOOLEAN, attached : BOOLEAN, due : BOOLEAN]
    /\ handle.due => handle.cancelled
    /\ main.pc \in {"mount", "leave", "run"} => handle.attached
    /\ CancelReachesHub
    /\ hub.cancel = External => handle.cancelled
    /\ (graph.spawned /\ handle.cancelled) => entry.cause # NoCause

(* The caller waits only inside an operation on a channel it has. *)
CallerInv ==
    /\ DOMAIN caller = {"pc", "op", "sent", "done"}
    /\ caller.pc \in {"idle", "blocking", "turn", "gap", "nap"}
    /\ caller.pc # "idle" =>
          \/ caller.op = "send" /\ graph.liveIn # 0
          \/ caller.op = "recv" /\ graph.liveOut # 0
    /\ hub.waiting["caller"] # NoWait => caller.pc \in {"blocking", "nap"}

(* The background thread: what it tells is the run's result and the registry's cause, once. *)
FondInv ==
    /\ fond \in {"run", "part", "cause", "tell", "done", "remove", "gone"}
    /\ timer \in {"armed", "grace", "part", "gone"}
    /\ entry \in [present : BOOLEAN, alive : BOOLEAN, cause : {NoCause, "requested", "timeout"}]
    /\ DOMAIN told = {"result", "cause", "times"}
    /\ fond # "run" => main.pc = "ended" /\ graph.spawned
    /\ told.times = IF fond \in {"done", "remove", "gone"} THEN 1 ELSE 0
    /\ fond \in {"tell", "done", "remove", "gone"} =>
          /\ told.result = main.result
          /\ main.result = "stopped" => told.cause = entry.cause /\ entry.cause # NoCause
    /\ entry.alive => entry.present
    /\ fond \in {"remove", "gone"} => ~entry.alive

(* The inductive invariant. *)
IInv ==
    /\ HubInv /\ ThreadsInv /\ MainInv /\ NamesInv
    /\ SaveInv /\ HandleInv /\ CallerInv /\ FondInv

(* What the assumptions say of the graph of a run. *)
LEMMA GraphFacts ==
    ASSUME graph \in Graphs
    PROVE  /\ Numbers(Chans) /\ 0 \notin Chans
           /\ "caller" \notin Nodes /\ "launch" \notin Nodes /\ "timer" \notin Nodes
           /\ graph.liveIn # 0 => graph.liveIn \in Chans /\ Edge(graph.liveIn).src = "caller"
           /\ graph.liveOut # 0 => graph.liveOut \in Chans
           /\ {graph.spawned, graph.timed, graph.valid} \subseteq BOOLEAN
  BY GraphsAssumption, LaunchAssumption DEF Numbers, Chans, Nodes, Edge

-----------------------------------------------------------------------------
(* A step of a node                                                        *)

(* What a step of node n, which leaves it at p, may do to the hub. *)
HubMove(n, p) ==
    /\ HubOK(Chans, Workers, hub') /\ Detected(hub')
    /\ hub'.names = IF p = "done" THEN hub.names \ {n} ELSE hub.names
    /\ \A v \in Workers \ {n} : hub'.waiting[v] = hub.waiting[v]
    /\ \A c \in Chans : hub'.senders[c] = hub.senders[c] \/ (c \in Out(n) /\ hub'.senders[c] = 0)
    /\ \A c \in Chans : Ended(hub, c) => hub'.buf[c] = 0
    /\ hub'.cancel = hub.cancel \/ (~Cancelled(hub) /\ hub'.cancel \in {Deadlock, Failed(n)})
    /\ DeclaredBy(hub, hub', n)

(* What it may do to its own thread: t is the thread after it. *)
ThreadMove(n, t) ==
    /\ th' = [th EXCEPT ![n] = t]
    /\ th[n].pc \notin {"unborn", "done"} /\ t.pc # "unborn"
    /\ th[n].ending # "none" => t.ending = th[n].ending

(* What it may hand to the persister. *)
QueueMove(n, t) ==
    \/ /\ persistq' = persistq
       /\ t.ending = "completed" =>
             th[n].ending = "completed" \/ n \in Restored \/ ~graph.checkpointed
    \/ persistq' = Append(persistq, Message("failed", n)) /\ t.ending # "completed"
    \/ persistq' = Append(persistq, Message("completed", n)) /\ t.ending = "completed"

(* The three together. *)
NodeMove(n, t) ==
    /\ HubMove(n, t.pc) /\ ThreadMove(n, t) /\ QueueMove(n, t)
    /\ ThreadInv(n, th', hub')
    /\ UNCHANGED <<graph, saved, storeErr, main, handle, bgvars>>

(* The primes of what is read of the graph. *)
LEMMA PrimedThread ==
    ASSUME UNCHANGED graph, NEW n
    PROVE  ThreadInv(n, th', hub') <=> ThreadInv(n, th, hub)'
<1>1. /\ Nodes' = Nodes /\ Chans' = Chans /\ Restored' = Restored
      /\ In(n)' = In(n) /\ Out(n)' = Out(n) /\ \A c : Edge(c)' = Edge(c)
  BY DEF Nodes, Chans, Restored, In, Out, Edge
<1>2. WholeChans(n)' = WholeChans(n) /\ OutPorts(n)' = OutPorts(n)
  BY DEF WholeChans, InChans, Elements, InPorts, OutPorts, In, Out, Edge
<1>3. ThreadType(n, th[n])' <=> ThreadType(n, th'[n])
  BY <1>1 DEF ThreadType
<1>4. WaitsWhere(n, th[n], hub)' <=> WaitsWhere(n, th'[n], hub')
  BY <1>2 DEF WaitsWhere, ToReplay
<1>5. ReadWhole(n, th, hub)' <=> ReadWhole(n, th', hub')
  BY <1>1, <1>2 DEF ReadWhole, Closed, Well
<1>6. Releases(n, th[n], hub)' <=> Releases(n, th'[n], hub')
  BY <1>1 DEF Releases
<1>7. Interrupted(th[n], hub)' <=> Interrupted(th'[n], hub')
  BY DEF Interrupted, Cancelled
<1> QED
  BY <1>3, <1>4, <1>5, <1>6, <1>7 DEF ThreadInv

(* What is true of a thread stays true while others move. *)
LEMMA ThreadStays ==
    ASSUME NEW m \in Nodes, ThreadInv(m, th, hub), th'[m] = th[m],
           hub'.waiting[m] = hub.waiting[m] \/ hub'.waiting[m] = NoWait,
           Cancelled(hub) => Cancelled(hub'),
           \A c \in Chans : Closed(hub, c) => Closed(hub', c),
           \A c \in Out(m) : hub'.senders[c] = hub.senders[c],
           \A k \in Nodes : Well(th, k) => Well(th', k)
    PROVE  ThreadInv(m, th', hub')
<1>1. ThreadType(m, th'[m])
  BY DEF ThreadInv
<1>2. WaitsWhere(m, th'[m], hub')
  BY DEF ThreadInv, WaitsWhere
<1>3. Interrupted(th'[m], hub')
  BY DEF ThreadInv, Interrupted
<1>4. Releases(m, th'[m], hub')
  BY DEF ThreadInv, Releases
<1>5. WholeChans(m) \subseteq Chans
  BY DEF WholeChans, In, Chans
<1>6. ReadWhole(m, th', hub')
  BY <1>5 DEF ThreadInv, ReadWhole
<1> QED
  BY <1>1, <1>2, <1>3, <1>4, <1>6 DEF ThreadInv

(* A cause that is set stays, and a node never cancels from outside. *)
LEMMA CauseStays ==
    ASSUME NEW n,
           hub'.cancel = hub.cancel \/ (~Cancelled(hub) /\ hub'.cancel \in {Deadlock, Failed(n)})
    PROVE  /\ Cancelled(hub) => Cancelled(hub') /\ hub'.cancel = hub.cancel
           /\ hub'.cancel = External => hub.cancel = External
           /\ hub.cancel = External => hub'.cancel = External
  BY CauseValues DEF Cancelled

(* A channel that is at its end stays there. *)
LEMMA ClosedStays ==
    ASSUME NEW S,
           \A c \in Chans : hub'.senders[c] = hub.senders[c] \/ (c \in S /\ hub'.senders[c] = 0),
           \A c \in Chans : Ended(hub, c) => hub'.buf[c] = 0
    PROVE  \A c \in Chans : Closed(hub, c) => Closed(hub', c)
  BY DEF Closed, Ended

(* What a step of a node must do to keep the invariant. *)
LEMMA NodeMoves ==
    ASSUME IInv, NEW n \in Nodes, NEW t, NodeMove(n, t)
    PROVE  IInv'
<1>1. /\ graph \in Graphs /\ DOMAIN th = Nodes
      /\ UNCHANGED <<graph, saved, storeErr, main,
                     handle, fond, entry, timer, caller, closed, told>>
      /\ th' = [th EXCEPT ![n] = t] /\ DOMAIN th' = Nodes /\ th'[n] = t
      /\ \A m \in Nodes \ {n} : th'[m] = th[m]
      /\ th[n].pc \notin {"unborn", "done"} /\ t.pc # "unborn"
      /\ th[n].ending # "none" => t.ending = th[n].ending
  BY DEF IInv, ThreadsInv, MainInv, NodeMove, ThreadMove, bgvars
<1>2. Nodes' = Nodes /\ Chans' = Chans /\ Workers' = Workers /\ Restored' = Restored
  BY <1>1 DEF Nodes, Chans, Workers, Restored
<1>3. main.pc = "run" /\ graph.valid /\ ~Launching /\ fond = "run" /\ main.result = "none"
  BY <1>1 DEF IInv, MainInv, FondInv, Launching
<1>4. /\ HubOK(Chans, Workers, hub') /\ Detected(hub')
      /\ hub'.names = IF t.pc = "done" THEN hub.names \ {n} ELSE hub.names
      /\ \A v \in Workers \ {n} : hub'.waiting[v] = hub.waiting[v]
      /\ \A c \in Chans : hub'.senders[c] = hub.senders[c] \/ (c \in Out(n) /\ hub'.senders[c] = 0)
      /\ \A c \in Chans : Ended(hub, c) => hub'.buf[c] = 0
      /\ hub'.cancel = hub.cancel \/ (~Cancelled(hub) /\ hub'.cancel \in {Deadlock, Failed(n)})
  BY DEF NodeMove, HubMove
<1>5. /\ Cancelled(hub) => Cancelled(hub')
      /\ hub'.cancel = External => hub.cancel = External
      /\ hub.cancel = External => hub'.cancel = External
  BY <1>4, CauseStays
<1>6. \A c \in Chans : Closed(hub, c) => Closed(hub', c)
  BY <1>4, ClosedStays
<1>7. \A k \in Nodes : th'[k].ending = th[k].ending \/ (k = n /\ th[k].ending = "none")
  BY <1>1
<1>8. \A k \in Nodes : Well(th, k) => Well(th', k)
  BY <1>7 DEF Well
<1>9. HubInv'
  <2>1. Detected(hub)'
    BY <1>4
  <2> QED
    BY <1>2, <1>4, <2>1 DEF HubInv
<1>10. ThreadsInv'
  <2>1. ASSUME NEW m \in Nodes PROVE ThreadInv(m, th, hub)'
    <3>1. CASE m = n
      BY <1>1, <3>1, PrimedThread DEF NodeMove
    <3>2. CASE m # n
      <4>1. ThreadInv(m, th, hub) /\ hub'.waiting[m] = hub.waiting[m] /\ th'[m] = th[m]
        BY <1>1, <1>4, <3>2 DEF IInv, ThreadsInv, Workers
      <4>2. \A c \in Out(m) : hub'.senders[c] = hub.senders[c]
        BY <1>4, <3>2 DEF Out, Chans
      <4>3. ThreadInv(m, th', hub')
        BY <1>5, <1>6, <1>8, <4>1, <4>2, ThreadStays
      <4> QED
        BY <1>1, <4>3, PrimedThread
    <3> QED
      BY <3>1, <3>2
  <2>2. th' = [m \in Nodes |-> th'[m]]
    BY <1>1
  <2> QED
    BY <1>1, <1>2, <2>1, <2>2 DEF ThreadsInv
<1>11. MainInv'
  <2>1. ~Launching'
    BY <1>1, <1>3 DEF Launching
  <2>2. \A m \in Nodes : th'[m].pc # "unborn"
    BY <1>1, <1>3 DEF IInv, MainInv
  <2>3. main' = main /\ main \in [pc : {"attach", "mount", "leave", "run", "ended", "panicked"},
                 result : {"none", "ok", "stopped", "error"}] /\ graph' = graph
    BY <1>1 DEF IInv, MainInv
  <2> QED
    BY <1>1, <1>2, <1>3, <2>1, <2>2, <2>3 DEF MainInv
<1>12. NamesInv'
  <2>1. {"launch", "timer"} \subseteq Workers \ {n} /\ "caller" # n
    BY <1>1, GraphFacts DEF Workers
  <2>2. hub'.waiting["launch"] = NoWait /\ hub'.waiting["timer"] = NoWait
    BY <1>4, <2>1 DEF IInv, NamesInv
  <2>3. Launching' <=> Launching
    BY <1>1 DEF Launching
  <2>4. \A m \in Nodes : m \in hub'.names <=> th'[m].pc \notin {"unborn", "done"}
    BY <1>1, <1>3, <1>4 DEF IInv, NamesInv
  <2>5. \A v \in {"launch", "caller", "timer"} : v \in hub'.names <=> v \in hub.names
    BY <1>4, <2>1
  <2>6. Live(graph)' <=> Live(graph)
    BY <1>1 DEF Live
  <2>7. /\ "launch" \in hub'.names <=> (Live(graph) /\ Launching)
        /\ "caller" \in hub'.names <=> (Live(graph) /\ fond \in {"run", "part"})
        /\ "timer" \in hub'.names <=> (graph.liveIn # 0 /\ timer # "gone")
    BY <2>5 DEF IInv, NamesInv
  <2> QED
    BY <1>1, <1>2, <1>3, <2>2, <2>3, <2>4, <2>6, <2>7 DEF NamesInv
<1>13. SaveInv'
  <2>1. /\ persistq \in Seq(Messages) /\ saved \subseteq Nodes \union Restored
        /\ \A m \in saved \ Restored : th[m].ending = "completed"
        /\ \A i \in 1..Len(persistq) :
             persistq[i].what = "completed" => th[persistq[i].node].ending = "completed"
        /\ (graph.checkpointed /\ graph.keepState /\ ~storeErr) =>
             \A m \in Nodes : th[m].ending = "completed" =>
               m \in saved \/ \E i \in 1..Len(persistq) : persistq[i] = Message("completed", m)
        /\ Restored \subseteq saved /\ storeErr \in BOOLEAN
    BY DEF IInv, SaveInv
  <2>2. \A i \in 1..Len(persistq) : persistq[i].node \in Nodes
    <3>1. \A i \in 1..Len(persistq) : persistq[i] \in Messages
      BY <2>1
    <3> QED
      BY <3>1 DEF Messages
  <2>3. \A m \in Nodes : th[m].ending = "completed" => th'[m].ending = "completed"
    BY <1>7
  <2>4. \A i \in 1..Len(persistq) :
           persistq[i].what = "completed" => th'[persistq[i].node].ending = "completed"
    BY <2>1, <2>2, <2>3
  <2>5. \A m \in saved \ Restored : th'[m].ending = "completed"
    BY <2>1, <2>3
  <2>6. Messages' = Messages
    BY <1>2 DEF Messages
  <2>7. CASE persistq' = persistq /\ (t.ending = "completed" =>
             th[n].ending = "completed" \/ n \in Restored \/ ~graph.checkpointed)
    <3>1. (graph.checkpointed /\ graph.keepState /\ ~storeErr) =>
             \A m \in Nodes : th'[m].ending = "completed" =>
               m \in saved \/ \E i \in 1..Len(persistq) : persistq[i] = Message("completed", m)
      BY <1>1, <2>1, <2>7
    <3> QED
      BY <1>1, <1>2, <2>1, <2>4, <2>5, <2>6, <2>7, <3>1 DEF SaveInv
  <2>8. ASSUME NEW what \in {"completed", "failed"},
               persistq' = Append(persistq, Message(what, n)),
               t.ending = "completed" <=> what = "completed"
        PROVE  SaveInv'
    <3>1. Message(what, n) \in Messages /\ Message(what, n).what = what
          /\ Message(what, n).node = n
      BY DEF Message, Messages
    <3>2. /\ persistq' \in Seq(Messages) /\ Len(persistq') = Len(persistq) + 1
          /\ \A i \in 1..Len(persistq) : persistq'[i] = persistq[i]
          /\ persistq'[Len(persistq) + 1] = Message(what, n) /\ Len(persistq) \in Nat
      BY <2>1, <2>8, <3>1
    <3>3. \A i \in 1..Len(persistq') :
             persistq'[i].what = "completed" => th'[persistq'[i].node].ending = "completed"
      <4>1. ASSUME NEW i \in 1..Len(persistq'), persistq'[i].what = "completed"
            PROVE  th'[persistq'[i].node].ending = "completed"
        <5>1. CASE i \in 1..Len(persistq)
          BY <2>4, <3>2, <4>1, <5>1
        <5>2. CASE i = Len(persistq) + 1
          BY <1>1, <2>8, <3>1, <3>2, <4>1, <5>2
        <5> QED
          BY <3>2, <5>1, <5>2
      <4> QED
        BY <4>1
    <3>4. ASSUME graph.checkpointed, graph.keepState, ~storeErr, NEW m \in Nodes, th'[m].ending = "completed"
          PROVE  m \in saved \/ \E i \in 1..Len(persistq') : persistq'[i] = Message("completed", m)
      <4>1. CASE th[m].ending = "completed"
        BY <2>1, <3>2, <3>4, <4>1
      <4>2. CASE th[m].ending # "completed"
        <5>1. m = n /\ t.ending = "completed"
          BY <1>1, <3>4, <4>2
        <5>2. persistq'[Len(persistq) + 1] = Message("completed", m)
          BY <2>8, <3>2, <5>1
        <5>3. Len(persistq) + 1 \in 1..Len(persistq')
          BY <3>2
        <5> QED
          BY <5>2, <5>3
      <4> QED
        BY <4>1, <4>2
    <3> QED
      BY <1>1, <1>2, <2>1, <2>5, <2>6, <3>2, <3>3, <3>4 DEF SaveInv
  <2> QED
    BY <2>7, <2>8 DEF NodeMove, QueueMove
<1>14. HandleInv'
  BY <1>1, <1>5 DEF IInv, HandleInv, CancelReachesHub
<1>15. CallerInv'
  <2>1. hub'.waiting["caller"] = hub.waiting["caller"]
    BY <1>1, <1>4, GraphFacts DEF Workers
  <2> QED
    BY <1>1, <2>1 DEF IInv, CallerInv
<1>16. FondInv'
  BY <1>1 DEF IInv, FondInv
<1> QED
  BY <1>9, <1>10, <1>11, <1>12, <1>13, <1>14, <1>15, <1>16 DEF IInv

-----------------------------------------------------------------------------
(* What every step tells                                                   *)

(* An end that is read in this step is a true one. *)
EndTold ==
    \A n \in Nodes : th'[n].eof # th[n].eof =>
        \A c \in InChans(n, th'[n].eof \ th[n].eof) :
            Edge(c).src \in Nodes => EndedWell(Edge(c).src)

(* A deadlock that is declared in this step is one: all the workers but one are in a wait
   nothing will answer, and that one is neither the launch nor the timer. *)
DeadlockTold ==
    (hub'.cancel = Deadlock /\ ~Cancelled(hub)) =>
        \E w \in Workers :
            /\ hub'.waiting[w] = NoWait /\ \A v \in hub'.names \ {w} : Blocked(hub', v)
            /\ w \in {"launch", "timer"} => w \notin hub'.names

(* What every step does. *)
SoundStep == IInv' /\ EndTold /\ DeadlockTold

(* How a node may go on, by what it has read. *)
ReadMove(n, t) ==
    /\ t.pc \in {"scan", "await"} =>
          /\ th[n].pc \in {"scan", "await"}
          /\ \A c \in WholeChans(n) : c \in th[n].start => c \in t.start \/ Closed(hub, c)
    /\ t.pc \in {"context", "exec"} => \A c \in WholeChans(n) : Closed(hub, c)
    /\ (n \notin Restored /\ (t.pc = "outputs" \/ t.ending = "completed")) =>
          \/ th[n].pc = "outputs" \/ th[n].ending = "completed"
          \/ th[n].pc = "exec" /\ ~Cancelled(hub)

(* What a step of a node must do to its own thread. *)
OwnMove(n, t) ==
    /\ ThreadType(n, t) /\ WaitsWhere(n, t, hub') /\ Interrupted(t, hub')
    /\ (\A c \in Out(n) : hub'.senders[c] = hub.senders[c]) \/ t.ending \notin {"none", "panicked"}
    /\ ReadMove(n, t)
    /\ \A c \in InChans(n, t.eof \ th[n].eof) : Edge(c).src \in Nodes => EndedWell(Edge(c).src)

(* Once nothing was cancelled, an end says that its producer came to its own. *)
LEMMA EndIsProduced ==
    ASSUME IInv, ~Cancelled(hub), NEW c \in Chans, hub.senders[c] = 0, Edge(c).src \in Nodes
    PROVE  EndedWell(Edge(c).src)
<1> DEFINE m == Edge(c).src
<1>1. c \in Out(m)
  BY DEF Out, Chans
<1>2. ThreadInv(m, th, hub)
  BY DEF IInv, ThreadsInv
<1> HIDE DEF m
<1>3. th[m].ending \in EndingsOf /\ th[m].ending \notin {"none", "panicked"}
      /\ th[m].ending \notin {"failed", "cancelled", "panicked"}
  BY <1>1, <1>2 DEF ThreadInv, ThreadType, Releases, Interrupted
<1>4. EndedWell(m)
  BY <1>3 DEF EndedWell, EndingsOf
<1> QED
  BY <1>4 DEF m

(* A step of a node that moves its thread and the hub so is sound. *)
LEMMA NodeIsSound ==
    ASSUME IInv, NEW n \in Nodes, NEW t, HubMove(n, t.pc), ThreadMove(n, t), QueueMove(n, t),
           OwnMove(n, t), UNCHANGED <<graph, saved, storeErr, main, handle, bgvars>>
    PROVE  SoundStep
<1>1. /\ DOMAIN th = Nodes /\ th' = [th EXCEPT ![n] = t] /\ th'[n] = t
      /\ \A m \in Nodes \ {n} : th'[m] = th[m]
      /\ th[n].ending # "none" => t.ending = th[n].ending
      /\ ThreadInv(n, th, hub) /\ graph \in Graphs
  BY DEF IInv, ThreadsInv, MainInv, ThreadMove
<1>2. /\ \A c \in Chans : hub'.senders[c] = hub.senders[c] \/ (c \in Out(n) /\ hub'.senders[c] = 0)
      /\ \A c \in Chans : Ended(hub, c) => hub'.buf[c] = 0
  BY DEF HubMove
<1>3. \A c \in Chans : Closed(hub, c) => Closed(hub', c)
  BY <1>2, ClosedStays
<1>4. \A k \in Nodes : Well(th, k) => Well(th', k)
  BY <1>1 DEF Well
<1>5. WholeChans(n) \subseteq Chans /\ Out(n) \subseteq Chans
  BY DEF WholeChans, In, Out, Chans
<1>6. Releases(n, th'[n], hub')
  BY <1>1 DEF OwnMove, Releases, ThreadInv
<1>7. ReadWhole(n, th', hub')
  <2>1. th'[n].pc \in {"scan", "await"} =>
          \A c \in WholeChans(n) : c \in th'[n].start \/ Closed(hub', c)
    BY <1>1, <1>3, <1>5 DEF OwnMove, ReadMove, ThreadInv, ReadWhole
  <2>2. th'[n].pc \in {"context", "exec"} => \A c \in WholeChans(n) : Closed(hub', c)
    BY <1>1, <1>3, <1>5 DEF OwnMove, ReadMove
  <2>3. ASSUME n \notin Restored, th'[n].pc = "outputs" \/ th'[n].ending = "completed",
               NEW c \in WholeChans(n)
        PROVE  Closed(hub, c) /\ (Edge(c).src \in Nodes => Well(th, Edge(c).src))
    <3>1. CASE th[n].pc = "outputs" \/ th[n].ending = "completed"
      BY <1>1, <2>3, <3>1 DEF ThreadInv, ReadWhole
    <3>2. CASE th[n].pc = "exec" /\ ~Cancelled(hub)
      <4>1. Closed(hub, c)
        BY <1>1, <3>2 DEF ThreadInv, ReadWhole
      <4>2. Edge(c).src \in Nodes => EndedWell(Edge(c).src)
        BY <1>5, <3>2, <4>1, EndIsProduced DEF Closed
      <4> QED
        BY <4>1, <4>2 DEF Well, EndedWell
    <3> QED
      BY <1>1, <2>3, <3>1, <3>2 DEF OwnMove, ReadMove
  <2> QED
    BY <1>3, <1>4, <1>5, <2>1, <2>2, <2>3 DEF ReadWhole
<1>8. ThreadInv(n, th', hub')
  BY <1>1, <1>6, <1>7 DEF OwnMove, ThreadInv
<1>9. IInv'
  BY <1>8, NodeMoves DEF NodeMove
<1>10. EndTold
  BY <1>1 DEF EndTold, OwnMove
<1>11. DeadlockTold
  <2>1. n \in Workers /\ n \notin {"launch", "timer"}
    BY <1>1, GraphFacts DEF Workers
  <2> QED
    BY <2>1 DEF HubMove, DeclaredBy, DeadlockTold
<1> QED
  BY <1>9, <1>10, <1>11 DEF SoundStep

-----------------------------------------------------------------------------
(* What a node does to the hub                                             *)

(* A node that is neither unborn nor done is a live worker. *)
LEMMA Running ==
    ASSUME IInv, NEW n \in Nodes, th[n].pc \notin {"unborn", "done"}
    PROVE  /\ n \in hub.names /\ n \in Workers
           /\ HubOK(Chans, Workers, hub) /\ Detected(hub) /\ Numbers(Chans)
           /\ ThreadInv(n, th, hub) /\ Releases(n, th[n], hub)
           /\ In(n) \subseteq Chans /\ Out(n) \subseteq Chans
  BY GraphFacts
     DEF IInv, NamesInv, HubInv, MainInv, ThreadsInv, ThreadInv, Workers, In, Out, Chans

(* A step that leaves the hub alone. *)
LEMMA StillMove ==
    ASSUME IInv, NEW n \in Nodes, th[n].pc \notin {"unborn", "done"}, UNCHANGED hub,
           NEW p, p # "done"
    PROVE  HubMove(n, p)
<1>1. DeclaredBy(hub, hub', n)
  BY CauseValues DEF DeclaredBy, Cancelled
<1>2. HubOK(Chans, Workers, hub') /\ Detected(hub')
  BY Running
<1> QED
  BY <1>1, <1>2 DEF HubMove, Ended

(* A pass of send on outputs of the node. *)
LEMMA SendMove ==
    ASSUME IInv, NEW n \in Nodes, th[n].pc \notin {"unborn", "done"}, th[n].ending = "none",
           NEW S, S \in SUBSET Out(n), NEW r, r = Send(hub, n, S), hub' = r.hub,
           NEW p, p # "done"
    PROVE  /\ HubMove(n, p)
           /\ r.res \in {"cancelled", "noreader", "ok", "blocked"}
           /\ r.res = "cancelled" => Cancelled(hub')
           /\ r.res # "blocked" => hub'.waiting[n] = NoWait
           /\ hub'.senders = hub.senders
<1>1. /\ n \in hub.names /\ n \in Workers
      /\ HubOK(Chans, Workers, hub) /\ Numbers(Chans)
      /\ Releases(n, th[n], hub) /\ Out(n) \subseteq Chans
  BY Running
<1>2. S \in SUBSET Chans
  BY <1>1
<1>3. /\ HubOK(Chans, Workers, r.hub)
      /\ KeptBut(Workers, hub, r.hub, n) /\ DeclaredBy(hub, r.hub, n)
      /\ \A c \in Chans \ S : r.hub.buf[c] = hub.buf[c]
      /\ r.res \in {"cancelled", "noreader", "ok", "blocked"}
      /\ r.res = "cancelled" => Cancelled(r.hub)
      /\ r.res # "blocked" => r.hub.waiting[n] = NoWait
      /\ (n \in hub.names \/ r.res = "blocked") => Detected(r.hub)
  BY <1>1, <1>2, SendFacts
<1>4. \A c \in S : hub.senders[c] # 0
  BY <1>1 DEF Releases
<1>5. \A c \in Chans : Ended(hub, c) => hub'.buf[c] = 0
  BY <1>3, <1>4 DEF Ended
<1> QED
  BY <1>1, <1>3, <1>5 DEF HubMove, KeptBut

(* A pass of recv_any on inputs of the node. *)
LEMMA RecvMove ==
    ASSUME IInv, NEW n \in Nodes, th[n].pc \notin {"unborn", "done"},
           NEW S, S \in SUBSET Chans, NEW r, r = RecvAny(hub, n, S), hub' = r.hub,
           NEW p, p # "done"
    PROVE  /\ HubMove(n, p)
           /\ r.res \in {"cancelled", "value", "end", "blocked"}
           /\ r.res = "cancelled" => Cancelled(hub')
           /\ r.res = "end" => ~Cancelled(hub) /\ \A c \in S : Ended(hub, c)
           /\ r.res # "blocked" => hub'.waiting[n] = NoWait
           /\ hub'.senders = hub.senders
<1>1. /\ n \in hub.names /\ n \in Workers
      /\ HubOK(Chans, Workers, hub) /\ Numbers(Chans)
  BY Running
<1>3. /\ HubOK(Chans, Workers, r.hub)
      /\ KeptBut(Workers, hub, r.hub, n) /\ DeclaredBy(hub, r.hub, n)
      /\ \A c \in Chans : hub.buf[c] = 0 => r.hub.buf[c] = 0
      /\ r.res \in {"cancelled", "value", "end", "blocked"}
      /\ r.res = "cancelled" => Cancelled(r.hub)
      /\ r.res = "end" => ~Cancelled(hub) /\ \A c \in S : Ended(hub, c)
      /\ r.res # "blocked" => r.hub.waiting[n] = NoWait
      /\ (n \in hub.names \/ r.res = "blocked") => Detected(r.hub)
  BY <1>1, RecvAnyFacts
<1>5. \A c \in Chans : Ended(hub, c) => hub'.buf[c] = 0
  BY <1>3 DEF Ended
<1> QED
  BY <1>1, <1>3, <1>5 DEF HubMove, KeptBut

(* A receiver is released. *)
LEMMA ReceiverMove ==
    ASSUME IInv, NEW n \in Nodes, th[n].pc \notin {"unborn", "done"}, hub.waiting[n] = NoWait,
           NEW c \in Chans, hub' = ReleaseReceiver(hub, c), NEW p, p # "done"
    PROVE  HubMove(n, p) /\ hub'.waiting = hub.waiting /\ hub'.senders = hub.senders
           /\ hub'.cancel = hub.cancel
<1>1. n \in hub.names /\ HubOK(Chans, Workers, hub)
  BY Running
<1>2. /\ HubOK(Chans, Workers, hub')
      /\ hub'.names = hub.names /\ hub'.senders = hub.senders
      /\ hub'.waiting = hub.waiting /\ hub'.cancel = hub.cancel
      /\ \A d \in Chans : hub'.buf[d] = hub.buf[d] \/ hub'.buf[d] = 0
  BY <1>1, ReleaseReceiverFacts
<1>3. Detected(hub')
  BY <1>1, <1>2, UpIsDetected
<1>4. DeclaredBy(hub, hub', n)
  BY <1>2, CauseValues DEF DeclaredBy, Cancelled
<1> QED
  BY <1>2, <1>3, <1>4 DEF HubMove, Ended

(* A sender of the node is released. *)
LEMMA SenderMove ==
    ASSUME IInv, NEW n \in Nodes, th[n].pc \notin {"unborn", "done"},
           NEW c \in Out(n), hub' = ReleaseSender(hub, c), NEW p, p # "done"
    PROVE  HubMove(n, p) /\ hub'.waiting = hub.waiting /\ hub'.cancel = hub.cancel
<1>1. HubOK(Chans, Workers, hub) /\ Detected(hub) /\ c \in Chans
  BY Running
<1>2. /\ HubOK(Chans, Workers, hub')
      /\ hub'.names = hub.names /\ hub'.buf = hub.buf
      /\ hub'.waiting = hub.waiting /\ hub'.cancel = hub.cancel
      /\ hub'.senders[c] = 0 /\ \A d \in Chans \ {c} : hub'.senders[d] = hub.senders[d]
      /\ Detected(hub) => Detected(hub')
  BY <1>1, ReleaseSenderFacts
<1>4. DeclaredBy(hub, hub', n)
  BY <1>2, CauseValues DEF DeclaredBy, Cancelled
<1> QED
  BY <1>1, <1>2, <1>4 DEF HubMove, Ended

(* The node cancels the run. *)
LEMMA FailMove ==
    ASSUME IInv, NEW n \in Nodes, th[n].pc \notin {"unborn", "done"},
           hub' = CancelHub(hub, Failed(n)), NEW p, p # "done"
    PROVE  HubMove(n, p) /\ hub'.waiting = hub.waiting /\ Cancelled(hub')
           /\ hub'.senders = hub.senders
<1>1. HubOK(Chans, Workers, hub) /\ n \in Workers
  BY Running
<1>2. Failed(n) \in Causes(Workers) /\ Failed(n) # NotCancelled
  BY <1>1, CauseValues DEF Causes
<1>3. /\ HubOK(Chans, Workers, hub') /\ Detected(hub') /\ Cancelled(hub')
      /\ hub'.names = hub.names /\ hub'.senders = hub.senders /\ hub'.buf = hub.buf
      /\ hub'.waiting = hub.waiting
      /\ hub'.cancel = IF Cancelled(hub) THEN hub.cancel ELSE Failed(n)
  BY <1>1, <1>2, CancelHubFacts
<1>4. DeclaredBy(hub, hub', n)
  BY <1>3, CauseValues DEF DeclaredBy
<1> QED
  BY <1>3, <1>4 DEF HubMove, Ended

(* The node signs out. *)
LEMMA LeaveMove ==
    ASSUME IInv, NEW n \in Nodes, th[n].pc \notin {"unborn", "done"},
           hub' = WorkerDone(hub, n)
    PROVE  HubMove(n, "done") /\ hub'.waiting[n] = NoWait /\ hub'.senders = hub.senders
<1>1. HubOK(Chans, Workers, hub) /\ n \in Workers
  BY Running
<1>2. /\ HubOK(Chans, Workers, hub') /\ Detected(hub')
      /\ hub'.names = hub.names \ {n} /\ hub'.senders = hub.senders /\ hub'.buf = hub.buf
      /\ hub'.waiting[n] = NoWait
      /\ \A v \in Workers \ {n} : hub'.waiting[v] = hub.waiting[v]
      /\ hub'.cancel = hub.cancel \/ (~Cancelled(hub) /\ hub'.cancel = Deadlock)
      /\ DeclaredBy(hub, hub', n)
  BY <1>1, WorkerDoneFacts
<1> QED
  BY <1>2 DEF HubMove, Ended

-----------------------------------------------------------------------------
(* The steps of a node                                                     *)

(* Nothing new was read to its end. *)
LEMMA NoNewEnd ==
    ASSUME NEW n, NEW X
    PROVE  InChans(n, X \ X) = {}
  BY DEF InChans

(* Nothing is handed to the persister. *)
LEMMA PersistNothing ==
    ASSUME NEW n, NEW t, UNCHANGED persistq, t.ending # "completed"
    PROVE  QueueMove(n, t)
  BY DEF QueueMove

(* retain: a channel leaves the departure only once it ended, if it is read whole. *)
LEMMA ScanIsSound ==
    ASSUME IInv, NEW n \in Nodes, Scan(n), UNCHANGED bgvars
    PROVE  SoundStep
<1> DEFINE m == Min(th[n].todo)
           p == Edge(m).inp
           served == (p \in Elements(n) /\ p \in th[n].filled) \/ Ended(hub, m)
           start == IF served THEN th[n].start \ {m} ELSE th[n].start
           todo == th[n].todo \ {m}
           t == [th[n] EXCEPT !.start = start, !.todo = todo,
                      !.pc = IF todo # {} THEN "scan"
                             ELSE IF start = {} THEN "context" ELSE "await"]
<1>1. /\ th[n].pc = "scan" /\ th' = [th EXCEPT ![n] = t]
      /\ UNCHANGED <<graph, hub, persistq, saved, storeErr, main, handle, bgvars>>
  BY DEF Scan, SetTh
<1>2. ThreadInv(n, th, hub) /\ DOMAIN th[n] = ThreadFields /\ th[n].ending = "none"
      /\ hub.waiting[n] = NoWait
  BY <1>1, Running DEF ThreadInv, ThreadType, WaitsWhere
<1>3. \A c \in WholeChans(n) : c \in th[n].start => c \in start \/ Closed(hub, c)
  BY DEF WholeChans, InChans, Closed, Ended
<1>4. start \subseteq th[n].start
  OBVIOUS
<1> HIDE DEF start, todo, m, p, served
<1>5. /\ DOMAIN t = ThreadFields /\ t.start = start /\ t.closing = th[n].closing
      /\ t.ending = th[n].ending /\ t.eof = th[n].eof
      /\ t.pc \in {"scan", "context", "await"} /\ (t.pc = "context" => start = {})
  BY <1>2 DEF ThreadFields
<1> HIDE DEF t
<1>6. ThreadType(n, t)
  BY <1>1, <1>2, <1>4, <1>5 DEF ThreadInv, ThreadType, Threads
<1>7. HubMove(n, t.pc)
  BY <1>1, <1>5, StillMove
<1>8. ThreadMove(n, t) /\ QueueMove(n, t)
  BY <1>1, <1>2, <1>5, PersistNothing DEF ThreadMove
<1>9. ReadMove(n, t)
  BY <1>1, <1>2, <1>3, <1>5 DEF ReadMove, ThreadInv, ReadWhole
<1>10. OwnMove(n, t)
  BY <1>1, <1>2, <1>5, <1>6, <1>9, NoNewEnd DEF OwnMove, WaitsWhere, Interrupted
<1> QED
  BY <1>1, <1>7, <1>8, <1>10, NodeIsSound

(* recv_any of the departure: the end of all it waits for lets the node go. *)
LEMMA AwaitIsSound ==
    ASSUME IInv, NEW n \in Nodes, Await(n), UNCHANGED bgvars
    PROVE  SoundStep
<1> DEFINE r == RecvAny(hub, n, th[n].start)
<1>1. /\ th[n].pc = "await" /\ hub' = r.hub
      /\ UNCHANGED <<graph, persistq, saved, storeErr, main, handle, bgvars>>
      /\ \/ r.res = "blocked" /\ th' = [th EXCEPT ![n] = th[n]]
         \/ r.res = "end" /\ th' = [th EXCEPT ![n] = [th[n] EXCEPT !.pc = "context"]]
         \/ r.res = "cancelled" /\ th' = [th EXCEPT ![n] = ToFinish(th[n], "cancelled")]
         \/ r.res = "value" /\ th' = [th EXCEPT ![n] =
                [th[n] EXCEPT !.pc = "scan", !.todo = th[n].start,
                               !.filled = @ \cup {Edge(Min(r.chans)).inp}]]
  BY DEF Await, SetTh
<1>2. ThreadInv(n, th, hub) /\ DOMAIN th[n] = ThreadFields /\ th[n].ending = "none"
      /\ th[n].start \in SUBSET Chans
  BY <1>1, Running DEF ThreadInv, ThreadType
<1>3. /\ \A q : q # "done" => HubMove(n, q)
      /\ r.res \in {"cancelled", "value", "end", "blocked"}
      /\ r.res = "cancelled" => Cancelled(hub')
      /\ r.res = "end" => ~Cancelled(hub) /\ \A c \in th[n].start : Ended(hub, c)
      /\ r.res # "blocked" => hub'.waiting[n] = NoWait
      /\ hub'.senders = hub.senders
  BY <1>1, <1>2, RecvMove
<1>4. PICK t : /\ th' = [th EXCEPT ![n] = t]
               /\ DOMAIN t = ThreadFields /\ t.start = th[n].start
               /\ t.closing = th[n].closing /\ t.eof = th[n].eof
               /\ \/ r.res = "blocked" /\ t = th[n]
                  \/ r.res = "end" /\ t.pc = "context" /\ t.ending = "none"
                  \/ r.res = "cancelled" /\ t.pc = "finish" /\ t.ending = "cancelled"
                  \/ r.res = "value" /\ t.pc = "scan" /\ t.ending = "none"
  <2>1. CASE r.res = "blocked"
    BY <1>1, <1>2, <2>1
  <2>2. CASE r.res = "end"
    <3> DEFINE t == [th[n] EXCEPT !.pc = "context"]
    <3>1. /\ DOMAIN t = ThreadFields /\ t.start = th[n].start /\ t.pc = "context"
          /\ t.closing = th[n].closing /\ t.eof = th[n].eof /\ t.ending = "none"
      BY <1>2 DEF ThreadFields
    <3>2. th' = [th EXCEPT ![n] = t]
      BY <1>1, <2>2
    <3> HIDE DEF t
    <3> QED
      BY <2>2, <3>1, <3>2
  <2>3. CASE r.res = "cancelled"
    <3> DEFINE t == ToFinish(th[n], "cancelled")
    <3>1. /\ DOMAIN t = ThreadFields /\ t.start = th[n].start /\ t.pc = "finish"
          /\ t.closing = th[n].closing /\ t.eof = th[n].eof /\ t.ending = "cancelled"
      BY <1>2 DEF ThreadFields, ToFinish
    <3>2. th' = [th EXCEPT ![n] = t]
      BY <1>1, <2>3
    <3> HIDE DEF t
    <3> QED
      BY <2>3, <3>1, <3>2
  <2>4. CASE r.res = "value"
    <3> DEFINE filled == th[n].filled \cup {Edge(Min(r.chans)).inp}
               t == [th[n] EXCEPT !.pc = "scan", !.todo = th[n].start, !.filled = filled]
    <3>1. th' = [th EXCEPT ![n] = t]
      BY <1>1, <2>4
    <3> HIDE DEF filled
    <3>2. /\ DOMAIN t = ThreadFields /\ t.start = th[n].start /\ t.pc = "scan"
          /\ t.closing = th[n].closing /\ t.eof = th[n].eof /\ t.ending = "none"
      BY <1>2 DEF ThreadFields
    <3> HIDE DEF t
    <3> QED
      BY <2>4, <3>1, <3>2
  <2> QED
    BY <1>3, <2>1, <2>2, <2>3, <2>4
<1> HIDE DEF r
<1>5. ThreadType(n, t)
  BY <1>1, <1>2, <1>4 DEF ThreadInv, ThreadType, Threads, EndingsOf
<1>6. HubMove(n, t.pc)
  BY <1>1, <1>3, <1>4
<1>7. ThreadMove(n, t) /\ QueueMove(n, t)
  BY <1>1, <1>2, <1>4, PersistNothing DEF ThreadMove
<1>8. ReadMove(n, t)
  <2>1. \A c \in th[n].start : Ended(hub, c) => Closed(hub, c)
    BY DEF Ended, Closed
  <2> QED
    BY <1>1, <1>2, <1>3, <1>4, <2>1 DEF ReadMove, ThreadInv, ReadWhole
<1>9. WaitsWhere(n, t, hub') /\ Interrupted(t, hub')
  BY <1>1, <1>2, <1>3, <1>4 DEF WaitsWhere, Interrupted
<1>10. OwnMove(n, t)
  BY <1>3, <1>4, <1>5, <1>8, <1>9, NoNewEnd DEF OwnMove
<1> QED
  BY <1>1, <1>6, <1>7, <1>10, NodeIsSound

(* The context is made. *)
LEMMA ContextIsSound ==
    ASSUME IInv, NEW n \in Nodes, Context(n), UNCHANGED bgvars
    PROVE  SoundStep
<1>1. /\ th[n].pc = "context"
      /\ UNCHANGED <<graph, hub, persistq, saved, storeErr, main, handle, bgvars>>
  BY DEF Context
<1>2. ThreadInv(n, th, hub) /\ DOMAIN th[n] = ThreadFields /\ th[n].ending = "none"
      /\ hub.waiting[n] = NoWait
  BY <1>1, Running DEF ThreadInv, ThreadType, WaitsWhere
<1> DEFINE u == [th[n] EXCEPT !.bound = Elements(n)]
<1>3. /\ DOMAIN u = ThreadFields /\ u.start = th[n].start /\ u.closing = th[n].closing
      /\ u.eof = th[n].eof /\ u.ending = th[n].ending
  BY <1>2 DEF ThreadFields
<1>4. \/ th' = [th EXCEPT ![n] = [u EXCEPT !.pc = "failing"]]
      \/ th' = [th EXCEPT ![n] = ToFinish(u, "skipped")]
      \/ th' = [th EXCEPT ![n] = [u EXCEPT !.pc = "exec"]]
  BY DEF Context, SetTh
<1> HIDE DEF u
<1>5. ASSUME NEW t, th' = [th EXCEPT ![n] = t],
             DOMAIN t = ThreadFields, t.start = th[n].start,
             t.closing = th[n].closing, t.eof = th[n].eof,
             \/ t.pc \in {"failing", "exec"} /\ t.ending = "none"
             \/ t.pc = "finish" /\ t.ending = "skipped"
      PROVE  SoundStep
  <2>6. ThreadType(n, t)
    BY <1>1, <1>2, <1>5 DEF ThreadInv, ThreadType, Threads, EndingsOf
  <2>7. HubMove(n, t.pc)
    BY <1>1, <1>5, StillMove
  <2>8. ThreadMove(n, t) /\ QueueMove(n, t)
    BY <1>1, <1>2, <1>5, PersistNothing DEF ThreadMove
  <2>9. ReadMove(n, t)
    BY <1>1, <1>2, <1>5 DEF ReadMove, ThreadInv, ReadWhole
  <2>10. OwnMove(n, t)
    BY <1>1, <1>2, <1>5, <2>6, <2>9, NoNewEnd DEF OwnMove, WaitsWhere, Interrupted
  <2> QED
    BY <1>1, <1>5, <2>7, <2>8, <2>10, NodeIsSound
<1>6. ASSUME NEW q \in {"failing", "exec"}, th' = [th EXCEPT ![n] = [u EXCEPT !.pc = q]]
      PROVE  SoundStep
  <2> DEFINE t == [u EXCEPT !.pc = q]
  <2>1. /\ DOMAIN t = ThreadFields /\ t.start = u.start /\ t.closing = u.closing
        /\ t.eof = u.eof /\ t.pc = q /\ t.ending = u.ending
    BY <1>3 DEF ThreadFields
  <2>2. th' = [th EXCEPT ![n] = t]
    BY <1>6
  <2> HIDE DEF t
  <2> QED
    BY <1>2, <1>3, <1>5, <2>1, <2>2
<1>7. CASE th' = [th EXCEPT ![n] = ToFinish(u, "skipped")]
  <2> DEFINE t == ToFinish(u, "skipped")
  <2>1. /\ DOMAIN t = ThreadFields /\ t.start = u.start /\ t.closing = u.closing
        /\ t.eof = u.eof /\ t.pc = "finish" /\ t.ending = "skipped"
    BY <1>3 DEF ThreadFields, ToFinish
  <2>2. th' = [th EXCEPT ![n] = t]
    BY <1>7
  <2> HIDE DEF t
  <2> QED
    BY <1>3, <1>5, <2>1, <2>2
<1> QED
  BY <1>4, <1>6, <1>7

(* A node that executes and goes on executing. *)
LEMMA ExecMoves ==
    ASSUME IInv, NEW n \in Nodes, th[n].pc = "exec", NEW t, th' = [th EXCEPT ![n] = t],
           DOMAIN t = ThreadFields, t.pc = "exec", t.start = th[n].start,
           t.ending = th[n].ending, t.closing \subseteq Chans,
           HubMove(n, "exec"), hub'.senders = hub.senders,
           hub'.waiting[n] # NoWait => t.call.op \in {"recv", "send"},
           \A c \in InChans(n, t.eof \ th[n].eof) : Edge(c).src \in Nodes => EndedWell(Edge(c).src),
           UNCHANGED <<graph, persistq, saved, storeErr, main, handle, bgvars>>
    PROVE  SoundStep
<1>1. ThreadInv(n, th, hub) /\ th[n].ending = "none"
  BY Running DEF ThreadInv, ThreadType
<1>2. ThreadType(n, t)
  BY <1>1 DEF ThreadInv, ThreadType
<1>3. ThreadMove(n, t) /\ QueueMove(n, t)
  BY <1>1, PersistNothing DEF ThreadMove
<1>4. ReadMove(n, t)
  BY <1>1 DEF ReadMove, ThreadInv, ReadWhole
<1>5. OwnMove(n, t)
  BY <1>1, <1>2, <1>4 DEF OwnMove, WaitsWhere, Interrupted
<1> QED
  BY <1>3, <1>5, NodeIsSound

(* Where a thread is while it executes. *)
LEMMA ExecFacts ==
    ASSUME IInv, NEW n \in Nodes, th[n].pc = "exec"
    PROVE  /\ DOMAIN th[n] = ThreadFields /\ th[n].ending = "none"
           /\ th[n].start \subseteq Chans /\ th[n].closing \subseteq Chans
           /\ th[n].call.op \notin {"recv", "send"} => hub.waiting[n] = NoWait
           /\ \A P : InChans(n, P) \in SUBSET Chans
           /\ \A p : OutChans(n, p) \in SUBSET Out(n)
  BY Running DEF ThreadInv, ThreadType, WaitsWhere, InChans, OutChans

(* An element that was read before execute. *)
LEMMA TakePendingIsSound ==
    ASSUME IInv, NEW n \in Nodes, NEW p, TakePending(n, p), UNCHANGED bgvars
    PROVE  SoundStep
<1> DEFINE t == [th[n] EXCEPT !.filled = @ \ {p}]
<1>1. /\ th[n].pc = "exec" /\ th[n].call = NoCall /\ th' = [th EXCEPT ![n] = t]
      /\ UNCHANGED <<graph, hub, persistq, saved, storeErr, main, handle, bgvars>>
  BY DEF TakePending, SetTh, Free, Executing
<1>2. /\ DOMAIN th[n] = ThreadFields /\ th[n].closing \subseteq Chans
      /\ hub.waiting[n] = NoWait
  BY <1>1, ExecFacts DEF NoCall
<1>3. /\ DOMAIN t = ThreadFields /\ t.pc = th[n].pc /\ t.start = th[n].start
      /\ t.ending = th[n].ending /\ t.closing = th[n].closing /\ t.eof = th[n].eof
  BY <1>2 DEF ThreadFields
<1> HIDE DEF t
<1>4. HubMove(n, "exec")
  BY <1>1, StillMove
<1> QED
  BY <1>1, <1>2, <1>3, <1>4, NoNewEnd, ExecMoves

(* next and next_any. *)
LEMMA NextIsSound ==
    ASSUME IInv, NEW n \in Nodes, NEW P, Next_(n, P), UNCHANGED bgvars
    PROVE  SoundStep
<1> DEFINE r == RecvAny(hub, n, InChans(n, P))
           call == IF r.res = "blocked" THEN Call("recv", P) ELSE NoCall
           eof == IF r.res = "end" THEN th[n].eof \cup P ELSE th[n].eof
           stopped == r.res = "cancelled"
           t == [th[n] EXCEPT !.call = call, !.eof = eof, !.stopped = stopped]
<1>1. /\ th[n].pc = "exec" /\ th' = [th EXCEPT ![n] = t] /\ hub' = r.hub
      /\ UNCHANGED <<graph, persistq, saved, storeErr, main, handle, bgvars>>
  BY DEF Next_, SetTh, Free, Executing
<1>2. /\ DOMAIN th[n] = ThreadFields /\ th[n].closing \subseteq Chans
      /\ InChans(n, P) \in SUBSET Chans
  BY <1>1, ExecFacts
<1>3. /\ HubMove(n, "exec")
      /\ r.res = "end" => ~Cancelled(hub) /\ \A c \in InChans(n, P) : Ended(hub, c)
      /\ r.res # "blocked" => hub'.waiting[n] = NoWait
      /\ hub'.senders = hub.senders
  BY <1>1, <1>2, RecvMove
<1>4. \A c \in InChans(n, eof \ th[n].eof) : Edge(c).src \in Nodes => EndedWell(Edge(c).src)
  <2>1. CASE r.res = "end"
    <3>1. InChans(n, eof \ th[n].eof) \subseteq InChans(n, P)
      BY <2>1 DEF InChans
    <3> QED
      BY <1>2, <1>3, <2>1, <3>1, EndIsProduced DEF Ended
  <2>2. CASE r.res # "end"
    BY <2>2, NoNewEnd
  <2> QED
    BY <2>1, <2>2
<1>5. hub'.waiting[n] # NoWait => call.op \in {"recv", "send"}
  BY <1>3 DEF Call
<1> HIDE DEF call, eof, stopped, r
<1>6. /\ DOMAIN t = ThreadFields /\ t.pc = th[n].pc /\ t.start = th[n].start
      /\ t.ending = th[n].ending /\ t.closing = th[n].closing /\ t.eof = eof /\ t.call = call
  BY <1>2 DEF ThreadFields
<1> HIDE DEF t
<1> QED
  BY <1>1, <1>2, <1>3, <1>4, <1>5, <1>6, ExecMoves

(* emit. *)
LEMMA EmitIsSound ==
    ASSUME IInv, NEW n \in Nodes, NEW p, Emit(n, p), UNCHANGED bgvars
    PROVE  SoundStep
<1> DEFINE r == Send(hub, n, OutChans(n, p))
           call == IF r.res = "blocked" THEN Call("send", {p}) ELSE NoCall
           emits == IF r.res = "blocked" THEN th[n].emits ELSE th[n].emits + 1
           given == IF r.res = "ok" THEN th[n].given \cup {p} ELSE th[n].given
           stopped == r.res = "cancelled"
           t == [th[n] EXCEPT !.call = call, !.emits = emits, !.given = given, !.stopped = stopped]
<1>1. /\ th[n].pc = "exec" /\ th' = [th EXCEPT ![n] = t] /\ hub' = r.hub
      /\ UNCHANGED <<graph, persistq, saved, storeErr, main, handle, bgvars>>
  BY DEF Emit, SetTh, Free, Executing
<1>2. /\ DOMAIN th[n] = ThreadFields /\ th[n].closing \subseteq Chans /\ th[n].ending = "none"
      /\ OutChans(n, p) \in SUBSET Out(n)
  BY <1>1, ExecFacts
<1>3. /\ HubMove(n, "exec")
      /\ r.res # "blocked" => hub'.waiting[n] = NoWait
      /\ hub'.senders = hub.senders
  BY <1>1, <1>2, SendMove
<1>5. hub'.waiting[n] # NoWait => call.op \in {"recv", "send"}
  BY <1>3 DEF Call
<1> HIDE DEF call, emits, given, stopped, r
<1>6. /\ DOMAIN t = ThreadFields /\ t.pc = th[n].pc /\ t.start = th[n].start
      /\ t.ending = th[n].ending /\ t.closing = th[n].closing /\ t.eof = th[n].eof /\ t.call = call
  BY <1>2 DEF ThreadFields
<1> HIDE DEF t
<1> QED
  BY <1>1, <1>2, <1>3, <1>5, <1>6, NoNewEnd, ExecMoves

(* close_input, and its releases. *)
LEMMA CloseInputIsSound ==
    ASSUME IInv, NEW n \in Nodes, NEW p, CloseInput(n, p), UNCHANGED bgvars
    PROVE  SoundStep
<1> DEFINE t == [th[n] EXCEPT !.bound = @ \ {p}, !.filled = @ \ {p},
                   !.closing = InChans(n, {p}), !.call = Call("close", {p})]
<1>1. /\ th[n].pc = "exec" /\ th[n].call = NoCall /\ th' = [th EXCEPT ![n] = t]
      /\ UNCHANGED <<graph, hub, persistq, saved, storeErr, main, handle, bgvars>>
  BY DEF CloseInput, SetTh, Free, Executing
<1>2. /\ DOMAIN th[n] = ThreadFields /\ InChans(n, {p}) \subseteq Chans
      /\ hub.waiting[n] = NoWait
  BY <1>1, ExecFacts DEF NoCall
<1>3. /\ DOMAIN t = ThreadFields /\ t.pc = th[n].pc /\ t.start = th[n].start
      /\ t.ending = th[n].ending /\ t.closing = InChans(n, {p}) /\ t.eof = th[n].eof
  BY <1>2 DEF ThreadFields
<1> HIDE DEF t
<1>4. HubMove(n, "exec")
  BY <1>1, StillMove
<1> QED
  BY <1>1, <1>2, <1>3, <1>4, NoNewEnd, ExecMoves

(* One release of close_input. *)
LEMMA CloseStepIsSound ==
    ASSUME IInv, NEW n \in Nodes, CloseStep(n), UNCHANGED bgvars
    PROVE  SoundStep
<1>1. PICK c \in th[n].closing :
          /\ hub' = ReleaseReceiver(hub, c)
          /\ th' = [th EXCEPT ![n] = [th[n] EXCEPT !.closing = th[n].closing \ {c},
                       !.call = IF th[n].closing \ {c} = {} THEN NoCall ELSE @]]
  BY DEF CloseStep, SetTh
<1> DEFINE rest == th[n].closing \ {c}
           call == IF rest = {} THEN NoCall ELSE th[n].call
           t == [th[n] EXCEPT !.closing = rest, !.call = call]
<1>2. /\ th[n].pc = "exec" /\ th[n].call.op = "close" /\ th' = [th EXCEPT ![n] = t]
      /\ UNCHANGED <<graph, persistq, saved, storeErr, main, handle, bgvars>>
  BY <1>1 DEF CloseStep, Executing
<1>3. /\ DOMAIN th[n] = ThreadFields /\ rest \subseteq Chans /\ c \in Chans
      /\ hub.waiting[n] = NoWait
  BY <1>2, ExecFacts
<1> HIDE DEF call, rest
<1>4. /\ DOMAIN t = ThreadFields /\ t.pc = th[n].pc /\ t.start = th[n].start
      /\ t.ending = th[n].ending /\ t.closing = rest /\ t.eof = th[n].eof
  BY <1>3 DEF ThreadFields
<1> HIDE DEF t
<1>5. HubMove(n, "exec") /\ hub'.waiting = hub.waiting /\ hub'.senders = hub.senders
  BY <1>1, <1>2, <1>3, ReceiverMove
<1> QED
  BY <1>2, <1>3, <1>4, <1>5, NoNewEnd, ExecMoves

(* A node once it has returned, or one that replays what it did before. *)
LEMMA MovesOn ==
    ASSUME IInv, NEW n \in Nodes, th[n].pc \notin {"unborn", "done"},
           NEW t, th' = [th EXCEPT ![n] = t],
           DOMAIN t = ThreadFields, t.start = th[n].start, t.closing \subseteq Chans,
           t.eof = th[n].eof,
           t.pc \in {"failing", "outputs", "finish", "leave", "done", "drop", "replay"},
           t.ending \in EndingsOf,
           t.ending = "none" <=> t.pc \notin {"finish", "leave", "done"},
           t.pc = "finish" => t.ending # "panicked",
           t.pc \in {"drop", "replay"} => th[n].pc \in {"drop", "replay"},
           th[n].ending # "none" => t.ending = th[n].ending,
           HubMove(n, t.pc), QueueMove(n, t), Interrupted(t, hub'),
           hub'.waiting[n] # NoWait =>
               (t.pc = "outputs" /\ t.outs # {}) \/ (t.pc = "replay" /\ ToReplay(n, t) # {}),
           (\A c \in Out(n) : hub'.senders[c] = hub.senders[c]) \/ t.ending \notin {"none", "panicked"},
           (n \notin Restored /\ (t.pc = "outputs" \/ t.ending = "completed")) =>
               \/ th[n].pc = "outputs" \/ th[n].ending = "completed"
               \/ th[n].pc = "exec" /\ ~Cancelled(hub),
           UNCHANGED <<graph, saved, storeErr, main, handle, bgvars>>
    PROVE  SoundStep
<1>1. ThreadInv(n, th, hub)
  BY Running
<1>2. ThreadType(n, t)
  BY <1>1 DEF ThreadInv, ThreadType, Threads
<1>3. ThreadMove(n, t)
  BY DEF ThreadMove
<1>4. ReadMove(n, t)
  BY DEF ReadMove
<1>5. OwnMove(n, t)
  BY <1>2, <1>4, NoNewEnd DEF OwnMove, WaitsWhere
<1> QED
  BY <1>3, <1>5, NodeIsSound

(* The types of a running thread. *)
LEMMA RunningFacts ==
    ASSUME IInv, NEW n \in Nodes, th[n].pc \notin {"unborn", "done"}
    PROVE  /\ DOMAIN th[n] = ThreadFields
           /\ th[n].start \subseteq Chans /\ th[n].closing \subseteq Chans
           /\ th[n].ending \in EndingsOf
           /\ th[n].ending = "none" <=> th[n].pc \notin {"finish", "leave"}
           /\ th[n].pc = "finish" => th[n].ending # "panicked"
           /\ th[n].pc \in {"drop", "replay"} => n \in Restored
           /\ Interrupted(th[n], hub)
           /\ hub.waiting[n] # NoWait =>
                \/ th[n].pc = "await"
                \/ th[n].pc = "exec" /\ th[n].call.op \in {"recv", "send"}
                \/ th[n].pc = "outputs" /\ th[n].outs # {}
                \/ th[n].pc = "replay" /\ ToReplay(n, th[n]) # {}
           /\ \A p : OutChans(n, p) \in SUBSET Out(n)
           /\ \A P : InChans(n, P) \in SUBSET Chans
           /\ Out(n) \subseteq Chans
  BY Running DEF ThreadInv, ThreadType, WaitsWhere, OutChans, InChans

(* A thread that changes its place only. *)
LEMMA PcFacts ==
    ASSUME NEW u, DOMAIN u = ThreadFields, NEW q, NEW t, t = [u EXCEPT !.pc = q]
    PROVE  /\ DOMAIN t = ThreadFields /\ t.start = u.start /\ t.closing = u.closing
           /\ t.eof = u.eof /\ t.pc = q /\ t.ending = u.ending /\ t.outs = u.outs
           /\ t.left = u.left
  BY DEF ThreadFields

(* A thread that goes to finish. *)
LEMMA ToFinishFacts ==
    ASSUME NEW u, DOMAIN u = ThreadFields, NEW how, NEW t, t = ToFinish(u, how)
    PROVE  /\ DOMAIN t = ThreadFields /\ t.start = u.start /\ t.closing = u.closing
           /\ t.eof = u.eof /\ t.pc = "finish" /\ t.ending = how
  BY DEF ThreadFields, ToFinish

(* execute returns: outputs go out only when the run is not cancelled. *)
LEMMA ReturnIsSound ==
    ASSUME IInv, NEW n \in Nodes, Return(n), UNCHANGED bgvars
    PROVE  SoundStep
<1>1. /\ th[n].pc = "exec" /\ th[n].call = NoCall
      /\ UNCHANGED <<graph, hub, persistq, saved, storeErr, main, handle, bgvars>>
  BY DEF Return, Executing
<1>2. /\ DOMAIN th[n] = ThreadFields /\ th[n].ending = "none" /\ th[n].closing \subseteq Chans
      /\ hub.waiting[n] = NoWait
  BY <1>1, ExecFacts DEF NoCall
<1>3. ASSUME NEW t, th' = [th EXCEPT ![n] = t],
             DOMAIN t = ThreadFields, t.start = th[n].start, t.closing = th[n].closing,
             t.eof = th[n].eof,
             \/ t.pc = "finish" /\ t.ending = "cancelled" /\ Cancelled(hub)
             \/ t.pc \in {"failing", "outputs"} /\ t.ending = "none" /\ ~Cancelled(hub)
      PROVE  SoundStep
  <2>1. HubMove(n, t.pc)
    BY <1>1, <1>3, StillMove
  <2>2. QueueMove(n, t) /\ Interrupted(t, hub')
    BY <1>1, <1>3, PersistNothing DEF Interrupted
  <2> QED
    BY <1>1, <1>2, <1>3, <2>1, <2>2, MovesOn DEF EndingsOf
<1>4. CASE Cancelled(hub) /\ th' = [th EXCEPT ![n] = ToFinish(th[n], "cancelled")]
  <2> DEFINE t == ToFinish(th[n], "cancelled")
  <2>1. /\ DOMAIN t = ThreadFields /\ t.start = th[n].start /\ t.closing = th[n].closing
        /\ t.eof = th[n].eof /\ t.pc = "finish" /\ t.ending = "cancelled"
    BY <1>2, ToFinishFacts
  <2> HIDE DEF t
  <2>2. th' = [th EXCEPT ![n] = t]
    BY <1>4 DEF t
  <2> QED
    BY <1>3, <1>4, <2>1, <2>2
<1>5. CASE ~Cancelled(hub) /\ th' = [th EXCEPT ![n] = [th[n] EXCEPT !.pc = "failing"]]
  <2> DEFINE t == [th[n] EXCEPT !.pc = "failing"]
  <2>1. /\ DOMAIN t = ThreadFields /\ t.start = th[n].start /\ t.closing = th[n].closing
        /\ t.eof = th[n].eof /\ t.pc = "failing" /\ t.ending = th[n].ending
    BY <1>2, PcFacts
  <2> HIDE DEF t
  <2>2. th' = [th EXCEPT ![n] = t]
    BY <1>5 DEF t
  <2> QED
    BY <1>2, <1>3, <1>5, <2>1, <2>2
<1>6. ASSUME ~Cancelled(hub), NEW O, NEW q \in {"outputs", "failing"},
             th' = [th EXCEPT ![n] = [th[n] EXCEPT !.outs = O, !.pc = q]]
      PROVE  SoundStep
  <2> DEFINE t == [th[n] EXCEPT !.outs = O, !.pc = q]
  <2>1. /\ DOMAIN t = ThreadFields /\ t.start = th[n].start /\ t.closing = th[n].closing
        /\ t.eof = th[n].eof /\ t.pc = q /\ t.ending = th[n].ending
    BY <1>2 DEF ThreadFields
  <2>2. th' = [th EXCEPT ![n] = t]
    BY <1>6
  <2> HIDE DEF t
  <2> QED
    BY <1>2, <1>3, <1>6, <2>1, <2>2
<1>7. CASE /\ ~Cancelled(hub)
           /\ \E O \in SUBSET (OutPorts(n) \ StreamOuts(n)) :
                 th' = [th EXCEPT ![n] = [th[n] EXCEPT !.outs = O,
                   !.pc = IF {p \in OutPorts(n) : <<n, p>> \in graph.required}
                                 \ (O \cup th[n].given) = {} THEN "outputs" ELSE "failing"]]
  <2>1. PICK O \in SUBSET (OutPorts(n) \ StreamOuts(n)) :
            th' = [th EXCEPT ![n] = [th[n] EXCEPT !.outs = O,
                   !.pc = IF {p \in OutPorts(n) : <<n, p>> \in graph.required}
                                 \ (O \cup th[n].given) = {} THEN "outputs" ELSE "failing"]]
    BY <1>7
  <2> DEFINE q == IF {p \in OutPorts(n) : <<n, p>> \in graph.required}
                                 \ (O \cup th[n].given) = {} THEN "outputs" ELSE "failing"
  <2>2. q \in {"outputs", "failing"}
    OBVIOUS
  <2>3. th' = [th EXCEPT ![n] = [th[n] EXCEPT !.outs = O, !.pc = q]]
    BY <2>1
  <2> HIDE DEF q
  <2> QED
    BY <1>6, <1>7, <2>2, <2>3
<1> QED
  BY <1>4, <1>5, <1>7 DEF Return, SetTh

(* A panic cancels the run before the worker is gone. *)
LEMMA PanicIsSound ==
    ASSUME IInv, NEW n \in Nodes, Panic(n), UNCHANGED bgvars
    PROVE  SoundStep
<1> DEFINE t == [th[n] EXCEPT !.pc = "leave", !.ending = "panicked"]
<1>1. /\ th[n].pc = "exec" /\ th[n].call = NoCall /\ th' = [th EXCEPT ![n] = t]
      /\ hub' = CancelHub(hub, Failed(n))
      /\ UNCHANGED <<graph, persistq, saved, storeErr, main, handle, bgvars>>
  BY DEF Panic, SetTh, Free, Executing
<1>2. /\ DOMAIN th[n] = ThreadFields /\ th[n].ending = "none" /\ th[n].closing \subseteq Chans
      /\ hub.waiting[n] = NoWait
  BY <1>1, ExecFacts DEF NoCall
<1>3. /\ DOMAIN t = ThreadFields /\ t.start = th[n].start /\ t.closing = th[n].closing
      /\ t.eof = th[n].eof /\ t.pc = "leave" /\ t.ending = "panicked"
  BY <1>2 DEF ThreadFields
<1> HIDE DEF t
<1>4. HubMove(n, t.pc) /\ hub'.waiting = hub.waiting /\ Cancelled(hub')
      /\ hub'.senders = hub.senders
  BY <1>1, <1>3, FailMove
<1>5. QueueMove(n, t) /\ Interrupted(t, hub')
  BY <1>1, <1>3, <1>4, PersistNothing DEF Interrupted
<1> QED
  BY <1>1, <1>2, <1>3, <1>4, <1>5, MovesOn DEF EndingsOf

(* A failure cancels the run before the channels end. *)
LEMMA FailIsSound ==
    ASSUME IInv, NEW n \in Nodes, Fail(n), UNCHANGED bgvars
    PROVE  SoundStep
<1> DEFINE t == ToFinish(th[n], "failed")
<1>1. /\ th[n].pc = "failing" /\ th' = [th EXCEPT ![n] = t]
      /\ hub' = CancelHub(hub, Failed(n)) /\ Persist("failed", n)
      /\ UNCHANGED <<graph, saved, storeErr, main, handle, bgvars>>
  BY DEF Fail, SetTh
<1>2. /\ DOMAIN th[n] = ThreadFields /\ th[n].ending = "none" /\ th[n].closing \subseteq Chans
      /\ hub.waiting[n] = NoWait
  BY <1>1, RunningFacts
<1>3. /\ DOMAIN t = ThreadFields /\ t.start = th[n].start /\ t.closing = th[n].closing
      /\ t.eof = th[n].eof /\ t.pc = "finish" /\ t.ending = "failed"
  BY <1>2, ToFinishFacts
<1> HIDE DEF t
<1>4. HubMove(n, t.pc) /\ hub'.waiting = hub.waiting /\ Cancelled(hub')
      /\ hub'.senders = hub.senders
  BY <1>1, <1>3, FailMove
<1>5. QueueMove(n, t) /\ Interrupted(t, hub')
  BY <1>1, <1>3, <1>4 DEF Interrupted, QueueMove, Persist, Message
<1> QED
  BY <1>1, <1>2, <1>3, <1>4, <1>5, MovesOn DEF EndingsOf

(* An output goes out. *)
LEMMA SendOutputIsSound ==
    ASSUME IInv, NEW n \in Nodes, NEW p, SendOutput(n, p), UNCHANGED bgvars
    PROVE  SoundStep
<1> DEFINE r == Send(hub, n, OutChans(n, p))
<1>1. /\ th[n].pc = "outputs" /\ p \in th[n].outs /\ hub' = r.hub
      /\ UNCHANGED <<graph, persistq, saved, storeErr, main, handle, bgvars>>
      /\ \/ r.res = "blocked" /\ th' = [th EXCEPT ![n] = [th[n] EXCEPT !.call = Call("send", {p})]]
         \/ r.res = "cancelled" /\ th' = [th EXCEPT ![n] = ToFinish(th[n], "cancelled")]
         \/ r.res \in {"ok", "noreader"} /\ th' = [th EXCEPT ![n] =
                [th[n] EXCEPT !.call = NoCall, !.outs = @ \ {p}]]
  BY DEF SendOutput, SetTh
<1>2. /\ DOMAIN th[n] = ThreadFields /\ th[n].ending = "none" /\ th[n].closing \subseteq Chans
      /\ OutChans(n, p) \in SUBSET Out(n)
  BY <1>1, RunningFacts
<1>3. /\ \A q : q # "done" => HubMove(n, q)
      /\ r.res = "cancelled" => Cancelled(hub')
      /\ r.res # "blocked" => hub'.waiting[n] = NoWait
      /\ hub'.senders = hub.senders
  BY <1>1, <1>2, SendMove
<1> HIDE DEF r
<1>4. ASSUME NEW t, th' = [th EXCEPT ![n] = t],
             DOMAIN t = ThreadFields, t.start = th[n].start, t.closing = th[n].closing,
             t.eof = th[n].eof,
             \/ t.pc = "finish" /\ t.ending = "cancelled" /\ r.res = "cancelled"
             \/ /\ t.pc = "outputs" /\ t.ending = "none"
                /\ r.res = "blocked" => t.outs = th[n].outs
      PROVE  SoundStep
  <2>1. HubMove(n, t.pc)
    BY <1>3, <1>4
  <2>2. QueueMove(n, t) /\ Interrupted(t, hub')
    BY <1>1, <1>3, <1>4, PersistNothing DEF Interrupted
  <2> QED
    BY <1>1, <1>2, <1>3, <1>4, <2>1, <2>2, MovesOn DEF EndingsOf
<1>5. CASE r.res = "blocked" /\ th' = [th EXCEPT ![n] = [th[n] EXCEPT !.call = Call("send", {p})]]
  <2> DEFINE t == [th[n] EXCEPT !.call = Call("send", {p})]
  <2>1. /\ DOMAIN t = ThreadFields /\ t.start = th[n].start /\ t.closing = th[n].closing
        /\ t.eof = th[n].eof /\ t.pc = th[n].pc /\ t.ending = th[n].ending /\ t.outs = th[n].outs
    BY <1>2 DEF ThreadFields
  <2>2. th' = [th EXCEPT ![n] = t]
    BY <1>5
  <2> HIDE DEF t
  <2> QED
    BY <1>1, <1>2, <1>4, <2>1, <2>2
<1>6. CASE r.res = "cancelled" /\ th' = [th EXCEPT ![n] = ToFinish(th[n], "cancelled")]
  <2> DEFINE t == ToFinish(th[n], "cancelled")
  <2>1. /\ DOMAIN t = ThreadFields /\ t.start = th[n].start /\ t.closing = th[n].closing
        /\ t.eof = th[n].eof /\ t.pc = "finish" /\ t.ending = "cancelled"
    BY <1>2, ToFinishFacts
  <2>2. th' = [th EXCEPT ![n] = t]
    BY <1>6
  <2> HIDE DEF t
  <2> QED
    BY <1>4, <1>6, <2>1, <2>2
<1>7. CASE r.res \in {"ok", "noreader"} /\ th' = [th EXCEPT ![n] =
                [th[n] EXCEPT !.call = NoCall, !.outs = @ \ {p}]]
  <2> DEFINE t == [th[n] EXCEPT !.call = NoCall, !.outs = @ \ {p}]
  <2>1. /\ DOMAIN t = ThreadFields /\ t.start = th[n].start /\ t.closing = th[n].closing
        /\ t.eof = th[n].eof /\ t.pc = th[n].pc /\ t.ending = th[n].ending
    BY <1>2 DEF ThreadFields
  <2>2. th' = [th EXCEPT ![n] = t]
    BY <1>7
  <2> HIDE DEF t
  <2> QED
    BY <1>1, <1>2, <1>4, <1>7, <2>1, <2>2
<1> QED
  BY <1>1, <1>5, <1>6, <1>7

(* A node that completes is handed to the persister first. *)
LEMMA CompleteIsSound ==
    ASSUME IInv, NEW n \in Nodes, Complete(n), UNCHANGED bgvars
    PROVE  SoundStep
<1>1. /\ th[n].pc = "outputs" /\ th[n].outs = {}
      /\ UNCHANGED <<graph, hub, saved, storeErr, main, handle, bgvars>>
      /\ \/ th' = [th EXCEPT ![n] = [th[n] EXCEPT !.pc = "failing"]] /\ UNCHANGED persistq
         \/ Persist("completed", n) /\ th' = [th EXCEPT ![n] = ToFinish(th[n], "completed")]
  BY DEF Complete, SetTh
<1>2. /\ DOMAIN th[n] = ThreadFields /\ th[n].ending = "none" /\ th[n].closing \subseteq Chans
      /\ hub.waiting[n] = NoWait
  BY <1>1, RunningFacts
<1>3. CASE th' = [th EXCEPT ![n] = [th[n] EXCEPT !.pc = "failing"]] /\ UNCHANGED persistq
  <2> DEFINE t == [th[n] EXCEPT !.pc = "failing"]
  <2>1. /\ DOMAIN t = ThreadFields /\ t.start = th[n].start /\ t.closing = th[n].closing
        /\ t.eof = th[n].eof /\ t.pc = "failing" /\ t.ending = th[n].ending
    BY <1>2, PcFacts
  <2>2. th' = [th EXCEPT ![n] = t]
    BY <1>3
  <2> HIDE DEF t
  <2>3. HubMove(n, t.pc)
    BY <1>1, <2>1, StillMove
  <2>4. QueueMove(n, t) /\ Interrupted(t, hub')
    BY <1>2, <1>3, <2>1, PersistNothing DEF Interrupted
  <2> QED
    BY <1>1, <1>2, <2>1, <2>2, <2>3, <2>4, MovesOn DEF EndingsOf
<1>4. CASE Persist("completed", n) /\ th' = [th EXCEPT ![n] = ToFinish(th[n], "completed")]
  <2> DEFINE t == ToFinish(th[n], "completed")
  <2>1. /\ DOMAIN t = ThreadFields /\ t.start = th[n].start /\ t.closing = th[n].closing
        /\ t.eof = th[n].eof /\ t.pc = "finish" /\ t.ending = "completed"
    BY <1>2, ToFinishFacts
  <2>2. th' = [th EXCEPT ![n] = t]
    BY <1>4
  <2> HIDE DEF t
  <2>3. HubMove(n, t.pc)
    BY <1>1, <2>1, StillMove
  <2>4. QueueMove(n, t) /\ Interrupted(t, hub')
    BY <1>4, <2>1 DEF Interrupted, QueueMove, Persist, Message
  <2> QED
    BY <1>1, <1>2, <2>1, <2>2, <2>3, <2>4, MovesOn DEF EndingsOf
<1> QED
  BY <1>1, <1>3, <1>4

(* A step of a node that changes the hub only. *)
LEMMA HubOnly ==
    ASSUME IInv, NEW n \in Nodes, UNCHANGED th
    PROVE  th' = [th EXCEPT ![n] = th[n]]
  BY DEF IInv, ThreadsInv

(* finish: one release per step. *)
LEMMA FinishIsSound ==
    ASSUME IInv, NEW n \in Nodes, Finish(n), UNCHANGED bgvars
    PROVE  SoundStep
<1>1. /\ th[n].pc = "finish"
      /\ UNCHANGED <<graph, persistq, saved, storeErr, main, handle, bgvars>>
  BY DEF Finish
<1>2. /\ DOMAIN th[n] = ThreadFields /\ th[n].ending \notin {"none", "panicked"}
      /\ th[n].closing \subseteq Chans /\ th[n].ending \in EndingsOf
      /\ Interrupted(th[n], hub) /\ hub.waiting[n] = NoWait
      /\ InChans(n, th[n].bound) \in SUBSET Chans
  BY <1>1, RunningFacts
<1>3. ASSUME NEW t, th' = [th EXCEPT ![n] = t],
             DOMAIN t = ThreadFields, t.start = th[n].start, t.closing = th[n].closing,
             t.eof = th[n].eof, t.ending = th[n].ending, t.pc \in {"finish", "leave"},
             HubMove(n, t.pc), hub'.waiting = hub.waiting, hub'.cancel = hub.cancel
      PROVE  SoundStep
  <2>1. Interrupted(t, hub')
    BY <1>2, <1>3 DEF Interrupted, Cancelled
  <2>2. QueueMove(n, t)
    BY <1>1, <1>3 DEF QueueMove
  <2> QED
    BY <1>1, <1>2, <1>3, <2>1, <2>2, MovesOn
<1>4. ASSUME NEW c \in HeldOut(n), hub' = ReleaseSender(hub, c), UNCHANGED th
      PROVE  SoundStep
  <2>1. c \in Out(n)
    BY DEF HeldOut
  <2>2. HubMove(n, "finish") /\ hub'.waiting = hub.waiting /\ hub'.cancel = hub.cancel
    BY <1>1, <1>4, <2>1, SenderMove
  <2>3. th' = [th EXCEPT ![n] = th[n]]
    BY <1>4, HubOnly
  <2> QED
    BY <1>1, <1>2, <1>3, <2>2, <2>3
<1>5. ASSUME NEW c \in HeldIn(n), hub' = ReleaseReceiver(hub, c), UNCHANGED th
      PROVE  SoundStep
  <2>1. c \in Chans
    BY <1>2 DEF HeldIn
  <2>2. HubMove(n, "finish") /\ hub'.waiting = hub.waiting /\ hub'.cancel = hub.cancel
    BY <1>1, <1>2, <1>5, <2>1, ReceiverMove
  <2>3. th' = [th EXCEPT ![n] = th[n]]
    BY <1>5, HubOnly
  <2> QED
    BY <1>1, <1>2, <1>3, <2>2, <2>3
<1>6. ASSUME th' = [th EXCEPT ![n] = [th[n] EXCEPT !.pc = "leave"]], UNCHANGED hub
      PROVE  SoundStep
  <2> DEFINE t == [th[n] EXCEPT !.pc = "leave"]
  <2>1. /\ DOMAIN t = ThreadFields /\ t.start = th[n].start /\ t.closing = th[n].closing
        /\ t.eof = th[n].eof /\ t.pc = "leave" /\ t.ending = th[n].ending
    BY <1>2, PcFacts
  <2>2. th' = [th EXCEPT ![n] = t]
    BY <1>6
  <2> HIDE DEF t
  <2>3. HubMove(n, t.pc)
    BY <1>1, <1>6, <2>1, StillMove
  <2> QED
    BY <1>3, <1>6, <2>1, <2>2, <2>3
<1> QED
  BY <1>4, <1>5, <1>6 DEF Finish, SetTh

(* The worker signs out. *)
LEMMA LeaveIsSound ==
    ASSUME IInv, NEW n \in Nodes, Leave(n), UNCHANGED bgvars
    PROVE  SoundStep
<1> DEFINE t == [th[n] EXCEPT !.pc = "done"]
<1>1. /\ th[n].pc = "leave" /\ hub' = WorkerDone(hub, n) /\ th' = [th EXCEPT ![n] = t]
      /\ UNCHANGED <<graph, persistq, saved, storeErr, main, handle, bgvars>>
  BY DEF Leave, SetTh
<1>2. /\ DOMAIN th[n] = ThreadFields /\ th[n].ending # "none"
      /\ th[n].closing \subseteq Chans /\ th[n].ending \in EndingsOf
      /\ Interrupted(th[n], hub)
  BY <1>1, RunningFacts
<1>3. /\ DOMAIN t = ThreadFields /\ t.start = th[n].start /\ t.closing = th[n].closing
      /\ t.eof = th[n].eof /\ t.pc = "done" /\ t.ending = th[n].ending
  BY <1>2, PcFacts
<1> HIDE DEF t
<1>4. HubMove(n, t.pc) /\ hub'.waiting[n] = NoWait /\ hub'.senders = hub.senders
  BY <1>1, <1>3, LeaveMove
<1>5. Cancelled(hub) => Cancelled(hub')
  BY <1>4, CauseStays DEF HubMove
<1>6. QueueMove(n, t) /\ Interrupted(t, hub')
  BY <1>1, <1>2, <1>3, <1>5 DEF QueueMove, Interrupted
<1> QED
  BY <1>1, <1>2, <1>3, <1>4, <1>6, MovesOn

(* A restored node drops its inputs. *)
LEMMA DropInputsIsSound ==
    ASSUME IInv, NEW n \in Nodes, DropInputs(n), UNCHANGED bgvars
    PROVE  SoundStep
<1>1. /\ th[n].pc = "drop"
      /\ UNCHANGED <<graph, persistq, saved, storeErr, main, handle, bgvars>>
  BY DEF DropInputs
<1>2. /\ DOMAIN th[n] = ThreadFields /\ th[n].ending = "none"
      /\ th[n].closing \subseteq Chans /\ hub.waiting[n] = NoWait
  BY <1>1, RunningFacts
<1>3. CASE th[n].closing = {}
  <2> DEFINE t == [th[n] EXCEPT !.pc = "replay"]
  <2>1. th' = [th EXCEPT ![n] = t] /\ UNCHANGED hub
    BY <1>3 DEF DropInputs, SetTh
  <2>2. /\ DOMAIN t = ThreadFields /\ t.start = th[n].start /\ t.closing = th[n].closing
        /\ t.eof = th[n].eof /\ t.pc = "replay" /\ t.ending = th[n].ending
    BY <1>2, PcFacts
  <2> HIDE DEF t
  <2>3. HubMove(n, t.pc)
    BY <1>1, <2>1, <2>2, StillMove
  <2>4. QueueMove(n, t) /\ Interrupted(t, hub')
    BY <1>1, <1>2, <2>2, PersistNothing DEF Interrupted
  <2> QED
    BY <1>1, <1>2, <2>1, <2>2, <2>3, <2>4, MovesOn DEF EndingsOf
<1>4. CASE th[n].closing # {}
  <2>1. PICK c \in th[n].closing : /\ hub' = ReleaseReceiver(hub, c)
                                   /\ th' = [th EXCEPT ![n] = [th[n] EXCEPT !.closing = @ \ {c}]]
    BY <1>4 DEF DropInputs, SetTh
  <2> DEFINE t == [th[n] EXCEPT !.closing = @ \ {c}]
  <2>2. /\ DOMAIN t = ThreadFields /\ t.start = th[n].start /\ t.closing = th[n].closing \ {c}
        /\ t.eof = th[n].eof /\ t.pc = th[n].pc /\ t.ending = th[n].ending
    BY <1>2 DEF ThreadFields
  <2>3. th' = [th EXCEPT ![n] = t] /\ c \in Chans /\ t.closing \subseteq Chans
    BY <1>2, <2>1, <2>2
  <2> HIDE DEF t
  <2>4. HubMove(n, t.pc) /\ hub'.waiting = hub.waiting /\ hub'.senders = hub.senders
    BY <1>1, <1>2, <2>1, <2>2, <2>3, ReceiverMove
  <2>5. QueueMove(n, t) /\ Interrupted(t, hub')
    BY <1>1, <1>2, <2>2, PersistNothing DEF Interrupted
  <2> QED
    BY <1>1, <1>2, <2>2, <2>3, <2>4, <2>5, MovesOn DEF EndingsOf
<1> QED
  BY <1>3, <1>4

(* A restored node replays its outputs. *)
LEMMA ReplayIsSound ==
    ASSUME IInv, NEW n \in Nodes, Replay(n), UNCHANGED bgvars
    PROVE  SoundStep
<1> DEFINE p == Min(ToReplay(n, th[n]))
           r == Send(hub, n, OutChans(n, p))
<1>1. /\ th[n].pc = "replay"
      /\ UNCHANGED <<graph, persistq, saved, storeErr, main, handle, bgvars>>
      /\ IF ToReplay(n, th[n]) = {}
         THEN th' = [th EXCEPT ![n] = ToFinish(th[n], "completed")] /\ UNCHANGED hub
         ELSE /\ hub' = r.hub
              /\ \/ r.res = "blocked" /\ th' = [th EXCEPT ![n] = th[n]]
                 \/ r.res = "ok" /\ th' = [th EXCEPT ![n] = [th[n] EXCEPT !.left[p] = @ - 1]]
                 \/ r.res = "noreader" /\ th' = [th EXCEPT ![n] = [th[n] EXCEPT !.left[p] = 0]]
                 \/ r.res = "cancelled" /\ th' = [th EXCEPT ![n] = ToFinish(th[n], "cancelled")]
  BY DEF Replay, SetTh, ToReplay
<1>2. /\ DOMAIN th[n] = ThreadFields /\ th[n].ending = "none" /\ th[n].closing \subseteq Chans
      /\ OutChans(n, p) \in SUBSET Out(n) /\ n \in Restored
      /\ hub.waiting[n] # NoWait => ToReplay(n, th[n]) # {}
  BY <1>1, RunningFacts
<1>3. ASSUME NEW t, th' = [th EXCEPT ![n] = t],
             DOMAIN t = ThreadFields, t.start = th[n].start, t.closing = th[n].closing,
             t.eof = th[n].eof, HubMove(n, t.pc), hub'.senders = hub.senders,
             \/ t.pc = "finish" /\ t.ending = "cancelled" /\ Cancelled(hub')
             \/ t.pc = "finish" /\ t.ending = "completed"
             \/ t.pc = "replay" /\ t.ending = "none",
             hub'.waiting[n] # NoWait => t.pc = "replay" /\ ToReplay(n, t) # {}
      PROVE  SoundStep
  <2>1. QueueMove(n, t) /\ Interrupted(t, hub')
    BY <1>1, <1>2, <1>3 DEF QueueMove, Interrupted
  <2> QED
    BY <1>1, <1>2, <1>3, <2>1, MovesOn DEF EndingsOf
<1>4. CASE ToReplay(n, th[n]) = {}
  <2> DEFINE t == ToFinish(th[n], "completed")
  <2>1. /\ DOMAIN t = ThreadFields /\ t.start = th[n].start /\ t.closing = th[n].closing
        /\ t.eof = th[n].eof /\ t.pc = "finish" /\ t.ending = "completed"
    BY <1>2, ToFinishFacts
  <2>2. th' = [th EXCEPT ![n] = t] /\ UNCHANGED hub
    BY <1>1, <1>4
  <2> HIDE DEF t
  <2>3. HubMove(n, t.pc)
    BY <1>1, <2>1, <2>2, StillMove
  <2> QED
    BY <1>2, <1>3, <1>4, <2>1, <2>2, <2>3
<1>5. CASE ToReplay(n, th[n]) # {}
  <2>1. hub' = r.hub
    BY <1>1, <1>5
  <2>2. /\ \A q : q # "done" => HubMove(n, q)
        /\ r.res = "cancelled" => Cancelled(hub')
        /\ r.res # "blocked" => hub'.waiting[n] = NoWait
        /\ hub'.senders = hub.senders
    BY <1>1, <1>2, <2>1, SendMove
  <2>3. \/ r.res = "blocked" /\ th' = [th EXCEPT ![n] = th[n]]
        \/ r.res = "ok" /\ th' = [th EXCEPT ![n] = [th[n] EXCEPT !.left[p] = @ - 1]]
        \/ r.res = "noreader" /\ th' = [th EXCEPT ![n] = [th[n] EXCEPT !.left[p] = 0]]
        \/ r.res = "cancelled" /\ th' = [th EXCEPT ![n] = ToFinish(th[n], "cancelled")]
    BY <1>1, <1>5
  <2> HIDE DEF r, p
  <2>4. CASE r.res = "blocked" /\ th' = [th EXCEPT ![n] = th[n]]
    BY <1>1, <1>2, <1>3, <1>5, <2>2, <2>4
  <2>5. CASE r.res = "ok" /\ th' = [th EXCEPT ![n] = [th[n] EXCEPT !.left[p] = @ - 1]]
    <3> DEFINE t == [th[n] EXCEPT !.left[p] = @ - 1]
    <3>1. /\ DOMAIN t = ThreadFields /\ t.start = th[n].start /\ t.closing = th[n].closing
          /\ t.eof = th[n].eof /\ t.pc = th[n].pc /\ t.ending = th[n].ending
      BY <1>2 DEF ThreadFields
    <3>2. th' = [th EXCEPT ![n] = t]
      BY <2>5
    <3> HIDE DEF t
    <3> QED
      BY <1>1, <1>2, <1>3, <2>2, <2>5, <3>1, <3>2
  <2>6. CASE r.res = "noreader" /\ th' = [th EXCEPT ![n] = [th[n] EXCEPT !.left[p] = 0]]
    <3> DEFINE t == [th[n] EXCEPT !.left[p] = 0]
    <3>1. /\ DOMAIN t = ThreadFields /\ t.start = th[n].start /\ t.closing = th[n].closing
          /\ t.eof = th[n].eof /\ t.pc = th[n].pc /\ t.ending = th[n].ending
      BY <1>2 DEF ThreadFields
    <3>2. th' = [th EXCEPT ![n] = t]
      BY <2>6
    <3> HIDE DEF t
    <3> QED
      BY <1>1, <1>2, <1>3, <2>2, <2>6, <3>1, <3>2
  <2>7. CASE r.res = "cancelled" /\ th' = [th EXCEPT ![n] = ToFinish(th[n], "cancelled")]
    <3> DEFINE t == ToFinish(th[n], "cancelled")
    <3>1. /\ DOMAIN t = ThreadFields /\ t.start = th[n].start /\ t.closing = th[n].closing
          /\ t.eof = th[n].eof /\ t.pc = "finish" /\ t.ending = "cancelled"
      BY <1>2, ToFinishFacts
    <3>2. th' = [th EXCEPT ![n] = t]
      BY <2>7
    <3> HIDE DEF t
    <3> QED
      BY <1>3, <2>2, <2>7, <3>1, <3>2
  <2> QED
    BY <2>3, <2>4, <2>5, <2>6, <2>7
<1> QED
  BY <1>4, <1>5

(* Every step of a node. *)
LEMMA NodeStepIsSound ==
    ASSUME IInv, NEW n \in Nodes, NodeStep(n), UNCHANGED bgvars
    PROVE  SoundStep
  BY ScanIsSound, AwaitIsSound, ContextIsSound, TakePendingIsSound, NextIsSound,
     CloseInputIsSound, EmitIsSound, SendOutputIsSound, CloseStepIsSound, ReturnIsSound,
     PanicIsSound, FailIsSound, CompleteIsSound, FinishIsSound, LeaveIsSound,
     DropInputsIsSound, ReplayIsSound DEF NodeStep

-----------------------------------------------------------------------------
(* A step of somebody who is not a node                                    *)

(* What somebody who is not a node may do to the hub; w is the worker that answers for a
   deadlock it declares. *)
OutMove(w) ==
    /\ HubOK(Chans, Workers, hub') /\ Detected(hub')
    /\ \A v \in Workers \ {"caller"} : hub'.waiting[v] = hub.waiting[v]
    /\ \A c \in Chans :
          hub'.senders[c] = hub.senders[c] \/ (c = graph.liveIn /\ hub'.senders[c] = 0)
    /\ \A c \in Chans : (Edge(c).src \in Nodes /\ Ended(hub, c)) => hub'.buf[c] = 0
    /\ hub'.cancel = hub.cancel \/ (~Cancelled(hub) /\ hub'.cancel \in {Deadlock, External})
    /\ DeclaredBy(hub, hub', w) /\ (w \in {"launch", "timer"} => w \notin hub'.names)
    /\ w \in Workers

(* The threads keep their part of the invariant while others move. *)
LEMMA ThreadsStay ==
    ASSUME IInv, UNCHANGED <<graph, th>>,
           \A v \in Nodes : hub'.waiting[v] = hub.waiting[v],
           \A c \in Chans :
              hub'.senders[c] = hub.senders[c] \/ (c = graph.liveIn /\ hub'.senders[c] = 0),
           \A c \in Chans : (Edge(c).src \in Nodes /\ Ended(hub, c)) => hub'.buf[c] = 0,
           Cancelled(hub) => Cancelled(hub')
    PROVE  ThreadsInv'
<1>1. graph \in Graphs /\ Nodes' = Nodes /\ th = [n \in Nodes |-> th[n]]
  BY DEF IInv, MainInv, Nodes, ThreadsInv
<1>2. \A c \in Chans : Closed(hub, c) => Closed(hub', c)
  BY DEF Closed, Ended
<1>3. ASSUME NEW n \in Nodes PROVE ThreadInv(n, th, hub)'
  <2>1. \A c \in Out(n) : hub'.senders[c] = hub.senders[c]
    BY <1>1, GraphFacts DEF Out, Chans
  <2>2. ThreadInv(n, th, hub) /\ \A k \in Nodes : Well(th, k) => Well(th', k)
    BY DEF IInv, ThreadsInv, Well
  <2>3. ThreadInv(n, th', hub')
    BY <1>2, <2>1, <2>2, ThreadStays
  <2> QED
    BY <2>3, PrimedThread
<1> QED
  BY <1>1, <1>3 DEF ThreadsInv

(* Who does not wait is not blocked. *)
LEMMA UpIsNotBlocked ==
    ASSUME NEW h, NEW w, h.waiting[w] = NoWait
    PROVE  ~Blocked(h, w)
  BY DEF Blocked, NoWait

(* No thread moves: no end is read. *)
LEMMA SameEnds ==
    ASSUME UNCHANGED th
    PROVE  EndTold
  BY DEF EndTold

(* A step of somebody who is not a node and not the main thread. *)
LEMMA OutsideIsSound ==
    ASSUME IInv, NEW w, OutMove(w), UNCHANGED <<graph, th, persistq, saved, storeErr, main>>,
           (hub'.cancel = Deadlock /\ ~Cancelled(hub)) => Live(graph),
           NamesInv', HandleInv', CallerInv', FondInv'
    PROVE  SoundStep
<1>1. /\ HubOK(Chans, Workers, hub') /\ Detected(hub')
      /\ \A v \in Workers \ {"caller"} : hub'.waiting[v] = hub.waiting[v]
      /\ hub'.cancel = hub.cancel \/ (~Cancelled(hub) /\ hub'.cancel \in {Deadlock, External})
      /\ DeclaredBy(hub, hub', w) /\ (w \in {"launch", "timer"} => w \notin hub'.names)
      /\ w \in Workers
  BY DEF OutMove
<1>2. graph \in Graphs /\ Nodes' = Nodes /\ Chans' = Chans /\ Workers' = Workers
      /\ Restored' = Restored
  BY DEF IInv, MainInv, Nodes, Chans, Workers, Restored
<1>3. HubInv'
  <2>1. Detected(hub)'
    BY <1>1
  <2> QED
    BY <1>1, <1>2, <2>1 DEF HubInv
<1>4. Cancelled(hub) => Cancelled(hub') /\ hub'.cancel = hub.cancel
  BY <1>1 DEF Cancelled
<1>5. ThreadsInv'
  <2>1. \A v \in Nodes : hub'.waiting[v] = hub.waiting[v]
    BY <1>1, <1>2, GraphFacts DEF Workers
  <2> QED
    BY <1>4, <2>1, ThreadsStay DEF OutMove
<1>6. MainInv'
  <2>1. Launching' <=> Launching
    BY DEF Launching
  <2>2. Launching => hub'.cancel # Deadlock
    <3>1. SUFFICES ASSUME Launching, hub'.cancel = Deadlock PROVE FALSE
      OBVIOUS
    <3>2. hub.cancel # Deadlock /\ ~Cancelled(hub)
      BY <1>1, <3>1 DEF IInv, MainInv
    <3>3. "launch" \in hub'.names /\ hub'.waiting["launch"] = NoWait
      BY <2>1, <3>1, <3>2 DEF NamesInv, Live
    <3>4. w = "launch"
      BY <1>1, <3>1, <3>2, <3>3, UpIsNotBlocked DEF DeclaredBy
    <3> QED
      BY <1>1, <3>3, <3>4
  <2>3. hub.cancel = External => hub'.cancel = External
    BY <1>4, CauseValues DEF Cancelled
  <2> QED
    BY <1>2, <2>1, <2>2, <2>3 DEF IInv, MainInv, EndedWell
<1>7. SaveInv'
  BY <1>2 DEF IInv, SaveInv, Messages
<1>8. EndTold /\ DeadlockTold
  BY <1>1, SameEnds DEF DeclaredBy, DeadlockTold
<1> QED
  BY <1>3, <1>5, <1>6, <1>7, <1>8 DEF IInv, SoundStep

(* A step that leaves the hub alone. *)
LEMMA QuietMove ==
    ASSUME IInv, UNCHANGED hub
    PROVE  OutMove("caller")
<1>1. HubOK(Chans, Workers, hub') /\ Detected(hub') /\ "caller" \in Workers
  BY DEF IInv, HubInv, Workers
<1>2. DeclaredBy(hub, hub', "caller")
  BY CauseValues DEF DeclaredBy, Cancelled
<1> QED
  BY <1>1, <1>2 DEF OutMove, Ended

(* Nobody signs in or out. *)
LEMMA NamesStay ==
    ASSUME IInv, UNCHANGED <<graph, th, main, timer>>,
           hub'.names = hub.names, \A v \in Workers \ {"caller"} : hub'.waiting[v] = hub.waiting[v],
           fond \in {"run", "part"} <=> fond' \in {"run", "part"}
    PROVE  NamesInv'
<1>1. Nodes' = Nodes /\ (Launching' <=> Launching) /\ (Live(graph)' <=> Live(graph))
  BY DEF Nodes, Launching, Live
<1>2. hub'.waiting["launch"] = NoWait /\ hub'.waiting["timer"] = NoWait
  BY DEF Workers, IInv, NamesInv
<1> QED
  BY <1>1, <1>2 DEF IInv, NamesInv

(* The handle is not pulled. *)
LEMMA HandleStays ==
    ASSUME IInv, UNCHANGED <<graph, main, handle>>,
           hub'.cancel = hub.cancel \/ (~Cancelled(hub) /\ hub'.cancel = Deadlock),
           entry.cause # NoCause => entry'.cause # NoCause
    PROVE  HandleInv'
  BY CauseValues DEF IInv, HandleInv, CancelReachesHub, Cancelled

(* The steps of the background thread that leave the hub alone. *)
LEMMA FondTailIsSound ==
    ASSUME IInv, FondCause \/ FondTell \/ FondDone \/ FondRemove
    PROVE  SoundStep
<1>1. /\ UNCHANGED <<graph, hub, th, persistq, saved, storeErr, main, handle, timer, caller>>
      /\ fond \notin {"run", "part"} /\ fond' \notin {"run", "part"}
  BY DEF FondCause, FondTell, FondDone, FondRemove, UnchangedRun
<1>2. OutMove("caller") /\ (hub'.cancel = Deadlock => Cancelled(hub))
  BY <1>1, QuietMove, CauseValues DEF Cancelled
<1>3. NamesInv'
  BY <1>1, NamesStay
<1>4. CallerInv'
  BY <1>1 DEF IInv, CallerInv
<1>5. entry'.cause = entry.cause
  BY DEF FondCause, FondTell, FondDone, FondRemove, IInv, FondInv
<1>6. HandleInv'
  BY <1>1, <1>5, HandleStays
<1>7. FondInv'
  <2>1. CASE FondCause
    <3>1. main.result = "stopped" => entry.cause # NoCause
      BY <2>1 DEF IInv, MainInv, HandleInv, FondInv, FondCause
    <3>2. /\ DOMAIN told' = {"result", "cause", "times"} /\ told'.result = main.result
          /\ told'.times = told.times
          /\ told'.cause = IF entry.cause # NoCause THEN entry.cause ELSE hub.cancel.why
      BY <2>1 DEF FondCause, IInv, FondInv
    <3>3. UNCHANGED entry /\ fond = "cause" /\ fond' = "tell"
      BY <2>1 DEF FondCause
    <3> QED
      BY <1>1, <3>1, <3>2, <3>3 DEF IInv, FondInv
  <2>2. CASE FondTell
    <3>1. /\ DOMAIN told' = {"result", "cause", "times"} /\ told'.result = told.result
          /\ told'.times = told.times + 1 /\ told'.cause = told.cause
      BY <2>2 DEF FondTell, IInv, FondInv
    <3>2. UNCHANGED entry /\ fond = "tell" /\ fond' = "done"
      BY <2>2 DEF FondTell
    <3> QED
      BY <1>1, <3>1, <3>2 DEF IInv, FondInv
  <2>3. CASE FondDone
    <3>1. /\ entry' \in [present : BOOLEAN, alive : BOOLEAN, cause : {NoCause, "requested", "timeout"}]
          /\ entry'.alive = FALSE
      BY <2>3 DEF FondDone, IInv, FondInv
    <3>2. UNCHANGED told /\ fond = "done" /\ fond' = "remove"
      BY <2>3 DEF FondDone
    <3> QED
      BY <1>1, <1>5, <3>1, <3>2 DEF IInv, FondInv
  <2>4. CASE FondRemove
    <3>1. /\ entry' \in [present : BOOLEAN, alive : BOOLEAN, cause : {NoCause, "requested", "timeout"}]
          /\ entry'.alive = entry.alive
      BY <2>4 DEF FondRemove, IInv, FondInv
    <3>2. UNCHANGED told /\ fond = "remove" /\ fond' = "gone"
      BY <2>4 DEF FondRemove
    <3> QED
      BY <1>1, <1>5, <3>1, <3>2 DEF IInv, FondInv
  <2> QED
    BY <2>1, <2>2, <2>3, <2>4
<1> QED
  BY <1>1, <1>2, <1>3, <1>4, <1>6, <1>7, OutsideIsSound

(* The channel of the caller's stream is closed. *)
LEMMA CloseMove ==
    ASSUME IInv, graph.liveIn # 0, hub' = CloseLiveIn(hub)
    PROVE  /\ OutMove("caller") /\ hub'.names = hub.names /\ hub'.waiting = hub.waiting
           /\ hub'.cancel = hub.cancel
<1>1. CASE closed
  BY <1>1, QuietMove DEF CloseLiveIn
<1>2. CASE ~closed
  <2> DEFINE c == graph.liveIn
  <2>1. c \in Chans /\ Edge(c).src \notin Nodes
    BY GraphFacts DEF IInv, MainInv
  <2>2. HubOK(Chans, Workers, hub) /\ Detected(hub) /\ hub' = ReleaseSender(hub, c)
    BY <1>2 DEF IInv, HubInv, CloseLiveIn
  <2> HIDE DEF c
  <2>3. /\ HubOK(Chans, Workers, hub')
        /\ hub'.names = hub.names /\ hub'.buf = hub.buf
        /\ hub'.waiting = hub.waiting /\ hub'.cancel = hub.cancel
        /\ hub'.senders[c] = 0 /\ \A d \in Chans \ {c} : hub'.senders[d] = hub.senders[d]
        /\ Detected(hub) => Detected(hub')
    BY <2>1, <2>2, ReleaseSenderFacts
  <2>4. DeclaredBy(hub, hub', "caller")
    BY <2>3, CauseValues DEF DeclaredBy, Cancelled
  <2> USE DEF c
  <2> QED
    BY <2>1, <2>2, <2>3, <2>4 DEF OutMove, Workers, Ended
<1> QED
  BY <1>1, <1>2

(* The background thread closes the open input. *)
LEMMA FondCloseIsSound ==
    ASSUME IInv, FondClose
    PROVE  SoundStep
<1>1. /\ UNCHANGED <<graph, th, persistq, saved, storeErr, main,
                     handle, entry, timer, caller, told>>
      /\ fond = "run" /\ fond' = "part" /\ main.pc = "ended" /\ graph.spawned
  BY DEF FondClose, UnchangedRun
<1>2. /\ OutMove("caller") /\ hub'.names = hub.names /\ hub'.waiting = hub.waiting
      /\ hub'.cancel = hub.cancel
  BY CloseMove, QuietMove DEF FondClose
<1>3. NamesInv'
  BY <1>1, <1>2, NamesStay
<1>4. CallerInv'
  BY <1>1, <1>2 DEF IInv, CallerInv
<1>5. HandleInv'
  BY <1>1, <1>2, HandleStays
<1>6. FondInv'
  BY <1>1 DEF IInv, FondInv
<1>7. hub'.cancel = Deadlock => Cancelled(hub)
  BY <1>2, CauseValues DEF Cancelled
<1> QED
  BY <1>1, <1>2, <1>3, <1>4, <1>5, <1>6, <1>7, OutsideIsSound

(* The caller or the timer signs out of the hub. *)
LEMMA PartMove ==
    ASSUME IInv, NEW w \in {"caller", "timer"}, hub' = WorkerDone(hub, w)
    PROVE  /\ OutMove(w) /\ hub'.names = hub.names \ {w} /\ hub'.waiting[w] = NoWait
           /\ \A v \in Workers \ {w} : hub'.waiting[v] = hub.waiting[v]
           /\ hub'.cancel = hub.cancel \/ (~Cancelled(hub) /\ hub'.cancel = Deadlock)
<1>1. HubOK(Chans, Workers, hub) /\ w \in Workers
  BY DEF IInv, HubInv, Workers
<1>2. /\ HubOK(Chans, Workers, hub') /\ Detected(hub')
      /\ hub'.names = hub.names \ {w} /\ hub'.senders = hub.senders /\ hub'.buf = hub.buf
      /\ hub'.waiting[w] = NoWait
      /\ \A v \in Workers \ {w} : hub'.waiting[v] = hub.waiting[v]
      /\ hub'.cancel = hub.cancel \/ (~Cancelled(hub) /\ hub'.cancel = Deadlock)
      /\ DeclaredBy(hub, hub', w)
  BY <1>1, WorkerDoneFacts
<1>3. \A v \in Workers \ {"caller"} : hub'.waiting[v] = hub.waiting[v]
  BY <1>2 DEF IInv, NamesInv
<1> QED
  BY <1>1, <1>2, <1>3 DEF OutMove, Ended

(* It signs the caller out. *)
LEMMA FondPartIsSound ==
    ASSUME IInv, FondPart
    PROVE  SoundStep
<1>1. /\ UNCHANGED <<graph, th, persistq, saved, storeErr, main,
                     handle, entry, timer, caller, told>>
      /\ fond = "part" /\ fond' = "cause"
  BY DEF FondPart, UnchangedRun
<1>2. FondInv'
  BY <1>1 DEF IInv, FondInv
<1>3. CASE Live(graph)
  <2>1. /\ OutMove("caller") /\ hub'.names = hub.names \ {"caller"}
        /\ hub'.waiting["caller"] = NoWait
        /\ \A v \in Workers \ {"caller"} : hub'.waiting[v] = hub.waiting[v]
        /\ hub'.cancel = hub.cancel \/ (~Cancelled(hub) /\ hub'.cancel = Deadlock)
    BY <1>3, PartMove DEF FondPart
  <2>2. NamesInv'
    <3>1. Nodes' = Nodes /\ (Launching' <=> Launching) /\ (Live(graph)' <=> Live(graph))
      BY <1>1 DEF Nodes, Launching, Live
    <3>2. hub'.waiting["launch"] = NoWait /\ hub'.waiting["timer"] = NoWait
      BY <2>1 DEF Workers, IInv, NamesInv
    <3>3. "caller" \notin Nodes
      BY GraphFacts DEF IInv, MainInv
    <3> QED
      BY <1>1, <2>1, <3>1, <3>2, <3>3 DEF IInv, NamesInv
  <2>3. CallerInv'
    BY <1>1, <2>1 DEF IInv, CallerInv
  <2>4. HandleInv'
    BY <1>1, <2>1, HandleStays
  <2> QED
    BY <1>1, <1>2, <1>3, <2>1, <2>2, <2>3, <2>4, OutsideIsSound
<1>4. CASE ~Live(graph)
  <2>1. UNCHANGED hub
    BY <1>4 DEF FondPart
  <2>2. OutMove("caller") /\ (hub'.cancel = Deadlock => Cancelled(hub))
    BY <2>1, QuietMove, CauseValues DEF Cancelled
  <2>3. NamesInv'
    <3>1. Nodes' = Nodes /\ (Launching' <=> Launching) /\ (Live(graph)' <=> Live(graph))
      BY <1>1 DEF Nodes, Launching, Live
    <3> QED
      BY <1>1, <1>4, <2>1, <3>1 DEF IInv, NamesInv
  <2>4. CallerInv'
    BY <1>1, <2>1 DEF IInv, CallerInv
  <2>5. HandleInv'
    BY <1>1, <2>1, HandleStays
  <2> QED
    BY <1>1, <1>2, <2>2, <2>3, <2>4, <2>5, OutsideIsSound
<1> QED
  BY <1>3, <1>4

(* The entries of the registry. *)
Entries == [present : BOOLEAN, alive : BOOLEAN, cause : {NoCause, "requested", "timeout"}]

(* note_cause: the first cause stays. *)
LEMMA NotedFacts ==
    ASSUME NEW e \in Entries, NEW why \in {"requested", "timeout"}, NEW k, k = Noted(e, why)
    PROVE  /\ k \in Entries /\ k.present = e.present /\ k.alive = e.alive
           /\ k.cause # NoCause /\ (e.cause # NoCause => k.cause = e.cause)
<1>1. CASE e.cause = NoCause
  BY <1>1 DEF Noted, Entries, NoCause
<1>2. CASE e.cause # NoCause
  BY <1>2 DEF Noted, Entries
<1> QED
  BY <1>1, <1>2

(* The entry keeps its life and its cause. *)
LEMMA FondStays ==
    ASSUME IInv, UNCHANGED <<graph, main, fond, told>>,
           timer' \in {"armed", "grace", "part", "gone"},
           entry' \in Entries, entry'.present = entry.present, entry'.alive = entry.alive,
           entry.cause # NoCause => entry'.cause = entry.cause
    PROVE  FondInv'
  BY DEF IInv, FondInv, Entries

(* An entry is stopped: its first cause is kept and the handle is pulled. *)
LEMMA StopIsHandled ==
    ASSUME IInv, UNCHANGED <<graph, main, hub>>, NEW why \in {"requested", "timeout"},
           StopEntry(why)
    PROVE  /\ HandleInv'
           /\ entry' \in Entries /\ entry'.present = entry.present /\ entry'.alive = entry.alive
           /\ entry.cause # NoCause => entry'.cause = entry.cause
<1>1. /\ entry' \in Entries /\ entry'.present = entry.present /\ entry'.alive = entry.alive
      /\ entry'.cause # NoCause /\ (entry.cause # NoCause => entry'.cause = entry.cause)
  BY NotedFacts DEF StopEntry, IInv, FondInv, Entries
<1>2. /\ handle' \in [cancelled : BOOLEAN, attached : BOOLEAN, due : BOOLEAN]
      /\ handle'.cancelled /\ handle'.attached = handle.attached
      /\ handle'.due <=> (handle.due \/ handle.attached)
  BY DEF StopEntry, PullHandle, IInv, HandleInv
<1>3. HandleInv'
  BY <1>1, <1>2 DEF IInv, HandleInv, CancelReachesHub
<1> QED
  BY <1>1, <1>3

(* Somebody stops the run. *)
LEMMA CancelIsSound ==
    ASSUME IInv, Cancel("requested")
    PROVE  SoundStep
<1>1. /\ UNCHANGED <<graph, hub, th, persistq, saved, storeErr, main, fond, timer, caller, told>>
      /\ StopEntry("requested")
  BY DEF Cancel, UnchangedRun
<1>2. /\ HandleInv'
      /\ entry' \in Entries /\ entry'.present = entry.present /\ entry'.alive = entry.alive
      /\ entry.cause # NoCause => entry'.cause = entry.cause
  BY <1>1, StopIsHandled
<1>3. timer \in {"armed", "grace", "part", "gone"}
  BY DEF IInv, FondInv
<1>4. FondInv'
  BY <1>1, <1>2, <1>3, FondStays
<1>5. OutMove("caller") /\ (hub'.cancel = Deadlock => Cancelled(hub))
  BY <1>1, QuietMove, CauseValues DEF Cancelled
<1>6. NamesInv' /\ CallerInv'
  BY <1>1, NamesStay DEF IInv, CallerInv
<1> QED
  BY <1>1, <1>2, <1>4, <1>5, <1>6, OutsideIsSound

(* The timer sees the end of the run. *)
LEMMA TimerFiniIsSound ==
    ASSUME IInv, TimerFini
    PROVE  SoundStep
<1>1. /\ UNCHANGED <<graph, hub, th, persistq, saved, storeErr, main,
                     handle, fond, entry, caller, told>>
      /\ timer # "gone" /\ timer' = "part"
  BY DEF TimerFini, UnchangedRun
<1>2. HandleInv'
  BY <1>1, HandleStays
<1>3. FondInv' /\ CallerInv'
  BY <1>1 DEF IInv, FondInv, CallerInv
<1>4. OutMove("caller") /\ (hub'.cancel = Deadlock => Cancelled(hub))
  BY <1>1, QuietMove, CauseValues DEF Cancelled
<1>5. NamesInv'
  <2>1. Nodes' = Nodes /\ (Launching' <=> Launching) /\ (Live(graph)' <=> Live(graph))
    BY <1>1 DEF Nodes, Launching, Live
  <2> QED
    BY <1>1, <2>1 DEF IInv, NamesInv
<1> QED
  BY <1>1, <1>2, <1>3, <1>4, <1>5, OutsideIsSound

(* The timer closes the open input. *)
LEMMA TimerCloseIsSound ==
    ASSUME IInv, TimerClose
    PROVE  SoundStep
<1>1. /\ UNCHANGED <<graph, th, persistq, saved, storeErr, main, handle, fond, caller, told>>
      /\ timer # "gone" /\ timer' = "grace" /\ graph.liveIn # 0 /\ hub' = CloseLiveIn(hub)
      /\ entry' = IF entry.present THEN Noted(entry, "timeout") ELSE entry
  BY DEF TimerClose, UnchangedRun
<1>2. /\ OutMove("caller") /\ hub'.names = hub.names /\ hub'.waiting = hub.waiting
      /\ hub'.cancel = hub.cancel
  BY <1>1, CloseMove
<1>3. /\ entry' \in Entries /\ entry'.present = entry.present /\ entry'.alive = entry.alive
      /\ entry.cause # NoCause => entry'.cause = entry.cause
  BY <1>1, NotedFacts DEF IInv, FondInv, Entries
<1>4. HandleInv'
  BY <1>1, <1>2, <1>3, HandleStays
<1>5. FondInv'
  BY <1>1, <1>3, FondStays
<1>6. CallerInv'
  BY <1>1, <1>2 DEF IInv, CallerInv
<1>7. hub'.cancel = Deadlock => Cancelled(hub)
  BY <1>2, CauseValues DEF Cancelled
<1>8. NamesInv'
  <2>1. Nodes' = Nodes /\ (Launching' <=> Launching) /\ (Live(graph)' <=> Live(graph))
    BY <1>1 DEF Nodes, Launching, Live
  <2> QED
    BY <1>1, <1>2, <2>1 DEF IInv, NamesInv
<1> QED
  BY <1>1, <1>2, <1>4, <1>5, <1>6, <1>7, <1>8, OutsideIsSound

(* The timer cancels the run. *)
LEMMA TimerCancelIsSound ==
    ASSUME IInv, TimerCancel
    PROVE  SoundStep
<1>1. /\ UNCHANGED <<graph, hub, th, persistq, saved, storeErr, main, fond, caller, told>>
      /\ timer # "gone" /\ timer' = "part"
      /\ StopEntry("timeout") \/ UNCHANGED <<entry, handle>>
  BY DEF TimerCancel, UnchangedRun
<1>2. /\ HandleInv'
      /\ entry' \in Entries /\ entry'.present = entry.present /\ entry'.alive = entry.alive
      /\ entry.cause # NoCause => entry'.cause = entry.cause
  <2>1. CASE StopEntry("timeout")
    BY <1>1, <2>1, StopIsHandled
  <2>2. CASE UNCHANGED <<entry, handle>>
    BY <1>1, <2>2, HandleStays DEF IInv, FondInv, Entries
  <2> QED
    BY <1>1, <2>1, <2>2
<1>3. FondInv'
  BY <1>1, <1>2, FondStays
<1>4. OutMove("caller") /\ (hub'.cancel = Deadlock => Cancelled(hub))
  BY <1>1, QuietMove, CauseValues DEF Cancelled
<1>5. CallerInv'
  BY <1>1 DEF IInv, CallerInv
<1>6. NamesInv'
  <2>1. Nodes' = Nodes /\ (Launching' <=> Launching) /\ (Live(graph)' <=> Live(graph))
    BY <1>1 DEF Nodes, Launching, Live
  <2> QED
    BY <1>1, <2>1 DEF IInv, NamesInv
<1> QED
  BY <1>1, <1>2, <1>3, <1>4, <1>5, <1>6, OutsideIsSound

(* The timer signs out. *)
LEMMA TimerPartIsSound ==
    ASSUME IInv, TimerPart
    PROVE  SoundStep
<1>1. /\ UNCHANGED <<graph, th, persistq, saved, storeErr, main,
                     handle, fond, entry, caller, told>>
      /\ timer = "part" /\ timer' = "gone"
  BY DEF TimerPart, UnchangedRun
<1>2. FondInv'
  BY <1>1 DEF IInv, FondInv
<1>3. Nodes' = Nodes /\ (Launching' <=> Launching) /\ (Live(graph)' <=> Live(graph))
  BY <1>1 DEF Nodes, Launching, Live
<1>4. CASE graph.liveIn # 0
  <2>1. /\ OutMove("timer") /\ hub'.names = hub.names \ {"timer"}
        /\ hub'.waiting["timer"] = NoWait
        /\ \A v \in Workers \ {"timer"} : hub'.waiting[v] = hub.waiting[v]
        /\ hub'.cancel = hub.cancel \/ (~Cancelled(hub) /\ hub'.cancel = Deadlock)
    BY <1>4, PartMove DEF TimerPart
  <2>2. hub'.waiting["launch"] = NoWait /\ hub'.waiting["caller"] = hub.waiting["caller"]
    BY <2>1 DEF Workers, IInv, NamesInv
  <2>3. "timer" \notin Nodes
    BY GraphFacts DEF IInv, MainInv
  <2>4. NamesInv'
    BY <1>1, <1>3, <2>1, <2>2, <2>3 DEF IInv, NamesInv
  <2>5. CallerInv'
    BY <1>1, <2>2 DEF IInv, CallerInv
  <2>6. HandleInv'
    BY <1>1, <2>1, HandleStays
  <2> QED
    BY <1>1, <1>2, <1>4, <2>1, <2>4, <2>5, <2>6, OutsideIsSound DEF Live
<1>5. CASE graph.liveIn = 0
  <2>1. UNCHANGED hub
    BY <1>5 DEF TimerPart
  <2>2. OutMove("caller") /\ (hub'.cancel = Deadlock => Cancelled(hub))
    BY <2>1, QuietMove, CauseValues DEF Cancelled
  <2>3. NamesInv'
    BY <1>1, <1>3, <1>5, <2>1 DEF IInv, NamesInv
  <2>4. CallerInv'
    BY <1>1, <2>1 DEF IInv, CallerInv
  <2>5. HandleInv'
    BY <1>1, <2>1, HandleStays
  <2> QED
    BY <1>1, <1>2, <2>2, <2>3, <2>4, <2>5, OutsideIsSound
<1> QED
  BY <1>4, <1>5

(* Once the caller is signed out, nobody is left who could wait. *)
LEMMA CallerUpIsDetected ==
    ASSUME IInv, Live(graph), HubOK(Chans, Workers, hub'),
           KeptBut(Workers, hub, hub', "caller"), hub'.waiting["caller"] = NoWait
    PROVE  Detected(hub')
<1>1. /\ hub'.names = hub.names /\ hub.names \subseteq Workers
      /\ hub'.waiting["launch"] = NoWait /\ hub'.waiting["timer"] = NoWait
  BY DEF KeptBut, IInv, NamesInv, Workers, HubInv, HubOK, HubOf
<1>2. CASE "caller" \in hub.names
  BY <1>1, <1>2, UpIsDetected
<1>3. CASE "caller" \notin hub.names
  <2>1. main.pc = "ended"
    BY <1>3 DEF IInv, NamesInv, FondInv
  <2>2. \A n \in Nodes : th[n].pc \in {"unborn", "done"}
    BY <2>1 DEF IInv, MainInv, Launching
  <2>3. hub.names \subseteq {"launch", "timer"}
    BY <1>1, <1>3, <2>1, <2>2 DEF IInv, NamesInv, Workers
  <2>4. CASE hub.names = {}
    BY <1>1, <2>4 DEF Detected
  <2>5. CASE hub.names # {}
    BY <1>1, <2>3, <2>5, UpIsDetected
  <2> QED
    BY <2>4, <2>5
<1> QED
  BY <1>2, <1>3

(* A step of the caller. *)
LEMMA CallerMoves ==
    ASSUME IInv, Live(graph), HubOK(Chans, Workers, hub'),
           KeptBut(Workers, hub, hub', "caller"), DeclaredBy(hub, hub', "caller"),
           hub'.waiting["caller"] = NoWait \/ Detected(hub'),
           \A c \in Chans : (Edge(c).src \in Nodes /\ Ended(hub, c)) => hub'.buf[c] = 0,
           UNCHANGED <<graph, th, persistq, saved, storeErr, main,
                       handle, fond, entry, timer, told>>,
           CallerInv'
    PROVE  SoundStep
<1>1. OutMove("caller")
  BY CallerUpIsDetected DEF OutMove, KeptBut, Workers
<1>2. NamesInv'
  BY NamesStay DEF KeptBut
<1>3. HandleInv'
  BY HandleStays DEF KeptBut
<1>4. FondInv'
  BY DEF IInv, FondInv
<1> QED
  BY <1>1, <1>2, <1>3, <1>4, OutsideIsSound

(* The caller has the channel of the operation. *)
CallerUses(op) == (op = "send" /\ graph.liveIn # 0) \/ (op = "recv" /\ graph.liveOut # 0)

(* That channel is one of the hub, and no node feeds the open input. *)
LEMMA CallerFacts ==
    ASSUME IInv, NEW op, CallerUses(op)
    PROVE  /\ Live(graph) /\ CallerChan(op) \in SUBSET Chans
           /\ op = "send" => \A c \in CallerChan(op) : Edge(c).src \notin Nodes
           /\ HubOK(Chans, Workers, hub) /\ Numbers(Chans) /\ "caller" \in Workers
  BY GraphFacts DEF IInv, MainInv, HubInv, Live, CallerUses, CallerChan, Workers

(* An answer ends the operation. *)
LEMMA AnsweredFacts ==
    ASSUME NEW res, NEW op
    PROVE  DOMAIN Answered(res, op) = {"pc", "op", "sent", "done"} /\ Answered(res, op).pc = "idle"
  BY DEF Answered

(* send and recv of the caller. *)
LEMMA CallerBlockingIsSound ==
    ASSUME IInv, NEW op \in {"send", "recv"}, CallerBlocking(op)
    PROVE  SoundStep
<1> DEFINE r == IF op = "send" THEN Send(hub, "caller", CallerChan(op))
                ELSE RecvAny(hub, "caller", CallerChan(op))
<1>1. /\ UNCHANGED <<graph, th, persistq, saved, storeErr, main,
                     handle, fond, entry, timer, told>>
      /\ hub' = r.hub
      /\ caller' = IF r.res = "blocked" THEN [caller EXCEPT !.pc = "blocking", !.op = op]
                   ELSE Answered(r.res, op)
  BY DEF CallerBlocking, UnchangedRun
<1>2. CallerUses(op)
  BY DEF CallerBlocking, CallerMay, IInv, CallerInv, CallerUses
<1>3. /\ Live(graph) /\ CallerChan(op) \in SUBSET Chans
      /\ op = "send" => \A c \in CallerChan(op) : Edge(c).src \notin Nodes
      /\ HubOK(Chans, Workers, hub) /\ Numbers(Chans) /\ "caller" \in Workers
  BY <1>2, CallerFacts
<1>4. /\ HubOK(Chans, Workers, r.hub)
      /\ KeptBut(Workers, hub, r.hub, "caller") /\ DeclaredBy(hub, r.hub, "caller")
      /\ \A c \in Chans : (Edge(c).src \in Nodes /\ Ended(hub, c)) => r.hub.buf[c] = 0
      /\ r.res # "blocked" => r.hub.waiting["caller"] = NoWait
      /\ r.res = "blocked" => Detected(r.hub)
  <2>1. CASE op = "send"
    <3> DEFINE s == Send(hub, "caller", CallerChan(op))
    <3>1. r = s
      BY <2>1
    <3>2. /\ HubOK(Chans, Workers, s.hub)
          /\ KeptBut(Workers, hub, s.hub, "caller") /\ DeclaredBy(hub, s.hub, "caller")
          /\ \A c \in Chans \ CallerChan(op) : s.hub.buf[c] = hub.buf[c]
          /\ s.res # "blocked" => s.hub.waiting["caller"] = NoWait
          /\ s.res = "blocked" => Detected(s.hub)
      BY <1>3, SendFacts
    <3> HIDE DEF s, r
    <3> QED
      BY <1>3, <2>1, <3>1, <3>2 DEF Ended
  <2>2. CASE op = "recv"
    <3> DEFINE s == RecvAny(hub, "caller", CallerChan(op))
    <3>1. r = s
      BY <2>2
    <3>2. /\ HubOK(Chans, Workers, s.hub)
          /\ KeptBut(Workers, hub, s.hub, "caller") /\ DeclaredBy(hub, s.hub, "caller")
          /\ \A c \in Chans : hub.buf[c] = 0 => s.hub.buf[c] = 0
          /\ s.res # "blocked" => s.hub.waiting["caller"] = NoWait
          /\ s.res = "blocked" => Detected(s.hub)
      BY <1>3, RecvAnyFacts
    <3> HIDE DEF s, r
    <3> QED
      BY <3>1, <3>2 DEF Ended
  <2> QED
    BY <2>1, <2>2
<1> HIDE DEF r
<1>5. CallerInv'
  <2>1. DOMAIN caller = {"pc", "op", "sent", "done"}
    BY DEF IInv, CallerInv
  <2>2. CASE r.res = "blocked"
    <3>1. /\ DOMAIN caller' = {"pc", "op", "sent", "done"}
          /\ caller'.pc = "blocking" /\ caller'.op = op
      BY <1>1, <2>1, <2>2
    <3> QED
      BY <1>1, <1>2, <3>1 DEF CallerInv, CallerUses
  <2>3. CASE r.res # "blocked"
    <3>1. DOMAIN caller' = {"pc", "op", "sent", "done"} /\ caller'.pc = "idle"
      BY <1>1, <2>3, AnsweredFacts
    <3> QED
      BY <1>1, <1>4, <2>3, <3>1 DEF CallerInv
  <2> QED
    BY <2>2, <2>3
<1> QED
  BY <1>1, <1>3, <1>4, <1>5, CallerMoves

(* try_send and try_recv, and each turn of the ones with a deadline. *)
LEMMA CallerTryIsSound ==
    ASSUME IInv, NEW op \in {"send", "recv"}, CallerTry(op)
    PROVE  SoundStep
<1> DEFINE r == Try(op, hub)
<1>1. /\ UNCHANGED <<graph, th, persistq, saved, storeErr, main,
                     handle, fond, entry, timer, told>>
      /\ hub' = r.hub
      /\ \/ caller' = [caller EXCEPT !.pc = "idle", !.op = "none"]
         \/ caller' = [caller EXCEPT !.pc = "gap", !.op = op]
         \/ caller' = Answered(r.res, op)
      /\ caller.pc \in {"idle", "turn"}
  BY DEF CallerTry, UnchangedRun, CallerMay
<1>2. CallerUses(op)
  BY DEF CallerTry, CallerMay, IInv, CallerInv, CallerUses
<1>3. /\ Live(graph) /\ CallerChan(op) \in SUBSET Chans
      /\ op = "send" => \A c \in CallerChan(op) : Edge(c).src \notin Nodes
      /\ HubOK(Chans, Workers, hub) /\ Numbers(Chans) /\ "caller" \in Workers
  BY <1>2, CallerFacts
<1>4. /\ HubOK(Chans, Workers, r.hub)
      /\ r.hub.names = hub.names /\ r.hub.senders = hub.senders
      /\ r.hub.waiting = hub.waiting /\ r.hub.cancel = hub.cancel
      /\ \A c \in Chans : (Edge(c).src \in Nodes /\ Ended(hub, c)) => r.hub.buf[c] = 0
  <2>1. CASE op = "send"
    <3> DEFINE s == TrySend(hub, CallerChan(op))
    <3>1. r = s
      BY <2>1 DEF Try
    <3>2. /\ HubOK(Chans, Workers, s.hub)
          /\ s.hub.names = hub.names /\ s.hub.senders = hub.senders
          /\ s.hub.waiting = hub.waiting /\ s.hub.cancel = hub.cancel
          /\ \A c \in Chans \ CallerChan(op) : s.hub.buf[c] = hub.buf[c]
      BY <1>3, TrySendFacts
    <3> HIDE DEF s, r
    <3> QED
      BY <1>3, <2>1, <3>1, <3>2 DEF Ended
  <2>2. CASE op = "recv"
    <3> DEFINE s == TryRecv(hub, CallerChan(op))
    <3>1. r = s
      BY <2>2 DEF Try
    <3>2. /\ HubOK(Chans, Workers, s.hub)
          /\ s.hub.names = hub.names /\ s.hub.senders = hub.senders
          /\ s.hub.waiting = hub.waiting /\ s.hub.cancel = hub.cancel
          /\ \A c \in Chans : hub.buf[c] = 0 => s.hub.buf[c] = 0
      BY <1>3, TryRecvFacts
    <3> HIDE DEF s, r
    <3> QED
      BY <3>1, <3>2 DEF Ended
  <2> QED
    BY <2>1, <2>2
<1> HIDE DEF r
<1>5. hub'.waiting["caller"] = NoWait
  BY <1>1, <1>4 DEF IInv, CallerInv
<1>6. CallerInv'
  <2>1. DOMAIN caller = {"pc", "op", "sent", "done"}
    BY DEF IInv, CallerInv
  <2>2. /\ DOMAIN caller' = {"pc", "op", "sent", "done"}
        /\ caller'.pc = "idle" \/ (caller'.pc = "gap" /\ caller'.op = op)
    BY <1>1, <2>1, AnsweredFacts
  <2> QED
    BY <1>1, <1>2, <1>5, <2>2 DEF CallerInv, CallerUses
<1>7. KeptBut(Workers, hub, hub', "caller") /\ DeclaredBy(hub, hub', "caller")
  BY <1>1, <1>4, CauseValues DEF KeptBut, DeclaredBy, Cancelled
<1> QED
  BY <1>1, <1>3, <1>4, <1>5, <1>6, <1>7, CallerMoves

(* The caller sleeps up to its deadline. *)
LEMMA CallerNapIsSound ==
    ASSUME IInv, CallerNap
    PROVE  SoundStep
<1> DEFINE op == caller.op
           c == Min(CallerChan(op))
           what == IF op = "send" THEN SendWait(c) ELSE RecvWait({c})
<1>1. /\ UNCHANGED <<graph, th, persistq, saved, storeErr, main,
                     handle, fond, entry, timer, told>>
      /\ hub' = hub \/ hub' = Sleep(hub, "caller", what)
      /\ caller' = [caller EXCEPT !.pc = "nap"] /\ caller.pc = "gap"
  BY DEF CallerNap, UnchangedRun
<1>2. CallerUses(op) /\ op \in {"send", "recv"}
  BY <1>1 DEF IInv, CallerInv, CallerUses
<1>3. /\ Live(graph) /\ CallerChan(op) \in SUBSET Chans
      /\ HubOK(Chans, Workers, hub) /\ Numbers(Chans) /\ "caller" \in Workers
  BY <1>2, CallerFacts
<1>4. CallerChan(op) # {} /\ CallerChan(op) \in SUBSET Nat
  BY <1>3 DEF CallerChan, Numbers
<1>5. c \in Chans
  BY <1>3, <1>4, MinIn
<1>6. what \in Waits(Chans) /\ what # NoWait
  <2> HIDE DEF c
  <2> QED
    BY <1>5 DEF Waits, SendWait, RecvWait, NoWait
<1> HIDE DEF what, c
<1>7. /\ HubOK(Chans, Workers, hub') /\ Detected(hub')
      /\ KeptBut(Workers, hub, hub', "caller") /\ DeclaredBy(hub, hub', "caller")
      /\ hub'.buf = hub.buf
  <2>1. CASE hub' = hub
    BY <2>1, CauseValues DEF IInv, HubInv, KeptBut, DeclaredBy, Cancelled
  <2>2. CASE hub' = Sleep(hub, "caller", what)
    BY <1>3, <1>6, <2>2, SleepFacts
  <2> QED
    BY <1>1, <2>1, <2>2
<1>8. CallerInv'
  <2>1. DOMAIN caller = {"pc", "op", "sent", "done"}
    BY DEF IInv, CallerInv
  <2>2. /\ DOMAIN caller' = {"pc", "op", "sent", "done"}
        /\ caller'.pc = "nap" /\ caller'.op = op
    BY <1>1, <2>1
  <2> QED
    BY <1>1, <1>2, <2>2 DEF CallerInv, CallerUses
<1> QED
  BY <1>1, <1>3, <1>7, <1>8, CallerMoves DEF Ended

(* It wakes. *)
LEMMA CallerWakeIsSound ==
    ASSUME IInv, CallerWake
    PROVE  SoundStep
<1>1. /\ UNCHANGED <<graph, th, persistq, saved, storeErr, main,
                     handle, fond, entry, timer, told>>
      /\ hub' = Awake(hub, "caller")
      /\ caller' = [caller EXCEPT !.pc = "turn"] /\ caller.pc = "nap"
  BY DEF CallerWake, UnchangedRun
<1>2. CallerUses(caller.op)
  BY <1>1 DEF IInv, CallerInv, CallerUses
<1>3. Live(graph) /\ HubOK(Chans, Workers, hub) /\ "caller" \in Workers
  BY <1>2, CallerFacts
<1>4. /\ HubOK(Chans, Workers, hub')
      /\ KeptBut(Workers, hub, hub', "caller") /\ hub'.cancel = hub.cancel
      /\ hub'.buf = hub.buf /\ hub'.waiting["caller"] = NoWait
  BY <1>1, <1>3, AwakeFacts
<1>5. DeclaredBy(hub, hub', "caller")
  BY <1>4, CauseValues DEF DeclaredBy, Cancelled
<1>6. CallerInv'
  <2>1. DOMAIN caller = {"pc", "op", "sent", "done"}
    BY DEF IInv, CallerInv
  <2>2. /\ DOMAIN caller' = {"pc", "op", "sent", "done"}
        /\ caller'.pc = "turn" /\ caller'.op = caller.op
    BY <1>1, <2>1
  <2> QED
    BY <1>1, <1>2, <1>4, <2>2 DEF CallerInv, CallerUses
<1> QED
  BY <1>1, <1>3, <1>4, <1>5, <1>6, CallerMoves DEF Ended

(* It closes the input. *)
LEMMA CallerCloseIsSound ==
    ASSUME IInv, CallerClose
    PROVE  SoundStep
<1>1. /\ UNCHANGED <<graph, th, persistq, saved, storeErr, main,
                     handle, fond, entry, timer, caller, told>>
      /\ graph.liveIn # 0 /\ hub' = CloseLiveIn(hub)
  BY DEF CallerClose, UnchangedRun
<1>2. /\ OutMove("caller") /\ hub'.names = hub.names /\ hub'.waiting = hub.waiting
      /\ hub'.cancel = hub.cancel
  BY <1>1, CloseMove
<1>3. NamesInv'
  BY <1>1, <1>2, NamesStay
<1>4. CallerInv' /\ FondInv'
  BY <1>1, <1>2 DEF IInv, CallerInv, FondInv
<1>5. HandleInv'
  BY <1>1, <1>2, HandleStays
<1>6. hub'.cancel = Deadlock => Cancelled(hub)
  BY <1>2, CauseValues DEF Cancelled
<1> QED
  BY <1>1, <1>2, <1>3, <1>4, <1>5, <1>6, OutsideIsSound

(* CancelHandle::cancel reaches the hub it copied. *)
LEMMA FireCancelIsSound ==
    ASSUME IInv, FireCancel, UNCHANGED bgvars
    PROVE  SoundStep
<1>1. /\ UNCHANGED <<graph, th, persistq, saved, storeErr, main,
                     fond, entry, timer, caller, told>>
      /\ handle.due /\ hub' = CancelHub(hub, External)
      /\ handle' = [handle EXCEPT !.due = FALSE]
  BY DEF FireCancel, bgvars
<1>2. HubOK(Chans, Workers, hub) /\ External \in Causes(Workers) /\ External # NotCancelled
  BY CauseValues DEF IInv, HubInv, Causes
<1>3. /\ HubOK(Chans, Workers, hub') /\ Detected(hub') /\ Cancelled(hub')
      /\ hub'.names = hub.names /\ hub'.senders = hub.senders /\ hub'.buf = hub.buf
      /\ hub'.waiting = hub.waiting
      /\ hub'.cancel = IF Cancelled(hub) THEN hub.cancel ELSE External
  BY <1>1, <1>2, CancelHubFacts
<1>4. hub'.cancel = Deadlock => Cancelled(hub)
  BY <1>3, CauseValues
<1>5. OutMove("caller")
  BY <1>3, <1>4 DEF OutMove, DeclaredBy, Ended, Workers
<1>6. NamesInv'
  BY <1>1, <1>3, NamesStay
<1>7. CallerInv' /\ FondInv'
  BY <1>1, <1>3 DEF IInv, CallerInv, FondInv
<1>8. HandleInv'
  <2>1. /\ handle' \in [cancelled : BOOLEAN, attached : BOOLEAN, due : BOOLEAN]
        /\ handle'.cancelled /\ handle'.attached = handle.attached /\ ~handle'.due
    BY <1>1 DEF IInv, HandleInv
  <2> QED
    BY <1>1, <1>3, <2>1 DEF IInv, HandleInv, CancelReachesHub
<1> QED
  BY <1>1, <1>4, <1>5, <1>6, <1>7, <1>8, OutsideIsSound

(* The handle of a run in the foreground is pulled. *)
LEMMA CancelRunIsSound ==
    ASSUME IInv, CancelRun, ~graph.spawned, UNCHANGED bgvars
    PROVE  SoundStep
<1>1. /\ UNCHANGED <<graph, hub, th, persistq, saved, storeErr, main,
                     fond, entry, timer, caller, told>>
      /\ PullHandle
  BY DEF CancelRun, bgvars
<1>2. OutMove("caller") /\ (hub'.cancel = Deadlock => Cancelled(hub))
  BY <1>1, QuietMove, CauseValues DEF Cancelled
<1>3. NamesInv'
  BY <1>1, NamesStay
<1>4. CallerInv' /\ FondInv'
  BY <1>1 DEF IInv, CallerInv, FondInv
<1>5. HandleInv'
  <2>1. /\ handle' \in [cancelled : BOOLEAN, attached : BOOLEAN, due : BOOLEAN]
        /\ handle'.cancelled /\ handle'.attached = handle.attached
        /\ handle'.due <=> (handle.due \/ handle.attached)
    BY <1>1 DEF PullHandle, IInv, HandleInv
  <2> QED
    BY <1>1, <2>1 DEF IInv, HandleInv, CancelReachesHub
<1> QED
  BY <1>1, <1>2, <1>3, <1>4, <1>5, OutsideIsSound

-----------------------------------------------------------------------------
(* A step of the main thread                                               *)

(* Nothing of the launch moves while the main thread has not returned. *)
LEMMA MainMoves ==
    ASSUME IInv, main.pc # "ended", UNCHANGED <<graph, bgvars>>,
           hub'.waiting["caller"] = hub.waiting["caller"]
    PROVE  CallerInv' /\ FondInv' /\ fond = "run"
  BY DEF IInv, CallerInv, FondInv, bgvars

(* validate_with refuses the graph. *)
LEMMA RefuseIsSound ==
    ASSUME IInv, Refuse
    PROVE  SoundStep
<1>1. /\ UNCHANGED <<graph, hub, th, persistq, saved, storeErr, bgvars>>
      /\ main.pc = "mount" /\ ~graph.valid
      /\ main' = [pc |-> "ended", result |-> "error"]
      /\ handle' = [handle EXCEPT !.attached = FALSE]
  BY DEF Refuse
<1>2. UNCHANGED <<fond, entry, timer, caller, told>>
  BY <1>1 DEF bgvars
<1>3. /\ Nodes' = Nodes /\ Chans' = Chans /\ Workers' = Workers /\ Restored' = Restored
      /\ Launching /\ Launching' /\ (Live(graph)' <=> Live(graph))
  BY <1>1 DEF Nodes, Chans, Workers, Restored, Launching, Live
<1>4. HubInv'
  BY <1>1, <1>3 DEF IInv, HubInv
<1>5. ThreadsInv'
  BY <1>1, ThreadsStay DEF Ended
<1>6. MainInv'
  BY <1>1, <1>3 DEF IInv, MainInv
<1>7. NamesInv'
  BY <1>1, <1>2, <1>3 DEF IInv, NamesInv
<1>8. SaveInv'
  BY <1>1, <1>3 DEF IInv, SaveInv, Messages
<1>9. HandleInv'
  <2>1. /\ handle' \in [cancelled : BOOLEAN, attached : BOOLEAN, due : BOOLEAN]
        /\ handle'.cancelled = handle.cancelled /\ handle'.due = handle.due
    BY <1>1 DEF IInv, HandleInv
  <2> QED
    BY <1>1, <1>2, <2>1 DEF IInv, HandleInv, CancelReachesHub
<1>10. CallerInv' /\ FondInv'
  BY <1>1, MainMoves
<1>11. EndTold /\ DeadlockTold
  BY <1>1, SameEnds, CauseValues DEF DeadlockTold, Cancelled
<1> QED
  BY <1>4, <1>5, <1>6, <1>7, <1>8, <1>9, <1>10, <1>11 DEF IInv, SoundStep

(* CancelHandle::attach. *)
LEMMA AttachIsSound ==
    ASSUME IInv, Attach, UNCHANGED bgvars
    PROVE  SoundStep
<1>1. /\ UNCHANGED <<graph, th, persistq, saved, storeErr, bgvars>>
      /\ main.pc = "attach" /\ main' = [main EXCEPT !.pc = "mount"]
      /\ hub' = IF handle.cancelled THEN CancelHub(hub, External) ELSE hub
      /\ handle' = [handle EXCEPT !.attached = TRUE]
  BY DEF Attach
<1>2. UNCHANGED <<fond, entry, timer, caller, told>>
  BY <1>1 DEF bgvars
<1>3. main'.pc = "mount" /\ main'.result = main.result
      /\ main' \in [pc : {"attach", "mount", "leave", "run", "ended", "panicked"},
                    result : {"none", "ok", "stopped", "error"}]
  BY <1>1 DEF IInv, MainInv
<1>4. /\ Nodes' = Nodes /\ Chans' = Chans /\ Workers' = Workers /\ Restored' = Restored
      /\ Launching /\ Launching' /\ (Live(graph)' <=> Live(graph))
  BY <1>1, <1>3 DEF Nodes, Chans, Workers, Restored, Launching, Live
<1>5. /\ HubOK(Chans, Workers, hub') /\ Detected(hub')
      /\ hub'.names = hub.names /\ hub'.senders = hub.senders /\ hub'.buf = hub.buf
      /\ hub'.waiting = hub.waiting
      /\ hub'.cancel = hub.cancel
            \/ (hub'.cancel = External /\ handle.cancelled /\ ~Cancelled(hub))
      /\ handle.cancelled => Cancelled(hub')
  <2>1. HubOK(Chans, Workers, hub) /\ Detected(hub)
        /\ External \in Causes(Workers) /\ External # NotCancelled
    BY CauseValues DEF IInv, HubInv, Causes
  <2>2. CASE handle.cancelled
    <3>1. hub' = CancelHub(hub, External)
      BY <1>1, <2>2
    <3>2. /\ HubOK(Chans, Workers, hub') /\ Detected(hub') /\ Cancelled(hub')
          /\ hub'.names = hub.names /\ hub'.senders = hub.senders /\ hub'.buf = hub.buf
          /\ hub'.waiting = hub.waiting
          /\ hub'.cancel = IF Cancelled(hub) THEN hub.cancel ELSE External
      BY <2>1, <3>1, CancelHubFacts
    <3> QED
      BY <2>2, <3>2
  <2>3. CASE ~handle.cancelled
    BY <1>1, <2>1, <2>3
  <2> QED
    BY <2>2, <2>3
<1>6. hub'.cancel = Deadlock => hub.cancel = Deadlock
  BY <1>5, CauseValues
<1>7. HubInv'
  <2>1. Detected(hub)'
    BY <1>5
  <2> QED
    BY <1>4, <1>5, <2>1 DEF HubInv
<1>8. ThreadsInv'
  BY <1>1, <1>5, ThreadsStay, CauseValues DEF Ended, Cancelled
<1>9. MainInv'
  <2>1. main.result = "none"
    BY <1>1 DEF IInv, MainInv
  <2> QED
    BY <1>1, <1>3, <1>4, <1>6, <2>1 DEF IInv, MainInv
<1>10. NamesInv'
  BY <1>1, <1>2, <1>3, <1>4, <1>5 DEF IInv, NamesInv
<1>11. SaveInv'
  BY <1>1, <1>4 DEF IInv, SaveInv, Messages
<1>12. HandleInv'
  <2>1. /\ handle' \in [cancelled : BOOLEAN, attached : BOOLEAN, due : BOOLEAN]
        /\ handle'.cancelled = handle.cancelled /\ handle'.due = handle.due /\ handle'.attached
    BY <1>1 DEF IInv, HandleInv
  <2> QED
    BY <1>1, <1>2, <1>5, <2>1 DEF IInv, HandleInv, CancelReachesHub
<1>13. CallerInv' /\ FondInv'
  BY <1>1, <1>5, MainMoves
<1>14. EndTold /\ DeadlockTold
  BY <1>1, <1>6, SameEnds, CauseValues DEF DeadlockTold, Cancelled
<1> QED
  BY <1>7, <1>8, <1>9, <1>10, <1>11, <1>12, <1>13, <1>14 DEF IInv, SoundStep

(* Until the threads start, no node waits and none holds a result. *)
LEMMA BeforeStart ==
    ASSUME IInv, Launching, NEW n \in Nodes
    PROVE  /\ th[n].pc = "unborn" /\ th[n].ending = "none" /\ th[n].eof = {}
           /\ hub.waiting[n] = NoWait /\ n \in Workers
           /\ \A c \in Out(n) : hub.senders[c] # 0
<1>1. th[n].pc = "unborn" /\ ThreadInv(n, th, hub)
  BY DEF IInv, MainInv, ThreadsInv
<1>2. ThreadType(n, th[n]) /\ WaitsWhere(n, th[n], hub) /\ Releases(n, th[n], hub)
  BY <1>1 DEF ThreadInv
<1>3. th[n].ending = "none" /\ th[n].eof = {}
  BY <1>1, <1>2 DEF ThreadType
<1> QED
  BY <1>1, <1>2, <1>3 DEF WaitsWhere, Releases, Workers

(* Every worker signs in. *)
LEMMA MountIsSound ==
    ASSUME IInv, Mount, UNCHANGED bgvars
    PROVE  SoundStep
<1>1. /\ UNCHANGED <<graph, th, persistq, saved, storeErr, handle, bgvars>>
      /\ main.pc = "mount" /\ graph.valid /\ main' = [main EXCEPT !.pc = "leave"]
      /\ hub' = Register(hub, Nodes)
  BY DEF Mount
<1>2. UNCHANGED <<fond, entry, timer, caller, told>>
  BY <1>1 DEF bgvars
<1>3. main'.pc = "leave" /\ main'.result = main.result
      /\ main' \in [pc : {"attach", "mount", "leave", "run", "ended", "panicked"},
                    result : {"none", "ok", "stopped", "error"}]
  BY <1>1 DEF IInv, MainInv
<1>4. /\ Nodes' = Nodes /\ Chans' = Chans /\ Workers' = Workers /\ Restored' = Restored
      /\ Launching /\ Launching' /\ (Live(graph)' <=> Live(graph))
  BY <1>1, <1>3 DEF Nodes, Chans, Workers, Restored, Launching, Live
<1>5. /\ HubOK(Chans, Workers, hub') /\ hub'.names = hub.names \union Nodes
      /\ hub'.senders = hub.senders /\ hub'.buf = hub.buf /\ hub'.receivers = hub.receivers
      /\ hub'.waiting = hub.waiting /\ hub'.cancel = hub.cancel
  <2>1. HubOK(Chans, Workers, hub) /\ Nodes \in SUBSET Workers
    BY DEF IInv, HubInv, Workers
  <2> QED
    BY <1>1, <2>1, RegisterFacts
<1>6. Detected(hub')
  <2>1. CASE \E n \in Nodes : TRUE
    <3>1. PICK n \in Nodes : TRUE
      BY <2>1
    <3>2. n \in hub'.names /\ hub'.waiting[n] = NoWait
      BY <1>4, <1>5, <3>1, BeforeStart
    <3> QED
      BY <3>2, UpIsDetected
  <2>2. CASE Live(graph)
    <3>1. "launch" \in hub'.names /\ hub'.waiting["launch"] = NoWait
      BY <1>4, <1>5, <2>2 DEF IInv, NamesInv
    <3> QED
      BY <3>1, UpIsDetected
  <2>3. CASE ~Live(graph) /\ Nodes = {}
    <3>1. hub'.names \subseteq {}
      <4>1. hub.names \subseteq Workers
        BY DEF IInv, HubInv, HubOK, HubOf
      <4> QED
        BY <1>4, <1>5, <2>3, <4>1 DEF IInv, NamesInv, Live, Workers
    <3> QED
      BY <3>1 DEF Detected
  <2> QED
    BY <2>1, <2>2, <2>3
<1>7. HubInv'
  <2>1. Detected(hub)'
    BY <1>6
  <2> QED
    BY <1>4, <1>5, <2>1 DEF HubInv
<1>8. ThreadsInv'
  BY <1>1, <1>5, ThreadsStay DEF Ended, Cancelled
<1>9. MainInv'
  <2>1. main.result = "none"
    BY <1>1 DEF IInv, MainInv
  <2> QED
    BY <1>1, <1>3, <1>4, <1>5, <2>1 DEF IInv, MainInv
<1>10. NamesInv'
  <2>1. "caller" \notin Nodes /\ "launch" \notin Nodes /\ "timer" \notin Nodes
    BY GraphFacts DEF IInv, MainInv
  <2> QED
    BY <1>1, <1>2, <1>3, <1>4, <1>5, <2>1 DEF IInv, NamesInv
<1>11. SaveInv'
  BY <1>1, <1>4 DEF IInv, SaveInv, Messages
<1>12. HandleInv'
  BY <1>1, <1>2, <1>3, <1>5 DEF IInv, HandleInv, CancelReachesHub, Cancelled
<1>13. CallerInv' /\ FondInv'
  BY <1>1, <1>5, MainMoves
<1>14. EndTold /\ DeadlockTold
  BY <1>1, <1>5, SameEnds, CauseValues DEF DeadlockTold, Cancelled
<1> QED
  BY <1>7, <1>8, <1>9, <1>10, <1>11, <1>12, <1>13, <1>14 DEF IInv, SoundStep

(* The thread a node starts with. *)
LEMMA ThreadFacts ==
    ASSUME NEW n \in Nodes, NEW t, t = Thread(n)
    PROVE  /\ DOMAIN t = ThreadFields
           /\ t.pc \in {"drop", "context", "scan"} /\ t.ending = "none" /\ t.eof = {}
           /\ t.start \subseteq Chans /\ t.closing \subseteq Chans
           /\ t.pc = "drop" => n \in Restored
           /\ t.pc = "context" => t.start = {}
           /\ WholeChans(n) \subseteq t.start
<1> DEFINE start == InChans(n, Required(n) \union (InPorts(n) \ Elements(n)))
<1>1. start \subseteq Chans /\ In(n) \subseteq Chans
  BY DEF InChans, In, Chans
<1>2. WholeChans(n) \subseteq start
  BY DEF WholeChans, InChans, InPorts
<1>3. /\ t.start = start /\ t.ending = "none" /\ t.eof = {} /\ DOMAIN t = ThreadFields
      /\ t.pc = IF n \in Restored THEN "drop" ELSE IF start = {} THEN "context" ELSE "scan"
      /\ t.closing = IF n \in Restored THEN In(n) ELSE {}
  BY DEF Thread, ThreadFields, Restored
<1> HIDE DEF start
<1> QED
  BY <1>1, <1>2, <1>3

(* The threads start. *)
LEMMA StartIsSound ==
    ASSUME IInv, Start, UNCHANGED bgvars
    PROVE  SoundStep
<1>1. /\ UNCHANGED <<graph, persistq, saved, storeErr, handle, bgvars>>
      /\ main.pc = "leave" /\ main' = [main EXCEPT !.pc = "run"]
      /\ hub' = IF "launch" \in hub.names THEN WorkerDone(hub, "launch") ELSE hub
      /\ th' = [n \in Nodes |-> Thread(n)]
  BY DEF Start
<1>2. UNCHANGED <<fond, entry, timer, caller, told>>
  BY <1>1 DEF bgvars
<1>3. main'.pc = "run" /\ main'.result = main.result
      /\ main' \in [pc : {"attach", "mount", "leave", "run", "ended", "panicked"},
                    result : {"none", "ok", "stopped", "error"}]
  BY <1>1 DEF IInv, MainInv
<1>4. /\ Nodes' = Nodes /\ Chans' = Chans /\ Workers' = Workers /\ Restored' = Restored
      /\ (Live(graph)' <=> Live(graph)) /\ Launching /\ ~Launching' /\ graph.valid
  BY <1>1, <1>3 DEF Nodes, Chans, Workers, Restored, Launching, Live, IInv, MainInv
<1>5. /\ HubOK(Chans, Workers, hub') /\ Detected(hub')
      /\ hub'.names = hub.names \ {"launch"} /\ hub'.senders = hub.senders
      /\ hub'.buf = hub.buf
      /\ hub'.waiting["launch"] = NoWait
      /\ \A v \in Workers \ {"launch"} : hub'.waiting[v] = hub.waiting[v]
      /\ hub'.cancel = hub.cancel \/ (~Cancelled(hub) /\ hub'.cancel = Deadlock)
      /\ DeclaredBy(hub, hub', "launch")
  <2>1. HubOK(Chans, Workers, hub) /\ Detected(hub) /\ "launch" \in Workers
        /\ hub.waiting["launch"] = NoWait
    BY DEF IInv, HubInv, Workers, NamesInv
  <2>2. CASE "launch" \in hub.names
    <3>1. hub' = WorkerDone(hub, "launch")
      BY <1>1, <2>2
    <3> QED
      BY <2>1, <3>1, WorkerDoneFacts
  <2>3. CASE "launch" \notin hub.names
    <3>1. hub' = hub
      BY <1>1, <2>3
    <3>2. DeclaredBy(hub, hub', "launch")
      BY <3>1, CauseValues DEF DeclaredBy, Cancelled
    <3> QED
      BY <2>1, <2>3, <3>1, <3>2
  <2> QED
    BY <2>2, <2>3
<1>6. "caller" \notin Nodes /\ "launch" \notin Nodes /\ "timer" \notin Nodes
  BY GraphFacts DEF IInv, MainInv
<1>7. \A n \in Nodes :
         /\ th'[n] = Thread(n) /\ th'[n].pc \in {"drop", "context", "scan"}
         /\ th'[n].ending = "none" /\ th'[n].eof = {}
  BY <1>1, ThreadFacts
<1>8. HubInv'
  <2>1. Detected(hub)'
    BY <1>5
  <2> QED
    BY <1>4, <1>5, <2>1 DEF HubInv
<1>9. ThreadsInv'
  <2>1. ASSUME NEW n \in Nodes PROVE ThreadInv(n, th, hub)'
    <3> DEFINE t == th'[n]
    <3>1. t = Thread(n)
      BY <1>7
    <3> HIDE DEF t
    <3>2. /\ DOMAIN t = ThreadFields
          /\ t.pc \in {"drop", "context", "scan"} /\ t.ending = "none" /\ t.eof = {}
          /\ t.start \subseteq Chans /\ t.closing \subseteq Chans
          /\ t.pc = "drop" => n \in Restored
          /\ t.pc = "context" => t.start = {}
          /\ WholeChans(n) \subseteq t.start
      BY <3>1, ThreadFacts
    <3>3. ThreadType(n, t)
      BY <3>2 DEF ThreadType, Threads, EndingsOf
    <3>4. hub.waiting[n] = NoWait /\ n \in Workers /\ \A c \in Out(n) : hub.senders[c] # 0
      BY <1>4, BeforeStart
    <3>5. WaitsWhere(n, t, hub')
      BY <1>5, <1>6, <3>4 DEF WaitsWhere
    <3>6. Interrupted(t, hub') /\ Releases(n, t, hub')
      BY <1>5, <3>2, <3>4 DEF Interrupted, Releases
    <3>7. ReadWhole(n, th', hub')
      BY <3>2 DEF ReadWhole, t
    <3>8. ThreadInv(n, th', hub')
      BY <3>3, <3>5, <3>6, <3>7 DEF ThreadInv, t
    <3> QED
      BY <1>1, <3>8, PrimedThread
  <2> QED
    BY <1>1, <1>4, <2>1 DEF ThreadsInv
<1>10. MainInv'
  <2>1. main.result = "none" /\ graph \in Graphs
    BY <1>1 DEF IInv, MainInv
  <2> QED
    BY <1>1, <1>3, <1>4, <1>7, <2>1 DEF MainInv
<1>11. NamesInv'
  <2>1. hub'.waiting["timer"] = NoWait
    BY <1>5 DEF IInv, NamesInv, Workers
  <2>2. \A n \in Nodes : n \in hub'.names
    BY <1>1, <1>5, <1>6 DEF IInv, NamesInv
  <2> QED
    BY <1>1, <1>2, <1>3, <1>4, <1>5, <1>6, <1>7, <2>1, <2>2 DEF IInv, NamesInv
<1>12. SaveInv'
  <2>1. saved \subseteq Restored
    BY <1>4, BeforeStart DEF IInv, SaveInv
  <2>2. \A i \in 1..Len(persistq) : persistq[i].what # "completed"
    <3>1. SUFFICES ASSUME NEW i \in 1..Len(persistq), persistq[i].what = "completed" PROVE FALSE
      OBVIOUS
    <3>2. persistq \in Seq(Messages)
      BY DEF IInv, SaveInv
    <3>3. persistq[i] \in Messages
      BY <3>2
    <3>4. persistq[i].node \in Nodes /\ th[persistq[i].node].ending = "completed"
      BY <3>1, <3>3 DEF Messages, IInv, SaveInv
    <3> QED
      BY <1>4, <3>4, BeforeStart
  <2>3. Messages' = Messages
    BY <1>4 DEF Messages
  <2> QED
    BY <1>1, <1>4, <1>7, <2>1, <2>2, <2>3 DEF IInv, SaveInv
<1>13. HandleInv'
  BY <1>1, <1>2, <1>3, <1>5, CauseValues DEF IInv, HandleInv, CancelReachesHub, Cancelled
<1>14. CallerInv' /\ FondInv'
  <2>1. hub'.waiting["caller"] = hub.waiting["caller"]
    BY <1>5 DEF Workers
  <2> QED
    BY <1>1, <2>1, MainMoves
<1>15. EndTold
  <2>1. \A n \in Nodes : th'[n].eof = th[n].eof
    BY <1>4, <1>7, BeforeStart
  <2> QED
    BY <2>1 DEF EndTold
<1>16. DeadlockTold
  BY <1>5 DEF DeadlockTold, DeclaredBy, Workers
<1> QED
  BY <1>8, <1>9, <1>10, <1>11, <1>12, <1>13, <1>14, <1>15, <1>16 DEF IInv, SoundStep

(* The threads are joined, the hub is detached and the result chosen. *)
LEMMA JoinIsSound ==
    ASSUME IInv, Join, UNCHANGED bgvars
    PROVE  SoundStep
<1>1. /\ UNCHANGED <<graph, hub, th, persistq, saved, storeErr, bgvars>>
      /\ main.pc = "run" /\ persistq = <<>> /\ \A n \in Nodes : th[n].pc = "done"
      /\ \/ main' = [pc |-> "panicked", result |-> "none"] /\ UNCHANGED handle
         \/ /\ main' = [pc |-> "ended", result |-> RunResult]
            /\ handle' = [handle EXCEPT !.attached = FALSE]
            /\ Endings("panicked") = {}
  BY DEF Join
<1>2. UNCHANGED <<fond, entry, timer, caller, told>>
  BY <1>1 DEF bgvars
<1>3. /\ Nodes' = Nodes /\ Chans' = Chans /\ Workers' = Workers /\ Restored' = Restored
      /\ (Live(graph)' <=> Live(graph)) /\ graph.valid /\ ~Launching /\ ~Launching'
  BY <1>1 DEF Nodes, Chans, Workers, Restored, Launching, Live, IInv, MainInv
<1>4. HubInv'
  BY <1>1, <1>3 DEF IInv, HubInv
<1>5. ThreadsInv'
  BY <1>1, ThreadsStay DEF Ended
<1>6. /\ main' \in [pc : {"ended", "panicked"}, result : {"none", "ok", "stopped", "error"}]
      /\ main'.result # "none" => main'.pc = "ended"
      /\ main'.result \in {"ok", "stopped"} => main'.result = RunResult
      /\ main'.pc = "ended" => Endings("panicked") = {}
  BY <1>1 DEF RunResult
<1>7. hub.cancel \in Causes(Workers)
  BY DEF IInv, HubInv, HubOK, HubOf
<1>8. RunResult = "stopped" => hub.cancel = External
  <2>1. SUFFICES ASSUME RunResult = "stopped" PROVE hub.cancel = External
    OBVIOUS
  <2>2. Cancelled(hub) /\ hub.cancel.why \notin {"failed", "deadlock"}
    BY <2>1 DEF RunResult
  <2> QED
    BY <1>7, <2>2 DEF Causes, Cancelled, Deadlock, Failed
<1>9. (RunResult = "ok" /\ Endings("panicked") = {}) => \A n \in Nodes : EndedWell(n)
  <2>1. SUFFICES ASSUME RunResult = "ok", Endings("panicked") = {}, NEW n \in Nodes
                 PROVE  EndedWell(n)
    OBVIOUS
  <2>2. ~Cancelled(hub) /\ Endings("failed") = {}
    BY <2>1 DEF RunResult
  <2>3. ThreadType(n, th[n]) /\ Interrupted(th[n], hub)
    BY DEF IInv, ThreadsInv, ThreadInv
  <2>4. th[n].ending \in EndingsOf /\ th[n].ending # "none"
    BY <1>1, <2>3 DEF ThreadType
  <2> QED
    BY <2>2, <2>3, <2>4 DEF Interrupted, EndingsOf, EndedWell
<1>10. MainInv'
  <2>1. \A n \in Nodes : EndedWell(n)' <=> EndedWell(n)
    BY <1>1 DEF EndedWell
  <2> QED
    BY <1>1, <1>3, <1>6, <1>8, <1>9, <2>1 DEF IInv, MainInv
<1>11. NamesInv'
  BY <1>1, <1>2, <1>3, <1>6 DEF IInv, NamesInv
<1>12. SaveInv'
  BY <1>1, <1>3 DEF IInv, SaveInv, Messages
<1>13. HandleInv'
  <2>1. /\ handle' \in [cancelled : BOOLEAN, attached : BOOLEAN, due : BOOLEAN]
        /\ handle'.cancelled = handle.cancelled /\ handle'.due = handle.due
    BY <1>1 DEF IInv, HandleInv
  <2> QED
    BY <1>1, <1>2, <1>6, <2>1 DEF IInv, HandleInv, CancelReachesHub
<1>14. CallerInv' /\ FondInv'
  BY <1>1, MainMoves
<1>15. EndTold /\ DeadlockTold
  BY <1>1, SameEnds, CauseValues DEF DeadlockTold, Cancelled
<1> QED
  BY <1>4, <1>5, <1>10, <1>11, <1>12, <1>13, <1>14, <1>15 DEF IInv, SoundStep

(* One message leaves the queue: it is the first, the others keep their order. *)
LEMMA TailFacts ==
    ASSUME persistq \in Seq(Messages), persistq # <<>>
    PROVE  /\ Tail(persistq) \in Seq(Messages) /\ Head(persistq) \in Messages
           /\ Head(persistq) = persistq[1]
           /\ Len(persistq) \in Nat /\ Len(persistq) >= 1
           /\ Len(Tail(persistq)) = Len(persistq) - 1
           /\ \A i \in 1..Len(Tail(persistq)) : Tail(persistq)[i] = persistq[i + 1]
  OBVIOUS

(* The persister takes the next message: what the store holds stays true of the threads. *)
LEMMA SavePreserves ==
    ASSUME IInv, Save
    PROVE  SaveInv'
<1>1. /\ UNCHANGED <<graph, th>> /\ persistq # <<>> /\ persistq' = Tail(persistq)
      /\ \/ /\ Head(persistq).what = "failed" \/ ~graph.keepState
            /\ UNCHANGED <<saved, storeErr>>
         \/ /\ Head(persistq).what = "completed" /\ UNCHANGED storeErr
            /\ saved' = saved \union {Head(persistq).node}
         \/ storeErr' = TRUE /\ UNCHANGED saved
  BY DEF Save
<1>2. Nodes' = Nodes /\ Restored' = Restored /\ Messages' = Messages
  BY <1>1 DEF Nodes, Restored, Messages
<1>3. persistq \in Seq(Messages) /\ storeErr \in BOOLEAN
  BY DEF IInv, SaveInv
<1> DEFINE q == persistq
           r == Tail(persistq)
           m == Head(persistq)
<1>4. /\ r \in Seq(Messages) /\ m \in Messages /\ m = q[1]
      /\ Len(q) \in Nat /\ Len(q) >= 1 /\ Len(r) = Len(q) - 1
      /\ \A i \in 1..Len(r) : r[i] = q[i + 1]
  BY <1>1, <1>3, TailFacts
<1>5. m.node \in Nodes
  BY <1>4 DEF Messages
<1>6. /\ persistq' = r
      /\ \/ (m.what = "failed" \/ ~graph.keepState) /\ UNCHANGED <<saved, storeErr>>
         \/ m.what = "completed" /\ UNCHANGED storeErr /\ saved' = saved \union {m.node}
         \/ storeErr' = TRUE /\ UNCHANGED saved
  BY <1>1
<1>7. /\ Restored \subseteq saved /\ saved \subseteq Nodes \union Restored
      /\ \A n \in saved \ Restored : th[n].ending = "completed"
      /\ \A i \in 1..Len(q) : q[i].what = "completed" => th[q[i].node].ending = "completed"
      /\ (graph.checkpointed /\ graph.keepState /\ ~storeErr) =>
            \A n \in Nodes : th[n].ending = "completed" =>
                n \in saved \/ \E i \in 1..Len(q) : q[i] = Message("completed", n)
  BY DEF IInv, SaveInv
<1> HIDE DEF q, r, m
<1>8. \A i \in 1..Len(r) : i + 1 \in 1..Len(q)
  BY <1>4
<1>9. \A i \in 1..Len(r) : r[i].what = "completed" => th[r[i].node].ending = "completed"
  BY <1>4, <1>7, <1>8
<1>10. m.what = "completed" => th[m.node].ending = "completed"
  BY <1>4, <1>7
<1>11. /\ Restored \subseteq saved' /\ saved' \subseteq Nodes \union Restored
       /\ storeErr' \in BOOLEAN /\ (~storeErr' => ~storeErr) /\ saved \subseteq saved'
       /\ \A n \in saved' \ Restored : th[n].ending = "completed"
  BY <1>3, <1>5, <1>6, <1>7, <1>10
<1>12. ASSUME graph.checkpointed, graph.keepState, ~storeErr', NEW n \in Nodes, th[n].ending = "completed",
              n \notin saved'
       PROVE  \E i \in 1..Len(r) : r[i] = Message("completed", n)
  <2>1. \E i \in 1..Len(q) : q[i] = Message("completed", n)
    BY <1>7, <1>11, <1>12
  <2>2. PICK i \in 1..Len(q) : q[i] = Message("completed", n)
    BY <2>1
  <2>3. i # 1
    <3>1. SUFFICES ASSUME i = 1 PROVE FALSE
      OBVIOUS
    <3>2. m.what = "completed" /\ m.node = n
      BY <1>4, <2>2, <3>1 DEF Message
    <3> QED
      BY <1>6, <1>12, <3>2
  <2>4. i - 1 \in 1..Len(r) /\ r[i - 1] = q[i]
    BY <1>4, <2>3
  <2> QED
    BY <2>2, <2>4
<1>13. \A k \in Nodes : Message("completed", k)' = Message("completed", k)
  BY DEF Message
<1> QED
  BY <1>1, <1>2, <1>4, <1>6, <1>9, <1>11, <1>12, <1>13 DEF SaveInv

(* The persister writes what it is handed; a save that fails cancels the run. *)
LEMMA SaveIsSound ==
    ASSUME IInv, Save, UNCHANGED bgvars
    PROVE  SoundStep
<1>1. /\ UNCHANGED <<graph, th, main, handle, bgvars>>
      /\ main.pc = "run" /\ persistq # <<>>
      /\ UNCHANGED hub \/ hub' = CancelHub(hub, Failed(Head(persistq).node))
  BY DEF Save
<1>2. UNCHANGED <<fond, entry, timer, caller, told>>
  BY <1>1 DEF bgvars
<1>3. /\ Nodes' = Nodes /\ Chans' = Chans /\ Workers' = Workers /\ Restored' = Restored
      /\ (Live(graph)' <=> Live(graph)) /\ graph.valid /\ ~Launching /\ ~Launching'
  BY <1>1 DEF Nodes, Chans, Workers, Restored, Launching, Live, IInv, MainInv
<1>4. /\ HubOK(Chans, Workers, hub') /\ Detected(hub')
      /\ hub'.names = hub.names /\ hub'.senders = hub.senders /\ hub'.buf = hub.buf
      /\ hub'.waiting = hub.waiting
      /\ Cancelled(hub) => Cancelled(hub')
      /\ hub'.cancel = External <=> hub.cancel = External
      /\ hub'.cancel = Deadlock => Cancelled(hub)
  <2>1. HubOK(Chans, Workers, hub) /\ Detected(hub)
    BY DEF IInv, HubInv
  <2>2. CASE UNCHANGED hub
    BY <2>1, <2>2, CauseValues DEF Cancelled
  <2>3. CASE hub' = CancelHub(hub, Failed(Head(persistq).node))
    <3> DEFINE n == Head(persistq).node
               cause == Failed(n)
    <3>1. persistq \in Seq(Messages)
      BY DEF IInv, SaveInv
    <3>2. Head(persistq) \in Messages
      BY <1>1, <3>1, TailFacts
    <3>3. n \in Nodes
      BY <3>2 DEF Messages
    <3> HIDE DEF n
    <3>4. cause \in Causes(Workers) /\ cause # NotCancelled /\ cause # External /\ cause # Deadlock
      BY <3>3, CauseValues DEF Causes, Workers
    <3>5. hub' = CancelHub(hub, cause)
      BY <2>3 DEF n
    <3> HIDE DEF cause
    <3>6. /\ HubOK(Chans, Workers, hub') /\ Detected(hub') /\ Cancelled(hub')
          /\ hub'.names = hub.names /\ hub'.senders = hub.senders /\ hub'.buf = hub.buf
          /\ hub'.waiting = hub.waiting
          /\ hub'.cancel = IF Cancelled(hub) THEN hub.cancel ELSE cause
      BY <2>1, <3>4, <3>5, CancelHubFacts
    <3> QED
      BY <3>4, <3>6, CauseValues DEF Cancelled
  <2> QED
    BY <1>1, <2>2, <2>3
<1>5. HubInv'
  <2>1. Detected(hub)'
    BY <1>4
  <2> QED
    BY <1>3, <1>4, <2>1 DEF HubInv
<1>6. ThreadsInv'
  BY <1>1, <1>4, ThreadsStay DEF Ended
<1>7. MainInv'
  <2>1. main.result = "none"
    BY <1>1 DEF IInv, MainInv
  <2> QED
    BY <1>1, <1>3, <1>4, <2>1 DEF IInv, MainInv
<1>8. NamesInv'
  BY <1>1, <1>2, <1>4, NamesStay
<1>9. SaveInv'
  BY SavePreserves
<1>10. HandleInv'
  BY <1>1, <1>2, <1>4 DEF IInv, HandleInv, CancelReachesHub
<1>11. CallerInv' /\ FondInv'
  BY <1>1, <1>4, MainMoves
<1>12. EndTold /\ DeadlockTold
  BY <1>1, <1>4, SameEnds DEF DeadlockTold
<1> QED
  BY <1>5, <1>6, <1>7, <1>8, <1>9, <1>10, <1>11, <1>12 DEF IInv, SoundStep

(* A step that changes nothing. *)
LEMMA StutterIsSound ==
    ASSUME IInv, UNCHANGED vars
    PROVE  SoundStep
<1>1. UNCHANGED <<graph, hub, th, persistq, saved, storeErr, main, handle,
                  fond, entry, timer, caller, told>>
  BY DEF vars, runvars, bgvars
<1>2. OutMove("caller") /\ (hub'.cancel = Deadlock => Cancelled(hub))
  BY <1>1, QuietMove, CauseValues DEF Cancelled
<1>3. NamesInv' /\ HandleInv'
  BY <1>1, NamesStay, HandleStays
<1>4. CallerInv' /\ FondInv'
  BY <1>1 DEF IInv, CallerInv, FondInv
<1> QED
  BY <1>1, <1>2, <1>3, <1>4, OutsideIsSound

(* Every step keeps the invariant, tells no false end and no false deadlock. *)
LEMMA StepIsSound ==
    ASSUME IInv, [BgNext]_vars
    PROVE  SoundStep
<1>1. CASE MainStep /\ UNCHANGED bgvars
  BY <1>1, AttachIsSound, MountIsSound, StartIsSound, SaveIsSound, JoinIsSound DEF MainStep
<1>2. CASE FireCancel /\ UNCHANGED bgvars
  BY <1>2, FireCancelIsSound
<1>3. CASE (\E n \in Nodes : NodeStep(n)) /\ UNCHANGED bgvars
  BY <1>3, NodeStepIsSound
<1>4. CASE CancelRun /\ ~graph.spawned /\ UNCHANGED bgvars
  BY <1>4, CancelRunIsSound
<1>5. CASE FondStep
  BY <1>5, RefuseIsSound, FondCloseIsSound, FondPartIsSound, FondTailIsSound DEF FondStep
<1>6. CASE Cancel("requested")
  BY <1>6, CancelIsSound
<1>7. CASE TimerStep
  BY <1>7, TimerFiniIsSound, TimerCloseIsSound, TimerCancelIsSound, TimerPartIsSound
     DEF TimerStep
<1>8. CASE CallerStep
  BY <1>8, CallerBlockingIsSound, CallerTryIsSound, CallerNapIsSound, CallerWakeIsSound,
     CallerCloseIsSound DEF CallerStep
<1>9. CASE BgOver
  BY <1>9, StutterIsSound DEF BgOver
<1>10. CASE UNCHANGED vars
  BY <1>10, StutterIsSound
<1> QED
  BY <1>1, <1>2, <1>3, <1>4, <1>5, <1>6, <1>7, <1>8, <1>9, <1>10 DEF BgNext, RunStep

(* What spawn leaves is in the invariant. *)
LEMMA InitIsSound ==
    ASSUME BgInit
    PROVE  IInv
<1> DEFINE g == NewHub(Chans, Workers)
<1>1. /\ graph \in Graphs /\ hub = Register(g, LaunchWorkers(graph))
      /\ th = [n \in Nodes |-> [Thread(n) EXCEPT !.pc = "unborn"]]
      /\ persistq = <<>> /\ saved = Restored /\ storeErr = FALSE
      /\ main = [pc |-> "attach", result |-> "none"]
      /\ handle = [cancelled |-> FALSE, attached |-> FALSE, due |-> FALSE]
      /\ fond = "run"
      /\ entry = [present |-> graph.spawned, alive |-> graph.spawned, cause |-> NoCause]
      /\ timer = IF graph.timed THEN "armed" ELSE "gone"
      /\ caller = [pc |-> "idle", op |-> "none", sent |-> 0, done |-> {}]
      /\ told = [result |-> "none", cause |-> NoCause, times |-> 0]
  BY DEF BgInit, Chans, Workers, Nodes, Restored
<1>2. HubOK(Chans, Workers, g)
  <2>1. NotCancelled \in Causes(Workers) /\ NoWait \in Waits(Chans)
    BY DEF Causes, Waits
  <2>2. 0 \in 0..Capacity
    BY CapacityAssumption
  <2>3. g \in HubOf(Chans, Workers)
    BY <2>1, <2>2 DEF NewHub, HubOf
  <2> QED
    BY <2>3 DEF HubOK, NewHub
<1>3. /\ g.names = {} /\ g.senders = [c \in Chans |-> 1] /\ g.cancel = NotCancelled
      /\ g.waiting = [w \in Workers |-> NoWait]
  BY DEF NewHub
<1>4. LaunchWorkers(graph) \in SUBSET Workers
  BY DEF LaunchWorkers, Workers
<1> HIDE DEF g
<1>5. /\ HubOK(Chans, Workers, hub) /\ hub.names = LaunchWorkers(graph)
      /\ hub.senders = [c \in Chans |-> 1] /\ hub.cancel = NotCancelled
      /\ hub.waiting = [w \in Workers |-> NoWait]
  <2>1. /\ HubOK(Chans, Workers, hub) /\ hub.names = g.names \union LaunchWorkers(graph)
        /\ hub.senders = g.senders /\ hub.waiting = g.waiting /\ hub.cancel = g.cancel
    BY <1>1, <1>2, <1>4, RegisterFacts
  <2> QED
    BY <1>3, <2>1
<1>6. HubInv
  <2>1. Detected(hub)
    <3>1. CASE hub.names = {}
      BY <3>1 DEF Detected
    <3>2. CASE hub.names # {}
      <4>1. PICK w \in hub.names : TRUE
        BY <3>2
      <4>2. hub.waiting[w] = NoWait
        BY <1>4, <1>5, <4>1
      <4> QED
        BY <4>1, <4>2, UpIsDetected
    <3> QED
      BY <3>1, <3>2
  <2> QED
    BY <1>5, <2>1 DEF HubInv
<1>7. \A n \in Nodes : th[n].pc = "unborn" /\ th[n].ending = "none" /\ ThreadInv(n, th, hub)
  <2>1. SUFFICES ASSUME NEW n \in Nodes
                 PROVE  th[n].pc = "unborn" /\ th[n].ending = "none" /\ ThreadInv(n, th, hub)
    OBVIOUS
  <2> DEFINE t == Thread(n)
             u == th[n]
  <2>2. /\ DOMAIN t = ThreadFields /\ t.ending = "none" /\ t.eof = {}
        /\ t.start \subseteq Chans /\ t.closing \subseteq Chans
    BY ThreadFacts
  <2>3. u = [t EXCEPT !.pc = "unborn"]
    BY <1>1
  <2> HIDE DEF t, u
  <2>4. /\ DOMAIN u = ThreadFields /\ u.pc = "unborn" /\ u.ending = "none" /\ u.eof = {}
        /\ u.start = t.start /\ u.closing = t.closing
    BY <2>2, <2>3 DEF ThreadFields
  <2>5. ThreadType(n, u)
    BY <2>2, <2>4 DEF ThreadType, Threads, EndingsOf
  <2>6. WaitsWhere(n, u, hub) /\ Interrupted(u, hub)
    BY <1>5, <2>4 DEF WaitsWhere, Interrupted, Workers
  <2>7. Releases(n, u, hub)
    BY <1>5, <2>4 DEF Releases, Out, Chans
  <2>8. ReadWhole(n, th, hub)
    BY <2>4 DEF ReadWhole, u
  <2> QED
    BY <2>4, <2>5, <2>6, <2>7, <2>8 DEF ThreadInv, u
<1>8. ThreadsInv
  BY <1>1, <1>7 DEF ThreadsInv
<1>9. Launching /\ {graph.spawned, graph.timed, graph.valid} \subseteq BOOLEAN
      /\ "caller" \notin Nodes /\ "launch" \notin Nodes /\ "timer" \notin Nodes
  BY <1>1, GraphFacts DEF Launching
<1>10. MainInv
  BY <1>1, <1>5, <1>7, <1>9, CauseValues DEF MainInv
<1>11. NamesInv
  <2>1. hub.waiting["launch"] = NoWait /\ hub.waiting["timer"] = NoWait
    BY <1>5 DEF Workers
  <2> QED
    BY <1>1, <1>5, <1>7, <1>9, <2>1 DEF NamesInv, LaunchWorkers, Live
<1>12. SaveInv
  <2>1. persistq \in Seq(Messages) /\ 1..Len(persistq) = {}
    BY <1>1
  <2>2. storeErr \in BOOLEAN /\ saved \ Restored = {}
    BY <1>1
  <2>3. \A n \in Nodes : th[n].ending # "completed"
    BY <1>7
  <2> QED
    BY <1>1, <2>1, <2>2, <2>3 DEF SaveInv
<1>13. HandleInv
  BY <1>1, <1>5, CauseValues DEF HandleInv, CancelReachesHub
<1>14. CallerInv
  BY <1>1, <1>5 DEF CallerInv, Workers
<1>15. FondInv
  BY <1>1, <1>9 DEF FondInv
<1> QED
  BY <1>6, <1>8, <1>10, <1>11, <1>12, <1>13, <1>14, <1>15 DEF IInv

-----------------------------------------------------------------------------
(* What the invariant says                                                 *)

(* Nobody of the launch waits in the hub, and who waits is a live worker,
   unless the caller came after the run had ended. *)
LEMMA WaitersAreAlive ==
    ASSUME IInv, AllBlocked(hub), NEW w \in Waiting(hub)
    PROVE  w \in hub.names
<1>1. w \in Workers /\ hub.waiting[w] # NoWait /\ hub.names \subseteq Workers
  BY DEF Waiting, IInv, HubInv, HubOK, HubOf
<1>2. CASE w \in Nodes
  <2>1. WaitsWhere(w, th[w], hub)
    BY <1>2 DEF IInv, ThreadsInv, ThreadInv
  <2>2. th[w].pc \notin {"unborn", "done"}
    BY <1>1, <2>1 DEF WaitsWhere
  <2> QED
    BY <1>2, <2>2 DEF IInv, NamesInv
<1>3. CASE w = "caller"
  <2>1. SUFFICES ASSUME "caller" \notin hub.names PROVE FALSE
    BY <1>3
  <2>2. caller.pc # "idle"
    BY <1>1, <1>3 DEF IInv, CallerInv
  <2>3. Live(graph)
    BY <2>2 DEF IInv, CallerInv, Live
  <2>4. main.pc = "ended"
    BY <2>1, <2>3 DEF IInv, NamesInv, FondInv
  <2>5. \A n \in Nodes : th[n].pc \in {"unborn", "done"}
    BY <2>4 DEF IInv, MainInv, Launching
  <2>6. hub.names \subseteq {"launch", "timer"}
    BY <1>1, <2>1, <2>4, <2>5 DEF IInv, NamesInv, Workers
  <2>7. PICK v \in hub.names : TRUE
    BY DEF AllBlocked
  <2>8. hub.waiting[v] = NoWait
    BY <2>6, <2>7 DEF IInv, NamesInv
  <2> QED
    BY <2>7, <2>8, UpIsNotBlocked DEF AllBlocked
<1>4. CASE w \in {"launch", "timer"}
  BY <1>1, <1>4 DEF IInv, NamesInv
<1> QED
  BY <1>1, <1>2, <1>3, <1>4 DEF Workers

(* A wait that is blocked and yet passes for servable has half of its inputs ended. *)
LEMMA BlockedButServable ==
    ASSUME NEW h, NEW w, Blocked(h, w), Servable(h, w)
    PROVE  HalfEnded(h, w)
  BY DEF Blocked, Servable, HalfEnded

(* All are blocked and nothing was declared: the wait the detector took for servable is
   half ended. *)
LEMMA MissedIsHalfEnded ==
    ASSUME IInv
    PROVE  MissedOnlyHalfEnded
<1>1. SUFFICES ASSUME ~Cancelled(hub), AllBlocked(hub)
               PROVE  \E w \in hub.names : HalfEnded(hub, w)
  BY DEF MissedOnlyHalfEnded
<1>2. hub.names # {} /\ hub.names \subseteq Waiting(hub)
  BY <1>1, UpIsNotBlocked DEF AllBlocked, IInv, HubInv, HubOK
<1>3. PICK w \in Waiting(hub) : Servable(hub, w)
  BY <1>1, <1>2 DEF IInv, HubInv, Detected
<1>4. w \in hub.names
  BY <1>1, <1>3, WaitersAreAlive
<1>5. Blocked(hub, w)
  BY <1>1, <1>4 DEF AllBlocked
<1> QED
  BY <1>3, <1>4, <1>5, BlockedButServable

(* The parts of OutcomesAreTrue are parts of the invariant. *)
LEMMA OutcomesFollow ==
    ASSUME IInv
    PROVE  OutcomesAreTrue
<1>1. TruncatedNeverCompletes
  <2>1. SUFFICES ASSUME NEW n \in Nodes, NEW c \in WholeChans(n),
                        th[n].ending = "completed", n \notin DOMAIN graph.restored
                 PROVE  /\ hub.senders[c] = 0
                        /\ Edge(c).src \in Nodes => Ended(hub, c) /\ EndedWell(Edge(c).src)
    BY DEF TruncatedNeverCompletes
  <2>2. ReadWhole(n, th, hub)
    BY DEF IInv, ThreadsInv, ThreadInv
  <2>3. Closed(hub, c) /\ (Edge(c).src \in Nodes => Well(th, Edge(c).src))
    BY <2>1, <2>2 DEF ReadWhole, Restored
  <2> QED
    BY <2>3 DEF Closed, Well, Ended, EndedWell
<1>2. OkMeansAllEndedWell
  BY DEF OkMeansAllEndedWell, IInv, MainInv
<1> QED
  BY <1>1, <1>2 DEF OutcomesAreTrue

(* Once the run has ended the queue is empty: the store holds what completed. *)
LEMMA SavedFollows ==
    ASSUME IInv
    PROVE  SavedExactly
<1>1. SavedMeansCompleted
  BY DEF SavedMeansCompleted, IInv, SaveInv, Restored
<1>2. CompletedIsSaved
  <2>1. SUFFICES ASSUME main.pc = "ended", graph.checkpointed, graph.keepState, ~storeErr,
                        NEW n \in Nodes, th[n].ending = "completed"
                 PROVE  n \in saved
    BY DEF CompletedIsSaved, Endings
  <2>2. ThreadType(n, th[n])
    BY DEF IInv, ThreadsInv, ThreadInv
  <2>3. th[n].pc # "unborn"
    BY <2>1, <2>2 DEF ThreadType
  <2>4. graph.valid
    BY <2>3 DEF IInv, MainInv, Launching
  <2>5. persistq = <<>>
    BY <2>1, <2>4 DEF IInv, MainInv
  <2>6. 1..Len(persistq) = {}
    BY <2>5
  <2> QED
    BY <2>1, <2>6 DEF IInv, SaveInv
<1> QED
  BY <1>1, <1>2 DEF SavedExactly

(* The parts of StopIsSound. *)
LEMMA StopFollows ==
    ASSUME IInv
    PROVE  StopIsSound
<1>1. TypeOK
  <2>1. hub \in HubOf(Chans, Workers) /\ hub.asleep \subseteq Waiting(hub)
    BY DEF IInv, HubInv, HubOK
  <2>2. \A c \in DOMAIN graph.chan :
           hub.buf[c] \in 0..Capacity /\ hub.senders[c] \in 0..1 /\ hub.receivers[c] \in 0..1
    BY <2>1 DEF HubOf, Chans
  <2>3. \A n \in Nodes : th[n].pc \in Threads /\ th[n].ending \in EndingsOf
    BY DEF IInv, ThreadsInv, ThreadInv, ThreadType
  <2>4. RunTypeOK
    BY <2>1, <2>2, <2>3 DEF RunTypeOK, IInv, MainInv
  <2> QED
    BY <2>4 DEF TypeOK, IInv, FondInv, CallerInv
<1>2. CancelReachesHub
  BY DEF IInv, HandleInv
<1>3. StopIsExplained
  BY DEF StopIsExplained, IInv, FondInv
<1>4. HubIsLeftEmpty
  <2>1. SUFFICES ASSUME fond = "gone", timer = "gone", graph.valid PROVE hub.names = {}
    BY DEF HubIsLeftEmpty
  <2>2. main.pc = "ended"
    BY <2>1 DEF IInv, FondInv
  <2>3. ~Launching /\ \A n \in Nodes : th[n].pc = "done"
    BY <2>1, <2>2 DEF IInv, MainInv, Launching
  <2>4. hub.names \subseteq Workers
    BY DEF IInv, HubInv, HubOK, HubOf
  <2> QED
    BY <2>1, <2>2, <2>3, <2>4 DEF IInv, NamesInv, Workers
<1> QED
  BY <1>1, <1>2, <1>3, <1>4 DEF StopIsSound

(* The declaration of a deadlock: the launch is over, so everybody who can act is signed in,
   and the timer, which never waits, is not. *)
LEMMA DeadlockFollows ==
    ASSUME IInv, SoundStep, hub'.cancel = Deadlock, ~Cancelled(hub), UNCHANGED graph
    PROVE  /\ Actors' \subseteq hub'.names
           /\ \A w \in hub'.names : Blocked(hub', w) \/ hub'.waiting[w] = NoWait
           /\ Cardinality({w \in hub'.names : hub'.waiting[w] = NoWait}) <= 1
           /\ graph.liveIn = 0 \/ timer' = "gone"
<1>1. IInv' /\ DeadlockTold
  BY DEF SoundStep
<1>2. PICK u \in Workers :
         /\ hub'.waiting[u] = NoWait /\ \A v \in hub'.names \ {u} : Blocked(hub', v)
         /\ u \in {"launch", "timer"} => u \notin hub'.names
  BY <1>1 DEF DeadlockTold
<1>3. MainInv' /\ NamesInv'
  BY <1>1 DEF IInv
<1>4. ~Launching'
  BY <1>3 DEF MainInv
<1>5. Actors' \subseteq hub'.names
  BY <1>3, <1>4 DEF Actors, MainInv, NamesInv, Launching
<1>6. {w \in hub'.names : hub'.waiting[w] = NoWait} \subseteq {u}
  BY <1>2, UpIsNotBlocked
<1>7. Cardinality({w \in hub'.names : hub'.waiting[w] = NoWait}) <= 1
  <2> DEFINE S == {w \in hub'.names : hub'.waiting[w] = NoWait}
  <2>1. IsFiniteSet({u}) /\ Cardinality({u}) = 1
    BY FS_Singleton
  <2> HIDE DEF S
  <2>2. S \subseteq {u}
    BY <1>6 DEF S
  <2>3. Cardinality(S) <= Cardinality({u})
    BY <2>1, <2>2, FS_Subset
  <2> QED
    BY <2>1, <2>3 DEF S
<1>8. graph.liveIn = 0 \/ timer' = "gone"
  <2>1. SUFFICES ASSUME "timer" \in hub'.names PROVE FALSE
    BY <1>3 DEF NamesInv
  <2>2. hub'.waiting["timer"] = NoWait
    BY <1>3 DEF NamesInv
  <2> QED
    BY <1>2, <2>1, <2>2, UpIsNotBlocked
<1> QED
  BY <1>2, <1>5, <1>7, <1>8

-----------------------------------------------------------------------------
(* The theorems                                                            *)

(* The graph of a run never changes. *)
LEMMA GraphStays ==
    ASSUME [BgNext]_vars
    PROVE  UNCHANGED graph
<1>1. ASSUME NEW n \in Nodes, NodeStep(n) PROVE UNCHANGED graph
  <2>1. CASE Scan(n) \/ Await(n) \/ Context(n)
    BY <2>1 DEF Scan, Await, Context
  <2>2. CASE \E p \in InPorts(n) : TakePending(n, p) \/ Next_(n, {p}) \/ CloseInput(n, p)
    BY <2>2 DEF TakePending, Next_, CloseInput
  <2>3. CASE Next_(n, th[n].bound)
    BY <2>3 DEF Next_
  <2>4. CASE \E p \in OutPorts(n) : Emit(n, p) \/ SendOutput(n, p)
    BY <2>4 DEF Emit, SendOutput
  <2>5. CASE CloseStep(n) \/ Return(n) \/ Panic(n) \/ Fail(n) \/ Complete(n)
    BY <2>5 DEF CloseStep, Return, Panic, Fail, Complete
  <2>6. CASE Finish(n) \/ Leave(n) \/ DropInputs(n) \/ Replay(n)
    BY <2>6 DEF Finish, Leave, DropInputs, Replay
  <2> QED
    BY <1>1, <2>1, <2>2, <2>3, <2>4, <2>5, <2>6 DEF NodeStep
<1>2. CASE MainStep \/ FireCancel \/ CancelRun
  BY <1>2 DEF MainStep, Attach, Mount, Start, Save, Join, FireCancel, CancelRun
<1>3. CASE FondStep
  BY <1>3 DEF FondStep, Refuse, FondClose, FondPart, FondCause, FondTell, FondDone, FondRemove,
              UnchangedRun
<1>4. CASE Cancel("requested") \/ TimerStep
  BY <1>4 DEF Cancel, TimerStep, TimerFini, TimerClose, TimerCancel, TimerPart, UnchangedRun
<1>5. CASE CallerStep
  BY <1>5 DEF CallerStep, CallerBlocking, CallerTry, CallerNap, CallerWake, CallerClose,
              UnchangedRun
<1>6. CASE BgOver \/ UNCHANGED vars
  BY <1>6 DEF BgOver, vars, runvars
<1> QED
  BY <1>1, <1>2, <1>3, <1>4, <1>5, <1>6 DEF BgNext, RunStep

(* The specification without its fairness. *)
LEMMA Launched ==
    BgSpec => BgInit /\ [][BgNext]_vars
  BY PTL DEF BgSpec

(* Every state of a run, in the foreground or launched, is in the invariant. *)
THEOREM Invariance == BgSpec => []IInv
<1>1. IInv /\ [BgNext]_vars => IInv'
  BY StepIsSound DEF SoundStep
<1> QED
  BY <1>1, InitIsSound, Launched, PTL

(* detect_deadlock, called at each wait and at each departure, misses a deadlock in one
   case only: somebody waits on several channels of which one has ended. *)
THEOREM DetectorMissesOnlyHalfEnded == BgSpec => []MissedOnlyHalfEnded
  BY Invariance, MissedIsHalfEnded, PTL

(* A node that completes has read its whole inputs to an end its producers came to, and a
   run returns ok only when every node completed or was skipped. *)
THEOREM OutcomesTrue == BgSpec => []OutcomesAreTrue
  BY Invariance, OutcomesFollow, PTL

(* The store holds a node as completed exactly when it completed, once the run has ended
   without a store error. *)
THEOREM StoreHoldsWhatCompleted == BgSpec => []SavedExactly
  BY Invariance, SavedFollows, PTL

(* A cancel that was asked for reaches the hub of a run in progress, whenever it comes; a
   stopped run tells the first cause, and nobody is left in the hub of a run that is over. *)
THEOREM StopGoesThrough == BgSpec => []StopIsSound
  BY Invariance, StopFollows, PTL

(* What the hub tells those who wait is true: a deadlock is declared only when it is one,
   the caller and the timer counted, and an end is read only when its producers came to
   theirs. *)
THEOREM HubTellsTheTruth == BgSpec => WaitersAreToldTheTruth
<1> DEFINE Told == hub'.cancel = Deadlock /\ ~Cancelled(hub)
           A == Told =>
                  /\ Actors' \subseteq hub'.names
                  /\ \A w \in hub'.names : Blocked(hub', w) \/ hub'.waiting[w] = NoWait
                  /\ Cardinality({w \in hub'.names : hub'.waiting[w] = NoWait}) <= 1
           B == Told => graph.liveIn = 0 \/ timer' = "gone"
<1>1. IInv /\ [BgNext]_vars => [A]_runvars
  BY GraphStays, StepIsSound, DeadlockFollows
<1>2. IInv /\ [BgNext]_vars => [B]_vars
  BY GraphStays, StepIsSound, DeadlockFollows
<1>3. IInv /\ [BgNext]_vars => [EndTold]_runvars
  BY StepIsSound DEF SoundStep
<1> QED
  BY Invariance, Launched, <1>1, <1>2, <1>3, PTL
     DEF WaitersAreToldTheTruth, DeadlockIsReal, NoDeadlockBeforeTimer, EndIsTrue, EndTold
=============================================================================
