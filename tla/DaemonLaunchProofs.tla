------------------------- MODULE DaemonLaunchProofs -------------------------
(***************************************************************************)
(* LaunchIsSound for any number of clients and hosts, and any number of    *)
(* stops and deaths.                                                       *)
(***************************************************************************)
EXTENDS DaemonLaunch, TLAPS

ClientPc == {"idle", "probe", "lock", "reprobe", "remove", "spawn", "poll", "attached"}
HostPc == {"dead", "look", "check", "bind", "write", "serve", "stopping", "leaving", "unlink"}

(* The types of the whole state. *)
Typed ==
    /\ freePort \in BOOLEAN /\ orphaned \in BOOLEAN /\ byHand \in Nat
    /\ file \in Host \union {Nobody} /\ port \in Host \union {Nobody}
    /\ lock \in Client \union {Nobody}
    /\ client \in [Client -> [pc : ClientPc, seen : Host \union {Nobody},
                              child : Host \union {Nobody}]]
    /\ host \in [Host -> [pc : HostPc, seen : Host \union {Nobody}]]

(* The hosts before they listen, and those that hold the port. *)
Starting(h) == host[h].pc \in {"look", "check", "bind", "write"}
Bound(h) == host[h].pc \in {"write", "serve", "stopping", "leaving", "unlink"}

(* The fixed port has one holder. *)
PortIsHeld == ~freePort => \A h \in Host : Bound(h) => port = h

(* Nobody started a host by hand and no launch was left alone. *)
Usual == ~freePort /\ byHand = 0 /\ ~orphaned

(* A host that starts is the child of a client that waits for it. *)
StartIsWatched ==
    Usual => \A h \in Host : Starting(h) => \E c \in Client : At(c, "poll") /\ client[c].child = h

(* What a client learns under the lock stays true: the host it probes is   *)
(* the only one that can serve, and once it was silent none serves.        *)
ProbeIsTrue ==
    Usual => \A c \in Client : \A h \in Host :
        Serving(h) => /\ At(c, "reprobe") => client[c].seen = h
                      /\ client[c].pc \notin {"remove", "spawn"}

(* The inductive invariant. *)
IInv ==
    /\ Typed
    /\ OneLaunch
    /\ PortIsHeld
    /\ StartIsWatched
    /\ ProbeIsTrue
    /\ ServingHostIsListed

-----------------------------------------------------------------------------
(* Every step keeps the types. *)
LEMMA StepTyped == IInv /\ Next => Typed'
<1> SUFFICES ASSUME IInv, Next PROVE Typed'
  OBVIOUS
<1> USE NobodyAssumption DEF IInv, Typed, At, HostAt, ClientPc, HostPc
<1>1. ASSUME NEW c \in Client, EnsureRead(c) PROVE Typed'
  BY <1>1 DEF EnsureRead
<1>2. ASSUME NEW c \in Client, EnsureProbe(c) PROVE Typed'
  BY <1>2 DEF EnsureProbe, Attach, Go
<1>3. ASSUME NEW c \in Client, TakeLock(c) PROVE Typed'
  BY <1>3 DEF TakeLock
<1>4. ASSUME NEW c \in Client, Reprobe(c) PROVE Typed'
  BY <1>4 DEF Reprobe, Attach, Go
<1>5. ASSUME NEW c \in Client, RemoveStale(c) PROVE Typed'
  BY <1>5 DEF RemoveStale, Go
<1>6. ASSUME NEW c \in Client, Spawn(c) PROVE Typed'
  BY <1>6 DEF Spawn, Children
<1>7. ASSUME NEW c \in Client, Poll(c) PROVE Typed'
  BY <1>7 DEF Poll, Attach, GiveUp, Idle
<1>8. ASSUME NEW c \in Client, Lose(c) PROVE Typed'
  BY <1>8 DEF Lose, GiveUp, Idle
<1>9. ASSUME NEW c \in Client, LaunchWait(c) PROVE Typed'
  BY <1>9 DEF LaunchWait, GiveUp, Idle, Free, Dead
<1>10. ASSUME NEW c \in Client, ClientDies(c) PROVE Typed'
  BY <1>10 DEF ClientDies, GiveUp, Idle
<1>11. ASSUME NEW h \in Host, HostLook(h) PROVE Typed'
  BY <1>11 DEF HostLook
<1>12. ASSUME NEW h \in Host, HostCheck(h) PROVE Typed'
  BY <1>12 DEF HostCheck, Exit, Free, Dead, HostGo
<1>13. ASSUME NEW h \in Host, HostBind(h) PROVE Typed'
  BY <1>13 DEF HostBind, Exit, Free, Dead, HostGo
<1>14. ASSUME NEW h \in Host, HostWrite(h) PROVE Typed'
  BY <1>14 DEF HostWrite, HostGo
<1>15. ASSUME NEW h \in Host, Close(h) PROVE Typed'
  BY <1>15 DEF Close, HostGo
<1>16. ASSUME NEW h \in Host, LeaveRead(h) PROVE Typed'
  BY <1>16 DEF LeaveRead, HostGo, Exit, Free, Dead
<1>17. ASSUME NEW h \in Host, LeaveRemove(h) PROVE Typed'
  BY <1>17 DEF LeaveRemove, Exit, Free, Dead
<1>18. ASSUME NEW h \in Host, StartByHand(h) PROVE Typed'
  BY <1>18 DEF StartByHand, HostGo
<1>19. ASSUME NEW h \in Host, Stop(h) PROVE Typed'
  BY <1>19 DEF Stop, HostGo
<1>20. ASSUME NEW h \in Host, IdleStop(h) PROVE Typed'
  BY <1>20 DEF IdleStop, HostGo
<1>21. ASSUME NEW h \in Host, HostDies(h) PROVE Typed'
  BY <1>21 DEF HostDies, Exit, Free, Dead
<1>22. ASSUME NEW c \in Client, LaunchFails(c) PROVE Typed'
  BY <1>22 DEF LaunchFails, GiveUp, Idle
<1> QED
  BY <1>1, <1>2, <1>3, <1>4, <1>5, <1>6, <1>7, <1>8, <1>9, <1>10, <1>11, <1>12, <1>13, <1>14, <1>15, <1>16, <1>17, <1>18, <1>19, <1>20, <1>21, <1>22 DEF Next, ClientStep, HostStep

(* Every step keeps the lock with the one who launches. *)
LEMMA StepOneLaunch == IInv /\ Next => OneLaunch'
<1> SUFFICES ASSUME IInv, Next PROVE OneLaunch'
  OBVIOUS
<1> USE NobodyAssumption DEF IInv, Typed, At, HostAt, ClientPc, HostPc, OneLaunch
<1>1. ASSUME NEW c \in Client, EnsureRead(c) PROVE OneLaunch'
  BY <1>1 DEF EnsureRead
<1>2. ASSUME NEW c \in Client, EnsureProbe(c) PROVE OneLaunch'
  BY <1>2 DEF EnsureProbe, Attach, Go
<1>3. ASSUME NEW c \in Client, TakeLock(c) PROVE OneLaunch'
  BY <1>3 DEF TakeLock
<1>4. ASSUME NEW c \in Client, Reprobe(c) PROVE OneLaunch'
  BY <1>4 DEF Reprobe, Attach, Go
<1>5. ASSUME NEW c \in Client, RemoveStale(c) PROVE OneLaunch'
  BY <1>5 DEF RemoveStale, Go
<1>6. ASSUME NEW c \in Client, Spawn(c) PROVE OneLaunch'
  BY <1>6 DEF Spawn, Children
<1>7. ASSUME NEW c \in Client, Poll(c) PROVE OneLaunch'
  BY <1>7 DEF Poll, Attach, GiveUp, Idle
<1>8. ASSUME NEW c \in Client, Lose(c) PROVE OneLaunch'
  BY <1>8 DEF Lose, GiveUp, Idle
<1>9. ASSUME NEW c \in Client, LaunchWait(c) PROVE OneLaunch'
  BY <1>9 DEF LaunchWait, GiveUp, Idle, Free, Dead
<1>10. ASSUME NEW c \in Client, ClientDies(c) PROVE OneLaunch'
  BY <1>10 DEF ClientDies, GiveUp, Idle
<1>11. ASSUME NEW h \in Host, HostLook(h) PROVE OneLaunch'
  BY <1>11 DEF HostLook
<1>12. ASSUME NEW h \in Host, HostCheck(h) PROVE OneLaunch'
  BY <1>12 DEF HostCheck, Exit, Free, Dead, HostGo
<1>13. ASSUME NEW h \in Host, HostBind(h) PROVE OneLaunch'
  BY <1>13 DEF HostBind, Exit, Free, Dead, HostGo
<1>14. ASSUME NEW h \in Host, HostWrite(h) PROVE OneLaunch'
  BY <1>14 DEF HostWrite, HostGo
<1>15. ASSUME NEW h \in Host, Close(h) PROVE OneLaunch'
  BY <1>15 DEF Close, HostGo
<1>16. ASSUME NEW h \in Host, LeaveRead(h) PROVE OneLaunch'
  BY <1>16 DEF LeaveRead, HostGo, Exit, Free, Dead
<1>17. ASSUME NEW h \in Host, LeaveRemove(h) PROVE OneLaunch'
  BY <1>17 DEF LeaveRemove, Exit, Free, Dead
<1>18. ASSUME NEW h \in Host, StartByHand(h) PROVE OneLaunch'
  BY <1>18 DEF StartByHand, HostGo
<1>19. ASSUME NEW h \in Host, Stop(h) PROVE OneLaunch'
  BY <1>19 DEF Stop, HostGo
<1>20. ASSUME NEW h \in Host, IdleStop(h) PROVE OneLaunch'
  BY <1>20 DEF IdleStop, HostGo
<1>21. ASSUME NEW h \in Host, HostDies(h) PROVE OneLaunch'
  BY <1>21 DEF HostDies, Exit, Free, Dead
<1>22. ASSUME NEW c \in Client, LaunchFails(c) PROVE OneLaunch'
  BY <1>22 DEF LaunchFails, GiveUp, Idle
<1> QED
  BY <1>1, <1>2, <1>3, <1>4, <1>5, <1>6, <1>7, <1>8, <1>9, <1>10, <1>11, <1>12, <1>13, <1>14, <1>15, <1>16, <1>17, <1>18, <1>19, <1>20, <1>21, <1>22 DEF Next, ClientStep, HostStep

(* Every step keeps the port with its host. *)
LEMMA StepPort == IInv /\ Next => PortIsHeld'
<1> SUFFICES ASSUME IInv, Next PROVE PortIsHeld'
  OBVIOUS
<1> USE NobodyAssumption DEF IInv, Typed, At, HostAt, ClientPc, HostPc, PortIsHeld, Bound
<1>1. ASSUME NEW c \in Client, EnsureRead(c) PROVE PortIsHeld'
  BY <1>1 DEF EnsureRead
<1>2. ASSUME NEW c \in Client, EnsureProbe(c) PROVE PortIsHeld'
  BY <1>2 DEF EnsureProbe, Attach, Go
<1>3. ASSUME NEW c \in Client, TakeLock(c) PROVE PortIsHeld'
  BY <1>3 DEF TakeLock
<1>4. ASSUME NEW c \in Client, Reprobe(c) PROVE PortIsHeld'
  BY <1>4 DEF Reprobe, Attach, Go
<1>5. ASSUME NEW c \in Client, RemoveStale(c) PROVE PortIsHeld'
  BY <1>5 DEF RemoveStale, Go
<1>6. ASSUME NEW c \in Client, Spawn(c) PROVE PortIsHeld'
  BY <1>6 DEF Spawn, Children
<1>7. ASSUME NEW c \in Client, Poll(c) PROVE PortIsHeld'
  BY <1>7 DEF Poll, Attach, GiveUp, Idle
<1>8. ASSUME NEW c \in Client, Lose(c) PROVE PortIsHeld'
  BY <1>8 DEF Lose, GiveUp, Idle
<1>9. ASSUME NEW c \in Client, LaunchWait(c) PROVE PortIsHeld'
  BY <1>9 DEF LaunchWait, GiveUp, Idle, Free, Dead
<1>10. ASSUME NEW c \in Client, ClientDies(c) PROVE PortIsHeld'
  BY <1>10 DEF ClientDies, GiveUp, Idle
<1>11. ASSUME NEW h \in Host, HostLook(h) PROVE PortIsHeld'
  BY <1>11 DEF HostLook
<1>12. ASSUME NEW h \in Host, HostCheck(h) PROVE PortIsHeld'
  BY <1>12 DEF HostCheck, Exit, Free, Dead, HostGo
<1>13. ASSUME NEW h \in Host, HostBind(h) PROVE PortIsHeld'
  BY <1>13 DEF HostBind, Exit, Free, Dead, HostGo
<1>14. ASSUME NEW h \in Host, HostWrite(h) PROVE PortIsHeld'
  BY <1>14 DEF HostWrite, HostGo
<1>15. ASSUME NEW h \in Host, Close(h) PROVE PortIsHeld'
  BY <1>15 DEF Close, HostGo
<1>16. ASSUME NEW h \in Host, LeaveRead(h) PROVE PortIsHeld'
  BY <1>16 DEF LeaveRead, HostGo, Exit, Free, Dead
<1>17. ASSUME NEW h \in Host, LeaveRemove(h) PROVE PortIsHeld'
  BY <1>17 DEF LeaveRemove, Exit, Free, Dead
<1>18. ASSUME NEW h \in Host, StartByHand(h) PROVE PortIsHeld'
  BY <1>18 DEF StartByHand, HostGo
<1>19. ASSUME NEW h \in Host, Stop(h) PROVE PortIsHeld'
  BY <1>19 DEF Stop, HostGo
<1>20. ASSUME NEW h \in Host, IdleStop(h) PROVE PortIsHeld'
  BY <1>20 DEF IdleStop, HostGo
<1>21. ASSUME NEW h \in Host, HostDies(h) PROVE PortIsHeld'
  BY <1>21 DEF HostDies, Exit, Free, Dead
<1>22. ASSUME NEW c \in Client, LaunchFails(c) PROVE PortIsHeld'
  BY <1>22 DEF LaunchFails, GiveUp, Idle
<1> QED
  BY <1>1, <1>2, <1>3, <1>4, <1>5, <1>6, <1>7, <1>8, <1>9, <1>10, <1>11, <1>12, <1>13, <1>14, <1>15, <1>16, <1>17, <1>18, <1>19, <1>20, <1>21, <1>22 DEF Next, ClientStep, HostStep

(* A starting host stays watched. *)
LEMMA StepStart == IInv /\ Next => StartIsWatched'
<1> SUFFICES ASSUME IInv, Next PROVE StartIsWatched'
  OBVIOUS
<1> USE NobodyAssumption DEF IInv, Typed, At, HostAt, ClientPc, HostPc, StartIsWatched, Starting, Usual, OneLaunch, Answers, Serving, Alive
<1>1. ASSUME NEW c \in Client, EnsureRead(c) PROVE StartIsWatched'
  BY <1>1 DEF EnsureRead
<1>2. ASSUME NEW c \in Client, EnsureProbe(c) PROVE StartIsWatched'
  BY <1>2 DEF EnsureProbe, Attach, Go
<1>3. ASSUME NEW c \in Client, TakeLock(c) PROVE StartIsWatched'
  BY <1>3 DEF TakeLock
<1>4. ASSUME NEW c \in Client, Reprobe(c) PROVE StartIsWatched'
  BY <1>4 DEF Reprobe, Attach, Go
<1>5. ASSUME NEW c \in Client, RemoveStale(c) PROVE StartIsWatched'
  BY <1>5 DEF RemoveStale, Go
<1>6. ASSUME NEW c \in Client, Spawn(c) PROVE StartIsWatched'
  BY <1>6 DEF Spawn, Children
<1>7. ASSUME NEW c \in Client, Poll(c) PROVE StartIsWatched'
  BY <1>7 DEF Poll, Attach, GiveUp, Idle
<1>8. ASSUME NEW c \in Client, Lose(c) PROVE StartIsWatched'
  BY <1>8 DEF Lose, GiveUp, Idle
<1>9. ASSUME NEW c \in Client, LaunchWait(c) PROVE StartIsWatched'
  BY <1>9 DEF LaunchWait, GiveUp, Idle, Free, Dead
<1>10. ASSUME NEW c \in Client, ClientDies(c) PROVE StartIsWatched'
  BY <1>10 DEF ClientDies, GiveUp, Idle
<1>11. ASSUME NEW h \in Host, HostLook(h) PROVE StartIsWatched'
  BY <1>11 DEF HostLook
<1>12. ASSUME NEW h \in Host, HostCheck(h) PROVE StartIsWatched'
  BY <1>12 DEF HostCheck, Exit, Free, Dead, HostGo
<1>13. ASSUME NEW h \in Host, HostBind(h) PROVE StartIsWatched'
  BY <1>13 DEF HostBind, Exit, Free, Dead, HostGo
<1>14. ASSUME NEW h \in Host, HostWrite(h) PROVE StartIsWatched'
  BY <1>14 DEF HostWrite, HostGo
<1>15. ASSUME NEW h \in Host, Close(h) PROVE StartIsWatched'
  BY <1>15 DEF Close, HostGo
<1>16. ASSUME NEW h \in Host, LeaveRead(h) PROVE StartIsWatched'
  BY <1>16 DEF LeaveRead, HostGo, Exit, Free, Dead
<1>17. ASSUME NEW h \in Host, LeaveRemove(h) PROVE StartIsWatched'
  BY <1>17 DEF LeaveRemove, Exit, Free, Dead
<1>18. ASSUME NEW h \in Host, StartByHand(h) PROVE StartIsWatched'
  BY <1>18 DEF StartByHand, HostGo
<1>19. ASSUME NEW h \in Host, Stop(h) PROVE StartIsWatched'
  BY <1>19 DEF Stop, HostGo
<1>20. ASSUME NEW h \in Host, IdleStop(h) PROVE StartIsWatched'
  BY <1>20 DEF IdleStop, HostGo
<1>21. ASSUME NEW h \in Host, HostDies(h) PROVE StartIsWatched'
  BY <1>21 DEF HostDies, Exit, Free, Dead
<1>22. ASSUME NEW c \in Client, LaunchFails(c) PROVE StartIsWatched'
  BY <1>22 DEF LaunchFails, GiveUp, Idle
<1> QED
  BY <1>1, <1>2, <1>3, <1>4, <1>5, <1>6, <1>7, <1>8, <1>9, <1>10, <1>11, <1>12, <1>13, <1>14, <1>15, <1>16, <1>17, <1>18, <1>19, <1>20, <1>21, <1>22 DEF Next, ClientStep, HostStep

(* What was learned under the lock stays true. *)
LEMMA StepProbe == IInv /\ Next => ProbeIsTrue'
<1> SUFFICES ASSUME IInv, Next PROVE ProbeIsTrue'
  OBVIOUS
<1> USE NobodyAssumption DEF IInv, Typed, At, HostAt, ClientPc, HostPc, ProbeIsTrue, StartIsWatched, Starting, Usual, OneLaunch, Answers, Silent, Serving, ServingHostIsListed
<1>1. ASSUME NEW c \in Client, EnsureRead(c) PROVE ProbeIsTrue'
  BY <1>1 DEF EnsureRead
<1>2. ASSUME NEW c \in Client, EnsureProbe(c) PROVE ProbeIsTrue'
  BY <1>2 DEF EnsureProbe, Attach, Go
<1>3. ASSUME NEW c \in Client, TakeLock(c) PROVE ProbeIsTrue'
  BY <1>3 DEF TakeLock
<1>4. ASSUME NEW c \in Client, Reprobe(c) PROVE ProbeIsTrue'
  BY <1>4 DEF Reprobe, Attach, Go
<1>5. ASSUME NEW c \in Client, RemoveStale(c) PROVE ProbeIsTrue'
  BY <1>5 DEF RemoveStale, Go
<1>6. ASSUME NEW c \in Client, Spawn(c) PROVE ProbeIsTrue'
  BY <1>6 DEF Spawn, Children
<1>7. ASSUME NEW c \in Client, Poll(c) PROVE ProbeIsTrue'
  BY <1>7 DEF Poll, Attach, GiveUp, Idle
<1>8. ASSUME NEW c \in Client, Lose(c) PROVE ProbeIsTrue'
  BY <1>8 DEF Lose, GiveUp, Idle
<1>9. ASSUME NEW c \in Client, LaunchWait(c) PROVE ProbeIsTrue'
  BY <1>9 DEF LaunchWait, GiveUp, Idle, Free, Dead
<1>10. ASSUME NEW c \in Client, ClientDies(c) PROVE ProbeIsTrue'
  BY <1>10 DEF ClientDies, GiveUp, Idle
<1>11. ASSUME NEW h \in Host, HostLook(h) PROVE ProbeIsTrue'
  BY <1>11 DEF HostLook
<1>12. ASSUME NEW h \in Host, HostCheck(h) PROVE ProbeIsTrue'
  BY <1>12 DEF HostCheck, Exit, Free, Dead, HostGo
<1>13. ASSUME NEW h \in Host, HostBind(h) PROVE ProbeIsTrue'
  BY <1>13 DEF HostBind, Exit, Free, Dead, HostGo
<1>14. ASSUME NEW h \in Host, HostWrite(h) PROVE ProbeIsTrue'
  BY <1>14 DEF HostWrite, HostGo
<1>15. ASSUME NEW h \in Host, Close(h) PROVE ProbeIsTrue'
  BY <1>15 DEF Close, HostGo
<1>16. ASSUME NEW h \in Host, LeaveRead(h) PROVE ProbeIsTrue'
  <2>1. client' = client /\ UNCHANGED <<freePort, byHand, orphaned>>
    BY <1>16 DEF LeaveRead
  <2>2. \A g \in Host : Serving(g)' => Serving(g)
    <3>1. CASE file = h
      BY <1>16, <3>1 DEF LeaveRead, HostGo
    <3>2. CASE file # h
      BY <1>16, <3>2 DEF LeaveRead, Exit, Dead
    <3> QED
      BY <3>1, <3>2
  <2> QED
    BY <2>1, <2>2
<1>17. ASSUME NEW h \in Host, LeaveRemove(h) PROVE ProbeIsTrue'
  BY <1>17 DEF LeaveRemove, Exit, Free, Dead
<1>18. ASSUME NEW h \in Host, StartByHand(h) PROVE ProbeIsTrue'
  BY <1>18 DEF StartByHand, HostGo
<1>19. ASSUME NEW h \in Host, Stop(h) PROVE ProbeIsTrue'
  BY <1>19 DEF Stop, HostGo
<1>20. ASSUME NEW h \in Host, IdleStop(h) PROVE ProbeIsTrue'
  BY <1>20 DEF IdleStop, HostGo
<1>21. ASSUME NEW h \in Host, HostDies(h) PROVE ProbeIsTrue'
  BY <1>21 DEF HostDies, Exit, Free, Dead
<1>22. ASSUME NEW c \in Client, LaunchFails(c) PROVE ProbeIsTrue'
  BY <1>22 DEF LaunchFails, GiveUp, Idle
<1> QED
  BY <1>1, <1>2, <1>3, <1>4, <1>5, <1>6, <1>7, <1>8, <1>9, <1>10, <1>11, <1>12, <1>13, <1>14, <1>15, <1>16, <1>17, <1>18, <1>19, <1>20, <1>21, <1>22 DEF Next, ClientStep, HostStep

(* A serving host stays listed. *)
LEMMA StepListed == IInv /\ Next => ServingHostIsListed'
<1> SUFFICES ASSUME IInv, Next PROVE ServingHostIsListed'
  OBVIOUS
<1> USE NobodyAssumption DEF IInv, Typed, At, HostAt, ClientPc, HostPc, ProbeIsTrue, Usual, OneLaunch, Serving, ServingHostIsListed, PortIsHeld, Bound
<1>1. ASSUME NEW c \in Client, EnsureRead(c) PROVE ServingHostIsListed'
  BY <1>1 DEF EnsureRead
<1>2. ASSUME NEW c \in Client, EnsureProbe(c) PROVE ServingHostIsListed'
  BY <1>2 DEF EnsureProbe, Attach, Go
<1>3. ASSUME NEW c \in Client, TakeLock(c) PROVE ServingHostIsListed'
  BY <1>3 DEF TakeLock
<1>4. ASSUME NEW c \in Client, Reprobe(c) PROVE ServingHostIsListed'
  BY <1>4 DEF Reprobe, Attach, Go
<1>5. ASSUME NEW c \in Client, RemoveStale(c) PROVE ServingHostIsListed'
  BY <1>5 DEF RemoveStale, Go
<1>6. ASSUME NEW c \in Client, Spawn(c) PROVE ServingHostIsListed'
  BY <1>6 DEF Spawn, Children
<1>7. ASSUME NEW c \in Client, Poll(c) PROVE ServingHostIsListed'
  BY <1>7 DEF Poll, Attach, GiveUp, Idle
<1>8. ASSUME NEW c \in Client, Lose(c) PROVE ServingHostIsListed'
  BY <1>8 DEF Lose, GiveUp, Idle
<1>9. ASSUME NEW c \in Client, LaunchWait(c) PROVE ServingHostIsListed'
  BY <1>9 DEF LaunchWait, GiveUp, Idle, Free, Dead
<1>10. ASSUME NEW c \in Client, ClientDies(c) PROVE ServingHostIsListed'
  BY <1>10 DEF ClientDies, GiveUp, Idle
<1>11. ASSUME NEW h \in Host, HostLook(h) PROVE ServingHostIsListed'
  BY <1>11 DEF HostLook
<1>12. ASSUME NEW h \in Host, HostCheck(h) PROVE ServingHostIsListed'
  BY <1>12 DEF HostCheck, Exit, Free, Dead, HostGo
<1>13. ASSUME NEW h \in Host, HostBind(h) PROVE ServingHostIsListed'
  BY <1>13 DEF HostBind, Exit, Free, Dead, HostGo
<1>14. ASSUME NEW h \in Host, HostWrite(h) PROVE ServingHostIsListed'
  BY <1>14 DEF HostWrite, HostGo
<1>15. ASSUME NEW h \in Host, Close(h) PROVE ServingHostIsListed'
  BY <1>15 DEF Close, HostGo
<1>16. ASSUME NEW h \in Host, LeaveRead(h) PROVE ServingHostIsListed'
  BY <1>16 DEF LeaveRead, HostGo, Exit, Free, Dead
<1>17. ASSUME NEW h \in Host, LeaveRemove(h) PROVE ServingHostIsListed'
  BY <1>17 DEF LeaveRemove, Exit, Free, Dead
<1>18. ASSUME NEW h \in Host, StartByHand(h) PROVE ServingHostIsListed'
  BY <1>18 DEF StartByHand, HostGo
<1>19. ASSUME NEW h \in Host, Stop(h) PROVE ServingHostIsListed'
  BY <1>19 DEF Stop, HostGo
<1>20. ASSUME NEW h \in Host, IdleStop(h) PROVE ServingHostIsListed'
  BY <1>20 DEF IdleStop, HostGo
<1>21. ASSUME NEW h \in Host, HostDies(h) PROVE ServingHostIsListed'
  BY <1>21 DEF HostDies, Exit, Free, Dead
<1>22. ASSUME NEW c \in Client, LaunchFails(c) PROVE ServingHostIsListed'
  BY <1>22 DEF LaunchFails, GiveUp, Idle
<1> QED
  BY <1>1, <1>2, <1>3, <1>4, <1>5, <1>6, <1>7, <1>8, <1>9, <1>10, <1>11, <1>12, <1>13, <1>14, <1>15, <1>16, <1>17, <1>18, <1>19, <1>20, <1>21, <1>22 DEF Next, ClientStep, HostStep

(* The initial state, with a daemon.json of an earlier day or none. *)
LEMMA InitIInv == Init => IInv
<1> SUFFICES ASSUME Init PROVE IInv
  OBVIOUS
<1>1. Typed
  BY FreePortsAssumption DEF Init, Typed, ClientPc, HostPc, Idle, Dead
<1>2. /\ \A c \in Client : client[c].pc = "idle"
      /\ \A h \in Host : host[h].pc = "dead"
  BY DEF Init, Idle, Dead
<1> QED
  BY <1>1, <1>2 DEF IInv, OneLaunch, PortIsHeld, Bound, StartIsWatched, Starting,
                    ProbeIsTrue, ServingHostIsListed, Serving

(* The invariant is inductive. *)
LEMMA Invariance == Spec => []IInv
<1>1. IInv /\ [Next]_vars => IInv'
  <2> SUFFICES ASSUME IInv, [Next]_vars PROVE IInv'
    OBVIOUS
  <2>1. CASE Next
    BY <2>1, StepTyped, StepOneLaunch, StepPort, StepStart, StepProbe, StepListed DEF IInv
  <2>2. CASE UNCHANGED vars
    BY <2>2 DEF vars, IInv, Typed, OneLaunch, PortIsHeld, Bound, StartIsWatched, Starting,
                Usual, At, ProbeIsTrue, ServingHostIsListed, Serving
  <2> QED
    BY <2>1, <2>2
<1> QED
  BY <1>1, InitIInv, PTL DEF Spec

(* One client launches at a time, and nobody removes or replaces the       *)
(* daemon.json of a host that serves (ensure_locked, remove_if_mine),      *)
(* while hosts come from launches that were not abandoned and share a      *)
(* fixed port.                                                             *)
THEOREM LaunchIsSoundHolds == Spec => []LaunchIsSound
<1>1. IInv => LaunchIsSound
  BY DEF IInv, LaunchIsSound, Typed, TypeOK, ClientPc, HostPc
<1> QED
  BY <1>1, Invariance, PTL
=============================================================================
