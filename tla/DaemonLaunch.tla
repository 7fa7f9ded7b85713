---------------------------- MODULE DaemonLaunch ----------------------------
(***************************************************************************)
(* How clients find or launch the one host of the daemon                   *)
(* (extension/rag3weaver/src/daemon_lifecycle.rs ensure and ensure_locked, *)
(* daemon_client.rs try_attach and reprendre, and servir_le_demon of       *)
(* bin/rag3weaver-backend.rs).                                             *)
(*                                                                         *)
(* A host takes its port, writes daemon.json, serves, and removes the file *)
(* as it stops.  A client reads the file and probes the host it names;     *)
(* without an answer it launches one under the lock of daemon.lock.  The   *)
(* clients, the hosts and the file system are separate processes: each     *)
(* read, probe, removal and write is a step of its own.                    *)
(*                                                                         *)
(* GET /sante is sent without a timeout: a host that is about to serve is  *)
(* waited for, one that is stopping answers 503 or, dying, not at all.     *)
(* The systemd unit, under which a client only waits, is left out.         *)
(***************************************************************************)
EXTENDS Naturals, FiniteSets

CONSTANTS
    Client, Host,   \* processes; a host's identity is its pid
    Nobody,
    FreePorts,      \* values of: RAG3WEAVER_DAEMON_ADDRESS names port 0
    MaxByHand,      \* bound: hosts started by hand
    MaxStops,       \* bound: POST /arret and SIGTERM
    MaxKills        \* bound: processes that die without a word, launches that fail

ASSUME NobodyAssumption == Nobody \notin Host \union Client
ASSUME FreePortsAssumption == FreePorts \subseteq BOOLEAN

VARIABLES
    freePort,
    file,       \* daemon.json: the host it names
    lock,       \* the client that holds daemon.lock
    port,       \* the host that holds the fixed port
    client,     \* client[c]: [pc, seen, child]
    host,       \* host[h]: [pc, seen]
    byHand, stops, kills,
    orphaned    \* history: a client died in the middle of a launch

vars == <<freePort, file, lock, port, client, host, byHand, stops, kills, orphaned>>

Idle == [pc |-> "idle", seen |-> Nobody, child |-> Nobody]
Dead == [pc |-> "dead", seen |-> Nobody]

Alive(h) == host[h].pc # "dead"
Serving(h) == host[h].pc = "serve"

\* answers: a dead pid is no answer, nor is a host without its port; one that
\* serves answers with its own pid, one that stops refuses.
Answers(h) == h # Nobody /\ Serving(h)
Silent(h) == h # Nobody => host[h].pc \notin {"write", "serve"}

\* The child a living client launches and has not seen answer.
Children == {client[c].child : c \in Client} \ {Nobody}

-----------------------------------------------------------------------------
(* A client: ensure                                                        *)

At(c, pc) == client[c].pc = pc
Go(c, pc) == client' = [client EXCEPT ![c].pc = pc]
Attach(c, h) == client' = [client EXCEPT ![c] = [pc |-> "attached", seen |-> h, child |-> Nobody]]
GiveUp(c) == client' = [client EXCEPT ![c] = Idle]

\* try_attach, at the start or every RETRY_EVERY.
EnsureRead(c) ==
    /\ At(c, "idle")
    /\ client' = [client EXCEPT ![c] = [pc |-> "probe", seen |-> file, child |-> Nobody]]
    /\ UNCHANGED <<freePort, file, lock, port, host, byHand, stops, kills, orphaned>>

EnsureProbe(c) ==
    /\ At(c, "probe")
    /\ \/ Answers(client[c].seen) /\ Attach(c, client[c].seen)
       \/ Silent(client[c].seen) /\ Go(c, "lock")
    /\ UNCHANGED <<freePort, file, lock, port, host, byHand, stops, kills, orphaned>>

\* Under the lock the file is read again: another client may have launched.
\* Mutant: the lock is not waited for.
TakeLockAnyway(c) ==
    /\ At(c, "lock")
    /\ lock' = c
    /\ client' = [client EXCEPT ![c] = [pc |-> "reprobe", seen |-> file, child |-> Nobody]]
    /\ UNCHANGED <<freePort, file, port, host, byHand, stops, kills, orphaned>>
TakeLock(c) ==
    /\ At(c, "lock") /\ lock = Nobody
    /\ lock' = c
    /\ client' = [client EXCEPT ![c] = [pc |-> "reprobe", seen |-> file, child |-> Nobody]]
    /\ UNCHANGED <<freePort, file, port, host, byHand, stops, kills, orphaned>>

Reprobe(c) ==
    /\ At(c, "reprobe")
    /\ \/ Answers(client[c].seen) /\ Attach(c, client[c].seen) /\ lock' = Nobody
       \/ /\ Silent(client[c].seen)
          /\ Go(c, IF client[c].seen = Nobody THEN "spawn" ELSE "remove")
          /\ UNCHANGED lock
    /\ UNCHANGED <<freePort, file, port, host, byHand, stops, kills, orphaned>>

\* The stale file is removed, whatever it names by now.
RemoveStale(c) ==
    /\ At(c, "remove")
    /\ file' = Nobody
    /\ Go(c, "spawn")
    /\ UNCHANGED <<freePort, lock, port, host, byHand, stops, kills, orphaned>>

Spawn(c) ==
    /\ At(c, "spawn")
    /\ \E h \in Host \ Children :
          /\ host[h] = Dead /\ file # h
          /\ host' = [host EXCEPT ![h].pc = "look"]
          /\ client' = [client EXCEPT ![c] = [pc |-> "poll", seen |-> client[c].seen, child |-> h]]
    /\ UNCHANGED <<freePort, file, lock, port, byHand, stops, kills, orphaned>>

\* The directory, the lock file, the log or the process itself cannot be had: the
\* call fails, and the lock goes with its way out.
LaunchFails(c) ==
    /\ client[c].pc \in {"lock", "spawn"}
    /\ kills < MaxKills /\ kills' = kills + 1
    /\ lock' = IF lock = c THEN Nobody ELSE lock
    /\ GiveUp(c)
    /\ UNCHANGED <<freePort, file, port, host, byHand, stops, orphaned>>

\* The wait for the child ends with its answer, with its exit, or after
\* LAUNCH_WAIT, which kills it, be it about to answer.
\* Mutant: the way out of a failed launch keeps the lock.
PollKeepsLock(c) ==
    LET h == client[c].child IN
    /\ At(c, "poll")
    /\ \/ file = h /\ Answers(h) /\ Attach(c, h) /\ lock' = Nobody
       \/ ~Alive(h) /\ GiveUp(c) /\ UNCHANGED lock
    /\ UNCHANGED <<freePort, file, port, host, byHand, stops, kills, orphaned>>
Poll(c) ==
    LET h == client[c].child IN
    /\ At(c, "poll")
    /\ \/ file = h /\ Answers(h) /\ Attach(c, h)
       \/ ~Alive(h) /\ GiveUp(c)
    /\ lock' = Nobody
    /\ UNCHANGED <<freePort, file, port, host, byHand, stops, kills, orphaned>>

Free(h) == IF port = h THEN Nobody ELSE port

LaunchWait(c) ==
    LET h == client[c].child IN
    /\ At(c, "poll") /\ Alive(h)
    /\ kills < MaxKills /\ kills' = kills + 1
    /\ host' = [host EXCEPT ![h] = Dead] /\ port' = Free(h)
    /\ GiveUp(c) /\ lock' = Nobody
    /\ UNCHANGED <<freePort, file, byHand, stops, orphaned>>

\* The next call finds its host gone.
Lose(c) ==
    /\ At(c, "attached") /\ Silent(client[c].seen)
    /\ GiveUp(c)
    /\ UNCHANGED <<freePort, file, lock, port, host, byHand, stops, kills, orphaned>>

\* A client dies: its lock goes, the host it launched lives on; the next
\* session of its user starts afresh.
ClientDies(c) ==
    /\ ~At(c, "idle")
    /\ kills < MaxKills /\ kills' = kills + 1
    /\ lock' = IF lock = c THEN Nobody ELSE lock
    /\ orphaned' = (orphaned \/ At(c, "poll"))
    /\ GiveUp(c)
    /\ UNCHANGED <<freePort, file, port, host, byHand, stops>>

-----------------------------------------------------------------------------
(* A host: servir_le_demon                                                 *)

HostAt(h, pc) == host[h].pc = pc
HostGo(h, pc) == host' = [host EXCEPT ![h].pc = pc]
Exit(h) == host' = [host EXCEPT ![h] = Dead] /\ port' = Free(h)

StartByHand(h) ==
    /\ byHand < MaxByHand /\ byHand' = byHand + 1
    /\ host[h] = Dead /\ h \notin Children /\ file # h
    /\ HostGo(h, "look")
    /\ UNCHANGED <<freePort, file, lock, port, client, stops, kills, orphaned>>

HostLook(h) ==
    /\ HostAt(h, "look")
    /\ host' = [host EXCEPT ![h] = [pc |-> "check", seen |-> file]]
    /\ UNCHANGED <<freePort, file, lock, port, client, byHand, stops, kills, orphaned>>

\* Another host answers: one daemon only.
HostCheck(h) ==
    /\ HostAt(h, "check")
    /\ \/ Answers(host[h].seen) /\ Exit(h)
       \/ Silent(host[h].seen) /\ HostGo(h, "bind") /\ UNCHANGED port
    /\ UNCHANGED <<freePort, file, lock, client, byHand, stops, kills, orphaned>>

HostBind(h) ==
    /\ HostAt(h, "bind")
    /\ \/ freePort /\ HostGo(h, "write") /\ UNCHANGED port
       \/ ~freePort /\ port = Nobody /\ HostGo(h, "write") /\ port' = h
       \/ ~freePort /\ port # Nobody /\ Exit(h)
    /\ UNCHANGED <<freePort, file, lock, client, byHand, stops, kills, orphaned>>

HostWrite(h) ==
    /\ HostAt(h, "write")
    /\ file' = h
    /\ HostGo(h, "serve")
    /\ UNCHANGED <<freePort, lock, port, client, byHand, stops, kills, orphaned>>

\* Asked to stop, or no request for the idle delay: nobody is attached, and no
\* client is about to be (a launch takes seconds, the delay half an hour).
Wanted(h) == \E c \in Client : h \in {client[c].seen, client[c].child}
Stop(h) ==
    /\ HostAt(h, "serve")
    /\ stops < MaxStops /\ stops' = stops + 1
    /\ HostGo(h, "stopping")
    /\ UNCHANGED <<freePort, file, lock, port, client, byHand, kills, orphaned>>
IdleStop(h) ==
    /\ HostAt(h, "serve") /\ ~Wanted(h)
    /\ HostGo(h, "stopping")
    /\ UNCHANGED <<freePort, file, lock, port, client, byHand, stops, kills, orphaned>>

Close(h) ==
    /\ HostAt(h, "stopping")
    /\ HostGo(h, "leaving")
    /\ UNCHANGED <<freePort, file, lock, port, client, byHand, stops, kills, orphaned>>

\* remove_if_mine reads, then removes.
LeaveRead(h) ==
    /\ HostAt(h, "leaving")
    /\ IF file = h THEN HostGo(h, "unlink") /\ UNCHANGED port ELSE Exit(h)
    /\ UNCHANGED <<freePort, file, lock, client, byHand, stops, kills, orphaned>>
LeaveRemove(h) ==
    /\ HostAt(h, "unlink")
    /\ file' = Nobody
    /\ Exit(h)
    /\ UNCHANGED <<freePort, lock, client, byHand, stops, kills, orphaned>>

HostDies(h) ==
    /\ Alive(h)
    /\ kills < MaxKills /\ kills' = kills + 1
    /\ Exit(h)
    /\ UNCHANGED <<freePort, file, lock, client, byHand, stops, orphaned>>

-----------------------------------------------------------------------------

Init ==
    /\ freePort \in FreePorts
    /\ file \in {Nobody} \union Host        \* a file of an earlier day may lie there
    /\ lock = Nobody /\ port = Nobody
    /\ client = [c \in Client |-> Idle]
    /\ host = [h \in Host |-> Dead]
    /\ byHand = 0 /\ stops = 0 /\ kills = 0 /\ orphaned = FALSE

ClientStep(c) ==
    \/ EnsureRead(c) \/ EnsureProbe(c) \/ TakeLock(c) \/ Reprobe(c)
    \/ RemoveStale(c) \/ Spawn(c) \/ Poll(c) \/ Lose(c)

HostStep(h) ==
    \/ HostLook(h) \/ HostCheck(h) \/ HostBind(h) \/ HostWrite(h)
    \/ Close(h) \/ LeaveRead(h) \/ LeaveRemove(h)

Next ==
    \/ \E c \in Client : ClientStep(c) \/ LaunchFails(c) \/ LaunchWait(c) \/ ClientDies(c)
    \/ \E h \in Host : HostStep(h) \/ StartByHand(h) \/ Stop(h) \/ IdleStop(h) \/ HostDies(h)

\* Every process runs on; a client retries every ten seconds, the lock of a
\* file is given to one who waits, an idle host stops.
Fairness ==
    /\ \A c \in Client : /\ WF_vars(ClientStep(c))
                         /\ SF_vars(TakeLock(c))
    /\ \A h \in Host : WF_vars(HostStep(h)) /\ WF_vars(IdleStop(h))

Spec == Init /\ [][Next]_vars /\ Fairness

-----------------------------------------------------------------------------
(* Properties                                                              *)

TypeOK ==
    /\ file \in Host \union {Nobody} /\ port \in Host \union {Nobody}
    /\ lock \in Client \union {Nobody}
    /\ \A c \in Client :
          client[c].pc \in {"idle", "probe", "lock", "reprobe", "remove", "spawn", "poll", "attached"}
    /\ \A h \in Host :
          host[h].pc \in {"dead", "look", "check", "bind", "write", "serve", "stopping", "leaving", "unlink"}

\* One client launches at a time, and the one that does holds the lock.
OneLaunch ==
    \A c \in Client : client[c].pc \in {"reprobe", "remove", "spawn", "poll"} => lock = c

\* A host that serves is the one daemon.json names: nobody removed or replaced
\* its file.  It holds for the fixed port, while nobody starts a host by hand
\* and no client dies in the middle of a launch.
ServingHostIsListed ==
    \A h \in Host : Serving(h) /\ ~freePort /\ byHand = 0 /\ ~orphaned => file = h

LaunchIsSound == TypeOK /\ OneLaunch /\ ServingHostIsListed

\* A client that keeps trying gets in, whatever was stopped or killed, unless a
\* host serves that daemon.json does not name: it holds the port, and lives as
\* long as a client stays attached to it.
ClientGetsIn ==
    \A c \in Client :
        []<>(At(c, "attached") \/ \E h \in Host : Serving(h) /\ file # h)

=============================================================================
