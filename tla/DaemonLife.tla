----------------------------- MODULE DaemonLife -----------------------------
(***************************************************************************)
(* How the processes of one machine come to share one watcher daemon.  A   *)
(* plugin looks for it in daemon.json, spawns one when there is none that  *)
(* answers, registers, and sends heartbeats (daemonclient.ts); when no     *)
(* daemon can be had at its start it watches by itself (index.ts).  A      *)
(* spawned daemon looks too, takes the start lock, watches, publishes      *)
(* itself in daemon.json and drops the lock (main.ts); its registry is in  *)
(* memory.                                                                 *)
(*                                                                         *)
(* Daemons are numbered as they are spawned; a daemon's number stands for  *)
(* its pid and its token.  `slips' is history: what was amiss when a       *)
(* daemon came by the start lock, or has become of the lock since.         *)
(***************************************************************************)
EXTENDS Integers, FiniteSets

CONSTANTS Plugins,
          MaxDaemons,       \* bound: daemons spawned
          MaxLifeFaults     \* bound: crashes, signals, slow and lost answers

ASSUME LifeAssumption == MaxDaemons \in Nat /\ MaxLifeFaults \in Nat

Daemons == 1..MaxDaemons
None0 == 0

VARIABLES daemonInfo,       \* the daemon daemon.json names, or None0
          startLock,        \* the daemon that made the lock file there is, or None0
          signed,           \* its pid is in it
          proc,             \* per daemon: its step
          port,             \* per daemon: its port; a free one may be given out again
          registry,         \* per daemon: the plugins it knows
          client,           \* per plugin: its step, the daemon it holds, in its start or later
          slips,            \* per daemon
          lifeFaults

lifeVars == <<daemonInfo, startLock, signed, proc, port, registry, client, slips, lifeFaults>>

LifeInit ==
  /\ daemonInfo = None0 /\ startLock = None0 /\ signed = FALSE
  /\ proc = [d \in Daemons |-> "unborn"]
  /\ port = [d \in Daemons |-> d]
  /\ registry = [d \in Daemons |-> {}]
  /\ client = [p \in Plugins |-> [pc |-> "off", daemon |-> None0, first |-> TRUE]]
  /\ slips = [d \in Daemons |-> {}] /\ lifeFaults = 0

Fault1 == lifeFaults < MaxLifeFaults /\ lifeFaults' = lifeFaults + 1
Alive(d) == d # None0 /\ proc[d] \notin {"unborn", "gone"}
\* Its control server listens: from before it publishes itself until it closes.
Serving == {d \in Daemons : proc[d] \in {"watch", "drop", "run"}}
\* What findDaemon and the guard of runDaemon ask: the pid lives and /healthz answers - within
\* 800 ms: a daemon that is slower is taken for none.
FoundDaemon == IF daemonInfo \in Serving THEN daemonInfo ELSE None0
Asks(found) == \/ found = FoundDaemon /\ UNCHANGED lifeFaults
               \/ found = None0 /\ FoundDaemon # None0 /\ Fault1
\* Who answers at the port of daemon d: d itself, another with another token, or nobody.
Answerer(d) == IF d \in Serving THEN {d} ELSE {e \in Serving : d # None0 /\ port[e] = port[d]}
NoneLeft == \A d \in Daemons : proc[d] # "unborn"
Becomes(d, pc) == proc' = [proc EXCEPT ![d] = pc]

-----------------------------------------------------------------------------
(* runDaemon *)

\* A look of daemon d's.
Looks(d, found) ==
  /\ Asks(found)
  /\ slips' = [slips EXCEPT ![d] = IF found = FoundDaemon THEN {} ELSE {"slow answer"}]

\* The guard: a live, healthy daemon.json means this process is not needed.
LooksAround(d) ==
  /\ proc[d] = "look"
  /\ \E found \in {FoundDaemon, None0} :
       Looks(d, found) /\ Becomes(d, IF found # None0 THEN "gone" ELSE "open")
  /\ UNCHANGED <<daemonInfo, startLock, signed, port, registry, client>>

\* Slip: the start lock is not asked for.
LockFree_Always == TRUE
LockFree == startLock = None0

\* open(wx).  Nothing is looked at again behind the lock: who watches by now, watches beside
\* this one.
TakesStartLock(d) ==
  /\ proc[d] = "open" /\ LockFree
  /\ startLock' = d /\ signed' = FALSE
  /\ Becomes(d, "sign")
  /\ slips' = [slips EXCEPT ![d] =
       @ \union (IF FoundDaemon # None0 /\ @ = {} THEN {"late look"} ELSE {})
         \union (IF Serving \ {FoundDaemon} # {} THEN {"unnamed"} ELSE {})]
  /\ UNCHANGED <<daemonInfo, port, registry, client, lifeFaults>>

SignsStartLock(d) ==
  /\ proc[d] = "sign" /\ Becomes(d, "boot")
  /\ signed' = IF startLock = d THEN TRUE ELSE signed
  /\ UNCHANGED <<daemonInfo, startLock, port, registry, client, slips, lifeFaults>>

\* isStalePidFile, first half: a lock file that is gone counts as stale.
StatsStartLock(d) ==
  /\ proc[d] = "open" /\ startLock # None0 /\ Becomes(d, "stat")
  /\ UNCHANGED <<daemonInfo, startLock, signed, port, registry, client, slips, lifeFaults>>

\* Second half: the pid in it is dead, or the file is older than half a minute - which a daemon
\* that lives and is still booting may meet too.
JudgesStartLock(d) ==
  /\ proc[d] = "stat"
  /\ \/ ~Alive(startLock) /\ Becomes(d, "remove") /\ UNCHANGED lifeFaults
     \/ Alive(startLock) /\ Becomes(d, "remove") /\ Fault1
     \/ startLock # None0 /\ (Alive(startLock) \/ ~signed) /\ Becomes(d, "wait") /\ UNCHANGED lifeFaults
  /\ UNCHANGED <<daemonInfo, startLock, signed, port, registry, client, slips>>

\* rm: whatever lock file there is by now, another's too.
RemovesLockFile(d) ==
  /\ startLock' = None0
  /\ slips' = IF startLock # d /\ Alive(startLock)
               THEN [slips EXCEPT ![startLock] = @ \union {"lock removed"}] ELSE slips
RemovesStartLock(d) ==
  /\ proc[d] = "remove" /\ RemovesLockFile(d) /\ Becomes(d, "open")
  /\ UNCHANGED <<daemonInfo, signed, port, registry, client, lifeFaults>>

\* Another daemon is starting: wait for its daemon.json - here whoever answers at the port it
\* names will do - and try the lock again, or give up in the end.
Waits(d) ==
  /\ proc[d] = "wait"
  /\ \/ Answerer(daemonInfo) # {} /\ Becomes(d, "gone") /\ UNCHANGED <<slips, lifeFaults>>
     \/ /\ FoundDaemon # None0 \/ Answerer(daemonInfo) = {}
        /\ Looks(d, None0) /\ (Becomes(d, "open") \/ Becomes(d, "gone"))
  /\ UNCHANGED <<daemonInfo, startLock, signed, port, registry, client>>

\* createDaemon: the control server on a port of the system's choice, the engine, daemon.json.
Boots(d) ==
  /\ proc[d] = "boot" /\ Becomes(d, "watch")
  /\ \E n \in Daemons : /\ \A e \in Serving : port[e] # n
                        /\ n = d \/ \E e \in Daemons : proc[e] = "gone" /\ port[e] = n
                        /\ port' = [port EXCEPT ![d] = n]
  /\ UNCHANGED <<daemonInfo, startLock, signed, registry, client, slips, lifeFaults>>

\* The boot fails: the lock is dropped all the same.
BootFails(d) ==
  /\ proc[d] = "boot" /\ Fault1
  /\ RemovesLockFile(d) /\ Becomes(d, "gone")
  /\ UNCHANGED <<daemonInfo, signed, port, registry, client>>

Publishes(d) ==
  /\ proc[d] = "watch" /\ daemonInfo' = d /\ Becomes(d, "drop")
  /\ UNCHANGED <<startLock, signed, port, registry, client, slips, lifeFaults>>

DropsStartLock(d) ==
  /\ proc[d] = "drop" /\ RemovesLockFile(d) /\ Becomes(d, "run")
  /\ UNCHANGED <<daemonInfo, signed, port, registry, client, lifeFaults>>

\* Slip: the registry outlives the process.
Forgets_Nothing(d) == UNCHANGED registry
Forgets(d) == registry' = [registry EXCEPT ![d] = {}]

\* SIGTERM: the engine and the server stop; then daemon.json is read, and removed if it names
\* this process - by then it may name the next one.
IsTold(d) ==
  /\ proc[d] = "run" /\ Fault1
  /\ Becomes(d, "close") /\ Forgets(d)
  /\ UNCHANGED <<daemonInfo, startLock, signed, port, client, slips>>
ReadsInfo(d) ==
  /\ proc[d] = "close"
  /\ Becomes(d, IF daemonInfo \in {d, None0} THEN "unlink" ELSE "gone")
  /\ UNCHANGED <<daemonInfo, startLock, signed, port, registry, client, slips, lifeFaults>>
Unlinks(d) ==
  /\ proc[d] = "unlink" /\ Becomes(d, "gone") /\ daemonInfo' = None0
  /\ UNCHANGED <<startLock, signed, port, registry, client, slips, lifeFaults>>

DaemonCrashes(d) ==
  /\ proc[d] \notin {"unborn", "gone"} /\ Fault1
  /\ Becomes(d, "gone") /\ Forgets(d)
  /\ UNCHANGED <<daemonInfo, startLock, signed, port, client, slips>>

\* pruneStale: a plugin that is gone is forgotten; so is one that slept past its heartbeats and
\* serves no port, or is heard of again while its port is being probed.
Prunes(d, p) ==
  /\ d \in Serving /\ p \in registry[d]
  /\ \/ client[p].pc = "off" /\ UNCHANGED lifeFaults
     \/ client[p].pc = "beat" /\ Fault1
  /\ registry' = [registry EXCEPT ![d] = @ \ {p}]
  /\ UNCHANGED <<daemonInfo, startLock, signed, proc, port, client, slips>>

-----------------------------------------------------------------------------
(* The daemon client of a plugin *)

GoesTo(p, pc) == client' = [client EXCEPT ![p] = [@ EXCEPT !.pc = pc]]
Holds(p, d) == client' = [client EXCEPT ![p] = [@ EXCEPT !.pc = "register", !.daemon = d]]

PluginStarts(p) ==
  /\ client[p].pc = "off"
  /\ client' = [client EXCEPT ![p] = [pc |-> "find", daemon |-> None0, first |-> TRUE]]
  /\ UNCHANGED <<daemonInfo, startLock, signed, proc, port, registry, slips, lifeFaults>>

PluginStops(p) ==
  /\ client[p].pc \in {"beat", "self"} /\ Fault1 /\ GoesTo(p, "off")
  /\ UNCHANGED <<daemonInfo, startLock, signed, proc, port, registry, slips>>

\* ensureDaemon: the daemon there is, or a new one; a spawn that fails is only logged (here: when
\* the bound is spent).
Finds(p) ==
  /\ client[p].pc = "find"
  /\ \/ FoundDaemon # None0 /\ Holds(p, FoundDaemon) /\ UNCHANGED <<proc, lifeFaults>>
     \/ /\ Asks(None0) /\ GoesTo(p, "await")
        /\ \/ \E d \in Daemons : /\ proc[d] = "unborn"
                                 /\ \A e \in 1..d - 1 : proc[e] # "unborn"
                                 /\ Becomes(d, "look")
           \/ NoneLeft /\ UNCHANGED proc
  /\ UNCHANGED <<daemonInfo, startLock, signed, port, registry, slips>>

\* The wait for it, which is bounded: at the start its end means no daemon.
Sees(p) ==
  /\ client[p].pc = "await" /\ FoundDaemon # None0 /\ Holds(p, FoundDaemon)
  /\ UNCHANGED <<daemonInfo, startLock, signed, proc, port, registry, slips, lifeFaults>>
TimesOut(p) ==
  /\ client[p].pc = "await" /\ Asks(None0)
  /\ GoesTo(p, IF client[p].first THEN "self" ELSE "beat")
  /\ UNCHANGED <<daemonInfo, startLock, signed, proc, port, registry, slips>>

\* POST /register.  At the start, any failure means no daemon.
Registers(p) ==
  /\ client[p].pc = "register"
  /\ IF client[p].daemon \in Serving
     THEN /\ registry' = [registry EXCEPT ![client[p].daemon] = @ \union {p}]
          /\ client' = [client EXCEPT ![p] = [@ EXCEPT !.pc = "beat", !.first = FALSE]]
     ELSE GoesTo(p, IF client[p].first THEN "self" ELSE "beat") /\ UNCHANGED registry
  /\ UNCHANGED <<daemonInfo, startLock, signed, proc, port, slips, lifeFaults>>

\* The daemon takes the registration and its answer is lost.
RegisterTimesOut(p) ==
  /\ client[p].pc = "register" /\ client[p].daemon \in Serving /\ Fault1
  /\ registry' = [registry EXCEPT ![client[p].daemon] = @ \union {p}]
  /\ GoesTo(p, IF client[p].first THEN "self" ELSE "beat")
  /\ UNCHANGED <<daemonInfo, startLock, signed, proc, port, slips>>

\* Slip: a heartbeat answered 404 is left at that.
Forgotten_Ignored(p) == FALSE
Forgotten(p) == client[p].daemon \in Serving /\ p \notin registry[client[p].daemon]

\* POST /heartbeat: 404 registers again, no answer looks for the daemon again; any other
\* answer, the 401 of a stranger at the port among them, is left at that.
Beats(p) ==
  /\ client[p].pc = "beat"
  /\ \/ Forgotten(p) /\ GoesTo(p, "register")
     \/ Answerer(client[p].daemon) = {} /\ GoesTo(p, "find")
  /\ UNCHANGED <<daemonInfo, startLock, signed, proc, port, registry, slips, lifeFaults>>

\* The answer does not come in time: the daemon is looked for again, though it lives.
BeatTimesOut(p) ==
  /\ client[p].pc = "beat" /\ Answerer(client[p].daemon) # {} /\ Fault1
  /\ GoesTo(p, "find")
  /\ UNCHANGED <<daemonInfo, startLock, signed, proc, port, registry, slips>>

-----------------------------------------------------------------------------
Runs(d) == \/ LooksAround(d) \/ TakesStartLock(d) \/ SignsStartLock(d) \/ StatsStartLock(d)
           \/ JudgesStartLock(d) \/ RemovesStartLock(d) \/ Waits(d) \/ Boots(d) \/ Publishes(d)
           \/ DropsStartLock(d) \/ ReadsInfo(d) \/ Unlinks(d)
Serves(p) == Finds(p) \/ Sees(p) \/ TimesOut(p) \/ Registers(p) \/ Beats(p)
LifeNext == \/ \E d \in Daemons : \/ Runs(d) \/ BootFails(d) \/ IsTold(d) \/ DaemonCrashes(d)
                                  \/ \E p \in Plugins : Prunes(d, p)
            \/ \E p \in Plugins : PluginStarts(p) \/ PluginStops(p) \/ Serves(p)
                                   \/ RegisterTimesOut(p) \/ BeatTimesOut(p)

\* Processes run and timers fire; nothing makes a plugin start or stop.
LifeFairness == /\ \A d \in Daemons : WF_lifeVars(Runs(d))
                /\ \A p \in Plugins : WF_lifeVars(Serves(p))
LifeSpec == LifeInit /\ [][LifeNext]_lifeVars /\ LifeFairness

-----------------------------------------------------------------------------
Steps   == {"unborn", "look", "open", "sign", "stat", "remove", "wait", "boot", "watch", "drop", "run",
            "close", "unlink", "gone"}
Clients == [pc : {"off", "find", "await", "register", "beat", "self"}, daemon : 0..MaxDaemons,
            first : BOOLEAN]
Slips   == {"late look", "slow answer", "unnamed", "lock removed"}

LifeTypeOK ==
  /\ daemonInfo \in 0..MaxDaemons /\ startLock \in 0..MaxDaemons /\ signed \in BOOLEAN
  /\ proc \in [Daemons -> Steps] /\ port \in [Daemons -> Daemons]
  /\ registry \in [Daemons -> SUBSET Plugins]
  /\ \A d \in Daemons : registry[d] # {} => d \in Serving
  /\ client \in [Plugins -> Clients]
  /\ \A p \in Plugins : client[p].pc = "beat" => client[p].daemon # None0
  /\ slips \in [Daemons -> SUBSET Slips] /\ lifeFaults \in 0..MaxLifeFaults

\* Of two daemons that watch the same inboxes at a time, one took the start lock where the other
\* could not be seen - it published itself after the look at daemon.json, answered too slowly,
\* or daemon.json no longer named it - or lost the lock file to another process while it booted.
SecondDaemonIsExplained == \A d, e \in Serving : d # e => slips[d] \union slips[e] # {}

\* What main.ts says its guard is for, and what the store of the daemon relies on: one daemon.
OneDaemonWatches == lifeFaults = 0 => Cardinality(Serving) <= 1

\* A plugin that starts comes to a daemon or watches by itself.
StartsEnd == \A p \in Plugins : client[p].pc = "find" ~> client[p].pc \in {"beat", "self", "off"}

\* A plugin whose daemon died or forgot it is known again to the daemon it holds, unless
\* the machine has no daemon left to spawn, or a stranger answers at the old port.
Deaf(p) == client[p].daemon \notin Serving /\ Answerer(client[p].daemon) # {}
RegistrationHeals ==
  \A p \in Plugins :
    client[p].pc = "beat" ~> \/ client[p].pc = "off" \/ Deaf(p)
                             \/ client[p].daemon \in Serving /\ p \in registry[client[p].daemon]
                             \/ NoneLeft /\ FoundDaemon = None0
=============================================================================
