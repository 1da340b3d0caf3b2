------------------------------- MODULE MCLoops -------------------------------
(***************************************************************************)
(* What runs in the background, for TLC: the doorbell of an inbox in the   *)
(* daemon (Doorbell); in the plugin, who starts the ledger consumers or    *)
(* stands in for them (WakeWiring), the lock between their processes       *)
(* (ConsumerLease), their judgment of the platform's daemons               *)
(* (PlatformWatch), and the log of our own daemon that every plugin        *)
(* rotates (LogRotation).  Each keeps files and timers of its own; a       *)
(* behaviour picks one of them and leaves the others at rest.              *)
(***************************************************************************)
EXTENDS Doorbell, ConsumerLease, WakeWiring, PlatformWatch, LogRotation

VARIABLE part

LoopsVars == <<vars, leaseVars, wiringVars, platformVars, logVars, part>>

SomeStyle == CHOOSE s \in [Scopes -> Styles] : TRUE

\* No process is left to ask for the lock, and the bell was stopped.
NoLease == /\ lock = NoLock /\ turn = [c \in Consumers |-> "dead"] /\ tries = [c \in Consumers |-> 0]
           /\ robbed = [c \in Consumers |-> "no"] /\ leaseFaults = 0
NoBell == /\ pc = "done" /\ stopped = TRUE /\ wire = "none" /\ waiter = "none" /\ fetch = NoFetch
          /\ attached = FALSE /\ held = FALSE /\ released = FALSE /\ watchdog = FALSE /\ safety = FALSE
          /\ mail = 0 /\ fetched = 0 /\ frame = FALSE /\ breaks = 0

LoopsInit ==
  /\ part \in {"bell", "lease", "wiring", "platform", "log"}
  /\ IF part = "bell" THEN Init ELSE NoBell
  /\ IF part = "lease" THEN LeaseInit ELSE NoLease
  /\ WiringInit /\ PlatformInit /\ LogInit
  /\ part # "wiring" => /\ plan = "self" /\ ~daemonThere /\ ~streamThere
                       /\ post = [w \in Spaces |-> NoPost]
  /\ part # "platform" => flat /\ style = SomeStyle

LoopsNext ==
  \/ part = "bell" /\ Next /\ UNCHANGED <<leaseVars, wiringVars, platformVars, logVars, part>>
  \/ part = "lease" /\ LeaseNext /\ UNCHANGED <<vars, wiringVars, platformVars, logVars, part>>
  \/ part = "wiring" /\ WiringNext /\ UNCHANGED <<vars, leaseVars, platformVars, logVars, part>>
  \/ part = "platform" /\ PlatformNext /\ UNCHANGED <<vars, leaseVars, wiringVars, logVars, part>>
  \/ part = "log" /\ LogNext /\ UNCHANGED <<vars, leaseVars, wiringVars, platformVars, part>>

\* What is at rest has no step to take, so the parts' fairness can be stated as it is.
LoopsSpec == /\ LoopsInit /\ [][LoopsNext]_LoopsVars
             /\ Fairness /\ LeaseFairness /\ WiringFairness /\ PlatformFairness /\ LogFairness

\* A process gets its round again and again, whatever processes die, and an inbox has somebody to
\* get rounds for it, however often records are opened, relinked or removed and lives begin anew.
\* With the key the loop began with: one changed since in this life is not taken over.
LedgersAreConsumed == RoundsGoOn /\ InboxIsFollowed
=============================================================================
