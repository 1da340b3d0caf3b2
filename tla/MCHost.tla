------------------------------- MODULE MCHost -------------------------------
(***************************************************************************)
(* The plugin host for TLC: its watcher of one inbox, the state file it    *)
(* shares with other instances, and the way it comes by a daemon.  They    *)
(* meet at few points - whether a daemon was found decides whether the     *)
(* watcher starts, which WatchStarts leaves open - and are checked side by *)
(* side: a behaviour picks one of them and leaves the others at rest.      *)
(***************************************************************************)
EXTENDS InboxWatcher, StateStore, DaemonLife

CONSTANT Budget             \* bound: letters and upsets of one behaviour of the watcher

VARIABLE part

HostVars == <<watchVars, storeVars, lifeVars, part>>

HostInit ==
  /\ part \in {"watcher", "store", "daemon"}
  /\ WatchInit /\ StoreInit /\ LifeInit
  /\ issues \/ streams              \* bound: a server with neither is left out
  /\ part # "watcher" => issues /\ streams /\ rawKey

HostNext ==
  \/ /\ part = "watcher" /\ WatchNext /\ arrived' + upsets' <= Budget
     /\ UNCHANGED <<storeVars, lifeVars, part>>
  \/ part = "store" /\ StoreNext /\ UNCHANGED <<watchVars, lifeVars, part>>
  \/ part = "daemon" /\ LifeNext /\ UNCHANGED <<watchVars, storeVars, part>>

\* What is at rest has no step to take, so the parts' fairness can be stated as it is.
HostSpec == /\ HostInit /\ [][HostNext]_HostVars
            /\ WatchFairness /\ StoreFairness /\ LifeFairness
=============================================================================
