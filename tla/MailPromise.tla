----------------------------- MODULE MailPromise -----------------------------
(***************************************************************************)
(* What each of the ways mail takes to a session promises - the watcher    *)
(* daemon, the watcher inside the plugin, the ledger consumer.  A letter   *)
(* waits at the server, is held by the process, and is told to a session   *)
(* or excused: read elsewhere, muted, or met one of the loss windows its   *)
(* specification names.  Each keeps a position on disk, and what it has    *)
(* passed is not asked for again; so a letter behind it is in somebody's   *)
(* hands or done with, at all times.                                       *)
(***************************************************************************)
CONSTANT Letters

VARIABLES passed,       \* the letters behind the position on disk
          status        \* per letter

promiseVars == <<passed, status>>

Statuses == {"waiting", "held", "told", "excused"}

\* A letter let go may be asked for again; one excused may be told all the same, when it had
\* been in two hands; what was told stays told.
Moves == {<<"waiting", "held">>, <<"waiting", "excused">>, <<"held", "waiting">>, <<"held", "told">>,
          <<"held", "excused">>, <<"excused", "told">>}

PromiseInit == passed = {} /\ status = [l \in Letters |-> "waiting"]

PromiseNext ==
  /\ passed' \subseteq Letters /\ status' \in [Letters -> Statuses]
  /\ \A l \in Letters : /\ status'[l] # status[l] => <<status[l], status'[l]>> \in Moves
                        /\ l \in passed' => status'[l] # "waiting"

PromiseSpec == PromiseInit /\ [][PromiseNext]_promiseVars
=============================================================================
