---------------------------- MODULE WakeBudgets ----------------------------
(***************************************************************************)
(* The storm budgets of one mailbox.  The watcher of the plugin keeps a    *)
(* budget for each session and one for the mailbox; the daemon keeps one   *)
(* for the mailbox, decides before it knows whether anybody is there, and  *)
(* stores what it decided with a batch it could not deliver.  The plugin   *)
(* honours what the daemon decided.  Budgets live in memory: they begin    *)
(* anew with the process, and the batches and the queue do not.            *)
(***************************************************************************)
EXTENDS Integers, Sequences, FiniteSets

CONSTANTS Sessions,         \* the sessions of the workspace, each with its cwd
          MaxWakes, Window, \* the budget: wakes per window of hours
          MaxHours,         \* bound: the clock
          MaxLetters,       \* bound: letters
          MaxStumbles       \* bound: restarts, and deliveries without an answer

ASSUME BudgetsAssumption == /\ Sessions \subseteq Nat \ {0}
                            /\ MaxWakes \in Nat \ {0} /\ Window \in Nat \ {0}
                            /\ MaxHours \in Nat /\ MaxLetters \in Nat /\ MaxStumbles \in Nat

NoSession == 0
Payers == {"plugin", "daemon"}

VARIABLES hour,
          payer,                          \* who watches the mailbox: the daemon, or the plugin without it
          session,                        \* the session the notices go to
          sessionWakes, inboxWakes,       \* the plugin's budgets: what they were charged for, see Charges
          daemonWakes,                    \* the daemon's
          batch, queue,                   \* the daemon's batch under way, its queue: see Notice
          arrivals, stumbles,
          lives, decided, heard            \* history: lives of the payers, decisions, notices heard

budgetVars == <<hour, payer, session, sessionWakes, inboxWakes, daemonWakes, batch, queue, arrivals, stumbles,
                lives, decided, heard>>

\* A charge of a budget: its hour, and the number of the decision that made it, as two may be
\* made in one hour.
Charges == [at : 0..MaxHours, nr : 1..MaxLetters + MaxStumbles]

\* A notice carries its decision and when it was made; told: the plugin has it in its ring.
NoBatch == "none"
Notice == [how : {"wake", "inject"}, made : 0..MaxHours, life : 1..MaxStumbles + 1, nr : 1..MaxLetters + MaxStumbles,
           told : BOOLEAN]

BudgetsInit ==
  /\ hour = 0 /\ payer \in Payers /\ session \in Sessions \union {NoSession}
  /\ sessionWakes = [s \in Sessions |-> {}] /\ inboxWakes = {} /\ daemonWakes = {}
  /\ batch = NoBatch /\ queue = <<>> /\ arrivals = 0 /\ stumbles = 0
  /\ lives = [p \in Payers |-> 1] /\ decided = 0 /\ heard = {}

Stumble == stumbles < MaxStumbles /\ stumbles' = stumbles + 1

-----------------------------------------------------------------------------
(* WakeBudget.decide *)

\* Slip: a wake stays charged one hour too short.
Recent_Short(charged) == {c \in charged : hour - c.at < Window - 1}
Recent(charged) == {c \in charged : hour - c.at < Window}
Allows(charged) == Cardinality(Recent(charged)) < MaxWakes
Charge(charged) == Recent(charged) \union IF Allows(charged) THEN {[at |-> hour, nr |-> decided + 1]} ELSE {}

\* The decision just made, as a notice.
Made(how, p) == [how |-> how, made |-> hour, life |-> lives[p], nr |-> decided + 1, told |-> FALSE]

\* A session hears a notice at an hour.
Hears(n, p) == heard' = heard \union {[notice |-> [n EXCEPT !.told = TRUE], by |-> p, at |-> hour, who |-> session]}

-----------------------------------------------------------------------------
(* The plugin's watcher: deliverBatch *)

\* Without a session nothing is charged.  The session's budget is charged first, and stays charged
\* where the mailbox's refuses.
PluginWakes ==
  /\ payer = "plugin" /\ arrivals < MaxLetters /\ session # NoSession
  /\ arrivals' = arrivals + 1
  /\ sessionWakes' = [sessionWakes EXCEPT ![session] = Charge(@)]
  /\ inboxWakes' = IF Allows(sessionWakes[session]) THEN Charge(inboxWakes) ELSE inboxWakes
  /\ LET how == IF Allows(sessionWakes[session]) /\ Allows(inboxWakes) THEN "wake" ELSE "inject"
     IN Hears(Made(how, "plugin"), "plugin")
  /\ decided' = decided + 1
  /\ UNCHANGED <<hour, payer, session, daemonWakes, batch, queue, stumbles, lives>>

-----------------------------------------------------------------------------
(* The daemon: flushPass and replayPending *)

DaemonGathers ==
  /\ payer = "daemon" /\ arrivals < MaxLetters /\ batch = NoBatch
  /\ arrivals' = arrivals + 1 /\ batch' = "due"
  /\ UNCHANGED <<hour, payer, session, sessionWakes, inboxWakes, daemonWakes, queue, stumbles, lives, decided,
                 heard>>

\* Every attempt decides, and is charged for it; what the ring knows is not said again.
DaemonFlushes ==
  /\ payer = "daemon" /\ batch # NoBatch
  /\ daemonWakes' = Charge(daemonWakes) /\ decided' = decided + 1
  /\ LET n == [Made(IF Allows(daemonWakes) THEN "wake" ELSE "inject", "daemon") EXCEPT !.told = batch = "told"]
     IN \/ session = NoSession /\ batch' = NoBatch /\ queue' = Append(queue, n) /\ UNCHANGED <<heard, stumbles>>
        \/ /\ session # NoSession /\ batch' = NoBatch
           /\ IF n.told THEN UNCHANGED heard ELSE Hears(n, "daemon")
           /\ UNCHANGED <<queue, stumbles>>
        \/ /\ session # NoSession /\ Stumble                   \* no answer: it may have been heard
           /\ \/ UNCHANGED <<batch, heard>>
              \/ ~n.told /\ batch' = "told" /\ Hears(n, "daemon")
           /\ UNCHANGED queue
  /\ UNCHANGED <<hour, payer, session, sessionWakes, inboxWakes, arrivals, lives>>

\* A queued batch goes out as it was decided, the oldest first.
DaemonReplays ==
  /\ payer = "daemon" /\ queue # <<>> /\ session # NoSession
  /\ IF Head(queue).told THEN UNCHANGED heard ELSE Hears(Head(queue), "daemon")
  /\ \/ queue' = Tail(queue) /\ UNCHANGED stumbles
     \/ queue' = [queue EXCEPT ![1].told = TRUE] /\ Stumble    \* the answer is lost
  /\ UNCHANGED <<hour, payer, session, sessionWakes, inboxWakes, daemonWakes, batch, arrivals, lives, decided>>

-----------------------------------------------------------------------------
(* Around them *)

HourPasses ==
  /\ hour < MaxHours /\ hour' = hour + 1
  /\ UNCHANGED <<payer, session, sessionWakes, inboxWakes, daemonWakes, batch, queue, arrivals, stumbles, lives,
                 decided, heard>>

\* The session a notice finds: another one, or none.
SessionChanges ==
  /\ session' \in Sessions \union {NoSession}
  /\ session' # session
  /\ UNCHANGED <<hour, payer, sessionWakes, inboxWakes, daemonWakes, batch, queue, arrivals, stumbles, lives,
                 decided, heard>>

\* The daemon ends and the plugin watches; or there is a daemon again, with what state.json held.
PayerChanges ==
  /\ Stumble
  /\ payer' \in Payers \ {payer}
  /\ daemonWakes' = {} /\ lives' = [lives EXCEPT !["daemon"] = @ + 1]
  /\ UNCHANGED <<hour, session, sessionWakes, inboxWakes, batch, queue, arrivals, decided, heard>>

\* A new process of the plugin has neither budgets nor a ring.
PluginRestarts ==
  /\ Stumble
  /\ sessionWakes' = [s \in Sessions |-> {}] /\ inboxWakes' = {}
  /\ lives' = [lives EXCEPT !["plugin"] = @ + 1]
  /\ batch' = IF batch = "told" THEN "due" ELSE batch
  /\ queue' = [k \in DOMAIN queue |-> [queue[k] EXCEPT !.told = FALSE]]
  /\ session' = NoSession
  /\ UNCHANGED <<hour, payer, daemonWakes, arrivals, decided, heard>>

BudgetsNext == \/ PluginWakes \/ DaemonGathers \/ DaemonFlushes \/ DaemonReplays
               \/ HourPasses \/ SessionChanges \/ PayerChanges \/ PluginRestarts
BudgetsSpec == BudgetsInit /\ [][BudgetsNext]_budgetVars

-----------------------------------------------------------------------------
BudgetsTypeOK ==
  /\ hour \in 0..MaxHours /\ payer \in Payers /\ session \in Sessions \union {NoSession}
  /\ sessionWakes \in [Sessions -> SUBSET Charges] /\ inboxWakes \subseteq Charges /\ daemonWakes \subseteq Charges
  /\ batch \in {NoBatch, "due", "told"} /\ queue \in Seq(Notice)
  /\ arrivals \in 0..MaxLetters /\ stumbles \in 0..MaxStumbles
  /\ lives \in [Payers -> 1..MaxStumbles + 1] /\ decided \in 0..MaxLetters + MaxStumbles
  /\ \A h \in heard : h.notice \in Notice /\ h.by \in Payers /\ h.at \in 0..MaxHours /\ h.who \in Sessions

Wakes == {h \in heard : h.notice.how = "wake"}

\* The hours of a window that begins at t.
WindowAt(t) == t..t + Window - 1

\* Of the decisions that one life of a payer made in a window, no more than MaxWakes woke anybody.
BudgetIsKept ==
  \A t \in 0..hour, p \in Payers : \A l \in 1..lives[p] :
    Cardinality({h.notice.nr : h \in {w \in Wakes : w.by = p /\ w.notice.life = l /\ w.notice.made \in WindowAt(t)}})
      <= MaxWakes

\* A decision wakes twice only across a restart of the plugin.
WakesAreHeardOnce ==
  lives["plugin"] = 1 => \A v, w \in Wakes : v.notice.nr = w.notice.nr => v = w

\* Whatever sessions come and go, and however late or often a batch goes out: a life of the plugin
\* or of the daemon wakes for no more decisions than its budget has, and for each of them once.
WakesArePaidFor == BudgetIsKept /\ WakesAreHeardOnce

\* README.md: three wake-ups per thirty minutes, per mailbox.
StormIsBounded == \A t \in 0..hour : Cardinality({w \in Wakes : w.at \in WindowAt(t)}) <= MaxWakes

\* The comment at WakeBudget: mail degrades only beyond the limit, and until the window has slid
\* past the oldest wake.
DegradesOnlyAtTheLimit ==
  \A h \in heard : h.by = "plugin" /\ h.notice.how = "inject" =>
    Cardinality({w \in Wakes : w.at \in h.at - Window + 1..h.at}) >= MaxWakes
=============================================================================
