----------------------------- MODULE WakeWiring -----------------------------
(***************************************************************************)
(* Who wakes the sessions of one plugin process (index.ts): the plan made  *)
(* at start (cutover.ts), and the effect that carries it out each time the *)
(* host's agent service comes up - one ledger loop per inbox where the     *)
(* plan is `ledger', else the watcher daemon, or when none answers one     *)
(* stream loop per inbox or the interval poll of all.                      *)
(*                                                                         *)
(* A life is one mounting of the effect; its disposer ends the life.  A    *)
(* reconcile pass reads the state file, waits, and acts on what it read;   *)
(* it does not look again whether its life is over.  `late' is history:    *)
(* lives that were stopped, or fell back, over a pass under way.           *)
(*                                                                         *)
(* A record of old still has its key in the state file, until it is        *)
(* migrated (credentials.ts).  The loaders of the ledger loops, the stream *)
(* loops and the poll resolve a record's key wherever it is; the pass that *)
(* starts the stream loops reads the state file as it stands.              *)
(***************************************************************************)
EXTENDS Naturals, FiniteSets

CONSTANTS Spaces,           \* workspaces
          Places,           \* addresses of mailboxes
          MaxLives,         \* bound: mountings of the effect
          MaxChanges,       \* bound: changes of the records
          MaxPasses         \* bound: reconcile passes under way at once

ASSUME WiringAssumption == MaxLives \in Nat /\ MaxChanges \in Nat /\ MaxPasses \in Nat

NoPost == [place |-> "none", key |-> 0, old |-> FALSE]

VARIABLES plan,             \* ledger or self
          daemonThere, streamThere,     \* what the world offers in this behaviour
          post,             \* per workspace: its address, the number of its key, and whether
                            \* the state file still has it
          life, mounted,    \* the current life, and whether it goes on
          asking,           \* lives that wait for the daemon client's start
          target,           \* the life the daemon delivers to (0: none)
          passes,           \* reconcile passes under way, with what each has read
          followers,        \* loops: life, workspace, what a ledger loop was started with
          polls, unsupported,       \* lives with a poll timer; lives that met no /inbox/stream
          late, rotated,    \* history; workspaces whose key changed in this life
          changes

wiringVars == <<plan, daemonThere, streamThere, post, life, mounted, asking, target, passes, followers,
                polls, unsupported, late, rotated, changes>>
surroundings == <<plan, daemonThere, streamThere>>

WiringInit ==
  /\ plan \in {"ledger", "self"} /\ daemonThere \in BOOLEAN /\ streamThere \in BOOLEAN
  /\ post \in [Spaces -> {NoPost} \union [place : Places, key : {0}, old : {TRUE}]]
  /\ life = 0 /\ mounted = FALSE
  /\ asking = {} /\ target = 0 /\ passes = {} /\ followers = {} /\ polls = {} /\ unsupported = {}
  /\ late = {} /\ rotated = {} /\ changes = 0

\* The pass of a life that is over, or has fallen back, is not called off.
Overtaken(l) == IF \E p \in passes : p.life = l THEN {l} ELSE {}

-----------------------------------------------------------------------------
(* The records *)

\* An inbox is opened or linked to another address, removed, or given a new key; a record of
\* old is migrated before that.
RecordChanges(w) ==
  /\ changes < MaxChanges /\ changes' = changes + 1
  /\ \/ /\ \E a \in Places \ {post[w].place} :
             post' = [post EXCEPT ![w] = [place |-> a, key |-> 0, old |-> FALSE]]
        /\ UNCHANGED rotated
     \/ post[w] # NoPost /\ post' = [post EXCEPT ![w] = NoPost] /\ UNCHANGED rotated
     \/ /\ post[w] # NoPost /\ ~post[w].old /\ post' = [post EXCEPT ![w].key = @ + 1]
        /\ rotated' = rotated \union {w}
  /\ UNCHANGED <<surroundings, life, mounted, asking, target, passes, followers, polls, unsupported, late>>

\* Some of the old records, all but those that fail, are migrated; which nothing forces.
Migrates ==
  /\ \E ws \in SUBSET {w \in Spaces : post[w].old} :
       ws # {} /\ post' = [w \in Spaces |-> IF w \in ws THEN [post[w] EXCEPT !.old = FALSE] ELSE post[w]]
  /\ UNCHANGED <<surroundings, life, mounted, asking, target, passes, followers, polls, unsupported, late,
                 rotated, changes>>

-----------------------------------------------------------------------------
(* The effect *)

\* The agent service is there: the ledger loops begin, or the daemon is asked for.
Mounts ==
  /\ ~mounted /\ life < MaxLives
  /\ mounted' = TRUE /\ life' = life + 1 /\ rotated' = {}
  /\ asking' = IF plan = "self" THEN asking \union {life'} ELSE asking
  /\ UNCHANGED <<surroundings, post, target, passes, followers, polls, unsupported, late, changes>>

\* Slip: an answer that comes after the disposer is acted upon.
AnswerCounts_Always(l) == TRUE
AnswerCounts(l) == mounted /\ l = life

\* daemonClient.start comes back.  Without a daemon the watcher of this process stands in
\* (startInProcessWatcher; its first pass is one of PassReads).
DaemonAnswers(l) ==
  /\ l \in asking /\ asking' = asking \ {l}
  /\ target' = IF AnswerCounts(l) /\ daemonThere THEN l ELSE target
  /\ \E noStream \in {FALSE, ~streamThere} :
       IF AnswerCounts(l) /\ ~daemonThere /\ noStream
       THEN polls' = polls \union {l} /\ unsupported' = unsupported \union {l}
       ELSE UNCHANGED <<polls, unsupported>>
  /\ UNCHANGED <<surroundings, post, life, mounted, passes, followers, late, rotated, changes>>

Halted(f) == [f EXCEPT !.runs = FALSE, !.known = FALSE]

\* Slip: the loops are not stopped.
Stopped_Not(fs, l) == fs
\* The loops the life knows of are stopped: a ledger loop's timer is cleared, a stream loop
\* is told to end.
Stopped(fs, l) ==
  {IF f.life = l /\ f.known THEN Halted(f) ELSE f :
     f \in {g \in fs : ~(plan = "ledger" /\ g.life = l /\ g.known)}}

Disposes ==
  /\ mounted /\ mounted' = FALSE
  /\ followers' = Stopped(followers, life) /\ polls' = polls \ {life}
  /\ target' = 0 /\ late' = late \union Overtaken(life)
  /\ UNCHANGED <<surroundings, post, life, asking, passes, unsupported, rotated, changes>>

-----------------------------------------------------------------------------
(* Reconcile *)

Reconciles == /\ mounted
              /\ plan = "self" => /\ life \notin asking /\ target # life
                                  /\ life \notin unsupported

\* At start and every minute: the state file is read.
PassReads ==
  /\ Reconciles /\ Cardinality(passes) < MaxPasses
  /\ passes' = passes \union {[life |-> life, read |-> post]}
  /\ UNCHANGED <<surroundings, post, life, mounted, asking, target, followers, polls, unsupported, late,
                 rotated, changes>>

Has(l, w) == {f \in followers : f.life = l /\ f.space = w /\ f.known}
\* Slip: one loop for a workspace is enough, whichever address it follows.
Outdated_Never(p, f) == FALSE
Outdated(p, f) == plan = "ledger" /\ f.place # p.read[f.space].place

\* One loop for every inbox seen to have a key and without a loop; a ledger loop of another
\* address is stopped first.  Loops of workspaces that have gone are left alone.
PassActs(p) ==
  /\ p \in passes /\ passes' = passes \ {p}
  /\ LET named == {w \in Spaces : p.read[w] # NoPost /\ (plan = "ledger" \/ p.read[w].old)}
         stale == {f \in followers : f.life = p.life /\ f.known /\ f.space \in named /\ Outdated(p, f)}
         wanting == {w \in named : Has(p.life, w) \subseteq stale}
     IN followers' = (followers \ stale) \union
          {[life |-> p.life, space |-> w, runs |-> TRUE, known |-> TRUE,
            place |-> IF plan = "ledger" THEN p.read[w].place ELSE "any",
            key |-> IF plan = "ledger" THEN p.read[w].key ELSE 0] : w \in wanting}
  /\ UNCHANGED <<surroundings, post, life, mounted, asking, target, polls, unsupported, late, rotated,
                 changes>>

-----------------------------------------------------------------------------
(* The end of a stream loop *)

\* finally: whatever loop the life knows for the workspace is forgotten.
Forgotten(f) ==
  {IF g.life = f.life /\ g.space = f.space THEN [g EXCEPT !.known = FALSE] ELSE g :
     g \in followers \ {f}}

\* It was told to, or its inbox has gone.
LoopEnds(f) ==
  /\ f \in followers /\ plan = "self" /\ (~f.runs \/ post[f.space] = NoPost)
  /\ followers' = Forgotten(f)
  /\ UNCHANGED <<surroundings, post, life, mounted, asking, target, passes, polls, unsupported, late,
                 rotated, changes>>

\* There is no /inbox/stream: the first loop of its life to see that stops the others and
\* starts the poll.
LoopFallsBack(f) ==
  /\ f \in followers /\ plan = "self" /\ f.runs /\ ~streamThere
  /\ IF f.life \in unsupported
     THEN followers' = Forgotten(f) /\ UNCHANGED <<polls, unsupported, late>>
     ELSE /\ followers' = Stopped(Forgotten(f), f.life)
          /\ polls' = polls \union {f.life} /\ unsupported' = unsupported \union {f.life}
          /\ late' = late \union Overtaken(f.life)
  /\ UNCHANGED <<surroundings, post, life, mounted, asking, target, passes, rotated, changes>>

-----------------------------------------------------------------------------
WiringSteps == \/ \E l \in asking : DaemonAnswers(l)
               \/ \E p \in passes : PassActs(p)
               \/ \E f \in followers : LoopEnds(f) \/ LoopFallsBack(f)
WiringNext == \/ WiringSteps \/ PassReads \/ Mounts \/ Disposes \/ Migrates
              \/ \E w \in Spaces : RecordChanges(w)

\* Requests and reads come back, and the minute's timer goes on; nothing makes the host mount.
WiringFairness == /\ WF_wiringVars(PassReads) /\ \A l \in 1..MaxLives : WF_wiringVars(DaemonAnswers(l))
                  /\ WF_wiringVars(\E p \in passes : PassActs(p))
                  /\ WF_wiringVars(\E f \in followers : LoopEnds(f) \/ LoopFallsBack(f))
WiringSpec == WiringInit /\ [][WiringNext]_wiringVars /\ WiringFairness

-----------------------------------------------------------------------------
PostTypes == [place : Places, key : 0..MaxChanges, old : BOOLEAN] \union {NoPost}

WiringTypeOK ==
  /\ plan \in {"ledger", "self"} /\ daemonThere \in BOOLEAN /\ streamThere \in BOOLEAN
  /\ post \in [Spaces -> PostTypes] /\ life \in 0..MaxLives /\ mounted \in BOOLEAN
  /\ asking \subseteq 1..MaxLives /\ target \in 0..MaxLives
  /\ passes \subseteq [life : 1..MaxLives, read : [Spaces -> PostTypes]]
  /\ followers \subseteq [life : 1..MaxLives, space : Spaces, runs : BOOLEAN, known : BOOLEAN,
                          place : Places \union {"any"}, key : 0..MaxChanges]
  /\ polls \subseteq 1..MaxLives /\ unsupported \subseteq 1..MaxLives /\ late \subseteq 1..MaxLives
  /\ rotated \subseteq Spaces /\ changes \in 0..MaxChanges

\* What goes on waking sessions beside the current life's one source - a loop or a poll timer of
\* a life that is over, a stream loop beside the poll or beside the daemon - goes back to a
\* pass that was under way when its life was stopped or fell back; and within any other life
\* no workspace is followed by two loops.
Current(l) == mounted /\ l = life
Astray(f) == f.runs /\ ~(Current(f.life) /\ f.life \notin unsupported /\ target # f.life)
StrayWakersAreExplained ==
  /\ \A f \in followers : Astray(f) => f.life \in late
  /\ \A l \in polls : ~Current(l) \/ target = l => l \in late
  /\ \A f, g \in followers : f.runs /\ g.runs /\ f.life = g.life /\ f.space = g.space
                              => f = g \/ f.life \in late

\* While the life goes on, every inbox there is comes to be followed: by the daemon, the poll,
\* a stream loop, or a ledger loop of its address.  Two cases are left out: a ledger loop need not
\* have a key that was changed in this life (KeysAreFollowed), and where streams are followed an
\* inbox need not be whose key is no longer in the state file (EveryInboxIsWatched of InboxWatcher).
Followed(w) ==
  \/ target = life \/ life \in polls
  \/ \E f \in followers : /\ f.life = life /\ f.space = w /\ f.runs
                          /\ f.place \in {"any", post[w].place}
                          /\ f.place # "any" => f.key = post[w].key \/ w \in rotated
Unseen(w) == Reconciles /\ plan = "self" /\ ~post[w].old
InboxIsFollowed ==
  \A w \in Spaces :
    (mounted /\ post[w] # NoPost) ~> (Followed(w) \/ Unseen(w) \/ ~mounted \/ post[w] = NoPost)

\* What a rotation of the key takes for granted: the loops come to use the new one.
KeysAreFollowed == \A w \in Spaces :
  (mounted /\ post[w] # NoPost)
     ~> (~mounted \/ post[w] = NoPost \/ \A f \in followers : f.life = life /\ f.space = w /\ f.runs
                                              => f.key = post[w].key \/ f.place = "any")
=============================================================================
