---------------------------- MODULE UnreadBadge ----------------------------
(***************************************************************************)
(* The unread badge: what the mail server counts, what the push channel   *)
(* (the stream loops of this process, or the watcher daemon) last said,    *)
(* the host's one computation with its cache (computeUnread of http.ts),   *)
(* the host's slow diff (reconcileUnread of index.ts), the event bus with  *)
(* its server-sent events, and the panel that asks (refreshUnread and      *)
(* start of client/store.ts).                                              *)
(*                                                                         *)
(* A count is represented by the version of the mailbox it was taken from: *)
(* the n-th change of a mailbox makes version n, and a count is right when *)
(* its version is the mailbox's.  `why' names the one way a value may be   *)
(* older than a read the host has acknowledged; it is history only.        *)
(***************************************************************************)
EXTENDS Integers, FiniteSets

CONSTANTS Keys,         \* the mailboxes of the badge
          Channels,     \* which channels may hold the push side: "stream", "daemon"
          MaxNews,   \* bound: changes of one mailbox
          MaxReads,     \* bound: letters marked here
          MaxFaults,    \* bound: failed requests, lost readings
          GiveUpAfter,  \* errors in a row after which the event stream is given up (3)
          Slots         \* bound: computations under way at a time, 1..n

ASSUME BadgeAssumption == /\ Channels \subseteq {"stream", "daemon"} /\ Channels # {}
                          /\ MaxNews \in Nat /\ MaxReads \in Nat /\ MaxFaults \in Nat /\ GiveUpAfter \in Nat \ {0}
                          /\ Slots \in Nat \ {0}

VARIABLES channel,      \* who holds the push channel of this process
          truth,        \* per key: the version of the mailbox at the server
          acked,        \* per key: the version a read acknowledged here has made
          marking,      \* per key: a /read between its upstream call and its reply
          reads,
          page,         \* per key: a push page answered and not yet noted
          reading,      \* per key: inboxSnapshots, or what the daemon holds
          task,         \* the computations: got so far, keys still open
          inflight,     \* unreadInflight
          cache,        \* unreadCache
          recon,        \* reconcileUnread: the run it waits for, its last view
          panel,        \* refreshUnread of the panel: stage, run, answer, floor
          badge,        \* what the panel shows
          sse,          \* the event stream: open, down, or given up for the timer
          failures,     \* its consecutive errors
          told,         \* an event is on its way to the panel
          excused,      \* history: an event was lost or swallowed since the last ask, or
                        \* the panel was last given less than the host's diff had seen
          badgeFaults

badgeVars == <<channel, truth, acked, marking, reads, page, reading, task, inflight, cache,
               recon, panel, badge, sse, failures, told, excused, badgeFaults>>

server == <<channel, truth, acked, marking, reads>>
host   == <<page, reading, task, inflight, cache, recon>>
view   == <<panel, badge, sse, failures, told, excused>>

Absent == [v |-> 0 - 1, why |-> ""]
NoView == [k \in Keys |-> Absent]
NoCount == [k \in Keys |-> 0 - 1]
NoFloor == [k \in Keys |-> 0]
NoTask == [stage |-> "idle", got |-> NoView, open |-> {}]

Value  == [v : (0 - 1)..MaxNews, why : {"", "page", "local", "run"}]
View   == [Keys -> Value]

-----------------------------------------------------------------------------
BadgeInit ==
  /\ channel \in Channels
  /\ truth = [k \in Keys |-> 0] /\ acked = [k \in Keys |-> 0]
  /\ marking = [k \in Keys |-> 0 - 1] /\ reads = 0
  /\ page = [k \in Keys |-> 0 - 1] /\ reading = NoView
  /\ task = [t \in 1..Slots |-> NoTask] /\ inflight = 0
  /\ cache = [state |-> "none", view |-> NoView]
  /\ recon = [wait |-> 0, last |-> NoCount]
  /\ panel = [stage |-> "asked", wait |-> 0, view |-> NoView, floor |-> acked]
  /\ badge = NoCount
  /\ sse = "open" /\ failures = 0 /\ told = FALSE
  /\ excused = FALSE /\ badgeFaults = 0

Fault == badgeFaults < MaxFaults /\ badgeFaults' = badgeFaults + 1

\* A letter arrives, or is read or closed by someone else.
ChangesElsewhere(k) ==
  /\ truth[k] < MaxNews
  /\ truth' = [truth EXCEPT ![k] = @ + 1]
  /\ UNCHANGED <<channel, acked, marking, reads, host, view, badgeFaults>>

\* bus.emit: every subscriber is written to.  While the stream is down nobody is
\* subscribed, and nothing is sent again when it comes back.
Emit == /\ told' = (told \/ sse = "open")
        /\ excused' = (excused \/ sse = "down")

\* POST /read or /done: the upstream call (the letter may have been read before) ...
MarksHere(k) ==
  /\ reads < MaxReads /\ marking[k] = 0 - 1
  /\ reads' = reads + 1
  /\ \E v \in {truth[k], truth[k] + 1} :
       /\ v <= MaxNews
       /\ truth' = [truth EXCEPT ![k] = v]
       /\ marking' = [marking EXCEPT ![k] = v]
  /\ UNCHANGED <<channel, acked, host, view, badgeFaults>>

\* Slip: invalidateUnreadCache leaves the run in flight registered.
Invalidate_KeepsRun(k) ==
  /\ cache' = [state |-> "none", view |-> NoView]
  /\ inflight' = inflight
  /\ reading' = IF channel = "stream" THEN [reading EXCEPT ![k] = Absent] ELSE reading

\* invalidateUnreadCache(key): the cache, the registration of the run in flight and
\* the stream's reading of the key go; the daemon's reading is not this process's.
Invalidate(k) ==
  /\ cache' = [state |-> "none", view |-> NoView]
  /\ inflight' = 0
  /\ reading' = IF channel = "stream" THEN [reading EXCEPT ![k] = Absent] ELSE reading

\* refreshUnread: a run under way is joined, and what was told meanwhile is not asked again.
Refreshes(floor) ==
  IF panel.stage = "idle"
  THEN /\ panel' = [panel EXCEPT !.stage = "asked", !.floor = floor]
       /\ excused' = FALSE
  ELSE panel' = panel /\ excused' = TRUE

\* ... and, after the local mark is written, the invalidation, the event and the reply,
\* on which the panel whose read it was (markReadOp) refreshes.
AcksHere(k) ==
  /\ marking[k] # 0 - 1
  /\ acked' = [acked EXCEPT ![k] = IF @ < marking[k] THEN marking[k] ELSE @]
  /\ marking' = [marking EXCEPT ![k] = 0 - 1]
  /\ Invalidate(k)
  /\ \/ Emit /\ UNCHANGED panel
     \/ told' = (told \/ sse = "open") /\ Refreshes(acked')
  /\ UNCHANGED <<channel, truth, reads, page, task, recon, badge, sse, failures, badgeFaults>>

-----------------------------------------------------------------------------
(* The push channel *)

\* A long poll (or a fetch of the daemon) is answered by the server.
PageAnswered(k) ==
  /\ page[k] = 0 - 1
  /\ page' = [page EXCEPT ![k] = truth[k]]
  /\ UNCHANGED <<server, reading, task, inflight, cache, recon, view, badgeFaults>>

\* noteInboxSnapshot, or lastUnread of the daemon's engine; a page with letters also
\* emits 'mail' (onEvent), which leaves the cache of computeUnread alone.
PageNoted(k) ==
  /\ page[k] # 0 - 1
  /\ page' = [page EXCEPT ![k] = 0 - 1]
  /\ reading' = [reading EXCEPT ![k] =
       [v |-> page[k], why |-> IF channel = "daemon" THEN "local"
                               ELSE IF page[k] < acked[k] THEN "page" ELSE ""]]
  /\ \/ Emit
     \/ UNCHANGED <<told, excused>>
  /\ UNCHANGED <<server, task, inflight, cache, recon, panel, badge, sse, failures, badgeFaults>>

\* A reading grows too old, its loop ends (clearInboxSnapshot), or the daemon does not answer.
ReadingLost(k) ==
  /\ reading[k] # Absent /\ Fault
  /\ reading' = [reading EXCEPT ![k] = Absent]
  /\ UNCHANGED <<server, page, task, inflight, cache, recon, view>>

-----------------------------------------------------------------------------
(* computeUnread *)

IdleSlots == {t \in 1..Slots : task[t].stage = "idle"}

\* Its three ways to answer: the run in flight, the cache, a run of its own.
Joins == inflight # 0 /\ UNCHANGED <<task, inflight>>
Cached == inflight = 0 /\ cache.state = "fresh" /\ UNCHANGED <<task, inflight>>
Starts(t) == /\ inflight = 0 /\ cache.state # "fresh" /\ t \in IdleSlots
             /\ task' = [task EXCEPT ![t] = [NoTask EXCEPT !.stage = "loading"]]
             /\ inflight' = t

\* A run that an invalidation has overtaken is still awaited by those who joined it.
Superseded(t) == inflight # t

\* The counts of a run; a key that failed keeps the count of the view before it.
Counted(t, got) ==
  [k \in Keys |->
     LET x == IF got[k] # Absent THEN got[k] ELSE cache.view[k]
     IN  IF Superseded(t) /\ x # Absent /\ x.why = "" THEN [x EXCEPT !.why = "run"] ELSE x]

Versions(w) == [k \in Keys |-> w[k].v]

\* Slip: reconcileUnread remembers the view but forgets to tell the subscribers.
Compares_Mute(seen) ==
  /\ recon' = [wait |-> 0, last |-> Versions(seen)]
  /\ UNCHANGED <<told, excused>>

\* reconcileUnread: an event only for a change.
Compares(seen) ==
  /\ recon' = [wait |-> 0, last |-> Versions(seen)]
  /\ IF Versions(seen) # recon.last THEN Emit ELSE UNCHANGED <<told, excused>>

\* The end of a run: the cache is written whatever happened meanwhile, the registration is
\* taken down if it is still this run's, and those who wait are answered.
Finishes(t, got) ==
  LET counts == Counted(t, got) IN
  /\ cache' = [state |-> "fresh", view |-> counts]
  /\ inflight' = IF inflight = t THEN 0 ELSE inflight
  /\ IF recon.wait = t THEN Compares(counts) ELSE UNCHANGED <<recon, told, excused>>
  /\ panel' = IF panel.wait = t
              THEN [panel EXCEPT !.stage = "answered", !.wait = 0, !.view = counts]
              ELSE panel
  /\ task' = [task EXCEPT ![t] = NoTask]

\* loadState, the credentials and readLocalSnapshots have answered: a key with a usable
\* reading takes it (pickSnapshot), the others are asked of the server.
Picks(t) ==
  /\ task[t].stage = "loading"
  /\ LET open == {k \in Keys : reading[k] = Absent} IN
     IF open = {} THEN Finishes(t, reading)
     ELSE /\ task' = [task EXCEPT ![t] = [stage |-> "asking", got |-> reading, open |-> open]]
          /\ UNCHANGED <<inflight, cache, recon, panel, told, excused>>
  /\ UNCHANGED <<server, page, reading, badge, sse, failures, badgeFaults>>

RestAnswers(t, k) ==
  /\ k \in task[t].open
  /\ task' = [task EXCEPT ![t] = [stage |-> task[t].stage,
                                  got |-> [task[t].got EXCEPT ![k] = [v |-> truth[k], why |-> ""]],
                                  open |-> task[t].open \ {k}]]
  /\ UNCHANGED <<server, page, reading, inflight, cache, recon, view, badgeFaults>>

RestFails(t, k) ==
  /\ k \in task[t].open /\ Fault
  /\ task' = [task EXCEPT ![t].open = @ \ {k}]
  /\ UNCHANGED <<server, page, reading, inflight, cache, recon, view>>

\* The last answer of the server arrives.
Arrives(t) ==
  /\ task[t].stage = "asking" /\ task[t].open = {}
  /\ Finishes(t, task[t].got)
  /\ UNCHANGED <<server, page, reading, badge, sse, failures, badgeFaults>>

CacheExpires ==
  /\ cache.state = "fresh"
  /\ cache' = [cache EXCEPT !.state = "stale"]
  /\ UNCHANGED <<server, page, reading, task, inflight, recon, view, badgeFaults>>

\* The 120 s pass of reconcileUnread.
Recounts ==
  /\ recon.wait = 0
  /\ \/ Joins /\ recon' = [recon EXCEPT !.wait = inflight] /\ UNCHANGED <<told, excused>>
     \/ Cached /\ Compares(cache.view)
     \/ \E t \in IdleSlots : /\ \A u \in IdleSlots : t <= u
                             /\ Starts(t) /\ recon' = [recon EXCEPT !.wait = t]
                             /\ UNCHANGED <<told, excused>>
  /\ UNCHANGED <<server, page, reading, cache, panel, badge, sse, failures, badgeFaults>>

-----------------------------------------------------------------------------
(* The panel *)

\* GET /unread reaches the host.
PanelServed ==
  /\ panel.stage = "asked"
  /\ \/ Joins /\ panel' = [panel EXCEPT !.stage = "waiting", !.wait = inflight]
     \/ Cached /\ panel' = [panel EXCEPT !.stage = "answered", !.view = cache.view]
     \/ \E t \in IdleSlots : /\ \A u \in IdleSlots : t <= u
                             /\ Starts(t)
                             /\ panel' = [panel EXCEPT !.stage = "waiting", !.wait = t]
  /\ UNCHANGED <<server, page, reading, cache, recon, badge, sse, failures, told, excused, badgeFaults>>

PanelHears ==
  /\ told /\ told' = FALSE /\ failures' = 0
  /\ Refreshes(acked)
  /\ UNCHANGED <<server, host, badge, sse, badgeFaults>>

\* ensureTimer: the fallback once the event stream is given up.
PanelTicks ==
  /\ sse = "timer" /\ panel.stage = "idle" /\ Refreshes(acked)
  /\ UNCHANGED <<server, host, badge, sse, failures, told, badgeFaults>>

PanelShows ==
  /\ panel.stage = "answered"
  /\ badge' = Versions(panel.view)
  /\ excused' = (excused \/ \E k \in Keys : panel.view[k].v < recon.last[k])
  /\ panel' = [panel EXCEPT !.stage = "idle", !.view = NoView, !.floor = NoFloor]
  /\ UNCHANGED <<server, host, sse, failures, told, badgeFaults>>

\* The request fails or times out: the badge keeps its count.
PanelFails ==
  /\ panel.stage # "idle" /\ Fault
  /\ panel' = [panel EXCEPT !.stage = "idle", !.wait = 0, !.view = NoView, !.floor = NoFloor]
  /\ excused' = TRUE
  /\ UNCHANGED <<server, host, badge, sse, failures, told>>

\* Slip: one error too many before the stream is given up.
GivesUp_Late(n) == n > GiveUpAfter
GivesUp(n) == n >= GiveUpAfter

\* onerror: what was on the wire is lost; GiveUpAfter in a row give the stream up.
StreamErrs ==
  /\ sse # "timer"
  /\ failures' = failures + 1
  /\ sse' = IF GivesUp(failures') THEN "timer" ELSE "down"
  /\ told' = FALSE /\ excused' = (excused \/ told)
  /\ UNCHANGED <<server, host, panel, badge, badgeFaults>>

\* The browser connects again; the host's first words are a comment, not a message.
StreamReopens ==
  /\ sse = "down" /\ sse' = "open"
  /\ UNCHANGED <<server, host, panel, badge, failures, told, excused, badgeFaults>>

-----------------------------------------------------------------------------
BadgeHost == \/ \E k \in Keys : AcksHere(k) \/ PageAnswered(k) \/ PageNoted(k)
             \/ \E t \in 1..Slots : Picks(t) \/ Arrives(t) \/ \E k \in Keys : RestAnswers(t, k)
             \/ CacheExpires \/ Recounts
BadgePanel == PanelServed \/ PanelHears \/ PanelTicks \/ PanelShows \/ StreamReopens
BadgeWorld == \/ \E k \in Keys : ChangesElsewhere(k) \/ MarksHere(k) \/ ReadingLost(k)
              \/ \E t \in 1..Slots, k \in Keys : RestFails(t, k)
              \/ PanelFails \/ StreamErrs

BadgeNext == BadgeHost \/ BadgePanel \/ BadgeWorld

\* Timers, answered requests and the browser's event loop do run; nothing makes mail
\* arrive, a reading grow old or a request fail.
BadgeFairness ==
  /\ \A k \in Keys : /\ WF_badgeVars(AcksHere(k)) /\ WF_badgeVars(PageAnswered(k))
                     /\ WF_badgeVars(PageNoted(k))
  /\ \A t \in 1..Slots : /\ WF_badgeVars(Picks(t)) /\ WF_badgeVars(Arrives(t))
                         /\ \A k \in Keys : WF_badgeVars(RestAnswers(t, k))
  /\ WF_badgeVars(CacheExpires) /\ WF_badgeVars(Recounts) /\ WF_badgeVars(PanelServed)
  /\ WF_badgeVars(PanelHears) /\ WF_badgeVars(PanelTicks) /\ WF_badgeVars(PanelShows)
  /\ WF_badgeVars(StreamReopens)

BadgeSpec == BadgeInit /\ [][BadgeNext]_badgeVars /\ BadgeFairness

-----------------------------------------------------------------------------
BadgeTypeOK ==
  /\ channel \in Channels
  /\ truth \in [Keys -> 0..MaxNews] /\ acked \in [Keys -> 0..MaxNews]
  /\ marking \in [Keys -> (0 - 1)..MaxNews] /\ reads \in 0..MaxReads
  /\ page \in [Keys -> (0 - 1)..MaxNews] /\ reading \in View
  /\ task \in [1..Slots -> [stage : {"idle", "loading", "asking"}, got : View, open : SUBSET Keys]]
  /\ inflight \in 0..Slots
  /\ cache \in [state : {"none", "fresh", "stale"}, view : View]
  /\ recon \in [wait : 0..Slots, last : [Keys -> (0 - 1)..MaxNews]]
  /\ panel \in [stage : {"idle", "asked", "waiting", "answered"}, wait : 0..Slots, view : View,
                floor : [Keys -> 0..MaxNews]]
  /\ badge \in [Keys -> (0 - 1)..MaxNews]
  /\ sse \in {"open", "down", "timer"} /\ failures \in 0..GiveUpAfter
  /\ told \in BOOLEAN /\ excused \in BOOLEAN
  /\ badgeFaults \in 0..MaxFaults

\* A value is at least as new as b, or is not there, or says why it is not.
Explained(x, b) == x = Absent \/ x.v >= b \/ x.why # ""

\* The answer to an ask made after a read was acknowledged counts that read, unless it
\* rests on the daemon's reading, on a push page that crossed the read, or on a run that
\* the read overtook: no other way leads back to the count before it.
OldCountsAreExplained ==
  panel.stage = "answered" => \A k \in Keys : Explained(panel.view[k], panel.floor[k])

\* The badge comes to show every mailbox as it is, unless the last event was lost with the
\* stream or swallowed by a request under way, or the panel was last given a count older
\* than the one the host's diff had already seen (which it will not report again).
BadgeConverges ==
  <>[](excused \/ badge = truth)

\* What http.ts says of invalidateUnreadCache: the badge drops at once after a read.
BadgeDropsAtOnce ==
  panel.stage = "answered" =>
    \A k \in Keys : panel.view[k] = Absent \/ panel.view[k].v >= panel.floor[k]
=============================================================================
