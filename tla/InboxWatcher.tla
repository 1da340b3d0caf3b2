---------------------------- MODULE InboxWatcher ----------------------------
(***************************************************************************)
(* The watcher inside the plugin process, which stands in when no watcher  *)
(* daemon can be reached: one inbox, its stream loop (streamInboxLoop) and *)
(* the interval poll it falls back to (pollOnce), the batch that gathers a *)
(* flurry, the last mile to a session (deliverBatch) with its ring of      *)
(* announced letters, and the loops' supervisor (index.ts).                *)
(*                                                                         *)
(* Letters are numbered in the order they arrive; a cursor is a position   *)
(* among them.  `fate' is history: the first point at which a letter was   *)
(* put out of reach without having been announced.                         *)
(***************************************************************************)
EXTENDS Integers, FiniteSets

CONSTANTS MaxLetters,       \* bound: letters that arrive
          PageSize,         \* letters of a page without a position
          MaxUpsets,        \* bound: crashes, failed writes, missing sessions
          MaxAhead          \* bound: letters that come while the host's clock is ahead

ASSUME WatcherAssumption == /\ MaxLetters \in Nat /\ PageSize \in Nat \ {0}
                            /\ MaxUpsets \in Nat /\ MaxAhead \in Nat

Mail == 1..MaxLetters
NoPlace == 0 - 1
Readers == {"stream", "poll"}

VARIABLES arrived, closed,      \* the mail server: letters there are, letters dealt with
          issues, streams,      \* what it offers: cursors on plain pages, /inbox/stream
          rawKey,               \* state.json still holds the inbox's own key
          watchCursor, lastSeen,            \* the persisted watch state
          mode,                 \* off, stream or poll
          loop,                 \* the stream loop runs; it may be told to stop
          reader,               \* per reader: its step, the page in hand
          batch,                \* letters of the coalescing window
          deliveries,           \* deliverBatch calls under way
          ring,                 \* announced in this life
          session, lastWake,    \* the live session (0: none), the one noted last
          heard, announced, twice,    \* history: in this life, in any, twice in one
          raced,                \* history: letters two deliveries held at once
          fate, upsets

watchVars == <<arrived, closed, issues, streams, rawKey, watchCursor, lastSeen, mode, loop, reader,
               batch, deliveries, ring, session, lastWake, heard, announced, twice, raced, fate, upsets>>
offer == <<issues, streams>>
disk == <<rawKey, watchCursor, lastSeen>>
sessions == <<session, lastWake>>
history == <<heard, announced, twice, raced>>

AtRest == [pc |-> "rest", lo |-> 0, hi |-> 0, boot |-> FALSE]
PageOf(r) == reader[r].lo + 1..reader[r].hi

WatchInit ==
  /\ arrived = 0 /\ closed = {} /\ issues \in BOOLEAN /\ streams \in BOOLEAN
  /\ rawKey \in BOOLEAN /\ watchCursor = NoPlace /\ lastSeen = 0
  /\ mode = "off" /\ loop = "none" /\ reader = [r \in Readers |-> AtRest]
  /\ batch = {} /\ deliveries = {} /\ ring = {} /\ session = 1 /\ lastWake = 0
  /\ heard = {} /\ announced = {} /\ twice = {} /\ raced = {}
  /\ fate = [l \in Mail |-> "none"] /\ upsets = 0

\* The letters ls are put out of reach, for the reason why.
Lose(ls, why) == fate' = [l \in Mail |-> IF l \in ls /\ fate[l] = "none" THEN why ELSE fate[l]]
Upset == upsets < MaxUpsets /\ upsets' = upsets + 1

-----------------------------------------------------------------------------
(* The world *)

MailArrives ==
  /\ arrived < MaxLetters /\ arrived' = arrived + 1
  /\ UNCHANGED <<closed, offer, disk, mode, loop, reader, batch, deliveries, ring, sessions, history,
                 fate, upsets>>

\* Read and dealt with elsewhere.
MailCloses(l) ==
  /\ l \in 1..arrived \ closed /\ closed' = closed \union {l}
  /\ UNCHANGED <<arrived, offer, disk, mode, loop, reader, batch, deliveries, ring, sessions, history,
                 fate, upsets>>

SessionEnds ==
  /\ session # 0 /\ Upset /\ session' = 0
  /\ UNCHANGED <<arrived, closed, offer, disk, mode, loop, reader, batch, deliveries, ring, lastWake,
                 history, fate>>

SessionOpens ==
  /\ session = 0 /\ session' = upsets + 1
  /\ UNCHANGED <<arrived, closed, offer, disk, mode, loop, reader, batch, deliveries, ring, lastWake,
                 history, fate, upsets>>

-----------------------------------------------------------------------------
(* The supervisor *)

\* startInProcessWatcher: the stream loops, or the poll where the environment forbids them.
WatchStarts ==
  /\ mode = "off" /\ mode' \in {"stream", "poll"}
  /\ UNCHANGED <<arrived, closed, offer, disk, loop, reader, batch, deliveries, ring, sessions, history,
                 fate, upsets>>

\* reconcile of index.ts, every minute: it asks state.json itself for the key.
Adopts ==
  /\ mode = "stream" /\ loop = "none" /\ rawKey
  /\ loop' = "runs"
  /\ UNCHANGED <<arrived, closed, offer, disk, mode, reader, batch, deliveries, ring, sessions, history,
                 fate, upsets>>

\* The process ends: what is past the cursor and only in memory is gone.
InHand == batch \union (UNION {d.letters : d \in deliveries})
                \union (UNION {IF reader[r].pc \in {"cursor", "seen"} THEN PageOf(r) ELSE {} : r \in Readers})
WatchCrashes ==
  /\ mode # "off" /\ Upset
  /\ mode' = "off" /\ loop' = "none" /\ reader' = [r \in Readers |-> AtRest]
  /\ batch' = {} /\ deliveries' = {} /\ ring' = {} /\ heard' = {}
  /\ Lose(InHand \ announced, "crash")
  /\ UNCHANGED <<arrived, closed, offer, disk, sessions, announced, twice, raced>>

\* The server has no /inbox/stream: the loop is told to stop and the poll starts.
FallsBack ==
  /\ loop = "runs" /\ reader["stream"].pc = "rest" /\ watchCursor # NoPlace /\ ~streams
  /\ mode' = "poll" /\ loop' = "none"
  /\ UNCHANGED <<arrived, closed, offer, disk, reader, batch, deliveries, ring, sessions, history, fate,
                 upsets>>

\* The loop of another inbox meets that answer: every loop is told to stop, wherever it is.
OthersFallBack ==
  /\ mode = "stream" /\ mode' = "poll" /\ loop' = "none"
  /\ UNCHANGED <<arrived, closed, offer, disk, reader, batch, deliveries, ring, sessions, history, fate,
                 upsets>>

-----------------------------------------------------------------------------
(* A reader: page, cursor, newest letter, batch *)

CanRead(r) == /\ reader[r].pc = "rest"
              /\ r = "stream" => loop = "runs"
              /\ r = "poll" => mode = "poll"

\* A page after the cursor.
FetchSince(r) ==
  /\ CanRead(r) /\ watchCursor # NoPlace /\ watchCursor < arrived
  /\ r = "stream" => streams
  /\ reader' = [reader EXCEPT ![r] = [pc |-> "page", lo |-> watchCursor, hi |-> arrived, boot |-> FALSE]]
  /\ rawKey' = FALSE
  /\ UNCHANGED <<arrived, closed, offer, watchCursor, lastSeen, mode, loop, batch, deliveries,
                 ring, sessions, history, fate, upsets>>

\* Slip: a page longer than the mailbox starts before its first letter.
NewestFrom_Unclamped == arrived - PageSize
NewestFrom == IF arrived > PageSize THEN arrived - PageSize ELSE 0

\* The newest page, when there is no cursor yet (pollInbox).
FetchNewest(r) ==
  /\ CanRead(r) /\ watchCursor = NoPlace
  /\ reader' = [reader EXCEPT ![r] =
       [pc |-> "page", lo |-> NewestFrom, hi |-> arrived, boot |-> TRUE]]
  /\ rawKey' = FALSE
  /\ UNCHANGED <<arrived, closed, offer, watchCursor, lastSeen, mode, loop, batch, deliveries,
                 ring, sessions, history, fate, upsets>>

\* A stream loop that was stopped during its request drops the page.
DropsPage ==
  /\ reader["stream"].pc = "page" /\ ~reader["stream"].boot /\ loop # "runs"
  /\ reader' = [reader EXCEPT !["stream"] = AtRest]
  /\ UNCHANGED <<arrived, closed, offer, disk, mode, loop, batch, deliveries, ring, sessions, history,
                 fate, upsets>>

\* A bootstrap page with a cursor announces nothing; one without hands on what is newer than
\* the newest letter known, if one was known.
Fresh(r) ==
  IF ~reader[r].boot THEN PageOf(r)
  ELSE IF issues \/ lastSeen = 0 THEN {} ELSE {l \in PageOf(r) : l > lastSeen}

\* What a bootstrap passes over for good: the history there was, what did not fit the page.
PassesOver(r) ==
  Lose(IF reader[r].boot THEN {l \in 1..reader[r].hi \ Fresh(r) : l > lastSeen /\ l \notin announced}
                         ELSE {},
       IF lastSeen = 0 THEN "history" ELSE "page")

\* The page is taken: from here on the loop goes on to its end, stopped or not.
TakesPage(r) ==
  /\ reader[r].pc = "page" /\ ~reader[r].boot
  /\ r = "stream" => loop = "runs"
  /\ reader' = [reader EXCEPT ![r].pc = "taken"]
  /\ UNCHANGED <<arrived, closed, offer, disk, mode, loop, batch, deliveries, ring, sessions, history,
                 fate, upsets>>

\* next_cursor is written before the letters are handed on.
WriteWatchCursor(r) ==
  /\ IF reader[r].boot THEN reader[r].pc = "page" /\ issues ELSE reader[r].pc = "taken"
  /\ watchCursor' = reader[r].hi /\ PassesOver(r)
  /\ reader' = [reader EXCEPT ![r].pc = "cursor"]
  /\ UNCHANGED <<arrived, closed, offer, rawKey, lastSeen, mode, loop, batch, deliveries, ring,
                 sessions, history, upsets>>

\* Where the letters of a page begin that are newer than the newest letter known.
FirstNew(r) == IF reader[r].boot /\ reader[r].lo < lastSeen THEN lastSeen ELSE reader[r].lo

\* watch_last_message_id and watch_last_seen_at.
WriteLastSeen(r) ==
  /\ reader[r].pc = IF reader[r].boot /\ ~issues THEN "page" ELSE "cursor"
  /\ lastSeen' = IF PageOf(r) = {} THEN lastSeen ELSE reader[r].hi
  /\ PassesOver(r)
  /\ reader' = [reader EXCEPT ![r] = IF Fresh(r) = {} THEN [AtRest EXCEPT !.pc =
                                          IF r = "stream" /\ watchCursor = NoPlace THEN "mint" ELSE "rest"]
                                     ELSE [reader[r] EXCEPT !.pc = "seen", !.lo = FirstNew(r)]]
  /\ UNCHANGED <<arrived, closed, offer, rawKey, watchCursor, mode, loop, batch, deliveries,
                 ring, sessions, history, upsets>>

\* A write fails: before the cursor nothing is lost, after it the page is.
WriteThrows(r) ==
  /\ reader[r].pc \in {"page", "taken", "cursor", "seen"} /\ Upset
  /\ reader' = [reader EXCEPT ![r] = AtRest]
  /\ Lose(IF reader[r].pc \in {"page", "taken"} THEN {} ELSE PageOf(r) \ announced, "torn")
  /\ UNCHANGED <<arrived, closed, offer, disk, mode, loop, batch, deliveries, ring, sessions, history>>

\* Slip: a second flurry replaces the batch of the first.
Gather_Replaces(ls) == batch' = ls
\* enqueueDelivery: the letters join the batch, whose window starts anew.
Gather(ls) == batch' = batch \union ls

\* Muted mail is tracked and never replayed.
Enqueue(r) ==
  /\ reader[r].pc = "seen"
  /\ \/ Gather(PageOf(r)) /\ UNCHANGED fate
     \/ UNCHANGED batch /\ Lose(PageOf(r) \ announced, "muted")
  /\ reader' = [reader EXCEPT ![r] = [AtRest EXCEPT !.pc =
                  IF r = "stream" /\ watchCursor = NoPlace THEN "mint" ELSE "rest"]]
  /\ UNCHANGED <<arrived, closed, offer, disk, mode, loop, deliveries, ring, sessions, history, upsets>>

\* The stream loop mints a cursor of now, by the clock of the host: what arrived since its
\* page is passed over, and what arrives before the server's clock has caught up.
MintStreamCursor ==
  /\ reader["stream"].pc = "mint"
  /\ IF watchCursor # NoPlace THEN UNCHANGED <<watchCursor, fate>>
     ELSE \E now \in arrived..arrived + MaxAhead :
            now <= MaxLetters /\ watchCursor' = now /\ Lose(lastSeen + 1..now, "gap")
  /\ reader' = [reader EXCEPT !["stream"] = AtRest]
  /\ UNCHANGED <<arrived, closed, offer, rawKey, lastSeen, mode, loop, batch, deliveries, ring,
                 sessions, history, upsets>>

-----------------------------------------------------------------------------
(* The last mile *)

\* flushBatch takes the batch; without a live session deliverBatch answers false, which
\* flushBatch does not look at.
Flush ==
  /\ batch # {} /\ batch' = {}
  /\ IF session # 0
     THEN /\ deliveries' = deliveries \union
               {[id |-> CHOOSE i \in 1..Cardinality(deliveries) + 1 : \A d \in deliveries : d.id # i,
                 pc |-> "ask", target |-> session, sticky |-> session = lastWake, letters |-> batch]}
          /\ UNCHANGED fate
     ELSE UNCHANGED deliveries /\ Lose(batch \ announced, "nobody")
  /\ UNCHANGED <<arrived, closed, offer, disk, mode, loop, reader, ring, sessions, history, upsets>>

\* Slip: the ring of announced letters is not asked.
Unannounced_All(ls) == ls
Unannounced(ls) == ls \ ring

\* The letters are noted and said to the session, if it is still there to hear them.
Announce(ls, target) ==
  /\ ring' = ring \union ls
  /\ IF target = session
     THEN /\ twice' = twice \union (ls \intersect heard)
          /\ heard' = heard \union ls /\ announced' = announced \union ls
     ELSE UNCHANGED <<heard, announced, twice>>

\* onlyUnprocessed answers (or fails, and everything counts as open); then the ring is read.
\* A session noted before is spoken to at once; another one is noted first.
Reconcile(d) ==
  /\ d \in deliveries /\ d.pc = "ask"
  /\ \E open \in {d.letters \ closed, d.letters} :
       LET fresh == Unannounced(open) IN
       /\ raced' = raced \union {l \in fresh : \E e \in deliveries : e.pc = "tell" /\ l \in e.letters}
       /\ IF fresh # {} /\ ~d.sticky
          THEN /\ deliveries' = (deliveries \ {d}) \union {[d EXCEPT !.pc = "tell", !.letters = fresh]}
               /\ Lose((d.letters \ open) \ announced, "closed")
               /\ UNCHANGED <<ring, heard, announced, twice>>
          ELSE /\ deliveries' = deliveries \ {d}
               /\ Announce(fresh, d.target)
               /\ Lose((IF d.target = session THEN d.letters \ open ELSE d.letters) \ announced,
                       IF d.target = session THEN "closed" ELSE "ended")
  /\ UNCHANGED <<arrived, closed, offer, disk, mode, loop, reader, batch, sessions, upsets>>

\* The session to come back to has been written.
Tell(d) ==
  /\ d \in deliveries /\ d.pc = "tell"
  /\ deliveries' = deliveries \ {d}
  /\ lastWake' = d.target /\ Announce(d.letters, d.target)
  /\ Lose(IF d.target = session THEN {} ELSE d.letters \ announced, "ended")
  /\ UNCHANGED <<arrived, closed, offer, disk, mode, loop, reader, batch, session, raced, upsets>>

\* That write fails: the batch is gone.
TellThrows(d) ==
  /\ d \in deliveries /\ d.pc = "tell" /\ Upset
  /\ deliveries' = deliveries \ {d}
  /\ Lose(d.letters \ announced, "torn")
  /\ UNCHANGED <<arrived, closed, offer, disk, mode, loop, reader, batch, ring, sessions, history>>

-----------------------------------------------------------------------------
Reads(r) == \/ FetchSince(r) \/ FetchNewest(r) \/ TakesPage(r) \/ WriteWatchCursor(r)
            \/ WriteLastSeen(r) \/ Enqueue(r)
            \/ r = "stream" /\ (DropsPage \/ MintStreamCursor)
Delivers == \E d \in deliveries : Reconcile(d) \/ Tell(d)
WatchSteps == Adopts \/ FallsBack \/ Flush \/ Delivers \/ \E r \in Readers : Reads(r)
WatchWorld == \/ MailArrives \/ SessionEnds \/ SessionOpens \/ WatchStarts \/ WatchCrashes \/ OthersFallBack
              \/ \E l \in Mail : MailCloses(l)
              \/ \E r \in Readers : WriteThrows(r)
              \/ \E d \in deliveries : TellThrows(d)
WatchNext == WatchSteps \/ WatchWorld

\* The supervisor's interval, each reader, the batch's timer and the deliveries go on while they
\* can; nothing makes mail arrive, a session open or a process start.
WatchFairness == /\ WF_watchVars(Adopts \/ FallsBack) /\ WF_watchVars(Flush) /\ WF_watchVars(Delivers)
                 /\ \A r \in Readers : WF_watchVars(Reads(r))
WatchSpec == WatchInit /\ [][WatchNext]_watchVars /\ WatchFairness

-----------------------------------------------------------------------------
Causes == {"none", "history", "page", "gap", "muted", "closed", "nobody", "ended", "torn", "crash"}

WatchTypeOK ==
  /\ arrived \in 0..MaxLetters /\ closed \subseteq 1..arrived
  /\ issues \in BOOLEAN /\ streams \in BOOLEAN /\ rawKey \in BOOLEAN
  /\ watchCursor \in NoPlace..MaxLetters /\ lastSeen \in 0..arrived
  /\ mode \in {"off", "stream", "poll"} /\ loop \in {"none", "runs"}
  /\ reader \in [Readers -> [pc : {"rest", "page", "taken", "cursor", "seen", "mint"}, lo : 0..MaxLetters,
                             hi : 0..arrived, boot : BOOLEAN]]
  /\ batch \subseteq 1..arrived /\ ring \subseteq 1..arrived
  /\ session \in 0..MaxUpsets + 1 /\ lastWake \in 0..MaxUpsets + 1
  /\ \A d \in deliveries : /\ d.id \in Nat /\ d.pc \in {"ask", "tell"} /\ d.letters \subseteq 1..arrived
                             /\ d.target \in 1..MaxUpsets + 1 /\ d.sticky \in BOOLEAN
  /\ heard \subseteq announced /\ announced \subseteq 1..arrived
  /\ twice \subseteq heard \union announced /\ raced \subseteq 1..arrived
  /\ fate \in [Mail -> Causes] /\ upsets \in 0..MaxUpsets

\* A letter the persisted position has passed was announced, or is on its way through the
\* process, or was put out of reach at one of the nine named points: no other step of the
\* readers, the batch or the deliveries loses one.
Position == IF watchCursor = NoPlace THEN lastSeen ELSE watchCursor
PassedMailIsAccountedFor ==
  \A l \in 1..arrived : l <= Position => l \in announced \/ fate[l] # "none" \/ l \in InHand

\* The watcher keeps the promise of MailPromise: a letter on its way is told, or let go for one
\* of the named reasons, and never just dropped behind the position.
Status == [l \in Mail |-> IF l \in announced THEN "told" ELSE IF fate[l] # "none" THEN "excused"
                          ELSE IF l \in InHand THEN "held" ELSE "waiting"]
Promise == INSTANCE MailPromise WITH Letters <- Mail, passed <- {l \in 1..arrived : l <= Position},
                                     status <- Status
WatcherKeepsThePromise == Promise!PromiseSpec

\* A letter is announced twice in one life only if two deliveries held it at once, both past
\* the ring and one of them still writing the session it goes to.
AnnouncedTwiceOnlyInARace == twice \subseteq raced

\* Mail that comes while the inbox is watched is announced or accounted for, or the process ends.
Watching == mode = "poll" \/ loop = "runs"
MailIsAnnounced ==
  \A l \in Mail : (l <= arrived /\ Watching) ~>
                    (l \in announced \/ fate[l] # "none" \/ l \in closed \/ mode = "off")

\* What index.ts says of its loops: one for every inbox there is.
EveryInboxIsWatched == (mode = "stream") ~> (Watching \/ mode = "off")
=============================================================================
