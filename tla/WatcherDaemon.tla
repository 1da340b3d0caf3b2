---------------------------- MODULE WatcherDaemon ----------------------------
(***************************************************************************)
(* One inbox of the msg9 watcher daemon (src/host/daemon/engine.ts and     *)
(* state.ts): the fetch pass, the coalescing batch and its flush, the      *)
(* pending queue and its replay, the orphan sweep, the mute switch, and    *)
(* the write queue that persists all of it.                                *)
(*                                                                         *)
(* The daemon is one JavaScript thread.  An action is the code between two *)
(* awaits; what may interleave is therefore what the awaits let through.   *)
(* A store mutation is applied to memory and then written: the process     *)
(* that asked for it continues when the write has ended.                   *)
(*                                                                         *)
(* Abstractions.  A letter is its position in the server's stream, a       *)
(* server-issued cursor the position of the last letter it covers, 0 the   *)
(* absent cursor (the server issues none for an empty mailbox).  A pending *)
(* item is identified by the cursor_seq it carries, which no two items     *)
(* share (PendingSeqsAreDistinct).  Timers fire at any time once armed.    *)
(* The delivered_ids ring is larger than the mail of a run.  Unread        *)
(* counts, addresses, the wake mode and logging are left out.              *)
(***************************************************************************)
EXTENDS Integers, FiniteSets

CONSTANTS
    MaxMail,      \* bound: letters the server ever stores
    PageLimit,    \* fetchPageLimit
    MaxPages,     \* fetchMaxPages
    PendingCap,   \* pendingCap
    MaxCrashes,   \* bound: crashes of the daemon
    MaxFaults,    \* bound: failed writes of state.json
    MaxLost,      \* bound: deliveries whose answer is lost
    MaxMutes,     \* bound: uses of the mute switch
    MaxCloses     \* bound: letters closed elsewhere

ASSUME BoundsAssumption ==
    /\ MaxMail \in Nat /\ MaxCrashes \in Nat /\ MaxFaults \in Nat /\ MaxLost \in Nat
    /\ MaxMutes \in Nat /\ MaxCloses \in Nat
ASSUME ConfigAssumption ==
    /\ PageLimit \in Nat \ {0} /\ MaxPages \in Nat \ {0} /\ PendingCap \in Nat \ {0}

VARIABLES
    mail,         \* letters stored by the server so far
    closed,       \* letters processed somewhere, hence not "unprocessed"
    instance,     \* the registry's entry for this inbox
    mem,          \* DaemonState in memory
    disk,         \* state.json
    writing,      \* whose mutation is being written, or "none"
    cursor,       \* InboxRunner.fetchCursor
    fetch,        \* the fetch pass
    flushTimer, retryTimer,   \* armed?
    flush,        \* the flush pass
    replay,       \* the pending replay
    sweep,        \* the orphan sweep
    sawRegistration,
    crashes, faults, lost, mutes,    \* occurrences of each bounded event so far
    told,         \* history: accepted deliveries of each letter
    waived,       \* history: letters the daemon meant not to announce
    exposed       \* history: letters that met one of the known loss windows

serverVars == <<mail, closed>>
storeVars  == <<mem, disk, writing>>
timers     == <<flushTimer, retryTimer>>
faultVars  == <<crashes, faults, lost, mutes>>
history    == <<told, waived, exposed>>
vars == <<serverVars, instance, storeVars, cursor, fetch, timers, flush, replay,
          sweep, sawRegistration, faultVars, history>>

Letters == 1..MaxMail
Writers == {"fetch", "flush", "replay", "sweep", "notify", "other"}

----------------------------------------------------------------------------
(* The persisted state.                                                    *)

NoBatch == [messages |-> {}, next_cursor |-> 0, cursor_seq |-> 0]

EmptyState ==
    [watch_cursor |-> 0, fetch_cursor |-> 0, cursor_seq |-> 0, acked_seq |-> 0,
     bootstrap_pending |-> FALSE, delivered_ids |-> {}, batch |-> NoBatch,
     pending |-> {}, notify_paused |-> FALSE]

BatchMessages(s)   == s.batch.messages
PendingMessages(s) == UNION {item.messages : item \in s.pending}

\* The dedupe set of the intake.
knownMessageIds(s) == s.delivered_ids \cup BatchMessages(s) \cup PendingMessages(s)

\* Slip: without the sequence guard the last ack wins.
Commit_Unguarded(s, seq, next, ids) ==
    [s EXCEPT !.watch_cursor = IF next # 0 THEN next ELSE s.fetch_cursor,
              !.acked_seq = seq, !.delivered_ids = @ \cup ids]

\* The one rule that moves watch_cursor after an ack: a stale sequence never
\* regresses it, and an ack without a cursor adopts the fetched one.
Commit(s, seq, next, ids) ==
    LET adopted == IF next # 0 THEN next
                   ELSE IF s.fetch_cursor # 0 THEN s.fetch_cursor ELSE s.watch_cursor
    IN [s EXCEPT
          !.watch_cursor  = IF seq >= s.acked_seq THEN adopted ELSE @,
          !.acked_seq     = IF seq >= @ THEN seq ELSE @,
          !.delivered_ids = @ \cup ids]

\* Apply a mutation of `who` to memory; it is on disk once Persisted.
Mutate(who, s) ==
    /\ writing = "none"
    /\ mem' = s
    /\ writing' = who
    /\ UNCHANGED disk

----------------------------------------------------------------------------
(* Processes at rest.                                                      *)

FetchIdle  == [pc |-> "idle", since |-> 0, last |-> 0, rows |-> {}, count |-> 0,
               total |-> 0, pages |-> 0, seq |-> 0, again |-> FALSE]
FlushIdle  == [pc |-> "idle", live |-> {}, body |-> {}, ids |-> {}, next_cursor |-> 0, cursor_seq |-> 0]
NoItem == [cursor_seq |-> 0, next_cursor |-> 0, messages |-> {}, resting |-> FALSE]
ReplayIdle == [pc |-> "idle", due |-> {}, item |-> NoItem]
SweepIdle  == [pc |-> "idle", archive |-> {}]

Init ==
    /\ mail \in {0, 1} \cap 0..MaxMail
    /\ closed = {}
    /\ instance = "none"
    /\ mem = EmptyState /\ disk = EmptyState /\ writing = "none"
    /\ cursor = 0
    /\ fetch = FetchIdle /\ flush = FlushIdle /\ replay = ReplayIdle /\ sweep = SweepIdle
    /\ flushTimer = FALSE /\ retryTimer = FALSE
    /\ sawRegistration = FALSE
    /\ crashes = 0 /\ faults = 0 /\ lost = 0 /\ mutes = 0
    /\ told = [m \in Letters |-> 0]
    /\ waived = {}
    /\ exposed = [missed |-> {}, torn |-> {}, late |-> {}, dropped |-> {}]

----------------------------------------------------------------------------
(* The server and the dsh instance.                                        *)

Arrive ==
    /\ mail < MaxMail
    /\ mail' = mail + 1
    /\ UNCHANGED <<closed, instance, storeVars, cursor, fetch, timers, flush, replay,
                   sweep, sawRegistration, faultVars, history>>

Close(m) ==
    /\ m \in 1..mail \ closed /\ Cardinality(closed) < MaxCloses
    /\ closed' = closed \cup {m}
    /\ UNCHANGED <<mail, instance, storeVars, cursor, fetch, timers, flush, replay,
                   sweep, sawRegistration, faultVars, history>>

\* upsert and touch make the entry fresh; port 0 means "not known yet".
Register(port) ==
    /\ instance' = (IF port THEN "live" ELSE "portless")
    /\ instance' # instance
    /\ UNCHANGED <<serverVars, storeVars, cursor, fetch, timers, flush, replay,
                   sweep, sawRegistration, faultVars, history>>

HeartbeatLapses ==
    /\ instance = "live"
    /\ instance' = "stale"
    /\ UNCHANGED <<serverVars, storeVars, cursor, fetch, timers, flush, replay,
                   sweep, sawRegistration, faultVars, history>>

\* pruneStale probes the port of an entry without heartbeats and removes it a
\* second later, whatever registered under that id in the meantime.
Prune ==
    /\ instance # "none"
    /\ instance' = "none"
    /\ UNCHANGED <<serverVars, storeVars, cursor, fetch, timers, flush, replay,
                   sweep, sawRegistration, faultVars, history>>

\* deliverPost has somebody to call.
HasTarget == instance \in {"live", "stale"}
\* hasLiveRegistration: a recent heartbeat, whatever the port.
IsLive == instance \in {"live", "portless"}

----------------------------------------------------------------------------
(* The fetch pass: fetchNew, fetchPass, bootstrap, enqueue.                *)

fetchRest == <<serverVars, instance, timers, flush, replay, sweep, sawRegistration, faultVars>>

\* The do-while of fetchNew: one more pass for the triggers that came meanwhile.
StartPass ==
    LET since == IF cursor # 0 THEN cursor
                 ELSE IF mem.fetch_cursor # 0 THEN mem.fetch_cursor ELSE mem.watch_cursor
    IN [FetchIdle EXCEPT !.pc = IF since = 0 THEN "boot" ELSE "page",
                         !.since = since, !.last = since]
PassAt(pc) == [FetchIdle EXCEPT !.pc = pc, !.again = fetch.again]
EndPass == IF fetch.again THEN StartPass ELSE FetchIdle

\* A ws push, a reconnect or the safety net asks for a fetch.
Trigger ==
    /\ fetch' = IF fetch.pc = "idle" THEN StartPass ELSE [fetch EXCEPT !.again = TRUE]
    /\ fetch' # fetch
    /\ UNCHANGED <<fetchRest, storeVars, cursor, history>>

\* The next_cursor of a page that starts after `from`.
PageEnd_Minted(from) == from + PageLimit    \* slip: computed, not taken from the answer
PageEnd(from) == IF from + PageLimit < mail THEN from + PageLimit ELSE mail

\* One listInbox(since) page; after the last one the volatile cursor moves at once.
FetchPage ==
    /\ fetch.pc = "page"
    /\ LET last == PageEnd(fetch.last)
           pages == fetch.pages + 1
           more == last < mail /\ pages < MaxPages
       IN \/ /\ more
             /\ fetch' = [fetch EXCEPT !.last = last, !.pages = pages]
             /\ UNCHANGED cursor
          \/ /\ ~more
             /\ last > fetch.since
             /\ cursor' = last
             /\ fetch' = [fetch EXCEPT !.pc = "note", !.since = 0, !.last = last, !.pages = 0,
                                       !.rows = fetch.since + 1 .. last]
          \/ /\ ~more
             /\ last = fetch.since
             /\ cursor' = last
             /\ fetch' = EndPass
    /\ UNCHANGED <<fetchRest, storeVars, history>>

\* A request of the pass fails: the exception ends the do-while as well.
FetchFails ==
    /\ fetch.pc \in {"page", "boot", "older"}
    /\ fetch' = FetchIdle
    /\ exposed' = IF fetch.pc = "older" THEN [exposed EXCEPT !.missed = @ \cup 1..cursor]
                  ELSE exposed
    /\ UNCHANGED <<fetchRest, storeVars, cursor, told, waived>>

\* Slip: the sequence is not bumped.
NoteFetchCursor_SameSeq ==
    /\ fetch.pc = "note"
    /\ Mutate("fetch", [mem EXCEPT !.fetch_cursor = fetch.last])
    /\ fetch' = [fetch EXCEPT !.pc = "noted", !.seq = mem.cursor_seq]
    /\ UNCHANGED <<fetchRest, cursor, history>>

\* noteFetchCursor.
NoteFetchCursor ==
    /\ fetch.pc = "note"
    /\ Mutate("fetch", [mem EXCEPT !.cursor_seq = @ + 1, !.fetch_cursor = fetch.last])
    /\ fetch' = [fetch EXCEPT !.pc = "noted", !.seq = mem.cursor_seq + 1]
    /\ UNCHANGED <<fetchRest, cursor, history>>

\* Once noted, the mute switch decides between tracking and announcing.
ReadMute ==
    /\ fetch.pc = "noted" /\ writing # "fetch"
    /\ fetch' = [fetch EXCEPT !.pc = IF mem.notify_paused THEN "track" ELSE "enqueue"]
    /\ UNCHANGED <<fetchRest, storeVars, cursor, history>>

\* commitCursor without a cursor: muted mail is tracked silently.
TrackSilently ==
    /\ fetch.pc = "track"
    /\ Mutate("fetch", Commit(mem, fetch.seq, 0, fetch.rows))
    /\ waived' = waived \cup fetch.rows
    /\ fetch' = PassAt("done")
    /\ UNCHANGED <<fetchRest, cursor, told, exposed>>

Enqueue ==
    /\ fetch.pc = "enqueue"
    /\ LET fresh == fetch.rows \ knownMessageIds(mem)
           grown == [messages |-> BatchMessages(mem) \cup fresh,
                     next_cursor |-> fetch.last, cursor_seq |-> fetch.seq]
       IN /\ Mutate("fetch", IF fresh = {} THEN mem ELSE [mem EXCEPT !.batch = grown])
          /\ fetch' = PassAt(IF fresh = {} THEN "done" ELSE "schedule")
    /\ UNCHANGED <<fetchRest, cursor, history>>

\* scheduleFlush after the mutation, and the end of the pass.
FetchEnds ==
    /\ fetch.pc \in {"schedule", "done"} /\ writing # "fetch"
    /\ flushTimer' = (flushTimer \/ (fetch.pc = "schedule" /\ mem.batch # NoBatch))
    /\ fetch' = EndPass
    /\ UNCHANGED <<serverVars, instance, storeVars, retryTimer, flush, replay, sweep,
                   sawRegistration, faultVars, cursor, history>>

\* bootstrap: the first page, newest first.  Without a cursor the mailbox is
\* marked empty; after such a mark all mail is new; else it is only a baseline.
BootPage ==
    /\ fetch.pc = "boot"
    /\ \/ /\ mail = 0
          /\ fetch' = IF mem.bootstrap_pending THEN EndPass ELSE [fetch EXCEPT !.pc = "mark"]
          /\ UNCHANGED cursor
       \/ /\ mail > 0 /\ ~mem.bootstrap_pending
          /\ cursor' = mail
          /\ fetch' = [fetch EXCEPT !.pc = "baseline", !.last = mail, !.rows = 1..mail]
       \/ /\ mail > 0 /\ mem.bootstrap_pending
          /\ cursor' = mail
          /\ LET rows == {m \in 1..mail : m > mail - PageLimit}
             IN fetch' = [fetch EXCEPT !.pc = IF Cardinality(rows) < mail THEN "older" ELSE "adopt",
                                       !.last = mail, !.total = mail, !.rows = rows,
                                       !.count = Cardinality(rows)]
    /\ UNCHANGED <<fetchRest, storeVars, history>>

\* One older page, by offset into the mailbox as it is now: `count` is the
\* length of the list so far, in which a row that drifted appears twice.
OlderPage ==
    /\ fetch.pc = "older"
    /\ LET rows  == {m \in 1..mail : m <= mail - fetch.count /\ m > mail - fetch.count - PageLimit}
           count == fetch.count + Cardinality(rows)
           more  == rows # {} /\ count < fetch.total /\ fetch.pages + 1 < MaxPages
       IN fetch' = [fetch EXCEPT !.pc = IF more THEN "older" ELSE "adopt",
                                 !.rows = @ \cup rows, !.count = count,
                                 !.pages = IF more THEN @ + 1 ELSE 0]
    /\ UNCHANGED <<fetchRest, storeVars, cursor, history>>

Adopt ==
    /\ fetch.pc = "adopt"
    /\ Mutate("fetch", [mem EXCEPT !.bootstrap_pending = FALSE, !.cursor_seq = @ + 1,
                                   !.fetch_cursor = fetch.last])
    /\ fetch' = [fetch EXCEPT !.pc = "noted", !.seq = mem.cursor_seq + 1,
                              !.count = 0, !.total = 0]
    /\ exposed' = [exposed EXCEPT !.missed = @ \cup ((1..fetch.last) \ fetch.rows)]
    /\ UNCHANGED <<fetchRest, cursor, told, waived>>

MarkEmpty ==
    /\ fetch.pc = "mark"
    /\ Mutate("fetch", [mem EXCEPT !.bootstrap_pending = TRUE])
    /\ fetch' = PassAt("done")
    /\ UNCHANGED <<fetchRest, cursor, history>>

\* Slip: the baseline is acked but not recorded as fetched.
Baseline_Unfetched ==
    /\ fetch.pc = "baseline"
    /\ Mutate("fetch", [mem EXCEPT !.bootstrap_pending = FALSE, !.watch_cursor = fetch.last,
                                   !.cursor_seq = @ + 1, !.acked_seq = mem.cursor_seq + 1])
    /\ waived' = waived \cup fetch.rows
    /\ fetch' = PassAt("done")
    /\ UNCHANGED <<fetchRest, cursor, told, exposed>>

Baseline ==
    /\ fetch.pc = "baseline"
    /\ Mutate("fetch", [mem EXCEPT !.bootstrap_pending = FALSE, !.watch_cursor = fetch.last,
                                   !.fetch_cursor = fetch.last, !.cursor_seq = @ + 1,
                                   !.acked_seq = mem.cursor_seq + 1])
    /\ waived' = waived \cup fetch.rows
    /\ fetch' = PassAt("done")
    /\ UNCHANGED <<fetchRest, cursor, told, exposed>>

Fetching == \/ Trigger \/ FetchPage \/ FetchFails \/ NoteFetchCursor \/ ReadMute
            \/ TrackSilently \/ Enqueue \/ FetchEnds \/ BootPage \/ OlderPage
            \/ Adopt \/ MarkEmpty \/ Baseline

----------------------------------------------------------------------------
(* The flush pass: flush, flushPass, ackBatch, toPending.                  *)

flushRest == <<serverVars, instance, cursor, fetch, replay, sweep, sawRegistration>>

\* Slip: no `flushing` guard, a second pass replaces the one in flight.
BeginFlush_Reentrant ==
    flush' = IF mem.batch # NoBatch THEN [FlushIdle EXCEPT !.pc = "reconcile"] ELSE flush

\* A timer fires: a flush in flight swallows it.
BeginFlush ==
    flush' = IF flush.pc = "idle" /\ mem.batch # NoBatch
             THEN [FlushIdle EXCEPT !.pc = "reconcile"] ELSE flush
FlushTimerFires ==
    /\ flushTimer /\ flushTimer' = FALSE
    /\ BeginFlush
    /\ UNCHANGED <<flushRest, storeVars, retryTimer, faultVars, history>>
RetryTimerFires ==
    /\ retryTimer /\ retryTimer' = FALSE
    /\ BeginFlush
    /\ UNCHANGED <<flushRest, storeVars, flushTimer, faultVars, history>>

\* onlyUnprocessed: the server answers what is unprocessed now ...
ReconcileRead ==
    /\ flush.pc = "reconcile"
    /\ flush' = [flush EXCEPT !.pc = "filter", !.live = 1..mail \ closed]
    /\ UNCHANGED <<flushRest, storeVars, timers, faultVars, history>>

\* ... and the batch, as it is when the answer arrives, is filtered by it; or
\* the request fails and each letter's processed_at, set or not when it was
\* fetched, decides.  Then, at once, the batch is acked as closed, sent or parked.
Filter ==
    /\ flush.pc = "filter"
    /\ \E body \in {BatchMessages(mem) \cap flush.live}
                   \cup {BatchMessages(mem) \ done : done \in SUBSET closed} :
          flush' = [flush EXCEPT
                      !.pc = IF body = {} THEN "ack" ELSE IF HasTarget THEN "post" ELSE "park",
                      !.live = {}, !.body = body,
                      !.ids  = IF body = {} THEN BatchMessages(mem) ELSE {},
                      !.next_cursor = IF body = {} \/ ~HasTarget THEN mem.batch.next_cursor ELSE 0,
                      !.cursor_seq = IF body = {} \/ ~HasTarget THEN mem.batch.cursor_seq ELSE 0]
    /\ UNCHANGED <<flushRest, storeVars, timers, faultVars, history>>

Announce(ids) == told' = [m \in Letters |-> IF m \in ids THEN told[m] + 1 ELSE told[m]]

\* The instance took the batch: ackBatch is called with what the live batch holds now.
Delivered ==
    /\ flush.pc = "post"
    /\ Announce(flush.body)
    /\ flush' = [flush EXCEPT !.pc = "ack", !.ids = BatchMessages(mem),
                              !.next_cursor = mem.batch.next_cursor, !.cursor_seq = mem.batch.cursor_seq]
    /\ UNCHANGED <<flushRest, storeVars, timers, faultVars, waived, exposed>>

\* Slip: a 409 counts as an ack.
Refused_AsAck ==
    /\ flush.pc = "post"
    /\ flush' = [flush EXCEPT !.pc = "ack", !.ids = BatchMessages(mem),
                              !.next_cursor = mem.batch.next_cursor, !.cursor_seq = mem.batch.cursor_seq]
    /\ UNCHANGED <<flushRest, storeVars, timers, faultVars, history>>

\* 409, no live session: toPending is called with the body and the live cursor.
Refused ==
    /\ flush.pc = "post"
    /\ flush' = [flush EXCEPT !.pc = "park",
                              !.next_cursor = mem.batch.next_cursor, !.cursor_seq = mem.batch.cursor_seq]
    /\ UNCHANGED <<flushRest, storeVars, timers, faultVars, history>>

\* Any other error backs off; `taken`: the instance had taken it, the answer was lost.
DeliverFails(taken) ==
    /\ flush.pc = "post"
    /\ IF taken THEN lost < MaxLost /\ lost' = lost + 1 /\ Announce(flush.body)
                ELSE UNCHANGED <<lost, told>>
    /\ retryTimer' = TRUE    \* so the finally arms nothing more
    /\ flush' = FlushIdle
    /\ UNCHANGED <<flushRest, storeVars, flushTimer, crashes, faults, mutes, waived, exposed>>

AckBatch ==
    /\ flush.pc = "ack"
    /\ Mutate("flush", Commit(mem, flush.cursor_seq, flush.next_cursor, flush.ids))
    /\ flush' = [FlushIdle EXCEPT !.pc = "clear", !.body = flush.body]
    /\ UNCHANGED <<flushRest, timers, faultVars, history>>

\* What the batch holds by now beyond the body leaves with it.
LateMail == BatchMessages(mem) \ (flush.body \cup closed)

ClearBatch ==
    /\ flush.pc = "clear"
    /\ Mutate("flush", [mem EXCEPT !.batch = NoBatch])
    /\ flush' = [flush EXCEPT !.pc = "settle"]
    /\ exposed' = [exposed EXCEPT !.late = @ \cup LateMail]
    /\ UNCHANGED <<flushRest, timers, faultVars, told, waived>>

Oldest(items) == {i \in items : \A j \in items : i.cursor_seq <= j.cursor_seq}

ToPending ==
    /\ flush.pc = "park"
    /\ LET item == [cursor_seq |-> flush.cursor_seq, next_cursor |-> flush.next_cursor,
                    messages |-> flush.body, resting |-> FALSE]
           dropped == IF Cardinality(mem.pending) >= PendingCap THEN Oldest(mem.pending) ELSE {}
       IN /\ Mutate("flush", [mem EXCEPT !.batch = NoBatch,
                                         !.pending = (@ \ dropped) \cup {item}])
          /\ exposed' = [exposed EXCEPT !.late = @ \cup LateMail,
                                        !.dropped = @ \cup UNION {i.messages : i \in dropped}]
    /\ flush' = [FlushIdle EXCEPT !.pc = "settle"]
    /\ UNCHANGED <<flushRest, timers, faultVars, told, waived>>

\* Slip: the finally arms nothing.
FlushSettles_Unarmed ==
    /\ flush.pc = "settle" /\ writing # "flush"
    /\ flush' = FlushIdle
    /\ UNCHANGED <<flushRest, storeVars, timers, faultVars, history>>

\* The finally of flush: a surviving batch stays scheduled.
FlushSettles ==
    /\ flush.pc = "settle" /\ writing # "flush"
    /\ flush' = FlushIdle
    /\ flushTimer' = (flushTimer \/ (mem.batch # NoBatch /\ ~retryTimer))
    /\ UNCHANGED <<flushRest, storeVars, retryTimer, faultVars, history>>

Flushing == \/ FlushTimerFires \/ RetryTimerFires \/ ReconcileRead \/ Filter \/ Delivered
            \/ Refused \/ (\E taken \in BOOLEAN : DeliverFails(taken)) \/ AckBatch
            \/ ClearBatch \/ ToPending \/ FlushSettles

----------------------------------------------------------------------------
(* replayPending: the due items, oldest first, until one fails.            *)

replayRest == <<serverVars, instance, cursor, fetch, timers, flush, sweep, sawRegistration>>

\* The items still backing off when the replay starts are not due.
ReplayStart ==
    /\ replay.pc = "idle" /\ mem.pending # {}
    /\ \E elapsed \in SUBSET {i \in mem.pending : i.resting} :
          replay' = [ReplayIdle EXCEPT !.pc = "pick",
                       !.due = {i \in mem.pending : i.resting => i \in elapsed}]
    /\ UNCHANGED <<replayRest, storeVars, faultVars, history>>

ReplayPick ==
    /\ replay.pc = "pick" /\ writing # "replay"
    /\ HasTarget
    /\ \E item \in Oldest(replay.due) :
          replay' = [pc |-> "post", due |-> replay.due \ {item}, item |-> item]
    /\ UNCHANGED <<replayRest, storeVars, faultVars, history>>

\* Slip: the failure path leaves the `replaying` flag set.
ReplayEnds_Stuck ==
    /\ writing # "replay" /\ replay.pc = "pick" /\ (replay.due = {} \/ ~HasTarget)
    /\ replay' = ReplayIdle
    /\ UNCHANGED <<replayRest, storeVars, faultVars, history>>

\* Without an instance what is left is skipped; so it is after a failure.
ReplayEnds ==
    /\ writing # "replay"
    /\ \/ replay.pc = "pick" /\ (replay.due = {} \/ ~HasTarget)
       \/ replay.pc = "rested"
    /\ replay' = ReplayIdle
    /\ UNCHANGED <<replayRest, storeVars, faultVars, history>>

Redelivered ==
    /\ replay.pc = "post"
    /\ Announce(replay.item.messages)
    /\ replay' = [replay EXCEPT !.pc = "commit"]
    /\ UNCHANGED <<replayRest, storeVars, faultVars, waived, exposed>>

\* Slip: a failed redelivery is committed like a delivered one.
RedeliveryFails_Commits(taken) ==
    /\ replay.pc = "post" /\ ~taken
    /\ replay' = [replay EXCEPT !.pc = "commit"]
    /\ UNCHANGED <<replayRest, storeVars, faultVars, history>>

RedeliveryFails(taken) ==
    /\ replay.pc = "post"
    /\ IF taken THEN lost < MaxLost /\ lost' = lost + 1 /\ Announce(replay.item.messages)
                ELSE UNCHANGED <<lost, told>>
    /\ replay' = [replay EXCEPT !.pc = "rest"]
    /\ UNCHANGED <<replayRest, storeVars, crashes, faults, mutes, waived, exposed>>

SameItem(i, j) == i.cursor_seq = j.cursor_seq

\* Slip: the delivered item stays in the queue.
ReplayCommit_Kept ==
    /\ replay.pc = "commit"
    /\ LET item == replay.item
       IN Mutate("replay", Commit(mem, item.cursor_seq, item.next_cursor, item.messages))
    /\ replay' = [replay EXCEPT !.pc = "pick", !.item = NoItem]
    /\ UNCHANGED <<replayRest, faultVars, history>>

ReplayCommit ==
    /\ replay.pc = "commit"
    /\ LET item == replay.item
           kept == {i \in mem.pending : ~SameItem(i, item)}
       IN Mutate("replay", [Commit(mem, item.cursor_seq, item.next_cursor, item.messages)
                              EXCEPT !.pending = kept])
    /\ replay' = [replay EXCEPT !.pc = "pick", !.item = NoItem]
    /\ UNCHANGED <<replayRest, faultVars, history>>

\* A failed item backs off and the rest of its inbox is skipped this time.
ReplayRest ==
    /\ replay.pc = "rest"
    /\ Mutate("replay", [mem EXCEPT !.pending =
         {IF SameItem(i, replay.item) THEN [i EXCEPT !.resting = TRUE] ELSE i : i \in mem.pending}])
    /\ replay' = [ReplayIdle EXCEPT !.pc = "rested"]
    /\ UNCHANGED <<replayRest, faultVars, history>>

Replaying == \/ ReplayStart \/ ReplayPick \/ ReplayEnds \/ Redelivered
             \/ (\E taken \in BOOLEAN : RedeliveryFails(taken)) \/ ReplayCommit \/ ReplayRest

----------------------------------------------------------------------------
(* sweepOrphanPending: items of an inbox nobody serves, old enough.        *)

sweepRest == <<serverVars, instance, cursor, fetch, timers, flush, replay, faultVars>>

\* Age is time in the queue, so what is old enough is a prefix of it.
SweepSelect ==
    /\ sweep.pc = "idle"
    /\ sawRegistration' = (sawRegistration \/ instance # "none")
    /\ \E old \in SUBSET mem.pending :
          /\ \A i \in old, j \in mem.pending : j.cursor_seq <= i.cursor_seq => j \in old
          /\ sweep' = IF sawRegistration' /\ ~IsLive /\ old # {}
                      THEN [pc |-> "archive", archive |-> old] ELSE sweep
    /\ UNCHANGED <<sweepRest, storeVars, history>>

\* acceptArchivedBatch for each, oldest first: the newest decides the cursor.
SweepArchive ==
    /\ sweep.pc = "archive"
    /\ LET gone == sweep.archive
           ids  == UNION {i.messages : i \in gone}
           kept == {i \in mem.pending : \A j \in gone : ~SameItem(i, j)}
       IN /\ \E newest \in {i \in gone : \A j \in gone : j.cursor_seq <= i.cursor_seq} :
                Mutate("sweep", [Commit(mem, newest.cursor_seq, newest.next_cursor, ids)
                                   EXCEPT !.pending = kept])
          /\ waived' = waived \cup ids
    /\ sweep' = [SweepIdle EXCEPT !.pc = "logging"]
    /\ UNCHANGED <<sweepRest, sawRegistration, told, exposed>>

SweepEnds ==
    /\ sweep.pc = "logging" /\ writing # "sweep"
    /\ sweep' = SweepIdle
    /\ UNCHANGED <<sweepRest, sawRegistration, storeVars, history>>

Sweeping == SweepSelect \/ SweepArchive \/ SweepEnds

----------------------------------------------------------------------------
(* The mute switch, the store's write queue, crash and restart.            *)

processes == <<cursor, fetch, timers, flush, replay, sweep, sawRegistration>>

\* POST /notify.
SetMute(paused) ==
    /\ mem.notify_paused # paused
    /\ mutes < MaxMutes /\ mutes' = mutes + 1
    /\ Mutate("notify", [mem EXCEPT !.notify_paused = paused])
    /\ UNCHANGED <<serverVars, instance, processes, crashes, faults, lost, history>>

\* A mutation of fields the model leaves out (noteUnread, the addresses of
\* reconcile) writes the whole state again.
Rewrite ==
    /\ disk # mem
    /\ Mutate("other", mem)
    /\ UNCHANGED <<serverVars, instance, processes, faultVars, history>>

\* atomicWrite: temporary file, then rename.
Persisted ==
    /\ writing # "none"
    /\ disk' = mem
    /\ writing' = "none"
    /\ UNCHANGED <<serverVars, instance, mem, processes, faultVars, history>>

\* atomicWrite rejects: memory keeps the mutation and its owner sees an
\* exception.  fetchNew and flush log it and end; when the ack of a delivered
\* batch is not written, the delivery counts as failed and the retry timer is
\* armed.  replayPending treats it as a failed redelivery and marks an item that
\* is gone from memory.  Nobody catches a failure to write that mark: it ends
\* the process (CrashAndRestart).
WriteFails ==
    /\ writing # "none" /\ faults < MaxFaults
    /\ ~(writing = "replay" /\ replay.pc = "rested")
    /\ faults' = faults + 1
    /\ writing' = "none"
    /\ fetch'  = IF writing = "fetch" THEN FetchIdle ELSE fetch
    /\ LET unacked == writing = "flush" /\ flush.body # {}
       IN /\ flush' = IF unacked THEN FlushIdle
                      ELSE IF writing = "flush" THEN [FlushIdle EXCEPT !.pc = "settle"] ELSE flush
          /\ retryTimer' = (retryTimer \/ unacked)
    /\ replay' = IF writing = "replay" THEN [ReplayIdle EXCEPT !.pc = "rest"] ELSE replay
    /\ exposed' = IF writing = "fetch" THEN [exposed EXCEPT !.torn = @ \cup fetch.rows] ELSE exposed
    /\ UNCHANGED <<serverVars, instance, mem, disk, cursor, flushTimer, sweep, sawRegistration,
                   crashes, lost, mutes, told, waived>>

\* Slip: the persisted batch is not taken up.
CrashAndRestart_Unarmed ==
    /\ crashes < MaxCrashes
    /\ crashes' = crashes + 1
    /\ mem' = disk /\ UNCHANGED disk /\ writing' = "none"
    /\ cursor' = IF disk.fetch_cursor # 0 THEN disk.fetch_cursor ELSE disk.watch_cursor
    /\ flushTimer' = FALSE /\ retryTimer' = FALSE
    /\ fetch' = FetchIdle /\ flush' = FlushIdle /\ replay' = ReplayIdle /\ sweep' = SweepIdle
    /\ instance' = "none" /\ sawRegistration' = FALSE
    /\ UNCHANGED <<serverVars, faults, lost, mutes, history>>

\* Everything but state.json is lost; the registry starts empty; start() takes
\* up the fetched cursor and the persisted batch.
CrashAndRestart ==
    /\ crashes < MaxCrashes
    /\ crashes' = crashes + 1
    /\ mem' = disk /\ UNCHANGED disk /\ writing' = "none"
    /\ cursor' = IF disk.fetch_cursor # 0 THEN disk.fetch_cursor ELSE disk.watch_cursor
    /\ flushTimer' = (disk.batch # NoBatch) /\ retryTimer' = FALSE
    /\ fetch' = FetchIdle /\ flush' = FlushIdle /\ replay' = ReplayIdle /\ sweep' = SweepIdle
    /\ instance' = "none" /\ sawRegistration' = FALSE
    /\ exposed' = [exposed EXCEPT !.torn = @ \cup
         (((fetch.rows \cup knownMessageIds(mem)) \cap 1..disk.fetch_cursor) \ knownMessageIds(disk))]
    /\ UNCHANGED <<serverVars, faults, lost, mutes, told, waived>>

----------------------------------------------------------------------------

Environment == \/ Arrive \/ (\E m \in Letters : Close(m))
               \/ (\E port \in BOOLEAN : Register(port)) \/ HeartbeatLapses \/ Prune
Storing == \/ (\E paused \in BOOLEAN : SetMute(paused)) \/ Rewrite \/ Persisted \/ WriteFails

Next == \/ Environment \/ Fetching \/ Flushing \/ Replaying \/ Sweeping \/ Storing
        \/ CrashAndRestart

Spec == Init /\ [][Next]_vars

----------------------------------------------------------------------------
(* Fairness.  Timers are re-armed intervals or one-shot timeouts, every    *)
(* request has a timeout, and the store's promise queue is first-in        *)
(* first-out, so a queued mutation is reached whatever the others do       *)
(* (strong fairness, since the queue is only sometimes free).  The last    *)
(* four conjuncts are about the environment: a request repeated for ever   *)
(* does not fail for ever, an instance asked for ever ends with a yes or a *)
(* 409, an item redelivered for ever is taken, and a backoff ends.         *)

FetchWork  == FetchPage \/ NoteFetchCursor \/ ReadMute \/ TrackSilently \/ Enqueue \/ FetchEnds
              \/ BootPage \/ OlderPage \/ Adopt \/ MarkEmpty \/ Baseline
FlushWork  == FlushTimerFires \/ RetryTimerFires \/ ReconcileRead \/ Filter \/ AckBatch
              \/ ClearBatch \/ ToPending \/ FlushSettles
ReplayWork == ReplayPick \/ ReplayEnds \/ ReplayCommit \/ ReplayRest
SafetyNet  == fetch.pc = "idle" /\ Trigger
Fairness ==
    /\ WF_vars(SafetyNet) /\ WF_vars(Persisted)
    /\ SF_vars(FlushWork) /\ SF_vars(ReplayWork) /\ SF_vars(SweepArchive \/ SweepEnds)
    /\ SF_vars(FetchWork)
    /\ SF_vars(Delivered \/ Refused)
    /\ SF_vars(Redelivered)
    /\ SF_vars(ReplayStart /\ replay'.due = mem.pending)
FairSpec == Spec /\ Fairness

----------------------------------------------------------------------------
(* Properties.                                                             *)

Positions == 0..MaxMail
Items == [cursor_seq : Nat, next_cursor : Positions, messages : SUBSET Letters, resting : BOOLEAN]
Batches == [messages : SUBSET Letters, next_cursor : Positions, cursor_seq : Nat]
States == [watch_cursor : Positions, fetch_cursor : Positions, cursor_seq : Nat, acked_seq : Nat,
           bootstrap_pending : BOOLEAN, delivered_ids : SUBSET Letters, batch : Batches,
           pending : SUBSET Items, notify_paused : BOOLEAN]

FetchPcs  == {"idle", "page", "note", "noted", "track", "enqueue", "schedule", "done",
              "boot", "older", "adopt", "mark", "baseline"}
FlushPcs  == {"idle", "reconcile", "filter", "post", "ack", "clear", "park", "settle"}
ReplayPcs == {"idle", "pick", "post", "commit", "rest", "rested"}
SweepPcs  == {"idle", "archive", "logging"}

Fetches == [pc : FetchPcs, since : Positions, last : Positions, rows : SUBSET Letters,
            count : Nat, total : Nat, pages : Nat, seq : Nat, again : BOOLEAN]
Flushes == [pc : FlushPcs, live : SUBSET Letters, body : SUBSET Letters, ids : SUBSET Letters,
            next_cursor : Positions, cursor_seq : Nat]
Replays == [pc : ReplayPcs, due : SUBSET Items, item : Items]
Sweeps == [pc : SweepPcs, archive : SUBSET Items]
Exposures == [missed : SUBSET Letters, torn : SUBSET Letters,
              late : SUBSET Letters, dropped : SUBSET Letters]

ServerTypes == mail \in Positions /\ closed \in SUBSET Letters
StoreTypes == mem \in States /\ disk \in States /\ writing \in Writers \cup {"none"}
TimerTypes == flushTimer \in BOOLEAN /\ retryTimer \in BOOLEAN
FaultTypes == /\ crashes \in 0..MaxCrashes /\ faults \in 0..MaxFaults
              /\ lost \in 0..MaxLost /\ mutes \in 0..MaxMutes
HistoryTypes == told \in [Letters -> Nat] /\ waived \in SUBSET Letters /\ exposed \in Exposures

\* Every variable has its type.
TypeOK ==
    /\ ServerTypes /\ StoreTypes /\ TimerTypes /\ FaultTypes /\ HistoryTypes
    /\ instance \in {"none", "portless", "live", "stale"} /\ sawRegistration \in BOOLEAN
    /\ cursor \in Positions
    /\ fetch \in Fetches /\ flush \in Flushes /\ replay \in Replays /\ sweep \in Sweeps

Told == {m \in Letters : told[m] > 0}
Pulling == IF fetch.pc \in {"older", "adopt"} THEN 1..cursor ELSE {}
InHand == Pulling \cup fetch.rows \cup BatchMessages(mem) \cup PendingMessages(mem) \cup flush.body
Accounted == Told \cup waived \cup closed \cup InHand
Exposed == exposed.missed \cup exposed.torn \cup exposed.late \cup exposed.dropped

\* A letter behind the fetch cursor has been announced, was meant not to be, is
\* closed, or is still queued -- unless it met one of the four windows in which
\* the daemon loses mail (see README).
EveryLossIsExplained == 1..cursor \subseteq Accounted \cup Exposed

\* Whatever the acked position on disk covers is settled, or queued on disk.
AckedIsDurable ==
    1..disk.watch_cursor \subseteq Told \cup waived \cup closed \cup BatchMessages(disk)
                              \cup PendingMessages(disk) \cup Exposed

\* The daemon keeps the promise of MailPromise for the position on disk: a letter in its hands
\* is told, excused, or asked for again, and never passed over.
Status == [m \in Letters |-> IF m \in Told THEN "told"
                             ELSE IF m \in waived \cup closed \cup Exposed THEN "excused"
                             ELSE IF m \in InHand \cup replay.item.messages THEN "held" ELSE "waiting"]
Promise == INSTANCE MailPromise WITH passed <- 1..disk.watch_cursor, status <- Status
DaemonKeepsThePromise == Promise!PromiseSpec

\* Without a crash, a failed write or a lost answer no letter is announced twice, unless the
\* full queue dropped it: an item dropped while its redelivery is under way leaves letters that
\* are known nowhere, and one that a bootstrap read past its cursor is then fetched again.
NoDuplicateWithoutFault ==
    \A m \in Letters \ exposed.dropped : told[m] <= 1 + crashes + faults + lost

\* A batch in memory always has something that will flush it -- unless a write of state.json
\* failed: enqueue then throws before it schedules, and the batch stays for the next letter.
BatchIsArmed ==
    mem.batch # NoBatch /\ faults = 0 =>
        flushTimer \/ retryTimer \/ flush.pc # "idle" \/ fetch.pc = "schedule"

\* No two parked batches carry the same cursor_seq (toPending), so that taking
\* one out of the queue, or marking it, never touches another.
PendingSeqsAreDistinct == \A i, j \in mem.pending : SameItem(i, j) => i = j

\* The position on disk never moves back.
PersistedCursorIsMonotone ==
    [][disk'.watch_cursor >= disk.watch_cursor /\ disk'.acked_seq >= disk.acked_seq]_vars

\* Every letter that arrives is fetched, and ends announced, meant not to be,
\* closed or parked -- or met a loss window.
ArrivedIsSettled ==
    \A m \in Letters : m <= mail ~>
        m \in Told \cup waived \cup closed \cup PendingMessages(mem) \cup Exposed

\* Parked mail leaves the queue once an instance has come to stay.
PendingDrains ==
    <>[]HasTarget => \A m \in Letters :
        m \in PendingMessages(mem) ~> m \notin PendingMessages(mem)

\* No letter waits for ever, in the batch or in the queue.
MailIsSettled == ArrivedIsSettled /\ PendingDrains

\* The acked position never overtakes the fetched one, and neither the server.
CursorBehindFetch ==
    /\ disk.watch_cursor <= disk.fetch_cursor /\ disk.acked_seq <= disk.cursor_seq
    /\ mem.watch_cursor <= mem.fetch_cursor /\ mem.acked_seq <= mem.cursor_seq
    /\ mem.fetch_cursor <= mail

----------------------------------------------------------------------------
(* The inductive invariant behind the properties of the cursor.  A marker  *)
(* is a sequence with the cursor it stands for; everything that carries    *)
(* one -- the state's positions, its batch, its items, and what a process  *)
(* holds across an await -- agrees on the order of the two.                *)

Marker(x) == <<x.cursor_seq, x.next_cursor>>
Markers(s) == {<<0, 0>>, <<s.acked_seq, s.watch_cursor>>, <<s.cursor_seq, s.fetch_cursor>>,
               Marker(s.batch)} \cup {Marker(i) : i \in s.pending}
InFlight == {Marker(flush), Marker(replay.item)}
            \cup {Marker(i) : i \in replay.due \cup sweep.archive}

Aligned(H, top) ==
    /\ \A p, q \in H : p[1] <= q[1] => p[2] <= q[2]
    /\ \A p \in H : p[1] <= top /\ (p[1] = 0 <=> p[2] = 0)

MarkersAligned ==
    /\ Aligned(Markers(mem) \cup InFlight, mem.cursor_seq)
    /\ Aligned(Markers(disk), disk.cursor_seq)

DiskBehindMemory ==
    /\ disk.watch_cursor <= mem.watch_cursor /\ disk.acked_seq <= mem.acked_seq
    /\ disk.fetch_cursor <= mail

\* A queued batch is newer than every parked item, and parked items differ.
Queued(s) ==
    /\ s.batch # NoBatch => s.batch.cursor_seq # 0
    /\ \A i \in s.pending : i.cursor_seq # 0
    /\ s.batch # NoBatch => \A i \in s.pending : i.cursor_seq < s.batch.cursor_seq
    /\ \A i, j \in s.pending : SameItem(i, j) => i = j

FetchInOrder ==
    /\ mem.fetch_cursor <= cursor /\ cursor <= mail /\ fetch.last <= mail
    /\ fetch.pc = "page" => cursor = fetch.since /\ fetch.since <= fetch.last
    /\ fetch.pc \in {"note", "older", "adopt", "baseline"} => cursor = fetch.last /\ fetch.last # 0
    /\ fetch.pc \in {"noted", "track", "enqueue"} =>
          /\ fetch.seq = mem.cursor_seq /\ fetch.last = mem.fetch_cursor /\ fetch.seq # 0
          /\ mem.batch.cursor_seq < fetch.seq
          /\ \A i \in mem.pending : i.cursor_seq < fetch.seq

FlushInOrder ==
    /\ flush.pc \in {"reconcile", "filter", "post", "ack", "park"} => mem.batch # NoBatch
    /\ flush.pc \in {"ack", "park"} => flush.cursor_seq # 0
    /\ flush.pc = "park" => /\ flush.cursor_seq <= mem.batch.cursor_seq
                            /\ \A i \in mem.pending : i.cursor_seq < flush.cursor_seq

QueueReaders ==
    /\ replay.pc \in {"post", "commit"} => replay.item.cursor_seq # 0
    /\ \A i \in replay.due \cup sweep.archive : i.cursor_seq # 0

\* The order of the cursors as a whole: what every await of fetchPass, flushPass,
\* replayPending and sweepOrphanPending may rely on when it continues.
IInv ==
    /\ TypeOK /\ MarkersAligned /\ DiskBehindMemory /\ Queued(mem) /\ Queued(disk)
    /\ FetchInOrder /\ FlushInOrder /\ QueueReaders
=============================================================================
