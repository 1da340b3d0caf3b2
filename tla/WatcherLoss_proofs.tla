------------------------- MODULE WatcherLoss_proofs -------------------------
(***************************************************************************)
(* What becomes of the letters: LossInv is an inductive invariant of       *)
(* WatcherDaemon, relative to the order of its cursors, and with it every  *)
(* loss is explained, what is acked is durable, and the daemon keeps the   *)
(* promise of MailPromise.  TellInv, which rests on it, is about how often *)
(* a letter is told.                                                       *)
(***************************************************************************)
EXTENDS WatcherCursor_proofs

\* A letter that is done with stays so; one that is safe is done with, queued or parked, and
\* leaves the queue only to be done with.
Done == Told \cup waived \cup closed \cup Exposed
Safe(s) == Done \cup BatchMessages(s) \cup PendingMessages(s)

\* Every position a state could adopt as the acked one, and all it records as delivered, has
\* only safe letters behind it.
Sound(s) ==
    /\ 1..s.watch_cursor \subseteq Safe(s) /\ 1..s.batch.next_cursor \subseteq Safe(s)
    /\ \A i \in s.pending : 1..i.next_cursor \subseteq Safe(s)
    /\ s.delivered_ids \subseteq Safe(s)

\* What has been fetched is safe, or in the hands of the pass that fetched it.
FetchedIsSafe == 1..cursor \subseteq Safe(mem) \cup fetch.rows \cup Pulling

\* What is on disk is safe in memory, too.
StatesAreSound == Sound(mem) /\ Sound(disk) /\ Safe(disk) \subseteq Safe(mem)

\* So is what the flush has on its way; and only letters that are done with are acked.
FlushIsSafe ==
    /\ 1..flush.next_cursor \subseteq Safe(mem)
    /\ flush.body \subseteq Safe(mem) /\ flush.ids \subseteq Safe(mem)
    /\ flush.pc \in {"ack", "clear"} => flush.body \subseteq Done

\* The items the replay and the sweep have taken up, and the one their sequence names in the
\* queue, if that is still there.
TakenUp == replay.due \cup sweep.archive \cup {replay.item}
TakenUpIsSafe ==
    /\ \A j \in TakenUp : 1..j.next_cursor \subseteq Safe(mem)
    /\ \A j \in TakenUp, i \in mem.pending : SameItem(i, j) => i.messages = j.messages
    /\ replay.pc = "commit" => replay.item.messages \subseteq Done

\* A batch to come has a newer sequence.
TakenUpIsOlder ==
    /\ mem.batch # NoBatch => \A j \in TakenUp : j.cursor_seq < mem.batch.cursor_seq
    /\ flush.pc = "park" => \A j \in TakenUp : j.cursor_seq < flush.cursor_seq
    /\ fetch.pc \in {"noted", "track", "enqueue"} => \A j \in TakenUp : j.cursor_seq < fetch.seq

\* Where a pass may be, by what it holds and what it waits for.
Holding == {"note", "noted", "track", "enqueue", "older", "adopt", "baseline"}
PassInPlace ==
    /\ fetch.rows # {} => fetch.pc \in Holding
    /\ fetch.pc \in {"boot", "older", "adopt", "mark", "baseline"} => mem.fetch_cursor = 0
    /\ writing = "fetch" => fetch.pc \in {"noted", "schedule", "done"}
    /\ disk.fetch_cursor <= mem.fetch_cursor

LossInv == /\ FetchedIsSafe /\ StatesAreSound /\ FlushIsSafe /\ TakenUpIsSafe /\ TakenUpIsOlder
           /\ PassInPlace

----------------------------------------------------------------------------
(* What never shrinks.                                                     *)

\* Only deliveries count, and they count up.
LEMMA ToldGrows ==
    ASSUME TypeOK, [Next]_vars
    PROVE  /\ Told \subseteq Told'
           /\ \A m \in Told' \ Told : \/ flush.pc = "post" /\ m \in flush.body
                                      \/ replay.pc = "post" /\ m \in replay.item.messages
<1>1. \/ UNCHANGED told
      \/ flush.pc = "post" /\ Announce(flush.body)
      \/ replay.pc = "post" /\ Announce(replay.item.messages)
  <2>1. CASE Environment
      BY <2>1, Zenon DEF Environment, Arrive, Close, Register, HeartbeatLapses, Prune, history
  <2>2. CASE Fetching
      BY <2>2, Zenon DEF Fetching, Trigger, FetchPage, FetchFails, NoteFetchCursor, ReadMute,
         TrackSilently, Enqueue, FetchEnds, BootPage, OlderPage, Adopt, MarkEmpty, Baseline, history
  <2>3. CASE Flushing
      BY <2>3, Zenon DEF Flushing, FlushTimerFires, RetryTimerFires, ReconcileRead, Filter, Delivered,
         Refused, DeliverFails, AckBatch, ClearBatch, ToPending, FlushSettles, history
  <2>4. CASE Replaying
      BY <2>4, Zenon DEF Replaying, ReplayStart, ReplayPick, ReplayEnds, Redelivered, RedeliveryFails,
         ReplayCommit, ReplayRest, history
  <2>5. CASE Sweeping
      BY <2>5, Zenon DEF Sweeping, SweepSelect, SweepArchive, SweepEnds, history
  <2>6. CASE Storing \/ CrashAndRestart
      BY <2>6, Zenon DEF Storing, SetMute, Rewrite, Persisted, WriteFails, CrashAndRestart, history
  <2>7. CASE UNCHANGED vars
      BY <2>7 DEF vars, history
  <2> QED
      BY <2>1, <2>2, <2>3, <2>4, <2>5, <2>6, <2>7 DEF Next
<1>2. \A m \in Letters : told[m] \in Nat
    BY DEF TypeOK, HistoryTypes
<1>3. ASSUME NEW S, Announce(S) PROVE Told \subseteq Told' /\ Told' \ Told \subseteq S
  <2>1. \A m \in Letters : told'[m] = IF m \in S THEN told[m] + 1 ELSE told[m]
      BY <1>3 DEF Announce
  <2> QED
      BY <1>2, <2>1 DEF Told
<1> QED
    BY <1>1, <1>3 DEF Told

\* A closed letter stays closed, and the other two histories only grow.
LEMMA DoneGrows ==
    ASSUME TypeOK, [Next]_vars
    PROVE  Done \subseteq Done'
<1>1. closed \subseteq closed'
  <2>1. CASE Environment
      BY <2>1 DEF Environment, Arrive, Close, Register, HeartbeatLapses, Prune, serverVars
  <2>2. CASE Fetching
      BY <2>2, Zenon DEF Fetching, Trigger, FetchPage, FetchFails, NoteFetchCursor, ReadMute, fetchRest,
         TrackSilently, Enqueue, FetchEnds, BootPage, OlderPage, Adopt, MarkEmpty, Baseline, serverVars
  <2>3. CASE Flushing
      BY <2>3, Zenon DEF Flushing, FlushTimerFires, RetryTimerFires, ReconcileRead, Filter, Delivered,
         Refused, DeliverFails, AckBatch, ClearBatch, ToPending, FlushSettles, flushRest, serverVars
  <2>4. CASE Replaying
      BY <2>4, Zenon DEF Replaying, ReplayStart, ReplayPick, ReplayEnds, Redelivered, RedeliveryFails,
         ReplayCommit, ReplayRest, replayRest, serverVars
  <2>5. CASE Sweeping
      BY <2>5, Zenon DEF Sweeping, SweepSelect, SweepArchive, SweepEnds, sweepRest, serverVars
  <2>6. CASE Storing \/ CrashAndRestart
      BY <2>6, Zenon DEF Storing, SetMute, Rewrite, Persisted, WriteFails, CrashAndRestart, serverVars
  <2>7. CASE UNCHANGED vars
      BY <2>7 DEF vars, serverVars
  <2> QED
      BY <2>1, <2>2, <2>3, <2>4, <2>5, <2>6, <2>7 DEF Next
<1>2. waived \subseteq waived'
  <2>1. CASE Environment
      BY <2>1, Zenon DEF Environment, Arrive, Close, Register, HeartbeatLapses, Prune, history
  <2>2. CASE Fetching
      BY <2>2 DEF Fetching, Trigger, FetchPage, FetchFails, NoteFetchCursor, ReadMute,
         TrackSilently, Enqueue, FetchEnds, BootPage, OlderPage, Adopt, MarkEmpty, Baseline, history
  <2>3. CASE Flushing
      BY <2>3, Zenon DEF Flushing, FlushTimerFires, RetryTimerFires, ReconcileRead, Filter, Delivered,
         Refused, DeliverFails, AckBatch, ClearBatch, ToPending, FlushSettles, history
  <2>4. CASE Replaying
      BY <2>4, Zenon DEF Replaying, ReplayStart, ReplayPick, ReplayEnds, Redelivered, RedeliveryFails,
         ReplayCommit, ReplayRest, history
  <2>5. CASE Sweeping
      BY <2>5 DEF Sweeping, SweepSelect, SweepArchive, SweepEnds, history
  <2>6. CASE Storing \/ CrashAndRestart
      BY <2>6, Zenon DEF Storing, SetMute, Rewrite, Persisted, WriteFails, CrashAndRestart, history
  <2>7. CASE UNCHANGED vars
      BY <2>7 DEF vars, history
  <2> QED
      BY <2>1, <2>2, <2>3, <2>4, <2>5, <2>6, <2>7 DEF Next
<1>3. Exposed \subseteq Exposed'
  <2>1. \/ UNCHANGED exposed
        \/ \E S : exposed' = [exposed EXCEPT !.missed = @ \cup S]
        \/ \E S : exposed' = [exposed EXCEPT !.torn = @ \cup S]
        \/ \E S : exposed' = [exposed EXCEPT !.late = @ \cup S]
        \/ \E S, T : exposed' = [exposed EXCEPT !.late = @ \cup S, !.dropped = @ \cup T]
    <3>1. CASE Environment
        BY <3>1, Zenon DEF Environment, Arrive, Close, Register, HeartbeatLapses, Prune, history
    <3>2. CASE Fetching
        BY <3>2, Zenon DEF Fetching, Trigger, FetchPage, FetchFails, NoteFetchCursor, ReadMute,
           TrackSilently, Enqueue, FetchEnds, BootPage, OlderPage, Adopt, MarkEmpty, Baseline, history
    <3>3. CASE Flushing
        BY <3>3, Zenon DEF Flushing, FlushTimerFires, RetryTimerFires, ReconcileRead, Filter, Delivered,
           Refused, DeliverFails, AckBatch, ClearBatch, ToPending, FlushSettles, history
    <3>4. CASE Replaying
        BY <3>4, Zenon DEF Replaying, ReplayStart, ReplayPick, ReplayEnds, Redelivered, RedeliveryFails,
           ReplayCommit, ReplayRest, history
    <3>5. CASE Sweeping
        BY <3>5, Zenon DEF Sweeping, SweepSelect, SweepArchive, SweepEnds, history
    <3>6. CASE Storing \/ CrashAndRestart
        BY <3>6, Zenon DEF Storing, SetMute, Rewrite, Persisted, WriteFails, CrashAndRestart, history
    <3>7. CASE UNCHANGED vars
        BY <3>7 DEF vars, history
    <3> QED
        BY <3>1, <3>2, <3>3, <3>4, <3>5, <3>6, <3>7 DEF Next
  <2>2. exposed \in Exposures
      BY DEF TypeOK, HistoryTypes
  <2> QED
      BY <2>1, <2>2 DEF Exposures, Exposed
<1> QED
    BY <1>1, <1>2, <1>3, ToldGrows DEF Done

\* While the states rest, what is safe stays safe.
LEMMA SafeGrows ==
    ASSUME Done \subseteq Done'
    PROVE  /\ UNCHANGED mem => Safe(mem) \subseteq Safe(mem)'
           /\ UNCHANGED disk => Safe(disk) \subseteq Safe(disk)'
BY DEF Safe, BatchMessages, PendingMessages

\* What a step leaves alone keeps its part of the invariant.
LEMMA FrameLoss ==
    ASSUME LossInv, Done \subseteq Done', Safe(mem) \subseteq Safe(mem)'
    PROVE  /\ UNCHANGED <<cursor, fetch>> => FetchedIsSafe'
           /\ UNCHANGED mem => Sound(mem)'
           /\ UNCHANGED disk => Sound(disk)' /\ Safe(disk)' \subseteq Safe(mem)'
           /\ UNCHANGED flush => FlushIsSafe'
           /\ UNCHANGED <<replay, sweep>> /\ mem'.pending \subseteq mem.pending => TakenUpIsSafe'
           /\ UNCHANGED <<replay, sweep, flush, fetch>> /\ mem'.batch \in {mem.batch, NoBatch}
                 => TakenUpIsOlder'
           /\ UNCHANGED <<fetch, disk>> /\ mem'.fetch_cursor = mem.fetch_cursor
                 /\ (writing' = "fetch" => writing = "fetch") => PassInPlace'
<1>1. UNCHANGED <<cursor, fetch>> => FetchedIsSafe'
    BY DEF LossInv, FetchedIsSafe, Pulling
<1>2. UNCHANGED mem => Sound(mem)'
    BY DEF LossInv, StatesAreSound, Sound
<1>3. UNCHANGED disk => Sound(disk)'
    BY SafeGrows DEF LossInv, StatesAreSound, Sound
<1>4. UNCHANGED disk => Safe(disk)' \subseteq Safe(mem)'
  <2>1. Done' \subseteq Safe(mem)' /\ Safe(disk) \subseteq Safe(mem)'
      BY DEF Safe, LossInv, StatesAreSound
  <2>2. UNCHANGED disk => Safe(disk)' \subseteq Done' \cup Safe(disk)
      BY DEF Safe, BatchMessages, PendingMessages
  <2> QED
      BY <2>1, <2>2
<1>5. UNCHANGED flush => FlushIsSafe'
    BY DEF LossInv, FlushIsSafe
<1>6. UNCHANGED <<replay, sweep>> /\ mem'.pending \subseteq mem.pending => TakenUpIsSafe'
    BY DEF LossInv, TakenUpIsSafe, TakenUp
<1>7. UNCHANGED <<replay, sweep, flush, fetch>> /\ mem'.batch \in {mem.batch, NoBatch}
         => TakenUpIsOlder'
    BY DEF LossInv, TakenUpIsOlder, TakenUp
<1>8. UNCHANGED <<fetch, disk>> /\ mem'.fetch_cursor = mem.fetch_cursor
         /\ (writing' = "fetch" => writing = "fetch") => PassInPlace'
    BY DEF LossInv, PassInPlace
<1> QED
    BY <1>1, <1>2, <1>3, <1>4, <1>5, <1>6, <1>7, <1>8

----------------------------------------------------------------------------
(* The fetch pass.                                                         *)

LEMMA InitLoss == Init => LossInv
<1> SUFFICES ASSUME Init PROVE LossInv
    OBVIOUS
<1>1. /\ mem = EmptyState /\ disk = EmptyState /\ writing = "none" /\ cursor = 0
      /\ fetch = FetchIdle /\ flush = FlushIdle /\ replay = ReplayIdle /\ sweep = SweepIdle
    BY DEF Init
<1>2. 1..0 = {}
    OBVIOUS
<1>3. FetchedIsSafe
    BY <1>1, <1>2 DEF FetchedIsSafe
<1>4. StatesAreSound
    BY <1>1, <1>2 DEF StatesAreSound, Sound, EmptyState, NoBatch
<1>5. FlushIsSafe
    BY <1>1, <1>2 DEF FlushIsSafe, FlushIdle
<1>6. TakenUp = {NoItem} /\ mem.pending = {}
    BY <1>1 DEF TakenUp, ReplayIdle, SweepIdle, EmptyState
<1>7. TakenUpIsSafe
    BY <1>1, <1>2, <1>6 DEF TakenUpIsSafe, NoItem, ReplayIdle
<1>8. TakenUpIsOlder
    BY <1>1 DEF TakenUpIsOlder, EmptyState, FlushIdle, FetchIdle
<1>9. PassInPlace
    BY <1>1 DEF PassInPlace, EmptyState, FetchIdle
<1> QED
    BY <1>3, <1>4, <1>5, <1>7, <1>8, <1>9 DEF LossInv

\* A step of the pass that leaves the states alone.
LEMMA FetchReadsLoss ==
    ASSUME LossInv, Done \subseteq Done', UNCHANGED <<mem, disk, writing, flush, replay, sweep>>,
           fetch'.pc \in {"noted", "track", "enqueue"} => fetch.pc = "noted" /\ fetch'.seq = fetch.seq,
           FetchedIsSafe', PassInPlace'
    PROVE  LossInv'
<1>1. Safe(mem) \subseteq Safe(mem)'
    BY SafeGrows
<1>2. StatesAreSound' /\ FlushIsSafe' /\ TakenUpIsSafe'
    BY <1>1, FrameLoss DEF StatesAreSound
<1>3. TakenUpIsOlder'
    BY DEF LossInv, TakenUpIsOlder, TakenUp
<1> QED
    BY <1>2, <1>3 DEF LossInv

\* What a pass starts with.
LEMMA FreshPass ==
    ASSUME TypeOK, NEW f \in {StartPass, EndPass, FetchIdle}
    PROVE  /\ f.pc \in {"idle", "boot", "page"} /\ f.rows = {}
           /\ f.pc = "boot" => mem.fetch_cursor = 0
<1> DEFINE since == IF cursor # 0 THEN cursor
                    ELSE IF mem.fetch_cursor # 0 THEN mem.fetch_cursor ELSE mem.watch_cursor
<1>1. StartPass.pc = (IF since = 0 THEN "boot" ELSE "page") /\ StartPass.rows = {}
    BY DEF StartPass, FetchIdle
<1>2. since = 0 => cursor = 0 /\ mem.fetch_cursor = 0
    OBVIOUS
<1>3. FetchIdle.pc = "idle" /\ FetchIdle.rows = {}
    BY DEF FetchIdle
<1> HIDE DEF since
<1>4. CASE f = StartPass
    BY <1>1, <1>2, <1>4
<1>5. CASE f = FetchIdle
    BY <1>3, <1>5
<1> QED
    BY <1>4, <1>5 DEF EndPass

\* A pass that holds no rows any more ends, or starts again.
LEMMA PassEndsLoss ==
    ASSUME IInv, LossInv, Done \subseteq Done', UNCHANGED <<mem, disk, writing, flush, replay, sweep, cursor>>,
           fetch' \in {StartPass, EndPass, FetchIdle}, writing # "fetch",
           1..cursor \subseteq Safe(mem)'
    PROVE  LossInv'
<1>1. /\ fetch'.pc \in {"idle", "boot", "page"} /\ fetch'.rows = {}
      /\ fetch'.pc = "boot" => mem.fetch_cursor = 0
    BY FreshPass DEF IInv
<1>2. FetchedIsSafe'
    BY DEF FetchedIsSafe
<1>3. PassInPlace'
    BY <1>1 DEF PassInPlace, LossInv
<1> QED
    BY <1>1, <1>2, <1>3, FetchReadsLoss

LEMMA TriggerLoss == IInv /\ LossInv /\ Trigger => LossInv'
<1> SUFFICES ASSUME IInv, LossInv, Trigger PROVE LossInv'
    OBVIOUS
<1>1. UNCHANGED <<mem, disk, writing, flush, replay, sweep, cursor>> /\ TypeOK
    BY DEF Trigger, fetchRest, storeVars, IInv
<1>2. Done \subseteq Done'
    BY <1>1, DoneGrows DEF Next, Fetching
<1>3. Safe(mem) \subseteq Safe(mem)'
    BY <1>1, <1>2, SafeGrows
<1>4. CASE fetch.pc = "idle" /\ fetch' = StartPass
  <2>1. fetch.rows = {} /\ Pulling = {} /\ writing # "fetch"
      BY <1>4 DEF LossInv, PassInPlace, Pulling, Holding
  <2>2. 1..cursor \subseteq Safe(mem)'
      BY <1>3, <2>1 DEF LossInv, FetchedIsSafe
  <2> QED
      BY <1>1, <1>2, <1>4, <2>1, <2>2, PassEndsLoss
<1>5. CASE fetch.pc # "idle" /\ fetch' = [fetch EXCEPT !.again = TRUE]
  <2>1. fetch'.pc = fetch.pc /\ fetch'.rows = fetch.rows /\ fetch'.seq = fetch.seq
      BY <1>1, <1>5 DEF TypeOK, Fetches
  <2>2. FetchedIsSafe'
      BY <1>1, <1>3, <2>1 DEF LossInv, FetchedIsSafe, Pulling
  <2>3. PassInPlace'
      BY <1>1, <2>1 DEF LossInv, PassInPlace
  <2>4. StatesAreSound' /\ FlushIsSafe' /\ TakenUpIsSafe'
      BY <1>1, <1>2, <1>3, FrameLoss DEF StatesAreSound
  <2>5. TakenUpIsOlder'
      BY <1>1, <2>1 DEF LossInv, TakenUpIsOlder, TakenUp
  <2> QED
      BY <2>2, <2>3, <2>4, <2>5 DEF LossInv
<1> QED
    BY <1>4, <1>5 DEF Trigger

LEMMA FetchPageLoss == IInv /\ LossInv /\ FetchPage => LossInv'
<1> SUFFICES ASSUME IInv, LossInv, FetchPage PROVE LossInv'
    OBVIOUS
<1>1. UNCHANGED <<mem, disk, writing, flush, replay, sweep>> /\ TypeOK /\ fetch.pc = "page"
    BY DEF FetchPage, fetchRest, storeVars, IInv
<1>2. Done \subseteq Done'
    BY <1>1, DoneGrows DEF Next, Fetching
<1>3. Safe(mem) \subseteq Safe(mem)'
    BY <1>1, <1>2, SafeGrows
<1>4. fetch.rows = {} /\ Pulling = {} /\ writing # "fetch"
    BY <1>1 DEF LossInv, PassInPlace, Pulling, Holding
<1>5. 1..cursor \subseteq Safe(mem)'
    BY <1>3, <1>4 DEF LossInv, FetchedIsSafe
<1>6. cursor = fetch.since /\ cursor \in Nat
    BY <1>1, Numbers DEF IInv, FetchInOrder
<1> DEFINE last == PageEnd(fetch.last)
<1>7. \/ fetch' = [fetch EXCEPT !.last = last, !.pages = fetch.pages + 1] /\ UNCHANGED cursor
      \/ /\ cursor' = last
         /\ fetch' = [fetch EXCEPT !.pc = "note", !.since = 0, !.last = last, !.pages = 0,
                                   !.rows = fetch.since + 1 .. last]
      \/ UNCHANGED cursor /\ fetch' = EndPass
    BY <1>6 DEF FetchPage
<1> HIDE DEF last
<1>8. CASE fetch' = [fetch EXCEPT !.last = last, !.pages = fetch.pages + 1] /\ UNCHANGED cursor
  <2>1. fetch'.pc = "page" /\ fetch'.rows = {}
      BY <1>1, <1>4, <1>8 DEF TypeOK, Fetches
  <2>2. FetchedIsSafe'
      BY <1>5, <1>8 DEF FetchedIsSafe
  <2>3. PassInPlace'
      BY <1>1, <1>4, <2>1 DEF LossInv, PassInPlace
  <2> QED
      BY <1>1, <1>2, <2>1, <2>2, <2>3, FetchReadsLoss
<1>9. CASE /\ cursor' = last
           /\ fetch' = [fetch EXCEPT !.pc = "note", !.since = 0, !.last = last, !.pages = 0,
                                     !.rows = fetch.since + 1 .. last]
  <2>1. fetch'.pc = "note" /\ fetch'.rows = cursor + 1 .. cursor'
      BY <1>1, <1>6, <1>9 DEF TypeOK, Fetches
  <2>2. cursor' \in Nat
    <3>1. TypeOK'
        BY <1>1, FetchingType DEF Fetching
    <3> QED
        BY <3>1, PositionIsNat DEF TypeOK
  <2>3. 1..cursor' \subseteq (1..cursor) \cup fetch'.rows
      BY <1>6, <2>1, <2>2
  <2>4. FetchedIsSafe'
      BY <1>5, <2>3 DEF FetchedIsSafe
  <2>5. PassInPlace'
      BY <1>1, <1>4, <2>1 DEF LossInv, PassInPlace, Holding
  <2> QED
      BY <1>1, <1>2, <2>1, <2>4, <2>5, FetchReadsLoss
<1>10. CASE UNCHANGED cursor /\ fetch' = EndPass
    BY <1>1, <1>2, <1>4, <1>5, <1>10, PassEndsLoss
<1> QED
    BY <1>7, <1>8, <1>9, <1>10

LEMMA FetchStopsLoss == IInv /\ LossInv /\ (FetchFails \/ FetchEnds) => LossInv'
<1> SUFFICES ASSUME IInv, LossInv, FetchFails \/ FetchEnds PROVE LossInv'
    OBVIOUS
<1>1. UNCHANGED <<mem, disk, writing, flush, replay, sweep, cursor>> /\ TypeOK
    BY DEF FetchFails, FetchEnds, fetchRest, storeVars, IInv
<1>2. Done \subseteq Done'
    BY <1>1, DoneGrows DEF Next, Fetching
<1>3. Safe(mem) \subseteq Safe(mem)'
    BY <1>1, <1>2, SafeGrows
<1>4. fetch' \in {FetchIdle, EndPass} /\ writing # "fetch"
    BY DEF FetchFails, FetchEnds, LossInv, PassInPlace
<1>5. 1..cursor \subseteq Safe(mem)'
  <2>1. CASE FetchFails /\ fetch.pc = "older"
    <3>1. exposed' = [exposed EXCEPT !.missed = @ \cup 1..cursor] /\ exposed \in Exposures
        BY <1>1, <2>1 DEF FetchFails, TypeOK, HistoryTypes
    <3>2. 1..cursor \subseteq Exposed'
        BY <3>1 DEF Exposed, Exposures
    <3> QED
        BY <3>2 DEF Safe, Done
  <2>2. CASE ~(FetchFails /\ fetch.pc = "older")
    <3>1. fetch.rows = {} /\ Pulling = {}
        BY <2>2 DEF FetchFails, FetchEnds, LossInv, PassInPlace, Pulling, Holding
    <3> QED
        BY <1>3, <3>1 DEF LossInv, FetchedIsSafe
  <2> QED
      BY <2>1, <2>2
<1> QED
    BY <1>1, <1>2, <1>4, <1>5, PassEndsLoss

LEMMA ReadMuteLoss == IInv /\ LossInv /\ ReadMute => LossInv'
<1> SUFFICES ASSUME IInv, LossInv, ReadMute PROVE LossInv'
    OBVIOUS
<1>1. UNCHANGED <<mem, disk, writing, flush, replay, sweep, cursor>> /\ TypeOK
    BY DEF ReadMute, fetchRest, storeVars, IInv
<1>2. Done \subseteq Done'
    BY <1>1, DoneGrows DEF Next, Fetching
<1>3. Safe(mem) \subseteq Safe(mem)'
    BY <1>1, <1>2, SafeGrows
<1>4. /\ fetch.pc = "noted" /\ writing # "fetch" /\ fetch'.pc \in {"track", "enqueue"}
      /\ fetch'.rows = fetch.rows /\ fetch'.seq = fetch.seq
    BY <1>1 DEF ReadMute, TypeOK, Fetches
<1>5. FetchedIsSafe'
    BY <1>1, <1>3, <1>4 DEF LossInv, FetchedIsSafe, Pulling
<1>6. PassInPlace'
    BY <1>1, <1>4 DEF LossInv, PassInPlace, Holding
<1> QED
    BY <1>1, <1>2, <1>4, <1>5, <1>6, FetchReadsLoss

\* A bootstrap page is in the hands of the pass before the cursor passes it.
LEMMA BootPageLoss == IInv /\ LossInv /\ BootPage => LossInv'
<1> SUFFICES ASSUME IInv, LossInv, BootPage PROVE LossInv'
    OBVIOUS
<1>1. UNCHANGED <<mem, disk, writing, flush, replay, sweep>> /\ TypeOK /\ fetch.pc = "boot"
    BY DEF BootPage, fetchRest, storeVars, IInv
<1>2. Done \subseteq Done'
    BY <1>1, DoneGrows DEF Next, Fetching
<1>3. Safe(mem) \subseteq Safe(mem)'
    BY <1>1, <1>2, SafeGrows
<1>4. fetch.rows = {} /\ Pulling = {} /\ writing # "fetch" /\ mem.fetch_cursor = 0
    BY <1>1 DEF LossInv, PassInPlace, Pulling, Holding
<1>5. 1..cursor \subseteq Safe(mem)'
    BY <1>3, <1>4 DEF LossInv, FetchedIsSafe
<1>6. \/ UNCHANGED cursor /\ fetch' = EndPass
      \/ UNCHANGED cursor /\ fetch'.pc = "mark" /\ fetch'.rows = {}
      \/ fetch'.pc = "baseline" /\ fetch'.rows = 1..cursor'
      \/ fetch'.pc \in {"older", "adopt"}
    BY <1>1, <1>4, ZenonT(30) DEF BootPage, TypeOK, Fetches
<1>7. CASE UNCHANGED cursor /\ fetch' = EndPass
    BY <1>1, <1>2, <1>4, <1>5, <1>7, PassEndsLoss
<1>8. CASE ~(UNCHANGED cursor /\ fetch' = EndPass)
  <2>1. FetchedIsSafe'
      BY <1>5, <1>6, <1>8 DEF FetchedIsSafe, Pulling
  <2>2. PassInPlace'
      BY <1>1, <1>4, <1>6, <1>8 DEF LossInv, PassInPlace, Holding
  <2>3. fetch'.pc \in {"mark", "baseline", "older", "adopt"}
      BY <1>6, <1>8
  <2> QED
      BY <1>1, <1>2, <2>1, <2>2, <2>3, FetchReadsLoss
<1> QED
    BY <1>7, <1>8

LEMMA OlderPageLoss == IInv /\ LossInv /\ OlderPage => LossInv'
<1> SUFFICES ASSUME IInv, LossInv, OlderPage PROVE LossInv'
    OBVIOUS
<1>1. UNCHANGED <<mem, disk, writing, flush, replay, sweep, cursor>> /\ TypeOK
    BY DEF OlderPage, fetchRest, storeVars, IInv
<1>2. Done \subseteq Done'
    BY <1>1, DoneGrows DEF Next, Fetching
<1>3. fetch.pc = "older" /\ fetch'.pc \in {"older", "adopt"}
    BY <1>1 DEF OlderPage, TypeOK, Fetches
<1>4. FetchedIsSafe'
    BY <1>3 DEF FetchedIsSafe, Pulling
<1>5. PassInPlace'
    BY <1>1, <1>3 DEF LossInv, PassInPlace, Holding
<1> QED
    BY <1>1, <1>2, <1>3, <1>4, <1>5, FetchReadsLoss

\* What a commit leaves alone, and where the acked position may go.
LEMMA CommitMoves ==
    ASSUME NEW s \in States, NEW seq \in Nat, NEW next \in Positions, NEW ids \in SUBSET Letters,
           NEW c, c = Commit(s, seq, next, ids)
    PROVE  /\ c.cursor_seq = s.cursor_seq /\ c.fetch_cursor = s.fetch_cursor /\ c.batch = s.batch
           /\ c.pending = s.pending /\ c.delivered_ids = s.delivered_ids \cup ids
           /\ c.watch_cursor \in {s.watch_cursor, IF next # 0 THEN next ELSE s.fetch_cursor}
BY DEF Commit, States

\* The acked position stays or moves to a place with only safe letters behind it, and what is
\* newly recorded as delivered is safe.
LEMMA SoundMoves ==
    ASSUME LossInv, Safe(mem) \subseteq Safe(mem)', NEW w, 1..w \subseteq Safe(mem)',
           NEW ids, ids \subseteq Safe(mem)',
           mem'.watch_cursor \in {mem.watch_cursor, w}, mem'.pending \subseteq mem.pending,
           mem'.delivered_ids = mem.delivered_ids \cup ids, mem'.batch \in {mem.batch, NoBatch}
    PROVE  Sound(mem)'
<1>1. NoBatch.next_cursor = 0 /\ 1..0 = {}
    BY DEF NoBatch
<1>2. 1..mem'.watch_cursor \subseteq Safe(mem)'
    BY DEF LossInv, StatesAreSound, Sound
<1>3. 1..mem'.batch.next_cursor \subseteq Safe(mem)'
    BY <1>1 DEF LossInv, StatesAreSound, Sound
<1>4. \A i \in mem'.pending : 1..i.next_cursor \subseteq Safe(mem)'
    BY DEF LossInv, StatesAreSound, Sound
<1>5. mem'.delivered_ids \subseteq Safe(mem)'
    BY DEF LossInv, StatesAreSound, Sound
<1> QED
    BY <1>2, <1>3, <1>4, <1>5 DEF Sound

\* The queue stays, and so does what is safe.
LEMMA QueueStays ==
    ASSUME Done \subseteq Done', mem'.batch = mem.batch, mem'.pending = mem.pending
    PROVE  Safe(mem) \subseteq Safe(mem)'
BY DEF Safe, BatchMessages, PendingMessages

\* A pass that writes: the disk and the other processes keep their part.
LEMMA FetchWritesLoss ==
    ASSUME LossInv, Done \subseteq Done', Safe(mem) \subseteq Safe(mem)',
           UNCHANGED <<disk, flush, replay, sweep>>, mem'.pending = mem.pending,
           FetchedIsSafe', Sound(mem)', TakenUpIsOlder', PassInPlace'
    PROVE  LossInv'
<1>1. Sound(disk)' /\ Safe(disk)' \subseteq Safe(mem)' /\ FlushIsSafe' /\ TakenUpIsSafe'
    BY FrameLoss
<1> QED
    BY <1>1 DEF LossInv, StatesAreSound

\* Sequences of what has been taken up are not newer than the state.
LEMMA TakenUpBehind ==
    ASSUME IInv
    PROVE  \A j \in TakenUp : /\ j \in Items /\ j.cursor_seq \in Nat /\ j.cursor_seq <= mem.cursor_seq
                              /\ Marker(j) \in Carried
<1>1. \A j \in TakenUp : j \in Items /\ j.cursor_seq \in Nat
    BY DEF IInv, TypeOK, TakenUp, Replays, Sweeps, Items
<1>2. \A j \in TakenUp : Marker(j) \in Carried
    BY DEF TakenUp, Carried, InFlight
<1>3. \A p \in Carried : p[1] <= mem.cursor_seq
    BY DEF IInv, MarkersAligned, Aligned, Carried
<1> QED
    BY <1>1, <1>2, <1>3 DEF Marker

LEMMA FetchNotesLoss == IInv /\ LossInv /\ (NoteFetchCursor \/ Adopt \/ Baseline) => LossInv'
<1> SUFFICES ASSUME IInv, LossInv, NoteFetchCursor \/ Adopt \/ Baseline PROVE LossInv'
    OBVIOUS
<1>1. TypeOK /\ UNCHANGED <<disk, flush, replay, sweep, cursor>> /\ writing' = "fetch"
    BY DEF IInv, NoteFetchCursor, Adopt, Baseline, Mutate, fetchRest
<1>2. Done \subseteq Done'
    BY <1>1, DoneGrows DEF Next, Fetching
<1>3. mem \in States /\ mem.cursor_seq + 1 \in Nat
    BY <1>1, Numbers
<1>4. /\ mem'.cursor_seq = mem.cursor_seq + 1 /\ mem'.fetch_cursor = fetch.last
      /\ mem'.batch = mem.batch /\ mem'.pending = mem.pending
      /\ mem'.delivered_ids = mem.delivered_ids
      /\ mem'.watch_cursor = mem.watch_cursor \/ (Baseline /\ mem'.watch_cursor = fetch.last)
  <2>1. CASE NoteFetchCursor
      BY <1>3, <2>1 DEF NoteFetchCursor, Mutate, States
  <2>2. CASE Adopt
      BY <1>3, <2>2 DEF Adopt, Mutate, States
  <2>3. CASE Baseline
      BY <1>3, <2>3 DEF Baseline, Mutate, States
  <2> QED
      BY <2>1, <2>2, <2>3
<1>5. Safe(mem) \subseteq Safe(mem)'
    BY <1>2, <1>4, QueueStays
<1>6. /\ fetch.pc \in {"note", "adopt", "baseline"} /\ cursor = fetch.last
      /\ mem.fetch_cursor <= fetch.last
    BY <1>1, Numbers DEF NoteFetchCursor, Adopt, Baseline, IInv, FetchInOrder
<1>7. \/ fetch'.pc = "noted" /\ fetch'.seq = mem.cursor_seq + 1 /\ fetch'.rows = fetch.rows
      \/ Baseline /\ fetch'.pc = "done" /\ fetch'.rows = {}
    BY <1>1 DEF NoteFetchCursor, Adopt, Baseline, PassAt, FetchIdle, TypeOK, Fetches
<1>8. Baseline => fetch.rows \subseteq Safe(mem)'
    BY DEF Baseline, Safe, Done
<1>9. 1..cursor \subseteq Safe(mem)' \cup fetch.rows
  <2>1. CASE fetch.pc = "adopt"
    <3>1. exposed' = [exposed EXCEPT !.missed = @ \cup ((1..fetch.last) \ fetch.rows)]
          /\ exposed \in Exposures
        BY <1>1, <2>1 DEF NoteFetchCursor, Adopt, Baseline, TypeOK, HistoryTypes
    <3>2. (1..fetch.last) \ fetch.rows \subseteq Exposed'
        BY <3>1 DEF Exposed, Exposures
    <3> QED
        BY <1>6, <3>2 DEF Safe, Done
  <2>2. CASE fetch.pc # "adopt"
    <3>1. Pulling = {}
        BY <1>6, <2>2 DEF Pulling
    <3> QED
        BY <1>5, <3>1 DEF LossInv, FetchedIsSafe
  <2> QED
      BY <2>1, <2>2
<1>10. FetchedIsSafe'
    BY <1>1, <1>7, <1>8, <1>9 DEF FetchedIsSafe
<1>11. Sound(mem)'
  <2>1. CASE Baseline
    <3>1. 1..fetch.last \subseteq Safe(mem)'
        BY <1>6, <1>8, <1>9, <2>1
    <3> QED
        BY <1>4, <1>5, <3>1 DEF Sound, LossInv, StatesAreSound
  <2>2. CASE ~Baseline
    <3>1. 1..0 = {} /\ {} \subseteq Safe(mem)'
        OBVIOUS
    <3>2. /\ mem'.watch_cursor \in {mem.watch_cursor, 0} /\ mem'.pending \subseteq mem.pending
          /\ mem'.delivered_ids = mem.delivered_ids \cup {} /\ mem'.batch \in {mem.batch, NoBatch}
        BY <1>4, <2>2
    <3> QED
        BY <1>5, <3>1, <3>2, SoundMoves
  <2> QED
      BY <2>1, <2>2
<1>12. TakenUpIsOlder'
  <2>1. \A j \in TakenUp : j.cursor_seq < mem.cursor_seq + 1
      BY <1>3, TakenUpBehind, Numbers, <1>1
  <2> QED
      BY <1>1, <1>4, <1>7, <2>1 DEF LossInv, TakenUpIsOlder, TakenUp
<1>13. PassInPlace'
  <2>1. disk'.fetch_cursor <= mem'.fetch_cursor
      BY <1>1, <1>4, <1>6, Numbers DEF LossInv, PassInPlace
  <2> QED
      BY <1>7, <2>1 DEF PassInPlace, Holding
<1> QED
    BY <1>1, <1>2, <1>4, <1>5, <1>10, <1>11, <1>12, <1>13, FetchWritesLoss

LEMMA MutesLoss == IInv /\ LossInv /\ (MarkEmpty \/ TrackSilently) => LossInv'
<1> SUFFICES ASSUME IInv, LossInv, MarkEmpty \/ TrackSilently PROVE LossInv'
    OBVIOUS
<1>1. /\ TypeOK /\ UNCHANGED <<disk, flush, replay, sweep, cursor>> /\ writing' = "fetch"
      /\ fetch' = PassAt("done")
    BY DEF IInv, MarkEmpty, TrackSilently, Mutate, fetchRest
<1>2. Done \subseteq Done'
    BY <1>1, DoneGrows DEF Next, Fetching
<1>3. fetch'.pc = "done" /\ fetch'.rows = {}
    BY <1>1 DEF PassAt, FetchIdle
<1>4. mem \in States /\ 0 \in Positions /\ fetch.seq \in Nat /\ fetch.rows \in SUBSET Letters
    BY <1>1, Numbers, BoundsAssumption DEF TypeOK, Fetches, Positions
<1> DEFINE ids == IF TrackSilently THEN fetch.rows ELSE {}
<1>5. /\ mem'.fetch_cursor = mem.fetch_cursor
      /\ mem'.batch = mem.batch /\ mem'.pending = mem.pending
      /\ mem'.delivered_ids = mem.delivered_ids \cup ids
      /\ mem'.watch_cursor \in {mem.watch_cursor, mem.fetch_cursor}
  <2>1. CASE MarkEmpty /\ ~TrackSilently
      BY <1>4, <2>1 DEF MarkEmpty, Mutate, States
  <2>2. CASE TrackSilently
    <3>1. mem' = Commit(mem, fetch.seq, 0, fetch.rows)
        BY <2>2 DEF TrackSilently, Mutate
    <3> QED
        BY <1>4, <2>2, <3>1, CommitMoves
  <2> QED
      BY <2>1, <2>2
<1>6. Safe(mem) \subseteq Safe(mem)'
    BY <1>2, <1>5, QueueStays
<1>7. ids \subseteq Safe(mem)' /\ fetch.rows \subseteq Safe(mem)'
    BY DEF MarkEmpty, TrackSilently, Safe, Done, LossInv, PassInPlace, Holding
<1>8. 1..cursor \subseteq Safe(mem)'
  <2>1. Pulling = {}
      BY DEF MarkEmpty, TrackSilently, Pulling
  <2> QED
      BY <1>6, <1>7, <2>1 DEF LossInv, FetchedIsSafe
<1>9. 1..mem.fetch_cursor \subseteq Safe(mem)'
  <2>1. 1..mem.fetch_cursor \subseteq 1..cursor
      BY <1>1, Numbers DEF IInv, FetchInOrder
  <2> QED
      BY <1>8, <2>1
<1>10. FetchedIsSafe'
    BY <1>1, <1>8 DEF FetchedIsSafe
<1> HIDE DEF ids
<1>11. Sound(mem)'
    BY <1>5, <1>6, <1>7, <1>9, SoundMoves
<1>12. TakenUpIsOlder'
    BY <1>1, <1>3, <1>5 DEF LossInv, TakenUpIsOlder, TakenUp
<1>13. PassInPlace'
    BY <1>1, <1>3, <1>5 DEF LossInv, PassInPlace
<1> QED
    BY <1>1, <1>2, <1>5, <1>6, <1>10, <1>11, <1>12, <1>13, FetchWritesLoss

\* What was fetched is in the batch once the pass lets go of it.
LEMMA EnqueueLoss == IInv /\ LossInv /\ Enqueue => LossInv'
<1> SUFFICES ASSUME IInv, LossInv, Enqueue PROVE LossInv'
    OBVIOUS
<1>1. TypeOK /\ UNCHANGED <<disk, flush, replay, sweep, cursor>> /\ fetch.pc = "enqueue"
    BY DEF IInv, Enqueue, Mutate, fetchRest
<1>2. Done \subseteq Done'
    BY <1>1, DoneGrows DEF Next, Fetching
<1> DEFINE fresh == fetch.rows \ knownMessageIds(mem)
           grown == [messages |-> BatchMessages(mem) \cup fresh,
                     next_cursor |-> fetch.last, cursor_seq |-> fetch.seq]
<1>3. /\ mem' = (IF fresh = {} THEN mem ELSE [mem EXCEPT !.batch = grown]) /\ mem \in States
      /\ fetch' = PassAt(IF fresh = {} THEN "done" ELSE "schedule")
    BY <1>1, Numbers DEF Enqueue, Mutate
<1>4. /\ mem'.fetch_cursor = mem.fetch_cursor /\ mem'.pending = mem.pending
      /\ mem'.watch_cursor = mem.watch_cursor /\ mem'.delivered_ids = mem.delivered_ids
      /\ \/ fresh = {} /\ mem'.batch = mem.batch
         \/ fresh # {} /\ mem'.batch = grown
    BY <1>3 DEF States
<1>5. fetch'.rows = {} /\ fetch'.pc \in {"done", "schedule"}
    BY <1>3 DEF PassAt, FetchIdle
<1>6. /\ fetch.last = mem.fetch_cursor /\ mem.fetch_cursor <= cursor
      /\ fetch.seq # 0 /\ Pulling = {}
    BY <1>1 DEF IInv, FetchInOrder, Pulling
<1>7. grown.messages = BatchMessages(mem) \cup fresh /\ grown.next_cursor = fetch.last
      /\ grown.cursor_seq = fetch.seq
    OBVIOUS
<1> HIDE DEF grown
<1>8. BatchMessages(mem) \cup fresh \subseteq BatchMessages(mem)'
    BY <1>4, <1>7 DEF BatchMessages
<1>9. Safe(mem) \subseteq Safe(mem)'
    BY <1>2, <1>4, <1>8 DEF Safe, PendingMessages
<1>10. fetch.rows \subseteq Safe(mem)'
  <2>1. fetch.rows \subseteq fresh \cup knownMessageIds(mem)
      OBVIOUS
  <2>2. knownMessageIds(mem) \subseteq Safe(mem)
      BY DEF knownMessageIds, Safe, LossInv, StatesAreSound, Sound
  <2>3. fresh \subseteq Safe(mem)'
      BY <1>8 DEF Safe
  <2> QED
      BY <1>9, <2>1, <2>2, <2>3
<1>11. 1..cursor \subseteq Safe(mem)'
    BY <1>6, <1>9, <1>10 DEF LossInv, FetchedIsSafe
<1>12. FetchedIsSafe'
    BY <1>1, <1>11 DEF FetchedIsSafe
<1>13. 1..fetch.last \subseteq Safe(mem)'
  <2>1. 1..fetch.last \subseteq 1..cursor
      BY <1>1, <1>6, Numbers
  <2> QED
      BY <1>11, <2>1
<1>14. Sound(mem)'
    BY <1>4, <1>7, <1>9, <1>13 DEF Sound, LossInv, StatesAreSound
<1>15. TakenUpIsOlder'
    BY <1>1, <1>4, <1>5, <1>7 DEF LossInv, TakenUpIsOlder, TakenUp
<1>16. PassInPlace'
    BY <1>1, <1>4, <1>5 DEF LossInv, PassInPlace
<1> QED
    BY <1>1, <1>2, <1>4, <1>9, <1>12, <1>14, <1>15, <1>16, FetchWritesLoss

LEMMA FetchingLoss == IInv /\ LossInv /\ Fetching => LossInv'
BY TriggerLoss, FetchPageLoss, FetchStopsLoss, ReadMuteLoss, BootPageLoss, OlderPageLoss,
   FetchNotesLoss, MutesLoss, EnqueueLoss DEF Fetching

----------------------------------------------------------------------------
(* The flush pass.                                                         *)

\* A step of the flush that leaves the states alone.
LEMMA FlushReadsLoss ==
    IInv /\ LossInv /\ (\/ FlushTimerFires \/ RetryTimerFires \/ ReconcileRead \/ Filter \/ Delivered
             \/ Refused \/ (\E taken \in BOOLEAN : DeliverFails(taken)) \/ FlushSettles) => LossInv'
<1> DEFINE Step == \/ FlushTimerFires \/ RetryTimerFires \/ ReconcileRead \/ Filter \/ Delivered
                   \/ Refused \/ (\E taken \in BOOLEAN : DeliverFails(taken)) \/ FlushSettles
<1> SUFFICES ASSUME IInv, LossInv, Step PROVE LossInv'
    OBVIOUS
<1>1. TypeOK /\ UNCHANGED <<mem, disk, writing, cursor, fetch, replay, sweep>>
    BY DEF FlushTimerFires, RetryTimerFires, ReconcileRead, Filter, Delivered, Refused,
           DeliverFails, FlushSettles, flushRest, storeVars, IInv
<1>2. flush \in Flushes
    BY <1>1 DEF TypeOK
<1>3. Done \subseteq Done'
    BY <1>1, DoneGrows DEF Next, Flushing
<1>4. Safe(mem) \subseteq Safe(mem)'
    BY <1>1, <1>3, SafeGrows
<1>5. /\ FetchedIsSafe' /\ StatesAreSound' /\ TakenUpIsSafe' /\ PassInPlace'
    BY <1>1, <1>3, <1>4, FrameLoss DEF StatesAreSound
<1>6. BatchMessages(mem) \subseteq Safe(mem) /\ 1..mem.batch.next_cursor \subseteq Safe(mem)
    BY DEF Safe, LossInv, StatesAreSound, Sound
<1>7. /\ flush'.next_cursor \in {0, flush.next_cursor, mem.batch.next_cursor}
      /\ flush'.body \subseteq flush.body \cup BatchMessages(mem)
      /\ flush'.ids \subseteq flush.ids \cup BatchMessages(mem)
      /\ \/ flush' = flush
         \/ flush'.pc \in {"idle", "settle", "reconcile", "filter", "post"}
         \/ /\ flush'.pc = "park" /\ mem.batch # NoBatch
            /\ flush'.cursor_seq = mem.batch.cursor_seq
         \/ flush'.pc = "ack" /\ (flush'.body = {} \/ (Delivered /\ flush'.body = flush.body))
  <2>1. CASE FlushTimerFires \/ RetryTimerFires
      BY <1>2, <2>1 DEF FlushTimerFires, RetryTimerFires, BeginFlush, FlushIdle
  <2>2. CASE ReconcileRead
      BY <1>2, <2>2 DEF ReconcileRead, Flushes
  <2>3. CASE Filter
    <3>1. PICK body \in {BatchMessages(mem) \cap flush.live}
                        \cup {BatchMessages(mem) \ done : done \in SUBSET closed} :
               flush' = [flush EXCEPT
                      !.pc = IF body = {} THEN "ack" ELSE IF HasTarget THEN "post" ELSE "park",
                      !.live = {}, !.body = body,
                      !.ids  = IF body = {} THEN BatchMessages(mem) ELSE {},
                      !.next_cursor = IF body = {} \/ ~HasTarget THEN mem.batch.next_cursor ELSE 0,
                      !.cursor_seq = IF body = {} \/ ~HasTarget THEN mem.batch.cursor_seq ELSE 0]
        BY <2>3, Zenon DEF Filter
    <3>2. mem.batch # NoBatch
        BY <2>3 DEF Filter, IInv, FlushInOrder
    <3>3. body \subseteq BatchMessages(mem)
        BY <3>1
    <3> QED
        BY <1>2, <3>1, <3>2, <3>3 DEF Flushes
  <2>4. CASE Delivered
      BY <1>2, <2>4 DEF Delivered, Flushes
  <2>5. CASE Refused
      BY <1>2, <2>5 DEF Refused, IInv, FlushInOrder, Flushes
  <2>6. CASE FlushSettles \/ \E taken \in BOOLEAN : DeliverFails(taken)
      BY <2>6 DEF FlushSettles, DeliverFails, FlushIdle
  <2> QED
      BY <2>1, <2>2, <2>3, <2>4, <2>5, <2>6
<1>8. FlushIsSafe'
  <2>1. 1..flush'.next_cursor \subseteq Safe(mem)'
    <3>1. 1..0 = {}
        OBVIOUS
    <3> QED
        BY <1>4, <1>6, <1>7, <3>1 DEF LossInv, FlushIsSafe
  <2>2. flush'.body \subseteq Safe(mem)' /\ flush'.ids \subseteq Safe(mem)'
      BY <1>4, <1>6, <1>7 DEF LossInv, FlushIsSafe
  <2>3. Delivered => flush.body \subseteq Done'
    <3>1. Delivered => flush.body \subseteq Told'
        BY <1>1, <1>2 DEF Delivered, Announce, Told, TypeOK, HistoryTypes, Flushes
    <3> QED
        BY <3>1 DEF Done
  <2>4. flush'.pc \in {"ack", "clear"} => flush'.body \subseteq Done'
      BY <1>3, <1>7, <2>3 DEF LossInv, FlushIsSafe
  <2> QED
      BY <2>1, <2>2, <2>4 DEF FlushIsSafe
<1>9. TakenUpIsOlder'
    BY <1>1, <1>7 DEF LossInv, TakenUpIsOlder, TakenUp
<1> QED
    BY <1>5, <1>8, <1>9 DEF LossInv

\* An ack moves the position to one whose letters are safe.
LEMMA AckBatchLoss == IInv /\ LossInv /\ AckBatch => LossInv'
<1> SUFFICES ASSUME IInv, LossInv, AckBatch PROVE LossInv'
    OBVIOUS
<1>1. TypeOK /\ UNCHANGED <<disk, cursor, fetch, replay, sweep>> /\ writing' = "flush"
    BY DEF IInv, AckBatch, Mutate, flushRest
<1>2. Done \subseteq Done'
    BY <1>1, DoneGrows DEF Next, Flushing
<1>3. flush.pc = "ack" /\ flush.cursor_seq # 0 /\ Marker(flush) \in Carried
    BY DEF AckBatch, IInv, FlushInOrder, Carried, InFlight
<1>4. flush.next_cursor # 0
    BY <1>3, NumberedHasCursor DEF Marker
<1>5. /\ mem' = Commit(mem, flush.cursor_seq, flush.next_cursor, flush.ids)
      /\ flush'.pc = "clear" /\ flush'.next_cursor = 0 /\ flush'.ids = {} /\ flush'.body = flush.body
    BY DEF AckBatch, Mutate, FlushIdle
<1>6. /\ flush.cursor_seq \in Nat /\ flush.next_cursor \in Positions /\ flush.ids \in SUBSET Letters
      /\ mem \in States
    BY <1>1, Numbers DEF TypeOK, Flushes
<1>7. /\ mem'.fetch_cursor = mem.fetch_cursor /\ mem'.batch = mem.batch /\ mem'.pending = mem.pending
      /\ mem'.delivered_ids = mem.delivered_ids \cup flush.ids
      /\ mem'.watch_cursor \in {mem.watch_cursor, flush.next_cursor}
    BY <1>4, <1>5, <1>6, CommitMoves
<1>8. Safe(mem) \subseteq Safe(mem)'
    BY <1>2, <1>7, QueueStays
<1>9. 1..flush.next_cursor \subseteq Safe(mem)' /\ flush.ids \subseteq Safe(mem)'
    BY <1>8 DEF LossInv, FlushIsSafe
<1>10. Sound(mem)'
  <2>1. mem'.pending \subseteq mem.pending /\ mem'.batch \in {mem.batch, NoBatch}
      BY <1>7
  <2> QED
      BY <1>7, <1>8, <1>9, <2>1, SoundMoves
<1>11. Sound(disk)' /\ Safe(disk)' \subseteq Safe(mem)' /\ FetchedIsSafe' /\ TakenUpIsSafe' /\ PassInPlace'
    BY <1>1, <1>2, <1>7, <1>8, FrameLoss
<1>12. FlushIsSafe'
  <2>1. 1..0 = {}
      OBVIOUS
  <2> QED
      BY <1>2, <1>3, <1>5, <1>8, <2>1 DEF LossInv, FlushIsSafe
<1>13. TakenUpIsOlder'
    BY <1>1, <1>5, <1>7 DEF LossInv, TakenUpIsOlder, TakenUp
<1> QED
    BY <1>10, <1>11, <1>12, <1>13 DEF LossInv, StatesAreSound

LEMMA ClearBatchLoss == IInv /\ LossInv /\ ClearBatch => LossInv'
<1> SUFFICES ASSUME IInv, LossInv, ClearBatch PROVE LossInv'
    OBVIOUS
<1>1. /\ TypeOK /\ UNCHANGED <<disk, cursor, fetch, replay, sweep>> /\ writing' = "flush"
      /\ flush.pc = "clear"
    BY DEF IInv, ClearBatch, Mutate, flushRest
<1>2. Done \subseteq Done'
    BY <1>1, DoneGrows DEF Next, Flushing
<1>3. /\ mem'.fetch_cursor = mem.fetch_cursor /\ mem'.watch_cursor = mem.watch_cursor
      /\ mem'.delivered_ids = mem.delivered_ids \cup {}
      /\ mem'.pending = mem.pending /\ mem'.batch = NoBatch
    BY <1>1, Numbers DEF ClearBatch, Mutate, States
<1>4. BatchMessages(mem) \subseteq Done'
  <2>1. exposed' = [exposed EXCEPT !.late = @ \cup LateMail] /\ exposed \in Exposures
      BY <1>1 DEF ClearBatch, TypeOK, HistoryTypes
  <2>2. LateMail \subseteq Exposed'
      BY <2>1 DEF Exposed, Exposures
  <2>3. LateMail \subseteq Done' /\ closed \subseteq Done /\ flush.body \subseteq Done
      BY <1>1, <2>2 DEF Done, LossInv, FlushIsSafe
  <2> QED
      BY <1>2, <2>3 DEF LateMail
<1>5. Safe(mem) \subseteq Safe(mem)'
    BY <1>2, <1>3, <1>4 DEF Safe, PendingMessages
<1>6. Sound(mem)'
  <2>1. 1..0 = {} /\ {} \subseteq Safe(mem)' /\ mem'.watch_cursor \in {mem.watch_cursor, 0}
      BY <1>3
  <2>2. mem'.pending \subseteq mem.pending /\ mem'.batch \in {mem.batch, NoBatch}
      BY <1>3
  <2> QED
      BY <1>3, <1>5, <2>1, <2>2, SoundMoves
<1>7. Sound(disk)' /\ Safe(disk)' \subseteq Safe(mem)' /\ FetchedIsSafe' /\ TakenUpIsSafe' /\ PassInPlace'
    BY <1>1, <1>2, <1>3, <1>5, FrameLoss
<1>8. /\ flush'.pc = "settle" /\ flush'.body = flush.body /\ flush'.ids = flush.ids
      /\ flush'.next_cursor = flush.next_cursor
    BY <1>1 DEF ClearBatch, TypeOK, Flushes
<1>9. FlushIsSafe'
    BY <1>5, <1>8 DEF LossInv, FlushIsSafe
<1>10. TakenUpIsOlder'
    BY <1>1, <1>3, <1>8 DEF LossInv, TakenUpIsOlder, TakenUp
<1> QED
    BY <1>6, <1>7, <1>9, <1>10 DEF LossInv, StatesAreSound

\* What the full queue drops has met its window.
LEMMA ToPendingLoss == IInv /\ LossInv /\ ToPending => LossInv'
<1> SUFFICES ASSUME IInv, LossInv, ToPending PROVE LossInv'
    OBVIOUS
<1>1. /\ TypeOK /\ UNCHANGED <<disk, cursor, fetch, replay, sweep>> /\ writing' = "flush"
      /\ flush.pc = "park" /\ flush' = [FlushIdle EXCEPT !.pc = "settle"]
    BY DEF IInv, ToPending, Mutate, flushRest
<1>2. Done \subseteq Done'
    BY <1>1, DoneGrows DEF Next, Flushing
<1> DEFINE item == [cursor_seq |-> flush.cursor_seq, next_cursor |-> flush.next_cursor,
                    messages |-> flush.body, resting |-> FALSE]
<1>3. PICK dropped \in SUBSET mem.pending :
        /\ mem' = [mem EXCEPT !.batch = NoBatch, !.pending = (@ \ dropped) \cup {item}]
        /\ exposed' = [exposed EXCEPT !.late = @ \cup LateMail,
                                      !.dropped = @ \cup UNION {i.messages : i \in dropped}]
  <2> DEFINE d == IF Cardinality(mem.pending) >= PendingCap THEN Oldest(mem.pending) ELSE {}
  <2>1. d \in SUBSET mem.pending
      BY DEF Oldest
  <2>2. /\ mem' = [mem EXCEPT !.batch = NoBatch, !.pending = (@ \ d) \cup {item}]
        /\ exposed' = [exposed EXCEPT !.late = @ \cup LateMail,
                                      !.dropped = @ \cup UNION {i.messages : i \in d}]
      BY DEF ToPending, Mutate
  <2> HIDE DEF d, item
  <2> QED
      BY <2>1, <2>2
<1>4. /\ item.cursor_seq = flush.cursor_seq /\ item.next_cursor = flush.next_cursor
      /\ item.messages = flush.body
    OBVIOUS
<1> HIDE DEF item
<1>5. /\ mem'.fetch_cursor = mem.fetch_cursor /\ mem'.watch_cursor = mem.watch_cursor
      /\ mem'.delivered_ids = mem.delivered_ids
      /\ mem'.pending = (mem.pending \ dropped) \cup {item} /\ mem'.batch = NoBatch
    BY <1>1, <1>3, Numbers DEF States
<1>6. LateMail \cup UNION {i.messages : i \in dropped} \subseteq Done'
  <2>1. exposed \in Exposures
      BY <1>1 DEF TypeOK, HistoryTypes
  <2> DEFINE gone == UNION {i.messages : i \in dropped}
  <2>2. exposed' = [exposed EXCEPT !.late = @ \cup LateMail, !.dropped = @ \cup gone]
      BY <1>3
  <2> HIDE DEF gone
  <2>3. LateMail \cup gone \subseteq Exposed'
      BY <2>1, <2>2 DEF Exposed, Exposures
  <2> QED
      BY <2>3 DEF Done, gone
<1>7. Safe(mem) \subseteq Safe(mem)'
  <2>1. flush.body \subseteq PendingMessages(mem)'
      BY <1>4, <1>5 DEF PendingMessages
  <2>2. BatchMessages(mem) \subseteq Safe(mem)'
    <3>1. BatchMessages(mem) \subseteq LateMail \cup flush.body \cup closed
        BY DEF LateMail
    <3>2. closed \subseteq Done
        BY DEF Done
    <3> QED
        BY <1>2, <1>6, <2>1, <3>1, <3>2 DEF Safe
  <2>3. PendingMessages(mem) \subseteq Safe(mem)'
    <3>1. PendingMessages(mem) \subseteq PendingMessages(mem)' \cup UNION {i.messages : i \in dropped}
        BY <1>5 DEF PendingMessages
    <3> QED
        BY <1>6, <3>1 DEF Safe
  <2>4. Done' \subseteq Safe(mem)'
      BY DEF Safe
  <2> QED
      BY <1>2, <2>2, <2>3, <2>4 DEF Safe
<1>8. Sound(mem)'
  <2>1. 1..NoBatch.next_cursor = {}
      BY DEF NoBatch
  <2>2. 1..item.next_cursor \subseteq Safe(mem)'
      BY <1>4, <1>7 DEF LossInv, FlushIsSafe
  <2> QED
      BY <1>5, <1>7, <2>1, <2>2 DEF Sound, LossInv, StatesAreSound
<1>9. Sound(disk)' /\ Safe(disk)' \subseteq Safe(mem)' /\ FetchedIsSafe' /\ PassInPlace'
    BY <1>1, <1>2, <1>5, <1>7, FrameLoss
<1>10. /\ flush'.pc = "settle" /\ flush'.body = {} /\ flush'.ids = {} /\ flush'.next_cursor = 0
    BY <1>1 DEF FlushIdle
<1>11. FlushIsSafe'
  <2>1. 1..0 = {}
      OBVIOUS
  <2> QED
      BY <1>10, <2>1 DEF FlushIsSafe
<1>12. TakenUpIsSafe'
  <2>1. \A j \in TakenUp : ~SameItem(item, j)
    <3>1. \A j \in TakenUp : j.cursor_seq \in Nat /\ j.cursor_seq < flush.cursor_seq
        BY <1>1, TakenUpBehind DEF LossInv, TakenUpIsOlder
    <3>2. flush.cursor_seq \in Nat
        BY <1>1, Numbers
    <3>3. \A j \in TakenUp : j.cursor_seq # flush.cursor_seq
        BY <3>1, <3>2
    <3> QED
        BY <1>4, <3>3 DEF SameItem
  <2>2. \A j \in TakenUp, i \in mem'.pending : SameItem(i, j) => i.messages = j.messages
      BY <1>5, <2>1 DEF LossInv, TakenUpIsSafe
  <2>3. TakenUp' = TakenUp
      BY <1>1 DEF TakenUp
  <2> QED
      BY <1>1, <1>2, <1>7, <2>2, <2>3 DEF LossInv, TakenUpIsSafe
<1>13. TakenUpIsOlder'
    BY <1>1, <1>5, <1>10 DEF LossInv, TakenUpIsOlder, TakenUp
<1> QED
    BY <1>8, <1>9, <1>11, <1>12, <1>13 DEF LossInv, StatesAreSound

LEMMA FlushingLoss == IInv /\ LossInv /\ Flushing => LossInv'
BY FlushReadsLoss, AckBatchLoss, ClearBatchLoss, ToPendingLoss DEF Flushing

----------------------------------------------------------------------------
(* The replay and the sweep.                                               *)

\* An item of the queue, or no item, may be taken up.
LEMMA TakesUpLoss ==
    ASSUME IInv, LossInv, Done \subseteq Done', UNCHANGED <<mem, disk, writing, cursor, fetch, flush>>,
           TakenUp' \subseteq TakenUp \cup mem.pending \cup {NoItem},
           replay'.pc = "commit" => replay'.item.messages \subseteq Done'
    PROVE  LossInv'
<1>1. Safe(mem) \subseteq Safe(mem)'
    BY SafeGrows
<1>2. FetchedIsSafe' /\ StatesAreSound' /\ FlushIsSafe' /\ PassInPlace'
    BY <1>1, FrameLoss DEF StatesAreSound
<1>3. NoItem.next_cursor = 0 /\ NoItem.cursor_seq = 0 /\ 1..0 = {}
    BY DEF NoItem
<1>4. TakenUpIsSafe'
  <2>1. \A j \in TakenUp' : 1..j.next_cursor \subseteq Safe(mem)'
      BY <1>1, <1>3 DEF LossInv, TakenUpIsSafe, StatesAreSound, Sound
  <2>2. \A j \in TakenUp', i \in mem.pending : SameItem(i, j) => i.messages = j.messages
    <3>1. \A i, j \in mem.pending : SameItem(i, j) => i = j
        BY DEF IInv, Queued
    <3>2. \A i \in mem.pending : ~SameItem(i, NoItem)
        BY <1>3 DEF IInv, Queued, SameItem
    <3> QED
        BY <3>1, <3>2 DEF LossInv, TakenUpIsSafe
  <2> QED
      BY <2>1, <2>2 DEF TakenUpIsSafe
<1>5. TakenUpIsOlder'
  <2>1. \A n \in Nat : n # 0 => 0 < n
      OBVIOUS
  <2>2. mem.batch.cursor_seq \in Nat /\ flush.cursor_seq \in Nat /\ fetch.seq \in Nat
      BY Numbers DEF IInv
  <2>3. mem.batch # NoBatch =>
           /\ NoItem.cursor_seq < mem.batch.cursor_seq
           /\ \A i \in mem.pending : i.cursor_seq < mem.batch.cursor_seq
      BY <1>3, <2>1, <2>2 DEF IInv, Queued
  <2>4. flush.pc = "park" =>
           /\ NoItem.cursor_seq < flush.cursor_seq
           /\ \A i \in mem.pending : i.cursor_seq < flush.cursor_seq
      BY <1>3, <2>1, <2>2 DEF IInv, FlushInOrder
  <2>5. fetch.pc \in {"noted", "track", "enqueue"} =>
           /\ NoItem.cursor_seq < fetch.seq
           /\ \A i \in mem.pending : i.cursor_seq < fetch.seq
      BY <1>3, <2>1, <2>2 DEF IInv, FetchInOrder
  <2> QED
      BY <2>3, <2>4, <2>5 DEF LossInv, TakenUpIsOlder
<1> QED
    BY <1>2, <1>4, <1>5 DEF LossInv

LEMMA ReplayReadsLoss ==
    IInv /\ LossInv /\ (\/ ReplayStart \/ ReplayPick \/ ReplayEnds \/ Redelivered
                        \/ (\E taken \in BOOLEAN : RedeliveryFails(taken))) => LossInv'
<1> DEFINE Step == \/ ReplayStart \/ ReplayPick \/ ReplayEnds \/ Redelivered
                   \/ (\E taken \in BOOLEAN : RedeliveryFails(taken))
<1> SUFFICES ASSUME IInv, LossInv, Step PROVE LossInv'
    OBVIOUS
<1>1. TypeOK /\ UNCHANGED <<mem, disk, writing, cursor, fetch, flush, sweep>>
    BY DEF ReplayStart, ReplayPick, ReplayEnds, Redelivered, RedeliveryFails, replayRest,
           storeVars, IInv
<1>2. Done \subseteq Done'
    BY <1>1, DoneGrows DEF Next, Replaying
<1>3. /\ replay'.due \subseteq replay.due \cup mem.pending
      /\ replay'.item \in {replay.item, NoItem} \cup replay.due
      /\ replay'.pc = "commit" => Redelivered /\ replay'.item = replay.item
  <2>1. CASE ReplayStart
    <3>1. PICK due \in SUBSET mem.pending : replay' = [ReplayIdle EXCEPT !.pc = "pick", !.due = due]
        BY <2>1 DEF ReplayStart
    <3>2. replay'.pc = "pick" /\ replay'.due = due /\ replay'.item = NoItem
        BY <3>1 DEF ReplayIdle
    <3> QED
        BY <3>2
  <2>2. CASE ReplayPick
      BY <2>2 DEF ReplayPick, Oldest
  <2>3. CASE ReplayEnds
      BY <2>3 DEF ReplayEnds, ReplayIdle
  <2>4. CASE Redelivered
      BY <1>1, <2>4 DEF Redelivered, TypeOK, Replays
  <2>5. CASE \E taken \in BOOLEAN : RedeliveryFails(taken)
      BY <1>1, <2>5 DEF RedeliveryFails, TypeOK, Replays
  <2> QED
      BY <2>1, <2>2, <2>3, <2>4, <2>5
<1>4. TakenUp' \subseteq TakenUp \cup mem.pending \cup {NoItem}
    BY <1>1, <1>3 DEF TakenUp
<1>5. replay'.pc = "commit" => replay'.item.messages \subseteq Done'
  <2>1. Redelivered => replay.item.messages \subseteq Told'
    <3>1. replay.item.messages \subseteq Letters /\ told \in [Letters -> Nat]
        BY <1>1 DEF TypeOK, Replays, Items, HistoryTypes
    <3> QED
        BY <3>1 DEF Redelivered, Announce, Told
  <2> QED
      BY <1>3, <2>1 DEF Done
<1> QED
    BY <1>1, <1>2, <1>4, <1>5, TakesUpLoss

\* An item is acked and taken out of the queue, with all that carry its sequence.
LEMMA ItemAckLoss ==
    ASSUME IInv, LossInv, Done \subseteq Done', UNCHANGED <<disk, cursor, fetch, flush>>,
           writing' # "fetch",
           NEW item \in TakenUp, item.cursor_seq # 0,
           NEW ids \in SUBSET Letters, ids \subseteq Done',
           NEW kept \in SUBSET mem.pending, \A i \in mem.pending \ kept : i.messages \subseteq Done',
           mem' = [Commit(mem, item.cursor_seq, item.next_cursor, ids) EXCEPT !.pending = kept],
           TakenUp' \subseteq TakenUp \cup {NoItem}, replay'.pc = "commit" => UNCHANGED replay
    PROVE  LossInv'
<1>1. /\ item \in Items /\ item.cursor_seq \in Nat /\ item.next_cursor \in Positions
      /\ Marker(item) \in Carried /\ mem \in States
    BY TakenUpBehind, Numbers DEF Items, IInv
<1>2. item.next_cursor # 0
    BY <1>1, NumberedHasCursor DEF Marker
<1> DEFINE c == Commit(mem, item.cursor_seq, item.next_cursor, ids)
<1>3. c \in States
    BY <1>1, CommitType
<1>4. /\ c.fetch_cursor = mem.fetch_cursor /\ c.batch = mem.batch
      /\ c.delivered_ids = mem.delivered_ids \cup ids
      /\ c.watch_cursor \in {mem.watch_cursor, item.next_cursor}
    BY <1>1, <1>2, CommitMoves
<1>5. mem' = [c EXCEPT !.pending = kept]
    OBVIOUS
<1> HIDE DEF c
<1>6. /\ mem'.fetch_cursor = mem.fetch_cursor /\ mem'.batch = mem.batch /\ mem'.pending = kept
      /\ mem'.delivered_ids = mem.delivered_ids \cup ids
      /\ mem'.watch_cursor \in {mem.watch_cursor, item.next_cursor}
    BY <1>3, <1>4, <1>5 DEF States
<1>7. Safe(mem) \subseteq Safe(mem)'
  <2>1. PendingMessages(mem) \subseteq PendingMessages(mem)' \cup Done'
      BY <1>6 DEF PendingMessages
  <2>2. BatchMessages(mem)' = BatchMessages(mem)
      BY <1>6 DEF BatchMessages
  <2> QED
      BY <2>1, <2>2 DEF Safe
<1>8. Sound(mem)'
  <2>1. 1..item.next_cursor \subseteq Safe(mem)' /\ ids \subseteq Safe(mem)'
      BY <1>7 DEF Safe, LossInv, TakenUpIsSafe
  <2>2. mem'.pending \subseteq mem.pending /\ mem'.batch \in {mem.batch, NoBatch}
      BY <1>6
  <2> QED
      BY <1>6, <1>7, <2>1, <2>2, SoundMoves
<1>9. Sound(disk)' /\ Safe(disk)' \subseteq Safe(mem)' /\ FetchedIsSafe' /\ FlushIsSafe' /\ PassInPlace'
    BY <1>6, <1>7, FrameLoss
<1>10. NoItem.next_cursor = 0 /\ NoItem.cursor_seq = 0 /\ 1..0 = {}
    BY DEF NoItem
<1>11. TakenUpIsSafe'
  <2>1. \A j \in TakenUp' : 1..j.next_cursor \subseteq Safe(mem)'
      BY <1>7, <1>10 DEF LossInv, TakenUpIsSafe
  <2>2. \A j \in TakenUp', i \in mem'.pending : SameItem(i, j) => i.messages = j.messages
    <3>1. \A i \in mem.pending : ~SameItem(i, NoItem)
        BY <1>10 DEF IInv, Queued, SameItem
    <3> QED
        BY <1>6, <3>1 DEF LossInv, TakenUpIsSafe
  <2>3. replay'.pc = "commit" => replay'.item.messages \subseteq Done'
      BY DEF LossInv, TakenUpIsSafe
  <2> QED
      BY <2>1, <2>2, <2>3 DEF TakenUpIsSafe
<1>12. TakenUpIsOlder'
  <2>1. \A n \in Nat : n # 0 => 0 < n
      OBVIOUS
  <2>2. mem.batch.cursor_seq \in Nat /\ flush.cursor_seq \in Nat /\ fetch.seq \in Nat
      BY Numbers DEF IInv
  <2>3. mem.batch # NoBatch => NoItem.cursor_seq < mem.batch.cursor_seq
      BY <1>10, <2>1, <2>2 DEF IInv, Queued
  <2>4. flush.pc = "park" => NoItem.cursor_seq < flush.cursor_seq
      BY <1>10, <2>1, <2>2 DEF IInv, FlushInOrder
  <2>5. fetch.pc \in {"noted", "track", "enqueue"} => NoItem.cursor_seq < fetch.seq
      BY <1>10, <2>1, <2>2 DEF IInv, FetchInOrder
  <2> QED
      BY <1>6, <2>3, <2>4, <2>5 DEF LossInv, TakenUpIsOlder
<1> QED
    BY <1>8, <1>9, <1>11, <1>12 DEF LossInv, StatesAreSound

\* A committed item leaves the queue with its letters told.
LEMMA ReplayCommitLoss == IInv /\ LossInv /\ ReplayCommit => LossInv'
<1> SUFFICES ASSUME IInv, LossInv, ReplayCommit PROVE LossInv'
    OBVIOUS
<1>1. /\ TypeOK /\ UNCHANGED <<disk, cursor, fetch, flush, sweep>> /\ writing' # "fetch"
      /\ replay.pc = "commit"
    BY DEF ReplayCommit, Mutate, replayRest, IInv
<1>2. Done \subseteq Done'
    BY <1>1, DoneGrows DEF Next, Replaying
<1> DEFINE item == replay.item
           kept == {i \in mem.pending : ~SameItem(i, item)}
<1>3. mem' = [Commit(mem, item.cursor_seq, item.next_cursor, item.messages) EXCEPT !.pending = kept]
    BY DEF ReplayCommit, Mutate
<1>4. replay'.pc = "pick" /\ replay'.due = replay.due /\ replay'.item = NoItem
    BY <1>1 DEF ReplayCommit, TypeOK, Replays
<1>5. item \in TakenUp /\ item.cursor_seq # 0 /\ item.messages \in SUBSET Letters
    BY <1>1 DEF TakenUp, IInv, QueueReaders, TypeOK, Replays, Items
<1>6. item.messages \subseteq Done'
    BY <1>1, <1>2 DEF LossInv, TakenUpIsSafe
<1>7. \A i \in mem.pending \ kept : i.messages \subseteq Done'
  <2>1. \A i \in mem.pending \ kept : i.messages = item.messages
      BY <1>5 DEF LossInv, TakenUpIsSafe
  <2> QED
      BY <1>6, <2>1
<1>8. TakenUp' \subseteq TakenUp \cup {NoItem}
    BY <1>1, <1>4 DEF TakenUp
<1>9. kept \in SUBSET mem.pending
    OBVIOUS
<1> HIDE DEF item, kept
<1> QED
    BY <1>1, <1>2, <1>3, <1>4, <1>5, <1>6, <1>7, <1>8, <1>9, ItemAckLoss

LEMMA ReplayRestLoss == IInv /\ LossInv /\ ReplayRest => LossInv'
<1> SUFFICES ASSUME IInv, LossInv, ReplayRest PROVE LossInv'
    OBVIOUS
<1>1. TypeOK /\ UNCHANGED <<disk, cursor, fetch, flush, sweep>> /\ writing' = "replay"
    BY DEF ReplayRest, Mutate, replayRest, IInv
<1>2. Done \subseteq Done'
    BY <1>1, DoneGrows DEF Next, Replaying
<1> DEFINE rested(i) == IF SameItem(i, replay.item) THEN [i EXCEPT !.resting = TRUE] ELSE i
           rest == {rested(i) : i \in mem.pending}
<1>3. mem' = [mem EXCEPT !.pending = rest]
    BY DEF ReplayRest, Mutate
<1>4. \A i \in mem.pending : /\ rested(i).cursor_seq = i.cursor_seq /\ rested(i).messages = i.messages
                             /\ rested(i).next_cursor = i.next_cursor
    BY <1>1 DEF TypeOK, StoreTypes, States, Items
<1> HIDE DEF rested
<1>5. /\ \A j \in rest : \E i \in mem.pending : j = rested(i)
      /\ \A i \in mem.pending : rested(i) \in rest
    OBVIOUS
<1> HIDE DEF rest
<1>6. /\ mem'.fetch_cursor = mem.fetch_cursor /\ mem'.batch = mem.batch /\ mem'.pending = rest
      /\ mem'.delivered_ids = mem.delivered_ids /\ mem'.watch_cursor = mem.watch_cursor
    BY <1>1, <1>3, Numbers DEF States
<1>7. /\ \A j \in rest : \E i \in mem.pending : /\ j.cursor_seq = i.cursor_seq
                                                /\ j.messages = i.messages /\ j.next_cursor = i.next_cursor
      /\ \A i \in mem.pending : \E j \in rest : j.messages = i.messages
    BY <1>4, <1>5
<1>8. Safe(mem) \subseteq Safe(mem)'
  <2>1. PendingMessages(mem) \subseteq PendingMessages(mem)'
    <3>1. ASSUME NEW m \in PendingMessages(mem) PROVE m \in PendingMessages(mem)'
      <4>1. PICK i \in mem.pending : m \in i.messages
          BY DEF PendingMessages
      <4>2. PICK j \in rest : m \in j.messages
          BY <1>7, <4>1
      <4> QED
          BY <1>6, <4>2 DEF PendingMessages
    <3> QED
        BY <3>1
  <2>2. BatchMessages(mem)' = BatchMessages(mem)
      BY <1>6 DEF BatchMessages
  <2> QED
      BY <1>2, <2>1, <2>2 DEF Safe
<1>9. Sound(mem)'
  <2>1. \A j \in rest : 1..j.next_cursor \subseteq Safe(mem)'
      BY <1>7, <1>8 DEF LossInv, StatesAreSound, Sound
  <2> QED
      BY <1>6, <1>8, <2>1 DEF LossInv, StatesAreSound, Sound
<1>10. Sound(disk)' /\ Safe(disk)' \subseteq Safe(mem)' /\ FetchedIsSafe' /\ FlushIsSafe' /\ PassInPlace'
    BY <1>1, <1>2, <1>6, <1>8, FrameLoss
<1>11. replay'.pc = "rested" /\ replay'.due = {} /\ replay'.item = NoItem
    BY DEF ReplayRest, ReplayIdle
<1>12. NoItem.next_cursor = 0 /\ NoItem.cursor_seq = 0 /\ 1..0 = {}
    BY DEF NoItem
<1>13. TakenUp' \subseteq TakenUp \cup {NoItem}
    BY <1>1, <1>11 DEF TakenUp
<1>14. TakenUpIsSafe'
  <2>1. \A j \in TakenUp' : 1..j.next_cursor \subseteq Safe(mem)'
      BY <1>8, <1>12, <1>13 DEF LossInv, TakenUpIsSafe
  <2>2. \A i \in mem.pending, j \in TakenUp' : i.cursor_seq = j.cursor_seq => i.messages = j.messages
      BY <1>12, <1>13 DEF LossInv, TakenUpIsSafe, SameItem, IInv, Queued
  <2>3. \A j \in TakenUp', i \in mem'.pending : SameItem(i, j) => i.messages = j.messages
      BY <1>6, <1>7, <2>2 DEF SameItem
  <2> QED
      BY <1>11, <2>1, <2>3 DEF TakenUpIsSafe
<1>15. TakenUpIsOlder'
  <2>1. \A n \in Nat : n # 0 => 0 < n
      OBVIOUS
  <2>2. mem.batch.cursor_seq \in Nat /\ flush.cursor_seq \in Nat /\ fetch.seq \in Nat
      BY <1>1, Numbers
  <2>3. mem.batch # NoBatch => NoItem.cursor_seq < mem.batch.cursor_seq
      BY <1>12, <2>1, <2>2 DEF IInv, Queued
  <2>4. flush.pc = "park" => NoItem.cursor_seq < flush.cursor_seq
      BY <1>12, <2>1, <2>2 DEF IInv, FlushInOrder
  <2>5. fetch.pc \in {"noted", "track", "enqueue"} => NoItem.cursor_seq < fetch.seq
      BY <1>12, <2>1, <2>2 DEF IInv, FetchInOrder
  <2> QED
      BY <1>1, <1>6, <1>13, <2>3, <2>4, <2>5 DEF LossInv, TakenUpIsOlder
<1> QED
    BY <1>9, <1>10, <1>14, <1>15 DEF LossInv, StatesAreSound

LEMMA ReplayingLoss == IInv /\ LossInv /\ Replaying => LossInv'
BY ReplayReadsLoss, ReplayCommitLoss, ReplayRestLoss DEF Replaying

LEMMA SweepingLoss == IInv /\ LossInv /\ Sweeping => LossInv'
<1> SUFFICES ASSUME IInv, LossInv, Sweeping PROVE LossInv'
    OBVIOUS
<1>1. TypeOK /\ Done \subseteq Done'
    BY DoneGrows DEF IInv, Next
<1>2. CASE SweepSelect \/ SweepEnds
  <2>1. UNCHANGED <<mem, disk, writing, cursor, fetch, flush, replay>>
      BY <1>2 DEF SweepSelect, SweepEnds, sweepRest, storeVars
  <2>2. sweep'.archive \subseteq sweep.archive \cup mem.pending
      BY <1>2 DEF SweepSelect, SweepEnds, SweepIdle
  <2>3. TakenUp' \subseteq TakenUp \cup mem.pending \cup {NoItem}
      BY <2>1, <2>2 DEF TakenUp
  <2>4. replay'.pc = "commit" => replay'.item.messages \subseteq Done'
      BY <1>1, <2>1 DEF LossInv, TakenUpIsSafe
  <2> QED
      BY <1>1, <2>1, <2>3, <2>4, TakesUpLoss
<1>3. CASE SweepArchive
  <2> DEFINE gone == sweep.archive
             ids  == UNION {i.messages : i \in gone}
             kept == {i \in mem.pending : \A j \in gone : ~SameItem(i, j)}
  <2>1. PICK newest \in gone :
          mem' = [Commit(mem, newest.cursor_seq, newest.next_cursor, ids) EXCEPT !.pending = kept]
      BY <1>3 DEF SweepArchive, Mutate
  <2>2. /\ UNCHANGED <<disk, cursor, fetch, flush, replay>> /\ sweep'.archive = {}
        /\ writing' # "fetch" /\ waived' = waived \cup ids
      BY <1>3 DEF SweepArchive, Mutate, sweepRest, SweepIdle
  <2>3. newest \in TakenUp /\ newest.cursor_seq # 0
      BY <2>1 DEF TakenUp, IInv, QueueReaders
  <2>4. ids \in SUBSET Letters /\ kept \in SUBSET mem.pending
      BY <1>1 DEF TypeOK, Sweeps, Items
  <2>5. ids \subseteq Done'
      BY <2>2 DEF Done
  <2>6. \A i \in mem.pending \ kept : i.messages \subseteq Done'
    <3>1. ASSUME NEW i \in mem.pending \ kept PROVE i.messages \subseteq ids
      <4>1. PICK j \in gone : SameItem(i, j)
          OBVIOUS
      <4>2. j \in TakenUp /\ j.messages \subseteq ids
          BY <4>1 DEF TakenUp
      <4>3. i.messages = j.messages
          BY <4>1, <4>2 DEF LossInv, TakenUpIsSafe
      <4> QED
          BY <4>2, <4>3
    <3> QED
        BY <2>5, <3>1
  <2>7. TakenUp' \subseteq TakenUp \cup {NoItem}
      BY <2>2 DEF TakenUp
  <2> HIDE DEF ids, kept
  <2> QED
      BY <1>1, <2>1, <2>2, <2>3, <2>4, <2>5, <2>6, <2>7, ItemAckLoss
<1> QED
    BY <1>2, <1>3 DEF Sweeping

----------------------------------------------------------------------------
(* The environment, the store, crash and restart.                          *)

LEMMA EnvironmentLoss == IInv /\ LossInv /\ Environment => LossInv'
<1> SUFFICES ASSUME IInv, LossInv, Environment PROVE LossInv'
    OBVIOUS
<1>1. UNCHANGED <<mem, disk, writing, cursor, fetch, flush, replay, sweep>>
    BY DEF Environment, Arrive, Close, Register, HeartbeatLapses, Prune, storeVars
<1>2. Done \subseteq Done'
    BY DoneGrows DEF IInv, Next
<1>3. Safe(mem) \subseteq Safe(mem)'
    BY <1>1, <1>2, SafeGrows
<1> QED
    BY <1>1, <1>2, <1>3, FrameLoss DEF LossInv, StatesAreSound

LEMMA StoringLoss == IInv /\ LossInv /\ Storing => LossInv'
<1> SUFFICES ASSUME IInv, LossInv, Storing PROVE LossInv'
    OBVIOUS
<1>1. TypeOK /\ Done \subseteq Done'
    BY DoneGrows DEF IInv, Next
<1>2. CASE (\E paused \in BOOLEAN : SetMute(paused)) \/ Rewrite
  <2>1. UNCHANGED <<disk, cursor, fetch, flush, replay, sweep>> /\ writing' # "fetch"
      BY <1>2 DEF SetMute, Rewrite, Mutate, processes
  <2>2. /\ mem'.fetch_cursor = mem.fetch_cursor /\ mem'.watch_cursor = mem.watch_cursor
        /\ mem'.batch = mem.batch /\ mem'.pending = mem.pending
        /\ mem'.delivered_ids = mem.delivered_ids
      BY <1>1, <1>2, Numbers DEF SetMute, Rewrite, Mutate, States
  <2>3. Safe(mem) \subseteq Safe(mem)'
      BY <1>1, <2>2, QueueStays
  <2>4. Sound(mem)'
      BY <2>2, <2>3 DEF LossInv, StatesAreSound, Sound
  <2>5. /\ Sound(disk)' /\ Safe(disk)' \subseteq Safe(mem)' /\ FetchedIsSafe' /\ FlushIsSafe'
        /\ TakenUpIsSafe' /\ TakenUpIsOlder' /\ PassInPlace'
      BY <1>1, <2>1, <2>2, <2>3, FrameLoss
  <2> QED
      BY <2>4, <2>5 DEF LossInv, StatesAreSound
<1>3. CASE Persisted
  <2>1. /\ disk' = mem /\ UNCHANGED <<mem, cursor, fetch, flush, replay, sweep>>
        /\ writing' = "none"
      BY <1>3 DEF Persisted, processes
  <2>2. Safe(mem) \subseteq Safe(mem)'
      BY <1>1, <2>1, SafeGrows
  <2>3. Sound(mem)' /\ FetchedIsSafe' /\ FlushIsSafe' /\ TakenUpIsSafe' /\ TakenUpIsOlder'
      BY <1>1, <2>1, <2>2, FrameLoss
  <2>4. Safe(disk)' = Safe(mem)'
      BY <2>1 DEF Safe, BatchMessages, PendingMessages
  <2>5. Sound(disk)'
      BY <2>1, <2>3, <2>4 DEF Sound
  <2>6. PassInPlace'
      BY <1>1, <2>1, Numbers DEF LossInv, PassInPlace
  <2> QED
      BY <2>3, <2>4, <2>5, <2>6 DEF LossInv, StatesAreSound
<1>4. CASE WriteFails
  <2>1. UNCHANGED <<mem, disk, cursor, sweep>> /\ writing' = "none"
      BY <1>4 DEF WriteFails
  <2>2. Safe(mem) \subseteq Safe(mem)'
      BY <1>1, <2>1, SafeGrows
  <2>3. Sound(mem)' /\ Sound(disk)' /\ Safe(disk)' \subseteq Safe(mem)'
      BY <1>1, <2>1, <2>2, FrameLoss
  <2>4. fetch' = fetch \/ (/\ writing = "fetch" /\ fetch' = FetchIdle
                           /\ exposed' = [exposed EXCEPT !.torn = @ \cup fetch.rows])
      BY <1>4 DEF WriteFails
  <2>5. FetchedIsSafe' /\ PassInPlace'
    <3>1. CASE fetch' = fetch
      <4>1. FetchedIsSafe'
          BY <1>1, <2>1, <2>2, <3>1, FrameLoss
      <4>2. PassInPlace'
          BY <2>1, <3>1 DEF LossInv, PassInPlace
      <4> QED
          BY <4>1, <4>2
    <3>2. CASE /\ writing = "fetch" /\ fetch' = FetchIdle
               /\ exposed' = [exposed EXCEPT !.torn = @ \cup fetch.rows]
      <4>1. exposed \in Exposures
          BY <1>1 DEF TypeOK, HistoryTypes
      <4>2. fetch.rows \subseteq Exposed'
          BY <3>2, <4>1 DEF Exposed, Exposures
      <4>3. Pulling = {}
          BY <3>2 DEF LossInv, PassInPlace, Pulling
      <4>4. fetch.rows \subseteq Safe(mem)'
          BY <4>2 DEF Safe, Done
      <4>5. FetchedIsSafe'
          BY <2>1, <2>2, <4>3, <4>4 DEF LossInv, FetchedIsSafe
      <4>6. fetch'.pc = "idle" /\ fetch'.rows = {}
          BY <3>2 DEF FetchIdle
      <4>7. PassInPlace'
          BY <2>1, <4>6 DEF LossInv, PassInPlace
      <4> QED
          BY <4>5, <4>7
    <3> QED
        BY <2>4, <3>1, <3>2
  <2>6. \/ flush' = flush
        \/ flush' = FlushIdle \/ flush' = [FlushIdle EXCEPT !.pc = "settle"]
      BY <1>4 DEF WriteFails
  <2>7. FlushIsSafe'
    <3>1. CASE flush' = flush
        BY <1>1, <2>2, <3>1, FrameLoss
    <3>2. CASE flush' # flush
      <4>1. /\ flush'.pc \in {"idle", "settle"} /\ flush'.body = {} /\ flush'.ids = {}
            /\ flush'.next_cursor = 0 /\ 1..0 = {}
          BY <2>6, <3>2 DEF FlushIdle
      <4> QED
          BY <4>1 DEF FlushIsSafe
    <3> QED
        BY <3>1, <3>2
  <2>8. replay' = replay \/ (replay'.pc = "rest" /\ replay'.due = {} /\ replay'.item = NoItem)
      BY <1>4 DEF WriteFails, ReplayIdle
  <2>9. NoItem.next_cursor = 0 /\ NoItem.cursor_seq = 0 /\ 1..0 = {}
      BY DEF NoItem
  <2>10. TakenUp' \subseteq TakenUp \cup {NoItem}
      BY <2>1, <2>8 DEF TakenUp
  <2>11. TakenUpIsSafe'
    <3>1. \A j \in TakenUp' : 1..j.next_cursor \subseteq Safe(mem)'
        BY <2>2, <2>9, <2>10 DEF LossInv, TakenUpIsSafe
    <3>2. \A i \in mem.pending : ~SameItem(i, NoItem)
        BY <2>9 DEF IInv, Queued, SameItem
    <3>3. \A j \in TakenUp', i \in mem'.pending : SameItem(i, j) => i.messages = j.messages
        BY <2>1, <2>10, <3>2 DEF LossInv, TakenUpIsSafe
    <3>4. replay'.pc = "commit" => replay'.item.messages \subseteq Done'
        BY <1>1, <2>8 DEF LossInv, TakenUpIsSafe
    <3> QED
        BY <3>1, <3>3, <3>4 DEF TakenUpIsSafe
  <2>12. TakenUpIsOlder'
    <3>1. \A n \in Nat : n # 0 => 0 < n
        OBVIOUS
    <3>2. mem.batch.cursor_seq \in Nat /\ flush.cursor_seq \in Nat /\ fetch.seq \in Nat
        BY <1>1, Numbers
    <3>3. mem.batch # NoBatch => NoItem.cursor_seq < mem.batch.cursor_seq
        BY <2>9, <3>1, <3>2 DEF IInv, Queued
    <3>4. flush'.pc = "park" => flush' = flush
        BY <2>6 DEF FlushIdle
    <3>5. flush.pc = "park" => NoItem.cursor_seq < flush.cursor_seq
        BY <2>9, <3>1, <3>2 DEF IInv, FlushInOrder
    <3>6. fetch'.pc \in {"noted", "track", "enqueue"} => fetch' = fetch
        BY <2>4 DEF FetchIdle
    <3>7. fetch.pc \in {"noted", "track", "enqueue"} => NoItem.cursor_seq < fetch.seq
        BY <2>9, <3>1, <3>2 DEF IInv, FetchInOrder
    <3> QED
        BY <2>1, <2>10, <3>3, <3>4, <3>5, <3>6, <3>7 DEF LossInv, TakenUpIsOlder
  <2> QED
      BY <2>3, <2>5, <2>7, <2>11, <2>12 DEF LossInv, StatesAreSound
<1> QED
    BY <1>2, <1>3, <1>4 DEF Storing

\* Nothing in memory survives a crash: what only memory knew of the letters behind the position
\* on disk met a loss window.
LEMMA CrashLoss == IInv /\ LossInv /\ CrashAndRestart => LossInv'
<1> SUFFICES ASSUME IInv, LossInv, CrashAndRestart PROVE LossInv'
    OBVIOUS
<1>1. TypeOK /\ Done \subseteq Done'
    BY DoneGrows DEF IInv, Next
<1> DEFINE gone == ((fetch.rows \cup knownMessageIds(mem)) \cap 1..disk.fetch_cursor) \ knownMessageIds(disk)
<1>2. /\ mem' = disk /\ disk' = disk /\ writing' = "none"
      /\ cursor' = IF disk.fetch_cursor # 0 THEN disk.fetch_cursor ELSE disk.watch_cursor
      /\ exposed' = [exposed EXCEPT !.torn = @ \cup gone]
    BY DEF CrashAndRestart
<1>3. fetch' = FetchIdle /\ flush' = FlushIdle /\ replay' = ReplayIdle /\ sweep' = SweepIdle
    BY DEF CrashAndRestart
<1>4. Safe(disk) \subseteq Safe(disk)' /\ Safe(mem)' = Safe(disk)'
    BY <1>1, <1>2 DEF Safe, BatchMessages, PendingMessages
<1>5. Sound(disk)' /\ Sound(mem)'
    BY <1>2, <1>4 DEF LossInv, StatesAreSound, Sound
<1>6. 1..disk.fetch_cursor \subseteq Safe(disk)'
  <2>1. CASE disk.fetch_cursor = 0
      BY <2>1
  <2>2. CASE disk.fetch_cursor # 0
    <3>1. mem.fetch_cursor # 0 /\ disk.fetch_cursor <= cursor
        BY <1>1, <2>2, Numbers DEF LossInv, PassInPlace, IInv, FetchInOrder
    <3>2. Pulling = {}
        BY <3>1 DEF LossInv, PassInPlace, Pulling
    <3>3. 1..disk.fetch_cursor \subseteq 1..cursor
        BY <1>1, <3>1, Numbers
    <3>4. 1..disk.fetch_cursor \subseteq Done \cup fetch.rows \cup knownMessageIds(mem)
        BY <3>2, <3>3 DEF LossInv, FetchedIsSafe, Safe, knownMessageIds
    <3>5. gone \subseteq Done'
      <4>1. exposed \in Exposures
          BY <1>1 DEF TypeOK, HistoryTypes
      <4> HIDE DEF gone
      <4>2. gone \subseteq Exposed'
          BY <1>2, <4>1 DEF Exposed, Exposures
      <4> QED
          BY <4>2 DEF Done
    <3>6. knownMessageIds(disk) \subseteq Safe(disk)
        BY DEF knownMessageIds, Safe, LossInv, StatesAreSound, Sound
    <3>7. 1..disk.fetch_cursor \subseteq Done \cup gone \cup knownMessageIds(disk)
        BY <3>4
    <3>8. Done' \subseteq Safe(disk)'
        BY DEF Safe
    <3> HIDE DEF gone
    <3> QED
        BY <1>1, <1>4, <3>5, <3>6, <3>7, <3>8
  <2> QED
      BY <2>1, <2>2
<1>7. FetchedIsSafe'
  <2>1. 1..cursor' \subseteq Safe(mem)'
      BY <1>2, <1>4, <1>6 DEF LossInv, StatesAreSound, Sound
  <2> QED
      BY <2>1 DEF FetchedIsSafe
<1>8. 1..0 = {}
    OBVIOUS
<1>9. FlushIsSafe'
    BY <1>3, <1>8 DEF FlushIdle, FlushIsSafe
<1>10. TakenUp' = {NoItem} /\ NoItem.next_cursor = 0 /\ NoItem.cursor_seq = 0 /\ replay'.pc = "idle"
    BY <1>3 DEF TakenUp, ReplayIdle, SweepIdle, NoItem
<1>11. TakenUpIsSafe'
    BY <1>2, <1>8, <1>10 DEF TakenUpIsSafe, IInv, Queued, SameItem
<1>12. TakenUpIsOlder'
  <2>1. \A n \in Nat : n # 0 => 0 < n
      OBVIOUS
  <2>2. disk.batch.cursor_seq \in Nat
      BY <1>1, Numbers DEF States, Batches
  <2>3. disk.batch # NoBatch => NoItem.cursor_seq < disk.batch.cursor_seq
      BY <1>10, <2>1, <2>2 DEF IInv, Queued
  <2>4. flush'.pc = "idle" /\ fetch'.pc = "idle"
      BY <1>3 DEF FlushIdle, FetchIdle
  <2> QED
      BY <1>2, <1>10, <2>3, <2>4 DEF TakenUpIsOlder
<1>13. PassInPlace'
    BY <1>1, <1>2, <1>3, Numbers DEF PassInPlace, FetchIdle
<1> QED
    BY <1>4, <1>5, <1>7, <1>9, <1>11, <1>12, <1>13 DEF LossInv, StatesAreSound

LEMMA StutterLoss == LossInv /\ UNCHANGED vars => LossInv'
<1> SUFFICES ASSUME LossInv, UNCHANGED vars PROVE LossInv'
    OBVIOUS
<1>1. UNCHANGED <<mem, disk, writing, cursor, fetch, flush, replay, sweep, closed, told, waived, exposed>>
    BY DEF vars, serverVars, storeVars, history
<1>2. Done \subseteq Done'
    BY <1>1 DEF Done, Told, Exposed
<1>3. Safe(mem) \subseteq Safe(mem)'
    BY <1>1, <1>2, SafeGrows
<1> QED
    BY <1>1, <1>2, <1>3, FrameLoss DEF LossInv, StatesAreSound

LEMMA NextLoss == IInv /\ LossInv /\ [Next]_vars => LossInv'
BY EnvironmentLoss, FetchingLoss, FlushingLoss, ReplayingLoss, SweepingLoss, StoringLoss, CrashLoss,
   StutterLoss DEF Next

\* The letters are safe as long as the daemon runs: whatever fetchPass has passed is done with,
\* in the batch, in the pending queue, or in the hands of the pass itself.
THEOREM LettersAreSafe == Spec => []LossInv
<1>1. Init => LossInv
    BY InitLoss
<1>2. IInv /\ LossInv /\ [Next]_vars => LossInv'
    BY NextLoss
<1> QED
    BY <1>1, <1>2, CursorsInOrder, PTL DEF Spec

\* A letter behind the cursor of fetchPass is announced, muted, closed, still in the daemon's
\* hands, or met one of the four windows in which mail is lost.
THEOREM LossesAreExplained == Spec => []EveryLossIsExplained
<1>1. LossInv => EveryLossIsExplained
    BY DEF LossInv, FetchedIsSafe, EveryLossIsExplained, Accounted, InHand, Safe, Done
<1> QED
    BY <1>1, LettersAreSafe, PTL

\* The watch_cursor found in state.json covers only letters that are done with, or that
\* state.json itself holds in its batch or its pending queue.
THEOREM AckedMailIsDurable == Spec => []AckedIsDurable
<1>1. LossInv => AckedIsDurable
    BY DEF LossInv, StatesAreSound, Sound, AckedIsDurable, Safe, Done
<1> QED
    BY <1>1, LettersAreSafe, PTL

----------------------------------------------------------------------------
(* The daemon implements MailPromise: what has happened to a letter, and   *)
(* what the daemon holds, decide where it stands.                          *)

Held == InHand \cup replay.item.messages

\* Where a letter stands, case by case.
LEMMA StatusByCases ==
    ASSUME NEW m \in Letters
    PROVE  /\ Status[m] = "told" <=> m \in Told
           /\ Status[m] = "excused" <=> m \in Done \ Told
           /\ Status[m] = "waiting" <=> m \notin Done \cup Held
           /\ Status[m] \in Promise!Statuses
BY DEF Status, Done, Held, Promise!Statuses

\* The same after a step.
LEMMA StatusByCasesNext ==
    ASSUME NEW m \in Letters
    PROVE  /\ Status'[m] = "told" <=> m \in Told'
           /\ Status'[m] = "excused" <=> m \in Done' \ Told'
           /\ Status'[m] = "waiting" <=> m \notin Done' \cup Held'
           /\ Status'[m] \in Promise!Statuses
BY DEF Status, Done, Held, Promise!Statuses

LEMMA InitKeepsPromise == Init => Promise!PromiseInit
<1> SUFFICES ASSUME Init PROVE Promise!PromiseInit
    OBVIOUS
<1>1. 1..disk.watch_cursor = {}
    BY DEF Init, EmptyState
<1>2. Done = {}
  <2>1. \A m \in Letters : told[m] = 0
      BY DEF Init
  <2>2. Told = {}
      BY <2>1 DEF Told
  <2>3. Exposed = {} /\ waived = {} /\ closed = {}
      BY DEF Init, Exposed
  <2> QED
      BY <2>2, <2>3 DEF Done
<1>3. Held = {}
    BY DEF Init, EmptyState, FetchIdle, FlushIdle, ReplayIdle, NoItem, NoBatch, Held, InHand, Pulling,
       BatchMessages, PendingMessages
<1>4. \A m \in Letters : Status[m] = "waiting"
    BY <1>2, <1>3, StatusByCases
<1>5. Status = [m \in Letters |-> Status[m]]
    BY DEF Status
<1> QED
    BY <1>1, <1>4, <1>5 DEF Promise!PromiseInit

\* Each step of the daemon is a step of the promise, or none.
LEMMA StepKeepsPromise ==
    ASSUME IInv, LossInv, IInv', LossInv', [Next]_vars
    PROVE  Promise!PromiseNext
<1>1. TypeOK /\ TypeOK'
    BY DEF IInv
<1>2. Told \subseteq Told' /\ Done \subseteq Done' /\ Told \subseteq Done
    BY <1>1, ToldGrows, DoneGrows DEF Done
<1>3. \A m \in Told' \ Told : m \in Held
    BY <1>1, ToldGrows DEF Held, InHand
<1>4. 1..disk'.watch_cursor \subseteq Letters
  <2>1. disk'.watch_cursor \in Positions
      BY <1>1 DEF TypeOK, StoreTypes, States
  <2> QED
      BY <2>1, BoundsAssumption DEF Positions, Letters
<1>5. Status' \in [Letters -> Promise!Statuses]
    BY StatusByCasesNext DEF Status
<1>6. ASSUME NEW m \in Letters, Status'[m] # Status[m]
      PROVE  <<Status[m], Status'[m]>> \in Promise!Moves
  <2>1. Status[m] # "told"
      BY <1>2, <1>6, StatusByCases, StatusByCasesNext
  <2>2. Status[m] = "excused" => Status'[m] = "told"
      BY <1>2, <1>6, StatusByCases, StatusByCasesNext
  <2>3. Status[m] = "waiting" => Status'[m] # "told"
      BY <1>2, <1>3, StatusByCases, StatusByCasesNext
  <2>4. Status[m] \in Promise!Statuses /\ Status'[m] \in Promise!Statuses
      BY StatusByCases, StatusByCasesNext
  <2> QED
      BY <1>6, <2>1, <2>2, <2>3, <2>4 DEF Promise!Statuses, Promise!Moves
<1>7. ASSUME NEW m \in Letters, m \in 1..disk'.watch_cursor
      PROVE  Status'[m] # "waiting"
  <2>1. m \in Safe(mem)'
      BY <1>7 DEF LossInv, StatesAreSound, Sound
  <2>2. Safe(mem)' \subseteq Done' \cup Held'
      BY DEF Safe, Held, InHand
  <2> QED
      BY <2>1, <2>2, StatusByCasesNext
<1> QED
    BY <1>4, <1>5, <1>6, <1>7 DEF Promise!PromiseNext

\* The daemon keeps the promise its callers rely on: no letter is passed over on disk that is
\* not told, excused or in its hands, and nothing told is taken back, across crashes, failed
\* writes and lost answers.
THEOREM DaemonImplementsPromise == Spec => DaemonKeepsThePromise
<1>1. Init => Promise!PromiseInit
    BY InitKeepsPromise
<1>2. IInv /\ LossInv /\ IInv' /\ LossInv' /\ [Next]_vars => [Promise!PromiseNext]_Promise!promiseVars
    BY StepKeepsPromise
<1> QED
    BY <1>1, <1>2, CursorsInOrder, LettersAreSafe, PTL DEF Spec, DaemonKeepsThePromise, Promise!PromiseSpec

----------------------------------------------------------------------------
(* A batch in memory has something that will flush it.                     *)

\* Steps that leave the batch, the timers, the flush and the fetch's plan to schedule alone.
LEMMA StillArmed ==
    ASSUME BatchIsArmed, UNCHANGED <<timers, flush, faults>>, mem'.batch = mem.batch,
           fetch.pc = "schedule" => fetch'.pc = "schedule"
    PROVE  BatchIsArmed'
BY DEF BatchIsArmed, timers

LEMMA FetchingArmed == TypeOK /\ BatchIsArmed /\ Fetching => BatchIsArmed'
<1> SUFFICES ASSUME TypeOK, BatchIsArmed, Fetching PROVE BatchIsArmed'
    OBVIOUS
<1>0. mem \in States /\ fetch \in Fetches
    BY DEF TypeOK, StoreTypes
<1>1. CASE Trigger
  <2>1. UNCHANGED <<timers, flush, faults, mem>>
      BY <1>1 DEF Trigger, fetchRest, storeVars, faultVars
  <2>2. fetch.pc = "schedule" => fetch'.pc = "schedule"
      BY <1>0, <1>1 DEF Trigger, Fetches
  <2> QED
      BY <2>1, <2>2, StillArmed
<1>2. CASE FetchPage \/ FetchFails \/ ReadMute \/ BootPage \/ OlderPage
  <2>1. UNCHANGED <<timers, flush, faults, mem>> /\ fetch.pc # "schedule"
      BY <1>2 DEF FetchPage, FetchFails, ReadMute, BootPage, OlderPage, fetchRest, storeVars, faultVars
  <2> QED
      BY <2>1, StillArmed
<1>3. CASE NoteFetchCursor \/ Adopt \/ Baseline
  <2>0. mem.cursor_seq + 1 \in Nat
      BY <1>0 DEF States
  <2>1. UNCHANGED <<timers, flush, faults>> /\ fetch.pc # "schedule"
      BY <1>3 DEF NoteFetchCursor, Adopt, Baseline, fetchRest, faultVars
  <2>2. mem'.batch = mem.batch
    <3>1. CASE NoteFetchCursor
        BY <1>0, <2>0, <3>1 DEF NoteFetchCursor, Mutate, States
    <3>2. CASE Adopt
        BY <1>0, <2>0, <3>2 DEF Adopt, Mutate, States
    <3>3. CASE Baseline
        BY <1>0, <2>0, <3>3 DEF Baseline, Mutate, States
    <3> QED
        BY <1>3, <3>1, <3>2, <3>3
  <2> QED
      BY <2>1, <2>2, StillArmed
<1>4. CASE MarkEmpty \/ TrackSilently
  <2>1. UNCHANGED <<timers, flush, faults>> /\ fetch.pc # "schedule"
      BY <1>4 DEF MarkEmpty, TrackSilently, fetchRest, faultVars
  <2>2. mem'.batch = mem.batch
    <3>1. CASE MarkEmpty
        BY <1>0, <3>1 DEF MarkEmpty, Mutate, States
    <3>2. CASE TrackSilently
      <4>1. mem' = Commit(mem, fetch.seq, 0, fetch.rows)
          BY <3>2 DEF TrackSilently, Mutate
      <4>2. 0 \in Positions /\ fetch.seq \in Nat /\ fetch.rows \in SUBSET Letters
          BY <1>0, BoundsAssumption DEF Positions, Fetches
      <4> QED
          BY <1>0, <4>1, <4>2, CommitMoves
    <3> QED
        BY <1>4, <3>1, <3>2
  <2> QED
      BY <2>1, <2>2, StillArmed
<1>5. CASE Enqueue
  <2> DEFINE fresh == fetch.rows \ knownMessageIds(mem)
             grown == [messages |-> BatchMessages(mem) \cup fresh,
                       next_cursor |-> fetch.last, cursor_seq |-> fetch.seq]
  <2>1. /\ mem' = IF fresh = {} THEN mem ELSE [mem EXCEPT !.batch = grown]
        /\ fetch' = PassAt(IF fresh = {} THEN "done" ELSE "schedule")
        /\ fetch.pc = "enqueue" /\ UNCHANGED <<timers, flush, faults>>
      BY <1>5 DEF Enqueue, Mutate, fetchRest, faultVars
  <2> HIDE DEF fresh, grown
  <2>2. CASE fresh = {}
    <3>1. mem'.batch = mem.batch /\ fetch.pc # "schedule"
        BY <2>1, <2>2
    <3> QED
        BY <2>1, <3>1, StillArmed
  <2>3. CASE fresh # {}
      BY <2>1, <2>3 DEF PassAt, FetchIdle, BatchIsArmed
  <2> QED
      BY <2>2, <2>3
<1>6. CASE FetchEnds
  <2>1. /\ flushTimer' = (flushTimer \/ (fetch.pc = "schedule" /\ mem.batch # NoBatch))
        /\ UNCHANGED <<retryTimer, flush, faults, mem>>
      BY <1>6 DEF FetchEnds, storeVars, faultVars
  <2> QED
      BY <2>1, Zenon DEF BatchIsArmed
<1> QED
    BY <1>1, <1>2, <1>3, <1>4, <1>5, <1>6, Zenon DEF Fetching

LEMMA FlushingArmed == TypeOK /\ BatchIsArmed /\ Flushing => BatchIsArmed'
<1> SUFFICES ASSUME TypeOK, BatchIsArmed, Flushing PROVE BatchIsArmed'
    OBVIOUS
<1>0. mem \in States /\ flush \in Flushes
    BY DEF TypeOK, StoreTypes
<1>1. CASE FlushTimerFires \/ RetryTimerFires
  <2>1. mem' = mem /\ BeginFlush
      BY <1>1 DEF FlushTimerFires, RetryTimerFires, storeVars
  <2>2. mem.batch # NoBatch => flush'.pc # "idle"
      BY <2>1 DEF BeginFlush, FlushIdle
  <2> QED
      BY <2>1, <2>2 DEF BatchIsArmed
<1>2. CASE ReconcileRead \/ Filter \/ Delivered \/ Refused
  <2>1. flush'.pc # "idle"
      BY <1>0, <1>2 DEF ReconcileRead, Filter, Delivered, Refused, Flushes
  <2> QED
      BY <2>1 DEF BatchIsArmed
<1>3. CASE \E taken \in BOOLEAN : DeliverFails(taken)
    BY <1>3 DEF DeliverFails, BatchIsArmed
<1>4. CASE AckBatch
  <2>1. flush'.pc # "idle"
      BY <1>4 DEF AckBatch, FlushIdle
  <2> QED
      BY <2>1 DEF BatchIsArmed
<1>5. CASE ClearBatch \/ ToPending
  <2>1. flush'.pc = "settle"
      BY <1>0, <1>5 DEF ClearBatch, ToPending, FlushIdle, Flushes
  <2> QED
      BY <2>1 DEF BatchIsArmed
<1>6. CASE FlushSettles
  <2>1. /\ flushTimer' = (flushTimer \/ (mem.batch # NoBatch /\ ~retryTimer))
        /\ retryTimer' = retryTimer /\ mem' = mem
      BY <1>6 DEF FlushSettles, storeVars
  <2> QED
      BY <2>1, Zenon DEF BatchIsArmed
<1> QED
    BY <1>1, <1>2, <1>3, <1>4, <1>5, <1>6, Zenon DEF Flushing

\* No step of the environment, the replay, the sweep and the store, nor a crash, forgets a batch.
LEMMA RestArmed ==
    TypeOK /\ BatchIsArmed /\ (Environment \/ Replaying \/ Sweeping \/ Storing \/ CrashAndRestart)
        => BatchIsArmed'
<1> SUFFICES ASSUME TypeOK, BatchIsArmed,
                    Environment \/ Replaying \/ Sweeping \/ Storing \/ CrashAndRestart
             PROVE  BatchIsArmed'
    OBVIOUS
<1>0. mem \in States
    BY DEF TypeOK, StoreTypes
<1>1. CASE Environment
  <2>1. UNCHANGED <<timers, flush, faults, mem, fetch>>
      BY <1>1 DEF Environment, Arrive, Close, Register, HeartbeatLapses, Prune, storeVars, faultVars
  <2> QED
      BY <2>1, StillArmed
<1>2. CASE Replaying
  <2>1. UNCHANGED <<timers, flush, faults, fetch>>
    <3>1. CASE \E taken \in BOOLEAN : RedeliveryFails(taken)
        BY <3>1 DEF RedeliveryFails, replayRest
    <3>2. CASE ~\E taken \in BOOLEAN : RedeliveryFails(taken)
        BY <1>2, <3>2 DEF Replaying, ReplayStart, ReplayPick, ReplayEnds, Redelivered,
           ReplayCommit, ReplayRest, replayRest, faultVars
    <3> QED
        BY <3>1, <3>2
  <2>2. mem'.batch = mem.batch
    <3>1. CASE ReplayCommit
      <4> DEFINE item == replay.item
                 c == Commit(mem, item.cursor_seq, item.next_cursor, item.messages)
                 kept == {i \in mem.pending : ~SameItem(i, item)}
      <4>1. mem' = [c EXCEPT !.pending = kept]
          BY <3>1 DEF ReplayCommit, Mutate
      <4>2. item.cursor_seq \in Nat /\ item.next_cursor \in Positions /\ item.messages \in SUBSET Letters
          BY DEF TypeOK, Replays, Items
      <4>3. c \in States /\ c.batch = mem.batch
          BY <1>0, <4>2, CommitType, CommitMoves
      <4> HIDE DEF c, kept
      <4> QED
          BY <4>1, <4>3 DEF States
    <3>2. CASE ReplayRest
        BY <1>0, <3>2 DEF ReplayRest, Mutate, States
    <3>3. CASE ~(ReplayCommit \/ ReplayRest)
        BY <1>2, <3>3 DEF Replaying, ReplayStart, ReplayPick, ReplayEnds, Redelivered,
           RedeliveryFails, storeVars
    <3> QED
        BY <3>1, <3>2, <3>3
  <2> QED
      BY <2>1, <2>2, StillArmed
<1>3. CASE Sweeping
  <2>1. UNCHANGED <<timers, flush, faults, fetch>>
      BY <1>3 DEF Sweeping, SweepSelect, SweepArchive, SweepEnds, sweepRest, faultVars
  <2>2. mem'.batch = mem.batch
    <3>1. CASE SweepArchive
      <4> DEFINE gone == sweep.archive
                 ids  == UNION {i.messages : i \in gone}
                 kept == {i \in mem.pending : \A j \in gone : ~SameItem(i, j)}
      <4>1. PICK newest \in gone :
              mem' = [Commit(mem, newest.cursor_seq, newest.next_cursor, ids) EXCEPT !.pending = kept]
          BY <3>1 DEF SweepArchive, Mutate
      <4>2. newest.cursor_seq \in Nat /\ newest.next_cursor \in Positions /\ ids \in SUBSET Letters
          BY DEF TypeOK, Sweeps, Items
      <4> DEFINE c == Commit(mem, newest.cursor_seq, newest.next_cursor, ids)
      <4> HIDE DEF ids, kept
      <4>3. c \in States /\ c.batch = mem.batch
          BY <1>0, <4>2, CommitType, CommitMoves
      <4>4. mem' = [c EXCEPT !.pending = kept]
          BY <4>1
      <4> HIDE DEF c
      <4> QED
          BY <4>3, <4>4 DEF States
    <3>2. CASE SweepSelect \/ SweepEnds
        BY <3>2 DEF SweepSelect, SweepEnds, storeVars
    <3> QED
        BY <1>3, <3>1, <3>2 DEF Sweeping
  <2> QED
      BY <2>1, <2>2, StillArmed
<1>4. CASE WriteFails
  <2>1. faults' = faults + 1 /\ faults \in Nat
      BY <1>4, BoundsAssumption DEF WriteFails, TypeOK, FaultTypes
  <2>2. faults' # 0
      BY <2>1
  <2> QED
      BY <2>2 DEF BatchIsArmed
<1>5. CASE Storing /\ ~WriteFails
  <2>1. UNCHANGED <<timers, flush, fetch>>
      BY <1>5 DEF Storing, SetMute, Rewrite, Persisted, processes
  <2>2. UNCHANGED faults
      BY <1>5 DEF Storing, SetMute, Rewrite, Persisted, faultVars
  <2>3. mem'.batch = mem.batch
      BY <1>0, <1>5 DEF Storing, SetMute, Rewrite, Persisted, Mutate, States
  <2> QED
      BY <2>1, <2>2, <2>3, StillArmed
<1>6. CASE CrashAndRestart
  <2>1. flushTimer' = (disk.batch # NoBatch) /\ mem' = disk
      BY <1>6 DEF CrashAndRestart
  <2> QED
      BY <2>1, Zenon DEF BatchIsArmed
<1> QED
    BY <1>1, <1>2, <1>3, <1>4, <1>5, <1>6

\* As long as no write of state.json failed, a batch in memory waits for a timer that is armed, a
\* flush under way, or the fetch pass that is about to arm the timer: no letter is forgotten there.
THEOREM BatchesAreArmed == Spec => []BatchIsArmed
<1>1. Init => BatchIsArmed
    BY DEF Init, EmptyState, BatchIsArmed
<1>2. TypeOK /\ BatchIsArmed /\ [Next]_vars => BatchIsArmed'
  <2>1. BatchIsArmed /\ UNCHANGED vars => BatchIsArmed'
    <3>1. UNCHANGED vars => UNCHANGED <<timers, flush, faults, mem, fetch>>
        BY DEF vars, storeVars, faultVars
    <3> QED
        BY <3>1, StillArmed
  <2> QED
      BY <2>1, FetchingArmed, FlushingArmed, RestArmed, Zenon DEF Next
<1>3. IInv => TypeOK
    BY DEF IInv
<1> QED
    BY <1>1, <1>2, <1>3, CursorsInOrder, PTL DEF Spec

----------------------------------------------------------------------------
(* No letter is told twice without a fault.                                *)

\* Each letter a state knows of has one place: the batch or one parked item.
Apart(s) ==
    /\ BatchMessages(s) \cap PendingMessages(s) = {}
    /\ \A i, j \in s.pending : i # j => i.messages \cap j.messages = {}

\* What a flush has taken up to send, to park or to ack is still in the batch.
FlushHolds == flush.pc \in {"post", "park", "ack"} => flush.body \cup flush.ids \subseteq BatchMessages(mem)

\* What replay has taken up is still in its item, was archived meanwhile, or was dropped; the
\* item in hand is due no more.
Replayed == replay.due \cup {replay.item}
HeldBy(m, i) ==
    \/ m \in exposed.dropped
    \/ m \in mem.delivered_ids /\ m \notin BatchMessages(mem) \cup PendingMessages(mem)
    \/ \E j \in mem.pending : SameItem(i, j) /\ m \in j.messages
ReplayHolds ==
    /\ \A i \in Replayed : \A m \in i.messages : HeldBy(m, i)
    /\ \A i, j \in Replayed : i # j => i.messages \cap j.messages = {}
    /\ replay.pc = "post" => replay.item \notin replay.due

\* The daemon knows of the letter and nobody who holds it will tell it.
Remembered(m) ==
    \/ m \in mem.delivered_ids
    \/ flush.pc = "ack" /\ m \in flush.ids
    \/ replay.pc = "commit" /\ m \in replay.item.messages
Untold(m) ==
    /\ m \in BatchMessages(mem) => \/ flush.pc = "clear"
                                   \/ flush.pc = "ack" /\ m \in flush.ids
    /\ flush.pc \in {"post", "park"} => m \notin flush.body
    /\ \A i \in mem.pending : m \in i.messages => replay.pc = "commit" /\ SameItem(i, replay.item)
    /\ \A i \in replay.due : m \notin i.messages
    /\ replay.pc = "post" => m \notin replay.item.messages

\* A letter told as often as the faults allow is remembered and will not be told again.
Allowed == crashes + faults + lost
ToldOut ==
    \A m \in Letters \ exposed.dropped :
        /\ told[m] <= 1 + Allowed
        /\ told[m] = 1 + Allowed => Remembered(m) /\ Untold(m)

TellInv == Apart(mem) /\ Apart(disk) /\ FlushHolds /\ ReplayHolds /\ ToldOut

\* What is remembered is known to the intake.
LEMMA RememberedIsKnown ==
    ASSUME FlushHolds, ReplayHolds, NEW m, m \notin exposed.dropped, Remembered(m)
    PROVE  m \in knownMessageIds(mem)
<1>1. CASE flush.pc = "ack" /\ m \in flush.ids
    BY <1>1 DEF FlushHolds, knownMessageIds
<1>2. CASE replay.pc = "commit" /\ m \in replay.item.messages
  <2>1. HeldBy(m, replay.item)
      BY <1>2 DEF ReplayHolds, Replayed
  <2> QED
      BY <2>1 DEF HeldBy, knownMessageIds, PendingMessages
<1> QED
    BY <1>1, <1>2 DEF Remembered, knownMessageIds

\* Without a telling, what is remembered and untold has to stay so.
LEMMA ToldStays ==
    ASSUME ToldOut, UNCHANGED <<told, crashes, faults, lost>>, exposed.dropped \subseteq exposed'.dropped,
           \A m \in Letters \ exposed'.dropped : Remembered(m) /\ Untold(m) => Remembered(m)' /\ Untold(m)'
    PROVE  ToldOut'
<1>1. Allowed' = Allowed
    BY DEF Allowed
<1> QED
    BY <1>1 DEF ToldOut

\* A telling adds one, to letters that were not told out.
LEMMA ToldOnceMore ==
    ASSUME TypeOK, ToldOut, NEW S, Announce(S), UNCHANGED <<crashes, faults, lost, exposed>>,
           \A m \in S : m \in exposed.dropped \/ ~Untold(m),
           \A m \in S \ exposed.dropped : Remembered(m)' /\ Untold(m)',
           \A m \in Letters \ S : Remembered(m) /\ Untold(m) => Remembered(m)' /\ Untold(m)'
    PROVE  ToldOut'
<1>1. Allowed' = Allowed /\ Allowed \in Nat
    BY BoundsAssumption DEF Allowed, TypeOK, FaultTypes
<1>2. \A m \in Letters : told[m] \in Nat /\ told'[m] = IF m \in S THEN told[m] + 1 ELSE told[m]
    BY DEF TypeOK, HistoryTypes, Announce
<1> SUFFICES ASSUME NEW m \in Letters \ exposed.dropped
             PROVE  /\ told'[m] <= 1 + Allowed
                    /\ told'[m] = 1 + Allowed => Remembered(m)' /\ Untold(m)'
    BY <1>1 DEF ToldOut
<1>3. told[m] <= 1 + Allowed /\ (told[m] = 1 + Allowed => Remembered(m) /\ Untold(m))
    BY DEF ToldOut
<1>4. CASE m \in S
  <2>1. told[m] # 1 + Allowed
      BY <1>3, <1>4
  <2>2. told'[m] <= 1 + Allowed
      BY <1>1, <1>2, <1>3, <1>4, <2>1
  <2> QED
      BY <1>4, <2>2
<1>5. CASE m \notin S
    BY <1>2, <1>3, <1>5
<1> QED
    BY <1>4, <1>5

\* A fault allows for one more, whatever it leaves; also where it tells them.
LEMMA OneMoreIsAllowed ==
    ASSUME TypeOK, ToldOut, Allowed' = Allowed + 1, exposed.dropped \subseteq exposed'.dropped,
           \/ UNCHANGED told
           \/ \E S : Announce(S) /\ \A m \in S : m \in exposed.dropped \/ ~Untold(m)
    PROVE  ToldOut'
<1>1. Allowed \in Nat
    BY BoundsAssumption DEF Allowed, TypeOK, FaultTypes
<1> SUFFICES ASSUME NEW m \in Letters \ exposed'.dropped
             PROVE  told'[m] < 1 + Allowed'
  <2>1. \A k \in Letters \ exposed'.dropped : told'[k] \in Int
      BY DEF TypeOK, HistoryTypes, Announce
  <2> QED
      BY <1>1, <2>1 DEF ToldOut
<1>2. told[m] \in Nat /\ told[m] <= 1 + Allowed /\ (told[m] = 1 + Allowed => Untold(m))
    BY DEF ToldOut, TypeOK, HistoryTypes
<1>3. CASE UNCHANGED told
    BY <1>1, <1>2, <1>3
<1>4. ASSUME NEW S, Announce(S), \A k \in S : k \in exposed.dropped \/ ~Untold(k)
      PROVE  told'[m] < 1 + Allowed'
  <2>1. told'[m] = IF m \in S THEN told[m] + 1 ELSE told[m]
      BY <1>4 DEF Announce
  <2>2. CASE m \in S
    <3>1. told[m] # 1 + Allowed
        BY <1>2, <1>4, <2>2
    <3> QED
        BY <1>1, <1>2, <2>1, <2>2, <3>1
  <2>3. CASE m \notin S
      BY <1>1, <1>2, <2>1, <2>3
  <2> QED
      BY <2>2, <2>3
<1> QED
    BY <1>3, <1>4

LEMMA InitTell == Init => TellInv
<1> SUFFICES ASSUME Init PROVE TellInv
    OBVIOUS
<1>1. /\ mem = EmptyState /\ disk = EmptyState /\ flush = FlushIdle /\ replay = ReplayIdle
      /\ told = [m \in Letters |-> 0] /\ crashes = 0 /\ faults = 0 /\ lost = 0
    BY DEF Init
<1>2. Apart(mem) /\ Apart(disk)
    BY <1>1 DEF Apart, EmptyState, NoBatch, BatchMessages, PendingMessages
<1>3. FlushHolds
    BY <1>1 DEF FlushHolds, FlushIdle
<1>4. ReplayHolds
    BY <1>1 DEF ReplayHolds, Replayed, ReplayIdle, NoItem
<1>5. ToldOut
    BY <1>1 DEF ToldOut, Allowed
<1> QED
    BY <1>2, <1>3, <1>4, <1>5 DEF TellInv

\* Memory remembers more, and the batch takes in letters it did not know.
LEMMA MemoryGrows ==
    ASSUME TellInv, Apart(disk)', UNCHANGED <<flush, replay, told, crashes, faults, lost>>,
           exposed'.dropped = exposed.dropped, mem'.pending = mem.pending,
           mem.delivered_ids \subseteq mem'.delivered_ids, BatchMessages(mem) \subseteq BatchMessages(mem)',
           (BatchMessages(mem)' \ BatchMessages(mem)) \cap knownMessageIds(mem) = {}
    PROVE  TellInv'
<1>1. PendingMessages(mem)' = PendingMessages(mem)
    BY DEF PendingMessages
<1>2. Apart(mem)'
    BY <1>1 DEF TellInv, Apart, knownMessageIds
<1>3. FlushHolds'
    BY DEF TellInv, FlushHolds
<1>4. \A m, i : HeldBy(m, i) => HeldBy(m, i)'
  <2> SUFFICES ASSUME NEW m, NEW i, HeldBy(m, i) PROVE HeldBy(m, i)'
      OBVIOUS
  <2>1. CASE m \in mem.delivered_ids /\ m \notin BatchMessages(mem) \cup PendingMessages(mem)
      BY <1>1, <2>1 DEF HeldBy, knownMessageIds
  <2> QED
      BY <2>1 DEF HeldBy
<1>5. ReplayHolds'
    BY <1>4 DEF TellInv, ReplayHolds, Replayed
<1>6. ASSUME NEW m \in Letters \ exposed'.dropped, Remembered(m), Untold(m)
      PROVE  Remembered(m)' /\ Untold(m)'
  <2>1. m \in knownMessageIds(mem)
      BY <1>6, RememberedIsKnown DEF TellInv
  <2>2. m \in BatchMessages(mem)' => m \in BatchMessages(mem)
      BY <2>1
  <2> QED
      BY <1>6, <2>2 DEF Remembered, Untold
<1>7. ToldOut'
    BY <1>6, ToldStays DEF TellInv
<1> QED
    BY <1>2, <1>3, <1>5, <1>7 DEF TellInv

\* A step that leaves the store, the two deliveries and what was told alone.
LEMMA FrameTell ==
    ASSUME TellInv, UNCHANGED <<mem, disk, flush, replay, told, crashes, faults, lost>>,
           exposed'.dropped = exposed.dropped
    PROVE  TellInv'
<1>1. Apart(disk)'
    BY DEF TellInv, Apart, BatchMessages, PendingMessages
<1>2. BatchMessages(mem)' = BatchMessages(mem)
    BY DEF BatchMessages
<1> QED
    BY <1>1, <1>2, MemoryGrows

LEMMA EnvironmentTell == TellInv /\ Environment => TellInv'
<1> SUFFICES ASSUME TellInv, Environment PROVE TellInv'
    OBVIOUS
<1>1. UNCHANGED <<mem, disk, flush, replay, told, crashes, faults, lost, exposed>>
    BY DEF Environment, Arrive, Close, Register, HeartbeatLapses, Prune, storeVars, faultVars, history
<1> QED
    BY <1>1, FrameTell

LEMMA FetchingTell == TypeOK /\ TellInv /\ Fetching => TellInv'
<1> SUFFICES ASSUME TypeOK, TellInv, Fetching PROVE TellInv'
    OBVIOUS
<1>1. /\ UNCHANGED <<disk, flush, replay, told, crashes, faults, lost>>
      /\ mem \in States /\ fetch.rows \in SUBSET Letters
    BY DEF Fetching, Trigger, FetchPage, FetchFails, NoteFetchCursor, ReadMute, TrackSilently, Enqueue,
           FetchEnds, BootPage, OlderPage, Adopt, MarkEmpty, Baseline, Mutate, fetchRest, storeVars,
           faultVars, history, TypeOK, StoreTypes, Fetches
<1>2. exposed'.dropped = exposed.dropped
  <2>1. exposed \in Exposures
      BY DEF TypeOK, HistoryTypes
  <2>2. \/ UNCHANGED exposed
        \/ \E S : exposed' = [exposed EXCEPT !.missed = @ \cup S]
      BY DEF Fetching, Trigger, FetchPage, FetchFails, NoteFetchCursor, ReadMute, TrackSilently, Enqueue,
             FetchEnds, BootPage, OlderPage, Adopt, MarkEmpty, Baseline, history
  <2> QED
      BY <2>1, <2>2 DEF Exposures
<1>3. CASE Trigger \/ FetchPage \/ FetchFails \/ ReadMute \/ FetchEnds \/ BootPage \/ OlderPage
  <2>1. UNCHANGED mem
      BY <1>3 DEF Trigger, FetchPage, FetchFails, ReadMute, FetchEnds, BootPage, OlderPage, storeVars
  <2> QED
      BY <1>1, <1>2, <2>1, FrameTell
<1>4. CASE NoteFetchCursor \/ Adopt \/ MarkEmpty \/ Baseline \/ TrackSilently
  <2>1. /\ mem'.pending = mem.pending /\ mem'.batch = mem.batch
        /\ mem.delivered_ids \subseteq mem'.delivered_ids
    <3>1. CASE NoteFetchCursor
        BY <1>1, <3>1 DEF NoteFetchCursor, Mutate, States
    <3>2. CASE Adopt
        BY <1>1, <3>2 DEF Adopt, Mutate, States
    <3>3. CASE MarkEmpty
        BY <1>1, <3>3 DEF MarkEmpty, Mutate, States
    <3>4. CASE Baseline
        BY <1>1, <3>4 DEF Baseline, Mutate, States
    <3>5. CASE TrackSilently
        BY <1>1, <3>5 DEF TrackSilently, Commit, Mutate, States
    <3> QED
        BY <1>4, <3>1, <3>2, <3>3, <3>4, <3>5
  <2>2. BatchMessages(mem)' = BatchMessages(mem)
      BY <2>1 DEF BatchMessages
  <2>3. Apart(disk)'
      BY <1>1 DEF TellInv, Apart, BatchMessages, PendingMessages
  <2> QED
      BY <1>1, <1>2, <2>1, <2>2, <2>3, MemoryGrows
<1>5. CASE Enqueue
  <2> DEFINE fresh == fetch.rows \ knownMessageIds(mem)
             grown == [messages |-> BatchMessages(mem) \cup fresh,
                       next_cursor |-> fetch.last, cursor_seq |-> fetch.seq]
  <2>1. mem' = (IF fresh = {} THEN mem ELSE [mem EXCEPT !.batch = grown])
      BY <1>5 DEF Enqueue, Mutate
  <2>2. grown.messages = BatchMessages(mem) \cup fresh /\ fresh \cap knownMessageIds(mem) = {}
      OBVIOUS
  <2> HIDE DEF grown, fresh
  <2>3. /\ mem'.pending = mem.pending /\ mem'.delivered_ids = mem.delivered_ids
        /\ mem'.batch = mem.batch \/ mem'.batch = grown
      BY <1>1, <2>1 DEF States
  <2>4. /\ BatchMessages(mem) \subseteq BatchMessages(mem)'
        /\ (BatchMessages(mem)' \ BatchMessages(mem)) \cap knownMessageIds(mem) = {}
      BY <2>2, <2>3 DEF BatchMessages
  <2>5. Apart(disk)'
      BY <1>1 DEF TellInv, Apart, BatchMessages, PendingMessages
  <2> QED
      BY <1>1, <1>2, <2>3, <2>4, <2>5, MemoryGrows
<1> QED
    BY <1>3, <1>4, <1>5 DEF Fetching

\* The flush moves on with the store as it is: it takes up no more than the batch, and to send or
\* to park only what was in it to be sent.
LEMMA FlushMovesOn ==
    ASSUME TellInv, UNCHANGED <<mem, disk, replay, exposed>>, FlushHolds',
           ToldOut'
    PROVE  TellInv'
<1>1. Apart(mem)' /\ Apart(disk)'
    BY DEF TellInv, Apart, BatchMessages, PendingMessages
<1>2. ReplayHolds'
    BY DEF TellInv, ReplayHolds, Replayed, HeldBy, BatchMessages, PendingMessages
<1> QED
    BY <1>1, <1>2 DEF TellInv

LEMMA FlushReadsTell ==
    TypeOK /\ TellInv /\ (\/ FlushTimerFires \/ RetryTimerFires \/ ReconcileRead \/ Filter
                          \/ Refused \/ FlushSettles \/ DeliverFails(FALSE)) => TellInv'
<1> SUFFICES ASSUME TypeOK, TellInv,
                    FlushTimerFires \/ RetryTimerFires \/ ReconcileRead \/ Filter \/ Refused
                       \/ FlushSettles \/ DeliverFails(FALSE)
             PROVE  TellInv'
    OBVIOUS
<1>1. UNCHANGED <<mem, disk, replay, exposed, told, crashes, faults, lost>> /\ flush \in Flushes
    BY DEF FlushTimerFires, RetryTimerFires, ReconcileRead, Filter, Refused, FlushSettles, DeliverFails,
           flushRest, storeVars, faultVars, history, TypeOK
<1>2. /\ flush.pc \in {"ack", "clear"} =>
            flush'.pc = flush.pc /\ flush'.ids = flush.ids /\ flush'.body = flush.body
      /\ flush'.pc \in {"post", "park"} => \/ flush'.body \subseteq BatchMessages(mem) /\ flush.pc = "filter"
                                           \/ flush.pc \in {"post", "park"} /\ flush'.body = flush.body
      /\ flush'.pc \in {"post", "park", "ack"} =>
            flush'.body \cup flush'.ids \subseteq BatchMessages(mem)
  <2>1. CASE FlushTimerFires \/ RetryTimerFires
    <3>1. \/ flush.pc = "idle" /\ flush' = [FlushIdle EXCEPT !.pc = "reconcile"]
          \/ flush' = flush
        BY <2>1 DEF FlushTimerFires, RetryTimerFires, BeginFlush
    <3>2. \/ flush.pc = "idle" /\ flush'.pc = "reconcile"
          \/ flush' = flush
        BY <3>1 DEF FlushIdle
    <3> QED
        BY <3>2 DEF TellInv, FlushHolds
  <2>2. CASE ReconcileRead
      BY <1>1, <2>2 DEF ReconcileRead, Flushes
  <2>3. CASE Filter
    <3>1. PICK body \in SUBSET BatchMessages(mem) :
            flush' = [flush EXCEPT
                      !.pc = IF body = {} THEN "ack" ELSE IF HasTarget THEN "post" ELSE "park",
                      !.live = {}, !.body = body,
                      !.ids  = IF body = {} THEN BatchMessages(mem) ELSE {},
                      !.next_cursor = IF body = {} \/ ~HasTarget THEN mem.batch.next_cursor ELSE 0,
                      !.cursor_seq = IF body = {} \/ ~HasTarget THEN mem.batch.cursor_seq ELSE 0]
        BY <2>3 DEF Filter
    <3>2. /\ flush.pc = "filter" /\ flush'.body = body
          /\ flush'.pc = IF body = {} THEN "ack" ELSE IF HasTarget THEN "post" ELSE "park"
          /\ flush'.ids = IF body = {} THEN BatchMessages(mem) ELSE {}
        BY <1>1, <2>3, <3>1 DEF Filter, Flushes
    <3> QED
        BY <3>2
  <2>4. CASE Refused
      BY <1>1, <2>4 DEF Refused, Flushes, TellInv, FlushHolds
  <2>5. CASE FlushSettles \/ DeliverFails(FALSE)
    <3>1. flush' = FlushIdle /\ flush.pc \in {"settle", "post"}
        BY <2>5 DEF FlushSettles, DeliverFails
    <3>2. flush'.pc = "idle"
        BY <3>1 DEF FlushIdle
    <3> QED
        BY <3>1, <3>2
  <2> QED
      BY <2>1, <2>2, <2>3, <2>4, <2>5
<1>3. FlushHolds'
    BY <1>1, <1>2 DEF FlushHolds, BatchMessages
<1>4. ASSUME NEW m \in Letters \ exposed'.dropped, Remembered(m), Untold(m)
      PROVE  Remembered(m)' /\ Untold(m)'
    BY <1>1, <1>2, <1>4 DEF Remembered, Untold, BatchMessages
<1>5. ToldOut'
    BY <1>1, <1>4, ToldStays DEF TellInv
<1> QED
    BY <1>1, <1>3, <1>5, FlushMovesOn

\* What a flush sends was to be sent, and is remembered from then on.
LEMMA DeliveredTell == TypeOK /\ TellInv /\ (Delivered \/ DeliverFails(TRUE)) => TellInv'
<1> SUFFICES ASSUME TypeOK, TellInv, Delivered \/ DeliverFails(TRUE) PROVE TellInv'
    OBVIOUS
<1>1. /\ UNCHANGED <<mem, disk, replay, exposed, crashes, faults>> /\ flush \in Flushes
      /\ flush.pc = "post" /\ Announce(flush.body)
    BY DEF Delivered, DeliverFails, flushRest, storeVars, faultVars, TypeOK
<1>2. \A m \in flush.body : m \in exposed.dropped \/ ~Untold(m)
    BY <1>1 DEF Untold
<1>3. CASE Delivered
  <2>1. flush'.pc = "ack" /\ flush'.ids = BatchMessages(mem) /\ flush'.body = flush.body /\ UNCHANGED lost
      BY <1>1, <1>3 DEF Delivered, Flushes, faultVars
  <2>2. FlushHolds'
      BY <1>1, <2>1 DEF TellInv, FlushHolds, BatchMessages
  <2>3. ASSUME NEW m \in flush.body \ exposed.dropped PROVE Remembered(m)' /\ Untold(m)'
    <3>1. m \in BatchMessages(mem) /\ m \notin PendingMessages(mem)
        BY <1>1 DEF TellInv, FlushHolds, Apart
    <3>2. \A i \in Replayed : m \notin i.messages
      <4>1. \A i : ~HeldBy(m, i)
          BY <3>1 DEF HeldBy, PendingMessages
      <4> QED
          BY <4>1 DEF TellInv, ReplayHolds
    <3> QED
        BY <1>1, <2>1, <3>1, <3>2 DEF Remembered, Untold, Replayed, BatchMessages, PendingMessages
  <2>4. ASSUME NEW m \in Letters \ flush.body, Remembered(m), Untold(m) PROVE Remembered(m)' /\ Untold(m)'
      BY <1>1, <2>1, <2>4 DEF Remembered, Untold, BatchMessages
  <2>5. ToldOut'
      BY <1>1, <1>2, <2>1, <2>3, <2>4, ToldOnceMore DEF TellInv
  <2> QED
      BY <1>1, <2>2, <2>5, FlushMovesOn
<1>4. CASE DeliverFails(TRUE)
  <2>1. flush'.pc = "idle" /\ lost' = lost + 1
      BY <1>4 DEF DeliverFails, FlushIdle
  <2>2. FlushHolds'
      BY <2>1 DEF FlushHolds
  <2>3. Allowed' = Allowed + 1
      BY <1>1, <2>1, BoundsAssumption DEF Allowed, TypeOK, FaultTypes
  <2>4. ToldOut'
      BY <1>1, <1>2, <2>3, OneMoreIsAllowed DEF TellInv
  <2> QED
      BY <1>1, <2>2, <2>4, FlushMovesOn
<1> QED
    BY <1>3, <1>4

\* What is acked is remembered; the batch waits to be cleared.
LEMMA AckBatchTell == TypeOK /\ TellInv /\ AckBatch => TellInv'
<1> SUFFICES ASSUME TypeOK, TellInv, AckBatch PROVE TellInv'
    OBVIOUS
<1>1. /\ UNCHANGED <<disk, replay, exposed, told, crashes, faults, lost>> /\ flush.pc = "ack"
      /\ mem' = Commit(mem, flush.cursor_seq, flush.next_cursor, flush.ids) /\ mem \in States
    BY DEF AckBatch, Mutate, flushRest, faultVars, history, TypeOK, StoreTypes
<1>2. /\ mem'.pending = mem.pending /\ mem'.batch = mem.batch
      /\ mem'.delivered_ids = mem.delivered_ids \cup flush.ids
    BY <1>1 DEF Commit, States
<1>3. flush'.pc = "clear"
    BY DEF AckBatch, FlushIdle
<1>4. BatchMessages(mem)' = BatchMessages(mem) /\ PendingMessages(mem)' = PendingMessages(mem)
    BY <1>2 DEF BatchMessages, PendingMessages
<1>5. Apart(mem)' /\ Apart(disk)' /\ FlushHolds'
    BY <1>1, <1>2, <1>3, <1>4 DEF TellInv, Apart, BatchMessages, PendingMessages, FlushHolds
<1>6. ReplayHolds'
    BY <1>1, <1>2, <1>4 DEF TellInv, ReplayHolds, Replayed, HeldBy
<1>7. ASSUME NEW m \in Letters \ exposed'.dropped, Remembered(m), Untold(m)
      PROVE  Remembered(m)' /\ Untold(m)'
    BY <1>1, <1>2, <1>3, <1>4, <1>7 DEF Remembered, Untold
<1>8. ToldOut'
    BY <1>1, <1>7, ToldStays DEF TellInv
<1> QED
    BY <1>5, <1>6, <1>8 DEF TellInv

LEMMA ClearBatchTell == TypeOK /\ TellInv /\ ClearBatch => TellInv'
<1> SUFFICES ASSUME TypeOK, TellInv, ClearBatch PROVE TellInv'
    OBVIOUS
<1>1. /\ UNCHANGED <<disk, replay, told, crashes, faults, lost>> /\ flush.pc = "clear"
      /\ mem' = [mem EXCEPT !.batch = NoBatch] /\ mem \in States
      /\ exposed' = [exposed EXCEPT !.late = @ \cup LateMail] /\ exposed \in Exposures
    BY DEF ClearBatch, Mutate, flushRest, faultVars, history, TypeOK, StoreTypes, HistoryTypes
<1>2. /\ mem'.pending = mem.pending /\ mem'.batch = NoBatch /\ mem'.delivered_ids = mem.delivered_ids
      /\ exposed'.dropped = exposed.dropped
    BY <1>1 DEF States, Exposures
<1>3. flush'.pc = "settle"
    BY DEF ClearBatch, TypeOK, Flushes
<1>4. BatchMessages(mem)' = {} /\ PendingMessages(mem)' = PendingMessages(mem)
    BY <1>2 DEF BatchMessages, PendingMessages, NoBatch
<1>5. Apart(mem)' /\ Apart(disk)' /\ FlushHolds'
    BY <1>1, <1>2, <1>3, <1>4 DEF TellInv, Apart, BatchMessages, PendingMessages, FlushHolds
<1>6. ReplayHolds'
    BY <1>1, <1>2, <1>4 DEF TellInv, ReplayHolds, Replayed, HeldBy
<1>7. ASSUME NEW m \in Letters \ exposed'.dropped, Remembered(m), Untold(m)
      PROVE  Remembered(m)' /\ Untold(m)'
    BY <1>1, <1>2, <1>3, <1>4, <1>7 DEF Remembered, Untold
<1>8. ToldOut'
    BY <1>1, <1>2, <1>7, ToldStays DEF TellInv
<1> QED
    BY <1>5, <1>6, <1>8 DEF TellInv

\* The body moves from the batch to an item of its own; what the full queue drops is named.
LEMMA ToPendingTell == TypeOK /\ TellInv /\ ToPending => TellInv'
<1> SUFFICES ASSUME TypeOK, TellInv, ToPending PROVE TellInv'
    OBVIOUS
<1>1. /\ UNCHANGED <<disk, replay, told, crashes, faults, lost>> /\ flush.pc = "park"
      /\ flush' = [FlushIdle EXCEPT !.pc = "settle"] /\ mem \in States /\ exposed \in Exposures
    BY DEF ToPending, Mutate, flushRest, faultVars, history, TypeOK, StoreTypes, HistoryTypes
<1> DEFINE item == [cursor_seq |-> flush.cursor_seq, next_cursor |-> flush.next_cursor,
                    messages |-> flush.body, resting |-> FALSE]
<1>2. PICK dropped \in SUBSET mem.pending :
        /\ mem' = [mem EXCEPT !.batch = NoBatch, !.pending = (@ \ dropped) \cup {item}]
        /\ exposed' = [exposed EXCEPT !.late = @ \cup LateMail,
                                      !.dropped = @ \cup UNION {i.messages : i \in dropped}]
  <2> DEFINE d == IF Cardinality(mem.pending) >= PendingCap THEN Oldest(mem.pending) ELSE {}
  <2>1. d \in SUBSET mem.pending
      BY DEF Oldest
  <2>2. /\ mem' = [mem EXCEPT !.batch = NoBatch, !.pending = (@ \ d) \cup {item}]
        /\ exposed' = [exposed EXCEPT !.late = @ \cup LateMail,
                                      !.dropped = @ \cup UNION {i.messages : i \in d}]
      BY DEF ToPending, Mutate
  <2> HIDE DEF d, item
  <2> QED
      BY <2>1, <2>2
<1>3. item.messages = flush.body
    OBVIOUS
<1> HIDE DEF item
<1>4. /\ mem'.delivered_ids = mem.delivered_ids /\ mem'.batch = NoBatch
      /\ mem'.pending = (mem.pending \ dropped) \cup {item}
    BY <1>1, <1>2 DEF States
<1>5. /\ exposed.dropped \subseteq exposed'.dropped
      /\ \A i \in dropped : i.messages \subseteq exposed'.dropped
  <2> DEFINE gone == UNION {i.messages : i \in dropped}
  <2>1. exposed' = [exposed EXCEPT !.late = @ \cup LateMail, !.dropped = @ \cup gone]
      BY <1>2
  <2> HIDE DEF gone
  <2>2. exposed'.dropped = exposed.dropped \cup gone
      BY <1>1, <2>1 DEF Exposures
  <2> QED
      BY <2>2 DEF gone
<1>6. flush'.pc = "settle"
    BY <1>1 DEF FlushIdle
<1>7. /\ flush.body \subseteq BatchMessages(mem) /\ flush.body \cap PendingMessages(mem) = {}
      /\ BatchMessages(mem)' = {} /\ PendingMessages(mem)' \subseteq PendingMessages(mem) \cup flush.body
    BY <1>1, <1>3, <1>4 DEF TellInv, FlushHolds, Apart, BatchMessages, PendingMessages, NoBatch
<1>8. Apart(mem)'
  <2>1. \A i \in mem.pending : i.messages \cap item.messages = {}
      BY <1>3, <1>7 DEF PendingMessages
  <2>2. \A i, j \in mem'.pending : i # j => i.messages \cap j.messages = {}
      BY <1>4, <2>1 DEF TellInv, Apart
  <2> QED
      BY <1>7, <2>2 DEF Apart
<1>9. Apart(disk)' /\ FlushHolds'
    BY <1>1, <1>6 DEF TellInv, Apart, BatchMessages, PendingMessages, FlushHolds
<1>10. \A m, i : HeldBy(m, i) => HeldBy(m, i)'
  <2> SUFFICES ASSUME NEW m, NEW i, HeldBy(m, i) PROVE HeldBy(m, i)'
      OBVIOUS
  <2>1. CASE m \in mem.delivered_ids /\ m \notin BatchMessages(mem) \cup PendingMessages(mem)
      BY <1>4, <1>7, <2>1 DEF HeldBy
  <2>2. CASE \E j \in mem.pending : SameItem(i, j) /\ m \in j.messages
      BY <1>4, <1>5, <2>2 DEF HeldBy
  <2> QED
      BY <1>5, <2>1, <2>2 DEF HeldBy
<1>11. ReplayHolds'
    BY <1>1, <1>10 DEF TellInv, ReplayHolds, Replayed
<1>12. ASSUME NEW m \in Letters \ exposed'.dropped, Remembered(m), Untold(m)
       PROVE  Remembered(m)' /\ Untold(m)'
  <2>1. m \notin item.messages
      BY <1>1, <1>3, <1>12 DEF Untold
  <2> QED
      BY <1>1, <1>4, <1>6, <1>7, <1>12, <2>1 DEF Remembered, Untold
<1>13. ToldOut'
    BY <1>1, <1>5, <1>12, ToldStays DEF TellInv
<1> QED
    BY <1>8, <1>9, <1>11, <1>13 DEF TellInv

LEMMA FlushingTell == TypeOK /\ TellInv /\ Flushing => TellInv'
<1>1. ASSUME NEW taken \in BOOLEAN PROVE taken = TRUE \/ taken = FALSE
    OBVIOUS
<1>2. (\E taken \in BOOLEAN : DeliverFails(taken)) => DeliverFails(TRUE) \/ DeliverFails(FALSE)
    BY <1>1
<1> QED
    BY <1>2, FlushReadsTell, DeliveredTell, AckBatchTell, ClearBatchTell, ToPendingTell DEF Flushing

\* The replay moves on with the store as it is.
LEMMA ReplayMovesOn ==
    ASSUME TellInv, UNCHANGED <<mem, disk, flush, exposed>>, ReplayHolds', ToldOut'
    PROVE  TellInv'
BY DEF TellInv, Apart, FlushHolds, BatchMessages, PendingMessages

LEMMA ReplayReadsTell ==
    TypeOK /\ TellInv /\ (ReplayStart \/ ReplayPick \/ ReplayEnds \/ RedeliveryFails(FALSE)) => TellInv'
<1> SUFFICES ASSUME TypeOK, TellInv, ReplayStart \/ ReplayPick \/ ReplayEnds \/ RedeliveryFails(FALSE)
             PROVE  TellInv'
    OBVIOUS
<1>1. UNCHANGED <<mem, disk, flush, exposed, told, crashes, faults, lost>> /\ replay \in Replays
    BY DEF ReplayStart, ReplayPick, ReplayEnds, RedeliveryFails, replayRest, storeVars, faultVars,
           history, TypeOK
<1>2. NoItem.messages = {} /\ ReplayIdle.item = NoItem /\ ReplayIdle.due = {}
    BY DEF NoItem, ReplayIdle
<1>3. /\ replay.pc # "commit" /\ replay'.pc # "commit"
      /\ \/ replay.pc = "idle" /\ replay'.pc # "post" /\ replay'.due \subseteq mem.pending /\ replay'.item = NoItem
         \/ replay'.due \subseteq replay.due
            /\ \/ replay'.item \in replay.due /\ replay'.item \notin replay'.due
               \/ replay'.item \in {replay.item, NoItem} /\ replay'.pc # "post"
  <2>1. CASE ReplayStart
      BY <1>2, <2>1 DEF ReplayStart, ReplayIdle
  <2>2. CASE ReplayPick
    <3>1. PICK item \in Oldest(replay.due) :
            replay' = [pc |-> "post", due |-> replay.due \ {item}, item |-> item]
        BY <2>2 DEF ReplayPick
    <3>2. item \in replay.due
        BY DEF Oldest
    <3> QED
        BY <2>2, <3>1, <3>2 DEF ReplayPick
  <2>3. CASE ReplayEnds
      BY <1>2, <2>3 DEF ReplayEnds, ReplayIdle
  <2>4. CASE RedeliveryFails(FALSE)
      BY <1>1, <2>4 DEF RedeliveryFails, Replays
  <2> QED
      BY <2>1, <2>2, <2>3, <2>4
<1>4. ReplayHolds'
  <2>1. \A m, i : HeldBy(m, i)' <=> HeldBy(m, i)
      BY <1>1 DEF HeldBy, BatchMessages, PendingMessages
  <2>2. \A i \in mem.pending : \A m \in i.messages : HeldBy(m, i)
      BY DEF HeldBy, SameItem
  <2>3. \A i, j \in mem.pending : i # j => i.messages \cap j.messages = {}
      BY DEF TellInv, Apart
  <2>4. Replayed' \subseteq mem.pending \cup {NoItem} \/ Replayed' \subseteq Replayed \cup {NoItem}
      BY <1>3 DEF Replayed
  <2>5. replay'.pc = "post" => replay'.item \notin replay'.due
      BY <1>3
  <2> QED
      BY <1>2, <2>1, <2>2, <2>3, <2>4, <2>5 DEF TellInv, ReplayHolds
<1>5. ASSUME NEW m \in Letters \ exposed'.dropped, Remembered(m), Untold(m)
      PROVE  Remembered(m)' /\ Untold(m)'
    BY <1>1, <1>2, <1>3, <1>5 DEF Remembered, Untold, BatchMessages
<1>6. ToldOut'
    BY <1>1, <1>5, ToldStays DEF TellInv
<1> QED
    BY <1>1, <1>4, <1>6, ReplayMovesOn

\* What is redelivered was to be told, and is remembered from then on.
LEMMA RedeliveredTell == TypeOK /\ TellInv /\ (Redelivered \/ RedeliveryFails(TRUE)) => TellInv'
<1> SUFFICES ASSUME TypeOK, TellInv, Redelivered \/ RedeliveryFails(TRUE) PROVE TellInv'
    OBVIOUS
<1>1. /\ UNCHANGED <<mem, disk, flush, exposed, crashes, faults>> /\ replay \in Replays
      /\ replay.pc = "post" /\ Announce(replay.item.messages)
    BY DEF Redelivered, RedeliveryFails, replayRest, storeVars, faultVars, TypeOK
<1>2. \A m \in replay.item.messages : m \in exposed.dropped \/ ~Untold(m)
    BY <1>1 DEF Untold
<1>3. replay'.due = replay.due /\ replay'.item = replay.item
    BY <1>1 DEF Redelivered, RedeliveryFails, Replays
<1>4. ReplayHolds'
    BY <1>1, <1>3 DEF TellInv, ReplayHolds, Replayed, HeldBy, BatchMessages, PendingMessages
<1>5. CASE Redelivered
  <2>1. replay'.pc = "commit" /\ UNCHANGED lost
      BY <1>1, <1>5 DEF Redelivered, Replays, faultVars
  <2>2. ASSUME NEW m \in replay.item.messages \ exposed.dropped PROVE Remembered(m)' /\ Untold(m)'
    <3>1. HeldBy(m, replay.item)
        BY DEF TellInv, ReplayHolds, Replayed
    <3>2. m \notin BatchMessages(mem)
        BY <3>1 DEF HeldBy, TellInv, Apart, PendingMessages
    <3>3. \A i \in mem.pending : m \in i.messages => SameItem(i, replay.item)
        BY <3>1 DEF HeldBy, TellInv, Apart, PendingMessages, SameItem
    <3>4. \A i \in replay.due : i # replay.item => m \notin i.messages
        BY DEF TellInv, ReplayHolds, Replayed
    <3>5. replay.item \notin replay.due
        BY <1>1 DEF TellInv, ReplayHolds
    <3> QED
        BY <1>1, <1>3, <2>1, <3>2, <3>3, <3>4, <3>5 DEF Remembered, Untold, TellInv, FlushHolds, BatchMessages
  <2>3. ASSUME NEW m \in Letters \ replay.item.messages, Remembered(m), Untold(m)
        PROVE  Remembered(m)' /\ Untold(m)'
      BY <1>1, <1>3, <2>1, <2>3 DEF Remembered, Untold, BatchMessages
  <2>4. ToldOut'
      BY <1>1, <1>2, <2>1, <2>2, <2>3, ToldOnceMore DEF TellInv
  <2> QED
      BY <1>1, <1>4, <2>4, ReplayMovesOn
<1>6. CASE RedeliveryFails(TRUE)
  <2>1. lost' = lost + 1
      BY <1>6 DEF RedeliveryFails
  <2>2. Allowed' = Allowed + 1
      BY <1>1, <2>1, BoundsAssumption DEF Allowed, TypeOK, FaultTypes
  <2>3. ToldOut'
      BY <1>1, <1>2, <2>2, OneMoreIsAllowed DEF TellInv
  <2> QED
      BY <1>1, <1>4, <2>3, ReplayMovesOn
<1> QED
    BY <1>5, <1>6

\* Items leave the queue for good: what they held is remembered.
LEMMA ItemsLeave ==
    ASSUME TellInv, UNCHANGED <<disk, flush, told, crashes, faults, lost>>,
           exposed'.dropped = exposed.dropped,
           mem'.batch = mem.batch, mem'.pending \subseteq mem.pending,
           mem.delivered_ids \subseteq mem'.delivered_ids,
           \A i \in mem.pending \ mem'.pending : i.messages \subseteq mem'.delivered_ids,
           replay'.pc # "post" \/ replay' = replay,
           \/ replay' = replay
           \/ /\ replay'.due = replay.due /\ replay'.item = NoItem
              /\ replay.item.messages \subseteq mem'.delivered_ids
              /\ \A i \in mem'.pending : ~SameItem(i, replay.item)
    PROVE  TellInv'
<1>1. BatchMessages(mem)' = BatchMessages(mem) /\ PendingMessages(mem)' \subseteq PendingMessages(mem)
    BY DEF BatchMessages, PendingMessages
<1>2. Apart(mem)' /\ Apart(disk)' /\ FlushHolds'
    BY <1>1 DEF TellInv, Apart, FlushHolds, BatchMessages, PendingMessages
<1>3. \A m, i : HeldBy(m, i) => HeldBy(m, i)'
  <2> SUFFICES ASSUME NEW m, NEW i, HeldBy(m, i) PROVE HeldBy(m, i)'
      OBVIOUS
  <2>1. CASE m \in mem.delivered_ids /\ m \notin BatchMessages(mem) \cup PendingMessages(mem)
      BY <1>1, <2>1 DEF HeldBy
  <2>2. ASSUME NEW j \in mem.pending, SameItem(i, j), m \in j.messages PROVE HeldBy(m, i)'
    <3>1. CASE j \in mem'.pending
        BY <2>2, <3>1 DEF HeldBy
    <3>2. CASE j \notin mem'.pending
      <4>1. m \in mem'.delivered_ids
          BY <2>2, <3>2
      <4>2. m \notin BatchMessages(mem)
          BY <2>2 DEF TellInv, Apart, PendingMessages
      <4>3. m \notin PendingMessages(mem)'
          BY <2>2, <3>2 DEF TellInv, Apart, PendingMessages
      <4> QED
          BY <1>1, <4>1, <4>2, <4>3 DEF HeldBy
    <3> QED
        BY <3>1, <3>2
  <2> QED
      BY <2>1, <2>2 DEF HeldBy
<1>4. NoItem.messages = {} /\ Replayed' \subseteq Replayed \cup {NoItem}
    BY DEF NoItem, Replayed
<1>5. ReplayHolds'
    BY <1>3, <1>4 DEF TellInv, ReplayHolds
<1>6. ASSUME NEW m \in Letters \ exposed'.dropped, Remembered(m), Untold(m)
      PROVE  Remembered(m)' /\ Untold(m)'
  <2>1. Remembered(m)'
      BY <1>6 DEF Remembered
  <2>2. \A i \in mem'.pending : m \in i.messages => replay'.pc = "commit" /\ SameItem(i, replay'.item)
      BY <1>6 DEF Untold
  <2>3. /\ \A i \in replay'.due : m \notin i.messages
        /\ replay'.pc = "post" => m \notin replay'.item.messages
      BY <1>6 DEF Untold
  <2> QED
      BY <1>1, <1>6, <2>1, <2>2, <2>3 DEF Untold
<1>7. ToldOut'
    BY <1>6, ToldStays DEF TellInv
<1> QED
    BY <1>2, <1>5, <1>7 DEF TellInv

LEMMA ReplayCommitTell == TypeOK /\ LossInv /\ TellInv /\ ReplayCommit => TellInv'
<1> SUFFICES ASSUME TypeOK, LossInv, TellInv, ReplayCommit PROVE TellInv'
    OBVIOUS
<1> DEFINE item == replay.item
           kept == {i \in mem.pending : ~SameItem(i, item)}
<1>1. /\ UNCHANGED <<disk, flush, exposed, told, crashes, faults, lost>> /\ mem \in States
      /\ mem' = [Commit(mem, item.cursor_seq, item.next_cursor, item.messages) EXCEPT !.pending = kept]
    BY DEF ReplayCommit, Mutate, replayRest, faultVars, history, TypeOK, StoreTypes
<1>2. replay'.pc = "pick" /\ replay'.due = replay.due /\ replay'.item = NoItem
    BY DEF ReplayCommit, TypeOK, Replays
<1>3. item \in TakenUp
    BY DEF TakenUp
<1>4. \A i \in mem.pending \ kept : i.messages = item.messages
    BY <1>3 DEF LossInv, TakenUpIsSafe
<1>5. kept \subseteq mem.pending /\ \A i \in kept : ~SameItem(i, replay.item)
    OBVIOUS
<1> HIDE DEF kept
<1>6. /\ mem'.pending = kept /\ mem'.batch = mem.batch
      /\ mem'.delivered_ids = mem.delivered_ids \cup item.messages
    BY <1>1 DEF Commit, States
<1> QED
    BY <1>1, <1>2, <1>4, <1>5, <1>6, ItemsLeave

LEMMA SweepingTell == TypeOK /\ LossInv /\ TellInv /\ Sweeping => TellInv'
<1> SUFFICES ASSUME TypeOK, LossInv, TellInv, Sweeping PROVE TellInv'
    OBVIOUS
<1>1. CASE SweepSelect \/ SweepEnds
  <2>1. UNCHANGED <<mem, disk, flush, replay, told, crashes, faults, lost, exposed>>
      BY <1>1 DEF SweepSelect, SweepEnds, sweepRest, storeVars, faultVars, history
  <2> QED
      BY <2>1, FrameTell
<1>2. CASE SweepArchive
  <2> DEFINE gone == sweep.archive
             ids  == UNION {i.messages : i \in gone}
             kept == {i \in mem.pending : \A j \in gone : ~SameItem(i, j)}
  <2>1. PICK newest \in gone :
          mem' = [Commit(mem, newest.cursor_seq, newest.next_cursor, ids) EXCEPT !.pending = kept]
      BY <1>2 DEF SweepArchive, Mutate
  <2>2. UNCHANGED <<disk, flush, replay, told, crashes, faults, lost, exposed>> /\ mem \in States
      BY <1>2 DEF SweepArchive, Mutate, sweepRest, faultVars, TypeOK, StoreTypes
  <2>3. \A i \in mem.pending \ kept : i.messages \subseteq ids
    <3>1. ASSUME NEW i \in mem.pending \ kept PROVE i.messages \subseteq ids
      <4>1. PICK j \in gone : SameItem(i, j)
          OBVIOUS
      <4>2. j \in TakenUp /\ j.messages \subseteq ids
          BY <4>1 DEF TakenUp
      <4>3. i.messages = j.messages
          BY <4>1, <4>2 DEF LossInv, TakenUpIsSafe
      <4> QED
          BY <4>2, <4>3
    <3> QED
        BY <3>1
  <2>4. kept \subseteq mem.pending
      OBVIOUS
  <2> HIDE DEF ids, kept
  <2>5. mem'.pending = kept /\ mem'.batch = mem.batch /\ mem'.delivered_ids = mem.delivered_ids \cup ids
      BY <2>1, <2>2 DEF Commit, States
  <2> QED
      BY <2>2, <2>3, <2>4, <2>5, ItemsLeave
<1> QED
    BY <1>1, <1>2 DEF Sweeping

\* The item that backs off keeps its letters.
LEMMA ReplayRestTell == TypeOK /\ TellInv /\ ReplayRest => TellInv'
<1> SUFFICES ASSUME TypeOK, TellInv, ReplayRest PROVE TellInv'
    OBVIOUS
<1> DEFINE rested(i) == IF SameItem(i, replay.item) THEN [i EXCEPT !.resting = TRUE] ELSE i
           rest == {rested(i) : i \in mem.pending}
<1>1. /\ UNCHANGED <<disk, flush, exposed, told, crashes, faults, lost>> /\ mem \in States
      /\ mem' = [mem EXCEPT !.pending = rest] /\ replay.pc = "rest"
    BY DEF ReplayRest, Mutate, replayRest, faultVars, history, TypeOK, StoreTypes
<1>2. \A i \in mem.pending : rested(i).messages = i.messages
    BY <1>1 DEF States, Items
<1> HIDE DEF rested
<1>3. /\ \A j \in rest : \E i \in mem.pending : j = rested(i)
      /\ \A i \in mem.pending : rested(i) \in rest
    OBVIOUS
<1> HIDE DEF rest
<1>4. mem'.pending = rest /\ mem'.batch = mem.batch /\ mem'.delivered_ids = mem.delivered_ids
    BY <1>1 DEF States
<1>5. replay'.pc = "rested" /\ Replayed' = {NoItem} /\ NoItem.messages = {} /\ replay'.due = {}
    BY DEF ReplayRest, ReplayIdle, Replayed, NoItem
<1>6. BatchMessages(mem)' = BatchMessages(mem) /\ PendingMessages(mem)' \subseteq PendingMessages(mem)
  <2>1. PendingMessages(mem)' \subseteq PendingMessages(mem)
      BY <1>2, <1>3, <1>4 DEF PendingMessages
  <2> QED
      BY <1>4, <2>1 DEF BatchMessages
<1>7. Apart(mem)'
  <2>1. \A i, j \in rest : i # j => i.messages \cap j.messages = {}
      BY <1>2, <1>3 DEF TellInv, Apart
  <2> QED
      BY <1>4, <1>6, <2>1 DEF TellInv, Apart
<1>8. Apart(disk)' /\ FlushHolds' /\ ReplayHolds'
    BY <1>1, <1>5, <1>6 DEF TellInv, Apart, FlushHolds, BatchMessages, PendingMessages, ReplayHolds
<1>9. ASSUME NEW m \in Letters \ exposed'.dropped, Remembered(m), Untold(m)
      PROVE  Remembered(m)' /\ Untold(m)'
  <2>1. m \notin PendingMessages(mem)'
      BY <1>1, <1>6, <1>9 DEF Untold, PendingMessages
  <2> QED
      BY <1>1, <1>4, <1>5, <1>6, <1>9, <2>1 DEF Remembered, Untold, PendingMessages
<1>10. ToldOut'
    BY <1>1, <1>9, ToldStays DEF TellInv
<1> QED
    BY <1>7, <1>8, <1>10 DEF TellInv

LEMMA ReplayingTell == TypeOK /\ LossInv /\ TellInv /\ Replaying => TellInv'
<1>1. ASSUME NEW taken \in BOOLEAN PROVE taken = TRUE \/ taken = FALSE
    OBVIOUS
<1>2. (\E taken \in BOOLEAN : RedeliveryFails(taken)) => RedeliveryFails(TRUE) \/ RedeliveryFails(FALSE)
    BY <1>1
<1> QED
    BY <1>2, ReplayReadsTell, RedeliveredTell, ReplayCommitTell, ReplayRestTell DEF Replaying

LEMMA StoringTell == TypeOK /\ TellInv /\ Storing => TellInv'
<1> SUFFICES ASSUME TypeOK, TellInv, Storing PROVE TellInv'
    OBVIOUS
<1>1. mem \in States
    BY DEF TypeOK, StoreTypes
<1>2. CASE (\E paused \in BOOLEAN : SetMute(paused)) \/ Rewrite \/ Persisted
  <2>1. /\ UNCHANGED <<flush, replay, told, crashes, faults, lost, exposed>>
        /\ mem'.pending = mem.pending /\ mem'.batch = mem.batch /\ mem'.delivered_ids = mem.delivered_ids
        /\ disk' \in {disk, mem}
      BY <1>1, <1>2 DEF SetMute, Rewrite, Persisted, Mutate, States, processes, faultVars, history
  <2>2. Apart(disk)' /\ BatchMessages(mem)' = BatchMessages(mem)
      BY <2>1 DEF TellInv, Apart, BatchMessages, PendingMessages
  <2> QED
      BY <2>1, <2>2, MemoryGrows
<1>3. CASE WriteFails
  <2>1. UNCHANGED <<mem, disk, told, crashes, lost>> /\ faults' = faults + 1
      BY <1>3 DEF WriteFails
  <2>2. exposed'.dropped = exposed.dropped
      BY <1>3 DEF WriteFails, TypeOK, HistoryTypes, Exposures
  <2>3. flush' = flush \/ flush'.pc \in {"idle", "settle"}
      BY <1>3 DEF WriteFails, FlushIdle
  <2>4. replay' = replay \/ (replay'.pc = "rest" /\ Replayed' = {NoItem} /\ NoItem.messages = {})
      BY <1>3 DEF WriteFails, ReplayIdle, Replayed, NoItem
  <2>5. Apart(mem)' /\ Apart(disk)' /\ FlushHolds'
      BY <2>1, <2>3 DEF TellInv, Apart, FlushHolds, BatchMessages, PendingMessages
  <2>6. ReplayHolds'
    <3>1. CASE replay' = replay
        BY <2>1, <2>2, <3>1 DEF TellInv, ReplayHolds, Replayed, HeldBy, BatchMessages, PendingMessages
    <3>2. CASE replay'.pc = "rest" /\ Replayed' = {NoItem} /\ NoItem.messages = {}
        BY <3>2 DEF ReplayHolds
    <3> QED
        BY <2>4, <3>1, <3>2
  <2>7. Allowed' = Allowed + 1
      BY <2>1, BoundsAssumption DEF Allowed, TypeOK, FaultTypes
  <2>8. ToldOut'
      BY <2>1, <2>2, <2>7, OneMoreIsAllowed DEF TellInv
  <2> QED
      BY <2>5, <2>6, <2>8 DEF TellInv
<1> QED
    BY <1>2, <1>3 DEF Storing

\* After a crash all that counts is on disk, where each letter has one place as well.
LEMMA CrashTell == TypeOK /\ TellInv /\ CrashAndRestart => TellInv'
<1> SUFFICES ASSUME TypeOK, TellInv, CrashAndRestart PROVE TellInv'
    OBVIOUS
<1>1. /\ mem' = disk /\ disk' = disk /\ flush' = FlushIdle /\ replay' = ReplayIdle
      /\ crashes' = crashes + 1 /\ UNCHANGED <<told, faults, lost>>
    BY DEF CrashAndRestart
<1>2. exposed'.dropped = exposed.dropped
  <2> DEFINE gone == ((fetch.rows \cup knownMessageIds(mem)) \cap 1..disk.fetch_cursor) \ knownMessageIds(disk)
  <2>1. exposed' = [exposed EXCEPT !.torn = @ \cup gone] /\ exposed \in Exposures
      BY DEF CrashAndRestart, TypeOK, HistoryTypes
  <2> HIDE DEF gone
  <2> QED
      BY <2>1 DEF Exposures
<1>3. Apart(mem)' /\ Apart(disk)' /\ FlushHolds'
    BY <1>1 DEF TellInv, Apart, FlushHolds, FlushIdle, BatchMessages, PendingMessages
<1>4. ReplayHolds'
    BY <1>1 DEF ReplayHolds, Replayed, ReplayIdle, NoItem
<1>5. Allowed' = Allowed + 1
    BY <1>1, BoundsAssumption DEF Allowed, TypeOK, FaultTypes
<1>6. ToldOut'
    BY <1>1, <1>2, <1>5, OneMoreIsAllowed DEF TellInv
<1> QED
    BY <1>3, <1>4, <1>6 DEF TellInv

LEMMA NextTell == TypeOK /\ LossInv /\ TellInv /\ [Next]_vars => TellInv'
<1>1. TellInv /\ UNCHANGED vars => TellInv'
    BY FrameTell DEF vars, storeVars, faultVars, history
<1> QED
    BY <1>1, EnvironmentTell, FetchingTell, FlushingTell, ReplayingTell, SweepingTell, StoringTell, CrashTell
       DEF Next

\* Without a crash, a failed write or a lost answer fetchPass, flush and replayPending announce no
\* letter twice, and each of these allows for one time more, but for what the full queue dropped:
\* a letter has one place, and what was told from there is remembered.
THEOREM ToldOnceButForFaults == Spec => []NoDuplicateWithoutFault
<1>1. Init => TellInv
    BY InitTell
<1>2. TypeOK /\ LossInv /\ TellInv /\ [Next]_vars => TellInv'
    BY NextTell
<1>3. TypeOK /\ TellInv => NoDuplicateWithoutFault
  <2>1. TypeOK => 1 + Allowed = 1 + crashes + faults + lost
      BY BoundsAssumption DEF Allowed, TypeOK, FaultTypes
  <2> QED
      BY <2>1 DEF TellInv, ToldOut, NoDuplicateWithoutFault
<1> QED
    BY <1>1, <1>2, <1>3, TypeCorrect, LettersAreSafe, PTL DEF Spec
=============================================================================
