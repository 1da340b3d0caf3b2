------------------------ MODULE WatcherDaemon_proofs ------------------------
(***************************************************************************)
(* Theorems about WatcherDaemon.                                           *)
(***************************************************************************)
EXTENDS WatcherDaemon, FiniteSetTheorems, TLAPS

\* Counting the rows of a page gives a number.
LEMMA PageIsFinite ==
    ASSUME NEW S \in SUBSET Letters
    PROVE  Cardinality(S) \in Nat
<1>1. IsFiniteSet(Letters)
    BY BoundsAssumption, FS_Interval DEF Letters
<1>2. IsFiniteSet(S)
    BY <1>1, FS_Subset
<1> QED
    BY <1>2, FS_CardinalityType

\* A commit changes three fields of a state and keeps it a state.
LEMMA CommitType ==
    ASSUME NEW s \in States, NEW seq \in Nat, NEW next \in Positions, NEW ids \in SUBSET Letters
    PROVE  Commit(s, seq, next, ids) \in States
BY DEF Commit, States, Positions

\* So do the other mutations of a fetch pass.
LEMMA NotedType ==
    ASSUME NEW s \in States, NEW c \in Positions
    PROVE  [s EXCEPT !.cursor_seq = @ + 1, !.fetch_cursor = c] \in States
<1>1. s.cursor_seq + 1 \in Nat
    BY DEF States
<1> QED
    BY <1>1 DEF States

LEMMA AdoptedType ==
    ASSUME NEW s \in States, NEW c \in Positions
    PROVE  [s EXCEPT !.bootstrap_pending = FALSE, !.cursor_seq = @ + 1, !.fetch_cursor = c] \in States
<1>1. s.cursor_seq + 1 \in Nat
    BY DEF States
<1> QED
    BY <1>1 DEF States

LEMMA BaselineType ==
    ASSUME NEW s \in States, NEW c \in Positions
    PROVE  [s EXCEPT !.bootstrap_pending = FALSE, !.watch_cursor = c, !.fetch_cursor = c,
                     !.cursor_seq = @ + 1, !.acked_seq = s.cursor_seq + 1] \in States
<1>1. s.cursor_seq + 1 \in Nat
    BY DEF States
<1> QED
    BY <1>1 DEF States

\* Noting letters as exposed.
LEMMA ExposureUpdates ==
    ASSUME NEW e \in Exposures, NEW S \in SUBSET Letters, NEW T \in SUBSET Letters
    PROVE  /\ [e EXCEPT !.missed = @ \cup S] \in Exposures
           /\ [e EXCEPT !.torn = @ \cup S] \in Exposures
           /\ [e EXCEPT !.late = @ \cup S] \in Exposures
           /\ [e EXCEPT !.late = @ \cup S, !.dropped = @ \cup T] \in Exposures
BY DEF Exposures

LEMMA IdleTypes == FetchIdle \in Fetches /\ FlushIdle \in Flushes
                   /\ ReplayIdle \in Replays /\ SweepIdle \in Sweeps
<1>1. 0 \in Positions /\ {} \in SUBSET Letters /\ {} \in SUBSET Items
    BY BoundsAssumption DEF Positions
<1>2. NoItem \in Items
    BY <1>1 DEF NoItem, Items
<1>3. FetchIdle \in Fetches /\ FlushIdle \in Flushes
    BY <1>1 DEF FetchIdle, FlushIdle, Fetches, Flushes, FetchPcs, FlushPcs
<1>4. ReplayIdle \in Replays
    BY <1>1, <1>2 DEF ReplayIdle, Replays, ReplayPcs
<1>5. SweepIdle \in Sweeps
    BY <1>1 DEF SweepIdle, Sweeps, SweepPcs
<1> QED
    BY <1>3, <1>4, <1>5

LEMMA InitType == Init => TypeOK
<1> SUFFICES ASSUME Init PROVE TypeOK
    OBVIOUS
<1>1. 0 \in Positions /\ {} \in SUBSET Letters /\ {} \in SUBSET Items
    BY BoundsAssumption DEF Positions
<1>2. EmptyState \in States
    BY <1>1 DEF EmptyState, States, NoBatch, Batches
<1>3. StoreTypes
    BY <1>2 DEF Init, StoreTypes, Writers
<1>4. ServerTypes /\ cursor \in Positions
    BY <1>1 DEF Init, ServerTypes, Positions
<1>5. TimerTypes /\ sawRegistration \in BOOLEAN
    BY DEF Init, TimerTypes
<1>6. FaultTypes
    BY BoundsAssumption DEF Init, FaultTypes
<1>7. HistoryTypes
    BY DEF Init, HistoryTypes, Exposures
<1>8. fetch \in Fetches /\ flush \in Flushes /\ replay \in Replays /\ sweep \in Sweeps
    BY IdleTypes DEF Init
<1> QED
    BY <1>3, <1>4, <1>5, <1>6, <1>7, <1>8 DEF Init, TypeOK

\* A group of variables that a step leaves alone keeps its types.
LEMMA FrameTypes ==
    ASSUME TypeOK
    PROVE  /\ UNCHANGED serverVars => ServerTypes'
           /\ UNCHANGED storeVars => StoreTypes'
           /\ UNCHANGED timers => TimerTypes'
           /\ UNCHANGED faultVars => FaultTypes'
           /\ UNCHANGED history => HistoryTypes'
<1>1. UNCHANGED serverVars => ServerTypes'
    BY DEF TypeOK, serverVars, ServerTypes
<1>2. UNCHANGED storeVars => StoreTypes'
    BY DEF TypeOK, storeVars, StoreTypes
<1>3. UNCHANGED timers => TimerTypes'
    BY DEF TypeOK, timers, TimerTypes
<1>4. UNCHANGED faultVars => FaultTypes'
    BY DEF TypeOK, faultVars, FaultTypes
<1>5. UNCHANGED history => HistoryTypes'
    BY DEF TypeOK, history, HistoryTypes
<1> QED
    BY <1>1, <1>2, <1>3, <1>4, <1>5

\* A mutation by a writer whose result is a state.
LEMMA MutateType ==
    ASSUME TypeOK, NEW who \in Writers, NEW s \in States, Mutate(who, s)
    PROVE  StoreTypes'
BY DEF TypeOK, StoreTypes, Mutate

LEMMA EnvironmentType == TypeOK /\ Environment => TypeOK'
<1> SUFFICES ASSUME TypeOK, Environment PROVE TypeOK'
    OBVIOUS
<1>1. CASE Arrive
  <2>1. ServerTypes'
    BY <1>1, BoundsAssumption DEF Arrive, TypeOK, ServerTypes, Positions
  <2> QED
    BY <1>1, <2>1, FrameTypes DEF Arrive, TypeOK
<1>2. ASSUME NEW m \in Letters, Close(m) PROVE TypeOK'
  <2>1. ServerTypes'
    BY <1>2 DEF Close, TypeOK, ServerTypes
  <2> QED
    BY <1>2, <2>1, FrameTypes DEF Close, TypeOK
<1>3. ASSUME NEW port \in BOOLEAN, Register(port) PROVE TypeOK'
    BY <1>3, FrameTypes DEF Register, TypeOK
<1>4. CASE HeartbeatLapses
    BY <1>4, FrameTypes DEF HeartbeatLapses, TypeOK
<1>5. CASE Prune
    BY <1>5, FrameTypes DEF Prune, TypeOK
<1> QED
    BY <1>1, <1>2, <1>3, <1>4, <1>5 DEF Environment

\* The values a fetch pass starts and ends with.
LEMMA PassTypes ==
    ASSUME TypeOK
    PROVE  /\ StartPass \in Fetches /\ EndPass \in Fetches
           /\ \A pc \in FetchPcs : PassAt(pc) \in Fetches
<1>1. StartPass \in Fetches
  <2> DEFINE since == IF cursor # 0 THEN cursor
                      ELSE IF mem.fetch_cursor # 0 THEN mem.fetch_cursor ELSE mem.watch_cursor
  <2>1. since \in Positions
      BY DEF TypeOK, StoreTypes, States
  <2>2. StartPass = [FetchIdle EXCEPT !.pc = IF since = 0 THEN "boot" ELSE "page",
                                      !.since = since, !.last = since]
      BY DEF StartPass
  <2> HIDE DEF since
  <2> QED
      BY <2>1, <2>2, IdleTypes DEF Fetches, FetchPcs
<1>2. EndPass \in Fetches
    BY <1>1, IdleTypes DEF EndPass
<1>3. \A pc \in FetchPcs : PassAt(pc) \in Fetches
    BY IdleTypes DEF PassAt, TypeOK, Fetches
<1> QED
    BY <1>1, <1>2, <1>3

LEMMA FetchingType == TypeOK /\ Fetching => TypeOK'
<1> SUFFICES ASSUME TypeOK, Fetching PROVE TypeOK'
    OBVIOUS
<1> USE DEF fetchRest
<1>1. CASE Trigger
  <2>1. fetch' \in Fetches
      BY <1>1, PassTypes DEF Trigger, TypeOK, Fetches
  <2> QED
      BY FrameTypes, <1>1, <2>1 DEF Trigger, TypeOK
<1>2. CASE FetchPage
  <2>1. PageEnd(fetch.last) \in Positions
      BY BoundsAssumption, ConfigAssumption DEF PageEnd, TypeOK, ServerTypes, Fetches, Positions
  <2>2. cursor' \in Positions
      BY <1>2, <2>1 DEF FetchPage, TypeOK
  <2>3. fetch.since + 1 .. PageEnd(fetch.last) \in SUBSET Letters
      BY <2>1, BoundsAssumption DEF TypeOK, Fetches, Positions, Letters
  <2>4. fetch' \in Fetches
    <3>1. fetch \in Fetches /\ fetch.pages + 1 \in Nat /\ "note" \in FetchPcs
        BY DEF TypeOK, Fetches, FetchPcs
    <3> DEFINE end == PageEnd(fetch.last)
               rows == fetch.since + 1 .. end
    <3>2. \/ fetch' = [fetch EXCEPT !.last = end, !.pages = fetch.pages + 1]
          \/ fetch' = [fetch EXCEPT !.pc = "note", !.since = 0, !.last = end, !.pages = 0, !.rows = rows]
          \/ fetch' = EndPass
        BY <1>2 DEF FetchPage
    <3>3. 0 \in Positions /\ 0 \in Nat
        BY BoundsAssumption DEF Positions
    <3> HIDE DEF end, rows
    <3>4. [fetch EXCEPT !.last = end, !.pages = fetch.pages + 1] \in Fetches
        BY <2>1, <3>1 DEF Fetches, end
    <3>5. [fetch EXCEPT !.pc = "note", !.since = 0, !.last = end, !.pages = 0, !.rows = rows] \in Fetches
        BY <2>1, <2>3, <3>1, <3>3 DEF Fetches, end, rows
    <3> QED
        BY <3>2, <3>4, <3>5, PassTypes
  <2> QED
      BY FrameTypes, <1>2, <2>2, <2>4 DEF FetchPage, TypeOK
<1>3. CASE FetchFails
  <2>1. HistoryTypes'
    <3>1. 1..cursor \in SUBSET Letters
        BY BoundsAssumption DEF TypeOK, Positions, Letters
    <3>2. exposed' \in Exposures
        BY <1>3, <3>1, ExposureUpdates DEF FetchFails, TypeOK, HistoryTypes
    <3> QED
        BY <1>3, <3>2 DEF FetchFails, TypeOK, HistoryTypes
  <2> QED
      BY FrameTypes, <1>3, <2>1, IdleTypes DEF FetchFails, TypeOK
<1>4. CASE NoteFetchCursor
  <2>0. mem \in States /\ fetch.last \in Positions /\ mem.cursor_seq + 1 \in Nat
      BY DEF TypeOK, StoreTypes, Fetches, States
  <2>1. [mem EXCEPT !.cursor_seq = @ + 1, !.fetch_cursor = fetch.last] \in States
      BY <2>0, NotedType
  <2>2. StoreTypes'
      BY <1>4, <2>1, MutateType DEF NoteFetchCursor, Writers
  <2>3. fetch' \in Fetches
      BY <1>4, <2>0 DEF NoteFetchCursor, TypeOK, Fetches, FetchPcs
  <2> QED
      BY FrameTypes, <1>4, <2>2, <2>3 DEF NoteFetchCursor, TypeOK
<1>5. CASE ReadMute
  <2>1. fetch' \in Fetches
      BY <1>5 DEF ReadMute, TypeOK, Fetches, FetchPcs
  <2> QED
      BY FrameTypes, <1>5, <2>1 DEF ReadMute, TypeOK
<1>6. CASE TrackSilently
  <2>1. 0 \in Positions
      BY BoundsAssumption DEF Positions
  <2>2. fetch.seq \in Nat /\ fetch.rows \in SUBSET Letters /\ mem \in States
      BY DEF TypeOK, StoreTypes, Fetches
  <2>3. Commit(mem, fetch.seq, 0, fetch.rows) \in States
      BY <2>1, <2>2, CommitType
  <2>4. StoreTypes'
      BY <1>6, <2>3, MutateType DEF TrackSilently, Writers
  <2>5. HistoryTypes'
      BY <1>6, <2>2 DEF TrackSilently, TypeOK, HistoryTypes
  <2>6. fetch' \in Fetches
      BY <1>6, PassTypes DEF TrackSilently, FetchPcs
  <2> QED
      BY FrameTypes, <1>6, <2>4, <2>5, <2>6 DEF TrackSilently, TypeOK
<1>7. CASE Enqueue
  <2> DEFINE fresh == fetch.rows \ knownMessageIds(mem)
             grown == [messages |-> BatchMessages(mem) \cup fresh,
                       next_cursor |-> fetch.last, cursor_seq |-> fetch.seq]
             result == IF fresh = {} THEN mem ELSE [mem EXCEPT !.batch = grown]
  <2>1. Mutate("fetch", result) /\ fetch' = PassAt(IF fresh = {} THEN "done" ELSE "schedule")
      BY <1>7 DEF Enqueue
  <2>2. grown \in Batches
      BY DEF TypeOK, StoreTypes, Fetches, Batches, States, BatchMessages
  <2>3. result \in States
      BY <2>2 DEF TypeOK, StoreTypes, States
  <2>4. StoreTypes'
      BY <2>1, <2>3, MutateType DEF Writers
  <2>5. fetch' \in Fetches
      BY <2>1, PassTypes DEF FetchPcs
  <2> QED
      BY FrameTypes, <1>7, <2>4, <2>5 DEF Enqueue, TypeOK
<1>8. CASE FetchEnds
  <2>1. TimerTypes'
      BY <1>8 DEF FetchEnds, TypeOK, TimerTypes
  <2>2. fetch' \in Fetches
      BY <1>8, PassTypes DEF FetchEnds
  <2> QED
      BY FrameTypes, <1>8, <2>1, <2>2 DEF FetchEnds, TypeOK
<1>9. CASE BootPage
  <2>1. mail \in Positions /\ 1..mail \in SUBSET Letters
      BY BoundsAssumption DEF TypeOK, ServerTypes, Positions, Letters
  <2>2. cursor' \in Positions
      BY <1>9, <2>1 DEF BootPage, TypeOK
  <2>3. \A S \in SUBSET (1..mail) : S \in SUBSET Letters /\ Cardinality(S) \in Nat
      BY <2>1, PageIsFinite
  <2>4. {m \in 1..mail : m > mail - PageLimit} \in SUBSET (1..mail)
      OBVIOUS
  <2>5. fetch' \in Fetches
    <3> DEFINE rows == {m \in 1..mail : m > mail - PageLimit}
    <3>1. fetch \in Fetches /\ {"mark", "baseline", "older", "adopt"} \subseteq FetchPcs
        BY DEF TypeOK, FetchPcs
    <3>2. rows \in SUBSET Letters /\ Cardinality(rows) \in Nat /\ mail \in Nat
        BY <2>1, <2>3, <2>4 DEF Positions
    <3>3. CASE mail = 0
        BY <1>9, <3>1, <3>3, PassTypes DEF BootPage, Fetches
    <3>4. CASE mail > 0 /\ ~mem.bootstrap_pending
      <4>1. fetch' = [fetch EXCEPT !.pc = "baseline", !.last = mail, !.rows = 1..mail]
          BY <1>9, <3>4 DEF BootPage
      <4> QED
          BY <2>1, <3>1, <4>1 DEF Fetches
    <3>5. CASE mail > 0 /\ mem.bootstrap_pending
      <4>1. fetch' = [fetch EXCEPT !.pc = IF Cardinality(rows) < mail THEN "older" ELSE "adopt",
                        !.last = mail, !.total = mail, !.rows = rows, !.count = Cardinality(rows)]
          BY <1>9, <3>5 DEF BootPage
      <4> HIDE DEF rows
      <4> QED
          BY <2>1, <3>1, <3>2, <4>1 DEF Fetches
    <3> QED
        BY <3>3, <3>4, <3>5, <3>2
  <2> QED
      BY FrameTypes, <1>9, <2>2, <2>5 DEF BootPage, TypeOK
<1>10. CASE OlderPage
  <2> DEFINE rows  == {m \in 1..mail : m <= mail - fetch.count /\ m > mail - fetch.count - PageLimit}
             count == fetch.count + Cardinality(rows)
             more  == rows # {} /\ count < fetch.total /\ fetch.pages + 1 < MaxPages
  <2>1. fetch' = [fetch EXCEPT !.pc = IF more THEN "older" ELSE "adopt", !.rows = @ \cup rows,
                               !.count = count, !.pages = IF more THEN @ + 1 ELSE 0]
      BY <1>10 DEF OlderPage
  <2>2. rows \in SUBSET Letters
      BY BoundsAssumption DEF TypeOK, ServerTypes, Positions, Letters
  <2>3. count \in Nat /\ (IF more THEN fetch.pages + 1 ELSE 0) \in Nat
      BY <2>2, PageIsFinite DEF TypeOK, Fetches
  <2>4. (IF more THEN "older" ELSE "adopt") \in FetchPcs /\ fetch \in Fetches
      BY DEF FetchPcs, TypeOK
  <2> HIDE DEF rows, count, more
  <2>5. fetch' \in Fetches
      BY <2>1, <2>2, <2>3, <2>4 DEF Fetches
  <2> QED
      BY FrameTypes, <1>10, <2>5 DEF OlderPage, TypeOK
<1>11. CASE Adopt
  <2>0. mem \in States /\ fetch.last \in Positions /\ mem.cursor_seq + 1 \in Nat
      BY DEF TypeOK, StoreTypes, Fetches, States
  <2>1. [mem EXCEPT !.bootstrap_pending = FALSE, !.cursor_seq = @ + 1,
                    !.fetch_cursor = fetch.last] \in States
      BY <2>0, AdoptedType
  <2>2. StoreTypes'
      BY <1>11, <2>1, MutateType DEF Adopt, Writers
  <2>3. fetch' \in Fetches
      BY <1>11, <2>0 DEF Adopt, TypeOK, Fetches, FetchPcs
  <2>4. HistoryTypes'
    <3>1. (1..fetch.last) \ fetch.rows \in SUBSET Letters
        BY <2>0, BoundsAssumption DEF Positions, Letters
    <3>2. exposed' \in Exposures
        BY <1>11, <3>1, ExposureUpdates DEF Adopt, TypeOK, HistoryTypes
    <3> QED
        BY <1>11, <3>2 DEF Adopt, TypeOK, HistoryTypes
  <2> QED
      BY FrameTypes, <1>11, <2>2, <2>3, <2>4 DEF Adopt, TypeOK
<1>12. CASE MarkEmpty
  <2>1. [mem EXCEPT !.bootstrap_pending = TRUE] \in States
      BY DEF TypeOK, StoreTypes, States
  <2>2. StoreTypes'
      BY <1>12, <2>1, MutateType DEF MarkEmpty, Writers
  <2>3. fetch' \in Fetches
      BY <1>12, PassTypes DEF MarkEmpty, FetchPcs
  <2> QED
      BY FrameTypes, <1>12, <2>2, <2>3 DEF MarkEmpty, TypeOK
<1>13. CASE Baseline
  <2>0. mem \in States /\ fetch.last \in Positions /\ mem.cursor_seq + 1 \in Nat
      BY DEF TypeOK, StoreTypes, Fetches, States
  <2>1. [mem EXCEPT !.bootstrap_pending = FALSE, !.watch_cursor = fetch.last,
                    !.fetch_cursor = fetch.last, !.cursor_seq = @ + 1,
                    !.acked_seq = mem.cursor_seq + 1] \in States
      BY <2>0, BaselineType
  <2>2. StoreTypes'
      BY <1>13, <2>1, MutateType DEF Baseline, Writers
  <2>3. fetch' \in Fetches
      BY <1>13, PassTypes DEF Baseline, FetchPcs
  <2>4. HistoryTypes'
      BY <1>13 DEF Baseline, TypeOK, HistoryTypes, Fetches
  <2> QED
      BY FrameTypes, <1>13, <2>2, <2>3, <2>4 DEF Baseline, TypeOK
<1> QED
    BY <1>1, <1>2, <1>3, <1>4, <1>5, <1>6, <1>7, <1>8, <1>9, <1>10, <1>11, <1>12, <1>13 DEF Fetching

LEMMA FlushingType == TypeOK /\ Flushing => TypeOK'
<1> SUFFICES ASSUME TypeOK, Flushing PROVE TypeOK'
    OBVIOUS
<1> USE DEF flushRest
<1>a. mem \in States /\ mem.batch \in Batches /\ BatchMessages(mem) \in SUBSET Letters
    BY DEF TypeOK, StoreTypes, States, Batches, BatchMessages
<1>b. flush \in Flushes /\ FlushIdle \in Flushes /\ FlushIdle.cursor_seq = 0
    BY IdleTypes DEF TypeOK, FlushIdle
<1>c. mem.batch.next_cursor \in Positions /\ mem.batch.cursor_seq \in Nat
    BY <1>a DEF Batches
<1>d. BeginFlush => flush' \in Flushes
    BY <1>b DEF BeginFlush, Flushes, FlushPcs
<1>1. CASE FlushTimerFires
  <2>1. TimerTypes'
      BY <1>1 DEF FlushTimerFires, TypeOK, TimerTypes
  <2> QED
      BY FrameTypes, <1>1, <1>d, <2>1 DEF FlushTimerFires, TypeOK
<1>2. CASE RetryTimerFires
  <2>1. TimerTypes'
      BY <1>2 DEF RetryTimerFires, TypeOK, TimerTypes
  <2> QED
      BY FrameTypes, <1>2, <1>d, <2>1 DEF RetryTimerFires, TypeOK
<1>3. CASE ReconcileRead
  <2>1. 1..mail \ closed \in SUBSET Letters
      BY BoundsAssumption DEF TypeOK, ServerTypes, Positions, Letters
  <2>2. flush' \in Flushes
      BY <1>3, <1>b, <2>1 DEF ReconcileRead, Flushes, FlushPcs
  <2> QED
      BY FrameTypes, <1>3, <2>2 DEF ReconcileRead, TypeOK
<1>4. CASE Filter
  <2>1. PICK body \in {BatchMessages(mem) \cap flush.live}
                      \cup {BatchMessages(mem) \ done : done \in SUBSET closed} :
          flush' = [flush EXCEPT
                      !.pc = IF body = {} THEN "ack" ELSE IF HasTarget THEN "post" ELSE "park",
                      !.live = {}, !.body = body,
                      !.ids  = IF body = {} THEN BatchMessages(mem) ELSE {},
                      !.next_cursor = IF body = {} \/ ~HasTarget THEN mem.batch.next_cursor ELSE 0,
                      !.cursor_seq = IF body = {} \/ ~HasTarget THEN mem.batch.cursor_seq ELSE 0]
      BY <1>4 DEF Filter
  <2>2. body \in SUBSET Letters
      BY <1>a, <2>1
  <2>3. (IF body = {} \/ ~HasTarget THEN mem.batch.next_cursor ELSE 0) \in Positions
      BY <1>c, BoundsAssumption DEF Positions
  <2>4. (IF body = {} \/ ~HasTarget THEN mem.batch.cursor_seq ELSE 0) \in Nat
      BY <1>c
  <2>5. (IF body = {} THEN "ack" ELSE IF HasTarget THEN "post" ELSE "park") \in FlushPcs
      BY DEF FlushPcs
  <2>6. flush' \in Flushes
      BY <1>a, <1>b, <2>1, <2>2, <2>3, <2>4, <2>5 DEF Flushes
  <2> QED
      BY FrameTypes, <1>4, <2>6 DEF Filter, TypeOK
<1>5. CASE Delivered
  <2>1. HistoryTypes'
      BY <1>5 DEF Delivered, Announce, TypeOK, HistoryTypes
  <2>2. flush' \in Flushes
      BY <1>5, <1>a, <1>b, <1>c DEF Delivered, Flushes, FlushPcs
  <2> QED
      BY FrameTypes, <1>5, <2>1, <2>2 DEF Delivered, TypeOK
<1>6. CASE Refused
  <2>1. flush' \in Flushes
      BY <1>6, <1>b, <1>c DEF Refused, Flushes, FlushPcs
  <2> QED
      BY FrameTypes, <1>6, <2>1 DEF Refused, TypeOK
<1>7. ASSUME NEW taken \in BOOLEAN, DeliverFails(taken) PROVE TypeOK'
  <2>1. HistoryTypes'
      BY <1>7 DEF DeliverFails, Announce, TypeOK, HistoryTypes
  <2>2. FaultTypes'
      BY <1>7, BoundsAssumption DEF DeliverFails, TypeOK, FaultTypes
  <2>3. TimerTypes'
      BY <1>7 DEF DeliverFails, TypeOK, TimerTypes
  <2> QED
      BY FrameTypes, IdleTypes, <1>7, <2>1, <2>2, <2>3 DEF DeliverFails, TypeOK
<1>8. CASE AckBatch
  <2>1. Commit(mem, flush.cursor_seq, flush.next_cursor, flush.ids) \in States
      BY <1>a, <1>b, CommitType DEF Flushes
  <2>2. StoreTypes'
      BY <1>8, <2>1, MutateType DEF AckBatch, Writers
  <2>3. flush' \in Flushes
      BY <1>8, <1>b DEF AckBatch, Flushes, FlushPcs
  <2> QED
      BY FrameTypes, <1>8, <2>2, <2>3 DEF AckBatch, TypeOK
<1>e. NoBatch \in Batches
    BY BoundsAssumption DEF NoBatch, Batches, Positions
<1>f. LateMail \in SUBSET Letters
    BY <1>a DEF LateMail
<1>9. CASE ClearBatch
  <2>1. [mem EXCEPT !.batch = NoBatch] \in States
      BY <1>a, <1>e DEF States
  <2>2. StoreTypes'
      BY <1>9, <2>1, MutateType DEF ClearBatch, Writers
  <2>3. flush' \in Flushes
      BY <1>9, <1>b DEF ClearBatch, Flushes, FlushPcs
  <2>4. exposed' \in Exposures
      BY <1>9, <1>f, ExposureUpdates DEF ClearBatch, TypeOK, HistoryTypes
  <2> QED
      BY FrameTypes, <1>9, <2>2, <2>3, <2>4 DEF ClearBatch, TypeOK, HistoryTypes
<1>10. CASE ToPending
  <2> DEFINE item == [cursor_seq |-> flush.cursor_seq, next_cursor |-> flush.next_cursor,
                      messages |-> flush.body, resting |-> FALSE]
             dropped == IF Cardinality(mem.pending) >= PendingCap THEN Oldest(mem.pending) ELSE {}
             kept == (mem.pending \ dropped) \cup {item}
             lost1 == UNION {i.messages : i \in dropped}
  <2>1. /\ Mutate("flush", [mem EXCEPT !.batch = NoBatch, !.pending = kept])
        /\ exposed' = [exposed EXCEPT !.late = @ \cup LateMail, !.dropped = @ \cup lost1]
      BY <1>10, <1>a DEF ToPending, States
  <2>2. item \in Items
      BY <1>b DEF Items, Flushes
  <2>3. mem.pending \in SUBSET Items
      BY <1>a DEF States
  <2>4. dropped \in SUBSET mem.pending
      BY DEF Oldest
  <2>5. lost1 \in SUBSET Letters
      BY <2>3, <2>4 DEF Items
  <2>6. kept \in SUBSET Items
      BY <2>2, <2>3
  <2> HIDE DEF kept, lost1
  <2>7. [mem EXCEPT !.batch = NoBatch, !.pending = kept] \in States
      BY <1>a, <1>e, <2>6 DEF States
  <2>8. StoreTypes'
      BY <2>1, <2>7, MutateType DEF Writers
  <2>9. exposed' \in Exposures
      BY <2>1, <2>5, <1>f, ExposureUpdates DEF TypeOK, HistoryTypes
  <2>10. flush' \in Flushes
      BY <1>10, <1>b DEF ToPending, Flushes, FlushPcs
  <2> QED
      BY FrameTypes, <1>10, <2>8, <2>9, <2>10 DEF ToPending, TypeOK, HistoryTypes
<1>11. CASE FlushSettles
  <2>1. TimerTypes'
      BY <1>11 DEF FlushSettles, TypeOK, TimerTypes
  <2> QED
      BY FrameTypes, IdleTypes, <1>11, <2>1 DEF FlushSettles, TypeOK
<1> QED
    BY <1>1, <1>2, <1>3, <1>4, <1>5, <1>6, <1>7, <1>8, <1>9, <1>10, <1>11 DEF Flushing

LEMMA ReplayingType == TypeOK /\ Replaying => TypeOK'
<1> SUFFICES ASSUME TypeOK, Replaying PROVE TypeOK'
    OBVIOUS
<1> USE DEF replayRest
<1>a. mem \in States /\ mem.pending \in SUBSET Items
    BY DEF TypeOK, StoreTypes, States
<1>b. replay \in Replays /\ ReplayIdle \in Replays /\ NoItem \in Items
    BY IdleTypes DEF TypeOK, ReplayIdle, Replays
<1>c. replay.item \in Items /\ replay.due \in SUBSET Items
    BY <1>b DEF Replays
<1>1. CASE ReplayStart
  <2>1. PICK elapsed : replay' = [ReplayIdle EXCEPT !.pc = "pick",
                          !.due = {i \in mem.pending : i.resting => i \in elapsed}]
      BY <1>1 DEF ReplayStart
  <2>2. {i \in mem.pending : i.resting => i \in elapsed} \in SUBSET Items
      BY <1>a
  <2>3. replay' \in Replays
      BY <1>b, <2>1, <2>2 DEF Replays, ReplayPcs
  <2> QED
      BY FrameTypes, <1>1, <2>3 DEF ReplayStart, TypeOK
<1>2. CASE ReplayPick
  <2>1. PICK item \in Oldest(replay.due) :
          replay' = [pc |-> "post", due |-> replay.due \ {item}, item |-> item]
      BY <1>2 DEF ReplayPick
  <2>2. item \in Items /\ replay.due \ {item} \in SUBSET Items
      BY <1>c, <2>1 DEF Oldest
  <2>3. replay' \in Replays
      BY <2>1, <2>2 DEF Replays, ReplayPcs
  <2> QED
      BY FrameTypes, <1>2, <2>3 DEF ReplayPick, TypeOK
<1>3. CASE ReplayEnds
    BY FrameTypes, <1>3, <1>b DEF ReplayEnds, TypeOK
<1>4. CASE Redelivered
  <2>1. HistoryTypes'
      BY <1>4 DEF Redelivered, Announce, TypeOK, HistoryTypes
  <2>2. replay' \in Replays
      BY <1>4, <1>b DEF Redelivered, Replays, ReplayPcs
  <2> QED
      BY FrameTypes, <1>4, <2>1, <2>2 DEF Redelivered, TypeOK
<1>5. ASSUME NEW taken \in BOOLEAN, RedeliveryFails(taken) PROVE TypeOK'
  <2>1. HistoryTypes'
      BY <1>5 DEF RedeliveryFails, Announce, TypeOK, HistoryTypes
  <2>2. FaultTypes'
      BY <1>5, BoundsAssumption DEF RedeliveryFails, TypeOK, FaultTypes
  <2>3. replay' \in Replays
      BY <1>5, <1>b DEF RedeliveryFails, Replays, ReplayPcs
  <2> QED
      BY FrameTypes, <1>5, <2>1, <2>2, <2>3 DEF RedeliveryFails, TypeOK
<1>6. CASE ReplayCommit
  <2> DEFINE kept == {i \in mem.pending : ~SameItem(i, replay.item)}
             acked == Commit(mem, replay.item.cursor_seq, replay.item.next_cursor, replay.item.messages)
  <2>1. Mutate("replay", [acked EXCEPT !.pending = kept])
      BY <1>6 DEF ReplayCommit
  <2>2. acked \in States
      BY <1>a, <1>c, CommitType DEF Items
  <2>3. kept \in SUBSET Items
      BY <1>a
  <2> HIDE DEF acked, kept
  <2>4. [acked EXCEPT !.pending = kept] \in States
      BY <2>2, <2>3 DEF States
  <2>5. StoreTypes'
      BY <2>1, <2>4, MutateType DEF Writers
  <2>6. replay' \in Replays
      BY <1>6, <1>b DEF ReplayCommit, Replays, ReplayPcs
  <2> QED
      BY FrameTypes, <1>6, <2>5, <2>6 DEF ReplayCommit, TypeOK
<1>7. CASE ReplayRest
  <2> DEFINE marked == {IF SameItem(i, replay.item) THEN [i EXCEPT !.resting = TRUE] ELSE i : i \in mem.pending}
  <2>1. Mutate("replay", [mem EXCEPT !.pending = marked])
      BY <1>7, <1>a DEF ReplayRest, States
  <2>2. \A i \in Items : [i EXCEPT !.resting = TRUE] \in Items
      BY DEF Items
  <2>3. marked \in SUBSET Items
      BY <1>a, <2>2
  <2> HIDE DEF marked
  <2>4. [mem EXCEPT !.pending = marked] \in States
      BY <1>a, <2>3 DEF States
  <2>5. StoreTypes'
      BY <2>1, <2>4, MutateType DEF Writers
  <2>6. replay' \in Replays
      BY <1>7, <1>b DEF ReplayRest, Replays, ReplayPcs
  <2> QED
      BY FrameTypes, <1>7, <2>5, <2>6 DEF ReplayRest, TypeOK
<1> QED
    BY <1>1, <1>2, <1>3, <1>4, <1>5, <1>6, <1>7 DEF Replaying

LEMMA SweepingType == TypeOK /\ Sweeping => TypeOK'
<1> SUFFICES ASSUME TypeOK, Sweeping PROVE TypeOK'
    OBVIOUS
<1> USE DEF sweepRest
<1>a. mem \in States /\ mem.pending \in SUBSET Items
    BY DEF TypeOK, StoreTypes, States
<1>b. sweep \in Sweeps /\ SweepIdle \in Sweeps
    BY IdleTypes DEF TypeOK
<1>1. CASE SweepSelect
  <2>1. sawRegistration' \in BOOLEAN
      BY <1>1 DEF SweepSelect, TypeOK
  <2>2. sweep' \in Sweeps
      BY <1>1, <1>a, <1>b DEF SweepSelect, Sweeps, SweepPcs
  <2> QED
      BY FrameTypes, <1>1, <2>1, <2>2 DEF SweepSelect, TypeOK
<1>2. CASE SweepArchive
  <2> DEFINE ids  == UNION {i.messages : i \in sweep.archive}
             kept == {i \in mem.pending : \A j \in sweep.archive : ~SameItem(i, j)}
  <2>1. PICK newest \in sweep.archive :
          Mutate("sweep", [Commit(mem, newest.cursor_seq, newest.next_cursor, ids)
                             EXCEPT !.pending = kept])
      BY <1>2 DEF SweepArchive
  <2>2. newest \in Items /\ sweep.archive \in SUBSET Items
      BY <1>b, <2>1 DEF Sweeps
  <2>3. ids \in SUBSET Letters
      BY <2>2 DEF Items
  <2>4. kept \in SUBSET Items
      BY <1>a
  <2> HIDE DEF ids, kept
  <2>5. Commit(mem, newest.cursor_seq, newest.next_cursor, ids) \in States
      BY <1>a, <2>2, <2>3, CommitType DEF Items
  <2>6. [Commit(mem, newest.cursor_seq, newest.next_cursor, ids) EXCEPT !.pending = kept] \in States
      BY <2>4, <2>5 DEF States
  <2>7. StoreTypes'
      BY <2>1, <2>6, MutateType DEF Writers
  <2>8. sweep' \in Sweeps
      BY <1>2, <1>b DEF SweepArchive, Sweeps, SweepPcs
  <2>9. HistoryTypes'
      BY <1>2, <2>3 DEF SweepArchive, TypeOK, HistoryTypes, ids
  <2> QED
      BY FrameTypes, <1>2, <2>7, <2>8, <2>9 DEF SweepArchive, TypeOK
<1>3. CASE SweepEnds
    BY FrameTypes, <1>3, <1>b DEF SweepEnds, TypeOK
<1> QED
    BY <1>1, <1>2, <1>3 DEF Sweeping

LEMMA StoringType == TypeOK /\ Storing => TypeOK'
<1> SUFFICES ASSUME TypeOK, Storing PROVE TypeOK'
    OBVIOUS
<1> USE DEF processes
<1>a. mem \in States
    BY DEF TypeOK, StoreTypes
<1>1. ASSUME NEW paused \in BOOLEAN, SetMute(paused) PROVE TypeOK'
  <2>1. [mem EXCEPT !.notify_paused = paused] \in States
      BY <1>a DEF States
  <2>2. StoreTypes'
      BY <1>1, <2>1, MutateType DEF SetMute, Writers
  <2>3. FaultTypes'
      BY <1>1, BoundsAssumption DEF SetMute, TypeOK, FaultTypes
  <2> QED
      BY FrameTypes, <1>1, <2>2, <2>3 DEF SetMute, TypeOK
<1>2. CASE Rewrite
  <2>1. StoreTypes'
      BY <1>2, <1>a, MutateType DEF Rewrite, Writers
  <2> QED
      BY FrameTypes, <1>2, <2>1 DEF Rewrite, TypeOK
<1>3. CASE Persisted
  <2>1. StoreTypes'
      BY <1>3 DEF Persisted, TypeOK, StoreTypes
  <2> QED
      BY FrameTypes, <1>3, <2>1 DEF Persisted, TypeOK
<1>4. CASE WriteFails
  <2>1. StoreTypes'
      BY <1>4 DEF WriteFails, TypeOK, StoreTypes
  <2>2. FaultTypes'
      BY <1>4, BoundsAssumption DEF WriteFails, TypeOK, FaultTypes
  <2>3. TimerTypes'
      BY <1>4 DEF WriteFails, TypeOK, TimerTypes
  <2>4. fetch' \in Fetches
      BY <1>4, IdleTypes DEF WriteFails, TypeOK
  <2>5. flush' \in Flushes
      BY <1>4, IdleTypes DEF WriteFails, TypeOK, Flushes, FlushPcs
  <2>6. replay' \in Replays
      BY <1>4, IdleTypes DEF WriteFails, TypeOK, Replays, ReplayPcs
  <2>7. fetch.rows \in SUBSET Letters
      BY DEF TypeOK, Fetches
  <2>8. HistoryTypes'
      BY <1>4, <2>7, ExposureUpdates DEF WriteFails, TypeOK, HistoryTypes
  <2> QED
      BY FrameTypes, <1>4, <2>1, <2>2, <2>3, <2>4, <2>5, <2>6, <2>8 DEF WriteFails, TypeOK
<1> QED
    BY <1>1, <1>2, <1>3, <1>4 DEF Storing

LEMMA CrashType == TypeOK /\ CrashAndRestart => TypeOK'
<1> SUFFICES ASSUME TypeOK, CrashAndRestart PROVE TypeOK'
    OBVIOUS
<1> USE DEF CrashAndRestart
<1>1. StoreTypes' /\ TimerTypes'
    BY DEF TypeOK, StoreTypes, TimerTypes
<1>2. cursor' \in Positions
    BY DEF TypeOK, StoreTypes, States
<1>3. FaultTypes'
    BY BoundsAssumption DEF TypeOK, FaultTypes
<1>4. ((fetch.rows \cup knownMessageIds(mem)) \cap 1..disk.fetch_cursor) \ knownMessageIds(disk) \in SUBSET Letters
    BY BoundsAssumption DEF TypeOK, StoreTypes, States, Positions, Letters
<1>5. HistoryTypes'
    BY <1>4, ExposureUpdates DEF TypeOK, HistoryTypes
<1> QED
    BY FrameTypes, IdleTypes, <1>1, <1>2, <1>3, <1>5 DEF TypeOK

LEMMA StutterType == TypeOK /\ UNCHANGED vars => TypeOK'
BY FrameTypes DEF vars, TypeOK

\* The daemon's variables keep their types: mem and disk are well-formed
\* states whatever is interrupted, and no cursor leaves the server's positions.
THEOREM TypeCorrect == Spec => []TypeOK
<1>1. TypeOK /\ [Next]_vars => TypeOK'
    BY EnvironmentType, FetchingType, FlushingType, ReplayingType, SweepingType, StoringType,
       CrashType, StutterType DEF Next
<1> QED
    BY InitType, <1>1, PTL DEF Spec
=============================================================================
