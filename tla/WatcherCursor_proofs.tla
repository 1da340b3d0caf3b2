------------------------ MODULE WatcherCursor_proofs ------------------------
(***************************************************************************)
(* The order of the daemon's cursors: IInv is an inductive invariant of    *)
(* WatcherDaemon, and the properties that follow from it.                  *)
(***************************************************************************)
EXTENDS WatcherDaemon_proofs

\* Every marker the daemon holds in memory.
Carried == Markers(mem) \cup InFlight

LEMMA PositionIsNat == Positions \in SUBSET Nat
BY BoundsAssumption DEF Positions

LEMMA MarkersType ==
    ASSUME NEW s \in States
    PROVE  Markers(s) \in SUBSET (Nat \X Nat)
<1>1. \A i \in s.pending : Marker(i) \in Nat \X Nat
    BY PositionIsNat DEF States, Items, Marker
<1>2. Marker(s.batch) \in Nat \X Nat
    BY PositionIsNat DEF States, Batches, Marker
<1>3. <<s.acked_seq, s.watch_cursor>> \in Nat \X Nat /\ <<s.cursor_seq, s.fetch_cursor>> \in Nat \X Nat
    BY PositionIsNat DEF States
<1> QED
    BY <1>1, <1>2, <1>3 DEF Markers

LEMMA CarriedType ==
    ASSUME TypeOK
    PROVE  Carried \in SUBSET (Nat \X Nat) /\ mem.cursor_seq \in Nat /\ disk.cursor_seq \in Nat
<1>1. Markers(mem) \in SUBSET (Nat \X Nat)
    BY MarkersType DEF TypeOK, StoreTypes
<1>2. Marker(flush) \in Nat \X Nat
    BY PositionIsNat DEF TypeOK, Flushes, Marker
<1>3. \A i \in Items : Marker(i) \in Nat \X Nat
    BY PositionIsNat DEF Items, Marker
<1>4. InFlight \in SUBSET (Nat \X Nat)
    BY <1>2, <1>3 DEF TypeOK, Replays, Sweeps, InFlight
<1>5. mem.cursor_seq \in Nat /\ disk.cursor_seq \in Nat
    BY DEF TypeOK, StoreTypes, States
<1> QED
    BY <1>1, <1>4, <1>5 DEF Carried

\* Fewer markers stay aligned.
LEMMA AlignedShrink ==
    ASSUME NEW H, NEW G \in SUBSET H, NEW top, Aligned(H, top)
    PROVE  Aligned(G, top)
BY DEF Aligned

\* A marker with a new sequence and the newest cursor can be added.
LEMMA AlignedGrow ==
    ASSUME NEW H \in SUBSET (Nat \X Nat), NEW top \in Nat, NEW c \in Nat,
           Aligned(H, top), c # 0, \A p \in H : p[2] <= c
    PROVE  Aligned(H \cup {<<top + 1, c>>}, top + 1)
<1> DEFINE G == H \cup {<<top + 1, c>>}
<1>1. \A p \in H : p[1] \in Nat /\ p[2] \in Nat /\ p[1] <= top
    BY DEF Aligned
<1>2. \A p, q \in G : p[1] <= q[1] => p[2] <= q[2]
    BY <1>1 DEF Aligned
<1>3. \A p \in G : p[1] <= top + 1 /\ (p[1] = 0 <=> p[2] = 0)
    BY <1>1 DEF Aligned
<1> QED
    BY <1>2, <1>3 DEF Aligned

\* No marker in memory stands for more than what has been fetched.
LEMMA CarriedBelow ==
    ASSUME IInv
    PROVE  \A p \in Carried : p[2] <= mem.fetch_cursor
<1>1. <<mem.cursor_seq, mem.fetch_cursor>> \in Carried
    BY DEF Carried, Markers
<1> QED
    BY <1>1 DEF IInv, MarkersAligned, Aligned, Carried

LEMMA InitOrder == Init => IInv
<1> SUFFICES ASSUME Init PROVE IInv
    OBVIOUS
<1>1. TypeOK
    BY InitType
<1>2. Markers(mem) = {<<0, 0>>} /\ Markers(disk) = {<<0, 0>>}
    BY DEF Init, EmptyState, NoBatch, Markers, Marker
<1>3. InFlight = {<<0, 0>>}
    BY DEF Init, InFlight, Marker, FlushIdle, ReplayIdle, NoItem, SweepIdle
<1>4. mem.cursor_seq = 0 /\ disk.cursor_seq = 0
    BY DEF Init, EmptyState
<1>5. MarkersAligned
    BY <1>2, <1>3, <1>4 DEF MarkersAligned, Aligned
<1>6. mail \in Nat
    BY <1>1, PositionIsNat DEF TypeOK, ServerTypes
<1>7. DiskBehindMemory
    BY <1>6 DEF Init, EmptyState, DiskBehindMemory
<1>8. Queued(mem) /\ Queued(disk)
    BY DEF Init, EmptyState, Queued
<1>9. FetchInOrder
    BY <1>6 DEF Init, EmptyState, FetchIdle, FetchInOrder
<1>10. FlushInOrder /\ QueueReaders
    BY DEF Init, FlushIdle, ReplayIdle, SweepIdle, FlushInOrder, QueueReaders
<1> QED
    BY <1>1, <1>5, <1>7, <1>8, <1>9, <1>10 DEF IInv

\* What a step leaves alone keeps its part of the invariant.
LEMMA FrameOrder ==
    ASSUME IInv
    PROVE  /\ UNCHANGED <<mem, disk, flush, replay, sweep>> => MarkersAligned'
           /\ UNCHANGED <<mem, disk, mail>> => DiskBehindMemory'
           /\ UNCHANGED mem => Queued(mem)'
           /\ UNCHANGED disk => Queued(disk)'
           /\ UNCHANGED <<mem, cursor, mail, fetch>> => FetchInOrder'
           /\ UNCHANGED <<mem, flush>> => FlushInOrder'
           /\ UNCHANGED <<replay, sweep>> => QueueReaders'
<1>1. UNCHANGED <<mem, disk, flush, replay, sweep>> => MarkersAligned'
    BY DEF IInv, MarkersAligned, InFlight
<1>2. UNCHANGED <<mem, disk, mail>> => DiskBehindMemory'
    BY DEF IInv, DiskBehindMemory
<1>3. (UNCHANGED mem => Queued(mem)') /\ (UNCHANGED disk => Queued(disk)')
    BY DEF IInv
<1>4. UNCHANGED <<mem, cursor, mail, fetch>> => FetchInOrder'
    BY DEF IInv, FetchInOrder
<1>5. UNCHANGED <<mem, flush>> => FlushInOrder'
    BY DEF IInv, FlushInOrder
<1>6. UNCHANGED <<replay, sweep>> => QueueReaders'
    BY DEF IInv, QueueReaders
<1> QED
    BY <1>1, <1>2, <1>3, <1>4, <1>5, <1>6

LEMMA EnvironmentOrder == IInv /\ Environment => IInv'
<1> SUFFICES ASSUME IInv, Environment PROVE IInv'
    OBVIOUS
<1>1. TypeOK'
    BY EnvironmentType DEF IInv
<1>2. UNCHANGED <<storeVars, cursor, fetch, flush, replay, sweep>> /\ mail' \in {mail, mail + 1}
    BY DEF Environment, Arrive, Close, Register, HeartbeatLapses, Prune, serverVars, storeVars
<1>3. mail \in Nat /\ cursor \in Nat /\ disk.fetch_cursor \in Nat /\ fetch.last \in Nat
    BY PositionIsNat DEF IInv, TypeOK, ServerTypes, StoreTypes, States, Fetches
<1>4. DiskBehindMemory'
    BY <1>2, <1>3 DEF IInv, DiskBehindMemory, storeVars
<1>5. FetchInOrder'
    BY <1>2, <1>3 DEF IInv, FetchInOrder, storeVars
<1> QED
    BY <1>1, <1>2, <1>4, <1>5, FrameOrder DEF IInv, storeVars

\* Numbers that the steps compare.
LEMMA Numbers ==
    ASSUME TypeOK
    PROVE  /\ mail \in Nat /\ cursor \in Nat
           /\ fetch.last \in Nat /\ fetch.since \in Nat /\ fetch.seq \in Nat
           /\ mem \in States /\ disk \in States
           /\ mem.watch_cursor \in Nat /\ mem.fetch_cursor \in Nat
           /\ mem.acked_seq \in Nat /\ mem.cursor_seq \in Nat /\ mem.batch.cursor_seq \in Nat
           /\ disk.watch_cursor \in Nat /\ disk.fetch_cursor \in Nat /\ disk.acked_seq \in Nat
           /\ flush.cursor_seq \in Nat /\ flush.next_cursor \in Nat
<1>1. mail \in Nat /\ cursor \in Nat
    BY PositionIsNat DEF TypeOK, ServerTypes
<1>2. fetch.last \in Nat /\ fetch.since \in Nat /\ fetch.seq \in Nat
    BY PositionIsNat DEF TypeOK, Fetches
<1>3. mem \in States /\ disk \in States
    BY DEF TypeOK, StoreTypes
<1>4. /\ mem.watch_cursor \in Nat /\ mem.fetch_cursor \in Nat
      /\ mem.acked_seq \in Nat /\ mem.cursor_seq \in Nat /\ mem.batch.cursor_seq \in Nat
    BY <1>3, PositionIsNat DEF States, Batches
<1>5. disk.watch_cursor \in Nat /\ disk.fetch_cursor \in Nat /\ disk.acked_seq \in Nat
    BY <1>3, PositionIsNat DEF States
<1>6. flush.cursor_seq \in Nat /\ flush.next_cursor \in Nat
    BY PositionIsNat DEF TypeOK, Flushes
<1> QED
    BY <1>1, <1>2, <1>3, <1>4, <1>5, <1>6

\* A pass starts where the volatile cursor is.
LEMMA PassOrder ==
    ASSUME IInv, NEW f \in {StartPass, EndPass}
    PROVE  /\ f.pc \in {"page", "boot", "idle"} /\ f.last <= mail
           /\ f.pc = "page" => cursor = f.since /\ f.since <= f.last
<1>1. mem.watch_cursor <= mem.fetch_cursor
  <2>1. <<mem.acked_seq, mem.watch_cursor>> \in Carried
      BY DEF Carried, Markers
  <2> QED
      BY <2>1, CarriedBelow
<1>2. mem.fetch_cursor <= cursor /\ cursor <= mail
    BY DEF IInv, FetchInOrder
<1> DEFINE g == StartPass
<1>3. /\ g.pc \in {"page", "boot"} /\ g.last <= mail
      /\ g.pc = "page" => cursor = g.since /\ g.since <= g.last
    BY <1>1, <1>2, Numbers DEF StartPass, FetchIdle, IInv
<1>4. FetchIdle.pc = "idle" /\ FetchIdle.last <= mail
    BY Numbers DEF FetchIdle, IInv
<1>5. EndPass \in {StartPass, FetchIdle}
    BY DEF EndPass
<1> HIDE DEF g
<1> QED
    BY <1>3, <1>4, <1>5 DEF g

\* The fetched position moves to a new marker, and the acked one stays or follows.
LEMMA AdvanceOrder ==
    ASSUME IInv, fetch.pc \in {"note", "adopt", "baseline"},
           mem'.cursor_seq = mem.cursor_seq + 1, mem'.fetch_cursor = fetch.last,
           mem'.batch = mem.batch, mem'.pending = mem.pending,
           \/ mem'.acked_seq = mem.acked_seq /\ mem'.watch_cursor = mem.watch_cursor
           \/ mem'.acked_seq = mem'.cursor_seq /\ mem'.watch_cursor = mem'.fetch_cursor,
           UNCHANGED <<disk, mail, cursor, flush, replay, sweep>>
    PROVE  /\ MarkersAligned' /\ DiskBehindMemory' /\ Queued(mem)' /\ Queued(disk)'
           /\ FlushInOrder' /\ QueueReaders'
<1> DEFINE new == <<mem.cursor_seq + 1, fetch.last>>
<1>1. /\ cursor <= fetch.last /\ fetch.last # 0 /\ mem.fetch_cursor <= fetch.last
      /\ mem.fetch_cursor <= cursor /\ cursor <= mail /\ TypeOK
    BY Numbers DEF IInv, FetchInOrder
<1>2. Carried' \subseteq Carried \cup {new}
    BY DEF Carried, Markers, InFlight
<1>3. \A p \in Carried : p[2] <= fetch.last
    BY <1>1, CarriedBelow, CarriedType, Numbers
<1>4. Aligned(Carried, mem.cursor_seq)
    BY DEF IInv, MarkersAligned, Carried
<1>5. Aligned(Carried \cup {new}, mem.cursor_seq + 1)
    BY <1>1, <1>3, <1>4, AlignedGrow, CarriedType, Numbers
<1>6. MarkersAligned'
    BY <1>2, <1>5, AlignedShrink DEF IInv, MarkersAligned, Carried
<1>7. DiskBehindMemory'
  <2>1. mem.watch_cursor <= mem.fetch_cursor /\ mem.acked_seq <= mem.cursor_seq
    <3>1. <<mem.acked_seq, mem.watch_cursor>> \in Carried
        BY DEF Carried, Markers
    <3> QED
        BY <3>1, <1>4, CarriedBelow DEF Aligned
  <2> QED
      BY <1>1, <2>1, Numbers DEF IInv, DiskBehindMemory
<1>8. Queued(mem)' /\ Queued(disk)'
    BY DEF IInv, Queued
<1>9. FlushInOrder' /\ QueueReaders'
    BY DEF IInv, FlushInOrder, QueueReaders
<1> QED
    BY <1>6, <1>7, <1>8, <1>9

\* The acked position moves to a marker the daemon holds, if that is no older.
LEMMA AckOrder ==
    ASSUME IInv, NEW m \in Carried,
           mem'.cursor_seq = mem.cursor_seq, mem'.fetch_cursor = mem.fetch_cursor,
           mem'.batch = mem.batch, mem'.pending \in SUBSET mem.pending,
           IF m[1] >= mem.acked_seq
             THEN mem'.acked_seq = m[1] /\ mem'.watch_cursor = m[2]
             ELSE mem'.acked_seq = mem.acked_seq /\ mem'.watch_cursor = mem.watch_cursor,
           UNCHANGED <<disk, mail>>, InFlight' \in SUBSET Carried
    PROVE  MarkersAligned' /\ DiskBehindMemory' /\ Queued(mem)' /\ Queued(disk)'
<1>1. Aligned(Carried, mem.cursor_seq) /\ Carried \in SUBSET (Nat \X Nat)
    BY CarriedType DEF IInv, MarkersAligned, Carried
<1>2. <<mem.acked_seq, mem.watch_cursor>> \in Carried
    BY DEF Carried, Markers
<1>3. m = <<m[1], m[2]>>
    BY <1>1
<1>4. <<mem'.acked_seq, mem'.watch_cursor>> \in Carried
    BY <1>2, <1>3
<1>5. Carried' \subseteq Carried
    BY <1>4 DEF Carried, Markers
<1>6. MarkersAligned'
    BY <1>1, <1>5, AlignedShrink DEF IInv, MarkersAligned, Carried
<1>7. mem'.watch_cursor >= mem.watch_cursor /\ mem'.acked_seq >= mem.acked_seq
    BY <1>1, <1>2, Numbers DEF Aligned, IInv
<1>8. DiskBehindMemory'
    BY <1>4, <1>1, <1>7, Numbers DEF IInv, DiskBehindMemory
<1>9. Queued(mem)' /\ Queued(disk)'
    BY DEF IInv, Queued
<1> QED
    BY <1>6, <1>8, <1>9

\* A step of the fetch that leaves the state alone.
LEMMA ReadingOrder ==
    ASSUME IInv, TypeOK', FetchInOrder', UNCHANGED <<storeVars, fetchRest>>
    PROVE  IInv'
<1>1. UNCHANGED <<mem, disk, mail, flush, replay, sweep>>
    BY DEF storeVars, fetchRest, serverVars
<1> QED
    BY <1>1, FrameOrder DEF IInv

LEMMA TriggerOrder == IInv /\ Trigger => IInv'
<1> SUFFICES ASSUME IInv, Trigger PROVE IInv'
    OBVIOUS
<1>1. TypeOK' /\ TypeOK
    BY FetchingType DEF Fetching, IInv
<1>2. UNCHANGED <<storeVars, fetchRest, cursor, mem, mail>>
    BY DEF Trigger, storeVars, fetchRest, serverVars
<1>3. fetch' = StartPass \/ fetch' = [fetch EXCEPT !.again = TRUE]
    BY DEF Trigger
<1>4. CASE fetch' = StartPass
  <2>1. /\ fetch'.pc \in {"page", "boot", "idle"} /\ fetch'.last <= mail
        /\ fetch'.pc = "page" => cursor = fetch'.since /\ fetch'.since <= fetch'.last
      BY <1>4, PassOrder
  <2>2. FetchInOrder'
      BY <1>2, <2>1 DEF IInv, FetchInOrder
  <2> QED
      BY <1>1, <1>2, <2>2, ReadingOrder
<1>5. CASE fetch' = [fetch EXCEPT !.again = TRUE]
  <2>1. /\ fetch'.pc = fetch.pc /\ fetch'.last = fetch.last /\ fetch'.since = fetch.since
        /\ fetch'.seq = fetch.seq
      BY <1>1, <1>5 DEF TypeOK, Fetches
  <2>2. FetchInOrder'
      BY <1>2, <2>1 DEF IInv, FetchInOrder
  <2> QED
      BY <1>1, <1>2, <2>2, ReadingOrder
<1> QED
    BY <1>3, <1>4, <1>5

LEMMA FetchPageOrder == IInv /\ FetchPage => IInv'
<1> SUFFICES ASSUME IInv, FetchPage PROVE IInv'
    OBVIOUS
<1>1. TypeOK' /\ TypeOK
    BY FetchingType DEF Fetching, IInv
<1>2. UNCHANGED <<storeVars, fetchRest, mem, mail>>
    BY DEF FetchPage, storeVars, fetchRest, serverVars
<1> DEFINE last == PageEnd(fetch.last)
<1>3. /\ fetch.pc = "page" /\ cursor = fetch.since /\ fetch.since <= fetch.last
      /\ fetch.last <= mail /\ mem.fetch_cursor <= cursor
    BY DEF FetchPage, IInv, FetchInOrder
<1>4. last \in Nat /\ fetch.last <= last /\ last <= mail
    BY <1>1, <1>3, Numbers, ConfigAssumption DEF PageEnd
<1>5. last # 0 \/ last = fetch.since
    BY <1>1, <1>3, <1>4, Numbers
<1> HIDE DEF last
<1>6. CASE fetch' = [fetch EXCEPT !.last = last, !.pages = fetch.pages + 1] /\ UNCHANGED cursor
  <2>1. fetch'.pc = "page" /\ fetch'.last = last /\ fetch'.since = fetch.since
      BY <1>1, <1>3, <1>6 DEF TypeOK, Fetches
  <2>2. FetchInOrder'
      BY <1>1, <1>2, <1>3, <1>4, <1>6, <2>1, Numbers DEF FetchInOrder
  <2> QED
      BY <1>1, <1>2, <2>2, ReadingOrder
<1>7. CASE /\ cursor' = last /\ last > fetch.since
           /\ fetch' = [fetch EXCEPT !.pc = "note", !.since = 0, !.last = last, !.pages = 0,
                                     !.rows = fetch.since + 1 .. last]
  <2>1. fetch'.pc = "note" /\ fetch'.last = last
      BY <1>1, <1>7 DEF TypeOK, Fetches
  <2>2. FetchInOrder'
      BY <1>1, <1>2, <1>3, <1>4, <1>7, <2>1, Numbers DEF FetchInOrder
  <2> QED
      BY <1>1, <1>2, <2>2, ReadingOrder
<1>8. CASE last = fetch.since /\ cursor' = last /\ fetch' = EndPass
  <2>1. /\ fetch'.pc \in {"page", "boot", "idle"} /\ fetch'.last <= mail
        /\ fetch'.pc = "page" => cursor = fetch'.since /\ fetch'.since <= fetch'.last
      BY <1>8, PassOrder
  <2>2. cursor' = cursor
      BY <1>3, <1>8
  <2>3. FetchInOrder'
      BY <1>2, <2>1, <2>2 DEF IInv, FetchInOrder
  <2> QED
      BY <1>1, <1>2, <2>3, ReadingOrder
<1> QED
    BY <1>6, <1>7, <1>8 DEF FetchPage, last

LEMMA FetchRestOrder ==
    IInv /\ (FetchFails \/ ReadMute \/ FetchEnds \/ BootPage \/ OlderPage) => IInv'
<1> SUFFICES ASSUME IInv PROVE FetchFails \/ ReadMute \/ FetchEnds \/ BootPage \/ OlderPage => IInv'
    OBVIOUS
<1>1. TypeOK
    BY DEF IInv
<1>2. CASE FetchFails
  <2>1. TypeOK' /\ UNCHANGED <<storeVars, fetchRest, cursor, mem, mail>>
      BY <1>1, <1>2, FetchingType DEF Fetching, FetchFails, storeVars, fetchRest, serverVars
  <2>2. fetch'.pc = "idle" /\ fetch'.last = 0
      BY <1>2 DEF FetchFails, FetchIdle
  <2>3. FetchInOrder'
      BY <1>1, <2>1, <2>2, Numbers DEF IInv, FetchInOrder
  <2> QED
      BY <2>1, <2>3, ReadingOrder
<1>3. CASE ReadMute
  <2>1. TypeOK' /\ UNCHANGED <<storeVars, fetchRest, cursor, mem, mail>>
      BY <1>1, <1>3, FetchingType DEF Fetching, ReadMute, storeVars, fetchRest, serverVars
  <2>2. /\ fetch.pc = "noted" /\ fetch'.pc \in {"track", "enqueue"}
        /\ fetch'.last = fetch.last /\ fetch'.seq = fetch.seq
      BY <1>1, <1>3 DEF ReadMute, TypeOK, Fetches
  <2>3. FetchInOrder'
      BY <2>1, <2>2 DEF IInv, FetchInOrder
  <2> QED
      BY <2>1, <2>3, ReadingOrder
<1>4. CASE FetchEnds
  <2>1. TypeOK' /\ UNCHANGED <<mem, disk, mail, cursor, flush, replay, sweep>>
      BY <1>1, <1>4, FetchingType DEF Fetching, FetchEnds, storeVars, serverVars
  <2>2. /\ fetch'.pc \in {"page", "boot", "idle"} /\ fetch'.last <= mail
        /\ fetch'.pc = "page" => cursor = fetch'.since /\ fetch'.since <= fetch'.last
      BY <1>4, PassOrder DEF FetchEnds
  <2>3. FetchInOrder'
      BY <2>1, <2>2 DEF IInv, FetchInOrder
  <2> QED
      BY <2>1, <2>3, FrameOrder DEF IInv
<1>5. CASE BootPage
  <2>1. TypeOK' /\ UNCHANGED <<storeVars, fetchRest, mem, mail>> /\ fetch.pc = "boot"
      BY <1>1, <1>5, FetchingType DEF Fetching, BootPage, storeVars, fetchRest, serverVars
  <2>2. CASE UNCHANGED cursor /\ fetch' = EndPass
    <3>1. /\ fetch'.pc \in {"page", "boot", "idle"} /\ fetch'.last <= mail
          /\ fetch'.pc = "page" => cursor = fetch'.since /\ fetch'.since <= fetch'.last
        BY <2>2, PassOrder
    <3> QED
        BY <2>1, <2>2, <3>1, ReadingOrder DEF IInv, FetchInOrder
  <2>3. CASE UNCHANGED cursor /\ fetch' = [fetch EXCEPT !.pc = "mark"]
    <3>1. fetch'.pc = "mark" /\ fetch'.last = fetch.last
        BY <1>1, <2>3 DEF TypeOK, Fetches
    <3> QED
        BY <2>1, <2>3, <3>1, ReadingOrder DEF IInv, FetchInOrder
  <2>4. CASE mail > 0 /\ cursor' = mail /\ fetch'.pc \in {"baseline", "older", "adopt"} /\ fetch'.last = mail
    <3>1. mem.fetch_cursor <= mail
        BY <1>1, Numbers DEF IInv, FetchInOrder
    <3> QED
        BY <1>1, <2>1, <2>4, <3>1, Numbers, ReadingOrder DEF FetchInOrder
  <2>5. \/ UNCHANGED cursor /\ fetch' \in {EndPass, [fetch EXCEPT !.pc = "mark"]}
        \/ mail > 0 /\ cursor' = mail /\ fetch'.pc \in {"baseline", "older", "adopt"} /\ fetch'.last = mail
      BY <1>1, <1>5 DEF BootPage, TypeOK, Fetches
  <2> QED
      BY <2>2, <2>3, <2>4, <2>5
<1>6. CASE OlderPage
  <2>1. TypeOK' /\ UNCHANGED <<storeVars, fetchRest, cursor, mem, mail>>
      BY <1>1, <1>6, FetchingType DEF Fetching, OlderPage, storeVars, fetchRest, serverVars
  <2>2. fetch.pc = "older" /\ fetch'.pc \in {"older", "adopt"} /\ fetch'.last = fetch.last
      BY <1>1, <1>6 DEF OlderPage, TypeOK, Fetches
  <2>3. FetchInOrder'
      BY <2>1, <2>2 DEF IInv, FetchInOrder
  <2> QED
      BY <2>1, <2>3, ReadingOrder
<1> QED
    BY <1>2, <1>3, <1>4, <1>5, <1>6

\* What an ack does to the positions.
LEMMA CommitAcks ==
    ASSUME NEW s \in States, NEW seq \in Nat, NEW next \in Positions, NEW ids \in SUBSET Letters,
           NEW c, c = Commit(s, seq, next, ids), next # 0 \/ s.fetch_cursor # 0
    PROVE  /\ c.cursor_seq = s.cursor_seq /\ c.fetch_cursor = s.fetch_cursor /\ c.batch = s.batch
           /\ c.pending = s.pending
           /\ seq >= s.acked_seq =>
                 c.acked_seq = seq /\ c.watch_cursor = IF next # 0 THEN next ELSE s.fetch_cursor
           /\ ~(seq >= s.acked_seq) => c.acked_seq = s.acked_seq /\ c.watch_cursor = s.watch_cursor
BY DEF Commit, States

\* The markers of memory shrink, or move from one carrier to another.
LEMMA ShrinkOrder ==
    ASSUME IInv, UNCHANGED <<disk, mail>>, Carried' \subseteq Carried,
           mem'.cursor_seq = mem.cursor_seq, mem'.fetch_cursor = mem.fetch_cursor,
           mem'.acked_seq = mem.acked_seq, mem'.watch_cursor = mem.watch_cursor
    PROVE  MarkersAligned' /\ DiskBehindMemory' /\ Queued(disk)'
<1>1. MarkersAligned'
    BY AlignedShrink DEF IInv, MarkersAligned, Carried
<1> QED
    BY <1>1 DEF IInv, DiskBehindMemory

\* A marker with a sequence has a cursor.
LEMMA NumberedHasCursor ==
    ASSUME IInv, NEW m \in Carried, m[1] # 0
    PROVE  m[2] # 0
BY DEF IInv, MarkersAligned, Aligned, Carried

LEMMA FetchNotesOrder == IInv /\ (NoteFetchCursor \/ Adopt \/ Baseline) => IInv'
<1> SUFFICES ASSUME IInv, NoteFetchCursor \/ Adopt \/ Baseline PROVE IInv'
    OBVIOUS
<1>1. TypeOK /\ TypeOK'
    BY FetchingType DEF IInv, Fetching
<1>2. UNCHANGED <<disk, mail, cursor, flush, replay, sweep>>
    BY DEF NoteFetchCursor, Adopt, Baseline, Mutate, fetchRest, serverVars
<1>3. mem \in States /\ mem.cursor_seq + 1 \in Nat
    BY <1>1, Numbers
<1>4. /\ fetch.pc \in {"note", "adopt", "baseline"}
      /\ mem'.cursor_seq = mem.cursor_seq + 1 /\ mem'.fetch_cursor = fetch.last
      /\ mem'.batch = mem.batch /\ mem'.pending = mem.pending
      /\ \/ mem'.acked_seq = mem.acked_seq /\ mem'.watch_cursor = mem.watch_cursor
         \/ mem'.acked_seq = mem'.cursor_seq /\ mem'.watch_cursor = mem'.fetch_cursor
  <2>1. CASE NoteFetchCursor
      BY <1>3, <2>1 DEF NoteFetchCursor, Mutate, States
  <2>2. CASE Adopt
      BY <1>3, <2>2 DEF Adopt, Mutate, States
  <2>3. CASE Baseline
      BY <1>3, <2>3 DEF Baseline, Mutate, States
  <2> QED
      BY <2>1, <2>2, <2>3
<1>5. /\ MarkersAligned' /\ DiskBehindMemory' /\ Queued(mem)' /\ Queued(disk)'
      /\ FlushInOrder' /\ QueueReaders'
    BY <1>2, <1>4, AdvanceOrder
<1>6. \/ fetch'.pc = "noted" /\ fetch'.seq = mem.cursor_seq + 1 /\ fetch'.last = fetch.last
      \/ fetch'.pc = "done" /\ fetch'.last = 0
    BY <1>1 DEF NoteFetchCursor, Adopt, Baseline, PassAt, FetchIdle, TypeOK, Fetches
<1>7. mem.batch.cursor_seq <= mem.cursor_seq
  <2>1. Marker(mem.batch) \in Carried
      BY DEF Carried, Markers
  <2> QED
      BY <2>1 DEF IInv, MarkersAligned, Aligned, Carried, Marker
<1>8. \A i \in mem.pending : i.cursor_seq \in Nat /\ i.cursor_seq <= mem.cursor_seq
  <2>1. \A i \in mem.pending : Marker(i) \in Carried
      BY DEF Carried, Markers
  <2>2. \A i \in mem.pending : i.cursor_seq \in Nat
      BY <1>3 DEF States, Items
  <2> QED
      BY <2>1, <2>2 DEF IInv, MarkersAligned, Aligned, Carried, Marker
<1>9. cursor = fetch.last /\ fetch.last <= mail /\ fetch.last # 0
    BY <1>4 DEF IInv, FetchInOrder
<1>10. FetchInOrder'
  <2>1. CASE fetch'.pc = "noted" /\ fetch'.seq = mem.cursor_seq + 1 /\ fetch'.last = fetch.last
    <3>1. /\ fetch'.seq = mem'.cursor_seq /\ fetch'.last = mem'.fetch_cursor /\ fetch'.seq # 0
          /\ mem'.batch.cursor_seq < fetch'.seq
        BY <1>1, <1>3, <1>4, <1>7, <2>1, Numbers
    <3>2. \A i \in mem'.pending : i.cursor_seq < fetch'.seq
        BY <1>3, <1>4, <1>8, <2>1, <1>1, Numbers
    <3> QED
        BY <1>1, <1>2, <1>4, <1>9, <2>1, <3>1, <3>2, Numbers DEF FetchInOrder
  <2>2. CASE fetch'.pc = "done" /\ fetch'.last = 0
      BY <1>1, <1>2, <1>4, <1>9, <2>2, Numbers DEF FetchInOrder
  <2> QED
      BY <1>6, <2>1, <2>2
<1> QED
    BY <1>1, <1>5, <1>10 DEF IInv

LEMMA MutesOrder == IInv /\ (MarkEmpty \/ TrackSilently) => IInv'
<1> SUFFICES ASSUME IInv, MarkEmpty \/ TrackSilently PROVE IInv'
    OBVIOUS
<1>1. TypeOK /\ TypeOK'
    BY FetchingType DEF IInv, Fetching
<1>2. UNCHANGED <<disk, mail, cursor, flush, replay, sweep>> /\ fetch' = PassAt("done")
    BY DEF MarkEmpty, TrackSilently, Mutate, fetchRest, serverVars
<1>3. fetch'.pc = "done" /\ fetch'.last = 0
    BY <1>2 DEF PassAt, FetchIdle
<1>4. InFlight' = InFlight
    BY <1>2 DEF InFlight
<1>5. /\ mem'.cursor_seq = mem.cursor_seq /\ mem'.fetch_cursor = mem.fetch_cursor
      /\ mem'.batch = mem.batch /\ mem'.pending = mem.pending
      /\ MarkersAligned' /\ DiskBehindMemory' /\ Queued(mem)' /\ Queued(disk)'
  <2>1. CASE MarkEmpty
    <3>1. /\ mem'.cursor_seq = mem.cursor_seq /\ mem'.fetch_cursor = mem.fetch_cursor
          /\ mem'.batch = mem.batch /\ mem'.pending = mem.pending
          /\ mem'.acked_seq = mem.acked_seq /\ mem'.watch_cursor = mem.watch_cursor
        BY <1>1, <2>1, Numbers DEF MarkEmpty, Mutate, States
    <3>2. Carried' = Carried
        BY <3>1, <1>4 DEF Carried, Markers
    <3>3. Queued(mem)'
        BY <3>1 DEF IInv, Queued
    <3> QED
        BY <1>2, <3>1, <3>2, <3>3, ShrinkOrder
  <2>2. CASE TrackSilently
    <3> DEFINE m == <<mem.cursor_seq, mem.fetch_cursor>>
    <3>1. /\ fetch.seq = mem.cursor_seq /\ mem.fetch_cursor # 0
          /\ mem' = Commit(mem, fetch.seq, 0, fetch.rows)
      <4>1. fetch.pc = "track" /\ mem' = Commit(mem, fetch.seq, 0, fetch.rows)
          BY <2>2 DEF TrackSilently, Mutate
      <4>2. fetch.seq = mem.cursor_seq /\ fetch.seq # 0
          BY <4>1 DEF IInv, FetchInOrder
      <4>3. m \in Carried
          BY DEF Carried, Markers
      <4> QED
          BY <4>1, <4>2, <4>3, NumberedHasCursor
    <3>2. 0 \in Positions /\ fetch.rows \in SUBSET Letters /\ {} \in SUBSET Items
        BY <1>1, BoundsAssumption DEF Positions, TypeOK, Fetches
    <3>6. mem \in States /\ fetch.seq \in Nat
        BY <1>1, Numbers
    <3>7. /\ mem'.cursor_seq = mem.cursor_seq /\ mem'.fetch_cursor = mem.fetch_cursor
          /\ mem'.batch = mem.batch /\ mem'.pending = mem.pending
          /\ IF fetch.seq >= mem.acked_seq
               THEN mem'.acked_seq = fetch.seq /\ mem'.watch_cursor = mem.fetch_cursor
               ELSE mem'.acked_seq = mem.acked_seq /\ mem'.watch_cursor = mem.watch_cursor
        BY <3>1, <3>2, <3>6, CommitAcks
    <3>3. /\ mem'.cursor_seq = mem.cursor_seq /\ mem'.fetch_cursor = mem.fetch_cursor
          /\ mem'.batch = mem.batch /\ mem'.pending = mem.pending
          /\ IF m[1] >= mem.acked_seq
               THEN mem'.acked_seq = m[1] /\ mem'.watch_cursor = m[2]
               ELSE mem'.acked_seq = mem.acked_seq /\ mem'.watch_cursor = mem.watch_cursor
        BY <3>1, <3>7
    <3>4. m \in Carried /\ InFlight' \in SUBSET Carried /\ mem'.pending \in SUBSET mem.pending
        BY <1>4, <3>3 DEF Carried, Markers
    <3> HIDE DEF m
    <3>5. MarkersAligned' /\ DiskBehindMemory' /\ Queued(mem)' /\ Queued(disk)'
        BY <1>2, <3>3, <3>4, AckOrder
    <3> QED
        BY <3>3, <3>5
  <2> QED
      BY <2>1, <2>2
<1>6. FetchInOrder'
    BY <1>1, <1>2, <1>3, <1>5, Numbers DEF IInv, FetchInOrder
<1>7. FlushInOrder' /\ QueueReaders'
    BY <1>2, <1>5 DEF IInv, FlushInOrder, QueueReaders
<1> QED
    BY <1>1, <1>5, <1>6, <1>7 DEF IInv

LEMMA EnqueueOrder == IInv /\ Enqueue => IInv'
<1> SUFFICES ASSUME IInv, Enqueue PROVE IInv'
    OBVIOUS
<1>1. TypeOK /\ TypeOK'
    BY FetchingType DEF IInv, Fetching
<1>2. UNCHANGED <<disk, mail, cursor, flush, replay, sweep>>
    BY DEF Enqueue, Mutate, fetchRest, serverVars
<1>3. fetch'.pc \in {"done", "schedule"} /\ fetch'.last = 0
    BY DEF Enqueue, PassAt, FetchIdle
<1>4. /\ fetch.seq = mem.cursor_seq /\ fetch.last = mem.fetch_cursor /\ fetch.seq # 0
      /\ mem.batch.cursor_seq < fetch.seq /\ \A i \in mem.pending : i.cursor_seq < fetch.seq
    BY DEF Enqueue, IInv, FetchInOrder
<1>5. /\ mem'.cursor_seq = mem.cursor_seq /\ mem'.fetch_cursor = mem.fetch_cursor
      /\ mem'.acked_seq = mem.acked_seq /\ mem'.watch_cursor = mem.watch_cursor
      /\ mem'.pending = mem.pending
      /\ \/ mem'.batch = mem.batch
         \/ mem'.batch.cursor_seq = fetch.seq /\ mem'.batch.next_cursor = fetch.last
    BY <1>1, Numbers DEF Enqueue, Mutate, States
<1>6. Carried' \subseteq Carried
    BY <1>2, <1>4, <1>5 DEF Carried, Markers, Marker, InFlight
<1>7. MarkersAligned' /\ DiskBehindMemory' /\ Queued(disk)'
    BY <1>2, <1>5, <1>6, ShrinkOrder
<1>8. Queued(mem)'
    BY <1>4, <1>5 DEF IInv, Queued
<1>9. FetchInOrder'
    BY <1>1, <1>2, <1>3, <1>5, Numbers DEF IInv, FetchInOrder
<1>10. mem'.batch # NoBatch \/ mem'.batch = mem.batch
    BY <1>4, <1>5 DEF NoBatch
<1>11. FlushInOrder'
    BY <1>1, <1>2, <1>4, <1>5, <1>10, Numbers DEF IInv, FlushInOrder
<1>12. QueueReaders'
    BY <1>2 DEF IInv, QueueReaders
<1> QED
    BY <1>1, <1>7, <1>8, <1>9, <1>11, <1>12 DEF IInv

LEMMA FetchingOrder == IInv /\ Fetching => IInv'
BY TriggerOrder, FetchPageOrder, FetchRestOrder, FetchNotesOrder, MutesOrder, EnqueueOrder DEF Fetching

\* What the daemon holds across an await changes, the state does not.
LEMMA HandsOrder ==
    ASSUME IInv, TypeOK', UNCHANGED <<mem, disk, mail, cursor, fetch>>, InFlight' \subseteq Carried,
           FlushInOrder', QueueReaders'
    PROVE  IInv'
<1>1. Carried' \subseteq Carried
    BY DEF Carried, Markers
<1>2. MarkersAligned' /\ DiskBehindMemory' /\ Queued(disk)'
    BY <1>1, ShrinkOrder
<1>3. Queued(mem)' /\ FetchInOrder'
    BY FrameOrder
<1> QED
    BY <1>2, <1>3 DEF IInv

LEMMA FlushReadsOrder ==
    IInv /\ (\/ FlushTimerFires \/ RetryTimerFires \/ ReconcileRead \/ Filter \/ Delivered
             \/ Refused \/ (\E taken \in BOOLEAN : DeliverFails(taken)) \/ FlushSettles) => IInv'
<1> DEFINE Step == \/ FlushTimerFires \/ RetryTimerFires \/ ReconcileRead \/ Filter \/ Delivered
                   \/ Refused \/ (\E taken \in BOOLEAN : DeliverFails(taken)) \/ FlushSettles
<1> SUFFICES ASSUME IInv, Step PROVE IInv'
    OBVIOUS
<1>1. TypeOK /\ TypeOK'
    BY FlushingType DEF IInv, Flushing
<1>2. UNCHANGED <<mem, disk, mail, cursor, fetch, replay, sweep>>
    BY DEF FlushTimerFires, RetryTimerFires, ReconcileRead, Filter, Delivered, Refused,
           DeliverFails, FlushSettles, flushRest, storeVars, serverVars
<1>3. flush \in Flushes
    BY <1>1 DEF TypeOK
<1> DEFINE Batch == mem.batch
           Moved ==
             \/ flush' = flush
             \/ /\ flush'.pc \in {"idle", "settle"}
                /\ flush'.cursor_seq = 0 /\ flush'.next_cursor = 0
             \/ /\ flush'.pc \in {"reconcile", "filter", "post"} /\ mem.batch # NoBatch
                /\ Marker(flush') \in {<<0, 0>>, Marker(flush)}
             \/ /\ flush'.pc \in {"ack", "park"} /\ mem.batch # NoBatch
                /\ Marker(flush') = Marker(mem.batch)
<1>4. Moved
  <2> USE <1>3 DEF Marker
  <2>1. CASE FlushTimerFires \/ RetryTimerFires
      BY <2>1 DEF FlushTimerFires, RetryTimerFires, BeginFlush, FlushIdle
  <2>2. CASE ReconcileRead
      BY <2>2 DEF ReconcileRead, IInv, FlushInOrder, Flushes
  <2>3. CASE Filter
    <3>1. PICK body : flush' = [flush EXCEPT
                      !.pc = IF body = {} THEN "ack" ELSE IF HasTarget THEN "post" ELSE "park",
                      !.live = {}, !.body = body,
                      !.ids  = IF body = {} THEN BatchMessages(mem) ELSE {},
                      !.next_cursor = IF body = {} \/ ~HasTarget THEN mem.batch.next_cursor ELSE 0,
                      !.cursor_seq = IF body = {} \/ ~HasTarget THEN mem.batch.cursor_seq ELSE 0]
        BY <2>3 DEF Filter
    <3>2. mem.batch # NoBatch
        BY <2>3 DEF Filter, IInv, FlushInOrder
    <3> QED
        BY <3>1, <3>2 DEF Flushes
  <2>4. CASE Delivered
      BY <2>4 DEF Delivered, IInv, FlushInOrder, Flushes
  <2>5. CASE Refused
      BY <2>5 DEF Refused, IInv, FlushInOrder, Flushes
  <2>6. CASE FlushSettles \/ \E taken \in BOOLEAN : DeliverFails(taken)
      BY <2>6 DEF FlushSettles, DeliverFails, FlushIdle
  <2> QED
      BY <2>1, <2>2, <2>3, <2>4, <2>5, <2>6
<1>5. Marker(flush') \in Carried
    BY <1>4 DEF Carried, Markers, InFlight, Marker
<1>6. InFlight' \subseteq Carried
    BY <1>2, <1>5 DEF InFlight, Carried
<1>7. FlushInOrder'
  <2>1. CASE flush' = flush
      BY <1>2, <2>1 DEF IInv, FlushInOrder
  <2>2. CASE flush' # flush
    <3>1. flush'.pc \in {"ack", "park"} => flush'.cursor_seq = mem.batch.cursor_seq
        BY <1>4, <2>2 DEF Marker
    <3>2. flush'.pc \in {"ack", "park", "reconcile", "filter", "post"} => mem.batch # NoBatch
        BY <1>4, <2>2
    <3>3. mem.batch # NoBatch =>
            mem.batch.cursor_seq # 0 /\ \A i \in mem.pending : i.cursor_seq < mem.batch.cursor_seq
        BY DEF IInv, Queued
    <3> QED
        BY <1>1, <1>2, <3>1, <3>2, <3>3, Numbers DEF FlushInOrder
  <2> QED
      BY <2>1, <2>2
<1>8. QueueReaders'
    BY <1>2 DEF IInv, QueueReaders
<1> QED
    BY <1>1, <1>2, <1>6, <1>7, <1>8, HandsOrder

LEMMA AckBatchOrder == IInv /\ AckBatch => IInv'
<1> SUFFICES ASSUME IInv, AckBatch PROVE IInv'
    OBVIOUS
<1>1. TypeOK /\ TypeOK'
    BY FlushingType DEF IInv, Flushing
<1>2. UNCHANGED <<disk, mail, cursor, fetch, replay, sweep>>
    BY DEF AckBatch, Mutate, flushRest, serverVars
<1>3. flush.pc = "ack" /\ flush.cursor_seq # 0 /\ Marker(flush) \in Carried
    BY DEF AckBatch, IInv, FlushInOrder, Carried, InFlight
<1>4. flush.next_cursor # 0
    BY <1>3, NumberedHasCursor DEF Marker
<1>5. /\ mem' = Commit(mem, flush.cursor_seq, flush.next_cursor, flush.ids)
      /\ flush'.pc = "clear" /\ Marker(flush') = <<0, 0>>
    BY DEF AckBatch, Mutate, FlushIdle, Marker
<1>6. /\ flush.cursor_seq \in Nat /\ flush.next_cursor \in Positions /\ flush.ids \in SUBSET Letters
      /\ mem \in States
    BY <1>1, Numbers DEF TypeOK, Flushes
<1>7. /\ mem'.cursor_seq = mem.cursor_seq /\ mem'.fetch_cursor = mem.fetch_cursor
      /\ mem'.batch = mem.batch /\ mem'.pending = mem.pending
      /\ IF flush.cursor_seq >= mem.acked_seq
           THEN mem'.acked_seq = flush.cursor_seq /\ mem'.watch_cursor = flush.next_cursor
           ELSE mem'.acked_seq = mem.acked_seq /\ mem'.watch_cursor = mem.watch_cursor
    BY <1>4, <1>5, <1>6, CommitAcks
<1>8. InFlight' \in SUBSET Carried
    BY <1>2, <1>5 DEF InFlight, Carried, Markers
<1> DEFINE m == Marker(flush)
<1>9. m[1] = flush.cursor_seq /\ m[2] = flush.next_cursor /\ m \in Carried
    BY <1>3 DEF Marker
<1> HIDE DEF m
<1>10. MarkersAligned' /\ DiskBehindMemory' /\ Queued(mem)' /\ Queued(disk)'
    BY <1>2, <1>7, <1>8, <1>9, AckOrder
<1>11. FetchInOrder'
    BY <1>2, <1>7 DEF IInv, FetchInOrder
<1>12. FlushInOrder' /\ QueueReaders'
    BY <1>2, <1>5 DEF IInv, FlushInOrder, QueueReaders
<1> QED
    BY <1>1, <1>10, <1>11, <1>12 DEF IInv

LEMMA ClearBatchOrder == IInv /\ ClearBatch => IInv'
<1> SUFFICES ASSUME IInv, ClearBatch PROVE IInv'
    OBVIOUS
<1>1. TypeOK /\ TypeOK'
    BY FlushingType DEF IInv, Flushing
<1>2. UNCHANGED <<disk, mail, cursor, fetch, replay, sweep>>
    BY DEF ClearBatch, Mutate, flushRest, serverVars
<1>3. /\ mem'.cursor_seq = mem.cursor_seq /\ mem'.fetch_cursor = mem.fetch_cursor
      /\ mem'.acked_seq = mem.acked_seq /\ mem'.watch_cursor = mem.watch_cursor
      /\ mem'.pending = mem.pending /\ mem'.batch = NoBatch
    BY <1>1, Numbers DEF ClearBatch, Mutate, States
<1>4. flush'.pc = "settle" /\ Marker(flush') = Marker(flush)
    BY <1>1 DEF ClearBatch, TypeOK, Flushes, Marker
<1>5. Carried' \subseteq Carried
    BY <1>2, <1>3, <1>4 DEF Carried, Markers, InFlight, Marker, NoBatch
<1>6. MarkersAligned' /\ DiskBehindMemory' /\ Queued(disk)'
    BY <1>2, <1>3, <1>5, ShrinkOrder
<1>7. Queued(mem)'
    BY <1>3 DEF IInv, Queued
<1>8. FetchInOrder'
  <2>1. fetch.seq # 0 => NoBatch.cursor_seq < fetch.seq
      BY <1>1, Numbers DEF NoBatch
  <2> QED
      BY <1>2, <1>3, <2>1 DEF IInv, FetchInOrder
<1>9. FlushInOrder' /\ QueueReaders'
    BY <1>2, <1>4 DEF IInv, FlushInOrder, QueueReaders
<1> QED
    BY <1>1, <1>6, <1>7, <1>8, <1>9 DEF IInv

LEMMA ToPendingOrder == IInv /\ ToPending => IInv'
<1> SUFFICES ASSUME IInv, ToPending PROVE IInv'
    OBVIOUS
<1>1. TypeOK /\ TypeOK'
    BY FlushingType DEF IInv, Flushing
<1>2. UNCHANGED <<disk, mail, cursor, fetch, replay, sweep>>
    BY DEF ToPending, Mutate, flushRest, serverVars
<1>3. flush'.pc = "settle" /\ Marker(flush') = <<0, 0>>
    BY DEF ToPending, FlushIdle, Marker
<1> DEFINE item == [cursor_seq |-> flush.cursor_seq, next_cursor |-> flush.next_cursor,
                    messages |-> flush.body, resting |-> FALSE]
<1>4. PICK dropped :
        mem' = [mem EXCEPT !.batch = NoBatch, !.pending = (@ \ dropped) \cup {item}]
    BY DEF ToPending, Mutate
<1>5. item.cursor_seq = flush.cursor_seq /\ Marker(item) = Marker(flush)
    BY DEF Marker
<1> HIDE DEF item
<1>6. /\ mem'.cursor_seq = mem.cursor_seq /\ mem'.fetch_cursor = mem.fetch_cursor
      /\ mem'.acked_seq = mem.acked_seq /\ mem'.watch_cursor = mem.watch_cursor
      /\ mem'.batch = NoBatch /\ mem'.pending \subseteq mem.pending \cup {item}
    BY <1>1, <1>4, Numbers DEF States
<1>7. /\ flush.cursor_seq # 0 /\ flush.cursor_seq <= mem.batch.cursor_seq
      /\ \A i \in mem.pending : i.cursor_seq < flush.cursor_seq
    BY DEF ToPending, IInv, FlushInOrder
<1>8. Carried' \subseteq Carried
    BY <1>2, <1>3, <1>5, <1>6 DEF Carried, Markers, InFlight, Marker, NoBatch
<1>9. MarkersAligned' /\ DiskBehindMemory' /\ Queued(disk)'
    BY <1>2, <1>6, <1>8, ShrinkOrder
<1>10. Queued(mem)'
  <2>1. \A i \in mem'.pending : i.cursor_seq # 0
      BY <1>5, <1>6, <1>7 DEF IInv, Queued
  <2>2. ~(flush.cursor_seq < flush.cursor_seq)
      BY <1>1, Numbers
  <2>3. \A i, j \in mem'.pending : SameItem(i, j) => i = j
      BY <1>5, <1>6, <1>7, <2>2 DEF IInv, Queued, SameItem
  <2> QED
      BY <1>6, <2>1, <2>3 DEF Queued
<1>11. FetchInOrder'
  <2>1. fetch.seq # 0 => NoBatch.cursor_seq < fetch.seq
      BY <1>1, Numbers DEF NoBatch
  <2>2. mem.batch.cursor_seq < fetch.seq => flush.cursor_seq < fetch.seq
      BY <1>1, <1>7, Numbers
  <2> QED
      BY <1>2, <1>5, <1>6, <2>1, <2>2 DEF IInv, FetchInOrder
<1>12. FlushInOrder' /\ QueueReaders'
    BY <1>2, <1>3 DEF IInv, FlushInOrder, QueueReaders
<1> QED
    BY <1>1, <1>9, <1>10, <1>11, <1>12 DEF IInv

LEMMA FlushingOrder == IInv /\ Flushing => IInv'
BY FlushReadsOrder, AckBatchOrder, ClearBatchOrder, ToPendingOrder DEF Flushing

LEMMA ReplayReadsOrder ==
    IInv /\ (\/ ReplayStart \/ ReplayPick \/ ReplayEnds \/ Redelivered
             \/ (\E taken \in BOOLEAN : RedeliveryFails(taken))) => IInv'
<1> DEFINE Step == \/ ReplayStart \/ ReplayPick \/ ReplayEnds \/ Redelivered
                   \/ (\E taken \in BOOLEAN : RedeliveryFails(taken))
<1> SUFFICES ASSUME IInv, Step PROVE IInv'
    OBVIOUS
<1>1. TypeOK /\ TypeOK'
    BY ReplayingType DEF IInv, Replaying
<1>2. UNCHANGED <<mem, disk, mail, cursor, fetch, flush, sweep>>
    BY DEF ReplayStart, ReplayPick, ReplayEnds, Redelivered, RedeliveryFails, replayRest,
           storeVars, serverVars
<1>3. /\ replay'.due \subseteq replay.due \cup mem.pending
      /\ \/ replay'.item \in {replay.item} \cup replay.due /\ replay'.pc \in {"post", "rest", "commit"}
         \/ replay'.item = NoItem /\ replay'.pc \in {"idle", "pick"}
      /\ replay'.pc = "commit" => replay.pc = "post" /\ replay'.item = replay.item
      /\ replay'.pc = "post" => replay'.item \in replay.due
  <2>1. CASE ReplayStart
    <3>1. PICK due \in SUBSET mem.pending : replay' = [ReplayIdle EXCEPT !.pc = "pick", !.due = due]
        BY <2>1 DEF ReplayStart
    <3>2. replay'.pc = "pick" /\ replay'.due = due /\ replay'.item = NoItem
        BY <3>1 DEF ReplayIdle
    <3> QED
        BY <3>2
  <2>2. CASE ReplayPick
      BY <2>2 DEF ReplayPick, Oldest
  <2>3. CASE ReplayEnds
      BY <2>3 DEF ReplayEnds, ReplayIdle
  <2>4. CASE Redelivered
      BY <1>1, <2>4 DEF Redelivered, TypeOK, Replays
  <2>5. CASE \E taken \in BOOLEAN : RedeliveryFails(taken)
      BY <1>1, <2>5 DEF RedeliveryFails, TypeOK, Replays
  <2> QED
      BY <2>1, <2>2, <2>3, <2>4, <2>5
<1>4. InFlight' \subseteq Carried
  <2>1. Marker(NoItem) = <<0, 0>>
      BY DEF Marker, NoItem
  <2>2. Marker(replay'.item) \in Carried
      BY <1>3, <2>1 DEF Carried, Markers, InFlight
  <2>3. \A i \in replay'.due : Marker(i) \in Carried
      BY <1>3 DEF Carried, Markers, InFlight
  <2> QED
      BY <1>2, <2>2, <2>3 DEF InFlight, Carried
<1>5. QueueReaders'
    BY <1>2, <1>3 DEF IInv, QueueReaders, Queued
<1>6. FlushInOrder'
    BY <1>2 DEF IInv, FlushInOrder
<1> QED
    BY <1>1, <1>2, <1>4, <1>5, <1>6, HandsOrder

\* A replayed or an archived item: its marker is acked, items leave the queue.
LEMMA ItemAckOrder ==
    ASSUME IInv, TypeOK', NEW item \in Items, Marker(item) \in Carried, item.cursor_seq # 0,
           NEW ids \in SUBSET Letters, NEW kept \in SUBSET mem.pending,
           mem' = [Commit(mem, item.cursor_seq, item.next_cursor, ids) EXCEPT !.pending = kept],
           UNCHANGED <<disk, mail, cursor, fetch, flush>>, InFlight' \in SUBSET Carried,
           QueueReaders'
    PROVE  IInv'
<1> DEFINE m == Marker(item)
           c == Commit(mem, item.cursor_seq, item.next_cursor, ids)
<1>1. item.next_cursor # 0
    BY NumberedHasCursor DEF Marker
<1>2. /\ item.cursor_seq \in Nat /\ item.next_cursor \in Positions /\ mem \in States
    BY Numbers DEF Items, IInv
<1>3. c \in States
    BY <1>2, CommitType
<1>4. /\ c.cursor_seq = mem.cursor_seq /\ c.fetch_cursor = mem.fetch_cursor /\ c.batch = mem.batch
      /\ IF item.cursor_seq >= mem.acked_seq
           THEN c.acked_seq = item.cursor_seq /\ c.watch_cursor = item.next_cursor
           ELSE c.acked_seq = mem.acked_seq /\ c.watch_cursor = mem.watch_cursor
    BY <1>1, <1>2, CommitAcks
<1>5. mem' = [c EXCEPT !.pending = kept]
    OBVIOUS
<1> HIDE DEF c
<1>6. /\ mem'.cursor_seq = c.cursor_seq /\ mem'.fetch_cursor = c.fetch_cursor
      /\ mem'.batch = c.batch /\ mem'.pending = kept
      /\ mem'.acked_seq = c.acked_seq /\ mem'.watch_cursor = c.watch_cursor
    BY <1>3, <1>5 DEF States
<1>7. m[1] = item.cursor_seq /\ m[2] = item.next_cursor /\ m \in Carried
    BY DEF Marker
<1> HIDE DEF m
<1>8. MarkersAligned' /\ DiskBehindMemory' /\ Queued(mem)' /\ Queued(disk)'
    BY <1>4, <1>6, <1>7, AckOrder
<1>9. FetchInOrder'
    BY <1>4, <1>6 DEF IInv, FetchInOrder
<1>10. FlushInOrder'
    BY <1>4, <1>6 DEF IInv, FlushInOrder
<1> QED
    BY <1>8, <1>9, <1>10 DEF IInv

LEMMA ReplayCommitOrder == IInv /\ ReplayCommit => IInv'
<1> SUFFICES ASSUME IInv, ReplayCommit PROVE IInv'
    OBVIOUS
<1>1. TypeOK /\ TypeOK'
    BY ReplayingType DEF IInv, Replaying
<1>2. UNCHANGED <<disk, mail, cursor, fetch, flush, sweep>>
    BY DEF ReplayCommit, Mutate, replayRest, serverVars
<1> DEFINE item == replay.item
           kept == {i \in mem.pending : ~SameItem(i, item)}
<1>3. mem' = [Commit(mem, item.cursor_seq, item.next_cursor, item.messages) EXCEPT !.pending = kept]
    BY DEF ReplayCommit, Mutate
<1>4. replay'.pc = "pick" /\ replay'.due = replay.due /\ replay'.item = NoItem
    BY <1>1 DEF ReplayCommit, TypeOK, Replays
<1>5. /\ item \in Items /\ item.messages \in SUBSET Letters
      /\ Marker(item) \in Carried /\ item.cursor_seq # 0
    BY <1>1 DEF TypeOK, Replays, Items, Carried, InFlight, IInv, QueueReaders, ReplayCommit
<1>6. InFlight' \in SUBSET Carried
  <2>1. Marker(NoItem) = <<0, 0>>
      BY DEF Marker, NoItem
  <2> QED
      BY <1>2, <1>4, <2>1 DEF InFlight, Carried, Markers
<1>7. QueueReaders'
    BY <1>2, <1>4 DEF IInv, QueueReaders
<1>8. kept \in SUBSET mem.pending
    OBVIOUS
<1> HIDE DEF item, kept
<1> QED
    BY <1>1, <1>2, <1>3, <1>5, <1>6, <1>7, <1>8, ItemAckOrder

LEMMA ReplayRestOrder == IInv /\ ReplayRest => IInv'
<1> SUFFICES ASSUME IInv, ReplayRest PROVE IInv'
    OBVIOUS
<1>1. TypeOK /\ TypeOK'
    BY ReplayingType DEF IInv, Replaying
<1>2. UNCHANGED <<disk, mail, cursor, fetch, flush, sweep>>
    BY DEF ReplayRest, Mutate, replayRest, serverVars
<1> DEFINE rested(i) == IF SameItem(i, replay.item) THEN [i EXCEPT !.resting = TRUE] ELSE i
           rest == {rested(i) : i \in mem.pending}
<1>3. mem' = [mem EXCEPT !.pending = rest]
    BY DEF ReplayRest, Mutate
<1>4. \A i \in mem.pending : rested(i).cursor_seq = i.cursor_seq /\ Marker(rested(i)) = Marker(i)
    BY <1>1 DEF TypeOK, StoreTypes, States, Items, Marker
<1>5. \A i, j \in mem.pending : SameItem(rested(i), rested(j)) => rested(i) = rested(j)
    BY <1>4 DEF IInv, Queued, SameItem
<1> HIDE DEF rested
<1>6. \A j \in rest : \E i \in mem.pending : j = rested(i)
    OBVIOUS
<1> HIDE DEF rest
<1>7. /\ mem'.cursor_seq = mem.cursor_seq /\ mem'.fetch_cursor = mem.fetch_cursor
      /\ mem'.acked_seq = mem.acked_seq /\ mem'.watch_cursor = mem.watch_cursor
      /\ mem'.batch = mem.batch /\ mem'.pending = rest
    BY <1>1, <1>3, Numbers DEF States
<1>8. \A j \in rest : \E i \in mem.pending : j.cursor_seq = i.cursor_seq /\ Marker(j) = Marker(i)
    BY <1>4, <1>6
<1>9. replay'.pc = "rested" /\ replay'.due = {} /\ replay'.item = NoItem
    BY DEF ReplayRest, ReplayIdle
<1>10. Carried' \subseteq Carried
  <2>1. Marker(NoItem) = <<0, 0>>
      BY DEF Marker, NoItem
  <2>2. InFlight' \subseteq Carried
      BY <1>2, <1>9, <2>1 DEF InFlight, Carried, Markers
  <2>3. Markers(mem)' \subseteq Carried
      BY <1>7, <1>8 DEF Markers, Carried
  <2> QED
      BY <2>2, <2>3 DEF Carried
<1>11. MarkersAligned' /\ DiskBehindMemory' /\ Queued(disk)'
    BY <1>2, <1>7, <1>10, ShrinkOrder
<1>12. Queued(mem)'
  <2>1. \A i, j \in rest : SameItem(i, j) => i = j
      BY <1>5, <1>6
  <2>2. \A j \in rest : j.cursor_seq # 0 /\ (mem.batch # NoBatch => j.cursor_seq < mem.batch.cursor_seq)
      BY <1>8 DEF IInv, Queued
  <2> QED
      BY <1>7, <2>1, <2>2 DEF IInv, Queued
<1>13. FetchInOrder'
    BY <1>2, <1>7, <1>8 DEF IInv, FetchInOrder
<1>14. FlushInOrder'
    BY <1>2, <1>7, <1>8 DEF IInv, FlushInOrder
<1>15. QueueReaders'
    BY <1>2, <1>9 DEF IInv, QueueReaders
<1> QED
    BY <1>1, <1>11, <1>12, <1>13, <1>14, <1>15 DEF IInv

LEMMA ReplayingOrder == IInv /\ Replaying => IInv'
BY ReplayReadsOrder, ReplayCommitOrder, ReplayRestOrder DEF Replaying

LEMMA SweepingOrder == IInv /\ Sweeping => IInv'
<1> SUFFICES ASSUME IInv, Sweeping PROVE IInv'
    OBVIOUS
<1>1. TypeOK /\ TypeOK'
    BY SweepingType DEF IInv
<1>2. CASE SweepSelect \/ SweepEnds
  <2>1. UNCHANGED <<mem, disk, mail, cursor, fetch, flush, replay>>
      BY <1>2 DEF SweepSelect, SweepEnds, sweepRest, storeVars, serverVars
  <2>2. sweep'.archive \subseteq sweep.archive \cup mem.pending
      BY <1>2 DEF SweepSelect, SweepEnds, SweepIdle
  <2>3. InFlight' \subseteq Carried
      BY <2>1, <2>2 DEF InFlight, Carried, Markers
  <2>4. FlushInOrder' /\ QueueReaders'
      BY <2>1, <2>2 DEF IInv, FlushInOrder, QueueReaders, Queued
  <2> QED
      BY <1>1, <2>1, <2>3, <2>4, HandsOrder
<1>3. CASE SweepArchive
  <2> DEFINE gone == sweep.archive
             ids  == UNION {i.messages : i \in gone}
             kept == {i \in mem.pending : \A j \in gone : ~SameItem(i, j)}
  <2>1. PICK newest \in gone :
          mem' = [Commit(mem, newest.cursor_seq, newest.next_cursor, ids) EXCEPT !.pending = kept]
      BY <1>3 DEF SweepArchive, Mutate
  <2>2. UNCHANGED <<disk, mail, cursor, fetch, flush, replay>> /\ sweep'.archive = {}
      BY <1>3 DEF SweepArchive, Mutate, sweepRest, serverVars, SweepIdle
  <2>3. /\ newest \in Items /\ Marker(newest) \in Carried /\ newest.cursor_seq # 0
      BY <1>1, <2>1 DEF TypeOK, Sweeps, Carried, InFlight, IInv, QueueReaders
  <2>4. ids \in SUBSET Letters /\ kept \in SUBSET mem.pending
      BY <1>1 DEF TypeOK, Sweeps, Items
  <2>5. InFlight' \in SUBSET Carried /\ QueueReaders'
      BY <2>2 DEF InFlight, Carried, IInv, QueueReaders
  <2> HIDE DEF ids, kept
  <2> QED
      BY <1>1, <2>1, <2>2, <2>3, <2>4, <2>5, ItemAckOrder
<1> QED
    BY <1>2, <1>3 DEF Sweeping

\* In a persisted or remembered state the acked position is not ahead of the
\* fetched one.
LEMMA AckedBehindFetched ==
    ASSUME IInv
    PROVE  /\ mem.watch_cursor <= mem.fetch_cursor /\ mem.acked_seq <= mem.cursor_seq
           /\ disk.watch_cursor <= disk.fetch_cursor /\ disk.acked_seq <= disk.cursor_seq
<1>1. <<mem.acked_seq, mem.watch_cursor>> \in Markers(mem)
      /\ <<mem.cursor_seq, mem.fetch_cursor>> \in Markers(mem)
    BY DEF Markers
<1>2. <<disk.acked_seq, disk.watch_cursor>> \in Markers(disk)
      /\ <<disk.cursor_seq, disk.fetch_cursor>> \in Markers(disk)
    BY DEF Markers
<1> QED
    BY <1>1, <1>2 DEF IInv, MarkersAligned, Aligned

LEMMA StoringOrder == IInv /\ Storing => IInv'
<1> SUFFICES ASSUME IInv, Storing PROVE IInv'
    OBVIOUS
<1>1. TypeOK /\ TypeOK'
    BY StoringType DEF IInv
<1>2. CASE (\E paused \in BOOLEAN : SetMute(paused)) \/ Rewrite
  <2>1. UNCHANGED <<disk, mail, cursor, fetch, flush, replay, sweep>>
      BY <1>2 DEF SetMute, Rewrite, Mutate, serverVars, processes
  <2>2. /\ mem'.cursor_seq = mem.cursor_seq /\ mem'.fetch_cursor = mem.fetch_cursor
        /\ mem'.acked_seq = mem.acked_seq /\ mem'.watch_cursor = mem.watch_cursor
        /\ mem'.batch = mem.batch /\ mem'.pending = mem.pending
      BY <1>1, <1>2, Numbers DEF SetMute, Rewrite, Mutate, States
  <2>3. Carried' \subseteq Carried
      BY <2>1, <2>2 DEF Carried, Markers, InFlight
  <2>4. MarkersAligned' /\ DiskBehindMemory' /\ Queued(disk)'
      BY <2>1, <2>2, <2>3, ShrinkOrder
  <2>5. Queued(mem)' /\ FetchInOrder' /\ FlushInOrder' /\ QueueReaders'
      BY <2>1, <2>2 DEF IInv, Queued, FetchInOrder, FlushInOrder, QueueReaders
  <2> QED
      BY <1>1, <2>4, <2>5 DEF IInv
<1>3. CASE Persisted
  <2>1. disk' = mem /\ UNCHANGED <<mem, mail, cursor, fetch, flush, replay, sweep>>
      BY <1>3 DEF Persisted, serverVars, processes
  <2>2. Markers(disk)' = Markers(mem) /\ Carried' = Carried /\ disk'.cursor_seq = mem.cursor_seq
      BY <2>1 DEF Carried, Markers, InFlight
  <2>3. MarkersAligned'
      BY <2>1, <2>2, AlignedShrink DEF IInv, MarkersAligned, Carried
  <2>4. DiskBehindMemory'
      BY <1>1, <2>1, Numbers DEF IInv, DiskBehindMemory, FetchInOrder
  <2>5. Queued(mem)' /\ Queued(disk)' /\ FetchInOrder' /\ FlushInOrder' /\ QueueReaders'
      BY <2>1, FrameOrder DEF IInv, Queued
  <2> QED
      BY <1>1, <2>3, <2>4, <2>5 DEF IInv
<1>4. CASE WriteFails
  <2>1. UNCHANGED <<mem, disk, mail, cursor, sweep>>
      BY <1>4 DEF WriteFails, serverVars
  <2>2. fetch' = fetch \/ (fetch'.pc = "idle" /\ fetch'.last = 0)
      BY <1>4 DEF WriteFails, FetchIdle
  <2>3. flush' = flush \/ (flush'.pc \in {"idle", "settle"} /\ Marker(flush') = <<0, 0>>)
      BY <1>4 DEF WriteFails, FlushIdle, Marker
  <2>4. replay' = replay \/ (replay'.pc = "rest" /\ replay'.due = {} /\ replay'.item = NoItem)
      BY <1>4 DEF WriteFails, ReplayIdle
  <2>5. Carried' \subseteq Carried
    <3>1. Marker(NoItem) = <<0, 0>>
        BY DEF Marker, NoItem
    <3> QED
        BY <2>1, <2>3, <2>4, <3>1 DEF Carried, InFlight, Markers
  <2>6. MarkersAligned' /\ DiskBehindMemory' /\ Queued(mem)' /\ Queued(disk)'
      BY <2>1, <2>5, ShrinkOrder, FrameOrder
  <2>7. FetchInOrder'
      BY <1>1, <2>1, <2>2, Numbers DEF IInv, FetchInOrder
  <2>8. FlushInOrder' /\ QueueReaders'
      BY <2>1, <2>3, <2>4 DEF IInv, FlushInOrder, QueueReaders
  <2> QED
      BY <1>1, <2>6, <2>7, <2>8 DEF IInv
<1> QED
    BY <1>2, <1>3, <1>4 DEF Storing

LEMMA CrashOrder == IInv /\ CrashAndRestart => IInv'
<1> SUFFICES ASSUME IInv, CrashAndRestart PROVE IInv'
    OBVIOUS
<1>1. TypeOK /\ TypeOK'
    BY CrashType DEF IInv
<1>2. mem' = disk /\ UNCHANGED <<disk, mail>>
    BY DEF CrashAndRestart, serverVars
<1>3. /\ fetch'.pc = "idle" /\ fetch'.last = 0 /\ flush'.pc = "idle"
      /\ replay'.pc = "idle" /\ replay'.due = {} /\ sweep'.archive = {}
      /\ Marker(flush') = <<0, 0>> /\ Marker(replay'.item) = <<0, 0>>
    BY DEF CrashAndRestart, FetchIdle, FlushIdle, ReplayIdle, SweepIdle, NoItem, Marker
<1>4. MarkersAligned'
  <2>1. Carried' = Markers(disk)
      BY <1>2, <1>3 DEF Carried, InFlight, Markers
  <2> QED
      BY <1>2, <2>1 DEF IInv, MarkersAligned, Carried
<1>5. DiskBehindMemory'
    BY <1>1, <1>2, Numbers DEF IInv, DiskBehindMemory
<1>6. Queued(mem)' /\ Queued(disk)'
    BY <1>2 DEF IInv
<1>7. FetchInOrder'
  <2>1. disk.watch_cursor <= disk.fetch_cursor /\ disk.fetch_cursor <= mail
      BY AckedBehindFetched DEF IInv, DiskBehindMemory
  <2>2. cursor' = IF disk.fetch_cursor # 0 THEN disk.fetch_cursor ELSE disk.watch_cursor
      BY DEF CrashAndRestart
  <2> QED
      BY <1>1, <1>2, <1>3, <2>1, <2>2, Numbers DEF FetchInOrder
<1>8. FlushInOrder' /\ QueueReaders'
    BY <1>3 DEF FlushInOrder, QueueReaders
<1> QED
    BY <1>1, <1>4, <1>5, <1>6, <1>7, <1>8 DEF IInv

LEMMA StutterOrder == IInv /\ UNCHANGED vars => IInv'
<1> SUFFICES ASSUME IInv, UNCHANGED vars PROVE IInv'
    OBVIOUS
<1>1. TypeOK'
    BY StutterType DEF IInv
<1> QED
    BY <1>1, FrameOrder DEF IInv, vars, serverVars, storeVars

\* The order of the cursors is inductive: every step of the daemon, of the
\* server, of the instance and every crash keeps each marker the daemon carries
\* in line with the sequence it was minted under.
THEOREM CursorsInOrder == Spec => []IInv
<1>1. Init => IInv
    BY InitOrder
<1>2. IInv /\ [Next]_vars => IInv'
  <2> SUFFICES ASSUME IInv, [Next]_vars PROVE IInv'
      OBVIOUS
  <2> QED
      BY EnvironmentOrder, FetchingOrder, FlushingOrder, ReplayingOrder, SweepingOrder,
         StoringOrder, CrashOrder, StutterOrder DEF Next
<1> QED
    BY <1>1, <1>2, PTL DEF Spec

\* The position that commitCursor acks never overtakes the one that
\* noteFetchCursor recorded, in memory or in state.json, and neither is ahead of
\* the server's stream.
THEOREM AckBehindFetch == Spec => []CursorBehindFetch
<1>1. IInv => CursorBehindFetch
  <2> SUFFICES ASSUME IInv PROVE CursorBehindFetch
      OBVIOUS
  <2>1. mem.fetch_cursor <= mail
      BY Numbers DEF IInv, FetchInOrder
  <2> QED
      BY <2>1, AckedBehindFetched DEF CursorBehindFetch
<1> QED
    BY <1>1, CursorsInOrder, PTL

\* No two parked batches carry the same cursor_seq, so the removal of one by
\* replayPending or the sweep never takes another with it.
THEOREM ParkedAreDistinct == Spec => []PendingSeqsAreDistinct
<1>1. IInv => PendingSeqsAreDistinct
    BY DEF IInv, Queued, PendingSeqsAreDistinct
<1> QED
    BY <1>1, CursorsInOrder, PTL

\* Across acks in any order, failed writes and restarts, the watch_cursor and
\* the acked_seq found in state.json never move back.
THEOREM PersistedNeverRegresses == Spec => PersistedCursorIsMonotone
<1> DEFINE Forward == disk'.watch_cursor >= disk.watch_cursor /\ disk'.acked_seq >= disk.acked_seq
<1>1. IInv /\ [Next]_vars => [Forward]_vars
  <2> SUFFICES ASSUME IInv, Next PROVE Forward
      OBVIOUS
  <2>1. disk' \in {disk, mem}
    <3>1. CASE Environment
        BY <3>1 DEF Environment, Arrive, Close, Register, HeartbeatLapses, Prune, storeVars
    <3>2. CASE Fetching
        BY <3>2 DEF Fetching, Trigger, FetchPage, FetchFails, NoteFetchCursor, ReadMute,
           TrackSilently, Enqueue, FetchEnds, BootPage, OlderPage, Adopt, MarkEmpty, Baseline,
           Mutate, storeVars
    <3>3. CASE Flushing
        BY <3>3 DEF Flushing, FlushTimerFires, RetryTimerFires, ReconcileRead, Filter, Delivered,
           Refused, DeliverFails, AckBatch, ClearBatch, ToPending, FlushSettles, Mutate, storeVars
    <3>4. CASE Replaying
        BY <3>4 DEF Replaying, ReplayStart, ReplayPick, ReplayEnds, Redelivered, RedeliveryFails,
           ReplayCommit, ReplayRest, Mutate, storeVars
    <3>5. CASE Sweeping \/ Storing \/ CrashAndRestart
        BY <3>5 DEF Sweeping, SweepSelect, SweepArchive, SweepEnds, Storing, SetMute, Rewrite,
           Persisted, WriteFails, CrashAndRestart, Mutate, storeVars
    <3> QED
        BY <3>1, <3>2, <3>3, <3>4, <3>5 DEF Next
  <2> QED
      BY <2>1, Numbers DEF IInv, DiskBehindMemory
<1> QED
    BY <1>1, CursorsInOrder, PTL DEF Spec, PersistedCursorIsMonotone
=============================================================================
