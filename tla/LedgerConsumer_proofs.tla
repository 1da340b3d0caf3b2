------------------------ MODULE LedgerConsumer_proofs ------------------------
(***************************************************************************)
(* Theorems about LedgerConsumer, for every number of hosts, letters,      *)
(* lines and failures, and every limit of a round and of a page.  Three    *)
(* inductive invariants, each on top of the first: LInv (types, and what a *)
(* process has said is in its ring), CoverInv (what the cursor, the rings  *)
(* and the rounds in flight stand for is covered), HistoryInv (what was    *)
(* left silent as history is history).                                     *)
(***************************************************************************)
EXTENDS LedgerConsumer, WellFoundedInduction, TLAPS

USE BoundsAssumption, ConfigAssumption

\* What a round has read of the ledger is still there: the platform only appends.
ReadIsThere == \A h \in Hosts : round[h].len <= Len(ledger)

\* What a life of a host has said, its ring remembers (deliverBatch notes before it
\* wakes; both go with the process).
RingRemembers == \A h \in Hosts : heard[h] \subseteq announced[h]

LInv == TypeOK /\ ReadIsThere /\ RingRemembers /\ ToldOncePerLife

----------------------------------------------------------------------------
(* Positions.                                                              *)

\* A set of lines of a file of len lines has a last one.
LEMMA LastLine ==
    ASSUME NEW len \in Nat, NEW S \in SUBSET (1..len), S # {}
    PROVE  \E i \in S : \A j \in S : j <= i
<1> DEFINE T == {n \in 0..len : len - n \in S}
<1>1. T \in SUBSET Nat /\ T # {}
    <2>1. T \in SUBSET Nat
        OBVIOUS
    <2>2. PICK i \in S : TRUE
        OBVIOUS
    <2>3. len - i \in T
        BY <2>2
    <2> QED BY <2>1, <2>3
<1>2. \E x \in T : \A y \in T : ~(y < x)
    <2> HIDE DEF T
    <2> DEFINE Below == OpToRel(<, Nat)
    <2>1. \E x \in T : \A y \in T : ~(<<y, x>> \in Below)
        BY <1>1, NatLessThanWellFounded, WFMin
    <2> QED BY <1>1, <2>1 DEF OpToRel
<1>3. PICK x \in T : \A y \in T : ~(y < x)
    BY <1>2
<1>4. PICK i \in S : i = len - x
    BY <1>3
<1>5. ASSUME NEW j \in S PROVE j <= i
    <2>1. len - j \in T
        OBVIOUS
    <2>2. x \in Nat /\ i \in 1..len /\ j \in 1..len
        OBVIOUS
    <2> HIDE DEF T
    <2> QED BY <1>3, <1>4, <2>1, <2>2
<1> QED BY <1>5

\* A position is a line among those read, or zero.
LEMMA PositionRange ==
    ASSUME NEW len \in Nat, NEW a
    PROVE  /\ Position(a, len) \in 0..len
           /\ Position(a, len) # 0 => ledger[Position(a, len)] = a
           /\ \A i \in 1..len : ledger[i] = a => i <= Position(a, len)
<1> DEFINE at == {i \in 1..len : ledger[i] = a}
<1>1. CASE at = {}
    BY <1>1 DEF Position
<1>2. CASE at # {}
    <2>1. at \in SUBSET (1..len)
        OBVIOUS
    <2>2. \E i \in at : \A j \in at : j <= i
        <3> HIDE DEF at
        <3> QED BY <1>2, <2>1, LastLine
    <2>3. Position(a, len) = CHOOSE i \in at : \A j \in at : j <= i
        BY <1>2 DEF Position
    <2>4. Position(a, len) \in at /\ \A j \in at : j <= Position(a, len)
        <3> HIDE DEF at
        <3> QED BY <2>2, <2>3
    <2> QED BY <2>4
<1> QED BY <1>1, <1>2

\* The same of the cursor's line, in the state after a step.
CursorLine == Position(cursor, Len(ledger))

LEMMA CursorLineNext ==
    ASSUME NEW len \in Nat, Len(ledger') = len
    PROVE  /\ CursorLine' \in 0..len
           /\ CursorLine' # 0 => ledger'[CursorLine'] = cursor'
           /\ \A i \in 1..len : ledger'[i] = cursor' => i <= CursorLine'
<1> DEFINE at == {i \in 1..len : ledger'[i] = cursor'}
<1>1. CursorLine' = IF at = {} THEN 0 ELSE CHOOSE i \in at : \A j \in at : j <= i
    BY DEF CursorLine, Position
<1>2. at \in SUBSET (1..len)
    OBVIOUS
<1>3. \A i \in at : i \in 1..len /\ ledger'[i] = cursor'
    OBVIOUS
<1>4. \A i \in 1..len : ledger'[i] = cursor' => i \in at
    OBVIOUS
<1> HIDE DEF at
<1>5. at # {} => \E i \in at : \A j \in at : j <= i
    BY <1>2, LastLine
<1>6. at # {} => CursorLine' \in at /\ \A j \in at : j <= CursorLine'
    BY <1>1, <1>5
<1>7. CASE at = {}
    <2>1. CursorLine' = 0
        BY <1>1, <1>7
    <2>2. \A i \in 1..len : ledger'[i] # cursor'
        BY <1>4, <1>7
    <2> QED BY <2>1, <2>2
<1>8. CASE at # {}
    <2>1. CursorLine' \in 1..len /\ ledger'[CursorLine'] = cursor'
        BY <1>3, <1>6, <1>8
    <2>2. \A i \in 1..len : ledger'[i] = cursor' => i <= CursorLine'
        BY <1>4, <1>6, <1>8
    <2> QED BY <2>1, <2>2
<1> QED BY <1>7, <1>8

\* The last line of a round is one of those read, and is not before the cursor.
LEMMA RoundEndRange ==
    ASSUME NEW len \in Nat, NEW a
    PROVE  RoundEnd(a, len) \in Position(a, len)..len
BY PositionRange DEF RoundEnd, IsBaseline

\* What a commit writes is a letter, or the empty mark.
LEMMA NextAnchorType ==
    ASSUME ledger \in Seq(Letters), NEW len \in 0..Len(ledger),
           NEW a \in {NoCursor, Empty} \cup Letters
    PROVE  NextAnchor(a, len) \in {Empty} \cup Letters
<1>1. RoundEnd(a, len) > Position(a, len) =>
          RoundEnd(a, len) \in 1..Len(ledger) /\ ledger[RoundEnd(a, len)] \in Letters
    BY RoundEndRange, PositionRange
<1> QED BY <1>1 DEF NextAnchor, NoCursor, Empty

LEMMA LinesType ==
    ASSUME ledger \in Seq(Letters), NEW S
    PROVE  LinesAt(S) \subseteq Letters
BY DEF LinesAt

----------------------------------------------------------------------------
(* The invariant.                                                          *)

LEMMA IdleType == Idle \in Rounds /\ Off \in Rounds /\ Idle.len = 0 /\ Off.len = 0
BY DEF Idle, Off, Rounds, Pcs, NoCursor, Empty

LEMMA LedgerInit == Init => LInv
<1> SUFFICES ASSUME Init PROVE LInv
    OBVIOUS
<1>1. ledger \in Seq(Letters) /\ Len(ledger) \in Nat
    <2>1. CASE ledger = <<>>
        BY <2>1
    <2>2. ledger = <<>> \/ \E m \in Letters : ledger = <<m>>
        <3>1. mail \in 0..MaxMail
            BY DEF Init
        <3>2. 1..mail \subseteq Letters
            BY <3>1 DEF Letters
        <3> QED BY <3>2 DEF Init
    <2>3. ASSUME NEW m \in Letters, ledger = <<m>>
          PROVE  ledger \in Seq(Letters) /\ Len(ledger) = 1
        BY <2>3
    <2> QED BY <2>1, <2>2, <2>3
<1>2. TypeOK
    BY <1>1, IdleType DEF Init, TypeOK, Exposures, Letters
<1>3. ReadIsThere
    BY <1>1, IdleType DEF Init, ReadIsThere
<1> QED BY <1>2, <1>3 DEF Init, LInv, RingRemembers, ToldOncePerLife

\* A step of one round.
LEMMA RoundStep ==
    ASSUME LInv, NEW h \in Hosts, NEW r \in Rounds, r.len <= Len(ledger),
           UNCHANGED ledger, round' = [round EXCEPT ![h] = r]
    PROVE  round' \in [Hosts -> Rounds] /\ ReadIsThere'
BY DEF LInv, TypeOK, ReadIsThere

LEMMA CommitStep ==
    ASSUME LInv, NEW h \in Hosts, NEW r, UNCHANGED ledger, Commit(h, r),
           r.to \in Nat, r.next \in {Empty} \cup Letters, r.acked \subseteq Letters
    PROVE  round' \in [Hosts -> Rounds] /\ ReadIsThere' /\ seen' \in [Hosts -> SUBSET Letters]
<1> DEFINE w == [Idle EXCEPT !.pc = "write", !.to = r.to, !.next = r.next]
<1>1. w \in Rounds /\ w.len = 0
    BY IdleType DEF Rounds, Pcs, Idle
<1>2. Len(ledger) \in Nat
    BY DEF LInv, TypeOK
<1>3. round' = [round EXCEPT ![h] = w]
    BY DEF Commit
<1>4. round' \in [Hosts -> Rounds] /\ ReadIsThere'
    <2> HIDE DEF w
    <2>1. w.len <= Len(ledger)
        BY <1>1, <1>2
    <2> QED BY <1>1, <1>3, <2>1, RoundStep, Zenon
<1>5. seen' \in [Hosts -> SUBSET Letters]
    BY DEF Commit, LInv, TypeOK
<1> QED BY <1>4, <1>5

LEMMA IdleStep ==
    ASSUME LInv, NEW h \in Hosts, UNCHANGED ledger, round' = [round EXCEPT ![h] = Idle]
    PROVE  round' \in [Hosts -> Rounds] /\ ReadIsThere'
<1>1. Len(ledger) \in Nat
    BY DEF LInv, TypeOK
<1>2. Idle \in Rounds /\ Idle.len <= Len(ledger)
    BY <1>1, IdleType
<1> QED BY <1>2, RoundStep, Zenon

----------------------------------------------------------------------------
(* One lemma per action.                                                   *)

LEMMA EnvironmentKeeps == LInv /\ Environment => LInv'
<1> SUFFICES ASSUME LInv, Environment PROVE LInv'
    OBVIOUS
<1> USE DEF LInv
<1>0. Len(ledger) \in Nat /\ 1..mail \subseteq Letters
    BY DEF TypeOK, Letters
<1>1. CASE Arrive
    <2>1. mail' \in 0..MaxMail
        BY <1>1 DEF Arrive, TypeOK
    <2> QED BY <1>1, <2>1 DEF Arrive, TypeOK, ReadIsThere, RingRemembers, ToldOncePerLife,
                              rings, faults, history, notes
<1>2. ASSUME NEW m \in Letters, Close(m) PROVE LInv'
    <2>1. closed' \in SUBSET Letters
        BY <1>2 DEF Close, TypeOK
    <2> QED BY <1>2, <2>1 DEF Close, TypeOK, ReadIsThere, RingRemembers, ToldOncePerLife,
                              rings, faults, history, notes
<1>3. ASSUME NEW m \in Letters, AppendLine(m) PROVE LInv'
    <2>1. ledger' \in Seq(Letters) /\ Len(ledger') = Len(ledger) + 1
        BY <1>3 DEF AppendLine, TypeOK
    <2>2. exposed' \in Exposures
        BY <1>3, LinesType DEF AppendLine, TypeOK, Exposures
    <2>3. ReadIsThere'
        <3> SUFFICES ASSUME NEW h \in Hosts PROVE round'[h].len <= Len(ledger')
            BY DEF ReadIsThere
        <3>1. round[h].len \in Nat /\ round[h].len <= Len(ledger) /\ round'[h] = round[h]
            BY <1>3 DEF AppendLine, ReadIsThere, TypeOK, Rounds
        <3> QED BY <1>0, <2>1, <3>1
    <2> QED BY <1>3, <2>1, <2>2, <2>3 DEF AppendLine, TypeOK, RingRemembers, ToldOncePerLife,
                              rings, faults, notes, serverVars
<1>4. ASSUME NEW h \in Hosts, Start(h) PROVE LInv'
    <2>1. round' \in [Hosts -> Rounds] /\ ReadIsThere'
        BY <1>4, IdleStep DEF Start
    <2> QED BY <1>4, <2>1 DEF Start, TypeOK, RingRemembers, ToldOncePerLife,
                              rings, faults, history, notes, serverVars
<1>5. ASSUME NEW h \in Hosts, Exit(h) PROVE LInv'
    <2>1. round' \in [Hosts -> Rounds] /\ ReadIsThere'
        <3>1. Off \in Rounds /\ Off.len <= Len(ledger)
            BY <1>0, IdleType
        <3>2. UNCHANGED ledger /\ round' = [round EXCEPT ![h] = Off]
            BY <1>5 DEF Exit
        <3> QED BY <3>1, <3>2, RoundStep, Zenon DEF LInv
    <2>2. exits' \in 0..MaxExits
        BY <1>5 DEF Exit, TypeOK
    <2>3. RingRemembers'
        BY <1>5 DEF Exit, TypeOK, RingRemembers
    <2> QED BY <1>5, <2>1, <2>2, <2>3 DEF Exit, TypeOK, ToldOncePerLife, serverVars
<1> QED BY <1>1, <1>2, <1>3, <1>4, <1>5 DEF Environment

LEMMA TickKeeps == ASSUME LInv, NEW h \in Hosts, Tick(h) PROVE LInv'
<1> DEFINE r == [Idle EXCEPT !.pc = "cursor", !.len = Len(ledger)]
<1>1. Len(ledger) \in Nat
    BY DEF LInv, TypeOK
<1>2. r \in Rounds /\ r.len <= Len(ledger)
    <2>1. r \in Rounds
        BY <1>1, IdleType DEF Rounds, Pcs
    <2>2. r.len = Len(ledger)
        BY DEF Idle
    <2> QED BY <1>1, <2>1, <2>2
<1>3. UNCHANGED ledger /\ round' = [round EXCEPT ![h] = r]
    BY DEF Tick, stepRest
<1>4. round' \in [Hosts -> Rounds] /\ ReadIsThere'
    <2> HIDE DEF r
    <2> QED BY <1>2, <1>3, RoundStep, Zenon
<1> QED BY <1>4 DEF LInv, Tick, TypeOK, RingRemembers, ToldOncePerLife,
                    stepRest, rings, history, notes, serverVars

LEMMA ReadCursorKeeps ==
    ASSUME LInv, NEW h \in Hosts, NEW failed \in BOOLEAN, NEW due \in BOOLEAN,
           ReadCursor(h, failed, due)
    PROVE  LInv'
<1> USE DEF LInv
<1> DEFINE len == round[h].len
           a == IF failed THEN NoCursor ELSE cursor
           fresh == LinesAt(Position(a, len) + 1 .. RoundEnd(a, len)) \ seen[h]
           topUp == ~AnchorFound(a, len) \/ due
           r == [Idle EXCEPT !.to = RoundEnd(a, len), !.next = NextAnchor(a, len)]
           c == [r EXCEPT !.acked = fresh]
           p == [r EXCEPT !.pc = "page", !.fresh = fresh, !.topUp = topUp,
                          !.anchor = IF topUp THEN a ELSE NoCursor]
<1>1. /\ ledger \in Seq(Letters) /\ Len(ledger) \in Nat
      /\ a \in {NoCursor, Empty} \cup Letters
      /\ len \in 0..Len(ledger)
    BY DEF TypeOK, ReadIsThere, Rounds
<1>2. /\ fresh \subseteq Letters
      /\ RoundEnd(a, len) \in Nat
      /\ NextAnchor(a, len) \in {Empty} \cup Letters
    <2>1. len \in Nat /\ RoundEnd(a, len) \in Position(a, len)..len /\ Position(a, len) \in 0..len
        BY <1>1, RoundEndRange, PositionRange
    <2>2. NextAnchor(a, len) \in {Empty} \cup Letters
        BY <1>1, NextAnchorType
    <2> QED BY <1>1, <2>1, <2>2, LinesType
<1>3. UNCHANGED <<ledger, mail, closed, exits, cursor, announced, told, heard, repeated, muted,
                  inherited>>
    BY DEF ReadCursor, stepRest, serverVars, notes
<1>4. breaks' \in 0..MaxBreaks
    BY DEF ReadCursor, Break, TypeOK
<1>5. \/ /\ Commit(h, c)
         /\ baselined' \in {baselined, baselined \cup (fresh \ Settled)}
         /\ exposed' \in {exposed, [exposed EXCEPT !.blinded = @ \cup (fresh \ Settled)]}
      \/ /\ round' \in {[round EXCEPT ![h] = Idle], [round EXCEPT ![h] = p]}
         /\ UNCHANGED <<seen, baselined, exposed>>
    BY DEF ReadCursor
<1>6. c.to \in Nat /\ c.next \in {Empty} \cup Letters /\ c.acked \subseteq Letters
    <2> HIDE DEF fresh, len, a
    <2> QED BY <1>2 DEF Idle
<1>7. p \in Rounds /\ p.len <= Len(ledger)
    <2>1. topUp \in BOOLEAN
        BY DEF AnchorFound
    <2> HIDE DEF fresh, len, a, topUp
    <2>2. p.len = 0
        BY DEF Idle
    <2>3. p \in Rounds
        BY <1>1, <1>2, <2>1, IdleType, ZenonT(30) DEF Rounds, Pcs
    <2> QED BY <1>1, <2>2, <2>3
<1> HIDE DEF c, p, fresh
<1>8. round' \in [Hosts -> Rounds] /\ ReadIsThere' /\ seen' \in [Hosts -> SUBSET Letters]
    <2>1. CASE Commit(h, c)
        BY <1>3, <1>6, <2>1, CommitStep
    <2>2. CASE round' = [round EXCEPT ![h] = Idle] /\ UNCHANGED seen
        BY <1>3, <2>2, IdleStep DEF TypeOK
    <2>3. CASE round' = [round EXCEPT ![h] = p] /\ UNCHANGED seen
        <3>1. round' \in [Hosts -> Rounds] /\ ReadIsThere'
            BY <1>3, <1>7, <2>3, RoundStep, Zenon
        <3> QED BY <2>3, <3>1 DEF TypeOK
    <2> QED BY <1>5, <2>1, <2>2, <2>3
<1>9. baselined' \in SUBSET Letters /\ exposed' \in Exposures
    BY <1>2, <1>5 DEF TypeOK, Exposures
<1> QED BY <1>3, <1>4, <1>8, <1>9 DEF TypeOK, RingRemembers, ToldOncePerLife

LEMMA PassOverType ==
    ASSUME LInv, NEW r, r.acked \subseteq Letters, PassOver(r)
    PROVE  exposed' \in Exposures
BY DEF LInv, TypeOK, Exposures, PassOver

LEMMA FetchPageKeeps == ASSUME LInv, NEW h \in Hosts, FetchPage(h) PROVE LInv'
<1> USE DEF LInv
<1> DEFINE page == Newest(1..mail \ closed, PageLimit)
           r == round[h]
           more == IF r.topUp THEN Newest(page \ (seen[h] \cup {r.anchor} \cup r.fresh), MaxPerRound)
                   ELSE {}
           got == [Idle EXCEPT !.pc = "deliver", !.to = r.to, !.next = r.next,
                               !.deliver = (r.fresh \cap page) \cup more,
                               !.acked = r.fresh \cup more]
<1>1. Len(ledger) \in Nat /\ r \in Rounds
    BY DEF TypeOK
<1>2. UNCHANGED <<ledger, mail, closed, exits, cursor, announced, breaks, told, heard, repeated,
                  baselined, muted, inherited>>
    BY DEF FetchPage, stepRest, serverVars, notes
<1>3. more \subseteq Letters
    <2>1. 1..mail \subseteq Letters
        BY DEF TypeOK, Letters
    <2> QED BY <2>1 DEF Newest
<1>4. got \in Rounds /\ got.len <= Len(ledger)
    <2> HIDE DEF more, page
    <2>1. got.len = 0
        BY DEF Idle
    <2>2. got \in Rounds
        BY <1>1, <1>3, IdleType DEF Rounds, Pcs
    <2> QED BY <1>1, <2>1, <2>2
<1>5. \/ Commit(h, got) /\ PassOver(got)
      \/ round' = [round EXCEPT ![h] = got] /\ UNCHANGED <<seen, exposed>>
    BY DEF FetchPage
<1> HIDE DEF got, more, page
<1>6. /\ round' \in [Hosts -> Rounds] /\ ReadIsThere' /\ seen' \in [Hosts -> SUBSET Letters]
      /\ exposed' \in Exposures
    <2>1. CASE Commit(h, got) /\ PassOver(got)
        <3>1. got.to \in Nat /\ got.next \in {Empty} \cup Letters /\ got.acked \subseteq Letters
            BY <1>4 DEF Rounds
        <3> QED BY <1>2, <2>1, <3>1, CommitStep, PassOverType
    <2>2. CASE round' = [round EXCEPT ![h] = got] /\ UNCHANGED <<seen, exposed>>
        <3>1. round' \in [Hosts -> Rounds] /\ ReadIsThere'
            BY <1>2, <1>4, <2>2, RoundStep, Zenon
        <3> QED BY <2>2, <3>1 DEF TypeOK
    <2> QED BY <1>5, <2>1, <2>2
<1> QED BY <1>2, <1>6 DEF TypeOK, RingRemembers, ToldOncePerLife

\* A round that ends without a commit.
LEMMA GivingUpKeeps ==
    ASSUME LInv, NEW h \in Hosts, FetchPageFails(h) \/ NobodyListens(h) \/ WriteFails(h)
    PROVE  LInv'
<1> USE DEF LInv
<1>1. /\ UNCHANGED <<ledger, mail, closed, exits, cursor, seen, announced, told, heard, repeated,
                     baselined, muted, inherited, exposed>>
      /\ round' = [round EXCEPT ![h] = Idle]
      /\ breaks' \in 0..MaxBreaks
    BY DEF FetchPageFails, NobodyListens, WriteFails, Break, stepRest, serverVars, rings, history,
           notes, TypeOK
<1>2. round' \in [Hosts -> Rounds] /\ ReadIsThere'
    BY <1>1, IdleStep, Zenon
<1> QED BY <1>1, <1>2 DEF TypeOK, RingRemembers, ToldOncePerLife

\* What both ways of a commit with letters to say leave.
LEMMA CommitKeeps ==
    ASSUME LInv, NEW h \in Hosts, Commit(h, round[h]), PassOver(round[h]), UNCHANGED ledger
    PROVE  /\ round' \in [Hosts -> Rounds] /\ ReadIsThere' /\ seen' \in [Hosts -> SUBSET Letters]
           /\ exposed' \in Exposures
<1>1. /\ round[h].to \in Nat /\ round[h].next \in {Empty} \cup Letters
      /\ round[h].acked \subseteq Letters
    BY DEF LInv, TypeOK, Rounds
<1> QED BY <1>1, CommitStep, PassOverType

LEMMA PassMutedKeeps == ASSUME LInv, NEW h \in Hosts, PassMuted(h) PROVE LInv'
<1>1. /\ round' \in [Hosts -> Rounds] /\ ReadIsThere' /\ seen' \in [Hosts -> SUBSET Letters]
      /\ exposed' \in Exposures
    BY CommitKeeps DEF PassMuted, stepRest
<1>2. muted' \in SUBSET Letters
    BY DEF PassMuted, LInv, TypeOK, Rounds
<1> QED BY <1>1, <1>2 DEF LInv, PassMuted, TypeOK, RingRemembers, ToldOncePerLife, stepRest,
                          serverVars, notes

LEMMA DeliverKeeps == ASSUME LInv, NEW h \in Hosts, Deliver(h) PROVE LInv'
<1> USE DEF LInv
<1> DEFINE ids == round[h].deliver \ announced[h]
<1>1. /\ round' \in [Hosts -> Rounds] /\ ReadIsThere' /\ seen' \in [Hosts -> SUBSET Letters]
      /\ exposed' \in Exposures
    BY CommitKeeps DEF Deliver, stepRest
<1>2. round[h].deliver \subseteq Letters
    BY DEF TypeOK, Rounds
<1>3. /\ told' = told \cup ids
      /\ heard' = [heard EXCEPT ![h] = @ \cup ids]
      /\ repeated' = repeated \cup (ids \cap heard[h])
      /\ announced' = [announced EXCEPT ![h] = @ \cup round[h].deliver]
    BY DEF Deliver, Announce
\* A letter heard in this life is in the ring, so it is not among those announced.
<1>4. repeated' = {}
    BY <1>3 DEF RingRemembers, ToldOncePerLife
<1>5. /\ told' \in SUBSET Letters /\ heard' \in [Hosts -> SUBSET Letters]
      /\ announced' \in [Hosts -> SUBSET Letters] /\ RingRemembers'
    BY <1>2, <1>3 DEF TypeOK, RingRemembers
<1> QED BY <1>1, <1>4, <1>5 DEF Deliver, TypeOK, ToldOncePerLife, stepRest, serverVars

LEMMA WriteCursorKeeps == ASSUME LInv, NEW h \in Hosts, WriteCursor(h) PROVE LInv'
<1> USE DEF LInv
<1>1. UNCHANGED ledger /\ round' = [round EXCEPT ![h] = Idle]
    BY DEF WriteCursor, stepRest
<1>2. round' \in [Hosts -> Rounds] /\ ReadIsThere'
    BY <1>1, IdleStep, Zenon
<1>3. cursor' \in {NoCursor, Empty} \cup Letters
    BY DEF WriteCursor, TypeOK, Rounds
<1>4. inherited' \in SUBSET Letters /\ exposed' \in Exposures
    BY LinesType DEF WriteCursor, TypeOK, Exposures
<1> QED BY <1>1, <1>2, <1>3, <1>4 DEF WriteCursor, TypeOK, RingRemembers, ToldOncePerLife,
                                      stepRest, serverVars, rings, notes

----------------------------------------------------------------------------

LEMMA LedgerStep == LInv /\ [Next]_vars => LInv'
<1> SUFFICES ASSUME LInv, [Next]_vars PROVE LInv'
    OBVIOUS
<1>1. CASE Environment
    BY <1>1, EnvironmentKeeps
<1>2. ASSUME NEW h \in Hosts, Consuming(h) PROVE LInv'
    BY <1>2, TickKeeps, ReadCursorKeeps, FetchPageKeeps, GivingUpKeeps, PassMutedKeeps,
       DeliverKeeps, WriteCursorKeeps DEF Consuming, Reads
<1>3. CASE UNCHANGED vars
    BY <1>3 DEF LInv, TypeOK, ReadIsThere, RingRemembers, ToldOncePerLife, vars, serverVars,
                rings, faults, history, notes
<1> QED BY <1>1, <1>2, <1>3 DEF Next

\* Every host, letter, line and cursor has its type in every reachable state: no
\* round selects a line that is not there, and no commit writes an empty cursor
\* (selectFreshEvents, writeConsumerCursor).
THEOREM LedgerTypes == Spec => []TypeOK
<1>1. LInv => TypeOK
    BY DEF LInv
<1> QED BY <1>1, LedgerInit, LedgerStep, PTL DEF Spec

\* A process announces a letter once in its life, for every number of hosts and
\* whatever the ledger, the cursor and its failed reads and writes do
\* (deliverBatch).
THEOREM ToldOnce == Spec => []ToldOncePerLife
<1>1. LInv => ToldOncePerLife
    BY DEF LInv
<1> QED BY <1>1, LedgerInit, LedgerStep, PTL DEF Spec

----------------------------------------------------------------------------
(* What the cursor has passed is covered.  CursorCoversTheSettled is not   *)
(* inductive: the rings and the rounds in flight carry what a later write  *)
(* of the cursor will claim.                                               *)

Covered == Settled \cup Exposed

\* What is in a ring is covered: its letters are passed over without a second look.
RingsAreCovered == \A h \in Hosts : seen[h] \subseteq Covered /\ announced[h] \subseteq told

\* The lines up to the end of a round are covered, but for the letters it still has
\* in hand; and the mark it will write is on the ledger.
RoundIsCovered(r) ==
    /\ r.to <= Len(ledger)
    /\ r.next \in {Empty} \cup LinesAt(DOMAIN ledger)
    /\ r.pc = "page"    => LinesAt(1..r.to) \subseteq Covered \cup r.fresh
    /\ r.pc = "deliver" => LinesAt(1..r.to) \subseteq Covered \cup r.acked
    /\ r.pc = "write"   => LinesAt(1..r.to) \subseteq Covered
RoundsAreCovered == \A h \in Hosts : RoundIsCovered(round[h])

AnchorIsALine == cursor \in {NoCursor, Empty} \cup LinesAt(DOMAIN ledger)

CoverInv == LInv /\ RingsAreCovered /\ RoundsAreCovered /\ AnchorIsALine /\ CursorCoversTheSettled

LEMMA CoverInit == Init => CoverInv
<1> SUFFICES ASSUME Init PROVE CoverInv
    OBVIOUS
<1>1. LInv
    BY LedgerInit
<1>2. \A h \in Hosts : round[h] = Off
    BY DEF Init
<1>3. RoundsAreCovered
    <2>1. Len(ledger) \in Nat
        BY <1>1 DEF LInv, TypeOK
    <2>2. Off.to = 0 /\ Off.next = Empty /\ Off.pc = "off"
        BY DEF Off, Idle
    <2> QED BY <1>2, <2>1, <2>2 DEF RoundsAreCovered, RoundIsCovered
<1>4. CursorCoversTheSettled
    <2>1. Len(ledger) \in Nat /\ DOMAIN ledger = 1..Len(ledger)
          /\ \A i \in 1..Len(ledger) : ledger[i] # cursor
        BY <1>1 DEF LInv, TypeOK, Init, NoCursor, Letters
    <2>2. Position(cursor, Len(ledger)) = 0
        BY <2>1, PositionRange
    <2> QED BY <2>2 DEF CursorCoversTheSettled, LinesAt
<1> QED BY <1>1, <1>3, <1>4 DEF Init, CoverInv, RingsAreCovered, AnchorIsALine

\* What is covered stays so.
LEMMA CoveredGrows == ASSUME LInv, [Next]_vars PROVE Covered \subseteq Covered'
<1> USE DEF Covered, Settled, Exposed, LInv, TypeOK, Exposures
<1>1. CASE Environment
    <2>1. CASE Arrive \/ (\E m \in Letters : Close(m)) \/ (\E h \in Hosts : Start(h) \/ Exit(h))
        BY <2>1 DEF Arrive, Close, Start, Exit, history, serverVars
    <2>2. ASSUME NEW m \in Letters, AppendLine(m) PROVE Covered \subseteq Covered'
        <3>1. UNCHANGED <<told, baselined, muted, closed>>
            BY <2>2 DEF AppendLine, serverVars
        <3>2. \/ exposed' = exposed
              \/ exposed' = [exposed EXCEPT !.skipped =
                      @ \cup (LinesAt(Position(m, Len(ledger)) + 1 .. Len(ledger)) \ Settled)]
            BY <2>2, Zenon DEF AppendLine
        <3> QED BY <3>1, <3>2
    <2> QED BY <1>1, <2>1, <2>2 DEF Environment
<1>2. ASSUME NEW h \in Hosts, Consuming(h) PROVE Covered \subseteq Covered'
    <2> USE DEF stepRest, serverVars, history
    <2>1. CASE Tick(h) \/ FetchPageFails(h) \/ NobodyListens(h) \/ WriteFails(h)
        BY <2>1 DEF Tick, FetchPageFails, NobodyListens, WriteFails
    <2>2. ASSUME NEW failed \in BOOLEAN, NEW due \in BOOLEAN, ReadCursor(h, failed, due)
          PROVE  Covered \subseteq Covered'
        BY <2>2 DEF ReadCursor
    <2>3. CASE FetchPage(h)
        BY <2>3 DEF FetchPage, PassOver
    <2>4. CASE PassMuted(h)
        BY <2>4 DEF PassMuted, PassOver
    <2>5. CASE Deliver(h)
        BY <2>5 DEF Deliver, PassOver, Announce
    <2>6. CASE WriteCursor(h)
        BY <2>6 DEF WriteCursor
    <2> QED BY <1>2, <2>1, <2>2, <2>3, <2>4, <2>5, <2>6 DEF Consuming, Reads
<1>3. CASE UNCHANGED vars
    BY <1>3 DEF vars, serverVars, history
<1> QED BY <1>1, <1>2, <1>3 DEF Next

----------------------------------------------------------------------------
(* What a step keeps of the coverage, by what it leaves alone.             *)

LEMMA OtherRound ==
    ASSUME NEW h \in Hosts, RoundIsCovered(round[h]), Covered \subseteq Covered', UNCHANGED ledger,
           round'[h] = round[h]
    PROVE  RoundIsCovered(round[h])'
<1>1. LinesAt(1..round[h].to)' = LinesAt(1..round[h].to) /\ LinesAt(DOMAIN ledger)' = LinesAt(DOMAIN ledger)
    BY DEF LinesAt
<1> QED BY <1>1 DEF RoundIsCovered

LEMMA RestingRound ==
    ASSUME NEW h \in Hosts, LInv', round'[h].pc \in {"off", "idle", "cursor"}, round'[h].to = 0,
           round'[h].next = Empty
    PROVE  RoundIsCovered(round[h])'
<1>1. Len(ledger') \in Nat
    BY DEF LInv, TypeOK
<1> QED BY <1>1 DEF RoundIsCovered

LEMMA CursorStays ==
    ASSUME CursorCoversTheSettled, AnchorIsALine, Covered \subseteq Covered', UNCHANGED <<ledger, cursor>>
    PROVE  CursorCoversTheSettled' /\ AnchorIsALine'
<1>1. LinesAt(1..Position(cursor, Len(ledger)))' = LinesAt(1..Position(cursor, Len(ledger)))
    BY DEF LinesAt, Position
<1>2. LinesAt(DOMAIN ledger)' = LinesAt(DOMAIN ledger)
    BY DEF LinesAt
<1> QED BY <1>1, <1>2 DEF CursorCoversTheSettled, AnchorIsALine, Covered

LEMMA RingsStay ==
    ASSUME RingsAreCovered, Covered \subseteq Covered', told \subseteq told', UNCHANGED <<seen, announced>>
    PROVE  RingsAreCovered'
BY DEF RingsAreCovered

\* A commit of letters that are covered by then.
LEMMA CommitCovers ==
    ASSUME CoverInv, LInv', NEW h \in Hosts, NEW r, UNCHANGED ledger, Commit(h, r),
           Covered \subseteq Covered',
           r.acked \subseteq Covered', LinesAt(1..r.to) \subseteq Covered',
           r.to <= Len(ledger), r.next \in {Empty} \cup LinesAt(DOMAIN ledger)
    PROVE  RoundsAreCovered' /\ \A g \in Hosts : seen'[g] \subseteq Covered'
<1> USE DEF CoverInv
<1>1. RoundIsCovered(round[h])'
    <2> DEFINE w == [Idle EXCEPT !.pc = "write", !.to = r.to, !.next = r.next]
    <2>1. round'[h] = w
        BY DEF Commit, LInv, TypeOK
    <2>2. w.pc = "write" /\ w.to = r.to /\ w.next = r.next
        BY DEF Idle
    <2>3. LinesAt(1..round[h].to)' = LinesAt(1..r.to) /\ LinesAt(DOMAIN ledger)' = LinesAt(DOMAIN ledger)
        <3> HIDE DEF w
        <3> QED BY <2>1, <2>2 DEF LinesAt
    <2> HIDE DEF w
    <2> QED BY <2>1, <2>2, <2>3 DEF RoundIsCovered
<1>2. ASSUME NEW g \in Hosts, g # h PROVE RoundIsCovered(round[g])'
    BY <1>2, OtherRound DEF Commit, RoundsAreCovered, LInv, TypeOK
<1>3. ASSUME NEW g \in Hosts PROVE seen'[g] \subseteq Covered'
    BY <1>3 DEF Commit, RingsAreCovered, LInv, TypeOK
<1> QED BY <1>1, <1>2, <1>3 DEF RoundsAreCovered

\* A round that comes to rest, the cursor being as it was.
LEMMA RestCovers ==
    ASSUME CoverInv, LInv', Covered \subseteq Covered', NEW h \in Hosts,
           UNCHANGED <<ledger, cursor>>,
           round'[h].pc \in {"off", "idle", "cursor"}, round'[h].to = 0, round'[h].next = Empty,
           \A g \in Hosts \ {h} : round'[g] = round[g]
    PROVE  RoundsAreCovered' /\ CursorCoversTheSettled' /\ AnchorIsALine'
<1> USE DEF CoverInv, RoundsAreCovered
<1>1. RoundIsCovered(round[h])'
    BY RestingRound
<1>2. ASSUME NEW g \in Hosts \ {h} PROVE RoundIsCovered(round[g])'
    BY <1>2, OtherRound
<1> QED BY <1>1, <1>2, CursorStays

\* A line more: what the cursor's own letter moves it over is exposed.
LEMMA AppendCovers ==
    ASSUME CoverInv, LInv', Covered \subseteq Covered', NEW m \in Letters, AppendLine(m)
    PROVE  CoverInv'
<1> USE DEF CoverInv
<1> DEFINE n == Len(ledger)
           pos == Position(cursor, n)
<1>1. /\ ledger \in Seq(Letters) /\ n \in Nat /\ DOMAIN ledger = 1..n
      /\ ledger' \in Seq(Letters) /\ Len(ledger') = n + 1 /\ DOMAIN ledger' = 1..(n + 1)
      /\ \A i \in 1..n : ledger'[i] = ledger[i]
      /\ ledger'[n + 1] = m
    <2>1. ledger \in Seq(Letters)
        BY DEF LInv, TypeOK
    <2>2. ledger' = Append(ledger, m)
        BY DEF AppendLine
    <2> QED BY <2>1, <2>2
<1>2. \A k \in 0..n : LinesAt(1..k)' = LinesAt(1..k)
    BY <1>1 DEF LinesAt
<1>3. LinesAt(DOMAIN ledger) \subseteq LinesAt(DOMAIN ledger)'
    BY <1>1 DEF LinesAt
<1>4. /\ pos \in 0..n /\ (pos # 0 => ledger[pos] = cursor)
      /\ \A i \in 1..n : ledger[i] = cursor => i <= pos
    BY <1>1, PositionRange
<1>5. RoundsAreCovered'
    <2> SUFFICES ASSUME NEW h \in Hosts PROVE RoundIsCovered(round[h])'
        BY DEF RoundsAreCovered
    <2>1. round'[h] = round[h] /\ RoundIsCovered(round[h]) /\ round[h] \in Rounds
        BY DEF AppendLine, RoundsAreCovered, LInv, TypeOK
    <2>2. round[h].to \in 0..n
        BY <1>1, <2>1 DEF RoundIsCovered, Rounds
    <2>3. LinesAt(1..round[h].to)' = LinesAt(1..round[h].to)
        BY <1>1, <2>1, <2>2 DEF LinesAt
    <2> QED BY <1>1, <1>3, <2>1, <2>2, <2>3 DEF RoundIsCovered
<1>6. RingsAreCovered'
    BY RingsStay DEF AppendLine, rings
<1>7. AnchorIsALine' /\ cursor' = cursor
    BY <1>3 DEF AnchorIsALine, AppendLine
<1>8. CursorLine' \in 0..(n + 1) /\ (CursorLine' # 0 => ledger'[CursorLine'] = cursor)
      /\ \A i \in 1..(n + 1) : ledger'[i] = cursor => i <= CursorLine'
    BY <1>1, <1>7, CursorLineNext
<1> HIDE DEF pos, n
<1>9. LinesAt(1..CursorLine)' \subseteq Covered'
    <2>1. CASE m # cursor
        <3>1. CursorLine' = pos
            BY <1>1, <1>4, <1>8, <2>1
        <3> QED BY <1>2, <1>4, <3>1 DEF CursorCoversTheSettled, Covered, pos, n
    <2>2. CASE m = cursor
        <3>1. LinesAt(pos + 1 .. n) \subseteq Covered'
            <4>1. exposed' = [exposed EXCEPT !.skipped = @ \cup (LinesAt(pos + 1 .. n) \ Settled)]
                BY <2>2 DEF AppendLine, pos, n
            <4>2. LinesAt(pos + 1 .. n) \ Settled \subseteq Covered'
                BY <4>1 DEF Covered, Exposed, LInv, TypeOK, Exposures
            <4> QED BY <4>2 DEF Covered
        <3>2. LinesAt(1..pos) \subseteq Covered'
            BY DEF CursorCoversTheSettled, Covered, pos, n
        <3>3. m \in LinesAt(1..n)
            BY <1>1, <2>2 DEF AnchorIsALine, NoCursor, Empty, Letters
        <3>4. LinesAt(1..n) \subseteq LinesAt(1..pos) \cup LinesAt(pos + 1 .. n)
            BY <1>1, <1>4 DEF LinesAt
        <3>5. LinesAt(1..CursorLine)' \subseteq LinesAt(1..n) \cup {m}
            BY <1>1 DEF LinesAt
        <3> QED BY <3>1, <3>2, <3>3, <3>4, <3>5
    <2> QED BY <2>1, <2>2
<1>10. CursorCoversTheSettled'
    BY <1>9 DEF CursorCoversTheSettled, Covered, CursorLine
<1> QED BY <1>5, <1>6, <1>7, <1>10

LEMMA EnvironmentCovers ==
    ASSUME CoverInv, LInv', Covered \subseteq Covered', Environment
    PROVE  CoverInv'
<1> USE DEF CoverInv
<1>1. CASE Arrive \/ (\E m \in Letters : Close(m))
    <2>1. UNCHANGED <<ledger, cursor, round, seen, announced, told>>
        BY <1>1 DEF Arrive, Close, rings, history
    <2> QED BY <2>1, CursorStays, RingsStay, OtherRound DEF RoundsAreCovered
<1>2. ASSUME NEW m \in Letters, AppendLine(m) PROVE CoverInv'
    BY <1>2, AppendCovers
<1>3. ASSUME NEW h \in Hosts, Start(h) PROVE CoverInv'
    <2>1. UNCHANGED <<ledger, cursor, seen, announced, told>>
        BY <1>3 DEF Start, rings, history
    <2>2. round'[h] = Idle /\ \A g \in Hosts \ {h} : round'[g] = round[g]
        BY <1>3 DEF Start, LInv, TypeOK
    <2>3. Idle.pc = "idle" /\ Idle.to = 0 /\ Idle.next = Empty
        BY DEF Idle
    <2> QED BY <2>1, <2>2, <2>3, RestCovers, RingsStay
<1>4. ASSUME NEW h \in Hosts, Exit(h) PROVE CoverInv'
    <2>1. UNCHANGED <<ledger, cursor, told>>
        BY <1>4 DEF Exit
    <2>2. round'[h] = Off /\ \A g \in Hosts \ {h} : round'[g] = round[g]
        BY <1>4 DEF Exit, LInv, TypeOK
    <2>3. Off.pc = "off" /\ Off.to = 0 /\ Off.next = Empty
        BY DEF Off, Idle
    <2>4. RingsAreCovered'
        BY <1>4, <2>1 DEF Exit, RingsAreCovered, LInv, TypeOK
    <2> QED BY <2>1, <2>2, <2>3, <2>4, RestCovers
<1> QED BY <1>1, <1>2, <1>3, <1>4 DEF Environment

\* A round that starts, or gives up.
LEMMA RestingCovers ==
    ASSUME CoverInv, LInv', Covered \subseteq Covered', NEW h \in Hosts,
           Tick(h) \/ FetchPageFails(h) \/ NobodyListens(h) \/ WriteFails(h)
    PROVE  CoverInv'
<1> USE DEF CoverInv
<1> DEFINE r == [Idle EXCEPT !.pc = "cursor", !.len = Len(ledger)]
<1>1. UNCHANGED <<ledger, cursor, seen, announced, told>>
    BY DEF Tick, FetchPageFails, NobodyListens, WriteFails, stepRest, rings, history
<1>2. round'[h] \in {Idle, r} /\ \A g \in Hosts \ {h} : round'[g] = round[g]
    BY DEF Tick, FetchPageFails, NobodyListens, WriteFails, LInv, TypeOK
<1>3. /\ Idle.pc = "idle" /\ Idle.to = 0 /\ Idle.next = Empty
      /\ r.pc = "cursor" /\ r.to = 0 /\ r.next = Empty
    BY DEF Idle
<1> HIDE DEF r
<1> QED BY <1>1, <1>2, <1>3, RestCovers, RingsStay

LEMMA ReadCursorCovers ==
    ASSUME CoverInv, LInv', Covered \subseteq Covered', NEW h \in Hosts,
           NEW failed \in BOOLEAN, NEW due \in BOOLEAN, ReadCursor(h, failed, due)
    PROVE  CoverInv'
<1> USE DEF CoverInv
<1> DEFINE len == round[h].len
           a == IF failed THEN NoCursor ELSE cursor
           fresh == LinesAt(Position(a, len) + 1 .. RoundEnd(a, len)) \ seen[h]
           topUp == ~AnchorFound(a, len) \/ due
           r == [Idle EXCEPT !.to = RoundEnd(a, len), !.next = NextAnchor(a, len)]
           c == [r EXCEPT !.acked = fresh]
           p == [r EXCEPT !.pc = "page", !.fresh = fresh, !.topUp = topUp,
                          !.anchor = IF topUp THEN a ELSE NoCursor]
<1>1. /\ ledger \in Seq(Letters) /\ Len(ledger) \in Nat /\ DOMAIN ledger = 1..Len(ledger)
      /\ len \in 0..Len(ledger)
      /\ UNCHANGED <<ledger, cursor, announced, told>>
    <2>1. ledger \in Seq(Letters) /\ round[h] \in Rounds /\ len <= Len(ledger)
        BY DEF LInv, TypeOK, ReadIsThere
    <2>2. len \in Nat
        BY <2>1 DEF Rounds
    <2>3. UNCHANGED <<ledger, cursor, announced, told>>
        BY DEF ReadCursor, stepRest
    <2> HIDE DEF len
    <2> QED BY <2>1, <2>2, <2>3
<1>2. /\ RoundEnd(a, len) \in Position(a, len)..len /\ Position(a, len) \in 0..len
      /\ Position(a, len) # 0 => ledger[Position(a, len)] = a
    BY <1>1, RoundEndRange, PositionRange
\* What lies before the round: the cursor's own lines, or nothing.
<1>3. LinesAt(1..Position(a, len)) \subseteq Covered
    <2>1. CASE Position(a, len) = 0
        BY <2>1 DEF LinesAt
    <2>2. CASE Position(a, len) # 0
        <3>1. a = cursor
            BY <1>1, <1>2, <2>2 DEF NoCursor, Letters
        <3>2. Position(a, len) <= Position(cursor, Len(ledger)) /\ Position(cursor, Len(ledger)) \in Nat
            BY <1>1, <1>2, <2>2, <3>1, PositionRange
        <3> QED BY <1>2, <3>2 DEF LinesAt, CursorCoversTheSettled, Covered
    <2> QED BY <2>1, <2>2
<1>4. LinesAt(1..RoundEnd(a, len)) \subseteq Covered \cup fresh
    <2>1. LinesAt(1..RoundEnd(a, len)) \subseteq
              LinesAt(1..Position(a, len)) \cup LinesAt(Position(a, len) + 1 .. RoundEnd(a, len))
        BY <1>1, <1>2 DEF LinesAt
    <2>2. seen[h] \subseteq Covered
        BY DEF RingsAreCovered
    <2> QED BY <1>3, <2>1, <2>2
<1>5. NextAnchor(a, len) \in {Empty} \cup LinesAt(DOMAIN ledger)
    <2>1. RoundEnd(a, len) > Position(a, len) => ledger[RoundEnd(a, len)] \in LinesAt(DOMAIN ledger)
        BY <1>1, <1>2 DEF LinesAt
    <2> QED BY <2>1 DEF NextAnchor, AnchorIsALine
<1>6. \/ /\ Commit(h, c)
         /\ \/ baselined' = baselined \cup (fresh \ Settled)
            \/ exposed' = [exposed EXCEPT !.blinded = @ \cup (fresh \ Settled)]
      \/ /\ round' \in {[round EXCEPT ![h] = Idle], [round EXCEPT ![h] = p]}
         /\ UNCHANGED seen
    BY DEF ReadCursor
<1>7. /\ c.acked = fresh /\ c.to = RoundEnd(a, len) /\ c.next = NextAnchor(a, len)
      /\ p.pc = "page" /\ p.fresh = fresh /\ p.to = RoundEnd(a, len) /\ p.next = NextAnchor(a, len)
    BY DEF Idle
<1> HIDE DEF c, p, fresh, a, len
<1>8. CursorCoversTheSettled' /\ AnchorIsALine'
    BY <1>1, CursorStays
<1>9. CASE Commit(h, c) /\ (\/ baselined' = baselined \cup (fresh \ Settled)
                           \/ exposed' = [exposed EXCEPT !.blinded = @ \cup (fresh \ Settled)])
    <2>1. fresh \ Settled \subseteq Covered'
        BY <1>9, SMTT(30) DEF Covered, Settled, Exposed, LInv, TypeOK, Exposures
    <2>2. fresh \subseteq Covered'
        BY <2>1 DEF Covered
    <2>3. RoundsAreCovered' /\ \A g \in Hosts : seen'[g] \subseteq Covered'
        <3>1. c.acked \subseteq Covered' /\ LinesAt(1..c.to) \subseteq Covered' /\ c.to <= Len(ledger)
              /\ c.next \in {Empty} \cup LinesAt(DOMAIN ledger)
            BY <1>1, <1>2, <1>4, <1>5, <1>7, <2>2
        <3> QED BY <1>1, <1>9, <3>1, CommitCovers
    <2> QED BY <1>1, <1>8, <2>3 DEF RingsAreCovered
<1>10. CASE round' \in {[round EXCEPT ![h] = Idle], [round EXCEPT ![h] = p]} /\ UNCHANGED seen
    <2>1. RingsAreCovered'
        BY <1>1, <1>10, RingsStay
    <2>2. RoundIsCovered(round[h])'
        <3>1. CASE round'[h] = Idle
            <4>1. Idle.pc = "idle" /\ Idle.to = 0 /\ Idle.next = Empty
                BY DEF Idle
            <4> QED BY <3>1, <4>1, RestingRound
        <3>2. CASE round'[h] = p
            <4>1. LinesAt(1..round[h].to)' = LinesAt(1..p.to)
                  /\ LinesAt(DOMAIN ledger)' = LinesAt(DOMAIN ledger)
                BY <1>1, <3>2 DEF LinesAt
            <4> QED BY <1>1, <1>2, <1>4, <1>5, <1>7, <3>2, <4>1 DEF RoundIsCovered
        <3> QED BY <1>10, <3>1, <3>2 DEF LInv, TypeOK
    <2>3. ASSUME NEW g \in Hosts, g # h PROVE RoundIsCovered(round[g])'
        BY <1>1, <1>10, <2>3, OtherRound DEF RoundsAreCovered, LInv, TypeOK
    <2> QED BY <1>8, <2>1, <2>2, <2>3 DEF RoundsAreCovered
<1> QED BY <1>6, <1>9, <1>10

LEMMA FetchPageCovers ==
    ASSUME CoverInv, LInv', Covered \subseteq Covered', NEW h \in Hosts, FetchPage(h)
    PROVE  CoverInv'
<1> USE DEF CoverInv
<1> DEFINE page == Newest(1..mail \ closed, PageLimit)
           r == round[h]
           more == IF r.topUp THEN Newest(page \ (seen[h] \cup {r.anchor} \cup r.fresh), MaxPerRound)
                   ELSE {}
           got == [Idle EXCEPT !.pc = "deliver", !.to = r.to, !.next = r.next,
                               !.deliver = (r.fresh \cap page) \cup more,
                               !.acked = r.fresh \cup more]
<1>1. UNCHANGED <<ledger, cursor, announced, told>> /\ RoundIsCovered(r) /\ r.pc = "page"
    BY DEF FetchPage, stepRest, RoundsAreCovered
<1>2. \/ got.deliver = {} /\ Commit(h, got) /\ PassOver(got)
      \/ round' = [round EXCEPT ![h] = got] /\ UNCHANGED seen
    BY DEF FetchPage
<1>3. got.pc = "deliver" /\ got.to = r.to /\ got.next = r.next /\ got.acked = r.fresh \cup more
    BY DEF Idle
<1> HIDE DEF got, more, r
<1>4. CursorCoversTheSettled' /\ AnchorIsALine'
    BY <1>1, CursorStays
<1>5. /\ LinesAt(1..got.to) \subseteq Covered \cup got.acked /\ got.to <= Len(ledger)
      /\ got.next \in {Empty} \cup LinesAt(DOMAIN ledger)
    BY <1>1, <1>3 DEF RoundIsCovered
<1>6. CASE got.deliver = {} /\ Commit(h, got) /\ PassOver(got)
    <2>1. got.acked \ Settled \subseteq Covered'
        BY <1>6 DEF PassOver, Covered, Exposed, LInv, TypeOK, Exposures
    <2>2. got.acked \subseteq Covered'
        BY <2>1 DEF Covered
    <2>3. RoundsAreCovered' /\ \A g \in Hosts : seen'[g] \subseteq Covered'
        <3>1. LinesAt(1..got.to) \subseteq Covered'
            BY <1>5, <2>2
        <3> QED BY <1>1, <1>5, <1>6, <2>2, <3>1, CommitCovers
    <2> QED BY <1>1, <1>4, <2>3 DEF RingsAreCovered
<1>7. CASE round' = [round EXCEPT ![h] = got] /\ UNCHANGED seen
    <2>1. RingsAreCovered'
        BY <1>1, <1>7, RingsStay
    <2>2. RoundIsCovered(round[h])'
        <3>1. round'[h] = got
            BY <1>7 DEF LInv, TypeOK
        <3>2. LinesAt(1..round[h].to)' = LinesAt(1..got.to)
              /\ LinesAt(DOMAIN ledger)' = LinesAt(DOMAIN ledger)
            BY <1>1, <3>1 DEF LinesAt
        <3> QED BY <1>1, <1>3, <1>5, <3>1, <3>2 DEF RoundIsCovered
    <2>3. ASSUME NEW g \in Hosts, g # h PROVE RoundIsCovered(round[g])'
        BY <1>1, <1>7, <2>3, OtherRound DEF RoundsAreCovered, LInv, TypeOK
    <2> QED BY <1>4, <2>1, <2>2, <2>3 DEF RoundsAreCovered
<1> QED BY <1>2, <1>6, <1>7

\* A batch with letters in it, told or muted: what is not in the batch was passed over.
LEMMA BatchCovers ==
    ASSUME CoverInv, LInv', Covered \subseteq Covered', NEW h \in Hosts, PassMuted(h) \/ Deliver(h)
    PROVE  CoverInv'
<1> USE DEF CoverInv
<1> DEFINE r == round[h]
<1>1. /\ UNCHANGED <<ledger, cursor>> /\ RoundIsCovered(r) /\ r.pc = "deliver"
      /\ Commit(h, r) /\ PassOver(r)
    BY DEF PassMuted, Deliver, stepRest, RoundsAreCovered
<1>2. told \subseteq told' /\ \A g \in Hosts : announced'[g] \subseteq told'
    <2>1. CASE PassMuted(h)
        BY <2>1 DEF PassMuted, RingsAreCovered
    <2>2. CASE Deliver(h)
        BY <2>2 DEF Deliver, Announce, RingsAreCovered, LInv, TypeOK
    <2> QED BY <2>1, <2>2
<1>3. r.deliver \subseteq Covered'
    <2>1. CASE PassMuted(h)
        BY <2>1 DEF PassMuted, Covered, Settled
    <2>2. CASE Deliver(h)
        <3>1. r.deliver \subseteq told'
            BY <2>2 DEF Deliver, Announce, RingsAreCovered
        <3> QED BY <3>1 DEF Covered, Settled
    <2> QED BY <2>1, <2>2
<1> HIDE DEF r
<1>4. (r.acked \ r.deliver) \ Settled \subseteq Covered'
    BY <1>1 DEF PassOver, Covered, Exposed, LInv, TypeOK, Exposures
<1>5. r.acked \subseteq Covered'
    BY <1>3, <1>4 DEF Covered
<1>6. RoundsAreCovered' /\ \A g \in Hosts : seen'[g] \subseteq Covered'
    <2>1. LinesAt(1..r.to) \subseteq Covered'
        BY <1>1, <1>5 DEF RoundIsCovered
    <2> QED BY <1>1, <1>5, <2>1, CommitCovers DEF RoundIsCovered
<1>7. CursorCoversTheSettled' /\ AnchorIsALine'
    BY <1>1, CursorStays
<1> QED BY <1>2, <1>6, <1>7 DEF RingsAreCovered

LEMMA WriteCursorCovers ==
    ASSUME CoverInv, LInv', Covered \subseteq Covered', NEW h \in Hosts, WriteCursor(h)
    PROVE  CoverInv'
<1> USE DEF CoverInv
<1> DEFINE to == round[h].to
           pos == Position(round[h].next, Len(ledger))
<1>1. /\ UNCHANGED <<ledger, seen, announced, told>> /\ cursor' = round[h].next
      /\ RoundIsCovered(round[h]) /\ round[h].pc = "write"
      /\ round' = [round EXCEPT ![h] = Idle]
      /\ exposed' = [exposed EXCEPT !.skipped = @ \cup (LinesAt(to + 1 .. pos) \ Settled)]
    BY DEF WriteCursor, stepRest, RoundsAreCovered, rings
<1>2. /\ Len(ledger) \in Nat /\ DOMAIN ledger = 1..Len(ledger) /\ pos \in 0..Len(ledger)
      /\ to \in 0..Len(ledger)
    <2>1. ledger \in Seq(Letters) /\ to \in Nat /\ to <= Len(ledger)
        BY <1>1 DEF LInv, TypeOK, Rounds, RoundIsCovered
    <2>2. Len(ledger) \in Nat /\ DOMAIN ledger = 1..Len(ledger)
        BY <2>1
    <2>3. pos \in 0..Len(ledger)
        BY <2>2, PositionRange
    <2> HIDE DEF to, pos
    <2> QED BY <2>1, <2>2, <2>3
<1>3. LinesAt(1..pos) \subseteq Covered'
    <2>1. LinesAt(to + 1 .. pos) \ Settled \subseteq Covered'
        BY <1>1 DEF Covered, Exposed, LInv, TypeOK, Exposures
    <2>2. LinesAt(1..pos) \subseteq LinesAt(1..to) \cup LinesAt(to + 1 .. pos)
        BY <1>2 DEF LinesAt
    <2>3. LinesAt(1..to) \subseteq Covered /\ Settled \subseteq Covered
        BY <1>1 DEF RoundIsCovered, Covered
    <2> QED BY <2>1, <2>2, <2>3
<1>4. CursorCoversTheSettled' /\ AnchorIsALine'
    <2>1. LinesAt(1..Position(cursor, Len(ledger)))' = LinesAt(1..pos)
        BY <1>1 DEF LinesAt, Position
    <2>2. LinesAt(DOMAIN ledger)' = LinesAt(DOMAIN ledger)
        BY <1>1 DEF LinesAt
    <2> QED BY <1>1, <1>3, <2>1, <2>2 DEF CursorCoversTheSettled, AnchorIsALine, RoundIsCovered, Covered
<1>5. RoundsAreCovered'
    <2>1. Idle.pc = "idle" /\ Idle.to = 0 /\ Idle.next = Empty
        BY DEF Idle
    <2>2. round'[h] = Idle /\ \A g \in Hosts \ {h} : round'[g] = round[g]
        BY <1>1 DEF LInv, TypeOK
    <2>3. RoundIsCovered(round[h])'
        BY <2>1, <2>2, RestingRound
    <2> QED BY <1>1, <2>2, <2>3, OtherRound DEF RoundsAreCovered
<1>6. RingsAreCovered'
    BY <1>1, RingsStay
<1> QED BY <1>4, <1>5, <1>6

LEMMA CoverStep == CoverInv /\ [Next]_vars => CoverInv'
<1> SUFFICES ASSUME CoverInv, [Next]_vars PROVE CoverInv'
    OBVIOUS
<1>1. LInv' /\ Covered \subseteq Covered'
    BY LedgerStep, CoveredGrows DEF CoverInv
<1>2. CASE Environment
    BY <1>1, <1>2, EnvironmentCovers
<1>3. ASSUME NEW h \in Hosts, Consuming(h) PROVE CoverInv'
    BY <1>1, <1>3, RestingCovers, ReadCursorCovers, FetchPageCovers, BatchCovers,
       WriteCursorCovers DEF Consuming, Reads
<1>4. CASE UNCHANGED vars
    <2>1. UNCHANGED <<ledger, cursor, round, seen, announced, told>>
        BY <1>4 DEF vars, rings, history
    <2> QED BY <1>1, <2>1, CursorStays, RingsStay, OtherRound DEF CoverInv, RoundsAreCovered
<1> QED BY <1>2, <1>3, <1>4 DEF Next

\* What the shared cursor has passed was announced, or left silent on purpose, or is
\* processed, or met one of the three named windows, for every number of hosts that
\* consume with one cursor file (runRound: nothing is committed that was not
\* delivered, closed or muted).
THEOREM NothingIsPassedUncovered == Spec => []CursorCoversTheSettled
<1>1. CoverInv => CursorCoversTheSettled
    BY DEF CoverInv
<1> QED BY <1>1, CoverInit, CoverStep, PTL DEF Spec

----------------------------------------------------------------------------
(* What is left silent as history.                                         *)

\* As long as there is no cursor file, it is on the ledger.
HistoryInv == /\ LInv /\ NothingNewIsSwallowed
              /\ cursor = NoCursor => baselined \subseteq LinesAt(DOMAIN ledger)

LEMMA HistoryStep == HistoryInv /\ [Next]_vars => HistoryInv'
<1> SUFFICES ASSUME HistoryInv, [Next]_vars PROVE HistoryInv'
    OBVIOUS
<1> USE DEF HistoryInv
<1>1. LInv'
    BY LedgerStep
<1>2. LinesAt(DOMAIN ledger) \subseteq LinesAt(DOMAIN ledger)'
    <2>1. CASE UNCHANGED ledger
        BY <2>1 DEF LinesAt
    <2>2. ASSUME NEW m \in Letters, AppendLine(m)
          PROVE  LinesAt(DOMAIN ledger) \subseteq LinesAt(DOMAIN ledger)'
        <3>1. /\ DOMAIN ledger = 1..Len(ledger) /\ DOMAIN ledger' = 1..(Len(ledger) + 1)
              /\ Len(ledger) \in Nat /\ \A i \in 1..Len(ledger) : ledger'[i] = ledger[i]
            BY <2>2 DEF AppendLine, LInv, TypeOK
        <3> QED BY <3>1 DEF LinesAt
    <2>3. UNCHANGED ledger \/ \E m \in Letters : AppendLine(m)
        <3>1. CASE Environment
            BY <3>1 DEF Environment, Arrive, Close, Start, Exit
        <3>2. ASSUME NEW h \in Hosts, Consuming(h) PROVE UNCHANGED ledger
            <4>1. ASSUME NEW failed \in BOOLEAN, NEW due \in BOOLEAN, ReadCursor(h, failed, due)
                  PROVE  UNCHANGED ledger
                BY <4>1 DEF ReadCursor, stepRest
            <4>2. CASE FetchPage(h) \/ FetchPageFails(h) \/ PassMuted(h) \/ Deliver(h)
                BY <4>2 DEF FetchPage, FetchPageFails, PassMuted, Deliver, stepRest
            <4>3. CASE Tick(h) \/ NobodyListens(h) \/ WriteCursor(h) \/ WriteFails(h)
                BY <4>3 DEF Tick, NobodyListens, WriteCursor, WriteFails, stepRest
            <4> QED BY <3>2, <4>1, <4>2, <4>3 DEF Consuming, Reads
        <3>3. CASE UNCHANGED vars
            BY <3>3 DEF vars
        <3> QED BY <3>1, <3>2, <3>3 DEF Next
    <2> QED BY <2>1, <2>2, <2>3
<1>3. CASE UNCHANGED <<cursor, baselined, inherited>>
    BY <1>1, <1>2, <1>3 DEF NothingNewIsSwallowed
<1>4. ASSUME NEW h \in Hosts, NEW failed \in BOOLEAN, NEW due \in BOOLEAN,
             ReadCursor(h, failed, due)
      PROVE  HistoryInv'
    <2>1. UNCHANGED <<ledger, cursor, inherited>>
        BY <1>4 DEF ReadCursor, stepRest
    \* Only a round that finds no cursor file adds to the history, and it adds lines.
    <2>2. UNCHANGED baselined \/ (cursor = NoCursor /\ baselined' \subseteq baselined \cup LinesAt(DOMAIN ledger))
        BY <1>4 DEF ReadCursor, IsBaseline, LinesAt
    <2> QED BY <1>1, <1>2, <2>1, <2>2 DEF NothingNewIsSwallowed
<1>5. ASSUME NEW h \in Hosts, WriteCursor(h) PROVE HistoryInv'
    <2>1. UNCHANGED <<ledger, baselined>> /\ cursor' # NoCursor
        <3>1. UNCHANGED <<ledger, baselined>> /\ cursor' = round[h].next
            BY <1>5 DEF WriteCursor, stepRest
        <3>2. round[h].next \in {Empty} \cup Letters
            BY DEF LInv, TypeOK, Rounds
        <3> QED BY <3>1, <3>2 DEF NoCursor, Empty, Letters
    <2>2. inherited' = IF cursor = NoCursor THEN LinesAt(DOMAIN ledger) ELSE inherited
        BY <1>5 DEF WriteCursor
    <2> QED BY <1>1, <2>1, <2>2 DEF NothingNewIsSwallowed
<1>6. \/ UNCHANGED <<cursor, baselined, inherited>>
      \/ \E h \in Hosts : WriteCursor(h) \/ Reads(h)
    BY DEF Next, Environment, Arrive, Close, AppendLine, Start, Exit, Consuming, Tick,
           FetchPage, FetchPageFails, PassMuted, Deliver, NobodyListens, WriteFails, stepRest,
           history, vars
<1> QED BY <1>3, <1>4, <1>5, <1>6 DEF Reads

\* What is never announced because it was there before the consumer was on the ledger
\* when the cursor file came to be, however many hosts raced to create it
\* (pollOnce, commit).
THEOREM OnlyHistoryIsSilent == Spec => []NothingNewIsSwallowed
<1>1. Init => HistoryInv
    BY LedgerInit DEF Init, HistoryInv, NothingNewIsSwallowed
<1>2. HistoryInv => NothingNewIsSwallowed
    BY DEF HistoryInv
<1> QED BY <1>1, <1>2, HistoryStep, PTL DEF Spec
----------------------------------------------------------------------------
(* The consumer implements MailPromise.                                    *)

\* Letters a round of some host has selected.
Handled == UNION {round[h].fresh \cup round[h].deliver : h \in Hosts}

\* Where a letter stands, case by case.
LEMMA StatusByCases ==
    ASSUME NEW m \in Letters
    PROVE  /\ Status[m] = "told" <=> m \in told
           /\ Status[m] = "excused" <=> m \in Covered \ told
           /\ Status[m] = "waiting" <=> m \notin Covered \cup Handled
           /\ Status[m] \in Promise!Statuses
BY DEF Status, Covered, Settled, Handled, Promise!Statuses

\* The same after a step.
LEMMA StatusByCasesNext ==
    ASSUME NEW m \in Letters
    PROVE  /\ Status'[m] = "told" <=> m \in told'
           /\ Status'[m] = "excused" <=> m \in Covered' \ told'
           /\ Status'[m] = "waiting" <=> m \notin Covered' \cup Handled'
           /\ Status'[m] \in Promise!Statuses
BY DEF Status, Covered, Settled, Handled, Promise!Statuses

LEMMA InitKeepsPromise == Init => Promise!PromiseInit
<1> SUFFICES ASSUME Init PROVE Promise!PromiseInit
    OBVIOUS
<1>1. LinesAt(1..Position(cursor, Len(ledger))) = {}
    <2>1. Len(ledger) \in Nat /\ DOMAIN ledger = 1..Len(ledger)
          /\ \A i \in 1..Len(ledger) : ledger[i] # cursor
        BY LedgerInit DEF LInv, TypeOK, Init, NoCursor, Letters
    <2>2. Position(cursor, Len(ledger)) = 0
        BY <2>1, PositionRange
    <2> QED BY <2>2 DEF LinesAt
<1>2. Covered = {}
    BY DEF Init, Covered, Settled, Exposed
<1>3. Handled = {}
    BY DEF Init, Handled, Off, Idle
<1>4. \A m \in Letters : Status[m] = "waiting"
    BY <1>2, <1>3, StatusByCases
<1>5. Status = [m \in Letters |-> Status[m]]
    BY DEF Status
<1> QED BY <1>1, <1>4, <1>5 DEF Promise!PromiseInit

\* A letter is told only out of a round that had selected it, and nothing told is taken back.
LEMMA ToldFromARound == ASSUME LInv, [Next]_vars PROVE told \subseteq told' /\ told' \subseteq told \cup Handled
<1>1. CASE UNCHANGED told
    BY <1>1
<1>2. ASSUME NEW h \in Hosts, Deliver(h) PROVE told \subseteq told' /\ told' \subseteq told \cup Handled
    BY <1>2 DEF Deliver, Announce, Handled
<1>3. UNCHANGED told \/ \E h \in Hosts : Deliver(h)
    <2>1. CASE Environment
        BY <2>1 DEF Environment, Arrive, Close, AppendLine, Start, Exit, history
    <2>2. ASSUME NEW h \in Hosts, Reads(h) PROVE UNCHANGED told
        BY <2>2 DEF Reads, ReadCursor
    <2>3. ASSUME NEW h \in Hosts, Consuming(h), ~Reads(h), ~Deliver(h) PROVE UNCHANGED told
        BY <2>3 DEF Consuming, Tick, FetchPage, FetchPageFails, PassMuted, NobodyListens,
                    WriteCursor, WriteFails, history
    <2>4. CASE UNCHANGED vars
        BY <2>4 DEF vars, history
    <2> QED BY <2>1, <2>2, <2>3, <2>4 DEF Next
<1> QED BY <1>1, <1>2, <1>3

\* Each step of the consumers is a step of the promise, or none.
LEMMA StepKeepsPromise ==
    ASSUME CoverInv, CoverInv', [Next]_vars
    PROVE  Promise!PromiseNext
<1>1. LInv /\ LInv'
    BY DEF CoverInv
<1>2. told \subseteq told' /\ told' \subseteq told \cup Handled /\ Covered \subseteq Covered' /\ told \subseteq Covered
    BY <1>1, ToldFromARound, CoveredGrows DEF Covered, Settled
<1>3. LinesAt(1..Position(cursor, Len(ledger)))' \subseteq Letters
    BY <1>1 DEF LinesAt, LInv, TypeOK
<1>4. Status' \in [Letters -> Promise!Statuses]
    BY StatusByCasesNext DEF Status
<1>5. ASSUME NEW m \in Letters, Status'[m] # Status[m]
      PROVE  <<Status[m], Status'[m]>> \in Promise!Moves
    <2>1. Status[m] # "told"
        BY <1>2, <1>5, StatusByCases, StatusByCasesNext
    <2>2. Status[m] = "excused" => Status'[m] = "told"
        BY <1>2, <1>5, StatusByCases, StatusByCasesNext
    <2>3. Status[m] = "waiting" => Status'[m] # "told"
        BY <1>2, StatusByCases, StatusByCasesNext
    <2>4. Status[m] \in Promise!Statuses /\ Status'[m] \in Promise!Statuses
        BY StatusByCases, StatusByCasesNext
    <2> QED BY <1>5, <2>1, <2>2, <2>3, <2>4 DEF Promise!Statuses, Promise!Moves
<1>6. ASSUME NEW m \in Letters, m \in LinesAt(1..Position(cursor, Len(ledger)))'
      PROVE  Status'[m] # "waiting"
    <2>1. m \in Covered'
        BY <1>6 DEF CoverInv, CursorCoversTheSettled, Covered
    <2> QED BY <2>1, StatusByCasesNext
<1> QED BY <1>3, <1>4, <1>5, <1>6 DEF Promise!PromiseNext

\* The consumers of one ledger, however many, keep the promise of MailPromise for the cursor
\* they share: what it has passed was told or excused, a letter is told only out of a round
\* that selected it, and what was told stays told (runRound, commit).
THEOREM ConsumersImplementPromise == Spec => ConsumerKeepsThePromise
<1>1. Init => Promise!PromiseInit
    BY InitKeepsPromise
<1>2. CoverInv /\ CoverInv' /\ [Next]_vars => [Promise!PromiseNext]_Promise!promiseVars
    BY StepKeepsPromise
<1> QED BY <1>1, <1>2, CoverInit, CoverStep, PTL DEF Spec, ConsumerKeepsThePromise, Promise!PromiseSpec
=============================================================================
