---------------------------- MODULE LedgerConsumer ----------------------------
(***************************************************************************)
(* The ledger path of the plugin: hosts that poll one ledger file with one *)
(* shared cursor file (src/host/ledger.ts, and createLedgerIngest,         *)
(* startLedgerIngestLoop, deliverBatch of src/host/watch.ts).              *)
(*                                                                         *)
(* Every host process runs one loop, one round at a time; an action is the *)
(* code between two awaits at which something shared is read or written.   *)
(* The lease of consumers.ts is switched off, as it is by default: all     *)
(* hosts consume.  (Switched on it only removes rounds.)                   *)
(*                                                                         *)
(* Abstractions.  A letter is its position in the mailbox, a ledger line   *)
(* the letter it names; several lines may name one letter, in any order.   *)
(* The platform only appends: its compaction is left out, and a line that  *)
(* is not whole yet reads as none.  What asks for a top-up besides a lost  *)
(* anchor -- the age of the backlog, the health of the platform's daemon   *)
(* -- is a free choice of every round (but see the fairness).  The two     *)
(* dedupe rings are larger than the mail of a run.  Whether the inbox is   *)
(* muted, and whether a session of the host is live, is asked at the end   *)
(* of a round and may be answered either way.  Presence files, wake        *)
(* budgets, the choice among sessions and logging are left out.            *)
(***************************************************************************)
EXTENDS Integers, Sequences, FiniteSets

CONSTANTS
    Hosts,        \* processes with the plugin loaded
    MaxMail,      \* bound: letters the server ever stores
    MaxLines,     \* bound: lines of the ledger
    MaxPerRound,  \* maxPerRound
    PageLimit,    \* unprocessedLimit
    MaxExits,     \* bound: ends of a host process
    MaxBreaks,    \* bound: failed requests, reads and writes of the cursor
    MaxCloses     \* bound: letters processed by their reader

ASSUME BoundsAssumption ==
    /\ MaxMail \in Nat /\ MaxLines \in Nat /\ MaxExits \in Nat /\ MaxBreaks \in Nat
    /\ MaxCloses \in Nat
ASSUME ConfigAssumption == MaxPerRound \in Nat \ {0} /\ PageLimit \in Nat \ {0}

VARIABLES
    mail,         \* letters stored by the server so far
    closed,       \* letters that are no longer unprocessed
    ledger,       \* the ledger file, a sequence of letters
    cursor,       \* the consumer's cursor file
    round,        \* round[h]: the round host h is in
    seen,         \* seen[h]: the consumer's dedupe ring
    announced,    \* announced[h]: the dedupe ring all wake paths of h share
    exits, breaks,    \* occurrences of the bounded events so far
    told,         \* history: letters announced in some session
    heard,        \* history: heard[h], letters announced in this life of h
    repeated,     \* history: letters announced twice in one life of a host
    baselined,    \* history: letters left silent as history of the mailbox
    muted,        \* history: letters left silent by the mute switch
    inherited,    \* history: letters on the ledger when the cursor file came to be
    exposed       \* history: letters that met one of the known loss windows

serverVars == <<mail, closed>>
rings == <<seen, announced>>
faults == <<exits, breaks>>
notes == <<heard, repeated>>
history == <<told, notes, baselined, muted, inherited, exposed>>
vars == <<serverVars, ledger, cursor, round, rings, faults, history>>

Letters == 1..MaxMail
Empty == 0          \* EMPTY_LEDGER_CURSOR: before the first line
NoCursor == -1      \* no cursor file

Idle == [pc |-> "idle", len |-> 0, anchor |-> NoCursor, fresh |-> {}, topUp |-> FALSE,
         to |-> 0, next |-> Empty, deliver |-> {}, acked |-> {}]
Off == [Idle EXCEPT !.pc = "off"]

Settled == told \cup baselined \cup muted \cup closed
Exposed == exposed.skipped \cup exposed.unpaged \cup exposed.blinded
LinesAt(positions) == {ledger[i] : i \in positions \cap DOMAIN ledger}

Init ==
    /\ mail \in {0, 1} \cap 0..MaxMail /\ closed = {}
    /\ ledger \in {<<>>} \cup {<<m>> : m \in IF MaxLines > 0 THEN 1..mail ELSE {}}
    /\ cursor = NoCursor
    /\ round = [h \in Hosts |-> Off]
    /\ seen = [h \in Hosts |-> {}] /\ announced = [h \in Hosts |-> {}]
    /\ exits = 0 /\ breaks = 0
    /\ told = {} /\ heard = [h \in Hosts |-> {}] /\ repeated = {}
    /\ baselined = {} /\ muted = {} /\ inherited = {}
    /\ exposed = [skipped |-> {}, unpaged |-> {}, blinded |-> {}]

----------------------------------------------------------------------------
(* Positions.  The ledger has no sequence numbers: the cursor is the name  *)
(* of a letter, and stands at the last line, of those read, that names it. *)

\* Slip: the first copy is taken.
Position_First(a, len) ==
    LET at == {i \in 1..len : ledger[i] = a}
    IN IF at = {} THEN 0 ELSE CHOOSE i \in at : \A j \in at : i <= j

\* selectFreshEvents: the anchor's line; 0, hence all lines, for the empty mark
\* and for an anchor that is not found.
Position(a, len) ==
    LET at == {i \in 1..len : ledger[i] = a}
    IN IF at = {} THEN 0 ELSE CHOOSE i \in at : \A j \in at : j <= i

AnchorFound(a, len) == a = Empty \/ \E i \in 1..len : ledger[i] = a

\* Slip: the empty mark counts as no cursor.
IsBaseline_Empty(a) == a \in {NoCursor, Empty}
\* Without a cursor the round only takes a position.
IsBaseline(a) == a = NoCursor

\* The last line of the round: all of them for a baseline, else the first few.
RoundEnd(a, len) ==
    LET from == Position(a, len)
    IN IF IsBaseline(a) \/ len <= from + MaxPerRound THEN len ELSE from + MaxPerRound

\* Slip: an empty ledger leaves nothing to write.
NextAnchor_Nothing(a, len) ==
    IF RoundEnd(a, len) > Position(a, len) THEN ledger[RoundEnd(a, len)] ELSE a
\* What commit will write.
NextAnchor(a, len) ==
    IF RoundEnd(a, len) > Position(a, len) THEN ledger[RoundEnd(a, len)]
    ELSE IF a = NoCursor THEN Empty ELSE a

----------------------------------------------------------------------------
(* The server, the platform's daemon and the host processes.               *)

Arrive ==
    /\ mail < MaxMail /\ mail' = mail + 1
    /\ UNCHANGED <<closed, ledger, cursor, round, rings, faults, history>>

Close(m) ==
    /\ m \in 1..mail \ closed /\ Cardinality(closed) < MaxCloses
    /\ closed' = closed \cup {m}
    /\ UNCHANGED <<mail, ledger, cursor, round, rings, faults, history>>

\* A new copy of the cursor's letter moves the cursor over the lines before it.
AppendLine(m) ==
    /\ m \in 1..mail /\ Len(ledger) < MaxLines
    /\ ledger' = Append(ledger, m)
    /\ exposed' = IF m # cursor THEN exposed
                  ELSE [exposed EXCEPT !.skipped =
                          @ \cup (LinesAt(Position(m, Len(ledger)) + 1 .. Len(ledger)) \ Settled)]
    /\ UNCHANGED <<serverVars, cursor, round, rings, faults,
                   told, notes, baselined, muted, inherited>>

\* startLedgerIngestLoop.
Start(h) ==
    /\ round[h].pc = "off"
    /\ round' = [round EXCEPT ![h] = Idle]
    /\ UNCHANGED <<serverVars, ledger, cursor, rings, faults, history>>

\* The process ends, between two rounds or in the middle of one.
Exit(h) ==
    /\ round[h].pc # "off"
    /\ exits < MaxExits /\ exits' = exits + 1
    /\ round' = [round EXCEPT ![h] = Off]
    /\ seen' = [seen EXCEPT ![h] = {}] /\ announced' = [announced EXCEPT ![h] = {}]
    /\ heard' = [heard EXCEPT ![h] = {}]
    /\ UNCHANGED <<serverVars, ledger, cursor, breaks, told, repeated, baselined, muted,
                   inherited, exposed>>

Environment == \/ Arrive \/ (\E m \in Letters : Close(m) \/ AppendLine(m))
               \/ (\E h \in Hosts : Start(h) \/ Exit(h))

----------------------------------------------------------------------------
(* A round: tick, runRound, pollOnce, planLedgerBatch, deliverBatch.       *)

stepRest == <<serverVars, ledger, exits>>
Break == breaks < MaxBreaks /\ breaks' = breaks + 1

\* The timer fires between two rounds (createNonReentrant): readLedger.
Tick(h) ==
    /\ round[h].pc = "idle"
    /\ round' = [round EXCEPT ![h] = [Idle EXCEPT !.pc = "cursor", !.len = Len(ledger)]]
    /\ UNCHANGED <<stepRest, cursor, rings, breaks, history>>

\* commit(): the ring at once, then the write.  A fresh line that was not on
\* the page counts as processed, be it so or beyond the page's limit.
Commit(h, r) ==
    /\ seen' = [seen EXCEPT ![h] = @ \cup r.acked]
    /\ round' = [round EXCEPT ![h] = [Idle EXCEPT !.pc = "write", !.to = r.to, !.next = r.next]]
PassOver(r) ==
    exposed' = [exposed EXCEPT !.unpaged = @ \cup ((r.acked \ r.deliver) \ Settled)]

\* readConsumerCursor, for which a failed read is no cursor; what is selected;
\* and whether a top-up is due.  A limited round that has seen all it selected
\* ends without moving the cursor, unless a top-up is due.
ReadCursor(h, failed, due) ==
    /\ round[h].pc = "cursor"
    /\ IF failed THEN cursor # NoCursor /\ Break ELSE UNCHANGED breaks
    /\ LET len   == round[h].len
           a     == IF failed THEN NoCursor ELSE cursor
           fresh == LinesAt(Position(a, len) + 1 .. RoundEnd(a, len)) \ seen[h]
           topUp == ~AnchorFound(a, len) \/ due
           r     == [Idle EXCEPT !.to = RoundEnd(a, len), !.next = NextAnchor(a, len)]
       IN \/ /\ IsBaseline(a) /\ ~due
             /\ Commit(h, [r EXCEPT !.acked = fresh])
             /\ baselined' = IF failed THEN baselined ELSE baselined \cup (fresh \ Settled)
             /\ exposed' = IF failed THEN [exposed EXCEPT !.blinded = @ \cup (fresh \ Settled)]
                          ELSE exposed
          \/ /\ ~IsBaseline(a)
             /\ round' = [round EXCEPT ![h] =
                            IF fresh = {} /\ ~topUp THEN Idle
                            ELSE [r EXCEPT !.pc = "page", !.fresh = fresh, !.topUp = topUp,
                                           !.anchor = IF topUp THEN a ELSE NoCursor]]
             /\ UNCHANGED <<seen, baselined, exposed>>
    /\ UNCHANGED <<stepRest, cursor, announced, told, notes, muted, inherited>>

Newest(S, n) == {m \in S : Cardinality({k \in S : k > m}) < n}

\* The page of unprocessed mail, newest first: the bodies of the fresh lines, and
\* the top-up.  When nothing of it is left to say the round is committed.
FetchPage(h) ==
    /\ round[h].pc = "page"
    /\ LET page == Newest(1..mail \ closed, PageLimit)
           r    == round[h]
           more == IF r.topUp THEN Newest(page \ (seen[h] \cup {r.anchor} \cup r.fresh), MaxPerRound)
                   ELSE {}
           got  == [Idle EXCEPT !.pc = "deliver", !.to = r.to, !.next = r.next,
                                !.deliver = (r.fresh \cap page) \cup more,
                                !.acked = r.fresh \cup more]
       IN IF got.deliver = {}
          THEN Commit(h, got) /\ PassOver(got)
          ELSE /\ round' = [round EXCEPT ![h] = got]
               /\ UNCHANGED <<seen, exposed>>
    /\ UNCHANGED <<stepRest, cursor, announced, breaks, told, notes, baselined, muted, inherited>>

\* Without the page nothing is committed: the next round tries again.
FetchPageFails(h) ==
    /\ round[h].pc = "page" /\ Break
    /\ round' = [round EXCEPT ![h] = Idle]
    /\ UNCHANGED <<stepRest, cursor, rings, history>>

\* isPaused: muted mail is passed over silently.
PassMuted(h) ==
    /\ round[h].pc = "deliver"
    /\ muted' = muted \cup round[h].deliver
    /\ Commit(h, round[h]) /\ PassOver(round[h])
    /\ UNCHANGED <<stepRest, cursor, announced, breaks, told, notes, baselined, inherited>>

Announce(h, ids) ==
    /\ told' = told \cup ids
    /\ heard' = [heard EXCEPT ![h] = @ \cup ids]
    /\ repeated' = repeated \cup (ids \cap heard[h])

\* Slip: the rings are noted only after the wake, which throws.
Deliver_Unnoted(h) ==
    /\ round[h].pc = "deliver"
    /\ Announce(h, round[h].deliver \ announced[h])
    /\ round' = [round EXCEPT ![h] = Idle]
    /\ UNCHANGED <<stepRest, cursor, rings, breaks, baselined, muted, inherited, exposed>>

\* deliverBatch with a live session: what this process has not announced yet.
Deliver(h) ==
    /\ round[h].pc = "deliver"
    /\ Announce(h, round[h].deliver \ announced[h])
    /\ announced' = [announced EXCEPT ![h] = @ \cup round[h].deliver]
    /\ Commit(h, round[h]) /\ PassOver(round[h])
    /\ UNCHANGED <<stepRest, cursor, breaks, baselined, muted, inherited>>

\* Slip: no live session counts as delivered.
NobodyListens_Commits(h) ==
    /\ round[h].pc = "deliver"
    /\ Commit(h, round[h])
    /\ UNCHANGED <<stepRest, cursor, announced, breaks, history>>

\* deliverBatch without a live session: nothing is committed.
NobodyListens(h) ==
    /\ round[h].pc = "deliver"
    /\ round' = [round EXCEPT ![h] = Idle]
    /\ UNCHANGED <<stepRest, cursor, rings, breaks, history>>

\* writeConsumerCursor, temporary file and rename.  The cursor then stands at the
\* last copy of the letter it names, wherever that is.
WriteCursor(h) ==
    /\ round[h].pc = "write"
    /\ cursor' = round[h].next
    /\ inherited' = IF cursor = NoCursor THEN LinesAt(DOMAIN ledger) ELSE inherited
    /\ exposed' = [exposed EXCEPT !.skipped = @ \cup
         (LinesAt(round[h].to + 1 .. Position(round[h].next, Len(ledger))) \ Settled)]
    /\ round' = [round EXCEPT ![h] = Idle]
    /\ UNCHANGED <<stepRest, rings, breaks, told, notes, baselined, muted>>

\* The write is rejected: the ring keeps what the cursor does not.  (A host that
\* does not survive the rejection is Exit.)
WriteFails(h) ==
    /\ round[h].pc = "write" /\ Break
    /\ round' = [round EXCEPT ![h] = Idle]
    /\ UNCHANGED <<stepRest, cursor, rings, history>>

Reads(h) == \E failed \in BOOLEAN, due \in BOOLEAN : ReadCursor(h, failed, due)

Consuming(h) == \/ Tick(h) \/ Reads(h) \/ FetchPage(h) \/ FetchPageFails(h) \/ PassMuted(h)
                \/ Deliver(h) \/ NobodyListens(h) \/ WriteCursor(h) \/ WriteFails(h)

Next == Environment \/ \E h \in Hosts : Consuming(h)

Spec == Init /\ [][Next]_vars

(* Fairness: the timer of a running host fires again, and a request, a     *)
(* read and a write end; how many of them fail is bounded.  A host that    *)
(* has mail for a session in round after round finds one live in the end.  *)
(* Lines that stay behind the cursor grow older than the lag threshold:    *)
(* rounds that keep finding such lines are topped up (computeCursorLag).   *)
Working(h) == \/ Tick(h) \/ Reads(h) \/ FetchPage(h) \/ PassMuted(h) \/ Deliver(h)
              \/ NobodyListens(h) \/ WriteCursor(h)
LagTopsUp(h) ==
    Position(cursor, round[h].len) < round[h].len /\ ReadCursor(h, FALSE, TRUE)

Fairness ==
    \A h \in Hosts : /\ WF_vars(Working(h)) /\ SF_vars(LagTopsUp(h))
                     /\ SF_vars(PassMuted(h) \/ Deliver(h))
FairSpec == Spec /\ Fairness

----------------------------------------------------------------------------
(* Properties.                                                             *)

Pcs == {"off", "idle", "cursor", "page", "deliver", "write"}
Rounds == [pc : Pcs, len : Nat, anchor : {NoCursor, Empty} \cup Letters, fresh : SUBSET Letters,
           topUp : BOOLEAN, to : Nat, next : {Empty} \cup Letters, deliver : SUBSET Letters,
           acked : SUBSET Letters]
Exposures == [skipped : SUBSET Letters, unpaged : SUBSET Letters, blinded : SUBSET Letters]

\* Every variable has its type; no round is about to write an empty cursor
\* (writeConsumerCursor).
TypeOK ==
    /\ mail \in 0..MaxMail /\ closed \in SUBSET Letters /\ ledger \in Seq(Letters)
    /\ cursor \in {NoCursor, Empty} \cup Letters
    /\ round \in [Hosts -> Rounds]
    /\ seen \in [Hosts -> SUBSET Letters] /\ announced \in [Hosts -> SUBSET Letters]
    /\ exits \in 0..MaxExits /\ breaks \in 0..MaxBreaks
    /\ told \in SUBSET Letters /\ heard \in [Hosts -> SUBSET Letters] /\ repeated \in SUBSET Letters
    /\ baselined \in SUBSET Letters /\ muted \in SUBSET Letters /\ inherited \in SUBSET Letters
    /\ exposed \in Exposures

\* Every line the cursor has passed was announced, or left silent on purpose, or
\* is processed -- unless it met one of the three windows in which lines are lost
\* (see README): no session, no page and no restart loses one (runRound).
CursorCoversTheSettled == LinesAt(1..Position(cursor, Len(ledger))) \subseteq Settled \cup Exposed

\* The consumer keeps the promise of MailPromise for the shared cursor: a line in a round is
\* told, excused, or selected again, and never passed over.
Status == [m \in Letters |-> IF m \in told THEN "told" ELSE IF m \in Settled \cup Exposed THEN "excused"
                             ELSE IF \E h \in Hosts : m \in round[h].fresh \cup round[h].deliver THEN "held"
                             ELSE "waiting"]
Promise == INSTANCE MailPromise WITH passed <- LinesAt(1..Position(cursor, Len(ledger))), status <- Status
ConsumerKeepsThePromise == Promise!PromiseSpec

\* What is left silent as history was on the ledger when the cursor file came to
\* be, whichever host created it: the letter that creates the ledger wakes
\* (pollOnce reads the ledger before the cursor, and marks an empty one).
NothingNewIsSwallowed == cursor # NoCursor => baselined \subseteq inherited

\* A process announces a letter once, whatever the ledger, the other hosts and
\* the writes of the cursor do (deliverBatch).
ToldOncePerLife == repeated = {}

\* The last host that runs.
Alone(h) == round[h].pc # "off" /\ \A g \in Hosts \ {h} : round[g].pc = "off"

\* Once one host is left, whatever the others did before, no line waits for ever
\* (startLedgerIngestLoop).
LedgeredIsSettled ==
    (\E h \in Hosts : <>[]Alone(h)) =>
        \A m \in Letters : m \in LinesAt(DOMAIN ledger) ~> m \in Settled \cup Exposed
=============================================================================
