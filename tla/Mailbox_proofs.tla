-------------------------- MODULE Mailbox_proofs ----------------------------
(***************************************************************************)
(* Proofs about letters between the mailbox and those who use it, for any  *)
(* number of letters, requests and readers: one draft sent by retries      *)
(* (Composer), what the tools of the agents can and cannot hide            *)
(* (AgentMailbox), who is said to have read or closed a letter             *)
(* (LetterMarks), what the browser's lists show (PanelStore), and what its *)
(* badges count (UnreadBadge).                                             *)
(***************************************************************************)
EXTENDS Composer, AgentMailbox, LetterMarks, PanelStore, UnreadBadge, FiniteSetTheorems,
        WellFoundedInduction, TLAPS

-----------------------------------------------------------------------------
(* The composer.                                                           *)

\* Every request there has been, as far as anything remembers it.
Requests == onWire \union delivered \union ({sending} \ {NoRequest})

\* One key belongs to one state of the draft: requests made without a touch between carry the
\* same, and as long as the draft stands untouched it is the one kept for it.
KeysFollowTouches ==
  /\ \A r \in Requests : /\ r.touch <= touches
                         /\ r.touch = touches /\ draft # 0 => r.key = key
  /\ \A q, r \in Requests : q.touch = r.touch => q.key = r.key

\* The server delivers one letter per key.
KeysDeliverOnce == \A l, m \in delivered : l.key = m.key => l = m

ComposerInv == ComposerTypeOK /\ KeysFollowTouches /\ KeysDeliverOnce

LEMMA ComposerInvInit == ComposerInit => ComposerInv
BY ComposerAssumption DEF ComposerInit, ComposerInv, ComposerTypeOK, KeysFollowTouches, KeysDeliverOnce,
                          Requests, Request, NoRequest

\* Each edit, request, loss and arrival keeps the invariant.
LEMMA ComposerStep == ASSUME ComposerInv, ComposerNext PROVE ComposerInv'
<1> USE ComposerAssumption DEF ComposerInv, ComposerTypeOK
<1>1. ASSUME NEW r \in Requests PROVE r \in Request
    BY <1>1 DEF Requests
<1>2. CASE Edits \/ Reopens
    <2>1. /\ touches' = touches + 1 /\ touches < MaxTouches /\ UNCHANGED <<keys, sending, onWire, delivered>>
          /\ key' = 0
        BY <1>2 DEF Edits, Reopens
    <2>2. draft' \in 0..MaxDrafts /\ drafts' \in 0..MaxDrafts /\ draft' <= drafts'
        BY <1>2 DEF Edits, Reopens
    <2>3. Requests' = Requests
        BY <2>1 DEF Requests
    <2>4. KeysFollowTouches'
        BY <1>1, <2>1, <2>3 DEF KeysFollowTouches, Request
    <2> QED
        BY <2>1, <2>2, <2>4 DEF KeysDeliverOnce
<1>3. CASE Sends
    <2>1. /\ draft # 0 /\ sending = NoRequest /\ key' = (IF key = 0 THEN keys + 1 ELSE key)
          /\ keys' = (IF key = 0 THEN keys + 1 ELSE keys) /\ keys' <= MaxKeys
          /\ sending' = [draft |-> draft, key |-> key', touch |-> touches]
          /\ onWire' = onWire \union {sending'} /\ UNCHANGED <<draft, drafts, touches, delivered>>
        BY <1>3 DEF Sends
    <2>2. sending' \in Request /\ key' \in 1..keys' /\ keys' \in 0..MaxKeys
        BY <2>1 DEF Request
    <2>3. Requests' = Requests \union {sending'}
        BY <2>1 DEF Requests
    <2>4. \A r \in Requests : r.touch = touches => r.key = key'
        BY <1>1, <2>1 DEF KeysFollowTouches, Request
    <2>5. KeysFollowTouches'
        BY <2>1, <2>2, <2>3, <2>4 DEF KeysFollowTouches, Request
    <2> QED
        BY <2>1, <2>2, <2>5 DEF KeysDeliverOnce
<1>4. ASSUME NEW r \in onWire, Delivers(r) \/ Lost(r)
      PROVE  ComposerInv'
    <2>1. /\ onWire' = onWire \ {r} /\ UNCHANGED <<draft, drafts, key, keys, touches, sending>>
          /\ delivered' \in {delivered, delivered \union {r}}
        BY <1>4 DEF Delivers, Lost
    <2>2. Requests' \subseteq Requests
        BY <2>1 DEF Requests
    <2>3. KeysFollowTouches'
        BY <2>1, <2>2 DEF KeysFollowTouches
    <2>4. KeysDeliverOnce'
        BY <1>4 DEF Delivers, Lost, KeysDeliverOnce
    <2> QED
        BY <2>1, <2>3, <2>4
<1>5. CASE Succeeds \/ SendFails
    <2>1. /\ UNCHANGED <<drafts, keys, touches, onWire, delivered>> /\ sending' = NoRequest
          /\ (key' = 0 /\ draft' = 0) \/ UNCHANGED <<key, draft>>
        BY <1>5 DEF Succeeds, SendFails
    <2>2. Requests' \subseteq Requests
        BY <2>1 DEF Requests
    <2>3. KeysFollowTouches'
        BY <2>1, <2>2 DEF KeysFollowTouches
    <2> QED
        BY <2>1, <2>3 DEF KeysDeliverOnce
<1> QED
    BY <1>2, <1>3, <1>4, <1>5 DEF ComposerNext

LEMMA ComposerInvHolds == ComposerSpec => []ComposerInv
<1>1. ComposerInv /\ UNCHANGED composerVars => ComposerInv'
    BY DEF composerVars, ComposerInv, ComposerTypeOK, KeysFollowTouches, KeysDeliverOnce, Requests
<1>2. ComposerInv /\ [ComposerNext]_composerVars => ComposerInv'
    BY <1>1, ComposerStep
<1> QED
    BY <1>2, ComposerInvInit, PTL DEF ComposerSpec

\* The draft, its key, the requests under way and the server's letters have their types.
THEOREM ComposerTypes == ComposerSpec => []ComposerTypeOK
<1>1. ComposerInv => ComposerTypeOK
    BY DEF ComposerInv
<1> QED
    BY <1>1, ComposerInvHolds, PTL

\* However a draft is edited, sent, lost and sent again: as long as nothing touches it between, it
\* is delivered once, also when an answer was lost and the request before it arrives late.
THEOREM DraftsAreDeliveredOnce == ComposerSpec => []RetriesDeliverOnce
<1>1. ComposerInv => RetriesDeliverOnce
    BY DEF ComposerInv, RetriesDeliverOnce, KeysFollowTouches, KeysDeliverOnce, Requests
<1> QED
    BY <1>1, ComposerInvHolds, PTL

-----------------------------------------------------------------------------
(* What the agents see.                                                    *)

\* A page has a first and a last letter.
LEMMA FirstOfPage ==
    ASSUME NEW S \in SUBSET Nat, S # {}
    PROVE  Min(S) \in S /\ \A m \in S : Min(S) <= m
<1>1. \E x \in S : \A y \in S : ~(y < x)
    <2> DEFINE Below == OpToRel(<, Nat)
    <2>1. \E x \in S : \A y \in S : ~(<<y, x>> \in Below)
        BY NatLessThanWellFounded, WFMin
    <2> QED
        BY <2>1 DEF OpToRel
<1>2. \E x \in S : \A y \in S : x <= y
    BY <1>1
<1> QED
    BY <1>2 DEF Min

LEMMA LastOfPage ==
    ASSUME NEW n \in Nat, NEW S \in SUBSET (1..n), S # {}
    PROVE  Max(S) \in S /\ \A m \in S : m <= Max(S)
<1> DEFINE T == {k \in 0..n : n - k \in S}
<1>1. T \in SUBSET Nat /\ T # {}
    <2>1. T \in SUBSET Nat
        OBVIOUS
    <2>2. PICK i \in S : TRUE
        OBVIOUS
    <2>3. n - i \in T
        BY <2>2
    <2> QED
        BY <2>1, <2>3
<1> HIDE DEF T
<1>2. Min(T) \in T /\ \A k \in T : Min(T) <= k
    BY <1>1, FirstOfPage
<1>3. n - Min(T) \in S
    BY <1>2 DEF T
<1>4. ASSUME NEW m \in S PROVE m <= n - Min(T)
    <2>1. n - m \in T
        BY DEF T
    <2>2. Min(T) <= n - m /\ Min(T) \in 0..n
        BY <1>2, <2>1 DEF T
    <2> QED
        BY <2>2
<1>5. \E x \in S : \A y \in S : x >= y
    BY <1>3, <1>4
<1> QED
    BY <1>5 DEF Max

\* A page from a cursor misses nothing between the cursor and its last letter.
LEMMA OldestReaches ==
    ASSUME NEW a \in Nat, NEW b \in Nat, NEW limit \in Nat, NEW m \in a + 1..b,
           NEW k \in Oldest(a + 1..b, limit), m < k
    PROVE  m \in Oldest(a + 1..b, limit)
<1> DEFINE R == a + 1..b
           under(x) == {n \in R : n < x}
<1>1. k \in R /\ Cardinality(under(k)) < limit
    BY DEF Oldest
<1>2. IsFiniteSet(R)
    BY FS_Interval
<1>3. IsFiniteSet(under(k))
    BY <1>2, FS_Subset
<1>4. under(m) \subseteq under(k)
    BY <1>1
<1>5. IsFiniteSet(under(m)) /\ Cardinality(under(m)) <= Cardinality(under(k))
    BY <1>3, <1>4, FS_Subset
<1>6. Cardinality(under(m)) \in Nat /\ Cardinality(under(k)) \in Nat
    BY <1>3, <1>5, FS_CardinalityType
<1> QED
    BY <1>1, <1>5, <1>6 DEF Oldest

\* A page without one misses only what is older than all of it, and then it is full.
LEMMA NewestReaches ==
    ASSUME NEW b \in Nat, NEW limit \in Nat \ {0}, NEW m \in 1..b, m \notin Newest(1..b, limit)
    PROVE  /\ \A k \in Newest(1..b, limit) : m < k
           /\ Cardinality(Newest(1..b, limit)) = limit
<1>1. \A x \in 1..b : Cardinality({n \in 1..b : n > x}) = b - x
    <2> SUFFICES ASSUME NEW x \in 1..b PROVE Cardinality({n \in 1..b : n > x}) = b - x
        OBVIOUS
    <2>1. {n \in 1..b : n > x} = x + 1..b
        OBVIOUS
    <2>2. x + 1 \in Int /\ b \in Int /\ x <= b
        OBVIOUS
    <2>3. Cardinality(x + 1..b) = IF x + 1 > b THEN 0 ELSE b - (x + 1) + 1
        BY <2>2, FS_Interval, Zenon
    <2>4. (IF x + 1 > b THEN 0 ELSE b - (x + 1) + 1) = b - x
        BY <2>2
    <2> QED
        BY <2>1, <2>3, <2>4, Zenon
<1>2. Newest(1..b, limit) = {x \in 1..b : b - x < limit}
    BY <1>1 DEF Newest
<1>3. b - m >= limit
    BY <1>2
<1>4. {x \in 1..b : b - x < limit} = (b - limit) + 1..b
    BY <1>3
<1>5. Cardinality((b - limit) + 1..b) = limit
    <2>1. Cardinality((b - limit) + 1..b) = IF (b - limit) + 1 > b THEN 0 ELSE b - ((b - limit) + 1) + 1
        BY FS_Interval
    <2> QED
        BY <2>1
<1>6. \A k \in Newest(1..b, limit) : m < k
    BY <1>2, <1>3
<1> QED
    BY <1>2, <1>4, <1>5, <1>6

-----------------------------------------------------------------------------
(* The position *)

\* Shown, about to be shown, or accounted for.
Settled == pulled \union InHands \union passedOver

\* What a page of the view of all leaves out below its last letter.
Reaches(c) ==
  \A m \in 1..arrived, k \in c.page :
    m \notin c.page /\ m < k => m \in Settled \/ (c.short /\ \A j \in c.page : m < j)

\* A call starts from a position that holds, and keeps what it needs of it while it is answered
\* and saved, whatever the other sessions do to the position meanwhile.
CallHolds(c) ==
  /\ c.pc = "ask" => /\ c.since <= arrived /\ 1..c.since \subseteq Settled
                     /\ c.after <= arrived /\ 1..c.after \subseteq Settled
  /\ c.pc = "save" => /\ c.page \subseteq 1..arrived /\ (c.moves => c.page # {})
                      /\ c.after <= arrived /\ 1..c.after \subseteq Settled
                      /\ c.all => Reaches(c)
  /\ c.pc = "mark" => c.rows \subseteq 1..arrived
CallsHold == \A s \in Sessions : CallHolds(call[s])
PositionsHold == 1..cursor \subseteq Settled /\ 1..lastSeen \subseteq Settled

MailInv == BoxTypeOK /\ CallsHold /\ PositionsHold

\* The type invariant with the records of the calls taken apart.
LEMMA BoxTypesUnfold ==
    BoxTypeOK <=>
      /\ givesCursor \in BOOLEAN /\ arrived \in 0..MaxArrivals
      /\ readOnServer \subseteq 1..arrived /\ closedOnServer \subseteq 1..arrived
      /\ pulled \subseteq 1..arrived /\ passedOver \subseteq 1..arrived
      /\ cursor \in 0..arrived /\ lastSeen \in 0..arrived
      /\ call \in [Sessions -> Calls]
BY DEF BoxTypeOK, Spots

\* What is known of a call under way.
LEMMA CallFields ==
    ASSUME NEW c \in Calls
    PROVE  /\ c.pc \in {"idle", "ask", "save", "mark"} /\ (c.pc = "idle" <=> c = Idle)
           /\ c.pc = "ask" => c \in [pc : {"ask"}, view : Views, limit : 1..MaxLimit, moves : BOOLEAN,
                                     since : Spots, after : Spots]
           /\ c.pc = "save" => c \in [pc : {"save"}, moves : BOOLEAN, all : BOOLEAN, short : BOOLEAN,
                                      after : Spots, page : SUBSET (1..MaxArrivals), byCursor : BOOLEAN]
           /\ c.pc = "mark" => c \in [pc : {"mark"}, rows : SUBSET (1..MaxArrivals)]
BY DEF Calls, Idle

\* A letter is in hands when some session's call has it.
LEMMA InHandsIs ==
    ASSUME NEW m
    PROVE  m \in InHands <=> \E s \in Sessions : call[s].pc = "mark" /\ m \in call[s].rows
BY DEF InHands

LEMMA MailInvInit == BoxInit => MailInv
<1> SUFFICES ASSUME BoxInit PROVE MailInv
    OBVIOUS
<1>1. arrived = 0 /\ cursor = 0 /\ lastSeen = 0
    BY Zenon DEF BoxInit
<1>2. /\ readOnServer = {} /\ closedOnServer = {} /\ pulled = {} /\ passedOver = {}
      /\ givesCursor \in BOOLEAN
    BY Zenon DEF BoxInit
<1>3. call \in [Sessions -> Calls] /\ \A s \in Sessions : call[s].pc = "idle"
    BY DEF BoxInit, Calls, Idle
<1>4. arrived \in 0..MaxArrivals /\ cursor \in 0..arrived /\ lastSeen \in 0..arrived
    BY <1>1, MailboxAssumption
<1>5. BoxTypeOK
    BY <1>2, <1>3, <1>4, BoxTypesUnfold
<1>6. CallsHold
    BY <1>3 DEF CallsHold, CallHolds
<1>7. PositionsHold
    BY <1>1 DEF PositionsHold
<1> QED
    BY <1>5, <1>6, <1>7 DEF MailInv

\* As letters come and are settled, a call keeps what it has.
LEMMA CallsKeep ==
    ASSUME arrived \in Nat, arrived' \in Nat, arrived <= arrived', Settled \subseteq Settled'
    PROVE  \A c \in Calls : CallHolds(c) => CallHolds(c)'
<1> SUFFICES ASSUME NEW c \in Calls, CallHolds(c) PROVE CallHolds(c)'
    OBVIOUS
<1>1. ASSUME c.pc = "ask"
      PROVE  /\ c.since <= arrived' /\ 1..c.since \subseteq Settled'
             /\ c.after <= arrived' /\ 1..c.after \subseteq Settled'
    <2>1. c.since \in Nat /\ c.after \in Nat
        BY <1>1, CallFields DEF Spots
    <2> QED
        BY <1>1, <2>1 DEF CallHolds
<1>2. ASSUME c.pc = "save"
      PROVE  /\ c.page \subseteq 1..arrived' /\ (c.moves => c.page # {})
             /\ c.after <= arrived' /\ 1..c.after \subseteq Settled'
             /\ (c.all => Reaches(c)')
    <2>1. c.after \in Nat /\ c.page \subseteq 1..arrived
        BY <1>2, CallFields DEF Spots, CallHolds
    <2>2. c.page \subseteq 1..arrived'
        BY <2>1
    <2>3. ASSUME c.all PROVE Reaches(c)'
        <3>1. Reaches(c)
            BY <1>2, <2>3 DEF CallHolds
        <3> SUFFICES ASSUME NEW m \in 1..arrived', NEW k \in c.page, m \notin c.page, m < k
                     PROVE  m \in Settled' \/ (c.short /\ \A j \in c.page : m < j)
            BY DEF Reaches
        <3>2. m \in 1..arrived
            BY <2>1
        <3> QED
            BY <3>1, <3>2 DEF Reaches
    <2> QED
        BY <1>2, <2>1, <2>2, <2>3 DEF CallHolds
<1>3. ASSUME c.pc = "mark" PROVE c.rows \subseteq 1..arrived'
    <2>1. c.rows \subseteq 1..arrived
        BY <1>3 DEF CallHolds
    <2> QED
        BY <2>1
<1> QED
    BY <1>1, <1>2, <1>3 DEF CallHolds

\* The page of a call that asks for all reaches back to where it started from.
LEMMA PagesReach ==
    ASSUME BoxTypeOK, NEW c \in Calls, c.pc = "ask", CallHolds(c), NEW sheet,
           sheet = IF c.since > 0 THEN Oldest(Rows(c.view, c.since), c.limit)
                                 ELSE Newest(Rows(c.view, 0), c.limit)
    PROVE  /\ sheet \subseteq 1..arrived
           /\ c.view = "all" =>
                \A m \in 1..arrived, k \in sheet :
                  m \notin sheet /\ m < k => \/ m \in Settled
                                            \/ /\ c.since = 0 /\ Cardinality(sheet) = c.limit
                                               /\ \A j \in sheet : m < j
<1>1. c.since \in Nat /\ c.limit \in Nat \ {0} /\ arrived \in Nat /\ 1..c.since \subseteq Settled
    BY CallFields, BoxTypesUnfold, MailboxAssumption DEF CallHolds, Spots
<1>2. sheet \subseteq 1..arrived
    BY <1>1 DEF Oldest, Newest, Rows
<1>3. c.view = "all" => \A a : Rows(c.view, a) = a + 1..arrived
    BY DEF Rows, InView
<1>4. ASSUME c.view = "all", NEW m \in 1..arrived, NEW k \in sheet, m \notin sheet, m < k
      PROVE  \/ m \in Settled
             \/ c.since = 0 /\ Cardinality(sheet) = c.limit /\ \A j \in sheet : m < j
    <2>1. CASE c.since > 0
        <3>1. sheet = Oldest(c.since + 1..arrived, c.limit)
            BY <1>3, <1>4, <2>1
        <3>2. m \notin c.since + 1..arrived
            BY <1>1, <1>4, <3>1, OldestReaches
        <3> QED
            BY <1>1, <3>2
    <2>2. CASE c.since = 0
        <3>1. sheet = Newest(1..arrived, c.limit)
            BY <1>3, <1>4, <2>2
        <3> QED
            BY <1>1, <1>4, <2>2, <3>1, NewestReaches
    <2> QED
        BY <1>1, <2>1, <2>2
<1> QED
    BY <1>2, <1>4

\* Each step of a call, of a letter and of the server keeps the invariant.
LEMMA MailStep == ASSUME MailInv, BoxNext PROVE MailInv'
<1> DEFINE Q == /\ givesCursor \in BOOLEAN /\ arrived \in 0..MaxArrivals
                /\ readOnServer \subseteq 1..arrived /\ closedOnServer \subseteq 1..arrived
                /\ pulled \subseteq 1..arrived /\ passedOver \subseteq 1..arrived
                /\ cursor \in 0..arrived /\ lastSeen \in 0..arrived
                /\ call \in [Sessions -> Calls]
<1>1. Q /\ CallsHold /\ PositionsHold /\ BoxTypeOK
    BY BoxTypesUnfold DEF MailInv
<1> SUFFICES Q' /\ CallsHold' /\ PositionsHold'
    <2>1. Q <=> BoxTypeOK
        BY BoxTypesUnfold
    <2> HIDE DEF Q
    <2>2. (Q <=> BoxTypeOK)'
        BY BoxTypesUnfold, PTL DEF Q
    <2> QED
        BY <2>2 DEF MailInv
<1>num. arrived \in Nat /\ cursor \in Nat /\ lastSeen \in Nat
    BY <1>1
<1>hands. /\ \A m : m \in InHands <=> \E s \in Sessions : call[s].pc = "mark" /\ m \in call[s].rows
          /\ \A m : m \in InHands' <=> \E s \in Sessions : call'[s].pc = "mark" /\ m \in call'[s].rows
    BY DEF InHands
<1>2. CASE LetterArrives
    <2>1. UNCHANGED <<givesCursor, readOnServer, closedOnServer, cursor, lastSeen, call, pulled, passedOver>>
        BY <1>2, Zenon DEF LetterArrives, position
    <2>2. arrived < MaxArrivals /\ arrived' = arrived + 1
        BY <1>2 DEF LetterArrives
    <2>3. /\ arrived' \in 0..MaxArrivals /\ arrived' \in Nat /\ arrived <= arrived'
          /\ 1..arrived \subseteq 1..arrived' /\ 0..arrived \subseteq 0..arrived'
        BY <1>1, <1>num, <2>2, MailboxAssumption
    <2>4. Settled' = Settled
        BY <2>1 DEF Settled, InHands
    <2>5. Q'
        BY <1>1, <2>1, <2>3
    <2>6. CallsHold'
        BY <1>1, <1>num, <2>1, <2>3, <2>4, CallsKeep DEF CallsHold
    <2> QED
        BY <1>1, <2>1, <2>4, <2>5, <2>6 DEF PositionsHold
\* A step of one session: what is settled stays settled, and the other calls keep what they have.
<1>3. ASSUME NEW s \in Sessions, NEW c \in Calls, call' = [call EXCEPT ![s] = c], UNCHANGED arrived,
             Settled \subseteq Settled', CallHolds(c)
      PROVE  call' \in [Sessions -> Calls] /\ CallsHold'
    <2>1. \A d \in Calls : CallHolds(d) => CallHolds(d)'
        BY <1>num, <1>3, CallsKeep
    <2>2. call' \in [Sessions -> Calls]
        BY <1>1, <1>3
    <2>3. ASSUME NEW t \in Sessions PROVE CallHolds(call[t])'
        <3>1. CASE t = s
            <4>1. call'[t] = c /\ CallHolds(c)'
                BY <1>1, <1>3, <2>1, <3>1
            <4> QED
                BY <4>1 DEF CallHolds, Reaches
        <3>2. CASE t # s
            <4>1. call'[t] = call[t] /\ call[t] \in Calls /\ CallHolds(call[t])
                BY <1>1, <1>3, <3>2 DEF CallsHold
            <4> QED
                BY <2>1, <4>1
        <3> QED
            BY <3>1, <3>2
    <2> QED
        BY <2>2, <2>3 DEF CallsHold
\* A step that moves neither the letters nor the position.
<1>4. ASSUME UNCHANGED <<givesCursor, arrived, readOnServer, closedOnServer, cursor, lastSeen, pulled, passedOver>>,
             NEW s \in Sessions, NEW c \in Calls, call' = [call EXCEPT ![s] = c],
             call[s].pc # "mark", CallHolds(c)
      PROVE  Q' /\ CallsHold' /\ PositionsHold'
    <2>1. Settled \subseteq Settled'
        <3>1. \A m \in InHands : m \in InHands'
            BY <1>1, <1>4, <1>hands
        <3> QED
            BY <1>4, <3>1 DEF Settled
    <2>2. call' \in [Sessions -> Calls] /\ CallsHold'
        BY <1>3, <1>4, <2>1
    <2> QED
        BY <1>1, <1>4, <2>1, <2>2 DEF PositionsHold
<1>idle. Idle \in Calls /\ CallHolds(Idle)
    BY DEF Calls, Idle, CallHolds
<1>5. ASSUME NEW m \in 1..arrived, HumanReads(m) PROVE Q' /\ CallsHold' /\ PositionsHold'
    <2>1. UNCHANGED <<givesCursor, arrived, closedOnServer, cursor, lastSeen, call, pulled, passedOver>>
        BY <1>5, Zenon DEF HumanReads, position
    <2>2. readOnServer' \subseteq 1..arrived
        BY <1>1, <1>5 DEF HumanReads
    <2>3. Settled' = Settled
        BY <2>1 DEF Settled, InHands
    <2> QED
        BY <1>1, <1>num, <2>1, <2>2, <2>3, CallsKeep DEF CallsHold, PositionsHold
<1>6. ASSUME NEW s \in Sessions, NEW m \in 1..arrived, ClosesLetter(s, m)
      PROVE  Q' /\ CallsHold' /\ PositionsHold'
    <2>1. UNCHANGED <<givesCursor, arrived, cursor, lastSeen, call, pulled, passedOver>>
        BY <1>6, Zenon DEF ClosesLetter, position
    <2>2. readOnServer' \subseteq 1..arrived /\ closedOnServer' \subseteq 1..arrived
        BY <1>1, <1>6 DEF ClosesLetter
    <2>3. Settled' = Settled
        BY <2>1 DEF Settled, InHands
    <2> QED
        BY <1>1, <1>num, <2>1, <2>2, <2>3, CallsKeep DEF CallsHold, PositionsHold
<1>7. ASSUME NEW s \in Sessions, BeginsPull(s) PROVE Q' /\ CallsHold' /\ PositionsHold'
    <2>1. /\ UNCHANGED <<givesCursor, arrived, readOnServer, closedOnServer, cursor, lastSeen, pulled, passedOver>>
          /\ call[s] = Idle
        BY <1>7, Zenon DEF BeginsPull, onServer, position
    <2>2. PICK which \in Views, limit \in 1..MaxLimit, moves \in BOOLEAN, since \in 0..cursor, after \in 0..lastSeen :
             call' = [call EXCEPT ![s] = [pc |-> "ask", view |-> which, limit |-> limit, moves |-> moves,
                                          since |-> since, after |-> after]]
        <3>1. PICK which \in Views, limit \in 1..MaxLimit :
                 \/ Becomes(s, [pc |-> "ask", view |-> which, limit |-> limit, moves |-> BySaved(which),
                      since |-> IF BySaved(which) THEN cursor ELSE 0,
                      after |-> IF cursor = 0 /\ BySaved(which) THEN lastSeen ELSE 0])
                 \/ \E since \in 1..cursor, advance \in BOOLEAN :
                      Becomes(s, [pc |-> "ask", view |-> which, limit |-> limit, moves |-> advance,
                        since |-> since, after |-> 0])
            BY <1>7 DEF BeginsPull
        <3>2. /\ BySaved(which) \in BOOLEAN /\ 0 \in 0..cursor /\ cursor \in 0..cursor /\ 0 \in 0..lastSeen
              /\ lastSeen \in 0..lastSeen /\ 1..cursor \subseteq 0..cursor
            BY <1>num DEF BySaved
        <3>3. /\ (IF BySaved(which) THEN cursor ELSE 0) \in 0..cursor
              /\ (IF cursor = 0 /\ BySaved(which) THEN lastSeen ELSE 0) \in 0..lastSeen
            BY <3>2
        <3> QED
            BY <3>1, <3>2, <3>3 DEF Becomes
    <2> DEFINE c == [pc |-> "ask", view |-> which, limit |-> limit, moves |-> moves, since |-> since, after |-> after]
    <2>3. since \in Spots /\ after \in Spots /\ since <= arrived /\ after <= arrived
        BY <1>1, <1>num, MailboxAssumption DEF Spots
    <2>4. c \in Calls /\ c.pc = "ask" /\ c.since = since /\ c.after = after
        BY <2>3 DEF Calls
    <2>5. 1..since \subseteq Settled /\ 1..after \subseteq Settled
        BY <1>1, <1>num DEF PositionsHold
    <2>6. call' = [call EXCEPT ![s] = c] /\ call[s].pc # "mark"
        BY <2>1, <2>2 DEF Idle
    <2> HIDE DEF c
    <2>7. CallHolds(c)
        BY <2>3, <2>4, <2>5 DEF CallHolds
    <2> QED
        BY <1>4, <2>1, <2>4, <2>6, <2>7
<1>8. ASSUME NEW s \in Sessions, PullFails(s) PROVE Q' /\ CallsHold' /\ PositionsHold'
    <2>1. /\ UNCHANGED <<givesCursor, arrived, readOnServer, closedOnServer, cursor, lastSeen, pulled, passedOver>>
          /\ call[s].pc # "mark" /\ call' = [call EXCEPT ![s] = Idle]
        BY <1>8 DEF PullFails, onServer, position, Becomes
    <2> QED
        BY <1>4, <1>idle, <2>1
<1>9. ASSUME NEW s \in Sessions, PullAnswered(s) PROVE Q' /\ CallsHold' /\ PositionsHold'
    <2> DEFINE c == call[s]
               sheet == IF c.since > 0 THEN Oldest(Rows(c.view, c.since), c.limit) ELSE Newest(Rows(c.view, 0), c.limit)
               moves == c.moves /\ sheet # {}
               all == c.view = "all"
               short == c.since = 0 /\ Cardinality(sheet) = c.limit
               byCursor == c.since > 0 \/ givesCursor
               d == [pc |-> "save", moves |-> moves, all |-> all, short |-> short, after |-> c.after,
                     page |-> sheet, byCursor |-> byCursor]
    <2>1. /\ UNCHANGED <<givesCursor, arrived, readOnServer, closedOnServer, cursor, lastSeen, pulled, passedOver>>
          /\ call[s].pc = "ask" /\ call' = [call EXCEPT ![s] = d]
        BY <1>9, Zenon DEF PullAnswered, onServer, position, Becomes
    <2>2. c \in Calls /\ CallHolds(c) /\ c.pc = "ask"
        BY <1>1, <2>1 DEF CallsHold
    <2>3. /\ c.after \in Spots /\ c.after <= arrived /\ 1..c.after \subseteq Settled
        BY <2>2, CallFields DEF CallHolds
    <2>4. /\ sheet \subseteq 1..arrived
          /\ all => \A m \in 1..arrived, k \in sheet :
                      m \notin sheet /\ m < k => m \in Settled \/ (short /\ \A j \in sheet : m < j)
        BY <1>1, <2>2, PagesReach
    <2>5. moves \in BOOLEAN /\ all \in BOOLEAN /\ short \in BOOLEAN /\ byCursor \in BOOLEAN
        BY <1>1, <2>2, CallFields
    <2>6. moves => sheet # {}
        OBVIOUS
    <2>7. sheet \in SUBSET (1..MaxArrivals)
        BY <1>1, <2>4, MailboxAssumption
    <2> HIDE DEF c, sheet, moves, all, short, byCursor
    <2>8. /\ d \in Calls /\ d.pc = "save" /\ d.after = c.after /\ d.page = sheet
          /\ d.moves = moves /\ d.all = all /\ d.short = short
        BY <2>3, <2>5, <2>7 DEF Calls
    <2> HIDE DEF d
    <2>9. d.all => Reaches(d)
        BY <2>4, <2>8 DEF Reaches
    <2>10. CallHolds(d)
        BY <2>3, <2>4, <2>6, <2>8, <2>9 DEF CallHolds
    <2> QED
        BY <1>4, <2>1, <2>8, <2>10
<1>10. ASSUME NEW s \in Sessions, SavesPosition(s) PROVE Q' /\ CallsHold' /\ PositionsHold'
    <2> DEFINE c == call[s]
               rows == IF c.moves /\ ~c.byCursor THEN WithoutSeen(c.page, c.after) ELSE c.page
               d == [pc |-> "mark", rows |-> rows]
    <2>1. /\ UNCHANGED <<givesCursor, arrived, readOnServer, closedOnServer, pulled>>
          /\ c.pc = "save" /\ call' = [call EXCEPT ![s] = d]
        BY <1>10, Zenon DEF SavesPosition, onServer, Becomes
    <2>2. c \in Calls /\ CallHolds(c)
        BY <1>1 DEF CallsHold
    <2>3. /\ c.page \subseteq 1..arrived /\ (c.moves => c.page # {}) /\ c.after \in Nat
          /\ c.after <= arrived /\ 1..c.after \subseteq Settled /\ (c.all => Reaches(c))
          /\ c.page \subseteq 1..MaxArrivals
        BY <2>1, <2>2, CallFields DEF CallHolds, Spots
    <2>4. rows \subseteq c.page
        BY DEF WithoutSeen
    <2>5. d \in Calls /\ d.pc = "mark" /\ d.rows = rows
        BY <2>3, <2>4 DEF Calls
    <2>6. CallHolds(d)
        BY <2>1, <2>3, <2>4, <2>5 DEF CallHolds
    <2>7. passedOver \subseteq passedOver'
        BY <1>10 DEF SavesPosition
    <2> HIDE DEF rows, d
    <2>8. rows \subseteq Settled' /\ Settled \subseteq Settled'
        <3>1. call'[s] = d
            BY <1>1, <2>1
        <3>2. rows \subseteq InHands'
            BY <1>hands, <2>5, <3>1
        <3>3. InHands \subseteq InHands'
            <4>1. \A t \in Sessions : call[t].pc = "mark" => call'[t] = call[t]
                BY <1>1, <2>1
            <4> QED
                BY <1>hands, <4>1
        <3> QED
            BY <2>1, <2>7, <3>2, <3>3 DEF Settled
    <2>9. call' \in [Sessions -> Calls] /\ CallsHold'
        BY <1>3, <2>1, <2>5, <2>6, <2>8
    <2>10. CASE ~c.moves
        <3>1. UNCHANGED <<cursor, lastSeen, passedOver>>
            BY <1>10, <2>10, Zenon DEF SavesPosition, position
        <3> QED
            BY <1>1, <2>1, <2>8, <2>9, <3>1 DEF PositionsHold
    <2>11. CASE c.moves
        <3> DEFINE last == Max(c.page)
        <3>1. last \in c.page /\ \A m \in c.page : m <= last
            BY <1>num, <2>3, <2>11, LastOfPage
        <3>2. c.page \subseteq Nat /\ last \in 1..arrived
            BY <2>3, <3>1
        <3>3. Min(c.page) \in c.page /\ \A m \in c.page : Min(c.page) <= m
            BY <3>1, <3>2, FirstOfPage
        <3>4. passedOver' = passedOver \union LeftBehind(c)
            BY <1>10, <2>11, Zenon DEF SavesPosition
        <3>5. /\ cursor' = last \/ cursor' = cursor
              /\ lastSeen' = last \/ lastSeen' = lastSeen
            BY <1>10, <2>11 DEF SavesPosition
        <3>6. LeftBehind(c) \subseteq 1..arrived
            <4>1. LeftBehind(c) \subseteq 1..last
                BY DEF LeftBehind
            <4> QED
                BY <1>num, <3>2, <4>1
        <3> HIDE DEF last
        \* Every letter up to the last of the page.
        <3>7. ASSUME NEW m \in 1..last PROVE m \in Settled'
            <4>1. m \in 1..arrived /\ m <= last
                BY <1>num, <3>2
            <4>2. CASE m \in c.page
                <5>1. m \in rows \/ (c.after \in c.page /\ m <= c.after)
                    BY <2>3, <4>1, <4>2 DEF rows, WithoutSeen
                <5> QED
                    BY <2>3, <2>8, <4>1, <5>1
            <4>3. CASE m \notin c.page /\ m \notin Settled
                <5>1. m \notin pulled /\ m < last
                    BY <3>1, <3>2, <4>1, <4>3 DEF Settled
                <5>2. m \in (1..last) \ (c.page \union pulled)
                    BY <4>3, <5>1
                <5>3. CASE ~c.all
                    BY <3>4, <5>2, <5>3 DEF LeftBehind, Settled, last
                <5>4. CASE c.all
                    <6>1. c.short /\ \A j \in c.page : m < j
                        BY <2>3, <3>1, <4>1, <4>3, <5>1, <5>4 DEF Reaches
                    <6>2. c.after \notin c.page
                        BY <2>3, <4>1, <4>3, <6>1
                    <6> QED
                        BY <3>3, <3>4, <5>2, <5>4, <6>1, <6>2 DEF LeftBehind, Settled, last
                <5> QED
                    BY <5>3, <5>4
            <4> QED
                BY <2>8, <4>2, <4>3
        <3>8. PositionsHold'
            BY <1>1, <2>8, <3>5, <3>7 DEF PositionsHold
        <3>9. cursor' \in 0..arrived /\ lastSeen' \in 0..arrived
            BY <1>1, <3>2, <3>5
        <3>10. passedOver' \subseteq 1..arrived
            BY <1>1, <3>4, <3>6
        <3> QED
            BY <1>1, <2>1, <2>9, <3>8, <3>9, <3>10
    <2> QED
        BY <2>10, <2>11
<1>11. ASSUME NEW s \in Sessions, PullShows(s) \/ PullIsLost(s) PROVE Q' /\ CallsHold' /\ PositionsHold'
    <2>1. /\ UNCHANGED <<givesCursor, arrived, closedOnServer, cursor, lastSeen>>
          /\ call[s].pc = "mark" /\ call' = [call EXCEPT ![s] = Idle]
        BY <1>11 DEF PullShows, PullIsLost, onServer, position, Becomes
    <2>2. call[s] \in Calls /\ call[s].rows \subseteq 1..arrived
        BY <1>1, <2>1 DEF CallsHold, CallHolds
    <2>3. /\ pulled' \subseteq 1..arrived /\ passedOver' \subseteq 1..arrived /\ readOnServer' \subseteq 1..arrived
        BY <1>1, <1>11, <2>2 DEF PullShows, PullIsLost, onServer
    <2>4. /\ call[s].rows \subseteq pulled' \union passedOver' /\ pulled \subseteq pulled'
          /\ passedOver \subseteq passedOver'
        BY <1>11 DEF PullShows, PullIsLost
    <2>5. \A m \in InHands : m \in InHands' \/ m \in call[s].rows
        <3>1. \A t \in Sessions : t # s => call'[t] = call[t]
            BY <1>1, <2>1
        <3> QED
            BY <1>hands, <3>1
    <2>6. Settled \subseteq Settled'
        BY <2>4, <2>5 DEF Settled
    <2>7. call' \in [Sessions -> Calls] /\ CallsHold'
        BY <1>3, <1>idle, <2>1, <2>6
    <2> QED
        BY <1>1, <2>1, <2>3, <2>6, <2>7 DEF PositionsHold
<1> QED
    BY <1>2, <1>5, <1>6, <1>7, <1>8, <1>9, <1>10, <1>11 DEF BoxNext

LEMMA MailInvHolds == BoxSpec => []MailInv
<1>1. MailInv /\ UNCHANGED boxVars => MailInv'
    BY DEF boxVars, MailInv, BoxTypeOK, CallsHold, CallHolds, Reaches, PositionsHold, Settled, InHands
<1>2. MailInv /\ [BoxNext]_boxVars => MailInv'
    BY <1>1, MailStep
<1> QED
    BY <1>2, MailInvInit, PTL DEF BoxSpec

\* The position of a mailbox is a letter that has come, and no call shows one that has not.
THEOREM BoxTypes == BoxSpec => []BoxTypeOK
<1>1. MailInv => BoxTypeOK
    BY DEF MailInv
<1> QED
    BY <1>1, MailInvHolds, PTL

\* Whatever the sessions of a workspace do to the position they share, no letter falls behind it
\* but for the reasons that are named.
THEOREM HiddenLettersAreExplained == BoxSpec => []HiddenIsExplained
<1>1. MailInv => HiddenIsExplained
    BY DEF MailInv, PositionsHold, Settled, HiddenIsExplained, StartsFrom
<1> QED
    BY <1>1, MailInvHolds, PTL

-----------------------------------------------------------------------------
(* Who read a letter and who closed it.                                    *)

\* The server keeps a name only for what has happened, and none at all before v1.13.
ServerIsConsistent ==
  /\ said.read # Nobody => wasRead
  /\ said.done # Nobody => wasClosed
  /\ ~native => said = NoMark

\* A handler goes on to its mark after the server did what was asked of it, and so a mark stands
\* for something the server knows.
MarksFollowTheServer ==
  native /\ ~swallowed =>
    /\ \A w \in Who : /\ work[w].pc # "less"
                      /\ work[w].pc = "write" =>
                            /\ work[w].what \in {"read", "peek", "done"} => wasRead
                            /\ work[w].what \in {"done", "reply"} => wasClosed
    /\ ~merged => /\ mark.read # Nobody => wasRead
                  /\ mark.done # Nobody => wasClosed

MarksInv == MarksTypeOK /\ ServerIsConsistent /\ MarksFollowTheServer

MarkNames == [read : Readers, done : Readers]
Working == {Resting} \union [pc : {"ask", "less", "write"}, what : Works]

\* The type invariant with the two marks taken apart.
LEMMA MarksTypesUnfold ==
    MarksTypeOK <=> /\ native \in BOOLEAN /\ wasRead \in BOOLEAN /\ wasClosed \in BOOLEAN /\ oldIsNewer \in BOOLEAN
                    /\ swallowed \in BOOLEAN /\ merged \in BOOLEAN
                    /\ said \in MarkNames /\ mark \in MarkNames /\ oldMark \in MarkNames
                    /\ work \in [Who -> Working] /\ works \in 0..MaxWorks /\ markFaults \in 0..MaxMarkFaults
BY DEF MarksTypeOK, MarkNames, Working

LEMMA MarksInvInit == MarksInit => MarksInv
<1> SUFFICES ASSUME MarksInit PROVE MarksInv
    OBVIOUS
<1>1. MarksTypeOK
    <2>1. NoMark \in MarkNames /\ oldMark \in MarkNames
        BY DEF MarksInit, NoMark, MarkNames, Readers
    <2>2. work \in [Who -> Working]
        BY DEF MarksInit, Working
    <2>3. works \in 0..MaxWorks /\ markFaults \in 0..MaxMarkFaults
        BY MarksAssumption DEF MarksInit
    <2> QED
        BY <2>1, <2>2, <2>3, MarksTypesUnfold DEF MarksInit
<1>2. ServerIsConsistent /\ MarksFollowTheServer
    BY DEF MarksInit, ServerIsConsistent, MarksFollowTheServer, NoMark, Resting
<1> QED
    BY <1>1, <1>2 DEF MarksInv

\* What a request does at the server: it adds, and takes no name away.
LEMMA ServerAdds ==
    ASSUME MarksInv, NEW w \in Who, ServerReads(w) \/ Serves(w), UNCHANGED native,
           ServerReads(w) \/ work[w] \in [pc : {"ask"}, what : Works]
    PROVE  /\ wasRead' \in BOOLEAN /\ wasClosed' \in BOOLEAN /\ said' \in MarkNames
           /\ ServerIsConsistent'
           /\ wasRead => wasRead'
           /\ wasClosed => wasClosed'
           /\ \A side \in {"read", "done"} : said[side] # Nobody => said'[side] = said[side]
           /\ said'.read # Nobody => said.read # Nobody \/ ~wasRead
           /\ said'.done # Nobody => said.done # Nobody \/ ~wasClosed
<1>1. /\ wasRead \in BOOLEAN /\ wasClosed \in BOOLEAN /\ said \in MarkNames /\ native \in BOOLEAN
    BY MarksTypesUnfold DEF MarksInv
<1>2. w \in Readers /\ w # Nobody
    BY DEF Readers, Who, Nobody
<1>3. ServerIsConsistent
    BY DEF MarksInv
<1>4. CASE ServerReads(w)
    BY <1>1, <1>2, <1>3, <1>4 DEF ServerReads, First, MarkNames, ServerIsConsistent, NoMark
<1>5. CASE native /\ ServerCloses(w)
    BY <1>1, <1>2, <1>3, <1>5 DEF ServerCloses, MarkNames, ServerIsConsistent, NoMark
<1>6. CASE IF wasClosed THEN UNCHANGED atServer ELSE ServerIsReplied
    BY <1>1, <1>3, <1>6 DEF ServerIsReplied, atServer, ServerIsConsistent, MarkNames
<1> QED
    BY <1>4, <1>5, <1>6, Zenon DEF Serves

\* What a letter is shown to have been: read by whom, closed by whom.
NamesStay == \A side \in {"read", "done"} :
               Shown(side) # Nobody /\ ~swallowed' /\ ~merged' => Shown(side)' = Shown(side)

\* A mark is added to, and not changed.
LEMMA MarkAdds ==
    ASSUME MarksInv, NEW w \in Who, NEW what \in Works
    PROVE  /\ Marked(mark, w, what) \in MarkNames
           /\ \A side \in {"read", "done"} : mark[side] # Nobody => Marked(mark, w, what)[side] = mark[side]
           /\ Marked(mark, w, what).read # Nobody => mark.read # Nobody \/ what \in {"read", "peek", "done"}
           /\ Marked(mark, w, what).done # Nobody => mark.done # Nobody \/ what \in {"done", "reply"}
<1>1. mark \in MarkNames /\ w \in Readers /\ w # Nobody
    BY MarksTypesUnfold DEF MarksInv, Readers, Who, Nobody
<1> QED
    BY <1>1 DEF Marked, First, MarkNames, Works

\* Each request and each mark keeps the invariant, and the names that are shown.
LEMMA MarksStep ==
    ASSUME MarksInv, MarksNext
    PROVE  MarksInv' /\ NamesStay
<1> DEFINE Typed == /\ native \in BOOLEAN /\ wasRead \in BOOLEAN /\ wasClosed \in BOOLEAN /\ oldIsNewer \in BOOLEAN
                    /\ swallowed \in BOOLEAN /\ merged \in BOOLEAN
                    /\ said \in MarkNames /\ mark \in MarkNames /\ oldMark \in MarkNames
                    /\ work \in [Who -> Working] /\ works \in 0..MaxWorks /\ markFaults \in 0..MaxMarkFaults
<1>1. Typed /\ ServerIsConsistent /\ MarksFollowTheServer
    BY MarksTypesUnfold DEF MarksInv
<1>2. (Typed <=> MarksTypeOK)'
    <2>1. Typed <=> MarksTypeOK
        BY MarksTypesUnfold
    <2> HIDE DEF Typed
    <2>2. (Typed <=> MarksTypeOK)'
        BY MarksTypesUnfold, PTL DEF Typed
    <2> QED
        BY <2>2
<1> SUFFICES Typed' /\ ServerIsConsistent' /\ MarksFollowTheServer' /\ NamesStay
    BY <1>2 DEF MarksInv
<1> USE MarksAssumption
<1>3. ASSUME NEW w \in Who, BeginsWork(w)
      PROVE  Typed' /\ ServerIsConsistent' /\ MarksFollowTheServer' /\ NamesStay
    <2>1. /\ UNCHANGED <<native, wasRead, wasClosed, said, mark, oldMark, oldIsNewer, swallowed, merged, markFaults>>
          /\ works < MaxWorks /\ works' = works + 1
        BY <1>3, Zenon DEF BeginsWork, atServer, atHome
    <2>2. PICK what \in Works : work' = [work EXCEPT ![w] = [pc |-> "ask", what |-> what]]
        BY <1>3, Zenon DEF BeginsWork
    <2>3. work' \in [Who -> Working]
        BY <1>1, <2>2 DEF Working
    <2>4. MarksFollowTheServer'
        BY <1>1, <2>1, <2>2 DEF MarksFollowTheServer
    <2> QED
        BY <1>1, <2>1, <2>3, <2>4 DEF ServerIsConsistent, NamesStay, Shown
<1>4. ASSUME NEW w \in Who, Asks(w)
      PROVE  Typed' /\ ServerIsConsistent' /\ MarksFollowTheServer' /\ NamesStay
    <2>1. /\ work[w].pc = "ask" /\ Serves(w) /\ work' = [work EXCEPT ![w] = [@ EXCEPT !.pc = "write"]]
          /\ UNCHANGED <<native, mark, oldMark, oldIsNewer, swallowed, merged, works, markFaults>>
        BY <1>4 DEF Asks, Turns, atHome
    <2>2. work[w] \in [pc : {"ask"}, what : Works]
        BY <1>1, <2>1 DEF Working, Resting
    <2>3. /\ wasRead' \in BOOLEAN /\ wasClosed' \in BOOLEAN /\ said' \in MarkNames /\ ServerIsConsistent'
          /\ (wasRead => wasRead') /\ (wasClosed => wasClosed')
          /\ \A side \in {"read", "done"} : said[side] # Nobody => said'[side] = said[side]
          /\ said'.read # Nobody => said.read # Nobody \/ ~wasRead
          /\ said'.done # Nobody => said.done # Nobody \/ ~wasClosed
        BY <2>1, <2>2, ServerAdds
    <2>4. /\ work'[w].pc = "write" /\ work'[w].what = work[w].what
          /\ \A v \in Who \ {w} : work'[v] = work[v]
          /\ work' \in [Who -> Working]
        BY <1>1, <2>1, <2>2 DEF Working
    <2>5. native => /\ work[w].what \in {"read", "peek", "done"} => wasRead'
                    /\ work[w].what \in {"done", "reply"} => wasClosed'
        BY <1>1, <2>1 DEF Serves, ServerReads, ServerCloses, ServerIsReplied, atServer
    <2>6. MarksFollowTheServer'
        BY <1>1, <2>1, <2>3, <2>4, <2>5 DEF MarksFollowTheServer
    <2>7. NamesStay
        BY <1>1, <2>1, <2>3 DEF NamesStay, Shown, MarksFollowTheServer, ServerIsConsistent, NoMark
    <2> QED
        BY <1>1, <2>1, <2>3, <2>4, <2>6, <2>7
<1>5. ASSUME NEW w \in Who, RequestFails(w)
      PROVE  Typed' /\ ServerIsConsistent' /\ MarksFollowTheServer' /\ NamesStay
    <2>1. /\ work[w].pc = "ask" /\ Turns(w, AfterFailure(work[w].what))
          /\ (swallowed' <=> swallowed \/ (native /\ work[w].what \in {"peek", "done"}))
          /\ swallowed' = (swallowed \/ (native /\ work[w].what \in {"peek", "done"}))
          /\ UNCHANGED <<native, mark, oldMark, oldIsNewer, merged, works>>
        BY <1>5 DEF RequestFails, atHome
    <2>2. work[w] \in [pc : {"ask"}, what : Works]
        BY <1>1, <2>1 DEF Working, Resting
    <2>3. UNCHANGED atServer \/ Serves(w)
        BY <1>5, Zenon DEF RequestFails, atServer
    <2>4. /\ wasRead' \in BOOLEAN /\ wasClosed' \in BOOLEAN /\ said' \in MarkNames /\ ServerIsConsistent'
          /\ (wasRead => wasRead') /\ (wasClosed => wasClosed')
          /\ \A side \in {"read", "done"} : said[side] # Nobody => said'[side] = said[side]
          /\ said'.read # Nobody => said.read # Nobody \/ ~wasRead
          /\ said'.done # Nobody => said.done # Nobody \/ ~wasClosed
        <3>1. CASE UNCHANGED atServer
            BY <1>1, <2>1, <3>1 DEF atServer, ServerIsConsistent
        <3>2. CASE Serves(w)
            BY <2>1, <2>2, <3>2, ServerAdds
        <3> QED
            BY <2>3, <3>1, <3>2
    <2>5. \A v \in Who \ {w} : work'[v] = work[v]
        BY <1>1, <2>1 DEF Turns
    <2>6. /\ work'[w] \in Working /\ work' \in [Who -> Working]
          /\ work[w].what \in {"read", "reply"} => work'[w].pc = "rest"
        <3>1. CASE work[w].what \in {"read", "reply"}
            <4>1. work' = [work EXCEPT ![w] = Resting]
                BY <2>1, <3>1 DEF Turns, AfterFailure
            <4> QED
                BY <1>1, <4>1 DEF Resting, Working
        <3>2. CASE work[w].what \in {"peek", "done"}
            <4>1. PICK pc \in {"write", "less"} : work' = [work EXCEPT ![w] = [work[w] EXCEPT !.pc = pc]]
                BY <2>1, <3>2 DEF Turns, AfterFailure
            <4>2. [work[w] EXCEPT !.pc = pc] \in Working
                BY <2>2 DEF Working
            <4> QED
                BY <1>1, <3>2, <4>1, <4>2
        <3> QED
            BY <2>2, <3>1, <3>2 DEF Works
    <2>7. MarksFollowTheServer'
        BY <1>1, <2>1, <2>2, <2>4, <2>5, <2>6 DEF MarksFollowTheServer, Works
    <2>8. NamesStay
        BY <1>1, <2>1, <2>4 DEF NamesStay, Shown, MarksFollowTheServer, ServerIsConsistent, NoMark
    <2>9. markFaults' \in 0..MaxMarkFaults
        <3>1. markFaults' = markFaults \/ (markFaults < MaxMarkFaults /\ markFaults' = markFaults + 1)
            BY <1>5, Zenon DEF RequestFails, MarkFault
        <3> QED
            BY <1>1, <3>1
    <2>10. swallowed' \in BOOLEAN
        BY <1>1, <2>1
    <2> QED
        BY <1>1, <2>1, <2>4, <2>6, <2>7, <2>8, <2>9, <2>10
<1>6. ASSUME NEW w \in Who, AsksForLess(w)
      PROVE  Typed' /\ ServerIsConsistent' /\ MarksFollowTheServer' /\ NamesStay
    <2>1. /\ work[w].pc = "less" /\ work' = [work EXCEPT ![w] = [@ EXCEPT !.pc = "write"]]
          /\ UNCHANGED <<native, mark, oldMark, oldIsNewer, swallowed, merged, works>>
        BY <1>6 DEF AsksForLess, Turns, atHome
    <2>2. ServerReads(w) \/ UNCHANGED atServer
        BY <1>6, Zenon DEF AsksForLess
    <2>3. /\ wasRead' \in BOOLEAN /\ wasClosed' \in BOOLEAN /\ said' \in MarkNames /\ ServerIsConsistent'
          /\ (wasRead => wasRead') /\ (wasClosed => wasClosed')
          /\ \A side \in {"read", "done"} : said[side] # Nobody => said'[side] = said[side]
          /\ said'.read # Nobody => said.read # Nobody \/ ~wasRead
          /\ said'.done # Nobody => said.done # Nobody \/ ~wasClosed
        <3>1. CASE UNCHANGED atServer
            BY <1>1, <2>1, <3>1 DEF atServer, ServerIsConsistent
        <3>2. CASE ServerReads(w)
            BY <2>1, <3>2, ServerAdds
        <3> QED
            BY <2>2, <3>1, <3>2
    <2>4. work' \in [Who -> Working]
        BY <1>1, <2>1 DEF Working, Resting
    \* On a server that knows `processed', only after a failure that was swallowed.
    <2>5. native => swallowed
        BY <1>1, <2>1 DEF MarksFollowTheServer
    <2>6. MarksFollowTheServer' /\ NamesStay
        BY <1>1, <2>1, <2>3, <2>5 DEF MarksFollowTheServer, NamesStay, Shown, ServerIsConsistent, NoMark
    <2>7. markFaults' \in 0..MaxMarkFaults
        <3>1. markFaults' = markFaults \/ (markFaults < MaxMarkFaults /\ markFaults' = markFaults + 1)
            BY <1>6, Zenon DEF AsksForLess, MarkFault
        <3> QED
            BY <1>1, <3>1
    <2> QED
        BY <1>1, <2>1, <2>3, <2>4, <2>6, <2>7
<1>7. ASSUME NEW w \in Who, WritesMark(w)
      PROVE  Typed' /\ ServerIsConsistent' /\ MarksFollowTheServer' /\ NamesStay
    <2>1. /\ work[w].pc = "write" /\ work' = [work EXCEPT ![w] = Resting]
          /\ UNCHANGED <<native, wasRead, wasClosed, said, oldMark, oldIsNewer, swallowed, merged, works>>
        BY <1>7 DEF WritesMark, Turns, atServer
    <2>2. work[w].what \in Works
        BY <1>1, <2>1 DEF Working, Resting
    <2>3. mark' = Marked(mark, w, work[w].what) \/ mark' = mark
        BY <1>7, Zenon DEF WritesMark
    <2>4. /\ mark' \in MarkNames
          /\ \A side \in {"read", "done"} : mark[side] # Nobody => mark'[side] = mark[side]
          /\ mark'.read # Nobody => mark.read # Nobody \/ work[w].what \in {"read", "peek", "done"}
          /\ mark'.done # Nobody => mark.done # Nobody \/ work[w].what \in {"done", "reply"}
        BY <1>1, <2>2, <2>3, MarkAdds
    <2>5. work' \in [Who -> Working] /\ work'[w].pc = "rest" /\ \A v \in Who \ {w} : work'[v] = work[v]
        BY <1>1, <2>1 DEF Working, Resting
    <2>6. MarksFollowTheServer'
        BY <1>1, <2>1, <2>4, <2>5 DEF MarksFollowTheServer
    <2>7. ServerIsConsistent' /\ NamesStay
        BY <1>1, <2>1, <2>4 DEF ServerIsConsistent, NamesStay, Shown
    <2>8. markFaults' \in 0..MaxMarkFaults
        <3>1. markFaults' = markFaults \/ (markFaults < MaxMarkFaults /\ markFaults' = markFaults + 1)
            BY <1>7, Zenon DEF WritesMark, MarkFault
        <3> QED
            BY <1>1, <3>1
    <2> QED
        BY <1>1, <2>1, <2>4, <2>5, <2>6, <2>7, <2>8
<1>8. CASE MergesOld
    <2>1. /\ oldMark' = NoMark /\ merged' = TRUE
          /\ mark' = [read |-> Newer(mark.read, oldMark.read), done |-> Newer(mark.done, oldMark.done)]
          /\ UNCHANGED <<native, wasRead, wasClosed, said, oldIsNewer, work, swallowed, works, markFaults>>
        BY <1>8 DEF MergesOld, atServer
    <2>2. mark' \in MarkNames /\ NoMark \in MarkNames
        BY <1>1, <2>1 DEF Newer, MarkNames, NoMark, Readers
    <2>3. ServerIsConsistent' /\ MarksFollowTheServer' /\ NamesStay
        BY <1>1, <2>1 DEF ServerIsConsistent, MarksFollowTheServer, NamesStay
    <2> QED
        BY <1>1, <2>1, <2>2, <2>3
<1> QED
    BY <1>3, <1>4, <1>5, <1>6, <1>7, <1>8 DEF MarksNext

LEMMA MarksInvHolds == MarksSpec => []MarksInv
<1>1. MarksInv /\ UNCHANGED marksVars => MarksInv'
    BY DEF marksVars, MarksInv, MarksTypeOK, ServerIsConsistent, MarksFollowTheServer
<1>2. MarksInv /\ [MarksNext]_marksVars => MarksInv'
    BY <1>1, MarksStep
<1> QED
    BY <1>2, MarksInvInit, PTL DEF MarksSpec

\* The server's word, the local marks and the requests under way have their types.
THEOREM MarksTypes == MarksSpec => []MarksTypeOK
<1>1. MarksInv => MarksTypeOK
    BY DEF MarksInv
<1> QED
    BY <1>1, MarksInvHolds, PTL

\* What is shown of a letter is what was done with it, and by whom first: mark and server do not
\* drift apart but where a request failed and was taken for done, or an old record's marks came in.
THEOREM MarksAreTrue == MarksSpec => MarksAreExplained
<1>1. MarksInv => ClosedIsClosed
    BY DEF MarksInv, MarksFollowTheServer, ClosedIsClosed, ShownClosed
<1>2. MarksInv /\ [MarksNext]_marksVars
        => [\A side \in {"read", "done"} :
              Shown(side) # Nobody /\ ~swallowed' /\ ~merged' => Shown(side)' = Shown(side)]_marksVars
    BY MarksStep DEF NamesStay
<1> QED
    BY <1>1, <1>2, MarksInvHolds, PTL DEF MarksSpec, MarksAreExplained, AttributionStays

-----------------------------------------------------------------------------
(* The browser's lists.                                                    *)

\* While no two marks were under way at once there is at most one, and the list it found showed
\* no letter read but those the server holds as read.
MarksAreApart ==
  /\ IsFiniteSet(marks)
  /\ ~overlapped => /\ \A m, n \in marks : m = n
                    /\ \A m \in marks : m.before.read \subseteq serverRead

\* The inbox is asked only of workspaces with one, when it is looked at; so is every list shown.
InboxViews == {<<>>} \union (known \X Folders)
InboxIsKnown ==
  /\ \A a \in asks : /\ a.kind = "inbox" => a.view \in known \X Folders
                     /\ a.kind # "overview" => a.kind \in lists
  /\ shown["inbox"].view \in InboxViews
  /\ \A m \in marks : m.before.view \in InboxViews

\* A request for the inbox that still counts is of the view the user is looking at; but nothing
\* takes a number when the selection moves to a workspace without an inbox.
CurrentAsksAreOfTheView ==
  currentKey \in known => \A a \in asks : a.current /\ a.kind = "inbox" => a.view = <<currentKey, folder>>

PanelInv == PanelTypeOK /\ ShownReadIsRead /\ MarksAreApart /\ InboxIsKnown /\ CurrentAsksAreOfTheView

Ask == [kind : Kinds, view : PanelViews, current : BOOLEAN]

LEMMA ViewFacts ==
  /\ \A w, f, g : ViewFor("inbox", w, f, g) = <<w, f>>
  /\ \A w, f, g : ViewFor("archive", w, f, g) = <<w, g>>
  /\ \A k \in Lists \ {"inbox", "archive"} : \A w, f, g : ViewFor(k, w, f, g) = <<w>>
  /\ ViewOf("inbox") = <<currentKey, folder>>
BY DEF ViewFor, ViewOf, Lists

LEMMA KindFacts ==
  /\ Lists \subseteq Kinds /\ "overview" \in Kinds /\ "inbox" \in Lists /\ "archive" \in Lists
  /\ "overview" \notin Lists
  /\ \A k : CounterOf(k) = CounterOf("inbox") => k = "inbox"
BY DEF Lists, Kinds, CounterOf

\* Numbers taken anew only make requests late.
LEMMA RenumberFacts ==
  ASSUME asks \subseteq Ask, NEW kinds, NEW a \in Renumber(kinds)
  PROVE  \E b \in asks : /\ a.kind = b.kind /\ a.view = b.view /\ (a.current => b.current)
                         /\ a \in Ask
                         /\ ("inbox" \in kinds /\ b.kind = "inbox" => ~a.current)
<1>1. PICK b \in asks : a = IF \E k \in kinds : CounterOf(k) = CounterOf(b.kind)
                            THEN [b EXCEPT !.current = FALSE] ELSE b
    BY DEF Renumber
<1>2. b \in Ask
    OBVIOUS
<1>3. CASE \E k \in kinds : CounterOf(k) = CounterOf(b.kind)
    <2>1. a = [kind |-> b.kind, view |-> b.view, current |-> FALSE]
        BY <1>1, <1>2, <1>3 DEF Ask
    <2>2. a.kind = b.kind /\ a.view = b.view /\ ~a.current /\ a \in Ask
        BY <1>2, <2>1 DEF Ask
    <2> QED
        BY <2>2
<1>4. CASE ~\E k \in kinds : CounterOf(k) = CounterOf(b.kind)
    BY <1>1, <1>2, <1>4
<1> QED
    BY <1>3, <1>4

\* What is asked of a workspace has the shape of a request.
LEMMA AskShape ==
  ASSUME NEW k \in Lists, NEW w \in Workspaces, NEW f \in Folders, NEW g \in Groups \union {None}, Askable(k, g)
  PROVE  [kind |-> k, view |-> ViewFor(k, w, f, g), current |-> TRUE] \in Ask
<1>1. ViewFor(k, w, f, g) \in PanelViews
    <2>1. CASE k = "inbox"
        BY <2>1, ViewFacts DEF PanelViews
    <2>2. CASE k = "archive"
        BY <2>2, ViewFacts DEF PanelViews, Askable
    <2>3. CASE k \notin {"inbox", "archive"}
        <3>1. ViewFor(k, w, f, g) = <<w>>
            BY <2>3, ViewFacts
        <3> QED
            BY <3>1 DEF PanelViews
    <2> QED
        BY <2>1, <2>2, <2>3
<1> QED
    BY <1>1, KindFacts DEF Ask

\* The refreshes of some lists, of the view that is next.
LEMMA RefreshFacts ==
  ASSUME PanelInv, NEW kinds \in SUBSET Lists, NEW w \in Workspaces \union {None}, NEW f \in Folders,
         NEW g \in Groups \union {None}, Refresh(kinds, w, f, g, known),
         ("inbox" \in kinds) \/ (w = currentKey /\ f = folder)
  PROVE  /\ asks' \subseteq Ask /\ busy' \in [Kinds -> BOOLEAN]
         /\ \A a \in asks' : /\ a.kind = "overview" => a.view \in {<<d>> : d \in Cwds \union {None}}
                             /\ a.kind = "inbox" => a.view \in known \X Folders
                             /\ a.kind # "overview" => a.kind \in lists
         /\ w \in known => \A a \in asks' : a.current /\ a.kind = "inbox" => a.view = <<w, f>>
<1> DEFINE asked == IF w \notin known THEN {} ELSE {k \in kinds \intersect lists : Askable(k, g)}
           new == {[kind |-> k, view |-> ViewFor(k, w, f, g), current |-> TRUE] : k \in asked}
<1>1. asks' = Renumber(asked) \union new /\ busy' = [k \in Kinds |-> busy[k] \/ k \in asked \ {"groups"}]
    BY DEF Refresh
<1>2. PanelTypeOK /\ asks \subseteq Ask /\ known \subseteq Workspaces
    BY DEF PanelInv, PanelTypeOK, Ask
<1>3. ASSUME NEW a \in new
      PROVE  /\ a \in Ask /\ a.kind \in Lists /\ a.kind \in lists /\ a.current /\ w \in known
             /\ a.kind = "inbox" => a.view = <<w, f>> /\ a.view \in known \X Folders
    <2>1. PICK k \in asked : a = [kind |-> k, view |-> ViewFor(k, w, f, g), current |-> TRUE]
        OBVIOUS
    <2>2. w \in known /\ k \in Lists /\ k \in lists /\ Askable(k, g)
        BY <2>1
    <2>3. a \in Ask
        BY <1>2, <2>1, <2>2, AskShape
    <2>4. k = "inbox" => ViewFor(k, w, f, g) = <<w, f>>
        BY ViewFacts
    <2> QED
        BY <2>1, <2>2, <2>3, <2>4
<1>4. ASSUME NEW a \in Renumber(asked)
      PROVE  /\ a \in Ask
             /\ a.kind = "overview" => a.view \in {<<d>> : d \in Cwds \union {None}}
             /\ a.kind = "inbox" => a.view \in known \X Folders
             /\ a.kind # "overview" => a.kind \in lists
             /\ w \in known /\ a.current /\ a.kind = "inbox" => a.view = <<w, f>>
    <2>1. PICK b \in asks : /\ a.kind = b.kind /\ a.view = b.view /\ (a.current => b.current)
                            /\ a \in Ask
                            /\ ("inbox" \in asked /\ b.kind = "inbox" => ~a.current)
        BY <1>2, RenumberFacts
    <2>2. /\ b.kind = "overview" => b.view \in {<<d>> : d \in Cwds \union {None}}
          /\ b.kind = "inbox" => b.view \in known \X Folders
          /\ b.kind # "overview" => b.kind \in lists
        BY DEF PanelInv, PanelTypeOK, InboxIsKnown
    <2>3. ASSUME w \in known, a.current, a.kind = "inbox" PROVE a.view = <<w, f>>
        <3>1. "inbox" \in lists /\ "inbox" \notin asked
            BY <2>1, <2>2, <2>3
        <3>2. "inbox" \notin kinds
            BY <2>3, <3>1 DEF Askable
        <3> QED
            BY <2>1, <2>3, <3>2 DEF PanelInv, CurrentAsksAreOfTheView
    <2> QED
        BY <2>1, <2>2, <2>3
<1>5. busy' \in [Kinds -> BOOLEAN]
    BY <1>1
<1> HIDE DEF new, asked
<1>6. \A a \in asks' : a \in new \/ a \in Renumber(asked)
    BY <1>1
<1> QED
    BY <1>3, <1>4, <1>5, <1>6, KindFacts

\* refreshOverview asks for no list.
LEMMA OverviewFacts ==
  ASSUME PanelInv, NEW d \in Cwds \union {None}, RefreshOverview(d)
  PROVE  /\ asks' \subseteq Ask /\ busy' \in [Kinds -> BOOLEAN]
         /\ \A a \in asks' : /\ a.kind = "overview" => a.view \in {<<x>> : x \in Cwds \union {None}}
                             /\ a.kind = "inbox" => a.view \in known \X Folders
                             /\ a.kind # "overview" => a.kind \in lists
         /\ currentKey \in known => \A a \in asks' : a.current /\ a.kind = "inbox" => a.view = <<currentKey, folder>>
<1> DEFINE new == [kind |-> "overview", view |-> <<d>>, current |-> TRUE]
<1>1. PanelTypeOK /\ asks \subseteq Ask /\ busy \in [Kinds -> BOOLEAN]
    BY DEF PanelInv, PanelTypeOK, Ask
<1>2. ASSUME NEW b \in asks
      PROVE  /\ b.kind = "overview" => b.view \in {<<x>> : x \in Cwds \union {None}}
             /\ b.kind = "inbox" => b.view \in known \X Folders
             /\ b.kind # "overview" => b.kind \in lists
             /\ currentKey \in known /\ b.current /\ b.kind = "inbox" => b.view = <<currentKey, folder>>
    BY DEF PanelInv, PanelTypeOK, InboxIsKnown, CurrentAsksAreOfTheView
<1>3. CASE new \in asks
    <2>1. asks' = asks /\ busy' = busy
        BY <1>3 DEF RefreshOverview
    <2> QED
        BY <1>1, <1>2, <2>1
<1>4. CASE new \notin asks
    <2>1. asks' = Renumber({"overview"}) \union {new} /\ busy' = [busy EXCEPT !["overview"] = TRUE]
        BY <1>4 DEF RefreshOverview
    <2>2. new \in Ask /\ new.kind = "overview" /\ new.view \in {<<x>> : x \in Cwds \union {None}}
        BY KindFacts DEF Ask, PanelViews
    <2> HIDE DEF new
    <2>3. ASSUME NEW a \in Renumber({"overview"})
          PROVE  /\ a \in Ask
                 /\ a.kind = "overview" => a.view \in {<<x>> : x \in Cwds \union {None}}
                 /\ a.kind = "inbox" => a.view \in known \X Folders
                 /\ a.kind # "overview" => a.kind \in lists
                 /\ currentKey \in known /\ a.current /\ a.kind = "inbox" => a.view = <<currentKey, folder>>
        <3>1. PICK b \in asks : a.kind = b.kind /\ a.view = b.view /\ (a.current => b.current) /\ a \in Ask
            BY <1>1, RenumberFacts
        <3> QED
            BY <1>2, <3>1
    <2>4. busy' \in [Kinds -> BOOLEAN]
        BY <1>1, <2>1
    <2> QED
        BY <2>1, <2>2, <2>3, <2>4
<1> QED
    BY <1>3, <1>4

LEMMA PanelInvInit == PanelInit => PanelInv
<1> SUFFICES ASSUME PanelInit PROVE PanelInv
    OBVIOUS
<1> USE DEF PanelInit
<1>1. Empty \in Listing /\ Empty.view = <<>> /\ Empty.read = {}
    BY DEF Empty, Listing, PanelViews
<1>2. shown \in [Lists -> Listing] /\ shown["inbox"] = Empty
    BY <1>1, KindFacts
<1>3. PanelTypeOK
    BY <1>2 DEF PanelTypeOK
<1>4. ShownReadIsRead /\ InboxIsKnown /\ CurrentAsksAreOfTheView
    BY <1>1, <1>2 DEF ShownReadIsRead, InboxIsKnown, InboxViews, CurrentAsksAreOfTheView
<1>5. MarksAreApart
    BY FS_EmptySet DEF MarksAreApart
<1> QED
    BY <1>3, <1>4, <1>5 DEF PanelInv

\* A step that only asks, and shows the inbox as it is or not at all.
LEMMA AskingStep ==
  ASSUME PanelInv, UNCHANGED <<lists, provisioned, known, serverRead, marks, overlapped>>,
         shown' \in [Lists -> Listing], shown'["inbox"] \in {shown["inbox"], Empty},
         cwd' \in Cwds \union {None}, lastAutoKey' \in Workspaces \union {None},
         currentKey' \in Workspaces \union {None}, folder' \in Folders, selectedGroup' \in Groups \union {None},
         asks' \subseteq Ask, busy' \in [Kinds -> BOOLEAN],
         \A a \in asks' : /\ a.kind = "overview" => a.view \in {<<d>> : d \in Cwds \union {None}}
                          /\ a.kind = "inbox" => a.view \in known \X Folders
                          /\ a.kind # "overview" => a.kind \in lists,
         currentKey' \in known =>
           \A a \in asks' : a.current /\ a.kind = "inbox" => a.view = <<currentKey', folder'>>
  PROVE  PanelInv'
<1>1. PanelTypeOK'
    BY DEF PanelInv, PanelTypeOK, Ask
<1>2. Empty.view = <<>> /\ Empty.read = {}
    BY DEF Empty
<1>3. ShownReadIsRead'
    BY <1>2 DEF PanelInv, ShownReadIsRead
<1>4. MarksAreApart'
    BY DEF PanelInv, MarksAreApart
<1>5. InboxIsKnown'
    BY <1>2 DEF PanelInv, InboxIsKnown, InboxViews
<1>6. CurrentAsksAreOfTheView'
    BY DEF CurrentAsksAreOfTheView
<1> QED
    BY <1>1, <1>3, <1>4, <1>5, <1>6 DEF PanelInv

\* What the user does, but for marking letters.
LEMMA UserStep ==
  ASSUME PanelInv,
         \/ Mount \/ LoadMore
         \/ \E d \in Cwds \union {None} : SetCwd(d)
         \/ \E w \in Workspaces : SelectWorkspace(w)
         \/ \E f \in Folders : SetFolder(f)
         \/ \E kind \in Lists : SetTab(kind)
         \/ \E g \in Groups \union {None} : SelectGroup(g)
  PROVE  PanelInv'
<1>1. /\ cwd \in Cwds \union {None} /\ lastAutoKey \in Workspaces \union {None}
      /\ currentKey \in Workspaces \union {None} /\ folder \in Folders /\ selectedGroup \in Groups \union {None}
      /\ shown \in [Lists -> Listing] /\ asks \subseteq Ask /\ busy \in [Kinds -> BOOLEAN]
    BY DEF PanelInv, PanelTypeOK, Ask
<1>2. /\ \A a \in asks : /\ a.kind = "overview" => a.view \in {<<d>> : d \in Cwds \union {None}}
                         /\ a.kind = "inbox" => a.view \in known \X Folders
                         /\ a.kind # "overview" => a.kind \in lists
      /\ currentKey \in known => \A a \in asks : a.current /\ a.kind = "inbox" => a.view = <<currentKey, folder>>
    BY DEF PanelInv, PanelTypeOK, InboxIsKnown, CurrentAsksAreOfTheView
<1>3. Empty \in Listing
    BY DEF Empty, Listing, PanelViews
<1>4. CASE Mount
    <2>1. RefreshOverview(cwd)
          /\ UNCHANGED <<lists, provisioned, known, cwd, lastAutoKey, currentKey, folder, selectedGroup, shown,
                         serverRead, marks, overlapped>>
        BY <1>4 DEF Mount
    <2> QED
        BY <1>1, <2>1, OverviewFacts, AskingStep
<1>5. ASSUME NEW d \in Cwds \union {None}, SetCwd(d) PROVE PanelInv'
    <2>1. cwd' = d /\ lastAutoKey' = None
          /\ UNCHANGED <<lists, provisioned, known, currentKey, folder, selectedGroup, shown, serverRead, marks,
                         overlapped>>
          /\ IF d # None THEN RefreshOverview(d) ELSE UNCHANGED <<asks, busy>>
        BY <1>5 DEF SetCwd
    <2>2. CASE d # None
        BY <1>1, <2>1, <2>2, OverviewFacts, AskingStep
    <2>3. CASE d = None
        BY <1>1, <1>2, <2>1, <2>3, AskingStep
    <2> QED
        BY <2>2, <2>3
<1>6. ASSUME NEW kinds \in SUBSET Lists, NEW w \in Workspaces \union {None}, NEW f \in Folders,
             NEW g \in Groups \union {None}, Refresh(kinds, w, f, g, known),
             ("inbox" \in kinds) \/ (w = currentKey /\ f = folder),
             currentKey' = w, folder' = f, selectedGroup' = g,
             shown' \in [Lists -> Listing], shown'["inbox"] \in {shown["inbox"], Empty},
             UNCHANGED <<lists, provisioned, known, cwd, lastAutoKey, serverRead, marks, overlapped>>
      PROVE  PanelInv'
    <2>1. /\ asks' \subseteq Ask /\ busy' \in [Kinds -> BOOLEAN]
          /\ \A a \in asks' : /\ a.kind = "overview" => a.view \in {<<d>> : d \in Cwds \union {None}}
                              /\ a.kind = "inbox" => a.view \in known \X Folders
                              /\ a.kind # "overview" => a.kind \in lists
          /\ w \in known => \A a \in asks' : a.current /\ a.kind = "inbox" => a.view = <<w, f>>
        BY <1>6, RefreshFacts
    <2> QED
        BY <1>1, <1>6, <2>1, AskingStep
<1>7. CASE LoadMore
    <2>1. Refresh({"archive"}, currentKey, folder, selectedGroup, known)
          /\ UNCHANGED <<lists, provisioned, known, cwd, lastAutoKey, currentKey, folder, selectedGroup, shown,
                         serverRead, marks, overlapped>>
        BY <1>7 DEF LoadMore
    <2> QED
        BY <1>1, <1>6, <2>1, KindFacts
<1>8. ASSUME NEW w \in Workspaces, SelectWorkspace(w) PROVE PanelInv'
    <2>1. /\ currentKey' = w /\ selectedGroup' = None
          /\ shown' = [shown EXCEPT !["inbox"] = Empty, !["outbox"] = Empty]
          /\ Refresh({"inbox", "outbox", "groups"}, w, folder, None, known)
          /\ UNCHANGED <<lists, provisioned, known, cwd, lastAutoKey, folder, serverRead, marks, overlapped>>
        BY <1>8 DEF SelectWorkspace
    <2>2. shown' \in [Lists -> Listing] /\ shown'["inbox"] = Empty
        BY <1>1, <1>3, <2>1, KindFacts
    <2>3. {"inbox", "outbox", "groups"} \in SUBSET Lists
        BY DEF Lists
    <2> QED
        BY <1>1, <1>6, <2>1, <2>2, <2>3
<1>9. ASSUME NEW f \in Folders, SetFolder(f) PROVE PanelInv'
    <2>1. folder' = f /\ Refresh({"inbox"}, currentKey, f, selectedGroup, known)
          /\ UNCHANGED <<lists, provisioned, known, cwd, lastAutoKey, currentKey, selectedGroup, shown,
                         serverRead, marks, overlapped>>
        BY <1>9 DEF SetFolder
    <2> QED
        BY <1>1, <1>6, <2>1, KindFacts
<1>10. ASSUME NEW kind \in Lists, SetTab(kind) PROVE PanelInv'
    <2>1. Refresh({kind}, currentKey, folder, selectedGroup, known)
          /\ UNCHANGED <<lists, provisioned, known, cwd, lastAutoKey, currentKey, folder, selectedGroup, shown,
                         serverRead, marks, overlapped>>
        BY <1>10 DEF SetTab
    <2> QED
        BY <1>1, <1>6, <2>1
<1>11. ASSUME NEW g \in Groups \union {None}, SelectGroup(g) PROVE PanelInv'
    <2>1. selectedGroup' = g /\ shown' = [shown EXCEPT !["archive"] = Empty]
          /\ Refresh({"archive"}, currentKey, folder, g, known)
          /\ UNCHANGED <<lists, provisioned, known, cwd, lastAutoKey, currentKey, folder, serverRead, marks,
                         overlapped>>
        BY <1>11 DEF SelectGroup
    <2>2. shown' \in [Lists -> Listing] /\ shown'["inbox"] = shown["inbox"]
        BY <1>1, <1>3, <2>1, KindFacts
    <2> QED
        BY <1>1, <1>6, <2>1, <2>2, KindFacts
<1> QED
    BY <1>4, <1>5, <1>7, <1>8, <1>9, <1>10, <1>11

LEMMA ShowingFacts ==
  ASSUME NEW list \in Listing, NEW letters \in SUBSET PanelLetters
  PROVE  /\ Showing(list, letters) \in Listing /\ Showing(list, letters).view = list.view
         /\ Showing(list, letters).read = list.read \union letters
BY DEF Showing, Listing

\* Letters are marked as read.
LEMMA OpenThreadStep == ASSUME PanelInv, NEW thread \in SUBSET PanelLetters, OpenThread(thread) PROVE PanelInv'
<1> DEFINE made(l) == [letter |-> l, ws |-> currentKey, folder |-> folder,
                       before |-> Showing(shown["inbox"], {m \in thread : m < l})]
<1>1. /\ thread # {} /\ thread \subseteq LettersOf(shown["inbox"].view[1]) \ shown["inbox"].read
      /\ marks' = marks \union {made(l) : l \in thread}
      /\ shown' = [shown EXCEPT !["inbox"] = Showing(shown["inbox"], thread)]
      /\ overlapped' = (overlapped \/ Cardinality(marks') > 1)
      /\ UNCHANGED <<lists, provisioned, known, cwd, lastAutoKey, currentKey, folder, selectedGroup, asks,
                     busy, serverRead>>
    BY DEF OpenThread
<1>2. PanelTypeOK
    BY DEF PanelInv
<1>3. shown \in [Lists -> Listing] /\ shown["inbox"] \in Listing
    BY <1>2, KindFacts DEF PanelTypeOK
<1>4. ASSUME NEW l \in thread
      PROVE  /\ made(l).letter = l /\ made(l).before.view = shown["inbox"].view
             /\ made(l).before.read = shown["inbox"].read \union {m \in thread : m < l}
             /\ made(l) \in [letter : PanelLetters, ws : Workspaces \union {None}, folder : Folders,
                             before : Listing]
    <2>1. /\ Showing(shown["inbox"], {m \in thread : m < l}) \in Listing
          /\ Showing(shown["inbox"], {m \in thread : m < l}).view = shown["inbox"].view
          /\ Showing(shown["inbox"], {m \in thread : m < l}).read = shown["inbox"].read \union {m \in thread : m < l}
        BY <1>3, ShowingFacts
    <2> QED
        BY <1>2, <2>1 DEF PanelTypeOK
<1> HIDE DEF made
<1>5. /\ shown' \in [Lists -> Listing] /\ shown'["inbox"].view = shown["inbox"].view
      /\ shown'["inbox"].read = shown["inbox"].read \union thread
    BY <1>1, <1>3, ShowingFacts, KindFacts
<1>6. PanelTypeOK'
    BY <1>1, <1>2, <1>4, <1>5 DEF PanelTypeOK
<1>7. IsFiniteSet(marks')
    <2>1. IsFiniteSet(thread)
        BY FS_Subset, PanelAssumption
    <2> DEFINE new == {made(l) : l \in thread}
               f == [l \in thread |-> made(l)]
    <2>2. f \in Surjection(thread, new)
        BY DEF Surjection
    <2>3. IsFiniteSet(new)
        <3> HIDE DEF f, new
        <3> QED
            BY <2>1, <2>2, FS_Surjection
    <2> QED
        BY <1>1, <2>3, FS_Union DEF PanelInv, MarksAreApart
<1>8. ASSUME ~overlapped', NEW m \in marks', NEW n \in marks' PROVE m = n
    <2> SUFFICES ASSUME m # n PROVE FALSE
        OBVIOUS
    <2>1. Cardinality({m, n}) = 2 /\ IsFiniteSet({m, n})
        <3>1. IsFiniteSet({m}) /\ Cardinality({m}) = 1
            BY FS_Singleton
        <3>2. IsFiniteSet({m} \union {n}) /\ Cardinality({m} \union {n}) = 1 + 1
            BY <3>1, FS_AddElement
        <3>3. {m, n} = {m} \union {n}
            OBVIOUS
        <3> QED
            BY <3>2, <3>3
    <2>3. ~(Cardinality(marks') > 1)
        BY <1>1, <1>8
    <2>4. {m, n} \subseteq marks'
        OBVIOUS
    <2> QED
        BY <1>7, <2>1, <2>3, <2>4, FS_Subset, FS_CardinalityType
<1>9. ShownReadIsRead'
    <2> SUFFICES ASSUME ~overlapped', NEW x \in shown'["inbox"].read
                 PROVE  x \in serverRead \/ \E m \in marks' : m.letter = x
        BY <1>1 DEF ShownReadIsRead
    <2>1. CASE x \in thread
        BY <1>1, <1>4, <2>1
    <2>2. CASE x \notin thread
        BY <1>1, <1>5, <2>2 DEF PanelInv, ShownReadIsRead
    <2> QED
        BY <2>1, <2>2
<1>10. MarksAreApart'
    <2> SUFFICES ASSUME ~overlapped', NEW m \in marks' PROVE m.before.read \subseteq serverRead
        BY <1>1, <1>7, <1>8 DEF MarksAreApart
    <2>1. PICK l \in thread : TRUE
        BY <1>1
    <2>2. m = made(l) /\ made(l) \in marks'
        BY <1>1, <1>8
    <2>3. \A k \in thread : k = l
        <3> SUFFICES ASSUME NEW k \in thread PROVE k = l
            OBVIOUS
        <3>1. made(k) \in marks'
            BY <1>1
        <3> QED
            BY <1>4, <1>8, <2>2, <3>1
    <2>4. l \in Nat
        BY PanelAssumption
    <2>5. m.before.read = shown["inbox"].read
        <3>1. {x \in thread : x < l} = {}
            <4>1. ~(l < l)
                BY <2>4
            <4> QED
                BY <2>3, <4>1
        <3>2. made(l).before.read = shown["inbox"].read \union {x \in thread : x < l}
            BY <1>4
        <3> QED
            BY <2>2, <3>1, <3>2
    <2> SUFFICES ASSUME NEW x \in shown["inbox"].read, x \notin serverRead PROVE FALSE
        BY <2>5
    <2>6. PICK n \in marks : n.letter = x
        BY <1>1 DEF PanelInv, ShownReadIsRead
    <2>7. n = made(l)
        BY <1>1, <1>8, <2>2
    <2> QED
        BY <1>1, <1>4, <2>6, <2>7
<1>11. InboxIsKnown' /\ CurrentAsksAreOfTheView'
    BY <1>1, <1>4, <1>5 DEF PanelInv, InboxIsKnown, InboxViews, CurrentAsksAreOfTheView
<1> QED
    BY <1>6, <1>9, <1>10, <1>11 DEF PanelInv

\* Answers to what was asked of lists, and those that come too late.
LEMMA AnswerStep ==
  ASSUME PanelInv, NEW a \in asks, IgnoresLate(a) \/ ListLands(a) \/ AskFails(a) PROVE PanelInv'
<1>1. PanelTypeOK /\ a \in Ask /\ shown \in [Lists -> Listing]
    BY DEF PanelInv, PanelTypeOK, Ask
<1>2. asks' = asks \ {a}
      /\ UNCHANGED <<lists, provisioned, known, cwd, lastAutoKey, currentKey, folder, selectedGroup,
                     serverRead, marks>>
      /\ busy' \in [Kinds -> BOOLEAN]
    BY <1>1 DEF IgnoresLate, ListLands, AskFails, PanelTypeOK
<1>3. CurrentAsksAreOfTheView'
    BY <1>2 DEF PanelInv, CurrentAsksAreOfTheView
<1>4. CASE IgnoresLate(a) \/ AskFails(a)
    <2>1. UNCHANGED <<shown, overlapped>>
        BY <1>4 DEF IgnoresLate, AskFails
    <2>2. PanelTypeOK'
        BY <1>1, <1>2, <2>1 DEF PanelTypeOK
    <2> QED
        BY <1>2, <1>3, <2>1, <2>2 DEF PanelInv, ShownReadIsRead, MarksAreApart, InboxIsKnown, InboxViews
<1>5. CASE ListLands(a)
    <2> DEFINE list == [view |-> a.view, read |-> IF a.kind = "inbox" THEN serverRead \intersect LettersOf(a.view[1])
                                                  ELSE {}]
    <2>1. /\ a.current /\ a.kind # "overview"
          /\ shown' = [shown EXCEPT ![a.kind] = list]
          /\ overlapped' = (overlapped /\ ~(a.kind = "inbox" /\ marks = {}))
        BY <1>5 DEF ListLands
    <2>2. a.kind \in Lists /\ a.view \in PanelViews
        BY <1>1, <2>1 DEF Ask, Kinds
    <2>3. list \in Listing /\ list.view = a.view /\ list.read \subseteq serverRead
        <3>1. (IF a.kind = "inbox" THEN serverRead \intersect LettersOf(a.view[1]) ELSE {}) \subseteq serverRead
            OBVIOUS
        <3>2. serverRead \subseteq PanelLetters
            BY <1>1 DEF PanelTypeOK
        <3> QED
            BY <2>2, <3>1, <3>2 DEF Listing
    <2> HIDE DEF list
    <2>4. /\ shown' \in [Lists -> Listing]
          /\ shown'["inbox"] = IF a.kind = "inbox" THEN list ELSE shown["inbox"]
        BY <1>1, <2>1, <2>2, <2>3, KindFacts
    <2>5. PanelTypeOK'
        <3>1. overlapped' \in BOOLEAN
            BY <2>1
        <3> QED
            BY <1>1, <1>2, <2>4, <3>1 DEF PanelTypeOK
    <2>6. ShownReadIsRead'
        <3>1. CASE a.kind = "inbox"
            BY <1>2, <2>3, <2>4, <3>1 DEF ShownReadIsRead
        <3>2. CASE a.kind # "inbox"
            BY <1>2, <2>1, <2>4, <3>2 DEF PanelInv, ShownReadIsRead
        <3> QED
            BY <3>1, <3>2
    <2>7. MarksAreApart'
        BY <1>2, <2>1 DEF PanelInv, MarksAreApart
    <2>8. InboxIsKnown'
        BY <1>2, <2>3, <2>4 DEF PanelInv, InboxIsKnown, InboxViews
    <2> QED
        BY <1>3, <2>5, <2>6, <2>7, <2>8 DEF PanelInv
<1> QED
    BY <1>4, <1>5

\* An overview may move the selection, and asks for what it moves to.
LEMMA OverviewStep == ASSUME PanelInv, NEW a \in asks, OverviewLands(a) PROVE PanelInv'
<1> DEFINE auto == WorkspaceOf[a.view[1]]
           asked == IF currentKey' \in provisioned THEN {"inbox", "outbox"} \intersect lists ELSE {}
           new == {[kind |-> k, view |-> ViewFor(k, currentKey', folder, selectedGroup), current |-> TRUE] : k \in asked}
<1>1. /\ a.current /\ a.kind = "overview" /\ known' = provisioned /\ lastAutoKey' = auto
      /\ currentKey' \in ReconciledKeys(auto)
      /\ asks' = (Renumber(asked) \ {a}) \union new
      /\ busy' = [k \in Kinds |-> k # "overview" /\ (busy[k] \/ k \in asked)]
      /\ UNCHANGED <<lists, provisioned, cwd, folder, selectedGroup, shown, serverRead, marks, overlapped>>
    BY Zenon DEF OverviewLands
<1>2. PanelTypeOK /\ asks \subseteq Ask
    BY DEF PanelInv, PanelTypeOK, Ask
<1>3. auto \in Workspaces \union {None}
    <2>1. PICK d \in Cwds \union {None} : a.view = <<d>>
        BY <1>1, <1>2 DEF PanelTypeOK
    <2>2. a.view[1] = d
        BY <2>1
    <2> QED
        BY <2>2, PanelAssumption
<1>4. currentKey' \in Workspaces \union {None} /\ lastAutoKey' \in Workspaces \union {None}
    BY <1>1, <1>2, <1>3 DEF ReconciledKeys, PanelTypeOK
<1>5. known \subseteq known' /\ known' \subseteq Workspaces
    BY <1>1, <1>2 DEF PanelTypeOK
<1> HIDE DEF auto
<1>6. ASSUME NEW b \in new
      PROVE  /\ b \in Ask /\ b.kind \in Lists /\ b.kind \in lists
             /\ b.kind = "inbox" => b.view = <<currentKey', folder>> /\ b.view \in known' \X Folders
    <2>1. PICK k \in asked : b = [kind |-> k, view |-> ViewFor(k, currentKey', folder, selectedGroup), current |-> TRUE]
        OBVIOUS
    <2>2. currentKey' \in provisioned /\ k \in {"inbox", "outbox"} /\ k \in lists
        BY <2>1
    <2>3. k \in Lists /\ Askable(k, selectedGroup) /\ currentKey' \in Workspaces /\ folder \in Folders
          /\ selectedGroup \in Groups \union {None}
        BY <1>2, <2>2 DEF Lists, Askable, PanelTypeOK
    <2>4. b \in Ask
        BY <2>1, <2>3, AskShape
    <2>5. k = "inbox" => ViewFor(k, currentKey', folder, selectedGroup) = <<currentKey', folder>>
        BY ViewFacts
    <2> QED
        BY <1>1, <2>1, <2>2, <2>3, <2>4, <2>5
<1>7. ASSUME NEW b \in Renumber(asked)
      PROVE  /\ b \in Ask
             /\ b.kind = "overview" => b.view \in {<<d>> : d \in Cwds \union {None}}
             /\ b.kind = "inbox" => b.view \in known' \X Folders
             /\ b.kind # "overview" => b.kind \in lists
             /\ currentKey' \in known' => ~(b.current /\ b.kind = "inbox")
    <2>1. PICK c \in asks : /\ b.kind = c.kind /\ b.view = c.view /\ (b.current => c.current)
                            /\ b \in Ask
                            /\ ("inbox" \in asked /\ c.kind = "inbox" => ~b.current)
        BY <1>2, RenumberFacts
    <2>2. /\ c.kind = "overview" => c.view \in {<<d>> : d \in Cwds \union {None}}
          /\ c.kind = "inbox" => c.view \in known \X Folders
          /\ c.kind # "overview" => c.kind \in lists
        BY DEF PanelInv, PanelTypeOK, InboxIsKnown
    <2>3. ASSUME currentKey' \in known', b.kind = "inbox" PROVE "inbox" \in asked
        BY <1>1, <2>1, <2>2, <2>3
    <2> QED
        BY <1>5, <2>1, <2>2, <2>3
<1>8. \A b \in asks' : b \in new \/ b \in Renumber(asked)
    BY <1>1
<1>9. busy' \in [Kinds -> BOOLEAN]
    BY <1>1
<1> HIDE DEF new, asked
<1>10. PanelTypeOK'
    <2>1. asks' \subseteq Ask /\ \A b \in asks' : b.kind = "overview" => b.view \in {<<d>> : d \in Cwds \union {None}}
        BY <1>6, <1>7, <1>8, KindFacts
    <2>2. known' \subseteq provisioned'
        BY <1>1
    <2> QED
        BY <1>1, <1>2, <1>4, <1>9, <2>1, <2>2 DEF PanelTypeOK, Ask
<1>11. ShownReadIsRead' /\ MarksAreApart'
    BY <1>1 DEF PanelInv, ShownReadIsRead, MarksAreApart
<1>12. InboxIsKnown'
    <2>1. InboxViews \subseteq InboxViews'
        BY <1>5 DEF InboxViews
    <2> QED
        BY <1>1, <1>6, <1>7, <1>8, <2>1, KindFacts DEF PanelInv, InboxIsKnown
<1>13. CurrentAsksAreOfTheView'
    BY <1>1, <1>6, <1>7, <1>8 DEF CurrentAsksAreOfTheView
<1> QED
    BY <1>10, <1>11, <1>12, <1>13 DEF PanelInv

\* A mark is answered, or fails; an inbox is opened.
LEMMA MarkStep ==
  ASSUME PanelInv, (\E m \in marks : MarkSucceeds(m) \/ MarkFails(m)) \/ \E w \in Workspaces : Provisions(w)
  PROVE  PanelInv'
<1>1. PanelTypeOK
    BY DEF PanelInv
<1>2. ASSUME NEW m \in marks, MarkSucceeds(m) PROVE PanelInv'
    <2>1. /\ serverRead' = serverRead \union {m.letter} /\ marks' = marks \ {m}
          /\ UNCHANGED <<lists, provisioned, known, cwd, lastAutoKey, currentKey, folder, selectedGroup, asks,
                         shown, busy, overlapped>>
        BY <1>2 DEF MarkSucceeds
    <2>2. PanelTypeOK'
        BY <1>1, <2>1 DEF PanelTypeOK
    <2>3. ShownReadIsRead'
        BY <2>1 DEF PanelInv, ShownReadIsRead
    <2>4. MarksAreApart'
        BY <2>1, FS_Subset DEF PanelInv, MarksAreApart
    <2>5. InboxIsKnown' /\ CurrentAsksAreOfTheView'
        BY <2>1 DEF PanelInv, InboxIsKnown, InboxViews, CurrentAsksAreOfTheView
    <2> QED
        BY <2>2, <2>3, <2>4, <2>5 DEF PanelInv
<1>3. ASSUME NEW m \in marks, MarkFails(m) PROVE PanelInv'
    <2>1. /\ marks' = marks \ {m} /\ serverRead \subseteq serverRead' /\ serverRead' \subseteq serverRead \union {m.letter}
          /\ shown' = (IF RollsBack(m) THEN [shown EXCEPT !["inbox"] = m.before] ELSE shown)
          /\ overlapped' = (overlapped \/ ~RollsBack(m))
          /\ UNCHANGED <<lists, provisioned, known, cwd, lastAutoKey, currentKey, folder, selectedGroup, asks, busy>>
        BY <1>3 DEF MarkFails, Undo
    <2>2. m \in [letter : PanelLetters, ws : Workspaces \union {None}, folder : Folders, before : Listing]
          /\ shown \in [Lists -> Listing] /\ serverRead \subseteq PanelLetters
        BY <1>1 DEF PanelTypeOK
    <2>3. m.before \in Listing /\ serverRead' \subseteq PanelLetters
        BY <2>1, <2>2
    <2>4. /\ shown' \in [Lists -> Listing]
          /\ shown'["inbox"] = IF RollsBack(m) THEN m.before ELSE shown["inbox"]
        BY <2>1, <2>2, <2>3, KindFacts
    <2>5. PanelTypeOK'
        <3>1. marks' \subseteq marks /\ overlapped' \in BOOLEAN
            BY <2>1
        <3> QED
            BY <1>1, <2>1, <2>3, <2>4, <3>1 DEF PanelTypeOK
    <2>6. ASSUME ~overlapped' PROVE /\ ~overlapped /\ RollsBack(m) /\ marks' = {} /\ m.before.read \subseteq serverRead
        <3>1. ~overlapped /\ RollsBack(m)
            BY <2>1, <2>6
        <3> QED
            BY <2>1, <3>1 DEF PanelInv, MarksAreApart
    <2>7. ShownReadIsRead'
        BY <2>1, <2>4, <2>6 DEF ShownReadIsRead
    <2>8. MarksAreApart'
        BY <2>1, <2>6, FS_Subset DEF PanelInv, MarksAreApart
    <2>9. InboxIsKnown' /\ CurrentAsksAreOfTheView'
        BY <2>1, <2>4 DEF PanelInv, InboxIsKnown, InboxViews, CurrentAsksAreOfTheView
    <2> QED
        BY <2>5, <2>7, <2>8, <2>9 DEF PanelInv
<1>4. ASSUME NEW w \in Workspaces, Provisions(w) PROVE PanelInv'
    <2>1. /\ provisioned' = provisioned \union {w}
          /\ UNCHANGED <<lists, known, cwd, lastAutoKey, currentKey, folder, selectedGroup, asks, shown, busy,
                         serverRead, marks, overlapped>>
        BY <1>4 DEF Provisions
    <2>2. PanelTypeOK'
        BY <1>1, <2>1 DEF PanelTypeOK
    <2> QED
        BY <2>1, <2>2 DEF PanelInv, ShownReadIsRead, MarksAreApart, InboxIsKnown, InboxViews, CurrentAsksAreOfTheView
<1> QED
    BY <1>2, <1>3, <1>4

LEMMA PanelInvStep == PanelInv /\ [PanelNext]_panelVars => PanelInv'
<1> SUFFICES ASSUME PanelInv, [PanelNext]_panelVars PROVE PanelInv'
    OBVIOUS
<1>1. CASE UNCHANGED panelVars
    BY <1>1 DEF panelVars, PanelInv, PanelTypeOK, ShownReadIsRead, MarksAreApart, InboxIsKnown, InboxViews,
                CurrentAsksAreOfTheView
<1>2. CASE PanelUser
    BY <1>2, UserStep, OpenThreadStep, MarkStep DEF PanelUser
<1>3. CASE PanelAnswers
    BY <1>3, AnswerStep, OverviewStep, MarkStep DEF PanelAnswers
<1> QED
    BY <1>1, <1>2, <1>3 DEF PanelNext

\* A list of the inbox that fits its view stays one that does.
LEMMA FittingStep ==
  ASSUME PanelInv, [PanelNext]_panelVars, Fits, ViewOf("inbox")' = ViewOf("inbox")
  PROVE  Fits' \/ \E m \in marks : MadeAstray(m)
<1>1. /\ ViewOf("inbox") = <<currentKey, folder>> /\ shown["inbox"].view = <<currentKey, folder>>
      /\ ViewOf("inbox")' = <<currentKey', folder'>>
    <2>1. ViewOf("inbox") = <<currentKey, folder>>
        BY ViewFacts
    <2>2. (ViewOf("inbox") = <<currentKey, folder>>)'
        BY DEF ViewOf, ViewFor
    <2> QED
        BY <2>1, <2>2 DEF Fits
<1>2. currentKey' = currentKey /\ folder' = folder
    BY <1>1
<1>3. shown \in [Lists -> Listing]
    BY DEF PanelInv, PanelTypeOK
<1>4. CASE shown'["inbox"].view = shown["inbox"].view
    BY <1>1, <1>4 DEF Fits
<1>5. CASE UNCHANGED shown
    BY <1>1, <1>5 DEF Fits
<1>6. ASSUME NEW w \in Workspaces, SelectWorkspace(w) PROVE FALSE
    BY <1>2, <1>6 DEF SelectWorkspace
<1>7. ASSUME NEW g \in Groups \union {None}, SelectGroup(g) PROVE shown'["inbox"] = shown["inbox"]
    BY <1>3, <1>7, KindFacts DEF SelectGroup
<1>8. ASSUME NEW thread \in SUBSET PanelLetters, OpenThread(thread) PROVE shown'["inbox"].view = shown["inbox"].view
    <2>1. shown' = [shown EXCEPT !["inbox"] = Showing(shown["inbox"], thread)] /\ shown["inbox"] \in Listing
        BY <1>3, <1>8, KindFacts DEF OpenThread
    <2> QED
        BY <1>3, <2>1, ShowingFacts, KindFacts
<1>9. ASSUME NEW a \in asks, ListLands(a) PROVE shown'["inbox"].view = shown["inbox"].view
    <2> DEFINE list == [view |-> a.view, read |-> IF a.kind = "inbox" THEN serverRead \intersect LettersOf(a.view[1])
                                                  ELSE {}]
    <2>1. a.current /\ shown' = [shown EXCEPT ![a.kind] = list] /\ list.view = a.view
        BY <1>9 DEF ListLands
    <2> HIDE DEF list
    <2>2. CASE a.kind = "inbox"
        <3>1. <<currentKey, folder>> \in known \X Folders
            BY <1>1 DEF PanelInv, InboxIsKnown, InboxViews
        <3>2. a.view = <<currentKey, folder>>
            BY <2>1, <2>2, <3>1 DEF PanelInv, CurrentAsksAreOfTheView
        <3>3. shown'["inbox"] = list
            BY <1>3, <2>1, <2>2, KindFacts
        <3> QED
            BY <1>1, <2>1, <3>2, <3>3
    <2>3. CASE a.kind # "inbox"
        BY <1>3, <2>1, <2>3, KindFacts
    <2> QED
        BY <2>2, <2>3
<1>10. ASSUME NEW m \in marks, MarkFails(m) PROVE shown'["inbox"].view = shown["inbox"].view \/ MadeAstray(m)
    <2>1. shown' = (IF RollsBack(m) THEN [shown EXCEPT !["inbox"] = m.before] ELSE shown)
        BY <1>10 DEF MarkFails, Undo
    <2>2. CASE RollsBack(m)
        <3>1. shown'["inbox"] = m.before
            BY <1>3, <2>1, <2>2, KindFacts
        <3> QED
            BY <1>1, <2>2, <3>1 DEF RollsBack, MadeAstray
    <2> QED
        BY <2>1, <2>2
<1>11. CASE UNCHANGED panelVars
    BY <1>5, <1>11 DEF panelVars
<1>12. CASE PanelUser
    <2>1. CASE Mount \/ LoadMore \/ (\E d \in Cwds \union {None} : SetCwd(d)) \/ (\E w \in Workspaces : Provisions(w))
               \/ (\E f \in Folders : SetFolder(f)) \/ (\E kind \in Lists : SetTab(kind))
        BY <1>5, <2>1 DEF Mount, LoadMore, SetCwd, Provisions, SetFolder, SetTab
    <2> QED
        BY <1>4, <1>6, <1>7, <1>8, <1>12, <2>1 DEF PanelUser
<1>13. CASE PanelAnswers
    <2>1. CASE (\E a \in asks : IgnoresLate(a) \/ OverviewLands(a) \/ AskFails(a)) \/ \E m \in marks : MarkSucceeds(m)
        BY <1>5, <2>1, Zenon DEF IgnoresLate, OverviewLands, AskFails, MarkSucceeds
    <2> QED
        BY <1>4, <1>9, <1>10, <1>13, <2>1 DEF PanelAnswers
<1> QED
    BY <1>11, <1>12, <1>13 DEF PanelNext

\* The types of the panel's module.
THEOREM PanelTypes == PanelSpec => []PanelTypeOK
<1>1. PanelInv => PanelTypeOK
    BY DEF PanelInv
<1> QED
    BY <1>1, PanelInvInit, PanelInvStep, PTL DEF PanelSpec

\* For any number of workspaces, folders, letters and requests: as long as no two marks were under
\* way together, a letter shown as read is read, or its mark is under way (markReadOp, markDone and
\* selectMessage of store.ts, and what a failure rolls back).
THEOREM MarksShownAreMade == PanelSpec => []ShownReadIsRead
<1>1. PanelInv => ShownReadIsRead
    BY DEF PanelInv
<1> QED
    BY <1>1, PanelInvInit, PanelInvStep, PTL DEF PanelSpec

\* No late answer, and no mark that failed in another view, puts another view's list in the place of
\* one that fits (the sequence numbers of store.ts): but for a mark made on a list that did not fit.
THEOREM FittingListsAreKept == PanelSpec => FittingListsStay
<1>1. PanelInv /\ [PanelNext]_panelVars
        => [Fits /\ ViewOf("inbox")' = ViewOf("inbox") => Fits' \/ \E m \in marks : MadeAstray(m)]_panelVars
    BY FittingStep
<1> QED
    BY <1>1, PanelInvInit, PanelInvStep, PTL DEF PanelSpec, FittingListsStay

-----------------------------------------------------------------------------
(* The badges.                                                             *)

\* A read that was acknowledged has been made, and the panel asks for no more than that.
FloorsAreReal == \A k \in Keys : /\ acked[k] <= truth[k] /\ marking[k] <= truth[k]
                                 /\ panel.floor[k] <= acked[k]

\* What the host keeps of a mailbox counts every acknowledged read, or says why not: the push
\* readings, the cache, and what the run in flight has got so far.  (A run that a read has
\* overtaken is in flight no more, and says so when it ends.)
ReadingsAreExplained == \A k \in Keys : /\ Explained(reading[k], acked[k])
                                        /\ channel = "daemon" => reading[k] = Absent \/ reading[k].why # ""
CacheIsExplained == \A k \in Keys : Explained(cache.view[k], acked[k])
RunIsExplained == \A t \in 1..Slots : inflight = t => \A k \in Keys : Explained(task[t].got[k], acked[k])

\* The stream is given up at the bound, not beyond it.
FailuresAreCounted == sse # "timer" => failures < GiveUpAfter

BadgeInv == /\ BadgeTypeOK /\ FloorsAreReal /\ ReadingsAreExplained /\ CacheIsExplained /\ RunIsExplained
            /\ OldCountsAreExplained /\ FailuresAreCounted

LEMMA BadgeFacts == /\ Absent \in Value /\ NoView \in View /\ NoFloor \in [Keys -> 0..MaxNews]
                    /\ NoCount \in [Keys -> (0 - 1)..MaxNews]
                    /\ NoTask \in [stage : {"idle", "loading", "asking"}, got : View, open : SUBSET Keys]
                    /\ NoTask.got = NoView /\ NoTask.open = {}
                    /\ \A k \in Keys : NoView[k] = Absent /\ NoFloor[k] = 0
BY BadgeAssumption DEF Absent, Value, NoView, View, NoFloor, NoCount, NoTask

LEMMA ValueFacts == /\ \A x \in Value : x.v \in (0 - 1)..MaxNews /\ x.v \in Int
                    /\ \A v \in (0 - 1)..MaxNews, w \in {"", "page", "local", "run"} :
                         [v |-> v, why |-> w] \in Value
                    /\ 0..MaxNews \subseteq (0 - 1)..MaxNews /\ 0..MaxNews \subseteq Nat
<1>1. \A x \in Value : x.v \in (0 - 1)..MaxNews
    BY DEF Value
<1>2. MaxNews \in Nat
    BY BadgeAssumption
<1>3. \A v \in (0 - 1)..MaxNews, w \in {"", "page", "local", "run"} : [v |-> v, why |-> w] \in Value
    BY DEF Value
<1>4. \A x \in Value : x.v \in Int
    BY <1>1, <1>2
<1>5. 0..MaxNews \subseteq (0 - 1)..MaxNews /\ 0..MaxNews \subseteq Nat
    BY <1>2
<1> QED
    BY <1>1, <1>3, <1>4, <1>5

LEMMA VersionNumbers ==
  ASSUME BadgeTypeOK, NEW k \in Keys
  PROVE  /\ truth[k] \in Nat /\ acked[k] \in Nat /\ panel.floor[k] \in Nat
         /\ marking[k] \in (0 - 1)..MaxNews /\ marking[k] \in Int
<1>1. truth[k] \in 0..MaxNews /\ acked[k] \in 0..MaxNews /\ marking[k] \in (0 - 1)..MaxNews
    BY DEF BadgeTypeOK
<1>2. panel.floor \in [Keys -> 0..MaxNews]
    BY DEF BadgeTypeOK
<1>3. panel.floor[k] \in 0..MaxNews
    BY <1>2
<1>4. MaxNews \in Nat
    BY BadgeAssumption
<1> QED
    BY <1>1, <1>3, <1>4

LEMMA ExplainedFacts == /\ \A b : Explained(Absent, b)
                        /\ \A x, b : x.v >= b \/ x.why # "" => Explained(x, b)
                        /\ \A x \in Value, a, b \in Nat : Explained(x, b) /\ a <= b => Explained(x, a)
<1>1. ASSUME NEW x \in Value PROVE x.v \in Int
    BY <1>1, ValueFacts
<1>2. ASSUME NEW x \in Value, NEW a \in Nat, NEW b \in Nat, Explained(x, b), a <= b PROVE Explained(x, a)
    <2>1. x.v >= b => x.v >= a
        BY <1>1, <1>2
    <2> QED
        BY <1>2, <2>1, Zenon DEF Explained
<1>3. (\A b : Explained(Absent, b)) /\ \A x, b : x.v >= b \/ x.why # "" => Explained(x, b)
    BY Zenon DEF Explained
<1> QED
    BY <1>2, <1>3

\* The counts of a run.
LEMMA CountedFacts ==
  ASSUME BadgeInv, NEW t \in 1..Slots, NEW got \in View,
         inflight = t => \A k \in Keys : Explained(got[k], acked[k])
  PROVE  /\ Counted(t, got) \in View
         /\ \A k \in Keys : Explained(Counted(t, got)[k], acked[k])
<1> DEFINE x(k) == IF got[k] # Absent THEN got[k] ELSE cache.view[k]
           c(k) == IF Superseded(t) /\ x(k) # Absent /\ x(k).why = "" THEN [x(k) EXCEPT !.why = "run"] ELSE x(k)
<1>1. cache.view \in View
    BY DEF BadgeInv, BadgeTypeOK
<1>2. Counted(t, got) = [k \in Keys |-> c(k)]
    BY DEF Counted
<1> HIDE DEF x, c
<1>3. ASSUME NEW k \in Keys PROVE x(k) \in Value
    BY <1>1 DEF View, x
<1> SUFFICES ASSUME NEW k \in Keys PROVE c(k) \in Value /\ Explained(c(k), acked[k])
    BY <1>2 DEF View
<1>4. CASE Superseded(t)
    <2>1. CASE x(k) # Absent /\ x(k).why = ""
        <3>1. c(k) = [v |-> x(k).v, why |-> "run"]
            BY <1>3, <1>4, <2>1 DEF Value, c
        <3>2. c(k) \in Value
            BY <1>3, <3>1, ValueFacts
        <3>3. c(k).why # ""
            BY <3>1
        <3> QED
            BY <3>2, <3>3, ExplainedFacts
    <2>2. CASE ~(x(k) # Absent /\ x(k).why = "")
        <3>1. c(k) = x(k)
            BY <2>2 DEF c
        <3>2. Explained(x(k), acked[k])
            BY <2>2, ExplainedFacts
        <3> QED
            BY <1>3, <3>1, <3>2
    <2> QED
        BY <2>1, <2>2
<1>5. CASE ~Superseded(t)
    <2>1. c(k) = x(k) /\ inflight = t
        BY <1>5 DEF Superseded, c
    <2>2. Explained(x(k), acked[k])
        BY <2>1 DEF BadgeInv, CacheIsExplained, x
    <2> QED
        BY <1>3, <2>1, <2>2
<1> QED
    BY <1>4, <1>5

LEMMA BadgeInvInit == BadgeInit => BadgeInv
<1> SUFFICES ASSUME BadgeInit PROVE BadgeInv
    OBVIOUS
<1>1. /\ channel \in Channels /\ truth = [k \in Keys |-> 0] /\ acked = [k \in Keys |-> 0]
      /\ marking = [k \in Keys |-> 0 - 1] /\ reads = 0 /\ page = [k \in Keys |-> 0 - 1] /\ reading = NoView
      /\ task = [t \in 1..Slots |-> NoTask] /\ inflight = 0 /\ cache = [state |-> "none", view |-> NoView]
      /\ recon = [wait |-> 0, last |-> NoCount]
      /\ panel = [stage |-> "asked", wait |-> 0, view |-> NoView, floor |-> acked]
      /\ badge = NoCount /\ sse = "open" /\ failures = 0 /\ told = FALSE /\ excused = FALSE /\ badgeFaults = 0
    BY DEF BadgeInit
<1>2. 0 \in 0..MaxNews /\ 0 - 1 \in (0 - 1)..MaxNews /\ 0 \in 0..MaxReads /\ 0 \in 0..GiveUpAfter
      /\ 0 \in 0..MaxFaults /\ 0 \in 0..Slots
    BY BadgeAssumption
<1>3. acked \in [Keys -> 0..MaxNews]
    BY <1>1, <1>2
<1>4. /\ panel \in [stage : {"idle", "asked", "waiting", "answered"}, wait : 0..Slots, view : View,
                    floor : [Keys -> 0..MaxNews]]
      /\ panel.stage = "asked" /\ panel.floor = acked
    BY <1>1, <1>2, <1>3, BadgeFacts
<1>5. task \in [1..Slots -> [stage : {"idle", "loading", "asking"}, got : View, open : SUBSET Keys]]
    BY <1>1, BadgeFacts
<1>6. /\ cache \in [state : {"none", "fresh", "stale"}, view : View] /\ cache.view = NoView
      /\ recon \in [wait : 0..Slots, last : [Keys -> (0 - 1)..MaxNews]]
    BY <1>1, <1>2, BadgeFacts
<1>7. /\ truth \in [Keys -> 0..MaxNews] /\ marking \in [Keys -> (0 - 1)..MaxNews]
      /\ page \in [Keys -> (0 - 1)..MaxNews] /\ reading \in View /\ badge \in [Keys -> (0 - 1)..MaxNews]
    BY <1>1, <1>2, BadgeFacts
<1>8. BadgeTypeOK
    BY <1>1, <1>2, <1>3, <1>4, <1>5, <1>6, <1>7 DEF BadgeTypeOK
<1>9. FloorsAreReal
    BY <1>1, <1>4 DEF FloorsAreReal
<1>10. \A b : \A k \in Keys : Explained(NoView[k], b)
    BY BadgeFacts, ExplainedFacts
<1>11. ReadingsAreExplained /\ CacheIsExplained
    BY <1>1, <1>6, <1>10, BadgeFacts DEF ReadingsAreExplained, CacheIsExplained
<1>12. RunIsExplained
    BY <1>1, BadgeAssumption DEF RunIsExplained
<1>13. FailuresAreCounted
    BY <1>1, BadgeAssumption DEF FailuresAreCounted
<1> QED
    BY <1>4, <1>8, <1>9, <1>11, <1>12, <1>13 DEF BadgeInv, OldCountsAreExplained

LEMMA VersionsType == ASSUME NEW w \in View PROVE Versions(w) \in [Keys -> (0 - 1)..MaxNews]
BY ValueFacts DEF Versions, View

LEMMA EmitType == ASSUME told \in BOOLEAN, excused \in BOOLEAN, Emit PROVE told' \in BOOLEAN /\ excused' \in BOOLEAN
BY DEF Emit

LEMMA ComparesType ==
  ASSUME BadgeTypeOK, NEW w \in View, Compares(w)
  PROVE  recon' \in [wait : 0..Slots, last : [Keys -> (0 - 1)..MaxNews]] /\ told' \in BOOLEAN /\ excused' \in BOOLEAN
<1>1. recon' = [wait |-> 0, last |-> Versions(w)]
    BY DEF Compares
<1>2. Emit \/ UNCHANGED <<told, excused>>
    BY DEF Compares
<1>3. told' \in BOOLEAN /\ excused' \in BOOLEAN
    BY <1>2, EmitType DEF BadgeTypeOK
<1> QED
    BY <1>1, <1>3, VersionsType, BadgeAssumption

\* The end of a run.
LEMMA FinishesKeeps ==
  ASSUME BadgeInv, NEW t \in 1..Slots, NEW got \in View,
         inflight = t => \A k \in Keys : Explained(got[k], acked[k]),
         Finishes(t, got), UNCHANGED <<server, page, reading, badge, sse, failures, badgeFaults>>
  PROVE  BadgeInv'
<1> DEFINE counts == Counted(t, got)
<1>1. counts \in View /\ \A k \in Keys : Explained(counts[k], acked[k])
    BY CountedFacts
<1>2. /\ cache' = [state |-> "fresh", view |-> counts]
      /\ inflight' = IF inflight = t THEN 0 ELSE inflight
      /\ IF recon.wait = t THEN Compares(counts) ELSE UNCHANGED <<recon, told, excused>>
      /\ panel' = IF panel.wait = t
                  THEN [panel EXCEPT !.stage = "answered", !.wait = 0, !.view = counts]
                  ELSE panel
      /\ task' = [task EXCEPT ![t] = NoTask]
    BY DEF Finishes
<1> HIDE DEF counts
<1>3. BadgeTypeOK
    BY DEF BadgeInv
<1>4. /\ UNCHANGED <<channel, truth, acked, marking, reads, page, reading, badge, sse, failures, badgeFaults>>
    BY DEF server
<1>5. /\ recon' \in [wait : 0..Slots, last : [Keys -> (0 - 1)..MaxNews]]
      /\ told' \in BOOLEAN /\ excused' \in BOOLEAN
    <2>1. CASE recon.wait = t
        BY <1>1, <1>2, <1>3, <2>1, ComparesType
    <2>2. CASE recon.wait # t
        BY <1>2, <1>3, <2>2 DEF BadgeTypeOK
    <2> QED
        BY <2>1, <2>2
<1>6. /\ panel' \in [stage : {"idle", "asked", "waiting", "answered"}, wait : 0..Slots, view : View,
                     floor : [Keys -> 0..MaxNews]]
      /\ panel'.floor = panel.floor
      /\ panel' = panel \/ panel'.view = counts
    <2>1. panel \in [stage : {"idle", "asked", "waiting", "answered"}, wait : 0..Slots, view : View,
                     floor : [Keys -> 0..MaxNews]]
        BY <1>3 DEF BadgeTypeOK
    <2>2. CASE panel.wait = t
        <3>1. panel' = [stage |-> "answered", wait |-> 0, view |-> counts, floor |-> panel.floor]
            BY <1>2, <2>1, <2>2
        <3> QED
            BY <1>1, <2>1, <3>1, BadgeAssumption
    <2> QED
        BY <1>2, <2>1, <2>2
<1>7. /\ task' \in [1..Slots -> [stage : {"idle", "loading", "asking"}, got : View, open : SUBSET Keys]]
      /\ \A u \in 1..Slots : u # t => task'[u] = task[u]
    BY <1>2, <1>3, BadgeFacts DEF BadgeTypeOK
<1>8. inflight' \in 0..Slots /\ inflight' # t /\ (inflight' = inflight \/ inflight' = 0)
    BY <1>2, <1>3, BadgeAssumption DEF BadgeTypeOK
<1>9. cache' \in [state : {"none", "fresh", "stale"}, view : View]
    BY <1>1, <1>2
<1>10. BadgeTypeOK'
    BY <1>3, <1>4, <1>5, <1>6, <1>7, <1>8, <1>9 DEF BadgeTypeOK
<1>11. FloorsAreReal' /\ ReadingsAreExplained'
    BY <1>4, <1>6 DEF BadgeInv, FloorsAreReal, ReadingsAreExplained
<1>12. CacheIsExplained'
    BY <1>1, <1>2, <1>4 DEF CacheIsExplained
<1>13. RunIsExplained'
    BY <1>4, <1>7, <1>8, BadgeAssumption DEF RunIsExplained, BadgeInv
<1>14. OldCountsAreExplained'
    <2>1. CASE panel' = panel
        BY <2>1 DEF BadgeInv, OldCountsAreExplained
    <2>2. CASE panel'.view = counts
        <3> SUFFICES ASSUME NEW k \in Keys PROVE Explained(counts[k], panel.floor[k])
            BY <1>6, <2>2 DEF OldCountsAreExplained
        <3>1. panel.floor[k] \in Nat /\ acked[k] \in Nat /\ panel.floor[k] <= acked[k]
            BY <1>3, ValueFacts DEF BadgeTypeOK, FloorsAreReal, BadgeInv
        <3> QED
            BY <1>1, <3>1, ExplainedFacts DEF View
    <2> QED
        BY <1>6, <2>1, <2>2
<1>15. FailuresAreCounted'
    BY <1>4 DEF BadgeInv, FailuresAreCounted
<1> QED
    BY <1>10, <1>11, <1>12, <1>13, <1>14, <1>15 DEF BadgeInv

\* Changes at the server, and the calls that mark a letter.
LEMMA ServerStep ==
  ASSUME BadgeInv, NEW k \in Keys, ChangesElsewhere(k) \/ MarksHere(k) PROVE BadgeInv'
<1>1. /\ \A j \in Keys : truth'[j] \in 0..MaxNews /\ truth[j] <= truth'[j] /\ marking'[j] \in (0 - 1)..MaxNews
                         /\ marking'[j] <= truth'[j]
      /\ truth' \in [Keys -> 0..MaxNews] /\ marking' \in [Keys -> (0 - 1)..MaxNews] /\ reads' \in 0..MaxReads
      /\ UNCHANGED <<channel, acked, host, view, badgeFaults>>
    <2>0. /\ truth \in [Keys -> 0..MaxNews] /\ marking \in [Keys -> (0 - 1)..MaxNews] /\ reads \in 0..MaxReads
          /\ \A j \in Keys : marking[j] <= truth[j]
        BY DEF BadgeInv, BadgeTypeOK, FloorsAreReal
    <2>1. CASE ChangesElsewhere(k)
        <3>1. truth[k] < MaxNews /\ truth' = [truth EXCEPT ![k] = truth[k] + 1]
              /\ UNCHANGED <<channel, acked, marking, reads, host, view, badgeFaults>>
            BY <2>1 DEF ChangesElsewhere
        <3> QED
            BY <2>0, <3>1, BadgeAssumption
    <2>2. CASE MarksHere(k)
        <3>1. PICK v \in {truth[k], truth[k] + 1} : /\ v <= MaxNews /\ truth' = [truth EXCEPT ![k] = v]
                                                    /\ marking' = [marking EXCEPT ![k] = v]
            BY <2>2 DEF MarksHere
        <3>2. reads < MaxReads /\ reads' = reads + 1 /\ UNCHANGED <<channel, acked, host, view, badgeFaults>>
            BY <2>2 DEF MarksHere
        <3>3. v \in 0..MaxNews /\ v \in (0 - 1)..MaxNews /\ truth[k] <= v
            BY <2>0, <3>1, BadgeAssumption
        <3> QED
            BY <2>0, <3>1, <3>2, <3>3, BadgeAssumption
    <2> QED
        BY <2>1, <2>2
<1>2. UNCHANGED <<channel, acked, page, reading, task, inflight, cache, recon, panel, badge, sse, failures, told,
                  excused, badgeFaults>>
    BY <1>1 DEF host, view
<1>3. BadgeTypeOK'
    BY <1>1, <1>2 DEF BadgeInv, BadgeTypeOK
<1>4. FloorsAreReal'
    <2>1. \A j \in Keys : acked[j] \in Nat /\ truth[j] \in Nat /\ truth'[j] \in Nat
        BY <1>1, ValueFacts, VersionNumbers DEF BadgeInv
    <2> QED
        BY <1>1, <1>2, <2>1 DEF BadgeInv, FloorsAreReal
<1>5. ReadingsAreExplained' /\ CacheIsExplained' /\ RunIsExplained' /\ OldCountsAreExplained'
      /\ FailuresAreCounted'
    BY <1>2 DEF BadgeInv, ReadingsAreExplained, CacheIsExplained, RunIsExplained, OldCountsAreExplained,
                FailuresAreCounted
<1> QED
    BY <1>3, <1>4, <1>5 DEF BadgeInv

\* A step that leaves the counts of the host alone.
LEMMA AsideStep ==
  ASSUME BadgeInv, UNCHANGED <<server, reading, task, inflight, cache>>, BadgeTypeOK', FloorsAreReal',
         OldCountsAreExplained', FailuresAreCounted'
  PROVE  BadgeInv'
BY DEF BadgeInv, server, ReadingsAreExplained, CacheIsExplained, RunIsExplained

\* refreshUnread.
LEMMA RefreshesKeeps ==
  ASSUME BadgeTypeOK, NEW floor \in [Keys -> 0..MaxNews], Refreshes(floor)
  PROVE  /\ panel' \in [stage : {"idle", "asked", "waiting", "answered"}, wait : 0..Slots, view : View,
                        floor : [Keys -> 0..MaxNews]]
         /\ panel' = panel \/ (panel'.floor = floor /\ panel'.stage = "asked") 
         /\ excused' \in BOOLEAN
<1>1. panel \in [stage : {"idle", "asked", "waiting", "answered"}, wait : 0..Slots, view : View,
                 floor : [Keys -> 0..MaxNews]]
    BY DEF BadgeTypeOK
<1>2. CASE panel.stage = "idle"
    <2>1. panel' = [panel EXCEPT !.stage = "asked", !.floor = floor] /\ excused' = FALSE
        BY <1>2 DEF Refreshes
    <2>2. panel' = [stage |-> "asked", wait |-> panel.wait, view |-> panel.view, floor |-> floor]
        BY <1>1, <2>1
    <2> QED
        BY <1>1, <2>1, <2>2
<1>3. CASE panel.stage # "idle"
    BY <1>1, <1>3 DEF Refreshes
<1> QED
    BY <1>2, <1>3

LEMMA FloorsFollow ==
  ASSUME BadgeInv, UNCHANGED <<truth, acked, marking>>, panel' = panel \/ panel'.floor = acked \/ panel'.floor = NoFloor
                                                        \/ panel'.floor = panel.floor
  PROVE  FloorsAreReal'
<1> SUFFICES ASSUME NEW k \in Keys PROVE panel'.floor[k] <= acked[k]
    BY DEF FloorsAreReal, BadgeInv
<1>1. acked[k] \in Nat
    BY VersionNumbers DEF BadgeInv
<1> QED
    BY <1>1, BadgeFacts DEF BadgeInv, FloorsAreReal

\* A read is acknowledged.
LEMMA AcksStep == ASSUME BadgeInv, NEW k \in Keys, AcksHere(k) PROVE BadgeInv'
<1>1. BadgeTypeOK
    BY DEF BadgeInv
<1>2. /\ marking[k] # 0 - 1
      /\ acked' = [acked EXCEPT ![k] = IF acked[k] < marking[k] THEN marking[k] ELSE acked[k]]
      /\ marking' = [marking EXCEPT ![k] = 0 - 1]
      /\ cache' = [state |-> "none", view |-> NoView] /\ inflight' = 0
      /\ reading' = IF channel = "stream" THEN [reading EXCEPT ![k] = Absent] ELSE reading
      /\ \/ Emit /\ UNCHANGED panel
         \/ told' = (told \/ sse = "open") /\ Refreshes(acked')
      /\ UNCHANGED <<channel, truth, reads, page, task, recon, badge, sse, failures, badgeFaults>>
    BY DEF AcksHere, Invalidate
<1>3. \A j \in Keys : /\ acked[j] \in Nat /\ truth[j] \in Nat /\ marking[j] \in (0 - 1)..MaxNews
                      /\ marking[j] \in Int /\ acked[j] \in 0..MaxNews
    BY <1>1, BadgeAssumption DEF BadgeTypeOK
<1>4. \A j \in Keys : acked'[j] \in 0..MaxNews /\ acked[j] <= acked'[j] /\ acked'[j] <= truth[j]
                      /\ (j # k => acked'[j] = acked[j]) /\ marking'[j] <= truth[j]
    <2> SUFFICES ASSUME NEW j \in Keys PROVE acked'[j] \in 0..MaxNews /\ acked[j] <= acked'[j] /\ acked'[j] <= truth[j]
                      /\ (j # k => acked'[j] = acked[j]) /\ marking'[j] <= truth[j]
        OBVIOUS
    <2>1. acked[j] <= truth[j] /\ marking[j] <= truth[j]
        BY DEF BadgeInv, FloorsAreReal
    <2>2. marking[k] <= truth[k] /\ acked[k] <= truth[k]
        BY DEF BadgeInv, FloorsAreReal
    <2>3. acked \in [Keys -> 0..MaxNews] /\ marking \in [Keys -> (0 - 1)..MaxNews]
        BY <1>1 DEF BadgeTypeOK
    <2>4. CASE j = k
        BY <1>2, <1>3, <2>1, <2>2, <2>3, <2>4, BadgeAssumption
    <2>5. CASE j # k
        BY <1>2, <1>3, <2>1, <2>3, <2>5
    <2> QED
        BY <2>4, <2>5
<1>5. acked' \in [Keys -> 0..MaxNews] /\ marking' \in [Keys -> (0 - 1)..MaxNews]
    <2>1. acked \in [Keys -> 0..MaxNews] /\ marking \in [Keys -> (0 - 1)..MaxNews] /\ 0 - 1 \in (0 - 1)..MaxNews
        BY <1>1, BadgeAssumption DEF BadgeTypeOK
    <2>2. acked'[k] \in 0..MaxNews /\ acked' = [acked EXCEPT ![k] = acked'[k]]
        BY <1>2, <1>4, <2>1
    <2> QED
        BY <1>2, <2>1, <2>2
<1>6. /\ panel' \in [stage : {"idle", "asked", "waiting", "answered"}, wait : 0..Slots, view : View,
                     floor : [Keys -> 0..MaxNews]]
      /\ panel' = panel \/ (panel'.floor = acked' /\ panel'.stage = "asked")
      /\ told' \in BOOLEAN /\ excused' \in BOOLEAN
    <2>1. CASE Emit /\ UNCHANGED panel
        BY <1>1, <2>1, EmitType DEF BadgeTypeOK
    <2>2. CASE told' = (told \/ sse = "open") /\ Refreshes(acked')
        <3>1. told' \in BOOLEAN
            BY <2>2
        <3> QED
            BY <1>1, <1>5, <2>2, <3>1, RefreshesKeeps
    <2> QED
        BY <1>2, <2>1, <2>2
<1>7. reading' \in View
    BY <1>1, <1>2, BadgeFacts DEF BadgeTypeOK, View
<1>8. BadgeTypeOK'
    <2>1. cache' \in [state : {"none", "fresh", "stale"}, view : View] /\ inflight' \in 0..Slots
        BY <1>2, BadgeFacts, BadgeAssumption
    <2> QED
        BY <1>1, <1>2, <1>5, <1>6, <1>7, <2>1 DEF BadgeTypeOK
<1>9. FloorsAreReal'
    <2> SUFFICES ASSUME NEW j \in Keys PROVE panel'.floor[j] <= acked'[j]
        BY <1>2, <1>4 DEF FloorsAreReal
    <2>1. panel.floor[j] <= acked[j] /\ panel.floor[j] \in Nat /\ acked'[j] \in Nat
        BY <1>1, <1>4, ValueFacts, VersionNumbers DEF BadgeInv, FloorsAreReal
    <2> QED
        BY <1>3, <1>4, <1>6, <2>1
<1>10. ReadingsAreExplained'
    <2> SUFFICES ASSUME NEW j \in Keys
                 PROVE  /\ Explained(reading'[j], acked'[j])
                        /\ channel = "daemon" => reading'[j] = Absent \/ reading'[j].why # ""
        BY <1>2 DEF ReadingsAreExplained
    <2>1. /\ Explained(reading[j], acked[j])
          /\ channel = "daemon" => reading[j] = Absent \/ reading[j].why # ""
        BY DEF BadgeInv, ReadingsAreExplained
    <2>2. CASE channel = "stream"
        <3>1. reading' = [reading EXCEPT ![k] = Absent] /\ reading \in [Keys -> Value]
            BY <1>1, <1>2, <2>2 DEF BadgeTypeOK, View
        <3>2. CASE j = k
            BY <3>1, <3>2, ExplainedFacts, <2>2
        <3>3. CASE j # k
            BY <1>4, <2>1, <3>1, <3>3
        <3> QED
            BY <3>2, <3>3
    <2>3. CASE channel # "stream"
        <3>1. channel = "daemon" /\ reading' = reading
            BY <1>1, <1>2, <2>3, BadgeAssumption DEF BadgeTypeOK
        <3> QED
            BY <2>1, <3>1, ExplainedFacts
    <2> QED
        BY <2>2, <2>3
<1>11. CacheIsExplained'
    BY <1>2, BadgeFacts, ExplainedFacts DEF CacheIsExplained
<1>12. RunIsExplained'
    BY <1>2, BadgeAssumption DEF RunIsExplained
<1>13. OldCountsAreExplained' /\ FailuresAreCounted'
    BY <1>2, <1>6 DEF BadgeInv, OldCountsAreExplained, FailuresAreCounted
<1> QED
    BY <1>8, <1>9, <1>10, <1>11, <1>12, <1>13 DEF BadgeInv

\* The push channel.
LEMMA PushStep ==
  ASSUME BadgeInv, NEW k \in Keys, PageAnswered(k) \/ PageNoted(k) \/ ReadingLost(k) PROVE BadgeInv'
<1>1. BadgeTypeOK
    BY DEF BadgeInv
<1>2. CASE PageAnswered(k)
    <2>1. page' = [page EXCEPT ![k] = truth[k]]
          /\ UNCHANGED <<server, reading, task, inflight, cache, recon, panel, badge, sse, failures, told, excused,
                         badgeFaults>>
        BY <1>2 DEF PageAnswered, view
    <2>2. UNCHANGED <<channel, truth, acked, marking, reads>>
        BY <2>1 DEF server
    <2>3. page' \in [Keys -> (0 - 1)..MaxNews]
        BY <1>1, <2>1, ValueFacts DEF BadgeTypeOK
    <2>4. BadgeTypeOK'
        BY <1>1, <2>1, <2>2, <2>3 DEF BadgeTypeOK
    <2>5. FloorsAreReal' /\ OldCountsAreExplained' /\ FailuresAreCounted'
        BY <2>1, <2>2 DEF BadgeInv, FloorsAreReal, OldCountsAreExplained, FailuresAreCounted
    <2> QED
        BY <2>1, <2>4, <2>5, AsideStep
<1>3. CASE PageNoted(k) \/ ReadingLost(k)
    <2> DEFINE noted == [v |-> page[k], why |-> IF channel = "daemon" THEN "local"
                                                ELSE IF page[k] < acked[k] THEN "page" ELSE ""]
    <2>1. /\ \/ reading' = [reading EXCEPT ![k] = Absent]
             \/ page[k] # 0 - 1 /\ reading' = [reading EXCEPT ![k] = noted]
          /\ page' = page \/ page' = [page EXCEPT ![k] = 0 - 1]
          /\ Emit \/ UNCHANGED <<told, excused>>
          /\ UNCHANGED <<server, task, inflight, cache, recon, panel, badge, sse, failures>>
          /\ badgeFaults' = badgeFaults \/ (badgeFaults < MaxFaults /\ badgeFaults' = badgeFaults + 1)
        BY <1>3 DEF PageNoted, ReadingLost, Fault, view
    <2>2. UNCHANGED <<channel, truth, acked, marking, reads>>
        BY <2>1 DEF server
    <2>3. /\ noted \in Value /\ (channel = "daemon" => noted.why # "")
          /\ page[k] # 0 - 1 => Explained(noted, acked[k])
        <3>1. page[k] \in (0 - 1)..MaxNews /\ page[k] \in Int /\ acked[k] \in Nat
            BY <1>1, VersionNumbers, BadgeAssumption DEF BadgeTypeOK
        <3>2. noted.v = page[k]
              /\ noted.why = IF channel = "daemon" THEN "local" ELSE IF page[k] < acked[k] THEN "page" ELSE ""
            OBVIOUS
        <3>3. noted.v >= acked[k] \/ noted.why # ""
            BY <3>1, <3>2
        <3>4. noted \in Value
            BY <3>1, ValueFacts
        <3> QED
            BY <3>2, <3>3, <3>4, ExplainedFacts
    <2> HIDE DEF noted
    <2>4. reading \in [Keys -> Value]
        BY <1>1 DEF BadgeTypeOK, View
    <2>5. \A j \in Keys : /\ reading'[j] \in Value /\ Explained(reading'[j], acked[j])
                          /\ channel = "daemon" => reading'[j] = Absent \/ reading'[j].why # ""
        <3> SUFFICES ASSUME NEW j \in Keys
                     PROVE  /\ reading'[j] \in Value /\ Explained(reading'[j], acked[j])
                            /\ channel = "daemon" => reading'[j] = Absent \/ reading'[j].why # ""
            OBVIOUS
        <3>1. reading'[j] = reading[j] \/ (j = k /\ reading'[j] = Absent)
              \/ (j = k /\ page[k] # 0 - 1 /\ reading'[j] = noted)
            BY <2>1, <2>4
        <3>2. CASE reading'[j] = reading[j]
            BY <2>4, <3>2 DEF BadgeInv, ReadingsAreExplained
        <3>3. CASE reading'[j] = Absent
            BY <3>3, ExplainedFacts, BadgeFacts
        <3>4. CASE j = k /\ page[k] # 0 - 1 /\ reading'[j] = noted
            BY <2>3, <3>4
        <3> QED
            BY <3>1, <3>2, <3>3, <3>4
    <2>6. reading' \in View
        BY <2>1, <2>4, <2>5 DEF View
    <2>7. page' \in [Keys -> (0 - 1)..MaxNews]
        <3>1. page \in [Keys -> (0 - 1)..MaxNews] /\ 0 - 1 \in (0 - 1)..MaxNews
            BY <1>1, BadgeAssumption DEF BadgeTypeOK
        <3> QED
            BY <2>1, <3>1
    <2>8. told' \in BOOLEAN /\ excused' \in BOOLEAN
        BY <1>1, <2>1, EmitType DEF BadgeTypeOK
    <2>9. badgeFaults' \in 0..MaxFaults
        BY <1>1, <2>1, BadgeAssumption, SMTT(30) DEF BadgeTypeOK
    <2>10. BadgeTypeOK'
        BY <1>1, <2>1, <2>2, <2>6, <2>7, <2>8, <2>9 DEF BadgeTypeOK
    <2>11. FloorsAreReal' /\ OldCountsAreExplained' /\ CacheIsExplained' /\ RunIsExplained'
           /\ FailuresAreCounted'
        BY <2>1, <2>2 DEF BadgeInv, FloorsAreReal, OldCountsAreExplained, CacheIsExplained, RunIsExplained,
                          FailuresAreCounted
    <2>12. ReadingsAreExplained'
        BY <2>2, <2>5 DEF ReadingsAreExplained
    <2> QED
        BY <2>10, <2>11, <2>12 DEF BadgeInv
<1> QED
    BY <1>2, <1>3

\* A run: what it picks up, what the server answers, its end.
LEMMA RunStep ==
  ASSUME BadgeInv, NEW t \in 1..Slots,
         Picks(t) \/ Arrives(t) \/ \E k \in Keys : RestAnswers(t, k) \/ RestFails(t, k)
  PROVE  BadgeInv'
<1>1. BadgeTypeOK
    BY DEF BadgeInv
<1> DEFINE Tasks == [stage : {"idle", "loading", "asking"}, got : View, open : SUBSET Keys]
<1>2. task \in [1..Slots -> Tasks] /\ task[t] \in Tasks /\ reading \in View
    BY <1>1 DEF BadgeTypeOK
<1>3. ASSUME NEW n \in Tasks, task' = [task EXCEPT ![t] = n],
             inflight = t => \A k \in Keys : Explained(n.got[k], acked[k]),
             UNCHANGED <<server, page, reading, inflight, cache, recon, panel, badge, sse, failures, told, excused>>,
             badgeFaults' = badgeFaults \/ (badgeFaults < MaxFaults /\ badgeFaults' = badgeFaults + 1)
      PROVE  BadgeInv'
    <2>1. UNCHANGED <<channel, truth, acked, marking, reads>>
        BY <1>3 DEF server
    <2>2. task' \in [1..Slots -> Tasks] /\ badgeFaults' \in 0..MaxFaults
        <3>1. task' \in [1..Slots -> Tasks]
            BY <1>2, <1>3
        <3>2. badgeFaults \in 0..MaxFaults /\ MaxFaults \in Nat
            BY <1>1, BadgeAssumption DEF BadgeTypeOK
        <3>3. badgeFaults' = badgeFaults \/ (badgeFaults < MaxFaults /\ badgeFaults' = badgeFaults + 1)
            BY <1>3
        <3> QED BY <3>1, <3>2, <3>3
    <2>3. BadgeTypeOK'
        BY <1>1, <1>3, <2>1, <2>2 DEF BadgeTypeOK
    <2>4. RunIsExplained'
        <3> SUFFICES ASSUME NEW u \in 1..Slots, inflight = u, NEW k \in Keys
                     PROVE  Explained(task'[u].got[k], acked[k])
            BY <1>3, <2>1 DEF RunIsExplained
        <3>1. task'[u] = IF u = t THEN n ELSE task[u]
            BY <1>2, <1>3
        <3> QED
            BY <1>3, <3>1 DEF BadgeInv, RunIsExplained
    <2>5. FloorsAreReal' /\ OldCountsAreExplained' /\ CacheIsExplained' /\ ReadingsAreExplained'
          /\ FailuresAreCounted'
        BY <1>3, <2>1 DEF BadgeInv, FloorsAreReal, OldCountsAreExplained, CacheIsExplained, ReadingsAreExplained,
                          FailuresAreCounted
    <2> QED
        BY <2>3, <2>4, <2>5 DEF BadgeInv
<1>4. CASE Picks(t)
    <2> DEFINE open == {k \in Keys : reading[k] = Absent}
    <2>1. /\ \/ Finishes(t, reading)
             \/ /\ task' = [task EXCEPT ![t] = [stage |-> "asking", got |-> reading, open |-> open]]
                /\ UNCHANGED <<inflight, cache, recon, panel, told, excused>>
          /\ UNCHANGED <<server, page, reading, badge, sse, failures, badgeFaults>>
        BY <1>4, Zenon DEF Picks
    <2>2. \A k \in Keys : Explained(reading[k], acked[k])
        BY DEF BadgeInv, ReadingsAreExplained
    <2>3. CASE Finishes(t, reading)
        BY <1>2, <2>1, <2>2, <2>3, FinishesKeeps
    <2>4. CASE ~Finishes(t, reading)
        <3>1. [stage |-> "asking", got |-> reading, open |-> open] \in Tasks
            BY <1>2
        <3> QED
            BY <1>3, <2>1, <2>2, <2>4, <3>1
    <2> QED
        BY <2>3, <2>4
<1>5. CASE Arrives(t)
    <2>1. Finishes(t, task[t].got) /\ UNCHANGED <<server, page, reading, badge, sse, failures, badgeFaults>>
        BY <1>5 DEF Arrives
    <2>2. inflight = t => \A k \in Keys : Explained(task[t].got[k], acked[k])
        BY DEF BadgeInv, RunIsExplained
    <2>3. task[t].got \in View
        BY <1>2
    <2> QED
        BY <2>1, <2>2, <2>3, FinishesKeeps
<1>6. ASSUME NEW k \in Keys, RestAnswers(t, k) PROVE BadgeInv'
    <2> DEFINE got == [task[t].got EXCEPT ![k] = [v |-> truth[k], why |-> ""]]
    <2>1. /\ task' = [task EXCEPT ![t] = [stage |-> task[t].stage, got |-> got, open |-> task[t].open \ {k}]]
          /\ UNCHANGED <<server, page, reading, inflight, cache, recon, view, badgeFaults>>
        BY <1>6 DEF RestAnswers
    <2>2. task[t].got \in [Keys -> Value] /\ task[t].stage \in {"idle", "loading", "asking"}
          /\ task[t].open \subseteq Keys
        BY <1>2 DEF View
    <2>3. [v |-> truth[k], why |-> ""] \in Value /\ [v |-> truth[k], why |-> ""].v = truth[k]
        BY <1>1, ValueFacts DEF BadgeTypeOK
    <2>4. truth[k] >= acked[k]
        BY <1>1, VersionNumbers DEF BadgeInv, FloorsAreReal
    <2>5. got \in View /\ \A j \in Keys : got[j] = IF j = k THEN [v |-> truth[k], why |-> ""] ELSE task[t].got[j]
        BY <2>2, <2>3 DEF View
    <2>6. Explained([v |-> truth[k], why |-> ""], acked[k])
        BY <2>3, <2>4, ExplainedFacts
    <2> HIDE DEF got
    <2>7. inflight = t => \A j \in Keys : Explained(got[j], acked[j])
        BY <2>5, <2>6 DEF BadgeInv, RunIsExplained
    <2>8. [stage |-> task[t].stage, got |-> got, open |-> task[t].open \ {k}] \in Tasks
        BY <2>2, <2>5
    <2> QED
        BY <1>3, <2>1, <2>7, <2>8 DEF view
<1>7. ASSUME NEW k \in Keys, RestFails(t, k) PROVE BadgeInv'
    <2>1. /\ task' = [task EXCEPT ![t] = [task[t] EXCEPT !.open = task[t].open \ {k}]]
          /\ badgeFaults < MaxFaults /\ badgeFaults' = badgeFaults + 1
          /\ UNCHANGED <<server, page, reading, inflight, cache, recon, view>>
        BY <1>7 DEF RestFails, Fault
    <2>2. [task[t] EXCEPT !.open = task[t].open \ {k}] \in Tasks
          /\ [task[t] EXCEPT !.open = task[t].open \ {k}].got = task[t].got
        BY <1>2
    <2>3. inflight = t => \A j \in Keys : Explained(task[t].got[j], acked[j])
        BY DEF BadgeInv, RunIsExplained
    <2> QED
        BY <1>3, <2>1, <2>2, <2>3 DEF view
<1> QED
    BY <1>4, <1>5, <1>6, <1>7

\* A run is started in an idle slot, with nothing got.
LEMMA StartsKeeps ==
  ASSUME BadgeInv, NEW t \in 1..Slots, Starts(t), UNCHANGED <<acked>>
  PROVE  /\ task' \in [1..Slots -> [stage : {"idle", "loading", "asking"}, got : View, open : SUBSET Keys]]
         /\ inflight' \in 0..Slots /\ RunIsExplained'
<1> DEFINE Tasks == [stage : {"idle", "loading", "asking"}, got : View, open : SUBSET Keys]
           n == [NoTask EXCEPT !.stage = "loading"]
<1>1. task \in [1..Slots -> Tasks]
    BY DEF BadgeInv, BadgeTypeOK
<1>2. n \in Tasks /\ n.got = NoView
    BY BadgeFacts
<1>3. task' = [task EXCEPT ![t] = n] /\ inflight' = t
    BY DEF Starts
<1> HIDE DEF n
<1>4. task' \in [1..Slots -> Tasks] /\ task'[t] = n
    BY <1>1, <1>2, <1>3
<1>5. RunIsExplained'
    <2> SUFFICES ASSUME NEW k \in Keys PROVE Explained(NoView[k], acked'[k])
        BY <1>2, <1>3, <1>4 DEF RunIsExplained
    <2> QED
        BY BadgeFacts, ExplainedFacts
<1> QED
    BY <1>3, <1>4, <1>5

LEMMA FieldsOfPanel ==
  ASSUME BadgeTypeOK
  PROVE  /\ panel.stage \in {"idle", "asked", "waiting", "answered"} /\ panel.wait \in 0..Slots
         /\ panel.view \in View /\ panel.floor \in [Keys -> 0..MaxNews]
         /\ panel = [stage |-> panel.stage, wait |-> panel.wait, view |-> panel.view, floor |-> panel.floor]
BY DEF BadgeTypeOK

\* The host's slow diff, and a cache grown old.
LEMMA DiffStep == ASSUME BadgeInv, Recounts \/ CacheExpires PROVE BadgeInv'
<1>1. BadgeTypeOK
    BY DEF BadgeInv
<1>2. CASE CacheExpires
    <2>1. /\ cache' = [cache EXCEPT !.state = "stale"]
          /\ UNCHANGED <<server, page, reading, task, inflight, recon, view, badgeFaults>>
        BY <1>2 DEF CacheExpires
    <2>2. UNCHANGED <<channel, truth, acked, marking, reads, panel, badge, sse, failures, told, excused>>
        BY <2>1 DEF server, view
    <2>3. cache' \in [state : {"none", "fresh", "stale"}, view : View] /\ cache'.view = cache.view
        BY <1>1, <2>1 DEF BadgeTypeOK
    <2>4. BadgeTypeOK'
        BY <1>1, <2>1, <2>2, <2>3 DEF BadgeTypeOK
    <2>5. FloorsAreReal' /\ OldCountsAreExplained' /\ CacheIsExplained' /\ ReadingsAreExplained'
          /\ FailuresAreCounted' /\ RunIsExplained'
        BY <2>1, <2>2, <2>3 DEF BadgeInv, FloorsAreReal, OldCountsAreExplained, CacheIsExplained,
                                ReadingsAreExplained, FailuresAreCounted, RunIsExplained
    <2> QED
        BY <2>4, <2>5 DEF BadgeInv
<1>3. CASE Recounts
    <2>1. /\ \/ Joins /\ recon' = [recon EXCEPT !.wait = inflight] /\ UNCHANGED <<told, excused>>
             \/ Cached /\ Compares(cache.view)
             \/ \E t \in IdleSlots : /\ Starts(t) /\ recon' = [recon EXCEPT !.wait = t]
                                     /\ UNCHANGED <<told, excused>>
          /\ UNCHANGED <<server, page, reading, cache, panel, badge, sse, failures, badgeFaults>>
        BY <1>3, Zenon DEF Recounts
    <2>2. UNCHANGED <<channel, truth, acked, marking, reads>>
        BY <2>1 DEF server
    <2>3. /\ task' \in [1..Slots -> [stage : {"idle", "loading", "asking"}, got : View, open : SUBSET Keys]]
          /\ inflight' \in 0..Slots /\ RunIsExplained'
          /\ recon' \in [wait : 0..Slots, last : [Keys -> (0 - 1)..MaxNews]]
          /\ told' \in BOOLEAN /\ excused' \in BOOLEAN
        <3>1. recon \in [wait : 0..Slots, last : [Keys -> (0 - 1)..MaxNews]] /\ told \in BOOLEAN /\ excused \in BOOLEAN
              /\ cache.view \in View
            BY <1>1 DEF BadgeTypeOK
        <3>2. CASE Joins /\ recon' = [recon EXCEPT !.wait = inflight] /\ UNCHANGED <<told, excused>>
            BY <1>1, <2>2, <3>1, <3>2 DEF Joins, BadgeTypeOK, BadgeInv, RunIsExplained
        <3>3. CASE Cached /\ Compares(cache.view)
            <4>1. /\ recon' \in [wait : 0..Slots, last : [Keys -> (0 - 1)..MaxNews]]
                  /\ told' \in BOOLEAN /\ excused' \in BOOLEAN
                BY <1>1, <3>1, <3>3, ComparesType
            <4> QED
                BY <1>1, <2>2, <3>3, <4>1 DEF Cached, BadgeTypeOK, BadgeInv, RunIsExplained
        <3>4. ASSUME NEW t \in IdleSlots, Starts(t), recon' = [recon EXCEPT !.wait = t], UNCHANGED <<told, excused>>
              PROVE  /\ task' \in [1..Slots -> [stage : {"idle", "loading", "asking"}, got : View, open : SUBSET Keys]]
                     /\ inflight' \in 0..Slots /\ RunIsExplained'
                     /\ recon' \in [wait : 0..Slots, last : [Keys -> (0 - 1)..MaxNews]]
                     /\ told' \in BOOLEAN /\ excused' \in BOOLEAN
            <4>1. t \in 1..Slots /\ t \in 0..Slots
                BY BadgeAssumption DEF IdleSlots
            <4>2. recon' \in [wait : 0..Slots, last : [Keys -> (0 - 1)..MaxNews]]
                BY <3>1, <3>4, <4>1
            <4> QED
                BY <2>2, <3>1, <3>4, <4>1, <4>2, StartsKeeps
        <3> QED
            BY <2>1, <3>2, <3>3, <3>4
    <2>4. BadgeTypeOK'
        BY <1>1, <2>1, <2>2, <2>3 DEF BadgeTypeOK
    <2>5. FloorsAreReal' /\ OldCountsAreExplained' /\ CacheIsExplained' /\ ReadingsAreExplained'
          /\ FailuresAreCounted'
        BY <2>1, <2>2 DEF BadgeInv, FloorsAreReal, OldCountsAreExplained, CacheIsExplained,
                          ReadingsAreExplained, FailuresAreCounted
    <2> QED
        BY <2>3, <2>4, <2>5 DEF BadgeInv
<1> QED
    BY <1>2, <1>3

\* GET /unread reaches the host.
LEMMA ServedStep == ASSUME BadgeInv, PanelServed PROVE BadgeInv'
<1>1. BadgeTypeOK
    BY DEF BadgeInv
<1>2. /\ \/ Joins /\ panel' = [panel EXCEPT !.stage = "waiting", !.wait = inflight]
         \/ Cached /\ panel' = [panel EXCEPT !.stage = "answered", !.view = cache.view]
         \/ \E t \in IdleSlots : Starts(t) /\ panel' = [panel EXCEPT !.stage = "waiting", !.wait = t]
      /\ UNCHANGED <<server, page, reading, cache, recon, badge, sse, failures, told, excused, badgeFaults>>
    BY Zenon DEF PanelServed
<1>3. UNCHANGED <<channel, truth, acked, marking, reads>>
    BY <1>2 DEF server
<1> DEFINE Panels == [stage : {"idle", "asked", "waiting", "answered"}, wait : 0..Slots, view : View,
                      floor : [Keys -> 0..MaxNews]]
           Tasks == [stage : {"idle", "loading", "asking"}, got : View, open : SUBSET Keys]
<1>4. panel \in Panels /\ cache.view \in View /\ inflight \in 0..Slots
    BY <1>1 DEF BadgeTypeOK
<1>5. /\ task' \in [1..Slots -> Tasks] /\ inflight' \in 0..Slots /\ RunIsExplained'
      /\ panel' \in Panels /\ panel'.floor = panel.floor
      /\ panel'.stage = "answered" => panel'.view = cache.view
    <2>1. CASE Joins /\ panel' = [panel EXCEPT !.stage = "waiting", !.wait = inflight]
        <3>1. panel' = [stage |-> "waiting", wait |-> inflight, view |-> panel.view, floor |-> panel.floor]
            BY <1>4, <2>1
        <3>2. panel' \in Panels /\ panel'.floor = panel.floor /\ panel'.stage # "answered"
            BY <1>4, <3>1
        <3> QED
            BY <1>1, <1>3, <2>1, <3>2 DEF Joins, BadgeTypeOK, BadgeInv, RunIsExplained
    <2>2. CASE Cached /\ panel' = [panel EXCEPT !.stage = "answered", !.view = cache.view]
        <3>1. panel' = [stage |-> "answered", wait |-> panel.wait, view |-> cache.view, floor |-> panel.floor]
            BY <1>4, <2>2
        <3>2. panel' \in Panels /\ panel'.floor = panel.floor /\ panel'.view = cache.view
            BY <1>4, <3>1
        <3> QED
            BY <1>1, <1>3, <2>2, <3>2 DEF Cached, BadgeTypeOK, BadgeInv, RunIsExplained
    <2>3. ASSUME NEW t \in IdleSlots, Starts(t), panel' = [panel EXCEPT !.stage = "waiting", !.wait = t]
          PROVE  /\ task' \in [1..Slots -> Tasks] /\ inflight' \in 0..Slots /\ RunIsExplained'
                 /\ panel' \in Panels /\ panel'.floor = panel.floor
                 /\ panel'.stage = "answered" => panel'.view = cache.view
        <3>1. t \in 1..Slots /\ t \in 0..Slots
            BY BadgeAssumption DEF IdleSlots
        <3>2. panel' = [stage |-> "waiting", wait |-> t, view |-> panel.view, floor |-> panel.floor]
            BY <1>4, <2>3
        <3>3. panel' \in Panels /\ panel'.floor = panel.floor /\ panel'.stage # "answered"
            BY <1>4, <3>1, <3>2
        <3> QED
            BY <1>3, <2>3, <3>1, <3>3, StartsKeeps
    <2> QED
        BY <1>2, <2>1, <2>2, <2>3
<1>6. BadgeTypeOK'
    BY <1>1, <1>2, <1>3, <1>5 DEF BadgeTypeOK
<1>7. FloorsAreReal' /\ CacheIsExplained' /\ ReadingsAreExplained' /\ FailuresAreCounted'
    BY <1>2, <1>3, <1>5 DEF BadgeInv, FloorsAreReal, CacheIsExplained, ReadingsAreExplained, FailuresAreCounted
<1>8. OldCountsAreExplained'
    <2> SUFFICES ASSUME NEW k \in Keys PROVE Explained(cache.view[k], panel.floor[k])
        BY <1>5 DEF OldCountsAreExplained
    <2>1. panel.floor[k] <= acked[k] /\ panel.floor[k] \in Nat /\ acked[k] \in Nat
        BY <1>1, VersionNumbers DEF BadgeInv, FloorsAreReal
    <2>2. Explained(cache.view[k], acked[k]) /\ cache.view[k] \in Value
        BY <1>4 DEF BadgeInv, CacheIsExplained, View
    <2> QED
        BY <2>1, <2>2, ExplainedFacts
<1> QED
    BY <1>5, <1>6, <1>7, <1>8 DEF BadgeInv

\* The panel and its event stream.
LEMMA PanelStep ==
  ASSUME BadgeInv, PanelHears \/ PanelTicks \/ PanelShows \/ PanelFails \/ StreamErrs \/ StreamReopens
  PROVE  BadgeInv'
<1>1. BadgeTypeOK
    BY DEF BadgeInv
<1> DEFINE Panels == [stage : {"idle", "asked", "waiting", "answered"}, wait : 0..Slots, view : View,
                      floor : [Keys -> 0..MaxNews]]
<1>2. panel \in Panels /\ acked \in [Keys -> 0..MaxNews]
    BY <1>1 DEF BadgeTypeOK
<1>3. ASSUME UNCHANGED <<server, host>>, panel' \in Panels,
             panel' = panel \/ (panel'.stage # "answered" /\ panel'.floor \in {acked, NoFloor}),
             badge' \in [Keys -> (0 - 1)..MaxNews], sse' \in {"open", "down", "timer"},
             failures' \in 0..GiveUpAfter, FailuresAreCounted', told' \in BOOLEAN, excused' \in BOOLEAN,
             badgeFaults' \in 0..MaxFaults
      PROVE  BadgeInv'
    <2>1. UNCHANGED <<channel, truth, acked, marking, reads, page, reading, task, inflight, cache, recon>>
        BY <1>3 DEF server, host
    <2>2. BadgeTypeOK'
        BY <1>1, <1>3, <2>1 DEF BadgeTypeOK
    <2>3. FloorsAreReal'
        BY <1>3, <2>1, FloorsFollow
    <2>4. OldCountsAreExplained'
        BY <1>3 DEF BadgeInv, OldCountsAreExplained
    <2> QED
        BY <1>3, <2>1, <2>2, <2>3, <2>4, AsideStep
<1>4. badge \in [Keys -> (0 - 1)..MaxNews] /\ sse \in {"open", "down", "timer"} /\ failures \in 0..GiveUpAfter
      /\ FailuresAreCounted /\ told \in BOOLEAN /\ excused \in BOOLEAN /\ badgeFaults \in 0..MaxFaults
    BY <1>1 DEF BadgeTypeOK, BadgeInv
<1>5. CASE PanelHears \/ PanelTicks
    <2>1. /\ Refreshes(acked) /\ UNCHANGED <<server, host, badge, sse, badgeFaults>>
          /\ told' \in BOOLEAN /\ (failures' = 0 \/ failures' = failures)
        BY <1>4, <1>5 DEF PanelHears, PanelTicks
    <2>2. failures' \in 0..GiveUpAfter /\ FailuresAreCounted'
        BY <1>4, <2>1, BadgeAssumption DEF FailuresAreCounted
    <2> QED
        BY <1>1, <1>2, <1>3, <1>4, <2>1, <2>2, RefreshesKeeps
<1>6. CASE PanelShows
    <2>1. /\ badge' = Versions(panel.view)
          /\ excused' = (excused \/ \E k \in Keys : panel.view[k].v < recon.last[k])
          /\ panel' = [panel EXCEPT !.stage = "idle", !.view = NoView, !.floor = NoFloor]
          /\ UNCHANGED <<server, host, sse, failures, told, badgeFaults>>
        BY <1>6 DEF PanelShows
    <2>2. panel' = [stage |-> "idle", wait |-> panel.wait, view |-> NoView, floor |-> NoFloor]
        BY <1>2, <2>1
    <2>3. panel' \in Panels /\ panel'.stage = "idle" /\ panel'.floor = NoFloor
        BY <1>2, <2>2, BadgeFacts
    <2>4. badge' \in [Keys -> (0 - 1)..MaxNews] /\ excused' \in BOOLEAN
        BY <1>2, <2>1, VersionsType
    <2>5. FailuresAreCounted'
        BY <1>4, <2>1 DEF FailuresAreCounted
    <2> QED
        BY <1>3, <1>4, <2>1, <2>3, <2>4, <2>5
<1>7. CASE PanelFails
    <2>1. /\ panel' = [panel EXCEPT !.stage = "idle", !.wait = 0, !.view = NoView, !.floor = NoFloor]
          /\ badgeFaults < MaxFaults /\ badgeFaults' = badgeFaults + 1 /\ excused' = TRUE
          /\ UNCHANGED <<server, host, badge, sse, failures, told>>
        BY <1>7 DEF PanelFails, Fault
    <2>2. panel' = [stage |-> "idle", wait |-> 0, view |-> NoView, floor |-> NoFloor]
        BY <1>2, <2>1
    <2>3. panel' \in Panels /\ panel'.stage = "idle" /\ panel'.floor = NoFloor
        BY <1>2, <2>2, BadgeFacts, BadgeAssumption
    <2>4. badgeFaults' \in 0..MaxFaults /\ FailuresAreCounted'
        BY <1>4, <2>1, BadgeAssumption DEF FailuresAreCounted
    <2> QED
        BY <1>3, <1>4, <2>1, <2>3, <2>4
<1>8. CASE StreamErrs
    <2>1. /\ sse # "timer" /\ failures' = failures + 1
          /\ sse' = (IF failures' >= GiveUpAfter THEN "timer" ELSE "down")
          /\ told' = FALSE /\ excused' = (excused \/ told)
          /\ UNCHANGED <<server, host, panel, badge, badgeFaults>>
        BY <1>8 DEF StreamErrs, GivesUp
    <2>2. failures' \in 0..GiveUpAfter /\ FailuresAreCounted'
        BY <1>4, <2>1, BadgeAssumption DEF FailuresAreCounted
    <2> QED
        BY <1>2, <1>3, <1>4, <2>1, <2>2
<1>9. CASE StreamReopens
    <2>1. sse = "down" /\ sse' = "open" /\ UNCHANGED <<server, host, panel, badge, failures, told, excused, badgeFaults>>
        BY <1>9 DEF StreamReopens
    <2>2. FailuresAreCounted'
        BY <1>4, <2>1 DEF FailuresAreCounted
    <2> QED
        BY <1>2, <1>3, <1>4, <2>1, <2>2
<1> QED
    BY <1>5, <1>6, <1>7, <1>8, <1>9

LEMMA BadgeInvStep == BadgeInv /\ [BadgeNext]_badgeVars => BadgeInv'
<1> SUFFICES ASSUME BadgeInv, [BadgeNext]_badgeVars PROVE BadgeInv'
    OBVIOUS
<1>1. CASE UNCHANGED badgeVars
    <2>1. /\ UNCHANGED <<server, reading, task, inflight, cache, panel, badge, sse, failures, told, excused, page, recon,
                         badgeFaults>>
          /\ UNCHANGED <<channel, truth, acked, marking, reads>>
        BY <1>1 DEF badgeVars, server
    <2>2. BadgeTypeOK' /\ FloorsAreReal' /\ OldCountsAreExplained' /\ FailuresAreCounted'
        BY <2>1 DEF BadgeInv, BadgeTypeOK, FloorsAreReal, OldCountsAreExplained, FailuresAreCounted
    <2> QED
        BY <2>1, <2>2, AsideStep
<1>2. CASE BadgeHost
    <2>1. ASSUME NEW k \in Keys, AcksHere(k) \/ PageAnswered(k) \/ PageNoted(k) PROVE BadgeInv'
        BY <2>1, AcksStep, PushStep
    <2>2. ASSUME NEW t \in 1..Slots, Picks(t) \/ Arrives(t) \/ \E k \in Keys : RestAnswers(t, k) PROVE BadgeInv'
        BY <2>2, RunStep
    <2> QED
        BY <1>2, <2>1, <2>2, DiffStep DEF BadgeHost
<1>3. CASE BadgePanel
    BY <1>3, ServedStep, PanelStep DEF BadgePanel
<1>4. CASE BadgeWorld
    <2>1. ASSUME NEW k \in Keys, ChangesElsewhere(k) \/ MarksHere(k) \/ ReadingLost(k) PROVE BadgeInv'
        BY <2>1, ServerStep, PushStep
    <2>2. ASSUME NEW t \in 1..Slots, NEW k \in Keys, RestFails(t, k) PROVE BadgeInv'
        BY <2>2, RunStep
    <2> QED
        BY <1>4, <2>1, <2>2, PanelStep DEF BadgeWorld
<1> QED
    BY <1>1, <1>2, <1>3, <1>4 DEF BadgeNext

\* The types of the badge's module.
THEOREM BadgeTypes == BadgeSpec => []BadgeTypeOK
<1>1. BadgeInv => BadgeTypeOK
    BY DEF BadgeInv
<1> QED
    BY <1>1, BadgeInvInit, BadgeInvStep, PTL DEF BadgeSpec

\* For any number of mailboxes, runs, reads and faults: the answer to an ask made after a read was
\* acknowledged counts that read, or rests on a daemon's reading, a page that crossed the read
\* or a run the read overtook (invalidateUnreadCache and computeUnread of http.ts).
THEOREM OldCountsHaveReasons == BadgeSpec => []OldCountsAreExplained
<1>1. BadgeInv => OldCountsAreExplained
    BY DEF BadgeInv
<1> QED
    BY <1>1, BadgeInvInit, BadgeInvStep, PTL DEF BadgeSpec

=============================================================================
