----------------------------- MODULE AgentMailbox -----------------------------
(***************************************************************************)
(* The mailbox as the agents' tools show it (tools.ts): msg9_inbox pulls   *)
(* what is new since a cursor, or since the newest letter of the pull      *)
(* before, and marks what it returns as read; msg9_done or a reply closes  *)
(* a letter.  The sessions of a workspace share that position, which is    *)
(* kept in the state file: a call reads it when it begins and writes it    *)
(* when the server has answered.                                           *)
(*                                                                         *)
(* The server is external: letters are numbered as they come, a page since *)
(* a cursor has the oldest rows after it, a page without one the newest.   *)
(* `passedOver' is history: letters a pull put behind the position without *)
(* showing them, for one of the reasons that are known.                    *)
(***************************************************************************)
EXTENDS Naturals, FiniteSets, FiniteSetsExt

CONSTANTS Sessions,         \* agent sessions of the workspace
          MaxArrivals,      \* bound: letters
          MaxLimit          \* bound: rows a call may ask for

ASSUME MailboxAssumption == MaxArrivals \in Nat /\ MaxLimit \in Nat \ {0}

Views == {"all", "read", "unread", "unprocessed"}
Idle == [pc |-> "idle"]

VARIABLES givesCursor,      \* the server gives a cursor without being asked from one
          arrived, readOnServer, closedOnServer,
          cursor, lastSeen, \* the state file: cursor and newest letter seen (0: none)
          call,             \* per session: the call under way
          pulled,           \* letters some session was shown
          passedOver        \* history

boxVars == <<givesCursor, arrived, readOnServer, closedOnServer, cursor, lastSeen, call, pulled,
             passedOver>>
onServer == <<givesCursor, arrived, readOnServer, closedOnServer>>
position == <<cursor, lastSeen>>

BoxInit ==
  /\ givesCursor \in BOOLEAN /\ arrived = 0 /\ readOnServer = {} /\ closedOnServer = {}
  /\ cursor = 0 /\ lastSeen = 0
  /\ call = [s \in Sessions |-> Idle] /\ pulled = {}
  /\ passedOver = {}

Becomes(s, c) == call' = [call EXCEPT ![s] = c]

-----------------------------------------------------------------------------
(* Others *)

LetterArrives ==
  /\ arrived < MaxArrivals /\ arrived' = arrived + 1
  /\ UNCHANGED <<givesCursor, readOnServer, closedOnServer, position, call, pulled, passedOver>>

\* In the panel, say.
HumanReads(m) ==
  /\ m \notin readOnServer /\ readOnServer' = readOnServer \union {m}
  /\ UNCHANGED <<givesCursor, arrived, closedOnServer, position, call, pulled, passedOver>>

-----------------------------------------------------------------------------
(* msg9_inbox *)

BySaved(view) == view # "unprocessed"

\* A call: a view, from the saved position or again from an earlier cursor
\* (msg9_status tells it), which moves the saved
\* one if the agent asks for it.  `unprocessed' neither goes by the saved position nor moves it.
BeginsPull(s) ==
  /\ call[s] = Idle
  /\ \E view \in Views, limit \in 1..MaxLimit :
       \/ Becomes(s, [pc |-> "ask", view |-> view, limit |-> limit, moves |-> BySaved(view),
                      since |-> IF BySaved(view) THEN cursor ELSE 0,
                      after |-> IF cursor = 0 /\ BySaved(view) THEN lastSeen ELSE 0])
       \/ \E since \in 1..cursor, advance \in BOOLEAN :
            Becomes(s, [pc |-> "ask", view |-> view, limit |-> limit, moves |-> advance,
                        since |-> since, after |-> 0])
  /\ UNCHANGED <<onServer, position, pulled, passedOver>>

InView(m, view) == CASE view = "all"         -> TRUE
                     [] view = "read"        -> m \in readOnServer
                     [] view = "unread"      -> m \notin readOnServer
                     [] view = "unprocessed" -> m \notin closedOnServer
Rows(view, since) == {m \in since + 1..arrived : InView(m, view)}
Oldest(S, k) == {m \in S : Cardinality({n \in S : n < m}) < k}
Newest(S, k) == {m \in S : Cardinality({n \in S : n > m}) < k}

\* The page, and the cursor that comes with it.
PullAnswered(s) ==
  /\ call[s].pc = "ask"
  /\ LET c == call[s]
         page == IF c.since > 0 THEN Oldest(Rows(c.view, c.since), c.limit) ELSE Newest(Rows(c.view, 0), c.limit)
     IN Becomes(s, [pc |-> "save", moves |-> c.moves /\ page # {}, all |-> c.view = "all",
                    short |-> c.since = 0 /\ Cardinality(page) = c.limit, after |-> c.after,
                    page |-> page, byCursor |-> c.since > 0 \/ givesCursor])
  /\ UNCHANGED <<onServer, position, pulled, passedOver>>

PullFails(s) ==
  /\ call[s].pc = "ask" /\ Becomes(s, Idle)
  /\ UNCHANGED <<onServer, position, pulled, passedOver>>

\* withoutSeen: the rows before the newest letter of the last pull, if that is among them.
\* Slip: the row next to it goes with it.
WithoutSeen_Short(page, after) == IF after \in page THEN {m \in page : m > after + 1} ELSE page
WithoutSeen(page, after) == IF after \in page THEN {m \in page : m > after} ELSE page

\* What a pull leaves behind its new position without having it in its page, if it was a pull
\* of a view other than all, or its page was too short to reach back to the last position.
LeftBehind(c) ==
  LET behind == (1..Max(c.page)) \ (c.page \union pulled)
  IN IF ~c.all THEN behind
     ELSE IF c.short /\ c.after \notin c.page THEN {m \in behind : m < Min(c.page)} ELSE {}

\* The position is written before anything is shown: the cursor, if there is one, else the
\* newest letter of the page - and then only what is newer than the last is shown.
SavesPosition(s) ==
  /\ call[s].pc = "save"
  /\ LET c == call[s]
     IN /\ Becomes(s, [pc |-> "mark",
                       rows |-> IF c.moves /\ ~c.byCursor THEN WithoutSeen(c.page, c.after) ELSE c.page])
        /\ IF c.moves
           THEN /\ IF c.byCursor
                   THEN cursor' = Max(c.page) /\ UNCHANGED lastSeen
                   ELSE lastSeen' = Max(c.page) /\ UNCHANGED cursor
                /\ passedOver' = passedOver \union LeftBehind(c)
           ELSE UNCHANGED <<position, passedOver>>
  /\ UNCHANGED <<onServer, pulled>>

\* Every unread row is marked as read, unless the agent only peeks (mark_read: false) or the
\* request fails, which is passed over.
PullShows(s) ==
  /\ call[s].pc = "mark" /\ Becomes(s, Idle)
  /\ pulled' = pulled \union call[s].rows
  /\ \E done \in SUBSET call[s].rows : readOnServer' = readOnServer \union done
  /\ UNCHANGED <<givesCursor, arrived, closedOnServer, position, passedOver>>

\* The call is called off, or its process ends, once the position is written.
PullIsLost(s) ==
  /\ call[s].pc = "mark" /\ Becomes(s, Idle)
  /\ passedOver' = passedOver \union (call[s].rows \ pulled)
  /\ UNCHANGED <<onServer, position, pulled>>

-----------------------------------------------------------------------------
(* msg9_done, msg9_send with reply_to *)

\* A letter that was shown is closed on the server, which makes it read as well; where the
\* server does not take that, it becomes read, or the server takes neither.
ClosesLetter(s, m) ==
  /\ call[s] = Idle /\ m \in pulled \ closedOnServer
  /\ \/ closedOnServer' = closedOnServer \union {m} /\ readOnServer' = readOnServer \union {m}
     \/ closedOnServer' = closedOnServer /\ readOnServer' \in {readOnServer, readOnServer \union {m}}
  /\ UNCHANGED <<givesCursor, arrived, position, call, pulled, passedOver>>

-----------------------------------------------------------------------------
BoxNext == \/ LetterArrives
           \/ \E m \in 1..arrived : HumanReads(m)
           \/ \E s \in Sessions : \/ BeginsPull(s) \/ PullAnswered(s) \/ PullFails(s)
                                  \/ SavesPosition(s) \/ PullShows(s) \/ PullIsLost(s)
                                  \/ \E m \in 1..arrived : ClosesLetter(s, m)
BoxSpec == BoxInit /\ [][BoxNext]_boxVars

Spots == 0..MaxArrivals
Calls == {Idle}
  \union [pc : {"ask"}, view : Views, limit : 1..MaxLimit, moves : BOOLEAN, since : Spots, after : Spots]
  \union [pc : {"save"}, moves : BOOLEAN, all : BOOLEAN, short : BOOLEAN, after : Spots,
          page : SUBSET (1..MaxArrivals), byCursor : BOOLEAN]
  \union [pc : {"mark"}, rows : SUBSET (1..MaxArrivals)]
BoxTypeOK ==
  /\ givesCursor \in BOOLEAN /\ arrived \in Spots
  /\ {readOnServer, closedOnServer, pulled, passedOver} \subseteq SUBSET (1..arrived)
  /\ cursor \in 0..arrived /\ lastSeen \in 0..arrived
  /\ call \in [Sessions -> Calls]

\* A letter behind the position the next pull starts from has been shown, or is in the hands of
\* a call that goes on to show it; or a pull of another view than all moved the position over
\* it, or a page without a cursor was too short for it, or the call that had it was lost.
StartsFrom == IF cursor # 0 THEN cursor ELSE lastSeen
InHands == UNION {call[s].rows : s \in {t \in Sessions : call[t].pc = "mark"}}
HiddenIsExplained == 1..StartsFrom \subseteq pulled \union InHands \union passedOver

\* What the tool says of itself: by default each call returns what is new.
DefaultPullsMissNothing == 1..StartsFrom \subseteq pulled \union InHands
=============================================================================
