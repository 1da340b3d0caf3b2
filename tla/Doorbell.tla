------------------------------- MODULE Doorbell -------------------------------
(***************************************************************************)
(* The doorbell of one inbox: the WebSocket loop of InboxRunner with its   *)
(* close-waiter, the connection it holds, the watchdog, and the fetch its  *)
(* events trigger (src/host/daemon/engine.ts: start, stop, loop, attachWs, *)
(* releaseWs, fetchNew; src/host/daemon/wsclient.ts: WsConnection,         *)
(* connectWebSocket).                                                      *)
(*                                                                         *)
(* An action is the code between two awaits, or one event of the socket or *)
(* of a timer.  What a fetch does with the letters is WatcherDaemon's      *)
(* matter; here it notes how far it has read.  Tickets, frame encoding and *)
(* the length of the backoff are left out; pings and pongs show only in    *)
(* the watchdog, which fires on a connection that has gone silent.  The    *)
(* identity of a runner disappears in the step that stops the runner.      *)
(***************************************************************************)
EXTENDS Integers

CONSTANTS
    MaxMail,      \* bound: letters that ever arrive
    MaxBreaks,    \* bound: failures of the connection, of a handshake or of a request
    Unanswered    \* may a peer end a handshake without an answer?

ASSUME BoundsAssumption == MaxMail \in Nat /\ MaxBreaks \in Nat /\ Unanswered \in BOOLEAN

VARIABLES
    pc,           \* where loop() awaits
    wire,         \* the TCP connection behind the newest WsConnection
    attached,     \* its handlers are installed
    held,         \* this.ws is this connection
    waiter,       \* this.wsWaiter: "none", or "armed"
    released,     \* the promise `closed` of this round is resolved
    watchdog,     \* the watchdog interval runs
    safety,       \* the safety-net interval runs
    stopped,      \* stop() was called: this.stopped, and the abort signal
    fetch,        \* the fetch pass: its pc, fetchAgain, who awaits it, its answer
    mail,         \* letters the server has stored
    fetched,      \* letters known to the daemon
    frame,        \* a new_message frame is on the wire
    breaks        \* failures so far

connection == <<wire, attached, held, waiter, released, watchdog>>
letters == <<mail, fetched>>
vars == <<pc, connection, safety, stopped, fetch, letters, frame, breaks>>

NoFetch == [pc |-> "idle", again |-> FALSE, loop |-> FALSE, got |-> 0]

\* start(): the loop and the safety net.
Init ==
    /\ pc = "ticket"
    /\ wire = "none" /\ attached = FALSE /\ held = FALSE
    /\ waiter = "none" /\ released = FALSE /\ watchdog = FALSE
    /\ safety = TRUE /\ stopped = FALSE
    /\ fetch = NoFetch
    /\ mail = 0 /\ fetched = 0 /\ frame = FALSE
    /\ breaks = 0

Break == breaks < MaxBreaks /\ breaks' = breaks + 1

----------------------------------------------------------------------------
(* fetchNew: not reentrant, concurrent triggers collapse into one more     *)
(* pass.                                                                   *)

\* fetchNew(trigger); `loop`: the loop awaits the call.
FetchNew(loop) ==
    fetch' = IF stopped THEN fetch
             ELSE IF fetch.pc = "idle" THEN [NoFetch EXCEPT !.pc = "ask", !.loop = loop]
             ELSE [fetch EXCEPT !.again = TRUE]

fetchRest == <<pc, connection, safety, stopped, mail, frame>>

\* listInbox is answered by what is stored now ...
FetchAnswered ==
    /\ fetch.pc = "ask"
    /\ fetch' = [fetch EXCEPT !.pc = "read", !.got = mail]
    /\ UNCHANGED <<fetchRest, fetched, breaks>>

\* ... and the pass goes on with it; a trigger that came meanwhile asks again.
FetchRead ==
    /\ fetch.pc = "read"
    /\ fetched' = fetch.got
    /\ fetch' = IF fetch.again /\ ~stopped
                THEN [fetch EXCEPT !.pc = "ask", !.again = FALSE, !.got = 0]
                ELSE NoFetch
    /\ UNCHANGED <<fetchRest, mail, breaks>>

\* Slip: `fetching` is not reset on the way out of an exception.
FetchFails_Stuck ==
    /\ fetch.pc = "ask" /\ Break
    /\ fetch' = [fetch EXCEPT !.pc = "stuck", !.loop = FALSE]
    /\ UNCHANGED <<fetchRest, fetched>>

\* A request fails or times out: the exception ends the do-while, extra pass
\* included, and the finally resets `fetching`.
FetchFails ==
    /\ fetch.pc = "ask" /\ Break
    /\ fetch' = NoFetch
    /\ UNCHANGED <<fetchRest, fetched>>

\* The safety-net interval.
SafetyNet ==
    /\ safety
    /\ FetchNew(FALSE) /\ fetch' # fetch
    /\ UNCHANGED <<pc, connection, safety, stopped, letters, frame, breaks>>

----------------------------------------------------------------------------
(* The connection: WsConnection, attachWs, releaseWs.                      *)

\* releaseWs: clears the watchdog, forgets the connection, wakes the waiter.
Release ==
    /\ watchdog' = FALSE
    /\ held' = FALSE
    /\ waiter' = "none"
    /\ released' = (released \/ waiter = "armed")

\* The connection closes: `closed` is set once, and onclose, if it is
\* installed, releases.
Close ==
    /\ wire' = "closed"
    /\ IF attached THEN Release /\ UNCHANGED attached
       ELSE UNCHANGED <<attached, held, waiter, released, watchdog>>

Connected == wire \in {"open", "silent"}

connRest == <<pc, safety, stopped, fetch, letters>>

\* The peer closes, the socket errs, or a frame is malformed: onerror destroys,
\* a close frame finishes, and what was on the wire is lost.
ConnectionCloses ==
    /\ wire = "open" /\ Break
    /\ Close
    /\ frame' = FALSE
    /\ UNCHANGED connRest

\* The network goes away without a word.
ConnectionGoesSilent ==
    /\ wire = "open" /\ Break
    /\ wire' = "silent" /\ frame' = FALSE
    /\ UNCHANGED <<connRest, attached, held, waiter, released, watchdog>>

\* Slip: the watchdog lets go of the connection but leaves the socket open.
WatchdogFires_Releases ==
    /\ watchdog /\ wire = "silent"
    /\ Release /\ UNCHANGED <<wire, attached>>
    /\ UNCHANGED <<connRest, frame, breaks>>

\* The watchdog: no frame for wsWatchdogMs.
WatchdogFires ==
    /\ watchdog /\ wire = "silent"
    /\ Close
    /\ UNCHANGED <<connRest, frame, breaks>>

\* A new_message frame: with its handler installed it triggers a fetch, else
\* (the tail of the handshake) it is dropped.
PushArrives ==
    /\ frame /\ wire = "open"
    /\ frame' = FALSE
    /\ IF attached THEN FetchNew(FALSE) ELSE UNCHANGED fetch
    /\ UNCHANGED <<pc, connection, safety, stopped, letters, breaks>>

\* Pushing is best effort.
PushIsLost ==
    /\ frame /\ Break
    /\ frame' = FALSE
    /\ UNCHANGED <<pc, connection, safety, stopped, fetch, letters>>

\* The server stores a letter and pushes it to whoever is connected.
Arrive ==
    /\ mail < MaxMail /\ mail' = mail + 1
    /\ frame' = (frame \/ wire = "open")
    /\ UNCHANGED <<pc, connection, safety, stopped, fetch, fetched, breaks>>

----------------------------------------------------------------------------
(* The loop.                                                               *)

loopRest == <<safety, stopped, letters, frame>>

\* The finally of a round, then the condition of the loop.
NextRound == pc' = IF stopped THEN "done" ELSE "ticket"

\* issueWsTicket.
TicketIssued ==
    /\ pc = "ticket" /\ ~stopped
    /\ pc' = "connect" /\ wire' = "handshake" /\ attached' = FALSE
    /\ UNCHANGED <<loopRest, held, waiter, released, watchdog, fetch, breaks>>

\* The catch of a round: it backs off unless the runner is stopped.
RoundFails ==
    /\ pc' = IF stopped THEN "done" ELSE "backoff"
    /\ Release
    /\ UNCHANGED <<loopRest, attached, fetch>>

\* The ticket is refused, or the abort signal ends the request.
TicketFails ==
    /\ pc = "ticket"
    /\ IF stopped THEN UNCHANGED breaks ELSE Break
    /\ wire' = wire
    /\ RoundFails

\* Slip: the abort signal does not reach a handshake that has ended.
HandshakeFails_Deaf ==
    /\ pc = "connect" /\ wire = "handshake"
    /\ IF stopped THEN UNCHANGED breaks ELSE Break
    /\ wire' = "closed"
    /\ RoundFails

\* The handshake is refused, errs, times out or is aborted: connectWebSocket
\* rejects.
HandshakeFails ==
    /\ pc = "connect" /\ (wire = "handshake" \/ stopped)
    /\ IF stopped THEN UNCHANGED breaks ELSE Break
    /\ wire' = "closed"
    /\ RoundFails

\* The peer ends the stream before its answer is complete.  The socket closes
\* without an error, which also clears its timeout: nothing is left that would
\* settle the promise, only stop() aborts it.
HandshakeEndsUnanswered ==
    /\ pc = "connect" /\ wire = "handshake" /\ Unanswered /\ Break
    /\ wire' = "closed"
    /\ UNCHANGED <<pc, loopRest, attached, held, waiter, released, watchdog, fetch>>

\* HTTP 101.
HandshakeDone ==
    /\ pc = "connect" /\ wire = "handshake" /\ ~stopped
    /\ pc' = "attach" /\ wire' = "open"
    /\ UNCHANGED <<loopRest, attached, held, waiter, released, watchdog, fetch, breaks>>

\* Stopped while connecting: the loop destroys the connection and returns.
AttachStopped ==
    /\ pc = "attach" /\ stopped
    /\ pc' = "done"
    /\ wire' = "closed" /\ frame' = FALSE
    /\ Release
    /\ UNCHANGED <<safety, stopped, letters, attached, fetch, breaks>>

\* Slip: attachWs goes on after a connection that is closed already.
Attach_Dead ==
    /\ pc = "attach" /\ ~stopped
    /\ attached' = TRUE
    /\ IF wire = "closed" THEN held' = FALSE /\ waiter' = "none" /\ released' = TRUE
       ELSE held' = TRUE /\ waiter' = "armed" /\ released' = FALSE
    /\ watchdog' = TRUE
    /\ FetchNew(TRUE)
    /\ pc' = IF fetch'.loop THEN "catchup" ELSE "caughtup"
    /\ UNCHANGED <<loopRest, wire, breaks>>

\* Slip: attachWs does not look whether the connection is closed already.
Attach_Blind ==
    /\ pc = "attach" /\ ~stopped
    /\ attached' = TRUE
    /\ held' = TRUE /\ waiter' = "armed" /\ released' = FALSE /\ watchdog' = TRUE
    /\ FetchNew(TRUE)
    /\ pc' = IF fetch'.loop THEN "catchup" ELSE "caughtup"
    /\ UNCHANGED <<loopRest, wire, breaks>>

\* Slip: the waiter is armed only after the catch-up.
Attach_Unwatched ==
    /\ pc = "attach" /\ ~stopped
    /\ attached' = TRUE
    /\ waiter' = "none" /\ released' = FALSE
    /\ held' = (wire # "closed") /\ watchdog' = (wire # "closed")
    /\ FetchNew(TRUE)
    /\ pc' = IF fetch'.loop THEN "catchup" ELSE "caughtup"
    /\ UNCHANGED <<loopRest, wire, breaks>>

\* Arm the waiter, install the handlers, start the watchdog, catch up.  For a
\* connection that has closed already attachWs releases at once, and returns.
Attach ==
    /\ pc = "attach" /\ ~stopped
    /\ attached' = TRUE
    /\ IF wire = "closed"
       THEN held' = FALSE /\ waiter' = "none" /\ released' = TRUE /\ watchdog' = FALSE
       ELSE held' = TRUE /\ waiter' = "armed" /\ released' = FALSE /\ watchdog' = TRUE
    /\ FetchNew(TRUE)
    /\ pc' = IF fetch'.loop THEN "catchup" ELSE "caughtup"
    /\ UNCHANGED <<loopRest, wire, breaks>>

\* After the catch-up, its own or one already under way: return, reconnect if
\* the connection was released meanwhile, or park.
CaughtUp ==
    /\ pc = "caughtup" \/ (pc = "catchup" /\ ~fetch.loop)
    /\ IF ~stopped /\ held
       THEN pc' = "park" /\ UNCHANGED <<held, waiter, released, watchdog>>
       ELSE NextRound /\ Release
    /\ UNCHANGED <<loopRest, wire, attached, fetch, breaks>>

\* `await closed`, and the finally.
Unpark ==
    /\ pc = "park" /\ released
    /\ NextRound
    /\ Release
    /\ UNCHANGED <<loopRest, wire, attached, fetch, breaks>>

\* sleep(wait), cut short by the abort signal.
BackoffEnds ==
    /\ pc = "backoff"
    /\ NextRound
    /\ UNCHANGED <<loopRest, connection, fetch, breaks>>

\* stop(): abort, clear the timers, destroy the connection it holds, release.
Stop ==
    /\ ~stopped /\ stopped' = TRUE
    /\ safety' = FALSE
    /\ IF held THEN wire' = "closed" ELSE UNCHANGED wire
    /\ Release /\ frame' = (frame /\ ~held)
    /\ UNCHANGED <<pc, attached, fetch, letters, breaks>>

----------------------------------------------------------------------------

Fetching == FetchAnswered \/ FetchRead \/ FetchFails \/ SafetyNet
Connection == ConnectionCloses \/ ConnectionGoesSilent \/ WatchdogFires \/ PushArrives
              \/ PushIsLost \/ Arrive
Loop == \/ TicketIssued \/ TicketFails \/ HandshakeFails \/ HandshakeEndsUnanswered
        \/ HandshakeDone \/ AttachStopped \/ Attach \/ CaughtUp \/ Unpark \/ BackoffEnds

Next == Fetching \/ Connection \/ Loop \/ Stop

Spec == Init /\ [][Next]_vars

(* Fairness: an interval fires again, a request has a timeout and a        *)
(* handshake under way one too, a frame on a live wire arrives, and code   *)
(* whose promise is resolved runs.  Triggers do not fall into every pass   *)
(* for ever: the safety net's interval is longer than a pass.  Failures are bounded, so a ticket and  *)
(* a handshake succeed in the end; nothing is assumed of the peer of a     *)
(* handshake that has ended.                                               *)
Fairness ==
    /\ WF_vars(SafetyNet) /\ WF_vars(FetchAnswered) /\ WF_vars(FetchRead)
    /\ SF_vars(FetchAnswered /\ ~fetch.again) /\ SF_vars(FetchRead /\ ~fetch.again)
    /\ WF_vars(WatchdogFires) /\ WF_vars(PushArrives)
    /\ WF_vars(TicketIssued) /\ WF_vars(HandshakeDone) /\ WF_vars(AttachStopped)
    /\ WF_vars(stopped /\ (TicketFails \/ HandshakeFails))
    /\ WF_vars(Attach) /\ WF_vars(CaughtUp) /\ WF_vars(Unpark) /\ WF_vars(BackoffEnds)
FairSpec == Spec /\ Fairness

----------------------------------------------------------------------------
(* Properties.                                                             *)

LoopPcs == {"ticket", "connect", "attach", "catchup", "caughtup", "park", "backoff", "done"}
Fetches == [pc : {"idle", "ask", "read"}, again : BOOLEAN, loop : BOOLEAN, got : Nat]

CountTypes == mail \in 0..MaxMail /\ fetched \in Nat /\ breaks \in 0..MaxBreaks
StateTypes ==
    /\ pc \in LoopPcs /\ wire \in {"none", "handshake", "open", "silent", "closed"}
    /\ attached \in BOOLEAN /\ held \in BOOLEAN /\ waiter \in {"none", "armed"}
    /\ released \in BOOLEAN /\ watchdog \in BOOLEAN
    /\ safety \in BOOLEAN /\ stopped \in BOOLEAN /\ frame \in BOOLEAN

\* Every variable has its type.
TypeOK == CountTypes /\ StateTypes /\ fetch \in Fetches

\* A parked loop has been released, or somebody is left to release it: its
\* connection is up, with handlers and a watchdog, and its waiter armed
\* (the permanent hang the comment in loop() is about).
ParkedCanWake ==
    pc = "park" => released \/ (waiter = "armed" /\ held /\ attached /\ watchdog /\ Connected)

\* The watchdog never watches a dead connection: what it reports as silent was
\* alive once (attachWs).
WatchdogWatchesTheLiving == watchdog => held /\ attached /\ Connected

\* A round leaves nothing behind: before the next one no connection is up, held
\* or watched, and nobody waits for one (the finally of loop, releaseWs).
OneConnection ==
    /\ pc \in {"ticket", "connect", "backoff", "done"} => ~held /\ ~watchdog /\ waiter = "none"
    /\ pc \in {"ticket", "backoff", "done"} => ~Connected

\* Whatever happens to the connection, the loop can be woken, and a round ends with it let go.
BellIsWatched == ParkedCanWake /\ WatchdogWatchesTheLiving /\ OneConnection

\* The handshake that nothing will settle (connectWebSocket).
Unsettled == pc = "connect" /\ wire = "closed"

\* The bell is connected again and again, whatever breaks when: only stop(), or a handshake
\* that ends without an answer, ends that (loop); and once stop() was called, the loop and its
\* timers have ended wherever they were, and for good.
BellIsRestored ==
    /\ []<>((held /\ wire = "open") \/ stopped \/ Unsettled)
    /\ <>[](stopped => pc = "done" /\ fetch.pc = "idle" /\ ~Connected /\ ~watchdog /\ ~safety)

\* Every letter is fetched, bell or no bell: a push lost with its connection, or
\* whose fetch fails, is made good by the catch-up or the safety net.  (What has come stays, so
\* this is what leads from the one to the other.)
LettersAreFetched == \A m \in 1..MaxMail : []<>(mail >= m => fetched >= m \/ stopped)

----------------------------------------------------------------------------
(* Why the invariants hold: the connection, its watchdog and its waiter    *)
(* are held and let go together.                                           *)

Bound == held => /\ waiter = "armed" /\ ~released /\ watchdog
                 /\ attached /\ Connected /\ ~stopped
Free  == ~held => waiter = "none" /\ ~watchdog

LoopInOrder ==
    /\ pc \in {"ticket", "backoff", "done"} => ~held /\ ~Connected
    /\ pc \in {"connect", "attach"} => ~held /\ ~attached
    /\ pc = "connect" => ~Connected
    /\ pc = "attach" => wire \in {"open", "silent", "closed"}
    /\ pc \in {"catchup", "caughtup", "park"} => attached /\ (held \/ (released /\ ~Connected))

\* What every step of loop, attachWs and releaseWs preserves.
BellInv == TypeOK /\ Bound /\ Free /\ LoopInOrder
=============================================================================
