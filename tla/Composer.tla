------------------------------ MODULE Composer ------------------------------
(***************************************************************************)
(* The composer of the browser panel (send, setCompose, openCompose,       *)
(* composeTo and replyTo of client/store.ts): a draft, the idempotency key *)
(* kept for it, one request at a time, and the mail server, which delivers *)
(* one letter per key whenever a request reaches it.                       *)
(***************************************************************************)
EXTENDS Integers, FiniteSets

CONSTANTS MaxDrafts,    \* bound: contents a draft takes
          MaxKeys,      \* bound: idempotency keys made
          MaxTouches    \* bound: edits and openings

ASSUME ComposerAssumption == MaxDrafts \in Nat /\ MaxKeys \in Nat /\ MaxTouches \in Nat

VARIABLES draft,        \* the content of the draft, 0 when it is empty
          drafts,       \* contents written so far
          key,          \* sendIdempotencyKey, 0 for undefined
          keys,         \* keys made so far
          touches,      \* history: how often the composer was edited or opened
          sending,      \* the request under way, with its key, or NoRequest
          onWire,       \* requests the server may still receive
          delivered     \* the letters delivered

composerVars == <<draft, drafts, key, keys, touches, sending, onWire, delivered>>

Request == [draft : 1..MaxDrafts, key : 1..MaxKeys, touch : 0..MaxTouches]
NoRequest == [draft |-> 0, key |-> 0, touch |-> 0]

ComposerInit ==
  /\ draft = 0 /\ drafts = 0 /\ key = 0 /\ keys = 0 /\ touches = 0
  /\ sending = NoRequest /\ onWire = {} /\ delivered = {}

\* setCompose: a new content.
Edits ==
  /\ drafts < MaxDrafts /\ touches < MaxTouches
  /\ drafts' = drafts + 1 /\ draft' = drafts + 1
  /\ key' = 0 /\ touches' = touches + 1
  /\ UNCHANGED <<keys, sending, onWire, delivered>>

\* openCompose, composeTo, replyTo: the text of the draft stays, the key goes.
Reopens ==
  /\ touches < MaxTouches
  /\ key' = 0 /\ touches' = touches + 1
  /\ UNCHANGED <<draft, drafts, keys, sending, onWire, delivered>>

\* The button is closed while a request is under way.
Sends ==
  /\ draft # 0 /\ sending = NoRequest
  /\ key' = IF key = 0 THEN keys + 1 ELSE key
  /\ keys' = IF key = 0 THEN keys + 1 ELSE keys
  /\ keys' <= MaxKeys
  /\ sending' = [draft |-> draft, key |-> key', touch |-> touches]
  /\ onWire' = onWire \union {sending'}
  /\ UNCHANGED <<draft, drafts, touches, delivered>>

\* The host passes the letter on, also when the panel has stopped waiting for it.
Delivers(r) ==
  /\ r \in onWire
  /\ onWire' = onWire \ {r}
  /\ delivered' = IF \E l \in delivered : l.key = r.key THEN delivered ELSE delivered \union {r}
  /\ UNCHANGED <<draft, drafts, key, keys, touches, sending>>

Lost(r) ==
  /\ r \in onWire /\ onWire' = onWire \ {r}
  /\ UNCHANGED <<draft, drafts, key, keys, touches, sending, delivered>>

Succeeds ==
  /\ sending # NoRequest /\ sending \notin onWire
  /\ \E l \in delivered : l.key = sending.key
  /\ key' = 0 /\ draft' = 0 /\ sending' = NoRequest
  /\ UNCHANGED <<drafts, keys, touches, onWire, delivered>>

\* Slip: a failed request takes its key with it.
SendFails_Rekeys ==
  /\ sending # NoRequest /\ sending' = NoRequest /\ key' = 0
  /\ UNCHANGED <<draft, drafts, keys, touches, onWire, delivered>>

\* An error or a timeout, whatever became of the request: the draft and its key stay.
SendFails ==
  /\ sending # NoRequest /\ sending' = NoRequest
  /\ UNCHANGED <<draft, drafts, key, keys, touches, onWire, delivered>>

ComposerNext == \/ Edits \/ Reopens \/ Sends \/ Succeeds \/ SendFails
                \/ \E r \in onWire : Delivers(r) \/ Lost(r)
ComposerSpec == ComposerInit /\ [][ComposerNext]_composerVars

-----------------------------------------------------------------------------
ComposerTypeOK ==
  /\ draft \in 0..MaxDrafts /\ drafts \in 0..MaxDrafts /\ draft <= drafts
  /\ key \in 0..keys /\ keys \in 0..MaxKeys /\ touches \in 0..MaxTouches
  /\ sending \in Request \union {NoRequest}
  /\ onWire \subseteq Request /\ delivered \subseteq Request

\* A draft sent again and again, without a touch between, is delivered at most once, also
\* when an answer was lost and the request before it arrives late.
RetriesDeliverOnce ==
  \A l, m \in delivered : l.draft = m.draft /\ l.touch = m.touch => l = m

\* What the comment in send says: a new key only when the draft has changed.
DraftIsDeliveredOnce == \A l, m \in delivered : l.draft = m.draft => l = m
=============================================================================
