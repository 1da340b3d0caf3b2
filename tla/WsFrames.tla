------------------------------ MODULE WsFrames ------------------------------
(***************************************************************************)
(* One WebSocket connection of the daemon, from bytes to texts: the frame  *)
(* parser, the putting together of fragments, and the chunk that comes     *)
(* with the tail of the handshake (wsclient.ts).                           *)
(*                                                                         *)
(* The server's frames come in chunks cut anywhere.  A frame has two       *)
(* pieces, its header and its payload, and a chunk is a number of pieces;  *)
(* a message is a number, and its fragments are <<message, fragment>>.     *)
(***************************************************************************)
EXTENDS Naturals, Sequences, FiniteSetsExt

CONSTANTS MaxFrames,        \* bound: frames the server sends
          Ceiling           \* MAX_MESSAGE_BYTES, in fragments

ASSUME FramesAssumption == MaxFrames \in Nat /\ Ceiling \in Nat \ {0}

VARIABLES script,           \* the server: every frame it sent
          arrived,          \* pieces that arrived
          parsed,           \* frames the parser has handed on
          upgraded, ended,  \* the connection: it is there, it has ended
          fragments, texts, \* this.fragments, and the texts ontext was given
          inTail, spoiled   \* history: messages whole in the tail; in a chunk that could not be parsed

framesVars == <<script, arrived, parsed, upgraded, ended, fragments, texts, inTail, spoiled>>

Data == {"text", "binary", "cont"}
\* huge: longer than the parser takes, by its header; odd: an opcode it does not know.
Kinds == Data \union {"ping", "close", "huge", "odd"}

FramesInit == /\ script = <<>> /\ arrived = 0 /\ parsed = 0 /\ upgraded = FALSE /\ ended = FALSE
              /\ fragments = <<>> /\ texts = <<>> /\ inTail = {} /\ spoiled = {}

-----------------------------------------------------------------------------
(* The server *)

DataFrames == {j \in DOMAIN script : script[j].kind \in Data}
LastData == IF DataFrames = {} THEN [kind |-> "ping", fin |-> TRUE, msg |-> 0, nr |-> 1] ELSE script[Max(DataFrames)]

\* A message is one frame, or fragments with control frames between them; nothing follows a close.
Sends ==
  /\ Len(script) < MaxFrames /\ \A k \in DOMAIN script : script[k].kind # "close"
  /\ \E kind \in Kinds, fin \in BOOLEAN :
       /\ kind \in Data => (kind = "cont" <=> ~LastData.fin)
       /\ kind \notin Data => fin
       /\ script' = Append(script, [kind |-> kind, fin |-> fin,
                                    msg |-> IF kind \notin Data THEN 0
                                            ELSE LastData.msg + IF kind = "cont" THEN 0 ELSE 1,
                                    nr |-> IF kind = "cont" THEN LastData.nr + 1 ELSE 1])
  /\ UNCHANGED <<arrived, parsed, upgraded, ended, fragments, texts, inTail, spoiled>>

-----------------------------------------------------------------------------
(* WsConnection *)

\* FrameParser.push, when n pieces have arrived: it throws, and loses the frames before with it.
Unparsable(n) == \E k \in parsed + 1..(n + 1) \div 2 : script[k].kind = "huge"
Parsed(n) == parsed + 1..n \div 2

\* A message that is whole with f.  What a fragmented message is goes by its last frame.
\* Slip: the fragments of what is not for us stay.
Whole_Binary(s, f, listening) ==
  IF f.kind = "binary" THEN s
  ELSE [s EXCEPT !.fragments = <<>>, !.texts = IF listening THEN Append(@, s.fragments) ELSE @]
Whole(s, f, listening) ==
  [s EXCEPT !.fragments = <<>>,
            !.texts = IF f.kind # "binary" /\ listening THEN Append(@, s.fragments) ELSE @]

\* handleFrame.  After a close the rest of the chunk is handled all the same.
Handle(s, f, listening) ==
  IF s.thrown \/ f.kind = "odd" \/ (f.kind \in Data /\ Len(s.fragments) = Ceiling)
  THEN [s EXCEPT !.thrown = TRUE, !.ended = TRUE, !.lost = @ \union {f.msg}]
  ELSE IF f.kind = "ping" THEN s
  ELSE IF f.kind = "close" THEN [s EXCEPT !.ended = TRUE]
  ELSE LET more == [s EXCEPT !.fragments = Append(@, <<f.msg, f.nr>>)]
       IN IF f.fin THEN Whole(more, f, listening) ELSE more

Now == [fragments |-> fragments, texts |-> texts, ended |-> FALSE, thrown |-> FALSE, lost |-> {}]

\* What the parser handed on is handled in turn.
Handled(n, listening) ==
  LET after[k \in 0..n] == IF k = 0 THEN Now ELSE Handle(after[k - 1], script[parsed + k], listening)
  IN after[n]

\* onData, for the next n pieces; `listening' once there is an ontext.
Receives(n, listening) ==
  LET upTo == arrived + n
      s == Handled(Cardinality(Parsed(upTo)), listening)
      lastWords == {script[k].msg : k \in {j \in Parsed(upTo) : script[j].fin}}
  IN /\ upTo <= 2 * Len(script) /\ arrived' = upTo
     /\ IF Unparsable(upTo)
        THEN /\ ended' = TRUE /\ spoiled' = spoiled \union lastWords
             /\ UNCHANGED <<parsed, fragments, texts>>
        ELSE /\ parsed' = upTo \div 2 /\ fragments' = s.fragments /\ texts' = s.texts /\ ended' = s.ended
             /\ spoiled' = spoiled \union s.lost
     /\ inTail' = IF listening THEN inTail ELSE inTail \union lastWords

\* The answer to the handshake, and what came with it: nobody listens before the promise's turn.
Upgrades ==
  /\ ~upgraded /\ upgraded' = TRUE
  /\ \E n \in 0..2 * MaxFrames : Receives(n, FALSE)
  /\ UNCHANGED script

ChunkComes ==
  /\ upgraded /\ ~ended
  /\ \E n \in 1..2 * MaxFrames : Receives(n, TRUE)
  /\ UNCHANGED <<script, upgraded>>

FramesNext == Sends \/ Upgrades \/ ChunkComes
FramesSpec == FramesInit /\ [][FramesNext]_framesVars

-----------------------------------------------------------------------------
Frames == [kind : Kinds, fin : BOOLEAN, msg : 0..MaxFrames, nr : 1..MaxFrames]

FramesTypeOK ==
  /\ script \in Seq(Frames) /\ Len(script) <= MaxFrames
  /\ arrived \in 0..2 * Len(script) /\ parsed \in 0..Len(script)
  /\ {upgraded, ended} \subseteq BOOLEAN
  /\ fragments \in Seq(Nat \X Nat) /\ Len(fragments) <= Ceiling
  /\ texts \in Seq(Seq(Nat \X Nat))
  /\ inTail \union spoiled \subseteq 0..MaxFrames

\* The fragments of the message that ends with f.
FragmentsOf(f) == [i \in 1..f.nr |-> <<f.msg, i>>]
Ends == {script[j] : j \in {k \in DataFrames : script[k].fin}}

Heard == {texts[k][1][1] : k \in DOMAIN texts}
\* A message is what its first frame says, and it is here when its last frame is.
Binary == {script[j].msg : j \in {k \in DataFrames : script[k].kind = "binary"}}
TextsHere == {script[j].msg : j \in {k \in 1..arrived \div 2 : script[k] \in Ends}} \ Binary

\* However the stream is cut: what is heard is a message whole, each once and in its turn, and every
\* text that is here was heard unless it came with the handshake or in a chunk that broke the connection.
TextsAreHeard ==
  /\ \A k \in DOMAIN texts : \E f \in Ends : texts[k] = FragmentsOf(f)
  /\ \A j, k \in DOMAIN texts : j < k => texts[j][1][1] < texts[k][1][1]
  /\ TextsHere \subseteq Heard \union inTail \union spoiled

\* The comment at the end of connectWebSocket: what came with the handshake belongs to the stream.
TailIsHeard == TextsHere \subseteq Heard \union spoiled
\* The comment in handleFrame: msg9 speaks JSON text only.
BinaryIsNotHeard == Heard \cap Binary = {}
=============================================================================
