----------------------------- MODULE LetterMarks -----------------------------
(***************************************************************************)
(* Who read a letter and who closed it: the server's word and the local    *)
(* marks that fill its gaps.  The panel (POST /read, /done, /send) and the *)
(* tools (msg9_message, msg9_read, msg9_done, msg9_send) ask the server    *)
(* first and then write a mark into state.json; GET /messages shows the    *)
(* server's word and, where there is none, the mark.                       *)
(*                                                                         *)
(* One letter.  A server before v1.13 has no processed state and keeps no  *)
(* names; a later one keeps the first.  `swallowed' is history: a request  *)
(* failed and the handler went on to its mark all the same; `merged': the  *)
(* marks of an old record were merged into this one.                       *)
(***************************************************************************)
EXTENDS Naturals

CONSTANTS MaxWorks,         \* bound: handlers
          MaxMarkFaults     \* bound: requests and writes that fail

ASSUME MarksAssumption == MaxWorks \in Nat /\ MaxMarkFaults \in Nat

Who == {"human", "agent"}
Nobody == "nobody"
Readers == Who \union {Nobody}

\* peek: msg9_message, which takes no notice of failures.
Works == {"read", "peek", "done", "reply"}
Resting == [pc |-> "rest", what |-> "none"]
NoMark == [read |-> Nobody, done |-> Nobody]

VARIABLES native,                       \* the server is of v1.13 or later
          wasRead, wasClosed, said,     \* the server: the letter's state, and the names it keeps
          mark, oldMark, oldIsNewer,    \* the mark; that of the record left to merge, NoMark if none
          work,                         \* per actor
          swallowed, merged,            \* history
          works, markFaults

marksVars == <<native, wasRead, wasClosed, said, mark, oldMark, oldIsNewer, work, swallowed, merged, works,
               markFaults>>
atServer == <<wasRead, wasClosed, said>>
atHome == <<mark, oldMark, oldIsNewer>>

MarksInit ==
  /\ native \in BOOLEAN /\ wasRead = FALSE /\ wasClosed = FALSE /\ said = NoMark
  /\ mark = NoMark /\ oldMark \in [read : Readers, done : Readers] /\ oldIsNewer \in BOOLEAN
  /\ work = [w \in Who |-> Resting] /\ swallowed = FALSE /\ merged = FALSE
  /\ works = 0 /\ markFaults = 0

MarkFault == markFaults < MaxMarkFaults /\ markFaults' = markFaults + 1
Turns(w, pc) == work' = [work EXCEPT ![w] = IF pc = "rest" THEN Resting ELSE [@ EXCEPT !.pc = pc]]
First(name, w) == IF name = Nobody THEN w ELSE name

-----------------------------------------------------------------------------
(* The server *)

\* markRead, markProcessed (which implies read), sendMessage with reply_to, which leaves no name.
ServerReads(w) ==
  /\ wasRead' = TRUE /\ UNCHANGED wasClosed
  /\ said' = IF native /\ ~wasRead THEN [said EXCEPT !.read = First(@, w)] ELSE said
ServerCloses(w) ==
  /\ wasRead' = TRUE /\ wasClosed' = TRUE
  /\ said' = [read |-> IF wasRead THEN said.read ELSE w, done |-> IF wasClosed THEN said.done ELSE w]
ServerIsReplied == wasClosed' = native /\ UNCHANGED <<wasRead, said>>

\* What the server makes of the first request of a handler.
Serves(w) == \/ work[w].what \in {"read", "peek"} /\ ServerReads(w)
             \/ work[w].what = "done" /\ native /\ ServerCloses(w)
             \/ work[w].what = "reply" /\ IF wasClosed THEN UNCHANGED atServer ELSE ServerIsReplied

-----------------------------------------------------------------------------
(* The handlers *)

\* msg9_message asks for the letter first, and leaves alone what is read.
BeginsWork(w) ==
  /\ work[w] = Resting /\ works < MaxWorks /\ works' = works + 1
  /\ \E what \in Works : /\ what = "peek" => ~wasRead /\ w = "agent"
                         /\ work' = [work EXCEPT ![w] = [pc |-> "ask", what |-> what]]
  /\ UNCHANGED <<native, atServer, atHome, swallowed, merged, markFaults>>

Asks(w) ==
  /\ work[w].pc = "ask" /\ Serves(w) /\ Turns(w, "write")
  /\ UNCHANGED <<native, atHome, swallowed, merged, works, markFaults>>

\* After a failure `read' and `reply' give up; `peek' goes on to its mark, and `done' asks for
\* less before it does.
\* Slip: a reply that failed closes its letter as well.
AfterFailure_Reply(what) == CASE what = "read" -> "rest" [] what \in {"reply", "peek"} -> "write" [] what = "done" -> "less"
AfterFailure(what) == CASE what \in {"read", "reply"} -> "rest" [] what = "peek" -> "write" [] what = "done" -> "less"

\* The request fails, before the server has seen it or after; an old server knows no `processed'.
RequestFails(w) ==
  /\ work[w].pc = "ask"
  /\ \/ MarkFault /\ UNCHANGED atServer
     \/ MarkFault /\ Serves(w)
     \/ ~native /\ work[w].what = "done" /\ UNCHANGED <<atServer, markFaults>>
  /\ Turns(w, AfterFailure(work[w].what))
  /\ swallowed' = (swallowed \/ (native /\ work[w].what \in {"peek", "done"}))
  /\ UNCHANGED <<native, atHome, merged, works>>

\* markRead in the place of markProcessed; how it ends is not looked at.
AsksForLess(w) ==
  /\ work[w].pc = "less" /\ Turns(w, "write")
  /\ \/ ServerReads(w) /\ UNCHANGED markFaults
     \/ UNCHANGED atServer /\ MarkFault
  /\ UNCHANGED <<native, atHome, swallowed, merged, works>>

\* setMessageMark: the first keeps the mark.
Marked(m, w, what) == [read |-> IF what = "reply" THEN m.read ELSE First(m.read, w),
                       done |-> IF what \in {"done", "reply"} THEN First(m.done, w) ELSE m.done]

WritesMark(w) ==
  /\ work[w].pc = "write" /\ Turns(w, "rest")
  /\ \/ mark' = Marked(mark, w, work[w].what) /\ UNCHANGED markFaults
     \/ MarkFault /\ UNCHANGED mark
  /\ UNCHANGED <<native, atServer, oldMark, oldIsNewer, swallowed, merged, works>>

\* mergeMarks, when credentials are migrated: the newer keeps the mark.
Newer(mine, other) == IF mine = Nobody \/ (other # Nobody /\ oldIsNewer) THEN other ELSE mine
MergesOld ==
  /\ oldMark # NoMark /\ oldMark' = NoMark /\ merged' = TRUE
  /\ mark' = [read |-> Newer(mark.read, oldMark.read), done |-> Newer(mark.done, oldMark.done)]
  /\ UNCHANGED <<native, atServer, oldIsNewer, work, swallowed, works, markFaults>>

MarksNext == \/ MergesOld
             \/ \E w \in Who : BeginsWork(w) \/ Asks(w) \/ RequestFails(w) \/ AsksForLess(w) \/ WritesMark(w)
MarksSpec == MarksInit /\ [][MarksNext]_marksVars

-----------------------------------------------------------------------------
\* GET /messages.
\* Slip: the local mark comes before the server's word.
Shown_LocalFirst(side) == IF mark[side] # Nobody THEN mark[side] ELSE said[side]
Shown(side) == IF said[side] # Nobody THEN said[side] ELSE mark[side]
ShownClosed == wasClosed \/ mark.done # Nobody

MarksTypeOK ==
  /\ {native, wasRead, wasClosed, oldIsNewer, swallowed, merged} \subseteq BOOLEAN
  /\ {said, mark, oldMark} \subseteq [read : Readers, done : Readers]
  /\ work \in [Who -> {Resting} \union [pc : {"ask", "less", "write"}, what : Works]]
  /\ works \in 0..MaxWorks /\ markFaults \in 0..MaxMarkFaults

\* A letter shown as closed is closed on a server that knows of it, unless a failure was
\* swallowed or an old mark came in.
ClosedIsClosed == native /\ ShownClosed => wasClosed \/ swallowed \/ merged

\* Who is shown to have read or closed a letter stays, whoever comes after him, unless a failure
\* was swallowed, or an old record's mark came in.
AttributionStays ==
  [][\A side \in {"read", "done"} :
       Shown(side) # Nobody /\ ~swallowed' /\ ~merged' => Shown(side)' = Shown(side)]_marksVars

\* What GET /messages says of a letter is what was done with it, and by whom first: mark and
\* server, written by two requests of two actors each, do not drift apart but where a request
\* failed and was taken for done, or the marks of an old record came in.
MarksAreExplained == []ClosedIsClosed /\ AttributionStays

\* What POST /done and msg9_done answer: the letter is processed.
DoneIsDone == native /\ mark.done # Nobody => wasClosed
\* The comment at setMessageMark: the first reader keeps the attribution.
FirstReaderStays == [][Shown("read") # Nobody => Shown("read")' = Shown("read")]_marksVars
=============================================================================
