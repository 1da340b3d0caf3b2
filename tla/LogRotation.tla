----------------------------- MODULE LogRotation -----------------------------
(***************************************************************************)
(* daemon.log and its archives (daemonlog.ts).  The daemon appends; every  *)
(* plugin process looks at the size with each heartbeat and before it      *)
(* spawns a daemon, and rotates a log that is full: the oldest archive is  *)
(* removed, the others move up by one, the log is copied to the first and  *)
(* emptied where it is, for the daemon keeps its file open.  The calls are *)
(* synchronous, so a process does nothing else between them; the daemon    *)
(* and the other processes do.  A rename that fails, for whatever reason,  *)
(* is passed over; any other call that fails ends the rotation.            *)
(*                                                                         *)
(* A file is the set of lines it holds; lines are numbered as written.     *)
(* `outdated', `unmoved', `between' and `raced' are history: why a line is *)
(* gone.                                                                   *)
(***************************************************************************)
EXTENDS Naturals, FiniteSets

CONSTANTS Rotators,         \* plugin processes
          Full,             \* lines at which a log is rotated (maxBytes)
          Keep,             \* archives kept
          MaxLines,         \* bound: lines the daemon writes
          MaxLogFaults      \* bound: calls that fail, processes that end

ASSUME RotationAssumption == Full \in Nat \ {0} /\ Keep \in Nat \ {0} /\ MaxLines \in Nat
                             /\ MaxLogFaults \in Nat

VARIABLES written,          \* lines written so far
          log,              \* daemon.log
          archive,          \* daemon.log.1 ... daemon.log.Keep; {} where there is none
          rot,              \* per process: its step, whether its last rename failed, how much was
                            \* written when it copied, and whether another rotation was under
                            \* way with it
          outdated, unmoved, between, raced,
          logFaults

logVars == <<written, log, archive, rot, outdated, unmoved, between, raced, logFaults>>
Numbers == 1..Keep
NotRotating == [pc |-> "rest", slot |-> 0, left |-> FALSE, mark |-> 0, met |-> FALSE]

LogInit == /\ written = 0 /\ log = {} /\ archive = [i \in Numbers |-> {}]
           /\ rot = [p \in Rotators |-> NotRotating]
           /\ outdated = {} /\ unmoved = {} /\ between = {} /\ raced = {} /\ logFaults = 0

Held == log \union UNION {archive[i] : i \in Numbers}
UnderWay == {p \in Rotators : rot[p].pc # "rest"}
\* What a rotation loses that another was under way with.
Racing(p) == raced' = raced \union (IF rot[p].met THEN Held \ Held' ELSE {})
\* What a rename or a copy loses that writes over an archive left in its place.
WritesOver(p) == unmoved' = unmoved \union (IF rot[p].left THEN Held \ Held' ELSE {})
LogFault == logFaults < MaxLogFaults /\ logFaults' = logFaults + 1

DaemonWrites ==
  /\ written < MaxLines /\ written' = written + 1 /\ log' = log \union {written'}
  /\ UNCHANGED <<archive, rot, outdated, unmoved, between, raced, logFaults>>

\* Slip: a log that is exactly full may stay.
IsFull_Beyond == Cardinality(log) > Full
IsFull == Cardinality(log) >= Full

\* stat: the decision is made on this size.
Looks(p) ==
  /\ rot[p].pc = "rest" /\ IsFull
  /\ rot' = [q \in Rotators |->
       IF q = p THEN [NotRotating EXCEPT !.pc = "drop", !.met = UnderWay # {}]
       ELSE [rot[q] EXCEPT !.met = rot[q].met \/ q \in UnderWay]]
  /\ UNCHANGED <<written, log, archive, outdated, unmoved, between, raced, logFaults>>

DropsOldest(p) ==
  /\ rot[p].pc = "drop"
  /\ archive' = [archive EXCEPT ![Keep] = {}] /\ outdated' = outdated \union archive[Keep]
  /\ rot' = [rot EXCEPT ![p] = [@ EXCEPT !.pc = "shift", !.slot = Keep - 1]]
  /\ UNCHANGED <<written, log, unmoved, between, logFaults>> /\ Racing(p)

\* rename replaces what has the new name.  An archive that is not there is skipped; so is one
\* that cannot be moved, and the rotation goes on.
Shifts(p) ==
  /\ rot[p].pc = "shift" /\ rot[p].slot > 0
  /\ LET i == rot[p].slot
         Goes(left) == rot' = [rot EXCEPT ![p] = [@ EXCEPT !.slot = i - 1, !.left = left]]
     IN \/ archive[i] = {} /\ Goes(FALSE) /\ UNCHANGED <<archive, logFaults>>
        \/ /\ archive[i] # {} /\ Goes(FALSE) /\ UNCHANGED logFaults
           /\ archive' = [archive EXCEPT ![i + 1] = archive[i], ![i] = {}]
        \/ archive[i] # {} /\ Goes(TRUE) /\ LogFault /\ UNCHANGED archive
  /\ UNCHANGED <<written, log, outdated, between>> /\ Racing(p) /\ WritesOver(p)

Copies(p) ==
  /\ rot[p].pc = "shift" /\ rot[p].slot = 0
  /\ archive' = [archive EXCEPT ![1] = log]
  /\ rot' = [rot EXCEPT ![p] = [@ EXCEPT !.pc = "truncate", !.mark = written]]
  /\ UNCHANGED <<written, log, outdated, between, logFaults>> /\ Racing(p) /\ WritesOver(p)

\* The lines written since the copy go with the rest.
Truncates(p) ==
  /\ rot[p].pc = "truncate" /\ log' = {}
  /\ between' = between \union {l \in log : l > rot[p].mark}
  /\ rot' = [rot EXCEPT ![p] = NotRotating]
  /\ UNCHANGED <<written, archive, outdated, unmoved, logFaults>> /\ Racing(p)

\* Slip: a copy that failed does not keep the log from being emptied.
AfterFailure_GoesOn(p) ==
  IF rot[p].pc = "shift" THEN [rot[p] EXCEPT !.pc = "truncate", !.mark = written] ELSE NotRotating
AfterFailure(p) == NotRotating

\* A copy broken off leaves a part of the log, or nothing.
CopiesInPart(p) ==
  /\ rot[p].pc = "shift" /\ rot[p].slot = 0
  /\ \E n \in 0..written : archive' = [archive EXCEPT ![1] = {l \in log : l <= n}]

\* rm, copyFile or truncate throws, or the process ends: the rest of the rotation is left undone.
RotationFails(p) ==
  /\ rot[p].pc # "rest" /\ LogFault /\ rot' = [rot EXCEPT ![p] = AfterFailure(p)]
  /\ UNCHANGED archive \/ CopiesInPart(p)
  /\ UNCHANGED <<written, log, outdated, between>> /\ Racing(p) /\ WritesOver(p)

RotationSteps(p) == Looks(p) \/ DropsOldest(p) \/ Shifts(p) \/ Copies(p) \/ Truncates(p)
LogNext == DaemonWrites \/ \E p \in Rotators : RotationSteps(p) \/ RotationFails(p)
\* The heartbeats go on, and the calls of a rotation follow one another.
LogFairness == \A p \in Rotators : WF_logVars(RotationSteps(p))
LogSpec == LogInit /\ [][LogNext]_logVars /\ LogFairness

-----------------------------------------------------------------------------
LogTypeOK ==
  /\ written \in 0..MaxLines /\ log \subseteq 1..written /\ archive \in [Numbers -> SUBSET (1..written)]
  /\ rot \in [Rotators -> [pc : {"rest", "drop", "shift", "truncate"}, slot : 0..Keep, left : BOOLEAN,
                           mark : 0..MaxLines, met : BOOLEAN]]
  /\ {outdated, unmoved, between, raced} \subseteq SUBSET (1..written)
  /\ logFaults \in 0..MaxLogFaults

\* A line that is nowhere any more was in the oldest archive when that was removed, or in an
\* archive whose rename failed and that the next file was put over, or was written between a copy
\* and the emptying after it, or went while two processes rotated at once.  No other failure of a
\* call, and no end of a process, costs a line.
LostLinesAreExplained == 1..written \subseteq Held \union outdated \union unmoved \union between \union raced

\* A log that is full comes to be emptied, by whichever process is left to do it.
LogComesDown == Cardinality(log) >= Full ~> Cardinality(log) < Full

\* What the file says a rotation costs, whatever step fails (daemonlog.ts:119-131): besides the
\* lines of the oldest archive, those written between a copy and the emptying after it.
OnlyTheWindowIsLost == 1..written \subseteq Held \union outdated \union between
=============================================================================
