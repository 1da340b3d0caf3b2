--------------------------- MODULE Loops_proofs -----------------------------
(***************************************************************************)
(* Proofs about what runs in the background of the plugin, for any number  *)
(* of processes, workspaces, lines and scopes: the lock between consumer   *)
(* processes (ConsumerLease), the rotation of the daemon's log by several  *)
(* processes at once (LogRotation), the judgment of the platform's daemons *)
(* (PlatformWatch), who wakes the sessions (WakeWiring), the loop that     *)
(* keeps the doorbell's connection (Doorbell), the wake budgets            *)
(* (WakeBudgets), and the frames of that connection (WsFrames).  The seven *)
(* share no state; each section has its own inductive invariant.           *)
(***************************************************************************)
EXTENDS Doorbell, WsFrames, ConsumerLease, LogRotation, PlatformWatch, WakeWiring, WakeBudgets,
        FiniteSetTheorems, SequenceTheorems, WellFoundedInduction, TLAPS

-----------------------------------------------------------------------------
(* The lock between consumer processes.                                    *)

LeaseLocks == [maker : Consumers \union {Departed}, signed : BOOLEAN, old : BOOLEAN]

\* A process that makes its round, or is about to, and was not robbed, has its lock in place.
UnrobbedHolds ==
  \A c \in Consumers : turn[c] \in {"sign", "round"} /\ robbed[c] = "no" => lock # NoLock /\ lock.maker = c

\* Where nothing died, stalled or failed, a lock is young and its maker holds it, and so nobody
\* has found it stale.
CalmIsFresh ==
  leaseFaults = 0 =>
    /\ lock # NoLock => lock.maker \in Consumers /\ Holds(lock.maker) /\ ~lock.old
    /\ \A c \in Consumers : turn[c] \notin {"sweep", "dead"} /\ robbed[c] \notin {"old", "late"}

LeaseInv == LeaseTypeOK /\ UnrobbedHolds /\ CalmIsFresh

\* A lock file is never the absence of one.
LEMMA LocksAreThere == ASSUME NEW l \in LeaseLocks PROVE l # NoLock
<1>1. "old" \in DOMAIN l
    BY DEF LeaseLocks
<1>2. DOMAIN NoLock = {"maker"}
    BY DEF NoLock
<1> QED
    BY <1>1, <1>2

\* Nobody has the lock at first.
LEMMA LeaseInvInit == LeaseInit => LeaseInv
<1> SUFFICES ASSUME LeaseInit PROVE LeaseInv
    OBVIOUS
<1>1. /\ turn = [c \in Consumers |-> "rest"] /\ tries = [c \in Consumers |-> 0]
      /\ robbed = [c \in Consumers |-> "no"]
    BY Zenon DEF LeaseInit
<1>2. leaseFaults \in 0..MaxLeaseFaults /\ (leaseFaults = 0 => lock = NoLock)
    <2>1. CASE lock = NoLock /\ leaseFaults = 0
        BY <2>1, LeaseAssumption
    <2>2. CASE leaseFaults = 1 /\ MaxLeaseFaults > 0
        BY <2>2, LeaseAssumption
    <2> QED
        BY <2>1, <2>2, Zenon DEF LeaseInit
<1>3. lock = NoLock \/ lock \in LeaseLocks
    <2>1. CASE lock = NoLock
        BY <2>1
    <2>2. CASE lock \in [maker : {Departed}, signed : BOOLEAN, old : {FALSE}]
        BY <2>2 DEF LeaseLocks
    <2> QED
        BY <2>1, <2>2, Zenon DEF LeaseInit
<1>4. LeaseTypeOK
    BY <1>1, <1>2, <1>3 DEF LeaseTypeOK, LeaseLocks
<1>5. UnrobbedHolds /\ CalmIsFresh
    BY <1>1, <1>2 DEF UnrobbedHolds, CalmIsFresh
<1> QED
    BY <1>4, <1>5 DEF LeaseInv

-----------------------------------------------------------------------------
(* Every step *)

\* Whoever removes the file robs the one it was made by, and nobody else.
LEMMA UnlinkRobs ==
    ASSUME LeaseInv, NEW c \in Consumers, turn[c] \notin {"sign", "round"},
           NEW why \in {"no", "old", "late", "gone", "released"}, Unlink(c, why),
           lock # NoLock => why # "no"
    PROVE  /\ lock' = NoLock /\ robbed' \in [Consumers -> {"no", "old", "late", "gone", "released"}]
           /\ \A d \in Consumers : turn[d] \in {"sign", "round"} => robbed'[d] # "no"
           /\ \A d \in Consumers : robbed'[d] \in {robbed[d], why}
           /\ lock = NoLock => robbed' = robbed
<1> USE DEF LeaseInv, LeaseTypeOK
<1>1. /\ lock' = NoLock
      /\ robbed' = [r \in Consumers |->
           IF lock # NoLock /\ r = lock.maker /\ r # c /\ turn[r] \in {"sign", "round"} /\ robbed[r] = "no"
           THEN why ELSE robbed[r]]
    BY Zenon DEF Unlink
<1>2. robbed' \in [Consumers -> {"no", "old", "late", "gone", "released"}]
    BY <1>1
<1>3. \A d \in Consumers : turn[d] \in {"sign", "round"} => robbed'[d] # "no"
    BY <1>1 DEF UnrobbedHolds
<1>4. \A d \in Consumers : robbed'[d] \in {robbed[d], why}
    BY <1>1
<1>5. lock = NoLock => robbed' = robbed
    BY <1>1
<1> QED
    BY <1>1, <1>2, <1>3, <1>4, <1>5

\* Each step of a process, and each death and stall, keeps the invariant.
LEMMA LeaseStep ==
    ASSUME LeaseInv, LeaseNext
    PROVE  LeaseInv'
<1> DEFINE Steps == {"rest", "open", "sign", "judge", "sweep", "sweep gone", "round", "look", "remove", "dead"}
<1>1. /\ lock = NoLock \/ lock \in LeaseLocks
      /\ turn \in [Consumers -> Steps] /\ tries \in [Consumers -> 0..1]
      /\ robbed \in [Consumers -> {"no", "old", "late", "gone", "released"}]
      /\ leaseFaults \in 0..MaxLeaseFaults
    BY Zenon DEF LeaseInv, LeaseTypeOK, LeaseLocks
<1>2. UnrobbedHolds /\ CalmIsFresh
    BY DEF LeaseInv
<1>3. leaseFaults \in 0..MaxLeaseFaults /\ tries \in [Consumers -> 0..1]
    BY <1>1
<1> DEFINE Kept == /\ lock' = NoLock \/ lock' \in LeaseLocks
                   /\ turn' \in [Consumers -> Steps] /\ tries' \in [Consumers -> 0..1]
                   /\ robbed' \in [Consumers -> {"no", "old", "late", "gone", "released"}]
                   /\ leaseFaults' \in 0..MaxLeaseFaults
                   /\ UnrobbedHolds' /\ CalmIsFresh'
<1> SUFFICES Kept
    BY Zenon DEF LeaseInv, LeaseTypeOK, LeaseLocks
<1> USE LeaseAssumption DEF LeaseFault, Goes
<1>4. ASSUME NEW c \in Consumers, AsksForLease(c) \/ JudgesLock(c) \/ EndsRound(c) \/ LooksAtLock(c)
      PROVE  Kept
    <2>1. UNCHANGED <<lock, robbed, leaseFaults>>
        BY <1>4, Zenon DEF AsksForLease, JudgesLock, EndsRound, LooksAtLock
    <2>2. tries' \in [Consumers -> 0..1]
        <3>1. tries' = tries \/ tries' = [tries EXCEPT ![c] = 0]
            BY <1>4, Zenon DEF AsksForLease, JudgesLock, EndsRound, LooksAtLock
        <3> QED
            BY <1>3, <3>1
    <2>3. /\ turn' \in [Consumers -> Steps] /\ turn'[c] \notin {"sign", "round", "dead"}
          /\ \A d \in Consumers \ {c} : turn'[d] = turn[d]
        BY <1>1, <1>4 DEF AsksForLease, JudgesLock, EndsRound, LooksAtLock
    <2>4. UnrobbedHolds'
        BY <1>2, <2>1, <2>3 DEF UnrobbedHolds
    <2>5. ASSUME leaseFaults = 0
          PROVE  turn'[c] # "sweep" /\ (lock # NoLock /\ lock.maker = c => Holds(c)')
        <3>1. CASE AsksForLease(c)
            BY <1>1, <1>2, <2>5, <3>1 DEF AsksForLease, CalmIsFresh, Holds
        <3>2. CASE JudgesLock(c)
            <4>1. ~Stale(lock) \/ lock = NoLock
                BY <1>2, <2>5 DEF CalmIsFresh, Stale, DeadMans, Alive, Holds
            <4>2. turn'[c] \in {"rest", "sweep gone"}
                BY <1>1, <3>2, <4>1 DEF JudgesLock
            <4> QED
                BY <1>1, <1>2, <2>5, <3>2, <4>2 DEF JudgesLock, CalmIsFresh, Holds
        <3>3. CASE EndsRound(c)
            BY <1>1, <3>3 DEF EndsRound, Holds
        <3>4. CASE LooksAtLock(c)
            BY <1>1, <3>4 DEF LooksAtLock, Holds, MayRelease
        <3> QED
            BY <1>4, <3>1, <3>2, <3>3, <3>4
    <2>6. CalmIsFresh'
        BY <1>2, <2>1, <2>3, <2>5 DEF CalmIsFresh, Holds
    <2> QED
        BY <1>1, <2>1, <2>2, <2>3, <2>4, <2>6
<1>5. ASSUME NEW c \in Consumers, OpensLock(c)
      PROVE  Kept
    <2>1. turn[c] = "open" /\ UNCHANGED <<tries, leaseFaults>>
        BY <1>5 DEF OpensLock
    <2>2. CASE lock = NoLock
        <3>1. /\ lock' = [maker |-> c, signed |-> FALSE, old |-> FALSE]
              /\ turn' = [turn EXCEPT ![c] = "sign"] /\ robbed' = [robbed EXCEPT ![c] = "no"]
            BY <1>5, <2>2 DEF OpensLock
        <3>2. lock' \in LeaseLocks /\ lock' # NoLock /\ lock'.maker = c /\ ~lock'.old
            BY <3>1, LocksAreThere DEF LeaseLocks
        <3>3. UnrobbedHolds'
            BY <1>1, <1>2, <2>2, <3>1, <3>2 DEF UnrobbedHolds
        <3>4. CalmIsFresh'
            BY <1>1, <1>2, <2>1, <3>1, <3>2 DEF CalmIsFresh, Holds
        <3> QED
            BY <1>1, <2>1, <3>1, <3>2, <3>3, <3>4
    <2>3. CASE lock # NoLock
        <3>1. UNCHANGED <<lock, robbed>> /\ turn' = [turn EXCEPT ![c] = "judge"]
            BY <1>5, <2>3, Zenon DEF OpensLock
        <3>2. UnrobbedHolds'
            BY <1>1, <1>2, <3>1 DEF UnrobbedHolds
        <3>3. CalmIsFresh'
            BY <1>1, <1>2, <2>1, <3>1 DEF CalmIsFresh, Holds
        <3> QED
            BY <1>1, <2>1, <3>1, <3>2, <3>3
    <2> QED
        BY <2>2, <2>3
<1>6. ASSUME NEW c \in Consumers, SignsLock(c)
      PROVE  Kept
    <2>1. turn[c] = "sign" /\ turn' = [turn EXCEPT ![c] = "round"] /\ UNCHANGED <<tries, robbed, leaseFaults>>
        BY <1>6 DEF SignsLock
    <2>2. \/ lock' = lock
          \/ /\ lock # NoLock /\ lock' \in LeaseLocks /\ lock' # NoLock
             /\ lock'.maker = lock.maker /\ ~lock'.old
        <3>1. CASE lock # NoLock /\ lock.maker = c
            <4>1. lock' = [lock EXCEPT !.signed = TRUE, !.old = FALSE] /\ lock \in LeaseLocks
                BY <1>1, <1>6, <3>1, Zenon DEF SignsLock
            <4>2. lock' \in LeaseLocks /\ lock'.maker = lock.maker /\ ~lock'.old
                BY <4>1 DEF LeaseLocks
            <4> QED
                BY <3>1, <4>2, LocksAreThere
        <3>2. CASE ~(lock # NoLock /\ lock.maker = c)
            BY <1>6, <3>2, Zenon DEF SignsLock
        <3> QED
            BY <3>1, <3>2
    <2>3. UnrobbedHolds'
        BY <1>1, <1>2, <2>1, <2>2 DEF UnrobbedHolds
    <2>4. CalmIsFresh'
        BY <1>1, <1>2, <2>1, <2>2 DEF CalmIsFresh, Holds
    <2> QED
        BY <1>1, <2>1, <2>2, <2>3, <2>4
<1>7. ASSUME NEW c \in Consumers, SigningFails(c) \/ ConsumerEnds(c)
      PROVE  Kept
    <2>1. UNCHANGED <<lock, tries, robbed>> /\ leaseFaults < MaxLeaseFaults /\ leaseFaults' = leaseFaults + 1
        BY <1>7, Zenon DEF SigningFails, ConsumerEnds
    <2>2. \E step \in {"rest", "dead"} : turn' = [turn EXCEPT ![c] = step]
        BY <1>7, Zenon DEF SigningFails, ConsumerEnds
    <2>3. UnrobbedHolds'
        BY <1>1, <1>2, <2>1, <2>2 DEF UnrobbedHolds
    <2>4. leaseFaults' \in 0..MaxLeaseFaults /\ leaseFaults' # 0
        BY <1>3, <2>1
    <2> QED
        BY <1>1, <2>1, <2>2, <2>3, <2>4 DEF CalmIsFresh
<1>8. ASSUME NEW c \in Consumers, SweepsLock(c)
      PROVE  Kept
    <2> DEFINE why == IF turn[c] = "sweep gone" THEN "gone" ELSE IF lock = NoLock THEN "no"
                      ELSE IF lock.old \/ DeadMans(lock) THEN "old" ELSE "late"
    <2>1. turn[c] \in {"sweep", "sweep gone"} /\ Unlink(c, why) /\ UNCHANGED leaseFaults
        BY <1>8, Zenon DEF SweepsLock
    <2>2. tries' \in [Consumers -> 0..1] /\ \E step \in {"open", "rest"} : turn' = [turn EXCEPT ![c] = step]
        <3>1. tries' = [tries EXCEPT ![c] = 1]
            BY <1>8, Zenon DEF SweepsLock
        <3>2. \E step \in {"open", "rest"} : turn' = [turn EXCEPT ![c] = step]
            BY <1>8, Zenon DEF SweepsLock
        <3>3. tries' \in [Consumers -> 0..1]
            BY <1>3, <3>1
        <3> QED
            BY <3>2, <3>3, Zenon
    <2>3. why \in {"no", "old", "late", "gone", "released"} /\ (lock # NoLock => why # "no")
        OBVIOUS
    <2>4. leaseFaults = 0 => why = "gone"
        BY <1>2, <2>1 DEF CalmIsFresh
    <2> HIDE DEF why
    <2>5. /\ lock' = NoLock /\ robbed' \in [Consumers -> {"no", "old", "late", "gone", "released"}]
          /\ \A d \in Consumers : turn[d] \in {"sign", "round"} => robbed'[d] # "no"
          /\ \A d \in Consumers : robbed'[d] \in {robbed[d], why}
        BY <2>1, <2>3, UnlinkRobs
    <2>6. UnrobbedHolds' /\ CalmIsFresh'
        BY <1>1, <1>2, <2>1, <2>2, <2>4, <2>5, ZenonT(30) DEF UnrobbedHolds, CalmIsFresh
    <2> QED
        BY <1>1, <2>1, <2>2, <2>5, <2>6
<1>9. ASSUME NEW c \in Consumers, ReleasesLock(c)
      PROVE  Kept
    <2>1. /\ turn[c] = "remove" /\ Unlink(c, "released") /\ UNCHANGED <<tries, leaseFaults>>
          /\ turn' = [turn EXCEPT ![c] = "rest"]
        BY <1>9, Zenon DEF ReleasesLock
    <2>2. /\ lock' = NoLock /\ robbed' \in [Consumers -> {"no", "old", "late", "gone", "released"}]
          /\ \A d \in Consumers : turn[d] \in {"sign", "round"} => robbed'[d] # "no"
          /\ \A d \in Consumers : robbed'[d] \in {robbed[d], "released"}
        BY <2>1, UnlinkRobs
    <2>3. UnrobbedHolds' /\ CalmIsFresh'
        BY <1>1, <1>2, <2>1, <2>2 DEF UnrobbedHolds, CalmIsFresh
    <2> QED
        BY <1>1, <2>1, <2>2, <2>3
<1>10. CASE LockAges
    <2>1. /\ lock # NoLock /\ ~lock.old /\ lock' = [lock EXCEPT !.old = TRUE]
          /\ UNCHANGED <<turn, tries, robbed>>
        BY <1>10, Zenon DEF LockAges
    <2>2. lock' \in LeaseLocks /\ lock'.maker = lock.maker
        BY <1>1, <2>1 DEF LeaseLocks
    <2>3. lock' # NoLock
        BY <2>2, LocksAreThere
    <2>4. leaseFaults' \in 0..MaxLeaseFaults /\ leaseFaults' # 0
        <3>1. CASE Holds(lock.maker)
            <4>1. leaseFaults < MaxLeaseFaults /\ leaseFaults' = leaseFaults + 1
                BY <1>10, <3>1, Zenon DEF LockAges
            <4> QED
                BY <1>3, <4>1
        <3>2. CASE ~Holds(lock.maker)
            BY <1>1, <1>2, <1>10, <2>1, <3>2 DEF LockAges, CalmIsFresh
        <3> QED
            BY <3>1, <3>2
    <2>5. UnrobbedHolds' /\ CalmIsFresh'
        BY <1>2, <2>1, <2>2, <2>3, <2>4 DEF UnrobbedHolds, CalmIsFresh
    <2> QED
        BY <1>1, <2>1, <2>2, <2>4, <2>5
<1> QED
    BY <1>4, <1>5, <1>6, <1>7, <1>8, <1>9, <1>10 DEF LeaseNext, LeaseSteps

LEMMA LeaseInvHolds == LeaseSpec => []LeaseInv
<1>1. LeaseInv /\ UNCHANGED leaseVars => LeaseInv'
    BY DEF leaseVars, LeaseInv, LeaseTypeOK, UnrobbedHolds, CalmIsFresh, Holds
<1>2. LeaseInv /\ [LeaseNext]_leaseVars => LeaseInv'
    BY <1>1, LeaseStep
<1> QED
    BY <1>2, LeaseInvInit, PTL DEF LeaseSpec

\* The lock is nobody's or a file somebody made; no process is anywhere but in its loop.
THEOREM LeaseTypes == LeaseSpec => []LeaseTypeOK
<1>1. LeaseInv => LeaseTypeOK
    BY DEF LeaseInv
<1> QED
    BY <1>1, LeaseInvHolds, PTL

\* However many processes share a mailbox: two are in a round at once only if one of them was
\* robbed of its lock, and where nothing dies, stalls or fails, by a lock found gone or a release
\* that took another's lock for its own.
THEOREM RoundsAreSharedForAReason == LeaseSpec => []SharedRoundsAreExplained
<1>1. LeaseInv => SharedRoundsAreExplained
    <2> SUFFICES ASSUME LeaseInv, NEW c \in Consumers, NEW d \in Consumers,
                        c # d, turn[c] = "round", turn[d] = "round"
                 PROVE  \E r \in {c, d} : robbed[r] \in IF leaseFaults = 0 THEN {"gone", "released"}
                                                         ELSE {"old", "late", "gone", "released"}
        BY DEF SharedRoundsAreExplained
    <2>1. PICK r \in {c, d} : robbed[r] # "no"
        BY DEF LeaseInv, UnrobbedHolds
    <2>2. robbed[r] \in {"old", "late", "gone", "released"}
        BY <2>1 DEF LeaseInv, LeaseTypeOK
    <2>3. leaseFaults = 0 => robbed[r] \notin {"old", "late"}
        BY DEF LeaseInv, CalmIsFresh
    <2> QED
        BY <2>2, <2>3
<1> QED
    BY <1>1, LeaseInvHolds, PTL

-----------------------------------------------------------------------------
(* The log and its archives.                                               *)

\* Where a rotation stands that met no other.  It is alone; while it shifts, the number above
\* the next one is free, unless the archive there could not be moved; and when it comes to empty
\* the log, what it copied is in the first archive.
AloneIsSafe ==
  \A p \in Rotators : rot[p].pc # "rest" /\ ~rot[p].met =>
    /\ UnderWay = {p}
    /\ rot[p].pc = "shift" => rot[p].left \/ archive[rot[p].slot + 1] = {}
    /\ rot[p].pc = "truncate" => \A l \in log : l <= rot[p].mark => l \in archive[1]

\* A line is nowhere only for a reason; the slot a rotation is at has one above it.
LogInv ==
  /\ LogTypeOK /\ written \in 0..MaxLines
  /\ \A p \in Rotators : /\ rot[p].mark <= written
                         /\ rot[p].pc = "shift" => rot[p].slot < Keep
  /\ AloneIsSafe
  /\ LostLinesAreExplained

LEMMA LogInvInit == LogInit => LogInv
<1> SUFFICES ASSUME LogInit PROVE LogInv
    OBVIOUS
<1> USE RotationAssumption
<1>1. LogTypeOK
    BY DEF LogInit, LogTypeOK, NotRotating, Numbers
<1> QED
    BY <1>1 DEF LogInit, LogInv, NotRotating, AloneIsSafe, LostLinesAreExplained
Rotations == [pc : {"rest", "drop", "shift", "truncate"}, slot : 0..Keep, left : BOOLEAN,
              mark : 0..MaxLines, met : BOOLEAN]

\* What the type invariant says, file by file.
FilesHold(lines) ==
  /\ log \subseteq lines /\ \A i \in Numbers : archive[i] \subseteq lines
  /\ outdated \subseteq lines /\ unmoved \subseteq lines /\ between \subseteq lines /\ raced \subseteq lines

\* The type invariant with the records of the rotations taken apart.
LEMMA LogTypesUnfold ==
    LogTypeOK <=> /\ written \in 0..MaxLines /\ logFaults \in 0..MaxLogFaults
                  /\ rot \in [Rotators -> Rotations]
                  /\ archive = [i \in Numbers |-> archive[i]] /\ FilesHold(1..written)
<1>1. archive \in [Numbers -> SUBSET (1..written)]
        <=> archive = [i \in Numbers |-> archive[i]] /\ \A i \in Numbers : archive[i] \subseteq 1..written
    BY Zenon
<1>2. {outdated, unmoved, between, raced} \subseteq SUBSET (1..written)
        <=> /\ outdated \subseteq 1..written /\ unmoved \subseteq 1..written
            /\ between \subseteq 1..written /\ raced \subseteq 1..written
    BY Zenon
<1> QED
    BY <1>1, <1>2, Zenon DEF LogTypeOK, FilesHold, Rotations

\* What the files hold was written.
LEMMA HeldIsWritten == ASSUME NEW lines, FilesHold(lines) PROVE Held \subseteq lines
BY DEF Held, FilesHold

\* So is what a step makes out to be lost.
LEMMA LossesWereWritten ==
    ASSUME NEW lines, FilesHold(lines), NEW p
    PROVE  (Racing(p) => raced' \subseteq lines) /\ (WritesOver(p) => unmoved' \subseteq lines)
BY HeldIsWritten DEF Racing, WritesOver, FilesHold

\* A rename: the archive is not there, or moves up, or stays.
LEMMA RenameOutcomes ==
    ASSUME NEW p, Shifts(p)
    PROVE  \E left \in BOOLEAN :
             /\ rot' = [rot EXCEPT ![p] = [rot[p] EXCEPT !.slot = rot[p].slot - 1, !.left = left]]
             /\ \/ ~left /\ archive[rot[p].slot] = {} /\ archive' = archive
                \/ ~left /\ archive' = [archive EXCEPT ![rot[p].slot + 1] = archive[rot[p].slot],
                                                      ![rot[p].slot] = {}]
                \/ left /\ archive' = archive
             /\ UNCHANGED logFaults \/ LogFault
<1> DEFINE Renamed(left) ==
             rot' = [rot EXCEPT ![p] = [rot[p] EXCEPT !.slot = rot[p].slot - 1, !.left = left]]
<1>1. \/ archive[rot[p].slot] = {} /\ Renamed(FALSE) /\ UNCHANGED <<archive, logFaults>>
      \/ /\ Renamed(FALSE) /\ UNCHANGED logFaults
         /\ archive' = [archive EXCEPT ![rot[p].slot + 1] = archive[rot[p].slot], ![rot[p].slot] = {}]
      \/ Renamed(TRUE) /\ LogFault /\ UNCHANGED archive
    BY Zenon DEF Shifts
<1> QED
    BY <1>1, Zenon

\* Types are kept: what is written goes up by one, a record of a rotation stays one, and files and
\* history hold lines that were written.
LEMMA LogTypesKeep ==
    ASSUME LogInv, LogNext
    PROVE  LogTypeOK' /\ written <= written'
<1> DEFINE Unfolded == /\ written \in 0..MaxLines /\ logFaults \in 0..MaxLogFaults
                       /\ rot \in [Rotators -> Rotations]
                       /\ archive = [i \in Numbers |-> archive[i]] /\ FilesHold(1..written)
<1>1. Unfolded
    BY LogTypesUnfold DEF LogInv
<1> SUFFICES Unfolded' /\ written <= written'
    <2>1. Unfolded <=> LogTypeOK
        BY LogTypesUnfold
    <2> HIDE DEF Unfolded
    <2>2. (Unfolded <=> LogTypeOK)'
        BY LogTypesUnfold, PTL DEF Unfolded
    <2> QED
        BY <2>2
<1> USE <1>1, RotationAssumption DEF FilesHold
<1>2. CASE DaemonWrites
    <2>1. 1..written \subseteq 1..written' /\ written' \in 1..written'
        BY <1>2 DEF DaemonWrites
    <2> QED
        BY <1>2, <2>1 DEF DaemonWrites
<1>3. ASSUME NEW p \in Rotators, Looks(p)
      PROVE  Unfolded' /\ written <= written'
    <2>1. rot' \in [Rotators -> Rotations]
        <3>1. ASSUME NEW q \in Rotators PROVE rot'[q] \in Rotations
            <4>1. \/ rot'[q] = rot[q]
                  \/ rot'[q] = [NotRotating EXCEPT !.pc = "drop", !.met = UnderWay # {}]
                  \/ rot'[q] = [rot[q] EXCEPT !.met = rot[q].met \/ q \in UnderWay]
                BY <1>3 DEF Looks
            <4>2. NotRotating \in Rotations /\ rot[q] \in Rotations
                BY DEF NotRotating, Rotations
            <4>3. (UnderWay # {}) \in BOOLEAN /\ (rot[q].met \/ q \in UnderWay) \in BOOLEAN
                OBVIOUS
            <4>4. [NotRotating EXCEPT !.pc = "drop", !.met = UnderWay # {}] \in Rotations
                BY <4>2, <4>3 DEF Rotations
            <4>5. [rot[q] EXCEPT !.met = rot[q].met \/ q \in UnderWay] \in Rotations
                BY <4>2, <4>3 DEF Rotations
            <4> QED
                BY <4>1, <4>2, <4>4, <4>5, Zenon
        <3>2. rot' = [q \in Rotators |-> rot'[q]]
            BY <1>3 DEF Looks
        <3> QED
            BY <3>1, <3>2, Zenon
    <2> QED
        <3>1. written <= written'
            <4>1. written' = written
                BY <1>3, Zenon DEF Looks
            <4> QED
                BY <4>1
        <3> QED
            BY <1>3, <2>1, <3>1, Zenon DEF Looks
<1>4. ASSUME NEW p \in Rotators, DropsOldest(p)
      PROVE  Unfolded' /\ written <= written'
    <2>1. raced' \subseteq 1..written
        BY <1>4, HeldIsWritten DEF DropsOldest, Racing
    <2>2. rot' \in [Rotators -> Rotations]
        <3>1. rot[p] \in Rotations /\ Keep - 1 \in 0..Keep
            OBVIOUS
        <3> QED
            BY <1>4, <3>1 DEF DropsOldest, Rotations
    <2> QED
        <3>1. Keep \in Numbers
            BY DEF Numbers
        <3>2. archive' = [i \in Numbers |-> archive'[i]]
            BY <1>4, Zenon DEF DropsOldest
        <3>3. \A i \in Numbers : archive'[i] \subseteq archive[i]
            BY <1>4 DEF DropsOldest
        <3> QED
            BY <1>4, <2>1, <2>2, <3>1, <3>2, <3>3 DEF DropsOldest
<1>5. ASSUME NEW p \in Rotators, Shifts(p)
      PROVE  Unfolded' /\ written <= written'
    <2>1. raced' \subseteq 1..written /\ unmoved' \subseteq 1..written
        BY <1>5, LossesWereWritten, Zenon DEF Shifts
    <2>2. PICK left \in BOOLEAN :
            /\ rot' = [rot EXCEPT ![p] = [rot[p] EXCEPT !.slot = rot[p].slot - 1, !.left = left]]
            /\ \/ archive' = archive
               \/ archive' = [archive EXCEPT ![rot[p].slot + 1] = archive[rot[p].slot], ![rot[p].slot] = {}]
            /\ UNCHANGED logFaults \/ LogFault
        BY <1>5, RenameOutcomes, Zenon
    <2>3. UNCHANGED <<written, log, outdated, between>> /\ rot[p].slot > 0
        BY <1>5, Zenon DEF Shifts
    <2>4. rot' \in [Rotators -> Rotations]
        <3>1. rot[p] \in Rotations
            OBVIOUS
        <3>2. rot[p].slot - 1 \in 0..Keep
            BY <2>3, <3>1 DEF Rotations
        <3> DEFINE went == [rot[p] EXCEPT !.slot = rot[p].slot - 1, !.left = left]
        <3>3. rot' = [rot EXCEPT ![p] = went]
            BY <2>2, Zenon
        <3>4. went \in Rotations
            BY <3>1, <3>2 DEF Rotations
        <3> HIDE DEF went
        <3> QED
            BY <3>3, <3>4
    <2>5. rot[p].slot \in Numbers /\ rot[p].slot + 1 \in Numbers
        BY <1>5 DEF LogInv, Shifts, Numbers, Rotations
    <2>6. archive' = [i \in Numbers |-> archive'[i]] /\ \A i \in Numbers : archive'[i] \subseteq 1..written
        <3>1. CASE archive' = archive
            BY <3>1, Zenon
        <3>2. CASE archive' = [archive EXCEPT ![rot[p].slot + 1] = archive[rot[p].slot], ![rot[p].slot] = {}]
            BY <2>5, <3>2
        <3> QED
            BY <2>2, <3>1, <3>2, Zenon
    <2>7. logFaults' \in 0..MaxLogFaults
        BY <2>2 DEF LogFault
    <2>8. written <= written'
        BY <2>3
    <2> QED
        BY <2>1, <2>3, <2>4, <2>6, <2>7, <2>8, Zenon
<1>6. ASSUME NEW p \in Rotators, Copies(p)
      PROVE  Unfolded' /\ written <= written'
    <2>1. raced' \subseteq 1..written /\ unmoved' \subseteq 1..written
        BY <1>6, LossesWereWritten, Zenon DEF Copies
    <2>2. rot' \in [Rotators -> Rotations]
        <3> DEFINE copied == [rot[p] EXCEPT !.pc = "truncate", !.mark = written]
        <3>1. rot' = [rot EXCEPT ![p] = copied]
            BY <1>6, Zenon DEF Copies
        <3>2. rot[p] \in Rotations
            OBVIOUS
        <3>3. copied \in Rotations
            BY <3>2 DEF Rotations
        <3> HIDE DEF copied
        <3> QED
            BY <3>1, <3>3
    <2> QED
        BY <1>6, <2>1, <2>2 DEF Copies
<1>7. ASSUME NEW p \in Rotators, Truncates(p)
      PROVE  Unfolded' /\ written <= written'
    <2>1. raced' \subseteq 1..written
        BY <1>7, HeldIsWritten DEF Truncates, Racing
    <2>2. rot' \in [Rotators -> Rotations]
        BY <1>7 DEF Truncates, Rotations, NotRotating
    <2> QED
        BY <1>7, <2>1, <2>2 DEF Truncates
<1>8. ASSUME NEW p \in Rotators, RotationFails(p)
      PROVE  Unfolded' /\ written <= written'
    <2>1. rot' \in [Rotators -> Rotations]
        BY <1>8 DEF RotationFails, AfterFailure, Rotations, NotRotating
    <2>2. raced' \subseteq 1..written /\ unmoved' \subseteq 1..written
        BY <1>8, LossesWereWritten, Zenon DEF RotationFails
    <2>3. archive' = [i \in Numbers |-> archive'[i]] /\ \A i \in Numbers : archive'[i] \subseteq 1..written
        <3>1. /\ archive = [i \in Numbers |-> archive[i]] /\ log \subseteq 1..written
              /\ \A i \in Numbers : archive[i] \subseteq 1..written
            BY Zenon
        <3>2. CASE CopiesInPart(p)
            <4>1. PICK n \in 0..written : archive' = [archive EXCEPT ![1] = {l \in log : l <= n}]
                BY <3>2, Zenon DEF CopiesInPart
            <4> DEFINE part == {l \in log : l <= n}
            <4>2. part \subseteq 1..written
                BY <3>1
            <4>3. archive' = [archive EXCEPT ![1] = part]
                BY <4>1
            <4> HIDE DEF part, Unfolded
            <4> QED
                BY <3>1, <4>2, <4>3
        <3> QED
            BY <1>8, <3>1, <3>2, Zenon DEF RotationFails
    <2> QED
        BY <1>8, <2>1, <2>2, <2>3 DEF RotationFails, LogFault
<1> QED
    BY <1>2, <1>3, <1>4, <1>5, <1>6, <1>7, <1>8 DEF LogNext, RotationSteps
\* What a step loses whose rotation met another, or that writes over an archive left in its
\* place, is in the history, and the history only grows.
LEMMA LossIsNoted ==
    ASSUME NEW p, Racing(p), WritesOver(p), rot[p].met \/ rot[p].left
    PROVE  /\ Held \subseteq Held' \union raced' \union unmoved'
           /\ raced \subseteq raced' /\ unmoved \subseteq unmoved'
BY DEF Racing, WritesOver

\* Each call of a rotation, each line written and each end of a process keeps the invariant.
LEMMA LogStep ==
    ASSUME LogInv, LogNext
    PROVE  LogInv'
<1> DEFINE InOrder == \A q \in Rotators : /\ rot[q].mark <= written
                                          /\ rot[q].pc = "shift" => rot[q].slot < Keep
<1>1. /\ written \in 0..MaxLines /\ rot \in [Rotators -> Rotations]
      /\ archive = [i \in Numbers |-> archive[i]] /\ FilesHold(1..written)
    BY LogTypesUnfold DEF LogInv
<1>2. InOrder /\ AloneIsSafe /\ LostLinesAreExplained
    BY DEF LogInv
<1>3. LogTypeOK' /\ written' \in 0..MaxLines /\ written <= written'
    BY LogTypesKeep DEF LogTypeOK
<1> SUFFICES InOrder' /\ AloneIsSafe' /\ LostLinesAreExplained'
    BY <1>3 DEF LogInv
<1> USE RotationAssumption
<1>4. CASE DaemonWrites
    <2>1. InOrder'
        BY <1>1, <1>2, <1>4 DEF DaemonWrites, Rotations
    <2>2. AloneIsSafe'
        <3> SUFFICES ASSUME NEW q \in Rotators, rot[q].pc # "rest", ~rot[q].met
                     PROVE  /\ UnderWay = {q}
                            /\ rot[q].pc = "shift" => rot[q].left \/ archive[rot[q].slot + 1] = {}
                            /\ rot[q].pc = "truncate" => \A l \in log' : l <= rot[q].mark => l \in archive[1]
            BY <1>4 DEF DaemonWrites, AloneIsSafe, UnderWay
        <3>1. ~(written' <= rot[q].mark)
            BY <1>1, <1>2, <1>4 DEF DaemonWrites, Rotations
        <3> QED
            BY <1>2, <1>4, <3>1 DEF DaemonWrites, AloneIsSafe
    <2>3. LostLinesAreExplained'
        <3>1. Held' = Held \union {written'}
            BY <1>4 DEF DaemonWrites, Held
        <3>2. 1..written' = (1..written) \union {written'}
            BY <1>1, <1>4 DEF DaemonWrites
        <3> QED
            BY <1>2, <1>4, <3>1, <3>2, Zenon DEF DaemonWrites, LostLinesAreExplained
    <2> QED
        BY <2>1, <2>2, <2>3
<1>5. ASSUME NEW p \in Rotators, Looks(p)
      PROVE  InOrder' /\ AloneIsSafe' /\ LostLinesAreExplained'
    <2>1. UNCHANGED <<written, log, archive, outdated, unmoved, between, raced, logFaults>>
        BY <1>5, Zenon DEF Looks
    <2>2. ASSUME NEW q \in Rotators
          PROVE  rot'[q] = IF q = p THEN [NotRotating EXCEPT !.pc = "drop", !.met = UnderWay # {}]
                           ELSE [rot[q] EXCEPT !.met = rot[q].met \/ q \in UnderWay]
        BY <1>5 DEF Looks
    <2>3. /\ rot'[p].pc = "drop" /\ rot'[p].mark = 0 /\ (rot'[p].met <=> UnderWay # {})
          /\ \A q \in Rotators \ {p} : /\ rot'[q].pc = rot[q].pc /\ rot'[q].slot = rot[q].slot
                                       /\ rot'[q].mark = rot[q].mark
                                       /\ (rot'[q].met <=> rot[q].met \/ q \in UnderWay)
        <3>1. NotRotating \in Rotations
            BY DEF NotRotating, Rotations
        <3>2. /\ rot'[p].pc = "drop" /\ rot'[p].mark = 0 /\ (rot'[p].met <=> UnderWay # {})
            BY <2>2, <3>1, ZenonT(30) DEF NotRotating, Rotations
        <3> QED
            <4> SUFFICES ASSUME NEW q \in Rotators \ {p}
                         PROVE  /\ rot'[q].pc = rot[q].pc /\ rot'[q].slot = rot[q].slot
                                /\ rot'[q].mark = rot[q].mark
                                /\ (rot'[q].met <=> rot[q].met \/ q \in UnderWay)
                BY <3>2
            <4>1. rot'[q] = [rot[q] EXCEPT !.met = rot[q].met \/ q \in UnderWay]
                BY <2>2
            <4>2. rot[q] \in Rotations
                BY <1>1
            <4> QED
                BY <4>1, <4>2 DEF Rotations
    <2>4. UnderWay' = UnderWay \union {p}
        BY <2>3 DEF UnderWay
    <2>5. InOrder'
        BY <1>1, <1>2, <2>1, <2>3
    <2>6. AloneIsSafe'
        BY <2>3, <2>4 DEF AloneIsSafe, UnderWay
    <2>7. LostLinesAreExplained'
        <3>1. Held' = Held
            BY <2>1 DEF Held
        <3>2. (1..written)' = 1..written /\ outdated' = outdated /\ unmoved' = unmoved
              /\ between' = between /\ raced' = raced
            BY <2>1
        <3> HIDE DEF Held
        <3> QED
            BY <1>2, <3>1, <3>2 DEF LostLinesAreExplained
    <2> QED
        BY <2>5, <2>6, <2>7
<1>6. ASSUME NEW p \in Rotators, rot[p].pc # "rest"
      PROVE  \A q \in Rotators \ {p} : rot[q].pc = "rest" \/ rot[q].met
    BY <1>2, <1>6 DEF AloneIsSafe, UnderWay
<1>7. ASSUME NEW p \in Rotators, DropsOldest(p)
      PROVE  InOrder' /\ AloneIsSafe' /\ LostLinesAreExplained'
    <2>1. /\ rot[p].pc = "drop" /\ rot'[p].pc = "shift" /\ rot'[p].slot = Keep - 1
          /\ rot'[p].mark = rot[p].mark /\ rot'[p].met = rot[p].met
          /\ \A q \in Rotators \ {p} : rot'[q] = rot[q]
        BY <1>1, <1>7 DEF DropsOldest, Rotations
    <2>2. /\ written' = written /\ log' = log /\ between' = between /\ unmoved' = unmoved
          /\ outdated' = outdated \union archive[Keep] /\ Racing(p)
          /\ archive'[Keep] = {} /\ \A i \in Numbers \ {Keep} : archive'[i] = archive[i]
        BY <1>1, <1>7 DEF DropsOldest, Numbers
    <2>3. InOrder'
        BY <1>1, <1>2, <2>1, <2>2 DEF Rotations
    <2>4. AloneIsSafe'
        BY <1>6, <1>2, <2>1, <2>2 DEF AloneIsSafe, UnderWay
    <2>5. Held \subseteq Held' \union outdated'
        BY <2>2 DEF Held
    <2>6. LostLinesAreExplained'
        BY <1>2, <2>2, <2>5 DEF LostLinesAreExplained, Racing
    <2> QED
        BY <2>3, <2>4, <2>6
<1>8. ASSUME NEW p \in Rotators, Shifts(p)
      PROVE  InOrder' /\ AloneIsSafe' /\ LostLinesAreExplained'
    <2> DEFINE i == rot[p].slot
    <2>1. i \in Numbers /\ i + 1 \in Numbers /\ i - 1 \in 0..Keep /\ rot[p].pc = "shift"
        BY <1>1, <1>2, <1>8 DEF Shifts, Numbers, Rotations
    <2>2. PICK left \in BOOLEAN :
            /\ rot' = [rot EXCEPT ![p] = [rot[p] EXCEPT !.slot = rot[p].slot - 1, !.left = left]]
            /\ \/ ~left /\ archive[rot[p].slot] = {} /\ archive' = archive
               \/ ~left /\ archive' = [archive EXCEPT ![rot[p].slot + 1] = archive[rot[p].slot],
                                                     ![rot[p].slot] = {}]
               \/ left /\ archive' = archive
        BY <1>8, RenameOutcomes, Zenon
    <2>3. /\ rot'[p].pc = "shift" /\ rot'[p].slot = i - 1 /\ rot'[p].left = left
          /\ rot'[p].mark = rot[p].mark /\ rot'[p].met = rot[p].met
          /\ \A q \in Rotators \ {p} : rot'[q] = rot[q]
        BY <1>1, <2>1, <2>2 DEF Rotations
    <2>4. UNCHANGED <<written, log, outdated, between>> /\ Racing(p) /\ WritesOver(p)
        BY <1>8, Zenon DEF Shifts
    <2>5. /\ left \/ archive'[i] = {}
          /\ \/ archive' = archive
             \/ archive'[i + 1] = archive[i] /\ \A j \in Numbers \ {i, i + 1} : archive'[j] = archive[j]
        <3>1. CASE ~left /\ archive' = [archive EXCEPT ![i + 1] = archive[i], ![i] = {}]
            <4>1. i # i + 1
                BY <2>1 DEF Numbers
            <4> HIDE DEF i
            <4> QED
                BY <1>1, <2>1, <3>1, <4>1
        <3>2. CASE archive' = archive /\ (left \/ archive[i] = {})
            BY <3>2
        <3> QED
            BY <2>2, <3>1, <3>2, Zenon
    <2>6. InOrder'
        <3>1. /\ rot'[p].mark <= written' /\ rot'[p].slot < Keep
              /\ \A q \in Rotators \ {p} : rot[q].mark <= written'
            BY <1>1, <1>2, <2>1, <2>3, <2>4 DEF Rotations, Numbers
        <3> QED
            BY <1>2, <2>3, <3>1
    <2>7. AloneIsSafe'
        <3>1. i - 1 + 1 = i
            BY <2>1 DEF Numbers
        <3> QED
            BY <1>6, <1>2, <2>1, <2>3, <2>4, <2>5, <3>1 DEF AloneIsSafe, UnderWay
    <2>8. CASE rot[p].met \/ rot[p].left
        BY <1>2, <2>4, <2>6, <2>7, <2>8, LossIsNoted, Zenon DEF LostLinesAreExplained
    <2>9. CASE ~(rot[p].met \/ rot[p].left)
        <3>1. archive[i + 1] = {}
            BY <1>2, <2>1, <2>9 DEF AloneIsSafe
        <3>2. Held \subseteq Held'
            BY <2>1, <2>4, <2>5, <3>1 DEF Held
        <3> QED
            BY <1>2, <2>4, <2>6, <2>7, <3>2 DEF LostLinesAreExplained, Racing, WritesOver
    <2> QED
        BY <2>8, <2>9
<1>9. ASSUME NEW p \in Rotators, Copies(p)
      PROVE  InOrder' /\ AloneIsSafe' /\ LostLinesAreExplained'
    <2>1. /\ rot[p].pc = "shift" /\ rot[p].slot = 0
          /\ rot'[p].pc = "truncate" /\ rot'[p].mark = written /\ rot'[p].met = rot[p].met
          /\ \A q \in Rotators \ {p} : rot'[q] = rot[q]
        BY <1>1, <1>9 DEF Copies, Rotations
    <2>2. /\ UNCHANGED <<written, log, outdated, between>>
          /\ archive'[1] = log /\ \A j \in Numbers \ {1} : archive'[j] = archive[j]
        BY <1>1, <1>9 DEF Copies, Numbers
    <2>2a. Racing(p) /\ WritesOver(p)
        BY <1>9, Zenon DEF Copies
    <2>3. InOrder'
        <3>1. written' = written /\ written <= written
            BY <1>1, <2>2
        <3> QED
            BY <1>2, <2>1, <3>1
    <2>4. AloneIsSafe'
        BY <1>6, <1>2, <2>1, <2>2 DEF AloneIsSafe, UnderWay
    <2>5. CASE rot[p].met \/ rot[p].left
        BY <1>2, <2>2, <2>2a, <2>3, <2>4, <2>5, LossIsNoted, Zenon DEF LostLinesAreExplained
    <2>6. CASE ~(rot[p].met \/ rot[p].left)
        <3>1. archive[1] = {}
            BY <1>2, <2>1, <2>6 DEF AloneIsSafe
        <3>2. Held \subseteq Held'
            BY <2>2, <3>1 DEF Held
        <3> QED
            BY <1>2, <2>2, <2>2a, <2>3, <2>4, <3>2 DEF LostLinesAreExplained, Racing, WritesOver
    <2> QED
        BY <2>5, <2>6
<1>10. ASSUME NEW p \in Rotators, Truncates(p)
      PROVE  InOrder' /\ AloneIsSafe' /\ LostLinesAreExplained'
    <2>1. /\ rot[p].pc = "truncate" /\ rot'[p].pc = "rest" /\ rot'[p].mark = 0
          /\ \A q \in Rotators \ {p} : rot'[q] = rot[q]
        BY <1>1, <1>10 DEF Truncates, Rotations, NotRotating
    <2>2. /\ UNCHANGED <<written, archive, outdated, unmoved>> /\ Racing(p)
          /\ log' = {} /\ between' = between \union {l \in log : l > rot[p].mark}
        BY <1>10, Zenon DEF Truncates
    <2>3. InOrder'
        BY <1>1, <1>2, <2>1, <2>2 DEF Rotations
    <2>4. AloneIsSafe'
        BY <1>6, <1>2, <2>1, <2>2 DEF AloneIsSafe, UnderWay
    <2>5. CASE rot[p].met
        <3>1. Held \subseteq Held' \union raced' /\ raced \subseteq raced' /\ between \subseteq between'
            BY <2>2, <2>5 DEF Racing
        <3> QED
            BY <1>2, <2>2, <2>3, <2>4, <3>1, Zenon DEF LostLinesAreExplained
    <2>6. CASE ~rot[p].met
        <3>1. \A l \in log : l \in archive[1] \/ l \in between'
            <4> SUFFICES ASSUME NEW l \in log PROVE l <= rot[p].mark \/ l > rot[p].mark
                BY <1>2, <2>1, <2>2, <2>6 DEF AloneIsSafe
            <4> QED
                BY <1>1 DEF FilesHold, Rotations
        <3>2. Held \subseteq Held' \union between'
            BY <2>2, <3>1 DEF Held, Numbers
        <3> QED
            BY <1>2, <2>2, <2>3, <2>4, <3>2 DEF LostLinesAreExplained, Racing
    <2> QED
        BY <2>5, <2>6
<1>11. ASSUME NEW p \in Rotators, RotationFails(p)
      PROVE  InOrder' /\ AloneIsSafe' /\ LostLinesAreExplained'
    <2>1. /\ rot[p].pc # "rest" /\ rot'[p].pc = "rest" /\ rot'[p].mark = 0
          /\ \A q \in Rotators \ {p} : rot'[q] = rot[q]
        BY <1>1, <1>11 DEF RotationFails, AfterFailure, Rotations, NotRotating
    <2>2. UNCHANGED <<written, log, outdated, between>> /\ (archive' = archive \/ CopiesInPart(p))
        BY <1>11, Zenon DEF RotationFails
    <2>2a. Racing(p) /\ WritesOver(p)
        BY <1>11, Zenon DEF RotationFails
    <2>3. InOrder'
        BY <1>1, <1>2, <2>1, <2>2 DEF Rotations
    <2>4. AloneIsSafe'
        BY <1>6, <1>2, <2>1, <2>2 DEF AloneIsSafe, UnderWay
    <2>5. CASE rot[p].met \/ rot[p].left
        BY <1>2, <2>2, <2>2a, <2>3, <2>4, <2>5, LossIsNoted, Zenon DEF LostLinesAreExplained
    <2>6. CASE ~(rot[p].met \/ rot[p].left)
        <3>1. ASSUME archive' = archive PROVE Held \subseteq Held'
            BY <2>2, <3>1 DEF Held
        <3>2. ASSUME CopiesInPart(p) PROVE Held \subseteq Held'
            <4>1. archive[1] = {}
                BY <1>2, <2>6, <3>2 DEF AloneIsSafe, CopiesInPart
            <4>2. \A j \in Numbers \ {1} : archive'[j] = archive[j]
                BY <1>1, <3>2 DEF CopiesInPart
            <4> QED
                BY <2>2, <4>1, <4>2 DEF Held
        <3>3. Held \subseteq Held'
            BY <2>2, <3>1, <3>2, Zenon
        <3> QED
            BY <1>2, <2>2, <2>2a, <2>3, <2>4, <3>3 DEF LostLinesAreExplained, Racing, WritesOver
    <2> QED
        BY <2>5, <2>6
<1> QED
    BY <1>4, <1>5, <1>7, <1>8, <1>9, <1>10, <1>11 DEF LogNext, RotationSteps

LEMMA LogInvHolds == LogSpec => []LogInv
<1>1. LogInv /\ UNCHANGED logVars => LogInv'
    BY DEF logVars, LogInv, LogTypeOK, AloneIsSafe, UnderWay, LostLinesAreExplained, Held
<1>2. LogInv /\ [LogNext]_logVars => LogInv'
    BY <1>1, LogStep
<1> QED
    BY <1>2, LogInvInit, PTL DEF LogSpec

\* Files and history hold lines that were written, and a rotation's record is in order.
THEOREM LogTypes == LogSpec => []LogTypeOK
<1>1. LogInv => LogTypeOK
    BY DEF LogInv
<1> QED
    BY <1>1, LogInvHolds, PTL

\* However many processes rotate one log, whichever calls fail and wherever they end: a line that
\* is nowhere any more was in the oldest archive, or in an archive that could not be renamed and
\* was written over, or was written between a copy and the emptying after it, or went while two
\* processes rotated at once.
THEOREM LinesAreAccountedFor == LogSpec => []LostLinesAreExplained
<1>1. LogInv => LostLinesAreExplained
    BY DEF LogInv
<1> QED
    BY <1>1, LogInvHolds, PTL

-----------------------------------------------------------------------------
(* The platform's daemons.                                                 *)

LookStates == [pc : {"rest", "locks", "decide"}, files : [Scopes -> Files],
          health : {"none", "up", "unknown", "dead", "stalled", "disconnected"}]

\* The type invariant with the record of a look taken apart.
LEMMA PlatformTypesUnfold ==
    PlatformTypeOK <=>
      /\ flat \in BOOLEAN /\ style \in [Scopes -> Styles]
      /\ runs \in [Scopes -> BOOLEAN] /\ link \in [Scopes -> Links]
      /\ file \in [Scopes -> Files]
      /\ pidfile \in [Scopes -> {"none", "live", "dead"}]
      /\ posted \in 0..MaxPosts /\ missing \subseteq 1..posted /\ topped \subseteq missing
      /\ overtaken \subseteq missing
      /\ look \in LookStates
      /\ fates \in 0..MaxTurnsOfFate /\ readFaults \in 0..MaxReadFaults
BY DEF PlatformTypeOK, LookStates

LEMMA NoFileIsAFile == NoFile \in Files /\ AtRest \in LookStates
<1>1. NoFile \in Files
    BY DEF Files
<1>2. [d \in Scopes |-> NoFile] \in [Scopes -> Files]
    BY <1>1
<1> QED
    BY <1>1, <1>2 DEF AtRest, LookStates

LEMMA PlatformTypesInit == PlatformInit => PlatformTypeOK
<1> SUFFICES ASSUME PlatformInit PROVE PlatformTypeOK
    OBVIOUS
<1>1. file \in [Scopes -> Files] /\ look \in LookStates
    BY NoFileIsAFile DEF PlatformInit
<1>2. link \in [Scopes -> Links]
    BY DEF PlatformInit, Links
<1>3. /\ flat \in BOOLEAN /\ style \in [Scopes -> Styles] /\ runs \in [Scopes -> BOOLEAN]
      /\ pidfile \in [Scopes -> {"none", "live", "dead"}]
      /\ missing = {} /\ topped = {} /\ overtaken = {}
    BY DEF PlatformInit
<1>4. posted \in 0..MaxPosts /\ fates \in 0..MaxTurnsOfFate /\ readFaults \in 0..MaxReadFaults
    BY PlatformAssumption DEF PlatformInit
<1> QED
    BY <1>1, <1>2, <1>3, <1>4, PlatformTypesUnfold

\* The counters stay below their bounds.
LEMMA PlatformCountersStay ==
    ASSUME PlatformTypeOK
    PROVE  /\ Fate => fates' \in 0..MaxTurnsOfFate
           /\ ReadFault => readFaults' \in 0..MaxReadFaults
<1>1. fates \in 0..MaxTurnsOfFate /\ readFaults \in 0..MaxReadFaults
    BY PlatformTypesUnfold
<1>2. Fate => fates < MaxTurnsOfFate /\ fates' = fates + 1
    BY DEF Fate
<1>3. ReadFault => readFaults < MaxReadFaults /\ readFaults' = readFaults + 1
    BY DEF ReadFault
<1> QED
    BY <1>1, <1>2, <1>3, PlatformAssumption

\* The verdict of a round is one of the five.
LEMMA VerdictIsKnown ==
    ASSUME NEW files \in [Scopes -> Files]
    PROVE  Observed(files) \in {"up", "unknown", "dead", "stalled", "disconnected"}
<1>1. Best(files) \in Scopes
    BY DEF Best, Scopes
<1>2. CASE Matching(files) # {}
    <2>1. files[Best(files)] # NoFile /\ files[Best(files)] \in Files
        BY <1>1, <1>2 DEF Best, Matching, Covering, Scopes
    <2>2. files[Best(files)].row \in Links \union {"silent"}
        BY <2>1 DEF Files
    <2> QED
        BY <1>2, <2>2 DEF Observed, HealthOf, ConnectionHealth, Links
<1>3. CASE Matching(files) = {}
    BY <1>3 DEF Observed
<1> QED
    BY <1>2, <1>3

\* Each step keeps the types: a look holds what the files said when it was taken.
LEMMA PlatformTypesStep == ASSUME PlatformTypeOK, PlatformNext PROVE PlatformTypeOK'
<1>0. /\ flat \in BOOLEAN /\ style \in [Scopes -> Styles]
      /\ runs \in [Scopes -> BOOLEAN] /\ link \in [Scopes -> Links]
      /\ file \in [Scopes -> Files]
      /\ pidfile \in [Scopes -> {"none", "live", "dead"}]
      /\ posted \in 0..MaxPosts /\ missing \subseteq 1..posted /\ topped \subseteq missing
      /\ overtaken \subseteq missing
      /\ look \in LookStates
      /\ fates \in 0..MaxTurnsOfFate /\ readFaults \in 0..MaxReadFaults
    BY PlatformTypesUnfold
<1> DEFINE Q == /\ flat \in BOOLEAN /\ style \in [Scopes -> Styles]
                /\ runs \in [Scopes -> BOOLEAN] /\ link \in [Scopes -> Links]
                /\ file \in [Scopes -> Files]
                /\ pidfile \in [Scopes -> {"none", "live", "dead"}]
                /\ posted \in 0..MaxPosts /\ missing \subseteq 1..posted /\ topped \subseteq missing
                /\ overtaken \subseteq missing
                /\ look \in LookStates
                /\ fates \in 0..MaxTurnsOfFate /\ readFaults \in 0..MaxReadFaults
<1> SUFFICES Q'
    <2>1. PlatformTypeOK <=> Q
        BY PlatformTypesUnfold
    <2> HIDE DEF Q
    <2>2. (Q <=> PlatformTypeOK)'
        BY PlatformTypesUnfold, PTL DEF Q
    <2> QED
        BY <2>2
<1>1. ASSUME NEW d \in Scopes, DaemonStarts(d) \/ LinkChanges(d) PROVE Q'
    <2>1. UNCHANGED <<flat, style, file, posted, missing, topped, look, readFaults>> /\ Fate
        BY <1>1, Zenon DEF DaemonStarts, LinkChanges, setting
    <2>2. fates' \in 0..MaxTurnsOfFate
        BY <2>1, PlatformCountersStay
    <2>3. runs' \in [Scopes -> BOOLEAN] /\ link' \in [Scopes -> Links]
        BY <1>0, <1>1, ZenonT(30) DEF DaemonStarts, LinkChanges
    <2>4. pidfile' \in [Scopes -> {"none", "live", "dead"}]
        BY <1>0, <1>1 DEF DaemonStarts, LinkChanges
    <2>5. overtaken' \subseteq missing
        BY <1>0, <1>1 DEF DaemonStarts, LinkChanges, Overtakes
    <2> QED
        BY <1>0, <2>1, <2>2, <2>3, <2>4, <2>5
<1>2. ASSUME NEW d \in Scopes, DaemonEnds(d) PROVE Q'
    <2>1. UNCHANGED <<flat, style, link, file, posted, missing, topped, overtaken, look, readFaults>> /\ Fate
        BY <1>2, Zenon DEF DaemonEnds, setting, mailbag
    <2>2. fates' \in 0..MaxTurnsOfFate
        BY <2>1, PlatformCountersStay
    <2>3. runs' \in [Scopes -> BOOLEAN]
        BY <1>0, <1>2 DEF DaemonEnds
    <2>4. pidfile' \in [Scopes -> {"none", "live", "dead"}]
        BY <1>0, <1>2 DEF DaemonEnds
    <2> QED
        BY <1>0, <2>1, <2>2, <2>3, <2>4
<1>3. ASSUME NEW d \in Scopes, Beats(d) PROVE Q'
    <2>1. UNCHANGED <<flat, style, runs, link, pidfile, posted, missing, topped, overtaken, look, fates, readFaults>>
        BY <1>3, Zenon DEF Beats, setting, mailbag
    <2>2. [row |-> IF style[d] = "no row" THEN "silent" ELSE link[d], fresh |-> TRUE] \in Files
        BY <1>0 DEF Files
    <2>3. file' \in [Scopes -> Files]
        BY <1>0, <1>3, <2>2 DEF Beats
    <2> QED
        BY <1>0, <2>1, <2>3
<1>4. ASSUME NEW d \in Scopes, BeatAges(d) PROVE Q'
    <2>1. UNCHANGED <<flat, style, runs, link, pidfile, posted, missing, topped, overtaken, look, fates>>
        BY <1>4, Zenon DEF BeatAges, setting, mailbag
    <2>2. readFaults' \in 0..MaxReadFaults
        BY <1>0, <1>4, PlatformCountersStay, Zenon DEF BeatAges
    <2>3. [file[d] EXCEPT !.fresh = FALSE] \in Files
        BY <1>0, <1>4 DEF Files, BeatAges
    <2>4. file' = [file EXCEPT ![d] = [file[d] EXCEPT !.fresh = FALSE]]
        BY <1>0, <1>4 DEF BeatAges
    <2>5. file' \in [Scopes -> Files]
        BY <1>0, <2>3, <2>4
    <2> QED
        BY <1>0, <2>1, <2>2, <2>5
<1>5. CASE MailComes
    <2>1. UNCHANGED <<flat, style, runs, link, file, pidfile, topped, overtaken, look, fates, readFaults>>
        BY <1>5, Zenon DEF MailComes, setting, daemons
    <2>2. posted < MaxPosts /\ posted' = posted + 1
        BY <1>5 DEF MailComes
    <2>3. posted' \in 0..MaxPosts /\ 1..posted \subseteq 1..posted' /\ posted' \in 1..posted'
        BY <1>0, <2>2, PlatformAssumption
    <2>4. missing' = missing \/ missing' = missing \union {posted'}
        BY <1>5 DEF MailComes
    <2>5. missing' \subseteq 1..posted' /\ topped \subseteq missing' /\ overtaken \subseteq missing'
        BY <1>0, <2>3, <2>4, Zenon
    <2> QED
        BY <1>0, <2>1, <2>3, <2>5
<1>6. CASE ReadsStatuses
    <2>1. UNCHANGED <<flat, style, runs, link, file, pidfile, posted, missing, topped, overtaken, fates>>
        BY <1>6, Zenon DEF ReadsStatuses, setting, daemons, mailbag
    <2>2. readFaults' \in 0..MaxReadFaults
        BY <1>0, <1>6, PlatformCountersStay, Zenon DEF ReadsStatuses
    <2>3. PICK torn : look' = [look EXCEPT !.pc = "locks",
                               !.files = [d \in Scopes |-> IF d \in torn THEN NoFile ELSE file[d]]]
        BY <1>6 DEF ReadsStatuses
    <2>4. [d \in Scopes |-> IF d \in torn THEN NoFile ELSE file[d]] \in [Scopes -> Files]
        BY <1>0, NoFileIsAFile
    <2>5. look' \in LookStates
        BY <1>0, <2>3, <2>4 DEF LookStates
    <2> QED
        BY <1>0, <2>1, <2>2, <2>5
<1>7. CASE ReadsLocks
    <2>1. UNCHANGED <<flat, style, runs, link, file, pidfile, posted, missing, topped, overtaken, fates, readFaults>>
        BY <1>7, Zenon DEF ReadsLocks, setting, daemons, mailbag
    <2>2. look.files \in [Scopes -> Files]
        BY <1>0 DEF LookStates
    <2>3. Observed(look.files) \in {"up", "unknown", "dead", "stalled", "disconnected"}
        BY <2>2, VerdictIsKnown
    <2>4. look' \in LookStates
        BY <1>0, <1>7, <2>3 DEF LookStates, ReadsLocks
    <2> QED
        BY <1>0, <2>1, <2>4
<1>8. CASE EndsLook
    <2>1. UNCHANGED <<flat, style, runs, link, file, pidfile, posted, missing, overtaken, fates>> /\ look' = AtRest
        BY <1>8, Zenon DEF EndsLook, setting, daemons
    <2>2. readFaults' \in 0..MaxReadFaults
        BY <1>0, <1>8, PlatformCountersStay, Zenon DEF EndsLook
    <2>3. topped' \subseteq missing
        BY <1>0, <1>8 DEF EndsLook
    <2> QED
        BY <1>0, <2>1, <2>2, <2>3, NoFileIsAFile
<1> QED
    BY <1>1, <1>2, <1>3, <1>4, <1>5, <1>6, <1>7, <1>8 DEF PlatformNext, LookSteps

\* The files of the daemons, the mail and the looks at them are of their kinds.
THEOREM PlatformTypes == PlatformSpec => []PlatformTypeOK
<1>1. PlatformTypeOK /\ [PlatformNext]_platformVars => PlatformTypeOK'
    <2>1. ASSUME PlatformTypeOK, UNCHANGED platformVars PROVE PlatformTypeOK'
        BY <2>1 DEF PlatformTypeOK, platformVars
    <2> QED
        BY <2>1, PlatformTypesStep
<1> QED
    BY PlatformTypesInit, <1>1, PTL DEF PlatformSpec

\* What the verdict of a round is worth, for files of the shape the daemons write.
LEMMA PlatformReports == PlatformTypeOK => ReportAgreesWithRounds
<1> SUFFICES ASSUME PlatformTypeOK PROVE ReportAgreesWithRounds
    OBVIOUS
<1> DEFINE best == Best(file)
           asks == CallsForTopUp(Observed(file))
           rows == {file[d].row : d \in Matching(file)}
<1>1. file \in [Scopes -> Files]
    BY PlatformTypesUnfold
<1>2. \A d \in Matching(file) : d \in Scopes /\ file[d].row \in Links \union {"silent"}
    <2> SUFFICES ASSUME NEW d \in Matching(file)
                 PROVE  d \in Scopes /\ file[d].row \in Links \union {"silent"}
        OBVIOUS
    <2>1. d \in Scopes /\ file[d] # NoFile
        BY DEF Matching, Covering, Scopes
    <2>2. file[d] \in [row : Links \union {"silent"}, fresh : BOOLEAN]
        BY <1>1, <2>1 DEF Files
    <2> QED
        BY <2>1, <2>2
<1>3. Matching(file) # {} => best \in Matching(file)
    BY DEF Best, Matching, Covering, Scopes
<1>4. WakeSource = "ledger" => ScopeCovered /\ "stalled" \notin rows /\ "disconnected" \notin rows
    BY DEF WakeSource, ConnectionAxis
<1>5. WakeSource = "top-up-only" => "stalled" \in rows \/ "disconnected" \in rows
    BY DEF WakeSource, ConnectionAxis
<1>6. WakeSource = "none" => ~ScopeCovered
    BY DEF WakeSource
<1>7. CASE Matching(file) = {}
    <2>1. ~asks <=> ScopeCovered
        BY <1>7 DEF Observed, CallsForTopUp
    <2>2. rows = {}
        BY <1>7
    <2> QED
        BY <1>4, <1>5, <1>6, <2>1, <2>2 DEF ReportAgreesWithRounds
<1>8. CASE Matching(file) # {}
    <2>1. Observed(file) = HealthOf(best, file[best]) /\ best \in Matching(file)
        BY <1>3, <1>8 DEF Observed
    <2>2. file[best].row \in rows /\ file[best].row \in Links \union {"silent"}
        BY <1>2, <2>1
    <2>3. WakeSource = "ledger" => ~asks \/ LateBeat
        <3> SUFFICES ASSUME WakeSource = "ledger", ~LateBeat PROVE ~asks
            OBVIOUS
        <3>1. style[best] = "no beat" \/ file[best].fresh
            BY <2>1 DEF LateBeat
        <3>2. file[best].row \in {"connected", "silent"}
            BY <1>4, <2>2 DEF Links
        <3> HIDE DEF best
        <3>3. HealthOf(best, file[best]) \in {"up", "unknown"}
            BY <3>1, <3>2 DEF HealthOf, ConnectionHealth
        <3> QED
            BY <2>1, <3>3 DEF CallsForTopUp
    <2>4. WakeSource = "top-up-only" => asks \/ \E d \in Matching(file) : file[d].row # file[best].row
        <3> SUFFICES ASSUME WakeSource = "top-up-only",
                            \A d \in Matching(file) : file[d].row = file[best].row
                     PROVE asks
            OBVIOUS
        <3>1. file[best].row \in {"stalled", "disconnected"}
            BY <1>5
        <3> HIDE DEF best
        <3>2. HealthOf(best, file[best]) \in {"dead", "stalled", "disconnected"}
            BY <3>1 DEF HealthOf, ConnectionHealth
        <3> QED
            BY <2>1, <3>2 DEF CallsForTopUp
    <2> QED
        BY <2>3, <2>4, <1>8 DEF ReportAgreesWithRounds
<1> QED
    BY <1>7, <1>8

\* Where the report counts on the ledger no round asks for the mail, and where it counts on
\* the rounds they ask for it, but for the exceptions named.
THEOREM TheReportAgrees == PlatformSpec => []ReportAgreesWithRounds
BY PlatformTypes, PlatformReports, PTL

-----------------------------------------------------------------------------
(* Who wakes the sessions.                                                 *)

Posts(n)  == [place : Places, key : 0..n, old : BOOLEAN] \union {NoPost}
Passes(n, k) == [life : 1..n, read : [Spaces -> Posts(k)]]
Loops(n, k)  == [life : 1..n, space : Spaces, runs : BOOLEAN, known : BOOLEAN,
                 place : Places \union {"any"}, key : 0..k]

\* Lives are numbered as they begin, keys no faster than the records change, and a life that
\* waits for the daemon's answer has begun nothing yet.
Numbered ==
  /\ life \in 0..MaxLives /\ changes \in 0..MaxChanges
  /\ plan \in {"ledger", "self"} /\ mounted \in BOOLEAN
  /\ post \in [Spaces -> Posts(changes)]
  /\ passes \subseteq Passes(life, changes) /\ followers \subseteq Loops(life, changes)
  /\ asking \subseteq 1..life /\ target \in 0..life /\ polls \subseteq 1..life
  /\ unsupported \subseteq 1..life /\ late \subseteq 1..life /\ rotated \subseteq Spaces
  /\ mounted => life # 0
Fresh ==
  /\ plan = "ledger" => asking = {} /\ unsupported = {} /\ target = 0
  /\ target \notin asking /\ polls \intersect asking = {}
  /\ \A p \in passes : p.life \notin asking
  /\ \A f \in followers : f.life \notin asking

\* Where the loops of a life may run.
Watches(l) == Current(l) /\ l \notin unsupported /\ target # l
\* A pass under way belongs to such a life, or to one that ran into it.
PassesAreTimely == \A p \in passes : p.life \in late \/ Watches(p.life)
\* So does a loop that runs; it is one the life knows of, and the only one of its workspace.  A
\* loop is told to end only when its life is over, or has fallen back.
LoopsAreTimely ==
  /\ \A f \in followers : f.known => f.runs
  /\ \A f \in followers : ~f.runs => ~Current(f.life) \/ f.life \in unsupported
  /\ \A f \in followers : f.runs /\ f.life \notin late => f.known /\ Watches(f.life)
  /\ \A f, g \in followers : f.runs /\ g.runs /\ f.life = g.life /\ f.space = g.space /\ f.life \notin late
                              => f = g
PollsAreTimely == \A l \in polls : l \in late \/ (Current(l) /\ target # l)

WiringInv == Numbered /\ Fresh /\ PassesAreTimely /\ LoopsAreTimely /\ PollsAreTimely

LEMMA WiringInvInit == WiringInit => WiringInv
<1> SUFFICES ASSUME WiringInit PROVE WiringInv
    OBVIOUS
<1>1. life = 0 /\ changes = 0 /\ target = 0
    BY Zenon DEF WiringInit
<1>2. life \in 0..MaxLives /\ changes \in 0..MaxChanges /\ target \in 0..life
    BY <1>1, WiringAssumption
<1>3. plan \in {"ledger", "self"} /\ mounted = FALSE
    BY Zenon DEF WiringInit
<1>4. post \in [Spaces -> Posts(changes)]
    <2>1. {NoPost} \union [place : Places, key : {0}, old : {TRUE}] \subseteq Posts(changes)
        <3>1. 0 \in 0..changes
            BY <1>1
        <3>2. [place : Places, key : {0}, old : {TRUE}] \subseteq [place : Places, key : 0..changes, old : BOOLEAN]
            BY <3>1
        <3> QED
            BY <3>2, Zenon DEF Posts
    <2>2. post \in [Spaces -> {NoPost} \union [place : Places, key : {0}, old : {TRUE}]]
        BY Zenon DEF WiringInit
    <2> QED
        BY <2>1, <2>2
<1>5. /\ asking = {} /\ passes = {} /\ followers = {} /\ polls = {} /\ unsupported = {} /\ late = {}
      /\ rotated = {}
    BY Zenon DEF WiringInit
<1> QED
    BY <1>1, <1>2, <1>3, <1>4, <1>5 DEF WiringInv, Numbered, Fresh, PassesAreTimely, LoopsAreTimely, PollsAreTimely

\* What is numbered stays so as the numbers grow.
LEMMA NumbersGrow ==
    ASSUME NEW n \in Nat, NEW m \in Nat, NEW k \in Nat, NEW j \in Nat, n <= m, k <= j
    PROVE  /\ Posts(k) \subseteq Posts(j) /\ Passes(n, k) \subseteq Passes(m, j)
           /\ Loops(n, k) \subseteq Loops(m, j) /\ 1..n \subseteq 1..m /\ 0..n \subseteq 0..m
<1>1. 0..k \subseteq 0..j /\ 1..n \subseteq 1..m /\ 0..n \subseteq 0..m
    OBVIOUS
<1>2. Posts(k) \subseteq Posts(j)
    BY <1>1 DEF Posts
<1>3. [Spaces -> Posts(k)] \subseteq [Spaces -> Posts(j)]
    BY <1>2
<1>4. Passes(n, k) \subseteq Passes(m, j)
    BY <1>1, <1>3 DEF Passes
<1> QED
    BY <1>1, <1>2, <1>4 DEF Loops

\* Loops that are told to end.
LEMMA HaltedLoops ==
    ASSUME NEW n, NEW k, NEW f \in Loops(n, k)
    PROVE  /\ Halted(f) \in Loops(n, k) /\ Halted(f).life = f.life /\ Halted(f).space = f.space
           /\ Halted(f).runs = FALSE /\ Halted(f).known = FALSE
BY DEF Halted, Loops

\* What a stop leaves of the loops: those it does not know go on, those it halts neither run nor
\* are known.
LEMMA StoppedLoops ==
    ASSUME NEW n, NEW k, NEW fs \in SUBSET Loops(n, k), NEW l
    PROVE  /\ Stopped(fs, l) \subseteq Loops(n, k)
           /\ \A f \in Stopped(fs, l) : \/ f \in fs /\ ~(f.life = l /\ f.known)
                                        \/ f.life = l /\ ~f.runs /\ ~f.known
<1> DEFINE kept == {g \in fs : ~(plan = "ledger" /\ g.life = l /\ g.known)}
<1>1. ASSUME NEW f \in Stopped(fs, l)
      PROVE  /\ f \in Loops(n, k)
             /\ \/ f \in fs /\ ~(f.life = l /\ f.known)
                \/ f.life = l /\ ~f.runs /\ ~f.known
    <2>1. PICK g \in kept : f = IF g.life = l /\ g.known THEN Halted(g) ELSE g
        BY <1>1 DEF Stopped
    <2>2. g \in Loops(n, k) /\ g \in fs
        BY <2>1
    <2> HIDE DEF kept
    <2>3. CASE g.life = l /\ g.known
        BY <2>1, <2>2, <2>3, HaltedLoops
    <2>4. CASE ~(g.life = l /\ g.known)
        <3>1. f = g
            BY <2>1, <2>4
        <3> QED
            BY <2>2, <2>4, <3>1, Zenon
    <2> QED
        BY <2>3, <2>4
<1> QED
    BY <1>1

\* What is left when a loop is forgotten: the others, the known ones of its workspace known no
\* more.
LEMMA ForgottenLoops ==
    ASSUME NEW n, NEW k, followers \subseteq Loops(n, k), NEW f \in followers
    PROVE  /\ Forgotten(f) \subseteq Loops(n, k)
           /\ \A g \in Forgotten(f) :
                \E h \in followers \ {f} :
                  /\ g.life = h.life /\ g.space = h.space /\ g.runs = h.runs
                  /\ g = h \/ (g.life = f.life /\ g.space = f.space /\ ~g.known)
<1>1. ASSUME NEW g \in Forgotten(f)
      PROVE  /\ g \in Loops(n, k)
             /\ \E h \in followers \ {f} :
                  /\ g.life = h.life /\ g.space = h.space /\ g.runs = h.runs
                  /\ g = h \/ (g.life = f.life /\ g.space = f.space /\ ~g.known)
    <2>1. PICK h \in followers \ {f} :
             g = IF h.life = f.life /\ h.space = f.space THEN [h EXCEPT !.known = FALSE] ELSE h
        BY <1>1 DEF Forgotten
    <2>2. /\ h \in Loops(n, k) /\ [h EXCEPT !.known = FALSE] \in Loops(n, k)
          /\ [h EXCEPT !.known = FALSE].life = h.life /\ [h EXCEPT !.known = FALSE].space = h.space
          /\ [h EXCEPT !.known = FALSE].runs = h.runs /\ ~[h EXCEPT !.known = FALSE].known
        BY DEF Loops
    <2> QED
        BY <2>1, <2>2
<1> QED
    BY <1>1

\* Each step of a life, of a pass and of the records keeps the invariant.
LEMMA WiringStep == ASSUME WiringInv, WiringNext PROVE WiringInv'
<1> USE WiringAssumption DEF WiringInv
<1>0. /\ life \in 0..MaxLives /\ changes \in 0..MaxChanges
      /\ plan \in {"ledger", "self"} /\ mounted \in BOOLEAN
      /\ post \in [Spaces -> Posts(changes)]
      /\ passes \subseteq Passes(life, changes) /\ followers \subseteq Loops(life, changes)
      /\ asking \subseteq 1..life /\ target \in 0..life /\ polls \subseteq 1..life
      /\ unsupported \subseteq 1..life /\ late \subseteq 1..life /\ rotated \subseteq Spaces
      /\ mounted => life # 0
    BY DEF Numbered
<1>lives. /\ \A p \in passes : p.life \in 1..life
          /\ \A f \in followers : f.life \in 1..life
    BY <1>0 DEF Passes, Loops
<1>1. ASSUME NEW w \in Spaces, RecordChanges(w) PROVE WiringInv'
    <2>1. UNCHANGED <<plan, life, mounted, asking, target, passes, followers, polls, unsupported, late>>
        BY <1>1, Zenon DEF RecordChanges, surroundings
    <2>2. changes < MaxChanges /\ changes' = changes + 1
        BY <1>1 DEF RecordChanges
    <2>3. changes \in Nat /\ changes' \in Nat /\ changes' \in 0..MaxChanges /\ changes <= changes' /\ life \in Nat
        BY <1>0, <2>2
    <2>4. /\ Posts(changes) \subseteq Posts(changes') /\ Passes(life, changes) \subseteq Passes(life, changes')
          /\ Loops(life, changes) \subseteq Loops(life, changes')
        BY <2>3, NumbersGrow
    <2>5. post' \in [Spaces -> Posts(changes')] /\ rotated' \subseteq Spaces
        <3>1. ASSUME NEW a \in Places, post' = [post EXCEPT ![w] = [place |-> a, key |-> 0, old |-> FALSE]]
              PROVE  post' \in [Spaces -> Posts(changes')]
            <4>1. [place |-> a, key |-> 0, old |-> FALSE] \in Posts(changes')
                BY <2>3 DEF Posts
            <4> QED
                BY <1>0, <2>4, <3>1, <4>1
        <3>2. ASSUME post' = [post EXCEPT ![w] = NoPost]
              PROVE  post' \in [Spaces -> Posts(changes')]
            <4>1. NoPost \in Posts(changes')
                BY DEF Posts
            <4> QED
                BY <1>0, <2>4, <3>2, <4>1
        <3>3. ASSUME post[w] # NoPost, post' = [post EXCEPT ![w].key = @ + 1]
              PROVE  post' \in [Spaces -> Posts(changes')]
            <4>1. post[w] \in [place : Places, key : 0..changes, old : BOOLEAN]
                BY <1>0, <3>3 DEF Posts
            <4>2. [post[w] EXCEPT !.key = post[w].key + 1] \in [place : Places, key : 0..changes', old : BOOLEAN]
                BY <2>2, <2>3, <4>1
            <4>3. post' = [post EXCEPT ![w] = [post[w] EXCEPT !.key = post[w].key + 1]]
                BY <1>0, <3>3
            <4> QED
                BY <1>0, <2>4, <4>2, <4>3 DEF Posts
        <3>4. rotated' \subseteq Spaces
            BY <1>0, <1>1 DEF RecordChanges
        <3> QED
            BY <1>1, <3>1, <3>2, <3>3, <3>4 DEF RecordChanges
    <2>6. Numbered'
        BY <1>0, <2>1, <2>3, <2>4, <2>5 DEF Numbered
    <2> QED
        BY <2>1, <2>6 DEF Fresh, PassesAreTimely, LoopsAreTimely, PollsAreTimely, Watches, Current
<1>2. CASE Mounts
    <2>1. UNCHANGED <<plan, post, target, passes, followers, polls, unsupported, late, changes>>
        BY <1>2, Zenon DEF Mounts, surroundings
    <2>2. ~mounted /\ mounted' = TRUE /\ rotated' = {} /\ life < MaxLives /\ life' = life + 1
        BY <1>2 DEF Mounts
    <2>3. asking' \subseteq asking \union {life'} /\ (plan = "ledger" => asking' = asking)
        BY <1>2 DEF Mounts
    <2>4. /\ life \in Nat /\ life' \in Nat /\ changes \in Nat /\ life <= life' /\ life' \in 0..MaxLives
          /\ life' \in 1..life' /\ life' \notin 0..life /\ life' \notin 1..life
        BY <1>0, <2>2
    <2>5. /\ Passes(life, changes) \subseteq Passes(life', changes)
          /\ Loops(life, changes) \subseteq Loops(life', changes) /\ 1..life \subseteq 1..life'
          /\ 0..life \subseteq 0..life'
        BY <2>4, NumbersGrow
    <2>6. Numbered'
        BY <1>0, <2>1, <2>2, <2>3, <2>4, <2>5 DEF Numbered
    <2>7. Fresh'
        BY <1>0, <1>lives, <2>1, <2>3, <2>4 DEF Fresh
    <2>8. \A l \in 1..life : ~Current(l) /\ ~Current(l)'
        BY <2>2, <2>4 DEF Current
    <2> QED
        BY <1>0, <1>lives, <2>1, <2>6, <2>7, <2>8
        DEF PassesAreTimely, LoopsAreTimely, PollsAreTimely, Watches
<1>3. ASSUME NEW l \in asking, DaemonAnswers(l) PROVE WiringInv'
    <2>1. /\ UNCHANGED <<plan, post, life, mounted, passes, followers, late, rotated, changes>>
          /\ asking' = asking \ {l}
        BY <1>3, Zenon DEF DaemonAnswers, surroundings
    <2>2. target' = target \/ (target' = l /\ Current(l) /\ UNCHANGED <<polls, unsupported>>)
        BY <1>3 DEF DaemonAnswers, AnswerCounts, Current
    <2>3. \/ UNCHANGED <<polls, unsupported>>
          \/ Current(l) /\ target' = target /\ polls' = polls \union {l} /\ unsupported' = unsupported \union {l}
        BY <1>3 DEF DaemonAnswers, AnswerCounts, Current
    <2>4. /\ l \in 1..life /\ l # target /\ l \notin polls
          /\ \A p \in passes : p.life # l /\ p.life \notin asking
          /\ \A f \in followers : f.life # l /\ f.life \notin asking
        BY <1>0, <1>3 DEF Fresh
    <2>5. l \in 0..life
        BY <1>0, <2>4
    <2>6. Numbered'
        BY <1>0, <2>1, <2>2, <2>3, <2>4, <2>5 DEF Numbered
    <2>7. Fresh'
        BY <2>1, <2>2, <2>3, <2>4 DEF Fresh
    <2>9. \A k : k # l /\ Watches(k) => Watches(k)'
        BY <2>1, <2>2, <2>3 DEF Watches, Current
    <2>10. PassesAreTimely' /\ PollsAreTimely'
        BY <2>1, <2>2, <2>3, <2>4, <2>9 DEF PassesAreTimely, PollsAreTimely, Current
    <2>11. LoopsAreTimely'
        BY <2>1, <2>2, <2>3, <2>4, <2>9 DEF LoopsAreTimely, Current
    <2> QED
        BY <2>6, <2>7, <2>10, <2>11
<1>4. CASE Disposes
    <2>1. UNCHANGED <<plan, post, life, asking, passes, unsupported, rotated, changes>>
        BY <1>4, Zenon DEF Disposes, surroundings
    <2>2. /\ mounted /\ mounted' = FALSE /\ target' = 0 /\ polls' = polls \ {life}
          /\ followers' = Stopped(followers, life) /\ late' = late \union Overtaken(life)
        BY <1>4 DEF Disposes
    <2>3. /\ followers' \subseteq Loops(life, changes)
          /\ \A f \in followers' : \/ f \in followers /\ ~(f.life = life /\ f.known)
                                   \/ f.life = life /\ ~f.runs /\ ~f.known
        BY <1>0, <2>2, StoppedLoops
    <2>4. late \subseteq late' /\ late' \subseteq 1..life /\ \A p \in passes : p.life = life => life \in late'
        BY <1>0, <1>lives, <2>2 DEF Overtaken
    <2>5. 0 \in 0..life /\ \A l \in 1..life : l # 0
        BY <1>0
    <2>6. Numbered'
        BY <1>0, <2>1, <2>2, <2>3, <2>4, <2>5 DEF Numbered
    <2>7. Fresh'
        <3>2. 0 \notin asking
            BY <1>0, <2>5
        <3>3. \A f \in followers' : f.life \notin asking
            <4> SUFFICES ASSUME NEW f \in followers' PROVE f.life \notin asking
                OBVIOUS
            <4>1. CASE f \in followers
                BY <4>1 DEF Fresh
            <4>2. CASE f \notin followers
                <5>1. f.life = life /\ \E g \in followers : g.life = life
                    BY <2>2, <2>3, <4>2 DEF Stopped, Halted
                <5> QED
                    BY <5>1 DEF Fresh
            <4> QED
                BY <4>1, <4>2
        <3> QED
            BY <2>1, <2>2, <3>2, <3>3 DEF Fresh
    <2>8. PassesAreTimely'
        BY <2>1, <2>2, <2>4 DEF PassesAreTimely, Watches, Current
    <2>9. PollsAreTimely'
        BY <2>1, <2>2, <2>4 DEF PollsAreTimely, Current
    <2>10. \A f \in followers' : f.runs /\ f.life \notin late' => FALSE
        BY <2>2, <2>3, <2>4 DEF LoopsAreTimely, Watches, Current
    <2>11. \A f \in followers' : (f.known => f.runs) /\ ~Current(f.life)'
        BY <2>2, <2>3 DEF LoopsAreTimely, Current
    <2> QED
        BY <2>6, <2>7, <2>8, <2>9, <2>10, <2>11 DEF LoopsAreTimely
<1>5. CASE PassReads
    <2>1. UNCHANGED <<plan, post, life, mounted, asking, target, followers, polls, unsupported, late, rotated, changes>>
        BY <1>5, Zenon DEF PassReads, surroundings
    <2>2. passes' = passes \union {[life |-> life, read |-> post]} /\ Reconciles
        BY <1>5 DEF PassReads
    <2>3. life \in 1..life
        BY <1>0, <2>2 DEF Reconciles
    <2>4. life \notin unsupported /\ target # life /\ life \notin asking /\ mounted
        BY <1>0, <2>2, <2>3 DEF Reconciles, Fresh
    <2>5. [life |-> life, read |-> post] \in Passes(life, changes)
        BY <1>0, <2>3 DEF Passes
    <2>6. Numbered'
        BY <1>0, <2>1, <2>2, <2>5 DEF Numbered
    <2>7. Fresh'
        BY <2>1, <2>2, <2>4 DEF Fresh
    <2>8. PassesAreTimely'
        BY <2>1, <2>2, <2>4 DEF PassesAreTimely, Watches, Current
    <2> QED
        BY <2>1, <2>6, <2>7, <2>8 DEF LoopsAreTimely, PollsAreTimely, Watches, Current
<1>6. ASSUME NEW p \in passes, PassActs(p) PROVE WiringInv'
    <2>1. /\ UNCHANGED <<plan, post, life, mounted, asking, target, polls, unsupported, late, rotated, changes>>
          /\ passes' = passes \ {p}
        BY <1>6, Zenon DEF PassActs, surroundings
    <2> DEFINE named == {w \in Spaces : p.read[w] # NoPost /\ (plan = "ledger" \/ p.read[w].old)}
               stale == {f \in followers : f.life = p.life /\ f.known /\ f.space \in named /\ Outdated(p, f)}
               wanting == {w \in named : Has(p.life, w) \subseteq stale}
               loop(w) == [life |-> p.life, space |-> w, runs |-> TRUE, known |-> TRUE,
                           place |-> IF plan = "ledger" THEN p.read[w].place ELSE "any",
                           key |-> IF plan = "ledger" THEN p.read[w].key ELSE 0]
    <2>2. followers' = (followers \ stale) \union {loop(w) : w \in wanting}
        BY <1>6, Zenon DEF PassActs
    <2>3. p.life \in 1..life /\ p.read \in [Spaces -> Posts(changes)]
        BY <1>0 DEF Passes
    <2>4. ASSUME NEW w \in wanting
          PROVE  /\ loop(w) \in Loops(life, changes) /\ loop(w).life = p.life /\ loop(w).space = w
                 /\ loop(w).runs = TRUE /\ loop(w).known = TRUE
        <3>1. p.read[w] \in [place : Places, key : 0..changes, old : BOOLEAN]
            BY <2>3 DEF Posts
        <3>2. 0 \in 0..changes
            BY <1>0
        <3> QED
            BY <2>3, <3>1, <3>2 DEF Loops
    <2>5. \A w \in wanting : \A f \in followers : f.life = p.life /\ f.space = w /\ f.known => f \in stale
        BY DEF Has
    <2> HIDE DEF loop, stale, wanting
    <2>6. \A f \in followers' : (f \in followers /\ f \notin stale) \/ \E w \in wanting : f = loop(w)
        BY <2>2
    <2>7. Numbered'
        BY <1>0, <2>1, <2>4, <2>6 DEF Numbered
    <2>8. Fresh'
        <3>1. \A f \in followers' : f.life \notin asking
            <4> SUFFICES ASSUME NEW f \in followers' PROVE f.life \notin asking
                OBVIOUS
            <4>1. CASE f \in followers
                BY <4>1 DEF Fresh
            <4>2. CASE f \notin followers
                <5>1. PICK w \in wanting : f = loop(w)
                    BY <2>6, <4>2
                <5>2. f.life = p.life
                    BY <2>4, <5>1
                <5> QED
                    BY <5>2 DEF Fresh
            <4> QED
                BY <4>1, <4>2
        <3> QED
            BY <2>1, <3>1 DEF Fresh
    <2>9. PassesAreTimely' /\ PollsAreTimely'
        BY <2>1 DEF PassesAreTimely, PollsAreTimely, Watches, Current
    <2>10. p.life \in late \/ Watches(p.life)
        BY DEF PassesAreTimely
    <2>11. ASSUME NEW f \in followers'
           PROVE  /\ f.known => f.runs
                  /\ ~f.runs => ~Current(f.life) \/ f.life \in unsupported
                  /\ f.runs /\ f.life \notin late => f.known /\ Watches(f.life)
        <3>1. CASE f \in followers
            BY <3>1 DEF LoopsAreTimely
        <3>2. CASE f \notin followers
            <4>1. PICK w \in wanting : f = loop(w)
                BY <2>6, <3>2
            <4>2. f.runs = TRUE /\ f.known = TRUE /\ f.life = p.life
                BY <2>4, <4>1
            <4> QED
                BY <2>10, <4>2
        <3> QED
            BY <3>1, <3>2
    <2>12. ASSUME NEW f \in followers', NEW g \in followers', f.runs, g.runs, f.life = g.life,
                  f.space = g.space, f.life \notin late
           PROVE  f = g
        <3>1. CASE f \in followers /\ f \notin stale /\ g \in followers /\ g \notin stale
            BY <2>12, <3>1 DEF LoopsAreTimely
        <3>2. ASSUME NEW w \in wanting, NEW h \in followers, h \notin stale, h.runs, h.life \notin late,
                     h.life = p.life, h.space = w
              PROVE  FALSE
            BY <2>5, <3>2 DEF LoopsAreTimely
        <3>3. \A w \in wanting, v \in wanting : loop(w).space = loop(v).space => loop(w) = loop(v)
            BY <2>4
        <3>4. CASE \E w, v \in wanting : f = loop(w) /\ g = loop(v)
            BY <2>12, <3>3, <3>4
        <3>5. ASSUME NEW h \in {f, g}, NEW i \in {f, g}, h \in followers, h \notin stale,
                     NEW w \in wanting, i = loop(w)
              PROVE  FALSE
            <4>1. i.life = p.life /\ i.space = w
                BY <2>4, <3>5
            <4>2. h.runs /\ h.life \notin late /\ h.life = i.life /\ h.space = i.space
                BY <2>12
            <4> QED
                BY <3>2, <3>5, <4>1, <4>2
        <3>6. (f \in followers /\ f \notin stale) \/ \E w \in wanting : f = loop(w)
            BY <2>6
        <3>7. (g \in followers /\ g \notin stale) \/ \E w \in wanting : g = loop(w)
            BY <2>6
        <3> QED
            BY <3>1, <3>4, <3>5, <3>6, <3>7
    <2>13. LoopsAreTimely'
        BY <2>1, <2>11, <2>12 DEF LoopsAreTimely, Watches, Current
    <2> QED
        BY <2>7, <2>8, <2>9, <2>13
<1>7. ASSUME NEW f \in followers, LoopEnds(f) PROVE WiringInv'
    <2>1. /\ UNCHANGED <<plan, post, life, mounted, asking, target, passes, polls, unsupported, late, rotated, changes>>
          /\ followers' = Forgotten(f)
        BY <1>7, Zenon DEF LoopEnds, surroundings
    <2>2. /\ Forgotten(f) \subseteq Loops(life, changes)
          /\ \A g \in Forgotten(f) :
                \E h \in followers \ {f} :
                  /\ g.life = h.life /\ g.space = h.space /\ g.runs = h.runs
                  /\ g = h \/ (g.life = f.life /\ g.space = f.space /\ ~g.known)
        BY <1>0, ForgottenLoops
    <2>3. Numbered' /\ Fresh' /\ PassesAreTimely' /\ PollsAreTimely'
        BY <1>0, <2>1, <2>2 DEF Numbered, Fresh, PassesAreTimely, PollsAreTimely, Watches, Current
    \* In a life that is not late nothing beside it runs for its workspace.
    <2>4. ASSUME NEW g \in Forgotten(f), g.runs, g.life \notin late
          PROVE  g \in followers
        <3>1. PICK h \in followers \ {f} :
                 /\ g.life = h.life /\ g.space = h.space /\ g.runs = h.runs
                 /\ g = h \/ (g.life = f.life /\ g.space = f.space /\ ~g.known)
            BY <2>2
        <3>2. CASE g # h
            <4>1. h.runs /\ h.life \notin late /\ h.life = f.life /\ h.space = f.space
                BY <2>4, <3>1, <3>2
            <4>2. Watches(f.life)
                BY <4>1 DEF LoopsAreTimely
            <4>3. f.runs
                BY <4>2 DEF LoopsAreTimely, Watches
            <4> QED
                BY <3>1, <4>1, <4>3 DEF LoopsAreTimely
        <3> QED
            BY <3>1, <3>2
    <2>5. LoopsAreTimely'
        BY <2>1, <2>2, <2>4 DEF LoopsAreTimely, Watches, Current
    <2> QED
        BY <2>3, <2>5
<1>8. ASSUME NEW f \in followers, LoopFallsBack(f) PROVE WiringInv'
    <2>1. /\ UNCHANGED <<plan, post, life, mounted, asking, target, passes, rotated, changes>>
          /\ plan = "self" /\ f.runs
        BY <1>8, Zenon DEF LoopFallsBack, surroundings
    <2>2. /\ Forgotten(f) \subseteq Loops(life, changes)
          /\ \A g \in Forgotten(f) :
                \E h \in followers \ {f} :
                  /\ g.life = h.life /\ g.space = h.space /\ g.runs = h.runs
                  /\ g = h \/ (g.life = f.life /\ g.space = f.space /\ ~g.known)
        BY <1>0, ForgottenLoops
    <2>3. f.life \in 1..life /\ f.life \notin asking
        BY <1>lives DEF Fresh
    \* In a life that is not late nothing beside it runs for its workspace.
    <2>4. ASSUME NEW g \in Forgotten(f), g.runs, g.life \notin late
          PROVE  g \in followers
        <3>1. PICK h \in followers \ {f} :
                 /\ g.life = h.life /\ g.space = h.space /\ g.runs = h.runs
                 /\ g = h \/ (g.life = f.life /\ g.space = f.space /\ ~g.known)
            BY <2>2
        <3> QED
            BY <2>1, <2>4, <3>1 DEF LoopsAreTimely
    <2>5. CASE f.life \in unsupported
        <3>1. followers' = Forgotten(f) /\ UNCHANGED <<polls, unsupported, late>>
            BY <1>8, <2>5 DEF LoopFallsBack
        <3>2. Numbered' /\ Fresh' /\ PassesAreTimely' /\ PollsAreTimely'
            BY <1>0, <2>1, <2>2, <3>1 DEF Numbered, Fresh, PassesAreTimely, PollsAreTimely, Watches, Current
        <3>3. LoopsAreTimely'
            BY <2>1, <2>2, <2>4, <3>1 DEF LoopsAreTimely, Watches, Current
        <3> QED
            BY <3>2, <3>3
    <2>6. CASE f.life \notin unsupported
        <3>1. /\ followers' = Stopped(Forgotten(f), f.life) /\ polls' = polls \union {f.life}
              /\ unsupported' = unsupported \union {f.life} /\ late' = late \union Overtaken(f.life)
            BY <1>8, <2>6 DEF LoopFallsBack
        <3>2. /\ followers' \subseteq Loops(life, changes)
              /\ \A g \in followers' : \/ g \in Forgotten(f) /\ ~(g.life = f.life /\ g.known)
                                       \/ g.life = f.life /\ ~g.runs /\ ~g.known
            BY <2>2, <3>1, StoppedLoops
        <3>3. /\ late \subseteq late' /\ late' \subseteq 1..life
              /\ \A p \in passes : p.life = f.life => f.life \in late'
            BY <1>0, <2>3, <3>1 DEF Overtaken
        <3>4. \A g \in followers' : g.life \notin asking
            BY <2>2, <2>3, <3>2 DEF Fresh
        <3>5. Numbered' /\ Fresh'
            BY <1>0, <2>1, <2>3, <3>1, <3>2, <3>3, <3>4 DEF Numbered, Fresh
        <3>6. \A l : l # f.life /\ Watches(l) => Watches(l)'
            BY <2>1, <3>1 DEF Watches, Current
        <3>7. PassesAreTimely'
            BY <2>1, <3>3, <3>6 DEF PassesAreTimely
        <3>8. f.life \in late \/ Watches(f.life)
            BY <2>1 DEF LoopsAreTimely
        <3>9. PollsAreTimely'
            BY <2>1, <3>1, <3>3, <3>8 DEF PollsAreTimely, Watches, Current
        <3>10. ASSUME NEW g \in followers', g.runs, g.life \notin late'
               PROVE  g \in followers /\ g.life # f.life
            <4>1. g \in Forgotten(f) /\ ~(g.life = f.life /\ g.known) /\ g.life \notin late
                BY <3>2, <3>3, <3>10
            <4>2. g \in followers
                BY <2>4, <3>10, <4>1
            <4> QED
                BY <3>10, <4>1, <4>2 DEF LoopsAreTimely
        <3>11. ASSUME NEW g \in followers'
               PROVE  /\ g.known => g.runs
                      /\ ~g.runs => ~Current(g.life)' \/ g.life \in unsupported'
            <4>1. CASE g \in Forgotten(f)
                <5>1. PICK h \in followers \ {f} :
                         /\ g.life = h.life /\ g.space = h.space /\ g.runs = h.runs
                         /\ g = h \/ (g.life = f.life /\ g.space = f.space /\ ~g.known)
                    BY <2>2, <4>1
                <5> QED
                    BY <2>1, <3>1, <5>1 DEF LoopsAreTimely, Current
            <4>2. CASE g \notin Forgotten(f)
                BY <3>1, <3>2, <4>2
            <4> QED
                BY <4>1, <4>2
        <3>12. LoopsAreTimely'
            BY <3>3, <3>6, <3>10, <3>11 DEF LoopsAreTimely
        <3> QED
            BY <3>5, <3>7, <3>9, <3>12
    <2> QED
        BY <2>5, <2>6
<1>9. CASE Migrates
    <2>1. UNCHANGED <<plan, life, mounted, asking, target, passes, followers, polls, unsupported, late, rotated, changes>>
        BY <1>9, Zenon DEF Migrates, surroundings
    <2>2. PICK ws \in SUBSET {w \in Spaces : post[w].old} :
             post' = [w \in Spaces |-> IF w \in ws THEN [post[w] EXCEPT !.old = FALSE] ELSE post[w]]
        BY <1>9, Zenon DEF Migrates
    <2>3. ASSUME NEW w \in ws PROVE [post[w] EXCEPT !.old = FALSE] \in Posts(changes)
        <3>1. post[w] \in [place : Places, key : 0..changes, old : BOOLEAN]
            <4>1. post[w] \in Posts(changes) /\ post[w].old
                BY <1>0, <2>2
            <4>2. post[w] # NoPost
                BY <4>1 DEF NoPost
            <4> QED
                BY <4>1, <4>2 DEF Posts
        <3> QED
            BY <3>1 DEF Posts
    <2>4. post' \in [Spaces -> Posts(changes)]
        BY <1>0, <2>2, <2>3
    <2>5. Numbered'
        BY <1>0, <2>1, <2>4 DEF Numbered
    <2> QED
        BY <2>1, <2>5 DEF Fresh, PassesAreTimely, LoopsAreTimely, PollsAreTimely, Watches, Current
<1> QED
    BY <1>1, <1>2, <1>3, <1>4, <1>5, <1>6, <1>7, <1>8, <1>9 DEF WiringNext, WiringSteps

LEMMA WiringInvHolds == WiringSpec => []WiringInv
<1>1. WiringInv /\ UNCHANGED wiringVars => WiringInv'
    BY DEF wiringVars, surroundings, WiringInv, Numbered, Fresh, PassesAreTimely, LoopsAreTimely,
           PollsAreTimely, Watches, Current
<1>2. WiringInv /\ [WiringNext]_wiringVars => WiringInv'
    BY <1>1, WiringStep
<1> QED
    BY <1>2, WiringInvInit, PTL DEF WiringSpec

LEMMA NumberedTypes ==
    ASSUME Numbered, daemonThere \in BOOLEAN, streamThere \in BOOLEAN
    PROVE  WiringTypeOK
<1>1. life \in Nat /\ life <= MaxLives /\ changes \in Nat /\ changes <= MaxChanges
    BY WiringAssumption DEF Numbered
<1>2. 1..life \subseteq 1..MaxLives /\ 0..life \subseteq 0..MaxLives /\ 0..changes \subseteq 0..MaxChanges
    BY <1>1, WiringAssumption
<1>3. Posts(changes) \subseteq PostTypes
    BY <1>2 DEF Posts, PostTypes
<1>4. [Spaces -> Posts(changes)] \subseteq [Spaces -> PostTypes]
    BY <1>3
<1>5. Passes(life, changes) \subseteq [life : 1..MaxLives, read : [Spaces -> PostTypes]]
    BY <1>2, <1>4 DEF Passes
<1>6. Loops(life, changes) \subseteq [life : 1..MaxLives, space : Spaces, runs : BOOLEAN, known : BOOLEAN,
                                      place : Places \union {"any"}, key : 0..MaxChanges]
    BY <1>2 DEF Loops
<1> QED
    BY <1>2, <1>4, <1>5, <1>6 DEF Numbered, WiringTypeOK

\* Lives, passes, loops, polls and what they know of the records have their types.
THEOREM WiringTypes == WiringSpec => []WiringTypeOK
<1> DEFINE World == daemonThere \in BOOLEAN /\ streamThere \in BOOLEAN
<1>1. WiringInit => World
    BY DEF WiringInit
<1>2. World /\ [WiringNext]_wiringVars => World'
    BY DEF WiringNext, WiringSteps, wiringVars, surroundings, DaemonAnswers, PassActs, LoopEnds,
           LoopFallsBack, PassReads, Mounts, Disposes, Migrates, RecordChanges
<1>3. WiringInv /\ World => WiringTypeOK
    BY NumberedTypes DEF WiringInv
<1> HIDE DEF World
<1> QED
    BY <1>1, <1>2, <1>3, WiringInvHolds, PTL DEF WiringSpec

\* What goes on waking sessions beside the current life's one source goes back to a pass that was
\* under way when its life was stopped or fell back, and in no other life is a workspace
\* followed twice - for any workspaces, and as many lives, records and passes as there are.
THEOREM StrayWakersGoBackToPasses == WiringSpec => []StrayWakersAreExplained
<1>1. WiringInv => StrayWakersAreExplained
    BY DEF WiringInv, LoopsAreTimely, PollsAreTimely, StrayWakersAreExplained, Astray, Watches, Current
<1> QED
    BY <1>1, WiringInvHolds, PTL

-----------------------------------------------------------------------------
(* The doorbell never parks without somebody to wake it, for every number  *)
(* of letters and failures.  BellInv is inductive as it stands; the proof  *)
(* takes one step per action.                                              *)


LEMMA BellInit == Init => BellInv
<1> SUFFICES ASSUME Init PROVE BellInv
    OBVIOUS
<1>1. fetch \in Fetches
    BY DEF Init, NoFetch, Fetches
<1>2. CountTypes
    BY BoundsAssumption DEF Init, CountTypes
<1>3. StateTypes
    BY Zenon DEF Init, StateTypes, LoopPcs
<1>4. Bound /\ Free /\ LoopInOrder
    BY DEF Init, Bound, Free, LoopInOrder, Connected
<1> QED
    BY <1>1, <1>2, <1>3, <1>4 DEF BellInv, TypeOK

(* The counters and the fetch record: no action leaves their types.        *)

\* What a trigger may do to the record.
LEMMA FetchTypes ==
    ASSUME fetch \in Fetches, NEW loop \in BOOLEAN, FetchNew(loop)
    PROVE  fetch' \in Fetches
BY DEF FetchNew, Fetches, NoFetch

LEMMA CountsKeep == BellInv /\ Next => CountTypes' /\ fetch' \in Fetches
<1> SUFFICES ASSUME BellInv, Next PROVE CountTypes' /\ fetch' \in Fetches
    OBVIOUS
<1> USE BoundsAssumption DEF BellInv, TypeOK, CountTypes, letters, Break
<1>1. CASE FetchAnswered
    <2>1. mail \in Nat /\ UNCHANGED <<mail, fetched, breaks>>
        BY <1>1 DEF FetchAnswered, fetchRest
    <2>2. fetch' \in Fetches
        BY <1>1, <2>1, Zenon DEF FetchAnswered, Fetches
    <2> QED
        BY <2>1, <2>2
<1>2. CASE FetchRead
    BY <1>2 DEF FetchRead, fetchRest, Fetches, NoFetch
<1>3. CASE FetchFails
    BY <1>3 DEF FetchFails, fetchRest, Fetches, NoFetch
<1>4. CASE SafetyNet
    BY <1>4, FetchTypes DEF SafetyNet
<1>5. CASE PushArrives
    BY <1>5, FetchTypes DEF PushArrives
<1>6. CASE Arrive \/ PushIsLost
    BY <1>6 DEF Arrive, PushIsLost
<1>7. CASE ConnectionCloses \/ ConnectionGoesSilent \/ WatchdogFires
    BY <1>7 DEF ConnectionCloses, ConnectionGoesSilent, WatchdogFires, connRest
<1>8. CASE Attach
    BY <1>8, FetchTypes DEF Attach, loopRest
<1>9. CASE \/ TicketIssued \/ TicketFails \/ HandshakeFails \/ HandshakeEndsUnanswered
           \/ HandshakeDone \/ AttachStopped
    BY <1>9 DEF TicketIssued, TicketFails, HandshakeFails, HandshakeEndsUnanswered,
                HandshakeDone, AttachStopped, RoundFails, loopRest
<1>10. CASE CaughtUp \/ Unpark \/ BackoffEnds \/ Stop
    BY <1>10 DEF CaughtUp, Unpark, BackoffEnds, Stop, loopRest
<1> QED
    BY <1>1, <1>2, <1>3, <1>4, <1>5, <1>6, <1>7, <1>8, <1>9, <1>10
       DEF Next, Fetching, Connection, Loop

(* The rest, action by action.                                             *)

Rest == StateTypes /\ Bound /\ Free /\ LoopInOrder

LEMMA FetchingKeeps == BellInv /\ Fetching => Rest'
<1> SUFFICES ASSUME BellInv, Fetching PROVE Rest'
    OBVIOUS
<1>1. UNCHANGED <<pc, connection, safety, stopped, frame>>
    BY DEF Fetching, FetchAnswered, FetchRead, FetchFails, SafetyNet, fetchRest
<1> QED
    BY <1>1, Zenon DEF BellInv, TypeOK, Rest, StateTypes, Bound, Free, LoopInOrder, Connected,
                       connection

LEMMA ConnectionKeeps == BellInv /\ Connection => Rest'
<1> SUFFICES ASSUME BellInv, Connection PROVE Rest'
    OBVIOUS
<1> USE DEF BellInv, TypeOK, Rest, StateTypes, Bound, Free, LoopInOrder, Connected,
            connection, connRest
<1>1. CASE ConnectionCloses
    BY <1>1 DEF ConnectionCloses, Close, Release
<1>2. CASE ConnectionGoesSilent
    BY <1>2 DEF ConnectionGoesSilent
<1>3. CASE WatchdogFires
    BY <1>3 DEF WatchdogFires, Close, Release
<1>4. CASE PushArrives \/ PushIsLost \/ Arrive
    <2>1. frame' \in BOOLEAN
        BY <1>4, Zenon DEF PushArrives, PushIsLost, Arrive
    <2>2. UNCHANGED <<pc, connection, safety, stopped>>
        BY <1>4 DEF PushArrives, PushIsLost, Arrive
    <2> QED
        BY <2>1, <2>2, Zenon
<1> QED
    BY <1>1, <1>2, <1>3, <1>4 DEF Connection

LEMMA LoopKeeps == BellInv /\ Loop => Rest'
<1> SUFFICES ASSUME BellInv, Loop PROVE Rest'
    OBVIOUS
<1> USE DEF BellInv, TypeOK, Rest, StateTypes, Bound, Free, LoopInOrder, Connected,
            connection, loopRest, LoopPcs
<1>1. CASE TicketIssued
    BY <1>1 DEF TicketIssued
<1>2. CASE TicketFails
    BY <1>2 DEF TicketFails, RoundFails, Release
<1>3. CASE HandshakeFails
    BY <1>3 DEF HandshakeFails, RoundFails, Release
<1>4. CASE HandshakeEndsUnanswered
    BY <1>4 DEF HandshakeEndsUnanswered
<1>5. CASE HandshakeDone
    BY <1>5 DEF HandshakeDone
<1>6. CASE AttachStopped
    BY <1>6 DEF AttachStopped, Release
<1>7. CASE Attach
    BY <1>7 DEF Attach
<1>8. CASE CaughtUp
    BY <1>8 DEF CaughtUp, NextRound, Release
<1>9. CASE Unpark
    <2>1. ~held /\ ~Connected
        BY <1>9 DEF Unpark
    <2> QED
        BY <1>9, <2>1 DEF Unpark, NextRound, Release
<1>10. CASE BackoffEnds
    BY <1>10 DEF BackoffEnds, NextRound
<1> QED
    BY <1>1, <1>2, <1>3, <1>4, <1>5, <1>6, <1>7, <1>8, <1>9, <1>10 DEF Loop

LEMMA StopKeeps == BellInv /\ Stop => Rest'
<1> SUFFICES ASSUME BellInv, Stop PROVE Rest'
    OBVIOUS
<1> USE DEF BellInv, TypeOK, Rest, StateTypes, Bound, Free, LoopInOrder, Connected
<1>1. /\ frame' \in BOOLEAN /\ released' \in BOOLEAN
      /\ held' = FALSE /\ watchdog' = FALSE /\ waiter' = "none" /\ stopped' = TRUE /\ safety' = FALSE
      /\ UNCHANGED <<pc, attached>>
    BY Zenon DEF Stop, Release
<1>2. held => wire' = "closed" /\ released'
    BY DEF Stop, Release
<1>3. ~held => wire' = wire /\ (released => released')
    BY DEF Stop, Release
<1>4. StateTypes'
    <2>1. wire' \in {"none", "handshake", "open", "silent", "closed"}
        BY <1>2, <1>3
    <2> QED
        BY <1>1, <2>1, Zenon
<1>5. Bound' /\ Free'
    BY <1>1
<1>6. LoopInOrder'
    BY <1>1, <1>2, <1>3
<1> QED
    BY <1>4, <1>5, <1>6

LEMMA BellStep == BellInv /\ [Next]_vars => BellInv'
<1> SUFFICES ASSUME BellInv, [Next]_vars PROVE BellInv'
    OBVIOUS
<1>1. CASE Next
    <2>1. Rest'
        BY <1>1, FetchingKeeps, ConnectionKeeps, LoopKeeps, StopKeeps DEF Next
    <2> QED
        BY <1>1, <2>1, CountsKeep DEF BellInv, TypeOK, Rest
<1>2. CASE UNCHANGED vars
    BY <1>2 DEF vars, connection, letters, BellInv, Bound, Free, LoopInOrder, Connected,
                TypeOK, CountTypes, StateTypes
<1> QED
    BY <1>1, <1>2

\* The connection, its watchdog and its waiter are held and let go together,
\* wherever loop() awaits and whatever event comes first.
THEOREM BellInOrder == Spec => []BellInv
BY BellInit, BellStep, PTL DEF Spec

\* The loop never parks on a promise nobody can resolve: the lost wakeup that
\* left the doorbell dead for 90 minutes cannot come back.
THEOREM NeverHangs == Spec => []ParkedCanWake
<1>1. BellInv => ParkedCanWake
    BY DEF BellInv, Bound, Free, LoopInOrder, ParkedCanWake
<1> QED
    BY <1>1, BellInOrder, PTL

\* The watchdog is never armed on a connection that is already dead.
THEOREM WatchdogIsTruthful == Spec => []WatchdogWatchesTheLiving
<1>1. BellInv => WatchdogWatchesTheLiving
    BY DEF BellInv, Bound, Free, WatchdogWatchesTheLiving
<1> QED
    BY <1>1, BellInOrder, PTL

\* No round of the loop starts while a connection of an earlier one is up.
THEOREM RoundsAreClean == Spec => []OneConnection
<1>1. BellInv => OneConnection
    BY DEF BellInv, Bound, Free, LoopInOrder, OneConnection
<1> QED
    BY <1>1, BellInOrder, PTL

\* The three together.
THEOREM BellIsSafe == Spec => []BellIsWatched
BY NeverHangs, WatchdogIsTruthful, RoundsAreClean, PTL DEF BellIsWatched

-----------------------------------------------------------------------------
(* Wake budgets (WakeBudgets)                                               *)

\* The plugin's budget of the mailbox, or the daemon's.
BudgetOf(p) == IF p = "plugin" THEN inboxWakes ELSE daemonWakes

\* What was decided and is heard, or may yet be.
StillQueued(p) == IF p = "daemon" THEN {[queue[k] EXCEPT !.told = TRUE] : k \in DOMAIN queue} ELSE {}
Decisions(p) == {h.notice : h \in {g \in heard : g.by = p}} \union StillQueued(p)

DecisionsAreOld ==
  \A p \in Payers : \A n \in Decisions(p) :
    n \in Notice /\ n.told /\ n.made <= hour /\ n.life <= lives[p] /\ n.nr <= decided

\* A budget remembers the wakes of its life and window.
WakesAreCharged ==
  \A p \in Payers : \A n \in Decisions(p) :
    n.how = "wake" /\ n.life = lives[p] /\ hour - n.made < Window => [at |-> n.made, nr |-> n.nr] \in BudgetOf(p)

\* A window never holds more of them than the budget had, heard yet or not.
Woken(p, l, t) == {n.nr : n \in {m \in Decisions(p) : m.how = "wake" /\ m.life = l /\ m.made \in WindowAt(t)}}
WindowsAreKept == \A p \in Payers, l \in Nat, t \in Nat : Cardinality(Woken(p, l, t)) <= MaxWakes

\* What is queued differs; and as long as the plugin's ring is the first, it knows what was heard.
QueueIsNew ==
  /\ \A j, k \in DOMAIN queue : j # k => queue[j].nr # queue[k].nr
  /\ \A h \in heard : h.notice.nr <= decided
  /\ lives["plugin"] = 1 => /\ \A g, h \in heard : g.notice.nr = h.notice.nr => g = h
                            /\ \A h \in heard, k \in DOMAIN queue : h.notice.nr = queue[k].nr => queue[k].told

\* Why the bounds hold: a decision took a letter or a stumble, a life a stumble.
CountsAreBounded ==
  /\ decided + (IF batch = NoBatch THEN 0 ELSE 1) <= arrivals + stumbles
  /\ lives["plugin"] + lives["daemon"] <= stumbles + 2

WakesInv == /\ BudgetsTypeOK /\ DecisionsAreOld /\ WakesAreCharged /\ WindowsAreKept /\ QueueIsNew
            /\ CountsAreBounded


LEMMA ChargesAreFinite == IsFiniteSet(Charges)
<1> DEFINE hours == 0..MaxHours
           nrs == 1..MaxLetters + MaxStumbles
           f == [x \in hours \X nrs |-> [at |-> x[1], nr |-> x[2]]]
<1>1. IsFiniteSet(hours) /\ IsFiniteSet(nrs)
    BY FS_Interval, BudgetsAssumption
<1>2. IsFiniteSet(hours \X nrs)
    BY <1>1, FS_Product
<1>3. f \in Surjection(hours \X nrs, Charges)
  <2>1. \A x \in hours \X nrs : f[x] \in Charges
      BY DEF Charges
  <2>2. \A c \in Charges : <<c.at, c.nr>> \in hours \X nrs /\ f[<<c.at, c.nr>>] = c
      BY DEF Charges
  <2>3. f \in [hours \X nrs -> Charges]
      BY <2>1
  <2> HIDE DEF f, hours, nrs
  <2> QED
      BY <2>2, <2>3 DEF Surjection
<1> QED
    BY <1>2, <1>3, FS_Surjection

\* The numbers that stand for a window are finitely many, and fewer than fewer.
LEMMA FewerWoken ==
    ASSUME NEW S, NEW T, T \subseteq S, S \subseteq 1..MaxLetters + MaxStumbles, Cardinality(S) <= MaxWakes
    PROVE  Cardinality(T) <= MaxWakes
<1>1. IsFiniteSet(1..MaxLetters + MaxStumbles)
    BY FS_Interval, BudgetsAssumption
<1>2. IsFiniteSet(S)
    BY <1>1, FS_Subset
<1>3. IsFiniteSet(T) /\ Cardinality(T) <= Cardinality(S)
    BY <1>2, FS_Subset
<1>4. Cardinality(S) \in Nat /\ Cardinality(T) \in Nat
    BY <1>2, <1>3, FS_CardinalityType
<1> QED
    BY <1>3, <1>4, BudgetsAssumption

\* One more than before, at most.
LEMMA OneMore ==
    ASSUME NEW S, NEW T, NEW x, IsFiniteSet(S), T \subseteq S \union {x}
    PROVE  IsFiniteSet(T) /\ Cardinality(T) <= Cardinality(S) + 1
<1> DEFINE more == S \union {x}
<1>1. /\ IsFiniteSet(more)
      /\ Cardinality(more) = IF x \in S THEN Cardinality(S) ELSE Cardinality(S) + 1
    BY FS_AddElement
<1>2. T \subseteq more
    OBVIOUS
<1> HIDE DEF more
<1>3. IsFiniteSet(T) /\ Cardinality(T) <= Cardinality(more)
    BY <1>1, <1>2, FS_Subset
<1>4. Cardinality(S) \in Nat /\ Cardinality(T) \in Nat /\ Cardinality(more) \in Nat
    BY <1>1, <1>3, FS_CardinalityType
<1> QED
    BY <1>1, <1>3, <1>4

LEMMA WokenIsBounded ==
    ASSUME DecisionsAreOld, NEW p \in Payers, NEW l, NEW t
    PROVE  Woken(p, l, t) \subseteq 1..MaxLetters + MaxStumbles
BY DEF DecisionsAreOld, Woken, Notice

\* What a payer's part of the invariant says after a step.
PayerKept(p) ==
  /\ \A n \in Decisions(p) : n \in Notice /\ n.told /\ n.made <= hour /\ n.life <= lives[p] /\ n.nr <= decided
  /\ \A n \in Decisions(p) :
       n.how = "wake" /\ n.life = lives[p] /\ hour - n.made < Window => [at |-> n.made, nr |-> n.nr] \in BudgetOf(p)
  /\ \A l \in Nat, t \in Nat : Cardinality(Woken(p, l, t)) <= MaxWakes

LEMMA AllPayersKept ==
    (\A p \in Payers : PayerKept(p)') => DecisionsAreOld' /\ WakesAreCharged' /\ WindowsAreKept'
BY DEF PayerKept, DecisionsAreOld, WakesAreCharged, WindowsAreKept

\* Nothing is decided; time passes, or the payer starts anew.
LEMMA NothingDecided ==
    ASSUME WakesInv, NEW p \in Payers, Decisions(p)' \subseteq Decisions(p),
           hour' \in Nat, hour <= hour', decided' \in Nat, decided <= decided',
           lives'[p] \in Nat, lives[p] <= lives'[p],
           lives'[p] = lives[p] => Recent(BudgetOf(p)) \subseteq BudgetOf(p)'
    PROVE  PayerKept(p)'
<1>1. hour \in Nat /\ decided \in Nat /\ lives[p] \in Nat /\ BudgetOf(p) \subseteq Charges
    BY DEF WakesInv, BudgetsTypeOK, Payers, BudgetOf
<1>2. \A n \in Decisions(p)' : /\ n \in Notice /\ n.told /\ n.made <= hour /\ n.life <= lives[p] /\ n.nr <= decided
                               /\ n.made \in Nat /\ n.life \in Nat /\ n.nr \in Nat
    BY DEF WakesInv, DecisionsAreOld, Notice
<1>3. \A n \in Decisions(p)' :
        n \in Notice /\ n.told /\ n.made <= hour' /\ n.life <= lives'[p] /\ n.nr <= decided'
    BY <1>1, <1>2
<1>4. ASSUME NEW n \in Decisions(p)', n.how = "wake", n.life = lives'[p], hour' - n.made < Window
      PROVE  [at |-> n.made, nr |-> n.nr] \in BudgetOf(p)'
  <2>1. lives'[p] = lives[p] /\ hour - n.made < Window
      BY <1>1, <1>2, <1>4, BudgetsAssumption
  <2>2. [at |-> n.made, nr |-> n.nr] \in BudgetOf(p)
      BY <1>4, <2>1 DEF WakesInv, WakesAreCharged
  <2>3. [at |-> n.made, nr |-> n.nr] \in Recent(BudgetOf(p))
      BY <2>1, <2>2 DEF Recent
  <2> QED
      BY <2>1, <2>3
<1>5. ASSUME NEW l \in Nat, NEW t \in Nat PROVE Cardinality(Woken(p, l, t)') <= MaxWakes
  <2>1. Woken(p, l, t)' \subseteq Woken(p, l, t)
      BY DEF Woken, WindowAt
  <2>2. Woken(p, l, t) \subseteq 1..MaxLetters + MaxStumbles /\ Cardinality(Woken(p, l, t)) <= MaxWakes
      BY WokenIsBounded DEF WakesInv, WindowsAreKept
  <2> QED
      BY <2>1, <2>2, FewerWoken
<1> QED
    BY <1>3, <1>4, <1>5 DEF PayerKept

\* A payer decides once, and is charged for it if it wakes somebody.
LEMMA OnceDecided ==
    ASSUME WakesInv, NEW p \in Payers, NEW d \in Notice, Decisions(p)' \subseteq Decisions(p) \union {d},
           d.told, d.made = hour, d.life = lives[p], d.nr = decided + 1,
           UNCHANGED <<hour, lives>>, decided' = decided + 1,
           Recent(BudgetOf(p)) \subseteq BudgetOf(p)',
           d.how = "wake" => Allows(BudgetOf(p)) /\ [at |-> hour, nr |-> decided + 1] \in BudgetOf(p)'
    PROVE  PayerKept(p)'
<1>1. hour \in Nat /\ decided \in Nat /\ lives[p] \in Nat /\ BudgetOf(p) \subseteq Charges
    BY DEF WakesInv, BudgetsTypeOK, Payers, BudgetOf
<1>2. \A n \in Decisions(p)' : \/ n = d
                               \/ /\ n \in Decisions(p)
                                  /\ n \in Notice /\ n.told /\ n.made <= hour /\ n.life <= lives[p] /\ n.nr <= decided
                                  /\ n.made \in Nat /\ n.life \in Nat /\ n.nr \in Nat
    BY DEF WakesInv, DecisionsAreOld, Notice
<1>3. \A n \in Decisions(p)' :
        n \in Notice /\ n.told /\ n.made <= hour' /\ n.life <= lives'[p] /\ n.nr <= decided'
    BY <1>1, <1>2
<1>4. ASSUME NEW n \in Decisions(p)', n.how = "wake", n.life = lives'[p], hour' - n.made < Window
      PROVE  [at |-> n.made, nr |-> n.nr] \in BudgetOf(p)'
  <2>1. CASE n = d
      BY <1>4, <2>1
  <2>2. CASE n # d
    <3>1. [at |-> n.made, nr |-> n.nr] \in BudgetOf(p)
        BY <1>2, <1>4, <2>2 DEF WakesInv, WakesAreCharged
    <3>2. [at |-> n.made, nr |-> n.nr] \in Recent(BudgetOf(p))
        BY <1>4, <3>1 DEF Recent
    <3> QED
        BY <3>2
  <2> QED
      BY <2>1, <2>2
<1>5. ASSUME NEW l \in Nat, NEW t \in Nat PROVE Cardinality(Woken(p, l, t)') <= MaxWakes
  <2>1. Woken(p, l, t)' \subseteq Woken(p, l, t) \union {decided + 1}
      BY <1>2 DEF Woken, WindowAt
  <2>2. Woken(p, l, t) \subseteq 1..MaxLetters + MaxStumbles /\ Cardinality(Woken(p, l, t)) <= MaxWakes
      BY WokenIsBounded DEF WakesInv, WindowsAreKept
  <2>3. CASE d.how = "wake" /\ d.life = l /\ d.made \in WindowAt(t)
    <3> DEFINE budget == Recent(BudgetOf(p))
               paid == {c.nr : c \in budget}
               f == [c \in budget |-> c.nr]
    <3>1. IsFiniteSet(budget)
        BY <1>1, ChargesAreFinite, FS_Subset DEF Recent
    <3>2. f \in Surjection(budget, paid)
        BY DEF Surjection
    <3>3. IsFiniteSet(paid) /\ Cardinality(paid) <= Cardinality(budget)
        BY <3>1, <3>2, FS_Surjection
    <3>4. Woken(p, l, t) \subseteq paid
      <4>1. ASSUME NEW n \in Decisions(p), n.how = "wake", n.life = l, n.made \in WindowAt(t)
            PROVE  n.nr \in paid
        <5>1. n.made \in Nat /\ hour - n.made < Window
            BY <1>1, <2>3, <4>1, BudgetsAssumption DEF WakesInv, DecisionsAreOld, Notice, WindowAt
        <5>2. [at |-> n.made, nr |-> n.nr] \in BudgetOf(p)
            BY <2>3, <4>1, <5>1 DEF WakesInv, WakesAreCharged
        <5>3. [at |-> n.made, nr |-> n.nr] \in budget
            BY <5>1, <5>2 DEF Recent
        <5> QED
            BY <5>3
      <4> HIDE DEF paid
      <4> QED
          BY <4>1 DEF Woken
    <3>5. Cardinality(budget) < MaxWakes
        BY <2>3 DEF Allows
    <3> HIDE DEF budget, paid, f
    <3>6. IsFiniteSet(Woken(p, l, t)) /\ Cardinality(Woken(p, l, t)) <= Cardinality(paid)
        BY <3>3, <3>4, FS_Subset
    <3>7. /\ IsFiniteSet(Woken(p, l, t)')
          /\ Cardinality(Woken(p, l, t)') <= Cardinality(Woken(p, l, t)) + 1
        BY <2>1, <3>6, OneMore
    <3>8. /\ Cardinality(Woken(p, l, t)') \in Nat /\ Cardinality(Woken(p, l, t)) \in Nat
          /\ Cardinality(paid) \in Nat /\ Cardinality(budget) \in Nat
        BY <3>1, <3>3, <3>6, <3>7, FS_CardinalityType
    <3> QED
        BY <3>3, <3>5, <3>6, <3>7, <3>8, BudgetsAssumption
  <2>4. CASE ~(d.how = "wake" /\ d.life = l /\ d.made \in WindowAt(t))
    <3>1. Woken(p, l, t)' \subseteq Woken(p, l, t)
        BY <2>4 DEF Woken, WindowAt
    <3> QED
        BY <2>2, <3>1, FewerWoken
  <2> QED
      BY <2>3, <2>4
<1> QED
    BY <1>3, <1>4, <1>5 DEF PayerKept

-----------------------------------------------------------------------------
(* What the steps are made of *)

\* The decision of now, as its hearer keeps it.
DecidedNow(how, p) == [how |-> how, made |-> hour, life |-> lives[p], nr |-> decided + 1, told |-> TRUE]

HeardFrom(p) == {h.notice : h \in {g \in heard : g.by = p}}

\* There is a number for the next decision, and an hour and a life to make it in.
LEMMA NowIsANotice ==
    ASSUME WakesInv, NEW p \in Payers, NEW how \in {"wake", "inject"}, NEW told \in BOOLEAN,
           decided + 1 \in 1..MaxLetters + MaxStumbles
    PROVE  /\ DecidedNow(how, p) \in Notice
           /\ [Made(how, p) EXCEPT !.told = told] \in Notice
           /\ [Made(how, p) EXCEPT !.told = told] = [DecidedNow(how, p) EXCEPT !.told = told]
           /\ [[Made(how, p) EXCEPT !.told = told] EXCEPT !.told = TRUE] = DecidedNow(how, p)
           /\ Made(how, p) \in Notice /\ [Made(how, p) EXCEPT !.told = TRUE] = DecidedNow(how, p)
<1>1. hour \in 0..MaxHours /\ lives[p] \in 1..MaxStumbles + 1
    BY DEF WakesInv, BudgetsTypeOK
<1>2. DecidedNow(how, p) \in Notice
    BY <1>1 DEF DecidedNow, Notice
<1>3. Made(how, p) \in Notice
    BY <1>1 DEF Made, Notice
<1>4. [Made(how, p) EXCEPT !.told = told] \in Notice
    BY <1>3 DEF Notice
<1>5. [Made(how, p) EXCEPT !.told = TRUE] = DecidedNow(how, p)
  <2>1. [Made(how, p) EXCEPT !.told = TRUE] \in Notice
      BY <1>3 DEF Notice
  <2>2. \A m, n \in Notice :
          m.how = n.how /\ m.made = n.made /\ m.life = n.life /\ m.nr = n.nr /\ m.told = n.told => m = n
      BY DEF Notice
  <2> DEFINE m == [Made(how, p) EXCEPT !.told = TRUE]
             n == DecidedNow(how, p)
  <2>3. m.how = n.how /\ m.made = n.made /\ m.life = n.life /\ m.nr = n.nr
      BY DEF DecidedNow, Made
  <2>4. m.told = n.told
      BY DEF DecidedNow, Made
  <2> HIDE DEF m, n
  <2>5. m \in Notice /\ n \in Notice
      BY <1>2, <2>1 DEF m, n
  <2> QED
      BY <2>2, <2>3, <2>4, <2>5 DEF m, n
<1>6. [Made(how, p) EXCEPT !.told = told] = [DecidedNow(how, p) EXCEPT !.told = told]
    BY DEF DecidedNow, Made
<1>7. [[Made(how, p) EXCEPT !.told = told] EXCEPT !.told = TRUE] = [Made(how, p) EXCEPT !.told = TRUE]
  <2> DEFINE m == Made(how, p)
  <2>1. m \in Notice
      BY <1>3
  <2> HIDE DEF m
  <2>2. [[m EXCEPT !.told = told] EXCEPT !.told = TRUE] = [m EXCEPT !.told = TRUE]
      BY <2>1 DEF Notice
  <2> QED
      BY <2>2 DEF m
<1> QED
    BY <1>2, <1>3, <1>4, <1>5, <1>6, <1>7

\* Who decides is charged, what was charged lately stays charged.
LEMMA ChargingKeeps ==
    ASSUME WakesInv, NEW charged \in SUBSET Charges, decided + 1 \in 1..MaxLetters + MaxStumbles
    PROVE  /\ Charge(charged) \subseteq Charges /\ Recent(charged) \subseteq Charge(charged)
           /\ Allows(charged) => [at |-> hour, nr |-> decided + 1] \in Charge(charged)
<1>1. hour \in 0..MaxHours
    BY DEF WakesInv, BudgetsTypeOK
<1>2. [at |-> hour, nr |-> decided + 1] \in Charges
    BY <1>1 DEF Charges
<1>3. Recent(charged) \subseteq charged
    BY DEF Recent
<1> QED
    BY <1>2, <1>3 DEF Charge

\* Hearing adds a notice to one payer's.
LEMMA HearingAdds ==
    ASSUME NEW p \in Payers, NEW q \in Payers, NEW n \in Notice, Hears(n, q)
    PROVE  HeardFrom(p)' \subseteq HeardFrom(p) \union IF p = q THEN {[n EXCEPT !.told = TRUE]} ELSE {}
BY DEF Hears, HeardFrom

\* The queue stands for the same decisions as long as its notices do.
LEMMA QueueStandsFor ==
    ASSUME NEW p \in Payers, NEW D,
           \A k \in DOMAIN queue' : [queue'[k] EXCEPT !.told = TRUE] \in D
    PROVE  StillQueued(p)' \subseteq D
BY DEF StillQueued

LEMMA DecisionsAre ==
    ASSUME NEW p \in Payers
    PROVE  Decisions(p) = HeardFrom(p) \union StillQueued(p)
BY DEF Decisions, HeardFrom

\* A decision has not been made before.
LEMMA QueuedAreOld ==
    ASSUME WakesInv, NEW k \in DOMAIN queue
    PROVE  /\ queue[k] \in Notice /\ queue[k].nr \in Nat /\ queue[k].nr <= decided
           /\ [queue[k] EXCEPT !.told = TRUE] \in StillQueued("daemon")
<1>1. queue[k] \in Notice
    BY DEF WakesInv, BudgetsTypeOK
<1>2. [queue[k] EXCEPT !.told = TRUE] \in Decisions("daemon") /\ [queue[k] EXCEPT !.told = TRUE].nr = queue[k].nr
    BY <1>1 DEF Decisions, StillQueued, Notice
<1>3. [queue[k] EXCEPT !.told = TRUE].nr <= decided
    BY <1>2 DEF WakesInv, DecisionsAreOld, Payers
<1>4. queue[k].nr \in Nat
    BY <1>1 DEF Notice
<1>5. [queue[k] EXCEPT !.told = TRUE] \in StillQueued("daemon")
    BY DEF StillQueued
<1> QED
    BY <1>1, <1>2, <1>3, <1>4, <1>5

\* Neither what was heard nor the queue changes.
LEMMA SameDecisions ==
    ASSUME NEW p \in Payers, UNCHANGED <<heard, queue>>
    PROVE  Decisions(p)' = Decisions(p)
BY DEF Decisions, StillQueued

\* The queue with one more, the queue without its head.
LEMMA QueueGrows ==
    ASSUME NEW q \in Seq(Notice), NEW n \in Notice
    PROVE  /\ Append(q, n) \in Seq(Notice)
           /\ \A k \in DOMAIN Append(q, n) :
                \/ k = Len(q) + 1 /\ Append(q, n)[k] = n
                \/ k \in DOMAIN q /\ Append(q, n)[k] = q[k]
BY AppendProperties

LEMMA QueueShrinks ==
    ASSUME NEW q \in Seq(Notice), q # <<>>
    PROVE  /\ 1 \in DOMAIN q /\ Head(q) = q[1] /\ Tail(q) \in Seq(Notice)
           /\ \A k \in DOMAIN Tail(q) : k \in Nat /\ k # 0 /\ k + 1 \in DOMAIN q /\ Tail(q)[k] = q[k + 1]
BY HeadTailProperties

-----------------------------------------------------------------------------
(* Every step *)

LEMMA WakesInvInit == BudgetsInit => WakesInv
<1> SUFFICES ASSUME BudgetsInit PROVE WakesInv
    OBVIOUS
<1>1. /\ hour = 0 /\ payer \in Payers /\ session \in Sessions \union {NoSession}
      /\ sessionWakes = [s \in Sessions |-> {}] /\ inboxWakes = {} /\ daemonWakes = {}
      /\ batch = NoBatch /\ queue = <<>> /\ arrivals = 0 /\ stumbles = 0
      /\ lives = [p \in Payers |-> 1] /\ decided = 0 /\ heard = {}
    BY DEF BudgetsInit
<1>2. BudgetsTypeOK
    BY <1>1, BudgetsAssumption DEF BudgetsTypeOK
<1>3. \A p \in Payers : Decisions(p) = {}
    BY <1>1 DEF Decisions, StillQueued
<1>4. DecisionsAreOld /\ WakesAreCharged
    BY <1>3 DEF DecisionsAreOld, WakesAreCharged
<1>5. WindowsAreKept
  <2> SUFFICES ASSUME NEW p \in Payers, NEW l \in Nat, NEW t \in Nat
               PROVE  Cardinality(Woken(p, l, t)) <= MaxWakes
      BY DEF WindowsAreKept
  <2>1. Woken(p, l, t) = {}
      BY <1>3 DEF Woken
  <2> QED
      BY <2>1, FS_EmptySet, BudgetsAssumption
<1>6. QueueIsNew
    BY <1>1 DEF QueueIsNew
<1>7. CountsAreBounded
    BY <1>1 DEF CountsAreBounded, Payers
<1> QED
    BY <1>2, <1>4, <1>5, <1>6, <1>7 DEF WakesInv

\* The plugin decides a letter.
LEMMA PluginDecides == ASSUME WakesInv, PluginWakes PROVE WakesInv'
<1> DEFINE how == IF Allows(sessionWakes[session]) /\ Allows(inboxWakes) THEN "wake" ELSE "inject"
           d == DecidedNow(how, "plugin")
           kept == sessionWakes[session]
<1>1. /\ arrivals < MaxLetters /\ session # NoSession /\ arrivals' = arrivals + 1
      /\ sessionWakes' = [sessionWakes EXCEPT ![session] = Charge(@)]
      /\ inboxWakes' = IF Allows(sessionWakes[session]) THEN Charge(inboxWakes) ELSE inboxWakes
      /\ Hears(Made(how, "plugin"), "plugin") /\ decided' = decided + 1
      /\ UNCHANGED <<hour, payer, session, daemonWakes, batch, queue, stumbles, lives>>
    BY DEF PluginWakes
<1>2. how \in {"wake", "inject"} /\ "plugin" \in Payers /\ "daemon" \in Payers
    BY DEF Payers
<1>3. /\ decided + 1 \in 1..MaxLetters + MaxStumbles /\ decided \in Nat /\ session \in Sessions
      /\ arrivals + 1 \in 0..MaxLetters /\ hour \in 0..MaxHours
    BY <1>1, BudgetsAssumption DEF WakesInv, BudgetsTypeOK, CountsAreBounded
<1>4. kept \in SUBSET Charges /\ inboxWakes \in SUBSET Charges
    BY <1>3 DEF WakesInv, BudgetsTypeOK
<1>5. d \in Notice /\ Made(how, "plugin") \in Notice /\ [Made(how, "plugin") EXCEPT !.told = TRUE] = d
    BY <1>2, <1>3, NowIsANotice
<1>6. /\ Charge(kept) \subseteq Charges /\ Charge(inboxWakes) \subseteq Charges
      /\ Recent(inboxWakes) \subseteq Charge(inboxWakes) /\ Recent(inboxWakes) \subseteq inboxWakes
      /\ Allows(inboxWakes) => [at |-> hour, nr |-> decided + 1] \in Charge(inboxWakes)
    BY <1>3, <1>4, ChargingKeeps DEF Recent
<1>7. heard' = heard \union {[notice |-> d, by |-> "plugin", at |-> hour, who |-> session]}
    BY <1>1, <1>5 DEF Hears
<1>8. /\ d.how = how /\ d.told /\ d.made = hour /\ d.life = lives["plugin"] /\ d.nr = decided + 1
    BY DEF DecidedNow
<1>9. BudgetsTypeOK'
  <2> HIDE DEF d
  <2>1. \A h \in heard' : h.notice \in Notice /\ h.by \in Payers /\ h.at \in 0..MaxHours /\ h.who \in Sessions
      BY <1>2, <1>3, <1>5, <1>7 DEF WakesInv, BudgetsTypeOK
  <2>2. sessionWakes' \in [Sessions -> SUBSET Charges]
      BY <1>1, <1>6 DEF WakesInv, BudgetsTypeOK
  <2>3. inboxWakes' \subseteq Charges
      BY <1>1, <1>4, <1>6
  <2> QED
      BY <1>1, <1>3, <2>1, <2>2, <2>3, BudgetsAssumption DEF WakesInv, BudgetsTypeOK
<1> HIDE DEF how, kept
<1>10. PayerKept("plugin")'
  <2>1. HeardFrom("plugin")' \subseteq HeardFrom("plugin") \union {d}
      BY <1>7 DEF HeardFrom
  <2>2. Decisions("plugin")' \subseteq Decisions("plugin") \union {d}
      BY <2>1, DecisionsAre, <1>2 DEF Decisions, HeardFrom, StillQueued
  <2>3. Recent(BudgetOf("plugin")) \subseteq BudgetOf("plugin")'
      BY <1>1, <1>6 DEF BudgetOf
  <2>4. d.how = "wake" => Allows(BudgetOf("plugin")) /\ [at |-> hour, nr |-> decided + 1] \in BudgetOf("plugin")'
      BY <1>1, <1>6, <1>8 DEF BudgetOf, how
  <2> HIDE DEF d
  <2> QED
      BY <1>1, <1>2, <1>5, <1>8, <2>2, <2>3, <2>4, OnceDecided
<1>11. PayerKept("daemon")'
  <2>1. HeardFrom("daemon")' \subseteq HeardFrom("daemon")
      BY <1>7 DEF HeardFrom
  <2>2. Decisions("daemon")' \subseteq Decisions("daemon")
      BY <1>1, <2>1 DEF Decisions, HeardFrom, StillQueued
  <2>3. Recent(BudgetOf("daemon")) \subseteq BudgetOf("daemon")'
      BY <1>1 DEF BudgetOf, Recent
  <2>4. lives'["daemon"] \in Nat /\ lives["daemon"] <= lives'["daemon"] /\ hour' \in Nat /\ hour <= hour'
      BY <1>1, <1>2, BudgetsAssumption DEF WakesInv, BudgetsTypeOK
  <2> QED
      BY <1>1, <1>2, <1>3, <2>2, <2>3, <2>4, NothingDecided
<1>12. DecisionsAreOld' /\ WakesAreCharged' /\ WindowsAreKept'
    BY <1>10, <1>11, AllPayersKept DEF Payers
<1>13. QueueIsNew'
  <2> HIDE DEF d
  <2>1. \A k \in DOMAIN queue : queue[k].nr \in Nat /\ queue[k].nr <= decided
      BY QueuedAreOld
  <2>2. \A h \in heard : h.notice.nr \in Nat /\ h.notice.nr <= decided
      BY DEF WakesInv, QueueIsNew, BudgetsTypeOK, Notice
  <2> QED
      BY <1>1, <1>3, <1>7, <1>8, <2>1, <2>2 DEF WakesInv, QueueIsNew
<1>14. CountsAreBounded'
    BY <1>1, <1>3 DEF WakesInv, BudgetsTypeOK, CountsAreBounded, Payers
<1> QED
    BY <1>9, <1>12, <1>13, <1>14 DEF WakesInv

\* The daemon decides a batch, whatever becomes of it.
LEMMA DaemonDecides == ASSUME WakesInv, DaemonFlushes PROVE WakesInv'
<1> DEFINE how == IF Allows(daemonWakes) THEN "wake" ELSE "inject"
           told == batch = "told"
           d == DecidedNow(how, "daemon")
           n == [Made(how, "daemon") EXCEPT !.told = told]
           hearing == [notice |-> d, by |-> "daemon", at |-> hour, who |-> session]
<1>1. /\ batch # NoBatch /\ daemonWakes' = Charge(daemonWakes) /\ decided' = decided + 1
      /\ UNCHANGED <<hour, payer, session, sessionWakes, inboxWakes, arrivals, lives>>
    BY DEF DaemonFlushes
<1>2. how \in {"wake", "inject"} /\ "plugin" \in Payers /\ "daemon" \in Payers /\ told \in BOOLEAN
    BY DEF Payers
<1>3. /\ decided + 1 \in 1..MaxLetters + MaxStumbles /\ decided \in Nat
      /\ hour \in 0..MaxHours /\ decided + 1 <= arrivals + stumbles
    BY <1>1, BudgetsAssumption DEF WakesInv, BudgetsTypeOK, CountsAreBounded
<1>4. /\ d \in Notice /\ n \in Notice /\ [n EXCEPT !.told = TRUE] = d
      /\ n = [d EXCEPT !.told = told]
    BY <1>2, <1>3, NowIsANotice
<1>5. d.how = how /\ d.told /\ d.made = hour /\ d.life = lives["daemon"] /\ d.nr = decided + 1
    BY DEF DecidedNow
<1>6. n.nr = decided + 1 /\ n.told = told
  <2> HIDE DEF d, n, told
  <2> QED
      BY <1>4, <1>5 DEF Notice
<1>7. /\ Charge(daemonWakes) \subseteq Charges /\ Recent(daemonWakes) \subseteq Charge(daemonWakes)
      /\ Allows(daemonWakes) => [at |-> hour, nr |-> decided + 1] \in Charge(daemonWakes)
    BY <1>3, ChargingKeeps DEF WakesInv, BudgetsTypeOK
<1>8. Hears(n, "daemon") => heard' = heard \union {hearing}
    BY <1>4 DEF Hears
<1>9. \/ heard' = heard /\ queue' = Append(queue, n)
      \/ heard' = heard /\ queue' = queue
      \/ ~told /\ session # NoSession /\ heard' = heard \union {hearing} /\ queue' = queue
  <2> HIDE DEF d, hearing
  <2>1. n.told = told
      BY <1>6
  <2> QED
      BY <1>8, <2>1 DEF DaemonFlushes
<1>10. \/ batch' = NoBatch /\ stumbles' = stumbles
       \/ batch' \in {batch, "told"} /\ stumbles < MaxStumbles /\ stumbles' = stumbles + 1
    BY DEF DaemonFlushes, Stumble
<1> HIDE DEF how, told, d, n
<1>11. BudgetsTypeOK'
  <2>1. \A h \in heard' : h.notice \in Notice /\ h.by \in Payers /\ h.at \in 0..MaxHours /\ h.who \in Sessions
    <3>1. CASE heard' = heard
        BY <3>1 DEF WakesInv, BudgetsTypeOK
    <3>2. CASE session # NoSession /\ heard' = heard \union {hearing}
        BY <1>2, <1>3, <1>4, <3>2 DEF WakesInv, BudgetsTypeOK
    <3> QED
        BY <1>9, <3>1, <3>2
  <2>2. queue' \in Seq(Notice)
    <3>1. queue \in Seq(Notice)
        BY DEF WakesInv, BudgetsTypeOK
    <3> QED
        BY <1>4, <1>9, <3>1, QueueGrows
  <2>3. batch' \in {NoBatch, "due", "told"} /\ stumbles' \in 0..MaxStumbles
      BY <1>10, BudgetsAssumption DEF WakesInv, BudgetsTypeOK
  <2> QED
      BY <1>1, <1>3, <1>7, <2>1, <2>2, <2>3 DEF WakesInv, BudgetsTypeOK
<1>12. PayerKept("daemon")'
  <2>1. HeardFrom("daemon")' \subseteq HeardFrom("daemon") \union {d}
      BY <1>9 DEF HeardFrom
  <2>2. StillQueued("daemon")' \subseteq StillQueued("daemon") \union {d}
    <3>1. CASE queue' = queue
        BY <3>1 DEF StillQueued
    <3>2. CASE queue' = Append(queue, n)
      <4>1. \A k \in DOMAIN queue' : queue'[k] = n \/ (k \in DOMAIN queue /\ queue'[k] = queue[k])
          BY <1>4, <3>2, QueueGrows DEF WakesInv, BudgetsTypeOK
      <4>2. \A k \in DOMAIN queue' : [queue'[k] EXCEPT !.told = TRUE] \in StillQueued("daemon") \union {d}
          BY <1>4, <4>1, QueuedAreOld
      <4> QED
          BY <1>2, <4>2, QueueStandsFor
    <3> QED
        BY <1>9, <3>1, <3>2
  <2>3. Decisions("daemon")' \subseteq Decisions("daemon") \union {d}
      BY <2>1, <2>2 DEF Decisions, HeardFrom
  <2>4. Recent(BudgetOf("daemon")) \subseteq BudgetOf("daemon")'
      BY <1>1, <1>7 DEF BudgetOf
  <2>5. d.how = "wake" => Allows(BudgetOf("daemon")) /\ [at |-> hour, nr |-> decided + 1] \in BudgetOf("daemon")'
      BY <1>1, <1>5, <1>7 DEF BudgetOf, how
  <2> QED
      BY <1>1, <1>2, <1>4, <1>5, <2>3, <2>4, <2>5, OnceDecided
<1>13. PayerKept("plugin")'
  <2>1. HeardFrom("plugin")' \subseteq HeardFrom("plugin")
      BY <1>9 DEF HeardFrom
  <2>2. Decisions("plugin")' \subseteq Decisions("plugin")
      BY <2>1 DEF Decisions, HeardFrom, StillQueued
  <2>3. Recent(BudgetOf("plugin")) \subseteq BudgetOf("plugin")'
      BY <1>1 DEF BudgetOf, Recent
  <2>4. lives'["plugin"] \in Nat /\ lives["plugin"] <= lives'["plugin"] /\ hour' \in Nat /\ hour <= hour'
      BY <1>1, <1>2, BudgetsAssumption DEF WakesInv, BudgetsTypeOK
  <2> QED
      BY <1>1, <1>2, <1>3, <2>2, <2>3, <2>4, NothingDecided
<1>14. DecisionsAreOld' /\ WakesAreCharged' /\ WindowsAreKept'
    BY <1>12, <1>13, AllPayersKept DEF Payers
<1>15. QueueIsNew'
  <2>1. \A k \in DOMAIN queue : queue[k].nr \in Nat /\ queue[k].nr <= decided
      BY QueuedAreOld
  <2>2. \A h \in heard : h.notice.nr \in Nat /\ h.notice.nr <= decided
      BY DEF WakesInv, QueueIsNew, BudgetsTypeOK, Notice
  <2>3. CASE heard' = heard /\ queue' = queue
      BY <1>1, <1>3, <2>2, <2>3 DEF WakesInv, QueueIsNew
  <2>4. CASE heard' = heard /\ queue' = Append(queue, n)
    <3>1. \A k \in DOMAIN queue' : \/ queue'[k].nr = decided + 1 /\ k = Len(queue) + 1
                                   \/ k \in DOMAIN queue /\ queue'[k] = queue[k]
        BY <1>4, <1>6, <2>4, QueueGrows DEF WakesInv, BudgetsTypeOK
    <3> QED
        BY <1>1, <1>3, <2>1, <2>2, <2>4, <3>1 DEF WakesInv, QueueIsNew
  <2>5. CASE heard' = heard \union {hearing} /\ queue' = queue
    <3>1. hearing.notice.nr = decided + 1
        BY <1>5
    <3> HIDE DEF hearing
    <3> QED
        BY <1>1, <1>3, <2>1, <2>2, <2>5, <3>1 DEF WakesInv, QueueIsNew
  <2> QED
      BY <1>9, <2>3, <2>4, <2>5
<1>16. CountsAreBounded'
    BY <1>1, <1>3, <1>10 DEF WakesInv, BudgetsTypeOK, CountsAreBounded, Payers
<1> QED
    BY <1>11, <1>14, <1>15, <1>16 DEF WakesInv

\* A queued batch goes out once more.
LEMMA DaemonTellsAgain == ASSUME WakesInv, DaemonReplays PROVE WakesInv'
<1> DEFINE first == queue[1]
           d == [first EXCEPT !.told = TRUE]
           hearing == [notice |-> d, by |-> "daemon", at |-> hour, who |-> session]
           kept == [queue EXCEPT ![1].told = TRUE]
<1>1. /\ queue # <<>> /\ session # NoSession
      /\ UNCHANGED <<hour, payer, session, sessionWakes, inboxWakes, daemonWakes, batch, arrivals, lives, decided>>
    BY DEF DaemonReplays
<1>2. /\ queue \in Seq(Notice) /\ 1 \in DOMAIN queue /\ Head(queue) = first /\ Tail(queue) \in Seq(Notice)
      /\ \A k \in DOMAIN Tail(queue) :
           k \in Nat /\ k # 0 /\ k + 1 \in DOMAIN queue /\ Tail(queue)[k] = queue[k + 1]
    BY <1>1, QueueShrinks DEF WakesInv, BudgetsTypeOK
<1>3. first \in Notice /\ first.nr \in Nat /\ first.nr <= decided /\ d \in StillQueued("daemon")
    BY <1>2, QueuedAreOld
<1>4. d \in Notice /\ d.nr = first.nr /\ d.told
  <2> HIDE DEF first
  <2> QED
      BY <1>3 DEF Notice
<1>5. /\ DOMAIN kept = DOMAIN queue /\ kept \in Seq(Notice)
      /\ \A k \in DOMAIN queue : kept[k] = IF k = 1 THEN d ELSE queue[k]
    BY <1>2, <1>4
<1>6. \/ first.told /\ heard' = heard
      \/ ~first.told /\ heard' = heard \union {hearing}
    BY <1>2 DEF DaemonReplays, Hears
<1>7. \/ queue' = Tail(queue) /\ stumbles' = stumbles
      \/ queue' = kept /\ stumbles < MaxStumbles /\ stumbles' = stumbles + 1
    BY DEF DaemonReplays, Stumble
<1>8. "plugin" \in Payers /\ "daemon" \in Payers
    BY DEF Payers
<1> HIDE DEF first, d, kept
<1>9. BudgetsTypeOK'
  <2>1. \A h \in heard' : h.notice \in Notice /\ h.by \in Payers /\ h.at \in 0..MaxHours /\ h.who \in Sessions
      BY <1>1, <1>4, <1>6, <1>8 DEF WakesInv, BudgetsTypeOK
  <2>2. queue' \in Seq(Notice) /\ stumbles' \in 0..MaxStumbles
    <3>1. stumbles \in 0..MaxStumbles
        BY DEF WakesInv, BudgetsTypeOK
    <3> QED
        BY <1>2, <1>5, <1>7, <3>1, BudgetsAssumption
  <2> QED
      BY <1>1, <2>1, <2>2 DEF WakesInv, BudgetsTypeOK
<1>10. StillQueued("daemon")' \subseteq StillQueued("daemon")
  <2>1. [d EXCEPT !.told = TRUE] = d
      BY <1>4 DEF Notice
  <2>2. \A k \in DOMAIN queue' : [queue'[k] EXCEPT !.told = TRUE] \in StillQueued("daemon")
    <3>1. CASE queue' = Tail(queue)
        BY <1>2, <3>1, QueuedAreOld
    <3>2. CASE queue' = kept
        BY <1>3, <1>5, <2>1, <3>2, QueuedAreOld
    <3> QED
        BY <1>7, <3>1, <3>2
  <2> QED
      BY <1>8, <2>2, QueueStandsFor
<1>11. Decisions("daemon")' \subseteq Decisions("daemon")
  <2>1. HeardFrom("daemon")' \subseteq HeardFrom("daemon") \union {d}
      BY <1>6 DEF HeardFrom
  <2> QED
      BY <1>3, <1>10, <2>1 DEF Decisions, HeardFrom
<1>12. Decisions("plugin")' \subseteq Decisions("plugin")
  <2>1. HeardFrom("plugin")' \subseteq HeardFrom("plugin")
      BY <1>6 DEF HeardFrom
  <2> QED
      BY <2>1 DEF Decisions, HeardFrom, StillQueued
<1>13. DecisionsAreOld' /\ WakesAreCharged' /\ WindowsAreKept'
  <2>1. \A p \in Payers : PayerKept(p)'
    <3> SUFFICES ASSUME NEW p \in Payers PROVE PayerKept(p)'
        OBVIOUS
    <3>1. Decisions(p)' \subseteq Decisions(p)
        BY <1>11, <1>12 DEF Payers
    <3>2. Recent(BudgetOf(p)) \subseteq BudgetOf(p)'
        BY <1>1 DEF BudgetOf, Recent
    <3>3. /\ lives'[p] \in Nat /\ lives[p] <= lives'[p] /\ hour' \in Nat /\ hour <= hour'
          /\ decided' \in Nat /\ decided <= decided'
        BY <1>1, BudgetsAssumption DEF WakesInv, BudgetsTypeOK
    <3> QED
        BY <3>1, <3>2, <3>3, NothingDecided
  <2> QED
      BY <2>1, AllPayersKept
<1>14. QueueIsNew'
  <2>1. \A k \in DOMAIN queue : k = 1 <=> queue[k].nr = first.nr
      BY <1>2 DEF WakesInv, QueueIsNew, first
  <2>2. \A h \in heard' : h \in heard \/ (h = hearing /\ ~first.told)
      BY <1>6
  <2>3. hearing.notice.nr = first.nr
      BY <1>4
  <2> HIDE DEF hearing
  <2>4. \A h \in heard' : h.notice.nr <= decided'
      BY <1>1, <1>3, <2>2, <2>3 DEF WakesInv, QueueIsNew
  <2>5. \A j \in DOMAIN queue' : \E k \in DOMAIN queue :
          /\ queue'[j].nr = queue[k].nr
          /\ queue' = Tail(queue) => k = j + 1 /\ j \in Nat /\ j # 0 /\ queue'[j] = queue[k]
          /\ queue' # Tail(queue) => k = j /\ (queue'[j].told \/ (queue'[j] = queue[k] /\ j # 1))
    <3>1. CASE queue' = Tail(queue)
        BY <1>2, <3>1
    <3>2. CASE queue' = kept /\ queue' # Tail(queue)
        BY <1>4, <1>5, <3>2 DEF first
    <3> QED
        BY <1>7, <3>1, <3>2
  <2>6. \A j, k \in DOMAIN queue' : j # k => queue'[j].nr # queue'[k].nr
    <3>1. \A j, k \in DOMAIN queue : j # k => queue[j].nr # queue[k].nr
        BY DEF WakesInv, QueueIsNew
    <3> SUFFICES ASSUME NEW j \in DOMAIN queue', NEW k \in DOMAIN queue', j # k
                 PROVE  queue'[j].nr # queue'[k].nr
        OBVIOUS
    <3>2. CASE queue' = Tail(queue)
        BY <1>2, <3>1, <3>2
    <3>3. CASE queue' # Tail(queue)
        BY <2>5, <3>1, <3>3
    <3> QED
        BY <3>2, <3>3
  <2>7. ASSUME lives'["plugin"] = 1
        PROVE  /\ \A g, h \in heard' : g.notice.nr = h.notice.nr => g = h
               /\ \A h \in heard', k \in DOMAIN queue' : h.notice.nr = queue'[k].nr => queue'[k].told
    <3>1. /\ \A g, h \in heard : g.notice.nr = h.notice.nr => g = h
          /\ \A h \in heard, k \in DOMAIN queue : h.notice.nr = queue[k].nr => queue[k].told
        BY <1>1, <2>7 DEF WakesInv, QueueIsNew
    <3>2. \A h \in heard : ~first.told => h.notice.nr # first.nr
        BY <1>2, <3>1 DEF first
    <3>3. \A g, h \in heard' : g.notice.nr = h.notice.nr => g = h
        BY <2>2, <2>3, <3>1, <3>2
    <3>4. ASSUME NEW h \in heard', NEW j \in DOMAIN queue', h.notice.nr = queue'[j].nr PROVE queue'[j].told
      <4>1. CASE queue' = Tail(queue)
        <5>1. PICK k \in DOMAIN queue : queue'[j] = queue[k] /\ k # 1
            BY <2>5, <4>1
        <5>2. h \in heard
            BY <2>1, <2>2, <2>3, <3>4, <5>1
        <5> QED
            BY <3>1, <3>4, <5>1, <5>2
      <4>2. CASE queue' # Tail(queue) /\ ~queue'[j].told
        <5>1. j \in DOMAIN queue /\ queue'[j] = queue[j] /\ j # 1
            BY <2>5, <4>2
        <5>2. h \in heard
            BY <2>1, <2>2, <2>3, <3>4, <5>1
        <5> QED
            BY <3>1, <3>4, <5>1, <5>2
      <4> QED
          BY <4>1, <4>2
    <3> QED
        BY <3>3, <3>4
  <2> QED
      BY <2>4, <2>6, <2>7 DEF QueueIsNew
<1>15. CountsAreBounded'
  <2>1. stumbles \in Nat /\ arrivals \in Nat /\ decided \in Nat
        /\ lives["plugin"] \in Nat /\ lives["daemon"] \in Nat
      BY <1>8, BudgetsAssumption DEF WakesInv, BudgetsTypeOK
  <2> QED
      BY <1>1, <1>7, <2>1 DEF WakesInv, CountsAreBounded
<1> QED
    BY <1>9, <1>13, <1>14, <1>15 DEF WakesInv

\* Nothing is decided and nothing heard: a letter comes, an hour passes, sessions come and go, the
\* daemon ends or is there again.
LEMMA QuietSteps ==
    ASSUME WakesInv,
           DaemonGathers \/ HourPasses \/ SessionChanges \/ PayerChanges \/ UNCHANGED budgetVars
    PROVE  WakesInv'
<1>1. /\ decided' = decided /\ heard' = heard /\ queue' = queue
      /\ UNCHANGED <<sessionWakes, inboxWakes>>
    BY DEF DaemonGathers, HourPasses, SessionChanges, PayerChanges, budgetVars
<1>2. \/ hour' = hour
      \/ hour < MaxHours /\ hour' = hour + 1
    BY DEF DaemonGathers, HourPasses, SessionChanges, PayerChanges, budgetVars
<1>3. \/ UNCHANGED <<lives, daemonWakes, stumbles>>
      \/ /\ stumbles < MaxStumbles /\ stumbles' = stumbles + 1 /\ daemonWakes' = {}
         /\ lives' = [lives EXCEPT !["daemon"] = @ + 1]
    BY DEF DaemonGathers, HourPasses, SessionChanges, PayerChanges, budgetVars, Stumble
<1>4. \/ UNCHANGED <<batch, arrivals>>
      \/ batch = NoBatch /\ arrivals < MaxLetters /\ arrivals' = arrivals + 1 /\ batch' = "due"
    BY DEF DaemonGathers, HourPasses, SessionChanges, PayerChanges, budgetVars
<1>5. payer' \in Payers /\ session' \in Sessions \union {NoSession}
    BY DEF WakesInv, BudgetsTypeOK, DaemonGathers, HourPasses, SessionChanges, PayerChanges, budgetVars
<1>6. /\ "plugin" \in Payers /\ "daemon" \in Payers /\ lives \in [Payers -> 1..MaxStumbles + 1]
      /\ hour \in 0..MaxHours /\ arrivals \in 0..MaxLetters /\ stumbles \in 0..MaxStumbles
      /\ lives["plugin"] \in 1..MaxStumbles + 1 /\ lives["daemon"] \in 1..MaxStumbles + 1
      /\ lives["plugin"] + lives["daemon"] <= stumbles + 2 /\ decided \in 0..MaxLetters + MaxStumbles
    BY DEF WakesInv, BudgetsTypeOK, CountsAreBounded, Payers
<1>7. hour' \in 0..MaxHours /\ hour <= hour'
    BY <1>2, <1>6, BudgetsAssumption
<1>8. /\ lives' \in [Payers -> 1..MaxStumbles + 1] /\ lives'["plugin"] = lives["plugin"]
      /\ \/ daemonWakes' = daemonWakes /\ lives'["daemon"] = lives["daemon"]
         \/ lives'["daemon"] = lives["daemon"] + 1
  <2>1. CASE UNCHANGED <<lives, daemonWakes, stumbles>>
      BY <1>6, <2>1
  <2>2. CASE stumbles < MaxStumbles /\ lives' = [lives EXCEPT !["daemon"] = @ + 1]
    <3>1. lives["daemon"] + 1 \in 1..MaxStumbles + 1
        BY <1>6, <2>2, BudgetsAssumption
    <3> QED
        BY <1>6, <2>2, <3>1
  <2> QED
      BY <1>3, <2>1, <2>2
<1>9. BudgetsTypeOK'
  <2>1. stumbles' \in 0..MaxStumbles /\ arrivals' \in 0..MaxLetters
      BY <1>3, <1>4, <1>6, BudgetsAssumption
  <2>2. daemonWakes' \subseteq Charges /\ batch' \in {NoBatch, "due", "told"}
      BY <1>3, <1>4 DEF WakesInv, BudgetsTypeOK
  <2> QED
      BY <1>1, <1>5, <1>7, <1>8, <2>1, <2>2 DEF WakesInv, BudgetsTypeOK
<1>10. DecisionsAreOld' /\ WakesAreCharged' /\ WindowsAreKept'
  <2>1. \A p \in Payers : PayerKept(p)'
    <3> SUFFICES ASSUME NEW p \in Payers PROVE PayerKept(p)'
        OBVIOUS
    <3>1. Decisions(p)' \subseteq Decisions(p)
        BY <1>1, SameDecisions
    <3>2. lives'[p] = lives[p] => Recent(BudgetOf(p)) \subseteq BudgetOf(p)'
        BY <1>1, <1>6, <1>8, BudgetsAssumption DEF BudgetOf, Recent, Payers
    <3>3. lives'[p] \in Nat /\ lives[p] <= lives'[p]
        BY <1>6, <1>8, BudgetsAssumption DEF Payers
    <3>4. hour' \in Nat /\ decided' \in Nat /\ decided <= decided'
        BY <1>1, <1>6, <1>7, BudgetsAssumption
    <3> QED
        BY <1>7, <3>1, <3>2, <3>3, <3>4, NothingDecided
  <2> QED
      BY <2>1, AllPayersKept
<1>11. QueueIsNew'
    BY <1>1, <1>8 DEF WakesInv, QueueIsNew
<1>12. CountsAreBounded'
  <2>1. decided + (IF batch = NoBatch THEN 0 ELSE 1) <= arrivals + stumbles
      BY DEF WakesInv, CountsAreBounded
  <2>2. decided' + (IF batch' = NoBatch THEN 0 ELSE 1) <= arrivals' + stumbles'
      BY <1>1, <1>3, <1>4, <1>6, <2>1, BudgetsAssumption DEF NoBatch
  <2>3. lives'["plugin"] + lives'["daemon"] <= stumbles' + 2
      BY <1>3, <1>6, <1>8, BudgetsAssumption
  <2> QED
      BY <2>2, <2>3 DEF CountsAreBounded
<1> QED
    BY <1>9, <1>10, <1>11, <1>12 DEF WakesInv

\* The plugin begins anew: what is queued stands for the same decisions, untold.
LEMMA PluginBeginsAnew == ASSUME WakesInv, PluginRestarts PROVE WakesInv'
<1>1. /\ stumbles < MaxStumbles /\ stumbles' = stumbles + 1
      /\ sessionWakes' = [s \in Sessions |-> {}] /\ inboxWakes' = {}
      /\ lives' = [lives EXCEPT !["plugin"] = @ + 1]
      /\ batch' = IF batch = "told" THEN "due" ELSE batch
      /\ queue' = [k \in DOMAIN queue |-> [queue[k] EXCEPT !.told = FALSE]]
      /\ session' = NoSession
      /\ UNCHANGED <<hour, payer, daemonWakes, arrivals, decided, heard>>
    BY DEF PluginRestarts, Stumble
<1>2. /\ "plugin" \in Payers /\ "daemon" \in Payers /\ lives \in [Payers -> 1..MaxStumbles + 1]
      /\ hour \in 0..MaxHours /\ arrivals \in 0..MaxLetters /\ stumbles \in 0..MaxStumbles
      /\ lives["plugin"] \in 1..MaxStumbles + 1 /\ lives["daemon"] \in 1..MaxStumbles + 1
      /\ lives["plugin"] + lives["daemon"] <= stumbles + 2 /\ decided \in 0..MaxLetters + MaxStumbles
    BY DEF WakesInv, BudgetsTypeOK, CountsAreBounded, Payers
<1>3. /\ lives["plugin"] + 1 \in 1..MaxStumbles + 1 /\ lives' \in [Payers -> 1..MaxStumbles + 1]
      /\ lives'["plugin"] = lives["plugin"] + 1 /\ lives'["daemon"] = lives["daemon"]
  <2>1. lives["plugin"] + 1 \in 1..MaxStumbles + 1
      BY <1>1, <1>2, BudgetsAssumption
  <2> QED
      BY <1>1, <1>2, <2>1
<1>4. \A k \in DOMAIN queue : [queue[k] EXCEPT !.told = FALSE] \in Notice
  <2>1. \A n \in Notice : [n EXCEPT !.told = FALSE] \in Notice
      BY DEF Notice
  <2> QED
      BY <2>1, QueuedAreOld
<1>5. /\ queue' \in Seq(Notice) /\ DOMAIN queue' = DOMAIN queue
      /\ \A k \in DOMAIN queue : queue'[k] = [queue[k] EXCEPT !.told = FALSE]
  <2>1. queue \in Seq(Notice) /\ DOMAIN queue = 1..Len(queue) /\ Len(queue) \in Nat
      BY DEF WakesInv, BudgetsTypeOK
  <2>2. queue' \in [1..Len(queue) -> Notice]
      BY <1>1, <1>4, <2>1
  <2> QED
      BY <1>1, <2>1, <2>2
<1>6. \A k \in DOMAIN queue : queue'[k].nr = queue[k].nr
    BY <1>5, QueuedAreOld DEF Notice
<1>7. BudgetsTypeOK'
  <2>1. stumbles' \in 0..MaxStumbles
      BY <1>1, <1>2, BudgetsAssumption
  <2>2. batch' \in {NoBatch, "due", "told"}
      BY <1>1 DEF WakesInv, BudgetsTypeOK
  <2> QED
      BY <1>1, <1>3, <1>5, <2>1, <2>2 DEF WakesInv, BudgetsTypeOK
<1>8. \A p \in Payers : Decisions(p)' \subseteq Decisions(p)
  <2> SUFFICES ASSUME NEW p \in Payers PROVE Decisions(p)' \subseteq Decisions(p)
      OBVIOUS
  <2>1. \A n \in Notice : [[n EXCEPT !.told = FALSE] EXCEPT !.told = TRUE] = [n EXCEPT !.told = TRUE]
      BY DEF Notice
  <2>2. \A k \in DOMAIN queue' : [queue'[k] EXCEPT !.told = TRUE] \in StillQueued("daemon")
      BY <1>5, <2>1, QueuedAreOld
  <2>3. StillQueued("daemon")' \subseteq StillQueued("daemon")
      BY <1>2, <2>2, QueueStandsFor
  <2>4. StillQueued(p)' \subseteq StillQueued(p)
      BY <2>3 DEF StillQueued
  <2> QED
      BY <1>1, <2>4 DEF Decisions
<1>9. DecisionsAreOld' /\ WakesAreCharged' /\ WindowsAreKept'
  <2>1. \A p \in Payers : PayerKept(p)'
    <3> SUFFICES ASSUME NEW p \in Payers PROVE PayerKept(p)'
        OBVIOUS
    <3>1. lives'[p] = lives[p] => Recent(BudgetOf(p)) \subseteq BudgetOf(p)'
        BY <1>1, <1>2, <1>3, BudgetsAssumption DEF BudgetOf, Recent, Payers
    <3>2. lives'[p] \in Nat /\ lives[p] <= lives'[p]
        BY <1>2, <1>3, BudgetsAssumption DEF Payers
    <3>3. hour' \in Nat /\ hour <= hour' /\ decided' \in Nat /\ decided <= decided'
        BY <1>1, <1>2, BudgetsAssumption
    <3> QED
        BY <1>8, <3>1, <3>2, <3>3, NothingDecided
  <2> QED
      BY <2>1, AllPayersKept
<1>10. QueueIsNew'
  <2>1. lives'["plugin"] # 1
      BY <1>2, <1>3, BudgetsAssumption
  <2> QED
      BY <1>1, <1>5, <1>6, <2>1 DEF WakesInv, QueueIsNew
<1>11. CountsAreBounded'
  <2>1. decided + (IF batch = NoBatch THEN 0 ELSE 1) <= arrivals + stumbles
      BY DEF WakesInv, CountsAreBounded
  <2>2. decided' + (IF batch' = NoBatch THEN 0 ELSE 1) <= arrivals' + stumbles'
      BY <1>1, <1>2, <2>1, BudgetsAssumption DEF NoBatch
  <2>3. lives'["plugin"] + lives'["daemon"] <= stumbles' + 2
      BY <1>1, <1>2, <1>3, BudgetsAssumption
  <2> QED
      BY <2>2, <2>3 DEF CountsAreBounded
<1> QED
    BY <1>7, <1>9, <1>10, <1>11 DEF WakesInv

LEMMA WakesInvNext == WakesInv /\ [BudgetsNext]_budgetVars => WakesInv'
BY PluginDecides, DaemonDecides, DaemonTellsAgain, QuietSteps, PluginBeginsAnew DEF BudgetsNext

LEMMA WakesAreInOrder == BudgetsSpec => []WakesInv
BY WakesInvInit, WakesInvNext, PTL DEF BudgetsSpec

\* The wakes of a life in a window are among the decisions of then, and a decision is heard once
\* as long as the plugin keeps its ring.
LEMMA WakesInvSuffices == WakesInv => WakesArePaidFor
<1> SUFFICES ASSUME WakesInv PROVE WakesArePaidFor
    OBVIOUS
<1>1. BudgetIsKept
  <2> SUFFICES ASSUME NEW t \in 0..hour, NEW p \in Payers, NEW l \in 1..lives[p]
               PROVE  Cardinality({h.notice.nr : h \in {w \in Wakes :
                          w.by = p /\ w.notice.life = l /\ w.notice.made \in WindowAt(t)}}) <= MaxWakes
      BY DEF BudgetIsKept
  <2> DEFINE paid == {h.notice.nr : h \in {w \in Wakes :
                         w.by = p /\ w.notice.life = l /\ w.notice.made \in WindowAt(t)}}
  <2>1. t \in Nat /\ l \in Nat
      BY DEF WakesInv, BudgetsTypeOK
  <2>2. paid \subseteq Woken(p, l, t)
      BY DEF Wakes, Woken, Decisions
  <2>3. Woken(p, l, t) \subseteq 1..MaxLetters + MaxStumbles /\ Cardinality(Woken(p, l, t)) <= MaxWakes
      BY <2>1, WokenIsBounded DEF WakesInv, WindowsAreKept
  <2> HIDE DEF paid
  <2>4. Cardinality(paid) <= MaxWakes
      BY <2>2, <2>3, FewerWoken
  <2> QED
      BY <2>4 DEF paid
<1>2. WakesAreHeardOnce
    BY DEF WakesInv, QueueIsNew, WakesAreHeardOnce, Wakes
<1> QED
    BY <1>1, <1>2 DEF WakesArePaidFor

\* The budgets, the queue and what was heard keep their types.
THEOREM BudgetsTypes == BudgetsSpec => []BudgetsTypeOK
<1>1. WakesInv => BudgetsTypeOK
    BY DEF WakesInv
<1> QED
    BY <1>1, WakesAreInOrder, PTL

\* deliverBatch, flushPass, replayPending and WakeBudget: whatever sessions come and go, and however
\* late or often a batch goes out, a life of the plugin or of the daemon wakes for no more decisions
\* of a window than its budget has, and for each of them once.
THEOREM WakesArePaid == BudgetsSpec => []WakesArePaidFor
BY WakesInvSuffices, WakesAreInOrder, PTL

-----------------------------------------------------------------------------
(* The frames of the doorbell's connection (WsFrames).                     *)

\* A set of numbers has a least; one that is bounded has a greatest.
LEMMA LeastThere ==
    ASSUME NEW T \in SUBSET Nat, T # {}
    PROVE  \E x \in T : \A y \in T : x <= y
<1> DEFINE Below == OpToRel(<, Nat)
<1>1. PICK x \in T : \A y \in T : ~(<<y, x>> \in Below)
    BY NatLessThanWellFounded, WFMin
<1>2. ASSUME NEW y \in T PROVE x <= y
  <2>1. x \in Nat /\ y \in Nat
      OBVIOUS
  <2>2. y < x => <<y, x>> \in Below
      BY <2>1 DEF OpToRel
  <2> HIDE DEF Below
  <2> QED
      BY <1>1, <2>1, <2>2
<1> QED
    BY <1>2

LEMMA GreatestThere ==
    ASSUME NEW len \in Nat, NEW S \in SUBSET (1..len), S # {}
    PROVE  \E i \in S : \A j \in S : j <= i
<1> DEFINE T == {n \in 0..len : len - n \in S}
<1>1. PICK s \in S : TRUE
    OBVIOUS
<1>2. len - s \in T
    BY <1>1
<1>3. T \in SUBSET Nat /\ T # {}
  <2>1. \A x \in T : x \in Nat
      OBVIOUS
  <2> QED
      BY <1>2, <2>1
<1>4. PICK x \in T : \A y \in T : x <= y
  <2> HIDE DEF T
  <2> QED
      BY <1>3, LeastThere
<1>5. len - x \in S
    BY <1>4
<1>6. ASSUME NEW j \in S PROVE j <= len - x
  <2>1. len - j \in T /\ j \in 1..len
      OBVIOUS
  <2>2. x \in 0..len
      BY <1>4
  <2>3. x <= len - j
      BY <1>4, <2>1
  <2> QED
      BY <2>1, <2>2, <2>3
<1> QED
    BY <1>5, <1>6

\* Handling n frames is handling them one after another.
Runs(after, n, l) ==
  /\ after[0] = Now
  /\ \A k \in 1..n : after[k] = Handle(after[k - 1], script[parsed + k], l)

LEMMA HandledRuns ==
    ASSUME NEW n \in Nat, NEW l
    PROVE  \E after : Runs(after, n, l) /\ Handled(n, l) = after[n]
<1> DEFINE step(g, m) == [k \in 0..m |-> IF k = 0 THEN Now ELSE Handle(g[k - 1], script[parsed + k], l)]
           T == {m \in 0..n : ~\E g : g = step(g, m)}
<1>1. T = {}
  <2> SUFFICES ASSUME T # {} PROVE FALSE
      OBVIOUS
  <2>1. T \in SUBSET Nat
      OBVIOUS
  <2>2. PICK m \in T : \A y \in T : m <= y
    <3> HIDE DEF T
    <3> QED
        BY <2>1, LeastThere
  <2>3. m \in 0..n
      OBVIOUS
  <2>4. CASE m = 0
    <3> DEFINE g == [k \in 0..0 |-> Now]
    <3>1. g = step(g, 0)
        OBVIOUS
    <3> QED
        BY <2>4, <3>1
  <2>5. CASE m # 0
    <3>1. m - 1 \in 0..n /\ m - 1 < m
        BY <2>3, <2>5
    <3>2. m - 1 \notin T
      <4> HIDE DEF T
      <4> QED
          BY <2>2, <2>3, <3>1
    <3>3. PICK g : g = step(g, m - 1)
        BY <3>1, <3>2
    <3> DEFINE h == [k \in 0..m |-> IF k = m THEN Handle(g[m - 1], script[parsed + m], l) ELSE g[k]]
    <3>4. \A k \in 0..m : h[k] = IF k = 0 THEN Now ELSE Handle(h[k - 1], script[parsed + k], l)
      <4> SUFFICES ASSUME NEW k \in 0..m
                   PROVE  h[k] = IF k = 0 THEN Now ELSE Handle(h[k - 1], script[parsed + k], l)
          OBVIOUS
      <4>1. CASE k = m
        <5>1. h[k - 1] = g[m - 1]
            BY <2>3, <2>5, <4>1
        <5> QED
            BY <2>5, <4>1, <5>1
      <4>2. CASE k # m
        <5>1. k \in 0..m - 1 /\ h[k] = g[k] /\ (k # 0 => h[k - 1] = g[k - 1])
            BY <2>3, <2>5, <4>2
        <5>2. g[k] = IF k = 0 THEN Now ELSE Handle(g[k - 1], script[parsed + k], l)
            BY <3>3, <5>1
        <5> QED
            BY <5>1, <5>2
      <4> QED
          BY <4>1, <4>2
    <3>5. h = step(h, m)
        BY <3>4
    <3> QED
        BY <3>5
  <2> QED
      BY <2>4, <2>5
<1>2. \E g : g = step(g, n)
    BY <1>1
<1> DEFINE after == CHOOSE g : g = step(g, n)
<1>3. after = step(after, n)
    BY <1>2
<1>4. Handled(n, l) = after[n]
    BY DEF Handled
<1>5. Runs(after, n, l)
  <2> HIDE DEF after
  <2> QED
      BY <1>3 DEF Runs
<1> QED
    BY <1>4, <1>5

\* Data frames are numbered in the order they are sent: the server begins no message before the one
\* before is whole.
FollowsAll(j) ==
  \A i \in DataFrames : i < j => /\ script[i].msg <= script[j].msg
                                 /\ script[i].fin => script[i].msg < script[j].msg
LastBefore(i, j) == i < j /\ \A k \in DataFrames : k <= i \/ j <= k
FollowsLast(j) ==
  \A i \in DataFrames : LastBefore(i, j) =>
    IF script[j].kind = "cont"
    THEN ~script[i].fin /\ script[j].msg = script[i].msg /\ script[j].nr = script[i].nr + 1
    ELSE script[i].fin /\ script[j].nr = 1
MayBeFirst(j) == (\A i \in DataFrames : j <= i) => script[j].kind # "cont" /\ script[j].nr = 1
ScriptIsInOrder ==
  \A j \in DataFrames : /\ script[j].msg <= j /\ script[j].nr <= j
                        /\ FollowsAll(j) /\ FollowsLast(j) /\ MayBeFirst(j)

\* Of what was handled up to frame p: the fragments are those of the message that is not whole.
FragmentsAre(fs, p) ==
  /\ (\A j \in DataFrames : p < j) => fs = <<>>
  /\ \A j \in DataFrames : LastBefore(j, p + 1) => fs = IF script[j].fin THEN <<>> ELSE FragmentsOf(script[j])

\* The texts are messages that are whole, in their turn.
TextsAre(ts, p) ==
  /\ \A k \in DOMAIN ts : \E j \in DataFrames : j <= p /\ script[j].fin /\ ts[k] = FragmentsOf(script[j])
  /\ \A j, k \in DOMAIN ts : j < k => ts[j][1][1] < ts[k][1][1]
HeardIn(ts) == {ts[k][1][1] : k \in DOMAIN ts}

\* A text that has its last frame between two is heard, or among those excused.
Texts(p, q) == {script[j].msg : j \in {k \in DataFrames : p < k /\ k <= q /\ script[k].fin}} \ Binary

FramesInv ==
  /\ FramesTypeOK /\ ScriptIsInOrder
  /\ ~ended => parsed = arrived \div 2 /\ FragmentsAre(fragments, parsed)
  /\ ~upgraded => arrived = 0 /\ parsed = 0 /\ ~ended
  /\ parsed <= arrived \div 2
  /\ TextsAre(texts, parsed)
  /\ Texts(0, arrived \div 2) \subseteq HeardIn(texts) \union inTail \union spoiled

-----------------------------------------------------------------------------
(* One frame *)

LEMMA FramesFacts ==
    ASSUME FramesTypeOK
    PROVE  /\ Len(script) \in Nat /\ DOMAIN script = 1..Len(script) /\ DataFrames \subseteq 1..Len(script)
           /\ \A j \in 1..Len(script) : /\ script[j] \in Frames /\ script[j].msg \in Nat /\ script[j].nr \in Nat
                                        /\ script[j].nr # 0 /\ script[j].fin \in BOOLEAN /\ script[j].kind \in Kinds
                                        /\ script[j].msg \in 0..MaxFrames
           /\ \A j \in 1..Len(script) : j \in DataFrames <=> script[j].kind \in Data
<1>1. script \in Seq(Frames)
    BY DEF FramesTypeOK
<1>2. Len(script) \in Nat /\ DOMAIN script = 1..Len(script) /\ \A j \in 1..Len(script) : script[j] \in Frames
    BY <1>1
<1>3. \A f \in Frames : /\ f.msg \in Nat /\ f.nr \in Nat /\ f.nr # 0 /\ f.fin \in BOOLEAN /\ f.kind \in Kinds
                        /\ f.msg \in 0..MaxFrames
    BY FramesAssumption DEF Frames
<1>4. DataFrames \subseteq 1..Len(script) /\ \A j \in 1..Len(script) : j \in DataFrames <=> script[j].kind \in Data
    BY <1>2 DEF DataFrames
<1> QED
    BY <1>2, <1>3, <1>4

\* A data frame goes on with what is there of its message.
LEMMA FragmentFits ==
    ASSUME FramesTypeOK, ScriptIsInOrder, NEW p \in Nat, p + 1 \in DataFrames,
           NEW fs \in Seq(Nat \X Nat), FragmentsAre(fs, p)
    PROVE  Append(fs, <<script[p + 1].msg, script[p + 1].nr>>) = FragmentsOf(script[p + 1])
<1> DEFINE f == script[p + 1]
           before == {j \in DataFrames : j <= p}
<1>1. p + 1 \in 1..Len(script) /\ f.nr \in Nat /\ f.nr # 0 /\ f.msg \in Nat
    BY FramesFacts
<1>2. CASE before = {}
  <2>1. \A j \in DataFrames : j \in Int /\ p < j
      BY <1>2, FramesFacts
  <2>2. fs = <<>>
      BY <2>1 DEF FragmentsAre
  <2>3. f.nr = 1
      BY <2>1 DEF ScriptIsInOrder, MayBeFirst
  <2> HIDE DEF f
  <2> QED
      BY <1>1, <2>2, <2>3 DEF FragmentsOf, f
<1>3. CASE before # {}
  <2>1. before \in SUBSET (1..Len(script)) /\ Len(script) \in Nat
      BY FramesFacts
  <2> HIDE DEF before
  <2>2. PICK i \in before : \A j \in before : j <= i
      BY <1>3, <2>1, GreatestThere
  <2>3. i \in DataFrames /\ i \in Nat /\ i <= p /\ LastBefore(i, p + 1)
      BY <2>1, <2>2, FramesFacts DEF before, LastBefore
  <2>4. fs = IF script[i].fin THEN <<>> ELSE FragmentsOf(script[i])
      BY <2>3 DEF FragmentsAre
  <2>5. IF f.kind = "cont" THEN ~script[i].fin /\ f.msg = script[i].msg /\ f.nr = script[i].nr + 1
                           ELSE script[i].fin /\ f.nr = 1
      BY <2>3 DEF ScriptIsInOrder, FollowsLast
  <2>6. script[i].nr \in Nat
      BY <2>1, <2>2, FramesFacts
  <2> HIDE DEF f
  <2>7. CASE f.kind = "cont"
    <3> DEFINE n == script[i].nr
    <3>1. fs = [k \in 1..n |-> <<f.msg, k>>] /\ f.nr = n + 1 /\ n \in Nat
        BY <2>4, <2>5, <2>6, <2>7 DEF FragmentsOf
    <3> HIDE DEF n
    <3>2. Len(fs) = n
        BY <3>1
    <3>3. Append(fs, <<f.msg, f.nr>>) = [k \in 1..n + 1 |-> <<f.msg, k>>]
        BY <1>1, <3>1, <3>2
    <3> QED
        BY <3>1, <3>3 DEF FragmentsOf, f
  <2>8. CASE f.kind # "cont"
    <3>1. fs = <<>> /\ f.nr = 1
        BY <2>4, <2>5, <2>8
    <3> QED
        BY <1>1, <3>1 DEF FragmentsOf, f
  <2> QED
      BY <2>7, <2>8
<1> QED
    BY <1>2, <1>3

LEMMA FragmentsGoOn ==
    ASSUME FramesTypeOK, NEW p \in Nat, NEW fs
    PROVE  /\ p + 1 \notin DataFrames /\ FragmentsAre(fs, p) => FragmentsAre(fs, p + 1)
           /\ p + 1 \in DataFrames => FragmentsAre(IF script[p + 1].fin THEN <<>> ELSE FragmentsOf(script[p + 1]), p + 1)
<1>1. \A j \in DataFrames : j \in Nat
    BY FramesFacts
<1>2. ASSUME p + 1 \notin DataFrames PROVE FragmentsAre(fs, p) => FragmentsAre(fs, p + 1)
  <2>1. \A j \in DataFrames : (p < j <=> p + 1 < j) /\ (p + 1 <= j <=> p + 1 + 1 <= j) /\ (j < p + 1 <=> j < p + 1 + 1)
      BY <1>1, <1>2
  <2>2. \A j \in DataFrames : LastBefore(j, p + 1) <=> LastBefore(j, p + 1 + 1)
      BY <2>1 DEF LastBefore
  <2> QED
      BY <2>1, <2>2 DEF FragmentsAre
<1>3. ASSUME p + 1 \in DataFrames
      PROVE  FragmentsAre(IF script[p + 1].fin THEN <<>> ELSE FragmentsOf(script[p + 1]), p + 1)
  <2>1. \A j \in DataFrames : LastBefore(j, p + 1 + 1) => j = p + 1
      BY <1>1, <1>3 DEF LastBefore
  <2> QED
      BY <1>3, <2>1 DEF FragmentsAre
<1> QED
    BY <1>2, <1>3

\* A message that is whole is not heard before, and those before it are of earlier messages.
LEMMA TextsGoOn ==
    ASSUME FramesTypeOK, ScriptIsInOrder, NEW p \in Nat, NEW ts \in Seq(Seq(Nat \X Nat)), TextsAre(ts, p)
    PROVE  /\ \A q \in Nat : p <= q => TextsAre(ts, q)
           /\ p + 1 \in DataFrames /\ script[p + 1].fin =>
                /\ TextsAre(Append(ts, FragmentsOf(script[p + 1])), p + 1)
                /\ HeardIn(Append(ts, FragmentsOf(script[p + 1]))) = HeardIn(ts) \union {script[p + 1].msg}
<1>1. \A j \in DataFrames : j \in Nat
    BY FramesFacts
<1>2. \A q \in Nat : p <= q => TextsAre(ts, q)
    BY <1>1 DEF TextsAre
<1>3. ASSUME p + 1 \in DataFrames, script[p + 1].fin
      PROVE  /\ TextsAre(Append(ts, FragmentsOf(script[p + 1])), p + 1)
             /\ HeardIn(Append(ts, FragmentsOf(script[p + 1]))) = HeardIn(ts) \union {script[p + 1].msg}
  <2> DEFINE f == script[p + 1]
             more == Append(ts, FragmentsOf(f))
             n == Len(ts)
  <2>1. f.nr \in Nat /\ f.nr # 0 /\ f.msg \in Nat
      BY <1>3, FramesFacts
  <2>2. FragmentsOf(f)[1][1] = f.msg
      BY <2>1 DEF FragmentsOf
  <2>3. n \in Nat /\ DOMAIN ts = 1..n
      OBVIOUS
  <2> HIDE DEF f
  <2>4. DOMAIN more = 1..n + 1 /\ more[n + 1] = FragmentsOf(f) /\ \A k \in 1..n : more[k] = ts[k]
      BY <2>3
  <2>5. ASSUME NEW k \in 1..n
        PROVE  ts[k][1][1] < f.msg
    <3>1. PICK j \in DataFrames : j <= p /\ script[j].fin /\ ts[k] = FragmentsOf(script[j])
        BY <2>3 DEF TextsAre
    <3>2. script[j].nr \in Nat /\ script[j].nr # 0
        BY FramesFacts
    <3>3. ts[k][1][1] = script[j].msg
        BY <3>1, <3>2 DEF FragmentsOf
    <3>4. script[j].msg < f.msg
        BY <1>1, <1>3, <3>1 DEF ScriptIsInOrder, FollowsAll, f
    <3> QED
        BY <3>3, <3>4
  <2> HIDE DEF more
  <2>6. \A k \in DOMAIN more : \E j \in DataFrames : j <= p + 1 /\ script[j].fin /\ more[k] = FragmentsOf(script[j])
    <3> SUFFICES ASSUME NEW k \in DOMAIN more
                 PROVE  \E j \in DataFrames : j <= p + 1 /\ script[j].fin /\ more[k] = FragmentsOf(script[j])
        OBVIOUS
    <3>1. CASE k = n + 1
        BY <1>3, <2>4, <3>1 DEF f
    <3>2. CASE k \in 1..n
        BY <1>1, <2>3, <2>4, <3>2 DEF TextsAre
    <3> QED
        BY <2>3, <2>4, <3>1, <3>2
  <2>7. \A j, k \in DOMAIN more : j < k => more[j][1][1] < more[k][1][1]
    <3> SUFFICES ASSUME NEW j \in DOMAIN more, NEW k \in DOMAIN more, j < k
                 PROVE  more[j][1][1] < more[k][1][1]
        OBVIOUS
    <3>1. j \in 1..n /\ k \in 1..n + 1 /\ more[j] = ts[j]
        BY <2>3, <2>4
    <3>2. CASE k = n + 1
      <4>1. more[k][1][1] = f.msg
          BY <2>2, <2>4, <3>2
      <4> QED
          BY <2>5, <3>1, <4>1
    <3>3. CASE k \in 1..n
      <4>1. more[k] = ts[k] /\ ts[j][1][1] < ts[k][1][1]
          BY <2>3, <2>4, <3>1, <3>3 DEF TextsAre
      <4> QED
          BY <3>1, <4>1
    <3>4. k = n + 1 \/ k \in 1..n
      <4>1. \A a \in Nat : \A b \in 1..a + 1 : b = a + 1 \/ b \in 1..a
          OBVIOUS
      <4>2. n \in Nat
          BY <2>3
      <4>3. k \in 1..n + 1
          BY <3>1
      <4> HIDE DEF n
      <4> QED
          BY <4>1, <4>2, <4>3
    <3> QED
        BY <3>2, <3>3, <3>4
  <2>8. HeardIn(more) = HeardIn(ts) \union {f.msg}
    <3>1. HeardIn(more) \subseteq HeardIn(ts) \union {f.msg}
      <4> SUFFICES ASSUME NEW k \in 1..n + 1 PROVE more[k][1][1] \in HeardIn(ts) \union {f.msg}
          BY <2>4 DEF HeardIn
      <4>1. CASE k = n + 1
          BY <2>2, <2>4, <4>1
      <4>2. CASE k \in 1..n
          BY <2>3, <2>4, <4>2 DEF HeardIn
      <4> QED
          BY <2>3, <4>1, <4>2
    <3>2. HeardIn(ts) \subseteq HeardIn(more)
      <4> SUFFICES ASSUME NEW k \in 1..n PROVE ts[k][1][1] \in HeardIn(more)
          BY <2>3 DEF HeardIn
      <4>1. k \in DOMAIN more /\ more[k] = ts[k]
          BY <2>3, <2>4
      <4> QED
          BY <4>1 DEF HeardIn
    <3>3. f.msg \in HeardIn(more)
      <4>1. n + 1 \in DOMAIN more
          BY <2>3, <2>4
      <4> QED
          BY <2>2, <2>4, <4>1 DEF HeardIn
    <3> QED
        BY <3>1, <3>2, <3>3
  <2> QED
      BY <2>6, <2>7, <2>8 DEF TextsAre, f, more
<1> QED
    BY <1>2, <1>3

\* What handling may make of what there was, after frame p.
Handling == [fragments : Seq(Nat \X Nat), texts : Seq(Seq(Nat \X Nat)), ended : BOOLEAN, thrown : BOOLEAN,
             lost : SUBSET (0..MaxFrames)]
HandledTo(s, p, l) ==
  /\ s \in Handling /\ Len(s.fragments) <= Ceiling
  /\ s.thrown => s.ended
  /\ ~s.thrown => FragmentsAre(s.fragments, p)
  /\ TextsAre(s.texts, p)
  /\ HeardIn(texts) \subseteq HeardIn(s.texts)
  /\ IF l THEN Texts(parsed, p) \subseteq HeardIn(s.texts) \union s.lost ELSE s.texts = texts

\* Only the frame that is handled can end another text.
LEMMA OneMoreText ==
    ASSUME FramesTypeOK, NEW p \in Nat, NEW q \in Nat
    PROVE  /\ Texts(q, p + 1) \subseteq Texts(q, p) \union {script[p + 1].msg}
           /\ p + 1 \notin DataFrames \/ ~script[p + 1].fin \/ script[p + 1].msg \in Binary =>
                Texts(q, p + 1) \subseteq Texts(q, p)
<1>1. \A j \in DataFrames : j \in Nat /\ (j <= p + 1 <=> j <= p \/ j = p + 1)
    BY FramesFacts
<1> QED
    BY <1>1 DEF Texts

LEMMA OneFrame ==
    ASSUME FramesTypeOK, ScriptIsInOrder, NEW p \in Nat, parsed <= p, p < Len(script),
           script[p + 1].kind # "huge", NEW s, NEW l \in BOOLEAN, HandledTo(s, p, l)
    PROVE  HandledTo(Handle(s, script[p + 1], l), p + 1, l)
<1> DEFINE f == script[p + 1]
<1>1. /\ p + 1 \in 1..Len(script) /\ f \in Frames /\ f.msg \in Nat /\ f.nr \in Nat /\ f.fin \in BOOLEAN
      /\ f.kind \in Kinds /\ f.msg \in 0..MaxFrames /\ (p + 1 \in DataFrames <=> f.kind \in Data)
    BY FramesFacts
<1>2. /\ s \in Handling /\ s.fragments \in Seq(Nat \X Nat) /\ s.texts \in Seq(Seq(Nat \X Nat)) /\ s.ended \in BOOLEAN
      /\ s.thrown \in BOOLEAN /\ s.lost \subseteq 0..MaxFrames /\ Len(s.fragments) <= Ceiling
      /\ (s.thrown => s.ended) /\ (~s.thrown => FragmentsAre(s.fragments, p)) /\ TextsAre(s.texts, p)
      /\ HeardIn(texts) \subseteq HeardIn(s.texts)
      /\ (l => Texts(parsed, p) \subseteq HeardIn(s.texts) \union s.lost) /\ (~l => s.texts = texts)
    BY DEF HandledTo, Handling
<1>3. parsed \in Nat /\ TextsAre(s.texts, p + 1)
    BY <1>2, TextsGoOn DEF FramesTypeOK
<1>4. /\ Texts(parsed, p + 1) \subseteq Texts(parsed, p) \union {f.msg}
      /\ p + 1 \notin DataFrames \/ ~f.fin \/ f.msg \in Binary => Texts(parsed, p + 1) \subseteq Texts(parsed, p)
    BY <1>3, OneMoreText
<1>5. f.kind = "binary" => f.msg \in Binary
    BY <1>1 DEF Binary, Data
<1>6. p + 1 \notin DataFrames /\ ~s.thrown => FragmentsAre(s.fragments, p + 1)
    BY <1>2, FragmentsGoOn
<1>7. p + 1 \in DataFrames /\ ~s.thrown =>
        /\ Append(s.fragments, <<f.msg, f.nr>>) = FragmentsOf(f)
        /\ FragmentsAre(IF f.fin THEN <<>> ELSE FragmentsOf(f), p + 1)
    BY <1>2, FragmentFits, FragmentsGoOn
<1>8. p + 1 \in DataFrames /\ f.fin =>
        /\ TextsAre(Append(s.texts, FragmentsOf(f)), p + 1)
        /\ HeardIn(Append(s.texts, FragmentsOf(f))) = HeardIn(s.texts) \union {f.msg}
    BY <1>2, TextsGoOn
<1> HIDE DEF f
<1>9. CASE s.thrown \/ f.kind = "odd" \/ (f.kind \in Data /\ Len(s.fragments) = Ceiling)
  <2> DEFINE t == [s EXCEPT !.thrown = TRUE, !.ended = TRUE, !.lost = @ \union {f.msg}]
  <2>1. Handle(s, f, l) = t
      BY <1>9 DEF Handle
  <2>2. /\ t \in Handling /\ t.thrown /\ t.ended /\ t.lost = s.lost \union {f.msg} /\ t.fragments = s.fragments
        /\ t.texts = s.texts
      BY <1>1, <1>2 DEF Handling
  <2> HIDE DEF t
  <2>3. HandledTo(t, p + 1, l)
      BY <1>2, <1>3, <1>4, <2>2 DEF HandledTo
  <2> QED
      BY <2>1, <2>3 DEF f
<1>10. CASE ~s.thrown /\ f.kind = "ping"
  <2>1. Handle(s, f, l) = s /\ p + 1 \notin DataFrames
      BY <1>1, <1>10 DEF Handle, Data
  <2>2. HandledTo(s, p + 1, l)
      BY <1>2, <1>3, <1>4, <1>6, <1>10, <2>1 DEF HandledTo
  <2> QED
      BY <2>1, <2>2 DEF f
<1>11. CASE ~s.thrown /\ f.kind = "close"
  <2> DEFINE t == [s EXCEPT !.ended = TRUE]
  <2>1. Handle(s, f, l) = t /\ p + 1 \notin DataFrames
      BY <1>1, <1>11 DEF Handle, Data
  <2>2. /\ t \in Handling /\ t.thrown = s.thrown /\ t.ended /\ t.lost = s.lost /\ t.fragments = s.fragments
        /\ t.texts = s.texts
      BY <1>2 DEF Handling
  <2> HIDE DEF t
  <2>3. HandledTo(t, p + 1, l)
      BY <1>2, <1>3, <1>4, <1>6, <1>11, <2>1, <2>2 DEF HandledTo
  <2> QED
      BY <2>1, <2>3 DEF f
<1>12. CASE ~s.thrown /\ f.kind \in Data /\ Len(s.fragments) # Ceiling
  <2> DEFINE t == [s EXCEPT !.fragments = Append(@, <<f.msg, f.nr>>)]
  <2>1. p + 1 \in DataFrames /\ f.kind \notin {"odd", "ping", "close"}
      BY <1>1, <1>12 DEF Data
  <2>2. Handle(s, f, l) = IF f.fin THEN Whole(t, f, l) ELSE t
      BY <1>12, <2>1 DEF Handle
  <2>3. Append(s.fragments, <<f.msg, f.nr>>) = FragmentsOf(f)
      BY <1>7, <1>12, <2>1
  <2>4. FragmentsOf(f) \in Seq(Nat \X Nat) /\ Len(FragmentsOf(f)) <= Ceiling
    <3>1. <<f.msg, f.nr>> \in Nat \X Nat
        BY <1>1
    <3>2. Append(s.fragments, <<f.msg, f.nr>>) \in Seq(Nat \X Nat)
        BY <1>2, <3>1
    <3>3. Len(Append(s.fragments, <<f.msg, f.nr>>)) = Len(s.fragments) + 1 /\ Len(s.fragments) \in Nat
        BY <1>2
    <3>4. Len(s.fragments) + 1 <= Ceiling
        BY <1>2, <1>12, <3>3, FramesAssumption
    <3> QED
        BY <2>3, <3>2, <3>3, <3>4
  <2>5. /\ t \in Handling /\ t.fragments = FragmentsOf(f) /\ t.texts = s.texts /\ t.ended = s.ended
        /\ t.thrown = s.thrown /\ t.lost = s.lost
      BY <1>2, <2>3, <2>4 DEF Handling
  <2> HIDE DEF t
  <2>6. CASE ~f.fin
    <3>1. HandledTo(t, p + 1, l)
        BY <1>2, <1>3, <1>4, <1>7, <1>12, <2>1, <2>4, <2>5, <2>6 DEF HandledTo
    <3> QED
        BY <2>2, <2>6, <3>1 DEF f
  <2>7. CASE f.fin
    <3> DEFINE goesOn == f.kind # "binary" /\ l
               more == IF goesOn THEN Append(s.texts, FragmentsOf(f)) ELSE s.texts
               u == [t EXCEPT !.fragments = <<>>, !.texts = more]
    <3>1. Whole(t, f, l) = u
        BY <2>5 DEF Whole
    <3>2. more \in Seq(Seq(Nat \X Nat))
        BY <1>2, <2>4
    <3>3. TextsAre(more, p + 1) /\ HeardIn(s.texts) \subseteq HeardIn(more)
          /\ (goesOn => f.msg \in HeardIn(more)) /\ (~goesOn => more = s.texts)
        BY <1>3, <1>8, <2>1, <2>7
    <3> HIDE DEF more
    <3>4. /\ u \in Handling /\ u.fragments = <<>> /\ u.texts = more /\ u.ended = s.ended /\ u.thrown = s.thrown
          /\ u.lost = s.lost
      <4>1. t \in Handling /\ <<>> \in Seq(Nat \X Nat)
          BY <2>5
      <4>2. u \in Handling
          BY <3>2, <4>1 DEF Handling
      <4>3. /\ u.fragments = <<>> /\ u.texts = more /\ u.ended = t.ended /\ u.thrown = t.thrown
            /\ u.lost = t.lost
          BY <4>1 DEF Handling
      <4> QED
          BY <2>5, <4>2, <4>3
    <3> HIDE DEF u
    <3>5. FragmentsAre(<<>>, p + 1)
        BY <1>7, <1>12, <2>1, <2>7
    <3>6. Len(<<>>) <= Ceiling
        BY FramesAssumption
    <3>7. l => Texts(parsed, p + 1) \subseteq HeardIn(more) \union s.lost
        BY <1>2, <1>4, <1>5, <3>3
    <3>8. HandledTo(u, p + 1, l)
        BY <1>2, <1>12, <3>3, <3>4, <3>5, <3>6, <3>7 DEF HandledTo
    <3> QED
        BY <2>2, <2>7, <3>1, <3>8 DEF f
  <2> QED
      BY <1>1, <2>6, <2>7
<1>13. f.kind \in {"odd", "ping", "close"} \union Data
    BY <1>1 DEF Kinds, f
<1> QED
    BY <1>1, <1>9, <1>10, <1>11, <1>12, <1>13

\* Any number of frames.
LEMMA ManyFrames ==
    ASSUME FramesInv, ~ended, NEW n \in Nat, parsed + n <= Len(script),
           \A k \in parsed + 1..parsed + n : script[k].kind # "huge", NEW l \in BOOLEAN
    PROVE  HandledTo(Handled(n, l), parsed + n, l)
<1>1. PICK after : Runs(after, n, l) /\ Handled(n, l) = after[n]
    BY HandledRuns
<1>2. parsed \in Nat /\ Len(script) \in Nat /\ FramesTypeOK /\ ScriptIsInOrder
    BY FramesFacts DEF FramesInv, FramesTypeOK
<1>3. HandledTo(after[0], parsed, l)
  <2>1. after[0] = Now
      BY <1>1 DEF Runs
  <2>2. /\ Now \in Handling /\ Now.fragments = fragments /\ Now.texts = texts /\ ~Now.thrown
      BY <1>2 DEF Now, Handling, FramesTypeOK
  <2>3. Texts(parsed, parsed) = {}
    <3>1. \A k \in DataFrames : k \in Nat
        BY <1>2, FramesFacts
    <3> QED
        BY <1>2, <3>1 DEF Texts
  <2> QED
      BY <2>1, <2>2, <2>3 DEF HandledTo, FramesInv, FramesTypeOK
<1> DEFINE T == {k \in 0..n : ~HandledTo(after[k], parsed + k, l)}
<1>4. T = {}
  <2> SUFFICES ASSUME T # {} PROVE FALSE
      OBVIOUS
  <2>1. T \in SUBSET Nat
    <3>1. \A k \in T : k \in Nat
        OBVIOUS
    <3> QED
        BY <3>1
  <2>2. PICK m \in T : \A y \in T : m <= y
    <3> HIDE DEF T
    <3> QED
        BY <2>1, LeastThere
  <2>3. m \in 0..n /\ ~HandledTo(after[m], parsed + m, l)
      OBVIOUS
  <2>4. m # 0
      BY <1>2, <1>3, <2>3
  <2>5. m - 1 \in 0..n /\ m \in 1..n
      BY <2>3, <2>4
  <2>6. m - 1 \notin T
    <3> HIDE DEF T
    <3> QED
        BY <2>2, <2>5
  <2>7. HandledTo(after[m - 1], parsed + (m - 1), l)
      BY <2>5, <2>6
  <2> DEFINE p == parsed + (m - 1)
  <2>8. p \in Nat /\ parsed <= p /\ p < Len(script) /\ p + 1 = parsed + m /\ p + 1 \in parsed + 1..parsed + n
      BY <1>2, <2>5
  <2>9. after[m] = Handle(after[m - 1], script[parsed + m], l)
      BY <1>1, <2>5 DEF Runs
  <2> HIDE DEF p
  <2>10. script[p + 1].kind # "huge"
      BY <2>8
  <2>11. HandledTo(Handle(after[m - 1], script[p + 1], l), p + 1, l)
      BY <1>2, <2>7, <2>8, <2>10, OneFrame DEF p
  <2> QED
      BY <2>3, <2>8, <2>9, <2>11
<1>5. HandledTo(after[n], parsed + n, l)
  <2>1. n \in 0..n /\ n \notin T
      BY <1>4
  <2> QED
      BY <2>1
<1> QED
    BY <1>1, <1>5

-----------------------------------------------------------------------------
(* Every step *)

LEMMA FramesInvInit == FramesInit => FramesInv
<1> SUFFICES ASSUME FramesInit PROVE FramesInv
    OBVIOUS
<1>1. /\ script = <<>> /\ arrived = 0 /\ parsed = 0 /\ upgraded = FALSE /\ ended = FALSE
      /\ fragments = <<>> /\ texts = <<>> /\ inTail = {} /\ spoiled = {}
    BY DEF FramesInit
<1>2. DataFrames = {} /\ Len(script) = 0
    BY <1>1 DEF DataFrames
<1>3. FramesTypeOK
  <2>1. /\ script \in Seq(Frames) /\ fragments \in Seq(Nat \X Nat) /\ texts \in Seq(Seq(Nat \X Nat))
        /\ Len(fragments) = 0
      BY <1>1
  <2>2. arrived \in 0..2 * Len(script) /\ parsed \in 0..Len(script) /\ Len(script) <= MaxFrames /\ Len(fragments) <= Ceiling
      BY <1>1, <1>2, <2>1, FramesAssumption
  <2> QED
      BY <1>1, <2>1, <2>2 DEF FramesTypeOK
<1>4. ScriptIsInOrder
    BY <1>2 DEF ScriptIsInOrder
<1>5. FragmentsAre(fragments, parsed) /\ TextsAre(texts, parsed) /\ Texts(0, arrived \div 2) = {}
    BY <1>1, <1>2 DEF FragmentsAre, TextsAre, Texts
<1>6. arrived \div 2 = 0
    BY <1>1
<1> QED
    BY <1>1, <1>3, <1>4, <1>5, <1>6 DEF FramesInv

\* A chunk comes, with the handshake or after it.
LEMMA ChunkKeeps ==
    ASSUME FramesInv, ~ended, NEW l \in BOOLEAN, NEW n \in 0..2 * MaxFrames, Receives(n, l),
           script' = script, upgraded' = TRUE
    PROVE  FramesInv'
<1> DEFINE upTo == arrived + n
           last == upTo \div 2
           m == Cardinality(Parsed(upTo))
           s == Handled(m, l)
           lastWords == {script[k].msg : k \in {j \in Parsed(upTo) : script[j].fin}}
<1>1. /\ FramesTypeOK /\ ScriptIsInOrder /\ parsed = arrived \div 2 /\ arrived \in Nat /\ parsed \in Nat
      /\ Len(script) \in Nat /\ FragmentsAre(fragments, parsed) /\ TextsAre(texts, parsed)
      /\ Texts(0, parsed) \subseteq HeardIn(texts) \union inTail \union spoiled
    BY FramesFacts DEF FramesInv, FramesTypeOK
<1>2. /\ upTo <= 2 * Len(script) /\ arrived' = upTo
      /\ IF Unparsable(upTo)
         THEN ended' = TRUE /\ spoiled' = spoiled \union lastWords /\ UNCHANGED <<parsed, fragments, texts>>
         ELSE /\ parsed' = last /\ fragments' = s.fragments /\ texts' = s.texts /\ ended' = s.ended
              /\ spoiled' = spoiled \union s.lost
      /\ inTail' = IF l THEN inTail ELSE inTail \union lastWords
    BY DEF Receives
<1>3. /\ upTo \in 0..2 * Len(script) /\ last \in Nat /\ parsed <= last /\ last <= Len(script)
      /\ last <= (upTo + 1) \div 2
  <2>1. n \in Nat /\ upTo \in Nat /\ arrived <= upTo
      BY <1>1, FramesAssumption
  <2> HIDE DEF upTo
  <2> QED
      BY <1>1, <1>2, <2>1
<1>4. Parsed(upTo) = parsed + 1..last /\ m = last - parsed
  <2>1. Parsed(upTo) = parsed + 1..last
      BY DEF Parsed
  <2> HIDE DEF last, upTo
  <2>2. Cardinality(parsed + 1..last) = IF parsed + 1 > last THEN 0 ELSE last - (parsed + 1) + 1
      BY <1>1, <1>3, FS_Interval
  <2> QED
      BY <1>1, <1>3, <2>1, <2>2
<1>5. lastWords \subseteq 0..MaxFrames
  <2>1. Parsed(upTo) \subseteq 1..Len(script)
      BY <1>1, <1>3, <1>4
  <2>2. \A j \in 1..Len(script) : script[j].msg \in 0..MaxFrames
      BY <1>1, FramesFacts
  <2> HIDE DEF upTo
  <2> QED
      BY <2>1, <2>2
<1>6. Texts(0, last) \subseteq Texts(0, parsed) \union Texts(parsed, last)
  <2>1. \A j \in DataFrames : j \in Nat
      BY <1>1, FramesFacts
  <2>2. \A j \in DataFrames : 0 < j /\ j <= last => (0 < j /\ j <= parsed) \/ (parsed < j /\ j <= last)
      BY <1>1, <1>3, <2>1
  <2> HIDE DEF last
  <2> QED
      BY <2>2 DEF Texts
<1>7. Texts(parsed, last) \subseteq lastWords
  <2>1. \A j \in DataFrames : j \in Nat
      BY <1>1, FramesFacts
  <2> QED
      BY <1>1, <1>3, <1>4, <2>1 DEF Texts
<1>8. DataFrames' = DataFrames /\ Binary' = Binary
    BY DEF DataFrames, Binary
<1>9. ScriptIsInOrder'
    BY <1>1, <1>8 DEF ScriptIsInOrder, FollowsAll, FollowsLast, MayBeFirst, LastBefore
<1>10. CASE Unparsable(upTo)
  <2>1. /\ arrived' = upTo /\ ended' = TRUE /\ parsed' = parsed /\ fragments' = fragments /\ texts' = texts
        /\ spoiled' = spoiled \union lastWords /\ inTail \subseteq inTail' /\ inTail' \subseteq inTail \union lastWords
      BY <1>2, <1>10
  <2> HIDE DEF upTo, last, m, s, lastWords
  <2>2. FramesTypeOK'
      BY <1>1, <1>3, <1>5, <2>1 DEF FramesTypeOK
  <2>3. TextsAre(texts, parsed)'
      BY <1>1, <1>8, <2>1 DEF TextsAre, FragmentsOf
  <2>4. (arrived \div 2)' = last
      BY <2>1 DEF last
  <2>5. Texts(0, arrived \div 2)' = Texts(0, last)
      BY <1>8, <2>4 DEF Texts
  <2>6. Texts(0, last) \subseteq HeardIn(texts) \union inTail' \union spoiled'
      BY <1>1, <1>6, <1>7, <2>1
  <2>7. HeardIn(texts)' = HeardIn(texts)
      BY <2>1 DEF HeardIn
  <2> QED
      BY <1>3, <1>9, <2>1, <2>2, <2>3, <2>4, <2>5, <2>6, <2>7 DEF FramesInv
<1>11. CASE ~Unparsable(upTo)
  <2>1. /\ arrived' = upTo /\ parsed' = last /\ fragments' = s.fragments /\ texts' = s.texts /\ ended' = s.ended
        /\ spoiled' = spoiled \union s.lost /\ inTail' = IF l THEN inTail ELSE inTail \union lastWords
      BY <1>2, <1>11
  <2>2. \A k \in parsed + 1..last : script[k].kind # "huge"
    <3>1. \A k \in parsed + 1..(upTo + 1) \div 2 : script[k].kind # "huge"
        BY <1>11 DEF Unparsable
    <3> DEFINE next == (upTo + 1) \div 2
    <3>2. next \in Nat /\ last <= next
        BY <1>3
    <3> HIDE DEF upTo, last, next
    <3>3. \A k \in parsed + 1..last : k \in parsed + 1..next
        BY <1>1, <1>3, <3>2
    <3> QED
        BY <3>1, <3>3 DEF next
  <2>3. m \in Nat /\ parsed + m = last
      BY <1>1, <1>3, <1>4
  <2>4. HandledTo(s, last, l)
    <3> HIDE DEF last, m
    <3> QED
        BY <1>3, <2>2, <2>3, ManyFrames
  <2> HIDE DEF upTo, last, m, s, lastWords
  <2>5. /\ s \in Handling /\ s.fragments \in Seq(Nat \X Nat) /\ s.texts \in Seq(Seq(Nat \X Nat))
        /\ s.ended \in BOOLEAN /\ s.lost \subseteq 0..MaxFrames /\ Len(s.fragments) <= Ceiling
        /\ (~s.ended => FragmentsAre(s.fragments, last)) /\ TextsAre(s.texts, last)
        /\ HeardIn(texts) \subseteq HeardIn(s.texts)
        /\ (l => Texts(parsed, last) \subseteq HeardIn(s.texts) \union s.lost)
      BY <2>4 DEF HandledTo, Handling
  <2>6. FramesTypeOK'
    <3>1. arrived' \in 0..2 * Len(script) /\ parsed' \in 0..Len(script)
        BY <1>1, <1>3, <2>1
    <3>2. inTail' \union spoiled' \subseteq 0..MaxFrames
        BY <1>1, <1>5, <2>1, <2>5 DEF FramesTypeOK
    <3>3. fragments' \in Seq(Nat \X Nat) /\ Len(fragments') <= Ceiling /\ texts' \in Seq(Seq(Nat \X Nat))
          /\ ended' \in BOOLEAN
        BY <2>1, <2>5
    <3> QED
        BY <1>1, <3>1, <3>2, <3>3 DEF FramesTypeOK
  <2>7. TextsAre(texts, parsed)' /\ (~ended' => FragmentsAre(fragments, parsed)')
    <3>1. TextsAre(texts, parsed)'
      <4> DEFINE ts == s.texts
      <4>1. TextsAre(ts, last) /\ texts' = ts /\ parsed' = last /\ script' = script /\ DataFrames' = DataFrames
          BY <1>8, <2>1, <2>5
      <4> HIDE DEF ts
      <4> QED
          BY <4>1 DEF TextsAre, FragmentsOf
    <3>2. ASSUME ~ended' PROVE FragmentsAre(fragments, parsed)'
      <4>1. FragmentsAre(s.fragments, last)
          BY <2>1, <2>5, <3>2
      <4> QED
          BY <1>8, <2>1, <4>1 DEF FragmentsOf, FragmentsAre, LastBefore
    <3> QED
        BY <3>1, <3>2
  <2>8. (arrived \div 2)' = last
      BY <2>1 DEF last
  <2>9. Texts(0, arrived \div 2)' = Texts(0, last)
      BY <1>8, <2>8 DEF Texts
  <2>10. HeardIn(texts)' = HeardIn(s.texts)
      BY <2>1 DEF HeardIn
  <2>11. Texts(0, last) \subseteq HeardIn(texts)' \union inTail' \union spoiled'
    <3>1. CASE l
        BY <1>1, <1>6, <2>1, <2>5, <2>10, <3>1
    <3>2. CASE ~l
        BY <1>1, <1>6, <1>7, <2>1, <2>5, <2>10, <3>2
    <3> QED
        BY <3>1, <3>2
  <2> QED
      BY <1>3, <1>9, <2>1, <2>6, <2>7, <2>8, <2>9, <2>11 DEF FramesInv
<1> QED
    BY <1>10, <1>11

\* The last data frame the server sent.
LEMMA LastIs ==
    ASSUME FramesTypeOK
    PROVE  \/ DataFrames = {} /\ LastData.fin /\ LastData.msg = 0 /\ LastData.nr = 1
           \/ \E i \in DataFrames : (\A j \in DataFrames : j <= i) /\ LastData = script[i]
<1>1. CASE DataFrames = {}
    BY <1>1 DEF LastData
<1>2. CASE DataFrames # {}
  <2>1. DataFrames \in SUBSET (1..Len(script)) /\ Len(script) \in Nat
      BY FramesFacts
  <2>2. PICK i \in DataFrames : \A j \in DataFrames : j <= i
      BY <1>2, <2>1, GreatestThere
  <2>3. \A x, y \in DataFrames : (x <= y <=> y >= x) /\ x \in Nat
      BY <2>1
  <2>4. \E x \in DataFrames : \A y \in DataFrames : x >= y
      BY <2>2, <2>3
  <2>5. Max(DataFrames) \in DataFrames /\ \A y \in DataFrames : Max(DataFrames) >= y
      BY <2>4 DEF Max
  <2>6. LastData = script[Max(DataFrames)]
      BY <1>2 DEF LastData
  <2> QED
      BY <2>3, <2>5, <2>6
<1> QED
    BY <1>1, <1>2

LEMMA SendsKeeps ==
    ASSUME FramesInv, Sends
    PROVE  FramesInv'
<1> DEFINE len == Len(script)
           last == LastData
<1>1. PICK kind \in Kinds, fin \in BOOLEAN :
        /\ kind \in Data => (kind = "cont" <=> ~last.fin)
        /\ kind \notin Data => fin
        /\ script' = Append(script, [kind |-> kind, fin |-> fin,
                                     msg |-> IF kind \notin Data THEN 0
                                             ELSE last.msg + IF kind = "cont" THEN 0 ELSE 1,
                                     nr |-> IF kind = "cont" THEN last.nr + 1 ELSE 1])
    BY DEF Sends
<1> DEFINE msg == IF kind \notin Data THEN 0 ELSE last.msg + IF kind = "cont" THEN 0 ELSE 1
           nr == IF kind = "cont" THEN last.nr + 1 ELSE 1
           f == [kind |-> kind, fin |-> fin, msg |-> msg, nr |-> nr]
<1>2. /\ len < MaxFrames /\ UNCHANGED <<arrived, parsed, upgraded, ended, fragments, texts, inTail, spoiled>>
    BY DEF Sends
<1>3. /\ FramesTypeOK /\ ScriptIsInOrder /\ arrived \in Nat /\ parsed \in Nat /\ len \in Nat
      /\ arrived <= 2 * len /\ parsed <= len /\ parsed <= arrived \div 2 /\ script \in Seq(Frames)
      /\ DataFrames \subseteq 1..len
    BY FramesFacts DEF FramesInv, FramesTypeOK
<1>4. \A j \in DataFrames : /\ j \in 1..len /\ script[j].msg \in Nat /\ script[j].nr \in Nat /\ script[j].nr # 0
                            /\ script[j].msg <= j /\ script[j].nr <= j
    BY <1>3, FramesFacts DEF ScriptIsInOrder
<1>5. last.msg \in Nat /\ last.nr \in Nat /\ last.nr # 0 /\ last.msg <= len /\ (kind = "cont" => last.nr <= len)
  <2>1. CASE DataFrames = {} /\ last.fin /\ last.msg = 0 /\ last.nr = 1
    <3>1. "cont" \in Data
        BY DEF Data
    <3> QED
        BY <1>1, <1>3, <2>1, <3>1
  <2>2. CASE \E i \in DataFrames : (\A j \in DataFrames : j <= i) /\ last = script[i]
      BY <1>3, <1>4, <2>2
  <2> QED
      BY <1>3, <2>1, <2>2, LastIs
<1> HIDE DEF last
<1>6. msg \in Nat /\ nr \in Nat /\ nr # 0 /\ msg <= len + 1 /\ nr <= len + 1
    BY <1>3, <1>5
<1>7. f \in Frames /\ f.kind = kind /\ f.fin = fin /\ f.msg = msg /\ f.nr = nr
  <2>1. msg \in 0..MaxFrames /\ nr \in 1..MaxFrames
    <3> HIDE DEF msg, nr
    <3> QED
        BY <1>2, <1>3, <1>6, FramesAssumption
  <2> HIDE DEF msg, nr
  <2> QED
      BY <2>1 DEF Frames
<1>8. script' = Append(script, f)
    BY <1>1
<1>9. kind \in Data => /\ kind = "cont" => ~last.fin /\ msg = last.msg /\ nr = last.nr + 1
                       /\ kind # "cont" => last.fin /\ msg = last.msg + 1 /\ nr = 1
    BY <1>1, <1>5
<1> HIDE DEF f, msg, nr
<1>10. /\ script' \in Seq(Frames) /\ Len(script') = len + 1 /\ DOMAIN script' = 1..len + 1
       /\ script'[len + 1] = f /\ \A j \in 1..len : script'[j] = script[j]
    BY <1>3, <1>7, <1>8
<1> HIDE DEF len
<1>11. FramesTypeOK'
  <2>1. arrived' \in 0..2 * Len(script') /\ parsed' \in 0..Len(script') /\ Len(script') <= MaxFrames
      BY <1>2, <1>3, <1>10, FramesAssumption
  <2> QED
      BY <1>2, <1>3, <1>10, <2>1 DEF FramesTypeOK
<1>12. /\ DataFrames' = IF kind \in Data THEN DataFrames \union {len + 1} ELSE DataFrames
       /\ \A j \in DataFrames : script'[j] = script[j] /\ j \in Nat /\ j < len + 1
  <2>1. DataFrames' = {j \in 1..len + 1 : script'[j].kind \in Data}
      BY <1>10 DEF DataFrames
  <2>2. DataFrames = {j \in 1..len : script[j].kind \in Data}
      BY <1>3 DEF DataFrames, len
  <2>3. \A j \in 1..len + 1 : j = len + 1 \/ j \in 1..len
      BY <1>3
  <2>4. len + 1 \in 1..len + 1 /\ \A j \in 1..len : j \in 1..len + 1
      BY <1>3
  <2>5. \A j \in 1..len : script'[j] = script[j] /\ j \in Nat /\ j < len + 1
      BY <1>3, <1>10
  <2>6. script'[len + 1].kind = kind
      BY <1>7, <1>10
  <2> QED
      BY <2>1, <2>2, <2>3, <2>4, <2>5, <2>6
<1>at. PICK at \in Nat : at = len + 1
    BY <1>3
<1>13. \A j \in DataFrames : j \in DataFrames' /\ script'[j] = script[j] /\ j \in Nat /\ j < at
    BY <1>12, <1>at
<1>14. \A j \in DataFrames' : j \in Nat /\ (j \in DataFrames \/ (j = at /\ kind \in Data))
    BY <1>at, <1>12
<1>15. \A i \in DataFrames : /\ FollowsAll(i)' /\ FollowsLast(i)' /\ MayBeFirst(i)'
                             /\ script'[i].msg <= i /\ script'[i].nr <= i
  <2> SUFFICES ASSUME NEW i \in DataFrames
               PROVE  /\ FollowsAll(i)' /\ FollowsLast(i)' /\ MayBeFirst(i)'
                      /\ script'[i].msg <= i /\ script'[i].nr <= i
      OBVIOUS
  <2>1. /\ script[i].msg <= i /\ script[i].nr <= i /\ FollowsAll(i) /\ FollowsLast(i) /\ MayBeFirst(i)
      BY <1>3 DEF ScriptIsInOrder
  <2>2. \A h \in DataFrames' : h < i => h \in DataFrames
      BY <1>at, <1>3, <1>13, <1>14
  <2>3. FollowsAll(i)'
      BY <1>13, <2>1, <2>2 DEF FollowsAll
  <2>4. FollowsLast(i)'
    <3>1. \A h \in DataFrames : LastBefore(h, i)' => LastBefore(h, i)
        BY <1>13 DEF LastBefore
    <3>2. \A h \in DataFrames' : LastBefore(h, i)' => h \in DataFrames
        BY <2>2 DEF LastBefore
    <3> QED
        BY <1>13, <2>1, <3>1, <3>2 DEF FollowsLast
  <2>5. MayBeFirst(i)'
      BY <1>13, <2>1 DEF MayBeFirst
  <2> QED
      BY <1>13, <2>1, <2>3, <2>4, <2>5
<1>16. ASSUME kind \in Data
       PROVE  /\ FollowsAll(at)' /\ FollowsLast(at)' /\ MayBeFirst(at)'
              /\ script'[at].msg <= at /\ script'[at].nr <= at
  <2>1. script'[at].kind = kind /\ script'[at].msg = msg /\ script'[at].nr = nr
      BY <1>7, <1>10, <1>at
  <2>2. \A h \in DataFrames' : h < at => h \in DataFrames
      BY <1>at, <1>3, <1>14
  <2>3. CASE DataFrames = {} /\ last.fin /\ last.msg = 0 /\ last.nr = 1
    <3>1. \A h \in DataFrames' : ~(h < at)
        BY <2>2, <2>3
    <3>2. kind # "cont" /\ nr = 1
        BY <1>9, <1>16, <2>3
    <3> QED
        BY <1>6, <1>at, <2>1, <3>1, <3>2 DEF FollowsAll, FollowsLast, MayBeFirst, LastBefore
  <2>4. CASE \E i \in DataFrames : (\A j \in DataFrames : j <= i) /\ last = script[i]
    <3>1. PICK i \in DataFrames : (\A j \in DataFrames : j <= i) /\ last = script[i]
        BY <2>4
    <3>2. FollowsAll(i) /\ i \in Nat /\ i < at
        BY <1>at, <1>3, <1>13 DEF ScriptIsInOrder
    <3>3. FollowsAll(at)'
      <4> SUFFICES ASSUME NEW h \in DataFrames
                   PROVE  script[h].msg <= msg /\ (script[h].fin => script[h].msg < msg)
          BY <1>13, <2>1, <2>2 DEF FollowsAll
      <4>1. script[h].msg \in Nat
          BY <1>4
      <4>2. CASE h = i
          BY <1>5, <1>9, <1>16, <3>1, <4>2
      <4>3. CASE h # i
        <5>1. h < i
            BY <1>13, <3>1, <4>3
        <5>2. script[h].msg <= last.msg /\ (script[h].fin => script[h].msg < last.msg)
            BY <3>1, <3>2, <5>1 DEF FollowsAll
        <5> QED
            BY <1>5, <1>9, <1>16, <4>1, <5>2
      <4> QED
          BY <4>2, <4>3
    <3>4. FollowsLast(at)'
      <4>1. \A h \in DataFrames' : LastBefore(h, at)' => h = i
        <5> SUFFICES ASSUME NEW h \in DataFrames', LastBefore(h, at)' PROVE h = i
            OBVIOUS
        <5>1. h \in DataFrames /\ h <= i /\ (i <= h \/ at <= i)
            BY <1>at, <1>13, <2>2, <3>1 DEF LastBefore
        <5> QED
            BY <1>at, <1>3, <1>13, <3>2, <5>1
      <4>2. script'[i] = last
          BY <1>13, <3>1
      <4> QED
          BY <1>9, <1>16, <2>1, <4>1, <4>2 DEF FollowsLast
    <3>5. MayBeFirst(at)'
      <4>1. i \in DataFrames' /\ ~(at <= i)
          BY <1>at, <1>3, <1>13, <3>2
      <4> QED
          BY <4>1 DEF MayBeFirst
    <3> QED
        BY <1>6, <1>at, <2>1, <3>3, <3>4, <3>5
  <2> QED
      BY <2>3, <2>4, <1>3, LastIs DEF last
<1>17. ScriptIsInOrder'
    BY <1>14, <1>15, <1>16 DEF ScriptIsInOrder
<1>18. ~ended => FragmentsAre(fragments, parsed)'
  <2> SUFFICES ASSUME FragmentsAre(fragments, parsed) PROVE FragmentsAre(fragments, parsed)'
      BY DEF FramesInv
  <2>1. \A h \in DataFrames' : LastBefore(h, parsed + 1)' => h \in DataFrames
      BY <1>at, <1>2, <1>3, <1>14 DEF LastBefore
  <2>2. \A h \in DataFrames : LastBefore(h, parsed + 1)' => LastBefore(h, parsed + 1)
      BY <1>2, <1>13 DEF LastBefore
  <2> QED
      BY <1>2, <1>13, <2>1, <2>2 DEF FragmentsAre, FragmentsOf
<1>19. TextsAre(texts, parsed)'
  <2>1. TextsAre(texts, parsed)
      BY DEF FramesInv
  <2> QED
      BY <1>2, <1>13, <2>1 DEF TextsAre, FragmentsOf
<1>20. Texts(0, arrived \div 2)' \subseteq Texts(0, arrived \div 2)
  <2> DEFINE q == arrived \div 2
  <2>1. q \in Nat /\ q < at /\ (arrived \div 2)' = q
      BY <1>at, <1>2, <1>3
  <2> HIDE DEF q
  <2>2. \A h \in DataFrames' : h <= q => h \in DataFrames
      BY <1>at, <1>3, <1>14, <2>1
  <2>3. Binary \subseteq Binary'
      BY <1>13 DEF Binary
  <2>4. Texts(0, arrived \div 2)' = {script'[j].msg : j \in {k \in DataFrames' : 0 < k /\ k <= q /\ script'[k].fin}} \ Binary'
      BY <2>1 DEF Texts
  <2>5. Texts(0, arrived \div 2) = {script[j].msg : j \in {k \in DataFrames : 0 < k /\ k <= q /\ script[k].fin}} \ Binary
      BY DEF Texts, q
  <2> QED
      BY <1>13, <2>2, <2>3, <2>4, <2>5
<1>21. HeardIn(texts)' = HeardIn(texts)
    BY <1>2 DEF HeardIn
<1> QED
    BY <1>2, <1>11, <1>17, <1>18, <1>19, <1>20, <1>21 DEF FramesInv

LEMMA FramesInvNext == FramesInv /\ [FramesNext]_framesVars => FramesInv'
<1> SUFFICES ASSUME FramesInv, [FramesNext]_framesVars PROVE FramesInv'
    OBVIOUS
<1>1. CASE Sends
    BY <1>1, SendsKeeps
<1>2. CASE Upgrades
  <2>1. PICK n \in 0..2 * MaxFrames : Receives(n, FALSE)
      BY <1>2 DEF Upgrades
  <2>2. ~ended /\ upgraded' = TRUE /\ script' = script
      BY <1>2 DEF Upgrades, FramesInv
  <2> QED
      BY <2>1, <2>2, ChunkKeeps
<1>3. CASE ChunkComes
  <2>1. PICK n \in 1..2 * MaxFrames : Receives(n, TRUE)
      BY <1>3 DEF ChunkComes
  <2>2. ~ended /\ upgraded' = TRUE /\ script' = script /\ n \in 0..2 * MaxFrames
      BY <1>3, FramesAssumption DEF ChunkComes, FramesInv, FramesTypeOK
  <2> QED
      BY <2>1, <2>2, ChunkKeeps
<1>4. CASE UNCHANGED framesVars
  <2>1. UNCHANGED <<script, arrived, parsed, upgraded, ended, fragments, texts, inTail, spoiled>>
      BY <1>4 DEF framesVars
  <2>2. FramesTypeOK' = FramesTypeOK
      BY <2>1 DEF FramesTypeOK
  <2>3. DataFrames' = DataFrames /\ Binary' = Binary
      BY <2>1 DEF DataFrames, Binary
  <2>4. ScriptIsInOrder => ScriptIsInOrder'
      BY <2>1, <2>3 DEF ScriptIsInOrder, FollowsAll, FollowsLast, MayBeFirst, LastBefore
  <2>5. FragmentsAre(fragments, parsed) => FragmentsAre(fragments, parsed)'
      BY <2>1, <2>3 DEF FragmentsAre, FragmentsOf, LastBefore
  <2>6. TextsAre(texts, parsed) => TextsAre(texts, parsed)'
      BY <2>1, <2>3 DEF TextsAre, FragmentsOf
  <2>7. HeardIn(texts)' = HeardIn(texts) /\ Texts(0, arrived \div 2)' = Texts(0, arrived \div 2)
      BY <2>1, <2>3 DEF HeardIn, Texts
  <2> QED
      BY <2>1, <2>2, <2>4, <2>5, <2>6, <2>7 DEF FramesInv
<1> QED
    BY <1>1, <1>2, <1>3, <1>4 DEF FramesNext

\* The texts that are here: their last frames are among the frames that arrived.
LEMMA WholeAndHeard == FramesInv => TextsAreHeard
<1> SUFFICES ASSUME FramesInv PROVE TextsAreHeard
    OBVIOUS
<1>1. FramesTypeOK /\ TextsAre(texts, parsed) /\ Texts(0, arrived \div 2) \subseteq HeardIn(texts) \union inTail \union spoiled
    BY DEF FramesInv
<1>2. \A j \in DataFrames : script[j].fin => script[j] \in Ends
    BY DEF Ends
<1>3. \A k \in DOMAIN texts : \E f \in Ends : texts[k] = FragmentsOf(f)
    BY <1>1, <1>2 DEF TextsAre
<1>4. \A j, k \in DOMAIN texts : j < k => texts[j][1][1] < texts[k][1][1]
    BY <1>1 DEF TextsAre
<1>5. TextsHere \subseteq Texts(0, arrived \div 2)
  <2> DEFINE q == arrived \div 2
  <2>1. q \in Nat /\ q <= Len(script) /\ Len(script) \in Nat
      BY <1>1, FramesFacts DEF FramesTypeOK
  <2> HIDE DEF q
  <2>2. \A k \in 1..q : /\ k \in 1..Len(script) /\ 0 < k /\ k <= q
                        /\ script[k] \in Ends => k \in DataFrames /\ script[k].fin
    <3> SUFFICES ASSUME NEW k \in 1..q
                 PROVE  /\ k \in 1..Len(script) /\ 0 < k /\ k <= q
                        /\ script[k] \in Ends => k \in DataFrames /\ script[k].fin
        OBVIOUS
    <3>1. k \in 1..Len(script) /\ 0 < k /\ k <= q
        BY <2>1
    <3>2. \A f \in Ends : f.fin /\ f.kind \in Data
        BY <1>1, FramesFacts DEF Ends
    <3>3. k \in DataFrames <=> script[k].kind \in Data
        BY <1>1, <3>1, FramesFacts
    <3> QED
        BY <3>1, <3>2, <3>3
  <2> QED
      BY <2>2 DEF TextsHere, Texts, q
<1>6. HeardIn(texts) = Heard
    BY DEF HeardIn, Heard
<1> QED
    BY <1>1, <1>3, <1>4, <1>5, <1>6 DEF TextsAreHeard

\* FramesInv, of every connection.
LEMMA FramesKeepInv == FramesSpec => []FramesInv
<1> QED
    BY FramesInvInit, FramesInvNext, PTL DEF FramesSpec

\* The frames have their types, whatever the server sends and however it is cut: wsclient.ts keeps at
\* most MAX_MESSAGE_BYTES of a message.
THEOREM FramesTypes == FramesSpec => []FramesTypeOK
<1>1. FramesInv => FramesTypeOK
    BY DEF FramesInv
<1> QED
    BY <1>1, FramesKeepInv, PTL

\* What ontext is given is a message whole, each once and in its turn, and every text that is here was
\* given unless it came with the handshake or in a chunk that broke the connection (onData).
THEOREM TextsAreWhole == FramesSpec => []TextsAreHeard
<1> QED
    BY WholeAndHeard, FramesKeepInv, PTL
=============================================================================
