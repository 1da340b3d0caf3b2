----------------------------- MODULE StateStore -----------------------------
(***************************************************************************)
(* state.json and its lock.  Every change is a read-modify-write cycle     *)
(* (enqueueWrite): within a process the cycles run one after another, and  *)
(* between the processes that share a DSH_HOME a lock file, created with   *)
(* O_EXCL and removed at the end, keeps them apart.  A lock whose file is  *)
(* old, or whose process is dead, is removed by whoever finds it.          *)
(*                                                                         *)
(* Changes are numbered; the file is the set of changes it carries.  Lock  *)
(* files are numbered too, so that `blame' can be kept, which is history:  *)
(* why a lock was removed from under a holder that lived.                  *)
(***************************************************************************)
EXTENDS Integers, FiniteSets, Sequences

CONSTANTS Hosts,            \* the processes of one DSH_HOME
          MaxWrites,        \* bound: changes asked for
          LockAttempts,     \* LOCK_MAX_ATTEMPTS, 50 in the code
          MaxStoreFaults    \* bound: crashes, and cycles of more than LOCK_STALE_MS

ASSUME StoreAssumption == MaxWrites \in Nat /\ LockAttempts \in Nat /\ MaxStoreFaults \in Nat

Changes == 1..MaxWrites
NoLock == 0

VARIABLES file,             \* the changes state.json carries
          lockFile,         \* the lock file there is, or NoLock
          lockOf,           \* per lock file: its process (dead ones own none), pid written, old
          nextLock,
          writer,           \* per process: its cycle
          asked, saved,     \* changes asked for; changes whose cycle ended well
          refused,          \* changes given up with an error
          blame, storeFaults

storeVars == <<file, lockFile, lockOf, nextLock, writer, asked, saved, refused, blame, storeFaults>>
tally == <<asked, saved, refused>>

Idle == [pc |-> "idle", change |-> 0, tries |-> 0, saw |-> NoLock, mine |-> NoLock, copy |-> {}]
Locks == 1..nextLock - 1
Nobody == "nobody"

StoreInit ==
  /\ file = {} /\ lockFile = NoLock /\ nextLock = 1 /\ lockOf = <<>>
  /\ writer = [h \in Hosts |-> Idle]
  /\ asked = {} /\ saved = {} /\ refused = {} /\ blame = {} /\ storeFaults = 0

At(h, pc) == writer[h].pc = pc
Moves(h, pc) == writer' = [writer EXCEPT ![h].pc = pc]
Rests(h) == writer' = [writer EXCEPT ![h] = Idle]
\* The holder of a lock file is between its creation and its removal.
HeldBy(l) == {h \in Hosts : writer[h].mine = l}

-----------------------------------------------------------------------------
(* acquireStateLock *)

\* The next change of the process's queue.
BeginsWrite(h) ==
  /\ At(h, "idle") /\ asked # Changes
  /\ LET c == Cardinality(asked) + 1 IN
     asked' = asked \union {c} /\ writer' = [writer EXCEPT ![h] = [Idle EXCEPT !.pc = "open", !.change = c]]
  /\ UNCHANGED <<file, lockFile, lockOf, nextLock, saved, refused, blame, storeFaults>>

\* Slip: the file is opened without O_EXCL.
Free_Always == TRUE
Free == lockFile = NoLock

\* open(wx): the lock is ours, its pid not yet in it.
Creates(h) ==
  /\ At(h, "open") /\ Free
  /\ lockFile' = nextLock /\ nextLock' = nextLock + 1
  /\ lockOf' = Append(lockOf, [owner |-> h, signed |-> FALSE, old |-> FALSE])
  /\ writer' = [writer EXCEPT ![h] = [@ EXCEPT !.pc = "sign", !.mine = nextLock]]
  /\ UNCHANGED <<file, tally, blame, storeFaults>>

Signs(h) ==
  /\ At(h, "sign") /\ Moves(h, "load")
  /\ lockOf' = [lockOf EXCEPT ![writer[h].mine].signed = TRUE]
  /\ UNCHANGED <<file, lockFile, nextLock, tally, blame, storeFaults>>

\* EEXIST: is it stale?
FindsLocked(h) ==
  /\ At(h, "open") /\ ~Free /\ Moves(h, "stat")
  /\ UNCHANGED <<file, lockFile, lockOf, nextLock, tally, blame, storeFaults>>

\* stat: a file that is gone counts as stale, and so does an old one.
Stats(h) ==
  /\ At(h, "stat")
  /\ LET stale == lockFile = NoLock \/ lockOf[lockFile].old IN
     writer' = [writer EXCEPT ![h] = [@ EXCEPT !.saw = lockFile, !.pc = IF stale THEN "remove" ELSE "probe"]]
  /\ UNCHANGED <<file, lockFile, lockOf, nextLock, tally, blame, storeFaults>>

\* Slip: no end to the waiting.
MayWaitAgain_Always(h) == TRUE
MayWaitAgain(h) == writer[h].tries < LockAttempts
Retries(h, saw) ==
  LET tries == writer[h].tries + 1 IN
  writer' = [writer EXCEPT ![h] = [@ EXCEPT !.pc = "open", !.saw = saw,
                                     !.tries = IF tries <= LockAttempts THEN tries ELSE LockAttempts]]

\* readFile, then kill(pid, 0): the pid of the file there is now, if it holds one.
Probes(h) ==
  /\ At(h, "probe")
  /\ LET dead == lockFile # NoLock /\ lockOf[lockFile].signed /\ lockOf[lockFile].owner = Nobody IN
     IF dead
     THEN writer' = [writer EXCEPT ![h] = [@ EXCEPT !.pc = "remove", !.saw = lockFile]] /\ UNCHANGED refused
     ELSE IF MayWaitAgain(h)
     THEN Retries(h, writer[h].saw) /\ UNCHANGED refused
     ELSE Rests(h) /\ refused' = refused \union {writer[h].change}
  /\ UNCHANGED <<file, lockFile, lockOf, nextLock, asked, saved, blame, storeFaults>>

\* rm: whatever lock file there is by now.  A holder that lives loses its lock to a race
\* (another file was judged) or to the clock (it held on for more than LOCK_STALE_MS).
RemovesLock(h) ==
  /\ At(h, "remove")
  /\ lockFile' = NoLock
  /\ blame' = IF lockFile = NoLock \/ HeldBy(lockFile) = {} THEN blame
              ELSE blame \union {IF writer[h].saw = lockFile THEN "stalled" ELSE "raced"}
  /\ Retries(h, NoLock)
  /\ UNCHANGED <<file, lockOf, nextLock, tally, storeFaults>>

-----------------------------------------------------------------------------
(* The cycle *)

LoadsState(h) ==
  /\ At(h, "load") /\ writer' = [writer EXCEPT ![h] = [@ EXCEPT !.pc = "save", !.copy = file]]
  /\ UNCHANGED <<file, lockFile, lockOf, nextLock, tally, blame, storeFaults>>

\* saveState: a temporary file, then rename.
SavesState(h) ==
  /\ At(h, "save") /\ Moves(h, "release")
  /\ file' = writer[h].copy \union {writer[h].change}
  /\ saved' = saved \union {writer[h].change}
  /\ UNCHANGED <<lockFile, lockOf, nextLock, asked, refused, blame, storeFaults>>

\* release: rm, of whatever lock file there is.
ReleasesLock(h) ==
  /\ At(h, "release") /\ lockFile' = NoLock
  /\ blame' = IF lockFile \in {NoLock, writer[h].mine} \/ HeldBy(lockFile) = {} THEN blame
              ELSE blame \union {"raced"}
  /\ Rests(h)
  /\ UNCHANGED <<file, lockOf, nextLock, tally, storeFaults>>

-----------------------------------------------------------------------------
(* The world *)

\* A process dies anywhere; the change it was at is not made, unless it was saved already.
StoreCrashes(h) ==
  /\ storeFaults < MaxStoreFaults /\ storeFaults' = storeFaults + 1
  /\ ~At(h, "idle") /\ Rests(h)
  /\ lockOf' = [l \in Locks |-> IF lockOf[l].owner = h THEN [lockOf[l] EXCEPT !.owner = Nobody] ELSE lockOf[l]]
  /\ UNCHANGED <<file, lockFile, nextLock, tally, blame>>

\* Half a minute goes by with a lock file in place: its holder is dead, or stalled.
LockAges ==
  /\ lockFile # NoLock /\ ~lockOf[lockFile].old
  /\ lockOf' = [lockOf EXCEPT ![lockFile].old = TRUE]
  /\ IF HeldBy(lockFile) = {} THEN UNCHANGED storeFaults
     ELSE storeFaults < MaxStoreFaults /\ storeFaults' = storeFaults + 1
  /\ UNCHANGED <<file, lockFile, nextLock, writer, tally, blame>>

StoreSteps(h) == \/ Creates(h) \/ Signs(h) \/ FindsLocked(h) \/ Stats(h) \/ Probes(h) \/ RemovesLock(h)
                 \/ LoadsState(h) \/ SavesState(h) \/ ReleasesLock(h)
StoreNext == LockAges \/ \E h \in Hosts : StoreSteps(h) \/ BeginsWrite(h) \/ StoreCrashes(h)
StoreFairness == \A h \in Hosts : WF_storeVars(StoreSteps(h))
StoreSpec == StoreInit /\ [][StoreNext]_storeVars /\ StoreFairness

-----------------------------------------------------------------------------
Cycling == {"sign", "load", "save", "release"}
Writers == [pc : {"idle", "open", "stat", "probe", "remove"} \union Cycling, change : 0..MaxWrites,
            tries : 0..LockAttempts, saw : 0..nextLock - 1, mine : 0..nextLock - 1, copy : SUBSET Changes]

\* A process has a lock file of its own while it is in its cycle.
StoreTypeOK ==
  /\ file \subseteq Changes /\ asked \subseteq Changes /\ saved \subseteq asked /\ refused \subseteq asked
  /\ nextLock \in Nat \ {0} /\ lockFile \in 0..nextLock - 1
  /\ lockOf \in [Locks -> [owner : Hosts \union {Nobody}, signed : BOOLEAN, old : BOOLEAN]]
  /\ writer \in [Hosts -> Writers]
  /\ \A h \in Hosts : writer[h].mine # NoLock <=> writer[h].pc \in Cycling
  /\ blame \subseteq {"raced", "stalled"} /\ storeFaults \in 0..MaxStoreFaults

\* A change whose cycle ended well is in the file for good, unless a lock was removed from under
\* a live holder: by a process that had judged another file, or because the holder took longer
\* than LOCK_STALE_MS.
ChangesAreKept == blame = {} => saved \subseteq file

UnderWay == {writer[h].change : h \in {g \in Hosts : ~At(g, "idle")}}

\* The cycles of all processes, with their lock files and the judgements about them, are one
\* atomic store: a write that ends well took effect at one moment, on what was there then.  And
\* every cycle ends, well or with the error that names the lock, or its process dies: a lock
\* file whose process died before it signed it holds nobody up for ever.
Atomic == INSTANCE AtomicStore WITH content <- file, kept <- saved, sound <- blame = {}, open <- UnderWay
StoreIsAtomic == Atomic!AtomicSpec

\* What store.ts says the lock is for: two instances do not overwrite each other's changes.
\* (Stated without the crash and the stall: those the comment does not speak of.)
NoChangeIsLost == storeFaults = 0 => saved \subseteq file
=============================================================================
