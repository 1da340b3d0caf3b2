---------------------------- MODULE Host_proofs -----------------------------
(***************************************************************************)
(* Proofs about the files that the plugin instances of a machine share, for *)
(* any number of them: the state file and its lock (StateStore), which keeps *)
(* every change and implements, step by step, a store whose changes are    *)
(* atomic (AtomicStore), and the way a plugin comes by the one daemon      *)
(* (DaemonLife); and about the watcher that stands in for it (InboxWatcher). *)
(***************************************************************************)
EXTENDS StateStore, DaemonLife, InboxWatcher, FiniteSetTheorems, SequenceTheorems, TLAPS

-----------------------------------------------------------------------------
(* The state file.                                                         *)

\* Changes are handed out in order, one to a process at a time.
ChangesAreOnes ==
  /\ \E n \in 0..MaxWrites : asked = 1..n
  /\ \A h \in Hosts : ~At(h, "idle") => writer[h].change \in asked
  /\ \A g, h \in Hosts : ~At(g, "idle") /\ ~At(h, "idle") /\ writer[g].change = writer[h].change => g = h

\* A change counts as saved from the moment its cycle has put it into the file.
SavedIsPast ==
  \A h \in Hosts : ~At(h, "idle") /\ ~At(h, "release") => writer[h].change \notin saved

LocksAreOnes == \A g, h \in Hosts : writer[g].mine # NoLock /\ writer[g].mine = writer[h].mine => g = h

\* While nobody was robbed: who is in its cycle has the lock that is there, and what it read is
\* what the file holds.
CyclesAreApart ==
  blame = {} => \A h \in Hosts : /\ writer[h].pc \in Cycling => writer[h].mine = lockFile
                                 /\ At(h, "save") => writer[h].copy = file

StoreInv ==
  /\ StoreTypeOK /\ ChangesAreOnes /\ SavedIsPast /\ LocksAreOnes /\ CyclesAreApart /\ ChangesAreKept

LockFiles == [owner : Hosts \union {Nobody}, signed : BOOLEAN, old : BOOLEAN]

\* The conjuncts a step has to keep besides the types.
StoreOrder == ChangesAreOnes /\ SavedIsPast /\ LocksAreOnes /\ CyclesAreApart /\ ChangesAreKept

LEMMA StoreInvInit == StoreInit => StoreInv
<1> SUFFICES ASSUME StoreInit PROVE StoreInv
    OBVIOUS
<1> USE StoreAssumption
<1>1. lockOf \in [Locks -> LockFiles]
    BY DEF StoreInit, Locks, LockFiles
<1>2. writer \in [Hosts -> Writers] /\ \A h \in Hosts : writer[h] = Idle
    BY DEF StoreInit, Writers, Idle, NoLock
<1>3. StoreTypeOK
    BY <1>1, <1>2 DEF StoreInit, StoreTypeOK, LockFiles, Idle, Cycling, NoLock
<1>4. asked = 1..0 /\ 0 \in 0..MaxWrites
    BY DEF StoreInit
<1> QED
    BY <1>2, <1>3, <1>4 DEF StoreInit, StoreInv, ChangesAreOnes, SavedIsPast, LocksAreOnes, CyclesAreApart,
                            ChangesAreKept, At, Idle, Cycling

-----------------------------------------------------------------------------
(* Types *)

\* Changes are numbered as they are asked for, so there is one left as long as the bound allows.
LEMMA NextChange == ASSUME StoreInv PROVE \E n \in 0..MaxWrites : asked = 1..n /\ Cardinality(asked) = n
<1>1. PICK n \in 0..MaxWrites : asked = 1..n
    BY DEF StoreInv, ChangesAreOnes
<1>2. Cardinality(1..n) = n
    BY FS_Interval, StoreAssumption
<1> QED
    BY <1>1, <1>2

\* One more lock file makes a longer sequence of them.
LEMMA NextLockFile ==
    ASSUME NEW n \in Nat, NEW f \in [1..n -> LockFiles], NEW l \in LockFiles
    PROVE  Append(f, l) \in [1..n + 1 -> LockFiles]
<1>1. f \in Seq(LockFiles) /\ Len(f) = n
    OBVIOUS
<1>2. Append(f, l) \in Seq(LockFiles) /\ Len(Append(f, l)) = n + 1
    BY <1>1, AppendProperties
<1> QED
    BY <1>2, LenProperties

\* Each step keeps the types.
LEMMA StoreTypesKeep == ASSUME StoreInv, StoreNext PROVE StoreTypeOK'
<1>1. /\ file \subseteq Changes /\ asked \subseteq Changes /\ saved \subseteq asked /\ refused \subseteq asked
      /\ nextLock \in Nat \ {0} /\ lockFile \in 0..nextLock - 1
      /\ lockOf \in [Locks -> LockFiles] /\ writer \in [Hosts -> Writers]
      /\ \A h \in Hosts : writer[h].mine # NoLock <=> writer[h].pc \in Cycling
      /\ blame \subseteq {"raced", "stalled"} /\ storeFaults \in 0..MaxStoreFaults
    BY DEF StoreInv, StoreTypeOK, LockFiles
<1> USE StoreAssumption, <1>1
<1>2. ASSUME NEW h \in Hosts PROVE writer[h] \in Writers
    OBVIOUS
<1>d. Idle \in Writers /\ Idle.mine = NoLock /\ Idle.pc \notin Cycling
    <2>1. 0 \in 0..MaxWrites /\ 0 \in 0..LockAttempts /\ 0 \in 0..nextLock - 1
        OBVIOUS
    <2> QED
        BY <2>1 DEF Idle, Writers, NoLock, Cycling
\* A step of one process that changes nothing but its own record, and the blame.
<1>3. ASSUME NEW h \in Hosts, NEW r \in Writers, writer' = [writer EXCEPT ![h] = r],
             r.mine # NoLock <=> r.pc \in Cycling, UNCHANGED <<asked, nextLock, storeFaults>>,
             file' \subseteq Changes, lockOf' \in [Locks -> LockFiles],
             saved' \subseteq asked, refused' \subseteq asked,
             blame' \subseteq {"raced", "stalled"}, lockFile' \in {lockFile, NoLock}
      PROVE  StoreTypeOK'
    <2>1. writer' \in [Hosts -> Writers]
        BY <1>3
    <2>2. Writers' = Writers /\ Locks' = Locks
        BY <1>3, Zenon DEF Writers, Locks
    <2>3. \A g \in Hosts : writer'[g].mine # NoLock <=> writer'[g].pc \in Cycling
        BY <1>3
    <2>4. lockFile' \in 0..nextLock' - 1
        BY <1>3 DEF NoLock
    <2> QED
        BY <1>3, <2>1, <2>2, <2>3, <2>4, Zenon DEF StoreTypeOK, LockFiles
<1>4. ASSUME NEW h \in Hosts, BeginsWrite(h) PROVE StoreTypeOK'
    <2> DEFINE c == Cardinality(asked) + 1
    <2>1. PICK n \in 0..MaxWrites : asked = 1..n /\ c = n + 1
        BY NextChange
    <2>2. c \in Changes
        BY <1>4, <2>1 DEF BeginsWrite, Changes
    <2> HIDE DEF c
    <2> DEFINE r == [Idle EXCEPT !.pc = "open", !.change = c]
    <2>3. r \in Writers /\ r.mine = NoLock /\ r.pc = "open"
        <3>1. Idle \in Writers /\ Idle.mine = NoLock
            BY <1>d
        <3>2. c \in 0..MaxWrites
            BY <2>2 DEF Changes
        <3> QED
            BY <3>1, <3>2 DEF Writers
    <2>4. writer' = [writer EXCEPT ![h] = r] /\ asked' = asked \union {c}
          /\ UNCHANGED <<file, lockFile, lockOf, nextLock, saved, refused, blame, storeFaults>>
        BY <1>4, Zenon DEF BeginsWrite, c
    <2> HIDE DEF r
    <2>5. writer' \in [Hosts -> Writers] /\ Writers' = Writers /\ Locks' = Locks
        BY <2>3, <2>4 DEF Writers, Locks
    <2>6. \A g \in Hosts : writer'[g].mine # NoLock <=> writer'[g].pc \in Cycling
        BY <2>3, <2>4 DEF Cycling
    <2> QED
        BY <2>2, <2>4, <2>5, <2>6 DEF StoreTypeOK, LockFiles
<1>5. ASSUME NEW h \in Hosts, Creates(h) PROVE StoreTypeOK'
    <2> DEFINE r == [writer[h] EXCEPT !.pc = "sign", !.mine = nextLock]
               l == [owner |-> h, signed |-> FALSE, old |-> FALSE]
    <2>1. /\ lockFile' = nextLock /\ nextLock' = nextLock + 1 /\ lockOf' = Append(lockOf, l)
          /\ writer' = [writer EXCEPT ![h] = r] /\ UNCHANGED <<file, tally, blame, storeFaults>>
        BY <1>5, Zenon DEF Creates
    <2>2. writer[h] \in Writers' /\ nextLock \in 0..nextLock' - 1 /\ Writers \subseteq Writers'
        <3>1. nextLock \in 0..nextLock' - 1 /\ 0..nextLock - 1 \subseteq 0..nextLock' - 1
            BY <2>1
        <3> QED
            BY <1>2, <3>1, Zenon DEF Writers
    <2>3. r \in Writers' /\ r.mine = nextLock /\ r.pc = "sign"
        BY <2>2 DEF Writers, Cycling
    <2>4. l \in LockFiles
        BY DEF LockFiles
    <2> HIDE DEF r, l
    <2>5. writer' \in [Hosts -> Writers']
        BY <2>1, <2>2, <2>3
    <2>6. \A g \in Hosts : writer'[g].mine # NoLock <=> writer'[g].pc \in Cycling
        BY <2>1, <2>3 DEF Cycling, NoLock
    <2>7. lockOf' \in [Locks' -> LockFiles]
        <3>1. nextLock - 1 \in Nat /\ (nextLock - 1) + 1 = nextLock' - 1
            BY <2>1
        <3>2. lockOf \in [1..nextLock - 1 -> LockFiles]
            BY DEF Locks
        <3> QED
            BY <2>1, <2>4, <3>1, <3>2, NextLockFile DEF Locks
    <2>8. lockFile' \in 0..nextLock' - 1 /\ nextLock' \in Nat \ {0}
        BY <2>1
    <2> QED
        BY <2>1, <2>5, <2>6, <2>7, <2>8 DEF StoreTypeOK, LockFiles, tally
<1>6. ASSUME NEW h \in Hosts, Signs(h) PROVE StoreTypeOK'
    <2> DEFINE r == [writer[h] EXCEPT !.pc = "load"]
    <2>1. /\ writer[h].pc = "sign" /\ writer' = [writer EXCEPT ![h] = r]
          /\ lockOf' = [lockOf EXCEPT ![writer[h].mine].signed = TRUE]
          /\ UNCHANGED <<file, lockFile, nextLock, tally, blame, storeFaults>>
        BY <1>6 DEF Signs, At, Moves
    <2>2. r \in Writers /\ (r.mine # NoLock <=> r.pc \in Cycling)
        BY <1>2, <2>1 DEF Writers, Cycling
    <2>3. lockOf' \in [Locks -> LockFiles]
        BY <2>1 DEF LockFiles
    <2> HIDE DEF r
    <2> QED
        BY <1>3, <2>1, <2>2, <2>3 DEF tally
<1>7. ASSUME NEW h \in Hosts, FindsLocked(h) \/ Stats(h) PROVE StoreTypeOK'
    <2>1. writer[h].pc \in {"open", "stat"} /\ UNCHANGED <<file, lockFile, lockOf, nextLock, tally, blame, storeFaults>>
        BY <1>7 DEF FindsLocked, Stats, At
    <2>2. PICK r \in Writers : writer' = [writer EXCEPT ![h] = r] /\ r.mine = writer[h].mine
                               /\ r.pc \in {"stat", "remove", "probe"}
        <3>1. \E pc \in {"stat", "remove", "probe"}, saw \in {writer[h].saw, lockFile} :
                 writer' = [writer EXCEPT ![h] = [writer[h] EXCEPT !.pc = pc, !.saw = saw]]
            <4>1. CASE FindsLocked(h)
                <5>1. writer' = [writer EXCEPT ![h] = [writer[h] EXCEPT !.pc = "stat"]]
                    BY <4>1 DEF FindsLocked, Moves
                <5>2. [writer[h] EXCEPT !.pc = "stat"] = [writer[h] EXCEPT !.pc = "stat", !.saw = writer[h].saw]
                    BY <1>2 DEF Writers
                <5> QED
                    BY <5>1, <5>2
            <4>2. CASE Stats(h)
                <5>1. \E stale \in BOOLEAN :
                         writer' = [writer EXCEPT ![h] = [writer[h] EXCEPT !.saw = lockFile,
                                                    !.pc = IF stale THEN "remove" ELSE "probe"]]
                    BY <4>2 DEF Stats
                <5> QED
                    BY <5>1, <1>2 DEF Writers
            <4> QED
                BY <1>7, <4>1, <4>2
        <3> QED
            <4>1. PICK pc \in {"stat", "remove", "probe"}, saw \in {writer[h].saw, lockFile} :
                     writer' = [writer EXCEPT ![h] = [writer[h] EXCEPT !.pc = pc, !.saw = saw]]
                BY <3>1
            <4>2. [writer[h] EXCEPT !.pc = pc, !.saw = saw] \in Writers
                BY <1>2 DEF Writers
            <4>3. /\ [writer[h] EXCEPT !.pc = pc, !.saw = saw].mine = writer[h].mine
                  /\ [writer[h] EXCEPT !.pc = pc, !.saw = saw].pc = pc
                BY <1>2 DEF Writers
            <4> QED
                BY <4>1, <4>2, <4>3
    <2>3. r.mine # NoLock <=> r.pc \in Cycling
        BY <2>1, <2>2 DEF Cycling
    <2> QED
        BY <1>3, <2>1, <2>2, <2>3 DEF tally
<1>8. ASSUME NEW h \in Hosts, LoadsState(h) PROVE StoreTypeOK'
    <2> DEFINE r == [writer[h] EXCEPT !.pc = "save", !.copy = file]
    <2>1. /\ writer[h].pc = "load" /\ writer' = [writer EXCEPT ![h] = r]
          /\ UNCHANGED <<file, lockFile, lockOf, nextLock, tally, blame, storeFaults>>
        BY <1>8 DEF LoadsState, At
    <2>2. r \in Writers /\ (r.mine # NoLock <=> r.pc \in Cycling)
        BY <1>2, <2>1 DEF Writers, Cycling
    <2> HIDE DEF r
    <2> QED
        BY <1>3, <2>1, <2>2 DEF tally
<1>9. ASSUME NEW h \in Hosts, SavesState(h) PROVE StoreTypeOK'
    <2> DEFINE r == [writer[h] EXCEPT !.pc = "release"]
    <2>1. /\ writer[h].pc = "save" /\ writer' = [writer EXCEPT ![h] = r]
          /\ file' = writer[h].copy \union {writer[h].change} /\ saved' = saved \union {writer[h].change}
          /\ UNCHANGED <<lockFile, lockOf, nextLock, asked, refused, blame, storeFaults>>
        BY <1>9 DEF SavesState, At, Moves
    <2>2. r \in Writers /\ (r.mine # NoLock <=> r.pc \in Cycling)
        BY <1>2, <2>1 DEF Writers, Cycling
    <2>3. writer[h].change \in asked
        BY <2>1 DEF StoreInv, ChangesAreOnes, At
    <2>4. writer[h].copy \subseteq Changes
        BY <1>2 DEF Writers
    <2> HIDE DEF r
    <2> QED
        BY <1>3, <2>1, <2>2, <2>3, <2>4
<1>10. ASSUME NEW h \in Hosts, Probes(h) PROVE StoreTypeOK'
    <2>1. writer[h].pc = "probe" /\ UNCHANGED <<file, lockFile, lockOf, nextLock, asked, saved, blame, storeFaults>>
        BY <1>10 DEF Probes, At
    <2>2. writer[h].change \in asked /\ writer[h].mine = NoLock
        BY <2>1 DEF StoreInv, ChangesAreOnes, At, Cycling
    <2>3. refused' \subseteq asked
        BY <1>10, <2>2 DEF Probes
    <2>4. \/ \E pc \in {"remove", "open"}, saw \in {writer[h].saw, lockFile}, tries \in 0..LockAttempts :
               writer' = [writer EXCEPT ![h] = [writer[h] EXCEPT !.pc = pc, !.saw = saw, !.tries = tries]]
          \/ writer' = [writer EXCEPT ![h] = Idle]
        <3>1. CASE writer' = [writer EXCEPT ![h] = [writer[h] EXCEPT !.pc = "remove", !.saw = lockFile]]
            <4>1. [writer[h] EXCEPT !.pc = "remove", !.saw = lockFile]
                    = [writer[h] EXCEPT !.pc = "remove", !.saw = lockFile, !.tries = writer[h].tries]
                BY <1>2 DEF Writers
            <4>2. writer[h].tries \in 0..LockAttempts
                BY <1>2 DEF Writers
            <4> QED
                BY <3>1, <4>1, <4>2, Zenon
        <3>2. CASE Retries(h, writer[h].saw)
            <4> DEFINE tries == IF writer[h].tries + 1 <= LockAttempts THEN writer[h].tries + 1 ELSE LockAttempts
            <4>1. writer' = [writer EXCEPT ![h] = [writer[h] EXCEPT !.pc = "open", !.saw = writer[h].saw,
                                                                       !.tries = tries]]
                BY <3>2 DEF Retries
            <4>2. tries \in 0..LockAttempts
                BY <1>2 DEF Writers
            <4> HIDE DEF tries
            <4> QED
                BY <4>1, <4>2, Zenon
        <3>3. CASE Rests(h)
            BY <3>3 DEF Rests
        <3> QED
            BY <1>10, <3>1, <3>2, <3>3, Zenon DEF Probes
    <2>5. CASE writer' = [writer EXCEPT ![h] = Idle]
        BY <1>3, <1>d, <2>1, <2>3, <2>5
    <2>6. ASSUME NEW pc \in {"remove", "open"}, NEW saw \in {writer[h].saw, lockFile}, NEW tries \in 0..LockAttempts,
                 writer' = [writer EXCEPT ![h] = [writer[h] EXCEPT !.pc = pc, !.saw = saw, !.tries = tries]]
          PROVE  StoreTypeOK'
        <3> DEFINE r == [writer[h] EXCEPT !.pc = pc, !.saw = saw, !.tries = tries]
        <3>1. r \in Writers
            BY <1>2 DEF Writers
        <3>2. r.mine = NoLock /\ r.pc \notin Cycling
            BY <1>2, <2>2 DEF Writers, Cycling
        <3> HIDE DEF r
        <3>3. writer' = [writer EXCEPT ![h] = r]
            BY <2>6 DEF r
        <3> QED
            BY <1>3, <2>1, <2>3, <3>1, <3>2, <3>3
    <2> QED
        BY <2>4, <2>5, <2>6
<1>11. ASSUME NEW h \in Hosts, RemovesLock(h) PROVE StoreTypeOK'
    <2> DEFINE tries == IF writer[h].tries + 1 <= LockAttempts THEN writer[h].tries + 1 ELSE LockAttempts
               r == [writer[h] EXCEPT !.pc = "open", !.saw = NoLock, !.tries = tries]
    <2>1. /\ writer[h].pc = "remove" /\ lockFile' = NoLock
          /\ UNCHANGED <<file, lockOf, nextLock, tally, storeFaults>>
        BY <1>11 DEF RemovesLock, At
    <2>2. writer' = [writer EXCEPT ![h] = r]
        BY <1>11 DEF RemovesLock, Retries
    <2>3. blame' \subseteq {"raced", "stalled"}
        BY <1>11, Zenon DEF RemovesLock
    <2>4. tries \in 0..LockAttempts
        BY <1>2 DEF Writers
    <2> HIDE DEF tries
    <2>5. r \in Writers /\ r.mine = writer[h].mine /\ r.pc = "open"
        <3>1. NoLock \in 0..nextLock - 1
            BY DEF NoLock
        <3> QED
            BY <1>2, <2>4, <3>1 DEF Writers
    <2> HIDE DEF r
    <2>6. r.mine # NoLock <=> r.pc \in Cycling
        BY <2>1, <2>5 DEF Cycling
    <2> QED
        BY <1>3, <2>1, <2>2, <2>3, <2>5, <2>6 DEF tally
<1>12. ASSUME NEW h \in Hosts, ReleasesLock(h) PROVE StoreTypeOK'
    <2>1. lockFile' = NoLock /\ Rests(h) /\ UNCHANGED <<file, lockOf, nextLock, tally, storeFaults>>
        BY <1>12, Zenon DEF ReleasesLock
    <2>2. blame' \subseteq {"raced", "stalled"}
        BY <1>12, Zenon DEF ReleasesLock
    <2> QED
        BY <1>3, <1>d, <2>1, <2>2 DEF Rests, tally
<1>13. ASSUME NEW h \in Hosts, StoreCrashes(h) PROVE StoreTypeOK'
    <2>1. /\ storeFaults' = storeFaults + 1 /\ storeFaults < MaxStoreFaults /\ Rests(h)
          /\ UNCHANGED <<file, lockFile, nextLock, tally, blame>>
          /\ lockOf' = [l \in Locks |-> IF lockOf[l].owner = h THEN [lockOf[l] EXCEPT !.owner = Nobody] ELSE lockOf[l]]
        BY <1>13, Zenon DEF StoreCrashes
    <2>2. lockOf' \in [Locks -> LockFiles]
        BY <2>1 DEF LockFiles
    <2>3. storeFaults' \in 0..MaxStoreFaults
        BY <2>1
    <2>4. writer' \in [Hosts -> Writers] /\ Writers' = Writers /\ Locks' = Locks
        BY <1>d, <2>1 DEF Rests, Writers, Locks
    <2>5. \A g \in Hosts : writer'[g].mine # NoLock <=> writer'[g].pc \in Cycling
        BY <1>d, <2>1 DEF Rests
    <2> QED
        BY <2>1, <2>2, <2>3, <2>4, <2>5, Zenon DEF StoreTypeOK, LockFiles, tally
<1>14. CASE LockAges
    <2>1. /\ lockOf' = [lockOf EXCEPT ![lockFile].old = TRUE]
          /\ UNCHANGED <<file, lockFile, nextLock, writer, tally, blame>>
        BY <1>14, Zenon DEF LockAges
    <2>2. lockOf' \in [Locks -> LockFiles]
        BY <2>1 DEF LockFiles
    <2>3. storeFaults' = storeFaults \/ (storeFaults' = storeFaults + 1 /\ storeFaults < MaxStoreFaults)
        BY <1>14, Zenon DEF LockAges
    <2>4. storeFaults' \in 0..MaxStoreFaults
        BY <2>3
    <2>5. Writers' = Writers /\ Locks' = Locks
        BY <2>1, Zenon DEF Writers, Locks
    <2> QED
        BY <2>1, <2>2, <2>4, <2>5, Zenon DEF StoreTypeOK, LockFiles, tally
<1> QED
    BY <1>4, <1>5, <1>6, <1>7, <1>8, <1>9, <1>10, <1>11, <1>12, <1>13, <1>14 DEF StoreNext, StoreSteps

-----------------------------------------------------------------------------
(* Order *)

\* The type invariant with the records of the processes taken apart.
LEMMA StoreTypesUnfold ==
    ASSUME StoreInv
    PROVE  /\ writer \in [Hosts -> Writers] /\ nextLock \in Nat \ {0} /\ lockFile \in 0..nextLock - 1
           /\ \A h \in Hosts : /\ writer[h].mine # NoLock <=> writer[h].pc \in Cycling
                               /\ writer[h] \in Writers /\ writer[h].mine < nextLock
BY DEF StoreInv, StoreTypeOK, Writers, NoLock

\* A step within the cycle, or on the way to it: change and lock file stay the process's own.
LEMMA WithinCycle ==
    ASSUME StoreInv, NEW h \in Hosts, NEW r, writer' = [writer EXCEPT ![h] = r],
           r.change = writer[h].change, r.mine = writer[h].mine, r.pc # "idle", writer[h].pc # "idle",
           r.pc \in Cycling <=> writer[h].pc \in Cycling,
           writer[h].pc = "release" => r.pc = "release",
           r.pc = "save" => r.copy = file,
           UNCHANGED <<file, lockFile, asked, saved, blame>>
    PROVE  StoreOrder'
<1>1. writer'[h] = r /\ \A g \in Hosts \ {h} : writer'[g] = writer[g]
    BY StoreTypesUnfold
<1>2. ChangesAreOnes'
    BY <1>1 DEF StoreInv, ChangesAreOnes, At
<1>3. SavedIsPast'
    BY <1>1 DEF StoreInv, SavedIsPast, At
<1>4. LocksAreOnes'
    BY <1>1 DEF StoreInv, LocksAreOnes
<1>5. CyclesAreApart' /\ ChangesAreKept'
    BY <1>1 DEF StoreInv, CyclesAreApart, ChangesAreKept, At
<1> QED
    BY <1>2, <1>3, <1>4, <1>5 DEF StoreOrder

\* A step that ends a cycle, well or not.  A lock file that is removed with it was its own, or
\* its maker is to be blamed for.
LEMMA CycleEnds ==
    ASSUME StoreInv, NEW h \in Hosts, Rests(h), UNCHANGED <<file, asked, saved>>,
           blame \subseteq blame', 
           \/ UNCHANGED lockFile
           \/ blame' = {} => writer[h].mine # NoLock /\ writer[h].mine = lockFile
    PROVE  StoreOrder'
<1>1. /\ writer'[h] = Idle /\ \A g \in Hosts \ {h} : writer'[g] = writer[g]
      /\ Idle.pc = "idle" /\ Idle.mine = NoLock /\ Idle.pc \notin Cycling
    BY StoreTypesUnfold DEF Rests, Idle, Cycling
<1>2. ChangesAreOnes'
    BY <1>1 DEF StoreInv, ChangesAreOnes, At
<1>3. SavedIsPast'
    BY <1>1 DEF StoreInv, SavedIsPast, At
<1>4. LocksAreOnes'
    BY <1>1 DEF StoreInv, LocksAreOnes
<1>5. ChangesAreKept'
    BY <1>1 DEF StoreInv, ChangesAreKept
<1>6. CyclesAreApart'
    <2> SUFFICES ASSUME blame' = {}, NEW g \in Hosts \ {h}
                 PROVE  /\ writer[g].pc \in Cycling => writer[g].mine = lockFile'
                        /\ At(g, "save") => writer[g].copy = file
        BY <1>1 DEF CyclesAreApart, At
    <2>1. blame = {}
        OBVIOUS
    <2>2. At(g, "save") => writer[g].copy = file
        BY <2>1 DEF StoreInv, CyclesAreApart
    <2>3. writer[g].pc \in Cycling => writer[g].mine = lockFile /\ writer[g].mine # NoLock
        BY <2>1, StoreTypesUnfold DEF StoreInv, CyclesAreApart
    <2>4. writer[h].mine # NoLock /\ writer[h].mine = lockFile => writer[g].pc \notin Cycling
        BY <2>3 DEF StoreInv, LocksAreOnes
    <2> QED
        BY <2>2, <2>3, <2>4
<1> QED
    BY <1>2, <1>3, <1>4, <1>5, <1>6 DEF StoreOrder

\* Each step keeps the order of changes, lock files and cycles.
LEMMA StoreOrderKeeps == ASSUME StoreInv, StoreNext PROVE StoreOrder'
<1>1. /\ writer \in [Hosts -> Writers] /\ nextLock \in Nat \ {0} /\ lockFile \in 0..nextLock - 1
      /\ \A h \in Hosts : /\ writer[h].mine # NoLock <=> writer[h].pc \in Cycling
                          /\ writer[h] \in Writers /\ writer[h].mine < nextLock
    BY StoreTypesUnfold
<1>2. ASSUME NEW h \in Hosts, BeginsWrite(h) PROVE StoreOrder'
    <2>1. PICK n \in 0..MaxWrites : asked = 1..n /\ Cardinality(asked) + 1 = n + 1
        BY NextChange
    <2> DEFINE r == [Idle EXCEPT !.pc = "open", !.change = n + 1]
    <2>2. writer[h].pc = "idle" /\ writer' = [writer EXCEPT ![h] = r] /\ asked' = asked \union {n + 1}
          /\ asked # Changes /\ UNCHANGED <<file, lockFile, saved, blame>>
        BY <1>2, <2>1 DEF BeginsWrite, At
    <2>3. r.pc = "open" /\ r.change = n + 1 /\ r.mine = NoLock /\ "open" \notin Cycling
        BY DEF Idle, Cycling
    <2> HIDE DEF r
    <2>4. n < MaxWrites /\ n + 1 \notin asked /\ n + 1 \notin saved /\ asked' = 1..n + 1
        BY <2>1, <2>2, StoreAssumption DEF Changes, StoreInv, StoreTypeOK
    <2>5. writer'[h] = r /\ \A g \in Hosts \ {h} : writer'[g] = writer[g]
        BY <1>1, <2>2
    <2>6. ChangesAreOnes'
        <3>1. n + 1 \in 0..MaxWrites
            BY <2>4, StoreAssumption
        <3> QED
            BY <2>2, <2>3, <2>4, <2>5, <3>1 DEF StoreInv, ChangesAreOnes, At
    <2>7. SavedIsPast' /\ LocksAreOnes'
        BY <2>2, <2>3, <2>4, <2>5 DEF StoreInv, SavedIsPast, LocksAreOnes, At
    <2>8. CyclesAreApart' /\ ChangesAreKept'
        BY <2>2, <2>3, <2>5 DEF StoreInv, CyclesAreApart, ChangesAreKept, At
    <2> QED
        BY <2>6, <2>7, <2>8 DEF StoreOrder
<1>3. ASSUME NEW h \in Hosts, Creates(h) PROVE StoreOrder'
    <2> DEFINE r == [writer[h] EXCEPT !.pc = "sign", !.mine = nextLock]
    <2>1. /\ writer[h].pc = "open" /\ lockFile = NoLock /\ lockFile' = nextLock
          /\ writer' = [writer EXCEPT ![h] = r] /\ UNCHANGED <<file, asked, saved, blame>>
        BY <1>3 DEF Creates, At, Free, tally
    <2>2. r.pc = "sign" /\ r.mine = nextLock /\ r.change = writer[h].change
        BY <1>1 DEF Writers
    <2> HIDE DEF r
    <2>3. writer'[h] = r /\ \A g \in Hosts \ {h} : writer'[g] = writer[g]
        BY <1>1, <2>1
    <2>4. \A g \in Hosts : writer[g].mine # nextLock
        BY <1>1
    <2>5. ChangesAreOnes' /\ SavedIsPast' /\ LocksAreOnes'
        BY <2>1, <2>2, <2>3, <2>4 DEF StoreInv, ChangesAreOnes, SavedIsPast, LocksAreOnes, At
    <2>6. blame = {} => \A g \in Hosts : writer[g].pc \notin Cycling
        BY <1>1, <2>1 DEF StoreInv, CyclesAreApart
    <2>7. CyclesAreApart' /\ ChangesAreKept'
        BY <2>1, <2>2, <2>3, <2>6 DEF StoreInv, CyclesAreApart, ChangesAreKept, At, Cycling
    <2> QED
        BY <2>5, <2>7 DEF StoreOrder
<1>4. ASSUME NEW h \in Hosts, Signs(h) PROVE StoreOrder'
    <2> DEFINE r == [writer[h] EXCEPT !.pc = "load"]
    <2>1. /\ writer[h].pc = "sign" /\ writer' = [writer EXCEPT ![h] = r]
          /\ UNCHANGED <<file, lockFile, asked, saved, blame>>
        BY <1>4 DEF Signs, At, Moves, tally
    <2>2. r.pc = "load" /\ r.mine = writer[h].mine /\ r.change = writer[h].change
        BY <1>1 DEF Writers
    <2> HIDE DEF r
    <2> QED
        BY <2>1, <2>2, WithinCycle DEF Cycling
<1>5. ASSUME NEW h \in Hosts, FindsLocked(h) PROVE StoreOrder'
    <2> DEFINE r == [writer[h] EXCEPT !.pc = "stat"]
    <2>1. /\ writer[h].pc = "open" /\ writer' = [writer EXCEPT ![h] = r]
          /\ UNCHANGED <<file, lockFile, asked, saved, blame>>
        BY <1>5 DEF FindsLocked, At, Moves, tally
    <2>2. r.pc = "stat" /\ r.mine = writer[h].mine /\ r.change = writer[h].change
        BY <1>1 DEF Writers
    <2> HIDE DEF r
    <2> QED
        BY <2>1, <2>2, WithinCycle DEF Cycling
<1>6. ASSUME NEW h \in Hosts, Stats(h) PROVE StoreOrder'
    <2> DEFINE stale == lockFile = NoLock \/ lockOf[lockFile].old
               r == [writer[h] EXCEPT !.saw = lockFile, !.pc = IF stale THEN "remove" ELSE "probe"]
    <2>1. /\ writer[h].pc = "stat" /\ writer' = [writer EXCEPT ![h] = r]
          /\ UNCHANGED <<file, lockFile, asked, saved, blame>>
        BY <1>6 DEF Stats, At, tally
    <2> HIDE DEF stale
    <2>2. r.pc \in {"remove", "probe"} /\ r.mine = writer[h].mine /\ r.change = writer[h].change
        BY <1>1 DEF Writers
    <2> HIDE DEF r
    <2> QED
        BY <2>1, <2>2, WithinCycle DEF Cycling
<1>7. ASSUME NEW h \in Hosts, LoadsState(h) PROVE StoreOrder'
    <2> DEFINE r == [writer[h] EXCEPT !.pc = "save", !.copy = file]
    <2>1. /\ writer[h].pc = "load" /\ writer' = [writer EXCEPT ![h] = r]
          /\ UNCHANGED <<file, lockFile, asked, saved, blame>>
        BY <1>7 DEF LoadsState, At, tally
    <2>2. r.pc = "save" /\ r.copy = file /\ r.mine = writer[h].mine /\ r.change = writer[h].change
        BY <1>1 DEF Writers
    <2> HIDE DEF r
    <2> QED
        BY <2>1, <2>2, WithinCycle DEF Cycling
<1>8. ASSUME NEW h \in Hosts, SavesState(h) PROVE StoreOrder'
    <2> DEFINE r == [writer[h] EXCEPT !.pc = "release"]
    <2>1. /\ writer[h].pc = "save" /\ writer' = [writer EXCEPT ![h] = r]
          /\ file' = writer[h].copy \union {writer[h].change} /\ saved' = saved \union {writer[h].change}
          /\ UNCHANGED <<lockFile, asked, blame>>
        BY <1>8 DEF SavesState, At, Moves
    <2>2. r.pc = "release" /\ r.mine = writer[h].mine /\ r.change = writer[h].change
        BY <1>1 DEF Writers
    <2> HIDE DEF r
    <2>3. writer'[h] = r /\ \A g \in Hosts \ {h} : writer'[g] = writer[g]
        BY <1>1, <2>1
    <2>4. ChangesAreOnes' /\ LocksAreOnes'
        BY <2>1, <2>2, <2>3 DEF StoreInv, ChangesAreOnes, LocksAreOnes, At
    <2>5. SavedIsPast'
        BY <2>1, <2>2, <2>3 DEF StoreInv, SavedIsPast, ChangesAreOnes, At
    <2>6. blame = {} => /\ writer[h].copy = file
                        /\ \A g \in Hosts \ {h} : writer[g].pc \notin Cycling
        <3> SUFFICES ASSUME blame = {}, NEW g \in Hosts \ {h}, writer[g].pc \in Cycling PROVE FALSE
            BY <2>1 DEF StoreInv, CyclesAreApart, At
        <3>1. writer[g].mine = lockFile /\ writer[g].mine # NoLock
            BY <1>1 DEF StoreInv, CyclesAreApart
        <3>2. writer[h].mine = lockFile
            BY <2>1 DEF StoreInv, CyclesAreApart, Cycling
        <3> QED
            BY <3>1, <3>2 DEF StoreInv, LocksAreOnes
    <2>7. CyclesAreApart' /\ ChangesAreKept'
        BY <2>1, <2>2, <2>3, <2>6 DEF StoreInv, CyclesAreApart, ChangesAreKept, At, Cycling
    <2> QED
        BY <2>4, <2>5, <2>7 DEF StoreOrder
<1>9. ASSUME NEW h \in Hosts, Probes(h) PROVE StoreOrder'
    <2>1. writer[h].pc = "probe" /\ UNCHANGED <<file, lockFile, asked, saved, blame>>
        BY <1>9 DEF Probes, At
    <2>2. CASE writer' = [writer EXCEPT ![h] = [writer[h] EXCEPT !.pc = "remove", !.saw = lockFile]]
        <3> DEFINE r == [writer[h] EXCEPT !.pc = "remove", !.saw = lockFile]
        <3>1. r.pc = "remove" /\ r.mine = writer[h].mine /\ r.change = writer[h].change
            BY <1>1 DEF Writers
        <3>2. writer' = [writer EXCEPT ![h] = r]
            BY <2>2
        <3> HIDE DEF r
        <3> QED
            BY <2>1, <3>1, <3>2, WithinCycle DEF Cycling
    <2>3. CASE Retries(h, writer[h].saw)
        <3> DEFINE tries == IF writer[h].tries + 1 <= LockAttempts THEN writer[h].tries + 1 ELSE LockAttempts
                   r == [writer[h] EXCEPT !.pc = "open", !.saw = writer[h].saw, !.tries = tries]
        <3>1. writer' = [writer EXCEPT ![h] = r]
            BY <2>3 DEF Retries
        <3> HIDE DEF tries
        <3>2. r.pc = "open" /\ r.mine = writer[h].mine /\ r.change = writer[h].change
            BY <1>1 DEF Writers
        <3> HIDE DEF r
        <3> QED
            BY <2>1, <3>1, <3>2, WithinCycle DEF Cycling
    <2>4. CASE Rests(h)
        BY <2>1, <2>4, CycleEnds
    <2> QED
        BY <1>9, <2>2, <2>3, <2>4, Zenon DEF Probes
<1>10. ASSUME NEW h \in Hosts, RemovesLock(h) PROVE StoreOrder'
    <2> DEFINE tries == IF writer[h].tries + 1 <= LockAttempts THEN writer[h].tries + 1 ELSE LockAttempts
               r == [writer[h] EXCEPT !.pc = "open", !.saw = NoLock, !.tries = tries]
    <2>1. /\ writer[h].pc = "remove" /\ lockFile' = NoLock /\ UNCHANGED <<file, asked, saved>>
        BY <1>10 DEF RemovesLock, At, tally
    <2>2. writer' = [writer EXCEPT ![h] = r]
        BY <1>10 DEF RemovesLock, Retries
    <2> HIDE DEF tries
    <2>3. r.pc = "open" /\ r.mine = writer[h].mine /\ r.change = writer[h].change
        BY <1>1 DEF Writers
    <2> HIDE DEF r
    <2>4. writer'[h] = r /\ \A g \in Hosts \ {h} : writer'[g] = writer[g]
        BY <1>1, <2>2
    <2>5. ChangesAreOnes' /\ SavedIsPast' /\ LocksAreOnes'
        BY <2>1, <2>3, <2>4 DEF StoreInv, ChangesAreOnes, SavedIsPast, LocksAreOnes, At
    <2>6. blame \subseteq blame' /\ (blame' = {} => lockFile = NoLock \/ HeldBy(lockFile) = {})
        BY <1>10 DEF RemovesLock
    <2>7. blame' = {} => \A g \in Hosts : writer[g].pc \notin Cycling
        <3> SUFFICES ASSUME blame' = {}, NEW g \in Hosts, writer[g].pc \in Cycling PROVE FALSE
            OBVIOUS
        <3>1. writer[g].mine = lockFile /\ writer[g].mine # NoLock
            BY <1>1, <2>6 DEF StoreInv, CyclesAreApart
        <3> QED
            BY <2>6, <3>1 DEF HeldBy
    <2>8. CyclesAreApart' /\ ChangesAreKept'
        BY <2>1, <2>3, <2>4, <2>6, <2>7 DEF StoreInv, CyclesAreApart, ChangesAreKept, At, Cycling
    <2> QED
        BY <2>5, <2>8 DEF StoreOrder
<1>11. ASSUME NEW h \in Hosts, ReleasesLock(h) PROVE StoreOrder'
    <2>1. /\ writer[h].pc = "release" /\ lockFile' = NoLock /\ Rests(h) /\ UNCHANGED <<file, asked, saved>>
          /\ blame \subseteq blame'
        BY <1>11 DEF ReleasesLock, At, tally
    <2>2. blame = {} => writer[h].mine # NoLock /\ writer[h].mine = lockFile
        BY <1>1, <2>1 DEF StoreInv, CyclesAreApart, Cycling
    <2> QED
        BY <2>1, <2>2, CycleEnds
<1>12. ASSUME NEW h \in Hosts, StoreCrashes(h) PROVE StoreOrder'
    <2>1. Rests(h) /\ UNCHANGED <<file, lockFile, asked, saved, blame>>
        BY <1>12, Zenon DEF StoreCrashes, tally
    <2> QED
        BY <2>1, CycleEnds
<1>13. CASE LockAges
    <2>1. UNCHANGED <<file, lockFile, writer, asked, saved, blame>>
        BY <1>13, Zenon DEF LockAges, tally
    <2> QED
        BY <2>1 DEF StoreInv, StoreOrder, ChangesAreOnes, SavedIsPast, LocksAreOnes, CyclesAreApart,
                    ChangesAreKept, At
<1> QED
    BY <1>2, <1>3, <1>4, <1>5, <1>6, <1>7, <1>8, <1>9, <1>10, <1>11, <1>12, <1>13 DEF StoreNext, StoreSteps

LEMMA StoreInvHolds == StoreSpec => []StoreInv
<1>1. StoreInv /\ StoreNext => StoreInv'
    BY StoreTypesKeep, StoreOrderKeeps DEF StoreInv, StoreOrder
<1>2. StoreInv /\ UNCHANGED storeVars => StoreInv'
    BY DEF storeVars, StoreInv, StoreTypeOK, ChangesAreOnes, SavedIsPast, LocksAreOnes, CyclesAreApart,
           ChangesAreKept, At, Writers, Locks
<1> QED
    BY <1>1, <1>2, StoreInvInit, PTL DEF StoreSpec

\* Files, lock files and the records of the processes are of their kinds.
THEOREM StoreTypes == StoreSpec => []StoreTypeOK
<1>1. StoreInv => StoreTypeOK
    BY DEF StoreInv
<1> QED
    BY <1>1, StoreInvHolds, PTL

\* For any number of processes and changes: a change whose cycle ended well is in the file for
\* good, unless a lock was removed from under a live holder.
THEOREM SavedIsKept == StoreSpec => []ChangesAreKept
<1>1. StoreInv => ChangesAreKept
    BY DEF StoreInv
<1> QED
    BY <1>1, StoreInvHolds, PTL

\* As long as nobody was robbed of a lock, one process at most is in its cycle.
OneCycleAtATime == blame = {} => \A g, h \in Hosts : writer[g].pc \in Cycling /\ writer[h].pc \in Cycling => g = h

\* The lock of state.json excludes: it takes the removal of a live holder's lock to bring two
\* processes into their cycles at once.
THEOREM TheLockExcludes == StoreSpec => []OneCycleAtATime
<1>1. StoreInv => OneCycleAtATime
    <2> SUFFICES ASSUME StoreInv, blame = {}, NEW g \in Hosts, NEW h \in Hosts,
                        writer[g].pc \in Cycling, writer[h].pc \in Cycling
                 PROVE  g = h
        BY DEF OneCycleAtATime
    <2>1. writer[g].mine # NoLock /\ writer[g].mine = writer[h].mine
        BY StoreTypesUnfold DEF StoreInv, CyclesAreApart
    <2> QED
        BY <2>1 DEF StoreInv, LocksAreOnes
<1> QED
    BY <1>1, StoreInvHolds, PTL

-----------------------------------------------------------------------------
(* The atomic store *)

\* The changes under way, when one process goes on with its own, ends it, or takes one.
LEMMA UnderWayStays ==
    ASSUME StoreInv, NEW h \in Hosts, NEW r, writer' = [writer EXCEPT ![h] = r],
           writer[h].pc # "idle", r.pc # "idle", r.change = writer[h].change
    PROVE  UnderWay' = UnderWay
<1>1. writer'[h] = r /\ \A g \in Hosts \ {h} : writer'[g] = writer[g]
    BY StoreTypesUnfold
<1> QED
    BY <1>1 DEF UnderWay, At

\* A change whose process becomes idle is under way no longer.
LEMMA UnderWayEnds ==
    ASSUME StoreInv, NEW h \in Hosts, Rests(h), writer[h].pc # "idle"
    PROVE  writer[h].change \in UnderWay /\ UnderWay' = UnderWay \ {writer[h].change}
<1>1. writer'[h] = Idle /\ Idle.pc = "idle" /\ \A g \in Hosts \ {h} : writer'[g] = writer[g]
    BY StoreTypesUnfold DEF Rests, Idle
<1>2. \A g \in Hosts \ {h} : writer[g].pc # "idle" => writer[g].change # writer[h].change
    BY DEF StoreInv, ChangesAreOnes, At
<1> QED
    BY <1>1, <1>2 DEF UnderWay, At

\* What is under way was asked for.
LEMMA UnderWayIsOfChanges == ASSUME StoreInv PROVE UnderWay \subseteq asked /\ asked \subseteq Changes
BY DEF StoreInv, StoreTypeOK, ChangesAreOnes, UnderWay

\* Between its beginning and its end a cycle stays with its change.
LEMMA CycleGoesOn ==
    ASSUME StoreInv, NEW h \in Hosts,
           \/ Creates(h) \/ Signs(h) \/ FindsLocked(h) \/ Stats(h) \/ LoadsState(h) \/ SavesState(h) \/ RemovesLock(h)
    PROVE  UnderWay' = UnderWay
<1>1. writer[h] \in Writers
    BY StoreTypesUnfold
<1> DEFINE Goes(r) == writer' = [writer EXCEPT ![h] = r] /\ r.pc # "idle" /\ r.change = writer[h].change
<1> SUFFICES writer[h].pc # "idle" /\ \E r : Goes(r)
    BY UnderWayStays
<1>2. writer[h].pc # "idle"
    BY DEF Creates, Signs, FindsLocked, Stats, LoadsState, SavesState, RemovesLock, At
<1>3. CASE Creates(h)
    <2> DEFINE r == [writer[h] EXCEPT !.pc = "sign", !.mine = nextLock]
    <2> Goes(r)
        BY <1>1, <1>3 DEF Creates, Writers
    <2> QED
        BY <1>2
<1>4. CASE Signs(h)
    <2> DEFINE r == [writer[h] EXCEPT !.pc = "load"]
    <2> Goes(r)
        BY <1>1, <1>4 DEF Signs, Moves, Writers
    <2> QED
        BY <1>2
<1>5. CASE FindsLocked(h)
    <2> DEFINE r == [writer[h] EXCEPT !.pc = "stat"]
    <2> Goes(r)
        BY <1>1, <1>5 DEF FindsLocked, Moves, Writers
    <2> QED
        BY <1>2
<1>6. CASE Stats(h)
    <2> DEFINE stale == lockFile = NoLock \/ lockOf[lockFile].old
               r == [writer[h] EXCEPT !.saw = lockFile, !.pc = IF stale THEN "remove" ELSE "probe"]
    <2>1. writer' = [writer EXCEPT ![h] = r]
        BY <1>6 DEF Stats
    <2> HIDE DEF stale
    <2>2. r.pc # "idle" /\ r.change = writer[h].change
        BY <1>1 DEF Writers
    <2> QED
        BY <1>2, <2>1, <2>2
<1>7. CASE LoadsState(h)
    <2> DEFINE r == [writer[h] EXCEPT !.pc = "save", !.copy = file]
    <2> Goes(r)
        BY <1>1, <1>7 DEF LoadsState, Writers
    <2> QED
        BY <1>2
<1>8. CASE SavesState(h)
    <2> DEFINE r == [writer[h] EXCEPT !.pc = "release"]
    <2> Goes(r)
        BY <1>1, <1>8 DEF SavesState, Moves, Writers
    <2> QED
        BY <1>2
<1>9. CASE RemovesLock(h)
    <2> DEFINE tries == IF writer[h].tries + 1 <= LockAttempts THEN writer[h].tries + 1 ELSE LockAttempts
               r == [writer[h] EXCEPT !.pc = "open", !.saw = NoLock, !.tries = tries]
    <2>1. writer' = [writer EXCEPT ![h] = r]
        BY <1>9 DEF RemovesLock, Retries
    <2> HIDE DEF tries
    <2>2. r.pc # "idle" /\ r.change = writer[h].change
        BY <1>1 DEF Writers
    <2> QED
        BY <1>2, <2>1, <2>2
<1> QED
    BY <1>3, <1>4, <1>5, <1>6, <1>7, <1>8, <1>9

\* Each step is a step of the atomic store, or none.
LEMMA StoreStepIsAtomic ==
    ASSUME StoreInv, StoreNext
    PROVE  Atomic!AtomicNext \/ UNCHANGED Atomic!atomicVars
<1>1. /\ writer \in [Hosts -> Writers] /\ \A h \in Hosts : writer[h] \in Writers
    BY StoreTypesUnfold
<1>2. UnderWay \subseteq Changes
    BY UnderWayIsOfChanges
<1>3. ASSUME NEW h \in Hosts, BeginsWrite(h) PROVE \E c \in Changes : Atomic!Begins(c)
    <2>1. PICK n \in 0..MaxWrites : asked = 1..n /\ Cardinality(asked) + 1 = n + 1
        BY NextChange
    <2> DEFINE r == [Idle EXCEPT !.pc = "open", !.change = n + 1]
    <2>2. writer[h].pc = "idle" /\ writer' = [writer EXCEPT ![h] = r]
          /\ asked # Changes /\ UNCHANGED <<file, saved, blame>>
        BY <1>3, <2>1 DEF BeginsWrite, At
    <2>3. r.pc = "open" /\ r.change = n + 1
        BY DEF Idle
    <2> HIDE DEF r
    <2>4. n + 1 \in Changes /\ n + 1 \notin asked
        BY <2>1, <2>2, StoreAssumption DEF Changes
    <2>5. n + 1 \notin UnderWay /\ n + 1 \notin saved
        BY <2>4, UnderWayIsOfChanges DEF StoreInv, StoreTypeOK
    <2>6. writer'[h] = r /\ \A g \in Hosts \ {h} : writer'[g] = writer[g]
        BY <1>1, <2>2
    <2>7. UnderWay' = UnderWay \union {n + 1}
        BY <2>2, <2>3, <2>6 DEF UnderWay, At
    <2> QED
        BY <2>2, <2>4, <2>5, <2>7 DEF Atomic!Begins
<1>4. ASSUME NEW h \in Hosts, Creates(h) \/ Signs(h) \/ FindsLocked(h) \/ Stats(h) \/ LoadsState(h)
      PROVE  UNCHANGED Atomic!atomicVars
    <2>1. UNCHANGED <<file, saved, blame>>
        BY <1>4, Zenon DEF Creates, Signs, FindsLocked, Stats, LoadsState, tally
    <2> QED
        BY <1>4, <2>1, CycleGoesOn DEF Atomic!atomicVars
<1>5. ASSUME NEW h \in Hosts, SavesState(h)
      PROVE  \E c \in Changes : Atomic!Commits(c) \/ Atomic!Overwrites(c)
    <2> DEFINE c == writer[h].change
    <2>1. /\ writer[h].pc = "save" /\ file' = writer[h].copy \union {c} /\ saved' = saved \union {c}
          /\ UNCHANGED blame
        BY <1>5 DEF SavesState, At
    <2>2. c \in UnderWay /\ c \notin saved /\ c \in Changes
        BY <1>2, <2>1 DEF UnderWay, At, StoreInv, SavedIsPast
    <2>3. UnderWay' = UnderWay
        BY <1>5, CycleGoesOn
    <2>4. writer[h].copy \in SUBSET Changes
        BY <1>1 DEF Writers
    <2>5. CASE blame = {}
        <3>1. writer[h].copy = file
            BY <2>1, <2>5 DEF StoreInv, CyclesAreApart, At
        <3>2. Atomic!Commits(c)
            BY <2>1, <2>2, <2>3, <2>5, <3>1 DEF Atomic!Commits
        <3> QED
            BY <2>2, <3>2
    <2>6. CASE blame # {}
        <3>1. Atomic!Overwrites(c)
            BY <2>1, <2>2, <2>3, <2>4, <2>6 DEF Atomic!Overwrites
        <3> QED
            BY <2>2, <3>1
    <2> QED
        BY <2>5, <2>6
\* An answer, or an end: the removal of a lock may come with it.
<1>6. ASSUME NEW h \in Hosts, Rests(h), writer[h].pc # "idle", UNCHANGED <<file, saved>>, blame \subseteq blame'
      PROVE  \E c \in Changes : Atomic!Ends(c)
    <2>1. writer[h].change \in UnderWay /\ UnderWay' = UnderWay \ {writer[h].change}
        BY <1>6, UnderWayEnds
    <2>2. (blame' = {}) \in {blame = {}, FALSE}
        BY <1>6
    <2>3. Atomic!Ends(writer[h].change)
        BY <1>6, <2>1, <2>2 DEF Atomic!Ends
    <2> QED
        BY <1>2, <2>1, <2>3
<1>7. ASSUME NEW h \in Hosts, Probes(h)
      PROVE  Atomic!AtomicNext \/ UNCHANGED Atomic!atomicVars
    <2>1. writer[h].pc = "probe" /\ UNCHANGED <<file, saved, blame>>
        BY <1>7 DEF Probes, At
    <2>2. CASE Rests(h)
        BY <1>6, <2>1, <2>2 DEF Atomic!AtomicNext
    <2>3. CASE writer' = [writer EXCEPT ![h] = [writer[h] EXCEPT !.pc = "remove", !.saw = lockFile]]
        <3> DEFINE r == [writer[h] EXCEPT !.pc = "remove", !.saw = lockFile]
        <3>1. r.pc # "idle" /\ r.change = writer[h].change
            BY <1>1 DEF Writers
        <3>2. writer' = [writer EXCEPT ![h] = r]
            BY <2>3
        <3> HIDE DEF r
        <3> QED
            BY <2>1, <3>1, <3>2, UnderWayStays DEF Atomic!atomicVars
    <2>4. CASE Retries(h, writer[h].saw)
        <3> DEFINE tries == IF writer[h].tries + 1 <= LockAttempts THEN writer[h].tries + 1 ELSE LockAttempts
                   r == [writer[h] EXCEPT !.pc = "open", !.saw = writer[h].saw, !.tries = tries]
        <3>1. writer' = [writer EXCEPT ![h] = r]
            BY <2>4 DEF Retries
        <3> HIDE DEF tries
        <3>2. r.pc # "idle" /\ r.change = writer[h].change
            BY <1>1 DEF Writers
        <3> HIDE DEF r
        <3> QED
            BY <2>1, <3>1, <3>2, UnderWayStays DEF Atomic!atomicVars
    <2> QED
        BY <1>7, <2>2, <2>3, <2>4, Zenon DEF Probes
<1>8. ASSUME NEW h \in Hosts, RemovesLock(h)
      PROVE  Atomic!AtomicNext \/ UNCHANGED Atomic!atomicVars
    <2>1. UNCHANGED <<file, saved>> /\ blame \subseteq blame'
        BY <1>8 DEF RemovesLock, tally
    <2>2. UnderWay' = UnderWay
        BY <1>8, CycleGoesOn
    <2>3. CASE blame' = blame
        BY <2>1, <2>2, <2>3 DEF Atomic!atomicVars
    <2>4. CASE blame' # blame /\ blame = {}
        BY <2>1, <2>2, <2>4 DEF Atomic!LosesLock, Atomic!AtomicNext
    <2>5. CASE blame # {}
        BY <2>1, <2>2, <2>5 DEF Atomic!atomicVars
    <2> QED
        BY <2>3, <2>4, <2>5
<1>9. ASSUME NEW h \in Hosts, ReleasesLock(h) \/ StoreCrashes(h)
      PROVE  Atomic!AtomicNext
    <2>1. writer[h].pc # "idle" /\ Rests(h) /\ UNCHANGED <<file, saved>> /\ blame \subseteq blame'
        BY <1>9 DEF ReleasesLock, StoreCrashes, At, tally
    <2> QED
        BY <1>6, <2>1 DEF Atomic!AtomicNext
<1>10. CASE LockAges
    BY <1>10 DEF LockAges, Atomic!atomicVars, tally, UnderWay, At
<1> QED
    BY <1>3, <1>4, <1>5, <1>7, <1>8, <1>9, <1>10 DEF StoreNext, StoreSteps, Atomic!AtomicNext

\* state.json is the atomic store its callers take it for: its first state is one, and each step of
\* any process is one of the store, or none.
THEOREM StoreIsAtomicStepByStep == StoreSpec => Atomic!AtomicInit /\ [][Atomic!AtomicNext]_Atomic!atomicVars
<1>1. StoreInit => Atomic!AtomicInit
    BY DEF StoreInit, Atomic!AtomicInit, UnderWay, At, Idle
<1>2. StoreInv /\ [StoreNext]_storeVars => [Atomic!AtomicNext]_Atomic!atomicVars
    <2>1. UNCHANGED storeVars => UNCHANGED Atomic!atomicVars
        BY DEF storeVars, Atomic!atomicVars, UnderWay, At
    <2> QED
        BY <2>1, StoreStepIsAtomic
<1> QED
    BY <1>1, <1>2, StoreInvHolds, PTL DEF StoreSpec

-----------------------------------------------------------------------------
(* One daemon.                                                             *)

\* The daemons that hold the start lock, or watch.  Until it drops it the lock is a daemon's own,
\* unless it was removed; and of two of them at most one came by the lock with nothing amiss and
\* has kept it.
Holders == {"sign", "boot", "watch", "drop"}
Claims(d) == proc[d] \in Holders \union {"run"}
OneClaims ==
  /\ \A d \in Daemons : proc[d] \in Holders => startLock = d \/ "lock removed" \in slips[d]
  /\ \A d, e \in Daemons : Claims(d) /\ Claims(e) /\ d # e => slips[d] \union slips[e] # {}
\* A plugin that has been registered once holds a daemon ever after.
ClientsHold == \A p \in Plugins : client[p].pc \in {"register", "beat"} \/ ~client[p].first
                                     => client[p].daemon # None0
LifeInv == LifeTypeOK /\ OneClaims /\ ClientsHold

\* The type invariant with the records of the plugins taken apart.
LEMMA LifeTypesUnfold ==
    LifeTypeOK <=>
      /\ daemonInfo \in 0..MaxDaemons /\ startLock \in 0..MaxDaemons /\ signed \in BOOLEAN
      /\ proc \in [Daemons -> Steps] /\ port \in [Daemons -> Daemons]
      /\ registry \in [Daemons -> SUBSET Plugins]
      /\ \A d \in Daemons : registry[d] # {} => proc[d] \in {"watch", "drop", "run"}
      /\ client \in [Plugins -> Clients]
      /\ \A p \in Plugins : client[p].pc = "beat" => client[p].daemon # None0
      /\ slips \in [Daemons -> SUBSET Slips] /\ lifeFaults \in 0..MaxLifeFaults
BY DEF LifeTypeOK, Serving

LEMMA LifeInvInit == LifeInit => LifeInv
<1> SUFFICES ASSUME LifeInit PROVE LifeInv
    OBVIOUS
<1>1. /\ daemonInfo \in 0..MaxDaemons /\ startLock \in 0..MaxDaemons /\ lifeFaults \in 0..MaxLifeFaults
      /\ signed \in BOOLEAN /\ slips \in [Daemons -> SUBSET Slips]
    <2>1. daemonInfo = 0 /\ startLock = 0 /\ lifeFaults = 0
        BY Zenon DEF LifeInit, None0
    <2>2. signed \in BOOLEAN
        BY Zenon DEF LifeInit
    <2>3. slips \in [Daemons -> SUBSET Slips]
        BY DEF LifeInit
    <2> QED
        BY <2>1, <2>2, <2>3, LifeAssumption
<1>2. /\ proc \in [Daemons -> Steps] /\ port \in [Daemons -> Daemons]
      /\ registry \in [Daemons -> SUBSET Plugins]
      /\ \A d \in Daemons : proc[d] = "unborn" /\ registry[d] = {}
    BY DEF LifeInit, Steps
<1>3. [pc |-> "off", daemon |-> None0, first |-> TRUE] \in Clients
    BY LifeAssumption DEF Clients, None0
<1>4. client \in [Plugins -> Clients] /\ \A p \in Plugins : client[p].pc = "off" /\ client[p].first
    BY <1>3 DEF LifeInit
<1> QED
    BY <1>1, <1>2, <1>4, LifeTypesUnfold DEF LifeInv, OneClaims, Claims, Holders, ClientsHold

\* The daemon a look finds is one that serves.
LEMMA FoundServes ==
    ASSUME LifeTypeOK
    PROVE  FoundDaemon \in 0..MaxDaemons /\ (FoundDaemon # None0 => FoundDaemon \in Serving)
<1>1. daemonInfo \in 0..MaxDaemons
    BY LifeTypesUnfold
<1>2. 0 \in 0..MaxDaemons
    BY LifeAssumption
<1> QED
    BY <1>1, <1>2, Zenon DEF FoundDaemon, None0

\* A mishap is counted within its bound.
LEMMA FaultsStay == LifeTypeOK /\ Fault1 => lifeFaults' \in 0..MaxLifeFaults
<1> SUFFICES ASSUME LifeTypeOK, Fault1 PROVE lifeFaults' \in 0..MaxLifeFaults
    OBVIOUS
<1>1. lifeFaults \in 0..MaxLifeFaults
    BY LifeTypesUnfold
<1>2. lifeFaults < MaxLifeFaults /\ lifeFaults' = lifeFaults + 1
    BY DEF Fault1
<1> QED
    BY <1>1, <1>2, LifeAssumption

\* What is asked, and what the answer is.
LEMMA AskedWithinBounds ==
    ASSUME LifeTypeOK, NEW found, Asks(found)
    PROVE  lifeFaults' \in 0..MaxLifeFaults /\ found \in {FoundDaemon, None0}
<1>1. lifeFaults \in 0..MaxLifeFaults
    BY LifeTypesUnfold
<1> QED
    BY <1>1, FaultsStay, Zenon DEF Asks

\* A step of a daemon that claims nothing new, and leaves the lock alone.  What it notes of a look
\* is noted while it claims nothing.
LEMMA ClaimsStay ==
    ASSUME LifeInv, NEW d \in Daemons, NEW pc, proc' = [proc EXCEPT ![d] = pc],
           startLock' = startLock,
           slips' = slips \/ pc \notin Holders \union {"run"},
           \A e \in Daemons : e # d => slips'[e] = slips[e],
           \/ pc \notin Holders \union {"run"}
           \/ proc[d] \in Holders
    PROVE  OneClaims'
<1>1. proc \in [Daemons -> Steps]
    BY LifeTypesUnfold DEF LifeInv
<1>2. \A e \in Daemons : Claims(e)' => Claims(e) /\ slips'[e] = slips[e]
    BY <1>1 DEF Claims
<1>3. \A e \in Daemons : proc'[e] \in Holders => proc[e] \in Holders /\ slips'[e] = slips[e]
    BY <1>1
<1> QED
    BY <1>2, <1>3 DEF LifeInv, OneClaims

\* A step that removes the lock file, whoever's it is: its holder is noted, if it lives.
LEMMA ClaimsOutliveTheLock ==
    ASSUME LifeInv, NEW d \in Daemons, NEW pc \in {"open", "gone", "run"}, Becomes(d, pc),
           RemovesLockFile(d), pc = "run" => proc[d] \in Holders
    PROVE  slips' \in [Daemons -> SUBSET Slips] /\ OneClaims'
<1>1. /\ proc \in [Daemons -> Steps] /\ startLock \in 0..MaxDaemons
      /\ slips \in [Daemons -> SUBSET Slips]
    BY LifeTypesUnfold DEF LifeInv
<1>2. Alive(startLock) => startLock \in Daemons
    BY <1>1, LifeAssumption DEF Alive, None0, Daemons
<1>3. slips' \in [Daemons -> SUBSET Slips]
    BY <1>1, <1>2 DEF RemovesLockFile, Slips
<1>4. \A e \in Daemons : slips[e] \subseteq slips'[e]
    BY <1>1, <1>2 DEF RemovesLockFile
<1>5. \A e \in Daemons : /\ Claims(e)' => Claims(e)
                         /\ proc'[e] \in Holders => proc[e] \in Holders /\ e # d
    BY <1>1 DEF Claims, Becomes, Holders
<1>6. \A e \in Daemons : proc[e] \in Holders => Alive(e)
    BY LifeAssumption DEF Alive, Holders, None0, Daemons
<1>7. \A e \in Daemons : proc'[e] \in Holders => "lock removed" \in slips'[e]
    <2> SUFFICES ASSUME NEW e \in Daemons, proc'[e] \in Holders PROVE "lock removed" \in slips'[e]
        OBVIOUS
    <2>1. CASE "lock removed" \in slips[e]
        BY <1>4, <2>1
    <2>2. CASE startLock = e
        BY <1>1, <1>5, <1>6, <2>2 DEF RemovesLockFile
    <2> QED
        BY <1>5, <2>1, <2>2 DEF LifeInv, OneClaims
<1> QED
    BY <1>3, <1>4, <1>5, <1>7 DEF LifeInv, OneClaims

\* Each step of a daemon or a plugin, and each crash, keeps the invariant.
LEMMA LifeStep == ASSUME LifeInv, LifeNext PROVE LifeInv'
<1> DEFINE Q == /\ daemonInfo \in 0..MaxDaemons /\ startLock \in 0..MaxDaemons /\ signed \in BOOLEAN
                /\ proc \in [Daemons -> Steps] /\ port \in [Daemons -> Daemons]
                /\ registry \in [Daemons -> SUBSET Plugins]
                /\ \A d \in Daemons : registry[d] # {} => proc[d] \in {"watch", "drop", "run"}
                /\ client \in [Plugins -> Clients]
                /\ \A p \in Plugins : client[p].pc = "beat" => client[p].daemon # None0
                /\ slips \in [Daemons -> SUBSET Slips]
                /\ lifeFaults \in 0..MaxLifeFaults
<1>1. Q /\ OneClaims /\ ClientsHold
    BY LifeTypesUnfold DEF LifeInv
<1> SUFFICES Q' /\ OneClaims' /\ ClientsHold'
    <2>1. Q <=> LifeTypeOK
        BY LifeTypesUnfold
    <2> HIDE DEF Q
    <2>2. (Q <=> LifeTypeOK)'
        BY LifeTypesUnfold, PTL DEF Q
    <2> QED
        BY <2>2 DEF LifeInv
<1>types. LifeTypeOK
    BY DEF LifeInv
<1>zero. None0 \in 0..MaxDaemons /\ \A d \in Daemons : d \in 0..MaxDaemons /\ d # None0
    BY LifeAssumption DEF None0, Daemons
\* What the clients are told is not touched by the steps of the daemons.
<1>still. ASSUME UNCHANGED client
          PROVE  /\ ClientsHold' /\ client' \in [Plugins -> Clients]
                 /\ \A p \in Plugins : client'[p].pc = "beat" => client'[p].daemon # None0
    BY <1>1, <1>still DEF ClientsHold
<1>2. ASSUME NEW d \in Daemons,
             LooksAround(d) \/ SignsStartLock(d) \/ StatsStartLock(d) \/ JudgesStartLock(d) \/ Waits(d)
             \/ ReadsInfo(d)
      PROVE  Q' /\ OneClaims' /\ ClientsHold'
    <2>1. UNCHANGED <<daemonInfo, startLock, port, registry, client>>
        BY <1>2, Zenon DEF LooksAround, SignsStartLock, StatsStartLock, JudgesStartLock, Waits, ReadsInfo
    <2>2. signed' \in BOOLEAN
        BY <1>1, <1>2 DEF LooksAround, SignsStartLock, StatsStartLock, JudgesStartLock, Waits, ReadsInfo
    <2>3. lifeFaults' \in 0..MaxLifeFaults
        BY <1>1, <1>2, <1>types, FaultsStay, AskedWithinBounds, Zenon
        DEF LooksAround, Looks, SignsStartLock, StatsStartLock, JudgesStartLock, Waits, ReadsInfo
    <2>4. PICK pc : /\ proc' = [proc EXCEPT ![d] = pc]
                    /\ \/ pc \in {"gone", "open", "stat", "remove", "wait", "unlink"}
                       \/ pc = "boot" /\ proc[d] = "sign"
        BY <1>2 DEF LooksAround, SignsStartLock, StatsStartLock, JudgesStartLock, Waits, ReadsInfo, Becomes
    <2>5. proc[d] \notin {"watch", "drop", "run"}
        BY <1>2 DEF LooksAround, SignsStartLock, StatsStartLock, JudgesStartLock, Waits, ReadsInfo
    <2>6. proc' \in [Daemons -> Steps] /\ \A e \in Daemons : e # d => proc'[e] = proc[e]
        BY <1>1, <2>4 DEF Steps
    <2>7. \A e \in Daemons : registry'[e] # {} => proc'[e] \in {"watch", "drop", "run"}
        BY <1>1, <2>1, <2>5, <2>6
    <2>8. \/ slips' = slips
          \/ /\ proc[d] \in {"look", "wait"}
             /\ \E note \in SUBSET Slips : slips' = [slips EXCEPT ![d] = note]
        <3>1. {} \in SUBSET Slips /\ {"slow answer"} \in SUBSET Slips
            BY DEF Slips
        <3>2. ASSUME NEW found, Looks(d, found)
              PROVE  \E note \in SUBSET Slips : slips' = [slips EXCEPT ![d] = note]
            BY <3>1, <3>2, Zenon DEF Looks
        <3> QED
            BY <1>2, <3>2, Zenon DEF LooksAround, SignsStartLock, StatsStartLock, JudgesStartLock, Waits, ReadsInfo
    <2>9. /\ slips' \in [Daemons -> SUBSET Slips]
          /\ \A e \in Daemons : e # d => slips'[e] = slips[e]
        BY <1>1, <2>8
    <2>10. OneClaims'
        BY <2>1, <2>4, <2>8, <2>9, ClaimsStay DEF Holders
    <2> QED
        BY <1>1, <1>still, <2>1, <2>2, <2>3, <2>6, <2>7, <2>9, <2>10
<1>3. ASSUME NEW d \in Daemons, TakesStartLock(d)
      PROVE  Q' /\ OneClaims' /\ ClientsHold'
    <2>1. UNCHANGED <<daemonInfo, port, registry, client, lifeFaults>> /\ startLock' = d /\ signed' = FALSE
        BY <1>3, Zenon DEF TakesStartLock
    <2>2. PICK note \in SUBSET Slips :
             /\ slips' = [slips EXCEPT ![d] = slips[d] \union note]
             /\ slips[d] \union note = {} => Serving = {}
        <3> DEFINE late == IF FoundDaemon # None0 /\ slips[d] = {} THEN {"late look"} ELSE {}
                   more == IF Serving \ {FoundDaemon} # {} THEN {"unnamed"} ELSE {}
        <3>1. late \union more \in SUBSET Slips
            BY DEF Slips
        <3>2. slips' = [slips EXCEPT ![d] = slips[d] \union (late \union more)]
            BY <1>1, <1>3 DEF TakesStartLock
        <3>3. slips[d] \union (late \union more) = {} => Serving = {}
            <4>1. None0 \notin Serving
                BY <1>zero DEF Serving
            <4> QED
                BY <4>1
        <3> QED
            BY <3>1, <3>2, <3>3
    <2>3. proc[d] = "open" /\ startLock = None0 /\ proc' = [proc EXCEPT ![d] = "sign"]
        BY <1>3 DEF TakesStartLock, LockFree, Becomes
    <2>4. proc' \in [Daemons -> Steps] /\ proc'[d] = "sign" /\ \A e \in Daemons : e # d => proc'[e] = proc[e]
        BY <1>1, <2>3 DEF Steps
    <2>5. \A e \in Daemons : registry'[e] # {} => proc'[e] \in {"watch", "drop", "run"}
        BY <1>1, <2>1, <2>3, <2>4
    <2>6. OneClaims'
        <3>1. slips' \in [Daemons -> SUBSET Slips] /\ slips'[d] = slips[d] \union note
              /\ \A e \in Daemons : e # d => slips'[e] = slips[e]
            BY <1>1, <2>2
        <3>2. \A e \in Daemons : proc[e] \in Holders => "lock removed" \in slips[e]
            BY <1>1, <1>zero, <2>3 DEF OneClaims
        <3>3. \A e \in Daemons : proc'[e] \in Holders => startLock' = e \/ "lock removed" \in slips'[e]
            BY <2>1, <2>4, <3>1, <3>2
        <3>4. \A e \in Daemons : Claims(e)' /\ e # d => slips'[d] \union slips'[e] # {}
            <4> SUFFICES ASSUME NEW e \in Daemons, Claims(e)', e # d PROVE slips'[d] \union slips'[e] # {}
                OBVIOUS
            <4>1. Claims(e)
                BY <2>4 DEF Claims
            <4>2. CASE proc[e] \in Holders
                BY <3>1, <3>2, <4>2
            <4>3. CASE proc[e] = "run"
                BY <2>2, <3>1, <4>3 DEF Serving
            <4> QED
                BY <4>1, <4>2, <4>3 DEF Claims
        <3>5. \A e, f \in Daemons : Claims(e)' /\ Claims(f)' /\ e # d /\ f # d /\ e # f
                                    => slips'[e] \union slips'[f] # {}
            <4> SUFFICES ASSUME NEW e \in Daemons, NEW f \in Daemons, Claims(e)', Claims(f)', e # d, f # d, e # f
                         PROVE  slips'[e] \union slips'[f] # {}
                OBVIOUS
            <4>1. Claims(e) /\ Claims(f)
                BY <2>4 DEF Claims
            <4>2. slips'[e] = slips[e] /\ slips'[f] = slips[f]
                BY <3>1
            <4> QED
                BY <1>1, <4>1, <4>2, Zenon DEF OneClaims
        <3> QED
            BY <3>3, <3>4, <3>5 DEF OneClaims
    <2>7. slips' \in [Daemons -> SUBSET Slips]
        BY <1>1, <2>2
    <2> QED
        BY <1>1, <1>zero, <1>still, <2>1, <2>4, <2>5, <2>6, <2>7
<1>4. ASSUME NEW d \in Daemons, RemovesStartLock(d)
      PROVE  Q' /\ OneClaims' /\ ClientsHold'
    <2>1. UNCHANGED <<daemonInfo, signed, port, registry, client, lifeFaults>> /\ startLock' = None0
        BY <1>4, Zenon DEF RemovesStartLock, RemovesLockFile
    <2>2. proc[d] = "remove" /\ proc' = [proc EXCEPT ![d] = "open"]
        BY <1>4 DEF RemovesStartLock, Becomes
    <2>3. proc' \in [Daemons -> Steps] /\ proc'[d] = "open" /\ \A e \in Daemons : e # d => proc'[e] = proc[e]
        BY <1>1, <2>2 DEF Steps
    <2>4. \A e \in Daemons : registry'[e] # {} => proc'[e] \in {"watch", "drop", "run"}
        BY <1>1, <2>1, <2>2, <2>3
    <2>5. slips' \in [Daemons -> SUBSET Slips] /\ OneClaims'
        BY <1>4, ClaimsOutliveTheLock DEF RemovesStartLock
    <2> QED
        BY <1>1, <1>zero, <1>still, <2>1, <2>3, <2>4, <2>5
<1>5. ASSUME NEW d \in Daemons, Boots(d)
      PROVE  Q' /\ OneClaims' /\ ClientsHold'
    <2>1. UNCHANGED <<daemonInfo, startLock, signed, registry, client, slips, lifeFaults>>
        BY <1>5, Zenon DEF Boots
    <2>2. proc[d] = "boot" /\ proc' = [proc EXCEPT ![d] = "watch"]
        BY <1>5 DEF Boots, Becomes
    <2>3. port' \in [Daemons -> Daemons]
        BY <1>1, <1>5 DEF Boots
    <2>4. proc' \in [Daemons -> Steps] /\ proc'[d] = "watch" /\ \A e \in Daemons : e # d => proc'[e] = proc[e]
        BY <1>1, <2>2 DEF Steps
    <2>5. \A e \in Daemons : registry'[e] # {} => proc'[e] \in {"watch", "drop", "run"}
        BY <1>1, <2>1, <2>4
    <2>6. OneClaims'
        BY <2>1, <2>2, ClaimsStay DEF Holders
    <2> QED
        BY <1>1, <1>still, <2>1, <2>3, <2>4, <2>5, <2>6
<1>6. ASSUME NEW d \in Daemons, BootFails(d)
      PROVE  Q' /\ OneClaims' /\ ClientsHold'
    <2>1. UNCHANGED <<daemonInfo, signed, port, registry, client>> /\ startLock' = None0 /\ Fault1
        BY <1>6, Zenon DEF BootFails, RemovesLockFile
    <2>2. proc[d] = "boot" /\ proc' = [proc EXCEPT ![d] = "gone"]
        BY <1>6 DEF BootFails, Becomes
    <2>3. proc' \in [Daemons -> Steps] /\ proc'[d] = "gone" /\ \A e \in Daemons : e # d => proc'[e] = proc[e]
        BY <1>1, <2>2 DEF Steps
    <2>4. \A e \in Daemons : registry'[e] # {} => proc'[e] \in {"watch", "drop", "run"}
        BY <1>1, <2>1, <2>2, <2>3
    <2>5. slips' \in [Daemons -> SUBSET Slips] /\ OneClaims'
        BY <1>6, ClaimsOutliveTheLock DEF BootFails
    <2> QED
        BY <1>1, <1>zero, <1>types, <1>still, FaultsStay, <2>1, <2>3, <2>4, <2>5
<1>7. ASSUME NEW d \in Daemons, Publishes(d)
      PROVE  Q' /\ OneClaims' /\ ClientsHold'
    <2>1. UNCHANGED <<startLock, signed, port, registry, client, slips, lifeFaults>> /\ daemonInfo' = d
        BY <1>7, Zenon DEF Publishes
    <2>2. proc[d] = "watch" /\ proc' = [proc EXCEPT ![d] = "drop"]
        BY <1>7 DEF Publishes, Becomes
    <2>3. proc' \in [Daemons -> Steps] /\ proc'[d] = "drop" /\ \A e \in Daemons : e # d => proc'[e] = proc[e]
        BY <1>1, <2>2 DEF Steps
    <2>4. \A e \in Daemons : registry'[e] # {} => proc'[e] \in {"watch", "drop", "run"}
        BY <1>1, <2>1, <2>3
    <2>5. OneClaims'
        BY <2>1, <2>2, ClaimsStay DEF Holders
    <2> QED
        BY <1>1, <1>zero, <1>still, <2>1, <2>3, <2>4, <2>5
<1>8. ASSUME NEW d \in Daemons, DropsStartLock(d)
      PROVE  Q' /\ OneClaims' /\ ClientsHold'
    <2>1. UNCHANGED <<daemonInfo, signed, port, registry, client, lifeFaults>> /\ startLock' = None0
        BY <1>8, Zenon DEF DropsStartLock, RemovesLockFile
    <2>2. proc[d] = "drop" /\ proc' = [proc EXCEPT ![d] = "run"]
        BY <1>8 DEF DropsStartLock, Becomes
    <2>3. proc' \in [Daemons -> Steps] /\ proc'[d] = "run" /\ \A e \in Daemons : e # d => proc'[e] = proc[e]
        BY <1>1, <2>2 DEF Steps
    <2>4. \A e \in Daemons : registry'[e] # {} => proc'[e] \in {"watch", "drop", "run"}
        BY <1>1, <2>1, <2>3
    <2>5. slips' \in [Daemons -> SUBSET Slips] /\ OneClaims'
        BY <1>8, <2>2, ClaimsOutliveTheLock DEF DropsStartLock, Holders
    <2> QED
        BY <1>1, <1>zero, <1>still, <2>1, <2>3, <2>4, <2>5
<1>9. ASSUME NEW d \in Daemons, IsTold(d) \/ DaemonCrashes(d)
      PROVE  Q' /\ OneClaims' /\ ClientsHold'
    <2>1. UNCHANGED <<daemonInfo, startLock, signed, port, client, slips>> /\ Fault1
        BY <1>9, Zenon DEF IsTold, DaemonCrashes
    <2>2. registry' = [registry EXCEPT ![d] = {}]
        BY <1>9 DEF IsTold, DaemonCrashes, Forgets
    <2>3. PICK pc \in {"close", "gone"} : proc' = [proc EXCEPT ![d] = pc]
        BY <1>9 DEF IsTold, DaemonCrashes, Becomes
    <2>4. proc' \in [Daemons -> Steps] /\ \A e \in Daemons : e # d => proc'[e] = proc[e]
        BY <1>1, <2>3 DEF Steps
    <2>5. registry' \in [Daemons -> SUBSET Plugins]
        BY <1>1, <2>2
    <2>6. \A e \in Daemons : registry'[e] # {} => proc'[e] \in {"watch", "drop", "run"}
        BY <1>1, <2>2, <2>4
    <2>7. OneClaims'
        BY <2>1, <2>3, ClaimsStay DEF Holders
    <2> QED
        BY <1>1, <1>types, <1>still, FaultsStay, <2>1, <2>4, <2>5, <2>6, <2>7
<1>10. ASSUME NEW d \in Daemons, Unlinks(d)
       PROVE  Q' /\ OneClaims' /\ ClientsHold'
    <2>1. UNCHANGED <<startLock, signed, port, registry, client, slips, lifeFaults>> /\ daemonInfo' = None0
        BY <1>10, Zenon DEF Unlinks
    <2>2. proc[d] = "unlink" /\ proc' = [proc EXCEPT ![d] = "gone"]
        BY <1>10 DEF Unlinks, Becomes
    <2>3. proc' \in [Daemons -> Steps] /\ \A e \in Daemons : e # d => proc'[e] = proc[e]
        BY <1>1, <2>2 DEF Steps
    <2>4. \A e \in Daemons : registry'[e] # {} => proc'[e] \in {"watch", "drop", "run"}
        BY <1>1, <2>1, <2>2, <2>3
    <2>5. OneClaims'
        BY <2>1, <2>2, ClaimsStay DEF Holders
    <2> QED
        BY <1>1, <1>zero, <1>still, <2>1, <2>3, <2>4, <2>5
<1>11. ASSUME NEW d \in Daemons, NEW p \in Plugins, Prunes(d, p)
       PROVE  Q' /\ OneClaims' /\ ClientsHold'
    <2>1. UNCHANGED <<daemonInfo, startLock, signed, proc, port, client, slips>>
        BY <1>11, Zenon DEF Prunes
    <2>2. lifeFaults' \in 0..MaxLifeFaults
        BY <1>1, <1>11, <1>types, FaultsStay, Zenon DEF Prunes
    <2>3. registry' = [registry EXCEPT ![d] = registry[d] \ {p}] /\ proc[d] \in {"watch", "drop", "run"}
        BY <1>1, <1>11 DEF Prunes, Serving
    <2>4. registry' \in [Daemons -> SUBSET Plugins]
        BY <1>1, <2>3
    <2>5. \A e \in Daemons : registry'[e] # {} => proc'[e] \in {"watch", "drop", "run"}
        BY <1>1, <2>1, <2>3
    <2>6. OneClaims'
        BY <1>1, <2>1 DEF OneClaims, Claims
    <2> QED
        BY <1>1, <1>still, <2>1, <2>2, <2>4, <2>5, <2>6
\* Nor are the daemons touched by those of a client, but for their registries.
<1>rest. ASSUME UNCHANGED <<proc, startLock, slips>> PROVE OneClaims'
    BY <1>1, <1>rest DEF OneClaims, Claims
<1>12. ASSUME NEW p \in Plugins, PluginStarts(p) \/ PluginStops(p) \/ Sees(p) \/ TimesOut(p)
                              \/ Beats(p) \/ BeatTimesOut(p)
       PROVE  Q' /\ OneClaims' /\ ClientsHold'
    <2>1. UNCHANGED <<daemonInfo, startLock, signed, proc, port, registry, slips>>
        BY <1>12, Zenon DEF PluginStarts, PluginStops, Sees, TimesOut, Beats, BeatTimesOut
    <2>2. lifeFaults' \in 0..MaxLifeFaults
        BY <1>1, <1>12, <1>types, FaultsStay, AskedWithinBounds, Zenon
        DEF PluginStarts, PluginStops, Sees, TimesOut, Beats, BeatTimesOut
    <2>3. PICK c \in Clients : /\ client' = [client EXCEPT ![p] = c]
                               /\ c.pc \in {"register", "beat"} \/ ~c.first => c.daemon # None0
        <3> DEFINE old == client[p]
                   to(pc) == [old EXCEPT !.pc = pc]
        <3>1. /\ old \in Clients
              /\ old.pc \in {"register", "beat"} \/ ~old.first => old.daemon # None0
            BY <1>1 DEF ClientsHold
        <3>2. CASE PluginStarts(p)
            <4> DEFINE c == [pc |-> "find", daemon |-> None0, first |-> TRUE]
            <4>1. c \in Clients
                BY <1>zero DEF Clients
            <4> QED
                BY <3>2, <4>1 DEF PluginStarts
        <3>3. CASE PluginStops(p)
            <4>1. /\ to("off") \in Clients /\ to("off").pc = "off"
                  /\ to("off").first = old.first /\ to("off").daemon = old.daemon
                BY <3>1 DEF Clients
            <4>2. client' = [client EXCEPT ![p] = to("off")]
                BY <1>1, <3>3 DEF PluginStops, GoesTo
            <4> HIDE DEF old
            <4> QED
                BY <3>1, <4>1, <4>2
        <3>4. CASE Sees(p)
            <4> DEFINE c == [old EXCEPT !.pc = "register", !.daemon = FoundDaemon]
            <4>1. c \in Clients /\ c.pc = "register" /\ c.daemon # None0
                BY <1>types, <3>1, <3>4, FoundServes DEF Clients, Sees
            <4>2. client' = [client EXCEPT ![p] = c]
                BY <1>1, <3>4 DEF Sees, Holds
            <4> QED
                BY <4>1, <4>2
        <3>5. CASE TimesOut(p)
            <4> DEFINE pc == IF old.first THEN "self" ELSE "beat"
            <4>1. /\ to(pc) \in Clients /\ to(pc).pc = pc
                  /\ to(pc).first = old.first /\ to(pc).daemon = old.daemon
                BY <3>1 DEF Clients
            <4>2. client' = [client EXCEPT ![p] = to(pc)]
                BY <1>1, <3>5 DEF TimesOut, GoesTo
            <4>3. pc \in {"register", "beat"} \/ ~old.first => ~old.first
                OBVIOUS
            <4> HIDE DEF old, pc
            <4> QED
                BY <3>1, <4>1, <4>2, <4>3
        <3>6. CASE Beats(p) \/ BeatTimesOut(p)
            <4>1. PICK pc \in {"register", "find"} : client' = [client EXCEPT ![p] = to(pc)]
                BY <1>1, <3>6 DEF Beats, BeatTimesOut, GoesTo
            <4>2. /\ to(pc) \in Clients
                  /\ to(pc).first = old.first /\ to(pc).daemon = old.daemon
                BY <3>1 DEF Clients
            <4>3. old.daemon # None0
                BY <3>1, <3>6 DEF Beats, BeatTimesOut
            <4> HIDE DEF old
            <4> QED
                BY <4>1, <4>2, <4>3
        <3> QED
            BY <1>12, <3>2, <3>3, <3>4, <3>5, <3>6
    <2>4. /\ client' \in [Plugins -> Clients] /\ ClientsHold'
          /\ \A q \in Plugins : client'[q].pc = "beat" => client'[q].daemon # None0
        BY <1>1, <2>3 DEF ClientsHold
    <2> QED
        BY <1>1, <1>rest, <2>1, <2>2, <2>4
<1>13. ASSUME NEW p \in Plugins, Finds(p)
       PROVE  Q' /\ OneClaims' /\ ClientsHold'
    <2>1. UNCHANGED <<daemonInfo, startLock, signed, port, registry, slips>> /\ lifeFaults' \in 0..MaxLifeFaults
        BY <1>1, <1>13, <1>types, AskedWithinBounds, Zenon DEF Finds
    <2> DEFINE old == client[p]
    <2>2. old \in Clients /\ (~old.first => old.daemon # None0)
        BY <1>1 DEF ClientsHold
    <2>3. CASE FoundDaemon # None0 /\ Holds(p, FoundDaemon) /\ UNCHANGED proc
        <3> DEFINE c == [old EXCEPT !.pc = "register", !.daemon = FoundDaemon]
        <3>1. c \in Clients /\ c.daemon # None0
            BY <1>types, <2>2, <2>3, FoundServes DEF Clients
        <3>2. client' = [client EXCEPT ![p] = c] /\ UNCHANGED proc
            BY <1>1, <2>3 DEF Holds
        <3>3. /\ client' \in [Plugins -> Clients] /\ ClientsHold'
              /\ \A q \in Plugins : client'[q].pc = "beat" => client'[q].daemon # None0
            BY <1>1, <3>1, <3>2 DEF ClientsHold
        <3> QED
            BY <1>1, <1>rest, <2>1, <3>2, <3>3
    <2>4. CASE /\ GoesTo(p, "await")
               /\ \/ \E d \in Daemons : proc[d] = "unborn" /\ Becomes(d, "look")
                  \/ UNCHANGED proc
        <3> DEFINE c == [old EXCEPT !.pc = "await"]
        <3>1. c \in Clients /\ c.pc = "await" /\ c.daemon = old.daemon /\ c.first = old.first
            BY <2>2 DEF Clients
        <3>2. client' = [client EXCEPT ![p] = c]
            BY <1>1, <2>4 DEF GoesTo
        <3>3. /\ client' \in [Plugins -> Clients] /\ ClientsHold'
              /\ \A q \in Plugins : client'[q].pc = "beat" => client'[q].daemon # None0
            BY <1>1, <2>2, <3>1, <3>2 DEF ClientsHold
        <3>4. CASE UNCHANGED proc
            BY <1>1, <1>rest, <2>1, <3>3, <3>4
        <3>5. ASSUME NEW d \in Daemons, proc[d] = "unborn", Becomes(d, "look")
              PROVE  Q' /\ OneClaims' /\ ClientsHold'
            <4>1. proc' \in [Daemons -> Steps] /\ \A e \in Daemons : e # d => proc'[e] = proc[e]
                BY <1>1, <3>5 DEF Steps, Becomes
            <4>2. \A e \in Daemons : registry'[e] # {} => proc'[e] \in {"watch", "drop", "run"}
                BY <1>1, <2>1, <3>5, <4>1
            <4>3. OneClaims'
                BY <2>1, <3>5, ClaimsStay DEF Becomes, Holders
            <4> QED
                BY <1>1, <2>1, <3>3, <4>1, <4>2, <4>3
        <3> QED
            BY <2>4, <3>4, <3>5
    <2> QED
        BY <1>13, <2>3, <2>4, Zenon DEF Finds
<1>14. ASSUME NEW p \in Plugins, Registers(p) \/ RegisterTimesOut(p)
       PROVE  Q' /\ OneClaims' /\ ClientsHold'
    <2>1. UNCHANGED <<daemonInfo, startLock, signed, proc, port, slips>>
        BY <1>14, Zenon DEF Registers, RegisterTimesOut
    <2>2. lifeFaults' \in 0..MaxLifeFaults
        BY <1>1, <1>14, <1>types, FaultsStay, Zenon DEF Registers, RegisterTimesOut
    <2> DEFINE old == client[p]
    <2>3. old \in Clients /\ old.daemon # None0
        BY <1>1, <1>14 DEF ClientsHold, Registers, RegisterTimesOut
    <2>4. \/ UNCHANGED registry
          \/ /\ old.daemon \in Serving
             /\ registry' = [registry EXCEPT ![old.daemon] = registry[old.daemon] \union {p}]
        <3>1. CASE old.daemon \in Serving
            <4>1. old.daemon \in Daemons
                BY <3>1 DEF Serving
            <4> QED
                BY <1>1, <1>14, <3>1, <4>1 DEF Registers, RegisterTimesOut
        <3>2. CASE old.daemon \notin Serving
            BY <1>14, <3>2 DEF Registers, RegisterTimesOut
        <3> QED
            BY <3>1, <3>2
    <2>5. /\ registry' \in [Daemons -> SUBSET Plugins]
          /\ \A e \in Daemons : registry'[e] # {} => proc'[e] \in {"watch", "drop", "run"}
        <3>1. CASE UNCHANGED registry
            BY <1>1, <2>1, <3>1
        <3>2. CASE /\ old.daemon \in Serving
                   /\ registry' = [registry EXCEPT ![old.daemon] = registry[old.daemon] \union {p}]
            <4>1. old.daemon \in Daemons /\ proc[old.daemon] \in {"watch", "drop", "run"}
                BY <3>2 DEF Serving
            <4> HIDE DEF old
            <4>2. /\ registry' \in [Daemons -> SUBSET Plugins]
                  /\ \A e \in Daemons : e # old.daemon => registry'[e] = registry[e]
                BY <1>1, <3>2, <4>1
            <4> QED
                BY <1>1, <2>1, <4>1, <4>2
        <3> QED
            BY <2>4, <3>1, <3>2
    <2>6. PICK pc \in {"self", "beat"}, first \in BOOLEAN :
             client' = [client EXCEPT ![p] = [old EXCEPT !.pc = pc, !.first = first]]
        <3>1. old.first \in BOOLEAN /\ \A pc \in {"self", "beat"} :
                 [old EXCEPT !.pc = pc] = [old EXCEPT !.pc = pc, !.first = old.first]
            BY <2>3 DEF Clients
        <3> QED
            BY <1>1, <1>14, <3>1 DEF Registers, RegisterTimesOut, GoesTo
    <2> DEFINE c == [old EXCEPT !.pc = pc, !.first = first]
    <2>7. c \in Clients /\ c.daemon # None0
        BY <2>3 DEF Clients
    <2>8. /\ client' \in [Plugins -> Clients] /\ ClientsHold'
          /\ \A q \in Plugins : client'[q].pc = "beat" => client'[q].daemon # None0
        BY <1>1, <2>6, <2>7 DEF ClientsHold
    <2> QED
        BY <1>1, <1>rest, <2>1, <2>2, <2>5, <2>8
<1> QED
    BY <1>2, <1>3, <1>4, <1>5, <1>6, <1>7, <1>8, <1>9, <1>10, <1>11, <1>12, <1>13, <1>14
    DEF LifeNext, Runs, Serves

LEMMA LifeInvHolds == LifeSpec => []LifeInv
<1>1. LifeInv /\ UNCHANGED lifeVars => LifeInv'
    BY DEF lifeVars, LifeInv, LifeTypeOK, OneClaims, ClientsHold, Claims, Serving
<1>2. LifeInv /\ [LifeNext]_lifeVars => LifeInv'
    BY <1>1, LifeStep
<1> QED
    BY <1>2, LifeInvInit, PTL DEF LifeSpec

\* Only a daemon that serves knows plugins, and a plugin that beats holds a daemon.
THEOREM LifeTypes == LifeSpec => []LifeTypeOK
<1>1. LifeInv => LifeTypeOK
    BY DEF LifeInv
<1> QED
    BY <1>1, LifeInvHolds, PTL

\* Whatever crashes, signals, slow and lost answers there are: of two daemons that serve at a time
\* one could not see the other when it took the start lock, or lost the lock file to a judgement.
THEOREM SecondDaemonsAreExplained == LifeSpec => []SecondDaemonIsExplained
<1>1. LifeInv => SecondDaemonIsExplained
    BY DEF LifeInv, OneClaims, Claims, Holders, Serving, SecondDaemonIsExplained
<1> QED
    BY <1>1, LifeInvHolds, PTL

-----------------------------------------------------------------------------
(* The watcher of one inbox.                                               *)

\* The letters a reader goes on to hand to the batch.
HandOf(r) == IF reader[r].pc = "seen" \/ (reader[r].pc = "cursor" /\ ~reader[r].boot) THEN PageOf(r) ELSE {}
Carried == batch \union (UNION {d.letters : d \in deliveries}) \union (UNION {HandOf(r) : r \in Readers})
Fated == {l \in Mail : fate[l] # "none"}
Accounted == announced \union Fated \union Carried

\* Whatever a step that still has to come makes the position, the letters behind it are accounted for.
PositionsAreCovered == \A l \in Mail : l <= lastSeen \/ l <= watchCursor => l \in Accounted
PagesAreCovered ==
  \A r \in Readers : reader[r].pc \in {"page", "taken", "cursor"} /\ ~reader[r].boot =>
    \A l \in Mail : l <= reader[r].lo => l \in Accounted
\* What the ring keeps from being said was said, or its session had ended.
RingIsCovered == ring \subseteq announced \union Fated
\* A page without a position has a cursor only from the server.
CursorsAreIssued == \A r \in Readers : reader[r].pc = "cursor" /\ reader[r].boot => issues

\* What was said in this life is in the ring; what two deliveries past the ring hold, or one
\* holds that was said already, raced.
SaidIsRinged == heard \subseteq ring
TellersRace ==
  \A d \in deliveries : d.pc = "tell" =>
    /\ d.letters \intersect heard \subseteq raced
    /\ \A e \in deliveries : e.pc = "tell" /\ e # d => d.letters \intersect e.letters \subseteq raced

ReaderSteps == {"rest", "page", "taken", "cursor", "seen", "mint"}
Pages(n) == [pc : ReaderSteps, lo : 0..MaxLetters, hi : 0..n, boot : BOOLEAN]
Deliveries(n) == [id : Nat, pc : {"ask", "tell"}, target : 1..MaxUpsets + 1, sticky : BOOLEAN, letters : SUBSET (1..n)]

MailTypes ==
  /\ arrived \in 0..MaxLetters /\ closed \subseteq 1..arrived
  /\ issues \in BOOLEAN /\ streams \in BOOLEAN /\ rawKey \in BOOLEAN
  /\ mode \in {"off", "stream", "poll"} /\ loop \in {"none", "runs"}
  /\ session \in 0..MaxUpsets + 1 /\ lastWake \in 0..MaxUpsets + 1
  /\ upsets \in 0..MaxUpsets
ReaderTypes ==
  /\ watchCursor \in NoPlace..MaxLetters /\ lastSeen \in 0..arrived
  /\ reader \in [Readers -> Pages(arrived)]
LetterTypes ==
  /\ batch \subseteq 1..arrived /\ ring \subseteq 1..arrived
  /\ heard \subseteq announced /\ announced \subseteq 1..arrived
  /\ twice \subseteq heard \union announced /\ raced \subseteq 1..arrived
  /\ fate \in [Mail -> Causes]
DeliveryTypes == IsFiniteSet(deliveries) /\ deliveries \subseteq Deliveries(arrived)
WatchTypes == MailTypes /\ ReaderTypes /\ LetterTypes /\ DeliveryTypes

WatchInv == /\ WatchTypes
            /\ PositionsAreCovered /\ PagesAreCovered /\ RingIsCovered /\ CursorsAreIssued
RaceInv == SaidIsRinged /\ TellersRace /\ AnnouncedTwiceOnlyInARace

LEMMA WatchInitTypes == WatchInit => WatchTypes
<1> SUFFICES ASSUME WatchInit PROVE WatchTypes
    OBVIOUS
<1>1. MailTypes
    BY WatcherAssumption DEF WatchInit, MailTypes
<1>2. ReaderTypes
  <2>1. AtRest \in Pages(arrived)
      BY WatcherAssumption DEF WatchInit, AtRest, Pages, ReaderSteps
  <2> QED
      BY <2>1, WatcherAssumption DEF WatchInit, ReaderTypes, NoPlace
<1>3. LetterTypes
    BY DEF WatchInit, LetterTypes, Causes
<1>4. DeliveryTypes
    BY FS_EmptySet DEF WatchInit, DeliveryTypes
<1> QED
    BY <1>1, <1>2, <1>3, <1>4 DEF WatchTypes

\* What is lost is accounted for, and stays so.
LEMMA LostIsFated ==
    ASSUME LetterTypes, NEW ls, NEW why \in Causes, Lose(ls, why)
    PROVE  /\ fate' \in [Mail -> Causes] /\ Fated \subseteq Fated'
           /\ why # "none" => Fated' = Fated \union (ls \intersect Mail)
BY DEF LetterTypes, Lose, Fated

LEMMA ReaderStep ==
    ASSUME ReaderTypes, NEW r \in Readers, NEW p \in Pages(arrived), arrived' = arrived,
           reader' = [reader EXCEPT ![r] = p]
    PROVE  /\ reader' \in [Readers -> Pages(arrived)] /\ reader'[r] = p
           /\ \A q \in Readers \ {r} : reader'[q] = reader[q]
BY DEF ReaderTypes

LEMMA AtRestIsAPage ==
    ASSUME MailTypes
    PROVE  /\ AtRest \in Pages(arrived) /\ AtRest.pc = "rest"
           /\ \A p \in {"mint", "rest"} : [AtRest EXCEPT !.pc = p] \in Pages(arrived) /\ [AtRest EXCEPT !.pc = p].pc = p
<1>1. AtRest \in Pages(arrived) /\ AtRest.pc = "rest"
    BY WatcherAssumption DEF MailTypes, AtRest, Pages, ReaderSteps
<1> QED
    BY <1>1 DEF Pages, ReaderSteps

\* Steps of the world that touch no reader, no batch and no delivery.
LEMMA WorldTypes ==
    ASSUME WatchTypes,
           MailArrives \/ SessionEnds \/ SessionOpens \/ WatchStarts \/ OthersFallBack \/ Adopts \/ FallsBack
             \/ (\E l \in Mail : MailCloses(l))
    PROVE  /\ WatchTypes'
           /\ UNCHANGED <<issues, watchCursor, lastSeen, reader, batch, deliveries, ring, heard, announced, twice,
                          raced, fate>>
<1>1. UNCHANGED <<issues, watchCursor, lastSeen, reader, batch, deliveries, ring, heard, announced, twice,
                  raced, fate>>
    BY Zenon DEF MailArrives, SessionEnds, SessionOpens, WatchStarts, OthersFallBack, Adopts, FallsBack, MailCloses,
       offer, disk, sessions, history
<1>2. arrived' \in 0..MaxLetters /\ arrived <= arrived'
    BY WatcherAssumption DEF MailArrives, SessionEnds, SessionOpens, WatchStarts, OthersFallBack, Adopts, FallsBack,
       MailCloses, WatchTypes, MailTypes
<1>3. MailTypes'
  <2> USE WatcherAssumption DEF WatchTypes, MailTypes
  <2>1. CASE MailArrives
      BY <2>1, <1>2 DEF MailArrives, offer, disk, sessions
  <2>1a. CASE SessionEnds
      BY <2>1a DEF SessionEnds, Upset, offer, disk
  <2>1b. CASE SessionOpens
    <3>1. session' = upsets + 1 /\ UNCHANGED <<arrived, closed, offer, disk, mode, loop, lastWake, upsets>>
        BY <2>1b, Zenon DEF SessionOpens
    <3> QED
        BY <3>1 DEF offer, disk
  <2>2. CASE WatchStarts \/ OthersFallBack \/ Adopts \/ FallsBack
      BY <2>2, <1>2 DEF WatchStarts, OthersFallBack, Adopts, FallsBack, offer, disk, sessions
  <2>3. ASSUME NEW l \in Mail, MailCloses(l) PROVE MailTypes'
      BY <2>3, <1>2 DEF MailCloses, offer, disk, sessions
  <2> QED
      BY <2>1, <2>1a, <2>1b, <2>2, <2>3
<1>4. 1..arrived \subseteq 1..arrived' /\ 0..arrived \subseteq 0..arrived'
    BY <1>2 DEF WatchTypes, MailTypes
<1>5. ReaderTypes'
  <2>1. Pages(arrived) \subseteq Pages(arrived')
      BY <1>4 DEF Pages
  <2>2. ReaderTypes
      BY DEF WatchTypes
  <2> QED
      BY <1>1, <1>4, <2>1, <2>2 DEF ReaderTypes
<1>6. LetterTypes'
    BY <1>1, <1>4 DEF WatchTypes, LetterTypes
<1>7. DeliveryTypes'
  <2>1. Deliveries(arrived) \subseteq Deliveries(arrived')
      BY <1>4 DEF Deliveries
  <2> QED
      BY <1>1, <2>1 DEF WatchTypes, DeliveryTypes
<1> QED
    BY <1>1, <1>3, <1>5, <1>6, <1>7 DEF WatchTypes

\* A step of a reader that leaves the world alone has only its own types to keep.
LEMMA ReaderTypesKept ==
    ASSUME WatchTypes,
           UNCHANGED <<arrived, closed, issues, streams, mode, loop, deliveries, ring, session, lastWake, heard,
                       announced, twice, raced>>,
           rawKey' \in BOOLEAN, upsets' \in 0..MaxUpsets, batch' \subseteq 1..arrived,
           watchCursor' \in NoPlace..MaxLetters, lastSeen' \in 0..arrived,
           reader' \in [Readers -> Pages(arrived)], fate' \in [Mail -> Causes]
    PROVE  WatchTypes'
<1>1. MailTypes' /\ ReaderTypes'
    BY DEF WatchTypes, MailTypes, ReaderTypes
<1>2. LetterTypes' /\ DeliveryTypes'
    BY DEF WatchTypes, LetterTypes, DeliveryTypes
<1> QED
    BY <1>1, <1>2 DEF WatchTypes

LEMMA PageParts ==
    ASSUME WatchTypes, NEW r \in Readers
    PROVE  /\ reader[r] \in Pages(arrived)
           /\ reader[r].pc \in ReaderSteps /\ reader[r].lo \in 0..MaxLetters /\ reader[r].hi \in 0..arrived
           /\ reader[r].boot \in BOOLEAN
           /\ PageOf(r) \subseteq 1..arrived /\ PageOf(r) \subseteq Mail
BY WatcherAssumption DEF WatchTypes, ReaderTypes, MailTypes, Pages, PageOf, Mail

\* The readers, step by step: what each makes of the page it holds.
LEMMA FetchTypes ==
    ASSUME WatchTypes, NEW r \in Readers, FetchSince(r) \/ FetchNewest(r) \/ TakesPage(r) \/ (r = "stream" /\ DropsPage)
    PROVE  /\ WatchTypes' /\ UNCHANGED <<issues, watchCursor, lastSeen, batch, deliveries, ring, heard, announced, twice,
                                         raced, fate>>
           /\ \A q \in Readers \ {r} : reader'[q] = reader[q]
           /\ reader[r].pc \in {"rest", "page"} /\ reader'[r].pc \in {"rest", "page", "taken"}
           /\ reader'[r].pc = "page" /\ ~reader'[r].boot => reader'[r].lo = watchCursor
           /\ reader'[r].pc = "taken" => /\ reader[r].pc = "page" /\ ~reader[r].boot
                                         /\ reader'[r].lo = reader[r].lo
<1>1. UNCHANGED <<arrived, closed, issues, streams, mode, loop, deliveries, ring, session, lastWake, heard, announced,
                  twice, raced, fate, watchCursor, lastSeen, batch, upsets>>
    BY Zenon DEF FetchSince, FetchNewest, TakesPage, DropsPage, offer, disk, sessions, history
<1>2. rawKey' \in BOOLEAN
    BY DEF FetchSince, FetchNewest, TakesPage, DropsPage, disk, WatchTypes, MailTypes
<1>3. PICK p \in Pages(arrived) :
        /\ reader' = [reader EXCEPT ![r] = p] /\ reader[r].pc \in {"rest", "page"} /\ p.pc \in {"rest", "page", "taken"}
        /\ p.pc = "page" /\ ~p.boot => p.lo = watchCursor
        /\ p.pc = "taken" => reader[r].pc = "page" /\ ~reader[r].boot /\ p.lo = reader[r].lo
  <2>1. CASE FetchSince(r)
    <3>1. [pc |-> "page", lo |-> watchCursor, hi |-> arrived, boot |-> FALSE] \in Pages(arrived)
        BY <2>1, WatcherAssumption DEF FetchSince, WatchTypes, ReaderTypes, MailTypes, NoPlace, Pages, ReaderSteps
    <3> QED
        BY <2>1, <3>1 DEF FetchSince, CanRead
  <2>2. CASE FetchNewest(r)
    <3>1. [pc |-> "page", lo |-> NewestFrom, hi |-> arrived, boot |-> TRUE] \in Pages(arrived)
        BY WatcherAssumption DEF NewestFrom, WatchTypes, MailTypes, Pages, ReaderSteps
    <3> QED
        BY <2>2, <3>1 DEF FetchNewest, CanRead
  <2>3. CASE TakesPage(r)
    <3>1. [reader[r] EXCEPT !.pc = "taken"] \in Pages(arrived)
        BY PageParts DEF Pages, ReaderSteps
    <3>2. reader' = [reader EXCEPT ![r] = [reader[r] EXCEPT !.pc = "taken"]]
        BY <2>3 DEF TakesPage
    <3> QED
        BY <2>3, <3>1, <3>2, PageParts DEF TakesPage, Pages
  <2>4. CASE r = "stream" /\ DropsPage
    <3>1. AtRest \in Pages(arrived) /\ AtRest.pc = "rest"
        BY AtRestIsAPage DEF WatchTypes, AtRest
    <3> QED
        BY <2>4, <3>1 DEF DropsPage
  <2> QED
      BY <2>1, <2>2, <2>3, <2>4
<1>4. /\ reader' \in [Readers -> Pages(arrived)] /\ reader'[r] = p
      /\ \A q \in Readers \ {r} : reader'[q] = reader[q]
    BY <1>1, <1>3, ReaderStep DEF WatchTypes
<1>5. WatchTypes'
    BY <1>1, <1>2, <1>4, ReaderTypesKept DEF WatchTypes, MailTypes, ReaderTypes, LetterTypes
<1> QED
    BY <1>1, <1>3, <1>4, <1>5

\* The cursor is written: the page is passed, and in the reader's hand or lost.
LEMMA CursorWritten ==
    ASSUME WatchTypes, NEW r \in Readers, WriteWatchCursor(r)
    PROVE  /\ WatchTypes'
           /\ UNCHANGED <<issues, lastSeen, batch, deliveries, ring, heard, announced, twice, raced>>
           /\ watchCursor' = reader[r].hi /\ Fated \subseteq Fated'
           /\ \A q \in Readers \ {r} : reader'[q] = reader[q]
           /\ reader'[r].pc = "cursor" /\ reader'[r].lo = reader[r].lo /\ reader'[r].hi = reader[r].hi
           /\ reader'[r].boot = reader[r].boot /\ (reader[r].boot => issues)
           /\ IF reader[r].boot THEN reader[r].pc = "page" ELSE reader[r].pc = "taken"
           /\ reader[r].boot => \A l \in 1..reader[r].hi : l > lastSeen => l \in announced \union Fated'
<1>1. UNCHANGED <<arrived, closed, issues, streams, rawKey, mode, loop, deliveries, ring, session, lastWake, heard,
                  announced, twice, raced, lastSeen, batch, upsets>>
    BY Zenon DEF WriteWatchCursor, offer, sessions, history
<1>2. /\ IF reader[r].boot THEN reader[r].pc = "page" /\ issues ELSE reader[r].pc = "taken"
      /\ watchCursor' = reader[r].hi /\ reader' = [reader EXCEPT ![r].pc = "cursor"] /\ PassesOver(r)
    BY Zenon DEF WriteWatchCursor
<1>3. /\ reader' \in [Readers -> Pages(arrived)] /\ \A q \in Readers \ {r} : reader'[q] = reader[q]
      /\ reader'[r].pc = "cursor" /\ reader'[r].lo = reader[r].lo /\ reader'[r].hi = reader[r].hi
      /\ reader'[r].boot = reader[r].boot
    BY <1>2, PageParts DEF WatchTypes, ReaderTypes, Pages, ReaderSteps
<1>4. fate' \in [Mail -> Causes] /\ Fated \subseteq Fated'
    BY <1>2, LostIsFated DEF PassesOver, Causes, WatchTypes
<1>5. ASSUME reader[r].boot, NEW l \in 1..reader[r].hi, l > lastSeen
      PROVE  l \in announced \union Fated'
  <2>1. Fresh(r) = {} /\ l \in Mail
      BY <1>2, <1>5, PageParts, WatcherAssumption DEF Fresh, WatchTypes, MailTypes, Mail
  <2>2. Lose({k \in 1..reader[r].hi \ Fresh(r) : k > lastSeen /\ k \notin announced},
             IF lastSeen = 0 THEN "history" ELSE "page")
      BY <1>2, <1>5 DEF PassesOver
  <2>3. Fated' = Fated \union ({k \in 1..reader[r].hi \ Fresh(r) : k > lastSeen /\ k \notin announced} \intersect Mail)
      BY <2>2, LostIsFated DEF Causes, WatchTypes
  <2> QED
      BY <1>5, <2>1, <2>3
<1>6. WatchTypes'
  <2>1. reader[r].hi \in NoPlace..MaxLetters
      BY PageParts, WatcherAssumption DEF WatchTypes, MailTypes, NoPlace
  <2> QED
      BY <1>1, <1>2, <1>3, <1>4, <2>1, ReaderTypesKept DEF WatchTypes, MailTypes, ReaderTypes, LetterTypes
<1> QED
    BY <1>1, <1>2, <1>3, <1>4, <1>5, <1>6

\* The newest letter known is written: what is new is in the reader's hand, the rest of a first
\* page is lost.
LEMMA LastSeenWritten ==
    ASSUME WatchTypes, NEW r \in Readers, WriteLastSeen(r)
    PROVE  /\ WatchTypes'
           /\ UNCHANGED <<issues, watchCursor, batch, deliveries, ring, heard, announced, twice, raced>>
           /\ lastSeen' \in {lastSeen, reader[r].hi} /\ Fated \subseteq Fated'
           /\ PageOf(r) = {} => lastSeen' = lastSeen
           /\ \A q \in Readers \ {r} : reader'[q] = reader[q]
           /\ reader[r].pc = (IF reader[r].boot /\ ~issues THEN "page" ELSE "cursor")
           /\ IF Fresh(r) = {} THEN reader'[r].pc \in {"mint", "rest"}
              ELSE /\ reader'[r].pc = "seen" /\ reader'[r].hi = reader[r].hi
                   /\ reader'[r].lo = FirstNew(r)
           /\ reader[r].boot => \A l \in 1..reader[r].hi : l > lastSeen => l \in announced \union Fated' \union Fresh(r)
<1>1. UNCHANGED <<arrived, closed, issues, streams, rawKey, mode, loop, deliveries, ring, session, lastWake, heard,
                  announced, twice, raced, watchCursor, batch, upsets>>
    BY Zenon DEF WriteLastSeen, offer, sessions, history
<1> DEFINE done == [AtRest EXCEPT !.pc = IF r = "stream" /\ watchCursor = NoPlace THEN "mint" ELSE "rest"]
           kept == [reader[r] EXCEPT !.pc = "seen", !.lo = FirstNew(r)]
<1>2. /\ reader[r].pc = (IF reader[r].boot /\ ~issues THEN "page" ELSE "cursor")
      /\ lastSeen' = (IF PageOf(r) = {} THEN lastSeen ELSE reader[r].hi) /\ PassesOver(r)
      /\ reader' = [reader EXCEPT ![r] = IF Fresh(r) = {} THEN done ELSE kept]
    BY Zenon DEF WriteLastSeen
<1>3. done \in Pages(arrived) /\ done.pc \in {"mint", "rest"}
  <2>1. CASE r = "stream" /\ watchCursor = NoPlace
    <3>1. done = [AtRest EXCEPT !.pc = "mint"]
        BY <2>1
    <3> QED
        BY <3>1, AtRestIsAPage DEF WatchTypes
  <2>2. CASE ~(r = "stream" /\ watchCursor = NoPlace)
    <3>1. done = [AtRest EXCEPT !.pc = "rest"]
        BY <2>2
    <3> QED
        BY <3>1, AtRestIsAPage DEF WatchTypes
  <2> QED
      BY <2>1, <2>2
<1>4. /\ kept \in Pages(arrived) /\ kept.pc = "seen" /\ kept.hi = reader[r].hi
      /\ kept.lo = FirstNew(r)
  <2>1. FirstNew(r) \in 0..MaxLetters
      BY PageParts, WatcherAssumption DEF WatchTypes, MailTypes, ReaderTypes, FirstNew
  <2> QED
      BY <2>1, PageParts DEF Pages, ReaderSteps
<1> HIDE DEF done, kept
<1>5. /\ reader' \in [Readers -> Pages(arrived)] /\ reader'[r] = (IF Fresh(r) = {} THEN done ELSE kept)
      /\ \A q \in Readers \ {r} : reader'[q] = reader[q]
    BY <1>1, <1>2, <1>3, <1>4, ReaderStep DEF WatchTypes
<1>6. fate' \in [Mail -> Causes] /\ Fated \subseteq Fated'
    BY <1>2, LostIsFated DEF PassesOver, Causes, WatchTypes
<1>7. ASSUME reader[r].boot, NEW l \in 1..reader[r].hi, l > lastSeen
      PROVE  l \in announced \union Fated' \union Fresh(r)
  <2>1. l \in Mail
      BY PageParts, WatcherAssumption DEF WatchTypes, MailTypes, Mail
  <2>2. Lose({k \in 1..reader[r].hi \ Fresh(r) : k > lastSeen /\ k \notin announced},
             IF lastSeen = 0 THEN "history" ELSE "page")
      BY <1>2, <1>7 DEF PassesOver
  <2>3. Fated' = Fated \union ({k \in 1..reader[r].hi \ Fresh(r) : k > lastSeen /\ k \notin announced} \intersect Mail)
      BY <2>2, LostIsFated DEF Causes, WatchTypes
  <2> QED
      BY <1>7, <2>1, <2>3
<1>8. WatchTypes'
  <2>1. lastSeen' \in 0..arrived
      BY <1>2, PageParts DEF WatchTypes, ReaderTypes
  <2> QED
      BY <1>1, <1>2, <1>5, <1>6, <2>1, ReaderTypesKept DEF WatchTypes, MailTypes, ReaderTypes, LetterTypes
<1> QED
    BY <1>1, <1>2, <1>3, <1>4, <1>5, <1>6, <1>7, <1>8

\* A page in hand goes to the batch or is lost; one let go before is asked for again.
LEMMA HandsAreEmptied ==
    ASSUME WatchTypes, NEW r \in Readers, Enqueue(r) \/ WriteThrows(r)
    PROVE  /\ WatchTypes'
           /\ UNCHANGED <<issues, watchCursor, lastSeen, deliveries, ring, heard, announced, twice, raced>>
           /\ Fated \subseteq Fated' /\ batch \subseteq batch'
           /\ \A q \in Readers \ {r} : reader'[q] = reader[q]
           /\ reader'[r].pc \in {"mint", "rest"}
           /\ HandOf(r) \subseteq announced \union Fated' \union batch'
<1>1. UNCHANGED <<arrived, closed, issues, streams, rawKey, mode, loop, deliveries, ring, session, lastWake, heard,
                  announced, twice, raced, watchCursor, lastSeen>>
    BY Zenon DEF Enqueue, WriteThrows, offer, disk, sessions, history
<1>2. PICK p \in Pages(arrived) : reader' = [reader EXCEPT ![r] = p] /\ p.pc \in {"mint", "rest"}
  <2> DEFINE step == IF r = "stream" /\ watchCursor = NoPlace THEN "mint" ELSE "rest"
  <2>1. \/ reader' = [reader EXCEPT ![r] = [AtRest EXCEPT !.pc = step]]
        \/ reader' = [reader EXCEPT ![r] = AtRest]
      BY Zenon DEF Enqueue, WriteThrows
  <2>2. step \in {"mint", "rest"}
      OBVIOUS
  <2> HIDE DEF step
  <2>3. [AtRest EXCEPT !.pc = step] \in Pages(arrived) /\ [AtRest EXCEPT !.pc = step].pc \in {"mint", "rest"}
      BY <2>2, AtRestIsAPage DEF WatchTypes
  <2> QED
      BY <2>1, <2>3, AtRestIsAPage DEF WatchTypes
<1>3. /\ reader' \in [Readers -> Pages(arrived)] /\ reader'[r] = p
      /\ \A q \in Readers \ {r} : reader'[q] = reader[q]
    BY <1>1, <1>2, ReaderStep DEF WatchTypes
<1>4. /\ upsets' \in 0..MaxUpsets /\ batch \subseteq batch' /\ batch' \subseteq batch \union PageOf(r)
      /\ fate' \in [Mail -> Causes] /\ Fated \subseteq Fated'
      /\ HandOf(r) \subseteq announced \union Fated' \union batch'
  <2>1. PageOf(r) \subseteq Mail /\ LetterTypes /\ Causes = Causes \union {"torn", "muted", "none"}
        /\ "none" \notin {"torn", "muted"} /\ "torn" \in Causes /\ "muted" \in Causes
      BY PageParts DEF WatchTypes, Causes
  <2>2. CASE Enqueue(r)
    <3>1. upsets' = upsets /\ (\/ batch' = batch \union PageOf(r) /\ fate' = fate
                               \/ batch' = batch /\ Lose(PageOf(r) \ announced, "muted"))
        BY <2>2 DEF Enqueue, Gather
    <3>2. CASE batch' = batch \union PageOf(r) /\ fate' = fate
        BY <2>1, <3>1, <3>2 DEF Fated, HandOf, LetterTypes, WatchTypes, MailTypes
    <3>3. CASE batch' = batch /\ Lose(PageOf(r) \ announced, "muted")
      <4>1. fate' \in [Mail -> Causes] /\ Fated' = Fated \union ((PageOf(r) \ announced) \intersect Mail)
          BY <2>1, <3>3, LostIsFated
      <4> QED
          BY <2>1, <3>1, <3>3, <4>1 DEF HandOf, WatchTypes, MailTypes
    <3> QED
        BY <3>1, <3>2, <3>3
  <2>3. CASE WriteThrows(r)
    <3>1. /\ batch' = batch /\ upsets' \in 0..MaxUpsets
          /\ Lose(IF reader[r].pc \in {"page", "taken"} THEN {} ELSE PageOf(r) \ announced, "torn")
        BY <2>3, WatcherAssumption DEF WriteThrows, Upset, WatchTypes, MailTypes
    <3>2. /\ fate' \in [Mail -> Causes]
          /\ Fated' = Fated \union ((IF reader[r].pc \in {"page", "taken"} THEN {} ELSE PageOf(r) \ announced) \intersect Mail)
        BY <2>1, <3>1, LostIsFated
    <3> QED
        BY <2>1, <3>1, <3>2 DEF HandOf
  <2> QED
      BY <2>2, <2>3
<1>5. WatchTypes'
  <2>1. batch' \subseteq 1..arrived /\ rawKey \in BOOLEAN
      BY <1>4, PageParts DEF WatchTypes, LetterTypes, MailTypes
  <2> QED
      BY <1>1, <1>3, <1>4, <2>1, ReaderTypesKept DEF WatchTypes, MailTypes, ReaderTypes, LetterTypes
<1> QED
    BY <1>1, <1>2, <1>3, <1>4, <1>5

\* A minted cursor loses all it passes.
LEMMA CursorMinted ==
    ASSUME WatchTypes, MintStreamCursor
    PROVE  /\ WatchTypes'
           /\ UNCHANGED <<issues, lastSeen, batch, deliveries, ring, heard, announced, twice, raced>>
           /\ Fated \subseteq Fated' /\ reader'["poll"] = reader["poll"]
           /\ reader["stream"].pc = "mint" /\ reader'["stream"].pc = "rest"
           /\ watchCursor' = watchCursor \/ \A l \in Mail : l > lastSeen /\ l <= watchCursor' => l \in Fated'
<1>1. UNCHANGED <<arrived, closed, issues, streams, rawKey, mode, loop, deliveries, ring, session, lastWake, heard,
                  announced, twice, raced, lastSeen, batch, upsets>>
    BY Zenon DEF MintStreamCursor, offer, sessions, history
<1>2. AtRest \in Pages(arrived) /\ AtRest.pc = "rest"
    BY AtRestIsAPage DEF WatchTypes, AtRest
<1>3. reader["stream"].pc = "mint" /\ reader' = [reader EXCEPT !["stream"] = AtRest]
    BY DEF MintStreamCursor
<1>4. /\ reader' \in [Readers -> Pages(arrived)] /\ reader'["stream"] = AtRest
      /\ reader'["poll"] = reader["poll"]
    BY <1>1, <1>2, <1>3, ReaderStep DEF WatchTypes, Readers
<1>5. /\ watchCursor' \in NoPlace..MaxLetters /\ fate' \in [Mail -> Causes] /\ Fated \subseteq Fated'
      /\ watchCursor' = watchCursor \/ \A l \in Mail : l > lastSeen /\ l <= watchCursor' => l \in Fated'
  <2>1. CASE UNCHANGED <<watchCursor, fate>>
      BY <2>1 DEF Fated, WatchTypes, ReaderTypes, LetterTypes
  <2>2. ASSUME NEW now \in arrived..arrived + MaxAhead, now <= MaxLetters, watchCursor' = now,
               Lose(lastSeen + 1..now, "gap")
        PROVE  /\ watchCursor' \in NoPlace..MaxLetters /\ fate' \in [Mail -> Causes] /\ Fated \subseteq Fated'
               /\ \A l \in Mail : l > lastSeen /\ l <= watchCursor' => l \in Fated'
    <3>1. fate' \in [Mail -> Causes] /\ Fated' = Fated \union ((lastSeen + 1..now) \intersect Mail)
        BY <2>2, LostIsFated DEF WatchTypes, Causes
    <3>2. watchCursor' \in NoPlace..MaxLetters
        BY <2>2, WatcherAssumption DEF WatchTypes, MailTypes, NoPlace
    <3> QED
        BY <2>2, <3>1, <3>2, WatcherAssumption DEF WatchTypes, MailTypes, ReaderTypes, Mail
  <2> QED
      BY <2>1, <2>2 DEF MintStreamCursor
<1>6. WatchTypes'
    BY <1>1, <1>4, <1>5, ReaderTypesKept DEF WatchTypes, MailTypes, ReaderTypes, LetterTypes
<1> QED
    BY <1>1, <1>2, <1>3, <1>4, <1>5, <1>6

\* What the deliveries hold, as a set of letters.
Delivered(ds) == UNION {d.letters : d \in ds}

LEMMA DeliveryParts ==
    ASSUME WatchTypes, NEW d \in deliveries
    PROVE  /\ d \in Deliveries(arrived) /\ d.pc \in {"ask", "tell"} /\ d.target \in 1..MaxUpsets + 1
           /\ d.letters \subseteq 1..arrived /\ d.letters \subseteq Mail
BY WatcherAssumption DEF WatchTypes, DeliveryTypes, Deliveries, MailTypes, Mail

LEMMA AnnouncedTypes ==
    ASSUME WatchTypes, NEW ls \in SUBSET (1..arrived), NEW target, Announce(ls, target)
    PROVE  /\ ring' = ring \union ls /\ ring' \subseteq 1..arrived
           /\ heard' \subseteq announced' /\ announced' \subseteq 1..arrived
           /\ twice' \subseteq heard' \union announced'
           /\ announced \subseteq announced' /\ announced' \subseteq announced \union ls
           /\ target = session => ls \subseteq announced'
           /\ heard' \subseteq heard \union ls /\ twice' \subseteq twice \union (ls \intersect heard)
BY DEF WatchTypes, LetterTypes, Announce

\* A step of a delivery has only the types of the letters to keep.
LEMMA DeliveryTypesKept ==
    ASSUME WatchTypes,
           UNCHANGED <<arrived, closed, issues, streams, rawKey, mode, loop, reader, watchCursor, lastSeen, session>>,
           lastWake' \in 0..MaxUpsets + 1, upsets' \in 0..MaxUpsets,
           batch' \subseteq 1..arrived, ring' \subseteq 1..arrived, heard' \subseteq announced',
           announced' \subseteq 1..arrived, twice' \subseteq heard' \union announced', raced' \subseteq 1..arrived,
           fate' \in [Mail -> Causes], IsFiniteSet(deliveries'), deliveries' \subseteq Deliveries(arrived)
    PROVE  WatchTypes'
<1>1. MailTypes' /\ ReaderTypes'
    BY DEF WatchTypes, MailTypes, ReaderTypes
<1>2. LetterTypes' /\ DeliveryTypes'
    BY DEF LetterTypes, DeliveryTypes
<1> QED
    BY <1>1, <1>2 DEF WatchTypes

\* Among one more numbers than there are deliveries one is free.
LEMMA FreeNumber ==
    ASSUME WatchTypes
    PROVE  (CHOOSE i \in 1..Cardinality(deliveries) + 1 : \A d \in deliveries : d.id # i) \in Nat
<1> DEFINE n == Cardinality(deliveries)
           ids == {d.id : d \in deliveries}
<1>1. IsFiniteSet(deliveries) /\ n \in Nat
    BY FS_CardinalityType DEF WatchTypes, DeliveryTypes
<1>2. IsFiniteSet(ids) /\ Cardinality(ids) <= n
  <2> DEFINE f == [d \in deliveries |-> d.id]
  <2>1. f \in [deliveries -> ids] /\ \A i \in ids : \E d \in deliveries : f[d] = i
      OBVIOUS
  <2>2. f \in Surjection(deliveries, ids)
      BY <2>1 DEF Surjection
  <2> QED
    <3> HIDE DEF f, ids
    <3> QED
        BY <1>1, <2>2, FS_Surjection
<1>3. IsFiniteSet(1..n+1) /\ Cardinality(1..n+1) = n + 1
    BY <1>1, FS_Interval
<1>4. ~(1..n+1 \subseteq ids)
  <2> SUFFICES ASSUME 1..n+1 \subseteq ids PROVE FALSE
      OBVIOUS
  <2>1. Cardinality(1..n+1) <= Cardinality(ids)
      BY <1>2, FS_Subset
  <2>2. Cardinality(ids) \in Nat
      BY <1>2, FS_CardinalityType
  <2> QED
      BY <1>1, <1>2, <1>3, <2>1, <2>2
<1>5. PICK i \in 1..n+1 : \A d \in deliveries : d.id # i
    BY <1>4
<1> QED
    BY <1>1, <1>5

LEMMA FlushKeeps ==
    ASSUME WatchTypes, Flush
    PROVE  /\ WatchTypes'
           /\ UNCHANGED <<issues, lastSeen, watchCursor, reader, ring, heard, announced, twice, raced>>
           /\ Fated \subseteq Fated'
           /\ batch \union Delivered(deliveries) \subseteq announced' \union Fated' \union batch' \union Delivered(deliveries')
           /\ \A d \in deliveries' : d.pc = "tell" => d \in deliveries
<1>1. /\ UNCHANGED <<arrived, closed, issues, streams, rawKey, watchCursor, lastSeen, mode, loop, reader, ring, session,
                     lastWake, heard, announced, twice, raced, upsets>>
      /\ batch' = {}
    BY Zenon DEF Flush, offer, disk, sessions, history
<1>2. /\ fate' \in [Mail -> Causes] /\ Fated \subseteq Fated'
      /\ IsFiniteSet(deliveries') /\ deliveries' \subseteq Deliveries(arrived)
      /\ batch \union Delivered(deliveries) \subseteq announced \union Fated' \union Delivered(deliveries')
      /\ \A d \in deliveries' : d.pc = "tell" => d \in deliveries
  <2>1. CASE session # 0
    <3> DEFINE i == CHOOSE i \in 1..Cardinality(deliveries) + 1 : \A d \in deliveries : d.id # i
               new == [id |-> i, pc |-> "ask", target |-> session, sticky |-> session = lastWake, letters |-> batch]
    <3>1. deliveries' = deliveries \union {new} /\ fate' = fate
        BY <2>1 DEF Flush
    <3>2. i \in Nat
        BY FreeNumber
    <3> HIDE DEF i
    <3>3. (session = lastWake) \in BOOLEAN /\ session \in 1..MaxUpsets + 1 /\ batch \in SUBSET (1..arrived)
        BY <2>1, WatcherAssumption DEF WatchTypes, MailTypes, LetterTypes
    <3>4. new \in Deliveries(arrived) /\ new.pc = "ask" /\ new.letters = batch
        BY <3>2, <3>3, Zenon DEF Deliveries
    <3> HIDE DEF new
    <3>5. IsFiniteSet(deliveries')
        BY <3>1, FS_AddElement DEF WatchTypes, DeliveryTypes
    <3> QED
        BY <3>1, <3>4, <3>5 DEF WatchTypes, DeliveryTypes, LetterTypes, Delivered, Fated
  <2>2. CASE session = 0
    <3>1. deliveries' = deliveries /\ Lose(batch \ announced, "nobody")
        BY <2>2 DEF Flush
    <3>2. fate' \in [Mail -> Causes] /\ Fated' = Fated \union ((batch \ announced) \intersect Mail)
        BY <3>1, LostIsFated DEF WatchTypes, Causes
    <3>3. batch \subseteq Mail
        BY WatcherAssumption DEF WatchTypes, LetterTypes, MailTypes, Mail
    <3> QED
        BY <3>1, <3>2, <3>3 DEF WatchTypes, DeliveryTypes
  <2> QED
      BY <2>1, <2>2
<1>3. WatchTypes'
    BY <1>1, <1>2, DeliveryTypesKept DEF WatchTypes, MailTypes, LetterTypes
<1> QED
    BY <1>1, <1>2, <1>3

\* The session is told of the letters that are open and not in the ring; the others of the
\* delivery were told, or are lost.
LEMMA TellKeeps ==
    ASSUME WatchTypes, RingIsCovered, NEW d \in deliveries, Tell(d) \/ TellThrows(d)
    PROVE  /\ WatchTypes' /\ RingIsCovered'
           /\ UNCHANGED <<issues, lastSeen, watchCursor, reader, batch, raced>>
           /\ Fated \subseteq Fated' /\ announced \subseteq announced' /\ announced' \subseteq announced \union d.letters
           /\ batch \union Delivered(deliveries) \subseteq announced' \union Fated' \union batch' \union Delivered(deliveries')
           /\ deliveries' = deliveries \ {d} /\ d.pc = "tell"
           /\ \/ UNCHANGED <<ring, heard, announced, twice>>
              \/ Announce(d.letters, d.target)
<1> USE DeliveryParts
<1>1. /\ UNCHANGED <<arrived, closed, issues, streams, rawKey, watchCursor, lastSeen, mode, loop, reader, session, batch, raced>>
      /\ deliveries' = deliveries \ {d} /\ d.pc = "tell"
    BY Zenon DEF Tell, TellThrows, offer, disk, sessions, history
<1>2. IsFiniteSet(deliveries') /\ deliveries' \subseteq Deliveries(arrived)
    BY <1>1, FS_RemoveElement DEF WatchTypes, DeliveryTypes
<1>3. Delivered(deliveries) \subseteq d.letters \union Delivered(deliveries')
    BY <1>1 DEF Delivered
<1>4. CASE Tell(d)
  <2>1. /\ lastWake' = d.target /\ upsets' = upsets /\ Announce(d.letters, d.target)
        /\ Lose(IF d.target = session THEN {} ELSE d.letters \ announced, "ended")
      BY <1>4, Zenon DEF Tell
  <2>2. /\ fate' \in [Mail -> Causes]
        /\ Fated' = Fated \union ((IF d.target = session THEN {} ELSE d.letters \ announced) \intersect Mail)
      BY <2>1, LostIsFated DEF WatchTypes, Causes
  <2>3. /\ ring' = ring \union d.letters /\ ring' \subseteq 1..arrived
        /\ heard' \subseteq announced' /\ announced' \subseteq 1..arrived
        /\ twice' \subseteq heard' \union announced'
        /\ announced \subseteq announced' /\ announced' \subseteq announced \union d.letters
        /\ d.target = session => d.letters \subseteq announced'
    <3>1. d.letters \in SUBSET (1..arrived)
        OBVIOUS
    <3> QED
        BY <2>1, <3>1, AnnouncedTypes
  <2>4. d.letters \subseteq announced' \union Fated'
      BY <2>2, <2>3
  <2>5. WatchTypes'
    <3>1. lastWake' \in 0..MaxUpsets + 1
        BY <2>1, WatcherAssumption
    <3> QED
        BY <1>1, <1>2, <2>1, <2>2, <2>3, <3>1, DeliveryTypesKept DEF WatchTypes, MailTypes, LetterTypes
  <2>6. RingIsCovered'
      BY <2>2, <2>3, <2>4 DEF RingIsCovered
  <2> QED
      BY <1>1, <1>3, <2>1, <2>2, <2>3, <2>4, <2>5, <2>6
<1>5. CASE TellThrows(d)
  <2>1. /\ UNCHANGED <<ring, heard, announced, twice, lastWake>> /\ upsets' \in 0..MaxUpsets
        /\ Lose(d.letters \ announced, "torn")
      BY <1>5, WatcherAssumption DEF TellThrows, Upset, sessions, history, WatchTypes, MailTypes
  <2>2. fate' \in [Mail -> Causes] /\ Fated' = Fated \union ((d.letters \ announced) \intersect Mail)
      BY <2>1, LostIsFated DEF WatchTypes, Causes
  <2>3. WatchTypes'
      BY <1>1, <1>2, <2>1, <2>2, DeliveryTypesKept DEF WatchTypes, MailTypes, LetterTypes
  <2>4. RingIsCovered'
      BY <2>1, <2>2 DEF RingIsCovered
  <2> QED
      BY <1>1, <1>3, <2>1, <2>2, <2>3, <2>4
<1> QED
    BY <1>4, <1>5

LEMMA ReconcileKeeps ==
    ASSUME WatchTypes, RingIsCovered, NEW d \in deliveries, Reconcile(d)
    PROVE  /\ WatchTypes' /\ RingIsCovered'
           /\ UNCHANGED <<issues, lastSeen, watchCursor, reader, batch>>
           /\ Fated \subseteq Fated' /\ announced \subseteq announced' /\ announced' \subseteq announced \union d.letters
           /\ batch \union Delivered(deliveries) \subseteq announced' \union Fated' \union batch' \union Delivered(deliveries')
           /\ d.pc = "ask"
           /\ \E fresh \in SUBSET d.letters :
                /\ fresh \intersect ring = {}
                /\ raced' = raced \union {l \in fresh : \E e \in deliveries : e.pc = "tell" /\ l \in e.letters}
                /\ \/ /\ UNCHANGED <<ring, heard, announced, twice>>
                      /\ deliveries' = (deliveries \ {d}) \union {[d EXCEPT !.pc = "tell", !.letters = fresh]}
                   \/ Announce(fresh, d.target) /\ deliveries' = deliveries \ {d}
<1> USE DeliveryParts
<1>1. /\ UNCHANGED <<arrived, closed, issues, streams, rawKey, watchCursor, lastSeen, mode, loop, reader, session, lastWake,
                     batch, upsets>>
      /\ d.pc = "ask"
    BY Zenon DEF Reconcile, offer, disk, sessions
<1>2. PICK open \in {d.letters \ closed, d.letters} :
        LET fresh == Unannounced(open) IN
        /\ raced' = raced \union {l \in fresh : \E e \in deliveries : e.pc = "tell" /\ l \in e.letters}
        /\ IF fresh # {} /\ ~d.sticky
           THEN /\ deliveries' = (deliveries \ {d}) \union {[d EXCEPT !.pc = "tell", !.letters = fresh]}
                /\ Lose((d.letters \ open) \ announced, "closed")
                /\ UNCHANGED <<ring, heard, announced, twice>>
           ELSE /\ deliveries' = deliveries \ {d}
                /\ Announce(fresh, d.target)
                /\ Lose((IF d.target = session THEN d.letters \ open ELSE d.letters) \ announced,
                        IF d.target = session THEN "closed" ELSE "ended")
    BY Zenon DEF Reconcile
<1> DEFINE fresh == open \ ring
<1>3. /\ raced' = raced \union {l \in fresh : \E e \in deliveries : e.pc = "tell" /\ l \in e.letters}
      /\ fresh \subseteq d.letters /\ fresh \intersect ring = {} /\ open \subseteq d.letters
      /\ raced' \subseteq 1..arrived
    BY <1>1, <1>2 DEF Unannounced, WatchTypes, LetterTypes
<1>4. CASE fresh # {} /\ ~d.sticky
  <2> DEFINE next == [d EXCEPT !.pc = "tell", !.letters = fresh]
  <2>1. /\ deliveries' = (deliveries \ {d}) \union {next} /\ UNCHANGED <<ring, heard, announced, twice>>
        /\ Lose((d.letters \ open) \ announced, "closed")
      BY <1>2, <1>4 DEF Unannounced
  <2>2. fate' \in [Mail -> Causes] /\ Fated' = Fated \union (((d.letters \ open) \ announced) \intersect Mail)
      BY <2>1, LostIsFated DEF WatchTypes, Causes
  <2>3. next \in Deliveries(arrived) /\ next.pc = "tell" /\ next.letters = fresh
      BY <1>3 DEF Deliveries
  <2> HIDE DEF next
  <2>4. IsFiniteSet(deliveries') /\ deliveries' \subseteq Deliveries(arrived)
      BY <2>1, <2>3, FS_RemoveElement, FS_AddElement DEF WatchTypes, DeliveryTypes
  <2>5. WatchTypes'
      BY <1>1, <1>3, <2>1, <2>2, <2>4, DeliveryTypesKept DEF WatchTypes, MailTypes, LetterTypes
  <2>6. RingIsCovered'
      BY <2>1, <2>2 DEF RingIsCovered
  <2>7. Delivered(deliveries) \subseteq announced \union Fated' \union Delivered(deliveries')
    <3>1. d.letters \subseteq announced \union Fated' \union fresh
        BY <2>2 DEF RingIsCovered
    <3>2. fresh \subseteq Delivered(deliveries')
        BY <2>1, <2>3 DEF Delivered
    <3>3. \A e \in deliveries \ {d} : e.letters \subseteq Delivered(deliveries')
        BY <2>1 DEF Delivered
    <3> QED
        BY <3>1, <3>2, <3>3 DEF Delivered
  <2> QED
      BY <1>1, <1>3, <2>1, <2>2, <2>5, <2>6, <2>7 DEF next
<1>5. CASE ~(fresh # {} /\ ~d.sticky)
  <2> DEFINE gone == (IF d.target = session THEN d.letters \ open ELSE d.letters) \ announced
             why == IF d.target = session THEN "closed" ELSE "ended"
  <2>1. deliveries' = deliveries \ {d} /\ Announce(fresh, d.target) /\ Lose(gone, why)
      BY <1>2, <1>5 DEF Unannounced
  <2>2. why \in Causes /\ why # "none"
      BY DEF Causes
  <2>3. fate' \in [Mail -> Causes] /\ Fated' = Fated \union (gone \intersect Mail)
      BY <2>1, <2>2, LostIsFated DEF WatchTypes
  <2>4. IsFiniteSet(deliveries') /\ deliveries' \subseteq Deliveries(arrived)
      BY <2>1, FS_RemoveElement DEF WatchTypes, DeliveryTypes
  <2>5. /\ ring' = ring \union fresh /\ ring' \subseteq 1..arrived
        /\ heard' \subseteq announced' /\ announced' \subseteq 1..arrived
        /\ twice' \subseteq heard' \union announced'
        /\ announced \subseteq announced' /\ announced' \subseteq announced \union fresh
        /\ d.target = session => fresh \subseteq announced'
    <3>1. fresh \in SUBSET (1..arrived)
        BY <1>3
    <3> QED
        BY <2>1, <3>1, AnnouncedTypes
  <2>6. d.letters \subseteq announced' \union Fated'
      BY <2>3, <2>5 DEF RingIsCovered
  <2>7. WatchTypes'
      BY <1>1, <1>3, <2>3, <2>4, <2>5, DeliveryTypesKept DEF WatchTypes, MailTypes, LetterTypes
  <2>8. RingIsCovered'
      BY <1>3, <2>3, <2>5, <2>6 DEF RingIsCovered
  <2>9. Delivered(deliveries) \subseteq announced' \union Fated' \union Delivered(deliveries')
      BY <2>1, <2>6 DEF Delivered
  <2> QED
      BY <1>1, <1>3, <2>1, <2>3, <2>5, <2>7, <2>8, <2>9
<1> QED
    BY <1>4, <1>5

\* The process ends: what it had in memory is lost for a reason.
LEMMA CrashKeeps ==
    ASSUME WatchTypes, WatchCrashes
    PROVE  /\ WatchTypes'
           /\ UNCHANGED <<issues, lastSeen, watchCursor, announced, twice, raced>>
           /\ reader' = [r \in Readers |-> AtRest] /\ deliveries' = {} /\ ring' = {} /\ heard' = {}
           /\ Fated \subseteq Fated' /\ Carried \subseteq announced' \union Fated'
<1>1. /\ UNCHANGED <<arrived, closed, issues, streams, rawKey, watchCursor, lastSeen, session, lastWake, announced, twice, raced>>
      /\ mode' = "off" /\ loop' = "none" /\ reader' = [r \in Readers |-> AtRest]
      /\ batch' = {} /\ deliveries' = {} /\ ring' = {} /\ heard' = {} /\ Lose(InHand \ announced, "crash")
    BY Zenon DEF WatchCrashes, offer, disk, sessions
<1>2. upsets' \in 0..MaxUpsets
    BY WatcherAssumption DEF WatchCrashes, Upset, WatchTypes, MailTypes
<1>3. fate' \in [Mail -> Causes] /\ Fated' = Fated \union ((InHand \ announced) \intersect Mail)
    BY <1>1, LostIsFated DEF WatchTypes, Causes
<1>4. Carried \subseteq InHand /\ Carried \subseteq Mail
  <2>1. \A r \in Readers : HandOf(r) \subseteq PageOf(r) /\ (HandOf(r) # {} => reader[r].pc \in {"cursor", "seen"})
      BY DEF HandOf
  <2>2. \A r \in Readers : HandOf(r) \subseteq InHand /\ HandOf(r) \subseteq Mail
      BY <2>1, PageParts DEF InHand
  <2>3. batch \subseteq Mail
      BY WatcherAssumption DEF WatchTypes, LetterTypes, MailTypes, Mail
  <2>4. \A d \in deliveries : d.letters \subseteq Mail
      BY DeliveryParts
  <2>5. batch \subseteq InHand /\ UNION {d.letters : d \in deliveries} \subseteq InHand
      BY Zenon DEF InHand
  <2>6. UNION {d.letters : d \in deliveries} \subseteq Mail
      BY <2>4
  <2>7. UNION {HandOf(r) : r \in Readers} \subseteq InHand \intersect Mail
      BY <2>2
  <2> QED
      BY <2>3, <2>5, <2>6, <2>7 DEF Carried
<1>5. WatchTypes'
  <2>1. MailTypes'
      BY <1>1, <1>2 DEF WatchTypes, MailTypes
  <2>2. ReaderTypes'
      BY <1>1, AtRestIsAPage DEF WatchTypes, ReaderTypes
  <2>3. LetterTypes'
      BY <1>1, <1>3 DEF WatchTypes, LetterTypes
  <2>4. DeliveryTypes'
      BY <1>1, FS_EmptySet DEF DeliveryTypes
  <2> QED
      BY <2>1, <2>2, <2>3, <2>4 DEF WatchTypes
<1> QED
    BY <1>1, <1>3, <1>4, <1>5

\* What a reader's step leaves accounted for: all there was, if its own hand is.
LEMMA ReaderKeepsAccount ==
    ASSUME WatchInv, NEW r \in Readers, \A q \in Readers \ {r} : reader'[q] = reader[q],
           UNCHANGED <<issues, deliveries, ring, announced>>, Fated \subseteq Fated', batch \subseteq batch',
           HandOf(r) \subseteq announced \union Fated' \union batch' \union HandOf(r)',
           reader'[r].pc = "cursor" /\ reader'[r].boot => issues
    PROVE  /\ Accounted \subseteq Accounted' /\ RingIsCovered' /\ CursorsAreIssued'
           /\ HandOf(r)' \subseteq Accounted'
           /\ \A q \in Readers \ {r} : reader'[q].pc \in {"page", "taken", "cursor"} /\ ~reader'[q].boot =>
                \A l \in Mail : l <= reader'[q].lo => l \in Accounted'
<1>1. \A q \in Readers \ {r} : HandOf(q)' = HandOf(q)
    BY DEF HandOf, PageOf
<1>2. UNION {HandOf(q) : q \in Readers} \subseteq HandOf(r) \union UNION {HandOf(q)' : q \in Readers}
    BY <1>1
<1>3. (UNION {HandOf(q) : q \in Readers})' = UNION {HandOf(q)' : q \in Readers}
    OBVIOUS
<1>4. HandOf(r)' \subseteq (UNION {HandOf(q) : q \in Readers})'
    BY <1>3
<1>5. Accounted \subseteq Accounted' /\ HandOf(r)' \subseteq Accounted'
  <2> DEFINE hands == UNION {HandOf(q) : q \in Readers}
             posts == UNION {d.letters : d \in deliveries}
  <2>1. /\ hands \subseteq HandOf(r) \union hands' /\ HandOf(r)' \subseteq hands' /\ posts' = posts
      BY <1>2, <1>3, <1>4
  <2>2. /\ Accounted = announced \union Fated \union (batch \union posts \union hands)
        /\ Accounted' = announced' \union Fated' \union (batch' \union posts' \union hands')
      BY DEF Accounted, Carried
  <2> HIDE DEF hands, posts
  <2> QED
      BY <2>1, <2>2
<1>6. RingIsCovered'
    BY DEF WatchInv, RingIsCovered
<1>7. CursorsAreIssued'
    BY DEF WatchInv, CursorsAreIssued
<1> QED
    BY <1>5, <1>6, <1>7 DEF WatchInv, PagesAreCovered

LEMMA ReadsKeepWatchInv ==
    ASSUME WatchInv, NEW r \in Readers, Reads(r) \/ WriteThrows(r)
    PROVE  WatchInv'
<1>1. /\ WatchTypes /\ reader[r].lo \in 0..MaxLetters /\ reader[r].hi \in 0..arrived
      /\ watchCursor \in NoPlace..MaxLetters /\ lastSeen \in 0..arrived /\ MaxLetters \in Nat /\ arrived \in Nat
    BY PageParts, WatcherAssumption DEF WatchInv, WatchTypes, ReaderTypes, MailTypes
<1>2. CASE FetchSince(r) \/ FetchNewest(r) \/ TakesPage(r) \/ (r = "stream" /\ DropsPage)
  <2>1. /\ WatchTypes' /\ UNCHANGED <<issues, watchCursor, lastSeen, batch, deliveries, ring, announced, fate>>
        /\ \A q \in Readers \ {r} : reader'[q] = reader[q]
        /\ reader[r].pc \in {"rest", "page"} /\ reader'[r].pc \in {"rest", "page", "taken"}
        /\ reader'[r].pc = "page" /\ ~reader'[r].boot => reader'[r].lo = watchCursor
        /\ reader'[r].pc = "taken" => /\ reader[r].pc = "page" /\ ~reader[r].boot
                                      /\ reader'[r].lo = reader[r].lo
      BY <1>1, <1>2, FetchTypes
  <2>2. HandOf(r) = {} /\ Fated' = Fated
      BY <2>1 DEF HandOf, Fated
  <2>3. /\ Accounted \subseteq Accounted' /\ RingIsCovered' /\ CursorsAreIssued'
        /\ \A q \in Readers \ {r} : reader'[q].pc \in {"page", "taken", "cursor"} /\ ~reader'[q].boot =>
                \A l \in Mail : l <= reader'[q].lo => l \in Accounted'
      BY <2>1, <2>2, ReaderKeepsAccount
  <2>4. PositionsAreCovered'
      BY <2>1, <2>3 DEF WatchInv, PositionsAreCovered
  <2>5. PagesAreCovered'
      BY <2>1, <2>3 DEF WatchInv, PositionsAreCovered, PagesAreCovered
  <2> QED
      BY <2>1, <2>3, <2>4, <2>5 DEF WatchInv
<1>3. CASE WriteWatchCursor(r)
  <2>1. /\ WatchTypes' /\ UNCHANGED <<issues, lastSeen, batch, deliveries, ring, announced>>
        /\ watchCursor' = reader[r].hi /\ Fated \subseteq Fated'
        /\ \A q \in Readers \ {r} : reader'[q] = reader[q]
        /\ reader'[r].pc = "cursor" /\ reader'[r].lo = reader[r].lo /\ reader'[r].hi = reader[r].hi
        /\ reader'[r].boot = reader[r].boot /\ (reader[r].boot => issues)
        /\ IF reader[r].boot THEN reader[r].pc = "page" ELSE reader[r].pc = "taken"
        /\ reader[r].boot => \A l \in 1..reader[r].hi : l > lastSeen => l \in announced \union Fated'
      BY <1>1, <1>3, CursorWritten
  <2>2. HandOf(r) = {} /\ (~reader[r].boot => HandOf(r)' = reader[r].lo + 1..reader[r].hi)
      BY <2>1 DEF HandOf, PageOf
  <2>3. /\ Accounted \subseteq Accounted' /\ RingIsCovered' /\ CursorsAreIssued' /\ HandOf(r)' \subseteq Accounted'
        /\ \A q \in Readers \ {r} : reader'[q].pc \in {"page", "taken", "cursor"} /\ ~reader'[q].boot =>
                \A l \in Mail : l <= reader'[q].lo => l \in Accounted'
      BY <2>1, <2>2, ReaderKeepsAccount
  <2>4. ~reader[r].boot => \A l \in Mail : l <= reader[r].lo => l \in Accounted'
      BY <2>1, <2>3 DEF WatchInv, PagesAreCovered
  <2>5. \A l \in Mail : l <= lastSeen => l \in Accounted'
      BY <2>3 DEF WatchInv, PositionsAreCovered
  <2>6. \A l \in Mail : l <= reader[r].hi => l \in Accounted'
    <3>1. CASE reader[r].boot
      <4>1. announced \union Fated' \subseteq Accounted'
          BY <2>1 DEF Accounted
      <4> QED
          BY <1>1, <2>1, <2>5, <3>1, <4>1 DEF Mail
    <3>2. CASE ~reader[r].boot
        BY <1>1, <2>2, <2>3, <2>4, <3>2 DEF Mail
    <3> QED
        BY <3>1, <3>2
  <2>7. PositionsAreCovered' /\ PagesAreCovered'
      BY <2>1, <2>3, <2>4, <2>5, <2>6 DEF PositionsAreCovered, PagesAreCovered
  <2> QED
      BY <2>1, <2>3, <2>7 DEF WatchInv
<1>4. CASE WriteLastSeen(r)
  <2>1. /\ WatchTypes' /\ UNCHANGED <<issues, watchCursor, batch, deliveries, ring, announced>>
        /\ lastSeen' \in {lastSeen, reader[r].hi} /\ Fated \subseteq Fated'
        /\ PageOf(r) = {} => lastSeen' = lastSeen
        /\ \A q \in Readers \ {r} : reader'[q] = reader[q]
        /\ reader[r].pc = (IF reader[r].boot /\ ~issues THEN "page" ELSE "cursor")
        /\ IF Fresh(r) = {} THEN reader'[r].pc \in {"mint", "rest"}
              ELSE /\ reader'[r].pc = "seen" /\ reader'[r].hi = reader[r].hi
                   /\ reader'[r].lo = FirstNew(r)
        /\ reader[r].boot => \A l \in 1..reader[r].hi : l > lastSeen => l \in announced \union Fated' \union Fresh(r)
      BY <1>1, <1>4, LastSeenWritten
  \* What is new is in the reader's hand afterwards.
  <2>2. Fresh(r) \subseteq HandOf(r)'
    <3>1. CASE Fresh(r) = {}
        BY <3>1
    <3>2. CASE Fresh(r) # {} /\ ~reader[r].boot
        BY <2>1, <3>2 DEF Fresh, HandOf, PageOf, FirstNew
    <3>3. CASE Fresh(r) # {} /\ reader[r].boot
      <4>1. HandOf(r)' = FirstNew(r) + 1..reader[r].hi
          BY <2>1, <3>3 DEF HandOf, PageOf
      <4>2. Fresh(r) \subseteq {l \in reader[r].lo + 1..reader[r].hi : l > lastSeen}
          BY <3>3 DEF Fresh, PageOf
      <4> QED
          BY <1>1, <3>3, <4>1, <4>2 DEF FirstNew
    <3> QED
        BY <3>1, <3>2, <3>3
  <2>3. HandOf(r) \subseteq Fresh(r) /\ (~reader[r].boot => PageOf(r) \subseteq HandOf(r)')
      BY <2>1, <2>2 DEF HandOf, Fresh
  <2>4. /\ Accounted \subseteq Accounted' /\ RingIsCovered' /\ CursorsAreIssued' /\ HandOf(r)' \subseteq Accounted'
        /\ \A q \in Readers \ {r} : reader'[q].pc \in {"page", "taken", "cursor"} /\ ~reader'[q].boot =>
                \A l \in Mail : l <= reader'[q].lo => l \in Accounted'
    <3>1. /\ HandOf(r) \subseteq announced \union Fated' \union batch' \union HandOf(r)'
          /\ reader'[r].pc # "cursor" /\ batch \subseteq batch'
        BY <2>1, <2>2, <2>3
    <3> QED
        BY <2>1, <3>1, ReaderKeepsAccount
  <2>5. \A l \in Mail : l <= lastSeen => l \in Accounted'
      BY <2>4 DEF WatchInv, PositionsAreCovered
  <2>6. \A l \in Mail : l <= reader[r].hi => l \in Accounted'
    <3>1. CASE reader[r].boot
      <4>1. announced \union Fated' \union Fresh(r) \subseteq Accounted'
          BY <2>1, <2>2, <2>4 DEF Accounted
      <4> QED
          BY <1>1, <2>1, <2>5, <3>1, <4>1 DEF Mail
    <3>2. CASE ~reader[r].boot
      <4>1. \A l \in Mail : l <= reader[r].lo => l \in Accounted'
          BY <2>1, <2>4, <3>2 DEF WatchInv, PagesAreCovered
      <4> QED
          BY <1>1, <2>3, <2>4, <3>2, <4>1 DEF Mail, PageOf
    <3> QED
        BY <3>1, <3>2
  <2>7. PositionsAreCovered' /\ PagesAreCovered'
    <3>1. reader'[r].pc \in {"mint", "rest", "seen"}
        BY <2>1
    <3> QED
        BY <2>1, <2>4, <2>5, <2>6, <3>1 DEF WatchInv, PositionsAreCovered, PagesAreCovered
  <2> QED
      BY <2>1, <2>4, <2>7 DEF WatchInv
<1>5. CASE Enqueue(r) \/ WriteThrows(r)
  <2>1. /\ WatchTypes'
        /\ UNCHANGED <<issues, watchCursor, lastSeen, deliveries, ring, announced>>
        /\ Fated \subseteq Fated' /\ batch \subseteq batch'
        /\ \A q \in Readers \ {r} : reader'[q] = reader[q]
        /\ reader'[r].pc \in {"mint", "rest"}
        /\ HandOf(r) \subseteq announced \union Fated' \union batch'
      BY <1>1, <1>5, HandsAreEmptied
  <2>2. /\ Accounted \subseteq Accounted' /\ RingIsCovered' /\ CursorsAreIssued'
        /\ \A q \in Readers \ {r} : reader'[q].pc \in {"page", "taken", "cursor"} /\ ~reader'[q].boot =>
                \A l \in Mail : l <= reader'[q].lo => l \in Accounted'
      BY <2>1, ReaderKeepsAccount
  <2>3. PositionsAreCovered' /\ PagesAreCovered'
      BY <2>1, <2>2 DEF WatchInv, PositionsAreCovered, PagesAreCovered
  <2> QED
      BY <2>1, <2>2, <2>3 DEF WatchInv
<1>6. CASE r = "stream" /\ MintStreamCursor
  <2>1. /\ WatchTypes'
        /\ UNCHANGED <<issues, lastSeen, batch, deliveries, ring, announced>>
        /\ Fated \subseteq Fated' /\ \A q \in Readers \ {r} : reader'[q] = reader[q]
        /\ reader[r].pc = "mint" /\ reader'[r].pc = "rest"
        /\ watchCursor' = watchCursor \/ \A l \in Mail : l > lastSeen /\ l <= watchCursor' => l \in Fated'
      BY <1>1, <1>6, CursorMinted DEF Readers
  <2>2. HandOf(r) = {}
      BY <2>1 DEF HandOf
  <2>3. /\ Accounted \subseteq Accounted' /\ RingIsCovered' /\ CursorsAreIssued'
        /\ \A q \in Readers \ {r} : reader'[q].pc \in {"page", "taken", "cursor"} /\ ~reader'[q].boot =>
                \A l \in Mail : l <= reader'[q].lo => l \in Accounted'
      BY <2>1, <2>2, ReaderKeepsAccount
  <2>4. PositionsAreCovered'
    <3>1. Fated' \subseteq Accounted'
        BY DEF Accounted
    <3> QED
        BY <1>1, <2>1, <2>3, <3>1 DEF WatchInv, PositionsAreCovered, Mail
  <2>5. PagesAreCovered'
      BY <2>1, <2>3 DEF PagesAreCovered
  <2> QED
      BY <2>1, <2>3, <2>4, <2>5 DEF WatchInv
<1> QED
    BY <1>2, <1>3, <1>4, <1>5, <1>6 DEF Reads

\* A step that leaves the readers alone keeps the invariant if it drops no letter.
LEMMA OthersKeepAccount ==
    ASSUME WatchInv, UNCHANGED <<issues, reader, lastSeen, watchCursor>>, announced \subseteq announced',
           Fated \subseteq Fated',
           batch \union Delivered(deliveries) \subseteq announced' \union Fated' \union batch' \union Delivered(deliveries')
    PROVE  PositionsAreCovered' /\ PagesAreCovered' /\ CursorsAreIssued'
<1> DEFINE hands == UNION {HandOf(q) : q \in Readers}
<1>1. hands' = hands
    BY DEF HandOf, PageOf
<1>2. /\ Accounted = announced \union Fated \union (batch \union Delivered(deliveries) \union hands)
      /\ Accounted' = announced' \union Fated' \union (batch' \union Delivered(deliveries') \union hands')
    BY DEF Accounted, Carried, Delivered
<1> HIDE DEF hands
<1>3. Accounted \subseteq Accounted'
    BY <1>1, <1>2
<1> QED
    BY <1>3 DEF WatchInv, PositionsAreCovered, PagesAreCovered, CursorsAreIssued

LEMMA WatchInvStep ==
    ASSUME WatchInv, [WatchNext]_watchVars
    PROVE  WatchInv'
<1>0. WatchTypes /\ RingIsCovered
    BY DEF WatchInv
<1>1. CASE \E r \in Readers : Reads(r) \/ WriteThrows(r)
    BY <1>1, ReadsKeepWatchInv
<1>2. CASE \/ MailArrives \/ SessionEnds \/ SessionOpens \/ WatchStarts \/ OthersFallBack \/ Adopts \/ FallsBack
           \/ (\E l \in Mail : MailCloses(l))
  <2>1. /\ WatchTypes'
        /\ UNCHANGED <<issues, watchCursor, lastSeen, reader, batch, deliveries, ring, announced, fate>>
      BY <1>0, <1>2, WorldTypes
  <2>2. PositionsAreCovered' /\ PagesAreCovered' /\ CursorsAreIssued'
      BY <2>1, OthersKeepAccount DEF Fated
  <2>3. RingIsCovered'
      BY <1>0, <2>1 DEF RingIsCovered, Fated
  <2> QED
      BY <2>1, <2>2, <2>3 DEF WatchInv
<1>3. CASE Flush
  <2>1. PositionsAreCovered' /\ PagesAreCovered' /\ CursorsAreIssued'
      BY <1>0, <1>3, FlushKeeps, OthersKeepAccount
  <2>2. RingIsCovered'
      BY <1>0, <1>3, FlushKeeps DEF RingIsCovered
  <2> QED
      BY <1>0, <1>3, <2>1, <2>2, FlushKeeps DEF WatchInv
<1>4. ASSUME NEW d \in deliveries, Reconcile(d) PROVE WatchInv'
  <2>1. PositionsAreCovered' /\ PagesAreCovered' /\ CursorsAreIssued'
      BY <1>0, <1>4, ReconcileKeeps, OthersKeepAccount
  <2> QED
      BY <1>0, <1>4, <2>1, ReconcileKeeps DEF WatchInv
<1>5. ASSUME NEW d \in deliveries, Tell(d) \/ TellThrows(d) PROVE WatchInv'
  <2>1. PositionsAreCovered' /\ PagesAreCovered' /\ CursorsAreIssued'
      BY <1>0, <1>5, TellKeeps, OthersKeepAccount
  <2> QED
      BY <1>0, <1>5, <2>1, TellKeeps DEF WatchInv
<1>6. CASE WatchCrashes
  <2>1. /\ WatchTypes' /\ UNCHANGED <<lastSeen, watchCursor, announced>>
        /\ reader' = [r \in Readers |-> AtRest] /\ ring' = {} /\ Fated \subseteq Fated'
        /\ Carried \subseteq announced' \union Fated'
      BY <1>0, <1>6, CrashKeeps
  <2>2. Accounted \subseteq Accounted'
      BY <2>1 DEF Accounted
  <2>3. \A r \in Readers : reader'[r].pc = "rest"
      BY <2>1 DEF AtRest
  <2> QED
      BY <2>1, <2>2, <2>3 DEF WatchInv, PositionsAreCovered, PagesAreCovered, RingIsCovered, CursorsAreIssued
<1>7. CASE UNCHANGED watchVars
  <2>1. UNCHANGED <<arrived, closed, issues, streams, rawKey, watchCursor, lastSeen, mode, loop, reader,
               batch, deliveries, ring, session, lastWake, heard, announced, twice, raced, fate, upsets>>
      BY <1>7 DEF watchVars
  <2>2. WatchTypes'
      BY <1>0, <2>1 DEF WatchTypes, MailTypes, ReaderTypes, LetterTypes, DeliveryTypes
  <2>3. PositionsAreCovered' /\ PagesAreCovered' /\ CursorsAreIssued'
      BY <2>1, OthersKeepAccount DEF Fated
  <2> QED
      BY <1>0, <2>1, <2>2, <2>3 DEF WatchInv, RingIsCovered, Fated
<1> QED
    BY <1>1, <1>2, <1>3, <1>4, <1>5, <1>6, <1>7 DEF WatchNext, WatchSteps, WatchWorld, Delivers

LEMMA WatchInvInit == WatchInit => WatchInv
<1> SUFFICES ASSUME WatchInit PROVE WatchInv
    OBVIOUS
<1>1. WatchTypes
    BY WatchInitTypes
<1>2. lastSeen = 0 /\ watchCursor = NoPlace /\ ring = {} /\ \A r \in Readers : reader[r].pc = "rest"
    BY DEF WatchInit, AtRest
<1> QED
    BY <1>1, <1>2 DEF WatchInv, PositionsAreCovered, PagesAreCovered, RingIsCovered, CursorsAreIssued, Mail, NoPlace

LEMMA WatchInvHolds == WatchSpec => []WatchInv
BY WatchInvInit, WatchInvStep, PTL DEF WatchSpec

\* Types hold for any number of letters, upsets and pages.
THEOREM WatcherTypes == WatchSpec => []WatchTypeOK
<1>1. WatchInv => WatchTypeOK
  <2> SUFFICES ASSUME WatchInv PROVE WatchTypeOK
      OBVIOUS
  <2>1. \A d \in deliveries : /\ d.id \in Nat /\ d.pc \in {"ask", "tell"} /\ d.letters \subseteq 1..arrived
                              /\ d.target \in 1..MaxUpsets + 1 /\ d.sticky \in BOOLEAN
      BY DEF WatchInv, WatchTypes, DeliveryTypes, Deliveries
  <2> QED
      BY <2>1 DEF WatchInv, WatchTypes, MailTypes, ReaderTypes, LetterTypes, WatchTypeOK, Pages, ReaderSteps
<1> QED
    BY <1>1, WatchInvHolds, PTL

-----------------------------------------------------------------------------
(* The watcher implements MailPromise.                                     *)

\* Where a letter stands, case by case.
LEMMA StatusByCases ==
    ASSUME NEW l \in Mail
    PROVE  /\ Status[l] = "told" <=> l \in announced
           /\ Status[l] = "excused" <=> l \in Fated \ announced
           /\ Status[l] = "waiting" <=> l \notin announced \union Fated \union InHand
           /\ Status[l] \in Promise!Statuses
BY DEF Status, Fated, Promise!Statuses

\* The same after a step.
LEMMA StatusByCasesNext ==
    ASSUME NEW l \in Mail
    PROVE  /\ Status'[l] = "told" <=> l \in announced'
           /\ Status'[l] = "excused" <=> l \in Fated' \ announced'
           /\ Status'[l] = "waiting" <=> l \notin announced' \union Fated' \union InHand'
           /\ Status'[l] \in Promise!Statuses
BY DEF Status, Fated, Promise!Statuses

LEMMA InitKeepsPromise == WatchInit => Promise!PromiseInit
<1> SUFFICES ASSUME WatchInit PROVE Promise!PromiseInit
    OBVIOUS
<1>1. announced = {} /\ Fated = {} /\ InHand = {}
  <2>1. \A r \in Readers : reader[r].pc = "rest"
      BY DEF WatchInit, AtRest
  <2> QED
      BY <2>1 DEF WatchInit, Fated, InHand
<1>2. {l \in 1..arrived : l <= Position} = {}
    BY DEF WatchInit
<1>3. \A l \in Mail : Status[l] = "waiting"
    BY <1>1, StatusByCases
<1>4. Status = [l \in Mail |-> Status[l]]
    BY DEF Status
<1> QED
    BY <1>2, <1>3, <1>4 DEF Promise!PromiseInit

\* Nothing said or lost is taken back, and only what is in hand is said.
LEMMA SaidFromTheHand ==
    ASSUME WatchInv, [WatchNext]_watchVars
    PROVE  announced \subseteq announced' /\ announced' \subseteq announced \union InHand /\ Fated \subseteq Fated'
<1>0. WatchTypes /\ RingIsCovered
    BY DEF WatchInv
<1>1. CASE \E r \in Readers : Reads(r) \/ WriteThrows(r)
  <2> PICK r \in Readers : Reads(r) \/ WriteThrows(r)
      BY <1>1
  <2>1. CASE FetchSince(r) \/ FetchNewest(r) \/ TakesPage(r) \/ (r = "stream" /\ DropsPage)
      BY <1>0, <2>1, FetchTypes DEF Fated
  <2>2. CASE WriteWatchCursor(r)
      BY <1>0, <2>2, CursorWritten
  <2>3. CASE WriteLastSeen(r)
      BY <1>0, <2>3, LastSeenWritten
  <2>4. CASE Enqueue(r) \/ WriteThrows(r)
      BY <1>0, <2>4, HandsAreEmptied
  <2>5. CASE r = "stream" /\ MintStreamCursor
      BY <1>0, <2>5, CursorMinted
  <2> QED
      BY <2>1, <2>2, <2>3, <2>4, <2>5 DEF Reads
<1>2. CASE \/ MailArrives \/ SessionEnds \/ SessionOpens \/ WatchStarts \/ OthersFallBack \/ Adopts \/ FallsBack
           \/ (\E l \in Mail : MailCloses(l))
    BY <1>0, <1>2, WorldTypes DEF Fated
<1>3. CASE Flush
    BY <1>0, <1>3, FlushKeeps
<1>4. ASSUME NEW d \in deliveries, Reconcile(d) \/ Tell(d) \/ TellThrows(d)
      PROVE  announced \subseteq announced' /\ announced' \subseteq announced \union InHand /\ Fated \subseteq Fated'
  <2>1. d.letters \subseteq InHand
      BY DEF InHand
  <2> QED
      BY <1>0, <1>4, <2>1, ReconcileKeeps, TellKeeps
<1>5. CASE WatchCrashes
    BY <1>0, <1>5, CrashKeeps
<1>6. CASE UNCHANGED watchVars
    BY <1>6 DEF watchVars, Fated
<1> QED
    BY <1>1, <1>2, <1>3, <1>4, <1>5, <1>6 DEF WatchNext, WatchSteps, WatchWorld, Delivers

LEMMA AccountedIsKnown == Accounted \subseteq announced \union Fated \union InHand
<1>1. \A r \in Readers : HandOf(r) # {} => reader[r].pc \in {"cursor", "seen"} /\ HandOf(r) = PageOf(r)
    BY DEF HandOf
<1>2. UNION {HandOf(r) : r \in Readers} \subseteq InHand
    BY <1>1 DEF InHand
<1> QED
    BY <1>2 DEF Accounted, Carried, InHand

\* Each step of the watcher is a step of the promise, or none.
LEMMA StepKeepsPromise ==
    ASSUME WatchInv, WatchInv', [WatchNext]_watchVars
    PROVE  Promise!PromiseNext
<1>1. announced \subseteq announced' /\ announced' \subseteq announced \union InHand /\ Fated \subseteq Fated'
    BY SaidFromTheHand
<1>2. {l \in 1..arrived : l <= Position}' \subseteq Mail
    BY WatcherAssumption DEF WatchInv, WatchTypes, MailTypes, Mail
<1>3. Status' \in [Mail -> Promise!Statuses]
    BY StatusByCasesNext DEF Status
<1>4. ASSUME NEW l \in Mail, Status'[l] # Status[l]
      PROVE  <<Status[l], Status'[l]>> \in Promise!Moves
  <2>1. Status[l] # "told"
      BY <1>1, <1>4, StatusByCases, StatusByCasesNext
  <2>2. Status[l] = "excused" => Status'[l] = "told"
      BY <1>1, <1>4, StatusByCases, StatusByCasesNext
  <2>3. Status[l] = "waiting" => Status'[l] # "told"
      BY <1>1, StatusByCases, StatusByCasesNext
  <2>4. Status[l] \in Promise!Statuses /\ Status'[l] \in Promise!Statuses
      BY StatusByCases, StatusByCasesNext
  <2> QED
      BY <1>4, <2>1, <2>2, <2>3, <2>4 DEF Promise!Statuses, Promise!Moves
<1>5. ASSUME NEW l \in Mail, l \in {k \in 1..arrived : k <= Position}'
      PROVE  Status'[l] # "waiting"
  <2>1. l <= lastSeen' \/ l <= watchCursor'
      BY <1>5 DEF Position
  <2>2. l \in Accounted'
      BY <2>1 DEF WatchInv, PositionsAreCovered
  <2>3. (Accounted \subseteq announced \union Fated \union InHand)'
      BY AccountedIsKnown, PTL
  <2> QED
      BY <2>2, <2>3, StatusByCasesNext
<1> QED
    BY <1>2, <1>3, <1>4, <1>5 DEF Promise!PromiseNext

\* The watcher inside the plugin keeps the promise of MailPromise, for any number of letters,
\* failures, crashes and fallbacks: what its position has passed was told, is in hand, or was put
\* out of reach at one of the nine named points (pollInbox, streamInboxLoop, deliverBatch).
THEOREM WatcherImplementsPromise == WatchSpec => WatcherKeepsThePromise
<1>1. WatchInit => Promise!PromiseInit
    BY InitKeepsPromise
<1>2. WatchInv /\ WatchInv' /\ [WatchNext]_watchVars => [Promise!PromiseNext]_Promise!promiseVars
    BY StepKeepsPromise
<1> QED
    BY <1>1, <1>2, WatchInvHolds, PTL DEF WatchSpec, WatcherKeepsThePromise, Promise!PromiseSpec

-----------------------------------------------------------------------------
(* Nobody is told twice in one life without a race.                        *)

LEMMA RaceInvStep ==
    ASSUME WatchInv, RaceInv, [WatchNext]_watchVars
    PROVE  RaceInv'
<1>0. WatchTypes /\ RingIsCovered
    BY DEF WatchInv
<1> USE DEF RaceInv, SaidIsRinged, TellersRace, AnnouncedTwiceOnlyInARace
<1>1. CASE UNCHANGED <<ring, heard, twice, raced>> /\ \A d \in deliveries' : d.pc = "tell" => d \in deliveries
    BY <1>1
<1>2. CASE \E r \in Readers : Reads(r) \/ WriteThrows(r)
  <2> PICK r \in Readers : Reads(r) \/ WriteThrows(r)
      BY <1>2
  <2>1. CASE FetchSince(r) \/ FetchNewest(r) \/ TakesPage(r) \/ (r = "stream" /\ DropsPage)
      BY <1>0, <1>1, <2>1, FetchTypes
  <2>2. CASE WriteWatchCursor(r)
      BY <1>0, <1>1, <2>2, CursorWritten
  <2>3. CASE WriteLastSeen(r)
      BY <1>0, <1>1, <2>3, LastSeenWritten
  <2>4. CASE Enqueue(r) \/ WriteThrows(r)
      BY <1>0, <1>1, <2>4, HandsAreEmptied
  <2>5. CASE r = "stream" /\ MintStreamCursor
      BY <1>0, <1>1, <2>5, CursorMinted
  <2> QED
      BY <2>1, <2>2, <2>3, <2>4, <2>5 DEF Reads
<1>3. CASE \/ MailArrives \/ SessionEnds \/ SessionOpens \/ WatchStarts \/ OthersFallBack \/ Adopts \/ FallsBack
           \/ (\E l \in Mail : MailCloses(l))
    BY <1>0, <1>1, <1>3, WorldTypes
<1>4. CASE Flush
    BY <1>0, <1>1, <1>4, FlushKeeps
\* Who gets past the ring finds it saying nothing of the letters, so nobody has heard them: only
\* another delivery past the ring can hold them too, and then they are noted as raced.
<1>5. ASSUME NEW d \in deliveries, Reconcile(d) PROVE RaceInv'
  <2>1. PICK fresh \in SUBSET d.letters :
          /\ fresh \intersect ring = {}
          /\ raced' = raced \union {l \in fresh : \E e \in deliveries : e.pc = "tell" /\ l \in e.letters}
          /\ \/ /\ UNCHANGED <<ring, heard, announced, twice>>
                /\ deliveries' = (deliveries \ {d}) \union {[d EXCEPT !.pc = "tell", !.letters = fresh]}
             \/ Announce(fresh, d.target) /\ deliveries' = deliveries \ {d}
      BY <1>0, <1>5, ReconcileKeeps
  <2>2. fresh \intersect heard = {} /\ raced \subseteq raced' /\ fresh \in SUBSET (1..arrived)
      BY <1>0, <2>1, DeliveryParts
  <2>3. \A e \in deliveries : e.pc = "tell" => fresh \intersect e.letters \subseteq raced'
      BY <2>1
  <2>4. CASE UNCHANGED <<ring, heard, announced, twice>>
             /\ deliveries' = (deliveries \ {d}) \union {[d EXCEPT !.pc = "tell", !.letters = fresh]}
    <3> DEFINE next == [d EXCEPT !.pc = "tell", !.letters = fresh]
    <3>1. deliveries' = (deliveries \ {d}) \union {next} /\ next.letters = fresh
        BY <1>0, <2>4, DeliveryParts DEF Deliveries
    <3> HIDE DEF next
    <3>2. TellersRace'
      <4> SUFFICES ASSUME NEW a \in deliveries', a.pc = "tell"
                   PROVE  /\ a.letters \intersect heard \subseteq raced'
                          /\ \A e \in deliveries' : e.pc = "tell" /\ e # a => a.letters \intersect e.letters \subseteq raced'
          BY <2>4
      <4>1. CASE a = next
        <5>1. \A e \in deliveries' : e # a => e \in deliveries
            BY <3>1, <4>1
        <5> QED
            BY <2>2, <2>3, <3>1, <4>1, <5>1
      <4>2. CASE a # next
        <5>1. a \in deliveries
            BY <3>1, <4>2
        <5>2. \A e \in deliveries' : e = next \/ e \in deliveries
            BY <3>1
        <5> QED
            BY <2>2, <2>3, <3>1, <5>1, <5>2
      <4> QED
          BY <4>1, <4>2
    <3> QED
        BY <2>2, <2>4, <3>2
  <2>5. CASE Announce(fresh, d.target) /\ deliveries' = deliveries \ {d}
    <3>1. /\ ring' = ring \union fresh /\ heard' \subseteq heard \union fresh
          /\ twice' \subseteq twice \union (fresh \intersect heard)
        BY <1>0, <2>2, <2>5, AnnouncedTypes
    <3> QED
        BY <2>2, <2>3, <2>5, <3>1
  <2> QED
      BY <2>1, <2>4, <2>5
<1>6. ASSUME NEW d \in deliveries, Tell(d) \/ TellThrows(d) PROVE RaceInv'
  <2>1. /\ deliveries' = deliveries \ {d} /\ d.pc = "tell" /\ raced' = raced
        /\ \/ UNCHANGED <<ring, heard, announced, twice>>
           \/ Announce(d.letters, d.target)
      BY <1>0, <1>6, TellKeeps
  <2>2. CASE Announce(d.letters, d.target)
    <3>1. d.letters \in SUBSET (1..arrived)
        BY <1>0, DeliveryParts
    <3>2. /\ ring' = ring \union d.letters /\ heard' \subseteq heard \union d.letters
          /\ twice' \subseteq twice \union (d.letters \intersect heard)
        BY <1>0, <2>2, <3>1, AnnouncedTypes
    <3>3. d.letters \intersect heard \subseteq raced
        BY <2>1
    <3>4. \A e \in deliveries' : e.pc = "tell" => e.letters \intersect d.letters \subseteq raced
        BY <2>1
    <3> QED
        BY <2>1, <3>2, <3>3, <3>4
  <2> QED
      BY <2>1, <2>2
<1>7. CASE WatchCrashes
    BY <1>0, <1>7, CrashKeeps
<1>8. CASE UNCHANGED watchVars
    BY <1>1, <1>8 DEF watchVars
<1> QED
    BY <1>2, <1>3, <1>4, <1>5, <1>6, <1>7, <1>8 DEF WatchNext, WatchSteps, WatchWorld, Delivers

\* A letter is announced twice in one life of the process only if two deliveries were past the
\* ring with it at once, for any number of deliveries under way (deliverBatch).
THEOREM TwiceOnlyInARace == WatchSpec => []AnnouncedTwiceOnlyInARace
<1>1. WatchInit => RaceInv
    BY DEF WatchInit, RaceInv, SaidIsRinged, TellersRace, AnnouncedTwiceOnlyInARace
<1>2. RaceInv => AnnouncedTwiceOnlyInARace
    BY DEF RaceInv
<1> QED
    BY <1>1, <1>2, WatchInvHolds, RaceInvStep, PTL DEF WatchSpec
=============================================================================
