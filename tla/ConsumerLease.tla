---------------------------- MODULE ConsumerLease ----------------------------
(***************************************************************************)
(* The lock of one mailbox's ledger consumer between the plugin processes  *)
(* of a machine (consumers.ts), with singleHostConsumer on: a file made    *)
(* with O_EXCL, then signed, and held for one round of the consumer.  A    *)
(* lock whose signer is dead, or that is older than two minutes, is stale  *)
(* and may be removed.  Every removal goes by the path of the file,        *)
(* whichever lock lies there by then.                                      *)
(*                                                                         *)
(* A process that ends does not come back: its successor has another pid.  *)
(* One may have ended before, in its round or before it could sign.        *)
(* `robbed' is history: how a process came to lose the lock of its round.  *)
(***************************************************************************)
EXTENDS Naturals

CONSTANTS Consumers,        \* the consumer loops, one in each process
          MaxLeaseFaults    \* bound: processes that end, rounds of two minutes, failed writes

NoLock == [maker |-> "nobody"]
Departed == "departed"

ASSUME LeaseAssumption == MaxLeaseFaults \in Nat /\ Departed \notin Consumers

VARIABLES lock,             \* the file: who made it, whether it is signed, whether it is old
          turn,             \* per process: its step
          tries,            \* per process: locks found in its way in this turn
          robbed,           \* history: how it lost its lock
          leaseFaults

leaseVars == <<lock, turn, tries, robbed, leaseFaults>>

LeaseInit == /\ \/ lock = NoLock /\ leaseFaults = 0
                \/ /\ lock \in [maker : {Departed}, signed : BOOLEAN, old : {FALSE}]
                   /\ leaseFaults = 1 /\ MaxLeaseFaults > 0
             /\ turn = [c \in Consumers |-> "rest"] /\ tries = [c \in Consumers |-> 0]
             /\ robbed = [c \in Consumers |-> "no"]

Alive(c) == c # Departed /\ turn[c] # "dead"
Holds(c) == c # Departed /\ turn[c] \in {"sign", "round", "look", "remove"}
Goes(c, step) == turn' = [turn EXCEPT ![c] = step]
LeaseFault == leaseFaults < MaxLeaseFaults /\ leaseFaults' = leaseFaults + 1

\* The file is removed.  If it is the lock of another process that has not let go of it,
\* that process is robbed.
Unlink(c, why) ==
  /\ lock' = NoLock
  /\ robbed' = [r \in Consumers |->
       IF lock # NoLock /\ r = lock.maker /\ r # c /\ turn[r] \in {"sign", "round"} /\ robbed[r] = "no"
       THEN why ELSE robbed[r]]

\* tick: the lock is asked for.
AsksForLease(c) ==
  /\ turn[c] = "rest" /\ Goes(c, "open") /\ tries' = [tries EXCEPT ![c] = 0]
  /\ UNCHANGED <<lock, robbed, leaseFaults>>

\* open(path, 'wx') makes the file or finds one.
OpensLock(c) ==
  /\ turn[c] = "open"
  /\ IF lock = NoLock
     THEN /\ lock' = [maker |-> c, signed |-> FALSE, old |-> FALSE] /\ Goes(c, "sign")
          /\ robbed' = [robbed EXCEPT ![c] = "no"]
     ELSE Goes(c, "judge") /\ UNCHANGED <<lock, robbed>>
  /\ UNCHANGED <<tries, leaseFaults>>

\* Its pid is written, into the file it made: that may have been removed meanwhile.
SignsLock(c) ==
  /\ turn[c] = "sign" /\ Goes(c, "round")
  /\ lock' = IF lock # NoLock /\ lock.maker = c THEN [lock EXCEPT !.signed = TRUE, !.old = FALSE] ELSE lock
  /\ UNCHANGED <<tries, robbed, leaseFaults>>

\* The write fails: the round is off, and the file stays.
SigningFails(c) ==
  /\ turn[c] = "sign" /\ LeaseFault /\ Goes(c, "rest")
  /\ UNCHANGED <<lock, tries, robbed>>

\* isStaleConsumerLock: a file that has gone counts as stale.
DeadMans(l) == l.signed /\ ~Alive(l.maker)
\* Slip: only what is signed can be stale.
Stale_Signed(l) == l = NoLock \/ (l.signed /\ (l.old \/ DeadMans(l)))
\* Slip: a lock nobody has signed is nobody's.
Stale_Unsigned(l) == l = NoLock \/ l.old \/ ~l.signed \/ DeadMans(l)
Stale(l) == l = NoLock \/ l.old \/ DeadMans(l)
JudgesLock(c) ==
  /\ turn[c] = "judge"
  /\ Goes(c, IF ~Stale(lock) THEN "rest" ELSE IF lock = NoLock THEN "sweep gone" ELSE "sweep")
  /\ UNCHANGED <<lock, tries, robbed, leaseFaults>>

\* What was judged stale is removed; the second time, the round is given up all the same.
SweepsLock(c) ==
  /\ turn[c] \in {"sweep", "sweep gone"}
  /\ Unlink(c, IF turn[c] = "sweep gone" THEN "gone" ELSE IF lock = NoLock THEN "no"
            ELSE IF lock.old \/ DeadMans(lock) THEN "old" ELSE "late")
  /\ Goes(c, IF tries[c] = 0 THEN "open" ELSE "rest")
  /\ tries' = [tries EXCEPT ![c] = 1]
  /\ UNCHANGED leaseFaults

\* The round is over (runRound): release looks who signed the lock ...
EndsRound(c) ==
  /\ turn[c] = "round" /\ Goes(c, "look")
  /\ UNCHANGED <<lock, tries, robbed, leaseFaults>>

MayRelease(c) == lock = NoLock \/ ~lock.signed \/ lock.maker = c
LooksAtLock(c) ==
  /\ turn[c] = "look" /\ Goes(c, IF MayRelease(c) THEN "remove" ELSE "rest")
  /\ UNCHANGED <<lock, tries, robbed, leaseFaults>>

\* ... and removes it, if it is its own, or nobody's yet.
ReleasesLock(c) ==
  /\ turn[c] = "remove" /\ Goes(c, "rest") /\ Unlink(c, "released")
  /\ UNCHANGED <<tries, leaseFaults>>

\* Two minutes pass over a lock: one whose maker holds it no more, or a very long round.
LockAges ==
  /\ lock # NoLock /\ ~lock.old /\ lock' = [lock EXCEPT !.old = TRUE]
  /\ IF Holds(lock.maker) THEN LeaseFault ELSE UNCHANGED leaseFaults
  /\ UNCHANGED <<turn, tries, robbed>>

ConsumerEnds(c) ==
  /\ Alive(c) /\ LeaseFault /\ Goes(c, "dead")
  /\ UNCHANGED <<lock, tries, robbed>>

LeaseSteps(c) == \/ AsksForLease(c) \/ OpensLock(c) \/ SignsLock(c) \/ JudgesLock(c) \/ SweepsLock(c)
                 \/ EndsRound(c) \/ LooksAtLock(c) \/ ReleasesLock(c)
LeaseNext == LockAges \/ \E c \in Consumers : LeaseSteps(c) \/ SigningFails(c) \/ ConsumerEnds(c)

\* Every loop's interval comes round, its file operations and its rounds end, and time passes.
LeaseFairness == /\ \A c \in Consumers : WF_leaseVars(LeaseSteps(c))
                 /\ WF_leaseVars(LockAges /\ ~Holds(lock.maker))
LeaseSpec == LeaseInit /\ [][LeaseNext]_leaseVars /\ LeaseFairness

-----------------------------------------------------------------------------
LeaseTypeOK ==
  /\ \/ lock = NoLock
     \/ lock \in [maker : Consumers \union {Departed}, signed : BOOLEAN, old : BOOLEAN]
  /\ turn \in [Consumers -> {"rest", "open", "sign", "judge", "sweep", "sweep gone", "round", "look",
                             "remove", "dead"}]
  /\ tries \in [Consumers -> 0..1]
  /\ robbed \in [Consumers -> {"no", "old", "late", "gone", "released"}]
  /\ leaseFaults \in 0..MaxLeaseFaults

\* Two processes are in a round at once only if one of them was robbed of its lock: swept as
\* too old, by a sweeper that came late with its verdict, by one that had found no lock at all,
\* or by a release that took an unsigned lock for its own.  Where nothing dies, stalls or fails,
\* it all begins with a lock found gone.
SharedRoundsAreExplained ==
  \A c, d \in Consumers :
    c # d /\ turn[c] = "round" /\ turn[d] = "round"
      => \E r \in {c, d} : robbed[r] \in IF leaseFaults = 0 THEN {"gone", "released"}
                                         ELSE {"old", "late", "gone", "released"}

\* Whatever dies, stalls or is swept, some process gets its round again and again.
RoundsGoOn == []<>(\E c \in Consumers : turn[c] = "round" \/ \A d \in Consumers : ~Alive(d))

\* What the file says the switch is: a mutual exclusion between processes.
OneRoundAtATime ==
  \A c, d \in Consumers : turn[c] = "round" /\ turn[d] = "round" => c = d
=============================================================================
