----------------------------- MODULE AtomicStore -----------------------------
(***************************************************************************)
(* What the callers of store.ts take state.json to be: a set of changes to *)
(* which each successful write adds its own at one moment, and from which  *)
(* nothing disappears; and a write that was begun ends, one way or the     *)
(* other.  The first holds while the lock keeps the writers apart; once it *)
(* has been taken from one of them (`sound' is over) a write may leave     *)
(* anything behind but its own change.                                     *)
(***************************************************************************)
CONSTANT Changes

VARIABLES content,      \* the changes the file carries
          open,         \* changes being made
          kept,         \* changes that were made
          sound         \* nobody has lost the lock while holding it

atomicVars == <<content, open, kept, sound>>

AtomicInit == content = {} /\ open = {} /\ kept = {} /\ sound = TRUE

Begins(c) == c \notin open \union kept /\ open' = open \union {c} /\ UNCHANGED <<content, kept, sound>>

\* A write takes effect between its request and its answer.
Commits(c) ==
  /\ sound /\ c \in open \ kept
  /\ content' = content \union {c} /\ kept' = kept \union {c} /\ UNCHANGED <<open, sound>>

Overwrites(c) ==
  /\ ~sound /\ c \in open \ kept /\ kept' = kept \union {c}
  /\ content' \in {s \union {c} : s \in SUBSET Changes} /\ UNCHANGED <<open, sound>>

\* A write is answered, with success or an error, or its process dies; the last thing it does
\* may be to take the lock of somebody else away.
Ends(c) == c \in open /\ open' = open \ {c} /\ sound' \in {sound, FALSE} /\ UNCHANGED <<content, kept>>
LosesLock == sound /\ sound' = FALSE /\ UNCHANGED <<content, open, kept>>

AtomicNext == LosesLock \/ \E c \in Changes : Begins(c) \/ Commits(c) \/ Overwrites(c) \/ Ends(c)
AtomicSpec == /\ AtomicInit /\ [][AtomicNext]_atomicVars
              /\ \A c \in Changes : c \in open ~> c \notin open
=============================================================================
