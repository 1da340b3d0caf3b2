--------------------------- MODULE MCWatcherDaemon ---------------------------
(***************************************************************************)
(* The watcher daemon for TLC.  The configurations give the bounds; what   *)
(* is added here is what the comments of the daemon promise and the        *)
(* daemon does not keep.                                                   *)
(***************************************************************************)
EXTENDS WatcherDaemon

\* The bound of the run with faults: one letter and three mishaps, or two letters and none.
Mishaps == crashes + faults + lost + mutes + Cardinality(closed)
WithinBudget == IF mail' <= 1 THEN Mishaps' <= 3 ELSE Mishaps' = 0

\* "The cursor advances ONLY after the instance acks": a letter recorded as
\* acked was announced, was meant not to be, or is closed (ackBatch).
AckedWasAnnounced == mem.delivered_ids \subseteq Told \cup waived \cup closed

\* "persisted BEFORE flush so a crash cannot drop a batch": the daemon knows what
\* became of every letter behind its fetch cursor (fetchPass, start).
CrashDropsNothing == 1..cursor \subseteq Accounted

\* "Safe to drop: the cursor never advanced past these, the next fetch refetches
\* them": no letter of a dropped item is behind the fetch cursor (toPending).
DroppedIsRefetched == exposed.dropped \cap 1..cursor = {}
=============================================================================
