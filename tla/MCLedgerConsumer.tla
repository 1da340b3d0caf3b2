-------------------------- MODULE MCLedgerConsumer --------------------------
(***************************************************************************)
(* The ledger consumer for TLC.  The configurations give the bounds; what  *)
(* is added here is what a comment of ledger.ts promises and the code does *)
(* not keep.                                                               *)
(***************************************************************************)
EXTENDS LedgerConsumer

\* "The cursor is the N-th line, the other lines are still behind it and will be
\* selected as usual in the next round" (SelectFreshOptions.limit): when a round
\* moves the cursor, no open letter stands between the last line of the round and
\* the place where the next round will find the cursor.
RestIsSelectedNext ==
    [][cursor # NoCursor /\ cursor' # cursor =>
         \E h \in Hosts :
            /\ round[h].pc = "write"
            /\ LinesAt(round[h].to + 1 .. Position(cursor', Len(ledger))) \subseteq Settled]_vars
=============================================================================
