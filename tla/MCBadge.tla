------------------------------- MODULE MCBadge -------------------------------
(***************************************************************************)
(* The unread badge for TLC: one mailbox, and a bound on what happens to   *)
(* it in one behaviour - a letter is read here, or one request fails.      *)
(***************************************************************************)
EXTENDS UnreadBadge

WithinBadgeBudget == reads' = 0 \/ badgeFaults' = 0
BadgeBoundSpec == BadgeInit /\ [][BadgeNext /\ WithinBadgeBudget]_badgeVars /\ BadgeFairness
=============================================================================
