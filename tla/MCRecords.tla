------------------------------ MODULE MCRecords ------------------------------
(***************************************************************************)
(* The records and credentials for TLC: two workspaces of one repository,  *)
(* what an older version left of one agent, and three things that happen,  *)
(* handlers begun and mishaps together.                                    *)
(***************************************************************************)
EXTENDS Records

CONSTANT RecordsBudget

WithinRecordsBudget == begun' + mishaps' <= RecordsBudget
RecordsBoundSpec == RecordsInit /\ [][RecordsNext /\ WithinRecordsBudget]_recordsVars
=============================================================================
