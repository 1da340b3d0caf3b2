------------------------------- MODULE MCPanel -------------------------------
(***************************************************************************)
(* The panel of the browser and what its requests change at the host, for  *)
(* TLC: two workspaces with an inbox to be opened, a group, two letters,   *)
(* and either two directories the session moves between or two folders the *)
(* user does, marking letters as read; the composer; the records and keys  *)
(* behind the routes, with handlers begun and mishaps bounded together;    *)
(* and the same mailbox as the agents' tools show it.  They share no       *)
(* state, and a behaviour is about one of them.                            *)
(***************************************************************************)
EXTENDS PanelStore, Composer, Records, AgentMailbox

CONSTANTS w1, w2, d1, d2,   \* workspaces, and the directories they are matched with
          RecordsBudget     \* bound: handlers begun and mishaps of a behaviour of the records

VARIABLE side

MCWorkspaceOf == [x \in Cwds \union {None} |-> IF x = d1 THEN w1 ELSE IF x = d2 THEN w2 ELSE None]
MCHome == [l \in PanelLetters |-> w1]
MCListSets == {{"inbox"}, {"groups", "archive"}, {"outbox"}}

PanelSideInit ==
  /\ side \in {"directories", "folders", "composer", "records", "tools"}
  /\ PanelInit /\ ComposerInit /\ RecordsInit /\ BoxInit /\ folder = "all"
  /\ side # "directories" => lists = {"inbox"}
  /\ side = "folders" => provisioned = Workspaces
  /\ side \in {"composer", "records", "tools"} => provisioned = {}
  /\ side # "records" => made = {}
  /\ side # "tools" => givesCursor
PanelSideNext ==
  \/ /\ side = "directories" /\ PanelNext /\ folder' = folder /\ marks' = {}
     /\ UNCHANGED <<composerVars, recordsVars, boxVars, side>>
  \/ /\ side = "folders" /\ PanelNext /\ cwd' = cwd /\ selectedGroup' = None
     /\ UNCHANGED <<composerVars, recordsVars, boxVars, side>>
  \/ side = "composer" /\ ComposerNext /\ UNCHANGED <<panelVars, recordsVars, boxVars, side>>
  \/ /\ side = "records" /\ RecordsNext /\ begun' + mishaps' <= RecordsBudget
     /\ UNCHANGED <<panelVars, composerVars, boxVars, side>>
  \/ side = "tools" /\ BoxNext /\ UNCHANGED <<panelVars, composerVars, recordsVars, side>>
PanelSideVars == <<panelVars, composerVars, recordsVars, boxVars, side>>
PanelSideSpec == PanelSideInit /\ [][PanelSideNext]_PanelSideVars
=============================================================================
