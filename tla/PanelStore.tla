----------------------------- MODULE PanelStore -----------------------------
(***************************************************************************)
(* The browser panel's store (client/store.ts): the workspace, folder and  *)
(* group on view, the requests under way for each list, the numbers that   *)
(* tell a request that has been overtaken, and the read marks that are     *)
(* shown before the host has answered.                                     *)
(*                                                                         *)
(* A request's number is compared with the counter of its list only for    *)
(* being the last: `current' says so.  A list is represented by the view   *)
(* it was asked for and, for the inbox, by the letters it shows as read.   *)
(***************************************************************************)
EXTENDS Integers, FiniteSets

CONSTANTS ListSets,         \* the sets of lists looked at together
          Workspaces, Folders, Groups, Cwds,
          None,             \* no workspace, no group, no directory
          WorkspaceOf,      \* per directory: the workspace the host matches it with, or None
          PanelLetters,     \* letters, in the order of a list: a set of naturals
          Home,             \* the workspace of a letter
          MaxPanelAsks,     \* bound: requests under way
          MaxMarks          \* bound: read marks under way

ASSUME PanelAssumption == /\ None \notin Workspaces \union Groups \union Cwds
                          /\ WorkspaceOf \in [Cwds \union {None} -> Workspaces \union {None}]
                          /\ PanelLetters \subseteq Nat /\ IsFiniteSet(PanelLetters)
                          /\ Home \in [PanelLetters -> Workspaces]
                          /\ MaxPanelAsks \in Nat /\ MaxMarks \in Nat

VARIABLES lists,            \* the lists looked at: they touch each other only through the view
          provisioned,      \* the workspaces with an inbox, at the host
          known,            \* the same, as the last overview told
          cwd, lastAutoKey, currentKey, folder, selectedGroup,
          asks,             \* requests under way, each with its view
          shown,            \* per list: the view it was asked for, the letters shown read
          busy,             \* per kind: the spinner
          serverRead,       \* the letters the mail server holds as read
          marks,            \* markReadOp and markDone under way
          overlapped        \* history: since the last inbox list, two marks were under way at once,
                            \* or a mark failed after its view had been left

panelVars == <<lists, provisioned, known, cwd, lastAutoKey, currentKey, folder, selectedGroup, asks,
               shown, busy, serverRead, marks, overlapped>>

Lists == {"inbox", "outbox", "groups", "archive"}   \* contacts are as the outbox
Kinds == Lists \union {"overview"}

\* The archive takes its numbers from groupsSeq.
CounterOf(kind) == IF kind = "archive" THEN "groups" ELSE kind

\* What a list is of, with workspace w, folder f and group g on view.
ViewFor(kind, w, f, g) ==
  CASE kind = "inbox"   -> <<w, f>>
    [] kind = "archive" -> <<w, g>>
    [] OTHER            -> <<w>>
ViewOf(kind) == IF kind = "overview" THEN <<cwd>>
                ELSE ViewFor(kind, currentKey, folder, selectedGroup)

Empty == [view |-> <<>>, read |-> {}]
LettersOf(w) == {l \in PanelLetters : Home[l] = w}

-----------------------------------------------------------------------------
PanelInit ==
  /\ lists \in ListSets
  /\ provisioned \in SUBSET Workspaces /\ known = {}
  /\ cwd = None /\ lastAutoKey = None /\ currentKey = None
  /\ folder \in Folders /\ selectedGroup = None
  /\ asks = {} /\ shown = [k \in Lists |-> Empty] /\ busy = [k \in Kinds |-> FALSE]
  /\ serverRead = {} /\ marks = {} /\ overlapped = FALSE

\* Slip: a request does not overtake the ones before it.
Renumber_Keeps(kinds) == asks

\* ++seq: the requests under way for the same lists are overtaken.
Renumber(kinds) ==
  {IF \E k \in kinds : CounterOf(k) = CounterOf(a.kind) THEN [a EXCEPT !.current = FALSE] ELSE a :
     a \in asks}

\* Slip: the archive is asked for without a group.
Askable_Always(kind, g) == TRUE
Askable(kind, g) == kind = "archive" => g # None

\* The refreshes of the lists kinds: nothing is asked, and no number taken, for a workspace
\* without an inbox, nor for the archive without a group.
Refresh(kinds, w, f, g, having) ==
  LET asked == IF w \notin having THEN {} ELSE {k \in kinds \intersect lists : Askable(k, g)}
  IN  /\ asks' = Renumber(asked) \union
                 {[kind |-> k, view |-> ViewFor(k, w, f, g), current |-> TRUE] : k \in asked}
      /\ Cardinality(asks') <= MaxPanelAsks
      /\ busy' = [k \in Kinds |-> busy[k] \/ k \in asked \ {"groups"}]

\* refreshOverview: one directory, one request.
RefreshOverview(d) ==
  IF [kind |-> "overview", view |-> <<d>>, current |-> TRUE] \in asks
  THEN UNCHANGED <<asks, busy>>
  ELSE /\ asks' = Renumber({"overview"}) \union
                  {[kind |-> "overview", view |-> <<d>>, current |-> TRUE]}
       /\ Cardinality(asks') <= MaxPanelAsks
       /\ busy' = [busy EXCEPT !["overview"] = TRUE]

-----------------------------------------------------------------------------
(* The user, and the page around the panel *)

Mount ==
  /\ RefreshOverview(cwd)
  /\ UNCHANGED <<lists, provisioned, known, cwd, lastAutoKey, currentKey, folder, selectedGroup, shown,
                 serverRead, marks, overlapped>>

SetCwd(d) ==
  /\ d # cwd /\ cwd' = d /\ lastAutoKey' = None
  /\ IF d # None THEN RefreshOverview(d) ELSE UNCHANGED <<asks, busy>>
  /\ UNCHANGED <<lists, provisioned, known, currentKey, folder, selectedGroup, shown, serverRead, marks,
                 overlapped>>

SelectWorkspace(w) ==
  /\ w # currentKey /\ currentKey # None
  /\ currentKey' = w /\ selectedGroup' = None
  /\ shown' = [shown EXCEPT !["inbox"] = Empty, !["outbox"] = Empty]
  /\ Refresh({"inbox", "outbox", "groups"}, w, folder, None, known)
  /\ UNCHANGED <<lists, provisioned, known, cwd, lastAutoKey, folder, serverRead, marks, overlapped>>

SetFolder(f) ==
  /\ folder' = f
  /\ Refresh({"inbox"}, currentKey, f, selectedGroup, known)
  /\ UNCHANGED <<lists, provisioned, known, cwd, lastAutoKey, currentKey, selectedGroup, shown,
                 serverRead, marks, overlapped>>

SetTab(kind) ==
  /\ kind \in {"inbox", "outbox", "groups"}
  /\ Refresh({kind}, currentKey, folder, selectedGroup, known)
  /\ UNCHANGED <<lists, provisioned, known, cwd, lastAutoKey, currentKey, folder, selectedGroup, shown,
                 serverRead, marks, overlapped>>

SelectGroup(g) ==
  /\ selectedGroup' = g /\ shown' = [shown EXCEPT !["archive"] = Empty]
  /\ Refresh({"archive"}, currentKey, folder, g, known)
  /\ UNCHANGED <<lists, provisioned, known, cwd, lastAutoKey, currentKey, folder, serverRead, marks,
                 overlapped>>

\* "Load more": closed while a page is awaited.
LoadMore ==
  /\ selectedGroup # None /\ currentKey \in known /\ "archive" \in lists /\ ~busy["archive"]
  /\ Refresh({"archive"}, currentKey, folder, selectedGroup, known)
  /\ UNCHANGED <<lists, provisioned, known, cwd, lastAutoKey, currentKey, folder, selectedGroup, shown,
                 serverRead, marks, overlapped>>

\* The list with these letters shown as read.
Showing(list, letters) == [view |-> list.view, read |-> list.read \union letters]

\* markRead and markDone of one letter, or selectMessage with every unread letter of its
\* thread: each shows its mark at once and remembers the list it found.
OpenThread(thread) ==
  /\ thread # {} /\ shown["inbox"] # Empty
  /\ thread \subseteq LettersOf(shown["inbox"].view[1]) \ shown["inbox"].read
  /\ marks' = marks \union
       {[letter |-> l, ws |-> currentKey, folder |-> folder,
         before |-> Showing(shown["inbox"], {m \in thread : m < l})] : l \in thread}
  /\ Cardinality(marks') <= MaxMarks
  /\ shown' = [shown EXCEPT !["inbox"] = Showing(shown["inbox"], thread)]
  /\ overlapped' = (overlapped \/ Cardinality(marks') > 1)
  /\ UNCHANGED <<lists, provisioned, known, cwd, lastAutoKey, currentKey, folder, selectedGroup, asks,
                 busy, serverRead>>

-----------------------------------------------------------------------------
(* Answers *)

\* An overtaken request ends: nothing of it is used.
IgnoresLate(a) ==
  /\ a \in asks /\ ~a.current
  /\ asks' = asks \ {a}
  /\ UNCHANGED <<lists, provisioned, known, cwd, lastAutoKey, currentKey, folder, selectedGroup, shown,
                 busy, serverRead, marks, overlapped>>

ListLands(a) ==
  /\ a \in asks /\ a.current /\ a.kind # "overview"
  /\ asks' = asks \ {a}
  /\ shown' = [shown EXCEPT ![a.kind] =
       [view |-> a.view, read |-> IF a.kind = "inbox" THEN serverRead \intersect LettersOf(a.view[1])
                                  ELSE {}]]
  /\ busy' = [busy EXCEPT ![a.kind] = FALSE]
  /\ overlapped' = (overlapped /\ ~(a.kind = "inbox" /\ marks = {}))
  /\ UNCHANGED <<lists, provisioned, known, cwd, lastAutoKey, currentKey, folder, selectedGroup,
                 serverRead, marks>>

AskFails(a) ==
  /\ a \in asks /\ a.current
  /\ asks' = asks \ {a}
  /\ busy' = [busy EXCEPT ![a.kind] = FALSE]
  /\ UNCHANGED <<lists, provisioned, known, cwd, lastAutoKey, currentKey, folder, selectedGroup, shown,
                 serverRead, marks, overlapped>>

\* reconcileKey: a directory newly matched wins once, then the selection stays; at first it is
\* a workspace with an inbox, else the matched one, else any.
ReconciledKeys(auto) ==
  IF auto # lastAutoKey /\ auto # None THEN {auto}
  ELSE IF currentKey # None THEN {currentKey}
  ELSE IF provisioned # {} THEN provisioned
  ELSE IF auto # None THEN {auto} ELSE Workspaces

\* The overview moves the selection without clearing the lists of the one before.
OverviewLands(a) ==
  LET auto == WorkspaceOf[a.view[1]] IN
      /\ a \in asks /\ a.current /\ a.kind = "overview"
      /\ known' = provisioned /\ lastAutoKey' = auto
      /\ currentKey' \in ReconciledKeys(auto)
      /\ LET asked == IF currentKey' \in provisioned THEN {"inbox", "outbox"} \intersect lists ELSE {} IN
         /\ asks' = (Renumber(asked) \ {a}) \union
                    {[kind |-> k, view |-> ViewFor(k, currentKey', folder, selectedGroup),
                      current |-> TRUE] : k \in asked}
         /\ Cardinality(asks') <= MaxPanelAsks
         /\ busy' = [k \in Kinds |-> k # "overview" /\ (busy[k] \/ k \in asked)]
      /\ UNCHANGED <<lists, provisioned, cwd, folder, selectedGroup, shown, serverRead, marks, overlapped>>

\* The host marks the letter; it knows it only in its own inbox.
MarkSucceeds(m) ==
  /\ m \in marks /\ Home[m.letter] = m.ws
  /\ serverRead' = serverRead \union {m.letter} /\ marks' = marks \ {m}
  /\ UNCHANGED <<lists, provisioned, known, cwd, lastAutoKey, currentKey, folder, selectedGroup, asks,
                 shown, busy, overlapped>>

\* Slip: the roll-back does not ask whether its view is still on view.
RollsBack_Always(m) == TRUE

RollsBack(m) == currentKey = m.ws /\ folder = m.folder

\* Slip: a failed mark is only reported.
Undo_Nothing(m) == UNCHANGED shown
Undo(m) == shown' = IF RollsBack(m) THEN [shown EXCEPT !["inbox"] = m.before] ELSE shown

\* The request fails, or its answer is lost: the list it found is put back.
MarkFails(m) ==
  /\ m \in marks
  /\ marks' = marks \ {m}
  /\ \/ UNCHANGED serverRead
     \/ Home[m.letter] = m.ws /\ serverRead' = serverRead \union {m.letter}
  /\ Undo(m)
  /\ overlapped' = (overlapped \/ ~RollsBack(m))
  /\ UNCHANGED <<lists, provisioned, known, cwd, lastAutoKey, currentKey, folder, selectedGroup, asks,
                 busy>>

\* An inbox is opened (provision, or a tool of a session).
Provisions(w) ==
  /\ w \notin provisioned /\ provisioned' = provisioned \union {w}
  /\ UNCHANGED <<lists, known, cwd, lastAutoKey, currentKey, folder, selectedGroup, asks, shown, busy,
                 serverRead, marks, overlapped>>

-----------------------------------------------------------------------------
PanelUser == \/ Mount \/ LoadMore
             \/ \E d \in Cwds \union {None} : SetCwd(d)
             \/ \E w \in Workspaces : SelectWorkspace(w) \/ Provisions(w)
             \/ \E f \in Folders : SetFolder(f)
             \/ \E kind \in Lists : SetTab(kind)
             \/ \E g \in Groups \union {None} : SelectGroup(g)
             \/ \E thread \in SUBSET PanelLetters : OpenThread(thread)
PanelAnswers == \/ \E a \in asks : IgnoresLate(a) \/ ListLands(a) \/ OverviewLands(a) \/ AskFails(a)
                \/ \E m \in marks : MarkSucceeds(m) \/ MarkFails(m)
PanelNext == PanelUser \/ PanelAnswers
PanelSpec == PanelInit /\ [][PanelNext]_panelVars

-----------------------------------------------------------------------------
PanelViews == {<<>>} \union {<<x>> : x \in Workspaces \union Cwds \union {None}}
                \union (Workspaces \X (Folders \union Groups))
Listing == [view : PanelViews, read : SUBSET PanelLetters]
PanelTypeOK ==
  /\ lists \in ListSets /\ provisioned \subseteq Workspaces /\ known \subseteq provisioned
  /\ cwd \in Cwds \union {None} /\ lastAutoKey \in Workspaces \union {None}
  /\ currentKey \in Workspaces \union {None} /\ folder \in Folders
  /\ selectedGroup \in Groups \union {None}
  /\ asks \subseteq [kind : Kinds, view : PanelViews, current : BOOLEAN]
  /\ \A a \in asks : a.kind = "overview" => a.view \in {<<d>> : d \in Cwds \union {None}}
  /\ shown \in [Lists -> Listing] /\ busy \in [Kinds -> BOOLEAN]
  /\ serverRead \subseteq PanelLetters /\ overlapped \in BOOLEAN
  /\ marks \subseteq [letter : PanelLetters, ws : Workspaces \union {None}, folder : Folders, before : Listing]

\* While the view stays, an inbox list that fits it is not replaced by one that does not:
\* neither by a late answer nor by a mark that failed in another view - unless the mark was
\* made on a list that did not fit its view, the folder having just been changed.
Fits == shown["inbox"].view = ViewOf("inbox")
MadeAstray(m) == m.before.view # <<m.ws, m.folder>>
FittingListsStay ==
  [][Fits /\ ViewOf("inbox")' = ViewOf("inbox") => Fits' \/ \E m \in marks : MadeAstray(m)]_panelVars

\* A letter is shown as read only when it is, or while the mark that says so is under way,
\* as long as no two marks were under way together.
ShownReadIsRead ==
  overlapped \/ \A l \in shown["inbox"].read :
                  l \in serverRead \/ \E m \in marks : m.letter = l

\* What the comment above the numbers says: an answer for another workspace or folder never
\* overwrites the view.
AnswersAreOfTheView ==
  [][shown'["inbox"] # shown["inbox"] /\ shown'["inbox"] # Empty
       => shown'["inbox"].view = ViewFor("inbox", currentKey', folder', selectedGroup')]_panelVars

\* What the comment at "load more" says: the gate is closed while the page before is awaited.
GateIsAwaited == busy["archive"] => \E a \in asks : a.kind = "archive" /\ a.current

\* What the comment at the roll-back says: both halves go back when a mark has failed.
FailedMarksAreUndone ==
  \A l \in shown["inbox"].read : l \in serverRead \/ \E m \in marks : m.letter = l
=============================================================================
