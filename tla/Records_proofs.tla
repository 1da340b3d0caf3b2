-------------------------- MODULE Records_proofs ----------------------------
(***************************************************************************)
(* Proofs about what a machine keeps of mailboxes, tenants and addresses,  *)
(* for any number of workspaces, agents, pods and requests under way.      *)
(*                                                                         *)
(* Records: three inductive invariants, each resting on the one before.    *)
(* What the handlers and the move hold is real (RecordsReal); no current   *)
(* key gets out of everybody's hands but at the named steps (KeysInv); and *)
(* until one of the named mishaps mixes credentials, no two records have a *)
(* project key in common and no handler has another's in hand (TidyInv).   *)
(* TenantKeys: TenantInv, which follows the keys through the requests.     *)
(* ResolveCache: CacheInv, which follows the age of records.               *)
(***************************************************************************)
EXTENDS Records, TenantKeys, ResolveCache, FiniteSetTheorems, SequenceTheorems, WellFoundedInduction,
        TLAPS

-----------------------------------------------------------------------------
(* What the handlers, the files and the move hold.                         *)

\* What a handler holds fits its place: who has an agent, and that only a rotation counts turns.
RealJob(r) == /\ r.pc \in Keyed => r.key # NoKey
              /\ r.pc = "" <=> r = Free
              /\ r.pc = "create" => r.agent = NoAgent
              /\ r.pc \notin {"", "create", "unlink", "unseed", "forget"} => r.agent # NoAgent
              /\ r.pc # "rewrite" => r.turn = 0
JobsAreReal == \A j \in Jobs : RealJob(job[j])

\* No file has a key the server has not given yet.
TurnsAreReal == /\ \A k \in ProjectKeys : cred[k].agent # NoAgent => cred[k].turn <= turn[cred[k].agent]
                /\ \A a \in Agents \ made : turn[a] = 0

\* The lock held, state.json stays as it was read: what is moved are the old fields of its
\* records, under their own project keys where they have one.
MoveIsOfRecords ==
  /\ moving.held => \A w \in Spaces :
       /\ moving.old[w] = IF record[w].old = NoAgent THEN bucket[w] ELSE record[w].old
       /\ w \in moving.todo => moving.old[w] # NoAgent /\ moving.key[w] = NoKey
  /\ \A w \in Spaces : moving.key[w] # NoKey =>
       /\ moving.held /\ moving.old[w] # NoAgent
       /\ record[w].project # NoKey => moving.key[w] = record[w].project
  /\ moving.todo # {} => moving.held

\* Who goes on to save a seed has had it installed.
Signs(r) == r.pc \in {"seed", "overseed"} \/ r.signs
SignersAreKnown == \A j \in Jobs : Signs(job[j]) => job[j].agent \in installed

\* A rotation writes no key the server has not given yet.
RotationsAreReal == \A j \in Jobs : job[j].pc = "rewrite" => job[j].turn <= turn[job[j].agent]

RecordsReal == /\ RecordsTypeOK /\ JobsAreReal /\ TurnsAreReal /\ RotationsAreReal
               /\ MoveIsOfRecords /\ SignersAreKnown

LEMMA RecordsFacts ==
  /\ 1 \in Spaces /\ Spaces \subseteq Nat /\ NoKey \notin ProjectKeys /\ Base \notin Spaces /\ Base \in ProjectKeys
  /\ Spaces \subseteq ProjectKeys /\ NoAgent \notin Agents /\ MaxTurns \in Nat /\ 0 \in 0..MaxTurns
  /\ OldAgents \subseteq Agents /\ Agents \subseteq Nat
BY RecordsAssumption DEF Spaces, ProjectKeys, NoKey, Base, NoAgent

LEMMA FreeFacts == /\ Free \in Job /\ RealJob(Free) /\ Free.pc = "" /\ Free.key = NoKey /\ Free.agent = NoAgent /\ ~Signs(Free)
                   /\ AtRest.held = FALSE /\ AtRest.todo = {} /\ AtRest.clear = {}
                   /\ \A w \in Spaces : AtRest.key[w] = NoKey /\ AtRest.old[w] = NoAgent
                   /\ AtRest \in Move
<1>1. Free \in Job
    <2>1. "free" \in Ops /\ 1 \in Spaces /\ 0 \in 0..MaxTurns
        BY RecordsFacts DEF Ops
    <2> QED BY <2>1 DEF Free, Job
<1>2. RealJob(Free)
    BY DEF RealJob, Free, Keyed
<1>3. AtRest \in Move
    BY DEF AtRest, Move
<1> QED BY <1>1, <1>2, <1>3 DEF Free, AtRest, Signs

\* What is written to a handler fits, and the others stay.
JobMoves(j) == /\ job' \in [Jobs -> Job] /\ \A i \in Jobs : RealJob(job'[i])
               /\ \A i \in Jobs : i # j => job'[i] = job[i]

LEMMA JobSet ==
  ASSUME RecordsReal, NEW j \in Jobs, NEW r \in Job, RealJob(r), job' = [job EXCEPT ![j] = r]
  PROVE  JobMoves(j) /\ job'[j] = r
<1>1. job \in [Jobs -> Job] /\ \A i \in Jobs : RealJob(job[i])
    BY DEF RecordsReal, RecordsTypeOK, JobsAreReal
<1>2. /\ job' \in [Jobs -> Job] /\ job'[j] = r /\ \A i \in Jobs : i # j => job'[i] = job[i]
    BY <1>1
<1> QED BY <1>1, <1>2 DEF JobMoves

\* A handler goes on to another place.
LEMMA GoesFacts ==
  ASSUME RecordsReal, NEW j \in Jobs, NEW p \in (Choosing \union Keyed) \ {"create", "rewrite"}, job[j].pc # "rewrite",
         p \in Keyed => job[j].key # NoKey, p \notin {"unlink", "unseed", "forget"} => job[j].agent # NoAgent,
         Goes(j, p)
  PROVE  /\ JobMoves(j)
         /\ job'[j].pc = p /\ job'[j].ws = job[j].ws /\ job'[j].agent = job[j].agent /\ job'[j].turn = job[j].turn
         /\ job'[j].key = job[j].key /\ job'[j].signs = job[j].signs /\ job'[j].clear = job[j].clear
         /\ (Signs(job'[j]) /\ (p \in {"seed", "overseed"} => Signs(job[j]))) => job'[j].agent \in installed
<1> DEFINE r == [job[j] EXCEPT !.pc = p]
<1>1. job[j] \in Job /\ RealJob(job[j])
    BY DEF RecordsReal, RecordsTypeOK, JobsAreReal
<1>2. r \in Job /\ r.pc = p /\ r.ws = job[j].ws /\ r.agent = job[j].agent /\ r.turn = job[j].turn
      /\ r.key = job[j].key /\ r.signs = job[j].signs /\ r.clear = job[j].clear
    BY <1>1 DEF Job
<1>3. p # "" /\ r # Free
    BY <1>2, FreeFacts DEF Choosing, Keyed
<1>4. RealJob(r)
    BY <1>1, <1>2, <1>3 DEF RealJob
<1>5. job' = [job EXCEPT ![j] = r]
    BY DEF Goes
<1> HIDE DEF r
<1>6. JobMoves(j) /\ job'[j] = r
    BY <1>2, <1>4, <1>5, JobSet
<1>7. Signs(r) /\ (p \in {"seed", "overseed"} => Signs(job[j])) => r.agent \in installed
    BY <1>2 DEF Signs, RecordsReal, SignersAreKnown
<1> QED BY <1>2, <1>6, <1>7

\* A handler ends.
LEMMA EndsFacts ==
  ASSUME RecordsReal, NEW j \in Jobs, Ends(j)
  PROVE  JobMoves(j) /\ job'[j] = Free
BY JobSet, FreeFacts DEF Ends

LEMMA RecordsRealInit == RecordsInit => RecordsReal
<1> SUFFICES ASSUME RecordsInit PROVE RecordsReal
    OBVIOUS
<1> USE RecordsFacts
<1>1. PICK o \in [Spaces -> OldAgents \union {NoAgent}] : record = [w \in Spaces |-> [project |-> NoKey, old |-> o[w]]]
    BY Zenon DEF RecordsInit
<1>2. \A w \in Spaces : record[w].project = NoKey /\ record[w].old = o[w] /\ o[w] \in OldAgents \union {NoAgent}
    BY <1>1
<1>3. made = ({record[w].old : w \in Spaces} \union {bucket[w] : w \in Spaces}) \ {NoAgent}
    BY DEF RecordsInit
<1>4. bucket \in [Spaces -> OldAgents \union {NoAgent}]
    BY DEF RecordsInit
<1>5. made \subseteq Agents /\ \A w \in Spaces : o[w] \in made \union {NoAgent} /\ bucket[w] \in made \union {NoAgent}
    <2>1. \A w \in Spaces : o[w] \in Agents \union {NoAgent} /\ bucket[w] \in Agents \union {NoAgent}
        BY <1>4
    <2>2. made \subseteq Agents
        BY <1>2, <1>3, <2>1
    <2>3. \A w \in Spaces : record[w].old \in made \union {NoAgent} /\ bucket[w] \in made \union {NoAgent}
        BY Zenon, <1>3
    <2> QED BY <1>2, <2>2, <2>3
<1>6. record \in [Spaces -> Record] /\ bucket \in [Spaces -> made \union {NoAgent}]
    BY <1>1, <1>4, <1>5 DEF Record
<1>7. /\ cred \in [ProjectKeys -> [agent : made \union {NoAgent}, turn : 0..MaxTurns]]
      /\ \A k \in ProjectKeys : cred[k] = NoFile /\ cred[k].agent = NoAgent
      /\ seed \in [ProjectKeys -> installed \union {NoAgent}]
    BY DEF RecordsInit, NoFile
<1>8. gone \subseteq Spaces /\ installed \subseteq made /\ turn \in [Agents -> 0..MaxTurns] /\ \A a \in Agents : turn[a] = 0
    BY DEF RecordsInit
<1>9. pod \in {"none", "made", "keyed"}
    BY DEF RecordsInit
<1>10. job \in [Jobs -> Job] /\ \A j \in Jobs : job[j] = Free
    BY FreeFacts DEF RecordsInit
<1>11. moving = AtRest /\ moving \in Move
    BY FreeFacts DEF RecordsInit
<1>12. RecordsTypeOK
    BY <1>5, <1>6, <1>7, <1>8, <1>9, <1>10, <1>11, FreeFacts DEF RecordsTypeOK, RealJob, Keyed
<1>13. JobsAreReal
    BY <1>10, FreeFacts DEF JobsAreReal
<1>14. TurnsAreReal
    BY <1>7, <1>8 DEF TurnsAreReal
<1>15. MoveIsOfRecords
    BY <1>11, FreeFacts DEF MoveIsOfRecords
<1>16. SignersAreKnown
    BY <1>10, FreeFacts DEF SignersAreKnown
<1>17. RotationsAreReal
    BY <1>10, FreeFacts DEF RotationsAreReal
<1> QED BY <1>12, <1>13, <1>14, <1>15, <1>16, <1>17 DEF RecordsReal

File == [agent : made \union {NoAgent}, turn : 0..MaxTurns]

\* What a file must be, whatever step wrote it.
FilesReal(c) == /\ c \in [ProjectKeys -> File]
                /\ \A k \in ProjectKeys : /\ c[k].agent = NoAgent => c[k] = NoFile
                                          /\ c[k].agent # NoAgent => c[k].turn <= turn[c[k].agent]

\* A step of a handler that leaves the move and the server's agents alone.
LEMMA RealStays ==
  ASSUME RecordsReal, UNCHANGED <<bucket, moving, made, turn>>, gone' \subseteq Spaces,
         installed' \subseteq made, installed \subseteq installed', pod' \in {"none", "made", "keyed"},
         record' \in [Spaces -> Record], record' = record \/ ~moving.held,
         FilesReal(cred'), seed' \in [ProjectKeys -> installed' \union {NoAgent}],
         \E j \in Jobs : /\ JobMoves(j) /\ job'[j].pc # "rewrite"
                         /\ Signs(job'[j]) => job'[j].agent \in installed'
  PROVE  RecordsReal'
<1>1. Job' = Job /\ Record' = Record /\ Move' = Move
    BY DEF Job, Record, Move
<1>0. /\ job' \in [Jobs -> Job] /\ \A j \in Jobs : RealJob(job'[j])
      /\ \A j \in Jobs : Signs(job'[j]) => job'[j].agent \in installed'
    BY DEF JobMoves, RecordsReal, SignersAreKnown
<1>2. RecordsTypeOK'
    BY <1>0, <1>1 DEF RecordsReal, RecordsTypeOK, FilesReal, File, RealJob
<1>3. JobsAreReal'
    BY <1>0 DEF JobsAreReal, RealJob
<1>4. TurnsAreReal'
    BY DEF RecordsReal, TurnsAreReal, FilesReal
<1>5. MoveIsOfRecords'
    BY DEF RecordsReal, MoveIsOfRecords
<1>6. SignersAreKnown'
    BY <1>0 DEF SignersAreKnown, Signs
<1>7. RotationsAreReal'
    BY DEF RecordsReal, RotationsAreReal, JobMoves
<1> QED BY <1>2, <1>3, <1>4, <1>5, <1>6, <1>7 DEF RecordsReal

LEMMA FilesAreReal == ASSUME RecordsReal PROVE FilesReal(cred) /\ seed \in [ProjectKeys -> installed \union {NoAgent}]
BY DEF RecordsReal, RecordsTypeOK, TurnsAreReal, FilesReal, File

\* The next place of a handler.
LEMMA HandlerFields ==
  ASSUME RecordsReal, NEW j \in Jobs
  PROVE  /\ job[j] \in Job /\ RealJob(job[j]) /\ job[j].ws \in Spaces /\ job[j].agent \in made \union {NoAgent}
         /\ job[j].turn \in 0..MaxTurns /\ job[j].key \in ProjectKeys \union {NoKey}
         /\ job[j].signs \in BOOLEAN /\ job[j].clear \in BOOLEAN
         /\ job[j].pc \in Keyed => job[j].key \in ProjectKeys
         /\ job[j].pc \notin {"", "create", "unlink", "unseed", "forget"} => job[j].agent \in made
         /\ job[j].pc # "rewrite" => job[j].turn = 0
         /\ job[j].pc = "create" => job[j].agent = NoAgent
         /\ Signs(job[j]) => job[j].agent \in installed
BY DEF RecordsReal, RecordsTypeOK, JobsAreReal, Job, RealJob, SignersAreKnown

LEMMA FileReal ==
  ASSUME RecordsReal, NEW k \in ProjectKeys, NEW a \in made, NEW t \in 0..MaxTurns, t <= turn[a],
         cred' = [cred EXCEPT ![k] = [agent |-> a, turn |-> t]]
  PROVE  /\ FilesReal(cred') /\ cred'[k].agent = a /\ cred'[k].turn = t
         /\ \A i \in ProjectKeys : i # k => cred'[i] = cred[i]
<1>1. a # NoAgent
    BY RecordsFacts DEF RecordsReal, RecordsTypeOK
<1>2. FilesReal(cred) /\ cred \in [ProjectKeys -> File]
    BY FilesAreReal DEF FilesReal
<1> DEFINE f == [agent |-> a, turn |-> t]
<1>3. f \in File /\ f.agent = a /\ f.turn = t
    BY DEF File
<1> HIDE DEF f
<1>4. cred' = [cred EXCEPT ![k] = f]
    BY DEF f
<1>5. cred' \in [ProjectKeys -> File] /\ cred'[k] = f /\ \A i \in ProjectKeys : i # k => cred'[i] = cred[i]
    BY <1>2, <1>3, <1>4
<1> QED BY <1>1, <1>2, <1>3, <1>5 DEF FilesReal

LEMMA FileGone ==
  ASSUME RecordsReal, NEW k \in ProjectKeys, cred' = [cred EXCEPT ![k] = NoFile]
  PROVE  /\ FilesReal(cred') /\ cred'[k] = NoFile /\ cred'[k].agent = NoAgent
         /\ \A i \in ProjectKeys : i # k => cred'[i] = cred[i]
<1>1. FilesReal(cred) /\ cred \in [ProjectKeys -> File]
    BY FilesAreReal DEF FilesReal
<1>2. NoFile \in File /\ NoFile.agent = NoAgent
    BY RecordsFacts DEF File, NoFile
<1>3. cred' \in [ProjectKeys -> File] /\ cred'[k] = NoFile /\ \A i \in ProjectKeys : i # k => cred'[i] = cred[i]
    BY <1>1, <1>2
<1> QED BY <1>1, <1>2, <1>3 DEF FilesReal

LEMMA AllocateFacts ==
  ASSUME NEW w \in Spaces, NEW a, NEW taken
  PROVE  Allocate(w, a, taken) \in ProjectKeys /\ Allocate(w, a, taken) # NoKey /\ Allocate(w, a, taken) \in {Base, w}
BY RecordsFacts DEF Allocate

LEMMA FileOfFacts ==
  ASSUME RecordsReal, NEW w \in Spaces
  PROVE  /\ FileOf(w) \in File /\ FileOf(w).agent \in made \union {NoAgent}
         /\ FileOf(w).agent = NoAgent => FileOf(w) = NoFile
         /\ record[w] \in Record /\ record[w].project \in ProjectKeys \union {NoKey}
         /\ record[w].old \in made \union {NoAgent} /\ bucket[w] \in made \union {NoAgent}
         /\ Resolves(w) => /\ record[w].project \in ProjectKeys /\ FileOf(w) = cred[record[w].project]
                           /\ FileOf(w).agent \in made
<1>1. record \in [Spaces -> Record] /\ record[w] \in Record /\ bucket[w] \in made \union {NoAgent}
    BY DEF RecordsReal, RecordsTypeOK
<1>2. record[w].project \in ProjectKeys \union {NoKey} /\ record[w].old \in made \union {NoAgent}
    BY <1>1 DEF Record
<1>3. FilesReal(cred)
    BY FilesAreReal
<1>4. NoFile \in File /\ NoFile.agent = NoAgent
    BY RecordsFacts DEF File, NoFile
<1>5. FileOf(w) \in File /\ (FileOf(w).agent = NoAgent => FileOf(w) = NoFile)
    BY <1>2, <1>3, <1>4 DEF FileOf, FilesReal
<1>6. FileOf(w).agent \in made \union {NoAgent}
    BY <1>5 DEF File
<1>7. Resolves(w) => /\ record[w].project \in ProjectKeys /\ FileOf(w) = cred[record[w].project]
                     /\ FileOf(w).agent \in made
    BY <1>2, <1>4, <1>6 DEF Resolves, FileOf
<1> QED BY <1>1, <1>2, <1>5, <1>6, <1>7

LEMMA OpFacts == {"derived", "named", "migrate", "rotate", "remove"} \subseteq Ops \ {"free"}
BY DEF Ops

\* A handler begins.
Begun(w, pc, a, key) ==
  \E j \in Jobs : /\ job[j] = Free /\ JobMoves(j) /\ ~Signs(job'[j]) /\ job'[j].pc # "rewrite"
                  /\ job'[j].pc = pc /\ job'[j].ws = w /\ job'[j].agent = a /\ job'[j].key = key
                  /\ job'[j].turn = 0 /\ job'[j].clear = FALSE

LEMMA BeginsFacts ==
  ASSUME RecordsReal, NEW w \in Spaces, NEW op \in Ops \ {"free"}, NEW pc \in {"create", "install", "rotate", "unlink"},
         NEW a \in made \union {NoAgent}, NEW key \in ProjectKeys \union {NoKey},
         pc # "create" => key # NoKey, pc \in {"install", "rotate"} => a # NoAgent,
         pc = "create" => a = NoAgent, Begins(w, op, pc, a, key)
  PROVE  Begun(w, pc, a, key)
<1> DEFINE r == [op |-> op, pc |-> pc, ws |-> w, agent |-> a, turn |-> 0, key |-> key, signs |-> FALSE, clear |-> FALSE]
<1>1. PICK j \in Jobs : job[j] = Free /\ job' = [job EXCEPT ![j] = r]
    BY Zenon DEF Begins
<1>2. r \in Job /\ r.pc = pc /\ r.ws = w /\ r.agent = a /\ r.key = key /\ r.turn = 0 /\ r.clear = FALSE /\ ~Signs(r) /\ r.pc # "rewrite"
    BY RecordsFacts DEF Job, Keyed, Choosing, Signs
<1> HIDE DEF r
<1>3. r # Free /\ r.pc # ""
    BY <1>2, FreeFacts
<1>4. RealJob(r)
    BY <1>2, <1>3 DEF RealJob, Keyed
<1> QED BY <1>1, <1>2, <1>4, JobSet DEF Begun

LEMMA RealBegins ==
  ASSUME RecordsReal, NEW w \in Spaces,
         \/ ProvisionBegins(w, "derived") \/ ProvisionBegins(w, "named") \/ MigrateBegins(w)
         \/ RotateBegins(w) \/ RemoveBegins(w)
  PROVE  RecordsReal' /\ UNCHANGED <<record, bucket, moving, cred, seed, lost, mixed, made, turn>>
<1>0. NoAgent \notin made
    BY RecordsFacts DEF RecordsReal, RecordsTypeOK
<1>1. /\ UNCHANGED <<record, bucket, moving, cred, seed, made, turn, installed, pod, lost, mixed, gone>>
    BY Zenon DEF ProvisionBegins, MigrateBegins, RotateBegins, RemoveBegins, local, files, remote, past
<1>2. \E j \in Jobs : JobMoves(j) /\ ~Signs(job'[j]) /\ job'[j].pc # "rewrite"
    <2>1. ASSUME NEW op \in {"derived", "named"}, ProvisionBegins(w, op)
          PROVE  \E j \in Jobs : JobMoves(j) /\ ~Signs(job'[j]) /\ job'[j].pc # "rewrite"
        <3>0. op \in Ops \ {"free"}
            BY OpFacts
        <3>1. CASE Resolves(w)
            <4>1. Begins(w, op, "install", FileOf(w).agent, record[w].project)
                BY <2>1, <3>1 DEF ProvisionBegins
            <4>2. FileOf(w).agent # NoAgent /\ FileOf(w).agent \in made /\ record[w].project \in ProjectKeys \ {NoKey}
                BY <3>1, <1>0, FileOfFacts, RecordsFacts
            <4>3. Begun(w, "install", FileOf(w).agent, record[w].project)
                BY <4>1, <4>2, <3>0, BeginsFacts
            <4> QED BY <4>3 DEF Begun
        <3>2. CASE ~Resolves(w)
            <4>1. Begins(w, op, "create", NoAgent, NoKey)
                BY <2>1, <3>2 DEF ProvisionBegins
            <4>2. Begun(w, "create", NoAgent, NoKey)
                BY <4>1, <3>0, BeginsFacts
            <4> QED BY <4>2 DEF Begun
        <3> QED BY <3>1, <3>2
    <2>2. CASE MigrateBegins(w)
        <3>1. Begins(w, "migrate", "create", NoAgent, NoKey)
            BY <2>2 DEF MigrateBegins
        <3>2. Begun(w, "create", NoAgent, NoKey)
            BY <3>1, BeginsFacts, OpFacts
        <3> QED BY <3>2 DEF Begun
    <2>3. CASE RotateBegins(w)
        <3>1. Resolves(w) /\ Begins(w, "rotate", "rotate", FileOf(w).agent, record[w].project)
            BY <2>3 DEF RotateBegins
        <3>2. FileOf(w).agent # NoAgent /\ FileOf(w).agent \in made /\ record[w].project \in ProjectKeys \ {NoKey}
            BY <3>1, <1>0, FileOfFacts, RecordsFacts
        <3>3. Begun(w, "rotate", FileOf(w).agent, record[w].project)
            BY <3>1, <3>2, BeginsFacts, OpFacts
        <3> QED BY <3>3 DEF Begun
    <2>4. CASE RemoveBegins(w)
        <3>1. Begins(w, "remove", "unlink", NoAgent, record[w].project) /\ Untouched(w) /\ record[w] # NoRecord
            BY <2>4 DEF RemoveBegins
        <3>2. record[w].project # NoKey /\ record[w].project \in ProjectKeys
            BY <3>1, FileOfFacts DEF Untouched, NoRecord, Record
        <3>3. Begun(w, "unlink", NoAgent, record[w].project)
            BY <3>1, <3>2, BeginsFacts, OpFacts
        <3> QED BY <3>3 DEF Begun
    <2> QED BY <2>1, <2>2, <2>3, <2>4
<1>3. FilesReal(cred) /\ seed \in [ProjectKeys -> installed \union {NoAgent}]
    BY FilesAreReal
<1>4. RecordsReal'
    BY <1>1, <1>2, <1>3, RealStays DEF RecordsReal, RecordsTypeOK
<1> QED BY <1>1, <1>4

LEMMA RealCreates ==
  ASSUME RecordsReal, NEW j \in Jobs, CreatesAgent(j)
  PROVE  RecordsReal'
<1> USE RecordsFacts
<1>1. PICK a \in Agents \ made :
        /\ made' = made \union {a}
        /\ \/ /\ job' = [job EXCEPT ![j].agent = a,
                                    ![j].pc = IF job[j].op = "migrate" THEN "sign" ELSE "allocate"]
           \/ Ends(j)
    BY Zenon DEF CreatesAgent
<1>2. /\ UNCHANGED <<record, bucket, moving, cred, seed, gone, turn, installed, pod>> /\ job[j].pc = "create"
    BY DEF CreatesAgent, At, local, files
<1>3. RecordsTypeOK /\ JobsAreReal /\ TurnsAreReal /\ MoveIsOfRecords
    BY DEF RecordsReal
<1>4. Job \subseteq Job' /\ Record \subseteq Record' /\ Move \subseteq Move'
    <2>1. Job \subseteq Job'
        BY <1>1 DEF Job
    <2>2. Record \subseteq Record'
        BY <1>1 DEF Record
    <2>3. Move \subseteq Move'
        BY <1>1 DEF Move
    <2> QED BY <2>1, <2>2, <2>3
<1>5. /\ job' \in [Jobs -> Job'] /\ \A i \in Jobs : RealJob(job'[i])
      /\ \A i \in Jobs : i # j => job'[i] = job[i]
      /\ \/ job'[j] = Free
         \/ job'[j].pc \in {"sign", "allocate"} /\ job'[j].signs = job[j].signs
    <2>1. CASE Ends(j)
        <3>1. JobMoves(j) /\ job'[j] = Free
            BY <2>1, EndsFacts
        <3>2. job' \in [Jobs -> Job']
            BY <3>1, <1>4 DEF JobMoves
        <3> QED BY <3>1, <3>2 DEF JobMoves
    <2>2. CASE job' = [job EXCEPT ![j].agent = a, ![j].pc = IF job[j].op = "migrate" THEN "sign" ELSE "allocate"]
        <3> DEFINE p == IF job[j].op = "migrate" THEN "sign" ELSE "allocate"
                   r == [job[j] EXCEPT !.agent = a, !.pc = p]
        <3>1. p \in {"sign", "allocate"}
            OBVIOUS
        <3> HIDE DEF p
        <3>2. job[j] \in Job /\ RealJob(job[j])
            BY HandlerFields
        <3>3. r \in Job' /\ r.agent = a /\ r.pc = p /\ r.turn = job[j].turn /\ r.signs = job[j].signs
            BY <3>1, <3>2, <1>1 DEF Job, Choosing
        <3>4. r # Free
            BY <3>1, <3>3, FreeFacts
        <3>5. RealJob(r)
            BY <3>1, <3>2, <3>3, <3>4, <1>2, <1>1 DEF RealJob, Keyed
        <3>6. job' = [job EXCEPT ![j] = r]
            BY <2>2 DEF p
        <3> HIDE DEF r
        <3>7. job \in [Jobs -> Job'] /\ \A i \in Jobs : RealJob(job[i])
            BY <1>3, <1>4 DEF RecordsTypeOK, JobsAreReal
        <3> QED BY <3>1, <3>3, <3>5, <3>6, <3>7
    <2> QED BY <1>1, <2>1, <2>2
<1>6. RecordsTypeOK'
    BY <1>1, <1>2, <1>3, <1>4, <1>5 DEF RecordsTypeOK, RealJob
<1>7. JobsAreReal'
    BY <1>5 DEF JobsAreReal, RealJob
<1>8. TurnsAreReal'
    BY <1>1, <1>2, <1>3 DEF TurnsAreReal
<1>9. MoveIsOfRecords'
    BY <1>2, <1>3 DEF MoveIsOfRecords
<1>10. SignersAreKnown'
    <2>1. ~Signs(job[j])
        BY <1>2, <1>3, RecordsFacts, HandlerFields DEF RecordsTypeOK
    <2>2. ~Signs(job'[j])
        BY <1>5, <2>1, FreeFacts DEF Signs
    <2> QED BY <1>2, <1>5, <2>2 DEF RecordsReal, SignersAreKnown, Signs
<1>11. RotationsAreReal'
    BY <1>2, <1>5, FreeFacts DEF RecordsReal, RotationsAreReal
<1> QED BY <1>6, <1>7, <1>8, <1>9, <1>10, <1>11 DEF RecordsReal

LEMMA RealHandlers ==
  ASSUME RecordsReal, NEW j \in Jobs,
         \/ ChoosesKey(j) \/ LooksAtFile(j) \/ WritesFile(j) \/ WritesRecord(j) \/ InstallsSeed(j) \/ SavesSeed(j)
         \/ SignsAhead(j) \/ Forwards(j) \/ ReadsEntry(j)
  PROVE  RecordsReal'
<1> USE RecordsFacts
<1>1. RecordsTypeOK /\ RealJob(job[j]) /\ job[j] \in Job
    BY HandlerFields DEF RecordsReal
<1>2. FilesReal(cred) /\ seed \in [ProjectKeys -> installed \union {NoAgent}]
    BY FilesAreReal
<1>3. \A k \in ProjectKeys, p \in {"look", "overwrite"}, c \in BOOLEAN :
        job[j].pc \in {"allocate", "entry"} /\ job' = [job EXCEPT ![j].key = k, ![j].pc = p, ![j].clear = c]
          => JobMoves(j) /\ job'[j].pc # "rewrite" /\ (Signs(job'[j]) => job'[j].agent \in installed)
    <2> TAKE k \in ProjectKeys, p \in {"look", "overwrite"}, c \in BOOLEAN
    <2> HAVE job[j].pc \in {"allocate", "entry"} /\ job' = [job EXCEPT ![j].key = k, ![j].pc = p, ![j].clear = c]
    <2> DEFINE r == [job[j] EXCEPT !.key = k, !.pc = p, !.clear = c]
    <2>1. r \in Job /\ r.pc = p /\ r.key = k /\ r.agent = job[j].agent /\ r.turn = job[j].turn /\ r.signs = job[j].signs
        BY <1>1 DEF Job, Keyed
    <2>2. r # Free
        BY <2>1, FreeFacts
    <2>3. RealJob(r)
        BY <1>1, <2>1, <2>2 DEF RealJob, Keyed
    <2>4. job' = [job EXCEPT ![j] = r]
        OBVIOUS
    <2>5. Signs(r) => r.agent \in installed
        BY <2>1, HandlerFields DEF Signs, Keyed
    <2> HIDE DEF r
    <2> QED BY <2>1, <2>3, <2>4, <2>5, JobSet
<1>4. CASE ChoosesKey(j)
    <2> DEFINE k == Allocate(job[j].ws, job[j].agent, Taken)
               c == ClearFor(k, job[j].ws, job[j].agent)
    <2>1. UNCHANGED <<record, bucket, moving, cred, seed, gone, made, turn, installed, pod>>
        BY <1>4 DEF ChoosesKey, local, files, remote
    <2>2. job' = [job EXCEPT ![j].key = k, ![j].pc = "look", ![j].clear = c] /\ job[j].pc = "allocate"
        BY <1>4 DEF ChoosesKey, At
    <2>3. k \in ProjectKeys /\ c \in BOOLEAN
        BY AllocateFacts, HandlerFields DEF ClearFor
    <2> HIDE DEF k, c
    <2>4. JobMoves(j) /\ job'[j].pc # "rewrite" /\ (Signs(job'[j]) => job'[j].agent \in installed)
        BY <1>3, <2>2, <2>3
    <2> QED BY <2>1, <2>4, <1>1, <1>2, RealStays DEF RecordsTypeOK
<1>5. CASE ReadsEntry(j)
    <2> DEFINE k == KeyToReplace(job[j].ws, job[j].agent)
               c == ClearFor(k, job[j].ws, job[j].agent)
    <2>1. UNCHANGED <<record, bucket, moving, cred, seed, gone, made, turn, installed, pod>>
        BY <1>5 DEF ReadsEntry, local, files, remote
    <2>2. job' = [job EXCEPT ![j].pc = "overwrite", ![j].key = k, ![j].clear = c] /\ job[j].pc = "entry"
        BY <1>5 DEF ReadsEntry, At
    <2>3. k \in ProjectKeys /\ c \in BOOLEAN
        BY AllocateFacts, HandlerFields, FileOfFacts DEF ClearFor, KeyToReplace
    <2>4. job' = [job EXCEPT ![j].key = k, ![j].pc = "overwrite", ![j].clear = c]
        BY <2>2
    <2> HIDE DEF k, c
    <2>5. JobMoves(j) /\ job'[j].pc # "rewrite" /\ (Signs(job'[j]) => job'[j].agent \in installed)
        BY <1>3, <2>2, <2>3, <2>4
    <2> QED BY <2>1, <2>5, <1>1, <1>2, RealStays DEF RecordsTypeOK
<1>6. CASE LooksAtFile(j) \/ Forwards(j)
    <2>1. UNCHANGED <<record, bucket, moving, cred, seed, gone, made, turn, installed, pod>>
        BY <1>6 DEF LooksAtFile, Forwards, local, files, remote
    <2>2. JobMoves(j) /\ job'[j].pc # "rewrite" /\ (Signs(job'[j]) => job'[j].agent \in installed)
        <3>1. CASE LooksAtFile(j)
            <4>1. job[j].pc = "look" /\ (Goes(j, "write") \/ Goes(j, "record"))
                BY <3>1 DEF LooksAtFile, At, Goes
            <4> QED BY <4>1, <1>1, GoesFacts DEF Choosing, Keyed, RealJob
        <3>2. CASE Forwards(j)
            <4>1. job[j].pc = "forward" /\ (Goes(j, "entry") \/ Ends(j))
                BY <3>2 DEF Forwards, At
            <4>2. CASE Ends(j)
                BY <4>2, EndsFacts, FreeFacts
            <4>3. CASE Goes(j, "entry")
                BY <4>1, <4>3, <1>1, GoesFacts DEF Choosing, Keyed, RealJob
            <4> QED BY <4>1, <4>2, <4>3
        <3> QED BY <1>6, <3>1, <3>2
    <2> QED BY <2>1, <2>2, <1>1, <1>2, RealStays DEF RecordsTypeOK
<1>7. CASE WritesFile(j)
    <2>1. UNCHANGED <<record, bucket, moving, seed, gone, made, turn, installed, pod>> /\ At(j, "write") /\ Goes(j, "record")
          /\ cred' = [cred EXCEPT ![job[j].key] = [agent |-> job[j].agent, turn |-> 0]]
        BY <1>7 DEF WritesFile, local, remote
    <2>2. job[j].key \in ProjectKeys /\ job[j].agent \in made /\ job[j].agent # NoAgent
        BY <2>1, <1>1, HandlerFields DEF At, Keyed, RealJob, RecordsTypeOK
    <2>5. turn[job[j].agent] >= 0
        <3>1. turn[job[j].agent] \in 0..MaxTurns
            BY <2>2, <1>1 DEF RecordsTypeOK
        <3> QED BY <3>1
    <2>3. JobMoves(j) /\ job'[j].pc # "rewrite" /\ (Signs(job'[j]) => job'[j].agent \in installed)
        BY <2>1, <2>2, GoesFacts DEF Choosing, Keyed, At
    <2>4. FilesReal(cred')
        BY <2>1, <2>2, <2>5, FileReal
    <2> QED BY <2>1, <2>3, <2>4, <1>1, <1>2, RealStays DEF RecordsTypeOK
<1>8. CASE WritesRecord(j)
    <2>1. UNCHANGED <<bucket, moving, cred, seed, gone, made, turn, installed, pod>> /\ At(j, "record") /\ Goes(j, "install")
          /\ ~moving.held /\ record' = [record EXCEPT ![job[j].ws].project = job[j].key]
        BY <1>8 DEF WritesRecord, files, remote, Names
    <2>2. job[j].key \in ProjectKeys /\ job[j].agent \in made /\ job[j].agent # NoAgent
        BY <2>1, <1>1, HandlerFields DEF At, Keyed, RealJob, RecordsTypeOK
    <2>3. JobMoves(j) /\ job'[j].pc # "rewrite" /\ (Signs(job'[j]) => job'[j].agent \in installed)
        BY <2>1, <2>2, GoesFacts DEF Choosing, Keyed, At
    <2>4. record' \in [Spaces -> Record]
        <3>1. job[j].ws \in Spaces /\ record[job[j].ws] \in Record /\ record \in [Spaces -> Record]
            BY <1>1, HandlerFields DEF RecordsTypeOK
        <3>2. [record[job[j].ws] EXCEPT !.project = job[j].key] \in Record
            BY <3>1, <2>2 DEF Record
        <3>3. record' = [record EXCEPT ![job[j].ws] = [record[job[j].ws] EXCEPT !.project = job[j].key]]
            BY <2>1
        <3> QED BY <3>1, <3>2, <3>3
    <2> QED BY <2>1, <2>3, <2>4, <1>1, <1>2, RealStays DEF RecordsTypeOK
<1>9. CASE InstallsSeed(j)
    <2>1. UNCHANGED <<record, bucket, moving, cred, seed, gone, made, turn, pod>> /\ At(j, "install")
        BY <1>9 DEF InstallsSeed, local, files
    <2>2. job[j].key \in ProjectKeys /\ job[j].agent \in made /\ job[j].agent # NoAgent
        BY <2>1, <1>1, HandlerFields DEF At, Keyed, RealJob, RecordsTypeOK
    <2>3. \/ Ends(j) /\ installed' = installed
          \/ Goes(j, "seed") /\ installed' = installed \union {job[j].agent}
        BY <1>9 DEF InstallsSeed, Unsigned
    <2>4. JobMoves(j) /\ job'[j].pc # "rewrite" /\ (Signs(job'[j]) => job'[j].agent \in installed')
        <3>1. CASE Ends(j)
            BY <3>1, EndsFacts, FreeFacts
        <3>2. CASE Goes(j, "seed") /\ installed' = installed \union {job[j].agent}
            BY <3>2, <2>1, <2>2, GoesFacts DEF Choosing, Keyed, At
        <3> QED BY <2>3, <3>1, <3>2
    <2>5. installed \subseteq installed' /\ installed' \subseteq made
        BY <2>2, <2>3, <1>1 DEF RecordsTypeOK
    <2> QED BY <2>1, <2>4, <2>5, <1>1, <1>2, RealStays DEF RecordsTypeOK
<1>10. CASE SavesSeed(j)
    <2>1. UNCHANGED <<record, bucket, moving, cred, gone, made, turn, installed, pod>> /\ At(j, "seed") /\ Ends(j)
          /\ seed' = [seed EXCEPT ![job[j].key] = IF @ = NoAgent THEN job[j].agent ELSE @]
        BY <1>10 DEF SavesSeed, local, remote
    <2>2. job[j].agent \in installed /\ job[j].key \in ProjectKeys
        BY <2>1, HandlerFields DEF At, Signs, Keyed
    <2>3. JobMoves(j) /\ job'[j].pc # "rewrite" /\ ~Signs(job'[j])
        BY <2>1, EndsFacts, FreeFacts
    <2>4. seed' \in [ProjectKeys -> installed \union {NoAgent}]
        BY <2>1, <2>2, <1>2
    <2> QED BY <2>1, <2>3, <2>4, <1>1, <1>2, RealStays DEF RecordsTypeOK
<1>11. CASE SignsAhead(j)
    <2>1. UNCHANGED <<record, bucket, moving, cred, seed, gone, made, turn, pod>> /\ At(j, "sign")
        BY <1>11 DEF SignsAhead, local, files
    <2>2. job[j].agent \in made /\ job[j].agent # NoAgent
        BY <2>1, <1>1, HandlerFields DEF At, RealJob, RecordsTypeOK
    <2>3. \/ installed' = installed \union {job[j].agent} /\ job' = [job EXCEPT ![j].signs = TRUE, ![j].pc = "forward"]
          \/ installed' = installed /\ Goes(j, "forward")
        BY <1>11 DEF SignsAhead
    <2>4. JobMoves(j) /\ job'[j].agent = job[j].agent /\ job'[j].pc = "forward"
        <3>1. CASE Goes(j, "forward")
            BY <3>1, <2>1, <2>2, GoesFacts DEF At, Choosing, Keyed
        <3>2. CASE job' = [job EXCEPT ![j].signs = TRUE, ![j].pc = "forward"]
            <4> DEFINE r == [job[j] EXCEPT !.signs = TRUE, !.pc = "forward"]
            <4>1. r \in Job /\ r.pc = "forward" /\ r.key = job[j].key /\ r.agent = job[j].agent /\ r.turn = job[j].turn
                BY <1>1 DEF Job, Choosing
            <4>2. r # Free
                BY <4>1, FreeFacts
            <4>3. RealJob(r)
                BY <1>1, <2>1, <2>2, <4>1, <4>2 DEF RealJob, Keyed, At
            <4>4. job' = [job EXCEPT ![j] = r]
                BY <3>2
            <4> HIDE DEF r
            <4> QED BY <4>1, <4>3, <4>4, JobSet
        <3> QED BY <2>3, <3>1, <3>2
    <2>5. installed \subseteq installed' /\ installed' \subseteq made
        BY <2>2, <2>3, <1>1 DEF RecordsTypeOK
    <2>6. Signs(job'[j]) => job'[j].agent \in installed'
        <3>1. CASE installed' = installed /\ Goes(j, "forward")
            BY <3>1, <2>1, <2>2, GoesFacts DEF At, Choosing, Keyed
        <3>2. CASE installed' = installed \union {job[j].agent}
            BY <3>2, <2>4
        <3> QED BY <2>3, <3>1, <3>2
    <2> QED BY <2>1, <2>4, <2>5, <2>6, <1>1, <1>2, RealStays DEF RecordsTypeOK
<1> QED BY <1>4, <1>5, <1>6, <1>7, <1>8, <1>9, <1>10, <1>11

LEMMA RealWriters ==
  ASSUME RecordsReal, NEW j \in Jobs,
         \/ OverwritesFile(j) \/ OverwritesSeed(j) \/ ReplacesRecord(j) \/ RewritesFile(j)
         \/ DeletesFile(j) \/ DeletesSeed(j) \/ DeletesRecord(j)
  PROVE  RecordsReal'
<1> USE RecordsFacts
<1>1. RecordsTypeOK /\ RealJob(job[j]) /\ job[j] \in Job
    BY HandlerFields DEF RecordsReal
<1>2. FilesReal(cred) /\ seed \in [ProjectKeys -> installed \union {NoAgent}]
    BY FilesAreReal
<1>3. CASE OverwritesFile(j)
    <2>1. /\ UNCHANGED <<record, bucket, moving, seed, gone, made, turn, installed, pod>>
          /\ job[j].pc = "overwrite" /\ Goes(j, IF job[j].signs THEN "overseed" ELSE "replace")
          /\ cred' = [cred EXCEPT ![job[j].key] = [agent |-> job[j].agent, turn |-> 0]]
        BY <1>3 DEF OverwritesFile, local, remote, At
    <2>2. job[j].key \in ProjectKeys /\ job[j].agent \in made /\ job[j].agent # NoAgent
        BY <2>1, <1>1, HandlerFields DEF Keyed, RealJob
    <2>3. turn[job[j].agent] \in 0..MaxTurns
        BY <2>2, <1>1 DEF RecordsTypeOK
    <2>5. JobMoves(j) /\ job'[j].pc # "rewrite" /\ (Signs(job'[j]) => job'[j].agent \in installed)
        <3>1. CASE job[j].signs
            <4>1. Signs(job[j]) /\ Goes(j, "overseed")
                BY <3>1, <2>1 DEF Signs
            <4> QED BY <4>1, <2>1, <2>2, GoesFacts DEF Choosing, Keyed
        <3>2. CASE ~job[j].signs
            <4>1. Goes(j, "replace")
                BY <3>2, <2>1
            <4> QED BY <4>1, <2>1, <2>2, GoesFacts DEF Choosing, Keyed
        <3> QED BY <3>1, <3>2
    <2>6. FilesReal(cred')
        <3>1. 0 <= turn[job[j].agent]
            BY <2>3
        <3> QED BY <3>1, <2>1, <2>2, FileReal
    <2> QED BY <2>1, <2>5, <2>6, <1>1, <1>2, RealStays DEF RecordsTypeOK
<1>4. CASE OverwritesSeed(j)
    <2>1. /\ UNCHANGED <<record, bucket, moving, cred, gone, made, turn, installed, pod>>
          /\ job[j].pc = "overseed" /\ Goes(j, "replace") /\ seed' = [seed EXCEPT ![job[j].key] = job[j].agent]
        BY <1>4 DEF OverwritesSeed, local, remote, At, Overseed
    <2>2. job[j].key \in ProjectKeys /\ job[j].agent \in made /\ job[j].agent # NoAgent
        BY <2>1, <1>1, HandlerFields DEF Keyed, RealJob
    <2>3. job[j].agent \in installed
        BY <2>1, HandlerFields DEF Signs
    <2>5. JobMoves(j) /\ job'[j].pc # "rewrite" /\ (Signs(job'[j]) => job'[j].agent \in installed)
        BY <2>1, <2>2, GoesFacts DEF Choosing, Keyed
    <2>6. seed' \in [ProjectKeys -> installed \union {NoAgent}]
        BY <2>1, <2>2, <2>3, <1>2
    <2> QED BY <2>1, <2>5, <2>6, <1>1, <1>2, RealStays DEF RecordsTypeOK
<1>5. CASE ReplacesRecord(j) \/ DeletesRecord(j)
    <2>1. UNCHANGED <<bucket, moving, cred, seed, gone, made, turn, installed, pod>> /\ ~moving.held /\ Ends(j)
        BY <1>5 DEF ReplacesRecord, DeletesRecord, files, remote
    <2>2. JobMoves(j) /\ job'[j].pc # "rewrite" /\ ~Signs(job'[j])
        BY <2>1, EndsFacts, FreeFacts
    <2>3. record' \in [Spaces -> Record]
        <3>1. CASE ReplacesRecord(j)
            <4>1. record' = [record EXCEPT ![job[j].ws] = [project |-> job[j].key, old |-> NoAgent]]
                BY <3>1 DEF ReplacesRecord
            <4>2. [project |-> job[j].key, old |-> NoAgent] \in Record
                BY HandlerFields DEF Record
            <4> QED BY <4>1, <4>2, <1>1 DEF RecordsTypeOK
        <3>2. CASE DeletesRecord(j)
            <4>1. record' = [record EXCEPT ![job[j].ws] = NoRecord]
                BY <3>2 DEF DeletesRecord
            <4>2. NoRecord \in Record
                BY DEF Record, NoRecord
            <4> QED BY <4>1, <4>2, <1>1 DEF RecordsTypeOK
        <3> QED BY <1>5, <3>1, <3>2
    <2> QED BY <2>1, <2>2, <2>3, <1>1, <1>2, RealStays DEF RecordsTypeOK
<1>6. CASE RewritesFile(j)
    <2>1. /\ UNCHANGED <<record, bucket, moving, seed, gone, made, turn, installed, pod>>
          /\ job[j].pc = "rewrite" /\ Ends(j)
          /\ cred' = [cred EXCEPT ![job[j].key] = [agent |-> job[j].agent, turn |-> job[j].turn]]
        BY <1>6 DEF RewritesFile, local, remote, At
    <2>2. job[j].key \in ProjectKeys /\ job[j].agent \in made /\ job[j].turn \in 0..MaxTurns
        BY <2>1, <1>1, HandlerFields DEF Keyed, RealJob
    <2>3. job[j].turn <= turn[job[j].agent]
        BY <2>1 DEF RecordsReal, RotationsAreReal
    <2>5. JobMoves(j) /\ job'[j].pc # "rewrite" /\ ~Signs(job'[j])
        BY <2>1, EndsFacts, FreeFacts
    <2>6. FilesReal(cred')
        BY <2>1, <2>2, <2>3, FileReal
    <2> QED BY <2>1, <2>5, <2>6, <1>1, <1>2, RealStays DEF RecordsTypeOK
<1>7. CASE DeletesFile(j)
    <2>1. /\ UNCHANGED <<record, bucket, moving, seed, gone, made, turn, installed, pod>>
          /\ job[j].pc = "unlink" /\ Goes(j, "unseed") /\ cred' = [cred EXCEPT ![job[j].key] = NoFile]
        BY <1>7 DEF DeletesFile, local, remote, At
    <2>2. job[j].key \in ProjectKeys /\ job[j].key # NoKey
        BY <2>1, HandlerFields DEF Keyed
    <2>3. JobMoves(j) /\ job'[j].pc # "rewrite" /\ (Signs(job'[j]) => job'[j].agent \in installed)
        BY <2>1, <2>2, GoesFacts DEF Choosing, Keyed
    <2>4. FilesReal(cred')
        BY <2>1, <2>2, FileGone
    <2> QED BY <2>1, <2>3, <2>4, <1>1, <1>2, RealStays DEF RecordsTypeOK
<1>8. CASE DeletesSeed(j)
    <2>1. /\ UNCHANGED <<record, bucket, moving, cred, gone, made, turn, installed, pod>>
          /\ job[j].pc = "unseed" /\ Goes(j, "forget") /\ seed' = [seed EXCEPT ![job[j].key] = NoAgent]
        BY <1>8 DEF DeletesSeed, local, remote, At
    <2>2. job[j].key \in ProjectKeys /\ job[j].key # NoKey
        BY <2>1, HandlerFields DEF Keyed
    <2>3. JobMoves(j) /\ job'[j].pc # "rewrite" /\ (Signs(job'[j]) => job'[j].agent \in installed)
        BY <2>1, <2>2, GoesFacts DEF Choosing, Keyed
    <2>4. seed' \in [ProjectKeys -> installed \union {NoAgent}]
        BY <2>1, <1>2
    <2> QED BY <2>1, <2>3, <2>4, <1>1, <1>2, RealStays DEF RecordsTypeOK
<1> QED BY <1>3, <1>4, <1>5, <1>6, <1>7, <1>8

LEMMA RealRotates ==
  ASSUME RecordsReal, NEW j \in Jobs, Rotates(j)
  PROVE  RecordsReal'
<1> USE RecordsFacts
<1> DEFINE a == job[j].agent
           n == turn[a] + 1
<1>1. /\ UNCHANGED <<record, bucket, moving, cred, seed, gone, made, installed, pod>> /\ job[j].pc = "rotate"
      /\ turn[a] < MaxTurns /\ turn' = [turn EXCEPT ![a] = n]
      /\ \/ job' = [job EXCEPT ![j].pc = "rewrite", ![j].turn = turn'[a]]
         \/ Ends(j)
    BY DEF Rotates, At, local, files
<1>2. RecordsTypeOK /\ JobsAreReal /\ TurnsAreReal /\ MoveIsOfRecords /\ RotationsAreReal
    BY DEF RecordsReal
<1>3. a \in made /\ a \in Agents /\ turn[a] \in 0..MaxTurns /\ job[j].key \in ProjectKeys
    BY <1>1, <1>2, HandlerFields DEF RecordsTypeOK, Keyed
<1>4. n \in 0..MaxTurns /\ turn' \in [Agents -> 0..MaxTurns] /\ turn'[a] = n
      /\ \A b \in Agents : b # a => turn'[b] = turn[b]
    BY <1>1, <1>2, <1>3 DEF RecordsTypeOK
<1>5. \A b \in Agents : turn[b] <= turn'[b]
    BY <1>3, <1>4, <1>2 DEF RecordsTypeOK
<1>6. Job' = Job /\ Record' = Record /\ Move' = Move
    BY <1>1 DEF Job, Record, Move
<1>7. JobMoves(j) /\ (Signs(job'[j]) => job'[j].agent \in installed)
      /\ (job'[j].pc = "rewrite" => job'[j].turn <= turn'[job'[j].agent])
    <2>1. CASE Ends(j)
        BY <2>1, EndsFacts, FreeFacts
    <2>2. CASE job' = [job EXCEPT ![j].pc = "rewrite", ![j].turn = turn'[a]]
        <3> DEFINE r == [job[j] EXCEPT !.pc = "rewrite", !.turn = turn'[a]]
        <3>1. job[j] \in Job /\ RealJob(job[j])
            BY HandlerFields
        <3>2. r \in Job /\ r.pc = "rewrite" /\ r.turn = n /\ r.agent = a /\ r.key = job[j].key /\ r.signs = job[j].signs
            BY <3>1, <1>4 DEF Job, Keyed
        <3>3. r # Free
            BY <3>2, FreeFacts
        <3>4. RealJob(r)
            BY <3>1, <3>2, <3>3, <1>1 DEF RealJob, Keyed
        <3>5. Signs(r) => r.agent \in installed
            BY <3>2, HandlerFields DEF Signs
        <3>6. job' = [job EXCEPT ![j] = r]
            BY <2>2
        <3>7. r.turn <= turn'[r.agent]
            BY <3>2, <1>4
        <3> HIDE DEF r
        <3> QED BY <3>2, <3>4, <3>5, <3>6, <3>7, JobSet
    <2> QED BY <1>1, <2>1, <2>2
<1> HIDE DEF n
<1>8. RecordsTypeOK'
    BY <1>1, <1>2, <1>4, <1>6, <1>7 DEF RecordsTypeOK, JobMoves, RealJob
<1>9. JobsAreReal'
    BY <1>7 DEF JobsAreReal, RealJob, JobMoves
<1>10. TurnsAreReal'
    <2>1. \A k \in ProjectKeys : cred[k].agent # NoAgent => cred[k].agent \in Agents /\ cred[k].turn \in 0..MaxTurns
        BY <1>2 DEF RecordsTypeOK
    <2>2. ASSUME NEW k \in ProjectKeys, cred[k].agent # NoAgent PROVE cred[k].turn <= turn'[cred[k].agent]
        <3> DEFINE b == cred[k].agent
        <3>1. b \in Agents /\ cred[k].turn \in 0..MaxTurns /\ cred[k].turn <= turn[b]
            BY <2>1, <2>2, <1>2 DEF TurnsAreReal
        <3>2. turn[b] <= turn'[b] /\ turn[b] \in 0..MaxTurns /\ turn'[b] \in 0..MaxTurns
            BY <3>1, <1>5, <1>4, <1>2 DEF RecordsTypeOK
        <3> QED BY <3>1, <3>2
    <2> QED BY <2>2, <1>1, <1>2, <1>3, <1>4 DEF TurnsAreReal
<1>11. MoveIsOfRecords'
    BY <1>1, <1>2 DEF MoveIsOfRecords
<1>12. SignersAreKnown'
    BY <1>1, <1>7 DEF RecordsReal, SignersAreKnown, Signs, JobMoves
<1>13. RotationsAreReal'
    <2> SUFFICES ASSUME NEW i \in Jobs, job'[i].pc = "rewrite" PROVE job'[i].turn <= turn'[job'[i].agent]
        BY DEF RotationsAreReal
    <2>1. CASE i = j
        BY <2>1, <1>7
    <2>2. CASE i # j
        <3>1. job'[i] = job[i] /\ job[i].turn <= turn[job[i].agent]
            BY <2>2, <1>7, <1>2 DEF JobMoves, RotationsAreReal
        <3>2. job[i].agent \in Agents /\ job[i].turn \in 0..MaxTurns
            BY <3>1, <1>2, HandlerFields DEF RecordsTypeOK
        <3>3. turn[job[i].agent] <= turn'[job[i].agent] /\ turn[job[i].agent] \in 0..MaxTurns
              /\ turn'[job[i].agent] \in 0..MaxTurns
            BY <3>2, <1>5, <1>4, <1>2 DEF RecordsTypeOK
        <3> QED BY <3>1, <3>2, <3>3
    <2> QED BY <2>1, <2>2
<1> QED BY <1>8, <1>9, <1>10, <1>11, <1>12, <1>13 DEF RecordsReal

\* The move of the old fields.
MoveReal(m) == /\ m.held => \A w \in Spaces :
                    /\ m.old[w] = IF record[w].old = NoAgent THEN bucket[w] ELSE record[w].old
                    /\ w \in m.todo => m.old[w] # NoAgent /\ m.key[w] = NoKey
               /\ \A w \in Spaces : m.key[w] # NoKey =>
                    /\ m.held /\ m.old[w] # NoAgent
                    /\ record[w].project # NoKey => m.key[w] = record[w].project
               /\ m.todo # {} => m.held

LEMMA RealWhenMoved ==
  ASSUME RecordsReal, moving' \in Move, MoveReal(moving'), FilesReal(cred'),
         seed' \in [ProjectKeys -> installed \union {NoAgent}],
         UNCHANGED <<record, bucket, gone, made, turn, installed, pod, job>>
  PROVE  RecordsReal'
<1>1. Job' = Job /\ Record' = Record /\ Move' = Move
    BY DEF Job, Record, Move
<1>2. RecordsTypeOK'
    BY <1>1 DEF RecordsReal, RecordsTypeOK, FilesReal, File
<1>3. JobsAreReal' /\ SignersAreKnown' /\ RotationsAreReal'
    BY DEF RecordsReal, JobsAreReal, RealJob, SignersAreKnown, Signs, RotationsAreReal
<1>4. TurnsAreReal'
    BY DEF RecordsReal, TurnsAreReal, FilesReal
<1>5. MoveIsOfRecords'
    BY DEF MoveIsOfRecords, MoveReal
<1> QED BY <1>2, <1>3, <1>4, <1>5 DEF RecordsReal

LEMMA RealMoveBegins == ASSUME RecordsReal, MoveBegins PROVE RecordsReal'
<1> USE RecordsFacts
<1> DEFINE old == [w \in Spaces |-> IF record[w].old = NoAgent THEN bucket[w] ELSE record[w].old]
           todo == {w \in Spaces : old[w] # NoAgent}
           key == [w \in Spaces |-> NoKey]
<1>1. /\ moving' = [held |-> TRUE, todo |-> todo, old |-> old, key |-> key, clear |-> {}]
      /\ UNCHANGED <<record, bucket, cred, seed, gone, made, turn, installed, pod, job>>
    BY DEF MoveBegins, files, remote
<1>2. old \in [Spaces -> made \union {NoAgent}] /\ todo \in SUBSET Spaces
      /\ key \in [Spaces -> ProjectKeys \union {NoKey}]
    BY FileOfFacts
<1>3. \A w \in Spaces : old[w] = (IF record[w].old = NoAgent THEN bucket[w] ELSE record[w].old) /\ key[w] = NoKey
                        /\ (w \in todo => old[w] # NoAgent)
    OBVIOUS
<1> HIDE DEF old, todo, key
<1>4. moving' \in Move /\ MoveReal(moving')
    BY <1>1, <1>2, <1>3 DEF Move, MoveReal
<1> QED BY <1>1, <1>4, FilesAreReal, RealWhenMoved

LEMMA RealMovesOne == ASSUME RecordsReal, NEW w \in Spaces, MovesOne(w) \/ MovesNone(w) PROVE RecordsReal'
<1> USE RecordsFacts
<1>1. RecordsTypeOK /\ MoveIsOfRecords /\ moving \in Move /\ FilesReal(cred)
      /\ seed \in [ProjectKeys -> installed \union {NoAgent}]
    BY FilesAreReal DEF RecordsReal, RecordsTypeOK
<1>2. /\ UNCHANGED <<record, bucket, gone, made, turn, installed, pod, job>> /\ w \in moving.todo
    BY DEF MovesOne, MovesNone, remote, files
<1>3. /\ moving.held /\ moving.old[w] # NoAgent /\ moving.key[w] = NoKey /\ moving.old[w] \in made
    BY <1>1, <1>2 DEF MoveIsOfRecords, Move
<1>4. CASE MovesNone(w)
    <2>1. moving' = [moving EXCEPT !.todo = moving.todo \ {w}] /\ UNCHANGED <<cred, seed>>
        BY <1>4 DEF MovesNone, files
    <2>2. moving' \in Move /\ moving'.todo = moving.todo \ {w} /\ moving'.held = moving.held
          /\ moving'.old = moving.old /\ moving'.key = moving.key
        BY <1>1, <2>1 DEF Move
    <2>3. MoveReal(moving')
        BY <1>1, <1>3, <2>2 DEF MoveReal, MoveIsOfRecords
    <2> QED BY <1>1, <1>2, <2>1, <2>2, <2>3, RealWhenMoved
<1>5. CASE MovesOne(w)
    <2> DEFINE a == moving.old[w]
               k == IF record[w].project # NoKey THEN record[w].project ELSE Allocate(w, a, TakenWhileMoving)
               clear == IF ClearFor(k, w, a) THEN moving.clear \union {w} ELSE moving.clear
               key == [moving.key EXCEPT ![w] = k]
    <2>1. /\ moving' = [held |-> TRUE, todo |-> moving.todo \ {w}, old |-> moving.old, key |-> key, clear |-> clear]
          /\ cred' = [cred EXCEPT ![k] = IF cred[k] = NoFile THEN [agent |-> a, turn |-> 0] ELSE cred[k]]
          /\ seed' = [seed EXCEPT ![k] = IF seed[k] = NoAgent /\ a \in installed THEN a ELSE seed[k]]
        BY <1>5 DEF MovesOne
    <2>2. k \in ProjectKeys /\ (record[w].project # NoKey => k = record[w].project)
        BY AllocateFacts, FileOfFacts
    <2>3. key \in [Spaces -> ProjectKeys \union {NoKey}] /\ key[w] = k
          /\ \A v \in Spaces : v # w => key[v] = moving.key[v]
        BY <1>1, <2>2 DEF Move
    <2>4. clear \in SUBSET Spaces
        BY <1>1 DEF Move
    <2> HIDE DEF clear, key, k
    <2>5. moving' \in Move
        BY <1>1, <2>1, <2>3, <2>4 DEF Move
    <2>6. MoveReal(moving')
        BY <1>1, <1>2, <1>3, <2>1, <2>2, <2>3 DEF MoveReal, MoveIsOfRecords
    <2>7. seed' \in [ProjectKeys -> installed \union {NoAgent}]
        BY <1>1, <2>1, <2>2
    <2>8. FilesReal(cred')
        <3>1. CASE cred[k] = NoFile
            <4>1. cred' = [cred EXCEPT ![k] = [agent |-> a, turn |-> 0]]
                BY <3>1, <2>1
            <4>2. turn[a] \in 0..MaxTurns
                BY <1>1, <1>3 DEF RecordsTypeOK
            <4>3. 0 <= turn[a]
                BY <4>2
            <4> QED BY <4>1, <4>3, <1>3, <2>2, FileReal
        <3>2. CASE cred[k] # NoFile
            <4>1. cred' = cred
                BY <3>2, <2>1, <2>2, <1>1 DEF RecordsTypeOK
            <4> QED BY <4>1, <1>1
        <3> QED BY <3>1, <3>2
    <2> QED BY <1>2, <2>5, <2>6, <2>7, <2>8, RealWhenMoved
<1> QED BY <1>4, <1>5

LEMMA RealMoveSaves == ASSUME RecordsReal, MoveSaves PROVE RecordsReal'
<1> USE RecordsFacts
<1>1. RecordsTypeOK /\ MoveIsOfRecords /\ moving \in Move /\ FilesReal(cred)
    BY FilesAreReal DEF RecordsReal, RecordsTypeOK
<1>2. /\ moving' = AtRest /\ bucket' = [w \in Spaces |-> NoAgent]
      /\ UNCHANGED <<cred, seed, gone, made, turn, installed, pod, job>>
      /\ record' = [w \in Spaces |-> IF moving.key[w] # NoKey THEN [project |-> moving.key[w], old |-> NoAgent]
                                     ELSE [project |-> record[w].project, old |-> moving.old[w]]]
    BY DEF MoveSaves, files, remote
<1>3. \A w \in Spaces : moving.key[w] \in ProjectKeys \union {NoKey} /\ moving.old[w] \in made \union {NoAgent}
                        /\ record[w].project \in ProjectKeys \union {NoKey}
    BY <1>1, FileOfFacts DEF Move
<1>4. record' \in [Spaces -> Record]
    <2>1. \A w \in Spaces : /\ [project |-> moving.key[w], old |-> NoAgent] \in Record
                            /\ [project |-> record[w].project, old |-> moving.old[w]] \in Record
        BY <1>3 DEF Record
    <2> QED BY <1>2, <2>1
<1>5. Job' = Job /\ Record' = Record /\ Move' = Move
    BY <1>2 DEF Job, Record, Move
<1>6. bucket' \in [Spaces -> made \union {NoAgent}]
    BY <1>2
<1>7. RecordsTypeOK'
    BY <1>1, <1>2, <1>4, <1>5, <1>6, FreeFacts DEF RecordsTypeOK
<1>8. JobsAreReal' /\ SignersAreKnown' /\ RotationsAreReal' /\ TurnsAreReal'
    BY <1>2 DEF RecordsReal, JobsAreReal, RealJob, SignersAreKnown, Signs, RotationsAreReal, TurnsAreReal
<1>9. MoveIsOfRecords'
    BY <1>2, FreeFacts DEF MoveIsOfRecords
<1> QED BY <1>7, <1>8, <1>9 DEF RecordsReal

LEMMA RealCrashes == ASSUME RecordsReal, Crashes PROVE RecordsReal'
<1> USE RecordsFacts
<1>1. RecordsTypeOK /\ TurnsAreReal
    BY DEF RecordsReal
<1>2. /\ moving' = AtRest /\ job' = [j \in Jobs |-> Free]
      /\ UNCHANGED <<record, bucket, cred, seed, gone, made, turn, installed, pod>>
    BY DEF Crashes, files, remote
<1>3. Job' = Job /\ Record' = Record /\ Move' = Move
    BY <1>2 DEF Job, Record, Move
<1>4. job' \in [Jobs -> Job] /\ \A j \in Jobs : job'[j] = Free
    BY <1>2, FreeFacts
<1>5. RecordsTypeOK'
    BY <1>1, <1>2, <1>3, <1>4, FreeFacts DEF RecordsTypeOK, Keyed
<1>6. JobsAreReal' /\ SignersAreKnown' /\ RotationsAreReal'
    BY <1>4, FreeFacts DEF JobsAreReal, RealJob, SignersAreKnown, Signs, RotationsAreReal
<1>7. TurnsAreReal'
    BY <1>1, <1>2 DEF TurnsAreReal
<1>8. MoveIsOfRecords'
    BY <1>2, FreeFacts DEF MoveIsOfRecords
<1> QED BY <1>5, <1>6, <1>7, <1>8 DEF RecordsReal

LEMMA RealAround ==
  ASSUME RecordsReal,
         \/ \E w \in Spaces : DirectoryGoes(w) \/ \E v \in Spaces : Relinks(w, v)
         \/ PodMakes
         \/ UNCHANGED recordsVars
  PROVE  RecordsReal'
<1> USE RecordsFacts
<1>1. RecordsTypeOK /\ JobsAreReal /\ TurnsAreReal /\ MoveIsOfRecords /\ SignersAreKnown /\ RotationsAreReal
    BY DEF RecordsReal
<1>2. UNCHANGED <<bucket, moving, cred, seed, made, turn, installed, job>>
    BY DEF DirectoryGoes, Relinks, PodMakes, local, files, remote, recordsVars
<1>3. Job' = Job /\ Record' = Record /\ Move' = Move
    BY <1>2 DEF Job, Record, Move
<1>4. /\ record' \in [Spaces -> Record] /\ (record' = record \/ ~moving.held)
      /\ gone' \subseteq Spaces /\ pod' \in {"none", "made", "keyed"}
    <2>1. ASSUME NEW w \in Spaces, NEW v \in Spaces, Relinks(w, v)
          PROVE  record' \in [Spaces -> Record] /\ ~moving.held /\ gone' = gone /\ pod' = pod
        <3>1. record' = [record EXCEPT ![v] = record[w], ![w] = NoRecord] /\ ~moving.held /\ gone' = gone /\ pod' = pod
            BY <2>1 DEF Relinks, Moves
        <3>2. NoRecord \in Record /\ record[w] \in Record
            BY <1>1 DEF RecordsTypeOK, Record, NoRecord
        <3> QED BY <3>1, <3>2, <1>1 DEF RecordsTypeOK
    <2>2. ASSUME NEW w \in Spaces, DirectoryGoes(w) PROVE record' = record /\ gone' \subseteq Spaces /\ pod' = pod
        BY <2>2, <1>1 DEF DirectoryGoes, local, RecordsTypeOK
    <2>3. CASE PodMakes
        BY <2>3, <1>1 DEF PodMakes, local, RecordsTypeOK
    <2>4. CASE UNCHANGED recordsVars
        BY <2>4, <1>1 DEF recordsVars, RecordsTypeOK
    <2> QED BY <2>1, <2>2, <2>3, <2>4, <1>1 DEF RecordsTypeOK
<1>5. RecordsTypeOK'
    BY <1>1, <1>2, <1>3, <1>4 DEF RecordsTypeOK
<1>6. JobsAreReal' /\ SignersAreKnown' /\ RotationsAreReal' /\ TurnsAreReal'
    BY <1>1, <1>2 DEF JobsAreReal, RealJob, SignersAreKnown, Signs, RotationsAreReal, TurnsAreReal
<1>7. MoveIsOfRecords'
    BY <1>1, <1>2, <1>4 DEF MoveIsOfRecords
<1> QED BY <1>5, <1>6, <1>7 DEF RecordsReal

LEMMA RecordsRealStep == RecordsReal /\ [RecordsNext]_recordsVars => RecordsReal'
<1> SUFFICES ASSUME RecordsReal, [RecordsNext]_recordsVars PROVE RecordsReal'
    OBVIOUS
<1>1. ASSUME NEW j \in Jobs, Handles(j) PROVE RecordsReal'
    BY <1>1, RealCreates, RealHandlers, RealWriters, RealRotates DEF Handles
<1>2. ASSUME NEW w \in Spaces,
             \/ ProvisionBegins(w, "derived") \/ ProvisionBegins(w, "named") \/ MigrateBegins(w)
             \/ RotateBegins(w) \/ RemoveBegins(w)
      PROVE  RecordsReal'
    BY <1>2, RealBegins
<1>3. ASSUME NEW w \in Spaces, MovesOne(w) \/ MovesNone(w) PROVE RecordsReal'
    BY <1>3, RealMovesOne
<1>4. ASSUME NEW w \in Spaces, DirectoryGoes(w) \/ \E v \in Spaces : Relinks(w, v) PROVE RecordsReal'
    BY <1>4, RealAround
<1>5. CASE PodMakes \/ UNCHANGED recordsVars
    BY <1>5, RealAround
<1>6. CASE MoveBegins \/ MoveSaves \/ Crashes
    BY <1>6, RealMoveBegins, RealMoveSaves, RealCrashes
<1> QED BY <1>1, <1>2, <1>3, <1>4, <1>5, <1>6 DEF RecordsNext

LEMMA RecordsRealHolds == RecordsSpec => []RecordsReal
BY RecordsRealInit, RecordsRealStep, PTL DEF RecordsSpec

-----------------------------------------------------------------------------
(* No key of a mailbox is lost but at the named steps.                     *)

\* Where a handler has written a file, or read one it will write again, it holds its agent.
Written(j) ==
  /\ job[j].pc \in {"record", "overseed", "replace"} /\ lost[job[j].agent] = "none" => cred[job[j].key].agent = job[j].agent
  /\ job[j].pc \in {"rotate", "rewrite"} /\ lost[job[j].agent] = "none" =>
       cred[job[j].key].agent = job[j].agent /\ \E w \in Spaces : record[w].project = job[j].key

\* So it does where an old record was moved.
MovedIsWritten ==
  \A w \in Spaces : moving.key[w] # NoKey /\ lost[moving.old[w]] = "none" => cred[moving.key[w]].agent = moving.old[w]

KeysInv == KeysAreKept /\ MovedIsWritten /\ \A j \in Jobs : Written(j)

LEMMA LoseFacts ==
  ASSUME NEW as, NEW why, why # "none", Lose(as, why), NEW a \in Agents
  PROVE  lost'[a] = "none" => lost[a] = "none" /\ a \notin as
BY DEF Lose

\* A file that a record names holds the current key.
LEMMA FileIs ==
  ASSUME RecordsReal, NEW w \in Spaces, NEW a \in made
  PROVE  /\ FileOf(w) = [agent |-> a, turn |-> turn[a]] <=> FileOf(w).agent = a /\ FileOf(w).turn = turn[a]
         /\ FileOf(w).agent = a => record[w].project \in ProjectKeys /\ FileOf(w) = cred[record[w].project]
<1>1. FileOf(w) \in File
    BY FileOfFacts
<1>2. a # NoAgent
    BY RecordsFacts DEF RecordsReal, RecordsTypeOK
<1>3. FileOf(w).agent = a => Resolves(w)
    BY <1>2 DEF Resolves
<1>4. FileOf(w) = [agent |-> FileOf(w).agent, turn |-> FileOf(w).turn]
    BY <1>1 DEF File
<1>5. FileOf(w).agent = a => record[w].project \in ProjectKeys /\ FileOf(w) = cred[record[w].project]
    BY <1>3, FileOfFacts
<1> QED BY <1>4, <1>5

LEMMA FileNamed ==
  ASSUME RecordsReal, NEW w \in Spaces, record[w].project \in ProjectKeys
  PROVE  FileOf(w) = cred[record[w].project]
BY RecordsFacts DEF FileOf

LEMMA CarriesFacts ==
  ASSUME NEW j \in Jobs, NEW a
  PROVE  Carries(j, a) <=> /\ job[j].agent = a /\ job[j].turn = turn[a]
                           /\ job[j].pc \in {"allocate", "look", "write", "record", "sign", "forward", "entry",
                                             "overwrite", "overseed", "replace", "rewrite"}
BY DEF Carries

LEMMA KeysInvInit == RecordsInit => KeysInv
<1> SUFFICES ASSUME RecordsInit PROVE KeysInv
    OBVIOUS
<1>1. made = ({record[w].old : w \in Spaces} \union {bucket[w] : w \in Spaces}) \ {NoAgent}
      /\ turn = [a \in Agents |-> 0] /\ job = [j \in Jobs |-> Free] /\ moving = AtRest
    BY DEF RecordsInit
<1>2. RecordsReal
    BY RecordsRealInit
<1>3. \A a \in made : turn[a] = 0
    BY <1>1, <1>2 DEF RecordsReal, RecordsTypeOK
<1>4. KeysAreKept
    BY <1>1, <1>3 DEF KeysAreKept, Held
<1>5. MovedIsWritten
    BY <1>1, FreeFacts DEF MovedIsWritten
<1>6. \A j \in Jobs : Written(j)
    BY <1>1, FreeFacts DEF Written
<1> QED BY <1>4, <1>5, <1>6 DEF KeysInv

\* What a step must leave of an agent that is not lost by then: the files with its key, a record
\* that names them, an old record of it, and what the handlers carry.
LossesStay == \A a \in made : lost'[a] = "none" => lost[a] = "none"
FilesStay == \A a \in made, k \in ProjectKeys : lost'[a] = "none" /\ cred[k].agent = a =>
                cred'[k].agent = a /\ (cred[k].turn = turn[a] => cred'[k].turn = turn[a])
RecordsStay == \A a \in made, w \in Spaces : lost'[a] = "none" /\ FileOf(w).agent = a =>
                  \E v \in Spaces : record'[v].project = record[w].project
OldStay == \A a \in made, w \in Spaces : lost'[a] = "none" /\ turn[a] = 0 /\ a \in {record[w].old, bucket[w]} => Held(a)'
HandlerStays(j) == \/ job'[j] = job[j]
                   \/ Written(j)' /\ \A a \in made : lost'[a] = "none" /\ Carries(j, a) => Held(a)'

\* A step that makes and rotates nothing and leaves these keeps every key.
LEMMA KeysStay ==
  ASSUME RecordsReal, RecordsReal', KeysInv, UNCHANGED <<turn, made>>, UNCHANGED moving \/ moving' = AtRest,
         LossesStay, FilesStay, RecordsStay, OldStay, \A j \in Jobs : HandlerStays(j)
  PROVE  KeysInv'
<1> USE DEF LossesStay, FilesStay, RecordsStay, OldStay, HandlerStays
<1> USE RecordsFacts
<1>1. KeysAreKept /\ MovedIsWritten /\ \A j \in Jobs : Written(j)
    BY DEF KeysInv
<1>2. KeysAreKept'
    <2> SUFFICES ASSUME NEW a \in made, lost'[a] = "none" PROVE Held(a)'
        BY DEF KeysAreKept
    <2>1. Held(a)
        BY <1>1 DEF KeysAreKept
    <2>2. CASE \E w \in Spaces : FileOf(w) = [agent |-> a, turn |-> turn[a]]
        <3>1. PICK w \in Spaces : FileOf(w) = [agent |-> a, turn |-> turn[a]]
            BY <2>2
        <3>2. FileOf(w).agent = a /\ FileOf(w).turn = turn[a] /\ record[w].project \in ProjectKeys
              /\ FileOf(w) = cred[record[w].project]
            BY <3>1, FileIs
        <3>3. PICK v \in Spaces : record'[v].project = record[w].project
            BY <3>2
        <3> DEFINE k == record[w].project
        <3>8. k \in ProjectKeys /\ cred[k].agent = a /\ cred[k].turn = turn[a]
            BY <3>2
        <3> HIDE DEF k
        <3>9. cred'[k].agent = a /\ cred'[k].turn = turn[a]
            BY <3>8
        <3>4. cred'[record'[v].project].agent = a /\ cred'[record'[v].project].turn = turn[a]
            BY <3>3, <3>9 DEF k
        <3>5. (FileOf(v) = cred[record[v].project])'
            BY <3>2, <3>3 DEF FileOf
        <3>6. (cred[record[v].project] \in File)'
            BY <3>2, <3>3 DEF RecordsReal, RecordsTypeOK, File
        <3>7. FileOf(v)' = [agent |-> a, turn |-> turn'[a]]
            BY <3>4, <3>5, <3>6 DEF File
        <3> QED BY <3>7 DEF Held
    <2>3. CASE turn[a] = 0 /\ \E w \in Spaces : a \in {record[w].old, bucket[w]}
        BY <2>3
    <2>4. CASE \E j \in Jobs : Carries(j, a)
        <3>1. PICK j \in Jobs : Carries(j, a)
            BY <2>4
        <3>2. CASE job'[j] = job[j]
            BY <3>1, <3>2 DEF Carries, Held
        <3> QED BY <3>1, <3>2
    <2> QED BY <2>1, <2>2, <2>3, <2>4 DEF Held
<1>3. MovedIsWritten'
    <2>1. CASE moving' = AtRest
        BY <2>1, FreeFacts DEF MovedIsWritten
    <2>2. CASE UNCHANGED moving
        <3> SUFFICES ASSUME NEW w \in Spaces, moving.key[w] # NoKey, lost'[moving.old[w]] = "none"
                     PROVE  cred'[moving.key[w]].agent = moving.old[w]
            BY <2>2 DEF MovedIsWritten
        <3>1. moving.old[w] \in made /\ moving.key[w] \in ProjectKeys
            BY DEF RecordsReal, RecordsTypeOK, MoveIsOfRecords, Move
        <3> QED BY <3>1, <1>1 DEF MovedIsWritten
    <2> QED BY <2>1, <2>2
<1>4. ASSUME NEW j \in Jobs PROVE Written(j)'
    <2> SUFFICES ASSUME job'[j] = job[j] PROVE Written(j)'
        OBVIOUS
    <2> DEFINE a == job[j].agent
               k == job[j].key
    <2>1. CASE job[j].pc \in {"record", "overseed", "replace", "rotate", "rewrite"} /\ lost'[a] = "none"
        <3>1. a \in made /\ k \in ProjectKeys
            BY <2>1, HandlerFields DEF Keyed
        <3>2. lost[a] = "none" /\ cred[k].agent = a /\ cred'[k].agent = a
            BY <2>1, <3>1, <1>1 DEF Written
        <3>3. ASSUME job[j].pc \in {"rotate", "rewrite"} PROVE \E w \in Spaces : record'[w].project = k
            <4>1. PICK w \in Spaces : record[w].project = k
                BY <3>2, <3>3, <1>1 DEF Written
            <4>2. FileOf(w).agent = a
                BY <4>1, <3>1, <3>2, FileNamed
            <4>3. \E v \in Spaces : record'[v].project = record[w].project
                BY <4>2, <3>1, <2>1
            <4> QED BY <4>1, <4>3
        <3> QED BY <3>2, <3>3 DEF Written
    <2> QED BY <2>1 DEF Written
<1> QED BY <1>2, <1>3, <1>4 DEF KeysInv

LEMMA StayFacts ==
  ASSUME RecordsReal
  PROVE  /\ UNCHANGED lost => LossesStay
         /\ UNCHANGED cred => FilesStay
         /\ UNCHANGED record => RecordsStay
         /\ UNCHANGED <<record, bucket, turn>> => OldStay
         /\ \A as, why : why # "none" /\ Lose(as, why) =>
              LossesStay /\ \A a \in made : lost'[a] = "none" => a \notin as
         /\ \A j \in Jobs : JobMoves(j) => \A i \in Jobs : i # j => HandlerStays(i)
<1>1. made \subseteq Agents
    BY DEF RecordsReal, RecordsTypeOK
<1>2. UNCHANGED lost => LossesStay
    BY DEF LossesStay
<1>3. UNCHANGED cred => FilesStay
    BY DEF FilesStay
<1>4. UNCHANGED record => RecordsStay
    BY DEF RecordsStay
<1>5. UNCHANGED <<record, bucket, turn>> => OldStay
    BY DEF OldStay, Held
<1>6. ASSUME NEW as, NEW why, why # "none", Lose(as, why)
      PROVE  LossesStay /\ \A a \in made : lost'[a] = "none" => a \notin as
    BY <1>1, <1>6 DEF Lose, LossesStay
<1>7. ASSUME NEW j \in Jobs, JobMoves(j), NEW i \in Jobs, i # j PROVE HandlerStays(i)
    BY <1>7 DEF JobMoves, HandlerStays
<1> QED BY <1>2, <1>3, <1>4, <1>5, <1>6, <1>7

\* A handler goes on holding what it held.
LEMMA CarriesOn ==
  ASSUME NEW j \in Jobs, Written(j)', turn' = turn, job'[j].agent = job[j].agent, job'[j].turn = job[j].turn,
         job'[j].pc \in {"look", "write", "record", "forward", "entry", "overwrite", "overseed", "replace"}
  PROVE  HandlerStays(j)
BY DEF HandlerStays, Carries, Held

\* Steps that change no file and no record.
LEMMA KeysInHand ==
  ASSUME RecordsReal, RecordsReal', KeysInv, NEW j \in Jobs,
         \/ ChoosesKey(j) \/ LooksAtFile(j) \/ InstallsSeed(j) \/ SavesSeed(j) \/ SignsAhead(j) \/ Forwards(j)
         \/ ReadsEntry(j) \/ OverwritesSeed(j) \/ DeletesSeed(j)
  PROVE  KeysInv'
<1> USE RecordsFacts
<1>1. UNCHANGED <<record, bucket, cred, moving, turn, made>>
    BY DEF ChoosesKey, LooksAtFile, InstallsSeed, SavesSeed, SignsAhead, Forwards, ReadsEntry, OverwritesSeed,
           DeletesSeed, local, files, remote
<1>2. FilesStay /\ RecordsStay /\ OldStay
    BY <1>1, StayFacts
<1>3. RecordsTypeOK /\ job \in [Jobs -> Job] /\ job[j] \in Job /\ made \subseteq Agents
    BY HandlerFields DEF RecordsReal, RecordsTypeOK
<1>4. CASE ChoosesKey(j) \/ ReadsEntry(j)
    <2>1. UNCHANGED lost /\ job[j].pc \in {"allocate", "entry"}
        BY <1>4 DEF ChoosesKey, ReadsEntry, past, At
    <2>2. /\ job'[j].pc \in {"look", "overwrite"} /\ job'[j].agent = job[j].agent /\ job'[j].turn = job[j].turn
          /\ \A i \in Jobs : i # j => job'[i] = job[i]
        <3>1. ASSUME NEW k, NEW c, job' = [job EXCEPT ![j].key = k, ![j].pc = "look", ![j].clear = c]
              PROVE  /\ job'[j].pc = "look" /\ job'[j].agent = job[j].agent /\ job'[j].turn = job[j].turn
                     /\ \A i \in Jobs : i # j => job'[i] = job[i]
            BY <1>3, <3>1 DEF Job
        <3>2. ASSUME NEW k, NEW c, job' = [job EXCEPT ![j].pc = "overwrite", ![j].key = k, ![j].clear = c]
              PROVE  /\ job'[j].pc = "overwrite" /\ job'[j].agent = job[j].agent /\ job'[j].turn = job[j].turn
                     /\ \A i \in Jobs : i # j => job'[i] = job[i]
            BY <1>3, <3>2 DEF Job
        <3>3. CASE ChoosesKey(j)
            BY Zenon, <3>1, <3>3 DEF ChoosesKey
        <3>4. CASE ReadsEntry(j)
            BY Zenon, <3>2, <3>4 DEF ReadsEntry
        <3> QED BY <1>4, <3>3, <3>4
    <2>3. Written(j)'
        BY <2>2 DEF Written
    <2>4. \A i \in Jobs : HandlerStays(i)
        BY <1>1, <2>2, <2>3, CarriesOn DEF HandlerStays
    <2> QED BY <1>1, <1>2, <2>1, <2>4, StayFacts, KeysStay
<1>5. CASE SignsAhead(j)
    <2>1. UNCHANGED lost /\ job[j].pc = "sign"
        BY <1>5 DEF SignsAhead, At
    <2>2. /\ job'[j].pc = "forward" /\ job'[j].agent = job[j].agent /\ job'[j].turn = job[j].turn
          /\ \A i \in Jobs : i # j => job'[i] = job[i]
        <3>1. CASE job' = [job EXCEPT ![j].signs = TRUE, ![j].pc = "forward"]
            BY <1>3, <3>1 DEF Job
        <3>2. CASE Goes(j, "forward")
            BY <1>3, <3>2 DEF Job, Goes
        <3> QED BY <1>5, <3>1, <3>2 DEF SignsAhead
    <2>3. Written(j)'
        BY <2>2 DEF Written
    <2>4. \A i \in Jobs : HandlerStays(i)
        BY <1>1, <2>2, <2>3, CarriesOn DEF HandlerStays
    <2> QED BY <1>1, <1>2, <2>1, <2>4, StayFacts, KeysStay
<1>6. CASE LooksAtFile(j)
    <2>1. job[j].pc = "look" /\ job[j].key \in ProjectKeys /\ job[j].agent \in made
        BY <1>6, HandlerFields DEF LooksAtFile, At, Keyed
    <2>2. \/ Goes(j, "write") /\ UNCHANGED lost
          \/ Goes(j, "record") /\ Lose({job[j].agent}, "outranked")
        BY <1>6 DEF LooksAtFile
    <2>3. /\ job'[j].pc \in {"write", "record"} /\ job'[j].agent = job[j].agent /\ job'[j].turn = job[j].turn
          /\ \A i \in Jobs : i # j => job'[i] = job[i]
        <3>1. CASE Goes(j, "write")
            BY <1>3, <3>1 DEF Goes, Job
        <3>2. CASE Goes(j, "record")
            BY <1>3, <3>2 DEF Goes, Job
        <3> QED BY <2>2, <3>1, <3>2
    <2>4. LossesStay /\ (job'[j].pc = "record" => lost'[job[j].agent] # "none")
        <3>1. CASE Goes(j, "write") /\ UNCHANGED lost
            <4>1. job'[j].pc = "write"
                BY <1>3, <3>1 DEF Goes, Job
            <4> QED BY <3>1, <4>1, StayFacts
        <3>2. CASE Lose({job[j].agent}, "outranked")
            BY <3>2, <2>1, StayFacts
        <3> QED BY <2>2, <3>1, <3>2
    <2>5. Written(j)'
        BY <2>3, <2>4 DEF Written
    <2>6. \A i \in Jobs : HandlerStays(i)
        BY <1>1, <2>3, <2>5, CarriesOn DEF HandlerStays
    <2> QED BY <1>1, <1>2, <2>4, <2>6, KeysStay
<1>7. CASE Forwards(j)
    <2>1. job[j].pc = "forward" /\ job[j].agent \in made
        BY <1>7, HandlerFields DEF Forwards, At, Keyed
    <2>2. \/ Goes(j, "entry") /\ UNCHANGED lost
          \/ Ends(j) /\ Lose({job[j].agent}, "aborted")
        BY <1>7 DEF Forwards
    <2>3. CASE Goes(j, "entry") /\ UNCHANGED lost
        <3>1. /\ job'[j].pc = "entry" /\ job'[j].agent = job[j].agent /\ job'[j].turn = job[j].turn
              /\ \A i \in Jobs : i # j => job'[i] = job[i]
            BY <1>3, <2>3 DEF Goes, Job
        <3>2. Written(j)'
            BY <3>1 DEF Written
        <3>3. \A i \in Jobs : HandlerStays(i)
            BY <1>1, <3>1, <3>2, CarriesOn DEF HandlerStays
        <3> QED BY <1>1, <1>2, <2>3, <3>3, StayFacts, KeysStay
    <2>4. CASE Ends(j) /\ Lose({job[j].agent}, "aborted")
        <3>1. LossesStay /\ lost'[job[j].agent] # "none"
            BY <2>1, <2>4, StayFacts
        <3>2. JobMoves(j) /\ Written(j)'
            BY <2>4, EndsFacts, FreeFacts DEF Written
        <3>3. \A i \in Jobs : HandlerStays(i)
            BY <3>1, <3>2, StayFacts DEF HandlerStays, Carries
        <3> QED BY <1>1, <1>2, <3>1, <3>3, KeysStay
    <2> QED BY <2>2, <2>3, <2>4
<1>8. CASE InstallsSeed(j) \/ SavesSeed(j) \/ DeletesSeed(j)
    <2>1. UNCHANGED lost /\ job[j].pc \in {"install", "seed", "unseed"}
        BY <1>8 DEF InstallsSeed, SavesSeed, DeletesSeed, At, past
    <2>2. Ends(j) \/ Goes(j, "seed") \/ Goes(j, "forget")
        BY <1>8 DEF InstallsSeed, SavesSeed, DeletesSeed, Unsigned
    <2>3. job'[j].pc \in {"", "seed", "forget"} /\ \A i \in Jobs : i # j => job'[i] = job[i]
        <3>1. CASE Ends(j)
            BY <3>1, EndsFacts, FreeFacts DEF JobMoves
        <3>2. CASE Goes(j, "seed") \/ Goes(j, "forget")
            BY <3>2, <1>3, ZenonT(30) DEF Goes, Job
        <3> QED BY <2>2, <3>1, <3>2
    <2>4. \A i \in Jobs : HandlerStays(i)
        BY <2>1, <2>3 DEF HandlerStays, Carries, Written
    <2> QED BY <1>1, <1>2, <2>1, <2>4, StayFacts, KeysStay
<1>9. CASE OverwritesSeed(j)
    <2>1. UNCHANGED lost /\ job[j].pc = "overseed" /\ Goes(j, "replace")
        BY <1>9 DEF OverwritesSeed, At
    <2>2. /\ job'[j].pc = "replace" /\ job'[j].agent = job[j].agent /\ job'[j].turn = job[j].turn
          /\ job'[j].key = job[j].key /\ \A i \in Jobs : i # j => job'[i] = job[i]
        BY <1>3, <2>1 DEF Goes, Job
    <2>3. Written(j)'
        BY <1>1, <2>1, <2>2 DEF Written, KeysInv
    <2>4. \A i \in Jobs : HandlerStays(i)
        BY <1>1, <2>2, <2>3, CarriesOn DEF HandlerStays
    <2> QED BY <1>1, <1>2, <2>1, <2>4, StayFacts, KeysStay
<1> QED BY <1>4, <1>5, <1>6, <1>7, <1>8, <1>9

\* Steps that write or remove a file.
LEMMA KeysInFiles ==
  ASSUME RecordsReal, RecordsReal', KeysInv, NEW j \in Jobs,
         \/ WritesFile(j) \/ OverwritesFile(j) \/ RewritesFile(j) \/ DeletesFile(j)
  PROVE  KeysInv'
<1> USE RecordsFacts
<1> DEFINE k == job[j].key
<1>1. UNCHANGED <<record, bucket, moving, turn, made>>
    BY DEF WritesFile, OverwritesFile, RewritesFile, DeletesFile, local, remote
<1>2. RecordsStay /\ OldStay
    BY <1>1, StayFacts
<1>3. RecordsTypeOK /\ job \in [Jobs -> Job] /\ job[j] \in Job /\ k \in ProjectKeys /\ FilesReal(cred)
    BY HandlerFields, FilesAreReal
       DEF RecordsReal, RecordsTypeOK, WritesFile, OverwritesFile, RewritesFile, DeletesFile, At, Keyed
<1>4. ASSUME NEW why, why # "none", Lose({cred[k].agent}, why), \A i \in ProjectKeys : i # k => cred'[i] = cred[i]
      PROVE  LossesStay /\ FilesStay
    <2>1. LossesStay /\ \A a \in made : lost'[a] = "none" => a # cred[k].agent
        BY <1>4, StayFacts
    <2> QED BY <2>1, <1>4 DEF FilesStay
<1>5. CASE WritesFile(j)
    <2>1. /\ job[j].pc = "write" /\ Goes(j, "record") /\ Lose({cred[k].agent}, "raced")
          /\ cred' = [cred EXCEPT ![k] = [agent |-> job[j].agent, turn |-> 0]]
        BY <1>5 DEF WritesFile, At
    <2>2. /\ job'[j].pc = "record" /\ job'[j].agent = job[j].agent /\ job'[j].turn = job[j].turn
          /\ job'[j].key = k /\ \A i \in Jobs : i # j => job'[i] = job[i]
        BY <1>3, <2>1 DEF Goes, Job
    <2>3. cred'[k].agent = job[j].agent /\ \A i \in ProjectKeys : i # k => cred'[i] = cred[i]
        BY <1>3, <2>1 DEF FilesReal
    <2>4. Written(j)'
        BY <2>2, <2>3 DEF Written
    <2>5. \A i \in Jobs : HandlerStays(i)
        BY <1>1, <2>2, <2>4, CarriesOn DEF HandlerStays
    <2>6. LossesStay /\ FilesStay
        BY <1>4, <2>1, <2>3
    <2> QED BY <1>1, <1>2, <2>5, <2>6, KeysStay
<1>6. CASE OverwritesFile(j)
    <2>1. /\ job[j].pc = "overwrite" /\ Goes(j, IF job[j].signs THEN "overseed" ELSE "replace")
          /\ Lose({cred[k].agent}, "replaced")
          /\ cred' = [cred EXCEPT ![k] = [agent |-> job[j].agent, turn |-> 0]]
        BY <1>6 DEF OverwritesFile, At
    <2>2. /\ job'[j].pc \in {"overseed", "replace"} /\ job'[j].agent = job[j].agent /\ job'[j].turn = job[j].turn
          /\ job'[j].key = k /\ \A i \in Jobs : i # j => job'[i] = job[i]
        <3>1. CASE job[j].signs
            <4>1. Goes(j, "overseed")
                BY <3>1, <2>1
            <4> QED BY <1>3, <4>1 DEF Goes, Job
        <3>2. CASE ~job[j].signs
            <4>1. Goes(j, "replace")
                BY <3>2, <2>1
            <4> QED BY <1>3, <4>1 DEF Goes, Job
        <3> QED BY <3>1, <3>2
    <2>3. cred'[k].agent = job[j].agent /\ \A i \in ProjectKeys : i # k => cred'[i] = cred[i]
        BY <1>3, <2>1 DEF FilesReal
    <2>4. Written(j)'
        BY <2>2, <2>3 DEF Written
    <2>5. \A i \in Jobs : HandlerStays(i)
        BY <1>1, <2>2, <2>4, CarriesOn DEF HandlerStays
    <2>6. LossesStay /\ FilesStay
        BY <1>4, <2>1, <2>3
    <2> QED BY <1>1, <1>2, <2>5, <2>6, KeysStay
<1>7. CASE DeletesFile(j)
    <2>1. /\ job[j].pc = "unlink" /\ Goes(j, "unseed") /\ Lose({cred[k].agent}, "removed")
          /\ cred' = [cred EXCEPT ![k] = NoFile]
        BY <1>7 DEF DeletesFile, At
    <2>2. job'[j].pc = "unseed" /\ \A i \in Jobs : i # j => job'[i] = job[i]
        BY <1>3, <2>1 DEF Goes, Job
    <2>3. \A i \in ProjectKeys : i # k => cred'[i] = cred[i]
        BY <1>3, <2>1 DEF FilesReal
    <2>5. \A i \in Jobs : HandlerStays(i)
        BY <2>1, <2>2 DEF HandlerStays, Written, Carries
    <2>6. LossesStay /\ FilesStay
        BY <1>4, <2>1, <2>3
    <2> QED BY <1>1, <1>2, <2>5, <2>6, KeysStay
<1>8. CASE RewritesFile(j)
    <2> DEFINE a == job[j].agent
               t == job[j].turn
    <2>1. /\ job[j].pc = "rewrite" /\ Ends(j) /\ cred' = [cred EXCEPT ![k] = [agent |-> a, turn |-> t]]
          /\ IF cred[k].agent = a /\ t = turn[a] THEN UNCHANGED lost ELSE Lose({cred[k].agent, a}, "overwritten")
        BY <1>8 DEF RewritesFile, At
    <2>2. a \in made /\ t \in 0..MaxTurns /\ Written(j)
        BY <2>1, HandlerFields DEF KeysInv
    <2>3. JobMoves(j) /\ Written(j)'
        BY <2>1, EndsFacts, FreeFacts DEF Written
    <2>4. cred'[k].agent = a /\ cred'[k].turn = t /\ \A i \in ProjectKeys : i # k => cred'[i] = cred[i]
        BY <1>3, <2>1 DEF FilesReal
    <2>5. CASE cred[k].agent = a /\ t = turn[a]
        <3>1. UNCHANGED lost
            BY <2>1, <2>5
        <3>2. LossesStay
            BY <3>1, StayFacts
        <3>3. FilesStay
            BY <2>4, <2>5 DEF FilesStay
        <3>4. ASSUME NEW b \in made, lost'[b] = "none", Carries(j, b) PROVE Held(b)'
            <4>0. b = a
                BY <3>4 DEF Carries
            <4>1. PICK w \in Spaces : record[w].project = k
                BY <2>1, <2>2, <3>1, <3>4, <4>0 DEF Written
            <4>2. FileOf(w)' = cred'[k]
                BY <1>1, <1>3, <4>1 DEF FileOf
            <4>3. cred'[k] = [agent |-> b, turn |-> turn'[b]]
                BY <1>1, <1>3, <2>1, <2>5, <4>0 DEF FilesReal
            <4> QED BY <4>2, <4>3 DEF Held
        <3>5. HandlerStays(j)
            BY <2>3, <3>4 DEF HandlerStays
        <3>6. \A i \in Jobs : HandlerStays(i)
            BY <2>3, <3>5, StayFacts
        <3> QED BY <1>1, <1>2, <3>2, <3>3, <3>6, KeysStay
    <2>6. CASE ~(cred[k].agent = a /\ t = turn[a])
        <3>1. Lose({cred[k].agent, a}, "overwritten")
            BY <2>1, <2>6
        <3>2. LossesStay /\ \A b \in made : lost'[b] = "none" => b \notin {cred[k].agent, a}
            BY <3>1, StayFacts
        <3>3. FilesStay
            BY <2>4, <3>2 DEF FilesStay
        <3>4. HandlerStays(j)
            BY <2>3, <3>2 DEF HandlerStays, Carries
        <3>5. \A i \in Jobs : HandlerStays(i)
            BY <2>3, <3>4, StayFacts
        <3> QED BY <1>1, <1>2, <3>2, <3>3, <3>5, KeysStay
    <2> QED BY <2>5, <2>6
<1> QED BY <1>5, <1>6, <1>7, <1>8

\* Steps of a handler that write state.json.
LEMMA KeysInRecords ==
  ASSUME RecordsReal, RecordsReal', KeysInv, NEW j \in Jobs,
         \/ WritesRecord(j) \/ ReplacesRecord(j) \/ DeletesRecord(j)
  PROVE  KeysInv'
<1> USE RecordsFacts
<1> DEFINE w == job[j].ws
           k == job[j].key
<1>1. UNCHANGED <<cred, bucket, moving, turn, made>>
    BY DEF WritesRecord, ReplacesRecord, DeletesRecord, files, remote
<1>2. FilesStay
    BY <1>1, StayFacts
<1>3. RecordsTypeOK /\ job \in [Jobs -> Job] /\ job[j] \in Job /\ w \in Spaces /\ record \in [Spaces -> Record]
    BY HandlerFields DEF RecordsReal, RecordsTypeOK
<1>4. job[j].pc \in {"record", "replace"} => k \in ProjectKeys /\ job[j].agent \in made /\ job[j].turn = 0 /\ Written(j)
    BY HandlerFields DEF Keyed, KeysInv
<1>5. ASSUME \A v \in Spaces : v # w => record'[v] = record[v],
             \A a \in made : lost'[a] = "none" => a # FileOf(w).agent
      PROVE  RecordsStay
    <2> SUFFICES ASSUME NEW a \in made, NEW v \in Spaces, lost'[a] = "none", FileOf(v).agent = a
                 PROVE  \E u \in Spaces : record'[u].project = record[v].project
        BY DEF RecordsStay
    <2> QED BY <1>5
<1>6. ASSUME record'[w].project = k, job[j].pc \in {"record", "replace"}, LossesStay
      PROVE  \A a \in made : lost'[a] = "none" /\ Carries(j, a) => Held(a)'
    <2> SUFFICES ASSUME NEW a \in made, lost'[a] = "none", Carries(j, a) PROVE Held(a)'
        OBVIOUS
    <2>1. job[j].agent = a /\ turn[a] = 0 /\ lost[a] = "none"
        BY <1>4, <1>6 DEF Carries, LossesStay
    <2>2. cred[k].agent = a /\ k \in ProjectKeys
        BY <2>1, <1>4, <1>6 DEF Written
    <2>3. cred[k] = [agent |-> a, turn |-> 0]
        <3>1. cred[k] \in File /\ cred[k].turn <= turn[a] /\ a # NoAgent
            BY <2>2, <1>3, FilesAreReal DEF FilesReal, RecordsTypeOK
        <3>2. cred[k].turn = 0
            BY <3>1, <2>1 DEF File
        <3> QED BY <3>1, <3>2, <2>2 DEF File
    <2>0. PICK v \in Spaces : v = w
        BY <1>3
    <2>4. FileOf(v)' = cred[k]
        BY <2>0, <2>2, <1>1, <1>6 DEF FileOf
    <2> QED BY <2>1, <2>3, <2>4, <1>1, <1>3 DEF Held
<1>7. CASE WritesRecord(j)
    <2>1. /\ job[j].pc = "record" /\ Goes(j, "install") /\ Lose({FileOf(w).agent}, "raced")
          /\ record' = [record EXCEPT ![w].project = k]
        BY <1>7 DEF WritesRecord, At, Names
    <2>2. job'[j].pc = "install" /\ \A i \in Jobs : i # j => job'[i] = job[i]
        BY <1>3, <2>1 DEF Goes, Job
    <2>3. /\ record'[w].project = k /\ \A v \in Spaces : v # w => record'[v] = record[v]
          /\ \A v \in Spaces : record'[v].old = record[v].old
        BY <1>3, <2>1 DEF Record
    <2>4. LossesStay /\ \A a \in made : lost'[a] = "none" => a # FileOf(w).agent
        BY <2>1, StayFacts
    <2>5. RecordsStay
        BY <2>3, <2>4, <1>5
    <2>6. OldStay
        BY <1>1, <2>3 DEF OldStay, Held
    <2>7. HandlerStays(j)
        BY <2>1, <2>2, <2>3, <2>4, <1>6 DEF HandlerStays, Written
    <2>8. \A i \in Jobs : HandlerStays(i)
        BY <2>2, <2>7 DEF HandlerStays
    <2> QED BY <1>1, <1>2, <2>4, <2>5, <2>6, <2>8, KeysStay
<1>8. CASE ReplacesRecord(j)
    <2>1. /\ job[j].pc = "replace" /\ Ends(j) /\ Lose({FileOf(w).agent, record[w].old}, "replaced")
          /\ record' = [record EXCEPT ![w] = [project |-> k, old |-> NoAgent]]
        BY <1>8 DEF ReplacesRecord, At
    <2>2. JobMoves(j) /\ job'[j].pc = ""
        BY <2>1, EndsFacts, FreeFacts
    <2>3. /\ record'[w].project = k /\ \A v \in Spaces : v # w => record'[v] = record[v]
        BY <1>3, <2>1 DEF Record
    <2>4. LossesStay /\ \A a \in made : lost'[a] = "none" => a # FileOf(w).agent /\ a # record[w].old
        BY <2>1, StayFacts
    <2>5. RecordsStay
        BY <2>3, <2>4, <1>5
    <2>6. OldStay
        BY <1>1, <2>3, <2>4 DEF OldStay, Held
    <2>7. HandlerStays(j)
        BY <2>1, <2>2, <2>3, <2>4, <1>6 DEF HandlerStays, Written
    <2>8. \A i \in Jobs : HandlerStays(i)
        BY <2>2, <2>7, StayFacts
    <2> QED BY <1>1, <1>2, <2>4, <2>5, <2>6, <2>8, KeysStay
<1>9. CASE DeletesRecord(j)
    <2>1. /\ job[j].pc = "forget" /\ Ends(j) /\ Lose({FileOf(w).agent, record[w].old}, "removed")
          /\ record' = [record EXCEPT ![w] = NoRecord]
        BY <1>9 DEF DeletesRecord, At
    <2>2. JobMoves(j) /\ job'[j].pc = ""
        BY <2>1, EndsFacts, FreeFacts
    <2>3. /\ \A v \in Spaces : v # w => record'[v] = record[v]
        BY <1>3, <2>1
    <2>4. LossesStay /\ \A a \in made : lost'[a] = "none" => a # FileOf(w).agent /\ a # record[w].old
        BY <2>1, StayFacts
    <2>5. RecordsStay
        BY <2>3, <2>4, <1>5
    <2>6. OldStay
        BY <1>1, <2>3, <2>4 DEF OldStay, Held
    <2>7. HandlerStays(j)
        BY <2>1, <2>2 DEF HandlerStays, Written, Carries
    <2>8. \A i \in Jobs : HandlerStays(i)
        BY <2>2, <2>7, StayFacts
    <2> QED BY <1>1, <1>2, <2>4, <2>5, <2>6, <2>8, KeysStay
<1> QED BY <1>7, <1>8, <1>9

\* Openings, the move and everything else.
LEMMA KeysBegin ==
  ASSUME RecordsReal, RecordsReal', KeysInv, NEW w \in Spaces,
         \/ ProvisionBegins(w, "derived") \/ ProvisionBegins(w, "named") \/ MigrateBegins(w)
         \/ RotateBegins(w) \/ RemoveBegins(w)
  PROVE  KeysInv'
<1> USE RecordsFacts
<1>1. UNCHANGED <<record, bucket, cred, moving, turn, made, lost>>
    BY Zenon, RealBegins
<1>2. LossesStay /\ FilesStay /\ RecordsStay /\ OldStay
    BY <1>1, StayFacts
<1>3. ASSUME NEW op, NEW pc, NEW a, NEW key, Begins(w, op, pc, a, key),
             pc # "rotate" => pc \in {"create", "install", "unlink"},
             pc = "rotate" => /\ a = FileOf(w).agent /\ a \in made
                              /\ key = record[w].project /\ key \in ProjectKeys
      PROVE  KeysInv'
    <2> DEFINE r == [op |-> op, pc |-> pc, ws |-> w, agent |-> a, turn |-> 0, key |-> key, signs |-> FALSE,
                     clear |-> FALSE]
    <2>1. PICK j \in Jobs : job[j] = Free /\ job' = [job EXCEPT ![j] = r]
        BY <1>3, Zenon DEF Begins
    <2>2. r.pc = pc /\ r.agent = a /\ r.key = key
        OBVIOUS
    <2> HIDE DEF r
    <2>3. job'[j] = r /\ \A i \in Jobs : i # j => job'[i] = job[i]
        BY <2>1 DEF RecordsReal, RecordsTypeOK
    <2>4. ASSUME pc = "rotate" PROVE cred'[key].agent = a /\ record'[w].project = key
        BY <1>1, <1>3, <2>4, FileNamed
    <2>5. Written(j)'
        BY <1>3, <2>2, <2>3, <2>4 DEF Written
    <2>6. HandlerStays(j)
        BY <2>1, <2>5, FreeFacts DEF HandlerStays, Carries
    <2>7. \A i \in Jobs : HandlerStays(i)
        BY <2>3, <2>6 DEF HandlerStays
    <2> QED BY <1>1, <1>2, <2>7, KeysStay
<1>4. ASSUME NEW op \in {"derived", "named"}, ProvisionBegins(w, op) PROVE KeysInv'
    <2>1. Begins(w, op, "install", FileOf(w).agent, record[w].project) \/ Begins(w, op, "create", NoAgent, NoKey)
        BY <1>4 DEF ProvisionBegins
    <2> QED BY <2>1, <1>3
<1>5. CASE MigrateBegins(w)
    <2>1. Begins(w, "migrate", "create", NoAgent, NoKey)
        BY <1>5 DEF MigrateBegins
    <2> QED BY <2>1, <1>3
<1>6. CASE RotateBegins(w)
    <2>1. Resolves(w) /\ Begins(w, "rotate", "rotate", FileOf(w).agent, record[w].project)
        BY <1>6 DEF RotateBegins
    <2>2. FileOf(w).agent \in made /\ record[w].project \in ProjectKeys
        BY <2>1, FileOfFacts
    <2> QED BY <2>1, <2>2, <1>3
<1>7. CASE RemoveBegins(w)
    <2>1. Begins(w, "remove", "unlink", NoAgent, record[w].project)
        BY <1>7 DEF RemoveBegins
    <2> QED BY <2>1, <1>3
<1> QED BY <1>4, <1>5, <1>6, <1>7

LEMMA KeysAround ==
  ASSUME RecordsReal, RecordsReal', KeysInv,
         \/ \E w \in Spaces : DirectoryGoes(w) \/ MovesNone(w) \/ \E v \in Spaces : Relinks(w, v)
         \/ PodMakes \/ MoveBegins \/ Crashes
         \/ UNCHANGED recordsVars
  PROVE  KeysInv'
<1> USE RecordsFacts
<1>1. RecordsTypeOK /\ record \in [Spaces -> Record] /\ made \subseteq Agents /\ moving \in Move
    BY DEF RecordsReal, RecordsTypeOK
<1>2. ASSUME NEW w \in Spaces, NEW v \in Spaces, Relinks(w, v) PROVE KeysInv'
    <2>1. /\ UNCHANGED <<bucket, moving, cred, turn, made, lost, job>> /\ w # v /\ record[v] = NoRecord
          /\ record' = [record EXCEPT ![v] = record[w], ![w] = NoRecord]
        BY <1>2 DEF Relinks, Moves, files, remote
    <2>2. record'[v] = record[w] /\ \A u \in Spaces : u # v /\ u # w => record'[u] = record[u]
        BY <1>1, <2>1
    <2>3. RecordsStay
        <3> SUFFICES ASSUME NEW a \in made, NEW u \in Spaces, FileOf(u).agent = a
                     PROVE  \E x \in Spaces : record'[x].project = record[u].project
            BY DEF RecordsStay
        <3>1. u # v
            <4>1. NoAgent \notin made /\ NoRecord.project = NoKey
                BY <1>1 DEF NoRecord
            <4>2. record[u].project \in ProjectKeys
                BY FileIs
            <4> QED BY <4>1, <4>2, <2>1
        <3> QED BY <3>1, <2>2
    <2>4. OldStay
        <3> SUFFICES ASSUME NEW a \in made, NEW u \in Spaces, turn[a] = 0, a \in {record[u].old, bucket[u]}
                     PROVE  Held(a)'
            BY DEF OldStay
        <3>1. NoAgent \notin made /\ NoRecord.old = NoAgent
            BY <1>1 DEF NoRecord
        <3>2. \E x \in Spaces : a \in {record'[x].old, bucket'[x]}
            BY <3>1, <2>1, <2>2
        <3> QED BY <3>2, <2>1 DEF Held
    <2>5. LossesStay /\ FilesStay /\ \A i \in Jobs : HandlerStays(i)
        BY <2>1, StayFacts DEF HandlerStays
    <2> QED BY <2>1, <2>3, <2>4, <2>5, KeysStay
<1>3. CASE \/ \E w \in Spaces : DirectoryGoes(w)
           \/ PodMakes \/ UNCHANGED recordsVars
    <2>1. UNCHANGED <<record, bucket, cred, moving, turn, made, lost, job>>
        BY <1>3 DEF DirectoryGoes, PodMakes, recordsVars, local, files, remote, past
    <2>2. LossesStay /\ FilesStay /\ RecordsStay /\ OldStay /\ \A i \in Jobs : HandlerStays(i)
        BY <2>1, StayFacts DEF HandlerStays
    <2> QED BY <2>1, <2>2, KeysStay
<1>4. CASE Crashes
    <2>1. /\ UNCHANGED <<record, bucket, cred, turn, made>> /\ moving' = AtRest /\ job' = [j \in Jobs |-> Free]
          /\ Lose({job[j].agent : j \in Jobs}, "crash")
        BY <1>4 DEF Crashes, files, remote
    <2>2. FilesStay /\ RecordsStay /\ OldStay
        BY <2>1, StayFacts
    <2>3. LossesStay /\ \A a \in made : lost'[a] = "none" => a \notin {job[j].agent : j \in Jobs}
        BY <2>1, StayFacts
    <2>4. \A i \in Jobs : HandlerStays(i)
        BY <2>1, <2>3, FreeFacts, ZenonT(30) DEF HandlerStays, Written, Carries
    <2> QED BY <2>1, <2>2, <2>3, <2>4, KeysStay
<1>5. CASE MoveBegins \/ \E w \in Spaces : MovesNone(w)
    <2>1. UNCHANGED <<record, bucket, cred, turn, made, lost, job>>
        BY <1>5 DEF MoveBegins, MovesNone, files, remote, past
    <2>2. KeysAreKept' /\ \A j \in Jobs : Written(j)'
        BY <2>1 DEF KeysInv, KeysAreKept, Held, Carries, FileOf, Written
    <2>3. \A w \in Spaces : moving'.key[w] = NoKey \/ (moving'.key[w] = moving.key[w] /\ moving'.old = moving.old)
        <3>1. CASE MoveBegins
            <4>1. moving'.key = [w \in Spaces |-> NoKey]
                BY <3>1 DEF MoveBegins
            <4> QED BY <4>1
        <3>2. CASE \E w \in Spaces : MovesNone(w)
            <4>1. PICK w \in Spaces : moving' = [moving EXCEPT !.todo = moving.todo \ {w}]
                BY <3>2 DEF MovesNone
            <4> QED BY <4>1, <1>1 DEF Move
        <3> QED BY <1>5, <3>1, <3>2
    <2>4. MovedIsWritten'
        BY <2>1, <2>3 DEF KeysInv, MovedIsWritten
    <2> QED BY <2>2, <2>4 DEF KeysInv
<1> QED BY <1>2, <1>3, <1>4, <1>5

\* The move writes a file for an old record, or the agent is lost to a file that was there.
LEMMA KeysMovesOne == ASSUME RecordsReal, RecordsReal', KeysInv, NEW w \in Spaces, MovesOne(w) PROVE KeysInv'
<1> USE RecordsFacts
<1> DEFINE a == moving.old[w]
           k == IF record[w].project # NoKey THEN record[w].project ELSE Allocate(w, a, TakenWhileMoving)
           key == [moving.key EXCEPT ![w] = k]
<1>1. /\ UNCHANGED <<record, bucket, turn, made, job>> /\ moving'.old = moving.old /\ moving'.key = key
      /\ cred' = [cred EXCEPT ![k] = IF cred[k] = NoFile THEN [agent |-> a, turn |-> 0] ELSE cred[k]]
      /\ IF cred'[k].agent = a THEN UNCHANGED lost ELSE Lose({a}, "outranked")
    BY DEF MovesOne, remote
<1>2. k \in ProjectKeys
    BY AllocateFacts, FileOfFacts
<1>3. a \in made /\ moving \in Move /\ FilesReal(cred) /\ made \subseteq Agents
    <2>1. MoveIsOfRecords /\ moving \in Move /\ FilesReal(cred) /\ made \subseteq Agents
        BY FilesAreReal DEF RecordsReal, RecordsTypeOK
    <2>2. w \in moving.todo
        BY DEF MovesOne
    <2>3. a # NoAgent
        BY <2>1, <2>2 DEF MoveIsOfRecords
    <2>4. moving.old \in [Spaces -> made \union {NoAgent}]
        BY <2>1 DEF Move
    <2> QED BY <2>1, <2>3, <2>4
<1>4. key[w] = k /\ \A v \in Spaces : v # w => key[v] = moving.key[v]
    BY <1>2, <1>3 DEF Move
<1> HIDE DEF k, key
<1>5. /\ \A i \in ProjectKeys : i # k => cred'[i] = cred[i]
      /\ cred[k] # NoFile => cred'[k] = cred[k]
      /\ NoFile.agent = NoAgent /\ NoAgent \notin made
    BY <1>1, <1>2, <1>3 DEF FilesReal, NoFile
<1>6. FilesStay
    BY <1>5 DEF FilesStay
<1>7. LossesStay /\ (lost'[a] = "none" => cred'[k].agent = a)
    <2>1. CASE cred'[k].agent = a
        BY <2>1, <1>1, StayFacts
    <2>2. CASE cred'[k].agent # a
        BY <2>2, <1>1, <1>3, StayFacts
    <2> QED BY <2>1, <2>2
<1>8. KeysAreKept'
    <2> SUFFICES ASSUME NEW b \in made, lost'[b] = "none" PROVE Held(b)'
        BY <1>1 DEF KeysAreKept
    <2>1. Held(b)
        BY <1>7 DEF LossesStay, KeysInv, KeysAreKept
    <2>2. CASE \E v \in Spaces : FileOf(v) = [agent |-> b, turn |-> turn[b]]
        <3>1. PICK v \in Spaces : FileOf(v) = [agent |-> b, turn |-> turn[b]]
            BY <2>2
        <3>2. record[v].project \in ProjectKeys /\ FileOf(v) = cred[record[v].project] /\ FileOf(v).agent = b
            BY <3>1, FileIs
        <3>3. cred'[record[v].project] = cred[record[v].project]
            BY <3>2, <1>5
        <3>4. FileOf(v)' = [agent |-> b, turn |-> turn'[b]]
            BY <1>1, <3>1, <3>2, <3>3 DEF FileOf
        <3> QED BY <3>4 DEF Held
    <2> QED BY <2>1, <2>2, <1>1 DEF Held, Carries
<1>9. MovedIsWritten'
    <2> SUFFICES ASSUME NEW v \in Spaces, moving'.key[v] # NoKey, lost'[moving'.old[v]] = "none"
                 PROVE  cred'[moving'.key[v]].agent = moving'.old[v]
        BY DEF MovedIsWritten
    <2>1. CASE v = w
        BY <2>1, <1>1, <1>4, <1>7
    <2>2. CASE v # w
        <3>1. moving.key[v] # NoKey /\ moving'.key[v] = moving.key[v] /\ moving'.old[v] = moving.old[v]
            BY <2>2, <1>1, <1>4
        <3>2. moving.old[v] \in made /\ moving.key[v] \in ProjectKeys
            BY <3>1, <1>3 DEF RecordsReal, MoveIsOfRecords, Move
        <3>3. lost[moving.old[v]] = "none"
            BY <3>1, <3>2, <1>7 DEF LossesStay
        <3> DEFINE b == moving.old[v]
                   i == moving.key[v]
        <3>4. cred[i].agent = b /\ b \in made /\ i \in ProjectKeys /\ lost'[b] = "none"
            BY <3>1, <3>2, <3>3 DEF KeysInv, MovedIsWritten
        <3> HIDE DEF b, i
        <3>5. cred'[i].agent = b
            BY <3>4, <1>6 DEF FilesStay
        <3> QED BY <3>1, <3>5 DEF b, i
    <2> QED BY <2>1, <2>2
<1>10. \A j \in Jobs : Written(j)'
    <2> SUFFICES ASSUME NEW j \in Jobs PROVE Written(j)'
        OBVIOUS
    <2>0. job'[j] = job[j] /\ Written(j)
        BY <1>1 DEF KeysInv
    <2>1. CASE job[j].pc \in {"record", "overseed", "replace", "rotate", "rewrite"} /\ lost'[job[j].agent] = "none"
        <3>1. job[j].agent \in made /\ job[j].key \in ProjectKeys
            BY <2>1, HandlerFields DEF Keyed
        <3>2. lost[job[j].agent] = "none"
            BY <2>1, <3>1, <1>7 DEF LossesStay
        <3>3. cred[job[j].key].agent = job[j].agent
            BY <2>0, <2>1, <3>2 DEF Written
        <3>4. cred'[job[j].key].agent = job[j].agent
            BY <3>1, <3>3, <2>1, <1>6 DEF FilesStay
        <3> QED BY <2>0, <3>2, <3>4, <1>1 DEF Written
    <2> QED BY <2>0, <2>1 DEF Written
<1> QED BY <1>8, <1>9, <1>10 DEF KeysInv

LEMMA KeysMoveSaves == ASSUME RecordsReal, RecordsReal', KeysInv, MoveSaves PROVE KeysInv'
<1> USE RecordsFacts
<1>1. /\ moving.held /\ moving' = AtRest /\ bucket' = [w \in Spaces |-> NoAgent]
      /\ UNCHANGED <<cred, made, turn, job>>
      /\ record' = [w \in Spaces |-> IF moving.key[w] # NoKey THEN [project |-> moving.key[w], old |-> NoAgent]
                                     ELSE [project |-> record[w].project, old |-> moving.old[w]]]
      /\ Lose({bucket[w] : w \in {v \in Spaces : bucket[v] # moving.old[v]}}, "merged")
    BY DEF MoveSaves, files, remote
<1>2. LossesStay /\ \A a \in made : lost'[a] = "none" => a \notin {bucket[w] : w \in {v \in Spaces : bucket[v] # moving.old[v]}}
    BY <1>1, StayFacts
<1>3. MoveIsOfRecords /\ moving \in Move /\ made \subseteq Agents /\ MovedIsWritten
    BY DEF RecordsReal, RecordsTypeOK, KeysInv
<1>4. FilesStay
    BY <1>1, StayFacts
<1>5. \A w \in Spaces : record[w].project # NoKey => record'[w].project = record[w].project
    BY <1>1, <1>3 DEF MoveIsOfRecords
<1>6. RecordsStay
    <2> SUFFICES ASSUME NEW a \in made, NEW w \in Spaces, FileOf(w).agent = a
                 PROVE  \E v \in Spaces : record'[v].project = record[w].project
        BY DEF RecordsStay
    <2>1. record[w].project # NoKey
        BY FileIs
    <2> QED BY <2>1, <1>5
<1>7. OldStay
    <2> SUFFICES ASSUME NEW a \in made, NEW w \in Spaces, lost'[a] = "none", turn[a] = 0, a \in {record[w].old, bucket[w]}
                 PROVE  Held(a)'
        BY DEF OldStay
    <2>1. a = moving.old[w] /\ a # NoAgent /\ a \in Agents
        BY <1>1, <1>2, <1>3 DEF MoveIsOfRecords
    <2>2. CASE moving.key[w] = NoKey
        <3>1. record'[w].old = a
            BY <2>1, <2>2, <1>1
        <3> QED BY <3>1, <1>1 DEF Held
    <2>3. CASE moving.key[w] # NoKey
        <3> DEFINE k == moving.key[w]
        <3>1. lost[a] = "none" /\ cred[k].agent = a /\ k \in ProjectKeys
            BY <2>1, <2>3, <1>2, <1>3 DEF LossesStay, MovedIsWritten, Move
        <3>2. cred[k] \in File /\ cred[k].turn <= turn[a]
            BY <2>1, <3>1, FilesAreReal DEF FilesReal
        <3>3. cred[k].turn = 0
            BY <3>2 DEF File
        <3>4. record'[w].project = k
            BY <2>3, <1>1
        <3>5. cred'[k] = [agent |-> a, turn |-> turn'[a]]
            BY <1>1, <3>1, <3>2, <3>3 DEF File
        <3> HIDE DEF k
        <3>6. FileOf(w)' = [agent |-> a, turn |-> turn'[a]]
            BY <3>1, <3>4, <3>5 DEF FileOf
        <3> QED BY <3>6 DEF Held
    <2> QED BY <2>2, <2>3
<1>8. \A j \in Jobs : HandlerStays(j)
    BY <1>1 DEF HandlerStays
<1> QED BY <1>1, <1>2, <1>4, <1>6, <1>7, <1>8, KeysStay

\* A new agent is in the hands of the handler that asked for it, or was never heard of.
LEMMA KeysCreates == ASSUME RecordsReal, RecordsReal', KeysInv, NEW j \in Jobs, CreatesAgent(j) PROVE KeysInv'
<1> USE RecordsFacts
<1>1. PICK a \in Agents \ made :
        /\ made' = made \union {a}
        /\ \/ /\ job' = [job EXCEPT ![j].agent = a,
                                    ![j].pc = IF job[j].op = "migrate" THEN "sign" ELSE "allocate"]
              /\ UNCHANGED lost
           \/ Ends(j) /\ Lose({a}, "unanswered")
    BY Zenon DEF CreatesAgent
<1>2. UNCHANGED <<record, bucket, cred, moving, turn>> /\ job[j].pc = "create"
    BY DEF CreatesAgent, At, local, files
<1>3. RecordsTypeOK /\ TurnsAreReal /\ made \subseteq Agents /\ job \in [Jobs -> Job] /\ job[j] \in Job
      /\ job[j].turn = 0 /\ turn[a] = 0 /\ moving \in Move /\ MoveIsOfRecords
    BY <1>2, HandlerFields DEF RecordsReal, RecordsTypeOK, TurnsAreReal
<1>4. /\ \A i \in Jobs : i # j => job'[i] = job[i]
      /\ job'[j].pc \in {"", "sign", "allocate"}
      /\ lost'[a] = "none" => job'[j].pc \in {"sign", "allocate"} /\ job'[j].agent = a /\ job'[j].turn = 0
    <2>1. CASE job' = [job EXCEPT ![j].agent = a, ![j].pc = IF job[j].op = "migrate" THEN "sign" ELSE "allocate"]
        <3> DEFINE p == IF job[j].op = "migrate" THEN "sign" ELSE "allocate"
        <3>1. p \in {"sign", "allocate"} /\ job' = [job EXCEPT ![j].agent = a, ![j].pc = p]
            BY <2>1
        <3> HIDE DEF p
        <3> QED BY <3>1, <1>3 DEF Job
    <2>2. CASE Ends(j) /\ Lose({a}, "unanswered")
        <3>1. lost'[a] # "none"
            BY <2>2, LoseFacts
        <3>2. JobMoves(j) /\ job'[j].pc = ""
            BY <2>2, EndsFacts, FreeFacts
        <3> QED BY <3>1, <3>2 DEF JobMoves
    <2> QED BY <1>1, <2>1, <2>2
<1>5. \A b \in made : lost'[b] = "none" => lost[b] = "none"
    <2>1. UNCHANGED lost \/ Lose({a}, "unanswered")
        BY <1>1
    <2> QED BY <2>1, <1>3 DEF Lose
<1>6. KeysAreKept'
    <2> SUFFICES ASSUME NEW b \in made', lost'[b] = "none" PROVE Held(b)'
        BY DEF KeysAreKept
    <2>1. CASE b = a
        <3>1. lost'[a] = "none"
            BY <2>1
        <3>2. job'[j].agent = b /\ job'[j].turn = turn'[b] /\ job'[j].pc \in {"sign", "allocate"}
            BY <2>1, <3>1, <1>2, <1>3, <1>4
        <3> QED BY <3>2 DEF Held, Carries
    <2>2. CASE b # a
        <3>1. b \in made /\ Held(b)
            BY <2>2, <1>1, <1>5 DEF KeysInv, KeysAreKept
        <3>2. \A i \in Jobs : Carries(i, b) => job'[i] = job[i]
            BY <1>2, <1>4 DEF Carries
        <3>3. (\E i \in Jobs : Carries(i, b)) => \E i \in Jobs : Carries(i, b)'
            BY <3>2, <1>2 DEF Carries
        <3> QED BY <3>1, <3>3, <1>2 DEF Held, FileOf
    <2> QED BY <2>1, <2>2
<1>7. MovedIsWritten'
    <2> SUFFICES ASSUME NEW w \in Spaces, moving.key[w] # NoKey, lost'[moving.old[w]] = "none"
                 PROVE  cred[moving.key[w]].agent = moving.old[w]
        BY <1>2 DEF MovedIsWritten
    <2>1. moving.old[w] \in made
        <3>1. moving.old \in [Spaces -> made \union {NoAgent}]
            BY <1>3 DEF Move
        <3>2. moving.old[w] # NoAgent
            BY <1>3 DEF MoveIsOfRecords
        <3> QED BY <3>1, <3>2
    <2> QED BY <2>1, <1>5 DEF KeysInv, MovedIsWritten
<1>8. \A i \in Jobs : Written(i)'
    <2> SUFFICES ASSUME NEW i \in Jobs, i # j PROVE Written(i)'
        BY <1>4 DEF Written
    <2>1. job'[i] = job[i] /\ Written(i)
        BY <1>4 DEF KeysInv
    <2>2. job[i].pc \in {"record", "overseed", "replace", "rotate", "rewrite"} => job[i].agent \in made
        BY HandlerFields
    <2> QED BY <2>1, <2>2, <1>2, <1>5 DEF Written
<1> QED BY <1>6, <1>7, <1>8 DEF KeysInv

\* The new key of a rotation is in the hands of its handler, or was never heard of.
LEMMA KeysRotates == ASSUME RecordsReal, RecordsReal', KeysInv, NEW j \in Jobs, Rotates(j) PROVE KeysInv'
<1> USE RecordsFacts
<1> DEFINE a == job[j].agent
           n == turn[a] + 1
<1>1. /\ UNCHANGED <<record, bucket, moving, cred, made>> /\ job[j].pc = "rotate" /\ turn' = [turn EXCEPT ![a] = n]
      /\ \/ job' = [job EXCEPT ![j].pc = "rewrite", ![j].turn = turn'[a]] /\ UNCHANGED lost
         \/ Ends(j) /\ Lose({a}, "unanswered")
    BY DEF Rotates, At, local, files
<1>2. RecordsTypeOK /\ made \subseteq Agents /\ job \in [Jobs -> Job] /\ job[j] \in Job /\ a \in made /\ Written(j)
      /\ moving \in Move /\ MoveIsOfRecords
    BY <1>1, HandlerFields DEF RecordsReal, RecordsTypeOK, KeysInv
<1>3. \A b \in made : b # a => turn'[b] = turn[b]
    BY <1>1, <1>2 DEF RecordsTypeOK
<1>4. /\ \A i \in Jobs : i # j => job'[i] = job[i]
      /\ \/ job'[j].pc = "rewrite" /\ job'[j].agent = a /\ job'[j].turn = turn'[a] /\ job'[j].key = job[j].key /\ UNCHANGED lost
         \/ job'[j].pc = "" /\ Lose({a}, "unanswered")
    <2>1. CASE job' = [job EXCEPT ![j].pc = "rewrite", ![j].turn = turn'[a]] /\ UNCHANGED lost
        BY <2>1, <1>2 DEF Job
    <2>2. CASE Ends(j) /\ Lose({a}, "unanswered")
        BY <2>2, EndsFacts, FreeFacts DEF JobMoves
    <2> QED BY <1>1, <2>1, <2>2
<1> HIDE DEF a, n
<1>5. LossesStay /\ (lost'[a] = "none" => job'[j].pc = "rewrite" /\ job'[j].agent = a /\ job'[j].turn = turn'[a])
    BY <1>2, <1>4, StayFacts
<1>6. KeysAreKept'
    <2> SUFFICES ASSUME NEW b \in made, lost'[b] = "none" PROVE Held(b)'
        BY <1>1 DEF KeysAreKept
    <2>1. CASE b = a
        <3>1. lost'[a] = "none"
            BY <2>1
        <3>2. job'[j].agent = b /\ job'[j].turn = turn'[b] /\ job'[j].pc = "rewrite"
            BY <2>1, <3>1, <1>5
        <3> QED BY <3>2 DEF Held, Carries
    <2>2. CASE b # a
        <3>1. Held(b) /\ turn'[b] = turn[b]
            BY <2>2, <1>3, <1>5 DEF KeysInv, KeysAreKept, LossesStay
        <3>2. \A i \in Jobs : Carries(i, b) => job'[i] = job[i]
            BY <1>1, <1>4 DEF Carries
        <3>3. (\E i \in Jobs : Carries(i, b)) => \E i \in Jobs : Carries(i, b)'
            BY <3>1, <3>2 DEF Carries
        <3> QED BY <3>1, <3>3, <1>1 DEF Held, FileOf
    <2> QED BY <2>1, <2>2
<1>7. MovedIsWritten'
    <2> SUFFICES ASSUME NEW w \in Spaces, moving.key[w] # NoKey, lost'[moving.old[w]] = "none"
                 PROVE  cred[moving.key[w]].agent = moving.old[w]
        BY <1>1 DEF MovedIsWritten
    <2>1. moving.old[w] \in made
        <3>1. moving.old \in [Spaces -> made \union {NoAgent}]
            BY <1>2 DEF Move
        <3>2. moving.old[w] # NoAgent
            BY <1>2 DEF MoveIsOfRecords
        <3> QED BY <3>1, <3>2
    <2>2. lost[moving.old[w]] = "none"
        BY <2>1, <1>5 DEF LossesStay
    <2>3. MovedIsWritten
        BY DEF KeysInv
    <2> QED BY <2>2, <2>3 DEF MovedIsWritten
<1>8. \A i \in Jobs : Written(i)'
    <2>1. Written(j)'
        <3>1. CASE job'[j].pc = ""
            BY <3>1 DEF Written
        <3>2. CASE job'[j].pc = "rewrite" /\ job'[j].agent = a /\ job'[j].key = job[j].key /\ UNCHANGED lost
            BY <3>2, <1>1, <1>2 DEF Written, a
        <3> QED BY <3>1, <3>2, <1>4
    <2>2. ASSUME NEW i \in Jobs, i # j PROVE Written(i)'
        <3>1. job'[i] = job[i] /\ Written(i)
            BY <2>2, <1>4 DEF KeysInv
        <3>2. job[i].pc \in {"record", "overseed", "replace", "rotate", "rewrite"} => job[i].agent \in made
            BY HandlerFields
        <3> QED BY <3>1, <3>2, <1>1, <1>5 DEF Written, LossesStay
    <2> QED BY <2>1, <2>2
<1> QED BY <1>6, <1>7, <1>8 DEF KeysInv

LEMMA KeysInvStep == RecordsReal /\ RecordsReal' /\ KeysInv /\ [RecordsNext]_recordsVars => KeysInv'
<1> SUFFICES ASSUME RecordsReal, RecordsReal', KeysInv, [RecordsNext]_recordsVars PROVE KeysInv'
    OBVIOUS
<1>1. ASSUME NEW j \in Jobs, Handles(j) PROVE KeysInv'
    BY <1>1, KeysCreates, KeysInHand, KeysInFiles, KeysInRecords, KeysRotates DEF Handles
<1>2. ASSUME NEW w \in Spaces,
             \/ ProvisionBegins(w, "derived") \/ ProvisionBegins(w, "named") \/ MigrateBegins(w)
             \/ RotateBegins(w) \/ RemoveBegins(w)
      PROVE  KeysInv'
    BY <1>2, KeysBegin
<1>3. ASSUME NEW w \in Spaces, MovesOne(w) PROVE KeysInv'
    BY <1>3, KeysMovesOne
<1>4. ASSUME NEW w \in Spaces, MovesNone(w) \/ DirectoryGoes(w) \/ \E v \in Spaces : Relinks(w, v) PROVE KeysInv'
    BY <1>4, KeysAround
<1>5. CASE PodMakes \/ MoveBegins \/ Crashes \/ UNCHANGED recordsVars
    BY <1>5, KeysAround
<1>6. CASE MoveSaves
    BY <1>6, KeysMoveSaves
<1> QED BY <1>1, <1>2, <1>3, <1>4, <1>5, <1>6 DEF RecordsNext

LEMMA KeysInvHolds == RecordsSpec => []KeysInv
BY RecordsRealHolds, KeysInvInit, KeysInvStep, PTL DEF RecordsSpec

-----------------------------------------------------------------------------
(* Until one of the named mishaps mixes them, no two records share their   *)
(* credentials, and what is done to one of them stays with it.             *)

InHand == {"look", "write", "record", "overwrite", "overseed", "replace"}
Removing == {"unlink", "unseed", "forget"}

\* Two records never name one project key.
Alone == \A v, w \in Spaces : record[w].project # NoKey /\ record[v].project = record[w].project => v = w

\* What the move gives out was clear, and two old records get one project key with one address only.
MoveIsClear ==
  /\ \A w \in Spaces : moving.key[w] # NoKey => w \in moving.clear
  /\ \A v, w \in Spaces :
        (moving.key[w] # NoKey /\ moving.key[v] = moving.key[w] /\ record[w].project = NoKey /\ record[v].project = NoKey)
          => moving.old[v] = moving.old[w]
  /\ \A w \in Spaces : record[w].project = NoKey => moving.key[w] \in {NoKey, Base, w}

\* So was what a handler is about to write or name.
JobsAreClear == \A j \in Jobs : job[j].pc \in InHand => job[j].clear

\* The seed beside an address is its own, or is about to be written.
SeedAgrees(k) == \/ seed[k] = NoAgent \/ cred[k].agent = NoAgent \/ seed[k] = cred[k].agent
                 \/ \E j \in Jobs : job[j].key = k /\ job[j].pc = "overseed"
SeedsAgree == \A k \in ProjectKeys : SeedAgrees(k)

\* Nobody else names the project key that a removal takes away.
RemovalsAreAlone == \A j \in Jobs, w \in Spaces : job[j].pc \in Removing /\ record[w].project = job[j].key => w = job[j].ws

Tidy == Alone /\ MoveIsClear /\ JobsAreClear /\ SeedsAgree /\ RemovalsAreAlone
TidyInv == mixed = {} => Tidy

LEMMA MixedFacts ==
  ASSUME NEW is, NEW why, Mixed(is, why), mixed' = {}
  PROVE  mixed = {} /\ ~is
BY DEF Mixed

LEMMA TidyInvInit == RecordsInit => TidyInv
<1> SUFFICES ASSUME RecordsInit PROVE Tidy
    BY DEF TidyInv
<1> USE RecordsFacts
<1>1. PICK o \in [Spaces -> OldAgents \union {NoAgent}] : record = [w \in Spaces |-> [project |-> NoKey, old |-> o[w]]]
    BY Zenon DEF RecordsInit
<1>2. \A w \in Spaces : record[w].project = NoKey
    BY <1>1
<1>3. moving = AtRest /\ \A j \in Jobs : job[j] = Free
    BY DEF RecordsInit
<1>4. \A k \in ProjectKeys : seed[k] = NoAgent
    BY DEF RecordsInit
<1>5. Alone
    BY <1>2 DEF Alone
<1>6. MoveIsClear
    <2>1. \A w \in Spaces : moving.key[w] = NoKey
        BY <1>3, FreeFacts
    <2> QED BY <2>1 DEF MoveIsClear
<1>7. JobsAreClear /\ RemovalsAreAlone
    BY <1>3, FreeFacts DEF JobsAreClear, RemovalsAreAlone, InHand, Removing
<1>8. SeedsAgree
    BY <1>4 DEF SeedsAgree, SeedAgrees
<1> QED BY <1>5, <1>6, <1>7, <1>8 DEF Tidy

LEMMA GoesTo ==
  ASSUME RecordsReal, NEW j \in Jobs, NEW p, Goes(j, p)
  PROVE  /\ job'[j].pc = p /\ job'[j].ws = job[j].ws /\ job'[j].key = job[j].key /\ job'[j].clear = job[j].clear
         /\ \A i \in Jobs : i # j => job'[i] = job[i]
<1>1. job \in [Jobs -> Job] /\ job[j] \in Job
    BY HandlerFields DEF RecordsReal, RecordsTypeOK
<1> QED BY <1>1 DEF Goes, Job

\* Which steps of a handler change what.
LEMMA HandlerFrame ==
  ASSUME NEW j \in Jobs, Handles(j)
  PROVE  /\ UNCHANGED moving
         /\ UNCHANGED record \/ WritesRecord(j) \/ ReplacesRecord(j) \/ DeletesRecord(j)
         /\ UNCHANGED cred \/ WritesFile(j) \/ OverwritesFile(j) \/ RewritesFile(j) \/ DeletesFile(j)
         /\ UNCHANGED seed \/ SavesSeed(j) \/ OverwritesSeed(j) \/ DeletesSeed(j)
<1>1. CASE CreatesAgent(j) \/ ChoosesKey(j) \/ LooksAtFile(j) \/ InstallsSeed(j) \/ SignsAhead(j) \/ Forwards(j)
           \/ ReadsEntry(j) \/ Rotates(j)
    BY <1>1 DEF CreatesAgent, ChoosesKey, LooksAtFile, InstallsSeed, SignsAhead, Forwards, ReadsEntry, Rotates, local, files
<1>2. CASE WritesFile(j) \/ OverwritesFile(j) \/ RewritesFile(j) \/ DeletesFile(j)
    BY <1>2 DEF WritesFile, OverwritesFile, RewritesFile, DeletesFile, local
<1>3. CASE SavesSeed(j) \/ OverwritesSeed(j) \/ DeletesSeed(j)
    BY <1>3 DEF SavesSeed, OverwritesSeed, DeletesSeed, local
<1>4. CASE WritesRecord(j) \/ ReplacesRecord(j) \/ DeletesRecord(j)
    BY <1>4 DEF WritesRecord, ReplacesRecord, DeletesRecord, files
<1> QED BY <1>1, <1>2, <1>3, <1>4 DEF Handles

\* A mishap that mixed credentials stays one.
LEMMA HandlerMixes == ASSUME NEW j \in Jobs, Handles(j), mixed' = {} PROVE mixed = {}
<1>1. CASE CreatesAgent(j) \/ ChoosesKey(j) \/ InstallsSeed(j) \/ SignsAhead(j) \/ Forwards(j) \/ ReadsEntry(j)
           \/ Rotates(j) \/ DeletesFile(j) \/ DeletesSeed(j) \/ DeletesRecord(j)
    BY <1>1 DEF CreatesAgent, ChoosesKey, InstallsSeed, SignsAhead, Forwards, ReadsEntry, Rotates, DeletesFile,
                DeletesSeed, DeletesRecord, past
<1>2. CASE LooksAtFile(j) \/ WritesFile(j) \/ SavesSeed(j) \/ OverwritesSeed(j) \/ RewritesFile(j)
    BY <1>2, MixedFacts DEF LooksAtFile, WritesFile, SavesSeed, OverwritesSeed, RewritesFile
<1>3. CASE WritesRecord(j) \/ ReplacesRecord(j) \/ OverwritesFile(j)
    BY <1>3, MixedFacts DEF WritesRecord, ReplacesRecord, OverwritesFile, MixedBy, MixedOver
<1> QED BY <1>1, <1>2, <1>3 DEF Handles

\* A handler's way: what it has in hand it chose, or had before; a removal goes on as it began.
HandlerWay(j) ==
  /\ \A i \in Jobs : i # j => job'[i] = job[i]
  /\ job'[j].pc \in InHand => \/ ChoosesKey(j) \/ ReadsEntry(j)
                              \/ job[j].pc \in InHand /\ job'[j].clear = job[j].clear
  /\ job'[j].pc \in Removing => job[j].pc \in Removing /\ job'[j].key = job[j].key /\ job'[j].ws = job[j].ws
  /\ job[j].pc = "overseed" => OverwritesSeed(j)

LEMMA HandlerWays == ASSUME RecordsReal, NEW j \in Jobs, Handles(j) PROVE HandlerWay(j)
<1> USE DEF HandlerWay
<1>1. job \in [Jobs -> Job] /\ job[j] \in Job
    BY HandlerFields DEF RecordsReal, RecordsTypeOK
<1>2. ASSUME NEW p, Goes(j, p), p \notin Removing \/ job[j].pc \in Removing,
             p \notin InHand \/ job[j].pc \in InHand, job[j].pc # "overseed" \/ OverwritesSeed(j)
      PROVE  HandlerWay(j)
    BY <1>2, GoesTo
<1>3. ASSUME Ends(j), job[j].pc # "overseed" PROVE HandlerWay(j)
    BY <1>3, EndsFacts, FreeFacts DEF JobMoves, InHand, Removing
<1>4. CASE CreatesAgent(j)
    <2>1. PICK a \in Agents : \/ job' = [job EXCEPT ![j].agent = a,
                                              ![j].pc = IF job[j].op = "migrate" THEN "sign" ELSE "allocate"]
                              \/ Ends(j)
        BY <1>4, Zenon DEF CreatesAgent
    <2>2. job[j].pc = "create"
        BY <1>4 DEF CreatesAgent, At
    <2>3. ASSUME NEW p \in {"sign", "allocate"}, job' = [job EXCEPT ![j].agent = a, ![j].pc = p] PROVE HandlerWay(j)
        <3>1. job'[j].pc = p /\ \A i \in Jobs : i # j => job'[i] = job[i]
            BY <2>3, <1>1 DEF Job
        <3> QED BY <3>1, <2>2 DEF InHand, Removing
    <2>4. CASE job' = [job EXCEPT ![j].agent = a, ![j].pc = IF job[j].op = "migrate" THEN "sign" ELSE "allocate"]
        <3>1. CASE job[j].op = "migrate"
            BY <2>3, <2>4, <3>1
        <3>2. CASE job[j].op # "migrate"
            BY <2>3, <2>4, <3>2
        <3> QED BY <3>1, <3>2
    <2> QED BY <2>1, <2>2, <2>4, <1>3
<1>5. CASE ChoosesKey(j)
    <2>1. ASSUME NEW k, NEW c, job' = [job EXCEPT ![j].key = k, ![j].pc = "look", ![j].clear = c]
          PROVE  job'[j].pc = "look" /\ \A i \in Jobs : i # j => job'[i] = job[i]
        BY <2>1, <1>1 DEF Job
    <2>2. job'[j].pc = "look" /\ job[j].pc = "allocate" /\ \A i \in Jobs : i # j => job'[i] = job[i]
        BY <1>5, <2>1 DEF ChoosesKey, At
    <2> QED BY <1>5, <2>2 DEF Removing
<1>6. CASE ReadsEntry(j)
    <2>1. ASSUME NEW k, NEW c, job' = [job EXCEPT ![j].pc = "overwrite", ![j].key = k, ![j].clear = c]
          PROVE  job'[j].pc = "overwrite" /\ \A i \in Jobs : i # j => job'[i] = job[i]
        BY <2>1, <1>1 DEF Job
    <2>2. job'[j].pc = "overwrite" /\ job[j].pc = "entry" /\ \A i \in Jobs : i # j => job'[i] = job[i]
        BY <1>6, <2>1 DEF ReadsEntry, At
    <2> QED BY <1>6, <2>2 DEF Removing
<1>7. CASE LooksAtFile(j) \/ WritesFile(j) \/ WritesRecord(j)
    <2>1. job[j].pc \in {"look", "write", "record"} /\ (Goes(j, "write") \/ Goes(j, "record") \/ Goes(j, "install"))
        BY <1>7 DEF LooksAtFile, WritesFile, WritesRecord, At
    <2> QED BY <2>1, <1>2 DEF InHand, Removing
<1>8. CASE InstallsSeed(j) \/ SavesSeed(j) \/ Forwards(j)
    <2>1. job[j].pc \in {"install", "seed", "forward"} /\ (Goes(j, "seed") \/ Goes(j, "entry") \/ Ends(j))
        BY <1>8 DEF InstallsSeed, SavesSeed, Forwards, At, Unsigned
    <2> QED BY <2>1, <1>2, <1>3 DEF InHand, Removing
<1>9. CASE SignsAhead(j)
    <2>1. job[j].pc = "sign" /\ (Goes(j, "forward") \/ job' = [job EXCEPT ![j].signs = TRUE, ![j].pc = "forward"])
        BY <1>9 DEF SignsAhead, At
    <2>2. ASSUME job' = [job EXCEPT ![j].signs = TRUE, ![j].pc = "forward"]
          PROVE  job'[j].pc = "forward" /\ \A i \in Jobs : i # j => job'[i] = job[i]
        BY <2>2, <1>1 DEF Job
    <2> QED BY <2>1, <2>2, <1>2 DEF InHand, Removing
<1>10. CASE OverwritesFile(j)
    <2>1. job[j].pc = "overwrite" /\ (Goes(j, "overseed") \/ Goes(j, "replace"))
        BY <1>10 DEF OverwritesFile, At
    <2> QED BY <2>1, <1>2 DEF InHand, Removing
<1>11. CASE OverwritesSeed(j)
    <2>1. job[j].pc = "overseed" /\ Goes(j, "replace")
        BY <1>11 DEF OverwritesSeed, At
    <2> QED BY <2>1, <1>11, <1>2 DEF InHand, Removing
<1>12. CASE ReplacesRecord(j) \/ RewritesFile(j) \/ DeletesRecord(j)
    <2>1. job[j].pc \in {"replace", "rewrite", "forget"} /\ Ends(j)
        BY <1>12 DEF ReplacesRecord, RewritesFile, DeletesRecord, At
    <2> QED BY <2>1, <1>3
<1>13. CASE DeletesFile(j) \/ DeletesSeed(j)
    <2>1. job[j].pc \in {"unlink", "unseed"} /\ (Goes(j, "unseed") \/ Goes(j, "forget"))
        BY <1>13 DEF DeletesFile, DeletesSeed, At
    <2> QED BY <2>1, <1>2 DEF InHand, Removing
<1>14. CASE Rotates(j)
    <2>1. job[j].pc = "rotate" /\ (Ends(j) \/ job' = [job EXCEPT ![j].pc = "rewrite", ![j].turn = turn'[job[j].agent]])
        BY <1>14 DEF Rotates, At
    <2>2. ASSUME NEW t, job' = [job EXCEPT ![j].pc = "rewrite", ![j].turn = t]
          PROVE  job'[j].pc = "rewrite" /\ \A i \in Jobs : i # j => job'[i] = job[i]
        BY <2>2, <1>1 DEF Job
    <2>3. CASE job' = [job EXCEPT ![j].pc = "rewrite", ![j].turn = turn'[job[j].agent]]
        BY <2>1, <2>2, <2>3 DEF InHand, Removing
    <2> QED BY <2>1, <2>3, <1>3
<1> HIDE DEF HandlerWay
<1> QED BY <1>4, <1>5, <1>6, <1>7, <1>8, <1>9, <1>10, <1>11, <1>12, <1>13, <1>14 DEF Handles

\* As long as nothing was mixed, what is allocated is clear.
LEMMA AllocatedIsClear ==
  ASSUME RecordsReal, NEW w \in Spaces, NEW a, NEW taken, Taken \subseteq taken
  PROVE  ClearFor(Allocate(w, a, taken), w, a)
<1> USE RecordsFacts
<1>1. CASE Allocate(w, a, taken) = w
    BY <1>1 DEF ClearFor
<1>2. CASE Allocate(w, a, taken) # w
    <2>1. Allocate(w, a, taken) = Base /\ \A b \in Agents \ {a} : <<Base, b>> \notin taken
        BY <1>2 DEF Allocate
    <2>2. ASSUME NEW v \in Spaces, record[v].project = Base, FileOf(v).agent # NoAgent PROVE FileOf(v).agent = a
        <3>1. Resolves(v)
            BY <2>2 DEF Resolves
        <3>2. FileOf(v) = cred[Base] /\ FileOf(v).agent \in Agents
            BY <2>2, <3>1, FileOfFacts DEF RecordsReal, RecordsTypeOK
        <3>3. <<Base, cred[Base].agent>> \in Taken
            BY <2>2, <3>1 DEF Taken
        <3> QED BY <2>1, <3>2, <3>3
    <2> QED BY <2>1, <2>2 DEF ClearFor, Named
<1> QED BY <1>1, <1>2

LEMMA OwnIsClear ==
  ASSUME Alone, NEW w \in Spaces, NEW a, record[w].project # NoKey
  PROVE  ClearFor(record[w].project, w, a)
BY DEF Alone, ClearFor, Named

\* A clear project key that is named or held by nobody else, when it is named.
LEMMA NamingIsAlone ==
  ASSUME NEW j \in Jobs, MixedBy(j), mixed' = {}, job[j].clear
  PROVE  /\ \A v \in Spaces : record[v].project = job[j].key => v = job[j].ws
         /\ \A i \in Jobs : job[i].key = job[j].key => job[i].ws = job[j].ws
<1>1. Named(job[j].key) \ {job[j].ws} = {} /\ ~InOtherHands(job[j].key, job[j].ws)
    BY MixedFacts DEF MixedBy
<1> QED BY <1>1 DEF Named, InOtherHands

\* What the two steps that name a project key do, and the one that forgets a record.
LEMMA NamingFacts ==
  ASSUME RecordsReal, Tidy, NEW j \in Jobs, mixed' = {}, WritesRecord(j) \/ ReplacesRecord(j) \/ DeletesRecord(j)
  PROVE  /\ ~moving.held /\ job[j].ws \in Spaces
         /\ \A w \in Spaces : w # job[j].ws => record'[w] = record[w]
         /\ \/ /\ record'[job[j].ws].project = job[j].key /\ job[j].key # NoKey
               /\ \A v \in Spaces : record[v].project = job[j].key => v = job[j].ws
               /\ \A i \in Jobs : job[i].key = job[j].key => job[i].ws = job[j].ws
            \/ record'[job[j].ws].project = NoKey
<1> DEFINE u == job[j].ws
<1>1. record \in [Spaces -> Record] /\ u \in Spaces
    BY HandlerFields DEF RecordsReal, RecordsTypeOK
<1>2. CASE WritesRecord(j) \/ ReplacesRecord(j)
    <2>1. job[j].pc \in InHand /\ job[j].pc \in Keyed /\ ~moving.held /\ MixedBy(j)
        BY <1>2 DEF WritesRecord, ReplacesRecord, At, InHand, Keyed
    <2>2. job[j].clear /\ job[j].key # NoKey
        BY <2>1, HandlerFields DEF Tidy, JobsAreClear, RealJob
    <2>3. \/ record' = [record EXCEPT ![u].project = job[j].key]
          \/ record' = [record EXCEPT ![u] = [project |-> job[j].key, old |-> NoAgent]]
        BY <1>2 DEF WritesRecord, ReplacesRecord, Names
    <2>4. record'[u].project = job[j].key /\ \A w \in Spaces : w # u => record'[w] = record[w]
        BY <1>1, <2>3 DEF Record
    <2> QED BY <1>1, <2>1, <2>2, <2>4, NamingIsAlone
<1>3. CASE DeletesRecord(j)
    <2>1. ~moving.held /\ record' = [record EXCEPT ![u] = NoRecord]
        BY <1>3 DEF DeletesRecord
    <2>2. record'[u].project = NoKey
        BY <1>1, <2>1 DEF NoRecord
    <2> QED BY <1>1, <2>1, <2>2
<1> QED BY <1>2, <1>3

\* A step of a handler that leaves both files of a project key as they are.
LEMMA SeedStays ==
  ASSUME Tidy, NEW j \in Jobs, HandlerWay(j), job[j].pc # "overseed", NEW k \in ProjectKeys,
         cred'[k].agent = cred[k].agent, seed'[k] = seed[k]
  PROVE  SeedAgrees(k)'
BY DEF Tidy, SeedsAgree, SeedAgrees, HandlerWay

LEMMA SeedsHandled ==
  ASSUME RecordsReal, Tidy, mixed' = {}, NEW j \in Jobs, Handles(j), HandlerWay(j), NEW k \in ProjectKeys
  PROVE  SeedAgrees(k)'
<1> USE RecordsFacts
<1> DEFINE q == job[j].key
           a == job[j].agent
<1>1. cred \in [ProjectKeys -> File] /\ seed \in [ProjectKeys -> installed \union {NoAgent}] /\ job[j] \in Job
    BY FilesAreReal, HandlerFields DEF FilesReal
<1>2. CASE job[j].pc = "overseed"
    <2>1. /\ cred[q].agent = a /\ UNCHANGED cred /\ seed' = [seed EXCEPT ![q] = a]
        BY <1>2, MixedFacts DEF HandlerWay, OverwritesSeed, Overseed
    <2>2. CASE k = q
        BY <1>1, <2>1, <2>2 DEF SeedAgrees
    <2>3. CASE k # q
        <3>1. cred'[k] = cred[k] /\ seed'[k] = seed[k] /\ SeedAgrees(k)
            BY <1>1, <2>1, <2>3 DEF Tidy, SeedsAgree
        <3> QED BY <3>1, <2>3 DEF SeedAgrees, HandlerWay
    <2> QED BY <2>2, <2>3
<1>3. CASE job[j].pc # "overseed"
    <2>1. CASE WritesFile(j)
        <3>1. /\ cred' = [cred EXCEPT ![q] = [agent |-> a, turn |-> 0]] /\ UNCHANGED seed /\ seed[q] = NoAgent
            BY <2>1, MixedFacts DEF WritesFile
        <3>2. CASE k = q
            BY <3>1, <3>2 DEF SeedAgrees
        <3>3. CASE k # q
            BY <1>1, <1>3, <3>1, <3>3, SeedStays
        <3> QED BY <3>2, <3>3
    <2>2. CASE OverwritesFile(j)
        <3>1. /\ cred' = [cred EXCEPT ![q] = [agent |-> a, turn |-> 0]] /\ UNCHANGED seed /\ (job[j].signs \/ seed[q] = NoAgent)
              /\ Goes(j, IF job[j].signs THEN "overseed" ELSE "replace")
            BY <2>2, MixedFacts DEF OverwritesFile, MixedOver
        <3>2. CASE k = q /\ seed[q] = NoAgent
            BY <3>1, <3>2 DEF SeedAgrees
        <3>3. CASE k = q /\ job[j].signs
            <4>1. job'[j].pc = "overseed" /\ job'[j].key = k
                BY <3>1, <3>3, GoesTo
            <4> QED BY <4>1 DEF SeedAgrees
        <3>4. CASE k # q
            BY <1>1, <1>3, <3>1, <3>4, SeedStays
        <3> QED BY <3>1, <3>2, <3>3, <3>4
    <2>3. CASE RewritesFile(j)
        <3>1. /\ cred' = [cred EXCEPT ![q] = [agent |-> a, turn |-> job[j].turn]] /\ UNCHANGED seed /\ cred[q].agent = a
            BY <2>3, MixedFacts DEF RewritesFile
        <3>2. cred'[k].agent = cred[k].agent
            BY <1>1, <3>1 DEF File
        <3> QED BY <1>3, <3>1, <3>2, SeedStays
    <2>4. CASE DeletesFile(j)
        <3>1. /\ cred' = [cred EXCEPT ![q] = NoFile] /\ UNCHANGED seed
            BY <2>4 DEF DeletesFile
        <3>2. CASE k = q
            BY <1>1, <3>1, <3>2 DEF SeedAgrees, NoFile
        <3>3. CASE k # q
            BY <1>1, <1>3, <3>1, <3>3, SeedStays
        <3> QED BY <3>2, <3>3
    <2>5. CASE SavesSeed(j)
        <3>1. /\ UNCHANGED cred /\ cred[q].agent = a /\ seed' = [seed EXCEPT ![q] = IF seed[q] = NoAgent THEN a ELSE seed[q]]
            BY <2>5, MixedFacts DEF SavesSeed
        <3>2. CASE k = q /\ seed[q] = NoAgent
            BY <1>1, <3>1, <3>2 DEF SeedAgrees
        <3>3. CASE k # q \/ seed[q] # NoAgent
            <4>1. seed'[k] = seed[k]
                BY <1>1, <3>1, <3>3
            <4> QED BY <1>3, <3>1, <4>1, SeedStays
        <3> QED BY <3>2, <3>3
    <2>6. CASE DeletesSeed(j)
        <3>1. /\ UNCHANGED cred /\ seed' = [seed EXCEPT ![q] = NoAgent]
            BY <2>6 DEF DeletesSeed
        <3>2. CASE k = q
            BY <1>1, <3>1, <3>2 DEF SeedAgrees
        <3>3. CASE k # q
            BY <1>1, <1>3, <3>1, <3>3, SeedStays
        <3> QED BY <3>2, <3>3
    <2>7. CASE UNCHANGED cred /\ UNCHANGED seed
        BY <1>3, <2>7, SeedStays
    <2>8. ~OverwritesSeed(j)
        BY <1>3 DEF OverwritesSeed, At
    <2>9. UNCHANGED seed \/ ~(WritesFile(j) \/ OverwritesFile(j) \/ RewritesFile(j) \/ DeletesFile(j))
        BY DEF WritesFile, OverwritesFile, RewritesFile, DeletesFile
    <2> QED BY <2>1, <2>2, <2>3, <2>4, <2>5, <2>6, <2>7, <2>8, <2>9, HandlerFrame
<1> QED BY <1>2, <1>3

LEMMA TidyHandles == ASSUME RecordsReal, TidyInv, NEW j \in Jobs, Handles(j), mixed' = {} PROVE Tidy'
<1> USE RecordsFacts
<1>1. Tidy /\ HandlerWay(j)
    BY HandlerMixes, HandlerWays DEF TidyInv
<1>2. UNCHANGED record \/ WritesRecord(j) \/ ReplacesRecord(j) \/ DeletesRecord(j)
    BY HandlerFrame
<1>3. Alone'
    <2>1. CASE UNCHANGED record
        BY <1>1, <2>1 DEF Tidy, Alone
    <2>2. CASE WritesRecord(j) \/ ReplacesRecord(j) \/ DeletesRecord(j)
        <3> SUFFICES ASSUME NEW v \in Spaces, NEW w \in Spaces, record'[w].project # NoKey,
                            record'[v].project = record'[w].project, v # w
                     PROVE  FALSE
            BY DEF Alone
        <3>0. Alone /\ \A x \in Spaces : x # job[j].ws => record'[x] = record[x]
            BY <1>1, <2>2, NamingFacts DEF Tidy
        <3>1. v = job[j].ws \/ w = job[j].ws
            BY <3>0 DEF Alone
        <3>2. CASE v = job[j].ws
            <4>1. record'[w] = record[w]
                BY <3>0, <3>2
            <4>2. record'[v].project = job[j].key /\ \A x \in Spaces : record[x].project = job[j].key => x = job[j].ws
                BY <1>1, <2>2, <3>2, NamingFacts
            <4> QED BY <3>2, <4>1, <4>2
        <3>3. CASE w = job[j].ws
            <4>1. record'[v] = record[v]
                BY <3>0, <3>3
            <4>2. record'[w].project = job[j].key /\ \A x \in Spaces : record[x].project = job[j].key => x = job[j].ws
                BY <1>1, <2>2, <3>3, NamingFacts
            <4> QED BY <3>3, <4>1, <4>2
        <3> QED BY <3>1, <3>2, <3>3
    <2> QED BY <1>2, <2>1, <2>2
<1>4. MoveIsClear'
    <2>1. UNCHANGED moving /\ (UNCHANGED record \/ ~moving.held)
        BY <1>1, <1>2, HandlerFrame, NamingFacts
    <2>2. CASE UNCHANGED record
        BY <1>1, <2>1, <2>2 DEF Tidy, MoveIsClear
    <2>3. CASE ~moving.held
        <3>1. \A w \in Spaces : moving.key[w] = NoKey
            BY <2>3 DEF RecordsReal, MoveIsOfRecords
        <3> QED BY <2>1, <3>1 DEF MoveIsClear
    <2> QED BY <2>1, <2>2, <2>3
<1>5. JobsAreClear'
    <2> SUFFICES ASSUME NEW i \in Jobs, job'[i].pc \in InHand PROVE job'[i].clear
        BY DEF JobsAreClear
    <2>1. CASE i # j \/ (job[j].pc \in InHand /\ job'[j].clear = job[j].clear)
        BY <1>1, <2>1 DEF HandlerWay, Tidy, JobsAreClear
    <2>2. ASSUME NEW k, ClearFor(k, job[j].ws, job[j].agent),
                 \/ job' = [job EXCEPT ![j].key = k, ![j].pc = "look", ![j].clear = ClearFor(k, job[j].ws, job[j].agent)]
                 \/ job' = [job EXCEPT ![j].pc = "overwrite", ![j].key = k, ![j].clear = ClearFor(k, job[j].ws, job[j].agent)]
          PROVE  job'[j].clear
        <3>1. job \in [Jobs -> Job] /\ job[j] \in Job
            BY HandlerFields DEF RecordsReal, RecordsTypeOK
        <3>2. ASSUME NEW c, c = TRUE, job' = [job EXCEPT ![j].key = k, ![j].pc = "look", ![j].clear = c]
              PROVE  job'[j].clear = TRUE
            BY <3>1, <3>2 DEF Job
        <3>3. ASSUME NEW c, c = TRUE, job' = [job EXCEPT ![j].pc = "overwrite", ![j].key = k, ![j].clear = c]
              PROVE  job'[j].clear = TRUE
            BY <3>1, <3>3 DEF Job
        <3>4. ClearFor(k, job[j].ws, job[j].agent) = TRUE
            BY <2>2 DEF ClearFor
        <3> QED BY Zenon, <2>2, <3>2, <3>3, <3>4
    <2>3. CASE ChoosesKey(j)
        <3>1. ClearFor(Allocate(job[j].ws, job[j].agent, Taken), job[j].ws, job[j].agent)
            BY AllocatedIsClear, HandlerFields
        <3>2. job'[j].clear
            BY <2>2, <2>3, <3>1 DEF ChoosesKey
        <3> QED BY <2>1, <3>2
    <2>4. CASE ReadsEntry(j)
        <3>1. ClearFor(KeyToReplace(job[j].ws, job[j].agent), job[j].ws, job[j].agent)
            BY AllocatedIsClear, OwnIsClear, HandlerFields, <1>1 DEF KeyToReplace, Tidy
        <3>2. job'[j].clear
            BY <2>2, <2>4, <3>1 DEF ReadsEntry
        <3> QED BY <2>1, <3>2
    <2> QED BY <1>1, <2>1, <2>3, <2>4 DEF HandlerWay
<1>6. SeedsAgree'
    BY <1>1, SeedsHandled DEF SeedsAgree
<1>7. RemovalsAreAlone'
    <2> SUFFICES ASSUME NEW i \in Jobs, NEW w \in Spaces, job'[i].pc \in Removing, record'[w].project = job'[i].key
                 PROVE  w = job'[i].ws
        BY DEF RemovalsAreAlone
    <2>1. job[i].pc \in Removing /\ job'[i].key = job[i].key /\ job'[i].ws = job[i].ws
        BY <1>1 DEF HandlerWay
    <2>2. job[i].key # NoKey
        BY <2>1, HandlerFields DEF Removing, Keyed, RealJob
    <2>3. CASE record'[w].project = record[w].project
        BY <1>1, <2>1, <2>3 DEF Tidy, RemovalsAreAlone
    <2>4. CASE record'[w].project # record[w].project
        <3>1. WritesRecord(j) \/ ReplacesRecord(j) \/ DeletesRecord(j)
            BY <2>4, <1>2
        <3>2. w = job[j].ws /\ (record'[w].project = NoKey \/ (record'[w].project = job[j].key
                               /\ \A n \in Jobs : job[n].key = job[j].key => job[n].ws = job[j].ws))
            BY <1>1, <2>4, <3>1, NamingFacts
        <3> QED BY <2>1, <2>2, <3>2
    <2> QED BY <2>3, <2>4
<1> QED BY <1>3, <1>4, <1>5, <1>6, <1>7 DEF Tidy

\* A step that changes no file, no record and no job.
LEMMA TidyStays ==
  ASSUME Tidy, UNCHANGED <<record, cred, seed, job>>, MoveIsClear' PROVE Tidy'
BY DEF Tidy, Alone, JobsAreClear, SeedsAgree, SeedAgrees, RemovalsAreAlone

LEMMA TidyBegins ==
  ASSUME RecordsReal, TidyInv, mixed' = {}, NEW w \in Spaces,
         \/ ProvisionBegins(w, "derived") \/ ProvisionBegins(w, "named") \/ MigrateBegins(w)
         \/ RotateBegins(w) \/ RemoveBegins(w)
  PROVE  Tidy'
<1> USE RecordsFacts
<1>1. UNCHANGED <<record, moving, cred, seed, mixed>>
    BY Zenon, RealBegins
<1>2. Tidy
    BY <1>1 DEF TidyInv
<1>3. ASSUME NEW op, NEW pc, NEW a, NEW key, Begins(w, op, pc, a, key), pc \in {"create", "install", "rotate", "unlink"},
             pc = "unlink" => key = record[w].project /\ key # NoKey
      PROVE  Tidy'
    <2> DEFINE r == [op |-> op, pc |-> pc, ws |-> w, agent |-> a, turn |-> 0, key |-> key, signs |-> FALSE,
                     clear |-> FALSE]
    <2>1. PICK j \in Jobs : job[j] = Free /\ job' = [job EXCEPT ![j] = r]
        BY <1>3, Zenon DEF Begins
    <2>2. r.pc = pc /\ r.key = key /\ r.ws = w
        OBVIOUS
    <2> HIDE DEF r
    <2>3. job'[j] = r /\ \A i \in Jobs : i # j => job'[i] = job[i]
        BY <2>1 DEF RecordsReal, RecordsTypeOK
    <2>4. Alone' /\ MoveIsClear'
        BY <1>1, <1>2 DEF Tidy, Alone, MoveIsClear
    <2>5. JobsAreClear'
        BY <1>2, <1>3, <2>2, <2>3 DEF Tidy, JobsAreClear, InHand
    <2>6. SeedsAgree'
        <3>1. job[j].pc = ""
            BY <2>1, FreeFacts
        <3>2. \A i \in Jobs : job[i].pc = "overseed" => job'[i] = job[i]
            BY <2>3, <3>1
        <3> QED BY <1>1, <1>2, <3>2 DEF Tidy, SeedsAgree, SeedAgrees
    <2>7. RemovalsAreAlone'
        <3>1. \A v \in Spaces : pc = "unlink" /\ record[v].project = key => v = w
            BY <1>2, <1>3 DEF Tidy, Alone
        <3> QED BY <1>1, <1>2, <1>3, <2>2, <2>3, <3>1 DEF Tidy, RemovalsAreAlone, Removing
    <2> QED BY <2>4, <2>5, <2>6, <2>7 DEF Tidy
<1>4. ASSUME NEW op \in {"derived", "named"}, ProvisionBegins(w, op) PROVE Tidy'
    <2>1. Begins(w, op, "install", FileOf(w).agent, record[w].project) \/ Begins(w, op, "create", NoAgent, NoKey)
        BY <1>4 DEF ProvisionBegins
    <2> QED BY <2>1, <1>3
<1>5. CASE MigrateBegins(w)
    <2>1. Begins(w, "migrate", "create", NoAgent, NoKey)
        BY <1>5 DEF MigrateBegins
    <2> QED BY <2>1, <1>3
<1>6. CASE RotateBegins(w)
    <2>1. Begins(w, "rotate", "rotate", FileOf(w).agent, record[w].project)
        BY <1>6 DEF RotateBegins
    <2> QED BY <2>1, <1>3
<1>7. CASE RemoveBegins(w)
    <2>1. Begins(w, "remove", "unlink", NoAgent, record[w].project) /\ Untouched(w) /\ record[w] # NoRecord
        BY <1>7 DEF RemoveBegins
    <2>2. record[w].project # NoKey
        BY <2>1, FileOfFacts DEF Untouched, NoRecord, Record
    <2> QED BY <2>1, <2>2, <1>3
<1> QED BY <1>4, <1>5, <1>6, <1>7

LEMMA TidyRelinks ==
  ASSUME RecordsReal, TidyInv, mixed' = {}, NEW w \in Spaces, NEW v \in Spaces, Relinks(w, v) PROVE Tidy'
<1> USE RecordsFacts
<1>1. /\ ~moving.held /\ UNCHANGED <<moving, cred, seed, job>> /\ w # v
      /\ record' = [record EXCEPT ![v] = record[w], ![w] = NoRecord] /\ mixed = {}
      /\ ~InOtherHands(record[w].project, v)
    BY MixedFacts DEF Relinks, Moves, files
<1>2. Tidy
    BY <1>1 DEF TidyInv
<1>3. /\ record'[v] = record[w] /\ record'[w].project = NoKey
      /\ \A u \in Spaces : u # v /\ u # w => record'[u] = record[u]
    BY <1>1 DEF RecordsReal, RecordsTypeOK, NoRecord
<1>4. Alone'
    BY <1>2, <1>3 DEF Tidy, Alone
<1>5. MoveIsClear'
    <2>1. \A u \in Spaces : moving'.key[u] = NoKey
        BY <1>1 DEF RecordsReal, MoveIsOfRecords
    <2> QED BY <2>1 DEF MoveIsClear
<1>6. JobsAreClear' /\ SeedsAgree'
    BY <1>1, <1>2 DEF Tidy, JobsAreClear, SeedsAgree, SeedAgrees
<1>7. RemovalsAreAlone'
    <2> SUFFICES ASSUME NEW j \in Jobs, NEW u \in Spaces, job[j].pc \in Removing, record'[u].project = job[j].key
                 PROVE  u = job[j].ws
        BY <1>1 DEF RemovalsAreAlone
    <2>1. job[j].key # NoKey
        BY HandlerFields DEF Removing, Keyed, RealJob
    <2>2. CASE u = v
        BY <1>1, <1>3, <2>2 DEF InOtherHands
    <2>3. CASE u # v
        <3>1. u # w
            BY <1>3, <2>1
        <3> QED BY <1>2, <1>3, <2>3, <3>1 DEF Tidy, RemovalsAreAlone
    <2> QED BY <2>2, <2>3
<1> QED BY <1>4, <1>5, <1>6, <1>7 DEF Tidy

LEMMA TidyAround ==
  ASSUME RecordsReal, TidyInv, mixed' = {},
         \/ \E w \in Spaces : DirectoryGoes(w) \/ MovesNone(w)
         \/ PodMakes \/ MoveBegins \/ Crashes
         \/ UNCHANGED recordsVars
  PROVE  Tidy'
<1> USE RecordsFacts
<1>1. CASE \/ \E w \in Spaces : DirectoryGoes(w)
           \/ PodMakes \/ UNCHANGED recordsVars
    <2>1. UNCHANGED <<record, cred, seed, job, moving, mixed>>
        BY <1>1 DEF DirectoryGoes, PodMakes, recordsVars, local, files, past
    <2>2. Tidy /\ MoveIsClear'
        BY <2>1 DEF TidyInv, Tidy, MoveIsClear
    <2> QED BY <2>1, <2>2, TidyStays
<1>2. CASE MoveBegins
    <2>1. UNCHANGED <<record, cred, seed, job, mixed>> /\ moving'.key = [w \in Spaces |-> NoKey]
        BY <1>2 DEF MoveBegins, files, past
    <2>2. \A w \in Spaces : moving'.key[w] = NoKey
        BY <2>1
    <2>3. MoveIsClear'
        BY <2>2 DEF MoveIsClear
    <2> QED BY <2>1, <2>3, TidyStays DEF TidyInv
<1>3. CASE \E w \in Spaces : MovesNone(w)
    <2>1. PICK w \in Spaces : moving' = [moving EXCEPT !.todo = moving.todo \ {w}]
        BY <1>3 DEF MovesNone
    <2>2. UNCHANGED <<record, cred, seed, job, mixed>>
        BY <1>3 DEF MovesNone, files
    <2>3. moving'.key = moving.key /\ moving'.old = moving.old /\ moving'.clear = moving.clear
        BY <2>1 DEF RecordsReal, RecordsTypeOK, Move
    <2>4. Tidy
        BY <2>2 DEF TidyInv
    <2>5. MoveIsClear'
        <3>1. MoveIsClear /\ record' = record
            BY <2>2, <2>4 DEF Tidy
        <3>2. \A u \in Spaces : moving'.key[u] # NoKey => u \in moving'.clear
            BY <2>3, <3>1 DEF MoveIsClear
        <3>3. ASSUME NEW v \in Spaces, NEW u \in Spaces, moving'.key[u] # NoKey, moving'.key[v] = moving'.key[u],
                     record'[u].project = NoKey, record'[v].project = NoKey
              PROVE  moving'.old[v] = moving'.old[u]
            <4>1. moving.key[u] # NoKey /\ moving.key[v] = moving.key[u]
                BY <2>3, <3>3
            <4>2. record[u].project = NoKey /\ record[v].project = NoKey
                BY <3>1, <3>3
            <4>3. moving.old[v] = moving.old[u]
                BY <3>1, <4>1, <4>2 DEF MoveIsClear
            <4> QED BY <2>3, <4>3
        <3>4. \A u \in Spaces : record'[u].project = NoKey => moving'.key[u] \in {NoKey, Base, u}
            BY <2>3, <3>1 DEF MoveIsClear
        <3> QED BY <3>2, <3>3, <3>4 DEF MoveIsClear
    <2> QED BY <2>2, <2>4, <2>5, TidyStays
<1>4. CASE Crashes
    <2>1. /\ UNCHANGED <<record, cred, seed>> /\ moving' = AtRest /\ job' = [j \in Jobs |-> Free] /\ mixed = {}
          /\ \A j \in Jobs : job[j].pc \notin {"overseed", "unseed"}
        BY <1>4, MixedFacts DEF Crashes, files
    <2>2. Tidy
        BY <2>1 DEF TidyInv
    <2>3. Alone'
        BY <2>1, <2>2 DEF Tidy, Alone
    <2>4. MoveIsClear'
        <3>1. \A w \in Spaces : moving'.key[w] = NoKey
            BY <2>1, FreeFacts
        <3> QED BY <3>1 DEF MoveIsClear
    <2>5. JobsAreClear' /\ RemovalsAreAlone'
        BY <2>1, FreeFacts DEF JobsAreClear, RemovalsAreAlone, InHand, Removing
    <2>6. SeedsAgree'
        BY <2>1, <2>2 DEF Tidy, SeedsAgree, SeedAgrees
    <2> QED BY <2>3, <2>4, <2>5, <2>6 DEF Tidy
<1> QED BY <1>1, <1>2, <1>3, <1>4

LEMMA TidyMovesOne ==
  ASSUME RecordsReal, TidyInv, mixed' = {}, NEW w \in Spaces, MovesOne(w) PROVE Tidy'
<1> USE RecordsFacts
<1> DEFINE a == moving.old[w]
           k == IF record[w].project # NoKey THEN record[w].project ELSE Allocate(w, a, TakenWhileMoving)
           clear == IF ClearFor(k, w, a) THEN moving.clear \union {w} ELSE moving.clear
           key == [moving.key EXCEPT ![w] = k]
<1>1. /\ UNCHANGED <<record, job>> /\ mixed = {} /\ w \in moving.todo
      /\ moving'.old = moving.old /\ moving'.key = key /\ moving'.clear = clear
      /\ cred' = [cred EXCEPT ![k] = IF cred[k] = NoFile THEN [agent |-> a, turn |-> 0] ELSE cred[k]]
      /\ seed' = [seed EXCEPT ![k] = IF seed[k] = NoAgent /\ a \in installed THEN a ELSE seed[k]]
      /\ seed'[k] \in {NoAgent, cred'[k].agent}
    BY MixedFacts DEF MovesOne
<1>2. Tidy /\ moving \in Move /\ MoveIsOfRecords /\ made \subseteq Agents
    BY <1>1 DEF TidyInv, RecordsReal, RecordsTypeOK
<1>3. ClearFor(k, w, a)
    <2>1. CASE record[w].project # NoKey
        BY <1>2, <2>1, OwnIsClear DEF Tidy
    <2>2. CASE record[w].project = NoKey
        BY <2>2, AllocatedIsClear DEF TakenWhileMoving
    <2> QED BY <2>1, <2>2
<1>4. k \in ProjectKeys /\ (record[w].project = NoKey => k = Allocate(w, a, TakenWhileMoving) /\ k \in {Base, w})
    BY AllocateFacts, FileOfFacts
<1>5. key[w] = k /\ (\A v \in Spaces : v # w => key[v] = moving.key[v]) /\ clear = moving.clear \union {w}
    BY <1>2, <1>3, <1>4 DEF Move
<1>6. cred \in [ProjectKeys -> File] /\ seed \in [ProjectKeys -> installed \union {NoAgent}]
    BY FilesAreReal DEF FilesReal
<1>7. ASSUME NEW v \in Spaces, v # w, moving.key[v] = k, record[w].project = NoKey, record[v].project = NoKey
      PROVE  moving.old[v] = a
    <2>1. k = Base
        BY <1>2, <1>4, <1>7 DEF Tidy, MoveIsClear
    <2>2. moving.old[v] \in Agents
        <3>1. moving.old[v] # NoAgent
            BY <1>2, <1>4, <1>7 DEF MoveIsOfRecords
        <3>2. moving.old[v] \in made \union {NoAgent}
            BY <1>2 DEF Move
        <3> QED BY <3>1, <3>2, <1>2
    <2>3. <<Base, moving.old[v]>> \in TakenWhileMoving
        BY <1>7, <2>1 DEF TakenWhileMoving
    <2> QED BY <1>4, <1>7, <2>1, <2>2, <2>3 DEF Allocate
<1> HIDE DEF a, k, clear, key
<1>8. MoveIsClear'
    <2>1. \A v \in Spaces : key[v] # NoKey => v \in clear
        BY <1>2, <1>5 DEF Tidy, MoveIsClear
    <2>2. ASSUME NEW v \in Spaces, NEW u \in Spaces, key[u] # NoKey, key[v] = key[u],
                 record[u].project = NoKey, record[v].project = NoKey
          PROVE  moving.old[v] = moving.old[u]
        <3>1. CASE u = v
            BY <3>1
        <3>2. CASE u # v /\ u = w
            BY <3>2, <2>2, <1>5, <1>7 DEF a
        <3>3. CASE u # v /\ v = w
            BY <3>3, <2>2, <1>5, <1>7 DEF a
        <3>4. CASE u # w /\ v # w
            <4>1. moving.key[u] # NoKey /\ moving.key[v] = moving.key[u]
                BY <3>4, <2>2, <1>5
            <4>2. MoveIsClear
                BY <1>2 DEF Tidy
            <4> QED BY <2>2, <4>1, <4>2 DEF MoveIsClear
        <3> QED BY <3>1, <3>2, <3>3, <3>4
    <2>3. \A v \in Spaces : record[v].project = NoKey => key[v] \in {NoKey, Base, v}
        BY <1>2, <1>4, <1>5 DEF Tidy, MoveIsClear
    <2> QED BY <1>1, <2>1, <2>2, <2>3 DEF MoveIsClear
<1>9. SeedsAgree'
    <2> SUFFICES ASSUME NEW i \in ProjectKeys PROVE SeedAgrees(i)'
        BY DEF SeedsAgree
    <2>1. CASE i = k
        BY <1>1, <2>1 DEF SeedAgrees
    <2>2. CASE i # k
        <3>1. cred'[i] = cred[i] /\ seed'[i] = seed[i]
            BY <1>1, <1>4, <1>6, <2>2
        <3> QED BY <1>1, <1>2, <3>1 DEF Tidy, SeedsAgree, SeedAgrees
    <2> QED BY <2>1, <2>2
<1> QED BY <1>1, <1>2, <1>8, <1>9 DEF Tidy, Alone, JobsAreClear, RemovalsAreAlone

LEMMA TidyMoveSaves == ASSUME RecordsReal, TidyInv, mixed' = {}, MoveSaves PROVE Tidy'
<1> USE RecordsFacts
<1>1. /\ moving' = AtRest /\ UNCHANGED <<cred, seed, job>> /\ mixed = {}
      /\ record' = [w \in Spaces |-> IF moving.key[w] # NoKey THEN [project |-> moving.key[w], old |-> NoAgent]
                                     ELSE [project |-> record[w].project, old |-> moving.old[w]]]
      /\ \A w \in Spaces : moving.key[w] # NoKey =>
           /\ w \in moving.clear => ~InOtherHands(moving.key[w], w) /\ Named(moving.key[w]) \ {w} = {}
           /\ \A v \in Spaces \ {w} : moving.key[v] = moving.key[w] => moving.old[v] # moving.old[w]
    BY MixedFacts DEF MoveSaves, files
<1>2. Tidy /\ MoveIsOfRecords
    BY <1>1 DEF TidyInv, RecordsReal
<1>3. \A w \in Spaces : record'[w].project = IF moving.key[w] # NoKey THEN moving.key[w] ELSE record[w].project
    BY <1>1
<1>4. \A w \in Spaces : moving.key[w] # NoKey =>
        /\ \A v \in Spaces : record[v].project = moving.key[w] => v = w
        /\ \A j \in Jobs : job[j].key = moving.key[w] => job[j].ws = w
    BY <1>1, <1>2 DEF Tidy, MoveIsClear, InOtherHands, Named
<1>5. ASSUME NEW v \in Spaces, NEW w \in Spaces, record'[w].project # NoKey, record'[v].project = record'[w].project
      PROVE  v = w
    <2>1. CASE moving.key[w] = NoKey /\ moving.key[v] = NoKey
        BY <1>2, <1>3, <1>5, <2>1 DEF Tidy, Alone
    <2>2. CASE moving.key[w] = NoKey /\ moving.key[v] # NoKey
        BY <1>3, <1>4, <1>5, <2>2
    <2>3. CASE moving.key[w] # NoKey /\ moving.key[v] = NoKey
        BY <1>3, <1>4, <1>5, <2>3
    <2>4. CASE moving.key[w] # NoKey /\ moving.key[v] # NoKey
        <3>1. moving.key[v] = moving.key[w]
            BY <1>3, <1>5, <2>4
        <3>2. record[w].project # NoKey => record[w].project = moving.key[v]
            BY <1>2, <2>4, <3>1 DEF MoveIsOfRecords
        <3>3. record[v].project # NoKey => record[v].project = moving.key[w]
            BY <1>2, <2>4, <3>1 DEF MoveIsOfRecords
        <3>4. CASE record[w].project = NoKey /\ record[v].project = NoKey
            <4>1. moving.old[v] = moving.old[w]
                BY <1>2, <2>4, <3>1, <3>4 DEF Tidy, MoveIsClear
            <4> QED BY <1>1, <2>4, <3>1, <4>1
        <3> QED BY <1>4, <2>4, <3>2, <3>3, <3>4
    <2> QED BY <2>1, <2>2, <2>3, <2>4
<1>6. MoveIsClear'
    <2>1. \A w \in Spaces : moving'.key[w] = NoKey
        BY <1>1, FreeFacts
    <2> QED BY <2>1 DEF MoveIsClear
<1>7. RemovalsAreAlone'
    BY <1>1, <1>2, <1>3, <1>4 DEF Tidy, RemovalsAreAlone
<1>8. JobsAreClear' /\ SeedsAgree'
    BY <1>1, <1>2 DEF Tidy, JobsAreClear, SeedsAgree, SeedAgrees
<1> QED BY <1>5, <1>6, <1>7, <1>8 DEF Tidy, Alone

LEMMA TidyInvStep == RecordsReal /\ TidyInv /\ [RecordsNext]_recordsVars => TidyInv'
<1> SUFFICES ASSUME RecordsReal, TidyInv, [RecordsNext]_recordsVars, mixed' = {} PROVE Tidy'
    BY DEF TidyInv
<1>1. ASSUME NEW j \in Jobs, Handles(j) PROVE Tidy'
    BY <1>1, TidyHandles
<1>2. ASSUME NEW w \in Spaces,
             \/ ProvisionBegins(w, "derived") \/ ProvisionBegins(w, "named") \/ MigrateBegins(w)
             \/ RotateBegins(w) \/ RemoveBegins(w)
      PROVE  Tidy'
    BY <1>2, TidyBegins
<1>3. ASSUME NEW w \in Spaces, MovesOne(w) PROVE Tidy'
    BY <1>3, TidyMovesOne
<1>4. ASSUME NEW w \in Spaces, NEW v \in Spaces, Relinks(w, v) PROVE Tidy'
    BY <1>4, TidyRelinks
<1>5. ASSUME NEW w \in Spaces, MovesNone(w) \/ DirectoryGoes(w) PROVE Tidy'
    BY <1>5, TidyAround
<1>6. CASE PodMakes \/ MoveBegins \/ Crashes \/ UNCHANGED recordsVars
    BY <1>6, TidyAround
<1>7. CASE MoveSaves
    BY <1>7, TidyMoveSaves
<1> QED BY <1>1, <1>2, <1>3, <1>4, <1>5, <1>6, <1>7 DEF RecordsNext

LEMMA TidyInvHolds == RecordsSpec => []TidyInv
BY RecordsRealHolds, TidyInvInit, TidyInvStep, PTL DEF RecordsSpec

\* The records, the files and the handlers are of their kinds; no key is in two states at once.
THEOREM RecordsTypes == RecordsSpec => []RecordsTypeOK
BY RecordsRealHolds, PTL DEF RecordsReal

\* No step of any handler, crash or move of old records loses the key of a mailbox, lays a seed
\* beside the wrong address or lets two records share credentials, but for the named ones.
THEOREM CredentialsAreSafe == RecordsSpec => []CredentialsAreKept
<1>1. ASSUME RecordsReal, KeysInv, TidyInv PROVE CredentialsAreKept
    <2>1. KeysAreKept
        BY <1>1 DEF KeysInv
    <2>2. SharedKeysAreExplained
        BY <1>1 DEF TidyInv, Tidy, Alone, SharedKeysAreExplained, Named
    <2>3. SeedsFit
        <3> SUFFICES ASSUME mixed = {}, NEW w \in Spaces, Resolves(w), seed[record[w].project] # NoAgent
                     PROVE  \/ seed[record[w].project] = FileOf(w).agent
                            \/ \E j \in Jobs : job[j].key = record[w].project /\ job[j].pc = "overseed"
            BY DEF SeedsFit
        <3>1. record[w].project \in ProjectKeys /\ FileOf(w) = cred[record[w].project] /\ FileOf(w).agent # NoAgent
            BY <1>1, FileOfFacts DEF Resolves
        <3>2. SeedAgrees(record[w].project)
            BY <1>1, <3>1 DEF TidyInv, Tidy, SeedsAgree
        <3> QED BY <3>1, <3>2 DEF SeedAgrees
    <2> QED BY <2>1, <2>2, <2>3 DEF CredentialsAreKept
<1> QED BY <1>1, RecordsRealHolds, KeysInvHolds, TidyInvHolds, PTL

\* A step of a handler leaves the files of every other record that stays as it is.
LEMMA OthersHandled ==
  ASSUME RecordsReal, TidyInv, mixed' = {}, NEW j \in Jobs, Handles(j), NEW w \in Spaces,
         Resolves(w), record'[w] = record[w], job[j].ws # w
  PROVE  FileOf(w)'.agent = FileOf(w).agent
<1> USE RecordsFacts
<1> DEFINE k == record[w].project
           q == job[j].key
<1>1. k \in ProjectKeys /\ FileOf(w) = cred[k] /\ cred[k].agent # NoAgent
    BY FileOfFacts DEF Resolves
<1>2. FileOf(w)' = cred'[k]
    BY <1>1 DEF FileOf
<1>3. Tidy
    BY HandlerMixes DEF TidyInv
<1>4. cred \in [ProjectKeys -> File] /\ cred[k] # NoFile
    BY <1>1, FilesAreReal DEF FilesReal, NoFile
<1>5. cred'[k].agent = cred[k].agent
    <2>1. CASE WritesFile(j)
        <3>1. cred[q] = NoFile /\ cred' = [cred EXCEPT ![q] = [agent |-> job[j].agent, turn |-> 0]]
            BY <2>1, MixedFacts DEF WritesFile
        <3> QED BY <3>1, <1>1, <1>4
    <2>2. CASE OverwritesFile(j)
        <3>1. /\ job[j].pc \in InHand /\ cred' = [cred EXCEPT ![q] = [agent |-> job[j].agent, turn |-> 0]]
              /\ ~(job[j].clear /\ Named(q) \ {job[j].ws} # {} /\ cred[q] # NoFile)
            BY <2>2, MixedFacts DEF OverwritesFile, MixedOver, At, InHand
        <3>2. job[j].clear
            BY <3>1, <1>3 DEF Tidy, JobsAreClear
        <3>3. q # k
            BY <3>1, <3>2, <1>4 DEF Named
        <3> QED BY <3>1, <3>3, <1>1, <1>4
    <2>3. CASE RewritesFile(j)
        <3>1. /\ cred[q].agent = job[j].agent
              /\ cred' = [cred EXCEPT ![q] = [agent |-> job[j].agent, turn |-> job[j].turn]]
            BY <2>3, MixedFacts DEF RewritesFile
        <3> QED BY <3>1, <1>1, <1>4 DEF File
    <2>4. CASE DeletesFile(j)
        <3>1. job[j].pc \in Removing /\ cred' = [cred EXCEPT ![q] = NoFile]
            BY <2>4 DEF DeletesFile, At, Removing
        <3>2. q # k
            BY <3>1, <1>3 DEF Tidy, RemovalsAreAlone
        <3> QED BY <3>1, <3>2, <1>1, <1>4
    <2>5. CASE UNCHANGED cred
        BY <2>5
    <2> QED BY <2>1, <2>2, <2>3, <2>4, <2>5, HandlerFrame
<1> QED BY <1>1, <1>2, <1>5

\* What is done to one workspace leaves the others the address they had: neither an opening, a
\* migration, a rotation, a removal nor the move of old records takes it, whatever runs beside it.
THEOREM OthersStay == RecordsSpec => OthersAreLeftAlone
<1> DEFINE Stays(w) == \/ ~Resolves(w) \/ record'[w] # record[w]
                       \/ FileOf(w)'.agent = FileOf(w).agent
                       \/ \E j \in Jobs : job[j] # Free /\ job[j].ws = w
<1>1. ASSUME RecordsReal, RecordsReal', TidyInv, [RecordsNext]_recordsVars
      PROVE  [mixed' = {} => \A w \in Spaces : Stays(w)]_recordsVars
    <2> SUFFICES ASSUME mixed' = {}, RecordsNext, NEW w \in Spaces, Resolves(w), record'[w] = record[w] PROVE Stays(w)
        BY <1>1
    <2>1. record[w].project \in ProjectKeys /\ FileOf(w) = cred[record[w].project] /\ FileOf(w).agent # NoAgent
        BY <1>1, FileOfFacts DEF Resolves
    <2>2. FileOf(w)' = cred'[record[w].project]
        BY <2>1, RecordsFacts DEF FileOf
    <2>3. ASSUME UNCHANGED cred PROVE Stays(w)
        BY <2>1, <2>2, <2>3
    <2>4. ASSUME NEW j \in Jobs, Handles(j) PROVE Stays(w)
        <3>1. CASE job[j].ws # w
            BY <1>1, <2>4, <3>1, OthersHandled
        <3>2. CASE job[j].ws = w
            <4>1. job[j] # Free
                BY <2>4, FreeFacts DEF Handles, CreatesAgent, ChoosesKey, LooksAtFile, WritesFile, WritesRecord,
                   InstallsSeed, SavesSeed, SignsAhead, Forwards, ReadsEntry, OverwritesFile, OverwritesSeed,
                   ReplacesRecord, Rotates, RewritesFile, DeletesFile, DeletesSeed, DeletesRecord, At
            <4> QED BY <3>2, <4>1
        <3> QED BY <3>1, <3>2
    <2>5. ASSUME NEW v \in Spaces, MovesOne(v) PROVE Stays(w)
        <3> DEFINE a == moving.old[v]
                   k == IF record[v].project # NoKey THEN record[v].project ELSE Allocate(v, a, TakenWhileMoving)
        <3>1. cred' = [cred EXCEPT ![k] = IF cred[k] = NoFile THEN [agent |-> a, turn |-> 0] ELSE cred[k]]
            BY <2>5 DEF MovesOne
        <3> HIDE DEF a, k
        <3>2. cred \in [ProjectKeys -> File] /\ cred[record[w].project] # NoFile
            BY <1>1, <2>1, FilesAreReal DEF FilesReal, NoFile
        <3>3. cred'[record[w].project] = cred[record[w].project]
            BY <2>1, <3>1, <3>2
        <3> QED BY <2>1, <2>2, <3>3
    <2>6. ASSUME NEW v \in Spaces,
                 \/ ProvisionBegins(v, "derived") \/ ProvisionBegins(v, "named") \/ MigrateBegins(v)
                 \/ RotateBegins(v) \/ RemoveBegins(v)
          PROVE  Stays(w)
        <3>1. UNCHANGED cred
            BY Zenon, <1>1, <2>6, RealBegins
        <3> QED BY <3>1, <2>3
    <2>7. ASSUME NEW v \in Spaces, MovesNone(v) \/ DirectoryGoes(v) \/ \E u \in Spaces : Relinks(v, u) PROVE Stays(w)
        <3>1. UNCHANGED cred
            BY <2>7 DEF MovesNone, DirectoryGoes, Relinks, files
        <3> QED BY <3>1, <2>3
    <2>8. CASE PodMakes \/ MoveBegins \/ MoveSaves \/ Crashes
        <3>1. UNCHANGED cred
            BY <2>8 DEF PodMakes, MoveBegins, MoveSaves, Crashes, files
        <3> QED BY <3>1, <2>3
    <2> HIDE DEF Stays
    <2> QED BY <2>4, <2>5, <2>6, <2>7, <2>8 DEF RecordsNext
<1> QED BY <1>1, RecordsRealHolds, TidyInvHolds, PTL DEF RecordsSpec, OthersAreLeftAlone

-----------------------------------------------------------------------------
(* The tenant keys.                                                        *)

\* A request that writes has a key; one that opens a pod has the pod's, unless it was misled.
TaskIsReal(t) ==
  /\ t.pc \in {"list", "create", "made", "box"} => t.pod \in Pods
  /\ t.what \in {"open", "box"} => t.pod \in Pods
  /\ t.pc \in {"list", "create"} => t.what = "open"
  /\ t.pc \in {"back", "write", "meta", "made"} => t.key # Keyless
  /\ t.pc \in {"back", "write"} /\ t.what = "open" => t.pod \in misled \/ t.key = t.pod
  /\ t.pc = "made" => t.pod \in misled \/ t.key = t.pod
  /\ t.pc = "write" => t.was \in backups \union strayed \union {Keyless, t.key}
  /\ t.pc = "write" /\ t.was # Keyless =>
       keyFile[IF t.what = "open" THEN <<"own", t.pod>> ELSE Legacy] # Keyless
  /\ t.pc \in {"meta", "owner"} => t.what # "open"
TasksAreReal == \A r \in Requests : TaskIsReal(task[r])

\* As long as nobody else wrote dsh.key meanwhile, at most one request is about to.  It has what
\* the file holds, unless it binds; and what the file held before stays bound till it is written.
WritesItsOwn(t) ==
  /\ t.what # "bind" => t.key = keyFile[Legacy]
  /\ t.pc = "meta" => t.key = keyFile[Legacy]
  /\ (t.pc # "meta" \/ t.what # "bind") /\ bound # Keyless => keyFile[Legacy] = bound
DshKeyIsSettled ==
  unsettled \/ /\ \A q, r \in WritingLegacy : q = r
               /\ \A r \in WritingLegacy : WritesItsOwn(task[r])
               /\ WritingLegacy = {} /\ bound # Keyless => keyFile[Legacy] = bound

TenantInv == KeysTypeOK /\ TasksAreReal /\ GivenKeysAreKept /\ PodKeysAreExplained /\ DshKeyIsSettled

Tasks == [pc : {"rest", "list", "create", "back", "write", "meta", "owner", "box", "made"},
          what : {"none", "bind", "ask", "open", "box"}, pod : Pods \union {NoPod},
          key : TenantKey \union {Keyless}, was : TenantKey \union {Keyless}]
AboutToWrite(t) == t.pc \in {"back", "write", "meta"} /\ t.what # "open"

LEMMA TenantFacts ==
  /\ Pods \subseteq Nat \ {0} /\ 1 \in Pods /\ MaxAsked \in Nat /\ MaxKeyMishaps \in Nat
  /\ Keyless \notin TenantKey /\ Pods \subseteq TenantKey /\ Flat \in TenantKey /\ Flat \notin Pods
  /\ NoPod \notin Pods /\ Legacy \in KeyNames /\ NoTask \in Tasks
  /\ \A i \in Pods : <<"own", i>> \in KeyNames /\ <<"plain", i>> \in KeyNames /\ <<"own", i>> # Legacy
<1>1. Pods \subseteq Nat \ {0} /\ 1 \in Pods /\ MaxAsked \in Nat /\ MaxKeyMishaps \in Nat
    BY KeysAssumption
<1>2. Keyless \notin TenantKey /\ NoPod \notin Pods /\ Flat \notin Pods
    BY <1>1 DEF Keyless, TenantKey, NoPod, Flat
<1> QED
    BY <1>1, <1>2 DEF TenantKey, Legacy, KeyNames, NoTask, Tasks

LEMMA TenantTypes ==
  ASSUME KeysTypeOK
  PROVE  /\ keyFile \in [KeyNames -> TenantKey \union {Keyless}]
         /\ task \in [Requests -> Tasks]
         /\ \A r \in Requests : task[r] \in Tasks
BY DEF KeysTypeOK, Tasks

\* The fields of a task.
LEMMA TaskFields ==
  ASSUME NEW t \in Tasks
  PROVE  /\ t.pc \in {"rest", "list", "create", "back", "write", "meta", "owner", "box", "made"}
         /\ t.what \in {"none", "bind", "ask", "open", "box"} /\ t.pod \in Pods \union {NoPod}
         /\ t.key \in TenantKey \union {Keyless} /\ t.was \in TenantKey \union {Keyless}
         /\ t = [pc |-> t.pc, what |-> t.what, pod |-> t.pod, key |-> t.key, was |-> t.was]
BY DEF Tasks

LEMMA InstanceKeyType == ASSUME KeysTypeOK PROVE InstanceKey \in TenantKey \union {Keyless}
<1>1. envKey \in TenantKey \union {Keyless} /\ ownPod \in Pods \union {NoPod}
    BY DEF KeysTypeOK
<1>2. \A n \in KeyNames : keyFile[n] \in TenantKey \union {Keyless}
    BY TenantTypes
<1>3. ASSUME StoredOwn # {} PROVE Min(StoredOwn) \in Pods
    <2>1. StoredOwn \in SUBSET Nat /\ StoredOwn \subseteq Pods
        BY TenantFacts DEF StoredOwn
    <2>2. \E x \in StoredOwn : \A y \in StoredOwn : ~(y < x)
        <3> DEFINE Below == OpToRel(<, Nat)
        <3>1. \E x \in StoredOwn : \A y \in StoredOwn : ~(<<y, x>> \in Below)
            BY <1>3, <2>1, NatLessThanWellFounded, WFMin
        <3> QED
            BY <2>1, <3>1 DEF OpToRel
    <2>3. \E x \in StoredOwn : \A y \in StoredOwn : x =< y
        BY <2>1, <2>2
    <2> QED
        BY <2>1, <2>3 DEF Min
<1>4. ASSUME Cardinality(Stored) = 1 PROVE (CHOOSE n \in Stored : TRUE) \in KeyNames
    <2>1. Stored # {}
        BY <1>4, FS_EmptySet
    <2> QED
        BY <2>1 DEF Stored
<1>5. ownPod \in StoredOwn => ownPod \in Pods
    BY DEF StoredOwn
<1> QED
    BY <1>1, <1>2, <1>3, <1>4, <1>5, TenantFacts DEF InstanceKey

\* The key taken for a pod: where nothing was taken on trust it is the pod's own.
LEMMA PodKeyFacts ==
  ASSUME KeysTypeOK, NEW i \in Pods, NEW silent
  PROVE  /\ KeyForPod(i, silent) \in TenantKey \union {Keyless}
         /\ ~OnTrust(i, silent) /\ KeyForPod(i, silent) # Keyless => KeyForPod(i, silent) = i
<1>1. /\ keyFile[<<"own", i>>] \in TenantKey \union {Keyless}
      /\ keyFile[<<"plain", i>>] \in TenantKey \union {Keyless}
      /\ InstanceKey \in TenantKey \union {Keyless}
    BY TenantFacts, TenantTypes, InstanceKeyType
<1>2. KeyForPod(i, silent) \in TenantKey \union {Keyless}
    BY <1>1 DEF KeyForPod
<1>3. ASSUME ~OnTrust(i, silent), KeyForPod(i, silent) # Keyless PROVE KeyForPod(i, silent) = i
    <2>1. silent = {}
        BY <1>3 DEF OnTrust
    <2>2. \A n \in KeyNames : Passes(n, i, silent) => keyFile[n] = i
        BY <2>1 DEF Passes
    <2>3. ownPod # i \/ Passes(<<"own", i>>, i, silent) \/ Passes(<<"plain", i>>, i, silent)
        BY <1>3, <2>1 DEF OnTrust
    <2> QED
        BY <1>3, <2>2, <2>3, TenantFacts DEF KeyForPod
<1> QED
    BY <1>2, <1>3

LEMMA TenantInit == KeysInit => TenantInv
<1> SUFFICES ASSUME KeysInit PROVE TenantInv
    OBVIOUS
<1> USE DEF KeysInit
<1>1. KeysTypeOK
    <2>1. task \in [Requests -> Tasks]
        BY TenantFacts
    <2>2. owner \in TenantKey \union {Keyless} /\ bound \in TenantKey \union {Keyless}
          /\ envKey \in TenantKey \union {Keyless} /\ ownPod \in Pods \union {NoPod}
        BY TenantFacts
    <2>3. keyFile \in [KeyNames -> TenantKey \union {Keyless}]
        OBVIOUS
    <2>4. orgBound \in BOOLEAN /\ serverPods \subseteq Pods /\ unsettled \in BOOLEAN
        OBVIOUS
    <2>5. asked \in 0..MaxAsked /\ keyMishaps \in 0..MaxKeyMishaps
        BY TenantFacts
    <2>6. backups = {} /\ given = {} /\ strayed = {} /\ misled = {} /\ boxes = {}
        OBVIOUS
    <2> HIDE DEF KeysInit
    <2> QED
        BY <2>1, <2>2, <2>3, <2>4, <2>5, <2>6 DEF KeysTypeOK, Tasks
<1>2. TasksAreReal
    BY TenantFacts DEF TasksAreReal, TaskIsReal, NoTask
<1>3. GivenKeysAreKept /\ PodKeysAreExplained
    BY DEF GivenKeysAreKept, PodKeysAreExplained
<1>4. DshKeyIsSettled
    BY DEF DshKeyIsSettled, WritingLegacy, NoTask
<1> QED
    BY <1>1, <1>2, <1>3, <1>4 DEF TenantInv

\* A task that moves on leaves the others as they are.
LEMMA TaskMoves ==
  ASSUME TenantInv, NEW r \in Requests, NEW t \in Tasks, task' = [task EXCEPT ![r] = t],
         backups \subseteq backups', strayed \subseteq strayed', misled \subseteq misled', TaskIsReal(t)',
         \A n \in KeyNames : keyFile[n] # Keyless => keyFile'[n] # Keyless
  PROVE  /\ task' \in [Requests -> Tasks] /\ TasksAreReal'
         /\ \A q \in Requests : task'[q] = IF q = r THEN t ELSE task[q]
<1>1. task \in [Requests -> Tasks]
    BY TenantTypes DEF TenantInv
<1>2. \A q \in Requests : task'[q] = IF q = r THEN t ELSE task[q]
    BY <1>1
<1>3. ASSUME NEW q \in Requests PROVE TaskIsReal(task[q])'
    <2>1. CASE q = r
        BY <1>2, <2>1
    <2>2. CASE q # r
        <3>1. TaskIsReal(task[q]) /\ task'[q] = task[q]
            BY <1>2, <2>2 DEF TenantInv, TasksAreReal
        <3>2. task[q] \in Tasks
            BY TenantTypes DEF TenantInv
        <3>3. (IF task[q].what = "open" THEN <<"own", task[q].pod>> ELSE Legacy) \in KeyNames
            BY <3>1, <3>2, TenantFacts DEF TaskIsReal
        <3>4. task[q].pc = "write" /\ task[q].was # Keyless =>
                keyFile'[IF task[q].what = "open" THEN <<"own", task[q].pod>> ELSE Legacy] # Keyless
            BY <3>1, <3>3 DEF TaskIsReal
        <3> QED
            BY <3>1, <3>4 DEF TaskIsReal
    <2> QED
        BY <2>1, <2>2
<1> QED
    BY <1>1, <1>2, <1>3 DEF TasksAreReal

\* The keys in hand go on to be in hand, or stray.
LEMMA HeldStays ==
  ASSUME TenantInv, NEW r \in Requests, NEW t \in Tasks, task' = [task EXCEPT ![r] = t],
         keyFile' = keyFile, backups \subseteq backups', strayed \subseteq strayed',
         given' \subseteq given \union strayed' \union (IF t.pc \in {"back", "write"} THEN {t.key} ELSE {}),
         task[r].pc \in {"back", "write"} =>
           task[r].key \in strayed' \/ (t.pc \in {"back", "write"} /\ t.key = task[r].key)
  PROVE  GivenKeysAreKept'
<1>1. \A q \in Requests : task'[q] = IF q = r THEN t ELSE task[q]
    BY TenantTypes DEF TenantInv
<1>2. OnDisk \subseteq OnDisk'
    BY DEF OnDisk, Stored
<1>3. HeldKeys \subseteq HeldKeys' \union strayed'
    <2> SUFFICES ASSUME NEW q \in Requests, task[q].pc \in {"back", "write"}
                 PROVE  task[q].key \in HeldKeys' \union strayed'
        BY DEF HeldKeys
    <2>1. CASE q = r
        BY <1>1, <2>1 DEF HeldKeys
    <2>2. CASE q # r
        BY <1>1, <2>2 DEF HeldKeys
    <2> QED
        BY <2>1, <2>2
<1>4. t.pc \in {"back", "write"} => t.key \in HeldKeys'
    BY <1>1 DEF HeldKeys
<1> QED
    BY <1>2, <1>3, <1>4 DEF TenantInv, GivenKeysAreKept

LEMMA PodKeysStay ==
  ASSUME TenantInv, keyFile' = keyFile, boxes' = boxes, misled \subseteq misled'
  PROVE  PodKeysAreExplained'
BY DEF TenantInv, PodKeysAreExplained

\* Who is about to write dsh.key after a task has moved on.
LEMMA WritingFacts ==
  ASSUME TenantInv, NEW r \in Requests, NEW t \in Tasks, task' = [task EXCEPT ![r] = t]
  PROVE  /\ \A q : q \in WritingLegacy <=> q \in Requests /\ AboutToWrite(task[q])
         /\ \A q : q \in WritingLegacy' <=> q \in Requests /\ IF q = r THEN AboutToWrite(t) ELSE q \in WritingLegacy
         /\ \A q \in Requests : task'[q] = IF q = r THEN t ELSE task[q]
<1>1. \A q \in Requests : task'[q] = IF q = r THEN t ELSE task[q]
    BY TenantTypes DEF TenantInv
<1> QED
    BY <1>1 DEF WritingLegacy, AboutToWrite

LEMMA SettledStays ==
  ASSUME TenantInv, NEW r \in Requests, NEW t \in Tasks, task' = [task EXCEPT ![r] = t],
         keyFile' = keyFile, bound' = bound, unsettled => unsettled',
         \/ unsettled'
         \/ ~AboutToWrite(task[r]) /\ ~AboutToWrite(t)
         \/ /\ ~AboutToWrite(task[r]) /\ t.pc = "back" /\ WritingLegacy = {}
            /\ t.what # "bind" => t.key = keyFile[Legacy]
         \/ AboutToWrite(task[r]) /\ AboutToWrite(t) /\ (WritesItsOwn(task[r]) => WritesItsOwn(t))
         \/ AboutToWrite(task[r]) /\ ~AboutToWrite(t) /\ ~(task[r].pc = "meta" /\ task[r].what = "bind")
  PROVE  DshKeyIsSettled'
<1> SUFFICES ASSUME ~unsettled', ~unsettled
             PROVE  /\ \A p, q \in WritingLegacy' : p = q
                    /\ \A q \in WritingLegacy' : WritesItsOwn(task'[q])
                    /\ WritingLegacy' = {} /\ bound # Keyless => keyFile[Legacy] = bound
    BY DEF DshKeyIsSettled, WritesItsOwn
<1>1. /\ \A p, q \in WritingLegacy : p = q
      /\ \A q \in WritingLegacy : WritesItsOwn(task[q])
      /\ WritingLegacy = {} /\ bound # Keyless => keyFile[Legacy] = bound
    BY DEF TenantInv, DshKeyIsSettled
<1>2. /\ \A q : q \in WritingLegacy <=> q \in Requests /\ AboutToWrite(task[q])
      /\ \A q : q \in WritingLegacy' <=> q \in Requests /\ IF q = r THEN AboutToWrite(t) ELSE q \in WritingLegacy
      /\ \A q \in Requests : task'[q] = IF q = r THEN t ELSE task[q]
    BY WritingFacts
<1>3. CASE ~AboutToWrite(task[r]) /\ ~AboutToWrite(t)
    <2>1. WritingLegacy' = WritingLegacy /\ \A q \in WritingLegacy : q # r /\ task'[q] = task[q]
        BY <1>2, <1>3
    <2> QED
        BY <1>1, <2>1
<1>4. CASE /\ ~AboutToWrite(task[r]) /\ t.pc = "back" /\ WritingLegacy = {}
           /\ t.what # "bind" => t.key = keyFile[Legacy]
    <2>1. \A q \in WritingLegacy' : q = r /\ task'[q] = t
        BY <1>2, <1>4
    <2>2. WritesItsOwn(t)
        BY <1>1, <1>4 DEF WritesItsOwn
    <2>3. bound # Keyless => keyFile[Legacy] = bound
        BY <1>1, <1>4
    <2> QED
        BY <2>1, <2>2, <2>3
<1>5. CASE AboutToWrite(task[r]) /\ AboutToWrite(t) /\ (WritesItsOwn(task[r]) => WritesItsOwn(t))
    <2>1. r \in WritingLegacy /\ r \in WritingLegacy' /\ \A q \in WritingLegacy' : q = r
        BY <1>1, <1>2, <1>5
    <2> QED
        BY <1>1, <1>2, <1>5, <2>1
<1>6. CASE AboutToWrite(task[r]) /\ ~AboutToWrite(t) /\ ~(task[r].pc = "meta" /\ task[r].what = "bind")
    <2>1. r \in WritingLegacy /\ WritingLegacy' = {}
        BY <1>1, <1>2, <1>6
    <2>2. bound # Keyless => keyFile[Legacy] = bound
        BY <1>1, <1>6, <2>1 DEF WritesItsOwn
    <2> QED
        BY <2>1, <2>2
<1> QED
    BY <1>3, <1>4, <1>5, <1>6

RestIsTyped ==
  /\ backups \subseteq TenantKey /\ envKey \in TenantKey \union {Keyless} /\ owner \in TenantKey \union {Keyless}
  /\ orgBound \in BOOLEAN /\ ownPod \in Pods \union {NoPod} /\ serverPods \subseteq Pods
  /\ given \subseteq Pods /\ strayed \subseteq TenantKey /\ misled \subseteq Pods
  /\ boxes \subseteq Pods \X TenantKey /\ bound \in TenantKey \union {Keyless} /\ unsettled \in BOOLEAN
  /\ asked \in 0..MaxAsked /\ keyMishaps \in 0..MaxKeyMishaps

LEMMA TypesSplit ==
  /\ KeysTypeOK => RestIsTyped
  /\ keyFile \in [KeyNames -> TenantKey \union {Keyless}] /\ task \in [Requests -> Tasks] /\ RestIsTyped => KeysTypeOK
BY DEF KeysTypeOK, RestIsTyped, Tasks

\* A step of one task that writes no key file, makes no mailbox and binds no tenant.
LEMMA QuietStep ==
  ASSUME TenantInv, NEW r \in Requests, NEW t \in Tasks, task' = [task EXCEPT ![r] = t],
         UNCHANGED <<keyFile, boxes, bound>>, RestIsTyped', TaskIsReal(t)',
         backups \subseteq backups', strayed \subseteq strayed', misled \subseteq misled', unsettled => unsettled',
         given' \subseteq given \union strayed' \union (IF t.pc \in {"back", "write"} THEN {t.key} ELSE {}),
         task[r].pc \in {"back", "write"} =>
           task[r].key \in strayed' \/ (t.pc \in {"back", "write"} /\ t.key = task[r].key),
         \/ unsettled'
         \/ ~AboutToWrite(task[r]) /\ ~AboutToWrite(t)
         \/ /\ ~AboutToWrite(task[r]) /\ t.pc = "back" /\ WritingLegacy = {}
            /\ t.what # "bind" => t.key = keyFile[Legacy]
         \/ AboutToWrite(task[r]) /\ AboutToWrite(t) /\ (WritesItsOwn(task[r]) => WritesItsOwn(t))
         \/ AboutToWrite(task[r]) /\ ~AboutToWrite(t) /\ ~(task[r].pc = "meta" /\ task[r].what = "bind")
  PROVE  TenantInv'
<1>1. task' \in [Requests -> Tasks] /\ TasksAreReal'
    BY TaskMoves
<1>2. KeysTypeOK'
    <2>1. keyFile' \in [KeyNames -> TenantKey \union {Keyless}]
        BY TenantTypes DEF TenantInv
    <2> QED
        BY <1>1, <2>1, TypesSplit DEF KeysTypeOK, RestIsTyped, Tasks
<1>3. GivenKeysAreKept'
    BY HeldStays
<1>4. PodKeysAreExplained'
    BY PodKeysStay
<1>5. DshKeyIsSettled'
    BY SettledStays
<1> QED
    BY <1>1, <1>2, <1>3, <1>4, <1>5 DEF TenantInv

LEMMA TenantBegins ==
  ASSUME TenantInv, NEW r \in Requests, BindsTenant(r) \/ AsksOwner(r) \/ OpensPod(r)
  PROVE  TenantInv'
<1>1. ASSUME NEW t \in Tasks, BeginsTask(r, t), TaskIsReal(t)', unsettled => unsettled', unsettled' \in BOOLEAN,
             UNCHANGED <<keyFile, backups, envKey, keyState, serverPods, given, strayed, misled, boxes, bound,
                         keyMishaps>>,
             unsettled' \/ ~AboutToWrite(t) \/ (t.pc = "back" /\ t.what = "bind" /\ WritingLegacy = {})
      PROVE  TenantInv'
    <2>1. task' = [task EXCEPT ![r] = t] /\ task[r] = NoTask /\ asked' = asked + 1 /\ asked < MaxAsked
        BY <1>1 DEF BeginsTask, TaskBecomes
    <2>2. ~AboutToWrite(task[r]) /\ task[r].pc = "rest"
        BY <2>1 DEF NoTask, AboutToWrite
    <2>3. RestIsTyped'
        BY <1>1, <2>1, TenantFacts, TypesSplit DEF TenantInv, RestIsTyped, keyState
    <2> QED
        BY <1>1, <2>1, <2>2, <2>3, QuietStep
<1>2. unsettled \in BOOLEAN
    BY DEF TenantInv, KeysTypeOK
<1>3. CASE BindsTenant(r)
    <2>1. PICK k \in {Flat} \union serverPods : BeginsTask(r, [NoTask EXCEPT !.pc = "back", !.what = "bind", !.key = k])
        BY <1>3 DEF BindsTenant
    <2> DEFINE t == [NoTask EXCEPT !.pc = "back", !.what = "bind", !.key = k]
    <2>2. BeginsTask(r, t)
        BY <2>1
    <2>3. k \in TenantKey
        BY TenantFacts DEF TenantInv, KeysTypeOK
    <2>4. t \in Tasks /\ TaskIsReal(t)'
        BY <2>3, TenantFacts DEF NoTask, Tasks, TaskIsReal
    <2>5. /\ UNCHANGED <<keyFile, backups, envKey, keyState, serverPods, given, strayed, misled, boxes, bound,
                         keyMishaps>>
          /\ unsettled' = (unsettled \/ WritingLegacy # {})
        BY <1>3 DEF BindsTenant
    <2>6. t.pc = "back" /\ t.what = "bind"
        BY DEF NoTask
    <2> HIDE DEF t
    <2> QED
        BY <1>1, <1>2, <2>2, <2>4, <2>5, <2>6
<1>4. CASE AsksOwner(r)
    <2> DEFINE t == [NoTask EXCEPT !.pc = "owner", !.what = "ask"]
    <2>1. BeginsTask(r, t)
        BY <1>4 DEF AsksOwner
    <2>2. t \in Tasks /\ TaskIsReal(t)' /\ ~AboutToWrite(t)
        BY TenantFacts DEF NoTask, Tasks, TaskIsReal, AboutToWrite
    <2>3. UNCHANGED <<keyFile, backups, envKey, keyState, serverPods, given, strayed, misled, boxes, bound, unsettled,
                      keyMishaps>>
        BY <1>4 DEF AsksOwner, keyHistory
    <2> HIDE DEF t
    <2> QED
        BY <1>1, <1>2, <2>1, <2>2, <2>3
<1>5. CASE OpensPod(r)
    <2>1. PICK i \in Pods : BeginsTask(r, [NoTask EXCEPT !.pc = "list", !.what = "open", !.pod = i])
        BY <1>5 DEF OpensPod
    <2> DEFINE t == [NoTask EXCEPT !.pc = "list", !.what = "open", !.pod = i]
    <2>2. BeginsTask(r, t)
        BY <2>1
    <2>3. t \in Tasks /\ TaskIsReal(t)' /\ ~AboutToWrite(t)
        BY TenantFacts DEF NoTask, Tasks, TaskIsReal, AboutToWrite
    <2>4. UNCHANGED <<keyFile, backups, envKey, keyState, serverPods, given, strayed, misled, boxes, bound, unsettled,
                      keyMishaps>>
        BY <1>5 DEF OpensPod, keyHistory
    <2> HIDE DEF t
    <2> QED
        BY <1>1, <1>2, <2>2, <2>3, <2>4
<1> QED
    BY <1>3, <1>4, <1>5

\* What a task that takes a key goes on as.
LEMMA TakesFacts ==
  ASSUME TenantInv, NEW r \in Requests, NEW i \in Pods, NEW with \in Tasks, TakesKey(r, i, with)
  PROVE  \E k \in TenantKey \union {Keyless} :
           /\ keyMishaps' \in 0..MaxKeyMishaps /\ misled' \in {misled, misled \union {i}}
           /\ k # Keyless => i \in misled' \/ k = i
           /\ task' = [task EXCEPT ![r] = IF k = Keyless THEN NoTask ELSE [with EXCEPT !.key = k]]
<1>1. PICK silent \in SUBSET {<<"own", i>>, <<"plain", i>>} :
        /\ IF silent = {} THEN UNCHANGED keyMishaps ELSE KeyMishap
        /\ misled' = IF OnTrust(i, silent) THEN misled \union {i} ELSE misled
        /\ TaskBecomes(r, IF KeyForPod(i, silent) = Keyless THEN NoTask
                          ELSE [with EXCEPT !.key = KeyForPod(i, silent)])
    BY DEF TakesKey
<1>2. keyMishaps' \in 0..MaxKeyMishaps
    BY <1>1, TenantFacts DEF KeyMishap, TenantInv, KeysTypeOK
<1>3. /\ KeyForPod(i, silent) \in TenantKey \union {Keyless}
      /\ ~OnTrust(i, silent) /\ KeyForPod(i, silent) # Keyless => KeyForPod(i, silent) = i
    BY PodKeyFacts DEF TenantInv
<1> DEFINE k == KeyForPod(i, silent)
<1>4. misled' \in {misled, misled \union {i}} /\ (k # Keyless => i \in misled' \/ k = i)
    BY <1>1, <1>3
<1>5. task' = [task EXCEPT ![r] = IF k = Keyless THEN NoTask ELSE [with EXCEPT !.key = k]]
    BY <1>1 DEF TaskBecomes
<1> HIDE DEF k
<1> QED
    BY <1>2, <1>3, <1>4, <1>5 DEF k

LEMMA TenantTakes ==
  ASSUME TenantInv, NEW r \in Requests, ListsPods(r) \/ CreatesPod(r) \/ MakesBox(r)
  PROVE  TenantInv'
<1> DEFINE o == task[r]
<1>1. o \in Tasks /\ TaskIsReal(o)
    BY TenantTypes DEF TenantInv, TasksAreReal
<1>2. RestIsTyped
    BY TypesSplit DEF TenantInv
<1>3. ~AboutToWrite(NoTask) /\ NoTask.pc = "rest" /\ NoTask \in Tasks /\ TaskIsReal(NoTask)'
    BY TenantFacts DEF NoTask, AboutToWrite, TaskIsReal
<1>4. CASE ListsPods(r)
    <2>1. /\ o.pc = "list" /\ o.pod \in Pods /\ o.what = "open" /\ ~AboutToWrite(o)
          /\ UNCHANGED <<keyFile, backups, envKey, keyState, serverPods, given, strayed, boxes, bound, unsettled, asked>>
        BY <1>1, <1>4 DEF ListsPods, TaskIsReal, AboutToWrite
    <2>2. CASE o.pod \in serverPods
        <3> DEFINE w == [o EXCEPT !.pc = "back"]
        <3>1. TakesKey(r, o.pod, w)
            BY <1>4, <2>2 DEF ListsPods
        <3>2. w \in Tasks /\ w.pc = "back" /\ w.what = "open" /\ w.pod = o.pod
            BY <1>1, <2>1 DEF Tasks
        <3> HIDE DEF w, o
        <3>3. PICK k \in TenantKey \union {Keyless} :
                /\ keyMishaps' \in 0..MaxKeyMishaps /\ misled' \in {misled, misled \union {o.pod}}
                /\ k # Keyless => o.pod \in misled' \/ k = o.pod
                /\ task' = [task EXCEPT ![r] = IF k = Keyless THEN NoTask ELSE [w EXCEPT !.key = k]]
            BY <2>1, <3>1, <3>2, TakesFacts
        <3>4. RestIsTyped'
            BY <1>2, <2>1, <3>3 DEF RestIsTyped, keyState
        <3>5. CASE k = Keyless
            <4>1. task' = [task EXCEPT ![r] = NoTask]
                BY <3>3, <3>5
            <4> QED
                BY <1>3, <2>1, <3>3, <3>4, <4>1, QuietStep DEF o
        <3>6. CASE k # Keyless
            <4> DEFINE e == [w EXCEPT !.key = k]
            <4>e. e \in Tasks /\ e.pc = "back" /\ e.what = "open" /\ e.pod = o.pod /\ e.key = k
                BY <3>2 DEF Tasks
            <4>1. PICK t \in Tasks : t = e /\ t.pc = "back" /\ t.what = "open" /\ t.pod = o.pod /\ t.key = k
                BY <4>e
            <4>2. task' = [task EXCEPT ![r] = t]
                BY <4>1, <3>3, <3>6
            <4>3. TaskIsReal(t)' /\ ~AboutToWrite(t)
                BY <2>1, <3>3, <3>6, <4>1 DEF TaskIsReal, AboutToWrite
            <4> QED
                BY <2>1, <3>3, <3>4, <4>1, <4>2, <4>3, QuietStep DEF o
        <3> QED
            BY <3>5, <3>6
    <2>3. CASE o.pod \notin serverPods
        <3> DEFINE e == [o EXCEPT !.pc = "create"]
        <3>e. e \in Tasks /\ e.pc = "create" /\ e.what = "open" /\ e.pod = o.pod
            BY <1>1, <2>1 DEF Tasks
        <3>2. PICK t \in Tasks : t = e /\ t.pc = "create" /\ t.what = "open" /\ t.pod = o.pod
            BY <3>e
        <3>1. task' = [task EXCEPT ![r] = t] /\ UNCHANGED <<misled, keyMishaps>>
            BY <1>4, <2>3, <3>2 DEF ListsPods, TaskBecomes
        <3>3. TaskIsReal(t)' /\ ~AboutToWrite(t)
            BY <2>1, <3>2 DEF TaskIsReal, AboutToWrite
        <3>4. RestIsTyped'
            BY <1>2, <2>1, <3>1 DEF RestIsTyped, keyState
        <3> QED
            BY <2>1, <3>1, <3>2, <3>3, <3>4, QuietStep
    <2> QED
        BY <2>2, <2>3
<1>5. CASE CreatesPod(r)
    <2>1. /\ o.pc = "create" /\ o.pod \in Pods /\ o.what = "open" /\ ~AboutToWrite(o)
          /\ UNCHANGED <<keyFile, backups, envKey, keyState, misled, boxes, bound, unsettled, asked>>
          /\ serverPods' = serverPods \union {o.pod}
        BY <1>1, <1>5 DEF CreatesPod, TaskIsReal, AboutToWrite
    <2>2. CASE /\ o.pod \in serverPods /\ TaskBecomes(r, NoTask) /\ UNCHANGED <<given, strayed, keyMishaps>>
        <3>1. RestIsTyped'
            BY <1>2, <2>1, <2>2 DEF RestIsTyped, keyState
        <3>2. task' = [task EXCEPT ![r] = NoTask] /\ UNCHANGED <<given, strayed>>
            BY <2>2 DEF TaskBecomes
        <3> QED
            BY <1>3, <2>1, <3>1, <3>2, QuietStep
    <2>3. CASE /\ given' = given \union {o.pod}
               /\ TaskBecomes(r, [o EXCEPT !.pc = "back", !.key = o.pod]) /\ UNCHANGED <<strayed, keyMishaps>>
        <3> DEFINE e == [o EXCEPT !.pc = "back", !.key = o.pod]
        <3>e. e \in Tasks /\ e.pc = "back" /\ e.what = "open" /\ e.pod = o.pod /\ e.key = o.pod
            BY <1>1, <2>1, TenantFacts DEF Tasks
        <3>1. PICK t \in Tasks : t = e /\ t.pc = "back" /\ t.what = "open" /\ t.pod = o.pod /\ t.key = o.pod
            BY <3>e
        <3>2. task' = [task EXCEPT ![r] = t]
            BY <3>1, <2>3 DEF TaskBecomes
        <3>3. TaskIsReal(t)' /\ ~AboutToWrite(t)
            BY <2>1, <3>1, TenantFacts DEF TaskIsReal, AboutToWrite
        <3>4. RestIsTyped'
            BY <1>2, <2>1, <2>3 DEF RestIsTyped, keyState
        <3> QED
            BY <2>1, <2>3, <3>1, <3>2, <3>3, <3>4, QuietStep
    <2>4. CASE /\ given' = given \union {o.pod}
               /\ KeyMishap /\ TaskBecomes(r, NoTask) /\ strayed' = strayed \union {o.pod}
        <3>0. keyMishaps' \in 0..MaxKeyMishaps
            BY <1>2, <2>4, TenantFacts DEF RestIsTyped, KeyMishap
        <3>1. RestIsTyped'
            BY <1>2, <2>1, <2>4, <3>0, TenantFacts DEF RestIsTyped, keyState
        <3>2. task' = [task EXCEPT ![r] = NoTask]
            BY <2>4 DEF TaskBecomes
        <3> QED
            BY <1>3, <2>1, <2>4, <3>1, <3>2, QuietStep
    <2> QED
        BY <1>5, <2>2, <2>3, <2>4 DEF CreatesPod
<1>6. CASE MakesBox(r)
    <2> DEFINE w == [NoTask EXCEPT !.pc = "made", !.pod = o.pod]
    <2>1. /\ o.pc = "box" /\ o.pod \in Pods /\ ~AboutToWrite(o) /\ TakesKey(r, o.pod, w)
          /\ UNCHANGED <<keyFile, backups, envKey, keyState, serverPods, given, strayed, boxes, bound, unsettled, asked>>
        BY <1>1, <1>6 DEF MakesBox, TaskIsReal, AboutToWrite
    <2>2. w \in Tasks /\ w.pc = "made" /\ w.what = "none" /\ w.pod = o.pod
        BY <2>1, TenantFacts DEF Tasks, NoTask
    <2> HIDE DEF w, o
    <2>3. PICK k \in TenantKey \union {Keyless} :
            /\ keyMishaps' \in 0..MaxKeyMishaps /\ misled' \in {misled, misled \union {o.pod}}
            /\ k # Keyless => o.pod \in misled' \/ k = o.pod
            /\ task' = [task EXCEPT ![r] = IF k = Keyless THEN NoTask ELSE [w EXCEPT !.key = k]]
        BY <2>1, <2>2, TakesFacts
    <2>4. RestIsTyped'
        BY <1>2, <2>1, <2>3 DEF RestIsTyped, keyState
    <2>5. CASE k = Keyless
        <3>1. task' = [task EXCEPT ![r] = NoTask]
            BY <2>3, <2>5
        <3> QED
            BY <1>3, <2>1, <2>3, <2>4, <3>1, QuietStep DEF o
    <2>6. CASE k # Keyless
        <3> DEFINE e == [w EXCEPT !.key = k]
        <3>e. e \in Tasks /\ e.pc = "made" /\ e.what = "none" /\ e.pod = o.pod /\ e.key = k
            BY <2>2 DEF Tasks
        <3>1. PICK t \in Tasks : t = e /\ t.pc = "made" /\ t.what = "none" /\ t.pod = o.pod /\ t.key = k
            BY <3>e
        <3>2. task' = [task EXCEPT ![r] = t]
            BY <3>1, <2>3, <2>6
        <3>3. TaskIsReal(t)' /\ ~AboutToWrite(t)
            BY <2>1, <2>3, <2>6, <3>1 DEF TaskIsReal, AboutToWrite
        <3> QED
            BY <2>1, <2>3, <2>4, <3>1, <3>2, <3>3, QuietStep DEF o
    <2> QED
        BY <2>5, <2>6
<1> QED
    BY <1>4, <1>5, <1>6

\* The owner is asked; a task backs up what it will write over, or fails.
LEMMA TenantGoesOn ==
  ASSUME TenantInv, NEW r \in Requests, ReadsOwner(r) \/ BacksUp(r) \/ KeyTaskFails(r)
  PROVE  TenantInv'
<1> DEFINE o == task[r]
<1>1. o \in Tasks /\ TaskIsReal(o)
    BY TenantTypes DEF TenantInv, TasksAreReal
<1>2. RestIsTyped
    BY TypesSplit DEF TenantInv
<1>3. ~AboutToWrite(NoTask) /\ NoTask.pc = "rest" /\ NoTask \in Tasks /\ TaskIsReal(NoTask)'
    BY TenantFacts DEF NoTask, AboutToWrite, TaskIsReal
<1>4. CASE ReadsOwner(r)
    <2>1. /\ o.pc = "owner" /\ ~AboutToWrite(o)
          /\ UNCHANGED <<keyFile, backups, envKey, keyState, serverPods, given, strayed, misled, boxes, bound, asked,
                         keyMishaps>>
        BY <1>4 DEF ReadsOwner, AboutToWrite
    <2>2. CASE TaskBecomes(r, NoTask) /\ UNCHANGED unsettled
        <3>1. RestIsTyped'
            BY <1>2, <2>1, <2>2 DEF RestIsTyped, keyState
        <3> QED
            BY <1>3, <2>1, <2>2, <3>1, QuietStep DEF TaskBecomes
    <2>3. CASE o.what = "box" /\ TaskBecomes(r, [o EXCEPT !.pc = "box"]) /\ UNCHANGED unsettled
        <3> DEFINE e == [o EXCEPT !.pc = "box"]
        <3>e. e \in Tasks /\ e.pc = "box" /\ e.what = "box" /\ e.pod = o.pod
            BY <1>1, <2>3 DEF Tasks
        <3>1. PICK t \in Tasks : t = e /\ t.pc = "box" /\ t.what = "box" /\ t.pod = o.pod
            BY <3>e
        <3>2. task' = [task EXCEPT ![r] = t]
            BY <3>1, <2>3 DEF TaskBecomes
        <3>3. TaskIsReal(t)' /\ ~AboutToWrite(t)
            BY <1>1, <2>3, <3>1 DEF TaskIsReal, AboutToWrite
        <3>4. RestIsTyped'
            BY <1>2, <2>1, <2>3 DEF RestIsTyped, keyState
        <3> QED
            BY <2>1, <2>3, <3>1, <3>2, <3>3, <3>4, QuietStep
    <2>4. CASE /\ InstanceKey # Keyless /\ TaskBecomes(r, [o EXCEPT !.pc = "back", !.key = InstanceKey])
               /\ unsettled' = (unsettled \/ WritingLegacy # {} \/ InstanceKey # keyFile[Legacy])
        <3>0. PICK k \in TenantKey : k = InstanceKey
            BY <2>4, InstanceKeyType DEF TenantInv
        <3> DEFINE e == [o EXCEPT !.pc = "back", !.key = k]
        <3>e. e \in Tasks /\ e.pc = "back" /\ e.what = o.what /\ e.pod = o.pod /\ e.key = k
            BY <1>1 DEF Tasks
        <3>1. PICK t \in Tasks : t = e /\ t.pc = "back" /\ t.what = o.what /\ t.pod = o.pod /\ t.key = k
            BY <3>e
        <3>2. task' = [task EXCEPT ![r] = t]
            BY <3>1, <2>4, <3>0 DEF TaskBecomes
        <3>3. CASE o.what # "open"
            <4>1. TaskIsReal(t)'
                BY <1>1, <3>1, <3>3, TenantFacts DEF TaskIsReal
            <4>2. RestIsTyped'
                BY <1>2, <2>1, <2>4 DEF RestIsTyped, keyState
            <4>3. unsettled' \/ (WritingLegacy = {} /\ t.key = keyFile[Legacy])
                BY <2>4, <3>0, <3>1
            <4>4. unsettled => unsettled'
                BY <2>4
            <4> HIDE DEF o
            <4> QED
                BY <2>1, <3>1, <3>2, <4>1, <4>2, <4>3, <4>4, QuietStep DEF o
        <3> QED
            BY <1>1, <2>1, <3>3 DEF TaskIsReal
    <2> QED
        BY <1>4, <2>2, <2>3, <2>4 DEF ReadsOwner
<1>5. CASE BacksUp(r)
    <2>1. Target(r) \in KeyNames /\ o.pc = "back"
        BY <1>1, <1>5, TenantFacts DEF Target, TaskIsReal, BacksUp
    <2>2. PICK v \in TenantKey \union {Keyless} : v = keyFile[Target(r)]
        BY <2>1, TenantTypes DEF TenantInv
    <2> DEFINE e == [o EXCEPT !.pc = "write", !.was = v]
    <2>e. e \in Tasks /\ e.pc = "write" /\ e.what = o.what /\ e.pod = o.pod /\ e.key = o.key /\ e.was = v
        BY <1>1 DEF Tasks
    <2>3. PICK t \in Tasks : t = e /\ t.pc = "write" /\ t.what = o.what /\ t.pod = o.pod /\ t.key = o.key /\ t.was = v
        BY <2>e
    <2>4. /\ task' = [task EXCEPT ![r] = t]
          /\ UNCHANGED <<keyFile, envKey, keyState, serverPods, given, misled, boxes, bound, unsettled, asked>>
        BY <1>5, <2>2, <2>3 DEF BacksUp, TaskBecomes
    <2>5. NeedsBackup(r) <=> v \notin {Keyless, o.key}
        BY <2>2 DEF NeedsBackup
    <2>6. \/ backups' = backups \union (IF NeedsBackup(r) THEN {v} ELSE {}) /\ UNCHANGED <<strayed, keyMishaps>>
          \/ NeedsBackup(r) /\ KeyMishap /\ strayed' = strayed \union {v} /\ UNCHANGED backups
        BY <1>5, <2>2 DEF BacksUp
    <2>7. keyMishaps' \in 0..MaxKeyMishaps
        BY <1>2, <2>6, TenantFacts DEF RestIsTyped, KeyMishap
    <2>8. /\ backups \subseteq backups' /\ strayed \subseteq strayed'
          /\ backups' \subseteq TenantKey /\ strayed' \subseteq TenantKey
          /\ v \in backups' \union strayed' \union {Keyless, o.key}
        BY <1>2, <2>5, <2>6 DEF RestIsTyped
    <2>t. keyFile'[IF t.what = "open" THEN <<"own", t.pod>> ELSE Legacy] = v
        BY <2>2, <2>3, <2>4 DEF Target
    <2>9. TaskIsReal(t)'
        BY <1>1, <2>1, <2>3, <2>4, <2>8, <2>t DEF TaskIsReal
    <2>10. RestIsTyped'
        BY <1>2, <2>4, <2>7, <2>8 DEF RestIsTyped, keyState
    <2>11. (AboutToWrite(o) <=> AboutToWrite(t)) /\ (WritesItsOwn(o) => WritesItsOwn(t))
        BY <2>1, <2>3 DEF AboutToWrite, WritesItsOwn
    <2> HIDE DEF o
    <2> QED
        BY <2>1, <2>3, <2>4, <2>8, <2>9, <2>10, <2>11, QuietStep DEF o
<1>6. CASE KeyTaskFails(r)
    <2>1. /\ KeyMishap /\ task' = [task EXCEPT ![r] = NoTask]
          /\ strayed' = IF o.pc \in {"back", "write"} THEN strayed \union {o.key} ELSE strayed
          /\ unsettled' = (unsettled \/ (o.pc = "meta" /\ o.what = "bind"))
          /\ UNCHANGED <<keyFile, backups, envKey, keyState, serverPods, given, misled, boxes, bound, asked>>
        BY <1>6 DEF KeyTaskFails, TaskBecomes
    <2>2. o.pc \in {"back", "write"} => o.key \in TenantKey
        BY <1>1, TaskFields DEF TaskIsReal
    <2>m. keyMishaps' \in 0..MaxKeyMishaps
        BY <1>2, <2>1, TenantFacts DEF RestIsTyped, KeyMishap
    <2>3. strayed' \subseteq TenantKey /\ strayed \subseteq strayed' /\ keyMishaps' \in 0..MaxKeyMishaps
        BY <1>2, <2>1, <2>2, <2>m DEF RestIsTyped
    <2>4. unsettled' \in BOOLEAN /\ (unsettled => unsettled')
        BY <1>2, <2>1 DEF RestIsTyped
    <2>5. RestIsTyped'
        BY <1>2, <2>1, <2>3, <2>4 DEF RestIsTyped, keyState
    <2>6. o.pc \in {"back", "write"} => o.key \in strayed'
        BY <2>1
    <2>7. \/ unsettled' \/ ~AboutToWrite(o)
          \/ AboutToWrite(o) /\ ~(o.pc = "meta" /\ o.what = "bind")
        BY <2>1
    <2> HIDE DEF o
    <2> QED
        BY <1>3, <2>1, <2>3, <2>4, <2>5, <2>6, <2>7, QuietStep DEF o
<1> QED
    BY <1>4, <1>5, <1>6

LEMMA TenantWrites == ASSUME TenantInv, NEW r \in Requests, Writes(r) PROVE TenantInv'
<1> DEFINE o == task[r]
           n == IF o.what = "open" THEN <<"own", o.pod>> ELSE Legacy
<1>1. o \in Tasks /\ TaskIsReal(o) /\ o.pc = "write"
    BY TenantTypes DEF TenantInv, TasksAreReal, Writes
<1>2. RestIsTyped /\ task \in [Requests -> Tasks] /\ keyFile \in [KeyNames -> TenantKey \union {Keyless}]
    BY TypesSplit, TenantTypes DEF TenantInv
<1>3. n \in KeyNames /\ n = Target(r) /\ o.key \in TenantKey
      /\ (o.what = "open" => o.pod \in Pods)
    BY <1>1, TaskFields, TenantFacts DEF TaskIsReal, Target
<1>4. /\ keyFile' = [keyFile EXCEPT ![n] = o.key]
      /\ strayed' = IF keyFile[n] # o.was THEN strayed \union {keyFile[n]} ELSE strayed
      /\ unsettled' = IF o.what = "bind" THEN WritingLegacy # {r} ELSE unsettled
      /\ UNCHANGED <<backups, envKey, keyState, serverPods, given, misled, boxes, bound, asked, keyMishaps>>
    BY <1>3 DEF Writes
<1> DEFINE e == IF o.what = "open" THEN [o EXCEPT !.pc = "owner", !.what = "box"] ELSE [o EXCEPT !.pc = "meta"]
<1>e. /\ e \in Tasks /\ e.pod = o.pod /\ e.key = o.key
      /\ e.pc = IF o.what = "open" THEN "owner" ELSE "meta"
      /\ e.what = IF o.what = "open" THEN "box" ELSE o.what
    BY <1>1 DEF Tasks
<1>5. PICK t \in Tasks : /\ t = e /\ t.pod = o.pod /\ t.key = o.key
                         /\ t.pc = IF o.what = "open" THEN "owner" ELSE "meta"
                         /\ t.what = IF o.what = "open" THEN "box" ELSE o.what
    BY <1>e
<1>6. task' = [task EXCEPT ![r] = t]
    BY <1>5 DEF Writes, TaskBecomes
<1>7. PICK k \in TenantKey : k = o.key
    BY <1>3
<1>8. PICK m \in KeyNames : m = n
    BY <1>3
<1>9. \A q \in KeyNames : keyFile'[q] = IF q = m THEN k ELSE keyFile[q]
    BY <1>2, <1>4, <1>7, <1>8
<1>10. keyFile[m] # o.was => keyFile[m] # Keyless
    BY <1>1, <1>8 DEF TaskIsReal
<1>11. strayed \subseteq strayed' /\ strayed' \subseteq TenantKey
    BY <1>2, <1>4, <1>8, <1>10 DEF RestIsTyped
<1>12. TaskIsReal(t)'
    BY <1>1, <1>3, <1>5 DEF TaskIsReal
<1>13. task' \in [Requests -> Tasks] /\ TasksAreReal' /\ \A q \in Requests : task'[q] = IF q = r THEN t ELSE task[q]
    <2>1. \A q \in KeyNames : keyFile[q] # Keyless => keyFile'[q] # Keyless
        BY <1>9, TenantFacts
    <2> QED
        BY <1>4, <1>6, <1>11, <1>12, <2>1, TaskMoves
<1>14. KeysTypeOK'
    <2>1. unsettled' \in BOOLEAN
        BY <1>2, <1>4 DEF RestIsTyped
    <2>2. RestIsTyped'
        BY <1>2, <1>4, <1>11, <2>1 DEF RestIsTyped, keyState
    <2>3. keyFile' \in [KeyNames -> TenantKey \union {Keyless}]
        BY <1>2, <1>3, <1>4
    <2> QED
        BY <1>13, <2>2, <2>3 DEF KeysTypeOK, RestIsTyped, Tasks
<1>15. GivenKeysAreKept'
    <2>1. \A q \in KeyNames : keyFile'[q] # Keyless => keyFile'[q] \in OnDisk'
        BY DEF OnDisk, Stored
    <2>2. k \in OnDisk'
        BY <1>8, <1>9, <2>1, TenantFacts
    <2>3. backups \subseteq OnDisk'
        BY <1>4 DEF OnDisk
    <2>4. keyFile[m] # Keyless => keyFile[m] \in OnDisk' \union strayed'
        BY <1>1, <1>4, <1>7, <1>8, <2>2, <2>3 DEF TaskIsReal
    <2>5. OnDisk \subseteq OnDisk' \union strayed'
        <3>1. ASSUME NEW q \in KeyNames, keyFile[q] # Keyless PROVE keyFile[q] \in OnDisk' \union strayed'
            BY <1>9, <2>1, <2>4, <3>1
        <3> QED
            BY <2>3, <3>1 DEF OnDisk, Stored
    <2>6. HeldKeys \subseteq HeldKeys' \union {k}
        BY <1>7, <1>13 DEF HeldKeys
    <2> QED
        BY <1>4, <1>11, <2>2, <2>5, <2>6 DEF TenantInv, GivenKeysAreKept
<1>16. PodKeysAreExplained'
    <2> SUFFICES ASSUME NEW i \in Pods, i \notin misled
                 PROVE  keyFile'[<<"own", i>>] \in {i, Keyless} /\ \A b \in boxes : b[1] = i => b[2] = i
        BY <1>4 DEF PodKeysAreExplained
    <2>1. keyFile[<<"own", i>>] \in {i, Keyless} /\ \A b \in boxes : b[1] = i => b[2] = i
        BY DEF TenantInv, PodKeysAreExplained
    <2>2. m = <<"own", i>> => k = i
        <3>1. m = <<"own", i>> => o.what = "open" /\ o.pod = i
            BY <1>3, <1>8, TenantFacts
        <3> QED
            BY <1>1, <1>7, <3>1 DEF TaskIsReal
    <2> QED
        BY <1>9, <2>1, <2>2, TenantFacts
<1>17. DshKeyIsSettled'
    <2> SUFFICES ASSUME ~unsettled'
                 PROVE  /\ \A p, q \in WritingLegacy' : p = q
                        /\ \A q \in WritingLegacy' : WritesItsOwn(task[q])'
                        /\ WritingLegacy' = {} /\ bound # Keyless => keyFile'[Legacy] = bound
        BY <1>4 DEF DshKeyIsSettled
    <2>1. /\ \A q : q \in WritingLegacy <=> q \in Requests /\ AboutToWrite(task[q])
          /\ \A q : q \in WritingLegacy' <=> q \in Requests /\ IF q = r THEN AboutToWrite(t) ELSE q \in WritingLegacy
        BY <1>6, WritingFacts
    <2>2. CASE o.what = "open"
        <3>1. ~unsettled /\ ~AboutToWrite(o) /\ ~AboutToWrite(t)
            BY <1>4, <1>5, <2>2 DEF AboutToWrite
        <3>2. keyFile'[Legacy] = keyFile[Legacy]
            BY <1>3, <1>8, <1>9, <2>2, TenantFacts
        <3>3. /\ \A p, q \in WritingLegacy : p = q
              /\ \A q \in WritingLegacy : WritesItsOwn(task[q])
              /\ WritingLegacy = {} /\ bound # Keyless => keyFile[Legacy] = bound
            BY <3>1 DEF TenantInv, DshKeyIsSettled
        <3>4. WritingLegacy' = WritingLegacy /\ \A q \in WritingLegacy : q # r
            BY <2>1, <3>1
        <3>5. ASSUME NEW q \in WritingLegacy PROVE WritesItsOwn(task[q])'
            <4>1. task'[q] = task[q] /\ WritesItsOwn(task[q])
                BY <1>13, <2>1, <3>3, <3>4
            <4> QED
                BY <1>4, <3>2, <4>1 DEF WritesItsOwn
        <3> QED
            BY <3>2, <3>3, <3>4, <3>5
    <2>3. CASE o.what # "open"
        <3>1. r \in WritingLegacy /\ r \in WritingLegacy' /\ m = Legacy
            BY <1>1, <1>5, <1>8, <2>1, <2>3 DEF AboutToWrite
        <3>2. keyFile'[Legacy] = k
            BY <1>9, <3>1, TenantFacts
        <3>3. \A q \in WritingLegacy : q = r
            BY <1>4, <3>1 DEF TenantInv, DshKeyIsSettled
        <3>4. \A q \in WritingLegacy' : q = r
            BY <2>1, <3>3
        <3>5. WritesItsOwn(task[r])'
            <4>1. task'[r] = t /\ t.key = k /\ t.pc = "meta" /\ t.what = o.what
                BY <1>5, <1>7, <1>13, <2>3
            <4>2. o.what # "bind" => (bound # Keyless => k = bound)
                BY <1>1, <1>4, <1>7, <3>1 DEF TenantInv, DshKeyIsSettled, WritesItsOwn
            <4> QED
                BY <1>4, <3>2, <4>1, <4>2 DEF WritesItsOwn
        <3> QED
            BY <3>1, <3>4, <3>5
    <2> QED
        BY <2>2, <2>3
<1> QED
    BY <1>13, <1>14, <1>15, <1>16, <1>17 DEF TenantInv

LEMMA TenantEnds == ASSUME TenantInv, NEW r \in Requests, WritesOwner(r) \/ BoxIsMade(r) PROVE TenantInv'
<1> DEFINE o == task[r]
<1>1. o \in Tasks /\ TaskIsReal(o)
    BY TenantTypes DEF TenantInv, TasksAreReal
<1>2. RestIsTyped /\ keyFile \in [KeyNames -> TenantKey \union {Keyless}]
    BY TypesSplit, TenantTypes DEF TenantInv
<1>3. ~AboutToWrite(NoTask) /\ NoTask.pc = "rest" /\ NoTask \in Tasks /\ TaskIsReal(NoTask)'
    BY TenantFacts DEF NoTask, AboutToWrite, TaskIsReal
<1>4. CASE WritesOwner(r)
    <2>1. /\ o.pc = "meta" /\ o.what # "open" /\ o.key \in TenantKey
          /\ owner' \in {o.key, Keyless}
          /\ bound' = IF o.what = "bind" THEN o.key ELSE bound
          /\ UNCHANGED <<keyFile, backups, envKey, orgBound, ownPod, serverPods, given, strayed, misled, boxes,
                         unsettled, asked, keyMishaps>>
        BY <1>1, <1>4, TaskFields DEF WritesOwner, TaskIsReal
    <2> DEFINE e == IF o.what = "box" THEN [o EXCEPT !.pc = "box"] ELSE NoTask
    <2>e. /\ e \in Tasks /\ e.pc \in {"box", "rest"}
          /\ e.pc = "box" => e.what = "box" /\ o.what = "box" /\ e.pod = o.pod
          /\ e.pc = "rest" => e = NoTask
        BY <1>1, <1>3 DEF Tasks
    <2>2. PICK t \in Tasks : /\ t = e /\ t.pc \in {"box", "rest"}
                             /\ t.pc = "box" => t.what = "box" /\ o.what = "box" /\ t.pod = o.pod
                             /\ t.pc = "rest" => t = NoTask
        BY <2>e
    <2>3. task' = [task EXCEPT ![r] = t]
        BY <1>4, <2>2 DEF WritesOwner, TaskBecomes
    <2> HIDE DEF e
    <2>4. TaskIsReal(t)' /\ ~AboutToWrite(t)
        <3>1. CASE t.pc = "rest"
            BY <1>3, <2>2, <3>1
        <3>2. CASE t.pc = "box"
            BY <1>1, <2>2, <3>2 DEF TaskIsReal, AboutToWrite
        <3> QED
            BY <2>2, <3>1, <3>2
    <2>5. RestIsTyped'
        BY <1>2, <2>1, TenantFacts DEF RestIsTyped
    <2>6. task' \in [Requests -> Tasks] /\ TasksAreReal'
        BY <2>1, <2>3, <2>4, TaskMoves
    <2>7. KeysTypeOK'
        BY <1>2, <2>1, <2>5, <2>6 DEF KeysTypeOK, RestIsTyped, Tasks
    <2>8. GivenKeysAreKept'
        BY <2>1, <2>3, HeldStays
    <2>9. PodKeysAreExplained'
        BY <2>1, PodKeysStay
    <2>10. DshKeyIsSettled'
        <3>1. /\ \A q : q \in WritingLegacy <=> q \in Requests /\ AboutToWrite(task[q])
              /\ \A q : q \in WritingLegacy' <=> q \in Requests /\ IF q = r THEN AboutToWrite(t) ELSE q \in WritingLegacy
            BY <2>3, WritingFacts
        <3>2. r \in WritingLegacy
            BY <2>1, <3>1 DEF AboutToWrite
        <3>3. CASE ~unsettled
            <4>1. (\A p, q \in WritingLegacy : p = q) /\ WritesItsOwn(o)
                BY <3>2, <3>3 DEF TenantInv, DshKeyIsSettled
            <4>2. WritingLegacy' = {}
                BY <2>4, <3>1, <3>2, <4>1
            <4>3. bound' # Keyless => keyFile[Legacy] = bound'
                BY <2>1, <4>1 DEF WritesItsOwn
            <4> QED
                BY <2>1, <4>2, <4>3 DEF DshKeyIsSettled
        <3> QED
            BY <2>1, <3>3 DEF DshKeyIsSettled
    <2> QED
        BY <2>6, <2>7, <2>8, <2>9, <2>10 DEF TenantInv
<1>5. CASE BoxIsMade(r)
    <2>1. /\ o.pc = "made" /\ boxes' = boxes \union {<<o.pod, o.key>>} /\ task' = [task EXCEPT ![r] = NoTask]
          /\ UNCHANGED <<keyFile, backups, envKey, keyState, serverPods, given, strayed, misled, bound, unsettled,
                         asked, keyMishaps>>
        BY <1>5 DEF BoxIsMade, TaskBecomes
    <2>2. o.pod \in Pods /\ o.key \in TenantKey /\ (o.pod \in misled \/ o.key = o.pod)
        BY <1>1, <2>1, TaskFields DEF TaskIsReal
    <2>3. RestIsTyped'
        BY <1>2, <2>1, <2>2 DEF RestIsTyped, keyState
    <2>4. task' \in [Requests -> Tasks] /\ TasksAreReal'
        BY <1>3, <2>1, TaskMoves
    <2>5. KeysTypeOK'
        BY <1>2, <2>1, <2>3, <2>4 DEF KeysTypeOK, RestIsTyped, Tasks
    <2>6. GivenKeysAreKept'
        BY <1>3, <2>1, HeldStays
    <2>7. PodKeysAreExplained'
        <3> HIDE DEF o
        <3> QED
            BY <2>1, <2>2 DEF TenantInv, PodKeysAreExplained
    <2>8. DshKeyIsSettled'
        <3>1. ~AboutToWrite(o)
            BY <2>1 DEF AboutToWrite
        <3> QED
            BY <1>3, <2>1, <3>1, SettledStays
    <2> QED
        BY <2>4, <2>5, <2>6, <2>7, <2>8 DEF TenantInv
<1> QED
    BY <1>4, <1>5

LEMMA TenantStays ==
  ASSUME TenantInv, RestIsTyped',
         UNCHANGED <<keyFile, backups, task, given, strayed, misled, boxes, bound, unsettled>>
  PROVE  TenantInv'
<1>1. KeysTypeOK'
    BY DEF TenantInv, KeysTypeOK, RestIsTyped
<1>2. TasksAreReal'
    BY DEF TenantInv, TasksAreReal, TaskIsReal
<1>3. GivenKeysAreKept' /\ PodKeysAreExplained'
    BY DEF TenantInv, GivenKeysAreKept, PodKeysAreExplained, OnDisk, Stored, HeldKeys
<1>4. DshKeyIsSettled'
    BY DEF TenantInv, DshKeyIsSettled, WritingLegacy, WritesItsOwn
<1> QED
    BY <1>1, <1>2, <1>3, <1>4 DEF TenantInv

LEMMA TenantStep == TenantInv /\ [KeysNext]_keysVars => TenantInv'
<1> SUFFICES ASSUME TenantInv, [KeysNext]_keysVars PROVE TenantInv'
    OBVIOUS
<1>1. RestIsTyped
    BY TypesSplit DEF TenantInv
<1>2. CASE BindsOrg
    <2>1. RestIsTyped'
        BY <1>1, <1>2, TenantFacts DEF BindsOrg, RestIsTyped, keyHistory
    <2> QED
        BY <1>2, <2>1, TenantStays DEF BindsOrg, keyHistory
<1>3. CASE UNCHANGED keysVars
    <2>1. RestIsTyped'
        BY <1>1, <1>3 DEF keysVars, RestIsTyped
    <2> QED
        BY <1>3, <2>1, TenantStays DEF keysVars
<1> QED
    BY <1>2, <1>3, TenantBegins, TenantTakes, TenantGoesOn, TenantWrites, TenantEnds DEF KeysNext

LEMMA TenantInvHolds == KeysSpec => []TenantInv
BY TenantInit, TenantStep, PTL DEF KeysSpec

THEOREM TenantTypesHold == KeysSpec => []KeysTypeOK
<1>1. TenantInv => KeysTypeOK
    BY DEF TenantInv
<1> QED
    BY <1>1, TenantInvHolds, PTL

\* However many requests bind, probe and open pods at once: a key the server gives once is on disk
\* or in hand but for the named windows; a pod's file and mailboxes are its own unless a key was
\* taken on trust; and dsh.key is what was bound last unless another writer was about
\* (writeTenantKey, readTenantKeyForPod, ownerContext).
THEOREM KeysHaveReasons == KeysSpec => []KeysAreExplained
<1>1. TenantInv => KeysAreExplained
    <2>1. TenantInv => BindingsAreExplained
        BY DEF TenantInv, DshKeyIsSettled, BindingsAreExplained
    <2> QED
        BY <2>1 DEF TenantInv, KeysAreExplained
<1> QED
    BY <1>1, TenantInvHolds, PTL

-----------------------------------------------------------------------------
(* The cache of resolved addresses.                                        *)

\* The Map holds every record that is kept, and each once.
MapIsKept == /\ ToSet(order) = {p \in Peers : kept[p] # NothingKept}
             /\ IsInjective(order)

\* A record is of an address there is, and was read at most a timeout before it was stored.
RecordIsReal(p) == /\ p \in exists
                   /\ 0 <= kept[p].asOf /\ kept[p].asOf <= kept[p].at
                   /\ kept[p].at <= time /\ kept[p].at <= kept[p].asOf + Patience
RecordsAreReal == \A p \in Peers : kept[p] # NothingKept => RecordIsReal(p)

\* A request under way is within its timeout, and what it brings back was so meanwhile.
AskIsTimely(r) ==
  /\ r.pc # "rest" => 0 <= r.since /\ r.since <= time /\ time <= r.since + Patience
  /\ r.pc = "back" => r.since <= r.asOf /\ r.asOf <= time /\ (r.found => r.peer \in exists)
AsksAreTimely == \A a \in Askers : AskIsTimely(ask[a])

CacheInv == CacheTypeOK /\ MapIsKept /\ RecordsAreReal /\ AsksAreTimely /\ got.age < Ttl + Patience

LEMMA CacheFacts == /\ Ttl \in Nat /\ Ttl > 0 /\ Patience \in Nat /\ Patience > 0 /\ MaxTime \in Nat
                    /\ Places \in Nat /\ Places > 0 /\ Never = 0 - 1 /\ 0 \in Never..MaxTime
BY CacheAssumption DEF Never

\* A key that is in the Map once goes to its end, and the others keep their order.
LEMMA MovedFacts ==
  ASSUME order \in Seq(Peers), IsInjective(order), NEW p \in ToSet(order)
  PROVE  /\ MovedToEnd(p) \in Seq(Peers) /\ Len(MovedToEnd(p)) = Len(order)
         /\ ToSet(MovedToEnd(p)) = ToSet(order) /\ IsInjective(MovedToEnd(p))
<1> DEFINE n == Len(order)
<1>1. /\ n \in Nat /\ DOMAIN order = 1..n /\ \A i \in 1..n : order[i] \in Peers
    BY LenProperties
<1>2. PICK i \in 1..n : order[i] = p
    BY <1>1 DEF ToSet
<1>3. {j \in 1..Len(order) : order[j] = p} = {i}
    BY <1>1, <1>2 DEF IsInjective
<1>4. Min({i}) = i
    BY <1>2 DEF Min
<1>5. SelectInSeq(order, LAMBDA v : v = p) = i
    BY <1>3, <1>4 DEF SelectInSeq
<1>6. RemoveFirst(order, p) = SubSeq(order, 1, i - 1) \o SubSeq(order, i + 1, n)
    BY <1>2, <1>5 DEF RemoveFirst, RemoveAt
<1> DEFINE l == SubSeq(order, 1, i - 1)
           r == SubSeq(order, i + 1, n)
           s == l \o r
           t == Append(s, p)
<1>7. i - 1 \in Int /\ i + 1 \in Int /\ n \in Int /\ 1 \in Int /\ i \in Nat /\ i >= 1 /\ i <= n
    BY <1>1, <1>2
<1>8. /\ l \in Seq(Peers) /\ Len(l) = i - 1 /\ \A k \in 1..i - 1 : l[k] = order[k]
    <2>1. \A k \in 1..i - 1 : order[k] \in Peers
        BY <1>1, <1>7
    <2> QED
        BY <1>7, <2>1, SubSeqProperties
<1>9. /\ r \in Seq(Peers) /\ Len(r) = n - i /\ \A k \in 1..n - i : r[k] = order[k + i]
    <2>1. \A k \in i + 1..n : order[k] \in Peers
        BY <1>1, <1>7
    <2>2. /\ r \in Seq(Peers) /\ Len(r) = IF i + 1 <= n THEN n - (i + 1) + 1 ELSE 0
          /\ \A k \in 1..n - (i + 1) + 1 : r[k] = order[i + 1 + k - 1]
        BY <1>7, <2>1, SubSeqProperties
    <2> HIDE DEF r
    <2>3. Len(r) = n - i
        BY <1>7, <2>2
    <2>4. ASSUME NEW k \in 1..n - i PROVE r[k] = order[k + i]
        <3>1. k \in 1..n - (i + 1) + 1 /\ i + 1 + k - 1 = k + i
            BY <1>7
        <3> QED
            BY <2>2, <3>1
    <2> QED
        BY <2>2, <2>3, <2>4
<1> HIDE DEF n, l, r
<1>10. /\ s \in Seq(Peers) /\ Len(s) = n - 1
       /\ \A k \in 1..n - 1 : s[k] = IF k <= i - 1 THEN l[k] ELSE r[k - (i - 1)]
    <2>1. Len(l) + Len(r) = n - 1
        BY <1>7, <1>8, <1>9
    <2> QED
        BY <1>8, <1>9, <2>1, ConcatProperties
<1> HIDE DEF s
<1>11. p \in Peers
    BY <1>1, <1>2
<1>12. /\ t \in Seq(Peers) /\ Len(t) = n /\ t[n] = p
       /\ \A k \in 1..n - 1 : t[k] = s[k]
    BY <1>7, <1>10, <1>11, AppendProperties
<1> HIDE DEF t
<1>13. \A k \in 1..i - 1 : t[k] = order[k]
    BY <1>7, <1>8, <1>10, <1>12
<1>14. ASSUME NEW k \in i..n - 1 PROVE t[k] = order[k + 1]
    <2>1. k \in 1..n - 1 /\ ~(k <= i - 1) /\ k - (i - 1) \in 1..n - i /\ k - (i - 1) + i = k + 1
        BY <1>7
    <2> QED
        BY <1>9, <1>10, <1>12, <2>1
<1>15. MovedToEnd(p) = t
    BY <1>6 DEF MovedToEnd, t, s, l, r, n
<1>16. DOMAIN t = 1..n /\ DOMAIN order = 1..n
    BY <1>1, <1>12, LenProperties
\* Where a place of the new order comes from.
<1> DEFINE from(k) == IF k < i THEN k ELSE IF k < n THEN k + 1 ELSE i
<1>17. ASSUME NEW k \in 1..n PROVE from(k) \in 1..n /\ t[k] = order[from(k)]
    <2>1. CASE k < i
        BY <1>7, <1>13, <2>1
    <2>2. CASE ~(k < i) /\ k < n
        BY <1>7, <1>14, <2>2
    <2>3. CASE k = n
        BY <1>2, <1>7, <1>12, <2>3
    <2> QED
        BY <1>7, <2>1, <2>2, <2>3
<1>18. \A j, k \in 1..n : from(j) = from(k) => j = k
    BY <1>7
<1>19. ASSUME NEW j \in 1..n PROVE \E k \in 1..n : from(k) = j
    <2>1. CASE j < i
        BY <1>7, <2>1
    <2>2. CASE j = i
        BY <1>7, <2>2
    <2>3. CASE j > i
        <3>1. j - 1 \in 1..n /\ from(j - 1) = j
            BY <1>7, <2>3
        <3> QED
            BY <3>1
    <2> QED
        BY <1>7, <2>1, <2>2, <2>3
<1> HIDE DEF from
<1>20. IsInjective(t)
    BY <1>16, <1>17, <1>18 DEF IsInjective
<1>21. ToSet(t) = ToSet(order)
    <2>1. ASSUME NEW x \in ToSet(t) PROVE x \in ToSet(order)
        BY <1>16, <1>17 DEF ToSet
    <2>2. ASSUME NEW x \in ToSet(order) PROVE x \in ToSet(t)
        <3>1. PICK j \in 1..n : x = order[j]
            BY <1>16 DEF ToSet
        <3>2. PICK k \in 1..n : from(k) = j
            BY <1>19
        <3> QED
            BY <1>16, <1>17, <3>1, <3>2 DEF ToSet
    <2> QED
        BY <2>1, <2>2
<1> QED
    BY <1>12, <1>15, <1>20, <1>21 DEF n

\* A new key goes to the end.
LEMMA PlacedFacts ==
  ASSUME order \in Seq(Peers), IsInjective(order), NEW p \in Peers
  PROVE  /\ Placed(p) \in Seq(Peers) /\ Len(Placed(p)) <= Len(order) + 1
         /\ ToSet(Placed(p)) = ToSet(order) \union {p} /\ IsInjective(Placed(p))
         /\ Placed(p) # <<>>
<1> DEFINE n == Len(order)
           t == Append(order, p)
<1>1. n \in Nat /\ DOMAIN order = 1..n
    BY LenProperties
<1>2. CASE p \in ToSet(order)
    <2>1. Placed(p) = order /\ order # <<>>
        BY <1>2 DEF Placed, ToSet
    <2> QED
        BY <1>1, <1>2, <2>1
<1>3. CASE p \notin ToSet(order)
    <2>1. /\ t \in Seq(Peers) /\ Len(t) = n + 1 /\ t[n + 1] = p /\ \A k \in 1..n : t[k] = order[k]
        BY AppendProperties
    <2>2. Placed(p) = t
        BY <1>3 DEF Placed
    <2> HIDE DEF t
    <2>3. DOMAIN t = 1..n + 1 /\ 1..n + 1 = (1..n) \union {n + 1} /\ n + 1 \notin 1..n
        BY <1>1, <2>1, LenProperties
    <2> HIDE DEF n
    <2>4. ToSet(t) = ToSet(order) \union {p}
        BY <1>1, <2>1, <2>3 DEF ToSet
    <2>5. IsInjective(t)
        BY <1>1, <1>3, <2>1, <2>3 DEF IsInjective, ToSet
    <2>6. t # <<>>
        BY <1>1, <2>1
    <2> QED
        BY <1>1, <2>1, <2>2, <2>4, <2>5, <2>6 DEF n
<1> QED
    BY <1>2, <1>3

\* The first key goes.
LEMMA TailFacts ==
  ASSUME NEW s \in Seq(Peers), IsInjective(s), s # <<>>
  PROVE  /\ Head(s) \in Peers /\ Tail(s) \in Seq(Peers) /\ Len(Tail(s)) = Len(s) - 1
         /\ ToSet(Tail(s)) = ToSet(s) \ {Head(s)} /\ Head(s) \in ToSet(s) /\ IsInjective(Tail(s))
<1> DEFINE n == Len(s)
           t == Tail(s)
<1>1. /\ Head(s) \in Peers /\ t \in Seq(Peers) /\ Len(t) = n - 1
      /\ \A i \in 1..Len(t) : t[i] = s[i + 1]
    BY HeadTailProperties
<1>2. n \in Nat /\ n > 0 /\ DOMAIN s = 1..n /\ Head(s) = s[1]
    BY EmptySeq, LenProperties
<1> HIDE DEF t
<1>3. DOMAIN t = 1..n - 1 /\ \A i \in 1..n - 1 : t[i] = s[i + 1] /\ i + 1 \in 2..n
    BY <1>1, <1>2, LenProperties
<1> HIDE DEF n
<1>4. 1 \in 1..n /\ \A i, j \in 1..n : s[i] = s[j] => i = j
    BY <1>2 DEF IsInjective
<1>5. IsInjective(t)
    BY <1>2, <1>3, <1>4 DEF IsInjective
<1>6. ASSUME NEW x \in ToSet(t) PROVE x \in ToSet(s) /\ x # Head(s)
    <2>1. PICK i \in 1..n - 1 : x = s[i + 1]
        BY <1>3, <1>6 DEF ToSet
    <2>2. i + 1 \in 1..n /\ i + 1 # 1
        BY <1>2
    <2> QED
        BY <1>2, <1>4, <2>1, <2>2 DEF ToSet
<1>7. ASSUME NEW x \in ToSet(s), x # Head(s) PROVE x \in ToSet(t)
    <2>1. PICK i \in 1..n : x = s[i]
        BY <1>2 DEF ToSet
    <2>2. i - 1 \in 1..n - 1 /\ (i - 1) + 1 = i
        BY <1>2, <1>7, <2>1
    <2>3. x = t[i - 1]
        BY <1>3, <2>1, <2>2
    <2> QED
        BY <1>3, <2>2, <2>3 DEF ToSet
<1>8. Head(s) \in ToSet(s)
    BY <1>2, <1>4 DEF ToSet
<1> QED
    BY <1>1, <1>5, <1>6, <1>7, <1>8 DEF t, n

LEMMA CacheInvInit == CacheInit => CacheInv
<1> SUFFICES ASSUME CacheInit PROVE CacheInv
    OBVIOUS
<1> USE DEF CacheInit
<1>1. NotAsking \in [pc : {"rest", "sent", "back"}, peer : Peers \union {NoPeer}, since : Never..MaxTime,
                     found : BOOLEAN, asOf : Never..MaxTime]
    BY CacheFacts DEF NotAsking
<1>2. NothingKept \in [at : Never..MaxTime, asOf : Never..MaxTime]
    BY CacheFacts DEF NothingKept
<1>3. NoAnswer \in [age : 0..MaxTime, evicted : BOOLEAN] /\ NoAnswer.age = 0
    BY CacheFacts DEF NoAnswer
<1>4. CacheTypeOK
    BY <1>1, <1>2, <1>3, CacheFacts, EmptySeq DEF CacheTypeOK
<1>5. MapIsKept
    BY DEF MapIsKept, ToSet, IsInjective
<1>6. RecordsAreReal /\ AsksAreTimely
    BY DEF RecordsAreReal, AsksAreTimely, AskIsTimely, NotAsking
<1>7. got.age < Ttl + Patience
    BY <1>3, CacheFacts
<1> QED
    BY <1>4, <1>5, <1>6, <1>7 DEF CacheInv

\* What is in the cache stays real as addresses appear and time passes.
LEMMA CacheStays ==
  ASSUME CacheInv, time' = time \/ time' = time + 1, exists \subseteq exists', UNCHANGED <<order, kept>>
  PROVE  MapIsKept' /\ RecordsAreReal'
<1>1. MapIsKept'
    BY DEF CacheInv, MapIsKept
<1>2. ASSUME NEW p \in Peers, kept[p] # NothingKept PROVE RecordIsReal(p)'
    BY <1>2, CacheFacts DEF CacheInv, CacheTypeOK, RecordsAreReal, RecordIsReal
<1> QED
    BY <1>1, <1>2 DEF RecordsAreReal

LEMMA CacheStep == ASSUME CacheInv, CacheNext PROVE CacheInv'
<1> USE CacheFacts
<1>0. /\ time \in Nat /\ time <= MaxTime /\ exists \subseteq Peers /\ exists \in SUBSET Peers
      /\ order \in Seq(Peers) /\ Len(order) \in Nat /\ Len(order) <= Places
      /\ got \in [age : 0..MaxTime, evicted : BOOLEAN] /\ got.age < Ttl + Patience
    BY LenProperties DEF CacheInv, CacheTypeOK
<1>a. ASSUME NEW a \in Askers
      PROVE  /\ ask[a].pc \in {"rest", "sent", "back"} /\ ask[a].peer \in Peers \union {NoPeer}
             /\ ask[a].since \in Int /\ ask[a].asOf \in Int /\ ask[a].found \in BOOLEAN
             /\ ask[a] \in [pc : {"rest", "sent", "back"}, peer : Peers \union {NoPeer}, since : Never..MaxTime,
                            found : BOOLEAN, asOf : Never..MaxTime]
             /\ AskIsTimely(ask[a])
    BY DEF CacheInv, CacheTypeOK, AsksAreTimely
<1>k. ASSUME NEW p \in Peers
      PROVE  /\ kept[p] \in [at : Never..MaxTime, asOf : Never..MaxTime]
             /\ kept[p].at \in Int /\ kept[p].asOf \in Int
             /\ kept[p] # NothingKept => RecordIsReal(p)
    BY DEF CacheInv, CacheTypeOK, RecordsAreReal
<1>1. ASSUME PeerRegisters PROVE CacheInv'
    <2> USE <1>1 DEF PeerRegisters
    <2>1. exists \subseteq exists' /\ exists' \subseteq Peers /\ time' = time
        BY <1>0
    <2>2. AsksAreTimely'
        BY <1>a, <2>1 DEF AsksAreTimely, AskIsTimely
    <2> QED
        BY <1>0, <2>1, <2>2, CacheStays DEF CacheInv, CacheTypeOK
<1>2. ASSUME Ticks PROVE CacheInv'
    <2> USE <1>2 DEF Ticks
    <2>1. time' \in 0..MaxTime /\ time' = time + 1
        BY <1>0
    <2>2. AsksAreTimely'
        BY <1>0, <1>a, <2>1 DEF AsksAreTimely, AskIsTimely
    <2>3. UNCHANGED <<exists, order, kept, ask, got>>
        OBVIOUS
    <2>4. MapIsKept' /\ RecordsAreReal'
        BY <2>1, <2>3, CacheStays
    <2>5. CacheTypeOK'
        BY <2>1, <2>3 DEF CacheInv, CacheTypeOK
    <2> QED
        BY <1>0, <2>2, <2>3, <2>4, <2>5 DEF CacheInv
<1>3. ASSUME NEW a \in Askers, NEW p \in Peers, ResolvesPeer(a, p) PROVE CacheInv'
    <2>1. CASE Fresh(p)
        <3>1. /\ order' = MovedToEnd(p) /\ kept' = kept /\ used' = [used EXCEPT ![p] = time]
              /\ got' = [NoAnswer EXCEPT !.age = time - kept[p].asOf]
              /\ UNCHANGED <<ask, time, exists>>
            BY <1>3, <2>1 DEF ResolvesPeer, AfterHit
        <3>2. kept[p] # NothingKept /\ time - kept[p].at < Ttl /\ RecordIsReal(p)
            BY <1>k, <2>1 DEF Fresh
        <3>3. p \in ToSet(order)
            BY <3>2 DEF CacheInv, MapIsKept
        <3>4. /\ order' \in Seq(Peers) /\ Len(order') = Len(order)
              /\ ToSet(order') = ToSet(order) /\ IsInjective(order')
            BY <1>0, <3>1, <3>3, MovedFacts DEF CacheInv, MapIsKept
        <3>5. got' \in [age : 0..MaxTime, evicted : BOOLEAN] /\ got'.age < Ttl + Patience
            <4>1. /\ time - kept[p].asOf \in 0..MaxTime
                  /\ time - kept[p].asOf < Ttl + Patience
                BY <1>0, <1>k, <3>2, SMTT(30) DEF RecordIsReal
            <4>2. got' = [age |-> time - kept[p].asOf, evicted |-> FALSE]
                BY <3>1 DEF NoAnswer
            <4> QED
                BY <4>1, <4>2
        <3>6. used' \in [Peers -> Never..MaxTime]
            BY <1>0, <3>1 DEF CacheInv, CacheTypeOK
        <3>7. CacheTypeOK'
            BY <1>0, <3>1, <3>4, <3>5, <3>6 DEF CacheInv, CacheTypeOK
        <3>8. MapIsKept'
            BY <3>1, <3>4 DEF CacheInv, MapIsKept
        <3>9. RecordsAreReal' /\ AsksAreTimely'
            BY <3>1 DEF CacheInv, RecordsAreReal, RecordIsReal, AsksAreTimely, AskIsTimely
        <3> QED
            BY <3>5, <3>7, <3>8, <3>9 DEF CacheInv
    <2>2. CASE ~Fresh(p)
        <3> DEFINE r == [pc |-> "sent", peer |-> p, since |-> time, found |-> FALSE, asOf |-> Never]
        <3>1. ask' = [ask EXCEPT ![a] = r] /\ UNCHANGED <<order, kept, used, got, time, exists>>
            BY <1>3, <2>2 DEF ResolvesPeer, NotAsking
        <3>2. /\ r \in [pc : {"rest", "sent", "back"}, peer : Peers \union {NoPeer}, since : Never..MaxTime,
                        found : BOOLEAN, asOf : Never..MaxTime]
              /\ AskIsTimely(r)
            BY <1>0 DEF AskIsTimely
        <3> HIDE DEF r
        <3>3. CacheTypeOK'
            BY <3>1, <3>2 DEF CacheInv, CacheTypeOK
        <3>4. AsksAreTimely'
            BY <3>1, <3>2 DEF CacheInv, CacheTypeOK, AsksAreTimely, AskIsTimely
        <3> QED
            BY <1>0, <3>1, <3>3, <3>4, CacheStays DEF CacheInv
    <2> QED
        BY <2>1, <2>2
<1>4. ASSUME NEW a \in Askers, ServerAnswers(a) PROVE CacheInv'
    <2> DEFINE r == [pc |-> "back", peer |-> ask[a].peer, since |-> ask[a].since,
                     found |-> ask[a].peer \in exists, asOf |-> time]
    <2>1. UNCHANGED <<time, exists, order, kept, used, got>> /\ ask[a].pc = "sent"
        BY <1>4 DEF ServerAnswers
    <2>2. ask' = [ask EXCEPT ![a] = r]
        <3> DEFINE f == [ask EXCEPT ![a].pc = "back", ![a].found = ask[a].peer \in exists, ![a].asOf = time]
                   g == [ask EXCEPT ![a] = r]
        <3>1. f[a] = r /\ \A b \in Askers \ {a} : f[b] = ask[b]
            BY <1>a DEF CacheInv, CacheTypeOK
        <3>2. DOMAIN f = Askers /\ DOMAIN g = Askers /\ g[a] = r /\ \A b \in Askers \ {a} : g[b] = ask[b]
            BY DEF CacheInv, CacheTypeOK
        <3> QED
            BY <1>4, <3>1, <3>2 DEF ServerAnswers
    <2>3. /\ r \in [pc : {"rest", "sent", "back"}, peer : Peers \union {NoPeer}, since : Never..MaxTime,
                    found : BOOLEAN, asOf : Never..MaxTime]
          /\ AskIsTimely(r)
        <3>1. ask[a].since \in Never..MaxTime /\ time \in Never..MaxTime
            BY <1>0, <1>a
        <3>2. /\ r.pc = "back" /\ r.since = ask[a].since /\ r.asOf = time /\ r.peer = ask[a].peer
              /\ r.found => ask[a].peer \in exists
            OBVIOUS
        <3>3. AskIsTimely(r)
            <4> HIDE DEF r
            <4> QED
                BY <1>0, <1>a, <2>1, <3>2 DEF AskIsTimely
        <3>4. r \in [pc : {"rest", "sent", "back"}, peer : Peers \union {NoPeer}, since : Never..MaxTime,
                     found : BOOLEAN, asOf : Never..MaxTime]
            <4>1. ASSUME NEW c \in BOOLEAN
                  PROVE  [pc |-> "back", peer |-> ask[a].peer, since |-> ask[a].since, found |-> c, asOf |-> time]
                           \in [pc : {"rest", "sent", "back"}, peer : Peers \union {NoPeer}, since : Never..MaxTime,
                               found : BOOLEAN, asOf : Never..MaxTime]
                BY <1>a, <3>1
            <4>2. (ask[a].peer \in exists) = TRUE \/ (ask[a].peer \in exists) = FALSE
                OBVIOUS
            <4> QED
                BY <4>1, <4>2
        <3> QED
            BY <3>3, <3>4
    <2> HIDE DEF r
    <2>4. CacheTypeOK'
        BY <2>1, <2>2, <2>3 DEF CacheInv, CacheTypeOK
    <2>5. AsksAreTimely'
        BY <2>1, <2>2, <2>3 DEF CacheInv, CacheTypeOK, AsksAreTimely, AskIsTimely
    <2> QED
        BY <1>0, <2>1, <2>4, <2>5, CacheStays DEF CacheInv
<1>q. /\ NotAsking \in [pc : {"rest", "sent", "back"}, peer : Peers \union {NoPeer}, since : Never..MaxTime,
                        found : BOOLEAN, asOf : Never..MaxTime]
      /\ AskIsTimely(NotAsking)'
    BY DEF NotAsking, AskIsTimely
<1>5. ASSUME NEW a \in Askers, AskEnds(a) PROVE CacheInv'
    <2>1. ask' = [ask EXCEPT ![a] = NotAsking] /\ UNCHANGED <<time, exists, order, kept, used, got>>
        BY <1>5 DEF AskEnds
    <2>2. CacheTypeOK'
        BY <1>q, <2>1 DEF CacheInv, CacheTypeOK
    <2>3. AsksAreTimely'
        BY <1>q, <2>1 DEF CacheInv, CacheTypeOK, AsksAreTimely, AskIsTimely
    <2> QED
        BY <1>0, <2>1, <2>2, <2>3, CacheStays DEF CacheInv
<1>6. ASSUME NEW a \in Askers, Stores(a) PROVE CacheInv'
    <2> DEFINE p == ask[a].peer
               full == Placed(p)
               out == IF Len(full) > Places THEN Head(full) ELSE p
    <2>1. ask[a].pc = "back" /\ ask' = [ask EXCEPT ![a] = NotAsking] /\ UNCHANGED <<time, exists>>
        BY <1>6 DEF Stores
    <2>2. AsksAreTimely'
        BY <1>q, <2>1 DEF CacheInv, CacheTypeOK, AsksAreTimely, AskIsTimely
    <2>3. ask' \in [Askers -> [pc : {"rest", "sent", "back"}, peer : Peers \union {NoPeer}, since : Never..MaxTime,
                        found : BOOLEAN, asOf : Never..MaxTime]]
        BY <1>q, <2>1 DEF CacheInv, CacheTypeOK
    <2>4. CASE ~ask[a].found
        <3>1. UNCHANGED <<order, kept, used>> /\ got' = NoAnswer
            BY <1>6, <2>4 DEF Stores
        <3>2. got' \in [age : 0..MaxTime, evicted : BOOLEAN] /\ got'.age < Ttl + Patience
            BY <3>1 DEF NoAnswer
        <3>3. CacheTypeOK'
            BY <2>1, <2>3, <3>1, <3>2 DEF CacheInv, CacheTypeOK
        <3> QED
            BY <2>1, <2>2, <3>1, <3>2, <3>3, CacheStays DEF CacheInv
    <2>5. CASE ask[a].found
        <3>1. /\ order' = IF out = p THEN full ELSE Tail(full)
              /\ kept' = [q \in Peers |-> IF q = p THEN [at |-> time, asOf |-> ask[a].asOf]
                                          ELSE IF q = out THEN NothingKept ELSE kept[q]]
              /\ used' = [used EXCEPT ![p] = time]
              /\ got' = [NoAnswer EXCEPT !.evicted = out # p /\ \E q \in ToSet(order) \ {out} : used[q] < used[out]]
            BY <1>6, <2>5 DEF Stores
        <3>2. p \in exists /\ p \in Peers /\ 0 <= ask[a].asOf /\ ask[a].asOf <= time /\ time <= ask[a].asOf + Patience
              /\ ask[a].asOf \in Int
            BY <1>0, <1>a, <2>1, <2>5 DEF AskIsTimely
        <3>3. /\ full \in Seq(Peers) /\ Len(full) <= Len(order) + 1 /\ full # <<>>
              /\ ToSet(full) = ToSet(order) \union {p} /\ IsInjective(full)
            BY <1>0, <3>2, PlacedFacts DEF CacheInv, MapIsKept
        <3>p. p \in ToSet(full) /\ Len(full) \in Nat
            BY <3>3, LenProperties
        <3>4. /\ Head(full) \in Peers /\ Tail(full) \in Seq(Peers) /\ Len(Tail(full)) = Len(full) - 1
              /\ ToSet(Tail(full)) = ToSet(full) \ {Head(full)} /\ IsInjective(Tail(full))
            BY <3>3, TailFacts
        <3> HIDE DEF full, p
        \* With one place the newcomer is not the one to go: it would have to be alone.
        <3>5. ASSUME out = p PROVE Len(full) <= Places
            <4>1. SUFFICES ASSUME Len(full) > Places, Head(full) = p PROVE FALSE
                BY <1>0, <3>5, <3>p
            <4>2. Placed(p) # order
                BY <1>0, <4>1 DEF full, p
            <4>3. p \notin ToSet(order) /\ full = Append(order, p)
                BY <4>2 DEF Placed, full, p
            <4>4. Len(order) > 0 /\ order # <<>>
                BY <1>0, <3>3, <4>1, <3>p, EmptySeq
            <4>5. full[1] = order[1] /\ Head(full) = full[1]
                BY <1>0, <3>2, <3>3, <4>3, <4>4, AppendProperties
            <4>6. order[1] \in ToSet(order)
                BY <1>0, <4>4, LenProperties DEF ToSet
            <4> QED
                BY <4>1, <4>3, <4>5, <4>6
        <3>6. /\ order' \in Seq(Peers) /\ Len(order') <= Places /\ IsInjective(order')
              /\ ToSet(order') = (ToSet(order) \union {p}) \ (IF out = p THEN {} ELSE {out})
              /\ out \in Peers
            <4>1. CASE out = p
                BY <3>1, <3>2, <3>3, <3>5, <4>1
            <4>2. CASE out # p
                <5>1. Len(full) > Places /\ out = Head(full)
                    BY <4>2
                <5>2. Len(Tail(full)) <= Places
                    BY <1>0, <3>3, <3>4, <3>p
                <5> QED
                    BY <3>1, <3>3, <3>4, <4>2, <5>1, <5>2
            <4> QED
                BY <4>1, <4>2
        <3> HIDE DEF out
        <3>7. [at |-> time, asOf |-> ask[a].asOf] # NothingKept
            BY <1>0 DEF NothingKept
        <3>8. ASSUME NEW q \in Peers
              PROVE  kept'[q] = IF q = p THEN [at |-> time, asOf |-> ask[a].asOf]
                                ELSE IF q = out THEN NothingKept ELSE kept[q]
            BY <3>1
        <3>9. MapIsKept'
            <4>1. \A q \in ToSet(order') : q \in Peers
                BY <1>0, <3>2, <3>6 DEF CacheInv, MapIsKept
            <4>2. ASSUME NEW q \in Peers PROVE q \in ToSet(order') <=> kept'[q] # NothingKept
                <5>1. q \in ToSet(order) <=> kept[q] # NothingKept
                    BY DEF CacheInv, MapIsKept
                <5> QED
                    BY <3>6, <3>7, <3>8, <5>1
            <4>3. ToSet(order') = {q \in Peers : kept'[q] # NothingKept}
                BY <4>1, <4>2
            <4> QED
                BY <3>6, <4>3 DEF MapIsKept
        <3>10. RecordsAreReal'
            <4> SUFFICES ASSUME NEW q \in Peers, kept'[q] # NothingKept PROVE RecordIsReal(q)'
                BY DEF RecordsAreReal
            <4>1. CASE q = p
                <5>1. kept'[q].at = time /\ kept'[q].asOf = ask[a].asOf
                    BY <3>8, <4>1
                <5> QED
                    BY <1>0, <2>1, <3>2, <4>1, <5>1 DEF RecordIsReal
            <4>2. CASE q # p
                <5>1. kept'[q] = kept[q] /\ kept[q] # NothingKept
                    BY <3>8, <4>2
                <5> QED
                    BY <1>k, <2>1, <5>1 DEF RecordIsReal
            <4> QED
                BY <4>1, <4>2
        <3>11. got' \in [age : 0..MaxTime, evicted : BOOLEAN] /\ got'.age < Ttl + Patience
            <4> DEFINE e == out # p /\ \E q \in ToSet(order) \ {out} : used[q] < used[out]
            <4>1. e \in BOOLEAN
                OBVIOUS
            <4>2. got' = [NoAnswer EXCEPT !.evicted = e]
                BY <3>1
            <4> HIDE DEF e
            <4>3. got' = [age |-> 0, evicted |-> e]
                BY <4>2 DEF NoAnswer
            <4> QED
                BY <4>1, <4>3
        <3>12. kept' \in [Peers -> [at : Never..MaxTime, asOf : Never..MaxTime]]
            <4>1. [at |-> time, asOf |-> ask[a].asOf] \in [at : Never..MaxTime, asOf : Never..MaxTime]
                BY <1>0, <3>2
            <4>2. NothingKept \in [at : Never..MaxTime, asOf : Never..MaxTime]
                BY DEF NothingKept
            <4> QED
                BY <1>k, <3>1, <4>1, <4>2
        <3>13. used' \in [Peers -> Never..MaxTime]
            <4>1. time \in Never..MaxTime /\ used \in [Peers -> Never..MaxTime]
                BY <1>0 DEF CacheInv, CacheTypeOK
            <4> QED
                BY <3>1, <4>1
        <3>14. CacheTypeOK'
            BY <2>1, <2>3, <3>6, <3>11, <3>12, <3>13 DEF CacheInv, CacheTypeOK
        <3> QED
            BY <2>2, <3>9, <3>10, <3>11, <3>14 DEF CacheInv
    <2> QED
        BY <2>4, <2>5
<1> QED
    BY <1>1, <1>2, <1>3, <1>4, <1>5, <1>6 DEF CacheNext

LEMMA CacheInvHolds == CacheSpec => []CacheInv
<1>1. CacheInv /\ UNCHANGED cacheVars => CacheInv'
    BY DEF CacheInv, CacheTypeOK, MapIsKept, RecordsAreReal, RecordIsReal, AsksAreTimely, AskIsTimely, cacheVars
<1>2. CacheInv /\ [CacheNext]_cacheVars => CacheInv'
    BY <1>1, CacheStep
<1> QED
    BY CacheInvInit, <1>2, PTL DEF CacheSpec

\* The cache's Map, its order and the requests under way have their types; it is never over its size.
THEOREM CacheTypes == CacheSpec => []CacheTypeOK
<1>1. CacheInv => CacheTypeOK
    BY DEF CacheInv
<1> QED
    BY <1>1, CacheInvHolds, PTL

\* A cache of any size, for any number of askers: a record that is served is no older than the time
\* to live and one request, the Map has each key once, and only what exists (createResolveCache).
THEOREM ServedIsYoung == CacheSpec => []AnswersAreYoung
<1>1. CacheInv => AnswersAreYoung
    <2> SUFFICES ASSUME CacheInv PROVE AnswersAreYoung
        OBVIOUS
    <2>1. order \in Seq(Peers) /\ Len(order) \in Nat /\ DOMAIN order = 1..Len(order)
        BY LenProperties DEF CacheInv, CacheTypeOK
    <2>2. Cardinality(ToSet(order)) = Len(order)
        <3>1. order \in Bijection(1..Len(order), ToSet(order))
            BY <2>1 DEF CacheInv, MapIsKept, IsInjective, ToSet, Bijection, Injection, Surjection
        <3>2. IsFiniteSet(1..Len(order)) /\ Cardinality(1..Len(order)) = Len(order)
            BY <2>1, FS_Interval
        <3>3. ExistsBijection(1..Len(order), ToSet(order))
            BY <3>1 DEF ExistsBijection
        <3> QED
            BY <3>2, <3>3, FS_Bijection
    <2>3. ToSet(order) \subseteq exists
        BY DEF CacheInv, MapIsKept, RecordsAreReal, RecordIsReal
    <2> QED
        BY <2>2, <2>3 DEF CacheInv, MapIsKept, AnswersAreYoung
<1> QED
    BY <1>1, CacheInvHolds, PTL
=============================================================================
