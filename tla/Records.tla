------------------------------ MODULE Records ------------------------------
(***************************************************************************)
(* The records and credentials of the mailboxes: state.json names, per     *)
(* workspace, a project key; the credential store holds, per project key,  *)
(* an address with its API key and a signing seed.  service.ts, http.ts    *)
(* and tools.ts open, move, rotate, remove and relink mailboxes, each in   *)
(* several requests and writes, several at a time; credentials.ts moves    *)
(* what older versions left in state.json, under the lock of the file.     *)
(*                                                                         *)
(* An address and its agent are one number.  The workspaces here have one  *)
(* project key in common, as two checkouts of a repository do, and one of  *)
(* their own each, the suffixed one.  A write of state.json is one step    *)
(* (StateStore).  `lost' and `mixed' are history.                          *)
(***************************************************************************)
EXTENDS Integers, FiniteSets

CONSTANTS MaxSpaces,        \* the workspaces, in the order of state.json
          Agents,           \* bound: agents the server creates; numbers
          OldAgents,        \* those an older version may have left in state.json
          Jobs,             \* bound: handlers under way at a time; numbers
          MaxBegun,         \* bound: handlers begun
          MaxTurns,         \* bound: rotations of one key
          MaxMishaps        \* bound: crashes, failed requests and writes

Spaces == 1..MaxSpaces
Base == 0                   \* the project key they share; w is the suffixed one of w
ProjectKeys == {Base} \union Spaces
NoKey == 0 - 1
NoAgent == 0

ASSUME RecordsAssumption == /\ MaxSpaces \in Nat \ {0} /\ MaxTurns \in Nat /\ MaxBegun \in Nat /\ MaxMishaps \in Nat
                            /\ Agents \subseteq Nat \ {0} /\ OldAgents \subseteq Agents /\ Jobs \subseteq Nat

VARIABLES record,           \* per workspace: its project key, and credentials not yet moved
          bucket,           \* per workspace: credentials under the key of its directory
          cred, seed,       \* per project key: the yaml and the signing yaml
          gone,             \* workspaces whose directory is missing
          made, turn, installed,    \* the server: agents, how often rotated, with a signing key
          pod,              \* the pod named by hand: none, made, or its key is stored
          job,              \* the handlers under way
          moving,           \* ensureCredentialsMigrated, which holds the lock
          lost, mixed, mishaps, begun

recordsVars == <<record, bucket, cred, seed, gone, made, turn, installed, pod, job, moving, lost, mixed, mishaps, begun>>
local == <<record, bucket, moving>>
files == <<cred, seed>>
remote == <<made, turn, installed>>
past == <<lost, mixed, mishaps>>

NoRecord == [project |-> NoKey, old |-> NoAgent]
NoFile == [agent |-> NoAgent, turn |-> 0]
Free == [op |-> "free", pc |-> "", ws |-> 1, agent |-> NoAgent, turn |-> 0, key |-> NoKey, signs |-> FALSE,
         clear |-> FALSE]
AtRest == [held |-> FALSE, todo |-> {}, old |-> [w \in Spaces |-> NoAgent], key |-> [w \in Spaces |-> NoKey],
           clear |-> {}]

RecordsInit ==
  /\ bucket \in [Spaces -> OldAgents \union {NoAgent}]
  /\ \E o \in [Spaces -> OldAgents \union {NoAgent}] : record = [w \in Spaces |-> [project |-> NoKey, old |-> o[w]]]
  /\ cred = [k \in ProjectKeys |-> NoFile] /\ seed = [k \in ProjectKeys |-> NoAgent]
  /\ made = ({record[w].old : w \in Spaces} \union {bucket[w] : w \in Spaces}) \ {NoAgent}
  /\ gone = {} /\ turn = [a \in Agents |-> 0] /\ installed \in {{}, made}
  /\ pod = "none" /\ job = [j \in Jobs |-> Free] /\ moving = AtRest
  /\ lost = [a \in Agents |-> "none"] /\ mixed = {} /\ mishaps = 0 /\ begun = 0

At(j, pc) == job[j].pc = pc
Goes(j, pc) == job' = [job EXCEPT ![j].pc = pc]
Ends(j) == job' = [job EXCEPT ![j] = Free]
Mishap == mishaps < MaxMishaps /\ mishaps' = mishaps + 1

\* The agents as may have gone out of reach, for the reason why.
Lose(as, why) == lost' = [a \in Agents |-> IF a \in as /\ lost[a] = "none" THEN why ELSE lost[a]]
Mixed(is, why) == mixed' = IF is THEN mixed \union {why} ELSE mixed

-----------------------------------------------------------------------------
(* Reading: resolveCredentials, takenProjectKeys, allocateProjectKey *)

FileOf(w) == IF record[w].project = NoKey THEN NoFile ELSE cred[record[w].project]
Resolves(w) == FileOf(w).agent # NoAgent
Untouched(w) == record[w].old = NoAgent /\ bucket[w] = NoAgent
Named(k) == {w \in Spaces : record[w].project = k}

\* A handler of another workspace has the project key in hand.
InOtherHands(k, w) == \E j \in Jobs : job[j].key = k /\ job[j].ws # w
\* It is w's own, or nobody with credentials of another agent names it.
ClearFor(k, w, a) == k = w \/ \A v \in Named(k) \ {w} : FileOf(v).agent \in {NoAgent, a}

\* The project keys the records name, as far as they have credentials.
Taken == {<<k, cred[k].agent>> : k \in {record[w].project : w \in {v \in Spaces : Resolves(v)}}}

\* Slip: the holder is not looked at.
Allocate_Base(w, a, taken) == Base
Allocate(w, a, taken) == IF \E b \in Agents \ {a} : <<Base, b>> \in taken THEN w ELSE Base

\* ensureInbox joins a provisioning under way for the same workspace and pod name.
Begins(w, op, pc, a, key) ==
  /\ begun < MaxBegun /\ begun' = begun + 1
  /\ \E j \in Jobs :
    /\ job[j] = Free /\ \A i \in Jobs : i < j => job[i] # Free
    /\ job' = [job EXCEPT ![j] = [op |-> op, pc |-> pc, ws |-> w, agent |-> a, turn |-> 0, key |-> key,
                                  signs |-> FALSE, clear |-> FALSE]]
Joined(w, op) == \E j \in Jobs : job[j].op = op /\ job[j].ws = w

-----------------------------------------------------------------------------
(* Opening a mailbox: provision, ensureSigningKey, openPod *)

\* A workspace with credentials and no seed has one installed; one without gets an agent.
\* `named' is the pod given by hand, a task of its own.
ProvisionBegins(w, op) ==
  /\ Untouched(w) /\ ~Joined(w, op) /\ (op = "named" => pod = "keyed")
  /\ IF Resolves(w)
     THEN seed[record[w].project] = NoAgent /\ Begins(w, op, "install", FileOf(w).agent, record[w].project)
     ELSE w \notin gone /\ Begins(w, op, "create", NoAgent, NoKey)
  /\ UNCHANGED <<local, files, gone, remote, pod, past>>

\* openPod: the pod is created once, and its key is given once.
PodMakes ==
  /\ pod = "none" /\ \/ pod' = "keyed" /\ UNCHANGED mishaps
                     \/ pod' = "made" /\ Mishap
  /\ UNCHANGED <<local, files, gone, remote, job, lost, mixed, begun>>

\* POST of an agent: an address nobody has (a taken one leads to the next candidate).
CreatesAgent(j) ==
  /\ At(j, "create")
  /\ \E a \in Agents \ made :
       /\ \A b \in Agents \ made : a <= b
       /\ made' = made \union {a}
       /\ \/ /\ job' = [job EXCEPT ![j].agent = a,
                                    ![j].pc = IF job[j].op = "migrate" THEN "sign" ELSE "allocate"]
             /\ UNCHANGED <<lost, mishaps>>
          \/ Ends(j) /\ Lose({a}, "unanswered") /\ Mishap
  /\ UNCHANGED <<local, files, gone, turn, installed, pod, mixed, begun>>

\* The project key is chosen by what the records hold at this moment, without a lock.
ChoosesKey(j) ==
  /\ At(j, "allocate")
  /\ LET k == Allocate(job[j].ws, job[j].agent, Taken) IN
     job' = [job EXCEPT ![j].key = k, ![j].pc = "look", ![j].clear = ClearFor(k, job[j].ws, job[j].agent)]
  /\ UNCHANGED <<local, files, gone, remote, pod, past, begun>>

\* A yaml there is stays, whosever it is; nobody asks whether it was written.
LooksAtFile(j) ==
  /\ At(j, "look")
  /\ Goes(j, IF cred[job[j].key] = NoFile THEN "write" ELSE "record")
  /\ IF cred[job[j].key] = NoFile THEN UNCHANGED <<lost, mixed>>
     ELSE Lose({job[j].agent}, "outranked") /\ Mixed(TRUE, "outranked")
  /\ UNCHANGED <<local, files, gone, remote, pod, mishaps, begun>>

WritesFile(j) ==
  /\ At(j, "write") /\ Goes(j, "record")
  /\ cred' = [cred EXCEPT ![job[j].key] = [agent |-> job[j].agent, turn |-> 0]]
  /\ Lose({cred[job[j].key].agent}, "raced") /\ Mixed(cred[job[j].key] # NoFile \/ seed[job[j].key] # NoAgent, "raced")
  /\ UNCHANGED <<local, seed, gone, remote, pod, mishaps, begun>>

\* The key was clear when it was chosen, and is now named or held by somebody else.
MixedBy(j) == Mixed(/\ job[j].clear
                    /\ \/ Named(job[j].key) \ {job[j].ws} # {}
                       \/ InOtherHands(job[j].key, job[j].ws), "raced")

\* Slip: the fields of the record win over those of the patch.
Names_Old(w, k) == record' = [record EXCEPT ![w].project = IF @ = NoKey THEN k ELSE @]
Names(w, k) == record' = [record EXCEPT ![w].project = k]

WritesRecord(j) ==
  /\ At(j, "record") /\ ~moving.held
  /\ Names(job[j].ws, job[j].key) /\ Goes(j, "install")
  /\ MixedBy(j)
  /\ Lose({FileOf(job[j].ws).agent}, "raced")
  /\ UNCHANGED <<bucket, moving, files, gone, remote, pod, mishaps, begun>>

\* setSigningKey: the server takes the first one; a refusal or a failure leaves the mailbox
\* unsigned.
\* Slip: a failed installation goes unnoticed.
Unsigned_Goes(j) == Goes(j, "seed")
Unsigned(j) == Ends(j)

InstallsSeed(j) ==
  /\ At(j, "install")
  /\ IF job[j].agent \in installed
     THEN Ends(j) /\ UNCHANGED <<installed, mishaps>>
     ELSE \/ Goes(j, "seed") /\ installed' = installed \union {job[j].agent} /\ UNCHANGED mishaps
          \/ Unsigned(j) /\ Mishap /\ UNCHANGED installed
  /\ UNCHANGED <<local, files, gone, made, turn, pod, lost, mixed, begun>>

\* A seed there is stays.
SavesSeed(j) ==
  /\ At(j, "seed") /\ Ends(j)
  /\ seed' = [seed EXCEPT ![job[j].key] = IF @ = NoAgent THEN job[j].agent ELSE @]
  /\ Mixed(cred[job[j].key].agent # job[j].agent, "raced")
  /\ UNCHANGED <<local, cred, gone, remote, pod, lost, mishaps, begun>>

-----------------------------------------------------------------------------
(* migrateInbox *)

MigrateBegins(w) ==
  /\ Untouched(w) /\ Resolves(w)
  /\ Begins(w, "migrate", "create", NoAgent, NoKey)
  /\ UNCHANGED <<local, files, gone, remote, pod, past>>

\* The seed of the new agent stays in memory; a server without the identity layer is passed over.
SignsAhead(j) ==
  /\ At(j, "sign")
  /\ \/ /\ installed' = installed \union {job[j].agent}
        /\ job' = [job EXCEPT ![j].signs = TRUE, ![j].pc = "forward"] /\ UNCHANGED mishaps
     \/ Goes(j, "forward") /\ Mishap /\ UNCHANGED installed
  /\ UNCHANGED <<local, files, gone, made, turn, pod, lost, mixed, begun>>

\* The old address forwards to the new one, or the migration is off.
Forwards(j) ==
  /\ At(j, "forward")
  /\ \/ Goes(j, "entry") /\ UNCHANGED <<lost, mishaps>>
     \/ Ends(j) /\ Lose({job[j].agent}, "aborted") /\ Mishap
  /\ UNCHANGED <<local, files, gone, remote, pod, mixed, begun>>

\* Slip: the project key is derived anew.
KeyToReplace_Derived(w, a) == Base
KeyToReplace(w, a) == IF record[w].project # NoKey THEN record[w].project ELSE Allocate(w, a, Taken)

\* activate: the project key of the record as it is now, or a new one.
ReadsEntry(j) ==
  /\ At(j, "entry")
  /\ LET k == KeyToReplace(job[j].ws, job[j].agent) IN
     job' = [job EXCEPT ![j].pc = "overwrite", ![j].key = k, ![j].clear = ClearFor(k, job[j].ws, job[j].agent)]
  /\ UNCHANGED <<local, files, gone, remote, pod, past, begun>>

\* What lies beside the new address is another's seed, or the key is by now somebody else's too.
MixedOver(j) == Mixed(\/ ~job[j].signs /\ seed[job[j].key] # NoAgent
                      \/ /\ job[j].clear /\ Named(job[j].key) \ {job[j].ws} # {}
                         /\ cred[job[j].key] # NoFile, "unsigned")

OverwritesFile(j) ==
  /\ At(j, "overwrite") /\ Goes(j, IF job[j].signs THEN "overseed" ELSE "replace")
  /\ cred' = [cred EXCEPT ![job[j].key] = [agent |-> job[j].agent, turn |-> 0]]
  /\ Lose({cred[job[j].key].agent}, "replaced")
  /\ MixedOver(j)
  /\ UNCHANGED <<local, seed, gone, remote, pod, mishaps, begun>>

\* Slip: the seed is written like a first one, which keeps what there is.
Overseed_Kept(k, a) == seed' = [seed EXCEPT ![k] = IF @ = NoAgent THEN a ELSE @]
Overseed(k, a) == seed' = [seed EXCEPT ![k] = a]

OverwritesSeed(j) ==
  /\ At(j, "overseed") /\ Goes(j, "replace")
  /\ Overseed(job[j].key, job[j].agent)
  /\ Mixed(cred[job[j].key].agent # job[j].agent, "raced")
  /\ UNCHANGED <<local, cred, gone, remote, pod, lost, mishaps, begun>>

\* The whole record is replaced; moving the mail and closing the old agent touch nothing here.
ReplacesRecord(j) ==
  /\ At(j, "replace") /\ ~moving.held /\ Ends(j)
  /\ record' = [record EXCEPT ![job[j].ws] = [project |-> job[j].key, old |-> NoAgent]]
  /\ MixedBy(j)
  /\ Lose({FileOf(job[j].ws).agent, record[job[j].ws].old}, "replaced")
  /\ UNCHANGED <<bucket, moving, files, gone, remote, pod, mishaps, begun>>

-----------------------------------------------------------------------------
(* msg9_rotate, remove-workspace, relink-workspace *)

RotateBegins(w) ==
  /\ Untouched(w) /\ Resolves(w)
  /\ Begins(w, "rotate", "rotate", FileOf(w).agent, record[w].project)
  /\ UNCHANGED <<local, files, gone, remote, pod, past>>

Rotates(j) ==
  /\ At(j, "rotate") /\ turn[job[j].agent] < MaxTurns
  /\ turn' = [turn EXCEPT ![job[j].agent] = @ + 1]
  /\ \/ job' = [job EXCEPT ![j].pc = "rewrite", ![j].turn = turn'[job[j].agent]] /\ UNCHANGED <<lost, mishaps>>
     \/ Ends(j) /\ Lose({job[j].agent}, "unanswered") /\ Mishap
  /\ UNCHANGED <<local, files, gone, made, installed, pod, mixed, begun>>

\* The yaml of the project key read at the start, with the address read at the start.
RewritesFile(j) ==
  /\ At(j, "rewrite") /\ Ends(j)
  /\ cred' = [cred EXCEPT ![job[j].key] = [agent |-> job[j].agent, turn |-> job[j].turn]]
  /\ IF cred[job[j].key].agent = job[j].agent /\ job[j].turn = turn[job[j].agent]
     THEN UNCHANGED lost
     ELSE Lose({cred[job[j].key].agent, job[j].agent}, "overwritten")
  /\ Mixed(cred[job[j].key].agent # job[j].agent, "overwritten")
  /\ UNCHANGED <<local, seed, gone, remote, pod, mishaps, begun>>

\* Another record has the same address, or the directory is missing.
MayGo(w) == w \in gone \/ \E v \in Spaces \ {w} : Resolves(v) /\ FileOf(v).agent = FileOf(w).agent

RemoveBegins(w) ==
  /\ Untouched(w) /\ record[w] # NoRecord /\ MayGo(w)
  /\ Begins(w, "remove", "unlink", NoAgent, record[w].project)
  /\ UNCHANGED <<local, files, gone, remote, pod, past>>

\* Both files of the project key go, then the record.
DeletesFile(j) ==
  /\ At(j, "unlink") /\ Goes(j, "unseed")
  /\ cred' = [cred EXCEPT ![job[j].key] = NoFile]
  /\ Lose({cred[job[j].key].agent}, "removed")
  /\ UNCHANGED <<local, seed, gone, remote, pod, mixed, mishaps, begun>>
DeletesSeed(j) ==
  /\ At(j, "unseed") /\ Goes(j, "forget")
  /\ seed' = [seed EXCEPT ![job[j].key] = NoAgent]
  /\ UNCHANGED <<local, cred, gone, remote, pod, past, begun>>
DeletesRecord(j) ==
  /\ At(j, "forget") /\ ~moving.held /\ Ends(j)
  /\ record' = [record EXCEPT ![job[j].ws] = NoRecord]
  /\ Lose({FileOf(job[j].ws).agent, record[job[j].ws].old}, "removed")
  /\ UNCHANGED <<bucket, moving, files, gone, remote, pod, mixed, mishaps, begun>>

\* Slip: the record is copied, and the one it came from stays.
Moves_Copy(w, v) == record' = [record EXCEPT ![v] = record[w]]
Moves(w, v) == record' = [record EXCEPT ![v] = record[w], ![w] = NoRecord]

\* The record of a directory that is gone, to a workspace that has none, in one write.
Relinks(w, v) ==
  /\ ~moving.held /\ w \in gone /\ v \notin gone
  /\ record[w] # NoRecord /\ record[v] = NoRecord
  /\ Moves(w, v)
  /\ Mixed(InOtherHands(record[w].project, v), "relinked")
  /\ UNCHANGED <<bucket, moving, files, gone, remote, pod, job, lost, mishaps, begun>>

-----------------------------------------------------------------------------
(* ensureCredentialsMigrated, which any reader of an old record sets off *)

\* The bucket of a directory gives way to its workspace's own record.
MoveBegins ==
  /\ ~moving.held /\ \E w \in Spaces : ~Untouched(w)
  /\ LET old == [w \in Spaces |-> IF record[w].old = NoAgent THEN bucket[w] ELSE record[w].old] IN
     moving' = [held |-> TRUE, todo |-> {w \in Spaces : old[w] # NoAgent}, old |-> old,
                key |-> [w \in Spaces |-> NoKey], clear |-> {}]
  /\ UNCHANGED <<record, bucket, files, gone, remote, pod, job, past, begun>>

\* The project keys known when it began, and those it has given out since.
TakenWhileMoving == Taken \union {<<moving.key[w], moving.old[w]>> : w \in Spaces}

\* One record, in the order of the file: the files first, where there are none.
MovesOne(w) ==
  /\ w \in moving.todo /\ \A v \in moving.todo : w <= v
  /\ LET a == moving.old[w]
         k == IF record[w].project # NoKey THEN record[w].project ELSE Allocate(w, a, TakenWhileMoving) IN
     /\ moving' = [held |-> TRUE, todo |-> moving.todo \ {w}, old |-> moving.old,
                   key |-> [moving.key EXCEPT ![w] = k],
                   clear |-> IF ClearFor(k, w, a) THEN moving.clear \union {w} ELSE moving.clear]
     /\ cred' = [cred EXCEPT ![k] = IF @ = NoFile THEN [agent |-> a, turn |-> 0] ELSE @]
     /\ seed' = [seed EXCEPT ![k] = IF @ = NoAgent /\ a \in installed THEN a ELSE @]
     /\ IF cred'[k].agent = a THEN UNCHANGED lost ELSE Lose({a}, "outranked")
     /\ Mixed(seed'[k] \notin {NoAgent, cred'[k].agent}, "outranked")
  /\ UNCHANGED <<record, bucket, gone, remote, pod, job, mishaps, begun>>

\* A write fails: the record keeps its old fields for the next time.
MovesNone(w) ==
  /\ w \in moving.todo /\ \A v \in moving.todo : w <= v
  /\ Mishap /\ moving' = [moving EXCEPT !.todo = @ \ {w}]
  /\ UNCHANGED <<record, bucket, files, gone, remote, pod, job, lost, mixed, begun>>

MoveSaves ==
  /\ moving.held /\ moving.todo = {} /\ moving' = AtRest
  /\ record' = [w \in Spaces |-> IF moving.key[w] # NoKey THEN [project |-> moving.key[w], old |-> NoAgent]
                                 ELSE [project |-> record[w].project, old |-> moving.old[w]]]
  /\ bucket' = [w \in Spaces |-> NoAgent]
  /\ Lose({bucket[w] : w \in {v \in Spaces : bucket[v] # moving.old[v]}}, "merged")
  /\ Mixed(\E w \in Spaces : /\ moving.key[w] # NoKey
                            /\ \/ /\ w \in moving.clear
                                  /\ InOtherHands(moving.key[w], w) \/ Named(moving.key[w]) \ {w} # {}
                               \/ \E v \in Spaces \ {w} : /\ moving.key[v] = moving.key[w]
                                                         /\ moving.old[v] = moving.old[w], "twins")
  /\ UNCHANGED <<files, gone, remote, pod, job, mishaps, begun>>

-----------------------------------------------------------------------------
DirectoryGoes(w) ==
  /\ w \notin gone /\ Mishap /\ gone' = gone \union {w}
  /\ UNCHANGED <<local, files, remote, pod, job, lost, mixed, begun>>

\* The process ends: what only a handler knew is gone.
Crashes ==
  /\ Mishap /\ job' = [j \in Jobs |-> Free] /\ moving' = AtRest
  /\ Lose({job[j].agent : j \in Jobs}, "crash")
  /\ Mixed(\E j \in Jobs : job[j].pc \in {"overseed", "unseed"}, "crash")
  /\ UNCHANGED <<record, bucket, files, gone, remote, pod, begun>>

Handles(j) == \/ CreatesAgent(j) \/ ChoosesKey(j) \/ LooksAtFile(j) \/ WritesFile(j) \/ WritesRecord(j)
              \/ InstallsSeed(j) \/ SavesSeed(j) \/ SignsAhead(j) \/ Forwards(j) \/ ReadsEntry(j)
              \/ OverwritesFile(j) \/ OverwritesSeed(j) \/ ReplacesRecord(j) \/ Rotates(j)
              \/ RewritesFile(j) \/ DeletesFile(j) \/ DeletesSeed(j) \/ DeletesRecord(j)
RecordsNext == \/ \E j \in Jobs : Handles(j)
               \/ \E w \in Spaces : \/ ProvisionBegins(w, "derived") \/ ProvisionBegins(w, "named")
                                    \/ MigrateBegins(w) \/ RotateBegins(w) \/ RemoveBegins(w)
                                    \/ MovesOne(w) \/ MovesNone(w) \/ DirectoryGoes(w)
                                    \/ \E v \in Spaces : Relinks(w, v)
               \/ PodMakes \/ MoveBegins \/ MoveSaves \/ Crashes
RecordsSpec == RecordsInit /\ [][RecordsNext]_recordsVars

-----------------------------------------------------------------------------
Ops == {"free", "derived", "named", "migrate", "rotate", "remove"}
Choosing == {"create", "allocate", "sign", "forward", "entry"}
Keyed == {"look", "write", "record", "install", "seed", "overwrite", "overseed", "replace", "rotate", "rewrite",
          "unlink", "unseed", "forget"}
Job == [op : Ops, pc : Choosing \union Keyed \union {""}, ws : Spaces, agent : made \union {NoAgent},
        turn : 0..MaxTurns, key : ProjectKeys \union {NoKey}, signs : BOOLEAN, clear : BOOLEAN]
Record == [project : ProjectKeys \union {NoKey}, old : made \union {NoAgent}]
Move == [held : BOOLEAN, todo : SUBSET Spaces, old : [Spaces -> made \union {NoAgent}],
         key : [Spaces -> ProjectKeys \union {NoKey}], clear : SUBSET Spaces]

RecordsTypeOK ==
  /\ record \in [Spaces -> Record] /\ bucket \in [Spaces -> made \union {NoAgent}]
  /\ cred \in [ProjectKeys -> [agent : made \union {NoAgent}, turn : 0..MaxTurns]]
  /\ \A k \in ProjectKeys : cred[k].agent = NoAgent => cred[k] = NoFile
  /\ seed \in [ProjectKeys -> installed \union {NoAgent}]
  /\ gone \subseteq Spaces /\ made \subseteq Agents /\ installed \subseteq made
  /\ turn \in [Agents -> 0..MaxTurns] /\ pod \in {"none", "made", "keyed"}
  /\ job \in [Jobs -> Job] /\ \A j \in Jobs : job[j].pc \in Keyed => job[j].key # NoKey
  /\ moving \in Move

\* Its current API key is in somebody's hands: in a file that a record names, in an old record,
\* or with a handler that is about to write or name it.
Carries(j, a) == /\ job[j].agent = a /\ job[j].turn = turn[a]
                 /\ job[j].pc \in {"allocate", "look", "write", "record", "sign", "forward", "entry", "overwrite",
                                   "overseed", "replace", "rewrite"}
Held(a) == \/ \E w \in Spaces : FileOf(w) = [agent |-> a, turn |-> turn[a]]
           \/ turn[a] = 0 /\ \E w \in Spaces : a \in {record[w].old, bucket[w]}
           \/ \E j \in Jobs : Carries(j, a)

\* The key of an agent, which the server gives once, stays in hand, or went at one of the named
\* steps: an answer lost, a crash before it was written, a yaml that was there before, a race of
\* two openings, a migration, a late rotation, a removal.
KeysAreKept == \A a \in made : Held(a) \/ lost[a] # "none"

\* The seed beside an address was installed for it, but for the named ways to mix them.
SeedsFit ==
  mixed # {} \/ \A w \in Spaces : Resolves(w) /\ seed[record[w].project] # NoAgent =>
                   \/ seed[record[w].project] = FileOf(w).agent
                   \/ \E j \in Jobs : job[j].key = record[w].project /\ job[j].pc = "overseed"

\* Two records name one project key only if they did so with one address in the old state.json,
\* or their openings or moves raced, or a yaml was there before, or a relinking met a handler.
SharedKeysAreExplained ==
  mixed # {} \/ \A w \in Spaces : record[w].project # NoKey => Named(record[w].project) = {w}

\* No key and no seed is lost, laid beside the wrong address or shared by any other step than
\* those.
CredentialsAreKept == KeysAreKept /\ SeedsFit /\ SharedKeysAreExplained

\* As long as none of that happened, what is done to one workspace leaves the others alone: a
\* record that stays as it is, resolves to the address it did, unless a handler is at work for it.
OthersAreLeftAlone ==
  [][mixed' = {} => \A w \in Spaces : \/ ~Resolves(w) \/ record'[w] # record[w]
                                      \/ FileOf(w)'.agent = FileOf(w).agent
                                      \/ \E j \in Jobs : job[j] # Free /\ job[j].ws = w]_recordsVars

\* What remove-workspace promises: only the record that was asked for loses its credentials.
RemovalIsOfOneRecord ==
  [][\A w \in Spaces, j \in Jobs : DeletesFile(j) /\ job[j].ws # w /\ Resolves(w) => Resolves(w)']_recordsVars
=============================================================================
