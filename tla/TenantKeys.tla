----------------------------- MODULE TenantKeys -----------------------------
(***************************************************************************)
(* The tenant keys of a machine: the key files that `tenants/' holds, the  *)
(* rule by which a key is looked up (credentials.ts), and what writes such *)
(* a file - binding a tenant (POST /setup, msg9_setup), the lazy probe of  *)
(* an unprobed owner (ownerContext), and opening a pod, whose key the      *)
(* server gives once (openPod).  Files are written outside the lock of     *)
(* state.json, so requests under way interleave at every step.             *)
(*                                                                         *)
(* A key stands for the tenant it belongs to: a pod of the one ORG, or the *)
(* flat tenant.  Pod 1 is the one named `dsh', so that its file of the old *)
(* model, dsh.key, is the file a tenant is bound in.                       *)
(***************************************************************************)
EXTENDS Integers, FiniteSets, FiniteSetsExt

CONSTANTS Pods,             \* numbered in the order of their names
          Requests,         \* requests that may be under way at once
          MaxAsked,         \* bound: requests
          MaxKeyMishaps     \* bound: failed writes, lost answers, probes that tell nothing

ASSUME KeysAssumption == /\ Pods \subseteq Nat \ {0} /\ 1 \in Pods
                         /\ MaxAsked \in Nat /\ MaxKeyMishaps \in Nat

Flat == 0
Keyless == 0 - 1
NoPod == 0 - 1
TenantKey == Pods \union {Flat}

\* tenants/<pod>-<org>.key and tenants/<pod>.key
KeyNames == {"own", "plain"} \X Pods
Legacy == <<"plain", 1>>

VARIABLES keyFile, backups,     \* the files, and the keys in .bak files
          envKey,               \* MSG9_TENANT_KEY
          orgBound, ownPod,     \* state.org, and its pod_label
          owner,                \* the tenant of state.owner, Keyless while it is unprobed
          serverPods,           \* the pods the server has
          task,                 \* per request
          given, strayed,       \* history: keys given once; keys let go of at a named window
          misled,               \* history: pods whose key was taken on trust
          boxes,                \* history: mailboxes as <<pod asked for, tenant of the key>>
          bound, unsettled,     \* history: the tenant bound last; another writer was about
          asked, keyMishaps

keysVars == <<keyFile, backups, envKey, orgBound, ownPod, owner, serverPods, task, given, strayed, misled,
              boxes, bound, unsettled, asked, keyMishaps>>
keyState == <<orgBound, ownPod, owner>>
keyHistory == <<given, strayed, misled, boxes, bound, unsettled>>

NoTask == [pc |-> "rest", what |-> "none", pod |-> NoPod, key |-> Keyless, was |-> Keyless]

KeysInit ==
  /\ keyFile \in [KeyNames -> TenantKey \union {Keyless}]
  /\ \A i \in Pods : /\ keyFile[<<"own", i>>] \in {i, Keyless}
                     /\ keyFile[<<"plain", i>>] \in {i, Keyless, IF i = 1 THEN Flat ELSE Keyless}
  /\ backups = {} /\ envKey \in {Keyless, Flat}
  /\ orgBound \in BOOLEAN /\ ownPod \in IF orgBound THEN Pods \union {NoPod} ELSE {NoPod}
  /\ owner = Keyless
  /\ serverPods \in SUBSET Pods
  /\ \A n \in KeyNames : keyFile[n] \in Pods => keyFile[n] \in serverPods
  /\ task = [r \in Requests |-> NoTask]
  /\ given = {} /\ strayed = {} /\ misled = {} /\ boxes = {} /\ bound = Keyless /\ unsettled = FALSE
  /\ asked = 0 /\ keyMishaps = 0

KeyMishap == keyMishaps < MaxKeyMishaps /\ keyMishaps' = keyMishaps + 1
TaskBecomes(r, t) == task' = [task EXCEPT ![r] = t]

-----------------------------------------------------------------------------
(* Looking a key up *)

Stored == {n \in KeyNames : keyFile[n] # Keyless}
StoredOwn == {i \in Pods : <<"own", i>> \in Stored}

\* readTenantKeyWithSource: Keyless also where several keys are there and none is named.
InstanceKey ==
  IF envKey # Keyless THEN envKey
  ELSE IF orgBound /\ ownPod \in StoredOwn THEN keyFile[<<"own", ownPod>>]
  ELSE IF orgBound /\ StoredOwn # {} THEN keyFile[<<"own", Min(StoredOwn)>>]
  ELSE IF Cardinality(Stored) = 1 THEN keyFile[CHOOSE n \in Stored : TRUE]
  ELSE Keyless

\* podKeyProbe: the key's own tenant says whose it is, unless the server says nothing.
\* Slip: a key the server disowns is taken as well.
Passes_Disowned(name, i, silent) == keyFile[name] # Keyless
Passes(name, i, silent) == keyFile[name] # Keyless /\ (keyFile[name] = i \/ name \in silent)

\* readTenantKeyForPod, where the probes of the names in `silent' tell nothing.
KeyForPod(i, silent) ==
  IF Passes(<<"own", i>>, i, silent) THEN keyFile[<<"own", i>>]
  ELSE IF Passes(<<"plain", i>>, i, silent) THEN keyFile[<<"plain", i>>]
  ELSE IF ownPod = i THEN InstanceKey
  ELSE Keyless

\* On trust: a probe told nothing, or the key of the instance stood in, which nothing checks.
OnTrust(i, silent) == silent # {} \/ (ownPod = i /\ \A kind \in {"own", "plain"} : ~Passes(<<kind, i>>, i, {}))

\* r reads the key of pod i, and goes on as the task `with' and that key, or ends with an error.
TakesKey(r, i, with) ==
  \E silent \in SUBSET {<<"own", i>>, <<"plain", i>>} :
    /\ IF silent = {} THEN UNCHANGED keyMishaps ELSE KeyMishap
    /\ misled' = IF OnTrust(i, silent) THEN misled \union {i} ELSE misled
    /\ TaskBecomes(r, IF KeyForPod(i, silent) = Keyless THEN NoTask
                      ELSE [with EXCEPT !.key = KeyForPod(i, silent)])

-----------------------------------------------------------------------------
(* Requests *)

BeginsTask(r, t) == task[r] = NoTask /\ asked < MaxAsked /\ asked' = asked + 1 /\ TaskBecomes(r, t)

\* Tasks that write dsh.key: binding a tenant, or a probe's answer.
WritingLegacy == {r \in Requests : task[r].pc \in {"back", "write", "meta"} /\ task[r].what # "open"}

\* The key was accepted by /owner/me.
BindsTenant(r) ==
  /\ \E k \in {Flat} \union serverPods : BeginsTask(r, [NoTask EXCEPT !.pc = "back", !.what = "bind", !.key = k])
  /\ unsettled' = (unsettled \/ WritingLegacy # {})
  /\ UNCHANGED <<keyFile, backups, envKey, keyState, serverPods, given, strayed, misled, boxes, bound,
                 keyMishaps>>

\* POST /org: state.org is written anew, with the pod it names or without one.
BindsOrg ==
  /\ asked < MaxAsked /\ asked' = asked + 1
  /\ orgBound' = TRUE /\ ownPod' \in Pods \union {NoPod}
  /\ UNCHANGED <<keyFile, backups, envKey, owner, serverPods, task, keyHistory, keyMishaps>>

\* Anything that asks ownerContext.
AsksOwner(r) ==
  /\ BeginsTask(r, [NoTask EXCEPT !.pc = "owner", !.what = "ask"])
  /\ UNCHANGED <<keyFile, backups, envKey, keyState, serverPods, keyHistory, keyMishaps>>

OpensPod(r) ==
  /\ orgBound /\ \E i \in Pods : BeginsTask(r, [NoTask EXCEPT !.pc = "list", !.what = "open", !.pod = i])
  /\ UNCHANGED <<keyFile, backups, envKey, keyState, serverPods, keyHistory, keyMishaps>>

\* A pod that is there is reused, with a key that is there.
ListsPods(r) ==
  /\ task[r].pc = "list"
  /\ IF task[r].pod \in serverPods
     THEN TakesKey(r, task[r].pod, [task[r] EXCEPT !.pc = "back"])
     ELSE TaskBecomes(r, [task[r] EXCEPT !.pc = "create"]) /\ UNCHANGED <<misled, keyMishaps>>
  /\ UNCHANGED <<keyFile, backups, envKey, keyState, serverPods, given, strayed, boxes, bound, unsettled, asked>>

\* orgCreatePod: refused when the pod has come to be meanwhile; the answer may be lost.
CreatesPod(r) ==
  /\ task[r].pc = "create" /\ serverPods' = serverPods \union {task[r].pod}
  /\ \/ /\ task[r].pod \in serverPods /\ TaskBecomes(r, NoTask) /\ UNCHANGED <<given, strayed, keyMishaps>>
     \/ /\ task[r].pod \notin serverPods /\ given' = given \union {task[r].pod}
        /\ \/ TaskBecomes(r, [task[r] EXCEPT !.pc = "back", !.key = task[r].pod]) /\ UNCHANGED <<strayed, keyMishaps>>
           \/ KeyMishap /\ TaskBecomes(r, NoTask) /\ strayed' = strayed \union {task[r].pod}
  /\ UNCHANGED <<keyFile, backups, envKey, keyState, misled, boxes, bound, unsettled, asked>>

-----------------------------------------------------------------------------
(* writeTenantKey: read and back up, then write *)

\* Slip: an opened pod's key goes to dsh.key, as in the old model.
Target_OldModel(r) == Legacy
Target(r) == IF task[r].what = "open" THEN <<"own", task[r].pod>> ELSE Legacy

\* Slip: what is there is overwritten without a copy.
NeedsBackup_Never(r) == FALSE
NeedsBackup(r) == keyFile[Target(r)] \notin {Keyless, task[r].key}

\* A copy that cannot be written stops nothing.
BacksUp(r) ==
  /\ task[r].pc = "back"
  /\ TaskBecomes(r, [task[r] EXCEPT !.pc = "write", !.was = keyFile[Target(r)]])
  /\ \/ backups' = backups \union (IF NeedsBackup(r) THEN {keyFile[Target(r)]} ELSE {})
        /\ UNCHANGED <<strayed, keyMishaps>>
     \/ /\ NeedsBackup(r) /\ KeyMishap /\ strayed' = strayed \union {keyFile[Target(r)]} /\ UNCHANGED backups
  /\ UNCHANGED <<keyFile, envKey, keyState, serverPods, given, misled, boxes, bound, unsettled, asked>>

\* What another request wrote since the copy was taken is overwritten without one.  An opened
\* pod goes on to its mailbox, which asks ownerContext first.
Writes(r) ==
  /\ task[r].pc = "write"
  /\ keyFile' = [keyFile EXCEPT ![Target(r)] = task[r].key]
  /\ strayed' = IF keyFile[Target(r)] # task[r].was THEN strayed \union {keyFile[Target(r)]} ELSE strayed
  /\ TaskBecomes(r, IF task[r].what = "open" THEN [task[r] EXCEPT !.pc = "owner", !.what = "box"]
                ELSE [task[r] EXCEPT !.pc = "meta"])
  /\ unsettled' = IF task[r].what = "bind" THEN WritingLegacy # {r} ELSE unsettled
  /\ UNCHANGED <<backups, envKey, keyState, serverPods, given, misled, boxes, bound, asked, keyMishaps>>

\* saveOwner's other half.  What the tool binds, and not the panel, is still to be probed.
WritesOwner(r) ==
  /\ task[r].pc = "meta"
  /\ owner' \in IF task[r].what = "bind" THEN {task[r].key, Keyless} ELSE {task[r].key}
  /\ bound' = IF task[r].what = "bind" THEN task[r].key ELSE bound
  /\ TaskBecomes(r, IF task[r].what = "box" THEN [task[r] EXCEPT !.pc = "box"] ELSE NoTask)
  /\ UNCHANGED <<keyFile, backups, envKey, orgBound, ownPod, serverPods, given, strayed, misled, boxes,
                 unsettled, asked, keyMishaps>>

-----------------------------------------------------------------------------
(* ownerContext and the mailbox *)

\* A pod's owner has no slug and is probed again every time.
Unprobed == owner \notin {Flat}

\* The probe's answer is stored with the key it was asked with, wherever that key came from.
ReadsOwner(r) ==
  /\ task[r].pc = "owner"
  /\ \/ InstanceKey = Keyless /\ TaskBecomes(r, NoTask) /\ UNCHANGED unsettled
     \/ /\ InstanceKey # Keyless                            \* probed, or /owner/me fails
        /\ TaskBecomes(r, IF task[r].what = "box" THEN [task[r] EXCEPT !.pc = "box"] ELSE NoTask)
        /\ UNCHANGED unsettled
     \/ /\ InstanceKey # Keyless /\ Unprobed
        /\ TaskBecomes(r, [task[r] EXCEPT !.pc = "back", !.key = InstanceKey])
        /\ unsettled' = (unsettled \/ WritingLegacy # {} \/ InstanceKey # keyFile[Legacy])
  /\ UNCHANGED <<keyFile, backups, envKey, keyState, serverPods, given, strayed, misled, boxes, bound, asked,
                 keyMishaps>>

\* provision: ownerForWorkspace looks the pod's key up once more.
MakesBox(r) ==
  /\ task[r].pc = "box"
  /\ TakesKey(r, task[r].pod, [NoTask EXCEPT !.pc = "made", !.pod = task[r].pod])
  /\ UNCHANGED <<keyFile, backups, envKey, keyState, serverPods, given, strayed, boxes, bound, unsettled, asked>>

BoxIsMade(r) ==
  /\ task[r].pc = "made" /\ boxes' = boxes \union {<<task[r].pod, task[r].key>>} /\ TaskBecomes(r, NoTask)
  /\ UNCHANGED <<keyFile, backups, envKey, keyState, serverPods, given, strayed, misled, bound, unsettled,
                 asked, keyMishaps>>

\* A write or a request fails, or the process ends.
KeyTaskFails(r) ==
  /\ task[r] # NoTask /\ KeyMishap /\ TaskBecomes(r, NoTask)
  /\ strayed' = IF task[r].pc \in {"back", "write"} THEN strayed \union {task[r].key} ELSE strayed
  /\ unsettled' = (unsettled \/ (task[r].pc = "meta" /\ task[r].what = "bind"))
  /\ UNCHANGED <<keyFile, backups, envKey, keyState, serverPods, given, misled, boxes, bound, asked>>

KeysNext == \/ BindsOrg
            \/ \E r \in Requests : \/ BindsTenant(r) \/ AsksOwner(r) \/ OpensPod(r) \/ ListsPods(r)
                                   \/ CreatesPod(r) \/ BacksUp(r) \/ Writes(r) \/ WritesOwner(r)
                                   \/ ReadsOwner(r) \/ MakesBox(r) \/ BoxIsMade(r) \/ KeyTaskFails(r)
KeysSpec == KeysInit /\ [][KeysNext]_keysVars

-----------------------------------------------------------------------------
KeysTypeOK ==
  /\ keyFile \in [KeyNames -> TenantKey \union {Keyless}] /\ backups \subseteq TenantKey
  /\ envKey \in TenantKey \union {Keyless} /\ owner \in TenantKey \union {Keyless}
  /\ orgBound \in BOOLEAN /\ ownPod \in Pods \union {NoPod} /\ serverPods \subseteq Pods
  /\ task \in [Requests -> [pc : {"rest", "list", "create", "back", "write", "meta", "owner", "box", "made"},
                            what : {"none", "bind", "ask", "open", "box"}, pod : Pods \union {NoPod},
                            key : TenantKey \union {Keyless}, was : TenantKey \union {Keyless}]]
  /\ given \subseteq Pods /\ strayed \subseteq TenantKey /\ misled \subseteq Pods
  /\ boxes \subseteq Pods \X TenantKey /\ bound \in TenantKey \union {Keyless} /\ unsettled \in BOOLEAN
  /\ asked \in 0..MaxAsked /\ keyMishaps \in 0..MaxKeyMishaps

\* A key the server gave once stays on disk, in a file or a copy, or in the hands of the request
\* that got it: it strays only where a request ends before it is written, a copy cannot be made,
\* or two requests write one file at once.
OnDisk == {keyFile[n] : n \in Stored} \union backups
HeldKeys == {task[r].key : r \in {q \in Requests : task[q].pc \in {"back", "write"}}}
GivenKeysAreKept == given \subseteq OnDisk \union HeldKeys \union strayed

\* The file of a pod holds the pod's key, and its mailboxes are made with it, unless a key was
\* taken for the pod that nothing had checked.
PodKeysAreExplained ==
  \A i \in Pods : i \notin misled => /\ keyFile[<<"own", i>>] \in {i, Keyless}
                                     /\ \A b \in boxes : b[1] = i => b[2] = i

\* What a user bound last is what dsh.key holds, unless another writer of it was about, or a
\* probe had been asked with a key from elsewhere.
BindingsAreExplained ==
  bound # Keyless /\ WritingLegacy = {} => keyFile[Legacy] = bound \/ unsettled

\* Whatever requests are under way: where the keys of the machine are, and whose they are.
KeysAreExplained == GivenKeysAreKept /\ PodKeysAreExplained /\ BindingsAreExplained

\* The comment at readTenantKeyForPod: never another pod's key.
NoPodTakesAnothersKey == \A i \in Pods : keyFile[<<"own", i>>] \in {i, Keyless}
\* The comment at readTenantKeyWithSource: the key of the environment is never written to disk,
\* unless somebody binds that very tenant.
EnvironmentIsNotStored ==
  [][envKey \notin OnDisk \union {task[r].key : r \in {q \in Requests : task[q].what = "bind"}}
       => envKey \notin OnDisk']_keysVars
\* What POST /setup says: this instance is bound to the tenant.
BindingsHold == bound # Keyless /\ WritingLegacy = {} => keyFile[Legacy] = bound
=============================================================================
