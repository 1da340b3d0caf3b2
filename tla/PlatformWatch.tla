---------------------------- MODULE PlatformWatch ----------------------------
(***************************************************************************)
(* What the ledger consumer of one address makes of the platform's daemons *)
(* (cutover.ts: observePlatformDaemon; ledger.ts: decideTopUp).  Mail that *)
(* comes while no daemon of the address is connected never enters the      *)
(* ledger.  Every round reads the status files and the locks of the        *)
(* daemons, judges from them whether the address is watched, and asks the  *)
(* server for its open mail when it thinks it is not.                      *)
(*                                                                         *)
(* The daemons - one for the whole machine, one for the tenant of the      *)
(* address - are the platform's: `link' is whether the connection that     *)
(* carries this address is up.  The consumer's cursor is there and found   *)
(* in the ledger, and what a round brings is delivered: how rounds fail is *)
(* in LedgerConsumer.  `overtaken' is history: letters still missing when  *)
(* a daemon was connected again.                                           *)
(***************************************************************************)
EXTENDS Naturals, FiniteSets

CONSTANTS MaxPosts,         \* bound: letters
          MaxTurnsOfFate,   \* bound: starts, ends and changes of connection of the daemons
          MaxReadFaults     \* bound: unreadable files, late beats, requests that fail

ASSUME PlatformAssumption == MaxPosts \in Nat /\ MaxTurnsOfFate \in Nat /\ MaxReadFaults \in Nat

Scopes == {"machine", "tenant"}
\* What a daemon puts into its status file: no file, no beat, no (clear) row for the address, all.
Styles == {"no file", "no beat", "no row", "full"}
Links  == {"connected", "disconnected", "stalled"}
NoFile == [row |-> "none", fresh |-> FALSE]

VARIABLES flat,             \* the address has no pod, and so no tenant
          style,            \* per daemon
          runs, link,       \* per daemon: the process, and its connection for the address
          file, pidfile,    \* per daemon: its status file; its lock: none, live or dead
          posted, missing, topped,  \* letters sent; not in the ledger; brought by a top-up
          overtaken,        \* history
          look,             \* the round: its step, the files it has read, its verdict
          fates, readFaults

platformVars == <<flat, style, runs, link, file, pidfile, posted, missing, topped, overtaken, look,
                  fates, readFaults>>
setting == <<flat, style>>
daemons == <<runs, link, file, pidfile>>
mailbag == <<posted, missing, topped, overtaken>>

AtRest == [pc |-> "rest", files |-> [d \in Scopes |-> NoFile], health |-> "none"]

PlatformInit ==
  /\ flat \in BOOLEAN /\ style \in [Scopes -> Styles]
  /\ runs = [d \in Scopes |-> FALSE] /\ link = [d \in Scopes |-> "disconnected"]
  /\ file = [d \in Scopes |-> NoFile] /\ pidfile = [d \in Scopes |-> "none"]
  /\ posted = 0 /\ missing = {} /\ topped = {} /\ overtaken = {} /\ look = AtRest
  /\ fates = 0 /\ readFaults = 0

\* daemonScopeCovers.
Covering == IF flat THEN {"machine"} ELSE Scopes
Ledgering == \E d \in Covering : runs[d] /\ link[d] = "connected"
ReadFault == readFaults < MaxReadFaults /\ readFaults' = readFaults + 1

-----------------------------------------------------------------------------
(* The platform *)

Fate == fates < MaxTurnsOfFate /\ fates' = fates + 1
\* The ledger goes on without what is missing.
Overtakes == overtaken' = IF Ledgering' THEN overtaken \union (missing \ topped) ELSE overtaken

DaemonStarts(d) ==
  /\ ~runs[d] /\ Fate /\ runs' = [runs EXCEPT ![d] = TRUE] /\ pidfile' = [pidfile EXCEPT ![d] = "live"]
  /\ \E l \in Links : link' = [link EXCEPT ![d] = l]
  /\ UNCHANGED <<setting, file, posted, missing, topped, look, readFaults>> /\ Overtakes

LinkChanges(d) ==
  /\ runs[d] /\ Fate /\ \E l \in Links \ {link[d]} : link' = [link EXCEPT ![d] = l]
  /\ UNCHANGED <<setting, runs, file, pidfile, posted, missing, topped, look, readFaults>> /\ Overtakes

\* It is stopped, or killed and leaves its lock behind.
DaemonEnds(d) ==
  /\ runs[d] /\ Fate /\ runs' = [runs EXCEPT ![d] = FALSE]
  /\ \E left \in {"none", "dead"} : pidfile' = [pidfile EXCEPT ![d] = left]
  /\ UNCHANGED <<setting, link, file, mailbag, look, readFaults>>

\* Every five seconds.
Beats(d) ==
  /\ runs[d] /\ style[d] # "no file"
  /\ file' = [file EXCEPT ![d] = [row |-> IF style[d] = "no row" THEN "silent" ELSE link[d], fresh |-> TRUE]]
  /\ UNCHANGED <<setting, runs, link, pidfile, mailbag, look, fates, readFaults>>

\* 45 seconds without a beat: the daemon is gone, or it is late.
BeatAges(d) ==
  /\ file[d] # NoFile /\ file[d].fresh
  /\ file' = [file EXCEPT ![d].fresh = FALSE]
  /\ IF runs[d] THEN ReadFault ELSE UNCHANGED readFaults
  /\ UNCHANGED <<setting, runs, link, pidfile, mailbag, look, fates>>

MailComes ==
  /\ posted < MaxPosts /\ posted' = posted + 1
  /\ missing' = IF Ledgering THEN missing ELSE missing \union {posted'}
  /\ UNCHANGED <<setting, daemons, topped, overtaken, look, fates, readFaults>>

-----------------------------------------------------------------------------
(* A round *)

\* A file that cannot be read or parsed is passed over (readDaemonStatuses).  Rounds before the
\* first letter are left out.
ReadsStatuses ==
  /\ look.pc = "rest" /\ posted > 0
  /\ \E torn \in SUBSET {d \in Scopes : file[d] # NoFile} :
       /\ IF torn = {} THEN UNCHANGED readFaults ELSE ReadFault
       /\ look' = [look EXCEPT !.pc = "locks",
                               !.files = [d \in Scopes |-> IF d \in torn THEN NoFile ELSE file[d]]]
  /\ UNCHANGED <<setting, daemons, mailbag, fates>>

\* connectionHealth, for the rows that are about the address (relevantStatusTenants).
\* Slip: a connection reported as lost says nothing.
ConnectionHealth_Blind(row) == IF row \in {"silent", "disconnected"} THEN "nothing"
                         ELSE IF row = "connected" THEN "up" ELSE row
ConnectionHealth(row) == IF row = "silent" THEN "nothing" ELSE IF row = "connected" THEN "up" ELSE row

\* daemonHealthFromStatus: silence of a file with a beat is taken for a good sign.
HealthOf(d, f) ==
  IF style[d] # "no beat" /\ ~f.fresh THEN "dead"
  ELSE IF ConnectionHealth(f.row) # "nothing" THEN ConnectionHealth(f.row)
  ELSE IF style[d] = "no beat" THEN "unknown" ELSE "up"

\* observePlatformDaemon: the tenant's file before the machine's; without a file, the locks.
Matching(files) == {d \in Covering : files[d] # NoFile}
Best(files) == IF "tenant" \in Matching(files) THEN "tenant" ELSE "machine"
ScopeCovered == \E d \in Covering : pidfile[d] = "live"
Observed(files) == IF Matching(files) # {} THEN HealthOf(Best(files), files[Best(files)])
                   ELSE IF ScopeCovered THEN "unknown" ELSE "dead"

ReadsLocks ==
  /\ look.pc = "locks" /\ look' = [look EXCEPT !.pc = "decide", !.health = Observed(look.files)]
  /\ UNCHANGED <<setting, daemons, mailbag, fates, readFaults>>

\* decideTopUp, with a cursor whose anchor is found and no lag.
CallsForTopUp(health) == health \in {"stalled", "dead", "disconnected"}
WantsTopUp == CallsForTopUp(look.health)

EndsLook ==
  /\ look.pc = "decide" /\ look' = AtRest
  /\ \/ WantsTopUp /\ topped' = topped \union missing /\ UNCHANGED readFaults
     \/ WantsTopUp /\ ReadFault /\ UNCHANGED topped         \* fetchUnread throws
     \/ ~WantsTopUp /\ UNCHANGED <<topped, readFaults>>
  /\ UNCHANGED <<setting, daemons, posted, missing, overtaken, fates>>

-----------------------------------------------------------------------------
(* The report on the address (assessDaemonCoverage), from the files and locks of the moment *)

\* connectionAxis: the worst of all rows about the address, whosever file they are in.
\* Slip: one good connection outweighs the others.
ConnectionAxis_Best(rows) ==
  IF "connected" \in rows THEN "connected"
  ELSE IF "stalled" \in rows THEN "stalled" ELSE IF "disconnected" \in rows THEN "disconnected" ELSE "unreported"
ConnectionAxis(rows) ==
  IF "stalled" \in rows THEN "stalled" ELSE IF "disconnected" \in rows THEN "disconnected"
  ELSE IF "connected" \in rows THEN "connected" ELSE "unreported"

\* wake_source: how the beat of a file looks is not asked.
WakeSource ==
  LET axis == ConnectionAxis({file[d].row : d \in Matching(file)})
  IN IF ~ScopeCovered THEN "none"
     ELSE IF axis \in {"disconnected", "stalled"} THEN "top-up-only"
     ELSE IF axis = "unreported" /\ \E d \in Scopes : file[d] # NoFile THEN "unconfirmed"
     ELSE "ledger"

-----------------------------------------------------------------------------
LookSteps == ReadsStatuses \/ ReadsLocks \/ EndsLook
PlatformNext == \/ LookSteps \/ MailComes
                \/ \E d \in Scopes : DaemonStarts(d) \/ LinkChanges(d) \/ DaemonEnds(d) \/ Beats(d)
                                     \/ BeatAges(d)
\* The rounds go on, a running daemon writes its file, and time passes over the others' files.
PlatformFairness == /\ WF_platformVars(LookSteps)
                    /\ \A d \in Scopes : /\ WF_platformVars(Beats(d))
                                       /\ WF_platformVars(~runs[d] /\ BeatAges(d))
PlatformSpec == PlatformInit /\ [][PlatformNext]_platformVars /\ PlatformFairness

-----------------------------------------------------------------------------
Files == [row : Links \union {"silent"}, fresh : BOOLEAN] \union {NoFile}

PlatformTypeOK ==
  /\ flat \in BOOLEAN /\ style \in [Scopes -> Styles]
  /\ runs \in [Scopes -> BOOLEAN] /\ link \in [Scopes -> Links]
  /\ file \in [Scopes -> Files]
  /\ pidfile \in [Scopes -> {"none", "live", "dead"}]
  /\ posted \in 0..MaxPosts /\ missing \subseteq 1..posted /\ topped \subseteq missing
  /\ overtaken \subseteq missing
  /\ look \in [pc : {"rest", "locks", "decide"}, files : [Scopes -> Files],
               health : {"none", "up", "unknown", "dead", "stalled", "disconnected"}]
  /\ fates \in 0..MaxTurnsOfFate /\ readFaults \in 0..MaxReadFaults

\* A daemon that runs, or has run, without telling: its lock alone vouches for the address, or
\* its file, that has no beat or no row for the address.
KeepsSilent(d) == \/ pidfile[d] = "live" /\ style[d] # "full"
                  \/ file[d] # NoFile /\ style[d] \in {"no beat", "no row"}

\* A letter that never entered the ledger is brought by a top-up, unless a daemon was connected
\* again before a round noticed, or one that does not tell covers the address.
MissingMailIsFetched ==
  \A m \in 1..MaxPosts : []<>(m \in missing => \/ m \in topped \/ m \in overtaken
                                              \/ \E d \in Covering : KeepsSilent(d))

\* The report and the rounds judge the address alike: where the report counts on the ledger no
\* round asks for the mail, and where it counts on the rounds they ask for it - unless a beat is
\* late, a daemon that is gone left its file, or two files disagree.
LateBeat == \E d \in Matching(file) : style[d] # "no beat" /\ ~file[d].fresh
ReportAgreesWithRounds ==
  LET asks == CallsForTopUp(Observed(file))
  IN /\ WakeSource = "ledger" => ~asks \/ LateBeat
     /\ WakeSource = "top-up-only" => asks \/ \E d \in Matching(file) : file[d].row # file[Best(file)].row
     /\ WakeSource = "none" => asks \/ Matching(file) # {}

\* What the file says of stopping a daemon, sending and starting it again: no wake-up is lost.
StoppedMailIsFetched == \A m \in 1..MaxPosts : m \in missing ~> m \in topped
=============================================================================
