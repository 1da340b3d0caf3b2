# msg9 kit: verification

TLA+ models of the msg9 kit, the model checking of them with TLC, and proofs
about them with TLAPS. The reference is the source under `src/src/`; where a
comment or a test of it says something else than the code does, the model
follows the code and the difference is listed under [Findings](#findings).

- `PROJECT.json` lists the components, the runs, the mutants each property was
  shown to catch, the source lines behind every definition (`map`), the
  findings, the hazards and the theorems.
- `tlc -config <run>.cfg <module>.tla` repeats a run, `tlapm <module>.tla` the
  proofs of a module.

Contents: [The system](#the-system), [Modules](#modules), [Runs](#runs),
[Fairness](#fairness), [Findings](#findings), [Proofs](#proofs),
[Not modelled](#not-modelled).

## The system

An *agent inbox* lives on a msg9 server. Each workspace of a dsh host may have
an identity (an inbox with a signing key); mail for it must be announced in a
live agent session. Three ways lead from the server to a session:

1. **The watcher daemon** (`src/host/daemon/`): one process per machine, shared
   by all dsh instances. Per identity an `InboxRunner` keeps a WebSocket
   *doorbell*, pulls new mail, gathers it into a batch, POSTs the batch to the
   dsh instance that registered the inbox, and advances a persisted cursor after
   the instance's acknowledgement.
2. **The ledger consumer** (`ledger.ts`, `watch.ts`, `consumers.ts`): the host
   polls a JSONL file (the ledger) to which the platform's own daemon appends one
   line per letter. All hosts share one cursor file; a lease that lets only one
   of them consume exists but is off by default.
3. **The in-process watcher** (`watch.ts`): a stream loop per inbox inside the
   plugin, or an interval poll of all, when no daemon can be had.

`cutover.ts` decides at start which of them it is, and `index.ts` carries that
out. Around them are the plugin's HTTP routes and panel, the credential and
state stores, and the tools the agent calls.

### Inventory

| Component | State it keeps | Operations | What makes it correct |
|---|---|---|---|
| Inbox runner, pending queue (`daemon/engine.ts`, `state.ts`) | `state.json` per inbox (watch/fetch cursor, sequences, `delivered_ids`, batch, pending items, mute), volatile `fetchCursor`, timers, `fetching`/`flushing`/`replaying` flags | fetch pass, bootstrap, enqueue, flush, ack, park, replay, orphan sweep, mute, start | nothing acked that was not announced, parked or meant to be silent; the cursor never moves back; no duplicate without a fault; every batch is armed; mail is settled in the end |
| Doorbell (`daemon/engine.ts` `loop`, `daemon/wsclient.ts`) | the connection, its handlers, the close-waiter, the watchdog, the backoff; the parser's bytes and fragments | ticket, connect, attach, catch-up, park, release, stop; frames to texts | never parks on a promise nobody resolves; comes back after any failure; every letter is fetched although pushes are lost; a text is heard whole and once; `stop()` ends it |
| Control server, registry (`daemon/server.ts`) | registered instances, heartbeats | register, heartbeat, unregister, prune, `/notify`, `/status` | a removed entry is a dead instance; the mute switch reaches the next fetch |
| Start, single instance (`daemon/main.ts`) | start lock, `daemon.json` | lock, stale-lock recovery, listen, shutdown | at most one daemon |
| Plugin-side client (`daemonclient.ts`) | heartbeat timer, registrations | find or spawn, register, re-register | one daemon per machine; an instance ends registered |
| Daemon log (`daemonlog.ts`) | the log and its archives | look, shift, copy and truncate | a line disappears only with the oldest archive or in a named window |
| Ledger consumer (`ledger.ts`, `watch.ts`) | consumer cursor file (anchor, seen ring), announced ring | poll, top-up, deliver, commit | no ledger line skipped; cursor moves only past what was announced |
| Presence and lease (`consumers.ts`) | lease file | acquire, sign, release, stale takeover | two hosts do not announce the same line; some host always gets a round |
| Cutover (`cutover.ts`) | none of its own; reads the platform's status files and locks | plan of the wake sources, health of the platform's daemons, top-up, coverage report | exactly one channel wakes; mail the ledger missed is asked for; report and rounds agree |
| In-process watcher (`watch.ts`, `index.ts`) | persisted position, batch, ring, noted session | stream, poll, coalesce, deliver, supervise | as the runner, without a pending queue |
| Wake budgets (`watch.ts`, `engine.ts`) | wakes per session and per mailbox | decide, charge | no more wakes than the budget has |
| State store (`store.ts`) | `state.json` of the plugin, its lock file | locked read-modify-write, stale-lock recovery | no lost update |
| Credential store (`credentials.ts`) | yaml and seed per project key, tenant key files, old records | load, save, migrate, look up, merge marks | a key the server gives once is never lost or laid beside another's address; migration is idempotent |
| Mailbox service (`service.ts`) | none of its own | open, open a pod, rotate, sign, migrate | no identity is provisioned twice |
| Address resolution (`api.ts`) | cache of resolved addresses | resolve, store, evict | an answer is no older than its time to live and a request |
| Browser bridge (`http.ts`) | unread cache | routes, server-sent events | a cached count does not outlive its source |
| Panel store (`client/store.ts`) | lists, selection, marks, draft with its idempotency key | load, mark, select, send | an old answer never overwrites a newer one; one draft is one letter |
| Tools (`tools.ts`) | the saved position of the workspace | pull, mark, done, reply | no letter is hidden from the agent unseen |
| API client, signing, locale, workspaces, views, scripts | - | request plumbing, formatting | not a matter of states |

They meet in files (state, credentials, lease, ledger, log), in HTTP calls (plugin to
daemon: register, heartbeat, mute; daemon to plugin: deliver) and in callbacks
(WebSocket events, timers). The hard behaviours are the awaits of one JavaScript
thread, between which timers, sockets and other promises run; crashes between two
writes of a file; answers lost after their effect; lock files taken over from
processes that are thought dead.

## Modules

| Module | Models | Proofs |
|---|---|---|
| `MailPromise` | abstract: what each way of mail to a session promises | |
| `AtomicStore` | abstract: what the callers of `store.ts` take `state.json` to be | |
| `WatcherDaemon` | one inbox of the daemon: fetch, batch, flush, pending queue, replay, sweep, mute, store | `WatcherDaemon_proofs`, `WatcherCursor_proofs`, `WatcherLoss_proofs` |
| `Doorbell` | the WebSocket loop of one inbox and the fetches it triggers | `Loops_proofs` |
| `WsFrames` | bytes to frames to texts on one connection | `Loops_proofs` |
| `LedgerConsumer` | the hosts that consume one ledger with one cursor file: selection, baseline, top-up, delivery, commit | `LedgerConsumer_proofs` |
| `ConsumerLease` | the lock of a consumer's round between processes | `Loops_proofs` |
| `PlatformWatch` | what a consumer makes of the platform's daemons | `Loops_proofs` |
| `WakeWiring` | which loops run in which life of the plugin's effect | `Loops_proofs` |
| `LogRotation` | the daemon's log, rotated by several plugins | `Loops_proofs` |
| `InboxWatcher` | the in-process watcher of one inbox | `Host_proofs` |
| `StateStore` | read-modify-write cycles over the lock file of `state.json` | `Host_proofs` |
| `DaemonLife` | spawning, finding, registering with the one daemon | `Host_proofs` |
| `WakeBudgets` | the storm budgets of plugin and daemon | `Loops_proofs` |
| `UnreadBadge` | the unread count from server to panel | `Mailbox_proofs` |
| `PanelStore` | lists, views, requests and marks of the panel | `Mailbox_proofs` |
| `Composer` | the draft and its idempotency key | `Mailbox_proofs` |
| `AgentMailbox` | the position the agents' tools share | `Mailbox_proofs` |
| `LetterMarks` | who read and closed a letter: server and local marks | `Mailbox_proofs` |
| `Records` | records, yaml files and seeds under concurrent handlers | `Records_proofs` |
| `TenantKeys` | tenant key files, their lookup and what writes them | `Records_proofs` |
| `ResolveCache` | the cache of resolved addresses | `Records_proofs` |
| `MCWatcherDaemon`, `MCDoorbell`, `MCLedgerConsumer`, `MCBadge`, `MCRecords` | bounds for TLC, and statements of comments which the code does not keep | |
| `MCLoops`, `MCHost`, `MCPanel`, `MCMachine` | several independent modules in one run | |

The last row is an idiom of its own. Modules that share no state are checked in one
run: a variable (`part` or `side`) is chosen at the start, the module it names takes
the steps, the others rest in an initial state in which nothing of them can move.
What is checked of each is what a run of its own would check; fairness of a module
at rest holds trivially, since none of its steps is enabled or, where it is
stated over all, none is taken (`MCHost`). Every module keeps its own `...Init`,
`...Next`, `...Spec` and `...TypeOK`, so each can also be run, and is proved about, alone.

The modules contain, just before some definitions, a variant with a plausible
slip (`Commit_Unguarded`, `Stopped_Not`, ...). They belong to no specification:
`PROJECT.json` names, for every property of every run, the variant that breaks it.

### MailPromise and AtomicStore

`MailPromise` has two variables: `passed`, the letters behind the position on disk,
and the `status` of each letter - waiting at the server, held by the process, told,
or excused (read elsewhere, muted, or met a named loss window). A step moves
statuses along `Moves` and may pass only what is not waiting. The daemon
(`DaemonKeepsThePromise`), the in-process watcher (`WatcherKeepsThePromise`) and the
ledger consumer (`ConsumerKeepsThePromise`) implement it under the mapping given at
each. It is also what says that the windows are no way out for a letter already told:
`told` is never left.

`AtomicStore` is a set of changes to which a write adds its own at one moment; once
a lock was taken from a live holder (`sound` is over) a write may leave anything
behind but its own change. `StateStore` implements it (`StoreIsAtomic`).
### WatcherDaemon

The daemon is one thread, so an action is the code between two awaits. The
processes of an inbox are records with a `pc` that names the await they stand
at: `fetch` (`fetchNew`, `fetchPass`, `bootstrap`, `enqueue`), `flush` (`flush`,
`flushPass`, `ackBatch`, `toPending`), `replay` (`replayPending`) and `sweep`
(`sweepOrphanPending`). What a process reads before an await and uses after it
is a field of its record; what it reads again is read from `mem`.

`mem` is the `DaemonState` object and `disk` the file `state.json`.
`DaemonStore.mutate` changes memory at once and then awaits the write:
`Mutate(who, s)` does the first and sets `writing`, `Persisted` ends the write,
`WriteFails` rejects it. Other processes read the new memory in between; the
store's promise queue lets no second mutation start before the write has ended.

A letter is its position in the server's stream; a cursor the server issued is
the position of the last letter it covers, 0 none. `Arrive` and `Close` are the
server and other readers of the mailbox, `instance` is the registry's entry:
`"none"`, `"portless"` (registered, port not known yet), `"live"`, or `"stale"`
(heartbeats have lapsed).

The history variables are `told` (how often an instance accepted each letter),
`waived` (letters the daemon meant not to announce: the baseline of a first
start, muted mail, archived orphans) and `exposed`, the letters that met one of
the four windows in which this code loses mail:

| Window | Where | What happens |
|---|---|---|
| `missed` | `engine.ts:560-570` | the bootstrap sets `fetchCursor` to the newest letter, then reads older pages by offset; a page that fails, the page limit, or mail arriving meanwhile, leaves letters behind the cursor unread |
| `torn` | `engine.ts:489` | `fetch_cursor` is written before the batch; a crash, or a failed write, between the two leaves letters behind the cursor in no batch |
| `late` | `engine.ts:716` | a letter joining the batch while it is posted is acked and cleared with it |
| `dropped` | `engine.ts:773` | the oldest item of a full pending queue is dropped |

The properties say that the daemon loses mail nowhere else; each window is a
disjunct of an action that the runs take. A letter in a window is not always lost:
one dropped by the queue may be read again by a bootstrap that looks past its cursor.

Left out: one runner per inbox never stops here (`runner.stop` on a vanished
identity); one registered instance per inbox, so that choosing among several is
not seen; unread counts and addresses, whose writes of the whole state are
`Rewrite`, and whose failed requests end a pass like `FetchFails`; the wake mode
and its storm budget, which change the text of a delivery (`WakeBudgets`); the ring of 200
`delivered_ids`, larger than the mail of a run; the pages of the reconcile
request. The branch of `flushPass` for an empty batch (`engine.ts:684-689`) is
unreachable after the test at its head.

### Doorbell

`pc` is where `loop()` awaits: `ticket`, `connect`, `attach` (the promise of the
handshake is resolved and its continuation still to run), `catchup`, `caughtup`,
`park`, `backoff`, `done`. `wire` is the TCP connection behind the newest
`WsConnection`; `attached` says that its handlers are installed, before which an
event is dropped; `held` that `this.ws` is that connection; `waiter` and
`released` are the resolver `wsWaiter` and the state of the promise behind it.
The fetch pass shows only when it asks, when it is answered and whether it is
asked again. `breaks` counts the failures: refused tickets, failed handshakes,
closes, silent networks, lost pushes, failed requests. Left out: encoding of
frames (`WsFrames`), content of tickets, the length of the backoff, the identity list (a
runner is stopped in the step in which its identity vanishes).

### LedgerConsumer

`ledger` is the file, a sequence of letters in which a letter may come again at
any place; `cursor` is the shared cursor file, the *name* of a letter (or none,
or the mark for "before the first line"). `round[h]` is the round of host `h`:
`cursor` (the ledger is read, the cursor not yet), `page` (lines are selected,
the page of unprocessed mail is awaited), `deliver`, `write` (the ring is noted,
the cursor file is being written). A round carries what `pollOnce` and its
`commit` closure capture: how much of the ledger it read (`len`), its last line
(`to`), the name it will write (`next`) and the letters it will acknowledge
(`acked`). `seen[h]` and `announced[h]` are the consumer's ring and the ring of
all wake paths; both are gone after `Exit(h)`. `ReadCursor` is everything from the
answer of `readConsumerCursor` to the next await, the early return of `runRound`
included; `FetchPage` the top-up and `planLedgerBatch`. A new copy of the cursor's
own letter moves the cursor, since `selectFreshEvents` takes the last copy:
`AppendLine` and `WriteCursor` record what it passes over.

`told`, `baselined` and `muted` are letters announced and those left silent on
purpose; `inherited` is what stood on the ledger when the cursor file came to be;
`exposed` are the letters that met one of three windows:

| Window | Where | What happens |
|---|---|---|
| `skipped` | `ledger.ts:341` | the cursor names a letter of which a later copy stands on the ledger: the lines up to the copy are passed over unread |
| `unpaged` | `cutover.ts:1016` | a fresh line whose letter is not on the page of 100 unprocessed letters counts as processed elsewhere |
| `blinded` | `ledger.ts:255` | a read of the cursor file that fails is taken for no cursor file: the backlog becomes history |

Left out: the lease (`ConsumerLease`; on, it only removes rounds), the platform's compaction of the
ledger, malformed lines, the eviction of the rings, wake budgets and the choice of
a session, presence files.

### WsFrames

The stream is a sequence of frames of two pieces each; `arrived` pieces have come, a
chunk being any number of them, and `parsed` frames were handed on. `fragments` is
`this.fragments`, `texts` what `ontext` was given. `inTail` and `spoiled` are history:
messages that came whole with the tail of the handshake, and those in a chunk the
parser threw at. `Handled` is the loop of `onData`: a function of the number of frames,
each of which `Handle` takes in turn. Left out: masking and the encoding of lengths.

### ConsumerLease, PlatformWatch, WakeWiring

`ConsumerLease`: per process the step of its turn - `open`, `judge`, `sweep`, `sign`,
`round`, `look`, `remove` - and one lock file, which is a record of who made it,
whether it is signed and whether it is old; every removal goes by the path, whichever
file lies there. `robbed` is history: how a process came to lose its lock. Left out:
the presence files, which only `msg9_status` reads.

`PlatformWatch`: the platform's two daemons (one per machine, one per tenant) are the
environment: they run, are connected, write status files of four `Styles`, leave a
lock behind. A round reads the files (`look`), judges (`Observed`, `ConnectionAxis`,
`ConnectionHealth`) and asks for open mail when it thinks nobody watches.
`overtaken` is history: what was still missing when a daemon was connected again.

`WakeWiring`: a *life* is one mounting of the effect in `index.ts`. `passes` are the
reconcile passes under way with what each has read, `followers` the loops with what
they were started with, `polls` the lives with a poll timer, `target` the life the
daemon delivers to. `late` is history: lives that ended, or fell back, over a pass. A
record is of old (its key still in `state.json`) or migrated; the stream supervisor reads
the file itself and starts a loop for the former only (`index.ts:674`), the ledger's reads
it through the credential store. What the stream supervisor so leaves out is the finding
`unwatched`, and `LedgersAreConsumed` claims nothing of it; nor does it claim that a
ledger loop comes to use a key rotated in its life (`KeysAreFollowed`).

### LogRotation

A file is the set of lines it holds; a rotation is the sequence of synchronous calls
`drop`, `shift`, `copy`, `truncate` of one process, between which the daemon writes
and other processes rotate. A rename may find no archive, move it, or fail: the code
takes the third for the first and goes on (`daemonlog.ts:153-159`), so that the next
archive, or the copy, is put over the one left in its place. Any other call that fails
ends the rotation, a copy perhaps in part. `outdated`, `unmoved`, `between` and `raced`
say why a line is gone.

### InboxWatcher

`reader` holds the two loops (`stream`, `poll`) with the page in hand, `batch` the
letters of the coalescing window, `deliveries` the calls of `deliverBatch` between
their awaits, `ring` the announced ring, `watchCursor` and `lastSeen` the persisted
position. `fate` names, for each letter, the first of nine points at which it was put
out of reach unannounced: history before the inbox was watched, the page's end, the
gap of a minted cursor, the mute switch, closed elsewhere, nobody to tell, a session
that ended, a torn write, a crash. Left out: what the notice says.

### StateStore and DaemonLife

`StateStore`: a cycle is `open` (create or find the lock file), `stat`, `probe`,
`remove` (the judgement of another's), `sign`, `load`, `save`, `release`. Lock files
are numbered so that a removal by path can hit another file than the one judged;
`blame` is history: such a removal, or a holder that took longer than
`LOCK_STALE_MS`. The file is the set of changes it carries, so a lost update shows.

`DaemonLife`: daemons are numbered as they are spawned; `proc` is the step of each
(`look` at `daemon.json`, `open`/`stat`/`remove`/`sign` the start lock, `boot`,
`watch`, `drop`, `run`, `close`, `unlink`), `client` that of each plugin (`find`,
`await`, `register`, `beat`, `self`). A port may be given out again, so a stranger may
answer. A daemon that takes longer than 800 ms over `/healthz` is taken for none, by a
daemon and by a plugin (`Asks`), and a heartbeat may time out beside a daemon that lives;
each counts as a fault. `slips` is history, kept for each daemon: a look gone stale or
answered too slowly, a daemon that is not the one named, a lock file removed by another.
Left out: the protocol number.

### WakeBudgets

The plugin's budgets (per session, per mailbox), the daemon's, its batch and its queue
with the decision each was stored with. A budget is the set of its charges, each an hour and
the number of a decision. `heard` records what a session heard, decided by which life of
which payer. Hours bound the clock.

### UnreadBadge

A count is the version of the mailbox it was taken from, so an old count shows.
`task` are the computations of `computeUnread`, `cache` its cache, `reading` the push
side (the stream loops' snapshots or the daemon's word), `recon` the slow diff, `panel`
the panel's request, `sse` the event stream. `floor` is what the panel may expect:
what reads acknowledged before it asked. `why` is the one reason a value may be older.

### PanelStore, Composer, AgentMailbox, LetterMarks

`PanelStore`: `asks` are requests under way with the view they were made for and
whether their number is still the last (`current`); `shown` is what a list shows,
`marks` the read marks under way with the list each found. Left out: settings, rules,
contacts, message bodies.

`Composer`: a draft, the key kept for it, one request at a time, requests still on the
wire, and the letters the server made, one per key.

`AgentMailbox`: the position (`cursor`, `lastSeen`) shared by the sessions of a
workspace; a call reads it at `ask`, writes it at `save`, marks at `mark`.
`passedOver` is history: letters a pull put behind the position unseen because it was
a pull of a narrower view, its page was too short, or the call was lost.

`LetterMarks`: one letter with the server's word (`said`) and the local `mark`;
handlers ask the server first and then write the mark. `swallowed` and `merged` are
history: a failure taken for done, the marks of an old record.

### Records, TenantKeys, ResolveCache

`Records`: records of `state.json` (`record`), old `bucket`s, a yaml (`cred`) and a
`seed` per project key; `job` are the handlers of opening, pods, migration, rotation,
removal and relinking between their awaits; `moving` is the credential migration,
which holds the lock. `lost` and `mixed` name how a key was lost or laid beside the
wrong address. `clear`, of a handler or the move, remembers whether the project key it chose
was free when it chose it. Left out: pods under several labels, marks and cursors in a record,
further candidate names after a 40900, workspaces without a common repository.

`TenantKeys`: the files of `tenants/`, copies, the key of the environment, `state.org`
and `state.owner`; requests bind a tenant, probe an owner or open a pod. Files are
written outside the lock. `strayed`, `misled`, `unsettled` are history. Left out: ORG
key files.

`ResolveCache`: the Map as its order and what is kept per key; several requests of one
address may overtake each other. Time is counted up to `MaxTime`.

## Runs

Twelve runs; ten pass, two are [findings](#findings).

| Run | Bounds | Shows |
|---|---|---|
| `daemon_calm` | 2 letters, pages of 1, queue of 1, one use of the mute switch, one letter closed elsewhere, no fault | `EveryLossIsExplained`, `PersistedCursorIsMonotone` over every interleaving |
| `daemon_faults` | 1 letter with up to three of a crash, a failed write, a lost answer, the mute switch, a close; or 2 letters and none (`WithinBudget`) | `AckedIsDurable`, `NoDuplicateWithoutFault`, `BatchIsArmed`, the refinement of `MailPromise` |
| `daemon_live` | 1 letter, one crash, one lost answer, fairness | `MailIsSettled` |
| `ledger` | 1 host, 2 letters, 3 lines, rounds and pages of 1, one exit, one failure, one close, fairness | `ToldOncePerLife`, `LedgeredIsSettled`, the refinement of `MailPromise` |
| `ledger_hosts` | 2 hosts, 2 letters, 2 lines, one exit, one failed request, read or write | `CursorCoversTheSettled`, `NothingNewIsSwallowed` while rounds overlap |
| `badge` | 1 mailbox, either channel, one change, one read or one failure, two computations at once | `OldCountsAreExplained`, `BadgeConverges` |
| `panel` | 2 workspaces, 2 directories or 2 folders, 2 letters, 2 requests and 2 marks under way; 2 drafts, 3 keys; 2 records, 3 agents, 2 handlers at once and three events; 2 sessions, 2 letters | `FittingListsStay`, `ShownReadIsRead`; `RetriesDeliverOnce`; `CredentialsAreKept`, `OthersAreLeftAlone`; `HiddenIsExplained` |
| `host` | 2 letters or upsets together; 2 processes, 3 changes, a crash or stall; 2 plugins, 2 daemons, one fault | `AnnouncedTwiceOnlyInARace`, `MailIsAnnounced`, the refinement of `MailPromise`; that of `AtomicStore`; `SecondDaemonIsExplained`, `RegistrationHeals` |
| `loops` | 3 letters and 3 failures of the bell; 2 consumers, 2 faults; 1 workspace, 2 addresses, 2 lives, 2 changes; 1 letter, 2 turns of the platform's daemons; 2 rotating processes, 3 archives, 6 lines, one failure | `BellIsWatched`, `BellIsRestored`, `LettersAreFetched`; `SharedRoundsAreExplained`; `StrayWakersAreExplained`, `LedgersAreConsumed`; `ReportAgreesWithRounds`, `MissingMailIsFetched`; `LostLinesAreExplained` |
| `machine` | 4 frames; 3 letters, 3 hours, one stumble; 3 handlers of one letter, one fault; 2 pods, 2 requests, one mishap; 2 addresses, 2 askers, one place | `TextsAreHeard`, `WakesArePaidFor`, `MarksAreExplained`, `KeysAreExplained`, `AnswersAreYoung` |
| `removal`, `unwatched` | as `panel`'s records; one letter | findings |

Why the bounds are enough. Two letters are what the interleavings of the daemon
need: one in the batch and one that arrives during a post; one parked and one in
the batch; one below and one above a page boundary (`PageLimit = 1` makes the
second letter a second page, and `MaxPages = 2` lets the page limit be met). A
queue of one makes the second parked batch an overflow; a queue of two makes two
items whose acks commit out of order. One crash meets each pair of adjacent
writes; two of them are two independent restarts, since all that survives is
`disk`, whose reachable values the first one already covers. For the doorbell
three failures let a round fail in two ways while the next one is disturbed too.
Three ledger lines of two letters hold every pattern of copies around a cursor (a
copy before, at and after it), and rounds of one line make each of them a round's
end; a page of one leaves one fresh line outside it. With two hosts two lines suffice
for one host to be a line ahead of what the other has read. Of two processes at a
lock one can hold it, or have held it, while the other judges; the third change of the
state store is written after a lock was taken wrongly. Two sessions, directories,
handlers or requests are what it takes for one to overtake the other. Three
archives, as many as the code keeps, and six lines let the oldest archive go and leave one
that could not be moved beside one that was.

Where two things were tried, they are not enough for every question, and the proofs
say where: `NoDuplicateWithoutFault` without its exception holds with two letters and
fails with five (see [below](#statements-that-the-proofs-corrected)).

The runs of several modules (`loops`, `host`, `panel`, `machine`) and the findings set
`CHECK_DEADLOCK FALSE`: a stopped runner, a rotation with no line left to write, a
mailbox with every letter read really stop, and the bounds end what the program would
go on with.
## Fairness

`WatcherDaemon`: the safety-net interval and an ended write continue (weak
fairness). The steps of the four processes are strongly fair: each waits only for
the store's promise queue, which is first-in first-out, so a queued mutation is
reached whatever the others do. Of the environment it is assumed that a request
repeated for ever does not fail for ever (requests have timeouts), that an
instance asked for ever answers with a yes or a 409 in the end, that an item
redelivered for ever is taken, and that a backoff ends. `PendingDrains` is
claimed only of instances that come to stay (`<>[]HasTarget`).

`Doorbell`: timers fire, requests and handshakes under way time out, a frame on
a live wire arrives, and a resolved promise runs its continuation. The strong
fairness of a fetch pass without a further trigger stands for the safety net's
interval being longer than a pass. Failures are bounded, so a ticket and a
handshake succeed in the end. Nothing is assumed of the peer of a handshake that
ended without an answer.

`LedgerConsumer`: the timer of a running host fires again, and requests, reads and
writes end; how many fail is bounded. A session is found live in the end by a host
that has mail for one in round after round. The age of a line only grows, so rounds
that keep finding lines behind the cursor are topped up in the end (`LagTopsUp`,
from `computeCursorLag` and `decideTopUp`). Without this last rule
`LedgeredIsSettled` fails: after a failed write of the cursor the next rounds select
only letters that the ring already holds, and `runRound` returns without a commit
(`watch.ts:835-843`); the lag top-up, after five minutes, is what moves the cursor
past them. The property is claimed once a single host remains (`<>[]Alone(h)`),
since two hosts may move the cursor back against each other.

All others need weak fairness only:

| Specification | Assumed to go on | Justified by |
|---|---|---|
| `InboxWatcher` (`WatchFairness`) | the supervisor, each reader, the batch's timer, a delivery | intervals, request timeouts, one-shot timers |
| `StateStore` (`StoreFairness`) | the steps of a cycle of a process that lives | file operations end; the wait between two looks at a lock is a timer |
| `DaemonLife` (`LifeFairness`) | the steps of a daemon that lives, the start and the heartbeats of a plugin | a process runs; the wait for a daemon is bounded; the heartbeat is an interval |
| `UnreadBadge` | answers of requests, expiry of the cache, the two timers, the reopening of the stream | request timeouts, intervals, `EventSource` |
| `ConsumerLease` (`LeaseFairness`) | every loop's turn, and the ageing of a lock nobody holds | intervals; time passes |
| `WakeWiring` (`WiringFairness`) | answers to the start of the client, passes, the ends of loops | requests and reads come back; nothing makes the host mount |
| `PlatformWatch` (`PlatformFairness`) | rounds, the beats of a running daemon, the ageing of a dead one's file | intervals; time passes |
| `LogRotation` (`LogFairness`) | the heartbeat's look, the calls of a rotation | an interval; synchronous calls |

`PanelStore`, `Composer`, `Records`, `AgentMailbox`, `WsFrames`, `WakeBudgets`,
`LetterMarks`, `TenantKeys` and `ResolveCache` state safety only and assume none.

## Findings

| Run | Code | Says |
|---|---|---|
| `removal` | `http.ts:1592` deletes the credential files of a project key that another record names too | `http.ts:1560-1561`: the check is there so that the last holder of an address is not removed; `http.ts:1556`: only local |
| `unwatched` | `index.ts:674` skips every inbox without an `api_key` in `state.json`, where the migration leaves none (`credentials.ts:628-631`) | `index.ts:666-667`: "One long-poll loop per provisioned inbox" |

Five more were met on the way and are kept as definitions with a configuration of
their own that repeats the counterexample, outside the listed runs:

| Configuration, property | Code | Says |
|---|---|---|
| `daemon_late`, `AckedWasAnnounced` | `engine.ts:716` acks what the live batch holds after the post | `engine.ts:15-16` "The cursor advances ONLY after the instance acks" |
| `daemon_torn`, `CrashDropsNothing` | `engine.ts:489` writes `fetch_cursor` before the batch | `engine.ts:14` "persisted BEFORE flush so a crash cannot drop a batch" |
| `daemon_overflow`, `DroppedIsRefetched` | `engine.ts:773` drops an item that is behind `fetch_cursor` | `engine.ts:769-771` "the next fetch refetches them from the server" |
| `ledger_skip`, `RestIsSelectedNext` | `ledger.ts:341` finds the cursor at the last copy of its letter, past lines no round selected | `ledger.ts:295-296` "游标 = 第 N 条", "其余行仍在游标之后，下一轮照常被选中。" |
| `doorbell_handshake`, `HandshakeSettles` | `wsclient.ts:335` handles neither `end` nor `close` of the socket | `wsclient.ts:288-289` "Rejects with WsError ... on any failure" |

Other statements of comments and routes that the code keeps only in part stand beside
the property that says how far it does, with the comment they quote:
`UnreadBadge` `BadgeDropsAtOnce`; `PanelStore` `AnswersAreOfTheView`, `GateIsAwaited`,
`FailedMarksAreUndone`; `Composer` `DraftIsDeliveredOnce`; `StateStore`
`NoChangeIsLost`; `DaemonLife` `OneDaemonWatches`; `ConsumerLease` `OneRoundAtATime`;
`WakeWiring` `KeysAreFollowed`; `LogRotation` `OnlyTheWindowIsLost` (`daemonlog.ts:119-131`); `PlatformWatch`
`StoppedMailIsFetched`; `AgentMailbox` `DefaultPullsMissNothing`; `TenantKeys`
`NoPodTakesAnothersKey`, `EnvironmentIsNotStored` (`credentials.ts:319` against
`service.ts:91`), `BindingsHold`; `WakeBudgets` `StormIsBounded` (`README.md:318-321`,
`engine.ts:19`), `DegradesOnlyAtTheLimit` (`watch.ts:126-128`, `634`); `LetterMarks`
`DoneIsDone` (`http.ts:1362-1371`, `tools.ts:422-431`), `FirstReaderStays`
(`store.ts:471` against `credentials.ts:528-565`); `WsFrames` `TailIsHeard`
(`wsclient.ts:370`), `BinaryIsNotHeard`; `ResolveCache` `NewRecordsAreSeen`
(`api.ts:319`), `LeastUsedGoesFirst`. TLC finds each of them violated within the
bounds of the run of its module. `LogRotation` `LogComesDown` holds there, and is
in no run's list.


## Proofs

All theorems hold for every value of the constants that satisfies the modules'
ASSUMEs: natural bounds, positive page and queue sizes, names apart from the marks
that stand for "none". None assumes fairness, and none takes anything else on trust.
The argument is the same everywhere: an inductive invariant (checked by TLC on the
module's run first), one lemma per action or group of actions that keeps it, and the
properties as its consequences.

### The daemon

- `WatcherDaemon_proofs`: `TypeCorrect`, one lemma per group of actions.
- `WatcherCursor_proofs`: the order of the cursors. A *marker* is a cursor with
  the sequence it was minted under. `IInv` says that all markers in memory,
  those on disk, and those a process carries over an await are ordered alike by
  sequence and by cursor (`MarkersAligned`); that the disk is behind memory;
  that a queued batch is newer than every parked item (`Queued`); and what each
  process may rely on when it continues (`FetchInOrder`, `FlushInOrder`,
  `QueueReaders`). None of the properties is inductive alone: that a commit with
  a larger sequence moves the cursor forward is true only because every sequence
  in flight was minted with its cursor. From `IInv` follow `CursorsInOrder`,
  `AckBehindFetch`, `ParkedAreDistinct` and `PersistedNeverRegresses`
  (`[][...]_vars`).
- `WatcherLoss_proofs`: the daemon's central promise. `EveryLossIsExplained` speaks of
  the acked position of `mem`; but an ack may adopt the position of the batch, of
  a parked item, of the disk after a crash, or of the fetch under way. `LossInv` says of
  each position that could be adopted that the letters behind it are done with or in a
  place from which they will be told: the fetch cursor (`FetchedIsSafe`), the
  batch and each item of a state in memory or on disk (`StatesAreSound`), what a
  flush acks when it is answered (`FlushIsSafe`), what replay and sweep took in hand
  (`TakenUpIsSafe`, `TakenUpIsOlder`), and a pass that has rows and no place for them
  yet (`PassInPlace`). It rests on `IInv`: that a parked batch is older than the one
  in memory is why its ack passes nothing. From it follow `LossesAreExplained`,
  `AckedMailIsDurable` and `DaemonImplementsPromise`, which maps every step to a
  step or stutter of `MailPromise`. `BatchesAreArmed` has an invariant of its own.
  `TellInv` is about telling twice. A letter a state knows of is in the batch or in one parked
  item (`Apart`), what a flush has in hand is still in the batch (`FlushHolds`), and what replay has
  taken up is in its item, archived or dropped (`ReplayHolds`). A letter told as often as the faults so far allow
  is remembered, in memory and on disk, and nobody who would tell it has it (`ToldOut`); a
  fault allows for one more. It gives `ToldOnceButForFaults`.

### The doorbell and the loops of one machine

- `Loops_proofs`: seven modules.
  - `Doorbell`: from `BellInv`, which says that the connection, its watchdog and its waiter
    are held and let go together, follow `NeverHangs`, `WatchdogIsTruthful`, `RoundsAreClean`
    and, of the three together, `BellIsSafe`.
  - `ConsumerLease`: `UnrobbedHolds` (who was not robbed and is past making the lock
    file has its file lying there) and `CalmIsFresh` (where nothing stalls or dies a
    lock file is old only if nobody holds it) give `RoundsAreSharedForAReason`.
  - `LogRotation`: `AloneIsSafe` says, step by step of a rotation that met no other,
    which slot is free, unless the rename of what lies there failed (`left`), and what the
    copy holds; with it `LinesAreAccountedFor`: every step loses only what it notes
    (`LossesWereWritten`, `RenameOutcomes`, `LossIsNoted`).
  - `PlatformWatch`: `TheReportAgrees` needs no more than the types, but a case for
    every style of status file.
  - `WakeWiring`: `StrayWakersGoBackToPasses` from `WiringInv`: lives are numbered in
    the order of their mounting (`Numbered`), a pass never knows more than there is
    (`Fresh`), and passes, loops and polls each belong to a life that still watches or
    are `late` (`PassesAreTimely`, `LoopsAreTimely`, `PollsAreTimely`).
  - `WakeBudgets`: the property counts wakes by the window of their decision, and they are
    heard later, from a queue. `WakesInv` counts what was decided, heard or still queued
    (`Decisions`): a budget remembers the wakes of its life and window (`WakesAreCharged`),
    so a window never holds more of them than a budget has (`WindowsAreKept`). That a number
    stands for one decision, and that what the ring knows is marked told (`QueueIsNew`), gives
    the second half of `WakesArePaid`.
  - `WsFrames`: `FramesInv` says of the server that its data frames are numbered in their
    order and begin no message before the last is whole (`ScriptIsInOrder`), and of the
    connection that `fragments` are exactly those of the message under way
    (`FragmentsAre`), that texts are messages that are whole, in their turn (`TextsAre`), and
    that no other text had its last frame here (`Texts`). A chunk is handled by a recursive
    function: `HandledRuns` shows that it exists for any number of frames, and `ManyFrames`
    that what one frame keeps (`OneFrame`) they all keep. Both are inductions over the number
    of frames, made by a least counterexample (`LeastThere`), which the provers can do
    without an operator as parameter. They give `FramesTypes` and `TextsAreWhole`.

### The ledger

- `LedgerConsumer_proofs`: every safety property of the runs, for any number of
  hosts. `LInv` (what a process said in this life is in its ring) gives
  `LedgerTypes` and `ToldOnce`. `CoverInv` strengthens `CursorCoversTheSettled` by
  what a later write will claim: the rings hold only covered letters, the lines up
  to the end of a round in flight are covered but for the letters it has in hand,
  and every anchor is on the ledger; it gives `NothingIsPassedUncovered`.
  `HistoryInv` gives `OnlyHistoryIsSilent`. `LastLine` and `PositionRange` are the
  facts about positions in a file that everything rests on.
  `ConsumersImplementPromise` maps every step of every host to a step or a stutter of
  `MailPromise`: what the cursor of a commit passes was covered before it.

### The host's files and processes

- `Host_proofs`: `StoreInv` says that a lock file has one owner, that the changes a
  cycle carries are its own and what it read, that what was saved is in the file, and
  that as long as nobody was robbed cycles do not overlap (`LocksAreOnes`,
  `ChangesAreOnes`, `SavedIsPast`, `CyclesAreApart`). It gives `TheLockExcludes`,
  `SavedIsKept`, and `StoreIsAtomicStepByStep`: initial states and steps of
  `StateStore` are those of `AtomicStore`, or stutters. `LifeInv` says of any
  two daemons between taking the lock and their end that something was amiss for one of
  them, and that the lock file is a daemon's own until it drops it, unless it was removed
  (`OneClaims`); `ClaimsOutliveTheLock` is the step that removes the file, whoever's it is.
  It gives `SecondDaemonsAreExplained`.
- `Host_proofs` also holds the in-process watcher. A page's letters count for the
  promise once it is read, but its cursor is written before they are in a batch, and
  two readers write the same cursor. `WatchInv` says that all behind `lastSeen` and
  `watchCursor` is announced, accounted for or carried (`PositionsAreCovered`), and
  the same of the letters before each page under way (`PagesAreCovered`). It gives
  `WatcherImplementsPromise`. `RaceInv` (what a delivery said is in the ring unless a second
  teller had the letter in hand, `SaidIsRinged` and `TellersRace`) gives
  `TwiceOnlyInARace`.

### Drafts, letters, marks

- `Mailbox_proofs`: five modules.
  - `Composer`: keys grow only with a touch (`KeysFollowTouches`), and the server makes
    one letter per key (`KeysDeliverOnce`): `DraftsAreDeliveredOnce`.
  - `AgentMailbox`: `MailInv` says of every call under way what its answer may put
    behind the position (`CallsHold`) and of the positions that all behind them is
    settled (`PositionsHold`): `HiddenLettersAreExplained`. The lemmas `OldestReaches` and
    `NewestReaches` say what a page of the oldest or newest letters contains.
  - `LetterMarks`: the server's word is of those who asked (`ServerIsConsistent`), the
    local mark follows it (`MarksFollowTheServer`), and a mark written keeps its
    name (`NamesStay`): `MarksAreTrue`.
  - `PanelStore`: `PanelInv` says that until two marks were under way at once there is one at
    most, and the list it would restore shows nothing read but what the server holds as read
    (`MarksAreApart`); that inbox lists are of workspaces with an inbox (`InboxIsKnown`); and
    that a request which still counts is of the view looked at (`CurrentAsksAreOfTheView`):
    `MarksShownAreMade`, `FittingListsAreKept`.
  - `UnreadBadge`: `BadgeInv` says of a count wherever it is - read, cached, in a run - that
    it counts what was acknowledged before it was asked for or has a named reason not to
    (`ReadingsAreExplained`, `CacheIsExplained`, `RunIsExplained`); `OldCountsHaveReasons`
    then holds of each answer.

### Records, keys, addresses

- `Records_proofs`: three modules.
  - `Records`: `KeysInv` adds to the property (`KeysAreKept`) that a handler which wrote a
    file finds its agent in it until it lets go of it (`Written`), and the move of old records
    likewise (`MovedIsWritten`). `TidyInv` holds
    as long as no named mishap mixed two records' credentials (`mixed`): no two records name
    one project key (`Alone`), what a handler or the move has chosen was clear (`JobsAreClear`,
    `MoveIsClear`), a seed is of the address beside it or about to be (`SeedsAgree`), and
    what a removal takes away nobody else names (`RemovalsAreAlone`). They give
    `CredentialsAreSafe` and `OthersStay`, with one lemma per step of a handler.
  - `TenantKeys`: `TenantInv` adds to the property what a request holds between its steps
    (`TasksAreReal`), and that at most one request is about to write `dsh.key`, with what it
    holds already unless it binds (`DshKeyIsSettled`):
    `KeysHaveReasons`.
  - `ResolveCache`: `CacheInv` says that the Map and its order agree (`MapIsKept`), that a record
    was read at most a timeout before it was stored (`RecordsAreReal`), and that a request under
    way is within its timeout (`AsksAreTimely`):
    `ServedIsYoung`. It needs a time to live and a patience of at least one; the code's are.

### Statements that the proofs corrected

`NoDuplicateWithoutFault` once said that without a crash, a failed write or a lost
answer no letter at all is told twice. Its proof stopped at one place: an item that
replay holds in its hand, and that a full queue drops meanwhile (`engine.ts:773`), is
in no place where a fetch would find it known. A bootstrap pages by offset
(`engine.ts:562-581`) while new mail shifts the pages, so it may read such a
letter, past its cursor, a second time. TLC confirms it with five letters, pages and a
queue of one; with the two letters of the run it cannot happen. The property now
excepts letters the full queue dropped, as the code behaves, and is proved; the theorems about
losses, which count these letters as `dropped`, were not affected.

In `Records`, `Held` counted every handler that knew an agent as holding its key. It now counts
one only where it goes on to write or name the file, and an old record only while its key was
not rotated. With that two steps turned out to mix credentials under no name: a handler that
writes over a file which another record has come to name since (`MixedOver`), and a move of old
records whose chosen key was clear when chosen and is not when named (`moving.clear`). Both are
what the code does, and are named mishaps now.

A budget of `WakeBudgets` was a sequence of hours. It is a set of charges, each with its hour
and its decision, so that an invariant can say which wake was charged; the run reaches the same
number of states as before. The frames of a chunk in `WsFrames` were handled by a fold over a
sequence, of which the provers know nothing; `Handled` is a recursive function, again with the
same states.

### Only model-checked

- Safety: every invariant of a passing run is stated by a theorem about the module it
  speaks of, and so is each of the two implementations of `MailPromise`; the type invariants
  are conjuncts of the inductive invariants, and each is a theorem with them. `StoreIsAtomic` is proved
  step by step (`StoreIsAtomicStepByStep`), without its fairness.
- All liveness, and with it the liveness half of `StoreIsAtomic`: fairness and ENABLED are
  outside the prover's reach.
- Induction over data is proved in one place only, the frames of a chunk (above), by a
  least counterexample. What `Position` or `Newest` compute is stated by maxima and minima
  of sets, whose existence the library's facts give.

## Not modelled

| Part | Why |
|---|---|
| `daemon/identities.ts`, `sign.ts`, `workspace.ts` | read files, compute signatures, normalise paths: results of a call, with no state between calls |
| `api.ts` but for the cache of addresses | request plumbing: a request succeeds, fails, or its answer is lost |
| `locale.ts`, `shared.ts`, wire types, `format` helpers | wording and layout |
| `client/*.tsx` | rendering of what the stores hold |
| `scripts/`, `build.mjs`, tests | tools of the developers |
| `lib/index.js`, `lib/*.js` | generated from `src/src` |

Of the modelled parts the following is left out, beside what stands at each module:
several registered instances for one inbox and their choice, compaction of the ledger
by the platform, the reports of `cutover.ts` other than coverage, the routes of
`http.ts` that only forward a request, settings, rules and contacts of the panel, and in
`tools.ts` the tools that send a letter.

What comes next: the daemon's registry with several registered instances, the cutover's plan
and rollback (`cutover.ts`), and the settings and rules the panel keeps (`store.ts`), in
this order; each would be put beside a run that has room, with its inductive invariant.
