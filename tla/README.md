# A verification project for Ghost-ALICE OS

Ghost-ALICE OS is a governance layer for coding agents, written in Python. An installer places skills, runtime modules
and hooks for several agent platforms; hooks that those platforms run keep a ledger of what the user asked for; an
optional local gateway service shortens the requests of those agents as they judged. Nothing runs all the time except
the gateway: the system is many short processes that meet in files. What is hard about it is therefore what happens
between two file operations: another process, an editor, a crash, a full disk.

This directory models those parts in TLA+. Every definition is a translation of code under `src/`; `PROJECT.json`
names the lines. The paths below are relative to `src/`.

## 1. Inventory

| Component | State | Operations | Interacts with | Hard |
|---|---|---|---|---|
| Install lock: `_shared/install_lock.py`, `_shared/installer/lock.py`, `operation_lock` in `_shared/context_gateway_platform.py` | one lock file (owner, pid, mtime) | acquire, judge and remove a stale lock, note and release | every command that writes below | takeover races, holders that outlive the limit, release of another's lock |
| Publish transaction: `_shared/install_transaction.py`, `_shared/installer/transaction.py`, `_shared/installed_payload.py`, `_shared/content_digest.py`, `_shared/installer/cli.py` | install locations, staged files, `rollbacks/<txid>` with journal, kept originals and saved record, `installed-payload.json` | begin, stage, save, check, move aside, move in, write the record, mark done, restore, recover, retain, clean | lock, participants, links to a checkout or copies of it | death at every step, failing restores, recovery of a recovery, edits by others, order of several unfinished publishes |
| Gateway participant: `_shared/installer/gateway_participant.py` | what it stopped and started in this publish | before and after a publish, before and after a restore | publish transaction, launchd | service code that changes under a running service |
| Gateway registration: `_shared/context_gateway_transaction.py`, `..._plan.py`, `..._install.py`, `..._platform.py`, `..._inventory.py`, `..._model.py` | launch agent, `state.json`, the Codex configuration, the record's `service` section, backups, what launchd runs | register, refresh, detach and their reverse recovery | install lock, launchd, Codex, the user's editor | a failure after any effect, inconclusive answers, foreign files, a journal that is only in memory |
| Shared logs: `_shared/state_retention.py`, `_shared/file_lock.py`, `_shared/text_lines.py`, `_shared/atomic_write.py` | a log, its previous file, a flock for each inode | append, trim, rotate, age out, copy and truncate | installer events, I/O trace, gateway usage, hook failures | the lock belongs to an inode and the log to a path; timeouts, short writes, deaths inside a rewrite |
| Session intent ledger: `session-intent-analyzer/scripts/session_intent_ledger.py` | an SQLite row for each session: latest input, staged native inputs, cursors, route, status, revision, audit events, notified causes | stage, reconcile, record a turn or a route, import a JSON session, note failures, claim notices | hooks, agents, the host's transcript | order of hooks and rows, equal texts, stale agents, rollback half-way, a wait that never ends |
| Native transcript reader: `_shared/native_transcript.py` | a cache for each call | capture a boundary, locate a row, read actors and tools | ledger, hooks | files that are replaced, rows not yet written |
| Hooks: `_shared/session_intent_analyzer_hook.py`, `_shared/hook_profile_gate.py` | none of their own | run the ledger's operations for each prompt and tool call, hand a Stop's notice to add-ons | ledger, stop notices | two hooks of one session at once |
| Hook registration: `_shared/install_hooks.py`, `_shared/hook_definitions.py` | `hooks.json` or `settings.json`, Codex's trust tables | install, uninstall, retire, remove an addon's hooks | installer, users' own hooks | consent kept per position, two files written in turn |
| Uninstall and host state: `_shared/uninstall_cleanup.py`, `global_rule_blocks.py`, `installer/lifecycle.py`, `installer/source.py`, `installer/preservation.py` | git hook path and its record, Codex settings and sidecars, rule files, skills, backups, install-states, the shared runtime | install, repair, remove for one host | every host's hooks, users' files | hosts that share files, values found in place that another install put there, deaths |
| Installer command: `_shared/installer/*.py`, `install.sh` | none | check the source, choose hosts, run the parts above in order, report | all of the above | parts that fail |
| Addons: `_shared/addon_installer.py`, `addon_uninstall.py`, `addon_registry.py`, `addon_migration.py`, `addon_skill_permissions.py` | sidecars, removal markers, rows of the install-state, permissions and who gave them | install, repair, remove, resume a removal, migrate | lock, hook registration, users' files | ownership known from a record that is older than the file, deaths between records |
| Response route and completion: `_shared/response_route.py`, `completion_assessment.py`, `native_completion.py`, `completion_check_validator.py` | work units, candidates, judgments of a session | register a route, draft, review, look up at a Stop | ledger, stop notices | records and sources that change between the reads of one Stop |
| Stop notices: `_shared/stop_notice.py` | one notice file for each session | build, write if the builder is right, hand over | hooks, add-ons | two builders of one notice |
| Context gateway service: `_shared/context_gateway.py`, `context_lifecycle.py`, `response_context_use.py`, `claude_context_adapter.py` | publications, declared uses and their judgments | publish, declare, judge, wait, select for a request | ledger, Codex, Claude | four reads of one request, rewritten transcripts, rows that come late |
| I/O trace and skill evolution, merge companion, doctor, security scan, validators, live tests, shell entry points | logs and reports | read and report | everything | mostly pure functions or I/O (section 6) |

What makes each of them correct:

- **Install lock.** Two commands never work at once; no command removes a lock that is not its own; a command that
  waits for nobody ends.
- **Publish.** All locations and the record change together or not at all, through every crash; an original is
  never lost; a file of somebody else is never taken for the program's; every unfinished publish is finished by a
  later command.
- **Gateway participant and registration.** The service does not run while its code or its files change, runs the
  installed code afterwards, and what failed can be tried again.
- **Logs.** One writer at a time, the newest lines stay, an append ends.
- **Ledger.** A row of the transcript settles one prompt; only the latest human input authorises a write; no route
  survives its input; a notice is shown once.
- **Hook registration.** The user's handlers stay, in their order; what he allowed stays allowed as far as the tables
  can follow it; nothing becomes allowed that he did not allow.
- **Host state.** A removal for one host leaves the others a runtime; values that were replaced come back; what the
  user made of a skill or a rule file is never lost.
- **Addons.** A removed addon leaves nothing and stays away; no file of the user's is lost that was there when the
  installer last looked.
- **Completion.** An answer passes a Stop in silence only under a review that held, with every source, at one moment
  of that Stop.
- **Context.** What is kept reaches the model unchanged; only what a judgment for this input allows is changed; a
  request is always forwarded.

`PROJECT.json` lists the places where each of these may go wrong ("hazards") with the properties that cover them.
Three have none: a publish over one that could not be restored takes its half-finished state for the original (section
5, finding 2), a registration of the gateway that dies leaves the files of two registrations (the code intends the block
that follows), and `hooks.json` is written whole at the end of an install without a comparison with what was read at its
start. Where a property excuses a part of its hazard, the note of the hazard says which.

## 2. Modules

```
AbstractPublish <-- InstallPublish
                          |
GatewayParticipant -- GatewayPublish ---- InstallPublish_proofs
GatewayRegistration   InstallLock ------- GatewayRegistration_proofs
AbstractAuthority <-- SessionLedger ----- SessionLedger_proofs
HookRegistration ------------------------ HookRegistration_proofs
HostState ------------------------------- HostState_proofs
AddonLifecycle -------------------------- AddonLifecycle_proofs
CompletionReview ------------------------ CompletionReview_proofs
AbstractSelection <-- ContextLifecycle
        ServerClearing   SharedLog ------ ContextLifecycle_proofs
```

`A <-- B`: B implements A (a refinement that TLC checks and a theorem proves). `MC*.tla` and the `.cfg` files hold the
instances for TLC. A proof module extends every module of its line. InstallLock, ServerClearing and SharedLog are
extended together with a module that uses what they model, so their specifications have names of their own (`LockSpec`,
`ClearingSpec`, `LogSpec`): `operation_lock` of the registration takes the install lock, a Claude request may leave
with a clearing policy, and the gateway writes its usage to a shared log.

**InstallLock.** `pc` is the place of each process in `acquire_lock`, its command and `release_lock`, one file
operation to a step (`Create`, `Stat`, `RemoveStale`, ...). A lock file is identified by its creator; `Age` makes it
older than `stale_seconds`. `Gateway` are the processes that take the lock through `operation_lock`, which notes the
lock it took by reading the path again. `robbed` is a history variable: a live holder's lock was removed.

**InstallPublish.** The disk (`dest`, `stage`, `kept`, `journal`, `record`) survives a `Crash`, the memory of the
command does not. `StartCommand` leads to `Recover*`/`Undo*` (`recover`), then publishes of three kinds: `link`,
`current` and `copy`. The last one is also the fallback of `link_or_copy`. Every rename, removal, journal and record
write is a step. Contents are classes; a file has an identity, so that an equal file of somebody else is still
another file. `unseen`, `touched` and `overlaid` are history. **AbstractPublish** is the promise: one step replaces
all targets with their record entries, or nothing happens, to every location that somebody else has not changed
since. The refinement mapping reads the installation *as the next command restores it*.

**GatewayParticipant, GatewayPublish.** The four hooks of the participant are relations over the service and the
participant's memory; GatewayPublish composes them with the publish at its four points.

**GatewayRegistration.** `execute` in `context_gateway_transaction.py` is a list of effects with a reverse recovery.
The model keeps that list: `todo` holds the effects that remain, each effect is one action, and one that fails
replaces `todo` by `Recovery(run)`. `run` is the plan with the journal, `exit` the code the command will end with.
`Served(op, scope)` stands for the two service files of registration number `op`; `scope` is the port and the secret
that a refresh keeps. Compare and write is one step of the model (a window of a few system calls in the code).

**SharedLog.** Inodes, paths and flocks are separate, so a rotation may give the path another inode while writers
wait for the old one's lock. Every system call another process can come between is a step. The kind of log is a
variable that never changes: the run checks several kinds at once.

**SessionLedger.** `db` is the committed state of one session and `txn` the transaction of a reconcile, whose steps
interleave with the host (`AppendRow`, `ReplaceTranscript`), the prompt hooks (`Capture`, `Stage`, `Observe`), the
hooks that show notices (`Peek`, `Claim`) and agents (`Read`, then a write that passes what it read as expected
state). `host` is again fixed. **AbstractAuthority** is a register of the user's latest input that is closed while
the origin of an input is unknown.

**HookRegistration.** `settings` is the hooks file, groups of handlers for each event; `tables` is Codex's
`config.toml`, which keeps consent per position of a handler with the handler's hash. `BeginInstall` reads the file
and computes the new one, then `Follow`, `Trust`, `WriteSettings`, `Persist` are the steps on disk; `InstallFails`,
`PersistFails` and `RemovalFails` are the error paths with what they put back, `Die` stops anywhere. A handler stands
for its own hash. The reconciliation of the tables (`Reconciled`) has the three ways the code has: tables of the events
it knows (`Followable`) go where their handlers go, tables of other events stay at their key whatever their handlers
do, and all stay as they are where two would share a position (`Collide`) or where the file cannot be edited without
doubt (`plain` is FALSE: it does not parse, `hooks.state` is not a table, or the edit would change something else).
The user adds, moves, removes and allows handlers and rewrites `config.toml` between commands; some of his handlers
may be allowed from the start.

**HostState.** What an installation leaves outside its own files. Processes run `install`, `repair` and `remove` for a
host; an install writes the git hook path before it takes the lock, everything else happens under it. The places of
`proc` are the stages of `installer/lifecycle.py` and of the removal plan in their order. `theirs`, `users` and
`mine` are history: what the user had. `torn` says that a process died between a value and the record of it, `cut` that
a removal died inside a folder.

**AddonLifecycle.** Addons of one host, a location for each skill and extra file. A content is an owner and a version;
no two contents of the user's are alike. `sidecar` holds the contents the last install recorded, which is all that
ownership is decided from; `marker` is the removal marker that every later install or removal goes on with. An install
looks and acts in turn, one action each, and the user may write at any location between any two: `Preflight` (the
quarantine of a first install), `Collide` (`detect_collisions`), `Place` (`_place_targets`, which does not look again:
the publish moves what is there to its rollback folder), `Verify`, `Snapshot`, then the records: `Note` hashes the
skills, `Provide` looks at each extra file once more, `Copy` replaces it, `Hash` hashes it, `WriteSidecar` and
`WriteState` write. A removal hashes a file (`Check`) and removes it (`Delete`); a repair looks (`Look`), places what is
missing and writes the sidecar (`Mended`). `Migrate` makes sidecars from rows of an older install-state. `allow` counts
the permission of a skill in Claude's settings, `own` is the file that says who gave it. `aside` counts what of the
user's went to the pending or a rollback folder; `late` is the history of what he wrote in a place after the command's
last look at it and before it acted (`InWindow`).

**CompletionReview.** A session's input, conditions, route and source files with the candidates and judgments the
response model recorded. Each of the two hooks of a Stop builds its notice in a sequence of reads, one action each
(`ReadSession`, `LookUpProof`, `LookUpAnswer`, `LookUpExplanation`, `LookUpInput`), between which every record may
change; the message it ends with is computed as in `native_completion.py`. An answer is one of six
kinds, told apart by what the completion code compares: the block with its whitespace, the block without it, the whole
text. `saw` is the history of the states during this Stop.

**ContextLifecycle, AbstractSelection.** A publication is a set of judgments by place (a block, or a whole exchange),
a use is an object whose judgment is recorded apart. A request goes through the wait for its transcript row, the two
reads that find what either kind keeps, and the two reads that make the changes. AbstractSelection is the promise of a
chain of publications: one judgment for each place, an update leaves what it does not touch.

**ServerClearing.** The plan of `server_context_omit` for a list of calls with judgments, and what a server may clear
under it for each way of counting that its documentation leaves open.

## 3. Runs

Every run is expected to pass.

| Run | Shows |
|---|---|
| `lock` | Two installer commands and a gateway command race, die, and outlive the limit. The lock excludes unless a live holder was judged stale; no release starts a chain of stolen locks; acquiring ends. |
| `publish` | Two copied folders, two publishes; a death with two failures, or an edit by somebody else with one other trouble, at any step: originals, the refinement of AbstractPublish and eventual completion. |
| `gateway_publish` | The publish with the participant, with launchd and without, over a link and a copied folder, with a death, an edit by somebody else, two failures of the service and retention of one folder. The service comes back, on the installed code; unfinished publishes are left alone; no check adopts a foreign file. |
| `gateway_registration` | Three registrations, refreshes or detachments with three failing effects, two changes by others, one death: the next operation may go on, the provider is served, edits stay. |
| `log` | Three writers of four kinds of log, new or with an older line, with short writes, failing rules, timeouts, deaths and a hung holder: one writer at a time; the newest lines stay, in order; every append ends. |
| `ledger` | Five hosts: agents that write while prompts are staged, resolved, rolled back and imported, on Claude and on Codex; three prompts with equal or different texts, hooks and rows in any order; hooks that show notices, with an unreadable or a replaced transcript. |
| `hooks` | Two commands over a hooks file with the user's handlers, any of them allowed before, an addon's and a retired one, in two events whose tables follow and one whose do not, with two failures or deaths and two edits: handlers stay, nothing else becomes allowed, allowed ones stay allowed where their table can follow or they stay in place. |
| `host_state` | Three commands of two processes for Claude and Codex from two checkouts, with a death and an edit: the other host keeps its runtime, hook path and settings go back to the user's values, his versions survive. |
| `addons` | Three commands over two addons that want one command file, one of them known only from an older install-state, with a death and two edits at any moment: what the user writes stays or is put aside unless it came after the last look, a removed addon leaves nothing and stays away. |
| `completion` | One Stop against three changes of input, conditions, route, reviews and sources before it and between its reads: silence only under a review that held, and an add-on's hook hears of this Stop. |
| `clearing` | All conversations of four calls with every judgment: the server clears nothing that was not judged away, however it counts. |
| `context` | One request against publications, judgments, a new input and a rewrite between its reads: what is kept stays, changes are as judged, updates keep the rest, every request is forwarded. |

### Bounds, and why they are enough

- *Lock*: three processes. A takeover race needs a dead holder, a fast judge and a slow judge; with two users of one
  kind and one of the other every pair of code paths meets.
- *Publish*: two locations are the least for a half-finished publish and for request order against restore order;
  two publishes for one unfinished under the next. Deaths, failures and edits are counted; each can hit any step, the
  recovery's included. `MaxTroubles` is 3 with an edit for two, so a publish and its restore both fail and the command
  dies, or an edit meets a failure or a death. The contents are interchangeable: v1 is installed, the first publish
  brings v2, the second v1. `gateway_publish` has a link and a folder instead, so that both kinds of publish and the
  fallback from one to the other occur, and gives its faults to the service.
- *Registration*: three commands allow register, refresh and detach in a row; three faults allow an operation and
  its recovery to fail and the next one to fail as well; two edits allow a change and its reversal.
- *Logs*: three writers are one that holds the lock, one that waits and one without it. Limits of two lines or three
  bytes (one line), in a log that may hold the end of an older line already, make nearly every append reach the rule,
  so one call rotates the log while another waits for it and the third opens the new one; two overlong writes come
  from short writes.
- *Ledger*: two prompts with one text let one overtake another; on one host a third with the first one's text follows
  another text, so that one is superseded between two. The prompts are named in the order in which their hooks take
  them up, which loses nothing as they are interchangeable up to their texts. Three prompts staged and settled are six
  commits; where agents write, `MaxRevision` is 7, and elsewhere the states with the seventh are not continued
  (`Bound`). `MaxRevision` is at the largest shared integer's place: commits that would pass it occur. One agent is
  enough because agents only meet in the database; two hooks are the least for a claim race.
- *Hooks*: two hooks of the suite in two events, an addon's, a retired one and two of the user's, from four files that
  put them into one group, into groups of their own, behind an empty group, and into an event without the suite, whose
  tables do not follow. What the user allowed before is any subset of his handlers, so a chain of two commands moves
  allowed handlers up and down, also over a collision that an edit made.
- *Host state*: two hosts are the least that share anything; two processes and two checkouts for two installs whose
  unlocked writes cross. Three commands allow install, install, remove in any overlap. Processes and checkouts are
  interchangeable, and symmetry is declared: the run checks invariants and action properties, no liveness.
- *Addons*: two addons so that one can own what the other wants; two versions so that a source moves on under a
  recorded content; three commands so that a removal that died is followed by an install that resumes it and by another
  removal. Two edits fall anywhere, also between two steps of one command: one makes the command's look stale, the next
  comes on top of it. The run is in copy mode, which compares contents; link mode is a constant of the module
  (`Linked`).
- *Completion*: two inputs, revisions and definitions make every stored reference current or stale; three changes
  fall before, between or after the reads of two builders. A source file has two contents. Four of the six kinds of
  answer occur. A partial report is looked up like a completion; the block with other whitespace and a second context
  were checked as well (5.2 million states, three minutes) and are left out of the run for its time.
- *Clearing*: four calls of three tools with symmetry over tools; five calls give no further way in which the counts
  that the policy may mean differ (three tools and five calls, 823,000 states, and two tools and five calls were
  checked as well).
- *Context*: a result of two blocks with an object in one of them has overlapping and disjoint places of each kind;
  three publications are a whole one and two updates, the shortest chain that retains a retained choice. Three
  events fall between the four reads of one request.

`CHECK_DEADLOCK FALSE` is used where commands, operations or events are counted, so that the model stops when they are
used up: `gateway_registration`, `hooks`, `host_state`, `addons`, `completion` and `context`. The others never stop, or
have an explicit stutter for "all calls ended".

### Fairness

`FairSpec` says of the lock and the logs that a call that began keeps running unless its process dies or hangs;
both are loops in one process that wait for nothing but a bounded lock wait. In InstallPublish it says that commands
are started again and run; `EventuallyFinished` is therefore about what later commands do, and crashes are finite
(bounded), which is the usual meaning of "eventually". In ContextLifecycle the threads of the gateway run and the
two-second deadline of the wait passes; nothing is assumed of the host's rows, of the agents or of the user. The other
modules state no fairness: nothing in their code waits.

## 4. What is proved

Every theorem holds for every value of the constants under the ASSUMEs of the modules, which TLC evaluates in the runs.
Each is an inductive invariant with its consequences: where a property is not inductive, the invariant adds what the
steps read before they act.

| Module | Theorems | Inductive invariant |
|---|---|---|
| `InstallPublish_proofs` | `PublishTypeCorrect`, `OriginalsAreKept`, `UnfinishedStaysAlone`, `ForeignFilesKept`, `ServiceRunsInstalledCode`, `ServiceIsGivenBack`, `PublishIsAtomic`, `CopiesAreAtomic` | `TypeInv`, `OriginalsInv`, `ForeignInv`, `ServiceInv`, `AtomicInv`, `CopiesInv` |
| `GatewayRegistration_proofs` | `ForeignContentsStay`, `RegisteredIsServed`, `NobodyIsStranded` | `JournalInv`, `PlanInv`, `SureInv` |
| the same, InstallLock | `LockTypeCorrect`, `LockExcludes`, `ReleaseInnocent` | `HoldersOwnLock` |
| `SessionLedger_proofs` | `LedgerRouteIsCurrent`, `LedgerTypeCorrect`, `NoUpdateIsLost`, `RowsSettleOnce`, `SupersededHasHuman`, `NoticeIsShownOnce`, `AuthorityIsRefined` | `RouteInv`, `TypeOK`, `LogInv`, `IntakeInv` |
| `HookRegistration_proofs` | `TrustIsGranted`, `UserHandlersSurvive`, `ConsentFollows` | `TrustInv`, `PlanInv` |
| `HostState_proofs` | `RuntimeKept`, `UserWorkIsKept`, `HookPathGoesBack`, `CodexSettingsGoBack` | `ServedInv`, `WorkInv`, `PathInv`, `SettingInv` |
| `AddonLifecycle_proofs` | `RemovedAddonsStayGone`, `UserFilesAreKept`, `NothingIsLeft` | `AddonInv` |
| `CompletionReview_proofs` | `QuietStopIsReviewed`, `ExplanationIsCovered`, `AddonHearsOwnStop` | `ReviewInv` |
| `ContextLifecycle_proofs` | `KeptIsForwarded`, `ChangesAreJudged`, `PublicationsSelect` | `ContextInv` |
| the same, ServerClearing | `PolicyClearsJudged` | `ServerInv` |
| the same, SharedLog | `LogHasOneWriter`, `NewestLinesStay` | `LockInv`, `NewestInv` |

- *Install lock.* While nobody was robbed every holder's lock file is at the path and is its own, and a process that
  notes its lock notes that file. Two holders would both own the one file.
- *Publish: originals.* `OriginalsKept` speaks of the disk only; what a step does to a location depends on the memory of
  the batch and on the recovery's plan. `OriginalsInv` says that a location to be moved has no kept original yet
  (`FreshInv`), that what a recovery removes has a kept original or had none (`PlanInv`), that the batch noted what it
  moved (`MemoryInv`, `StageInv`, `RemovalInv`), and that only the last publish is unfinished unless one began over
  another (`LastInv`, `NumbersInv`).
- *Publish: files of others.* A location is looked at, and touched some steps later. `ForeignInv` says for each pair
  that what was planned for a location or compared there is still true of it, or that an edit came in between
  (`PlannedInv`, `ComparedInv`), and that what the batch counts as its own are the files it staged (`OwnInv`).
- *Publish: the service.* The participant is called at four points of a publish, and each call may fail. `ServiceInv`
  says what its memory says about the service at every place (`MemoryOfService`): between the two calls of a publish
  it is stopped or was never found (`PublishingInv`), and a restore that stopped it again has that in mind
  (`RestoringInv`).
- *Publish: all or nothing.* `AllOrNothing` is the refinement of AbstractPublish, whose state is the installation as the
  next command would restore it. `AtomicInv` relates the phase of the command (`PhaseInv`), what is in its locations
  (`PlacedInv`, `BackInv`, `UnstagedInv`) and the record (`RecordInv`), so that one step, the mark that the publish is
  done, replaces every target, and every other step maps to a stutter or to an edit. It is proved for the behaviours in
  which no publish begins over an unfinished one (`[]~overlaid`, finding 2 below), and without that condition where every
  location is a copy, as no publish can begin over another there (`CopiesInv`).
- *Registration.* A write compares with the plan, so its guard is the property. A restore compares with what the
  journal says the write left: `JournalInv` says that this is what the operation found, what it writes, or nothing
  that was seen. `PlanInv` follows the plan's fixed order: which effects are left determines what is written, recorded,
  stopped and started, so an operation that ends with 0 is done. `SureInv` does the same for the reverse recovery: as
  long as nobody edited, died or was answered inconclusively, what is left to undo is exactly what was done.
- *Logs.* Where locks work, a call past the recheck holds the flock of the inode that is at the path (`Locked`), and
  only such a call replaces that inode.
- *Ledger.* `RouteInv` carries its statement for the open transaction too, because any commit inside a reconcile may be
  its last. `LogInv` makes the audit properties inductive: the revision counts the writes in the audit log
  (`Counted`), the rows that are taken are not beyond the cursor of their file and in order (`RowsTaken`), every cause
  that was shown is among the notified ones, once (`NoticesShown`), and a superseded input has a later human one in the
  log, or its successor is the one that the look ahead finds now (`SupersededBy`). What the look ahead computes is a
  fold: that it finds the first human input of the queue, and that the loop meets the same one, is proved by induction
  on the length. `AuthorityIsRefined` is the refinement of AbstractAuthority. `IntakeInv` says that the register is open
  exactly when nothing is staged and no context is unknown, that a staged input is not in the log yet and stands in the
  queue once, that a hook before its end has staged nothing (`Fresh`), and that a transaction only extends the database
  it began with (`MadeFrom`), so its commit is one step of the register.
- *Hook registration.* Tables move with their handlers (`FollowedKeeps`), an install allows its own hooks only
  (`TrustedKeeps`), and a failed removal puts back tables it read: `TrustInv` demands of those in memory what it demands
  of those on disk. `UserHandlersSurvive` is about what the edits of the file compute: dropping handlers, dropping
  groups, placing hooks one by one and removing empty groups each keep the sequence of the user's handlers of an event
  (`WithoutKeepsMine`, `PlacedKeepsMine`, `NoEmptyKeepsMine`), for groups and handlers of any number. `PlanInv` says
  that the file is what the command read or what it planned, and that the tables are what its steps made of
  those it read; `ConsentFollows` needs both, and that moves which do not collide have one source for each target. A
  handler the command leaves at its place keeps its table in every case: as the target of its own move, as a table of
  an event that does not follow, or because no table moved.
- *Host state.* A removal decides from the other hosts' install-states whether the runtime goes, an install registers
  hooks after it placed the runtime. `ServedInv` says that both are under the lock (`HolderLocked`), that an install
  past its placement finds the runtime (`PlacedRuns`), and that a removal past its hooks has none of its host's left
  (`UnhookedIsOut`). `WorkInv`: a removal about to delete a modified skill has it in the backup. `PathInv`: what a
  record, an install-state or a running command holds as the path before is a path of the user's, unless one died
  between the path and its record or two installs crossed there. `SettingInv`: what the sidecars and Codex's
  install-state hold agrees with what the user had, unless an install died between a setting and its record.
- *Addons.* Ownership is decided from records read long before a file is touched. `AddonInv` says at each place of a
  command what its earlier looks still guarantee. What is about to be removed, replaced or hashed is the user's only if
  he came late (`Windows`), and this holds although he may write at any moment, as every window begins with a look; a
  late content is the only one of his that a record can name (`RecordsFit`), so that no later command takes another
  one for the addon's. What an install or a repair has found of an addon's is still there (`FoundThere`, `Mending`), so
  that the record it then writes covers what is in place (`FilesRecorded`); what a removal has passed is gone
  (`Removed`), and the permissions counted are the user's and the suite's (`PermissionsCounted`).
- *Completion.* A message is computed from four reads that each see another moment of the records. `ReviewInv` carries
  what a read proved to the place where the message is written: records are only added, so an assessment or a response
  that a read found stays what it was (`AssessmentsOK`, `ResponsesOK`); the states of the session since the Stop began
  stay in `saw`; and between its reads a builder that has found nothing to say has an assessment that agreed with one
  of those states (`BuildOK`). The explanation of a proof is only drafted when each of the proof's claims was
  supported, which `CandidatesOK` and `ResponsesOK` hand down to its review. A notice in the file that is about another
  Stop is one no add-on has read (`StopOK`).
- *Context.* `KeepProtects` relates the reads that find conflicts to those that make the changes. `ReadsOK` says that
  the first have noted every conflict of a choice with a use, of either kind (`UsesHeld`, `ScopesHeld`), as long as
  no record moved and the transcript and the input are those of the request (`Ready`); that both can only be lost
  together with the right to change anything; and that a part about to be changed is kept by nobody (`Free`). A
  judgment in force is in the history `allowed` at every moment of the request, which gives `ChangedAsJudged`. For the
  refinement of AbstractSelection `RecordsOK` says that an update's references lead to publications that made these
  choices and that no two choices in force overlap: so each part has one judgment and an update changes no other.
- *Clearing.* A policy is always the plan of the conversation it was given for (`ServerInv`), so the theorem is about
  the three plans. Each names how many of the latest calls the server keeps, and what it then clears is bounded by
  counting: the calls after a cleared one are at least as many as are kept, under either way of counting, so it stands
  before the first call that must stay. `LaterCalls` bounds these counts by cardinalities; the least call that must
  stay exists by the minimum principle (`MinIsLeast`).
- *Logs.* `LockInv` says that a call past the recheck holds the flock of the file at the path, so there is one.
  `NewestKept` then is about bytes. A line is where its bytes are: an append moves none of those before it
  (`OthersStay`), and a rule that drops the start of the text keeps the order of the rest (`Dropped`), provided it cuts
  at the end of a line that is not the newest. That the trim finds such a place with exactly `Keep` line ends after it
  is the minimum principle on cardinalities (`CutExists`, `RestEnds`); that a tail of at least one line holds the
  newest is `TailKeeps`. `NewestInv` adds what the property does not say and a step needs: no byte of a written line
  is outside its line (`Uncut`), else the newline before the next line could end a cut line as one nobody wrote; a rule
  starts with the newest line at the end of the log; and between the halves of a trim or of a tail rotation, what is
  to be written back, or is the previous file by now, shows all that the log showed.

Induction over data goes through the minimum principle of the natural numbers on a set of lengths (`SetInduction`), since
the induction theorems of the library take an operator. The folds and recursive functions (`FoldLeft`, `FlattenSeq`,
`Kept`) are shown to have a solution before they are used.

The assumptions on constants are those the code gives: the kinds of contents, hosts, addons, handlers and locations are
disjoint where the code tells them apart by a path or a marker; the value that stands for "none" or for somebody else's
content is not one of the program's; bounds are natural numbers. `NoticeAssumption` says that the list of notified causes
is not shorter than the four causes there are (it holds 32); `SettingsAssumption` that an installation finds a hooks
file of handlers in groups; `AddonAssumption` that two addons never have one skill's name, which
`load_addon_targets` refuses (they may share command files); `LogAssumption` that a size limit is not shorter than a
line (three bytes in the model; the code's limits are 5 and 20 MB), without which the tail of a rotated log may hold no
line at all.

Only model-checked:

- liveness (`AcquireEnds`, `AppendEnds`, `EventuallyFinished`, `RequestEnds`): fairness and ENABLED are outside what the
  proof system does here.

## 5. Findings

The first six TLC found as counterexamples to the stated sentence; the properties that stay name the exception.

1. `acquire_lock` unlinks a stale lock by its path (`_shared/install_lock.py:52`). Two commands that judged the same
   dead lock can both hold a lock, since the second unlink removes the first one's new file; the file's first line
   promises "Atomic installer lock with stale lock recovery" (`Exclusion`; the run checks `ExclusionUnlessRobbed`).
2. `link_or_copy` (`_shared/installer/transaction.py:154`) falls back to a copy when a link publish fails, also when
   that publish could not be restored and is still unfinished, which a command otherwise refuses to begin over
   (`_shared/installer/lock.py:54`). The model marks this with `overlaid`; such a publish is not all or nothing, which
   is why `PublishIsAtomic` has the condition.
3. The trim of a log reads, then rewrites in place; a line that a writer without the lock (its wait timed out)
   appended in between is lost, although the comment promises that the newest line stays. `NewestKept` speaks of
   writers that got the lock.
4. The marker of an addon's removal survives a reinstall of the addon (`_shared/addon_uninstall.py:487`): a later
   command goes on with the removal that the install overtook.
5. The tables of five events follow their handlers, handlers of all events move. `_codex_hook_state_key_parts`
   (`_shared/install_hooks.py:1403`) knows five of the ten events of `CODEX_HOOK_EVENT_KEY_LABELS`, and the table of any
   other event keeps its key (`:2334`), while the removal of an empty group or of a retired hook moves the user's
   handlers in every event. Such a handler loses its consent in a command that ends well; Codex asks again.
   `docs/getting-started/uninstall.md:84` says that "Codex surviving trust tables follow their actual group/handler
   positions". The counterexample is the fourth hooks file of the run, a handler behind an empty group and one command.
   (`TrustFollows` without `Stands(p)` and `p[1] \in Followable` is the sentence.)
6. Two tables for one position do not stop a removal, as `docs/getting-started/uninstall.md:84` ("An unresolved
   destination collision stops removal") and `docs/getting-started/installation.md:230` say: the code logs it
   (`_shared/install_hooks.py:2366`), moves no table, writes the hooks file and ends well. The counterexample takes the
   user's allowed handler out of a group it shares with an addon's and then removes that addon.

Seen while modelling:

*Publish and gateway.*
- A restore that an ordinary error stops keeps exit code 4 (`_shared/install_transaction.py:676`), which the
  installer documentation reads as restored (`docs/reference/installer-architecture.md:162`).
- A restore or a recovery that dies inside the removal of a copied folder leaves a folder that no later comparison
  recognises; that publish stays unfinished (`_shared/install_transaction.py:712`). `EventuallyFinished` leaves this
  case out by name (`Partial`).
- A first registration of the gateway whose second look at launchd is inconclusive ends with 3 after it made its
  folders, and leaves them; every later registration is refused until they are reviewed
  (`_shared/context_gateway_transaction.py:206`). `NeverStranded` therefore speaks of the exit codes 0, 2 and 4.
- The journal of a registration is in memory only. A detachment that dies between the removal of the launch agent
  and the record write is refused from then on, as is a registration: both ask for the recorded files.
- A detachment keeps the state folder, and a new registration with that folder is refused until the user removes it
  (`Review` in the model).

*Logs and ledger.*
- A writer that timed out may append to a line that is still without its end (`_shared/state_retention.py:257`). A
  death inside the trim's rewrite may lose the kept lines, which `NewestKept` excuses.
- A wait that alternates between two causes is recorded at each change (`session_intent_ledger.py:1245` compares with
  the last wait); `ledger-schema.md:65` can be read as once for each cause.

*Hook registration.*
- A death or failure between `config.toml` and `hooks.json` leaves tables at positions of the other file. Trust is
  lost by that, never gained (`TrustNeverGained`, proved); `TrustFollows` speaks of commands that end well. What it
  promises where the tables could not follow is that a handler that keeps its place keeps its consent.
- A handler of the user's that carries one of the suite's markers counts as the suite's.

*Host state.*
- `uninstall_cleanup.py:628` says that a user-modified skill "is never destroyed without a recoverable copy". The
  copy has one place: a removal that dies inside the folder's removal and is run again puts the rest in the place of the
  whole (`cut`), and a later version replaces an earlier one. The removal of selected skills makes no copy.
- The hook path is written before the lock and before its record. After two installs from two checkouts at once, or a
  death between the two writes, the later removal restores a Ghost-ALICE checkout (`torn`, `"path"`); a removal of the
  last host between another install's hook path and its lock takes away the path that install needs.
- Two hosts' install-states may record different values as the ones before; the removal that comes later restores the
  older. An install that dies after a settings sidecar and before the install-state has the same effect
  (`torn`, `"settings"`). After `--adopt-source` Codex's trust in the former checkout stays, and a restore does not
  look whether the user changed the flag meanwhile.
- A rule file of the user's that begins with the marker but has no block is taken for the suite's.

*Addons.*
- Two addons named in one command that provide the same command file pass the collision check and fail when it is
  placed, with a skill and a hook already there and no sidecar; the comment in `detect_collisions` says that this is
  found before anything is written.
- In copy mode an install that dies before its sidecar blocks the next install by its own files. An addon of an
  earlier installer is refused until another install migrates it.
- A death between the settings and the ownership file makes the permission count as found: it is left behind, or a
  later grant of the user's own is removed.
- What the user writes is lost, or counts as the addon's from then on, in the windows between a look and what follows
  it: between the hash of a file and its removal (`_shared/addon_uninstall.py:148`) or its replacement
  (`_shared/addon_installer.py:807`), between a replacement and its hash, and for a skill between `verify_after_copy` and
  the install-state (`_shared/installer/cli.py:507`). `UserFilesKept` excuses these contents, and only these, by `late`.
  What he writes to a skill between the check for collisions (`cli.py:462`) and the placement (`cli.py:470`) is not
  lost: it goes to the publish's rollback folder without a word and stays there until retention removes it.
- A content that the user puts back and that equals what the sidecar recorded counts as the addon's.
- A removal that dies between the sidecar and the rows of the install-state leaves rows from which the next install's
  migration makes a sidecar again (`RemovedStaysGone` excuses it by `torn`).

*Completion.*
- `stop_notice.py:4-9` says that it does not matter which of the two builders runs first. It does when a record or a
  source changes between them.
- `_require_record_sources` (`completion_assessment.py:148`) is not applied to a new judgment of a whole answer when a
  review of its claims is there; the Stop still reports the changed source.
- The same proof under the same conditions reviewed again at another time gives two matches, and the Stop asks for a
  review that is there. An explanation reviewed twice with different sources, both current, counts as not bound.
- Reviews with a block are not bound to the input, reviews of explanations are.

*Context.*
- `context_lifecycle.md` says that an explicit `keep` in either scope protects a block from `replace` or `omit` in the
  other. For one request it does not when a publication, a judgment or a confirmation comes between the reads of
  `_cross_scope_blocks` and the later ones of `_select_manual_request` and `select_uses`; `KeepProtects` says so
  (`moved`).

## 6. What is not modelled

The text of messages, reports and prompts; parsing of transcripts, TOML and command lines beyond what decides a
branch; modes and symbolic links; dry runs; Windows. Within modelled components:

- *Logs*: the keep-newest and age rules of folders and `copy_truncate`.
- *Ledger*: the creation of the database and its authority marker, the merge of goals, criteria and work units
  (`apply_delta`), exports, the list of at most 32 notified causes.
- *Registration*: the retention of configuration backups.
- *Hook registration*: the feature flag's table and project trust (they are in HostState), Claude's skill permissions
  (in AddonLifecycle), the isolated destination. The user edits between commands only. The keys of a table are
  positions: that one file's path can be written in two ways (backslashes) is left out, as are hooks files that do not
  parse, which `_read_settings` reads as empty. Handlers of the user's that are equal are told apart by object identity
  in the code and not at all in the model, where their tables collide.
- *Host state*: `retired_assets.py`, the selection of skills, the children of the automatic mode, prerequisites.
- *Addons*: versions that drop files or hooks (they leave them behind), unreadable sidecars, cloning, pending merges
  (the copies a later install's preflight makes of changed files, and what a full removal does with that folder). The
  placement is one step here that moves aside and puts in place; its own steps, failures and checks are those of
  InstallPublish.
- *Completion*: claim `i` cites source `i`; a supported judgment cites what it rests on; sources that cannot be read
  count as changed; the two builds of a Stop follow one another, in either order; one work unit in a route; the cache
  of session checks.
- *Clearing*: the coordinates that the gateway protects besides (`_protected_coordinates`), which only shorten the
  selections.
- *Context*: messages and assistant texts as choices, the wait for a replacement's carrier, the storage formats, HTTP
  forwarding, and the order of records against the input.

Not modelled at all: the doctor, the validators, the security scan and skill evolution are pure functions that report on
state others keep; the I/O trace writes a shared log; the merge companion reads and settles a manifest between two
layers in one process; live tests drive external agents; the shell entry points find a Python and run the installer.

## 7. What could follow

1. `LedgerStorage`: creation of the database, its authority marker, JSON files of an older version and a database
   that vanished. Property: two writers never trust two different stores. Composes with SessionLedger through
   `Portable`.
2. Hook registration with edits during a command, and its composition with HostState's removal and with
   AddonLifecycle, both of which take it as one step.
3. The wait for a replacement's carrier in ContextLifecycle, and two requests at once over one host's transcript.
4. The remaining retention rules in SharedLog; `MergeManifest`; `retired_assets.py`.
5. Theorems: `PublishIsAtomic` for publishes over an unfinished one, for the locations the earlier one does not
   share.
