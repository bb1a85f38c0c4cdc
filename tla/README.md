# A verification of the file sandbox

The file sandbox watches a download folder.  Every file that appears there is
locked, moved into a quarantine folder, scanned by a local ClamAV daemon and by
VirusTotal, and put back only when an engine finds it clean.  This directory
models the daemon (`src/daemon/src`, Rust) in TLA+, checks the models with TLC
and proves the main results with TLAPS.

All line numbers below are those of the files under `src/`; where only a file
name is given it is a file of `src/daemon/src/`.

## The system

| Component | State | Operations | Meets |
|---|---|---|---|
| Folder watcher (`watcher.rs` 284-485) | notify channel, `pending` tracker, `processing_paths`, `restoring_paths` | `on_raw_event`, `flush_stable`, `handle_file` | the user, who drops, renames and deletes files; the restores, whose own events come back |
| Quarantine pipeline (`watcher.rs` 486-743) | `scan_controllers`, scan semaphore, one task per file | move in, local scan, cache, VirusTotal, restore | job store, mover, scanners, API |
| File mover (`file_mover.rs`) | two folders | `move_in`, `restore_to_path`, `delete_file` | everything that touches a file |
| Job store (`job_store.rs`) | one row per job (SQLite) | insert, nine updates, `clear_all`, listings | pipeline, API, sweeper, start-up |
| HTTP API (`ui_server.rs`) | none of its own | restore, force, delete, clear, cancel, mode, config, secrets | all of the above, each request a task, dropped after 30 s or when the client leaves |
| Sweeper (`inconclusive_sweeper.rs`) | timer | deletes old inconclusive jobs | job store, delete path |
| Verdict cache (`vt_cache.rs`) | verdict by SHA-256 (SQLite) | `check`, `store` | pipeline |
| VirusTotal client (`virus_checker.rs`) | none | hash lookup, upload, bounded polling | pipeline, cancellation token |
| Local scanner (`local_scanner.rs`) | none | INSTREAM to clamd, no timeout | pipeline |
| Modes (`mode.rs`) | `active`, `scan_paused`, `monitoring_disabled`; also in `config.json` | `set_mode` | watcher, pipeline, configuration |
| Configuration and secrets (`config.rs`, `secret_store.rs`, `config_crypto.rs`) | `config.json`, keychain | load, merge, rewrite, migrate | API, start-up, modes |
| Start-up (`main.rs`) | wiring | reconcile the quarantine folder | job store, mover |
| LaunchAgent monitor (`launch_agent_monitor.rs`) | ring of 200 events | classify, push | API |
| Menu bar app (`src/macos-menubar`) | cached answers, daemon process | poll, act, start the daemon | API |
| ES daemon (`src/es-daemon`) | none | decide one exec event | kernel |

### What is hard about it

The daemon is a set of tokio tasks that share a few mutexes but no lock over a
whole operation.  Everything interesting happens at an `await`:

* a request reads a row, then works on the file the row named, then writes the
  row, while the pipeline, the sweeper or another request does the same;
* a cancel or a mode change hits whatever token is registered at that moment;
* a request is dropped in the middle, or the process dies, between the file
  operation and the row that should record it;
* a copy is made before the original is removed, in both directions, so a file
  can be in two places, or half in one;
* the daemon's own `chmod`, copy and unlink come back as events and must not be
  taken for those of the user;
* permits and tokens must come back on every path out of a scan.

### What makes each component correct

* Pipeline and API: no release without a vouching engine or force
  (containment); the bytes are always somewhere (custody); of racing restores
  one wins; a row at rest tells where the file is; no request touches a row the
  pipeline still works on.
* Pool and tokens: permits, metric and running scans agree; a token exists only
  while a scan can observe it; every accepted file settles.
* Restart: only a job that died inside `move_in` can lose its content.
* Watcher: no dropped file is forgotten unless refused for a reason the code
  knows; a path has one owner; a restored file is not quarantined again.
* VirusTotal client: in hash-only mode no request carries the content; otherwise
  it goes out once; a cancel is seen within one request; the call ends; a verdict
  is one VirusTotal stands behind.
* Local scanner: only an exchange that went through to the end, and in which clamd
  knew nothing against any chunk, counts as clean; only a silent clamd may hold
  the call, and a cancel ends it then too.
* Configuration and secrets: a secret is always in the file or in the keychain,
  through a migration cut short at any step; an answered update stays; the mode in
  force is the mode on disk; what has worked starts again.
* Menu bar: however answers overtake each other, it comes to show what the daemon is.

## The modules

| Module | What it is |
|---|---|
| `JobStore` | the rows: every statement of `job_store.rs` on one row as an operator |
| `Quarantine` | pipeline, API requests, sweeper, modes, crash and restart, over the rows of `JobStore` |
| `FileCustody` | abstract: what the system promises about the bytes of a file |
| `Intake` | the watcher: events, lock, stability tracker, claim, move, restore, settle window |
| `EngineCall` | abstract: what the pipeline may assume of one call of an engine |
| `VtClient` | one call of `virus_check_file`, request by request; implements `EngineCall` |
| `LocalScanner` | one call of `LocalScanner::check`, frame by frame, with clamd; implements `EngineCall` |
| `Engines` | both engines in the pipeline's order, and the decision to restore; composes the two above |
| `ConfigFile` | `config.json`, keychain, start-up and migration, posted settings, the mode callback |
| `MenuBar` | the menu bar app against the API |
| `QuarantineProofs`, `CustodyProofs` | theorems about the pipeline, its requests, the rows and the bytes |
| `IntakeProofs`, `ConfigFileProofs`, `MenuBarProofs` | theorems about the watcher, the configuration and the app |
| `VtClientProofs`, `LocalScannerProofs`, `EnginesProofs` | theorems about each engine's call, and about both in the pipeline |
| `MCQuarantine`, `MCIntake`, `MCEngines`, `MCConfigFile`, `MCMenuBar` | constants for TLC |

### Quarantine

Each file accepted by `handle_file` is a *job* with a program counter `pc[j]`;
each API call or sweep is a *request* `r` with an operation and a target fixed
at the start (`task[r]`).  A step is what the code does between two points where
another task can matter.

| Phase | Code |
|---|---|
| `waiting` | `handle_file` has not run; the file sits in the watch folder |
| `intake`, `copied`, `moved` | `move_in`: before the copy, before the unlink, before `set_in_quarantine` |
| `held` | row `in_quarantine`; the mode decides (`Dispatch`, line 520) |
| `admitted`, `local` | token registered, `LocalScanner::check` under `select!` |
| `precheck` | stat and cache lookup (613-643) |
| `queued`, `vt` | waiting for a permit, inside `VirusChecker::check` |
| `create`, `copy`, `unlink`, `commit` | `restore_to_path` and `set_restored`; shared by pipeline and API |
| `done`, `dead`, `ignored` | settled; killed by a crash; refused because monitoring is off |

`src`, `quar` and `out` are the bytes: the original, the quarantine copy (`none`,
`partial`, `full`) and what each actor created in the watch folder (`stub`,
`copy`, `ready`).  `ctl` and `tripped` are `scan_controllers` and the cancelled
tokens; `free` and `activeScans` the semaphore and the metric; `cache` the
verdict cache (`CacheMisses` and `CacheStore` are `check` and `store` of
`vt_cache.rs`, whose failures read as misses and are swallowed); `mode` and `saved` the mode in memory and on disk.  `vouched`,
`disposed` and `aborted` only observe and are read by no guard.

`CrashRestart` is crash, restart, `reconcile_quarantine_dir` and the loading of
the saved mode in one step: nothing else runs before the reconciler is done.

### Intake

The consumer task (`consumer`) takes one event at a time and stops at each
`await` of `on_raw_event` (`stat`, then `lock`); the ticker runs only when it is
idle.  Handlers and restores are `task[h]`: spawned, admitted (mode checked),
opened (path claimed, `chmod 0o444`), copied, scanning, marked.  `Claim` here
is followed by `Accept` of `Quarantine`; how the scan ends is left open
(`Keep` or `Mark`).  Every `chmod`, creation and removal appends an event.
`CrashRestart` empties the channel, the tracker, both path sets and all tasks;
`start` does not list the folder, so the files that lie there become `missed`.

### FileCustody

A file is in a set of places: watch folder, vault, released.  It enters the
vault before it leaves the watch folder, is released only if permitted, leaves
the vault only after it was released or forfeited.  `Quarantine` maps its bytes
to places (`PlaceOf`), vouched or forced content to `permitted`, and `disposed`
to `forfeited`; `ImplementsCustody` is the refinement.  It holds for a process
that lives: a crash inside `move_in` can break it (run `reconcile_after_crash`).

### EngineCall, VtClient, LocalScanner and Engines

`EngineCall` has an answer, a token and the verdicts the engine would stand
behind (`grounds`): one answer, a verdict only on grounds, "cancelled" only when
cancelled, and a cancelled call comes back.

`VtClient` walks through `virus_check_file` (351-561): `stat`, `hash`, `lookup`,
`read`, `url`, `upload`, `sleep`, `poll`, `done`.  A request waits (`http` is
"none"), then its headers arrive (`Headers`, or `NotFound`), then its body.  Until
the headers the token can end it (`cancellable`, 563-575); the body is read
without looking at it, which is why `late` may reach one.  `NoAnswer` is every
network error and timeout of the client.  VirusTotal holds a `report`, which
`Analyse` may replace after an upload; `uploads` and `late` only observe.

`LocalScanner` writes frame `next` (command, chunks, terminator) into a socket of
`Room` frames (`wire`); clamd takes frames, judges, refuses or hangs up; its
reply comes back in pieces (`back`) that `Read` takes in any portions up to the
NUL.  `Dropped` is the `select!` of the pipeline, which drops the future.

`Engines` is `watcher.rs` 545-719 for one file: local scan under its own token,
`AfterLocal` (571-598), `Gate` (601-625), VirusTotal under a new token, `Decide`
(`restore_decision`).  It shares the quarantine copy (`file`) between the two.

### ConfigFile

A rewrite `t` of `config.json` is `write_config` (407-417) in the steps it has:
`begun`, `read` (file read and merged into `buf`), `truncated` (`fs::write` has
emptied the file, which now reads as `Defaults`), `done`.  Writers are posted
settings (`Post`) and mode changes (`SetMode`); `Boot` is the rewrite of the
migration.  A start goes `Load`, `Plan`, `StoreOne` per secret (set and read
back), `BlankPlaintext`, `MigrationEnds`, `Check`.  `store` is the keychain, `live`
the resolved configuration, `Overlay` the precedence keychain, file, environment.
`given`, `acked` and `migrated` only observe; `spoiled` records what went wrong
with the file itself: two rewrites at once, or a crash inside `fs::write`.

### MenuBar

The daemon is its mode, a counter of changes to its job list and whether it
answers.  Each of the app's `Calls` is a request: sent, served (`Serve`) or
`Refuse`d or lost, and returned (`FetchReturns`, `ModeReturns`, `ActReturns`, ...)
on the main queue.  `After` is `onChange(of: store.mode)`: with the settings tab
open, any change of the mode shown is posted.

## The runs

| Run | Question | Bounds |
|---|---|---|
| `quarantine_api` | do rows, bytes, tokens and custody stay consistent under any interleaving of requests? | 1 file, 3 requests of any kind (restore, force, delete, sweep, clear, cancel, modes), all 8 engine configurations |
| `quarantine_crash` | what survives crash, failing I/O and abandoned requests, and do the rows keep to the truth? | 1 file, 2 requests, 2 crashes, any file operation may fail, any request may be dropped |
| `quarantine_pool` | are permits exact, is the cache safe, does everything settle? | 2 files of equal content, 1 permit, 1 request, both engines, failing I/O, fairness |
| `intake` | is a dropped file ever forgotten, or a restored one taken again? | 2 files for one path, 2 handlers or restores, monitoring switched twice, a crash, flush only with at most 2 queued events, fairness |
| `engines` | do both engines keep their contract, the content private, and is a release warranted end to end? | 2 polls, 2 attempts, 6 reports, 2 chunks, room for 2 frames, all engine configurations, fairness |
| `config` | does a secret, an update or the mode get lost between file, keychain and memory? | 2 writers, 2 accounts, 2 values, 5 posted bodies, 2 restarts, 1 edit by hand, a keychain that fails or is locked |
| `menubar` | does the app come to show the daemon? | 2 modes, 2 requests at once, 1 change of the jobs, 2 choices, 1 fault, fairness |

Why they are enough.  Requests touch only their target, except `clear` and the
modes, so interference on one job needs one file; three requests let a restore,
a delete and a clear meet inside each other's gaps, or two restores meet a
delete.  Jobs meet each other only in the pool and the cache: two files and one
permit make one wait for the other, and equal contents make the second hit the
verdict of the first.  One crash reaches every phase of a job and of two
requests; a second one hits the requests begun after the first.  In `Intake` paths do
not interfere, so one path is enough, and two files are a download and its
replacement.  In `Engines` two polls are a pending one and the last one, two
attempts would show a retry, and the reports hold one of each kind and one in
which engines disagree; two chunks and two frames of room let clamd know
something in either chunk, refuse between them, and leave the writer waiting.  The
theorems hold for every such bound.  In
`ConfigFile` two writers overlap in every way, and the second restart sees what the
first left; `Writers` is a symmetry set, which is sound because the run checks
invariants only.  In `MenuBar` two requests are enough to overtake each other, and
the second choice meets the answer to the first.  `MaxCrashes`, `MaxSwitches`,
`MaxBacklog`, `MaxRestarts`, `MaxEdits`, `MaxJobs`, `MaxChoices` and `MaxFaults` are
bounds of the instances and not of the code; `MaxScans` is the number of permits,
`MaxPolls` and `MaxAttempts` are constants of the client, `Calls` bounds what the
app may have under way.  The runs
switch deadlock checking off because the system may rest: one-shot requests and
files end.

What the properties say is written above each of them in the modules.  The
deepest: `ReleaseIsVouched` (every road back to the watch folder, through
pipeline, cache, API and force), `ContentIsSomewhere` and its crash version
`LossOnlyMidIntake`, `OneRestoreWins`, `StatusTellsPlace`, `RowsNeverOverclaim`,
`RowsFollowLifecycle`,
`ActiveRowsBelongToPipeline`, `PoolIsExact`, `SettlesUnlessClamdSilent`,
`NothingForgotten`, `NoRestoreLoop`, `DroppedIsTaken`, `ReleaseIsWarranted`,
`VtImplementsCall`, `LocalImplementsCall`, `SecretHasAPlace`, `UpdatesStay`,
`StartsAgain` and `ShowsTheDaemon`.

Two of them deserve a word, since the rows are updated without a look at what they
say.  `RowsFollowLifecycle` names the pairs of statuses that can follow each other.
Most are what one expects; two are not and are real: a delete that finds the copy
gone writes `deleted`, and the restore that took it writes `restored` over that; and
a pipeline that lost its file to a restore request writes `failed` over `restored`.
Never does a settled row become active again, nor a cancelled one anything but
deleted or cleared.  `RowsNeverOverclaim` holds even so, over crashes and faults: a
row may lag behind the disk but not run ahead of it.  Its one exception is a job that
failed in `move_in` before its row learned a path: deleting it leaves the copy to the
reconciler, and the original is still there.

### Fairness

* `Quarantine`: weak fairness of every pipeline step, of restoring, and of
  acquiring a permit.  Tokio runs ready tasks; the VirusTotal client has
  connect and request timeouts and a bounded number of polls, so `VtAnswers` comes;
  the semaphore is first come first served.  The answer of clamd is *not* fair:
  `scan_instream` has no timeout.  Requests are not fair either: nobody has to
  make one.  `SettlesUnlessClamdSilent` therefore exempts a file that waits for
  clamd for ever.
* `Intake`: weak fairness of the consumer, the ticker and the handler up to the
  scan.  Strong fairness of a successful copy: a stale event may lock the file
  under its handler and fail the copy (the tracker then comes back to it), and we
  assume this race, which needs an event handled between the spawn of a handler
  and its claim, is not lost every time.  `Keep` and `Mark` are not fair.
* `Engines`: weak fairness of the pipeline task, in either engine and between them.
  Every request of the VirusTotal client ends, since the client has a connect and a
  request timeout; that is `NoAnswer`.  clamd and VirusTotal themselves are not
  fair: `ScanEnds` exempts a call that waits for clamd and that nobody cancels, and
  for VirusTotal it needs no exemption.
* `MenuBar`: weak fairness of serving (or of a refused connection) and of each
  return, and strong fairness of some fetch: the timer fires for ever, but in the
  model it needs one of the bounded `Calls` to be free.  Users, and a daemon that is
  down, are under no obligation; `ShowsTheDaemon` is about a daemon that is up from
  some time on.
* `ConfigFile` has only safety properties and no fairness.

### Runs that find a disagreement

Each checks one sentence of the repository against what the code does.

| Run | Sentence | What happens |
|---|---|---|
| `cancel_bypass` | `README.md:17`, a cancelled scan leaves the file in quarantine | cancel in the local scan, bypass, VirusTotal, restore |
| `mode_leaves_active` | mode toggle design, line 34, leaving active aborts all scans | token registered after `set_mode` went through the map |
| `reconcile_after_crash` | `main.rs:66`, the reconciler is safe at start-up | crash between unlink and `set_in_quarantine` |
| `locked_keychain` | `docs/security-hardening.md:50`, an unreadable keychain falls back to file and environment | the migration left blanks in the file, which mask the environment: the daemon refuses to start |
| `mode_echo` | mode toggle design, line 15, the mode surfaces clearly in the menu bar | with the settings tab open two answers that crossed are posted back in turn, and the mode flips for ever |

## The proofs

Every safety property a passing run checks is also a theorem, for every value of
the constants; four theorems carry a hypothesis, which is part of their statement
and named below.  Each component's inductive invariant was checked by TLC on the
instance of a run before it was proved.

### The pipeline

`QuarantineProofs` proves, for any number of files, requests, contents, permits
and crashes, with failing I/O and dropped requests, from the assumption
`QuarantineAssumption` on the constants alone:

* `TypeCorrect`: `Spec => []TypeOK`.  The inductive invariant is `TypeOK` with
  `ModeRequests` (a request in a mode phase is one for a mode; without it the
  value `set_mode` stores would not be known to be a mode).
* `Containment`: `Spec => []ReleaseIsVouched`.  The property is not inductive: a
  release is decided by what a row or the cache says, several steps before the
  file appears.  `ContainmentInv` adds what those remember: a row that says
  clean, or a set local flag, is of vouched content (`RowsWarranted`); so is a
  cached clean verdict (`CacheWarranted`); whoever is inside a restore, or has
  created anything, is warranted or forced (`ReleasesWarranted`).
* `NoStaleToken`: `Spec => []TokensFollowScans`.  Inductive together with
  `TypeOK`; the lemma `PipelineTokens` goes through the pipeline's steps one by one.
* `RestoreIsExclusive`: `Spec => []OneRestoreWins`.  `RestoreInv` strengthens it by
  what makes the unlink decisive: a copy exists only after the copy step, which a
  job takes once; whoever unlinked it or completed is alone, and no copy is left.

Lemmas first show that the row operators stay within `Rows`, and which of them
can make a row say clean; then one lemma each for pipeline, restores, requests
and crash.

`CustodyProofs` goes on from these, under the same assumption.  Its properties
relate three things the code never changes in one step: the row, the bytes and
who is at work.  `CustodyInv` says how they belong together at every program
point: what the row says while its pipeline is in a phase (`RowAgrees`), where the
copies are then (`DiskAgrees`), how far a restore is that has created something
(`OutAgrees`), that a request which holds a decision, or has acted, met a settled
row (`RequestsAreLate`), that nobody restores a torn copy (`RestoresWhole`), and
what is left of a cancelled job (`CancelledStays`) and of any (`Kept`).

* `LossIsConfined` (`LossOnlyMidIntake`), over any number of crashes, and
  `NothingIsLost`: until the first crash, `ContentIsSomewhere`.  The hypothesis is
  needed: a crash in `move_in` can lose the content (run `reconcile_after_crash`).
* `CancelledNeverLeaves` (`CancelledIsContained`) and `RequestsKeepOff`
  (`ActiveRowsBelongToPipeline`, an action property), over any number of crashes.
* `RowsTellThePlace` (`StatusTellsPlace`), from `PlaceInv`, which adds that a row at
  rest follows the unlink it reports.  It supposes that no file operation fails, no
  request is dropped and nothing has crashed: the code updates the row after the
  file, in a statement of its own, so each of these leaves a row behind.
* `LifecycleIsKept` (`RowsFollowLifecycle`, an action property).  What a request
  writes was decided by a row it read several awaits ago; `RequestsAreLate` says that
  row was settled, `RowAgrees` what the row of a pipeline's job says now, and the
  lemma `RestoresStatus` what a restore may find when it commits.
* `RowsAreNeverAhead` (`RowsNeverOverclaim`), from `HonestInv`, which adds to it that a
  delete about to write its row has left nothing in quarantine (`Gone`), and that a
  row past the intake names its copy unless the original never left (`Recorded`).
* `CustodyRefined`: until the first crash every step is a step of `FileCustody` or
  a stutter, with failing I/O and dropped requests.  `PromisesKept` proves that
  whatever implements `FileCustody` loses nothing and lets nothing escape, and the
  two give `PromisesReachTheBytes`.
* `PermitsAreExact` (`PoolIsExact`), from the cardinality of the set of jobs at
  VirusTotal: a step of the pipeline adds or removes one of them exactly when it
  takes or returns a permit (`PipelinePool`).

### The watcher

`IntakeProofs` proves from `IntakeAssumption`, for any files, places and handlers,
any number of switches and crashes and any backlog, in three layers:

* `Shape`: which task works on which file, whom `processing_paths` belongs to, and
  that every event names the place of its file.  `IntakeTypes` (`TypeOK`) rests on it,
  since the type of `place` after a step depends on who holds the file, and so does
  `OneOwner` (`OneOwnerPerPath`).
* `SettleInv`: at a place outside its settle window nobody is about to put a file
  back, and a file that was put back is quiet, no event or timer heading for it.
  `RestoreEnds` (`NoRestoreLoop`, an action property) follows.  The window is thus all
  that separates the daemon's own events from those of the user.
* `HeraldInv`: a file in the watch folder has something that leads a handler to it,
  and behind every remove event of its place there is a change event of its own.
  The second half is what makes the first inductive: a stale remove event empties
  the tracker, and the file survives because its own event comes later.
  `InHandOrMissed` (`NothingForgotten`) follows.

`OnePipelinePerFile` is what `Quarantine` takes for granted of its jobs: no two tasks
work on one file, and while one of them decides about it the file is in the vault.
`FilesFollowTheirCourse` is an action property: `FileLife` has every way a file may
go, for handlers that work by path while files come and go there.  It rests on
`CopiedStays` (a file copied but not yet unlinked is in the folder, put back there, or
removed by somebody).  Proving it left two pairs that look wrong and are races of
`move_in`: `gone` to `vault`, a file removed after its copy, whose copy is kept; and
`released` to `vault`, a file restored to a path that a handler had already claimed
for a file deleted since (`watcher.rs:481`).  `NoRestoreLoop` is about the claim and
does not exclude the latter.

### The configuration

`ConfigFileProofs` proves from `ConfigAssumption`, for any accounts, values, bodies
and environment and any number of writers, restarts and edits.  `ConfigInv` follows a
rewrite of the file through its buffer: who may rewrite at which stage, and that
two at once are noticed (`Turns`), what the migration has reached (`Routed`, `Moving`),
what the file is the sum of (`Written`), where each secret is while the file is
empty (`Kept`), that neither a migrated file nor what will replace it holds one
(`Clean`), what the mode in memory comes from (`Moded`), and why a start succeeds
(`Startable`).  The theorems: `ConfigTypes`, `SecretsKept`, `NoPlaintext`, `UpdatesLast`,
`ModePersists` and `StartsAgainAlways`.  They exempt a spoiled file where the
properties do.

`ConfigAssumption` lets no request clear an account the daemon needs (`Clearable` and
`Required` are disjoint): `main.rs:35` requires the VirusTotal key, and the only
secret a request can clear is the API token.

### The engines

`VtClientProofs` proves from `VtClientAssumption`, that is, for any number of
polls and attempts and any set of reports:

* `TypeCorrect`, and `Privacy`: `Spec => []HashOnlyKeepsContent`.
* `SingleUpload`: `Spec => []UploadedAtMostOnce`, and `PromptCancel`:
  `Spec => []CancelSeenInTime`.
* `AnswersLikeAnEngine`: every step is a step of `EngineCall` or a stutter, which is
  the safety part of `VtImplementsCall`.

The properties speak of counters and of the end of the call, and are not
inductive.  `CallInv` adds where they come from: in hash-only mode the phases past
the lookup are never entered (`Private`); nothing has gone out before `upload`, and
one thing at most since (`SentOnce`); an answer taken in after the cancel is one
whose body is being read, or the call has ended (`LastAnswer`); no attempt or poll
is counted before its phase, and a sleep leaves room for a poll (`Counted`); a
result comes only at the end (`ResultAtEnd`), and a completed analysis has a report
(`AnalysisReports`).  One lemma per action, then the theorems.

`LocalScannerProofs` proves, for any number of chunks and any room in the socket
(`Sizes`), `TypeCorrect` and `ClearedIsWhole`: `Spec => []CleanIsWhole`.  A clean
verdict is decided by a word in a reply that came in pieces from a judgement made
on frames that came in pieces.  `ScanInv` follows the content along that way: the
frames on the wire continue what clamd took, in order and without a gap
(`InOrder`), while the call is sending there is a frame left to write
(`FrameLeft`), and an OK in the pieces, read or unread, means that clamd has had
everything and knows nothing against it (`WordsAreMeant`; likewise FOUND, that it
knows something).  A call that has not come back has no verdict (`Unanswered`).
`AnswersLikeAnEngine` is the safety part of `LocalImplementsCall`.

`EnginesProofs` puts the two together, from `EnginesAssumption` and
`VtClientAssumption`.  The lemmas of both modules are reused: a step of one engine
leaves the variables of the other alone, except the copy of the file, which anybody
may remove.  `EngineInv` adds to `CallInv` and `ScanInv` that a verdict of VirusTotal
stands on the report that is still there when the pipeline decides
(`StandsOnReport`), and that only the decision releases.

* `ScanTypes` (`ScanTypeOK`), `ClearedInPipeline` (`CleanIsWhole`) and `CallInPipeline`
  (the properties of one VirusTotal call, after a local scan).
* `ReleasesAreWarranted`: `ScanSpec => []ReleaseIsWarranted`.
* `EnginesKeepTheContract`: both engines keep the safety part of `EngineCall` through
  every step of the composition.

### The menu bar

`MenuBarProofs` proves, from `MenuBarAssumption`:

* `MenuTypeCorrect` (`TypeOK`).
* `ShowsOnlyThePast`: the list shown, and every answer under way, is one the daemon
  had, however answers overtake each other (`NeverAhead`).
* `AgreementLasts`, an action property: when the app shows what the daemon is, no
  outdated answer is under way and no mode change is pending (`InSync`), this stays
  so until the daemon's mode or jobs change or somebody chooses a mode, with the
  settings tab open or not.  The echo of run `mode_echo` therefore needs an outdated
  answer to start.

### Only model-checked

* Liveness, which is out of the prover's reach: `SettlesUnlessClamdSilent`,
  `DroppedIsTaken`, `ScanEnds`, `ShowsTheDaemon`, and of `VtImplementsCall` and
  `LocalImplementsCall` the part that a cancelled call comes back.
* The five disagreements listed above: a counterexample is a run, not
  a theorem.

## What is abstracted, and what is not modelled

In `Quarantine`:

* names, paths, timestamps, `detail`, `final_path` and log lines.  A restore gets
  a destination of its own: `O_EXCL` and the fallback name guarantee it.
* errors of SQLite: most callers ignore them (`let _ =`), and the rest fail the job.
* `set_stage` is merged with the status update that follows it without an await.
* the blocking part of a file operation counts as done or not begun when its
  request is dropped (a copy may be partial).
* a sweep is a request for one job, and its age limit is open.
* the user does not delete the original during `move_in` (that is in `Intake`).

In `Intake`: ignored names, symlinks and directories, the clock (a tracked path
may come out at any time).  A restore to the watch folder is one step there, and a
crash does not cut it in two (it does in `Quarantine`).  `Expire` assumes that the
sliding settle window, five seconds without an event, is longer than the stability
time of two seconds and the latency of events; `WATCH_STABILITY_MS` above five
seconds would break it.  A file restored under another name is not followed.

In `VtClient` a body is usable or not, and its text is left out; hashing is one
step; so is the wait between two polls.  `Engines` has no verdict cache and no
permits (they are in `Quarantine`).  In `LocalScanner` the probe at start-up (PING)
is left out: it changes no state.

In `ConfigFile`: every ordinary setting is the one field `paths`; encryption at
rest (with an unchanged master key it changes nothing here) and I/O errors of
reading or writing the file are left out; the keychain either keeps what it is
given or keeps nothing, and is locked or open for a whole run of the daemon.  The
invariants exempt a file that two rewrites, or a crash inside `fs::write`, have
spoiled: the code has no lock and no rename that would prevent it, and nothing
says that it has.

In `MenuBar`: error texts, the start and stop of the daemon process, the saving of
settings, and `If-None-Match` (the daemon sends no ETag, so a 304 never comes).

Known behaviours no property claims:

* the consumer may have passed the settle check before a restore marks its path,
  and then locks the restored file (`watcher.rs:400`);
* a handler that has claimed its path quarantines whatever lies there by the time of
  the copy, also a file just restored (`watcher.rs:481`);
* a file renamed over the one being moved is removed uncopied (`file_mover.rs:58`);
* a file locked just before monitoring is switched off stays locked, and files that
  wait when the process dies are not looked for again (`watcher.rs:284`);
* a file dropped over a path restored less than five seconds ago is taken for an
  echo of the restore (`watcher.rs:41`);
* after `set_scan_result` a row cleared locally is settled although its restore is
  still to come, so `clear_all` may remove it (`job_store.rs:288`, `watcher.rs:704`);
* one clean verdict opens the restore gate even if the other engine reported an
  infection (`ui_server.rs:98`);
* a secret typed into `config.json` while an older one is in the keychain is
  blanked by the next start and lost (`secret_store.rs:178`);
* posting `secretsBackend` "file" does not bring the secrets back from the keychain:
  the next start has no key;
* nothing prevents two daemons: the one that fails to bind its port goes on
  watching.

They are in the hazard list of `PROJECT.json`.

### Not modelled

* LaunchAgent monitor (`launch_agent_monitor.rs`) and the ring of 200 events: one
  callback pushes and drops the oldest under one lock, and nothing in the
  repository reads the ring but a route that copies it.
* ES daemon: a stateless callback, one decision per event.
* Authentication, host guard, listing, SSE and the dashboard page of the API:
  they change no state.
* Encryption of `config.json` (`config_crypto.rs`): a pure transformation.
* Installation scripts; views, themes and localisation of the menu bar app; its
  start and stop of the daemon.

## The plan

Done: 1. `JobStore`; 2. `Quarantine`; 3. `FileCustody` and the refinement;
4. `QuarantineProofs` (type, containment, tokens, restores); 5. `Intake`, with a
crash; 6. `EngineCall`, `VtClient`, `LocalScanner`, `Engines`; 7. `ConfigFile`;
8. `MenuBar`; 9. `VtClientProofs`, `LocalScannerProofs`; 10. `CustodyProofs`,
`IntakeProofs`, `ConfigFileProofs`, `EnginesProofs`, `MenuBarProofs`; 11. what
`Quarantine` takes for granted of `Intake` (`OnePipelinePerFile`).

Next:

12. The composition of `Claim` of `Intake` with `Accept` of `Quarantine` in one module.
13. The start of the daemon by the app and by the LaunchAgent, with two daemons on
    one folder.
