# Silvervine: TLA+ models, checks and proofs

Silvervine installs Google's Widevine CDM into Chromium-based browsers that ship
without it, and keeps it there when the browser updates itself. This directory
holds TLA+ modules that model parts of it, the TLC configurations that check them
on small instances, and TLAPS proofs of the properties that matter most. Source
references are relative to the crate (`src/src/` in this tree).

## 1. The system

| Component | State it keeps | Operations | What is hard |
|---|---|---|---|
| Patch pipeline (`patch/mod.rs`) | none of its own; the patch lock, the target directory | `PatchBatch::execute`, `run_batch`, `run_patch`, `run_patch_via_escalation` | two processes and an elevated child on one target; checks made before the write |
| Publication, Linux (`patch/linux.rs`, `platform/linux.rs`) | `<install>/WidevineCdm`, a temporary directory beside it | `replace_cdm_transactionally`, `atomic_rename` | races with the browser's updater between every two system calls; kills; a rollback that races too |
| Publication, macOS and Windows (`patch/macos.rs`, `patch/windows*.rs`) | versioned component directories, `Local State`, the registry | `replace_version_transactionally`, `write_authorized_managed_cdm` | the same, and a file the running browser rewrites |
| Ownership (`widevine/ownership.rs`) | the marker inside the component | classify, write and validate the marker | what may be replaced, adopted, or must be preserved |
| CDM cache (`widevine/cache/mod.rs`) | versioned directories, staging directories, metadata, the links `current` and `previous` | `ensure`, `rollback`, `prune`, `status` | interruption between any two file operations |
| Download, extraction (`widevine/download.rs`, `extract.rs`, `crx3.rs`, `manifest.rs`) | temporary files | fetch, verify, unpack | retries, limits, untrusted archives |
| Patch lock (`lockfile.rs`) | a `flock` on a file | `with_lock`, `try_with_lock` | blocking; released when the holder dies |
| Install watcher (`daemon/watcher.rs`) | per browser: a debounce timer, a deferral | `watch`, `unwatch`, `close`; the dispatch thread | timers against queued events, a long callback on the dispatch thread |
| Daemon (`daemon/mod.rs`) | the stop flag, the browser list | event loop, `drive_patch_flow`, heartbeat, integrity and auto-apply threads | five threads, blocking calls, a patch that triggers itself |
| IPC (`daemon/ipc*.rs`) | the socket | `start_at`, `run_accept_loop`, `handle_one`, `send_request` | one connection at a time, client timeouts, two daemons |
| Registration (`daemon/lifecycle/*`) | the unit or launch-agent file and the service's state | register and retire transactions | rollback of a partly applied change |
| v2 migration (`migration/mod.rs`) | the legacy directories and service | `startup_transaction_with` | rollback over three directories and two services; kills |
| Backups (`patch/backup.rs`) | snapshot directories | snapshot, commit, restore, prune | commit or restore failing |
| Self-update (`cli/update_self.rs`) | the binary | `run_with`, `auto_apply` | replacing the program that runs, restart under a lock |
| Uninstall, repair (`cli/uninstall.rs`, `cli/repair.rs`) | none | remove cache, configuration, registration | other processes at work |
| Diagnostics (`diagnostics/*`) | stored reports | collect, `save_report`, `load_report` | concurrent writers |
| Digest memo (`file_memo.rs`) | memo files | `digest_for`, `store_digest` | staleness |
| EME probe, discovery, hooks, tray, power, config, CLI | none that outlives a call | | time limits of child processes |

How they interact. The command line and the daemon resolve a candidate through
the cache (which takes its own mutation lock and releases it), then take the
patch lock, then authorize and publish, browser by browser. Where the
installation is not writable, the process that holds the patch lock runs itself
again with elevated privileges and waits. The watcher turns file-system events
into calls of the daemon's patch flow, on its dispatch thread; the tray and the
IPC thread call the same flow. Publication writes into the tree that the watcher
watches. Nobody coordinates with the browser's updater or the package manager.

What makes each component correct is stated in its module (section "Properties")
and listed with the hazards it answers in `PROJECT.json`.

## 2. Modules

`Publication`, `CdmCache`, `Watcher`, `Migration`, `Daemon` and `PatchBatch` are the
modules the rest is arranged around, and the ones with proofs (`...Proofs.tla`).
`MCPublication` and `MCPatchBatch` give them instances. `MCInstalling`,
`MCRunning` and `MCServing` put several independent systems into one run: the
variable `sys` says which system a behaviour is of and never changes, the
variables `x1` to `x18` hold the state of that system (each module is an INSTANCE
with its variables substituted), and the system the file EXTENDS keeps its own. A
property of such a run is a conjunction of `sys = "..." =>` what that module states
in its section "Properties", under the same names.

### Publication

`Publication.tla` models one browser installation on Linux: `run_patch` from the
capture of the target to its outcome, `replace_cdm_transactionally` step by step,
the patch lock, the elevated child, and everybody else who writes to the
installation. Its state is the file system (`live`, `staged`, `kept`, `dir`), what
a process remembers (`auth`, `pub`, `cand`, `replace`, `asRoot`, `pc`), and the
lock. A directory is an inode; its contents are abstracted to a pair: which
payload its bytes make up (or none), and which payload its marker names (or no
marker). Every check of the code compares one of these with another.

One action is one system call or one reading of the file system, in the code's
order:

| Actions | Code |
|---|---|
| `Resolve`, `Acquire` | `PatchBatch::execute`: candidate first, then the lock |
| `Capture`, `Classify`, `Revalidate` | `authorize_candidate_target` |
| `Proceed`, `Escalate` | the preflight of `run_patch`, `run_patch_via_escalation` |
| `Stage`, `Copy`, `Seal`, `Validate` | temporary directory, `copy_recursive`, `populate`, last validation |
| `Exchange`, `NoReplace` | the two calls of `atomic_rename` |
| `Displaced`, `Verify` | validation of what came out and of what is live |
| `RollbackCheck`, `RollbackRename`, `RollbackMove`, `RollbackVerify`, `RollbackClose`, `RollbackFails` | the rollback closure and the clean-up after it |
| `Close`, `Confirm`, `Finish` | clean-up after success, the parent's validation, the return |
| `Killed`, `ChildKilled`, `ParentKilled` | signals |
| `ExternalInstall`, `ExternalRemove`, `ExternalEdit` | everybody else |

History variables (`maker`, `edited`, `vetted`, `found`, `toucher`) are read by
properties only. An inode number is given out again as soon as no name and no
open handle refers to it, which is what makes the handle of
`TargetAuthorization` matter.

`WholeSwap.tla` is what the transaction promises whoever looks at the name
`WidevineCdm`: a slot that changes only by exchanging one whole component for
another, at most undone once. `PublicationRefinement.tla` gives the refinement
mapping, the run `publication` checks it (`SwapsWhole`), `PublicationProofs.tla` proves it.

### CdmCache

`CdmCache.tla` models the cache root under its mutation lock, which admits one
operation at a time: `entry` and `staging` hold what is in the version and
staging directories, `current` and `previous` the links, `order` the versions by
modification time. `ensure`, `rollback` and `prune` take one action per file
operation. `Fail` and `Kill` may come at any of them and leave a removal or an
extraction half done (`Interrupted`); `Drift` changes a cached file behind the
cache's back. `None` stands for an absent directory or link.

### Selection

`Selection.tla` is the same cache where no links can be used
(the `not(unix)` half of `cache/mod.rs`): `selection.json` names both versions and
is replaced as a whole. The passive reader (`ReadBegin` to `ReadEnd`) checks one
file after the other without the lock while `Compare`, `RemoveEntry`,
`RenameStaged`, `AdvanceCurrent`, `RollbackVerify`, `RollbackExchange`, `PruneList`
and `PruneDelete` go on, any of them `Interrupted`. Abstractly it is `TwoSlots.tla`:
a selected version and the one it displaced, changed together or not at all.

### Watcher

`Watcher.tla` models the dispatch thread of the install watcher with the daemon's
patch flow as its callback. An entry of `WatcherState` is `timer` (`dispatch_at`)
and `deferral` (`DeferredState`) of a watched browser; the channel is `queue`; the
list of due callbacks is `promoted` (timers) and `released` (deferrals), worked
through in this order. The world outside is which browsers run and what each
installation contains.

| Actions | Code |
|---|---|
| `Receive` (with `HandleEvent`), `TimeOut`, `Check` | `run_dispatch`: one message or a timeout, then `stop`, then whether work is due, with the snapshot of running browsers |
| `HandleTick` (with `Release`, `Looked`) | `handle_tick_with_snapshot` under the lock: elapsed timers, then deferrals |
| `Fire`, `Fired` | the callbacks, one after the other, outside the lock |
| `Select`, `Attempt`, `Stage`, `Publish`, `PublishFails` | `drive_patch_flow_with_cdm` for one browser: selection, refusal of a running browser, staging and publication with the events they raise |
| `Watch`, `Unwatch`, `Close` | the owner, from another thread |
| `Tick` | the clock |
| `Write`, `StartOrQuit` | browsers' updaters and the user |

A timer is the number of ticks until its deadline, and the three times of a
deferral are kept as ages up to the bound beyond which the code does not tell
them apart. The clock stands still while the thread does its own bookkeeping and
runs while it is blocked or in a callback, which is where a patch may take
minutes. A write raises one event; whether it changes the modification time of
the installation's top directory, the only one a deferral looks at, is a choice,
except for the daemon's own staging directory, which is at the top. Events of an
unwatched installation are not delivered, and those queued when it is unwatched
find no entry. An adoptable component of an older release takes the same path as
a missing one. History variables: `quiet` (ticks since the last write) and `owed`
(written to, and no callback has looked since).

### Migration

`Migration.tla` models `migrate_v2_startup`, which every invocation runs before its
command, on Linux: `startup_transaction_with`, its way back, and the systemd
transactions it is built from. Its state is what is under either name of each
directory pair (`legacy`, `current`), the two services as systemd knows them
(`unit`, `enabled`, `active`), whether Silvervine's daemon has got past its own
migration (`serving`), and what the run that has the lock remembers (`was`,
`moved`, `prior`, ...). A Neon daemon that was started by hand is `stray`.

| Actions | Code |
|---|---|
| `Begin`, `Refuse`, `CheckFails`, `Check` | `migrate_v2_startup` with its lock, the preflight, the two registrations |
| `StopNeon`, `Socket` | `stop_legacy`, `refuse_connectable_legacy_socket` |
| `Inspect`, `Promote`, `PromoteLate`, `DataMoved` | `migrate_data_directory` for one pair after the other: the look and the no-replace rename are two steps |
| `WriteUnit`, `EnableNow`, `UndoEnable`, `RemoveUnit` | `register_transaction` and its undoing |
| `RetireProbe`, `RetireAbsent`, `Disable`, `Remove`, `Rewrite`, `Reenable`, `Restart` | `retire_unit_transaction` and its undoing, for Neon at the end and for Silvervine (`unregister_for_rollback`) on the way back |
| `UndoMove`, `Restore` | `rollback_data_and_restore_legacy` |
| `...Fails` | the same operation returning an error |
| `Kill`, `External`, `StrayQuits`, `ServiceRestarts` | signals, users and systemd |

A command that fails has done nothing or its first half (`disable --now` may have
disabled, a write followed by a reload may have written). A failing `stop` leaves
the service running. `systemctl enable`, `disable` and `start` know no service
without a unit file. There is no previous unit to restore when Silvervine is
registered, since a run that finds one is refused. A name that is not a directory
is one of the reasons for `CheckFails`. History variables: `before` (what the run
found), `result`, `reported` (its error speaks of a failure of the way back) and
`touched` (directories somebody else created or moved).

### PatchBatch

`PatchBatch.tla` is the pipeline around the publication: `run_patch_flow`
(`cli/patch.rs`), `PatchBatch::execute` and `run_patch` (`patch/mod.rs`), the
snapshots (`patch/backup.rs`) and the part of an uninstall that meets them. A
`Flow` is one invocation; `pc` and `turn` say where it stands and for which
browser, `live` and `inode` what is in each browser's directory and which directory
it is. The patch lock is a file that is opened first and locked later: `opened`,
`held` and `lockfile` are inode numbers, since an uninstall removes the directory the
file is in.

| Actions | Code |
|---|---|
| `PrePatch`, `PostPatch` | `hooks::run_pre_patch`, `run_patch_flow` after the batch |
| `Resolve`, `Lock` | `execute`, `lockfile::with_lock` |
| `Turn` | the loop of `run_batch_with_processes` |
| `Capture`, `Authorize`, `Validate`, `Closed` | process snapshot, `authorize_candidate_target`, `require_closed_browser` |
| `Snapshot`, `Write`, `Overwrite`, `Finalize`, `Restore` | `backup::snapshot`, `perform_patch`, `write_managed_cdm`, `commit`, `restore` |
| `Escalate` | `run_patch_via_escalation` |
| `StartOrQuit`, `Replace`, `Uninstall` | users, updaters, `cli/uninstall.rs` |

A transactional patcher's write is one step here, `Publication` has the details. It
has three ends: the new component is live and reported so; what was there is there
still; or the new component is live and an error is reported, since the way back or
only the removal of what was displaced failed (`patch/linux.rs:312-332`). An elevated
child has the same three, being killed among the reasons of the last. In `legacy` mode,
which none of the three patchers uses (`writes_transactionally`), the bundle is copied
first and put back when a step fails; the restore can succeed and be reported as failed
when only the displaced bundle cannot be removed (`patch/backup.rs:164-171`).

### Daemon

`Daemon.tla` is the process of `daemon/mod.rs`: event loop, watcher thread, accept
thread (`daemon/ipc.rs`) and automatic update (`cli/update_self.rs`), each with a
program counter `pc[d][t]`; the patch lock they share with a second daemon; the
socket's path, listener and backlog; clients that give up and connect again; and
the orderly shutdown.

| Actions | Code |
|---|---|
| `Launch`, `Bind`, `BindFails` | `run_with` to the threads, `IpcServer::start_at` |
| `EventLoop`, `Click` | `run_event_loop`, the tray's channel |
| `WatcherFires`, `Patch`, `Acquire` | `drive_patch_flow_with_cdm` under `with_lock` |
| `Accept`, `Connect`, `GiveUp` | `run_accept_loop`, `send_request` and its timeouts |
| `AutoApply`, `Sidecar`, `Restart` | `auto_apply_with_channel` under `try_with_lock`, the sidecar, `run_auto_apply_once` |
| `JoinWatcher`, `DropIpc`, `JoinIpc`, `IpcExits`, `WatcherExits`, `AutoExits`, `Exit` | the joins at the end of `run_with` and what they wait for |
| `Killed`, `Replace` | signals and crashes, the browser's updater |

The watcher is built before the socket is bound, so it may have a patch in hand when
`Bind` runs or fails. One browser stands for all, and `current` says whether its
component is the managed one. A patch that ends has either staged nothing, or staged in
the tree the watchers watch, whether it then succeeded or failed (`Seen`). A request
that is forced is patched whatever is there. The heartbeat writes a time stamp and the integrity thread reads and logs; both
poll the same flag and take no lock, and are left out.

### Registration and Agent

`Registration.tla` is `register` and `unregister` on Linux (`daemon/lifecycle/linux.rs`),
every `systemctl` call and file operation a step with its failure and its undoing,
called from a command line and from the tray of a daemon that may be the service it
stops: a process that ends takes the transaction it was in with it (`Continue`,
`Ended`). `Agent.tla` is launchd's side
(`daemon/lifecycle/macos.rs`): bootout, plist, bootstrap, their undoing with the probe
of a partly loaded job, and the same for the retired product; the user deletes
plists, loads jobs and logs in again meanwhile.

### MacosPatcher and WindowsPatcher

The publication of one version beside others. `MacosPatcher.tla` (`patch/macos.rs`):
the target is the profile that `Info.plist` names (`SelectTarget`), what is there is
captured and classified (`Capture`, `CheckTarget`), the directories above are made
(`EnsureDirectory`, `Ensured`), the copy is made, marked and pinned beside them
(`Copy` to `Pin`), exchanged with what is there (`Swap`) or moved to a free name
(`Move`), looked at again with what came out (`Displaced`, `Verify`, `Named`,
`Active`), and otherwise exchanged or moved back (`Undo` to `Restored`).
`WindowsPatcher.tla` (`patch/windows.rs`, `patch/windows_registration.rs`): a version
that exists is never replaced, a free name gets the copy by a rename (`Rename`,
`Validate`, `Undo`), and a version older than another is registered by writing
Local State anew beside the old file, comparing it twice and replacing it
(`OpenState` to `Persist`). In both the browser's component updater installs
(`Update`) and removes (`Remove`) versions between any two steps; on macOS the
application may be replaced by one that names another profile, on Windows the browser
writes its Local State. `before`, `deeds` and `taken` are history.

### Provenance, FileMemo, Archive, Fetch

`Provenance.tla`: the classification of an installed directory, the guarded copy
of a payload out of a cache its user may change, and the seal
(`widevine/ownership.rs`), one file read or written per step.
`FileMemo.tla`: the digest memo (`file_memo.rs`) with concurrent readers, files
replaced or written meanwhile, also by others of the same length and second, and a
store that is lost. The memo is keyed by path, length and whole second, and the
repository's tests want a stale digest where two contents share them
(`file_memo.rs:336-353`, `diagnostics/store.rs:800-820`). `used` has all contents that
ever had a length and second, and `spoiled` those under which a file was written while
it was hashed: `Fresh` promises a digest of one of the first, the one that was there
when it is the only one, and nothing of the second.
`Archive.tla`: pure functions checked against reference definitions for every short
input (`ReadVarint`, `Material`, `Message` of `crx3.rs`), and the extraction entry by
entry, chunk by chunk (`extract.rs`). Powers of two and running totals are recursive
functions (`Pow`, `Sums`). In the run widths are scaled down: a group has 2 bits, an
integer 5, which keeps the cases of a last group that does not fit; the proofs are for
every width.
`Fetch.tla`: manifest sources in order, redirects, aliases, the chain of URLs, the
kept archive and its replacement (`manifest.rs`, `download.rs`, `widevine/mod.rs`).

### Probe, Report, Discovery, Legacy

`Probe.tla`: the loopback server of a live test, one connection at a time, with a
clock, a slow client, a reloaded page and strangers (`eme/browser_probe.rs`,
`eme/probe.rs`); the assessment is a table checked against its ladder (`MatrixExact`).
`Report.tla`: fingerprint, launch, fingerprint again, storage, and the doctor's
reading of what was stored (`cli/test.rs`, `diagnostics/store.rs`,
`diagnostics/collect/`, `cli/doctor.rs`). A file is its bytes and the digest that the
memo gives for it, which may be another's; fingerprints have the digest, browsers load
the bytes. `HitIsExact` compares what the browser had loaded with what is there when
the report is shown, as far as the digests are those of the bytes.
`Discovery.tla`: the walk of the roots with aliases and its merging with known and
configured browsers (`browsers/`). What is listed is a set, under the path it was
reached by: a second entry for a path is dropped (`Push`), so only which path comes
first matters, and that is kept. On Windows every known place that is an installation is
listed, elsewhere the first that exists.
`Legacy.tla`: the removal of what the first product left, by one elevated script and
then one artifact at a time (`migration/mod.rs`, `cli/init.rs`). What was detected is a
set, and `Order` has the order in which artifacts are detected and removed.

### Tray, Tui, SelfUpdate, Subprocess

`Tray.tla`: the menu, drawn once when the daemon starts and never again, clicks that
reach the loop by the entry's callback (ksni) or by an event that names the entry
(AppKit, Windows), and the loop's commands (`daemon/tray.rs`, `daemon/mod.rs`). A patch
flow selects browsers by `select_patch_action`, with a freshly fetched CDM (`Fresh`, an
update) or with none, patches the selected ones one after the other, and tells of all
in one summary; others install, patch and remove browsers meanwhile, and the vendor
may have a newer CDM (`Heard`). `ToastTrue` says what a success may be claimed of: a
managed CDM, which after an update is the fetched one; without one, a managed CDM of an
older version is a success too and is left as it is.
`Tui.tla`: the control panel (`cli/tui/`): the draft of the configuration with the
bytes it was read from, keys, dialogues and confirmations, the save that compares
twice before it replaces the file, and the program's own commands with the terminal
handed over and taken back.
`SelfUpdate.tla`: the executable and its receipt moved aside, replaced or restored,
by hand and by the daemon at once (`cli/update_self.rs`, `update_self/windows.rs`).
`Subprocess.tla`: a hook with its process group, two pipes of bounded capacity, the
readers, the deadline, the kill and the joins (`hooks.rs`, `platform/process.rs`).

### Abstractions common to all

* Contents are told apart only as far as the checks of the code tell them apart.
* In the modules that do not study it, reading, hashing and classifying one tree is
  one step (`Provenance` takes it apart), a download is one step with two outcomes
  (`Fetch`, `Archive`), a hook is one step (`Subprocess`), a publication is one step
  (`Publication`, `MacosPatcher`, `WindowsPatcher`).
* The temporary directory is private to its transaction; nobody else writes to
  it. The installation root itself is not replaced.
* An entry named `WidevineCdm` that is not a directory makes every capture fail
  and is left out.
* Directories left in abandoned temporary directories (`kept`) stay for ever: no
  code looks for them (`patch/linux.rs:313`).
* A change inside a directory that keeps its inode is not seen by the identity
  check, in the model as in the code; `Classify` and `Verify` read contents.
* In the cache, two entries never have the same modification time, and names that
  are no versions are ignored.

## 3. What is checked

| Run | Question | Bounds |
|---|---|---|
| `publication` | Does the transaction leave what is whole live, keep what was not vetted, leave no gap, mean what it reports, and implement `WholeSwap`? | three scopes: 1 patcher with 3 changes by others (1 while an elevated child works), 4 inodes, 2 payloads; 2 patchers, the lock and 1 change; 2 patchers, an orphaned child. Kills and failures anywhere |
| `installing` | The cache with failures, kills and drift, and ten more systems: is what is trusted vetted, what is told so, and a slot that a browser reads filled? | cache: 3 versions, `keep` 0 to 2, 1 drift; `calm`: no failures, 2 drifts; selection file: 2 versions, 3 operations, 1 read, 1 drift; archive: 3 entries, sizes to 2, 3 in all; memo: 2 readers, 2 contents of one length, 2 replacements or writes, 2 seconds; ownership: 2 versions and libraries, 2 changes; macOS and Windows: 3 versions, 1 failure, an updater that installs and removes; discovery: 3 directories and an alias; report: 2 profiles, 2 changes; legacy: 2 runs, 1 change |
| `patching` | Are reports true, also of what failed after its publication, is consent kept, does every batch end? | a command-line batch over 2 browsers with five sets of options, a daemon's patch of one of them, 1 event outside, 1 failure, both kinds of patcher |
| `running` | Is no change forgotten, does the daemon come to rest, does whoever waits get it? | watcher: 1 browser with 3 writes that starts, quits and is unwatched, or 2 with 2 writes; debounce 2, poll 1, stable 2, limit 4; hook with one child; 2 updates |
| `daemon` | Is nothing swapped in the middle of a patch, is the socket the running daemon's, is nobody left waiting? | 2 daemons, 1 client, 2 events |
| `serving` | The migration with whatever failure, and eight systems that serve the user: does each keep its promise? | migration: 2 directories, 3 failures, 1 kill, 1 change; registration: 3 daemons, 2 operations, 1 failure; agent: 3 calls, 2 faults, 1 change; tray: 2 browsers, 2 clicks, 1 change; panel: 2 values of the settings, 2 entries, 1 edit by others, 1 failure; update: 2 runs, 2 faults; hook: 1 child, 2 writes; probe: 3 connections, 3 ticks; download: 2 runs, 3 URLs, 1 redirect |
| `cache_stuck` | (violation) the documented errors of `ensure` are all there are | 3 versions, 2 drifts |
| `watcher_retry` | (violation) deferred work is retried after the browser exits | 1 browser that quits for good |
| `migration_interrupted` | (violation) Neon's registration is retired in the end | 1 directory, 1 kill, a user and a daemon that go on trying |
| `registration_toggle` | (violation) unregistering removes the unit file | the tray of the daemon that is the service |
| `hook_bounded` | (violation) a hook is over when its time is | 1 child that leaves the group |
| `running_alias` | (violation) a running browser is seen | a browser under an alias of its directory |

The bounds are enough for what they are about. Three changes replace the target
between capture and exchange, again before the rollback, and once more during it;
four inodes give each a directory of its own beside the staged one, and are few
enough that numbers are reused. Two payloads tell the candidate from another managed
component. Two patchers are all a lock between pairs is about. Three versions give
`current`, `previous` and one to install or prune. In the watcher the order of the
deadlines matters, not their length. In the migration three failures are one that
starts the way back and two on it. In a batch two browsers are an earlier turn and a
later one. A second daemon is what the first one's socket and lock meet. `VIEW` drops
contents nothing will read again (`MCPublication.tla`); symmetry is used in runs
without liveness only.

### What the runs found

* **An ensure that is killed at the wrong moment blocks the cache**
  (`cache_stuck`). `ensure` removes the entry before it renames the staged one
  into place (`widevine/cache/mod.rs:365-366`). When that entry is the one
  `current` names, the link dangles, and `advance_current` then fails for every
  other version, as do `rollback` and `prune`. Only an ensure of the same version
  repairs it. No documented error covers this.
* **Deferred work is not always retried** (`watcher_retry`). An hour after the
  update the deferral is given up and the callback fired "anyway"
  (`daemon/watcher.rs:557-566`); if the browser is still open the patch refuses it,
  and nothing is left to try again when it quits.
* **An interrupted take-over is refused for ever** (`migration_interrupted`). From
  the moment Silvervine's unit file is written until Neon's is removed there are
  two registrations. A run that is killed in between leaves them, and every later
  run returns "refusing an ambiguous migration" (`migration/mod.rs:214-218`) before
  its command is looked at. `MIGRATION.md:37` promises that the retirement follows.
* **The tray cannot take its own registration back** (`registration_toggle`).
  `disable --now` stops the daemon that was to remove the unit file.
* **A hook's time limit does not bound its caller** (`hook_bounded`). The readers of
  its output are joined without a deadline (`platform/process.rs:120`): a process
  that left the group and keeps an output open holds up the patch behind the hook.
* **A running browser may be taken for closed** (`running_alias`). The canonical
  path of an executable is compared with the path the browser was listed under
  (`browsers/discovery.rs:316`).

Observations with no run of their own:

* The parent's lock covers an elevated child only while the parent lives
  (`patch/mod.rs:737`): the `flock` ends with the parent, and the child goes on.
  `OneTransaction` therefore speaks of children that are not orphans. What the
  browser finds stays whole all the same, but in the scope `orphans` one
  transaction can exchange its candidate away and back around another's checks, and
  what is removed need not be what was vetted: `RemovesOnlyVetted` leaves that
  scope out, and TLC violates the property in it.
* An uninstall removes the patch lock's file while a batch holds it; the next batch
  locks another file, and two batches meet. `ReportTrue` then excepts a browser that
  has the managed component because the other batch put it there.
* A patch may be reported as failed with the new component live. No document denies
  it; `ReportTrue` says that what is there then is whole.
* With two browsers the second callback of a list may fire on top of an update: a
  tick follows every event received, so `FiresOnlyWhenQuiet` excepts a browser whose
  latest event is still in the channel (`daemon/watcher.rs:12-18` does not).
* `watch` says that re-watching is a no-op (`daemon/watcher.rs:294`), but it
  replaces the entry with its pending dispatch: the theorem about `NothingForgotten`
  assumes `~Rewatch`. The daemon watches each installation once.
* `Settles` needs patches not to fail after staging: each such failure writes to
  the watched tree and so causes the next attempt. `PatchesSettle` excepts just the
  behaviours in which that happens again and again (`FailsStaged`); nothing in the code
  ends them.
* The tray's toggle carries the opposite of what was found when the daemon started, and
  the menu is not drawn again: after one click it goes on asking for the state it has
  already set, until the daemon restarts. The comment at `daemon/tray.rs:204-206` has
  the main loop rebuild the menu.
* Two contents of one length and second are one to the memo, as its tests want, and so
  to the fingerprint of a report.
* With two daemons at once, the first loses its socket to the second and may remove the
  second's: `Reachable` speaks of daemons that follow one another.
* Comments and code that differ, with nothing to model: no SIGTERM handler exists for
  the teardown of `daemon/mod.rs:41`; `lockfile.rs:10` has the daemon skip where it
  blocks; `prune_backups` (`patch/backup.rs:27`) is never called; the wake callback
  (`daemon/mod.rs:382-384`) only logs; the `sudo` fallback of `platform/linux.rs:8-10`
  is never taken; the duplicates of `browsers/mod.rs:221` are compared raw, not
  canonicalized; macOS' `unregister` returns `Ok` without stopping a loaded job whose
  plist is gone, and a restored registration leaves the old process running.
* On macOS an updater that takes the published version for good may remove the
  older ones; the rollback then leaves none (`AlwaysLoadable` excepts it). On Windows
  the rollback looks and then renames, so what is put there in between goes too.

## 4. Fairness

Liveness is checked in `patching`, `running` and `daemon`, and refuted in
`watcher_retry`, `migration_interrupted` and `hook_bounded`.

* `PatchBatch.FairSpec`: strong fairness of each flow's steps: a running process is
  scheduled, and a lock that is free again and again is granted in the end. Nothing
  is assumed of updaters, users or an uninstall.
* `Daemon.FairSpec`: strong fairness of each thread, for the same reason. Nothing
  makes a user, a client, the service manager or the update act, and a client may
  wait for ever.
* `Watcher.FairSpec`: the dispatch thread is scheduled, its callbacks return, and
  time passes; nothing about browsers quitting, writes or a shutdown.
* `Subprocess.FairSpec` and the update's steps in `RunningSpec`: the caller, each
  reader and the clock go on; of the script nothing is assumed.
* `InsistingSpec` of the migration, in the violation only: commands return, systemd
  restarts the daemon and the user goes on running commands, so that the refusal and
  not idleness is what refutes it.

All are what a kernel gives a process that does not wait for anybody; system calls
that never return (a hung network file system) are excluded. That the publication's
steps, a cache operation, a migration, a probe or a download come to their end is
not checked: each is a bounded sequence of steps with no waiting but for the patch
lock, which `BatchesEnd` covers.

## 5. What is proved

Eight modules of proofs. They hold for every number of patchers, inodes, payloads,
versions, browsers, flows, daemons, clients, directories, calls, releases, children,
menus, entries, changes by others, failures and kills, and for any length of the
timers and limits. They assume the named assumptions on the
constants (`ConstantsAssumption`, `ServingAssumption`, `InstallingAssumption`), and what the table says.

| Module | Theorem | Statement |
|---|---|---|
| `PublicationProofs` | `TypeCorrect` | `Spec => []TypeOK` |
| | `LiveAlwaysSealed` | `Spec => []LiveSealed` |
| | `UpdatesLeaveNoGap` | `Spec => UpdateLeavesNoGap` |
| | `LockCovers` | `Spec => []OneTransaction` |
| | `RemovesWhatItVetted` | `MCSpec => RemovesOnlyVetted` |
| | `ErrorsLeaveLiveWhole` | `Spec => []ErrorLeavesLiveWhole` |
| | `SuccessInstalled` | `Spec => []SuccessIsLive` |
| | `ImplementsWholeSwap` | `Spec => SwapsWhole` |
| `ComponentProofs` | `EnsureAlwaysDelivers`, `AdvanceAlwaysKeepsFallback`, `RollbackAlwaysVerified` | `Spec => []...` of the invariants they name |
| | `LinksAlwaysResolve` | `Spec => LinksResolve` |
| | `CalmCacheNeverSticks` | with `~MayFail`: `Spec => [](LinksDiffer /\ NeverStuck)` |
| | `SelectionSwitchesWhole` | `Spec => SwitchesWhole` (implements `TwoSlots`) |
| | `SelectionKept` | with `None \notin Entry`: `Spec => [][SelectedKept]_vars` |
| | `AcceptedEntriesWereWhole`, `AlarmsHaveCauses` | with `Fitting` (the bounds are numbers, `None` is nothing else): `Spec => []AcceptedWasWhole`, `Spec => []AlarmHasCause` |
| | `MacBrowserKeepsItsComponent`, `MacReplacedSurvives` | with `Numbered` (versions are numbers, `Absent` is none): `Spec => []AlwaysLoadable`, `Spec => []GrantedSurvives` |
| | `MacEndsAsTold` | with `Numbered`: `Spec => [][OnlyGrantedDestroyed /\ SuccessIsLoaded /\ ErrorRestores]_vars` |
| | `WindowsBrowserKeepsItsComponent` | with `Registrable`: `Spec => []AlwaysLoadable` |
| | `WindowsEndsAsTold` | with `Registrable`: `Spec => [][Immutable /\ StateKept /\ SuccessIsLoaded /\ ErrorRestores]_vars` |
| | `DigestsAreFresh` | with `Memorable`: `Spec => [](Fresh /\ MemoTrue)` |
| | `OwnershipIsTrue` | with `Markable`: `Spec => [](ReplaceableIsOurs /\ StagedIsSelected /\ SealedHolds)` |
| | `ReportsAreTrue`, `ReportExitIsVerdict` | with `Reportable`: `Spec => [](HitIsExact /\ BlameIsNow /\ ReportWhole)`, `Spec => [][ExitIsVerdict]_vars` |
| | `RemovalsAreTold`, `RemovalsSpare` | `Spec => []SummaryTrue`, `Spec => [][PackagedUntouched /\ CdmKept]_vars` |
| | `ArchivesAreVouched` | with `Bounded`: `Spec => []` of all six properties of `Archive` |
| | `BrowsersAreListed` | with `Walkable`: `Spec => [](Complete /\ ListedOnce)` |
| `InstallingProofs` | `SlotsAlwaysFilled`, `AlwaysVouched`, `AlwaysTold` | `InstallingSpec => []SlotsFilled`, `InstallingSpec => []Vouched`, `InstallingSpec => []ToldIsTrue` |
| | `AllEndsAsTold` | `InstallingSpec => EndsAsTold` |
| `WatcherProofs` | `WatcherTypeCorrect` | `Spec => []TypeOK` |
| | `NothingIsForgotten` | with `~Rewatch`: `Spec => []NothingForgotten` |
| | `FiresAfterTheWindow` | `Spec => FiresOnlyWhenQuiet` |
| `InstallationProofs` | `MigrationTypeCorrect` | `Spec => []TypeOK` |
| | `NeonAlwaysHasItsData`, `AlwaysOneDaemon`, `OutcomesAlwaysTrue` | `Spec => []...` |
| | `NothingIsOverwritten` | `Spec => NeverOverwrites` |
| | `RetriesAlwaysWork` | `ServingSpec => []RetriesWork` |
| `ServingProofs` | `UpdateIsSafe`, `ScriptIsSafe`, `FetchIsSafe`, `ProbeIsSafe`, `MenusAreHonest` | `ServingSpec => []UpdateSafe`, ... of the invariants they name |
| | `StepsAreRight` | `ServingSpec => StepsRight` |
| `DaemonProofs` | `TypeCorrect` | `Spec => []TypeOK` |
| | `NoSwapMidPatch`, `DaemonReachable` | `Spec => []NeverSwapMidPatch`, `Spec => []Reachable` |
| `PatchBatchProofs` | `TypeCorrect` | `Spec => []TypeOK` |
| | `ChangesHaveLeave`, `ReportsAreTrue` | `Spec => OnlyWithLeave`, `Spec => ReportTrue` |

**Publication.** `LiveSealed` is not inductive: that the directory an exchange makes
live is sealed follows from what the transaction knows of its staged directory at each
step, and that a rollback puts back something whole follows from what the exchange took
out. `SInv` says, step by step, where each directory is and what it holds. `EndInv`
adds what a patcher that was the last to touch the target knows of it (`OwnChange`)
and that what it shows is ready from the validation on (`Ready`); it holds without
the lock, since nobody else writes into a directory a patcher has in its hands
(`InHands`). Refinement then goes action by action: a step that moves nothing is a
`Prepare` or a stutter, an exchange is a `Publish` or a `TakeBack`, an end is a
`GiveUp`, and what others do is WholeSwap's `ExternalChange`.

**Cache.** `CacheInv`: what the staging directory and the entry hold between
extraction and `ok`, that the version selected or verified is still there, and that
whatever prune has doomed is neither link's target. For the selection file the same
last part suffices (`OpInv`). A rollback checks an entry against its own metadata and
nothing else (`verify_cached_integrity`), so `RollbackSelectsVerified` claims no more:
that an entry and its metadata were replaced alike is not noticed, as the test at
`widevine/cache/tests.rs:233-274` has it. The reader that takes no lock needs more
(`ReaderInv`): it notices an entry that agrees with its metadata whenever it looks
(`whole`), and until it has, the files it has still to compare differ from the digests
it has read (`Suspicious`); while nothing gives it a cause to fail, what it is reading
is the vendor's and still selected (`Trusting`).

**Publication on macOS and Windows.** What a browser loads is the greatest version (or,
on Windows, the registered one), so a whole one that is there is not enough. `MacInv`
says which of the two directories of an exchange, the copy and the displaced one, is
whole (`MacCopy`, `MacExchanged`), that what others install meanwhile is whole, and
that the greatest version of the start is still there or displaced (`MacOthers`,
`MacNoGap`). `WinInv` says that the candidate is never where a version was
(`WinFound`), that the versions of others stay (`WinOthers`) and that what is
registered is whole (`WinRegistered`). What an error restores is what the run
has kept of the start (`MacTold`, `WinTold`), as long as nobody else has changed it.

**What is trusted.** `MemoInv`: every file's content is among those that have had its
length and second (`StampsTrue`), and, unless that file was written under it, what a
reader has read of the file it has open is the content it had when its metadata were
taken (`MemoReads`). `OwnerInv`: the only seal
ever on a readable marker is silvervine's (`OneSeal`); what a classification has read
is what is there as long as the directory it has captured is (`Looking`); the staged
copy is at each step part of what was selected, and nothing changes between its
inspection and its seal (`Staging`, `Sealing`). `ArchiveInv`: unless the archive was
refused its entries have been vetted before the first byte is written, and the disk
holds only bytes of those entries, never more than declared (`OfEntries`).
That a varint is read exactly is arithmetic: the groups below the last one are less
than its power of two, so the last group alone decides whether the value fits;
induction goes by the least counterexample (`LeastNatural`).

**What is told.** `ReportInv`: at each step of a test, what the first fingerprint, the
browser's start and the second fingerprint have taken, and which of the files changed
since; equal fingerprints and no change back leave what the browser has loaded, as far
as the digests tell (`ReportAlike`, `ReportCovered`).
`LegacyInv`: removed, migrated and skipped are apart and, step by step, cover what was
found; what the script removed is gone or was touched. `FoundInv`: on Windows a
directory that is looked into has its children visited or on the stack, and a path is
as long as its directory is deep below a root, which is one root only when roots do
not lie in one another; so the least directory on a way that was not visited would be
below one that was. On Linux an entry is named by the first root that is its
directory, as later ones are skipped (`Placed`).

**The systems together.** The theorems of `ComponentProofs` are about the modules and
not about a run. In `MCInstalling` a name is kept in the same variable whatever
system uses it, so that one instance of `ComponentProofs` serves all systems;
`InstallingProofs` shows that they are its instances, definition by definition, that
the constants are as the proofs ask (`SystemsFit`), and that each system keeps its own
invariant (`PartsInv`). The four theorems follow from that.

**Watcher.** `NothingForgotten` needs that what is owed is owed to a watched browser,
and that a tick never starts with callbacks left over. The hand-overs queue, timer,
deferral, callback are then followed action by action for one owed browser.

**Migration.** `MigrationInv` says, for each place a run can stand at, what it knows
of Neon and how directories and services relate to what it found.

**Daemon.** Who patches, updates or restarts has the lock (`HolderHasLock`), a thread
that stands elsewhere needs none; so no two of them go on side by side, in one
process or two. `Reachable` needs that a process that is not up has neither threads
nor connections (`Down`) and that a connection in a backlog belongs to a request
that was made (`Counted`).

**PatchBatch.** `LockInv`: locks are held on files the path has named, and no two flows
hold the same, so two flows in their locked part have different files and the path
has named more than one. `LeaveInv`: at each step of a turn, what has been captured,
granted and checked so far, which is the leave a later write uses. `BeforeInv`: what
is left of the browser as it was at the start of its turn, in the directory or in the
snapshot. The proofs use a lemma on the effect of a step (`StepEffect`) instead of
unfolding every action again.

**What serves the user.** Each system of `MCServing` has an inductive invariant `IInv`
in its own module, and TLC has checked it on a small instance; `ServingProofs` and
`InstallationProofs` prove it step by step, one lemma for each part of it and one
step of the lemma for each action, and the theorems put `sys = "..." =>` before it.

* *Registration* (`Knows`, `Earlier`): at each place a transaction can stand at, what
  it knows of the unit file, of what it found and of what it has attempted. The worlds
  of two transactions interfere, so `mixed` notes when they did, and what is known is
  known unless they have. From it `Registered` and `RolledBack` follow for the step
  that ends a call, also when the daemon that called is the service that is stopped.
* *Agent* (`Registering`, `Removing`, `CalmUndone`, `Cleared`): which job is loaded
  where the registration and its undoing stand; a retry works since what a refused
  call leaves behind is either loaded and stopped by the next one or cleared away.
* *Self-update* (`Backed`, `Seen`, `AloneRight`, `NotAhead`): the old executable is held
  under another name from its move to its release, on Windows only. Two runs at once
  may lose each other's files, which `overlapped` notes; a run that is alone knows
  what is at the place from what it did.
* *Scripts* (`IdKept`, `GroupKept`, `Drained`, `Said`): a process number is given out
  again only after it was waited for, and the kill comes before that; what was read
  and what is still in the pipe is what was written, in each state of the readers.
* *Downloads* (`SourceRight`, `ChainRight`, `TempRight`, `OnTrail`): where the resolution
  of a platform stands, there is a sequence of different keys, each an alias of the one
  before, so that the bound on lookups is never what refuses a manifest whose aliases
  end; the number of keys bounds such a sequence.
* *Probe* (`ClockRight`, `LineRight`, `AnswerRight`, `OutcomeRight`): a slow client has no
  more time than the reads it has left allow, the current one included, which is what
  the deadline is overrun by at most.
* *Tray* (`FlowRight`): while a flow goes on, each of its browsers is still to be
  patched, has failed, was changed by others, or is served; and the browsers of an
  update are all there are but for those that came meanwhile.
* *Panel* (`DraftNoted`, `OneQuestion`, `RawKnown`, `EditNoted`): a dialogue and a
  confirmation are never open together, so that neither changes what the other is
  about; raw mode is known of whenever it is on.

**What is removed.** `RemovesWhatItVetted` is about `MCSpec`, in which no parent of an
elevated child dies; where one does, the property is false. An inode that somebody holds open is not given out again, so an
identity that matches is the very directory that was vetted (`VetInv`).

Only model-checked: the liveness properties (`BatchesEnd`, `AnsweredEventually`,
`Settles`, `ShutdownEnds`, `EachEnds`, `NobodyIsLeftWaiting`, `PatchesSettle`), since
liveness under fairness and ENABLED are beyond the prover. The systems of
`MCInstalling` are instances with the small constants of the run but for those of the
caches and publications; the theorems of `ComponentProofs` are for all of them.

## 6. Plan

Done: all components but those below. What would come next, in this order: the
framing and the Windows pipe of IPC; code signing on macOS and the JSON of Local
State; `setup` and `repair` as sequences of the operations that are modelled one by
one.

## 7. Not modelled

The reason for each component is in `PROJECT.json`. In short:

* Power notifications: the daemon's callback logs and changes no state.
* Argument handling, output, completion and manual pages, what the terminal panel draws
  and the questions of the other commands: they keep no state that another component
  reads.
* What diagnostics collectors read and how they word it; the tables of known
  browsers; reading a version; icons.
* JSON, XML and TOML syntax; signature arithmetic; quarantine attributes; the
  identity of privileged executables.
* Nothing of what a kernel, systemd, launchd, a package manager, a browser's updater
  or the desktop does is under test: they are actions of the environment, marked
  external in the map, and may do what the code has to reckon with.
