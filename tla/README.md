# TV Safety Cleaner: verification development

TLA+ models of the Controller and Observer of TV Safety Cleaner, TLC runs that check them on small
instances, and TLAPS proofs for every instance. Paths below are relative to `src/`; `C/` is
`tv-controller/src/tv_controller/` and `O/` is `tv-observer/src/tv_observer/`.

## The system

TV Safety Cleaner is two services on a Raspberry Pi and their command lines. The **Observer** reads a
television over ADB: snapshots, observation sessions, recovery facts. The **Controller** reads the
snapshots and changes packages of the television over ADB: it installs, updates, uninstalls, enables
and disables user packages, journals each change in SQLite and reverts a chosen one later.

| Part | State it keeps | Operations | Talks to |
| --- | --- | --- | --- |
| State journal `C/state_history.py` `StateJournal` | table `state_operations`, durable | begin, complete, fail, prepare_selective_rollback, reconcile_no_change, finish_rollback | called by the job manager |
| Job manager `C/apk_manager.py` `ApkJobManager` | daemon threads and what they captured | start_install, _uninstall, _update, _set_enabled, _rollback, _download, _check_update, _profile_capture, _profile_apply, delete_local_apk, clear_finished | journal, repository, tasks, ADB, downloader, profiles |
| ADB client `AdbClient` | none; the television behind it | package_state, device_identity, install, uninstall, set_enabled | the television |
| APK repository `ApkRepository`, task files `TaskStore` | APK files, metadata files, one JSON file per task | exact_apk, resolve, delete; new, update, clear_finished | file system, shared by threads and `tv-apk` |
| Downloader `ApkDownloader` | `.part` files | poll, download | a download service, repository, tasks |
| State profiles `StateProfileStore` | one JSON file per profile | save, get, list; preview and apply in the job manager | journal, repository, ADB |
| Transaction engine `C/transactions.py` | tables `plans`, `operations` | execute, rollback | a mutation adapter |
| Planner `C/planner.py`, `C/profile.py`, `C/snapshot.py` | none | build_dry_run, verify_profile, load_snapshot | snapshots, profiles |
| Web services `C/service.py`, `O/web.py`, `tv.sh` | sessions, a rate limiter per worker, `observer.env` | login, logout, routes, change of the password | job manager; snapshots, sessions; each other through `observer.env` |
| Observation `O/observation.py` | tables `sessions`, `scenarios`, `samples` | start, stop, scenario_start, scenario_stop, add_sample, poll | ADB reader; web and CLI processes |
| Snapshots `O/snapshot.py`, `O/utilities.py` | a directory per snapshot, archives | create, verify, list, redact, archive | ADB reader; read by the Controller |

The hard behaviour is where these share state without a common lock. gunicorn serves one request at a
time in each worker, one for the Controller and two for the Observer
(`tv-controller/systemd/tv-controller.service:14`, `tv-observer/systemd/tv-observer.service:12`), but every accepted mutation goes on in a daemon
thread, an ADB command may time out and still run, the process may die between any two steps, and
`tv-apk` is a second process on the same files and the same television. `PROJECT.json` lists the
hazards at their lines.

What makes each part correct:

- the journal: it is a lock per package and evidence that is never rewritten; a row marked reverted was
  really restored;
- the job manager: it changes the television only behind a pending row, decides every row it begins,
  leaves no package without a way forward, and begins a rollback only of the newest branch;
- files: an APK that a row or profile names stays unless a deletion or a download took it; a running task keeps
  its file; what is listed as an APK or a snapshot is whole, and what is reported done is there;
- profiles: what is reported applied is on the television, and what was changed can be taken back;
- transaction engine: what was applied is recorded or reverted, once;
- observation: one active session and scenario, samples in the session they were taken for;
- web: the limiter is an exact sliding window, the shared password file is always readable, and a login
  is measured by what it says.

## Modules

| Module | What it is |
| --- | --- |
| `StateJournal` | The ledger: rows as a sequence `ops` (the id is the position, the key is AUTOINCREMENT and nothing is deleted), one operator per SQLite transaction. |
| `JobManager` | The handlers and threads of the job manager composed with the ledger, the APK library, the task files, the television behind ADB, crashes, and `tv-apk`. Its properties are at its end. |
| `PackageGate` | What the Controller promises about a package, without ledger or threads: a gate that is open, held or in doubt, a television that changes behind a held gate only, and an account of it that is true whenever the gate opens after an operation. |
| `JobManagerGate` | The refinement mapping from `JobManager` to `PackageGate`. |
| `JobManagerInvariant` | The inductive invariants, in named parts. |
| `JobManagerProofs` | Type correctness, proved. |
| `JobManagerLockProofs` | The ledger as a lock, as evidence and as an account of the television, the refinement of `PackageGate`, and recoverability, proved. |
| `MCJobManager` | The instance every `JM_*.cfg` sizes; the job slots are symmetric. |
| `TransactionEngine` | `execute` and `rollback` of engines over one operation journal and one adapter. |
| `TransactionEngineProofs` | Its types, that plans run once, that its journal is complete and its reports are true, proved. |
| `Observation` | The observation commands and pollers over the three tables, statement by statement. |
| `ObservationProofs` | Its types, and that only overlapping commands open a second session or scenario or leave one behind a stop, proved. |
| `MCTransactionEngine` | Its instance, with symmetric engines. |
| `ApkDownloader` | The APK library on disk: downloads, their `.part` files, metadata and task files, deletion and clearing. |
| `StateProfiles` | Capture, preview and apply of profiles over the operators of `StateJournal`, and the deletion of files they name. |
| `ApkDownloaderProofs` | Every safety property of the downloader, proved. |
| `StateProfilesProofs` | Every safety property of the profiles, proved. |
| `MCStateProfiles` | Its instance: what the service finds when it starts. |
| `SnapshotStore` | Snapshot directories, redacted copies and archives under the hands of several processes and two kinds of readers. |
| `SnapshotStoreProofs` | Every property of the store, proved. |
| `MCSnapshotStore` | Its instance: the order of the files. |
| `WebGate` | Logins of the web services and the writers of the password file they share. |
| `WebGateProofs` | Every property of the gate, proved. |
| `MCWebGate` | Its instance, with symmetric workers. |

`StateProfiles` and `JobManager` are both built from `StateJournal`. `JobManager` has the threads of profile
applications too, with every row they begin, but chooses freely what a profile wants of a package; `StateProfiles`
has the profiles, the files they name and the order of an application, and takes every other request as an outside
change. Both take a download as one step; `ApkDownloader` is what happens within it.

### How JobManager corresponds to the code

A **job** is one accepted request. It starts in the request handler (`Start...`: everything the handler
reads before its first write) and steps through its program counter: `prepare`, `newer`, `reconcile`, `begin`,
`spawn` in the handler, then `announce` (the first `tasks.update`), `command`, `restore-disabled`,
`verify`, `complete`, `finish`, `report` in the thread, and `fail` for the `except` branch. `update`
runs `download` and `begin` in its thread, which is why it alone reads its before-state long before its
row. A profile application (`apply`) does everything in its thread: `inspect` reads the package of an entry and
chooses whether its version or its flag is to change, `begin` to `report` are its row, and `Proceed` goes on to the
flag or to another entry. The `start_*` methods share this skeleton line for line, so one action stands for the
corresponding lines of all of them; what differs between them (`Verb`, `InverseOf`, `RowOf`, `Verified`)
is an operator over the kind of job. A refusal that changes nothing is a guard of the action; a refusal
in a thread is a step to `fail`.

- `Run` is `AdbClient._run` for a mutating command: whether the command took effect and whether it was
  reported as done are independent, except that both need the client's own checks (`Sendable`). After a
  timeout, or a crash of the service, the command may still take effect later (`LateEffect`).
- A storage error stands for any write that raises: SQLite locked, disk full. It is possible wherever
  the code writes, and takes the path the exception takes.
- `Crash` ends all handlers and threads. The code has no recovery at start, so neither has the model.
- A file is identified by its package and version; an enabled flag, a version and the set of system
  packages are all that `PackageState` is compared by.

`prepare_selective_rollback` is two steps, `Prepare` for the row and `CheckNewer` for the newer ones: they are two
connections (`C/state_history.py:192`, `:197`), and the row is not read again. The thread of a rollback never looks
at the device again (`C/apk_manager.py:1017`); `moved` and `source` are ghosts that remember whether the television
was exchanged while a job ran, and which one its last reading came from.

Reads of the television that follow each other directly in one handler are one step: device and package state in
`_mutation_context`, the check of an ADB method and its command. Sideloading is on; refusals by settings,
confirmation or CSRF never reach the job manager. That saved profiles retain files too is left to `StateProfiles`.

### How TransactionEngine corresponds to the code

An **engine** is one `TransactionEngine` object in a process of its own; its record holds the locals of
the call in progress. Each journal method is one transaction and one step, each adapter call is one step,
the four health checks together are one. The loop of `execute` goes `apply`, `health`, then `record` and
on, or `undo`, `record-failed`, `finish-failed`; `rollback` reads its candidates (`RollbackStart`) and goes
`revert`, `mark` for each. `Fail` is any exception or the end of the process; nothing catches it. The
repository has no adapter, so `changed`, what an adapter has applied and not reverted, is external, and the
operations of a plan are any sequence without a repeated package (`C/planner.py:107`).

### How Observation corresponds to the code

The `sqlite3` module begins a transaction at the first `INSERT` or `UPDATE`, not at `with`. Every `SELECT`
of a method is therefore a step of its own, and all its writes are one: `Start` / `StartInsert`, `Stop` /
`StopUpdate`, `ScenarioStart` / `ScenarioQuery` / `ScenarioInsert`, `ScenarioStop`, and `AddQuery` /
`AddInsert` for a poller. A refusal of a query ends the method; of `add_sample` it ends the poller, since
`run` does not catch it. Nothing keeps two commands apart, and any number may run side by side. Rows have ghosts: what
the command had looked at when it found none open (`after`), and how many scenarios there were when a session was
stopped (`ended`). A command is a `tv-observer` process (`O/cli.py:106`); the web route
`/observation/start` (`O/web.py:365`) tells the user that the request is recorded and writes nothing, so
it is no action.

### How ApkDownloader corresponds to the code

A download is numbered; the number names its thread, its task file, the inode it creates, the bytes it got and the
metadata it wrote. `part` and `final` are directory entries that point to inodes, because `download` opens
`NAME.apk.part` by name and an open file stays writable after another thread has renamed or unlinked it. A file that
was placed in the library by hand (`README.md:294`) is there at the start, without metadata. One action is one file
operation or one `tasks.update`: `Reply` (the server's answer), `Open`, `Write` (a chunk and its task update), `Move`
(`chmod` and `replace`), `Inspect`, `Save` (metadata), `Finish`, and in the except branch `Clean`, `Check`,
`UnlinkFinal`, `Report`; `ReportAgain` is the except branch of the update around it. Each `tasks.update` may raise,
because its file is gone or the storage refuses it; the update of the outermost except branch has nothing around it,
and the task then stays as it is (`silent`). Unlinking is taken to succeed. A `read` that meets a closed connection
returns nothing and does not raise (`CutShort`). A file has two halves; `inspect_apk` reads the directory at the end
of a ZIP file, so it rejects a file without its second half and misses a hole before it.

Neither `inspect_apk` nor its caller compares the package or the version of the bytes with what was asked for
(`C/apk.py:46`, `C/apk_manager.py:478`): the metadata hold the package that was requested and the version that the
server announced (`version_from_download_data`, 0 if it announced none), and only the signature is read from the
bytes. The model therefore says whose bytes and whose metadata a name has, never that the version is the true one.
`Resume` and `Install` are an update going on with its task already `done`. `alone` is a ghost: no other download or
deletion of the name while this one ran.

### How StateProfiles corresponds to the code

A thread is a capture or an application. A capture goes `list`, then `read` and perhaps `fetch` for each
package in the order of their names (`Rank`), then `save`; it chooses a file in `read`, and nothing but the
saved profile retains it. `StartApply` is
the gate of `start_profile_apply`, which looks at the device and `profile_preview` once; the thread then goes
`inspect`, `begin`, `command`, `verify`, `complete` for the version of an entry and again for its enabled flag,
which is compared with the reading just taken. A deletion is three steps: the ledger, the profiles, the unlink.

A file is a name, and `library` says what version each name states: the number in its metadata or, for a file placed
by hand (`bare`), in its name; 0 if neither says. `exact_apk` takes any file that states the version. A download,
by a capture (`Fetch`) or by any other request (`OtherDownload`), is one step: the server chooses the name and the
version, and the download overwrites what has the name (`Archived`, `C/apk_manager.py:477`) or, when it fails, unlinks
it if it has no metadata (`Discarded`, `:506`). Names of different packages are taken to be distinct. An
installation may bring any version, since nobody compares the bytes with what they state.

`raced` is a ghost: named files that a deletion took although they were being named, in flight or since its checks,
named files that a download overwrote or unlinked, and files that saved profiles name and that are amiss when the
model starts; a file that a settled row or a profile named when a deletion began never counts as raced by it. A
command may take effect or not and be reported done or not, or take effect after its timeout or after a crash, as in
`JobManager`; `journal.fail` may itself raise.

### How SnapshotStore corresponds to the code

A run is one call of `create_snapshot`, `redact_snapshot` or `archive_snapshot`. A directory is what each of its
files holds and what its checksums say; a digest is the content. `create` fills a hidden directory of a random
name, verifies it, checks for the final name and renames; `redact` verifies its source, copies it under the
*final* name outside its `try`, rewrites the files there and then the checksums; `archive` opens a new file,
adds the entries one by one, reads them again and removes an archive that fails this test. `ObserverLists` and `ControllerLists` are what the two services take for a
snapshot: the Controller's glob also finds hidden directories, and it parses two of the files. `Raise` takes the
path with the clean-up, `Stop` the one without, `Die` none. The clean-up is `rmtree(ignore_errors=True)`, so
`Removed` may leave any part of the directory behind. Nothing is synced, so a power loss may cut any
files of a directory short (`torn` remembers which); checksums are written at once and fit a disk block, so
they are lost as a whole or not at all.

### How WebGate corresponds to the code

Both services have the same `RateLimiter`, `login` and `_env_value`; a worker is a gunicorn process of either
and serves one request at a time. `Login` is the limiter, which comes first; `ReadHash` and `Respond` follow.
`settings_password` of the Observer goes `Change`, `CheckCurrent`, `ReadLines`, `WriteTemporary`, `Replace`: the
file is read, changed and replaced by a rename, with no lock. `tv.sh` does the same with `sed -i`
(`InstallRead`, `InstallReplace`). Writing the temporary file may fail; the file itself, which a death leaves behind
under a name nobody reads, is not part of the model. The model starts after the first installation, so both keys have a line.
Time is an integer; the code's is a float compared in the same way. `answers`, `wanted`, `overlapped` and
`held` are ghosts: what the limiter has answered, the value last written to each key, the keys a writer set back that had
read the file before their last write, and the passwords of the file since a request came.

The definitions called *Defect* are not used by the specification: each is a plausible wrong version
of the definition below it, and the property named in `PROJECT.json` fails with it.

## Runs

All bounds are CONSTANTS: `Jobs` live at once, `MaxOps` journal rows, `MaxFaults` environment events
(crash, storage error, timeout with a late effect, external change, new device, `tv-apk`), `Workers`
requests at a time. Rows and events are bounded because each grows for ever; three rows are the shortest
history with a rollback of a row whose neighbour is settled, and two jobs the fewest that interfere. With one version
a package can be absent, enabled or disabled, and an installation may still replace one; the proofs are for any.

| Run | Bounds | Shows |
| --- | --- | --- |
| `JM_Safety` | 1 package, 1 version, 2 jobs, 2 handlers, 3 rows, 2 crashes or storage errors, every request that begins a row; 451,568 states | The ledger: `TypeOK`, `OneMutatorPerPackage`, `UnresolvedChain`, `InductiveInvariant`, `LedgerIsEvidence`. While only the Controller changes the television: `LedgerMatchesTv` (the newest settled row is the live state), `JournaledBeforeExecution`, and `ImplementsGate`, the refinement of `PackageGate`. Two handlers are more than the unit deploys: nothing of this rests on `--workers 1`. `tv-apk`, outside changes and commands that take effect after a timeout are left out of this run, because each changes the television beside the ledger and refutes the last three. |
| `JM_Wide` | 2 packages (one system), 2 devices, 2 jobs, 2 rows, 1 event of any kind but storage errors; updates, disabling, rollbacks, profile applications, deletes, downloads, clearing; 1,290,000 states | `RevertedWasRestored`: with `tv-apk`, late effects, outside changes and a change of device, a row becomes reverted once, and with a reading of its before-state that came from its own television, unless that was exchanged during the rollback. |
| `JM_Recover` | `FairSpec`, 1 handler, 1 version, 2 jobs, 3 rows, 1 late effect; installs, updates, disabling, rollbacks, profile applications; 157,000 states | `Recoverable`: without crashes and storage errors the newest active row can be rolled back from the state it recorded, or is a rollback that failed or whose row another rollback settled first. `OnlyThreadsOvertake`: prepare and begin of a rollback are transactions of their own, and only the rows of updates and of profiles come between. `PendingIsDecided`. |
| `TE_Safety` | 2 plans of 2 operations that share a package, 2 engines, any call fails | `TypeOK`, `OperationsRunOnce` (a plan identifier never runs twice), `RowsArePrefix` (every row of a plan stands behind applied rows of the operations before it), `ReportIsTrue` (its status is what its rows say), `UnrecordedIsLocated` (a change has an unreverted row, is in an engine's hand, or is the first operation without a row of a plan left running). |
| `OB_Observe` | `FairSpec`, 2 commands, 1 poller, 2 sessions, 2 scenarios, 2 samples; 674,877 states | `TypeOK`; `OneActive`: a session or scenario is opened beside an open one only by a command that had looked before that one was written; `ScenarioInSession`: one that is open in a stopped session was written after the stop by a command that had read the session before it; `PollersEnd`: when the sessions are over every poller ends, unless a new one is opened before it looks. |
| `DL_Downloads` | `FairSpec`, 1 name, with or without a file placed by hand, 2 downloads, 1 crash, storage errors, deletions and clearing at any time; 589,206 states | `DoneIsArchived` (a download that had its name to itself reports done only with its own whole file and its own metadata in the library), `LibraryIsTruthful` (metadata describe the whole file beside them, unless a failed download replaced it; a file without metadata was placed by hand; no metadata is without its file), `PartsBelongToDownloads` (no partial file outlives its downloads), `OnlyUpdatesLoseTheirTask` (clearing), `TasksAreDecided` (unless the report of the failure fails). |
| `SP_Profiles` | 2 packages, 2 versions and names, 2 devices, 2 threads, 3 rows, 1 profile, 1 event (crash, late effect, outside change, other download, error of the ledger), a server that answers with the right version, another or none; starts before the first capture and with a saved profile; 2,076,747 states | `AppliedMeansReached`, `StopsAtFirstMismatch`, `ProfileRowsReverse` (a profile's row can be taken back, and its file states the version that was replaced), `RetentionHolds` (files outlive every row and profile that names them and go on stating their version, except where a deletion raced or a download took the name). |
| `SS_Snapshots` | 3 runs of any kind, 1 second, 3 files (one masked, two needed by the Controller), 1 fault, clean-ups that leave any part; 1,145,373 states | `AcceptedIsWhole` (whatever either service lists is one run's inventory, all raw or all masked), `SnapshotsStay` (a published one never changes), `VerdictsHold` (what a call reports done stays true, and a create that fails has published nothing). |
| `WG_WebGate` | 2 workers, 1 client, 2 passwords, limit 2, window 1, 3 moments, 4 requests, 2 deaths or calls of `tv.sh`; 1,437,940 states | `LimiterIsExact`, `FileStaysWhole` (always readable, and the last write of a key stays unless a writer of the other key goes over it with what it had read before), `LoginIsCurrent` (a login is measured by a password the file had meanwhile). |

Two plans with a common package are the fewest that make one engine revert what another applied; with two
engines one can roll back while the other executes or rolls back. In `Observation` two sessions are enough
for a poller or a scenario to meet a session other than its own. `MaxSessions`, `MaxScenarios` and
`MaxSamples` only stop commands and polls from beginning. Two downloads are the fewest that share a file name,
and names do not interact. `SP_Profiles` needs two packages for an application to have a second entry, and three
rows for both changes of one entry and the first of the next. Snapshots of different seconds share no
name, so one second is the case of interest; three calls are the fewest in which two make a snapshot and a third
copies it. A limiter keeps nothing between clients, so one client is enough; a window of 1 within three moments has
times before, at and after its edge, and four requests fill a limit of 2 and are refused beyond it.

Deadlock is checked in every run; `AwaitRequest` is the idle service, `Rest` an engine nobody calls,
`Refuse` a command that is refused. In `SnapshotStore` the calls are made once each, and `Rest` is their end.

**Fairness.** `FairSpec` asks weak fairness of each job's steps, handler and thread together. The code
justifies it: a handler and a thread run to their end, because each ADB call and each download has a
timeout (`C/apk_manager.py:541`, `:454`) and a timeout is itself a step. Nothing is asked of requests,
of late effects or of the environment. `FairSpec` of `Observation` asks weak fairness of the steps of a
poller that has been started: its ADB reads have timeouts, and a locked database raises after one. Nothing
is asked of commands, of starting a poller, or of failures. `FairSpec` of `ApkDownloader` asks weak fairness of each
job: the poll loop ends after 180 s (`C/apk_manager.py:398`), and a transfer that stalls times out.

### Where the code departs from what the repository says

Each of these runs ends in a counterexample.

| Run | Statement | What happens |
| --- | --- | --- |
| `JM_StaleBefore` | `state_history.py:106`, requests "cannot share a stale before-state" | `update` reads its before-state, downloads, and begins after another operation has completed: two applied rows with one before-state. A later rollback of the second restores a state from before the first. |
| `JM_FailedRollback` | `tv-controller/docs/RECOVERY.md:17`, an uncertain operation that matches its before-state is reconciled | A failed rollback has no inverse and is refused first; its package stays locked. |
| `SP_Retention` | `README.md:65`, "APK retention while a file is required by rollback history or a saved profile" | `delete_local_apk` looks at rows that are settled and profiles that are saved: a capture that has chosen a file, or a pending row, names it after the checks. |

Observed while modelling, without a run of their own:

- The thread of an update or of a profile application begins and completes its row after a rollback's `prepare` and
  before its `begin`, whose guard sees unresolved rows only (`README.md:319` says that a rollback is refused when a
  newer active operation changed the package); `OnlyThreadsOvertake` shows that with one handler no other row comes
  between.
- A rollback that commits `finish_rollback` between the two reads of another one's `prepare_selective_rollback`
  (`C/state_history.py:192`, `:197`) lets that one begin from a row that is already settled. Its own
  `finish_rollback` then fails, and an applied rollback without an inverse stays on top of the package.
  `Recoverable` names this row as one of its two exceptions.
- The thread of a rollback does not look at the device again (`C/apk_manager.py:1017`): a television that takes the
  place of the other one after the request gets the restoration. `RevertedWasRestored` says that no other does.
- The task of an update is `done` between its download and its installation, and clearing takes it
  (`tests/test_apk_manager.py:153` clears beside a running task); `OnlyUpdatesLoseTheirTask` shows that no other
  running task is lost.
- The transaction engine journals an operation after its health checks, so an exception or a crash before
  leaves a change without a row (`tv-controller/docs/THREAT_MODEL.md:9` meets a partial operation with a "durable
  journal"); `UnrecordedIsLocated` says which. Two rollbacks that read the same candidates revert a row twice.
- `tv-apk` changes the television without the ledger (`README.md:353` says that every mutation is journaled).
- A second download of an archived name that is rejected by inspection has already replaced the good file; the
  except branch keeps the file because the older metadata is there (`C/apk_manager.py:506`). A file that was placed
  by hand has none: a download of its name that fails, even before its first byte, unlinks it. A crash leaves a
  partial file, and a crash between replace and metadata a file without metadata, which nothing removes.
- A storage error in the report of a failed download (`C/apk_manager.py:508`) ends the thread and leaves the task
  `downloading` for ever; `TasksAreDecided` excepts it.
- A download overwrites or unlinks a file of its name although a row or a saved profile names it
  (`C/apk_manager.py:477`, `:506`; `README.md:65` and `:354` promise that such files are retained).
- Two captures that end within one second can choose one identifier and write through one temporary name
  (`C/state_history.py:310`).
- A redacted copy exists under its final name, whole and unredacted, until it is rewritten, and an archive taken
  meanwhile mixes both; a failure of the copy leaves it, and the next call refuses (`O/utilities.py:136`). A crash, or
  a removal that fails silently (`O/utilities.py:150`), leaves it listed, perhaps unmasked.
- The Controller looks into hidden directories and does not require every file that
  `tv-observer/docs/SNAPSHOT_FORMAT.md` lists; what it accepts is whole all the same (`AcceptedIsWhole`).
- Each of the Observer's two workers has a limiter of its own, so a client has the limit twice.
- Writers of `observer.env` lose updates: a change of the password beside `tv.sh` can be set back.
- Two `observe start` commands can both find no session and both open one, and a `scenario start` beside a stop can
  leave an open scenario in a stopped session, which blocks every later one; `OneActive` and `ScenarioInSession` say
  that nothing else does. A sample can be inserted after its session was stopped.

## Proofs

Every safety and action property of the passing runs, and the refinement, is a theorem, for every value of the
constants: no bound on packages, versions, jobs, threads, processes, plans, rows, files or faults. A theorem rests
on the named assumptions about constants in the module it is about, which TLC evaluates in every run; the few
that need more state it as a hypothesis. The argument is always the same: an invariant that every step keeps, in
named parts, and the property as a consequence. Below, what the property lacks to be inductive.

### The job manager

Assumptions: `VersionsArePositive`, `NoStateIsNoState`, `NoJobIsNoJob`, `BoundsAreNaturals`.

- `TypeCorrect`: `Spec => []TypeOK`. `TypeOK` is not inductive, because a row is typed from the job that
  begins it; `Shaped` adds what each program counter says of the job's kind and row numbers (`Shape`).
- `AlwaysInductive`: `Spec => []InductiveInvariant`, which is `Shaped /\ Linked /\ JobsLocated`. `Linked` relates rows
  to their parents (`RowLinked`, `RowRecorded`, `RowReverted`, `RecordedOnce`), rows of a package to each
  other (`UnresolvedChain`), and jobs to the rows they work on (`JobLinked`, `JobsOwnRows`).
- `LedgerIsALock`: `Spec => []OneMutatorPerPackage`.
- `UnresolvedRowsChain`: `Spec => []UnresolvedChain`.
- `RevertedRowsWereRestored`: `Spec => RevertedWasRestored`, an action property. `Located` carries that a job knows
  its television until somebody exchanges it.

The argument: `begin` admits a row beside an unresolved one only if that is its parent. A parent has an
inverse action and a rollback has none (`RowLinked`), so a rollback is never a parent, chains have at
most two rows, and the older is uncertain because `prepare` saw its verdict. None of this needs the two reads of
`prepare` to agree. A job between begin and
verdict owns a pending row of its package (`JobLinked`), two pending rows of one package cannot exist, so
two such jobs own one row, and `JobsOwnRows` makes them one job. Each action then is one of few things: it
leaves the rows alone (`MoveLinked`, `EndLinked`), gives the job's own row its verdict
(`OwnVerdictLinked`), begins a row (`BeginRowsLinked`), or settles a row with its rollback
(`FinishRowsLinked`).

- `EvidenceIsKept`: `Spec => LedgerIsEvidence`, an action property. A late except branch writes `uncertain` over
  whatever its row says; that this never takes back a verdict needs `PendingUnread` and the link from the job to
  its row. `PendingIsNewest` (nothing is begun after a pending row of the package) serves the next three.

With the hypothesis `OnlyTheController`, that `Faults` has neither late effects, nor outside changes, nor
`tv-apk` (crashes and storage errors stay; `JM_Safety` satisfies it):

- `LedgerTellsTheTv`: `Spec => []LedgerMatchesTv`. `LedgerLeadsTv` adds that a job about to complete has read what
  the television still holds (`VerifiedIsCurrent`: the lock keeps others away) and that a command left on its way
  by a crash stands behind a row no job will decide (`LateBehindOrphans`).
- `NothingUnjournaled`: `Spec => JournaledBeforeExecution`.
- `GateIsImplemented`: `Spec => ImplementsGate`. Initial states map to open gates. A step moves the gate of
  one package at most, never from open to doubt, and the television only behind a gate that is held; a gate that
  opens from held has an account that is the television, which is `LedgerMatchesTv` at work. Each of these is one
  step of `PackageGate` or a stutter.

- `OnlyThreadsComeBetween`: with the hypothesis `Workers = 1`, which is what the unit deploys,
  `Spec => OnlyThreadsOvertake`, under any fault. `HandlersTakeTurns`: two jobs are never in their handlers together,
  and in threads only updates and profiles begin rows, so whatever is newer than the original of a rollback that is
  about to begin is one of theirs (`Overtaken`).
- `PackagesAreRecoverable`: with the hypothesis `NothingFails` (neither crash nor storage error; a timeout with a late
  effect may happen), `Spec => []Recoverable`, for any number of handlers. `VerdictsComing` says that every pending
  row has the job that will settle it, that every applied rollback has one or came second (`AppliedRollbackHasJob`),
  and that only rollbacks have a parent or lack an inverse (`RollbackRows`). `JM_Recover` satisfies both hypotheses.

### The transaction engine

Assumptions: `OperationsAreDistinct`, `NoPlanIsNoPlan`. Any call may fail.

- `EngineTypeCorrect` and `NoAutomaticRetry`: `Spec => []TypeOK`, `Spec => []OperationsRunOnce`. Their invariant
  is `OnceInv`: an engine that executes has begun its plan (`Shape`), no other
  engine executes that plan (`OneEngine`), and the rows of its plan are of operations behind the one in
  hand (`RowsBehind`). A begun plan stays begun, so no engine comes back to it.
- `ChangesAreLocated`: `Spec => []UnrecordedIsLocated`. The property is not inductive:
  the only row of a changed package might be marked next. `Covered` asks for a row that nobody is about to
  mark; it is kept because `Revert` restores the package of a row before the row becomes one about to be
  marked, and only `Apply`, which takes the package in hand, can change it again. `Running` and
  `BehindHasRow` say that the plan of an engine that fails with an operation in hand then is abandoned
  with exactly the operations before it recorded (`OrphanLeft`), and it stays so, because an identifier
  that is begun is never begun again (`OrphansStay`). Every step moves one engine (`EngineMoves`).
- `RowsFollowThePlan` and `ReportsAreTrue`: `Spec => []RowsArePrefix`, `Spec => []ReportIsTrue`. `Progress` says what
  an engine owes its report: in the loop the operations before the one in hand have applied rows, at the end
  all have, or one has failed. A row counts as applied also when a rollback has reverted it since.

### Observation

- `RowsHaveSessions`: `Spec => []TypeOK`, for any commands side by side. A scenario or sample names a session that
  was found in one step and is written in a later one; `Located` carries that it exists across the gap.
- `OnlyOverlappingStarts` and `StopsEndScenarios`: `Spec => []OneActive`, `Spec => []ScenarioInSession`, also for any
  commands side by side and any deaths. `OverlapInv` adds what a command that is about to insert has looked at: every
  row that is open now was written after that (`Looks`). It is kept because rows only close, and because a stop closes
  all open scenarios in the transaction that stops the session.

### The downloader

Assumptions: `BoundIsNatural`, `NoNameIsNoName`, `NamesAreNotNumbers`. The one invariant is `LibraryInv`.

- `LibraryTypeCorrect`: `Spec => []TypeOK`. A directory entry always points to an inode of a download of that name or
  to the one placed there by hand (`Placed`), and a download that has opened nothing has made none (`Fresh`).
- `PartsAreOwned`: `Spec => []PartsBelongToDownloads`. Stronger than the property: a part file has a download
  of its name that is still to rename or remove it (`PartsHeld`), although downloads take each other's.
- `TasksOutliveJobs`: `Spec => []OnlyUpdatesLoseTheirTask`. `Tasked`: a finished stage, or a file being read by
  `clear_finished`, belongs to a job past its download.
- `DoneMeansArchived`: `Spec => DoneIsArchived`. `Solo` says what a download that had the name to itself has
  written at each step; `Alone` keeps the others away.
- `LibraryStaysTruthful`: `Spec => []LibraryIsTruthful`. `Listed` says, for a name whose downloads and deletions
  took turns, what each step of the one download leaves of the truth of the name (`Leaves`); a download that fails
  before its rename leaves the name as it found it, or empty, and one that fails after it leaves the file only over
  the metadata of another download, because metadata appear with `Save` only (`Unsaved`).

### State profiles

Assumptions: those of `StateJournal`, `NamesAreSorted`, `BoundsAreNaturals`, `FilesAreStated` (what a server answers
is a name and a version or none), and `StartsAreStates`, that what the service finds at its start is typed and a saved
profile has each package once (`pm` lists it once).

- `ProfilesTypeCorrect`: `Spec => []TypeOK`. `Shape` ties the index and the rows of a thread to its position.
- `FilesAreRetained`: `Spec => []RetentionHolds`. What pending rows, captures and applications at work name a file for
  has to be counted too (`Claimed`), since it becomes a settled row or a saved profile: a claim finds its file stating
  the version, or the file was raced (`ClaimsAreKept`), because whatever takes or changes a claimed file counts as a
  race. The file a row goes forward with is that of a saved profile (`AfterIsHeld`), which an application always has
  (`ProfilesAreSaved`), because none is ever removed. That the flag of an entry is changed at the version of the
  profile is `VersionsAreMet`; and a deletion of a file that was named at its start gets to the profiles at most
  (`NamedIsRefused`), because rows that hold a file stay settled.
- `ProfileRowsCanBeReversed`: `Spec => []ProfileRowsReverse`, from retention and `RowsInvertible`: a row that
  replaces a version names its file, because `inspect` refuses without one.
- `ApplicationsStop`: `Spec => []StopsAtFirstMismatch`. `BatchInv`: the rows of a thread are of entries it has passed,
  all but the last are applied, and no two threads share a row; so nobody else's verdict falls on them.
- `AppliedIsReached`: `Spec => []AppliedMeansReached`. `ReachInv`: the entries before the one at hand are in
  their state, and what the thread last read is true, while nobody else changed the television. A command for a
  later entry leaves the earlier ones because a profile lists a package once, which `CaptureInv` derives from
  the order in which a capture reads them.

### Snapshots

Assumptions: `FilesAreDistinct`, `OrderIsSequence`, `SensitiveAndNeededAreFiles`, `ChecksumsAreNotListed`,
`NoFileHasNoContent`, `MaxFaultsIsNatural`, and `SomeAreNeeded`: the Controller parses at least one file
(`C/snapshot.py` asks for two).

- `StoreTypeCorrect`, `AcceptedSnapshotsAreWhole`, `VerdictsStayTrue`: `Spec => []TypeOK`, `[]AcceptedIsWhole`,
  `[]VerdictsHold`, and `SnapshotsNeverChange`: `Spec => SnapshotsStay`, from one invariant, `StoreInv`. A run has the
  names of its kind (`Shaped`), and a copy that is being made has its target to itself (`Owned`); checksums are
  those of one run or not there (`SumsWhole`), so files that match them are of one run; a file lies where its maker
  put it (`FilesPlaced`); and `Progress` says what each step of each kind of run has made by then, unless a power
  loss tore it. A clean-up that leaves a part of its directory only takes files and checksums away, which none of
  these minds. A step of a run writes to its own names only; `PowerLoss` is treated apart.

### The web gate

Assumptions: `ObserversAreWorkers`, `InstallerIsNoWorker`, `FirstIsPassword`, `NumbersAreNatural`.

- `GateTypeCorrect`, `FileIsWhole`, `LoginsAreCurrent`: `Spec => []TypeOK`, `[]FileStaysWhole`, `[]LoginIsCurrent`,
  from `GateInv`: the lines of the file, and those any writer is about to write, have one line for
  each key (`Sound`); a writer holds the last value of each key that nobody has written since it read the file
  (`Remembers`), so what it sets back is exactly what it overlapped with; and the password a login compares with was
  in the file since the request came (`Informed`).
- `LimiterCounts`: `Spec => []LimiterIsExact`. The code drops old times only from the head of its queue and only when
  asked, while the property counts over all answers. `Remembered` relates the two: an increasing function from the
  positions of the queue to the answers that passed, onto those not yet dropped, and what was dropped is older than
  a window. It rests on the order of the times (`Ordered`); counting is by a bijection between two finite sets.

### Model-checked only

Liveness and ENABLED are outside the prover: `PendingIsDecided`, `PollersEnd` and `TasksAreDecided` stay with TLC.
The three runs that end in a counterexample refute their statements, and there is nothing to prove.

## Plan

The safety side is proved. What is left is to make it rest on less and say more: lemmas about the transactions of
`StateJournal` that `JobManagerLockProofs` and `StateProfilesProofs` both prove for themselves; `LedgerMatchesTv` per
package, so that an outside change of one package takes nothing from the others; and the saved profiles in
`StartDelete` of `JobManager`.

## Not modelled

- The planner and device profiles (`C/planner.py`, `C/profile.py`), platform detection and comparison of
  snapshots: tables and comparisons of parsed values, without state or order. An operator for one would repeat
  its table.
- The collector and the ADB reader of the Observer: a sequence of reads of a television that changes while it is
  read. The code claims no consistency between two reads, and keeps nothing.
- Controller settings: one file that one process writes by a rename and reads at each request. The models take
  the service with sideloading on.
- The command lines: argument parsing over the parts above; what `tv-apk` changes is in `JobManager`.
- Rendering, CSRF tokens, static files, ZIP parsing and the rest of the deployment scripts: no state that a model
  could relate to another. The contents of ADB output are taken as the values parsed from it.
