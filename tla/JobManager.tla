----------------------------- MODULE JobManager -----------------------------
(***************************************************************************)
(* ApkJobManager of tv_controller/apk_manager.py with everything it shares *)
(* between its callers: the operation ledger, the APK library, the task    *)
(* files, and the television behind ADB.                                   *)
(*                                                                         *)
(* A job is one accepted request.  It runs first in the HTTP request       *)
(* handler (pc in ServingPcs) and then, for a mutation, in the background  *)
(* thread that _start spawns.  gunicorn serves Workers requests at a time, *)
(* the deployed unit says 1, but nothing bounds the background threads, so *)
(* every step below may interleave with the steps of the other jobs.       *)
(***************************************************************************)
EXTENDS StateJournal

CONSTANTS
    Jobs,            \* slots for concurrently live jobs
    NoJob,           \* value of a free slot
    Workers,         \* HTTP requests served at a time
    Requests,        \* kinds of request in play
    Faults,          \* kinds of environment event in play
    SystemPackages,  \* packages that pm list packages -s names
    NeverTouch,      \* packages that is_never_touch refuses
    MaxOps,          \* bound: journal rows
    MaxFaults        \* bound: environment events

Mutations == {"install", "update", "uninstall", "enable", "disable", "rollback",
              "apply"}

ASSUME BoundsAreNaturals ==
    Workers \in Nat /\ MaxOps \in Nat /\ MaxFaults \in Nat

VARIABLES
    tv,       \* live state of each package on the television
    device,   \* identity of the television
    library,  \* versions of each package archived as APK files
    jobs,     \* live requests and background threads
    late,     \* commands ADB gave up on that the television may still run
    faults    \* environment events so far

vars == <<ops, tv, device, library, jobs, late, faults>>

-----------------------------------------------------------------------------
(* Types.                                                                  *)

ServingPcs == {"prepare", "newer", "reconcile", "begin", "spawn", "unlink"}
\* The pcs between journal.begin and the verdict on the operation.
OpenPcs == {"spawn", "announce", "command", "restore-disabled", "verify",
            "complete"}
SendingPcs == {"command", "restore-disabled"}
ThreadPcs == {"download", "inspect", "announce", "command", "restore-disabled", "verify",
              "complete", "finish", "report", "fail"}

Verbs == {"install", "uninstall", "enable", "disable"}

Job == [kind : Mutations \cup {"delete"},
        pc : ServingPcs \cup ThreadPcs,
        package : Packages,
        identity : Devices,           \* device read by the handler
        before : State,               \* package state read by the handler
        beforeApk : Apk,
        afterApk : Apk,               \* the file to install or to delete
        op : Nat,                     \* its journal row, 0 before begin
        original : Nat,               \* rollback: the selected row
        found : Status \cup {""},     \* rollback: the status its first read saw
        listed : SUBSET Packages,     \* apply: the entries reached so far
        after : State \cup {NoState}, \* package state read after the command
        task : {"running", "done", "cleared"},
        \* History, which no step reads: the television that "after" was read
        \* from, and whether it was exchanged while the job ran.
        source : Devices,
        moved : BOOLEAN]

Command == [package : Packages, verb : Verbs \cup InverseAction, version : Apk]

ASSUME NoJobIsNoJob == NoJob \notin Job

JobsTypeOK ==
    /\ tv \in [Packages -> State]
    /\ device \in Devices
    /\ library \in [Packages -> SUBSET Versions]
    /\ jobs \in [Jobs -> Job \cup {NoJob}]
    /\ late \subseteq Command
    /\ faults \in Nat

TypeOK == JournalTypeOK /\ JobsTypeOK

-----------------------------------------------------------------------------
(* Helpers.                                                                *)

Live == {j \in Jobs : jobs[j] # NoJob}
At(j, pc) == j \in Live /\ jobs[j].pc = pc

\* An update and a profile reach "begin" in their threads, every other job in
\* its handler.
InThread(j) == jobs[j].kind \in {"update", "apply"}

Serving(j) == /\ j \in Live
              /\ jobs[j].pc \in ServingPcs
              /\ ~InThread(j)

\* Bound: a job that has no row yet will need one.
Room == Len(ops) + Cardinality({j \in Live : jobs[j].op = 0}) < MaxOps

MayServe(request) ==
    /\ request \in Requests
    /\ Cardinality({j \in Live : Serving(j)}) < Workers

Goto(j, pc) == jobs' = [jobs EXCEPT ![j].pc = pc]
End(j) == jobs' = [jobs EXCEPT ![j] = NoJob]

\* AdbClient.package_state(...).third_party
ThirdParty(p, state) == Installed(state) /\ p \notin SystemPackages

\* ApkRepository.exact_apk; the library never holds version 0.
ExactApk(p, version) == IF version \in library[p] THEN version ELSE 0

Event(fault) ==
    /\ fault \in Faults
    /\ faults < MaxFaults
    /\ faults' = faults + 1

\* A write to disk raises: SQLite locked, disk full, permission lost.
StorageError == Event("storage")
NoStorageError == UNCHANGED faults

-----------------------------------------------------------------------------
(* The television, behind AdbClient.  What a command does to a package is  *)
(* external; whether AdbClient sends it at all is its own guard.           *)

\* _apply_inverse
Undo(inverse) ==
    IF inverse \in {"install-apk", "restore-apk"} THEN "install" ELSE inverse

\* A profile entry changes the version first, then the flag; the row of a flag
\* has no file to install.
ChangesVersion(j) == jobs[j].afterApk # 0

EntryVerb(j) == IF ChangesVersion(j) THEN "install"
                ELSE IF jobs[j].before.enabled THEN "disable" ELSE "enable"

\* A rollback that reinstalls a package recorded as disabled disables it again.
Verb(j) ==
    CASE jobs[j].pc = "restore-disabled" -> "disable"
      [] jobs[j].pc # "restore-disabled" /\ jobs[j].kind = "rollback" ->
             Undo(ops[jobs[j].original].inverse)
      [] jobs[j].pc # "restore-disabled" /\ jobs[j].kind # "rollback" ->
             IF jobs[j].kind = "apply" THEN EntryVerb(j)
             ELSE IF jobs[j].kind = "update" THEN "install" ELSE jobs[j].kind

CommandOf(j) ==
    [package |-> jobs[j].package, verb |-> Verb(j), version |-> jobs[j].afterApk]

\* install -r keeps the enabled flag of a package it replaces.
Effect(c, state) ==
    CASE c.verb = "install" ->
             [version |-> c.version,
              enabled |-> Installed(state) => state.enabled]
      [] c.verb = "uninstall" -> Absent
      [] c.verb = "enable" -> [state EXCEPT !.enabled = Installed(state)]
      [] c.verb = "disable" -> [state EXCEPT !.enabled = FALSE]
      [] OTHER -> state

\* The checks of AdbClient.install, uninstall and set_enabled; for an install
\* also that the file is still there for adb to push.
Sendable(c) ==
    /\ c.package \notin NeverTouch
    /\ IF c.verb = "install"
       THEN c.package \notin SystemPackages /\ c.version \in library[c.package]
       ELSE c.verb # "" /\ ThirdParty(c.package, tv[c.package])

\* AdbClient._run: the command may take effect or not, and may be reported as
\* done or not, independently; past the timeout it may still take effect.
Run(j, c, next) ==
    \/ /\ \E effective, reported \in BOOLEAN :
             /\ effective \/ reported => Sendable(c)
             /\ tv' = IF effective THEN [tv EXCEPT ![c.package] = Effect(c, @)]
                                   ELSE tv
             /\ Goto(j, IF reported THEN next ELSE "fail")
       /\ UNCHANGED <<late, faults>>
    \/ /\ Event("late")
       /\ Sendable(c)
       /\ late' = late \cup {c}
       /\ Goto(j, "fail")
       /\ UNCHANGED tv
-----------------------------------------------------------------------------
(* Requests: the handler up to its first interruptible point.              *)

\* _mutation_context and what the caller puts beside it.
Accept(j, kind, pc, p, state, beforeApk, afterApk, original) ==
    /\ jobs[j] = NoJob
    /\ MayServe(kind)
    /\ jobs' = [jobs EXCEPT ![j] =
           [kind |-> kind, pc |-> pc, package |-> p, identity |-> device,
            before |-> state, beforeApk |-> beforeApk, afterApk |-> afterApk,
            op |-> 0, original |-> original, found |-> "", listed |-> {p},
            after |-> NoState, task |-> "running",
            source |-> device, moved |-> FALSE]]
    /\ UNCHANGED <<ops, tv, device, library, late, faults>>

AcceptMutation(j, kind, pc, p, afterApk) ==
    /\ Room
    /\ p \notin NeverTouch
    /\ Accept(j, kind, pc, p, tv[p], ExactApk(p, tv[p].version), afterApk, 0)

\* require_archive = True
Reversible(p) == Installed(tv[p]) => tv[p].version \in library[p]

StartInstall(j, p, v) ==
    /\ v \in library[p]
    /\ Reversible(p)
    /\ AcceptMutation(j, "install", "begin", p, v)

StartUninstall(j, p) ==
    /\ Reversible(p)
    /\ ThirdParty(p, tv[p])
    /\ AcceptMutation(j, "uninstall", "begin", p, 0)

\* The before-state is read here, the row is begun after the download.
StartUpdate(j, p) ==
    /\ Reversible(p)
    /\ ThirdParty(p, tv[p])
    /\ AcceptMutation(j, "update", "download", p, 0)

StartSetEnabled(j, p, kind) ==
    /\ ThirdParty(p, tv[p])
    /\ tv[p].enabled # (kind = "enable")
    /\ AcceptMutation(j, kind, "begin", p, 0)

\* journal.get, package_state and device_identity of start_rollback.
StartRollback(j, i) ==
    /\ Room
    /\ i \in Ids
    /\ Accept(j, "rollback", "prepare", ops[i].package, tv[ops[i].package],
              ops[i].afterApk, ops[i].beforeApk, i)

\* start_profile_apply: the profile is of this television and prohibits nothing
\* on p.  What it wants of each entry is chosen when the entry is reached.
StartApply(j, p) ==
    /\ Room
    /\ p \notin NeverTouch
    /\ Accept(j, "apply", "inspect", p, Absent, 0, 0, 0)

\* delete_local_apk up to the unlink: only settled rows retain a file.  (State
\* profiles, which retain theirs as well, are not part of this module.)
StartDelete(j, p, v) ==
    /\ v \in library[p]
    /\ \A i \in Ids : ~ /\ ops[i].package = p
                        /\ ops[i].status \in {"applied", "uncertain"}
                        /\ v \in {ops[i].beforeApk, ops[i].afterApk}
    /\ Accept(j, "delete", "unlink", p, Absent, 0, v, 0)

Cleared(job) == [job EXCEPT !.task = "cleared"]

\* TaskStore.clear_finished: a stage of "done" counts as finished.
ClearFinished ==
    /\ MayServe("clear")
    /\ \E j \in Live : jobs[j].task = "done"
    /\ jobs' = [j \in Jobs |-> IF j \in Live /\ jobs[j].task = "done"
                               THEN Cleared(jobs[j]) ELSE jobs[j]]
    /\ UNCHANGED <<ops, tv, device, library, late, faults>>

\* A start_download thread archives some version of p.
ArchiveDownload(p, v) ==
    /\ "download" \in Requests
    /\ library' = [library EXCEPT ![p] = @ \cup {v}]
    /\ UNCHANGED <<ops, tv, device, jobs, late, faults>>
-----------------------------------------------------------------------------
(* The rest of the handler.                                                *)

Unlink(j) ==
    /\ At(j, "unlink")
    /\ library' = [library EXCEPT ![jobs[j].package] = @ \ {jobs[j].afterApk}]
    /\ End(j)
    /\ UNCHANGED <<ops, tv, device, late, faults>>

\* journal.get in prepare_selective_rollback, on a connection of its own.
Prepare(j) ==
    /\ At(j, "prepare")
    /\ LET i == jobs[j].original
       IN  IF Available(i, jobs[j].identity)
           THEN jobs' = [jobs EXCEPT ![j].pc = "newer", ![j].found = ops[i].status]
           ELSE End(j)
    /\ UNCHANGED <<ops, tv, device, library, late, faults>>

\* The newer rows, on another connection; the row itself is not read again.
CheckNewer(j) ==
    /\ At(j, "newer")
    /\ LET i == jobs[j].original
       IN  IF /\ NoNewerActive(i)
              /\ jobs[j].found = "applied" => jobs[j].before = ops[i].after
           THEN Goto(j, IF jobs[j].found = "uncertain" /\ jobs[j].before = ops[i].before
                        THEN "reconcile" ELSE "begin")
           ELSE End(j)
    /\ UNCHANGED <<ops, tv, device, library, late, faults>>

Reconcile(j) ==
    /\ At(j, "reconcile")
    /\ \/ /\ NoStorageError
          /\ IF ops[jobs[j].original].status = "uncertain"
             THEN ReconcileNoChange(jobs[j].original) ELSE UNCHANGED ops
       \/ StorageError /\ UNCHANGED ops
    /\ End(j)
    /\ UNCHANGED <<tv, device, library, late>>

\* Defect: a first installation has no inverse.
InverseOfReplacement(j) ==
    CASE Verb(j) = "install" -> IF Installed(jobs[j].before) THEN "restore-apk" ELSE ""
      [] Verb(j) = "uninstall" -> "install-apk"
      [] Verb(j) = "enable" -> "disable"
      [] Verb(j) = "disable" -> "enable"

InverseOf(j) ==
    CASE Verb(j) = "install" ->
             IF Installed(jobs[j].before) THEN "restore-apk" ELSE "uninstall"
      [] Verb(j) = "uninstall" -> "install-apk"
      [] Verb(j) = "enable" -> "disable"
      [] Verb(j) = "disable" -> "enable"

\* An installation over an installed package is recorded as an update.
ActionOf(j) ==
    LET replacing == Installed(jobs[j].before)
    IN  CASE jobs[j].kind = "install" -> IF replacing THEN "update" ELSE "install"
          [] jobs[j].kind = "apply" /\ ChangesVersion(j) ->
                 IF replacing THEN "profile-update" ELSE "profile-install"
          [] jobs[j].kind = "apply" /\ ~ChangesVersion(j) ->
                 IF jobs[j].before.enabled THEN "profile-disable" ELSE "profile-enable"
          [] OTHER -> jobs[j].kind

RowOf(j) ==
    [package |-> jobs[j].package, action |-> ActionOf(j), status |-> "pending",
     inverse |-> IF jobs[j].kind = "rollback" THEN "" ELSE InverseOf(j),
     before |-> jobs[j].before, after |-> NoState, device |-> jobs[j].identity,
     beforeApk |-> jobs[j].beforeApk, afterApk |-> jobs[j].afterApk,
     parent |-> jobs[j].original]

\* An update first resolves the file it downloaded, then begins in its thread;
\* a profile reports its progress between the entries only.
BeginRow(j) ==
    /\ At(j, "begin")
    /\ jobs[j].kind = "update" => jobs[j].afterApk \in library[jobs[j].package]
    /\ Begin(RowOf(j))
    /\ jobs' = [jobs EXCEPT ![j].op = Len(ops) + 1,
                            ![j].pc = CASE jobs[j].kind = "update" -> "announce"
                                        [] jobs[j].kind = "apply" -> "command"
                                        [] OTHER -> "spawn"]
    /\ UNCHANGED <<tv, device, library, late, faults>>

BeginRefused(j) ==
    /\ At(j, "begin")
    /\ \/ NoStorageError /\ ~MayBegin(jobs[j].package, jobs[j].original)
       \/ /\ NoStorageError
          /\ jobs[j].kind = "update"
          /\ jobs[j].afterApk \notin library[jobs[j].package]
       \/ StorageError
    /\ End(j)
    /\ UNCHANGED <<ops, tv, device, library, late>>

\* tasks.new and _start; when either raises the row stays as begin left it.
Spawn(j) ==
    /\ At(j, "spawn")
    /\ \/ NoStorageError /\ Goto(j, "announce")
       \/ StorageError /\ End(j)
    /\ UNCHANGED <<ops, tv, device, library, late>>
-----------------------------------------------------------------------------
(* The background thread.                                                  *)

\* download() archives the file and marks the task done before it returns.
Download(j) ==
    /\ At(j, "download")
    /\ \/ \E v \in Versions :
             /\ library' = [library EXCEPT ![jobs[j].package] = @ \cup {v}]
             /\ jobs' = [jobs EXCEPT ![j].pc = "begin", ![j].afterApk = v,
                                     ![j].task = "done"]
       \/ End(j) /\ UNCHANGED library
    /\ UNCHANGED <<ops, tv, device, late, faults>>

\* The profile goes on with another entry or ends; a read or a task update that
\* raises ends it as well.
NextEntry(j) ==
    \/ End(j)
    \/ /\ Room \/ jobs[j].op = 0
       /\ \E q \in Packages \ (jobs[j].listed \cup NeverTouch) :
             jobs' = [jobs EXCEPT ![j].pc = "inspect", ![j].package = q, ![j].op = 0,
                                  ![j].listed = @ \cup {q},
                                  ![j].before = Absent, ![j].after = NoState,
                                  ![j].beforeApk = 0, ![j].afterApk = 0]

\* The row that _apply_profile_package is about to begin: for file v, or with v
\* 0 for the flag.
Enter(j, state, beforeApk, v) ==
    jobs' = [jobs EXCEPT ![j].pc = "begin", ![j].op = 0, ![j].after = NoState,
                         ![j].before = state, ![j].beforeApk = beforeApk,
                         ![j].afterApk = v]

\* _apply_profile_package reads the package: another version needs a file of
\* the current one, the version of the profile may need its flag changed.
InspectEntry(j) ==
    /\ At(j, "inspect")
    /\ LET p == jobs[j].package
           state == tv[p]
       IN  \/ /\ Reversible(p)
              /\ \E v \in Versions \ {state.version} :
                    Enter(j, state, ExactApk(p, state.version), v)
           \/ Installed(state) /\ Enter(j, state, state.version, 0)
           \/ NextEntry(j)
    /\ UNCHANGED <<ops, tv, device, library, late, faults>>

\* After a verdict: the flag of the version just installed, or the next entry.
Proceed(j) ==
    /\ At(j, "report")
    /\ jobs[j].kind = "apply"
    /\ \/ Room /\ ChangesVersion(j) /\ Enter(j, jobs[j].after, jobs[j].afterApk, 0)
       \/ NextEntry(j)
    /\ UNCHANGED <<ops, tv, device, library, late, faults>>

\* tasks.update reads the task file first and raises when it is gone.
Announce(j) ==
    /\ At(j, "announce")
    /\ \/ /\ NoStorageError
          /\ jobs' = [jobs EXCEPT
                 ![j].pc = IF jobs[j].task = "cleared" THEN "fail" ELSE "command",
                 ![j].task = IF @ = "cleared" THEN @ ELSE "running"]
       \/ StorageError /\ Goto(j, "fail")
    /\ UNCHANGED <<ops, tv, device, library, late>>

SendCommand(j) ==
    /\ At(j, "command")
    /\ Run(j, CommandOf(j),
           IF /\ jobs[j].kind = "rollback"
              /\ Verb(j) = "install"
              /\ ~ops[jobs[j].original].before.enabled
           THEN "restore-disabled" ELSE "verify")
    /\ UNCHANGED <<ops, device, library>>

RestoreDisabled(j) ==
    /\ At(j, "restore-disabled")
    /\ Run(j, CommandOf(j), "verify")
    /\ UNCHANGED <<ops, device, library>>

Verified(j, state) ==
    CASE jobs[j].kind \in {"install", "update"} -> ThirdParty(jobs[j].package, state)
      [] jobs[j].kind = "uninstall" -> ~Installed(state)
      [] jobs[j].kind \in {"enable", "disable"} ->
             state.enabled = (jobs[j].kind = "enable")
      [] jobs[j].kind = "rollback" -> state = ops[jobs[j].original].before
      [] jobs[j].kind = "apply" ->
             IF ChangesVersion(j) THEN state.version = jobs[j].afterApk
             ELSE state.enabled = ~jobs[j].before.enabled

\* The read may also fail in ADB.  The television is not identified again: the
\* state is that of whichever one answers now.
Verify(j) ==
    /\ At(j, "verify")
    /\ LET state == tv[jobs[j].package]
       IN  \/ /\ Verified(j, state)
              /\ jobs' = [jobs EXCEPT ![j].pc = "complete", ![j].after = state,
                                      ![j].source = device]
           \/ Goto(j, "fail")
    /\ UNCHANGED <<ops, tv, device, library, late, faults>>

CompleteRow(j) ==
    /\ At(j, "complete")
    /\ \/ /\ NoStorageError
          /\ IF IsPending(jobs[j].op)
             THEN /\ Complete(jobs[j].op, jobs[j].after)
                  /\ Goto(j, IF jobs[j].kind = "rollback" THEN "finish" ELSE "report")
             ELSE Goto(j, "fail") /\ UNCHANGED ops
       \/ StorageError /\ Goto(j, "fail") /\ UNCHANGED ops
    /\ UNCHANGED <<tv, device, library, late>>

FinishRow(j) ==
    /\ At(j, "finish")
    /\ \/ /\ NoStorageError
          /\ IF CanFinish(jobs[j].original, jobs[j].op)
             THEN FinishRollback(jobs[j].original, jobs[j].op) /\ Goto(j, "report")
             ELSE Goto(j, "fail") /\ UNCHANGED ops
       \/ StorageError /\ Goto(j, "fail") /\ UNCHANGED ops
    /\ UNCHANGED <<tv, device, library, late>>

\* The last tasks.update; when it raises, the except branch still runs.
Report(j) ==
    /\ At(j, "report")
    /\ jobs[j].kind # "apply"
    /\ \/ NoStorageError /\ End(j)
       \/ StorageError /\ Goto(j, "fail")
    /\ UNCHANGED <<ops, tv, device, library, late>>

\* The except branch.  journal.fail is its first statement and may itself raise.
FailRow(j) ==
    /\ At(j, "fail")
    /\ End(j)
    /\ \/ NoStorageError /\ Fail(jobs[j].op)
       \/ StorageError /\ UNCHANGED ops
    /\ UNCHANGED <<tv, device, library, late>>
-----------------------------------------------------------------------------
(* The environment.                                                        *)

\* Process death takes every handler and daemon thread; nothing is recovered
\* at the next start.  A command being sent may still reach the television.
Crash ==
    /\ Event("crash")
    /\ Live # {}
    /\ jobs' = [j \in Jobs |-> NoJob]
    /\ \E sent \in SUBSET {j \in Live : jobs[j].pc \in SendingPcs} :
          /\ \A j \in sent : Sendable(CommandOf(j))
          /\ late' = late \cup {CommandOf(j) : j \in sent}
    /\ UNCHANGED <<ops, tv, device, library>>

LateEffect(c) ==
    /\ c \in late
    /\ late' = late \ {c}
    /\ tv' = [tv EXCEPT ![c.package] = Effect(c, @)]
    /\ UNCHANGED <<ops, device, library, jobs, faults>>

\* apk_cli.py, a process of its own: tv-apk install, uninstall and the second
\* half of tv-apk update use AdbClient and the library, never the ledger.
CliCommand(c) ==
    /\ Event("cli")
    /\ c.verb \in {"install", "uninstall"}
    /\ Sendable(c)
    /\ tv' = [tv EXCEPT ![c.package] = Effect(c, @)]
    /\ UNCHANGED <<ops, device, library, jobs, late>>

\* tv-apk delete asks neither the ledger nor the profiles.
CliDelete(p, v) ==
    /\ Event("cli")
    /\ v \in library[p]
    /\ library' = [library EXCEPT ![p] = @ \ {v}]
    /\ UNCHANGED <<ops, tv, device, jobs, late>>

\* The owner or the vendor's store changes the package.
ExternalChange(p) ==
    /\ Event("external")
    /\ \E s \in State : /\ Installed(s) \/ s = Absent
                        /\ tv' = [tv EXCEPT ![p] = s]
    /\ UNCHANGED <<ops, device, library, jobs, late>>

Moved(job) == [job EXCEPT !.moved = TRUE]

\* A firmware update, or another television at the same address.
DeviceChange ==
    /\ Event("device")
    /\ device' \in Devices \ {device}
    /\ jobs' = [j \in Jobs |-> IF j \in Live THEN Moved(jobs[j]) ELSE NoJob]
    /\ UNCHANGED <<ops, tv, library, late>>

\* With no job the service only waits for a request: any other halt is a
\* deadlock.
AwaitRequest == Live = {} /\ UNCHANGED vars
-----------------------------------------------------------------------------
Init ==
    /\ JournalInit
    /\ tv \in [Packages -> {s \in State : Installed(s) \/ s = Absent}]
    /\ device \in Devices
    /\ library \in [Packages -> SUBSET Versions]
    /\ jobs = [j \in Jobs |-> NoJob]
    /\ late = {}
    /\ faults = 0

Request(j) ==
    \/ \E p \in Packages :
          \/ \E v \in Versions : StartInstall(j, p, v) \/ StartDelete(j, p, v)
          \/ StartUninstall(j, p)
          \/ StartUpdate(j, p)
          \/ StartApply(j, p)
          \/ \E kind \in {"enable", "disable"} : StartSetEnabled(j, p, kind)
    \/ \E i \in Ids : StartRollback(j, i)

HandlerStep(j) ==
    \/ Unlink(j) \/ Prepare(j) \/ CheckNewer(j) \/ Reconcile(j)
    \/ BeginRow(j) \/ BeginRefused(j) \/ Spawn(j)

ThreadStep(j) ==
    \/ Download(j) \/ InspectEntry(j) \/ Proceed(j) \/ Announce(j)
    \/ SendCommand(j) \/ RestoreDisabled(j) \/ Verify(j)
    \/ CompleteRow(j) \/ FinishRow(j) \/ Report(j) \/ FailRow(j)

Environment ==
    \/ Crash
    \/ \E c \in late : LateEffect(c)
    \/ \E c \in [package : Packages, verb : Verbs, version : Apk] : CliCommand(c)
    \/ \E p \in Packages, v \in Versions : CliDelete(p, v)
    \/ \E p \in Packages : ExternalChange(p)
    \/ DeviceChange

Next ==
    \/ \E j \in Jobs : Request(j) \/ HandlerStep(j) \/ ThreadStep(j)
    \/ ClearFinished
    \/ \E p \in Packages, v \in Versions : ArchiveDownload(p, v)
    \/ Environment
    \/ AwaitRequest

Spec == Init /\ [][Next]_vars

\* A handler and a thread run until they end: ADB and HTTP calls have timeouts.
FairSpec == Spec /\ \A j \in Jobs : WF_vars(HandlerStep(j) \/ ThreadStep(j))
-----------------------------------------------------------------------------
(* Safety.                                                                 *)

\* begin's guard makes the ledger a lock: between journal.begin and the verdict
\* on a row, no second job is anywhere between the two on the same package, for
\* any number of request handlers and threads.
OneMutatorPerPackage ==
    \A j, k \in Live :
        /\ jobs[j].package = jobs[k].package
        /\ jobs[j].pc \in OpenPcs
        /\ jobs[k].pc \in OpenPcs
        => j = k

\* Of two unresolved rows on one package the newer is a rollback of the older,
\* and only the newer may still be pending: no third row can join them.
UnresolvedChain ==
    \A i, k \in Ids :
        /\ ops[i].package = ops[k].package
        /\ IsUnresolved(i) /\ IsUnresolved(k)
        /\ i < k
        => ops[k].parent = i /\ ops[i].status = "uncertain"

\* While only the Controller changes the television, the newest row of a package
\* tells its live state whenever that row is settled, also after a crash.
LedgerMatchesTv ==
    \A i \in Ids :
        /\ ops[i].status \in {"applied", "rollback-recorded"}
        /\ \A k \in Ids : ops[k].package = ops[i].package => k <= i
        => tv[ops[i].package] = ops[i].after

\* Without crashes and storage errors, once no job works on a package its newest
\* active row is resolvable: it can be rolled back from the state it recorded.  A
\* rollback cannot be rolled back, and only two kinds stay active: one that failed,
\* and one whose row another rollback settled first.
Recoverable ==
    \A i \in Ids :
        LET p == ops[i].package IN
        /\ IsActive(i)
        /\ \A k \in Ids : ops[k].package = p /\ IsActive(k) => k <= i
        /\ \A j \in Live : jobs[j].package # p
        /\ ops[i].device = device
        /\ ops[i].status = "applied" => tv[p] = ops[i].after
        => \/ Rollbackable(i, tv[p], device)
           \/ /\ ops[i].action = "rollback"
              /\ ops[i].status = "applied" =>
                    ops[ops[i].parent].status \in {"reverted", "reconciled"}
-----------------------------------------------------------------------------
(* What a step may never do.                                               *)

StatusStep == [pending |-> {"applied", "uncertain"},
               applied |-> {"reverted", "rollback-recorded"},
               uncertain |-> {"reconciled", "reverted"}]

\* The ledger is evidence: no step drops a row or rewrites what begin recorded,
\* a verdict is never taken back, and the recorded result never changes later,
\* whatever the late except branches of the threads call.
LedgerIsEvidence ==
    [][\A i \in Ids :
          /\ i \in Ids'
          /\ \A f \in DOMAIN ops[i] \ {"status", "after"} :
                ops'[i][f] = ops[i][f]
          /\ ops[i].after # NoState => ops'[i].after = ops[i].after
          /\ \/ ops'[i].status = ops[i].status
             \/ /\ ops[i].status \in DOMAIN StatusStep
                /\ ops'[i].status \in StatusStep[ops[i].status]]_vars

\* While nobody else changes the television, a package changes only under a
\* pending row of the ledger ("every mutation is journaled before execution").
JournaledBeforeExecution ==
    [][\A p \in Packages :
          tv'[p] # tv[p] => \E i \in Unresolved(p) : IsPending(i)]_vars

\* The rows newer than the one that row r of the next state rolls back.
NewerActive(r) ==
    {k \in Ids : k > ops'[r].parent /\ ops[k].package = ops'[r].package /\ IsActive(k)}

\* With one request handler only rows that background threads begin, those of
\* updates and profiles, can come between prepare and begin of a rollback.
ThreadActions == {"update", "profile-install", "profile-update",
                  "profile-enable", "profile-disable"}

OnlyThreadsOvertake ==
    [][\A r \in Ids' \ Ids :
          ops'[r].parent # 0 => \A k \in NewerActive(r) : ops[k].action \in ThreadActions]_vars

\* A row becomes reverted only with a rollback of its own that is recorded in the
\* same step, the first one, and that read the row's before-state back.  It was read
\* from the row's own television, unless the television was exchanged while that
\* rollback ran: its thread identifies no television again.
RevertedWasRestored ==
    [][\A i \in Ids :
          ops[i].status # "reverted" /\ ops'[i].status = "reverted" =>
             /\ \A r \in Ids : ops[r].parent = i => ops[r].status # "rollback-recorded"
             /\ \E j \in Live :
                   /\ jobs[j].op \in Ids
                   /\ ops[jobs[j].op].parent = i
                   /\ ops'[jobs[j].op].status = "rollback-recorded"
                   /\ ops'[jobs[j].op].after = ops[i].before
                   /\ jobs[j].after = ops[i].before
                   /\ jobs[j].source = ops[i].device \/ jobs[j].moved]_vars

----------------------------------------------------------------------------
(* Progress.                                                               *)

\* Without crashes and storage errors every pending row gets its verdict.
PendingIsDecided ==
    \A i \in 1..MaxOps :
        (i \in Ids /\ IsPending(i)) ~> (i \in Ids /\ ~IsPending(i))
-----------------------------------------------------------------------------
(* What the documents and comments of the repository say, each refuted by  *)
(* the code in a run of its own.                                           *)

\* state_history.py:106: begin serializes "so rapid requests cannot share a
\* stale before-state".  Two neighbouring applied rows of a package that start
\* from one before-state, although the older row left it, share a stale one.
NoSharedBeforeState ==
    \A i, k \in Ids :
        /\ i < k
        /\ ops[i].package = ops[k].package
        /\ ops[i].status = "applied" /\ ops[k].status = "applied"
        /\ \A m \in (i + 1)..(k - 1) : ops[m].package # ops[i].package
        /\ ops[i].after # ops[i].before
        => ops[k].before # ops[i].before

\* README.md:325: recovery of an uncertain row "reconciles the record without
\* sending another mutation" if the television matches the before-state.
UncertainMatchReconciles ==
    \A i \in Ids :
        LET p == ops[i].package IN
        /\ ops[i].status = "uncertain"
        /\ tv[p] = ops[i].before
        /\ ops[i].device = device
        /\ \A k \in Ids : ops[k].package = p /\ IsActive(k) => k <= i
        => Rollbackable(i, tv[p], device)
=============================================================================
