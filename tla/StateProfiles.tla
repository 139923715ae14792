---------------------------- MODULE StateProfiles ----------------------------
(***************************************************************************)
(* State profiles: StateProfileStore of tv_controller/state_history.py,    *)
(* and capture, preview, apply and the retention of archived files of      *)
(* tv_controller/apk_manager.py, over the ledger of StateJournal.          *)
(*                                                                         *)
(* A thread captures or applies one profile.  Nothing keeps two threads, a *)
(* deletion or a download apart, except that begin refuses a package whose *)
(* newest row is unresolved.                                               *)
(*                                                                         *)
(* A package's files are named by Versions and state a version each: the   *)
(* name is the server's, the statement is its metadata's, and what install *)
(* makes of the bytes may be another version still.  Files of different    *)
(* packages have different names.                                          *)
(***************************************************************************)
EXTENDS StateJournal

CONSTANTS
    Rank,         \* where the sorted list of packages has each of them
    Threads,      \* slots for captures and applications
    NoThread,     \* value of a free slot
    NoDeletion,   \* no deletion is in progress
    NoFile,       \* no file has this name
    Served,       \* names and versions the download server answers with, 0 if unknown
    Starts,       \* what the service finds when it starts
    MaxOps,       \* bound: journal rows
    MaxProfiles,  \* bound: saved profiles
    MaxFaults     \* bound: events

ASSUME NamesAreSorted ==
    /\ Rank \in [Packages -> Nat]
    /\ \A p, q \in Packages : Rank[p] = Rank[q] => p = q
ASSUME BoundsAreNaturals ==
    MaxOps \in Nat /\ MaxProfiles \in Nat /\ MaxFaults \in Nat

VARIABLES
    tv,         \* live state of each package
    device,     \* identity of the television
    library,    \* what the files of each package state
    bare,       \* files without metadata: placed by hand, their name states the version
    profiles,   \* the saved profiles
    threads,    \* captures and applications in progress
    deleting,   \* the deletion in progress
    late,       \* commands ADB gave up on that the television may still run
    raced,      \* named files that a deletion which began before they were named, or a
                \* download under their name, has taken, or that were amiss at the start
    faults

vars == <<ops, tv, device, library, bare, profiles, threads, deleting, late, raced, faults>>

-----------------------------------------------------------------------------
(* Types.                                                                  *)

Files == Packages \X Versions
Library == [Packages -> [Versions -> Apk \cup {NoFile}]]

ASSUME FilesAreStated == NoFile \notin Apk /\ Served \subseteq Versions \X Apk

\* ProfilePackage; apk 0 is the empty file name.
Entry == [package : Packages, state : State, apk : Apk]
Profile == [device : Devices, packages : Seq(Entry)]

CaptureSteps == {"list", "read", "fetch", "save"}
ApplySteps == {"inspect", "begin", "command", "verify", "complete", "fail", "result"}

Thread == [pc : CaptureSteps \cup ApplySteps,
           profile : Profile,                \* being captured, or applied
           todo : SUBSET Packages,           \* capture: packages still to read
           index : Nat,                      \* apply: the entry at hand
           change : {"version", "enabled"},  \* apply: what its row changes
           current : State,                  \* apply: the state last read
           beforeApk : Apk,                  \* apply: the file to come back with
           after : State,
           batch : Seq(Nat),                 \* apply: its rows so far
           alone : BOOLEAN]                  \* nobody else changed the television

\* A profile has each package once.
ListedOnce(profile) ==
    \A i, k \in DOMAIN profile.packages :
        profile.packages[i].package = profile.packages[k].package => i = k

ASSUME StartsAreStates ==
    \A start \in Starts :
        /\ start.tv \in [Packages -> State]
        /\ start.library \in Library
        /\ start.bare \subseteq Files
        /\ start.profiles \in Seq(Profile)
        /\ \A id \in DOMAIN start.profiles : ListedOnce(start.profiles[id])

Deletion == [package : Packages, file : Versions, pc : {"profiles", "unlink"},
             named : BOOLEAN]  \* a settled row or a profile named the file at its start

Sent == [package : Packages, change : {"version", "enabled"}, enabled : BOOLEAN]

TypeOK ==
    /\ JournalTypeOK
    /\ tv \in [Packages -> State]
    /\ device \in Devices
    /\ library \in Library
    /\ bare \subseteq Files
    /\ profiles \in Seq(Profile)
    /\ threads \in [Threads -> Thread \cup {NoThread}]
    /\ deleting \in Deletion \cup {NoDeletion}
    /\ late \subseteq Sent
    /\ raced \subseteq Files
    /\ faults \in Nat

-----------------------------------------------------------------------------
(* Helpers.                                                                *)

Live == {t \in Threads : threads[t] # NoThread}
At(t, pc) == t \in Live /\ threads[t].pc = pc
Goto(t, pc) == threads' = [threads EXCEPT ![t].pc = pc]
End(t) == threads' = [threads EXCEPT ![t] = NoThread]

\* exact_apk: the youngest file that states this version; any of them may be.
ExactApks(files, version) ==
    LET exact == {f \in Versions : files[f] = version}
    IN  IF exact = {} THEN {0} ELSE exact

Desired(t) == threads[t].profile.packages[threads[t].index]
OpOf(t) == threads[t].batch[Len(threads[t].batch)]

\* Somebody else's change of the television, as the threads see it.
Disturb(s) == IF threads[s] = NoThread THEN NoThread
              ELSE [threads[s] EXCEPT !.alone = FALSE]

Event == faults < MaxFaults /\ faults' = faults + 1
-----------------------------------------------------------------------------
(* Who needs a file.                                                       *)

HeldByRow(p, f) ==
    \E i \in Ids : /\ ops[i].package = p
                   /\ ops[i].status \in {"applied", "uncertain"}
                   /\ f \in {ops[i].beforeApk, ops[i].afterApk}

Mentions(entries, p, f) ==
    \E i \in 1..Len(entries) : entries[i].package = p /\ entries[i].apk = f

HeldByProfile(p, f) ==
    \E id \in 1..Len(profiles) : Mentions(profiles[id].packages, p, f)

\* The row names the profile's device: the television is not identified again.
RowOf(t) ==
    LET e == Desired(t)
        current == threads[t].current
        row(action, inverse, before, after) ==
            [package |-> e.package, action |-> action, status |-> "pending",
             inverse |-> inverse, before |-> current, after |-> NoState,
             device |-> threads[t].profile.device,
             beforeApk |-> before, afterApk |-> after, parent |-> 0]
    IN  IF threads[t].change = "version"
        THEN IF Installed(current)
             THEN row("profile-update", "restore-apk", threads[t].beforeApk, e.apk)
             ELSE row("profile-install", "uninstall", 0, e.apk)
        ELSE IF e.state.enabled
             THEN row("profile-enable", "disable", e.apk, 0)
             ELSE row("profile-disable", "enable", e.apk, 0)

\* Neither of the two checks of a deletion sees what is still in flight.
InFlight(p, f) ==
    \/ \E i \in Ids : /\ ops[i].package = p /\ IsPending(i)
                      /\ f \in {ops[i].beforeApk, ops[i].afterApk}
    \/ \E t \in Live : /\ threads[t].pc \in CaptureSteps
                       /\ Mentions(threads[t].profile.packages, p, f)
    \/ \E t \in Live : /\ threads[t].pc = "begin" /\ Desired(t).package = p
                       /\ f \in {RowOf(t).beforeApk, RowOf(t).afterApk}

InUse(p, f) == InFlight(p, f) \/ HeldByRow(p, f) \/ HeldByProfile(p, f)

-----------------------------------------------------------------------------
(* A download, in one step here: its own steps are those of ApkDownloader. *)

\* part.replace overwrites what has the name, and the metadata follow.
Archived(p, f, version) ==
    /\ library' = [library EXCEPT ![p][f] = version]
    /\ bare' = bare \ {<<p, f>>}

\* The except branch unlinks a file of the name that has no metadata.
Discarded(p, f) ==
    /\ library' = [library EXCEPT ![p][f] = IF <<p, f>> \in bare THEN NoFile ELSE @]
    /\ bare' = bare \ {<<p, f>>}

\* Neither asks who needs the file.
RacedBy(p, f) ==
    raced' = IF library'[p][f] # library[p][f] /\ InUse(p, f)
             THEN raced \cup {<<p, f>>} ELSE raced
-----------------------------------------------------------------------------
(* Capture.                                                                *)

NewThread(pc, profile) ==
    [pc |-> pc, profile |-> profile, todo |-> {}, index |-> 1,
     change |-> "version", current |-> Absent, beforeApk |-> 0, after |-> Absent,
     batch |-> << >>, alone |-> TRUE]

\* Bound: a capture will need a place for its profile.
Room == Len(profiles) + Cardinality({t \in Live : threads[t].pc \in CaptureSteps})
            < MaxProfiles

\* The handler of start_profile_capture identifies the television.
StartCapture(t) ==
    /\ t \notin Live /\ Room
    /\ threads' = [threads EXCEPT
           ![t] = NewThread("list", [device |-> device, packages |-> << >>])]
    /\ UNCHANGED <<ops, tv, device, library, bare, profiles, deleting, late, raced, faults>>

ListPackages(t) ==
    /\ At(t, "list")
    /\ LET listed == {p \in Packages : Installed(tv[p])}
       IN  threads' = [threads EXCEPT ![t].todo = listed,
                           ![t].pc = IF listed = {} THEN "save" ELSE "read"]
    /\ UNCHANGED <<ops, tv, device, library, bare, profiles, deleting, late, raced, faults>>

\* The packages are read in the order of their names.
AtHand(t, p) ==
    p \in threads[t].todo /\ \A q \in threads[t].todo : Rank[p] <= Rank[q]

\* The entry of the package at hand is appended to the rows.
Captured(t, p, state, apk) ==
    [threads EXCEPT
        ![t].profile.packages = Append(@, [package |-> p, state |-> state, apk |-> apk]),
        ![t].todo = @ \ {p},
        ![t].pc = IF threads[t].todo = {p} THEN "save" ELSE "read"]

\* The file is chosen here; only save makes the profile retain it.
ReadPackage(t) ==
    /\ At(t, "read")
    /\ \E p \in Packages : \E apk \in ExactApks(library[p], tv[p].version) :
           /\ AtHand(t, p)
           /\ threads' = IF apk # 0 THEN Captured(t, p, tv[p], apk)
                         ELSE [threads EXCEPT ![t].current = tv[p], ![t].pc = "fetch"]
    /\ UNCHANGED <<ops, tv, device, library, bare, profiles, deleting, late, raced, faults>>

\* Whatever raises leaves only the profile without this file; after the file is
\* archived that is the write of the task's result.
Fetch(t) ==
    /\ At(t, "fetch")
    /\ \E p \in Packages, served \in Served :
           LET f == served[1]
               state == threads[t].current
           IN  /\ AtHand(t, p)
               /\ \/ /\ Archived(p, f, served[2])
                     /\ \E apk \in {0} \cup ExactApks(library'[p], state.version) :
                            threads' = Captured(t, p, state, apk)
                  \/ Discarded(p, f) /\ threads' = Captured(t, p, state, 0)
               /\ RacedBy(p, f)
    /\ UNCHANGED <<ops, tv, device, profiles, deleting, late, faults>>

\* The identifier is a second that no profile has: two captures that save within one
\* second, which could choose the same, are left out.
Save(t) ==
    /\ At(t, "save")
    /\ profiles' = Append(profiles, threads[t].profile)
    /\ End(t)
    /\ UNCHANGED <<ops, tv, device, library, bare, deleting, late, raced, faults>>

\* A read over ADB, a task update or the write of the profile raises.
CaptureFails(t) ==
    /\ t \in Live /\ threads[t].pc \in CaptureSteps
    /\ End(t)
    /\ UNCHANGED <<ops, tv, device, library, bare, profiles, deleting, late, raced, faults>>
-----------------------------------------------------------------------------
(* Apply.                                                                  *)

\* profile_preview: what keeps a profile from being applied.
Blocked(profile) ==
    \E i \in 1..Len(profile.packages) :
        LET e == profile.packages[i]
            now == tv[e.package]
        IN  \/ e.apk = 0
            \/ /\ Installed(now) /\ now.version # e.state.version
               /\ ExactApks(library[e.package], now.version) = {0}

\* The gate of start_profile_apply: device and blockers, once.
StartApply(t, id) ==
    /\ t \notin Live
    /\ device = profiles[id].device
    /\ ~Blocked(profiles[id])
    /\ threads' = [threads EXCEPT ![t] = NewThread(
           IF profiles[id].packages = << >> THEN "result" ELSE "inspect", profiles[id])]
    /\ UNCHANGED <<ops, tv, device, library, bare, profiles, deleting, late, raced, faults>>

\* The thread after the entry at hand.
NextEntry(t) ==
    [threads[t] EXCEPT !.index = @ + 1, !.change = "version",
        !.pc = IF threads[t].index < Len(threads[t].profile.packages)
               THEN "inspect" ELSE "result"]

\* Defect: an application that meets its version leaves the enabled flag alone.
CompareVersionOnly(t, current) == NextEntry(t)

\* Once the version is right the enabled flag is compared with the same reading.
CompareEnabled(t, current) ==
    IF current.enabled = Desired(t).state.enabled THEN NextEntry(t)
    ELSE [threads[t] EXCEPT !.pc = "begin", !.change = "enabled", !.current = current]

\* Nothing has been found yet that the thread would have to change.
HasVersion(t, current) == Installed(current) /\ current.version = Desired(t).state.version

\* The file to come back with: none for an installation.
BeforeApks(t, current) ==
    IF Installed(current) THEN ExactApks(library[Desired(t).package], current.version)
                          ELSE {0}

\* Defect: that the version to be replaced can be restored is left to the preview.
InspectOnce(t) ==
    /\ At(t, "inspect")
    /\ LET current == tv[Desired(t).package] IN
       \E apk \in BeforeApks(t, current) :
           threads' = [threads EXCEPT
               ![t] = IF HasVersion(t, current) THEN CompareEnabled(t, current)
                      ELSE [@ EXCEPT !.pc = "begin", !.current = current, !.beforeApk = apk]]
    /\ UNCHANGED <<ops, tv, device, library, bare, profiles, deleting, late, raced, faults>>

Inspect(t) ==
    /\ At(t, "inspect")
    /\ LET current == tv[Desired(t).package] IN
       IF HasVersion(t, current)
       THEN threads' = [threads EXCEPT ![t] = CompareEnabled(t, current)]
       ELSE \E apk \in BeforeApks(t, current) :
               IF Installed(current) /\ apk = 0
               THEN End(t)
               ELSE threads' = [threads EXCEPT
                        ![t].pc = "begin", ![t].current = current, ![t].beforeApk = apk]
    /\ UNCHANGED <<ops, tv, device, library, bare, profiles, deleting, late, raced, faults>>

BeginRow(t) ==
    /\ At(t, "begin") /\ Len(ops) < MaxOps
    /\ Begin(RowOf(t))
    /\ threads' = [threads EXCEPT ![t].pc = "command",
                                  ![t].batch = Append(@, Len(ops) + 1)]
    /\ UNCHANGED <<tv, device, library, bare, profiles, deleting, late, raced, faults>>

\* begin, or a read before it, raises: the application stops without a new row.
ApplyStops(t) ==
    /\ t \in Live /\ threads[t].pc \in {"inspect", "begin"}
    /\ End(t)
    /\ UNCHANGED <<ops, tv, device, library, bare, profiles, deleting, late, raced, faults>>

CommandOf(t) == [package |-> Desired(t).package, change |-> threads[t].change,
                 enabled |-> Desired(t).state.enabled]

\* The checks before the command: the file is there, the package is there.
Sendable(t) ==
    LET e == Desired(t) IN
    IF threads[t].change = "version" THEN library[e.package][e.apk] # NoFile
                                     ELSE Installed(tv[e.package])

\* What a command makes of its package: install -r keeps the flag it finds, and the
\* version is that of the bytes, which nothing has compared with what they state.
Effects(c) ==
    LET now == tv[c.package]
    IN  IF c.change = "version"
        THEN {[version |-> v, enabled |-> Installed(now) => now.enabled] : v \in Versions}
        ELSE {IF Installed(now) THEN [now EXCEPT !.enabled = c.enabled] ELSE now}

\* resolve and install, or set_enabled: a command that is sent may take effect or
\* not and be reported as done or not; past its timeout it may still take effect.
Command(t) ==
    LET p == Desired(t).package
        c == CommandOf(t)
    IN
    /\ At(t, "command")
    /\ \/ /\ \E state \in {tv[p]} \cup (IF Sendable(t) THEN Effects(c) ELSE {}),
                reported \in BOOLEAN :
                /\ reported => Sendable(t)
                /\ tv' = [tv EXCEPT ![p] = state]
                /\ threads' = [s \in Threads |->
                       IF s = t
                       THEN [threads[t] EXCEPT !.pc = IF reported THEN "verify" ELSE "fail"]
                       ELSE IF state = tv[p] THEN threads[s] ELSE Disturb(s)]
          /\ UNCHANGED <<late, faults>>
       \/ /\ Event
          /\ Sendable(t)
          /\ late' = late \cup {c}
          /\ Goto(t, "fail")
          /\ UNCHANGED tv
    /\ UNCHANGED <<ops, device, library, bare, profiles, deleting, raced>>

Verify(t) ==
    /\ At(t, "verify")
    /\ LET after == tv[Desired(t).package]
           met == IF threads[t].change = "version"
                  THEN after.version = Desired(t).state.version
                  ELSE after.enabled = Desired(t).state.enabled
       IN  threads' = [threads EXCEPT ![t].after = after,
                           ![t].pc = IF met THEN "complete" ELSE "fail"]
    /\ UNCHANGED <<ops, tv, device, library, bare, profiles, deleting, late, raced, faults>>

\* The reading after the command, or the transaction, raises.
VerdictFails(t) ==
    /\ t \in Live /\ threads[t].pc \in {"verify", "complete"}
    /\ Goto(t, "fail")
    /\ UNCHANGED <<ops, tv, device, library, bare, profiles, deleting, late, raced, faults>>

CompleteRow(t) ==
    /\ At(t, "complete")
    /\ Complete(OpOf(t), threads[t].after)
    /\ threads' = [threads EXCEPT
           ![t] = IF threads[t].change = "version"
                  THEN CompareEnabled(t, threads[t].after) ELSE NextEntry(t)]
    /\ UNCHANGED <<tv, device, library, bare, profiles, deleting, late, raced, faults>>

\* Defect: a package that fails is skipped.
FailRowAndContinue(t) ==
    /\ At(t, "fail")
    /\ Fail(OpOf(t))
    /\ threads' = [threads EXCEPT ![t] = NextEntry(t)]
    /\ UNCHANGED <<tv, device, library, bare, profiles, deleting, late, raced, faults>>

\* journal.fail is the first statement of the except branch and may itself raise.
FailRow(t) ==
    /\ At(t, "fail")
    /\ \/ Fail(OpOf(t)) /\ UNCHANGED faults
       \/ Event /\ UNCHANGED ops
    /\ End(t)
    /\ UNCHANGED <<tv, device, library, bare, profiles, deleting, late, raced>>

\* The task says "State profile applied".
Result(t) ==
    /\ At(t, "result")
    /\ End(t)
    /\ UNCHANGED <<ops, tv, device, library, bare, profiles, deleting, late, raced, faults>>
-----------------------------------------------------------------------------
(* Deletion of an archived file: delete_local_apk.                         *)

\* First the ledger is asked, then the profiles, then the file is removed.
StartDelete(p, f) ==
    /\ deleting = NoDeletion /\ library[p][f] # NoFile
    /\ ~HeldByRow(p, f)
    /\ deleting' = [package |-> p, file |-> f, pc |-> "profiles",
                    named |-> HeldByRow(p, f) \/ HeldByProfile(p, f)]
    /\ UNCHANGED <<ops, tv, device, library, bare, profiles, threads, late, raced, faults>>

\* Defect: profiles retain nothing.
CheckNoProfiles ==
    /\ deleting # NoDeletion /\ deleting.pc = "profiles"
    /\ deleting' = [deleting EXCEPT !.pc = "unlink"]
    /\ UNCHANGED <<ops, tv, device, library, bare, profiles, threads, late, raced, faults>>

CheckProfiles ==
    /\ deleting # NoDeletion /\ deleting.pc = "profiles"
    /\ deleting' = IF HeldByProfile(deleting.package, deleting.file)
                   THEN NoDeletion ELSE [deleting EXCEPT !.pc = "unlink"]
    /\ UNCHANGED <<ops, tv, device, library, bare, profiles, threads, late, raced, faults>>

Unlink ==
    /\ deleting # NoDeletion /\ deleting.pc = "unlink"
    /\ LET p == deleting.package
           f == deleting.file
       IN  /\ library' = [library EXCEPT ![p][f] = NoFile]
           /\ bare' = bare \ {<<p, f>>}
           /\ raced' = IF ~deleting.named /\ InUse(p, f) THEN raced \cup {<<p, f>>}
                                                        ELSE raced
    /\ deleting' = NoDeletion
    /\ UNCHANGED <<ops, tv, device, profiles, threads, late, faults>>
-----------------------------------------------------------------------------
(* The environment.                                                        *)

\* Threads and handlers die: pending rows stay, captures are forgotten, and a command
\* being sent may still reach the television.
Crash ==
    /\ Event
    /\ threads' = [t \in Threads |-> NoThread]
    /\ deleting' = NoDeletion
    /\ \E sent \in SUBSET {t \in Live : threads[t].pc = "command" /\ Sendable(t)} :
           late' = late \cup {CommandOf(t) : t \in sent}
    /\ UNCHANGED <<ops, tv, device, library, bare, profiles, raced>>

LateEffect(c) ==
    /\ c \in late
    /\ late' = late \ {c}
    /\ \E state \in Effects(c) : tv' = [tv EXCEPT ![c.package] = state]
    /\ threads' = [t \in Threads |-> Disturb(t)]
    /\ UNCHANGED <<ops, device, library, bare, profiles, deleting, raced, faults>>

\* The owner, the store or another request changes a package.
ExternalChange(p) ==
    /\ Event
    /\ \E s \in State : /\ s # tv[p] /\ (Installed(s) \/ s = Absent)
                        /\ tv' = [tv EXCEPT ![p] = s]
    /\ threads' = [t \in Threads |-> Disturb(t)]
    /\ UNCHANGED <<ops, device, library, bare, profiles, deleting, late, raced>>

\* A firmware update, or another television at the same address.
DeviceChange ==
    /\ Event
    /\ \E d \in Devices \ {device} : device' = d
    /\ threads' = [t \in Threads |-> Disturb(t)]
    /\ UNCHANGED <<ops, tv, library, bare, profiles, deleting, late, raced>>

\* A download that an install, an update or the downloads page asked for.
OtherDownload(p) ==
    /\ Event
    /\ \E served \in Served :
           /\ Archived(p, served[1], served[2]) \/ Discarded(p, served[1])
           /\ RacedBy(p, served[1])
    /\ UNCHANGED <<ops, tv, device, profiles, threads, deleting, late>>

AwaitRequest == Live = {} /\ UNCHANGED vars
-----------------------------------------------------------------------------
Init ==
    /\ JournalInit
    /\ \E start \in Starts : /\ tv = start.tv
                             /\ library = start.library
                             /\ bare = start.bare
                             /\ profiles = start.profiles
    /\ device \in Devices
    /\ threads = [t \in Threads |-> NoThread]
    /\ deleting = NoDeletion
    /\ late = {}
    /\ raced = {file \in Files :
                   \E id \in DOMAIN profiles : \E i \in DOMAIN profiles[id].packages :
                       LET e == profiles[id].packages[i] IN
                       /\ file = <<e.package, e.apk>>
                       /\ library[e.package][e.apk] # e.state.version}
    /\ faults = 0

Capture(t) ==
    \/ StartCapture(t) \/ ListPackages(t) \/ ReadPackage(t) \/ Fetch(t) \/ Save(t)
    \/ CaptureFails(t)

Apply(t) ==
    \/ \E id \in 1..Len(profiles) : StartApply(t, id)
    \/ Inspect(t) \/ BeginRow(t) \/ ApplyStops(t) \/ Command(t) \/ Verify(t)
    \/ VerdictFails(t) \/ CompleteRow(t) \/ FailRow(t) \/ Result(t)

Environment ==
    \/ Crash \/ DeviceChange
    \/ \E c \in late : LateEffect(c)
    \/ \E p \in Packages : ExternalChange(p) \/ OtherDownload(p)

Next ==
    \/ \E t \in Threads : Capture(t) \/ Apply(t)
    \/ \E p \in Packages, f \in Versions : StartDelete(p, f)
    \/ CheckProfiles \/ Unlink
    \/ Environment
    \/ AwaitRequest

Spec == Init /\ [][Next]_vars
-----------------------------------------------------------------------------
(* Properties.                                                             *)

\* "State profile applied" is true: when a thread reports it and nobody else changed
\* the television meanwhile, every package has the version and the flag of its entry.
AppliedMeansReached ==
    \A t \in Live :
        threads[t].pc = "result" /\ threads[t].alone =>
            \A i \in 1..Len(threads[t].profile.packages) :
                LET e == threads[t].profile.packages[i] IN tv[e.package] = e.state

\* "Stops on the first mismatch": every row of an application but its last has been
\* verified, and no package is begun before the ones the profile lists ahead of it.
StopsAtFirstMismatch ==
    \A t \in Live :
        LET batch == threads[t].batch IN
        /\ \A i \in 1..(Len(batch) - 1) : ops[batch[i]].status = "applied"
        /\ \A i \in 1..Len(batch) :
              \E k \in 1..Len(threads[t].profile.packages) :
                  /\ k <= threads[t].index
                  /\ ops[batch[i]].package = threads[t].profile.packages[k].package

\* The file still states the version it was chosen for, unless it was raced.
StillStates(p, f, version) == library[p][f] = version \/ <<p, f>> \in raced

\* A profile row can be taken back: while it is the newest active row of its package
\* and the television is still as the row left it, it can be rolled back, and the file
\* its inverse installs is in the library and states the version the row replaced,
\* unless a deletion or a download raced.
ProfileRowsReverse ==
    \A i \in Ids :
        LET row == ops[i]
            p == row.package
        IN
        /\ row.status \in {"applied", "uncertain"}
        /\ row.device = device
        /\ row.status = "applied" => tv[p] = row.after
        /\ \A k \in Ids : k > i /\ ops[k].package = p => ~IsActive(k)
        => /\ Rollbackable(i, tv[p], device)
           /\ row.inverse = "restore-apk" =>
                 /\ row.beforeApk # 0
                 /\ StillStates(p, row.beforeApk, row.before.version)

\* Files that settled rows and saved profiles name stay in the library and go on stating
\* the version they were named for, except one that a deletion took while a capture or
\* a pending row was about to name it, or that a download under its name has taken.
RetentionHolds ==
    /\ \A p \in Packages, f \in Versions :
          HeldByRow(p, f) \/ HeldByProfile(p, f) =>
              library[p][f] # NoFile \/ <<p, f>> \in raced
    /\ \A i \in Ids :
          ops[i].status \in {"applied", "uncertain"} /\ ops[i].beforeApk # 0 =>
              StillStates(ops[i].package, ops[i].beforeApk, ops[i].before.version)
    /\ \A id \in DOMAIN profiles : \A i \in DOMAIN profiles[id].packages :
          LET e == profiles[id].packages[i] IN
          e.apk # 0 => StillStates(e.package, e.apk, e.state.version)

\* README.md:65: "APK retention while a file is required by rollback history or a saved
\* profile.": the files of both stay in the library.
RequiredFilesStay ==
    \A p \in Packages, f \in Versions :
        HeldByRow(p, f) \/ HeldByProfile(p, f) => library[p][f] # NoFile
=============================================================================
