---------------------------- MODULE SnapshotStore ----------------------------
(***************************************************************************)
(* The snapshot directories of one television: create_snapshot,            *)
(* verify_snapshot and list_snapshots of tv_observer/snapshot.py,          *)
(* redact_snapshot and archive_snapshot of tv_observer/utilities.py, and   *)
(* what the Controller takes for a snapshot (tv_controller/snapshot.py).   *)
(*                                                                         *)
(* A run is one call in one process: a web worker or a command.  Nothing   *)
(* but the file system keeps runs apart.  A digest is the content itself.  *)
(***************************************************************************)
EXTENDS Naturals, Sequences, FiniteSets

CONSTANTS
    Runs,       \* calls, each made at most once
    Seconds,    \* the time stamps snapshots are named after
    Order,      \* the files in the order create writes them
    Sensitive,  \* files in which redaction finds something to mask
    Needed,     \* files without which the Controller refuses
    NoFile,     \* no such file, or no line for it in the checksums
    MaxFaults   \* bound: processes that die and power losses

Files == {Order[i] : i \in DOMAIN Order}

ASSUME FilesAreDistinct == \A i, j \in DOMAIN Order : Order[i] = Order[j] => i = j
ASSUME OrderIsSequence == Order \in Seq(Files)
ASSUME SensitiveAndNeededAreFiles == Sensitive \subseteq Files /\ Needed \subseteq Files
ASSUME SomeAreNeeded == Needed # {}
ASSUME ChecksumsAreNotListed == "checksums" \notin Files
ASSUME MaxFaultsIsNatural == MaxFaults \in Nat

VARIABLES
    dirs,    \* directories and archives by name
    runs,    \* the progress of each run
    torn,    \* names a power loss has damaged
    faults

vars == <<dirs, runs, torn, faults>>

-----------------------------------------------------------------------------
(* Types.                                                                  *)

\* .partial-<random>, <stamp>, <stamp>-redacted and the archives of the last two.
Partial(r) == <<"partial", r>>
Snapshot(s) == <<"snapshot", s>>
Names == ({"partial"} \X Runs)
    \cup ({"snapshot", "redacted", "archive", "redacted-archive"} \X Seconds)

\* Which run's inventory a file holds, and whether it is masked or cut short.
Content == [of : Runs, form : {"raw", "masked", "cut"}]

ASSUME NoFileHasNoContent == NoFile \notin Content

\* A directory, if there is one: its files, and the lines of checksums.sha256 if there
\* is that file.
Directory == [there : BOOLEAN, files : [Files -> Content \cup {NoFile}],
              sums : [Files -> Content \cup {NoFile}], summed : BOOLEAN]

CreateSteps == {"write", "sums", "verify", "check", "publish"}
RedactSteps == {"source", "absent", "mkdir", "copy", "rewrite", "sums", "verify"}
ArchiveSteps == {"source", "absent", "add", "test"}
Steps == CreateSteps \cup RedactSteps \cup ArchiveSteps
             \cup {"idle", "cleanup", "done", "failed", "died"}

\* A create works in source and publishes target; the others read source only.
Run == [kind : {"create", "redact", "archive"}, pc : Steps,
        source : Names, target : Names, todo : SUBSET (Files \cup {"checksums"})]

TypeOK ==
    /\ dirs \in [Names -> Directory]
    /\ runs \in [Runs -> Run]
    /\ torn \subseteq Names
    /\ faults \in Nat

-----------------------------------------------------------------------------
(* Readers.                                                                *)

Missing == [f \in Files |-> NoFile]
NoDir == [there |-> FALSE, files |-> Missing, sums |-> Missing, summed |-> FALSE]
Empty == [NoDir EXCEPT !.there = TRUE]

\* What both readers check: the listed files, and that there are no others.
Matches(d) == d.there /\ d.summed /\ \A f \in Files : d.files[f] = d.sums[f]

Parses(d, fs) == \A f \in fs : d.files[f] # NoFile /\ d.files[f].form # "cut"

\* verify_snapshot raises nothing.
Valid(d) == Matches(d) /\ Parses(d, Files)

Exists(n) == dirs[n].there

\* list_snapshots: hidden directories are left out.
ObserverLists(n) ==
    n[1] \in {"snapshot", "redacted"} /\ Valid(dirs[n])

\* Defect: entries that the checksums do not list are not looked for.
ControllerListsUnchecked(n) ==
    /\ n[1] \in {"snapshot", "redacted", "partial"} /\ Exists(n)
    /\ dirs[n].summed /\ Parses(dirs[n], Needed)
    /\ \A f \in Files : dirs[n].sums[f] # NoFile => dirs[n].files[f] = dirs[n].sums[f]

\* _snapshot_rows: the glob finds hidden directories too, and load_snapshot asks
\* for two files only.
ControllerLists(n) ==
    /\ n[1] \in {"snapshot", "redacted", "partial"}
    /\ Matches(dirs[n]) /\ Parses(dirs[n], Needed)

-----------------------------------------------------------------------------
(* Helpers.                                                                *)

At(r, pc) == runs[r].pc = pc
Goto(r, pc) == runs' = [runs EXCEPT ![r].pc = pc]
Target(r) == runs[r].target
Source(r) == runs[r].source

\* The directory a run writes: a create's is hidden until it is published.
Work(r) == IF runs[r].kind = "create" THEN Source(r) ELSE Target(r)

Masked(f, c) == IF f \in Sensitive THEN [c EXCEPT !.form = "masked"] ELSE c

\* One more entry is done; after the last the run goes on with pc.
Did(r, e, pc) ==
    runs' = [runs EXCEPT ![r].todo = @ \ {e},
                         ![r].pc = IF runs[r].todo = {e} THEN pc ELSE @]

Entries == Files \cup {"checksums"}

UnchangedWorld == UNCHANGED <<torn, faults>>
-----------------------------------------------------------------------------
(* create_snapshot.                                                        *)

Create(r, s) ==
    /\ At(r, "idle")
    /\ runs' = [runs EXCEPT ![r] = [kind |-> "create", pc |-> "write",
                    source |-> Partial(r), target |-> Snapshot(s), todo |-> Files]]
    /\ dirs' = [dirs EXCEPT ![Partial(r)] = Empty]
    /\ UnchangedWorld

WriteFile(r) ==
    /\ At(r, "write")
    /\ LET f == Order[Cardinality(Files) - Cardinality(runs[r].todo) + 1]
       IN  /\ dirs' = [dirs EXCEPT ![Work(r)].files[f] = [of |-> r, form |-> "raw"]]
           /\ Did(r, f, "sums")
    /\ UnchangedWorld

WriteSums(r) ==
    /\ At(r, "sums")
    /\ dirs' = [dirs EXCEPT ![Work(r)].sums = dirs[Work(r)].files, ![Work(r)].summed = TRUE]
    /\ Goto(r, "verify")
    /\ UnchangedWorld

\* Defect: a directory that fails its verification is kept aside.
VerifyAside(r) ==
    /\ At(r, "verify")
    /\ Goto(r, IF ~Valid(dirs[Work(r)]) \/ Exists(Target(r)) THEN "aside"
               ELSE IF runs[r].kind = "create" THEN "check" ELSE "done")
    /\ UNCHANGED dirs /\ UnchangedWorld

Verify(r) ==
    /\ At(r, "verify")
    /\ Goto(r, IF ~Valid(dirs[Work(r)]) THEN "cleanup"
               ELSE IF runs[r].kind = "create" THEN "check" ELSE "done")
    /\ UNCHANGED dirs /\ UnchangedWorld

CheckFinal(r) ==
    /\ At(r, "check")
    /\ Goto(r, IF Exists(Target(r)) THEN "cleanup" ELSE "publish")
    /\ UNCHANGED dirs /\ UnchangedWorld

\* Defect: the rename replaces whatever has the name by now.
PublishOver(r) ==
    /\ At(r, "publish")
    /\ dirs' = [dirs EXCEPT ![Target(r)] = dirs[Source(r)], ![Source(r)] = NoDir]
    /\ Goto(r, "done")
    /\ UnchangedWorld

\* os.replace raises if the target exists by now: a directory with files in it.
Publish(r) ==
    /\ At(r, "publish")
    /\ IF Exists(Target(r))
       THEN Goto(r, "cleanup") /\ UNCHANGED dirs
       ELSE /\ dirs' = [dirs EXCEPT ![Target(r)] = dirs[Source(r)], ![Source(r)] = NoDir]
            /\ Goto(r, "done")
    /\ UnchangedWorld

\* A write, a read or the rename raises inside the try block.
Raise(r) ==
    /\ runs[r].pc \in CreateSteps \cup {"rewrite"}
    /\ Goto(r, "cleanup")
    /\ UNCHANGED dirs /\ UnchangedWorld

\* What a removal has left, which takes entry by entry.
Remains(d, gone, kept) ==
    [d EXCEPT !.files = [f \in Files |-> IF f \in gone THEN NoFile ELSE @[f]],
              !.sums = IF kept THEN @ ELSE Missing,
              !.summed = kept /\ @]

Removed(n) ==
    \/ dirs' = [dirs EXCEPT ![n] = NoDir]
    \/ \E gone \in SUBSET Files, kept \in BOOLEAN :
          dirs' = [dirs EXCEPT ![n] = Remains(@, gone, kept)]

\* rmtree ignores its errors: any part of the directory may stay.
Cleanup(r) ==
    /\ At(r, "cleanup")
    /\ Removed(Work(r))
    /\ Goto(r, "failed")
    /\ UnchangedWorld
-----------------------------------------------------------------------------
(* redact_snapshot and archive_snapshot.                                   *)

Begin(r, kind, source, target) ==
    /\ At(r, "idle") /\ Exists(source)
    /\ runs' = [runs EXCEPT ![r] = [kind |-> kind, pc |-> "source", source |-> source,
                                    target |-> target, todo |-> Entries]]
    /\ UNCHANGED dirs /\ UnchangedWorld

Redact(r, s) == Begin(r, "redact", Snapshot(s), <<"redacted", s>>)

Archive(r, s) ==
    \/ Begin(r, "archive", Snapshot(s), <<"archive", s>>)
    \/ Begin(r, "archive", <<"redacted", s>>, <<"redacted-archive", s>>)

\* The source is verified before anything is written.
VerifySource(r) ==
    /\ At(r, "source")
    /\ Goto(r, IF Valid(dirs[Source(r)]) THEN "absent" ELSE "failed")
    /\ UNCHANGED dirs /\ UnchangedWorld

CheckAbsent(r) ==
    /\ At(r, "absent")
    /\ Goto(r, IF Exists(Target(r)) THEN "failed" ELSE "mkdir")
    /\ UNCHANGED dirs /\ UnchangedWorld

\* Defect: the copy belongs to the try block, which removes its target.
MakeTargetGuarded(r) ==
    /\ At(r, "mkdir")
    /\ IF Exists(Target(r))
       THEN Goto(r, "cleanup") /\ UNCHANGED dirs
       ELSE /\ dirs' = [dirs EXCEPT ![Target(r)] = Empty]
            /\ Goto(r, IF runs[r].kind = "redact" THEN "copy" ELSE "add")
    /\ UnchangedWorld

\* The directory, or the archive opened with "x", must be new.
MakeTarget(r) ==
    /\ At(r, "mkdir")
    /\ IF Exists(Target(r))
       THEN Goto(r, "failed") /\ UNCHANGED dirs
       ELSE /\ dirs' = [dirs EXCEPT ![Target(r)] = Empty]
            /\ Goto(r, IF runs[r].kind = "redact" THEN "copy" ELSE "add")
    /\ UnchangedWorld

\* One entry of the source is copied as it is at this moment.
Copied(r, e) ==
    IF e = "checksums"
    THEN [dirs EXCEPT ![Target(r)].sums = dirs[Source(r)].sums,
                      ![Target(r)].summed = dirs[Source(r)].summed]
    ELSE [dirs EXCEPT ![Target(r)].files[e] = dirs[Source(r)].files[e]]

\* copytree, then todo holds the files to mask.
CopyEntry(r) ==
    /\ At(r, "copy")
    /\ \E e \in runs[r].todo :
          /\ dirs' = Copied(r, e)
          /\ runs' = IF runs[r].todo = {e}
                     THEN [runs EXCEPT ![r].todo = Files, ![r].pc = "rewrite"]
                     ELSE [runs EXCEPT ![r].todo = @ \ {e}]
    /\ UnchangedWorld

AddEntry(r) ==
    /\ At(r, "add") /\ Exists(Source(r))
    /\ \E e \in runs[r].todo : dirs' = Copied(r, e) /\ Did(r, e, "test")
    /\ UnchangedWorld

\* The archive is read again.  One that fails the test is removed.
TestArchive(r) ==
    /\ At(r, "test")
    /\ \/ Goto(r, "done") /\ UNCHANGED dirs
       \/ Goto(r, "failed") /\ dirs' = [dirs EXCEPT ![Target(r)] = NoDir]
    /\ UnchangedWorld

Rewrite(r) ==
    /\ At(r, "rewrite")
    /\ \E f \in runs[r].todo :
          /\ dirs[Target(r)].files[f] # NoFile
          /\ dirs' = [dirs EXCEPT ![Target(r)].files[f] = Masked(f, @)]
          /\ Did(r, f, "sums")
    /\ UnchangedWorld

\* Raised outside the try block: what was written stays.
Stop(r) ==
    /\ runs[r].pc \in {"source", "absent", "mkdir", "copy", "add", "test"}
    /\ Goto(r, "failed")
    /\ UNCHANGED dirs /\ UnchangedWorld
-----------------------------------------------------------------------------
(* Faults.                                                                 *)

Working(r) == runs[r].pc \notin {"idle", "done", "failed", "died"}

\* Some files of a directory are cut short, and its checksums may be empty: they are
\* written at once and fit a disk block.
Damaged(d, cut, emptied) ==
    [d EXCEPT
        !.files = [f \in Files |->
            IF f \in cut /\ @[f] # NoFile THEN [@[f] EXCEPT !.form = "cut"] ELSE @[f]],
        !.sums = IF emptied THEN Missing ELSE @]

Damage(n, cut, emptied) == dirs' = [dirs EXCEPT ![n] = Damaged(@, cut, emptied)]

\* A process dies: the file it was writing may be cut, the checksums may be empty, and
\* a removal may have done a part of its work.
Die(r) ==
    /\ Working(r) /\ faults < MaxFaults /\ faults' = faults + 1
    /\ Goto(r, "died")
    /\ \/ UNCHANGED dirs
       \/ /\ At(r, "rewrite")
          /\ \E f \in runs[r].todo : Damage(Work(r), {f}, FALSE)
       \/ /\ At(r, "sums") /\ dirs[Work(r)].summed
          /\ Damage(Work(r), {}, TRUE)
       \/ At(r, "cleanup") /\ Exists(Work(r)) /\ Removed(Work(r))
    /\ UNCHANGED torn

\* Nothing is synced: with the power any files of a directory may lose their content.
PowerLoss ==
    /\ faults < MaxFaults /\ faults' = faults + 1
    /\ runs' = [r \in Runs |-> IF Working(r) THEN [runs[r] EXCEPT !.pc = "died"] ELSE runs[r]]
    /\ \E n \in Names, cut \in SUBSET Files, emptied \in BOOLEAN :
          /\ Exists(n)
          /\ Damage(n, cut, emptied)
          /\ torn' = torn \cup {n}

\* Every call has been made.
Rest == (\A r \in Runs : ~Working(r) /\ ~At(r, "idle")) /\ UNCHANGED vars
-----------------------------------------------------------------------------
Init ==
    /\ dirs = [n \in Names |-> NoDir]
    /\ runs = [r \in Runs |-> [kind |-> "create", pc |-> "idle", source |-> Partial(r),
                               target |-> Partial(r), todo |-> {}]]
    /\ torn = {}
    /\ faults = 0

CreateStep(r) ==
    \/ \E s \in Seconds : Create(r, s)
    \/ WriteFile(r) \/ CheckFinal(r) \/ Publish(r)

CopyStep(r) ==
    \/ \E s \in Seconds : Redact(r, s) \/ Archive(r, s)
    \/ VerifySource(r) \/ CheckAbsent(r) \/ MakeTarget(r) \/ CopyEntry(r)
    \/ AddEntry(r) \/ TestArchive(r) \/ Rewrite(r) \/ Stop(r)

Next ==
    \/ \E r \in Runs :
          \/ CreateStep(r) \/ CopyStep(r) \/ WriteSums(r) \/ Verify(r)
          \/ Raise(r) \/ Cleanup(r) \/ Die(r)
    \/ PowerLoss
    \/ Rest

Spec == Init /\ [][Next]_vars
-----------------------------------------------------------------------------
(* Properties.                                                             *)

\* All files hold the inventory of one run, and none, or each that should be, is masked.
Whole(d) ==
    \E r \in Runs :
        \/ \A f \in Files : d.files[f] = [of |-> r, form |-> "raw"]
        \/ \A f \in Files : d.files[f] = Masked(f, [of |-> r, form |-> "raw"])

\* What either service takes for a snapshot is a whole one, whatever runs beside it, dies
\* or loses its unsynced files, although the Controller looks into hidden directories and
\* asks for two files.
AcceptedIsWhole ==
    \A n \in Names : ObserverLists(n) \/ ControllerLists(n) => Whole(dirs[n])

\* A published snapshot is never changed, replaced or removed: not by a second one of the
\* same second, a redaction or an archive.
SnapshotsStay ==
    [][\A s \in Seconds :
          Exists(Snapshot(s)) /\ Snapshot(s) \notin torn' =>
              dirs'[Snapshot(s)] = dirs[Snapshot(s)]]_vars

\* Every verdict of a run stays true, whatever other runs do with the same names.  Done: a
\* snapshot is there and valid, a copy is valid and masked, an archive equals its snapshot.
\* Failed: a create has published nothing, although its hidden directory may be left.
VerdictsHold ==
    \A r \in Runs :
        /\ At(r, "failed") /\ runs[r].kind = "create" =>
              \A s \in Seconds : Exists(Snapshot(s)) =>
                  \A f \in Files : dirs[Snapshot(s)].files[f] # [of |-> r, form |-> "raw"]
        /\ At(r, "done") /\ {Source(r), Target(r)} \cap torn = {} =>
              CASE runs[r].kind = "create" ->
                      /\ ObserverLists(Target(r))
                      /\ \A f \in Files : dirs[Target(r)].files[f].of = r
                [] runs[r].kind = "redact" ->
                      /\ ObserverLists(Target(r))
                      /\ \A f \in Files : dirs[Target(r)].files[f] =
                                              Masked(f, dirs[Source(r)].files[f])
                [] runs[r].kind = "archive" ->
                      Source(r)[1] = "snapshot" => dirs[Target(r)] = dirs[Source(r)]
=============================================================================
