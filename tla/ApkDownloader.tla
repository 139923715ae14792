---------------------------- MODULE ApkDownloader ----------------------------
(***************************************************************************)
(* The APK library on disk and the threads that fill it: ApkDownloader,    *)
(* ApkRepository and TaskStore of tv_controller/apk_manager.py.            *)
(*                                                                         *)
(* Downloads are numbered in the order they start; the number names the    *)
(* thread, its task file and the inode it creates.  Nothing keeps two      *)
(* downloads from one file name: they share NAME.apk.part, and an open     *)
(* file stays writable after the other download has renamed or unlinked    *)
(* it.  So directory entries (part, final) point to inodes here.  Bytes    *)
(* and metadata are named by the download whose link brought them: what    *)
(* package and version a server announces, and what package the APK it     *)
(* serves is, are its own, and the code never compares them.               *)
(***************************************************************************)
EXTENDS Naturals

CONSTANTS
    Names,      \* APK file names
    NoName,     \* the file name of a job that has none yet
    MaxStarts   \* bound: jobs ever started

ASSUME BoundIsNatural == MaxStarts \in Nat
ASSUME NoNameIsNoName == NoName \notin Names
ASSUME NamesAreNotNumbers == Names \cap (0..MaxStarts) = {}

VARIABLES
    pc,        \* where each job is
    name,      \* the file name the server gave
    handle,    \* the inode the job writes to
    alone,     \* nothing else touched the name while the job ran
    stage,     \* the stage in each task file
    part,      \* NAME.apk.part
    final,     \* NAME.apk
    meta,      \* the download NAME.apk.json describes, 0 without that file
    content,   \* whose bytes are in the two halves of each inode, 0 for a hole
    failed,    \* the downloads that raised
    deleting,  \* the name whose deletion has the metadata still to remove
    clearing,  \* the task clear_finished has read but not yet removed
    crashed    \* the service has died once

jobVars == <<pc, name, handle, alone, failed>>
fileVars == <<part, final, meta, content>>
vars == <<jobVars, stage, fileVars, deleting, clearing, crashed>>

-----------------------------------------------------------------------------
(* Types.                                                                  *)

Downloads == 1..MaxStarts
NoFile == 0
\* A file placed by hand is the inode named by its file name.
Inode == Downloads \cup Names
Entry == Inode \cup {NoFile}

Finished == {"done", "failed", "result"}
Stages == Finished \cup {"none", "queued", "downloading", "installing"}
\* The steps of a job that has a file name.
FileSteps == {"open", "write", "rest", "move", "inspect", "save", "finish",
              "clean", "check", "unlink"}
Steps == FileSteps \cup {"idle", "poll", "report", "resume", "install", "again",
                           "ended", "silent"}

TypeOK ==
    /\ pc \in [Downloads -> Steps]
    /\ name \in [Downloads -> Names \cup {NoName}]
    /\ handle \in [Downloads -> Downloads \cup {NoFile}]
    /\ alone \in [Downloads -> BOOLEAN]
    /\ failed \subseteq Downloads
    /\ stage \in [Downloads -> Stages]
    /\ part \in [Names -> Downloads \cup {NoFile}]
    /\ final \in [Names -> Entry]
    /\ meta \in [Names -> Downloads \cup {0}]
    /\ content \in [Inode -> [1..2 -> Inode \cup {0}]]
    /\ deleting \in Names \cup {NoName}
    /\ clearing \in Downloads \cup {0}
    /\ crashed \in BOOLEAN

-----------------------------------------------------------------------------
(* Helpers.                                                                *)

At(d, step) == pc[d] = step
Goto(d, step) == pc' = [pc EXCEPT ![d] = step]
Running(d) == pc[d] \notin {"idle", "ended", "silent"}
On(n) == {d \in Downloads : name[d] = n /\ pc[d] \in FileSteps}

Both(i) == [half \in 1..2 |-> i]

\* tasks.update reads the task file first and raises when it is gone.  The storage may
\* raise at any time: the file is then as it was.
Update(d, value, step, raised) ==
    \/ /\ stage[d] # "none"
       /\ Goto(d, step)
       /\ stage' = [stage EXCEPT ![d] = value]
    \/ Goto(d, raised) /\ UNCHANGED stage

UnchangedJob == UNCHANGED <<name, handle, alone, failed>>
UnchangedService == UNCHANGED <<deleting, clearing, crashed>>
-----------------------------------------------------------------------------
(* A job up to the answer of the server.  An attempt that brings no link   *)
(* leaves the task file in stage "waiting", which counts as queued here.   *)

Start(d) ==
    /\ At(d, "idle") /\ \A e \in 1..(d - 1) : ~At(e, "idle")
    /\ Goto(d, "poll")
    /\ stage' = [stage EXCEPT ![d] = "queued"]
    /\ UNCHANGED fileVars /\ UnchangedJob /\ UnchangedService

\* The link: what name it carries, and what bytes it serves, is the server's.
Reply(d, n) ==
    /\ At(d, "poll")
    /\ Goto(d, "open")
    /\ name' = [name EXCEPT ![d] = n]
    /\ alone' = [e \in Downloads |->
           IF e = d THEN On(n) = {} /\ deleting # n ELSE alone[e] /\ e \notin On(n)]
    /\ UNCHANGED <<handle, failed, stage, fileVars>> /\ UnchangedService

\* A check for updates needs the answer only.
Answer(d) ==
    /\ At(d, "poll")
    /\ Update(d, "result", "ended", "report")
    /\ UNCHANGED fileVars /\ UnchangedJob /\ UnchangedService

\* The 180 s of the loop are over, or the link is refused: nothing to clean up yet.
GiveUp(d) ==
    /\ At(d, "poll")
    /\ Goto(d, "report")
    /\ UNCHANGED <<stage, fileVars>> /\ UnchangedJob /\ UnchangedService
-----------------------------------------------------------------------------
(* The transfer.                                                           *)

\* Opening for writing truncates the file that another download has open.
Open(d) ==
    /\ At(d, "open")
    /\ LET n == name[d]
           i == IF part[n] = NoFile THEN d ELSE part[n]
       IN  /\ part' = [part EXCEPT ![n] = i]
           /\ handle' = [handle EXCEPT ![d] = i]
           /\ content' = [content EXCEPT ![i] = Both(0)]
    /\ Goto(d, "write")
    /\ UNCHANGED <<name, alone, failed, stage, final, meta>> /\ UnchangedService

\* A chunk, at this job's own offset, then its task file.
Write(d) ==
    /\ \/ At(d, "write") /\ Update(d, "downloading", "rest", "clean")
       \/ At(d, "rest") /\ Update(d, "downloading", "move", "clean")
    /\ LET half == IF At(d, "write") THEN 1 ELSE 2
       IN  content' = [content EXCEPT ![handle[d]][half] = d]
    /\ UNCHANGED <<part, final, meta>> /\ UnchangedJob /\ UnchangedService

\* The connection closes early: read() returns nothing more and does not raise.
CutShort(d) ==
    /\ At(d, "rest")
    /\ Goto(d, "move")
    /\ UNCHANGED <<stage, fileVars>> /\ UnchangedJob /\ UnchangedService

\* An HTTP error, a time-out, the size limit or a full disk.
Abort(d) ==
    /\ pc[d] \in {"open", "write", "rest", "move"}
    /\ Goto(d, "clean")
    /\ UNCHANGED <<stage, fileVars>> /\ UnchangedJob /\ UnchangedService

\* chmod and replace, which raise when the other download took the file.
Move(d) ==
    /\ At(d, "move")
    /\ LET n == name[d] IN
       IF part[n] = NoFile
       THEN Goto(d, "clean") /\ UNCHANGED <<part, final>>
       ELSE /\ Goto(d, "inspect")
            /\ final' = [final EXCEPT ![n] = part[n]]
            /\ part' = [part EXCEPT ![n] = NoFile]
    /\ UNCHANGED <<stage, meta, content>> /\ UnchangedJob /\ UnchangedService

\* Defect: the file is taken as it came.
InspectNothing(d) ==
    /\ At(d, "inspect")
    /\ Goto(d, "save")
    /\ UNCHANGED <<stage, fileVars>> /\ UnchangedJob /\ UnchangedService

\* inspect_apk reads the directory at the end of the ZIP file, so it misses a
\* hole before it; whatever the server sent may also be no APK at all.
Inspect(d) ==
    /\ At(d, "inspect")
    /\ \/ /\ final[name[d]] # NoFile
          /\ content[final[name[d]]][2] # 0
          /\ Goto(d, "save")
       \/ Goto(d, "clean")
    /\ UNCHANGED <<stage, fileVars>> /\ UnchangedJob /\ UnchangedService

\* The metadata file is replaced, unless stat finds the APK gone or the storage raises:
\* package and version are those of the server's answer, the signature is that of the bytes.
Save(d) ==
    /\ At(d, "save")
    /\ \/ /\ final[name[d]] # NoFile
          /\ Goto(d, "finish")
          /\ meta' = [meta EXCEPT ![name[d]] = d]
       \/ Goto(d, "clean") /\ UNCHANGED meta
    /\ UNCHANGED <<stage, part, final, content>> /\ UnchangedJob /\ UnchangedService

\* An update goes on, with the task marked done.
Finish(d) ==
    /\ At(d, "finish")
    /\ \E next \in {"ended", "resume"} : Update(d, "done", next, "clean")
    /\ UNCHANGED fileVars /\ UnchangedJob /\ UnchangedService
-----------------------------------------------------------------------------
(* The except branch of download.                                          *)

\* Defect: the partial file is left for the next attempt.
CleanNothing(d) ==
    /\ At(d, "clean")
    /\ Goto(d, "check")
    /\ failed' = failed \cup {d}
    /\ UNCHANGED <<name, handle, alone, stage, fileVars>> /\ UnchangedService

Clean(d) ==
    /\ At(d, "clean")
    /\ Goto(d, "check")
    /\ part' = [part EXCEPT ![name[d]] = NoFile]
    /\ failed' = failed \cup {d}
    /\ UNCHANGED <<name, handle, alone, stage, final, meta, content>>
    /\ UnchangedService

\* Defect: the final file is never removed.
CheckNothing(d) ==
    /\ At(d, "check")
    /\ Goto(d, "report")
    /\ UNCHANGED <<stage, fileVars>> /\ UnchangedJob /\ UnchangedService

\* A metadata file is taken for the sign of an older, good download: a file placed by
\* hand has none and goes with the failure.
Check(d) ==
    /\ At(d, "check")
    /\ Goto(d, IF meta[name[d]] = 0 THEN "unlink" ELSE "report")
    /\ UNCHANGED <<stage, fileVars>> /\ UnchangedJob /\ UnchangedService

UnlinkFinal(d) ==
    /\ At(d, "unlink")
    /\ Goto(d, "report")
    /\ final' = [final EXCEPT ![name[d]] = NoFile]
    /\ UNCHANGED <<stage, part, meta, content>> /\ UnchangedJob /\ UnchangedService

\* Defect: the failure is logged only.
ReportNothing(d) ==
    /\ At(d, "report")
    /\ Goto(d, "ended")
    /\ UNCHANGED <<stage, fileVars>> /\ UnchangedJob /\ UnchangedService

\* Defect: a stage that neither active nor clear_finished knows.
ReportUnknown(d) ==
    /\ At(d, "report")
    /\ Update(d, "error", "ended", "silent")
    /\ UNCHANGED fileVars /\ UnchangedJob /\ UnchangedService

\* The except branch has no other one around it, except in an update.
Report(d) ==
    /\ At(d, "report")
    /\ \/ Update(d, "failed", "ended", "silent")
       \/ Update(d, "failed", "again", "again")
    /\ UNCHANGED fileVars /\ UnchangedJob /\ UnchangedService

\* The except branch of an update, also after that of its download.
ReportAgain(d) ==
    /\ At(d, "again")
    /\ Update(d, "failed", "ended", "silent")
    /\ UNCHANGED fileVars /\ UnchangedJob /\ UnchangedService
-----------------------------------------------------------------------------
(* An update goes on after its download: JobManager has the whole of it.   *)

Resume(d) ==
    /\ At(d, "resume")
    /\ Update(d, "installing", "install", "again")
    /\ UNCHANGED fileVars /\ UnchangedJob /\ UnchangedService

Install(d) ==
    /\ At(d, "install")
    /\ \/ Update(d, "result", "ended", "again")
       \/ Goto(d, "again") /\ UNCHANGED stage
    /\ UNCHANGED fileVars /\ UnchangedJob /\ UnchangedService
-----------------------------------------------------------------------------
(* The rest of the service.                                                *)

\* ApkRepository.delete removes the file, then its metadata.
Delete(n) ==
    /\ deleting = NoName /\ final[n] # NoFile
    /\ final' = [final EXCEPT ![n] = NoFile]
    /\ deleting' = n
    /\ alone' = [d \in Downloads |-> alone[d] /\ d \notin On(n)]
    /\ UNCHANGED <<pc, name, handle, failed, stage, part, meta, content,
                   clearing, crashed>>

DeleteMetadata ==
    /\ deleting # NoName
    /\ meta' = [meta EXCEPT ![deleting] = 0]
    /\ deleting' = NoName
    /\ UNCHANGED <<jobVars, stage, part, final, content, clearing, crashed>>

\* Defect: every task that is not queued counts as finished.
ClearStarted(d) ==
    /\ clearing = 0 /\ stage[d] \notin {"none", "queued"}
    /\ clearing' = d
    /\ UNCHANGED <<jobVars, stage, fileVars, deleting, crashed>>

\* clear_finished reads a task file, then removes it.  An update that read the
\* file before it went writes it back: then nothing was cleared.
Clear(d) ==
    /\ clearing = 0 /\ stage[d] \in Finished
    /\ clearing' = d
    /\ UNCHANGED <<jobVars, stage, fileVars, deleting, crashed>>

ClearUnlink ==
    /\ clearing # 0
    /\ stage' = [stage EXCEPT ![clearing] = "none"]
    /\ clearing' = 0
    /\ UNCHANGED <<jobVars, fileVars, deleting, crashed>>

\* Threads and handlers die; nothing looks at task and part files at the start.
Crash ==
    /\ ~crashed
    /\ crashed' = TRUE
    /\ pc' = [d \in Downloads |-> IF Running(d) THEN "ended" ELSE pc[d]]
    /\ deleting' = NoName
    /\ clearing' = 0
    /\ UNCHANGED <<stage, fileVars>> /\ UnchangedJob

AwaitRequest == (\A d \in Downloads : ~Running(d)) /\ UNCHANGED vars
-----------------------------------------------------------------------------
\* The library holds what was placed there by hand, without metadata.
Init ==
    /\ pc = [d \in Downloads |-> "idle"]
    /\ name = [d \in Downloads |-> NoName]
    /\ handle = [d \in Downloads |-> NoFile]
    /\ alone = [d \in Downloads |-> TRUE]
    /\ stage = [d \in Downloads |-> "none"]
    /\ part = [n \in Names |-> NoFile]
    /\ meta = [n \in Names |-> 0]
    /\ final \in {entries \in [Names -> Entry] : \A n \in Names : entries[n] \in {NoFile, n}}
    /\ content = [i \in Inode |-> Both(IF i \in Names THEN i ELSE 0)]
    /\ failed = {}
    /\ deleting = NoName
    /\ clearing = 0
    /\ crashed = FALSE

Job(d) ==
    \/ Answer(d) \/ GiveUp(d) \/ Open(d) \/ Write(d) \/ CutShort(d)
    \/ \E n \in Names : Reply(d, n)
    \/ Abort(d) \/ Move(d) \/ Inspect(d) \/ Save(d) \/ Finish(d)
    \/ Clean(d) \/ Check(d) \/ UnlinkFinal(d) \/ Report(d)
    \/ Resume(d) \/ Install(d) \/ ReportAgain(d)

Next ==
    \/ \E d \in Downloads : Start(d) \/ Job(d) \/ Clear(d)
    \/ \E n \in Names : Delete(n)
    \/ DeleteMetadata \/ ClearUnlink \/ Crash \/ AwaitRequest

Spec == Init /\ [][Next]_vars

\* Every wait of a job has a time-out: the poll loop, HTTP, ADB.
FairSpec == Spec /\ \A d \in Downloads : WF_vars(Job(d))
-----------------------------------------------------------------------------
(* Properties.                                                             *)

\* Until the service dies no partial file outlives the downloads of its name,
\* although any of them may rename or unlink the part of another.
PartsBelongToDownloads ==
    crashed \/ \A n \in Names : part[n] # NoFile => On(n) # {}

\* A download that had its name to itself reports done only with its own file, whole,
\* in the library, and metadata that describes it: also over a partial file or a stale
\* metadata file that a crash left, and after a connection cut short.
DoneIsArchived ==
    [][\A d \in Downloads :
          /\ stage[d] # "done" /\ stage'[d] = "done"
          /\ alone[d]
          => LET n == name[d] IN
             final'[n] # NoFile /\ content'[final'[n]] = Both(d) /\ meta'[n] = d]_vars

Quiet(n) ==
    /\ ~crashed /\ deleting # n /\ On(n) = {}
    /\ \A d \in Downloads : name[d] = n => alone[d]

\* The metadata of an earlier download beside the file of a later one that failed.
Replaced(n) ==
    /\ meta[n] # 0
    /\ \E d \in failed : name[d] = n /\ handle[d] = final[n] /\ meta[n] # d

Truthful(n) ==
    \/ meta[n] = 0 /\ final[n] \in {NoFile, n}
    \/ meta[n] # 0 /\ final[n] # NoFile /\ content[final[n]] = Both(meta[n])
    \/ final[n] # NoFile /\ Replaced(n)

\* Without a crash, and while downloads and deletions of a name take turns, a listed file
\* was placed by hand and has no metadata, or it is whole and of the download its metadata
\* describes, unless a failed re-download replaced the bytes of an archived file, whose
\* metadata then stays (apk_manager.py:506).  No metadata is without its file.
LibraryIsTruthful == \A n \in Names : Quiet(n) => Truthful(n)

\* clear_finished takes no running job's task file, except that of an update, whose
\* download marked it done or failed.
OnlyUpdatesLoseTheirTask ==
    \A d \in Downloads :
        Running(d) /\ stage[d] = "none" => pc[d] \in {"resume", "install", "again"}

\* Until the service dies every task reaches a finished stage or is cleared, whatever
\* errors its job meets, unless the storage refuses the report of the failure itself.
TasksAreDecided ==
    \A d \in Downloads :
        stage[d] \notin Finished \cup {"none"}
            ~> stage[d] \in Finished \cup {"none"} \/ crashed \/ At(d, "silent")
=============================================================================
