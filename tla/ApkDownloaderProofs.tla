------------------------- MODULE ApkDownloaderProofs -------------------------
(***************************************************************************)
(* Theorems about ApkDownloader: what a download leaves in the library and *)
(* in its task file, for any number of downloads and names.                *)
(***************************************************************************)
EXTENDS ApkDownloader, TLAPS

(* The jobs.                                                               *)

\* A job has a name once it has a file to open, and writes to an inode it has opened.
Shaped(d) ==
    /\ pc[d] \in FileSteps => name[d] \in Names
    /\ pc[d] \in {"idle", "poll"} => name[d] = NoName
    /\ pc[d] \in {"write", "rest", "move"} => handle[d] \in Downloads
    /\ pc[d] \in {"check", "unlink"} => d \in failed

Typed == TypeOK /\ \A d \in Downloads : Shaped(d)

\* A task is finished, or its file read by clear_finished, only when its job is past
\* its download.
Tasked(d) ==
    /\ At(d, "idle") => stage[d] = "none" /\ clearing # d
    /\ Running(d) /\ (stage[d] \in Finished \cup {"none"} \/ clearing = d) =>
          pc[d] \in {"resume", "install", "again"}

\* The steps at which a job may have a part file.
Holding == {"write", "rest", "move", "clean"}

PartsHeld ==
    crashed \/ \A n \in Names : part[n] # NoFile =>
                  \E d \in Downloads : name[d] = n /\ pc[d] \in Holding

(* Inodes.                                                                 *)

\* An inode belongs to the name of the download that made it, or was placed there.
Placed ==
    /\ \A n \in Names : /\ part[n] # NoFile => name[part[n]] = n
                        /\ final[n] \in Downloads => name[final[n]] = n
                        /\ final[n] \in Names => final[n] = n
    /\ \A d \in Downloads : handle[d] # NoFile => name[handle[d]] = name[d]

\* A job that has not opened a file has made no inode.
Fresh(d) ==
    pc[d] \in {"idle", "poll", "open"} =>
        /\ handle[d] = NoFile
        /\ \A n \in Names : part[n] # d /\ final[n] # d
        /\ \A e \in Downloads : handle[e] # d

\* Nor is there metadata that describes a download before it has saved it.
Unsaved(d) ==
    pc[d] \in {"idle", "poll", "open", "write", "rest", "move", "inspect", "save"} =>
        \A n \in Names : meta[n] # d

(* A download that has its name to itself.                                 *)

\* What it has written by then.
Solo(d) ==
    /\ pc[d] \in {"write", "rest", "move"} => part[name[d]] = handle[d]
    /\ pc[d] \in {"write", "rest"} => content[handle[d]][2] = 0
    /\ pc[d] \in {"rest", "move", "inspect", "save", "finish"} => content[handle[d]][1] = d
    /\ pc[d] \in {"move", "inspect"} => content[handle[d]][2] \in {0, d}
    /\ pc[d] \in {"inspect", "save", "finish"} =>
          final[name[d]] = handle[d] /\ handle[d] \in Downloads
    /\ pc[d] \in {"save", "finish"} => content[handle[d]][2] = d
    /\ At(d, "finish") => meta[name[d]] = d

Alone(d) ==
    pc[d] \in FileSteps /\ alone[d] =>
        /\ deleting # name[d]
        /\ \A e \in Downloads : e # d /\ name[e] = name[d] => pc[e] \notin FileSteps
        /\ Solo(d)

(* The library.                                                            *)

\* No crash, and the downloads and deletions of the name took turns.
Undisturbed(n) == ~crashed /\ \A d \in Downloads : name[d] = n => alone[d]

\* What a download of the name has made of its file by then.
Leaves(d, n) ==
    /\ pc[d] \in {"open", "write", "rest", "move"} => Truthful(n)
    /\ pc[d] \in {"write", "rest", "move"} => final[n] # handle[d]
    /\ pc[d] \in {"clean", "check"} =>
          \/ Truthful(n)
          \/ final[n] = handle[d] /\ handle[d] # NoFile /\ meta[n] # d
    /\ At(d, "unlink") => meta[n] = 0

Listed(n) ==
    Undisturbed(n) =>
        /\ deleting = n => final[n] = NoFile /\ On(n) = {}
        /\ deleting # n /\ On(n) = {} => Truthful(n)
        /\ \A d \in On(n) : Leaves(d, n)

LibraryInv ==
    /\ Typed
    /\ \A d \in Downloads : Tasked(d) /\ Fresh(d) /\ Unsaved(d) /\ Alone(d)
    /\ PartsHeld
    /\ Placed
    /\ \A n \in Names : Listed(n)

-----------------------------------------------------------------------------
(* Types.                                                                  *)

LEMMA TypedInit == Init => Typed
<1> SUFFICES ASSUME Init PROVE Typed
  OBVIOUS
<1>1. \A i \in Inode \cup {0} : Both(i) \in [1..2 -> Inode \cup {0}]
  BY DEF Both
<1>2. TypeOK
  <2>1. content \in [Inode -> [1..2 -> Inode \cup {0}]]
    BY <1>1 DEF Init, Inode
  <2> QED BY <2>1 DEF Init, TypeOK, Entry, NoFile, Steps, Stages
<1>3. \A d \in Downloads : Shaped(d)
  BY DEF Init, Shaped, FileSteps
<1> QED BY <1>2, <1>3 DEF Typed

\* What an update of a task file comes to.
LEMMA Updates ==
    ASSUME TypeOK, NEW d \in Downloads, NEW value \in Stages, NEW step \in Steps,
           NEW raised \in Steps, Update(d, value, step, raised)
    PROVE  /\ stage' \in [Downloads -> Stages] /\ pc' \in [Downloads -> Steps]
           /\ \A e \in Downloads : e # d => stage'[e] = stage[e] /\ pc'[e] = pc[e]
           /\ \/ stage[d] # "none" /\ stage'[d] = value /\ pc'[d] = step
              \/ stage'[d] = stage[d] /\ pc'[d] = raised
BY DEF TypeOK, Update, Goto

\* A job that goes on.
LEMMA Goes ==
    ASSUME TypeOK, NEW d \in Downloads, NEW step \in Steps, Goto(d, step)
    PROVE  /\ pc' \in [Downloads -> Steps] /\ pc'[d] = step
           /\ \A e \in Downloads : e # d => pc'[e] = pc[e]
BY DEF TypeOK, Goto

LEMMA TypedNext == ASSUME Typed, [Next]_vars PROVE Typed'
<1> USE DEF NoFile
<1>0. /\ TypeOK /\ \A d \in Downloads : Shaped(d)
  BY DEF Typed
<1>1. ASSUME UNCHANGED vars PROVE Typed'
  BY <1>0, <1>1 DEF vars, jobVars, fileVars, Typed, TypeOK, Shaped
<1>2. ASSUME NEW d \in Downloads, Start(d) PROVE Typed'
  BY <1>0, <1>2 DEF Start, Typed, TypeOK, Shaped, Goto, At, Steps, Stages, FileSteps,
     fileVars, UnchangedJob, UnchangedService
<1>3. ASSUME NEW d \in Downloads, NEW n \in Names, Reply(d, n)
      PROVE  Typed'
  BY <1>0, <1>3 DEF Reply, Typed, TypeOK, Shaped, Goto, At, Steps, FileSteps,
     fileVars, UnchangedService
<1>4. ASSUME NEW d \in Downloads,
             \E value \in Stages, step, raised \in Steps \ (FileSteps \cup {"idle", "poll"}) :
                Update(d, value, step, raised),
             UNCHANGED fileVars, UnchangedJob, UnchangedService
      PROVE  Typed'
  <2>1. PICK value \in Stages, step \in Steps \ (FileSteps \cup {"idle", "poll"}),
             raised \in Steps \ (FileSteps \cup {"idle", "poll"}) :
                Update(d, value, step, raised)
    BY <1>4
  <2>2. TypeOK'
    BY <1>0, <1>4, <2>1, Updates DEF TypeOK, fileVars, UnchangedJob, UnchangedService
  <2>3. ASSUME NEW e \in Downloads PROVE Shaped(e)'
    <3>1. e = d => pc'[e] \notin FileSteps \cup {"idle", "poll"}
      BY <1>0, <2>1, Updates
    <3>2. e # d => pc'[e] = pc[e]
      BY <1>0, <2>1, Updates
    <3> QED BY <1>0, <1>4, <3>1, <3>2 DEF Shaped, UnchangedJob, FileSteps
  <2> QED BY <2>2, <2>3 DEF Typed
<1>5. ASSUME NEW d \in Downloads, GiveUp(d) \/ CutShort(d) \/ Abort(d) \/ Check(d) PROVE Typed'
  BY <1>0, <1>5 DEF GiveUp, CutShort, Abort, Check, Typed, TypeOK, Shaped, Goto, At, Steps,
     FileSteps, fileVars, UnchangedJob, UnchangedService
<1>6. ASSUME NEW d \in Downloads, Open(d) PROVE Typed'
  <2> DEFINE n == name[d]
             i == IF part[n] = NoFile THEN d ELSE part[n]
  <2>1. n \in Names /\ i \in Downloads
    BY <1>0, <1>6 DEF Open, At, Shaped, FileSteps, TypeOK
  <2>2. /\ part' = [part EXCEPT ![n] = i] /\ handle' = [handle EXCEPT ![d] = i]
        /\ content' = [content EXCEPT ![i] = Both(0)]
    BY <1>6 DEF Open
  <2> HIDE DEF n, i
  <2>3. Both(0) \in [1..2 -> Inode \cup {0}]
    BY DEF Both
  <2>4. TypeOK'
    <3>1. /\ part' \in [Names -> Downloads \cup {NoFile}]
          /\ handle' \in [Downloads -> Downloads \cup {NoFile}]
          /\ content' \in [Inode -> [1..2 -> Inode \cup {0}]]
      BY <1>0, <2>1, <2>2, <2>3 DEF TypeOK, Inode
    <3>2. pc' \in [Downloads -> Steps]
      BY <1>0, <1>6 DEF Open, TypeOK, Goto, Steps, FileSteps
    <3> QED BY <1>0, <1>6, <3>1, <3>2 DEF Open, TypeOK, UnchangedService
  <2>5. \A e \in Downloads : Shaped(e)'
    BY <1>0, <1>6, <2>1, <2>2 DEF Open, TypeOK, Shaped, Goto, At, FileSteps
  <2> QED BY <2>4, <2>5 DEF Typed
<1>7. ASSUME NEW d \in Downloads, Write(d) PROVE Typed'
  <2>1. PICK step \in {"rest", "move"}, half \in 1..2 :
            /\ Update(d, "downloading", step, "clean")
            /\ content' = [content EXCEPT ![handle[d]][half] = d]
    <3>1. CASE At(d, "write")
      BY <1>7, <3>1 DEF Write, At
    <3>2. CASE At(d, "rest")
      BY <1>7, <3>2 DEF Write, At
    <3> QED BY <1>7, <3>1, <3>2 DEF Write
  <2>2. pc[d] \in {"write", "rest"} /\ handle[d] \in Downloads
    BY <1>0, <1>7 DEF Write, At, Shaped, FileSteps
  <2>3. "downloading" \in Stages /\ step \in Steps /\ "clean" \in Steps
    BY DEF Stages, Steps, FileSteps
  <2>4. content' \in [Inode -> [1..2 -> Inode \cup {0}]]
    <3>1. /\ content \in [Inode -> [1..2 -> Inode \cup {0}]]
          /\ content[handle[d]] \in [1..2 -> Inode \cup {0}]
      BY <1>0, <2>2 DEF TypeOK, Inode
    <3>2. [content[handle[d]] EXCEPT ![half] = d] \in [1..2 -> Inode \cup {0}]
      BY <2>2, <3>1 DEF Inode
    <3> QED BY <2>1, <2>2, <3>1, <3>2 DEF Inode
  <2>5. TypeOK'
    BY <1>0, <1>7, <2>1, <2>3, <2>4, Updates
    DEF Write, TypeOK, UnchangedJob, UnchangedService
  <2>6. ASSUME NEW e \in Downloads PROVE Shaped(e)'
    <3>1. e # d => pc'[e] = pc[e]
      BY <1>0, <2>1, <2>3, Updates
    <3>2. pc'[d] \in {"rest", "move", "clean"}
      BY <1>0, <2>1, <2>3, Updates
    <3> QED BY <1>0, <1>7, <2>2, <3>1, <3>2 DEF Write, Shaped, UnchangedJob, FileSteps
  <2> QED BY <2>5, <2>6 DEF Typed
<1>8. ASSUME NEW d \in Downloads, Finish(d) PROVE Typed'
  <2>1. PICK next \in {"ended", "resume"} : Update(d, "done", next, "clean")
    BY <1>8 DEF Finish
  <2>2. "done" \in Stages /\ next \in Steps /\ "clean" \in Steps
    BY DEF Stages, Finished, Steps, FileSteps
  <2>3. TypeOK'
    BY <1>0, <1>8, <2>1, <2>2, Updates
    DEF Finish, TypeOK, fileVars, UnchangedJob, UnchangedService
  <2>4. ASSUME NEW e \in Downloads PROVE Shaped(e)'
    <3>1. e # d => pc'[e] = pc[e]
      BY <1>0, <2>1, <2>2, Updates
    <3>2. pc'[d] \in {"ended", "resume", "clean"}
      BY <1>0, <2>1, <2>2, Updates
    <3> QED BY <1>0, <1>8, <3>1, <3>2 DEF Finish, Shaped, UnchangedJob, FileSteps, At
  <2> QED BY <2>3, <2>4 DEF Typed
<1>9. ASSUME NEW d \in Downloads, Move(d) PROVE Typed'
  <2>1. name[d] \in Names
    BY <1>0, <1>9 DEF Move, At, Shaped, FileSteps
  <2> QED BY <1>0, <1>9, <2>1 DEF Move, Typed, TypeOK, Shaped, Goto, At, Steps, FileSteps,
          Entry, Inode, UnchangedJob, UnchangedService
<1>10. ASSUME NEW d \in Downloads, Inspect(d) PROVE Typed'
  <2>1. PICK step \in {"save", "clean"} : Goto(d, step)
    BY <1>10 DEF Inspect
  <2> QED BY <1>0, <1>10, <2>1 DEF Inspect, Typed, TypeOK, Shaped, Goto, At, Steps, FileSteps,
          fileVars, UnchangedJob, UnchangedService
<1>11. ASSUME NEW d \in Downloads, Save(d) PROVE Typed'
  BY <1>0, <1>11 DEF Save, Typed, TypeOK, Shaped, Goto, At, Steps, FileSteps,
     UnchangedJob, UnchangedService
<1>12. ASSUME NEW d \in Downloads, Clean(d) \/ UnlinkFinal(d) PROVE Typed'
  BY <1>0, <1>12 DEF Clean, UnlinkFinal, Typed, TypeOK, Shaped, Goto, At, Steps, FileSteps,
     Entry, UnchangedJob, UnchangedService
<1>13. ASSUME NEW d \in Downloads, Answer(d) \/ Report(d) \/ ReportAgain(d) \/ Resume(d)
      PROVE  Typed'
  <2>1. {"ended", "report", "again", "silent", "install"} \subseteq
            Steps \ (FileSteps \cup {"idle", "poll"})
    BY DEF Steps, FileSteps
  <2>2. {"result", "failed", "installing"} \subseteq Stages
    BY DEF Stages, Finished
  <2> QED BY <1>4, <1>13, <2>1, <2>2 DEF Answer, Report, ReportAgain, Resume
<1>14. ASSUME NEW d \in Downloads, Install(d) PROVE Typed'
  <2>1. {"ended", "again"} \subseteq Steps \ (FileSteps \cup {"idle", "poll"})
    BY DEF Steps, FileSteps
  <2>2. "result" \in Stages
    BY DEF Stages, Finished
  <2>3. CASE Update(d, "result", "ended", "again")
    BY <1>4, <1>14, <2>1, <2>2, <2>3 DEF Install
  <2>4. CASE Goto(d, "again") /\ UNCHANGED stage
    BY <1>0, <1>14, <2>4 DEF Install, Typed, TypeOK, Shaped, Goto, Steps, FileSteps,
       fileVars, UnchangedJob, UnchangedService
  <2> QED BY <1>14, <2>3, <2>4 DEF Install
<1>15. ASSUME NEW n \in Names, Delete(n) PROVE Typed'
  BY <1>0, <1>15 DEF Delete, Typed, TypeOK, Shaped, Entry
<1>16. ASSUME DeleteMetadata PROVE Typed'
  BY <1>0, <1>16 DEF DeleteMetadata, Typed, TypeOK, Shaped, jobVars
<1>17. ASSUME NEW d \in Downloads, Clear(d) PROVE Typed'
  BY <1>0, <1>17 DEF Clear, Typed, TypeOK, Shaped, jobVars, fileVars
<1>18. ASSUME ClearUnlink PROVE Typed'
  BY <1>0, <1>18 DEF ClearUnlink, Typed, TypeOK, Shaped, jobVars, fileVars, Stages
<1>19. ASSUME Crash PROVE Typed'
  BY <1>0, <1>19 DEF Crash, Typed, TypeOK, Shaped, fileVars, UnchangedJob, Running, Steps,
     FileSteps
<1> QED BY <1>1, <1>2, <1>3, <1>5, <1>6, <1>7, <1>8, <1>9, <1>10, <1>11, <1>12, <1>13, <1>14,
        <1>15, <1>16, <1>17, <1>18, <1>19 DEF Next, Job, AwaitRequest
-----------------------------------------------------------------------------
(* What one job does to the rest.                                          *)

\* A job leaves the other jobs alone, and the files of other names.
Spares(d) ==
    /\ \A e \in Downloads : e # d =>
          /\ pc'[e] = pc[e] /\ name'[e] = name[e]
          /\ handle'[e] = handle[e] /\ stage'[e] = stage[e] /\ (alone'[e] => alone[e])
    /\ failed \subseteq failed'
    /\ UNCHANGED <<deleting, clearing, crashed>>
    /\ \A m \in Names : m # name[d] =>
          part'[m] = part[m] /\ final'[m] = final[m] /\ meta'[m] = meta[m]
    /\ \A i \in Inode : i # handle'[d] => content'[i] = content[i]
    /\ pc[d] \notin FileSteps => UNCHANGED fileVars /\ handle'[d] = handle[d]
    /\ At(d, "poll") \/ UNCHANGED <<name, alone>>

LEMMA UpdateOthers ==
    ASSUME TypeOK, NEW d \in Downloads, NEW value, NEW step, NEW raised,
           Update(d, value, step, raised), NEW e \in Downloads, e # d
    PROVE  pc'[e] = pc[e] /\ stage'[e] = stage[e]
BY DEF TypeOK, Update, Goto

LEMMA GotoOthers ==
    ASSUME TypeOK, NEW d \in Downloads, NEW step, Goto(d, step), NEW e \in Downloads, e # d
    PROVE  pc'[e] = pc[e]
BY DEF TypeOK, Goto

LEMMA JobSpares == ASSUME Typed, NEW d \in Downloads, Start(d) \/ Job(d) PROVE Spares(d)
<1>0. TypeOK /\ Shaped(d)
  BY DEF Typed
<1>1. ASSUME Start(d) PROVE Spares(d)
  BY <1>0, <1>1, GotoOthers DEF Start, Spares, TypeOK, UnchangedJob, UnchangedService, fileVars
<1>2. ASSUME NEW n \in Names, Reply(d, n) PROVE Spares(d)
  BY <1>0, <1>2, GotoOthers DEF Reply, Spares, TypeOK, UnchangedService, fileVars
<1>3. ASSUME \/ Answer(d) \/ Report(d) \/ ReportAgain(d)
             \/ Resume(d) \/ Install(d) \/ Finish(d)
      PROVE  Spares(d)
  <2>1. \A e \in Downloads : e # d => pc'[e] = pc[e] /\ stage'[e] = stage[e]
    BY <1>0, <1>3, GotoOthers, UpdateOthers DEF Answer, Report, ReportAgain, Resume,
       Install, Finish
  <2>2. UNCHANGED fileVars /\ UnchangedJob /\ UnchangedService
    BY <1>3 DEF Answer, Report, ReportAgain, Resume, Install, Finish
  <2> QED BY <2>1, <2>2 DEF Spares, UnchangedJob, UnchangedService, fileVars
<1>4. ASSUME GiveUp(d) \/ CutShort(d) \/ Abort(d) \/ Check(d) \/ Inspect(d) PROVE Spares(d)
  <2>1. /\ \A e \in Downloads : e # d => pc'[e] = pc[e]
        /\ UNCHANGED <<stage, fileVars>> /\ UnchangedJob /\ UnchangedService
    BY <1>0, <1>4, GotoOthers DEF GiveUp, CutShort, Abort, Check, Inspect
  <2> QED BY <2>1 DEF Spares, UnchangedJob, UnchangedService, fileVars
<1>5. ASSUME Move(d) \/ Save(d) \/ Clean(d) \/ UnlinkFinal(d) PROVE Spares(d)
  <2>1. /\ \A e \in Downloads : e # d => pc'[e] = pc[e]
        /\ UNCHANGED <<name, handle, alone, stage, content>> /\ UnchangedService
        /\ failed \subseteq failed'
    BY <1>0, <1>5, GotoOthers DEF Move, Save, Clean, UnlinkFinal, UnchangedJob
  <2>2. pc[d] \in FileSteps
    BY <1>5 DEF Move, Save, Clean, UnlinkFinal, At, FileSteps
  <2>3. \A m \in Names : m # name[d] =>
          part'[m] = part[m] /\ final'[m] = final[m] /\ meta'[m] = meta[m]
    BY <1>0, <1>5 DEF Move, Save, Clean, UnlinkFinal, TypeOK
  <2> QED BY <2>1, <2>2, <2>3 DEF Spares, UnchangedService
<1>6. ASSUME Open(d) PROVE Spares(d)
  <2>1. pc[d] \in FileSteps
    BY <1>6 DEF Open, At, FileSteps
  <2> DEFINE i == IF part[name[d]] = NoFile THEN d ELSE part[name[d]]
  <2>2. /\ part' = [part EXCEPT ![name[d]] = i] /\ handle' = [handle EXCEPT ![d] = i]
        /\ content' = [content EXCEPT ![i] = Both(0)]
    BY <1>6 DEF Open
  <2>3. /\ \A e \in Downloads : e # d => pc'[e] = pc[e]
        /\ UNCHANGED <<name, alone, failed, stage, final, meta>> /\ UnchangedService
    BY <1>0, <1>6, GotoOthers DEF Open
  <2> HIDE DEF i
  <2>4. /\ handle'[d] = i
        /\ \A e \in Downloads : e # d => handle'[e] = handle[e]
        /\ \A m \in Names : m # name[d] => part'[m] = part[m]
        /\ \A k \in Inode : k # i => content'[k] = content[k]
    BY <1>0, <2>2 DEF TypeOK
  <2> QED BY <2>1, <2>3, <2>4 DEF Spares, UnchangedService
<1>7. ASSUME Write(d) PROVE Spares(d)
  <2>1. pc[d] \in FileSteps
    BY <1>7 DEF Write, At, FileSteps
  <2>2. \A e \in Downloads : e # d => pc'[e] = pc[e] /\ stage'[e] = stage[e]
    BY <1>0, <1>7, UpdateOthers DEF Write
  <2>3. PICK half \in 1..2 : content' = [content EXCEPT ![handle[d]][half] = d]
    <3>1. CASE At(d, "write")
      BY <1>7, <3>1 DEF Write, At
    <3>2. CASE At(d, "rest")
      BY <1>7, <3>2 DEF Write, At
    <3> QED BY <1>7, <3>1, <3>2 DEF Write
  <2>4. \A i \in Inode : i # handle[d] => content'[i] = content[i]
    BY <1>0, <2>3 DEF TypeOK
  <2> QED BY <1>7, <2>1, <2>2, <2>4 DEF Write, Spares, UnchangedJob, UnchangedService
<1> QED BY <1>1, <1>2, <1>3, <1>4, <1>5, <1>6, <1>7 DEF Job
-----------------------------------------------------------------------------
(* Tasks.                                                                  *)

LEMMA JobTasked ==
    ASSUME Typed, NEW d \in Downloads, Tasked(d), Start(d) \/ Job(d) PROVE Tasked(d)'
<1>0. TypeOK /\ clearing' = clearing
  BY JobSpares DEF Typed, Spares
<1>1. ASSUME Start(d) PROVE Tasked(d)'
  BY <1>0, <1>1 DEF Start, Tasked, At, Goto, Running, TypeOK, Finished
<1>2. ASSUME NEW n \in Names, Reply(d, n) PROVE Tasked(d)'
  BY <1>0, <1>2 DEF Reply, Tasked, At, Goto, Running, TypeOK, Finished
<1>3. ASSUME Answer(d) \/ Report(d) \/ ReportAgain(d) PROVE Tasked(d)'
  BY <1>0, <1>3 DEF Answer, Report, ReportAgain, Update, Tasked, At, Goto, Running, TypeOK,
     Finished
<1>4. ASSUME Resume(d) \/ Install(d) PROVE Tasked(d)'
  BY <1>0, <1>4 DEF Resume, Install, Update, Tasked, At, Goto, Running, TypeOK, Finished
<1>5. ASSUME Finish(d) PROVE Tasked(d)'
  BY <1>0, <1>5 DEF Finish, Update, Tasked, At, Goto, Running, TypeOK, Finished
<1>6. ASSUME GiveUp(d) \/ CutShort(d) \/ Abort(d) \/ Check(d) PROVE Tasked(d)'
  BY <1>0, <1>6 DEF GiveUp, CutShort, Abort, Check, Tasked, At, Goto, Running, TypeOK, Finished
<1>7. ASSUME Move(d) \/ Save(d) \/ Clean(d) \/ UnlinkFinal(d) \/ Inspect(d) PROVE Tasked(d)'
  BY <1>0, <1>7
  DEF Move, Save, Clean, UnlinkFinal, Inspect, Tasked, At, Goto, Running, TypeOK, Finished
<1>8. ASSUME Open(d) PROVE Tasked(d)'
  BY <1>0, <1>8 DEF Open, Tasked, At, Goto, Running, TypeOK, Finished
<1>9. ASSUME Write(d) PROVE Tasked(d)'
  BY <1>0, <1>9 DEF Write, Update, Tasked, At, Goto, Running, TypeOK, Finished
<1> QED BY <1>1, <1>2, <1>3, <1>4, <1>5, <1>6, <1>7, <1>8, <1>9 DEF Job

LEMMA TaskedNext ==
    ASSUME Typed, \A d \in Downloads : Tasked(d), [Next]_vars, NEW e \in Downloads
    PROVE  Tasked(e)'
<1>1. CASE UNCHANGED vars
  BY <1>1 DEF vars, jobVars, Tasked, At, Running
<1>2. ASSUME NEW d \in Downloads, Start(d) \/ Job(d) PROVE Tasked(e)'
  <2>1. CASE e = d
    BY <1>2, <2>1, JobTasked
  <2>2. CASE e # d
    BY <1>2, <2>2, JobSpares DEF Spares, Tasked, At, Running
  <2> QED BY <2>1, <2>2
<1>3. ASSUME NEW n \in Names, Delete(n) PROVE Tasked(e)'
  BY <1>3 DEF Delete, Tasked, At, Running
<1>4. CASE DeleteMetadata
  BY <1>4 DEF DeleteMetadata, jobVars, Tasked, At, Running
<1>5. ASSUME NEW d \in Downloads, Clear(d) PROVE Tasked(e)'
  BY <1>5 DEF Clear, jobVars, Tasked, At, Running, Finished
<1>6. CASE ClearUnlink
  <2>1. \/ stage'[e] = stage[e]
        \/ clearing = e /\ stage'[e] = "none"
    BY <1>6 DEF ClearUnlink, Typed, TypeOK
  <2> QED BY <1>6, <2>1 DEF ClearUnlink, jobVars, Tasked, At, Running, Downloads
<1>7. CASE Crash
  BY <1>7 DEF Crash, Tasked, At, Running, Downloads, Typed, TypeOK
<1> QED BY <1>1, <1>2, <1>3, <1>4, <1>5, <1>6, <1>7 DEF Next, AwaitRequest
-----------------------------------------------------------------------------
(* Part files.                                                             *)

\* A job that no longer holds its part file has removed or renamed it.
LEMMA JobHolds ==
    ASSUME Typed, NEW d \in Downloads, Start(d) \/ Job(d)
    PROVE  \/ pc'[d] \in Holding
           \/ pc[d] \notin Holding /\ part' = part
           \/ name[d] \in Names /\ part'[name[d]] = NoFile
<1>0. TypeOK /\ Shaped(d)
  BY DEF Typed
<1>1. ASSUME pc[d] \notin FileSteps PROVE pc[d] \notin Holding /\ part' = part
  BY <1>1, JobSpares DEF Spares, fileVars, Holding, FileSteps
<1>2. ASSUME Open(d) \/ Write(d) \/ CutShort(d) \/ Abort(d) PROVE pc'[d] \in Holding
  BY <1>0, <1>2 DEF Open, Write, Update, CutShort, Abort, Goto, At, Holding, TypeOK
<1>3. ASSUME Move(d) PROVE pc'[d] \in Holding \/ (name[d] \in Names /\ part'[name[d]] = NoFile)
  BY <1>0, <1>3 DEF Move, Goto, At, Shaped, FileSteps, Holding, TypeOK
<1>4. ASSUME Clean(d) PROVE name[d] \in Names /\ part'[name[d]] = NoFile
  BY <1>0, <1>4 DEF Clean, At, Shaped, FileSteps, TypeOK
<1>5. ASSUME Inspect(d) \/ Save(d) \/ Finish(d) \/ Check(d) \/ UnlinkFinal(d)
      PROVE  pc[d] \notin Holding /\ part' = part
  BY <1>5 DEF Inspect, Save, Finish, Check, UnlinkFinal, At, Holding, fileVars
<1> QED BY <1>1, <1>2, <1>3, <1>4, <1>5
    DEF Job, Start, Answer, GiveUp, Reply, Report, ReportAgain, Resume, Install, At, FileSteps

LEMMA HeldNext == ASSUME Typed, PartsHeld, [Next]_vars PROVE PartsHeld'
<1> SUFFICES ASSUME ~crashed', NEW n \in Names, part'[n] # NoFile
             PROVE  \E d \in Downloads : name'[d] = n /\ pc'[d] \in Holding
  BY DEF PartsHeld
<1>0. ASSUME ~crashed, part[n] # NoFile
      PROVE  \E d \in Downloads : name[d] = n /\ pc[d] \in Holding
  BY <1>0 DEF PartsHeld
<1>1. CASE UNCHANGED <<jobVars, part, crashed>>
  BY <1>0, <1>1 DEF jobVars
<1>2. ASSUME NEW d \in Downloads, Start(d) \/ Job(d)
      PROVE  \E e \in Downloads : name'[e] = n /\ pc'[e] \in Holding
  <2>1. Spares(d)
    BY <1>2, JobSpares
  <2>2. name[d] = n => name'[d] = n
    BY <2>1, NoNameIsNoName DEF Spares, Typed, Shaped, At
  <2>3. ASSUME NEW e \in Downloads, e # d, name[e] = n, pc[e] \in Holding
        PROVE  name'[e] = n /\ pc'[e] \in Holding
    BY <2>1, <2>3 DEF Spares
  <2>4. CASE name[d] = n
    <3>1. CASE pc'[d] \in Holding
      BY <2>2, <2>4, <3>1
    <3>2. CASE pc[d] \notin Holding /\ part' = part
      BY <1>0, <2>1, <2>3, <3>2 DEF Spares
    <3> QED BY <1>2, <2>4, <3>1, <3>2, JobHolds
  <2>5. CASE name[d] # n
    BY <1>0, <2>1, <2>3, <2>5 DEF Spares
  <2> QED BY <2>4, <2>5
<1>3. ASSUME NEW m \in Names, Delete(m)
      PROVE  \E d \in Downloads : name'[d] = n /\ pc'[d] \in Holding
  BY <1>0, <1>3 DEF Delete
<1> QED BY <1>1, <1>2, <1>3
    DEF Next, AwaitRequest, vars, jobVars, fileVars, DeleteMetadata, Clear, ClearUnlink, Crash
-----------------------------------------------------------------------------
(* Inodes.                                                                 *)

\* Where a job's step takes an inode: to the name it has, and the job that opens a new
\* one is its maker.
LEMMA JobPlaces ==
    ASSUME Typed, NEW d \in Downloads, Start(d) \/ Job(d)
    PROVE  /\ \A m \in Names : \/ part'[m] \in {part[m], NoFile}
                               \/ At(d, "open") /\ m = name[d] /\ part'[m] = d
           /\ \A m \in Names : final'[m] \in {final[m], NoFile, part[m]}
           /\ \/ handle'[d] = handle[d]
              \/ At(d, "open") /\ name[d] \in Names /\ handle'[d] \in {d, part[name[d]]}
           /\ pc'[d] \in {"idle", "poll", "open"} =>
                 pc[d] \in {"idle", "poll"} /\ handle'[d] = handle[d]
<1>0. TypeOK /\ Shaped(d)
  BY DEF Typed
<1>1. ASSUME Open(d)
      PROVE  /\ \A m \in Names : \/ part'[m] = part[m]
                                 \/ m = name[d] /\ part'[m] = d
             /\ final' = final /\ At(d, "open") /\ name[d] \in Names
             /\ handle'[d] \in {d, part[name[d]]} /\ pc'[d] = "write"
  <2> DEFINE i == IF part[name[d]] = NoFile THEN d ELSE part[name[d]]
  <2>1. /\ part' = [part EXCEPT ![name[d]] = i] /\ handle' = [handle EXCEPT ![d] = i]
        /\ final' = final /\ At(d, "open") /\ Goto(d, "write")
    BY <1>1 DEF Open
  <2>2. i \in {d, part[name[d]]} /\ (part[name[d]] # NoFile => i = part[name[d]])
        /\ (part[name[d]] = NoFile => i = d)
    OBVIOUS
  <2> HIDE DEF i
  <2>3. name[d] \in Names /\ pc'[d] = "write" /\ handle'[d] = i
    BY <1>0, <2>1 DEF TypeOK, Goto, Shaped, At, FileSteps
  <2>4. \A m \in Names : part'[m] = part[m] \/ (m = name[d] /\ part'[m] = d)
    <3>1. part \in [Names -> Downloads \cup {NoFile}]
      BY <1>0 DEF TypeOK
    <3>2. \A m \in Names : part'[m] = IF m = name[d] THEN i ELSE part[m]
      BY <2>1, <2>3, <3>1
    <3> QED BY <2>2, <3>2
  <2> QED BY <2>1, <2>2, <2>3, <2>4
<1>2. ASSUME Move(d)
      PROVE  /\ \A m \in Names : part'[m] \in {part[m], NoFile}
             /\ \A m \in Names : final'[m] \in {final[m], part[m]}
             /\ handle' = handle /\ pc'[d] \in {"clean", "inspect"}
  BY <1>0, <1>2 DEF Move, TypeOK, Goto, UnchangedJob
<1>3. ASSUME Clean(d)
      PROVE  /\ \A m \in Names : part'[m] \in {part[m], NoFile}
             /\ final' = final /\ handle' = handle /\ pc'[d] = "check"
  BY <1>0, <1>3 DEF Clean, TypeOK, Goto, UnchangedJob
<1>4. ASSUME UnlinkFinal(d)
      PROVE  /\ \A m \in Names : final'[m] \in {final[m], NoFile}
             /\ part' = part /\ handle' = handle /\ pc'[d] = "report"
  BY <1>0, <1>4 DEF UnlinkFinal, TypeOK, Goto, UnchangedJob
<1>5. ASSUME Write(d) \/ CutShort(d) \/ Abort(d) \/ Inspect(d) \/ Save(d) \/ Finish(d)
                \/ Check(d) \/ Answer(d) \/ GiveUp(d) \/ Report(d) \/ ReportAgain(d)
                \/ Resume(d) \/ Install(d)
      PROVE  /\ part' = part /\ final' = final /\ handle' = handle
             /\ pc'[d] \notin {"idle", "poll", "open"}
  BY <1>0, <1>5
  DEF Write, CutShort, Abort, Inspect, Save, Finish, Check, Answer, GiveUp, Report,
      ReportAgain, Resume, Install, Update, TypeOK, Goto, UnchangedJob, fileVars
<1>6. ASSUME NEW n \in Names, Reply(d, n)
      PROVE  part' = part /\ final' = final /\ handle' = handle /\ pc[d] = "poll"
  BY <1>6 DEF Reply, At, fileVars
<1>7. ASSUME Start(d)
      PROVE  part' = part /\ final' = final /\ handle' = handle /\ pc[d] = "idle"
  BY <1>7 DEF Start, At, fileVars, UnchangedJob
<1>8. CASE Job(d) /\ ~\E n \in Names : Reply(d, n)
  BY <1>1, <1>2, <1>3, <1>4, <1>5, <1>8 DEF Job
<1> QED BY <1>6, <1>7, <1>8

LEMMA FreshNext ==
    ASSUME Typed, \A d \in Downloads : Fresh(d), [Next]_vars, NEW e \in Downloads
    PROVE  Fresh(e)'
<1>0. Fresh(e) /\ e # NoFile
  BY DEF Downloads, NoFile
<1>1. CASE UNCHANGED <<pc, handle, part, final>>
  BY <1>0, <1>1 DEF Fresh
<1>2. ASSUME NEW d \in Downloads, Start(d) \/ Job(d) PROVE Fresh(e)'
  <2>1. Spares(d)
    BY <1>2, JobSpares
  <2>2. CASE e = d
    <3>1. SUFFICES ASSUME pc'[d] \in {"idle", "poll", "open"} PROVE Fresh(e)'
      BY <2>2 DEF Fresh
    <3>2. pc[d] \in {"idle", "poll"} /\ handle'[d] = handle[d] /\ part' = part /\ final' = final
      BY <1>2, <2>1, <3>1, JobPlaces DEF Spares, fileVars, FileSteps
    <3> QED BY <1>0, <2>1, <2>2, <3>2 DEF Fresh, Spares
  <2>3. CASE e # d
    <3>1. SUFFICES ASSUME pc[e] \in {"idle", "poll", "open"} PROVE Fresh(e)'
      BY <2>1, <2>3 DEF Fresh, Spares
    <3>2. \A m \in Names : part'[m] # e /\ final'[m] # e
      BY <1>0, <1>2, <2>3, <3>1, JobPlaces DEF Fresh
    <3>3. handle'[d] # e
      BY <1>0, <1>2, <2>3, <3>1, JobPlaces DEF Fresh
    <3> QED BY <1>0, <2>1, <2>3, <3>1, <3>2, <3>3 DEF Fresh, Spares
  <2> QED BY <2>2, <2>3
<1>3. ASSUME NEW n \in Names, Delete(n) PROVE Fresh(e)'
  BY <1>0, <1>3 DEF Delete, Fresh, Typed, TypeOK
<1>4. CASE Crash
  BY <1>0, <1>4 DEF Crash, Fresh, fileVars, UnchangedJob
<1> QED BY <1>1, <1>2, <1>3, <1>4
    DEF Next, AwaitRequest, vars, jobVars, fileVars, DeleteMetadata, Clear, ClearUnlink

LEMMA PlacedNext ==
    ASSUME Typed, \A d \in Downloads : Fresh(d), Placed, [Next]_vars PROVE Placed'
<1> USE DEF NoFile
<1>0. TypeOK
  BY DEF Typed
<1>1. CASE UNCHANGED <<name, handle, part, final>>
  BY <1>1 DEF Placed
<1>2. ASSUME NEW d \in Downloads, Start(d) \/ Job(d) PROVE Placed'
  <2>1. Spares(d)
    BY <1>2, JobSpares
  <2>2. At(d, "poll") => Fresh(d)
    OBVIOUS
  <2>3. \A e \in Downloads : e # d \/ ~At(d, "poll") => name'[e] = name[e]
    BY <2>1 DEF Spares
  <2>4. ASSUME NEW m \in Names
        PROVE  /\ part'[m] # NoFile => name'[part'[m]] = m
               /\ final'[m] \in Downloads => name'[final'[m]] = m
               /\ final'[m] \in Names => final'[m] = m
    <3>1. part[m] \in Downloads \cup {0} /\ 0 \notin Names /\ 0 \notin Downloads
      BY <1>0, BoundIsNatural, NamesAreNotNumbers DEF TypeOK, Downloads
    <3>2. /\ part[m] # NoFile => name[part[m]] = m
          /\ final[m] \in Downloads => name[final[m]] = m
      BY DEF Placed
    <3>3. /\ part[m] # NoFile => name'[part[m]] = m
          /\ final[m] \in Downloads => name'[final[m]] = m
      BY <2>2, <2>3, <3>1, <3>2 DEF Fresh, At
    <3>4. part[m] \notin Names
      BY <3>1, NamesAreNotNumbers DEF Downloads
    <3>5. final[m] \in Names => final[m] = m
      BY DEF Placed
    <3>6. /\ part'[m] \in {part[m], NoFile} \/ (At(d, "open") /\ m = name[d] /\ part'[m] = d)
          /\ final'[m] \in {final[m], NoFile, part[m]}
      BY <1>2, JobPlaces
    <3>7. part'[m] # NoFile => name'[part'[m]] = m
      BY <2>3, <3>3, <3>6 DEF At
    <3>8. final'[m] \in Downloads => name'[final'[m]] = m
      BY <3>1, <3>3, <3>6
    <3>9. final'[m] \in Names => final'[m] = m
      BY <3>1, <3>4, <3>5, <3>6
    <3> QED BY <3>7, <3>8, <3>9
  <2>5. ASSUME NEW e \in Downloads, handle'[e] # NoFile PROVE name'[handle'[e]] = name'[e]
    <3>1. handle[e] \in Downloads \cup {0}
      BY <1>0 DEF TypeOK, Downloads
    <3>2. ASSUME handle'[e] = handle[e] PROVE name'[handle'[e]] = name'[e]
      <4>1. handle[e] \in Downloads /\ name[handle[e]] = name[e]
        BY <2>5, <3>1, <3>2 DEF Placed
      <4>2. At(d, "poll") => handle[e] # d /\ e # d
        BY <2>2, <4>1 DEF Fresh, At, Downloads
      <4> QED BY <2>3, <3>2, <4>1, <4>2
    <3>3. ASSUME e = d, At(d, "open"), name[d] \in Names, handle'[d] \in {d, part[name[d]]}
          PROVE  name'[handle'[e]] = name'[e]
      <4>1. part[name[d]] \in Downloads \cup {0}
        BY <1>0, <3>3 DEF TypeOK
      <4> QED BY <2>3, <2>5, <3>3, <4>1 DEF At, Placed
    <3> QED BY <1>2, <2>1, <3>2, <3>3, JobPlaces DEF Spares
  <2> QED BY <2>4, <2>5 DEF Placed
<1>3. ASSUME NEW n \in Names, Delete(n) PROVE Placed'
  <2>1. \A m \in Names : final'[m] \in {final[m], NoFile}
    BY <1>0, <1>3 DEF Delete, TypeOK
  <2>2. 0 \notin Names /\ 0 \notin Downloads
    BY BoundIsNatural, NamesAreNotNumbers DEF Downloads
  <2> QED BY <1>3, <2>1, <2>2 DEF Delete, Placed
<1> QED BY <1>1, <1>2, <1>3
    DEF Next, AwaitRequest, vars, jobVars, fileVars, DeleteMetadata, Clear, ClearUnlink, Crash,
        UnchangedJob

\* Metadata that describes a download was saved by it.
LEMMA UnsavedNext ==
    ASSUME Typed, [Next]_vars, NEW e \in Downloads, Unsaved(e) PROVE Unsaved(e)'
<1>0. TypeOK
  BY DEF Typed
<1>1. CASE UNCHANGED <<pc, meta>>
  BY <1>1 DEF Unsaved
<1>2. ASSUME NEW d \in Downloads, Start(d) \/ Job(d) PROVE Unsaved(e)'
  <2>1. CASE e # d
    <3>1. \A n \in Names : meta'[n] \in {meta[n], d}
      BY <1>0, <1>2
      DEF Start, Job, Answer, GiveUp, Reply, Open, Write, CutShort, Abort, Move, Inspect, Save,
          Finish, Clean, Check, UnlinkFinal, Report, ReportAgain, Resume, Install, TypeOK,
          fileVars
    <3> QED BY <1>2, <2>1, <3>1, JobSpares DEF Spares, Unsaved
  <2>2. CASE e = d
    <3>1. CASE Save(d)
      BY <1>0, <2>2, <3>1 DEF Save, Goto, TypeOK, Unsaved, At
    <3>2. CASE ~Save(d)
      <4>1. meta' = meta
        BY <1>2, <3>2
        DEF Start, Job, Answer, GiveUp, Reply, Open, Write, CutShort, Abort, Move, Inspect,
            Finish, Clean, Check, UnlinkFinal, Report, ReportAgain, Resume, Install, fileVars
      <4>2. pc'[d] \in {"idle", "poll", "open", "write", "rest", "move", "inspect", "save"} =>
               pc[d] \in {"idle", "poll", "open", "write", "rest", "move", "inspect", "save"}
        BY <1>0, <1>2, <3>2
        DEF Start, Job, Answer, GiveUp, Reply, Open, Write, CutShort, Abort, Move, Inspect,
            Finish, Clean, Check, UnlinkFinal, Report, ReportAgain, Resume, Install, Update,
            Goto, TypeOK, At
      <4> QED BY <2>2, <4>1, <4>2 DEF Unsaved
    <3> QED BY <3>1, <3>2
  <2> QED BY <2>1, <2>2
<1>3. CASE DeleteMetadata
  BY <1>0, <1>3 DEF DeleteMetadata, TypeOK, Unsaved, jobVars, Downloads
<1>4. CASE Crash
  BY <1>0, <1>4 DEF Crash, TypeOK, Unsaved, fileVars
<1> QED BY <1>1, <1>2, <1>3, <1>4
    DEF Next, AwaitRequest, vars, jobVars, fileVars, Delete, Clear, ClearUnlink
-----------------------------------------------------------------------------
(* Downloads that have their name to themselves.                           *)

\* A job gets a name by Reply only.
LEMMA JobEnters ==
    ASSUME Typed, NEW d \in Downloads, Start(d) \/ Job(d), pc'[d] \in FileSteps
    PROVE  pc[d] \in FileSteps \/ \E n \in Names : Reply(d, n)
<1>0. TypeOK
  BY DEF Typed
<1>1. ASSUME \/ Start(d) \/ Answer(d) \/ GiveUp(d) \/ Report(d)
             \/ ReportAgain(d) \/ Resume(d) \/ Install(d)
      PROVE  FALSE
  BY <1>0, <1>1 DEF Start, Answer, GiveUp, Report, ReportAgain, Resume, Install, Update,
     Goto, TypeOK, FileSteps
<1>2. ASSUME Open(d) \/ Write(d) \/ CutShort(d) \/ Abort(d) \/ Move(d) \/ Inspect(d) \/ Save(d)
                \/ Finish(d) \/ Clean(d) \/ Check(d) \/ UnlinkFinal(d)
      PROVE  pc[d] \in FileSteps
  BY <1>2 DEF Open, Write, CutShort, Abort, Move, Inspect, Save, Finish, Clean, Check,
     UnlinkFinal, At, FileSteps
<1> QED BY <1>1, <1>2 DEF Job

\* What such a job finds at each step is what it left there.
LEMMA JobSolo ==
    ASSUME Typed, NEW d \in Downloads, Solo(d), pc[d] \in FileSteps, Job(d)
    PROVE  Solo(d)'
<1> DEFINE n == name[d]
           h == handle[d]
<1>0. TypeOK /\ Shaped(d) /\ n \in Names /\ name'[d] = n
  <2>1. Spares(d)
    BY JobSpares
  <2> QED BY <2>1 DEF Typed, Shaped, Spares, At, FileSteps
<1>1. CASE Open(d)
  <2> DEFINE i == IF part[n] = NoFile THEN d ELSE part[n]
  <2>1. /\ part' = [part EXCEPT ![n] = i] /\ handle' = [handle EXCEPT ![d] = i]
        /\ content' = [content EXCEPT ![i] = Both(0)] /\ Goto(d, "write")
    BY <1>1 DEF Open
  <2>2. i \in Downloads
    BY <1>0 DEF TypeOK
  <2> HIDE DEF i
  <2>3. part'[n] = i /\ handle'[d] = i /\ content'[i] = Both(0) /\ pc'[d] = "write"
    BY <1>0, <2>1, <2>2 DEF TypeOK, Goto, Inode
  <2>4. Both(0)[2] = 0
    BY DEF Both
  <2> QED BY <1>0, <2>3, <2>4 DEF Solo, At
<1>2. CASE Write(d)
  <2> DEFINE half == IF At(d, "write") THEN 1 ELSE 2
  <2>1. /\ handle' = handle /\ part' = part
        /\ content' = [content EXCEPT ![h][half] = d]
    BY <1>2 DEF Write, UnchangedJob
  <2>2. h \in Downloads /\ part[n] = h /\ half \in 1..2
    BY <1>0, <1>2 DEF Write, At, Shaped, Solo
  <2>3. /\ content[h] \in [1..2 -> Inode \cup {0}]
        /\ content'[h] = [content[h] EXCEPT ![half] = d]
    BY <1>0, <2>1, <2>2 DEF TypeOK, Inode
  <2>4. CASE At(d, "write")
    <3>1. content'[h][1] = d /\ content'[h][2] = 0
      BY <2>3, <2>4 DEF Solo, At, Inode
    <3>2. pc'[d] \in {"rest", "clean"}
      BY <1>0, <1>2, <2>4 DEF Write, Update, Goto, At, TypeOK
    <3> QED BY <1>0, <2>1, <2>2, <3>1, <3>2 DEF Solo, At
  <2>5. CASE At(d, "rest")
    <3>1. content'[h][1] = d /\ content'[h][2] = d
      BY <2>3, <2>5 DEF Solo, At, Inode
    <3>2. pc'[d] \in {"move", "clean"}
      BY <1>0, <1>2, <2>5 DEF Write, Update, Goto, At, TypeOK
    <3> QED BY <1>0, <2>1, <2>2, <3>1, <3>2 DEF Solo, At
  <2> QED BY <1>2, <2>4, <2>5 DEF Write
<1>3. CASE CutShort(d)
  BY <1>0, <1>3 DEF CutShort, Solo, Goto, At, TypeOK, UnchangedJob, fileVars
<1>4. CASE Move(d)
  <2>1. h \in Downloads /\ part[n] = h /\ h # NoFile
    BY <1>0, <1>4 DEF Move, At, Shaped, Solo, Downloads, NoFile
  <2>2. pc'[d] = "inspect" => final'[n] = h /\ content' = content /\ handle' = handle
    BY <1>0, <1>4, <2>1 DEF Move, Goto, TypeOK, UnchangedJob
  <2>3. pc'[d] = "inspect"
    BY <1>0, <1>4, <2>1 DEF Move, Goto, TypeOK
  <2> QED BY <1>0, <1>4, <2>1, <2>2, <2>3 DEF Move, At, Solo
<1>5. CASE Inspect(d)
  <2>1. final[n] = h /\ h \in Downloads /\ UNCHANGED <<final, content, handle>>
    BY <1>5 DEF Inspect, At, Solo, fileVars, UnchangedJob
  <2>2. CASE content[final[n]][2] # 0 /\ Goto(d, "save")
    BY <1>0, <1>5, <2>1, <2>2 DEF Inspect, Goto, TypeOK, At, Solo
  <2>3. CASE Goto(d, "clean")
    BY <1>0, <2>3 DEF Goto, TypeOK, Solo, At
  <2> QED BY <1>5, <2>2, <2>3 DEF Inspect
<1>6. CASE Save(d)
  <2>1. UNCHANGED <<final, content, handle>> /\ pc'[d] \in {"finish", "clean"}
    BY <1>0, <1>6 DEF Save, Goto, TypeOK, UnchangedJob
  <2>2. pc'[d] = "finish" => meta'[n] = d
    BY <1>0, <1>6 DEF Save, Goto, TypeOK
  <2> QED BY <1>0, <1>6, <2>1, <2>2 DEF Save, At, Solo
<1>7. CASE Finish(d)
  <2>1. pc'[d] \in {"ended", "resume", "clean"}
    BY <1>0, <1>7 DEF Finish, Update, Goto, TypeOK
  <2> QED BY <2>1 DEF Solo, At
<1>8. CASE Abort(d) \/ Clean(d) \/ Check(d) \/ UnlinkFinal(d)
  <2>1. pc'[d] \in {"clean", "check", "unlink", "report"}
    BY <1>0, <1>8 DEF Abort, Clean, Check, UnlinkFinal, Goto, TypeOK
  <2> QED BY <2>1 DEF Solo, At
<1> QED BY <1>1, <1>2, <1>3, <1>4, <1>5, <1>6, <1>7, <1>8
    DEF Job, Answer, GiveUp, Reply, Report, ReportAgain, Resume, Install, At, FileSteps

\* Another job's steps do not disturb it.
LEMMA OthersSolo ==
    ASSUME Typed, Placed, Placed', NEW d \in Downloads, Start(d) \/ Job(d),
           NEW e \in Downloads, e # d, pc[e] \in FileSteps, Solo(e),
           pc[d] \in FileSteps => name[d] # name[e]
    PROVE  Solo(e)'
<1> DEFINE n == name[e]
           h == handle[e]
<1>0. TypeOK /\ Shaped(e) /\ n \in Names /\ Spares(d)
  BY JobSpares DEF Typed, Shaped
<1>1. UNCHANGED <<pc[e], name[e], handle[e], part[n], final[n], meta[n]>>
  BY <1>0 DEF Spares, fileVars
<1>2. ASSUME h \in Downloads PROVE content'[h] = content[h]
  <2>1. CASE pc[d] \notin FileSteps
    BY <1>0, <2>1 DEF Spares, fileVars
  <2>2. CASE pc[d] \in FileSteps
    <3>1. name[h] = n /\ UNCHANGED name /\ h # NoFile
      BY <1>0, <1>2, <2>2 DEF Placed, Downloads, NoFile, Spares, At, FileSteps
    <3>2. h # handle'[d]
      BY <2>2, <3>1 DEF Placed
    <3> QED BY <1>0, <1>2, <3>2 DEF Spares, Inode
  <2> QED BY <2>1, <2>2
<1>3. pc[e] \in {"write", "rest", "move", "inspect", "save", "finish"} => h \in Downloads
  BY <1>0 DEF Shaped, Solo
<1> QED BY <1>1, <1>2, <1>3 DEF Solo, At

LEMMA AloneNext ==
    ASSUME Typed, Placed, Placed', \A d \in Downloads : Alone(d), [Next]_vars,
           NEW e \in Downloads
    PROVE  Alone(e)'
<1> SUFFICES ASSUME pc'[e] \in FileSteps, alone'[e]
             PROVE  /\ deleting' # name'[e]
                    /\ \A f \in Downloads :
                          f # e /\ name'[f] = name'[e] => pc'[f] \notin FileSteps
                    /\ Solo(e)'
  BY DEF Alone
<1>0. TypeOK /\ \A d \in Downloads : Shaped(d)
  BY DEF Typed
<1>1. CASE UNCHANGED <<jobVars, fileVars, deleting>>
  BY <1>1 DEF jobVars, fileVars, Alone, Solo, At
<1>2. ASSUME NEW d \in Downloads, Start(d) \/ Job(d), e = d
      PROVE  /\ deleting' # name'[e]
             /\ \A f \in Downloads : f # e /\ name'[f] = name'[e] => pc'[f] \notin FileSteps
             /\ Solo(e)'
  <2>1. Spares(d)
    BY <1>2, JobSpares
  <2>2. CASE pc[d] \in FileSteps
    <3>1. Alone(d) /\ alone[d] /\ name' = name
      BY <1>2, <2>1, <2>2 DEF Spares, At, FileSteps
    <3>2. Job(d)
      BY <1>2, <2>2 DEF Start, At, FileSteps
    <3> QED BY <1>2, <2>1, <2>2, <3>1, <3>2, JobSolo DEF Alone, Spares
  <2>3. ASSUME NEW n \in Names, Reply(d, n)
        PROVE  /\ deleting' # name'[e]
               /\ \A f \in Downloads : f # e /\ name'[f] = name'[e] => pc'[f] \notin FileSteps
               /\ Solo(e)'
    <3>1. /\ name'[d] = n /\ pc'[d] = "open" /\ deleting' = deleting
          /\ On(n) = {} /\ deleting # n
      BY <1>0, <1>2, <2>3 DEF Reply, Goto, TypeOK, UnchangedService
    <3>2. Solo(d)'
      BY <3>1 DEF Solo, At
    <3> QED BY <1>2, <2>1, <3>1, <3>2 DEF Spares, On
  <2> QED BY <1>2, <2>2, <2>3, JobEnters
<1>3. ASSUME NEW d \in Downloads, Start(d) \/ Job(d), e # d
      PROVE  /\ deleting' # name'[e]
             /\ \A f \in Downloads : f # e /\ name'[f] = name'[e] => pc'[f] \notin FileSteps
             /\ Solo(e)'
  <2>1. Spares(d)
    BY <1>3, JobSpares
  <2>2. pc[e] \in FileSteps /\ alone[e] /\ Alone(e) /\ name'[e] = name[e]
    BY <1>3, <2>1 DEF Spares
  <2>3. Solo(e)'
    BY <1>3, <2>2, OthersSolo DEF Alone
  <2>4. name'[d] = name'[e] => pc'[d] \notin FileSteps
    <3>1. CASE pc[d] \in FileSteps
      BY <1>3, <2>1, <2>2, <3>1 DEF Alone, Spares, At, FileSteps
    <3>2. ASSUME NEW n \in Names, Reply(d, n)
          PROVE  name'[d] # name'[e]
      BY <1>0, <1>3, <2>2, <3>2 DEF Reply, On, TypeOK
    <3> QED BY <1>3, <3>1, <3>2, JobEnters
  <2> QED BY <1>3, <2>1, <2>2, <2>3, <2>4 DEF Alone, Spares
<1>4. ASSUME NEW n \in Names, Delete(n)
      PROVE  /\ deleting' # name'[e]
             /\ \A f \in Downloads : f # e /\ name'[f] = name'[e] => pc'[f] \notin FileSteps
             /\ Solo(e)'
  <2>1. Alone(e) /\ alone[e] /\ pc[e] \in FileSteps /\ name[e] # n
    BY <1>4 DEF Delete, On
  <2>2. final'[name[e]] = final[name[e]]
    BY <1>0, <1>4, <2>1 DEF Delete, TypeOK, Shaped
  <2> QED BY <1>4, <2>1, <2>2 DEF Delete, Alone, Solo, At
<1>5. CASE DeleteMetadata
  <2>1. Alone(e) /\ alone[e] /\ pc[e] \in FileSteps /\ name[e] \in Names
    BY <1>0, <1>5 DEF DeleteMetadata, jobVars, Shaped
  <2>2. meta'[name[e]] = meta[name[e]]
    BY <1>0, <1>5, <2>1 DEF DeleteMetadata, TypeOK, Alone
  <2> QED BY <1>5, <2>1, <2>2, NoNameIsNoName DEF DeleteMetadata, jobVars, Alone, Solo, At
<1>6. CASE Crash
  BY <1>6 DEF Crash, Running, FileSteps
<1> QED BY <1>1, <1>2, <1>3, <1>4, <1>5, <1>6
    DEF Next, AwaitRequest, vars, Clear, ClearUnlink
-----------------------------------------------------------------------------
(* The library.                                                            *)

\* A step that does nothing to the files and the downloads of a name.
Keeps(n) ==
    /\ final'[n] = final[n] /\ meta'[n] = meta[n] /\ (deleting' = n <=> deleting = n)
    /\ final[n] # NoFile => content'[final[n]] = content[final[n]]
    /\ crashed => crashed'
    /\ failed \subseteq failed'
    /\ \A e \in Downloads : name'[e] = n <=> name[e] = n
    /\ \A e \in Downloads : name[e] = n =>
          /\ pc'[e] \in FileSteps \/ pc[e] \in FileSteps => pc'[e] = pc[e]
          /\ handle'[e] = handle[e]
          /\ alone'[e] => alone[e]

LEMMA KeepsTruth ==
    ASSUME NEW n \in Names, final'[n] = final[n], meta'[n] = meta[n],
           final[n] # NoFile => content'[final[n]] = content[final[n]],
           Replaced(n) => Replaced(n)', Truthful(n)
    PROVE  Truthful(n)'
BY DEF Truthful, Both

LEMMA KeepsListed ==
    ASSUME TypeOK, NEW n \in Names, Keeps(n), Listed(n) PROVE Listed(n)'
<1>1. Replaced(n) => Replaced(n)'
  BY DEF Keeps, Replaced, TypeOK
<1>2. Undisturbed(n)' => Undisturbed(n)
  BY DEF Keeps, Undisturbed
<1>3. On(n)' = On(n)
  BY DEF Keeps, On
<1>4. Truthful(n) => Truthful(n)'
  BY <1>1, KeepsTruth DEF Keeps
<1>5. ASSUME NEW d \in On(n), Leaves(d, n) PROVE Leaves(d, n)'
  <2>1. d \in Downloads /\ pc'[d] = pc[d] /\ handle'[d] = handle[d]
    BY DEF On, Keeps
  <2> QED BY <1>4, <1>5, <2>1 DEF Leaves, Keeps, At
<1>6. deleting' = n <=> deleting = n
  BY DEF Keeps
<1>7. final'[n] = final[n]
  BY DEF Keeps
<1> QED BY <1>2, <1>3, <1>4, <1>5, <1>6, <1>7 DEF Listed

\* A job does nothing to a name that is not its own.
LEMMA JobKeeps ==
    ASSUME Typed, Placed, Placed', NEW d \in Downloads, Start(d) \/ Job(d),
           NEW n \in Names, name[d] # n, name'[d] # n
    PROVE  Keeps(n)
<1>0. TypeOK /\ Spares(d) /\ Typed'
  BY JobSpares, TypedNext DEF Typed, Next
<1>1. /\ UNCHANGED <<final[n], meta[n], deleting, crashed>>
      /\ \A e \in Downloads : e # d =>
            /\ UNCHANGED <<pc[e], name[e], handle[e], stage[e]>>
            /\ alone'[e] => alone[e]
  BY <1>0 DEF Spares
<1>2. ASSUME final[n] # NoFile PROVE content'[final[n]] = content[final[n]]
  <2>1. CASE pc[d] \notin FileSteps
    BY <1>0, <2>1 DEF Spares, fileVars
  <2>2. CASE pc[d] \in FileSteps
    <3>1. /\ final[n] \in Inode /\ UNCHANGED name
          /\ final[n] \in Downloads => name[final[n]] = n
      BY <1>0, <1>2, <2>2 DEF TypeOK, Entry, Placed, Spares, At, FileSteps
    <3>2. final[n] # handle'[d]
      <4>1. handle'[d] # NoFile => handle'[d] \in Downloads /\ handle'[d] \notin Names
        BY <1>0, NamesAreNotNumbers DEF Typed, TypeOK, Downloads
      <4>2. handle'[d] # NoFile => name'[handle'[d]] # n
        BY DEF Placed
      <4> QED BY <1>2, <3>1, <4>1, <4>2 DEF Inode
    <3> QED BY <1>0, <3>1, <3>2 DEF Spares
  <2> QED BY <2>1, <2>2
<1> QED BY <1>0, <1>1, <1>2 DEF Keeps, Spares

\* Nor does a job past its download.
LEMMA PastKeeps ==
    ASSUME Typed, NEW d \in Downloads, Tasked(d), Start(d) \/ Job(d),
           NEW n \in Names, name[d] = n, pc[d] \notin FileSteps
    PROVE  Keeps(n)
<1>0. TypeOK /\ Spares(d) /\ ~At(d, "idle") /\ ~At(d, "poll")
  BY NoNameIsNoName, JobSpares DEF Typed, Shaped, At
<1>1. /\ UNCHANGED <<fileVars, deleting, crashed, name, alone>> /\ handle'[d] = handle[d]
      /\ \A e \in Downloads : e # d => UNCHANGED <<pc[e], handle[e], stage[e]>>
  BY <1>0 DEF Spares
<1>2. pc'[d] \notin FileSteps
  BY <1>0, JobEnters DEF Reply
<1>3. Report(d) \/ ReportAgain(d) \/ Resume(d) \/ Install(d)
  BY <1>0 DEF Start, Job, Answer, GiveUp, Open, Write, CutShort, Reply, Abort, Move, Inspect,
     Save, Finish, Clean, Check, UnlinkFinal, At, FileSteps
<1> QED BY <1>0, <1>1, <1>2 DEF Keeps, Spares, fileVars, At

\* A download that has its name to itself leaves the truth about it.
LEMMA OwnListed ==
    ASSUME LibraryInv, NEW d \in Downloads, pc[d] \in FileSteps, Job(d),
           NEW n \in Names, name[d] = n, Undisturbed(n)
    PROVE  Listed(n)'
<1> DEFINE h == handle[d]
<1> USE DEF NoFile
<1>0. /\ TypeOK /\ Shaped(d) /\ Spares(d) /\ n \in Names /\ Tasked(d) /\ Fresh(d) /\ Unsaved(d)
      /\ Placed /\ PartsHeld /\ Listed(n)
  BY JobSpares DEF LibraryInv, Typed, Shaped
<1>1. /\ deleting # n /\ alone[d] /\ Solo(d)
      /\ \A e \in Downloads : e # d /\ name[e] = n => pc[e] \notin FileSteps
  BY DEF LibraryInv, Alone, Undisturbed
<1>2. Leaves(d, n)
  BY <1>0 DEF Listed, On
<1>3. /\ name' = name /\ deleting' = deleting
      /\ \A e \in Downloads : e # d => UNCHANGED <<pc[e], handle[e], stage[e]>>
  BY <1>0 DEF Spares, At, FileSteps
<1>4. SUFFICES /\ pc'[d] \notin FileSteps => Truthful(n)'
               /\ pc'[d] \in FileSteps => Leaves(d, n)'
  <2>1. On(n)' \subseteq {d} /\ (On(n)' # {} => pc'[d] \in FileSteps)
        /\ (On(n)' = {} => pc'[d] \notin FileSteps)
    BY <1>1, <1>3 DEF On
  <2>2. deleting' # n
    BY <1>1, <1>3
  <2> QED BY <1>3, <1>4, <2>1, <2>2 DEF Listed
\* A step that leaves a file as it was leaves the truth about it.
<1>5. ASSUME final'[n] = final[n], meta'[n] = meta[n], handle'[d] = h \/ h = NoFile,
             final[n] # NoFile => content'[final[n]] = content[final[n]], Truthful(n)
      PROVE  Truthful(n)'
  <2>1. CASE final[n] = NoFile
    BY <1>5, <2>1 DEF Truthful
  <2>2. CASE final[n] # NoFile
    <3>1. ASSUME Replaced(n) PROVE Replaced(n)'
      <4>1. PICK f \in failed : name[f] = n /\ handle[f] = final[n] /\ meta[n] # f
        BY <3>1 DEF Replaced
      <4>2. f \in Downloads /\ f \in failed' /\ handle'[f] = handle[f]
        BY <1>0, <1>3, <1>5, <2>2, <4>1 DEF TypeOK, Spares
      <4> QED BY <1>3, <1>5, <3>1, <4>1, <4>2 DEF Replaced
    <3> QED BY <1>5, <2>2, <3>1, KeepsTruth
  <2> QED BY <2>1, <2>2
<1>6. h # NoFile /\ final[n] # h /\ final[n] # NoFile /\ handle' = handle =>
          content'[final[n]] = content[final[n]]
  BY <1>0 DEF TypeOK, Entry, Spares
<1>7. stage[d] \notin Finished \cup {"none"}
  BY <1>0 DEF Tasked, Running, FileSteps
<1>8. CASE Open(d)
  <2> DEFINE i == IF part[n] = NoFile THEN d ELSE part[n]
  <2>1. part[n] = NoFile
    BY <1>0, <1>1, <1>8 DEF PartsHeld, Holding, Open, At, FileSteps, Undisturbed
  <2>2. /\ handle' = [handle EXCEPT ![d] = d] /\ content' = [content EXCEPT ![d] = Both(0)]
        /\ UNCHANGED <<final, meta, stage>> /\ Goto(d, "write")
    BY <1>8, <2>1 DEF Open
  <2>3. handle'[d] = d /\ h = NoFile /\ final[n] # d /\ Truthful(n)
    BY <1>0, <1>2, <1>8, <2>2 DEF TypeOK, Fresh, Open, At, Leaves
  <2>4. final[n] # NoFile => content'[final[n]] = content[final[n]]
    BY <1>0, <2>2, <2>3 DEF TypeOK, Entry, Inode
  <2>5. Truthful(n)'
    BY <1>5, <2>2, <2>3, <2>4
  <2>6. pc'[d] = "write"
    BY <1>0, <2>2 DEF Goto, TypeOK
  <2> QED BY <2>2, <2>3, <2>5, <2>6 DEF Leaves, FileSteps, At
<1>9. CASE Write(d)
  <2>1. /\ UNCHANGED <<final, meta, handle>> /\ Truthful(n) /\ final[n] # h /\ h # NoFile
    BY <1>0, <1>2, <1>9 DEF Write, UnchangedJob, At, Leaves, Shaped, Downloads
  <2>2. Truthful(n)'
    BY <1>5, <1>6, <2>1
  <2>3. pc'[d] \in {"rest", "move", "clean"}
    BY <1>0, <1>9 DEF Write, Update, Goto, TypeOK
  <2> QED BY <2>1, <2>2, <2>3 DEF Leaves, FileSteps, At
<1>10. CASE CutShort(d) \/ Abort(d)
  <2>1. /\ UNCHANGED <<fileVars, handle>> /\ Truthful(n)
        /\ pc[d] \in {"open", "write", "rest", "move"}
        /\ pc'[d] = "clean" \/ (pc'[d] = "move" /\ pc[d] = "rest")
    BY <1>0, <1>2, <1>10 DEF CutShort, Abort, UnchangedJob, At, Leaves, Goto, TypeOK
  <2>2. Truthful(n)'
    BY <1>5, <2>1 DEF fileVars
  <2>3. pc[d] = "rest" => final'[n] # handle'[d]
    BY <1>2, <2>1 DEF Leaves, fileVars
  <2> QED BY <2>1, <2>2, <2>3 DEF Leaves, FileSteps, At
<1>11. CASE Move(d)
  <2>1. part[n] = h /\ h \in Downloads
    BY <1>0, <1>1, <1>11 DEF Move, At, Solo, Shaped
  <2>2. pc'[d] = "inspect"
    <3>1. part[name[d]] # NoFile
      BY <2>1 DEF Downloads
    <3> QED BY <1>0, <1>11, <3>1 DEF Move, Goto, TypeOK
  <2> QED BY <2>2 DEF Leaves, FileSteps, At
<1>12. CASE Inspect(d)
  <2>1. /\ UNCHANGED <<fileVars, handle>> /\ pc'[d] \in {"save", "clean"}
        /\ final[n] = h /\ h # NoFile /\ meta[n] # d
    <3>1. UNCHANGED <<fileVars, handle>> /\ pc'[d] \in {"save", "clean"}
      BY <1>0, <1>12 DEF Inspect, UnchangedJob, Goto, TypeOK
    <3>2. final[n] = h /\ h # NoFile /\ meta[n] # d
      BY <1>0, <1>1, <1>12 DEF Inspect, Downloads, At, Solo, Unsaved
    <3> QED BY <3>1, <3>2
  <2> QED BY <2>1 DEF Leaves, FileSteps, fileVars, At
<1>13. CASE Save(d)
  <2>1. CASE pc'[d] = "finish"
    BY <2>1 DEF Leaves, FileSteps, At
  <2>2. CASE pc'[d] # "finish"
    <3>1. pc'[d] = "clean" /\ UNCHANGED <<final, meta, handle>>
      BY <1>0, <1>13, <2>2 DEF Save, UnchangedJob, Goto, TypeOK
    <3>2. final[n] = h /\ h # NoFile /\ meta[n] # d
      BY <1>0, <1>1, <1>13 DEF Save, At, Solo, Downloads, Unsaved
    <3> QED BY <3>1, <3>2 DEF Leaves, FileSteps, At
  <2> QED BY <2>1, <2>2
<1>14. CASE Finish(d)
  <2>1. /\ UNCHANGED fileVars /\ pc'[d] \in {"ended", "resume", "clean"}
    BY <1>0, <1>14 DEF Finish, Update, Goto, TypeOK
  <2>2. /\ final[n] = h /\ h \in Downloads /\ meta[n] = d /\ d # 0 /\ h # NoFile
        /\ content[h][1] = d /\ content[h][2] = d
    BY <1>1, <1>14 DEF Finish, At, Solo, Downloads
  <2>3. content[h] = Both(d)
    BY <1>0, <2>2 DEF TypeOK, Both, Inode
  <2>4. Truthful(n)'
    BY <2>1, <2>2, <2>3 DEF Truthful, Both, fileVars
  <2> QED BY <2>1, <2>4 DEF Leaves, FileSteps, At
<1>15. CASE Clean(d)
  <2>1. /\ UNCHANGED <<final, meta, content, handle>> /\ pc'[d] = "check"
        /\ Truthful(n) \/ (final[n] = h /\ h # NoFile /\ meta[n] # d)
    BY <1>0, <1>2, <1>15 DEF Clean, At, Leaves, Goto, TypeOK
  <2>2. Truthful(n) => Truthful(n)'
    BY <1>5, <2>1
  <2> QED BY <2>1, <2>2 DEF Leaves, FileSteps, At
<1>16. CASE Check(d)
  <2>1. /\ UNCHANGED <<fileVars, handle, failed>> /\ d \in failed
        /\ pc'[d] = IF meta[n] = 0 THEN "unlink" ELSE "report"
        /\ Truthful(n) \/ (final[n] = h /\ h # NoFile /\ meta[n] # d)
    BY <1>0, <1>2, <1>16 DEF Check, UnchangedJob, At, Leaves, Goto, TypeOK, Shaped
  <2>2. CASE meta[n] = 0
    BY <2>1, <2>2 DEF Leaves, FileSteps, fileVars, At
  <2>3. CASE meta[n] # 0
    <3>1. pc'[d] = "report"
      BY <2>1, <2>3
    <3>2. Truthful(n) => Truthful(n)'
      BY <1>5, <2>1 DEF fileVars
    <3>3. ASSUME final[n] = h, h # NoFile, meta[n] # d PROVE Truthful(n)'
      <4>1. Replaced(n)'
        BY <1>3, <2>1, <2>3, <3>3 DEF Replaced, fileVars
      <4> QED BY <2>1, <3>3, <4>1 DEF Truthful, fileVars
    <3> QED BY <2>1, <3>1, <3>2, <3>3 DEF FileSteps
  <2> QED BY <2>2, <2>3
<1>17. CASE UnlinkFinal(d)
  <2>1. /\ final'[n] = NoFile /\ meta'[n] = 0 /\ pc'[d] = "report"
    BY <1>0, <1>2, <1>17 DEF UnlinkFinal, At, Leaves, Goto, TypeOK
  <2> QED BY <2>1 DEF Truthful, FileSteps
<1> QED BY <1>8, <1>9, <1>10, <1>11, <1>12, <1>13, <1>14, <1>15, <1>16, <1>17
    DEF Job, Answer, GiveUp, Reply, Report, ReportAgain, Resume, Install, At, FileSteps

LEMMA ListedNext ==
    ASSUME LibraryInv, Placed', [Next]_vars, NEW n \in Names PROVE Listed(n)'
<1>0. /\ TypeOK /\ Typed /\ Placed /\ Listed(n)
      /\ \A d \in Downloads : Shaped(d) /\ Tasked(d)
  BY DEF LibraryInv, Typed
<1>1. CASE UNCHANGED vars \/ \E d \in Downloads : Clear(d)
  BY <1>0, <1>1, KeepsListed DEF vars, jobVars, fileVars, Clear, Keeps, At
<1>2. ASSUME NEW d \in Downloads, Start(d) \/ Job(d) PROVE Listed(n)'
  <2>1. Spares(d)
    BY <1>0, <1>2, JobSpares
  <2>2. CASE name[d] = n /\ pc[d] \notin FileSteps
    BY <1>0, <1>2, <2>2, PastKeeps, KeepsListed
  <2>3. CASE name[d] = n /\ pc[d] \in FileSteps
    <3>1. Job(d) /\ UNCHANGED name
      BY <1>2, <2>1, <2>3 DEF Start, Spares, At, FileSteps
    <3>2. CASE Undisturbed(n)
      BY <2>3, <3>1, <3>2, OwnListed
    <3>3. CASE ~Undisturbed(n)
      <4>1. ~Undisturbed(n)'
        BY <2>1, <2>3, <3>1, <3>3 DEF Undisturbed, Spares, At, FileSteps
      <4> QED BY <4>1 DEF Listed
    <3> QED BY <3>2, <3>3
  <2>4. CASE name[d] # n /\ name'[d] # n
    BY <1>0, <1>2, <2>4, JobKeeps, KeepsListed
  <2>5. CASE name[d] # n /\ name'[d] = n
    <3>1. Reply(d, n)
      <4>1. At(d, "poll")
        BY <2>1, <2>5 DEF Spares
      <4>2. PICK m \in Names : Reply(d, m)
        BY <1>2, <2>5, <4>1
        DEF Start, Job, Answer, GiveUp, Open, Write, CutShort, Abort, Move, Inspect, Save,
            Finish, Clean, Check, UnlinkFinal, Report, ReportAgain, Resume, Install, At,
            UnchangedJob
      <4>3. m = n
        BY <1>0, <2>5, <4>2 DEF Reply, TypeOK
      <4> QED BY <4>2, <4>3
    <3>2. SUFFICES ASSUME Undisturbed(n)' PROVE Listed(n)'
      BY DEF Listed
    <3>3. /\ On(n) = {} /\ deleting # n /\ UNCHANGED <<fileVars, handle, stage, deleting>>
          /\ pc'[d] = "open"
      BY <1>0, <2>5, <3>1, <3>2
      DEF Reply, Undisturbed, TypeOK, Goto, UnchangedService, At
    <3>4. Undisturbed(n)
      BY <2>1, <2>5, <3>2 DEF Undisturbed, Spares
    <3>5. Truthful(n)
      BY <1>0, <3>3, <3>4 DEF Listed
    <3>6. Replaced(n) => Replaced(n)'
      BY <1>0, <2>1, <2>5, <3>3 DEF Replaced, Spares, TypeOK, fileVars
    <3>7. Truthful(n)'
      BY <3>3, <3>5, <3>6, KeepsTruth DEF fileVars
    <3>8. On(n)' \subseteq {d}
      BY <2>1, <3>3 DEF On, Spares
    <3>9. Leaves(d, n)'
      BY <3>3, <3>7 DEF Leaves, At
    <3>10. d \in On(n)'
      BY <2>5, <3>3 DEF On, FileSteps
    <3> QED BY <3>3, <3>8, <3>9, <3>10 DEF Listed
  <2> QED BY <2>2, <2>3, <2>4, <2>5
<1>3. ASSUME NEW m \in Names, Delete(m) PROVE Listed(n)'
  <2>1. CASE m = n
    <3>1. SUFFICES ASSUME Undisturbed(n)' PROVE Listed(n)'
      BY DEF Listed
    <3>2. final'[n] = NoFile /\ deleting' = n
      BY <1>0, <1>3, <2>1 DEF Delete, TypeOK
    <3>3. On(n)' = {}
      BY <1>3, <2>1, <3>1 DEF Delete, Undisturbed, On
    <3> QED BY <3>2, <3>3 DEF Listed
  <2>2. CASE m # n
    <3>1. final'[n] = final[n] /\ (deleting' = n <=> deleting = n)
      BY <1>0, <1>3, <2>2, NoNameIsNoName DEF Delete, TypeOK
    <3> QED BY <1>0, <1>3, <3>1, KeepsListed DEF Delete, Keeps, At
  <2> QED BY <2>1, <2>2
<1>4. CASE DeleteMetadata
  <2>1. CASE deleting = n
    <3>1. SUFFICES ASSUME Undisturbed(n)' PROVE Listed(n)'
      BY DEF Listed
    <3>2. Undisturbed(n)
      BY <1>4, <3>1 DEF DeleteMetadata, jobVars, Undisturbed
    <3>3. final[n] = NoFile /\ On(n) = {}
      BY <1>0, <2>1, <3>2 DEF Listed
    <3>4. final'[n] = NoFile /\ meta'[n] = 0 /\ On(n)' = {} /\ deleting' = NoName
      BY <1>0, <1>4, <2>1, <3>3 DEF DeleteMetadata, jobVars, TypeOK, On
    <3> QED BY <3>4, NoNameIsNoName DEF Listed, Truthful
  <2>2. CASE deleting # n
    <3>1. meta'[n] = meta[n] /\ deleting' # n
      BY <1>0, <1>4, <2>2, NoNameIsNoName DEF DeleteMetadata, TypeOK
    <3> QED BY <1>0, <1>4, <2>2, <3>1, KeepsListed DEF DeleteMetadata, jobVars, Keeps, At
  <2> QED BY <2>1, <2>2
<1>5. CASE ClearUnlink
  <2>1. \A e \in Downloads : stage'[e] \in {stage[e], "none"}
    BY <1>0, <1>5 DEF ClearUnlink, TypeOK
  <2> QED BY <1>0, <1>5, <2>1, KeepsListed DEF ClearUnlink, jobVars, fileVars, Keeps, At
<1>6. CASE Crash
  BY <1>6 DEF Crash, Listed, Undisturbed
<1> QED BY <1>1, <1>2, <1>3, <1>4, <1>5, <1>6 DEF Next, AwaitRequest
-----------------------------------------------------------------------------
(* Theorems.                                                               *)

LEMMA LibraryInit == Init => LibraryInv
<1> SUFFICES ASSUME Init PROVE LibraryInv
  OBVIOUS
<1>1. Typed
  BY TypedInit
<1>2. ASSUME NEW n \in Names PROVE final[n] \in {NoFile, n} /\ final[n] \notin Downloads
  BY NamesAreNotNumbers DEF Init, Downloads, NoFile
<1>3. \A d \in Downloads : Tasked(d) /\ Fresh(d) /\ Unsaved(d) /\ Alone(d)
  BY <1>2 DEF Init, Tasked, Fresh, Unsaved, Alone, At, Running, FileSteps, Downloads, NoFile
<1>4. PartsHeld /\ Placed
  <2>1. 0 \notin Names
    BY BoundIsNatural, NamesAreNotNumbers
  <2> QED BY <1>2, <2>1 DEF Init, PartsHeld, Placed, NoFile
<1>5. \A n \in Names : Listed(n)
  BY <1>2, NoNameIsNoName DEF Init, Listed, On, FileSteps, Truthful
<1> QED BY <1>1, <1>3, <1>4, <1>5 DEF LibraryInv

LEMMA LibraryNext == LibraryInv /\ [Next]_vars => LibraryInv'
<1> SUFFICES ASSUME LibraryInv, [Next]_vars PROVE LibraryInv'
  OBVIOUS
<1>1. Typed' /\ PartsHeld' /\ Placed'
  BY TypedNext, HeldNext, PlacedNext DEF LibraryInv
<1>2. ASSUME NEW d \in Downloads PROVE Tasked(d)' /\ Fresh(d)' /\ Unsaved(d)' /\ Alone(d)'
  BY <1>1, TaskedNext, FreshNext, UnsavedNext, AloneNext DEF LibraryInv
<1>3. ASSUME NEW n \in Names PROVE Listed(n)'
  BY <1>1, ListedNext
<1> QED BY <1>1, <1>2, <1>3 DEF LibraryInv

LEMMA LibraryHolds == Spec => []LibraryInv
BY LibraryInit, LibraryNext, PTL DEF Spec

\* The library, the task files and the jobs have their types: in particular a directory
\* entry points to a file placed by hand or to an inode some download has made, whatever
\* renames and unlinks it.
THEOREM LibraryTypeCorrect == Spec => []TypeOK
<1>1. LibraryInv => TypeOK
  BY DEF LibraryInv, Typed
<1> QED BY <1>1, LibraryHolds, PTL

\* ApkDownloader.download: until the service dies, a part file has a download of its name
\* that is still to rename or remove it, although downloads rename and remove each
\* other's.
THEOREM PartsAreOwned == Spec => []PartsBelongToDownloads
<1>1. LibraryInv => PartsBelongToDownloads
  BY DEF LibraryInv, PartsHeld, PartsBelongToDownloads, On, Holding, FileSteps
<1> QED BY <1>1, LibraryHolds, PTL

\* TaskStore.clear_finished: the only running job that can lose its task file is an
\* update, whose download has marked it done or failed, even though the file is removed
\* after it was read.
THEOREM TasksOutliveJobs == Spec => []OnlyUpdatesLoseTheirTask
<1>1. LibraryInv => OnlyUpdatesLoseTheirTask
  BY DEF LibraryInv, Tasked, OnlyUpdatesLoseTheirTask
<1> QED BY <1>1, LibraryHolds, PTL

\* ApkRepository.list_apks: a file whose downloads and deletions took turns was placed by
\* hand, or is whole and of the download its metadata describes, or a failed download
\* replaced an archived one.
THEOREM LibraryStaysTruthful == Spec => []LibraryIsTruthful
<1>1. ASSUME LibraryInv, NEW n \in Names, Quiet(n) PROVE Truthful(n)
  BY <1>1 DEF LibraryInv, Listed, Undisturbed, Quiet
<1>2. LibraryInv => LibraryIsTruthful
  BY <1>1 DEF LibraryIsTruthful
<1> QED BY <1>2, LibraryHolds, PTL

\* ApkDownloader.download: a job that had its name to itself reports done only with its
\* own file, whole, and its own metadata in the library.
THEOREM DoneMeansArchived == Spec => DoneIsArchived
<1>1. ASSUME LibraryInv, [Next]_vars, NEW d \in Downloads,
             stage[d] # "done", stage'[d] = "done", alone[d]
      PROVE  LET n == name[d] IN
             final'[n] # NoFile /\ content'[final'[n]] = Both(d) /\ meta'[n] = d
  <2>0. TypeOK /\ Typed /\ Alone(d)
    BY <1>1 DEF LibraryInv, Typed
  <2>1. PICK e \in Downloads : Start(e) \/ Job(e)
    BY <1>1, <2>0
    DEF Next, vars, jobVars, fileVars, Clear, Delete, DeleteMetadata, ClearUnlink, Crash,
        AwaitRequest, TypeOK
  <2>2. e = d
    BY <1>1, <2>0, <2>1, JobSpares DEF Spares
  <2>3. Finish(d)
    BY <1>1, <2>0, <2>1, <2>2
    DEF Start, Job, Answer, GiveUp, Reply, Open, Write, CutShort, Abort, Move, Inspect, Save,
        Clean, Check, UnlinkFinal, Report, ReportAgain, Resume, Install, Update, Goto, TypeOK
  <2>4. /\ final[name[d]] = handle[d] /\ handle[d] \in Downloads /\ meta[name[d]] = d
        /\ content[handle[d]][1] = d /\ content[handle[d]][2] = d
    BY <1>1, <2>0, <2>3 DEF Finish, Alone, Solo, At, FileSteps
  <2>5. content[handle[d]] = Both(d)
    BY <2>0, <2>4 DEF TypeOK, Both, Inode
  <2> QED BY <2>3, <2>4, <2>5 DEF Finish, fileVars, Downloads, NoFile
<1>2. LibraryInv /\ [Next]_vars =>
          [\A d \in Downloads :
              /\ stage[d] # "done" /\ stage'[d] = "done"
              /\ alone[d]
              => LET n == name[d] IN
                 final'[n] # NoFile /\ content'[final'[n]] = Both(d) /\ meta'[n] = d]_vars
  BY <1>1
<1> QED BY <1>2, LibraryHolds, PTL DEF Spec, DoneIsArchived
=============================================================================
