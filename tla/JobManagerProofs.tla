-------------------------- MODULE JobManagerProofs --------------------------
(***************************************************************************)
(* Theorems about JobManager, for any packages, versions, devices, job     *)
(* slots, request handlers, faults and bounds.                             *)
(***************************************************************************)
EXTENDS JobManagerInvariant, TLAPS

-----------------------------------------------------------------------------
(* What the transactions of the journal do to the rows.                    *)

\* Row numbers are the positions of a sequence.
LEMMA IdsInterval == ASSUME JournalTypeOK PROVE Ids = 1..Len(ops)
  BY DEF JournalTypeOK, Ids

\* begin adds one row at the end and touches no other.
LEMMA BeginRows ==
  ASSUME JournalTypeOK, NEW row \in Operation, Begin(row)
  PROVE  /\ JournalTypeOK'
         /\ Ids' = Ids \cup {Len(ops) + 1}
         /\ Len(ops) + 1 \notin Ids
         /\ \A k \in Ids : ops'[k] = ops[k]
         /\ ops'[Len(ops) + 1] = row
  BY DEF JournalTypeOK, Begin, Ids

\* Replacing the row i by another operation keeps every other row.
LEMMA ReplaceRow ==
  ASSUME JournalTypeOK, NEW i \in Ids, NEW row \in Operation,
         ops' = [ops EXCEPT ![i] = row]
  PROVE  /\ JournalTypeOK'
         /\ Ids' = Ids
         /\ \A k \in Ids : ops'[k] = IF k = i THEN row ELSE ops[k]
  BY DEF JournalTypeOK, Ids

LEMMA CompleteRows ==
  ASSUME JournalTypeOK, NEW i \in Ids, NEW state \in State \cup {NoState},
         Complete(i, state)
  PROVE  /\ JournalTypeOK'
         /\ Ids' = Ids
         /\ \A k \in Ids : ops'[k] =
              IF k = i THEN [ops[i] EXCEPT !.status = "applied", !.after = state]
                       ELSE ops[k]
<1> DEFINE row == [ops[i] EXCEPT !.status = "applied", !.after = state]
<1>1. ops[i] \in Operation
  BY DEF JournalTypeOK, Ids
<1>2. row \in Operation
  BY <1>1 DEF Operation, Status
<1>3. ops' = [ops EXCEPT ![i] = row]
  BY DEF Complete, JournalTypeOK, Ids
<1> QED
  BY <1>2, <1>3, ReplaceRow

\* A status change leaves every other field of every row alone.
LEMMA StatusRows ==
  ASSUME JournalTypeOK, NEW i \in Ids, NEW s \in Status,
         ops' = [ops EXCEPT ![i].status = s]
  PROVE  /\ JournalTypeOK'
         /\ Ids' = Ids
         /\ \A k \in Ids : ops'[k] =
              IF k = i THEN [ops[i] EXCEPT !.status = s] ELSE ops[k]
<1> DEFINE row == [ops[i] EXCEPT !.status = s]
<1>1. ops[i] \in Operation
  BY DEF JournalTypeOK, Ids
<1>2. row \in Operation
  BY <1>1 DEF Operation
<1>3. ops' = [ops EXCEPT ![i] = row]
  BY DEF JournalTypeOK, Ids
<1> QED
  BY <1>2, <1>3, ReplaceRow

\* Both rows of finish_rollback, which are different rows.
LEMMA FinishRows ==
  ASSUME JournalTypeOK, NEW i \in Ids, NEW r \in Ids, i # r, FinishRollback(i, r)
  PROVE  /\ JournalTypeOK'
         /\ Ids' = Ids
         /\ \A k \in Ids : ops'[k] =
              IF k = i THEN [ops[i] EXCEPT !.status = "reverted"]
              ELSE IF k = r THEN [ops[r] EXCEPT !.status = "rollback-recorded"]
              ELSE ops[k]
<1> DEFINE mid == [ops EXCEPT ![i] = [ops[i] EXCEPT !.status = "reverted"]]
           row == [ops[r] EXCEPT !.status = "rollback-recorded"]
<1>1. ops[i] \in Operation /\ ops[r] \in Operation
  BY DEF JournalTypeOK, Ids
<1>2. [ops[i] EXCEPT !.status = "reverted"] \in Operation /\ row \in Operation
  BY <1>1 DEF Operation, Status
<1>3. /\ mid \in Seq(Operation)
      /\ Len(mid) = Len(ops)
      /\ \A k \in 1..Len(ops) : mid[k] =
            IF k = i THEN [ops[i] EXCEPT !.status = "reverted"] ELSE ops[k]
  BY <1>2 DEF JournalTypeOK, Ids
<1>4. ops' = [mid EXCEPT ![r] = row]
  BY DEF JournalTypeOK, Ids, FinishRollback
<1> HIDE DEF mid, row
<1>5. /\ ops' \in Seq(Operation)
      /\ Len(ops') = Len(ops)
      /\ \A k \in 1..Len(ops) : ops'[k] = IF k = r THEN row ELSE mid[k]
  BY <1>2, <1>3, <1>4, IdsInterval
<1>6. JournalTypeOK' /\ Ids' = Ids
  BY <1>5, IdsInterval DEF JournalTypeOK, Ids
<1>7. \A k \in Ids : ops'[k] = IF k = i THEN [ops[i] EXCEPT !.status = "reverted"]
                       ELSE IF k = r THEN row ELSE ops[k]
  BY <1>3, <1>5, IdsInterval
<1> QED
  BY <1>6, <1>7 DEF row
-----------------------------------------------------------------------------
(* Type correctness, strengthened to Shaped.                               *)

\* A step that gives one slot a new record and loses no row keeps the shape when
\* the new record has it.
LEMMA SetShaped ==
  ASSUME Shaped, JournalTypeOK', Ids \subseteq Ids', EnvironmentTypeOK',
         NEW j \in Jobs, NEW new \in Job, Shape(new, Ids'),
         jobs' = [jobs EXCEPT ![j] = new]
  PROVE  Shaped'
<1>1. /\ jobs' \in [Jobs -> Job \cup {NoJob}]
      /\ \A k \in Live' : k \in Live \cup {j} /\ jobs'[k] = IF k = j THEN new ELSE jobs[k]
  BY DEF Shaped, TypeOK, JobsTypeOK, Live
<1>2. TypeOK'
  BY <1>1 DEF TypeOK, JobsTypeOK, EnvironmentTypeOK
<1>3. \A k \in Live' : Shape(jobs'[k], Ids')
  BY <1>1 DEF Shaped, Shape
<1> QED
  BY <1>2, <1>3 DEF Shaped

\* The same for a job that only moves its pc.
LEMMA GotoShaped ==
  ASSUME Shaped, JournalTypeOK', Ids \subseteq Ids', EnvironmentTypeOK',
         NEW j \in Live, NEW pc \in ServingPcs \cup ThreadPcs, Goto(j, pc),
         pc # "unlink", jobs[j].pc # "unlink",
         pc \in {"prepare", "newer", "reconcile", "finish"} => jobs[j].kind = "rollback",
         pc = "inspect" => jobs[j].kind = "apply",
         pc \in {"complete", "finish", "report"} => jobs[j].pc \in {"complete", "finish"},
         pc \in RowlessPcs <=> jobs[j].pc \in RowlessPcs
  PROVE  Shaped'
<1> DEFINE new == [jobs[j] EXCEPT !.pc = pc]
<1>1. jobs[j] \in Job /\ j \in Jobs
  BY DEF Shaped, TypeOK, JobsTypeOK, Live
<1>2. new \in Job
  BY <1>1 DEF Job
<1>3. jobs' = [jobs EXCEPT ![j] = new]
  BY <1>1 DEF Goto, Shaped, TypeOK, JobsTypeOK
<1>4. Shape(new, Ids')
  BY <1>1 DEF Shaped, Shape, Job
<1> QED
  BY <1>1, <1>2, <1>3, <1>4, SetShaped

\* And for a job that ends.
LEMMA EndShaped ==
  ASSUME Shaped, JournalTypeOK', Ids \subseteq Ids', EnvironmentTypeOK',
         NEW j \in Live, End(j)
  PROVE  Shaped'
<1>1. /\ jobs' \in [Jobs -> Job \cup {NoJob}]
      /\ \A k \in Live' : k \in Live /\ jobs'[k] = jobs[k]
  BY DEF Shaped, TypeOK, JobsTypeOK, Live, End
<1>2. TypeOK'
  BY <1>1 DEF TypeOK, JobsTypeOK, EnvironmentTypeOK
<1>3. \A k \in Live' : Shape(jobs'[k], Ids')
  BY <1>1 DEF Shaped, Shape
<1> QED
  BY <1>2, <1>3 DEF Shaped

\* A request that is accepted takes a free slot.
LEMMA AcceptShaped ==
  ASSUME Shaped, NEW j \in Jobs,
         NEW kind \in Mutations \cup {"delete"}, NEW pc \in RowlessPcs,
         NEW p \in Packages, NEW state \in State, NEW beforeApk \in Apk,
         NEW afterApk \in Apk, NEW original \in Nat,
         Accept(j, kind, pc, p, state, beforeApk, afterApk, original),
         kind = "delete" <=> pc = "unlink",
         pc \in {"prepare", "newer", "reconcile"} => kind = "rollback",
         pc = "inspect" => kind = "apply",
         IF kind = "rollback" THEN original \in Ids ELSE original = 0
  PROVE  Shaped'
<1> DEFINE new == [kind |-> kind, pc |-> pc, package |-> p, identity |-> device,
                   before |-> state, beforeApk |-> beforeApk, afterApk |-> afterApk,
                   op |-> 0, original |-> original, found |-> "", listed |-> {p},
                   after |-> NoState, task |-> "running",
                   source |-> device, moved |-> FALSE]
<1>1. new \in Job
  BY DEF Job, Shaped, TypeOK, JobsTypeOK, RowlessPcs, ServingPcs, ThreadPcs
<1>2. Shape(new, Ids)
  BY DEF Shape, RowlessPcs
<1>3. jobs' = [jobs EXCEPT ![j] = new]
  BY DEF Accept
<1>4. JournalTypeOK' /\ Ids' = Ids /\ EnvironmentTypeOK'
  BY DEF Accept, Shaped, TypeOK, JobsTypeOK, JournalTypeOK, Ids, EnvironmentTypeOK
<1> HIDE DEF new
<1> QED
  BY <1>1, <1>2, <1>3, <1>4, SetShaped

\* A profile that begins a row for its entry, or goes on to the next one.
\* What a live job is, read off the shape.
LEMMA LiveJob ==
  ASSUME Shaped, NEW j \in Live
  PROVE  /\ j \in Jobs
         /\ jobs[j] \in Job
         /\ Shape(jobs[j], Ids)
         /\ jobs[j].op # 0 => jobs[j].op \in Ids
         /\ jobs[j].kind = "rollback" => jobs[j].original \in Ids
  BY DEF Shaped, TypeOK, JobsTypeOK, Live, Shape

\* A profile's record for its next row or its next entry.
Entered(job, new) ==
    /\ job.kind = "apply" /\ job.pc \in {"inspect", "report"}
    /\ new.kind = "apply" /\ new.pc \in {"begin", "inspect"} /\ new.op = 0
    /\ new.original = job.original /\ new.identity = job.identity
    /\ new.moved = job.moved

LEMMA EntryRecord ==
  ASSUME Shaped, NEW j \in Live, InspectEntry(j) \/ Proceed(j)
  PROVE  \/ End(j)
         \/ \E new \in Job : Entered(jobs[j], new) /\ jobs' = [jobs EXCEPT ![j] = new]
<1>1. /\ jobs[j] \in Job /\ j \in Jobs /\ Shape(jobs[j], Ids)
      /\ jobs[j].kind = "apply" /\ jobs[j].pc \in {"inspect", "report"}
  BY LiveJob DEF InspectEntry, Proceed, At, Shape
<1>2. /\ 0 \in Apk /\ Absent \in State /\ Versions \subseteq Apk
      /\ jobs[j].afterApk \in Apk
      /\ jobs[j].pc = "report" => jobs[j].after \in State
  BY <1>1 DEF Apk, Absent, State, Job, Shape
<1>3. ASSUME NEW state \in State, NEW beforeApk \in Apk, NEW v \in Apk,
             Enter(j, state, beforeApk, v)
      PROVE  \E new \in Job : Entered(jobs[j], new) /\ jobs' = [jobs EXCEPT ![j] = new]
  <2> DEFINE new == [jobs[j] EXCEPT !.pc = "begin", !.op = 0, !.after = NoState,
                                    !.before = state, !.beforeApk = beforeApk,
                                    !.afterApk = v]
  <2>1. new \in Job
    BY <1>1 DEF Job, ServingPcs
  <2>2. Entered(jobs[j], new)
    BY <1>1 DEF Entered, Job
  <2>3. jobs' = [jobs EXCEPT ![j] = new]
    BY <1>1, <1>3 DEF Enter, Job, Shaped, TypeOK, JobsTypeOK
  <2> HIDE DEF new
  <2> QED
    BY <2>1, <2>2, <2>3
<1>4. ASSUME NEW q \in Packages,
             jobs' = [jobs EXCEPT ![j].pc = "inspect", ![j].package = q, ![j].op = 0,
                                  ![j].listed = @ \cup {q},
                                  ![j].before = Absent, ![j].after = NoState,
                                  ![j].beforeApk = 0, ![j].afterApk = 0]
      PROVE  \E new \in Job : Entered(jobs[j], new) /\ jobs' = [jobs EXCEPT ![j] = new]
  <2> DEFINE listed == jobs[j].listed \cup {q}
             new == [jobs[j] EXCEPT !.pc = "inspect", !.package = q, !.op = 0,
                                    !.listed = listed,
                                    !.before = Absent, !.after = NoState,
                                    !.beforeApk = 0, !.afterApk = 0]
  <2>1. jobs' = [jobs EXCEPT ![j] = new]
    BY <1>1, <1>4 DEF Job, Shaped, TypeOK, JobsTypeOK
  <2>2. listed \in SUBSET Packages
    BY <1>1 DEF Job
  <2> HIDE DEF listed
  <2>3. new \in Job
    BY <1>1, <1>2, <2>2 DEF Job, ThreadPcs
  <2>4. Entered(jobs[j], new)
    BY <1>1 DEF Entered, Job
  <2> HIDE DEF new
  <2> QED
    BY <2>1, <2>3, <2>4
<1>5. CASE NextEntry(j)
  BY <1>4, <1>5 DEF NextEntry
<1>6. CASE InspectEntry(j)
  <2> DEFINE p == jobs[j].package
             state == tv[p]
  <2>1. state \in State
    BY <1>1 DEF Job, Shaped, TypeOK, JobsTypeOK
  <2>2. state.version \in Apk /\ ExactApk(p, state.version) \in Apk
    BY <1>2, <2>1 DEF State, ExactApk
  <2>3. \/ \E beforeApk, v \in Apk : Enter(j, state, beforeApk, v)
        \/ NextEntry(j)
    BY <1>2, <1>6, <2>2 DEF InspectEntry
  <2> HIDE DEF state
  <2> QED
    BY <1>3, <1>5, <2>1, <2>3
<1>7. CASE Proceed(j)
  <2>1. jobs[j].after \in State
    BY <1>2, <1>7 DEF Proceed, At
  <2>2. CASE Enter(j, jobs[j].after, jobs[j].afterApk, 0)
    BY <1>2, <1>3, <2>1, <2>2
  <2> QED
    BY <1>5, <1>7, <2>2 DEF Proceed
<1> QED
  BY <1>6, <1>7

\* A step that leaves rows and environment alone.
LEMMA SameRowsShaped ==
  ASSUME Shaped, UNCHANGED ops
  PROVE  JournalTypeOK' /\ Ids' = Ids
  BY DEF Shaped, TypeOK, JournalTypeOK, Ids

LEMMA EnvironmentTyped ==
  ASSUME Shaped, UNCHANGED <<tv, device, library, late>>,
         faults' = faults \/ StorageError
  PROVE  EnvironmentTypeOK'
  BY DEF Shaped, TypeOK, JobsTypeOK, EnvironmentTypeOK, StorageError, Event

LEMMA RequestShaped ==
  ASSUME Shaped, NEW j \in Jobs, Request(j)
  PROVE  Shaped'
<1> USE DEF RowlessPcs, Mutations
<1>1. /\ \A p \in Packages : tv[p] \in State
      /\ \A p \in Packages : ExactApk(p, tv[p].version) \in Apk
      /\ 0 \in Apk /\ Absent \in State
      /\ Versions \subseteq Apk
      /\ 0 \in Nat
  BY DEF Shaped, TypeOK, JobsTypeOK, ExactApk, Apk, Absent, State
<1>2. CASE \E p \in Packages, v \in Versions : StartInstall(j, p, v)
  BY <1>1, <1>2, AcceptShaped DEF StartInstall, AcceptMutation
<1>3. CASE \E p \in Packages, v \in Versions : StartDelete(j, p, v)
  BY <1>1, <1>3, AcceptShaped DEF StartDelete
<1>4. CASE \E p \in Packages : StartUninstall(j, p)
  BY <1>1, <1>4, AcceptShaped DEF StartUninstall, AcceptMutation
<1>5. CASE \E p \in Packages : StartUpdate(j, p)
  BY <1>1, <1>5, AcceptShaped DEF StartUpdate, AcceptMutation
<1>6. CASE \E p \in Packages, kind \in {"enable", "disable"} : StartSetEnabled(j, p, kind)
  BY <1>1, <1>6, AcceptShaped DEF StartSetEnabled, AcceptMutation
<1>8. CASE \E p \in Packages : StartApply(j, p)
  BY <1>1, <1>8, AcceptShaped DEF StartApply
<1>7. CASE \E i \in Ids : StartRollback(j, i)
  <2> PICK i \in Ids : StartRollback(j, i)
    BY <1>7
  <2>1. ops[i] \in Operation /\ i \in Nat
    BY DEF Shaped, TypeOK, JournalTypeOK, Ids
  <2> QED
    BY <1>1, <2>1, AcceptShaped DEF StartRollback, Operation
<1> QED
  BY <1>2, <1>3, <1>4, <1>5, <1>6, <1>7, <1>8 DEF Request

\* The row a job at "begin" adds is an operation.
LEMMA RowTyped ==
  ASSUME Shaped, NEW j \in Live, At(j, "begin")
  PROVE  RowOf(j) \in Operation
<1>1. jobs[j] \in Job /\ jobs[j].kind # "delete"
  BY LiveJob DEF At, Shape
<1>2. jobs[j].kind # "rollback" => InverseOf(j) \in InverseAction
  <2> SUFFICES ASSUME jobs[j].kind # "rollback" PROVE InverseOf(j) \in InverseAction
    OBVIOUS
  <2>1. Verb(j) \in Verbs
    BY <1>1 DEF At, Verb, EntryVerb, Verbs, Job, Mutations
  <2> QED
    BY <2>1 DEF InverseOf, InverseAction, Verbs
<1>3. ActionOf(j) \in Action
  BY <1>1 DEF ActionOf, Action, Job, Mutations
<1>4. /\ IF jobs[j].kind = "rollback" THEN "" \in InverseAction
                                     ELSE InverseOf(j) \in InverseAction
      /\ "pending" \in Status
  BY <1>2 DEF InverseAction, Status
<1> QED
  BY <1>1, <1>3, <1>4 DEF RowOf, Operation, Job

LEMMA HandlerShaped ==
  ASSUME Shaped, NEW j \in Jobs, HandlerStep(j)
  PROVE  Shaped'
<1>1. CASE Unlink(j)
  <2>1. jobs[j] \in Job /\ j \in Live
    BY <1>1, LiveJob DEF Unlink, At
  <2>2. EnvironmentTypeOK'
    BY <1>1, <2>1 DEF Unlink, Shaped, TypeOK, JobsTypeOK, EnvironmentTypeOK, Job
  <2> QED
    BY <1>1, <2>1, <2>2, SameRowsShaped, EndShaped DEF Unlink
<1>2. CASE Prepare(j)
  <2>1. /\ j \in Live /\ jobs[j].kind = "rollback" /\ jobs[j].pc = "prepare"
        /\ jobs[j] \in Job /\ Shape(jobs[j], Ids) /\ jobs[j].original \in Ids
    BY <1>2, LiveJob DEF Prepare, At, Shape
  <2>2. EnvironmentTypeOK' /\ JournalTypeOK' /\ Ids' = Ids
    BY <1>2, SameRowsShaped, EnvironmentTyped DEF Prepare
  <2>3. CASE End(j)
    BY <2>1, <2>2, <2>3, EndShaped
  <2>4. ASSUME jobs' = [jobs EXCEPT ![j].pc = "newer",
                                    ![j].found = ops[jobs[j].original].status]
        PROVE  Shaped'
    <3> DEFINE s == ops[jobs[j].original].status
               new == [jobs[j] EXCEPT !.pc = "newer", !.found = s]
    <3>1. s \in Status
      <4>1. ops[jobs[j].original] \in Operation
        BY <2>1 DEF Shaped, TypeOK, JournalTypeOK, Ids
      <4> QED
        BY <4>1 DEF Operation
    <3>2. jobs' = [jobs EXCEPT ![j] = new]
      BY <2>1, <2>4 DEF Job, Shaped, TypeOK, JobsTypeOK
    <3> HIDE DEF s
    <3>3. new \in Job
      BY <2>1, <3>1 DEF Job, ServingPcs
    <3>4. Shape(new, Ids')
      BY <2>1, <2>2 DEF Shape, Job, RowlessPcs
    <3> HIDE DEF new
    <3> QED
      BY <2>1, <2>2, <3>2, <3>3, <3>4, SetShaped DEF Live
  <2> QED
    BY <1>2, <2>3, <2>4 DEF Prepare
<1>7. CASE CheckNewer(j)
  <2>1. j \in Live /\ jobs[j].kind = "rollback" /\ jobs[j].pc = "newer"
    BY <1>7, LiveJob DEF CheckNewer, At, Shape
  <2>2. EnvironmentTypeOK' /\ JournalTypeOK' /\ Ids' = Ids
    BY <1>7, SameRowsShaped, EnvironmentTyped DEF CheckNewer
  <2>3. CASE End(j)
    BY <2>1, <2>2, <2>3, EndShaped
  <2>4. ASSUME NEW pc \in {"reconcile", "begin"}, Goto(j, pc) PROVE Shaped'
    BY <2>1, <2>2, <2>4, GotoShaped DEF RowlessPcs, ServingPcs
  <2> QED
    BY <1>7, <2>3, <2>4 DEF CheckNewer
<1>3. CASE Reconcile(j)
  <2>1. j \in Live /\ jobs[j].original \in Ids
    BY <1>3, LiveJob DEF Reconcile, At, Shape
  <2>2. JournalTypeOK' /\ Ids' = Ids
    <3>1. CASE UNCHANGED ops
      BY <3>1, SameRowsShaped
    <3>2. CASE ReconcileNoChange(jobs[j].original)
      BY <2>1, <3>2, StatusRows DEF ReconcileNoChange, Status, Shaped, TypeOK
    <3> QED
      BY <1>3, <3>1, <3>2 DEF Reconcile
  <2> QED
    BY <1>3, <2>1, <2>2, EnvironmentTyped, EndShaped DEF Reconcile, NoStorageError
<1>4. CASE BeginRow(j)
  <2> DEFINE next == CASE jobs[j].kind = "update" -> "announce"
                      [] jobs[j].kind = "apply" -> "command"
                      [] OTHER -> "spawn"
             row == Len(ops) + 1
             new == [jobs[j] EXCEPT !.op = row, !.pc = next]
  <2>1. /\ j \in Live /\ jobs[j] \in Job /\ Shape(jobs[j], Ids)
        /\ jobs[j].pc = "begin" /\ Len(ops) \in Nat
    BY <1>4, LiveJob DEF BeginRow, At, Shaped, TypeOK, JournalTypeOK
  <2>2. JournalTypeOK' /\ Ids' = Ids \cup {Len(ops) + 1} /\ Ids = 1..Len(ops)
    BY <1>4, RowTyped, BeginRows, IdsInterval DEF BeginRow, At, Shaped, TypeOK
  <2>3. jobs' = [jobs EXCEPT ![j] = new]
    BY <1>4, <2>1 DEF BeginRow, Job, Shaped, TypeOK, JobsTypeOK
  <2>4. next \in {"announce", "command", "spawn"} /\ row \in Nat /\ row = Len(ops) + 1
    BY <2>1
  <2> HIDE DEF next, row
  <2>5. new \in Job
    BY <2>1, <2>4 DEF Job, ServingPcs, ThreadPcs
  <2>6. Shape(new, Ids')
    <3>1. /\ new.op = row /\ new.pc = next /\ new.kind = jobs[j].kind
          /\ new.original = jobs[j].original
      BY <2>1 DEF Job
    <3>2. row \in Ids' /\ row # 0 /\ (jobs[j].kind = "rollback" => jobs[j].original \in Ids')
      BY <2>1, <2>2, <2>4 DEF Shape
    <3>3. jobs[j].original < row
      BY <2>1, <2>2, <2>4 DEF Shape
    <3> QED
      BY <2>1, <2>4, <3>1, <3>2, <3>3 DEF Shape, RowlessPcs
  <2> HIDE DEF new
  <2> QED
    BY <1>4, <2>2, <2>5, <2>6, <2>3, EnvironmentTyped, SetShaped DEF BeginRow
<1>5. CASE BeginRefused(j)
  BY <1>5, SameRowsShaped, EnvironmentTyped, EndShaped
  DEF BeginRefused, At, NoStorageError
<1>6. CASE Spawn(j)
  <2>1. j \in Live /\ jobs[j].pc = "spawn"
    BY <1>6 DEF Spawn, At
  <2>2. EnvironmentTypeOK' /\ JournalTypeOK' /\ Ids' = Ids
    BY <1>6, SameRowsShaped, EnvironmentTyped DEF Spawn, NoStorageError
  <2>3. CASE Goto(j, "announce")
    BY <2>1, <2>2, <2>3, GotoShaped DEF RowlessPcs, ThreadPcs
  <2> QED
    BY <1>6, <2>1, <2>2, <2>3, EndShaped DEF Spawn
<1> QED
  BY <1>1, <1>2, <1>3, <1>4, <1>5, <1>6, <1>7 DEF HandlerStep

\* The command of a live job is one AdbClient knows.
LEMMA CommandTyped ==
  ASSUME Shaped, NEW j \in Live, jobs[j].pc \in SendingPcs
  PROVE  CommandOf(j) \in Command
<1>1. jobs[j] \in Job /\ jobs[j].kind \in Mutations
  BY LiveJob DEF Shape, SendingPcs, Job
<1>2. CASE jobs[j].kind = "rollback"
  <2>1. ops[jobs[j].original] \in Operation
    BY <1>2, LiveJob DEF Shaped, TypeOK, JournalTypeOK, Ids
  <2>2. Verb(j) \in Verbs \cup InverseAction
    BY <1>2, <2>1 DEF Verb, Undo, Verbs, Operation
  <2> QED
    BY <1>1, <2>2 DEF CommandOf, Command, Job
<1>3. CASE jobs[j].kind # "rollback"
  <2>1. Verb(j) \in Verbs
    BY <1>1, <1>3 DEF Verb, EntryVerb, Verbs, Mutations
  <2> QED
    BY <1>1, <2>1 DEF CommandOf, Command, Job
<1> QED
  BY <1>2, <1>3

LEMMA EffectTyped ==
  ASSUME NEW c \in Command, NEW state \in State
  PROVE  Effect(c, state) \in State
<1>1. CASE c.verb = "install"
  <2>1. (Installed(state) => state.enabled) \in BOOLEAN
    OBVIOUS
  <2> QED
    BY <1>1, <2>1 DEF Effect, State, Command
<1>2. CASE c.verb = "uninstall"
  BY <1>2 DEF Effect, Absent, State, Apk
<1>3. CASE c.verb = "enable"
  <2>1. Installed(state) \in BOOLEAN
    BY DEF Installed
  <2> QED
    BY <1>3, <2>1 DEF Effect, State
<1>4. CASE c.verb = "disable"
  BY <1>4 DEF Effect, State
<1> QED
  BY <1>1, <1>2, <1>3, <1>4 DEF Effect

\* Sending a command moves the job and changes tv and late by that command only.
LEMMA RunShaped ==
  ASSUME Shaped, NEW j \in Live, jobs[j].pc \in SendingPcs,
         NEW next \in {"verify", "restore-disabled"}, Run(j, CommandOf(j), next),
         UNCHANGED <<ops, device, library>>
  PROVE  Shaped'
<1> DEFINE c == CommandOf(j)
<1>1. c \in Command /\ c.package \in Packages
  BY CommandTyped DEF Command
<1> HIDE DEF c
<1>2. \/ tv' = tv
      \/ tv' = [tv EXCEPT ![c.package] = Effect(c, tv[c.package])]
  BY DEF Run, c
<1>3. tv' \in [Packages -> State]
  BY <1>1, <1>2, EffectTyped DEF Shaped, TypeOK, JobsTypeOK
<1>4. late' \subseteq Command /\ faults' \in Nat
  BY <1>1 DEF Run, c, Shaped, TypeOK, JobsTypeOK, Event
<1>5. EnvironmentTypeOK' /\ JournalTypeOK' /\ Ids' = Ids
  BY <1>3, <1>4, SameRowsShaped DEF EnvironmentTypeOK, Shaped, TypeOK, JobsTypeOK
<1>6. \E pc \in {"verify", "restore-disabled", "fail"} : Goto(j, pc)
  BY DEF Run
<1> QED
  BY <1>5, <1>6, GotoShaped DEF RowlessPcs, ThreadPcs, SendingPcs

LEMMA ThreadShaped ==
  ASSUME Shaped, NEW j \in Jobs, ThreadStep(j)
  PROVE  Shaped'
<1> USE DEF RowlessPcs, ServingPcs, ThreadPcs
<1>1. CASE Download(j)
  <2>1. /\ j \in Live /\ jobs[j] \in Job /\ jobs[j].package \in Packages
        /\ Shape(jobs[j], Ids) /\ jobs[j].pc = "download"
    BY <1>1, LiveJob DEF Download, At, Job
  <2>2. JournalTypeOK' /\ Ids' = Ids
    BY <1>1, SameRowsShaped DEF Download
  <2>3. EnvironmentTypeOK'
    <3> DEFINE p == jobs[j].package
    <3>1. \/ library' = library
          \/ \E v \in Versions : library' = [library EXCEPT ![p] = library[p] \cup {v}]
      BY <1>1 DEF Download
    <3>2. p \in Packages
      BY <2>1
    <3> HIDE DEF p
    <3>3. library' \in [Packages -> SUBSET Versions]
      BY <3>1, <3>2 DEF Shaped, TypeOK, JobsTypeOK
    <3> QED
      BY <1>1, <3>3 DEF Download, Shaped, TypeOK, JobsTypeOK, EnvironmentTypeOK
  <2>4. CASE End(j)
    BY <2>1, <2>2, <2>3, <2>4, EndShaped
  <2>5. ASSUME NEW v \in Versions,
               jobs' = [jobs EXCEPT ![j].pc = "begin", ![j].afterApk = v,
                                    ![j].task = "done"]
        PROVE  Shaped'
    <3> DEFINE new == [jobs[j] EXCEPT !.pc = "begin", !.afterApk = v, !.task = "done"]
    <3>1. new \in Job
      BY <2>1 DEF Job, Apk
    <3>2. Shape(new, Ids')
      BY <2>1, <2>2 DEF Shape, Job
    <3>3. jobs' = [jobs EXCEPT ![j] = new]
      BY <2>1, <2>5 DEF Job, Shaped, TypeOK, JobsTypeOK
    <3> HIDE DEF new
    <3> QED
      BY <2>2, <2>3, <3>1, <3>2, <3>3, SetShaped
  <2> QED
    BY <1>1, <2>4, <2>5 DEF Download
<1>2. CASE Announce(j)
  <2>1. /\ j \in Live /\ jobs[j] \in Job /\ Shape(jobs[j], Ids)
        /\ jobs[j].pc = "announce"
    BY <1>2, LiveJob DEF Announce, At
  <2>2. JournalTypeOK' /\ Ids' = Ids /\ EnvironmentTypeOK'
    BY <1>2, SameRowsShaped, EnvironmentTyped DEF Announce, NoStorageError
  <2>3. CASE Goto(j, "fail")
    BY <2>1, <2>2, <2>3, GotoShaped
  <2>4. ASSUME NEW pc \in {"fail", "command"}, NEW task \in {"cleared", "running"},
               jobs' = [jobs EXCEPT ![j].pc = pc, ![j].task = task]
        PROVE  Shaped'
    <3> DEFINE new == [jobs[j] EXCEPT !.pc = pc, !.task = task]
    <3>1. new \in Job
      BY <2>1 DEF Job
    <3>2. Shape(new, Ids')
      BY <2>1, <2>2 DEF Shape, Job
    <3>3. jobs' = [jobs EXCEPT ![j] = new]
      BY <2>1, <2>4 DEF Job, Shaped, TypeOK, JobsTypeOK
    <3> HIDE DEF new
    <3> QED
      BY <2>2, <3>1, <3>2, <3>3, SetShaped
  <2>5. \/ Goto(j, "fail")
        \/ jobs' = [jobs EXCEPT
              ![j].pc = IF jobs[j].task = "cleared" THEN "fail" ELSE "command",
              ![j].task = IF @ = "cleared" THEN @ ELSE "running"]
    BY <1>2 DEF Announce
  <2>6. CASE jobs[j].task = "cleared"
    BY <2>1, <2>3, <2>4, <2>5, <2>6 DEF Shaped, TypeOK, JobsTypeOK
  <2>7. CASE jobs[j].task # "cleared"
    BY <2>1, <2>3, <2>4, <2>5, <2>7 DEF Shaped, TypeOK, JobsTypeOK
  <2> QED
    BY <2>6, <2>7
<1>3. CASE SendCommand(j)
  BY <1>3, RunShaped DEF SendCommand, At, SendingPcs
<1>4. CASE RestoreDisabled(j)
  BY <1>4, RunShaped DEF RestoreDisabled, At, SendingPcs
<1>5. CASE Verify(j)
  <2>1. /\ j \in Live /\ jobs[j] \in Job /\ jobs[j].package \in Packages
        /\ Shape(jobs[j], Ids) /\ jobs[j].pc = "verify"
    BY <1>5, LiveJob DEF Verify, At, Job
  <2>2. JournalTypeOK' /\ Ids' = Ids /\ EnvironmentTypeOK'
    BY <1>5, SameRowsShaped, EnvironmentTyped DEF Verify
  <2>3. CASE Goto(j, "fail")
    BY <2>1, <2>2, <2>3, GotoShaped
  <2>4. ASSUME jobs' = [jobs EXCEPT ![j].pc = "complete",
                                    ![j].after = tv[jobs[j].package],
                                    ![j].source = device]
        PROVE  Shaped'
    <3> DEFINE state == tv[jobs[j].package]
               new == [jobs[j] EXCEPT !.pc = "complete", !.after = state,
                                      !.source = device]
    <3>1. state \in State /\ device \in Devices
      BY <2>1 DEF Shaped, TypeOK, JobsTypeOK
    <3>2. jobs' = [jobs EXCEPT ![j] = new]
      BY <2>1, <2>4 DEF Job, Shaped, TypeOK, JobsTypeOK
    <3> HIDE DEF state
    <3>3. new \in Job
      BY <2>1, <3>1 DEF Job
    <3>4. Shape(new, Ids')
      BY <2>1, <2>2, <3>1 DEF Shape, Job
    <3> HIDE DEF new
    <3> QED
      BY <2>1, <2>2, <3>2, <3>3, <3>4, SetShaped
  <2> QED
    BY <1>5, <2>3, <2>4 DEF Verify
<1>6. CASE CompleteRow(j)
  <2>1. /\ j \in Live /\ jobs[j] \in Job /\ Shape(jobs[j], Ids)
        /\ jobs[j].pc = "complete" /\ jobs[j].op \in Ids
        /\ jobs[j].after \in State \cup {NoState}
    BY <1>6, LiveJob DEF CompleteRow, At, Shape, Job
  <2>2. EnvironmentTypeOK'
    BY <1>6, EnvironmentTyped DEF CompleteRow, NoStorageError
  <2>3. JournalTypeOK' /\ Ids' = Ids
    BY <1>6, <2>1, SameRowsShaped, CompleteRows DEF CompleteRow, Shaped, TypeOK
  <2>4. \/ Goto(j, "fail")
        \/ jobs[j].kind = "rollback" /\ Goto(j, "finish")
        \/ Goto(j, "report")
    BY <1>6 DEF CompleteRow
  <2> QED
    BY <2>1, <2>2, <2>3, <2>4, GotoShaped
<1>7. CASE FinishRow(j)
  <2>1. /\ j \in Live /\ jobs[j] \in Job /\ Shape(jobs[j], Ids)
        /\ jobs[j].pc = "finish" /\ jobs[j].op \in Ids
        /\ jobs[j].original \in Ids /\ jobs[j].original # jobs[j].op
    <3>1. /\ j \in Live /\ jobs[j] \in Job /\ Shape(jobs[j], Ids)
          /\ jobs[j].pc = "finish"
      BY <1>7, LiveJob DEF FinishRow, At
    <3>2. jobs[j].original \in Nat /\ jobs[j].op \in Nat
      BY <3>1 DEF Job
    <3> QED
      BY <3>1, <3>2 DEF Shape
  <2>2. EnvironmentTypeOK'
    BY <1>7, EnvironmentTyped DEF FinishRow, NoStorageError
  <2>3. JournalTypeOK' /\ Ids' = Ids
    BY <1>7, <2>1, SameRowsShaped, FinishRows DEF FinishRow, Shaped, TypeOK
  <2>4. Goto(j, "fail") \/ Goto(j, "report")
    BY <1>7 DEF FinishRow
  <2> QED
    BY <2>1, <2>2, <2>3, <2>4, GotoShaped
<1>8. CASE Report(j)
  <2>1. j \in Live /\ jobs[j].pc = "report"
    BY <1>8 DEF Report, At
  <2>2. EnvironmentTypeOK' /\ JournalTypeOK' /\ Ids' = Ids
    BY <1>8, SameRowsShaped, EnvironmentTyped DEF Report, NoStorageError
  <2>3. Goto(j, "fail") \/ End(j)
    BY <1>8 DEF Report
  <2> QED
    BY <2>1, <2>2, <2>3, GotoShaped, EndShaped
<1>9. CASE FailRow(j)
  <2>1. j \in Live /\ jobs[j].op \in Ids
    BY <1>9, LiveJob DEF FailRow, At, Shape
  <2>2. EnvironmentTypeOK'
    BY <1>9, EnvironmentTyped DEF FailRow, NoStorageError
  <2>3. UNCHANGED ops \/ ops' = [ops EXCEPT ![jobs[j].op].status = "uncertain"]
    BY <1>9 DEF FailRow, Fail
  <2>4. JournalTypeOK' /\ Ids' = Ids
    BY <2>1, <2>3, SameRowsShaped, StatusRows DEF Status, Shaped, TypeOK
  <2> QED
    BY <1>9, <2>1, <2>2, <2>4, EndShaped DEF FailRow
<1>10. CASE InspectEntry(j) \/ Proceed(j)
  <2>1. j \in Live
    BY <1>10 DEF InspectEntry, Proceed, At
  <2>2. EnvironmentTypeOK' /\ JournalTypeOK' /\ Ids' = Ids
    BY <1>10, SameRowsShaped, EnvironmentTyped DEF InspectEntry, Proceed
  <2>3. ASSUME NEW new \in Job, Entered(jobs[j], new), jobs' = [jobs EXCEPT ![j] = new]
        PROVE  Shaped'
    <3>1. Shape(new, Ids')
      BY <2>1, <2>3, LiveJob DEF Shape, Entered, RowlessPcs
    <3> QED
      BY <2>1, <2>2, <2>3, <3>1, LiveJob, SetShaped
  <2> QED
    BY <1>10, <2>1, <2>2, <2>3, EndShaped, EntryRecord
<1> QED
  BY <1>1, <1>2, <1>3, <1>4, <1>5, <1>6, <1>7, <1>8, <1>9, <1>10
  DEF ThreadStep

\* clear_finished changes the task field of some jobs only.
LEMMA ClearShaped ==
  ASSUME Shaped, ClearFinished
  PROVE  Shaped'
<1>1. ASSUME NEW j \in Live
      PROVE  /\ Cleared(jobs[j]) \in Job
             /\ Shape(Cleared(jobs[j]), Ids)
  BY LiveJob DEF Job, Shape, Cleared
<1>2. \A j \in Live : Cleared(jobs[j]) # NoJob
  BY <1>1, NoJobIsNoJob
<1>3. jobs' \in [Jobs -> Job \cup {NoJob}]
  BY <1>1 DEF ClearFinished, Shaped, TypeOK, JobsTypeOK
<1>4. \A j \in Jobs : jobs'[j] = IF j \in Live /\ jobs[j].task = "done"
                                THEN Cleared(jobs[j]) ELSE jobs[j]
  BY DEF ClearFinished
<1>5. \A j \in Live' : j \in Live
  BY <1>4 DEF Live
<1>6. JournalTypeOK' /\ Ids' = Ids
  BY SameRowsShaped DEF ClearFinished
<1>7. TypeOK'
  BY <1>3, <1>6 DEF ClearFinished, Shaped, TypeOK, JobsTypeOK
<1>8. \A j \in Live' : Shape(jobs'[j], Ids')
  BY <1>1, <1>4, <1>5, <1>6, LiveJob
<1> QED
  BY <1>7, <1>8 DEF Shaped

LEMMA CrashShaped ==
  ASSUME Shaped, Crash
  PROVE  Shaped'
<1>1. PICK sent \in SUBSET {j \in Live : jobs[j].pc \in SendingPcs} :
         late' = late \cup {CommandOf(j) : j \in sent}
  BY DEF Crash
<1>2. late' \subseteq Command
  BY <1>1, CommandTyped DEF Shaped, TypeOK, JobsTypeOK
<1>3. JournalTypeOK' /\ Ids' = Ids
  BY SameRowsShaped DEF Crash
<1>4. TypeOK'
  BY <1>2, <1>3 DEF Crash, Event, Shaped, TypeOK, JobsTypeOK
<1>5. Live' = {}
  BY DEF Crash, Live
<1> QED
  BY <1>4, <1>5 DEF Shaped

\* An exchange of the television marks every live job.
LEMMA DeviceShaped ==
  ASSUME Shaped, DeviceChange
  PROVE  Shaped'
<1>1. ASSUME NEW j \in Live
      PROVE  Moved(jobs[j]) \in Job /\ Shape(Moved(jobs[j]), Ids)
  BY LiveJob DEF Job, Shape, Moved
<1>2. \A j \in Jobs : jobs'[j] = IF j \in Live THEN Moved(jobs[j]) ELSE NoJob
  BY DEF DeviceChange
<1>3. jobs' \in [Jobs -> Job \cup {NoJob}]
  BY <1>1 DEF DeviceChange
<1>4. \A j \in Live' : j \in Live
  BY <1>2 DEF Live
<1>5. JournalTypeOK' /\ Ids' = Ids
  BY SameRowsShaped DEF DeviceChange
<1>6. TypeOK'
  BY <1>3, <1>5 DEF DeviceChange, Event, Shaped, TypeOK, JobsTypeOK
<1>7. \A j \in Live' : Shape(jobs'[j], Ids')
  BY <1>1, <1>2, <1>4, <1>5, LiveJob
<1> QED
  BY <1>6, <1>7 DEF Shaped

LEMMA EnvironmentShaped ==
  ASSUME Shaped, UNCHANGED <<ops, jobs>>, EnvironmentTypeOK'
  PROVE  Shaped'
<1>1. Live' = Live /\ JournalTypeOK' /\ Ids' = Ids
  BY SameRowsShaped DEF Live
<1> QED
  BY <1>1 DEF Shaped, TypeOK, JobsTypeOK, EnvironmentTypeOK

LEMMA ShapedStep ==
  ASSUME Shaped, [Next]_vars
  PROVE  Shaped'
<1>1. CASE \E j \in Jobs : Request(j) \/ HandlerStep(j) \/ ThreadStep(j)
  BY <1>1, RequestShaped, HandlerShaped, ThreadShaped
<1>2. CASE ClearFinished
  BY <1>2, ClearShaped
<1>3. CASE \E p \in Packages, v \in Versions : ArchiveDownload(p, v)
  <2>1. EnvironmentTypeOK'
    BY <1>3 DEF ArchiveDownload, Shaped, TypeOK, JobsTypeOK, EnvironmentTypeOK
  <2> QED
    BY <1>3, <2>1, EnvironmentShaped DEF ArchiveDownload
<1>4. CASE Crash
  BY <1>4, CrashShaped
<1>5. CASE \E c \in late : LateEffect(c)
  <2> PICK c \in late : LateEffect(c)
    BY <1>5
  <2>1. c \in Command /\ c.package \in Packages
    BY DEF Shaped, TypeOK, JobsTypeOK, Command
  <2>2. EnvironmentTypeOK'
    BY <2>1, EffectTyped DEF LateEffect, Shaped, TypeOK, JobsTypeOK, EnvironmentTypeOK
  <2> QED
    BY <2>2, EnvironmentShaped DEF LateEffect
<1>6. CASE \E c \in [package : Packages, verb : Verbs, version : Apk] : CliCommand(c)
  <2> PICK c \in [package : Packages, verb : Verbs, version : Apk] : CliCommand(c)
    BY <1>6
  <2>1. c \in Command /\ c.package \in Packages
    BY DEF Command
  <2>2. EnvironmentTypeOK'
    BY <2>1, EffectTyped
    DEF CliCommand, Event, Shaped, TypeOK, JobsTypeOK, EnvironmentTypeOK
  <2> QED
    BY <2>2, EnvironmentShaped DEF CliCommand
<1>7. CASE \E p \in Packages, v \in Versions : CliDelete(p, v)
  <2>1. EnvironmentTypeOK'
    BY <1>7 DEF CliDelete, Event, Shaped, TypeOK, JobsTypeOK, EnvironmentTypeOK
  <2> QED
    BY <1>7, <2>1, EnvironmentShaped DEF CliDelete
<1>8. CASE \E p \in Packages : ExternalChange(p)
  <2>1. EnvironmentTypeOK'
    BY <1>8 DEF ExternalChange, Event, Shaped, TypeOK, JobsTypeOK, EnvironmentTypeOK
  <2> QED
    BY <1>8, <2>1, EnvironmentShaped DEF ExternalChange
<1>9. CASE DeviceChange
  BY <1>9, DeviceShaped
<1>10. CASE UNCHANGED vars
  <2>1. EnvironmentTypeOK'
    BY <1>10 DEF vars, Shaped, TypeOK, JobsTypeOK, EnvironmentTypeOK
  <2> QED
    BY <1>10, <2>1, EnvironmentShaped DEF vars
<1> QED
  BY <1>1, <1>2, <1>3, <1>4, <1>5, <1>6, <1>7, <1>8, <1>9, <1>10
  DEF Next, Environment, AwaitRequest

LEMMA ShapedInit == Init => Shaped
<1> SUFFICES ASSUME Init PROVE Shaped
  OBVIOUS
<1>1. JournalTypeOK
  BY DEF Init, JournalInit, JournalTypeOK
<1>2. Live = {}
  BY DEF Init, Live
<1>3. JobsTypeOK
  BY DEF Init, JobsTypeOK
<1> QED
  BY <1>1, <1>2, <1>3 DEF Shaped, TypeOK

LEMMA AlwaysShaped == Spec => []Shaped
<1>1. Shaped /\ [Next]_vars => Shaped'
  BY ShapedStep
<1> QED
  BY ShapedInit, <1>1, PTL DEF Spec

\* Every variable keeps its type, for any bounds, slots and faults.
THEOREM TypeCorrect == Spec => []TypeOK
<1>1. Shaped => TypeOK
  BY DEF Shaped
<1> QED
  BY AlwaysShaped, <1>1, PTL
=============================================================================
