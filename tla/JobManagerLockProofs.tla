------------------------ MODULE JobManagerLockProofs ------------------------
(***************************************************************************)
(* Theorems about the ledger of the job manager: the links between rows    *)
(* and jobs that make it a lock; that it is evidence, never rewritten;     *)
(* that it accounts for the television while only the Controller changes   *)
(* it, so that the job manager implements PackageGate; with one request    *)
(* handler, what can come between the transactions of a rollback; and,     *)
(* while nothing fails, that every package has a way forward.              *)
(***************************************************************************)
EXTENDS JobManagerProofs, FiniteSetTheorems

-----------------------------------------------------------------------------
(* Steps that leave the ledger alone.                                      *)

\* A step of one job: the rows keep their links, the other jobs keep theirs, and
\* the job's new record, if it still is live, has its links and a row of its own.
LEMMA StepLinked ==
  ASSUME Linked, NEW j \in Jobs, RowsLinked', UnresolvedChain',
         \A k \in Live' \ {j} : k \in Live /\ jobs'[k] = jobs[k],
         \A k \in Live \ {j} : JobLinked(jobs[k], ops'),
         j \in Live' => JobLinked(jobs'[j], ops'),
         j \in Live' /\ jobs'[j].op # 0 =>
             \A k \in Live \ {j} : jobs[k].op # jobs'[j].op
  PROVE  Linked'
<1>1. ASSUME NEW k \in Live' PROVE JobLinked(jobs'[k], ops')
  <2>1. CASE k = j
    BY <2>1
  <2>2. CASE k # j
    BY <2>2
  <2> QED
    BY <2>1, <2>2
<1>2. ASSUME NEW k \in Live', NEW l \in Live',
             jobs'[k].op # 0, jobs'[k].op = jobs'[l].op
      PROVE  k = l
  BY <1>2 DEF Linked, JobsOwnRows
<1>3. JobsOwnRows'
  BY <1>2 DEF JobsOwnRows
<1> QED
  BY <1>1, <1>3 DEF Linked

LEMMA SameRowsLinked ==
  ASSUME Linked, UNCHANGED ops
  PROVE  /\ RowsLinked'
         /\ UnresolvedChain'
         /\ \A k \in Live : JobLinked(jobs[k], ops')
<1>1. Ids' = Ids
  BY DEF Ids
<1>2. RowsLinked'
  <2>1. ASSUME NEW i \in Ids PROVE RowLinked(i)' /\ RowRecorded(i)' /\ RowReverted(i)'
    BY <1>1, <2>1 DEF Linked, RowsLinked, RowLinked, RowRecorded, RowReverted
  <2>2. RecordedOnce'
    BY <1>1 DEF Linked, RowsLinked, RecordedOnce
  <2> QED
    BY <1>1, <2>1, <2>2 DEF RowsLinked
<1>3. UnresolvedChain'
  BY <1>1 DEF Linked, UnresolvedChain, IsUnresolved
<1>4. \A k \in Live : JobLinked(jobs[k], ops')
  BY DEF Linked
<1> QED
  BY <1>2, <1>3, <1>4

\* A job that moves on, with its row and its promises kept, or that leaves its row.
LEMMA MoveLinked ==
  ASSUME Shaped, Linked, UNCHANGED ops, NEW j \in Live, NEW new \in Job,
         jobs' = [jobs EXCEPT ![j] = new],
         new.op \in {0, jobs[j].op}, JobLinked(new, ops)
  PROVE  Linked'
<1>1. /\ \A k \in Live' \ {j} : k \in Live /\ jobs'[k] = jobs[k]
      /\ j \in Jobs /\ jobs'[j] = new
  BY DEF Shaped, TypeOK, JobsTypeOK, Live
<1>2. \A k \in Live \ {j} : new.op # 0 => jobs[k].op # new.op
  BY DEF Linked, JobsOwnRows
<1> QED
  BY <1>1, <1>2, SameRowsLinked, StepLinked

\* The same for a job that only moves its pc.
LEMMA GotoLinked ==
  ASSUME Shaped, Linked, UNCHANGED ops, NEW j \in Live,
         NEW pc \in ServingPcs \cup ThreadPcs, Goto(j, pc),
         pc \in OpenPcs => jobs[j].pc \in OpenPcs,
         jobs[j].kind = "rollback" /\ pc # "prepare" => jobs[j].pc # "prepare",
         pc \notin {"complete", "finish"}
  PROVE  Linked'
<1> DEFINE new == [jobs[j] EXCEPT !.pc = pc]
<1>1. jobs[j] \in Job /\ JobLinked(jobs[j], ops)
  BY LiveJob DEF Linked
<1>2. new \in Job /\ new.op = jobs[j].op
  BY <1>1 DEF Job
<1>3. jobs' = [jobs EXCEPT ![j] = new]
  BY <1>1 DEF Goto, Shaped, TypeOK, JobsTypeOK
<1>4. JobLinked(new, ops)
  BY <1>1 DEF JobLinked, Job
<1> QED
  BY <1>2, <1>3, <1>4, MoveLinked

\* A job that ends without touching the ledger.
LEMMA EndLinked ==
  ASSUME Shaped, Linked, UNCHANGED ops, NEW j \in Live, End(j)
  PROVE  Linked'
<1>1. /\ \A k \in Live' : k \in Live /\ k # j /\ jobs'[k] = jobs[k]
      /\ j \in Jobs
  BY DEF Shaped, TypeOK, JobsTypeOK, Live, End
<1> QED
  BY <1>1, SameRowsLinked, StepLinked

LEMMA AcceptLinked ==
  ASSUME Shaped, Linked, NEW j \in Jobs, NEW kind, NEW pc, NEW p,
         NEW state, NEW beforeApk, NEW afterApk, NEW original,
         Accept(j, kind, pc, p, state, beforeApk, afterApk, original),
         pc \notin OpenPcs,
         kind = "rollback" => pc = "prepare" /\ ops[original].package = p
  PROVE  Linked'
<1> DEFINE new == [kind |-> kind, pc |-> pc, package |-> p, identity |-> device,
                   before |-> state, beforeApk |-> beforeApk, afterApk |-> afterApk,
                   op |-> 0, original |-> original, found |-> "", listed |-> {p},
                   after |-> NoState, task |-> "running", source |-> device,
                   moved |-> FALSE]
<1>1. JobLinked(new, ops)
  BY DEF JobLinked
<1>2. jobs' = [jobs EXCEPT ![j] = new] /\ UNCHANGED ops
  BY DEF Accept
<1>3. new.op = 0
  OBVIOUS
<1> HIDE DEF new
<1>4. /\ \A k \in Live' \ {j} : k \in Live /\ jobs'[k] = jobs[k]
      /\ jobs'[j] = new
  BY <1>2 DEF Shaped, TypeOK, JobsTypeOK, Live
<1> QED
  BY <1>1, <1>2, <1>3, <1>4, SameRowsLinked, StepLinked

LEMMA RequestLinked ==
  ASSUME Shaped, Linked, NEW j \in Jobs, Request(j)
  PROVE  Linked'
  BY AcceptLinked
  DEF Request, StartInstall, StartDelete, StartUninstall, StartUpdate,
      StartSetEnabled, StartApply, StartRollback, AcceptMutation, OpenPcs
-----------------------------------------------------------------------------
(* Steps that change a row.                                                *)

LEMMA RowIsOperation ==
  ASSUME Shaped, NEW i \in Ids
  PROVE  ops[i] \in Operation
  BY DEF Shaped, TypeOK, JournalTypeOK, Ids

\* What begin writes for job j.
LEMMA RowFields ==
  ASSUME NEW j
  PROVE  /\ RowOf(j).package = jobs[j].package /\ RowOf(j).action = ActionOf(j)
         /\ RowOf(j).status = "pending" /\ RowOf(j).after = NoState
         /\ RowOf(j).parent = jobs[j].original /\ RowOf(j).device = jobs[j].identity
         /\ jobs[j].kind # "rollback" => RowOf(j).inverse = InverseOf(j)
<1> DEFINE inverse == IF jobs[j].kind = "rollback" THEN "" ELSE InverseOf(j)
<1>1. jobs[j].kind # "rollback" => inverse = InverseOf(j)
  OBVIOUS
<1>2. RowOf(j) = [package |-> jobs[j].package, action |-> ActionOf(j),
                  status |-> "pending", inverse |-> inverse,
                  before |-> jobs[j].before, after |-> NoState,
                  device |-> jobs[j].identity, beforeApk |-> jobs[j].beforeApk,
                  afterApk |-> jobs[j].afterApk, parent |-> jobs[j].original]
  BY DEF RowOf
<1> HIDE DEF inverse
<1> QED
  BY <1>1, <1>2

\* The two rows of a rollback.
LEMMA RollbackIds ==
  ASSUME Shaped, NEW j \in Live, jobs[j].kind = "rollback", jobs[j].op # 0
  PROVE  /\ jobs[j].op \in Ids /\ jobs[j].original \in Ids
         /\ jobs[j].op \in Nat /\ jobs[j].original < jobs[j].op
         /\ jobs[j].original # jobs[j].op
<1>1. /\ jobs[j].op \in Ids /\ jobs[j].original \in Ids
      /\ jobs[j].original < jobs[j].op
  BY LiveJob DEF Shape
<1>2. Ids = 1..Len(ops) /\ Len(ops) \in Nat
  BY IdsInterval DEF Shaped, TypeOK, JournalTypeOK
<1> QED
  BY <1>1, <1>2

\* A row that gets its verdict, or is reconciled, keeps the links of all rows and
\* of every job but the one that worked on it.
LEMMA VerdictLinked ==
  ASSUME Shaped, Linked, Ids' = Ids, NEW i \in Ids,
         NEW s \in {"applied", "uncertain", "reconciled"},
         IsUnresolved(i), s = "uncertain" => IsPending(i),
         \A k \in Ids \ {i} : ops'[k] = ops[k],
         ops'[i].status = s, ops'[i].package = ops[i].package,
         ops'[i].parent = ops[i].parent, ops'[i].device = ops[i].device,
         ops'[i].inverse = ops[i].inverse, ops'[i].before = ops[i].before
  PROVE  /\ RowsLinked'
         /\ UnresolvedChain'
         /\ \A j \in Live : ~(IsPending(i) /\ jobs[j].op = i) => JobLinked(jobs[j], ops')
<1>1. RowsLinked'
  <2>1. ASSUME NEW k \in Ids
        PROVE  /\ ops'[k].package = ops[k].package
               /\ ops'[k].parent = ops[k].parent
               /\ ops'[k].device = ops[k].device
               /\ ops'[k].inverse = ops[k].inverse
               /\ ops'[k].before = ops[k].before
               /\ ops'[k].status = "pending" => ops[k].status = "pending"
               /\ ops'[k].status = "reverted" <=> ops[k].status = "reverted"
               /\ ops'[k].status = "rollback-recorded" <=>
                    ops[k].status = "rollback-recorded"
               /\ ops[k].status = "rollback-recorded" => ops'[k].after = ops[k].after
    BY <2>1 DEF IsUnresolved
  <2>2. ASSUME NEW k \in Ids PROVE RowLinked(k)' /\ RowRecorded(k)'
    <3>1. RowLinked(k) /\ RowRecorded(k) /\ ops'[k].parent = ops[k].parent
      BY <2>1 DEF Linked, RowsLinked
    <3>2. CASE ops[k].parent = 0
      BY <2>1, <3>1, <3>2 DEF RowLinked, RowRecorded
    <3>3. CASE ops[k].parent # 0
      <4> DEFINE m == ops[k].parent
      <4>1. m \in Ids
        BY <3>1, <3>3 DEF RowLinked
      <4>2. /\ ops'[m].package = ops[m].package
            /\ ops'[m].device = ops[m].device
            /\ ops'[m].before = ops[m].before
            /\ ops'[m].status = "pending" => ops[m].status = "pending"
            /\ ops'[m].status = "reverted" <=> ops[m].status = "reverted"
        BY <2>1, <4>1
      <4> HIDE DEF m
      <4>3. ops'[k].parent = m /\ ops[k].parent = m
        BY <3>1 DEF m
      <4>4. RowLinked(k)'
        BY <2>1, <3>1, <3>3, <4>1, <4>2, <4>3 DEF RowLinked
      <4>5. RowRecorded(k)'
        BY <2>1, <3>1, <3>3, <4>2, <4>3 DEF RowRecorded
      <4> QED
        BY <4>4, <4>5
    <3> QED
      BY <3>2, <3>3
  <2>4. ASSUME NEW k \in Ids PROVE RowReverted(k)'
    BY <2>1, <2>4 DEF Linked, RowsLinked, RowReverted
  <2>5. RecordedOnce'
    BY <2>1 DEF Linked, RowsLinked, RecordedOnce
  <2> QED
    BY <2>2, <2>4, <2>5 DEF RowsLinked
<1>2. UnresolvedChain'
  <2>1. ASSUME NEW k \in Ids, NEW l \in Ids, ops'[k].package = ops'[l].package,
               IsUnresolved(k)', IsUnresolved(l)', k < l
        PROVE  ops'[l].parent = k /\ ops'[k].status = "uncertain"
    <3>1. IsUnresolved(k) /\ IsUnresolved(l) /\ ops[k].package = ops[l].package
      BY <2>1 DEF IsUnresolved
    <3>2. ops[l].parent = k /\ ops[k].status = "uncertain"
      BY <2>1, <3>1 DEF Linked, UnresolvedChain
    <3>3. ops'[k].status = "uncertain"
      BY <2>1, <3>2 DEF IsUnresolved, IsPending
    <3> QED
      BY <3>2, <3>3
  <2> QED
    BY <2>1 DEF UnresolvedChain
<1>3. ASSUME NEW j \in Live, ~(IsPending(i) /\ jobs[j].op = i)
      PROVE  JobLinked(jobs[j], ops')
  <2>1. /\ JobLinked(jobs[j], ops)
        /\ jobs[j].op # 0 => jobs[j].op \in Ids
        /\ jobs[j].kind = "rollback" => jobs[j].original \in Ids
        /\ jobs[j].pc \in OpenPcs \cup {"finish"} => jobs[j].op # 0
    BY LiveJob DEF Linked, Shape, OpenPcs, RowlessPcs
  <2> QED
    BY <1>3, <2>1 DEF JobLinked, IsUnresolved, IsPending
<1> QED
  BY <1>1, <1>2, <1>3

\* A job that moves on or ends while the rows change under it.
LEMMA RowsMoveLinked ==
  ASSUME Shaped, Linked, NEW j \in Live, RowsLinked', UnresolvedChain',
         \A k \in Live \ {j} : JobLinked(jobs[k], ops'),
         NEW pc, JobLinked([jobs[j] EXCEPT !.pc = pc], ops'), Goto(j, pc)
  PROVE  Linked'
<1> DEFINE new == [jobs[j] EXCEPT !.pc = pc]
<1>1. jobs[j] \in Job /\ j \in Jobs
  BY LiveJob
<1>2. new.op = jobs[j].op /\ jobs' = [jobs EXCEPT ![j] = new]
  BY <1>1 DEF Goto, Job, Shaped, TypeOK, JobsTypeOK
<1> HIDE DEF new
<1>3. /\ \A k \in Live' \ {j} : k \in Live /\ jobs'[k] = jobs[k]
      /\ jobs'[j] = new
  BY <1>1, <1>2 DEF Shaped, TypeOK, JobsTypeOK, Live
<1>4. \A k \in Live \ {j} : new.op # 0 => jobs[k].op # new.op
  BY <1>2 DEF Linked, JobsOwnRows
<1>5. JobLinked(new, ops')
  BY DEF new
<1> QED
  BY <1>1, <1>3, <1>4, <1>5, StepLinked

LEMMA RowsEndLinked ==
  ASSUME Shaped, Linked, NEW j \in Live, RowsLinked', UnresolvedChain',
         \A k \in Live \ {j} : JobLinked(jobs[k], ops'), End(j)
  PROVE  Linked'
<1>1. /\ \A k \in Live' : k \in Live /\ k # j /\ jobs'[k] = jobs[k]
      /\ j \in Jobs
  BY DEF Shaped, TypeOK, JobsTypeOK, Live, End
<1> QED
  BY <1>1, StepLinked

\* A job at "reconcile" ends, its original reconciled or left alone.
LEMMA ReconcileLinked ==
  ASSUME Shaped, Linked, NEW j \in Jobs, Reconcile(j)
  PROVE  Linked'
<1>1. j \in Live /\ jobs[j].original \in Ids /\ End(j)
  BY LiveJob DEF Reconcile, At, Shape
<1>2. CASE UNCHANGED ops
  BY <1>1, <1>2, EndLinked
<1>3. CASE ReconcileNoChange(jobs[j].original)
  <2> DEFINE i == jobs[j].original
  <2>1. ops[i].status = "uncertain" /\ i \in Ids
    BY <1>1, <1>3 DEF ReconcileNoChange
  <2>2. /\ Ids' = Ids
        /\ \A k \in Ids : ops'[k] =
              IF k = i THEN [ops[i] EXCEPT !.status = "reconciled"] ELSE ops[k]
    BY <1>3, <2>1, StatusRows DEF ReconcileNoChange, Status, Shaped, TypeOK
  <2>3. ops[i] \in Operation
    BY <2>1, RowIsOperation
  <2> HIDE DEF i
  <2>4. /\ RowsLinked'
        /\ UnresolvedChain'
        /\ \A k \in Live : JobLinked(jobs[k], ops')
    BY <2>1, <2>2, <2>3, VerdictLinked DEF IsUnresolved, IsPending, Operation
  <2> QED
    BY <1>1, <2>4, RowsEndLinked
<1> QED
  BY <1>2, <1>3 DEF Reconcile

\* The verdict of the job that owns the row leaves every other job its promises.
LEMMA OwnVerdictLinked ==
  ASSUME Shaped, Linked, NEW j \in Live, NEW i \in Ids, jobs[j].op = i, i # 0,
         NEW s \in {"applied", "uncertain"}, IsPending(i),
         Ids' = Ids, \A k \in Ids \ {i} : ops'[k] = ops[k],
         ops'[i].status = s, ops'[i].package = ops[i].package,
         ops'[i].parent = ops[i].parent, ops'[i].device = ops[i].device,
         ops'[i].inverse = ops[i].inverse, ops'[i].before = ops[i].before
  PROVE  /\ RowsLinked'
         /\ UnresolvedChain'
         /\ \A k \in Live \ {j} : JobLinked(jobs[k], ops')
<1>1. \A k \in Live \ {j} : jobs[k].op # i
  BY DEF Linked, JobsOwnRows
<1>2. /\ RowsLinked'
      /\ UnresolvedChain'
      /\ \A k \in Live : ~(IsPending(i) /\ jobs[k].op = i) => JobLinked(jobs[k], ops')
  BY VerdictLinked DEF IsUnresolved, IsPending
<1> QED
  BY <1>1, <1>2

LEMMA CompleteLinked ==
  ASSUME Shaped, Linked, NEW j \in Jobs, CompleteRow(j)
  PROVE  Linked'
<1> DEFINE i == jobs[j].op
           next == IF jobs[j].kind = "rollback" THEN "finish" ELSE "report"
<1>1. /\ j \in Live /\ jobs[j] \in Job /\ Shape(jobs[j], Ids)
      /\ jobs[j].pc = "complete" /\ i \in Ids /\ i # 0
      /\ JobLinked(jobs[j], ops) /\ jobs[j].op = i
  BY LiveJob DEF CompleteRow, At, Shape, RowlessPcs, Linked
<1>2. CASE Goto(j, "fail") /\ UNCHANGED ops
  BY <1>1, <1>2, GotoLinked DEF ThreadPcs, OpenPcs
<1>3. CASE Complete(i, jobs[j].after) /\ Goto(j, next)
  <2> HIDE DEF i
  <2>1. jobs[j].after \in State \cup {NoState} /\ IsPending(i)
    BY <1>1, <1>3 DEF Job, Complete
  <2>2. /\ Ids' = Ids
        /\ \A k \in Ids \ {i} : ops'[k] = ops[k]
        /\ ops'[i] = [ops[i] EXCEPT !.status = "applied", !.after = jobs[j].after]
    BY <1>1, <1>3, <2>1, CompleteRows DEF Shaped, TypeOK
  <2>3. ops[i] \in Operation
    BY <1>1, RowIsOperation
  <2>4. /\ ops'[i].status = "applied" /\ ops'[i].after = jobs[j].after
        /\ ops'[i].package = ops[i].package /\ ops'[i].parent = ops[i].parent
        /\ ops'[i].device = ops[i].device /\ ops'[i].inverse = ops[i].inverse
        /\ ops'[i].before = ops[i].before
    BY <2>2, <2>3 DEF Operation
  <2>5. /\ RowsLinked'
        /\ UnresolvedChain'
        /\ \A k \in Live \ {j} : JobLinked(jobs[k], ops')
    BY <1>1, <2>1, <2>2, <2>4, OwnVerdictLinked
  <2>6. jobs[j].kind = "rollback" => ops'[jobs[j].original] = ops[jobs[j].original]
    BY <1>1, <2>2, RollbackIds
  <2>7. next \in {"finish", "report"} /\ (next = "finish" => jobs[j].kind = "rollback")
    OBVIOUS
  <2> HIDE DEF next
  <2>8. JobLinked([jobs[j] EXCEPT !.pc = next], ops')
    BY <1>1, <2>4, <2>6, <2>7 DEF JobLinked, Job, OpenPcs
  <2> QED
    BY <1>1, <1>3, <2>5, <2>8, RowsMoveLinked
<1> QED
  BY <1>2, <1>3 DEF CompleteRow

LEMMA FailLinked ==
  ASSUME Shaped, Linked, NEW j \in Jobs, FailRow(j)
  PROVE  Linked'
<1> DEFINE i == jobs[j].op
<1>1. j \in Live /\ i \in Ids /\ i # 0 /\ jobs[j].op = i /\ End(j)
  BY LiveJob DEF FailRow, At, Shape, RowlessPcs
<1>2. CASE UNCHANGED ops
  BY <1>1, <1>2, EndLinked
<1> HIDE DEF i
<1>3. CASE IsPending(i) /\ ops' = [ops EXCEPT ![i].status = "uncertain"]
  <2>1. /\ Ids' = Ids
        /\ \A k \in Ids : ops'[k] =
              IF k = i THEN [ops[i] EXCEPT !.status = "uncertain"] ELSE ops[k]
    BY <1>1, <1>3, StatusRows DEF Status, Shaped, TypeOK
  <2>2. ops[i] \in Operation
    BY <1>1, RowIsOperation
  <2>3. /\ ops'[i].status = "uncertain" /\ ops'[i].package = ops[i].package
        /\ ops'[i].parent = ops[i].parent /\ ops'[i].device = ops[i].device
        /\ ops'[i].inverse = ops[i].inverse /\ ops'[i].before = ops[i].before
        /\ \A k \in Ids \ {i} : ops'[k] = ops[k]
    BY <1>1, <2>1, <2>2 DEF Operation
  <2>4. /\ RowsLinked'
        /\ UnresolvedChain'
        /\ \A k \in Live \ {j} : JobLinked(jobs[k], ops')
    BY <1>1, <1>3, <2>1, <2>3, OwnVerdictLinked
  <2> QED
    BY <1>1, <2>4, RowsEndLinked
<1> QED
  BY <1>2, <1>3 DEF FailRow, Fail, i

\* The new row of a job at "begin": a rollback of the row that blocks it, if any.
LEMMA BeginRowsLinked ==
  ASSUME Shaped, Linked, NEW j \in Live, jobs[j].pc = "begin", Begin(RowOf(j)),
         NEW n, n = Len(ops) + 1
  PROVE  /\ RowsLinked'
         /\ UnresolvedChain'
         /\ \A k \in Live : JobLinked(jobs[k], ops')
         /\ ops'[n].package = jobs[j].package
         /\ ops'[n].parent = jobs[j].original
         /\ ops'[n].status = "pending"
         /\ \A k \in Ids : ops'[k] = ops[k]
<1> DEFINE o == jobs[j].original
           row == RowOf(j)
<1>1. /\ jobs[j] \in Job /\ Shape(jobs[j], Ids) /\ JobLinked(jobs[j], ops)
      /\ Ids = 1..Len(ops) /\ Len(ops) \in Nat
  BY LiveJob, IdsInterval DEF Linked, Shaped, TypeOK, JournalTypeOK
<1>2. /\ Ids' = Ids \cup {n} /\ n \notin Ids /\ n \in Nat
      /\ \A k \in Ids : ops'[k] = ops[k] /\ k < n
      /\ ops'[n] = row
  BY <1>1, RowTyped, BeginRows DEF At, Shaped, TypeOK
<1>3. /\ row.package = jobs[j].package /\ row.parent = o
      /\ row.status = "pending" /\ row.device = jobs[j].identity
  BY DEF RowOf
<1>4. MayBegin(jobs[j].package, o)
  BY <1>3 DEF Begin
<1>5. o # 0 => /\ o \in Ids
               /\ ops[o].package = jobs[j].package
               /\ ops[o].device = jobs[j].identity
               /\ ops[o].status # "pending"
               /\ ops[o].inverse # ""
               /\ row.inverse = ""
  BY <1>1 DEF Shape, JobLinked, RowOf
<1> HIDE DEF o, row
<1>6. RowsLinked'
  <2>1. ASSUME NEW k \in Ids PROVE RowLinked(k)' /\ RowRecorded(k)'
    <3>1. RowLinked(k) /\ RowRecorded(k) /\ ops'[k] = ops[k]
      BY <1>2 DEF Linked, RowsLinked
    <3>2. CASE ops[k].parent = 0
      BY <3>1, <3>2 DEF RowLinked, RowRecorded
    <3>3. CASE ops[k].parent # 0
      <4>1. ops[k].parent \in Ids /\ ops'[ops[k].parent] = ops[ops[k].parent]
        BY <1>2, <3>1, <3>3 DEF RowLinked
      <4> QED
        BY <1>2, <3>1, <3>3, <4>1 DEF RowLinked, RowRecorded
    <3> QED
      BY <3>2, <3>3
  <2>2. ASSUME NEW k \in Ids PROVE RowReverted(k)'
    BY <1>2 DEF Linked, RowsLinked, RowReverted
  <2>3. RowLinked(n)' /\ RowRecorded(n)' /\ RowReverted(n)'
    BY <1>2, <1>3, <1>5 DEF RowLinked, RowRecorded, RowReverted
  <2>4. RecordedOnce'
    BY <1>2, <1>3 DEF Linked, RowsLinked, RecordedOnce
  <2> QED
    BY <1>2, <2>1, <2>2, <2>3, <2>4 DEF RowsLinked
<1>7. UnresolvedChain'
  <2>1. ASSUME NEW i \in Ids, IsUnresolved(i), ops[i].package = jobs[j].package
        PROVE  i = o /\ ops[i].status = "uncertain"
    <3>1. o \in Ids /\ IsUnresolved(o) /\ ops[o].package = jobs[j].package /\ i <= o
      BY <1>4, <2>1 DEF MayBegin, Unresolved
    <3>2. o # 0
      BY <1>1, <3>1
    <3>3. i = o
      <4>1. SUFFICES ASSUME i < o PROVE FALSE
        BY <1>1, <3>1
      <4>2. ops[o].parent = i /\ i # 0
        BY <1>1, <2>1, <3>1, <4>1 DEF Linked, UnresolvedChain
      <4>3. ops[o].inverse = ""
        BY <3>1, <4>2 DEF Linked, RowsLinked, RowLinked
      <4> QED
        BY <1>5, <3>2, <4>3
    <3> QED
      BY <1>5, <2>1, <3>2, <3>3 DEF IsUnresolved
  <2>2. ASSUME NEW i \in Ids', NEW k \in Ids', ops'[i].package = ops'[k].package,
               IsUnresolved(i)', IsUnresolved(k)', i < k
        PROVE  ops'[k].parent = i /\ ops'[i].status = "uncertain"
    <3>1. CASE k = n
      <4>1. i # n
        BY <1>2, <2>2, <3>1
      <4>2. i \in Ids /\ ops'[i] = ops[i]
        BY <1>2, <4>1
      <4>3. IsUnresolved(i) /\ ops[i].package = jobs[j].package
        BY <1>2, <1>3, <2>2, <3>1, <4>2 DEF IsUnresolved
      <4>4. i = o /\ ops[i].status = "uncertain"
        BY <2>1, <4>2, <4>3
      <4> QED
        BY <1>2, <1>3, <3>1, <4>2, <4>4
    <3>2. CASE k # n
      <4>1. k \in Ids /\ i \in Ids
        BY <1>1, <1>2, <2>2, <3>2
      <4> QED
        BY <1>2, <2>2, <4>1 DEF Linked, UnresolvedChain, IsUnresolved
    <3> QED
      BY <3>1, <3>2
  <2> QED
    BY <2>2 DEF UnresolvedChain
<1>8. ASSUME NEW k \in Live PROVE JobLinked(jobs[k], ops')
  <2>1. /\ JobLinked(jobs[k], ops)
        /\ jobs[k].op # 0 => jobs[k].op \in Ids
        /\ jobs[k].kind = "rollback" => jobs[k].original \in Ids
        /\ jobs[k].pc \in OpenPcs \cup {"finish"} => jobs[k].op # 0
    BY LiveJob DEF Linked, Shape, OpenPcs, RowlessPcs
  <2> QED
    BY <1>2, <2>1 DEF JobLinked
<1> QED
  BY <1>2, <1>3, <1>6, <1>7, <1>8 DEF o

LEMMA BeginLinked ==
  ASSUME Shaped, Linked, NEW j \in Jobs, BeginRow(j)
  PROVE  Linked'
<1> DEFINE n == Len(ops) + 1
           next == CASE jobs[j].kind = "update" -> "announce"
                     [] jobs[j].kind = "apply" -> "command"
                     [] OTHER -> "spawn"
           new == [jobs[j] EXCEPT !.op = n, !.pc = next]
<1>1. /\ j \in Live /\ jobs[j] \in Job /\ Shape(jobs[j], Ids)
      /\ jobs[j].pc = "begin" /\ JobLinked(jobs[j], ops)
      /\ Begin(RowOf(j))
  BY LiveJob DEF BeginRow, At, Linked
<1>2. next \in {"announce", "command", "spawn"}
  OBVIOUS
<1>3. jobs' = [jobs EXCEPT ![j] = new]
  BY <1>1 DEF BeginRow, Job, Shaped, TypeOK, JobsTypeOK
<1>4. /\ n \notin Ids
      /\ \A k \in Live : jobs[k].op # 0 => jobs[k].op # n
  BY <1>1, IdsInterval, LiveJob DEF Shaped, TypeOK, JournalTypeOK
<1> HIDE DEF next, n
<1>5. /\ RowsLinked'
      /\ UnresolvedChain'
      /\ \A k \in Live : JobLinked(jobs[k], ops')
      /\ ops'[n].package = jobs[j].package
      /\ ops'[n].parent = jobs[j].original
      /\ ops'[n].status = "pending"
      /\ \A k \in Ids : ops'[k] = ops[k]
  BY <1>1, BeginRowsLinked DEF n
<1>6. jobs[j].kind = "rollback" => ops'[jobs[j].original] = ops[jobs[j].original]
  BY <1>1, <1>5 DEF Shape
<1>7. JobLinked(new, ops')
  <2>1. /\ new.op = n /\ new.pc = next /\ new.kind = jobs[j].kind
        /\ new.package = jobs[j].package /\ new.original = jobs[j].original
        /\ new.identity = jobs[j].identity /\ new.after = jobs[j].after
    BY <1>1 DEF Job
  <2> HIDE DEF new
  <2> QED
    <3>1. new.kind = "rollback" => /\ ops'[new.original] = ops[new.original]
                                   /\ ops[new.original].package = new.package
                                   /\ ops[new.original].status # "pending"
                                   /\ ops[new.original].inverse # ""
                                   /\ ops[new.original].device = new.identity
      BY <1>1, <1>6, <2>1 DEF JobLinked
    <3>2. /\ ops'[new.op].package = new.package /\ ops'[new.op].parent = new.original
          /\ ops'[new.op].status = "pending" /\ new.pc \notin {"complete", "finish"}
      BY <1>2, <1>5, <2>1
    <3> QED
      BY <3>1, <3>2 DEF JobLinked
<1>8. new.op = n /\ n # 0
  <2>1. Len(ops) \in Nat
    BY DEF Shaped, TypeOK, JournalTypeOK
  <2>2. n # 0
    BY <2>1 DEF n
  <2> QED
    BY <1>1, <2>2 DEF Job
<1> HIDE DEF new
<1>9. /\ \A k \in Live' \ {j} : k \in Live /\ jobs'[k] = jobs[k]
      /\ jobs'[j] = new
  BY <1>3 DEF Shaped, TypeOK, JobsTypeOK, Live
<1>10. \A k \in Live \ {j} : jobs[k].op # new.op
  BY <1>4, <1>8
<1> QED
  BY <1>5, <1>7, <1>9, <1>10, StepLinked

\* finish_rollback settles two rows at once; no other job works on either.
LEMMA FinishRowsLinked ==
  ASSUME Shaped, Linked, NEW j \in Live, jobs[j].pc = "finish",
         NEW o \in Ids, o = jobs[j].original, NEW r \in Ids, r = jobs[j].op,
         FinishRollback(o, r)
  PROVE  /\ RowsLinked'
         /\ UnresolvedChain'
         /\ \A k \in Live \ {j} : JobLinked(jobs[k], ops')
         /\ ops'[r].package = jobs[j].package
         /\ ops'[r].parent = o
         /\ ops'[o].package = jobs[j].package
         /\ ops'[o].status = "reverted"
         /\ ops'[o].inverse # ""
         /\ ops'[o].device = jobs[j].identity
<1>0. jobs[j] \in Job /\ jobs[j].kind = "rollback" /\ r # 0
  BY LiveJob DEF Shape, RowlessPcs
<1>1. /\ jobs[j] \in Job /\ Shape(jobs[j], Ids) /\ JobLinked(jobs[j], ops)
      /\ jobs[j].kind = "rollback" /\ r # 0 /\ o < r /\ r \in Nat /\ o # r
      /\ ops[o] \in Operation /\ ops[r] \in Operation
  BY <1>0, LiveJob, RollbackIds, RowIsOperation DEF Linked
<1>2. /\ Ids' = Ids
      /\ \A k \in Ids : ops'[k] =
           IF k = o THEN [ops[o] EXCEPT !.status = "reverted"]
           ELSE IF k = r THEN [ops[r] EXCEPT !.status = "rollback-recorded"]
           ELSE ops[k]
  BY <1>1, FinishRows DEF Shaped, TypeOK
<1>3. /\ ops[o].package = jobs[j].package /\ ops[o].inverse # ""
      /\ ops[o].device = jobs[j].identity
      /\ ops[o].status \in {"applied", "uncertain"}
      /\ ops[r].package = jobs[j].package /\ ops[r].parent = o
      /\ ops[r].status = "applied" /\ ops[r].after = ops[o].before
  BY <1>1 DEF JobLinked, FinishRollback, CanFinish
<1>4. ops'[o].status = "reverted" /\ ops'[r].status = "rollback-recorded"
  BY <1>1, <1>2 DEF Operation
<1>5. ASSUME NEW k \in Ids
      PROVE  /\ ops'[k].package = ops[k].package
             /\ ops'[k].parent = ops[k].parent
             /\ ops'[k].device = ops[k].device
             /\ ops'[k].inverse = ops[k].inverse
             /\ ops'[k].before = ops[k].before
             /\ ops'[k].after = ops[k].after
             /\ k \notin {o, r} => ops'[k].status = ops[k].status
  <2>1. CASE k = o
    BY <1>1, <1>2, <2>1 DEF Operation
  <2>2. CASE k = r
    BY <1>1, <1>2, <2>2 DEF Operation
  <2>3. CASE k \notin {o, r}
    BY <1>2, <2>3
  <2> QED
    BY <2>1, <2>2, <2>3
<1>6. o # 0
  BY IdsInterval DEF Shaped, TypeOK
<1>7. RowsLinked'
  <2>1. ASSUME NEW k \in Ids PROVE RowLinked(k)' /\ RowRecorded(k)'
    <3>1. /\ RowLinked(k) /\ RowRecorded(k)
          /\ Ids' = Ids
          /\ ops'[k].parent = ops[k].parent
          /\ ops'[k].package = ops[k].package
          /\ ops'[k].device = ops[k].device
          /\ ops'[k].inverse = ops[k].inverse
          /\ ops'[k].after = ops[k].after
          /\ ops'[k].status = "rollback-recorded" =>
               k = r \/ ops[k].status = "rollback-recorded"
      BY <1>2, <1>4, <1>5 DEF Linked, RowsLinked
    <3>2. CASE ops[k].parent = 0
      <4>1. k # r
        BY <1>3, <1>6, <3>2
      <4> QED
        BY <3>1, <3>2, <4>1 DEF RowLinked, RowRecorded
    <3>3. CASE ops[k].parent # 0
      <4> DEFINE m == ops[k].parent
      <4>1. /\ m \in Ids /\ m # 0 /\ m < k
            /\ ops[k].parent = m /\ ops'[k].parent = m
            /\ ops[m].package = ops[k].package /\ ops[m].device = ops[k].device
            /\ ops[m].status # "pending" /\ ops[k].inverse = ""
        BY <3>1, <3>3 DEF RowLinked
      <4> HIDE DEF m
      <4>2. /\ ops'[m].package = ops[m].package
            /\ ops'[m].device = ops[m].device
            /\ ops'[m].before = ops[m].before
            /\ ops[m].status # "pending" => ops'[m].status # "pending"
            /\ m = o \/ ops[m].status = "reverted" => ops'[m].status = "reverted"
        BY <1>3, <1>4, <1>5, <4>1
      <4>3. RowLinked(k)'
        BY <3>1, <4>1, <4>2 DEF RowLinked
      <4>4. k = r => m = o /\ ops[k].after = ops[m].before
        BY <1>3, <4>1
      <4>5. RowRecorded(k)'
        BY <3>1, <4>1, <4>2, <4>4 DEF RowRecorded
      <4> QED
        BY <4>3, <4>5
    <3> QED
      BY <3>2, <3>3
  <2>2. ASSUME NEW k \in Ids PROVE RowReverted(k)'
    <3>1. CASE k = o
      <4>1. r \in Ids' /\ ops'[r].parent = k /\ ops'[r].status = "rollback-recorded"
        BY <1>2, <1>3, <1>4, <1>5, <3>1
      <4> QED
        BY <4>1 DEF RowReverted
    <3>2. CASE k # o
      <4>1. SUFFICES ASSUME ops[k].status = "reverted" PROVE RowReverted(k)'
        BY <1>4, <1>5, <3>2 DEF RowReverted
      <4>2. PICK q \in Ids : ops[q].parent = k /\ ops[q].status = "rollback-recorded"
        BY <4>1 DEF Linked, RowsLinked, RowReverted
      <4>3. ops'[q].parent = k /\ ops'[q].status = "rollback-recorded"
        BY <1>3, <1>5, <4>2
      <4> QED
        BY <1>2, <4>3 DEF RowReverted
    <3> QED
      BY <3>1, <3>2
  <2>3. ASSUME NEW q \in Ids, ops[q].status = "rollback-recorded"
        PROVE  ops[q].parent # o
    BY <1>3, <2>3 DEF Linked, RowsLinked, RowRecorded
  <2>4. RecordedOnce'
    <3>1. ASSUME NEW k \in Ids, NEW q \in Ids, ops'[k].parent = ops'[q].parent,
                 ops'[k].status = "rollback-recorded",
                 ops'[q].status = "rollback-recorded"
          PROVE  k = q
      <4>1. k # o /\ q # o /\ ops[k].parent = ops[q].parent
        BY <1>4, <1>5, <3>1
      <4>2. k # r => ops[k].status = "rollback-recorded"
        BY <1>5, <3>1, <4>1
      <4>3. q # r => ops[q].status = "rollback-recorded"
        BY <1>5, <3>1, <4>1
      <4> QED
        BY <1>3, <2>3, <4>1, <4>2, <4>3 DEF Linked, RowsLinked, RecordedOnce
    <3> QED
      BY <1>2, <3>1 DEF RecordedOnce
  <2> QED
    BY <1>2, <2>1, <2>2, <2>4 DEF RowsLinked
<1>8. UnresolvedChain'
  BY <1>2, <1>4, <1>5 DEF Linked, UnresolvedChain, IsUnresolved
<1>9. ASSUME NEW k \in Live \ {j} PROVE JobLinked(jobs[k], ops')
  <2>1. /\ JobLinked(jobs[k], ops)
        /\ jobs[k].op # 0 => jobs[k].op \in Ids
        /\ jobs[k].kind = "rollback" => jobs[k].original \in Ids /\ jobs[k].original # 0
        /\ jobs[k].pc \in OpenPcs \cup {"finish"} => jobs[k].op # 0
        /\ jobs[k].pc = "finish" => jobs[k].kind = "rollback"
    BY LiveJob, IdsInterval
    DEF Linked, Shape, OpenPcs, RowlessPcs, Shaped, TypeOK, JournalTypeOK
  <2>2. jobs[k].op # r
    BY <1>1 DEF Linked, JobsOwnRows
  <2>3. jobs[k].pc = "finish" => jobs[k].op # o
    <3>1. SUFFICES ASSUME jobs[k].pc = "finish", jobs[k].op = o PROVE FALSE
      OBVIOUS
    <3>2. ops[o].parent # 0
      BY <2>1, <3>1 DEF JobLinked
    <3> QED
      BY <1>3, <3>2 DEF Linked, RowsLinked, RowLinked
  <2>4. jobs[k].pc \in OpenPcs => jobs[k].op # o
    BY <1>3, <2>1 DEF JobLinked
  <2> QED
    BY <1>4, <1>5, <2>1, <2>2, <2>3, <2>4 DEF JobLinked
<1> QED
  BY <1>3, <1>4, <1>5, <1>7, <1>8, <1>9

LEMMA FinishLinked ==
  ASSUME Shaped, Linked, NEW j \in Jobs, FinishRow(j)
  PROVE  Linked'
<1>1. /\ j \in Live /\ jobs[j] \in Job /\ Shape(jobs[j], Ids)
      /\ jobs[j].pc = "finish" /\ JobLinked(jobs[j], ops)
      /\ jobs[j].op \in Ids /\ jobs[j].original \in Ids
      /\ jobs[j].kind = "rollback"
  BY LiveJob DEF FinishRow, At, Shape, RowlessPcs, Linked
<1>2. CASE Goto(j, "fail") /\ UNCHANGED ops
  BY <1>1, <1>2, GotoLinked DEF ThreadPcs, OpenPcs
<1>3. CASE FinishRollback(jobs[j].original, jobs[j].op) /\ Goto(j, "report")
  <2>1. /\ RowsLinked'
        /\ UnresolvedChain'
        /\ \A k \in Live \ {j} : JobLinked(jobs[k], ops')
        /\ ops'[jobs[j].op].package = jobs[j].package
        /\ ops'[jobs[j].op].parent = jobs[j].original
        /\ ops'[jobs[j].original].package = jobs[j].package
        /\ ops'[jobs[j].original].status = "reverted"
        /\ ops'[jobs[j].original].inverse # ""
        /\ ops'[jobs[j].original].device = jobs[j].identity
    BY <1>1, <1>3, FinishRowsLinked
  <2>2. JobLinked([jobs[j] EXCEPT !.pc = "report"], ops')
    BY <1>1, <2>1 DEF JobLinked, Job, OpenPcs
  <2> QED
    BY <1>1, <1>3, <2>1, <2>2, RowsMoveLinked
<1> QED
  BY <1>2, <1>3 DEF FinishRow

LEMMA HandlerLinked ==
  ASSUME Shaped, Linked, NEW j \in Jobs, HandlerStep(j)
  PROVE  Linked'
<1>1. CASE Unlink(j)
  BY <1>1, EndLinked DEF Unlink, At
<1>2. CASE Prepare(j)
  <2> DEFINE i == jobs[j].original
  <2>1. /\ j \in Live /\ jobs[j].pc = "prepare" /\ UNCHANGED ops
        /\ jobs[j].kind = "rollback" /\ jobs[j] \in Job
        /\ JobLinked(jobs[j], ops) /\ Shape(jobs[j], Ids)
    BY <1>2, LiveJob DEF Prepare, At, Shape, Linked
  <2>2. CASE End(j)
    BY <2>1, <2>2, EndLinked
  <2>3. CASE /\ Available(i, jobs[j].identity)
             /\ jobs' = [jobs EXCEPT ![j].pc = "newer", ![j].found = ops[i].status]
    <3> DEFINE found == ops[i].status
               new == [jobs[j] EXCEPT !.pc = "newer", !.found = found]
    <3>1. i \in Ids /\ found \in Status
      BY <2>1, RowIsOperation DEF Shape, Operation
    <3>2. jobs' = [jobs EXCEPT ![j] = new]
      BY <2>1, <2>3 DEF Job, Shaped, TypeOK, JobsTypeOK
    <3>3. found # "pending" /\ ops[i].inverse # "" /\ ops[i].device = jobs[j].identity
      BY <2>3 DEF Available
    <3> HIDE DEF found
    <3>4. new \in Job /\ new.op = jobs[j].op
      BY <2>1, <3>1 DEF Job, ServingPcs
    <3>5. ops[i].status # "pending"
      BY <3>3 DEF found
    <3>6. JobLinked(new, ops)
      BY <2>1, <3>3, <3>5 DEF JobLinked, Job, OpenPcs
    <3> QED
      BY <2>1, <3>2, <3>4, <3>6, MoveLinked
  <2> QED
    BY <1>2, <2>2, <2>3 DEF Prepare
<1>7. CASE CheckNewer(j)
  <2>1. j \in Live /\ jobs[j].pc = "newer" /\ UNCHANGED ops
    BY <1>7 DEF CheckNewer, At
  <2>2. CASE End(j)
    BY <2>1, <2>2, EndLinked
  <2>3. ASSUME NEW pc \in {"reconcile", "begin"}, Goto(j, pc)
        PROVE  Linked'
    BY <2>1, <2>3, GotoLinked DEF OpenPcs, ServingPcs
  <2> QED
    BY <1>7, <2>2, <2>3 DEF CheckNewer
<1>3. CASE Reconcile(j)
  BY <1>3, ReconcileLinked
<1>4. CASE BeginRow(j)
  BY <1>4, BeginLinked
<1>5. CASE BeginRefused(j)
  BY <1>5, EndLinked DEF BeginRefused, At
<1>6. CASE Spawn(j)
  <2>1. j \in Live /\ jobs[j].pc = "spawn" /\ UNCHANGED ops
    BY <1>6 DEF Spawn, At
  <2> QED
    BY <1>6, <2>1, GotoLinked, EndLinked DEF Spawn, OpenPcs, ThreadPcs
<1> QED
  BY <1>1, <1>2, <1>3, <1>4, <1>5, <1>6, <1>7 DEF HandlerStep

\* Sending a command, whatever comes of it, changes no row.
LEMMA RunLinked ==
  ASSUME Shaped, Linked, NEW j \in Live, jobs[j].pc \in SendingPcs, UNCHANGED ops,
         NEW next \in {"verify", "restore-disabled"}, Run(j, CommandOf(j), next)
  PROVE  Linked'
<1>1. \E pc \in {"verify", "restore-disabled", "fail"} : Goto(j, pc)
  BY DEF Run
<1> QED
  BY <1>1, GotoLinked DEF SendingPcs, OpenPcs, ThreadPcs

LEMMA ThreadLinked ==
  ASSUME Shaped, Linked, NEW j \in Jobs, ThreadStep(j)
  PROVE  Linked'
<1>1. CASE Download(j)
  <2>1. j \in Live /\ jobs[j].pc = "download" /\ UNCHANGED ops
        /\ jobs[j] \in Job /\ JobLinked(jobs[j], ops) /\ Shape(jobs[j], Ids)
    BY <1>1, LiveJob DEF Download, At, Linked
  <2>2. CASE End(j)
    BY <2>1, <2>2, EndLinked
  <2>3. ASSUME NEW v \in Versions,
               jobs' = [jobs EXCEPT ![j].pc = "begin", ![j].afterApk = v,
                                    ![j].task = "done"]
        PROVE  Linked'
    <3> DEFINE new == [jobs[j] EXCEPT !.pc = "begin", !.afterApk = v, !.task = "done"]
    <3>1. new \in Job /\ new.op = jobs[j].op
      BY <2>1 DEF Job, Apk, ServingPcs
    <3>2. jobs' = [jobs EXCEPT ![j] = new]
      BY <2>1, <2>3 DEF Job, Shaped, TypeOK, JobsTypeOK
    <3>3. JobLinked(new, ops)
      BY <2>1 DEF JobLinked, Job, OpenPcs
    <3> QED
      BY <2>1, <3>1, <3>2, <3>3, MoveLinked
  <2> QED
    BY <1>1, <2>2, <2>3 DEF Download
<1>2. CASE Announce(j)
  <2>1. j \in Live /\ jobs[j].pc = "announce" /\ UNCHANGED ops
        /\ jobs[j] \in Job /\ JobLinked(jobs[j], ops)
    BY <1>2, LiveJob DEF Announce, At, Linked
  <2>2. CASE Goto(j, "fail")
    BY <2>1, <2>2, GotoLinked DEF OpenPcs, ThreadPcs
  <2>3. ASSUME NEW pc \in {"fail", "command"}, NEW t \in {"running", "done", "cleared"},
               jobs' = [jobs EXCEPT ![j].pc = pc, ![j].task = t]
        PROVE  Linked'
    <3> DEFINE new == [jobs[j] EXCEPT !.pc = pc, !.task = t]
    <3>1. new \in Job /\ new.op = jobs[j].op
      BY <2>1 DEF Job, ThreadPcs
    <3>2. jobs' = [jobs EXCEPT ![j] = new]
      BY <2>1, <2>3 DEF Job, Shaped, TypeOK, JobsTypeOK
    <3>3. JobLinked(new, ops)
      BY <2>1 DEF JobLinked, Job, OpenPcs
    <3> QED
      BY <2>1, <3>1, <3>2, <3>3, MoveLinked
  <2>4. CASE jobs' = [jobs EXCEPT
               ![j].pc = IF jobs[j].task = "cleared" THEN "fail" ELSE "command",
               ![j].task = IF @ = "cleared" THEN @ ELSE "running"]
    <3> DEFINE pc == IF jobs[j].task = "cleared" THEN "fail" ELSE "command"
               t == IF jobs[j].task = "cleared" THEN jobs[j].task ELSE "running"
    <3>1. pc \in {"fail", "command"} /\ t \in {"running", "done", "cleared"}
      BY <2>1 DEF Job
    <3>2. jobs' = [jobs EXCEPT ![j].pc = pc, ![j].task = t]
      BY <2>1, <2>4 DEF Job, Shaped, TypeOK, JobsTypeOK
    <3> HIDE DEF pc, t
    <3> QED
      BY <2>3, <3>1, <3>2
  <2> QED
    BY <1>2, <2>2, <2>4 DEF Announce
<1>3. CASE SendCommand(j)
  BY <1>3, RunLinked DEF SendCommand, At, SendingPcs
<1>4. CASE RestoreDisabled(j)
  BY <1>4, RunLinked DEF RestoreDisabled, At, SendingPcs
<1>5. CASE Verify(j)
  <2>1. j \in Live /\ jobs[j].pc = "verify" /\ UNCHANGED ops
        /\ jobs[j] \in Job /\ JobLinked(jobs[j], ops)
    BY <1>5, LiveJob DEF Verify, At, Linked
  <2>2. CASE Goto(j, "fail")
    BY <2>1, <2>2, GotoLinked DEF OpenPcs, ThreadPcs
  <2>3. CASE /\ Verified(j, tv[jobs[j].package])
             /\ jobs' = [jobs EXCEPT ![j].pc = "complete",
                                     ![j].after = tv[jobs[j].package],
                                     ![j].source = device]
    <3> DEFINE state == tv[jobs[j].package]
               new == [jobs[j] EXCEPT !.pc = "complete", !.after = state,
                                      !.source = device]
    <3>1. state \in State /\ device \in Devices
      BY <2>1 DEF Job, Shaped, TypeOK, JobsTypeOK
    <3>2. jobs' = [jobs EXCEPT ![j] = new]
      BY <2>1, <2>3 DEF Job, Shaped, TypeOK, JobsTypeOK
    <3>3. jobs[j].kind = "rollback" => state = ops[jobs[j].original].before
      BY <2>3 DEF Verified
    <3> HIDE DEF state
    <3>4. new \in Job /\ new.op = jobs[j].op
      BY <2>1, <3>1 DEF Job, ThreadPcs
    <3>5. JobLinked(new, ops)
      BY <2>1, <3>3 DEF JobLinked, Job, OpenPcs
    <3> QED
      BY <2>1, <3>2, <3>4, <3>5, MoveLinked
  <2> QED
    BY <1>5, <2>2, <2>3 DEF Verify
<1>6. CASE CompleteRow(j)
  BY <1>6, CompleteLinked
<1>7. CASE FinishRow(j)
  BY <1>7, FinishLinked
<1>8. CASE Report(j)
  <2>1. j \in Live /\ jobs[j].pc = "report" /\ UNCHANGED ops
    BY <1>8 DEF Report, At
  <2> QED
    BY <1>8, <2>1, GotoLinked, EndLinked DEF Report, OpenPcs, ThreadPcs
<1>9. CASE FailRow(j)
  BY <1>9, FailLinked
<1>10. CASE InspectEntry(j) \/ Proceed(j)
  <2>1. j \in Live /\ UNCHANGED ops
    BY <1>10 DEF InspectEntry, Proceed, At
  <2>2. ASSUME NEW new \in Job, Entered(jobs[j], new), jobs' = [jobs EXCEPT ![j] = new]
        PROVE  Linked'
    <3>1. JobLinked(new, ops) /\ new.op = 0
      BY <2>2 DEF JobLinked, Entered, OpenPcs
    <3> QED
      BY <2>1, <2>2, <3>1, MoveLinked
  <2> QED
    BY <1>10, <2>1, <2>2, EndLinked, EntryRecord
<1> QED
  BY <1>1, <1>2, <1>3, <1>4, <1>5, <1>6, <1>7, <1>8, <1>9, <1>10 DEF ThreadStep

\* Every live job keeps its row and its promises, whatever else its record says.
LEMMA AllMoveLinked ==
  ASSUME Shaped, Linked, UNCHANGED ops, Live' \subseteq Live,
         \A j \in Live' : jobs'[j].op = jobs[j].op /\ JobLinked(jobs'[j], ops)
  PROVE  Linked'
<1>1. JobsOwnRows'
  BY DEF Linked, JobsOwnRows
<1>2. \A j \in Live' : JobLinked(jobs'[j], ops')
  OBVIOUS
<1> QED
  BY <1>1, <1>2, SameRowsLinked DEF Linked

LEMMA ClearLinked ==
  ASSUME Shaped, Linked, ClearFinished
  PROVE  Linked'
<1>1. /\ UNCHANGED ops
      /\ \A j \in Jobs : jobs'[j] = IF j \in Live /\ jobs[j].task = "done"
                                   THEN Cleared(jobs[j]) ELSE jobs[j]
  BY DEF ClearFinished
<1>2. \A j \in Live' : j \in Live
  BY <1>1 DEF Live
<1>3. ASSUME NEW j \in Live
      PROVE  Cleared(jobs[j]).op = jobs[j].op /\ JobLinked(Cleared(jobs[j]), ops)
  <2>1. jobs[j] \in Job /\ JobLinked(jobs[j], ops)
    BY LiveJob DEF Linked
  <2> QED
    BY <2>1 DEF Cleared, JobLinked, Job
<1>4. \A j \in Live' : jobs'[j].op = jobs[j].op /\ JobLinked(jobs'[j], ops)
  BY <1>1, <1>2, <1>3 DEF Linked, Live
<1> QED
  BY <1>1, <1>2, <1>4, AllMoveLinked

LEMMA DeviceLinked ==
  ASSUME Shaped, Linked, DeviceChange
  PROVE  Linked'
<1>1. /\ UNCHANGED ops
      /\ \A j \in Jobs : jobs'[j] = IF j \in Live THEN Moved(jobs[j]) ELSE NoJob
  BY DEF DeviceChange
<1>2. \A j \in Live' : j \in Live
  BY <1>1 DEF Live
<1>3. ASSUME NEW j \in Live
      PROVE  Moved(jobs[j]).op = jobs[j].op /\ JobLinked(Moved(jobs[j]), ops)
  <2>1. jobs[j] \in Job /\ JobLinked(jobs[j], ops)
    BY LiveJob DEF Linked
  <2> QED
    BY <2>1 DEF Moved, JobLinked, Job
<1>4. \A j \in Live' : jobs'[j].op = jobs[j].op /\ JobLinked(jobs'[j], ops)
  BY <1>1, <1>2, <1>3 DEF Live
<1> QED
  BY <1>1, <1>2, <1>4, AllMoveLinked

LEMMA CrashLinked ==
  ASSUME Linked, Crash
  PROVE  Linked'
<1>1. Live' = {} /\ UNCHANGED ops
  BY DEF Crash, Live
<1> QED
  BY <1>1, SameRowsLinked DEF Linked, JobsOwnRows

LEMMA EnvironmentLinked ==
  ASSUME Linked, UNCHANGED <<ops, jobs>>
  PROVE  Linked'
<1>1. Live' = Live
  BY DEF Live
<1> QED
  BY <1>1, SameRowsLinked DEF Linked, JobsOwnRows

LEMMA LinkedStep ==
  ASSUME Shaped, Linked, [Next]_vars
  PROVE  Linked'
<1>1. CASE \E j \in Jobs : Request(j) \/ HandlerStep(j) \/ ThreadStep(j)
  BY <1>1, RequestLinked, HandlerLinked, ThreadLinked
<1>2. CASE ClearFinished
  BY <1>2, ClearLinked
<1>3. CASE Crash
  BY <1>3, CrashLinked
<1>4. CASE UNCHANGED <<ops, jobs>>
  BY <1>4, EnvironmentLinked
<1>5. CASE DeviceChange
  BY <1>5, DeviceLinked
<1> QED
  BY <1>1, <1>2, <1>3, <1>4, <1>5
  DEF Next, Environment, AwaitRequest, ArchiveDownload, LateEffect, CliCommand,
      CliDelete, ExternalChange, vars

LEMMA LinkedInit == Init => Linked
<1> SUFFICES ASSUME Init PROVE Linked
  OBVIOUS
<1>1. Ids = {} /\ Live = {}
  BY DEF Init, JournalInit, Ids, Live
<1> QED
  BY <1>1
  DEF Linked, RowsLinked, RecordedOnce, UnresolvedChain, JobsOwnRows
-----------------------------------------------------------------------------
(* What the steps of a job do to its record.                               *)

\* The program order of a handler and of a background thread.
Order == {<<"prepare", "newer">>, <<"newer", "reconcile">>, <<"newer", "begin">>,
          <<"begin", "spawn">>, <<"begin", "announce">>, <<"begin", "command">>,
          <<"spawn", "announce">>, <<"download", "begin">>,
          <<"announce", "command">>, <<"announce", "fail">>,
          <<"command", "restore-disabled">>, <<"command", "verify">>,
          <<"command", "fail">>, <<"restore-disabled", "verify">>,
          <<"restore-disabled", "fail">>, <<"verify", "complete">>, <<"verify", "fail">>,
          <<"complete", "finish">>, <<"complete", "report">>, <<"complete", "fail">>,
          <<"finish", "report">>, <<"finish", "fail">>, <<"report", "fail">>}

\* A profile also goes from one row, or one entry, to the next.
Advance(job, new) ==
    /\ new \in Job
    /\ new.kind = job.kind /\ new.identity = job.identity
    /\ new.original = job.original /\ new.moved = job.moved
    /\ \/ /\ <<job.pc, new.pc>> \in Order
          /\ new.package = job.package /\ new.before = job.before
          /\ job.pc # "begin" => new.op = job.op
          /\ IF new.pc = "complete"
             THEN new.after = tv[job.package] /\ new.source = device /\ UNCHANGED tv
             ELSE new.after = job.after /\ new.source = job.source
       \/ /\ job.kind = "apply" /\ new.op = 0
          /\ job.pc \in {"inspect", "report"} /\ new.pc \in {"begin", "inspect"}

LEMMA JobStep ==
  ASSUME Shaped, NEW j \in Jobs, HandlerStep(j) \/ ThreadStep(j), Shaped'
  PROVE  /\ j \in Live
         /\ \A k \in Jobs \ {j} : jobs'[k] = jobs[k]
         /\ jobs'[j] = NoJob \/ Advance(jobs[j], jobs'[j])
         /\ jobs'[j] # NoJob /\ jobs'[j].op \in Ids => jobs'[j].op = jobs[j].op
<1>1. /\ j \in Live
      /\ jobs \in [Jobs -> Job \cup {NoJob}] /\ jobs' \in [Jobs -> Job \cup {NoJob}]
      /\ jobs[j] \in Job
  <2>1. j \in Live
    BY DEF HandlerStep, ThreadStep, Unlink, Prepare, CheckNewer, Reconcile, BeginRow,
       BeginRefused, Spawn, Download, InspectEntry, Proceed, Announce, SendCommand,
       RestoreDisabled, Verify, CompleteRow, FinishRow, Report, FailRow, At
  <2> QED
    BY <2>1, LiveJob DEF Shaped, TypeOK, JobsTypeOK
<1>2. Len(ops) + 1 \notin Ids
  BY IdsInterval DEF Shaped, TypeOK, JournalTypeOK
<1>3. CASE End(j)
  BY <1>1, <1>3 DEF End
<1>4. ASSUME NEW pc, Goto(j, pc), <<jobs[j].pc, pc>> \in Order,
             jobs[j].pc # "begin", pc # "complete"
      PROVE  /\ \A k \in Jobs \ {j} : jobs'[k] = jobs[k]
             /\ Advance(jobs[j], jobs'[j]) /\ jobs'[j].op = jobs[j].op
  <2> DEFINE new == [jobs[j] EXCEPT !.pc = pc]
  <2>1. jobs' = [jobs EXCEPT ![j] = new]
    BY <1>1, <1>4 DEF Goto
  <2>2. /\ new.kind = jobs[j].kind /\ new.package = jobs[j].package
        /\ new.identity = jobs[j].identity /\ new.before = jobs[j].before
        /\ new.original = jobs[j].original /\ new.pc = pc /\ new.op = jobs[j].op
        /\ new.after = jobs[j].after /\ new.source = jobs[j].source
        /\ new.moved = jobs[j].moved
    BY <1>1 DEF Job
  <2>3. pc \in ServingPcs \cup ThreadPcs
    BY <1>4 DEF Order, ServingPcs, ThreadPcs
  <2>4. new \in Job
    BY <1>1, <2>3 DEF Job
  <2> HIDE DEF new
  <2>5. jobs'[j] = new /\ \A k \in Jobs \ {j} : jobs'[k] = jobs[k]
    BY <1>1, <2>1
  <2> QED
    BY <1>4, <2>2, <2>4, <2>5 DEF Advance
<1> DEFINE Goal == /\ \A k \in Jobs \ {j} : jobs'[k] = jobs[k]
                   /\ jobs'[j] = NoJob \/ Advance(jobs[j], jobs'[j])
                   /\ jobs'[j] # NoJob /\ jobs'[j].op \in Ids => jobs'[j].op = jobs[j].op
<1>5. CASE CheckNewer(j) \/ Spawn(j) \/ SendCommand(j) \/ RestoreDisabled(j)
           \/ FinishRow(j) \/ Report(j) \/ CompleteRow(j)
  <2>1. End(j) \/ \E pc : /\ Goto(j, pc) /\ <<jobs[j].pc, pc>> \in Order
                          /\ jobs[j].pc # "begin" /\ pc # "complete"
    BY <1>5 DEF CheckNewer, Spawn, SendCommand, RestoreDisabled, FinishRow, Report,
                CompleteRow, Run, At, Order
  <2> QED
    BY <1>1, <1>3, <1>4, <2>1
<1>6. CASE Unlink(j) \/ Reconcile(j) \/ BeginRefused(j) \/ FailRow(j)
  BY <1>1, <1>3, <1>6 DEF Unlink, CheckNewer, Reconcile, BeginRefused, FailRow
<1>7. CASE BeginRow(j)
  <2> DEFINE pc == CASE jobs[j].kind = "update" -> "announce"
                     [] jobs[j].kind = "apply" -> "command"
                     [] OTHER -> "spawn"
             new == [jobs[j] EXCEPT !.op = Len(ops) + 1, !.pc = pc]
  <2>1. jobs[j].pc = "begin" /\ jobs' = [jobs EXCEPT ![j] = new]
    BY <1>1, <1>7 DEF BeginRow, At, Job
  <2>2. pc \in {"announce", "command", "spawn"} /\ Len(ops) + 1 \in Nat
    BY DEF Shaped, TypeOK, JournalTypeOK
  <2> HIDE DEF pc
  <2>3. new \in Job
    BY <1>1, <2>2 DEF Job, ThreadPcs, ServingPcs
  <2>4. /\ new.kind = jobs[j].kind /\ new.package = jobs[j].package
        /\ new.identity = jobs[j].identity /\ new.before = jobs[j].before
        /\ new.original = jobs[j].original /\ new.op = Len(ops) + 1
        /\ new.after = jobs[j].after /\ new.source = jobs[j].source
        /\ new.moved = jobs[j].moved /\ new.pc = pc
    BY <1>1 DEF Job
  <2> HIDE DEF new
  <2>5. jobs'[j] = new /\ \A k \in Jobs \ {j} : jobs'[k] = jobs[k]
    BY <1>1, <2>1
  <2> QED
    BY <1>1, <1>2, <2>1, <2>2, <2>3, <2>4, <2>5 DEF Advance, Order
<1>8. CASE Download(j)
  <2>1. ASSUME NEW v \in Versions,
               jobs' = [jobs EXCEPT ![j].pc = "begin", ![j].afterApk = v,
                                    ![j].task = "done"]
        PROVE  Goal
    <3>1. /\ \A k \in Jobs \ {j} : jobs'[k] = jobs[k]
          /\ jobs'[j] = [jobs[j] EXCEPT !.pc = "begin", !.afterApk = v, !.task = "done"]
      BY <1>1, <2>1
    <3>2. jobs'[j] \in Job /\ jobs[j].pc = "download"
      BY <1>1, <1>8, <3>1 DEF Job, ThreadPcs, ServingPcs, Download, InspectEntry, Proceed,
         At, Apk
    <3> QED
      BY <1>1, <3>1, <3>2 DEF Advance, Order, Job
  <2> QED
    BY <1>1, <1>3, <1>8, <2>1 DEF Download
<1>9. CASE Announce(j)
  <2>2. CASE Goto(j, "fail")
    <3>1. jobs[j].pc = "announce"
      BY <1>9 DEF Announce, At
    <3> QED
      BY <1>1, <1>4, <2>2, <3>1 DEF Order
  <2>3. CASE jobs' = [jobs EXCEPT
                 ![j].pc = IF jobs[j].task = "cleared" THEN "fail" ELSE "command",
                 ![j].task = IF @ = "cleared" THEN @ ELSE "running"]
    <3>1. PICK pc \in {"fail", "command"}, t \in {"running", "done", "cleared"} :
             jobs' = [jobs EXCEPT ![j] = [jobs[j] EXCEPT !.pc = pc, !.task = t]]
      BY <1>1, <2>3 DEF Job
    <3>2. /\ jobs'[j] = [jobs[j] EXCEPT !.pc = pc, !.task = t]
          /\ \A k \in Jobs \ {j} : jobs'[k] = jobs[k]
      BY <1>1, <3>1
    <3>3. jobs'[j] \in Job /\ jobs[j].pc = "announce"
      BY <1>1, <1>9, <3>2 DEF Job, ThreadPcs, ServingPcs, Announce, At
    <3> QED
      BY <1>1, <3>2, <3>3 DEF Advance, Order, Job
  <2> QED
    BY <1>1, <1>9, <2>2, <2>3 DEF Announce
<1>10. CASE Verify(j)
  <2>1. jobs[j].pc = "verify" /\ UNCHANGED tv
    BY <1>10 DEF Verify, At
  <2>2. CASE Goto(j, "fail")
    BY <1>1, <1>4, <2>1, <2>2 DEF Order
  <2>3. CASE jobs' = [jobs EXCEPT ![j].pc = "complete", ![j].after = tv[jobs[j].package],
                                  ![j].source = device]
    <3>1. /\ \A k \in Jobs \ {j} : jobs'[k] = jobs[k]
          /\ jobs'[j] = [jobs[j] EXCEPT !.pc = "complete", !.after = tv[jobs[j].package],
                                        !.source = device]
      BY <1>1, <2>3 DEF Job
    <3> DEFINE state == tv[jobs[j].package]
               new == [jobs[j] EXCEPT !.pc = "complete", !.after = state,
                                      !.source = device]
    <3>2. state \in State /\ device \in Devices
      BY <1>1 DEF Job, Shaped, TypeOK, JobsTypeOK
    <3>3. jobs'[j] = new
      BY <3>1
    <3>4. new.after = state /\ state = tv[jobs[j].package]
      BY <1>1 DEF Job
    <3> HIDE DEF state
    <3>5. new \in Job
      BY <1>1, <3>2 DEF Job, ThreadPcs
    <3>6. /\ new.kind = jobs[j].kind /\ new.package = jobs[j].package
          /\ new.identity = jobs[j].identity /\ new.before = jobs[j].before
          /\ new.original = jobs[j].original /\ new.op = jobs[j].op
          /\ new.source = device /\ new.moved = jobs[j].moved /\ new.pc = "complete"
      BY <1>1 DEF Job
    <3> HIDE DEF new
    <3> QED
      <4>1. <<jobs[j].pc, new.pc>> \in Order
        BY <2>1, <3>6 DEF Order
      <4>2. Advance(jobs[j], jobs'[j])
        BY <2>1, <3>3, <3>4, <3>5, <3>6, <4>1 DEF Advance
      <4> QED
        BY <1>1, <3>1, <3>3, <3>6, <4>2
  <2> QED
    BY <1>1, <1>10, <2>2, <2>3 DEF Verify
<1>11. CASE Prepare(j)
  <2> DEFINE found == ops[jobs[j].original].status
             new == [jobs[j] EXCEPT !.pc = "newer", !.found = found]
  <2>1. jobs[j].pc = "prepare" /\ (End(j) \/ jobs' = [jobs EXCEPT ![j] = new])
    BY <1>1, <1>11 DEF Prepare, At, Job
  <2>2. CASE jobs' = [jobs EXCEPT ![j] = new]
    <3>1. jobs'[j] = new /\ \A k \in Jobs \ {j} : jobs'[k] = jobs[k]
      BY <1>1, <2>2
    <3>2. /\ new.kind = jobs[j].kind /\ new.package = jobs[j].package
          /\ new.identity = jobs[j].identity /\ new.before = jobs[j].before
          /\ new.original = jobs[j].original /\ new.op = jobs[j].op
          /\ new.after = jobs[j].after /\ new.source = jobs[j].source
          /\ new.moved = jobs[j].moved /\ new.pc = "newer"
      BY <1>1 DEF Job
    <3>3. found \in Status
      BY <1>1, <2>1, LiveJob, RowIsOperation DEF Shape, Operation
    <3> HIDE DEF found
    <3>4. new \in Job
      BY <1>1, <3>3 DEF Job, ServingPcs
    <3> HIDE DEF new
    <3>5. <<jobs[j].pc, new.pc>> \in Order /\ jobs[j].pc = "prepare"
      BY <2>1, <3>2 DEF Order
    <3>6. Advance(jobs[j], jobs'[j])
      BY <3>1, <3>2, <3>4, <3>5 DEF Advance
    <3> QED
      BY <1>1, <3>1, <3>2, <3>6
  <2> QED
    BY <1>1, <1>3, <2>1, <2>2
<1>12. CASE InspectEntry(j) \/ Proceed(j)
  <2>1. ASSUME NEW new \in Job, Entered(jobs[j], new), jobs' = [jobs EXCEPT ![j] = new]
        PROVE  Goal
    <3>1. jobs'[j] = new /\ \A k \in Jobs \ {j} : jobs'[k] = jobs[k]
      BY <1>1, <2>1
    <3>2. 0 \notin Ids
      BY IdsInterval DEF Shaped, TypeOK
    <3> QED
      BY <2>1, <3>1, <3>2 DEF Entered, Advance
  <2> QED
    BY <1>1, <1>3, <1>12, <2>1, EntryRecord
<1> QED
  BY <1>1, <1>5, <1>6, <1>7, <1>8, <1>9, <1>10, <1>11, <1>12 DEF HandlerStep, ThreadStep

\* A request takes a free slot.
Accepted(j) ==
    /\ j \notin Live
    /\ \A k \in Jobs \ {j} : jobs'[k] = jobs[k]
    /\ jobs'[j].op = 0
    /\ jobs'[j].pc \in {"begin", "download", "prepare", "inspect", "unlink"}
    /\ jobs'[j].kind = "rollback" => jobs'[j].pc = "prepare"
    /\ jobs'[j].kind = "update" <=> jobs'[j].pc = "download"
    /\ jobs'[j].kind = "apply" <=> jobs'[j].pc = "inspect"
    /\ jobs'[j].identity = device /\ ~jobs'[j].moved
    /\ Cardinality({k \in Live : Serving(k)}) < Workers
    /\ UNCHANGED <<ops, tv, device, library, late, faults>>

LEMMA RequestKeeps ==
  ASSUME NEW j \in Jobs, Request(j)
  PROVE  UNCHANGED <<ops, tv, device, library, late, faults>>
<1>1. ASSUME NEW kind, NEW pc, NEW p, NEW state, NEW beforeApk, NEW afterApk, NEW original,
             Accept(j, kind, pc, p, state, beforeApk, afterApk, original)
      PROVE  UNCHANGED <<ops, tv, device, library, late, faults>>
  BY <1>1 DEF Accept
<1> QED
  BY <1>1 DEF Request, StartInstall, StartDelete, StartUninstall, StartUpdate,
      StartSetEnabled, StartApply, StartRollback, AcceptMutation

LEMMA RequestStep ==
  ASSUME Shaped, NEW j \in Jobs, Request(j)
  PROVE  Accepted(j)
<1>1. jobs \in [Jobs -> Job \cup {NoJob}]
  BY DEF Shaped, TypeOK, JobsTypeOK
<1>2. ASSUME NEW kind, NEW pc \in {"begin", "download", "prepare", "inspect", "unlink"},
             NEW p, NEW state, NEW beforeApk, NEW afterApk, NEW original,
             kind = "rollback" => pc = "prepare",
             kind = "update" <=> pc = "download",
             kind = "apply" <=> pc = "inspect",
             Accept(j, kind, pc, p, state, beforeApk, afterApk, original)
      PROVE  Accepted(j)
  <2> DEFINE new == [kind |-> kind, pc |-> pc, package |-> p, identity |-> device,
                     before |-> state, beforeApk |-> beforeApk, afterApk |-> afterApk,
                     op |-> 0, original |-> original, found |-> "", listed |-> {p},
                     after |-> NoState, task |-> "running", source |-> device,
                     moved |-> FALSE]
  <2>1. /\ jobs' = [jobs EXCEPT ![j] = new] /\ jobs[j] = NoJob
        /\ Cardinality({k \in Live : Serving(k)}) < Workers
        /\ UNCHANGED <<ops, tv, device, library, late, faults>>
    BY <1>2 DEF Accept, MayServe
  <2>2. /\ new.op = 0 /\ new.pc = pc /\ new.kind = kind
        /\ new.identity = device /\ new.moved = FALSE
    OBVIOUS
  <2>3. j \notin Live /\ jobs'[j] = new /\ \A k \in Jobs \ {j} : jobs'[k] = jobs[k]
    BY <1>1, <2>1 DEF Live
  <2> HIDE DEF new
  <2> QED
    BY <1>2, <2>1, <2>2, <2>3 DEF Accepted
<1> QED
  BY <1>2 DEF Request, StartInstall, StartDelete, StartUninstall, StartUpdate,
      StartSetEnabled, StartApply, StartRollback, AcceptMutation

\* What the steps of others make of a job's record.
Idle(job) == {job, Cleared(job), Moved(job)}

\* Where a live job of the next state comes from.
Source(k) ==
    \/ k \in Live /\ jobs'[k] \in Idle(jobs[k])
    \/ /\ k \in Live /\ Advance(jobs[k], jobs'[k])
       /\ HandlerStep(k) \/ ThreadStep(k)
       /\ \A m \in Jobs \ {k} : jobs'[m] = jobs[m]
       /\ jobs'[k].op \in Ids => jobs'[k].op = jobs[k].op
    \/ Accepted(k)

LEMMA LiveStep ==
  ASSUME Shaped, Shaped', [Next]_vars, NEW k \in Live'
  PROVE  Source(k)
<1>1. k \in Jobs /\ jobs'[k] # NoJob
  BY DEF Live
<1>2. ASSUME NEW j \in Jobs, Request(j) PROVE Source(k)
  <2>1. Accepted(j)
    BY <1>2, RequestStep
  <2>2. CASE k = j
    BY <2>1, <2>2 DEF Source
  <2>3. CASE k # j
    BY <1>1, <2>1, <2>3 DEF Source, Idle, Accepted, Live
  <2> QED
    BY <2>2, <2>3
<1>3. ASSUME NEW j \in Jobs, HandlerStep(j) \/ ThreadStep(j) PROVE Source(k)
  <2>1. /\ j \in Live
        /\ \A m \in Jobs \ {j} : jobs'[m] = jobs[m]
        /\ jobs'[j] = NoJob \/ Advance(jobs[j], jobs'[j])
        /\ jobs'[j] # NoJob /\ jobs'[j].op \in Ids => jobs'[j].op = jobs[j].op
    BY <1>3, JobStep
  <2>2. CASE k = j
    BY <1>1, <1>3, <2>1, <2>2 DEF Source
  <2>3. CASE k # j
    BY <1>1, <2>1, <2>3 DEF Source, Idle, Live
  <2> QED
    BY <2>2, <2>3
<1>4. CASE UNCHANGED jobs
  BY <1>1, <1>4 DEF Source, Idle, Live
<1>5. CASE ClearFinished \/ DeviceChange
  BY <1>1, <1>5 DEF Source, Idle, Live, ClearFinished, DeviceChange
<1>6. CASE Crash
  BY <1>1, <1>6 DEF Crash
<1> QED
  BY <1>2, <1>3, <1>4, <1>5, <1>6
  DEF Next, Environment, AwaitRequest, ArchiveDownload, LateEffect, CliCommand,
      CliDelete, ExternalChange, vars

\* What they leave alone.
LEMMA IdleJob ==
  ASSUME NEW job \in Job, NEW new \in Idle(job)
  PROVE  /\ new \in Job
         /\ new.kind = job.kind /\ new.pc = job.pc
         /\ new.package = job.package /\ new.op = job.op
         /\ new.original = job.original /\ new.after = job.after
         /\ new.before = job.before /\ new.identity = job.identity
         /\ new.source = job.source /\ (~new.moved => ~job.moved)
  BY DEF Idle, Cleared, Moved, Job

\* No step gives a job another one's row.
LEMMA RowsStayOwned ==
  ASSUME Shaped, Shaped', [Next]_vars, NEW k \in Live', jobs'[k].op \in Ids
  PROVE  k \in Live /\ jobs[k].op = jobs'[k].op
<1>1. Source(k)
  BY LiveStep
<1>2. 0 \notin Ids
  BY IdsInterval DEF Shaped, TypeOK
<1> QED
  BY <1>1, <1>2, LiveJob, IdleJob DEF Source, Accepted
-----------------------------------------------------------------------------
(* The theorems.                                                           *)

LEMMA DeviceStep == ASSUME [Next]_vars PROVE UNCHANGED device \/ DeviceChange
<1>1. CASE \E j \in Jobs : Request(j) \/ HandlerStep(j)
  BY <1>1, RequestKeeps DEF HandlerStep, Unlink, Prepare, CheckNewer, Reconcile, BeginRow,
                            BeginRefused, Spawn
<1>2. CASE \E j \in Jobs : ThreadStep(j)
  BY <1>2 DEF ThreadStep, Download, InspectEntry, Proceed, Announce, SendCommand,
              RestoreDisabled, Verify, CompleteRow, FinishRow, Report, FailRow
<1>3. CASE ~\E j \in Jobs : Request(j) \/ HandlerStep(j) \/ ThreadStep(j)
  BY <1>3 DEF Next, ClearFinished, ArchiveDownload, Environment, Crash, LateEffect,
              CliCommand, CliDelete, ExternalChange, AwaitRequest, vars
<1> QED
  BY <1>1, <1>2, <1>3

LEMMA LocatedStep ==
  ASSUME Shaped, Shaped', JobsLocated, [Next]_vars
  PROVE  JobsLocated'
<1> SUFFICES ASSUME NEW k \in Live', ~jobs'[k].moved
             PROVE  /\ jobs'[k].identity = device'
                    /\ jobs'[k].pc \in {"complete", "finish"} => jobs'[k].source = device'
  BY DEF JobsLocated, Located
<1>1. CASE DeviceChange
  <2>1. jobs'[k] = Moved(jobs[k]) /\ k \in Live
    BY <1>1 DEF DeviceChange, Live
  <2>2. jobs[k] \in Job
    BY <2>1, LiveJob
  <2> QED
    BY <2>1, <2>2 DEF Moved, Job
<1>2. CASE UNCHANGED device
  <2>1. CASE k \in Live /\ jobs'[k] \in Idle(jobs[k])
    <3>1. jobs[k] \in Job
      BY <2>1, LiveJob
    <3>2. /\ ~jobs[k].moved /\ jobs'[k].identity = jobs[k].identity
          /\ jobs'[k].pc = jobs[k].pc /\ jobs'[k].source = jobs[k].source
      BY <2>1, <3>1, IdleJob
    <3> QED
      BY <1>2, <2>1, <3>2 DEF JobsLocated, Located
  <2>2. CASE k \in Live /\ Advance(jobs[k], jobs'[k])
    BY <1>2, <2>2 DEF JobsLocated, Located, Advance, Order
  <2>3. CASE Accepted(k)
    BY <2>3 DEF Accepted
  <2> QED
    BY <2>1, <2>2, <2>3, LiveStep DEF Source
<1> QED
  BY <1>1, <1>2, DeviceStep

\* Rows, jobs and the links between them hold together at every step.
THEOREM AlwaysInductive == Spec => []InductiveInvariant
<1>1. Init => InductiveInvariant
  BY ShapedInit, LinkedInit DEF InductiveInvariant, JobsLocated, Init, Live
<1>2. InductiveInvariant /\ [Next]_vars => InductiveInvariant'
  BY ShapedStep, LinkedStep, LocatedStep DEF InductiveInvariant
<1> QED
  BY <1>1, <1>2, PTL DEF Spec

\* begin's guard makes the ledger a lock: at most one job is between journal.begin
\* and its verdict on a package, for any number of handlers and threads.
THEOREM LedgerIsALock == Spec => []OneMutatorPerPackage
<1>1. InductiveInvariant => OneMutatorPerPackage
  <2> SUFFICES ASSUME InductiveInvariant,
                      NEW j \in Live, NEW k \in Live,
                      jobs[j].package = jobs[k].package,
                      jobs[j].pc \in OpenPcs, jobs[k].pc \in OpenPcs
               PROVE  j = k
    BY DEF OneMutatorPerPackage
  <2> DEFINE a == jobs[j].op
             b == jobs[k].op
  <2>1. /\ a # 0 /\ a \in Ids /\ b # 0 /\ b \in Ids /\ Ids = 1..Len(ops)
        /\ JobLinked(jobs[j], ops) /\ JobLinked(jobs[k], ops)
    BY LiveJob, IdsInterval
    DEF InductiveInvariant, Linked, Shaped, TypeOK, Shape, OpenPcs, RowlessPcs
  <2>2. /\ ops[a].status = "pending" /\ ops[b].status = "pending"
        /\ ops[a].package = ops[b].package
    BY <2>1 DEF JobLinked
  <2> HIDE DEF a, b
  <2>3. ~(a < b) /\ ~(b < a)
    BY <2>1, <2>2 DEF InductiveInvariant, Linked, UnresolvedChain, IsUnresolved
  <2>4. a = b
    BY <2>1, <2>3
  <2> QED
    BY <2>1, <2>4 DEF a, b, InductiveInvariant, Linked, JobsOwnRows
<1> QED
  BY AlwaysInductive, <1>1, PTL

\* Unresolved rows of a package never exceed an uncertain row and its own rollback.
THEOREM UnresolvedRowsChain == Spec => []UnresolvedChain
<1>1. InductiveInvariant => UnresolvedChain
  BY DEF InductiveInvariant, Linked
<1> QED
  BY AlwaysInductive, <1>1, PTL
-----------------------------------------------------------------------------
(* The ledger as evidence: which steps write it, and what they may write.  *)

Writer(j) == \/ BeginRow(j) \/ Reconcile(j) \/ CompleteRow(j) \/ FinishRow(j)
             \/ FailRow(j)

\* What a step of job j may do to row i.
RowStep(j, i) ==
    \/ ops'[i] = ops[i]
    \/ /\ At(j, "complete") /\ jobs[j].op = i /\ IsPending(i)
       /\ ops'[i] = [ops[i] EXCEPT !.status = "applied", !.after = jobs[j].after]
    \/ /\ At(j, "fail") /\ jobs[j].op = i /\ IsPending(i)
       /\ ops'[i] = [ops[i] EXCEPT !.status = "uncertain"]
    \/ /\ At(j, "reconcile") /\ jobs[j].original = i /\ ops[i].status = "uncertain"
       /\ ops'[i] = [ops[i] EXCEPT !.status = "reconciled"]
    \/ /\ At(j, "finish") /\ jobs[j].original = i
       /\ ops[i].status \in {"applied", "uncertain"}
       /\ ops'[i] = [ops[i] EXCEPT !.status = "reverted"]
    \/ /\ At(j, "finish") /\ jobs[j].op = i /\ ops[i].status = "applied"
       /\ ops'[i] = [ops[i] EXCEPT !.status = "rollback-recorded"]

\* The new row of job j stands alone among the rows without a verdict.
NewRow(j, n) ==
    /\ Ids' = Ids \cup {n} /\ n \notin Ids /\ n = Len(ops) + 1
    /\ At(j, "begin") /\ ops'[n] = RowOf(j)
    /\ \A k \in Ids : /\ k < n
                      /\ ops[k].package = jobs[j].package => ~IsPending(k)

LEMMA Writers ==
  ASSUME [Next]_vars
  PROVE  \/ UNCHANGED ops
         \/ \E j \in Jobs : Writer(j) /\ UNCHANGED <<tv, device, library, late>>
<1>1. CASE \E j \in Jobs : Request(j)
  BY <1>1, RequestKeeps
<1>2. CASE \E j \in Jobs : HandlerStep(j)
  BY <1>2 DEF HandlerStep, Unlink, Prepare, CheckNewer, Reconcile, BeginRow, BeginRefused,
     Spawn, Writer
<1>3. CASE \E j \in Jobs : ThreadStep(j)
  BY <1>3 DEF ThreadStep, Download, InspectEntry, Proceed, Announce, SendCommand,
     RestoreDisabled, Verify, CompleteRow, FinishRow, Report, FailRow, Writer
<1>4. CASE ~\E j \in Jobs : Request(j) \/ HandlerStep(j) \/ ThreadStep(j)
  BY <1>4 DEF Next, ClearFinished, ArchiveDownload, Environment, Crash, LateEffect,
              CliCommand, CliDelete, ExternalChange, DeviceChange, AwaitRequest, vars
<1> QED
  BY <1>1, <1>2, <1>3, <1>4

LEMMA NewRowAlone ==
  ASSUME Shaped, Linked, NEW j \in Jobs, BeginRow(j)
  PROVE  /\ \E n \in Nat : NewRow(j, n)
         /\ \A k \in Ids : ops'[k] = ops[k]
<1> DEFINE o == jobs[j].original
<1>1. /\ j \in Live /\ jobs[j] \in Job /\ Shape(jobs[j], Ids)
      /\ jobs[j].pc = "begin" /\ JobLinked(jobs[j], ops)
      /\ Begin(RowOf(j)) /\ RowOf(j) \in Operation
  BY LiveJob, RowTyped DEF BeginRow, At, Linked
<1>2. Ids = 1..Len(ops) /\ Len(ops) \in Nat
  BY IdsInterval DEF Shaped, TypeOK, JournalTypeOK
<1>3. /\ Ids' = Ids \cup {Len(ops) + 1} /\ Len(ops) + 1 \notin Ids
      /\ \A k \in Ids : ops'[k] = ops[k]
      /\ ops'[Len(ops) + 1] = RowOf(j)
  BY <1>1, BeginRows DEF Shaped, TypeOK
<1>4. MayBegin(jobs[j].package, o)
  BY <1>1 DEF Begin, RowOf
<1>5. o # 0 => ops[o].status # "pending"
  BY <1>1 DEF Shape, JobLinked
<1> HIDE DEF o
<1>6. ASSUME NEW k \in Ids, ops[k].package = jobs[j].package PROVE ~IsPending(k)
  <2> SUFFICES ASSUME IsPending(k) PROVE FALSE
    OBVIOUS
  <2>1. o \in Ids /\ IsUnresolved(o) /\ ops[o].package = jobs[j].package /\ k <= o
    BY <1>4, <1>6 DEF MayBegin, Unresolved, IsUnresolved, IsPending
  <2>2. k # o
    BY <1>2, <1>5, <2>1 DEF IsPending
  <2>3. ops[k].status = "uncertain"
    BY <1>2, <1>6, <2>1, <2>2 DEF Linked, UnresolvedChain, IsUnresolved, IsPending
  <2> QED
    BY <2>3 DEF IsPending
<1>7. At(j, "begin")
  BY <1>1 DEF At
<1>8. NewRow(j, Len(ops) + 1)
  BY <1>2, <1>3, <1>6, <1>7 DEF NewRow
<1> QED
  BY <1>2, <1>3, <1>8

\* Every step that writes the ledger writes rows of one package, by one job.
LEMMA Written ==
  ASSUME Shaped, Linked, NEW j \in Jobs, Writer(j)
  PROVE  /\ j \in Live
         /\ \A i \in Ids : RowStep(j, i)
         /\ \A i \in Ids : ops'[i] = ops[i] \/ ops[i].package = jobs[j].package
         /\ Ids' = Ids \/ (BeginRow(j) /\ \E n \in Nat : NewRow(j, n))
<1>1. j \in Live /\ jobs[j] \in Job /\ Shape(jobs[j], Ids) /\ JobLinked(jobs[j], ops)
      /\ JournalTypeOK
  <2>1. j \in Live
    BY DEF Writer, BeginRow, Reconcile, CompleteRow, FinishRow, FailRow, At
  <2> QED
    BY <2>1, LiveJob DEF Linked, Shaped, TypeOK
<1>2. CASE UNCHANGED ops
  <2>1. Ids' = Ids /\ \A i \in Ids : ops'[i] = ops[i]
    BY <1>2 DEF Ids
  <2> QED
    BY <1>1, <2>1 DEF RowStep
<1>3. CASE BeginRow(j)
  BY <1>1, <1>3, NewRowAlone DEF RowStep
<1>4. CASE Reconcile(j)
  <2>1. CASE ReconcileNoChange(jobs[j].original)
    <3> DEFINE o == jobs[j].original
    <3>4. o = jobs[j].original
      OBVIOUS
    <3>1. /\ At(j, "reconcile") /\ o \in Ids /\ ops[o].package = jobs[j].package
          /\ ops[o].status = "uncertain"
      BY <1>1, <1>4, <2>1 DEF Reconcile, ReconcileNoChange, At, Shape, JobLinked
    <3>2. /\ Ids' = Ids
          /\ \A k \in Ids : ops'[k] =
                IF k = o THEN [ops[o] EXCEPT !.status = "reconciled"] ELSE ops[k]
      BY <1>1, <2>1, <3>1, StatusRows DEF ReconcileNoChange, Status
    <3> HIDE DEF o
    <3>3. ASSUME NEW i \in Ids
          PROVE  RowStep(j, i) /\ (ops'[i] = ops[i] \/ ops[i].package = jobs[j].package)
      BY <3>1, <3>2, <3>4 DEF RowStep
    <3> QED
      BY <1>1, <3>2, <3>3
  <2> QED
    BY <1>2, <1>4, <2>1 DEF Reconcile
<1>5. CASE CompleteRow(j)
  <2>1. CASE Complete(jobs[j].op, jobs[j].after)
    <3> DEFINE o == jobs[j].op
    <3>4. o = jobs[j].op
      OBVIOUS
    <3>1. /\ At(j, "complete") /\ o \in Ids /\ ops[o].package = jobs[j].package
          /\ IsPending(o) /\ jobs[j].after \in State \cup {NoState}
      BY <1>1, <1>5, <2>1
      DEF CompleteRow, Complete, At, Shape, JobLinked, RowlessPcs, Job
    <3>2. /\ Ids' = Ids
          /\ \A k \in Ids : ops'[k] =
               IF k = o THEN [ops[o] EXCEPT !.status = "applied", !.after = jobs[j].after]
                        ELSE ops[k]
      BY <1>1, <2>1, <3>1, CompleteRows
    <3> HIDE DEF o
    <3>3. ASSUME NEW i \in Ids
          PROVE  RowStep(j, i) /\ (ops'[i] = ops[i] \/ ops[i].package = jobs[j].package)
      BY <3>1, <3>2, <3>4 DEF RowStep
    <3> QED
      BY <1>1, <3>2, <3>3
  <2> QED
    BY <1>2, <1>5, <2>1 DEF CompleteRow
<1>6. CASE FinishRow(j)
  <2>1. CASE FinishRollback(jobs[j].original, jobs[j].op)
    <3> DEFINE o == jobs[j].original
               r == jobs[j].op
    <3>4. o = jobs[j].original /\ r = jobs[j].op
      OBVIOUS
    <3>5. /\ At(j, "finish") /\ jobs[j].kind = "rollback"
          /\ r # 0 /\ r \in Ids /\ o \in Ids /\ o < r
          /\ Ids = 1..Len(ops) /\ jobs[j].pc = "finish"
      BY <1>1, <1>6, IdsInterval DEF FinishRow, At, Shape, RowlessPcs, Job
    <3> HIDE DEF o, r
    <3>6. ops[o].package = jobs[j].package /\ ops[r].package = jobs[j].package
      BY <1>1, <3>4, <3>5 DEF JobLinked
    <3>7. /\ FinishRollback(o, r)
          /\ ops[r].status = "applied" /\ ops[o].status \in {"applied", "uncertain"}
      BY <2>1, <3>4 DEF FinishRollback, CanFinish
    <3>8. o # r
      BY <1>1, <3>5 DEF JournalTypeOK
    <3>1. /\ At(j, "finish") /\ o \in Ids /\ ops[o].package = jobs[j].package
          /\ r \in Ids /\ ops[r].package = jobs[j].package /\ o # r
          /\ ops[r].status = "applied" /\ ops[o].status \in {"applied", "uncertain"}
      BY <3>5, <3>6, <3>7, <3>8
    <3>2. /\ Ids' = Ids
          /\ \A k \in Ids : ops'[k] =
               IF k = o THEN [ops[o] EXCEPT !.status = "reverted"]
               ELSE IF k = r THEN [ops[r] EXCEPT !.status = "rollback-recorded"]
               ELSE ops[k]
      BY <1>1, <3>1, <3>7, FinishRows
    <3>3. ASSUME NEW i \in Ids
          PROVE  RowStep(j, i) /\ (ops'[i] = ops[i] \/ ops[i].package = jobs[j].package)
      BY <3>1, <3>2, <3>4 DEF RowStep
    <3> QED
      BY <1>1, <3>2, <3>3
  <2> QED
    BY <1>2, <1>6, <2>1 DEF FinishRow
<1>7. CASE FailRow(j)
  <2>1. CASE IsPending(jobs[j].op) /\ ops' = [ops EXCEPT ![jobs[j].op].status = "uncertain"]
    <3> DEFINE o == jobs[j].op
    <3>1. /\ At(j, "fail") /\ o \in Ids /\ ops[o].package = jobs[j].package
      BY <1>1, <1>7 DEF FailRow, At, Shape, JobLinked, RowlessPcs
    <3>2. /\ Ids' = Ids
          /\ \A k \in Ids : ops'[k] =
               IF k = o THEN [ops[o] EXCEPT !.status = "uncertain"] ELSE ops[k]
      BY <1>1, <2>1, <3>1, StatusRows DEF Status
    <3>4. o = jobs[j].op /\ IsPending(o)
      BY <2>1
    <3> HIDE DEF o
    <3>3. ASSUME NEW i \in Ids
          PROVE  RowStep(j, i) /\ (ops'[i] = ops[i] \/ ops[i].package = jobs[j].package)
      BY <3>1, <3>2, <3>4 DEF RowStep
    <3> QED
      BY <1>1, <3>2, <3>3
  <2> QED
    BY <1>2, <1>7, <2>1 DEF FailRow, Fail
<1> QED
  BY <1>3, <1>4, <1>5, <1>6, <1>7 DEF Writer

\* The status a row may step to, and what stays of it.
RowKept(i) ==
    /\ \A f \in DOMAIN ops[i] \ {"status", "after"} : ops'[i][f] = ops[i][f]
    /\ ~IsPending(i) => ops'[i].after = ops[i].after
    /\ \/ ops'[i].status = ops[i].status
       \/ /\ ops[i].status \in DOMAIN StatusStep
          /\ ops'[i].status \in StatusStep[ops[i].status]

LEMMA RowStepKeeps ==
  ASSUME Shaped, NEW j \in Live, NEW i \in Ids, RowStep(j, i)
  PROVE  /\ RowKept(i)
         /\ ops'[i].package = ops[i].package
         /\ ops'[i].action = ops[i].action
         /\ ops'[i].status = "pending" => ops'[i] = ops[i]
<1>1. ops[i] \in Operation
  BY RowIsOperation
<1>2. CASE ops'[i] = ops[i]
  BY <1>2 DEF RowKept
<1>3. ASSUME NEW s \in {"applied", "uncertain", "reconciled", "reverted", "rollback-recorded"},
             ops'[i] = [ops[i] EXCEPT !.status = s],
             ops[i].status \in DOMAIN StatusStep, s \in StatusStep[ops[i].status]
      PROVE  /\ RowKept(i)
             /\ ops'[i].package = ops[i].package
             /\ ops'[i].action = ops[i].action
             /\ ops'[i].status = "pending" => ops'[i] = ops[i]
  <2>1. /\ DOMAIN ops[i] = {"package", "action", "status", "inverse", "before", "after",
                            "device", "beforeApk", "afterApk", "parent"}
        /\ ops'[i].status = s
        /\ \A f \in DOMAIN ops[i] \ {"status"} : ops'[i][f] = ops[i][f]
    BY <1>1, <1>3 DEF Operation
  <2> QED
    BY <1>3, <2>1 DEF RowKept
<1>4. ASSUME NEW state, ops'[i] = [ops[i] EXCEPT !.status = "applied", !.after = state],
             IsPending(i)
      PROVE  /\ RowKept(i)
             /\ ops'[i].package = ops[i].package
             /\ ops'[i].action = ops[i].action
             /\ ops'[i].status = "pending" => ops'[i] = ops[i]
  <2>1. /\ DOMAIN ops[i] = {"package", "action", "status", "inverse", "before", "after",
                            "device", "beforeApk", "afterApk", "parent"}
        /\ ops'[i].status = "applied"
        /\ \A f \in DOMAIN ops[i] \ {"status", "after"} : ops'[i][f] = ops[i][f]
    BY <1>1, <1>4 DEF Operation
  <2> QED
    BY <1>4, <2>1 DEF RowKept, StatusStep, IsPending
<1>5. CASE ops'[i] # ops[i]
  <2>1. \/ /\ IsPending(i)
           /\ \E state : ops'[i] = [ops[i] EXCEPT !.status = "applied", !.after = state]
        \/ /\ ops[i].status = "pending"
           /\ ops'[i] = [ops[i] EXCEPT !.status = "uncertain"]
        \/ /\ ops[i].status = "uncertain"
           /\ ops'[i] = [ops[i] EXCEPT !.status = "reconciled"]
        \/ /\ ops[i].status \in {"applied", "uncertain"}
           /\ ops'[i] = [ops[i] EXCEPT !.status = "reverted"]
        \/ /\ ops[i].status = "applied"
           /\ ops'[i] = [ops[i] EXCEPT !.status = "rollback-recorded"]
    BY <1>5 DEF RowStep, IsPending
  <2>2. /\ DOMAIN StatusStep = {"pending", "applied", "uncertain"}
        /\ "uncertain" \in StatusStep["pending"]
        /\ "reconciled" \in StatusStep["uncertain"]
        /\ "reverted" \in StatusStep["uncertain"]
        /\ "reverted" \in StatusStep["applied"]
        /\ "rollback-recorded" \in StatusStep["applied"]
    BY DEF StatusStep
  <2> QED
    BY <1>3, <1>4, <2>1, <2>2
<1> QED
  BY <1>2, <1>5

LEMMA EvidenceStep ==
  ASSUME Shaped, Linked, Evidence, [Next]_vars
  PROVE  Evidence'
<1>1. CASE UNCHANGED ops
  BY <1>1 DEF Evidence, PendingUnread, PendingIsNewest, Ids, IsPending
<1>2. ASSUME NEW j \in Jobs, Writer(j) PROVE Evidence'
  <2>1. /\ j \in Live
        /\ \A i \in Ids : RowStep(j, i)
        /\ Ids' = Ids \/ (BeginRow(j) /\ \E n \in Nat : NewRow(j, n))
    BY <1>2, Written
  <2>2. ASSUME NEW i \in Ids
        PROVE  /\ ops'[i].package = ops[i].package
               /\ ops'[i].status = "pending" => ops'[i] = ops[i]
    BY <2>1, RowStepKeeps
  <2>3. CASE Ids' = Ids
    BY <2>2, <2>3 DEF Evidence, PendingUnread, PendingIsNewest, IsPending
  <2>4. ASSUME NEW n \in Nat, NewRow(j, n) PROVE Evidence'
    <3>1. /\ Ids' = Ids \cup {n}
          /\ ops'[n].status = "pending" /\ ops'[n].after = NoState
          /\ ops'[n].package = jobs[j].package
          /\ \A k \in Ids : /\ k < n
                            /\ ops[k].package = jobs[j].package => ~IsPending(k)
      BY <2>4, RowFields DEF NewRow
    <3>2. PendingUnread'
      BY <2>2, <3>1 DEF Evidence, PendingUnread, IsPending
    <3>3. PendingIsNewest'
      <4> SUFFICES ASSUME NEW i \in Ids', NEW k \in Ids', ops'[i].status = "pending",
                          ops'[k].package = ops'[i].package
                   PROVE  k <= i
        BY DEF PendingIsNewest, IsPending
      <4>1. CASE i = n
        <5>1. \A m \in Ids : m <= n
          BY <3>1, IdsInterval DEF Shaped, TypeOK
        <5> QED
          BY <3>1, <4>1, <5>1
      <4>2. CASE i \in Ids /\ k = n
        BY <2>2, <3>1, <4>2 DEF IsPending
      <4>3. CASE i \in Ids /\ k \in Ids
        BY <2>2, <4>3 DEF Evidence, PendingIsNewest, IsPending
      <4> QED
        BY <3>1, <4>1, <4>2, <4>3
    <3> QED
      BY <3>2, <3>3 DEF Evidence
  <2> QED
    BY <2>1, <2>3, <2>4
<1> QED
  BY <1>1, <1>2, Writers

LEMMA EvidenceHolds == Spec => [](InductiveInvariant /\ Evidence)
<1>1. Init => Evidence
  BY DEF Init, JournalInit, Ids, Evidence, PendingUnread, PendingIsNewest
<1>2. InductiveInvariant /\ Evidence /\ [Next]_vars => Evidence'
  BY EvidenceStep DEF InductiveInvariant
<1> QED
  BY AlwaysInductive, <1>1, <1>2, PTL DEF Spec

\* The transactions of StateJournal: no step drops a row or rewrites what begin recorded,
\* no verdict is taken back and no recorded result changes, for any number of handlers,
\* threads and late except branches.
THEOREM EvidenceIsKept == Spec => LedgerIsEvidence
<1> DEFINE Kept == \A i \in Ids :
              /\ i \in Ids'
              /\ \A f \in DOMAIN ops[i] \ {"status", "after"} :
                    ops'[i][f] = ops[i][f]
              /\ ops[i].after # NoState => ops'[i].after = ops[i].after
              /\ \/ ops'[i].status = ops[i].status
                 \/ /\ ops[i].status \in DOMAIN StatusStep
                    /\ ops'[i].status \in StatusStep[ops[i].status]
<1>1. ASSUME InductiveInvariant, Evidence, [Next]_vars PROVE Kept
  <2>0. Shaped /\ Linked
    BY <1>1 DEF InductiveInvariant
  <2>1. CASE UNCHANGED ops
    BY <2>1 DEF Ids
  <2>2. ASSUME NEW j \in Jobs, Writer(j) PROVE Kept
    <3>1. /\ j \in Live
          /\ \A i \in Ids : RowStep(j, i)
          /\ Ids \subseteq Ids'
      BY <2>0, <2>2, Written DEF NewRow
    <3>2. ASSUME NEW i \in Ids PROVE RowKept(i) /\ i \in Ids'
      BY <2>0, <3>1, RowStepKeeps
    <3>3. \A i \in Ids : ops[i].after # NoState => ~IsPending(i)
      BY <1>1 DEF Evidence, PendingUnread
    <3> QED
      BY <3>2, <3>3 DEF RowKept
  <2> QED
    BY <1>1, <2>1, <2>2, Writers
<1>2. InductiveInvariant /\ Evidence /\ [Next]_vars => [Kept]_vars
  BY <1>1
<1> QED
  BY EvidenceHolds, <1>2, PTL DEF Spec, LedgerIsEvidence

\* start_rollback and finish_rollback: a row becomes reverted only with the first recorded
\* rollback of it, which read its before-state back, and from the row's own television
\* unless that was exchanged while the rollback ran; for any number of threads.
THEOREM RevertedRowsWereRestored == Spec => RevertedWasRestored
<1> DEFINE Restored == \A i \in Ids :
              ops[i].status # "reverted" /\ ops'[i].status = "reverted" =>
                 /\ \A r \in Ids : ops[r].parent = i => ops[r].status # "rollback-recorded"
                 /\ \E j \in Live :
                       /\ jobs[j].op \in Ids
                       /\ ops[jobs[j].op].parent = i
                       /\ ops'[jobs[j].op].status = "rollback-recorded"
                       /\ ops'[jobs[j].op].after = ops[i].before
                       /\ jobs[j].after = ops[i].before
                       /\ jobs[j].source = ops[i].device \/ jobs[j].moved
<1>1. ASSUME InductiveInvariant, [Next]_vars PROVE Restored
  <2>0. Shaped /\ Linked /\ JobsLocated
    BY <1>1 DEF InductiveInvariant
  <2> SUFFICES ASSUME NEW i \in Ids, ops[i].status # "reverted",
                      ops'[i].status = "reverted"
               PROVE  /\ \A r \in Ids : ops[r].parent = i =>
                             ops[r].status # "rollback-recorded"
                      /\ \E j \in Live :
                            /\ jobs[j].op \in Ids
                            /\ ops[jobs[j].op].parent = i
                            /\ ops'[jobs[j].op].status = "rollback-recorded"
                            /\ ops'[jobs[j].op].after = ops[i].before
                            /\ jobs[j].after = ops[i].before
                            /\ jobs[j].source = ops[i].device \/ jobs[j].moved
    OBVIOUS
  <2>1. PICK j \in Jobs : Writer(j)
    BY <1>1, Writers
  <2>2. j \in Live /\ RowStep(j, i) /\ ops[i] \in Operation
    BY <2>0, <2>1, Written, RowIsOperation
  <2>3. At(j, "finish") /\ jobs[j].original = i
    BY <2>2 DEF RowStep, Operation
  <2>4. FinishRow(j)
    BY <2>1, <2>3 DEF Writer, BeginRow, Reconcile, CompleteRow, FailRow, At
  <2>5. /\ jobs[j] \in Job /\ jobs[j].pc = "finish" /\ jobs[j].kind = "rollback"
        /\ JobLinked(jobs[j], ops) /\ Located(jobs[j]) /\ Shape(jobs[j], Ids)
    BY <2>0, <2>2, <2>3, LiveJob DEF At, Linked, JobsLocated, Shape
  <2>6. /\ jobs[j].op \in Ids /\ jobs[j].op # 0 /\ i < jobs[j].op
        /\ ops[jobs[j].op] \in Operation
    BY <2>0, <2>3, <2>5, RowIsOperation DEF Shape, RowlessPcs
  <2>7. FinishRollback(i, jobs[j].op)
    BY <2>3, <2>4 DEF FinishRow
  <2> DEFINE r == jobs[j].op
  <2>8. i # r
    BY <2>0, <2>6, IdsInterval DEF Shaped, TypeOK, JournalTypeOK
  <2>9. ops'[r] = [ops[r] EXCEPT !.status = "rollback-recorded"]
    BY <2>0, <2>6, <2>7, <2>8, FinishRows DEF Shaped, TypeOK
  <2>10. /\ ops'[r].status = "rollback-recorded" /\ ops'[r].after = ops[r].after
         /\ ops[r].after = ops[i].before /\ ops[r].parent = i
         /\ jobs[j].after = ops[i].before
         /\ jobs[j].identity = ops[i].device
    BY <2>3, <2>5, <2>6, <2>9 DEF JobLinked, Operation
  <2>11. jobs[j].source = ops[i].device \/ jobs[j].moved
    BY <2>5, <2>10 DEF Located
  <2>12. ASSUME NEW q \in Ids, ops[q].parent = i, ops[q].status = "rollback-recorded"
         PROVE  FALSE
    BY <2>0, <2>12 DEF Linked, RowsLinked, RowRecorded
  <2> QED
    BY <2>2, <2>6, <2>10, <2>11, <2>12
<1>2. InductiveInvariant /\ [Next]_vars => [Restored]_vars
  BY <1>1
<1> QED
  BY AlwaysInductive, <1>2, PTL DEF Spec, RevertedWasRestored
-----------------------------------------------------------------------------
(* The television behind the ledger.                                       *)

\* Package p gets state s from the job that holds its row or from a late command.
TvMoves(p, s) ==
    /\ tv' = [tv EXCEPT ![p] = s]
    /\ UNCHANGED ops
    /\ \/ \E j \in Live : /\ jobs[j].package = p
                          /\ jobs[j].pc \in SendingPcs
       \/ \E c \in late : c.package = p

LEMMA TvStep ==
  ASSUME Shaped, OnlyTheController, [Next]_vars
  PROVE  \/ UNCHANGED tv
         \/ \E p \in Packages, s \in State : TvMoves(p, s)
<1>1. ASSUME NEW c \in Command
      PROVE  /\ c.package \in Packages
             /\ Effect(c, tv[c.package]) \in State
  BY EffectTyped DEF Command, Shaped, TypeOK, JobsTypeOK
<1>2. ASSUME NEW j \in Jobs, SendCommand(j) \/ RestoreDisabled(j)
      PROVE  UNCHANGED tv \/ \E p \in Packages, s \in State : TvMoves(p, s)
  <2> DEFINE c == CommandOf(j)
  <2>1. j \in Live /\ jobs[j].pc \in SendingPcs /\ UNCHANGED ops
    BY <1>2 DEF SendCommand, RestoreDisabled, At, SendingPcs
  <2>2. c \in Command /\ c.package = jobs[j].package
    BY <2>1, CommandTyped DEF CommandOf
  <2>3. UNCHANGED tv \/ tv' = [tv EXCEPT ![c.package] = Effect(c, tv[c.package])]
    BY <1>2 DEF SendCommand, RestoreDisabled, Run
  <2> HIDE DEF c
  <2> QED
    BY <1>1, <2>1, <2>2, <2>3 DEF TvMoves
<1>3. ASSUME NEW c \in late, LateEffect(c)
      PROVE  \E p \in Packages, s \in State : TvMoves(p, s)
  <2>1. c \in Command
    BY DEF Shaped, TypeOK, JobsTypeOK
  <2>2. tv' = [tv EXCEPT ![c.package] = Effect(c, tv[c.package])] /\ UNCHANGED ops
    BY <1>3 DEF LateEffect
  <2> QED
    BY <1>1, <2>1, <2>2 DEF TvMoves
<1>4. CASE \E j \in Jobs : Request(j) \/ HandlerStep(j)
  BY <1>4, RequestKeeps DEF HandlerStep, Unlink, Prepare, CheckNewer, Reconcile, BeginRow,
                            BeginRefused, Spawn
<1>5. CASE \E j \in Jobs : ThreadStep(j)
  BY <1>2, <1>5 DEF ThreadStep, Download, InspectEntry, Proceed, Announce, Verify,
     CompleteRow, FinishRow, Report, FailRow
<1>6. CASE ~\E j \in Jobs : Request(j) \/ HandlerStep(j) \/ ThreadStep(j)
  BY <1>3, <1>6
  DEF Next, ClearFinished, ArchiveDownload, Environment, Crash, CliCommand, CliDelete,
      ExternalChange, DeviceChange, AwaitRequest, vars, Event, OnlyTheController
<1> QED
  BY <1>4, <1>5, <1>6

\* A crash is what leaves commands on their way.
LEMMA LateStep ==
  ASSUME OnlyTheController, [Next]_vars, NEW c \in late', c \notin late
  PROVE  /\ UNCHANGED ops /\ Live' = {}
         /\ \E j \in Live : /\ jobs[j].pc \in SendingPcs
                            /\ c.package = jobs[j].package
<1>1. Crash
  <2>1. CASE \E j \in Jobs : Request(j) \/ HandlerStep(j)
    BY <2>1, RequestKeeps
    DEF HandlerStep, Unlink, Prepare, CheckNewer, Reconcile, BeginRow, BeginRefused, Spawn
  <2>2. CASE \E j \in Jobs : ThreadStep(j)
    BY <2>2 DEF ThreadStep, Download, InspectEntry, Proceed, Announce, SendCommand,
       RestoreDisabled, Verify, CompleteRow, FinishRow, Report, FailRow, Run, Event,
       OnlyTheController
  <2>3. CASE ~\E j \in Jobs : Request(j) \/ HandlerStep(j) \/ ThreadStep(j)
    BY <2>3
    DEF Next, ClearFinished, ArchiveDownload, Environment, LateEffect, CliCommand,
        CliDelete, ExternalChange, DeviceChange, AwaitRequest, vars
  <2> QED
    BY <2>1, <2>2, <2>3
<1>2. Live' = {} /\ UNCHANGED ops
  BY <1>1 DEF Crash, Live
<1>3. PICK j \in Live : jobs[j].pc \in SendingPcs /\ c = CommandOf(j)
  BY <1>1 DEF Crash
<1> QED
  BY <1>2, <1>3 DEF CommandOf

\* Behind every change of a package stands its one pending row.
LEMMA TvBehindRow ==
  ASSUME Shaped, Linked, LateBehindOrphans, NEW p \in Packages, NEW s \in State,
         TvMoves(p, s)
  PROVE  \E i \in Ids :
            /\ ops[i].package = p /\ IsPending(i)
            /\ \/ \E j \in Live : jobs[j].op = i /\ jobs[j].pc \in SendingPcs
               \/ Orphan(i)
<1>1. CASE \E c \in late : c.package = p
  BY <1>1 DEF LateBehindOrphans, Orphan
<1>2. ASSUME NEW j \in Live, jobs[j].package = p, jobs[j].pc \in SendingPcs
      PROVE  jobs[j].op \in Ids /\ ops[jobs[j].op].package = p /\ IsPending(jobs[j].op)
  BY <1>2, LiveJob
  DEF Linked, JobLinked, Shape, SendingPcs, OpenPcs, RowlessPcs, IsPending
<1> QED
  BY <1>1, <1>2 DEF TvMoves

\* What a step does to the rows of the ledger, whoever takes it.
LEMMA LedgerStep ==
  ASSUME Shaped, Linked, [Next]_vars
  PROVE  /\ Ids \subseteq Ids'
         /\ \A i \in Ids : ops'[i] = ops[i] \/ \E j \in Live : RowStep(j, i)
         /\ \A i \in Ids' \ Ids : \E j \in Live : NewRow(j, i) /\ BeginRow(j)
         /\ UNCHANGED ops \/ UNCHANGED <<tv, late>>
<1>1. CASE UNCHANGED ops
  BY <1>1 DEF Ids
<1>2. ASSUME NEW j \in Jobs, Writer(j), UNCHANGED <<tv, device, library, late>>
      PROVE  /\ Ids \subseteq Ids'
             /\ \A i \in Ids : ops'[i] = ops[i] \/ \E k \in Live : RowStep(k, i)
             /\ \A i \in Ids' \ Ids : \E k \in Live : NewRow(k, i) /\ BeginRow(k)
  <2>1. /\ j \in Live
        /\ \A i \in Ids : RowStep(j, i)
        /\ Ids' = Ids \/ (BeginRow(j) /\ \E n \in Nat : NewRow(j, n))
    BY <1>2, Written
  <2> QED
    BY <2>1 DEF NewRow
<1> QED
  BY <1>1, <1>2, Writers

LEMMA LateStepBehind ==
  ASSUME Shaped, Shaped', Linked, LateBehindOrphans, OnlyTheController, [Next]_vars
  PROVE  LateBehindOrphans'
<1> SUFFICES ASSUME NEW c \in late'
             PROVE  \E i \in Ids' : ops'[i].package = c.package /\ Orphan(i)'
  BY DEF LateBehindOrphans
<1>1. CASE c \in late
  <2>1. PICK i \in Ids : ops[i].package = c.package /\ Orphan(i)
    BY <1>1 DEF LateBehindOrphans
  <2>2. i \in Ids' /\ ops'[i] = ops[i]
    BY <2>1, LedgerStep DEF RowStep, Orphan, IsPending
  <2>3. \A j \in Live' : jobs'[j].op # i
    BY <2>1, RowsStayOwned DEF Orphan
  <2> QED
    BY <2>1, <2>2, <2>3 DEF Orphan, IsPending
<1>2. CASE c \notin late
  <2>1. PICK j \in Live : jobs[j].pc \in SendingPcs /\ c.package = jobs[j].package
    BY <1>2, LateStep
  <2>2. UNCHANGED ops /\ Live' = {}
    BY <1>2, LateStep
  <2>3. /\ jobs[j].op \in Ids /\ ops[jobs[j].op].package = c.package
        /\ IsPending(jobs[j].op)
    BY <2>1, LiveJob
    DEF Linked, JobLinked, Shape, SendingPcs, OpenPcs, RowlessPcs, IsPending
  <2> QED
    BY <2>2, <2>3 DEF Orphan, Ids, IsPending
<1> QED
  BY <1>1, <1>2

LEMMA VerifiedStep ==
  ASSUME Shaped, Shaped', Linked, Evidence, LateBehindOrphans, VerifiedIsCurrent,
         OnlyTheController, [Next]_vars
  PROVE  VerifiedIsCurrent'
<1> SUFFICES ASSUME NEW k \in Live', jobs'[k].pc = "complete"
             PROVE  tv'[jobs'[k].package] = jobs'[k].after
  BY DEF VerifiedIsCurrent, At
<1>1. Source(k)
  BY LiveStep
<1>2. CASE Advance(jobs[k], jobs'[k])
  BY <1>2 DEF Advance
<1>3. CASE k \in Live /\ jobs'[k] \in Idle(jobs[k])
  <2> DEFINE q == jobs[k].package
             r == jobs[k].op
  <2>1. /\ jobs[k].pc = "complete" /\ jobs'[k].package = q
        /\ jobs'[k].after = jobs[k].after
    BY <1>3, LiveJob, IdleJob
  <2>2. tv[q] = jobs[k].after
    BY <1>3, <2>1 DEF VerifiedIsCurrent, At
  <2>3. /\ r \in Ids /\ ops[r].package = q /\ IsPending(r) /\ q \in Packages
        /\ r = jobs[k].op /\ r # 0
    BY <1>3, <2>1, LiveJob
    DEF Linked, JobLinked, Shape, OpenPcs, RowlessPcs, IsPending, Job
  <2> HIDE DEF r
  <2>4. ASSUME NEW p \in Packages, NEW s \in State, TvMoves(p, s) PROVE p # q
    <3> SUFFICES ASSUME p = q PROVE FALSE
      OBVIOUS
    <3>1. PICK i \in Ids : /\ ops[i].package = p /\ IsPending(i)
                           /\ \/ \E j \in Live : /\ jobs[j].op = i
                                                 /\ jobs[j].pc \in SendingPcs
                              \/ Orphan(i)
      BY <2>4, TvBehindRow
    <3>2. i <= r /\ r <= i
      BY <2>3, <3>1 DEF Evidence, PendingIsNewest
    <3>3. i = r
      BY <3>2, <2>3, <3>1, IdsInterval DEF Shaped, TypeOK
    <3>4. PICK j \in Live : jobs[j].op = r /\ jobs[j].pc \in SendingPcs
      BY <1>3, <2>3, <3>1, <3>3 DEF Orphan
    <3>5. j = k
      BY <1>3, <2>3, <3>4 DEF Linked, JobsOwnRows
    <3> QED
      BY <2>1, <3>4, <3>5 DEF SendingPcs
  <2>5. tv'[q] = tv[q]
    <3>1. CASE UNCHANGED tv
      BY <3>1
    <3>2. ASSUME NEW p \in Packages, NEW s \in State, TvMoves(p, s) PROVE tv'[q] = tv[q]
      BY <2>3, <2>4, <3>2 DEF TvMoves, Shaped, TypeOK, JobsTypeOK
    <3> QED
      BY <3>1, <3>2, TvStep
  <2> QED
    BY <2>1, <2>2, <2>5
<1> QED
  BY <1>1, <1>2, <1>3 DEF Source, Accepted

LEMMA LedgerLeads ==
  ASSUME Shaped, Linked, Evidence, LateBehindOrphans, VerifiedIsCurrent,
         LedgerMatchesTv, OnlyTheController, [Next]_vars
  PROVE  LedgerMatchesTv'
<1> SUFFICES ASSUME NEW i \in Ids', ops'[i].status \in {"applied", "rollback-recorded"},
                    \A k \in Ids' : ops'[k].package = ops'[i].package => k <= i
             PROVE  tv'[ops'[i].package] = ops'[i].after
  BY DEF LedgerMatchesTv
<1>1. i \in Ids
  <2> SUFFICES ASSUME i \notin Ids PROVE FALSE
    OBVIOUS
  <2>1. PICK j \in Live : NewRow(j, i)
    BY LedgerStep
  <2> QED
    BY <2>1, RowFields DEF NewRow
<1>2. /\ Ids \subseteq Ids'
      /\ \A k \in Ids : ops'[k].package = ops[k].package
      /\ ops'[i] = ops[i] \/ \E j \in Live : RowStep(j, i)
  BY <1>1, LedgerStep, RowStepKeeps
<1>3. ops[i] \in Operation /\ \A k \in Ids : ops[k].package = ops[i].package => k <= i
  BY <1>1, <1>2, RowIsOperation
<1>4. CASE IsPending(i)
  <2>1. PICK j \in Live : /\ At(j, "complete") /\ jobs[j].op = i
                          /\ ops'[i] = [ops[i] EXCEPT !.status = "applied",
                                                      !.after = jobs[j].after]
    BY <1>2, <1>3, <1>4 DEF RowStep, IsPending, Operation
  <2>2. ops'[i].after = jobs[j].after /\ ops'[i] # ops[i]
    BY <1>3, <1>4, <2>1 DEF Operation, IsPending
  <2>3. UNCHANGED tv
    BY <2>2, LedgerStep
  <2>4. jobs[j].package = ops[i].package
    <3>1. i # 0
      BY <1>1, IdsInterval DEF Shaped, TypeOK
    <3> QED
      BY <2>1, <3>1 DEF Linked, JobLinked
  <2> QED
    BY <1>1, <1>2, <2>1, <2>2, <2>3, <2>4 DEF VerifiedIsCurrent
<1>5. CASE ~IsPending(i)
  <2>1. ops[i].status \in {"applied", "rollback-recorded"} /\ ops'[i].after = ops[i].after
    BY <1>2, <1>3, <1>5 DEF RowStep, IsPending, Operation
  <2>2. tv[ops[i].package] = ops[i].after
    BY <1>1, <1>3, <2>1 DEF LedgerMatchesTv
  <2>3. tv'[ops[i].package] = tv[ops[i].package]
    <3>1. CASE UNCHANGED tv
      BY <3>1
    <3>2. ASSUME NEW p \in Packages, NEW s \in State, TvMoves(p, s)
          PROVE  tv'[ops[i].package] = tv[ops[i].package]
      <4>1. PICK m \in Ids : ops[m].package = p /\ IsPending(m)
        BY <3>2, TvBehindRow
      <4>2. p # ops[i].package
        <5> SUFFICES ASSUME p = ops[i].package PROVE FALSE
          OBVIOUS
        <5>1. m <= i /\ i <= m
          BY <1>1, <1>3, <4>1 DEF Evidence, PendingIsNewest
        <5>2. m = i
          BY <1>1, <4>1, <5>1, IdsInterval DEF Shaped, TypeOK
        <5> QED
          BY <1>5, <4>1, <5>2
      <4>3. ops[i].package \in Packages
        BY <1>3 DEF Operation
      <4> QED
        BY <3>2, <4>2, <4>3 DEF TvMoves, Shaped, TypeOK, JobsTypeOK
    <3> QED
      BY <3>1, <3>2, TvStep
  <2> QED
    BY <1>1, <1>2, <2>1, <2>2, <2>3
<1> QED
  BY <1>4, <1>5

LEMMA LedgerAlwaysLeads ==
  ASSUME OnlyTheController
  PROVE  Spec => [](InductiveInvariant /\ Evidence /\ LedgerLeadsTv)
<1>1. Init => LedgerLeadsTv
  BY DEF Init, JournalInit, Ids, Live, LedgerLeadsTv, LateBehindOrphans,
         VerifiedIsCurrent, LedgerMatchesTv
<1>2. /\ InductiveInvariant /\ InductiveInvariant' /\ Evidence /\ LedgerLeadsTv
      /\ [Next]_vars
      => LedgerLeadsTv'
  BY LateStepBehind, VerifiedStep, LedgerLeads DEF LedgerLeadsTv, InductiveInvariant
<1> QED
  BY EvidenceHolds, <1>1, <1>2, PTL DEF Spec

\* ApkJobManager and AdbClient: as long as nobody else changes the television and ADB waits
\* for its commands, the newest row of a package tells its state once it is settled, for
\* any number of handlers, crashes and storage errors.
THEOREM LedgerTellsTheTv ==
    ASSUME OnlyTheController PROVE Spec => []LedgerMatchesTv
<1>1. LedgerLeadsTv => LedgerMatchesTv
  BY DEF LedgerLeadsTv
<1> QED
  BY LedgerAlwaysLeads, <1>1, PTL

\* Every change the Controller makes has its pending row, also the one of a command that
\* was on its way when the process died.
THEOREM NothingUnjournaled ==
    ASSUME OnlyTheController PROVE Spec => JournaledBeforeExecution
<1> DEFINE Behind == \A p \in Packages :
              tv'[p] # tv[p] => \E i \in Unresolved(p) : IsPending(i)
<1>1. ASSUME InductiveInvariant, LedgerLeadsTv, [Next]_vars PROVE Behind
  <2>1. ASSUME NEW p \in Packages, NEW s \in State, TvMoves(p, s),
               NEW q \in Packages, tv'[q] # tv[q]
        PROVE  \E i \in Unresolved(q) : IsPending(i)
    <3>1. q = p
      BY <1>1, <2>1 DEF TvMoves, InductiveInvariant, Shaped, TypeOK, JobsTypeOK
    <3>2. PICK i \in Ids : ops[i].package = p /\ IsPending(i)
      BY <1>1, <2>1, TvBehindRow DEF InductiveInvariant, LedgerLeadsTv
    <3> QED
      BY <3>1, <3>2 DEF Unresolved, IsUnresolved, IsPending
  <2> QED
    BY <1>1, <2>1, TvStep DEF InductiveInvariant
<1>2. InductiveInvariant /\ LedgerLeadsTv /\ [Next]_vars => [Behind]_vars
  BY <1>1
<1> QED
  BY LedgerAlwaysLeads, <1>2, PTL DEF Spec, JournaledBeforeExecution
-----------------------------------------------------------------------------
(* The refinement: each step moves the gate of one package or changes one  *)
(* package behind a held gate, or the gates and the television stay.       *)

\* A package has one newest row.
AccountTold ==
    JournalTypeOK =>
        \A p \in Packages : \A i \in Ids : Tells(i, p) => Account(p) = ops[i].after

LEMMA AccountIsTold == AccountTold
<1> SUFFICES ASSUME JournalTypeOK, NEW p \in Packages, NEW i \in Ids, Tells(i, p)
             PROVE  Account(p) = ops[i].after
  BY DEF AccountTold
<1> DEFINE k == CHOOSE k \in Ids : Tells(k, p)
<1>1. k \in Ids /\ Tells(k, p)
  OBVIOUS
<1>2. i <= k /\ k <= i
  BY <1>1 DEF Tells
<1>3. k = i
  BY <1>1, <1>2, IdsInterval
<1> QED
  BY <1>3 DEF Account

LEMMA AccountWillBeTold == AccountTold'
  BY AccountIsTold, PTL

LEMMA SameRowsSameGate ==
  ASSUME UNCHANGED ops, NEW p \in Packages
  PROVE  GatePosition(p)' = GatePosition(p) /\ Account(p)' = Account(p)
BY DEF GatePosition, Unresolved, IsUnresolved, IsPending, Account, Tells, Ids

\* What tells of a package goes on telling it the same.
LEMMA SameTellsSameAccount ==
  ASSUME Shaped, Shaped', NEW p \in Packages, Ids \subseteq Ids',
         \A i \in Ids' : Tells(i, p)' => i \in Ids /\ Tells(i, p),
         \A i \in Ids : Tells(i, p) => Tells(i, p)' /\ ops'[i].after = ops[i].after
  PROVE  Account(p)' = Account(p)
<1>0. JournalTypeOK /\ JournalTypeOK'
  BY DEF Shaped, TypeOK
<1>1. CASE \E i \in Ids : Tells(i, p)
  <2>1. PICK i \in Ids : Tells(i, p)
    BY <1>1
  <2>2. i \in Ids' /\ Tells(i, p)' /\ ops'[i].after = ops[i].after
    BY <2>1
  <2>3. Account(p) = ops[i].after
    BY <1>0, <2>1, AccountIsTold DEF AccountTold
  <2>4. Account(p)' = ops'[i].after
    BY <1>0, <2>2, AccountWillBeTold DEF AccountTold
  <2> QED
    BY <2>2, <2>3, <2>4
<1>2. CASE ~\E i \in Ids : Tells(i, p)
  BY <1>2 DEF Account
<1> QED
  BY <1>1, <1>2

\* A step that writes rows of one package leaves the gates of the others alone.
LEMMA OtherGatesStay ==
  ASSUME Shaped, Shaped', Linked, NEW j \in Jobs, Writer(j),
         NEW p \in Packages, p # jobs[j].package
  PROVE  GatePosition(p)' = GatePosition(p) /\ Account(p)' = Account(p)
<1>1. /\ j \in Live
      /\ \A i \in Ids : RowStep(j, i)
      /\ \A i \in Ids : ops'[i] = ops[i] \/ ops[i].package = jobs[j].package
      /\ Ids' = Ids \/ \E n \in Nat : NewRow(j, n)
  BY Written
<1>2. \A i \in Ids : ops'[i].package = ops[i].package
  BY <1>1, RowStepKeeps
<1>3. ASSUME NEW i \in Ids' \ Ids PROVE ops'[i].package = jobs[j].package
  BY <1>1, <1>3, RowFields DEF NewRow
<1>4. Ids \subseteq Ids'
  BY <1>1 DEF NewRow
<1>5. \A i \in Unresolved(p) : i \in Unresolved(p)' /\ ops'[i] = ops[i]
  BY <1>1, <1>4 DEF Unresolved, IsUnresolved
<1>6. \A i \in Unresolved(p)' : i \in Unresolved(p) /\ ops'[i] = ops[i]
  <2> SUFFICES ASSUME NEW i \in Unresolved(p)'
               PROVE  i \in Unresolved(p) /\ ops'[i] = ops[i]
    OBVIOUS
  <2>1. i \in Ids' /\ ops'[i].package = p /\ IsUnresolved(i)'
    BY DEF Unresolved
  <2>2. i \in Ids
    BY <1>3, <2>1
  <2>3. ops'[i] = ops[i]
    BY <1>1, <1>2, <2>1, <2>2
  <2> QED
    BY <2>1, <2>2, <2>3 DEF Unresolved, IsUnresolved
<1>7. ASSUME NEW i \in Ids', ops'[i].package = p
      PROVE  i \in Ids /\ ops'[i] = ops[i] /\ ops[i].package = p
  BY <1>1, <1>2, <1>3, <1>7
<1>8. \A i \in Ids : ops[i].package = p => ops'[i] = ops[i]
  BY <1>1
<1>9. Account(p)' = Account(p)
  <2>1. ASSUME NEW i \in Ids', Tells(i, p)' PROVE i \in Ids /\ Tells(i, p)
    BY <1>4, <1>7, <1>8, <2>1 DEF Tells
  <2>2. ASSUME NEW i \in Ids, Tells(i, p)
        PROVE  Tells(i, p)' /\ ops'[i].after = ops[i].after
    BY <1>4, <1>7, <1>8, <2>2 DEF Tells
  <2> QED
    BY <1>4, <2>1, <2>2, SameTellsSameAccount
<1> QED
  BY <1>5, <1>6, <1>9 DEF GatePosition, IsPending

\* A held package has a pending row, its newest, which tells nothing yet.
HeldUntold ==
    JournalTypeOK /\ Evidence =>
        \A p \in Packages : GatePosition(p) = "held" => Account(p) = NoState

LEMMA HeldIsUntold == HeldUntold
<1> SUFFICES ASSUME JournalTypeOK, Evidence, NEW p \in Packages, GatePosition(p) = "held"
             PROVE  Account(p) = NoState
  BY DEF HeldUntold
<1>1. PICK i \in Ids : ops[i].package = p /\ IsPending(i)
  BY DEF GatePosition, Unresolved
<1>2. ASSUME NEW k \in Ids, Tells(k, p) PROVE FALSE
  <2>1. i <= k /\ k <= i
    BY <1>1, <1>2 DEF Tells, Evidence, PendingIsNewest
  <2>2. k = i
    BY <2>1, IdsInterval
  <2> QED
    BY <1>1, <1>2, <2>2 DEF Tells, IsPending
<1> QED
  BY <1>2 DEF Account

LEMMA HeldWillBeUntold == HeldUntold'
  BY HeldIsUntold, PTL

\* Only a verdict of "applied" gives a package another account.
LEMMA AccountKept ==
  ASSUME Shaped, Shaped', Linked, NEW j \in Jobs, Writer(j), Ids' = Ids,
         \A i \in Ids : IsPending(i) => ops'[i].status # "applied",
         NEW p \in Packages
  PROVE  Account(p)' = Account(p)
<1>1. j \in Live /\ \A i \in Ids : RowStep(j, i)
  BY Written
<1>2. \A i \in Ids : ops'[i].package = ops[i].package /\ ops[i] \in Operation
  BY <1>1, RowStepKeeps, RowIsOperation
<1>3. ASSUME NEW i \in Ids', Tells(i, p)' PROVE i \in Ids /\ Tells(i, p)
  <2>1. /\ i \in Ids /\ ops[i].package = p
        /\ \A k \in Ids : ops[k].package = p => k <= i
        /\ ops'[i].status \in {"applied", "rollback-recorded"}
    BY <1>2, <1>3 DEF Tells
  <2>2. ops[i].status \in {"applied", "rollback-recorded"}
    BY <1>1, <1>2, <2>1 DEF RowStep, Operation
  <2> QED
    BY <2>1, <2>2 DEF Tells
<1>4. ASSUME NEW i \in Ids, Tells(i, p)
      PROVE  Tells(i, p)' /\ ops'[i].after = ops[i].after
  <2>1. /\ ops[i].package = p /\ \A k \in Ids : ops[k].package = p => k <= i
        /\ ops[i].status \in {"applied", "rollback-recorded"}
    BY <1>4 DEF Tells
  <2>2. ASSUME At(j, "finish"), jobs[j].original = i PROVE FALSE
    <3>1. /\ jobs[j].op \in Ids /\ i < jobs[j].op
          /\ ops[jobs[j].op].package = jobs[j].package
          /\ ops[i].package = jobs[j].package
      BY <1>1, <2>2, LiveJob DEF At, Shape, RowlessPcs, Linked, JobLinked
    <3> QED
      BY <2>1, <3>1, IdsInterval DEF Shaped, TypeOK, JournalTypeOK
  <2>3. /\ ops'[i].status \in {"applied", "rollback-recorded"}
        /\ ops'[i].after = ops[i].after
    BY <1>1, <1>2, <2>1, <2>2 DEF RowStep, IsPending, Operation
  <2> QED
    BY <1>2, <2>1, <2>3 DEF Tells
<1> QED
  BY <1>3, <1>4, SameTellsSameAccount

\* Doubt follows a pending row or older doubt.
LEMMA DoubtHasACause ==
  ASSUME Shaped, Linked, [Next]_vars, NEW p \in Packages,
         GatePosition(p) = "open"
  PROVE  GatePosition(p)' # "doubt"
<1> SUFFICES ASSUME GatePosition(p)' = "doubt" PROVE FALSE
  OBVIOUS
<1>1. Unresolved(p) = {}
  BY DEF GatePosition
<1>2. PICK i \in Unresolved(p)' : ops'[i].status # "pending"
  BY DEF GatePosition, IsPending
<1>3. i \in Ids' /\ ops'[i].package = p /\ ops'[i].status = "uncertain"
  BY <1>2 DEF Unresolved, IsUnresolved
<1>4. CASE i \in Ids
  <2>1. ops'[i] = ops[i] \/ \E j \in Live : RowStep(j, i)
    BY <1>4, LedgerStep
  <2>2. ops[i].package = p /\ ops[i].status \in {"pending", "uncertain"}
    <3>1. CASE ops'[i] = ops[i]
      BY <1>3, <3>1
    <3>2. ASSUME NEW j \in Live, RowStep(j, i), ops'[i] # ops[i]
          PROVE  ops[i].package = p /\ ops[i].status \in {"pending", "uncertain"}
      <4>1. ops'[i].package = ops[i].package /\ RowKept(i)
        BY <1>4, <3>2, RowStepKeeps
      <4>2. ops'[i].status = ops[i].status
              \/ (/\ ops[i].status \in {"pending", "applied", "uncertain"}
                  /\ ops'[i].status \in StatusStep[ops[i].status])
        BY <4>1 DEF RowKept, StatusStep
      <4>3. ops[i].status # "applied"
        <5>1. "uncertain" \notin StatusStep["applied"]
          BY DEF StatusStep
        <5> QED
          BY <1>3, <4>2, <5>1
      <4> QED
        BY <1>3, <4>1, <4>2, <4>3
    <3> QED
      BY <2>1, <3>1, <3>2
  <2> QED
    BY <1>1, <1>4, <2>2 DEF Unresolved, IsUnresolved
<1>5. CASE i \notin Ids
  <2>1. PICK j \in Live : NewRow(j, i)
    BY <1>3, <1>5, LedgerStep
  <2> QED
    BY <1>3, <2>1, RowFields DEF NewRow
<1> QED
  BY <1>4, <1>5

\* The gates as PackageGate sees them.
Gates == [p \in Packages |-> GatePosition(p)]
Accounts == [p \in Packages |-> Account(p)]

LEMMA GateStep ==
  ASSUME InductiveInvariant, InductiveInvariant', Evidence, Evidence',
         LedgerLeadsTv, LedgerLeadsTv', OnlyTheController, [Next]_vars
  PROVE  [Gate!Next]_<<Gates, Accounts, tv>>
<1>0. /\ Shaped /\ Shaped' /\ Linked /\ LateBehindOrphans /\ LedgerMatchesTv'
      /\ tv \in [Packages -> State]
  BY DEF InductiveInvariant, LedgerLeadsTv, Shaped, TypeOK, JobsTypeOK
<1>1. CASE UNCHANGED ops
  <2>1. Gates' = Gates /\ Accounts' = Accounts
    BY <1>1, SameRowsSameGate DEF Gates, Accounts
  <2>2. ASSUME NEW p \in Packages, NEW s \in State, TvMoves(p, s) PROVE Gate!Change(p)
    <3>1. Gates[p] = "held"
      <4>1. PICK i \in Ids : ops[i].package = p /\ IsPending(i)
        BY <1>0, <2>2, TvBehindRow
      <4> QED
        BY <4>1 DEF Gates, GatePosition, Unresolved, IsUnresolved, IsPending
    <3> QED
      BY <2>1, <2>2, <3>1 DEF Gate!Change, TvMoves, Gates, Accounts
  <2> QED
    BY <1>0, <2>1, <2>2, TvStep DEF Gate!Next
<1>2. ASSUME NEW j \in Jobs, Writer(j), UNCHANGED <<tv, device, library, late>>
      PROVE  [Gate!Next]_<<Gates, Accounts, tv>>
  <2>0. /\ j \in Live /\ jobs[j].package \in Packages
        /\ \A i \in Ids : RowStep(j, i)
        /\ \A i \in Ids : ops'[i] = ops[i] \/ ops[i].package = jobs[j].package
        /\ Ids' = Ids \/ (BeginRow(j) /\ \E n \in Nat : NewRow(j, n))
    BY <1>0, <1>2, Written, LiveJob DEF Job
  <2>1. PICK q \in Packages : q = jobs[j].package
    BY <2>0
  <2>2. \A p \in Packages \ {q} : GatePosition(p)' = GatePosition(p)
                                  /\ Account(p)' = Account(p)
    BY <1>0, <1>2, <2>1, OtherGatesStay
  <2>3. /\ GatePosition(q) \in {"open", "held", "doubt"}
        /\ GatePosition(q)' \in {"open", "held", "doubt"}
        /\ ~(GatePosition(q) = "open" /\ GatePosition(q)' = "doubt")
    BY <1>0, <2>1, DoubtHasACause DEF GatePosition
  <2>4. /\ Gates' = [Gates EXCEPT ![q] = GatePosition(q)']
        /\ Accounts' = [Accounts EXCEPT ![q] = Account(q)']
        /\ Gates[q] = GatePosition(q) /\ Accounts[q] = Account(q)
    BY <2>1, <2>2 DEF Gates, Accounts
  <2>5. /\ GatePosition(q) = "held" => Account(q) = NoState
        /\ GatePosition(q)' = "held" => Account(q)' = NoState
    BY <1>0, <2>1, HeldIsUntold, HeldWillBeUntold DEF HeldUntold, Shaped, TypeOK
  <2>6. CASE GatePosition(q)' = GatePosition(q) /\ Account(q)' = Account(q)
    BY <1>2, <2>4, <2>6 DEF Gates, Accounts
  <2>10. ASSUME NEW from, NEW to, NEW told, GatePosition(q) \in from,
                GatePosition(q)' = to, Account(q)' = told
         PROVE  Gate!Move(q, from, to, told)
    BY <1>2, <2>4, <2>10 DEF Gate!Move, Gates, Accounts
  <2>7. ASSUME NEW n \in Nat, NewRow(j, n)
        PROVE  [Gate!Next]_<<Gates, Accounts, tv>>
    <3>1. /\ \A i \in Ids : ops[i].package = q => ~IsPending(i)
          /\ n \in Ids' /\ ops'[n].package = q /\ ops'[n].status = "pending"
      BY <2>1, <2>7, RowFields DEF NewRow
    <3>2. GatePosition(q) \in {"open", "doubt"}
      BY <2>3, <3>1 DEF GatePosition, Unresolved
    <3>3. GatePosition(q)' = "held"
      BY <3>1 DEF GatePosition, Unresolved, IsUnresolved, IsPending
    <3> QED
      BY <2>1, <2>5, <2>10, <3>2, <3>3 DEF Gate!Next, Gate!Acquire
  <2>8. ASSUME NEW i \in Ids, IsPending(i), ops'[i].status = "applied", Ids' = Ids
        PROVE  [Gate!Next]_<<Gates, Accounts, tv>>
    <3>1. /\ ops[i].package = q /\ ops'[i].package = q /\ ops'[i].after = tv'[q]
          /\ \A k \in Ids : ops'[k].package = ops[k].package
                          /\ (ops'[k].status = "pending" => ops'[k] = ops[k])
      <4>1. ops'[i] # ops[i] /\ ops[i].package = q
        BY <2>0, <2>1, <2>8 DEF IsPending
      <4>2. \A k \in Ids : ops'[k].package = ops[k].package
                          /\ (ops'[k].status = "pending" => ops'[k] = ops[k])
        BY <1>0, <2>0, RowStepKeeps
      <4>3. \A k \in Ids : ops'[k].package = ops'[i].package => k <= i
        BY <2>8, <4>2 DEF Evidence, PendingIsNewest
      <4>4. tv'[ops'[i].package] = ops'[i].after
        BY <1>0, <2>8, <4>3 DEF LedgerMatchesTv
      <4> QED
        BY <4>1, <4>2, <4>4
    <3>2. GatePosition(q) = "held"
      BY <2>8, <3>1 DEF GatePosition, Unresolved, IsUnresolved, IsPending
    <3>3. GatePosition(q)' # "held"
      <4> SUFFICES ASSUME NEW k \in Ids, ops'[k].package = q, ops'[k].status = "pending"
                   PROVE  FALSE
        BY <2>8 DEF GatePosition, Unresolved, IsPending
      <4>1. ops[k] = ops'[k] /\ IsPending(k) /\ ops[k].package = q
        BY <3>1 DEF IsPending
      <4>2. k <= i /\ i <= k
        BY <2>8, <3>1, <4>1 DEF Evidence, PendingIsNewest
      <4>3. k = i
        BY <1>0, <4>2, IdsInterval DEF Shaped, TypeOK
      <4> QED
        BY <2>8, <4>3
    <3>4. Account(q)' = tv[q]
      <4>1. Tells(i, q)' /\ i \in Ids' /\ JournalTypeOK'
        BY <1>0, <2>8, <3>1 DEF Tells, Evidence, PendingIsNewest, Shaped, TypeOK
      <4>2. Account(q)' = ops'[i].after
        BY <4>1, AccountWillBeTold DEF AccountTold
      <4> QED
        BY <1>2, <3>1, <4>2
    <3>5. CASE GatePosition(q)' = "open"
      BY <2>1, <2>10, <3>2, <3>4, <3>5 DEF Gate!Next, Gate!Release
    <3>6. CASE GatePosition(q)' = "doubt"
      BY <2>1, <2>10, <3>2, <3>4, <3>6 DEF Gate!Next, Gate!Suspect
    <3> QED
      BY <2>3, <3>3, <3>5, <3>6
  <2>9. CASE Ids' = Ids /\ \A i \in Ids : IsPending(i) => ops'[i].status # "applied"
    <3>1. Account(q)' = Account(q)
      BY <1>0, <1>2, <2>9, AccountKept
    <3>2. GatePosition(q)' = "held" => GatePosition(q) = "held"
      BY <1>0, <2>0, <2>9, RowStepKeeps
      DEF GatePosition, Unresolved, IsUnresolved, IsPending
    <3>3. GatePosition(q) = "held" => GatePosition(q)' # "open"
      <4> SUFFICES ASSUME NEW i \in Ids, ops[i].package = q, IsPending(i)
                   PROVE  GatePosition(q)' # "open"
        BY DEF GatePosition, Unresolved
      <4>1. RowStep(j, i) /\ ops[i] \in Operation /\ ops'[i].package = q
        BY <1>0, <2>0, RowStepKeeps, RowIsOperation
      <4>2. ops'[i].status \in {"pending", "uncertain"}
        BY <2>9, <4>1 DEF RowStep, IsPending, Operation
      <4> QED
        BY <2>9, <4>1, <4>2 DEF GatePosition, Unresolved, IsUnresolved
    <3>4. CASE GatePosition(q) = "held" /\ GatePosition(q)' = "doubt"
      BY <2>1, <2>5, <2>10, <3>1, <3>4 DEF Gate!Next, Gate!Suspect
    <3>5. CASE GatePosition(q) = "doubt" /\ GatePosition(q)' = "open"
      BY <2>1, <2>4, <2>10, <3>1, <3>5 DEF Gate!Next, Gate!Settle
    <3> QED
      BY <2>3, <2>6, <3>1, <3>2, <3>3, <3>4, <3>5
  <2> QED
    BY <2>0, <2>7, <2>8, <2>9
<1> QED
  BY <1>1, <1>2, Writers

\* The Controller implements the gate of every package: the abstract promise of PackageGate
\* holds for any number of handlers, threads, crashes and storage errors.
THEOREM GateIsImplemented ==
    ASSUME OnlyTheController PROVE Spec => ImplementsGate
<1>1. Init => Gate!Init
  <2> SUFFICES ASSUME Init PROVE Gate!Init
    OBVIOUS
  <2>1. \A p \in Packages : GatePosition(p) = "open" /\ Account(p) = NoState
    BY DEF Init, JournalInit, Ids, GatePosition, Unresolved, Account
  <2>2. tv \in [Packages -> State]
    BY DEF Init
  <2> QED
    BY <2>1, <2>2 DEF Gate!Init
<1>2. /\ InductiveInvariant /\ InductiveInvariant' /\ Evidence /\ Evidence'
      /\ LedgerLeadsTv /\ LedgerLeadsTv' /\ [Next]_vars
      => [Gate!Next]_<<Gates, Accounts, tv>>
  BY GateStep
<1>3. Gate!Spec <=> Gate!Init /\ [][Gate!Next]_<<Gates, Accounts, tv>>
  BY DEF Gate!Spec, Gate!vars, Gates, Accounts
<1> QED
  BY LedgerAlwaysLeads, <1>1, <1>2, <1>3, PTL DEF Spec, ImplementsGate
-----------------------------------------------------------------------------
(* One request handler.                                                    *)

LEMMA OneHandlerStep ==
  ASSUME Shaped, Shaped', OneHandler, OnlyUpdatesDownload, Workers = 1, [Next]_vars
  PROVE  OneHandler' /\ OnlyUpdatesDownload'
<1>1. ASSUME NEW j \in Jobs, Accepted(j), NEW k \in Live PROVE ~Serving(k)
  <2> SUFFICES ASSUME Serving(k) PROVE FALSE
    OBVIOUS
  <2>1. {m \in Live : Serving(m)} = {k}
    BY DEF OneHandler
  <2>2. Cardinality({k}) = 1
    BY FS_Singleton
  <2> QED
    BY <1>1, <2>1, <2>2 DEF Accepted
<1>2. ASSUME NEW k \in Live', Serving(k)' PROVE (k \in Live /\ Serving(k)) \/ Accepted(k)
  <2>1. Source(k)
    BY LiveStep
  <2>2. CASE k \in Live /\ jobs'[k] \in Idle(jobs[k])
    BY <1>2, <2>2, LiveJob, IdleJob DEF Serving, InThread
  <2>3. CASE k \in Live /\ Advance(jobs[k], jobs'[k])
    BY <1>2, <2>3
    DEF Serving, InThread, Advance, Order, ServingPcs, OnlyUpdatesDownload, At
  <2> QED
    BY <2>1, <2>2, <2>3 DEF Source
<1>3. ASSUME NEW j \in Live', NEW k \in Live', Serving(j)', Serving(k)', j # k
      PROVE  FALSE
  <2>1. CASE Accepted(j)
    <3>1. k \in Live /\ jobs'[k] = jobs[k]
      BY <1>3, <2>1 DEF Accepted, Live
    <3>2. Serving(k)
      BY <1>3, <3>1 DEF Serving, InThread
    <3> QED
      BY <1>1, <2>1, <3>1, <3>2 DEF Live
  <2>2. CASE Accepted(k)
    <3>1. j \in Live /\ jobs'[j] = jobs[j]
      BY <1>3, <2>2 DEF Accepted, Live
    <3>2. Serving(j)
      BY <1>3, <3>1 DEF Serving, InThread
    <3> QED
      BY <1>1, <2>2, <3>1, <3>2 DEF Live
  <2> QED
    BY <1>2, <1>3, <2>1, <2>2 DEF OneHandler
<1>4. OneHandler'
  BY <1>3 DEF OneHandler
<1>5. ASSUME NEW k \in Live', jobs'[k].pc = "download" PROVE jobs'[k].kind = "update"
  <2>1. Source(k)
    BY LiveStep
  <2>2. CASE k \in Live /\ jobs'[k] \in Idle(jobs[k])
    BY <1>5, <2>2, LiveJob, IdleJob DEF OnlyUpdatesDownload, At
  <2>3. CASE k \in Live /\ Advance(jobs[k], jobs'[k])
    BY <1>5, <2>3 DEF Advance, Order
  <2> QED
    BY <1>5, <2>1, <2>2, <2>3 DEF Source, Accepted
<1> QED
  BY <1>4, <1>5 DEF OnlyUpdatesDownload, At

\* A row that is active now was active before, with the action it was begun with.
LEMMA ActiveBefore ==
  ASSUME Shaped, Linked, [Next]_vars, NEW k \in Ids, IsActive(k)'
  PROVE  IsActive(k) /\ ops'[k].package = ops[k].package /\ ops'[k].action = ops[k].action
<1>1. CASE ops'[k] = ops[k]
  BY <1>1 DEF IsActive
<1>2. ASSUME NEW j \in Live, RowStep(j, k), ops'[k] # ops[k]
      PROVE  IsActive(k)
  <2>1. ops[k] \in Operation
    BY RowIsOperation
  <2> QED
    BY <1>2, <2>1 DEF RowStep, IsActive, IsPending, Operation
<1> QED
  BY <1>1, <1>2, LedgerStep, RowStepKeeps

LEMMA OvertakenStep ==
  ASSUME Shaped, Shaped', Linked, HandlersTakeTurns, [Next]_vars
  PROVE  Overtaken'
<1> SUFFICES ASSUME NEW j \in Live', jobs'[j].kind = "rollback", jobs'[j].pc = "begin",
                    NEW k \in Overtaking(j)'
             PROVE  ops'[k].action \in ThreadActions
  BY DEF Overtaken, At
<1>0. /\ k \in Ids' /\ k > jobs'[j].original
      /\ ops'[k].package = jobs'[j].package /\ IsActive(k)'
  BY DEF Overtaking
<1>1. Source(j)
  BY LiveStep
<1>2. CASE j \in Live /\ jobs'[j] \in Idle(jobs[j])
  <2>1. /\ jobs[j] \in Job /\ jobs[j].kind = "rollback" /\ jobs[j].pc = "begin"
        /\ jobs'[j].original = jobs[j].original /\ jobs'[j].package = jobs[j].package
    BY <1>2, LiveJob, IdleJob
  <2>2. CASE k \in Ids
    <3>1. k \in Overtaking(j) /\ ops'[k].action = ops[k].action
      BY <1>0, <2>1, <2>2, ActiveBefore DEF Overtaking
    <3> QED
      BY <1>2, <2>1, <3>1 DEF HandlersTakeTurns, Overtaken, At
  <2>3. CASE k \notin Ids
    <3>1. PICK m \in Live : NewRow(m, k) /\ BeginRow(m)
      BY <1>0, <2>3, LedgerStep
    <3>2. CASE InThread(m)
      BY <3>1, <3>2, RowFields DEF NewRow, ActionOf, InThread, ThreadActions
    <3>3. CASE ~InThread(m)
      <4>1. Serving(m) /\ Serving(j)
        BY <1>2, <2>1, <3>1, <3>3 DEF NewRow, At, Serving, InThread, ServingPcs
      <4>2. m = j
        BY <1>2, <4>1 DEF HandlersTakeTurns, OneHandler
      <4>3. jobs'[j].pc = "spawn"
        BY <1>2, <2>1, <3>1, <4>2 DEF BeginRow, Shaped, TypeOK, JobsTypeOK, Live, Job
      <4> QED
        BY <4>3
    <3> QED
      BY <3>2, <3>3
  <2> QED
    BY <2>2, <2>3
<1>3. CASE j \in Live /\ Advance(jobs[j], jobs'[j]) /\ (HandlerStep(j) \/ ThreadStep(j))
  <2>1. jobs[j].pc \in {"newer", "download"} /\ jobs[j].kind = "rollback"
    BY <1>3 DEF Advance, Order
  <2>2. jobs[j].pc = "newer"
    BY <1>3, <2>1 DEF HandlersTakeTurns, OnlyUpdatesDownload, At
  <2>3. CheckNewer(j)
    BY <1>3, <2>2
    DEF HandlerStep, ThreadStep, Unlink, Prepare, Reconcile, BeginRow, BeginRefused,
        Spawn, Download, InspectEntry, Proceed, Announce, SendCommand, RestoreDisabled,
        Verify, CompleteRow, FinishRow, Report, FailRow, At
  <2>4. UNCHANGED ops
    BY <2>3 DEF CheckNewer
  <2>5. ~End(j)
    <3>1. End(j) => jobs'[j] = NoJob
      BY <1>3 DEF End, Shaped, TypeOK, JobsTypeOK, Live
    <3> QED
      BY <3>1 DEF Live
  <2>6. NoNewerActive(jobs[j].original)
    BY <2>3, <2>5 DEF CheckNewer
  <2>7. ops[jobs[j].original].package = jobs[j].package
    BY <1>3, <2>1 DEF Linked, JobLinked
  <2>8. /\ k \in Ids /\ k > jobs[j].original
        /\ ops[k].package = jobs[j].package /\ IsActive(k)
    BY <1>0, <1>3, <2>4 DEF Advance, Ids, IsActive
  <2> QED
    BY <2>6, <2>7, <2>8 DEF NoNewerActive
<1>4. ~Accepted(j)
  BY DEF Accepted
<1> QED
  BY <1>1, <1>2, <1>3, <1>4 DEF Source

LEMMA HandlersAlwaysTakeTurns ==
  ASSUME Workers = 1
  PROVE  Spec => [](InductiveInvariant /\ HandlersTakeTurns)
<1>1. Init => HandlersTakeTurns
  BY DEF Init, Live, HandlersTakeTurns, OneHandler, OnlyUpdatesDownload, Overtaken
<1>2. InductiveInvariant /\ InductiveInvariant' /\ HandlersTakeTurns /\ [Next]_vars
      => HandlersTakeTurns'
  BY OneHandlerStep, OvertakenStep DEF HandlersTakeTurns, InductiveInvariant
<1> QED
  BY AlwaysInductive, <1>1, <1>2, PTL DEF Spec

\* ApkJobManager.start_rollback: with one request handler only the rows of updates and of
\* profiles, which their threads begin, can come between the checks of a rollback and its
\* row; for any number of threads and any fault.
THEOREM OnlyThreadsComeBetween ==
    ASSUME Workers = 1 PROVE Spec => OnlyThreadsOvertake
<1> DEFINE Between == \A r \in Ids' \ Ids :
              ops'[r].parent # 0 => \A k \in NewerActive(r) : ops[k].action \in ThreadActions
<1>1. ASSUME InductiveInvariant, HandlersTakeTurns, [Next]_vars PROVE Between
  <2> SUFFICES ASSUME NEW r \in Ids' \ Ids, ops'[r].parent # 0, NEW k \in NewerActive(r)
               PROVE  ops[k].action \in ThreadActions
    OBVIOUS
  <2>1. PICK j \in Live : NewRow(j, r)
    BY <1>1, LedgerStep DEF InductiveInvariant
  <2>2. /\ jobs[j].pc = "begin" /\ ops'[r].parent = jobs[j].original
        /\ ops'[r].package = jobs[j].package
    BY <2>1, RowFields DEF NewRow, At
  <2>3. jobs[j].kind = "rollback"
    BY <1>1, <2>2, LiveJob DEF InductiveInvariant, Shape
  <2>4. k \in Overtaking(j)
    BY <2>2 DEF NewerActive, Overtaking
  <2> QED
    BY <1>1, <2>2, <2>3, <2>4 DEF HandlersTakeTurns, Overtaken, At
<1>2. InductiveInvariant /\ HandlersTakeTurns /\ [Next]_vars => [Between]_vars
  BY <1>1
<1> QED
  BY HandlersAlwaysTakeTurns, <1>2, PTL DEF Spec, OnlyThreadsOvertake
-----------------------------------------------------------------------------
(* A service that never fails: the verdicts come.                          *)

Stepped(j) == HandlerStep(j) \/ ThreadStep(j)

\* The job that writes a row moves on or ends, and no other job moves with it.
LEMMA WriterMoves ==
  ASSUME Shaped, Shaped', Linked, [Next]_vars, NEW i \in Ids, ops'[i] # ops[i]
  PROVE  \E j \in Live :
            /\ RowStep(j, i)
            /\ Stepped(j)
            /\ \A k \in Jobs \ {j} : jobs'[k] = jobs[k]
            /\ jobs'[j] = NoJob \/ jobs'[j].pc # jobs[j].pc
<1>1. PICK j \in Jobs : Writer(j)
  BY Writers
<1>2. j \in Live /\ RowStep(j, i) /\ Stepped(j)
  BY <1>1, Written DEF Stepped, Writer, HandlerStep, ThreadStep
<1>3. /\ \A k \in Jobs \ {j} : jobs'[k] = jobs[k]
      /\ jobs'[j] = NoJob \/ Advance(jobs[j], jobs'[j])
  BY <1>2, JobStep DEF Stepped
<1>4. Advance(jobs[j], jobs'[j]) => jobs'[j].pc # jobs[j].pc
  <2>1. jobs[j].pc \in {"complete", "fail", "reconcile", "finish"}
    BY <1>2 DEF RowStep, At
  <2> QED
    BY <2>1 DEF Advance, Order
<1> QED
  BY <1>2, <1>3, <1>4

LEMMA RollbackRowsStep ==
  ASSUME Shaped, Linked, RollbackRows, [Next]_vars
  PROVE  RollbackRows'
<1> SUFFICES ASSUME NEW i \in Ids'
             PROVE  /\ ops'[i].action = "rollback" <=> ops'[i].parent # 0
                    /\ ops'[i].inverse = "" => ops'[i].action = "rollback"
  BY DEF RollbackRows
<1>1. CASE i \in Ids
  <2>1. /\ ops'[i].action = ops[i].action /\ ops'[i].parent = ops[i].parent
        /\ ops'[i].inverse = ops[i].inverse
    <3>1. ops[i] \in Operation
      BY <1>1, RowIsOperation
    <3>2. CASE ops'[i] = ops[i]
      BY <3>2
    <3>3. ASSUME NEW j \in Live, RowStep(j, i) PROVE RowKept(i)
      BY <1>1, <3>3, RowStepKeeps
    <3> QED
      BY <1>1, <3>1, <3>2, <3>3, LedgerStep DEF RowKept, Operation
  <2> QED
    BY <1>1, <2>1 DEF RollbackRows
<1>2. CASE i \notin Ids
  <2>1. PICK j \in Live : NewRow(j, i)
    BY <1>2, LedgerStep
  <2>2. /\ ops'[i] = RowOf(j) /\ jobs[j] \in Job /\ Shape(jobs[j], Ids)
        /\ jobs[j].kind # "delete" /\ 0 \notin Ids
    BY <2>1, LiveJob, IdsInterval DEF NewRow, Shape, At, Shaped, TypeOK
  <2>3. jobs[j].kind \in Mutations
    BY <2>2 DEF Job
  <2>4. ops'[i].parent # 0 <=> jobs[j].kind = "rollback"
    BY <2>2, RowFields DEF Shape
  <2>5. ops'[i].action = "rollback" <=> jobs[j].kind = "rollback"
    <3>1. ops'[i].action = ActionOf(j)
      BY <2>2, RowFields
    <3> QED
      BY <2>3, <3>1 DEF ActionOf, Mutations
  <2>6. ASSUME jobs[j].kind # "rollback" PROVE ops'[i].inverse # ""
    <3>1. ops'[i].inverse = InverseOf(j)
      BY <2>2, <2>6, RowFields
    <3>2. Verb(j) \in Verbs
      BY <2>1, <2>3, <2>6 DEF NewRow, At, Verb, EntryVerb, Verbs, Mutations
    <3> QED
      BY <3>1, <3>2 DEF InverseOf, Verbs
  <2> QED
    BY <2>4, <2>5, <2>6
<1> QED
  BY <1>1, <1>2

\* A job of the present state stays, moves by its own step, or a crash takes it.
LEMMA Fate ==
  ASSUME Shaped, Shaped', NothingFails, [Next]_vars, NEW j \in Live
  PROVE  jobs'[j] \in Idle(jobs[j]) \/ Stepped(j)
<1>1. ASSUME NEW k \in Jobs, Request(k) PROVE jobs'[j] = jobs[j]
  BY <1>1, RequestStep DEF Accepted, Live
<1>2. ASSUME NEW k \in Jobs, Stepped(k), k # j PROVE jobs'[j] = jobs[j]
  BY <1>2, JobStep DEF Stepped, Live
<1>3. CASE ClearFinished \/ DeviceChange
  BY <1>3 DEF ClearFinished, DeviceChange, Live, Idle
<1>4. CASE UNCHANGED jobs
  BY <1>4 DEF Idle
<1> QED
  BY <1>1, <1>2, <1>3, <1>4
  DEF Next, Environment, Crash, Event, NothingFails, AwaitRequest, ArchiveDownload,
      LateEffect, CliCommand, CliDelete, ExternalChange, vars, Stepped, Idle

\* The owner of a pending row goes on until it decides the row.
LEMMA OwnerGoesOn ==
  ASSUME Shaped, Shaped', Linked, NothingFails, [Next]_vars,
         NEW j \in Live, jobs[j].pc \in OpenPcs \cup {"fail"},
         IsPending(jobs[j].op), ops'[jobs[j].op].status = "pending"
  PROVE  /\ j \in Live' /\ jobs'[j].op = jobs[j].op
         /\ jobs'[j].pc \in OpenPcs \cup {"fail"}
<1> DEFINE i == jobs[j].op
<1>0. /\ jobs[j] \in Job /\ j \in Jobs /\ i \in Ids /\ ops[i] \in Operation
      /\ i = jobs[j].op /\ i # 0 /\ JournalTypeOK
  BY LiveJob, RowIsOperation DEF Shape, OpenPcs, RowlessPcs, Shaped, TypeOK
<1>00. IsPending(i) /\ ops'[i].status = "pending"
  OBVIOUS
<1> HIDE DEF i
<1>1. CASE jobs'[j] \in Idle(jobs[j])
  BY <1>0, <1>1, IdleJob, NoJobIsNoJob DEF Live
<1>2. CASE Stepped(j)
  <2>1. jobs'[j] = NoJob \/ Advance(jobs[j], jobs'[j])
    BY <1>0, <1>2, JobStep DEF Stepped
  <2>2. ASSUME jobs[j].pc = "fail" PROVE FALSE
    <3>1. FailRow(j)
      BY <1>2, <2>2
      DEF Stepped, HandlerStep, ThreadStep, Unlink, Prepare, CheckNewer, Reconcile, BeginRow,
          BeginRefused, Spawn, Download, InspectEntry, Proceed, Announce, SendCommand,
          RestoreDisabled, Verify,
          CompleteRow, FinishRow, Report, At
    <3>2. ops' = [ops EXCEPT ![i].status = "uncertain"]
      BY <1>0, <1>00, <3>1 DEF FailRow, Fail, StorageError, Event, NothingFails
    <3>3. ops'[i].status = "uncertain"
      BY <1>0, <3>2 DEF Operation, Ids
    <3> QED
      BY <1>00, <3>3
  <2>3. ASSUME jobs[j].pc = "complete" PROVE jobs'[j].pc = "fail"
    <3>1. CompleteRow(j)
      BY <1>2, <2>3
      DEF Stepped, HandlerStep, ThreadStep, Unlink, Prepare, CheckNewer, Reconcile, BeginRow,
          BeginRefused, Spawn, Download, InspectEntry, Proceed, Announce, SendCommand,
          RestoreDisabled, Verify,
          FailRow, FinishRow, Report, At
    <3>2. Complete(i, jobs[j].after)
      BY <1>0, <1>00, <3>1 DEF CompleteRow, StorageError, Event, NothingFails
    <3>3. jobs[j].after \in State \cup {NoState}
      BY <1>0 DEF Job
    <3>4. ops'[i] = [ops[i] EXCEPT !.status = "applied", !.after = jobs[j].after]
      BY <1>0, <3>2, <3>3, CompleteRows
    <3> QED
      BY <1>0, <1>00, <3>4 DEF Operation
  <2>4. jobs'[j] # NoJob
    <3>1. \/ Spawn(j) \/ Announce(j) \/ SendCommand(j) \/ RestoreDisabled(j)
          \/ Verify(j) \/ CompleteRow(j)
      BY <1>2, <2>2
      DEF Stepped, HandlerStep, ThreadStep, Unlink, Prepare, CheckNewer, Reconcile, BeginRow,
          BeginRefused, Download, InspectEntry, Proceed, FailRow, FinishRow, Report, At, OpenPcs
    <3>2. ASSUME NEW new \in Job, jobs' = [jobs EXCEPT ![j] = new]
          PROVE  jobs'[j] # NoJob
      BY <1>0, <3>2, NoJobIsNoJob DEF Shaped, TypeOK, JobsTypeOK
    <3>3. ASSUME NEW pc \in ThreadPcs, Goto(j, pc) PROVE jobs'[j] # NoJob
      <4>1. [jobs[j] EXCEPT !.pc = pc] \in Job
        BY <1>0 DEF Job
      <4> QED
        BY <3>2, <3>3, <4>1 DEF Goto
    <3>4. ASSUME Announce(j) PROVE jobs'[j] # NoJob
      <4>1. CASE Goto(j, "fail")
        BY <3>3, <4>1 DEF ThreadPcs
      <4>2. CASE ~Goto(j, "fail")
        <5>1. PICK pc \in {"fail", "command"}, t \in {"running", "done", "cleared"} :
                 jobs' = [jobs EXCEPT ![j] = [jobs[j] EXCEPT !.pc = pc, !.task = t]]
          BY <1>0, <3>4, <4>2 DEF Announce, Job, Shaped, TypeOK, JobsTypeOK
        <5>2. [jobs[j] EXCEPT !.pc = pc, !.task = t] \in Job
          BY <1>0 DEF Job, ThreadPcs
        <5> QED
          BY <3>2, <5>1, <5>2
      <4> QED
        BY <4>1, <4>2
    <3>5. ASSUME Verify(j) PROVE jobs'[j] # NoJob
      <4>1. CASE Goto(j, "fail")
        BY <3>3, <4>1 DEF ThreadPcs
      <4>2. CASE ~Goto(j, "fail")
        <5> DEFINE new == [jobs[j] EXCEPT !.pc = "complete",
                                          !.after = tv[jobs[j].package],
                                          !.source = device]
        <5>1. jobs' = [jobs EXCEPT ![j] = new]
          BY <1>0, <3>5, <4>2 DEF Verify, Job, Shaped, TypeOK, JobsTypeOK
        <5>2. tv[jobs[j].package] \in State /\ device \in Devices
          BY <1>0 DEF Job, Shaped, TypeOK, JobsTypeOK
        <5>3. new \in Job
          BY <1>0, <5>2 DEF Job, ThreadPcs
        <5> QED
          BY <3>2, <5>1, <5>3
      <4> QED
        BY <4>1, <4>2
    <3>6. \/ Announce(j) \/ Verify(j) \/ \E pc \in ThreadPcs : Goto(j, pc)
      BY <3>1
      DEF Spawn, SendCommand, RestoreDisabled, Run, CompleteRow, StorageError, Event,
          NothingFails, ThreadPcs
    <3> QED
      BY <3>3, <3>4, <3>5, <3>6
  <2>5. Advance(jobs[j], jobs'[j])
    BY <2>1, <2>4
  <2>6. jobs'[j].pc \in OpenPcs \cup {"fail"}
    BY <2>2, <2>3, <2>5 DEF Advance, Order, OpenPcs
  <2> QED
    BY <1>0, <2>4, <2>5, <2>6 DEF Advance, Live, OpenPcs
<1> QED
  BY <1>1, <1>2, Fate

LEMMA PendingHasJobStep ==
  ASSUME Shaped, Shaped', Linked, NothingFails, PendingHasJob, [Next]_vars
  PROVE  PendingHasJob'
<1> SUFFICES ASSUME NEW i \in Ids', ops'[i].status = "pending"
             PROVE  \E j \in Live' : /\ jobs'[j].op = i
                                     /\ jobs'[j].pc \in OpenPcs \cup {"fail"}
  BY DEF PendingHasJob, IsPending
<1>1. CASE i \in Ids
  <2>1. ops[i].status = "pending"
    BY <1>1, LedgerStep, RowStepKeeps
  <2>2. PICK j \in Live : jobs[j].op = i /\ jobs[j].pc \in OpenPcs \cup {"fail"}
    BY <1>1, <2>1 DEF PendingHasJob, IsPending
  <2> QED
    BY <2>1, <2>2, OwnerGoesOn DEF IsPending
<1>2. CASE i \notin Ids
  <2>1. PICK j \in Live : NewRow(j, i) /\ BeginRow(j)
    BY <1>2, LedgerStep
  <2>2. /\ jobs[j] \in Job /\ j \in Jobs /\ i = Len(ops) + 1 /\ i \in Nat
        /\ RowOf(j) \in Operation
    BY <2>1, LiveJob, RowTyped DEF NewRow, Shaped, TypeOK, JournalTypeOK
  <2> DEFINE next == CASE jobs[j].kind = "update" -> "announce"
                       [] jobs[j].kind = "apply" -> "command"
                       [] OTHER -> "spawn"
             new == [jobs[j] EXCEPT !.op = i, !.pc = next]
  <2>3. jobs' = [jobs EXCEPT ![j] = new] /\ next \in {"announce", "command", "spawn"}
    BY <2>1, <2>2 DEF BeginRow, Job, Shaped, TypeOK, JobsTypeOK
  <2> HIDE DEF next
  <2>4. new \in Job /\ new.op = i /\ new.pc \in {"announce", "command", "spawn"}
    BY <2>2, <2>3 DEF Job, ServingPcs, ThreadPcs
  <2> HIDE DEF new
  <2>5. jobs'[j] = new /\ new # NoJob
    BY <2>2, <2>3, <2>4, NoJobIsNoJob DEF Shaped, TypeOK, JobsTypeOK
  <2> QED
    BY <2>2, <2>4, <2>5 DEF Live, OpenPcs
<1> QED
  BY <1>1, <1>2

LEMMA AppliedRollbackStep ==
  ASSUME Shaped, Shaped', Linked, NothingFails, RollbackRows, AppliedRollbackHasJob,
         [Next]_vars
  PROVE  AppliedRollbackHasJob'
<1> SUFFICES ASSUME NEW i \in Ids', ops'[i].action = "rollback", ops'[i].status = "applied"
             PROVE  \/ \E j \in Live' : jobs'[j].op = i /\ jobs'[j].pc = "finish"
                    \/ ops'[ops'[i].parent].status \in {"reverted", "reconciled"}
  BY DEF AppliedRollbackHasJob, At
<1>1. i \in Ids /\ ops[i] \in Operation /\ i # 0
  <2> SUFFICES ASSUME i \notin Ids PROVE FALSE
    BY RowIsOperation, IdsInterval DEF Shaped, TypeOK
  <2>1. PICK j \in Live : NewRow(j, i)
    BY LedgerStep
  <2> QED
    BY <2>1, RowFields DEF NewRow
<1>2. CASE ops'[i] = ops[i]
  <2>1. /\ ops[i].action = "rollback" /\ ops[i].parent # 0 /\ RowLinked(i)
        /\ ops[i].parent \in Ids /\ ops[ops[i].parent] \in Operation
    BY <1>1, <1>2, RowIsOperation DEF RollbackRows, Linked, RowsLinked, RowLinked
  <2>2. CASE ops[ops[i].parent].status \in {"reverted", "reconciled"}
    <3>1. ASSUME NEW o \in Ids, ops[o].status \in {"reverted", "reconciled"}
          PROVE  ops'[o].status = ops[o].status
      BY <3>1, LedgerStep DEF RowStep, IsPending
    <3> QED
      BY <1>2, <2>1, <2>2, <3>1
  <2>3. ASSUME NEW j \in Live, jobs[j].op = i, At(j, "finish"),
               ops[ops[i].parent].status \notin {"reverted", "reconciled"}
        PROVE  \E m \in Live' : jobs'[m].op = i /\ jobs'[m].pc = "finish"
    <3>1. /\ jobs[j] \in Job /\ Shape(jobs[j], Ids) /\ JobLinked(jobs[j], ops)
          /\ jobs[j].kind = "rollback" /\ jobs[j].original \in Ids /\ j \in Jobs
          /\ jobs[j].original = ops[i].parent /\ i # jobs[j].original
      BY <1>1, <2>1, <2>3, LiveJob, IdsInterval
      DEF Linked, At, Shape, JobLinked, RowLinked, Shaped, TypeOK, JournalTypeOK
    <3>2. CASE jobs'[j] \in Idle(jobs[j])
      BY <2>3, <3>1, <3>2, IdleJob, NoJobIsNoJob DEF Live, At
    <3>3. CASE Stepped(j)
      <4>1. FinishRow(j)
        BY <2>3, <3>3
        DEF Stepped, HandlerStep, ThreadStep, Unlink, Prepare, CheckNewer, Reconcile,
            BeginRow, BeginRefused, Spawn, Download, InspectEntry, Proceed, Announce,
            SendCommand, RestoreDisabled, Verify, CompleteRow, FailRow, Report, At
      <4>2. ops[ops[i].parent].status \notin {"pending", "rollback-recorded"}
        <5>1. PICK o \in Ids : o = ops[i].parent
          BY <2>1
        <5>2. ops[o].inverse # "" /\ ops[o].status # "pending"
          BY <2>3, <3>1, <5>1 DEF At, JobLinked
        <5>3. RowLinked(o) /\ RowRecorded(o)
          BY DEF Linked, RowsLinked
        <5> QED
          BY <5>1, <5>2, <5>3 DEF RowLinked, RowRecorded
      <4>3. CanFinish(jobs[j].original, jobs[j].op)
        BY <1>2, <2>1, <2>3, <3>1, <4>2 DEF CanFinish, Operation, Status
      <4>4. FinishRollback(jobs[j].original, i)
        BY <2>3, <4>1, <4>3 DEF FinishRow, StorageError, Event, NothingFails
      <4>5. ops'[i] = [ops[i] EXCEPT !.status = "rollback-recorded"]
        BY <1>1, <3>1, <4>4, FinishRows DEF Shaped, TypeOK
      <4> QED
        BY <1>1, <4>5 DEF Operation
    <3> QED
      BY <3>2, <3>3, Fate
  <2> QED
    BY <1>1, <1>2, <2>1, <2>2, <2>3 DEF AppliedRollbackHasJob
<1>3. CASE ops'[i] # ops[i]
  <2>1. PICK j \in Live : RowStep(j, i) /\ Stepped(j)
    BY <1>1, <1>3, WriterMoves
  <2>2. At(j, "complete") /\ jobs[j].op = i
    BY <1>1, <1>3, <2>1 DEF RowStep, Operation
  <2>3. CompleteRow(j)
    BY <2>1, <2>2
    DEF Stepped, HandlerStep, ThreadStep, Unlink, Prepare, CheckNewer, Reconcile, BeginRow,
        BeginRefused, Spawn, Download, InspectEntry, Proceed, Announce, SendCommand,
        RestoreDisabled, Verify,
        FinishRow, FailRow, Report, At
  <2>4. /\ jobs[j] \in Job /\ Shape(jobs[j], Ids) /\ JobLinked(jobs[j], ops) /\ j \in Jobs
    BY LiveJob DEF Linked
  <2>5. jobs[j].kind = "rollback"
    <3>1. ops[i].action = "rollback"
      BY <1>1, LedgerStep, RowStepKeeps
    <3>2. ops[i].parent = jobs[j].original /\ ops[i].parent # 0
      BY <1>1, <2>2, <2>4, <3>1 DEF JobLinked, RollbackRows
    <3> QED
      BY <2>4, <3>2 DEF Shape
  <2>6. Goto(j, "finish")
    BY <1>3, <2>3, <2>5 DEF CompleteRow
  <2> DEFINE new == [jobs[j] EXCEPT !.pc = "finish"]
  <2>7. new \in Job /\ new.op = i /\ new.pc = "finish"
    BY <2>2, <2>4 DEF Job, ThreadPcs
  <2>8. jobs' = [jobs EXCEPT ![j] = new]
    BY <2>4, <2>6 DEF Goto, Shaped, TypeOK, JobsTypeOK
  <2> HIDE DEF new
  <2> QED
    BY <2>4, <2>7, <2>8, NoJobIsNoJob DEF Live, Shaped, TypeOK, JobsTypeOK
<1> QED
  BY <1>2, <1>3

LEMMA VerdictsAlwaysCome ==
  ASSUME NothingFails
  PROVE  Spec => [](InductiveInvariant /\ VerdictsComing)
<1>1. Init => VerdictsComing
  BY DEF Init, JournalInit, Ids, Live, VerdictsComing, RollbackRows, PendingHasJob,
         AppliedRollbackHasJob
<1>2. InductiveInvariant /\ InductiveInvariant' /\ VerdictsComing /\ [Next]_vars
      => VerdictsComing'
  BY RollbackRowsStep, PendingHasJobStep, AppliedRollbackStep
  DEF VerdictsComing, InductiveInvariant
<1> QED
  BY AlwaysInductive, <1>1, <1>2, PTL DEF Spec

\* StateJournal.prepare_selective_rollback and ApkJobManager: while the service neither dies
\* nor fails to write, what blocks a package that no job works on can be rolled back, unless
\* it is a rollback that failed or that another one came before; for any number of handlers
\* and threads, whatever commits between the reads of prepare_selective_rollback.
THEOREM PackagesAreRecoverable ==
    ASSUME NothingFails PROVE Spec => []Recoverable
<1>1. InductiveInvariant /\ VerdictsComing => Recoverable
  <2> SUFFICES ASSUME InductiveInvariant, VerdictsComing, NEW i \in Ids, NEW p,
                      p = ops[i].package, IsActive(i),
                      \A k \in Ids : ops[k].package = p /\ IsActive(k) => k <= i,
                      \A j \in Live : jobs[j].package # p,
                      ops[i].device = device,
                      ops[i].status = "applied" => tv[p] = ops[i].after
               PROVE  \/ Rollbackable(i, tv[p], device)
                      \/ /\ ops[i].action = "rollback"
                         /\ ops[i].status = "applied" =>
                               ops[ops[i].parent].status \in {"reverted", "reconciled"}
    BY DEF Recoverable
  <2>1. ASSUME NEW j \in Live, jobs[j].op = i PROVE FALSE
    <3>1. i # 0
      BY IdsInterval DEF InductiveInvariant, Shaped, TypeOK
    <3> QED
      BY <2>1, <3>1 DEF InductiveInvariant, Linked, JobLinked
  <2>2. ops[i].status \in {"applied", "uncertain"}
    BY <2>1 DEF VerdictsComing, PendingHasJob, IsActive, IsPending
  <2>3. ops[i].action = "rollback" /\ ops[i].status = "applied"
        => ops[ops[i].parent].status \in {"reverted", "reconciled"}
    BY <2>1 DEF VerdictsComing, AppliedRollbackHasJob
  <2>4. ops[i].inverse = "" => ops[i].action = "rollback"
    BY DEF VerdictsComing, RollbackRows
  <2>5. NoNewerActive(i)
    BY IdsInterval DEF NoNewerActive, InductiveInvariant, Shaped, TypeOK, JournalTypeOK
  <2> QED
    BY <2>2, <2>3, <2>4, <2>5 DEF Rollbackable, Available
<1> QED
  BY VerdictsAlwaysCome, <1>1, PTL
=============================================================================
