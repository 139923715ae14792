------------------------- MODULE JobManagerInvariant -------------------------
(***************************************************************************)
(* The inductive invariant of JobManager.                                  *)
(***************************************************************************)
EXTENDS JobManagerGate

-----------------------------------------------------------------------------
(* TypeOK alone is not inductive: a row typed from a job needs the job's   *)
(* kind to fit its pc and its row numbers to exist.                        *)

RowlessPcs == {"prepare", "newer", "reconcile", "begin", "unlink", "download",
               "inspect"}

Shape(job, rows) ==
    /\ job.kind = "delete" <=> job.pc = "unlink"
    /\ job.pc \in {"prepare", "newer", "reconcile", "finish"} => job.kind = "rollback"
    /\ job.pc = "inspect" => job.kind = "apply"
    /\ job.pc \in {"complete", "finish", "report"} => job.after \in State
    /\ job.op = 0 <=> job.pc \in RowlessPcs
    /\ job.op # 0 => job.op \in rows /\ job.original < job.op
    /\ IF job.kind = "rollback" THEN job.original \in rows ELSE job.original = 0

EnvironmentTypeOK ==
    /\ tv \in [Packages -> State]
    /\ device \in Devices
    /\ library \in [Packages -> SUBSET Versions]
    /\ late \subseteq Command
    /\ faults \in Nat

Shaped == TypeOK /\ \A j \in Live : Shape(jobs[j], Ids)
-----------------------------------------------------------------------------
(* The ledger as a lock.  OneMutatorPerPackage and UnresolvedChain hold    *)
(* only because rows know their parents and jobs own their rows: the       *)
(* invariant relates each row to its parent and each job to its rows.      *)

\* A row with a parent is a rollback, begun when the parent's verdict was known.
RowLinked(i) ==
    ops[i].parent # 0 =>
        /\ ops[i].parent \in Ids
        /\ ops[i].parent < i
        /\ ops[ops[i].parent].package = ops[i].package
        /\ ops[ops[i].parent].device = ops[i].device
        /\ ops[ops[i].parent].status # "pending"
        /\ ops[i].inverse = ""

\* A recorded rollback restored the row it reverted, and the other way round.
RowRecorded(i) ==
    ops[i].status = "rollback-recorded" =>
        /\ ops[i].parent # 0
        /\ ops[ops[i].parent].status = "reverted"
        /\ ops[i].after = ops[ops[i].parent].before

RowReverted(i) ==
    ops[i].status = "reverted" =>
        \E r \in Ids : ops[r].parent = i /\ ops[r].status = "rollback-recorded"

\* No row is reverted twice.
RecordedOnce ==
    \A r, q \in Ids : /\ ops[r].parent = ops[q].parent
                      /\ ops[r].status = "rollback-recorded"
                      /\ ops[q].status = "rollback-recorded"
                      => r = q

RowsLinked ==
    /\ \A i \in Ids : RowLinked(i) /\ RowRecorded(i) /\ RowReverted(i)
    /\ RecordedOnce

\* What a job may rely on in the ledger while it runs.
JobLinked(job, rows) ==
    /\ job.op # 0 =>
          /\ rows[job.op].package = job.package
          /\ rows[job.op].parent = job.original
    /\ job.pc \in OpenPcs => rows[job.op].status = "pending"
    /\ job.kind = "rollback" =>
          /\ rows[job.original].package = job.package
          /\ job.pc # "prepare" =>
                /\ rows[job.original].status # "pending"
                /\ rows[job.original].inverse # ""
                /\ rows[job.original].device = job.identity
          /\ job.pc \in {"complete", "finish"} => job.after = rows[job.original].before
          /\ job.pc = "finish" =>
                /\ rows[job.op].status = "applied"
                /\ rows[job.op].after = rows[job.original].before

JobsOwnRows ==
    \A j, k \in Live : jobs[j].op # 0 /\ jobs[j].op = jobs[k].op => j = k

Linked ==
    /\ RowsLinked
    /\ UnresolvedChain
    /\ \A j \in Live : JobLinked(jobs[j], ops)
    /\ JobsOwnRows

\* A job knows its television until somebody exchanges it.
Located(job) ==
    ~job.moved =>
        /\ job.identity = device
        /\ job.pc \in {"complete", "finish"} => job.source = device

JobsLocated == \A j \in Live : Located(jobs[j])

\* The rows, the jobs and the links between them keep all of this at every step,
\* whatever the interleaving, the faults and the number of handlers.
InductiveInvariant == Shaped /\ Linked /\ JobsLocated
-----------------------------------------------------------------------------
(* The ledger as evidence.  A pending row has no result yet and no newer   *)
(* row beside it: begin refuses one, and a rollback waits for the verdict. *)

PendingUnread == \A i \in Ids : IsPending(i) => ops[i].after = NoState

PendingIsNewest ==
    \A i, k \in Ids : IsPending(i) /\ ops[k].package = ops[i].package => k <= i

Evidence == PendingUnread /\ PendingIsNewest
-----------------------------------------------------------------------------
(* The ledger and the television, while only the Controller changes it and *)
(* ADB waits for its commands.                                             *)

OnlyTheController == Faults \cap {"late", "external", "cli"} = {}

\* A crash leaves the rows of its jobs pending for ever.
Orphan(i) == IsPending(i) /\ \A j \in Live : jobs[j].op # i

\* Only a crash leaves a command on its way, and its row stays pending.
LateBehindOrphans ==
    \A c \in late : \E i \in Ids : ops[i].package = c.package /\ Orphan(i)

VerifiedIsCurrent ==
    \A j \in Live : At(j, "complete") => tv[jobs[j].package] = jobs[j].after

LedgerLeadsTv == LateBehindOrphans /\ VerifiedIsCurrent /\ LedgerMatchesTv
-----------------------------------------------------------------------------
(* One request handler: what a rollback has prepared stays valid until it  *)
(* begins, but for the rows that begin in background threads.              *)

OneHandler == \A j, k \in Live : Serving(j) /\ Serving(k) => j = k

OnlyUpdatesDownload == \A j \in Live : At(j, "download") => jobs[j].kind = "update"

\* The rows that are newer than the original of a rollback.
Overtaking(j) ==
    {k \in Ids : /\ k > jobs[j].original
                 /\ ops[k].package = jobs[j].package
                 /\ IsActive(k)}

Overtaken ==
    \A j \in Live : jobs[j].kind = "rollback" /\ At(j, "begin") =>
        \A k \in Overtaking(j) : ops[k].action \in ThreadActions

HandlersTakeTurns == OneHandler /\ OnlyUpdatesDownload /\ Overtaken
-----------------------------------------------------------------------------
(* A service that neither dies nor fails to write: every row on its way to *)
(* a verdict has its job.  An applied rollback has one that is about to    *)
(* record it, unless another rollback settled the row before.              *)

NothingFails == Faults \cap {"crash", "storage"} = {}

RollbackRows ==
    \A i \in Ids : /\ ops[i].action = "rollback" <=> ops[i].parent # 0
                   /\ ops[i].inverse = "" => ops[i].action = "rollback"

PendingHasJob ==
    \A i \in Ids : IsPending(i) =>
        \E j \in Live : jobs[j].op = i /\ jobs[j].pc \in OpenPcs \cup {"fail"}

AppliedRollbackHasJob ==
    \A i \in Ids : ops[i].action = "rollback" /\ ops[i].status = "applied" =>
        \/ \E j \in Live : jobs[j].op = i /\ At(j, "finish")
        \/ ops[ops[i].parent].status \in {"reverted", "reconciled"}

VerdictsComing == RollbackRows /\ PendingHasJob /\ AppliedRollbackHasJob
=============================================================================
