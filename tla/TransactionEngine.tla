------------------------- MODULE TransactionEngine -------------------------
(***************************************************************************)
(* The transaction abstraction of the Controller, transactions.py: engines *)
(* that execute plans against a mutation adapter and roll them back, over  *)
(* an OperationJournal in SQLite.  Every journal method is one statement   *)
(* in one transaction, hence one step; every adapter call is one step.     *)
(*                                                                         *)
(* No adapter ships with the repository: `changed` is the television an    *)
(* adapter would stand for, the packages its `apply` has changed and its   *)
(* `revert` has not yet restored.                                          *)
(***************************************************************************)
EXTENDS Naturals, Sequences

CONSTANTS
    Plans,        \* plan identifiers
    NoPlan,
    Packages,
    Operations,   \* the operations of each plan's DryRunPlan, in order
    Engines       \* TransactionEngine objects over one database

\* build_dry_run refuses a package that appears twice (planner.py:107).
ASSUME OperationsAreDistinct ==
    /\ Operations \in [Plans -> Seq(Packages)]
    /\ \A p \in Plans : \A i, j \in DOMAIN Operations[p] :
          Operations[p][i] = Operations[p][j] => i = j

ASSUME NoPlanIsNoPlan == NoPlan \notin Plans

VARIABLES
    plans,     \* table plans: the identifiers begun, with status and retry_allowed
    rows,      \* table operations: the id of a row is its position
    engines,   \* what each engine is doing
    changed    \* external: the packages that are changed on the television

vars == <<plans, rows, engines, changed>>

Statuses == {"running", "failed", "complete"}

Steps == {"idle",                                        \* no call in progress
          "apply", "health", "record", "finish",          \* execute
          "undo", "record-failed", "finish-failed",       \* its failed health check
          "revert", "mark"}                               \* rollback

Row == [plan : Plans, package : Packages, status : {"applied", "failed"}, reverted : BOOLEAN]

\* The locals of a call: of execute its plan and the position in it, of rollback the
\* candidates left and the row in hand.
Engine == [pc : Steps, plan : Plans \union {NoPlan}, at : Nat, todo : SUBSET Nat, row : Nat]

Idle == [pc |-> "idle", plan |-> NoPlan, at |-> 0, todo |-> {}, row |-> 0]

Begun == DOMAIN plans

PlansTyped ==
    /\ Begun \subseteq Plans
    /\ \A p \in Begun : plans[p] \in [status : Statuses, retry : BOOLEAN]

TypeOK ==
    /\ PlansTyped
    /\ rows \in Seq(Row)
    /\ engines \in [Engines -> Engine]
    /\ changed \subseteq Packages

Init ==
    /\ plans = [p \in {} |-> [status |-> "running", retry |-> TRUE]]
    /\ rows = << >>
    /\ engines = [e \in Engines |-> Idle]
    /\ changed = {}

(***************************************************************************)
(* The journal.                                                            *)
(***************************************************************************)
\* Defect: INSERT OR REPLACE, which runs an identifier again.
MayBeginAgain(p) == \A q \in Begun : q = p => plans[q].status # "running"

\* The primary key of plans refuses a second begin.
MayBegin(p) == p \notin Begun

\* Defect: the vocabulary of the other table.
FinishedAsApplied(p, status) == [plans EXCEPT ![p] = [status |-> "applied", retry |-> FALSE]]

Finished(p, status) == [plans EXCEPT ![p] = [status |-> status, retry |-> FALSE]]

Record(p, package, status, reverted) ==
    Append(rows, [plan |-> p, package |-> package, status |-> status, reverted |-> reverted])

\* The ids of rollback_candidates.
Candidates == {i \in DOMAIN rows : rows[i].status = "applied" /\ ~rows[i].reverted}

(***************************************************************************)
(* TransactionEngine.execute.                                              *)
(***************************************************************************)
At(e, step) == engines[e].pc = step

Goto(e, step) == engines' = [engines EXCEPT ![e].pc = step]

\* A call returns, raises, or ends with its process.
Leave(e) == engines' = [engines EXCEPT ![e] = Idle]

Plan(e) == engines[e].plan

Current(e) == Operations[Plan(e)][engines[e].at]

\* Defect: the last operation is never reached.
LoopHeadShort(p, at) == IF at + 1 \in DOMAIN Operations[p] THEN "apply" ELSE "finish"

\* The for loop at its head: an operation is left, or the plan is complete.
LoopHead(p, at) == IF at \in DOMAIN Operations[p] THEN "apply" ELSE "finish"

Begin(e, p) ==
    /\ At(e, "idle")
    /\ MayBegin(p)
    /\ plans' = [q \in Begun \union {p} |->
                    IF q = p THEN [status |-> "running", retry |-> TRUE] ELSE plans[q]]
    /\ engines' = [engines EXCEPT ![e] =
                      [Idle EXCEPT !.pc = LoopHead(p, 1), !.plan = p, !.at = 1]]
    /\ UNCHANGED <<rows, changed>>

Apply(e) ==
    /\ At(e, "apply")
    /\ changed' = changed \union {Current(e)}
    /\ Goto(e, "health")
    /\ UNCHANGED <<plans, rows>>

\* HEALTH_CHECKS in turn: all four hold, or the first that does not ends the loop.
Health(e) ==
    /\ At(e, "health")
    /\ \E healthy \in BOOLEAN : Goto(e, IF healthy THEN "record" ELSE "undo")
    /\ UNCHANGED <<plans, rows, changed>>

RecordApplied(e) ==
    /\ At(e, "record")
    /\ rows' = Record(Plan(e), Current(e), "applied", FALSE)
    /\ engines' = [engines EXCEPT ![e].at = @ + 1,
                                  ![e].pc = LoopHead(Plan(e), engines[e].at + 1)]
    /\ UNCHANGED <<plans, changed>>

FinishComplete(e) ==
    /\ At(e, "finish")
    /\ plans' = Finished(Plan(e), "complete")
    /\ Leave(e)
    /\ UNCHANGED <<rows, changed>>

Undo(e) ==
    /\ At(e, "undo")
    /\ changed' = changed \ {Current(e)}
    /\ Goto(e, "record-failed")
    /\ UNCHANGED <<plans, rows>>

\* Defect: a failed operation is recorded and the loop goes on, to report completion.
RecordFailedAndContinue(e) ==
    /\ At(e, "record-failed")
    /\ rows' = Record(Plan(e), Current(e), "failed", TRUE)
    /\ engines' = [engines EXCEPT ![e].at = @ + 1,
                                  ![e].pc = LoopHead(Plan(e), engines[e].at + 1)]
    /\ UNCHANGED <<plans, changed>>

RecordFailed(e) ==
    /\ At(e, "record-failed")
    /\ rows' = Record(Plan(e), Current(e), "failed", TRUE)
    /\ Goto(e, "finish-failed")
    /\ UNCHANGED <<plans, changed>>

FinishFailed(e) ==
    /\ At(e, "finish-failed")
    /\ plans' = Finished(Plan(e), "failed")
    /\ Leave(e)
    /\ UNCHANGED <<rows, changed>>

(***************************************************************************)
(* TransactionEngine.rollback.                                             *)
(***************************************************************************)
\* rollback_candidates is read once, before the loop.
RollbackStart(e) ==
    /\ At(e, "idle")
    /\ Candidates # {}
    /\ engines' = [engines EXCEPT ![e].pc = "revert", ![e].todo = Candidates]
    /\ UNCHANGED <<plans, rows, changed>>

\* ORDER BY id DESC: the newest row first.
Revert(e) ==
    /\ At(e, "revert")
    /\ \E i \in engines[e].todo :
          /\ \A j \in engines[e].todo : j <= i
          /\ changed' = changed \ {rows[i].package}
          /\ engines' = [engines EXCEPT ![e].pc = "mark", ![e].row = i]
    /\ UNCHANGED <<plans, rows>>

\* Defect: the newest candidate is marked, which need not be the one in hand.
MarkNewest(e) ==
    /\ At(e, "mark")
    /\ \E i \in Candidates : /\ \A j \in Candidates : j <= i
                             /\ rows' = [rows EXCEPT ![i].reverted = TRUE]
    /\ LET left == engines[e].todo \ {engines[e].row}
       IN  engines' = [engines EXCEPT ![e] =
              IF left = {} THEN Idle ELSE [@ EXCEPT !.pc = "revert", !.todo = left]]
    /\ UNCHANGED <<plans, changed>>

\* Once more where reverted_at IS NULL: a row that is reverted keeps its time.
MarkReverted(e) ==
    /\ At(e, "mark")
    /\ rows' = [rows EXCEPT ![engines[e].row].reverted = TRUE]
    /\ LET left == engines[e].todo \ {engines[e].row}
       IN  engines' = [engines EXCEPT ![e] =
              IF left = {} THEN Idle ELSE [@ EXCEPT !.pc = "revert", !.todo = left]]
    /\ UNCHANGED <<plans, changed>>

\* An adapter call or a journal write raises, or the process ends.  Taken after a step it
\* is also the adapter call that raises although its effect came about.
Fail(e) ==
    /\ ~At(e, "idle")
    /\ Leave(e)
    /\ UNCHANGED <<plans, rows, changed>>

\* Nobody calls an engine.
Rest == (\A e \in Engines : At(e, "idle")) /\ UNCHANGED vars

Execute(e) ==
    \/ \E p \in Plans : Begin(e, p)
    \/ Apply(e) \/ Health(e) \/ RecordApplied(e) \/ FinishComplete(e)
    \/ Undo(e) \/ RecordFailed(e) \/ FinishFailed(e)

Rollback(e) == RollbackStart(e) \/ Revert(e) \/ MarkReverted(e)

Next ==
    \/ \E e \in Engines : Execute(e) \/ Rollback(e) \/ Fail(e)
    \/ Rest

Spec == Init /\ [][Next]_vars

(***************************************************************************)
(* Properties.                                                             *)
(***************************************************************************)
Applying == {e \in Engines : engines[e].pc \in {"health", "record", "undo"}}

\* What the journal says is changed, and what engines have in hand.
Recorded == {rows[i].package : i \in Candidates}

InHand == {Current(e) : e \in Applying}

HasRow(p, x) == \E i \in DOMAIN rows : rows[i].plan = p /\ rows[i].package = x

\* The plans that an exception or a crash has left running.
Abandoned == {p \in Begun : plans[p].status = "running" /\ \A e \in Engines : Plan(e) # p}

\* The first operation of a plan that has no row, if those before it have one.
NextOperation(p) ==
    {k \in DOMAIN Operations[p] :
        \A j \in DOMAIN Operations[p] : HasRow(p, Operations[p][j]) <=> j < k}

\* What an abandoned plan may have changed without a row.
Orphans == UNION {{Operations[p][k] : k \in NextOperation(p)} : p \in Abandoned}

\* What failures leave unrecorded is one operation for each plan they left running, the first
\* without a row; every other changed package has an applied row that is not reverted, or is
\* in hand, whatever plans and rollbacks ran side by side before.
UnrecordedIsLocated == changed \subseteq Recorded \union InHand \union Orphans

\* A plan identifier never runs twice ("automatic retry prohibited"): each of its
\* operations has at most one row, whatever raises or dies and however many engines try.
OperationsRunOnce ==
    \A i, j \in DOMAIN rows :
        rows[i].plan = rows[j].plan /\ rows[i].package = rows[j].package => i = j

HasStatus(p, x, status) ==
    \E i \in DOMAIN rows : /\ rows[i].plan = p
                           /\ rows[i].package = x
                           /\ rows[i].status = status

\* The rows of a plan are a prefix of its operations, in order, and only the last can have
\* failed: an operation runs only if every earlier one was healthy and recorded.
RowsArePrefix ==
    \A i \in DOMAIN rows : \E k \in DOMAIN Operations[rows[i].plan] :
        /\ rows[i].package = Operations[rows[i].plan][k]
        /\ \A m \in 1..(k - 1) : \E j \in 1..(i - 1) :
              /\ rows[j].plan = rows[i].plan
              /\ rows[j].package = Operations[rows[i].plan][m]
              /\ rows[j].status = "applied"

\* A plan reported complete has applied every one of its operations, and one reported
\* failed has a failed row, behind which none of its operations has run (RowsArePrefix).
ReportIsTrue ==
    \A p \in Begun :
        /\ plans[p].status = "complete" =>
              \A k \in DOMAIN Operations[p] : HasStatus(p, Operations[p][k], "applied")
        /\ plans[p].status = "failed" =>
              \E x \in Packages : HasStatus(p, x, "failed")
=============================================================================
