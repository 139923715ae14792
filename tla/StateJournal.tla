---------------------------- MODULE StateJournal ----------------------------
(***************************************************************************)
(* The durable ledger of package operations: class StateJournal in         *)
(* tv_controller/state_history.py, one row of table state_operations per   *)
(* operation.  A row's id is its position in the sequence ops, because the *)
(* table's key is AUTOINCREMENT and no row is ever deleted.                *)
(*                                                                         *)
(* Every action below is one SQLite transaction, hence atomic and durable. *)
(* The module declares no next-state relation of its own: the ledger moves *)
(* only when a caller does, and JobManager composes it with its callers.   *)
(***************************************************************************)
EXTENDS Naturals, Sequences, FiniteSets

CONSTANTS
    Packages,   \* package names the Controller is asked about
    Versions,   \* version codes of APKs, positive
    Devices,    \* device identities: model, platform, firmware, fingerprint
    NoState     \* the NULL of column after_json

ASSUME VersionsArePositive == Versions \subseteq Nat \ {0}

VARIABLE ops

-----------------------------------------------------------------------------
(* Types.                                                                  *)

\* A reference to an archived file: its version, or 0 for the empty string.
Apk == Versions \cup {0}

\* PackageState.  Version 0 stands for installed = False.
State == [version : Apk, enabled : BOOLEAN]
Absent == [version |-> 0, enabled |-> FALSE]
Installed(state) == state.version # 0

ASSUME NoStateIsNoState == NoState \notin State

Status == {"pending", "applied", "uncertain",
           "reconciled", "reverted", "rollback-recorded"}
InverseAction == {"", "uninstall", "install-apk", "restore-apk", "enable", "disable"}
Action == {"install", "update", "uninstall", "enable", "disable", "rollback",
           "profile-install", "profile-update", "profile-enable", "profile-disable"}

\* OperationRecord.  parent is 0 when parent_id is NULL.
Operation == [package : Packages, action : Action, status : Status,
              inverse : InverseAction, before : State, after : State \cup {NoState},
              device : Devices, beforeApk : Apk, afterApk : Apk, parent : Nat]

Ids == DOMAIN ops

JournalTypeOK == ops \in Seq(Operation)

-----------------------------------------------------------------------------
(* Queries.                                                                *)

IsPending(i) == ops[i].status = "pending"
IsUnresolved(i) == ops[i].status \in {"pending", "uncertain"}
IsActive(i) == ops[i].status \in {"pending", "applied", "uncertain"}

Unresolved(p) == {i \in Ids : ops[i].package = p /\ IsUnresolved(i)}

\* Defect: the guard looks for uncertain rows only.
MayBeginBesidePending(p, parent) ==
    \A i \in Unresolved(p) : IsPending(i) \/ i = parent

\* Defect: the guard looks for pending rows only.
MayBeginPastUncertain(p, parent) == \A i \in Unresolved(p) : ~IsPending(i)

\* The guard of begin: the newest unresolved row, if any, is the parent.
MayBegin(p, parent) ==
    \/ Unresolved(p) = {}
    \/ parent \in Unresolved(p) /\ \A i \in Unresolved(p) : i <= parent

\* Defect: the television is not identified.
AvailableAnywhere(i, device) ==
    /\ ops[i].status \in {"applied", "uncertain"}
    /\ ops[i].inverse # ""

\* Defect: a rollback can itself be rolled back.
AvailableRollback(i, device) ==
    /\ ops[i].status \in {"applied", "uncertain"}
    /\ ops[i].device = device

\* prepare_selective_rollback, the row itself: its first connection.
Available(i, device) ==
    /\ ops[i].status \in {"applied", "uncertain"}
    /\ ops[i].inverse # ""
    /\ ops[i].device = device

\* Defect: newer rows are not looked at.
NewerIgnored(i) == i \in Ids

\* prepare_selective_rollback, the newer rows: its second connection.
NoNewerActive(i) ==
    \A k \in Ids : k > i /\ ops[k].package = ops[i].package => ~IsActive(k)

\* What prepare_selective_rollback accepts when nothing commits between its reads.
Rollbackable(i, current, device) ==
    /\ Available(i, device)
    /\ NoNewerActive(i)
    /\ ops[i].status = "applied" => current = ops[i].after

-----------------------------------------------------------------------------
(* Transactions.  One that the code refuses leaves the table unchanged and *)
(* is a guard here: the caller's action says what the exception does to it.*)

JournalInit == ops = << >>

\* Defect: the row is written as if its command had already run.
BeginApplied(row) ==
    /\ MayBegin(row.package, row.parent)
    /\ ops' = Append(ops, [row EXCEPT !.status = "applied"])

\* Defect: the row starts as one whose result is unknown.
BeginUncertain(row) ==
    /\ MayBegin(row.package, row.parent)
    /\ ops' = Append(ops, [row EXCEPT !.status = "uncertain"])

Begin(row) ==
    /\ MayBegin(row.package, row.parent)
    /\ ops' = Append(ops, row)

Complete(i, after) ==
    /\ IsPending(i)
    /\ ops' = [ops EXCEPT ![i].status = "applied", ![i].after = after]

\* Defect: the update has no status condition.
FailAnyRow(i) == ops' = [ops EXCEPT ![i].status = "uncertain"]

\* Defect: a status the rest of the code does not know.
FailAsFailed(i) ==
    ops' = IF IsPending(i) THEN [ops EXCEPT ![i].status = "failed"] ELSE ops

\* Defect: the except branch only logs.
FailForgotten(i) == UNCHANGED ops

\* The only transition that reports nothing when the row is not pending.
Fail(i) ==
    ops' = IF IsPending(i) THEN [ops EXCEPT ![i].status = "uncertain"] ELSE ops

ReconcileNoChange(i) ==
    /\ ops[i].status = "uncertain"
    /\ ops' = [ops EXCEPT ![i].status = "reconciled"]

CanFinish(original, rollback) ==
    /\ ops[original].status \in {"applied", "uncertain"}
    /\ ops[rollback].status = "applied"

\* Both updates commit together or not at all.
FinishRollback(original, rollback) ==
    /\ CanFinish(original, rollback)
    /\ ops' = [ops EXCEPT ![original].status = "reverted",
                          ![rollback].status = "rollback-recorded"]
=============================================================================
