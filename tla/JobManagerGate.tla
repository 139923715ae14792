--------------------------- MODULE JobManagerGate ---------------------------
(***************************************************************************)
(* The refinement mapping from JobManager to PackageGate: the rows of a    *)
(* package say which position its gate is in, and the newest of them what  *)
(* the last operation left.                                                *)
(***************************************************************************)
EXTENDS JobManager

GatePosition(p) ==
    IF \E i \in Unresolved(p) : IsPending(i) THEN "held"
    ELSE IF Unresolved(p) # {} THEN "doubt"
    ELSE "open"

\* Row i is the newest of package p, and its result was verified.
Tells(i, p) ==
    /\ ops[i].package = p
    /\ \A k \in Ids : ops[k].package = p => k <= i
    /\ ops[i].status \in {"applied", "rollback-recorded"}

Account(p) ==
    IF \E i \in Ids : Tells(i, p) THEN ops[CHOOSE i \in Ids : Tells(i, p)].after
                                  ELSE NoState

Gate == INSTANCE PackageGate WITH
            States <- State,
            Unknown <- NoState,
            gate <- [p \in Packages |-> GatePosition(p)],
            account <- [p \in Packages |-> Account(p)]

\* While nobody else changes the television, the Controller implements the gate:
\* crashes and storage errors included, every change of a package happens behind
\* its pending row, only a verified result or a settled doubt opens the package
\* again, and what the ledger then tells of it is what the television has.
ImplementsGate == Gate!Spec
=============================================================================
