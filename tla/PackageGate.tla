----------------------------- MODULE PackageGate -----------------------------
(***************************************************************************)
(* What the Controller promises about each package, without a ledger,      *)
(* threads or ADB: a gate that is open, held by one operation, or in doubt *)
(* after an operation whose result nobody verified, and an account of what *)
(* the last operation left.  The television changes only behind a held     *)
(* gate; the gate opens from held only with an account that matches the    *)
(* television, and from doubt it opens without a change.                   *)
(***************************************************************************)
CONSTANTS
    Packages,
    States,
    Unknown   \* the account after an operation nobody verified

VARIABLES
    gate,     \* [Packages -> {"open", "held", "doubt"}]
    account,  \* [Packages -> States \cup {Unknown}]
    tv        \* [Packages -> States]

vars == <<gate, account, tv>>

Init ==
    /\ gate = [p \in Packages |-> "open"]
    /\ account = [p \in Packages |-> Unknown]
    /\ tv \in [Packages -> States]

Move(p, from, to, told) ==
    /\ gate[p] \in from
    /\ gate' = [gate EXCEPT ![p] = to]
    /\ account' = [account EXCEPT ![p] = told]
    /\ UNCHANGED tv

\* An operation takes the gate; from doubt only the doubtful one's rollback does.
\* One that is interrupted holds it for ever.
Acquire(p) == Move(p, {"open", "doubt"}, "held", Unknown)

\* The operation's result is verified: the account is what the television has.
Release(p) == Move(p, {"held"}, "open", tv[p])

\* The operation failed, or it is the verified rollback of a doubtful one.
Suspect(p) == \E told \in {Unknown, tv[p]} : Move(p, {"held"}, "doubt", told)

\* The doubtful operation is reconciled or its rollback is recorded.
Settle(p) == Move(p, {"doubt"}, "open", account[p])

Change(p) ==
    /\ gate[p] = "held"
    /\ \E s \in States : tv' = [tv EXCEPT ![p] = s]
    /\ UNCHANGED <<gate, account>>

Next == \E p \in Packages :
            Acquire(p) \/ Release(p) \/ Suspect(p) \/ Settle(p) \/ Change(p)

Spec == Init /\ [][Next]_vars
=============================================================================
