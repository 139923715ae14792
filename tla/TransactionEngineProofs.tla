---------------------- MODULE TransactionEngineProofs ----------------------
(***************************************************************************)
(* Theorems about TransactionEngine, for any number of engines, plans and  *)
(* packages, and whatever raises or dies.  Three inductive invariants:     *)
(* OnceInv, that a plan runs once, CoveredInv, that the journal says where *)
(* every change is, and ProgressInv, that what a plan reports is true.     *)
(***************************************************************************)
EXTENDS TransactionEngine, TLAPS

\* The steps at which an engine has a plan in hand, and those at which it has an operation.
Executing == {"apply", "health", "record", "finish", "undo", "record-failed", "finish-failed"}
InLoop == {"apply", "health", "record", "undo", "record-failed"}

\* What the position of an engine says about its locals.
Shape ==
    \A e \in Engines :
        /\ engines[e].pc \in Executing => engines[e].plan \in Begun
        /\ engines[e].pc \in InLoop => engines[e].at \in DOMAIN Operations[engines[e].plan]
        /\ engines[e].todo \subseteq DOMAIN rows
        /\ engines[e].pc = "mark" => engines[e].row \in DOMAIN rows

\* An identifier is begun before it has rows, and one engine begins it.
OneEngine ==
    /\ \A i \in DOMAIN rows : rows[i].plan \in Begun
    /\ \A e, f \in Engines :
          /\ engines[e].pc \in Executing
          /\ engines[f].pc \in Executing
          /\ engines[e].plan = engines[f].plan
          => e = f

\* The rows of an engine's plan are for operations it has left behind.
RowsBehind ==
    \A e \in Engines : engines[e].pc \in InLoop =>
        \A i \in DOMAIN rows : rows[i].plan = engines[e].plan =>
            \E k \in DOMAIN Operations[rows[i].plan] :
                k < engines[e].at /\ Operations[rows[i].plan][k] = rows[i].package

OnceInv == TypeOK /\ Shape /\ OneEngine /\ RowsBehind /\ OperationsRunOnce

\* The rows whose change is undone and that are not marked yet.
Marking == {engines[e].row : e \in {f \in Engines : engines[f].pc = "mark"}}

\* An engine has a plan exactly while it executes one, and the plan says so.
Running ==
    \A e \in Engines :
        /\ engines[e].pc \in Executing => plans[Plan(e)].status = "running"
        /\ engines[e].pc \notin Executing => Plan(e) = NoPlan

\* Every operation that an engine has left behind has a row.
BehindHasRow ==
    \A e \in Engines : engines[e].pc \in InLoop =>
        \A j \in DOMAIN Operations[Plan(e)] :
            j < engines[e].at => HasRow(Plan(e), Operations[Plan(e)][j])

\* Every changed package is in hand, or has a candidate row that nobody is about to mark, or
\* is the next operation of an abandoned plan.
Covered ==
    \A x \in changed :
        \/ \E i \in Candidates \ Marking : rows[i].package = x
        \/ \E e \in Applying : Current(e) = x
        \/ x \in Orphans

CoveredInv == Running /\ BehindHasRow /\ Covered

\* The operations an engine has left behind are applied, all of them at the end of the plan;
\* an engine about to report failure has recorded one.
Progress(e) ==
    /\ engines[e].pc \in InLoop => \A j \in DOMAIN Operations[Plan(e)] :
          j < engines[e].at => HasStatus(Plan(e), Operations[Plan(e)][j], "applied")
    /\ engines[e].pc = "finish" => \A j \in DOMAIN Operations[Plan(e)] :
          HasStatus(Plan(e), Operations[Plan(e)][j], "applied")
    /\ engines[e].pc = "finish-failed" =>
          \E x \in Packages : HasStatus(Plan(e), x, "failed")

ProgressInv == (\A e \in Engines : Progress(e)) /\ RowsArePrefix /\ ReportIsTrue

\* HasStatus after a step.
GetsStatus(p, x, status) ==
    \E i \in DOMAIN rows' : /\ rows'[i].plan = p
                            /\ rows'[i].package = x
                            /\ rows'[i].status = status

\* HasRow after a step.
GetsRow(p, x) == \E i \in DOMAIN rows' : rows'[i].plan = p /\ rows'[i].package = x

\* What a step of engine e keeps: the other engines and plans, what the rows are about; and
\* how the engine comes to a plan and to an operation.
Moved(e) ==
    /\ \A f \in Engines : f # e => engines'[f] = engines[f]
    /\ Begun \subseteq Begun'
    /\ \A p \in Begun : p # Plan(e) => plans'[p] = plans[p]
    /\ \A i \in DOMAIN rows : /\ i \in DOMAIN rows'
                              /\ rows'[i].plan = rows[i].plan
                              /\ rows'[i].package = rows[i].package
    /\ \A i \in DOMAIN rows' \ DOMAIN rows : rows'[i].plan = Plan(e)
    /\ engines'[e].pc \notin Executing => engines'[e].plan = NoPlan
    /\ engines'[e].pc \in Executing =>
          \/ /\ engines'[e].plan \notin Begun
             /\ plans'[engines'[e].plan].status = "running"
          \/ /\ engines[e].pc \in Executing
             /\ engines'[e].plan = Plan(e)
             /\ plans' = plans
    /\ engines'[e].pc \in InLoop =>
          \/ engines'[e].at = 1
          \/ /\ engines[e].pc \in InLoop
             /\ engines'[e].plan = Plan(e)
             /\ \/ engines'[e].at = engines[e].at
                \/ /\ engines'[e].at = engines[e].at + 1
                   /\ GetsRow(Plan(e), Current(e))

----------------------------------------------------------------------------
\* A loop head is a step of the loop with an operation, or the end of the plan.
LEMMA LoopHeadCases ==
    ASSUME NEW p, NEW at
    PROVE  \/ LoopHead(p, at) = "apply" /\ at \in DOMAIN Operations[p]
           \/ LoopHead(p, at) = "finish"
BY DEF LoopHead

\* Operations of a plan are packages.
LEMMA OperationIsPackage ==
    ASSUME NEW p \in Plans, NEW k \in DOMAIN Operations[p]
    PROVE  Operations[p][k] \in Packages /\ k \in Nat
<1>1. Operations[p] \in Seq(Packages)
  BY OperationsAreDistinct
<1> QED BY <1>1

LEMMA OnceInit == Init => OnceInv
BY DEF Init, Idle, OnceInv, TypeOK, PlansTyped, Shape, OneEngine, RowsBehind, OperationsRunOnce,
       Engine, Steps, Begun, Executing, InLoop, Statuses

\* One engine moves: its record stays typed.
LEMMA EngineTyped ==
    ASSUME engines \in [Engines -> Engine], NEW e \in Engines, NEW r \in Engine,
           engines' = [engines EXCEPT ![e] = r]
    PROVE  engines' \in [Engines -> Engine]
OBVIOUS

LEMMA GotoTyped ==
    ASSUME engines \in [Engines -> Engine], NEW e \in Engines, NEW step \in Steps, Goto(e, step)
    PROVE  engines' \in [Engines -> Engine]
<1>1. [engines[e] EXCEPT !.pc = step] \in Engine
  BY DEF Engine
<1> QED BY <1>1, EngineTyped DEF Goto

LEMMA LeaveTyped ==
    ASSUME engines \in [Engines -> Engine], NEW e \in Engines, Leave(e)
    PROVE  engines' \in [Engines -> Engine]
<1>1. Idle \in Engine
  BY DEF Idle, Engine, Steps
<1> QED BY <1>1, EngineTyped DEF Leave

\* A verdict keeps the table of plans typed.
LEMMA FinishedTyped ==
    ASSUME PlansTyped, NEW p, NEW status \in Statuses, plans' = Finished(p, status)
    PROVE  PlansTyped'
BY DEF PlansTyped, Begun, Finished

LEMMA RecordTyped ==
    ASSUME rows \in Seq(Row), NEW p \in Plans, NEW x \in Packages,
           NEW status \in {"applied", "failed"}, NEW reverted \in BOOLEAN,
           rows' = Record(p, x, status, reverted)
    PROVE  rows' \in Seq(Row)
BY DEF Record, Row

\* An engine in the loop has an operation.
LEMMA OperationInHand ==
    ASSUME TypeOK, Shape, NEW e \in Engines, engines[e].pc \in InLoop
    PROVE  Plan(e) \in Plans /\ Current(e) \in Packages
<1>1. engines[e].plan \in Plans /\ engines[e].at \in DOMAIN Operations[engines[e].plan]
  BY DEF TypeOK, PlansTyped, Shape, InLoop, Executing
<1> QED BY <1>1, OperationIsPackage DEF Plan, Current

\* Type correctness is preserved by every step, given the shapes.
LEMMA TypeNext == ASSUME TypeOK, Shape, [Next]_vars PROVE TypeOK'
<1>0. /\ PlansTyped
      /\ rows \in Seq(Row)
      /\ engines \in [Engines -> Engine]
      /\ changed \subseteq Packages
  BY DEF TypeOK
<1>1. ASSUME NEW e \in Engines, NEW p \in Plans, Begin(e, p) PROVE TypeOK'
  <2>1. LoopHead(p, 1) \in Steps
    BY DEF LoopHead, Steps
  <2>2. [Idle EXCEPT !.pc = LoopHead(p, 1), !.plan = p, !.at = 1] \in Engine
    BY <2>1 DEF Engine, Idle
  <2>3. engines' \in [Engines -> Engine]
    BY <1>0, <1>1, <2>2, EngineTyped DEF Begin
  <2>4. PlansTyped'
    BY <1>0, <1>1 DEF Begin, PlansTyped, Begun, Statuses
  <2> QED BY <1>0, <1>1, <2>3, <2>4 DEF Begin, TypeOK
<1>2. ASSUME NEW e \in Engines, Apply(e) PROVE TypeOK'
  <2>1. Current(e) \in Packages
    BY <1>2, OperationInHand DEF Apply, At, InLoop
  <2>2. engines' \in [Engines -> Engine]
    BY <1>0, <1>2, GotoTyped DEF Apply, Steps
  <2> QED BY <1>0, <1>2, <2>1, <2>2 DEF Apply, TypeOK, PlansTyped, Begun
<1>3. ASSUME NEW e \in Engines, Health(e) PROVE TypeOK'
  <2>1. engines' \in [Engines -> Engine]
    BY <1>0, <1>3, GotoTyped DEF Health, Steps
  <2> QED BY <1>0, <1>3, <2>1 DEF Health, TypeOK, PlansTyped, Begun
<1>4. ASSUME NEW e \in Engines, RecordApplied(e) PROVE TypeOK'
  <2>1. rows' \in Seq(Row)
    BY <1>0, <1>4, OperationInHand, RecordTyped DEF RecordApplied, At, InLoop
  <2>2. LoopHead(Plan(e), engines[e].at + 1) \in Steps
    BY DEF LoopHead, Steps
  <2>3. PICK step \in Steps, n \in Nat :
           engines' = [engines EXCEPT ![e].at = n, ![e].pc = step]
    <3>1. engines[e].at + 1 \in Nat
      BY <1>0 DEF Engine
    <3>2. engines' = [engines EXCEPT ![e].at = engines[e].at + 1,
                                     ![e].pc = LoopHead(Plan(e), engines[e].at + 1)]
      BY <1>4 DEF RecordApplied
    <3> QED BY <2>2, <3>1, <3>2
  <2>4. engines' \in [Engines -> Engine]
    <3>1. [engines[e] EXCEPT !.at = n, !.pc = step] \in Engine
      BY <1>0 DEF Engine
    <3> QED BY <1>0, <2>3, <3>1
  <2> QED BY <1>0, <1>4, <2>1, <2>4 DEF RecordApplied, TypeOK, PlansTyped, Begun
<1>5. ASSUME NEW e \in Engines, FinishComplete(e) PROVE TypeOK'
  BY <1>0, <1>5, LeaveTyped, FinishedTyped DEF FinishComplete, TypeOK, Statuses
<1>6. ASSUME NEW e \in Engines, Undo(e) PROVE TypeOK'
  <2>1. engines' \in [Engines -> Engine]
    BY <1>0, <1>6, GotoTyped DEF Undo, Steps
  <2> QED BY <1>0, <1>6, <2>1 DEF Undo, TypeOK, PlansTyped, Begun
<1>7. ASSUME NEW e \in Engines, RecordFailed(e) PROVE TypeOK'
  <2>1. rows' \in Seq(Row)
    BY <1>0, <1>7, OperationInHand, RecordTyped DEF RecordFailed, At, InLoop
  <2>2. engines' \in [Engines -> Engine]
    BY <1>0, <1>7, GotoTyped DEF RecordFailed, Steps
  <2> QED BY <1>0, <1>7, <2>1, <2>2 DEF RecordFailed, TypeOK, PlansTyped, Begun
<1>8. ASSUME NEW e \in Engines, FinishFailed(e) PROVE TypeOK'
  BY <1>0, <1>8, LeaveTyped, FinishedTyped DEF FinishFailed, TypeOK, Statuses
<1>9. ASSUME NEW e \in Engines, RollbackStart(e) PROVE TypeOK'
  <2>1. Candidates \in SUBSET Nat
    BY <1>0 DEF Candidates
  <2>2. [engines[e] EXCEPT !.pc = "revert", !.todo = Candidates] \in Engine
    BY <1>0, <2>1 DEF Engine, Steps
  <2>3. engines' \in [Engines -> Engine]
    BY <1>0, <1>9, <2>2 DEF RollbackStart
  <2> QED BY <1>0, <1>9, <2>3 DEF RollbackStart, TypeOK, PlansTyped, Begun
<1>10. ASSUME NEW e \in Engines, Revert(e) PROVE TypeOK'
  <2>1. PICK i \in engines[e].todo :
           /\ changed' = changed \ {rows[i].package}
           /\ engines' = [engines EXCEPT ![e].pc = "mark", ![e].row = i]
    BY <1>10 DEF Revert
  <2>2. i \in Nat
    BY <1>0, <2>1 DEF Engine
  <2>3. [engines[e] EXCEPT !.pc = "mark", !.row = i] \in Engine
    BY <1>0, <2>2 DEF Engine, Steps
  <2>4. engines' \in [Engines -> Engine]
    BY <1>0, <2>1, <2>3
  <2> QED BY <1>0, <1>10, <2>1, <2>4 DEF Revert, TypeOK, PlansTyped, Begun
<1>11. ASSUME NEW e \in Engines, MarkReverted(e) PROVE TypeOK'
  <2>1. rows' \in Seq(Row)
    <3>1. \A i \in DOMAIN rows : rows[i] \in Row
      BY <1>0
    <3>2. \A i \in DOMAIN rows : rows'[i] \in Row
      BY <1>0, <1>11, <3>1 DEF MarkReverted, Row
    <3>3. DOMAIN rows = 1..Len(rows) /\ Len(rows) \in Nat
      BY <1>0
    <3>4. rows' = [i \in DOMAIN rows |-> rows'[i]]
      BY <1>11 DEF MarkReverted
    <3>5. rows' \in [1..Len(rows) -> Row]
      BY <3>2, <3>3, <3>4
    <3> QED BY <3>3, <3>5
  <2> DEFINE left == engines[e].todo \ {engines[e].row}
  <2>2. Idle \in Engine /\ [engines[e] EXCEPT !.pc = "revert", !.todo = left] \in Engine
    BY <1>0 DEF Idle, Engine, Steps
  <2>3. engines' \in [Engines -> Engine]
    BY <1>0, <1>11, <2>2 DEF MarkReverted
  <2> QED BY <1>0, <1>11, <2>1, <2>3 DEF MarkReverted, TypeOK, PlansTyped, Begun
<1>12. ASSUME NEW e \in Engines, Fail(e) PROVE TypeOK'
  BY <1>0, <1>12, LeaveTyped DEF Fail, TypeOK, PlansTyped, Begun
<1>13. CASE UNCHANGED vars
  BY <1>13 DEF vars, TypeOK, PlansTyped, Begun
<1> QED
  BY <1>1, <1>2, <1>3, <1>4, <1>5, <1>6, <1>7, <1>8, <1>9, <1>10, <1>11, <1>12, <1>13
     DEF Next, Execute, Rollback, Rest

----------------------------------------------------------------------------
Once == Shape /\ OneEngine /\ RowsBehind /\ OperationsRunOnce

\* Most steps move one engine, keep the table of plans' identifiers, and keep what the rows
\* are about; the engine keeps its plan and its operation while it executes.
LEMMA MoveOnce ==
    ASSUME OnceInv, NEW e \in Engines, NEW r,
           engines' = [engines EXCEPT ![e] = r],
           Begun' = Begun,
           DOMAIN rows' = DOMAIN rows,
           \A i \in DOMAIN rows : /\ rows'[i].plan = rows[i].plan
                                  /\ rows'[i].package = rows[i].package,
           r.pc \in Executing => engines[e].pc \in Executing /\ r.plan = engines[e].plan,
           r.pc \in InLoop => engines[e].pc \in InLoop /\ r.at = engines[e].at,
           r.todo \subseteq DOMAIN rows,
           r.pc = "mark" => r.row \in DOMAIN rows
    PROVE  Once'
<1>1. /\ engines' \in [Engines -> {r} \union Engine]
      /\ \A f \in Engines : engines'[f] = IF f = e THEN r ELSE engines[f]
  BY DEF OnceInv, TypeOK
<1>2. r.pc \in InLoop => r.plan = engines[e].plan
  BY DEF InLoop, Executing
<1>3. Shape'
  BY <1>1, <1>2 DEF OnceInv, Shape
<1>4. OneEngine'
  BY <1>1 DEF OnceInv, OneEngine
<1>5. RowsBehind'
  BY <1>1, <1>2 DEF OnceInv, RowsBehind
<1>6. OperationsRunOnce'
  BY DEF OnceInv, OperationsRunOnce
<1> QED BY <1>3, <1>4, <1>5, <1>6 DEF Once

LEMMA BeginOnce ==
    ASSUME OnceInv, NEW e \in Engines, NEW p \in Plans, Begin(e, p)
    PROVE  Once'
<1> DEFINE r == [Idle EXCEPT !.pc = LoopHead(p, 1), !.plan = p, !.at = 1]
<1>1. /\ engines' = [engines EXCEPT ![e] = r]
      /\ rows' = rows
      /\ p \notin Begun
      /\ Begun' = Begun \union {p}
  BY DEF Begin, MayBegin, Begun
<1>2. \A f \in Engines : engines'[f] = IF f = e THEN r ELSE engines[f]
  BY <1>1 DEF OnceInv, TypeOK
<1>3. /\ r.plan = p /\ r.at = 1 /\ r.todo = {} /\ r.pc \in {"apply", "finish"}
      /\ r.pc = "apply" => 1 \in DOMAIN Operations[p]
  BY LoopHeadCases DEF Idle
<1> HIDE DEF r
<1>4. Shape'
  <2> SUFFICES ASSUME NEW f \in Engines
               PROVE  /\ engines'[f].pc \in Executing => engines'[f].plan \in Begun'
                      /\ engines'[f].pc \in InLoop =>
                            engines'[f].at \in DOMAIN Operations[engines'[f].plan]
                      /\ engines'[f].todo \subseteq DOMAIN rows
                      /\ engines'[f].pc = "mark" => engines'[f].row \in DOMAIN rows
    BY <1>1 DEF Shape
  <2>1. CASE f = e
    BY <1>1, <1>2, <1>3, <2>1 DEF InLoop
  <2>2. CASE f # e
    BY <1>1, <1>2, <2>2 DEF OnceInv, Shape
  <2> QED BY <2>1, <2>2
<1>5. OneEngine'
  <2>1. \A f \in Engines : f # e /\ engines[f].pc \in Executing => engines[f].plan # p
    BY <1>1 DEF OnceInv, Shape
  <2> QED BY <1>1, <1>2, <1>3, <2>1 DEF OnceInv, OneEngine
<1>6. RowsBehind'
  <2>1. \A i \in DOMAIN rows : rows[i].plan # p
    BY <1>1 DEF OnceInv, OneEngine
  <2> QED BY <1>1, <1>2, <1>3, <2>1 DEF OnceInv, RowsBehind
<1>7. OperationsRunOnce'
  BY <1>1 DEF OnceInv, OperationsRunOnce
<1> QED BY <1>4, <1>5, <1>6, <1>7 DEF Once

\* A row for the operation in hand is the first one of it, and the engine then leaves the
\* operation behind or the loop.
LEMMA RecordOnce ==
    ASSUME OnceInv, NEW e \in Engines, NEW r, NEW x,
           engines[e].pc \in InLoop,
           rows' = Append(rows, x),
           x.plan = engines[e].plan,
           x.package = Operations[engines[e].plan][engines[e].at],
           Begun' = Begun,
           engines' = [engines EXCEPT ![e] = r],
           r.plan = engines[e].plan,
           \/ r.pc \notin InLoop
           \/ r.at = engines[e].at + 1 /\ r.at \in DOMAIN Operations[r.plan],
           r.todo = engines[e].todo,
           r.pc # "mark"
    PROVE  Once'
<1> DEFINE n == Len(rows) + 1
           p == engines[e].plan
           k == engines[e].at
<1>1. rows \in Seq(Row) /\ engines \in [Engines -> Engine]
  BY DEF OnceInv, TypeOK
<1>2. p \in Begun /\ p \in Plans /\ k \in DOMAIN Operations[p] /\ k \in Nat
  BY OperationIsPackage DEF OnceInv, TypeOK, PlansTyped, Shape, InLoop, Executing
<1>3. /\ DOMAIN rows' = DOMAIN rows \union {n}
      /\ n \notin DOMAIN rows
      /\ \A i \in DOMAIN rows : rows'[i] = rows[i]
      /\ rows'[n].plan = p
      /\ rows'[n].package = Operations[p][k]
  BY <1>1
<1>4. \A f \in Engines : engines'[f] = IF f = e THEN r ELSE engines[f]
  BY <1>1
<1>5. \A f \in Engines : f # e /\ engines[f].pc \in Executing => engines[f].plan # p
  BY DEF OnceInv, OneEngine, InLoop, Executing
<1>6. \A i \in DOMAIN rows : rows[i].plan = p =>
          \E m \in DOMAIN Operations[p] : m < k /\ Operations[p][m] = rows[i].package
  BY DEF OnceInv, RowsBehind
<1> HIDE DEF n, p, k
<1>7. Shape'
  <2> SUFFICES ASSUME NEW f \in Engines
               PROVE  /\ engines'[f].pc \in Executing => engines'[f].plan \in Begun'
                      /\ engines'[f].pc \in InLoop =>
                            engines'[f].at \in DOMAIN Operations[engines'[f].plan]
                      /\ engines'[f].todo \subseteq DOMAIN rows'
                      /\ engines'[f].pc = "mark" => engines'[f].row \in DOMAIN rows'
    BY DEF Shape
  <2>1. CASE f = e
    BY <1>2, <1>3, <1>4, <2>1 DEF OnceInv, Shape, p
  <2>2. CASE f # e
    BY <1>3, <1>4, <2>2 DEF OnceInv, Shape
  <2> QED BY <2>1, <2>2
<1>8. OneEngine'
  <2>1. \A i \in DOMAIN rows' : rows'[i].plan \in Begun'
    BY <1>2, <1>3 DEF OnceInv, OneEngine
  <2>2. engines[e].pc \in Executing
    BY DEF InLoop, Executing
  <2> QED BY <1>4, <2>1, <2>2 DEF OnceInv, OneEngine
<1>9. RowsBehind'
  <2> SUFFICES ASSUME NEW f \in Engines, engines'[f].pc \in InLoop,
                      NEW i \in DOMAIN rows', rows'[i].plan = engines'[f].plan
               PROVE  \E m \in DOMAIN Operations[rows'[i].plan] :
                          /\ m < engines'[f].at
                          /\ Operations[rows'[i].plan][m] = rows'[i].package
    BY DEF RowsBehind
  <2>1. CASE f # e
    <3>1. engines[f].plan # p /\ engines'[f] = engines[f]
      BY <1>4, <1>5, <2>1 DEF InLoop, Executing
    <3>2. i \in DOMAIN rows /\ rows'[i] = rows[i]
      BY <1>3, <3>1
    <3> QED BY <3>1, <3>2 DEF OnceInv, RowsBehind
  <2>2. CASE f = e /\ i = n
    BY <1>2, <1>3, <1>4, <2>2 DEF k
  <2>3. CASE f = e /\ i \in DOMAIN rows
    <3>1. rows'[i] = rows[i] /\ rows[i].plan = p /\ engines'[f].at = k + 1
      BY <1>3, <1>4, <2>3 DEF p, k
    <3>2. PICK m \in DOMAIN Operations[p] : m < k /\ Operations[p][m] = rows[i].package
      BY <1>6, <2>3, <3>1
    <3>3. m \in Nat
      BY <1>2, OperationIsPackage
    <3>4. m < k + 1
      BY <1>2, <3>2, <3>3
    <3> QED BY <3>1, <3>2, <3>4
  <2> QED BY <1>3, <2>1, <2>2, <2>3
<1>10. OperationsRunOnce'
  <2>1. \A i \in DOMAIN rows : rows[i].plan = p => rows[i].package # Operations[p][k]
    <3> SUFFICES ASSUME NEW i \in DOMAIN rows, rows[i].plan = p,
                        rows[i].package = Operations[p][k]
                 PROVE  FALSE
      OBVIOUS
    <3>1. PICK m \in DOMAIN Operations[p] : m < k /\ Operations[p][m] = rows[i].package
      BY <1>6
    <3>2. m = k
      BY <1>2, <3>1, OperationsAreDistinct
    <3> QED BY <1>2, <3>1, <3>2
  <2> QED BY <1>3, <2>1 DEF OnceInv, OperationsRunOnce
<1> QED BY <1>7, <1>8, <1>9, <1>10 DEF Once

LEMMA GotoOnce ==
    ASSUME OnceInv, NEW e \in Engines, NEW step, Goto(e, step), rows' = rows, Begun' = Begun,
           step \in Executing => engines[e].pc \in Executing,
           step \in InLoop => engines[e].pc \in InLoop,
           step # "mark"
    PROVE  Once'
<1> DEFINE r == [engines[e] EXCEPT !.pc = step]
<1>1. engines[e] \in Engine
  BY DEF OnceInv, TypeOK
<1>2. /\ r.pc = step /\ r.plan = engines[e].plan /\ r.at = engines[e].at
      /\ r.todo = engines[e].todo
  BY <1>1 DEF Engine
<1>3. engines' = [engines EXCEPT ![e] = r]
  BY DEF Goto
<1>4. r.todo \subseteq DOMAIN rows
  BY <1>2 DEF OnceInv, Shape
<1> HIDE DEF r
<1> QED BY <1>2, <1>3, <1>4, MoveOnce

LEMMA LeaveOnce ==
    ASSUME OnceInv, NEW e \in Engines, Leave(e), rows' = rows, Begun' = Begun
    PROVE  Once'
<1>1. /\ Idle.pc \notin Executing /\ Idle.pc \notin InLoop /\ Idle.pc # "mark"
      /\ Idle.todo = {}
  BY DEF Idle, Executing, InLoop
<1>2. engines' = [engines EXCEPT ![e] = Idle]
  BY DEF Leave
<1> QED BY <1>1, <1>2, MoveOnce

LEMMA OnceNext == ASSUME OnceInv, [Next]_vars PROVE Once'
<1>0. /\ TypeOK /\ Shape /\ PlansTyped
      /\ rows \in Seq(Row)
      /\ engines \in [Engines -> Engine]
  BY DEF OnceInv, TypeOK
<1>1. ASSUME NEW e \in Engines, NEW p \in Plans, Begin(e, p) PROVE Once'
  BY <1>1, BeginOnce
<1>2. ASSUME NEW e \in Engines, Apply(e) PROVE Once'
  <2>1. Goto(e, "health") /\ rows' = rows /\ Begun' = Begun /\ engines[e].pc = "apply"
    BY <1>2 DEF Apply, At, Begun
  <2> QED BY <2>1, GotoOnce DEF Executing, InLoop
<1>3. ASSUME NEW e \in Engines, Health(e) PROVE Once'
  <2>1. PICK step \in {"record", "undo"} : Goto(e, step)
    BY <1>3 DEF Health
  <2>2. rows' = rows /\ Begun' = Begun /\ engines[e].pc = "health"
    BY <1>3 DEF Health, At, Begun
  <2> QED BY <2>1, <2>2, GotoOnce DEF Executing, InLoop
<1>4. ASSUME NEW e \in Engines, RecordApplied(e) PROVE Once'
  <2>1. PICK step, n : /\ step = LoopHead(Plan(e), n) /\ n = engines[e].at + 1
                       /\ engines' = [engines EXCEPT ![e].at = n, ![e].pc = step]
    BY <1>4 DEF RecordApplied
  <2> DEFINE r == [engines[e] EXCEPT !.at = n, !.pc = step]
             x == [plan |-> Plan(e), package |-> Current(e), status |-> "applied",
                   reverted |-> FALSE]
  <2>2. /\ r.pc = step /\ r.plan = engines[e].plan /\ r.at = n
        /\ r.todo = engines[e].todo
    BY <1>0 DEF Engine
  <2>3. engines' = [engines EXCEPT ![e] = r]
    BY <2>1
  <2>4. \/ step = "finish"
        \/ step = "apply" /\ n \in DOMAIN Operations[engines[e].plan]
    BY <2>1 DEF LoopHead, Plan
  <2>5. engines[e].pc \in InLoop /\ Begun' = Begun /\ rows' = Append(rows, x)
    BY <1>4 DEF RecordApplied, Record, At, Begun, InLoop
  <2>6. /\ x.plan = engines[e].plan
        /\ x.package = Operations[engines[e].plan][engines[e].at]
    BY DEF Plan, Current
  <2>7. \/ r.pc \notin InLoop
        \/ r.at = engines[e].at + 1 /\ r.at \in DOMAIN Operations[r.plan]
    BY <2>1, <2>2, <2>4 DEF InLoop
  <2>8. r.pc # "mark"
    BY <2>2, <2>4
  <2> HIDE DEF r, x
  <2> QED BY <2>2, <2>3, <2>5, <2>6, <2>7, <2>8, RecordOnce
<1>5. ASSUME NEW e \in Engines, FinishComplete(e) PROVE Once'
  BY <1>5, LeaveOnce DEF FinishComplete, Finished, Begun
<1>6. ASSUME NEW e \in Engines, Undo(e) PROVE Once'
  <2>1. Goto(e, "record-failed") /\ rows' = rows /\ Begun' = Begun /\ engines[e].pc = "undo"
    BY <1>6 DEF Undo, At, Begun
  <2> QED BY <2>1, GotoOnce DEF Executing, InLoop
<1>7. ASSUME NEW e \in Engines, RecordFailed(e) PROVE Once'
  <2> DEFINE r == [engines[e] EXCEPT !.pc = "finish-failed"]
             x == [plan |-> Plan(e), package |-> Current(e), status |-> "failed",
                   reverted |-> TRUE]
  <2>1. r.pc = "finish-failed" /\ r.plan = engines[e].plan /\ r.todo = engines[e].todo
    BY <1>0 DEF Engine
  <2>2. engines' = [engines EXCEPT ![e] = r]
    BY <1>7 DEF RecordFailed, Goto
  <2>3. engines[e].pc \in InLoop /\ Begun' = Begun /\ rows' = Append(rows, x)
    BY <1>7 DEF RecordFailed, Record, At, Begun, InLoop
  <2>4. /\ x.plan = engines[e].plan
        /\ x.package = Operations[engines[e].plan][engines[e].at]
    BY DEF Plan, Current
  <2>5. r.pc \notin InLoop /\ r.pc # "mark"
    BY <2>1 DEF InLoop
  <2> HIDE DEF r, x
  <2> QED BY <2>1, <2>2, <2>3, <2>4, <2>5, RecordOnce
<1>8. ASSUME NEW e \in Engines, FinishFailed(e) PROVE Once'
  BY <1>8, LeaveOnce DEF FinishFailed, Finished, Begun
<1>9. ASSUME NEW e \in Engines, RollbackStart(e) PROVE Once'
  <2> DEFINE r == [engines[e] EXCEPT !.pc = "revert", !.todo = Candidates]
  <2>1. r.pc = "revert" /\ r.todo \subseteq DOMAIN rows
    BY <1>0 DEF Engine, Candidates
  <2>2. engines' = [engines EXCEPT ![e] = r] /\ rows' = rows /\ Begun' = Begun
    BY <1>9 DEF RollbackStart, Begun
  <2> HIDE DEF r
  <2> QED BY <2>1, <2>2, MoveOnce DEF Executing, InLoop
<1>10. ASSUME NEW e \in Engines, Revert(e) PROVE Once'
  <2>1. PICK i \in engines[e].todo : engines' = [engines EXCEPT ![e].pc = "mark", ![e].row = i]
    BY <1>10 DEF Revert
  <2> DEFINE r == [engines[e] EXCEPT !.pc = "mark", !.row = i]
  <2>2. r.pc = "mark" /\ r.todo = engines[e].todo /\ r.row = i
    BY <1>0 DEF Engine
  <2>3. engines' = [engines EXCEPT ![e] = r] /\ rows' = rows /\ Begun' = Begun
    BY <1>10, <2>1 DEF Revert, Begun
  <2>4. engines[e].todo \subseteq DOMAIN rows
    BY <1>0 DEF Shape
  <2> HIDE DEF r
  <2> QED BY <2>1, <2>2, <2>3, <2>4, MoveOnce DEF Executing, InLoop
<1>11. ASSUME NEW e \in Engines, MarkReverted(e) PROVE Once'
  <2> DEFINE left == engines[e].todo \ {engines[e].row}
             r == IF left = {} THEN Idle ELSE [engines[e] EXCEPT !.pc = "revert", !.todo = left]
  <2>1. /\ r.pc \in {"idle", "revert"}
        /\ r.todo \subseteq engines[e].todo
    BY <1>0 DEF Engine, Idle
  <2>2. engines' = [engines EXCEPT ![e] = r] /\ Begun' = Begun
    BY <1>11 DEF MarkReverted, Begun
  <2>3. /\ DOMAIN rows' = DOMAIN rows
        /\ \A i \in DOMAIN rows : /\ rows'[i].plan = rows[i].plan
                                  /\ rows'[i].package = rows[i].package
    BY <1>0, <1>11 DEF MarkReverted, Row
  <2>4. engines[e].todo \subseteq DOMAIN rows
    BY <1>0 DEF Shape
  <2> HIDE DEF r
  <2> QED BY <2>1, <2>2, <2>3, <2>4, MoveOnce DEF Executing, InLoop
<1>12. ASSUME NEW e \in Engines, Fail(e) PROVE Once'
  BY <1>12, LeaveOnce DEF Fail, Begun
<1>13. CASE UNCHANGED vars
  BY <1>13 DEF vars, OnceInv, Once, Shape, OneEngine, RowsBehind, OperationsRunOnce, Begun
<1> QED
  BY <1>1, <1>2, <1>3, <1>4, <1>5, <1>6, <1>7, <1>8, <1>9, <1>10, <1>11, <1>12, <1>13
     DEF Next, Execute, Rollback, Rest

THEOREM AlwaysOnce == Spec => []OnceInv
<1>1. OnceInv /\ [Next]_vars => OnceInv'
  BY TypeNext, OnceNext DEF OnceInv, Once
<1> QED BY OnceInit, <1>1, PTL DEF Spec

\* The tables and the engines' locals stay typed.
THEOREM EngineTypeCorrect == Spec => []TypeOK
BY AlwaysOnce, PTL DEF OnceInv

\* A plan identifier runs at most once: no operation of a plan has two rows, whatever call
\* raises, whichever process dies, and however many engines share the database.
THEOREM NoAutomaticRetry == Spec => []OperationsRunOnce
BY AlwaysOnce, PTL DEF OnceInv

----------------------------------------------------------------------------
\* Every step of an engine is a move in this sense.
LEMMA EngineMoves ==
    ASSUME OnceInv, Running, NEW e \in Engines, Execute(e) \/ Rollback(e) \/ Fail(e)
    PROVE  Moved(e)
<1>0. /\ rows \in Seq(Row)
      /\ engines \in [Engines -> Engine]
      /\ engines[e].pc \notin Executing => Plan(e) = NoPlan
      /\ Plan(e) = engines[e].plan
  BY DEF OnceInv, TypeOK, Running, Plan
<1>1. ASSUME NEW p \in Plans, Begin(e, p) PROVE Moved(e)
  <2>1. /\ engines'[e].pc \in {"apply", "finish"} /\ engines'[e].plan = p /\ engines'[e].at = 1
        /\ \A f \in Engines : f # e => engines'[f] = engines[f]
    BY <1>0, <1>1, LoopHeadCases DEF Begin, Idle
  <2>2. /\ p \notin Begun /\ Begun' = Begun \union {p}
        /\ plans'[p].status = "running"
        /\ \A q \in Begun : plans'[q] = plans[q]
        /\ rows' = rows
    BY <1>1 DEF Begin, MayBegin, Begun
  <2> QED BY <2>1, <2>2 DEF Moved, Executing
<1>2. ASSUME Apply(e) \/ Health(e) \/ Undo(e) PROVE Moved(e)
  <2>1. PICK step \in {"health", "record", "undo", "record-failed"} : Goto(e, step)
    BY <1>2 DEF Apply, Health, Undo
  <2>2. /\ engines'[e].pc = step /\ engines'[e].plan = Plan(e)
        /\ engines'[e].at = engines[e].at
        /\ \A f \in Engines : f # e => engines'[f] = engines[f]
    BY <1>0, <2>1 DEF Goto, Engine
  <2>3. engines[e].pc \in {"apply", "health", "undo"} /\ rows' = rows /\ plans' = plans
    BY <1>2 DEF Apply, Health, Undo, At
  <2> QED BY <2>2, <2>3 DEF Moved, Executing, InLoop, Begun
<1>3. ASSUME RecordApplied(e) PROVE Moved(e)
  <2> DEFINE n == Len(rows) + 1
  <2>1. /\ engines[e].pc = "record" /\ engines'[e].pc \in {"apply", "finish"}
        /\ engines'[e].plan = Plan(e) /\ engines'[e].at = engines[e].at + 1
        /\ \A f \in Engines : f # e => engines'[f] = engines[f]
        /\ plans' = plans
    BY <1>0, <1>3, LoopHeadCases DEF RecordApplied, At, Engine
  <2>2. /\ DOMAIN rows' = DOMAIN rows \union {n} /\ n \notin DOMAIN rows
        /\ \A i \in DOMAIN rows : rows'[i] = rows[i]
        /\ rows'[n].package = Current(e) /\ rows'[n].plan = Plan(e)
    BY <1>0, <1>3 DEF RecordApplied, Record
  <2> HIDE DEF n
  <2> QED BY <2>1, <2>2 DEF Moved, GetsRow, Executing, InLoop, Begun
<1>4. ASSUME RecordFailed(e) PROVE Moved(e)
  <2> DEFINE n == Len(rows) + 1
  <2>1. /\ engines[e].pc = "record-failed" /\ engines'[e].pc = "finish-failed"
        /\ engines'[e].plan = Plan(e)
        /\ \A f \in Engines : f # e => engines'[f] = engines[f]
        /\ plans' = plans
    BY <1>0, <1>4 DEF RecordFailed, At, Goto, Engine
  <2>2. /\ DOMAIN rows' = DOMAIN rows \union {n} /\ n \notin DOMAIN rows
        /\ \A i \in DOMAIN rows : rows'[i] = rows[i]
        /\ rows'[n].plan = Plan(e)
    BY <1>0, <1>4 DEF RecordFailed, Record
  <2> HIDE DEF n
  <2> QED BY <2>1, <2>2 DEF Moved, Executing, InLoop, Begun
<1>5. ASSUME FinishComplete(e) \/ FinishFailed(e) \/ Fail(e) PROVE Moved(e)
  <2>1. /\ engines'[e] = Idle /\ rows' = rows
        /\ \A f \in Engines : f # e => engines'[f] = engines[f]
    BY <1>0, <1>5 DEF FinishComplete, FinishFailed, Fail, Leave
  <2>2. Begun' = Begun /\ \A p \in Begun : p # Plan(e) => plans'[p] = plans[p]
    BY <1>5 DEF FinishComplete, FinishFailed, Fail, Finished, Begun
  <2> QED BY <2>1, <2>2 DEF Moved, Idle, Executing, InLoop
<1>6. ASSUME RollbackStart(e) \/ Revert(e) PROVE Moved(e)
  <2>1. /\ engines'[e].pc \in {"revert", "mark"} /\ engines'[e].plan = Plan(e)
        /\ \A f \in Engines : f # e => engines'[f] = engines[f]
    BY <1>0, <1>6 DEF RollbackStart, Revert, Engine
  <2>2. engines[e].pc \in {"idle", "revert"} /\ rows' = rows /\ plans' = plans
    BY <1>6 DEF RollbackStart, Revert, At
  <2> QED BY <1>0, <2>1, <2>2 DEF Moved, Executing, InLoop, Begun
<1>7. ASSUME MarkReverted(e) PROVE Moved(e)
  <2>1. /\ engines'[e].pc \in {"idle", "revert"} /\ engines[e].pc = "mark"
        /\ engines'[e].plan \in {NoPlan, Plan(e)}
        /\ \A f \in Engines : f # e => engines'[f] = engines[f]
        /\ plans' = plans
    BY <1>0, <1>7 DEF MarkReverted, At, Idle, Engine
  <2>2. /\ DOMAIN rows' = DOMAIN rows
        /\ \A i \in DOMAIN rows : /\ rows'[i].plan = rows[i].plan
                                  /\ rows'[i].package = rows[i].package
    BY <1>0, <1>7 DEF MarkReverted, Row
  <2> QED BY <1>0, <2>1, <2>2 DEF Moved, Executing, InLoop, Begun
<1> QED BY <1>1, <1>2, <1>3, <1>4, <1>5, <1>6, <1>7 DEF Execute, Rollback

LEMMA RunningNext == ASSUME OnceInv, Running, NEW e \in Engines, Moved(e) PROVE Running'
<1> SUFFICES ASSUME NEW f \in Engines
             PROVE  /\ engines'[f].pc \in Executing => plans'[engines'[f].plan].status = "running"
                    /\ engines'[f].pc \notin Executing => engines'[f].plan = NoPlan
  BY DEF Running, Plan
<1>1. CASE f = e
  BY <1>1 DEF Moved, Running
<1>2. CASE f # e /\ engines[f].pc \in Executing
  <2>1. Plan(f) \in Begun /\ engines'[f] = engines[f]
    BY <1>2 DEF OnceInv, Shape, Moved, Plan
  <2>2. CASE Plan(f) = Plan(e)
    <3>1. engines[e].pc \notin Executing
      BY <1>2, <2>2 DEF OnceInv, OneEngine, Plan
    <3>2. Plan(e) = NoPlan
      BY <3>1 DEF Running
    <3> QED BY <2>1, <2>2, <3>2, NoPlanIsNoPlan DEF OnceInv, TypeOK, PlansTyped
  <2>3. CASE Plan(f) # Plan(e)
    BY <1>2, <2>1, <2>3 DEF Moved, Running, Plan
  <2> QED BY <2>2, <2>3
<1>3. CASE f # e /\ engines[f].pc \notin Executing
  BY <1>3 DEF Moved, Running, Plan
<1> QED BY <1>1, <1>2, <1>3

\* Rows stay.
LEMMA HasRowStays ==
    ASSUME NEW e \in Engines, Moved(e), NEW p, NEW x
    PROVE  /\ HasRow(p, x) => GetsRow(p, x)
           /\ p # Plan(e) => (GetsRow(p, x) <=> HasRow(p, x))
BY DEF Moved, HasRow, GetsRow

LEMMA BehindNext ==
    ASSUME OnceInv, OnceInv', BehindHasRow, NEW e \in Engines, Moved(e)
    PROVE  BehindHasRow'
<1> SUFFICES ASSUME NEW f \in Engines, engines'[f].pc \in InLoop,
                    NEW j \in DOMAIN Operations[engines'[f].plan], j < engines'[f].at
             PROVE  GetsRow(engines'[f].plan, Operations[engines'[f].plan][j])
  BY DEF BehindHasRow, HasRow, GetsRow, Plan
<1>1. j \in Nat \ {0}
  <2>1. engines'[f].plan \in Plans
    BY DEF OnceInv, TypeOK, PlansTyped, Shape, InLoop, Executing
  <2> QED BY <2>1, OperationIsPackage, OperationsAreDistinct
<1>2. CASE f # e
  <2>1. engines'[f] = engines[f]
    BY <1>2 DEF Moved
  <2> QED BY <2>1, HasRowStays DEF BehindHasRow, Plan
<1>3. CASE f = e
  <2>1. engines[e].at \in Nat
    BY DEF OnceInv, TypeOK, Engine
  <2>2. /\ engines[e].pc \in InLoop /\ engines'[e].plan = Plan(e)
        /\ \/ engines'[e].at = engines[e].at
           \/ /\ engines'[e].at = engines[e].at + 1
              /\ GetsRow(Plan(e), Current(e))
    BY <1>1, <1>3 DEF Moved
  <2>3. CASE j < engines[e].at
    BY <1>3, <2>2, <2>3, HasRowStays DEF BehindHasRow
  <2>4. CASE j = engines[e].at
    BY <1>3, <2>1, <2>2, <2>4 DEF Current
  <2> QED BY <1>1, <1>3, <2>1, <2>2, <2>3, <2>4
<1> QED BY <1>2, <1>3

\* A plan that was abandoned stays so, and no operation of it gets a row.
LEMMA OrphansStay ==
    ASSUME OnceInv, Running, NEW e \in Engines, Moved(e)
    PROVE  Orphans \subseteq Orphans'
<1> SUFFICES ASSUME NEW p \in Abandoned, NEW k \in NextOperation(p)
             PROVE  Operations[p][k] \in Orphans'
  BY DEF Orphans
<1>1. p \in Begun /\ p \in Plans /\ p # NoPlan /\ p # Plan(e)
  BY NoPlanIsNoPlan DEF Abandoned, OnceInv, TypeOK, PlansTyped
<1>2. p \in Begun' /\ plans'[p] = plans[p]
  BY <1>1 DEF Moved
<1>3. \A f \in Engines : engines'[f].plan # p
  BY <1>1 DEF Moved, Abandoned, Plan
<1>4. p \in Abandoned'
  BY <1>2, <1>3 DEF Abandoned, Plan
<1>5. k \in NextOperation(p)'
  BY <1>1, HasRowStays DEF NextOperation, HasRow, GetsRow
<1> QED BY <1>4, <1>5 DEF Orphans

\* An engine that ends with an operation in hand leaves it as the next one of its plan.
LEMMA OrphanLeft ==
    ASSUME OnceInv, Running, BehindHasRow, NEW e \in Applying, Leave(e),
           plans' = plans, rows' = rows
    PROVE  Current(e) \in Orphans'
<1>0. PICK p, k : p = Plan(e) /\ k = engines[e].at
  OBVIOUS
<1>1. e \in Engines /\ engines[e].pc \in InLoop /\ engines[e].pc \in Executing
  BY DEF Applying, InLoop, Executing
<1>2. p \in Begun /\ p \in Plans /\ p # NoPlan /\ k \in DOMAIN Operations[p] /\ k \in Nat
  BY <1>0, <1>1, OperationIsPackage, NoPlanIsNoPlan
     DEF OnceInv, TypeOK, PlansTyped, Shape, Plan
<1>3. \A f \in Engines : engines'[f].plan # p
  <2> SUFFICES ASSUME NEW f \in Engines PROVE engines'[f].plan # p
    OBVIOUS
  <2>1. CASE f = e
    BY <1>2, <2>1 DEF Leave, Idle, OnceInv, TypeOK
  <2>2. CASE f # e /\ engines[f].pc \in Executing
    BY <1>0, <1>1, <2>2 DEF Leave, OnceInv, OneEngine, Plan
  <2>3. CASE f # e /\ engines[f].pc \notin Executing
    BY <1>0, <1>2, <2>3 DEF Leave, Running, Plan
  <2> QED BY <2>1, <2>2, <2>3
<1>4. plans[p].status = "running"
  BY <1>0, <1>1 DEF Running
<1>5. p \in Abandoned'
  BY <1>2, <1>3, <1>4 DEF Abandoned, Begun, Plan
<1>6. ASSUME NEW j \in DOMAIN Operations[p] PROVE HasRow(p, Operations[p][j]) <=> j < k
  <2>1. j < k => HasRow(p, Operations[p][j])
    BY <1>0, <1>1, <1>6 DEF BehindHasRow
  <2>2. ASSUME HasRow(p, Operations[p][j]) PROVE j < k
    <3>1. PICK i \in DOMAIN rows : rows[i].plan = p /\ rows[i].package = Operations[p][j]
      BY <2>2 DEF HasRow
    <3>2. PICK m \in DOMAIN Operations[p] : m < k /\ Operations[p][m] = rows[i].package
      BY <1>0, <1>1, <3>1 DEF OnceInv, RowsBehind, Plan
    <3>3. m = j
      BY <1>2, <1>6, <3>1, <3>2, OperationsAreDistinct
    <3> QED BY <3>2, <3>3
  <2> QED BY <2>1, <2>2
<1>7. k \in NextOperation(p)'
  BY <1>2, <1>6 DEF NextOperation, HasRow
<1>8. Current(e) = Operations[p][k]
  BY <1>0 DEF Current
<1> QED BY <1>5, <1>7, <1>8 DEF Orphans

\* Coverage survives a step that keeps the rows nobody marks and the engines in hand, as far
\* as their packages stay changed.
LEMMA KeepCovered ==
    ASSUME Covered, changed' \subseteq changed, Orphans \subseteq Orphans',
           \A i \in Candidates \ Marking : rows[i].package \in changed' =>
               i \in (Candidates \ Marking)' /\ rows'[i].package = rows[i].package,
           \A f \in Applying : Current(f) \in changed' =>
               \/ f \in Applying' /\ Current(f)' = Current(f)
               \/ \E i \in (Candidates \ Marking)' : rows'[i].package = Current(f)
               \/ Current(f) \in Orphans'
    PROVE  Covered'
BY DEF Covered

\* The step of one engine that does not take a row in hand marks no more than before.
LEMMA OthersMark ==
    ASSUME NEW e \in Engines, engines'[e].pc # "mark",
           \A f \in Engines : f # e => engines'[f] = engines[f]
    PROVE  Marking' \subseteq Marking
BY DEF Marking

\* So does a step of an engine that has no operation in hand and leaves rows and television.
LEMMA QuietCovered ==
    ASSUME Covered, NEW e \in Engines, e \notin Applying, rows' = rows, changed' = changed,
           Orphans \subseteq Orphans',
           \A f \in Engines : f # e => engines'[f] = engines[f],
           engines'[e].pc # "mark"
    PROVE  Covered'
<1>1. Marking' \subseteq Marking
  BY OthersMark
<1>2. \A f \in Applying : f \in Applying' /\ Current(f)' = Current(f)
  BY DEF Applying, Current, Plan
<1>3. Candidates' = Candidates
  BY DEF Candidates
<1> QED BY <1>1, <1>2, <1>3, KeepCovered

LEMMA CoveredNext ==
    ASSUME OnceInv, CoveredInv, [Next]_vars
    PROVE  Covered'
<1>0. /\ rows \in Seq(Row)
      /\ engines \in [Engines -> Engine]
      /\ Marking \subseteq DOMAIN rows
      /\ Covered /\ Running /\ BehindHasRow
  BY DEF OnceInv, TypeOK, Shape, Marking, CoveredInv
<1>00. ASSUME NEW e \in Engines, Execute(e) \/ Rollback(e) \/ Fail(e)
       PROVE  Orphans \subseteq Orphans'
  BY <1>0, <1>00, EngineMoves, OrphansStay
<1>1. ASSUME NEW e \in Engines, NEW p \in Plans, Begin(e, p) PROVE Covered'
  <2>1. engines'[e].pc \in {"apply", "finish"}
    BY <1>0, <1>1, LoopHeadCases DEF Begin, Idle
  <2> QED BY <1>0, <1>00, <1>1, <2>1, QuietCovered DEF Execute, Rollback, Begin, At, Applying
<1>2. ASSUME NEW e \in Engines, Apply(e) PROVE Covered'
  <2>1. /\ engines[e].pc = "apply" /\ engines'[e].pc = "health"
        /\ engines'[e].plan = engines[e].plan /\ engines'[e].at = engines[e].at
        /\ \A f \in Engines : f # e => engines'[f] = engines[f]
        /\ rows' = rows /\ changed' = changed \union {Current(e)}
    BY <1>0, <1>2 DEF Apply, At, Goto, Engine
  <2>2. e \in Applying' /\ Current(e)' = Current(e)
    BY <2>1 DEF Applying, Current, Plan
  <2>3. \A f \in Applying : f \in Applying' /\ Current(f)' = Current(f)
    BY <2>1 DEF Applying, Current, Plan
  <2>4. Marking' \subseteq Marking /\ Candidates' = Candidates
    BY <2>1, OthersMark DEF Candidates
  <2>5. Orphans \subseteq Orphans'
    BY <1>2, <1>00 DEF Execute
  <2> QED BY <1>0, <2>1, <2>2, <2>3, <2>4, <2>5 DEF Covered
<1>3. ASSUME NEW e \in Engines, Health(e) PROVE Covered'
  <2>1. PICK step \in {"record", "undo"} : Goto(e, step)
    BY <1>3 DEF Health
  <2>2. /\ engines'[e].pc \in {"record", "undo"}
        /\ engines'[e].plan = engines[e].plan /\ engines'[e].at = engines[e].at
        /\ \A f \in Engines : f # e => engines'[f] = engines[f]
        /\ rows' = rows /\ changed' = changed
    BY <1>0, <1>3, <2>1 DEF Health, Goto, Engine
  <2>3. \A f \in Applying : f \in Applying' /\ Current(f)' = Current(f)
    BY <2>2 DEF Applying, Current, Plan
  <2>4. Marking' \subseteq Marking /\ Candidates' = Candidates
    BY <2>2, OthersMark DEF Candidates
  <2> QED BY <1>0, <1>00, <1>3, <2>2, <2>3, <2>4, KeepCovered DEF Execute, Rollback
<1>4. ASSUME NEW e \in Engines, RecordApplied(e) PROVE Covered'
  <2> DEFINE n == Len(rows) + 1
  <2>1. /\ engines[e].pc = "record" /\ engines'[e].pc \in {"apply", "finish"}
        /\ \A f \in Engines : f # e => engines'[f] = engines[f]
        /\ changed' = changed
    BY <1>0, <1>4, LoopHeadCases DEF RecordApplied, At
  <2>2. /\ DOMAIN rows' = DOMAIN rows \union {n} /\ n \notin DOMAIN rows
        /\ \A i \in DOMAIN rows : rows'[i] = rows[i]
        /\ rows'[n].package = Current(e)
        /\ rows'[n].status = "applied" /\ rows'[n].reverted = FALSE
    BY <1>0, <1>4 DEF RecordApplied, Record
  <2>3. Marking' \subseteq Marking
    BY <2>1, OthersMark
  <2>4. n \in (Candidates \ Marking)'
    BY <1>0, <2>2, <2>3 DEF Candidates
  <2>5. \A i \in Candidates \ Marking : i \in (Candidates \ Marking)' /\ rows'[i] = rows[i]
    BY <2>2, <2>3 DEF Candidates
  <2>6. \A f \in Applying : f # e => f \in Applying' /\ Current(f)' = Current(f)
    BY <2>1 DEF Applying, Current, Plan
  <2> QED BY <1>0, <1>00, <1>4, <2>1, <2>2, <2>4, <2>5, <2>6, KeepCovered DEF Execute, Rollback
<1>5. ASSUME NEW e \in Engines, FinishComplete(e) PROVE Covered'
  BY <1>0, <1>00, <1>5, QuietCovered DEF Execute, Rollback, FinishComplete, Leave, Idle, At,
     Applying
<1>6. ASSUME NEW e \in Engines, Undo(e) PROVE Covered'
  <2>1. /\ engines'[e].pc = "record-failed"
        /\ \A f \in Engines : f # e => engines'[f] = engines[f]
        /\ rows' = rows /\ changed' = changed \ {Current(e)}
    BY <1>0, <1>6 DEF Undo, Goto
  <2>2. \A f \in Applying : f # e => f \in Applying' /\ Current(f)' = Current(f)
    BY <2>1 DEF Applying, Current, Plan
  <2>3. Marking' \subseteq Marking /\ Candidates' = Candidates
    BY <2>1, OthersMark DEF Candidates
  <2> QED BY <1>0, <1>00, <1>6, <2>1, <2>2, <2>3, KeepCovered DEF Execute, Rollback
<1>7. ASSUME NEW e \in Engines, RecordFailed(e) PROVE Covered'
  <2>1. /\ engines[e].pc = "record-failed" /\ engines'[e].pc = "finish-failed"
        /\ \A f \in Engines : f # e => engines'[f] = engines[f]
        /\ changed' = changed
    BY <1>0, <1>7 DEF RecordFailed, At, Goto
  <2>2. /\ DOMAIN rows \subseteq DOMAIN rows'
        /\ \A i \in DOMAIN rows : rows'[i] = rows[i]
    BY <1>0, <1>7 DEF RecordFailed, Record
  <2>3. \A i \in Candidates \ Marking : i \in (Candidates \ Marking)' /\ rows'[i] = rows[i]
    BY <2>1, <2>2, OthersMark DEF Candidates
  <2>4. \A f \in Applying : f \in Applying' /\ Current(f)' = Current(f)
    BY <2>1 DEF Applying, Current, Plan
  <2> QED BY <1>0, <1>00, <1>7, <2>1, <2>3, <2>4, KeepCovered DEF Execute, Rollback
<1>8. ASSUME NEW e \in Engines, FinishFailed(e) PROVE Covered'
  BY <1>0, <1>00, <1>8, QuietCovered DEF Execute, Rollback, FinishFailed, Leave, Idle, At,
     Applying
<1>9. ASSUME NEW e \in Engines, RollbackStart(e) PROVE Covered'
  <2>1. engines'[e].pc = "revert" /\ \A f \in Engines : f # e => engines'[f] = engines[f]
    BY <1>0, <1>9 DEF RollbackStart, Engine
  <2> QED BY <1>0, <1>00, <1>9, <2>1, QuietCovered DEF Execute, Rollback, RollbackStart, At, Applying
<1>10. ASSUME NEW e \in Engines, Revert(e) PROVE Covered'
  <2>1. PICK i \in engines[e].todo :
           /\ changed' = changed \ {rows[i].package}
           /\ engines' = [engines EXCEPT ![e].pc = "mark", ![e].row = i]
    BY <1>10 DEF Revert
  <2>2. /\ engines[e].pc = "revert" /\ engines'[e].pc = "mark" /\ engines'[e].row = i
        /\ \A f \in Engines : f # e => engines'[f] = engines[f]
        /\ rows' = rows
    BY <1>0, <1>10, <2>1 DEF Revert, At, Engine
  <2>3. Marking' \subseteq Marking \union {i} /\ Candidates' = Candidates
    BY <2>2 DEF Marking, Candidates
  <2>4. \A f \in Applying : f \in Applying' /\ Current(f)' = Current(f)
    BY <2>2 DEF Applying, Current, Plan
  <2> QED BY <1>0, <1>00, <1>10, <2>1, <2>2, <2>3, <2>4, KeepCovered DEF Execute, Rollback
<1>11. ASSUME NEW e \in Engines, MarkReverted(e) PROVE Covered'
  <2>1. /\ engines[e].pc = "mark" /\ engines'[e].pc \in {"idle", "revert"}
        /\ \A f \in Engines : f # e => engines'[f] = engines[f]
        /\ changed' = changed
    BY <1>0, <1>11 DEF MarkReverted, At, Idle, Engine
  <2>2. /\ DOMAIN rows' = DOMAIN rows
        /\ \A i \in DOMAIN rows : i # engines[e].row => rows'[i] = rows[i]
    BY <1>0, <1>11 DEF MarkReverted
  <2>3. engines[e].row \in Marking
    BY <2>1 DEF Marking
  <2>4. \A i \in Candidates \ Marking : i \in (Candidates \ Marking)' /\ rows'[i] = rows[i]
    BY <2>1, <2>2, <2>3, OthersMark DEF Candidates
  <2>5. \A f \in Applying : f \in Applying' /\ Current(f)' = Current(f)
    BY <2>1 DEF Applying, Current, Plan
  <2> QED BY <1>0, <1>00, <1>11, <2>1, <2>4, <2>5, KeepCovered DEF Execute, Rollback
<1>12. ASSUME NEW e \in Engines, Fail(e) PROVE Covered'
  <2>1. /\ \A f \in Engines : f # e => engines'[f] = engines[f]
        /\ engines'[e].pc # "mark"
        /\ rows' = rows /\ changed' = changed
    BY <1>0, <1>12 DEF Fail, Leave, Idle
  <2>2. \A f \in Applying : f # e => f \in Applying' /\ Current(f)' = Current(f)
    BY <2>1 DEF Applying, Current, Plan
  <2>3. e \in Applying => Current(e) \in Orphans'
    BY <1>0, <1>12, OrphanLeft DEF Fail
  <2>4. Marking' \subseteq Marking /\ Candidates' = Candidates
    BY <2>1, OthersMark DEF Candidates
  <2> QED BY <1>0, <1>00, <1>12, <2>1, <2>2, <2>3, <2>4, KeepCovered
<1>13. CASE UNCHANGED vars
  <2>1. /\ Marking' = Marking /\ Candidates' = Candidates /\ Applying' = Applying
        /\ Orphans' = Orphans
    BY <1>13 DEF vars, Marking, Candidates, Applying, Orphans, Abandoned, NextOperation, HasRow,
                 Begun, Plan
  <2> QED BY <1>0, <1>13, <2>1 DEF vars, Covered, Current, Plan
<1> QED
  BY <1>1, <1>2, <1>3, <1>4, <1>5, <1>6, <1>7, <1>8, <1>9, <1>10, <1>11, <1>12, <1>13
     DEF Next, Execute, Rollback, Rest

LEMMA CoveredInvNext == ASSUME OnceInv, OnceInv', CoveredInv, [Next]_vars PROVE CoveredInv'
<1>1. Covered'
  BY CoveredNext
<1>2. CASE \E e \in Engines : Execute(e) \/ Rollback(e) \/ Fail(e)
  <2>1. PICK e \in Engines : Moved(e)
    BY <1>2, EngineMoves DEF CoveredInv
  <2> QED BY <1>1, <2>1, RunningNext, BehindNext DEF CoveredInv
<1>3. CASE UNCHANGED vars
  <2>1. Running' /\ BehindHasRow'
    BY <1>3 DEF vars, CoveredInv, Running, BehindHasRow, HasRow, Plan
  <2> QED BY <1>1, <2>1 DEF CoveredInv
<1> QED BY <1>2, <1>3 DEF Next, Rest

\* Whatever is changed has an applied row, is in an engine's hand, or is the first operation
\* without a row of a plan that a failure left running.
THEOREM ChangesAreLocated == Spec => []UnrecordedIsLocated
<1>1. Init => CoveredInv
  BY DEF Init, CoveredInv, Covered, Running, BehindHasRow, Idle, Executing, InLoop, Plan
<1>2. OnceInv /\ OnceInv' /\ CoveredInv /\ [Next]_vars => CoveredInv'
  BY CoveredInvNext
<1>3. CoveredInv => UnrecordedIsLocated
  BY DEF CoveredInv, Covered, UnrecordedIsLocated, Recorded, InHand
<1> QED BY AlwaysOnce, <1>1, <1>2, <1>3, PTL DEF Spec

----------------------------------------------------------------------------
(* What the journal says of a plan.                                        *)

\* The rows stay, and keep what they say, while a step adds at most one.
RowsKept ==
    \A i \in DOMAIN rows : /\ i \in DOMAIN rows'
                           /\ rows'[i].plan = rows[i].plan
                           /\ rows'[i].package = rows[i].package
                           /\ rows'[i].status = rows[i].status

LEMMA StatusStays ==
    ASSUME RowsKept, NEW p, NEW x, NEW status, HasStatus(p, x, status)
    PROVE  GetsStatus(p, x, status)
BY DEF RowsKept, HasStatus, GetsStatus

\* What RowsArePrefix says of one row.
InOrder(i) ==
    \E k \in DOMAIN Operations[rows[i].plan] :
        /\ rows[i].package = Operations[rows[i].plan][k]
        /\ \A m \in 1..(k - 1) : \E j \in 1..(i - 1) :
              /\ rows[j].plan = rows[i].plan
              /\ rows[j].package = Operations[rows[i].plan][m]
              /\ rows[j].status = "applied"

LEMMA OrderStays ==
    ASSUME rows \in Seq(Row), RowsKept, NEW i \in DOMAIN rows, InOrder(i)
    PROVE  InOrder(i)'
<1>1. PICK k \in DOMAIN Operations[rows[i].plan] :
        /\ rows[i].package = Operations[rows[i].plan][k]
        /\ \A m \in 1..(k - 1) : \E j \in 1..(i - 1) :
              /\ rows[j].plan = rows[i].plan
              /\ rows[j].package = Operations[rows[i].plan][m]
              /\ rows[j].status = "applied"
  BY DEF InOrder
<1>2. \A j \in 1..(i - 1) : j \in DOMAIN rows
  OBVIOUS
<1>3. /\ rows'[i].plan = rows[i].plan /\ rows'[i].package = rows[i].package
      /\ \A j \in 1..(i - 1) : /\ rows'[j].plan = rows[j].plan
                               /\ rows'[j].package = rows[j].package
                               /\ rows'[j].status = rows[j].status
  BY <1>2 DEF RowsKept
<1> QED BY <1>1, <1>3 DEF InOrder

\* A step that adds no row, reports nothing, and takes its engine no further in its plan.
LEMMA QuietProgress ==
    ASSUME OnceInv, ProgressInv, NEW e \in Engines, RowsKept, DOMAIN rows' = DOMAIN rows,
           \A f \in Engines : f # e => engines'[f] = engines[f],
           \/ engines'[e].pc \notin InLoop \cup {"finish", "finish-failed"}
           \/ /\ engines[e].pc \in InLoop /\ engines'[e].pc \in InLoop
              /\ engines'[e].plan = engines[e].plan /\ engines'[e].at = engines[e].at
    PROVE  (\A f \in Engines : Progress(f)') /\ RowsArePrefix'
<1>1. ASSUME NEW f \in Engines PROVE Progress(f)'
  <2>1. CASE f = e
    BY <2>1, StatusStays DEF ProgressInv, Progress, InLoop, Plan, GetsStatus, HasStatus
  <2>2. CASE f # e
    <3>1. engines'[f] = engines[f] /\ Progress(f)
      BY <2>2 DEF ProgressInv
    <3> QED BY <3>1, StatusStays DEF Progress, Plan, GetsStatus, HasStatus
  <2> QED BY <2>1, <2>2
<1>2. RowsArePrefix'
  <2>1. \A i \in DOMAIN rows : InOrder(i)
    BY DEF ProgressInv, RowsArePrefix, InOrder
  <2>2. \A i \in DOMAIN rows' : InOrder(i)'
    BY <2>1, OrderStays DEF OnceInv, TypeOK
  <2> QED BY <2>2 DEF RowsArePrefix, InOrder
<1> QED BY <1>1, <1>2

\* Reports stay true while rows stay and no plan gets another status.
LEMMA ReportStays ==
    ASSUME OnceInv, ProgressInv, RowsKept,
           \A p \in Begun' : \/ p \in Begun /\ plans'[p].status = plans[p].status
                             \/ plans'[p].status = "running"
    PROVE  ReportIsTrue'
<1> SUFFICES ASSUME NEW p \in Begun'
             PROVE  /\ plans'[p].status = "complete" =>
                          \A k \in DOMAIN Operations[p] :
                              GetsStatus(p, Operations[p][k], "applied")
                    /\ plans'[p].status = "failed" =>
                          \E x \in Packages : GetsStatus(p, x, "failed")
  BY DEF ReportIsTrue, HasStatus, GetsStatus
<1> QED BY StatusStays DEF ProgressInv, ReportIsTrue

\* A row for the operation in hand comes after the rows of the operations before.
LEMMA RecordedInOrder ==
    ASSUME OnceInv, ProgressInv, NEW e \in Engines, engines[e].pc \in InLoop,
           NEW status, NEW reverted,
           rows' = Record(Plan(e), Current(e), status, reverted)
    PROVE  /\ RowsKept /\ RowsArePrefix'
           /\ GetsStatus(Plan(e), Current(e), status)
<1>0. PICK n, p, k : n = Len(rows) + 1 /\ p = Plan(e) /\ k = engines[e].at
  OBVIOUS
<1>1. /\ rows \in Seq(Row) /\ p \in Plans /\ k \in DOMAIN Operations[p] /\ k \in Nat
      /\ Operations[p] \in Seq(Packages)
  BY <1>0, OperationIsPackage, OperationsAreDistinct
  DEF OnceInv, TypeOK, PlansTyped, Shape, InLoop, Executing, Plan
<1>2. /\ DOMAIN rows' = DOMAIN rows \union {n} /\ n \notin DOMAIN rows
      /\ \A i \in DOMAIN rows : rows'[i] = rows[i]
      /\ rows'[n].plan = p /\ rows'[n].package = Operations[p][k] /\ rows'[n].status = status
      /\ DOMAIN rows = 1..(n - 1) /\ n \in Nat
  BY <1>0, <1>1 DEF Record, Current
<1>3. RowsKept
  BY <1>2 DEF RowsKept
<1>4. GetsStatus(Plan(e), Current(e), status)
  BY <1>0, <1>2 DEF GetsStatus, Current
<1>5. InOrder(n)'
  <2>1. ASSUME NEW m \in 1..(k - 1)
        PROVE  \E j \in 1..(n - 1) : /\ rows'[j].plan = p
                                     /\ rows'[j].package = Operations[p][m]
                                     /\ rows'[j].status = "applied"
    <3>1. m \in DOMAIN Operations[p] /\ m < k
      BY <1>1
    <3>2. HasStatus(p, Operations[p][m], "applied")
      BY <1>0, <3>1 DEF ProgressInv, Progress
    <3> QED BY <1>2, <3>2 DEF HasStatus
  <2> QED BY <1>1, <1>2, <2>1 DEF InOrder
<1>6. \A i \in DOMAIN rows' : InOrder(i)'
  <2>1. \A i \in DOMAIN rows : InOrder(i)
    BY DEF ProgressInv, RowsArePrefix, InOrder
  <2> QED BY <1>1, <1>2, <1>3, <1>5, <2>1, OrderStays
<1> QED BY <1>3, <1>4, <1>6 DEF RowsArePrefix, InOrder

\* What an engine's progress asks of its rows after a step.
LEMMA NewProgress ==
    ASSUME NEW f \in Engines, NEW p, engines'[f].plan = p,
           engines'[f].pc \in InLoop => \A j \in DOMAIN Operations[p] :
               j < engines'[f].at => GetsStatus(p, Operations[p][j], "applied"),
           engines'[f].pc = "finish" => \A j \in DOMAIN Operations[p] :
               GetsStatus(p, Operations[p][j], "applied"),
           engines'[f].pc = "finish-failed" => \E x \in Packages : GetsStatus(p, x, "failed")
    PROVE  Progress(f)'
BY DEF Progress, Plan, HasStatus, GetsStatus

\* The other engines keep theirs.
LEMMA OthersProgress ==
    ASSUME RowsKept, NEW f \in Engines, engines'[f] = engines[f], Progress(f)
    PROVE  Progress(f)'
BY StatusStays DEF Progress, Plan, HasStatus, GetsStatus

LEMMA ProgressNext == ASSUME OnceInv, ProgressInv, [Next]_vars PROVE ProgressInv'
<1>0. /\ PlansTyped /\ rows \in Seq(Row) /\ engines \in [Engines -> Engine]
      /\ \A f \in Engines : Progress(f)
  BY DEF OnceInv, TypeOK, ProgressInv
<1>1. ASSUME NEW e \in Engines, NEW p \in Plans, Begin(e, p) PROVE ProgressInv'
  <2>1. /\ engines'[e].pc \in {"apply", "finish"} /\ engines'[e].plan = p /\ engines'[e].at = 1
        /\ engines'[e].pc = "finish" => 1 \notin DOMAIN Operations[p]
        /\ \A f \in Engines : f # e => engines'[f] = engines[f]
        /\ rows' = rows
    BY <1>0, <1>1 DEF Begin, Idle, LoopHead
  <2>2. \A j \in DOMAIN Operations[p] : 1 \in DOMAIN Operations[p] /\ ~(j < 1)
    <3>1. Operations[p] \in Seq(Packages)
      BY OperationsAreDistinct
    <3> QED BY <3>1
  <2>3. ASSUME NEW f \in Engines PROVE Progress(f)'
    <3>1. CASE f = e
      BY <2>1, <2>2, <3>1, NewProgress DEF InLoop
    <3>2. CASE f # e
      BY <1>0, <2>1, <3>2, OthersProgress DEF RowsKept
    <3> QED BY <3>1, <3>2
  <2>4. RowsKept /\ RowsArePrefix'
    BY <2>1 DEF RowsKept, ProgressInv, RowsArePrefix
  <2>5. ReportIsTrue'
    BY <1>1, <2>4, ReportStays DEF Begin, Begun
  <2> QED BY <2>3, <2>4, <2>5 DEF ProgressInv
<1>2. ASSUME NEW e \in Engines, Apply(e) \/ Health(e) \/ Undo(e) PROVE ProgressInv'
  <2>1. PICK step \in {"health", "record", "undo", "record-failed"} : Goto(e, step)
    BY <1>2 DEF Apply, Health, Undo
  <2>2. /\ engines'[e].pc = step /\ engines'[e].plan = engines[e].plan
        /\ engines'[e].at = engines[e].at
        /\ \A f \in Engines : f # e => engines'[f] = engines[f]
    BY <1>0, <2>1 DEF Goto, Engine
  <2>3. engines[e].pc \in {"apply", "health", "undo"} /\ rows' = rows /\ plans' = plans
    BY <1>2 DEF Apply, Health, Undo, At
  <2>4. RowsKept
    BY <2>3 DEF RowsKept
  <2>5. (\A f \in Engines : Progress(f)') /\ RowsArePrefix'
    BY <2>2, <2>3, <2>4, QuietProgress DEF InLoop
  <2>6. ReportIsTrue'
    BY <2>3, <2>4, ReportStays DEF Begun
  <2> QED BY <2>5, <2>6 DEF ProgressInv
<1>3. ASSUME NEW e \in Engines, RecordApplied(e) PROVE ProgressInv'
  <2> DEFINE p == Plan(e)
             k == engines[e].at
  <2>1. /\ engines[e].pc = "record" /\ engines'[e].pc = LoopHead(p, k + 1)
        /\ engines'[e].plan = p /\ engines'[e].at = k + 1
        /\ \A f \in Engines : f # e => engines'[f] = engines[f]
        /\ plans' = plans /\ rows' = Record(p, Current(e), "applied", FALSE)
    BY <1>0, <1>3 DEF RecordApplied, At, Engine, Plan
  <2>2. /\ p \in Plans /\ k \in DOMAIN Operations[p] /\ k \in Nat
        /\ Operations[p] \in Seq(Packages)
    BY <1>0, <2>1, OperationIsPackage, OperationsAreDistinct
    DEF OnceInv, PlansTyped, Shape, InLoop, Executing, Plan
  <2>3. RowsKept /\ RowsArePrefix' /\ GetsStatus(p, Current(e), "applied")
    BY <2>1, RecordedInOrder DEF InLoop
  <2>4. ASSUME NEW j \in DOMAIN Operations[p], j < k + 1
        PROVE  GetsStatus(p, Operations[p][j], "applied")
    <3>1. CASE j = k
      BY <2>3, <3>1 DEF Current
    <3>2. CASE j # k
      <4>1. j < k
        BY <2>2, <2>4, <3>2
      <4>2. HasStatus(p, Operations[p][j], "applied")
        BY <1>0, <2>1, <4>1 DEF Progress, InLoop
      <4> QED BY <2>3, <4>2, StatusStays
    <3> QED BY <3>1, <3>2
  <2>5. engines'[e].pc = "finish" => \A j \in DOMAIN Operations[p] : j < k + 1
    BY <2>1, <2>2 DEF LoopHead
  <2>6. engines'[e].pc \in {"apply", "finish"}
    BY <2>1, LoopHeadCases
  <2>7. ASSUME NEW f \in Engines PROVE Progress(f)'
    <3>1. CASE f = e
      BY <2>1, <2>4, <2>5, <2>6, <3>1, NewProgress
    <3>2. CASE f # e
      BY <1>0, <2>1, <2>3, <3>2, OthersProgress
    <3> QED BY <3>1, <3>2
  <2>8. ReportIsTrue'
    BY <2>1, <2>3, ReportStays DEF Begun
  <2> QED BY <2>3, <2>7, <2>8 DEF ProgressInv
<1>4. ASSUME NEW e \in Engines, RecordFailed(e) PROVE ProgressInv'
  <2>1. /\ engines[e].pc = "record-failed" /\ engines'[e].pc = "finish-failed"
        /\ engines'[e].plan = Plan(e)
        /\ \A f \in Engines : f # e => engines'[f] = engines[f]
        /\ plans' = plans /\ rows' = Record(Plan(e), Current(e), "failed", TRUE)
    BY <1>0, <1>4 DEF RecordFailed, At, Goto, Engine, Plan
  <2>2. Current(e) \in Packages
    BY <2>1, OperationInHand DEF OnceInv, InLoop
  <2>3. RowsKept /\ RowsArePrefix' /\ GetsStatus(Plan(e), Current(e), "failed")
    BY <2>1, RecordedInOrder DEF InLoop
  <2>4. ASSUME NEW f \in Engines PROVE Progress(f)'
    <3>1. CASE f = e
      BY <2>1, <2>2, <2>3, <3>1, NewProgress DEF InLoop
    <3>2. CASE f # e
      BY <1>0, <2>1, <2>3, <3>2, OthersProgress
    <3> QED BY <3>1, <3>2
  <2>5. ReportIsTrue'
    BY <2>1, <2>3, ReportStays DEF Begun
  <2> QED BY <2>3, <2>4, <2>5 DEF ProgressInv
<1>5. ASSUME NEW e \in Engines, NEW status \in {"complete", "failed"},
             (FinishComplete(e) /\ status = "complete") \/ (FinishFailed(e) /\ status = "failed")
      PROVE  ProgressInv'
  <2>1. /\ engines[e].pc = IF status = "complete" THEN "finish" ELSE "finish-failed"
        /\ plans' = Finished(Plan(e), status) /\ rows' = rows /\ Leave(e)
    BY <1>5 DEF FinishComplete, FinishFailed, At
  <2>2. RowsKept
    BY <2>1 DEF RowsKept
  <2>3. engines'[e] = Idle /\ \A f \in Engines : f # e => engines'[f] = engines[f]
    BY <1>0, <2>1 DEF Leave
  <2>4. (\A f \in Engines : Progress(f)') /\ RowsArePrefix'
    BY <2>1, <2>2, <2>3, QuietProgress DEF Idle, InLoop
  <2>5. ReportIsTrue'
    <3>1. /\ Begun' = Begun /\ plans'[Plan(e)].status = status
          /\ \A p \in Begun : p # Plan(e) => plans'[p] = plans[p]
      BY <2>1 DEF Finished, Begun, OnceInv, Shape, Executing, Plan
    <3>2. Progress(e)
      BY <1>0
    <3> QED BY <2>1, <3>1, <3>2 DEF ReportIsTrue, ProgressInv, Progress, HasStatus
  <2> QED BY <2>4, <2>5 DEF ProgressInv
<1>6. ASSUME NEW e \in Engines, RollbackStart(e) \/ Revert(e) PROVE ProgressInv'
  <2>1. /\ engines'[e].pc \in {"revert", "mark"}
        /\ \A f \in Engines : f # e => engines'[f] = engines[f]
    BY <1>0, <1>6 DEF RollbackStart, Revert, Engine
  <2>2. rows' = rows /\ plans' = plans
    BY <1>6 DEF RollbackStart, Revert
  <2>3. RowsKept
    BY <2>2 DEF RowsKept
  <2>4. (\A f \in Engines : Progress(f)') /\ RowsArePrefix'
    BY <2>1, <2>2, <2>3, QuietProgress DEF InLoop
  <2> QED BY <2>2, <2>3, <2>4, ReportStays DEF ProgressInv, Begun
<1>7. ASSUME NEW e \in Engines, MarkReverted(e) PROVE ProgressInv'
  <2>1. /\ engines'[e].pc \in {"idle", "revert"}
        /\ \A f \in Engines : f # e => engines'[f] = engines[f]
        /\ plans' = plans
    BY <1>0, <1>7 DEF MarkReverted, Idle, Engine
  <2>2. RowsKept /\ DOMAIN rows' = DOMAIN rows
    BY <1>0, <1>7 DEF MarkReverted, Row, RowsKept
  <2>3. (\A f \in Engines : Progress(f)') /\ RowsArePrefix'
    BY <2>1, <2>2, QuietProgress DEF InLoop
  <2> QED BY <2>1, <2>2, <2>3, ReportStays DEF ProgressInv, Begun
<1>8. ASSUME NEW e \in Engines, Fail(e) PROVE ProgressInv'
  <2>1. /\ engines'[e] = Idle /\ rows' = rows /\ plans' = plans
        /\ \A f \in Engines : f # e => engines'[f] = engines[f]
    BY <1>0, <1>8 DEF Fail, Leave
  <2>2. RowsKept
    BY <2>1 DEF RowsKept
  <2>3. (\A f \in Engines : Progress(f)') /\ RowsArePrefix'
    BY <2>1, <2>2, QuietProgress DEF Idle, InLoop
  <2> QED BY <2>1, <2>2, <2>3, ReportStays DEF ProgressInv, Begun
<1>9. CASE UNCHANGED vars
  <2>1. RowsKept
    BY <1>9 DEF vars, RowsKept
  <2>2. \A f \in Engines : Progress(f)'
    BY <1>0, <1>9, <2>1, OthersProgress DEF vars
  <2>3. RowsArePrefix'
    BY <1>9 DEF vars, ProgressInv, RowsArePrefix
  <2> QED BY <1>9, <2>1, <2>2, <2>3, ReportStays DEF vars, ProgressInv, Begun
<1>10. ASSUME NEW e \in Engines, FinishComplete(e) \/ FinishFailed(e) PROVE ProgressInv'
  BY <1>5, <1>10
<1> QED BY <1>1, <1>2, <1>3, <1>4, <1>6, <1>7, <1>8, <1>9, <1>10
    DEF Next, Execute, Rollback, Rest

LEMMA ProgressHolds == Spec => []ProgressInv
<1>1. Init => ProgressInv
  BY DEF Init, Idle, ProgressInv, Progress, RowsArePrefix, ReportIsTrue, InLoop, Begun
<1> QED BY <1>1, AlwaysOnce, ProgressNext, PTL DEF Spec

\* TransactionEngine.execute: the rows of a plan are its operations in order, each of them
\* behind the applied rows of those before it, although other engines execute, fail and roll
\* back over the same table.
THEOREM RowsFollowThePlan == Spec => []RowsArePrefix
<1>1. ProgressInv => RowsArePrefix
  BY DEF ProgressInv
<1> QED BY <1>1, ProgressHolds, PTL

\* OperationJournal.finish: a plan reported complete has an applied row for each of its
\* operations, and one reported failed has a failed row.
THEOREM ReportsAreTrue == Spec => []ReportIsTrue
<1>1. ProgressInv => ReportIsTrue
  BY DEF ProgressInv
<1> QED BY <1>1, ProgressHolds, PTL
=============================================================================
