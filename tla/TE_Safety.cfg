SPECIFICATION Spec
CONSTANTS
    plan1 = plan1
    plan2 = plan2
    a = a
    b = b
    c = c
    e1 = e1
    e2 = e2
    Plans = {plan1, plan2}
    NoPlan = NoPlan
    Packages = {a, b, c}
    Operations <- PlanOperations
    Engines = {e1, e2}
SYMMETRY Symmetry
INVARIANTS TypeOK UnrecordedIsLocated OperationsRunOnce RowsArePrefix ReportIsTrue
