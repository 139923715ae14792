------------------------ MODULE MCTransactionEngine ------------------------
\* Instance of TransactionEngine: two plans that share a package, the
\* engines alike.
EXTENDS TransactionEngine, TLC

CONSTANTS plan1, plan2, a, b, c, e1, e2

PlanOperations == plan1 :> <<a, b>> @@ plan2 :> <<b, c>>

Symmetry == Permutations({e1, e2})
=============================================================================
