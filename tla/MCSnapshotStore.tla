--------------------------- MODULE MCSnapshotStore ---------------------------
(* TLC instances of SnapshotStore.                                         *)
EXTENDS SnapshotStore, TLC

\* One file the Controller asks for, one it does not, and one it asks for.
WriteOrder == <<"manifest", "device", "restore-plan">>

\* Calls are interchangeable.
Symmetry == Permutations(Runs)
=============================================================================
