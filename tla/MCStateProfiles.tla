--------------------------- MODULE MCStateProfiles ---------------------------
(* TLC instances of StateProfiles.                                         *)
EXTENDS StateProfiles, TLC

CONSTANTS p1, p2

PackageOrder == [p \in Packages |-> IF p = p1 THEN 1 ELSE 2]

NoFiles == [f \in Versions |-> NoFile]

\* The name of version 1, for that and for the other version, and a file of unknown version.
ServedFiles == {<<1, 1>>, <<1, 2>>, <<2, 0>>}

\* An empty service and a television with one application, archived or not; placed by
\* hand or not.
FirstCapture ==
    {[tv |-> p1 :> [version |-> 1, enabled |-> e] @@ p2 :> Absent,
      library |-> p1 :> a[1] @@ p2 :> [NoFiles EXCEPT ![1] = 1],
      bare |-> a[2],
      profiles |-> << >>] :
        e \in BOOLEAN,
        a \in {<<NoFiles, {}>>, <<[NoFiles EXCEPT ![1] = 1], {}>>,
              <<[NoFiles EXCEPT ![1] = 1], {<<p1, 1>>}>>}}

\* A saved profile of two applications: the first was updated or removed since,
\* the second is to be disabled.
SavedProfile(d) ==
    [device |-> d,
     packages |-> <<[package |-> p1, state |-> [version |-> 1, enabled |-> TRUE], apk |-> 1],
                    [package |-> p2, state |-> [version |-> 1, enabled |-> FALSE], apk |-> 1]>>]

SecondDay ==
    {[tv |-> p1 :> state @@ p2 :> [version |-> 1, enabled |-> TRUE],
      library |-> p1 :> [NoFiles EXCEPT ![1] = 1, ![2] = 2] @@ p2 :> [NoFiles EXCEPT ![1] = 1],
      bare |-> {},
      profiles |-> <<SavedProfile(d)>>] :
        d \in Devices, state \in {Absent, [version |-> 2, enabled |-> TRUE]}}

InitialStates == FirstCapture \cup SecondDay

\* The slots for threads are interchangeable, and so are the televisions.
Symmetry == Permutations(Threads) \cup Permutations(Devices)
=============================================================================
