------------------------- MODULE SnapshotStoreProofs -------------------------
(***************************************************************************)
(* Theorems about SnapshotStore: what the services take for a snapshot is  *)
(* whole, a published snapshot stays as it is, and the verdicts of the     *)
(* runs stay true, for any number of runs, files and faults.               *)
(***************************************************************************)
EXTENDS SnapshotStore, TLAPS, FiniteSetTheorems, FunctionTheorems

Raw(r) == [of |-> r, form |-> "raw"]

(* What a run is, by its kind.                                             *)

Ends == {"done", "failed", "died"}

CreateShape(r) ==
    /\ runs[r].kind = "create"
    /\ Source(r) = Partial(r)
    /\ runs[r].pc \in CreateSteps \cup {"idle", "cleanup"} \cup Ends
    /\ runs[r].pc # "idle" => \E s \in Seconds : Target(r) = Snapshot(s)

RedactShape(r) ==
    /\ runs[r].kind = "redact"
    /\ runs[r].pc \in RedactSteps \cup {"cleanup"} \cup Ends
    /\ \E s \in Seconds : Source(r) = Snapshot(s) /\ Target(r) = <<"redacted", s>>

ArchiveShape(r) ==
    /\ runs[r].kind = "archive"
    /\ runs[r].pc \in ArchiveSteps \cup {"mkdir"} \cup Ends
    /\ \E s \in Seconds :
          \/ Source(r) = Snapshot(s) /\ Target(r) = <<"archive", s>>
          \/ Source(r) = <<"redacted", s>> /\ Target(r) = <<"redacted-archive", s>>

Shaped(r) == CreateShape(r) \/ RedactShape(r) \/ ArchiveShape(r)

\* The run of a copy that has made its target, and the target is still there.
Made(r) ==
    /\ runs[r].kind # "create"
    /\ runs[r].pc \in {"copy", "rewrite", "sums", "verify", "cleanup", "add", "test", "done"}

Owned ==
    /\ \A r \in Runs : Made(r) => Exists(Target(r))
    /\ \A q, r \in Runs : Made(q) /\ Made(r) /\ Target(q) = Target(r) => q = r

(* What the directories hold.                                              *)

\* The checksums are of one run's files, none or all of them masked, or there are none.
OfOneRun(files) ==
    \E r \in Runs : \/ \A f \in Files : files[f] = Raw(r)
                    \/ \A f \in Files : files[f] = Masked(f, Raw(r))

SumsWhole(d) == d.sums = Missing \/ OfOneRun(d.sums)

\* The files of a directory that one run alone has written.
FilesOf(d, r) == \A f \in Files : d.files[f] # NoFile => d.files[f].of = r

\* A file in a hidden directory is its run's, one in a snapshot is of a run that is done.
FilesPlaced ==
    /\ \A r \in Runs : FilesOf(dirs[Partial(r)], r)
    /\ \A s \in Seconds, f \in Files :
          LET c == dirs[Snapshot(s)].files[f] IN c # NoFile => At(c.of, "done")

(* How far a run has come.                                                 *)

Creating(r) ==
    LET d == dirs[Partial(r)] IN
    /\ At(r, "write") =>
          /\ runs[r].todo \in (SUBSET Files) \ {{}}
          /\ \A f \in Files \ runs[r].todo : d.files[f] = Raw(r)
    /\ runs[r].pc \in {"sums", "verify"} => \A f \in Files : d.files[f] = Raw(r)
    /\ runs[r].pc \in {"check", "publish"} => Valid(d)
    /\ At(r, "done") /\ Target(r) \notin torn =>
          /\ Valid(dirs[Target(r)])
          /\ \A f \in Files : dirs[Target(r)].files[f].of = r

Redacting(r) ==
    LET from == dirs[Source(r)]
        to == dirs[Target(r)]
    IN  /\ from.there
        /\ runs[r].pc \in {"source", "absent", "mkdir"} => runs[r].todo = Entries
        /\ runs[r].pc \in {"absent", "mkdir", "copy", "rewrite", "sums", "verify"} => Valid(from)
        /\ At(r, "copy") => \A f \in Files \ runs[r].todo : to.files[f] = from.files[f]
        /\ At(r, "rewrite") =>
              /\ runs[r].todo \subseteq Files
              /\ \A f \in Files :
                    to.files[f] = IF f \in runs[r].todo THEN from.files[f]
                                  ELSE Masked(f, from.files[f])
        /\ runs[r].pc \in {"sums", "verify"} =>
              \A f \in Files : to.files[f] = Masked(f, from.files[f])
        /\ At(r, "done") /\ {Source(r), Target(r)} \cap torn = {} =>
              /\ Valid(to)
              /\ \A f \in Files : to.files[f] = Masked(f, from.files[f])

\* An archive of a snapshot.
Archiving(r) ==
    LET from == dirs[Source(r)]
        to == dirs[Target(r)]
    IN  /\ from.there
        /\ runs[r].pc \in {"source", "absent", "mkdir"} => runs[r].todo = Entries
        /\ At(r, "add") =>
              /\ \A f \in Files \ runs[r].todo : to.files[f] = from.files[f]
              /\ "checksums" \notin runs[r].todo =>
                    to.sums = from.sums /\ to.summed = from.summed
        /\ At(r, "test") => to = from
        /\ At(r, "done") /\ {Source(r), Target(r)} \cap torn = {} => to = from

Progress(r) ==
    /\ runs[r].kind = "create" => Creating(r)
    /\ runs[r].kind = "redact" => Redacting(r)
    /\ runs[r].kind = "archive" /\ Source(r)[1] = "snapshot" => Archiving(r)

StoreInv ==
    /\ TypeOK
    /\ \A r \in Runs : Shaped(r)
    /\ Owned
    /\ \A n \in Names : SumsWhole(dirs[n])
    /\ FilesPlaced
    /\ \A r \in Runs : Progress(r)
-----------------------------------------------------------------------------
(* Names.                                                                  *)

LEMMA NamesDiffer ==
    /\ \A r \in Runs : Partial(r) \in Names /\ Partial(r)[1] = "partial"
    /\ \A s \in Seconds : Snapshot(s) \in Names /\ Snapshot(s)[1] = "snapshot"
    /\ \A q, r \in Runs : Partial(q) = Partial(r) => q = r
    /\ \A s \in Seconds :
          /\ <<"redacted", s>> \in Names /\ <<"archive", s>> \in Names
          /\ <<"redacted-archive", s>> \in Names
BY DEF Partial, Snapshot, Names

\* Where a run reads and writes, by its kind.
LEMMA ShapeFacts ==
    ASSUME NEW r \in Runs, Shaped(r)
    PROVE  /\ runs[r].kind = "create" =>
                 /\ Source(r) = Partial(r) /\ Work(r) = Partial(r) /\ ~Made(r)
                 /\ runs[r].pc # "idle" =>
                       Target(r)[1] = "snapshot" /\ \E s \in Seconds : Target(r) = Snapshot(s)
           /\ runs[r].kind # "create" =>
                 /\ Work(r) = Target(r)
                 /\ Target(r)[1] \in {"redacted", "archive", "redacted-archive"}
                 /\ Target(r) \in Names /\ Source(r) \in Names
           /\ runs[r].kind = "redact" => Source(r)[1] = "snapshot"
           /\ runs[r].pc = "idle" => runs[r].kind = "create"
BY DEF Shaped, CreateShape, RedactShape, ArchiveShape, Work, Made, Partial, Snapshot, Names,
       Ends, CreateSteps, RedactSteps, ArchiveSteps

\* What a run may have written in n.
Writes(r, n) ==
    /\ SumsWhole(dirs'[n])
    /\ \/ n = Partial(r) /\ runs'[r].kind = "create" /\ FilesOf(dirs'[n], r)
       \/ /\ n = Target(r) /\ ~Exists(n)
          /\ \/ runs[r].kind = "create" /\ At(r, "publish")
                /\ runs'[r].pc = "done" /\ FilesOf(dirs'[n], r)
             \/ runs[r].kind # "create"
       \/ n = Target(r) /\ Made(r)

\* A step of one run, which goes on as x.
RunStep(r, x) ==
    /\ runs' = [runs EXCEPT ![r] = x] /\ x \in Run
    /\ runs[r].pc \notin Ends
    /\ dirs' \in [Names -> Directory]
    /\ \A n \in Names : dirs'[n] = dirs[n] \/ Writes(r, n)
    /\ torn' = torn /\ faults' \in Nat

\* The run is where it should be, and owns a target it has made.
Arrives(r) ==
    /\ Shaped(r)' /\ Progress(r)'
    /\ Made(r)' => /\ Target(r)' = Target(r) /\ Exists(Target(r))'
                   /\ Made(r) \/ ~Exists(Target(r))

\* No step of a run writes a snapshot that is there.
LEMMA SnapshotsAreKept ==
    ASSUME StoreInv, NEW r \in Runs, NEW x, RunStep(r, x),
           NEW n \in Names, n[1] = "snapshot", Exists(n)
    PROVE  dirs'[n] = dirs[n]
<1> SUFFICES ASSUME Writes(r, n) PROVE FALSE
  BY DEF RunStep
<1>1. Shaped(r) /\ Partial(r)[1] = "partial"
  BY NamesDiffer DEF StoreInv
<1>2. n = Target(r) /\ Made(r)
  BY <1>1 DEF Writes
<1> QED BY <1>1, <1>2, ShapeFacts

\* A directory another run relies on is left alone.
LEMMA OthersStay ==
    ASSUME StoreInv, NEW r \in Runs, NEW x, RunStep(r, x), NEW q \in Runs, q # r
    PROVE  /\ dirs'[Partial(q)] = dirs[Partial(q)]
           /\ \A n \in Names : n[1] = "snapshot" /\ Exists(n) => dirs'[n] = dirs[n]
           /\ Made(q) => dirs'[Target(q)] = dirs[Target(q)]
<1>1. /\ Shaped(r) /\ Shaped(q) /\ Partial(q) \in Names /\ Partial(q) # Partial(r)
      /\ Partial(q)[1] = "partial" /\ Partial(r)[1] = "partial"
  BY NamesDiffer DEF StoreInv
<1>2. dirs'[Partial(q)] = dirs[Partial(q)]
  <2> SUFFICES ASSUME Writes(r, Partial(q)) PROVE FALSE
    BY <1>1 DEF RunStep
  <2>1. Partial(q) = Target(r) /\ (runs[r].kind # "create" \/ At(r, "publish"))
    BY <1>1, ShapeFacts DEF Writes
  <2> QED BY <1>1, <2>1, ShapeFacts DEF At
<1>3. \A n \in Names : n[1] = "snapshot" /\ Exists(n) => dirs'[n] = dirs[n]
  BY SnapshotsAreKept
<1>4. ASSUME Made(q) PROVE dirs'[Target(q)] = dirs[Target(q)]
  <2>1. /\ Target(q) \in Names /\ Exists(Target(q)) /\ Target(q)[1] # "partial"
    BY <1>1, <1>4, ShapeFacts DEF StoreInv, Owned, Made
  <2> SUFFICES ASSUME Writes(r, Target(q)) PROVE FALSE
    BY <2>1 DEF RunStep
  <2>2. Target(q) = Target(r) /\ Made(r)
    BY <1>1, <2>1 DEF Writes
  <2> QED BY <1>4, <2>2 DEF StoreInv, Owned
<1> QED BY <1>2, <1>3, <1>4

\* So another run has come as far as before.
LEMMA OthersProgress ==
    ASSUME StoreInv, NEW r \in Runs, NEW x, RunStep(r, x), NEW q \in Runs, q # r
    PROVE  /\ runs'[q] = runs[q]
           /\ Shaped(q)' /\ Progress(q)'
           /\ Made(q)' <=> Made(q)
           /\ Made(q) => Exists(Target(q))'
<1>1. runs'[q] = runs[q] /\ torn' = torn
  BY DEF RunStep, StoreInv, TypeOK
<1>2. /\ dirs'[Partial(q)] = dirs[Partial(q)]
      /\ \A n \in Names : n[1] = "snapshot" /\ Exists(n) => dirs'[n] = dirs[n]
      /\ Made(q) => dirs'[Target(q)] = dirs[Target(q)]
  BY OthersStay
<1>3. Shaped(q) /\ Progress(q) /\ (Made(q) => Exists(Target(q)))
  BY DEF StoreInv, Owned
<1>4. Shaped(q)'
  BY <1>1, <1>3
  DEF Shaped, CreateShape, RedactShape, ArchiveShape, Source, Target
<1>5. Source(q)' = Source(q) /\ Target(q)' = Target(q)
  BY <1>1 DEF Source, Target
<1>6. /\ Made(q)' <=> Made(q)
      /\ Made(q) => Exists(Target(q))'
  BY <1>1, <1>2, <1>3, <1>5 DEF Made, Exists
<1>7. CASE runs[q].kind = "create"
  <2>1. Creating(q)
    BY <1>3, <1>7 DEF Progress
  <2>2. ASSUME At(q, "done"), Target(q) \notin torn
        PROVE  dirs'[Target(q)] = dirs[Target(q)]
    <3>1. Target(q) \in Names /\ Target(q)[1] = "snapshot" /\ Exists(Target(q))
      BY <1>3, <1>7, <2>1, <2>2, ShapeFacts, NamesDiffer
      DEF At, Creating, Valid, Matches, Exists
    <3> QED BY <1>2, <3>1
  <2>3. At(q, "done")' <=> At(q, "done")
    BY <1>1 DEF At
  <2>4. At(q, "done")' /\ Target(q)' \notin torn' =>
          /\ Valid(dirs'[Target(q)])
          /\ \A f \in Files : dirs'[Target(q)].files[f].of = q
    BY <1>1, <1>5, <2>1, <2>2, <2>3 DEF Creating
  <2>5. Creating(q)'
    BY <1>1, <1>2, <1>5, <2>1, <2>4 DEF Creating, At
  <2> QED BY <1>1, <1>4, <1>6, <1>7, <2>5 DEF Progress
<1>8. CASE runs[q].kind = "redact"
  <2>1. Redacting(q) /\ Source(q) \in Names /\ Source(q)[1] = "snapshot"
    BY <1>3, <1>8, ShapeFacts DEF Progress
  <2>2. dirs'[Source(q)] = dirs[Source(q)]
    BY <1>2, <2>1 DEF Redacting, Exists
  <2>3. Redacting(q)'
    BY <1>1, <1>2, <1>5, <1>8, <2>1, <2>2 DEF Redacting, At, Made
  <2> QED BY <1>1, <1>4, <1>6, <1>8, <2>3 DEF Progress
<1>9. CASE runs[q].kind = "archive" /\ Source(q)[1] = "snapshot"
  <2>1. Archiving(q) /\ Source(q) \in Names
    BY <1>3, <1>9, ShapeFacts DEF Progress
  <2>2. dirs'[Source(q)] = dirs[Source(q)]
    BY <1>2, <1>9, <2>1 DEF Archiving, Exists
  <2>3. Archiving(q)'
    BY <1>1, <1>2, <1>5, <1>9, <2>1, <2>2 DEF Archiving, At, Made
  <2> QED BY <1>1, <1>4, <1>6, <1>9, <2>3 DEF Progress
<1>10. CASE runs[q].kind = "archive" /\ Source(q)[1] # "snapshot"
  BY <1>1, <1>4, <1>5, <1>6, <1>10 DEF Progress
<1> QED BY <1>7, <1>8, <1>9, <1>10, <1>3 DEF Shaped, CreateShape, RedactShape, ArchiveShape

\* A step of one run preserves everything, if the run itself comes as far as it should.
LEMMA StepPreserves ==
    ASSUME StoreInv, NEW r \in Runs, NEW x, RunStep(r, x), Arrives(r)
    PROVE  StoreInv'
<1>0. /\ Shaped(r)' /\ Progress(r)'
      /\ Made(r)' => /\ Target(r)' = Target(r) /\ Exists(Target(r))'
                     /\ Made(r) \/ ~Exists(Target(r))
  BY DEF Arrives
<1>1. TypeOK'
  BY DEF StoreInv, TypeOK, RunStep
<1>2. \A q \in Runs : Shaped(q)' /\ Progress(q)'
  BY <1>0, OthersProgress
<1>3. \A n \in Names : SumsWhole(dirs'[n])
  BY DEF RunStep, Writes, StoreInv
<1>4. Owned'
  <2>1. \A q \in Runs : Made(q)' => Exists(Target(q))'
    BY <1>0, OthersProgress DEF Target
  <2>2. ASSUME NEW q \in Runs, q # r, Made(q)', Made(r)' PROVE Target(q)' # Target(r)'
    <3>1. Made(q) /\ Target(q)' = Target(q) /\ Exists(Target(q))
      BY <2>2, OthersProgress DEF Target, StoreInv, Owned
    <3> QED BY <1>0, <2>2, <3>1 DEF StoreInv, Owned
  <2>3. ASSUME NEW p \in Runs, NEW q \in Runs, Made(p)', Made(q)', Target(p)' = Target(q)'
        PROVE  p = q
    <3>1. CASE p = r \/ q = r
      BY <2>2, <2>3, <3>1
    <3>2. CASE p # r /\ q # r
      <4>1. /\ Made(p) /\ Made(q) /\ Target(p)' = Target(p) /\ Target(q)' = Target(q)
        BY <2>3, <3>2, OthersProgress DEF Target
      <4> QED BY <2>3, <4>1 DEF StoreInv, Owned
    <3> QED BY <3>1, <3>2
  <2> QED BY <2>1, <2>3 DEF Owned
<1>5. FilesPlaced'
  <2>1. ASSUME NEW q \in Runs PROVE FilesOf(dirs'[Partial(q)], q)
    <3>1. CASE q # r
      BY <3>1, OthersStay DEF StoreInv, FilesPlaced
    <3>2. CASE q = r
      <4>1. Partial(r) \in Names /\ Shaped(r) /\ Partial(r)[1] = "partial"
        BY NamesDiffer DEF StoreInv
      <4>2. CASE dirs'[Partial(r)] = dirs[Partial(r)]
        BY <3>2, <4>2 DEF StoreInv, FilesPlaced
      <4>3. CASE Writes(r, Partial(r))
        <5>1. Made(r) => Partial(r) # Target(r)
          BY <4>1, ShapeFacts DEF Made
        <5>2. runs[r].kind # "create" => Partial(r) # Target(r)
          BY <4>1, ShapeFacts
        <5> QED BY <3>2, <4>3, <5>1, <5>2 DEF Writes
      <4> QED BY <4>1, <4>2, <4>3 DEF RunStep
    <3> QED BY <3>1, <3>2
  <2>2. ASSUME NEW s \in Seconds, NEW f \in Files, dirs'[Snapshot(s)].files[f] # NoFile
        PROVE  runs'[dirs'[Snapshot(s)].files[f].of].pc = "done"
    <3>1. /\ Snapshot(s) \in Names /\ Snapshot(s)[1] = "snapshot"
          /\ Partial(r)[1] = "partial" /\ Shaped(r)
      BY NamesDiffer DEF StoreInv
    <3>2. CASE dirs'[Snapshot(s)] = dirs[Snapshot(s)]
      <4> DEFINE q == dirs[Snapshot(s)].files[f].of
      <4>1. At(q, "done")
        BY <2>2, <3>2 DEF StoreInv, FilesPlaced
      <4>2. q \in Runs
        BY <2>2, <3>1, <3>2 DEF StoreInv, TypeOK, Directory, Content
      <4>3. q # r
        BY <4>1 DEF RunStep, At, Ends
      <4> QED BY <3>2, <4>1, <4>2, <4>3, OthersProgress DEF At
    <3>3. CASE Writes(r, Snapshot(s))
      <4>1. runs[r].kind # "create" => Snapshot(s) # Target(r)
        BY <3>1, ShapeFacts
      <4>2. Made(r) => runs[r].kind # "create"
        BY DEF Made
      <4>3. runs'[r].pc = "done" /\ FilesOf(dirs'[Snapshot(s)], r)
        BY <3>1, <3>3, <4>1, <4>2 DEF Writes
      <4> QED BY <2>2, <4>3 DEF FilesOf
    <3> QED BY <3>1, <3>2, <3>3 DEF RunStep
  <2> QED BY <2>1, <2>2 DEF FilesPlaced, At
<1> QED BY <1>1, <1>2, <1>3, <1>4, <1>5 DEF StoreInv
-----------------------------------------------------------------------------
(* Steps that leave the directories alone.                                 *)

LEMMA RunFacts ==
    ASSUME StoreInv, NEW r \in Runs
    PROVE  /\ runs \in [Runs -> Run] /\ runs[r] \in Run
           /\ dirs \in [Names -> Directory] /\ faults \in Nat
           /\ Shaped(r) /\ Progress(r)
           /\ Source(r) \in Names /\ Target(r) \in Names
           /\ dirs[Source(r)] \in Directory /\ dirs[Target(r)] \in Directory
           /\ SumsWhole(dirs[Source(r)]) /\ SumsWhole(dirs[Target(r)])
           /\ Partial(r) \in Names /\ dirs[Partial(r)] \in Directory
           /\ SumsWhole(dirs[Partial(r)]) /\ FilesOf(dirs[Partial(r)], r)
           /\ Made(r) => Exists(Target(r))
<1>1. runs[r] \in Run
  BY DEF StoreInv, TypeOK
<1>2. Source(r) \in Names /\ Target(r) \in Names /\ Partial(r) \in Names
  BY <1>1, NamesDiffer DEF Run, Source, Target
<1> QED BY <1>1, <1>2 DEF StoreInv, TypeOK, FilesPlaced, Owned

\* A run that only goes on.
LEMMA GotoFacts ==
    ASSUME StoreInv, NEW r \in Runs, NEW pc \in Steps, Goto(r, pc)
    PROVE  /\ runs' = [runs EXCEPT ![r] = [runs[r] EXCEPT !.pc = pc]]
           /\ [runs[r] EXCEPT !.pc = pc] \in Run
           /\ Source(r)' = Source(r) /\ Target(r)' = Target(r)
           /\ runs'[r].pc = pc /\ runs'[r].kind = runs[r].kind
           /\ runs'[r].todo = runs[r].todo
           /\ CreateShape(r) /\ pc \in CreateSteps \cup {"cleanup"} \cup Ends
                 /\ runs[r].pc # "idle" => Shaped(r)'
           /\ RedactShape(r) /\ pc \in RedactSteps \cup {"cleanup"} \cup Ends => Shaped(r)'
           /\ ArchiveShape(r) /\ pc \in ArchiveSteps \cup {"mkdir"} \cup Ends => Shaped(r)'
<1> DEFINE x == [runs[r] EXCEPT !.pc = pc]
<1>1. /\ runs[r] \in Run /\ runs \in [Runs -> Run]
  BY RunFacts
<1>2. /\ x \in Run /\ x.pc = pc /\ x.kind = runs[r].kind /\ x.todo = runs[r].todo
      /\ x.source = runs[r].source /\ x.target = runs[r].target
  BY <1>1 DEF Run
<1>3. runs' = [runs EXCEPT ![r] = x]
  BY DEF Goto
<1> HIDE DEF x
<1>4. runs'[r] = x
  BY <1>1, <1>3
<1>5. Source(r)' = Source(r) /\ Target(r)' = Target(r)
  BY <1>2, <1>4 DEF Source, Target
<1> QED BY <1>2, <1>3, <1>4, <1>5 DEF x, Shaped, CreateShape, RedactShape, ArchiveShape

\* Nothing is written.
LEMMA QuietStep ==
    ASSUME StoreInv, NEW r \in Runs, NEW x \in Run, runs' = [runs EXCEPT ![r] = x],
           runs[r].pc \notin Ends, UNCHANGED <<dirs, torn>>, faults' \in Nat,
           Shaped(r)', Progress(r)',
           Made(r)' => Made(r) /\ Target(r)' = Target(r)
    PROVE  RunStep(r, x) /\ Arrives(r)
<1>1. RunStep(r, x)
  BY RunFacts DEF RunStep
<1>2. Made(r)' => Exists(Target(r))' /\ Made(r)
  BY RunFacts DEF Exists
<1> QED BY <1>1, <1>2 DEF Arrives

Advances(r) == \E x : RunStep(r, x) /\ Arrives(r)

\* The run goes on and nothing is written.
LEMMA QuietGoto ==
    ASSUME StoreInv, NEW r \in Runs, NEW pc \in Steps, Goto(r, pc),
           runs[r].pc \notin Ends, UNCHANGED <<dirs, torn>>, faults' \in Nat,
           Shaped(r)', Progress(r)',
           pc \in {"copy", "rewrite", "sums", "verify", "cleanup", "add", "test", "done"} =>
              Made(r) \/ runs[r].kind = "create"
    PROVE  Advances(r)
<1>1. /\ runs' = [runs EXCEPT ![r] = [runs[r] EXCEPT !.pc = pc]]
      /\ [runs[r] EXCEPT !.pc = pc] \in Run
      /\ Target(r)' = Target(r) /\ runs'[r].pc = pc /\ runs'[r].kind = runs[r].kind
  BY GotoFacts
<1>2. Made(r)' => Made(r)
  BY <1>1 DEF Made
<1> QED BY <1>1, <1>2, QuietStep DEF Advances

\* The steps of each kind of run.
LEMMA KindOf ==
    ASSUME NEW r \in Runs, Shaped(r)
    PROVE  /\ runs[r].pc \in {"write", "check", "publish"} => CreateShape(r)
           /\ runs[r].pc \in {"copy", "rewrite"} => RedactShape(r)
           /\ runs[r].pc \in {"add", "test"} => ArchiveShape(r)
           /\ runs[r].pc \in {"sums", "verify", "cleanup"} => CreateShape(r) \/ RedactShape(r)
           /\ runs[r].pc \in {"source", "absent", "mkdir"} => RedactShape(r) \/ ArchiveShape(r)
BY DEF Shaped, CreateShape, RedactShape, ArchiveShape, CreateSteps, RedactSteps, ArchiveSteps,
       Ends, At

LEMMA VerifyAdvances == ASSUME StoreInv, NEW r \in Runs, Verify(r) PROVE Advances(r)
<1>1. /\ At(r, "verify") /\ dirs' = dirs /\ torn' = torn /\ faults' = faults
      /\ Shaped(r) /\ Progress(r) /\ faults \in Nat
  BY RunFacts DEF Verify, UnchangedWorld
<1>2. CASE CreateShape(r)
  <2>1. PICK pc \in {"cleanup", "check"} :
            Goto(r, pc) /\ (pc = "check" => Valid(dirs[Partial(r)]))
    BY <1>2 DEF Verify, CreateShape, Work, Source
  <2>2. /\ Shaped(r)' /\ runs'[r].pc = pc /\ runs'[r].kind = "create"
        /\ Target(r)' = Target(r)
    BY <1>1, <1>2, <2>1, GotoFacts DEF At, Steps, CreateSteps, Ends, CreateShape
  <2>3. Progress(r)'
    BY <1>1, <2>1, <2>2 DEF Progress, Creating, At
  <2> QED BY <1>1, <1>2, <2>1, <2>2, <2>3, QuietGoto DEF At, Steps, CreateSteps, Ends, CreateShape
<1>3. CASE RedactShape(r)
  <2>1. PICK pc \in {"cleanup", "done"} :
            Goto(r, pc) /\ (pc = "done" => Valid(dirs[Target(r)]))
    BY <1>3 DEF Verify, RedactShape, Work
  <2>2. /\ Shaped(r)' /\ runs'[r].pc = pc /\ runs'[r].kind = "redact"
        /\ Target(r)' = Target(r) /\ Source(r)' = Source(r)
    BY <1>3, <2>1, GotoFacts DEF Steps, Ends, RedactShape
  <2>3. Redacting(r)
    BY <1>1, <1>3 DEF Progress, RedactShape
  <2>4. Progress(r)'
    BY <1>1, <2>1, <2>2, <2>3 DEF Progress, Redacting, At
  <2>5. Made(r)
    BY <1>1, <1>3 DEF Made, At, RedactShape
  <2> QED BY <1>1, <1>3, <2>1, <2>2, <2>4, <2>5, QuietGoto DEF At, Steps, Ends
<1> QED BY <1>1, <1>2, <1>3, KindOf DEF At

\* A create that keeps its directory aside for later, or gives up.
LEMMA CheckAdvances == ASSUME StoreInv, NEW r \in Runs, CheckFinal(r) PROVE Advances(r)
<1>1. /\ At(r, "check") /\ dirs' = dirs /\ torn' = torn /\ faults' = faults
      /\ Shaped(r) /\ Progress(r) /\ faults \in Nat
  BY RunFacts DEF CheckFinal, UnchangedWorld
<1>2. CreateShape(r) /\ Creating(r)
  BY <1>1, KindOf DEF At, Progress, CreateShape
<1>3. PICK pc \in {"cleanup", "publish"} : Goto(r, pc)
  BY DEF CheckFinal
<1>4. Shaped(r)' /\ runs'[r].pc = pc /\ runs'[r].kind = "create"
  BY <1>1, <1>2, <1>3, GotoFacts DEF At, Steps, CreateSteps, Ends, CreateShape
<1>5. Progress(r)'
  BY <1>1, <1>2, <1>4 DEF Progress, Creating, At
<1> QED BY <1>1, <1>2, <1>3, <1>4, <1>5, QuietGoto DEF At, Steps, CreateSteps, Ends, CreateShape

LEMMA RaiseAdvances == ASSUME StoreInv, NEW r \in Runs, Raise(r) PROVE Advances(r)
<1>1. /\ runs[r].pc \in {"write", "sums", "verify", "check", "publish", "rewrite"}
      /\ Goto(r, "cleanup")
      /\ dirs' = dirs /\ torn' = torn /\ faults' = faults
      /\ Shaped(r) /\ Progress(r) /\ faults \in Nat
  BY RunFacts DEF Raise, UnchangedWorld, CreateSteps
<1>2. "cleanup" \in Steps /\ runs[r].pc \notin Ends /\ runs[r].pc # "idle"
  BY <1>1 DEF Steps, Ends
<1>3. CreateShape(r) \/ RedactShape(r)
  BY <1>1, KindOf
<1>4. /\ Shaped(r)' /\ runs'[r].pc = "cleanup" /\ runs'[r].kind = runs[r].kind
      /\ Source(r)' = Source(r) /\ Target(r)' = Target(r)
  BY <1>1, <1>2, <1>3, GotoFacts
<1>5. Progress(r)'
  <2>1. CASE CreateShape(r)
    BY <1>4, <2>1 DEF Progress, Creating, At, CreateShape
  <2>2. CASE RedactShape(r)
    BY <1>1, <1>4, <2>2 DEF Progress, Redacting, At, RedactShape
  <2> QED BY <1>3, <2>1, <2>2
<1>6. Made(r) \/ runs[r].kind = "create"
  BY <1>1, <1>3, KindOf DEF Made, RedactShape, CreateShape
<1> QED BY <1>1, <1>2, <1>4, <1>5, <1>6, QuietGoto

\* A copy that has not made its target goes on or gives up.
LEMMA CopyQuietAdvances ==
    ASSUME StoreInv, NEW r \in Runs, NEW pc \in {"absent", "mkdir", "failed"}, Goto(r, pc),
           \/ /\ runs[r].pc \in {"source", "absent", "mkdir"}
              /\ pc = "absent" => At(r, "source") /\ Valid(dirs[Source(r)])
              /\ pc = "mkdir" => At(r, "absent")
           \/ runs[r].pc \in {"copy", "add", "test"} /\ pc = "failed",
           UNCHANGED dirs, UnchangedWorld
    PROVE  Advances(r)
<1>1. /\ dirs' = dirs /\ torn' = torn /\ faults' = faults
      /\ Shaped(r) /\ Progress(r) /\ faults \in Nat
  BY RunFacts DEF UnchangedWorld
<1>2. pc \in Steps /\ runs[r].pc \notin Ends
  BY DEF Steps, Ends, RedactSteps
<1>3. RedactShape(r) \/ ArchiveShape(r)
  BY <1>1, KindOf DEF At
<1>4. /\ Shaped(r)' /\ runs'[r].pc = pc /\ runs'[r].kind = runs[r].kind
      /\ runs'[r].todo = runs[r].todo
      /\ Source(r)' = Source(r) /\ Target(r)' = Target(r)
  BY <1>2, <1>3, GotoFacts DEF RedactSteps, ArchiveSteps, Ends
<1>5. Progress(r)'
  <2>1. CASE RedactShape(r)
    <3>1. Redacting(r)
      BY <1>1, <2>1 DEF Progress, RedactShape
    <3> QED BY <1>1, <1>4, <2>1, <3>1 DEF Progress, Redacting, At, RedactShape
  <2>2. CASE ArchiveShape(r)
    BY <1>1, <1>4, <2>2 DEF Progress, Archiving, At, ArchiveShape
  <2> QED BY <1>3, <2>1, <2>2
<1> QED BY <1>1, <1>2, <1>4, <1>5, QuietGoto

\* A copy begins with a source that is there.
LEMMA BeginAdvances ==
    ASSUME StoreInv, NEW r \in Runs, NEW kind, NEW source, NEW target,
           Begin(r, kind, source, target), NEW s \in Seconds,
           \/ kind = "redact" /\ source = Snapshot(s) /\ target = <<"redacted", s>>
           \/ kind = "archive" /\ source = Snapshot(s) /\ target = <<"archive", s>>
           \/ kind = "archive" /\ source = <<"redacted", s>>
                 /\ target = <<"redacted-archive", s>>
    PROVE  Advances(r)
<1> DEFINE x == [kind |-> kind, pc |-> "source", source |-> source, target |-> target,
                 todo |-> Entries]
<1>1. /\ At(r, "idle") /\ Exists(source) /\ runs' = [runs EXCEPT ![r] = x]
      /\ dirs' = dirs /\ torn' = torn /\ faults' = faults /\ faults \in Nat
      /\ runs \in [Runs -> Run]
  BY RunFacts DEF Begin, UnchangedWorld
<1>2. x \in Run
  BY NamesDiffer DEF Run, Steps, RedactSteps, Entries
<1>3. /\ x.kind = kind /\ x.pc = "source" /\ x.source = source /\ x.target = target
      /\ x.todo = Entries
  OBVIOUS
<1> HIDE DEF x
<1>4. runs'[r] = x
  BY <1>1
<1>5. Shaped(r)'
  BY <1>3, <1>4
  DEF Shaped, RedactShape, ArchiveShape, Source, Target, RedactSteps, ArchiveSteps
<1>6. Progress(r)'
  BY <1>1, <1>3, <1>4
  DEF Progress, Redacting, Archiving, At, Source, Target, Exists
<1>7. ~Made(r)'
  BY <1>3, <1>4 DEF Made
<1> QED BY <1>1, <1>2, <1>5, <1>6, <1>7, QuietStep DEF Advances, At, Ends
-----------------------------------------------------------------------------
(* Steps that write one directory.                                         *)

\* A run that goes on as x and writes d in n.
WritesOne(r, x, n, d) ==
    /\ runs' = [runs EXCEPT ![r] = x] /\ x \in Run
    /\ runs[r].pc \notin Ends
    /\ dirs' = [dirs EXCEPT ![n] = d] /\ d \in Directory /\ SumsWhole(d)
    /\ torn' = torn /\ faults' \in Nat

LEMMA OneWrite ==
    ASSUME StoreInv, NEW r \in Runs, NEW x, NEW n \in Names, NEW d, WritesOne(r, x, n, d),
           \/ n = Partial(r) /\ x.kind = "create" /\ FilesOf(d, r)
           \/ n = Target(r) /\ runs[r].kind # "create" /\ (Made(r) \/ ~Exists(n))
    PROVE  RunStep(r, x) /\ dirs'[n] = d /\ runs'[r] = x
<1>1. /\ dirs'[n] = d /\ \A m \in Names : m # n => dirs'[m] = dirs[m]
      /\ runs'[r] = x /\ dirs' \in [Names -> Directory]
  BY RunFacts DEF WritesOne
<1>2. Writes(r, n)
  BY <1>1 DEF Writes, WritesOne
<1> QED BY <1>1, <1>2 DEF RunStep, WritesOne

LEMMA CreateAdvances ==
    ASSUME StoreInv, NEW r \in Runs, NEW s \in Seconds, Create(r, s) PROVE Advances(r)
<1> DEFINE x == [kind |-> "create", pc |-> "write", source |-> Partial(r),
                 target |-> Snapshot(s), todo |-> Files]
<1>1. /\ At(r, "idle") /\ runs' = [runs EXCEPT ![r] = x]
      /\ dirs' = [dirs EXCEPT ![Partial(r)] = Empty]
      /\ torn' = torn /\ faults' = faults /\ faults \in Nat /\ Partial(r) \in Names
  BY RunFacts DEF Create, UnchangedWorld
<1>2. x \in Run
  BY NamesDiffer DEF Run, Steps, CreateSteps
<1>3. Empty \in Directory /\ SumsWhole(Empty) /\ FilesOf(Empty, r)
  BY DEF Empty, NoDir, Missing, Directory, SumsWhole, FilesOf
<1>4. /\ x.kind = "create" /\ x.pc = "write" /\ x.source = Partial(r)
      /\ x.target = Snapshot(s) /\ x.todo = Files
  OBVIOUS
<1> HIDE DEF x
<1>5. WritesOne(r, x, Partial(r), Empty)
  BY <1>1, <1>2, <1>3 DEF WritesOne, At, Ends
<1>6. RunStep(r, x) /\ runs'[r] = x
  BY <1>1, <1>3, <1>4, <1>5, OneWrite
<1>7. Shaped(r)'
  BY <1>4, <1>6 DEF Shaped, CreateShape, Source, Target, CreateSteps
<1>8. Progress(r)'
  <2>1. Files # {}
    BY SomeAreNeeded, SensitiveAndNeededAreFiles
  <2> QED BY <1>4, <1>6, <2>1 DEF Progress, Creating, At
<1>9. ~Made(r)'
  BY <1>4, <1>6 DEF Made
<1> QED BY <1>6, <1>7, <1>8, <1>9 DEF Advances, Arrives

\* The file that is written next is one of the files.
LEMMA NextFile ==
    ASSUME NEW todo \in SUBSET Files, todo # {}
    PROVE  Order[Cardinality(Files) - Cardinality(todo) + 1] \in Files
<1>1. DOMAIN Order = 1..Len(Order) /\ Len(Order) \in Nat
  BY OrderIsSequence
<1>2. Order \in [1..Len(Order) -> Files]
  BY OrderIsSequence
<1>3. Order \in Surjection(1..Len(Order), Files)
  <2>1. \A f \in Files : \E i \in 1..Len(Order) : Order[i] = f
    BY <1>1 DEF Files
  <2> QED BY <1>2, <2>1, Fun_IsSurj
<1>4. IsFiniteSet(Files) /\ Cardinality(Files) <= Len(Order)
  <2>1. IsFiniteSet(1..Len(Order)) /\ Cardinality(1..Len(Order)) = Len(Order)
    <3>1. Len(Order) \in Int /\ 1 \in Int
      BY <1>1
    <3>2. /\ IsFiniteSet(1..Len(Order))
          /\ Cardinality(1..Len(Order)) = IF 1 > Len(Order) THEN 0 ELSE Len(Order)-1+1
      BY <3>1, FS_Interval
    <3> QED BY <1>1, <3>2
  <2>2. IsFiniteSet(Files) /\ Cardinality(Files) <= Cardinality(1..Len(Order))
    BY <1>3, <2>1, FS_Surjection
  <2> QED BY <2>1, <2>2
<1>5. IsFiniteSet(todo) /\ Cardinality(todo) <= Cardinality(Files)
  BY <1>4, FS_Subset
<1>6. Cardinality(todo) \in Nat /\ Cardinality(Files) \in Nat /\ Cardinality(todo) # 0
  BY <1>4, <1>5, FS_CardinalityType, FS_EmptySet
<1>7. Cardinality(Files) - Cardinality(todo) + 1 \in 1..Len(Order)
  BY <1>1, <1>4, <1>5, <1>6
<1> QED BY <1>2, <1>7

LEMMA WriteFileAdvances == ASSUME StoreInv, NEW r \in Runs, WriteFile(r) PROVE Advances(r)
<1> DEFINE f == Order[Cardinality(Files) - Cardinality(runs[r].todo) + 1]
           x == [runs[r] EXCEPT !.todo = @ \ {f},
                                !.pc = IF runs[r].todo = {f} THEN "sums" ELSE @]
           d == [dirs[Partial(r)] EXCEPT !.files[f] = Raw(r)]
<1>1. /\ At(r, "write") /\ torn' = torn /\ faults' = faults /\ faults \in Nat
      /\ Shaped(r) /\ Progress(r) /\ runs[r] \in Run /\ Partial(r) \in Names
      /\ dirs[Partial(r)] \in Directory
      /\ SumsWhole(dirs[Partial(r)]) /\ FilesOf(dirs[Partial(r)], r)
  BY RunFacts DEF WriteFile, UnchangedWorld
<1>2. CreateShape(r) /\ Creating(r) /\ Work(r) = Partial(r)
  BY <1>1, KindOf DEF At, Progress, CreateShape, Work, Source
<1>3. f \in Files
  BY <1>1, <1>2, NextFile DEF Creating
<1>4. runs' = [runs EXCEPT ![r] = x] /\ dirs' = [dirs EXCEPT ![Partial(r)] = d]
  BY <1>1, <1>2 DEF WriteFile, Did, Raw
<1>5. /\ x \in Run /\ x.kind = runs[r].kind /\ x.source = runs[r].source
      /\ x.target = runs[r].target /\ x.todo = runs[r].todo \ {f}
      /\ x.pc = IF runs[r].todo = {f} THEN "sums" ELSE "write"
  BY <1>1 DEF Run, At, Steps, CreateSteps
<1>6. /\ d \in Directory /\ d.sums = dirs[Partial(r)].sums
      /\ \A g \in Files : d.files[g] = IF g = f THEN Raw(r) ELSE dirs[Partial(r)].files[g]
  BY <1>1, <1>3 DEF Directory, Raw, Content
<1> HIDE DEF f, x, d
<1>7. SumsWhole(d) /\ FilesOf(d, r)
  BY <1>1, <1>6 DEF SumsWhole, FilesOf, Raw
<1>8. RunStep(r, x) /\ runs'[r] = x /\ dirs'[Partial(r)] = d
  <2>1. WritesOne(r, x, Partial(r), d)
    BY <1>1, <1>4, <1>5, <1>6, <1>7 DEF WritesOne, At, Ends
  <2> QED BY <1>1, <1>2, <1>5, <1>7, <2>1, OneWrite DEF CreateShape
<1>9. Shaped(r)'
  BY <1>1, <1>2, <1>5, <1>8
  DEF Shaped, CreateShape, Source, Target, CreateSteps, At
<1>10. Progress(r)'
  <2>1. \A g \in Files \ x.todo : d.files[g] = Raw(r)
    BY <1>1, <1>2, <1>5, <1>6 DEF Creating
  <2>2. x.pc = "write" => x.todo \in (SUBSET Files) \ {{}}
    BY <1>1, <1>2, <1>3, <1>5 DEF Creating
  <2>3. x.pc = "sums" => \A g \in Files : d.files[g] = Raw(r)
    BY <1>5, <2>1
  <2>4. Creating(r)'
    BY <1>5, <1>8, <2>1, <2>2, <2>3 DEF Creating, At
  <2> QED BY <1>2, <1>5, <1>8, <2>4 DEF Progress, CreateShape
<1>11. ~Made(r)'
  BY <1>2, <1>5, <1>8 DEF Made, CreateShape
<1> QED BY <1>8, <1>9, <1>10, <1>11 DEF Advances, Arrives

\* The files of a valid directory are of one run.
LEMMA ValidIsOfOneRun ==
    ASSUME NEW d, SumsWhole(d), Matches(d), Parses(d, Needed)
    PROVE  OfOneRun(d.files) /\ \A f \in Files : d.files[f] = d.sums[f]
<1>1. d.sums # Missing
  BY SomeAreNeeded, SensitiveAndNeededAreFiles DEF Matches, Parses, Missing
<1>2. PICK q \in Runs : \/ \A f \in Files : d.sums[f] = Raw(q)
                        \/ \A f \in Files : d.sums[f] = Masked(f, Raw(q))
  BY <1>1 DEF SumsWhole, OfOneRun
<1> QED BY <1>2 DEF Matches, OfOneRun

\* Masking twice is masking once.
LEMMA MaskedWhole ==
    ASSUME NEW files, OfOneRun(files), NEW masked,
           \A f \in Files : masked[f] = Masked(f, files[f])
    PROVE  OfOneRun(masked)
<1>1. \A f \in Files, q \in Runs : Masked(f, Masked(f, Raw(q))) = Masked(f, Raw(q))
  BY DEF Masked, Raw
<1> QED BY <1>1 DEF OfOneRun

LEMMA SumsAdvances == ASSUME StoreInv, NEW r \in Runs, WriteSums(r) PROVE Advances(r)
<1> DEFINE n == Work(r)
           x == [runs[r] EXCEPT !.pc = "verify"]
           d == [dirs[n] EXCEPT !.sums = dirs[n].files, !.summed = TRUE]
<1>1. /\ At(r, "sums") /\ Goto(r, "verify") /\ torn' = torn /\ faults' = faults
      /\ faults \in Nat /\ Shaped(r) /\ Progress(r) /\ runs[r] \in Run
      /\ Partial(r) \in Names /\ FilesOf(dirs[Partial(r)], r)
      /\ dirs \in [Names -> Directory] /\ Source(r) \in Names /\ Target(r) \in Names
      /\ SumsWhole(dirs[Source(r)])
  BY RunFacts DEF WriteSums, UnchangedWorld
<1>2. CreateShape(r) \/ RedactShape(r)
  BY <1>1, KindOf DEF At
<1>3. n \in Names /\ dirs[n] \in Directory
  BY <1>1 DEF Work
<1>4. dirs' = [dirs EXCEPT ![n] = d]
  BY <1>3 DEF WriteSums
<1>5. /\ d \in Directory /\ d.files = dirs[n].files /\ d.sums = dirs[n].files
      /\ d.there = dirs[n].there
  BY <1>3 DEF Directory
<1>6. OfOneRun(dirs[n].files)
  <2>1. CASE CreateShape(r)
    BY <1>1, <2>1 DEF Progress, Creating, CreateShape, Work, Source, At, OfOneRun
  <2>2. CASE RedactShape(r)
    <3>1. /\ Valid(dirs[Source(r)]) /\ n = Target(r)
          /\ \A f \in Files : dirs[n].files[f] = Masked(f, dirs[Source(r)].files[f])
      BY <1>1, <2>2 DEF Progress, Redacting, RedactShape, At, Work
    <3>2. OfOneRun(dirs[Source(r)].files)
      BY <1>1, <3>1, ValidIsOfOneRun, SensitiveAndNeededAreFiles DEF Valid, Parses
    <3> HIDE DEF n
    <3> QED BY <3>1, <3>2, MaskedWhole
  <2> QED BY <1>2, <2>1, <2>2
<1>7. /\ runs' = [runs EXCEPT ![r] = x] /\ x \in Run /\ Shaped(r)'
      /\ x.pc = "verify" /\ x.kind = runs[r].kind
      /\ Source(r)' = Source(r) /\ Target(r)' = Target(r)
  <2>1. "verify" \in Steps /\ runs[r].pc # "idle"
    BY <1>1 DEF Steps, CreateSteps, At
  <2>2. "verify" \in CreateSteps /\ "verify" \in RedactSteps
    BY DEF CreateSteps, RedactSteps
  <2>3. x.pc = "verify" /\ x.kind = runs[r].kind
    BY <1>1 DEF Run
  <2> HIDE DEF x
  <2> QED BY <1>1, <1>2, <2>1, <2>2, <2>3, GotoFacts DEF x
<1> HIDE DEF x, d
<1>8. WritesOne(r, x, n, d)
  BY <1>1, <1>4, <1>5, <1>6, <1>7 DEF WritesOne, SumsWhole, At, Ends
<1>9. CASE CreateShape(r)
  <2>1. n = Partial(r) /\ FilesOf(d, r)
    BY <1>1, <1>5, <1>9 DEF Work, CreateShape, Source, FilesOf
  <2>2. RunStep(r, x) /\ runs'[r] = x /\ dirs'[n] = d
    BY <1>3, <1>7, <1>8, <1>9, <2>1, OneWrite DEF CreateShape
  <2>3. Progress(r)'
    BY <1>1, <1>5, <1>7, <1>9, <2>1, <2>2 DEF Progress, Creating, CreateShape, At
  <2>4. ~Made(r)'
    BY <1>7, <1>9, <2>2 DEF Made, CreateShape
  <2> QED BY <1>7, <2>2, <2>3, <2>4 DEF Advances, Arrives
<1>10. CASE RedactShape(r)
  <2>1. n = Target(r) /\ Made(r) /\ Source(r) # n /\ runs[r].kind # "create"
    <3>1. runs[r].kind = "redact" /\ runs[r].pc = "sums"
      BY <1>1, <1>10 DEF RedactShape, At
    <3>2. Work(r) = Target(r) /\ Source(r) # Target(r) /\ Made(r)
      BY <1>1, <3>1, ShapeFacts DEF Made
    <3> QED BY <3>1, <3>2
  <2> HIDE DEF n
  <2>2. /\ RunStep(r, x) /\ runs'[r] = x /\ dirs'[n] = d
        /\ \A m \in Names : m # n => dirs'[m] = dirs[m]
    <3>1. n = Target(r) /\ runs[r].kind # "create" /\ (Made(r) \/ ~Exists(n))
      BY <2>1
    <3>2. RunStep(r, x) /\ runs'[r] = x /\ dirs'[n] = d
      BY <1>3, <1>8, <3>1, OneWrite
    <3>3. \A m \in Names : m # n => dirs'[m] = dirs[m]
      BY <1>1, <1>4, <1>3
    <3> QED BY <3>2, <3>3
  <2>3. dirs'[Source(r)] = dirs[Source(r)]
    BY <1>1, <2>1, <2>2
  <2>4. Progress(r)'
    BY <1>1, <1>5, <1>7, <1>10, <2>1, <2>2, <2>3 DEF Progress, Redacting, RedactShape, At
  <2>5. dirs'[Target(r)].there
    BY <1>5, <2>1, <2>2, RunFacts DEF Exists
  <2>6. Exists(Target(r))'
    BY <1>7, <2>5 DEF Exists
  <2> QED BY <1>7, <2>1, <2>2, <2>4, <2>6 DEF Advances, Arrives
<1> QED BY <1>2, <1>9, <1>10

\* A create goes on and writes d in its hidden directory.
LEMMA CreateWrites ==
    ASSUME StoreInv, NEW r \in Runs, NEW x, NEW d, WritesOne(r, x, Partial(r), d),
           CreateShape(r), x.kind = runs[r].kind, x.source = runs[r].source,
           x.target = runs[r].target, x.pc \in CreateSteps \cup {"cleanup"} \cup Ends,
           runs[r].pc # "idle", FilesOf(d, r),
           runs'[r] = x /\ dirs'[Partial(r)] = d => Progress(r)'
    PROVE  Advances(r)
<1>1. RunStep(r, x) /\ dirs'[Partial(r)] = d /\ runs'[r] = x
  BY RunFacts, OneWrite DEF CreateShape
<1>2. Shaped(r)' /\ ~Made(r)'
  BY <1>1 DEF Shaped, CreateShape, Source, Target, Made
<1> QED BY <1>1, <1>2 DEF Advances, Arrives

\* A copy goes on and writes d as its target.
LEMMA CopyWrites ==
    ASSUME StoreInv, NEW r \in Runs, NEW x, NEW d, WritesOne(r, x, Target(r), d),
           runs[r].kind # "create", x.kind = runs[r].kind, x.source = runs[r].source,
           x.target = runs[r].target, Made(r) \/ ~Exists(Target(r))
    PROVE  /\ RunStep(r, x) /\ dirs'[Target(r)] = d /\ runs'[r] = x
           /\ Source(r)' = Source(r) /\ Target(r)' = Target(r)
           /\ dirs'[Source(r)] = dirs[Source(r)]
<1>1. RunStep(r, x) /\ dirs'[Target(r)] = d /\ runs'[r] = x
  BY RunFacts, OneWrite
<1>2. Source(r)' = Source(r) /\ Target(r)' = Target(r)
  BY <1>1 DEF Source, Target
<1>3. Source(r) # Target(r)
  BY RunFacts DEF Shaped, CreateShape, RedactShape, ArchiveShape, Snapshot
<1>4. dirs'[Source(r)] = dirs[Source(r)]
  BY <1>3, RunFacts DEF WritesOne
<1> QED BY <1>1, <1>2, <1>4

\* It is where it should be if the target is there while the run has need of it.
LEMMA CopyArrives ==
    ASSUME StoreInv, NEW r \in Runs, NEW x, NEW d, WritesOne(r, x, Target(r), d),
           \/ RedactShape(r) /\ x.pc \in RedactSteps \cup {"cleanup"} \cup Ends
           \/ ArchiveShape(r) /\ x.pc \in ArchiveSteps \cup {"mkdir"} \cup Ends,
           x.kind = runs[r].kind, x.source = runs[r].source,
           x.target = runs[r].target, Made(r) \/ ~Exists(Target(r)),
           d.there \/ x.pc \in {"failed", "died"}, Progress(r)'
    PROVE  Advances(r)
<1>1. runs[r].kind # "create"
  BY DEF RedactShape, ArchiveShape
<1>2. /\ RunStep(r, x) /\ dirs'[Target(r)] = d /\ runs'[r] = x
      /\ Source(r)' = Source(r) /\ Target(r)' = Target(r)
  BY <1>1, CopyWrites
<1>3. Shaped(r)'
  BY <1>2 DEF Shaped, RedactShape, ArchiveShape
<1>4. dirs'[Target(r)'].there \/ ~Made(r)'
  BY <1>2 DEF Made
<1>5. Made(r)' => Exists(Target(r))'
  BY <1>4 DEF Exists
<1> QED BY <1>2, <1>3, <1>5 DEF Advances, Arrives

\* The rename shows what the create has written, all of it.
LEMMA PublishAdvances == ASSUME StoreInv, NEW r \in Runs, Publish(r) PROVE Advances(r)
<1>1. /\ At(r, "publish") /\ torn' = torn /\ faults' = faults
      /\ faults \in Nat /\ Shaped(r) /\ Progress(r) /\ runs[r] \in Run
      /\ runs \in [Runs -> Run] /\ dirs \in [Names -> Directory]
      /\ Partial(r) \in Names /\ dirs[Partial(r)] \in Directory
      /\ FilesOf(dirs[Partial(r)], r) /\ SumsWhole(dirs[Partial(r)])
  BY RunFacts DEF Publish, UnchangedWorld
<1>2. CreateShape(r) /\ Creating(r) /\ Source(r) = Partial(r)
  BY <1>1, KindOf DEF At, Progress, CreateShape
<1>3. PICK s \in Seconds : Target(r) = Snapshot(s)
  BY <1>1, <1>2 DEF CreateShape, At
<1>4. Target(r) \in Names /\ Target(r) # Partial(r)
  BY <1>3, NamesDiffer
<1>5. "publish" \notin Ends /\ "cleanup" \in Steps /\ "done" \in Steps
  BY DEF Ends, Steps
<1>6. CASE Exists(Target(r))
  <2>1. Goto(r, "cleanup") /\ dirs' = dirs
    BY <1>6, <1>1 DEF Publish
  <2>2. Shaped(r)' /\ runs'[r].pc = "cleanup" /\ runs'[r].kind = "create"
    BY <1>1, <1>2, <1>5, <2>1, GotoFacts DEF At, CreateShape
  <2>3. Progress(r)'
    BY <2>2 DEF Progress, Creating, At
  <2> QED BY <1>1, <1>2, <1>5, <2>1, <2>2, <2>3, QuietGoto DEF At, CreateShape
<1>7. CASE ~Exists(Target(r))
  <2> DEFINE x == [runs[r] EXCEPT !.pc = "done"]
  <2>1. /\ Goto(r, "done")
        /\ dirs' = [dirs EXCEPT ![Target(r)] = dirs[Partial(r)], ![Partial(r)] = NoDir]
    BY <1>1, <1>2, <1>7 DEF Publish
  <2>2. NoDir \in Directory /\ SumsWhole(NoDir) /\ FilesOf(NoDir, r)
    BY DEF NoDir, Missing, Directory, SumsWhole, FilesOf
  <2>3. /\ dirs' \in [Names -> Directory]
        /\ dirs'[Target(r)] = dirs[Partial(r)] /\ dirs'[Partial(r)] = NoDir
    BY <1>1, <1>4, <2>1, <2>2
  <2>4. \A n \in Names : n = Target(r) \/ n = Partial(r) \/ dirs'[n] = dirs[n]
    BY <1>1, <2>1
  <2>5. /\ runs' = [runs EXCEPT ![r] = x] /\ x \in Run /\ Shaped(r)'
        /\ runs'[r].pc = "done" /\ runs'[r].kind = "create" /\ Target(r)' = Target(r)
    <3>1. "done" \in Ends /\ runs[r].pc # "idle" /\ runs[r].kind = "create"
      BY <1>1, <1>2 DEF Ends, At, CreateShape
    <3> QED BY <1>2, <1>5, <2>1, <3>1, GotoFacts
  <2> HIDE DEF x
  <2>6. Writes(r, Target(r)) /\ Writes(r, Partial(r))
    BY <1>1, <1>2, <1>7, <2>2, <2>3, <2>5 DEF Writes, CreateShape
  <2>7. RunStep(r, x)
    BY <1>1, <1>5, <2>3, <2>4, <2>5, <2>6 DEF RunStep, At
  <2>8. /\ Valid(dirs'[Target(r)])
        /\ \A f \in Files : dirs'[Target(r)].files[f].of = r
    BY <1>1, <1>2, <2>3 DEF Creating, At, Valid, Parses, FilesOf
  <2>9. Progress(r)'
    BY <2>5, <2>8 DEF Progress, Creating, At
  <2> QED BY <2>5, <2>7, <2>9 DEF Advances, Arrives, Made
<1> QED BY <1>6, <1>7

LEMMA BeginsAdvance ==
    ASSUME StoreInv, NEW r \in Runs, \E s \in Seconds : Redact(r, s) \/ Archive(r, s)
    PROVE  Advances(r)
BY BeginAdvances DEF Redact, Archive

\* A copy that makes nothing and stops, or goes on.
LEMMA CopyGoes ==
    ASSUME StoreInv, NEW r \in Runs, VerifySource(r) \/ CheckAbsent(r) \/ Stop(r)
    PROVE  Advances(r)
<1>1. CASE VerifySource(r)
  <2>1. PICK pc \in {"absent", "failed"} :
            Goto(r, pc) /\ (pc = "absent" => Valid(dirs[Source(r)]))
    BY <1>1 DEF VerifySource
  <2> QED BY <1>1, <2>1, CopyQuietAdvances DEF VerifySource, At
<1>2. CASE CheckAbsent(r)
  <2>1. PICK pc \in {"mkdir", "failed"} : Goto(r, pc)
    BY <1>2 DEF CheckAbsent
  <2> QED BY <1>2, <2>1, CopyQuietAdvances DEF CheckAbsent, At
<1>3. CASE Stop(r)
  BY <1>3, CopyQuietAdvances DEF Stop
<1> QED BY <1>1, <1>2, <1>3

LEMMA MakeTargetAdvances == ASSUME StoreInv, NEW r \in Runs, MakeTarget(r) PROVE Advances(r)
<1>1. /\ At(r, "mkdir") /\ torn' = torn /\ faults' = faults /\ faults \in Nat
      /\ Shaped(r) /\ Progress(r) /\ runs[r] \in Run
  BY RunFacts DEF MakeTarget, UnchangedWorld
<1>2. RedactShape(r) \/ ArchiveShape(r)
  BY <1>1, KindOf DEF At
<1>3. CASE Exists(Target(r))
  BY <1>1, <1>3, CopyQuietAdvances DEF MakeTarget, At
<1>4. CASE ~Exists(Target(r))
  <2> DEFINE pc == IF runs[r].kind = "redact" THEN "copy" ELSE "add"
             x == [runs[r] EXCEPT !.pc = pc]
  <2>1. dirs' = [dirs EXCEPT ![Target(r)] = Empty] /\ runs' = [runs EXCEPT ![r] = x]
    BY <1>4 DEF MakeTarget, Goto
  <2>2. Empty \in Directory /\ SumsWhole(Empty) /\ Empty.there
    BY DEF Empty, NoDir, Missing, Directory, SumsWhole
  <2>3. /\ x \in Run /\ x.kind = runs[r].kind /\ x.source = runs[r].source
        /\ x.target = runs[r].target /\ x.todo = runs[r].todo /\ x.pc = pc
    BY <1>1 DEF Run, Steps, RedactSteps, ArchiveSteps
  <2>4. RedactShape(r) => pc = "copy" /\ pc \in RedactSteps
    BY DEF RedactShape, RedactSteps
  <2>5. ArchiveShape(r) => pc = "add" /\ pc \in ArchiveSteps
    BY DEF ArchiveShape, ArchiveSteps
  <2> HIDE DEF x, pc
  <2>6. WritesOne(r, x, Target(r), Empty)
    BY <1>1, <2>1, <2>2, <2>3 DEF WritesOne, At, Ends
  <2>7. runs[r].kind # "create"
    BY <1>2 DEF RedactShape, ArchiveShape
  <2>8. /\ runs'[r] = x /\ dirs'[Target(r)] = Empty
        /\ Source(r)' = Source(r) /\ Target(r)' = Target(r)
        /\ dirs'[Source(r)] = dirs[Source(r)]
    BY <1>4, <2>3, <2>6, <2>7, CopyWrites
  <2>9. Files \ Entries = {} /\ "checksums" \in Entries
    BY DEF Entries
  <2>10. Progress(r)'
    <3>1. CASE RedactShape(r)
      <4>1. Redacting(r)
        BY <1>1, <3>1 DEF Progress, RedactShape
      <4>2. dirs[Source(r)].there /\ runs[r].todo = Entries /\ Valid(dirs[Source(r)])
        BY <1>1, <4>1 DEF Redacting, At
      <4> QED BY <2>3, <2>4, <2>8, <2>9, <3>1, <4>2 DEF Progress, Redacting, RedactShape, At
    <3>2. CASE ArchiveShape(r) /\ Source(r)[1] = "snapshot"
      <4>1. Archiving(r)
        BY <1>1, <3>2 DEF Progress, ArchiveShape
      <4>2. dirs[Source(r)].there /\ runs[r].todo = Entries
        BY <1>1, <4>1 DEF Archiving, At
      <4> QED BY <2>3, <2>5, <2>8, <2>9, <3>2, <4>2 DEF Progress, Archiving, ArchiveShape, At
    <3>3. CASE ArchiveShape(r) /\ Source(r)[1] # "snapshot"
      BY <2>3, <2>8, <3>3 DEF Progress, ArchiveShape
    <3> QED BY <1>2, <3>1, <3>2, <3>3
  <2> QED BY <1>2, <1>4, <2>2, <2>3, <2>4, <2>5, <2>6, <2>10, CopyArrives
<1> QED BY <1>3, <1>4
-----------------------------------------------------------------------------
(* Entries that are copied and masked.                                     *)

\* The target after one more entry is copied.
With(r, e) ==
    IF e = "checksums"
    THEN [dirs[Target(r)] EXCEPT !.sums = dirs[Source(r)].sums,
                                 !.summed = dirs[Source(r)].summed]
    ELSE [dirs[Target(r)] EXCEPT !.files[e] = dirs[Source(r)].files[e]]

\* It is the source's entry by then, and the others are as they were.
LEMMA CopiedFacts ==
    ASSUME StoreInv, NEW r \in Runs, NEW e \in Entries
    PROVE  /\ Copied(r, e) = [dirs EXCEPT ![Target(r)] = With(r, e)]
           /\ With(r, e) \in Directory /\ SumsWhole(With(r, e))
           /\ With(r, e).there = dirs[Target(r)].there
           /\ \A f \in Files : With(r, e).files[f] =
                 IF f = e THEN dirs[Source(r)].files[f] ELSE dirs[Target(r)].files[f]
           /\ IF e = "checksums"
              THEN /\ With(r, e).sums = dirs[Source(r)].sums
                   /\ With(r, e).summed = dirs[Source(r)].summed
              ELSE /\ With(r, e).sums = dirs[Target(r)].sums
                   /\ With(r, e).summed = dirs[Target(r)].summed
<1> DEFINE to == dirs[Target(r)]
           from == dirs[Source(r)]
<1>1. /\ dirs \in [Names -> Directory] /\ Target(r) \in Names
      /\ to \in Directory /\ from \in Directory /\ SumsWhole(to) /\ SumsWhole(from)
  BY RunFacts
<1>2. to = [there |-> to.there, files |-> to.files, sums |-> to.sums, summed |-> to.summed]
  BY <1>1 DEF Directory
<1>3. CASE e = "checksums"
  <2>1. With(r, e) = [there |-> to.there, files |-> to.files, sums |-> from.sums,
                      summed |-> from.summed]
    BY <1>2, <1>3 DEF With
  <2>2. Copied(r, e) = [dirs EXCEPT ![Target(r)] = With(r, e)]
    BY <1>1, <1>3 DEF Copied, With
  <2>3. \A f \in Files : f # e
    BY <1>3, ChecksumsAreNotListed
  <2> HIDE DEF to, from
  <2>4. With(r, e) \in Directory
    BY <1>1, <2>1 DEF Directory
  <2>5. SumsWhole(With(r, e))
    BY <1>1, <2>1 DEF SumsWhole
  <2> QED BY <1>3, <2>1, <2>2, <2>3, <2>4, <2>5 DEF to, from
<1>4. CASE e # "checksums"
  <2>1. e \in Files
    BY <1>4 DEF Entries
  <2>2. With(r, e) = [there |-> to.there, files |-> [to.files EXCEPT ![e] = from.files[e]],
                      sums |-> to.sums, summed |-> to.summed]
    BY <1>2, <1>4 DEF With
  <2>3. Copied(r, e) = [dirs EXCEPT ![Target(r)] = With(r, e)]
    BY <1>1, <1>4 DEF Copied, With
  <2> HIDE DEF to, from
  <2>4. /\ to.files \in [Files -> Content \cup {NoFile}]
        /\ from.files[e] \in Content \cup {NoFile}
    BY <1>1, <2>1 DEF Directory
  <2>5. With(r, e) \in Directory
    <3>1. [to.files EXCEPT ![e] = from.files[e]] \in [Files -> Content \cup {NoFile}]
      BY <2>4
    <3>2. /\ to.there \in BOOLEAN /\ to.summed \in BOOLEAN
          /\ to.sums \in [Files -> Content \cup {NoFile}]
      BY <1>1 DEF Directory
    <3> QED BY <2>2, <3>1, <3>2 DEF Directory
  <2>6. SumsWhole(With(r, e))
    BY <1>1, <2>2 DEF SumsWhole
  <2>7. \A f \in Files : With(r, e).files[f] = IF f = e THEN from.files[f] ELSE to.files[f]
    BY <2>2, <2>4
  <2> QED BY <1>4, <2>2, <2>3, <2>5, <2>6, <2>7 DEF to, from
<1> QED BY <1>3, <1>4

LEMMA CopyEntryAdvances == ASSUME StoreInv, NEW r \in Runs, CopyEntry(r) PROVE Advances(r)
<1>1. /\ At(r, "copy") /\ torn' = torn /\ faults' = faults /\ faults \in Nat
      /\ Shaped(r) /\ Progress(r) /\ runs[r] \in Run
      /\ Made(r) => Exists(Target(r))
  BY RunFacts DEF CopyEntry, UnchangedWorld
<1>2. /\ RedactShape(r) /\ Redacting(r) /\ Made(r) /\ runs[r].kind # "create"
      /\ dirs[Target(r)].there
  <2>1. RedactShape(r)
    BY <1>1, KindOf DEF At
  <2>2. runs[r].kind = "redact" /\ runs[r].pc = "copy"
    BY <1>1, <2>1 DEF RedactShape, At
  <2> QED BY <1>1, <2>1, <2>2 DEF Progress, Made, Exists
<1>3. PICK e \in runs[r].todo :
          /\ dirs' = Copied(r, e)
          /\ runs' = IF runs[r].todo = {e}
                     THEN [runs EXCEPT ![r].todo = Files, ![r].pc = "rewrite"]
                     ELSE [runs EXCEPT ![r].todo = @ \ {e}]
  BY DEF CopyEntry
<1> DEFINE x == IF runs[r].todo = {e}
                THEN [runs[r] EXCEPT !.todo = Files, !.pc = "rewrite"]
                ELSE [runs[r] EXCEPT !.todo = @ \ {e}]
           d == With(r, e)
           from == dirs[Source(r)]
<1>4. e \in Entries
  <2>1. runs[r].todo \in SUBSET (Files \cup {"checksums"})
    BY <1>1 DEF Run
  <2> QED BY <1>3, <2>1 DEF Entries
<1>5. /\ dirs' = [dirs EXCEPT ![Target(r)] = d] /\ d \in Directory /\ SumsWhole(d)
      /\ d.there
      /\ \A f \in Files : d.files[f] =
             IF f = e THEN from.files[f] ELSE dirs[Target(r)].files[f]
  BY <1>2, <1>3, <1>4, CopiedFacts
<1>6. runs' = [runs EXCEPT ![r] = x]
  BY <1>3
<1>7. /\ x \in Run /\ x.kind = runs[r].kind /\ x.source = runs[r].source
      /\ x.target = runs[r].target
      /\ IF runs[r].todo = {e} THEN x.pc = "rewrite" /\ x.todo = Files
         ELSE x.pc = "copy" /\ x.todo = runs[r].todo \ {e}
  <2>1. CASE runs[r].todo = {e}
    BY <1>1, <2>1 DEF Run, Steps, RedactSteps, At
  <2>2. CASE runs[r].todo # {e}
    BY <1>1, <2>2 DEF Run, At
  <2> QED BY <2>1, <2>2
<1> HIDE DEF x, d
<1>8. WritesOne(r, x, Target(r), d)
  BY <1>1, <1>5, <1>6, <1>7 DEF WritesOne, At, Ends
<1>9. /\ runs'[r] = x /\ dirs'[Target(r)] = d
      /\ Source(r)' = Source(r) /\ Target(r)' = Target(r)
      /\ dirs'[Source(r)] = from
  BY <1>2, <1>7, <1>8, CopyWrites
<1>10. /\ from.there /\ Valid(from)
       /\ \A f \in Files \ runs[r].todo : dirs[Target(r)].files[f] = from.files[f]
  BY <1>1, <1>2 DEF Redacting, At
<1> HIDE DEF from
<1>11. \A f \in Files : f \notin runs[r].todo \/ f = e => d.files[f] = from.files[f]
  BY <1>5, <1>10
<1>12. Redacting(r)'
  <2>1. CASE runs[r].todo = {e}
    BY <1>7, <1>9, <1>10, <1>11, <2>1 DEF Redacting, At
  <2>2. CASE runs[r].todo # {e}
    BY <1>7, <1>9, <1>10, <1>11, <2>2 DEF Redacting, At
  <2> QED BY <2>1, <2>2
<1>13. Progress(r)'
  BY <1>2, <1>7, <1>9, <1>12 DEF Progress, RedactShape
<1>14. x.pc \in RedactSteps
  BY <1>7 DEF RedactSteps
<1> QED BY <1>2, <1>5, <1>7, <1>8, <1>13, <1>14, CopyArrives

\* A run that has done one more entry.
LEMMA DidFacts ==
    ASSUME NEW r \in Runs, runs[r] \in Run, NEW e, NEW pc \in Steps, Did(r, e, pc)
    PROVE  \E x \in Run :
              /\ runs' = [runs EXCEPT ![r] = x] /\ x.kind = runs[r].kind
              /\ x.source = runs[r].source /\ x.target = runs[r].target
              /\ x.todo = runs[r].todo \ {e}
              /\ x.pc = IF runs[r].todo = {e} THEN pc ELSE runs[r].pc
<1> DEFINE x == [runs[r] EXCEPT !.todo = @ \ {e},
                                !.pc = IF runs[r].todo = {e} THEN pc ELSE @]
<1>1. runs' = [runs EXCEPT ![r] = x]
  BY DEF Did
<1>2. /\ x \in Run /\ x.kind = runs[r].kind
      /\ x.source = runs[r].source /\ x.target = runs[r].target
      /\ x.todo = runs[r].todo \ {e}
      /\ x.pc = IF runs[r].todo = {e} THEN pc ELSE runs[r].pc
  BY DEF Run
<1> QED BY <1>1, <1>2

\* Directories are equal if their files and their checksums are.
LEMMA SameDirectory ==
    ASSUME NEW c \in Directory, NEW d \in Directory, c.there = d.there,
           \A f \in Files : c.files[f] = d.files[f], c.sums = d.sums, c.summed = d.summed
    PROVE  c = d
<1>1. /\ c = [there |-> c.there, files |-> c.files, sums |-> c.sums, summed |-> c.summed]
      /\ d = [there |-> d.there, files |-> d.files, sums |-> d.sums, summed |-> d.summed]
  BY DEF Directory
<1>2. /\ c.files \in [Files -> Content \cup {NoFile}]
      /\ d.files \in [Files -> Content \cup {NoFile}]
  BY DEF Directory
<1>3. c.files = d.files
  BY <1>2
<1> QED BY <1>1, <1>3

LEMMA AddEntryAdvances == ASSUME StoreInv, NEW r \in Runs, AddEntry(r) PROVE Advances(r)
<1>1. /\ At(r, "add") /\ torn' = torn /\ faults' = faults /\ faults \in Nat
      /\ Shaped(r) /\ Progress(r) /\ runs[r] \in Run
      /\ Made(r) => Exists(Target(r))
      /\ dirs[Source(r)] \in Directory
  BY RunFacts DEF AddEntry, UnchangedWorld
<1>2. /\ ArchiveShape(r) /\ Made(r) /\ runs[r].kind # "create" /\ dirs[Target(r)].there
  <2>1. ArchiveShape(r)
    BY <1>1, KindOf DEF At
  <2>2. runs[r].kind = "archive" /\ runs[r].pc = "add"
    BY <1>1, <2>1 DEF ArchiveShape, At
  <2> QED BY <1>1, <2>1, <2>2 DEF Made, Exists
<1>3. PICK e \in runs[r].todo : dirs' = Copied(r, e) /\ Did(r, e, "test")
  BY DEF AddEntry
<1>4. PICK x \in Run :
          /\ runs' = [runs EXCEPT ![r] = x] /\ x.kind = runs[r].kind
          /\ x.source = runs[r].source /\ x.target = runs[r].target
          /\ x.todo = runs[r].todo \ {e}
          /\ x.pc = IF runs[r].todo = {e} THEN "test" ELSE "add"
  BY <1>1, <1>3, DidFacts DEF Steps, ArchiveSteps, At
<1> DEFINE d == With(r, e)
           from == dirs[Source(r)]
           to == dirs[Target(r)]
<1>5. e \in Entries
  <2>1. runs[r].todo \in SUBSET (Files \cup {"checksums"})
    BY <1>1 DEF Run
  <2> QED BY <1>3, <2>1 DEF Entries
<1>6. /\ dirs' = [dirs EXCEPT ![Target(r)] = d] /\ d \in Directory /\ SumsWhole(d)
      /\ d.there
      /\ \A f \in Files : d.files[f] = IF f = e THEN from.files[f] ELSE to.files[f]
      /\ IF e = "checksums" THEN d.sums = from.sums /\ d.summed = from.summed
         ELSE d.sums = to.sums /\ d.summed = to.summed
  BY <1>2, <1>3, <1>5, CopiedFacts
<1> HIDE DEF d
<1>7. WritesOne(r, x, Target(r), d)
  BY <1>1, <1>4, <1>6 DEF WritesOne, At, Ends
<1>8. /\ runs'[r] = x /\ dirs'[Target(r)] = d
      /\ Source(r)' = Source(r) /\ Target(r)' = Target(r)
      /\ dirs'[Source(r)] = from
  BY <1>2, <1>4, <1>7, CopyWrites
<1>9. from.there
  BY DEF AddEntry, Exists
<1>10. ASSUME Source(r)[1] = "snapshot" PROVE Archiving(r)'
  <2>1. /\ \A f \in Files \ runs[r].todo : to.files[f] = from.files[f]
        /\ "checksums" \notin runs[r].todo =>
              to.sums = from.sums /\ to.summed = from.summed
    BY <1>1, <1>2, <1>10 DEF Progress, Archiving, ArchiveShape, At
  <2>2. /\ \A f \in Files \ x.todo : d.files[f] = from.files[f]
        /\ "checksums" \notin x.todo => d.sums = from.sums /\ d.summed = from.summed
    <3> HIDE DEF from, to
    <3> QED BY <1>4, <1>6, <2>1
  <2>3. CASE runs[r].todo = {e}
    <3>1. x.todo = {}
      BY <1>4, <2>3
    <3>2. d = from
      <4> HIDE DEF from, to
      <4>1. from \in Directory
        BY <1>1 DEF from
      <4>2. d.there = from.there
        BY <1>6, <1>9, <4>1 DEF Directory
      <4>3. /\ \A f \in Files : d.files[f] = from.files[f]
            /\ d.sums = from.sums /\ d.summed = from.summed
        BY <2>2, <3>1
      <4> QED BY <1>6, <4>1, <4>2, <4>3, SameDirectory
    <3> HIDE DEF from
    <3> QED BY <1>4, <1>8, <1>9, <2>3, <3>2 DEF Archiving, At
  <2>4. CASE runs[r].todo # {e}
    <3> HIDE DEF from
    <3> QED BY <1>4, <1>8, <1>9, <2>2, <2>4 DEF Archiving, At
  <2> QED BY <2>3, <2>4
<1>11. Progress(r)'
  BY <1>2, <1>4, <1>8, <1>10 DEF Progress, ArchiveShape
<1>12. x.pc \in ArchiveSteps \cup Ends
  BY <1>4 DEF ArchiveSteps, Ends
<1> QED BY <1>2, <1>4, <1>6, <1>7, <1>11, <1>12, CopyArrives

\* An archive that passes the test is the snapshot, one that fails it is removed.
LEMMA TestArchiveAdvances ==
    ASSUME StoreInv, NEW r \in Runs, TestArchive(r) PROVE Advances(r)
<1>1. /\ At(r, "test") /\ torn' = torn /\ faults' = faults /\ faults \in Nat
      /\ Shaped(r) /\ Progress(r) /\ runs[r] \in Run /\ runs \in [Runs -> Run]
  BY RunFacts DEF TestArchive, UnchangedWorld
<1>2. /\ ArchiveShape(r) /\ Made(r) /\ runs[r].kind # "create"
      /\ "done" \in Steps /\ "failed" \in Steps
      /\ "done" \in Ends /\ "failed" \in Ends /\ "test" \notin Ends
  BY <1>1, KindOf DEF ArchiveShape, Made, At, Steps, Ends
<1>3. ASSUME Goto(r, "done"), dirs' = dirs PROVE Advances(r)
  <2>1. /\ Shaped(r)' /\ runs'[r].pc = "done" /\ runs'[r].kind = runs[r].kind
        /\ Source(r)' = Source(r) /\ Target(r)' = Target(r)
    BY <1>2, <1>3, GotoFacts
  <2>2. Progress(r)'
    BY <1>1, <1>2, <1>3, <2>1 DEF Progress, Archiving, ArchiveShape, At
  <2> QED BY <1>1, <1>2, <1>3, <2>1, <2>2, QuietGoto DEF At
<1>4. ASSUME Goto(r, "failed"), dirs' = [dirs EXCEPT ![Target(r)] = NoDir] PROVE Advances(r)
  <2> DEFINE x == [runs[r] EXCEPT !.pc = "failed"]
  <2>1. /\ runs' = [runs EXCEPT ![r] = x] /\ x \in Run /\ x.pc = "failed"
        /\ x.kind = runs[r].kind /\ x.source = runs[r].source /\ x.target = runs[r].target
    BY <1>1, <1>2, <1>4 DEF Goto, Run
  <2> HIDE DEF x
  <2>2. NoDir \in Directory /\ SumsWhole(NoDir)
    BY DEF NoDir, Missing, Directory, SumsWhole
  <2>3. WritesOne(r, x, Target(r), NoDir)
    BY <1>1, <1>2, <1>4, <2>1, <2>2 DEF WritesOne, At
  <2>4. /\ runs'[r] = x /\ Source(r)' = Source(r) /\ Target(r)' = Target(r)
        /\ dirs'[Source(r)] = dirs[Source(r)]
    BY <1>2, <2>1, <2>3, CopyWrites
  <2>5. Progress(r)'
    BY <1>1, <1>2, <2>1, <2>4 DEF Progress, Archiving, ArchiveShape, At
  <2> QED BY <1>2, <2>1, <2>3, <2>5, CopyArrives
<1> QED BY <1>3, <1>4 DEF TestArchive

LEMMA RewriteAdvances == ASSUME StoreInv, NEW r \in Runs, Rewrite(r) PROVE Advances(r)
<1>1. /\ At(r, "rewrite") /\ torn' = torn /\ faults' = faults /\ faults \in Nat
      /\ Shaped(r) /\ Progress(r) /\ runs[r] \in Run
      /\ Made(r) => Exists(Target(r))
      /\ dirs \in [Names -> Directory] /\ Target(r) \in Names
      /\ dirs[Source(r)] \in Directory /\ dirs[Target(r)] \in Directory
      /\ SumsWhole(dirs[Target(r)])
  BY RunFacts DEF Rewrite, UnchangedWorld
<1>2. /\ RedactShape(r) /\ Redacting(r) /\ Made(r) /\ runs[r].kind # "create"
      /\ dirs[Target(r)].there
  <2>1. RedactShape(r)
    BY <1>1, KindOf DEF At
  <2>2. runs[r].kind = "redact" /\ runs[r].pc = "rewrite"
    BY <1>1, <2>1 DEF RedactShape, At
  <2> QED BY <1>1, <2>1, <2>2 DEF Progress, Made, Exists
<1>3. PICK f \in runs[r].todo :
          /\ dirs' = [dirs EXCEPT ![Target(r)].files[f] = Masked(f, @)]
          /\ Did(r, f, "sums")
  BY DEF Rewrite
<1>4. PICK x \in Run :
          /\ runs' = [runs EXCEPT ![r] = x] /\ x.kind = runs[r].kind
          /\ x.source = runs[r].source /\ x.target = runs[r].target
          /\ x.todo = runs[r].todo \ {f}
          /\ x.pc = IF runs[r].todo = {f} THEN "sums" ELSE "rewrite"
  BY <1>1, <1>3, DidFacts DEF Steps, CreateSteps, At
<1> DEFINE from == dirs[Source(r)]
           to == dirs[Target(r)]
           c == Masked(f, to.files[f])
           d == [to EXCEPT !.files = [to.files EXCEPT ![f] = c]]
<1>5. /\ from.there /\ Valid(from) /\ runs[r].todo \subseteq Files /\ f \in Files
      /\ \A g \in Files : to.files[g] = IF g \in runs[r].todo THEN from.files[g]
                                         ELSE Masked(g, from.files[g])
  BY <1>1, <1>2, <1>3 DEF Redacting, At
<1>6. c = Masked(f, from.files[f]) /\ c \in Content
  <2>1. from.files[f] \in Content /\ to.files[f] = from.files[f]
    BY <1>1, <1>3, <1>5 DEF Valid, Parses, Directory
  <2> QED BY <2>1 DEF Masked, Content
<1>7. dirs' = [dirs EXCEPT ![Target(r)] = d]
  BY <1>1, <1>3
<1> HIDE DEF c, from
<1>8. /\ d \in Directory /\ d.there /\ d.sums = to.sums
      /\ \A g \in Files : d.files[g] = IF g = f THEN c ELSE to.files[g]
  <2>1. to.files \in [Files -> Content \cup {NoFile}]
    BY <1>1 DEF Directory
  <2>2. [to.files EXCEPT ![f] = c] \in [Files -> Content \cup {NoFile}]
    BY <1>6, <2>1
  <2>3. d \in Directory /\ d.there /\ d.sums = to.sums
    BY <1>1, <1>2, <2>2 DEF Directory
  <2>4. d.files = [to.files EXCEPT ![f] = c]
    BY <1>1 DEF Directory
  <2> QED BY <2>1, <2>3, <2>4
<1> HIDE DEF d
<1>9. SumsWhole(d)
  BY <1>1, <1>8 DEF SumsWhole
<1>10. WritesOne(r, x, Target(r), d)
  BY <1>1, <1>4, <1>7, <1>8, <1>9 DEF WritesOne, At, Ends
<1>11. /\ runs'[r] = x /\ dirs'[Target(r)] = d
       /\ Source(r)' = Source(r) /\ Target(r)' = Target(r)
       /\ dirs'[Source(r)] = from
  BY <1>2, <1>4, <1>10, CopyWrites DEF from
<1>12. \A g \in Files : d.files[g] = IF g \in x.todo THEN from.files[g]
                                     ELSE Masked(g, from.files[g])
  <2> HIDE DEF to
  <2> QED BY <1>3, <1>4, <1>5, <1>6, <1>8
<1>13. Redacting(r)'
  <2>1. CASE runs[r].todo = {f}
    <3>1. x.todo = {} /\ x.pc = "sums"
      BY <1>4, <2>1
    <3> QED BY <1>5, <1>11, <1>12, <3>1 DEF Redacting, At
  <2>2. CASE runs[r].todo # {f}
    <3>1. x.todo \subseteq Files /\ x.pc = "rewrite"
      BY <1>4, <1>5, <2>2
    <3> QED BY <1>5, <1>11, <1>12, <3>1 DEF Redacting, At
  <2> QED BY <2>1, <2>2
<1>14. Progress(r)'
  BY <1>2, <1>4, <1>11, <1>13 DEF Progress, RedactShape
<1>15. x.pc \in RedactSteps
  BY <1>4 DEF RedactSteps
<1> QED BY <1>2, <1>4, <1>8, <1>10, <1>14, <1>15, CopyArrives
-----------------------------------------------------------------------------
(* Faults.                                                                 *)

\* d holds no file that the directory n does not, and no other run's.
OnlyLoses(n, d) ==
    \A f \in Files : d.files[f] # NoFile =>
        dirs[n].files[f] # NoFile /\ d.files[f].of = dirs[n].files[f].of

\* Damage cuts files, and takes all the checksums or none.
LEMMA DamagedFacts ==
    ASSUME NEW n \in Names, dirs \in [Names -> Directory], SumsWhole(dirs[n]),
           NEW cut \in SUBSET Files, NEW emptied \in BOOLEAN
    PROVE  LET w == Damaged(dirs[n], cut, emptied)
           IN  w \in Directory /\ SumsWhole(w) /\ w.there = dirs[n].there /\ OnlyLoses(n, w)
<1> DEFINE d == dirs[n]
           files == [f \in Files |->
                        IF f \in cut /\ d.files[f] # NoFile
                        THEN [d.files[f] EXCEPT !.form = "cut"] ELSE d.files[f]]
           sums == IF emptied THEN Missing ELSE d.sums
           w == Damaged(d, cut, emptied)
<1>1. /\ d = [there |-> d.there, files |-> d.files, sums |-> d.sums, summed |-> d.summed]
      /\ d.there \in BOOLEAN /\ d.summed \in BOOLEAN
      /\ d.files \in [Files -> Content \cup {NoFile}]
      /\ d.sums \in [Files -> Content \cup {NoFile}]
  BY DEF Directory
<1> HIDE DEF d
<1>2. w = [there |-> d.there, files |-> files, sums |-> sums, summed |-> d.summed]
  <2>1. w = [d EXCEPT !.files = files, !.sums = sums]
    BY DEF Damaged
  <2> HIDE DEF files, sums, w
  <2> QED BY <1>1, <2>1
<1>3. ASSUME NEW f \in Files
      PROVE  /\ files[f] \in Content \cup {NoFile}
             /\ files[f] # NoFile => d.files[f] # NoFile /\ files[f].of = d.files[f].of
  <2>1. d.files[f] \in Content \cup {NoFile}
    BY <1>1
  <2>2. d.files[f] \in Content =>
          /\ [d.files[f] EXCEPT !.form = "cut"] \in Content
          /\ [d.files[f] EXCEPT !.form = "cut"].of = d.files[f].of
    BY DEF Content
  <2> QED BY <2>1, <2>2, NoFileHasNoContent
<1>4. files \in [Files -> Content \cup {NoFile}]
  BY <1>3
<1>5. sums \in [Files -> Content \cup {NoFile}] /\ (sums = Missing \/ OfOneRun(sums))
  BY <1>1 DEF Missing, SumsWhole, d
<1> HIDE DEF files, sums, w
<1>6. w \in Directory /\ SumsWhole(w)
  BY <1>1, <1>2, <1>4, <1>5 DEF Directory, SumsWhole
<1>7. w.there = d.there /\ w.files = files
  BY <1>2
<1>8. OnlyLoses(n, w)
  BY <1>3, <1>7 DEF OnlyLoses, d
<1> QED BY <1>6, <1>7, <1>8 DEF w, d

\* So does a removal that is not complete.
LEMMA RemainsFacts ==
    ASSUME NEW n \in Names, dirs \in [Names -> Directory], SumsWhole(dirs[n]),
           NEW gone \in SUBSET Files, NEW kept \in BOOLEAN
    PROVE  LET w == Remains(dirs[n], gone, kept)
           IN  w \in Directory /\ SumsWhole(w) /\ OnlyLoses(n, w)
<1> DEFINE d == dirs[n]
           files == [f \in Files |-> IF f \in gone THEN NoFile ELSE d.files[f]]
           sums == IF kept THEN d.sums ELSE Missing
           summed == kept /\ d.summed
           w == Remains(d, gone, kept)
<1>1. /\ d = [there |-> d.there, files |-> d.files, sums |-> d.sums, summed |-> d.summed]
      /\ d.there \in BOOLEAN /\ d.summed \in BOOLEAN
      /\ d.files \in [Files -> Content \cup {NoFile}]
      /\ d.sums \in [Files -> Content \cup {NoFile}]
  BY DEF Directory
<1> HIDE DEF d
<1>2. w = [there |-> d.there, files |-> files, sums |-> sums, summed |-> summed]
  <2>1. w = [d EXCEPT !.files = files, !.sums = sums, !.summed = summed]
    BY DEF Remains
  <2> HIDE DEF files, sums, summed, w
  <2> QED BY <1>1, <2>1
<1>3. files \in [Files -> Content \cup {NoFile}] /\ summed \in BOOLEAN
  BY <1>1
<1>4. sums \in [Files -> Content \cup {NoFile}] /\ (sums = Missing \/ OfOneRun(sums))
  BY <1>1 DEF Missing, SumsWhole, d
<1>5. \A f \in Files : files[f] # NoFile => files[f] = d.files[f]
  OBVIOUS
<1> HIDE DEF files, sums, summed, w
<1>6. w \in Directory /\ SumsWhole(w) /\ w.files = files
  BY <1>1, <1>2, <1>3, <1>4 DEF Directory, SumsWhole
<1>7. OnlyLoses(n, w)
  BY <1>5, <1>6 DEF OnlyLoses, d
<1> QED BY <1>6, <1>7 DEF w, d

LEMMA RemovedFacts ==
    ASSUME NEW n \in Names, dirs \in [Names -> Directory], SumsWhole(dirs[n]), Removed(n)
    PROVE  \E d \in Directory :
              dirs' = [dirs EXCEPT ![n] = d] /\ SumsWhole(d) /\ OnlyLoses(n, d)
<1>1. NoDir \in Directory /\ SumsWhole(NoDir) /\ OnlyLoses(n, NoDir)
  BY DEF NoDir, Missing, Directory, SumsWhole, OnlyLoses
<1>2. ASSUME NEW gone \in SUBSET Files, NEW kept \in BOOLEAN,
             dirs' = [dirs EXCEPT ![n] = Remains(@, gone, kept)]
      PROVE  \E d \in Directory :
                dirs' = [dirs EXCEPT ![n] = d] /\ SumsWhole(d) /\ OnlyLoses(n, d)
  <2>1. dirs' = [dirs EXCEPT ![n] = Remains(dirs[n], gone, kept)]
    BY <1>2
  <2> QED BY <2>1, RemainsFacts
<1> QED BY <1>1, <1>2 DEF Removed

\* A run that ends with d as what is left of its directory.
LEMMA GivesUp ==
    ASSUME StoreInv, NEW r \in Runs, NEW pc \in {"failed", "died"}, Goto(r, pc),
           runs[r].pc \in {"rewrite", "sums", "cleanup"}, torn' = torn, faults' \in Nat,
           NEW d \in Directory, dirs' = [dirs EXCEPT ![Work(r)] = d],
           SumsWhole(d), OnlyLoses(Work(r), d)
    PROVE  Advances(r)
<1> DEFINE x == [runs[r] EXCEPT !.pc = pc]
<1>1. /\ Shaped(r) /\ Progress(r) /\ runs[r] \in Run /\ FilesOf(dirs[Partial(r)], r)
      /\ pc \in Steps /\ pc \in Ends /\ runs[r].pc \notin Ends /\ runs[r].pc # "idle"
  BY RunFacts DEF Steps, Ends
<1>2. /\ runs' = [runs EXCEPT ![r] = x] /\ x \in Run /\ x.pc = pc
      /\ x.kind = runs[r].kind /\ x.source = runs[r].source /\ x.target = runs[r].target
  BY <1>1 DEF Goto, Run
<1> HIDE DEF x
<1>3. WritesOne(r, x, Work(r), d)
  BY <1>1, <1>2 DEF WritesOne
<1>4. CreateShape(r) \/ RedactShape(r)
  BY <1>1, KindOf
<1>5. CASE CreateShape(r)
  <2>1. Work(r) = Partial(r)
    BY <1>5 DEF CreateShape, Work, Source
  <2>2. FilesOf(d, r)
    BY <1>1, <2>1 DEF FilesOf, OnlyLoses
  <2>3. runs'[r] = x /\ dirs'[Partial(r)] = d => Progress(r)'
    BY <1>2, <1>5 DEF Progress, Creating, CreateShape, At
  <2> QED BY <1>1, <1>2, <1>3, <1>5, <2>1, <2>2, <2>3, CreateWrites
<1>6. CASE RedactShape(r)
  <2>1. Work(r) = Target(r) /\ Made(r) /\ runs[r].kind # "create"
    BY <1>6 DEF RedactShape, Work, Made
  <2>2. WritesOne(r, x, Target(r), d)
    BY <1>3, <2>1
  <2>3. /\ runs'[r] = x /\ Source(r)' = Source(r) /\ Target(r)' = Target(r)
        /\ dirs'[Source(r)] = dirs[Source(r)]
    BY <1>2, <2>1, <2>2, CopyWrites
  <2>4. Progress(r)'
    BY <1>1, <1>2, <1>6, <2>3 DEF Progress, Redacting, RedactShape, At
  <2> QED BY <1>1, <1>2, <1>6, <2>1, <2>2, <2>4, CopyArrives
<1> QED BY <1>4, <1>5, <1>6

\* What a run gives up is removed, or some of it stays.
LEMMA CleanupAdvances == ASSUME StoreInv, NEW r \in Runs, Cleanup(r) PROVE Advances(r)
<1>1. /\ At(r, "cleanup") /\ Goto(r, "failed") /\ torn' = torn /\ faults' = faults
      /\ faults \in Nat /\ dirs \in [Names -> Directory] /\ Work(r) \in Names
      /\ SumsWhole(dirs[Work(r)]) /\ Removed(Work(r))
  BY RunFacts DEF Cleanup, UnchangedWorld, Work
<1>2. PICK d \in Directory :
          dirs' = [dirs EXCEPT ![Work(r)] = d] /\ SumsWhole(d) /\ OnlyLoses(Work(r), d)
  BY <1>1, RemovedFacts
<1> QED BY <1>1, <1>2, GivesUp DEF At

LEMMA DieAdvances == ASSUME StoreInv, NEW r \in Runs, Die(r) PROVE Advances(r)
<1>1. /\ runs[r].pc \notin {"idle", "done", "failed", "died"} /\ Goto(r, "died")
      /\ torn' = torn /\ faults' \in Nat
      /\ Shaped(r) /\ Progress(r)
      /\ dirs \in [Names -> Directory] /\ Work(r) \in Names
      /\ SumsWhole(dirs[Work(r)])
  BY RunFacts DEF Die, Working, Work
<1>2. "died" \in Steps /\ "died" \in Ends
  BY DEF Steps, Ends
<1>3. CASE dirs' = dirs
  <2>1. Shaped(r)' /\ runs'[r].pc = "died" /\ runs'[r].kind = runs[r].kind
        /\ Source(r)' = Source(r) /\ Target(r)' = Target(r)
    BY <1>1, <1>2, GotoFacts DEF Shaped
  <2>2. Progress(r)'
    BY <1>1, <1>3, <2>1 DEF Progress, Creating, Redacting, Archiving, At
  <2> QED BY <1>1, <1>2, <1>3, <2>1, <2>2, QuietGoto DEF Ends
<1>4. ASSUME NEW cut \in SUBSET Files, NEW emptied \in BOOLEAN,
             Damage(Work(r), cut, emptied), runs[r].pc \in {"rewrite", "sums", "cleanup"}
      PROVE  Advances(r)
  <2> DEFINE d == Damaged(dirs[Work(r)], cut, emptied)
  <2>1. dirs' = [dirs EXCEPT ![Work(r)] = d]
    BY <1>1, <1>4 DEF Damage
  <2>2. d \in Directory /\ SumsWhole(d) /\ OnlyLoses(Work(r), d)
    BY <1>1, DamagedFacts
  <2> HIDE DEF d
  <2> QED BY <1>1, <1>4, <2>1, <2>2, GivesUp
<1>5. CASE At(r, "rewrite") /\ \E f \in runs[r].todo : Damage(Work(r), {f}, FALSE)
  <2>1. PICK f \in runs[r].todo : Damage(Work(r), {f}, FALSE)
    BY <1>5
  <2>2. RedactShape(r) /\ Redacting(r)
    BY <1>1, <1>5, KindOf DEF At, Progress, RedactShape
  <2>3. {f} \in SUBSET Files
    BY <1>5, <2>1, <2>2 DEF Redacting
  <2> QED BY <1>4, <1>5, <2>1, <2>3 DEF At
<1>6. CASE At(r, "sums") /\ Damage(Work(r), {}, TRUE)
  BY <1>4, <1>6 DEF At
<1>7. CASE At(r, "cleanup") /\ Removed(Work(r))
  <2>1. PICK d \in Directory :
            dirs' = [dirs EXCEPT ![Work(r)] = d] /\ SumsWhole(d) /\ OnlyLoses(Work(r), d)
    BY <1>1, <1>7, RemovedFacts
  <2> QED BY <1>1, <1>7, <2>1, GivesUp DEF At
<1> QED BY <1>3, <1>5, <1>6, <1>7 DEF Die

\* With the power every run dies, and a directory that is damaged is known to be.
LEMMA PowerLossPreserves == ASSUME StoreInv, PowerLoss PROVE StoreInv'
<1>1. /\ faults' \in Nat /\ torn \subseteq Names
      /\ dirs \in [Names -> Directory] /\ runs \in [Runs -> Run]
  BY DEF StoreInv, TypeOK, PowerLoss
<1>2. PICK n \in Names, cut \in SUBSET Files, emptied \in BOOLEAN :
          Damage(n, cut, emptied) /\ torn' = torn \cup {n}
  BY DEF PowerLoss
<1> DEFINE d == Damaged(dirs[n], cut, emptied)
<1>3. dirs' = [dirs EXCEPT ![n] = d]
  BY <1>1, <1>2 DEF Damage
<1>4. /\ d \in Directory /\ SumsWhole(d) /\ d.there = dirs[n].there
      /\ \A f \in Files : d.files[f] # NoFile =>
            dirs[n].files[f] # NoFile /\ d.files[f].of = dirs[n].files[f].of
  <2>1. SumsWhole(dirs[n])
    BY DEF StoreInv
  <2> QED BY <1>1, <2>1, DamagedFacts DEF OnlyLoses
<1> HIDE DEF d
<1>5. dirs' \in [Names -> Directory]
  BY <1>1, <1>3, <1>4
<1>6. ASSUME NEW m \in Names
      PROVE  /\ m # n => dirs'[m] = dirs[m]
             /\ dirs'[m].there = dirs[m].there /\ SumsWhole(dirs'[m])
             /\ \A f \in Files : dirs'[m].files[f] # NoFile =>
                   dirs[m].files[f] # NoFile
                   /\ dirs'[m].files[f].of = dirs[m].files[f].of
  <2>1. CASE m = n
    <3>1. dirs'[m] = d
      BY <1>1, <1>3, <2>1
    <3> QED BY <1>4, <2>1, <3>1
  <2>2. CASE m # n
    <3>1. dirs'[m] = dirs[m] /\ SumsWhole(dirs[m])
      BY <1>1, <1>3, <2>2 DEF StoreInv
    <3> QED BY <2>2, <3>1
  <2> QED BY <2>1, <2>2
<1>7. ASSUME NEW r \in Runs
      PROVE  /\ runs'[r] \in Run /\ runs'[r].kind = runs[r].kind
             /\ Source(r)' = Source(r) /\ Target(r)' = Target(r)
             /\ \/ runs'[r].pc = "died" /\ runs[r].pc # "idle"
                \/ runs'[r] = runs[r] /\ runs[r].pc \in {"idle", "done", "failed", "died"}
  <2>1. CASE Working(r)
    <3>1. runs'[r] = [runs[r] EXCEPT !.pc = "died"]
      BY <2>1 DEF PowerLoss
    <3>2. runs[r] \in Run /\ "died" \in Steps
      BY <1>1 DEF Steps
    <3>3. /\ runs'[r] \in Run /\ runs'[r].kind = runs[r].kind /\ runs'[r].pc = "died"
          /\ runs'[r].source = runs[r].source /\ runs'[r].target = runs[r].target
      BY <3>1, <3>2 DEF Run
    <3> QED BY <2>1, <3>3 DEF Source, Target, Working
  <2>2. CASE ~Working(r)
    BY <1>1, <2>2 DEF PowerLoss, Working, Source, Target
  <2> QED BY <2>1, <2>2
<1>8. runs' \in [Runs -> Run]
  BY <1>7 DEF PowerLoss
<1>9. TypeOK'
  BY <1>1, <1>2, <1>5, <1>8 DEF TypeOK
<1>10. ASSUME NEW r \in Runs PROVE Shaped(r)'
  BY <1>7 DEF StoreInv, Shaped, CreateShape, RedactShape, ArchiveShape, Ends
<1>11. Owned'
  <2>1. \A r \in Runs : Made(r)' => Made(r) /\ Target(r)' = Target(r) /\ Target(r) \in Names
    BY <1>7, RunFacts DEF Made
  <2>2. \A r \in Runs : Made(r)' => dirs'[Target(r)'].there
    BY <1>6, <2>1 DEF StoreInv, Owned, Exists
  <2>3. \A r \in Runs : Made(r)' => Exists(Target(r))'
    BY <2>2 DEF Exists
  <2> QED BY <2>1, <2>3 DEF StoreInv, Owned
<1>12. FilesPlaced'
  <2>1. \A r \in Runs : FilesOf(dirs'[Partial(r)], r)
    BY <1>6, RunFacts DEF FilesOf
  <2>2. ASSUME NEW s \in Seconds, NEW f \in Files, dirs'[Snapshot(s)].files[f] # NoFile
        PROVE  runs'[dirs'[Snapshot(s)].files[f].of].pc = "done"
    <3> DEFINE q == dirs[Snapshot(s)].files[f].of
    <3>1. Snapshot(s) \in Names
      BY NamesDiffer
    <3>2. dirs'[Snapshot(s)].files[f].of = q /\ dirs[Snapshot(s)].files[f] # NoFile
      BY <1>6, <2>2, <3>1
    <3>3. q \in Runs
      BY <1>1, <3>1, <3>2 DEF Directory, Content
    <3>4. runs[q].pc = "done"
      BY <3>2 DEF StoreInv, FilesPlaced, At
    <3> HIDE DEF q
    <3> QED BY <3>2, <3>3, <3>4 DEF PowerLoss, Working
  <2> QED BY <2>1, <2>2 DEF FilesPlaced, At
<1>13. ASSUME NEW r \in Runs PROVE Progress(r)'
  <2>1. /\ Progress(r) /\ Source(r) \in Names /\ Target(r) \in Names /\ Partial(r) \in Names
    BY RunFacts
  <2>2. Target(r) \notin torn' => Target(r) \notin torn /\ dirs'[Target(r)] = dirs[Target(r)]
    BY <1>2, <1>6, <2>1
  <2>3. Source(r) \notin torn' => Source(r) \notin torn /\ dirs'[Source(r)] = dirs[Source(r)]
    BY <1>2, <1>6, <2>1
  <2>4. /\ dirs'[Source(r)].there = dirs[Source(r)].there
        /\ dirs'[Partial(r)].there = dirs[Partial(r)].there
    BY <1>6, <2>1
  <2>5. ASSUME runs[r].kind = "create" PROVE Creating(r)'
    <3>1. Creating(r)
      BY <2>1, <2>5 DEF Progress
    <3> QED BY <1>7, <2>2, <2>4, <3>1 DEF Creating, At
  <2>6. ASSUME runs[r].kind = "redact" PROVE Redacting(r)'
    <3>1. Redacting(r)
      BY <2>1, <2>6 DEF Progress
    <3>2. runs'[r].pc \in {"idle", "done", "failed", "died"}
      BY <1>7
    <3>3. runs'[r].pc # "idle"
      BY <1>7, <2>6, ShapeFacts DEF StoreInv
    <3>4. CASE runs'[r].pc = "done"
      <4>1. /\ runs'[r] = runs[r] /\ Source(r)' = Source(r) /\ Target(r)' = Target(r)
        BY <1>7, <3>4
      <4>2. torn \subseteq torn'
        BY <1>2
      <4>3. /\ dirs'[Source(r)].there
            /\ {Source(r), Target(r)} \cap torn' = {} =>
                  /\ Valid(dirs'[Target(r)])
                  /\ \A f \in Files : dirs'[Target(r)].files[f] =
                                         Masked(f, dirs'[Source(r)].files[f])
        BY <2>2, <2>3, <2>4, <3>1, <3>4, <4>1 DEF Redacting, At
      <4> QED BY <3>4, <4>1, <4>3 DEF Redacting, At
    <3>5. CASE runs'[r].pc # "done"
      BY <1>7, <2>4, <3>1, <3>2, <3>3, <3>5 DEF Redacting, At
    <3> QED BY <3>4, <3>5
  <2>7. ASSUME runs[r].kind = "archive", Source(r)[1] = "snapshot" PROVE Archiving(r)'
    <3>1. Archiving(r)
      BY <2>1, <2>7 DEF Progress
    <3> QED BY <1>7, <2>2, <2>3, <2>4, <3>1 DEF Archiving, At
  <2> QED BY <1>7, <2>5, <2>6, <2>7 DEF Progress
<1> QED BY <1>6, <1>9, <1>10, <1>11, <1>12, <1>13 DEF StoreInv
-----------------------------------------------------------------------------
(* The invariant.                                                          *)

LEMMA StoreInit == Init => StoreInv
<1> SUFFICES ASSUME Init PROVE StoreInv
  OBVIOUS
<1> DEFINE first(r) == [kind |-> "create", pc |-> "idle", source |-> Partial(r),
                        target |-> Partial(r), todo |-> {}]
<1>1. NoDir \in Directory /\ SumsWhole(NoDir) /\ \A f \in Files : NoDir.files[f] = NoFile
  BY DEF NoDir, Missing, Directory, SumsWhole
<1>2. \A r \in Runs : first(r) \in Run
  BY NamesDiffer DEF Run, Steps
<1>3. /\ dirs = [n \in Names |-> NoDir] /\ torn = {} /\ faults = 0
      /\ runs = [r \in Runs |-> first(r)]
  BY DEF Init
<1>4. \A n \in Names : dirs[n] = NoDir
  BY <1>3
<1>5. \A r \in Runs : runs[r].kind = "create" /\ runs[r].pc = "idle" /\ Source(r) = Partial(r)
  BY <1>3 DEF Source
<1>6. TypeOK
  BY <1>1, <1>2, <1>3 DEF TypeOK
<1>7. \A r \in Runs : Shaped(r) /\ ~Made(r) /\ Progress(r)
  BY <1>5 DEF Shaped, CreateShape, Made, Progress, Creating, At
<1>8. FilesPlaced
  BY <1>1, <1>4, NamesDiffer DEF FilesPlaced, FilesOf
<1> QED BY <1>1, <1>4, <1>6, <1>7, <1>8 DEF StoreInv, Owned

\* Every step of a run brings that run where it should be.
LEMMA RunAdvances ==
    ASSUME StoreInv, NEW r \in Runs,
           \/ CreateStep(r) \/ CopyStep(r) \/ WriteSums(r) \/ Verify(r)
           \/ Raise(r) \/ Cleanup(r) \/ Die(r)
    PROVE  Advances(r)
<1>1. CASE CreateStep(r)
  BY <1>1, CreateAdvances, WriteFileAdvances, CheckAdvances, PublishAdvances DEF CreateStep
<1>2. CASE CopyStep(r)
  BY <1>2, BeginsAdvance, CopyGoes, MakeTargetAdvances, CopyEntryAdvances,
     AddEntryAdvances, TestArchiveAdvances, RewriteAdvances DEF CopyStep
<1>3. CASE WriteSums(r) \/ Verify(r) \/ Raise(r) \/ Cleanup(r) \/ Die(r)
  BY <1>3, SumsAdvances, VerifyAdvances, RaiseAdvances, CleanupAdvances, DieAdvances
<1> QED BY <1>1, <1>2, <1>3

LEMMA StoreNext == ASSUME StoreInv, [Next]_vars PROVE StoreInv'
<1>1. CASE vars' = vars
  <2>1. dirs' = dirs /\ runs' = runs /\ torn' = torn /\ faults' = faults
    BY <1>1 DEF vars
  <2>2. TypeOK' /\ FilesPlaced' /\ (\A n \in Names : SumsWhole(dirs'[n]))
    BY <2>1 DEF StoreInv, TypeOK, FilesPlaced, At
  <2>3. \A r \in Runs : Source(r)' = Source(r) /\ Target(r)' = Target(r) /\ (Made(r)' <=> Made(r))
    BY <2>1 DEF Source, Target, Made
  <2>4. Owned'
    <3>1. \A r \in Runs : Made(r) => dirs'[Target(r)].there
      BY <2>1 DEF StoreInv, Owned, Exists
    <3> QED BY <2>3, <3>1 DEF StoreInv, Owned, Exists
  <2>5. \A r \in Runs : Shaped(r)'
    BY <2>1, <2>3 DEF StoreInv, Shaped, CreateShape, RedactShape, ArchiveShape
  <2>6. ASSUME NEW r \in Runs PROVE Progress(r)'
    <3>1. Progress(r)
      BY DEF StoreInv
    <3>2. Creating(r) => Creating(r)'
      BY <2>1, <2>3 DEF Creating, At
    <3>3. Redacting(r) => Redacting(r)'
      BY <2>1, <2>3 DEF Redacting, At
    <3>4. Archiving(r) => Archiving(r)'
      BY <2>1, <2>3 DEF Archiving, At
    <3> QED BY <2>1, <2>3, <3>1, <3>2, <3>3, <3>4 DEF Progress
  <2> QED BY <2>2, <2>4, <2>5, <2>6 DEF StoreInv
<1>2. ASSUME NEW r \in Runs,
             \/ CreateStep(r) \/ CopyStep(r) \/ WriteSums(r) \/ Verify(r)
             \/ Raise(r) \/ Cleanup(r) \/ Die(r)
      PROVE  StoreInv'
  <2>1. Advances(r)
    BY <1>2, RunAdvances
  <2> QED BY <2>1, StepPreserves DEF Advances
<1>3. CASE PowerLoss
  BY <1>3, PowerLossPreserves
<1> QED BY <1>1, <1>2, <1>3 DEF Next, Rest

LEMMA StoreAlways == Spec => []StoreInv
<1>1. StoreInv /\ [Next]_vars => StoreInv'
  BY StoreNext
<1> QED BY StoreInit, <1>1, PTL DEF Spec
-----------------------------------------------------------------------------
\* The types.  Every run of create_snapshot, redact_snapshot and archive_snapshot keeps
\* its progress and the directories well formed.
THEOREM StoreTypeCorrect == Spec => []TypeOK
<1>1. StoreInv => TypeOK
  BY DEF StoreInv
<1> QED BY <1>1, StoreAlways, PTL

\* What list_snapshots or _snapshot_rows takes for a snapshot holds the files of one run,
\* none or all of them masked, whoever wrote it, died over it or lost a part of it.
THEOREM AcceptedSnapshotsAreWhole == Spec => []AcceptedIsWhole
<1>1. StoreInv => AcceptedIsWhole
  <2> SUFFICES ASSUME StoreInv, NEW n \in Names, ObserverLists(n) \/ ControllerLists(n)
               PROVE  Whole(dirs[n])
    BY DEF AcceptedIsWhole
  <2>1. Matches(dirs[n]) /\ Parses(dirs[n], Needed) /\ SumsWhole(dirs[n])
    BY SensitiveAndNeededAreFiles DEF ObserverLists, ControllerLists, Valid, Parses, StoreInv
  <2>2. OfOneRun(dirs[n].files)
    BY <2>1, ValidIsOfOneRun
  <2> QED BY <2>2 DEF OfOneRun, Whole, Raw
<1> QED BY <1>1, StoreAlways, PTL

\* What a run has reported stays true: its snapshot is there and valid, its copy is the
\* masked one, its archive equals the snapshot; and a create that has failed has published
\* nothing.
THEOREM VerdictsStayTrue == Spec => []VerdictsHold
<1>1. StoreInv => VerdictsHold
  <2> SUFFICES ASSUME StoreInv, NEW r \in Runs
               PROVE  /\ At(r, "failed") /\ runs[r].kind = "create" =>
                            \A s \in Seconds : Exists(Snapshot(s)) =>
                                \A f \in Files : dirs[Snapshot(s)].files[f] # Raw(r)
                      /\ At(r, "done") /\ {Source(r), Target(r)} \cap torn = {} =>
                            CASE runs[r].kind = "create" ->
                                    /\ ObserverLists(Target(r))
                                    /\ \A f \in Files : dirs[Target(r)].files[f].of = r
                              [] runs[r].kind = "redact" ->
                                    /\ ObserverLists(Target(r))
                                    /\ \A f \in Files : dirs[Target(r)].files[f] =
                                                   Masked(f, dirs[Source(r)].files[f])
                              [] runs[r].kind = "archive" ->
                                    Source(r)[1] = "snapshot" =>
                                        dirs[Target(r)] = dirs[Source(r)]
    BY DEF VerdictsHold, Raw
  <2>1. Shaped(r) /\ Progress(r) /\ FilesPlaced
    BY DEF StoreInv
  <2>2. ASSUME At(r, "failed"), runs[r].kind = "create"
        PROVE  \A s \in Seconds, f \in Files : dirs[Snapshot(s)].files[f] # Raw(r)
    <3>1. Raw(r) # NoFile /\ Raw(r).of = r
      BY NoFileHasNoContent DEF Raw, Content
    <3>2. ~At(r, "done")
      BY <2>2 DEF At
    <3> QED BY <2>1, <3>1, <3>2 DEF FilesPlaced
  <2>3. ASSUME At(r, "done"), {Source(r), Target(r)} \cap torn = {},
               runs[r].kind = "create"
        PROVE  /\ ObserverLists(Target(r))
               /\ \A f \in Files : dirs[Target(r)].files[f].of = r
    <3>1. Target(r)[1] = "snapshot"
      BY <2>1, <2>3, ShapeFacts DEF At
    <3> QED BY <2>1, <2>3, <3>1 DEF Progress, Creating, ObserverLists
  <2>4. ASSUME At(r, "done"), {Source(r), Target(r)} \cap torn = {},
               runs[r].kind = "redact"
        PROVE  /\ ObserverLists(Target(r))
               /\ \A f \in Files : dirs[Target(r)].files[f] =
                                        Masked(f, dirs[Source(r)].files[f])
    <3>1. Target(r)[1] = "redacted"
      BY <2>1, <2>4 DEF Shaped, CreateShape, RedactShape, ArchiveShape
    <3> QED BY <2>1, <2>4, <3>1 DEF Progress, Redacting, ObserverLists
  <2>5. ASSUME At(r, "done"), {Source(r), Target(r)} \cap torn = {},
               runs[r].kind = "archive", Source(r)[1] = "snapshot"
        PROVE  dirs[Target(r)] = dirs[Source(r)]
    BY <2>1, <2>5 DEF Progress, Archiving
  <2>6. runs[r].kind \in {"create", "redact", "archive"}
    BY <2>1 DEF Shaped, CreateShape, RedactShape, ArchiveShape
  <2> QED BY <2>2, <2>3, <2>4, <2>5, <2>6
<1> QED BY <1>1, StoreAlways, PTL

\* A published snapshot is never changed, replaced or removed by a run: os.replace, mkdir
\* and open("x") refuse a name that is taken.
THEOREM SnapshotsNeverChange == Spec => SnapshotsStay
<1> DEFINE Stay == \A s \in Seconds :
              Exists(Snapshot(s)) /\ Snapshot(s) \notin torn' =>
                  dirs'[Snapshot(s)] = dirs[Snapshot(s)]
<1>1. StoreInv /\ [Next]_vars => [Stay]_vars
  <2> SUFFICES ASSUME StoreInv, Next, NEW s \in Seconds, Exists(Snapshot(s)),
                      Snapshot(s) \notin torn'
               PROVE  dirs'[Snapshot(s)] = dirs[Snapshot(s)]
    OBVIOUS
  <2>1. Snapshot(s) \in Names /\ Snapshot(s)[1] = "snapshot"
    BY NamesDiffer
  <2>2. ASSUME NEW r \in Runs, Advances(r) PROVE dirs'[Snapshot(s)] = dirs[Snapshot(s)]
    BY <2>1, <2>2, SnapshotsAreKept DEF Advances
  <2>3. ASSUME PowerLoss PROVE dirs'[Snapshot(s)] = dirs[Snapshot(s)]
    <3>1. PICK n \in Names, cut \in SUBSET Files, emptied \in BOOLEAN :
              Damage(n, cut, emptied) /\ torn' = torn \cup {n}
      BY <2>3 DEF PowerLoss
    <3>2. n # Snapshot(s)
      BY <3>1
    <3> QED BY <2>1, <3>1, <3>2 DEF Damage, StoreInv, TypeOK
  <2>4. ASSUME Rest PROVE dirs'[Snapshot(s)] = dirs[Snapshot(s)]
    BY <2>4 DEF Rest, vars
  <2> QED BY <2>2, <2>3, <2>4, RunAdvances DEF Next
<1> QED BY <1>1, StoreAlways, PTL DEF Spec, SnapshotsStay
=============================================================================
