------------------------- MODULE StateProfilesProofs -------------------------
(***************************************************************************)
(* Theorems about StateProfiles, for any packages, versions, televisions   *)
(* and number of captures and applications, beside deletions, crashes and  *)
(* outside changes.  Each part of the invariant is proved from the types   *)
(* and the parts before it.                                                *)
(***************************************************************************)
EXTENDS StateProfiles, TLAPS

\* The steps with an entry at hand, and those with a row begun for it.
EntryPcs == {"inspect", "begin", "command", "verify", "complete", "fail"}
RowPcs == {"command", "verify", "complete", "fail"}

\* What the position of a thread says about its locals, beside n rows.
Shape(x, n) ==
    /\ x.pc \in EntryPcs => x.index \in 1..Len(x.profile.packages)
    /\ x.pc = "result" => x.index > Len(x.profile.packages)
    /\ x.pc \in RowPcs => Len(x.batch) > 0
    /\ \A i \in 1..Len(x.batch) : x.batch[i] \in 1..n

TypeInv == TypeOK /\ \A t \in Live : Shape(threads[t], Len(ops))

-----------------------------------------------------------------------------
(* Types.                                                                  *)

LEMMA LiveIsThread ==
  ASSUME TypeInv, NEW t \in Live
  PROVE  t \in Threads /\ threads[t] \in Thread /\ Shape(threads[t], Len(ops))
BY DEF TypeInv, TypeOK, Live

LEMMA DesiredIsEntry ==
  ASSUME TypeInv, NEW t \in Live, threads[t].pc \in EntryPcs
  PROVE  /\ Desired(t) \in Entry
         /\ threads[t].index \in 1..Len(threads[t].profile.packages)
BY LiveIsThread DEF Shape, Thread, Profile, Desired

LEMMA StoreTyped ==
  ASSUME TypeInv
  PROVE  /\ ops \in Seq(Operation)
         /\ threads \in [Threads -> Thread \cup {NoThread}]
         /\ tv \in [Packages -> State]
         /\ library \in Library
         /\ bare \subseteq Files
         /\ profiles \in Seq(Profile)
         /\ device \in Devices
         /\ late \subseteq Sent
         /\ raced \subseteq Files
         /\ faults \in Nat
BY DEF TypeInv, TypeOK, JournalTypeOK

LEMMA OpOfIsRow ==
  ASSUME TypeInv, NEW t \in Live, threads[t].pc \in RowPcs
  PROVE  /\ OpOf(t) \in Ids
         /\ Len(threads[t].batch) \in 1..Len(threads[t].batch)
BY LiveIsThread, StoreTyped DEF Shape, Thread, OpOf, Ids

LEMMA ThreadsTyped ==
  ASSUME TypeInv, ops' \in Seq(Operation),
         threads' \in [Threads -> Thread \cup {NoThread}],
         \A s \in Threads : threads'[s] # NoThread => Shape(threads'[s], Len(ops')),
         tv' \in [Packages -> State], device' \in Devices,
         library' \in Library, bare' \subseteq Files, profiles' \in Seq(Profile),
         deleting' \in Deletion \cup {NoDeletion}, late' \subseteq Sent,
         raced' \subseteq Files, faults' \in Nat
  PROVE  TypeInv'
BY DEF TypeInv, TypeOK, JournalTypeOK, Live

\* One thread moves, and nothing else but the rows.
LEMMA MoveTyped ==
  ASSUME TypeInv, NEW t \in Threads, NEW x,
         threads' = [threads EXCEPT ![t] = x],
         x = NoThread \/ (x \in Thread /\ Shape(x, Len(ops'))),
         ops' \in Seq(Operation), Len(ops') >= Len(ops),
         UNCHANGED <<tv, device, deleting>>, library' \in Library, bare' \subseteq Files,
         late' \subseteq Sent, raced' \subseteq Files, faults' \in Nat,
         profiles' \in Seq(Profile)
  PROVE  TypeInv'
<1>1. ASSUME NEW s \in Threads, threads'[s] # NoThread PROVE Shape(threads'[s], Len(ops'))
  <2>1. CASE s = t
    BY <1>1, <2>1, StoreTyped
  <2>2. CASE s # t
    <3>1. threads'[s] = threads[s] /\ s \in Live
      BY <1>1, <2>2, StoreTyped DEF Live
    <3>2. Shape(threads[s], Len(ops)) /\ Len(ops) \in Nat /\ Len(ops') \in Nat
      BY <3>1, LiveIsThread, StoreTyped
    <3> QED
      BY <3>1, <3>2 DEF Shape
  <2> QED
    BY <2>1, <2>2
<1>2. threads' \in [Threads -> Thread \cup {NoThread}]
  BY DEF TypeInv, TypeOK
<1> QED
  BY <1>1, <1>2, ThreadsTyped DEF TypeInv, TypeOK

LEMMA NextEntryTyped ==
  ASSUME TypeInv, NEW t \in Live, threads[t].pc \in EntryPcs
  PROVE  NextEntry(t) \in Thread /\ Shape(NextEntry(t), Len(ops))
<1>1. threads[t] \in Thread /\ Shape(threads[t], Len(ops))
  BY LiveIsThread
<1>2. threads[t].index \in 1..Len(threads[t].profile.packages)
  BY DesiredIsEntry
<1>3. NextEntry(t) \in Thread
  <2>1. PICK pc \in {"inspect", "result"} :
            NextEntry(t) = [threads[t] EXCEPT !.index = @ + 1, !.change = "version", !.pc = pc]
    BY DEF NextEntry
  <2>2. threads[t].index + 1 \in Nat
    BY <1>1 DEF Thread
  <2> QED
    BY <1>1, <2>1, <2>2 DEF Thread, CaptureSteps, ApplySteps
<1>4. Shape(NextEntry(t), Len(ops))
  BY <1>1, <1>2 DEF NextEntry, Thread, Shape, EntryPcs, RowPcs, Profile
<1> QED
  BY <1>3, <1>4

\* The threads when one has found something to change.
Begun(t, current, apk) ==
    [threads EXCEPT ![t].pc = "begin", ![t].current = current, ![t].beforeApk = apk]

LEMMA CompareEnabledTyped ==
  ASSUME TypeInv, NEW t \in Live, threads[t].pc \in EntryPcs, NEW c \in State
  PROVE  CompareEnabled(t, c) \in Thread /\ Shape(CompareEnabled(t, c), Len(ops))
<1>1. threads[t] \in Thread /\ Shape(threads[t], Len(ops))
  BY LiveIsThread
<1>2. threads[t].index \in 1..Len(threads[t].profile.packages)
  BY DesiredIsEntry
<1> DEFINE x == [threads[t] EXCEPT !.pc = "begin", !.change = "enabled", !.current = c]
<1>3. x \in Thread
  BY <1>1 DEF Thread, CaptureSteps, ApplySteps
<1>4. Shape(x, Len(ops))
  BY <1>1, <1>2 DEF Thread, Shape, EntryPcs, RowPcs
<1> QED
  BY <1>3, <1>4, NextEntryTyped DEF CompareEnabled

\* The entries of a capture with one more.
Extended(t, p, state, apk) ==
    Append(threads[t].profile.packages, [package |-> p, state |-> state, apk |-> apk])

LEMMA CapturedTyped ==
  ASSUME TypeInv, NEW t \in Live, threads[t].pc \in {"read", "fetch"},
         NEW p \in Packages, NEW state \in State, NEW apk \in Apk
  PROVE  \E x \in Thread :
            /\ Captured(t, p, state, apk) = [threads EXCEPT ![t] = x]
            /\ x.pc \in {"read", "save"}
            /\ x.profile.packages = Extended(t, p, state, apk)
            /\ x.todo = threads[t].todo \ {p}
            /\ x.batch = threads[t].batch
            /\ Shape(x, Len(ops))
<1> DEFINE e == [package |-> p, state |-> state, apk |-> apk]
           profile == [threads[t].profile EXCEPT !.packages = Append(@, e)]
<1>1. threads[t] \in Thread /\ Shape(threads[t], Len(ops)) /\ t \in Threads
  BY LiveIsThread
<1>2. e \in Entry
  BY DEF Entry
<1>3. profile \in Profile
  <2>1. threads[t].profile \in Profile
    BY <1>1 DEF Thread
  <2>2. Append(threads[t].profile.packages, e) \in Seq(Entry)
    BY <2>1, <1>2 DEF Profile
  <2> QED
    BY <2>1, <2>2 DEF Profile
<1>4. PICK pc \in {"read", "save"} :
          Captured(t, p, state, apk) =
              [threads EXCEPT ![t].profile.packages = Append(@, e),
                              ![t].todo = @ \ {p}, ![t].pc = pc]
  BY DEF Captured
<1> DEFINE x == [threads[t] EXCEPT !.profile = profile, !.todo = @ \ {p}, !.pc = pc]
<1>5. x \in Thread
  BY <1>1, <1>3 DEF Thread, CaptureSteps
<1>6. /\ x.pc = pc
      /\ x.profile.packages = Extended(t, p, state, apk)
      /\ x.todo = threads[t].todo \ {p}
      /\ x.batch = threads[t].batch
  BY <1>1 DEF Thread, Profile, Extended
<1>7. Shape(x, Len(ops))
  BY <1>1, <1>6 DEF Shape, EntryPcs, RowPcs
<1>8. threads \in [Threads -> Thread \cup {NoThread}]
  BY DEF TypeInv, TypeOK
<1>9. Captured(t, p, state, apk) = [threads EXCEPT ![t] = x]
  BY <1>1, <1>4, <1>8 DEF Thread, Profile
<1> QED
  BY <1>5, <1>6, <1>7, <1>9

LEMMA RowOfTyped ==
  ASSUME TypeInv, NEW t \in Live, threads[t].pc = "begin"
  PROVE  RowOf(t) \in Operation
<1>1. threads[t] \in Thread
  BY LiveIsThread
<1>2. Desired(t) \in Entry
  BY DesiredIsEntry DEF EntryPcs
<1>3. /\ Desired(t).package \in Packages
      /\ Desired(t).apk \in Apk
      /\ threads[t].current \in State
      /\ threads[t].beforeApk \in Apk
      /\ threads[t].profile.device \in Devices
  BY <1>1, <1>2 DEF Thread, Entry, State, Profile
<1> QED
  BY <1>3 DEF RowOf, Operation, Action, Status, InverseAction, Apk

LEMMA EffectsTyped ==
  ASSUME TypeInv, NEW c \in Sent
  PROVE  Effects(c) \subseteq State
<1>1. c.package \in Packages /\ c.enabled \in BOOLEAN
  BY DEF Sent
<1>2. tv[c.package] \in State
  BY <1>1 DEF TypeInv, TypeOK
<1>3. (Installed(tv[c.package]) => tv[c.package].enabled) \in BOOLEAN
  OBVIOUS
<1>4. CASE c.change = "version"
  <2> DEFINE flag == Installed(tv[c.package]) => tv[c.package].enabled
  <2>1. flag \in BOOLEAN
    BY <1>3
  <2>2. Effects(c) = {[version |-> v, enabled |-> flag] : v \in Versions}
    BY <1>4 DEF Effects
  <2> HIDE DEF flag
  <2> QED
    BY <2>1, <2>2 DEF State, Apk
<1>5. CASE c.change # "version"
  BY <1>1, <1>2, <1>5 DEF Effects, State
<1> QED
  BY <1>4, <1>5

LEMMA CommandOfTyped ==
  ASSUME TypeInv, NEW t \in Live, threads[t].pc = "command"
  PROVE  CommandOf(t) \in Sent
BY LiveIsThread, DesiredIsEntry DEF EntryPcs, CommandOf, Sent, Thread, Entry, State

-----------------------------------------------------------------------------
(* Types, step by step.                                                    *)

LEMMA ExactTyped ==
  ASSUME NEW files, NEW version
  PROVE  /\ ExactApks(files, version) \subseteq Apk
         /\ \A f \in ExactApks(files, version) : f # 0 => f \in Versions /\ files[f] = version
BY DEF ExactApks, Apk

LEMMA DownloadTyped ==
  ASSUME TypeInv, NEW p \in Packages, NEW served \in Served,
         Archived(p, served[1], served[2]) \/ Discarded(p, served[1]), RacedBy(p, served[1])
  PROVE  library' \in Library /\ bare' \subseteq Files /\ raced' \subseteq Files
<1>1. served[1] \in Versions /\ served[2] \in Apk
  BY FilesAreStated
<1>2. library \in [Packages -> [Versions -> Apk \cup {NoFile}]]
  BY StoreTyped DEF Library
<1>3. PICK stated \in Apk \cup {NoFile} : library' = [library EXCEPT ![p][served[1]] = stated]
  <2>1. library[p][served[1]] \in Apk \cup {NoFile}
    BY <1>1, <1>2
  <2> QED
    BY <1>1, <1>2, <2>1 DEF Archived, Discarded
<1>4. library' \in Library
  BY <1>1, <1>2, <1>3 DEF Library
<1>5. bare' \subseteq Files
  BY StoreTyped DEF Archived, Discarded
<1>6. raced' \subseteq Files
  BY <1>1, StoreTyped DEF RacedBy, Files
<1> QED
  BY <1>4, <1>5, <1>6

LEMMA NewThreadTyped ==
  ASSUME NEW pc \in {"list", "inspect", "result"}, NEW profile \in Profile,
         NEW n \in Nat,
         pc = "inspect" => Len(profile.packages) > 0,
         pc = "result" => Len(profile.packages) = 0
  PROVE  NewThread(pc, profile) \in Thread /\ Shape(NewThread(pc, profile), n)
<1>1. Absent \in State /\ 0 \in Apk
  BY DEF Absent, State, Apk
<1>2. NewThread(pc, profile) \in Thread
  BY <1>1 DEF NewThread, Thread, CaptureSteps, ApplySteps
<1>3. Len(profile.packages) \in Nat
  BY DEF Profile
<1>4. Shape(NewThread(pc, profile), n)
  BY <1>3 DEF NewThread, Shape, EntryPcs, RowPcs
<1> QED
  BY <1>2, <1>4

\* One thread moves, and the rows stay.
LEMMA StepTyped ==
  ASSUME TypeInv, NEW t \in Threads, NEW x \in Thread,
         threads' = [threads EXCEPT ![t] = x], Shape(x, Len(ops)),
         UNCHANGED <<ops, tv, device, deleting, late, faults>>,
         library' \in Library, bare' \subseteq Files, raced' \subseteq Files,
         profiles' \in Seq(Profile)
  PROVE  TypeInv'
<1>1. ops' \in Seq(Operation) /\ Len(ops') >= Len(ops) /\ Len(ops') = Len(ops)
  BY StoreTyped
<1>2. late' \subseteq Sent /\ faults' \in Nat
  BY StoreTyped
<1> QED
  BY <1>1, <1>2, MoveTyped

LEMMA EndTyped ==
  ASSUME TypeInv, NEW t \in Threads, End(t),
         UNCHANGED <<ops, tv, device, library, bare, deleting, late, raced, faults>>,
         profiles' \in Seq(Profile)
  PROVE  TypeInv'
<1>1. ops' \in Seq(Operation) /\ Len(ops') >= Len(ops)
  BY StoreTyped
<1>2. library' \in Library /\ bare' \subseteq Files /\ late' \subseteq Sent
      /\ raced' \subseteq Files /\ faults' \in Nat
  BY StoreTyped
<1>3. \A s \in Threads : threads'[s] # NoThread => Shape(threads'[s], Len(ops'))
  BY StoreTyped DEF End, TypeInv, Live
<1>4. threads' \in [Threads -> Thread \cup {NoThread}]
  BY StoreTyped DEF End
<1> QED
  BY <1>1, <1>2, <1>3, <1>4, ThreadsTyped DEF TypeInv, TypeOK

LEMMA CaptureTyped ==
  ASSUME TypeInv, NEW t \in Threads, Capture(t)
  PROVE  TypeInv'
<1>1. CASE StartCapture(t)
  <2> DEFINE x == NewThread("list", [device |-> device, packages |-> << >>])
  <2>1. x \in Thread /\ Shape(x, Len(ops))
    <3>1. [device |-> device, packages |-> << >>] \in Profile
      BY StoreTyped DEF Profile
    <3> QED
      BY <3>1, NewThreadTyped, StoreTyped
  <2> QED
    BY <1>1, <2>1, StepTyped, StoreTyped DEF StartCapture
<1>2. CASE ListPackages(t)
  <2>1. PICK listed \in SUBSET Packages, pc \in {"save", "read"} :
            threads' = [threads EXCEPT ![t].todo = listed, ![t].pc = pc]
    BY <1>2 DEF ListPackages
  <2> DEFINE x == [threads[t] EXCEPT !.todo = listed, !.pc = pc]
  <2>2. threads[t] \in Thread /\ Shape(threads[t], Len(ops))
    BY <1>2, LiveIsThread DEF ListPackages, At
  <2>3. x \in Thread /\ Shape(x, Len(ops))
    BY <2>2 DEF Thread, CaptureSteps, Shape, EntryPcs, RowPcs
  <2>4. threads' = [threads EXCEPT ![t] = x]
    BY <2>1, StoreTyped
  <2> QED
    BY <1>2, <2>3, <2>4, StepTyped, StoreTyped DEF ListPackages
<1>3. CASE ReadPackage(t)
  <2>1. threads[t] \in Thread /\ Shape(threads[t], Len(ops)) /\ t \in Live
        /\ threads[t].pc = "read"
    BY <1>3, LiveIsThread DEF ReadPackage, At
  <2>2. PICK p \in Packages, apk \in Apk :
            threads' = IF apk # 0 THEN Captured(t, p, tv[p], apk)
                       ELSE [threads EXCEPT ![t].current = tv[p], ![t].pc = "fetch"]
    BY <1>3, ExactTyped DEF ReadPackage
  <2>3. tv[p] \in State
    BY StoreTyped
  <2>4. CASE apk # 0
    <3>1. PICK x \in Thread :
              /\ Captured(t, p, tv[p], apk) = [threads EXCEPT ![t] = x]
              /\ Shape(x, Len(ops))
      BY <2>1, <2>3, CapturedTyped
    <3> QED
      BY <1>3, <2>2, <2>4, <3>1, StepTyped, StoreTyped DEF ReadPackage
  <2>5. CASE apk = 0
    <3> DEFINE x == [threads[t] EXCEPT !.current = tv[p], !.pc = "fetch"]
    <3>1. x \in Thread /\ Shape(x, Len(ops))
      BY <2>1, <2>3 DEF Thread, CaptureSteps, Shape, EntryPcs, RowPcs
    <3>2. threads' = [threads EXCEPT ![t] = x]
      BY <2>2, <2>5, StoreTyped
    <3> QED
      BY <1>3, <3>1, <3>2, StepTyped, StoreTyped DEF ReadPackage
  <2> QED
    BY <2>4, <2>5
<1>4. CASE Fetch(t)
  <2>1. threads[t] \in Thread /\ t \in Live /\ threads[t].pc = "fetch"
    BY <1>4, LiveIsThread DEF Fetch, At
  <2>2. PICK p \in Packages, served \in Served :
            /\ Archived(p, served[1], served[2]) \/ Discarded(p, served[1])
            /\ RacedBy(p, served[1])
            /\ \/ threads' = Captured(t, p, threads[t].current, 0)
               \/ \E apk \in {0} \cup ExactApks(library'[p], threads[t].current.version) :
                     threads' = Captured(t, p, threads[t].current, apk)
    BY <1>4 DEF Fetch
  <2>3. PICK apk \in Apk : threads' = Captured(t, p, threads[t].current, apk)
    BY <2>2, ExactTyped DEF Apk
  <2>4. library' \in Library /\ bare' \subseteq Files /\ raced' \subseteq Files
    BY <2>2, DownloadTyped
  <2>5. threads[t].current \in State
    BY <2>1 DEF Thread
  <2>6. PICK x \in Thread : Captured(t, p, threads[t].current, apk) =
                                [threads EXCEPT ![t] = x] /\ Shape(x, Len(ops))
    BY <2>1, <2>5, CapturedTyped
  <2> QED
    BY <1>4, <2>3, <2>4, <2>6, StepTyped, StoreTyped DEF Fetch
<1>5. CASE Save(t)
  <2>1. threads[t].profile \in Profile
    BY <1>5, LiveIsThread DEF Save, At, Thread
  <2>2. profiles' \in Seq(Profile)
    BY <1>5, <2>1, StoreTyped DEF Save
  <2> QED
    BY <1>5, <2>2, EndTyped DEF Save
<1>6. CASE CaptureFails(t)
  BY <1>6, EndTyped, StoreTyped DEF CaptureFails
<1> QED
  BY <1>1, <1>2, <1>3, <1>4, <1>5, <1>6 DEF Capture

LEMMA DisturbTyped ==
  ASSUME TypeInv, NEW s \in Threads
  PROVE  /\ Disturb(s) \in Thread \cup {NoThread}
         /\ Disturb(s) # NoThread => Shape(Disturb(s), Len(ops))
<1>1. CASE threads[s] = NoThread
  BY <1>1 DEF Disturb
<1>2. CASE threads[s] # NoThread
  <2>1. threads[s] \in Thread /\ Shape(threads[s], Len(ops))
    BY <1>2, LiveIsThread DEF Live
  <2> QED
    BY <1>2, <2>1 DEF Disturb, Thread, Shape, EntryPcs, RowPcs
<1> QED
  BY <1>1, <1>2

\* A verdict changes one row, and no row is lost.
LEMMA VerdictTyped ==
  ASSUME TypeInv, NEW i \in Ids, NEW state \in State, Complete(i, state) \/ Fail(i)
  PROVE  ops' \in Seq(Operation) /\ Len(ops') = Len(ops)
<1>1. ops \in Seq(Operation)
  BY StoreTyped
<1>2. ops[i] \in Operation
  BY <1>1 DEF Ids
<1>3. CASE Complete(i, state)
  <2>1. [ops[i] EXCEPT !.status = "applied", !.after = state] \in Operation
    BY <1>2 DEF Operation, Status
  <2>2. ops' = [ops EXCEPT ![i] = [ops[i] EXCEPT !.status = "applied", !.after = state]]
    BY <1>1, <1>2, <1>3 DEF Complete, Ids, Operation
  <2> QED
    BY <1>1, <2>1, <2>2 DEF Ids
<1>4. CASE Fail(i)
  <2>1. [ops[i] EXCEPT !.status = "uncertain"] \in Operation
    BY <1>2 DEF Operation, Status
  <2>2. ops' = ops \/ ops' = [ops EXCEPT ![i] = [ops[i] EXCEPT !.status = "uncertain"]]
    BY <1>1, <1>2, <1>4 DEF Fail, Ids
  <2> QED
    BY <1>1, <2>1, <2>2 DEF Ids
<1> QED
  BY <1>3, <1>4

\* What a command does, in time or late.
LEMMA CommandMoves ==
  ASSUME TypeInv, NEW t \in Threads, Command(t)
  PROVE  LET p == Desired(t).package IN
         /\ t \in Live /\ threads[t] \in Thread /\ threads[t].pc = "command"
         /\ p \in Packages
         /\ \E pc \in {"verify", "fail"} : threads'[t] = [threads[t] EXCEPT !.pc = pc]
         /\ threads' = [s \in Threads |-> threads'[s]]
         /\ \A s \in Threads \ {t} :
               threads'[s] = Disturb(s) \/ (threads'[s] = threads[s] /\ UNCHANGED tv)
         /\ \E state \in {tv[p]} \cup Effects(CommandOf(t)) : tv' = [tv EXCEPT ![p] = state]
         /\ UNCHANGED <<ops, device, library, bare, profiles, deleting, raced>>
         /\ late' \subseteq Sent /\ faults' \in Nat
<1> DEFINE p == Desired(t).package
<1>1. t \in Live /\ threads[t] \in Thread /\ threads[t].pc = "command"
  BY LiveIsThread DEF Command, At
<1>2. p \in Packages /\ CommandOf(t) \in Sent
  BY <1>1, DesiredIsEntry, CommandOfTyped DEF EntryPcs, Entry
<1>3. tv \in [Packages -> State] /\ threads \in [Threads -> Thread \cup {NoThread}]
  BY StoreTyped
<1>4. UNCHANGED <<ops, device, library, bare, profiles, deleting, raced>>
  BY DEF Command
<1>5. ASSUME NEW state \in {tv[p]} \cup (IF Sendable(t) THEN Effects(CommandOf(t)) ELSE {}),
             NEW reported \in BOOLEAN,
             tv' = [tv EXCEPT ![p] = state],
             threads' = [s \in Threads |->
                 IF s = t THEN [threads[t] EXCEPT !.pc = IF reported THEN "verify" ELSE "fail"]
                 ELSE IF state = tv[p] THEN threads[s] ELSE Disturb(s)]
      PROVE  /\ \E pc \in {"verify", "fail"} : threads'[t] = [threads[t] EXCEPT !.pc = pc]
             /\ threads' = [s \in Threads |-> threads'[s]]
             /\ \A s \in Threads \ {t} :
                   threads'[s] = Disturb(s) \/ (threads'[s] = threads[s] /\ UNCHANGED tv)
             /\ \E state2 \in {tv[p]} \cup Effects(CommandOf(t)) :
                   tv' = [tv EXCEPT ![p] = state2]
  <2>1. state = tv[p] => UNCHANGED tv
    BY <1>2, <1>3, <1>5
  <2>2. state \in {tv[p]} \cup Effects(CommandOf(t))
    OBVIOUS
  <2>3. \A s \in Threads \ {t} :
            threads'[s] = Disturb(s) \/ (threads'[s] = threads[s] /\ UNCHANGED tv)
    BY <1>5, <2>1
  <2>4. \E pc \in {"verify", "fail"} : threads'[t] = [threads[t] EXCEPT !.pc = pc]
    BY <1>5
  <2>5. threads' = [s \in Threads |-> threads'[s]]
    BY <1>5
  <2>6. \E state2 \in {tv[p]} \cup Effects(CommandOf(t)) : tv' = [tv EXCEPT ![p] = state2]
    BY <1>5, <2>2
  <2> QED
    BY <2>3, <2>4, <2>5, <2>6
<1>6. CASE /\ Event /\ late' = late \cup {CommandOf(t)}
           /\ Goto(t, "fail") /\ UNCHANGED tv
  <2>1. \A s \in Threads \ {t} : threads'[s] = threads[s] /\ UNCHANGED tv
    BY <1>3, <1>6 DEF Goto
  <2>2. threads'[t] = [threads[t] EXCEPT !.pc = "fail"]
    BY <1>3, <1>6 DEF Goto
  <2>3. threads' = [s \in Threads |-> threads'[s]]
    BY <1>3, <1>6 DEF Goto
  <2>4. tv' = [tv EXCEPT ![p] = tv[p]]
    BY <1>2, <1>3, <1>6
  <2>5. late' \subseteq Sent /\ faults' \in Nat
    BY <1>2, <1>6, StoreTyped DEF Event
  <2> HIDE DEF p
  <2>6. \E state \in {tv[p]} \cup Effects(CommandOf(t)) : tv' = [tv EXCEPT ![p] = state]
    BY <2>4
  <2> QED
    BY <1>1, <1>2, <1>4, <2>1, <2>2, <2>3, <2>5, <2>6 DEF p
<1>7. \/ \E state \in {tv[p]} \cup (IF Sendable(t) THEN Effects(CommandOf(t)) ELSE {}),
            reported \in BOOLEAN :
            /\ tv' = [tv EXCEPT ![p] = state]
            /\ threads' = [s \in Threads |->
                   IF s = t THEN [threads[t] EXCEPT !.pc = IF reported THEN "verify" ELSE "fail"]
                   ELSE IF state = tv[p] THEN threads[s] ELSE Disturb(s)]
            /\ UNCHANGED <<late, faults>>
      \/ Event /\ late' = late \cup {CommandOf(t)} /\ Goto(t, "fail") /\ UNCHANGED tv
  BY DEF Command
<1>8. UNCHANGED <<late, faults>> => late' \subseteq Sent /\ faults' \in Nat
  BY StoreTyped
<1> QED
  BY <1>1, <1>2, <1>4, <1>5, <1>6, <1>7, <1>8

LEMMA ApplyTyped ==
  ASSUME TypeInv, NEW t \in Threads, Apply(t)
  PROVE  TypeInv'
<1>1. ASSUME NEW id \in 1..Len(profiles), StartApply(t, id) PROVE TypeInv'
  <2>1. profiles[id] \in Profile
    BY StoreTyped
  <2>2. PICK pc \in {"list", "inspect", "result"} :
            /\ pc = "inspect" => Len(profiles[id].packages) > 0
            /\ pc = "result" => Len(profiles[id].packages) = 0
            /\ threads' = [threads EXCEPT ![t] = NewThread(pc, profiles[id])]
    <3>1. Len(profiles[id].packages) \in Nat
          /\ (profiles[id].packages # << >> => Len(profiles[id].packages) > 0)
          /\ (profiles[id].packages = << >> => Len(profiles[id].packages) = 0)
      BY <2>1 DEF Profile
    <3>2. CASE profiles[id].packages = << >>
      BY <1>1, <3>1, <3>2 DEF StartApply
    <3>3. CASE profiles[id].packages # << >>
      BY <1>1, <3>1, <3>3 DEF StartApply
    <3> QED
      BY <3>2, <3>3
  <2>3. NewThread(pc, profiles[id]) \in Thread /\ Shape(NewThread(pc, profiles[id]), Len(ops))
    BY <2>1, <2>2, NewThreadTyped, StoreTyped
  <2> QED
    BY <1>1, <2>2, <2>3, StepTyped, StoreTyped DEF StartApply
<1>2. CASE Inspect(t)
  <2>1. threads[t] \in Thread /\ Shape(threads[t], Len(ops)) /\ t \in Live
        /\ threads[t].pc = "inspect"
    BY <1>2, LiveIsThread DEF Inspect, At
  <2>2. Desired(t) \in Entry
    BY <2>1, DesiredIsEntry DEF EntryPcs
  <2> DEFINE now == tv[Desired(t).package]
             x(apk) == [threads[t] EXCEPT !.pc = "begin", !.current = now, !.beforeApk = apk]
  <2>3. now \in State
    BY <2>2, StoreTyped DEF Entry
  <2>4. ASSUME NEW apk \in Apk PROVE x(apk) \in Thread /\ Shape(x(apk), Len(ops))
    BY <2>1, <2>3 DEF Thread, ApplySteps, Shape, EntryPcs, RowPcs
  <2>5. CompareEnabled(t, now) \in Thread /\ Shape(CompareEnabled(t, now), Len(ops))
    BY <2>1, <2>3, CompareEnabledTyped DEF EntryPcs
  <2>6. \/ threads' = [threads EXCEPT ![t] = CompareEnabled(t, now)]
        \/ End(t)
        \/ \E apk \in BeforeApks(t, now) : threads' = Begun(t, now, apk)
    BY <1>2 DEF Inspect, Begun
  <2>7. ASSUME NEW apk \in BeforeApks(t, now), threads' = Begun(t, now, apk) PROVE TypeInv'
    <3>1. threads' = [threads EXCEPT ![t] = x(apk)]
      BY <2>7, StoreTyped DEF Begun
    <3>2. apk \in Apk
      BY ExactTyped DEF BeforeApks, Apk
    <3>3. x(apk) \in Thread /\ Shape(x(apk), Len(ops))
      BY <2>4, <3>2
    <3> HIDE DEF x
    <3> QED
      BY <1>2, <3>1, <3>3, StepTyped, StoreTyped DEF Inspect
  <2> HIDE DEF now
  <2>8. CASE threads' = [threads EXCEPT ![t] = CompareEnabled(t, now)]
    BY <1>2, <2>5, <2>8, StepTyped, StoreTyped DEF Inspect
  <2>9. CASE End(t)
    BY <1>2, <2>9, EndTyped, StoreTyped DEF Inspect
  <2> QED
    BY <2>6, <2>7, <2>8, <2>9
<1>3. CASE BeginRow(t)
  <2>1. threads[t] \in Thread /\ Shape(threads[t], Len(ops)) /\ t \in Live
        /\ threads[t].pc = "begin"
    BY <1>3, LiveIsThread DEF BeginRow, At
  <2>2. RowOf(t) \in Operation
    BY <2>1, RowOfTyped
  <2>3. ops' \in Seq(Operation) /\ Len(ops') = Len(ops) + 1 /\ Len(ops) \in Nat
    BY <1>3, <2>2, StoreTyped DEF BeginRow, Begin
  <2> DEFINE batch == Append(threads[t].batch, Len(ops) + 1)
             x == [threads[t] EXCEPT !.pc = "command", !.batch = batch]
  <2>4. /\ batch \in Seq(Nat)
        /\ Len(batch) > 0
        /\ \A i \in 1..Len(batch) : batch[i] \in 1..(Len(ops) + 1)
    BY <2>1, <2>3 DEF Shape, Thread
  <2>5. x \in Thread
    BY <2>1, <2>4 DEF Thread, ApplySteps
  <2>6. Shape(x, Len(ops'))
    <3>1. /\ x.pc = "command" /\ x.batch = batch
          /\ x.index = threads[t].index /\ x.profile = threads[t].profile
      BY <2>1 DEF Thread
    <3> HIDE DEF x, batch
    <3> QED
      BY <2>1, <2>3, <2>4, <3>1 DEF Shape, EntryPcs, RowPcs
  <2>7. threads' = [threads EXCEPT ![t] = x]
    BY <1>3, StoreTyped DEF BeginRow
  <2>8. Len(ops') >= Len(ops)
    BY <2>3
  <2>9. /\ library' \in Library /\ bare' \subseteq Files /\ late' \subseteq Sent
        /\ raced' \subseteq Files /\ faults' \in Nat /\ profiles' \in Seq(Profile)
    BY <1>3, StoreTyped DEF BeginRow
  <2> HIDE DEF x
  <2> QED
    BY <1>3, <2>3, <2>5, <2>6, <2>7, <2>8, <2>9, MoveTyped DEF BeginRow
<1>4. CASE ApplyStops(t)
  BY <1>4, EndTyped, StoreTyped DEF ApplyStops
<1>5. CASE Command(t)
  <2>1. threads[t] \in Thread /\ Shape(threads[t], Len(ops)) /\ t \in Live
        /\ threads[t].pc = "command" /\ Desired(t).package \in Packages
    BY <1>5, CommandMoves, LiveIsThread
  <2>2. CommandOf(t) \in Sent /\ tv[Desired(t).package] \in State
    BY <2>1, CommandOfTyped, StoreTyped
  <2>3. tv' \in [Packages -> State]
    <3>1. PICK state \in {tv[Desired(t).package]} \cup Effects(CommandOf(t)) :
              tv' = [tv EXCEPT ![Desired(t).package] = state]
      BY <1>5, CommandMoves
    <3>2. state \in State
      BY <2>2, EffectsTyped
    <3> QED
      BY <2>1, <3>1, <3>2, StoreTyped
  <2>4. PICK pc \in {"verify", "fail"} : threads'[t] = [threads[t] EXCEPT !.pc = pc]
    BY <1>5, CommandMoves
  <2>5. [threads[t] EXCEPT !.pc = pc] \in Thread
        /\ Shape([threads[t] EXCEPT !.pc = pc], Len(ops))
    BY <2>1 DEF Thread, ApplySteps, Shape, EntryPcs, RowPcs
  <2>6. ASSUME NEW s \in Threads
        PROVE  /\ threads'[s] \in Thread \cup {NoThread}
               /\ threads'[s] # NoThread => Shape(threads'[s], Len(ops))
    <3>1. CASE s = t
      BY <2>4, <2>5, <3>1
    <3>2. CASE s # t
      BY <1>5, <3>2, CommandMoves, DisturbTyped, LiveIsThread DEF Live
    <3> QED
      BY <3>1, <3>2
  <2>7. threads' \in [Threads -> Thread \cup {NoThread}]
    BY <1>5, <2>6, CommandMoves
  <2> QED
    BY <1>5, <2>3, <2>6, <2>7, CommandMoves, ThreadsTyped DEF TypeInv, TypeOK, JournalTypeOK
<1>6. CASE Verify(t)
  <2>1. threads[t] \in Thread /\ Shape(threads[t], Len(ops)) /\ t \in Live
        /\ threads[t].pc = "verify"
    BY <1>6, LiveIsThread DEF Verify, At
  <2>2. tv[Desired(t).package] \in State
    BY <2>1, DesiredIsEntry, StoreTyped DEF EntryPcs, Entry
  <2>3. PICK pc \in {"complete", "fail"} :
            threads' = [threads EXCEPT ![t].after = tv[Desired(t).package], ![t].pc = pc]
    BY <1>6 DEF Verify
  <2> DEFINE x == [threads[t] EXCEPT !.after = tv[Desired(t).package], !.pc = pc]
  <2>4. x \in Thread /\ Shape(x, Len(ops))
    BY <2>1, <2>2 DEF Thread, ApplySteps, Shape, EntryPcs, RowPcs
  <2>5. threads' = [threads EXCEPT ![t] = x]
    BY <2>3, StoreTyped
  <2> HIDE DEF x
  <2> QED
    BY <1>6, <2>4, <2>5, StepTyped, StoreTyped DEF Verify
<1>7. CASE VerdictFails(t)
  <2>1. threads[t] \in Thread /\ Shape(threads[t], Len(ops)) /\ t \in Live
        /\ threads[t].pc \in {"verify", "complete"}
    BY <1>7, LiveIsThread DEF VerdictFails
  <2> DEFINE x == [threads[t] EXCEPT !.pc = "fail"]
  <2>2. x \in Thread /\ Shape(x, Len(ops))
    BY <2>1 DEF Thread, ApplySteps, Shape, EntryPcs, RowPcs
  <2>3. threads' = [threads EXCEPT ![t] = x]
    BY <1>7, StoreTyped DEF VerdictFails, Goto
  <2> HIDE DEF x
  <2> QED
    BY <1>7, <2>2, <2>3, StepTyped, StoreTyped DEF VerdictFails
<1>8. CASE CompleteRow(t)
  <2>1. threads[t] \in Thread /\ t \in Live /\ threads[t].pc = "complete"
    BY <1>8, LiveIsThread DEF CompleteRow, At
  <2>2. threads[t].after \in State /\ OpOf(t) \in Ids
    BY <2>1, OpOfIsRow DEF Thread, RowPcs
  <2>3. ops' \in Seq(Operation) /\ Len(ops') = Len(ops)
    BY <1>8, <2>2, VerdictTyped DEF CompleteRow
  <2>4. PICK x : /\ x \in Thread
                 /\ Shape(x, Len(ops))
                 /\ threads' = [threads EXCEPT ![t] = x]
    BY <1>8, <2>1, <2>2, CompareEnabledTyped, NextEntryTyped DEF CompleteRow, EntryPcs
  <2>5. Len(ops') >= Len(ops) /\ Shape(x, Len(ops'))
    BY <2>3, <2>4, StoreTyped
  <2> QED
    BY <1>8, <2>3, <2>4, <2>5, MoveTyped, StoreTyped DEF CompleteRow
<1>9. CASE FailRow(t)
  <2>1. t \in Live /\ threads[t].pc = "fail"
    BY <1>9 DEF FailRow, At
  <2>2. ops' \in Seq(Operation) /\ Len(ops') = Len(ops)
    <3>1. OpOf(t) \in Ids /\ Absent \in State
      BY <2>1, OpOfIsRow DEF RowPcs, Absent, State, Apk
    <3> QED
      BY <1>9, <3>1, VerdictTyped, StoreTyped DEF FailRow
  <2>3. threads' \in [Threads -> Thread \cup {NoThread}]
    BY <1>9, StoreTyped DEF FailRow, End
  <2>4. \A s \in Threads : threads'[s] # NoThread => Shape(threads'[s], Len(ops'))
    BY <1>9, <2>2, StoreTyped DEF FailRow, End, TypeInv, Live
  <2>5. faults' \in Nat
    BY <1>9, StoreTyped DEF FailRow, Event
  <2> QED
    BY <1>9, <2>2, <2>3, <2>4, <2>5, ThreadsTyped DEF FailRow, TypeInv, TypeOK
<1>10. CASE Result(t)
  BY <1>10, EndTyped, StoreTyped DEF Result
<1> QED
  BY <1>1, <1>2, <1>3, <1>4, <1>5, <1>6, <1>7, <1>8, <1>9, <1>10 DEF Apply

LEMMA InitTyped ==
  ASSUME Init
  PROVE  TypeInv
<1>1. PICK start \in Starts : /\ tv = start.tv
                              /\ library = start.library
                              /\ bare = start.bare
                              /\ profiles = start.profiles
  BY DEF Init
<1>2. /\ tv \in [Packages -> State]
      /\ library \in Library
      /\ bare \subseteq Files
      /\ profiles \in Seq(Profile)
  BY <1>1, StartsAreStates
<1>3. raced \subseteq Files
  BY DEF Init
<1>4. Live = {} /\ threads \in [Threads -> Thread \cup {NoThread}]
  BY DEF Init, Live
<1>5. ops \in Seq(Operation) /\ device \in Devices /\ deleting = NoDeletion
      /\ late = {} /\ faults = 0
  BY DEF Init, JournalInit
<1> QED
  BY <1>2, <1>3, <1>4, <1>5 DEF TypeInv, TypeOK, JournalTypeOK

\* The rows and the threads stay, and the rest is typed.
LEMMA QuietTyped ==
  ASSUME TypeInv, UNCHANGED <<ops, tv, device, profiles, threads, late>>,
         library' \in Library, bare' \subseteq Files,
         deleting' \in Deletion \cup {NoDeletion}, raced' \subseteq Files, faults' \in Nat
  PROVE  TypeInv'
BY DEF TypeInv, TypeOK, JournalTypeOK, Live

LEMMA DeletionTyped ==
  ASSUME TypeInv,
         \/ \E p \in Packages, f \in Versions : StartDelete(p, f)
         \/ CheckProfiles
         \/ Unlink
  PROVE  TypeInv'
<1>1. ASSUME NEW p \in Packages, NEW f \in Versions, StartDelete(p, f) PROVE TypeInv'
  <2>1. (HeldByRow(p, f) \/ HeldByProfile(p, f)) \in BOOLEAN
    OBVIOUS
  <2>2. deleting' \in Deletion
    BY <1>1, <2>1 DEF StartDelete, Deletion
  <2> QED
    BY <1>1, <2>2, QuietTyped, StoreTyped DEF StartDelete
<1>2. CASE CheckProfiles
  <2>1. deleting \in Deletion
    BY <1>2 DEF CheckProfiles, TypeInv, TypeOK
  <2>2. [deleting EXCEPT !.pc = "unlink"] \in Deletion
    BY <2>1 DEF Deletion
  <2> QED
    BY <1>2, <2>2, QuietTyped, StoreTyped DEF CheckProfiles
<1>3. CASE Unlink
  <2>1. deleting.package \in Packages /\ deleting.file \in Versions
    BY <1>3 DEF Unlink, TypeInv, TypeOK, Deletion
  <2>2. library' \in Library /\ bare' \subseteq Files
    BY <1>3, <2>1, StoreTyped DEF Unlink, Library
  <2>3. raced' \subseteq Files
    BY <1>3, <2>1, StoreTyped DEF Unlink, Files
  <2> QED
    BY <1>3, <2>2, <2>3, QuietTyped, StoreTyped DEF Unlink
<1> QED
  BY <1>1, <1>2, <1>3

LEMMA EnvironmentTyped ==
  ASSUME TypeInv, Environment
  PROVE  TypeInv'
<1>1. ASSUME NEW p \in Packages, OtherDownload(p) PROVE TypeInv'
  <2>1. PICK served \in Served :
            /\ Archived(p, served[1], served[2]) \/ Discarded(p, served[1])
            /\ RacedBy(p, served[1])
    BY <1>1 DEF OtherDownload
  <2>2. library' \in Library /\ bare' \subseteq Files /\ raced' \subseteq Files
    BY <2>1, DownloadTyped
  <2>3. faults' \in Nat /\ deleting' \in Deletion \cup {NoDeletion}
    BY <1>1, StoreTyped DEF OtherDownload, Event, TypeInv, TypeOK
  <2> QED
    BY <1>1, <2>2, <2>3, QuietTyped DEF OtherDownload
<1>2. CASE ~\E p \in Packages : OtherDownload(p)
  <2>1. faults' \in Nat
    BY <1>2, StoreTyped DEF Environment, Crash, DeviceChange, ExternalChange, LateEffect, Event
  <2>2. \/ threads' = [t \in Threads |-> NoThread]
        \/ threads' = [t \in Threads |-> Disturb(t)]
    BY <1>2 DEF Environment, Crash, DeviceChange, ExternalChange, LateEffect
  <2>3. \A s \in Threads : threads'[s] # NoThread => Shape(threads'[s], Len(ops))
    BY <2>2, DisturbTyped
  <2>4. threads' \in [Threads -> Thread \cup {NoThread}]
    BY <2>2, DisturbTyped
  <2>5. UNCHANGED <<ops, library, bare, profiles, raced>>
        /\ deleting' \in Deletion \cup {NoDeletion}
    BY <1>2 DEF Environment, Crash, DeviceChange, ExternalChange, LateEffect, TypeInv, TypeOK
  <2>6. tv' \in [Packages -> State]
    <3>1. ASSUME NEW c \in late, LateEffect(c) PROVE tv' \in [Packages -> State]
      <4>1. c \in Sent
        BY StoreTyped
      <4> QED
        BY <3>1, <4>1, EffectsTyped, StoreTyped DEF LateEffect, Sent
    <3> QED
      BY <1>2, <3>1, StoreTyped DEF Environment, Crash, DeviceChange, ExternalChange
  <2>7. device' \in Devices
    BY <1>2, StoreTyped DEF Environment, Crash, DeviceChange, ExternalChange, LateEffect
  <2>8. late' \subseteq Sent
    <3>1. CASE Crash
      <4>1. PICK sent \in SUBSET {t \in Live : threads[t].pc = "command" /\ Sendable(t)} :
                late' = late \cup {CommandOf(t) : t \in sent}
        BY <3>1 DEF Crash
      <4>2. \A t \in sent : CommandOf(t) \in Sent
        BY CommandOfTyped
      <4> QED
        BY <4>1, <4>2, StoreTyped
    <3>2. CASE ~Crash
      BY <1>2, <3>2, StoreTyped DEF Environment, DeviceChange, ExternalChange, LateEffect
    <3> QED
      BY <3>1, <3>2
  <2> QED
    BY <2>1, <2>3, <2>4, <2>5, <2>6, <2>7, <2>8, ThreadsTyped, StoreTyped
<1> QED
  BY <1>1, <1>2

LEMMA NextTyped ==
  ASSUME TypeInv, [Next]_vars
  PROVE  TypeInv'
<1>1. CASE Next
  BY <1>1, CaptureTyped, ApplyTyped, DeletionTyped, EnvironmentTyped, QuietTyped
     DEF Next, AwaitRequest, vars, TypeInv, TypeOK
<1>2. CASE UNCHANGED vars
  BY <1>2, QuietTyped DEF vars, TypeInv, TypeOK
<1> QED
  BY <1>1, <1>2

LEMMA AlwaysTyped == Spec => []TypeInv
BY InitTyped, NextTyped, PTL DEF Spec

\* The rows, the television, the library, the profiles and every capture, application and
\* deletion keep their types.
THEOREM ProfilesTypeCorrect == Spec => []TypeOK
<1>1. TypeInv => TypeOK
  BY DEF TypeInv
<1> QED
  BY <1>1, AlwaysTyped, PTL

-----------------------------------------------------------------------------
(* What every step keeps of the rows, the threads and the profiles.        *)

\* A thread whose record stays, but for alone, keeps its entry and its row.
LEMMA SameThread ==
  ASSUME TypeInv, NEW s \in Threads,
         threads'[s] = threads[s] \/ threads'[s] = Disturb(s)
  PROVE  /\ s \in Live' => s \in Live
         /\ s \in Live => /\ Desired(s)' = Desired(s)
                          /\ RowOf(s)' = RowOf(s)
                          /\ OpOf(s)' = OpOf(s)
                          /\ \A f \in DOMAIN threads[s] \ {"alone"} :
                                threads'[s][f] = threads[s][f]
<1>1. CASE s \notin Live
  BY <1>1 DEF Live, Disturb
<1>2. CASE s \in Live
  <2>1. threads[s] \in Thread
    BY <1>2, LiveIsThread
  <2>2. /\ threads'[s].profile = threads[s].profile
        /\ threads'[s].index = threads[s].index
        /\ threads'[s].change = threads[s].change
        /\ threads'[s].current = threads[s].current
        /\ threads'[s].beforeApk = threads[s].beforeApk
        /\ threads'[s].batch = threads[s].batch
    BY <1>2, <2>1 DEF Live, Disturb, Thread
  <2>3. \A f \in DOMAIN threads[s] \ {"alone"} : threads'[s][f] = threads[s][f]
    BY <1>2, <2>1 DEF Live, Disturb, Thread
  <2>4. Desired(s)' = Desired(s)
    BY <2>2 DEF Desired
  <2>5. RowOf(s)' = RowOf(s)
    BY <2>2, <2>4 DEF RowOf
  <2>6. OpOf(s)' = OpOf(s)
    BY <2>2 DEF OpOf
  <2> QED
    BY <1>2, <2>3, <2>4, <2>5, <2>6
<1> QED
  BY <1>1, <1>2

LEMMA OthersStay ==
  ASSUME NEW t \in Threads, Capture(t) \/ Apply(t), TypeInv,
         NEW s \in Threads \ {t}
  PROVE  threads'[s] = threads[s] \/ threads'[s] = Disturb(s)
<1>1. CASE Capture(t)
  BY <1>1, StoreTyped DEF Capture, StartCapture, ListPackages, ReadPackage, Captured, Fetch,
     Save, CaptureFails, End
<1>2. CASE Command(t)
  BY <1>2, CommandMoves
<1>3. CASE Apply(t) /\ ~Command(t)
  BY <1>3, StoreTyped DEF Apply, StartApply, Inspect, BeginRow, ApplyStops, Verify,
     VerdictFails, Goto, CompleteRow, FailRow, Result, End
<1> QED
  BY <1>1, <1>2, <1>3

\* A read takes the package at hand, with a file that states its version or without.
LEMMA ReadStep ==
  ASSUME TypeInv, NEW t \in Threads, ReadPackage(t) \/ Fetch(t)
  PROVE  /\ t \in Live
         /\ threads[t].pc \in {"read", "fetch"}
         /\ \E q \in Packages, state \in State, apk \in Apk :
               /\ AtHand(t, q)
               /\ \/ /\ threads' = Captured(t, q, state, apk)
                     /\ apk # 0 => library'[q][apk] = state.version
                  \/ threads' = [threads EXCEPT ![t].current = state, ![t].pc = "fetch"]
<1>1. t \in Live /\ threads[t] \in Thread /\ threads[t].pc \in {"read", "fetch"}
  BY LiveIsThread DEF ReadPackage, Fetch, At
<1>2. CASE ReadPackage(t)
  <2>1. PICK q \in Packages, apk \in Apk :
            /\ AtHand(t, q)
            /\ apk \in ExactApks(library[q], tv[q].version)
            /\ threads' = IF apk # 0 THEN Captured(t, q, tv[q], apk)
                          ELSE [threads EXCEPT ![t].current = tv[q], ![t].pc = "fetch"]
    BY <1>2, ExactTyped DEF ReadPackage
  <2>2. tv[q] \in State
    BY StoreTyped
  <2>3. apk # 0 => library'[q][apk] = tv[q].version
    BY <1>2, <2>1, ExactTyped DEF ReadPackage
  <2> QED
    BY <1>1, <2>1, <2>2, <2>3
<1>3. CASE Fetch(t)
  <2>1. PICK q \in Packages, apk \in Apk :
            /\ AtHand(t, q)
            /\ apk # 0 => apk \in ExactApks(library'[q], threads[t].current.version)
            /\ threads' = Captured(t, q, threads[t].current, apk)
    <3>1. 0 \in Apk
      BY DEF Apk
    <3> QED
      BY <1>3, <3>1, ExactTyped DEF Fetch
  <2>2. threads[t].current \in State
    BY <1>1 DEF Thread
  <2>3. apk # 0 => library'[q][apk] = threads[t].current.version
    BY <2>1, ExactTyped
  <2> QED
    BY <1>1, <2>1, <2>2, <2>3
<1> QED
  BY <1>2, <1>3

\* What a thread goes on with after an entry or a version.
LEMMA CompareFacts ==
  ASSUME TypeInv, NEW t \in Live, NEW c \in State
  PROVE  LET x == CompareEnabled(t, c) IN
         /\ x.profile = threads[t].profile
         /\ x.batch = threads[t].batch
         /\ x.alone = threads[t].alone
         /\ x.pc \in {"begin", "inspect", "result"}
         /\ x.pc = "begin" => /\ x.index = threads[t].index
                              /\ x.change = "enabled"
                              /\ x.current = c
         /\ x.pc # "begin" => /\ x.index = threads[t].index + 1
                              /\ x.change = "version"
                              /\ c.enabled = Desired(t).state.enabled
<1>1. threads[t] \in Thread
  BY LiveIsThread
<1>2. CASE c.enabled = Desired(t).state.enabled
  BY <1>1, <1>2 DEF CompareEnabled, NextEntry, Thread
<1>3. CASE c.enabled # Desired(t).state.enabled
  BY <1>1, <1>3 DEF CompareEnabled, Thread
<1> QED
  BY <1>2, <1>3

LEMMA NextEntryFacts ==
  ASSUME TypeInv, NEW t \in Live
  PROVE  /\ NextEntry(t).profile = threads[t].profile
         /\ NextEntry(t).batch = threads[t].batch
         /\ NextEntry(t).alone = threads[t].alone
         /\ NextEntry(t).pc \in {"inspect", "result"}
         /\ NextEntry(t).index = threads[t].index + 1
         /\ NextEntry(t).change = "version"
BY LiveIsThread DEF NextEntry, Thread

\* The thread that finds something to change, and what it goes on with.
LEMMA InspectMoves ==
  ASSUME TypeInv, NEW t \in Threads, Inspect(t)
  PROVE  LET now == tv[Desired(t).package] IN
         /\ t \in Live /\ threads[t] \in Thread /\ threads[t].pc = "inspect"
         /\ now \in State
         /\ UNCHANGED <<ops, tv, device, library, bare, profiles, deleting, late, raced, faults>>
         /\ \/ threads' = [threads EXCEPT ![t] = CompareEnabled(t, now)] /\ HasVersion(t, now)
            \/ End(t)
            \/ \E apk \in Apk :
                  /\ threads' = Begun(t, now, apk)
                  /\ Installed(now) => /\ apk # 0
                                       /\ library[Desired(t).package][apk] = now.version
<1> DEFINE now == tv[Desired(t).package]
<1>1. t \in Live /\ threads[t] \in Thread /\ threads[t].pc = "inspect"
  BY LiveIsThread DEF Inspect, At
<1>2. now \in State
  BY <1>1, DesiredIsEntry, StoreTyped DEF EntryPcs, Entry
<1>3. UNCHANGED <<ops, tv, device, library, bare, profiles, deleting, late, raced, faults>>
  BY DEF Inspect
<1>4. CASE HasVersion(t, now)
  BY <1>1, <1>2, <1>3, <1>4 DEF Inspect
<1>5. CASE ~HasVersion(t, now)
  <2>1. PICK apk \in BeforeApks(t, now) :
            \/ End(t)
            \/ /\ threads' = Begun(t, now, apk)
               /\ ~(Installed(now) /\ apk = 0)
    BY <1>5 DEF Inspect, Begun
  <2>2. apk \in Apk
    BY ExactTyped DEF BeforeApks, Apk
  <2>3. Installed(now) /\ apk # 0 => library[Desired(t).package][apk] = now.version
    BY ExactTyped DEF BeforeApks
  <2> HIDE DEF now
  <2>4. CASE End(t)
    BY <1>1, <1>2, <1>3, <2>4 DEF now
  <2>5. CASE ~End(t)
    <3>1. \E a \in Apk : /\ threads' = Begun(t, now, a)
                         /\ Installed(now) => /\ a # 0
                                              /\ library[Desired(t).package][a] = now.version
      BY <2>1, <2>2, <2>3, <2>5
    <3> QED
      BY <1>1, <1>2, <1>3, <3>1 DEF now
  <2> QED
    BY <2>4, <2>5
<1> QED
  BY <1>4, <1>5

LEMMA BegunFacts ==
  ASSUME TypeInv, NEW t \in Live, NEW current, NEW apk, threads' = Begun(t, current, apk)
  PROVE  /\ threads'[t].pc = "begin"
         /\ threads'[t].current = current
         /\ threads'[t].beforeApk = apk
         /\ threads'[t].profile = threads[t].profile
         /\ threads'[t].index = threads[t].index
         /\ threads'[t].change = threads[t].change
         /\ threads'[t].batch = threads[t].batch
         /\ threads'[t].alone = threads[t].alone
         /\ Desired(t)' = Desired(t)
<1>1. threads[t] \in Thread /\ threads \in [Threads -> Thread \cup {NoThread}] /\ t \in Threads
  BY LiveIsThread, StoreTyped
<1>2. /\ threads'[t].pc = "begin"
      /\ threads'[t].current = current
      /\ threads'[t].beforeApk = apk
      /\ threads'[t].profile = threads[t].profile
      /\ threads'[t].index = threads[t].index
      /\ threads'[t].change = threads[t].change
      /\ threads'[t].batch = threads[t].batch
      /\ threads'[t].alone = threads[t].alone
  BY <1>1 DEF Begun, Thread
<1> QED
  BY <1>2 DEF Desired

\* A thread that does nothing itself.
LEMMA ElsewhereStay ==
  ASSUME TypeInv, [Next]_vars, NEW s \in Threads, ~Capture(s), ~Apply(s)
  PROVE  threads'[s] \in {threads[s], Disturb(s), NoThread}
<1>1. ASSUME NEW t \in Threads, Capture(t) \/ Apply(t)
      PROVE  threads'[s] \in {threads[s], Disturb(s), NoThread}
  BY <1>1, OthersStay
<1>2. CASE Environment
  BY <1>2 DEF Environment, Crash, DeviceChange, LateEffect, ExternalChange, OtherDownload
<1> QED
  BY <1>1, <1>2 DEF Next, StartDelete, CheckProfiles, Unlink, AwaitRequest, vars

\* The three things a step does to the rows.
LEMMA RowSteps ==
  ASSUME TypeInv, [Next]_vars
  PROVE  \/ UNCHANGED ops
         \/ \E t \in Threads : BeginRow(t)
         \/ \E t \in Threads : t \in Live /\ threads[t].pc \in RowPcs
                               /\ Complete(OpOf(t), threads[t].after) /\ CompleteRow(t)
         \/ \E t \in Threads : t \in Live /\ threads[t].pc \in RowPcs
                               /\ Fail(OpOf(t)) /\ FailRow(t)
<1>1. ASSUME NEW t \in Threads, Capture(t) PROVE UNCHANGED ops
  BY <1>1 DEF Capture, StartCapture, ListPackages, ReadPackage, Fetch, Save, CaptureFails
<1>2. ASSUME NEW t \in Threads, Apply(t), ~BeginRow(t), ~CompleteRow(t), ~FailRow(t)
      PROVE  UNCHANGED ops
  BY <1>2 DEF Apply, StartApply, Inspect, ApplyStops, Command, Verify, VerdictFails, Result
<1>3. ASSUME NEW t \in Threads, CompleteRow(t)
      PROVE  t \in Live /\ threads[t].pc \in RowPcs /\ Complete(OpOf(t), threads[t].after)
  BY <1>3 DEF CompleteRow, At, RowPcs
<1>4. ASSUME NEW t \in Threads, FailRow(t)
      PROVE  /\ t \in Live /\ threads[t].pc \in RowPcs
             /\ Fail(OpOf(t)) \/ UNCHANGED ops
  BY <1>4 DEF FailRow, At, RowPcs
<1>5. CASE ~(\E t \in Threads : Capture(t) \/ Apply(t))
  BY <1>5 DEF Next, StartDelete, CheckProfiles, Unlink, Environment, Crash, DeviceChange,
     LateEffect, ExternalChange, OtherDownload, AwaitRequest, vars
<1> QED
  BY <1>1, <1>2, <1>3, <1>4, <1>5

\* A verdict: the row had none, and nothing but its status and result changes.
LEMMA VerdictRows ==
  ASSUME TypeInv, NEW i \in Ids, NEW state \in State, Complete(i, state) \/ Fail(i)
  PROVE  /\ Ids' = Ids
         /\ \A k \in Ids \ {i} : ops'[k] = ops[k]
         /\ \A f \in DOMAIN ops[i] \ {"status", "after"} : ops'[i][f] = ops[i][f]
         /\ Complete(i, state) => ops'[i].status = "applied"
<1>1. ops \in Seq(Operation) /\ ops[i] \in Operation
  BY StoreTyped DEF Ids
<1>2. CASE Complete(i, state)
  <2>1. ops' = [ops EXCEPT ![i] = [ops[i] EXCEPT !.status = "applied", !.after = state]]
    BY <1>1, <1>2 DEF Complete, Ids, Operation
  <2> QED
    BY <1>1, <2>1 DEF Ids, Operation
<1>3. CASE Fail(i) /\ ~Complete(i, state)
  <2>1. ops' = ops \/ ops' = [ops EXCEPT ![i] = [ops[i] EXCEPT !.status = "uncertain"]]
    BY <1>1, <1>3 DEF Fail, Ids
  <2> QED
    BY <1>1, <1>3, <2>1 DEF Ids, Operation
<1> QED
  BY <1>2, <1>3

LEMMA BegunRows ==
  ASSUME TypeInv, NEW t \in Threads, BeginRow(t)
  PROVE  /\ t \in Live /\ threads[t].pc = "begin"
         /\ RowOf(t) \in Operation
         /\ Ids' = Ids \cup {Len(ops) + 1}
         /\ Len(ops) + 1 \notin Ids
         /\ \A i \in Ids : ops'[i] = ops[i]
         /\ ops'[Len(ops) + 1] = RowOf(t)
<1>1. t \in Live /\ threads[t].pc = "begin"
  BY DEF BeginRow, At
<1>2. RowOf(t) \in Operation
  BY <1>1, RowOfTyped
<1> QED
  BY <1>1, <1>2, StoreTyped DEF BeginRow, Begin, Ids

\* What a row was begun with it keeps, and a new row is the one its thread describes.
LEMMA RowsKeep ==
  ASSUME TypeInv, [Next]_vars
  PROVE  /\ \A i \in Ids :
               /\ i \in Ids'
               /\ ops'[i].package = ops[i].package
               /\ ops'[i].inverse = ops[i].inverse
               /\ ops'[i].before = ops[i].before
               /\ ops'[i].beforeApk = ops[i].beforeApk
               /\ ops'[i].afterApk = ops[i].afterApk
               /\ ops'[i].status = ops[i].status \/ ops[i].status = "pending"
         /\ \A i \in Ids' \ Ids :
               \E t \in Live : threads[t].pc = "begin" /\ ops'[i] = RowOf(t)
<1>1. CASE UNCHANGED ops
  BY <1>1 DEF Ids
<1>2. ASSUME NEW t \in Threads, BeginRow(t)
      PROVE  /\ \A i \in Ids : i \in Ids' /\ ops'[i] = ops[i]
             /\ \A i \in Ids' \ Ids :
                   t \in Live /\ threads[t].pc = "begin" /\ ops'[i] = RowOf(t)
  BY <1>2, BegunRows
<1>3. ASSUME NEW t \in Live, threads[t].pc \in RowPcs, NEW state \in State,
             Complete(OpOf(t), state) \/ Fail(OpOf(t))
      PROVE  /\ Ids' = Ids
             /\ \A i \in Ids :
                   /\ ops'[i].package = ops[i].package
                   /\ ops'[i].inverse = ops[i].inverse
                   /\ ops'[i].before = ops[i].before
                   /\ ops'[i].beforeApk = ops[i].beforeApk
                   /\ ops'[i].afterApk = ops[i].afterApk
                   /\ ops'[i].status = ops[i].status \/ ops[i].status = "pending"
  <2>1. OpOf(t) \in Ids
    BY <1>3, OpOfIsRow
  <2>2. ops[OpOf(t)] \in Operation
    BY <2>1, StoreTyped DEF Ids
  <2>3. /\ Ids' = Ids
        /\ \A k \in Ids \ {OpOf(t)} : ops'[k] = ops[k]
        /\ \A f \in DOMAIN ops[OpOf(t)] \ {"status", "after"} :
              ops'[OpOf(t)][f] = ops[OpOf(t)][f]
    BY <1>3, <2>1, VerdictRows
  <2>4. ops[OpOf(t)].status = "pending" \/ ops' = ops
    BY <1>3 DEF Complete, Fail, IsPending
  <2>5. ASSUME NEW i \in Ids
        PROVE  /\ ops'[i].package = ops[i].package
               /\ ops'[i].inverse = ops[i].inverse
               /\ ops'[i].before = ops[i].before
               /\ ops'[i].beforeApk = ops[i].beforeApk
               /\ ops'[i].afterApk = ops[i].afterApk
               /\ ops'[i].status = ops[i].status \/ ops[i].status = "pending"
    BY <2>2, <2>3, <2>4 DEF Operation
  <2> QED
    BY <2>3, <2>5
<1>4. Absent \in State
  BY DEF Absent, State, Apk
<1>5. \A t \in Live : threads[t].after \in State
  BY LiveIsThread DEF Thread
<1> QED
  BY <1>1, <1>2, <1>3, <1>4, <1>5, RowSteps

\* A profile is added when a capture saves it, and none is lost.
LEMMA ProfilesGrow ==
  ASSUME TypeInv, [Next]_vars
  PROVE  \/ profiles' = profiles
         \/ \E t \in Live : /\ threads[t].pc = "save"
                            /\ threads[t].profile \in Profile
                            /\ profiles' = Append(profiles, threads[t].profile)
<1>1. ASSUME NEW t \in Threads, Save(t)
      PROVE  /\ t \in Live /\ threads[t].pc = "save" /\ threads[t].profile \in Profile
             /\ profiles' = Append(profiles, threads[t].profile)
  BY <1>1, LiveIsThread DEF Save, At, Thread
<1>2. (\E t \in Threads : Save(t)) \/ profiles' = profiles
  <2>1. ASSUME NEW t \in Threads, Capture(t) \/ Apply(t), ~Save(t) PROVE profiles' = profiles
    BY <2>1, CommandMoves DEF Capture, StartCapture, ListPackages, ReadPackage, Fetch,
       CaptureFails, Apply, StartApply, Inspect, BeginRow, ApplyStops, Verify, VerdictFails,
       CompleteRow, FailRow, Result
  <2> QED
    BY <2>1 DEF Next, StartDelete, CheckProfiles, Unlink, Environment, Crash, DeviceChange,
       LateEffect, ExternalChange, OtherDownload, AwaitRequest, vars
<1> QED
  BY <1>1, <1>2

\* What a saved profile holds it goes on holding.
LEMMA ProfilesStay ==
  ASSUME TypeInv, NEW x \in Profile,
         profiles' = profiles \/ profiles' = Append(profiles, x)
  PROVE  /\ \A id \in 1..Len(profiles) : id \in 1..Len(profiles') /\ profiles'[id] = profiles[id]
         /\ \A p, v : HeldByProfile(p, v) => HeldByProfile(p, v)'
         /\ \A p, v : HeldByProfile(p, v)' =>
                HeldByProfile(p, v) \/ Mentions(x.packages, p, v)
<1>1. \A id \in 1..Len(profiles) : id \in 1..Len(profiles') /\ profiles'[id] = profiles[id]
  <2>1. profiles \in Seq(Profile) /\ Len(profiles) \in Nat
    BY StoreTyped
  <2>2. CASE profiles' = profiles
    BY <2>2
  <2>3. CASE profiles' = Append(profiles, x)
    BY <2>1, <2>3
  <2> QED
    BY <2>2, <2>3
<1>2. \A id \in 1..Len(profiles') : id \in 1..Len(profiles) \/ profiles'[id] = x
  BY StoreTyped
<1>3. ASSUME NEW p, NEW v, HeldByProfile(p, v) PROVE HeldByProfile(p, v)'
  BY <1>1, <1>3 DEF HeldByProfile, Mentions
<1>4. ASSUME NEW p, NEW v, HeldByProfile(p, v)'
      PROVE  HeldByProfile(p, v) \/ Mentions(x.packages, p, v)
  BY <1>1, <1>2, <1>4 DEF HeldByProfile, Mentions
<1> QED
  BY <1>1, <1>3, <1>4

LEMMA ProfilesLast ==
  ASSUME TypeInv, [Next]_vars
  PROVE  /\ \A id \in 1..Len(profiles) : id \in 1..Len(profiles') /\ profiles'[id] = profiles[id]
         /\ \A p, f : HeldByProfile(p, f) => HeldByProfile(p, f)'
<1>1. [device |-> device, packages |-> << >>] \in Profile
  BY StoreTyped DEF Profile
<1> QED
  BY <1>1, ProfilesGrow, ProfilesStay

\* Where a capture goes on it is a capture.
LEMMA CaptureGoesOn ==
  ASSUME TypeInv, NEW t \in Threads, Capture(t), t \in Live'
  PROVE  threads'[t].pc \in CaptureSteps
<1>1. CASE StartCapture(t)
  BY <1>1, StoreTyped DEF StartCapture, NewThread, CaptureSteps
<1>2. CASE ListPackages(t)
  <2>1. threads[t] \in Thread
    BY <1>2, LiveIsThread DEF ListPackages, At
  <2> QED
    BY <1>2, <2>1, StoreTyped DEF ListPackages, Thread, CaptureSteps
<1>3. CASE ReadPackage(t) \/ Fetch(t)
  <2>1. t \in Live /\ threads[t].pc \in {"read", "fetch"} /\ threads[t] \in Thread
    BY <1>3, ReadStep, LiveIsThread
  <2>2. PICK q \in Packages, state \in State, apk \in Apk :
            \/ threads' = Captured(t, q, state, apk)
            \/ threads' = [threads EXCEPT ![t].current = state, ![t].pc = "fetch"]
    BY <1>3, ReadStep
  <2>3. CASE threads' = Captured(t, q, state, apk)
    BY <2>1, <2>3, StoreTyped, CapturedTyped DEF CaptureSteps
  <2>4. CASE threads' = [threads EXCEPT ![t].current = state, ![t].pc = "fetch"]
    BY <2>1, <2>4, StoreTyped DEF Thread, CaptureSteps
  <2> QED
    BY <2>2, <2>3, <2>4
<1> QED
  BY <1>1, <1>2, <1>3, StoreTyped DEF Capture, Save, CaptureFails, End, Live

\* An application keeps its profile, and a new one takes a saved one.
LEMMA ThreadsKeepProfiles ==
  ASSUME TypeInv, [Next]_vars, NEW t \in Threads,
         t \in Live', threads'[t].pc \in ApplySteps
  PROVE  \/ /\ t \in Live /\ threads[t].pc \in ApplySteps
            /\ threads'[t].profile = threads[t].profile
         \/ \E id \in 1..Len(profiles) : threads'[t].profile = profiles[id]
<1>1. CASE threads'[t] = threads[t]
  BY <1>1 DEF Live
<1>2. CASE threads'[t] = Disturb(t)
  BY <1>2, LiveIsThread DEF Live, Disturb, Thread
<1>3. CASE Capture(t)
  BY <1>3, CaptureGoesOn DEF CaptureSteps, ApplySteps
<1>4. CASE Apply(t)
  <2>1. ASSUME NEW id \in 1..Len(profiles), StartApply(t, id)
        PROVE  threads'[t].profile = profiles[id]
    BY <2>1, StoreTyped DEF StartApply, NewThread
  <2>2. CASE \A id \in 1..Len(profiles) : ~StartApply(t, id)
    <3>1. /\ t \in Live
          /\ threads[t].pc \in
                {"inspect", "begin", "command", "verify", "complete", "fail", "result"}
      BY <1>4, <2>2 DEF Apply, Inspect, BeginRow, ApplyStops, Command, Verify, VerdictFails,
         CompleteRow, FailRow, Result, At
    <3>2. threads[t] \in Thread
      BY <3>1, LiveIsThread
    <3>3. ~ApplyStops(t) /\ ~FailRow(t) /\ ~Result(t)
      BY StoreTyped DEF ApplyStops, FailRow, Result, End, Live
    <3>4. CASE Inspect(t)
      <4>1. ~End(t)
        BY StoreTyped DEF End, Live
      <4> DEFINE now == tv[Desired(t).package]
      <4>2. now \in State
        BY <3>4, InspectMoves
      <4>3. CASE threads' = [threads EXCEPT ![t] = CompareEnabled(t, now)]
        <5>1. threads'[t] = CompareEnabled(t, now)
          BY <4>3, StoreTyped
        <5> HIDE DEF now
        <5> QED
          BY <3>1, <4>2, <5>1, CompareFacts DEF ApplySteps
      <4>4. ASSUME NEW apk \in Apk, threads' = Begun(t, now, apk)
            PROVE  threads'[t].profile = threads[t].profile
        BY <3>1, <4>4, BegunFacts
      <4> QED
        BY <3>1, <3>4, <4>1, <4>3, <4>4, InspectMoves DEF ApplySteps
    <3>5. CASE BeginRow(t) \/ Verify(t) \/ VerdictFails(t)
      <4>1. threads'[t].profile = threads[t].profile
        BY <3>2, <3>5, StoreTyped DEF BeginRow, Verify, VerdictFails, Goto, Thread
      <4> QED
        BY <3>1, <4>1 DEF ApplySteps
    <3>6. CASE Command(t)
      <4>1. threads'[t].profile = threads[t].profile
        BY <3>2, <3>6, CommandMoves DEF Thread
      <4> QED
        BY <3>1, <4>1 DEF ApplySteps
    <3>7. CASE CompleteRow(t)
      <4>1. threads[t].after \in State
        BY <3>2 DEF Thread
      <4>2. threads'[t] = CompareEnabled(t, threads[t].after) \/ threads'[t] = NextEntry(t)
        BY <3>7, StoreTyped DEF CompleteRow
      <4>3. threads'[t].profile = threads[t].profile
        BY <3>1, <4>1, <4>2, CompareFacts, NextEntryFacts
      <4> QED
        BY <3>1, <4>3 DEF ApplySteps
    <3> QED
      BY <1>4, <2>2, <3>3, <3>4, <3>5, <3>6, <3>7 DEF Apply
  <2> QED
    BY <2>1, <2>2
<1>5. CASE \E s \in Threads \ {t} : Capture(s) \/ Apply(s)
  BY <1>1, <1>2, <1>5, OthersStay
<1>6. CASE UNCHANGED threads
  BY <1>1, <1>6
<1>7. CASE Environment /\ ~\E p \in Packages : OtherDownload(p)
  <2>1. threads'[t] = NoThread \/ threads'[t] = Disturb(t)
    BY <1>7 DEF Environment, Crash, DeviceChange, LateEffect, ExternalChange
  <2> QED
    BY <1>2, <2>1 DEF Live
<1> QED
  BY <1>3, <1>4, <1>5, <1>6, <1>7
     DEF Next, Environment, OtherDownload, StartDelete, CheckProfiles, Unlink, AwaitRequest,
     vars

\* An application has a saved profile.
ProfilesAreSaved ==
    \A t \in Live : threads[t].pc \in ApplySteps =>
        \E id \in 1..Len(profiles) : profiles[id] = threads[t].profile

LEMMA EntryIsHeld ==
  ASSUME TypeInv, ProfilesAreSaved, NEW t \in Live, threads[t].pc \in EntryPcs
  PROVE  HeldByProfile(Desired(t).package, Desired(t).apk)
<1>1. PICK id \in 1..Len(profiles) : profiles[id] = threads[t].profile
  BY DEF ProfilesAreSaved, EntryPcs, ApplySteps
<1>2. threads[t].index \in 1..Len(threads[t].profile.packages)
  BY DesiredIsEntry
<1>3. Mentions(profiles[id].packages, Desired(t).package, Desired(t).apk)
  BY <1>1, <1>2 DEF Mentions, Desired
<1> QED
  BY <1>1, <1>3 DEF HeldByProfile

LEMMA ProfilesStaySaved ==
  ASSUME TypeInv, ProfilesAreSaved, [Next]_vars
  PROVE  ProfilesAreSaved'
<1>1. \A id \in 1..Len(profiles) : id \in 1..Len(profiles') /\ profiles'[id] = profiles[id]
  BY ProfilesLast
<1>2. ASSUME NEW t \in Live', threads'[t].pc \in ApplySteps
      PROVE  \E id \in 1..Len(profiles') : profiles'[id] = threads'[t].profile
  <2>1. PICK id \in 1..Len(profiles) : profiles[id] = threads'[t].profile
    <3>1. t \in Threads
      BY DEF Live
    <3> QED
      BY <1>2, <3>1, ThreadsKeepProfiles DEF ProfilesAreSaved
  <2> QED
    BY <1>1, <2>1
<1> QED
  BY <1>2 DEF ProfilesAreSaved

-----------------------------------------------------------------------------
(* Retention.  A row, a profile or a thread claims that a file states the  *)
(* version it names it for.                                                *)

Vouches(entries, p, f, v) ==
    \E i \in 1..Len(entries) :
        entries[i].package = p /\ entries[i].apk = f /\ entries[i].state.version = v

ClaimedByRow(p, f, v) ==
    \E i \in Ids : /\ ops[i].package = p
                   /\ ops[i].status \in {"pending", "applied", "uncertain"}
                   /\ ops[i].beforeApk = f
                   /\ ops[i].before.version = v

ClaimedByProfile(p, f, v) ==
    \E id \in 1..Len(profiles) : Vouches(profiles[id].packages, p, f, v)

ClaimedByThread(t, p, f, v) ==
    /\ t \in Live
    /\ \/ threads[t].pc \in CaptureSteps /\ Vouches(threads[t].profile.packages, p, f, v)
       \/ /\ threads[t].pc = "begin" /\ Desired(t).package = p
          /\ RowOf(t).beforeApk = f /\ threads[t].current.version = v

Claimed(p, f, v) ==
    \/ ClaimedByRow(p, f, v)
    \/ ClaimedByProfile(p, f, v)
    \/ \E t \in Threads : ClaimedByThread(t, p, f, v)

ClaimsAreKept ==
    \A p \in Packages, f \in Versions, v \in Apk : Claimed(p, f, v) => StillStates(p, f, v)

\* The file a row goes forward with is that of a saved profile.
AfterIsHeld ==
    \A i \in Ids : ops[i].afterApk # 0 => HeldByProfile(ops[i].package, ops[i].afterApk)

\* A thread begins to replace a version when a file of it is at hand, and turns to the
\* flag of an entry when the version is the entry's.
VersionMet(t) ==
    /\ threads[t].pc = "inspect" => threads[t].change = "version"
    /\ threads[t].pc = "begin" =>
          IF threads[t].change = "version"
          THEN Installed(threads[t].current) => threads[t].beforeApk # 0
          ELSE threads[t].current.version = Desired(t).state.version
    /\ threads[t].pc = "complete" /\ threads[t].change = "version" =>
          threads[t].after.version = Desired(t).state.version

VersionsAreMet == \A t \in Live : VersionMet(t)

\* A deletion of a file that was named when it began never gets past its checks.
NamedIsRefused ==
    deleting # NoDeletion /\ deleting.named =>
        deleting.pc = "profiles" /\ HeldByProfile(deleting.package, deleting.file)

RetentionInv ==
    /\ ClaimsAreKept /\ AfterIsHeld /\ VersionsAreMet
    /\ ProfilesAreSaved /\ NamedIsRefused

\* Who claims a file needs it.
LEMMA ClaimsAreUses ==
  ASSUME NEW p, NEW f, NEW v, Claimed(p, f, v)
  PROVE  InUse(p, f)
<1>1. CASE ClaimedByRow(p, f, v)
  BY <1>1 DEF ClaimedByRow, InUse, InFlight, HeldByRow, IsPending
<1>2. CASE ClaimedByProfile(p, f, v)
  BY <1>2 DEF ClaimedByProfile, Vouches, InUse, HeldByProfile, Mentions
<1>3. ASSUME NEW t \in Threads, ClaimedByThread(t, p, f, v) PROVE InUse(p, f)
  BY <1>3 DEF ClaimedByThread, Vouches, InUse, InFlight, Mentions
<1> QED
  BY <1>1, <1>2, <1>3 DEF Claimed

LEMMA HeldIsClaimed ==
  ASSUME TypeInv, NEW p, NEW f, HeldByProfile(p, f)
  PROVE  p \in Packages /\ \E v \in Apk : ClaimedByProfile(p, f, v)
<1>1. PICK id \in 1..Len(profiles) : Mentions(profiles[id].packages, p, f)
  BY DEF HeldByProfile
<1>2. profiles[id] \in Profile
  BY StoreTyped
<1>3. PICK i \in 1..Len(profiles[id].packages) :
          profiles[id].packages[i].package = p /\ profiles[id].packages[i].apk = f
  BY <1>1 DEF Mentions
<1>4. profiles[id].packages[i] \in Entry
  BY <1>2 DEF Profile
<1> QED
  BY <1>3, <1>4 DEF ClaimedByProfile, Vouches, Entry, State

\* The row of a thread names the files of its entry, and the one it comes back with.
LEMMA RowFiles ==
  ASSUME NEW t
  PROVE  /\ RowOf(t).package = Desired(t).package
         /\ RowOf(t).afterApk \in {Desired(t).apk, 0}
         /\ RowOf(t).before = threads[t].current
         /\ \/ RowOf(t).beforeApk = 0
            \/ threads[t].change # "version" /\ RowOf(t).beforeApk = Desired(t).apk
            \/ /\ threads[t].change = "version"
               /\ Installed(threads[t].current)
               /\ RowOf(t).beforeApk = threads[t].beforeApk
BY DEF RowOf

\* The entry at hand of an application is claimed by its saved profile.
LEMMA EntryIsClaimed ==
  ASSUME TypeInv, ProfilesAreSaved, NEW t \in Live, threads[t].pc \in EntryPcs
  PROVE  ClaimedByProfile(Desired(t).package, Desired(t).apk, Desired(t).state.version)
<1>1. PICK id \in 1..Len(profiles) : profiles[id] = threads[t].profile
  BY DEF ProfilesAreSaved, EntryPcs, ApplySteps
<1>2. threads[t].index \in 1..Len(threads[t].profile.packages)
  BY DesiredIsEntry
<1>3. Vouches(profiles[id].packages, Desired(t).package, Desired(t).apk,
              Desired(t).state.version)
  BY <1>1, <1>2 DEF Vouches, Desired
<1> QED
  BY <1>1, <1>3 DEF ClaimedByProfile

LEMMA SameThreadClaims ==
  ASSUME TypeInv, NEW s \in Threads,
         threads'[s] \in {threads[s], Disturb(s), NoThread},
         NEW p, NEW f, NEW v, ClaimedByThread(s, p, f, v)'
  PROVE  ClaimedByThread(s, p, f, v)
<1>1. threads'[s] \in {threads[s], Disturb(s)}
  BY DEF ClaimedByThread, Live
<1>2. s \in Live
  BY <1>1, SameThread DEF ClaimedByThread
<1>3. threads[s] \in Thread
  BY <1>2, LiveIsThread
<1>4. /\ threads'[s].pc = threads[s].pc
      /\ threads'[s].profile = threads[s].profile
      /\ threads'[s].current = threads[s].current
  BY <1>1, <1>2, <1>3 DEF Live, Disturb, Thread
<1>5. Desired(s)' = Desired(s) /\ RowOf(s)' = RowOf(s)
  BY <1>1, <1>2, SameThread
<1> QED
  BY <1>2, <1>4, <1>5 DEF ClaimedByThread, Vouches

\* A capture claims what it did, or what it just found in the library.
LEMMA CaptureClaims ==
  ASSUME TypeInv, NEW t \in Threads, Capture(t),
         NEW p \in Packages, NEW f \in Versions, NEW v \in Apk, ClaimedByThread(t, p, f, v)'
  PROVE  ClaimedByThread(t, p, f, v) \/ library'[p][f] = v
<1>1. CASE StartCapture(t)
  <2>1. /\ threads'[t].pc = "list"
        /\ threads'[t].profile.packages = << >>
    BY <1>1, StoreTyped DEF StartCapture, NewThread
  <2> QED
    BY <2>1 DEF ClaimedByThread, Vouches
<1>2. CASE ListPackages(t)
  <2>1. t \in Live /\ threads[t] \in Thread /\ threads[t].pc = "list"
    BY <1>2, LiveIsThread DEF ListPackages, At
  <2>2. /\ threads'[t].pc \in {"save", "read"}
        /\ threads'[t].profile = threads[t].profile
    BY <1>2, <2>1, StoreTyped DEF ListPackages, Thread
  <2> QED
    BY <2>1, <2>2 DEF ClaimedByThread, CaptureSteps, Live, Vouches
<1>3. CASE ReadPackage(t) \/ Fetch(t)
  <2>1. t \in Live /\ threads[t] \in Thread /\ threads[t].pc \in {"read", "fetch"}
        /\ threads[t].profile \in Profile
    BY <1>3, LiveIsThread DEF ReadPackage, Fetch, At, Thread
  <2>2. PICK q \in Packages, state \in State, apk \in Apk :
            /\ AtHand(t, q)
            /\ \/ /\ threads' = Captured(t, q, state, apk)
                  /\ apk # 0 => library'[q][apk] = state.version
               \/ threads' = [threads EXCEPT ![t].current = state, ![t].pc = "fetch"]
    BY <1>3, ReadStep
  <2>3. CASE threads' = [threads EXCEPT ![t].current = state, ![t].pc = "fetch"]
    <3>1. /\ threads'[t].pc = "fetch"
          /\ threads'[t].profile = threads[t].profile
      BY <2>1, <2>3, StoreTyped DEF Thread
    <3> QED
      BY <2>1, <3>1 DEF ClaimedByThread, CaptureSteps, Live, Vouches
  <2>4. CASE /\ threads' = Captured(t, q, state, apk)
             /\ apk # 0 => library'[q][apk] = state.version
    <3>1. PICK x \in Thread :
              /\ Captured(t, q, state, apk) = [threads EXCEPT ![t] = x]
              /\ x.pc \in {"read", "save"}
              /\ x.profile.packages = Extended(t, q, state, apk)
      BY <2>1, CapturedTyped
    <3>2. threads'[t].pc \in {"read", "save"}
          /\ threads'[t].profile.packages = Extended(t, q, state, apk)
      BY <2>4, <3>1, StoreTyped
    <3>3. Vouches(Extended(t, q, state, apk), p, f, v)
      BY <3>2 DEF ClaimedByThread, Vouches
    <3>4. Vouches(threads[t].profile.packages, p, f, v)
          \/ (p = q /\ f = apk /\ v = state.version)
      BY <2>1, <3>3 DEF Vouches, Extended, Profile
    <3>5. f # 0
      BY VersionsArePositive
    <3> QED
      BY <2>1, <2>4, <3>4, <3>5 DEF ClaimedByThread, CaptureSteps, Live
  <2> QED
    BY <2>2, <2>3, <2>4
<1>4. CASE Save(t) \/ CaptureFails(t)
  BY <1>4, StoreTyped DEF Save, CaptureFails, End, ClaimedByThread, Live
<1> QED
  BY <1>1, <1>2, <1>3, <1>4 DEF Capture

\* A thread that goes on to the flag of its entry.
LEMMA CompareClaims ==
  ASSUME TypeInv, ProfilesAreSaved, NEW t \in Live, threads[t].pc \in EntryPcs,
         NEW c \in State,
         \/ threads'[t] = CompareEnabled(t, c) /\ c.version = Desired(t).state.version
         \/ threads'[t] = NextEntry(t),
         NEW p, NEW f \in Versions, NEW v, ClaimedByThread(t, p, f, v)'
  PROVE  ClaimedByProfile(p, f, v)
<1>1. threads'[t].pc \in {"begin", "inspect", "result"}
  BY CompareFacts, NextEntryFacts
<1>2. /\ threads'[t].pc = "begin"
      /\ Desired(t)'.package = p
      /\ RowOf(t)'.beforeApk = f
      /\ threads'[t].current.version = v
  BY <1>1 DEF ClaimedByThread, CaptureSteps
<1>3. /\ threads'[t].profile = threads[t].profile
      /\ threads'[t].index = threads[t].index
      /\ threads'[t].change = "enabled"
      /\ threads'[t].current.version = Desired(t).state.version
  BY <1>2, CompareFacts, NextEntryFacts
<1>4. Desired(t)' = Desired(t)
  BY <1>3 DEF Desired
<1>5. RowOf(t)'.beforeApk \in {Desired(t).apk, 0}
  BY <1>3, <1>4 DEF RowOf
<1>6. f = Desired(t).apk
  BY <1>2, <1>5, VersionsArePositive
<1> QED
  BY <1>2, <1>3, <1>4, <1>6, EntryIsClaimed

LEMMA CompareMeets ==
  ASSUME TypeInv, NEW t \in Live, NEW c \in State,
         \/ threads'[t] = CompareEnabled(t, c) /\ c.version = Desired(t).state.version
         \/ threads'[t] = NextEntry(t)
  PROVE  VersionMet(t)'
<1>1. \/ threads'[t].pc \in {"inspect", "result"} /\ threads'[t].change = "version"
      \/ /\ threads'[t].pc = "begin"
         /\ threads'[t].profile = threads[t].profile
         /\ threads'[t].index = threads[t].index
         /\ threads'[t].change = "enabled"
         /\ threads'[t].current.version = Desired(t).state.version
  BY CompareFacts, NextEntryFacts
<1>2. threads'[t].pc = "begin" => Desired(t)' = Desired(t)
  BY <1>1 DEF Desired
<1> QED
  BY <1>1, <1>2 DEF VersionMet

\* Where a step of an application takes it that neither inspects nor completes.
LEMMA OtherSteps ==
  ASSUME TypeInv, NEW t \in Threads, Apply(t), ~Inspect(t), ~CompleteRow(t)
  PROVE  \/ threads'[t] = NoThread
         \/ threads'[t].pc \in {"inspect", "result"} /\ threads'[t].change = "version"
         \/ threads'[t].pc \in {"command", "verify", "fail"}
         \/ Verify(t) /\ threads'[t].pc = "complete"
<1>1. ASSUME NEW id \in 1..Len(profiles), StartApply(t, id)
      PROVE  threads'[t].pc \in {"inspect", "result"} /\ threads'[t].change = "version"
  BY <1>1, StoreTyped DEF StartApply, NewThread
<1>2. CASE ApplyStops(t) \/ FailRow(t) \/ Result(t)
  BY <1>2, StoreTyped DEF ApplyStops, FailRow, Result, End
<1>3. ASSUME BeginRow(t) \/ Verify(t) \/ VerdictFails(t)
      PROVE  \/ threads'[t].pc \in {"command", "fail"}
             \/ Verify(t) /\ threads'[t].pc = "complete"
  <2>1. t \in Live /\ threads[t] \in Thread
    BY <1>3, LiveIsThread DEF BeginRow, Verify, VerdictFails, At
  <2> QED
    BY <1>3, <2>1, StoreTyped DEF BeginRow, Verify, VerdictFails, Goto, Thread
<1>4. ASSUME Command(t) PROVE threads'[t].pc \in {"verify", "fail"}
  BY <1>4, CommandMoves DEF Thread
<1> QED
  BY <1>1, <1>2, <1>3, <1>4 DEF Apply

\* An application claims what its profile does, or what it just found in the library.
LEMMA ApplyClaims ==
  ASSUME TypeInv, RetentionInv, NEW t \in Threads, Apply(t),
         NEW p \in Packages, NEW f \in Versions, NEW v \in Apk, ClaimedByThread(t, p, f, v)'
  PROVE  ClaimedByProfile(p, f, v) \/ library'[p][f] = v
<1>1. CASE Inspect(t)
  <2> DEFINE now == tv[Desired(t).package]
  <2>1. t \in Live /\ threads[t].pc = "inspect" /\ now \in State /\ UNCHANGED library
    BY <1>1, InspectMoves
  <2>2. CASE threads' = [threads EXCEPT ![t] = CompareEnabled(t, now)] /\ HasVersion(t, now)
    <3>1. threads'[t] = CompareEnabled(t, now)
      BY <2>2, StoreTyped
    <3>2. now.version = Desired(t).state.version
      BY <2>2 DEF HasVersion
    <3> HIDE DEF now
    <3> QED
      BY <2>1, <3>1, <3>2, CompareClaims DEF EntryPcs, RetentionInv
  <2>3. CASE End(t)
    BY <2>3, StoreTyped DEF End, ClaimedByThread, Live
  <2>4. ASSUME NEW apk \in Apk, threads' = Begun(t, now, apk),
               Installed(now) => /\ apk # 0
                                 /\ library[Desired(t).package][apk] = now.version
        PROVE  ClaimedByProfile(p, f, v) \/ library'[p][f] = v
    <3>1. /\ threads'[t].pc = "begin"
          /\ threads'[t].current = now
          /\ threads'[t].beforeApk = apk
          /\ threads'[t].profile = threads[t].profile
          /\ threads'[t].change = threads[t].change
          /\ Desired(t)' = Desired(t)
      BY <2>1, <2>4, BegunFacts
    <3>2. /\ Desired(t).package = p
          /\ RowOf(t)'.beforeApk = f
          /\ now.version = v
      BY <3>1 DEF ClaimedByThread, CaptureSteps
    <3>3. \/ RowOf(t)'.beforeApk \in {Desired(t).apk, 0} /\ threads[t].change # "version"
          \/ RowOf(t)'.beforeApk = 0
          \/ Installed(now) /\ RowOf(t)'.beforeApk = apk
      BY <3>1 DEF RowOf
    <3>4. f # 0 /\ threads[t].change = "version"
      BY <2>1, VersionsArePositive DEF RetentionInv, VersionsAreMet, VersionMet
    <3> QED
      BY <2>1, <2>4, <3>2, <3>3, <3>4
  <2> QED
    BY <1>1, <2>2, <2>3, <2>4, InspectMoves
<1>2. CASE CompleteRow(t)
  <2>1. t \in Live /\ threads[t].pc = "complete" /\ threads[t].after \in State
    BY <1>2, LiveIsThread DEF CompleteRow, At, Thread
  <2>2. \/ /\ threads'[t] = CompareEnabled(t, threads[t].after)
           /\ threads[t].after.version = Desired(t).state.version
        \/ threads'[t] = NextEntry(t)
    BY <1>2, <2>1, StoreTyped DEF CompleteRow, RetentionInv, VersionsAreMet, VersionMet
  <2> QED
    BY <2>1, <2>2, CompareClaims DEF EntryPcs, RetentionInv
<1>3. CASE ~Inspect(t) /\ ~CompleteRow(t)
  <2>1. \/ threads'[t] = NoThread
        \/ threads'[t].pc \in {"inspect", "result", "command", "verify", "fail", "complete"}
    BY <1>3, OtherSteps
  <2> QED
    BY <2>1 DEF ClaimedByThread, Live, CaptureSteps
<1> QED
  BY <1>1, <1>2, <1>3

LEMMA VersionsStayMet ==
  ASSUME TypeInv, VersionsAreMet, [Next]_vars
  PROVE  VersionsAreMet'
<1> SUFFICES ASSUME NEW t \in Live' PROVE VersionMet(t)'
  BY DEF VersionsAreMet
<1>1. t \in Threads
  BY DEF Live
<1>2. CASE ~Capture(t) /\ ~Apply(t)
  <2>1. threads'[t] = threads[t] \/ threads'[t] = Disturb(t)
    BY <1>1, <1>2, ElsewhereStay DEF Live
  <2>2. t \in Live /\ Desired(t)' = Desired(t) /\ threads[t] \in Thread
    BY <1>1, <2>1, SameThread, LiveIsThread
  <2>3. /\ threads'[t].pc = threads[t].pc
        /\ threads'[t].change = threads[t].change
        /\ threads'[t].current = threads[t].current
        /\ threads'[t].beforeApk = threads[t].beforeApk
        /\ threads'[t].after = threads[t].after
    BY <2>1, <2>2 DEF Disturb, Live, Thread
  <2> QED
    BY <2>2, <2>3 DEF VersionsAreMet, VersionMet
<1>3. CASE Capture(t)
  BY <1>1, <1>3, CaptureGoesOn DEF CaptureSteps, VersionMet
<1>4. CASE Inspect(t)
  <2> DEFINE now == tv[Desired(t).package]
  <2>1. t \in Live /\ threads[t].pc = "inspect" /\ now \in State
    BY <1>1, <1>4, InspectMoves
  <2>2. CASE threads' = [threads EXCEPT ![t] = CompareEnabled(t, now)] /\ HasVersion(t, now)
    <3>1. threads'[t] = CompareEnabled(t, now)
      BY <1>1, <2>2, StoreTyped
    <3>2. now.version = Desired(t).state.version
      BY <2>2 DEF HasVersion
    <3> HIDE DEF now
    <3> QED
      BY <2>1, <3>1, <3>2, CompareMeets
  <2>3. ASSUME NEW apk \in Apk, threads' = Begun(t, now, apk), Installed(now) => apk # 0
        PROVE  VersionMet(t)'
    BY <2>1, <2>3, BegunFacts DEF VersionsAreMet, VersionMet
  <2>4. ~End(t)
    BY <1>1, StoreTyped DEF End, Live
  <2> QED
    BY <1>1, <1>4, <2>2, <2>3, <2>4, InspectMoves
<1>5. CASE CompleteRow(t)
  <2>1. t \in Live /\ threads[t].pc = "complete" /\ threads[t].after \in State
    BY <1>5, LiveIsThread DEF CompleteRow, At, Thread
  <2>2. threads'[t] = IF threads[t].change = "version"
                     THEN CompareEnabled(t, threads[t].after) ELSE NextEntry(t)
    BY <1>1, <1>5, StoreTyped DEF CompleteRow
  <2>3. threads[t].change = "version" => threads[t].after.version = Desired(t).state.version
    BY <2>1 DEF VersionsAreMet, VersionMet
  <2> QED
    BY <2>1, <2>2, <2>3, CompareMeets
<1>6. CASE Apply(t) /\ ~Inspect(t) /\ ~CompleteRow(t)
  <2>1. CASE Verify(t) /\ threads'[t].pc = "complete"
    <3>1. t \in Live /\ threads[t] \in Thread
      BY <2>1, LiveIsThread DEF Verify, At
    <3>2. /\ threads'[t].change = threads[t].change
          /\ threads'[t].after = tv[Desired(t).package]
          /\ threads'[t].profile = threads[t].profile
          /\ threads'[t].index = threads[t].index
      BY <1>1, <2>1, <3>1, StoreTyped DEF Verify, Thread
    <3>3. threads[t].change = "version" =>
              tv[Desired(t).package].version = Desired(t).state.version
      BY <1>1, <2>1, <3>1, StoreTyped DEF Verify, Thread
    <3>4. Desired(t)' = Desired(t)
      BY <3>2 DEF Desired
    <3> QED
      BY <2>1, <3>2, <3>3, <3>4 DEF VersionMet
  <2> QED
    BY <1>1, <1>6, <2>1, OtherSteps DEF VersionMet, Live
<1> QED
  BY <1>2, <1>3, <1>4, <1>5, <1>6

\* No step takes a file from who claims it without the file being raced.
LEMMA LibraryKeeps ==
  ASSUME TypeInv, NamedIsRefused, [Next]_vars,
         NEW p \in Packages, NEW f \in Versions, NEW v \in Apk,
         Claimed(p, f, v), StillStates(p, f, v)
  PROVE  StillStates(p, f, v)'
<1>1. CASE UNCHANGED <<library, raced>>
  BY <1>1 DEF StillStates
<1>2. ASSUME NEW q \in Packages, NEW served \in Served,
             \/ Archived(q, served[1], served[2])
             \/ Discarded(q, served[1]),
             RacedBy(q, served[1])
      PROVE  StillStates(p, f, v)'
  <2>1. InUse(p, f)
    BY ClaimsAreUses
  <2>2. served[1] \in Versions
    BY FilesAreStated
  <2>3. CASE q = p /\ served[1] = f
    BY <1>2, <2>1, <2>3 DEF RacedBy, StillStates
  <2>4. CASE ~(q = p /\ served[1] = f)
    <3>1. library'[p][f] = library[p][f]
      BY <1>2, <2>2, <2>4, StoreTyped DEF Archived, Discarded, Library
    <3>2. <<p, f>> \in raced => <<p, f>> \in raced'
      BY <1>2 DEF RacedBy
    <3> QED
      BY <3>1, <3>2 DEF StillStates
  <2> QED
    BY <2>3, <2>4
<1>3. CASE Unlink
  <2>1. ~deleting.named
    BY <1>3 DEF Unlink, NamedIsRefused
  <2>2. deleting.package \in Packages /\ deleting.file \in Versions
    BY <1>3 DEF Unlink, TypeInv, TypeOK, Deletion
  <2>3. CASE p = deleting.package /\ f = deleting.file
    BY <1>3, <2>1, <2>3, ClaimsAreUses DEF Unlink, StillStates
  <2>4. CASE ~(p = deleting.package /\ f = deleting.file)
    <3>1. library'[p][f] = library[p][f]
      BY <1>3, <2>2, <2>4, StoreTyped DEF Unlink, Library
    <3>2. <<p, f>> \in raced => <<p, f>> \in raced'
      BY <1>3 DEF Unlink
    <3> QED
      BY <3>1, <3>2 DEF StillStates
  <2> QED
    BY <2>3, <2>4
<1>4. ASSUME NEW t \in Threads, Fetch(t) PROVE StillStates(p, f, v)'
  BY <1>2, <1>4 DEF Fetch
<1>5. ASSUME NEW q \in Packages, OtherDownload(q) PROVE StillStates(p, f, v)'
  BY <1>2, <1>5 DEF OtherDownload
<1>6. ASSUME NEW t \in Threads, Capture(t) \/ Apply(t), ~Fetch(t)
      PROVE  UNCHANGED <<library, raced>>
  BY <1>6, CommandMoves DEF Capture, StartCapture, ListPackages, ReadPackage, Save,
     CaptureFails, Apply, StartApply, Inspect, BeginRow, ApplyStops, Verify, VerdictFails,
     CompleteRow, FailRow, Result
<1> QED
  BY <1>1, <1>3, <1>4, <1>5, <1>6
     DEF Next, Environment, Crash, DeviceChange, LateEffect, ExternalChange, StartDelete,
         CheckProfiles, AwaitRequest, vars

\* What a step claims anew was claimed before, or is what the library states.
LEMMA NewClaims ==
  ASSUME TypeInv, RetentionInv, [Next]_vars,
         NEW p \in Packages, NEW f \in Versions, NEW v \in Apk, Claimed(p, f, v)'
  PROVE  Claimed(p, f, v) \/ StillStates(p, f, v)'
<1>1. CASE ClaimedByRow(p, f, v)'
  <2>1. PICK i \in Ids' : /\ ops'[i].package = p
                          /\ ops'[i].status \in {"pending", "applied", "uncertain"}
                          /\ ops'[i].beforeApk = f
                          /\ ops'[i].before.version = v
    BY <1>1 DEF ClaimedByRow
  <2>2. CASE i \in Ids
    BY <2>1, <2>2, RowsKeep DEF ClaimedByRow, Claimed
  <2>3. CASE i \notin Ids
    <3>1. PICK t \in Live : threads[t].pc = "begin" /\ ops'[i] = RowOf(t)
      BY <2>3, RowsKeep
    <3>2. ClaimedByThread(t, p, f, v)
      BY <2>1, <3>1, RowFiles DEF ClaimedByThread
    <3> QED
      BY <3>1, <3>2 DEF Claimed, Live
  <2> QED
    BY <2>2, <2>3
<1>2. CASE ClaimedByProfile(p, f, v)'
  <2>1. PICK id \in 1..Len(profiles') : Vouches(profiles'[id].packages, p, f, v)
    BY <1>2 DEF ClaimedByProfile, Vouches
  <2>2. CASE id \in 1..Len(profiles) /\ profiles'[id] = profiles[id]
    BY <2>1, <2>2 DEF ClaimedByProfile, Claimed
  <2>3. CASE ~(id \in 1..Len(profiles) /\ profiles'[id] = profiles[id])
    <3>1. PICK t \in Live : /\ threads[t].pc = "save"
                            /\ threads[t].profile \in Profile
                            /\ profiles' = Append(profiles, threads[t].profile)
      BY <2>1, <2>3, ProfilesGrow
    <3>2. profiles'[id] = threads[t].profile
      BY <2>1, <2>3, <3>1, StoreTyped
    <3>3. ClaimedByThread(t, p, f, v)
      BY <2>1, <3>1, <3>2 DEF ClaimedByThread, CaptureSteps
    <3> QED
      BY <3>1, <3>3 DEF Claimed, Live
  <2> QED
    BY <2>2, <2>3
<1>3. ASSUME NEW t \in Threads, ClaimedByThread(t, p, f, v)'
      PROVE  Claimed(p, f, v) \/ StillStates(p, f, v)'
  <2>1. CASE Capture(t)
    BY <1>3, <2>1, CaptureClaims DEF Claimed, StillStates
  <2>2. CASE Apply(t)
    BY <1>3, <2>2, ApplyClaims DEF Claimed, StillStates
  <2>3. CASE ~Capture(t) /\ ~Apply(t)
    BY <1>3, <2>3, ElsewhereStay, SameThreadClaims DEF Claimed
  <2> QED
    BY <2>1, <2>2, <2>3
<1> QED
  BY <1>1, <1>2, <1>3 DEF Claimed

LEMMA ClaimsStayKept ==
  ASSUME TypeInv, RetentionInv, [Next]_vars
  PROVE  ClaimsAreKept'
<1>1. ASSUME NEW p \in Packages, NEW f \in Versions, NEW v \in Apk, Claimed(p, f, v)'
      PROVE  StillStates(p, f, v)'
  <2>1. CASE Claimed(p, f, v)
    <3>1. StillStates(p, f, v)
      BY <2>1 DEF RetentionInv, ClaimsAreKept
    <3> QED
      BY <2>1, <3>1, LibraryKeeps DEF RetentionInv
  <2> QED
    BY <1>1, <2>1, NewClaims
<1> QED
  BY <1>1 DEF ClaimsAreKept

LEMMA AfterStaysHeld ==
  ASSUME TypeInv, RetentionInv, [Next]_vars
  PROVE  AfterIsHeld'
<1>1. ASSUME NEW i \in Ids', ops'[i].afterApk # 0
      PROVE  HeldByProfile(ops[i].package, ops[i].afterApk)'
  <2>1. HeldByProfile(ops'[i].package, ops'[i].afterApk)
    <3>1. CASE i \in Ids
      BY <1>1, <3>1, RowsKeep DEF RetentionInv, AfterIsHeld
    <3>2. CASE i \notin Ids
      <4>1. PICK t \in Live : threads[t].pc = "begin" /\ ops'[i] = RowOf(t)
        BY <3>2, RowsKeep
      <4>2. ops'[i].package = Desired(t).package /\ ops'[i].afterApk = Desired(t).apk
        BY <1>1, <4>1, RowFiles
      <4> QED
        BY <4>1, <4>2, EntryIsHeld DEF EntryPcs, RetentionInv
    <3> QED
      BY <3>1, <3>2
  <2>2. PICK p, f : p = ops'[i].package /\ f = ops'[i].afterApk
    OBVIOUS
  <2>3. HeldByProfile(p, f)'
    BY <2>1, <2>2, ProfilesLast
  <2> QED
    BY <2>2, <2>3 DEF HeldByProfile, Mentions
<1> QED
  BY <1>1 DEF AfterIsHeld

LEMMA NamedStaysRefused ==
  ASSUME TypeInv, NamedIsRefused, [Next]_vars
  PROVE  NamedIsRefused'
<1>1. ASSUME NEW p \in Packages, NEW f \in Versions, StartDelete(p, f) PROVE NamedIsRefused'
  <2>1. /\ deleting'.package = p /\ deleting'.file = f /\ deleting'.pc = "profiles"
        /\ deleting'.named => HeldByProfile(p, f)
    BY <1>1 DEF StartDelete
  <2>2. HeldByProfile(p, f) => HeldByProfile(p, f)'
    BY ProfilesLast
  <2> QED
    BY <2>1, <2>2 DEF NamedIsRefused, HeldByProfile, Mentions
<1>2. CASE CheckProfiles
  <2>1. deleting \in Deletion
    BY <1>2 DEF CheckProfiles, TypeInv, TypeOK
  <2>2. CASE HeldByProfile(deleting.package, deleting.file)
    BY <1>2, <2>2 DEF CheckProfiles, NamedIsRefused
  <2>3. CASE ~HeldByProfile(deleting.package, deleting.file)
    BY <1>2, <2>1, <2>3 DEF CheckProfiles, NamedIsRefused, Deletion
  <2> QED
    BY <2>2, <2>3
<1>3. CASE Unlink \/ Crash
  BY <1>3 DEF Unlink, Crash, NamedIsRefused
<1>4. CASE UNCHANGED deleting
  <2>1. PICK p, f : p = deleting.package /\ f = deleting.file
    OBVIOUS
  <2>2. HeldByProfile(p, f) => HeldByProfile(p, f)'
    BY ProfilesLast
  <2> QED
    BY <1>4, <2>1, <2>2 DEF NamedIsRefused, HeldByProfile, Mentions
<1>5. ASSUME NEW t \in Threads, Capture(t) \/ Apply(t) PROVE UNCHANGED deleting
  BY <1>5, CommandMoves DEF Capture, StartCapture, ListPackages, ReadPackage, Fetch, Save,
     CaptureFails, Apply, StartApply, Inspect, BeginRow, ApplyStops, Verify, VerdictFails,
     CompleteRow, FailRow, Result
<1> QED
  BY <1>1, <1>2, <1>3, <1>4, <1>5
     DEF Next, Environment, DeviceChange, LateEffect, ExternalChange, OtherDownload,
         AwaitRequest, vars

LEMMA RetentionKept ==
  ASSUME TypeInv, RetentionInv, [Next]_vars
  PROVE  RetentionInv'
BY ClaimsStayKept, AfterStaysHeld, VersionsStayMet, ProfilesStaySaved, NamedStaysRefused
   DEF RetentionInv

\* What a saved profile claims wrongly at the start counts as raced.
LEMMA InitRetention == Init => RetentionInv
<1> SUFFICES ASSUME Init PROVE RetentionInv
  OBVIOUS
<1>1. ops = << >> /\ threads = [t \in Threads |-> NoThread] /\ deleting = NoDeletion
  BY DEF Init, JournalInit
<1>2. Ids = {} /\ Live = {}
  BY <1>1 DEF Ids, Live
<1>3. ASSUME NEW p \in Packages, NEW f \in Versions, NEW v \in Apk, Claimed(p, f, v)
      PROVE  StillStates(p, f, v)
  <2>1. PICK id \in 1..Len(profiles) : Vouches(profiles[id].packages, p, f, v)
    BY <1>2, <1>3 DEF Claimed, ClaimedByRow, ClaimedByThread, ClaimedByProfile
  <2>2. PICK i \in 1..Len(profiles[id].packages) :
            /\ profiles[id].packages[i].package = p
            /\ profiles[id].packages[i].apk = f
            /\ profiles[id].packages[i].state.version = v
    BY <2>1 DEF Vouches
  <2>3. profiles \in Seq(Profile)
    BY StartsAreStates DEF Init
  <2>4. id \in DOMAIN profiles /\ i \in DOMAIN profiles[id].packages
    BY <2>1, <2>2, <2>3 DEF Profile
  <2>5. <<p, f>> \in Files
    BY DEF Files
  <2> QED
    BY <2>2, <2>4, <2>5 DEF Init, StillStates
<1> QED
  BY <1>1, <1>2, <1>3
     DEF RetentionInv, ClaimsAreKept, AfterIsHeld, VersionsAreMet, ProfilesAreSaved,
         NamedIsRefused

LEMMA AlwaysRetained == Spec => []RetentionInv
BY InitRetention, RetentionKept, AlwaysTyped, PTL DEF Spec

\* Files that settled rows and saved profiles name stay in the library and go on stating
\* the version they were named for, unless a deletion or a download raced.
THEOREM FilesAreRetained == Spec => []RetentionHolds
<1>1. ASSUME TypeInv, RetentionInv PROVE RetentionHolds
  <2>1. ASSUME NEW p \in Packages, NEW f \in Versions, NEW v \in Apk, StillStates(p, f, v)
        PROVE  library[p][f] # NoFile \/ <<p, f>> \in raced
    BY <2>1, FilesAreStated DEF StillStates
  <2>2. ASSUME NEW p \in Packages, NEW f \in Versions, HeldByProfile(p, f)
        PROVE  library[p][f] # NoFile \/ <<p, f>> \in raced
    BY <1>1, <2>1, <2>2, HeldIsClaimed DEF RetentionInv, ClaimsAreKept, Claimed
  <2>3. ASSUME NEW i \in Ids, ops[i].status \in {"applied", "uncertain"},
               ops[i].beforeApk # 0
        PROVE  StillStates(ops[i].package, ops[i].beforeApk, ops[i].before.version)
    <3>1. ops[i] \in Operation
      BY <1>1, StoreTyped DEF Ids
    <3>2. /\ ops[i].package \in Packages
          /\ ops[i].beforeApk \in Versions
          /\ ops[i].before.version \in Apk
      BY <2>3, <3>1 DEF Operation, State, Apk
    <3>3. ClaimedByRow(ops[i].package, ops[i].beforeApk, ops[i].before.version)
      BY <2>3 DEF ClaimedByRow
    <3> QED
      BY <1>1, <3>2, <3>3 DEF RetentionInv, ClaimsAreKept, Claimed
  <2>4. ASSUME NEW p \in Packages, NEW f \in Versions, HeldByRow(p, f)
        PROVE  library[p][f] # NoFile \/ <<p, f>> \in raced
    <3>1. PICK i \in Ids : /\ ops[i].package = p
                           /\ ops[i].status \in {"applied", "uncertain"}
                           /\ f \in {ops[i].beforeApk, ops[i].afterApk}
      BY <2>4 DEF HeldByRow
    <3>2. f # 0
      BY VersionsArePositive
    <3>3. CASE f = ops[i].beforeApk
      <4>1. ops[i] \in Operation
        BY <1>1, StoreTyped DEF Ids
      <4>2. ops[i].before.version \in Apk
        BY <4>1 DEF Operation, State
      <4> QED
        BY <2>1, <2>3, <3>1, <3>2, <3>3, <4>2
    <3>4. CASE f = ops[i].afterApk
      BY <1>1, <2>2, <3>1, <3>2, <3>4 DEF RetentionInv, AfterIsHeld
    <3> QED
      BY <3>1, <3>3, <3>4
  <2>5. ASSUME NEW id \in DOMAIN profiles, NEW i \in DOMAIN profiles[id].packages,
               profiles[id].packages[i].apk # 0
        PROVE  LET e == profiles[id].packages[i]
               IN  StillStates(e.package, e.apk, e.state.version)
    <3> DEFINE e == profiles[id].packages[i]
    <3>1. profiles[id] \in Profile /\ id \in 1..Len(profiles)
      BY <1>1, StoreTyped
    <3>2. e \in Entry /\ i \in 1..Len(profiles[id].packages)
      BY <3>1 DEF Profile
    <3>3. e.package \in Packages /\ e.apk \in Versions /\ e.state.version \in Apk
      BY <2>5, <3>2 DEF Entry, State, Apk
    <3>4. ClaimedByProfile(e.package, e.apk, e.state.version)
      BY <3>1, <3>2 DEF ClaimedByProfile, Vouches
    <3> HIDE DEF e
    <3>5. StillStates(e.package, e.apk, e.state.version)
      BY <1>1, <3>3, <3>4 DEF RetentionInv, ClaimsAreKept, Claimed
    <3> QED
      BY <3>5 DEF e
  <2> QED
    BY <2>2, <2>3, <2>4, <2>5 DEF RetentionHolds
<1> QED
  BY <1>1, AlwaysTyped, AlwaysRetained, PTL

-----------------------------------------------------------------------------
(* Reversal.  Every row an application begins has an inverse, and one that *)
(* replaces a version names a file of it.                                  *)

RowsInvertible ==
    \A i \in Ids : /\ ops[i].inverse # ""
                   /\ ops[i].inverse = "restore-apk" => ops[i].beforeApk # 0

LEMMA InvertibleKept ==
  ASSUME TypeInv, VersionsAreMet, RowsInvertible, [Next]_vars
  PROVE  RowsInvertible'
<1>1. ASSUME NEW i \in Ids'
      PROVE  /\ ops'[i].inverse # ""
             /\ ops'[i].inverse = "restore-apk" => ops'[i].beforeApk # 0
  <2>1. CASE i \in Ids
    BY <2>1, RowsKeep DEF RowsInvertible
  <2>2. CASE i \notin Ids
    <3>1. PICK t \in Live : threads[t].pc = "begin" /\ ops'[i] = RowOf(t)
      BY <2>2, RowsKeep
    <3>2. VersionMet(t)
      BY <3>1 DEF VersionsAreMet
    <3>3. /\ RowOf(t).inverse # ""
          /\ RowOf(t).inverse = "restore-apk" => RowOf(t).beforeApk # 0
      BY <3>1, <3>2 DEF RowOf, VersionMet
    <3> QED
      BY <3>1, <3>3
  <2> QED
    BY <2>1, <2>2
<1> QED
  BY <1>1 DEF RowsInvertible

LEMMA AlwaysInvertible == Spec => []RowsInvertible
<1>1. Init => Ids = {}
  BY DEF Init, JournalInit, Ids
<1>2. Init => RowsInvertible
  BY <1>1 DEF RowsInvertible
<1>3. RetentionInv => VersionsAreMet
  BY DEF RetentionInv
<1> QED
  BY <1>2, <1>3, AlwaysTyped, AlwaysRetained, InvertibleKept, PTL DEF Spec

\* A profile row can be taken back: while it is the newest active row of its package and
\* the television is still as the row left it, prepare_selective_rollback accepts it, and
\* the file its inverse installs is in the library and states the version the row
\* replaced, unless a deletion or a download raced.
THEOREM ProfileRowsCanBeReversed == Spec => []ProfileRowsReverse
<1>1. TypeInv /\ RetentionInv /\ RowsInvertible => ProfileRowsReverse
  <2> SUFFICES ASSUME TypeInv, RetentionInv, RowsInvertible, NEW i \in Ids,
                      ops[i].status \in {"applied", "uncertain"},
                      ops[i].device = device,
                      ops[i].status = "applied" => tv[ops[i].package] = ops[i].after,
                      \A k \in Ids : k > i /\ ops[k].package = ops[i].package => ~IsActive(k)
               PROVE  /\ Rollbackable(i, tv[ops[i].package], device)
                      /\ ops[i].inverse = "restore-apk" =>
                            /\ ops[i].beforeApk # 0
                            /\ StillStates(ops[i].package, ops[i].beforeApk,
                                           ops[i].before.version)
    BY DEF ProfileRowsReverse
  <2>1. Rollbackable(i, tv[ops[i].package], device)
    <3>1. ops[i].inverse # ""
      BY DEF RowsInvertible
    <3> QED
      BY <3>1 DEF Rollbackable, Available, NoNewerActive
  <2>2. ASSUME ops[i].inverse = "restore-apk"
        PROVE  /\ ops[i].beforeApk # 0
               /\ StillStates(ops[i].package, ops[i].beforeApk, ops[i].before.version)
    <3>1. ops[i] \in Operation
      BY StoreTyped DEF Ids
    <3>2. /\ ops[i].package \in Packages
          /\ ops[i].beforeApk \in Versions
          /\ ops[i].before.version \in Apk
      BY <2>2, <3>1 DEF Operation, State, Apk, RowsInvertible
    <3>3. Claimed(ops[i].package, ops[i].beforeApk, ops[i].before.version)
      BY DEF Claimed, ClaimedByRow
    <3> QED
      BY <3>2, <3>3, VersionsArePositive DEF RetentionInv, ClaimsAreKept
  <2> QED
    BY <2>1, <2>2
<1> QED
  BY <1>1, AlwaysTyped, AlwaysRetained, AlwaysInvertible, PTL

-----------------------------------------------------------------------------
(* The rows of an application.  They are its own, all but the one at hand  *)
(* are applied, and the one at hand is pending.                            *)

RowsInOrder(t) ==
    LET x == threads[t] IN
    /\ x.pc \in CaptureSteps => x.batch = << >>
    /\ \A i \in 1..Len(x.batch) :
          i < Len(x.batch) \/ x.pc \notin RowPcs => ops[x.batch[i]].status = "applied"
    /\ x.pc \in RowPcs => ops[OpOf(t)].status = "pending"
    /\ \A i \in 1..Len(x.batch) :
          \E k \in 1..Len(x.profile.packages) :
              /\ k <= x.index
              /\ ops[x.batch[i]].package = x.profile.packages[k].package

ShareNoRow(batch, other) ==
    \A i \in 1..Len(batch), k \in 1..Len(other) : batch[i] # other[k]

BatchInv ==
    /\ \A t \in Live : RowsInOrder(t)
    /\ \A s, t \in Live : s # t => ShareNoRow(threads[s].batch, threads[t].batch)

LEMMA SameThreadRows ==
  ASSUME TypeInv, NEW s \in Live, RowsInOrder(s),
         threads'[s] = threads[s] \/ threads'[s] = Disturb(s),
         \A i \in 1..Len(threads[s].batch) :
             /\ ops'[threads[s].batch[i]].status = ops[threads[s].batch[i]].status
             /\ ops'[threads[s].batch[i]].package = ops[threads[s].batch[i]].package
  PROVE  RowsInOrder(s)' /\ threads'[s].batch = threads[s].batch
<1>1. threads[s] \in Thread
  BY LiveIsThread
<1>2. /\ threads'[s].pc = threads[s].pc
      /\ threads'[s].batch = threads[s].batch
      /\ threads'[s].profile = threads[s].profile
      /\ threads'[s].index = threads[s].index
  BY <1>1 DEF Live, Disturb, Thread
<1>3. threads[s].pc \in RowPcs => /\ ops'[OpOf(s)].status = ops[OpOf(s)].status
                                  /\ OpOf(s)' = OpOf(s)
  BY <1>2, OpOfIsRow DEF OpOf
<1>4. ASSUME NEW i \in 1..Len(threads[s].batch)
      PROVE  /\ ops'[threads[s].batch[i]].status = ops[threads[s].batch[i]].status
             /\ \E k \in 1..Len(threads[s].profile.packages) :
                   /\ k <= threads[s].index
                   /\ ops'[threads[s].batch[i]].package =
                          threads[s].profile.packages[k].package
  BY <1>4 DEF RowsInOrder
<1>5. threads'[s].pc \in CaptureSteps => threads'[s].batch = << >>
  BY <1>2 DEF RowsInOrder
<1>6. \A i \in 1..Len(threads[s].batch) :
          i < Len(threads[s].batch) \/ threads[s].pc \notin RowPcs =>
              ops'[threads[s].batch[i]].status = "applied"
  BY <1>4 DEF RowsInOrder
<1>7. threads'[s].pc \in RowPcs => ops'[OpOf(s)'].status = "pending"
  BY <1>2, <1>3 DEF RowsInOrder
<1> QED
  BY <1>2, <1>4, <1>5, <1>6, <1>7 DEF RowsInOrder

\* One thread moves: the others keep their rows if its verdict is none of theirs.
LEMMA BatchesKept ==
  ASSUME TypeInv, BatchInv, NEW t \in Threads, Capture(t) \/ Apply(t),
         \A s \in Live \ {t} : \A i \in 1..Len(threads[s].batch) :
             ops'[threads[s].batch[i]] = ops[threads[s].batch[i]],
         t \in Live' => RowsInOrder(t)',
         t \in Live' => \A s \in Live \ {t} : ShareNoRow(threads'[t].batch, threads[s].batch)
  PROVE  BatchInv'
<1>1. ASSUME NEW s \in Live', s # t
      PROVE  /\ s \in Live
             /\ RowsInOrder(s)'
             /\ threads'[s].batch = threads[s].batch
  <2>1. s \in Threads /\ (threads'[s] = threads[s] \/ threads'[s] = Disturb(s))
    BY <1>1, OthersStay DEF Live
  <2>2. s \in Live
    BY <2>1, SameThread
  <2> QED
    BY <1>1, <2>1, <2>2, SameThreadRows DEF BatchInv
<1>2. ASSUME NEW s \in Live', NEW u \in Live', s # u
      PROVE  ShareNoRow(threads'[s].batch, threads'[u].batch)
  <2>1. CASE s # t /\ u # t
    BY <1>1, <1>2, <2>1 DEF BatchInv
  <2>2. CASE s = t
    BY <1>1, <1>2, <2>2
  <2>3. CASE u = t
    BY <1>1, <1>2, <2>3 DEF ShareNoRow
  <2> QED
    BY <2>1, <2>2, <2>3
<1> QED
  BY <1>1, <1>2 DEF BatchInv

\* A move without a new row and without a verdict.
LEMMA MoveInOrder ==
  ASSUME TypeInv, BatchInv, NEW t \in Live, UNCHANGED ops,
         threads'[t].batch = threads[t].batch,
         \/ /\ threads[t].pc \in CaptureSteps
            /\ threads'[t].pc \in CaptureSteps
         \/ /\ threads[t].pc \notin CaptureSteps
            /\ threads'[t].pc \notin CaptureSteps
            /\ threads[t].pc \in RowPcs <=> threads'[t].pc \in RowPcs
            /\ threads'[t].profile = threads[t].profile
            /\ threads'[t].index \in {threads[t].index, threads[t].index + 1}
  PROVE  /\ RowsInOrder(t)'
         /\ \A s \in Live \ {t} : ShareNoRow(threads'[t].batch, threads[s].batch)
<1>1. RowsInOrder(t) /\ threads[t] \in Thread
  BY LiveIsThread DEF BatchInv
<1>2. OpOf(t)' = OpOf(t)
  BY DEF OpOf
<1>3. \A s \in Live \ {t} : ShareNoRow(threads'[t].batch, threads[s].batch)
  BY DEF BatchInv
<1>4. CASE threads[t].pc \in CaptureSteps /\ threads'[t].pc \in CaptureSteps
  <2>1. threads'[t].batch = << >> /\ threads'[t].pc \notin RowPcs
    BY <1>1, <1>4 DEF RowsInOrder, CaptureSteps, RowPcs
  <2> QED
    BY <1>3, <2>1 DEF RowsInOrder
<1>5. CASE /\ threads[t].pc \notin CaptureSteps
           /\ threads'[t].pc \notin CaptureSteps
           /\ threads[t].pc \in RowPcs <=> threads'[t].pc \in RowPcs
           /\ threads'[t].profile = threads[t].profile
           /\ threads'[t].index \in {threads[t].index, threads[t].index + 1}
  <2>1. threads[t].index \in Nat
    BY <1>1 DEF Thread
  <2>2. \A k \in 1..Len(threads[t].profile.packages) :
            k <= threads[t].index => k <= threads'[t].index
    BY <1>5, <2>1
  <2> QED
    BY <1>1, <1>2, <1>3, <1>5, <2>2 DEF RowsInOrder
<1> QED
  BY <1>4, <1>5

LEMMA FreshInOrder ==
  ASSUME NEW t \in Threads, threads'[t].batch = << >>, threads'[t].pc \notin RowPcs
  PROVE  RowsInOrder(t)' /\ \A s \in Live : ShareNoRow(threads'[t].batch, threads[s].batch)
BY DEF RowsInOrder, ShareNoRow

LEMMA CaptureKeepsRows ==
  ASSUME TypeInv, BatchInv, NEW t \in Threads, Capture(t)
  PROVE  BatchInv'
<1>1. UNCHANGED ops
  BY DEF Capture, StartCapture, ListPackages, ReadPackage, Fetch, Save, CaptureFails
<1>2. CASE StartCapture(t)
  <2>1. threads'[t].batch = << >> /\ threads'[t].pc \notin RowPcs
    BY <1>2, StoreTyped DEF StartCapture, NewThread, RowPcs
  <2> QED
    BY <1>1, <2>1, FreshInOrder, BatchesKept
<1>3. CASE Save(t) \/ CaptureFails(t)
  <2>1. t \notin Live'
    BY <1>3, StoreTyped DEF Save, CaptureFails, End, Live
  <2> QED
    BY <1>1, <2>1, BatchesKept
<1>4. CASE ListPackages(t)
  <2>1. t \in Live /\ threads[t] \in Thread /\ threads[t].pc = "list"
    BY <1>4, LiveIsThread DEF ListPackages, At
  <2>2. threads'[t].batch = threads[t].batch /\ threads'[t].pc \in CaptureSteps
    BY <1>4, <2>1, StoreTyped DEF ListPackages, Thread, CaptureSteps
  <2> QED
    BY <1>1, <2>1, <2>2, MoveInOrder, BatchesKept DEF CaptureSteps
<1>5. CASE ReadPackage(t) \/ Fetch(t)
  <2>1. PICK q \in Packages, state \in State, apk \in Apk :
            \/ threads' = Captured(t, q, state, apk)
            \/ threads' = [threads EXCEPT ![t].current = state, ![t].pc = "fetch"]
    BY <1>5, ReadStep
  <2>2. t \in Live /\ threads[t].pc \in {"read", "fetch"} /\ threads[t] \in Thread
    BY <1>5, ReadStep, LiveIsThread
  <2>3. threads'[t].batch = threads[t].batch /\ threads'[t].pc \in CaptureSteps
    <3>1. CASE threads' = Captured(t, q, state, apk)
      <4>1. PICK x \in Thread : /\ Captured(t, q, state, apk) = [threads EXCEPT ![t] = x]
                                /\ x.pc \in {"read", "save"}
                                /\ x.batch = threads[t].batch
        BY <2>2, CapturedTyped
      <4> QED
        BY <3>1, <4>1, StoreTyped DEF CaptureSteps
    <3>2. CASE threads' = [threads EXCEPT ![t].current = state, ![t].pc = "fetch"]
      BY <2>2, <3>2, StoreTyped DEF Thread, CaptureSteps
    <3> QED
      BY <2>1, <3>1, <3>2
  <2> QED
    BY <1>1, <2>2, <2>3, MoveInOrder, BatchesKept DEF CaptureSteps
<1> QED
  BY <1>2, <1>3, <1>4, <1>5 DEF Capture

\* The row at hand is in no other application.
LEMMA OpOfIsOwn ==
  ASSUME TypeInv, BatchInv, NEW t \in Live, threads[t].pc \in RowPcs,
         NEW s \in Live \ {t}, NEW i \in 1..Len(threads[s].batch)
  PROVE  threads[s].batch[i] # OpOf(t) /\ threads[s].batch[i] \in Ids
<1>1. Len(threads[t].batch) \in 1..Len(threads[t].batch)
  BY OpOfIsRow
<1>2. ShareNoRow(threads[s].batch, threads[t].batch)
  BY DEF BatchInv
<1>3. threads[s].batch[i] \in Ids
  BY LiveIsThread, StoreTyped DEF Shape, Ids
<1> QED
  BY <1>1, <1>2, <1>3 DEF ShareNoRow, OpOf

LEMMA BeginInOrder ==
  ASSUME TypeInv, BatchInv, NEW t \in Threads, BeginRow(t)
  PROVE  BatchInv'
<1>1. /\ t \in Live /\ threads[t] \in Thread /\ threads[t].pc = "begin"
      /\ Shape(threads[t], Len(ops)) /\ RowsInOrder(t)
  BY BegunRows, LiveIsThread DEF BatchInv
<1>2. PICK old, new, last, row :
          /\ old = threads[t].batch /\ new = threads'[t].batch
          /\ last = Len(ops) + 1 /\ row = RowOf(t)
  OBVIOUS
<1>3. /\ threads'[t].pc = "command"
      /\ threads'[t].profile = threads[t].profile
      /\ threads'[t].index = threads[t].index
      /\ new = Append(old, last)
  BY <1>1, <1>2, StoreTyped DEF BeginRow, Thread
<1>4. /\ old \in Seq(Nat) /\ Len(old) \in Nat /\ last \in Nat
      /\ \A i \in 1..Len(old) : old[i] \in Ids
      /\ last \notin Ids
  <2>1. ops \in Seq(Operation) /\ Ids = 1..Len(ops) /\ Len(ops) \in Nat
    BY StoreTyped DEF Ids
  <2>2. threads[t].batch \in Seq(Nat)
    BY <1>1 DEF Thread
  <2>3. \A i \in 1..Len(threads[t].batch) : threads[t].batch[i] \in 1..Len(ops)
    BY <1>1 DEF Shape
  <2>4. last \in Nat /\ last \notin Ids
    BY <1>2, <2>1
  <2> QED
    BY <1>2, <2>1, <2>2, <2>3, <2>4
<1>5. /\ \A i \in Ids : ops'[i] = ops[i]
      /\ ops'[last] = row
  BY <1>2, BegunRows
<1>6. /\ Len(new) = Len(old) + 1
      /\ new[Len(old) + 1] = last
      /\ \A i \in 1..Len(old) : new[i] = old[i]
  BY <1>3, <1>4
<1>7. \A i \in 1..Len(new) : i = Len(old) + 1 \/ i \in 1..Len(old)
  BY <1>4, <1>6
<1>8. OpOf(t)' = last
  BY <1>2, <1>6 DEF OpOf
<1>9. row.package = Desired(t).package /\ row.status = "pending"
  BY <1>2, RowFiles DEF RowOf
<1>10. threads[t].index \in 1..Len(threads[t].profile.packages)
  BY <1>1, DesiredIsEntry DEF EntryPcs
<1>11. ASSUME NEW i \in 1..Len(new), i < Len(new)
       PROVE  ops'[new[i]].status = "applied"
  <2>1. i \in 1..Len(old)
    BY <1>4, <1>6, <1>7, <1>11
  <2>2. ops[old[i]].status = "applied"
    BY <1>1, <1>2, <2>1 DEF RowsInOrder, RowPcs
  <2> QED
    BY <1>4, <1>5, <1>6, <2>1, <2>2
<1>12. ASSUME NEW i \in 1..Len(new)
       PROVE  \E k \in 1..Len(threads[t].profile.packages) :
                  /\ k <= threads[t].index
                  /\ ops'[new[i]].package = threads[t].profile.packages[k].package
  <2>1. CASE i = Len(old) + 1
    <3>1. ops'[new[i]].package = threads[t].profile.packages[threads[t].index].package
      BY <1>5, <1>6, <1>9, <2>1 DEF Desired
    <3>2. threads[t].index <= threads[t].index
      BY <1>10
    <3> QED
      BY <1>10, <3>1, <3>2
  <2>2. CASE i \in 1..Len(old)
    <3>1. ops'[new[i]] = ops[old[i]]
      BY <1>4, <1>5, <1>6, <2>2
    <3> QED
      BY <1>1, <1>2, <2>2, <3>1 DEF RowsInOrder
  <2> QED
    BY <1>7, <2>1, <2>2
<1>13. RowsInOrder(t)'
  BY <1>2, <1>3, <1>5, <1>8, <1>9, <1>11, <1>12 DEF RowsInOrder, CaptureSteps, RowPcs
<1>14. ASSUME NEW s \in Live \ {t}
       PROVE  ShareNoRow(threads'[t].batch, threads[s].batch)
  <2>1. ShareNoRow(old, threads[s].batch)
    BY <1>1, <1>2 DEF BatchInv
  <2>2. \A k \in 1..Len(threads[s].batch) : threads[s].batch[k] \in Ids
    BY LiveIsThread, StoreTyped DEF Shape, Ids
  <2>3. ASSUME NEW i \in 1..Len(new), NEW k \in 1..Len(threads[s].batch)
        PROVE  new[i] # threads[s].batch[k]
    <3>1. CASE i = Len(old) + 1
      BY <1>4, <1>6, <2>2, <3>1
    <3>2. CASE i \in 1..Len(old)
      BY <1>6, <2>1, <3>2 DEF ShareNoRow
    <3> QED
      BY <1>7, <3>1, <3>2
  <2> QED
    BY <1>2, <2>3 DEF ShareNoRow
<1>15. ASSUME NEW s \in Live \ {t}, NEW i \in 1..Len(threads[s].batch)
       PROVE  ops'[threads[s].batch[i]] = ops[threads[s].batch[i]]
  BY <1>5, LiveIsThread, StoreTyped DEF Shape, Ids
<1> QED
  BY <1>13, <1>14, <1>15, BatchesKept DEF Apply

LEMMA CompleteInOrder ==
  ASSUME TypeInv, BatchInv, NEW t \in Threads, CompleteRow(t)
  PROVE  BatchInv'
<1> DEFINE batch == threads[t].batch
<1>1. /\ t \in Live /\ threads[t] \in Thread /\ threads[t].pc = "complete"
      /\ Shape(threads[t], Len(ops)) /\ RowsInOrder(t)
      /\ threads[t].after \in State
  BY LiveIsThread DEF CompleteRow, At, BatchInv, Thread
<1>2. threads'[t] = CompareEnabled(t, threads[t].after) \/ threads'[t] = NextEntry(t)
  BY StoreTyped DEF CompleteRow
<1>3. /\ threads'[t].batch = batch
      /\ threads'[t].profile = threads[t].profile
      /\ threads'[t].pc \in {"begin", "inspect", "result"}
      /\ threads'[t].index \in {threads[t].index, threads[t].index + 1}
  BY <1>1, <1>2, CompareFacts, NextEntryFacts
<1>4. OpOf(t) \in Ids /\ Complete(OpOf(t), threads[t].after)
  BY <1>1, OpOfIsRow DEF CompleteRow, RowPcs
<1>5. /\ \A k \in Ids \ {OpOf(t)} : ops'[k] = ops[k]
      /\ ops'[OpOf(t)].status = "applied"
      /\ ops'[OpOf(t)].package = ops[OpOf(t)].package
  <2>1. ops[OpOf(t)] \in Operation
    BY <1>4, StoreTyped DEF Ids
  <2> QED
    BY <1>1, <1>4, <2>1, VerdictRows DEF Operation
<1>6. batch \in Seq(Nat) /\ Len(batch) \in Nat /\ \A i \in 1..Len(batch) : batch[i] \in Ids
  BY <1>1, StoreTyped DEF Shape, Thread, Ids
<1>7. ASSUME NEW i \in 1..Len(batch)
      PROVE  ops'[batch[i]].status = "applied" /\ ops'[batch[i]].package = ops[batch[i]].package
  <2>1. CASE batch[i] = OpOf(t)
    BY <1>5, <2>1
  <2>2. CASE batch[i] # OpOf(t)
    <3>1. i < Len(batch)
      BY <1>6, <2>2 DEF OpOf
    <3>2. ops[batch[i]].status = "applied"
      BY <1>1, <3>1 DEF RowsInOrder
    <3> QED
      BY <1>5, <1>6, <2>2, <3>2
  <2> QED
    BY <2>1, <2>2
<1>8. threads[t].index \in Nat
  BY <1>1 DEF Thread
<1>9. \A k \in 1..Len(threads[t].profile.packages) :
          k <= threads[t].index => k <= threads'[t].index
  BY <1>3, <1>8
<1>10. RowsInOrder(t)'
  <2>1. threads'[t].pc \notin RowPcs /\ threads'[t].pc \notin CaptureSteps
    BY <1>3 DEF RowPcs, CaptureSteps
  <2> HIDE DEF batch
  <2>2. ASSUME NEW i \in 1..Len(batch)
        PROVE  \E k \in 1..Len(threads[t].profile.packages) :
                   /\ k <= threads'[t].index
                   /\ ops'[batch[i]].package = threads[t].profile.packages[k].package
    BY <1>1, <1>7, <1>9 DEF RowsInOrder, batch
  <2> QED
    BY <1>3, <1>7, <2>1, <2>2 DEF RowsInOrder
<1>11. ASSUME NEW s \in Live \ {t}
       PROVE  /\ ShareNoRow(threads'[t].batch, threads[s].batch)
              /\ \A i \in 1..Len(threads[s].batch) :
                     ops'[threads[s].batch[i]] = ops[threads[s].batch[i]]
  BY <1>1, <1>3, <1>5, OpOfIsOwn DEF BatchInv, RowPcs
<1> QED
  BY <1>10, <1>11, BatchesKept DEF Apply

LEMMA ApplyInOrder ==
  ASSUME TypeInv, BatchInv, NEW t \in Threads, Apply(t)
  PROVE  BatchInv'
<1>1. ASSUME NEW id \in 1..Len(profiles), StartApply(t, id) PROVE BatchInv'
  <2>1. threads'[t].batch = << >> /\ threads'[t].pc \notin RowPcs /\ UNCHANGED ops
    BY <1>1, StoreTyped DEF StartApply, NewThread, RowPcs
  <2> QED
    BY <2>1, FreshInOrder, BatchesKept
<1>2. ASSUME t \notin Live', UNCHANGED ops PROVE BatchInv'
  BY <1>2, BatchesKept
<1>3. ASSUME t \in Live, UNCHANGED ops,
             threads[t].pc \notin CaptureSteps, threads'[t].pc \notin CaptureSteps,
             threads[t].pc \in RowPcs <=> threads'[t].pc \in RowPcs,
             threads'[t].batch = threads[t].batch,
             threads'[t].profile = threads[t].profile,
             threads'[t].index \in {threads[t].index, threads[t].index + 1}
      PROVE  BatchInv'
  BY <1>3, MoveInOrder, BatchesKept
<1>4. CASE Inspect(t)
  <2>1. t \in Live /\ threads[t] \in Thread /\ threads[t].pc = "inspect"
    BY <1>4, LiveIsThread DEF Inspect, At
  <2> DEFINE now == tv[Desired(t).package]
  <2>2. now \in State
    BY <2>1, DesiredIsEntry, StoreTyped DEF EntryPcs, Entry
  <2>3. CASE End(t)
    <3>1. t \notin Live' /\ UNCHANGED ops
      BY <1>4, <2>3, StoreTyped DEF Inspect, End, Live
    <3> QED
      BY <1>2, <3>1
  <2>4. CASE threads' = [threads EXCEPT ![t] = CompareEnabled(t, now)]
    <3>1. threads'[t] = CompareEnabled(t, now)
      BY <2>4, StoreTyped
    <3> HIDE DEF now
    <3>2. /\ threads'[t].batch = threads[t].batch
          /\ threads'[t].profile = threads[t].profile
          /\ threads'[t].pc \in {"begin", "inspect", "result"}
          /\ threads'[t].index \in {threads[t].index, threads[t].index + 1}
      BY <2>1, <2>2, <3>1, CompareFacts
    <3> QED
      BY <1>3, <1>4, <2>1, <3>2 DEF Inspect, CaptureSteps, RowPcs
  <2>5. ASSUME NEW apk \in Apk, threads' = Begun(t, now, apk) PROVE BatchInv'
    <3>1. /\ threads'[t].batch = threads[t].batch
          /\ threads'[t].profile = threads[t].profile
          /\ threads'[t].pc = "begin"
          /\ threads'[t].index = threads[t].index
      BY <2>1, <2>5, BegunFacts
    <3> QED
      BY <1>3, <1>4, <2>1, <3>1 DEF Inspect, CaptureSteps, RowPcs
  <2> QED
    BY <1>4, <2>3, <2>4, <2>5, InspectMoves
<1>5. CASE Command(t) \/ Verify(t) \/ VerdictFails(t)
  <2>1. t \in Live /\ threads[t] \in Thread /\ threads[t].pc \in {"command", "verify", "complete"}
    BY <1>5, LiveIsThread DEF Command, Verify, VerdictFails, At
  <2>2. /\ threads'[t].batch = threads[t].batch
        /\ threads'[t].profile = threads[t].profile
        /\ threads'[t].pc \in RowPcs
        /\ threads'[t].index = threads[t].index
    <3>1. CASE Command(t)
      <4>1. PICK pc \in {"verify", "fail"} : threads'[t] = [threads[t] EXCEPT !.pc = pc]
        BY <3>1, CommandMoves
      <4> QED
        BY <2>1, <4>1 DEF Thread, RowPcs
    <3>2. CASE Verify(t) \/ VerdictFails(t)
      BY <2>1, <3>2, StoreTyped DEF Verify, VerdictFails, Goto, Thread, RowPcs
    <3> QED
      BY <1>5, <3>1, <3>2
  <2>3. UNCHANGED ops
    BY <1>5 DEF Command, Verify, VerdictFails
  <2> QED
    BY <1>3, <2>1, <2>2, <2>3 DEF CaptureSteps, RowPcs
<1>6. CASE FailRow(t)
  <2>1. t \in Live /\ threads[t].pc \in RowPcs /\ t \notin Live'
    BY <1>6, StoreTyped DEF FailRow, At, RowPcs, End, Live
  <2>2. OpOf(t) \in Ids /\ Absent \in State /\ (Fail(OpOf(t)) \/ UNCHANGED ops)
    BY <1>6, <2>1, OpOfIsRow DEF FailRow, Absent, State, Apk
  <2>3. \A k \in Ids \ {OpOf(t)} : ops'[k] = ops[k]
    BY <2>2, VerdictRows
  <2>4. \A s \in Live \ {t} : \A i \in 1..Len(threads[s].batch) :
            ops'[threads[s].batch[i]] = ops[threads[s].batch[i]]
    BY <2>1, <2>3, OpOfIsOwn
  <2> QED
    BY <2>1, <2>4, BatchesKept
<1>7. CASE ApplyStops(t) \/ Result(t)
  <2>1. t \notin Live' /\ UNCHANGED ops
    BY <1>7, StoreTyped DEF ApplyStops, Result, End, Live
  <2> QED
    BY <1>2, <2>1
<1> QED
  BY <1>1, <1>4, <1>5, <1>6, <1>7, BeginInOrder, CompleteInOrder DEF Apply

LEMMA NextInOrder ==
  ASSUME TypeInv, BatchInv, [Next]_vars
  PROVE  BatchInv'
<1>1. CASE \E t \in Threads : Capture(t) \/ Apply(t)
  BY <1>1, CaptureKeepsRows, ApplyInOrder
<1>2. CASE ~(\E t \in Threads : Capture(t) \/ Apply(t))
  <2>1. UNCHANGED ops /\ \A s \in Threads : threads'[s] \in {threads[s], Disturb(s), NoThread}
    BY <1>2 DEF Next, StartDelete, CheckProfiles, Unlink, Environment, Crash, DeviceChange,
       LateEffect, ExternalChange, OtherDownload, AwaitRequest, vars
  <2>2. ASSUME NEW s \in Live'
        PROVE  s \in Live /\ RowsInOrder(s)' /\ threads'[s].batch = threads[s].batch
    <3>1. s \in Threads /\ (threads'[s] = threads[s] \/ threads'[s] = Disturb(s))
      BY <2>1 DEF Live
    <3>2. s \in Live
      BY <3>1, SameThread
    <3> QED
      BY <2>1, <3>1, <3>2, SameThreadRows DEF BatchInv
  <2> QED
    BY <2>2 DEF BatchInv
<1> QED
  BY <1>1, <1>2

LEMMA AlwaysInOrder == Spec => []BatchInv
<1>1. Init => BatchInv
  BY DEF Init, BatchInv, Live
<1> QED
  BY <1>1, AlwaysTyped, NextInOrder, PTL DEF Spec

\* An application stops on the first mismatch: every row but its last has been verified,
\* and no package is begun before the ones that the profile lists ahead of it.
THEOREM ApplicationsStop == Spec => []StopsAtFirstMismatch
<1>1. TypeInv /\ BatchInv => StopsAtFirstMismatch
  <2> SUFFICES ASSUME TypeInv, BatchInv, NEW t \in Live
               PROVE  LET batch == threads[t].batch IN
                      /\ \A i \in 1..(Len(batch) - 1) : ops[batch[i]].status = "applied"
                      /\ \A i \in 1..Len(batch) :
                            \E k \in 1..Len(threads[t].profile.packages) :
                                /\ k <= threads[t].index
                                /\ ops[batch[i]].package =
                                       threads[t].profile.packages[k].package
    BY DEF StopsAtFirstMismatch
  <2>1. RowsInOrder(t) /\ Len(threads[t].batch) \in Nat
    BY LiveIsThread DEF BatchInv, Thread
  <2>2. \A i \in 1..(Len(threads[t].batch) - 1) :
            i \in 1..Len(threads[t].batch) /\ i < Len(threads[t].batch)
    BY <2>1
  <2> QED
    BY <2>1, <2>2 DEF RowsInOrder
<1> QED
  BY <1>1, AlwaysTyped, AlwaysInOrder, PTL

-----------------------------------------------------------------------------
(* Every profile has each package once: a capture takes a package off its  *)
(* list when it reads it.                                                  *)

CaptureInOrder(x) ==
    /\ ListedOnce(x.profile)
    /\ x.pc \in CaptureSteps =>
          \A i \in DOMAIN x.profile.packages : x.profile.packages[i].package \notin x.todo
    /\ x.pc = "list" => x.profile.packages = << >>

CaptureInv ==
    /\ \A id \in DOMAIN profiles : ListedOnce(profiles[id])
    /\ \A t \in Live : CaptureInOrder(threads[t])

\* An application stays one until it ends.
LEMMA ApplyStays ==
  ASSUME TypeInv, NEW t \in Threads, Apply(t), t \in Live'
  PROVE  threads'[t].pc \in ApplySteps
<1>1. ASSUME NEW id \in 1..Len(profiles), StartApply(t, id)
      PROVE  threads'[t].pc \in {"inspect", "result"}
  BY <1>1, StoreTyped DEF StartApply, NewThread
<1>2. CASE Inspect(t)
  <2> DEFINE now == tv[Desired(t).package]
  <2>1. t \in Live /\ now \in State
    BY <1>2, InspectMoves
  <2>2. ~End(t)
    BY StoreTyped DEF End, Live
  <2>3. CASE threads' = [threads EXCEPT ![t] = CompareEnabled(t, now)]
    <3>1. threads'[t] = CompareEnabled(t, now)
      BY <2>3, StoreTyped
    <3> HIDE DEF now
    <3> QED
      BY <2>1, <3>1, CompareFacts DEF ApplySteps
  <2>4. ASSUME NEW apk \in Apk, threads' = Begun(t, now, apk)
        PROVE  threads'[t].pc \in ApplySteps
    BY <2>1, <2>4, BegunFacts DEF ApplySteps
  <2> QED
    BY <1>2, <2>2, <2>3, <2>4, InspectMoves
<1>3. CASE BeginRow(t) \/ Verify(t) \/ VerdictFails(t)
  <2>1. threads[t] \in Thread
    BY <1>3, LiveIsThread DEF BeginRow, Verify, VerdictFails, At
  <2> QED
    BY <1>3, <2>1, StoreTyped DEF BeginRow, Verify, VerdictFails, Goto, Thread, ApplySteps
<1>4. CASE Command(t)
  BY <1>4, CommandMoves DEF Thread, ApplySteps
<1>5. CASE CompleteRow(t)
  <2>1. t \in Live /\ threads[t].after \in State
    BY <1>5, LiveIsThread DEF CompleteRow, At, Thread
  <2>2. threads'[t] = CompareEnabled(t, threads[t].after) \/ threads'[t] = NextEntry(t)
    BY <1>5, StoreTyped DEF CompleteRow
  <2> QED
    BY <2>1, <2>2, CompareFacts, NextEntryFacts DEF ApplySteps
<1>6. ~ApplyStops(t) /\ ~FailRow(t) /\ ~Result(t)
  BY StoreTyped DEF ApplyStops, FailRow, Result, End, Live
<1> QED
  BY <1>1, <1>2, <1>3, <1>4, <1>5, <1>6 DEF Apply, ApplySteps

LEMMA CapturesInOrder ==
  ASSUME TypeInv, CaptureInv, NEW t \in Threads, Capture(t), t \in Live'
  PROVE  CaptureInOrder(threads'[t])
<1>1. CASE StartCapture(t)
  <2>1. threads'[t].profile.packages = << >>
    BY <1>1, StoreTyped DEF StartCapture, NewThread
  <2> QED
    BY <2>1 DEF CaptureInOrder, ListedOnce
<1>2. CASE ListPackages(t)
  <2>1. t \in Live /\ threads[t] \in Thread /\ threads[t].pc = "list"
    BY <1>2, LiveIsThread DEF ListPackages, At
  <2>2. threads[t].profile.packages = << >>
    BY <2>1 DEF CaptureInv, CaptureInOrder
  <2>3. threads'[t].profile.packages = << >>
    BY <1>2, <2>1, <2>2, StoreTyped DEF ListPackages, Thread
  <2> QED
    BY <2>3 DEF CaptureInOrder, ListedOnce
<1>3. CASE ReadPackage(t) \/ Fetch(t)
  <2>1. PICK q \in Packages, state \in State, apk \in Apk :
            /\ q \in threads[t].todo
            /\ \/ threads' = Captured(t, q, state, apk)
               \/ threads' = [threads EXCEPT ![t].current = state, ![t].pc = "fetch"]
    BY <1>3, ReadStep DEF AtHand
  <2>2. /\ t \in Live /\ threads[t] \in Thread /\ threads[t].pc \in {"read", "fetch"}
        /\ CaptureInOrder(threads[t])
    BY <1>3, ReadStep, LiveIsThread DEF CaptureInv
  <2>3. CASE threads' = [threads EXCEPT ![t].current = state, ![t].pc = "fetch"]
    <3>1. /\ threads'[t].pc = "fetch"
          /\ threads'[t].profile = threads[t].profile
          /\ threads'[t].todo = threads[t].todo
      BY <2>2, <2>3, StoreTyped DEF Thread
    <3> QED
      BY <2>2, <3>1 DEF CaptureInOrder, CaptureSteps
  <2>4. CASE threads' = Captured(t, q, state, apk)
    <3>1. PICK x \in Thread : /\ Captured(t, q, state, apk) = [threads EXCEPT ![t] = x]
                              /\ x.pc \in {"read", "save"}
                              /\ x.profile.packages = Extended(t, q, state, apk)
                              /\ x.todo = threads[t].todo \ {q}
      BY <2>2, CapturedTyped
    <3>2. threads'[t] = x
      BY <2>4, <3>1, StoreTyped
    <3>3. PICK old, new : old = threads[t].profile.packages /\ new = x.profile.packages
      OBVIOUS
    <3>4. old \in Seq(Entry) /\ Len(old) \in Nat
      BY <2>2, <3>3 DEF Thread, Profile
    <3>5. /\ DOMAIN new = 1..(Len(old) + 1)
          /\ DOMAIN old = 1..Len(old)
          /\ \A i \in 1..Len(old) : new[i].package = old[i].package
          /\ new[Len(old) + 1].package = q
      <4>1. PICK e \in Entry : e.package = q /\ new = Append(old, e)
        BY <3>1, <3>3 DEF Extended, Entry
      <4>2. Len(new) = Len(old) + 1 /\ new \in Seq(Entry) /\ new[Len(old) + 1] = e
        BY <3>4, <4>1
      <4>3. \A i \in 1..Len(old) : new[i] = old[i]
        BY <3>4, <4>1
      <4> QED
        BY <3>4, <4>1, <4>2, <4>3
    <3>6. \A i \in 1..Len(old) : old[i].package \notin threads[t].todo
      BY <2>2, <3>3, <3>5 DEF CaptureInOrder, CaptureSteps
    <3>7. \A i \in 1..(Len(old) + 1) : i = Len(old) + 1 \/ i \in 1..Len(old)
      BY <3>4
    <3>8. ASSUME NEW i \in DOMAIN new PROVE new[i].package \notin x.todo
      BY <3>1, <3>5, <3>6, <3>7
    <3>9. \A i, k \in 1..Len(old) : old[i].package = old[k].package => i = k
      BY <2>2, <3>3, <3>5 DEF CaptureInOrder, ListedOnce
    <3>10. ASSUME NEW i \in DOMAIN new, NEW k \in DOMAIN new, new[i].package = new[k].package
           PROVE  i = k
      BY <2>1, <3>5, <3>6, <3>7, <3>9, <3>10
    <3> QED
      BY <3>1, <3>2, <3>3, <3>8, <3>10 DEF CaptureInOrder, ListedOnce
  <2> QED
    BY <2>1, <2>3, <2>4
<1>4. ~Save(t) /\ ~CaptureFails(t)
  BY StoreTyped DEF Save, CaptureFails, End, Live
<1> QED
  BY <1>1, <1>2, <1>3, <1>4 DEF Capture

LEMMA CaptureKept ==
  ASSUME TypeInv, CaptureInv, ProfilesAreSaved, [Next]_vars
  PROVE  CaptureInv'
<1>1. ASSUME NEW id \in DOMAIN profiles' PROVE ListedOnce(profiles'[id])
  <2>1. CASE UNCHANGED profiles
    BY <2>1 DEF CaptureInv
  <2>2. ASSUME NEW t \in Live, threads[t].profile \in Profile,
               profiles' = Append(profiles, threads[t].profile)
        PROVE  ListedOnce(profiles'[id])
    <3>1. PICK x \in Profile : x = threads[t].profile
      BY <2>2
    <3>2. (id \in DOMAIN profiles /\ profiles'[id] = profiles[id]) \/ profiles'[id] = x
      BY <2>2, <3>1, StoreTyped
    <3> QED
      BY <2>2, <3>1, <3>2 DEF CaptureInv, CaptureInOrder
  <2> QED
    BY <2>1, <2>2, ProfilesGrow
<1>2. ASSUME NEW t \in Live' PROVE CaptureInOrder(threads'[t])
  <2>1. t \in Threads
    BY DEF Live
  <2>2. CASE Capture(t)
    BY <2>1, <2>2, CapturesInOrder
  <2>3. CASE Apply(t)
    <3>1. threads'[t].pc \in ApplySteps
      BY <2>1, <2>3, ApplyStays
    <3>2. ListedOnce(threads'[t].profile)
      <4>1. CASE t \in Live /\ threads'[t].profile = threads[t].profile
        BY <4>1 DEF CaptureInv, CaptureInOrder
      <4>2. CASE \E id \in 1..Len(profiles) : threads'[t].profile = profiles[id]
        BY <4>2, StoreTyped DEF CaptureInv
      <4> QED
        BY <2>1, <3>1, <4>1, <4>2, ThreadsKeepProfiles
    <3> QED
      BY <3>1, <3>2 DEF CaptureInOrder, ApplySteps, CaptureSteps
  <2>4. CASE ~Capture(t) /\ ~Apply(t)
    <3>1. threads'[t] = threads[t] \/ threads'[t] = Disturb(t)
      BY <2>1, <2>4, ElsewhereStay DEF Live
    <3>2. t \in Live
      BY <2>1, <3>1, SameThread
    <3>3. /\ threads'[t].pc = threads[t].pc
          /\ threads'[t].profile = threads[t].profile
          /\ threads'[t].todo = threads[t].todo
      BY <3>1, <3>2, LiveIsThread DEF Live, Disturb, Thread
    <3> QED
      BY <3>2, <3>3 DEF CaptureInv, CaptureInOrder
  <2> QED
    BY <2>2, <2>3, <2>4
<1> QED
  BY <1>1, <1>2 DEF CaptureInv

-----------------------------------------------------------------------------
(* What an application has reached.  While nobody else changes the         *)
(* television, the entries behind it are as the profile has them, and what *)
(* it has read of the entry at hand is true.                               *)

Reached(t) ==
    \A k \in 1..Len(threads[t].profile.packages) :
        k < threads[t].index =>
            tv[threads[t].profile.packages[k].package] = threads[t].profile.packages[k].state

ReadingIsTrue(t) ==
    LET now == tv[Desired(t).package]
        wanted == Desired(t).state
    IN  /\ /\ threads[t].pc \in {"begin", "command", "verify", "complete"}
           /\ threads[t].change = "enabled"
           => now.version = wanted.version
        /\ threads[t].pc = "complete" =>
              /\ now = threads[t].after
              /\ IF threads[t].change = "version" THEN now.version = wanted.version
                                                  ELSE now.enabled = wanted.enabled

OnItsWay(t) ==
    /\ threads[t].pc = "inspect" => threads[t].change = "version"
    /\ threads[t].pc \in ApplySteps /\ threads[t].alone => Reached(t) /\ ReadingIsTrue(t)

ReachInv == \A t \in Live : OnItsWay(t)

LEMMA OthersOnTheirWay ==
  ASSUME TypeInv, ReachInv, NEW s \in Live',
         s \in Threads,
         \/ threads'[s] = Disturb(s)
         \/ threads'[s] = threads[s] /\ UNCHANGED tv
  PROVE  OnItsWay(s)'
<1>1. s \in Live
  BY SameThread
<1>2. threads[s] \in Thread /\ OnItsWay(s)
  BY <1>1, LiveIsThread DEF ReachInv
<1>3. CASE threads'[s] = Disturb(s)
  <2>1. /\ ~threads'[s].alone
        /\ threads'[s].pc = threads[s].pc
        /\ threads'[s].change = threads[s].change
    BY <1>1, <1>2, <1>3 DEF Live, Disturb, Thread
  <2> QED
    BY <1>2, <2>1 DEF OnItsWay
<1>4. CASE threads'[s] = threads[s] /\ UNCHANGED tv
  <2>1. Desired(s)' = Desired(s)
    BY <1>4 DEF Desired
  <2> QED
    BY <1>2, <1>4, <2>1 DEF OnItsWay, Reached, ReadingIsTrue
<1> QED
  BY <1>3, <1>4

LEMMA TvStays ==
  ASSUME TypeInv, NEW t \in Threads, Capture(t) \/ Apply(t), NEW s \in Threads \ {t}
  PROVE  threads'[s] = Disturb(s) \/ (threads'[s] = threads[s] /\ UNCHANGED tv)
<1>1. CASE Command(t)
  BY <1>1, CommandMoves
<1>2. CASE ~Command(t)
  <2>1. UNCHANGED tv
    BY <1>2 DEF Capture, StartCapture, ListPackages, ReadPackage, Fetch, Save, CaptureFails,
       Apply, StartApply, Inspect, BeginRow, ApplyStops, Verify, VerdictFails, CompleteRow,
       FailRow, Result
  <2> QED
    BY <2>1, OthersStay
<1> QED
  BY <1>1, <1>2

LEMMA DesiredPackages ==
  ASSUME TypeInv, NEW t \in Live, threads[t].pc \in EntryPcs
  PROVE  /\ Desired(t).package \in Packages
         /\ Desired(t).state \in State
         /\ threads[t].index \in Nat
         /\ threads[t].index \in 1..Len(threads[t].profile.packages)
         /\ tv[Desired(t).package] \in State
BY DesiredIsEntry, LiveIsThread, StoreTyped DEF Entry, Thread

\* The entry at hand is reached, and the thread goes on to the next.
LEMMA ReachesNext ==
  ASSUME TypeInv, NEW t \in Live, threads[t].pc \in EntryPcs, UNCHANGED tv,
         threads'[t].profile = threads[t].profile,
         threads'[t].alone = threads[t].alone,
         threads'[t].index = threads[t].index + 1,
         threads'[t].change = "version",
         threads'[t].pc \in {"inspect", "result"},
         threads[t].alone => /\ Reached(t)
                             /\ tv[Desired(t).package] = Desired(t).state
  PROVE  OnItsWay(t)'
<1>1. threads[t].index \in Nat
  BY DesiredPackages
<1>2. \A k \in 1..Len(threads[t].profile.packages) :
          k < threads[t].index + 1 => k < threads[t].index \/ k = threads[t].index
  BY <1>1
<1>3. threads[t].alone => Reached(t)'
  BY <1>2 DEF Reached, Desired
<1> QED
  BY <1>3 DEF OnItsWay, ReadingIsTrue

LEMMA CompareReaches ==
  ASSUME TypeInv, NEW t \in Live, threads[t].pc \in EntryPcs, UNCHANGED tv, NEW c \in State,
         threads'[t] = CompareEnabled(t, c),
         threads[t].alone => /\ Reached(t)
                             /\ tv[Desired(t).package] = c
                             /\ c.version = Desired(t).state.version
  PROVE  OnItsWay(t)'
<1>1. CASE threads'[t].pc = "begin"
  <2>1. /\ threads'[t].profile = threads[t].profile
        /\ threads'[t].index = threads[t].index
        /\ threads'[t].alone = threads[t].alone
    BY <1>1, CompareFacts
  <2>2. Desired(t)' = Desired(t)
    BY <2>1 DEF Desired
  <2> QED
    BY <1>1, <2>1, <2>2 DEF OnItsWay, Reached, ReadingIsTrue
<1>2. CASE threads'[t].pc # "begin"
  <2>1. /\ threads'[t].profile = threads[t].profile
        /\ threads'[t].index = threads[t].index + 1
        /\ threads'[t].alone = threads[t].alone
        /\ threads'[t].change = "version"
        /\ threads'[t].pc \in {"inspect", "result"}
        /\ c.enabled = Desired(t).state.enabled
    BY <1>2, CompareFacts
  <2>2. Desired(t).state \in State
    BY DesiredPackages
  <2>3. c.version = Desired(t).state.version => c = Desired(t).state
    BY <2>1, <2>2 DEF State
  <2> QED
    BY <2>1, <2>3, ReachesNext
<1> QED
  BY <1>1, <1>2

\* The entry keeps its place and its television.
LEMMA SameEntry ==
  ASSUME NEW t, threads'[t].profile = threads[t].profile,
         threads'[t].index = threads[t].index
  PROVE  /\ Desired(t)' = Desired(t)
         /\ UNCHANGED tv /\ Reached(t) => Reached(t)'
<1>1. Desired(t)' = Desired(t)
  BY DEF Desired
<1>2. UNCHANGED tv /\ Reached(t) => Reached(t)'
  BY DEF Reached
<1> QED
  BY <1>1, <1>2

LEMMA CommandReaches ==
  ASSUME TypeInv, ReachInv, CaptureInv, NEW t \in Threads, Command(t)
  PROVE  OnItsWay(t)'
<1>1. /\ t \in Live /\ threads[t] \in Thread /\ threads[t].pc = "command"
      /\ OnItsWay(t) /\ ListedOnce(threads[t].profile)
  BY CommandMoves DEF ReachInv, CaptureInv, CaptureInOrder
<1>2. /\ threads'[t].profile = threads[t].profile
      /\ threads'[t].index = threads[t].index
      /\ threads'[t].change = threads[t].change
      /\ threads'[t].alone = threads[t].alone
      /\ threads'[t].pc \in {"verify", "fail"}
  <2>1. PICK pc \in {"verify", "fail"} : threads'[t] = [threads[t] EXCEPT !.pc = pc]
    BY CommandMoves
  <2> QED
    BY <1>1, <2>1 DEF Thread
<1>3. Desired(t)' = Desired(t)
  BY <1>2, SameEntry
<1>4. PICK state \in {tv[Desired(t).package]} \cup Effects(CommandOf(t)) :
          tv' = [tv EXCEPT ![Desired(t).package] = state]
  BY CommandMoves
<1>5. /\ Desired(t).package \in Packages
      /\ threads[t].index \in 1..Len(threads[t].profile.packages)
      /\ threads[t].index \in Nat
  BY <1>1, DesiredPackages DEF EntryPcs
<1>6. ASSUME threads[t].alone PROVE Reached(t)' /\ ReadingIsTrue(t)'
  <2>1. Reached(t) /\ ReadingIsTrue(t)
    BY <1>1, <1>6 DEF OnItsWay, ApplySteps
  <2>2. ASSUME NEW k \in 1..Len(threads[t].profile.packages), k < threads[t].index
        PROVE  tv'[threads[t].profile.packages[k].package] = threads[t].profile.packages[k].state
    <3>1. threads[t].profile.packages[k].package # Desired(t).package
      <4>1. DOMAIN threads[t].profile.packages = 1..Len(threads[t].profile.packages)
        BY <1>1 DEF Thread, Profile
      <4> QED
        BY <1>1, <1>5, <2>2, <4>1 DEF ListedOnce, Desired
    <3>2. tv'[threads[t].profile.packages[k].package] = tv[threads[t].profile.packages[k].package]
      <4>1. threads[t].profile.packages \in Seq(Entry)
        BY <1>1 DEF Thread, Profile
      <4>2. threads[t].profile.packages[k] \in Entry
        BY <2>2, <4>1
      <4>3. threads[t].profile.packages[k].package \in Packages
        BY <4>2 DEF Entry
      <4> QED
        BY <1>4, <3>1, <4>3, StoreTyped
    <3> QED
      BY <2>1, <2>2, <3>2 DEF Reached
  <2>3. Reached(t)'
    BY <1>2, <2>2 DEF Reached
  <2>4. threads[t].change = "enabled" =>
            tv'[Desired(t).package].version = Desired(t).state.version
    <3>1. ASSUME threads[t].change = "enabled"
          PROVE  tv'[Desired(t).package].version = tv[Desired(t).package].version
      <4>1. tv[Desired(t).package] \in State
        BY <1>5, StoreTyped
      <4>2. /\ CommandOf(t).change = "enabled"
            /\ CommandOf(t).package = Desired(t).package
        BY <3>1 DEF CommandOf
      <4>3. state.version = tv[Desired(t).package].version
        BY <4>1, <4>2 DEF Effects, State
      <4> QED
        BY <1>4, <1>5, <4>3, StoreTyped
    <3> QED
      BY <1>1, <2>1, <3>1 DEF ReadingIsTrue
  <2> QED
    BY <1>2, <1>3, <2>3, <2>4 DEF ReadingIsTrue
<1> QED
  BY <1>2, <1>6 DEF OnItsWay

LEMMA ApplyReaches ==
  ASSUME TypeInv, ReachInv, CaptureInv, NEW t \in Threads, Apply(t), t \in Live'
  PROVE  OnItsWay(t)'
<1>1. ASSUME NEW id \in 1..Len(profiles), StartApply(t, id) PROVE OnItsWay(t)'
  <2>1. /\ threads'[t].pc \in {"inspect", "result"}
        /\ threads'[t].change = "version"
        /\ threads'[t].index = 1
    BY <1>1, StoreTyped DEF StartApply, NewThread
  <2>2. Reached(t)'
    BY <2>1 DEF Reached
  <2> QED
    BY <2>1, <2>2 DEF OnItsWay, ReadingIsTrue
<1>2. CASE Inspect(t)
  <2>1. t \in Live /\ threads[t] \in Thread /\ threads[t].pc = "inspect" /\ OnItsWay(t)
    BY <1>2, LiveIsThread DEF Inspect, At, ReachInv
  <2> DEFINE now == tv[Desired(t).package]
  <2>2. now \in State /\ UNCHANGED tv
    BY <1>2, <2>1, DesiredPackages DEF EntryPcs, Inspect
  <2>3. threads[t].alone => Reached(t)
    BY <2>1 DEF OnItsWay, ApplySteps
  <2>4. ~End(t)
    BY StoreTyped DEF End, Live
  <2>5. CASE /\ threads' = [threads EXCEPT ![t] = CompareEnabled(t, now)]
             /\ now.version = Desired(t).state.version
    <3>1. PICK c \in State : c = now
      BY <2>2
    <3>2. threads'[t] = CompareEnabled(t, c)
      BY <2>5, <3>1, StoreTyped
    <3> QED
      BY <2>1, <2>2, <2>3, <2>5, <3>1, <3>2, CompareReaches DEF EntryPcs
  <2>6. ASSUME NEW apk \in Apk, threads' = Begun(t, now, apk) PROVE OnItsWay(t)'
    <3>1. /\ threads'[t].profile = threads[t].profile
          /\ threads'[t].index = threads[t].index
          /\ threads'[t].alone = threads[t].alone
          /\ threads'[t].change = "version"
          /\ threads'[t].pc = "begin"
      BY <2>1, <2>6, BegunFacts DEF OnItsWay
    <3> QED
      BY <2>2, <2>3, <3>1, SameEntry DEF OnItsWay, ReadingIsTrue
  <2> QED
    BY <1>2, <2>4, <2>5, <2>6, InspectMoves DEF HasVersion
<1>3. CASE BeginRow(t) \/ VerdictFails(t)
  <2>1. /\ t \in Live /\ threads[t] \in Thread /\ OnItsWay(t) /\ UNCHANGED tv
        /\ threads[t].pc \in {"begin", "verify", "complete"}
    BY <1>3, LiveIsThread DEF BeginRow, VerdictFails, At, ReachInv
  <2>2. /\ threads'[t].profile = threads[t].profile
        /\ threads'[t].index = threads[t].index
        /\ threads'[t].alone = threads[t].alone
        /\ threads'[t].change = threads[t].change
        /\ (threads'[t].pc = "command" /\ threads[t].pc = "begin") \/ threads'[t].pc = "fail"
    BY <1>3, <2>1, StoreTyped DEF BeginRow, VerdictFails, Goto, At, Thread
  <2>3. Desired(t)' = Desired(t) /\ (Reached(t) => Reached(t)')
    BY <2>1, <2>2, SameEntry
  <2> QED
    BY <2>1, <2>2, <2>3 DEF OnItsWay, ReadingIsTrue, ApplySteps
<1>4. CASE Command(t)
  BY <1>4, CommandReaches
<1>5. CASE Verify(t)
  <2>1. /\ t \in Live /\ threads[t] \in Thread /\ OnItsWay(t) /\ UNCHANGED tv
        /\ threads[t].pc = "verify"
    BY <1>5, LiveIsThread DEF Verify, At, ReachInv
  <2>2. /\ threads'[t].profile = threads[t].profile
        /\ threads'[t].index = threads[t].index
        /\ threads'[t].alone = threads[t].alone
        /\ threads'[t].change = threads[t].change
        /\ threads'[t].after = tv[Desired(t).package]
        /\ threads'[t].pc \in {"complete", "fail"}
        /\ threads'[t].pc = "complete" =>
              IF threads[t].change = "version"
              THEN tv[Desired(t).package].version = Desired(t).state.version
              ELSE tv[Desired(t).package].enabled = Desired(t).state.enabled
    BY <1>5, <2>1, StoreTyped DEF Verify, Thread
  <2>3. Desired(t)' = Desired(t) /\ (Reached(t) => Reached(t)')
    BY <2>1, <2>2, SameEntry
  <2> QED
    BY <2>1, <2>2, <2>3 DEF OnItsWay, ReadingIsTrue, ApplySteps
<1>6. CASE CompleteRow(t)
  <2>1. /\ t \in Live /\ threads[t] \in Thread /\ OnItsWay(t) /\ UNCHANGED tv
        /\ threads[t].pc = "complete" /\ threads[t].after \in State
    BY <1>6, LiveIsThread DEF CompleteRow, At, ReachInv, Thread
  <2>2. threads[t].alone => Reached(t) /\ ReadingIsTrue(t)
    BY <2>1 DEF OnItsWay, ApplySteps
  <2>3. CASE threads[t].change = "version"
    <3>1. threads'[t] = CompareEnabled(t, threads[t].after)
      BY <1>6, <2>3, StoreTyped DEF CompleteRow
    <3>2. PICK c \in State : c = threads[t].after
      BY <2>1
    <3>3. threads[t].alone => /\ tv[Desired(t).package] = c
                              /\ c.version = Desired(t).state.version
      BY <2>1, <2>2, <2>3, <3>2 DEF ReadingIsTrue
    <3> QED
      BY <2>1, <2>2, <3>1, <3>2, <3>3, CompareReaches DEF EntryPcs
  <2>4. CASE threads[t].change # "version"
    <3>1. threads'[t] = NextEntry(t) /\ threads[t].change = "enabled"
      BY <1>6, <2>1, <2>4, StoreTyped DEF CompleteRow, Thread
    <3>2. Desired(t).state \in State /\ tv[Desired(t).package] \in State
      BY <2>1, DesiredPackages DEF EntryPcs
    <3>3. threads[t].alone => tv[Desired(t).package] = Desired(t).state
      BY <2>1, <2>2, <3>1, <3>2 DEF ReadingIsTrue, State
    <3> QED
      BY <2>1, <2>2, <3>1, <3>3, NextEntryFacts, ReachesNext DEF EntryPcs
  <2> QED
    BY <2>3, <2>4
<1>7. ~ApplyStops(t) /\ ~FailRow(t) /\ ~Result(t)
  BY StoreTyped DEF ApplyStops, FailRow, Result, End, Live
<1> QED
  BY <1>1, <1>2, <1>3, <1>4, <1>5, <1>6, <1>7 DEF Apply

LEMMA NextReaches ==
  ASSUME TypeInv, ReachInv, CaptureInv, [Next]_vars
  PROVE  ReachInv'
<1>1. ASSUME NEW s \in Live' PROVE OnItsWay(s)'
  <2>1. s \in Threads
    BY DEF Live
  <2>2. CASE Capture(s)
    <3>1. threads'[s].pc \in CaptureSteps
      BY <2>1, <2>2, CaptureGoesOn
    <3> QED
      BY <3>1 DEF OnItsWay, CaptureSteps, ApplySteps
  <2>3. CASE Apply(s)
    BY <2>1, <2>3, ApplyReaches
  <2>4. ASSUME NEW t \in Threads \ {s}, Capture(t) \/ Apply(t) PROVE OnItsWay(s)'
    BY <2>1, <2>4, TvStays, OthersOnTheirWay
  <2>5. CASE Environment /\ ~UNCHANGED <<threads, tv>>
    <3>1. threads'[s] = Disturb(s)
      BY <2>1, <2>5 DEF Environment, Crash, DeviceChange, LateEffect, ExternalChange,
         OtherDownload, Live
    <3> QED
      BY <2>1, <3>1, OthersOnTheirWay
  <2>6. CASE UNCHANGED <<threads, tv>>
    BY <2>1, <2>6, OthersOnTheirWay
  <2> QED
    BY <2>2, <2>3, <2>4, <2>5, <2>6
       DEF Next, StartDelete, CheckProfiles, Unlink, AwaitRequest, vars
<1> QED
  BY <1>1 DEF ReachInv

LEMMA InitReaches ==
  ASSUME Init
  PROVE  CaptureInv /\ ReachInv
<1>1. Live = {}
  BY DEF Init, Live
<1>2. \A id \in DOMAIN profiles : ListedOnce(profiles[id])
  BY StartsAreStates DEF Init
<1> QED
  BY <1>1, <1>2 DEF CaptureInv, ReachInv

\* "State profile applied" is true: when a thread reports it and nobody else changed the
\* television meanwhile, every package has the version and the flag of its entry; for any
\* profiles and any number of threads beside it.
THEOREM AppliedIsReached == Spec => []AppliedMeansReached
<1>1. TypeInv /\ ReachInv => AppliedMeansReached
  <2> SUFFICES ASSUME TypeInv, ReachInv, NEW t \in Live,
                      threads[t].pc = "result", threads[t].alone,
                      NEW i \in 1..Len(threads[t].profile.packages)
               PROVE  tv[threads[t].profile.packages[i].package] =
                          threads[t].profile.packages[i].state
    BY DEF AppliedMeansReached
  <2>1. Reached(t)
    BY DEF ReachInv, OnItsWay, ApplySteps
  <2>2. /\ threads[t].index > Len(threads[t].profile.packages)
        /\ threads[t].index \in Nat
        /\ Len(threads[t].profile.packages) \in Nat
    BY LiveIsThread DEF Shape, Thread, Profile
  <2>3. i < threads[t].index
    BY <2>2
  <2> QED
    BY <2>1, <2>3 DEF Reached
<1>2. Spec => []CaptureInv
  BY AlwaysTyped, AlwaysRetained, InitReaches, CaptureKept, PTL DEF Spec, RetentionInv
<1> QED
  BY <1>1, <1>2, AlwaysTyped, InitReaches, NextReaches, PTL DEF Spec
=============================================================================
