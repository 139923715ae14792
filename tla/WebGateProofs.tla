---------------------------- MODULE WebGateProofs ----------------------------
(***************************************************************************)
(* Theorems about WebGate: the password file can be read and is right at   *)
(* every moment, a login is measured by a password of its own time, and    *)
(* the limiter counts exactly the logins of its window.                    *)
(***************************************************************************)
EXTENDS WebGate, TLAPS, FiniteSetTheorems, FunctionTheorems, SequenceTheorems

(* The file and the logins.                                                *)

\* Each key has one line, and the password is a password.
Sound(lines) ==
    /\ lines \in Seq(Line)
    /\ \A key \in Keys : \E i \in DOMAIN lines : LinesOf(lines, key) = {i}
    /\ \A i \in DOMAIN lines : lines[i].key = "password" => lines[i].value \in Passwords

\* What a process knows: the lines it will write are sound; the password it compares with
\* is one the file had in the meantime.
Informed(x, content) ==
    /\ x \in Process
    /\ x.key = "password" => x.value \in Passwords
    /\ x.pc \in {"write", "replace"} => Sound(x.lines)
    /\ x.pc \in {"hash", "answer"} => x.client \in Clients
    /\ x.pc = "hash" => ValuesIn(content, "password") \subseteq x.held
    /\ x.pc = "answer" => \E v \in x.held : x.match <=> (x.given = v)

UpToDate == \A key \in Keys \ overlapped : ValuesIn(file, key) = {wanted[key]}

\* The lines a process will write are right but for the keys written since it read them.
Remembers(x) ==
    x.pc \in {"write", "replace"} =>
        \A key \in Keys \ (overlapped \cup x.stale) : ValuesIn(x.lines, key) = {wanted[key]}

GateInv ==
    /\ TypeOK
    /\ Sound(file)
    /\ UpToDate
    /\ \A p \in Processes : Informed(procs[p], file) /\ Remembers(procs[p])

(* The limiter: what its queue says of its answers to a client at a time.  *)

Passed(seen) == {j \in DOMAIN seen : seen[j].allowed}

Exact(seen) ==
    \A i \in DOMAIN seen :
        seen[i].allowed <=>
            Cardinality({j \in 1..(i - 1) : /\ seen[j].allowed
                                            /\ seen[j].at + Window >= seen[i].at}) < Limit

Ordered(seen, time) ==
    /\ \A i, j \in DOMAIN seen : i <= j => seen[i].at <= seen[j].at
    /\ \A i \in DOMAIN seen : seen[i].at <= time

\* f says which answer left each time of the queue; an answer that left none is too old.
Traces(f, queue, seen, time) ==
    /\ \A i \in DOMAIN queue : f[i] \in Passed(seen) /\ seen[f[i]].at = queue[i]
    /\ \A i, j \in DOMAIN queue : i < j => f[i] < f[j]
    /\ \A j \in Passed(seen) :
          (\A i \in DOMAIN queue : f[i] # j) => seen[j].at + Window < time

Remembered(queue, seen, time) ==
    \E f \in [DOMAIN queue -> DOMAIN seen] : Traces(f, queue, seen, time)

Counted(queue, seen, time) ==
    Exact(seen) /\ Ordered(seen, time) /\ Remembered(queue, seen, time)

LimiterInv == \A w \in Workers, c \in Clients : Counted(events[w][c], answers[w][c], now)
-----------------------------------------------------------------------------
(* Lines.                                                                  *)

\* In sound lines a key has one value, and the password is one of the passwords.
LEMMA SoundValues ==
    ASSUME NEW lines, Sound(lines), NEW key \in Keys
    PROVE  \E i \in DOMAIN lines :
               /\ LinesOf(lines, key) = {i}
               /\ Least(LinesOf(lines, key)) = i
               /\ lines[i] \in Line /\ lines[i].key = key
               /\ ValuesIn(lines, key) = {lines[i].value}
               /\ key = "password" => lines[i].value \in Passwords
<1>1. PICK i \in DOMAIN lines : LinesOf(lines, key) = {i}
  BY DEF Sound
<1>2. i \in Nat /\ lines[i] \in Line
  BY DEF Sound
<1>3. i <= i
  BY <1>2
<1>4. Least(LinesOf(lines, key)) = i
  BY <1>1, <1>3 DEF Least
<1>5. lines[i].key = key
  BY <1>1 DEF LinesOf
<1>6. ValuesIn(lines, key) = {lines[i].value}
  BY <1>1, <1>4 DEF ValuesIn
<1> QED BY <1>1, <1>2, <1>4, <1>5, <1>6 DEF Sound

\* What the services read in a sound file.
LEMMA SoundReads ==
    ASSUME Sound(file), NEW key \in Keys
    PROVE  /\ ValuesIn(file, key) = {EnvValue(key)}
           /\ Readable(key)
           /\ EnvValue("password") \in Passwords
<1>1. \A k \in Keys : \E i \in DOMAIN file :
          ValuesIn(file, k) = {file[i].value} /\ (k = "password" => file[i].value \in Passwords)
  BY SoundValues
<1>2. \A k \in Keys : ValuesIn(file, k) = {EnvValue(k)}
  BY <1>1 DEF EnvValue
<1> QED BY <1>1, <1>2 DEF Readable, Keys

\* The change of one key leaves sound lines, with its value and the others' as they were.
LEMMA UpdatedIsSound ==
    ASSUME NEW lines, Sound(lines), NEW key \in Keys, NEW value \in Passwords \cup Settings,
           key = "password" => value \in Passwords
    PROVE  /\ Sound(Updated(lines, key, value))
           /\ ValuesIn(Updated(lines, key, value), key) = {value}
           /\ \A other \in Keys \ {key} :
                  ValuesIn(Updated(lines, key, value), other) = ValuesIn(lines, other)
<1> DEFINE new == Updated(lines, key, value)
<1>1. PICK i \in DOMAIN lines :
          /\ LinesOf(lines, key) = {i} /\ Least(LinesOf(lines, key)) = i
          /\ lines[i] \in Line /\ lines[i].key = key
  BY SoundValues
<1>2. new = [lines EXCEPT ![i].value = value]
  BY <1>1 DEF Updated
<1>3. /\ DOMAIN lines = 1..Len(lines) /\ Len(lines) \in Nat
      /\ \A j \in DOMAIN lines : lines[j] \in Line
  BY DEF Sound
<1>4. /\ DOMAIN new = DOMAIN lines
      /\ new[i] = [lines[i] EXCEPT !.value = value]
      /\ \A j \in DOMAIN lines : j # i => new[j] = lines[j]
  BY <1>1, <1>2
<1>5. new[i] \in Line /\ new[i].key = key /\ new[i].value = value
  BY <1>1, <1>4 DEF Line
<1>6. \A j \in DOMAIN lines : new[j] \in Line /\ new[j].key = lines[j].key
  BY <1>1, <1>3, <1>4, <1>5
<1>7. new \in Seq(Line)
  <2>1. new \in [1..Len(lines) -> Line]
    BY <1>2, <1>3, <1>4, <1>6
  <2> QED BY <1>3, <2>1
<1>8. \A k \in Keys : LinesOf(new, k) = LinesOf(lines, k)
  BY <1>4, <1>6 DEF LinesOf
<1>9. \A j \in DOMAIN new : new[j].key = "password" => new[j].value \in Passwords
  BY <1>1, <1>4, <1>5 DEF Sound
<1>10. Sound(new)
  BY <1>4, <1>7, <1>8, <1>9 DEF Sound
<1>11. ValuesIn(new, key) = {value}
  BY <1>1, <1>5, <1>8 DEF ValuesIn
<1>12. ASSUME NEW other \in Keys \ {key} PROVE ValuesIn(new, other) = ValuesIn(lines, other)
  <2>1. PICK j \in DOMAIN lines :
            /\ LinesOf(lines, other) = {j} /\ Least(LinesOf(lines, other)) = j
            /\ lines[j].key = other
    BY SoundValues
  <2>2. new[j] = lines[j]
    BY <1>1, <1>4, <2>1
  <2> QED BY <1>8, <2>1, <2>2 DEF ValuesIn
<1> QED BY <1>10, <1>11, <1>12
-----------------------------------------------------------------------------
(* Steps of one process.                                                   *)

LEMMA IdleIsInformed == Remembers(Idle) /\ (Sound(file) => Informed(Idle, file))
BY FirstIsPassword DEF Informed, Remembers, Idle, Process, Keys

\* A process that leaves the file alone, and knows what it should, preserves everything.
LEMMA QuietGate ==
    ASSUME GateInv, NEW p \in Processes, NEW x, Informed(x, file), Remembers(x),
           procs' = [procs EXCEPT ![p] = x], UNCHANGED fileVars,
           now' \in Nat, requests' \in Nat, faults' \in Nat, sessions' \subseteq Clients,
           events' \in [Workers -> [Clients -> Seq(Nat)]],
           answers' \in [Workers -> [Clients -> Seq(Answer)]]
    PROVE  GateInv'
<1>1. file' = file /\ wanted' = wanted /\ overlapped' = overlapped
  BY DEF fileVars
<1>2. Sound(file)' /\ UpToDate'
  BY <1>1 DEF GateInv, UpToDate
<1>3. procs \in [Processes -> Process] /\ x \in Process
  BY DEF GateInv, TypeOK, Informed
<1>4. procs' \in [Processes -> Process]
  BY <1>3
<1>5. \A q \in Processes : procs'[q] = IF q = p THEN x ELSE procs[q]
  BY <1>3
<1>6. \A q \in Processes : Informed(procs[q], file) /\ Remembers(procs[q])
  BY DEF GateInv
<1>7. \A q \in Processes : Informed(procs'[q], file) /\ Remembers(procs'[q])
  BY <1>5, <1>6
<1>8. \A q \in Processes : Informed(procs'[q], file') /\ Remembers(procs[q])'
  BY <1>1, <1>7 DEF Remembers
<1>9. TypeOK'
  BY <1>1, <1>4 DEF GateInv, TypeOK
<1> QED BY <1>2, <1>8, <1>9 DEF GateInv

\* The smallest of some positions of a queue.
LEMMA LeastExists ==
    ASSUME NEW n \in Nat, NEW S \in SUBSET (1..n), S # {}
    PROVE  /\ Least(S) \in S
           /\ \A j \in S : Least(S) <= j
<1>1. S \subseteq Nat
  OBVIOUS
<1>2. PICK x \in S : \A y \in S : ~ (<<y, x>> \in OpToRel(<, Nat))
  BY <1>1, NatLessThanWellFounded, WFMin
<1>3. ASSUME NEW y \in S PROVE x <= y
  <2>1. x \in Nat /\ y \in Nat
    BY <1>1
  <2>2. ~ (<<y, x>> \in {ss \in Nat \X Nat : ss[1] < ss[2]})
    BY <1>2 DEF OpToRel
  <2> QED BY <2>1, <2>2
<1> QED BY <1>2, <1>3 DEF Least

\* Dropping the head of a queue leaves its positions from the first kept one on.
LEMMA FromIsSuffix ==
    ASSUME NEW S, NEW queue \in Seq(S), NEW kept \in SUBSET (DOMAIN queue), kept # {}
    PROVE  LET k == Least(kept) IN
           /\ k \in kept /\ \A j \in kept : k <= j
           /\ From(queue, kept) \in Seq(S)
           /\ Len(From(queue, kept)) = Len(queue) - k + 1
           /\ \A i \in 1..(Len(queue) - k + 1) : From(queue, kept)[i] = queue[k + i - 1]
<1> DEFINE k == Least(kept)
<1>1. DOMAIN queue = 1..Len(queue) /\ Len(queue) \in Nat
  OBVIOUS
<1>2. k \in kept /\ \A j \in kept : k <= j
  BY <1>1, LeastExists
<1>3. k \in 1..Len(queue)
  BY <1>1, <1>2
<1>4. \A i \in k..Len(queue) : queue[i] \in S
  BY <1>1, <1>3
<1>5. From(queue, kept) = SubSeq(queue, k, Len(queue))
  BY DEF From
<1> HIDE DEF k
<1>6. /\ SubSeq(queue, k, Len(queue)) \in Seq(S)
      /\ Len(SubSeq(queue, k, Len(queue))) = Len(queue) - k + 1
      /\ \A i \in 1..(Len(queue) - k + 1) : SubSeq(queue, k, Len(queue))[i] = queue[k + i - 1]
  BY <1>1, <1>3, <1>4, SubSeqProperties
<1> USE DEF k
<1> QED BY <1>2, <1>5, <1>6

LEMMA PrunedIsTyped ==
    ASSUME TypeOK, NEW w \in Workers, NEW c \in Clients
    PROVE  Pruned(w, c) \in Seq(Nat)
<1> DEFINE queue == events[w][c]
           kept == {i \in DOMAIN queue : queue[i] + Window >= now}
<1>1. queue \in Seq(Nat) /\ kept \in SUBSET (DOMAIN queue)
  BY DEF TypeOK
<1>2. Pruned(w, c) = From(queue, kept)
  BY DEF Pruned
<1>3. CASE kept = {}
  BY <1>2, <1>3 DEF From
<1>4. CASE kept # {}
  <2> HIDE DEF queue, kept
  <2> QED BY <1>1, <1>2, <1>4, FromIsSuffix
<1> QED BY <1>3, <1>4
-----------------------------------------------------------------------------
(* The steps.                                                              *)

LEMMA GateInit == Init => GateInv
<1> SUFFICES ASSUME Init PROVE GateInv
  OBVIOUS
<1>1. \A i \in DOMAIN file : file[i] \in Line
  BY FirstIsPassword DEF Init, Line, Keys, Settings
<1>2. file \in Seq(Line) /\ DOMAIN file = {1, 2}
  BY <1>1 DEF Init
<1>3. LinesOf(file, "password") = {1} /\ LinesOf(file, "setting") = {2}
  BY <1>2 DEF Init, LinesOf
<1>4. Sound(file)
  BY <1>2, <1>3, FirstIsPassword DEF Init, Sound, Keys
<1>5. Least({1}) = 1 /\ Least({2}) = 2
  BY DEF Least
<1>6. UpToDate
  <2>1. ValuesIn(file, "password") = {First} /\ ValuesIn(file, "setting") = {"old"}
    <3>1. file[1].value = First /\ file[2].value = "old"
      BY DEF Init
    <3> QED BY <1>3, <1>5, <3>1 DEF ValuesIn
  <2>2. wanted["password"] = First /\ wanted["setting"] = "old"
    BY DEF Init, Keys
  <2> QED BY <2>1, <2>2 DEF UpToDate, Keys
<1>7. Informed(Idle, file) /\ Remembers(Idle)
  BY <1>4, IdleIsInformed
<1>8. TypeOK
  BY <1>2, <1>7, FirstIsPassword DEF Init, TypeOK, Informed, Keys, Settings
<1> QED BY <1>4, <1>6, <1>7, <1>8 DEF Init, GateInv

\* The facts about one process that its step needs.
LEMMA ProcessFacts ==
    ASSUME GateInv, NEW p \in Processes
    PROVE  /\ TypeOK /\ Sound(file) /\ Informed(Idle, file) /\ Remembers(Idle)
           /\ Informed(procs[p], file) /\ Remembers(procs[p]) /\ procs[p] \in Process
           /\ procs = [procs EXCEPT ![p] = procs[p]]
           /\ \A key \in Keys :
                 /\ ValuesIn(file, key) = {EnvValue(key)}
                 /\ Readable(key)
           /\ EnvValue("password") \in Passwords
           /\ "password" \in Keys
BY IdleIsInformed, SoundReads DEF GateInv, TypeOK, Keys

LEMMA LoginGate ==
    ASSUME GateInv, NEW w \in Workers, NEW c \in Clients, NEW password \in Passwords,
           Login(w, c, password)
    PROVE  GateInv'
<1> DEFINE queue == Pruned(w, c)
           allowed == Len(queue) < Limit
           x == [Idle EXCEPT !.pc = "hash", !.client = c, !.given = password,
                             !.held = ValuesIn(file, "password")]
<1>1. w \in Processes
  BY DEF Processes
<1>2. queue \in Seq(Nat) /\ TypeOK
  BY PrunedIsTyped DEF GateInv
<1>3. Append(queue, now) \in Seq(Nat)
  BY <1>2 DEF TypeOK
<1>4. events' \in [Workers -> [Clients -> Seq(Nat)]]
  BY <1>2, <1>3 DEF Login, TypeOK
<1>5. allowed \in BOOLEAN /\ [at |-> now, allowed |-> allowed] \in Answer
  BY <1>2 DEF TypeOK, Answer
<1>6. answers' \in [Workers -> [Clients -> Seq(Answer)]]
  <2>1. Append(answers[w][c], [at |-> now, allowed |-> allowed]) \in Seq(Answer)
    BY <1>2, <1>5 DEF TypeOK
  <2> QED BY <1>2, <2>1 DEF Login, TypeOK
<1>7. Informed(x, file) /\ Remembers(x)
  <2>1. ValuesIn(file, "password") \subseteq Passwords
    BY <1>1, ProcessFacts
  <2>2. Idle \in Process /\ Idle.key = "password" /\ Idle.value = First
    BY <1>1, ProcessFacts DEF Informed, Idle
  <2>3. /\ x \in Process /\ x.key = "password" /\ x.value = First
        /\ x.pc = "hash" /\ x.client = c /\ x.held = ValuesIn(file, "password")
    BY <2>1, <2>2 DEF Process
  <2> HIDE DEF x
  <2> QED BY <2>3, FirstIsPassword DEF Informed, Remembers
<1>8. procs' = [procs EXCEPT ![w] = x] \/ procs' = [procs EXCEPT ![w] = procs[w]]
  BY <1>1, ProcessFacts DEF Login
<1>9. /\ now' \in Nat /\ requests' \in Nat /\ faults' \in Nat
      /\ sessions' \subseteq Clients /\ UNCHANGED fileVars
  BY <1>2 DEF Login, TypeOK
<1> HIDE DEF x
<1> QED BY <1>1, <1>4, <1>6, <1>7, <1>8, <1>9, ProcessFacts, QuietGate

\* The steps of a worker that touch neither the limiter nor the file.
LEMMA ServeGate ==
    ASSUME GateInv, NEW w \in Workers,
           \/ ReadHash(w) \/ Respond(w) \/ CheckCurrent(w) \/ ReadLines(w)
           \/ WriteTemporary(w)
           \/ \E c \in Clients : Logout(w, c)
           \/ \E c \in Clients, given, new \in Passwords : Change(w, c, given, new)
    PROVE  GateInv'
<1>1. w \in Processes
  BY DEF Processes
<1>2. /\ UNCHANGED <<limiterVars, fileVars>>
      /\ now' \in Nat /\ requests' \in Nat /\ faults' \in Nat
      /\ events' \in [Workers -> [Clients -> Seq(Nat)]]
      /\ answers' \in [Workers -> [Clients -> Seq(Answer)]]
  <2>1. /\ UNCHANGED <<limiterVars, fileVars, faults>>
        /\ requests' = requests \/ requests' = requests + 1
    BY DEF ReadHash, Respond, CheckCurrent, ReadLines, WriteTemporary, Logout, Change
  <2> QED BY <2>1 DEF GateInv, TypeOK, limiterVars
<1>3. /\ Sound(file) /\ Informed(Idle, file) /\ Informed(procs[w], file) /\ procs[w] \in Process
      /\ Remembers(Idle) /\ Remembers(procs[w]) /\ UpToDate
      /\ procs = [procs EXCEPT ![w] = procs[w]]
      /\ ValuesIn(file, "password") = {EnvValue("password")} /\ Readable("password")
      /\ sessions \subseteq Clients
  BY <1>1, ProcessFacts DEF TypeOK, GateInv
<1>4. SUFFICES \E x : /\ Informed(x, file) /\ Remembers(x)
                      /\ procs' = [procs EXCEPT ![w] = x]
                      /\ sessions' \subseteq Clients
  BY <1>1, <1>2, QuietGate
<1>5. CASE ReadHash(w)
  <2> DEFINE x == [procs[w] EXCEPT !.match = (procs[w].given = EnvValue("password")),
                                   !.pc = "answer"]
  <2>1. procs' = [procs EXCEPT ![w] = x] /\ sessions' = sessions
    BY <1>3, <1>5 DEF ReadHash
  <2>2. EnvValue("password") \in procs[w].held
    BY <1>3, <1>5 DEF ReadHash, At, Informed
  <2>3. Informed(x, file) /\ Remembers(x)
    BY <1>3, <1>5, <2>2 DEF ReadHash, At, Informed, Process, Remembers
  <2> QED BY <1>3, <2>1, <2>3
<1>6. CASE Respond(w)
  BY <1>3, <1>6 DEF Respond, Finish, At, Informed
<1>7. CASE CheckCurrent(w)
  <2> DEFINE x == [procs[w] EXCEPT !.pc = "read"]
  <2>1. Informed(x, file) /\ Remembers(x)
    BY <1>3, <1>7 DEF CheckCurrent, At, Informed, Process, Remembers
  <2>2. procs' = [procs EXCEPT ![w] = x] \/ procs' = [procs EXCEPT ![w] = Idle]
    BY <1>7 DEF CheckCurrent, Goto, Finish
  <2> QED BY <1>3, <1>7, <2>1, <2>2 DEF CheckCurrent
<1>8. CASE ReadLines(w)
  <2> DEFINE x == [procs[w] EXCEPT !.lines = file, !.pc = "write"]
  <2>1. Informed(x, file)
    BY <1>3, <1>8 DEF ReadLines, At, Informed, Process, Sound
  <2>2. x.lines = file /\ x.pc = "write"
    BY <1>3 DEF Process
  <2>3. Remembers(x)
    BY <1>3, <2>2 DEF Remembers, UpToDate
  <2> QED BY <1>3, <1>8, <2>1, <2>3 DEF ReadLines
<1>9. CASE WriteTemporary(w)
  <2> DEFINE x == [procs[w] EXCEPT !.pc = "replace"]
  <2>1. Informed(x, file) /\ Remembers(x)
    BY <1>3, <1>9 DEF WriteTemporary, At, Informed, Process, Remembers
  <2>2. procs' = [procs EXCEPT ![w] = x] \/ procs' = [procs EXCEPT ![w] = Idle]
    BY <1>9 DEF WriteTemporary, Goto, Finish
  <2> QED BY <1>3, <1>9, <2>1, <2>2 DEF WriteTemporary
<1>10. ASSUME NEW c \in Clients, Logout(w, c)
       PROVE  /\ procs' = [procs EXCEPT ![w] = procs[w]]
              /\ sessions' \subseteq Clients
  BY <1>3, <1>10 DEF Logout
<1>11. ASSUME NEW c \in Clients, NEW given \in Passwords, NEW new \in Passwords,
              Change(w, c, given, new)
       PROVE  \E x : /\ Informed(x, file) /\ Remembers(x)
                     /\ procs' = [procs EXCEPT ![w] = x]
                     /\ sessions' \subseteq Clients
  <2> DEFINE x == [Idle EXCEPT !.pc = "current", !.client = c, !.given = given, !.value = new]
  <2>1. Informed(x, file) /\ Remembers(x)
    BY <1>3, FirstIsPassword DEF Informed, Process, Idle, Keys, Remembers
  <2> QED BY <1>3, <1>11, <2>1 DEF Change
<1> QED BY <1>3, <1>5, <1>6, <1>7, <1>8, <1>9, <1>10, <1>11

\* The file after a replacement is what the process read, with its change.
LEMMA ReplacedIsSound ==
    ASSUME GateInv, NEW p \in Processes, At(p, "replace"), Replaced(p)
    PROVE  /\ Sound(file')
           /\ wanted' \in [Keys -> Passwords \cup Settings] /\ overlapped' \subseteq Keys
           /\ \A key \in Keys \ overlapped' : ValuesIn(file', key) = {wanted'[key]}
           /\ overlapped \ {procs[p].key} \subseteq overlapped'
           /\ \A key \in Keys \ {procs[p].key} : wanted'[key] = wanted[key]
           /\ ValuesIn(file', "password") \subseteq Passwords
<1> DEFINE key == procs[p].key
           value == procs[p].value
           lines == procs[p].lines
<1>1. /\ TypeOK /\ Informed(procs[p], file) /\ key \in Keys /\ value \in Passwords \cup Settings
      /\ Sound(lines) /\ procs[p].stale \subseteq Keys
      /\ \A k \in Keys \ (overlapped \cup procs[p].stale) : ValuesIn(lines, k) = {wanted[k]}
      /\ key = "password" => value \in Passwords
  BY ProcessFacts DEF At, Informed, Process, Remembers
<1>2. /\ file' = Updated(lines, key, value)
      /\ wanted' = [wanted EXCEPT ![key] = value]
      /\ overlapped' = (overlapped \cup procs[p].stale) \ {key}
  BY DEF Replaced
<1> HIDE DEF key, value, lines
<1>3. /\ Sound(file') /\ ValuesIn(file', key) = {value}
      /\ \A other \in Keys \ {key} : ValuesIn(file', other) = ValuesIn(lines, other)
  BY <1>1, <1>2, UpdatedIsSound
<1>4. /\ wanted' \in [Keys -> Passwords \cup Settings] /\ overlapped' \subseteq Keys
      /\ wanted'[key] = value
      /\ \A other \in Keys \ {key} : wanted'[other] = wanted[other]
  BY <1>1, <1>2 DEF TypeOK
<1>5. ASSUME NEW other \in Keys \ overlapped' PROVE ValuesIn(file', other) = {wanted'[other]}
  <2>1. CASE other = key
    BY <1>3, <1>4, <2>1
  <2>2. CASE other # key
    <3>1. other \notin overlapped \cup procs[p].stale
      BY <1>2, <2>2
    <3>2. ValuesIn(lines, other) = {wanted[other]}
      BY <1>1, <3>1
    <3> QED BY <1>3, <1>4, <2>2, <3>2
  <2> QED BY <2>1, <2>2
<1>6. ValuesIn(file', "password") \subseteq Passwords
  BY <1>3, SoundValues DEF Keys
<1> QED BY <1>2, <1>3, <1>4, <1>5, <1>6 DEF key

\* The writer finishes; every other process is overtaken, and may be measured by the
\* password it finds now.
LEMMA ReplaceGate ==
    ASSUME GateInv, NEW p \in Processes, At(p, "replace"), Replaced(p),
           procs' = After(p, Idle),
           sessions' \subseteq Clients, UNCHANGED <<limiterVars, requests, faults>>
    PROVE  GateInv'
<1> DEFINE Overtaken(q) == [procs[q] EXCEPT
               !.stale = IF procs[q].pc \in {"write", "replace"}
                         THEN @ \cup {procs[p].key} ELSE @,
               !.held = IF procs[q].pc \in {"hash", "answer"}
                        THEN @ \cup ValuesIn(file', "password") ELSE @]
<1>1. /\ Sound(file')
      /\ wanted' \in [Keys -> Passwords \cup Settings] /\ overlapped' \subseteq Keys
      /\ \A key \in Keys \ overlapped' : ValuesIn(file', key) = {wanted'[key]}
      /\ overlapped \ {procs[p].key} \subseteq overlapped'
      /\ \A key \in Keys \ {procs[p].key} : wanted'[key] = wanted[key]
      /\ ValuesIn(file', "password") \subseteq Passwords
      /\ procs[p].key \in Keys
  BY ReplacedIsSound, ProcessFacts DEF Process
<1>2. \A q \in Processes : procs'[q] = IF q = p THEN Idle ELSE Overtaken(q)
  BY DEF After
<1>3. Informed(Idle, file')
  BY <1>1, FirstIsPassword DEF Informed, Idle, Process, Keys
<1>4. ASSUME NEW q \in Processes PROVE Overtaken(q) \in Process /\ Informed(Overtaken(q), file')
  <2>1. /\ procs[q] \in Process
        /\ procs[q].key = "password" => procs[q].value \in Passwords
        /\ procs[q].pc \in {"write", "replace"} => Sound(procs[q].lines)
        /\ procs[q].pc \in {"hash", "answer"} => procs[q].client \in Clients
        /\ procs[q].pc = "answer" =>
              \E v \in procs[q].held : procs[q].match <=> (procs[q].given = v)
    BY ProcessFacts DEF Informed
  <2> DEFINE x == Overtaken(q)
  <2>2. /\ x.pc = procs[q].pc /\ x.key = procs[q].key /\ x.value = procs[q].value
        /\ x.client = procs[q].client /\ x.given = procs[q].given /\ x.match = procs[q].match
        /\ x.lines = procs[q].lines
    BY <2>1 DEF Process
  <2>3. /\ x.pc \in {"hash", "answer"} => ValuesIn(file', "password") \subseteq x.held
        /\ procs[q].held \subseteq x.held
    BY <2>1, <2>2 DEF Process
  <2>4. x \in Process
    BY <1>1, <2>1 DEF Process
  <2> HIDE DEF x
  <2>5. x.pc = "answer" => \E v \in x.held : x.match <=> (x.given = v)
    BY <2>1, <2>2, <2>3
  <2> QED BY <2>1, <2>2, <2>3, <2>4, <2>5 DEF x, Informed
<1>5. ASSUME NEW q \in Processes, Overtaken(q).pc \in {"write", "replace"},
             NEW key \in Keys \ (overlapped' \cup Overtaken(q).stale)
      PROVE  ValuesIn(Overtaken(q).lines, key) = {wanted'[key]}
  <2>1. procs[q] \in Process /\ Remembers(procs[q])
    BY ProcessFacts
  <2>2. /\ procs[q].pc \in {"write", "replace"}
        /\ Overtaken(q).stale = procs[q].stale \cup {procs[p].key}
        /\ Overtaken(q).lines = procs[q].lines
    BY <1>5, <2>1 DEF Process
  <2> HIDE DEF Overtaken
  <2>3. key # procs[p].key /\ key \notin overlapped /\ key \notin procs[q].stale
    BY <1>1, <1>5, <2>2
  <2> QED BY <1>1, <1>5, <2>1, <2>2, <2>3 DEF Remembers
<1> HIDE DEF Overtaken
<1>6. \A q \in Processes : Remembers(procs[q])'
  <2>1. Idle.pc = "idle"
    BY DEF Idle
  <2>2. ASSUME NEW q \in Processes, procs'[q].pc \in {"write", "replace"},
               NEW key \in Keys \ (overlapped' \cup procs'[q].stale)
        PROVE  ValuesIn(procs'[q].lines, key) = {wanted'[key]}
    <3>1. procs'[q] = Overtaken(q)
      BY <1>2, <2>1, <2>2
    <3> QED BY <1>5, <2>2, <3>1
  <2> QED BY <2>2 DEF Remembers
<1>7. procs' \in [Processes -> Process]
  <2>1. \A q \in Processes : procs'[q] \in Process
    BY <1>2, <1>3, <1>4 DEF Informed
  <2>2. procs' = [q \in Processes |-> procs'[q]]
    BY DEF After
  <2> QED BY <2>1, <2>2
<1>8. \A q \in Processes : Informed(procs'[q], file')
  <2>1. ASSUME NEW q \in Processes PROVE Informed(procs'[q], file')
    BY <1>2, <1>3, <1>4 DEF Informed
  <2> QED BY <2>1
<1>9. TypeOK'
  BY <1>1, <1>7 DEF GateInv, TypeOK, limiterVars, Sound
<1> QED BY <1>1, <1>8, <1>9, <1>6 DEF GateInv, UpToDate

LEMMA InstallGate ==
    ASSUME GateInv, NEW key \in Keys, NEW value \in Passwords \cup Settings,
           InstallRead(key, value)
    PROVE  GateInv'
<1> DEFINE x == [Idle EXCEPT !.pc = "replace", !.key = key, !.value = value, !.lines = file]
<1>1. Installer \in Processes
  BY DEF Processes
<1>2. Sound(file) /\ Informed(Idle, file) /\ TypeOK /\ UpToDate
  BY <1>1, ProcessFacts DEF GateInv
<1>3. Idle \in Process
  BY <1>2 DEF Informed
<1>4. /\ x \in Process /\ x.pc = "replace" /\ x.key = key /\ x.value = value
      /\ x.lines = file
  BY <1>2, <1>3 DEF Process, Sound
<1>5. key = "password" => value \in Passwords
  BY DEF InstallRead
<1>6. procs' = [procs EXCEPT ![Installer] = x]
  BY DEF InstallRead
<1> HIDE DEF x
<1>7. Informed(x, file) /\ Remembers(x)
  BY <1>2, <1>4, <1>5 DEF Informed, Remembers, UpToDate
<1>8. UNCHANGED <<limiterVars, fileVars, sessions, requests>> /\ faults' = faults + 1
  BY DEF InstallRead
<1>9. /\ now' \in Nat /\ requests' \in Nat /\ faults' \in Nat /\ sessions' \subseteq Clients
      /\ events' \in [Workers -> [Clients -> Seq(Nat)]]
      /\ answers' \in [Workers -> [Clients -> Seq(Answer)]]
      /\ UNCHANGED fileVars
  BY <1>2, <1>8 DEF TypeOK, limiterVars
<1> QED BY <1>1, <1>6, <1>7, <1>9, QuietGate

LEMMA DieGate == ASSUME GateInv, NEW w \in Workers, Die(w) PROVE GateInv'
<1>1. w \in Processes
  BY DEF Processes
<1>2. Informed(Idle, file) /\ Remembers(Idle) /\ TypeOK
  BY <1>1, ProcessFacts
<1>3. /\ events' \in [Workers -> [Clients -> Seq(Nat)]]
      /\ answers' \in [Workers -> [Clients -> Seq(Answer)]]
  <2>1. /\ [c \in Clients |-> << >>] \in [Clients -> Seq(Nat)]
        /\ [c \in Clients |-> << >>] \in [Clients -> Seq(Answer)]
    OBVIOUS
  <2>2. /\ events' = [events EXCEPT ![w] = [c \in Clients |-> << >>]]
        /\ answers' = [answers EXCEPT ![w] = [c \in Clients |-> << >>]]
    BY DEF Die
  <2> QED BY <1>2, <2>1, <2>2 DEF TypeOK
<1>4. /\ procs' = [procs EXCEPT ![w] = Idle] /\ UNCHANGED fileVars
      /\ now' \in Nat /\ requests' \in Nat /\ faults' \in Nat /\ sessions' \subseteq Clients
  BY <1>2 DEF Die, Finish, TypeOK
<1> QED BY <1>1, <1>2, <1>3, <1>4, QuietGate

LEMMA GateNext == ASSUME GateInv, [Next]_vars PROVE GateInv'
<1>1. ASSUME NEW w \in Workers, NEW c \in Clients, NEW given \in Passwords, Login(w, c, given)
      PROVE  GateInv'
  BY <1>1, LoginGate
<1>2. ASSUME NEW w \in Workers, Replace(w) PROVE GateInv'
  BY <1>2, ReplaceGate DEF Replace, Processes, GateInv, TypeOK
<1>3. ASSUME NEW w \in Workers, Serve(w) PROVE GateInv'
  BY <1>1, <1>2, <1>3, ServeGate DEF Serve
<1>4. ASSUME NEW w \in Workers, Die(w) PROVE GateInv'
  BY <1>4, DieGate
<1>5. ASSUME NEW key \in Keys, NEW value \in Passwords \cup Settings, InstallRead(key, value)
      PROVE  GateInv'
  BY <1>5, InstallGate
<1>6. CASE InstallReplace
  <2>1. Installer \in Processes /\ TypeOK /\ At(Installer, "replace")
    BY <1>6 DEF Processes, GateInv, InstallReplace
  <2>2. UNCHANGED <<limiterVars, sessions, requests, faults>>
    BY <1>6 DEF InstallReplace
  <2>3. CASE Replaced(Installer) /\ procs' = After(Installer, Idle)
    BY <2>1, <2>2, <2>3, ReplaceGate DEF TypeOK
  <2>4. CASE Finish(Installer) /\ UNCHANGED fileVars
    BY <2>1, <2>2, <2>4, ProcessFacts, QuietGate DEF TypeOK, limiterVars, Finish
  <2> QED BY <1>6, <2>3, <2>4 DEF InstallReplace
<1>7. CASE Tick \/ UNCHANGED vars
  <2>1. Installer \in Processes /\ TypeOK
    BY DEF Processes, GateInv
  <2>2. /\ now' = now \/ now' = now + 1
        /\ UNCHANGED <<events, answers, fileVars, procs, sessions, requests, faults>>
    BY <1>7 DEF Tick, vars, limiterVars
  <2>3. /\ now' \in Nat /\ requests' \in Nat /\ faults' \in Nat /\ sessions' \subseteq Clients
        /\ events' \in [Workers -> [Clients -> Seq(Nat)]]
        /\ answers' \in [Workers -> [Clients -> Seq(Answer)]]
        /\ procs' = procs
    BY <2>1, <2>2 DEF TypeOK
  <2> QED BY <2>1, <2>2, <2>3, ProcessFacts, QuietGate
<1> QED BY <1>3, <1>4, <1>5, <1>6, <1>7 DEF Next, AwaitRequest

LEMMA AlwaysGate == Spec => []GateInv
<1>1. GateInv /\ [Next]_vars => GateInv'
  BY GateNext
<1> QED BY GateInit, <1>1, PTL DEF Spec

\* Every variable of the web gate keeps its type.
THEOREM GateTypeCorrect == Spec => []TypeOK
BY AlwaysGate, PTL DEF GateInv

\* observer.env has one line for each key at every moment, with the value last written to it
\* unless a writer of the other key was overtaken: for any number of processes of either
\* service, whoever dies in between.
THEOREM FileIsWhole == Spec => []FileStaysWhole
<1>1. ASSUME GateInv PROVE FileStaysWhole
  <2> SUFFICES ASSUME NEW key \in Keys
               PROVE  /\ Cardinality(LinesOf(file, key)) = 1
                      /\ key \notin overlapped => EnvValue(key) = wanted[key]
    BY DEF FileStaysWhole
  <2>1. PICK i \in DOMAIN file : LinesOf(file, key) = {i}
    BY <1>1 DEF GateInv, Sound
  <2>2. Cardinality(LinesOf(file, key)) = 1
    BY <2>1, FS_Singleton
  <2>3. ValuesIn(file, key) = {EnvValue(key)}
    BY <1>1, SoundReads DEF GateInv
  <2> QED BY <1>1, <2>2, <2>3 DEF GateInv, UpToDate
<1> QED BY AlwaysGate, <1>1, PTL

\* A login that is being answered was compared with a password the file had while it was
\* served, in every process of both services.
THEOREM LoginsAreCurrent == Spec => []LoginIsCurrent
<1>1. ASSUME GateInv PROVE LoginIsCurrent
  <2> SUFFICES ASSUME NEW w \in Workers, At(w, "answer")
               PROVE  /\ procs[w].match => procs[w].given \in procs[w].held
                      /\ procs[w].held = {procs[w].given} => procs[w].match
    BY DEF LoginIsCurrent
  <2>1. Informed(procs[w], file)
    BY <1>1, ProcessFacts DEF Processes
  <2>2. PICK v \in procs[w].held : procs[w].match <=> (procs[w].given = v)
    BY <2>1 DEF Informed, At
  <2> QED BY <2>2
<1> QED BY AlwaysGate, <1>1, PTL
-----------------------------------------------------------------------------
(* The limiter.                                                            *)

LEMMA AnswersAreTimed ==
    ASSUME NEW seen \in Seq(Answer)
    PROVE  /\ DOMAIN seen = 1..Len(seen) /\ Len(seen) \in Nat
           /\ \A j \in DOMAIN seen : seen[j].at \in Nat /\ seen[j].allowed \in BOOLEAN
           /\ Window \in Nat
<1>1. \A j \in DOMAIN seen : seen[j] \in Answer
  OBVIOUS
<1>2. \A j \in DOMAIN seen : seen[j].at \in Nat /\ seen[j].allowed \in BOOLEAN
  BY <1>1 DEF Answer
<1> QED BY <1>2, NumbersAreNatural

\* The queue without its old head traces the same answers, all of them in the window.
LEMMA HeadIsOld ==
    ASSUME NEW queue \in Seq(Nat), NEW seen \in Seq(Answer), NEW time \in Nat,
           Ordered(seen, time), Remembered(queue, seen, time)
    PROVE  LET rest == From(queue, {i \in DOMAIN queue : queue[i] + Window >= time}) IN
           /\ rest \in Seq(Nat)
           /\ \E g \in [DOMAIN rest -> DOMAIN seen] :
                 /\ Traces(g, rest, seen, time)
                 /\ \A i \in DOMAIN rest : rest[i] + Window >= time
<1> DEFINE kept == {i \in DOMAIN queue : queue[i] + Window >= time}
           rest == From(queue, kept)
<1>1. PICK f \in [DOMAIN queue -> DOMAIN seen] : Traces(f, queue, seen, time)
  BY DEF Remembered
<1>2. /\ DOMAIN queue = 1..Len(queue) /\ Len(queue) \in Nat
      /\ DOMAIN seen = 1..Len(seen) /\ Len(seen) \in Nat
      /\ \A j \in DOMAIN seen : seen[j].at \in Nat
      /\ \A i \in DOMAIN queue : queue[i] \in Nat
      /\ Window \in Nat
  BY AnswersAreTimed
<1>3. CASE kept = {}
  <2>1. rest = << >>
    BY <1>3 DEF From
  <2>2. \A j \in Passed(seen) : seen[j].at + Window < time
    <3> SUFFICES ASSUME NEW i \in DOMAIN queue PROVE seen[f[i]].at + Window < time
      BY <1>1 DEF Traces, Passed
    <3>1. seen[f[i]].at = queue[i]
      BY <1>1 DEF Traces
    <3>2. ~ (queue[i] + Window >= time)
      BY <1>3
    <3> QED BY <1>2, <3>1, <3>2
  <2> DEFINE g == [i \in {} |-> 0]
  <2>3. g \in [DOMAIN rest -> DOMAIN seen] /\ DOMAIN rest = {} /\ rest \in Seq(Nat)
    <3>1. DOMAIN << >> = {} /\ << >> \in Seq(Nat)
      OBVIOUS
    <3>2. DOMAIN rest = {} /\ rest \in Seq(Nat)
      BY <2>1, <3>1
    <3> HIDE DEF rest
    <3> QED BY <3>2
  <2> HIDE DEF rest, g
  <2>4. Traces(g, rest, seen, time)
    BY <2>2, <2>3 DEF Traces
  <2> QED BY <2>3, <2>4 DEF rest
<1>4. CASE kept # {}
  <2> DEFINE k == Least(kept)
             m == Len(queue) - k + 1
             g == [i \in 1..m |-> f[k + i - 1]]
  <2>1. /\ k \in kept /\ \A j \in kept : k <= j
        /\ rest \in Seq(Nat) /\ Len(rest) = m
        /\ \A i \in 1..m : rest[i] = queue[k + i - 1]
    <3>1. kept \in SUBSET (DOMAIN queue)
      OBVIOUS
    <3> HIDE DEF kept
    <3> QED BY <1>4, <3>1, FromIsSuffix
  <2>2. k \in 1..Len(queue) /\ queue[k] + Window >= time
    BY <1>2, <2>1
  <2>3. m \in Nat /\ DOMAIN rest = 1..m
    BY <1>2, <2>1, <2>2
  <2> HIDE DEF k, kept, rest
  <2>4. \A i \in 1..m : k + i - 1 \in DOMAIN queue /\ g[i] = f[k + i - 1]
    <3>1. \A i \in 1..m : g[i] = f[k + i - 1]
      OBVIOUS
    <3>2. \A i \in 1..m : k + i - 1 \in 1..Len(queue)
      <4>1. k \in Nat /\ 1 <= k /\ k <= Len(queue) /\ Len(queue) \in Nat
        BY <1>2, <2>2
      <4> QED BY <4>1
    <3> QED BY <1>2, <3>1, <3>2
  <2>5. g \in [DOMAIN rest -> DOMAIN seen]
    BY <1>1, <2>3, <2>4
  <2>6. \A i \in DOMAIN rest : g[i] \in Passed(seen) /\ seen[g[i]].at = rest[i]
    BY <1>1, <2>1, <2>3, <2>4 DEF Traces
  <2>7. \A i, j \in DOMAIN rest : i < j => g[i] < g[j]
    <3> SUFFICES ASSUME NEW i \in 1..m, NEW j \in 1..m, i < j PROVE g[i] < g[j]
      BY <2>3
    <3>1. k + i - 1 < k + j - 1
      BY <1>2, <2>2, <2>3
    <3> QED BY <1>1, <2>4, <3>1 DEF Traces
  <2>8. ASSUME NEW i \in DOMAIN queue, i >= k PROVE queue[i] + Window >= time
    <3>1. f[k] <= f[i]
      <4>1. CASE i = k
        BY <1>1, <1>2, <2>2, <4>1
      <4>2. CASE i > k
        <5>1. f[k] < f[i]
          BY <1>1, <1>2, <2>2, <4>2 DEF Traces
        <5>2. f[k] \in DOMAIN seen /\ f[i] \in DOMAIN seen
          BY <1>1, <1>2, <2>2
        <5>3. f[k] \in Nat /\ f[i] \in Nat
          BY <1>2, <5>2
        <5> QED BY <5>1, <5>3
      <4> QED BY <1>2, <2>2, <2>8, <4>1, <4>2
    <3>2. /\ f[k] \in DOMAIN seen /\ f[i] \in DOMAIN seen
          /\ seen[f[k]].at = queue[k] /\ seen[f[i]].at = queue[i]
      BY <1>1, <1>2, <2>2 DEF Traces
    <3>3. seen[f[k]].at <= seen[f[i]].at
      BY <3>1, <3>2 DEF Ordered
    <3>4. queue[k] \in Nat /\ queue[i] \in Nat
      BY <1>2, <2>2
    <3> QED BY <1>2, <2>2, <3>2, <3>3, <3>4
  <2>9. \A i \in DOMAIN rest : rest[i] + Window >= time
    <3> SUFFICES ASSUME NEW i \in 1..m PROVE rest[i] + Window >= time
      BY <2>3
    <3>1. k + i - 1 \in DOMAIN queue /\ k + i - 1 >= k
      BY <1>2, <2>2, <2>3, <2>4
    <3> QED BY <2>1, <2>8, <3>1
  <2>10. ASSUME NEW j \in Passed(seen), \A i \in DOMAIN rest : g[i] # j
         PROVE  seen[j].at + Window < time
    <3>1. CASE \A i \in DOMAIN queue : f[i] # j
      BY <1>1, <3>1 DEF Traces
    <3>2. ASSUME NEW i \in DOMAIN queue, f[i] = j PROVE seen[j].at + Window < time
      <4>1. ~ (i >= k)
        <5>1. SUFFICES ASSUME i >= k PROVE FALSE
          OBVIOUS
        <5>2. i - k + 1 \in 1..m /\ k + (i - k + 1) - 1 = i
          BY <1>2, <2>2, <5>1
        <5>3. g[i - k + 1] = j
          BY <2>4, <3>2, <5>2
        <5> QED BY <2>3, <2>10, <5>2, <5>3
      <4>2. i \notin kept
        BY <1>2, <2>1, <2>2, <4>1
      <4>3. queue[i] \in Nat /\ seen[j].at = queue[i]
        BY <1>1, <1>2, <3>2 DEF Traces
      <4> QED BY <1>2, <4>2, <4>3 DEF kept
    <3> QED BY <3>1, <3>2
  <2> HIDE DEF g, m
  <2>11. Traces(g, rest, seen, time)
    BY <2>6, <2>7, <2>10 DEF Traces
  <2> QED BY <2>1, <2>5, <2>9, <2>11 DEF kept, rest
<1> QED BY <1>3, <1>4

\* What is left of the queue counts the logins that passed within the window.
LEMMA QueueCounts ==
    ASSUME NEW rest \in Seq(Nat), NEW seen \in Seq(Answer), NEW time \in Nat,
           NEW g \in [DOMAIN rest -> DOMAIN seen], Traces(g, rest, seen, time),
           \A i \in DOMAIN rest : rest[i] + Window >= time
    PROVE  Len(rest) = Cardinality({j \in 1..Len(seen) : /\ seen[j].allowed
                                                         /\ seen[j].at + Window >= time})
<1> DEFINE recent == {j \in 1..Len(seen) : seen[j].allowed /\ seen[j].at + Window >= time}
<1>1. /\ DOMAIN rest = 1..Len(rest) /\ Len(rest) \in Nat
      /\ DOMAIN seen = 1..Len(seen) /\ Len(seen) \in Nat
      /\ \A j \in DOMAIN seen : seen[j].at \in Nat
      /\ Window \in Nat
  BY AnswersAreTimed
<1>2. \A i \in 1..Len(rest) : g[i] \in recent
  BY <1>1 DEF Traces, Passed
<1>3. g \in [1..Len(rest) -> recent]
  BY <1>1, <1>2
<1>4. \A i, j \in 1..Len(rest) : g[i] = g[j] => i = j
  <2> SUFFICES ASSUME NEW i \in 1..Len(rest), NEW j \in 1..Len(rest), g[i] = g[j] PROVE i = j
    OBVIOUS
  <2>1. (i < j => g[i] < g[j]) /\ (j < i => g[j] < g[i])
    BY <1>1 DEF Traces
  <2>2. g[i] \in recent
    BY <1>2
  <2>3. g[i] \in Nat
    BY <1>1, <2>2
  <2> QED BY <1>1, <2>1, <2>3
<1>5. \A j \in recent : \E i \in 1..Len(rest) : g[i] = j
  <2> SUFFICES ASSUME NEW j \in recent, \A i \in 1..Len(rest) : g[i] # j PROVE FALSE
    OBVIOUS
  <2>1. seen[j].at + Window < time
    BY <1>1 DEF Traces, Passed
  <2>2. seen[j].at + Window >= time /\ seen[j].at \in Nat
    BY <1>1
  <2> QED BY <1>1, <2>1, <2>2
<1> HIDE DEF recent
<1>6. g \in Bijection(1..Len(rest), recent)
  BY <1>3, <1>4, <1>5, Fun_IsBij
<1>7. Cardinality(recent) = Len(rest)
  BY <1>1, <1>6, FS_CountingElements DEF ExistsBijection
<1> QED BY <1>7 DEF recent

\* An answer that counts what is left of the queue keeps the limiter exact.
LEMMA AnswerCounts ==
    ASSUME NEW queue \in Seq(Nat), NEW seen \in Seq(Answer), NEW time \in Nat,
           Counted(queue, seen, time)
    PROVE  LET rest == From(queue, {i \in DOMAIN queue : queue[i] + Window >= time})
               allowed == Len(rest) < Limit
           IN  Counted(IF allowed THEN Append(rest, time) ELSE rest,
                       Append(seen, [at |-> time, allowed |-> allowed]), time)
<1> DEFINE rest == From(queue, {i \in DOMAIN queue : queue[i] + Window >= time})
           allowed == Len(rest) < Limit
           n == Len(seen)
           answer == [at |-> time, allowed |-> allowed]
           next == Append(seen, answer)
           left == IF allowed THEN Append(rest, time) ELSE rest
<1>1. Exact(seen) /\ Ordered(seen, time) /\ Remembered(queue, seen, time)
  BY DEF Counted
<1>2. /\ rest \in Seq(Nat)
      /\ \E g \in [DOMAIN rest -> DOMAIN seen] :
            /\ Traces(g, rest, seen, time)
            /\ \A i \in DOMAIN rest : rest[i] + Window >= time
  BY <1>1, HeadIsOld
<1>3. PICK g \in [DOMAIN rest -> DOMAIN seen] :
            /\ Traces(g, rest, seen, time)
            /\ \A i \in DOMAIN rest : rest[i] + Window >= time
  BY <1>2
<1> HIDE DEF rest
<1>4. /\ DOMAIN seen = 1..n /\ n \in Nat
      /\ DOMAIN rest = 1..Len(rest) /\ Len(rest) \in Nat
      /\ \A j \in DOMAIN seen : seen[j].at \in Nat
      /\ Window \in Nat
  BY <1>2, AnswersAreTimed
<1>5. /\ next \in Seq(Answer) /\ DOMAIN next = 1..(n + 1)
      /\ \A j \in 1..n : next[j] = seen[j]
      /\ next[n + 1] = answer
  <2>1. answer \in Answer
    BY DEF Answer
  <2> HIDE DEF answer
  <2> QED BY <1>4, <2>1, AppendProperties
<1>9. answer.at = time /\ answer.allowed = allowed /\ allowed \in BOOLEAN
  OBVIOUS
<1>10. allowed <=> Len(rest) < Limit
  OBVIOUS
<1> HIDE DEF next, answer, allowed
<1>6. Exact(next)
  <2> SUFFICES ASSUME NEW i \in 1..(n + 1)
               PROVE  next[i].allowed <=>
                        Cardinality({j \in 1..(i - 1) : /\ next[j].allowed
                                                        /\ next[j].at + Window >= next[i].at})
                            < Limit
    BY <1>5 DEF Exact
  <2>1. CASE i \in 1..n
    <3>1. next[i] = seen[i] /\ \A j \in 1..(i - 1) : next[j] = seen[j]
      BY <1>4, <1>5, <2>1
    <3>2. {j \in 1..(i - 1) : next[j].allowed /\ next[j].at + Window >= next[i].at}
            = {j \in 1..(i - 1) : seen[j].allowed /\ seen[j].at + Window >= seen[i].at}
      BY <3>1
    <3>3. seen[i].allowed <=>
            Cardinality({j \in 1..(i - 1) : seen[j].allowed /\ seen[j].at + Window >= seen[i].at})
                < Limit
      BY <1>1, <1>4, <2>1 DEF Exact
    <3> QED BY <3>1, <3>2, <3>3
  <2>2. CASE i = n + 1
    <3>1. {j \in 1..(i - 1) : next[j].allowed /\ next[j].at + Window >= next[i].at}
            = {j \in 1..n : seen[j].allowed /\ seen[j].at + Window >= time}
      <4>1. i - 1 = n /\ next[i].at = time
        BY <1>4, <1>5, <1>9, <2>2
      <4> QED BY <1>5, <4>1
    <3>2. Len(rest) = Cardinality({j \in 1..n : seen[j].allowed /\ seen[j].at + Window >= time})
      BY <1>2, <1>3, QueueCounts
    <3>3. next[i].allowed <=> Len(rest) < Limit
      BY <1>5, <1>9, <1>10, <2>2
    <3> QED BY <3>1, <3>2, <3>3
  <2> QED BY <1>4, <2>1, <2>2
<1>7. Ordered(next, time)
  <2>1. \A i \in 1..n : next[i].at = seen[i].at /\ seen[i].at <= time
    BY <1>1, <1>4, <1>5 DEF Ordered
  <2>2. next[n + 1].at = time
    BY <1>5, <1>9
  <2>3. \A i \in 1..(n + 1) : next[i].at <= time
    BY <1>4, <2>1, <2>2
  <2>4. ASSUME NEW i \in 1..(n + 1), NEW j \in 1..(n + 1), i <= j
        PROVE  next[i].at <= next[j].at
    <3>1. CASE j = n + 1
      BY <2>2, <2>3, <3>1
    <3>2. CASE j # n + 1
      <4>1. i \in 1..n /\ j \in 1..n
        BY <1>4, <2>4, <3>2
      <4> QED BY <1>1, <1>4, <1>5, <2>4, <4>1 DEF Ordered
    <3> QED BY <3>1, <3>2
  <2> QED BY <1>5, <2>3, <2>4 DEF Ordered
<1>8. Remembered(left, next, time)
  <2>1. Passed(next) = IF allowed THEN Passed(seen) \cup {n + 1} ELSE Passed(seen)
    <3>1. 1..(n + 1) = (1..n) \cup {n + 1}
      BY <1>4
    <3> QED BY <1>4, <1>5, <1>9, <3>1 DEF Passed
  <2>2. CASE ~allowed
    <3>1. g \in [DOMAIN left -> DOMAIN next]
      BY <1>3, <1>4, <1>5, <2>2
    <3>2. Traces(g, left, next, time)
      BY <1>3, <1>4, <1>5, <2>1, <2>2 DEF Traces, Passed
    <3> QED BY <3>1, <3>2 DEF Remembered
  <2>3. CASE allowed
    <3> DEFINE m == Len(rest)
               f == [i \in 1..(m + 1) |-> IF i = m + 1 THEN n + 1 ELSE g[i]]
    <3>1. /\ left = Append(rest, time) /\ DOMAIN left = 1..(m + 1)
          /\ \A i \in 1..m : left[i] = rest[i]
          /\ left[m + 1] = time
      BY <1>2, <1>4, <2>3, AppendProperties
    <3>2. \A i \in 1..m : g[i] \in 1..n
      BY <1>3, <1>4
    <3>9. 1..(m + 1) = (1..m) \cup {m + 1} /\ m + 1 \notin 1..m /\ m \in Nat
      BY <1>4
    <3> HIDE DEF left, m
    <3>4. f[m + 1] = n + 1 /\ \A i \in 1..m : f[i] = g[i]
      BY <3>9
    <3>3. f \in [DOMAIN left -> DOMAIN next]
      <4>1. \A i \in 1..(m + 1) : f[i] \in 1..(n + 1)
        BY <1>4, <3>2, <3>4, <3>9
      <4> QED BY <1>5, <3>1, <4>1
    <3> HIDE DEF f
    <3>5. \A i \in DOMAIN left : f[i] \in Passed(next) /\ next[f[i]].at = left[i]
      <4>1. ASSUME NEW i \in 1..m
            PROVE  f[i] \in Passed(next) /\ next[f[i]].at = left[i]
        <5>1. g[i] \in Passed(seen) /\ seen[g[i]].at = rest[i]
          BY <1>3, <1>4 DEF Traces, m
        <5> QED BY <1>5, <2>1, <3>1, <3>2, <3>4, <5>1
      <4>2. f[m + 1] \in Passed(next) /\ next[f[m + 1]].at = left[m + 1]
        BY <1>5, <1>9, <2>1, <2>3, <3>1, <3>4
      <4> QED BY <3>1, <3>9, <4>1, <4>2
    <3>6. \A i, j \in DOMAIN left : i < j => f[i] < f[j]
      <4> SUFFICES ASSUME NEW i \in 1..(m + 1), NEW j \in 1..(m + 1), i < j PROVE f[i] < f[j]
        BY <3>1
      <4>1. i \in 1..m
        BY <3>9
      <4>2. CASE j = m + 1
        <5>1. f[i] \in 1..n /\ f[j] = n + 1
          BY <3>2, <3>4, <4>1, <4>2
        <5> QED BY <1>4, <5>1
      <4>3. CASE j \in 1..m
        BY <1>3, <1>4, <3>4, <4>1, <4>3 DEF Traces, m
      <4> QED BY <3>9, <4>2, <4>3
    <3>7. ASSUME NEW j \in Passed(next), \A i \in DOMAIN left : f[i] # j
          PROVE  next[j].at + Window < time
      <4>1. j # n + 1
        BY <3>1, <3>4, <3>7, <3>9
      <4>2. j \in Passed(seen) /\ next[j] = seen[j]
        BY <1>4, <1>5, <2>1, <4>1 DEF Passed
      <4>3. \A i \in 1..m : g[i] # j
        BY <3>1, <3>4, <3>7, <3>9
      <4> QED BY <1>3, <1>4, <4>2, <4>3 DEF Traces, m
    <3>8. Traces(f, left, next, time)
      BY <3>5, <3>6, <3>7 DEF Traces
    <3> QED BY <3>3, <3>8 DEF Remembered
  <2> QED BY <2>2, <2>3
<1> QED BY <1>6, <1>7, <1>8 DEF Counted, rest, next, answer, allowed

\* A queue that is right stays right while time passes.
LEMMA LaterCounts ==
    ASSUME NEW queue \in Seq(Nat), NEW seen \in Seq(Answer), NEW time \in Nat,
           NEW later \in Nat, time <= later, Counted(queue, seen, time)
    PROVE  Counted(queue, seen, later)
<1>1. /\ DOMAIN seen = 1..Len(seen)
      /\ \A j \in DOMAIN seen : seen[j].at \in Nat
      /\ Window \in Nat
  BY AnswersAreTimed
<1>2. Ordered(seen, later)
  BY <1>1 DEF Counted, Ordered
<1>3. PICK f \in [DOMAIN queue -> DOMAIN seen] : Traces(f, queue, seen, time)
  BY DEF Counted, Remembered
<1>4. Traces(f, queue, seen, later)
  BY <1>1, <1>3 DEF Traces, Passed
<1> QED BY <1>2, <1>4 DEF Counted, Remembered

LEMMA NewLimiterCounts == ASSUME NEW time \in Nat PROVE Counted(<< >>, << >>, time)
<1>1. DOMAIN << >> = {}
  OBVIOUS
<1>2. Exact(<< >>) /\ Ordered(<< >>, time)
  BY <1>1 DEF Exact, Ordered
<1> DEFINE f == [i \in {} |-> 0]
<1>3. f \in [DOMAIN << >> -> DOMAIN << >>] /\ Traces(f, << >>, << >>, time)
  BY <1>1 DEF Traces, Passed
<1> QED BY <1>2, <1>3 DEF Counted, Remembered

LEMMA LimiterInit == Init => LimiterInv
BY NewLimiterCounts DEF Init, LimiterInv

LEMMA LoginCounts ==
    ASSUME TypeOK, LimiterInv, NEW w \in Workers, NEW c \in Clients, NEW password \in Passwords,
           Login(w, c, password)
    PROVE  LimiterInv'
<1> DEFINE queue == events[w][c]
           rest == From(queue, {i \in DOMAIN queue : queue[i] + Window >= now})
           allowed == Len(rest) < Limit
           left == IF allowed THEN Append(rest, now) ELSE rest
           told == Append(answers[w][c], [at |-> now, allowed |-> allowed])
<1>1. /\ queue \in Seq(Nat) /\ answers[w][c] \in Seq(Answer) /\ now \in Nat
      /\ Counted(queue, answers[w][c], now)
  BY DEF TypeOK, LimiterInv
<1>2. Counted(left, told, now)
  <2> HIDE DEF queue
  <2> QED BY <1>1, AnswerCounts
<1>3. Pruned(w, c) = rest
  BY DEF Pruned
<1>4. /\ events' = [events EXCEPT ![w][c] = left]
      /\ answers' = [answers EXCEPT ![w][c] = told]
      /\ now' = now
  BY <1>3 DEF Login
<1> HIDE DEF left, told
<1>5. /\ events'[w][c] = left /\ answers'[w][c] = told
      /\ \A u \in Workers, d \in Clients : <<u, d>> # <<w, c>> =>
            events'[u][d] = events[u][d] /\ answers'[u][d] = answers[u][d]
  BY <1>4 DEF TypeOK
<1>6. ASSUME NEW u \in Workers, NEW d \in Clients
      PROVE  Counted(events'[u][d], answers'[u][d], now')
  <2>1. CASE u = w /\ d = c
    BY <1>2, <1>4, <1>5, <2>1
  <2>2. CASE ~ (u = w /\ d = c)
    BY <1>4, <1>5, <2>2 DEF LimiterInv
  <2> QED BY <2>1, <2>2
<1> QED BY <1>6 DEF LimiterInv

LEMMA LimiterNext == ASSUME TypeOK, LimiterInv, [Next]_vars PROVE LimiterInv'
<1>1. ASSUME NEW w \in Workers, Die(w) PROVE LimiterInv'
  <2>1. /\ now' = now /\ now \in Nat
        /\ \A u \in Workers, c \in Clients :
              /\ events'[u][c] = IF u = w THEN << >> ELSE events[u][c]
              /\ answers'[u][c] = IF u = w THEN << >> ELSE answers[u][c]
    BY <1>1 DEF Die, TypeOK
  <2>2. ASSUME NEW u \in Workers, NEW c \in Clients
        PROVE  Counted(events'[u][c], answers'[u][c], now')
    <3>1. CASE u = w
      BY <2>1, <3>1, NewLimiterCounts
    <3>2. CASE u # w
      BY <2>1, <3>2 DEF LimiterInv
    <3> QED BY <3>1, <3>2
  <2> QED BY <2>2 DEF LimiterInv
<1>2. CASE Tick
  <2>1. ASSUME NEW u \in Workers, NEW c \in Clients
        PROVE  Counted(events'[u][c], answers'[u][c], now')
    <3>1. /\ events[u][c] \in Seq(Nat) /\ answers[u][c] \in Seq(Answer) /\ now \in Nat
          /\ events' = events /\ answers' = answers /\ now' = now + 1
          /\ Counted(events[u][c], answers[u][c], now)
      BY <1>2 DEF Tick, TypeOK, LimiterInv
    <3>2. now' \in Nat /\ now <= now'
      BY <3>1
    <3> QED BY <3>1, <3>2, LaterCounts
  <2> QED BY <2>1 DEF LimiterInv
<1>3. CASE UNCHANGED limiterVars
  BY <1>3 DEF limiterVars, LimiterInv
<1>4. ASSUME NEW w \in Workers, Serve(w), ~ UNCHANGED limiterVars PROVE LimiterInv'
  BY <1>4, LoginCounts
  DEF Serve, Logout, Change, ReadHash, Respond, CheckCurrent, ReadLines, WriteTemporary, Replace
<1> QED
  BY <1>1, <1>2, <1>3, <1>4
  DEF Next, InstallRead, InstallReplace, AwaitRequest, vars, limiterVars

\* The limiter of every worker counts exactly the logins of one window: for any limit, any
\* window and any number of clients and answers, the queue it drops old times from only at
\* its head knows as many logins as passed within the window.
THEOREM LimiterCounts == Spec => []LimiterIsExact
<1>1. TypeOK /\ LimiterInv /\ [Next]_vars => LimiterInv'
  BY LimiterNext
<1>2. LimiterInv => LimiterIsExact
  BY DEF LimiterInv, Counted, Exact, LimiterIsExact
<1> QED BY LimiterInit, <1>1, <1>2, GateTypeCorrect, PTL DEF Spec
=============================================================================
