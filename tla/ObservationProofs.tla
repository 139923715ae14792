------------------------- MODULE ObservationProofs -------------------------
(***************************************************************************)
(* Theorems about Observation, for any number of commands and pollers side *)
(* by side and any failures: every row refers to a session that exists,    *)
(* and a second session or scenario beside an open one, or an open         *)
(* scenario in a stopped session, comes from commands that overlap.        *)
(***************************************************************************)
EXTENDS Observation, TLAPS, WellFoundedInduction

(* Rows refer to sessions that exist.                                      *)

\* What a process is about to write refers to a session that exists.
Located ==
    \A p \in Processes :
        pc[p] \in {"stop", "scenario-query", "scenario-start", "insert"} =>
            seen[p] \in SessionIds

TypedInv == TypeOK /\ Located

\* A non-empty set of row numbers has a largest one.
LEMMA LargestExists ==
    ASSUME NEW n \in Nat, NEW S \in SUBSET (1..n), S # {}
    PROVE  \E i \in S : \A j \in S : j <= i
<1> DEFINE T == {n - i : i \in S}
<1>1. /\ \A j \in S : j \in Nat /\ n - j \in Nat
      /\ T \subseteq Nat /\ T # {}
  <2>1. \A j \in S : j \in 1..n
    OBVIOUS
  <2>2. \A j \in 1..n : j \in Nat /\ n - j \in Nat
    OBVIOUS
  <2> QED
    BY <2>1, <2>2 DEF T
<1>2. PICK x \in T : \A y \in T : ~ (<<y, x>> \in OpToRel(<, Nat))
  BY <1>1, NatLessThanWellFounded, WFMin
<1>3. \A y \in T : x <= y
  <2> SUFFICES ASSUME NEW y \in T PROVE x <= y
    OBVIOUS
  <2>1. x \in Nat /\ y \in Nat
    BY <1>1
  <2>2. ~ (<<y, x>> \in OpToRel(<, Nat))
    BY <1>2
  <2>3. ~ (y < x)
    BY <2>1, <2>2 DEF OpToRel
  <2> QED
    BY <2>1, <2>3
<1>4. PICK i \in S : x = n - i
  BY <1>2 DEF T
<1>5. \A j \in S : n - i <= n - j
  BY <1>3, <1>4 DEF T
<1>6. \A j \in S : j <= i
  <2> SUFFICES ASSUME NEW j \in S PROVE j <= i
    OBVIOUS
  <2>1. i \in Nat /\ j \in Nat /\ n - i <= n - j
    BY <1>1, <1>4, <1>5
  <2> QED
    BY <2>1
<1> QED BY <1>6

\* The active session is one of the sessions, or there is none.
LEMMA ActiveIsTyped == TypeOK => Active \in {0} \union SessionIds
<1> SUFFICES ASSUME TypeOK, OpenSessions # {} PROVE Active \in SessionIds
  BY DEF Active
<1>1. OpenSessions \in SUBSET (1..Len(sessions)) /\ Len(sessions) \in Nat
  BY DEF TypeOK, OpenSessions, SessionIds
<1>2. \E i \in OpenSessions : \A j \in OpenSessions : j <= i
  BY <1>1, LargestExists
<1>3. Active \in OpenSessions
  BY <1>2 DEF Active
<1> QED BY <1>3 DEF OpenSessions

\* A row stays typed when sessions are only added.
LEMMA RowsStayTyped ==
    ASSUME TypeOK, SessionIds \subseteq SessionIds'
    PROVE  /\ scenarios \in Seq(ScenarioRow')
           /\ samples \in Seq(SessionIds')
           /\ seen \in [Processes -> {0} \union SessionIds']
<1>1. ScenarioRow \subseteq ScenarioRow'
  BY DEF ScenarioRow
<1>2. /\ \A i \in 1..Len(scenarios) : scenarios[i] \in ScenarioRow'
      /\ \A i \in 1..Len(samples) : samples[i] \in SessionIds'
      /\ Len(scenarios) \in Nat /\ Len(samples) \in Nat
  BY <1>1 DEF TypeOK
<1>3. /\ scenarios \in [1..Len(scenarios) -> ScenarioRow']
      /\ samples \in [1..Len(samples) -> SessionIds']
  BY <1>2 DEF TypeOK
<1>4. seen \in [Processes -> {0} \union SessionIds']
  BY DEF TypeOK
<1> QED BY <1>2, <1>3, <1>4

\* A step of one process that has it know a session, or nothing, keeps what is known.
LEMMA StepLocated ==
    ASSUME TypedInv, NEW p \in Processes, NEW step \in CommandSteps \union PollerSteps,
           Goto(p, step), NEW i \in {0} \union SessionIds, seen' = [seen EXCEPT ![p] = i],
           looked' \in [Processes -> Nat],
           SessionIds \subseteq SessionIds',
           p \in Commands => step \in CommandSteps,
           p \in Pollers => step \in PollerSteps,
           step \in {"stop", "scenario-query", "scenario-start", "insert"} => i # 0,
           sessions' \in Seq(SessionRow),
           scenarios' = scenarios \/ scenarios' \in Seq(ScenarioRow'),
           samples' = samples \/ samples' \in Seq(SessionIds')
    PROVE  TypedInv'
<1>1. /\ pc' \in [Processes -> CommandSteps \union PollerSteps]
      /\ seen' \in [Processes -> {0} \union SessionIds']
      /\ pc'[p] = step /\ seen'[p] = i
  BY RowsStayTyped DEF TypedInv, TypeOK, Goto
<1>2. \A q \in Processes : q # p => pc'[q] = pc[q] /\ seen'[q] = seen[q]
  BY DEF TypedInv, TypeOK, Goto
<1>3. /\ \A c \in Commands : pc'[c] \in CommandSteps
      /\ \A q \in Pollers : pc'[q] \in PollerSteps
  BY <1>1, <1>2 DEF TypedInv, TypeOK, Processes
<1>4. Located'
  BY <1>1, <1>2 DEF TypedInv, Located
<1>5. scenarios' \in Seq(ScenarioRow') /\ samples' \in Seq(SessionIds')
  BY RowsStayTyped DEF TypedInv
<1> QED BY <1>1, <1>3, <1>4, <1>5 DEF TypedInv, TypeOK

LEMMA TypedInit == Init => TypedInv
BY DEF Init, TypedInv, TypeOK, Located, SessionIds, CommandSteps, PollerSteps, Processes

\* A process that is done knows nothing.
LEMMA LeaveTyped ==
    ASSUME TypedInv, NEW p \in Processes, Leave(p),
           SessionIds \subseteq SessionIds',
           sessions' \in Seq(SessionRow),
           scenarios' = scenarios \/ scenarios' \in Seq(ScenarioRow'),
           samples' = samples
    PROVE  TypedInv'
<1>1. /\ "idle" \in CommandSteps /\ "idle" \in PollerSteps
      /\ looked' \in [Processes -> Nat]
      /\ "idle" \notin {"stop", "scenario-query", "scenario-start", "insert"}
      /\ 0 \in {0} \union SessionIds
  BY DEF CommandSteps, PollerSteps, Leave, TypedInv, TypeOK
<1>2. Goto(p, "idle") /\ seen' = [seen EXCEPT ![p] = 0]
  BY DEF Leave
<1> QED BY <1>1, <1>2, StepLocated

\* Ending scenarios keeps their table typed.
LEMMA EndedAreTyped ==
    ASSUME TypedInv, SessionIds' = SessionIds,
           scenarios' = [i \in DOMAIN scenarios |-> [scenarios[i] EXCEPT !.open = FALSE]]
    PROVE  scenarios' \in Seq(ScenarioRow')
<1>1. /\ DOMAIN scenarios = 1..Len(scenarios) /\ Len(scenarios) \in Nat
      /\ \A i \in DOMAIN scenarios : scenarios[i] \in ScenarioRow
  BY DEF TypedInv, TypeOK
<1>2. \A i \in DOMAIN scenarios : [scenarios[i] EXCEPT !.open = FALSE] \in ScenarioRow
  BY <1>1 DEF ScenarioRow
<1>3. scenarios' \in [1..Len(scenarios) -> ScenarioRow]
  BY <1>1, <1>2
<1> QED BY <1>1, <1>3 DEF ScenarioRow

LEMMA CommandTyped ==
    ASSUME TypedInv, NEW c \in Commands, Command(c)
    PROVE  TypedInv'
<1>0. /\ c \in Processes /\ c \notin Pollers
      /\ TypeOK /\ Located /\ sessions \in Seq(SessionRow)
      /\ Active \in {0} \union SessionIds
      /\ seen[c] \in {0} \union SessionIds /\ seen = [seen EXCEPT ![c] = seen[c]]
      /\ SessionIds \subseteq Nat \ {0}
      /\ looked \in [Processes -> Nat] /\ Len(sessions) \in Nat /\ Len(scenarios) \in Nat
  BY ProcessesDiffer, ActiveIsTyped DEF TypedInv, TypeOK, Processes, SessionIds
<1>1. CASE UnchangedTables
  <2>1. SessionIds' = SessionIds
    BY <1>1 DEF UnchangedTables, SessionIds
  <2>2. CASE Start(c)
    <3>1. looked' \in [Processes -> Nat]
      BY <1>0, <2>2 DEF Start
    <3> QED BY <1>0, <2>1, <2>2, <3>1, StepLocated DEF Start, UnchangedTables, CommandSteps
  <2>3. CASE Stop(c)
    BY <1>0, <2>1, <2>3, StepLocated DEF Stop, UnchangedTables, CommandSteps
  <2>4. CASE ScenarioStart(c)
    BY <1>0, <2>1, <2>4, StepLocated DEF ScenarioStart, UnchangedTables, CommandSteps
  <2>5. CASE ScenarioQuery(c) /\ Goto(c, "scenario-start") /\ UNCHANGED seen
    <3>1. looked' \in [Processes -> Nat] /\ pc[c] = "scenario-query" /\ UnchangedTables
      BY <1>0, <2>5 DEF ScenarioQuery, Leave
    <3> QED BY <1>0, <2>1, <2>5, <3>1, StepLocated DEF Located, UnchangedTables, CommandSteps
  <2>6. CASE Leave(c)
    BY <1>0, <1>1, <2>1, <2>6, LeaveTyped DEF UnchangedTables
  <2>7. CASE UNCHANGED <<pc, seen, looked>>
    BY <1>0, <1>1, <2>1, <2>7, RowsStayTyped DEF TypedInv, TypeOK, Located, UnchangedTables
  <2> QED
    BY <1>1, <2>2, <2>3, <2>4, <2>5, <2>6, <2>7
    DEF Command, StartInsert, StopUpdate, ScenarioQuery, ScenarioInsert, ScenarioStop,
        Refuse, vars
<1>2. CASE StartInsert(c)
  <2>1. sessions' \in Seq(SessionRow) /\ SessionIds \subseteq SessionIds'
    <3>1. [open |-> TRUE, after |-> looked[c], ended |-> 0] \in SessionRow
      BY <1>0 DEF SessionRow
    <3> QED BY <1>0, <1>2, <3>1 DEF StartInsert, SessionIds
  <2> QED BY <1>0, <1>2, <2>1, LeaveTyped DEF StartInsert
<1>3. CASE StopUpdate(c)
  <2>1. sessions' \in Seq(SessionRow) /\ SessionIds' = SessionIds
    <3>1. /\ DOMAIN sessions = 1..Len(sessions) /\ Len(sessions) \in Nat
          /\ DOMAIN sessions' = DOMAIN sessions
          /\ \A i \in DOMAIN sessions : sessions[i] \in SessionRow
      BY <1>0, <1>3 DEF StopUpdate, Ended
    <3>2. \A i \in DOMAIN sessions : sessions'[i] \in SessionRow
      BY <1>0, <1>3, <3>1 DEF StopUpdate, Ended, SessionRow
    <3>3. sessions' \in [1..Len(sessions) -> SessionRow]
      BY <1>3, <3>1, <3>2 DEF StopUpdate, Ended
    <3> QED BY <3>1, <3>3 DEF SessionIds
  <2>2. scenarios' \in Seq(ScenarioRow')
    BY <1>3, <2>1, EndedAreTyped DEF StopUpdate
  <2> QED BY <1>0, <1>3, <2>1, <2>2, LeaveTyped DEF StopUpdate
<1>4. CASE ScenarioInsert(c)
  <2>1. SessionIds' = SessionIds /\ ScenarioRow' = ScenarioRow
    BY <1>4 DEF ScenarioInsert, SessionIds, ScenarioRow
  <2>2. [session |-> seen[c], open |-> TRUE, after |-> looked[c]] \in ScenarioRow
    BY <1>0, <1>4 DEF ScenarioInsert, Located, ScenarioRow
  <2>3. scenarios' \in Seq(ScenarioRow')
    BY <1>0, <1>4, <2>1, <2>2 DEF ScenarioInsert, TypeOK
  <2> QED BY <1>0, <1>4, <2>1, <2>3, LeaveTyped DEF ScenarioInsert
<1>5. CASE ScenarioStop(c)
  <2>1. SessionIds' = SessionIds
    BY <1>5 DEF ScenarioStop, SessionIds
  <2>2. scenarios' \in Seq(ScenarioRow')
    BY <1>5, <2>1, EndedAreTyped DEF ScenarioStop
  <2> QED BY <1>0, <1>5, <2>1, <2>2, RowsStayTyped
          DEF ScenarioStop, TypedInv, TypeOK, Located
<1> QED
  BY <1>1, <1>2, <1>3, <1>4, <1>5
  DEF Command, Start, Stop, ScenarioStart, ScenarioQuery, Refuse, UnchangedTables, vars

LEMMA PollTyped ==
    ASSUME TypedInv, NEW q \in Pollers, Poll(q)
    PROVE  TypedInv'
<1>0. /\ q \in Processes /\ q \notin Commands
      /\ TypeOK /\ Located /\ sessions \in Seq(SessionRow)
      /\ Active \in {0} \union SessionIds
      /\ seen[q] \in {0} \union SessionIds /\ seen = [seen EXCEPT ![q] = seen[q]]
      /\ SessionIds \subseteq Nat \ {0}
      /\ looked \in [Processes -> Nat] /\ Len(sessions) \in Nat /\ Len(scenarios) \in Nat
  BY ProcessesDiffer, ActiveIsTyped DEF TypedInv, TypeOK, Processes, SessionIds
<1>1. SessionIds' = SessionIds /\ sessions' = sessions /\ scenarios' = scenarios
  BY DEF Poll, PollBegin, PollRead, AddQuery, AddInsert, PollEnd, UnchangedTables, SessionIds
<1>2. CASE PollBegin(q)
  BY <1>0, <1>1, <1>2, StepLocated DEF PollBegin, UnchangedTables, PollerSteps
<1>3. CASE PollRead(q)
  BY <1>0, <1>1, <1>3, StepLocated DEF PollRead, UnchangedTables, PollerSteps
<1>4. CASE AddQuery(q)
  BY <1>0, <1>1, <1>4, StepLocated, LeaveTyped DEF AddQuery, UnchangedTables, PollerSteps
<1>5. CASE AddInsert(q)
  <2>1. samples' \in Seq(SessionIds')
    BY <1>0, <1>1, <1>5 DEF AddInsert, Located, TypeOK
  <2>2. /\ "status" \in PollerSteps
        /\ "status" \notin {"stop", "scenario-query", "scenario-start", "insert"}
        /\ 0 \in {0} \union SessionIds
    BY DEF PollerSteps
  <2>3. Goto(q, "status") /\ seen' = [seen EXCEPT ![q] = 0] /\ looked' \in [Processes -> Nat]
    BY <1>0, <1>5 DEF AddInsert
  <2> QED BY <1>0, <1>1, <2>1, <2>2, <2>3, StepLocated
<1>6. CASE PollEnd(q)
  BY <1>0, <1>1, <1>6, LeaveTyped DEF PollEnd, UnchangedTables
<1> QED BY <1>2, <1>3, <1>4, <1>5, <1>6 DEF Poll

LEMMA TypedNext == ASSUME TypedInv, [Next]_vars PROVE TypedInv'
<1>1. ASSUME NEW c \in Commands, Command(c) PROVE TypedInv'
  BY <1>1, CommandTyped
<1>2. ASSUME NEW q \in Pollers, Poll(q) PROVE TypedInv'
  BY <1>2, PollTyped
<1>3. ASSUME NEW p \in Processes, Fail(p) PROVE TypedInv'
  <2>1. SessionIds' = SessionIds /\ sessions \in Seq(SessionRow)
    BY <1>3 DEF Fail, UnchangedTables, SessionIds, TypedInv, TypeOK
  <2> QED BY <1>3, <2>1, LeaveTyped DEF Fail, UnchangedTables
<1>4. CASE UNCHANGED vars
  BY <1>4 DEF vars, TypedInv, TypeOK, Located, SessionIds, ScenarioRow
<1> QED BY <1>1, <1>2, <1>3, <1>4 DEF Next

\* Every scenario and every sample belongs to a session that exists, for any number of
\* commands and pollers that read the tables in one step and write them in a later one.
THEOREM RowsHaveSessions == Spec => []TypeOK
<1>1. TypedInv /\ [Next]_vars => TypedInv'
  BY TypedNext
<1> QED BY TypedInit, <1>1, PTL DEF Spec, TypedInv
----------------------------------------------------------------------------
(* Open rows.                                                              *)

\* What a command that is about to write a row has looked at: open rows came after.
Looks(c) ==
    /\ pc[c] = "start" =>
          looked[c] <= Len(sessions) /\ \A i \in OpenSessions : looked[c] < i
    /\ pc[c] = "scenario-start" =>
          looked[c] <= Len(scenarios) /\ \A i \in OpenScenarios : looked[c] < i

OverlapInv ==
    /\ TypedInv
    /\ OneActiveSession
    /\ OneActiveScenario
    /\ ScenarioInSession
    /\ \A i \in SessionIds : sessions[i].ended <= Len(scenarios)
    /\ \A c \in Commands : Looks(c)

\* The tables of a step in terms of their rows.
LEMMA TableFacts ==
    ASSUME TypedInv
    PROVE  /\ sessions \in Seq(SessionRow) /\ scenarios \in Seq(ScenarioRow)
           /\ SessionIds = 1..Len(sessions) /\ DOMAIN scenarios = 1..Len(scenarios)
           /\ Len(sessions) \in Nat /\ Len(scenarios) \in Nat
           /\ \A i \in SessionIds : sessions[i] \in SessionRow
           /\ \A i \in DOMAIN scenarios : scenarios[i] \in ScenarioRow
           /\ Active = 0 => OpenSessions = {}
           /\ looked \in [Processes -> Nat]
           /\ pc \in [Processes -> CommandSteps \union PollerSteps]
<1>1. /\ sessions \in Seq(SessionRow) /\ scenarios \in Seq(ScenarioRow)
      /\ SessionIds = 1..Len(sessions) /\ DOMAIN scenarios = 1..Len(scenarios)
      /\ Len(sessions) \in Nat /\ Len(scenarios) \in Nat
      /\ \A i \in SessionIds : sessions[i] \in SessionRow
      /\ \A i \in DOMAIN scenarios : scenarios[i] \in ScenarioRow
      /\ looked \in [Processes -> Nat] /\ pc \in [Processes -> CommandSteps \union PollerSteps]
  BY DEF TypedInv, TypeOK, SessionIds
<1>2. ASSUME OpenSessions # {} PROVE Active # 0
  <2>1. OpenSessions \in SUBSET (1..Len(sessions))
    BY <1>1 DEF OpenSessions
  <2>2. \E i \in OpenSessions : \A j \in OpenSessions : j <= i
    BY <1>1, <1>2, <2>1, LargestExists
  <2>3. Active \in OpenSessions
    BY <1>2, <2>2 DEF Active
  <2> QED BY <1>1, <2>1, <2>3
<1> QED BY <1>1, <1>2

LEMMA OverlapInit == Init => OverlapInv
<1> SUFFICES ASSUME Init PROVE OverlapInv
  OBVIOUS
<1>1. SessionIds = {} /\ OpenSessions = {} /\ OpenScenarios = {}
  BY DEF Init, SessionIds, OpenSessions, OpenScenarios
<1>2. \A c \in Commands : pc[c] = "idle"
  BY DEF Init, Processes
<1>3. TypedInv
  BY TypedInit
<1> QED BY <1>1, <1>2, <1>3
        DEF OverlapInv, OneActiveSession, OneActiveScenario, ScenarioInSession, Looks

\* A step of one process that leaves sessions and scenarios alone.
LEMMA QuietOverlap ==
    ASSUME OverlapInv, TypedInv', NEW p \in Processes, sessions' = sessions,
           scenarios' = scenarios,
           \A q \in Processes : q # p => pc'[q] = pc[q] /\ looked'[q] = looked[q],
           p \in Commands => Looks(p)'
    PROVE  OverlapInv'
<1>1. OpenSessions' = OpenSessions /\ OpenScenarios' = OpenScenarios /\ SessionIds' = SessionIds
  BY DEF OpenSessions, OpenScenarios, SessionIds
<1>2. \A c \in Commands : Looks(c)'
  BY <1>1 DEF OverlapInv, Looks, Processes
<1> QED BY <1>1, <1>2 DEF OverlapInv, OneActiveSession, OneActiveScenario, ScenarioInSession

\* The steps of a command that query, or end it.
LEMMA QueryOverlap ==
    ASSUME OverlapInv, TypedInv', NEW p \in Processes, UnchangedTables,
           \/ Leave(p)
           \/ p \in Commands /\ (Start(p) \/ Stop(p) \/ ScenarioStart(p) \/ ScenarioQuery(p))
           \/ p \in Pollers /\ Poll(p)
    PROVE  OverlapInv'
<1>1. /\ looked \in [Processes -> Nat] /\ Len(sessions) \in Nat /\ Len(scenarios) \in Nat
      /\ pc \in [Processes -> CommandSteps \union PollerSteps]
      /\ Active = 0 => OpenSessions = {}
  BY TableFacts DEF OverlapInv
<1>2. sessions' = sessions /\ scenarios' = scenarios
  BY DEF UnchangedTables
<1>3. \A q \in Processes : q # p => pc'[q] = pc[q] /\ looked'[q] = looked[q]
  BY <1>1 DEF Leave, Goto, Start, Stop, ScenarioStart, ScenarioQuery, Poll, PollBegin, PollRead,
              AddQuery, AddInsert, PollEnd
<1>4. ASSUME p \in Commands PROVE Looks(p)'
  <2>1. OpenSessions' = OpenSessions /\ OpenScenarios' = OpenScenarios
    BY <1>2 DEF OpenSessions, OpenScenarios, SessionIds
  <2>2. CASE Leave(p)
    BY <1>1, <2>2 DEF Leave, Goto, Looks
  <2>3. CASE Start(p)
    <3>1. pc'[p] = "start" /\ looked'[p] = Len(sessions) /\ OpenSessions = {}
      BY <1>1, <2>3 DEF Start, Goto
    <3> QED BY <1>1, <1>2, <2>1, <3>1 DEF Looks
  <2>4. CASE Stop(p) \/ ScenarioStart(p)
    BY <1>1, <2>4 DEF Stop, ScenarioStart, Goto, Looks
  <2>5. CASE ScenarioQuery(p) /\ ~Leave(p)
    <3>1. pc'[p] = "scenario-start" /\ looked'[p] = Len(scenarios) /\ OpenScenarios = {}
      BY <1>1, <2>5 DEF ScenarioQuery, Goto
    <3> QED BY <1>1, <1>2, <2>1, <3>1 DEF Looks
  <2> QED BY <1>4, <2>2, <2>3, <2>4, <2>5, ProcessesDiffer
<1> QED BY <1>2, <1>3, <1>4, QuietOverlap

\* The rows of a command that ends.
LEMMA EndedFacts ==
    ASSUME OverlapInv, NEW c \in Commands, Leave(c)
    PROVE  /\ pc'[c] = "idle"
           /\ \A d \in Commands : d # c => pc'[d] = pc[d] /\ looked'[d] = looked[d]
BY TableFacts DEF OverlapInv, Leave, Goto, Processes

LEMMA StartInsertOverlap ==
    ASSUME OverlapInv, TypedInv', NEW c \in Commands, StartInsert(c)
    PROVE  OverlapInv'
<1> DEFINE n == Len(sessions) + 1
<1>1. /\ sessions \in Seq(SessionRow) /\ SessionIds = 1..Len(sessions) /\ Len(sessions) \in Nat
      /\ Len(scenarios) \in Nat /\ scenarios' = scenarios /\ looked[c] \in Nat
      /\ \A i \in DOMAIN scenarios : scenarios[i] \in ScenarioRow
      /\ sessions' = Append(sessions, [open |-> TRUE, after |-> looked[c], ended |-> 0])
      /\ pc[c] = "start" /\ c \in Processes
  BY TableFacts DEF OverlapInv, StartInsert, Processes
<1>2. /\ SessionIds' = SessionIds \union {n} /\ n \notin SessionIds /\ Len(sessions') = n
      /\ \A i \in SessionIds : sessions'[i] = sessions[i] /\ i < n
      /\ sessions'[n].open /\ sessions'[n].after = looked[c] /\ sessions'[n].ended = 0
  BY <1>1 DEF SessionIds
<1>3. OpenSessions' = OpenSessions \union {n}
  BY <1>2 DEF OpenSessions
<1>4. OpenScenarios' = OpenScenarios
  BY <1>1 DEF OpenScenarios
<1>5. OneActiveSession'
  <2> SUFFICES ASSUME NEW i \in OpenSessions', NEW j \in OpenSessions', i < j
               PROVE  sessions'[j].after < i
    BY DEF OneActiveSession
  <2>1. OpenSessions \subseteq SessionIds
    BY DEF OpenSessions
  <2>2. i \in OpenSessions
    BY <1>1, <1>2, <1>3, <2>1
  <2>3. CASE j = n
    BY <1>1, <1>2, <2>2, <2>3 DEF OverlapInv, Looks
  <2>4. CASE j \in OpenSessions
    BY <1>2, <2>1, <2>2, <2>4 DEF OverlapInv, OneActiveSession
  <2> QED BY <1>3, <2>3, <2>4
<1>6. OneActiveScenario'
  BY <1>1, <1>4 DEF OverlapInv, OneActiveScenario
<1>7. ScenarioInSession'
  <2>1. \A i \in OpenScenarios : scenarios[i].session \in SessionIds
    BY <1>1 DEF OpenScenarios, ScenarioRow
  <2> QED BY <1>1, <1>2, <1>4, <2>1 DEF OverlapInv, ScenarioInSession
<1>8. \A i \in SessionIds' : sessions'[i].ended <= Len(scenarios')
  BY <1>1, <1>2 DEF OverlapInv
<1>9. ASSUME NEW d \in Commands PROVE Looks(d)'
  <2>1. CASE d = c
    BY <2>1, EndedFacts DEF StartInsert, Looks
  <2>2. CASE d # c
    <3>1. pc'[d] = pc[d] /\ looked'[d] = looked[d] /\ looked[d] \in Nat /\ Looks(d)
      BY <2>2, EndedFacts, TableFacts DEF StartInsert, OverlapInv, Processes
    <3>2. pc[d] = "start" => looked[d] < n
      BY <1>1, <3>1 DEF Looks
    <3> QED BY <1>1, <1>2, <1>3, <1>4, <3>1, <3>2 DEF Looks
  <2> QED BY <2>1, <2>2
<1> QED BY <1>5, <1>6, <1>7, <1>8, <1>9 DEF OverlapInv

\* The update of every open scenario leaves none.
LEMMA AllScenariosEnd ==
    ASSUME TypedInv,
           scenarios' = [i \in DOMAIN scenarios |-> [scenarios[i] EXCEPT !.open = FALSE]]
    PROVE  OpenScenarios' = {} /\ Len(scenarios') = Len(scenarios)
<1>1. /\ DOMAIN scenarios = 1..Len(scenarios) /\ Len(scenarios) \in Nat
      /\ \A i \in DOMAIN scenarios : scenarios[i] \in ScenarioRow
  BY TableFacts
<1>2. /\ DOMAIN scenarios' = 1..Len(scenarios)
      /\ \A i \in DOMAIN scenarios' : ~scenarios'[i].open
  BY <1>1 DEF ScenarioRow
<1>3. Len(scenarios') = Len(scenarios)
  BY <1>1, <1>2
<1> QED BY <1>2, <1>3 DEF OpenScenarios

LEMMA StopUpdateOverlap ==
    ASSUME OverlapInv, TypedInv', NEW c \in Commands, StopUpdate(c)
    PROVE  OverlapInv'
<1>1. /\ SessionIds = 1..Len(sessions) /\ Len(sessions) \in Nat /\ Len(scenarios) \in Nat
      /\ \A i \in SessionIds : sessions[i] \in SessionRow
      /\ sessions' = Ended(c) /\ Leave(c)
      /\ OpenScenarios' = {} /\ Len(scenarios') = Len(scenarios)
  BY TableFacts, AllScenariosEnd DEF OverlapInv, StopUpdate
<1>2. /\ SessionIds' = SessionIds /\ Len(sessions') = Len(sessions)
      /\ \A i \in SessionIds :
            /\ sessions'[i].open => sessions[i].open
            /\ sessions'[i].after = sessions[i].after
            /\ sessions'[i].ended = sessions[i].ended \/ sessions'[i].ended = Len(scenarios)
  <2>1. DOMAIN sessions' = DOMAIN sessions
    BY <1>1 DEF Ended
  <2>2. ASSUME NEW i \in SessionIds
        PROVE  /\ sessions'[i].open => sessions[i].open
               /\ sessions'[i].after = sessions[i].after
               /\ sessions'[i].ended = sessions[i].ended \/ sessions'[i].ended = Len(scenarios)
    <3>1. sessions'[i] = IF i = seen[c]
                         THEN [sessions[i] EXCEPT !.open = FALSE, !.ended = Len(scenarios)]
                         ELSE sessions[i]
      BY <1>1 DEF Ended, SessionIds
    <3> QED BY <1>1, <3>1 DEF SessionRow
  <2>3. Len(sessions') = Len(sessions)
    <3>1. sessions' \in Seq(SessionRow)
      BY DEF TypedInv, TypeOK
    <3> QED BY <1>1, <2>1, <3>1 DEF SessionIds
  <2> QED BY <2>1, <2>2, <2>3 DEF SessionIds
<1>3. OpenSessions' \subseteq OpenSessions
  BY <1>2 DEF OpenSessions
<1>4. OneActiveSession'
  BY <1>2, <1>3 DEF OverlapInv, OneActiveSession, OpenSessions
<1>5. OneActiveScenario' /\ ScenarioInSession'
  BY <1>1 DEF OneActiveScenario, ScenarioInSession
<1>6. \A i \in SessionIds' : sessions'[i].ended <= Len(scenarios')
  BY <1>1, <1>2 DEF OverlapInv
<1>7. ASSUME NEW d \in Commands PROVE Looks(d)'
  <2>1. CASE d = c
    BY <1>1, <2>1, EndedFacts DEF Looks
  <2>2. CASE d # c
    <3>1. pc'[d] = pc[d] /\ looked'[d] = looked[d] /\ Looks(d)
      BY <1>1, <2>2, EndedFacts DEF OverlapInv
    <3> QED BY <1>1, <1>2, <1>3, <3>1 DEF Looks
  <2> QED BY <2>1, <2>2
<1> QED BY <1>4, <1>5, <1>6, <1>7 DEF OverlapInv

LEMMA ScenarioInsertOverlap ==
    ASSUME OverlapInv, TypedInv', NEW c \in Commands, ScenarioInsert(c)
    PROVE  OverlapInv'
<1> DEFINE n == Len(scenarios) + 1
<1>1. /\ scenarios \in Seq(ScenarioRow) /\ DOMAIN scenarios = 1..Len(scenarios)
      /\ Len(scenarios) \in Nat /\ sessions' = sessions /\ looked[c] \in Nat
      /\ \A i \in SessionIds : sessions[i] \in SessionRow
      /\ scenarios' = Append(scenarios,
                         [session |-> seen[c], open |-> TRUE, after |-> looked[c]])
      /\ pc[c] = "scenario-start" /\ Leave(c) /\ seen[c] \in SessionIds
  BY TableFacts DEF OverlapInv, ScenarioInsert, Processes, TypedInv, Located
<1>2. /\ DOMAIN scenarios' = DOMAIN scenarios \union {n} /\ Len(scenarios') = n
      /\ \A i \in DOMAIN scenarios : scenarios'[i] = scenarios[i] /\ i < n
      /\ scenarios'[n].open /\ scenarios'[n].after = looked[c]
      /\ scenarios'[n].session = seen[c]
  BY <1>1
<1>3. OpenScenarios' = OpenScenarios \union {n}
  BY <1>2 DEF OpenScenarios
<1>4. OpenSessions' = OpenSessions /\ SessionIds' = SessionIds
  BY <1>1 DEF OpenSessions, SessionIds
<1>5. OneActiveScenario'
  <2> SUFFICES ASSUME NEW i \in OpenScenarios', NEW j \in OpenScenarios', i < j
               PROVE  scenarios'[j].after < i
    BY DEF OneActiveScenario
  <2>1. OpenScenarios \subseteq DOMAIN scenarios
    BY DEF OpenScenarios
  <2>2. i \in OpenScenarios
    BY <1>1, <1>2, <1>3, <2>1
  <2>3. CASE j = n
    BY <1>1, <1>2, <2>2, <2>3 DEF OverlapInv, Looks
  <2>4. CASE j \in OpenScenarios
    BY <1>2, <2>1, <2>2, <2>4 DEF OverlapInv, OneActiveScenario
  <2> QED BY <1>3, <2>3, <2>4
<1>6. OneActiveSession'
  BY <1>1, <1>4 DEF OverlapInv, OneActiveSession
<1>7. ScenarioInSession'
  <2> SUFFICES ASSUME NEW i \in OpenScenarios'
               PROVE  LET session == sessions'[scenarios'[i].session]
                      IN  session.open \/ session.ended < i
    BY DEF ScenarioInSession
  <2>1. CASE i = n
    <3>1. sessions[seen[c]].ended \in Nat /\ sessions[seen[c]].ended <= Len(scenarios)
      BY <1>1 DEF OverlapInv, SessionRow
    <3> QED BY <1>1, <1>2, <2>1, <3>1
  <2>2. CASE i \in OpenScenarios
    BY <1>1, <1>2, <2>2 DEF OverlapInv, ScenarioInSession, OpenScenarios
  <2> QED BY <1>3, <2>1, <2>2
<1>8. \A i \in SessionIds' : sessions'[i].ended <= Len(scenarios')
  <2>1. \A i \in SessionIds : sessions[i].ended \in Nat /\ sessions[i].ended <= Len(scenarios)
    BY <1>1 DEF OverlapInv, SessionRow
  <2> QED BY <1>1, <1>2, <1>4, <2>1
<1>9. ASSUME NEW d \in Commands PROVE Looks(d)'
  <2>1. CASE d = c
    BY <1>1, <2>1, EndedFacts DEF Looks
  <2>2. CASE d # c
    <3>1. pc'[d] = pc[d] /\ looked'[d] = looked[d] /\ looked[d] \in Nat /\ Looks(d)
      BY <1>1, <2>2, EndedFacts, TableFacts DEF OverlapInv, Processes
    <3>2. pc[d] = "scenario-start" => looked[d] < n
      BY <1>1, <3>1 DEF Looks
    <3> QED BY <1>1, <1>2, <1>3, <1>4, <3>1, <3>2 DEF Looks
  <2> QED BY <2>1, <2>2
<1> QED BY <1>5, <1>6, <1>7, <1>8, <1>9 DEF OverlapInv

LEMMA ScenarioStopOverlap ==
    ASSUME OverlapInv, TypedInv', NEW c \in Commands, ScenarioStop(c)
    PROVE  OverlapInv'
<1>1. /\ sessions' = sessions /\ pc' = pc /\ looked' = looked
      /\ OpenScenarios' = {} /\ Len(scenarios') = Len(scenarios)
  BY AllScenariosEnd DEF OverlapInv, ScenarioStop
<1>2. OpenSessions' = OpenSessions /\ SessionIds' = SessionIds
  BY <1>1 DEF OpenSessions, SessionIds
<1>3. \A d \in Commands : Looks(d)'
  BY <1>1, <1>2 DEF OverlapInv, Looks
<1> QED BY <1>1, <1>2, <1>3
        DEF OverlapInv, OneActiveSession, OneActiveScenario, ScenarioInSession

LEMMA OverlapNext == ASSUME OverlapInv, [Next]_vars PROVE OverlapInv'
<1>1. TypedInv'
  BY TypedNext DEF OverlapInv
<1>2. Commands \subseteq Processes /\ Pollers \subseteq Processes
  BY DEF Processes
<1>3. CASE UNCHANGED vars
  BY <1>1, <1>3 DEF vars, OverlapInv, OneActiveSession, OneActiveScenario, ScenarioInSession,
                    Looks, OpenSessions, OpenScenarios, SessionIds
<1>4. ASSUME NEW c \in Commands, Command(c) PROVE OverlapInv'
  <2>1. CASE Start(c) \/ Stop(c) \/ ScenarioStart(c) \/ ScenarioQuery(c)
    <3>1. UnchangedTables
      BY <2>1 DEF Start, Stop, ScenarioStart, ScenarioQuery
    <3> QED BY <1>1, <1>2, <2>1, <3>1, QueryOverlap
  <2>2. CASE Refuse(c)
    BY <1>3, <2>2 DEF Refuse
  <2> QED BY <1>1, <1>4, <2>1, <2>2, StartInsertOverlap, StopUpdateOverlap,
             ScenarioInsertOverlap, ScenarioStopOverlap DEF Command
<1>5. ASSUME NEW q \in Pollers, Poll(q) PROVE OverlapInv'
  <2>1. /\ sessions' = sessions /\ scenarios' = scenarios /\ q \notin Commands
        /\ pc \in [Processes -> CommandSteps \union PollerSteps]
        /\ looked \in [Processes -> Nat]
    BY <1>5, ProcessesDiffer, TableFacts
    DEF Poll, PollBegin, PollRead, AddQuery, AddInsert, PollEnd, UnchangedTables, OverlapInv
  <2>2. \A p \in Processes : p # q => pc'[p] = pc[p] /\ looked'[p] = looked[p]
    BY <1>5, <2>1 DEF Poll, PollBegin, PollRead, AddQuery, AddInsert, PollEnd, Leave, Goto
  <2> QED BY <1>1, <1>2, <2>1, <2>2, QuietOverlap
<1>6. ASSUME NEW p \in Processes, Fail(p) PROVE OverlapInv'
  BY <1>1, <1>6, QueryOverlap DEF Fail
<1> QED BY <1>3, <1>4, <1>5, <1>6 DEF Next

LEMMA OverlapAlways == Spec => []OverlapInv
<1>1. OverlapInv /\ [Next]_vars => OverlapInv'
  BY OverlapNext
<1> QED BY OverlapInit, <1>1, PTL DEF Spec

\* Nothing keeps commands apart: a session or a scenario is opened beside an open one only by
\* a command that looked for one before that one's row was written.
THEOREM OnlyOverlappingStarts == Spec => []OneActive
<1>1. OverlapInv => OneActive
  BY DEF OverlapInv, OneActive
<1> QED BY <1>1, OverlapAlways, PTL

\* A scenario is open in a stopped session only if it was written after the stop, by a command
\* that had read the session before.
THEOREM StopsEndScenarios == Spec => []ScenarioInSession
<1>1. OverlapInv => ScenarioInSession
  BY DEF OverlapInv
<1> QED BY <1>1, OverlapAlways, PTL
=============================================================================
