---------------------------- MODULE Observation ----------------------------
(***************************************************************************)
(* Observation sessions of the Observer, observation.py: `tv-observer      *)
(* observe` and `scenario` commands, each a process of its own, and        *)
(* pollers (`observe run`) over one SQLite database.                       *)
(*                                                                         *)
(* A method of ObservationStore queries outside a transaction: the sqlite3 *)
(* module begins one at the first INSERT or UPDATE and `with` commits it.  *)
(* So each SELECT is a step, and all writes of a method are one step.      *)
(***************************************************************************)
EXTENDS Naturals, Sequences

CONSTANTS
    Commands,      \* processes that run a command at a time; nothing keeps them apart
    Pollers,       \* `observe run` processes
    MaxSessions,   \* bounds: rows of a table at which no command or poll begins
    MaxScenarios,
    MaxSamples

ASSUME ProcessesDiffer == Commands \intersect Pollers = {}

ASSUME BoundsAreNatural == {MaxSessions, MaxScenarios, MaxSamples} \subseteq Nat

VARIABLES
    sessions,    \* table sessions: is stopped_at NULL?
    scenarios,   \* table scenarios: its session, and is stopped_at NULL?
    samples,     \* table samples: its session
    pc,          \* where a process is
    seen,        \* the session a process has read, 0 for None
    looked       \* for the properties: rows of its table when a command looked for an open one

vars == <<sessions, scenarios, samples, pc, seen, looked>>

Processes == Commands \union Pollers

CommandSteps == {"idle", "start", "stop", "scenario-query", "scenario-start"}

PollerSteps == {"idle", "poll", "add", "insert", "status"}

SessionIds == DOMAIN sessions

\* For the properties, a row also has what its command had looked at, and a session how many
\* scenarios there were when it was stopped.
SessionRow == [open : BOOLEAN, after : Nat, ended : Nat]

ScenarioRow == [session : SessionIds, open : BOOLEAN, after : Nat]

TypeOK ==
    /\ sessions \in Seq(SessionRow)
    /\ scenarios \in Seq(ScenarioRow)
    /\ samples \in Seq(SessionIds)
    /\ pc \in [Processes -> CommandSteps \union PollerSteps]
    /\ \A c \in Commands : pc[c] \in CommandSteps
    /\ \A q \in Pollers : pc[q] \in PollerSteps
    /\ seen \in [Processes -> {0} \union SessionIds]
    /\ looked \in [Processes -> Nat]

Init ==
    /\ sessions = << >>
    /\ scenarios = << >>
    /\ samples = << >>
    /\ pc = [p \in Processes |-> "idle"]
    /\ seen = [p \in Processes |-> 0]
    /\ looked = [p \in Processes |-> 0]

OpenSessions == {i \in SessionIds : sessions[i].open}

OpenScenarios == {i \in DOMAIN scenarios : scenarios[i].open}

\* _active_session: the newest session that is not stopped, 0 for None.
Active ==
    IF OpenSessions = {} THEN 0
    ELSE CHOOSE i \in OpenSessions : \A j \in OpenSessions : j <= i

Goto(p, step) == pc' = [pc EXCEPT ![p] = step]

\* A method returns, raises, or ends with its process.
Leave(p) ==
    /\ Goto(p, "idle")
    /\ seen' = [seen EXCEPT ![p] = 0] /\ looked' = [looked EXCEPT ![p] = 0]

UnchangedTables == UNCHANGED <<sessions, scenarios, samples>>

----------------------------------------------------------------------------
\* Defect: nothing is refused.
StartAnyway(c) ==
    /\ pc[c] = "idle" /\ Len(sessions) < MaxSessions
    /\ Goto(c, "start")
    /\ looked' = [looked EXCEPT ![c] = Len(sessions)]
    /\ UnchangedTables /\ UNCHANGED seen

\* ObservationStore.start: refused while a session is active.
Start(c) ==
    /\ pc[c] = "idle"
    /\ Active = 0 /\ Len(sessions) < MaxSessions
    /\ Goto(c, "start")
    /\ looked' = [looked EXCEPT ![c] = Len(sessions)]
    /\ UnchangedTables /\ UNCHANGED seen

StartInsert(c) ==
    /\ pc[c] = "start"
    /\ sessions' = Append(sessions, [open |-> TRUE, after |-> looked[c], ended |-> 0])
    /\ Leave(c)
    /\ UNCHANGED <<scenarios, samples>>

\* ObservationStore.stop.
Stop(c) ==
    /\ pc[c] = "idle"
    /\ Active # 0
    /\ Goto(c, "stop")
    /\ seen' = [seen EXCEPT ![c] = Active]
    /\ UnchangedTables /\ UNCHANGED looked

\* UPDATE sessions of the session it has read.
Ended(c) ==
    [sessions EXCEPT ![seen[c]].open = FALSE, ![seen[c]].ended = Len(scenarios)]

\* Defect: the scenarios are left open.
StopSessionOnly(c) ==
    /\ pc[c] = "stop"
    /\ sessions' = Ended(c)
    /\ Leave(c)
    /\ UNCHANGED <<scenarios, samples>>

\* Every open scenario ends with the session, whatever session it belongs to.
StopUpdate(c) ==
    /\ pc[c] = "stop"
    /\ scenarios' = [i \in DOMAIN scenarios |-> [scenarios[i] EXCEPT !.open = FALSE]]
    /\ sessions' = Ended(c)
    /\ Leave(c)
    /\ UNCHANGED samples

\* ObservationStore.scenario_start: two queries and an insert.
ScenarioStart(c) ==
    /\ pc[c] = "idle"
    /\ Active # 0 /\ Len(scenarios) < MaxScenarios
    /\ Goto(c, "scenario-query")
    /\ seen' = [seen EXCEPT ![c] = Active]
    /\ UnchangedTables /\ UNCHANGED looked

ScenarioQuery(c) ==
    /\ pc[c] = "scenario-query"
    /\ IF OpenScenarios = {}
       THEN /\ Goto(c, "scenario-start")
            /\ looked' = [looked EXCEPT ![c] = Len(scenarios)] /\ UNCHANGED seen
       ELSE Leave(c)
    /\ UnchangedTables

ScenarioInsert(c) ==
    /\ pc[c] = "scenario-start"
    /\ scenarios' = Append(scenarios,
           [session |-> seen[c], open |-> TRUE, after |-> looked[c]])
    /\ Leave(c)
    /\ UNCHANGED <<sessions, samples>>

\* ObservationStore.scenario_stop: one statement, which asks for no session.
ScenarioStop(c) ==
    /\ pc[c] = "idle"
    /\ OpenScenarios # {}
    /\ scenarios' = [i \in DOMAIN scenarios |-> [scenarios[i] EXCEPT !.open = FALSE]]
    /\ UNCHANGED <<sessions, samples, pc, seen, looked>>

----------------------------------------------------------------------------
\* ObservationPoller.run: its queries of status find a session, and it begins to read the
\* television.
PollBegin(q) ==
    /\ pc[q] \in {"idle", "status"}
    /\ Active # 0 /\ Len(samples) < MaxSamples
    /\ Goto(q, "poll")
    /\ UnchangedTables /\ UNCHANGED <<seen, looked>>

\* The summaries are read over ADB; a failure is a sample as well.
PollRead(q) ==
    /\ pc[q] = "poll"
    /\ Goto(q, "add")
    /\ UnchangedTables /\ UNCHANGED <<seen, looked>>

\* Defect: the result of the query is not checked.
AddQueryUnchecked(q) ==
    /\ pc[q] = "add"
    /\ Goto(q, "insert")
    /\ seen' = [seen EXCEPT ![q] = Active]
    /\ UnchangedTables /\ UNCHANGED looked

\* Defect: a sample that finds no session is taken again.
AddQueryAgain(q) ==
    /\ pc[q] = "add"
    /\ IF Active = 0 THEN Goto(q, "poll") /\ UNCHANGED seen
       ELSE Goto(q, "insert") /\ seen' = [seen EXCEPT ![q] = Active]
    /\ UnchangedTables /\ UNCHANGED looked

\* add_sample looks for the active session, and raises out of `run` if there is none.
AddQuery(q) ==
    /\ pc[q] = "add"
    /\ IF Active = 0 THEN Leave(q)
       ELSE Goto(q, "insert") /\ seen' = [seen EXCEPT ![q] = Active] /\ UNCHANGED looked
    /\ UnchangedTables

AddInsert(q) ==
    /\ pc[q] = "insert"
    /\ samples' = Append(samples, seen[q])
    /\ Goto(q, "status")
    /\ seen' = [seen EXCEPT ![q] = 0]
    /\ UNCHANGED <<sessions, scenarios, looked>>

\* The status queries around the sleep find no session.  The command line sets no max_samples.
PollEnd(q) ==
    /\ pc[q] = "status"
    /\ Active = 0
    /\ Leave(q)
    /\ UnchangedTables

\* A write raises (the database stays locked), or the process ends: the transaction, if one
\* was begun, is rolled back.
Fail(p) ==
    /\ pc[p] # "idle"
    /\ Leave(p)
    /\ UnchangedTables

\* A method that refuses its argument, or finds nothing to do, changes nothing.
Refuse(c) == pc[c] = "idle" /\ UNCHANGED vars

Command(c) ==
    \/ Start(c) \/ StartInsert(c) \/ Stop(c) \/ StopUpdate(c)
    \/ ScenarioStart(c) \/ ScenarioQuery(c) \/ ScenarioInsert(c) \/ ScenarioStop(c)
    \/ Refuse(c)

Poll(q) == PollBegin(q) \/ PollRead(q) \/ AddQuery(q) \/ AddInsert(q) \/ PollEnd(q)

Next ==
    \/ \E c \in Commands : Command(c)
    \/ \E q \in Pollers : Poll(q)
    \/ \E p \in Processes : Fail(p)

Spec == Init /\ [][Next]_vars

\* A poller that was started goes on: each ADB read and each wait for the database has a
\* timeout, and either outcome is a step.  Nothing is asked of commands or of failures.
FairSpec == Spec /\ \A q \in Pollers : WF_vars(pc[q] # "idle" /\ Poll(q))

(***************************************************************************)
(* Properties.                                                             *)
(***************************************************************************)
OneActiveSession == \A i, j \in OpenSessions : i < j => sessions[j].after < i
OneActiveScenario == \A i, j \in OpenScenarios : i < j => scenarios[j].after < i

\* "an observation session is already active", "a scenario is already active": no second
\* session or scenario is opened beside one, except by a command that had looked for one
\* before that one's row was written.
OneActive == OneActiveSession /\ OneActiveScenario

\* A stop leaves no scenario open.  One that is open in a stopped session, where it would
\* block every scenario of the next, was written after that stop, by a command that had read
\* the session before it.
ScenarioInSession ==
    \A i \in OpenScenarios :
        LET session == sessions[scenarios[i].session] IN session.open \/ session.ended < i

\* Once the sessions are over every poller ends, by its status queries or by an error,
\* unless a session is opened before it looks.
PollersEnd ==
    \A q \in Pollers : pc[q] # "idle" /\ Active = 0 ~> pc[q] = "idle" \/ Active # 0
=============================================================================
