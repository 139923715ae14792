SPECIFICATION FairSpec
CONSTANTS
    Commands = {c1, c2}
    Pollers = {q1}
    MaxSessions = 2
    MaxScenarios = 2
    MaxSamples = 2
INVARIANTS TypeOK OneActive ScenarioInSession
PROPERTIES PollersEnd
