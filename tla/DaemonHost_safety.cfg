SPECIFICATION Spec
CONSTANTS
    Worker = {w1, w2}
    Agent = Agent
    MaxRequests = 2
    MaxAgentCalls = 1
CHECK_DEADLOCK FALSE
INVARIANTS
    BackendIsWhole
PROPERTIES
    HealthyIsKept
    EveryoneIsAnswered
