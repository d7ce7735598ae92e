\* The docstring of the agent.
SPECIFICATION ProcurementSpec
CONSTANTS
    r1 = r1
    Past = Past
    Runs <- MCRuns
    HedgingApi = TRUE
    MaxAttempts = 3
INVARIANT TriggersWhenBreached
