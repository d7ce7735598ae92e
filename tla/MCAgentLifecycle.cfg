\* Overlapping runs with operators at work, and one run of up to three actions.
SPECIFICATION AgentSpec
CONSTANTS
    energy = energy
    t1 = t1
    t2 = t2
    NoAgent = NoAgent
    Agents <- MCAgents
    UseLedger = TRUE
    Threads <- MCThreads
    MaxRuns = 2
    MaxActions = 3
INVARIANTS
    TypeOK
    StuckRunningExplained
    LostLogsExplained
    ExecutedHasEffect
    FailedHasNoEffect
    LedgerMatchesEffects
PROPERTIES DisableHolds UsesAuditLog RunsReturn
