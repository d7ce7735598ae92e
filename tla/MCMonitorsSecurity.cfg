\* The docstring of the security agent.
SPECIFICATION Spec
CONSTANTS
    t1 = t1
    t2 = t2
    Threads <- MCThreads
    Agents = {"security"}
    SILOS <- MCSILOS
    Cameras <- MCCameras
    SiloReadings <- MCSiloReadings
    Batches <- MCBatches
    SecurityAlerts <- MCSecurityAlerts
    Shapes <- MCShapes
    TargetEfficiency = 9200
    UseLedger = TRUE
    MaxItems = 2
    MaxRuns = 2
SYMMETRY MCSymmetry
INVARIANT AlertsEscalated
