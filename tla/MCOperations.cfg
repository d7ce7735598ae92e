\* The agents that act on what they find, one model at a time.
SPECIFICATION OperationsSpec
CONSTANTS
    \* Logistics: two overlapping runs.
    heavy = heavy
    light = light
    large = large
    small = small
    Orders = {heavy, light}
    Trucks = {large, small}
    DispatchRuns = {1, 2}
    Tons <- MCTons
    Capacity <- MCCapacity
    CostPerKm <- MCCostPerKm
    Factors = {5}
    MaxShipments = 3
    \* The supply chain: a run that hedges, with all the bank and the session can do.
    r1 = r1
    Past = Past
    Runs <- MCRuns
    HedgingApi = TRUE
    MaxAttempts = 3
    \* Two runs of each of the other four agents, overlapping or in turn.
    t1 = t1
    t2 = t2
    Threads <- MCThreads
    Agents = {"silo", "waste", "security", "vision"}
    SILOS <- MCSILOS
    Cameras <- MCCameras
    SiloReadings <- MCSiloReadings
    Batches <- MCBatches
    SecurityAlerts <- MCSecurityAlerts
    Shapes <- MCShapes
    TargetEfficiency = 9200
    UseLedger = TRUE
    MaxItems = 2
    MaxRuns = 2
SYMMETRY MCSymmetry
INVARIANTS
    PlansFit
    DoubleDispatchOnlyByOverlap
    CoverOnRecord
    DuplicatesOnlyUnanswered
    ModeTellsCover
    NothingMissed
    OneRowPerRun
