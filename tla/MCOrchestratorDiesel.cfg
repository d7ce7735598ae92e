\* The docstring of the energy agent, where diesel is the cheapest source.
SPECIFICATION Spec
CONSTANTS
    mill = mill
    t1 = t1
    t2 = t2
    Threads <- MCThreads
    FACILITIES <- MCFacilities
    AgentOrder <- MCAgentOrder
    GridTariff = 260
    GasTariff = 300
    SolarTariff = 280
    DieselPricePerLitre = 850
    MAINTENANCE_THRESHOLD_HOURS = 12
    MeteredSources = {"diesel", "gas"}
    Hours = {12}
    Window = 2
    MaxReadings = 2
    MaxRuns = 3
    UseLedger = TRUE
    MaxPasses = 1
SYMMETRY MCSymmetry
INVARIANT SwitchesMinimiseCost
