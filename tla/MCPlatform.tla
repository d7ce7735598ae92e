----------------------------- MODULE MCPlatform -----------------------------
(***************************************************************************)
(* TLC instance of the parts of the platform that share no state with one  *)
(* another: the rate limiter, the metrics, training, the scenarios, the    *)
(* start of the processes and the response cache.  A behaviour follows one *)
(* of them, "part", while the others stay as they are: what one of them    *)
(* does in a behaviour of all together it does in one of its own.          *)
(***************************************************************************)
EXTENDS MCRateLimit, Metrics, Policy, Scenarios, Startup, MCResponseCache

VARIABLE part

\* Two days, one of them with a disruption.
MCDraws == <<[noise |-> 2, disrupt |-> FALSE], [noise |-> 1, disrupt |-> TRUE]>>

\* One table refers to another, as shipments does to orders.
MCForeignKeys == {<<3, 2>>}

Parts == {"rate limit", "metrics", "training", "scenarios", "startup", "cache"}

PlatformInit ==
    /\ part \in Parts
    /\ Init /\ MetricsInit /\ PolicyInit /\ ScenarioInit /\ StartInit /\ CacheInit

PlatformNext ==
    /\ UNCHANGED part
    /\ \/ /\ part = "rate limit" /\ Next
          /\ UNCHANGED <<metricsVars, policyVars, scenarioVars, startVars, cacheVars>>
       \/ /\ part = "metrics" /\ MetricsNext
          /\ UNCHANGED <<vars, policyVars, scenarioVars, startVars, cacheVars>>
       \/ /\ part = "training" /\ PolicyNext
          /\ UNCHANGED <<vars, metricsVars, scenarioVars, startVars, cacheVars>>
       \/ /\ part = "scenarios" /\ ScenarioNext
          /\ UNCHANGED <<vars, metricsVars, policyVars, startVars, cacheVars>>
       \/ /\ part = "startup" /\ StartNext
          /\ UNCHANGED <<vars, metricsVars, policyVars, scenarioVars, cacheVars>>
       \/ /\ part = "cache" /\ CacheNext
          /\ UNCHANGED <<vars, metricsVars, policyVars, scenarioVars, startVars>>

PlatformSpec ==
    PlatformInit /\ [][PlatformNext]_<<part, vars, metricsVars, policyVars, scenarioVars,
                                       startVars, cacheVars>>
=============================================================================
