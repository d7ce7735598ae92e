-------------------------- MODULE MCAgentLifecycle --------------------------
(***************************************************************************)
(* TLC instance of AgentLifecycle.  A behaviour follows one "part": two    *)
(* threads in overlapping runs of an agent, of one action each, with       *)
(* operators who know two levels of autonomy, or one thread in a single    *)
(* run of several actions, its session against the commits of the ledger.  *)
(***************************************************************************)
EXTENDS AgentLifecycle

CONSTANTS energy, t1, t2

VARIABLE part

MCAgents == {energy}
MCThreads == {t1, t2}

Parts == {"overlap", "session"}

AgentInit ==
    /\ part \in Parts
    /\ Init
    /\ part = "overlap" => \A a \in Agents : autonomy[a] # "simulate"

AgentNext ==
    /\ UNCHANGED part
    /\ Next
    /\ IF part = "overlap"
       THEN /\ \A t \in Threads : run'[t].n <= 1
            /\ \A a \in Agents : autonomy'[a] # "simulate"
       ELSE nextRun' <= 2 /\ run'[t2] = NoRun

AgentSpec ==
    /\ AgentInit /\ [][AgentNext]_<<part, vars>>
    /\ \A t \in Threads : WF_vars(Step(t))
=============================================================================
