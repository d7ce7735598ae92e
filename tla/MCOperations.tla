---------------------------- MODULE MCOperations ----------------------------
(***************************************************************************)
(* TLC instance of the operational agents, which share no state with one   *)
(* another: logistics, supply chain, and the four that look for            *)
(* irregularities.  A behaviour follows one of the three models, "part",   *)
(* while the others stay in one of their initial states.                   *)
(***************************************************************************)
EXTENDS MCDispatch, MCProcurement, MCMonitors

VARIABLE part

Parts == {"dispatch", "procurement", "monitors"}

OperationsInit ==
    /\ part \in Parts
    /\ DispatchInit /\ ProcurementInit /\ Init
    /\ part # "dispatch" => available = {} /\ \A o \in Orders : status[o] = "absent"
    /\ part # "procurement" => action_logs = {} /\ ~market.volatile /\ ~market.cassava
    /\ part # "monitors" => agent = "silo" /\ executes

OperationsNext ==
    /\ UNCHANGED part
    /\ \/ /\ part = "dispatch" /\ DispatchNext
          /\ UNCHANGED <<procurementVars, vars>>
       \/ /\ part = "procurement" /\ ProcurementNext
          /\ UNCHANGED <<dispatchVars, vars>>
       \/ /\ part = "monitors" /\ Next
          /\ UNCHANGED <<dispatchVars, procurementVars>>

OperationsSpec ==
    OperationsInit /\ [][OperationsNext]_<<part, dispatchVars, procurementVars, vars>>
=============================================================================
