------------------------------ MODULE Dispatch ------------------------------
(***************************************************************************)
(* The logistics agent (backend/app/agents/logistics_agent.py) over        *)
(* services/logistics_service.py: a run reads the pending orders and the   *)
(* free trucks, plans the cheapest truck for each order from what it read, *)
(* and dispatches its plan order by order, one commit each, without        *)
(* looking again.  Runs overlap: in threads of one process, and in the     *)
(* processes of several workers.                                           *)
(*                                                                         *)
(* Orders and trucks are entered by other systems.  An action that the     *)
(* autonomy level holds back, that fails, or whose commit is refused       *)
(* leaves no trace here (AgentLifecycle follows those), so all are Skip.   *)
(***************************************************************************)
EXTENDS Naturals, Sequences, SequencesExt

CONSTANTS Orders, Trucks,
          DispatchRuns,    \* runs that may be in progress at the same time
          Tons,            \* Order.tons
          Capacity,        \* Truck.capacity_tons
          CostPerKm,       \* Truck.cost_per_km
          Factors,         \* the factors set_traffic is called with, in tenths
          MaxShipments     \* bound on the shipments created

ASSUME FleetAssumption ==
    /\ Tons \in [Orders -> Nat]
    /\ Capacity \in [Trucks -> Nat] /\ CostPerKm \in [Trucks -> Nat]
ASSUME BoundsAssumption == Factors \subseteq Nat /\ MaxShipments \in Nat

VARIABLES status,      \* Order.status
          available,   \* the trucks with Truck.available
          shipments,   \* the Shipment rows, in the order of their commits
          traffic,     \* _traffic_factor, in tenths
          planner      \* observation and plan of each run

dispatchVars == <<status, available, shipments, traffic, planner>>

-----------------------------------------------------------------------------
Assignments == [order : Orders, truck : Trucks]

IdlePlanner == [pc |-> "idle"]

DispatchInit ==
    /\ status \in [Orders -> {"absent", "pending"}]
    /\ available \in SUBSET Trucks
    /\ shipments = <<>>
    /\ traffic = 10
    /\ planner = [r \in DispatchRuns |-> IdlePlanner]

\* The first query of observe().
ObserveOrders(r) ==
    /\ planner[r].pc = "idle"
    /\ planner' = [planner EXCEPT ![r] =
          [pc |-> "observe", seen |-> Len(shipments),
           pending_orders |-> {o \in Orders : status[o] = "pending"}]]
    /\ UNCHANGED <<status, available, shipments, traffic>>

\* The other queries, and the observation.
ObserveFleet(r) ==
    /\ planner[r].pc = "observe"
    /\ planner' = [planner EXCEPT ![r] =
          [pc |-> "think", seen |-> planner[r].seen,
           observation |-> [pending_orders   |-> planner[r].pending_orders,
                            available_trucks |-> available,
                            active_shipments |-> Len(shipments),
                            traffic_factor   |-> traffic],
           orders |-> planner[r].pending_orders, trucks |-> available, plan |-> <<>>]]
    /\ UNCHANGED <<status, available, shipments, traffic>>

-----------------------------------------------------------------------------
(* think                                                                   *)

Fitting(o, trucks) == {t \in trucks : Capacity[t] >= Tons[o]}

\* plan_route: the cheapest of the trucks that fit.  The cost of an order
\* grows with cost_per_km; trucks are compared in no particular order.
PlanRoute(o, trucks) ==
    {t \in Fitting(o, trucks) : \A u \in Fitting(o, trucks) : CostPerKm[t] <= CostPerKm[u]}

\* The queries have no ORDER BY: the next order may be any.
PlanOrder(r) ==
    /\ planner[r].pc = "think"
    /\ \E o \in planner[r].orders :
          \E t \in PlanRoute(o, planner[r].trucks) :
              planner' = [planner EXCEPT ![r].orders = @ \ {o},
                                 ![r].trucks = @ \ {t},
                                 ![r].plan = Append(@, [order |-> o, truck |-> t])]
    /\ UNCHANGED <<status, available, shipments, traffic>>

\* Faulty variant of LeaveOrder: planning ends with the first order that no
\* truck can take.
LeaveAllOrders(r) ==
    /\ planner[r].pc = "think"
    /\ \E o \in planner[r].orders :
          /\ PlanRoute(o, planner[r].trucks) = {}
          /\ planner' = [planner EXCEPT ![r].orders = {}]
    /\ UNCHANGED <<status, available, shipments, traffic>>

\* No truck is left for the order: it waits for a later run.
LeaveOrder(r) ==
    /\ planner[r].pc = "think"
    /\ \E o \in planner[r].orders :
          /\ PlanRoute(o, planner[r].trucks) = {}
          /\ planner' = [planner EXCEPT ![r].orders = @ \ {o}]
    /\ UNCHANGED <<status, available, shipments, traffic>>

\* The shipments to re-route: observation.get("_active_shipment_ids", [])[:3].
Reroutes(observation) ==
    IF observation.traffic_factor > 14 /\ "_active_shipment_ids" \in DOMAIN observation
    THEN SubSeq(observation["_active_shipment_ids"], 1, 3)
    ELSE <<>>

\* think() returns; perform_action's branch for re-routing is never reached.
EndThink(r) ==
    /\ planner[r].pc = "think"
    /\ planner[r].orders = {}
    /\ planner' = [planner EXCEPT ![r] =
          [pc |-> "act", seen |-> planner[r].seen,
           observation |-> planner[r].observation, plan |-> planner[r].plan,
           done |-> 0, reroutes |-> Reroutes(planner[r].observation)]]
    /\ UNCHANGED <<status, available, shipments, traffic>>

-----------------------------------------------------------------------------
(* perform_action and create_shipment                                      *)

NextAssignment(r) == planner[r].plan[planner[r].done + 1]

\* Faulty variant of Perform: create_shipment forgets the order.
PerformShipmentOnly(r) ==
    /\ planner[r].pc = "act" /\ planner[r].done < Len(planner[r].plan)
    /\ Len(shipments) < MaxShipments
    /\ shipments' = Append(shipments,
          [order |-> NextAssignment(r).order, truck |-> NextAssignment(r).truck,
           run |-> r, seen |-> planner[r].seen])
    /\ planner' = [planner EXCEPT ![r].done = @ + 1]
    /\ UNCHANGED <<status, available, traffic>>

\* The commit of a dispatch: neither the order's status nor the truck is
\* looked at again, and the truck stays available.
PerformDispatch(r) ==
    /\ planner[r].pc = "act" /\ planner[r].done < Len(planner[r].plan)
    /\ Len(shipments) < MaxShipments
    /\ shipments' = Append(shipments,
          [order |-> NextAssignment(r).order, truck |-> NextAssignment(r).truck,
           run |-> r, seen |-> planner[r].seen])
    /\ status' = [status EXCEPT ![NextAssignment(r).order] = "dispatched"]
    /\ planner' = [planner EXCEPT ![r].done = @ + 1]
    /\ UNCHANGED <<available, traffic>>

Skip(r) ==
    /\ planner[r].pc = "act" /\ planner[r].done < Len(planner[r].plan)
    /\ planner' = [planner EXCEPT ![r].done = @ + 1]
    /\ UNCHANGED <<status, available, shipments, traffic>>

\* The run returns, or its process dies.
EndRun(r) ==
    /\ planner[r].pc # "idle"
    /\ planner' = [planner EXCEPT ![r] = IdlePlanner]
    /\ UNCHANGED <<status, available, shipments, traffic>>

-----------------------------------------------------------------------------
(* The other callers                                                       *)

\* max(1.0, min(3.0, factor))
Clamped(factor) == IF factor > 30 THEN 30 ELSE IF factor < 10 THEN 10 ELSE factor

SetTraffic(factor) ==
    /\ traffic' = Clamped(factor)
    /\ UNCHANGED <<status, available, shipments, planner>>

EnterOrder(o) ==
    /\ status[o] = "absent"
    /\ status' = [status EXCEPT ![o] = "pending"]
    /\ UNCHANGED <<available, shipments, traffic, planner>>

ChangeFleet(t) ==
    /\ available' = IF t \in available THEN available \ {t} ELSE available \cup {t}
    /\ UNCHANGED <<status, shipments, traffic, planner>>

DispatchNext ==
    \/ \E r \in DispatchRuns :
          \/ ObserveOrders(r) \/ ObserveFleet(r)
          \/ PlanOrder(r) \/ LeaveOrder(r) \/ EndThink(r)
          \/ PerformDispatch(r) \/ Skip(r) \/ EndRun(r)
    \/ \E factor \in Factors : SetTraffic(factor)
    \/ \E o \in Orders : EnterOrder(o)
    \/ \E t \in Trucks : ChangeFleet(t)

DispatchSpec == DispatchInit /\ [][DispatchNext]_dispatchVars

-----------------------------------------------------------------------------
(* Properties                                                              *)

\* The type invariant.
DispatchTypeOK ==
    /\ status \in [Orders -> {"absent", "pending", "dispatched"}]
    /\ available \subseteq Trucks
    /\ \A k \in DOMAIN shipments :
          shipments[k].order \in Orders /\ shipments[k].truck \in Trucks
    /\ traffic \in 10..30
    /\ \A r \in DispatchRuns :
          /\ planner[r].pc \in {"idle", "observe", "think", "act"}
          /\ planner[r].pc = "think" => ToSet(planner[r].plan) \subseteq Assignments
          /\ planner[r].pc = "act" => planner[r].done \in 0..Len(planner[r].plan)

\* No truck gets a load above its capacity, however old the plan is when it is
\* carried out (logistics_service.py:63-73).
LoadsFit ==
    \A k \in DOMAIN shipments : Capacity[shipments[k].truck] >= Tons[shipments[k].order]

\* One run never gives a truck two orders, nor an order two trucks
\* (logistics_agent.py:66-83).
PlanIsMatching ==
    \A r \in DispatchRuns : planner[r].pc \in {"think", "act"} =>
        \A i, j \in DOMAIN planner[r].plan :
            (\/ planner[r].plan[i].order = planner[r].plan[j].order
             \/ planner[r].plan[i].truck = planner[r].plan[j].truck) => i = j

\* The greedy plan leaves out only orders that none of the trucks it did not
\* use could take (logistics_agent.py:67-98, logistics_service.py:62-74).
NothingLeftOut ==
    \A r \in DispatchRuns : planner[r].pc = "act" =>
        \A o \in planner[r].observation.pending_orders,
           t \in planner[r].observation.available_trucks :
            Capacity[t] >= Tons[o] =>
                \E a \in ToSet(planner[r].plan) : a.order = o \/ a.truck = t

\* A plan is a matching of orders and trucks that fits their loads and cannot be
\* extended, in whatever order the queries and the loop go through them, and
\* what is shipped still fits.
PlansFit == LoadsFit /\ PlanIsMatching /\ NothingLeftOut

\* Nothing keeps an order from being shipped twice, but it takes two runs that
\* overlap: the second had read the pending orders before the first shipment
\* was stored (logistics_agent.py:29, 119-139).
DoubleDispatchOnlyByOverlap ==
    \A j, k \in DOMAIN shipments :
        j < k /\ shipments[j].order = shipments[k].order =>
            shipments[k].run # shipments[j].run /\ shipments[k].seen < j
=============================================================================
