--------------------------- MODULE DispatchProofs ---------------------------
(***************************************************************************)
(* Theorems about Dispatch: for any fleet, any orders and any number of    *)
(* runs that overlap in any way, a plan is a matching that fits and cannot *)
(* be extended, what is shipped fits, and an order is shipped twice only   *)
(* by runs of which the second had looked before the first had shipped.    *)
(***************************************************************************)
EXTENDS Dispatch, SequenceTheorems, WellFoundedInduction, TLAPS

-----------------------------------------------------------------------------
(* The inductive invariant                                                 *)

Statuses     == {"absent", "pending", "dispatched"}
ShipmentType == [order : Orders, truck : Trucks, run : DispatchRuns, seen : Nat]
Observations == [pending_orders : SUBSET Orders, available_trucks : SUBSET Trucks,
                 active_shipments : Nat, traffic_factor : Nat]

Observing == [pc : {"observe"}, seen : Nat, pending_orders : SUBSET Orders]
Thinking  == [pc : {"think"}, seen : Nat, observation : Observations,
              orders : SUBSET Orders, trucks : SUBSET Trucks, plan : Seq(Assignments)]
Acting    == [pc : {"act"}, seen : Nat, observation : Observations,
              plan : Seq(Assignments), done : Nat, reroutes : {<<>>}]

TypesOK ==
    /\ status \in [Orders -> Statuses]
    /\ available \subseteq Trucks
    /\ shipments \in Seq(ShipmentType)
    /\ traffic \in Nat
    /\ DOMAIN planner = DispatchRuns

\* A plan that fits, and gives no truck two orders and no order two trucks.
PlanOK(plan) ==
    /\ \A i \in 1..Len(plan) : Capacity[plan[i].truck] >= Tons[plan[i].order]
    /\ \A i, j \in 1..Len(plan) :
          plan[i].order = plan[j].order \/ plan[i].truck = plan[j].truck => i = j

\* The orders that are settled: none of them could be planned in addition.
Settled(plan, orders, trucks) ==
    \A o \in orders, t \in trucks : Capacity[t] >= Tons[o] =>
        \E i \in 1..Len(plan) : plan[i].order = o \/ plan[i].truck = t

\* What was planned is neither an order that waits nor a truck that is free, and
\* every truck that is not free any more was planned.
Planned(plan, orders, trucks, observation) ==
    /\ PlanOK(plan)
    /\ \A i \in 1..Len(plan) : /\ plan[i].order \in observation.pending_orders \ orders
                               /\ plan[i].truck \notin trucks
    /\ \A t \in observation.available_trucks \ trucks :
          \E i \in 1..Len(plan) : plan[i].truck = t
    /\ Settled(plan, observation.pending_orders \ orders, observation.available_trucks)

ThinkOK(r) ==
    /\ planner[r] \in Thinking
    /\ planner[r].orders \subseteq planner[r].observation.pending_orders
    /\ planner[r].trucks \subseteq planner[r].observation.available_trucks
    /\ Planned(planner[r].plan, planner[r].orders, planner[r].trucks, planner[r].observation)

ActOK(r) ==
    /\ planner[r] \in Acting
    /\ PlanOK(planner[r].plan)
    /\ \A i \in 1..Len(planner[r].plan) : planner[r].plan[i].order \in planner[r].observation.pending_orders
    /\ Settled(planner[r].plan, planner[r].observation.pending_orders,
               planner[r].observation.available_trucks)

\* When the run had looked, none of these orders had been shipped.
Fresh(r, orders) ==
    /\ planner[r].seen <= Len(shipments)
    /\ \A j \in 1..Len(shipments) : shipments[j].order \in orders => planner[r].seen < j

\* What the run has shipped itself since it looked is of the first n of its plan.
Shipped(r, n) ==
    \A j \in 1..Len(shipments) : shipments[j].run = r /\ planner[r].seen < j =>
        \E i \in 1..n : planner[r].plan[i].order = shipments[j].order

RunOK(r) ==
    \/ planner[r] = IdlePlanner
    \/ planner[r] \in Observing /\ Fresh(r, planner[r].pending_orders) /\ Shipped(r, 0)
    \/ ThinkOK(r) /\ Fresh(r, planner[r].observation.pending_orders) /\ Shipped(r, 0)
    \/ ActOK(r) /\ Fresh(r, planner[r].observation.pending_orders) /\ Shipped(r, planner[r].done)

\* What was shipped is no longer pending.
ShipmentsOK ==
    \A k \in 1..Len(shipments) : status[shipments[k].order] = "dispatched"

IInv ==
    /\ TypesOK /\ ShipmentsOK /\ LoadsFit /\ DoubleDispatchOnlyByOverlap
    /\ \A r \in DispatchRuns : RunOK(r)

-----------------------------------------------------------------------------
(* Planning                                                                *)

\* A set of natural numbers that is not empty has a least element.
LEMMA Least ==
    ASSUME NEW T, T \subseteq Nat, T # {}
    PROVE  \E x \in T : \A y \in T : x <= y
<1> DEFINE R == OpToRel(<, Nat)
<1>1. IsWellFoundedOn(R, Nat)
  BY NatLessThanWellFounded DEF OpToRel
<1>2. \E x \in T : \A y \in T : ~(<<y, x>> \in R)
  <2> HIDE DEF R
  <2> QED BY <1>1, WFMin
<1>3. \A x, y \in Nat : ~(<<y, x>> \in R) => x <= y
  BY DEF OpToRel
<1> QED BY <1>2, <1>3

\* A route is found whenever a truck fits, however many trucks there are.
LEMMA RouteFound ==
    ASSUME NEW o \in Orders, NEW trucks \in SUBSET Trucks
    PROVE  /\ PlanRoute(o, trucks) \subseteq Fitting(o, trucks)
           /\ PlanRoute(o, trucks) = {} => Fitting(o, trucks) = {}
<1> DEFINE costs == {CostPerKm[t] : t \in Fitting(o, trucks)}
<1>1. SUFFICES ASSUME NEW u \in Fitting(o, trucks) PROVE PlanRoute(o, trucks) # {}
  BY DEF PlanRoute
<1>2. costs \subseteq Nat /\ costs # {}
  BY <1>1, FleetAssumption DEF Fitting
<1> HIDE DEF costs
<1>3. PICK c \in costs : \A d \in costs : c <= d
  BY <1>2, Least
<1>4. PICK t \in Fitting(o, trucks) : CostPerKm[t] = c
  BY <1>3 DEF costs
<1>5. \A v \in Fitting(o, trucks) : CostPerKm[t] <= CostPerKm[v]
  BY <1>3, <1>4 DEF costs
<1> QED BY <1>4, <1>5 DEF PlanRoute

-----------------------------------------------------------------------------
(* Steps of one run                                                        *)

\* Where a run is says what holds of it.
LEMMA ByPlace ==
    ASSUME IInv, NEW r \in DispatchRuns
    PROVE  /\ planner[r].pc = "idle" => planner[r] = IdlePlanner
           /\ planner[r].pc = "observe" =>
                 planner[r] \in Observing /\ Fresh(r, planner[r].pending_orders) /\ Shipped(r, 0)
           /\ planner[r].pc = "think" =>
                 /\ ThinkOK(r) /\ Fresh(r, planner[r].observation.pending_orders) /\ Shipped(r, 0)
           /\ planner[r].pc = "act" =>
                 /\ ActOK(r) /\ Fresh(r, planner[r].observation.pending_orders)
                 /\ Shipped(r, planner[r].done)
<1>1. RunOK(r)
  BY DEF IInv
<1>2. ThinkOK(r) => planner[r].pc = "think"
  BY DEF ThinkOK, Thinking
<1>3. ActOK(r) => planner[r].pc = "act"
  BY DEF ActOK, Acting
<1> QED BY <1>1, <1>2, <1>3 DEF RunOK, IdlePlanner, Observing

LEMMA SameRun ==
    ASSUME NEW q \in DispatchRuns, RunOK(q), planner'[q] = planner[q], shipments' = shipments
    PROVE  RunOK(q)'
<1>1. ThinkOK(q) => ThinkOK(q)'
  BY DEF ThinkOK
<1>2. ActOK(q) => ActOK(q)'
  BY DEF ActOK
<1>3. \A orders : Fresh(q, orders) => Fresh(q, orders)'
  BY DEF Fresh
<1>4. \A n : Shipped(q, n) => Shipped(q, n)'
  BY DEF Shipped
<1>5. planner[q] \in Observing => planner'[q] \in Observing /\ planner'[q].pending_orders = planner[q].pending_orders
  OBVIOUS
<1> QED BY <1>1, <1>2, <1>3, <1>4, <1>5 DEF RunOK

LEMMA OneRun ==
    ASSUME IInv, NEW r \in DispatchRuns, NEW new, planner' = [planner EXCEPT ![r] = new],
           UNCHANGED <<status, available, shipments, traffic>>, RunOK(r)'
    PROVE  IInv'
<1>1. TypesOK' /\ ShipmentsOK' /\ LoadsFit' /\ DoubleDispatchOnlyByOverlap'
  BY DEF IInv, TypesOK, ShipmentsOK, LoadsFit, DoubleDispatchOnlyByOverlap
<1>2. ASSUME NEW q \in DispatchRuns, q # r PROVE RunOK(q)'
  <2>1. planner'[q] = planner[q] /\ RunOK(q)
    BY <1>2 DEF IInv, TypesOK
  <2> QED BY <2>1, SameRun
<1> QED BY <1>1, <1>2 DEF IInv

LEMMA ObserveOrdersIInv ==
    ASSUME IInv, NEW r \in DispatchRuns, ObserveOrders(r)
    PROVE  IInv'
<1>1. PICK pending, new :
          /\ pending = {o \in Orders : status[o] = "pending"}
          /\ new = [pc |-> "observe", seen |-> Len(shipments), pending_orders |-> pending]
  OBVIOUS
<1>2. planner' = [planner EXCEPT ![r] = new] /\ UNCHANGED <<status, available, shipments, traffic>>
  BY <1>1 DEF ObserveOrders
<1>3. shipments \in Seq(ShipmentType) /\ planner'[r] = new
  BY <1>2 DEF IInv, TypesOK
<1>4. \A j \in 1..Len(shipments) : shipments[j].order \notin pending
  BY <1>1 DEF IInv, ShipmentsOK
<1>5. new \in Observing /\ new.seen = Len(shipments) /\ new.pending_orders = pending
  BY <1>1, <1>3 DEF Observing
<1>6. Fresh(r, pending)' /\ Shipped(r, 0)'
  <2>1. \A j \in 1..Len(shipments') : shipments'[j].order \notin pending /\ ~(planner'[r].seen < j)
    BY <1>2, <1>3, <1>4, <1>5
  <2> QED BY <1>2, <1>3, <1>5, <2>1 DEF Fresh, Shipped
<1>7. RunOK(r)'
  BY <1>3, <1>5, <1>6 DEF RunOK
<1> QED BY <1>2, <1>7, OneRun

LEMMA ObserveFleetIInv ==
    ASSUME IInv, NEW r \in DispatchRuns, ObserveFleet(r)
    PROVE  IInv'
<1>1. PICK orders, seen, fleet, observation, new :
          /\ orders = planner[r].pending_orders /\ seen = planner[r].seen /\ fleet = available
          /\ observation = [pending_orders   |-> orders,
                            available_trucks |-> fleet,
                            active_shipments |-> Len(shipments),
                            traffic_factor   |-> traffic]
          /\ new = [pc |-> "think", seen |-> seen, observation |-> observation,
                    orders |-> orders, trucks |-> fleet, plan |-> <<>>]
  OBVIOUS
<1>2. planner' = [planner EXCEPT ![r] = new] /\ UNCHANGED <<status, available, shipments, traffic>>
  BY <1>1 DEF ObserveFleet
<1>3. planner[r] \in Observing /\ Fresh(r, orders) /\ Shipped(r, 0)
  BY <1>1, ByPlace DEF ObserveFleet
<1>4. shipments \in Seq(ShipmentType) /\ planner'[r] = new /\ fleet \subseteq Trucks /\ traffic \in Nat
      /\ orders \in SUBSET Orders /\ seen \in Nat
  BY <1>1, <1>2, <1>3 DEF IInv, TypesOK, Observing
<1>5. /\ observation \in Observations /\ observation.pending_orders = orders
      /\ observation.available_trucks = fleet
  BY <1>1, <1>4 DEF Observations
<1>6. /\ new \in Thinking /\ new.seen = seen /\ new.observation = observation
      /\ new.orders = orders /\ new.trucks = fleet /\ new.plan = <<>>
  <2>1. <<>> \in Seq(Assignments)
    OBVIOUS
  <2> QED BY <1>1, <1>4, <1>5, <2>1 DEF Thinking
<1>7. ThinkOK(r)'
  <2>1. Planned(<<>>, orders, fleet, observation)
    BY <1>5 DEF Planned, PlanOK, Settled
  <2> QED BY <1>4, <1>5, <1>6, <2>1 DEF ThinkOK
<1>8. Fresh(r, orders)' /\ Shipped(r, 0)'
  BY <1>1, <1>2, <1>3, <1>4, <1>6 DEF Fresh, Shipped
<1>9. RunOK(r)'
  BY <1>4, <1>5, <1>6, <1>7, <1>8 DEF RunOK
<1> QED BY <1>2, <1>9, OneRun

\* A step of think(), which has settled what is no longer in orders.
LEMMA ThinkStep ==
    ASSUME IInv, NEW r \in DispatchRuns, planner[r].pc = "think",
           NEW observation, NEW orders, NEW trucks, NEW plan, NEW new,
           observation = planner[r].observation,
           orders \subseteq planner[r].orders, trucks \subseteq planner[r].trucks,
           new \in Thinking, new.seen = planner[r].seen, new.observation = observation,
           new.orders = orders, new.trucks = trucks, new.plan = plan,
           planner' = [planner EXCEPT ![r] = new],
           UNCHANGED <<status, available, shipments, traffic>>,
           Planned(plan, orders, trucks, observation)
    PROVE  IInv'
<1>1. /\ ThinkOK(r) /\ Fresh(r, observation.pending_orders) /\ Shipped(r, 0)
      /\ planner'[r] = new
  BY ByPlace DEF IInv, TypesOK
<1>2. ThinkOK(r)'
  <2>1. /\ planner[r].orders \subseteq observation.pending_orders
        /\ planner[r].trucks \subseteq observation.available_trucks
    BY <1>1 DEF ThinkOK
  <2> QED BY <1>1, <2>1 DEF ThinkOK
<1>3. Fresh(r, observation.pending_orders)' /\ Shipped(r, 0)'
  BY <1>1 DEF Fresh, Shipped
<1>4. RunOK(r)'
  BY <1>1, <1>2, <1>3 DEF RunOK
<1> QED BY <1>4, OneRun

LEMMA PlanOrderIInv ==
    ASSUME IInv, NEW r \in DispatchRuns, PlanOrder(r)
    PROVE  IInv'
<1>1. PICK o \in planner[r].orders : \E t \in PlanRoute(o, planner[r].trucks) :
          planner' = [planner EXCEPT ![r].orders = @ \ {o}, ![r].trucks = @ \ {t},
                             ![r].plan = Append(@, [order |-> o, truck |-> t])]
  BY DEF PlanOrder
<1>2. PICK t \in PlanRoute(o, planner[r].trucks) :
          planner' = [planner EXCEPT ![r].orders = @ \ {o}, ![r].trucks = @ \ {t},
                             ![r].plan = Append(@, [order |-> o, truck |-> t])]
  BY <1>1
<1>3. planner[r].pc = "think" /\ ThinkOK(r) /\ UNCHANGED <<status, available, shipments, traffic>>
  BY ByPlace DEF PlanOrder
<1>4. PICK observation, plan, entry :
          /\ observation = planner[r].observation /\ plan = planner[r].plan
          /\ entry = [order |-> o, truck |-> t]
  OBVIOUS
<1>5. /\ planner[r] \in Thinking /\ plan \in Seq(Assignments) /\ o \in Orders
      /\ planner[r].trucks \subseteq Trucks /\ PlanOK(plan)
      /\ o \in observation.pending_orders
      /\ \A i \in 1..Len(plan) : /\ plan[i].order \in observation.pending_orders \ planner[r].orders
                                 /\ plan[i].truck \notin planner[r].trucks
      /\ \A u \in observation.available_trucks \ planner[r].trucks :
            \E i \in 1..Len(plan) : plan[i].truck = u
      /\ Settled(plan, observation.pending_orders \ planner[r].orders, observation.available_trucks)
  BY <1>3, <1>4 DEF ThinkOK, Thinking, Planned
<1>6. t \in planner[r].trucks /\ Capacity[t] >= Tons[o]
  BY <1>5, RouteFound DEF Fitting
<1>7. entry \in Assignments /\ entry.order = o /\ entry.truck = t
  BY <1>4, <1>5, <1>6 DEF Assignments
<1>8. PICK longer : longer = Append(plan, entry)
  OBVIOUS
<1>9. /\ longer \in Seq(Assignments) /\ Len(longer) = Len(plan) + 1
      /\ longer[Len(plan) + 1] = entry /\ \A i \in 1..Len(plan) : longer[i] = plan[i]
      /\ Len(plan) \in Nat
  BY <1>5, <1>7, <1>8
<1>10. PICK orders, trucks : orders = planner[r].orders \ {o} /\ trucks = planner[r].trucks \ {t}
  OBVIOUS
<1> DEFINE new == [planner[r] EXCEPT !.orders = orders, !.trucks = trucks, !.plan = longer]
<1>11. planner' = [planner EXCEPT ![r] = new]
  BY <1>2, <1>4, <1>8, <1>10 DEF IInv, TypesOK
<1>12. /\ new \in Thinking /\ new.seen = planner[r].seen /\ new.observation = observation
       /\ new.orders = orders /\ new.trucks = trucks /\ new.plan = longer
       /\ orders \subseteq planner[r].orders /\ trucks \subseteq planner[r].trucks
  <2>1. orders \subseteq Orders /\ trucks \subseteq Trucks
    BY <1>5, <1>10 DEF Thinking
  <2>2. new \in Thinking
    BY <1>5, <1>9, <2>1 DEF Thinking
  <2>3. /\ new.seen = planner[r].seen /\ new.observation = observation
        /\ new.orders = orders /\ new.trucks = trucks /\ new.plan = longer
    BY <1>4, <1>5 DEF Thinking
  <2> QED BY <1>10, <2>2, <2>3
<1>13. PlanOK(longer)
  <2>1. \A i \in 1..Len(plan) : longer[i].order # entry.order /\ longer[i].truck # entry.truck
    BY <1>5, <1>6, <1>7, <1>9
  <2>2. \A i \in 1..Len(longer) : i \in 1..Len(plan) \/ i = Len(plan) + 1
    BY <1>9
  <2>3. \A i \in 1..Len(longer) : Capacity[longer[i].truck] >= Tons[longer[i].order]
    BY <1>5, <1>6, <1>7, <1>9, <2>2 DEF PlanOK
  <2>4. \A i, j \in 1..Len(longer) :
            longer[i].order = longer[j].order \/ longer[i].truck = longer[j].truck => i = j
    BY <1>5, <1>9, <2>1, <2>2 DEF PlanOK
  <2> QED BY <2>3, <2>4 DEF PlanOK
<1>14. \A i \in 1..Len(longer) : /\ longer[i].order \in observation.pending_orders \ orders
                                 /\ longer[i].truck \notin trucks
  BY <1>5, <1>6, <1>7, <1>9, <1>10
<1>15. \A u \in observation.available_trucks \ trucks : \E i \in 1..Len(longer) : longer[i].truck = u
  BY <1>5, <1>7, <1>9, <1>10
<1>16. Settled(longer, observation.pending_orders \ orders, observation.available_trucks)
  <2>1. ASSUME NEW p \in observation.pending_orders \ orders, NEW u \in observation.available_trucks,
               Capacity[u] >= Tons[p]
        PROVE  \E i \in 1..Len(longer) : longer[i].order = p \/ longer[i].truck = u
    <3>1. CASE p = o
      BY <1>7, <1>9, <3>1
    <3>2. CASE p # o
      <4>1. PICK i \in 1..Len(plan) : plan[i].order = p \/ plan[i].truck = u
        BY <1>5, <1>10, <2>1, <3>2 DEF Settled
      <4> QED BY <1>9, <4>1
    <3> QED BY <3>1, <3>2
  <2> QED BY <2>1 DEF Settled
<1>17. Planned(longer, orders, trucks, observation)
  BY <1>13, <1>14, <1>15, <1>16 DEF Planned
<1> HIDE DEF new
<1> QED BY <1>3, <1>4, <1>11, <1>12, <1>17, ThinkStep

LEMMA LeaveOrderIInv ==
    ASSUME IInv, NEW r \in DispatchRuns, LeaveOrder(r)
    PROVE  IInv'
<1>1. PICK o \in planner[r].orders :
          /\ PlanRoute(o, planner[r].trucks) = {}
          /\ planner' = [planner EXCEPT ![r].orders = @ \ {o}]
  BY DEF LeaveOrder
<1>2. planner[r].pc = "think" /\ ThinkOK(r) /\ UNCHANGED <<status, available, shipments, traffic>>
  BY ByPlace DEF LeaveOrder
<1>3. PICK observation, plan, trucks, orders :
          /\ observation = planner[r].observation /\ plan = planner[r].plan
          /\ trucks = planner[r].trucks /\ orders = planner[r].orders \ {o}
  OBVIOUS
<1>4. /\ planner[r] \in Thinking /\ plan \in Seq(Assignments) /\ o \in Orders
      /\ trucks \subseteq Trucks /\ PlanOK(plan)
      /\ \A i \in 1..Len(plan) : /\ plan[i].order \in observation.pending_orders \ planner[r].orders
                                 /\ plan[i].truck \notin trucks
      /\ \A u \in observation.available_trucks \ trucks :
            \E i \in 1..Len(plan) : plan[i].truck = u
      /\ Settled(plan, observation.pending_orders \ planner[r].orders, observation.available_trucks)
  BY <1>2, <1>3 DEF ThinkOK, Thinking, Planned
<1>5. \A u \in trucks : ~(Capacity[u] >= Tons[o])
  BY <1>1, <1>3, <1>4, RouteFound DEF Fitting
<1> DEFINE new == [planner[r] EXCEPT !.orders = orders]
<1>6. planner' = [planner EXCEPT ![r] = new]
  BY <1>1, <1>3 DEF IInv, TypesOK
<1>7. /\ new \in Thinking /\ new.seen = planner[r].seen /\ new.observation = observation
      /\ new.orders = orders /\ new.trucks = trucks /\ new.plan = plan
      /\ orders \subseteq planner[r].orders /\ trucks \subseteq planner[r].trucks
  <2>1. orders \subseteq Orders
    BY <1>3, <1>4 DEF Thinking
  <2>2. new \in Thinking
    BY <1>4, <2>1 DEF Thinking
  <2>3. /\ new.seen = planner[r].seen /\ new.observation = observation
        /\ new.orders = orders /\ new.trucks = trucks /\ new.plan = plan
    BY <1>3, <1>4 DEF Thinking
  <2> QED BY <1>3, <2>2, <2>3
<1>8. Settled(plan, observation.pending_orders \ orders, observation.available_trucks)
  <2>1. ASSUME NEW p \in observation.pending_orders \ orders, NEW u \in observation.available_trucks,
               Capacity[u] >= Tons[p]
        PROVE  \E i \in 1..Len(plan) : plan[i].order = p \/ plan[i].truck = u
    <3>1. CASE p = o
      BY <1>4, <1>5, <2>1, <3>1
    <3>2. CASE p # o
      BY <1>3, <1>4, <2>1, <3>2 DEF Settled
    <3> QED BY <3>1, <3>2
  <2> QED BY <2>1 DEF Settled
<1>9. \A i \in 1..Len(plan) :
          plan[i].order \in observation.pending_orders \ orders /\ plan[i].truck \notin trucks
  BY <1>3, <1>4
<1>10. Planned(plan, orders, trucks, observation)
  BY <1>4, <1>8, <1>9 DEF Planned
<1> HIDE DEF new
<1> QED BY <1>2, <1>3, <1>6, <1>7, <1>10, ThinkStep

\* Nothing of the repository puts "_active_shipment_ids" into an observation.
LEMMA NoReroutes == \A observation \in Observations : Reroutes(observation) = <<>>
BY DEF Reroutes, Observations

LEMMA EndThinkIInv ==
    ASSUME IInv, NEW r \in DispatchRuns, EndThink(r)
    PROVE  IInv'
<1>1. /\ planner[r].pc = "think" /\ planner[r].orders = {} /\ ThinkOK(r)
      /\ Fresh(r, planner[r].observation.pending_orders) /\ Shipped(r, 0)
      /\ UNCHANGED <<status, available, shipments, traffic>>
  BY ByPlace DEF EndThink
<1>2. PICK seen, observation, plan, new :
          /\ seen = planner[r].seen /\ observation = planner[r].observation /\ plan = planner[r].plan
          /\ new = [pc |-> "act", seen |-> seen, observation |-> observation, plan |-> plan,
                    done |-> 0, reroutes |-> Reroutes(observation)]
  OBVIOUS
<1>3. planner' = [planner EXCEPT ![r] = new] /\ planner'[r] = new
  BY <1>2 DEF EndThink, IInv, TypesOK
<1>4. planner[r] \in Thinking /\ observation \in Observations
  BY <1>1, <1>2 DEF ThinkOK, Thinking
<1>5. /\ new \in Acting /\ new.seen = seen /\ new.observation = observation /\ new.plan = plan
      /\ new.done = 0
  BY <1>2, <1>4, NoReroutes DEF Thinking, Acting
<1>6. ActOK(r)'
  <2>1. /\ PlanOK(plan) /\ Settled(plan, observation.pending_orders, observation.available_trucks)
        /\ \A i \in 1..Len(plan) : plan[i].order \in observation.pending_orders
    BY <1>1, <1>2 DEF ThinkOK, Planned, Settled
  <2> QED BY <1>3, <1>5, <2>1 DEF ActOK
<1>7. Fresh(r, observation.pending_orders)' /\ Shipped(r, 0)'
  BY <1>1, <1>2, <1>3, <1>5 DEF Fresh, Shipped
<1>8. RunOK(r)'
  BY <1>3, <1>5, <1>6, <1>7 DEF RunOK
<1> QED BY <1>1, <1>3, <1>8, OneRun

LEMMA EndIInv ==
    ASSUME IInv, NEW r \in DispatchRuns, EndRun(r)
    PROVE  IInv'
<1>1. planner'[r] = IdlePlanner
  BY DEF EndRun, IInv, TypesOK
<1>2. RunOK(r)'
  BY <1>1 DEF RunOK
<1> QED BY <1>2, OneRun DEF EndRun

\* A step of perform_action: the run goes on to the next entry of its plan.
LEMMA NextEntry ==
    ASSUME IInv, NEW r \in DispatchRuns, planner[r].pc = "act", planner[r].done < Len(planner[r].plan),
           planner' = [planner EXCEPT ![r].done = @ + 1]
    PROVE  /\ planner'[r] \in Acting /\ planner'[r].seen = planner[r].seen
           /\ planner'[r].observation = planner[r].observation /\ planner'[r].plan = planner[r].plan
           /\ planner'[r].done = planner[r].done + 1
           /\ \A q \in DispatchRuns \ {r} : planner'[q] = planner[q]
           /\ DOMAIN planner' = DispatchRuns
<1>1. planner[r] \in Acting
  BY ByPlace DEF ActOK
<1>2. PICK done : done = planner[r].done + 1
  OBVIOUS
<1> DEFINE new == [planner[r] EXCEPT !.done = done]
<1>3. planner' = [planner EXCEPT ![r] = new]
  BY <1>2
<1>4. new \in Acting
  BY <1>1, <1>2 DEF Acting
<1>5. /\ new.seen = planner[r].seen /\ new.observation = planner[r].observation /\ new.plan = planner[r].plan
      /\ new.done = done
  BY <1>1 DEF Acting
<1> HIDE DEF new
<1> QED BY <1>2, <1>3, <1>4, <1>5 DEF IInv, TypesOK

LEMMA SkipIInv ==
    ASSUME IInv, NEW r \in DispatchRuns, Skip(r)
    PROVE  IInv'
<1>1. /\ planner[r].pc = "act" /\ planner[r].done < Len(planner[r].plan)
      /\ planner' = [planner EXCEPT ![r].done = @ + 1]
      /\ UNCHANGED <<status, available, shipments, traffic>>
  BY DEF Skip
<1>2. /\ planner'[r] \in Acting /\ planner'[r].seen = planner[r].seen
      /\ planner'[r].observation = planner[r].observation /\ planner'[r].plan = planner[r].plan
      /\ planner'[r].done = planner[r].done + 1
      /\ \A q \in DispatchRuns \ {r} : planner'[q] = planner[q]
      /\ DOMAIN planner' = DispatchRuns
  BY <1>1, NextEntry
<1>3. /\ ActOK(r) /\ Fresh(r, planner[r].observation.pending_orders)
      /\ Shipped(r, planner[r].done)
  BY <1>1, ByPlace
<1>4. ActOK(r)'
  BY <1>2, <1>3 DEF ActOK
<1>5. Fresh(r, planner[r].observation.pending_orders)'
  BY <1>1, <1>2, <1>3 DEF Fresh
<1>6. Shipped(r, planner[r].done)'
  <2>1. planner[r].done \in Nat
    BY <1>3 DEF ActOK, Acting
  <2>2. \A i \in 1..planner[r].done : i \in 1..planner'[r].done
    BY <1>2, <2>1
  <2> QED BY <1>1, <1>2, <1>3, <2>2 DEF Shipped
<1>7. RunOK(r)'
  BY <1>4, <1>5, <1>6 DEF RunOK
<1>8. ASSUME NEW q \in DispatchRuns, q # r PROVE RunOK(q)'
  <2>1. planner'[q] = planner[q] /\ RunOK(q) /\ shipments' = shipments
    BY <1>1, <1>2, <1>8 DEF IInv
  <2> QED BY <2>1, SameRun
<1>9. TypesOK' /\ ShipmentsOK' /\ LoadsFit' /\ DoubleDispatchOnlyByOverlap'
  BY <1>1, <1>2 DEF IInv, TypesOK, ShipmentsOK, LoadsFit, DoubleDispatchOnlyByOverlap
<1> QED BY <1>7, <1>8, <1>9 DEF IInv

\* Runs that looked earlier still know of no shipment of what they observed.
LEMMA Shipping ==
    ASSUME NEW q \in DispatchRuns, RunOK(q), planner'[q] = planner[q],
           shipments \in Seq(ShipmentType), NEW row \in ShipmentType, row.run # q,
           shipments' = Append(shipments, row)
    PROVE  RunOK(q)'
<1>1. /\ Len(shipments) \in Nat /\ Len(shipments') = Len(shipments) + 1
      /\ shipments'[Len(shipments) + 1] = row
      /\ \A j \in 1..Len(shipments) : shipments'[j] = shipments[j]
  OBVIOUS
<1>2. ThinkOK(q) => ThinkOK(q)'
  BY DEF ThinkOK
<1>3. ActOK(q) => ActOK(q)'
  BY DEF ActOK
<1>4. /\ planner[q] \in Observing => planner[q].seen \in Nat
      /\ ThinkOK(q) => planner[q].seen \in Nat
      /\ ActOK(q) => planner[q].seen \in Nat
  BY DEF Observing, ThinkOK, Thinking, ActOK, Acting
<1>5. ASSUME NEW orders, planner[q].seen \in Nat, Fresh(q, orders) PROVE Fresh(q, orders)'
  <2>1. ASSUME NEW j \in 1..Len(shipments'), shipments'[j].order \in orders
        PROVE  planner[q].seen < j
    <3>1. CASE j \in 1..Len(shipments)
      BY <1>1, <1>5, <2>1, <3>1 DEF Fresh
    <3>2. CASE j = Len(shipments) + 1
      BY <1>1, <1>5, <3>2 DEF Fresh
    <3> QED BY <1>1, <3>1, <3>2
  <2> QED BY <1>1, <1>5, <2>1 DEF Fresh
<1>6. ASSUME NEW n, Shipped(q, n) PROVE Shipped(q, n)'
  <2>1. ASSUME NEW j \in 1..Len(shipments'), shipments'[j].run = q, planner[q].seen < j
        PROVE  \E i \in 1..n : planner[q].plan[i].order = shipments'[j].order
    <3>1. j \in 1..Len(shipments)
      BY <1>1, <2>1
    <3> QED BY <1>1, <1>6, <2>1, <3>1 DEF Shipped
  <2> QED BY <2>1 DEF Shipped
<1>7. planner[q] = IdlePlanner => RunOK(q)'
  BY DEF RunOK
<1>8. planner[q] \in Observing /\ Fresh(q, planner[q].pending_orders) /\ Shipped(q, 0) => RunOK(q)'
  BY <1>4, <1>5, <1>6 DEF RunOK
<1>9. ThinkOK(q) /\ Fresh(q, planner[q].observation.pending_orders) /\ Shipped(q, 0) => RunOK(q)'
  BY <1>2, <1>4, <1>5, <1>6 DEF RunOK
<1>10. ActOK(q) /\ Fresh(q, planner[q].observation.pending_orders) /\ Shipped(q, planner[q].done)
         => RunOK(q)'
  BY <1>3, <1>4, <1>5, <1>6 DEF RunOK
<1> QED BY <1>7, <1>8, <1>9, <1>10 DEF RunOK

LEMMA PerformIInv ==
    ASSUME IInv, NEW r \in DispatchRuns, PerformDispatch(r)
    PROVE  IInv'
<1>1. PICK entry, seen, row :
          /\ entry = planner[r].plan[planner[r].done + 1] /\ seen = planner[r].seen
          /\ row = [order |-> entry.order, truck |-> entry.truck, run |-> r, seen |-> seen]
  OBVIOUS
<1>2. /\ planner[r].pc = "act" /\ planner[r].done < Len(planner[r].plan)
      /\ shipments' = Append(shipments, row)
      /\ status' = [status EXCEPT ![entry.order] = "dispatched"]
      /\ planner' = [planner EXCEPT ![r].done = @ + 1]
      /\ UNCHANGED <<available, traffic>>
  BY <1>1 DEF PerformDispatch, NextAssignment
<1>3. /\ planner'[r] \in Acting /\ planner'[r].seen = seen
      /\ planner'[r].observation = planner[r].observation /\ planner'[r].plan = planner[r].plan
      /\ planner'[r].done = planner[r].done + 1
      /\ \A q \in DispatchRuns \ {r} : planner'[q] = planner[q]
      /\ DOMAIN planner' = DispatchRuns
  BY <1>1, <1>2, NextEntry
<1>4. /\ ActOK(r) /\ Fresh(r, planner[r].observation.pending_orders)
      /\ Shipped(r, planner[r].done) /\ planner[r] \in Acting
  BY <1>2, ByPlace DEF ActOK
<1>5. PICK plan, done, pending :
          plan = planner[r].plan /\ done = planner[r].done /\ pending = planner[r].observation.pending_orders
  OBVIOUS
<1>6. /\ plan \in Seq(Assignments) /\ done \in Nat /\ seen \in Nat /\ done + 1 \in 1..Len(plan)
      /\ entry = plan[done + 1] /\ PlanOK(plan) /\ entry.order \in pending
  BY <1>1, <1>2, <1>4, <1>5 DEF ActOK, Acting
<1>7. entry \in Assignments
  BY <1>6
<1>8. /\ row \in ShipmentType /\ row.order = entry.order /\ row.truck = entry.truck
      /\ row.run = r /\ row.seen = seen
  BY <1>1, <1>6, <1>7 DEF ShipmentType, Assignments
<1>9. shipments \in Seq(ShipmentType) /\ status \in [Orders -> Statuses] /\ entry.order \in Orders
  BY <1>7 DEF IInv, TypesOK, Assignments
<1>10. /\ Len(shipments) \in Nat /\ Len(shipments') = Len(shipments) + 1
       /\ shipments' \in Seq(ShipmentType) /\ shipments'[Len(shipments) + 1] = row
       /\ \A j \in 1..Len(shipments) : shipments'[j] = shipments[j]
  BY <1>2, <1>8, <1>9
<1>11. TypesOK'
  BY <1>2, <1>3, <1>9, <1>10 DEF IInv, TypesOK, Statuses
<1>12. ShipmentsOK'
  <2>1. ASSUME NEW k \in 1..Len(shipments') PROVE status'[shipments'[k].order] = "dispatched"
    <3>1. CASE k \in 1..Len(shipments)
      <4>1. shipments[k] \in ShipmentType /\ status[shipments[k].order] = "dispatched"
        BY <1>9, <3>1 DEF IInv, ShipmentsOK
      <4>2. shipments[k].order \in Orders
        BY <4>1 DEF ShipmentType
      <4> QED BY <1>2, <1>9, <1>10, <3>1, <4>1, <4>2
    <3>2. CASE k = Len(shipments) + 1
      BY <1>2, <1>8, <1>9, <1>10, <3>2
    <3> QED BY <1>10, <3>1, <3>2
  <2> QED BY <2>1 DEF ShipmentsOK
<1>13. LoadsFit'
  <2>1. Capacity[row.truck] >= Tons[row.order]
    BY <1>6, <1>8 DEF PlanOK
  <2>2. \A k \in 1..Len(shipments) : Capacity[shipments[k].truck] >= Tons[shipments[k].order]
    BY <1>9 DEF IInv, LoadsFit
  <2>3. DOMAIN shipments' = 1..(Len(shipments) + 1)
    BY <1>10
  <2> QED BY <1>10, <2>1, <2>2, <2>3 DEF LoadsFit
<1>14. ASSUME NEW j \in 1..Len(shipments), shipments[j].order = row.order
       PROVE  seen < j /\ shipments[j].run # r
  <2>1. seen < j
    BY <1>1, <1>4, <1>5, <1>6, <1>8, <1>14 DEF Fresh
  <2>2. shipments[j].run # r
    <3>1. SUFFICES ASSUME shipments[j].run = r PROVE FALSE
      OBVIOUS
    <3>2. PICK i \in 1..done : plan[i].order = shipments[j].order
      BY <1>1, <1>4, <1>5, <2>1, <3>1 DEF Shipped
    <3>3. i \in 1..Len(plan) /\ i # done + 1 /\ plan[i].order = plan[done + 1].order
      BY <1>6, <1>8, <1>14, <3>2
    <3> QED BY <1>6, <3>3 DEF PlanOK
  <2> QED BY <2>1, <2>2
<1>15. DoubleDispatchOnlyByOverlap'
  <2>1. ASSUME NEW j \in 1..Len(shipments'), NEW k \in 1..Len(shipments'), j < k,
               shipments'[j].order = shipments'[k].order
        PROVE  shipments'[k].run # shipments'[j].run /\ shipments'[k].seen < j
    <3>1. j \in 1..Len(shipments)
      BY <1>10, <2>1
    <3>2. CASE k \in 1..Len(shipments)
      BY <1>9, <1>10, <2>1, <3>1, <3>2 DEF IInv, DoubleDispatchOnlyByOverlap
    <3>3. CASE k = Len(shipments) + 1
      BY <1>8, <1>10, <1>14, <2>1, <3>1, <3>3
    <3> QED BY <1>10, <3>2, <3>3
  <2>2. DOMAIN shipments' = 1..Len(shipments')
    BY <1>10
  <2> QED BY <2>1, <2>2 DEF DoubleDispatchOnlyByOverlap
<1>16. RunOK(r)'
  <2>1. ActOK(r)'
    BY <1>3, <1>4 DEF ActOK
  <2>2. Fresh(r, pending)'
    <3>1. ASSUME NEW j \in 1..Len(shipments'), shipments'[j].order \in pending PROVE seen < j
      <4>1. CASE j \in 1..Len(shipments)
        BY <1>1, <1>4, <1>5, <1>10, <3>1, <4>1 DEF Fresh
      <4>2. CASE j = Len(shipments) + 1
        BY <1>1, <1>4, <1>6, <1>10, <4>2 DEF Fresh
      <4> QED BY <1>10, <4>1, <4>2
    <3> QED BY <1>1, <1>3, <1>4, <1>6, <1>10, <3>1 DEF Fresh
  <2>3. Shipped(r, planner[r].done)'
    <3>1. ASSUME NEW j \in 1..Len(shipments'), shipments'[j].run = r, seen < j
          PROVE  \E i \in 1..(done + 1) : plan[i].order = shipments'[j].order
      <4>1. CASE j \in 1..Len(shipments)
        <5>1. PICK i \in 1..done : plan[i].order = shipments[j].order
          BY <1>1, <1>4, <1>5, <1>10, <3>1, <4>1 DEF Shipped
        <5> QED BY <1>6, <1>10, <4>1, <5>1
      <4>2. CASE j = Len(shipments) + 1
        BY <1>6, <1>8, <1>10, <4>2
      <4> QED BY <1>10, <4>1, <4>2
    <3> QED BY <1>3, <1>5, <3>1 DEF Shipped
  <2>4. planner'[r].observation.pending_orders = pending
    BY <1>3, <1>5
  <2> QED BY <2>1, <2>2, <2>3, <2>4 DEF RunOK
<1>17. ASSUME NEW q \in DispatchRuns, q # r PROVE RunOK(q)'
  <2>1. RunOK(q) /\ planner'[q] = planner[q] /\ row.run # q
    BY <1>3, <1>8, <1>17 DEF IInv
  <2> QED BY <1>2, <1>8, <1>9, <2>1, Shipping
<1> QED BY <1>11, <1>12, <1>13, <1>15, <1>16, <1>17 DEF IInv

-----------------------------------------------------------------------------
(* The other callers, and the whole specification                          *)

LEMMA SetTrafficIInv ==
    ASSUME IInv, NEW factor \in Factors, SetTraffic(factor)
    PROVE  IInv'
<1>1. Clamped(factor) \in Nat
  BY BoundsAssumption DEF Clamped
<1>2. UNCHANGED <<status, available, shipments, planner>>
  BY DEF SetTraffic
<1>3. TypesOK' /\ ShipmentsOK' /\ LoadsFit' /\ DoubleDispatchOnlyByOverlap'
  BY <1>1, <1>2 DEF SetTraffic, IInv, TypesOK, ShipmentsOK, LoadsFit, DoubleDispatchOnlyByOverlap
<1>4. \A r \in DispatchRuns : RunOK(r)'
  BY <1>2, SameRun DEF IInv
<1> QED BY <1>3, <1>4 DEF IInv

LEMMA EnterOrderIInv ==
    ASSUME IInv, NEW o \in Orders, EnterOrder(o)
    PROVE  IInv'
<1>1. UNCHANGED <<available, shipments, traffic, planner>> /\ status[o] = "absent"
      /\ status' = [status EXCEPT ![o] = "pending"]
  BY DEF EnterOrder
<1>2. TypesOK'
  BY <1>1 DEF IInv, TypesOK, Statuses
<1>3. ShipmentsOK'
  <2>1. \A k \in 1..Len(shipments) : shipments[k].order \in Orders
    <3>1. \A k \in 1..Len(shipments) : shipments[k] \in ShipmentType
      BY DEF IInv, TypesOK
    <3> QED BY <3>1 DEF ShipmentType
  <2> QED BY <1>1, <2>1 DEF IInv, TypesOK, ShipmentsOK
<1>4. LoadsFit' /\ DoubleDispatchOnlyByOverlap'
  BY <1>1 DEF IInv, LoadsFit, DoubleDispatchOnlyByOverlap
<1>5. \A r \in DispatchRuns : RunOK(r)'
  BY <1>1, SameRun DEF IInv
<1> QED BY <1>2, <1>3, <1>4, <1>5 DEF IInv

LEMMA ChangeFleetIInv ==
    ASSUME IInv, NEW t \in Trucks, ChangeFleet(t)
    PROVE  IInv'
<1>1. UNCHANGED <<status, shipments, traffic, planner>>
  BY DEF ChangeFleet
<1>2. TypesOK' /\ ShipmentsOK' /\ LoadsFit' /\ DoubleDispatchOnlyByOverlap'
  BY <1>1 DEF ChangeFleet, IInv, TypesOK, ShipmentsOK, LoadsFit, DoubleDispatchOnlyByOverlap
<1>3. \A r \in DispatchRuns : RunOK(r)'
  BY <1>1, SameRun DEF IInv
<1> QED BY <1>2, <1>3 DEF IInv

LEMMA InitIInv == DispatchInit => IInv
<1> SUFFICES ASSUME DispatchInit PROVE IInv
  OBVIOUS
<1>1. TypesOK
  BY DEF DispatchInit, TypesOK, Statuses
<1>2. ShipmentsOK /\ LoadsFit /\ DoubleDispatchOnlyByOverlap
  BY DEF DispatchInit, ShipmentsOK, LoadsFit, DoubleDispatchOnlyByOverlap
<1>3. \A r \in DispatchRuns : RunOK(r)
  BY DEF DispatchInit, RunOK
<1> QED BY <1>1, <1>2, <1>3 DEF IInv

LEMMA NextIInv == IInv /\ [DispatchNext]_dispatchVars => IInv'
<1> SUFFICES ASSUME IInv, [DispatchNext]_dispatchVars PROVE IInv'
  OBVIOUS
<1>1. ASSUME NEW r \in DispatchRuns, ObserveOrders(r) \/ ObserveFleet(r) PROVE IInv'
  BY <1>1, ObserveOrdersIInv, ObserveFleetIInv
<1>2. ASSUME NEW r \in DispatchRuns, PlanOrder(r) \/ LeaveOrder(r) \/ EndThink(r) PROVE IInv'
  BY <1>2, PlanOrderIInv, LeaveOrderIInv, EndThinkIInv
<1>3. ASSUME NEW r \in DispatchRuns, PerformDispatch(r) \/ Skip(r) \/ EndRun(r) PROVE IInv'
  BY <1>3, PerformIInv, SkipIInv, EndIInv
<1>4. ASSUME NEW factor \in Factors, SetTraffic(factor) PROVE IInv'
  BY <1>4, SetTrafficIInv
<1>5. ASSUME NEW o \in Orders, EnterOrder(o) PROVE IInv'
  BY <1>5, EnterOrderIInv
<1>6. ASSUME NEW t \in Trucks, ChangeFleet(t) PROVE IInv'
  BY <1>6, ChangeFleetIInv
<1>7. ASSUME UNCHANGED dispatchVars PROVE IInv'
  <2>1. UNCHANGED <<status, available, shipments, traffic, planner>>
    BY <1>7 DEF dispatchVars
  <2>2. TypesOK' /\ ShipmentsOK' /\ LoadsFit' /\ DoubleDispatchOnlyByOverlap'
    BY <2>1 DEF IInv, TypesOK, ShipmentsOK, LoadsFit, DoubleDispatchOnlyByOverlap
  <2>3. \A r \in DispatchRuns : RunOK(r)'
    BY <2>1, SameRun DEF IInv
  <2> QED BY <2>2, <2>3 DEF IInv
<1> QED BY <1>1, <1>2, <1>3, <1>4, <1>5, <1>6, <1>7 DEF DispatchNext

THEOREM SpecIInv == DispatchSpec => []IInv
BY InitIInv, NextIInv, PTL DEF DispatchSpec

\* logistics_service.py:62-74 and logistics_agent.py:66-98: in whatever order a
\* run goes through the orders, and however the fleet changes meanwhile, its plan
\* is a matching that fits and that nothing could be added to, and every shipment
\* fits its truck.
THEOREM PlansFitTheLoads == DispatchSpec => []PlansFit
<1>1. IInv => PlansFit
  <2> SUFFICES ASSUME IInv PROVE PlansFit
    OBVIOUS
  <2>1. PlanIsMatching
    <3>1. ASSUME NEW r \in DispatchRuns, planner[r].pc \in {"think", "act"}
          PROVE  PlanOK(planner[r].plan) /\ planner[r].plan \in Seq(Assignments)
      BY <3>1, ByPlace DEF ThinkOK, ActOK, Thinking, Acting, Planned
    <3> QED BY <3>1 DEF PlanIsMatching, PlanOK
  <2>2. NothingLeftOut
    <3>1. ASSUME NEW r \in DispatchRuns, planner[r].pc = "act",
                 NEW o \in planner[r].observation.pending_orders,
                 NEW t \in planner[r].observation.available_trucks, Capacity[t] >= Tons[o]
          PROVE  \E a \in ToSet(planner[r].plan) : a.order = o \/ a.truck = t
      <4>1. ActOK(r) /\ planner[r].plan \in Seq(Assignments)
        BY <3>1, ByPlace DEF ActOK, Acting
      <4>2. PICK i \in 1..Len(planner[r].plan) : planner[r].plan[i].order = o \/ planner[r].plan[i].truck = t
        BY <3>1, <4>1 DEF ActOK, Settled
      <4>3. planner[r].plan[i] \in ToSet(planner[r].plan)
        BY <4>1 DEF ToSet
      <4> QED BY <4>2, <4>3
    <3> QED BY <3>1 DEF NothingLeftOut
  <2> QED BY <2>1, <2>2 DEF IInv, PlansFit
<1> QED BY <1>1, SpecIInv, PTL

\* logistics_agent.py:29, 119-139: an order is shipped again only by another run,
\* and only if that run had read the pending orders before the first shipment was
\* stored; two runs one after the other never do it.
THEOREM DoubleDispatchNeedsOverlap == DispatchSpec => []DoubleDispatchOnlyByOverlap
<1>1. IInv => DoubleDispatchOnlyByOverlap
  BY DEF IInv
<1> QED BY <1>1, SpecIInv, PTL
=============================================================================
