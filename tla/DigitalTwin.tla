---------------------------- MODULE DigitalTwin -----------------------------
(***************************************************************************)
(* simulate() of backend/app/digital_twin/simulator.py, in integers: the   *)
(* service level and the risk, which training compares.  What the random   *)
(* generator gives for a seed is a parameter, the draws of each day.       *)
(* Costs, revenue and the recommendations are left out: nothing but the    *)
(* caller of simulate() sees them.                                         *)
(*                                                                         *)
(* Units: tons of demand and of the mill's throughput are counted in 45 t  *)
(* (the 900 t of a day are 20), noise in percent, service in per mille.    *)
(***************************************************************************)
EXTENDS Integers

CONSTANT Days   \* TwinParams.days

ASSUME DaysAssumption == Days \in Nat \ {0}

\* What the generator draws for a day: the loss of production, and whether
\* rng.random() fell below disruption_probability.
Draw == [noise : 0..2, disrupt : BOOLEAN]

Params == [demand : Nat \ {0}, throughput : Nat \ {0}, closure : 0..Days,
           probability : 0..100, base_waste : 0..100]

-----------------------------------------------------------------------------
Lesser(a, b) == IF a <= b THEN a ELSE b

\* port_start <= d < port_end, for the days 1..Days
PortClosed(p, day) ==
    LET start == Days \div 2
    IN  start < day /\ day <= Lesser(Days, start + p.closure)

\* Tons that leave the mill, in hundredths of a tenth.
Produced(p, day, draw) ==
    LET avail == p.demand * (IF PortClosed(p, day) THEN 3 ELSE 10)
    IN  Lesser(avail, 10 * p.throughput) * (100 - draw.noise)

\* round(min(served / demand, 1.0), 3): a disruption leaves 18 of 25 tons.
Service(p, day, draw) ==
    LET served == Produced(p, day, draw) * (IF draw.disrupt THEN 18 ELSE 25)
    IN  Lesser((2 * served + 25 * p.demand) \div (50 * p.demand), 1000)

\* wp
Waste(p, day, draw) ==
    p.base_waste + (IF draw.disrupt THEN 2 ELSE 0) + (IF PortClosed(p, day) THEN 1 ELSE 0)

\* The sum of a value of each day.
Total(f) ==
    LET sum[n \in 0..Days] == IF n = 0 THEN 0 ELSE sum[n - 1] + f[n]
    IN  sum[Days]

\* Days times the average of the service levels of the days.
TotalService(p, draws) == Total([d \in 1..Days |-> Service(p, d, draws[d])])
TotalWaste(p, draws)   == Total([d \in 1..Days |-> Waste(p, d, draws[d])])

\* Ten times Days times the risk, clipped to 0..100; no shocks to prices.
Risk(p, draws) ==
    Lesser(Days * (20 * p.closure + 8 * p.probability) + 5 * TotalWaste(p, draws), 1000 * Days)
=============================================================================
