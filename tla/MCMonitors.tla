----------------------------- MODULE MCMonitors -----------------------------
(***************************************************************************)
(* TLC instances of Monitors.                                              *)
(***************************************************************************)
EXTENDS Monitors, TLC

CONSTANTS t1, t2

MCThreads  == {t1, t2}
MCSymmetry == Permutations(MCThreads)
MCSILOS    == <<"S01", "S02">>
MCCameras  == <<"gate", "line">>

\* Too hot; at both limits and nearly empty; damp and full.
MCSiloReadings ==
    {[silo_id |-> "S01", temp_c |-> 33, humidity_pct |-> 50, fill_pct |-> 85],
     [silo_id |-> "S01", temp_c |-> 32, humidity_pct |-> 70, fill_pct |-> 9],
     [silo_id |-> "S02", temp_c |-> 25, humidity_pct |-> 71, fill_pct |-> 86]}

\* Efficiencies given, computed above and below the target, and without input.
MCBatches ==
    {[efficiency |-> 9200, input_tons |-> 10, output_tons |-> 5],
     [efficiency |-> 0, input_tons |-> 30, output_tons |-> 28],
     [efficiency |-> 0, input_tons |-> 30, output_tons |-> 27],
     [efficiency |-> 0, input_tons |-> 0, output_tons |-> 0]}

MCSecurityAlerts ==
    {[source |-> "silo_agent", severity |-> "critical", age_minutes |-> 9],
     [source |-> "gate", severity |-> "high", age_minutes |-> 9]}

\* A person, a bag, the bright band of a synthetic frame, and something small.
MCShapes ==
    {[area |-> 5, aspect |-> 7, centre |-> 6], [area |-> 50, aspect |-> 17, centre |-> 5],
     [area |-> 312, aspect |-> 4, centre |-> 5], [area |-> 4, aspect |-> 7, centre |-> 6]}
=============================================================================
