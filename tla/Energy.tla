------------------------------- MODULE Energy -------------------------------
(***************************************************************************)
(* The energy agent (backend/app/agents/energy_agent.py) over              *)
(* services/energy_service.py: a run looks at the meter readings, proposes *)
(* to switch each facility to a cheaper source, counts the hours its       *)
(* diesel generator has run, and proposes maintenance when they are many.  *)
(* The hours live in the memory of the agent, the switches in the          *)
(* database: a restart forgets the hours, a failed commit only the switch. *)
(*                                                                         *)
(* Meters write the readings.  Runs of the agent overlap in the threads of *)
(* one process.  The level is EXECUTE or one that holds actions back, read *)
(* once per action (AgentLifecycle has the details of that and of the      *)
(* session).  `x[f] += 4` is one step: CPython 3.11 changes threads at     *)
(* calls and jumps only.  _last_source is left out: nothing reads it.      *)
(***************************************************************************)
EXTENDS Integers, Sequences, SequencesExt, FiniteSetsExt

CONSTANTS Threads,                \* threads that call run_once
          FACILITIES,             \* a sequence
          GridTariff, GasTariff, SolarTariff, DieselPricePerLitre,   \* settings
          MAINTENANCE_THRESHOLD_HOURS,
          MeteredSources,         \* the sources that readings are about
          Hours,                  \* the hours of the day runs fall in
          Window,                 \* the LIMIT of the query for readings
          MaxReadings, MaxRuns    \* bounds on readings and runs

Facilities == ToSet(FACILITIES)
Sources    == {"grid", "gas", "solar", "diesel"}

ASSUME SettingsAssumption ==
    /\ {GridTariff, GasTariff, SolarTariff, DieselPricePerLitre} \subseteq Nat
    /\ MeteredSources \subseteq Sources /\ Hours \subseteq 0..23
    /\ {Window, MaxReadings, MaxRuns} \subseteq Nat
    /\ FACILITIES \in Seq(Facilities)

\* 72 hours against 4 for each thread of the pool.
ASSUME ThresholdAssumption ==
    /\ IsFiniteSet(Threads)
    /\ MAINTENANCE_THRESHOLD_HOURS \in Nat
    /\ MAINTENANCE_THRESHOLD_HOURS > 4 * Cardinality(Threads)

VARIABLES
    readings,       \* energy_readings, oldest first
    runtime_hours,  \* EnergyAgent._runtime_hours
    executes,       \* the level of the agent is EXECUTE
    last_switch,    \* the latest row of power_switch_events, if any: rows are
                    \* stored in the order of their times
    run,            \* run_once in each thread
    nextRun,        \* the number of the next run
    since,          \* history: runs that saw diesel since the last stored switch off
                    \* it; -1 once a failure, an overlap or a restart has spoilt it
    withheld        \* history: facilities left on diesel by a level below EXECUTE

history    == <<since, withheld>>
energyVars == <<readings, runtime_hours, executes, last_switch, run, nextRun, history>>

-----------------------------------------------------------------------------
(* energy_service                                                          *)

\* Marginal costs, of 35 kWh: a litre of diesel makes 3.5.
marginal_costs ==
    [grid |-> 35 * GridTariff, gas |-> 35 * GasTariff, solar |-> 35 * SolarTariff,
     diesel |-> 10 * DieselPricePerLitre]

Rows == [facility : Facilities, source : MeteredSources]

\* The latest reading of each source of a facility, among the last Window rows
\* of the first n.  A reading is known by its place, which is its time.
latest_readings_by_source(n, f) ==
    {k \in (n - Window + 1)..n \cap DOMAIN readings :
        /\ readings[k].facility = f
        /\ \A l \in (k + 1)..n : readings[l] # readings[k]}

-----------------------------------------------------------------------------
(* observe() and think()                                                   *)

\* What observe() takes for the current source, the table having n rows: of
\* the latest readings by source, the OLDEST decides.
CurrentSource(n, f) ==
    LET latest == latest_readings_by_source(n, f)
    IN  IF latest = {} THEN "grid" ELSE readings[Min(latest)].source

\* The first of the sources but diesel, sorted by cost; the sort is stable.
Cheapest ==
    LET order == <<"grid", "gas", "solar">>
        cost(i) == marginal_costs[order[i]]
        first(i) == \A j \in 1..3 : cost(i) < cost(j) \/ (cost(i) = cost(j) /\ i <= j)
    IN  order[CHOOSE i \in 1..3 : first(i)]

BestSource(current, hour) ==
    IF hour \in 10..15 /\ marginal_costs["solar"] < marginal_costs[current]
    THEN "solar" ELSE Cheapest

Switch(f, from, to)   == [type |-> "switch_source", facility |-> f, from |-> from, to |-> to]
Maintenance(f, hours) == [type |-> "schedule_generator_maintenance", facility |-> f, hours_run |-> hours]

\* What think() proposes for a facility whose hours, this run included, are given.
Proposals(f, current, hour, hours) ==
    LET best == BestSource(current, hour)
    IN  (IF current # best THEN <<Switch(f, current, best)>> ELSE <<>>) \o
        (IF current = "diesel" /\ hours >= MAINTENANCE_THRESHOLD_HOURS
         THEN <<Maintenance(f, hours)>> ELSE <<>>)

NoRun == [pc |-> "idle", seen |-> 0, plan |-> <<>>]

EnergyInit ==
    /\ readings = <<>>
    /\ runtime_hours = [f \in Facilities |-> 0]
    /\ executes \in BOOLEAN
    /\ last_switch = <<>>
    /\ run = [t \in Threads |-> NoRun]
    /\ nextRun = 1
    /\ since = [f \in Facilities |-> 0]
    /\ withheld = {}

\* A meter delivers a reading.
Meter(row) ==
    /\ Len(readings) < MaxReadings
    /\ readings' = Append(readings, row)
    /\ UNCHANGED <<runtime_hours, executes, last_switch, run, nextRun, history>>

\* run_once is called, for an agent that is not disabled.
CallRun(t) ==
    /\ run[t].pc = "idle"
    /\ nextRun <= MaxRuns
    /\ run' = [run EXCEPT ![t].pc = "observe"]
    /\ nextRun' = nextRun + 1
    /\ UNCHANGED <<readings, runtime_hours, executes, last_switch, history>>

\* The observation depends on the readings of this moment, of which there can
\* only be more later: their number stands for it.
Observe(t) ==
    /\ run[t].pc = "observe"
    /\ run' = [run EXCEPT ![t].pc = "think", ![t].seen = Len(readings)]
    /\ UNCHANGED <<readings, runtime_hours, executes, last_switch, nextRun, history>>

\* The query raises: there is no plan, and run_once records an error.
ObserveRaises(t) ==
    /\ run[t].pc = "observe"
    /\ run' = [run EXCEPT ![t].pc = "act"]
    /\ UNCHANGED <<readings, runtime_hours, executes, last_switch, nextRun, history>>

\* A run has reset the hours of f and not yet heard of its switch.
Performing(t, f) ==
    /\ run[t].pc = "commit"
    /\ Head(run[t].plan).type = "switch_source"
    /\ Head(run[t].plan).facility = f /\ Head(run[t].plan).from = "diesel"

\* The history of the hours after a run that counts for the facilities in F.
Counted(F) ==
    since' = [f \in Facilities |->
                 IF f \notin F \/ since[f] = -1 THEN since[f]
                 ELSE IF \E t \in Threads : Performing(t, f) THEN -1
                 ELSE since[f] + 1]

\* Faulty variant of Think: hours are counted for every source.
ThinkCountsAll(t) ==
    LET current == [f \in Facilities |-> CurrentSource(run[t].seen, f)]
        hours == [f \in Facilities |-> runtime_hours[f] + 4]
        onDiesel == {f \in Facilities : current[f] = "diesel"}
    IN  /\ run[t].pc = "think"
        /\ \E hour \in Hours :
              LET proposed(f) == Proposals(f, current[f], hour, hours[f])
              IN  run' = [run EXCEPT ![t].pc = "act",
                    ![t].plan = FlattenSeq([i \in DOMAIN FACILITIES |-> proposed(FACILITIES[i])])]
        /\ runtime_hours' = hours
        /\ Counted(onDiesel)
        /\ UNCHANGED <<readings, executes, last_switch, nextRun, withheld>>

\* think(): each facility in turn; diesel has run for four hours more.
Think(t) ==
    LET current == [f \in Facilities |-> CurrentSource(run[t].seen, f)]
        onDiesel == {f \in Facilities : current[f] = "diesel"}
        hours == [f \in Facilities |->
                     IF f \in onDiesel THEN runtime_hours[f] + 4 ELSE runtime_hours[f]]
    IN  /\ run[t].pc = "think"
        /\ \E hour \in Hours :
              LET proposed(f) == Proposals(f, current[f], hour, hours[f])
              IN  run' = [run EXCEPT ![t].pc = "act",
                    ![t].plan = FlattenSeq([i \in DOMAIN FACILITIES |-> proposed(FACILITIES[i])])]
        /\ runtime_hours' = hours
        /\ Counted(onDiesel)
        /\ UNCHANGED <<readings, executes, last_switch, nextRun, withheld>>

-----------------------------------------------------------------------------
(* Acting on the plan                                                      *)

Acting(t) == run[t].pc = "act" /\ run[t].plan # <<>>

\* A level below EXECUTE: nothing is performed.
Withhold(t) ==
    /\ Acting(t) /\ ~executes
    /\ LET action == Head(run[t].plan)
       IN  withheld' = IF action.type = "switch_source" /\ action.from = "diesel"
                       THEN withheld \cup {action.facility} ELSE withheld
    /\ run' = [run EXCEPT ![t].plan = Tail(@)]
    /\ UNCHANGED <<readings, runtime_hours, executes, last_switch, nextRun, since>>

\* Faulty variant of Resets: the source switched to is looked at.
ResetsOnArrival(action) == action.type = "switch_source" /\ action.to = "diesel"

\* perform_action sets the hours to 0 for a switch off diesel.
Resets(action) == action.type = "switch_source" /\ action.from = "diesel"

\* perform_action: the hours are reset in memory, before anything is stored.
Perform(t) ==
    /\ Acting(t) /\ executes
    /\ LET action == Head(run[t].plan)
       IN  runtime_hours' = IF Resets(action)
                            THEN [runtime_hours EXCEPT ![action.facility] = 0]
                            ELSE runtime_hours
    /\ run' = [run EXCEPT ![t].pc = "commit"]
    /\ UNCHANGED <<readings, executes, last_switch, nextRun, history>>

NextAction(t) == run' = [run EXCEPT ![t].pc = "act", ![t].plan = Tail(@)]

\* The action is stored, by the ledger's commit or by _resolve's; _resolve may
\* be told otherwise, which makes no difference to the agent.
Store(t) ==
    /\ run[t].pc = "commit"
    /\ LET action == Head(run[t].plan)
       IN  IF action.type = "switch_source"
           THEN /\ last_switch' = <<action>>
                /\ since' = [f \in Facilities |->
                       IF Performing(t, f) /\ since[f] # -1 THEN 0 ELSE since[f]]
           ELSE UNCHANGED <<last_switch, since>>
    /\ NextAction(t)
    /\ UNCHANGED <<readings, runtime_hours, executes, nextRun, withheld>>

\* It fails and is rolled back.  The hours stay as Perform left them.
Fail(t) ==
    /\ run[t].pc = "commit"
    /\ since' = [f \in Facilities |-> IF Performing(t, f) THEN -1 ELSE since[f]]
    /\ NextAction(t)
    /\ UNCHANGED <<readings, runtime_hours, executes, last_switch, nextRun, withheld>>

\* Nothing is left to do: the end of run_once.
Return(t) ==
    /\ run[t].pc = "act" /\ run[t].plan = <<>>
    /\ run' = [run EXCEPT ![t] = NoRun]
    /\ UNCHANGED <<readings, runtime_hours, executes, last_switch, nextRun, history>>

SetAutonomy ==
    /\ executes' = ~executes
    /\ UNCHANGED <<readings, runtime_hours, last_switch, run, nextRun, history>>

\* A new process counts from 0.
EnergyRestart ==
    /\ run' = [t \in Threads |-> NoRun]
    /\ runtime_hours' = [f \in Facilities |-> 0]
    /\ executes' \in BOOLEAN
    /\ since' = [f \in Facilities |-> -1]
    /\ withheld' = {}
    /\ UNCHANGED <<readings, last_switch, nextRun>>

\* A run goes on, up to its return.
EnergyStep(t) ==
    \/ Observe(t) \/ ObserveRaises(t) \/ Think(t)
    \/ Withhold(t) \/ Perform(t) \/ Store(t) \/ Fail(t)

\* What others do to the agent.
EnergyEnvironment ==
    \/ \E row \in Rows : Meter(row)
    \/ SetAutonomy

EnergyNext ==
    \/ \E t \in Threads : EnergyStep(t) \/ CallRun(t) \/ Return(t)
    \/ EnergyEnvironment \/ EnergyRestart

EnergySpec == EnergyInit /\ [][EnergyNext]_energyVars

-----------------------------------------------------------------------------
(* Properties                                                              *)

\* The part of the type invariant that is about the agent; no stored switch
\* leaves a facility where it is.
EnergyTypeOK ==
    /\ readings \in Seq(Rows)
    /\ runtime_hours \in [Facilities -> Nat] /\ since \in [Facilities -> Nat \cup {-1}]
    /\ last_switch # <<>> =>
          /\ last_switch[1].from \in Sources /\ last_switch[1].to \in Sources
          /\ last_switch[1].from # last_switch[1].to
    /\ \A t \in Threads :
          /\ run[t].pc \in {"idle", "observe", "think", "act", "commit"}
          /\ run[t].seen <= Len(readings)
          /\ run[t].pc = "commit" => run[t].plan # <<>>

\* The hours in memory are four for each run that saw the facility on diesel
\* since the last switch off diesel that is on record, unless a switch failed
\* after its reset, a run counted in the middle of another one's reset, or the
\* process was started again (energy_agent.py:89, 111-112, 121,
\* base_agent.py:107-111).
HoursExplained ==
    \A f \in Facilities :
        since[f] # -1 /\ (\A t \in Threads : ~Performing(t, f)) =>
            runtime_hours[f] = 4 * since[f]

\* Maintenance comes up only after the agent has left a facility on diesel at a
\* level below EXECUTE: at EXECUTE every run that sees diesel resets what it
\* has counted, done or failed, and the threshold is out of reach
\* (energy_agent.py:72, 88-90, 111-112).
MaintenanceNeedsWithheldSwitch ==
    \A t \in Threads : \A i \in DOMAIN run[t].plan :
        run[t].plan[i].type = "schedule_generator_maintenance" =>
            run[t].plan[i].facility \in withheld

\* energy_agent.py:3-4: the agent "switches between power sources (grid, gas,
\* diesel, solar) to minimise cost": no source costs less than the one that the
\* latest switch leads to.
SwitchesMinimiseCost ==
    \A i \in DOMAIN last_switch : \A source \in Sources :
        marginal_costs[last_switch[i].to] <= marginal_costs[source]
=============================================================================
