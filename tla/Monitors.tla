------------------------------ MODULE Monitors ------------------------------
(***************************************************************************)
(* The four agents that watch something and report what they find:         *)
(* backend/app/agents/silo_agent.py, waste_agent.py, security_agent.py and *)
(* vision_agent.py, the last with vision/.  Each looks at what is newest,  *)
(* decides on actions for it, and carries them out one by one.  None reads *)
(* what another one writes (the security agent leaves out the alerts of    *)
(* the silo agent, and nothing turns a VisionEvent into an alert), so a    *)
(* behaviour is about one of them; its runs overlap.                       *)
(*                                                                         *)
(* What is found is an item: a silo reading, a batch, an alert, something  *)
(* on a frame.  An item is known by its place, which is its time.  The     *)
(* session of a run is AgentLifecycle's; here an action is stored or not.  *)
(* The detector is the heuristic one: no model is loaded.                  *)
(***************************************************************************)
EXTENDS Integers, Sequences, SequencesExt, FiniteSetsExt, Bags

CONSTANTS Agents,             \* the agents to look at
          Threads,            \* threads that call run_once
          SILOS, Cameras,     \* sequences; no code of the repository registers a camera
          SiloReadings,       \* readings of the sensors
          Batches,            \* batches of the production
          SecurityAlerts,     \* rows that access control writes
          Shapes,             \* bright shapes on a frame
          TargetEfficiency,   \* setting, in 1/10000
          UseLedger,
          MaxItems, MaxRuns   \* bounds on the items and the runs

ASSUME MonitorsAssumption ==
    /\ Agents \subseteq {"silo", "waste", "security", "vision"}
    /\ {TargetEfficiency, MaxItems, MaxRuns} \subseteq Nat /\ UseLedger \in BOOLEAN
    /\ SILOS \in Seq(STRING) /\ Cameras \in Seq(STRING)
\* The list names each silo of the plant once (silo_agent.py:14).
ASSUME SilosAssumption ==
    /\ \A i, j \in DOMAIN SILOS : SILOS[i] = SILOS[j] => i = j
    /\ \A reading \in SiloReadings : \E i \in DOMAIN SILOS : SILOS[i] = reading.silo_id

VARIABLES
    agent,      \* the agent that this behaviour is about
    items,      \* what there was to find, oldest first
    resolved,   \* the alerts with SecurityAlert.resolved
    executes,   \* the level of the agent is EXECUTE
    run,        \* run_once in each thread
    nextRun,    \* the number of the next run
    stored,     \* what is on record of actions, in tables and ledger: a bag
    finished    \* history: the runs that came to their end, or raised at an alert

vars == <<agent, items, resolved, executes, run, nextRun, stored, finished>>

NoRun == [pc |-> "idle", id |-> 0, todo |-> <<>>, due |-> {}, upto |-> 0,
          found |-> <<>>, plan |-> <<>>, excused |-> {}]

Init ==
    /\ agent \in Agents
    /\ items = <<>> /\ resolved = {}
    /\ executes \in BOOLEAN
    /\ run = [t \in Threads |-> NoRun]
    /\ nextRun = 1
    /\ stored = EmptyBag /\ finished = {}

-----------------------------------------------------------------------------
(* What agents look at                                                     *)

\* What becomes known from outside: sensors, the production, access control.
\* Nothing in the repository writes these rows.
Arrives(item) ==
    /\ \/ agent = "silo" /\ item \in SiloReadings
       \/ agent = "waste" /\ item \in Batches
       \/ agent = "security" /\ item \in SecurityAlerts
    /\ Len(items) < MaxItems
    /\ items' = Append(items, item)
    /\ UNCHANGED <<agent, resolved, executes, run, nextRun, stored, finished>>

\* Nothing in the repository resolves an alert either.
Resolve(k) ==
    /\ agent = "security" /\ k \in DOMAIN items \ resolved
    /\ resolved' = resolved \cup {k}
    /\ UNCHANGED <<agent, items, executes, run, nextRun, stored, finished>>

\* The queries or frames of one observe(), one after the other.
Subjects ==
    IF agent = "silo" THEN SILOS ELSE IF agent = "vision" THEN Cameras ELSE <<agent>>

\* run_once is called, for an agent that is not disabled.
CallRun(t) ==
    /\ run[t].pc = "idle" /\ nextRun <= MaxRuns
    /\ run' = [run EXCEPT ![t] = [NoRun EXCEPT
                  !.pc = "observe", !.id = nextRun, !.todo = Subjects,
                  !.due = IF agent = "vision" THEN {} ELSE DOMAIN items]]
    /\ nextRun' = nextRun + 1
    /\ UNCHANGED <<agent, items, resolved, executes, stored, finished>>

Looking(t, who) == run[t].pc = "observe" /\ run[t].todo # <<>> /\ agent = who

\* The run is over, with what there is to say of it.
Ends(t) ==
    /\ run' = [run EXCEPT ![t] = NoRun]
    /\ finished' = finished \cup {[run |-> run[t].id, due |-> run[t].due,
                                   upto |-> run[t].upto, excused |-> run[t].excused]}

\* The next subject shows the items with these places, newest first or in order.
Found(t, new) ==
    run' = [run EXCEPT ![t].todo = Tail(@), ![t].found = @ \o new, ![t].upto = Len(items)]

\* ORDER BY timestamp DESC, .first()
Newest(places) == IF places = {} THEN <<>> ELSE <<Max(places)>>

\* SiloAgent.observe: one query for each silo.
ObserveSilo(t) ==
    /\ Looking(t, "silo")
    /\ Found(t, Newest({k \in DOMAIN items : items[k].silo_id = Head(run[t].todo)}))
    /\ UNCHANGED <<agent, items, resolved, executes, nextRun, stored, finished>>

\* WasteAgent.observe: the newest batch of all.
ObserveBatch(t) ==
    /\ Looking(t, "waste")
    /\ Found(t, Newest(DOMAIN items))
    /\ UNCHANGED <<agent, items, resolved, executes, nextRun, stored, finished>>

\* The newest 20 alerts that are open and not the silo agent's.
OpenAlerts ==
    LET open == {k \in DOMAIN items \ resolved : items[k].source # "silo_agent"}
        newest == SetToSortSeq(open, >)
    IN  SubSeq(newest, 1, Min({20, Len(newest)}))

\* utcnow() has a zone; a timestamp loaded from security_alerts has none, and
\* the difference of the two raises TypeError.
ZoneOf == [utcnow |-> "utc", loaded |-> "none"]

\* SecurityAgent.observe: the age of every alert is computed.
ObserveAlerts(t) ==
    /\ Looking(t, "security")
    /\ OpenAlerts = <<>> \/ ZoneOf.utcnow = ZoneOf.loaded
    /\ Found(t, OpenAlerts)
    /\ UNCHANGED <<agent, items, resolved, executes, nextRun, stored, finished>>

ObserveAlertsRaises(t) ==
    /\ Looking(t, "security")
    /\ OpenAlerts # <<>> /\ ZoneOf.utcnow # ZoneOf.loaded
    /\ Ends(t)
    /\ UNCHANGED <<agent, items, resolved, executes, nextRun, stored>>

\* A query of observe() raises, or the last commit of the run does.
BodyRaises(t) ==
    /\ \/ run[t].pc = "observe" /\ run[t].todo # <<>> /\ agent # "vision"
       \/ run[t].pc = "act" /\ run[t].plan = <<>>
    /\ run' = [run EXCEPT ![t] = NoRun]
    /\ UNCHANGED <<agent, items, resolved, executes, nextRun, stored, finished>>

-----------------------------------------------------------------------------
(* vision/: the heuristic detector, confidences in per cent                *)

\* What _detect_heuristic makes of a shape: its area is in 1/1000 of the frame,
\* its aspect and the height of its centre are in tenths.
Detection(shape) ==
    IF shape.aspect < 8 /\ shape.centre > 5 THEN [label |-> "person", confidence |-> 72]
    ELSE IF shape.aspect > 16 THEN [label |-> "flour_bag", confidence |-> 68]
    ELSE [label |-> "object", confidence |-> 60]

\* Small shapes are passed over, and no more than 20 are reported.
detect(frame) ==
    LET regions == FlattenSeq([i \in DOMAIN frame |->
                     IF frame[i].area >= 5 THEN <<Detection(frame[i])>> ELSE <<>>])
    IN  SubSeq(regions, 1, Min({20, Len(regions)}))

Frames == {<<>>} \cup {<<s>> : s \in Shapes} \cup {<<s1, s2>> : s1, s2 \in Shapes}

\* A frame of the next camera, and what is detected on it.
Capture(t) ==
    /\ Looking(t, "vision")
    /\ \E frame \in Frames :
          LET places == [i \in 1..Len(detect(frame)) |-> Len(items) + i]
          IN  /\ Len(items) + Len(detect(frame)) <= MaxItems
              /\ items' = items \o detect(frame)
              /\ run' = [run EXCEPT ![t].todo = Tail(@), ![t].due = @ \cup ToSet(places),
                            ![t].found = @ \o places, ![t].upto = Len(items')]
    /\ UNCHANGED <<agent, resolved, executes, nextRun, stored, finished>>

\* A camera that fails is passed over.
CaptureFails(t) ==
    /\ Looking(t, "vision")
    /\ Found(t, <<>>)
    /\ UNCHANGED <<agent, items, resolved, executes, nextRun, stored, finished>>

-----------------------------------------------------------------------------
(* think()                                                                 *)

Act(type, k) == [type |-> type, item |-> k]
Only(condition, type, k) == IF condition THEN <<Act(type, k)>> ELSE <<>>

\* SiloAgent.think, for one silo; the severity is part of the message.
SiloActions(k) ==
    LET data == items[k]
    IN  Only(data.temp_c > 32 \/ data.humidity_pct > 70, "alert_quality_degradation", k) \o
        Only(data.fill_pct < 10, "reorder_grain", k) \o
        Only(data.fill_pct > 85, "rotate_stock", k)

\* batch.efficiency, or the quotient where that is 0, rounded to four places.
Efficiency(batch) ==
    IF batch.efficiency # 0 THEN batch.efficiency
    ELSE IF batch.input_tons > 0
         THEN (20000 * batch.output_tons + batch.input_tons) \div (2 * batch.input_tons)
         ELSE 0

\* WasteAgent.think, for the batch.
BatchActions(k) ==
    Only(Efficiency(items[k]) < TargetEfficiency, "recommend_process_adjustment", k) \o
    <<Act("file_efficiency_report", k)>>

\* SecurityAgent.think, for one alert.
AlertActions(k) ==
    Only(items[k].severity \in {"high", "critical"} /\ items[k].age_minutes > 5,
         "dispatch_alarm", k)

\* VisionAgent.think, for one detection.
DetectionActions(k) ==
    LET sure == items[k].confidence >= 65
        person == items[k].label = "person"
    IN  Only(sure /\ person, "flag_intrusion", k) \o
        Only(sure /\ ~person /\ items[k].label \in {"flour_bag", "defect", "object"},
             "flag_defect", k)

Observed(t, who) == run[t].pc = "observe" /\ run[t].todo = <<>> /\ agent = who

Decide(t, plan) ==
    /\ run' = [run EXCEPT ![t].pc = "act", ![t].plan = plan]
    /\ UNCHANGED <<agent, items, resolved, executes, nextRun, stored, finished>>

ForEach(found, ActionsOf(_)) == FlattenSeq([i \in DOMAIN found |-> ActionsOf(found[i])])

ThinkSilo(t) ==
    /\ Observed(t, "silo")
    /\ Decide(t, ForEach(run[t].found, SiloActions) \o <<Act("audit_snapshot", 0)>>)

\* Without a batch there is nothing to do.
ThinkBatch(t) ==
    /\ Observed(t, "waste")
    /\ Decide(t, ForEach(run[t].found, BatchActions))

\* The heartbeat reports how many alerts are open.
ThinkAlerts(t) ==
    /\ Observed(t, "security")
    /\ Decide(t, ForEach(run[t].found, AlertActions) \o
                 <<Act("audit_security_log", Len(run[t].found))>>)

\* Faulty variant of ThinkDetections: the loop ends at a detection it is unsure of.
ThinkDetectionsBreaking(t) ==
    LET found == run[t].found
        unsure == {i \in DOMAIN found : items[found[i]].confidence < 65}
    IN  /\ Observed(t, "vision")
        /\ Decide(t, ForEach(IF unsure = {} THEN found ELSE SubSeq(found, 1, Min(unsure)),
                             DetectionActions))

ThinkDetections(t) ==
    /\ Observed(t, "vision")
    /\ Decide(t, ForEach(run[t].found, DetectionActions))

-----------------------------------------------------------------------------
(* perform_action()                                                        *)

Acting(t) == run[t].pc = "act" /\ run[t].plan # <<>>
Current(t) == Head(run[t].plan)

\* Some actions are a row with or without an event of the ledger, some are an
\* event only.
HasRow(type) == type \notin {"reorder_grain", "rotate_stock", "audit_snapshot", "audit_security_log"}

NextAction(t) == run' = [run EXCEPT ![t].plan = Tail(@)]

\* The action is not carried out, or leaves nothing behind.
Excuse(t) ==
    /\ run' = [run EXCEPT ![t].plan = Tail(@),
                  ![t].excused = @ \cup {<<Current(t).type, Current(t).item>>}]
    /\ UNCHANGED <<agent, items, resolved, executes, nextRun, stored, finished>>

\* A level below EXECUTE holds it back.
Withhold(t) == Acting(t) /\ ~executes /\ Excuse(t)

\* It fails and is rolled back.
Fail(t) == Acting(t) /\ executes /\ Excuse(t)

Row(t) == [run |-> run[t].id, type |-> Current(t).type, item |-> Current(t).item]

\* Faulty variant of Store: it is done again when the commit was not heard of.
StoreAgain(t) ==
    /\ Acting(t) /\ executes
    /\ stored' = stored (+) SetToBag({Row(t)})
    /\ NextAction(t) \/ UNCHANGED run
    /\ UNCHANGED <<agent, items, resolved, executes, nextRun, finished>>

\* It is stored; _resolve may be told otherwise, which changes nothing here.
Store(t) ==
    /\ Acting(t) /\ executes
    /\ HasRow(Current(t).type) \/ UseLedger
    /\ stored' = stored (+) SetToBag({Row(t)})
    /\ NextAction(t)
    /\ UNCHANGED <<agent, items, resolved, executes, nextRun, finished>>

\* It has no row, and the ledger failed in silence or there is none.
StoreNothing(t) ==
    /\ Acting(t) /\ executes
    /\ ~HasRow(Current(t).type)
    /\ NextAction(t)
    /\ UNCHANGED <<agent, items, resolved, executes, nextRun, stored, finished>>

\* The end of run_once.
Return(t) ==
    /\ run[t].pc = "act" /\ run[t].plan = <<>>
    /\ Ends(t)
    /\ UNCHANGED <<agent, items, resolved, executes, nextRun, stored>>

SetAutonomy ==
    /\ executes' = ~executes
    /\ UNCHANGED <<agent, items, resolved, run, nextRun, stored, finished>>

\* The process is started again.
Restart ==
    /\ run' = [t \in Threads |-> NoRun]
    /\ executes' \in BOOLEAN
    /\ UNCHANGED <<agent, items, resolved, nextRun, stored, finished>>

RunStep(t) ==
    \/ CallRun(t)
    \/ ObserveSilo(t) \/ ObserveBatch(t) \/ ObserveAlerts(t) \/ ObserveAlertsRaises(t)
    \/ BodyRaises(t) \/ CaptureFails(t) \/ Capture(t)
    \/ ThinkSilo(t) \/ ThinkBatch(t) \/ ThinkAlerts(t) \/ ThinkDetections(t)
    \/ Withhold(t) \/ Fail(t) \/ Store(t) \/ StoreNothing(t) \/ Return(t)

Next ==
    \/ \E t \in Threads : RunStep(t)
    \/ \E item \in SiloReadings \cup Batches \cup SecurityAlerts : Arrives(item)
    \/ \E k \in DOMAIN items : Resolve(k)
    \/ SetAutonomy \/ Restart

Spec == Init /\ [][Next]_vars

-----------------------------------------------------------------------------
(* Properties                                                              *)

\* The type invariant; what is stored about an item is about one there is.
TypeOK ==
    /\ resolved \subseteq DOMAIN items
    /\ nextRun \in 1..(MaxRuns + 1) /\ Len(items) <= MaxItems
    /\ \A t \in Threads :
          /\ run[t].pc \in {"idle", "observe", "act"} /\ run[t].id < nextRun
          /\ run[t].due \subseteq DOMAIN items
    /\ IsABag(stored)
    /\ \A row \in BagToSet(stored) :
          /\ row.run \in 1..(nextRun - 1)
          /\ HasRow(row.type) => row.item \in DOMAIN items

\* The rows that an item calls for, by the limits that are documented.
DueRows(item) ==
    IF agent = "silo"
    THEN {type \in {"alert_quality_degradation"} : item.temp_c > 32 \/ item.humidity_pct > 70}
    ELSE IF agent = "waste"
    THEN {type \in {"file_efficiency_report", "recommend_process_adjustment"} :
             type = "file_efficiency_report" \/ Efficiency(item) < TargetEfficiency}
    ELSE IF agent = "vision"
    THEN {type \in {"flag_intrusion", "flag_defect"} :
             item.confidence >= 65 /\ (type = "flag_intrusion" <=> item.label = "person")}
    ELSE {}

\* A newer item hides this one from an agent that looks at the newest only.
Overtaken(k, upto) ==
    \/ agent = "waste" /\ k < upto
    \/ agent = "silo" /\ \E l \in (k + 1)..upto : items[l].silo_id = items[k].silo_id

StoredBy(r, type, k) == BagIn([run |-> r, type |-> type, item |-> k], stored)

\* A run that comes to its end has left a row for everything that was there to
\* be found when it was called, but for what was overtaken before it had looked
\* and for actions that failed or were held back (silo_agent.py:26-67,
\* waste_agent.py:20-80, vision_agent.py:34-92): no reading of another silo, no
\* other detection and no failed action hides it.
NothingMissed ==
    \A f \in finished : \A k \in f.due :
        \/ Overtaken(k, f.upto)
        \/ \A type \in DueRows(items[k]) :
              <<type, k>> \in f.excused \/ StoredBy(f.run, type, k)

\* The same item is reported twice only by different runs: nothing remembers
\* what has been reported, but no failure has one run do it twice
\* (base_agent.py:104-113 with the perform_action of each agent).
OneRowPerRun == \A row \in BagToSet(stored) : stored[row] = 1

\* security_agent.py:3-4: the agent is there for "escalating unresolved alerts to
\* the security team": a run that the database did not fail has dispatched an
\* alarm for each alert that it was due to escalate, that was there when it was
\* called and is still open, unless the action failed or was held back.
AlertsEscalated ==
    agent = "security" /\ executes =>
        \A f \in finished : \A k \in f.due \ resolved :
            items[k].source # "silo_agent" /\ AlertActions(k) # <<>> =>
                \/ <<"dispatch_alarm", k>> \in f.excused
                \/ StoredBy(f.run, "dispatch_alarm", k)

\* waste_agent.py:3: the agent "evaluates batch efficiency after each production
\* run": when a run of it has come to its end and no other is in flight, each
\* batch that was there when it was called has been evaluated, by it or another.
EachBatchEvaluated ==
    agent = "waste" /\ (\A t \in Threads : run[t].pc = "idle") =>
        \A f \in finished : \A k \in f.due :
            \/ \E g \in finished : <<"file_efficiency_report", k>> \in g.excused
            \/ \E r \in 1..(nextRun - 1) : StoredBy(r, "file_efficiency_report", k)
=============================================================================
