---------------------------- MODULE Orchestrator ----------------------------
(***************************************************************************)
(* The orchestrator (backend/app/agents/orchestrator_agent.py) with the    *)
(* executive report (services/report_service.py), over the energy agent.   *)
(* It has a run_once of its own: it calls the run_once of every other      *)
(* agent in turn, looks for a conflict, and stores a flag, a report, an    *)
(* event of the ledger and its AgentRun on ONE session, which the ledger   *)
(* commits half-way.  Its status does not work like that of the others:    *)
(* every end, good or bad, makes it idle.  Making a session, which happens *)
(* outside the try, does not raise: no connection is opened.               *)
(*                                                                         *)
(* Of the agents it calls, the energy agent is followed step by step; it   *)
(* is also run by others.  The rest share no state with this module.       *)
(***************************************************************************)
EXTENDS Energy

CONSTANTS AgentOrder,  \* the keys of _agents, in their order
          UseLedger,   \* whether the agents were built with a ledger
          MaxPasses    \* bound on the runs of the orchestrator

ASSUME OrchestratorAssumption ==
    AgentOrder \in Seq(STRING) /\ UseLedger \in BOOLEAN /\ MaxPasses \in Nat

VARIABLES
    status,    \* OrchestratorAgent.status
    pass,      \* the locals of the orchestrator's run_once in each thread
    flags,     \* action_logs: conflict resolutions, by run
    reports,   \* reports, by run
    ledger,    \* the "orchestration" events in the ledger, by run
    rows,      \* agent_runs: the orchestrator's, by run and status
    nextPass,  \* the number of the next run of the orchestrator
    appended   \* history: what became of the append of each run

orchVars == <<status, pass, flags, reports, ledger, rows, nextPass, appended>>
vars     == <<energyVars, orchVars>>

Passes  == 1..MaxPasses
PCs     == {"idle", "start", "agents", "waiting", "report", "append", "commit",
            "handler", "end"}

PassRecords == [pc : PCs,
                id : Passes \cup {0},
                next : Nat,         \* the place of the next agent in AgentOrder
                flag : BOOLEAN,     \* the flag is pending
                report : BOOLEAN,   \* the report is pending
                broken : BOOLEAN]   \* only rollback() can revive the session

NoPass == [pc |-> "idle", id |-> 0, next |-> 1, flag |-> FALSE, report |-> FALSE,
           broken |-> FALSE]

OrchInit ==
    /\ status = "idle"
    /\ pass = [t \in Threads |-> NoPass]
    /\ flags = {} /\ reports = {} /\ ledger = {} /\ rows = {}
    /\ nextPass = 1
    /\ appended = [p \in Passes |-> "none"]

Init == EnergyInit /\ OrchInit

-----------------------------------------------------------------------------
(* The session                                                             *)

\* COMMIT reaches the database: what was pending is stored.
StorePending(t) ==
    /\ flags'   = IF pass[t].flag THEN flags \cup {pass[t].id} ELSE flags
    /\ reports' = IF pass[t].report THEN reports \cup {pass[t].id} ELSE reports

KeepTables == UNCHANGED <<flags, reports>>

Cleared(p) == [p EXCEPT !.flag = FALSE, !.report = FALSE, !.broken = FALSE]
Broken(p)  == [Cleared(p) EXCEPT !.broken = TRUE]

Continue(t, p) == pass' = [pass EXCEPT ![t] = p]
At(t, pc)      == pass[t].pc = pc
GoTo(t, pc)    == Continue(t, [pass[t] EXCEPT !.pc = pc])

\* The handler starts with rollback().
Raise(t) == Continue(t, [Cleared(pass[t]) EXCEPT !.pc = "handler"])

-----------------------------------------------------------------------------
(* run_once: the other agents                                              *)

\* The check of run_once.  A thread inside a run of the energy agent is busy.
CallOrchestrator(t) ==
    /\ At(t, "idle") /\ run[t].pc = "idle"
    /\ status # "disabled"
    /\ nextPass <= MaxPasses
    /\ Continue(t, [NoPass EXCEPT !.pc = "start", !.id = nextPass])
    /\ nextPass' = nextPass + 1
    /\ UNCHANGED <<energyVars, status, flags, reports, ledger, rows, appended>>

Begin(t) ==
    /\ At(t, "start")
    /\ status' = "running"
    /\ Continue(t, [pass[t] EXCEPT !.pc = "agents"])
    /\ UNCHANGED <<energyVars, flags, reports, ledger, rows, nextPass, appended>>

\* The loop over _agents is not through.
InLoop(t) == At(t, "agents") /\ pass[t].next <= Len(AgentOrder)
AllRan(t) == At(t, "agents") /\ pass[t].next > Len(AgentOrder)

\* run_once() of another agent, or of a disabled one, returns or raises, which
\* is the same here; the orchestrator itself is skipped.
RunOther(t) ==
    /\ InLoop(t)
    /\ Continue(t, [pass[t] EXCEPT !.next = @ + 1])
    /\ UNCHANGED <<energyVars, status, flags, reports, ledger, rows, nextPass, appended>>

RunEnergy(t) ==
    /\ InLoop(t) /\ AgentOrder[pass[t].next] = "energy"
    /\ CallRun(t)
    /\ GoTo(t, "waiting")
    /\ UNCHANGED <<status, flags, reports, ledger, rows, nextPass, appended>>

\* The run of the energy agent returns to whoever called it.
EnergyReturns(t) ==
    /\ Return(t)
    /\ IF At(t, "waiting")
       THEN Continue(t, [pass[t] EXCEPT !.pc = "agents", !.next = @ + 1])
       ELSE UNCHANGED pass
    /\ UNCHANGED <<status, flags, reports, ledger, rows, nextPass, appended>>

-----------------------------------------------------------------------------
(* run_once: conflict, report, event, record                               *)

\* _resolve_conflicts looks at the latest switch of all facilities.
ResolveConflicts(t) ==
    /\ AllRan(t)
    /\ Continue(t, [pass[t] EXCEPT !.pc = "report",
           !.flag = /\ last_switch # <<>>
                    /\ last_switch[1].to = "diesel"
                    /\ DieselPricePerLitre > 800])
    /\ UNCHANGED <<energyVars, status, flags, reports, ledger, rows, nextPass, appended>>

\* build_executive_report flushes the flag and the report.
BuildReport(t) ==
    /\ At(t, "report")
    /\ Continue(t, [pass[t] EXCEPT !.pc = IF UseLedger THEN "append" ELSE "commit",
                                   !.report = TRUE])
    /\ UNCHANGED <<energyVars, status, flags, reports, ledger, rows, nextPass, appended>>

\* A query or a flush of these two raises.
BuildRaises(t) ==
    /\ AllRan(t) \/ At(t, "report")
    /\ Raise(t)
    /\ UNCHANGED <<energyVars, status, flags, reports, ledger, rows, nextPass, appended>>

\* record_event: the ledger's query raises, which leaves the session alone.
AppendSkipped(t) ==
    /\ At(t, "append")
    /\ GoTo(t, "commit")
    /\ appended' = [appended EXCEPT ![pass[t].id] = "skipped"]
    /\ UNCHANGED <<energyVars, status, flags, reports, ledger, rows, nextPass>>

\* The block is stored, and with it the flag and the report.
AppendCommits(t) ==
    /\ At(t, "append")
    /\ StorePending(t)
    /\ ledger' = ledger \cup {pass[t].id}
    /\ Continue(t, [Cleared(pass[t]) EXCEPT !.pc = "commit"])
    /\ appended' = [appended EXCEPT ![pass[t].id] = "stored"]
    /\ UNCHANGED <<energyVars, status, rows, nextPass>>

\* Faulty variant of AppendRefused: record_event repairs the session.
AppendRefusedRepaired(t) ==
    /\ At(t, "append")
    /\ Continue(t, [Cleared(pass[t]) EXCEPT !.pc = "commit"])
    /\ appended' = [appended EXCEPT ![pass[t].id] = "refused"]
    /\ UNCHANGED <<energyVars, status, flags, reports, ledger, rows, nextPass>>

\* The block number is taken or the commit fails; record_event hides it.
AppendRefused(t) ==
    /\ At(t, "append")
    /\ Continue(t, [Broken(pass[t]) EXCEPT !.pc = "commit"])
    /\ appended' = [appended EXCEPT ![pass[t].id] = "refused"]
    /\ UNCHANGED <<energyVars, status, flags, reports, ledger, rows, nextPass>>

\* The commit is stored and raises all the same.
AppendUnheard(t) ==
    /\ At(t, "append")
    /\ StorePending(t)
    /\ ledger' = ledger \cup {pass[t].id}
    /\ Continue(t, [Broken(pass[t]) EXCEPT !.pc = "commit"])
    /\ appended' = [appended EXCEPT ![pass[t].id] = "unheard"]
    /\ UNCHANGED <<energyVars, status, rows, nextPass>>

Row(t, state) == [id |-> pass[t].id, status |-> state]

\* The AgentRun row and db.commit().
CommitRow(t) ==
    /\ At(t, "commit") /\ ~pass[t].broken
    /\ StorePending(t)
    /\ rows' = rows \cup {Row(t, "ok")}
    /\ Continue(t, [Cleared(pass[t]) EXCEPT !.pc = "end"])
    /\ UNCHANGED <<energyVars, status, ledger, nextPass, appended>>

\* It raises: always on a broken session.
CommitRefused(t) ==
    /\ At(t, "commit")
    /\ Raise(t)
    /\ UNCHANGED <<energyVars, status, flags, reports, ledger, rows, nextPass, appended>>

\* It raises although everything is stored.
CommitUnheard(t) ==
    /\ At(t, "commit") /\ ~pass[t].broken
    /\ StorePending(t)
    /\ rows' = rows \cup {Row(t, "ok")}
    /\ Raise(t)
    /\ UNCHANGED <<energyVars, status, ledger, nextPass, appended>>

\* The handler commits a row of its own, or raises in its turn.
Handle(t) ==
    /\ At(t, "handler")
    /\ rows' \in {rows, rows \cup {Row(t, "error")}}
    /\ GoTo(t, "end")
    /\ UNCHANGED <<energyVars, status, flags, reports, ledger, nextPass, appended>>

\* Faulty variant of End: as in the other agents, an error leaves the status.
EndUnlessFailed(t) ==
    /\ At(t, "end")
    /\ status' = IF Row(t, "error") \in rows THEN status ELSE "idle"
    /\ Continue(t, NoPass)
    /\ UNCHANGED <<energyVars, flags, reports, ledger, rows, nextPass, appended>>

\* The finally clause: idle, whatever the status was.
End(t) ==
    /\ At(t, "end")
    /\ status' = "idle"
    /\ Continue(t, NoPass)
    /\ UNCHANGED <<energyVars, flags, reports, ledger, rows, nextPass, appended>>

-----------------------------------------------------------------------------
Disable ==
    /\ status' = "disabled"
    /\ UNCHANGED <<energyVars, pass, flags, reports, ledger, rows, nextPass, appended>>

Enable ==
    /\ status = "disabled"
    /\ status' = "idle"
    /\ UNCHANGED <<energyVars, pass, flags, reports, ledger, rows, nextPass, appended>>

\* The process is started again; open sessions are gone.
Restart ==
    /\ EnergyRestart
    /\ status' = "idle"
    /\ pass' = [t \in Threads |-> NoPass]
    /\ UNCHANGED <<flags, reports, ledger, rows, nextPass, appended>>

\* The energy agent, run by the orchestrator or by tick().
Energetic ==
    /\ \/ \E t \in Threads : EnergyStep(t) \/ (At(t, "idle") /\ CallRun(t))
       \/ EnergyEnvironment
    /\ UNCHANGED orchVars

PassStep(t) ==
    \/ Begin(t) \/ RunOther(t) \/ RunEnergy(t) \/ EnergyReturns(t)
    \/ ResolveConflicts(t) \/ BuildReport(t) \/ BuildRaises(t)
    \/ AppendSkipped(t) \/ AppendCommits(t) \/ AppendRefused(t) \/ AppendUnheard(t)
    \/ CommitRow(t) \/ CommitRefused(t) \/ CommitUnheard(t) \/ Handle(t) \/ End(t)

Next ==
    \/ \E t \in Threads : PassStep(t) \/ CallOrchestrator(t)
    \/ Energetic
    \/ Disable \/ Enable \/ Restart

Spec == Init /\ [][Next]_vars

-----------------------------------------------------------------------------
(* Properties                                                              *)

\* The part of the type invariant that is about the orchestrator.
OrchTypeOK ==
    /\ status \in {"idle", "running", "disabled"}
    /\ pass \in [Threads -> PassRecords]
    /\ flags \subseteq Passes /\ reports \subseteq Passes /\ ledger \subseteq Passes
    /\ rows \subseteq [id : Passes, status : {"ok", "error"}]
    /\ nextPass \in 1..(MaxPasses + 1)
    /\ appended \in [Passes -> {"none", "skipped", "stored", "refused", "unheard"}]

\* The type invariant.
TypeOK ==
    /\ EnergyTypeOK /\ OrchTypeOK
    /\ \A t \in Threads : pass[t].pc = "waiting" => run[t].pc # "idle"

\* A run on record as ok has its report, and its append was not refused or left
\* unheard; a block and its report are stored together; a run that is
\* on record as an error has a report only if its append was stored before it
\* failed, or if it is on record as ok as well, the answer to its last commit
\* having been lost (orchestrator_agent.py:62-95, events.py:14-17).
OnRecord(p, state) == [id |-> p, status |-> state] \in rows
Accounted(p) ==
    /\ OnRecord(p, "ok") => p \in reports /\ appended[p] \notin {"refused", "unheard"}
    /\ p \in ledger => p \in reports
    /\ OnRecord(p, "error") /\ p \in reports => p \in ledger \/ OnRecord(p, "ok")
ReportsAccounted == \A p \in Passes : Accounted(p)

\* The orchestrator says "running" only while a run of it is in flight,
\* whatever failed, and however runs, disable() and enable() overlap
\* (orchestrator_agent.py:45, 97-100).
RunningMeansInFlight ==
    status = "running" => \E t \in Threads : pass[t].pc \notin {"idle", "start"}
=============================================================================
