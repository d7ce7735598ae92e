--------------------------- MODULE AgentLifecycle ---------------------------
(***************************************************************************)
(* BaseAgent.run_once (backend/app/agents/base_agent.py): observe, think,  *)
(* resolve each action under the autonomy in force, log it, and record the *)
(* run.  tick() runs it in a thread of the pool, so runs of one agent can  *)
(* overlap, and set_autonomy(), disable() and enable() reach the agent     *)
(* while runs are in flight.                                               *)
(*                                                                         *)
(* Each run has one database session.  Rows are pending in it until the    *)
(* next commit of that session, whoever calls it: _resolve, the ledger's   *)
(* append (a perform_action records its event on the same session) or the  *)
(* end of the run.  A rollback drops all that is pending, including the    *)
(* ActionLog rows of earlier actions of the run.                           *)
(***************************************************************************)
EXTENDS Naturals, Sequences, FiniteSets

CONSTANTS Agents,      \* the agent objects of one process
          Threads,     \* threads that call run_once
          NoAgent,     \* a thread that is in no run
          UseLedger,   \* whether the agents were built with a ledger
          MaxRuns,     \* bound on the runs started
          MaxActions   \* bound on the actions one think() returns

ASSUME AgentsAssumption == NoAgent \notin Agents
ASSUME BoundsAssumption == MaxRuns \in Nat /\ MaxActions \in Nat
ASSUME LedgerAssumption == UseLedger \in BOOLEAN

VARIABLES
    status,       \* BaseAgent.status
    autonomy,     \* BaseAgent.autonomy
    totals,       \* total_runs and total_errors
    run,          \* the locals of run_once in each thread, its session included
    effects,      \* committed: rows written by perform_action, by run and action
    action_logs,  \* committed ActionLog rows
    agent_runs,   \* committed AgentRun rows
    ledger,       \* the audit ledger: the actions recorded in it, in order
    nextRun,      \* the number of the next run
    unheard       \* history: actions stored by a commit that raised nonetheless

objects  == <<status, autonomy, totals>>
database == <<effects, action_logs, agent_runs, ledger>>
history  == <<nextRun, unheard>>
vars     == <<objects, run, database, history>>

-----------------------------------------------------------------------------
AgentStatus   == {"idle", "running", "error", "disabled"}
AutonomyLevel == {"observe", "simulate", "execute"}
Outcomes      == {"executed", "failed", "simulated", "blocked"}

RunIds  == 1..MaxRuns
Indices == 1..MaxActions
Actions == RunIds \X Indices   \* the i-th action of a run
LogRows == [action : Actions, state : Outcomes]

PCs == {"idle", "start", "observe", "resolve", "recheck", "perform", "append",
        "commit", "record", "publish"}

Runs == [pc : PCs,
         agent : Agents \cup {NoAgent},
         id : 0..MaxRuns,
         n : 0..MaxActions,         \* len(actions)
         done : 0..MaxActions,      \* len(action_summaries)
         rows : BOOLEAN,            \* perform_action's rows are pending
         logs : SUBSET LogRows,     \* the ActionLog rows that are pending
         broken : BOOLEAN,          \* only rollback() can revive the session
         error : BOOLEAN]           \* error_text is set

NoRun == [pc |-> "idle", agent |-> NoAgent, id |-> 0, n |-> 0, done |-> 0,
          rows |-> FALSE, logs |-> {}, broken |-> FALSE, error |-> FALSE]

\* The action the run is working on.
Current(t) == <<run[t].id, run[t].done + 1>>

Init ==
    /\ status = [a \in Agents |-> "idle"]
    /\ autonomy \in [Agents -> AutonomyLevel]
    /\ totals = [a \in Agents |-> [runs |-> 0, errors |-> 0]]
    /\ run = [t \in Threads |-> NoRun]
    /\ effects = {} /\ action_logs = {} /\ agent_runs = {} /\ ledger = <<>>
    /\ nextRun = 1
    /\ unheard = {}

-----------------------------------------------------------------------------
(* The session                                                             *)

\* COMMIT reaches the database: what was pending is stored.
StorePending(t) ==
    /\ effects' = IF run[t].rows THEN effects \cup {Current(t)} ELSE effects
    /\ action_logs' = action_logs \cup run[t].logs

\* The locals after a commit that succeeded, and after rollback(): either way
\* nothing is pending any more.
Cleared(r) == [r EXCEPT !.rows = FALSE, !.logs = {}, !.broken = FALSE]

\* The locals after a flush or COMMIT that raised: SQLAlchemy has dropped what
\* was pending, and the session refuses everything but rollback().
Broken(r) == [r EXCEPT !.rows = FALSE, !.logs = {}, !.broken = TRUE]

Pending(t) == run[t].rows \/ run[t].logs # {}

CountRun(count)   == [count EXCEPT !.runs = @ + 1]
CountError(count) == [count EXCEPT !.errors = @ + 1]

\* The run goes on with locals r.
Continue(t, r) == run' = [run EXCEPT ![t] = r]

\* The ActionLog row of the action that a run with locals r is working on.
LogOf(r, state) == [action |-> <<r.id, r.done + 1>>, state |-> state]

\* _resolve returns: the summary grows and an ActionLog row is pending.
Resolved(r, state) ==
    [r EXCEPT !.pc = "resolve", !.done = @ + 1, !.logs = @ \cup {LogOf(r, state)}]

-----------------------------------------------------------------------------
(* run_once up to the first action                                         *)

\* Faulty variant of CallRun: the DISABLED check is gone.
CallRunUnchecked(t, a) ==
    /\ run[t].pc = "idle"
    /\ nextRun <= MaxRuns
    /\ Continue(t, [NoRun EXCEPT !.pc = "start", !.agent = a, !.id = nextRun])
    /\ nextRun' = nextRun + 1
    /\ UNCHANGED <<objects, database, unheard>>

\* The DISABLED check of run_once.  A disabled agent returns at once.
CallRun(t, a) ==
    /\ run[t].pc = "idle"
    /\ status[a] # "disabled"
    /\ nextRun <= MaxRuns
    /\ Continue(t, [NoRun EXCEPT !.pc = "start", !.agent = a, !.id = nextRun])
    /\ nextRun' = nextRun + 1
    /\ UNCHANGED <<objects, database, unheard>>

Begin(t) ==
    /\ run[t].pc = "start"
    /\ status' = [status EXCEPT ![run[t].agent] = "running"]
    /\ Continue(t, [run[t] EXCEPT !.pc = "observe"])
    /\ UNCHANGED <<autonomy, totals, database, history>>

\* observe() and think() return n actions.
Observe(t) ==
    /\ run[t].pc = "observe"
    /\ \E n \in 0..MaxActions :
          Continue(t, [run[t] EXCEPT !.pc = "resolve", !.n = n])
    /\ UNCHANGED <<objects, database, history>>

\* The handler of run_once: the exception is counted, the status is not reset.
BodyRaises(t) ==
    /\ Continue(t, [Cleared(run[t]) EXCEPT !.pc = "record", !.error = TRUE])
    /\ totals' = [totals EXCEPT ![run[t].agent] = CountError(@)]
    /\ UNCHANGED <<status, autonomy, nextRun, unheard>>

ObserveRaises(t) ==
    /\ run[t].pc = "observe"
    /\ BodyRaises(t)
    /\ UNCHANGED database

-----------------------------------------------------------------------------
(* _resolve                                                                *)

\* Faulty variant of TestExecute: the loop runs once too often.
TestExecuteTooFar(t) ==
    /\ run[t].pc = "resolve"
    /\ run[t].done <= run[t].n /\ run[t].done < MaxActions
    /\ Continue(t, [run[t] EXCEPT !.pc = IF autonomy[run[t].agent] = "execute"
                                         THEN "perform" ELSE "recheck"])
    /\ UNCHANGED <<objects, database, history>>

\* The first test of self.autonomy; perform_action adds its rows.
TestExecute(t) ==
    /\ run[t].pc = "resolve"
    /\ run[t].done < run[t].n
    /\ IF autonomy[run[t].agent] = "execute"
       THEN Continue(t, [run[t] EXCEPT !.pc = "perform", !.rows = TRUE])
       ELSE Continue(t, [run[t] EXCEPT !.pc = "recheck"])
    /\ UNCHANGED <<objects, database, history>>

\* The second test reads self.autonomy again.
TestSimulate(t) ==
    /\ run[t].pc = "recheck"
    /\ Continue(t, Resolved(run[t], IF autonomy[run[t].agent] = "simulate"
                                    THEN "simulated" ELSE "blocked"))
    /\ UNCHANGED <<objects, database, history>>

\* Faulty variant of Fail: the action is tried again until it succeeds.
FailRetries(t) == Continue(t, [Cleared(run[t]) EXCEPT !.pc = "resolve"])

\* rollback() in _resolve's handler takes the pending ActionLog rows with it.
Fail(t) == Continue(t, Resolved(Cleared(run[t]), "failed"))

\* Faulty variant of PerformRaises: perform_action raises after its event is
\* on the ledger.
PerformRaisesLate(t) ==
    /\ run[t].pc = "commit" /\ ~run[t].broken
    /\ Fail(t)
    /\ UNCHANGED <<objects, database, history>>

PerformRaises(t) ==
    /\ run[t].pc = "perform"
    /\ Fail(t)
    /\ UNCHANGED <<objects, database, history>>

\* record_event without a ledger, or with one whose query raises: None is
\* returned and the session is as before.
RecordNothing(t) ==
    /\ run[t].pc = "perform"
    /\ Continue(t, [run[t] EXCEPT !.pc = "commit"])
    /\ UNCHANGED <<objects, database, history>>

\* record_event enters append, which reads the last block.
AppendRead(t) ==
    /\ UseLedger
    /\ run[t].pc = "perform"
    /\ Continue(t, [run[t] EXCEPT !.pc = "append"])
    /\ UNCHANGED <<objects, database, history>>

\* Faulty variant of AppendCommits: the ledger commits a session of its own.
AppendCommitsAlone(t) ==
    /\ run[t].pc = "append"
    /\ ledger' = Append(ledger, Current(t))
    /\ Continue(t, [run[t] EXCEPT !.pc = "commit"])
    /\ UNCHANGED <<objects, effects, action_logs, agent_runs, history>>

\* append commits the session: the block, the rows of this action, and the
\* logs of the earlier ones.
AppendCommits(t) ==
    /\ run[t].pc = "append"
    /\ StorePending(t)
    /\ ledger' = Append(ledger, Current(t))
    /\ Continue(t, [Cleared(run[t]) EXCEPT !.pc = "commit"])
    /\ UNCHANGED <<objects, agent_runs, history>>

\* Faulty variant of AppendRefused: record_event repairs the session itself.
AppendRefusedRepaired(t) ==
    /\ run[t].pc = "append"
    /\ Continue(t, [Cleared(run[t]) EXCEPT !.pc = "commit"])
    /\ UNCHANGED <<objects, database, history>>

\* The block number is taken, or the database refuses: append raises,
\* record_event swallows it, and the session stays broken.
AppendRefused(t) ==
    /\ run[t].pc = "append"
    /\ Continue(t, [Broken(run[t]) EXCEPT !.pc = "commit"])
    /\ UNCHANGED <<objects, database, history>>

\* Faulty variant of AppendUnheard: append is retried.
AppendUnheardRetried(t) ==
    /\ run[t].pc = "append" /\ Len(ledger) < MaxRuns * MaxActions + 1
    /\ StorePending(t)
    /\ ledger' = Append(ledger, Current(t))
    /\ unheard' = unheard \cup {Current(t)}
    /\ Continue(t, Cleared(run[t]))
    /\ UNCHANGED <<objects, agent_runs, nextRun>>

\* The commit is stored and raises all the same.
AppendUnheard(t) ==
    /\ run[t].pc = "append"
    /\ StorePending(t)
    /\ ledger' = Append(ledger, Current(t))
    /\ unheard' = unheard \cup {Current(t)}
    /\ Continue(t, [Broken(run[t]) EXCEPT !.pc = "commit"])
    /\ UNCHANGED <<objects, agent_runs, nextRun>>

\* perform_action returned and db.commit() succeeds.
CommitAction(t) ==
    /\ run[t].pc = "commit"
    /\ ~run[t].broken
    /\ StorePending(t)
    /\ Continue(t, Resolved(Cleared(run[t]), "executed"))
    /\ UNCHANGED <<objects, agent_runs, ledger, history>>

\* db.commit() raises: on a broken session always, else if it has work to do.
CommitRefused(t) ==
    /\ run[t].pc = "commit"
    /\ run[t].broken \/ Pending(t)
    /\ Fail(t)
    /\ UNCHANGED <<objects, database, history>>

CommitUnheard(t) ==
    /\ run[t].pc = "commit"
    /\ ~run[t].broken /\ Pending(t)
    /\ StorePending(t)
    /\ unheard' = unheard \cup {Current(t)}
    /\ Fail(t)
    /\ UNCHANGED <<objects, agent_runs, ledger, nextRun>>

-----------------------------------------------------------------------------
(* The end of run_once                                                     *)

AtEnd(t) == run[t].pc = "resolve" /\ run[t].done = run[t].n

\* Faulty variant of FinalCommit: the commit after the loop is forgotten.
FinalCommitForgotten(t) ==
    /\ AtEnd(t)
    /\ status' = [status EXCEPT ![run[t].agent] = "idle"]
    /\ Continue(t, [Cleared(run[t]) EXCEPT !.pc = "record"])
    /\ UNCHANGED <<autonomy, totals, database, history>>

\* Faulty variant of FinalCommit: the status is not reset.
FinalCommitNoReset(t) ==
    /\ AtEnd(t)
    /\ StorePending(t)
    /\ Continue(t, [Cleared(run[t]) EXCEPT !.pc = "record"])
    /\ UNCHANGED <<objects, agent_runs, ledger, history>>

\* The last commit, then status = IDLE whatever the status is by now.
FinalCommit(t) ==
    /\ AtEnd(t)
    /\ StorePending(t)
    /\ status' = [status EXCEPT ![run[t].agent] = "idle"]
    /\ Continue(t, [Cleared(run[t]) EXCEPT !.pc = "record"])
    /\ UNCHANGED <<autonomy, totals, agent_runs, ledger, nextRun, unheard>>

FinalRefused(t) ==
    /\ AtEnd(t) /\ Pending(t)
    /\ BodyRaises(t)
    /\ UNCHANGED database

FinalUnheard(t) ==
    /\ AtEnd(t) /\ Pending(t)
    /\ StorePending(t)
    /\ BodyRaises(t)
    /\ UNCHANGED <<agent_runs, ledger>>

\* The finally clause: the AgentRun row, which is lost if its commit raises.
RecordRun(t) ==
    /\ run[t].pc = "record"
    /\ \E stored \in BOOLEAN :
          agent_runs' = IF ~stored THEN agent_runs
                        ELSE agent_runs \cup {[id |-> run[t].id,
                                               num_actions |-> run[t].done,
                                               status |-> IF run[t].error THEN "error"
                                                          ELSE "ok"]}
    /\ totals' = [totals EXCEPT ![run[t].agent] = CountRun(@)]
    /\ Continue(t, [run[t] EXCEPT !.pc = "publish"])
    /\ UNCHANGED <<status, autonomy, effects, action_logs, ledger, history>>

\* bus.publish isolates its handlers; run_once returns.
Publish(t) ==
    /\ run[t].pc = "publish"
    /\ Continue(t, NoRun)
    /\ UNCHANGED <<objects, database, history>>

-----------------------------------------------------------------------------
(* The other callers                                                       *)

SetAutonomy(a, level) ==
    /\ autonomy' = [autonomy EXCEPT ![a] = level]
    /\ UNCHANGED <<status, totals, run, database, history>>

Disable(a) ==
    /\ status' = [status EXCEPT ![a] = "disabled"]
    /\ UNCHANGED <<autonomy, totals, run, database, history>>

Enable(a) ==
    /\ status[a] = "disabled"
    /\ status' = [status EXCEPT ![a] = "idle"]
    /\ UNCHANGED <<autonomy, totals, run, database, history>>

\* The process dies and is started again: objects are built anew, runs and
\* their sessions are gone, the database stays.
Crash ==
    /\ status' = [a \in Agents |-> "idle"]
    /\ autonomy' \in [Agents -> AutonomyLevel]
    /\ totals' = [a \in Agents |-> [runs |-> 0, errors |-> 0]]
    /\ run' = [t \in Threads |-> NoRun]
    /\ UNCHANGED <<database, nextRun, unheard>>

Step(t) ==
    \/ Begin(t) \/ Observe(t) \/ ObserveRaises(t)
    \/ TestExecute(t) \/ TestSimulate(t)
    \/ PerformRaises(t) \/ RecordNothing(t)
    \/ AppendRead(t) \/ AppendCommits(t) \/ AppendRefused(t) \/ AppendUnheard(t)
    \/ CommitAction(t) \/ CommitRefused(t) \/ CommitUnheard(t)
    \/ FinalCommit(t) \/ FinalRefused(t) \/ FinalUnheard(t)
    \/ RecordRun(t) \/ Publish(t)

Next ==
    \/ \E t \in Threads : Step(t) \/ \E a \in Agents : CallRun(t, a)
    \/ \E a \in Agents :
          Disable(a) \/ Enable(a) \/ \E level \in AutonomyLevel : SetAutonomy(a, level)
    \/ Crash

Spec == Init /\ [][Next]_vars

\* A thread that is in run_once keeps running: the pool does not preempt it
\* for good, and every call of the database returns or raises.
FairSpec == Spec /\ \A t \in Threads : WF_vars(Step(t))

-----------------------------------------------------------------------------
(* Properties                                                              *)

\* The type invariant.
TypeOK ==
    /\ status \in [Agents -> AgentStatus]
    /\ autonomy \in [Agents -> AutonomyLevel]
    /\ totals \in [Agents -> [runs : Nat, errors : Nat]]
    /\ run \in [Threads -> Runs]
    /\ \A t \in Threads : run[t].pc # "idle" => run[t].agent \in Agents /\ run[t].id \in RunIds
    /\ \A t \in Threads : run[t].done <= run[t].n
    /\ effects \in SUBSET Actions
    /\ action_logs \in SUBSET LogRows
    /\ agent_runs \in SUBSET [id : RunIds, num_actions : 0..MaxActions, status : {"ok", "error"}]
    /\ ledger \in Seq(Actions)
    /\ nextRun \in 1..(MaxRuns + 1)
    /\ unheard \in SUBSET Actions

LoggedAs(action, state) == [action |-> action, state |-> state] \in action_logs
Logged(action) == \E state \in Outcomes : LoggedAs(action, state)

\* A run on record as "ok" with k actions can have fewer than k ActionLog rows,
\* because the rollback of a later action dropped the pending row of an earlier
\* one, even of one whose effect is stored; but then that later action is
\* itself on record as failed: a gap in /api/actions is always followed by a
\* failure of the same run (base_agent.py:107-111, 134-152, 163-173).
LostLogsExplained ==
    \A row \in agent_runs : row.status = "ok" =>
        \A i \in 1..row.num_actions :
            \/ Logged(<<row.id, i>>)
            \/ \E j \in (i + 1)..row.num_actions : LoggedAs(<<row.id, j>>, "failed")

\* An action logged as executed has its rows in the database, whatever became
\* of its ledger append in between (events.py:14-17, base_agent.py:107-109).
ExecutedHasEffect ==
    \A act \in Actions : LoggedAs(act, "executed") => act \in effects

\* An action logged as failed has no rows, unless a commit was stored whose
\* answer was lost (base_agent.py:110-113).
FailedHasNoEffect ==
    \A act \in Actions : LoggedAs(act, "failed") /\ act \in effects => act \in unheard

\* The ledger and the tables commit together: no block speaks of an action
\* whose rows were rolled back, and no action is recorded twice
\* (fabric_client.py:29-30 on the session of base_agent.py:124).
LedgerMatchesEffects ==
    /\ \A k \in DOMAIN ledger : ledger[k] \in effects
    /\ \A k, l \in DOMAIN ledger : ledger[k] = ledger[l] => k = l

AtRest(a) == \A t \in Threads : run[t].agent # a

\* status says "running" with no run in flight only after a run that raised:
\* the handler of run_once does not reset it (base_agent.py:153-159).
StuckRunningExplained ==
    \A a \in Agents : status[a] = "running" /\ AtRest(a) => totals[a].errors > 0

\* Once disable() finds an agent at rest, the agent stays disabled and at rest:
\* no call of run_once gets it going, and only enable() or a restart ends it.
\* With a run in flight that is not so: the run's end overwrites the status
\* (base_agent.py:87-92, 119, 159).
DisableHolds ==
    [][\A a \in Agents :
          status[a] = "disabled" /\ AtRest(a) =>
              /\ AtRest(a)'
              /\ \/ status'[a] = "disabled"
                 \/ run' \in {run, [t \in Threads |-> NoRun]}]_vars

\* The ledger of the agents is used as an audit log may be used: one open
\* request per thread, dropped, or stored once, with or without an answer.
Ledger == INSTANCE AuditLog
             WITH Clients <- Threads, Events <- Actions, NoEvent <- <<0, 0>>,
                  log <- ledger,
                  request <- [t \in Threads |->
                                 IF run[t].pc = "append" THEN Current(t) ELSE <<0, 0>>],
                  acked <- {k \in DOMAIN ledger : ledger[k] \notin unheard}
UsesAuditLog == Ledger!Spec

\* Every run that starts returns (base_agent.py:118-188).
RunsReturn == \A t \in Threads : run[t].pc # "idle" ~> run[t].pc = "idle"
=============================================================================
