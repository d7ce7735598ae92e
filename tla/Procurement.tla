---------------------------- MODULE Procurement -----------------------------
(***************************************************************************)
(* The supply chain agent (backend/app/agents/supply_chain_agent.py):      *)
(* what its runs decide, and the hedge they post to the bank.  The call is *)
(* retried (backend/app/utils/retry.py), its answer can be lost after the  *)
(* bank has acted on it, and nothing undoes it when the action is rolled   *)
(* back.                                                                   *)
(*                                                                         *)
(* The session of a run is that of AgentLifecycle, of which this module    *)
(* keeps what decides about records: ActionLog rows wait for the next      *)
(* commit, and are lost with a commit that raises.                         *)
(***************************************************************************)
EXTENDS Naturals, Sequences, SequencesExt

CONSTANTS Runs,          \* the calls of run_once
          Past,          \* a call before them
          HedgingApi,    \* settings.hedging_api_url is set
          MaxAttempts    \* max_attempts of the retry decorator

ASSUME RunsAssumption == Past \notin Runs
ASSUME BankAssumption == HedgingApi \in BOOLEAN /\ MaxAttempts \in Nat \ {0}

VARIABLES market,       \* what the two latest FXRate rows say
          buyer,        \* the locals of each run
          action_logs,  \* committed ActionLog rows
          ledger,       \* the actions recorded in the audit ledger
          bank,         \* how often the bank has covered the hedge of a run
          unanswered,   \* history: calls of each run that the bank executed unheard
          rejected,     \* history: runs whose call was answered with an error
          trouble       \* history: runs that had a commit raise, or died

database == <<action_logs, ledger>>
history  == <<unanswered, rejected, trouble>>
procurementVars     == <<market, buyer, database, bank, history>>

-----------------------------------------------------------------------------
Kinds  == {"hedge_fx_forward", "initiate_supplier_bidding",
           "propose_local_sourcing_contract"}
States == {"executed", "failed", "simulated"}
Modes  == {"none", "simulated-bank-api", "bank-api", "bank-api-error"}

\* volatile: the change of the rate is over the threshold.
\* cassava: it costs less than 0.85 of wheat.
Markets == [volatile : BOOLEAN, cassava : BOOLEAN]

NewRun == [pc |-> "ready", market |-> [volatile |-> FALSE, cassava |-> FALSE],
           actions |-> <<>>, done |-> 0, attempt |-> 0, mode |-> "none",
           logs |-> {}, broken |-> FALSE]

\* A bidding round may be on record already.
PastRound == [run |-> Past, index |-> 1, kind |-> "initiate_supplier_bidding",
              state |-> "simulated", mode |-> "none"]

ProcurementInit ==
    /\ market \in Markets
    /\ buyer = [r \in Runs |-> NewRun]
    /\ action_logs \in {{}, {PastRound}} /\ ledger = {}
    /\ bank = [r \in Runs |-> 0]
    /\ unanswered = [r \in Runs |-> 0] /\ rejected = {} /\ trouble = {}

CurrentAction(r) == buyer[r].actions[buyer[r].done + 1]
HasWork(r) == buyer[r].pc = "act" /\ buyer[r].done < Len(buyer[r].actions)

-----------------------------------------------------------------------------
(* observe and think                                                       *)

\* The first query of observe().
ObserveRates(r) ==
    /\ buyer[r].pc = "ready"
    /\ buyer' = [buyer EXCEPT ![r].pc = "observe", ![r].market = market]
    /\ UNCHANGED <<market, database, bank, history>>

\* utcnow() has a zone; a timestamp loaded from ActionLog has none.
TimeZoneOf == [utcnow |-> "utc", loaded |-> "none"]

\* What weeks_since_bid can be: 999 without a round on record; with one, some
\* weeks on either side of 7 - if the subtraction has a result.
WeeksSinceBid ==
    IF \A l \in action_logs : l.kind # "initiate_supplier_bidding" THEN {999}
    ELSE IF TimeZoneOf.utcnow = TimeZoneOf.loaded THEN {0, 8}
    ELSE {}

Decisions(m, weeks) ==
    (IF m.volatile THEN <<"hedge_fx_forward", "initiate_supplier_bidding">> ELSE <<>>)
    \o (IF weeks > 7 THEN <<"initiate_supplier_bidding">> ELSE <<>>)
    \o (IF m.cassava THEN <<"propose_local_sourcing_contract">> ELSE <<>>)

\* The other query, and think().
ObserveBids(r) ==
    /\ buyer[r].pc = "observe"
    /\ \E weeks \in WeeksSinceBid :
          buyer' = [buyer EXCEPT ![r].pc = "act",
                             ![r].actions = Decisions(buyer[r].market, weeks)]
    /\ UNCHANGED <<market, database, bank, history>>

\* An aware time minus a naive one: TypeError, and the run is over.
ObserveRaises(r) ==
    /\ buyer[r].pc = "observe"
    /\ WeeksSinceBid = {}
    /\ buyer' = [buyer EXCEPT ![r].pc = "raised"]
    /\ UNCHANGED <<market, database, bank, history>>

-----------------------------------------------------------------------------
(* perform_action                                                          *)

\* The result of an action that failed is its error, without a mode.
LogOf(r, state) ==
    [run |-> r, index |-> buyer[r].done + 1, kind |-> CurrentAction(r), state |-> state,
     mode |-> IF state = "executed" THEN buyer[r].mode ELSE "none"]

\* _resolve returns, with the ActionLog rows of pending and its own waiting.
Resolved(r, pending, state) ==
    [buyer[r] EXCEPT !.pc = "act", !.done = @ + 1, !.attempt = 0, !.mode = "none",
                   !.logs = pending \cup {LogOf(r, state)}, !.broken = FALSE]

\* Not under EXECUTE: the action is logged and nothing else.
Simulate(r) ==
    /\ HasWork(r)
    /\ buyer' = [buyer EXCEPT ![r] = Resolved(r, buyer[r].logs, "simulated")]
    /\ UNCHANGED <<market, database, bank, history>>

Perform(r) ==
    /\ HasWork(r)
    /\ buyer' = [buyer EXCEPT ![r] =
          IF CurrentAction(r) # "hedge_fx_forward" THEN [@ EXCEPT !.pc = "append"]
          ELSE IF HedgingApi THEN [@ EXCEPT !.pc = "post", !.attempt = 1]
          ELSE [@ EXCEPT !.pc = "append", !.mode = "simulated-bank-api"]]
    /\ UNCHANGED <<market, database, bank, history>>

\* The call of the bank is over.
Posted(r, mode) == buyer' = [buyer EXCEPT ![r].pc = "append", ![r].mode = mode]

Cover(r) == bank' = [bank EXCEPT ![r] = @ + 1]

\* Faulty variant of PostAnswered: the call is repeated all the same.
PostAnsweredAgain(r) ==
    /\ buyer[r].pc = "post" /\ buyer[r].attempt < MaxAttempts
    /\ Cover(r)
    /\ buyer' = [buyer EXCEPT ![r].attempt = @ + 1]
    /\ UNCHANGED <<market, database, history>>

PostAnswered(r) ==
    /\ buyer[r].pc = "post"
    /\ Cover(r)
    /\ Posted(r, "bank-api")
    /\ UNCHANGED <<market, database, history>>

\* The status of the response is not looked at.
PostRejected(r) ==
    /\ buyer[r].pc = "post"
    /\ Posted(r, "bank-api")
    /\ rejected' = rejected \cup {r}
    /\ UNCHANGED <<market, database, bank, unanswered, trouble>>

\* Faulty variant of PostLost: the caller takes the last attempt for good.
PostLostUnnoticed(r) ==
    /\ buyer[r].pc = "post"
    /\ \/ UNCHANGED <<bank, unanswered>>
       \/ Cover(r) /\ unanswered' = [unanswered EXCEPT ![r] = @ + 1]
    /\ IF buyer[r].attempt < MaxAttempts THEN buyer' = [buyer EXCEPT ![r].attempt = @ + 1]
       ELSE Posted(r, "bank-api")
    /\ UNCHANGED <<market, database, rejected, trouble>>

\* An httpx.HTTPError, before or after the bank has acted: tried again, with
\* the same reference, while attempts are left.
PostLost(r) ==
    /\ buyer[r].pc = "post"
    /\ \/ UNCHANGED <<bank, unanswered>>
       \/ Cover(r) /\ unanswered' = [unanswered EXCEPT ![r] = @ + 1]
    /\ IF buyer[r].attempt < MaxAttempts THEN buyer' = [buyer EXCEPT ![r].attempt = @ + 1]
       ELSE Posted(r, "bank-api-error")
    /\ UNCHANGED <<market, database, rejected, trouble>>

\* Faulty variant of PostRaises: perform_action does not catch it.
PostRaisesThrough(r) ==
    /\ buyer[r].pc = "post"
    /\ buyer' = [buyer EXCEPT ![r] = Resolved(r, {}, "failed")]
    /\ UNCHANGED <<market, database, bank, history>>

\* Any other exception is not retried.
PostRaises(r) ==
    /\ buyer[r].pc = "post"
    /\ Posted(r, "bank-api-error")
    /\ UNCHANGED <<market, database, bank, history>>

-----------------------------------------------------------------------------
(* The records                                                             *)

\* record_event returns.  The append may be stored, with all that is pending
\* in the session; it may raise, stored or not, which breaks the session; or
\* nothing was to be done.
Record(r) ==
    /\ buyer[r].pc = "append"
    /\ \E stored, raises \in BOOLEAN :
          /\ IF stored
             THEN /\ ledger' = ledger \cup {<<r, buyer[r].done + 1>>}
                  /\ action_logs' = action_logs \cup buyer[r].logs
             ELSE UNCHANGED database
          /\ buyer' = [buyer EXCEPT ![r].pc = "commit",
                                ![r].logs = IF stored \/ raises THEN {} ELSE @,
                                ![r].broken = raises]
          /\ trouble' = IF raises THEN trouble \cup {r} ELSE trouble
    /\ UNCHANGED <<market, bank, unanswered, rejected>>

\* db.commit() of _resolve succeeds.
Commit(r) ==
    /\ buyer[r].pc = "commit" /\ ~buyer[r].broken
    /\ action_logs' = action_logs \cup buyer[r].logs
    /\ buyer' = [buyer EXCEPT ![r] = Resolved(r, {}, "executed")]
    /\ UNCHANGED <<market, ledger, bank, history>>

\* It raises, on a broken session or with logs to store: rollback().
CommitRaises(r) ==
    /\ buyer[r].pc = "commit" /\ (buyer[r].broken \/ buyer[r].logs # {})
    /\ action_logs' \in {action_logs, action_logs \cup buyer[r].logs}
    /\ buyer' = [buyer EXCEPT ![r] = Resolved(r, {}, "failed")]
    /\ trouble' = trouble \cup {r}
    /\ UNCHANGED <<market, ledger, bank, unanswered, rejected>>

AtEnd(r) == buyer[r].pc = "act" /\ buyer[r].done = Len(buyer[r].actions)

\* The commit after the loop.
End(r) ==
    /\ AtEnd(r)
    /\ action_logs' = action_logs \cup buyer[r].logs
    /\ buyer' = [buyer EXCEPT ![r].pc = "over", ![r].logs = {}]
    /\ UNCHANGED <<market, ledger, bank, history>>

\* The process dies, or a query or the last commit raises.
Die(r) ==
    /\ buyer[r].pc \notin {"ready", "over", "raised"}
    /\ buyer' = [buyer EXCEPT ![r].pc = "over", ![r].logs = {}]
    /\ trouble' = trouble \cup {r}
    /\ UNCHANGED <<market, database, bank, unanswered, rejected>>

\* Rates come in.
NewRates ==
    /\ market' \in Markets \ {market}
    /\ UNCHANGED <<buyer, database, bank, history>>

ProcurementNext ==
    \/ \E r \in Runs :
          \/ ObserveRates(r) \/ ObserveBids(r) \/ ObserveRaises(r)
          \/ Simulate(r) \/ Perform(r)
          \/ PostAnswered(r) \/ PostRejected(r) \/ PostLost(r) \/ PostRaises(r)
          \/ Record(r) \/ Commit(r) \/ CommitRaises(r) \/ End(r) \/ Die(r)
    \/ NewRates

ProcurementSpec == ProcurementInit /\ [][ProcurementNext]_procurementVars

-----------------------------------------------------------------------------
(* Properties                                                              *)

\* The type invariant.
ProcurementTypeOK ==
    /\ market \in Markets
    /\ \A r \in Runs :
          /\ buyer[r].market \in Markets /\ buyer[r].mode \in Modes
          /\ buyer[r].attempt \in 0..MaxAttempts /\ bank[r] \in 0..MaxAttempts
          /\ buyer[r].done \in 0..Len(buyer[r].actions)
          /\ ToSet(buyer[r].actions) \subseteq Kinds
    /\ \A l \in action_logs \cup UNION {buyer[r].logs : r \in Runs} :
          l.run \in Runs \cup {Past} /\ l.kind \in Kinds /\ l.state \in States /\ l.mode \in Modes
    /\ ledger \subseteq Runs \X (1..4)
    /\ \A r \in Runs : unanswered[r] \in 0..bank[r]
    /\ rejected \subseteq Runs /\ trouble \subseteq Runs

HedgeLogs(r) == {l \in action_logs : l.run = r /\ l.kind = "hedge_fx_forward"}

\* Cover at the bank without a record of it - no ActionLog row that says the
\* hedge was executed - is left behind only by a run that died or had a commit
\* raise; the errors of the call itself, the last one included, never undo the
\* record of what the bank may have done (supply_chain_agent.py:141-158,
\* base_agent.py:106-113).
CoverOnRecord ==
    \A r \in Runs :
        bank[r] > 0 /\ buyer[r].pc = "over" /\ r \notin trouble =>
            \E l \in HedgeLogs(r) : l.state = "executed"

\* The bank covers a hedge again only for an answer that was lost: never more
\* often than once plus the calls it executed unheard (retry.py:25-47,
\* supply_chain_agent.py:29-32).
DuplicatesOnlyUnanswered ==
    \A r \in Runs : bank[r] <= 1 + unanswered[r]

\* What the stored log of a hedge says of the bank: an action that was
\* simulated, or whose mode is "simulated-bank-api", means no cover;
\* "bank-api-error" leaves cover only when an answer was lost; "bank-api" is
\* without cover only when the bank answered with an error, which nobody looks
\* at.  The log of an action that failed says nothing: there may be cover, and
\* its mode is lost with the result (supply_chain_agent.py:134-149,
\* base_agent.py:110-116).
ModeTellsCover ==
    \A r \in Runs : \A l \in HedgeLogs(r) :
        /\ l.mode = "simulated-bank-api" \/ l.state = "simulated" => bank[r] = 0
        /\ l.mode = "bank-api-error" /\ bank[r] > 0 => unanswered[r] > 0
        /\ l.mode = "bank-api" /\ bank[r] = 0 => r \in rejected

\* supply_chain_agent.py:4: the agent "triggers hedging, bidding, or
\* local-sourcing actions when thresholds are breached": a run that has seen
\* volatile rates decides to hedge.
TriggersWhenBreached ==
    \A r \in Runs :
        (buyer[r].pc \notin {"ready", "observe", "over"} /\ buyer[r].market.volatile) =>
            "hedge_fx_forward" \in ToSet(buyer[r].actions)
=============================================================================
