------------------------ MODULE AgentLifecycleProofs ------------------------
(***************************************************************************)
(* Theorems about run_once, for any number of agents, threads, runs and    *)
(* actions, with and without a ledger: what the action log, the tables and *)
(* the ledger say of an action agrees as far as the code makes it agree,   *)
(* and the status of an agent means what it can be relied on to mean.      *)
(*                                                                         *)
(* None of this is inductive by itself.  Which rows a commit will store is *)
(* decided by what the session of the run holds, so the invariant says for *)
(* every point of run_once what can be pending there, and what is already  *)
(* stored of the action under way (SessionOK): the append of the ledger    *)
(* may have committed it, and only then has the session nothing pending.   *)
(* Logs that are still pending must be as sound as those in the table      *)
(* (PendingOK), and no row may be stored of an action still to come        *)
(* (Fresh), for the log of that action would otherwise be a lie.           *)
(***************************************************************************)
EXTENDS AgentLifecycle, TLAPS

-----------------------------------------------------------------------------
(* The inductive invariant                                                 *)

\* The action that a run with locals r is working on.
Cur(r) == <<r.id, r.done + 1>>

\* The log l tells the truth about the rows eff, but for the lost answers unh.
LogSound(l, eff, unh) ==
    /\ l.state = "executed" => l.action \in eff
    /\ l.state = "failed" /\ l.action \in eff => l.action \in unh

\* What is pending at each point of run_once, and what is stored already.
SessionOK(r, eff, unh) ==
    /\ r.pc \in {"start", "observe"} => r.done = 0
    /\ r.pc \in {"recheck", "perform", "append", "commit"} => r.done < r.n
    /\ r.pc \in {"perform", "append"} => r.rows /\ ~r.broken
    /\ r.pc \notin {"perform", "append", "commit"} => ~r.rows /\ ~r.broken
    /\ r.pc = "commit" => (r.rows => ~r.broken) /\ (~r.rows => r.logs = {})
    /\ r.pc = "commit" /\ ~r.broken /\ ~r.rows => Cur(r) \in eff
    /\ r.pc = "commit" /\ r.broken /\ Cur(r) \in eff => Cur(r) \in unh

\* Nothing is stored of actions to come, nor of the current one, unless the
\* ledger's append has just committed it.
Fresh(r, eff) ==
    \A i \in Indices : i > r.done /\ <<r.id, i>> \in eff
                           => i = r.done + 1 /\ r.pc = "commit" /\ ~r.rows

\* The pending logs are this run's, of actions done, and sound.
PendingOK(r, eff, unh) ==
    \A l \in r.logs :
        l.action[1] = r.id /\ l.action[2] <= r.done /\ LogSound(l, eff, unh)

\* A run in flight is in order.
RunOK(r, eff, unh, next) ==
    r.pc # "idle" =>
        r.id < next /\ SessionOK(r, eff, unh) /\ Fresh(r, eff) /\ PendingOK(r, eff, unh)

RunsOK == \A t \in Threads : RunOK(run[t], effects, unheard, nextRun)

\* No two threads are in the same run.
DistinctRuns ==
    \A t, u \in Threads :
        t # u /\ run[t].pc # "idle" /\ run[u].pc # "idle" => run[t].id # run[u].id

\* The rows and logs stored are sound, and a run in flight has none of actions
\* it has yet to resolve.
TablesOK ==
    /\ \A e \in effects : e[1] < nextRun
    /\ \A l \in action_logs :
          /\ l.action[1] < nextRun
          /\ LogSound(l, effects, unheard)
          /\ \A t \in Threads : run[t].pc # "idle" /\ l.action[1] = run[t].id
                                   => l.action[2] <= run[t].done

Inv == RunsOK /\ DistinctRuns /\ TablesOK /\ LedgerMatchesEffects
IInv == TypeOK /\ Inv

-----------------------------------------------------------------------------
(* The locals of a run                                                     *)

\* Cleared() keeps the type of the locals and everything but the session.
LEMMA ClearedFacts ==
    ASSUME NEW r \in Runs
    PROVE  /\ Cleared(r) \in Runs
           /\ Cleared(r).pc = r.pc /\ Cleared(r).agent = r.agent /\ Cleared(r).id = r.id
           /\ Cleared(r).n = r.n /\ Cleared(r).done = r.done
           /\ Cleared(r).rows = FALSE /\ Cleared(r).logs = {} /\ Cleared(r).broken = FALSE
    BY DEF Cleared, Runs

\* So does Broken().
LEMMA BrokenFacts ==
    ASSUME NEW r \in Runs
    PROVE  /\ Broken(r) \in Runs
           /\ Broken(r).pc = r.pc /\ Broken(r).agent = r.agent /\ Broken(r).id = r.id
           /\ Broken(r).n = r.n /\ Broken(r).done = r.done
           /\ Broken(r).rows = FALSE /\ Broken(r).logs = {} /\ Broken(r).broken = TRUE
    BY DEF Broken, Runs

\* A change of pc changes nothing else.
LEMMA GoFacts ==
    ASSUME NEW r \in Runs, NEW pc \in PCs
    PROVE  LET s == [r EXCEPT !.pc = pc]
           IN  /\ s \in Runs
               /\ s.pc = pc /\ s.agent = r.agent /\ s.id = r.id /\ s.n = r.n
               /\ s.done = r.done /\ s.rows = r.rows /\ s.logs = r.logs
               /\ s.broken = r.broken
    BY DEF Runs

\* While actions are left, the current one is one of the run's.
LEMMA CurrentIsAction ==
    ASSUME NEW r \in Runs, r.id \in RunIds, r.done < r.n
    PROVE  /\ Cur(r) \in Actions
           /\ r.done + 1 \in Indices /\ r.done + 1 \in 0..MaxActions
           /\ r.done + 1 <= r.n
    BY BoundsAssumption DEF Cur, Actions, Indices, Runs

\* Resolved() moves to the next action and adds one log.
LEMMA ResolvedFacts ==
    ASSUME NEW r \in Runs, r.id \in RunIds, r.done < r.n, NEW state \in Outcomes
    PROVE  LET s == Resolved(r, state)
           IN  /\ s \in Runs
               /\ s.pc = "resolve" /\ s.agent = r.agent /\ s.id = r.id /\ s.n = r.n
               /\ s.done = r.done + 1 /\ s.rows = r.rows /\ s.broken = r.broken
               /\ s.logs = r.logs \cup {LogOf(r, state)}
<1>1. LogOf(r, state) \in LogRows
    BY CurrentIsAction DEF LogOf, LogRows, Cur
<1>2. r.done + 1 \in 0..MaxActions
    BY CurrentIsAction
<1>3. QED
    BY <1>1, <1>2 DEF Resolved, Runs, PCs

-----------------------------------------------------------------------------
(* How a step of one run preserves the invariant                           *)

\* The type of what is neither run nor row.
ObjectsTyped ==
    /\ status \in [Agents -> AgentStatus]
    /\ autonomy \in [Agents -> AutonomyLevel]
    /\ totals \in [Agents -> [runs : Nat, errors : Nat]]
    /\ agent_runs \in SUBSET [id : RunIds, num_actions : 0..MaxActions, status : {"ok", "error"}]

RunTyped(r) ==
    /\ r \in Runs
    /\ r.pc # "idle" => r.agent \in Agents /\ r.id \in RunIds
    /\ r.done <= r.n

\* TypeOK, by the parts that a step changes together.
LEMMA TypeParts ==
    TypeOK <=> /\ ObjectsTyped
               /\ run \in [Threads -> Runs] /\ \A t \in Threads : RunTyped(run[t])
               /\ effects \in SUBSET Actions /\ action_logs \in SUBSET LogRows
               /\ ledger \in Seq(Actions)
               /\ nextRun \in 1..(MaxRuns + 1) /\ unheard \in SUBSET Actions
    BY DEF TypeOK, ObjectsTyped, RunTyped

\* A step of t that stores nothing.
LEMMA LocalStep ==
    ASSUME IInv, NEW t \in Threads, NEW r, RunTyped(r),
           run' = [run EXCEPT ![t] = r],
           ObjectsTyped',
           UNCHANGED <<effects, action_logs, ledger, history>>,
           RunOK(r, effects, unheard, nextRun),
           r.pc = "idle" \/ (run[t].pc # "idle" /\ r.id = run[t].id /\ r.done >= run[t].done)
    PROVE  IInv'
<1> USE DEF history
<1>1. run' \in [Threads -> Runs] /\ \A u \in Threads : run'[u] = IF u = t THEN r ELSE run[u]
    BY TypeParts DEF IInv, RunTyped
<1>2. TypeOK'
    BY <1>1, TypeParts DEF IInv, TypeOK, ObjectsTyped, RunTyped
<1>3. RunsOK'
    BY <1>1 DEF IInv, Inv, RunsOK
<1>4. DistinctRuns'
    BY <1>1 DEF IInv, Inv, DistinctRuns
<1>5. TablesOK'
  <2> SUFFICES ASSUME NEW l \in action_logs, NEW u \in Threads,
                      run'[u].pc # "idle", l.action[1] = run'[u].id
               PROVE  l.action[2] <= run'[u].done
    BY DEF IInv, Inv, TablesOK
  <2>1. CASE u # t
    BY <2>1, <1>1 DEF IInv, Inv, TablesOK
  <2>2. CASE u = t
    <3>1. l.action[2] <= run[t].done /\ r.done >= run[t].done
      BY <2>2, <1>1 DEF IInv, Inv, TablesOK
    <3>2. l.action[2] \in Nat /\ run[t].done \in Nat /\ r.done \in Nat
      BY TypeParts, BoundsAssumption DEF IInv, RunTyped, Runs, LogRows, Actions, Indices
    <3>3. QED
      BY <3>1, <3>2, <2>2, <1>1
  <2>3. QED
    BY <2>1, <2>2
<1>6. LedgerMatchesEffects'
    BY DEF IInv, Inv, LedgerMatchesEffects
<1>7. QED
    BY <1>2, <1>3, <1>4, <1>5, <1>6 DEF IInv, Inv

\* A log stays sound when another action's rows are stored.
LEMMA SoundKept ==
    ASSUME NEW l, NEW eff, NEW unh, NEW effN, NEW unhN, NEW c, LogSound(l, eff, unh),
           l.action # c, eff \subseteq effN, effN \subseteq eff \cup {c}, unh \subseteq unhN
    PROVE  LogSound(l, effN, unhN)
    BY DEF LogSound

\* The locals of another run are not disturbed either.
LEMMA RunKept ==
    ASSUME NEW r \in Runs, NEW eff, NEW unh, NEW effN, NEW unhN, NEW c, NEW next,
           RunOK(r, eff, unh, next), r.pc # "idle" => c[1] # r.id,
           eff \subseteq effN, effN \subseteq eff \cup {c}, unh \subseteq unhN
    PROVE  RunOK(r, effN, unhN, next)
<1> SUFFICES ASSUME r.pc # "idle"
             PROVE  r.id < next /\ SessionOK(r, effN, unhN) /\ Fresh(r, effN)
                    /\ PendingOK(r, effN, unhN)
    BY DEF RunOK
<1>1. Cur(r) # c /\ \A i \in Indices : <<r.id, i>> # c
    BY DEF Cur
<1>2. SessionOK(r, effN, unhN)
    BY <1>1 DEF RunOK, SessionOK
<1>3. Fresh(r, effN)
    BY <1>1 DEF RunOK, Fresh
<1>4. PendingOK(r, effN, unhN)
  <2> SUFFICES ASSUME NEW l \in r.logs
               PROVE  l.action[1] = r.id /\ l.action[2] <= r.done /\ LogSound(l, effN, unhN)
    BY DEF PendingOK
  <2>1. l.action[1] = r.id /\ l.action[2] <= r.done /\ LogSound(l, eff, unh)
    BY DEF RunOK, PendingOK
  <2>2. l.action # c
    BY <2>1
  <2>3. QED
    BY <2>1, <2>2, SoundKept
<1>5. QED
    BY <1>2, <1>3, <1>4 DEF RunOK

\* A step of t whose commit is stored.
LEMMA StoreStep ==
    ASSUME IInv, NEW t \in Threads, NEW r, RunTyped(r),
           run' = [run EXCEPT ![t] = r],
           ObjectsTyped',
           run[t].pc \in {"append", "commit", "resolve"},
           r.pc # "idle", r.id = run[t].id, r.done >= run[t].done,
           StorePending(t),
           \/ unheard' = unheard
           \/ run[t].pc # "resolve" /\ unheard' = unheard \cup {Current(t)},
           \/ ledger' = ledger
           \/ run[t].pc = "append" /\ ledger' = Append(ledger, Current(t)),
           nextRun' = nextRun,
           RunOK(r, effects', unheard', nextRun)
    PROVE  IInv'
<1> DEFINE c == Current(t)
<1>1. /\ run' \in [Threads -> Runs] /\ \A u \in Threads : run'[u] = IF u = t THEN r ELSE run[u]
      /\ run[t] \in Runs /\ run[t].pc # "idle" /\ run[t].id \in RunIds
      /\ run[t].id \in Nat /\ run[t].done \in Nat /\ r.done \in Nat
    BY TypeParts, BoundsAssumption DEF IInv, RunTyped, Runs, RunIds
<1>2. RunOK(run[t], effects, unheard, nextRun) /\ SessionOK(run[t], effects, unheard)
      /\ Fresh(run[t], effects) /\ PendingOK(run[t], effects, unheard)
    BY <1>1 DEF IInv, Inv, RunsOK, RunOK
<1>3. c = Cur(run[t]) /\ c[1] = run[t].id /\ c[2] = run[t].done + 1
    BY DEF Current, Cur
<1>4. run[t].pc # "resolve" => c \in Actions
    BY <1>1, <1>2, <1>3, CurrentIsAction DEF SessionOK
<1>5. /\ effects \subseteq effects' /\ effects' \subseteq effects \cup {c}
      /\ unheard \subseteq unheard'
      /\ run[t].pc = "append" => c \in effects'
      /\ effects' # effects => run[t].pc # "resolve"
    BY <1>2 DEF StorePending, SessionOK
<1> HIDE DEF c
<1>6. TypeOK'
  <2>1. effects' \in SUBSET Actions /\ unheard' \in SUBSET Actions
    BY <1>4, <1>5, TypeParts DEF IInv, c
  <2>2. action_logs' \in SUBSET LogRows
    BY <1>1, TypeParts DEF IInv, StorePending, Runs
  <2>3. ledger' \in Seq(Actions)
    BY <1>4, TypeParts DEF IInv, c
  <2>4. \A u \in Threads : RunTyped(run'[u])
    BY <1>1, TypeParts DEF IInv
  <2>5. nextRun' \in 1..(MaxRuns + 1)
    BY TypeParts DEF IInv
  <2>6. QED
    BY <1>1, <2>1, <2>2, <2>3, <2>4, <2>5 DEF TypeOK, ObjectsTyped, RunTyped
<1>7. RunsOK'
  <2> SUFFICES ASSUME NEW u \in Threads
               PROVE  RunOK(run'[u], effects', unheard', nextRun)
    BY DEF RunsOK
  <2>1. CASE u = t
    BY <2>1, <1>1
  <2>2. CASE u # t
    <3>1. run[u] \in Runs /\ run'[u] = run[u] /\ RunOK(run[u], effects, unheard, nextRun)
      BY <1>1, <2>2, TypeParts DEF IInv, Inv, RunsOK
    <3>2. run[u].pc # "idle" => c[1] # run[u].id
      BY <1>1, <1>3, <2>2 DEF IInv, Inv, DistinctRuns
    <3>3. QED
      BY <3>1, <3>2, <1>5, RunKept
  <2>3. QED
    BY <2>1, <2>2
<1>8. DistinctRuns'
    BY <1>1 DEF IInv, Inv, DistinctRuns
<1>9. TablesOK'
  <2>1. \A e \in effects' : e[1] < nextRun
    BY <1>1, <1>2, <1>3, <1>5 DEF IInv, Inv, TablesOK, RunOK
  <2>2. ASSUME NEW l \in action_logs'
        PROVE  /\ l.action[1] < nextRun
               /\ LogSound(l, effects', unheard')
               /\ \A u \in Threads : run'[u].pc # "idle" /\ l.action[1] = run'[u].id
                                        => l.action[2] <= run'[u].done
    <3>1. l \in LogRows /\ l.action[2] \in Nat
      BY <1>6 DEF TypeOK, LogRows, Actions, Indices
    <3>2. CASE l \in action_logs
      <4>1. /\ l.action[1] < nextRun /\ LogSound(l, effects, unheard)
            /\ \A u \in Threads : run[u].pc # "idle" /\ l.action[1] = run[u].id
                                     => l.action[2] <= run[u].done
        BY <3>2 DEF IInv, Inv, TablesOK
      <4>2. l.action # c
        BY <4>1, <3>1, <1>1, <1>3
      <4>3. LogSound(l, effects', unheard')
        BY <4>1, <4>2, <1>5, SoundKept
      <4>4. QED
        BY <4>1, <4>3, <3>1, <1>1
    <3>3. CASE l \in run[t].logs
      <4>1. /\ l.action[1] = run[t].id /\ l.action[2] <= run[t].done
            /\ LogSound(l, effects, unheard)
        BY <3>3, <1>2 DEF PendingOK
      <4>2. l.action # c
        BY <4>1, <3>1, <1>1, <1>3
      <4>3. LogSound(l, effects', unheard')
        BY <4>1, <4>2, <1>5, SoundKept
      <4>4. l.action[1] < nextRun
        BY <4>1, <1>1, <1>2 DEF RunOK
      <4>5. ASSUME NEW u \in Threads, run'[u].pc # "idle", l.action[1] = run'[u].id
            PROVE  l.action[2] <= run'[u].done
        <5>1. u = t
          BY <4>5, <4>1, <1>1 DEF IInv, Inv, DistinctRuns
        <5>2. QED
          BY <5>1, <4>1, <3>1, <1>1
      <4>6. QED
        BY <4>3, <4>4, <4>5
    <3>4. QED
      BY <3>2, <3>3 DEF StorePending
  <2>3. QED
    BY <2>1, <2>2 DEF TablesOK
<1>10. LedgerMatchesEffects'
  <2>1. CASE ledger' = ledger
    BY <2>1, <1>5 DEF IInv, Inv, LedgerMatchesEffects
  <2>2. CASE run[t].pc = "append" /\ ledger' = Append(ledger, c)
    <3>1. ledger \in Seq(Actions) /\ ledger' \in Seq(Actions) /\ c \in Actions
      BY <2>2, <1>4, <1>6, TypeParts DEF IInv
    <3>2. /\ DOMAIN ledger' = 1..(Len(ledger) + 1) /\ DOMAIN ledger = 1..Len(ledger)
          /\ \A k \in DOMAIN ledger : ledger'[k] = ledger[k]
          /\ ledger'[Len(ledger) + 1] = c /\ Len(ledger) \in Nat
      BY <2>2, <3>1
    <3>3. c \notin effects
      <4>1. run[t].done + 1 \in Indices
        BY <1>1, <1>2, <2>2, CurrentIsAction DEF SessionOK
      <4>2. c = <<run[t].id, run[t].done + 1>>
        BY <1>3 DEF Cur
      <4>3. QED
        BY <4>1, <4>2, <1>1, <1>2, <2>2 DEF Fresh, Indices
    <3>4. \A k \in DOMAIN ledger : ledger[k] \in effects
      BY DEF IInv, Inv, LedgerMatchesEffects
    <3>5. ASSUME NEW k \in DOMAIN ledger' PROVE ledger'[k] \in effects'
      <4>1. k \in DOMAIN ledger \/ k = Len(ledger) + 1
        BY <3>2
      <4>2. c \in effects'
        BY <1>5, <2>2
      <4>3. QED
        BY <4>1, <4>2, <3>2, <3>4, <1>5
    <3>6. \A k, l \in DOMAIN ledger' : ledger'[k] = ledger'[l] => k = l
      BY <3>2, <3>3, <3>4 DEF IInv, Inv, LedgerMatchesEffects
    <3>7. QED
      BY <3>5, <3>6 DEF LedgerMatchesEffects
  <2>3. QED
    BY <2>1, <2>2 DEF c
<1>11. QED
    BY <1>6, <1>7, <1>8, <1>9, <1>10 DEF IInv, Inv

-----------------------------------------------------------------------------
(* The steps of a run                                                      *)

\* What the invariant says of one run in flight.
LEMMA RunFacts ==
    ASSUME IInv, NEW t \in Threads
    PROVE  /\ RunTyped(run[t]) /\ run[t] \in Runs
           /\ RunOK(run[t], effects, unheard, nextRun)
           /\ Current(t) = Cur(run[t])
           /\ ObjectsTyped
    BY TypeParts DEF IInv, Inv, RunsOK, RunTyped, Current, Cur

\* No action after the current one has its rows in the database.
NoneBeyond(r, eff) == \A i \in Indices : i > r.done /\ <<r.id, i>> \in eff => i = r.done + 1

\* While rows of the current action are pending, none are stored.
LEMMA CurrentFresh ==
    ASSUME IInv, NEW t \in Threads, run[t].rows,
           run[t].pc \in {"perform", "append", "commit"}
    PROVE  Cur(run[t]) \notin effects
<1>1. run[t].id \in RunIds /\ run[t].done < run[t].n /\ Fresh(run[t], effects)
    BY RunFacts DEF RunTyped, RunOK, SessionOK
<1>2. run[t].done + 1 \in Indices /\ run[t].done + 1 > run[t].done
    BY <1>1, RunFacts, CurrentIsAction, BoundsAssumption DEF Runs
<1>3. QED
    BY <1>1, <1>2 DEF Fresh, Cur

\* What _resolve leaves behind is in order if the log it adds is sound.
LEMMA ResolvedOK ==
    ASSUME NEW r, RunTyped(r), r.pc # "idle", ~r.rows, ~r.broken, r.done < r.n,
           NEW eff, NEW unh, NEW next, r.id < next,
           NoneBeyond(r, eff), PendingOK(r, eff, unh),
           NEW state \in Outcomes, LogSound(LogOf(r, state), eff, unh)
    PROVE  LET s == Resolved(r, state)
           IN  /\ RunTyped(s) /\ RunOK(s, eff, unh, next)
               /\ s.pc = "resolve" /\ s.id = r.id /\ s.done >= r.done
<1> DEFINE s == Resolved(r, state)
<1>1. /\ r \in Runs /\ r.id \in RunIds /\ r.agent \in Agents
      /\ r.done \in Nat /\ r.n \in Nat
    BY BoundsAssumption DEF RunTyped, Runs
<1>2. /\ s \in Runs /\ s.pc = "resolve" /\ s.agent = r.agent /\ s.id = r.id /\ s.n = r.n
      /\ s.done = r.done + 1 /\ s.rows = r.rows /\ s.broken = r.broken
      /\ s.logs = r.logs \cup {LogOf(r, state)}
    BY <1>1, ResolvedFacts
<1> HIDE DEF s
<1>3. RunTyped(s)
    BY <1>1, <1>2 DEF RunTyped
<1>4. SessionOK(s, eff, unh)
    BY <1>2 DEF SessionOK
<1>5. Fresh(s, eff)
    BY <1>1, <1>2 DEF Fresh, NoneBeyond, Indices
<1>6. PendingOK(s, eff, unh)
  <2> SUFFICES ASSUME NEW l \in s.logs
               PROVE  l.action[1] = s.id /\ l.action[2] <= s.done /\ LogSound(l, eff, unh)
    BY DEF PendingOK
  <2>1. CASE l = LogOf(r, state)
    BY <2>1, <1>1, <1>2 DEF LogOf
  <2>2. CASE l \in r.logs
    <3>1. l.action[1] = r.id /\ l.action[2] <= r.done /\ LogSound(l, eff, unh)
      BY <2>2 DEF PendingOK
    <3>2. l.action[2] \in Nat
      BY <2>2, <1>1 DEF Runs, LogRows, Actions, Indices
    <3>3. QED
      BY <3>1, <3>2, <1>1, <1>2
  <2>3. QED
    BY <2>1, <2>2, <1>2
<1>7. QED
    BY <1>1, <1>2, <1>3, <1>4, <1>5, <1>6 DEF RunOK, s

\* The same for a session that was just committed or rolled back.
LEMMA ClearedOK ==
    ASSUME NEW r, RunTyped(r), r.pc # "idle", r.done < r.n,
           NEW eff, NEW unh, NEW next, r.id < next, NoneBeyond(r, eff),
           NEW state \in Outcomes, LogSound(LogOf(r, state), eff, unh)
    PROVE  LET s == Resolved(Cleared(r), state)
           IN  /\ RunTyped(s) /\ RunOK(s, eff, unh, next)
               /\ s.pc = "resolve" /\ s.id = r.id /\ s.done >= r.done
<1> DEFINE q == Cleared(r)
<1>1. /\ q \in Runs /\ q.pc = r.pc /\ q.agent = r.agent /\ q.id = r.id /\ q.n = r.n
      /\ q.done = r.done /\ q.rows = FALSE /\ q.logs = {} /\ q.broken = FALSE
    BY ClearedFacts DEF RunTyped
<1> HIDE DEF q
<1>2. RunTyped(q) /\ NoneBeyond(q, eff) /\ PendingOK(q, eff, unh)
    BY <1>1 DEF RunTyped, NoneBeyond, PendingOK
<1>3. LogOf(q, state) = LogOf(r, state)
    BY <1>1 DEF LogOf
<1>4. QED
    BY <1>1, <1>2, <1>3, ResolvedOK DEF q

\* Fail() preserves the invariant, if the rows of the failed action are not
\* stored or their answer was lost.
LEMMA FailStep ==
    ASSUME IInv, NEW t \in Threads, run[t].pc \in {"perform", "commit"}, Fail(t),
           Cur(run[t]) \in effects => Cur(run[t]) \in unheard,
           UNCHANGED <<objects, database, history>>
    PROVE  IInv'
<1>1. /\ RunTyped(run[t]) /\ run[t].id < nextRun /\ run[t].done < run[t].n
      /\ NoneBeyond(run[t], effects) /\ ObjectsTyped'
    BY RunFacts DEF RunOK, SessionOK, Fresh, NoneBeyond, objects, database, ObjectsTyped
<1>2. LogSound(LogOf(run[t], "failed"), effects, unheard)
    BY DEF LogSound, LogOf, Cur
<1>3. LET s == Resolved(Cleared(run[t]), "failed")
      IN  /\ RunTyped(s) /\ RunOK(s, effects, unheard, nextRun)
          /\ s.pc = "resolve" /\ s.id = run[t].id /\ s.done >= run[t].done
    BY <1>1, <1>2, ClearedOK DEF Outcomes
<1>4. QED
    BY <1>1, <1>3, LocalStep DEF Fail, Continue, objects, database, history

\* Steps of run_once that move on with nothing pending.
LEMMA GoStep ==
    ASSUME IInv, NEW t \in Threads,
           run[t].pc \in {"start", "resolve", "record"},
           NEW pc \in {"observe", "recheck", "publish"}, pc = "recheck" => run[t].done < run[t].n,
           pc = "observe" => run[t].pc = "start",
           Continue(t, [run[t] EXCEPT !.pc = pc]),
           ObjectsTyped', UNCHANGED <<effects, action_logs, ledger, history>>
    PROVE  IInv'
<1> DEFINE r == [run[t] EXCEPT !.pc = pc]
<1>1. /\ r \in Runs /\ r.pc = pc /\ r.agent = run[t].agent /\ r.id = run[t].id
      /\ r.n = run[t].n /\ r.done = run[t].done /\ r.rows = run[t].rows
      /\ r.logs = run[t].logs /\ r.broken = run[t].broken
  <2>1. pc \in PCs /\ run[t] \in Runs
    BY RunFacts DEF PCs
  <2>2. QED
    BY <2>1, GoFacts
<1>2. run' = [run EXCEPT ![t] = r]
    BY DEF Continue
<1> HIDE DEF r
<1>3. RunTyped(r) /\ RunOK(r, effects, unheard, nextRun)
    BY <1>1, RunFacts DEF RunTyped, RunOK, SessionOK, Fresh, PendingOK, Cur
<1>4. r.done >= run[t].done
    BY <1>1, RunFacts, BoundsAssumption DEF Runs
<1>5. QED
    BY <1>1, <1>2, <1>3, <1>4, LocalStep

\* A new run has a number of its own and nothing pending.
LEMMA CallRunStep ==
    ASSUME IInv, NEW t \in Threads, NEW a \in Agents, CallRun(t, a)
    PROVE  IInv'
<1>a. /\ NoRun \in Runs /\ NoRun.n = 0 /\ NoRun.done = 0
      /\ NoRun.rows = FALSE /\ NoRun.logs = {} /\ NoRun.broken = FALSE
    BY BoundsAssumption DEF NoRun, Runs, PCs
<1>b. PICK q \in Runs : q = NoRun
    BY <1>a
<1> DEFINE r == [q EXCEPT !.pc = "start", !.agent = a, !.id = nextRun]
<1>1. /\ nextRun \in RunIds /\ nextRun' = nextRun + 1 /\ nextRun \in Nat
      /\ run' = [run EXCEPT ![t] = r] /\ run[t].pc = "idle"
      /\ run \in [Threads -> Runs]
    BY <1>b, TypeParts, BoundsAssumption DEF IInv, CallRun, Continue, RunIds
<1>2. /\ r.pc = "start" /\ r.id = nextRun /\ r.agent = a /\ r.n = 0 /\ r.done = 0
      /\ r.rows = FALSE /\ r.logs = {} /\ r.broken = FALSE /\ r \in Runs
  <2>1. /\ r \in Runs /\ r.pc = "start" /\ r.agent = a /\ r.id = nextRun
        /\ r.n = q.n /\ r.done = q.done
        /\ r.rows = q.rows /\ r.logs = q.logs /\ r.broken = q.broken
    <3>1. nextRun \in 0..MaxRuns
      BY <1>1, BoundsAssumption DEF RunIds
    <3>2. QED
      BY <3>1 DEF Runs, PCs
  <2> HIDE DEF r
  <2>2. QED
    BY <2>1, <1>a, <1>b
<1> HIDE DEF r
<1>3. run' \in [Threads -> Runs] /\ \A u \in Threads : run'[u] = IF u = t THEN r ELSE run[u]
    BY <1>1, <1>2
<1>4. UNCHANGED <<objects, database, unheard>>
    BY DEF CallRun
<1>5. TypeOK'
  <2>1. \A u \in Threads : RunTyped(run'[u])
    BY <1>1, <1>2, <1>3, TypeParts, BoundsAssumption DEF IInv, RunTyped
  <2>2. nextRun' \in 1..(MaxRuns + 1)
    BY <1>1, BoundsAssumption DEF RunIds
  <2>3. QED
    BY <1>3, <1>4, <2>1, <2>2, TypeParts
       DEF IInv, TypeOK, ObjectsTyped, RunTyped, objects, database
<1>6. RunsOK'
  <2> SUFFICES ASSUME NEW u \in Threads
               PROVE  RunOK(run'[u], effects, unheard, nextRun')
    BY <1>4 DEF RunsOK, database
  <2>1. CASE u = t
    <3>1. \A i \in Indices : <<r.id, i>> \notin effects
      BY <1>1, <1>2 DEF IInv, Inv, TablesOK
    <3>2. QED
      BY <3>1, <2>1, <1>1, <1>2, <1>3 DEF RunOK, SessionOK, Fresh, PendingOK
  <2>2. CASE u # t
    <3>1. run'[u] = run[u] /\ RunOK(run[u], effects, unheard, nextRun) /\ run[u].id \in Nat
      BY <2>2, <1>1, <1>3, BoundsAssumption DEF IInv, Inv, RunsOK, Runs
    <3>2. QED
      BY <3>1, <1>1 DEF RunOK
  <2>3. QED
    BY <2>1, <2>2
<1>7. DistinctRuns'
    BY <1>1, <1>2, <1>3 DEF IInv, Inv, DistinctRuns, RunsOK, RunOK
<1>8. TablesOK'
  <2>1. \A e \in effects : e[1] < nextRun'
    BY <1>1, TypeParts DEF IInv, Inv, TablesOK, Actions, RunIds
  <2>2. ASSUME NEW l \in action_logs
        PROVE  /\ l.action[1] < nextRun'
               /\ LogSound(l, effects, unheard)
               /\ \A u \in Threads : run'[u].pc # "idle" /\ l.action[1] = run'[u].id
                                        => l.action[2] <= run'[u].done
    <3>1. l.action[1] < nextRun /\ LogSound(l, effects, unheard) /\ l.action[1] \in Nat
      BY TypeParts DEF IInv, Inv, TablesOK, LogRows, Actions, RunIds
    <3>2. QED
      BY <3>1, <1>1, <1>2, <1>3 DEF IInv, Inv, TablesOK
  <2>3. QED
    BY <2>1, <2>2, <1>4 DEF TablesOK, database
<1>9. LedgerMatchesEffects'
    BY <1>4 DEF IInv, Inv, LedgerMatchesEffects, database
<1>10. QED
    BY <1>5, <1>6, <1>7, <1>8, <1>9 DEF IInv, Inv

\* What the handler of run_once leaves of the locals.
LEMMA BodyRaisesFacts ==
    ASSUME IInv, NEW t \in Threads, BodyRaises(t), run[t].pc \in {"observe", "resolve"},
           UNCHANGED agent_runs
    PROVE  LET r == [Cleared(run[t]) EXCEPT !.pc = "record", !.error = TRUE]
           IN  /\ RunTyped(r) /\ run' = [run EXCEPT ![t] = r]
               /\ r.pc = "record" /\ r.id = run[t].id /\ r.done >= run[t].done
               /\ r.rows = FALSE /\ r.broken = FALSE /\ r.logs = {} /\ r.done = run[t].done
               /\ ObjectsTyped' /\ nextRun' = nextRun /\ unheard' = unheard
<1> DEFINE q == Cleared(run[t])
           r == [q EXCEPT !.pc = "record", !.error = TRUE]
<1>1. /\ q \in Runs /\ q.agent = run[t].agent /\ q.id = run[t].id /\ q.n = run[t].n
      /\ q.done = run[t].done /\ q.rows = FALSE /\ q.logs = {} /\ q.broken = FALSE
    BY RunFacts, ClearedFacts
<1> HIDE DEF q
<1>2. /\ r \in Runs /\ r.pc = "record" /\ r.agent = run[t].agent /\ r.id = run[t].id
      /\ r.n = run[t].n /\ r.done = run[t].done
      /\ r.rows = FALSE /\ r.logs = {} /\ r.broken = FALSE
    BY <1>1 DEF Runs, PCs
<1>3. run' = [run EXCEPT ![t] = r]
    BY DEF BodyRaises, Continue, q
<1>4. ObjectsTyped' /\ nextRun' = nextRun /\ unheard' = unheard
  <2>1. \A a \in Agents : CountError(totals[a]) \in [runs : Nat, errors : Nat]
    BY RunFacts DEF ObjectsTyped, CountError
  <2>2. totals' = [totals EXCEPT ![run[t].agent] = CountError(@)]
    BY DEF BodyRaises
  <2>3. totals' \in [Agents -> [runs : Nat, errors : Nat]]
    BY <2>1, <2>2, RunFacts DEF ObjectsTyped
  <2>4. QED
    BY <2>3, RunFacts DEF BodyRaises, ObjectsTyped
<1> HIDE DEF r
<1>5. RunTyped(r) /\ r.done >= run[t].done
    BY <1>2, RunFacts, BoundsAssumption DEF RunTyped, Runs
<1>6. QED
    BY <1>2, <1>3, <1>4, <1>5 DEF r, q

\* observe() and think() store nothing.
LEMMA ObserveStep ==
    ASSUME IInv, NEW t \in Threads, Observe(t)
    PROVE  IInv'
<1>1. PICK n \in 0..MaxActions : Continue(t, [run[t] EXCEPT !.pc = "resolve", !.n = n])
    BY DEF Observe
<1> DEFINE r == [run[t] EXCEPT !.pc = "resolve", !.n = n]
<1>2. /\ r \in Runs /\ r.pc = "resolve" /\ r.agent = run[t].agent /\ r.id = run[t].id
      /\ r.n = n /\ r.done = run[t].done /\ r.rows = run[t].rows
      /\ r.logs = run[t].logs /\ r.broken = run[t].broken
    BY RunFacts DEF Runs, PCs
<1>3. run' = [run EXCEPT ![t] = r]
    BY <1>1 DEF Continue
<1> HIDE DEF r
<1>4. RunTyped(r) /\ RunOK(r, effects, unheard, nextRun) /\ r.done >= run[t].done
    BY <1>2, RunFacts, BoundsAssumption
       DEF Observe, RunTyped, RunOK, SessionOK, Fresh, PendingOK, Runs
<1>5. ObjectsTyped'
    BY RunFacts DEF Observe, ObjectsTyped, objects, database
<1>6. QED
    BY <1>2, <1>3, <1>4, <1>5, LocalStep DEF Observe, objects, database

\* Nor does the assignment of RUNNING.
LEMMA BeginStep ==
    ASSUME IInv, NEW t \in Threads, Begin(t)
    PROVE  IInv'
<1>1. ObjectsTyped'
    BY RunFacts DEF Begin, ObjectsTyped, AgentStatus, database
<1>2. QED
    BY <1>1, GoStep DEF Begin, database

\* A body that raises before anything of it is stored.
LEMMA BodyRaisesStep ==
    ASSUME IInv, NEW t \in Threads, ObserveRaises(t) \/ FinalRefused(t)
    PROVE  IInv'
<1> DEFINE r == [Cleared(run[t]) EXCEPT !.pc = "record", !.error = TRUE]
<1>1. /\ BodyRaises(t) /\ run[t].pc \in {"observe", "resolve"}
      /\ UNCHANGED <<effects, action_logs, agent_runs, ledger>>
    BY DEF ObserveRaises, FinalRefused, AtEnd, database
<1>2. /\ RunTyped(r) /\ run' = [run EXCEPT ![t] = r]
      /\ r.pc = "record" /\ r.id = run[t].id /\ r.done >= run[t].done
      /\ r.rows = FALSE /\ r.broken = FALSE /\ r.logs = {} /\ r.done = run[t].done
      /\ ObjectsTyped' /\ nextRun' = nextRun /\ unheard' = unheard
    BY <1>1, BodyRaisesFacts
<1> HIDE DEF r
<1>3. RunOK(r, effects, unheard, nextRun)
    BY <1>1, <1>2, RunFacts DEF RunOK, SessionOK, Fresh, PendingOK
<1>4. QED
    BY <1>1, <1>2, <1>3, LocalStep DEF history

\* A body whose last commit is stored and raises.
LEMMA FinalUnheardStep ==
    ASSUME IInv, NEW t \in Threads, FinalUnheard(t)
    PROVE  IInv'
<1> DEFINE r == [Cleared(run[t]) EXCEPT !.pc = "record", !.error = TRUE]
<1>1. /\ BodyRaises(t) /\ run[t].pc = "resolve" /\ StorePending(t)
      /\ UNCHANGED <<agent_runs, ledger>>
    BY DEF FinalUnheard, AtEnd
<1>2. /\ RunTyped(r) /\ run' = [run EXCEPT ![t] = r]
      /\ r.pc = "record" /\ r.id = run[t].id /\ r.done >= run[t].done
      /\ r.rows = FALSE /\ r.broken = FALSE /\ r.logs = {} /\ r.done = run[t].done
      /\ ObjectsTyped' /\ nextRun' = nextRun /\ unheard' = unheard
    BY <1>1, BodyRaisesFacts
<1> HIDE DEF r
<1>3. effects' = effects
    BY <1>1, RunFacts DEF StorePending, RunOK, SessionOK
<1>4. RunOK(r, effects', unheard', nextRun)
    BY <1>1, <1>2, <1>3, RunFacts DEF RunOK, SessionOK, Fresh, PendingOK
<1>5. QED
    BY <1>1, <1>2, <1>4, StoreStep

\* The last commit stores the logs that are pending, all of them sound.
LEMMA FinalCommitStep ==
    ASSUME IInv, NEW t \in Threads, FinalCommit(t)
    PROVE  IInv'
<1>1. PICK q \in Runs :
          /\ q = Cleared(run[t])
          /\ q.agent = run[t].agent /\ q.id = run[t].id /\ q.n = run[t].n
          /\ q.done = run[t].done /\ q.rows = FALSE /\ q.logs = {} /\ q.broken = FALSE
    BY RunFacts, ClearedFacts
<1> DEFINE r == [q EXCEPT !.pc = "record"]
<1>2. /\ r \in Runs /\ r.pc = "record" /\ r.agent = q.agent /\ r.id = q.id /\ r.n = q.n
      /\ r.done = q.done /\ r.rows = q.rows /\ r.logs = q.logs /\ r.broken = q.broken
    BY DEF Runs, PCs
<1>3. run' = [run EXCEPT ![t] = r] /\ run[t].pc = "resolve"
    BY <1>1 DEF FinalCommit, Continue, AtEnd
<1> HIDE DEF r
<1>4. ObjectsTyped'
    BY RunFacts DEF FinalCommit, ObjectsTyped, AgentStatus
<1>5. effects' = effects
    BY <1>3, RunFacts DEF FinalCommit, StorePending, RunOK, SessionOK
<1>6. RunTyped(r) /\ RunOK(r, effects', unheard', nextRun) /\ r.done >= run[t].done
    BY <1>1, <1>2, <1>3, <1>5, RunFacts, BoundsAssumption
       DEF FinalCommit, RunTyped, RunOK, SessionOK, Fresh, PendingOK, Runs
<1>7. QED
    BY <1>1, <1>2, <1>3, <1>4, <1>6, StoreStep DEF FinalCommit

\* perform_action adds rows of an action that has none stored.
LEMMA TestExecuteStep ==
    ASSUME IInv, NEW t \in Threads, TestExecute(t)
    PROVE  IInv'
<1>1. ObjectsTyped' /\ UNCHANGED <<effects, action_logs, ledger, history>>
    BY RunFacts DEF TestExecute, ObjectsTyped, objects, database
<1>2. run[t].pc = "resolve" /\ run[t].done < run[t].n
    BY DEF TestExecute
<1>3. CASE autonomy[run[t].agent] = "execute"
  <2> DEFINE r == [run[t] EXCEPT !.pc = "perform", !.rows = TRUE]
  <2>1. /\ r \in Runs /\ r.pc = "perform" /\ r.agent = run[t].agent /\ r.id = run[t].id
        /\ r.n = run[t].n /\ r.done = run[t].done /\ r.rows = TRUE
        /\ r.logs = run[t].logs /\ r.broken = run[t].broken
    BY RunFacts DEF Runs, PCs
  <2>2. run' = [run EXCEPT ![t] = r]
    BY <1>3 DEF TestExecute, Continue
  <2> HIDE DEF r
  <2>3. RunTyped(r) /\ RunOK(r, effects, unheard, nextRun) /\ r.done >= run[t].done
    BY <1>2, <2>1, RunFacts, BoundsAssumption
       DEF RunTyped, RunOK, SessionOK, Fresh, PendingOK, Runs
  <2>4. QED
    BY <1>1, <1>2, <2>1, <2>2, <2>3, LocalStep
<1>4. CASE autonomy[run[t].agent] # "execute"
    BY <1>1, <1>2, <1>4, GoStep DEF TestExecute
<1>5. QED
    BY <1>3, <1>4

\* An action that is simulated or blocked has no rows.
LEMMA TestSimulateStep ==
    ASSUME IInv, NEW t \in Threads, TestSimulate(t)
    PROVE  IInv'
<1>1. PICK state \in {"simulated", "blocked"} :
          run' = [run EXCEPT ![t] = Resolved(run[t], state)]
    BY DEF TestSimulate, Continue
<1>2. /\ RunTyped(run[t]) /\ run[t].id < nextRun /\ run[t].done < run[t].n
      /\ run[t].pc = "recheck" /\ ~run[t].rows /\ ~run[t].broken
      /\ NoneBeyond(run[t], effects) /\ PendingOK(run[t], effects, unheard)
    BY RunFacts DEF TestSimulate, RunOK, SessionOK, Fresh, NoneBeyond
<1>3. LogSound(LogOf(run[t], state), effects, unheard)
    BY DEF LogSound, LogOf
<1>4. LET s == Resolved(run[t], state)
      IN  /\ RunTyped(s) /\ RunOK(s, effects, unheard, nextRun)
          /\ s.pc = "resolve" /\ s.id = run[t].id /\ s.done >= run[t].done
    BY <1>2, <1>3, ResolvedOK DEF Outcomes
<1>5. ObjectsTyped' /\ UNCHANGED <<effects, action_logs, ledger, history>>
    BY RunFacts DEF TestSimulate, ObjectsTyped, objects, database
<1>6. QED
    BY <1>1, <1>2, <1>4, <1>5, LocalStep

\* perform_action raises before its rows are stored.
LEMMA PerformRaisesStep ==
    ASSUME IInv, NEW t \in Threads, PerformRaises(t)
    PROVE  IInv'
<1>1. run[t].pc = "perform" /\ Fail(t) /\ UNCHANGED <<objects, database, history>>
    BY DEF PerformRaises
<1>2. Cur(run[t]) \notin effects
    BY <1>1, RunFacts, CurrentFresh DEF RunOK, SessionOK
<1>3. QED
    BY <1>1, <1>2, FailStep

\* perform_action without an append, or up to the append.
LEMMA PerformStep ==
    ASSUME IInv, NEW t \in Threads, RecordNothing(t) \/ AppendRead(t)
    PROVE  IInv'
<1>1. PICK pc \in {"append", "commit"} : run' = [run EXCEPT ![t] = [run[t] EXCEPT !.pc = pc]]
    BY DEF RecordNothing, AppendRead, Continue
<1> DEFINE r == [run[t] EXCEPT !.pc = pc]
<1>2. /\ r \in Runs /\ r.pc = pc /\ r.agent = run[t].agent /\ r.id = run[t].id
      /\ r.n = run[t].n /\ r.done = run[t].done /\ r.rows = run[t].rows
      /\ r.logs = run[t].logs /\ r.broken = run[t].broken
    BY RunFacts DEF Runs, PCs
<1>3. run' = [run EXCEPT ![t] = r] /\ run[t].pc = "perform"
    BY <1>1 DEF RecordNothing, AppendRead
<1> HIDE DEF r
<1>4. ObjectsTyped' /\ UNCHANGED <<effects, action_logs, ledger, history>>
    BY RunFacts DEF RecordNothing, AppendRead, ObjectsTyped, objects, database
<1>5. RunTyped(r) /\ RunOK(r, effects, unheard, nextRun) /\ r.done >= run[t].done
    BY <1>2, <1>3, RunFacts, BoundsAssumption
       DEF RunTyped, RunOK, SessionOK, Fresh, PendingOK, Runs
<1>6. QED
    BY <1>2, <1>3, <1>4, <1>5, LocalStep

\* A refused append leaves a session that cannot commit.
LEMMA AppendRefusedStep ==
    ASSUME IInv, NEW t \in Threads, AppendRefused(t)
    PROVE  IInv'
<1>1. PICK q \in Runs :
          /\ q = Broken(run[t])
          /\ q.agent = run[t].agent /\ q.id = run[t].id /\ q.n = run[t].n
          /\ q.done = run[t].done /\ q.rows = FALSE /\ q.logs = {} /\ q.broken = TRUE
    BY RunFacts, BrokenFacts
<1> DEFINE r == [q EXCEPT !.pc = "commit"]
<1>2. /\ r \in Runs /\ r.pc = "commit" /\ r.agent = q.agent /\ r.id = q.id /\ r.n = q.n
      /\ r.done = q.done /\ r.rows = q.rows /\ r.logs = q.logs /\ r.broken = q.broken
    BY DEF Runs, PCs
<1>3. run' = [run EXCEPT ![t] = r] /\ run[t].pc = "append"
    BY <1>1 DEF AppendRefused, Continue
<1> HIDE DEF r
<1>4. ObjectsTyped' /\ UNCHANGED <<effects, action_logs, ledger, history>>
    BY RunFacts DEF AppendRefused, ObjectsTyped, objects, database
<1>5. Cur(run[t]) \notin effects /\ Cur(r) = Cur(run[t])
    BY <1>1, <1>2, <1>3, RunFacts, CurrentFresh DEF RunOK, SessionOK, Cur
<1>6. RunTyped(r) /\ RunOK(r, effects, unheard, nextRun) /\ r.done >= run[t].done
    BY <1>1, <1>2, <1>3, <1>5, RunFacts, BoundsAssumption
       DEF RunTyped, RunOK, SessionOK, Fresh, PendingOK, Runs
<1>7. QED
    BY <1>1, <1>2, <1>3, <1>4, <1>6, LocalStep

\* The append is stored, with or without an answer.
LEMMA AppendStoredStep ==
    ASSUME IInv, NEW t \in Threads, AppendCommits(t) \/ AppendUnheard(t)
    PROVE  IInv'
<1>1. PICK q \in Runs :
          /\ run' = [run EXCEPT ![t] = [q EXCEPT !.pc = "commit"]]
          /\ q.agent = run[t].agent /\ q.id = run[t].id /\ q.n = run[t].n
          /\ q.done = run[t].done /\ q.rows = FALSE /\ q.logs = {}
          /\ q.broken => unheard' = unheard \cup {Current(t)}
  <2>1. CASE AppendCommits(t)
    <3>1. run' = [run EXCEPT ![t] = [Cleared(run[t]) EXCEPT !.pc = "commit"]]
      BY <2>1 DEF AppendCommits, Continue
    <3>2. QED
      BY <3>1, RunFacts, ClearedFacts
  <2>2. CASE AppendUnheard(t)
    <3>1. run' = [run EXCEPT ![t] = [Broken(run[t]) EXCEPT !.pc = "commit"]]
          /\ unheard' = unheard \cup {Current(t)}
      BY <2>2 DEF AppendUnheard, Continue
    <3>2. QED
      BY <3>1, RunFacts, BrokenFacts
  <2>3. QED
    BY <2>1, <2>2
<1> DEFINE r == [q EXCEPT !.pc = "commit"]
<1>2. /\ r \in Runs /\ r.pc = "commit" /\ r.agent = q.agent /\ r.id = q.id /\ r.n = q.n
      /\ r.done = q.done /\ r.rows = q.rows /\ r.logs = q.logs /\ r.broken = q.broken
    BY DEF Runs, PCs
<1>3. /\ run' = [run EXCEPT ![t] = r] /\ run[t].pc = "append" /\ StorePending(t)
      /\ nextRun' = nextRun /\ ledger' = Append(ledger, Current(t))
      /\ unheard' = unheard \/ unheard' = unheard \cup {Current(t)}
    BY <1>1 DEF AppendCommits, AppendUnheard, history
<1> HIDE DEF r
<1>4. ObjectsTyped'
    BY RunFacts DEF AppendCommits, AppendUnheard, ObjectsTyped, objects
<1>5. /\ Cur(r) = Cur(run[t]) /\ Current(t) = Cur(run[t])
      /\ effects' = effects \cup {Cur(r)}
  <2>1. Cur(r) = Cur(run[t]) /\ Current(t) = Cur(run[t])
    BY <1>1, <1>2, RunFacts DEF Cur
  <2>2. run[t].rows
    BY <1>3, RunFacts DEF RunOK, SessionOK
  <2>3. effects' = effects \cup {Current(t)}
    BY <1>3, <2>2 DEF StorePending
  <2>4. QED
    BY <2>1, <2>3
<1>6. Fresh(r, effects')
  <2>1. \A i \in Indices : i > r.done => <<r.id, i>> \notin effects
    BY <1>1, <1>2, <1>3, RunFacts DEF RunOK, Fresh
  <2>2. QED
    BY <2>1, <1>1, <1>2, <1>5 DEF Fresh, Cur
<1>7. RunTyped(r) /\ RunOK(r, effects', unheard', nextRun) /\ r.done >= run[t].done
    BY <1>1, <1>2, <1>3, <1>5, <1>6, RunFacts, BoundsAssumption
       DEF RunTyped, RunOK, SessionOK, PendingOK, Runs
<1>8. QED
    BY <1>1, <1>2, <1>3, <1>4, <1>7, StoreStep

\* _resolve's commit raises: what it leaves is sound as a failure.
LEMMA CommitRefusedStep ==
    ASSUME IInv, NEW t \in Threads, CommitRefused(t)
    PROVE  IInv'
<1>1. /\ run[t].pc = "commit" /\ Fail(t) /\ UNCHANGED <<objects, database, history>>
      /\ run[t].broken \/ run[t].rows \/ run[t].logs # {}
    BY DEF CommitRefused, Pending
<1>2. Cur(run[t]) \in effects => Cur(run[t]) \in unheard
    BY <1>1, RunFacts, CurrentFresh DEF RunOK, SessionOK
<1>3. QED
    BY <1>1, <1>2, FailStep

\* A commit of _resolve that is stored has the action's rows stored after it.
LEMMA CommitStoredFacts ==
    ASSUME IInv, NEW t \in Threads, run[t].pc = "commit", ~run[t].broken, StorePending(t)
    PROVE  /\ RunTyped(run[t]) /\ run[t].id < nextRun /\ run[t].done < run[t].n
           /\ NoneBeyond(run[t], effects') /\ Cur(run[t]) \in effects'
<1>1. /\ RunTyped(run[t]) /\ run[t].id < nextRun /\ run[t].done < run[t].n
      /\ Fresh(run[t], effects)
    BY RunFacts DEF RunOK, SessionOK
<1>2. Cur(run[t]) \in effects'
    BY RunFacts DEF RunOK, SessionOK, StorePending
<1>3. effects' \subseteq effects \cup {Cur(run[t])}
    BY RunFacts DEF StorePending
<1>4. NoneBeyond(run[t], effects')
    BY <1>1, <1>3 DEF NoneBeyond, Fresh, Cur
<1>5. QED
    BY <1>1, <1>2, <1>4

\* The commit of _resolve that is heard of.
LEMMA CommitActionStep ==
    ASSUME IInv, NEW t \in Threads, CommitAction(t)
    PROVE  IInv'
<1>1. /\ run[t].pc = "commit" /\ ~run[t].broken /\ StorePending(t)
      /\ run' = [run EXCEPT ![t] = Resolved(Cleared(run[t]), "executed")]
      /\ UNCHANGED <<objects, agent_runs, ledger, history>>
    BY DEF CommitAction, Continue
<1>2. LogSound(LogOf(run[t], "executed"), effects', unheard')
    BY <1>1, CommitStoredFacts DEF LogSound, LogOf, Cur
<1>3. LET s == Resolved(Cleared(run[t]), "executed")
      IN  /\ RunTyped(s) /\ RunOK(s, effects', unheard', nextRun)
          /\ s.pc = "resolve" /\ s.id = run[t].id /\ s.done >= run[t].done
    BY <1>1, <1>2, CommitStoredFacts, ClearedOK DEF Outcomes
<1>4. ObjectsTyped'
    BY <1>1, RunFacts DEF ObjectsTyped, objects
<1>5. QED
    BY <1>1, <1>3, <1>4, StoreStep DEF history

\* The commit of _resolve whose answer is lost.
LEMMA CommitUnheardStep ==
    ASSUME IInv, NEW t \in Threads, CommitUnheard(t)
    PROVE  IInv'
<1>1. /\ run[t].pc = "commit" /\ ~run[t].broken /\ StorePending(t)
      /\ run' = [run EXCEPT ![t] = Resolved(Cleared(run[t]), "failed")]
      /\ unheard' = unheard \cup {Current(t)}
      /\ UNCHANGED <<objects, agent_runs, ledger, nextRun>>
    BY DEF CommitUnheard, Fail, Continue
<1>2. LogSound(LogOf(run[t], "failed"), effects', unheard')
    BY <1>1, RunFacts DEF LogSound, LogOf, Cur
<1>3. LET s == Resolved(Cleared(run[t]), "failed")
      IN  /\ RunTyped(s) /\ RunOK(s, effects', unheard', nextRun)
          /\ s.pc = "resolve" /\ s.id = run[t].id /\ s.done >= run[t].done
    BY <1>1, <1>2, CommitStoredFacts, ClearedOK DEF Outcomes
<1>4. ObjectsTyped'
    BY <1>1, RunFacts DEF ObjectsTyped, objects
<1>5. QED
    BY <1>1, <1>3, <1>4, StoreStep

\* The AgentRun row is no part of what the invariant is about.
LEMMA RecordRunStep ==
    ASSUME IInv, NEW t \in Threads, RecordRun(t)
    PROVE  IInv'
<1>1. run[t].pc = "record" /\ UNCHANGED <<status, autonomy, effects, action_logs, ledger, history>>
    BY DEF RecordRun
<1>2. /\ run[t].id \in RunIds /\ run[t].done \in 0..MaxActions /\ run[t].agent \in Agents
    BY <1>1, RunFacts DEF RunTyped, Runs
<1>3. totals' \in [Agents -> [runs : Nat, errors : Nat]]
  <2>1. \A a \in Agents : CountRun(totals[a]) \in [runs : Nat, errors : Nat]
    BY RunFacts DEF ObjectsTyped, CountRun
  <2>2. totals' = [totals EXCEPT ![run[t].agent] = CountRun(@)]
    BY DEF RecordRun
  <2>3. QED
    BY <2>1, <2>2, RunFacts DEF ObjectsTyped
<1>4. ObjectsTyped'
  <2> DEFINE row == [id |-> run[t].id, num_actions |-> run[t].done,
                     status |-> IF run[t].error THEN "error" ELSE "ok"]
  <2>1. row \in [id : RunIds, num_actions : 0..MaxActions, status : {"ok", "error"}]
    BY <1>2
  <2>2. agent_runs' = agent_runs \/ agent_runs' = agent_runs \cup {row}
    BY DEF RecordRun
  <2> HIDE DEF row
  <2>3. QED
    BY <1>1, <1>3, <2>1, <2>2, RunFacts DEF ObjectsTyped
<1>5. QED
    BY <1>1, <1>4, GoStep DEF RecordRun

\* A thread in no run is in order.
LEMMA NoRunFacts ==
    /\ NoRun \in Runs /\ NoRun.pc = "idle" /\ RunTyped(NoRun)
    /\ NoRun.rows = FALSE /\ NoRun.logs = {} /\ NoRun.broken = FALSE
<1>1. NoRun \in Runs /\ NoRun.pc = "idle" /\ NoRun.done = 0 /\ NoRun.n = 0
    BY BoundsAssumption DEF NoRun, Runs, PCs
<1>2. NoRun.rows = FALSE /\ NoRun.logs = {} /\ NoRun.broken = FALSE
    BY DEF NoRun
<1>3. QED
    BY <1>1, <1>2 DEF RunTyped

\* run_once returns.
LEMMA PublishStep ==
    ASSUME IInv, NEW t \in Threads, Publish(t)
    PROVE  IInv'
<1>1. ObjectsTyped' /\ UNCHANGED <<effects, action_logs, ledger, history>>
    BY RunFacts DEF Publish, ObjectsTyped, objects, database
<1>2. run' = [run EXCEPT ![t] = NoRun] /\ RunOK(NoRun, effects, unheard, nextRun)
    BY NoRunFacts DEF Publish, Continue, RunOK
<1>3. QED
    BY <1>1, <1>2, NoRunFacts, LocalStep

\* The other callers change no run and no row.
LEMMA ObjectsStep ==
    ASSUME IInv, ObjectsTyped', UNCHANGED <<run, database, history>>
    PROVE  IInv'
<1>1. TypeOK'
    BY TypeParts DEF IInv, TypeOK, ObjectsTyped, database, history
<1>2. Inv'
    BY DEF IInv, Inv, RunsOK, DistinctRuns, TablesOK, LedgerMatchesEffects, database, history
<1>3. QED
    BY <1>1, <1>2 DEF IInv

\* set_autonomy(), disable() and enable().
LEMMA CallersStep ==
    ASSUME IInv, NEW a \in Agents,
           Disable(a) \/ Enable(a) \/ \E level \in AutonomyLevel : SetAutonomy(a, level)
    PROVE  IInv'
<1>1. ObjectsTyped
    BY TypeParts DEF IInv
<1>2. ObjectsTyped'
    BY <1>1 DEF Disable, Enable, SetAutonomy, ObjectsTyped, AgentStatus, database
<1>3. QED
    BY <1>2, ObjectsStep DEF Disable, Enable, SetAutonomy

\* A crash leaves the tables and no run.
LEMMA CrashStep ==
    ASSUME IInv, Crash
    PROVE  IInv'
<1>1. run' = [t \in Threads |-> NoRun] /\ UNCHANGED <<database, nextRun, unheard>>
    BY DEF Crash
<1>2. /\ status' \in [Agents -> AgentStatus] /\ autonomy' \in [Agents -> AutonomyLevel]
      /\ totals' \in [Agents -> [runs : Nat, errors : Nat]]
    BY DEF Crash, AgentStatus
<1>3. \A t \in Threads : run'[t] = NoRun
    BY <1>1
<1>4. TypeOK'
    BY <1>1, <1>2, <1>3, NoRunFacts, TypeParts
       DEF IInv, TypeOK, ObjectsTyped, RunTyped, database
<1>5. Inv'
    BY <1>1, <1>3, NoRunFacts
       DEF IInv, Inv, RunsOK, RunOK, DistinctRuns, TablesOK, LedgerMatchesEffects, database
<1>6. QED
    BY <1>4, <1>5 DEF IInv

\* Every step of run_once preserves the invariant.
LEMMA StepInv ==
    ASSUME IInv, NEW t \in Threads, Step(t)
    PROVE  IInv'
<1>1. CASE Begin(t) \/ Observe(t)
    BY <1>1, BeginStep, ObserveStep
<1>2. CASE ObserveRaises(t) \/ FinalRefused(t)
    BY <1>2, BodyRaisesStep
<1>3. CASE TestExecute(t) \/ TestSimulate(t)
    BY <1>3, TestExecuteStep, TestSimulateStep
<1>4. CASE PerformRaises(t) \/ RecordNothing(t) \/ AppendRead(t)
    BY <1>4, PerformRaisesStep, PerformStep
<1>5. CASE AppendCommits(t) \/ AppendRefused(t) \/ AppendUnheard(t)
    BY <1>5, AppendStoredStep, AppendRefusedStep
<1>6. CASE CommitAction(t) \/ CommitRefused(t) \/ CommitUnheard(t)
    BY <1>6, CommitActionStep, CommitRefusedStep, CommitUnheardStep
<1>7. CASE FinalCommit(t) \/ FinalUnheard(t)
    BY <1>7, FinalCommitStep, FinalUnheardStep
<1>8. CASE RecordRun(t) \/ Publish(t)
    BY <1>8, RecordRunStep, PublishStep
<1>9. QED
    BY <1>1, <1>2, <1>3, <1>4, <1>5, <1>6, <1>7, <1>8 DEF Step

\* The invariant holds at the start.
LEMMA InitInv == Init => IInv
<1> SUFFICES ASSUME Init PROVE IInv
    OBVIOUS
<1>1. \A t \in Threads : run[t] = NoRun
    BY DEF Init
<1>2. ObjectsTyped
    BY DEF Init, ObjectsTyped, AgentStatus
<1>3. TypeOK
    BY <1>1, <1>2, NoRunFacts, TypeParts, BoundsAssumption DEF Init
<1>4. RunsOK /\ DistinctRuns
    BY <1>1, NoRunFacts DEF RunsOK, RunOK, DistinctRuns
<1>5. TablesOK /\ LedgerMatchesEffects
    BY DEF Init, TablesOK, LedgerMatchesEffects
<1>6. QED
    BY <1>3, <1>4, <1>5 DEF IInv, Inv

\* Every step preserves the invariant.
LEMMA NextInv == IInv /\ [Next]_vars => IInv'
<1> SUFFICES ASSUME IInv, [Next]_vars PROVE IInv'
    OBVIOUS
<1>1. ASSUME NEW t \in Threads, Step(t) PROVE IInv'
    BY <1>1, StepInv
<1>2. ASSUME NEW t \in Threads, NEW a \in Agents, CallRun(t, a) PROVE IInv'
    BY <1>2, CallRunStep
<1>3. ASSUME NEW a \in Agents,
             Disable(a) \/ Enable(a) \/ \E level \in AutonomyLevel : SetAutonomy(a, level)
      PROVE  IInv'
    BY <1>3, CallersStep
<1>4. CASE Crash
    BY <1>4, CrashStep
<1>5. CASE UNCHANGED vars
  <2>1. UNCHANGED <<run, database, history>> /\ UNCHANGED objects
    BY <1>5 DEF vars
  <2>2. ObjectsTyped'
    BY <2>1, TypeParts DEF IInv, ObjectsTyped, objects, database
  <2>3. QED
    BY <2>1, <2>2, ObjectsStep
<1>6. QED
    BY <1>1, <1>2, <1>3, <1>4, <1>5 DEF Next

-----------------------------------------------------------------------------
(* The theorems                                                            *)

\* The inductive invariant holds in every reachable state of BaseAgent.run_once
\* and its callers (base_agent.py:65-188).
THEOREM InductiveInvariant == Spec => []IInv
<1>1. QED
    BY InitInv, NextInv, PTL DEF Spec

\* Types are kept; in particular a run never resolves more actions than its
\* think() returned (base_agent.py:133-151).
THEOREM TypeCorrect == Spec => []TypeOK
<1>1. IInv => TypeOK
    BY DEF IInv
<1>2. QED
    BY <1>1, InductiveInvariant, PTL

\* However runs, threads, failures and crashes interleave, an action logged as
\* executed has its rows (base_agent.py:107-109, 134-151).
THEOREM ExecutedActionsHaveEffect == Spec => []ExecutedHasEffect
<1>1. IInv => ExecutedHasEffect
    BY DEF IInv, Inv, TablesOK, ExecutedHasEffect, LoggedAs, LogSound
<1>2. QED
    BY <1>1, InductiveInvariant, PTL

\* An action logged as failed has rows only if the answer to their commit was
\* lost (base_agent.py:110-113).
THEOREM FailedActionsHaveNoEffect == Spec => []FailedHasNoEffect
<1>1. IInv => FailedHasNoEffect
    BY DEF IInv, Inv, TablesOK, FailedHasNoEffect, LoggedAs, LogSound
<1>2. QED
    BY <1>1, InductiveInvariant, PTL

\* The ledger speaks of stored actions only, and of each at most once
\* (fabric_client.py:29-30 on the session of base_agent.py:124).
THEOREM LedgerAgreesWithTables == Spec => []LedgerMatchesEffects
<1>1. IInv => LedgerMatchesEffects
    BY DEF IInv, Inv
<1>2. QED
    BY <1>1, InductiveInvariant, PTL

-----------------------------------------------------------------------------
(* The status of an agent                                                  *)

Busy == {"observe", "resolve", "recheck", "perform", "append", "commit"}

\* What a step of t does to its locals, and to status and totals of the agent.
\* A run keeps its agent, and is busy until one of the two last steps.
Moves(t, r) ==
    /\ r \in Runs /\ run' = [run EXCEPT ![t] = r]
    /\ r.agent = run[t].agent \/ (r = NoRun /\ run[t].pc = "publish")

Quiet(t, r)  == run[t].pc \in Busy /\ r.pc \in Busy /\ UNCHANGED <<status, totals>>
Starts(t, r) == /\ run[t].pc = "start" /\ r.pc = "observe" /\ UNCHANGED totals
                /\ status' = [status EXCEPT ![run[t].agent] = "running"]
Raises(t, r) == /\ run[t].pc \in Busy /\ UNCHANGED status
                /\ totals' = [totals EXCEPT ![run[t].agent] = CountError(@)]
Ends(t, r)   == /\ run[t].pc \in Busy /\ UNCHANGED totals
                /\ status' = [status EXCEPT ![run[t].agent] = "idle"]
Leaves(t, r) == /\ run[t].pc \in {"record", "publish"} /\ UNCHANGED status
                /\ totals' = totals \/ totals' = [totals EXCEPT ![run[t].agent] = CountRun(@)]

\* A change of pc is a move.
LEMMA GoMoves ==
    ASSUME IInv, NEW t \in Threads, NEW q \in Runs, q.agent = run[t].agent,
           NEW pc \in PCs, run' = [run EXCEPT ![t] = [q EXCEPT !.pc = pc]]
    PROVE  \E r \in Runs : Moves(t, r) /\ r.pc = pc
<1> DEFINE r == [q EXCEPT !.pc = pc]
<1>1. r \in Runs /\ r.pc = pc /\ r.agent = q.agent
    BY DEF Runs
<1>2. run' = [run EXCEPT ![t] = r]
    OBVIOUS
<1> HIDE DEF r
<1>3. Moves(t, r)
    BY <1>1, <1>2 DEF Moves
<1>4. QED
    BY <1>1, <1>3

\* So is the end of _resolve.
LEMMA ResolvedMoves ==
    ASSUME IInv, NEW t \in Threads, NEW q \in Runs, NEW state \in Outcomes,
           q.agent = run[t].agent, q.id = run[t].id, q.n = run[t].n, q.done = run[t].done,
           run[t].pc \in {"recheck", "perform", "append", "commit"},
           run' = [run EXCEPT ![t] = Resolved(q, state)]
    PROVE  \E r \in Runs : Moves(t, r) /\ r.pc = "resolve"
<1>1. q.id \in RunIds /\ q.done < q.n
    BY RunFacts DEF RunTyped, RunOK, SessionOK
<1> DEFINE r == Resolved(q, state)
<1>2. r \in Runs /\ r.pc = "resolve" /\ r.agent = q.agent
    BY <1>1, ResolvedFacts
<1>3. run' = [run EXCEPT ![t] = r]
    OBVIOUS
<1> HIDE DEF r
<1>4. Moves(t, r)
    BY <1>2, <1>3 DEF Moves
<1>5. QED
    BY <1>2, <1>4

\* Every step of run_once is one of five kinds, as far as the status goes.
LEMMA StepMoves ==
    ASSUME IInv, NEW t \in Threads, Step(t)
    PROVE  \E r \in Runs :
              Moves(t, r) /\ (Quiet(t, r) \/ Starts(t, r) \/ Raises(t, r) \/ Ends(t, r)
                              \/ Leaves(t, r))
<1> USE RunFacts
<1>c. LET q == Cleared(run[t])
      IN  /\ q \in Runs /\ q.agent = run[t].agent /\ q.id = run[t].id /\ q.n = run[t].n
          /\ q.done = run[t].done
    BY ClearedFacts
<1>b. Broken(run[t]) \in Runs /\ Broken(run[t]).agent = run[t].agent
    BY BrokenFacts
<1>1. CASE Begin(t)
  <2>1. \E r \in Runs : Moves(t, r) /\ r.pc = "observe"
    BY <1>1, GoMoves DEF Begin, Continue, PCs
  <2>2. QED
    BY <1>1, <2>1 DEF Begin, Starts
<1>2. CASE Observe(t)
  <2>1. PICK n \in 0..MaxActions :
            run' = [run EXCEPT ![t] = [run[t] EXCEPT !.pc = "resolve", !.n = n]]
    BY <1>2 DEF Observe, Continue
  <2> DEFINE r == [run[t] EXCEPT !.pc = "resolve", !.n = n]
  <2>2. r \in Runs /\ r.pc = "resolve" /\ r.agent = run[t].agent
    BY DEF Runs, PCs
  <2>3. run' = [run EXCEPT ![t] = r]
    BY <2>1
  <2> HIDE DEF r
  <2>4. Moves(t, r) /\ Quiet(t, r)
    BY <1>2, <2>2, <2>3 DEF Observe, Moves, Quiet, Busy, objects
  <2>5. QED
    BY <2>2, <2>4
<1>3. CASE ObserveRaises(t) \/ FinalRefused(t) \/ FinalUnheard(t)
  <2>1. BodyRaises(t) /\ run[t].pc \in {"observe", "resolve"} /\ agent_runs' = agent_runs
    BY <1>3 DEF ObserveRaises, FinalRefused, FinalUnheard, AtEnd, database
  <2> DEFINE r == [Cleared(run[t]) EXCEPT !.pc = "record", !.error = TRUE]
  <2>2. RunTyped(r) /\ run' = [run EXCEPT ![t] = r]
    BY <2>1, BodyRaisesFacts
  <2>3. r.agent = run[t].agent
    BY <1>c DEF Runs
  <2> HIDE DEF r
  <2>4. Moves(t, r) /\ Raises(t, r) /\ r \in Runs
    BY <2>1, <2>2, <2>3 DEF BodyRaises, Moves, Raises, Busy, RunTyped
  <2>5. QED
    BY <2>4
<1>4. CASE TestExecute(t)
  <2>1. CASE autonomy[run[t].agent] = "execute"
    <3> DEFINE r == [run[t] EXCEPT !.pc = "perform", !.rows = TRUE]
    <3>1. r \in Runs /\ r.pc = "perform" /\ r.agent = run[t].agent
      BY DEF Runs, PCs
    <3>2. run' = [run EXCEPT ![t] = r]
      BY <1>4, <2>1 DEF TestExecute, Continue
    <3> HIDE DEF r
    <3>3. Moves(t, r) /\ Quiet(t, r)
      BY <1>4, <3>1, <3>2 DEF TestExecute, Moves, Quiet, Busy, objects
    <3>4. QED
      BY <3>1, <3>3
  <2>2. CASE autonomy[run[t].agent] # "execute"
    <3>1. \E r \in Runs : Moves(t, r) /\ r.pc = "recheck"
      BY <1>4, <2>2, GoMoves DEF TestExecute, Continue, PCs
    <3>2. QED
      BY <1>4, <3>1 DEF TestExecute, Quiet, Busy, objects
  <2>3. QED
    BY <2>1, <2>2
<1>5. CASE TestSimulate(t) \/ PerformRaises(t) \/ CommitAction(t) \/ CommitRefused(t)
           \/ CommitUnheard(t)
  <2>1. /\ run[t].pc \in {"recheck", "perform", "append", "commit"}
        /\ UNCHANGED <<status, totals>>
    BY <1>5 DEF TestSimulate, PerformRaises, CommitAction, CommitRefused, CommitUnheard,
                objects
  <2>2. PICK q \in {run[t], Cleared(run[t])}, state \in Outcomes :
            run' = [run EXCEPT ![t] = Resolved(q, state)]
    BY <1>5 DEF TestSimulate, PerformRaises, CommitAction, CommitRefused, CommitUnheard,
                Fail, Continue, Outcomes
  <2>3. \E r \in Runs : Moves(t, r) /\ r.pc = "resolve"
    BY <2>1, <2>2, <1>c, ResolvedMoves
  <2>4. QED
    BY <2>1, <2>3 DEF Quiet, Busy
<1>6. CASE RecordNothing(t) \/ AppendRead(t) \/ AppendCommits(t) \/ AppendRefused(t)
           \/ AppendUnheard(t)
  <2>1. run[t].pc \in Busy /\ UNCHANGED <<status, totals>>
    BY <1>6 DEF RecordNothing, AppendRead, AppendCommits, AppendRefused, AppendUnheard,
                Busy, objects
  <2>2. PICK q \in {run[t], Cleared(run[t]), Broken(run[t])}, pc \in {"append", "commit"} :
            run' = [run EXCEPT ![t] = [q EXCEPT !.pc = pc]]
    BY <1>6 DEF RecordNothing, AppendRead, AppendCommits, AppendRefused, AppendUnheard,
                Continue
  <2>3. q \in Runs /\ q.agent = run[t].agent /\ pc \in PCs
    BY <2>2, <1>b, <1>c DEF PCs
  <2>4. \E r \in Runs : Moves(t, r) /\ r.pc = pc
    BY <2>2, <2>3, GoMoves
  <2>5. QED
    BY <2>1, <2>4 DEF Quiet, Busy
<1>7. CASE FinalCommit(t)
  <2>1. run' = [run EXCEPT ![t] = [Cleared(run[t]) EXCEPT !.pc = "record"]]
    BY <1>7 DEF FinalCommit, Continue
  <2>2. \E r \in Runs : Moves(t, r) /\ r.pc = "record"
    BY <2>1, <1>c, GoMoves DEF PCs
  <2>3. QED
    BY <1>7, <2>2 DEF FinalCommit, AtEnd, Ends, Busy
<1>8. CASE RecordRun(t)
  <2>1. \E r \in Runs : Moves(t, r) /\ r.pc = "publish"
    BY <1>8, GoMoves DEF RecordRun, Continue, PCs
  <2>2. QED
    BY <1>8, <2>1 DEF RecordRun, Leaves
<1>9. CASE Publish(t)
  <2>1. Moves(t, NoRun)
    BY <1>9, NoRunFacts DEF Publish, Continue, Moves
  <2>2. QED
    BY <1>9, <2>1, NoRunFacts DEF Publish, Leaves, objects
<1>10. QED
    BY <1>1, <1>2, <1>3, <1>4, <1>5, <1>6, <1>7, <1>8, <1>9 DEF Step

\* A running agent has a busy run, or has had an error.
StatusOK ==
    \A a \in Agents : status[a] = "running" =>
        \/ totals[a].errors > 0
        \/ \E t \in Threads : run[t].agent = a /\ run[t].pc \in Busy

\* Each kind preserves StatusOK: the error count covers the run that raises.
LEMMA StatusStep ==
    ASSUME IInv, StatusOK, NEW t \in Threads, Step(t)
    PROVE  StatusOK'
<1>1. PICK r \in Runs :
          Moves(t, r) /\ (Quiet(t, r) \/ Starts(t, r) \/ Raises(t, r) \/ Ends(t, r)
                          \/ Leaves(t, r))
    BY StepMoves
<1>2. /\ \A u \in Threads : run'[u] = IF u = t THEN r ELSE run[u]
      /\ run[t].pc # "publish" => r.agent = run[t].agent
    BY <1>1, TypeParts DEF IInv, Moves
<1>3. /\ status \in [Agents -> AgentStatus]
      /\ totals \in [Agents -> [runs : Nat, errors : Nat]]
    BY TypeParts DEF IInv, ObjectsTyped
<1>4. SUFFICES ASSUME NEW a \in Agents, status'[a] = "running", ~(totals'[a].errors > 0)
               PROVE  \E u \in Threads : run'[u].agent = a /\ run'[u].pc \in Busy
    BY DEF StatusOK
<1>5. CASE Quiet(t, r)
  <2>1. PICK u \in Threads : run[u].agent = a /\ run[u].pc \in Busy
    BY <1>4, <1>5 DEF StatusOK, Quiet
  <2>2. QED
    BY <2>1, <1>2, <1>5 DEF Quiet, Busy
<1>6. CASE Starts(t, r)
  <2>1. CASE run[t].agent = a
    BY <2>1, <1>2, <1>6 DEF Starts, Busy
  <2>2. CASE run[t].agent # a
    <3>1. PICK u \in Threads : run[u].agent = a /\ run[u].pc \in Busy
      BY <1>3, <1>4, <1>6, <2>2 DEF StatusOK, Starts
    <3>2. QED
      BY <3>1, <1>2, <2>2
  <2>3. QED
    BY <2>1, <2>2
<1>7. CASE Raises(t, r) \/ Ends(t, r)
  <2>1. \A b \in Agents : CountError(totals[b]).errors > 0
    BY <1>3 DEF CountError
  <2>2. run[t].agent # a
    BY <2>1, <1>3, <1>4, <1>7 DEF Raises, Ends
  <2>3. status[a] = "running" /\ totals'[a] = totals[a]
    BY <2>2, <1>3, <1>4, <1>7 DEF Raises, Ends
  <2>4. PICK u \in Threads : run[u].agent = a /\ run[u].pc \in Busy
    BY <2>3, <1>4 DEF StatusOK
  <2>5. QED
    BY <2>2, <2>4, <1>2
<1>8. CASE Leaves(t, r)
  <2>1. \A b \in Agents : CountRun(totals[b]).errors = totals[b].errors
    BY <1>3 DEF CountRun
  <2>2. totals'[a].errors = totals[a].errors /\ status[a] = "running"
    BY <2>1, <1>3, <1>4, <1>8 DEF Leaves
  <2>3. PICK u \in Threads : run[u].agent = a /\ run[u].pc \in Busy
    BY <2>2, <1>4 DEF StatusOK
  <2>4. u # t
    BY <2>3, <1>8 DEF Leaves, Busy
  <2>5. QED
    BY <2>3, <2>4, <1>2
<1>9. QED
    BY <1>1, <1>5, <1>6, <1>7, <1>8

\* So does every step of the system.
LEMMA StatusNext == IInv /\ StatusOK /\ [Next]_vars => StatusOK'
<1> SUFFICES ASSUME IInv, StatusOK, [Next]_vars PROVE StatusOK'
    OBVIOUS
<1> USE DEF objects, database, history
<1>1. /\ status \in [Agents -> AgentStatus] /\ run \in [Threads -> Runs]
    BY TypeParts DEF IInv, ObjectsTyped
<1>2. ASSUME NEW t \in Threads, Step(t) PROVE StatusOK'
    BY <1>2, StatusStep
<1>3. ASSUME NEW t \in Threads, NEW b \in Agents, CallRun(t, b) PROVE StatusOK'
  <2>1. run[t].pc \notin Busy /\ \A u \in Threads : u # t => run'[u] = run[u]
    BY <1>1, <1>3 DEF CallRun, Continue, Busy
  <2>2. QED
    BY <1>3, <2>1 DEF CallRun, StatusOK
<1>4. ASSUME NEW b \in Agents,
             Disable(b) \/ Enable(b) \/ \E level \in AutonomyLevel : SetAutonomy(b, level)
      PROVE  StatusOK'
    BY <1>1, <1>4 DEF Disable, Enable, SetAutonomy, StatusOK
<1>5. CASE Crash
    BY <1>5 DEF Crash, StatusOK
<1>6. CASE UNCHANGED vars
    BY <1>6 DEF vars, StatusOK
<1>7. QED
    BY <1>2, <1>3, <1>4, <1>5, <1>6 DEF Next

\* An agent that still says "running" when none of its runs is in flight has
\* had a run that raised (base_agent.py:122, 153-159).
THEOREM StuckRunningIsExplained == Spec => []StuckRunningExplained
<1>1. Init => StatusOK
    BY DEF Init, StatusOK
<1>2. StatusOK => StuckRunningExplained
    BY DEF StatusOK, StuckRunningExplained, AtRest
<1>3. QED
    BY <1>1, <1>2, StatusNext, InductiveInvariant, PTL DEF Spec

\* The step behind DisableHolds.
DisableStep ==
    \A a \in Agents :
        status[a] = "disabled" /\ AtRest(a) =>
            /\ AtRest(a)'
            /\ \/ status'[a] = "disabled"
               \/ run' \in {run, [t \in Threads |-> NoRun]}

\* No step of the system breaks the promise of disable().
LEMMA DisableNext == IInv /\ [Next]_vars => DisableStep
<1> SUFFICES ASSUME IInv, [Next]_vars, NEW a \in Agents, status[a] = "disabled", AtRest(a)
             PROVE  /\ AtRest(a)'
                    /\ \/ status'[a] = "disabled"
                       \/ run' \in {run, [t \in Threads |-> NoRun]}
    BY DEF DisableStep
<1> USE DEF objects, database, history
<1>1. /\ status \in [Agents -> AgentStatus] /\ run \in [Threads -> Runs]
      /\ \A t \in Threads : run[t].agent # a
      /\ a # NoAgent
    BY TypeParts, AgentsAssumption DEF IInv, ObjectsTyped, AtRest
<1>2. NoRun.agent = NoAgent
    BY DEF NoRun
<1>3. ASSUME NEW t \in Threads, Step(t)
      PROVE  AtRest(a)' /\ status'[a] = "disabled"
  <2>1. PICK r \in Runs :
            Moves(t, r) /\ (Quiet(t, r) \/ Starts(t, r) \/ Raises(t, r) \/ Ends(t, r)
                            \/ Leaves(t, r))
    BY <1>3, StepMoves
  <2>2. /\ \A u \in Threads : run'[u] = IF u = t THEN r ELSE run[u]
        /\ r.agent # a
    BY <2>1, <1>1, <1>2 DEF Moves
  <2>3. status'[a] = status[a]
    BY <2>1, <1>1, <1>3 DEF Quiet, Starts, Raises, Ends, Leaves
  <2>4. QED
    BY <2>2, <2>3, <1>1 DEF AtRest
<1>4. ASSUME NEW t \in Threads, NEW b \in Agents, CallRun(t, b)
      PROVE  AtRest(a)' /\ status'[a] = "disabled"
  <2>1. PICK q \in Runs : q = NoRun
    BY NoRunFacts
  <2> DEFINE r == [q EXCEPT !.pc = "start", !.agent = b, !.id = nextRun]
  <2>2. run' = [run EXCEPT ![t] = r] /\ r.agent = b
    BY <2>1, <1>4 DEF CallRun, Continue, Runs
  <2> HIDE DEF r
  <2>3. b # a /\ status' = status
    BY <1>4 DEF CallRun
  <2>4. \A u \in Threads : run'[u] = IF u = t THEN r ELSE run[u]
    BY <2>2, <1>1
  <2>5. QED
    BY <2>2, <2>3, <2>4, <1>1 DEF AtRest
<1>5. ASSUME NEW b \in Agents,
             Disable(b) \/ Enable(b) \/ \E level \in AutonomyLevel : SetAutonomy(b, level)
      PROVE  AtRest(a)' /\ run' = run
    BY <1>5, <1>1 DEF Disable, Enable, SetAutonomy, AtRest
<1>6. CASE Crash
  <2>1. run' = [t \in Threads |-> NoRun]
    BY <1>6 DEF Crash
  <2>2. QED
    BY <2>1, <1>1, <1>2 DEF AtRest
<1>7. CASE UNCHANGED vars
    BY <1>7, <1>1 DEF vars, AtRest
<1>8. QED
    BY <1>3, <1>4, <1>5, <1>6, <1>7 DEF Next

\* An agent that is at rest when disable() reaches it starts no run, and stays
\* disabled until enable() or a restart (base_agent.py:87-92, 118-120).
THEOREM DisableIsFinal == Spec => DisableHolds
<1>1. [Next]_vars /\ IInv => [DisableStep]_vars
    BY DisableNext
<1>2. QED
    BY <1>1, InductiveInvariant, PTL DEF Spec, DisableHolds, DisableStep

-----------------------------------------------------------------------------
(* Logs that were lost                                                     *)

\* Each of the first k actions of run id is in L, or a later one is as failed.
Explained(id, k, L) ==
    \A i \in 1..k :
        \/ \E state \in Outcomes : [action |-> <<id, i>>, state |-> state] \in L
        \/ \E j \in (i + 1)..k : [action |-> <<id, j>>, state |-> "failed"] \in L

\* So it is of a run that has not raised, with what its session holds, unless
\* the session is broken, whose next log is one of a failure.
LogsOK ==
    \A t \in Threads :
        run[t].pc # "idle" /\ ~run[t].error /\ ~run[t].broken =>
            Explained(run[t].id, run[t].done, run[t].logs \cup action_logs)

LEMMA ExplainedMore ==
    ASSUME NEW id, NEW k, NEW L, NEW M, L \subseteq M, Explained(id, k, L)
    PROVE  Explained(id, k, M)
BY DEF Explained

LEMMA ExplainedNext ==
    ASSUME NEW id, NEW k \in Nat, NEW L, NEW state \in Outcomes, Explained(id, k, L),
           [action |-> <<id, k + 1>>, state |-> state] \in L
    PROVE  Explained(id, k + 1, L)
<1> SUFFICES ASSUME NEW i \in 1..(k + 1)
             PROVE  \/ \E o \in Outcomes : [action |-> <<id, i>>, state |-> o] \in L
                    \/ \E j \in (i + 1)..(k + 1) : [action |-> <<id, j>>, state |-> "failed"] \in L
    BY DEF Explained
<1>1. CASE i = k + 1
    BY <1>1
<1>2. CASE i # k + 1
  <2>1. i \in 1..k /\ \A j \in (i + 1)..k : j \in (i + 1)..(k + 1)
    BY <1>2
  <2>2. QED
    BY <2>1 DEF Explained
<1>3. QED
    BY <1>1, <1>2

LEMMA ExplainedFailed ==
    ASSUME NEW id, NEW k \in Nat, NEW L,
           [action |-> <<id, k + 1>>, state |-> "failed"] \in L
    PROVE  Explained(id, k + 1, L)
<1> SUFFICES ASSUME NEW i \in 1..(k + 1)
             PROVE  \/ \E o \in Outcomes : [action |-> <<id, i>>, state |-> o] \in L
                    \/ \E j \in (i + 1)..(k + 1) : [action |-> <<id, j>>, state |-> "failed"] \in L
    BY DEF Explained
<1>1. CASE i = k + 1
    BY <1>1 DEF Outcomes
<1>2. CASE i # k + 1
    BY <1>2, k + 1 \in (i + 1)..(k + 1)
<1>3. QED
    BY <1>1, <1>2

\* t goes on with locals r: everything is explained if r is.
LEMMA LogsStep ==
    ASSUME IInv, LogsOK, NEW t \in Threads, NEW r, run' = [run EXCEPT ![t] = r],
           action_logs \subseteq action_logs',
           r.pc # "idle" /\ ~r.error /\ ~r.broken => Explained(r.id, r.done, r.logs \cup action_logs')
    PROVE  LogsOK'
<1> SUFFICES ASSUME NEW u \in Threads, run'[u].pc # "idle", ~run'[u].error, ~run'[u].broken
             PROVE  Explained(run'[u].id, run'[u].done, run'[u].logs \cup action_logs')
    BY DEF LogsOK
<1>1. run \in [Threads -> Runs]
    BY TypeParts DEF IInv
<1>2. CASE u = t
    BY <1>1, <1>2
<1>3. CASE u # t
  <2>1. run'[u] = run[u]
    BY <1>1, <1>3
  <2>2. Explained(run[u].id, run[u].done, run[u].logs \cup action_logs)
    BY <2>1 DEF LogsOK
  <2>3. run[u].logs \cup action_logs \subseteq run[u].logs \cup action_logs'
    OBVIOUS
  <2>4. QED
    BY <2>1, <2>2, <2>3, ExplainedMore
<1>4. QED
    BY <1>2, <1>3

\* _resolve has come to its end for one action: its log is there, and the other
\* logs are or it is a failure.
LEMMA ResolvedLogs ==
    ASSUME IInv, LogsOK, NEW t \in Threads, NEW q \in Runs, NEW state \in Outcomes,
           q.id = run[t].id, q.n = run[t].n, q.done = run[t].done, q.error = run[t].error,
           run[t].pc \in {"recheck", "perform", "append", "commit"},
           run' = [run EXCEPT ![t] = Resolved(q, state)],
           action_logs \subseteq action_logs',
           \/ state = "failed"
           \/ ~run[t].broken /\ run[t].logs \cup action_logs \subseteq q.logs \cup action_logs'
    PROVE  LogsOK'
<1> DEFINE r == Resolved(q, state)
<1>1. q.id \in RunIds /\ q.done < q.n /\ q.done \in Nat
    BY RunFacts DEF RunTyped, RunOK, SessionOK, Runs
<1>2. /\ r.id = q.id /\ r.done = q.done + 1 /\ r.error = q.error
      /\ r.logs = q.logs \cup {[action |-> <<q.id, q.done + 1>>, state |-> state]}
  <2>1. r.id = q.id /\ r.done = q.done + 1 /\ r.logs = q.logs \cup {LogOf(q, state)}
    BY <1>1, ResolvedFacts
  <2>2. r.error = q.error
    BY DEF Resolved, Runs
  <2>3. QED
    BY <2>1, <2>2 DEF LogOf
<1>3. run' = [run EXCEPT ![t] = r]
    OBVIOUS
<1> HIDE DEF r
<1>4. ASSUME ~r.error PROVE Explained(r.id, r.done, r.logs \cup action_logs')
  <2> DEFINE all == r.logs \cup action_logs'
  <2>0. /\ [action |-> <<q.id, q.done + 1>>, state |-> state] \in all
        /\ Explained(q.id, q.done + 1, all) => Explained(r.id, r.done, all)
    BY <1>2
  <2>1. CASE state = "failed"
    <3> HIDE DEF all
    <3>1. Explained(q.id, q.done + 1, all)
      BY <1>1, <2>0, <2>1, ExplainedFailed
    <3>2. QED
      BY <2>0, <3>1 DEF all
  <2>2. CASE state # "failed"
    <3>1. Explained(q.id, q.done, run[t].logs \cup action_logs)
      <4>1. run[t].pc # "idle" /\ ~run[t].error /\ ~run[t].broken
        BY <1>2, <1>4, <2>2
      <4>2. QED
        BY <4>1 DEF LogsOK
    <3>2. run[t].logs \cup action_logs \subseteq r.logs \cup action_logs'
      BY <1>2, <2>2
    <3>3. Explained(q.id, q.done, all)
      BY <3>1, <3>2, ExplainedMore
    <3> HIDE DEF all
    <3>4. Explained(q.id, q.done + 1, all)
      BY <1>1, <2>0, <3>3, ExplainedNext
    <3>5. QED
      BY <2>0, <3>4 DEF all
  <2>3. QED
    BY <2>1, <2>2
<1>5. QED
    BY <1>3, <1>4, LogsStep

\* A step that keeps the place of the run and loses no log.
LEMMA KeptLogs ==
    ASSUME IInv, LogsOK, NEW t \in Threads, NEW r \in Runs, run' = [run EXCEPT ![t] = r],
           run[t].pc # "idle", action_logs \subseteq action_logs',
           r.id = run[t].id, r.done = run[t].done,
           ~r.error /\ ~r.broken =>
               /\ ~run[t].error /\ ~run[t].broken
               /\ run[t].logs \cup action_logs \subseteq r.logs \cup action_logs'
    PROVE  LogsOK'
<1>1. ASSUME ~r.error, ~r.broken PROVE Explained(r.id, r.done, r.logs \cup action_logs')
  <2>1. Explained(run[t].id, run[t].done, run[t].logs \cup action_logs)
    BY <1>1 DEF LogsOK
  <2>2. QED
    BY <1>1, <2>1, ExplainedMore
<1>2. QED
    BY <1>1, LogsStep

\* Every step of run_once.
LEMMA StepLogs ==
    ASSUME IInv, LogsOK, NEW t \in Threads, Step(t)
    PROVE  LogsOK' /\ action_logs \subseteq action_logs'
<1> USE RunFacts
<1>0. /\ run[t] \in Runs
      /\ Cleared(run[t]).error = run[t].error /\ Broken(run[t]).error = run[t].error
    BY DEF Cleared, Broken, Runs
<1>1. action_logs \subseteq action_logs'
    BY DEF Step, Begin, Observe, ObserveRaises, TestExecute, TestSimulate, PerformRaises,
       RecordNothing, AppendRead, AppendCommits, AppendRefused, AppendUnheard, CommitAction,
       CommitRefused, CommitUnheard, FinalCommit, FinalRefused, FinalUnheard, RecordRun,
       Publish, StorePending, database
<1>2. CASE Begin(t) \/ Observe(t) \/ TestExecute(t) \/ RecordNothing(t) \/ AppendRead(t) \/ RecordRun(t)
  <2>1. PICK r \in Runs : /\ run' = [run EXCEPT ![t] = r] /\ r.id = run[t].id /\ r.done = run[t].done
                          /\ r.logs = run[t].logs /\ r.error = run[t].error /\ r.broken = run[t].broken
    <3>1. CASE Begin(t) \/ RecordNothing(t) \/ AppendRead(t) \/ RecordRun(t)
      <4>1. PICK pc \in PCs : run' = [run EXCEPT ![t] = [run[t] EXCEPT !.pc = pc]]
        BY <3>1 DEF Begin, RecordNothing, AppendRead, RecordRun, Continue, PCs
      <4> DEFINE r == [run[t] EXCEPT !.pc = pc]
      <4>2. /\ r \in Runs /\ r.id = run[t].id /\ r.done = run[t].done
            /\ r.logs = run[t].logs /\ r.error = run[t].error /\ r.broken = run[t].broken
        BY <1>0 DEF Runs
      <4>3. QED
        BY <4>1, <4>2
    <3>2. CASE Observe(t)
      <4>1. PICK n \in 0..MaxActions : run' = [run EXCEPT ![t] = [run[t] EXCEPT !.pc = "resolve", !.n = n]]
        BY <3>2 DEF Observe, Continue
      <4> DEFINE r == [run[t] EXCEPT !.pc = "resolve", !.n = n]
      <4>2. /\ r \in Runs /\ r.id = run[t].id /\ r.done = run[t].done
            /\ r.logs = run[t].logs /\ r.error = run[t].error /\ r.broken = run[t].broken
        BY <1>0 DEF Runs, PCs
      <4>3. QED
        BY <4>1, <4>2
    <3>3. CASE TestExecute(t)
      <4>1. PICK pc \in PCs, rows \in BOOLEAN :
               run' = [run EXCEPT ![t] = [run[t] EXCEPT !.pc = pc, !.rows = rows]]
        <5>1. CASE autonomy[run[t].agent] = "execute"
          BY <3>3, <5>1 DEF TestExecute, Continue, PCs
        <5>2. CASE autonomy[run[t].agent] # "execute"
          <6>1. [run[t] EXCEPT !.pc = "recheck"] = [run[t] EXCEPT !.pc = "recheck", !.rows = run[t].rows]
            BY <1>0 DEF Runs
          <6>2. run[t].rows \in BOOLEAN /\ "recheck" \in PCs
            BY <1>0 DEF Runs, PCs
          <6>3. QED
            BY <3>3, <5>2, <6>1, <6>2 DEF TestExecute, Continue
        <5>3. QED
          BY <5>1, <5>2
      <4> DEFINE r == [run[t] EXCEPT !.pc = pc, !.rows = rows]
      <4>2. /\ r \in Runs /\ r.id = run[t].id /\ r.done = run[t].done
            /\ r.logs = run[t].logs /\ r.error = run[t].error /\ r.broken = run[t].broken
        BY <1>0 DEF Runs
      <4>3. QED
        BY <4>1, <4>2
    <3>4. QED
      BY <1>2, <3>1, <3>2, <3>3
  <2>2. run[t].pc # "idle"
    BY <1>2 DEF Begin, Observe, TestExecute, RecordNothing, AppendRead, RecordRun
  <2>3. QED
    BY <1>1, <2>1, <2>2, KeptLogs
<1>3. CASE AppendCommits(t) \/ FinalCommit(t)
  <2>1. PICK pc \in PCs : /\ run' = [run EXCEPT ![t] = [Cleared(run[t]) EXCEPT !.pc = pc]]
                          /\ run[t].pc # "idle" /\ ~run[t].broken
                          /\ action_logs' = action_logs \cup run[t].logs
    BY <1>3 DEF AppendCommits, FinalCommit, AtEnd, StorePending, Continue, PCs, RunOK, SessionOK
  <2> DEFINE r == [Cleared(run[t]) EXCEPT !.pc = pc]
  <2>2. /\ r \in Runs /\ r.id = run[t].id /\ r.done = run[t].done /\ r.error = run[t].error
    BY <1>0, ClearedFacts DEF Runs
  <2>3. run' = [run EXCEPT ![t] = r]
    BY <2>1
  <2> HIDE DEF r
  <2>4. QED
    BY <1>1, <2>1, <2>2, <2>3, KeptLogs
<1>4. CASE AppendRefused(t) \/ AppendUnheard(t)
  <2>1. run' = [run EXCEPT ![t] = [Broken(run[t]) EXCEPT !.pc = "commit"]] /\ run[t].pc # "idle"
    BY <1>4 DEF AppendRefused, AppendUnheard, Continue
  <2> DEFINE r == [Broken(run[t]) EXCEPT !.pc = "commit"]
  <2>2. /\ r \in Runs /\ r.id = run[t].id /\ r.done = run[t].done /\ r.broken
    BY <1>0, BrokenFacts DEF Runs, PCs
  <2>3. run' = [run EXCEPT ![t] = r]
    BY <2>1
  <2> HIDE DEF r
  <2>4. QED
    BY <1>1, <2>1, <2>2, <2>3, KeptLogs
<1>5. CASE ObserveRaises(t) \/ FinalRefused(t) \/ FinalUnheard(t)
  <2>1. /\ run' = [run EXCEPT ![t] = [Cleared(run[t]) EXCEPT !.pc = "record", !.error = TRUE]]
        /\ run[t].pc # "idle"
    BY <1>5 DEF ObserveRaises, FinalRefused, FinalUnheard, BodyRaises, AtEnd, Continue
  <2> DEFINE r == [Cleared(run[t]) EXCEPT !.pc = "record", !.error = TRUE]
  <2>2. /\ r \in Runs /\ r.id = run[t].id /\ r.done = run[t].done /\ r.error
    BY <1>0, ClearedFacts DEF Runs, PCs
  <2>3. run' = [run EXCEPT ![t] = r]
    BY <2>1
  <2> HIDE DEF r
  <2>4. QED
    BY <1>1, <2>1, <2>2, <2>3, KeptLogs
<1>6. CASE PerformRaises(t) \/ CommitRefused(t) \/ CommitUnheard(t)
  <2>1. /\ run' = [run EXCEPT ![t] = Resolved(Cleared(run[t]), "failed")]
        /\ run[t].pc \in {"perform", "commit"}
    BY <1>6 DEF PerformRaises, CommitRefused, CommitUnheard, Fail, Continue
  <2>2. QED
    BY <1>0, <1>1, <2>1, ClearedFacts, ResolvedLogs DEF Outcomes
<1>7. CASE TestSimulate(t)
  <2>1. PICK state \in Outcomes : run' = [run EXCEPT ![t] = Resolved(run[t], state)]
    BY <1>7 DEF TestSimulate, Continue, Outcomes
  <2>2. run[t].pc = "recheck" /\ ~run[t].broken /\ action_logs' = action_logs
    BY <1>7 DEF TestSimulate, database, RunOK, SessionOK
  <2>3. QED
    BY <1>0, <1>1, <2>1, <2>2, ResolvedLogs
<1>8. CASE CommitAction(t)
  <2>1. /\ run' = [run EXCEPT ![t] = Resolved(Cleared(run[t]), "executed")]
        /\ run[t].pc = "commit" /\ ~run[t].broken
        /\ action_logs' = action_logs \cup run[t].logs
    BY <1>8 DEF CommitAction, StorePending, Continue
  <2>2. QED
    BY <1>0, <1>1, <2>1, ClearedFacts, ResolvedLogs DEF Outcomes
<1>9. CASE Publish(t)
  <2>1. run' = [run EXCEPT ![t] = NoRun] /\ NoRun.pc = "idle"
    BY <1>9 DEF Publish, Continue, NoRun
  <2>2. QED
    BY <1>1, <2>1, LogsStep
<1>10. QED
    BY <1>1, <1>2, <1>3, <1>4, <1>5, <1>6, <1>7, <1>8, <1>9 DEF Step
\* At the end of a run its session is empty.
EndsEmpty == \A t \in Threads : run[t].pc = "record" => run[t].logs = {}

\* What a step of t leaves its locals at.
LEMMA StepLocals ==
    ASSUME IInv, NEW t \in Threads, Step(t)
    PROVE  \E r : /\ run' = [run EXCEPT ![t] = r]
                  /\ r.pc = "record" => r.logs = {}
                  /\ r.pc = "append" => AppendRead(t)
<1> USE RunFacts
<1>1. run \in [Threads -> Runs] /\ run[t] \in Runs
    BY TypeParts DEF IInv
<1>2. QED
  <2>1. CASE FinalCommit(t) \/ ObserveRaises(t) \/ FinalRefused(t) \/ FinalUnheard(t)
    <3>1. PICK error \in BOOLEAN :
             run' = [run EXCEPT ![t] = [Cleared(run[t]) EXCEPT !.pc = "record", !.error = error]]
      <4>1. [Cleared(run[t]) EXCEPT !.pc = "record"]
                = [Cleared(run[t]) EXCEPT !.pc = "record", !.error = run[t].error]
        BY <1>1 DEF Cleared, Runs
      <4>2. run[t].error \in BOOLEAN
        BY <1>1 DEF Runs
      <4>3. QED
        BY <2>1, <4>1, <4>2 DEF FinalCommit, ObserveRaises, FinalRefused, FinalUnheard, BodyRaises, Continue
    <3>2. /\ [Cleared(run[t]) EXCEPT !.pc = "record", !.error = error].logs = {}
          /\ [Cleared(run[t]) EXCEPT !.pc = "record", !.error = error].pc = "record"
      BY <1>1 DEF Cleared, Runs
    <3>3. QED
      BY <3>1, <3>2
  <2>2. CASE Publish(t)
    <3>1. run' = [run EXCEPT ![t] = NoRun] /\ NoRun.pc = "idle"
      BY <2>2 DEF Publish, Continue, NoRun
    <3>2. QED
      BY <3>1
  <2>3. CASE Begin(t) \/ Observe(t) \/ TestExecute(t)
    <3>1. /\ [run[t] EXCEPT !.pc = "observe"].pc = "observe"
          /\ \A n : [run[t] EXCEPT !.pc = "resolve", !.n = n].pc = "resolve"
          /\ [run[t] EXCEPT !.pc = "perform", !.rows = TRUE].pc = "perform"
          /\ [run[t] EXCEPT !.pc = "recheck"].pc = "recheck"
      BY <1>1 DEF Runs
    <3>2. CASE Begin(t)
      BY <3>1, <3>2 DEF Begin, Continue
    <3>3. CASE Observe(t)
      BY <3>1, <3>3 DEF Observe, Continue
    <3>4. CASE TestExecute(t)
      BY <3>1, <3>4 DEF TestExecute, Continue
    <3>5. QED
      BY <2>3, <3>2, <3>3, <3>4
  <2>4. CASE \/ RecordNothing(t) \/ AppendRead(t) \/ RecordRun(t)
             \/ AppendCommits(t) \/ AppendRefused(t) \/ AppendUnheard(t)
    <3>1. PICK q \in Runs, pc \in PCs : run' = [run EXCEPT ![t] = [q EXCEPT !.pc = pc]]
                                     /\ pc # "record" /\ (pc = "append" => AppendRead(t))
      BY <1>1, <2>4, ClearedFacts, BrokenFacts DEF RecordNothing, AppendRead, RecordRun, AppendCommits,
         AppendRefused, AppendUnheard, Continue, PCs
    <3>2. [q EXCEPT !.pc = pc].pc = pc
      BY <3>1 DEF Runs
    <3>3. QED
      BY <3>1, <3>2
  <2>5. CASE \/ TestSimulate(t) \/ PerformRaises(t) \/ CommitAction(t) \/ CommitRefused(t)
             \/ CommitUnheard(t)
    <3>1. \A state : Resolved(run[t], state).pc = "resolve"
      BY <1>1 DEF Resolved, Runs
    <3>2. \A state : Resolved(Cleared(run[t]), state).pc = "resolve"
      BY <1>1, ClearedFacts DEF Resolved, Runs
    <3>3. QED
      BY <2>5, <3>1, <3>2 DEF TestSimulate, PerformRaises, CommitAction, CommitRefused,
         CommitUnheard, Fail, Continue
  <2>6. QED
    BY <2>1, <2>2, <2>3, <2>4, <2>5 DEF Step

LEMMA StepEnds ==
    ASSUME IInv, EndsEmpty, NEW t \in Threads, Step(t)
    PROVE  EndsEmpty'
<1>1. run \in [Threads -> Runs]
    BY TypeParts DEF IInv
<1>2. PICK r : run' = [run EXCEPT ![t] = r] /\ (r.pc = "record" => r.logs = {})
    BY StepLocals
<1>3. QED
    BY <1>1, <1>2 DEF EndsEmpty

\* The rows of the runs agree with the logs.
LostInv == LogsOK /\ EndsEmpty /\ LostLogsExplained

LEMMA LostNext == IInv /\ LostInv /\ [Next]_vars => LostInv'
<1> SUFFICES ASSUME IInv, LostInv, [Next]_vars PROVE LostInv'
    OBVIOUS
<1>0. run \in [Threads -> Runs] /\ \A t \in Threads : run[t] \in Runs
    BY TypeParts DEF IInv
<1>1. ASSUME action_logs \subseteq action_logs', agent_runs' = agent_runs
      PROVE  LostLogsExplained'
    BY <1>1 DEF LostInv, LostLogsExplained, Logged, LoggedAs
<1>2. ASSUME NEW t \in Threads, Step(t) PROVE LostInv'
  <2>1. LogsOK' /\ EndsEmpty' /\ action_logs \subseteq action_logs'
    BY <1>2, StepLogs, StepEnds DEF LostInv
  <2>2. CASE RecordRun(t)
    <3>1. /\ run[t].pc = "record" /\ run[t].logs = {} /\ action_logs' = action_logs
          /\ ~run[t].broken /\ run[t].done \in Nat
          /\ \A row \in agent_runs' : \/ row \in agent_runs
                                      \/ /\ row.id = run[t].id /\ row.num_actions = run[t].done
                                         /\ row.status = "ok" => ~run[t].error
      BY <1>0, <2>2, RunFacts DEF RecordRun, LostInv, EndsEmpty, RunOK, SessionOK, Runs
    <3>2. ~run[t].error => Explained(run[t].id, run[t].done, action_logs)
      <4>1. run[t].logs \cup action_logs = action_logs
        BY <3>1
      <4>2. QED
        BY <3>1, <4>1 DEF LostInv, LogsOK
    <3>3. LostLogsExplained'
      BY <3>1, <3>2 DEF LostInv, LostLogsExplained, Logged, LoggedAs, Explained
    <3>4. QED
      BY <2>1, <3>3 DEF LostInv
  <2>3. CASE ~RecordRun(t)
    <3>1. agent_runs' = agent_runs
      BY <1>2, <2>3 DEF Step, Begin, Observe, ObserveRaises, TestExecute, TestSimulate, PerformRaises,
         RecordNothing, AppendRead, AppendCommits, AppendRefused, AppendUnheard, CommitAction,
         CommitRefused, CommitUnheard, FinalCommit, FinalRefused, FinalUnheard, Publish, database
    <3>2. QED
      BY <1>1, <2>1, <3>1 DEF LostInv
  <2>4. QED
    BY <2>2, <2>3
<1>3. ASSUME NEW t \in Threads, NEW a \in Agents, CallRun(t, a) PROVE LostInv'
  <2> DEFINE r == [NoRun EXCEPT !.pc = "start", !.agent = a, !.id = nextRun]
  <2>1. run' = [run EXCEPT ![t] = r] /\ UNCHANGED database
    BY <1>3 DEF CallRun, Continue
  <2>2. r.done = 0 /\ r.logs = {} /\ r.pc = "start"
    BY DEF NoRun
  <2> HIDE DEF r
  <2>3. Explained(r.id, r.done, r.logs \cup action_logs')
    BY <2>2 DEF Explained
  <2>4. LogsOK'
    BY <2>1, <2>3, LogsStep DEF LostInv, database
  <2>5. EndsEmpty'
    BY <1>0, <2>1, <2>2 DEF LostInv, EndsEmpty
  <2>6. QED
    BY <1>1, <2>1, <2>4, <2>5 DEF LostInv, database
<1>4. CASE Crash
  <2>1. \A t \in Threads : run'[t].pc = "idle"
    BY <1>4 DEF Crash, NoRun
  <2>2. QED
    BY <1>1, <1>4, <2>1 DEF Crash, LostInv, LogsOK, EndsEmpty, database
<1>5. CASE UNCHANGED <<run, database>>
    BY <1>1, <1>5 DEF LostInv, LogsOK, EndsEmpty, database
<1>6. QED
    BY <1>2, <1>3, <1>4, <1>5 DEF Next, Disable, Enable, SetAutonomy, vars

\* A log that is missing of a run on record as ok was taken by a rollback, and
\* the failure that called it is on record (base_agent.py:107-111, 134-152,
\* 163-173).
THEOREM GapsAreExplained == Spec => []LostLogsExplained
<1>1. Init => LostInv
    BY DEF Init, LostInv, LogsOK, EndsEmpty, LostLogsExplained, NoRun
<1>2. LostInv => LostLogsExplained
    BY DEF LostInv
<1>3. QED
    BY <1>1, <1>2, LostNext, InductiveInvariant, PTL DEF Spec

-----------------------------------------------------------------------------
(* The ledger as the agents use it                                         *)

\* The request of each thread, and what it was told of.
Requests == [t \in Threads |-> IF run[t].pc = "append" THEN Current(t) ELSE <<0, 0>>]
Acked    == {k \in DOMAIN ledger : ledger[k] \notin unheard}

\* Commits whose answers are lost are stored.
UnheardStored == unheard \subseteq effects

LEMMA UnheardNext == IInv /\ UnheardStored /\ [Next]_vars => UnheardStored'
<1> SUFFICES ASSUME IInv, UnheardStored, [Next]_vars PROVE UnheardStored'
    OBVIOUS
<1>1. ASSUME NEW t \in Threads, Step(t) PROVE UnheardStored'
  <2>1. CASE AppendUnheard(t)
    <3>1. run[t].rows
      BY <2>1, RunFacts DEF AppendUnheard, RunOK, SessionOK
    <3>2. QED
      BY <2>1, <3>1 DEF AppendUnheard, StorePending, UnheardStored
  <2>2. CASE CommitUnheard(t)
    <3>1. run[t].rows
      BY <2>2, RunFacts DEF CommitUnheard, Pending, RunOK, SessionOK
    <3>2. QED
      BY <2>2, <3>1 DEF CommitUnheard, StorePending, UnheardStored
  <2>3. CASE ~AppendUnheard(t) /\ ~CommitUnheard(t)
    <3>1. unheard' = unheard /\ effects \subseteq effects'
      BY <1>1, <2>3 DEF Step, Begin, Observe, ObserveRaises, TestExecute, TestSimulate, PerformRaises,
         RecordNothing, AppendRead, AppendCommits, AppendRefused, CommitAction, CommitRefused,
         FinalCommit, FinalRefused, FinalUnheard, RecordRun, Publish, BodyRaises, StorePending,
         database, history
    <3>2. QED
      BY <3>1 DEF UnheardStored
  <2>4. QED
    BY <2>1, <2>2, <2>3
<1>2. CASE UNCHANGED <<effects, unheard>>
    BY <1>2 DEF UnheardStored
<1>3. QED
    BY <1>1, <1>2 DEF Next, CallRun, Disable, Enable, SetAutonomy, Crash, vars, database, history
LEMMA InitUses == Init => Ledger!Init
<1> SUFFICES ASSUME Init PROVE Ledger!Init
    OBVIOUS
<1>1. \A t \in Threads : run[t].pc = "idle"
    BY DEF Init, NoRun
<1>2. Requests = [t \in Threads |-> <<0, 0>>] /\ Acked = {} /\ ledger = <<>>
    BY <1>1 DEF Init, Requests, Acked
<1>3. QED
    BY <1>2 DEF Ledger!Init, Requests, Acked

\* A step of one thread changes its request only.
LEMMA RequestStep ==
    ASSUME IInv, NEW t \in Threads, NEW r, run' = [run EXCEPT ![t] = r]
    PROVE  Requests' = [Requests EXCEPT ![t] = IF r.pc = "append" THEN Cur(r) ELSE <<0, 0>>]
<1>1. run \in [Threads -> Runs]
    BY TypeParts DEF IInv
<1>2. \A u \in Threads : run'[u] = IF u = t THEN r ELSE run[u]
    BY <1>1
<1>3. Requests' = [u \in Threads |-> IF run'[u].pc = "append" THEN Cur(run'[u]) ELSE <<0, 0>>]
    BY DEF Requests, Current, Cur
<1>4. Requests = [u \in Threads |-> IF run[u].pc = "append" THEN Cur(run[u]) ELSE <<0, 0>>]
    BY DEF Requests, Current, Cur
<1>5. QED
    BY <1>2, <1>3, <1>4

\* The current action of a thread in append is not in the ledger yet.
LEMMA AppendFacts ==
    ASSUME IInv, UnheardStored, NEW t \in Threads,
           run[t].pc \in {"append", "commit"}, run[t].rows
    PROVE  /\ Current(t) \notin unheard
           /\ \A k \in DOMAIN ledger : ledger[k] # Current(t)
           /\ ledger \in Seq(Actions) /\ Current(t) \in Actions /\ Current(t) # <<0, 0>>
<1>1. Current(t) = Cur(run[t]) /\ Cur(run[t]) \notin effects
    BY RunFacts, CurrentFresh
<1>2. Current(t) \in Actions
    BY <1>1, RunFacts, CurrentIsAction DEF RunOK, SessionOK, RunTyped
<1>3. Current(t) # <<0, 0>>
    BY <1>2 DEF Actions, RunIds
<1>4. ledger \in Seq(Actions)
    BY DEF IInv, TypeOK
<1>5. QED
    BY <1>1, <1>2, <1>3, <1>4 DEF IInv, Inv, LedgerMatchesEffects, UnheardStored
\* Steps that do not touch the ledger leave everything as it is.
LEMMA OtherUses ==
    ASSUME IInv, UnheardStored, NEW t \in Threads, Step(t),
           ~AppendRead(t), ~AppendCommits(t), ~AppendRefused(t), ~AppendUnheard(t)
    PROVE  UNCHANGED <<ledger, Requests, Acked>>
<1>1. run[t].pc # "append" /\ ledger' = ledger
    BY DEF Step, Begin, Observe, ObserveRaises, TestExecute, TestSimulate, PerformRaises,
       RecordNothing, CommitAction, CommitRefused, CommitUnheard, FinalCommit, FinalRefused,
       FinalUnheard, RecordRun, Publish, AtEnd, database
<1>2. Requests' = Requests
  <2>1. PICK r : run' = [run EXCEPT ![t] = r] /\ r.pc # "append"
    BY StepLocals
  <2>2. Requests' = [Requests EXCEPT ![t] = <<0, 0>>]
    BY <2>1, RequestStep
  <2>3. Requests[t] = <<0, 0>>
    BY <1>1 DEF Requests
  <2>4. QED
    BY <2>2, <2>3 DEF Requests
<1>3. Acked' = Acked
  <2>1. CASE CommitUnheard(t)
    <3>1. run[t].rows /\ run[t].pc = "commit" /\ unheard' = unheard \cup {Current(t)}
      BY <2>1, RunFacts DEF CommitUnheard, Pending, RunOK, SessionOK
    <3>2. \A k \in DOMAIN ledger : ledger[k] # Current(t)
      BY <3>1, AppendFacts
    <3>3. QED
      BY <1>1, <3>1, <3>2 DEF Acked
  <2>2. CASE ~CommitUnheard(t)
    <3>1. unheard' = unheard
      BY <2>2 DEF Step, Begin, Observe, ObserveRaises, TestExecute, TestSimulate, PerformRaises,
         RecordNothing, CommitAction, CommitRefused, FinalCommit, FinalRefused,
         FinalUnheard, RecordRun, Publish, BodyRaises, history
    <3>2. QED
      BY <1>1, <3>1 DEF Acked
  <2>3. QED
    BY <2>1, <2>2
<1>4. QED
    BY <1>1, <1>2, <1>3

\* The steps of append: a request is opened, and accepted, accepted without an
\* answer, or refused.
LEMMA AppendUses ==
    ASSUME IInv, UnheardStored, NEW t \in Threads,
           AppendRead(t) \/ AppendCommits(t) \/ AppendRefused(t) \/ AppendUnheard(t)
    PROVE  Ledger!Next
<1> USE RunFacts
<1>1. /\ run \in [Threads -> Runs] /\ run[t] \in Runs /\ ledger \in Seq(Actions)
    BY TypeParts DEF IInv
<1>2. CASE AppendRead(t)
  <2> DEFINE r == [run[t] EXCEPT !.pc = "append"]
  <2>1. run' = [run EXCEPT ![t] = r] /\ UNCHANGED <<ledger, unheard>> /\ run[t].pc = "perform"
    BY <1>2 DEF AppendRead, Continue, database, history
  <2>2. r.pc = "append" /\ Cur(r) = Cur(run[t])
    BY <1>1 DEF Runs, Cur
  <2> HIDE DEF r
  <2>3. Requests' = [Requests EXCEPT ![t] = Current(t)]
    BY <2>1, <2>2, RequestStep
  <2>4. Requests[t] = <<0, 0>> /\ Acked' = Acked
    BY <2>1 DEF Requests, Acked
  <2>5. Current(t) \in Actions
    BY <2>1, CurrentIsAction DEF RunOK, SessionOK, RunTyped
  <2>6. Ledger!Submit(t, Current(t))
    BY <2>1, <2>3, <2>4 DEF Ledger!Submit, Requests, Acked
  <2>7. \E c \in Threads : \E e \in Actions : Ledger!Submit(c, e)
    BY <2>5, <2>6, Zenon DEF Ledger!Submit
  <2>8. QED
    BY <2>7, Zenon DEF Ledger!Next
<1>3. ASSUME run[t].pc = "append"
      PROVE  /\ Requests[t] = Current(t) /\ Requests[t] # <<0, 0>>
             /\ Current(t) \notin unheard
             /\ \A k \in DOMAIN ledger : ledger[k] # Current(t)
             /\ Current(t) \in Actions
    BY <1>3, AppendFacts DEF Requests, RunOK, SessionOK
<1>4. ASSUME AppendCommits(t) \/ AppendRefused(t) \/ AppendUnheard(t)
      PROVE  /\ Requests' = [Requests EXCEPT ![t] = <<0, 0>>]
             /\ run[t].pc = "append"
  <2>1. PICK q \in Runs : run' = [run EXCEPT ![t] = [q EXCEPT !.pc = "commit"]]
    BY <1>1, <1>4, ClearedFacts, BrokenFacts DEF AppendCommits, AppendRefused, AppendUnheard, Continue
  <2> DEFINE r == [q EXCEPT !.pc = "commit"]
  <2>2. r.pc = "commit" /\ run' = [run EXCEPT ![t] = r]
    BY <2>1 DEF Runs
  <2> HIDE DEF r
  <2>3. Requests' = [Requests EXCEPT ![t] = <<0, 0>>]
    BY <2>2, RequestStep
  <2>4. QED
    BY <1>4, <2>3 DEF AppendCommits, AppendRefused, AppendUnheard
<1>5. CASE AppendCommits(t)
  <2>1. ledger' = Append(ledger, Current(t)) /\ unheard' = unheard
    BY <1>5 DEF AppendCommits, history
  <2>2. Acked' = Acked \cup {Len(ledger) + 1}
    BY <1>1, <1>3, <1>4, <1>5, <2>1 DEF Acked
  <2>3. Ledger!Accept(t)
    BY <1>3, <1>4, <1>5, <2>1, <2>2 DEF Ledger!Accept, Requests, Acked
  <2>4. QED
    BY <2>3 DEF Ledger!Next
<1>6. CASE AppendUnheard(t)
  <2>1. ledger' = Append(ledger, Current(t)) /\ unheard' = unheard \cup {Current(t)}
    BY <1>6 DEF AppendUnheard
  <2>2. Acked' = Acked
    BY <1>1, <1>3, <1>4, <1>6, <2>1 DEF Acked
  <2>3. Ledger!AcceptSilently(t)
    BY <1>3, <1>4, <1>6, <2>1, <2>2 DEF Ledger!AcceptSilently, Requests, Acked
  <2>4. QED
    BY <2>3 DEF Ledger!Next
<1>7. CASE AppendRefused(t)
  <2>1. UNCHANGED <<ledger, unheard>>
    BY <1>7 DEF AppendRefused, database, history
  <2>2. Requests' = [c \in Threads |-> IF c \in {t} THEN <<0, 0>> ELSE Requests[c]]
    BY <1>4, <1>7 DEF Requests
  <2>3. Acked' = Acked
    BY <2>1 DEF Acked
  <2>4. Ledger!Refuse({t})
    BY <2>1, <2>2, <2>3 DEF Ledger!Refuse, Requests, Acked
  <2>5. QED
    BY <2>4 DEF Ledger!Next
<1>8. QED
    BY <1>2, <1>5, <1>6, <1>7

LEMMA NextUses == IInv /\ UnheardStored /\ [Next]_vars => [Ledger!Next]_(Ledger!vars)
<1> SUFFICES ASSUME IInv, UnheardStored, [Next]_vars PROVE [Ledger!Next]_(Ledger!vars)
    OBVIOUS
<1>0. UNCHANGED <<ledger, Requests, Acked>> => UNCHANGED Ledger!vars
    BY DEF Ledger!vars, Requests, Acked
<1>1. ASSUME NEW t \in Threads, Step(t) PROVE [Ledger!Next]_(Ledger!vars)
    BY <1>0, <1>1, AppendUses, OtherUses
<1>2. ASSUME NEW t \in Threads, NEW a \in Agents, CallRun(t, a) PROVE UNCHANGED <<ledger, Requests, Acked>>
  <2> DEFINE r == [NoRun EXCEPT !.pc = "start", !.agent = a, !.id = nextRun]
  <2>1. run' = [run EXCEPT ![t] = r] /\ UNCHANGED <<ledger, unheard>> /\ run[t].pc = "idle"
    BY <1>2 DEF CallRun, Continue, database
  <2>2. r.pc = "start"
    BY DEF NoRun
  <2> HIDE DEF r
  <2>3. Requests' = [Requests EXCEPT ![t] = <<0, 0>>]
    BY <2>1, <2>2, RequestStep
  <2>4. Requests[t] = <<0, 0>>
    BY <2>1 DEF Requests
  <2>5. QED
    BY <2>1, <2>3, <2>4 DEF Requests, Acked
<1>3. CASE Crash
  <2>1. /\ Requests' = [c \in Threads |-> IF c \in Threads THEN <<0, 0>> ELSE Requests[c]]
        /\ UNCHANGED <<ledger, unheard>>
    BY <1>3 DEF Crash, Requests, NoRun, database
  <2>2. Ledger!Refuse(Threads)
    BY <2>1 DEF Ledger!Refuse, Requests, Acked
  <2>3. QED
    BY <2>2 DEF Ledger!Next
<1>4. CASE UNCHANGED <<run, database, unheard>>
  <2>1. UNCHANGED <<ledger, Requests, Acked>>
    BY <1>4 DEF Requests, Acked, Current, database
  <2>2. QED
    BY <1>0, <2>1
<1>5. QED
    BY <1>0, <1>1, <1>2, <1>3, <1>4 DEF Next, Disable, Enable, SetAutonomy, vars, database, history

\* The agents use their ledger as an audit log may be used, whatever fails and
\* however runs and restarts overlap (events.py:9-17, base_agent.py:106-113).
THEOREM AgentsUseAuditLog == Spec => UsesAuditLog
<1>1. Init => UnheardStored
    BY DEF Init, UnheardStored
<1>2. QED
    BY <1>1, InitUses, UnheardNext, NextUses, InductiveInvariant, PTL DEF Spec, UsesAuditLog, Ledger!Spec
=============================================================================
