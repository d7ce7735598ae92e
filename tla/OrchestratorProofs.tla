------------------------- MODULE OrchestratorProofs -------------------------
(***************************************************************************)
(* Theorems about Orchestrator and the energy agent it runs, for any       *)
(* number of threads, facilities, agents and runs and for any tariffs.     *)
(* Part 1: the records of a run of the orchestrator agree with each other, *)
(* and its status says "running" only while a run is in flight.  Part 2:   *)
(* the hours of the energy agent are those of the runs since the last      *)
(* switch, maintenance comes up only after a switch was held back, and no  *)
(* switch leads to diesel.                                                 *)
(***************************************************************************)
EXTENDS Orchestrator, FiniteSetTheorems, WellFoundedInduction, TLAPS

\* A thread that is in run_once works on a run of its own, begun already.
OwnPass ==
    /\ \A t \in Threads : pass[t].pc # "idle" => pass[t].id \in Passes /\ pass[t].id < nextPass
    /\ \A t, u \in Threads : pass[t].pc # "idle" /\ pass[u].pc # "idle" /\ t # u =>
          pass[t].id # pass[u].id

\* Nothing is stored of run p, and nothing was appended.
Untouched(p) ==
    /\ appended[p] = "none"
    /\ p \notin reports /\ p \notin ledger
    /\ ~OnRecord(p, "ok") /\ ~OnRecord(p, "error")

\* Nothing is stored of runs still to come.
Fresh == \A p \in Passes : p >= nextPass => Untouched(p)

\* What is stored of run p, and what its session holds, when run_once is at pc:
\* the heart of the invariant.
SessionAt(p, pc, report, broken) ==
    /\ pc \in {"start", "agents", "waiting", "report", "append"} => Untouched(p) /\ ~broken
    /\ pc = "append" => report
    /\ pc = "commit" =>
          /\ ~OnRecord(p, "ok") /\ ~OnRecord(p, "error")
          /\ p \in reports => p \in ledger
          /\ ~broken => /\ appended[p] \notin {"refused", "unheard"}
                        /\ report \/ p \in reports
    /\ pc = "handler" => (p \in reports => p \in ledger \/ OnRecord(p, "ok"))

SessionOK(t) == SessionAt(pass[t].id, pass[t].pc, pass[t].report, pass[t].broken)

\* The inductive invariant behind ReportsAccounted.
IInv == OrchTypeOK /\ OwnPass /\ Fresh /\ (\A t \in Threads : SessionOK(t)) /\ ReportsAccounted

\* MaxPasses is a number.
LEMMA Bounds == MaxPasses \in Nat
BY OrchestratorAssumption

-----------------------------------------------------------------------------
\* The invariant holds at the start.
LEMMA InitIInv == Init => IInv
<1> SUFFICES ASSUME Init PROVE IInv
  OBVIOUS
<1> USE DEF Init, OrchInit
<1>1. NoPass \in PassRecords
  BY DEF NoPass, PassRecords, PCs
<1>2. OrchTypeOK
  BY <1>1, Bounds DEF OrchTypeOK
<1>3. OwnPass
  BY DEF OwnPass, NoPass
<1>4. Fresh /\ ReportsAccounted
  BY DEF Fresh, Untouched, ReportsAccounted, Accounted, OnRecord
<1>5. \A t \in Threads : SessionOK(t)
  BY DEF SessionOK, SessionAt, NoPass
<1> QED BY <1>2, <1>3, <1>4, <1>5 DEF IInv

\* A step of a thread inside run_once that touches nothing but what is about
\* its own run keeps the invariant, if it leaves that run in order.
LEMMA OwnStep ==
    ASSUME IInv, OrchTypeOK',
           NEW t \in Threads, pass[t].pc # "idle",
           \A u \in Threads : u # t => pass'[u] = pass[u],
           pass'[t].id = pass[t].id,
           nextPass' = nextPass,
           \A q \in Passes : q # pass[t].id =>
              /\ q \in reports' <=> q \in reports
              /\ q \in ledger' <=> q \in ledger
              /\ \A s \in {"ok", "error"} : OnRecord(q, s)' <=> OnRecord(q, s)
              /\ appended'[q] = appended[q],
           \A q \in Passes : q = pass[t].id => Accounted(q)',
           SessionOK(t)'
    PROVE  IInv'
<1>1. pass[t].id \in Passes /\ pass[t].id < nextPass
  BY DEF IInv, OwnPass
<1>2. OwnPass'
  BY DEF IInv, OwnPass
<1>3. \A q \in Passes : q # pass[t].id => (Untouched(q) => Untouched(q)')
  BY DEF Untouched
<1>4. Fresh'
  <2> SUFFICES ASSUME NEW q \in Passes, q >= nextPass PROVE Untouched(q)'
    BY DEF Fresh
  <2>1. q # pass[t].id
    BY <1>1, Bounds DEF IInv, OrchTypeOK, Passes
  <2> QED BY <2>1, <1>3 DEF IInv, Fresh
<1>5. ASSUME NEW u \in Threads, u # t PROVE SessionOK(u)'
  <2>1. CASE pass[u].pc = "idle"
    BY <1>5, <2>1 DEF SessionOK, SessionAt
  <2>2. CASE pass[u].pc # "idle"
    <3>1. pass[u].id \in Passes /\ pass[u].id # pass[t].id
      BY <1>5, <2>2 DEF IInv, OwnPass
    <3>2. SessionOK(u) /\ pass'[u] = pass[u]
      BY <1>5 DEF IInv
    <3>3. Untouched(pass[u].id) => Untouched(pass[u].id)'
      BY <3>1, <3>2, <1>3 DEF Untouched, OnRecord
    <3> QED BY <3>1, <3>2, <3>3 DEF SessionOK, SessionAt, OnRecord
  <2> QED BY <2>1, <2>2
<1>6. \A q \in Passes : q # pass[t].id => Accounted(q)'
  BY DEF IInv, ReportsAccounted, Accounted
<1> QED BY <1>2, <1>4, <1>5, <1>6 DEF IInv, ReportsAccounted
-----------------------------------------------------------------------------
(* Every action keeps the invariant                                        *)

\* The thread goes to pc, with the same run; report and broken are as given.
Moved(t, pc, report, broken) ==
    /\ pass' \in [Threads -> PassRecords]
    /\ \A u \in Threads : u # t => pass'[u] = pass[u]
    /\ pass'[t].pc = pc /\ pass'[t].id = pass[t].id
    /\ pass'[t].report = report /\ pass'[t].broken = broken

\* Cleared() keeps the type of the locals and everything but the session.
LEMMA ClearedFacts ==
    ASSUME NEW q \in PassRecords
    PROVE  /\ Cleared(q) \in PassRecords
           /\ Cleared(q).pc = q.pc /\ Cleared(q).id = q.id
           /\ Cleared(q).report = FALSE /\ Cleared(q).broken = FALSE
BY DEF PassRecords, Cleared

\* Broken() differs from it in that the session is broken.
LEMMA BrokenFacts ==
    ASSUME NEW q \in PassRecords
    PROVE  /\ Broken(q) \in PassRecords
           /\ Broken(q).pc = q.pc /\ Broken(q).id = q.id
           /\ Broken(q).report = FALSE /\ Broken(q).broken = TRUE
BY ClearedFacts DEF PassRecords, Broken

\* A change of pc, with one of next or not, changes nothing else.
LEMMA GoFacts ==
    ASSUME NEW q \in PassRecords, NEW pc \in PCs
    PROVE  /\ LET r == [q EXCEPT !.pc = pc]
              IN  r \in PassRecords /\ r.pc = pc /\ r.id = q.id /\ r.report = q.report
                  /\ r.broken = q.broken
           /\ LET r == [q EXCEPT !.pc = pc, !.next = @ + 1]
              IN  r \in PassRecords /\ r.pc = pc /\ r.id = q.id /\ r.report = q.report
                  /\ r.broken = q.broken
           /\ LET r == [q EXCEPT !.next = @ + 1]
              IN  r \in PassRecords /\ r.pc = q.pc /\ r.id = q.id /\ r.report = q.report
                  /\ r.broken = q.broken
<1>1. q.next + 1 \in Nat
  BY DEF PassRecords
<1> QED BY <1>1 DEF PassRecords

\* A thread that continues with locals r has moved.
LEMMA ContinueMoves ==
    ASSUME pass \in [Threads -> PassRecords], NEW t \in Threads,
           NEW r \in PassRecords, r.id = pass[t].id, Continue(t, r)
    PROVE  Moved(t, r.pc, r.report, r.broken)
BY DEF Continue, Moved

\* The facts about a thread inside run_once.
LEMMA ThreadFacts ==
    ASSUME IInv, NEW t \in Threads
    PROVE  /\ pass \in [Threads -> PassRecords] /\ pass[t] \in PassRecords
           /\ pass[t].pc # "idle" => pass[t].id \in Passes
           /\ SessionOK(t)
BY DEF IInv, OrchTypeOK, OwnPass

\* A step that stores nothing and appends nothing.
LEMMA QuietStep ==
    ASSUME IInv, NEW t \in Threads, pass[t].pc # "idle",
           NEW pc \in PCs, NEW report \in BOOLEAN, NEW broken \in BOOLEAN,
           Moved(t, pc, report, broken),
           status' \in {"idle", "running", "disabled"},
           UNCHANGED <<flags, reports, ledger, rows, nextPass, appended>>,
           SessionAt(pass[t].id, pc, report, broken)
    PROVE  IInv'
<1>1. OrchTypeOK'
  BY DEF Moved, IInv, OrchTypeOK
<1>2. SessionOK(t)'
  BY DEF Moved, SessionOK, SessionAt, Untouched, OnRecord
<1>3. \A q \in Passes : Accounted(q)'
  BY DEF IInv, ReportsAccounted, Accounted, OnRecord
<1> QED BY <1>1, <1>2, <1>3, OwnStep DEF Moved, OnRecord

\* The steps of the loop over the agents.
LEMMA LoopSteps ==
    ASSUME IInv, NEW t \in Threads,
           Begin(t) \/ RunOther(t) \/ RunEnergy(t) \/ (EnergyReturns(t) /\ At(t, "waiting"))
    PROVE  IInv'
<1> DEFINE q == pass[t]
<1>1. /\ pass \in [Threads -> PassRecords] /\ q \in PassRecords
      /\ SessionAt(q.id, q.pc, q.report, q.broken)
  BY ThreadFacts DEF SessionOK
<1>2. /\ q.pc \in {"start", "agents", "waiting"} /\ "agents" \in PCs /\ "waiting" \in PCs
      /\ UNCHANGED <<flags, reports, ledger, rows, nextPass, appended>>
      /\ status' \in {"idle", "running", "disabled"}
  BY DEF Begin, RunOther, RunEnergy, EnergyReturns, InLoop, At, PCs, IInv, OrchTypeOK
<1>3. \E pc \in {"agents", "waiting"} : Moved(t, pc, q.report, q.broken)
  <2> DEFINE r1 == [q EXCEPT !.pc = "agents"]
             r2 == [q EXCEPT !.next = @ + 1]
             r3 == [q EXCEPT !.pc = "waiting"]
             r4 == [q EXCEPT !.pc = "agents", !.next = @ + 1]
             Good(r) == /\ r \in PassRecords /\ r.pc \in {"agents", "waiting"}
                        /\ r.id = q.id /\ r.report = q.report /\ r.broken = q.broken
  <2>1. \/ (Continue(t, r1) /\ Begin(t)) \/ (Continue(t, r2) /\ q.pc = "agents")
        \/ Continue(t, r3) \/ Continue(t, r4)
    BY DEF Begin, RunOther, RunEnergy, EnergyReturns, InLoop, At, GoTo
  <2>2. Good(r1) /\ (q.pc = "agents" => Good(r2)) /\ Good(r3) /\ Good(r4)
    <3>1. Good(r1) /\ Good(r3)
      BY <1>1, <1>2, GoFacts
    <3>2. q.pc = "agents" => Good(r2)
      BY <1>1, <1>2, GoFacts
    <3>3. Good(r4)
      BY <1>1, <1>2, GoFacts
    <3> QED BY <3>1, <3>2, <3>3
  <2> HIDE DEF r1, r2, r3, r4
  <2>3. \A r \in PassRecords : Good(r) /\ Continue(t, r) => Moved(t, r.pc, q.report, q.broken)
    <3> SUFFICES ASSUME NEW r \in PassRecords, Good(r), Continue(t, r)
                 PROVE  Moved(t, r.pc, q.report, q.broken)
      OBVIOUS
    <3> QED BY <1>1, ContinueMoves
  <2> QED BY <2>1, <2>2, <2>3
<1>4. \A pc \in {"agents", "waiting"} : SessionAt(q.id, pc, q.report, q.broken)
  BY <1>1, <1>2 DEF SessionAt
<1>5. q.report \in BOOLEAN /\ q.broken \in BOOLEAN
  BY <1>1 DEF PassRecords
<1> QED BY <1>2, <1>3, <1>4, <1>5, QuietStep

\* Looking for a conflict, and building the report.
LEMMA BuildSteps ==
    ASSUME IInv, NEW t \in Threads, ResolveConflicts(t) \/ BuildReport(t)
    PROVE  IInv'
<1> DEFINE q == pass[t]
           conflict == /\ last_switch # <<>> /\ last_switch[1].to = "diesel"
                       /\ DieselPricePerLitre > 800
           place == IF UseLedger THEN "append" ELSE "commit"
<1>1. /\ pass \in [Threads -> PassRecords] /\ q \in PassRecords
      /\ SessionAt(q.id, q.pc, q.report, q.broken)
  BY ThreadFacts DEF SessionOK
<1>2. /\ q.pc \in {"agents", "report"}
      /\ UNCHANGED <<flags, reports, ledger, rows, nextPass, appended>>
      /\ status' \in {"idle", "running", "disabled"}
  BY DEF ResolveConflicts, BuildReport, AllRan, At, IInv, OrchTypeOK
<1>3. q.report \in BOOLEAN /\ q.broken \in BOOLEAN
  BY <1>1 DEF PassRecords
<1>4. CASE ResolveConflicts(t)
  <2> DEFINE r == [q EXCEPT !.pc = "report", !.flag = conflict]
  <2>1. conflict \in BOOLEAN /\ "report" \in PCs
    BY DEF PCs
  <2>2. /\ r \in PassRecords /\ r.pc = "report" /\ r.id = q.id
        /\ r.report = q.report /\ r.broken = q.broken
    <3> HIDE DEF conflict
    <3> QED BY <1>1, <2>1 DEF PassRecords
  <2>3. Continue(t, r)
    BY <1>4 DEF ResolveConflicts
  <2>4. Moved(t, "report", q.report, q.broken)
    <3> HIDE DEF r
    <3> QED BY <1>1, <2>2, <2>3, ContinueMoves
  <2>5. SessionAt(q.id, "report", q.report, q.broken)
    BY <1>1, <1>2 DEF SessionAt
  <2> QED BY <1>2, <1>3, <2>1, <2>4, <2>5, QuietStep
<1>5. CASE BuildReport(t)
  <2> DEFINE r == [q EXCEPT !.pc = place, !.report = TRUE]
  <2>1. place \in PCs /\ place \in {"append", "commit"}
    BY DEF PCs
  <2>2. /\ r \in PassRecords /\ r.pc = place /\ r.id = q.id
        /\ r.report = TRUE /\ r.broken = q.broken
    <3> HIDE DEF place
    <3> QED BY <1>1, <2>1 DEF PassRecords
  <2>3. Continue(t, r)
    BY <1>5 DEF BuildReport
  <2>4. Moved(t, place, TRUE, q.broken)
    <3> HIDE DEF r, place
    <3> QED BY <1>1, <2>2, <2>3, ContinueMoves
  <2>5. SessionAt(q.id, place, TRUE, q.broken)
    BY <1>1, <1>2, <2>1 DEF SessionAt, Untouched
  <2> QED BY <1>2, <1>3, <2>1, <2>4, <2>5, QuietStep
<1> QED BY <1>4, <1>5

\* A thread that goes on with a cleared session has moved.
LEMMA ClearedMoves ==
    ASSUME pass \in [Threads -> PassRecords], NEW t \in Threads, NEW pc \in PCs,
           Continue(t, [Cleared(pass[t]) EXCEPT !.pc = pc])
    PROVE  Moved(t, pc, FALSE, FALSE)
<1> DEFINE q == Cleared(pass[t])
           r == [q EXCEPT !.pc = pc]
<1>1. q \in PassRecords /\ q.id = pass[t].id /\ q.report = FALSE /\ q.broken = FALSE
  BY ClearedFacts
<1>2. Continue(t, r)
  OBVIOUS
<1>3. r \in PassRecords /\ r.pc = pc /\ r.id = q.id /\ r.report = q.report
      /\ r.broken = q.broken
  <2> HIDE DEF q
  <2> QED BY <1>1, GoFacts
<1> HIDE DEF r, q
<1> QED BY <1>1, <1>2, <1>3, ContinueMoves

\* A thread that goes on with a broken session has moved.
LEMMA BrokenMoves ==
    ASSUME pass \in [Threads -> PassRecords], NEW t \in Threads, NEW pc \in PCs,
           Continue(t, [Broken(pass[t]) EXCEPT !.pc = pc])
    PROVE  Moved(t, pc, FALSE, TRUE)
<1> DEFINE q == Broken(pass[t])
           r == [q EXCEPT !.pc = pc]
<1>1. q \in PassRecords /\ q.id = pass[t].id /\ q.report = FALSE /\ q.broken = TRUE
  BY BrokenFacts
<1>2. Continue(t, r)
  OBVIOUS
<1>3. r \in PassRecords /\ r.pc = pc /\ r.id = q.id /\ r.report = q.report
      /\ r.broken = q.broken
  <2> HIDE DEF q
  <2> QED BY <1>1, GoFacts
<1> HIDE DEF r, q
<1> QED BY <1>1, <1>2, <1>3, ContinueMoves

\* What raises before anything is stored by the step.
LEMMA RaiseSteps ==
    ASSUME IInv, NEW t \in Threads, BuildRaises(t) \/ CommitRefused(t)
    PROVE  IInv'
<1> DEFINE q == pass[t]
<1>1. /\ q.pc \in {"agents", "report", "commit"} /\ Raise(t) /\ "handler" \in PCs
      /\ UNCHANGED <<flags, reports, ledger, rows, nextPass, appended>>
      /\ status' \in {"idle", "running", "disabled"}
  BY DEF BuildRaises, CommitRefused, AllRan, At, PCs, IInv, OrchTypeOK
<1>2. pass \in [Threads -> PassRecords] /\ SessionAt(q.id, q.pc, q.report, q.broken)
  BY ThreadFacts DEF SessionOK
<1>3. Moved(t, "handler", FALSE, FALSE)
  BY <1>1, <1>2, ClearedMoves DEF Raise
<1>4. SessionAt(q.id, "handler", FALSE, FALSE)
  BY <1>1, <1>2 DEF SessionAt, Untouched
<1> QED BY <1>1, <1>3, <1>4, QuietStep

\* record_event is done with run p, with this outcome.
LEMMA Appended ==
    ASSUME IInv, NEW t \in Threads, pass[t].pc = "append", NEW p \in Passes, p = pass[t].id,
           NEW outcome \in {"skipped", "stored", "refused", "unheard"},
           NEW report \in BOOLEAN, NEW broken \in BOOLEAN,
           report <=> outcome = "skipped",
           broken <=> outcome \in {"refused", "unheard"},
           Moved(t, "commit", report, broken),
           appended' = [appended EXCEPT ![p] = outcome],
           UNCHANGED <<status, rows, nextPass>>,
           flags' \in {flags, flags \cup {p}},
           outcome \in {"stored", "unheard"} =>
              reports' = reports \cup {p} /\ ledger' = ledger \cup {p},
           outcome \in {"skipped", "refused"} => UNCHANGED <<reports, ledger>>
    PROVE  IInv'
<1>1. Untouched(p)
  BY DEF IInv, SessionOK, SessionAt
<1>2. OrchTypeOK'
  <2>1. reports' \in {reports, reports \cup {p}} /\ ledger' \in {ledger, ledger \cup {p}}
    OBVIOUS
  <2> QED BY <2>1 DEF Moved, IInv, OrchTypeOK
<1>3. appended'[p] = outcome
  BY DEF IInv, OrchTypeOK
<1>4. ~OnRecord(p, "ok")' /\ ~OnRecord(p, "error")'
  BY <1>1 DEF Untouched, OnRecord
<1>5. SessionAt(p, "commit", report, broken)'
  BY <1>1, <1>3, <1>4 DEF SessionAt, Untouched
<1>6. SessionOK(t)'
  BY <1>5 DEF Moved, SessionOK
<1>7. Accounted(p)'
  BY <1>1, <1>3, <1>4 DEF Accounted, Untouched
<1>8. \A q \in Passes : q # p =>
         /\ q \in reports' <=> q \in reports
         /\ q \in ledger' <=> q \in ledger
         /\ \A s \in {"ok", "error"} : OnRecord(q, s)' <=> OnRecord(q, s)
         /\ appended'[q] = appended[q]
  BY DEF OnRecord, IInv, OrchTypeOK
<1> QED BY <1>2, <1>6, <1>7, <1>8, OwnStep DEF Moved

\* record_event, whatever becomes of it.
LEMMA AppendSteps ==
    ASSUME IInv, NEW t \in Threads,
           AppendSkipped(t) \/ AppendCommits(t) \/ AppendRefused(t) \/ AppendUnheard(t)
    PROVE  IInv'
<1>1. /\ pass[t].pc = "append" /\ "commit" \in PCs
      /\ UNCHANGED <<status, rows, nextPass>>
  BY DEF AppendSkipped, AppendCommits, AppendRefused, AppendUnheard, At, PCs
<1>2. /\ pass \in [Threads -> PassRecords] /\ pass[t] \in PassRecords
      /\ pass[t].id \in Passes /\ pass[t].report = TRUE /\ pass[t].broken = FALSE
  BY <1>1, ThreadFacts DEF SessionOK, SessionAt, PassRecords
<1>3. PICK p \in Passes : p = pass[t].id
  BY <1>2
<1>4. CASE AppendSkipped(t)
  <2> DEFINE r == [pass[t] EXCEPT !.pc = "commit"]
  <2>1. /\ Continue(t, r) /\ UNCHANGED <<flags, reports, ledger>>
        /\ appended' = [appended EXCEPT ![p] = "skipped"]
    BY <1>3, <1>4 DEF AppendSkipped, GoTo
  <2>2. r \in PassRecords /\ r.pc = "commit" /\ r.id = pass[t].id /\ r.report = TRUE
        /\ r.broken = FALSE
    BY <1>1, <1>2, GoFacts
  <2>3. Moved(t, "commit", TRUE, FALSE)
    <3> HIDE DEF r
    <3> QED BY <1>2, <2>1, <2>2, ContinueMoves
  <2> QED BY <1>1, <1>3, <2>1, <2>3, Appended
<1>5. CASE AppendCommits(t)
  <2>1. /\ reports' = reports \cup {p} /\ ledger' = ledger \cup {p}
        /\ flags' \in {flags, flags \cup {p}}
        /\ appended' = [appended EXCEPT ![p] = "stored"]
    BY <1>2, <1>3, <1>5 DEF AppendCommits, StorePending
  <2>2. Moved(t, "commit", FALSE, FALSE)
    BY <1>1, <1>2, <1>5, ClearedMoves DEF AppendCommits
  <2> QED BY <1>1, <1>3, <2>1, <2>2, Appended
<1>6. CASE AppendRefused(t)
  <2>1. /\ UNCHANGED <<flags, reports, ledger>>
        /\ appended' = [appended EXCEPT ![p] = "refused"]
    BY <1>3, <1>6 DEF AppendRefused
  <2>2. Moved(t, "commit", FALSE, TRUE)
    BY <1>1, <1>2, <1>6, BrokenMoves DEF AppendRefused
  <2> QED BY <1>1, <1>3, <2>1, <2>2, Appended
<1>7. CASE AppendUnheard(t)
  <2>1. /\ reports' = reports \cup {p} /\ ledger' = ledger \cup {p}
        /\ flags' \in {flags, flags \cup {p}}
        /\ appended' = [appended EXCEPT ![p] = "unheard"]
    BY <1>2, <1>3, <1>7 DEF AppendUnheard, StorePending
  <2>2. Moved(t, "commit", FALSE, TRUE)
    BY <1>1, <1>2, <1>7, BrokenMoves DEF AppendUnheard
  <2> QED BY <1>1, <1>3, <2>1, <2>2, Appended
<1> QED BY <1>4, <1>5, <1>6, <1>7

\* The last commit, heard or not.
LEMMA CommitSteps ==
    ASSUME IInv, NEW t \in Threads, CommitRow(t) \/ CommitUnheard(t)
    PROVE  IInv'
<1>1. pass[t].pc = "commit" /\ pass[t] \in PassRecords /\ SessionOK(t)
  BY ThreadFacts DEF CommitRow, CommitUnheard, At
<1>2. PICK p \in Passes : p = pass[t].id
  BY <1>1, ThreadFacts
<1>3. /\ ~pass[t].broken
      /\ UNCHANGED <<status, ledger, nextPass, appended>>
      /\ flags' \in {flags, flags \cup {p}}
      /\ reports' = IF pass[t].report THEN reports \cup {p} ELSE reports
      /\ rows' = rows \cup {[id |-> p, status |-> "ok"]}
  BY <1>1, <1>2 DEF CommitRow, CommitUnheard, StorePending, Row
<1>4. /\ appended[p] \notin {"refused", "unheard"} /\ p \in reports'
      /\ p \in ledger => p \in reports
      /\ ~OnRecord(p, "error")
  BY <1>1, <1>2, <1>3 DEF SessionOK, SessionAt, IInv, ReportsAccounted, Accounted
<1>5. Moved(t, "end", FALSE, FALSE) \/ Moved(t, "handler", FALSE, FALSE)
  <2>1. pass \in [Threads -> PassRecords] /\ "end" \in PCs /\ "handler" \in PCs
    BY ThreadFacts DEF PCs
  <2> QED BY <2>1, ClearedMoves DEF CommitRow, CommitUnheard, Raise
<1>6. OrchTypeOK'
  <2>1. reports' \in {reports, reports \cup {p}}
    BY <1>3
  <2> QED BY <1>3, <1>5, <2>1 DEF Moved, IInv, OrchTypeOK
<1>7. OnRecord(p, "ok")' /\ ~OnRecord(p, "error")'
  BY <1>3, <1>4 DEF OnRecord
<1>8. SessionOK(t)'
  <2>1. pass'[t].id = p /\ pass'[t].pc \in {"end", "handler"}
    BY <1>2, <1>5 DEF Moved
  <2> QED BY <1>7, <2>1 DEF SessionOK, SessionAt, OnRecord
<1>9. Accounted(p)'
  BY <1>3, <1>4, <1>7 DEF Accounted
<1>10. \A q \in Passes : q # p =>
         /\ q \in reports' <=> q \in reports
         /\ q \in ledger' <=> q \in ledger
         /\ \A s \in {"ok", "error"} : OnRecord(q, s)' <=> OnRecord(q, s)
         /\ appended'[q] = appended[q]
  BY <1>3 DEF OnRecord
<1> QED BY <1>1, <1>2, <1>3, <1>5, <1>6, <1>8, <1>9, <1>10, OwnStep DEF Moved

\* The handler's own row.
LEMMA HandleStep ==
    ASSUME IInv, NEW t \in Threads, Handle(t)
    PROVE  IInv'
<1> DEFINE r == [pass[t] EXCEPT !.pc = "end"]
<1>1. /\ pass[t].pc = "handler" /\ "end" \in PCs
      /\ UNCHANGED <<status, flags, reports, ledger, nextPass, appended>>
      /\ Continue(t, r)
  BY DEF Handle, At, GoTo, PCs
<1>2. pass \in [Threads -> PassRecords] /\ pass[t] \in PassRecords /\ SessionOK(t)
  BY ThreadFacts
<1>3. PICK p \in Passes : p = pass[t].id
  BY <1>1, ThreadFacts
<1>4. rows' \in {rows, rows \cup {[id |-> p, status |-> "error"]}}
  BY <1>3 DEF Handle, Row
<1>5. Moved(t, "end", r.report, r.broken)
  <2>1. r \in PassRecords /\ r.pc = "end" /\ r.id = pass[t].id
    BY <1>1, <1>2, GoFacts
  <2> HIDE DEF r
  <2> QED BY <1>1, <1>2, <2>1, ContinueMoves
<1>6. OrchTypeOK'
  BY <1>1, <1>4, <1>5 DEF Moved, IInv, OrchTypeOK
<1>7. SessionOK(t)'
  BY <1>5 DEF Moved, SessionOK, SessionAt
<1>8. Accounted(p)'
  <2>1. p \in reports => p \in ledger \/ OnRecord(p, "ok")
    BY <1>1, <1>2, <1>3 DEF SessionOK, SessionAt
  <2>2. OnRecord(p, "ok")' <=> OnRecord(p, "ok")
    BY <1>4 DEF OnRecord
  <2>3. Accounted(p)
    BY DEF IInv, ReportsAccounted
  <2> QED BY <1>1, <2>1, <2>2, <2>3 DEF Accounted
<1>9. \A q \in Passes : q # p =>
         \A s \in {"ok", "error"} : OnRecord(q, s)' <=> OnRecord(q, s)
  BY <1>4 DEF OnRecord
<1> QED BY <1>1, <1>3, <1>5, <1>6, <1>7, <1>8, <1>9, OwnStep DEF Moved

-----------------------------------------------------------------------------
(* The ends of a run, and the others                                       *)

\* A new run takes a number that nothing is stored of.
LEMMA CallStep ==
    ASSUME IInv, NEW t \in Threads, CallOrchestrator(t)
    PROVE  IInv'
<1> DEFINE r == [NoPass EXCEPT !.pc = "start", !.id = nextPass]
<1>1. /\ pass[t].pc = "idle" /\ nextPass' = nextPass + 1
      /\ nextPass <= MaxPasses /\ Continue(t, r)
      /\ UNCHANGED <<status, flags, reports, ledger, rows, appended>>
  BY DEF CallOrchestrator, At
<1>2. pass \in [Threads -> PassRecords] /\ nextPass \in 1..(MaxPasses + 1)
  BY DEF IInv, OrchTypeOK
<1>3. nextPass \in Passes
  BY <1>1, <1>2, Bounds DEF Passes
<1>4. r \in PassRecords /\ r.pc = "start" /\ r.id = nextPass /\ r.broken = FALSE
  BY <1>3 DEF NoPass, PassRecords, PCs
<1>5. /\ pass' \in [Threads -> PassRecords]
      /\ pass'[t].pc = "start" /\ pass'[t].id = nextPass /\ pass'[t].broken = FALSE
      /\ \A u \in Threads : u # t => pass'[u] = pass[u]
  <2> HIDE DEF r
  <2> QED BY <1>1, <1>2, <1>4 DEF Continue
<1>6. OrchTypeOK'
  BY <1>1, <1>2, <1>5, Bounds DEF IInv, OrchTypeOK
<1>7. OwnPass'
  <2>1. \A u \in Threads : pass[u].pc # "idle" =>
           pass[u].id \in Passes /\ pass[u].id < nextPass /\ pass[u].id # nextPass
    BY Bounds DEF IInv, OwnPass, Passes
  <2>2. nextPass < nextPass' /\ \A p \in Passes : p < nextPass => p < nextPass'
    BY <1>1, <1>2, Bounds DEF Passes
  <2>3. \A u \in Threads : pass'[u].pc # "idle" => pass'[u].id \in Passes /\ pass'[u].id < nextPass'
    BY <1>3, <1>5, <2>1, <2>2
  <2>4. \A u, v \in Threads : pass'[u].pc # "idle" /\ pass'[v].pc # "idle" /\ u # v =>
           pass'[u].id # pass'[v].id
    BY <1>5, <2>1 DEF IInv, OwnPass
  <2> QED BY <2>3, <2>4 DEF OwnPass
<1>8. \A p \in Passes : p >= nextPass => Untouched(p)'
  BY <1>1 DEF IInv, Fresh, Untouched, OnRecord
<1>9. Fresh'
  <2>1. \A p \in Passes : p >= nextPass' => p >= nextPass
    BY <1>1, <1>2, Bounds DEF Passes
  <2> QED BY <1>8, <2>1 DEF Fresh
<1>10. \A u \in Threads : SessionOK(u)'
  <2>1. SessionOK(t)'
    <3>1. Untouched(nextPass)
      BY <1>2, <1>3, Bounds DEF IInv, Fresh
    <3> QED BY <1>1, <1>5, <3>1 DEF SessionOK, SessionAt, Untouched, OnRecord
  <2>2. ASSUME NEW u \in Threads, u # t PROVE SessionOK(u)'
    <3>1. SessionOK(u) /\ pass'[u] = pass[u]
      BY <1>5, <2>2 DEF IInv
    <3> QED BY <1>1, <3>1 DEF SessionOK, SessionAt, Untouched, OnRecord
  <2> QED BY <2>1, <2>2
<1>11. ReportsAccounted'
  BY <1>1 DEF IInv, ReportsAccounted, Accounted, OnRecord
<1> QED BY <1>6, <1>7, <1>9, <1>10, <1>11 DEF IInv

\* Runs that end, one or all of them, leave the tables alone.
LEMMA IdleStep ==
    ASSUME IInv,
           pass' \in [Threads -> PassRecords],
           \A t \in Threads : pass'[t] = pass[t] \/ pass'[t].pc = "idle",
           status' \in {"idle", "running", "disabled"},
           UNCHANGED <<flags, reports, ledger, rows, nextPass, appended>>
    PROVE  IInv'
<1>1. OrchTypeOK'
  BY DEF IInv, OrchTypeOK
<1>2. OwnPass'
  BY DEF IInv, OwnPass
<1>3. Fresh'
  BY DEF IInv, Fresh, Untouched, OnRecord
<1>4. ASSUME NEW t \in Threads PROVE SessionOK(t)'
  BY DEF IInv, SessionOK, SessionAt, Untouched, OnRecord
<1>5. ReportsAccounted'
  BY DEF IInv, ReportsAccounted, Accounted, OnRecord
<1> QED BY <1>1, <1>2, <1>3, <1>4, <1>5 DEF IInv

\* What the invariant is about is left as it is, but for the status.
LEMMA OtherSteps ==
    ASSUME IInv,
           \/ \E t \in Threads : End(t) \/ (EnergyReturns(t) /\ ~At(t, "waiting"))
           \/ Energetic \/ Disable \/ Enable \/ Restart \/ UNCHANGED vars
    PROVE  IInv'
<1>1. pass \in [Threads -> PassRecords] /\ NoPass \in PassRecords /\ NoPass.pc = "idle"
  BY DEF IInv, OrchTypeOK, NoPass, PassRecords, PCs
<1>2. UNCHANGED <<flags, reports, ledger, rows, nextPass, appended>>
  BY DEF End, EnergyReturns, Energetic, Disable, Enable, Restart, vars, orchVars
<1>3. status' \in {"idle", "running", "disabled"}
  BY DEF End, EnergyReturns, Energetic, Disable, Enable, Restart, vars, orchVars, IInv, OrchTypeOK
<1>4. \/ pass' = pass
      \/ \E t \in Threads : pass' = [pass EXCEPT ![t] = NoPass]
      \/ pass' = [t \in Threads |-> NoPass]
  BY DEF End, EnergyReturns, Energetic, Disable, Enable, Restart, vars, orchVars, Continue
<1>5. /\ pass' \in [Threads -> PassRecords]
      /\ \A t \in Threads : pass'[t] = pass[t] \/ pass'[t].pc = "idle"
  BY <1>1, <1>4
<1> QED BY <1>2, <1>3, <1>5, IdleStep

\* Every step keeps the invariant.
LEMMA NextIInv == IInv /\ [Next]_vars => IInv'
<1> SUFFICES ASSUME IInv, [Next]_vars PROVE IInv'
  OBVIOUS
<1>1. CASE \E t \in Threads : PassStep(t)
  <2> PICK t \in Threads : PassStep(t)
    BY <1>1
  <2>1. CASE Begin(t) \/ RunOther(t) \/ RunEnergy(t) \/ (EnergyReturns(t) /\ At(t, "waiting"))
    BY <2>1, LoopSteps
  <2>2. CASE (EnergyReturns(t) /\ ~At(t, "waiting")) \/ End(t)
    BY <2>2, OtherSteps
  <2>3. CASE ResolveConflicts(t) \/ BuildReport(t)
    BY <2>3, BuildSteps
  <2>4. CASE BuildRaises(t) \/ CommitRefused(t)
    BY <2>4, RaiseSteps
  <2>5. CASE AppendSkipped(t) \/ AppendCommits(t) \/ AppendRefused(t) \/ AppendUnheard(t)
    BY <2>5, AppendSteps
  <2>6. CASE CommitRow(t) \/ CommitUnheard(t)
    BY <2>6, CommitSteps
  <2>7. CASE Handle(t)
    BY <2>7, HandleStep
  <2> QED BY <2>1, <2>2, <2>3, <2>4, <2>5, <2>6, <2>7 DEF PassStep
<1>2. CASE \E t \in Threads : CallOrchestrator(t)
  BY <1>2, CallStep
<1>3. CASE Energetic \/ Disable \/ Enable \/ Restart \/ UNCHANGED vars
  BY <1>3, OtherSteps
<1> QED BY <1>1, <1>2, <1>3 DEF Next

-----------------------------------------------------------------------------
(* The theorems                                                            *)

\* The invariant holds for any number of threads, agents and runs.
THEOREM InductiveInvariant == Spec => []IInv
<1>1. Init => IInv
  BY InitIInv
<1>2. IInv /\ [Next]_vars => IInv'
  BY NextIInv
<1> QED BY <1>1, <1>2, PTL DEF Spec

\* The records of every run agree: an ok run has its report and its event, a
\* block has its report, and a run that failed has left a report only through
\* the ledger's commit or a commit whose answer was lost
\* (orchestrator_agent.py:62-95, events.py:14-17).
THEOREM RecordsAgree == Spec => []ReportsAccounted
<1>1. IInv => ReportsAccounted
  BY DEF IInv
<1> QED BY <1>1, InductiveInvariant, PTL

-----------------------------------------------------------------------------
(* The status                                                              *)

\* A thread is past the assignment of "running" and before that of "idle".
InFlight(t) == pass[t].pc \notin {"idle", "start"}

\* A step of another thread leaves the locals of t alone.
LEMMA OthersKeep ==
    ASSUME pass \in [Threads -> PassRecords], NEW t \in Threads, NEW u \in Threads, u # t,
           PassStep(u) \/ CallOrchestrator(u)
    PROVE  pass'[t] = pass[t]
<1> USE DEF Continue, GoTo, Raise
<1>1. CASE Begin(u) \/ RunOther(u) \/ RunEnergy(u) \/ CallOrchestrator(u) \/ End(u)
  BY <1>1 DEF Begin, RunOther, RunEnergy, CallOrchestrator, End
<1>2. CASE EnergyReturns(u)
  BY <1>2 DEF EnergyReturns
<1>3. CASE ResolveConflicts(u) \/ BuildReport(u) \/ BuildRaises(u)
  BY <1>3 DEF ResolveConflicts, BuildReport, BuildRaises
<1>4. CASE AppendSkipped(u) \/ AppendCommits(u) \/ AppendRefused(u) \/ AppendUnheard(u)
  BY <1>4 DEF AppendSkipped, AppendCommits, AppendRefused, AppendUnheard
<1>5. CASE CommitRow(u) \/ CommitRefused(u) \/ CommitUnheard(u) \/ Handle(u)
  BY <1>5 DEF CommitRow, CommitRefused, CommitUnheard, Handle
<1> QED BY <1>1, <1>2, <1>3, <1>4, <1>5 DEF PassStep

\* A step of t itself that is not its end leaves it in flight.
LEMMA OwnFlight ==
    ASSUME pass \in [Threads -> PassRecords], NEW t \in Threads, PassStep(t), ~End(t),
           InFlight(t) \/ Begin(t)
    PROVE  InFlight(t)'
<1> DEFINE q == pass[t]
           Flies(r) == Continue(t, r) /\ r.pc \notin {"idle", "start"}
<1>1. ASSUME NEW r, Flies(r) PROVE InFlight(t)'
  BY <1>1 DEF Continue, InFlight
<1>2. q \in PassRecords /\ Cleared(q) \in PassRecords /\ Broken(q) \in PassRecords
  BY ClearedFacts, BrokenFacts
<1>3. ASSUME NEW p \in PassRecords, NEW pc \in PCs \ {"idle", "start"},
             Continue(t, [p EXCEPT !.pc = pc])
      PROVE  InFlight(t)'
  BY <1>1, <1>3, GoFacts
<1>4. {"agents", "waiting", "commit", "handler", "end"} \subseteq PCs \ {"idle", "start"}
  BY DEF PCs
<1>5. CASE Begin(t) \/ RunEnergy(t) \/ AppendSkipped(t) \/ Handle(t)
  BY <1>2, <1>3, <1>4, <1>5 DEF Begin, RunEnergy, AppendSkipped, Handle, GoTo
<1>6. CASE AppendCommits(t) \/ CommitRow(t)
  BY <1>2, <1>3, <1>4, <1>6 DEF AppendCommits, CommitRow
<1>7. CASE AppendRefused(t) \/ AppendUnheard(t)
  BY <1>2, <1>3, <1>4, <1>7 DEF AppendRefused, AppendUnheard
<1>8. CASE BuildRaises(t) \/ CommitRefused(t) \/ CommitUnheard(t)
  BY <1>2, <1>3, <1>4, <1>8 DEF BuildRaises, CommitRefused, CommitUnheard, Raise
<1>9. CASE RunOther(t)
  <2> DEFINE r == [q EXCEPT !.next = @ + 1]
  <2>1. Continue(t, r) /\ q.pc = "agents"
    BY <1>9 DEF RunOther, InLoop, At
  <2>2. r.pc = q.pc
    BY <1>2, <1>4, GoFacts
  <2> HIDE DEF r
  <2> QED BY <1>1, <2>1, <2>2
<1>10. CASE EnergyReturns(t) /\ At(t, "waiting")
  <2> DEFINE r == [q EXCEPT !.pc = "agents", !.next = @ + 1]
  <2>1. Continue(t, r)
    BY <1>10 DEF EnergyReturns
  <2>2. "agents" \in PCs /\ q \in PassRecords
    BY <1>2, <1>4
  <2>3. r.pc = "agents"
    BY <2>2, GoFacts
  <2> HIDE DEF r
  <2> QED BY <1>1, <2>1, <2>3
<1>11. CASE EnergyReturns(t) /\ ~At(t, "waiting") /\ ~Begin(t)
  BY <1>11 DEF EnergyReturns, InFlight
<1>12. CASE ResolveConflicts(t)
  <2> DEFINE conflict == /\ last_switch # <<>> /\ last_switch[1].to = "diesel"
                         /\ DieselPricePerLitre > 800
             r == [q EXCEPT !.pc = "report", !.flag = conflict]
  <2>1. Continue(t, r)
    BY <1>12 DEF ResolveConflicts
  <2>2. r.pc = "report"
    <3> HIDE DEF conflict
    <3> QED BY <1>2 DEF PassRecords
  <2> HIDE DEF r
  <2> QED BY <1>1, <2>1, <2>2
<1>13. CASE BuildReport(t)
  <2> DEFINE place == IF UseLedger THEN "append" ELSE "commit"
             r == [q EXCEPT !.pc = place, !.report = TRUE]
  <2>1. Continue(t, r) /\ place \notin {"idle", "start"}
    BY <1>13 DEF BuildReport
  <2>2. r.pc = place
    <3> HIDE DEF place
    <3> QED BY <1>2 DEF PassRecords
  <2> HIDE DEF r, place
  <2> QED BY <1>1, <2>1, <2>2
<1> QED BY <1>5, <1>6, <1>7, <1>8, <1>9, <1>10, <1>11, <1>12, <1>13 DEF PassStep

\* No step but its own end and a restart takes a run out of flight.
LEMMA FlightStep ==
    ASSUME IInv, [Next]_vars, NEW t \in Threads, InFlight(t)
    PROVE  InFlight(t)' \/ status' = "idle"
<1>1. pass \in [Threads -> PassRecords]
  BY DEF IInv, OrchTypeOK
<1>2. ASSUME NEW u \in Threads, PassStep(u) \/ CallOrchestrator(u)
      PROVE  InFlight(t)' \/ status' = "idle"
  <2>1. CASE u # t
    BY <1>1, <1>2, <2>1, OthersKeep DEF InFlight
  <2>2. CASE u = t
    <3>1. CASE End(t)
      BY <3>1 DEF End
    <3>2. CASE CallOrchestrator(t)
      BY <3>2 DEF CallOrchestrator, At, InFlight
    <3> QED BY <1>1, <1>2, <2>2, <3>1, <3>2, OwnFlight
  <2> QED BY <2>1, <2>2
<1>3. CASE Energetic \/ Disable \/ Enable \/ UNCHANGED vars
  BY <1>3 DEF Energetic, Disable, Enable, vars, orchVars, InFlight
<1>4. CASE Restart
  BY <1>4 DEF Restart
<1> QED BY <1>2, <1>3, <1>4 DEF Next

\* What sets the status to "running" is the start of a run, which is in flight.
LEMMA RunningStep ==
    ASSUME IInv, [Next]_vars, status' = "running", status # "running"
    PROVE  \E t \in Threads : InFlight(t)'
<1>1. PICK t \in Threads : Begin(t)
  <2>1. ASSUME NEW u \in Threads, PassStep(u) \/ CallOrchestrator(u) PROVE Begin(u)
    BY <2>1 DEF PassStep, CallOrchestrator, RunOther, RunEnergy, EnergyReturns,
       ResolveConflicts, BuildReport, BuildRaises, AppendSkipped, AppendCommits, AppendRefused,
       AppendUnheard, CommitRow, CommitRefused, CommitUnheard, Handle, End
  <2>2. ~Energetic /\ ~Disable /\ ~Enable /\ ~Restart /\ ~UNCHANGED vars
    BY DEF Energetic, Disable, Enable, Restart, vars, orchVars
  <2> QED BY <2>1, <2>2 DEF Next
<1>2. PassStep(t) /\ ~End(t) /\ pass \in [Threads -> PassRecords]
  BY <1>1 DEF PassStep, End, IInv, OrchTypeOK
<1> QED BY <1>1, <1>2, OwnFlight

\* The orchestrator says "running" only while a run of it is in flight, whatever
\* fails and however runs, disable(), enable() and restarts overlap
\* (orchestrator_agent.py:45, 97-100).
THEOREM RunningIsInFlight == Spec => []RunningMeansInFlight
<1>1. Init => RunningMeansInFlight
  BY DEF Init, OrchInit, RunningMeansInFlight
<1>2. IInv /\ RunningMeansInFlight /\ [Next]_vars => RunningMeansInFlight'
  <2> SUFFICES ASSUME IInv, RunningMeansInFlight, [Next]_vars, status' = "running"
               PROVE  \E t \in Threads : InFlight(t)'
    BY DEF RunningMeansInFlight, InFlight
  <2>1. CASE status # "running"
    BY <2>1, RunningStep
  <2>2. CASE status = "running"
    <3>1. PICK t \in Threads : InFlight(t)
      BY <2>2 DEF RunningMeansInFlight, InFlight
    <3>2. InFlight(t)'
      BY <3>1, FlightStep
    <3> QED BY <3>2
  <2> QED BY <2>1, <2>2
<1> QED BY <1>1, <1>2, InductiveInvariant, PTL DEF Spec

-----------------------------------------------------------------------------
(* Part 2: the energy agent                                                *)

\* What think() can propose: no switch to diesel is among it.
Actions ==
    [type : {"switch_source"}, facility : Facilities, from : Sources, to : Sources \ {"diesel"}]
        \cup [type : {"schedule_generator_maintenance"}, facility : Facilities, hours_run : Nat]

Runs == [pc : {"idle", "observe", "think", "act", "commit"}, seen : Nat, plan : Seq(Actions)]

\* The state of the agent, with what its plans may hold at each point of a run.
AgentOK ==
    /\ readings \in Seq(Rows)
    /\ runtime_hours \in [Facilities -> Nat] /\ since \in [Facilities -> Nat \cup {-1}]
    /\ last_switch # <<>> => last_switch[1].to # "diesel"
    /\ run \in [Threads -> Runs]
    /\ \A t \in Threads :
          /\ run[t].pc \in {"idle", "observe", "think"} => run[t].plan = <<>>
          /\ run[t].pc = "commit" => run[t].plan # <<>>

\* While a run has reset the hours and not heard of its switch, they are 0 or
\* the history is spoilt.
HoursOK ==
    \A f \in Facilities :
        since[f] # -1 =>
            runtime_hours[f] = IF \E t \in Threads : Performing(t, f) THEN 0 ELSE 4 * since[f]

\* A switch off diesel is on the plan of t and has not been performed yet.
Leaves(action, f) == action.type = "switch_source" /\ action.facility = f /\ action.from = "diesel"
Pending(t, f) == \E i \in DOMAIN run[t].plan :
                     Leaves(run[t].plan[i], f) /\ (i # 1 \/ run[t].pc # "commit")
Switching(f) == {t \in Threads : Pending(t, f)}

\* Each run that has counted hours and not reset them is still to switch.
CountOK ==
    \A f \in Facilities \ withheld : runtime_hours[f] <= 4 * Cardinality(Switching(f))

\* The inductive invariant.
EInv == AgentOK /\ HoursOK /\ CountOK /\ MaintenanceNeedsWithheldSwitch

-----------------------------------------------------------------------------
(* The plan of a run: the proposals for the facilities, one after another  *)

\* A set of natural numbers that is not empty has a least element.
LEMMA Least ==
    ASSUME NEW T, T \subseteq Nat, T # {}
    PROVE  \E x \in T : \A y \in T : x <= y
<1> DEFINE R == OpToRel(<, Nat)
<1>1. IsWellFoundedOn(R, Nat)
  BY NatLessThanWellFounded DEF OpToRel
<1>2. \E x \in T : \A y \in T : ~(<<y, x>> \in R)
  <2> HIDE DEF R
  <2> QED BY <1>1, WFMin
<1>3. \A x, y \in Nat : ~(<<y, x>> \in R) => x <= y
  BY DEF OpToRel
<1> QED BY <1>2, <1>3

\* g holds the concatenations of the first n sequences.
Concat(seqs, n, g) == g = [i \in 1..n |-> IF i = 1 THEN seqs[i] ELSE g[i - 1] \o seqs[i]]

\* There are such concatenations: the least n without them would be the
\* successor of one that has them.
LEMMA ConcatExists ==
    ASSUME NEW S, NEW seqs \in Seq(Seq(S))
    PROVE  \A n \in 1..Len(seqs) : \E g \in [1..n -> Seq(S)] : Concat(seqs, n, g)
<1> DEFINE Has(n) == \E g \in [1..n -> Seq(S)] : Concat(seqs, n, g)
           without == {n \in 1..Len(seqs) : ~Has(n)}
<1> SUFFICES ASSUME without # {} PROVE FALSE
  OBVIOUS
<1>1. PICK n \in without : \A k \in without : n <= k
  <2>1. without \subseteq Nat
    OBVIOUS
  <2> HIDE DEF without
  <2> QED BY <2>1, Least
<1>2. n # 1
  <2>1. [i \in 1..1 |-> seqs[1]] \in [1..1 -> Seq(S)] /\ Concat(seqs, 1, [i \in 1..1 |-> seqs[1]])
    BY <1>1 DEF Concat
  <2> QED BY <1>1, <2>1
<1>3. n \in 2..Len(seqs) /\ n - 1 \in 1..Len(seqs)
  BY <1>1, <1>2
<1>4. PICK g \in [1..(n - 1) -> Seq(S)] : Concat(seqs, n - 1, g)
  <2>1. n - 1 \notin without
    <3> HIDE DEF without
    <3> QED BY <1>1, <1>3
  <2>2. Has(n - 1)
    <3> HIDE DEF Has
    <3> QED BY <1>3, <2>1
  <2> QED BY <2>2
<1> DEFINE h == [i \in 1..n |-> IF i = n THEN g[n - 1] \o seqs[n] ELSE g[i]]
<1>5. h \in [1..n -> Seq(S)]
  <2>1. g[n - 1] \in Seq(S) /\ seqs[n] \in Seq(S)
    BY <1>3, <1>4
  <2>2. g[n - 1] \o seqs[n] \in Seq(S)
    BY <2>1
  <2>3. \A i \in 1..n : i # n => g[i] \in Seq(S)
    BY <1>3, <1>4
  <2> QED BY <2>2, <2>3
<1>6. Concat(seqs, n, h)
  <2>1. ASSUME NEW i \in 1..n PROVE h[i] = IF i = 1 THEN seqs[i] ELSE h[i - 1] \o seqs[i]
    <3>1. CASE i = n
      <4>1. n \in 1..n /\ n - 1 \in 1..n /\ n - 1 # n /\ n # 1
        BY <1>3
      <4>2. h[n - 1] = g[n - 1]
        BY <4>1
      <4>3. h[n] = g[n - 1] \o seqs[n]
        BY <4>1
      <4> QED BY <3>1, <4>1, <4>2, <4>3
    <3>2. CASE i # n
      <4>1. i \in 1..(n - 1) /\ h[i] = g[i]
        BY <1>3, <3>2
      <4>2. g[i] = IF i = 1 THEN seqs[i] ELSE g[i - 1] \o seqs[i]
        BY <1>4, <4>1 DEF Concat
      <4>3. i # 1 => h[i - 1] = g[i - 1]
        BY <1>3, <4>1
      <4> QED BY <4>1, <4>2, <4>3
    <3> QED BY <3>1, <3>2
  <2>2. h = [i \in 1..n |-> h[i]]
    OBVIOUS
  <2> HIDE DEF h
  <2> QED BY <2>1, <2>2 DEF Concat
<1> QED BY <1>1, <1>5, <1>6

\* x is in the sequence s.
In(x, s) == \E i \in DOMAIN s : s[i] = x

\* The elements of a concatenation are those of its two parts.
LEMMA ConcatElements ==
    ASSUME NEW S, NEW a \in Seq(S), NEW b \in Seq(S), NEW x
    PROVE  a \o b \in Seq(S) /\ (In(x, a \o b) <=> In(x, a) \/ In(x, b))
<1>1. /\ a \o b \in Seq(S) /\ Len(a \o b) = Len(a) + Len(b)
      /\ \A i \in 1..Len(a) + Len(b) :
            (a \o b)[i] = IF i <= Len(a) THEN a[i] ELSE b[i - Len(a)]
  OBVIOUS
<1>2. /\ DOMAIN (a \o b) = 1..Len(a) + Len(b) /\ DOMAIN a = 1..Len(a) /\ DOMAIN b = 1..Len(b)
      /\ Len(a) \in Nat /\ Len(b) \in Nat
  BY <1>1
<1>3. In(x, a \o b) => In(x, a) \/ In(x, b)
  <2> SUFFICES ASSUME In(x, a \o b) PROVE In(x, a) \/ In(x, b)
    OBVIOUS
  <2>1. PICK i \in 1..Len(a) + Len(b) : (a \o b)[i] = x
    BY <1>2 DEF In
  <2>2. CASE i <= Len(a)
    BY <1>1, <1>2, <2>1, <2>2 DEF In
  <2>3. CASE i > Len(a)
    BY <1>1, <1>2, <2>1, <2>3, i - Len(a) \in 1..Len(b) DEF In
  <2> QED BY <1>2, <2>1, <2>2, <2>3
<1>4. In(x, a) => In(x, a \o b)
  BY <1>1, <1>2 DEF In
<1>5. In(x, b) => In(x, a \o b)
  <2> SUFFICES ASSUME In(x, b) PROVE In(x, a \o b)
    OBVIOUS
  <2>1. PICK i \in 1..Len(b) : b[i] = x
    BY <1>2 DEF In
  <2>2. i + Len(a) \in 1..Len(a) + Len(b) /\ (a \o b)[i + Len(a)] = x
    BY <1>1, <1>2, <2>1
  <2> QED BY <1>2, <2>2 DEF In
<1> QED BY <1>1, <1>3, <1>4, <1>5

\* A plan holds what was proposed for each of the facilities, and nothing else.
LEMMA FlattenElements ==
    ASSUME NEW S, NEW seqs \in Seq(Seq(S))
    PROVE  /\ FlattenSeq(seqs) \in Seq(S)
           /\ \A x : In(x, FlattenSeq(seqs)) <=> \E k \in 1..Len(seqs) : In(x, seqs[k])
<1>1. CASE Len(seqs) = 0
  <2>1. FlattenSeq(seqs) = <<>>
    BY <1>1 DEF FlattenSeq
  <2> QED BY <1>1, <2>1 DEF In
<1>2. CASE Len(seqs) # 0
  <2> DEFINE N == Len(seqs)
             flat == CHOOSE g : Concat(seqs, N, g)
  <2>1. N \in 1..Len(seqs)
    BY <1>2
  <2>2. Concat(seqs, N, flat)
    BY <2>1, ConcatExists
  <2>3. FlattenSeq(seqs) = flat[N]
    BY <1>2 DEF FlattenSeq, Concat
  <2> HIDE DEF flat
  <2>4. \A n \in 1..N : flat[n] = IF n = 1 THEN seqs[n] ELSE flat[n - 1] \o seqs[n]
    BY <2>2 DEF Concat
  <2> DEFINE Good(n) == /\ flat[n] \in Seq(S)
                        /\ \A x : In(x, flat[n]) <=> \E k \in 1..n : In(x, seqs[k])
             bad == {n \in 1..N : ~Good(n)}
  <2>5. bad = {}
    <3> SUFFICES ASSUME bad # {} PROVE FALSE
      OBVIOUS
    <3>1. PICK n \in bad : \A k \in bad : n <= k
      <4>1. bad \subseteq Nat
        OBVIOUS
      <4> HIDE DEF bad
      <4> QED BY <4>1, Least
    <3>2. n # 1
      <4>1. flat[1] = seqs[1] /\ seqs[1] \in Seq(S) /\ \A k : k \in 1..1 <=> k = 1
        BY <2>1, <2>4
      <4>2. Good(1)
        BY <4>1
      <4> QED
        <5> HIDE DEF Good
        <5> QED BY <3>1, <4>2
    <3>3. n - 1 \in 1..N /\ n \in 1..N
      BY <3>1, <3>2
    <3>4. Good(n - 1)
      <4>1. n - 1 \notin bad
        <5> HIDE DEF bad
        <5> QED BY <3>1, <3>3
      <4> HIDE DEF Good
      <4> QED BY <3>3, <4>1
    <3>5. flat[n] = flat[n - 1] \o seqs[n] /\ seqs[n] \in Seq(S)
      <4>1. flat[n] = flat[n - 1] \o seqs[n]
        BY <2>4, <3>2, <3>3
      <4>2. seqs[n] \in Seq(S)
        BY <3>3
      <4> QED BY <4>1, <4>2
    <3>6. \A k : k \in 1..n <=> k \in 1..(n - 1) \/ k = n
      BY <3>3
    <3>7. flat[n] \in Seq(S) /\ \A x : In(x, flat[n]) <=> In(x, flat[n - 1]) \/ In(x, seqs[n])
      BY <3>4, <3>5, ConcatElements
    <3>8. \A x : In(x, flat[n]) <=> \E k \in 1..n : In(x, seqs[k])
      BY <3>4, <3>6, <3>7
    <3> QED BY <3>1, <3>7, <3>8
  <2>6. Good(N)
    BY <2>1, <2>5
  <2> QED BY <2>3, <2>6
<1> QED BY <1>1, <1>2

-----------------------------------------------------------------------------
(* What is proposed                                                        *)

\* The cheapest of three sources exists, and diesel is not among the three.
LEMMA BestIsNotDiesel ==
    ASSUME NEW current, NEW hour
    PROVE  BestSource(current, hour) \in Sources \ {"diesel"}
<1> DEFINE order == <<"grid", "gas", "solar">>
           cost(i) == marginal_costs[order[i]]
           first(i) == \A j \in 1..3 : cost(i) < cost(j) \/ (cost(i) = cost(j) /\ i <= j)
<1>1. cost(1) \in Int /\ cost(2) \in Int /\ cost(3) \in Int
  BY SettingsAssumption DEF marginal_costs
<1>2. \E i \in 1..3 : first(i)
  <2> HIDE DEF cost
  <2>1. CASE cost(1) <= cost(2) /\ cost(1) <= cost(3)
    BY <1>1, <2>1, first(1)
  <2>2. CASE cost(2) < cost(1) /\ cost(2) <= cost(3)
    BY <1>1, <2>2, first(2)
  <2>3. CASE cost(3) < cost(1) /\ cost(3) < cost(2)
    BY <1>1, <2>3, first(3)
  <2> QED BY <1>1, <2>1, <2>2, <2>3
<1>3. Cheapest = order[CHOOSE i \in 1..3 : first(i)]
  BY DEF Cheapest
<1>4. (CHOOSE i \in 1..3 : first(i)) \in 1..3
  <2> HIDE DEF first
  <2> QED BY <1>2
<1>5. Cheapest \in {"grid", "gas", "solar"}
  <2> DEFINE k == CHOOSE i \in 1..3 : first(i)
  <2>1. Cheapest = order[k] /\ k \in 1..3
    BY <1>3, <1>4
  <2> HIDE DEF k
  <2>2. k = 1 \/ k = 2 \/ k = 3
    BY <2>1
  <2> QED BY <2>1, <2>2
<1> QED BY <1>5 DEF BestSource, Sources

LEMMA CurrentSourceType ==
    ASSUME AgentOK, NEW n, NEW f
    PROVE  CurrentSource(n, f) \in Sources
<1> DEFINE latest == latest_readings_by_source(n, f)
<1>1. latest \subseteq DOMAIN readings /\ latest \subseteq Nat
  BY DEF AgentOK, latest_readings_by_source
<1>2. CASE latest = {}
  BY <1>2 DEF CurrentSource, Sources
<1>3. CASE latest # {}
  <2>1. Min(latest) \in latest
    <3> HIDE DEF latest
    <3>1. PICK x \in latest : \A y \in latest : x <= y
      BY <1>1, <1>3, Least
    <3> QED BY <3>1 DEF Min
  <2>2. readings[Min(latest)] \in Rows
    <3>1. Min(latest) \in DOMAIN readings /\ readings \in Seq(Rows)
      <4> HIDE DEF latest
      <4> QED BY <1>1, <2>1 DEF AgentOK
    <3> HIDE DEF latest
    <3> QED BY <3>1
  <2>3. readings[Min(latest)].source \in Sources
    BY <2>2, SettingsAssumption DEF Rows
  <2> QED BY <1>3, <2>3 DEF CurrentSource
<1> QED BY <1>2, <1>3

\* A facility on diesel is to leave it; maintenance is proposed for one on
\* diesel, when its hours are over the threshold.
LEMMA ProposalsFacts ==
    ASSUME NEW f \in Facilities, NEW current \in Sources, NEW hour, NEW hours \in Nat
    PROVE  /\ Proposals(f, current, hour, hours) \in Seq(Actions)
           /\ current = "diesel" =>
                 \E a \in Actions : Leaves(a, f) /\ In(a, Proposals(f, current, hour, hours))
           /\ \A a : In(a, Proposals(f, current, hour, hours)) /\ a.type # "switch_source" =>
                 a.facility = f /\ hours >= MAINTENANCE_THRESHOLD_HOURS
<1> DEFINE best == BestSource(current, hour)
           one == IF current # best THEN <<Switch(f, current, best)>> ELSE <<>>
           two == IF current = "diesel" /\ hours >= MAINTENANCE_THRESHOLD_HOURS
                  THEN <<Maintenance(f, hours)>> ELSE <<>>
<1>1. best \in Sources \ {"diesel"}
  BY BestIsNotDiesel
<1> HIDE DEF best
<1>2. Switch(f, current, best) \in Actions /\ Maintenance(f, hours) \in Actions
  BY <1>1 DEF Switch, Maintenance, Actions
<1>3. one \in Seq(Actions) /\ two \in Seq(Actions)
  BY <1>2
<1>4. Proposals(f, current, hour, hours) = one \o two
  BY DEF Proposals, best
<1>5. /\ one \o two \in Seq(Actions)
      /\ \A a : In(a, one \o two) <=> In(a, one) \/ In(a, two)
  <2> HIDE DEF one, two
  <2> QED BY <1>3, ConcatElements
<1>6. current = "diesel" => Leaves(Switch(f, current, best), f) /\ In(Switch(f, current, best), one)
  BY <1>1 DEF Leaves, Switch, In
<1>7. ASSUME NEW a, In(a, one) PROVE a.type = "switch_source"
  BY <1>7 DEF In, Switch
<1>8. ASSUME NEW a, In(a, two) PROVE a.facility = f /\ hours >= MAINTENANCE_THRESHOLD_HOURS
  BY <1>8 DEF In, Maintenance
<1> QED
  <2> HIDE DEF one, two
  <2> QED BY <1>2, <1>4, <1>5, <1>6, <1>7, <1>8

\* The plan that think() makes, from what it takes for the current sources.
LEMMA PlanFacts ==
    ASSUME NEW current \in [Facilities -> Sources], NEW hours \in [Facilities -> Nat], NEW hour,
           NEW plan,
           plan = FlattenSeq([i \in DOMAIN FACILITIES |->
                      Proposals(FACILITIES[i], current[FACILITIES[i]], hour, hours[FACILITIES[i]])])
    PROVE  /\ plan \in Seq(Actions)
           /\ \A f \in Facilities : current[f] = "diesel" => \E i \in DOMAIN plan : Leaves(plan[i], f)
           /\ \A i \in DOMAIN plan : plan[i].type # "switch_source" =>
                 /\ plan[i].facility \in Facilities
                 /\ hours[plan[i].facility] >= MAINTENANCE_THRESHOLD_HOURS
<1> DEFINE proposed(f) == Proposals(f, current[f], hour, hours[f])
           seqs == [i \in DOMAIN FACILITIES |-> proposed(FACILITIES[i])]
<1>1. /\ DOMAIN FACILITIES = 1..Len(FACILITIES) /\ Len(FACILITIES) \in Nat
      /\ \A i \in DOMAIN FACILITIES : FACILITIES[i] \in Facilities
      /\ \A f \in Facilities : \E i \in DOMAIN FACILITIES : FACILITIES[i] = f
  BY SettingsAssumption DEF Facilities, ToSet
<1>2. \A f \in Facilities :
         /\ proposed(f) \in Seq(Actions)
         /\ current[f] = "diesel" => \E a : Leaves(a, f) /\ In(a, proposed(f))
         /\ \A a : In(a, proposed(f)) /\ a.type # "switch_source" =>
               a.facility = f /\ hours[f] >= MAINTENANCE_THRESHOLD_HOURS
  BY ProposalsFacts
<1> HIDE DEF proposed
<1>3. /\ seqs \in Seq(Seq(Actions)) /\ Len(seqs) = Len(FACILITIES)
      /\ \A i \in DOMAIN FACILITIES : seqs[i] = proposed(FACILITIES[i])
  BY <1>1, <1>2
<1>4. plan = FlattenSeq(seqs)
  BY DEF proposed
<1> HIDE DEF seqs
<1>5. /\ plan \in Seq(Actions)
      /\ \A a : In(a, plan) <=> \E k \in 1..Len(seqs) : In(a, seqs[k])
  BY <1>3, <1>4, FlattenElements
<1>6. ASSUME NEW f \in Facilities, current[f] = "diesel"
      PROVE  \E i \in DOMAIN plan : Leaves(plan[i], f)
  <2>1. PICK a : Leaves(a, f) /\ In(a, proposed(f))
    BY <1>2, <1>6
  <2>2. PICK k \in DOMAIN FACILITIES : FACILITIES[k] = f
    BY <1>1
  <2>3. In(a, plan)
    BY <1>1, <1>3, <1>5, <2>1, <2>2
  <2> QED BY <2>1, <2>3 DEF In
<1>7. ASSUME NEW i \in DOMAIN plan, plan[i].type # "switch_source"
      PROVE  /\ plan[i].facility \in Facilities
             /\ hours[plan[i].facility] >= MAINTENANCE_THRESHOLD_HOURS
  <2>1. In(plan[i], plan)
    BY DEF In
  <2>2. PICK k \in DOMAIN FACILITIES : In(plan[i], seqs[k])
    BY <1>1, <1>3, <1>5, <2>1
  <2> QED BY <1>1, <1>2, <1>3, <1>7, <2>2
<1> QED BY <1>5, <1>6, <1>7

-----------------------------------------------------------------------------
(* The steps                                                               *)

\* The threads that are to switch f are a finite set, no larger than Threads.
LEMMA SwitchingFinite ==
    ASSUME NEW f
    PROVE  /\ IsFiniteSet(Switching(f)) /\ Cardinality(Switching(f)) \in Nat
           /\ Cardinality(Switching(f)) <= Cardinality(Threads)
           /\ Cardinality(Threads) \in Nat
BY ThresholdAssumption, FS_Subset, FS_CardinalityType DEF Switching

LEMMA NoRunType == NoRun \in Runs /\ NoRun.plan = <<>> /\ NoRun.pc = "idle"
BY DEF NoRun, Runs

LEMMA InitEInv == EnergyInit => EInv
<1> SUFFICES ASSUME EnergyInit PROVE EInv
  OBVIOUS
<1> USE DEF EnergyInit
<1>1. AgentOK
  BY NoRunType DEF AgentOK
<1>2. HoursOK
  BY DEF HoursOK
<1>3. CountOK
  BY SwitchingFinite DEF CountOK
<1>4. MaintenanceNeedsWithheldSwitch
  BY NoRunType DEF MaintenanceNeedsWithheldSwitch
<1> QED BY <1>1, <1>2, <1>3, <1>4 DEF EInv

\* Plans, hours and history are left alone, and no reset begins or ends.
LEMMA QuietEnergy ==
    ASSUME EInv, UNCHANGED <<runtime_hours, last_switch, history>>,
           readings' \in Seq(Rows), run' \in [Threads -> Runs],
           \A t \in Threads :
               /\ run'[t].plan = run[t].plan
               /\ run'[t].pc = "commit" <=> run[t].pc = "commit"
               /\ run'[t].pc \in {"idle", "observe", "think"} => run[t].plan = <<>>
    PROVE  EInv'
<1>1. AgentOK'
  BY DEF EInv, AgentOK, history
<1>2. \A t \in Threads : \A f : /\ Performing(t, f)' <=> Performing(t, f)
                                /\ Pending(t, f)' <=> Pending(t, f)
  BY DEF Performing, Pending
<1>3. \A f : Switching(f)' = Switching(f)
  BY <1>2 DEF Switching
<1>4. HoursOK'
  BY <1>2 DEF EInv, HoursOK, history
<1>5. CountOK'
  BY <1>3 DEF EInv, CountOK, history
<1>6. MaintenanceNeedsWithheldSwitch'
  BY DEF EInv, MaintenanceNeedsWithheldSwitch, history
<1> QED BY <1>1, <1>4, <1>5, <1>6 DEF EInv

\* Calls, returns, observations, readings and changes of the level.
LEMMA QuietSteps ==
    ASSUME EInv,
           \/ \E t \in Threads : CallRun(t) \/ Return(t) \/ Observe(t) \/ ObserveRaises(t)
           \/ EnergyEnvironment \/ UNCHANGED energyVars
    PROVE  EInv'
<1> USE DEF EInv, AgentOK
<1>1. CASE EnergyEnvironment \/ UNCHANGED energyVars
  <2>1. readings' \in Seq(Rows) /\ run' = run /\ UNCHANGED <<runtime_hours, last_switch, history>>
    <3>1. ASSUME NEW row \in Rows, Meter(row)
          PROVE  readings' \in Seq(Rows) /\ run' = run /\ UNCHANGED <<runtime_hours, last_switch, history>>
      BY <3>1 DEF Meter
    <3>2. CASE SetAutonomy \/ UNCHANGED energyVars
      BY <3>2 DEF SetAutonomy, energyVars
    <3> QED BY <1>1, <3>1, <3>2 DEF EnergyEnvironment
  <2> QED BY <2>1, QuietEnergy
<1>2. CASE \E t \in Threads : CallRun(t) \/ Return(t) \/ Observe(t) \/ ObserveRaises(t)
  <2> PICK t \in Threads : CallRun(t) \/ Return(t) \/ Observe(t) \/ ObserveRaises(t)
    BY <1>2
  <2>1. readings' = readings /\ UNCHANGED <<runtime_hours, last_switch, history>>
    BY DEF CallRun, Return, Observe, ObserveRaises
  <2>2. run[t].plan = <<>> /\ run[t].pc # "commit" /\ Len(readings) \in Nat
    BY DEF CallRun, Return, Observe, ObserveRaises
  <2>3. PICK r \in Runs : run' = [run EXCEPT ![t] = r] /\ r.plan = <<>> /\ r.pc # "commit"
    <3>1. CASE CallRun(t)
      <4>1. [run[t] EXCEPT !.pc = "observe"] \in Runs
        BY DEF Runs
      <4> QED BY <2>2, <3>1, <4>1 DEF CallRun, Runs
    <3>2. CASE Return(t)
      BY <3>2, NoRunType DEF Return
    <3>3. CASE Observe(t)
      <4>1. [run[t] EXCEPT !.pc = "think", !.seen = Len(readings)] \in Runs
        BY <2>2 DEF Runs
      <4> QED BY <2>2, <3>3, <4>1 DEF Observe, Runs
    <3>4. CASE ObserveRaises(t)
      <4>1. [run[t] EXCEPT !.pc = "act"] \in Runs
        BY DEF Runs
      <4> QED BY <2>2, <3>4, <4>1 DEF ObserveRaises, Runs
    <3> QED BY <3>1, <3>2, <3>3, <3>4
  <2> QED BY <2>1, <2>2, <2>3, QuietEnergy
<1> QED BY <1>1, <1>2

\* A new process has no plans and no hours.
LEMMA RestartStep ==
    ASSUME EInv, EnergyRestart
    PROVE  EInv'
<1> USE DEF EnergyRestart
<1>1. AgentOK'
  BY NoRunType DEF EInv, AgentOK
<1>2. HoursOK'
  BY DEF HoursOK
<1>3. CountOK'
  <2>1. \A f : Cardinality(Switching(f)') \in Nat
    BY ThresholdAssumption, FS_Subset, FS_CardinalityType DEF Switching
  <2> QED BY <2>1 DEF CountOK
<1>4. MaintenanceNeedsWithheldSwitch'
  BY NoRunType DEF MaintenanceNeedsWithheldSwitch
<1> QED BY <1>1, <1>2, <1>3, <1>4 DEF EInv
\* The rest of a plan.
LEMMA RestFacts ==
    ASSUME NEW plan \in Seq(Actions), plan # <<>>
    PROVE  /\ Tail(plan) \in Seq(Actions) /\ Head(plan) = plan[1] /\ Head(plan) \in Actions
           /\ 1 \in DOMAIN plan
           /\ \A i \in DOMAIN Tail(plan) : i + 1 \in DOMAIN plan /\ i + 1 # 1 /\ Tail(plan)[i] = plan[i + 1]
           /\ \A i \in DOMAIN plan : i # 1 => i - 1 \in DOMAIN Tail(plan) /\ Tail(plan)[i - 1] = plan[i]
OBVIOUS

\* The head of a plan is done with: what the others have to do is the same.
LEMMA PopFacts ==
    ASSUME EInv, NEW t \in Threads, run[t].plan # <<>>,
           run' = [run EXCEPT ![t].pc = "act", ![t].plan = Tail(@)]
    PROVE  /\ run' \in [Threads -> Runs] /\ run'[t].pc = "act"
           /\ \A u \in Threads \ {t} : run'[u] = run[u]
           /\ \A f : Pending(t, f)' <=> \E i \in DOMAIN run[t].plan : i # 1 /\ Leaves(run[t].plan[i], f)
           /\ \A f : ~Performing(t, f)'
           /\ \A f : \A u \in Threads \ {t} : /\ Performing(u, f)' <=> Performing(u, f)
                                              /\ Pending(u, f)' <=> Pending(u, f)
           /\ \A u \in Threads : \A i \in DOMAIN run'[u].plan : \E j \in DOMAIN run[u].plan :
                 run'[u].plan[i] = run[u].plan[j]
<1>1. run \in [Threads -> Runs] /\ run[t].plan \in Seq(Actions)
  BY DEF EInv, AgentOK, Runs
<1>2. /\ run'[t].plan = Tail(run[t].plan) /\ run'[t].pc = "act"
      /\ \A u \in Threads \ {t} : run'[u] = run[u]
  BY <1>1
<1>3. run' \in [Threads -> Runs]
  <2>1. [run[t] EXCEPT !.pc = "act", !.plan = Tail(@)] \in Runs
    BY <1>1, RestFacts DEF Runs
  <2>2. run' = [run EXCEPT ![t] = [run[t] EXCEPT !.pc = "act", !.plan = Tail(@)]]
    BY <1>1
  <2> QED BY <1>1, <2>1, <2>2
<1>4. ASSUME NEW f
      PROVE  Pending(t, f)' <=> \E i \in DOMAIN run[t].plan : i # 1 /\ Leaves(run[t].plan[i], f)
  <2>1. Pending(t, f)' <=> \E i \in DOMAIN Tail(run[t].plan) : Leaves(Tail(run[t].plan)[i], f)
    BY <1>2 DEF Pending
  <2> QED BY <1>1, <2>1, RestFacts
<1>5. \A f : ~Performing(t, f)'
  BY <1>2 DEF Performing
<1>6. \A f : \A u \in Threads \ {t} : /\ Performing(u, f)' <=> Performing(u, f)
                                      /\ Pending(u, f)' <=> Pending(u, f)
  BY <1>2 DEF Performing, Pending
<1>7. ASSUME NEW u \in Threads, NEW i \in DOMAIN run'[u].plan
      PROVE  \E j \in DOMAIN run[u].plan : run'[u].plan[i] = run[u].plan[j]
  BY <1>1, <1>2, RestFacts
<1> QED BY <1>2, <1>3, <1>4, <1>5, <1>6, <1>7

\* A plan only gets shorter, and what was withheld stays so.
LEMMA ShorterPlans ==
    ASSUME MaintenanceNeedsWithheldSwitch, withheld \subseteq withheld',
           \A u \in Threads : \A i \in DOMAIN run'[u].plan : \E j \in DOMAIN run[u].plan :
               run'[u].plan[i] = run[u].plan[j]
    PROVE  MaintenanceNeedsWithheldSwitch'
BY DEF MaintenanceNeedsWithheldSwitch

\* An action is held back: if it is a switch off diesel, it is noted.
LEMMA WithholdStep ==
    ASSUME EInv, NEW t \in Threads, Withhold(t)
    PROVE  EInv'
<1> DEFINE plan == run[t].plan
<1>1. /\ plan # <<>> /\ run[t].pc = "act" /\ plan \in Seq(Actions)
      /\ run \in [Threads -> Runs]
      /\ UNCHANGED <<readings, runtime_hours, last_switch, since>>
  BY DEF Withhold, Acting, EInv, AgentOK, Runs
<1>2. run' = [run EXCEPT ![t].pc = "act", ![t].plan = Tail(@)]
  <2>1. run' = [run EXCEPT ![t].plan = Tail(@)]
    BY DEF Withhold
  <2>2. [run[t] EXCEPT !.plan = Tail(@)] = [run[t] EXCEPT !.pc = "act", !.plan = Tail(@)]
    BY <1>1 DEF Runs
  <2> QED BY <1>1, <2>1, <2>2
<1>3. withheld \subseteq withheld' /\ \A f : Leaves(Head(plan), f) => f \in withheld'
  BY DEF Withhold, Leaves
<1> HIDE DEF plan
<1>4. run' \in [Threads -> Runs]
  BY <1>1, <1>2, PopFacts DEF plan
<1>5. AgentOK'
  BY <1>1, <1>2, <1>4, PopFacts DEF EInv, AgentOK, plan
<1>6. HoursOK'
  <2>1. \A f : ~Performing(t, f)
    BY <1>1 DEF Performing
  <2>2. /\ \A f : ~Performing(t, f)'
        /\ \A f : \A u \in Threads \ {t} : Performing(u, f)' <=> Performing(u, f)
    BY <1>1, <1>2, PopFacts DEF plan
  <2>3. \A f : (\E u \in Threads : Performing(u, f)') <=> (\E u \in Threads : Performing(u, f))
    BY <2>1, <2>2, Zenon
  <2> QED BY <1>1, <2>3 DEF EInv, HoursOK
<1>7. CountOK'
  <2>1. ASSUME NEW f \in Facilities, f \notin withheld'
        PROVE  Switching(f)' = Switching(f)
    <3>1. ~Leaves(plan[1], f)
      BY <1>1, <1>3, <2>1, RestFacts
    <3>2. Pending(t, f)' <=> Pending(t, f)
      BY <1>1, <1>2, <3>1, PopFacts DEF plan, Pending
    <3>3. \A u \in Threads : Pending(u, f)' <=> Pending(u, f)
      BY <1>1, <1>2, <3>2, PopFacts DEF plan
    <3> QED BY <3>3 DEF Switching
  <2> QED BY <1>1, <1>3, <2>1 DEF EInv, CountOK
<1>8. MaintenanceNeedsWithheldSwitch'
  BY <1>1, <1>2, <1>3, PopFacts, ShorterPlans DEF EInv, plan
<1> QED BY <1>5, <1>6, <1>7, <1>8 DEF EInv

\* An action is stored or rolled back: with its end the reset of the hours ends.
LEMMA StoreSteps ==
    ASSUME EInv, NEW t \in Threads, Store(t) \/ Fail(t)
    PROVE  EInv'
<1> DEFINE plan == run[t].plan
<1>1. /\ run[t].pc = "commit" /\ plan # <<>> /\ plan \in Seq(Actions)
      /\ run' = [run EXCEPT ![t].pc = "act", ![t].plan = Tail(@)]
      /\ UNCHANGED <<readings, runtime_hours, withheld>>
  BY DEF Store, Fail, NextAction, EInv, AgentOK, Runs
<1>2. \A f \in Facilities :
         /\ Performing(t, f) => since'[f] \in {-1, 0}
         /\ Performing(t, f) /\ since[f] = -1 => since'[f] = -1
         /\ ~Performing(t, f) => since'[f] = since[f]
  BY DEF Store, Fail, Performing, EInv, AgentOK
<1>3. since' \in [Facilities -> Nat \cup {-1}]
  BY DEF Store, Fail, EInv, AgentOK
<1>4. last_switch' # <<>> => last_switch'[1].to # "diesel"
  <2>1. Head(plan) \in Actions
    BY <1>1, RestFacts
  <2>2. Head(plan).type = "switch_source" => Head(plan).to # "diesel"
    BY <2>1 DEF Actions
  <2> QED BY <2>2 DEF Store, Fail, EInv, AgentOK
<1> HIDE DEF plan
<1>5. AgentOK'
  BY <1>1, <1>3, <1>4, PopFacts DEF EInv, AgentOK, plan
<1>6. HoursOK'
  <2> SUFFICES ASSUME NEW f \in Facilities, since'[f] # -1
               PROVE  runtime_hours[f] =
                          IF \E u \in Threads : Performing(u, f)' THEN 0 ELSE 4 * since'[f]
    BY <1>1 DEF HoursOK
  <2>1. CASE Performing(t, f)
    <3>1. since'[f] = 0 /\ since[f] # -1
      BY <1>2, <2>1
    <3>2. runtime_hours[f] = 0
      BY <2>1, <3>1 DEF EInv, HoursOK
    <3> QED BY <3>1, <3>2
  <2>2. CASE ~Performing(t, f)
    <3>1. (\E u \in Threads : Performing(u, f)') <=> (\E u \in Threads : Performing(u, f))
      BY <1>1, <2>2, PopFacts DEF plan
    <3>2. since'[f] = since[f]
      BY <1>2, <2>2
    <3>3. runtime_hours[f] = IF \E u \in Threads : Performing(u, f) THEN 0 ELSE 4 * since[f]
      BY <3>2 DEF EInv, HoursOK
    <3> QED BY <3>1, <3>2, <3>3
  <2> QED BY <2>1, <2>2
<1>7. CountOK'
  <2>1. /\ \A f : Pending(t, f)' <=> \E i \in DOMAIN run[t].plan : i # 1 /\ Leaves(run[t].plan[i], f)
        /\ \A f : \A u \in Threads \ {t} : Pending(u, f)' <=> Pending(u, f)
    BY <1>1, PopFacts DEF plan
  <2>2. \A f : Pending(t, f) <=> \E i \in DOMAIN run[t].plan : i # 1 /\ Leaves(run[t].plan[i], f)
    BY <1>1 DEF Pending
  <2> HIDE DEF Pending
  <2>4. \A f : \A u \in Threads : Pending(u, f)' <=> Pending(u, f)
    BY <2>1, <2>2
  <2>3. \A f : Switching(f)' = Switching(f)
    BY <2>4 DEF Switching
  <2> QED BY <1>1, <2>3 DEF EInv, CountOK
<1>8. MaintenanceNeedsWithheldSwitch'
  BY <1>1, PopFacts, ShorterPlans DEF EInv, plan
<1> QED BY <1>5, <1>6, <1>7, <1>8 DEF EInv
\* The hours are reset, if the action is a switch off diesel.
LEMMA PerformStep ==
    ASSUME EInv, NEW t \in Threads, Perform(t)
    PROVE  EInv'
<1> DEFINE plan == run[t].plan
<1>1. /\ run[t].pc = "act" /\ plan # <<>> /\ plan \in Seq(Actions)
      /\ run \in [Threads -> Runs] /\ runtime_hours \in [Facilities -> Nat]
      /\ UNCHANGED <<readings, last_switch, since, withheld>>
  BY DEF Perform, Acting, EInv, AgentOK, Runs, history
<1>2. /\ run' = [run EXCEPT ![t].pc = "commit"]
      /\ run' \in [Threads -> Runs]
      /\ run'[t].pc = "commit" /\ run'[t].plan = plan
      /\ \A u \in Threads \ {t} : run'[u] = run[u]
  <2>1. run' = [run EXCEPT ![t].pc = "commit"]
    BY DEF Perform
  <2>2. [run[t] EXCEPT !.pc = "commit"] \in Runs
    BY <1>1 DEF Runs
  <2> QED BY <1>1, <2>1, <2>2
<1>3. /\ runtime_hours' \in [Facilities -> Nat]
      /\ \A f \in Facilities :
            runtime_hours'[f] = IF Leaves(Head(plan), f) THEN 0 ELSE runtime_hours[f]
  BY <1>1 DEF Perform, Resets, Leaves
<1>4. Head(plan) = plan[1]
  BY <1>1, RestFacts
<1>5. \A f : ~Performing(t, f) /\ (Performing(t, f)' <=> Leaves(Head(plan), f))
  BY <1>1, <1>2 DEF Performing, Leaves
<1>6. \A f : \A u \in Threads \ {t} : /\ Performing(u, f)' <=> Performing(u, f)
                                      /\ Pending(u, f)' <=> Pending(u, f)
  BY <1>2 DEF Performing, Pending
<1>7. \A f : Leaves(Head(plan), f) \/ (Pending(t, f)' <=> Pending(t, f))
  BY <1>1, <1>2, <1>4 DEF Pending
<1>8. AgentOK'
  BY <1>1, <1>2, <1>3 DEF EInv, AgentOK
<1> HIDE DEF plan
<1>9. HoursOK'
  <2> SUFFICES ASSUME NEW f \in Facilities, since[f] # -1
               PROVE  runtime_hours'[f] =
                          IF \E u \in Threads : Performing(u, f)' THEN 0 ELSE 4 * since[f]
    BY <1>1 DEF HoursOK
  <2>1. CASE Leaves(Head(plan), f)
    BY <1>3, <1>5, <2>1
  <2>2. CASE ~Leaves(Head(plan), f)
    <3>1. (\E u \in Threads : Performing(u, f)') <=> (\E u \in Threads : Performing(u, f))
      BY <1>5, <1>6, <2>2
    <3>2. runtime_hours[f] = IF \E u \in Threads : Performing(u, f) THEN 0 ELSE 4 * since[f]
      BY DEF EInv, HoursOK
    <3> QED BY <1>3, <2>2, <3>1, <3>2
  <2> QED BY <2>1, <2>2
<1>10. CountOK'
  <2> SUFFICES ASSUME NEW f \in Facilities \ withheld
               PROVE  runtime_hours'[f] <= 4 * Cardinality(Switching(f)')
    BY <1>1 DEF CountOK
  <2>1. CASE Leaves(Head(plan), f)
    <3>1. Cardinality(Switching(f)') \in Nat
      BY ThresholdAssumption, FS_Subset, FS_CardinalityType DEF Switching
    <3> QED BY <1>3, <2>1, <3>1
  <2>2. CASE ~Leaves(Head(plan), f)
    <3>1. \A u \in Threads : Pending(u, f)' <=> Pending(u, f)
      BY <1>6, <1>7, <2>2
    <3>2. Switching(f)' = Switching(f)
      BY <3>1 DEF Switching
    <3> QED BY <1>3, <2>2, <3>2 DEF EInv, CountOK
  <2> QED BY <2>1, <2>2
<1>11. MaintenanceNeedsWithheldSwitch'
  <2>1. \A u \in Threads : run'[u].plan = run[u].plan
    BY <1>2 DEF plan
  <2> QED BY <1>1, <2>1, ShorterPlans DEF EInv
<1> QED BY <1>8, <1>9, <1>10, <1>11 DEF EInv

\* A run counts, and plans to switch every facility that it counts for.  Were
\* the hours of one over the threshold with no switch withheld, more threads
\* than there are would be about to switch it.
LEMMA ThinkStep ==
    ASSUME EInv, NEW t \in Threads, Think(t)
    PROVE  EInv'
<1> DEFINE current == [f \in Facilities |-> CurrentSource(run[t].seen, f)]
           onDiesel == {f \in Facilities : current[f] = "diesel"}
           hours == [f \in Facilities |->
                        IF f \in onDiesel THEN runtime_hours[f] + 4 ELSE runtime_hours[f]]
           plan == run'[t].plan
<1>1. /\ run[t].pc = "think" /\ run[t].plan = <<>>
      /\ run \in [Threads -> Runs] /\ runtime_hours \in [Facilities -> Nat]
      /\ since \in [Facilities -> Nat \cup {-1}]
      /\ UNCHANGED <<readings, last_switch, withheld>>
  BY DEF Think, EInv, AgentOK
<1>2. current \in [Facilities -> Sources] /\ hours \in [Facilities -> Nat]
  <2>1. \A f \in Facilities : CurrentSource(run[t].seen, f) \in Sources
    BY CurrentSourceType DEF EInv
  <2> QED BY <1>1, <2>1
<1>3. runtime_hours' = hours /\ Counted(onDiesel)
  BY DEF Think
<1>4. PICK hour : run' = [run EXCEPT ![t].pc = "act",
                  ![t].plan = FlattenSeq([i \in DOMAIN FACILITIES |->
                      Proposals(FACILITIES[i], current[FACILITIES[i]], hour, hours[FACILITIES[i]])])]
  BY DEF Think
<1> HIDE DEF current, hours
<1>5. /\ plan = FlattenSeq([i \in DOMAIN FACILITIES |->
                     Proposals(FACILITIES[i], current[FACILITIES[i]], hour, hours[FACILITIES[i]])])
      /\ run' = [run EXCEPT ![t] = [run[t] EXCEPT !.pc = "act", !.plan = plan]]
  BY <1>1, <1>4 DEF Runs
<1>6. /\ plan \in Seq(Actions)
      /\ \A f \in onDiesel : \E i \in DOMAIN plan : Leaves(plan[i], f)
      /\ \A i \in DOMAIN plan : plan[i].type # "switch_source" =>
            plan[i].facility \in Facilities /\ hours[plan[i].facility] >= MAINTENANCE_THRESHOLD_HOURS
  <2>1. plan = FlattenSeq([i \in DOMAIN FACILITIES |->
            Proposals(FACILITIES[i], current[FACILITIES[i]], hour, hours[FACILITIES[i]])])
    BY <1>5
  <2> HIDE DEF plan
  <2> QED BY <1>2, <2>1, PlanFacts
<1>7. /\ run'[t].pc = "act"
      /\ run' \in [Threads -> Runs]
      /\ \A u \in Threads \ {t} : run'[u] = run[u]
  <2>1. [run[t] EXCEPT !.pc = "act", !.plan = plan] \in Runs
    BY <1>1, <1>6 DEF Runs
  <2> HIDE DEF plan
  <2> QED BY <1>1, <1>5, <2>1 DEF Runs
<1> HIDE DEF plan
<1>8. \A f : /\ ~Performing(t, f) /\ ~Performing(t, f)'
             /\ ~Pending(t, f)
             /\ \A u \in Threads \ {t} : /\ Performing(u, f)' <=> Performing(u, f)
                                         /\ Pending(u, f)' <=> Pending(u, f)
  BY <1>1, <1>7 DEF Performing, Pending
<1>9. \A f \in onDiesel : Pending(t, f)'
  BY <1>6, <1>7 DEF Pending, plan
<1>10. AgentOK'
  <2>1. since' \in [Facilities -> Nat \cup {-1}]
    BY <1>1, <1>3 DEF Counted
  <2> QED BY <1>1, <1>2, <1>3, <1>7, <2>1 DEF EInv, AgentOK
<1>11. HoursOK'
  <2> SUFFICES ASSUME NEW f \in Facilities, since'[f] # -1
               PROVE  hours[f] = IF \E u \in Threads : Performing(u, f)' THEN 0 ELSE 4 * since'[f]
    BY <1>3 DEF HoursOK
  <2>1. (\E u \in Threads : Performing(u, f)') <=> (\E u \in Threads : Performing(u, f))
    BY <1>8
  <2>2. since[f] # -1
    BY <1>3 DEF Counted
  <2>3. runtime_hours[f] = IF \E u \in Threads : Performing(u, f) THEN 0 ELSE 4 * since[f]
    BY <2>2 DEF EInv, HoursOK
  <2>4. CASE f \in onDiesel
    <3>1. ~(\E u \in Threads : Performing(u, f)) /\ since'[f] = since[f] + 1
      BY <1>3, <2>2, <2>4 DEF Counted
    <3> QED BY <1>1, <2>1, <2>2, <2>3, <2>4, <3>1 DEF hours
  <2>5. CASE f \notin onDiesel
    <3>1. since'[f] = since[f]
      BY <1>3, <2>5 DEF Counted
    <3> QED BY <2>1, <2>3, <2>5, <3>1 DEF hours
  <2> QED BY <2>4, <2>5
<1>12. ASSUME NEW f \in Facilities \ withheld
       PROVE  hours[f] <= 4 * Cardinality(Switching(f)')
  <2>1. runtime_hours[f] <= 4 * Cardinality(Switching(f)) /\ runtime_hours[f] \in Nat
    BY <1>1 DEF EInv, CountOK
  <2>2. IsFiniteSet(Switching(f)) /\ Cardinality(Switching(f)) \in Nat
    BY SwitchingFinite
  <2>3. CASE f \in onDiesel
    <3>1. Switching(f)' = Switching(f) \cup {t} /\ t \notin Switching(f)
      BY <1>8, <1>9, <2>3 DEF Switching
    <3>2. Cardinality(Switching(f)') = Cardinality(Switching(f)) + 1
      BY <2>2, <3>1, FS_AddElement
    <3> QED BY <2>1, <2>2, <2>3, <3>2 DEF hours
  <2>4. CASE f \notin onDiesel
    <3>1. Switching(f) \subseteq Switching(f)' /\ Switching(f)' \subseteq Threads
      BY <1>8 DEF Switching
    <3>2. /\ Cardinality(Switching(f)) <= Cardinality(Switching(f)')
          /\ Cardinality(Switching(f)') \in Nat
      BY <3>1, ThresholdAssumption, FS_Subset, FS_CardinalityType
    <3> QED BY <2>1, <2>2, <2>4, <3>2 DEF hours
  <2> QED BY <2>3, <2>4
<1>13. CountOK'
  BY <1>1, <1>3, <1>12 DEF CountOK
<1>14. MaintenanceNeedsWithheldSwitch'
  <2> SUFFICES ASSUME NEW u \in Threads, NEW i \in DOMAIN run'[u].plan,
                      run'[u].plan[i].type = "schedule_generator_maintenance"
               PROVE  run'[u].plan[i].facility \in withheld
    BY <1>1 DEF MaintenanceNeedsWithheldSwitch
  <2>1. CASE u # t
    BY <1>7, <2>1 DEF EInv, MaintenanceNeedsWithheldSwitch
  <2>2. CASE u = t
    <3>1. PICK f \in Facilities : f = plan[i].facility /\ hours[f] >= MAINTENANCE_THRESHOLD_HOURS
      BY <1>6, <2>2 DEF plan
    <3>2. SUFFICES ASSUME f \notin withheld PROVE FALSE
      BY <2>2, <3>1 DEF plan
    <3>3. hours[f] <= 4 * Cardinality(Switching(f)')
      BY <1>12, <3>2
    <3>4. /\ Cardinality(Switching(f)') <= Cardinality(Threads)
          /\ Cardinality(Switching(f)') \in Nat /\ Cardinality(Threads) \in Nat
      BY ThresholdAssumption, FS_Subset, FS_CardinalityType DEF Switching
    <3>5. hours[f] \in Nat
      BY <1>2
    <3> QED BY <3>1, <3>3, <3>4, <3>5, ThresholdAssumption
  <2> QED BY <2>1, <2>2
<1> QED BY <1>10, <1>11, <1>13, <1>14 DEF EInv

LEMMA NextEInv == EInv /\ [EnergyNext]_energyVars => EInv'
<1> SUFFICES ASSUME EInv, [EnergyNext]_energyVars PROVE EInv'
  OBVIOUS
<1>1. CASE \E t \in Threads : EnergyStep(t)
  BY <1>1, QuietSteps, ThinkStep, WithholdStep, PerformStep, StoreSteps DEF EnergyStep
<1>2. CASE \/ \E t \in Threads : CallRun(t) \/ Return(t)
           \/ EnergyEnvironment \/ UNCHANGED energyVars
  BY <1>2, QuietSteps
<1>3. CASE EnergyRestart
  BY <1>3, RestartStep
<1> QED BY <1>1, <1>2, <1>3 DEF EnergyNext
-----------------------------------------------------------------------------
(* The theorems                                                            *)

\* The energy agent under the orchestrator behaves as the energy agent alone
\* may: whoever calls it, and whatever becomes of the caller
\* (orchestrator_agent.py:50-58, base_agent.py:149).
THEOREM OrchestratorRunsEnergy == Spec => EnergySpec
<1>1. Init => EnergyInit
  BY DEF Init
<1>2. [Next]_vars => [EnergyNext]_energyVars
  <2> SUFFICES ASSUME [Next]_vars PROVE [EnergyNext]_energyVars
    OBVIOUS
  <2>1. CASE \E t \in Threads : CallOrchestrator(t)
    BY <2>1 DEF CallOrchestrator
  <2>2. CASE \E t \in Threads : PassStep(t)
    <3> PICK t \in Threads : PassStep(t)
      BY <2>2
    <3>1. CASE RunEnergy(t)
      BY <3>1 DEF RunEnergy, EnergyNext
    <3>2. CASE EnergyReturns(t)
      BY <3>2 DEF EnergyReturns, EnergyNext
    <3>3. CASE UNCHANGED energyVars
      BY <3>3
    <3> QED
      BY <3>1, <3>2, <3>3 DEF PassStep, Begin, RunOther, ResolveConflicts, BuildReport,
         BuildRaises, AppendSkipped, AppendCommits, AppendRefused, AppendUnheard,
         CommitRow, CommitRefused, CommitUnheard, Handle, End
  <2>3. CASE Energetic
    BY <2>3 DEF Energetic, EnergyNext
  <2>4. CASE Disable \/ Enable \/ UNCHANGED vars
    BY <2>4 DEF Disable, Enable, vars
  <2>5. CASE Restart
    BY <2>5 DEF Restart, EnergyNext
  <2> QED BY <2>1, <2>2, <2>3, <2>4, <2>5 DEF Next
<1> QED BY <1>1, <1>2, PTL DEF Spec, EnergySpec

\* The invariant holds, with and without the orchestrator.
THEOREM EnergyInvariant == Spec => []EInv
<1>1. EnergyInit => EInv
  BY InitEInv
<1>2. EInv /\ [EnergyNext]_energyVars => EInv'
  BY NextEInv
<1>3. EnergySpec => []EInv
  BY <1>1, <1>2, PTL DEF EnergySpec
<1> QED BY <1>3, OrchestratorRunsEnergy, PTL

\* The hours in memory are four for each run that saw the facility on diesel
\* since the last switch off it, unless a failure, an overlap or a restart has
\* spoilt them (energy_agent.py:89, 111-112, 121, base_agent.py:107-111).
THEOREM HoursAreThoseOfRuns == Spec => []HoursExplained
<1>1. EInv => HoursExplained
  BY DEF EInv, HoursOK, HoursExplained
<1> QED BY <1>1, EnergyInvariant, PTL

\* Maintenance is proposed for a facility only after a switch off diesel was
\* held back there: at EXECUTE the threshold is out of reach for as many
\* threads as there are (energy_agent.py:72, 88-90, 111-112).
THEOREM MaintenanceIsOutOfReach == Spec => []MaintenanceNeedsWithheldSwitch
<1>1. EInv => MaintenanceNeedsWithheldSwitch
  BY DEF EInv
<1> QED BY <1>1, EnergyInvariant, PTL

\* The latest switch on record does not lead to diesel.
NoSwitchToDiesel == last_switch # <<>> => last_switch[1].to # "diesel"

\* How far the code is from SwitchesMinimiseCost: at no tariffs and no price of
\* diesel is a switch to diesel ever stored (energy_agent.py:63-70).
THEOREM DieselIsNeverChosen == Spec => []NoSwitchToDiesel
<1>1. EInv => NoSwitchToDiesel
  BY DEF EInv, AgentOK, NoSwitchToDiesel
<1> QED BY <1>1, EnergyInvariant, PTL

\* The orchestrator has no flag stored or pending.
NothingToResolve == flags = {} /\ \A t \in Threads : ~pass[t].flag

\* And so the orchestrator never finds the one conflict it looks for, in any run
\* of any thread (orchestrator_agent.py:114-136).
THEOREM NoConflictArises == Spec => []NothingToResolve
<1>1. Init => NothingToResolve
  BY DEF Init, OrchInit, NothingToResolve, NoPass
<1>2. IInv /\ EInv /\ NothingToResolve /\ [Next]_vars => NothingToResolve'
  <2> SUFFICES ASSUME IInv, EInv, NothingToResolve, [Next]_vars PROVE NothingToResolve'
    OBVIOUS
  <2>1. /\ pass \in [Threads -> PassRecords] /\ NoPass \in PassRecords /\ ~NoPass.flag
        /\ \A t \in Threads : ~pass[t].flag
        /\ flags = {}
    BY DEF IInv, OrchTypeOK, NoPass, PassRecords, PCs, NothingToResolve
  <2>2. CASE \E t \in Threads : CallOrchestrator(t) \/ PassStep(t)
    <3> PICK t \in Threads : CallOrchestrator(t) \/ PassStep(t)
      BY <2>2
    <3>1. flags' = {}
      BY <2>1 DEF CallOrchestrator, PassStep, Begin, RunOther, RunEnergy, EnergyReturns,
         ResolveConflicts, BuildReport, BuildRaises, AppendSkipped, AppendCommits,
         AppendRefused, AppendUnheard, CommitRow, CommitRefused, CommitUnheard, Handle, End,
         StorePending
    <3>2. CASE ResolveConflicts(t)
      <4>1. last_switch = <<>> \/ last_switch[1].to # "diesel"
        BY DEF EInv, AgentOK
      <4>2. \A u \in Threads : ~pass'[u].flag
        BY <2>1, <3>2, <4>1 DEF ResolveConflicts, Continue, PassRecords
      <4> QED BY <3>1, <4>2 DEF NothingToResolve
    <3>3. CASE ~ResolveConflicts(t)
      <4>1. pass[t] \in PassRecords /\ ~pass[t].flag
        BY <2>1
      <4>2. /\ Cleared(pass[t]) \in PassRecords /\ ~Cleared(pass[t]).flag
            /\ Broken(pass[t]) \in PassRecords /\ ~Broken(pass[t]).flag
        <5>1. Cleared(pass[t]) \in PassRecords /\ ~Cleared(pass[t]).flag
          BY <4>1, ClearedFacts DEF Cleared, PassRecords
        <5>2. Broken(pass[t]) \in PassRecords /\ ~Broken(pass[t]).flag
          BY <4>1, <5>1, BrokenFacts DEF Broken, PassRecords
        <5> QED BY <5>1, <5>2
      <4> DEFINE Unflagged == \A u \in Threads : ~pass'[u].flag
                 From(q) == \E pc \in PCs :
                     \/ Continue(t, [q EXCEPT !.pc = pc])
                     \/ Continue(t, [q EXCEPT !.next = @ + 1])
                     \/ Continue(t, [q EXCEPT !.pc = pc, !.next = @ + 1])
                     \/ Continue(t, [q EXCEPT !.pc = pc, !.report = TRUE])
                     \/ Continue(t, [q EXCEPT !.pc = pc, !.id = nextPass])
      <4>3. ASSUME NEW q \in PassRecords, ~q.flag, From(q) PROVE Unflagged
        <5> PICK pc \in PCs :
               \/ Continue(t, [q EXCEPT !.pc = pc])
               \/ Continue(t, [q EXCEPT !.next = @ + 1])
               \/ Continue(t, [q EXCEPT !.pc = pc, !.next = @ + 1])
               \/ Continue(t, [q EXCEPT !.pc = pc, !.report = TRUE])
               \/ Continue(t, [q EXCEPT !.pc = pc, !.id = nextPass])
          BY <4>3
        <5>1. CASE Continue(t, [q EXCEPT !.pc = pc])
          BY <2>1, <4>3, <5>1 DEF Continue, PassRecords
        <5>2. CASE Continue(t, [q EXCEPT !.next = @ + 1])
          BY <2>1, <4>3, <5>2 DEF Continue, PassRecords
        <5>3. CASE Continue(t, [q EXCEPT !.pc = pc, !.next = @ + 1])
          BY <2>1, <4>3, <5>3 DEF Continue, PassRecords
        <5>4. CASE Continue(t, [q EXCEPT !.pc = pc, !.report = TRUE])
          BY <2>1, <4>3, <5>4 DEF Continue, PassRecords
        <5>5. CASE Continue(t, [q EXCEPT !.pc = pc, !.id = nextPass])
          BY <2>1, <4>3, <5>5 DEF Continue, PassRecords
        <5> QED BY <5>1, <5>2, <5>3, <5>4, <5>5
      <4>4. ASSUME \/ Begin(t) \/ AppendSkipped(t) \/ BuildReport(t) \/ RunOther(t) \/ Handle(t)
                   \/ RunEnergy(t) \/ (EnergyReturns(t) /\ At(t, "waiting"))
            PROVE  From(pass[t])
        BY <4>4 DEF Begin, AppendSkipped, BuildReport, RunOther, Handle, RunEnergy, EnergyReturns,
           GoTo, PCs
      <4>5. ASSUME CallOrchestrator(t) PROVE From(NoPass)
        BY <4>5 DEF CallOrchestrator, PCs
      <4>6. ASSUME AppendCommits(t) \/ CommitRow(t) \/ BuildRaises(t) \/ CommitRefused(t) \/ CommitUnheard(t)
            PROVE  From(Cleared(pass[t]))
        BY <4>6 DEF AppendCommits, CommitRow, BuildRaises, CommitRefused, CommitUnheard, Raise, PCs
      <4>7. ASSUME AppendRefused(t) \/ AppendUnheard(t) PROVE From(Broken(pass[t]))
        BY <4>7 DEF AppendRefused, AppendUnheard, PCs
      <4>8. ASSUME End(t) \/ (EnergyReturns(t) /\ ~At(t, "waiting")) PROVE Unflagged
        BY <2>1, <4>8 DEF End, EnergyReturns, Continue
      <4>9. Unflagged
        <5> HIDE DEF From, Unflagged
        <5> QED BY <2>1, <3>3, <4>1, <4>2, <4>3, <4>4, <4>5, <4>6, <4>7, <4>8 DEF PassStep
      <4> QED BY <3>1, <4>9 DEF NothingToResolve
    <3> QED BY <3>2, <3>3
  <2>3. CASE Energetic \/ Disable \/ Enable \/ Restart \/ UNCHANGED vars
    BY <2>1, <2>3 DEF Energetic, Disable, Enable, Restart, vars, orchVars, NothingToResolve
  <2> QED BY <2>2, <2>3 DEF Next
<1> QED BY <1>1, <1>2, InductiveInvariant, EnergyInvariant, PTL DEF Spec
=============================================================================
