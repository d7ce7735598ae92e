------------------------- MODULE ProcurementProofs --------------------------
(***************************************************************************)
(* Theorems about Procurement: for any number of runs, of attempts, and    *)
(* with or without the API of the bank, cover is on record unless the run  *)
(* died or a commit raised, is given again only for a lost answer, and the *)
(* stored log of a hedge tells the truth about it.                         *)
(***************************************************************************)
EXTENDS Procurement, SequenceTheorems, TLAPS

-----------------------------------------------------------------------------
(* The inductive invariant                                                 *)

Hedge == "hedge_fx_forward"
PCs   == {"ready", "observe", "act", "post", "append", "commit", "over", "raised"}

LogType == [run : Runs \cup {Past}, index : Nat, kind : Kinds, state : States, mode : Modes]
RunType == [pc : PCs, market : Markets, actions : Seq(Kinds), done : Nat, attempt : Nat,
            mode : Modes, logs : SUBSET LogType, broken : BOOLEAN]

\* The hedge is the first action of a run, if it is one at all, and the only
\* action that is posted.
PlaceOK(r) ==
    /\ buyer[r].done <= Len(buyer[r].actions)
    /\ \A i \in 1..Len(buyer[r].actions) : buyer[r].actions[i] = Hedge => i = 1
    /\ buyer[r].pc \in {"ready", "observe", "raised"} => buyer[r].actions = <<>>
    /\ buyer[r].pc \in {"post", "append", "commit"} => buyer[r].done < Len(buyer[r].actions)
    /\ buyer[r].pc = "post" => CurrentAction(r) = Hedge
    /\ buyer[r].pc \in {"ready", "observe", "act", "post"} => buyer[r].mode = "none"

\* What a mode and a state say of the bank.
Truth(r, mode, state) ==
    /\ mode = "simulated-bank-api" \/ state = "simulated" => bank[r] = 0
    /\ mode = "bank-api-error" /\ bank[r] > 0 => unanswered[r] > 0
    /\ mode = "bank-api" /\ bank[r] = 0 => r \in rejected

\* The bank knows of a run from the call of its first action on, and the mode
\* tells what came of the call as soon as it is over.
BankOK(r) ==
    /\ unanswered[r] <= bank[r] /\ bank[r] <= 1 + unanswered[r]
    /\ bank[r] > 0 => Len(buyer[r].actions) > 0 /\ buyer[r].actions[1] = Hedge
    /\ buyer[r].done = 0 /\ buyer[r].pc \in {"ready", "observe", "raised", "act"} => bank[r] = 0
    /\ buyer[r].pc = "post" => bank[r] = unanswered[r]
    /\ buyer[r].done = 0 /\ buyer[r].pc \in {"append", "commit"} =>
          Truth(r, buyer[r].mode, "executed")

LogsOf(r) == {l \in action_logs \cup buyer[r].logs : l.run = r /\ l.kind = Hedge}

\* A log of the hedge, pending or stored, is from after it and true.
LogsOK(r) ==
    /\ \A l \in buyer[r].logs : l.run = r
    /\ \A l \in LogsOf(r) : buyer[r].done > 0 /\ Truth(r, l.mode, l.state)

\* The record of cover is pending or stored, and nothing is pending at the end.
RecordOK(r) ==
    /\ buyer[r].pc = "over" => buyer[r].logs = {}
    /\ r \notin trouble =>
          /\ bank[r] > 0 /\ buyer[r].done > 0 => \E l \in LogsOf(r) : l.state = "executed"
          /\ buyer[r].pc = "over" => buyer[r].done = Len(buyer[r].actions)

RunOK(r) == PlaceOK(r) /\ BankOK(r) /\ LogsOK(r) /\ RecordOK(r)

TypesOK ==
    /\ market \in Markets
    /\ buyer \in [Runs -> RunType]
    /\ action_logs \subseteq LogType
    /\ bank \in [Runs -> Nat] /\ unanswered \in [Runs -> Nat]

IInv == TypesOK /\ \A r \in Runs : RunOK(r)

\* Decisions are kinds, and only the first of them can be a hedge.
LEMMA DecisionsAre ==
    ASSUME NEW m \in Markets, NEW weeks
    PROVE  /\ Decisions(m, weeks) \in Seq(Kinds)
           /\ \A i \in 1..Len(Decisions(m, weeks)) : Decisions(m, weeks)[i] = Hedge => i = 1
<1> DEFINE a == IF m.volatile THEN <<Hedge, "initiate_supplier_bidding">> ELSE <<>>
           b == IF weeks > 7 THEN <<"initiate_supplier_bidding">> ELSE <<>>
           c == IF m.cassava THEN <<"propose_local_sourcing_contract">> ELSE <<>>
<1>1. a \in Seq(Kinds) /\ \A i \in 1..Len(a) : a[i] = Hedge => i = 1
  <2>1. CASE m.volatile
    BY <2>1 DEF Kinds, Hedge
  <2>2. CASE ~m.volatile
    BY <2>2
  <2> QED BY <2>1, <2>2
<1>2. b \in Seq(Kinds) /\ \A i \in 1..Len(b) : b[i] # Hedge
  <2>1. CASE weeks > 7
    BY <2>1 DEF Kinds, Hedge
  <2>2. CASE ~(weeks > 7)
    BY <2>2
  <2> QED BY <2>1, <2>2
<1>3. c \in Seq(Kinds) /\ \A i \in 1..Len(c) : c[i] # Hedge
  <2>1. CASE m.cassava
    BY <2>1 DEF Kinds, Hedge
  <2>2. CASE ~m.cassava
    BY <2>2
  <2> QED BY <2>1, <2>2
<1>4. Decisions(m, weeks) = (a \o b) \o c
  BY DEF Decisions, Hedge
<1> HIDE DEF a, b, c
<1>5. /\ a \o b \in Seq(Kinds)
      /\ \A i \in 1..Len(a \o b) : (a \o b)[i] = Hedge => i = 1
  BY <1>1, <1>2
<1> DEFINE d == a \o b
<1>6. d \in Seq(Kinds) /\ \A i \in 1..Len(d) : d[i] = Hedge => i = 1
  BY <1>5
<1> HIDE DEF d
<1>7. d \o c \in Seq(Kinds) /\ \A i \in 1..Len(d \o c) : (d \o c)[i] = Hedge => i = 1
  BY <1>3, <1>6
<1> QED BY <1>4, <1>7 DEF d

-----------------------------------------------------------------------------
(* Steps of one run                                                        *)

\* A step of r that stores none but its own logs leaves the other runs alone.
LEMMA OneRun ==
    ASSUME IInv, NEW r \in Runs, NEW new \in RunType, buyer' = [buyer EXCEPT ![r] = new],
           market' = market,
           action_logs \subseteq action_logs', action_logs' \subseteq action_logs \cup buyer[r].logs,
           bank' \in [Runs -> Nat], unanswered' \in [Runs -> Nat],
           \A q \in Runs \ {r} :
               /\ bank'[q] = bank[q] /\ unanswered'[q] = unanswered[q]
               /\ (q \in rejected' <=> q \in rejected) /\ (q \in trouble' <=> q \in trouble),
           RunOK(r)'
    PROVE  IInv'
<1>1. buyer[r] \in RunType /\ action_logs \subseteq LogType
  BY DEF IInv, TypesOK
<1>2. TypesOK'
  BY <1>1 DEF IInv, TypesOK, RunType
<1>3. ASSUME NEW q \in Runs, q # r PROVE RunOK(q)'
  <2>1. buyer'[q] = buyer[q] /\ bank'[q] = bank[q] /\ unanswered'[q] = unanswered[q]
        /\ (q \in rejected' <=> q \in rejected) /\ (q \in trouble' <=> q \in trouble)
    BY <1>3 DEF IInv, TypesOK
  <2>2. LogsOf(q)' = LogsOf(q)
    <3>1. \A l \in buyer[r].logs : l.run = r
      BY DEF IInv, RunOK, LogsOK
    <3> QED BY <1>3, <2>1, <3>1 DEF LogsOf
  <2>3. RunOK(q)
    BY DEF IInv
  <2>4. PlaceOK(q)' /\ BankOK(q)'
    BY <2>1, <2>3 DEF RunOK, PlaceOK, BankOK, Truth, CurrentAction
  <2>5. LogsOK(q)' /\ RecordOK(q)'
    BY <2>1, <2>2, <2>3 DEF RunOK, LogsOK, RecordOK, Truth
  <2> QED BY <2>4, <2>5 DEF RunOK
<1> QED BY <1>2, <1>3 DEF IInv

\* A step that does nothing at the bank or in the database, and ends no run.
LEMMA QuietStep ==
    ASSUME IInv, NEW r \in Runs, NEW new \in RunType, buyer' = [buyer EXCEPT ![r] = new],
           UNCHANGED <<market, database, bank, history>>,
           new.logs = buyer[r].logs, new.done = buyer[r].done, new.pc # "over",
           PlaceOK(r)', BankOK(r)'
    PROVE  IInv'
<1>1. buyer'[r] = new
  BY DEF IInv, TypesOK
<1>2. LogsOf(r)' = LogsOf(r)
  BY <1>1 DEF LogsOf, database
<1>3. LogsOK(r) /\ RecordOK(r)
  BY DEF IInv, RunOK
<1>4. LogsOK(r)' /\ RecordOK(r)'
  BY <1>1, <1>2, <1>3 DEF LogsOK, RecordOK, Truth, history
<1>5. RunOK(r)'
  BY <1>4 DEF RunOK
<1> QED BY <1>5, OneRun DEF IInv, TypesOK, database, history

LEMMA ObserveRatesIInv ==
    ASSUME IInv, NEW r \in Runs, ObserveRates(r)
    PROVE  IInv'
<1> DEFINE new == [buyer[r] EXCEPT !.pc = "observe", !.market = market]
<1>1. buyer[r] \in RunType /\ market \in Markets /\ PlaceOK(r) /\ BankOK(r) /\ buyer[r].pc = "ready"
  BY DEF IInv, TypesOK, RunOK, ObserveRates
<1>2. /\ new \in RunType /\ new.pc = "observe" /\ new.actions = buyer[r].actions
      /\ new.done = buyer[r].done /\ new.mode = buyer[r].mode /\ new.logs = buyer[r].logs
  BY <1>1 DEF RunType, PCs
<1>3. buyer' = [buyer EXCEPT ![r] = new] /\ UNCHANGED <<market, database, bank, history>>
  BY DEF ObserveRates
<1> HIDE DEF new
<1>4. buyer'[r] = new
  BY <1>3 DEF IInv, TypesOK
<1>5. PlaceOK(r)' /\ BankOK(r)'
  BY <1>1, <1>2, <1>3, <1>4 DEF PlaceOK, BankOK, history
<1> QED BY <1>2, <1>3, <1>5, QuietStep

LEMMA ObserveBidsIInv ==
    ASSUME IInv, NEW r \in Runs, ObserveBids(r)
    PROVE  IInv'
<1>1. buyer[r] \in RunType /\ PlaceOK(r) /\ BankOK(r) /\ buyer[r].pc = "observe"
  BY DEF IInv, TypesOK, RunOK, ObserveBids
<1>2. PICK weeks : buyer' = [buyer EXCEPT ![r].pc = "act",
                                     ![r].actions = Decisions(buyer[r].market, weeks)]
  BY DEF ObserveBids
<1> DEFINE actions == Decisions(buyer[r].market, weeks)
           new == [buyer[r] EXCEPT !.pc = "act", !.actions = actions]
<1>3. actions \in Seq(Kinds) /\ \A i \in 1..Len(actions) : actions[i] = Hedge => i = 1
  BY <1>1, DecisionsAre DEF RunType
<1>4. buyer' = [buyer EXCEPT ![r] = new] /\ UNCHANGED <<market, database, bank, history>>
  BY <1>2 DEF ObserveBids
<1> HIDE DEF actions
<1>5. /\ new \in RunType /\ new.pc = "act" /\ new.actions = actions
      /\ new.done = buyer[r].done /\ new.mode = buyer[r].mode /\ new.logs = buyer[r].logs
  BY <1>1, <1>3 DEF RunType, PCs
<1> HIDE DEF new
<1>6. buyer'[r] = new
  BY <1>4 DEF IInv, TypesOK
<1>7. buyer[r].done = 0 /\ bank[r] = 0 /\ unanswered[r] \in Nat
  BY <1>1 DEF PlaceOK, BankOK, RunType, IInv, TypesOK
<1>8. PlaceOK(r)' /\ BankOK(r)'
  BY <1>1, <1>3, <1>4, <1>5, <1>6, <1>7 DEF PlaceOK, BankOK, history
<1> QED BY <1>4, <1>5, <1>8, QuietStep

LEMMA ObserveRaisesIInv ==
    ASSUME IInv, NEW r \in Runs, ObserveRaises(r)
    PROVE  IInv'
<1> DEFINE new == [buyer[r] EXCEPT !.pc = "raised"]
<1>1. buyer[r] \in RunType /\ PlaceOK(r) /\ BankOK(r) /\ buyer[r].pc = "observe"
  BY DEF IInv, TypesOK, RunOK, ObserveRaises
<1>2. /\ new \in RunType /\ new.pc = "raised" /\ new.actions = buyer[r].actions
      /\ new.done = buyer[r].done /\ new.mode = buyer[r].mode /\ new.logs = buyer[r].logs
  BY <1>1 DEF RunType, PCs
<1>3. buyer' = [buyer EXCEPT ![r] = new] /\ UNCHANGED <<market, database, bank, history>>
  BY DEF ObserveRaises
<1> HIDE DEF new
<1>4. buyer'[r] = new
  BY <1>3 DEF IInv, TypesOK
<1>5. PlaceOK(r)' /\ BankOK(r)'
  BY <1>1, <1>2, <1>3, <1>4 DEF PlaceOK, BankOK, history
<1> QED BY <1>2, <1>3, <1>5, QuietStep

LEMMA PerformIInv ==
    ASSUME IInv, NEW r \in Runs, Perform(r)
    PROVE  IInv'
<1>1. /\ buyer[r] \in RunType /\ PlaceOK(r) /\ BankOK(r) /\ buyer[r].pc = "act"
      /\ buyer[r].done < Len(buyer[r].actions) /\ UNCHANGED <<market, database, bank, history>>
  BY DEF IInv, TypesOK, RunOK, Perform, HasWork
<1> DEFINE other == [buyer[r] EXCEPT !.pc = "append"]
           post  == [buyer[r] EXCEPT !.pc = "post", !.attempt = 1]
           simulated == [buyer[r] EXCEPT !.pc = "append", !.mode = "simulated-bank-api"]
<1>2. CASE CurrentAction(r) # Hedge
  <2>1. /\ other \in RunType /\ other.pc = "append" /\ other.actions = buyer[r].actions
        /\ other.done = buyer[r].done /\ other.mode = buyer[r].mode /\ other.logs = buyer[r].logs
    BY <1>1 DEF RunType, PCs
  <2>2. buyer' = [buyer EXCEPT ![r] = other]
    BY <1>2 DEF Perform, Hedge
  <2> HIDE DEF other
  <2>3. buyer'[r] = other
    BY <2>2 DEF IInv, TypesOK
  <2>4. PlaceOK(r)'
    BY <1>1, <2>1, <2>3 DEF PlaceOK
  <2>5. BankOK(r)'
    BY <1>1, <2>1, <2>3 DEF BankOK, PlaceOK, Truth, history
  <2> QED BY <1>1, <2>1, <2>2, <2>4, <2>5, QuietStep
<1>3. CASE CurrentAction(r) = Hedge /\ HedgingApi
  <2>1. /\ post \in RunType /\ post.pc = "post" /\ post.actions = buyer[r].actions
        /\ post.done = buyer[r].done /\ post.mode = buyer[r].mode /\ post.logs = buyer[r].logs
    BY <1>1 DEF RunType, PCs
  <2>2. buyer' = [buyer EXCEPT ![r] = post]
    BY <1>3 DEF Perform, Hedge
  <2> HIDE DEF post
  <2>3. buyer'[r] = post
    BY <2>2 DEF IInv, TypesOK
  <2>4. PlaceOK(r)'
    BY <1>1, <1>3, <2>1, <2>3 DEF PlaceOK, CurrentAction
  <2>5. buyer[r].done = 0 /\ unanswered[r] \in Nat
    BY <1>1, <1>3 DEF PlaceOK, CurrentAction, RunType, IInv, TypesOK
  <2>6. BankOK(r)'
    BY <1>1, <2>1, <2>3, <2>5 DEF BankOK, history
  <2> QED BY <1>1, <2>1, <2>2, <2>4, <2>6, QuietStep
<1>4. CASE CurrentAction(r) = Hedge /\ ~HedgingApi
  <2>1. /\ simulated \in RunType /\ simulated.pc = "append" /\ simulated.actions = buyer[r].actions
        /\ simulated.done = buyer[r].done /\ simulated.mode = "simulated-bank-api"
        /\ simulated.logs = buyer[r].logs
    BY <1>1 DEF RunType, PCs, Modes
  <2>2. buyer' = [buyer EXCEPT ![r] = simulated]
    BY <1>4 DEF Perform, Hedge
  <2> HIDE DEF simulated
  <2>3. buyer'[r] = simulated
    BY <2>2 DEF IInv, TypesOK
  <2>4. PlaceOK(r)'
    BY <1>1, <2>1, <2>3 DEF PlaceOK
  <2>5. BankOK(r)'
    BY <1>1, <2>1, <2>3 DEF BankOK, Truth, history
  <2> QED BY <1>1, <2>1, <2>2, <2>4, <2>5, QuietStep
<1> QED BY <1>2, <1>3, <1>4

\* A call of the bank is an attempt at the hedge: nothing is on record of it.
LEMMA PostIsFirst ==
    ASSUME IInv, NEW r \in Runs, buyer[r].pc = "post"
    PROVE  /\ buyer[r] \in RunType /\ PlaceOK(r) /\ bank[r] \in Nat /\ unanswered[r] \in Nat
           /\ buyer[r].done = 0 /\ Len(buyer[r].actions) > 0 /\ buyer[r].actions[1] = Hedge
           /\ bank[r] = unanswered[r] /\ LogsOf(r) = {}
           /\ \A l \in buyer[r].logs : l.run = r
<1>1. buyer[r] \in RunType /\ PlaceOK(r) /\ BankOK(r) /\ LogsOK(r)
      /\ bank[r] \in Nat /\ unanswered[r] \in Nat
  BY DEF IInv, TypesOK, RunOK
<1>2. buyer[r].done = 0 /\ Len(buyer[r].actions) > 0 /\ buyer[r].actions[1] = Hedge
  BY <1>1 DEF PlaceOK, CurrentAction, RunType
<1>3. LogsOf(r) = {}
  BY <1>1, <1>2 DEF LogsOK, RunType
<1> QED BY <1>1, <1>2, <1>3 DEF BankOK, LogsOK

\* An attempt is over, and it is tried again, or the mode tells what came of it.
LEMMA PostStep ==
    ASSUME IInv, NEW r \in Runs, buyer[r].pc = "post",
           NEW new \in RunType, buyer' = [buyer EXCEPT ![r] = new], NEW mode, new.mode = mode,
           new.actions = buyer[r].actions, new.done = buyer[r].done, new.logs = buyer[r].logs,
           UNCHANGED <<market, database, trouble>>,
           \/ UNCHANGED <<bank, unanswered>>
           \/ Cover(r) /\ UNCHANGED unanswered
           \/ Cover(r) /\ unanswered' = [unanswered EXCEPT ![r] = @ + 1],
           rejected' = rejected \/ rejected' = rejected \cup {r},
           \/ new.pc = "post" /\ mode = "none" /\ bank'[r] = unanswered'[r]
           \/ new.pc = "append" /\ Truth(r, mode, "executed")'
    PROVE  IInv'
<1>1. /\ buyer[r] \in RunType /\ PlaceOK(r) /\ bank[r] \in Nat /\ unanswered[r] \in Nat
      /\ buyer[r].done = 0 /\ Len(buyer[r].actions) > 0 /\ buyer[r].actions[1] = Hedge
      /\ bank[r] = unanswered[r] /\ LogsOf(r) = {}
      /\ \A l \in buyer[r].logs : l.run = r
  BY PostIsFirst
<1>2. bank \in [Runs -> Nat] /\ unanswered \in [Runs -> Nat] /\ buyer'[r] = new
  BY DEF IInv, TypesOK
<1>3. /\ bank' \in [Runs -> Nat] /\ unanswered' \in [Runs -> Nat]
      /\ \A q \in Runs \ {r} : bank'[q] = bank[q] /\ unanswered'[q] = unanswered[q]
      /\ unanswered'[r] <= bank'[r] /\ bank'[r] <= 1 + unanswered'[r]
  <2>1. CASE UNCHANGED <<bank, unanswered>>
    BY <1>1, <1>2, <2>1
  <2>2. CASE Cover(r) /\ UNCHANGED unanswered
    BY <1>1, <1>2, <2>2 DEF Cover
  <2>3. CASE Cover(r) /\ unanswered' = [unanswered EXCEPT ![r] = @ + 1]
    BY <1>1, <1>2, <2>3 DEF Cover
  <2> QED BY <2>1, <2>2, <2>3
<1>4. LogsOf(r)' = {}
  BY <1>1, <1>2 DEF LogsOf, database
<1>5. PlaceOK(r)'
  <2>1. buyer[r].done < Len(buyer[r].actions)
    BY <1>1
  <2> QED BY <1>1, <1>2, <2>1 DEF PlaceOK, CurrentAction
<1>6. BankOK(r)'
  BY <1>1, <1>2, <1>3 DEF BankOK
<1>7. LogsOK(r)' /\ RecordOK(r)'
  BY <1>1, <1>2, <1>4 DEF LogsOK, RecordOK
<1>8. RunOK(r)'
  BY <1>5, <1>6, <1>7 DEF RunOK
<1>9. \A q \in Runs \ {r} : (q \in rejected' <=> q \in rejected) /\ (q \in trouble' <=> q \in trouble)
  OBVIOUS
<1> QED BY <1>3, <1>8, <1>9, OneRun DEF database

LEMMA PostOverType ==
    ASSUME NEW r \in Runs, buyer[r] \in RunType, NEW mode \in Modes
    PROVE  LET new == [buyer[r] EXCEPT !.pc = "append", !.mode = mode]
           IN  /\ new \in RunType /\ new.pc = "append" /\ new.mode = mode
               /\ new.actions = buyer[r].actions /\ new.done = buyer[r].done
               /\ new.logs = buyer[r].logs
BY DEF RunType, PCs

LEMMA PostAnsweredIInv ==
    ASSUME IInv, NEW r \in Runs, PostAnswered(r) \/ PostRejected(r)
    PROVE  IInv'
<1> DEFINE new == [buyer[r] EXCEPT !.pc = "append", !.mode = "bank-api"]
<1>1. buyer[r].pc = "post" /\ UNCHANGED <<market, database, unanswered, trouble>>
      /\ buyer' = [buyer EXCEPT ![r] = new]
  BY DEF PostAnswered, PostRejected, Posted, history
<1>2. /\ buyer[r] \in RunType /\ bank[r] \in Nat /\ bank \in [Runs -> Nat]
  BY DEF IInv, TypesOK
<1>3. /\ new \in RunType /\ new.pc = "append" /\ new.mode = "bank-api"
      /\ new.actions = buyer[r].actions /\ new.done = buyer[r].done /\ new.logs = buyer[r].logs
  BY <1>2, PostOverType DEF Modes
<1> HIDE DEF new
<1>4. CASE PostAnswered(r)
  <2>1. Cover(r) /\ rejected' = rejected
    BY <1>4 DEF PostAnswered, history
  <2>2. bank'[r] # 0
    BY <1>2, <2>1 DEF Cover
  <2>3. Truth(r, "bank-api", "executed")'
    BY <1>3, <2>2 DEF Truth
  <2> QED BY <1>1, <1>3, <2>1, <2>3, PostStep
<1>5. CASE PostRejected(r)
  <2>1. bank' = bank /\ rejected' = rejected \cup {r}
    BY <1>5 DEF PostRejected
  <2>2. Truth(r, "bank-api", "executed")'
    BY <1>3, <2>1 DEF Truth
  <2> QED BY <1>1, <1>3, <2>1, <2>2, PostStep
<1> QED BY <1>4, <1>5

LEMMA PostLostIInv ==
    ASSUME IInv, NEW r \in Runs, PostLost(r)
    PROVE  IInv'
<1> DEFINE again == [buyer[r] EXCEPT !.attempt = @ + 1]
           over  == [buyer[r] EXCEPT !.pc = "append", !.mode = "bank-api-error"]
<1>1. /\ buyer[r].pc = "post" /\ UNCHANGED <<market, database, rejected, trouble>>
      /\ \/ UNCHANGED <<bank, unanswered>>
         \/ Cover(r) /\ unanswered' = [unanswered EXCEPT ![r] = @ + 1]
      /\ buyer' = [buyer EXCEPT ![r] = again] \/ buyer' = [buyer EXCEPT ![r] = over]
  BY DEF PostLost, Posted
<1>2. /\ buyer[r] \in RunType /\ bank[r] \in Nat /\ unanswered[r] \in Nat
      /\ bank[r] = unanswered[r] /\ buyer[r].mode = "none"
  BY <1>1, PostIsFirst DEF PlaceOK
<1>3. bank'[r] \in Nat /\ bank'[r] = unanswered'[r]
  BY <1>1, <1>2 DEF Cover, IInv, TypesOK
<1>4. CASE buyer' = [buyer EXCEPT ![r] = again]
  <2>1. PICK attempt : attempt = buyer[r].attempt + 1
    OBVIOUS
  <2>2. attempt \in Nat
    BY <1>2, <2>1 DEF RunType
  <2>3. again = [buyer[r] EXCEPT !.attempt = attempt]
    BY <2>1
  <2> HIDE DEF again
  <2>4. /\ again \in RunType /\ again.pc = "post" /\ again.mode = "none"
        /\ again.actions = buyer[r].actions /\ again.done = buyer[r].done /\ again.logs = buyer[r].logs
    BY <1>1, <1>2, <2>2, <2>3 DEF RunType
  <2> QED BY <1>1, <1>3, <1>4, <2>4, PostStep
<1>5. CASE buyer' = [buyer EXCEPT ![r] = over]
  <2>1. /\ over \in RunType /\ over.pc = "append" /\ over.mode = "bank-api-error"
        /\ over.actions = buyer[r].actions /\ over.done = buyer[r].done /\ over.logs = buyer[r].logs
    BY <1>2, PostOverType DEF Modes
  <2> HIDE DEF over
  <2>2. Truth(r, "bank-api-error", "executed")'
    BY <1>3, <2>1 DEF Truth
  <2> QED BY <1>1, <1>5, <2>1, <2>2, PostStep
<1> QED BY <1>1, <1>4, <1>5

LEMMA PostRaisesIInv ==
    ASSUME IInv, NEW r \in Runs, PostRaises(r)
    PROVE  IInv'
<1> DEFINE new == [buyer[r] EXCEPT !.pc = "append", !.mode = "bank-api-error"]
<1>1. buyer[r].pc = "post" /\ UNCHANGED <<market, database, bank, unanswered, rejected, trouble>>
      /\ buyer' = [buyer EXCEPT ![r] = new]
  BY DEF PostRaises, Posted, history
<1>2. buyer[r] \in RunType /\ bank[r] \in Nat /\ bank[r] = unanswered[r]
  BY <1>1, PostIsFirst
<1>3. /\ new \in RunType /\ new.pc = "append" /\ new.mode = "bank-api-error"
      /\ new.actions = buyer[r].actions /\ new.done = buyer[r].done /\ new.logs = buyer[r].logs
  BY <1>2, PostOverType DEF Modes
<1> HIDE DEF new
<1>4. Truth(r, "bank-api-error", "executed")'
  BY <1>1, <1>2, <1>3 DEF Truth
<1> QED BY <1>1, <1>3, <1>4, PostStep

-----------------------------------------------------------------------------
(* The records                                                             *)

\* Logs are stored or stay pending, unless the run is in trouble; nothing else
\* about them changes.
LEMMA KeepStep ==
    ASSUME IInv, NEW r \in Runs, NEW new \in RunType, buyer' = [buyer EXCEPT ![r] = new],
           new.actions = buyer[r].actions, new.done = buyer[r].done, new.mode = buyer[r].mode,
           new.logs \subseteq buyer[r].logs,
           UNCHANGED <<market, bank, unanswered, rejected>>,
           action_logs \subseteq action_logs', action_logs' \subseteq action_logs \cup buyer[r].logs,
           trouble' = trouble \/ trouble' = trouble \cup {r},
           r \notin trouble' => buyer[r].logs \subseteq new.logs \cup action_logs',
           \/ buyer[r].pc = "append" /\ new.pc = "commit"
           \/ /\ new.pc = "over" /\ new.logs = {}
              /\ r \notin trouble' => buyer[r].done = Len(buyer[r].actions)
    PROVE  IInv'
<1>1. buyer'[r] = new /\ buyer[r] \in RunType /\ RunOK(r)
      /\ bank' \in [Runs -> Nat] /\ unanswered' \in [Runs -> Nat]
  BY DEF IInv, TypesOK
<1>2. LogsOf(r)' \subseteq LogsOf(r) /\ (r \notin trouble' => LogsOf(r)' = LogsOf(r))
  BY <1>1 DEF LogsOf
<1>3. PlaceOK(r)'
  BY <1>1 DEF RunOK, PlaceOK, CurrentAction
<1>4. BankOK(r)'
  BY <1>1 DEF RunOK, BankOK, Truth
<1>5. LogsOK(r)'
  BY <1>1, <1>2 DEF RunOK, LogsOK, Truth
<1>6. RecordOK(r)'
  <2>1. r \notin trouble' => r \notin trouble
    OBVIOUS
  <2> QED BY <1>1, <1>2, <2>1 DEF RunOK, RecordOK
<1>7. RunOK(r)'
  BY <1>3, <1>4, <1>5, <1>6 DEF RunOK
<1> QED BY <1>1, <1>7, OneRun

LEMMA RecordIInv ==
    ASSUME IInv, NEW r \in Runs, Record(r)
    PROVE  IInv'
<1>1. PICK stored \in BOOLEAN, raises \in BOOLEAN :
          /\ IF stored
             THEN action_logs' = action_logs \cup buyer[r].logs
             ELSE action_logs' = action_logs
          /\ buyer' = [buyer EXCEPT ![r].pc = "commit",
                                ![r].logs = IF stored \/ raises THEN {} ELSE @,
                                ![r].broken = raises]
          /\ trouble' = IF raises THEN trouble \cup {r} ELSE trouble
  BY DEF Record, database
<1> DEFINE logs == IF stored \/ raises THEN {} ELSE buyer[r].logs
           new  == [buyer[r] EXCEPT !.pc = "commit", !.logs = logs, !.broken = raises]
<1>2. buyer[r] \in RunType /\ buyer[r].pc = "append" /\ UNCHANGED <<market, bank, unanswered, rejected>>
  BY DEF Record, IInv, TypesOK
<1>3. buyer' = [buyer EXCEPT ![r] = new]
  BY <1>1
<1>4. logs \subseteq buyer[r].logs /\ (~(stored \/ raises) => logs = buyer[r].logs)
  OBVIOUS
<1> HIDE DEF logs
<1>5. /\ new \in RunType /\ new.pc = "commit" /\ new.actions = buyer[r].actions
      /\ new.done = buyer[r].done /\ new.mode = buyer[r].mode /\ new.logs = logs
  BY <1>2, <1>4 DEF RunType, PCs
<1> HIDE DEF new
<1>6. /\ action_logs \subseteq action_logs' /\ action_logs' \subseteq action_logs \cup buyer[r].logs
      /\ trouble' = trouble \/ trouble' = trouble \cup {r}
  BY <1>1
<1>7. r \notin trouble' => buyer[r].logs \subseteq new.logs \cup action_logs'
  BY <1>1, <1>4, <1>5
<1> QED BY <1>2, <1>3, <1>4, <1>5, <1>6, <1>7, KeepStep

LEMMA EndIInv ==
    ASSUME IInv, NEW r \in Runs, End(r) \/ Die(r)
    PROVE  IInv'
<1> DEFINE new == [buyer[r] EXCEPT !.pc = "over", !.logs = {}]
<1>1. buyer[r] \in RunType
  BY DEF IInv, TypesOK
<1>2. /\ new \in RunType /\ new.pc = "over" /\ new.actions = buyer[r].actions
      /\ new.done = buyer[r].done /\ new.mode = buyer[r].mode /\ new.logs = {}
  BY <1>1 DEF RunType, PCs
<1>3. buyer' = [buyer EXCEPT ![r] = new] /\ UNCHANGED <<market, bank, unanswered, rejected>>
  BY DEF End, Die, history
<1> HIDE DEF new
<1>4. CASE End(r)
  <2>1. action_logs' = action_logs \cup buyer[r].logs /\ trouble' = trouble
        /\ buyer[r].done = Len(buyer[r].actions)
    BY <1>4 DEF End, AtEnd, history
  <2> QED BY <1>2, <1>3, <2>1, KeepStep
<1>5. CASE Die(r)
  <2>1. action_logs' = action_logs /\ trouble' = trouble \cup {r}
    BY <1>5 DEF Die, database
  <2> QED BY <1>2, <1>3, <2>1, KeepStep
<1> QED BY <1>4, <1>5

\* An action is resolved: its log waits with those that are still pending.
LEMMA ResolveStep ==
    ASSUME IInv, NEW r \in Runs, NEW pending \in SUBSET buyer[r].logs, NEW state \in States,
           buyer[r].done < Len(buyer[r].actions),
           buyer' = [buyer EXCEPT ![r] = Resolved(r, pending, state)],
           UNCHANGED <<market, bank, unanswered, rejected>>,
           action_logs \subseteq action_logs', action_logs' \subseteq action_logs \cup buyer[r].logs,
           trouble' = trouble \/ trouble' = trouble \cup {r},
           r \notin trouble' => buyer[r].logs \subseteq pending \cup action_logs',
           \/ buyer[r].pc = "act" /\ state = "simulated"
           \/ buyer[r].pc = "commit" /\ state = "executed"
           \/ buyer[r].pc = "commit" /\ state = "failed" /\ r \in trouble'
    PROVE  IInv'
<1> DEFINE log == LogOf(r, state)
           new == Resolved(r, pending, state)
<1>1. buyer[r] \in RunType /\ RunOK(r) /\ bank[r] \in Nat /\ unanswered[r] \in Nat
      /\ bank' \in [Runs -> Nat] /\ unanswered' \in [Runs -> Nat] /\ buyer'[r] = new
  BY DEF IInv, TypesOK
<1>2. /\ log \in LogType /\ log.run = r /\ log.kind = CurrentAction(r) /\ log.state = state
      /\ log.mode \in {buyer[r].mode, "none"}
  <2>1. CurrentAction(r) \in Kinds /\ buyer[r].done + 1 \in Nat
    BY <1>1 DEF RunType, CurrentAction
  <2>2. buyer[r].mode \in Modes /\ "none" \in Modes
    BY <1>1 DEF RunType, Modes
  <2> QED BY <2>1, <2>2 DEF LogOf, LogType
<1> HIDE DEF log
<1>3. /\ new \in RunType /\ new.pc = "act" /\ new.actions = buyer[r].actions
      /\ new.done = buyer[r].done + 1 /\ new.mode = "none" /\ new.logs = pending \cup {log}
  <2>1. PICK done : done = buyer[r].done + 1
    OBVIOUS
  <2>2. PICK logs : logs = pending \cup {log}
    OBVIOUS
  <2>3. PICK broken \in BOOLEAN : broken = FALSE
    OBVIOUS
  <2>4. done \in Nat /\ logs \in SUBSET LogType
    BY <1>1, <1>2, <2>1, <2>2 DEF RunType
  <2> DEFINE same == [buyer[r] EXCEPT !.pc = "act", !.done = done, !.attempt = 0,
                                    !.mode = "none", !.logs = logs, !.broken = broken]
  <2>5. new = same
    BY <2>1, <2>2, <2>3 DEF Resolved, log
  <2>6. same \in RunType
    BY <1>1, <2>4 DEF RunType, PCs, Modes
  <2>7. /\ same.pc = "act" /\ same.actions = buyer[r].actions
        /\ same.done = done /\ same.mode = "none" /\ same.logs = logs
    BY <1>1 DEF RunType
  <2> HIDE DEF new, same
  <2> QED BY <2>1, <2>2, <2>5, <2>6, <2>7
<1> HIDE DEF new
<1>4. PlaceOK(r)'
  BY <1>1, <1>3 DEF RunOK, PlaceOK, RunType
<1>5. BankOK(r)'
  BY <1>1, <1>3 DEF RunOK, BankOK, RunType
<1>6. CurrentAction(r) = Hedge => buyer[r].done = 0
  BY <1>1 DEF RunOK, PlaceOK, CurrentAction, RunType
<1>7. CurrentAction(r) = Hedge => Truth(r, log.mode, log.state)
  <2>1. CurrentAction(r) = Hedge => Truth(r, buyer[r].mode, log.state)
    BY <1>1, <1>2, <1>6 DEF RunOK, PlaceOK, BankOK, Truth
  <2>2. Truth(r, buyer[r].mode, log.state) => Truth(r, "none", log.state)
    BY DEF Truth
  <2> QED BY <1>2, <2>1, <2>2
<1>8. LogsOf(r)' \subseteq LogsOf(r) \cup {log}
      /\ (log \in LogsOf(r)' => log \in LogsOf(r) \/ CurrentAction(r) = Hedge)
  BY <1>1, <1>2, <1>3 DEF LogsOf
<1>9. LogsOK(r)'
  <2>1. \A l \in new.logs : l.run = r
    BY <1>1, <1>2, <1>3 DEF RunOK, LogsOK
  <2>2. \A l \in LogsOf(r)' : Truth(r, l.mode, l.state)
    BY <1>1, <1>7, <1>8 DEF RunOK, LogsOK
  <2>3. \A l \in LogsOf(r)' : Truth(r, l.mode, l.state)'
    BY <2>2 DEF Truth
  <2>4. new.done > 0
    BY <1>1, <1>3 DEF RunType
  <2> QED BY <1>1, <2>1, <2>3, <2>4 DEF LogsOK
<1>10. RecordOK(r)'
  <2>1. ASSUME r \notin trouble', bank[r] > 0
        PROVE  \E l \in LogsOf(r)' : l.state = "executed"
    <3>1. r \notin trouble
      BY <2>1
    <3>2. CASE buyer[r].done = 0
      <4>1. CurrentAction(r) = Hedge /\ buyer[r].pc = "commit" /\ state = "executed"
        BY <1>1, <2>1, <3>2 DEF RunOK, BankOK, CurrentAction
      <4>2. log \in LogsOf(r)'
        BY <1>1, <1>2, <1>3, <4>1 DEF LogsOf
      <4> QED BY <1>2, <4>1, <4>2
    <3>3. CASE buyer[r].done > 0
      <4>1. PICK l \in LogsOf(r) : l.state = "executed"
        BY <1>1, <2>1, <3>1, <3>3 DEF RunOK, RecordOK
      <4>2. l \in LogsOf(r)'
        BY <1>1, <1>3, <2>1 DEF LogsOf
      <4> QED BY <4>1, <4>2
    <3> QED BY <1>1, <3>2, <3>3 DEF RunType
  <2> QED BY <1>1, <1>3, <2>1 DEF RecordOK
<1>11. RunOK(r)'
  BY <1>4, <1>5, <1>9, <1>10 DEF RunOK
<1> QED BY <1>1, <1>3, <1>11, OneRun DEF new

LEMMA SimulateIInv ==
    ASSUME IInv, NEW r \in Runs, Simulate(r)
    PROVE  IInv'
<1>1. /\ buyer[r].pc = "act" /\ buyer[r].done < Len(buyer[r].actions)
      /\ buyer' = [buyer EXCEPT ![r] = Resolved(r, buyer[r].logs, "simulated")]
      /\ UNCHANGED <<market, bank, unanswered, rejected, trouble, action_logs>>
  BY DEF Simulate, HasWork, database, history
<1> QED BY <1>1, ResolveStep DEF States

LEMMA CommitIInv ==
    ASSUME IInv, NEW r \in Runs, Commit(r) \/ CommitRaises(r)
    PROVE  IInv'
<1>1. buyer[r].pc = "commit" /\ buyer[r].done < Len(buyer[r].actions)
  BY DEF Commit, CommitRaises, IInv, RunOK, PlaceOK
<1>2. CASE Commit(r)
  <2>1. /\ buyer' = [buyer EXCEPT ![r] = Resolved(r, {}, "executed")]
        /\ action_logs' = action_logs \cup buyer[r].logs
        /\ UNCHANGED <<market, bank, unanswered, rejected, trouble>>
    BY <1>2 DEF Commit, history
  <2> QED BY <1>1, <2>1, ResolveStep DEF States
<1>3. CASE CommitRaises(r)
  <2>1. /\ buyer' = [buyer EXCEPT ![r] = Resolved(r, {}, "failed")]
        /\ action_logs' \in {action_logs, action_logs \cup buyer[r].logs}
        /\ UNCHANGED <<market, bank, unanswered, rejected>> /\ trouble' = trouble \cup {r}
    BY <1>3 DEF CommitRaises
  <2> QED BY <1>1, <2>1, ResolveStep DEF States
<1> QED BY <1>2, <1>3

-----------------------------------------------------------------------------
(* The invariant and the theorems                                          *)

LEMMA InitIInv == ProcurementInit => IInv
<1> SUFFICES ASSUME ProcurementInit PROVE IInv
  OBVIOUS
<1>1. /\ NewRun \in RunType /\ NewRun.pc = "ready" /\ NewRun.actions = <<>> /\ NewRun.done = 0
      /\ NewRun.mode = "none" /\ NewRun.logs = {}
  BY DEF NewRun, RunType, PCs, Markets, Modes
<1>2. PastRound \in LogType /\ PastRound.kind # Hedge
  BY DEF PastRound, LogType, Kinds, States, Modes, Hedge
<1>3. TypesOK
  BY <1>1, <1>2, BankAssumption DEF TypesOK, ProcurementInit
<1>4. ASSUME NEW r \in Runs PROVE RunOK(r)
  <2>1. buyer[r] = NewRun /\ bank[r] = 0 /\ unanswered[r] = 0
    BY DEF ProcurementInit
  <2>2. LogsOf(r) = {}
    BY <1>1, <1>2, <2>1 DEF LogsOf, ProcurementInit
  <2>3. Len(<<>>) = 0
    OBVIOUS
  <2> HIDE DEF NewRun
  <2> QED BY <1>1, <2>1, <2>2, <2>3 DEF RunOK, PlaceOK, BankOK, LogsOK, RecordOK
<1> QED BY <1>3, <1>4 DEF IInv

LEMMA StutterIInv ==
    ASSUME IInv, UNCHANGED <<buyer, database, bank, history>>, market' \in Markets
    PROVE  IInv'
<1>1. TypesOK'
  BY DEF IInv, TypesOK, database, history
<1>2. ASSUME NEW r \in Runs PROVE RunOK(r)'
  BY DEF IInv, RunOK, PlaceOK, BankOK, LogsOK, RecordOK, LogsOf, Truth, CurrentAction, database, history
<1> QED BY <1>1, <1>2 DEF IInv

LEMMA NextIInv == IInv /\ [ProcurementNext]_procurementVars => IInv'
<1> SUFFICES ASSUME IInv, [ProcurementNext]_procurementVars PROVE IInv'
  OBVIOUS
<1>1. ASSUME NEW r \in Runs,
             \/ ObserveRates(r) \/ ObserveBids(r) \/ ObserveRaises(r)
             \/ Simulate(r) \/ Perform(r)
             \/ PostAnswered(r) \/ PostRejected(r) \/ PostLost(r) \/ PostRaises(r)
             \/ Record(r) \/ Commit(r) \/ CommitRaises(r) \/ End(r) \/ Die(r)
      PROVE  IInv'
  <2>1. CASE ObserveRates(r) \/ ObserveBids(r) \/ ObserveRaises(r)
    BY <2>1, ObserveRatesIInv, ObserveBidsIInv, ObserveRaisesIInv
  <2>2. CASE Simulate(r) \/ Perform(r)
    BY <2>2, SimulateIInv, PerformIInv
  <2>3. CASE PostAnswered(r) \/ PostRejected(r) \/ PostLost(r) \/ PostRaises(r)
    BY <2>3, PostAnsweredIInv, PostLostIInv, PostRaisesIInv
  <2>4. CASE Record(r) \/ End(r) \/ Die(r)
    BY <2>4, RecordIInv, EndIInv
  <2>5. CASE Commit(r) \/ CommitRaises(r)
    BY <2>5, CommitIInv
  <2> QED BY <1>1, <2>1, <2>2, <2>3, <2>4, <2>5
<1>2. CASE NewRates
  BY <1>2, StutterIInv DEF NewRates
<1>3. CASE UNCHANGED procurementVars
  BY <1>3, StutterIInv DEF procurementVars, IInv, TypesOK
<1> QED BY <1>1, <1>2, <1>3 DEF ProcurementNext

LEMMA SpecIInv == ProcurementSpec => []IInv
BY InitIInv, NextIInv, PTL DEF ProcurementSpec

\* Cover without a record of it is left only by a run that died or had a commit
\* raise, whatever became of the calls (supply_chain_agent.py:141-158).
THEOREM CoverIsOnRecord == ProcurementSpec => []CoverOnRecord
<1>1. IInv => CoverOnRecord
  <2> SUFFICES ASSUME IInv, NEW r \in Runs, bank[r] > 0, buyer[r].pc = "over", r \notin trouble
               PROVE  \E l \in HedgeLogs(r) : l.state = "executed"
    BY DEF CoverOnRecord
  <2>1. buyer[r] \in RunType /\ RunOK(r)
    BY DEF IInv, TypesOK
  <2>2. buyer[r].logs = {} /\ buyer[r].done > 0
    BY <2>1 DEF RunOK, RecordOK, BankOK
  <2>3. LogsOf(r) = HedgeLogs(r)
    BY <2>2 DEF LogsOf, HedgeLogs, Hedge
  <2> QED BY <2>1, <2>2, <2>3 DEF RunOK, RecordOK
<1> QED BY <1>1, SpecIInv, PTL

\* The bank covers a hedge again only for an answer that was lost, however many
\* attempts there are (retry.py:25-47).
THEOREM CoverIsNotRepeated == ProcurementSpec => []DuplicatesOnlyUnanswered
<1>1. IInv => DuplicatesOnlyUnanswered
  BY DEF IInv, RunOK, BankOK, DuplicatesOnlyUnanswered
<1> QED BY <1>1, SpecIInv, PTL

\* What the stored log of a hedge that was simulated or executed says of the
\* bank is true, but for an error that the bank answered with; that of one that
\* failed says nothing (supply_chain_agent.py:134-149, base_agent.py:110-116).
THEOREM ModeIsTrue == ProcurementSpec => []ModeTellsCover
<1>1. IInv => ModeTellsCover
  <2> SUFFICES ASSUME IInv, NEW r \in Runs, NEW l \in HedgeLogs(r)
               PROVE  Truth(r, l.mode, l.state)
    BY DEF ModeTellsCover, Truth
  <2>1. l \in LogsOf(r)
    BY DEF HedgeLogs, LogsOf, Hedge
  <2> QED BY <2>1 DEF IInv, RunOK, LogsOK
<1> QED BY <1>1, SpecIInv, PTL
=============================================================================
