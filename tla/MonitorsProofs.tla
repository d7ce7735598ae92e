--------------------------- MODULE MonitorsProofs ---------------------------
(***************************************************************************)
(* Theorems about Monitors: for any number of runs that overlap and any    *)
(* readings, batches, alerts and frames, a run that comes to its end has   *)
(* missed nothing, and no run stores an action twice.                      *)
(***************************************************************************)
EXTENDS Monitors, FiniteSetTheorems, SequenceTheorems, WellFoundedInduction, TLAPS

-----------------------------------------------------------------------------
(* The inductive invariant                                                 *)

SiloTypes      == {"alert_quality_degradation", "reorder_grain", "rotate_stock"}
BatchTypes     == {"recommend_process_adjustment", "file_efficiency_report"}
DetectionTypes == {"flag_intrusion", "flag_defect"}
ActionTypes    == SiloTypes \cup BatchTypes \cup DetectionTypes
                      \cup {"audit_snapshot", "audit_security_log", "dispatch_alarm"}

ActionType == [type : ActionTypes, item : Nat]
RowType    == [run : Nat, type : ActionTypes, item : Nat]

\* What a query or a frame of observe() can be about.
SubjectNames == ToSet(SILOS) \cup ToSet(Cameras) \cup {"waste", "security"}

Runs == [pc : {"idle", "observe", "act"}, id : Nat, todo : Seq(SubjectNames),
         due : SUBSET Nat, upto : Nat, found : Seq(Nat), plan : Seq(ActionType),
         excused : SUBSET (ActionTypes \X Nat)]

\* What the heuristic detector reports.
Detections == [label : {"person", "flour_bag", "object"}, confidence : {60, 68, 72}]

\* What the agent of this behaviour finds.
Items == IF agent = "silo" THEN SiloReadings
         ELSE IF agent = "vision" THEN Detections ELSE Batches \cup SecurityAlerts

In(x, s)    == \E i \in 1..Len(s) : s[i] = x
Distinct(s) == \A i, j \in 1..Len(s) : s[i] = s[j] => i = j

TypesOK ==
    /\ agent \in {"silo", "waste", "security", "vision"}
    /\ items \in Seq(Items)
    /\ nextRun \in Nat
    /\ run \in [Threads -> Runs]

\* Runs have numbers of their own.
IdsOK ==
    \A t \in Threads : run[t].pc # "idle" =>
        /\ run[t].id < nextRun
        /\ \A u \in Threads : run[u].pc # "idle" /\ run[u].id = run[t].id => u = t

StoredOK ==
    \A row \in DOMAIN stored :
        row \in RowType /\ row.run < nextRun /\ stored[row] = 1

\* What a query of observe() is about: a silo, or everything.
Subject(k) == IF agent = "silo" THEN items[k].silo_id ELSE agent

\* The items that have been found are there, each once, and no subject is asked
\* for a second time.
FoundOK(t) ==
    /\ \A i \in 1..Len(run[t].found) : run[t].found[i] \in 1..Len(items)
    /\ Distinct(run[t].found)
    /\ agent \in {"silo", "waste"} =>
          /\ Distinct(run[t].todo)
          /\ \A i \in 1..Len(run[t].found) : ~In(Subject(run[t].found[i]), run[t].todo)
          /\ agent = "waste" => \A i \in 1..Len(run[t].todo) : run[t].todo[i] = agent
    /\ agent = "security" => run[t].found = <<>>

\* l is k, or hides it.
Covers(l, k, upto) == k <= l /\ l <= upto /\ Subject(l) = Subject(k)

\* Every item that is due was found, or a newer one of its subject was, unless
\* the subject is still to be looked at.
DueFound(t) ==
    /\ agent = "vision" => \A k \in run[t].due : In(k, run[t].found)
    /\ agent \in {"silo", "waste"} =>
          \A k \in run[t].due :
              \/ In(Subject(k), run[t].todo)
              \/ \E i \in 1..Len(run[t].found) : Covers(run[t].found[i], k, run[t].upto)

\* The run is still to carry the action out.
ToDo(t, type, k) == In([type |-> type, item |-> k], run[t].plan)

DuePlanned(t) ==
    \A k \in run[t].due :
        \/ Overtaken(k, run[t].upto)
        \/ \A type \in DueRows(items[k]) :
              \/ <<type, k>> \in run[t].excused
              \/ StoredBy(run[t].id, type, k)
              \/ ToDo(t, type, k)

\* The plan holds no action twice, and none that the run has stored.
PlanOK(t) ==
    /\ Distinct(run[t].plan)
    /\ \A i \in 1..Len(run[t].plan) :
          ~StoredBy(run[t].id, run[t].plan[i].type, run[t].plan[i].item)

RunOK(t) ==
    run[t].pc # "idle" =>
        /\ run[t].due \subseteq 1..Len(items) /\ run[t].upto <= Len(items)
        /\ run[t].pc = "observe" =>
              /\ \A row \in DOMAIN stored : row.run # run[t].id
              /\ FoundOK(t) /\ DueFound(t)
        /\ run[t].pc = "act" => PlanOK(t) /\ DuePlanned(t)

FinishedOK ==
    \A f \in finished :
        /\ f.due \subseteq 1..Len(items) /\ f.upto <= Len(items) /\ f.upto \in Nat
        /\ \A k \in f.due :
              \/ Overtaken(k, f.upto)
              \/ \A type \in DueRows(items[k]) :
                    <<type, k>> \in f.excused \/ StoredBy(f.run, type, k)

IInv ==
    /\ TypesOK /\ IdsOK /\ StoredOK /\ FinishedOK
    /\ \A t \in Threads : RunOK(t)
-----------------------------------------------------------------------------
(* Sequences                                                               *)

\* A set of natural numbers that is not empty has a least element.
LEMMA Least ==
    ASSUME NEW T, T \subseteq Nat, T # {}
    PROVE  \E x \in T : \A y \in T : x <= y
<1> DEFINE R == OpToRel(<, Nat)
<1>1. IsWellFoundedOn(R, Nat)
  BY NatLessThanWellFounded DEF OpToRel
<1>2. \E x \in T : \A y \in T : ~(<<y, x>> \in R)
  <2> HIDE DEF R
  <2> QED BY <1>1, WFMin
<1>3. \A x, y \in Nat : ~(<<y, x>> \in R) => x <= y
  BY DEF OpToRel
<1> QED BY <1>2, <1>3

LEMMA EmptySequence == Distinct(<<>>) /\ \A x : ~In(x, <<>>)
BY DEF Distinct, In

LEMMA OneElement ==
    ASSUME NEW S, NEW x \in S
    PROVE  <<x>> \in Seq(S) /\ Distinct(<<x>>) /\ \A y : In(y, <<x>>) <=> y = x
<1>1. <<x>> \in Seq(S) /\ Len(<<x>>) = 1 /\ <<x>>[1] = x /\ \A i : i \in 1..1 <=> i = 1
  OBVIOUS
<1> QED BY <1>1 DEF Distinct, In

\* The elements of a concatenation are those of its two parts.
LEMMA ConcatElements ==
    ASSUME NEW S, NEW a \in Seq(S), NEW b \in Seq(S)
    PROVE  /\ a \o b \in Seq(S)
           /\ \A x : In(x, a \o b) <=> In(x, a) \/ In(x, b)
           /\ Distinct(a) /\ Distinct(b) /\ (\A x : ~(In(x, a) /\ In(x, b))) => Distinct(a \o b)
<1>1. /\ a \o b \in Seq(S) /\ Len(a \o b) = Len(a) + Len(b)
      /\ \A i \in 1..(Len(a) + Len(b)) :
            (a \o b)[i] = IF i <= Len(a) THEN a[i] ELSE b[i - Len(a)]
      /\ Len(a) \in Nat /\ Len(b) \in Nat
  OBVIOUS
<1>2. PICK s : s = a \o b
  OBVIOUS
<1>3. \A i \in 1..Len(a) : i \in 1..Len(s) /\ s[i] = a[i]
  BY <1>1, <1>2
<1>4. ASSUME NEW i \in 1..Len(b) PROVE Len(a) + i \in 1..Len(s) /\ s[Len(a) + i] = b[i]
  <2>1. /\ Len(a) + i \in 1..(Len(a) + Len(b)) /\ ~(Len(a) + i <= Len(a))
        /\ (Len(a) + i) - Len(a) = i
    BY <1>1
  <2> QED BY <1>1, <1>2, <2>1
<1>5. \A i \in 1..Len(s) : i \in 1..Len(a) \/ \E j \in 1..Len(b) : i = Len(a) + j
  <2>1. ASSUME NEW i \in 1..Len(s), i \notin 1..Len(a)
        PROVE  i - Len(a) \in 1..Len(b) /\ i = Len(a) + (i - Len(a))
    BY <1>1, <1>2, <2>1
  <2> QED BY <2>1
<1>6. \A x : In(x, s) <=> In(x, a) \/ In(x, b)
  <2>1. ASSUME NEW x, In(x, s) PROVE In(x, a) \/ In(x, b)
    <3>1. PICK i \in 1..Len(s) : s[i] = x
      BY <2>1 DEF In
    <3>2. CASE i \in 1..Len(a)
      BY <1>3, <3>1, <3>2 DEF In
    <3>3. ASSUME NEW j \in 1..Len(b), i = Len(a) + j PROVE In(x, b)
      BY <1>4, <3>1, <3>3 DEF In
    <3> QED BY <1>5, <3>2, <3>3
  <2>2. ASSUME NEW x, In(x, a) PROVE In(x, s)
    BY <1>3, <2>2 DEF In
  <2>3. ASSUME NEW x, In(x, b) PROVE In(x, s)
    BY <1>4, <2>3 DEF In
  <2> QED BY <2>1, <2>2, <2>3
<1>7. Distinct(a) /\ Distinct(b) /\ (\A x : ~(In(x, a) /\ In(x, b))) => Distinct(s)
  <2> SUFFICES ASSUME Distinct(a), Distinct(b), \A x : ~(In(x, a) /\ In(x, b)),
                      NEW i \in 1..Len(s), NEW j \in 1..Len(s), s[i] = s[j]
               PROVE  i = j
    BY DEF Distinct
  <2>1. CASE i \in 1..Len(a) /\ j \in 1..Len(a)
    BY <1>3, <2>1 DEF Distinct
  <2>2. ASSUME NEW k \in 1..Len(b), NEW l \in 1..Len(b), i = Len(a) + k, j = Len(a) + l
        PROVE  i = j
    BY <1>4, <2>2 DEF Distinct
  <2>3. ASSUME NEW k \in 1..Len(a), NEW l \in 1..Len(b) PROVE s[k] # s[Len(a) + l]
    BY <1>3, <1>4, <2>3 DEF In
  <2> QED BY <1>5, <2>1, <2>2, <2>3
<1> QED BY <1>1, <1>2, <1>6, <1>7

\* A sequence is its first element and the rest.
LEMMA HeadAndTail ==
    ASSUME NEW S, NEW s \in Seq(S), s # <<>>
    PROVE  /\ Head(s) \in S /\ Tail(s) \in Seq(S) /\ Head(s) = s[1] /\ 1 \in 1..Len(s)
           /\ \A x : In(x, s) <=> x = Head(s) \/ In(x, Tail(s))
           /\ \A i \in 1..Len(Tail(s)) : \E j \in 1..Len(s) : Tail(s)[i] = s[j]
           /\ Distinct(s) => Distinct(Tail(s)) /\ ~In(Head(s), Tail(s))
<1>1. /\ Head(s) \in S /\ Tail(s) \in Seq(S) /\ Len(Tail(s)) = Len(s) - 1 /\ Len(s) \in Nat \ {0}
      /\ Head(s) = s[1] /\ \A i \in 1..Len(Tail(s)) : Tail(s)[i] = s[i + 1]
  OBVIOUS
<1>2. /\ \A i \in 1..Len(Tail(s)) : i + 1 \in 1..Len(s) /\ i + 1 # 1
      /\ \A i \in 1..Len(s) : i = 1 \/ \E j \in 1..Len(Tail(s)) : i = j + 1
  <2>1. \A i \in 1..Len(s) : i # 1 => i - 1 \in 1..Len(Tail(s)) /\ i = (i - 1) + 1
    BY <1>1
  <2> QED BY <1>1, <2>1
<1>3. 1 \in 1..Len(s)
  BY <1>1
<1>4. \A x : In(x, s) <=> x = Head(s) \/ In(x, Tail(s))
  <2>1. ASSUME NEW x, In(x, s) PROVE x = Head(s) \/ In(x, Tail(s))
    BY <1>1, <1>2, <2>1 DEF In
  <2>2. ASSUME NEW x, In(x, Tail(s)) PROVE In(x, s)
    BY <1>1, <1>2, <2>2 DEF In
  <2>3. In(Head(s), s)
    BY <1>1, <1>3 DEF In
  <2> QED BY <2>1, <2>2, <2>3
<1>5. Distinct(s) => Distinct(Tail(s)) /\ ~In(Head(s), Tail(s))
  <2>1. \A i, j \in 1..Len(Tail(s)) : i + 1 = j + 1 => i = j
    BY <1>1
  <2> QED BY <1>1, <1>2, <1>3, <2>1 DEF Distinct, In
<1>6. \A i \in 1..Len(Tail(s)) : \E j \in 1..Len(s) : Tail(s)[i] = s[j]
  BY <1>1, <1>2
<1> QED BY <1>1, <1>3, <1>4, <1>5, <1>6

\* g holds the concatenations of the first n sequences.
Concat(seqs, n, g) == g = [i \in 1..n |-> IF i = 1 THEN seqs[i] ELSE g[i - 1] \o seqs[i]]

\* There are such concatenations: the least n without them would be the
\* successor of one that has them.
LEMMA ConcatExists ==
    ASSUME NEW S, NEW seqs \in Seq(Seq(S))
    PROVE  \A n \in 1..Len(seqs) : \E g \in [1..n -> Seq(S)] : Concat(seqs, n, g)
<1> DEFINE Has(n) == \E g \in [1..n -> Seq(S)] : Concat(seqs, n, g)
           without == {n \in 1..Len(seqs) : ~Has(n)}
<1> SUFFICES ASSUME without # {} PROVE FALSE
  OBVIOUS
<1>1. PICK n \in without : \A k \in without : n <= k
  <2>1. without \subseteq Nat
    OBVIOUS
  <2> HIDE DEF without
  <2> QED BY <2>1, Least
<1>2. n # 1
  <2>1. [i \in 1..1 |-> seqs[1]] \in [1..1 -> Seq(S)] /\ Concat(seqs, 1, [i \in 1..1 |-> seqs[1]])
    BY <1>1 DEF Concat
  <2> QED BY <1>1, <2>1
<1>3. n \in 2..Len(seqs) /\ n - 1 \in 1..Len(seqs)
  BY <1>1, <1>2
<1>4. PICK g \in [1..(n - 1) -> Seq(S)] : Concat(seqs, n - 1, g)
  <2>1. n - 1 \notin without
    <3> HIDE DEF without
    <3> QED BY <1>1, <1>3
  <2>2. Has(n - 1)
    <3> HIDE DEF Has
    <3> QED BY <1>3, <2>1
  <2> QED BY <2>2
<1> DEFINE h == [i \in 1..n |-> IF i = n THEN g[n - 1] \o seqs[n] ELSE g[i]]
<1>5. h \in [1..n -> Seq(S)]
  <2>1. g[n - 1] \in Seq(S) /\ seqs[n] \in Seq(S)
    BY <1>3, <1>4
  <2>2. g[n - 1] \o seqs[n] \in Seq(S)
    BY <2>1
  <2>3. \A i \in 1..n : i # n => g[i] \in Seq(S)
    BY <1>3, <1>4
  <2> QED BY <2>2, <2>3
<1>6. Concat(seqs, n, h)
  <2>1. ASSUME NEW i \in 1..n PROVE h[i] = IF i = 1 THEN seqs[i] ELSE h[i - 1] \o seqs[i]
    <3>1. CASE i = n
      <4>1. n \in 1..n /\ n - 1 \in 1..n /\ n - 1 # n /\ n # 1
        BY <1>3
      <4>2. h[n - 1] = g[n - 1]
        BY <4>1
      <4>3. h[n] = g[n - 1] \o seqs[n]
        BY <4>1
      <4> QED BY <3>1, <4>1, <4>2, <4>3
    <3>2. CASE i # n
      <4>1. i \in 1..(n - 1) /\ h[i] = g[i]
        BY <1>3, <3>2
      <4>2. g[i] = IF i = 1 THEN seqs[i] ELSE g[i - 1] \o seqs[i]
        BY <1>4, <4>1 DEF Concat
      <4>3. i # 1 => h[i - 1] = g[i - 1]
        BY <1>3, <4>1
      <4> QED BY <4>1, <4>2, <4>3
    <3> QED BY <3>1, <3>2
  <2>2. h = [i \in 1..n |-> h[i]]
    OBVIOUS
  <2> HIDE DEF h
  <2> QED BY <2>1, <2>2 DEF Concat
<1> QED BY <1>1, <1>5, <1>6

\* Sequences without repetitions of which no two have an element in common.
Apart(seqs) ==
    /\ \A k \in 1..Len(seqs) : Distinct(seqs[k])
    /\ \A j, k \in 1..Len(seqs) : \A x : In(x, seqs[j]) /\ In(x, seqs[k]) => j = k

\* What a sequence begins with are elements of it.
LEMMA Beginning ==
    ASSUME NEW S, NEW s \in Seq(S), NEW m \in Nat, m <= Len(s)
    PROVE  SubSeq(s, 1, m) \in Seq(S)
<1>1. \A i \in 1..m : s[i] \in S
  OBVIOUS
<1> QED BY <1>1, SubSeqProperties

\* A plan holds what was decided for each item that was found, and nothing else,
\* and nothing twice if that was so for each of them.
LEMMA FlattenElements ==
    ASSUME NEW S, NEW seqs \in Seq(Seq(S))
    PROVE  /\ FlattenSeq(seqs) \in Seq(S)
           /\ \A x : In(x, FlattenSeq(seqs)) <=> \E k \in 1..Len(seqs) : In(x, seqs[k])
           /\ Apart(seqs) => Distinct(FlattenSeq(seqs))
<1>1. CASE Len(seqs) = 0
  <2>1. FlattenSeq(seqs) = <<>>
    BY <1>1 DEF FlattenSeq
  <2> QED BY <1>1, <2>1 DEF In, Distinct
<1>2. CASE Len(seqs) # 0
  <2> DEFINE N == Len(seqs)
             flat == CHOOSE g : Concat(seqs, N, g)
  <2>1. N \in 1..Len(seqs)
    BY <1>2
  <2>2. Concat(seqs, N, flat)
    BY <2>1, ConcatExists
  <2>3. FlattenSeq(seqs) = flat[N]
    BY <1>2 DEF FlattenSeq, Concat
  <2> HIDE DEF flat
  <2>4. \A n \in 1..N : flat[n] = IF n = 1 THEN seqs[n] ELSE flat[n - 1] \o seqs[n]
    BY <2>2 DEF Concat
  <2> DEFINE Good(n) == /\ flat[n] \in Seq(S)
                        /\ Apart(seqs) => Distinct(flat[n])
                        /\ \A x : In(x, flat[n]) <=> \E k \in 1..n : In(x, seqs[k])
             bad == {n \in 1..N : ~Good(n)}
  <2>5. bad = {}
    <3> SUFFICES ASSUME bad # {} PROVE FALSE
      OBVIOUS
    <3>1. PICK n \in bad : \A k \in bad : n <= k
      <4>1. bad \subseteq Nat
        OBVIOUS
      <4> HIDE DEF bad
      <4> QED BY <4>1, Least
    <3>2. n # 1
      <4>1. flat[1] = seqs[1] /\ seqs[1] \in Seq(S) /\ \A k : k \in 1..1 <=> k = 1
        <5>1. 1 \in 1..N /\ \A k : k \in 1..1 <=> k = 1
          BY <2>1
        <5>2. flat[1] = seqs[1]
          BY <2>4, <5>1
        <5> QED BY <5>1, <5>2
      <4>2. Good(1)
        BY <2>1, <4>1 DEF Apart
      <4> QED
        <5> HIDE DEF Good
        <5> QED BY <3>1, <4>2
    <3>3. n - 1 \in 1..N /\ n \in 1..N
      BY <3>1, <3>2
    <3>4. Good(n - 1)
      <4>1. n - 1 \notin bad
        <5> HIDE DEF bad
        <5> QED BY <3>1, <3>3
      <4> HIDE DEF Good
      <4> QED BY <3>3, <4>1
    <3>5. flat[n] = flat[n - 1] \o seqs[n] /\ seqs[n] \in Seq(S)
      <4>1. flat[n] = flat[n - 1] \o seqs[n]
        BY <2>4, <3>2, <3>3
      <4>2. seqs[n] \in Seq(S)
        BY <3>3
      <4> QED BY <4>1, <4>2
    <3>6. \A k : k \in 1..n <=> k \in 1..(n - 1) \/ k = n
      BY <3>3
    <3>7. /\ flat[n] \in Seq(S) /\ \A x : In(x, flat[n]) <=> In(x, flat[n - 1]) \/ In(x, seqs[n])
      BY <3>4, <3>5, ConcatElements
    <3>8. \A x : In(x, flat[n]) <=> \E k \in 1..n : In(x, seqs[k])
      BY <3>4, <3>6, <3>7
    <3>9. ASSUME Apart(seqs) PROVE Distinct(flat[n])
      <4>1. Distinct(flat[n - 1]) /\ Distinct(seqs[n])
        BY <3>3, <3>4, <3>9 DEF Apart
      <4>2. \A x : ~(In(x, flat[n - 1]) /\ In(x, seqs[n]))
        <5>1. \A k \in 1..(n - 1) : k \in 1..Len(seqs) /\ k # n
          BY <3>3
        <5> QED BY <3>3, <3>4, <3>9, <5>1 DEF Apart
      <4> QED BY <3>4, <3>5, <4>1, <4>2, ConcatElements
    <3> QED BY <3>1, <3>7, <3>8, <3>9
  <2>6. Good(N)
    BY <2>1, <2>5
  <2> QED BY <2>3, <2>6
<1> QED BY <1>1, <1>2

\* What was decided for each of some items, none of which was found twice.
LEMMA PlanFor ==
    ASSUME NEW found \in Seq(Nat), Distinct(found),
           NEW seqs \in Seq(Seq(ActionType)), Len(seqs) = Len(found),
           \A i \in 1..Len(found) : /\ Distinct(seqs[i])
                                    /\ \A x : In(x, seqs[i]) => x.item = found[i]
    PROVE  /\ FlattenSeq(seqs) \in Seq(ActionType)
           /\ Distinct(FlattenSeq(seqs))
           /\ \A x : In(x, FlattenSeq(seqs)) <=> \E i \in 1..Len(found) : In(x, seqs[i])
<1>1. Apart(seqs)
  <2>1. \A j, k \in 1..Len(found) : found[j] = found[k] => j = k
    BY DEF Distinct
  <2>2. ASSUME NEW j \in 1..Len(found), NEW k \in 1..Len(found), NEW x,
               In(x, seqs[j]), In(x, seqs[k])
        PROVE  j = k
    <3>1. x.item = found[j] /\ x.item = found[k]
      BY <2>2
    <3> QED BY <2>1, <3>1
  <2>3. \A k \in 1..Len(seqs) : k \in 1..Len(found) /\ Distinct(seqs[k])
    OBVIOUS
  <2> QED BY <2>2, <2>3 DEF Apart
<1> QED BY <1>1, FlattenElements

-----------------------------------------------------------------------------
(* What a step of another run, or of another system, leaves as it is       *)

\* Items and rows are only added.
Grows ==
    /\ agent' = agent
    /\ items' \in Seq(Items) /\ Len(items) <= Len(items')
    /\ \A k \in 1..Len(items) : items'[k] = items[k]
    /\ DOMAIN stored \subseteq DOMAIN stored'

LEMMA Kept ==
    ASSUME TypesOK, Grows, NEW k \in 1..Len(items)
    PROVE  /\ Subject(k)' = Subject(k)
           /\ DueRows(items[k])' = DueRows(items[k])
           /\ \A upto \in Nat : upto <= Len(items) /\ Overtaken(k, upto) => Overtaken(k, upto)'
           /\ \A r, type : StoredBy(r, type, k) => StoredBy(r, type, k)'
<1>1. agent' = agent /\ items'[k] = items[k] /\ Len(items) \in Nat
  BY DEF Grows, TypesOK
<1>2. Subject(k)' = Subject(k)
  BY <1>1 DEF Subject
<1>3. DueRows(items[k])' = DueRows(items[k])
  BY <1>1 DEF DueRows, Efficiency
<1>4. ASSUME NEW upto \in Nat, upto <= Len(items), Overtaken(k, upto) PROVE Overtaken(k, upto)'
  <2>1. \A l \in (k + 1)..upto : items'[l] = items[l]
    BY <1>1, <1>4 DEF Grows
  <2> QED BY <1>1, <1>4, <2>1 DEF Overtaken
<1>5. \A r, type : StoredBy(r, type, k) => StoredBy(r, type, k)'
  BY DEF StoredBy, BagIn, BagToSet, Grows
<1> QED BY <1>2, <1>3, <1>4, <1>5

LEMMA FinishedKept ==
    ASSUME TypesOK, FinishedOK, Grows, finished' = finished
    PROVE  FinishedOK'
<1> SUFFICES ASSUME NEW f \in finished
             PROVE  /\ f.due \subseteq 1..Len(items') /\ f.upto <= Len(items') /\ f.upto \in Nat
                    /\ \A k \in f.due :
                          \/ Overtaken(k, f.upto)'
                          \/ \A type \in DueRows(items[k])' :
                                <<type, k>> \in f.excused \/ StoredBy(f.run, type, k)'
  BY DEF FinishedOK
<1>1. /\ f.due \subseteq 1..Len(items) /\ f.upto <= Len(items) /\ f.upto \in Nat
      /\ \A k \in f.due :
            \/ Overtaken(k, f.upto)
            \/ \A type \in DueRows(items[k]) :
                  <<type, k>> \in f.excused \/ StoredBy(f.run, type, k)
  BY DEF FinishedOK
<1>2. f.due \subseteq 1..Len(items') /\ f.upto <= Len(items')
  BY <1>1 DEF Grows, TypesOK
<1>3. ASSUME NEW k \in f.due
      PROVE  \/ Overtaken(k, f.upto)'
             \/ \A type \in DueRows(items[k])' :
                   <<type, k>> \in f.excused \/ StoredBy(f.run, type, k)'
  <2>1. k \in 1..Len(items)
    BY <1>1
  <2>2. /\ DueRows(items[k])' = DueRows(items[k])
        /\ Overtaken(k, f.upto) => Overtaken(k, f.upto)'
        /\ \A type : StoredBy(f.run, type, k) => StoredBy(f.run, type, k)'
    BY <1>1, <2>1, Kept
  <2> QED BY <1>1, <2>2
<1> QED BY <1>1, <1>2, <1>3

\* The invariant of a run that does not move.
LEMMA Unmoved ==
    ASSUME TypesOK, Grows, NEW t \in Threads, RunOK(t), run'[t] = run[t],
           \A row \in DOMAIN stored' \ DOMAIN stored : row.run # run[t].id
    PROVE  RunOK(t)'
<1>0. CASE run[t].pc = "idle"
  BY <1>0 DEF RunOK
<1>1. CASE run[t].pc # "idle"
  <2>1. /\ run[t] \in Runs /\ run[t].due \subseteq 1..Len(items) /\ run[t].upto <= Len(items)
        /\ run[t].upto \in Nat
    BY <1>1 DEF RunOK, TypesOK, Runs
  <2>2. run[t].due \subseteq 1..Len(items') /\ run[t].upto <= Len(items') /\ Len(items) \in Nat
        /\ 1..Len(items) \subseteq 1..Len(items') /\ agent' = agent
    BY <2>1 DEF Grows, TypesOK
  <2>3. ASSUME run[t].pc = "observe"
        PROVE  (\A row \in DOMAIN stored' : row.run # run[t].id) /\ FoundOK(t)' /\ DueFound(t)'
    <3>1. (\A row \in DOMAIN stored : row.run # run[t].id) /\ FoundOK(t) /\ DueFound(t)
      BY <1>1, <2>3 DEF RunOK
    <3>2. FoundOK(t)'
      <4>1. \A i \in 1..Len(run[t].found) :
                Subject(run[t].found[i])' = Subject(run[t].found[i])
        BY <3>1, Kept DEF FoundOK
      <4> QED BY <2>2, <3>1, <4>1 DEF FoundOK
    <3>3. DueFound(t)'
      <4>1. \A k \in run[t].due : Subject(k)' = Subject(k)
        BY <2>1, Kept
      <4>2. \A i \in 1..Len(run[t].found), k \in run[t].due :
                Covers(run[t].found[i], k, run[t].upto) => Covers(run[t].found[i], k, run[t].upto)'
        <5>1. \A i \in 1..Len(run[t].found) :
                  Subject(run[t].found[i])' = Subject(run[t].found[i])
          BY <3>1, Kept DEF FoundOK
        <5> QED BY <4>1, <5>1 DEF Covers
      <4> QED BY <2>2, <3>1, <4>1, <4>2 DEF DueFound
    <3> QED BY <3>1, <3>2, <3>3
  <2>4. ASSUME run[t].pc = "act" PROVE PlanOK(t)' /\ DuePlanned(t)'
    <3>1. PlanOK(t) /\ DuePlanned(t)
      BY <1>1, <2>4 DEF RunOK
    <3>2. PlanOK(t)'
      <4>1. PICK id : id = run[t].id
        OBVIOUS
      <4>2. ASSUME NEW type, NEW k, [run |-> id, type |-> type, item |-> k] \in DOMAIN stored'
            PROVE  [run |-> id, type |-> type, item |-> k] \in DOMAIN stored
        BY <4>1, <4>2
      <4> QED BY <3>1, <4>1, <4>2 DEF PlanOK, StoredBy, BagIn, BagToSet
    <3>3. ASSUME NEW k \in run[t].due
          PROVE  \/ Overtaken(k, run[t].upto)'
                 \/ \A type \in DueRows(items[k])' :
                       \/ <<type, k>> \in run[t].excused
                       \/ StoredBy(run[t].id, type, k)'
                       \/ ToDo(t, type, k)'
      <4>1. /\ DueRows(items[k])' = DueRows(items[k])
            /\ Overtaken(k, run[t].upto) => Overtaken(k, run[t].upto)'
            /\ \A type : StoredBy(run[t].id, type, k) => StoredBy(run[t].id, type, k)'
        BY <2>1, Kept
      <4>2. \A type : ToDo(t, type, k) => ToDo(t, type, k)'
        BY DEF ToDo
      <4> QED BY <3>1, <4>1, <4>2 DEF DuePlanned
    <3> QED BY <3>2, <3>3 DEF DuePlanned
  <2> QED BY <2>2, <2>3, <2>4 DEF RunOK
<1> QED BY <1>0, <1>1

\* A step of one run that stores nothing and leaves its number.
LEMMA OneRun ==
    ASSUME IInv, NEW t \in Threads, NEW new \in Runs, run' = [run EXCEPT ![t] = new],
           new.pc # "idle" => run[t].pc # "idle" /\ new.id = run[t].id,
           Grows, UNCHANGED <<nextRun, stored, finished>>, RunOK(t)'
    PROVE  IInv'
<1>1. TypesOK /\ IdsOK /\ StoredOK /\ FinishedOK /\ run'[t] = new /\ Items' = Items
      /\ \A u \in Threads \ {t} : run'[u] = run[u] /\ RunOK(u)
  BY DEF IInv, TypesOK, Items, Grows
<1>2. TypesOK'
  BY <1>1 DEF TypesOK, Grows
<1>3. IdsOK'
  BY <1>1 DEF IdsOK, TypesOK
<1>4. StoredOK'
  BY <1>1 DEF StoredOK
<1>5. FinishedOK'
  BY <1>1, FinishedKept
<1>6. \A u \in Threads \ {t} : RunOK(u)'
  BY <1>1, Unmoved
<1> QED BY <1>2, <1>3, <1>4, <1>5, <1>6 DEF IInv

\* A run ends early.
LEMMA Stops ==
    ASSUME IInv, NEW t \in Threads, run' = [run EXCEPT ![t] = NoRun],
           UNCHANGED <<agent, items, nextRun, stored, finished>>
    PROVE  IInv'
<1>1. NoRun \in Runs /\ NoRun.pc = "idle"
  <2>1. <<>> \in Seq(SubjectNames) /\ <<>> \in Seq(Nat) /\ <<>> \in Seq(ActionType)
    OBVIOUS
  <2> QED BY <2>1 DEF NoRun, Runs
<1>2. Grows
  BY DEF Grows, IInv, TypesOK
<1>3. run'[t] = NoRun
  BY DEF IInv, TypesOK
<1>4. RunOK(t)'
  BY <1>1, <1>3 DEF RunOK
<1> QED BY <1>1, <1>2, <1>4, OneRun

-----------------------------------------------------------------------------
(* observe()                                                               *)

LEMMA Greatest ==
    ASSUME NEW n \in Nat, NEW S \in SUBSET (1..n), S # {}
    PROVE  Max(S) \in S /\ \A y \in S : y <= Max(S)
<1> DEFINE below == {n - y : y \in S}
<1>1. below \subseteq Nat /\ below # {}
  <2>1. \A y \in S : y \in Nat /\ n - y \in Nat
    OBVIOUS
  <2>2. PICK y \in S : TRUE
    OBVIOUS
  <2> QED BY <2>1, <2>2
<1>2. PICK x \in S : \A y \in S : n - x <= n - y
  <2> HIDE DEF below
  <2>1. PICK m \in below : \A z \in below : m <= z
    BY <1>1, Least
  <2> QED BY <2>1 DEF below
<1>3. \A y \in S : x >= y
  BY <1>2
<1>4. Max(S) \in S /\ \A y \in S : Max(S) >= y
  BY <1>3 DEF Max
<1> QED BY <1>4

LEMMA FoundFields ==
    ASSUME IInv, NEW t \in Threads, NEW new \in Seq(Nat), Found(t, new),
           run[t].pc = "observe", run[t].todo # <<>>
    PROVE  /\ run' = [run EXCEPT ![t] = run'[t]] /\ run'[t] \in Runs
           /\ run'[t].pc = "observe" /\ run'[t].id = run[t].id /\ run'[t].due = run[t].due
           /\ run'[t].todo = Tail(run[t].todo) /\ run'[t].found = run[t].found \o new
           /\ run'[t].upto = Len(items)
<1>1. run[t] \in Runs /\ run \in [Threads -> Runs] /\ Len(items) \in Nat
  BY DEF IInv, TypesOK
<1>2. PICK todo, found, upto :
          todo = Tail(run[t].todo) /\ found = run[t].found \o new /\ upto = Len(items)
  OBVIOUS
<1>3. run[t].todo \in Seq(SubjectNames) /\ run[t].found \in Seq(Nat)
  BY <1>1 DEF Runs
<1>4. todo \in Seq(SubjectNames) /\ found \in Seq(Nat) /\ upto \in Nat
  BY <1>1, <1>2, <1>3, HeadAndTail, ConcatElements
<1> DEFINE r == [run[t] EXCEPT !.todo = todo, !.found = found, !.upto = upto]
<1>5. run' = [run EXCEPT ![t] = r]
  BY <1>2 DEF Found
<1>6. r \in Runs
  BY <1>1, <1>4 DEF Runs
<1>7. /\ r.pc = run[t].pc /\ r.id = run[t].id /\ r.due = run[t].due
      /\ r.todo = todo /\ r.found = found /\ r.upto = upto
  BY <1>1 DEF Runs
<1> HIDE DEF r
<1> QED BY <1>1, <1>2, <1>5, <1>6, <1>7

\* A query for the newest item of a subject: the items of that subject that are
\* due are covered by it.
LEMMA NewestStep ==
    ASSUME IInv, NEW t \in Threads, run[t].pc = "observe", run[t].todo # <<>>,
           agent \in {"silo", "waste"}, NEW new,
           new = Newest({k \in 1..Len(items) : Subject(k) = Head(run[t].todo)}),
           Found(t, new), UNCHANGED <<agent, items, nextRun, stored, finished>>
    PROVE  IInv'
<1>1. PICK places : places = {k \in 1..Len(items) : Subject(k) = Head(run[t].todo)}
  OBVIOUS
<1>2. Len(items) \in Nat /\ items \in Seq(Items) /\ run[t] \in Runs
  BY DEF IInv, TypesOK
<1>3. places = {} \/ (Max(places) \in places /\ \A k \in places : k <= Max(places))
  BY <1>1, <1>2, Greatest
<1>4. /\ new \in Seq(Nat) /\ Distinct(new)
      /\ \A l : In(l, new) <=> places # {} /\ l = Max(places)
  <2>1. CASE places = {}
    BY <1>1, <2>1, EmptySequence DEF Newest
  <2>2. CASE places # {}
    <3>1. new = <<Max(places)>>
      BY <1>1, <2>2 DEF Newest
    <3>2. PICK m \in Nat : m = Max(places)
      <4>1. Max(places) \in 1..Len(items)
        BY <1>1, <1>3, <2>2
      <4> QED BY <1>2, <4>1
    <3>3. <<m>> \in Seq(Nat) /\ Distinct(<<m>>) /\ \A y : In(y, <<m>>) <=> y = m
      BY <3>2, OneElement
    <3> QED BY <2>2, <3>1, <3>2, <3>3
  <2> QED BY <2>1, <2>2
<1>5. \A l : In(l, new) => l \in 1..Len(items) /\ Subject(l) = Head(run[t].todo)
  BY <1>1, <1>3, <1>4
<1>6. \A k \in places : \E l : In(l, new) /\ k <= l
  BY <1>3, <1>4
<1> HIDE DEF Found
<1>7. /\ run' = [run EXCEPT ![t] = run'[t]] /\ run'[t] \in Runs
      /\ run'[t].pc = "observe" /\ run'[t].id = run[t].id /\ run'[t].due = run[t].due
      /\ run'[t].todo = Tail(run[t].todo) /\ run'[t].found = run[t].found \o new
      /\ run'[t].upto = Len(items)
  BY <1>4, FoundFields
<1>8. Grows
  BY <1>2 DEF Grows
<1>9. /\ run[t].due \subseteq 1..Len(items) /\ run[t].upto <= Len(items)
      /\ \A row \in DOMAIN stored : row.run # run[t].id
      /\ FoundOK(t) /\ DueFound(t)
  BY DEF IInv, RunOK
<1>10. run[t].todo \in Seq(SubjectNames) /\ run[t].found \in Seq(Nat) /\ run[t].upto \in Nat
  BY <1>2 DEF Runs
<1>11. PICK todo, found, longer :
           todo = run[t].todo /\ found = run[t].found /\ longer = found \o new
  OBVIOUS
<1>12. /\ \A s : In(s, todo) <=> s = Head(todo) \/ In(s, Tail(todo))
       /\ \A i \in 1..Len(Tail(todo)) : \E j \in 1..Len(todo) : Tail(todo)[i] = todo[j]
       /\ Distinct(todo) => Distinct(Tail(todo)) /\ ~In(Head(todo), Tail(todo))
  BY <1>10, <1>11, HeadAndTail
<1>13. /\ longer \in Seq(Nat)
       /\ \A l : In(l, longer) <=> In(l, found) \/ In(l, new)
       /\ Distinct(found) /\ (\A l : ~(In(l, found) /\ In(l, new))) => Distinct(longer)
  BY <1>4, <1>10, <1>11, ConcatElements
<1>14. /\ \A l : In(l, found) => l \in 1..Len(items) /\ ~In(Subject(l), todo)
       /\ Distinct(found) /\ Distinct(todo)
       /\ agent = "waste" => \A i \in 1..Len(todo) : todo[i] = agent
  BY <1>9, <1>11 DEF FoundOK, In
<1>15. FoundOK(t)'
  <2>1. Distinct(longer)
    BY <1>5, <1>11, <1>12, <1>13, <1>14
  <2>2. \A i \in 1..Len(longer) : longer[i] \in 1..Len(items) /\ ~In(Subject(longer[i]), Tail(todo))
    <3>1. \A l : In(l, longer) => l \in 1..Len(items) /\ ~In(Subject(l), Tail(todo))
      BY <1>5, <1>11, <1>12, <1>13, <1>14
    <3> QED BY <3>1 DEF In
  <2>3. agent = "waste" => \A i \in 1..Len(Tail(todo)) : Tail(todo)[i] = agent
    BY <1>12, <1>14
  <2>4. agent # "security" /\ agent' = agent /\ items' = items
    OBVIOUS
  <2>5. run'[t].found = longer /\ run'[t].todo = Tail(todo) /\ Distinct(Tail(todo))
    BY <1>7, <1>11, <1>12, <1>14
  <2>6. \A i \in 1..Len(longer) : ~In(Subject(longer[i])', Tail(todo))
    BY <2>2 DEF Subject
  <2> QED BY <2>1, <2>2, <2>3, <2>4, <2>5, <2>6 DEF FoundOK, Subject
<1>16. DueFound(t)'
  <2>1. ASSUME NEW k \in run[t].due
        PROVE  \/ In(Subject(k), Tail(todo))
               \/ \E l : In(l, longer) /\ Covers(l, k, Len(items))
    <3>1. k \in 1..Len(items)
      BY <1>9
    <3>2. CASE Subject(k) = Head(todo)
      <4>1. PICK l : In(l, new) /\ k <= l
        BY <1>1, <1>6, <1>11, <3>1, <3>2
      <4>2. Covers(l, k, Len(items))
        BY <1>5, <1>11, <3>2, <4>1 DEF Covers
      <4> QED BY <1>13, <4>1, <4>2
    <3>3. CASE \E i \in 1..Len(found) : Covers(found[i], k, run[t].upto)
      <4>1. PICK i \in 1..Len(found) : Covers(found[i], k, run[t].upto)
        BY <3>3
      <4>2. In(found[i], found) /\ found[i] \in Nat
        BY <1>10, <1>11, <4>1 DEF In
      <4>3. Covers(found[i], k, Len(items))
        BY <1>2, <1>9, <1>10, <3>1, <4>1, <4>2 DEF Covers
      <4> QED BY <1>13, <4>2, <4>3
    <3> QED BY <1>9, <1>11, <1>12, <3>2, <3>3 DEF DueFound
  <2>2. ASSUME NEW k \in run[t].due
        PROVE  \/ In(Subject(k), Tail(todo))
               \/ \E i \in 1..Len(longer) : Covers(longer[i], k, Len(items))
    BY <2>1 DEF In
  <2>3. agent # "vision" /\ agent' = agent
    OBVIOUS
  <2>4. /\ run'[t].found = longer /\ run'[t].todo = Tail(todo) /\ run'[t].due = run[t].due
        /\ run'[t].upto = Len(items)
    BY <1>7, <1>11
  <2> QED BY <2>2, <2>3, <2>4 DEF DueFound, Covers, Subject
<1>17. RunOK(t)'
  BY <1>7, <1>9, <1>15, <1>16 DEF RunOK
<1> QED BY <1>7, <1>8, <1>17, OneRun

LEMMA ObserveSiloIInv ==
    ASSUME IInv, NEW t \in Threads, ObserveSilo(t)
    PROVE  IInv'
<1>1. /\ run[t].pc = "observe" /\ run[t].todo # <<>> /\ agent = "silo"
      /\ UNCHANGED <<agent, items, nextRun, stored, finished>>
  BY DEF ObserveSilo, Looking
<1>2. PICK new : new = Newest({k \in 1..Len(items) : Subject(k) = Head(run[t].todo)})
  OBVIOUS
<1>3. {k \in DOMAIN items : items[k].silo_id = Head(run[t].todo)}
        = {k \in 1..Len(items) : Subject(k) = Head(run[t].todo)}
  BY <1>1 DEF Subject, IInv, TypesOK
<1>4. Found(t, new)
  BY <1>2, <1>3 DEF ObserveSilo
<1> QED BY <1>1, <1>2, <1>4, NewestStep

LEMMA ObserveBatchIInv ==
    ASSUME IInv, NEW t \in Threads, ObserveBatch(t)
    PROVE  IInv'
<1>1. /\ run[t].pc = "observe" /\ run[t].todo # <<>> /\ agent = "waste"
      /\ UNCHANGED <<agent, items, nextRun, stored, finished>>
  BY DEF ObserveBatch, Looking
<1>2. PICK new : new = Newest({k \in 1..Len(items) : Subject(k) = Head(run[t].todo)})
  OBVIOUS
<1>3. DOMAIN items = {k \in 1..Len(items) : Subject(k) = Head(run[t].todo)}
  <2>1. run[t].todo \in Seq(SubjectNames) /\ DOMAIN items = 1..Len(items) /\ FoundOK(t)
    BY <1>1 DEF IInv, TypesOK, Runs, RunOK
  <2>2. Head(run[t].todo) = run[t].todo[1] /\ 1 \in 1..Len(run[t].todo)
    BY <1>1, <2>1, HeadAndTail
  <2> QED BY <1>1, <2>1, <2>2 DEF Subject, FoundOK
<1>4. Found(t, new)
  BY <1>2, <1>3 DEF ObserveBatch
<1> QED BY <1>1, <1>2, <1>4, NewestStep

\* A camera that fails, and the alerts, of which there are none.
LEMMA NothingFound ==
    ASSUME IInv, NEW t \in Threads, run[t].pc = "observe", run[t].todo # <<>>,
           agent \in {"vision", "security"}, Found(t, <<>>),
           UNCHANGED <<agent, items, nextRun, stored, finished>>
    PROVE  IInv'
<1>1. <<>> \in Seq(Nat) /\ Len(items) \in Nat /\ items \in Seq(Items) /\ run[t] \in Runs
  BY DEF IInv, TypesOK
<1>2. run[t].found \in Seq(Nat)
  BY <1>1 DEF Runs
<1> HIDE DEF Found
<1>3. /\ run' = [run EXCEPT ![t] = run'[t]] /\ run'[t] \in Runs
      /\ run'[t].pc = "observe" /\ run'[t].id = run[t].id /\ run'[t].due = run[t].due
      /\ run'[t].found = run[t].found /\ run'[t].upto = Len(items)
  <2>1. run[t].found \o <<>> = run[t].found
    BY <1>2
  <2> QED BY <1>1, <2>1, FoundFields
<1>4. Grows
  BY <1>1 DEF Grows
<1>5. /\ run[t].due \subseteq 1..Len(items)
      /\ \A row \in DOMAIN stored : row.run # run[t].id
      /\ FoundOK(t) /\ DueFound(t)
  BY DEF IInv, RunOK
<1>6. FoundOK(t)' /\ DueFound(t)'
  BY <1>3, <1>5 DEF FoundOK, DueFound
<1>7. RunOK(t)'
  BY <1>1, <1>3, <1>5, <1>6 DEF RunOK
<1> QED BY <1>3, <1>4, <1>7, OneRun

LEMMA ObserveAlertsIInv ==
    ASSUME IInv, NEW t \in Threads, ObserveAlerts(t)
    PROVE  IInv'
<1>1. OpenAlerts = <<>>
  BY DEF ObserveAlerts, ZoneOf
<1>2. /\ run[t].pc = "observe" /\ run[t].todo # <<>> /\ agent = "security" /\ Found(t, <<>>)
      /\ UNCHANGED <<agent, items, nextRun, stored, finished>>
  BY <1>1 DEF ObserveAlerts, Looking
<1> QED BY <1>2, NothingFound

LEMMA CaptureFailsIInv ==
    ASSUME IInv, NEW t \in Threads, CaptureFails(t)
    PROVE  IInv'
BY NothingFound DEF CaptureFails, Looking

\* What is detected on a frame is a sequence of detections.
LEMMA Detected ==
    ASSUME NEW frame \in Frames
    PROVE  detect(frame) \in Seq(Detections)
<1>1. frame \in Seq(Shapes)
  <2>1. \A a, b \in Shapes : <<a>> \in Seq(Shapes) /\ <<a, b>> \in Seq(Shapes)
    OBVIOUS
  <2>2. <<>> \in Seq(Shapes)
    OBVIOUS
  <2>3. \/ frame = <<>> \/ \E a \in Shapes : frame = <<a>>
        \/ \E a, b \in Shapes : frame = <<a, b>>
    BY DEF Frames
  <2> QED BY <2>1, <2>2, <2>3
<1> DEFINE each == [i \in DOMAIN frame |->
                       IF frame[i].area >= 5 THEN <<Detection(frame[i])>> ELSE <<>>]
<1>2. each \in Seq(Seq(Detections))
  <2>1. \A shape : Detection(shape) \in Detections
    BY DEF Detection, Detections
  <2>2. \A i \in DOMAIN frame : each[i] \in Seq(Detections)
    <3>1. \A d \in Detections : <<d>> \in Seq(Detections)
      OBVIOUS
    <3> QED BY <2>1, <3>1
  <2>3. DOMAIN frame = 1..Len(frame) /\ Len(frame) \in Nat
    BY <1>1
  <2> HIDE DEF each
  <2>4. DOMAIN each = 1..Len(frame)
    BY <2>3 DEF each
  <2>5. each = [i \in 1..Len(frame) |-> each[i]]
    BY <2>3 DEF each
  <2> QED BY <2>2, <2>3, <2>4, <2>5
<1> HIDE DEF each
<1>3. PICK regions : regions = FlattenSeq(each)
  OBVIOUS
<1>4. regions \in Seq(Detections) /\ Len(regions) \in Nat
  BY <1>2, <1>3, FlattenElements
<1>5. Min({20, Len(regions)}) \in Nat /\ Min({20, Len(regions)}) <= Len(regions)
  <2>1. PICK n : n = Len(regions)
    OBVIOUS
  <2>2. Min({20, n}) = IF n <= 20 THEN n ELSE 20
    BY <1>4, <2>1 DEF Min
  <2> QED BY <1>4, <2>1, <2>2
<1>6. SubSeq(regions, 1, Min({20, Len(regions)})) \in Seq(Detections)
  <2>1. PICK m \in Nat : m = Min({20, Len(regions)}) /\ m <= Len(regions)
    BY <1>5
  <2>2. SubSeq(regions, 1, m) \in Seq(Detections)
    BY <1>4, <2>1, Beginning
  <2> QED BY <2>1, <2>2
<1>7. detect(frame) = SubSeq(regions, 1, Min({20, Len(regions)}))
  BY <1>3 DEF detect, each
<1> QED BY <1>6, <1>7

LEMMA CaptureIInv ==
    ASSUME IInv, NEW t \in Threads, Capture(t)
    PROVE  IInv'
<1>1. PICK frame \in Frames :
          LET places == [i \in 1..Len(detect(frame)) |-> Len(items) + i]
          IN  /\ items' = items \o detect(frame)
              /\ run' = [run EXCEPT ![t].todo = Tail(@), ![t].due = @ \cup ToSet(places),
                            ![t].found = @ \o places, ![t].upto = Len(items')]
  BY DEF Capture
<1>2. /\ run[t].pc = "observe" /\ run[t].todo # <<>> /\ agent = "vision"
      /\ UNCHANGED <<agent, nextRun, stored, finished>>
  BY DEF Capture, Looking
<1>3. PICK n, m, detected, places :
          /\ n = Len(items) /\ detected = detect(frame) /\ m = Len(detected)
          /\ places = [i \in 1..m |-> n + i]
  OBVIOUS
<1>4. detected \in Seq(Detections) /\ m \in Nat
  BY <1>3, Detected
<1>5. items \in Seq(Detections) /\ n \in Nat /\ run[t] \in Runs /\ run \in [Threads -> Runs]
  BY <1>2, <1>3 DEF IInv, TypesOK, Items
<1>6. /\ items' = items \o detected /\ items' \in Seq(Detections) /\ Len(items') = n + m
      /\ \A k \in 1..n : items'[k] = items[k]
  <2>1. items' = items \o detected
    BY <1>1, <1>3
  <2>2. PICK old, new : old = items /\ new = old \o detected
    OBVIOUS
  <2>3. new \in Seq(Detections) /\ Len(new) = n + m /\ \A k \in 1..n : new[k] = old[k]
    BY <1>3, <1>4, <1>5, <2>2
  <2> QED BY <2>1, <2>2, <2>3
<1>7. Grows
  <2>1. Items = Detections
    BY <1>2 DEF Items
  <2> QED BY <1>2, <1>3, <1>4, <1>5, <1>6, <2>1 DEF Grows
<1>8. /\ places \in Seq(Nat) /\ Len(places) = m
      /\ \A i \in 1..m : places[i] = n + i
  BY <1>3, <1>4, <1>5
<1>9. PICK todo, due, found, upto :
          /\ todo = Tail(run[t].todo) /\ due = run[t].due \cup ToSet(places)
          /\ found = run[t].found \o places /\ upto = n + m
  OBVIOUS
<1>10. run[t].todo \in Seq(SubjectNames) /\ run[t].found \in Seq(Nat) /\ run[t].due \subseteq Nat
  BY <1>5 DEF Runs
<1>11. ToSet(places) = {places[i] : i \in 1..m}
  BY <1>8 DEF ToSet
<1>12. todo \in Seq(SubjectNames) /\ due \in SUBSET Nat /\ found \in Seq(Nat) /\ upto \in Nat
  <2>1. ToSet(places) \subseteq Nat
    BY <1>4, <1>5, <1>8, <1>11
  <2>2. todo \in Seq(SubjectNames)
    BY <1>2, <1>9, <1>10, HeadAndTail
  <2>3. found \in Seq(Nat)
    BY <1>8, <1>9, <1>10, ConcatElements
  <2> QED BY <1>4, <1>5, <1>9, <1>10, <2>1, <2>2, <2>3
<1> DEFINE new == [run[t] EXCEPT !.todo = todo, !.due = due, !.found = found, !.upto = upto]
<1>13. run' = [run EXCEPT ![t] = new]
  BY <1>1, <1>3, <1>6, <1>9
<1>14. new \in Runs
  BY <1>5, <1>12 DEF Runs
<1>15. /\ new.pc = "observe" /\ new.id = run[t].id /\ new.due = due /\ new.found = found
       /\ new.upto = upto
  BY <1>2, <1>5 DEF Runs
<1> HIDE DEF new
<1>16. run'[t] = new
  BY <1>5, <1>13
<1>17. /\ run[t].due \subseteq 1..n
       /\ \A row \in DOMAIN stored : row.run # run[t].id
       /\ FoundOK(t) /\ DueFound(t)
  BY <1>2, <1>3 DEF IInv, RunOK
<1>18. /\ \A l : In(l, found) <=> In(l, run[t].found) \/ In(l, places)
       /\ Distinct(run[t].found) /\ Distinct(places)
             /\ (\A l : ~(In(l, run[t].found) /\ In(l, places))) => Distinct(found)
  BY <1>8, <1>9, <1>10, ConcatElements
<1>19. \A l : In(l, places) => l \in (n + 1)..(n + m)
  BY <1>4, <1>5, <1>8 DEF In
<1>20. FoundOK(t)'
  <2>1. Distinct(run[t].found) /\ \A l : In(l, run[t].found) => l \in 1..n
    BY <1>3, <1>17 DEF FoundOK, In
  <2>2. Distinct(places)
    BY <1>4, <1>5, <1>8 DEF Distinct
  <2>3. \A l : l \in (n + 1)..(n + m) => l \notin 1..n
    BY <1>4, <1>5
  <2>4. Distinct(found)
    BY <1>18, <1>19, <2>1, <2>2, <2>3
  <2>5. 1..n \subseteq 1..(n + m) /\ (n + 1)..(n + m) \subseteq 1..(n + m)
    BY <1>4, <1>5
  <2>6. \A i \in 1..Len(found) : found[i] \in 1..(n + m)
    <3>1. \A l : In(l, found) => l \in 1..(n + m)
      BY <1>18, <1>19, <2>1, <2>5
    <3> QED BY <3>1 DEF In
  <2> QED BY <1>2, <1>6, <1>15, <1>16, <2>4, <2>6 DEF FoundOK
<1>21. DueFound(t)'
  <2>1. ASSUME NEW k \in due PROVE In(k, found)
    <3>1. CASE k \in run[t].due
      BY <1>2, <1>17, <1>18, <3>1 DEF DueFound
    <3>2. CASE k \in ToSet(places)
      <4>1. PICK i \in 1..m : places[i] = k
        BY <1>11, <3>2
      <4>2. In(k, places)
        BY <1>8, <4>1 DEF In
      <4> QED BY <1>18, <4>2
    <3> QED BY <1>9, <3>1, <3>2
  <2> QED BY <1>2, <1>15, <1>16, <2>1 DEF DueFound
<1>22. RunOK(t)'
  <2>1. due \subseteq 1..(n + m)
    <3>1. 1..n \subseteq 1..(n + m) /\ \A i \in 1..m : n + i \in 1..(n + m)
      BY <1>4, <1>5
    <3> QED BY <1>8, <1>9, <1>11, <1>17, <3>1
  <2>2. /\ run'[t].pc = "observe" /\ run'[t].id = run[t].id /\ run'[t].due = due
        /\ run'[t].upto = n + m
    BY <1>9, <1>15, <1>16
  <2>3. run'[t].due \subseteq 1..Len(items') /\ run'[t].upto <= Len(items')
    BY <1>4, <1>5, <1>6, <2>1, <2>2
  <2>4. \A row \in DOMAIN stored' : row.run # run'[t].id
    BY <1>2, <1>17, <2>2
  <2> QED BY <1>20, <1>21, <2>2, <2>3, <2>4 DEF RunOK
<1> QED BY <1>2, <1>7, <1>13, <1>14, <1>15, <1>22, OneRun

-----------------------------------------------------------------------------
(* think()                                                                 *)

\* The plan of a run that has looked at everything accounts for what is due.
LEMMA Decides ==
    ASSUME IInv, NEW t \in Threads, run[t].pc = "observe",
           NEW plan \in Seq(ActionType), Decide(t, plan), Distinct(plan),
           \A k \in run[t].due :
               \/ Overtaken(k, run[t].upto)
               \/ \A type \in DueRows(items[k]) : In([type |-> type, item |-> k], plan)
    PROVE  IInv'
<1>1. /\ run[t] \in Runs /\ run \in [Threads -> Runs] /\ items \in Seq(Items)
      /\ UNCHANGED <<agent, items, nextRun, stored, finished>>
  BY DEF IInv, TypesOK, Decide
<1>2. PICK pc : pc = "act"
  OBVIOUS
<1> DEFINE new == [run[t] EXCEPT !.pc = pc, !.plan = plan]
<1>3. run' = [run EXCEPT ![t] = new]
  BY <1>2 DEF Decide
<1>4. new \in Runs
  BY <1>1, <1>2 DEF Runs
<1>5. /\ new.pc = "act" /\ new.id = run[t].id /\ new.due = run[t].due /\ new.upto = run[t].upto
      /\ new.plan = plan /\ new.excused = run[t].excused
  BY <1>1, <1>2 DEF Runs
<1> HIDE DEF new
<1>6. run'[t] = new /\ Grows
  BY <1>1, <1>3 DEF Grows
<1>7. /\ run[t].due \subseteq 1..Len(items) /\ run[t].upto <= Len(items)
      /\ \A row \in DOMAIN stored : row.run # run[t].id
  BY DEF IInv, RunOK
<1>8. PlanOK(t)'
  <2>1. \A type, k : [run |-> run[t].id, type |-> type, item |-> k] \notin DOMAIN stored
    BY <1>7
  <2> QED BY <1>1, <1>5, <1>6, <2>1 DEF PlanOK, StoredBy, BagIn, BagToSet
<1>9. DuePlanned(t)'
  <2>1. PICK upto : upto = run[t].upto
    OBVIOUS
  <2>2. ASSUME NEW k \in run[t].due
        PROVE  \/ Overtaken(k, upto)'
               \/ \A type \in DueRows(items[k])' : In([type |-> type, item |-> k], plan)
    <3>1. k \in 1..Len(items) /\ upto \in Nat
      BY <1>1, <1>7, <2>1 DEF Runs
    <3>2. /\ DueRows(items[k])' = DueRows(items[k])
          /\ Overtaken(k, upto) => Overtaken(k, upto)'
      BY <1>6, <1>7, <2>1, <3>1, Kept DEF IInv
    <3> QED BY <2>1, <3>2
  <2>3. run'[t].upto = upto /\ run'[t].due = run[t].due /\ run'[t].plan = plan
    BY <1>5, <1>6, <2>1
  <2> QED BY <2>2, <2>3 DEF DuePlanned, ToDo, Overtaken
<1>10. RunOK(t)'
  BY <1>1, <1>5, <1>6, <1>7, <1>8, <1>9 DEF RunOK
<1> QED BY <1>1, <1>3, <1>4, <1>5, <1>6, <1>10, OneRun

\* With nothing left to look at, an item that is due was found or is overtaken.
LEMMA FoundOrOvertaken ==
    ASSUME IInv, NEW t \in Threads, run[t].pc = "observe", run[t].todo = <<>>,
           agent # "security", NEW k \in run[t].due
    PROVE  In(k, run[t].found) \/ Overtaken(k, run[t].upto)
<1>1. /\ run[t] \in Runs /\ run[t].due \subseteq 1..Len(items)
      /\ FoundOK(t) /\ DueFound(t) /\ Len(items) \in Nat
      /\ agent \in {"silo", "waste", "vision", "security"}
  BY DEF IInv, TypesOK, RunOK
<1>2. CASE agent = "vision"
  BY <1>1, <1>2 DEF DueFound
<1>3. CASE agent \in {"silo", "waste"}
  <2>1. ~In(Subject(k), run[t].todo)
    BY EmptySequence
  <2>2. PICK i \in 1..Len(run[t].found) : Covers(run[t].found[i], k, run[t].upto)
    BY <1>1, <1>3, <2>1 DEF DueFound
  <2>3. PICK l : l = run[t].found[i]
    OBVIOUS
  <2>4. /\ l \in 1..Len(items) /\ k \in 1..Len(items) /\ run[t].upto \in Nat
        /\ k <= l /\ l <= run[t].upto /\ Subject(l) = Subject(k)
    BY <1>1, <2>2, <2>3 DEF FoundOK, Covers, Runs
  <2>5. CASE l = k
    BY <2>3, <2>5 DEF In
  <2>6. CASE l # k
    <3>1. k < run[t].upto /\ l \in (k + 1)..run[t].upto
      BY <1>1, <2>4, <2>6
    <3> QED BY <1>3, <2>4, <3>1 DEF Overtaken, Subject
  <2> QED BY <2>5, <2>6
<1> QED BY <1>1, <1>2, <1>3

LEMMA ActIsAction ==
    ASSUME NEW type \in ActionTypes, NEW k \in Nat
    PROVE  /\ Act(type, k) \in ActionType
           /\ Act(type, k).type = type /\ Act(type, k).item = k
           /\ Act(type, k) = [type |-> type, item |-> k]
BY DEF Act, ActionType

LEMMA AtMostOne ==
    ASSUME NEW type \in ActionTypes, NEW k \in Nat, NEW s, s = <<Act(type, k)>> \/ s = <<>>
    PROVE  /\ s \in Seq(ActionType) /\ Distinct(s)
           /\ \A x : In(x, s) => x = Act(type, k)
           /\ s = <<Act(type, k)>> => In(Act(type, k), s)
<1>1. CASE s = <<Act(type, k)>>
  BY <1>1, ActIsAction, OneElement
<1>2. CASE s = <<>>
  <2>1. Distinct(s) /\ \A x : ~In(x, s)
    BY <1>2, EmptySequence
  <2>2. s \in Seq(ActionType) /\ s # <<Act(type, k)>>
    BY <1>2
  <2> QED BY <2>1, <2>2
<1> QED BY <1>1, <1>2

\* Two actions of different types for one item.
LEMMA TwoTypes ==
    ASSUME NEW k \in Nat, NEW t1 \in ActionTypes, NEW t2 \in ActionTypes, t1 # t2,
           NEW a, a = <<Act(t1, k)>> \/ a = <<>>, NEW b, b = <<Act(t2, k)>> \/ b = <<>>
    PROVE  /\ a \o b \in Seq(ActionType) /\ Distinct(a \o b)
           /\ \A x : In(x, a \o b) => x = Act(t1, k) \/ x = Act(t2, k)
           /\ a = <<Act(t1, k)>> => In(Act(t1, k), a \o b)
           /\ b = <<Act(t2, k)>> => In(Act(t2, k), a \o b)
<1>1. /\ a \in Seq(ActionType) /\ Distinct(a) /\ \A x : In(x, a) => x = Act(t1, k)
  BY AtMostOne
<1>2. a = <<Act(t1, k)>> => In(Act(t1, k), a)
  BY AtMostOne
<1>3. /\ b \in Seq(ActionType) /\ Distinct(b) /\ \A x : In(x, b) => x = Act(t2, k)
  BY AtMostOne
<1>4. b = <<Act(t2, k)>> => In(Act(t2, k), b)
  BY AtMostOne
<1>5. Act(t1, k) # Act(t2, k)
  BY ActIsAction
<1>6. /\ a \o b \in Seq(ActionType) /\ \A x : In(x, a \o b) <=> In(x, a) \/ In(x, b)
  BY <1>1, <1>3, ConcatElements
<1>7. Distinct(a \o b)
  <2>1. \A x : ~(In(x, a) /\ In(x, b))
    BY <1>1, <1>3, <1>5
  <2> QED BY <1>1, <1>3, <2>1, ConcatElements
<1> QED BY <1>1, <1>2, <1>3, <1>4, <1>6, <1>7

LEMMA SiloActionsOK ==
    ASSUME NEW k \in Nat
    PROVE  /\ SiloActions(k) \in Seq(ActionType) /\ Distinct(SiloActions(k))
           /\ \A x : In(x, SiloActions(k)) => x.item = k /\ x.type \in SiloTypes
           /\ items[k].temp_c > 32 \/ items[k].humidity_pct > 70 =>
                 In(Act("alert_quality_degradation", k), SiloActions(k))
<1>1. PICK a, b, c :
          /\ a = Only(items[k].temp_c > 32 \/ items[k].humidity_pct > 70,
                      "alert_quality_degradation", k)
          /\ b = Only(items[k].fill_pct < 10, "reorder_grain", k)
          /\ c = Only(items[k].fill_pct > 85, "rotate_stock", k)
  OBVIOUS
<1>2. /\ a = <<Act("alert_quality_degradation", k)>> \/ a = <<>>
      /\ items[k].temp_c > 32 \/ items[k].humidity_pct > 70 =>
            a = <<Act("alert_quality_degradation", k)>>
      /\ b = <<Act("reorder_grain", k)>> \/ b = <<>>
      /\ c = <<Act("rotate_stock", k)>> \/ c = <<>>
  BY <1>1 DEF Only
<1>3. SiloActions(k) = (a \o b) \o c
  BY <1>1 DEF SiloActions
<1>4. /\ a \o b \in Seq(ActionType) /\ Distinct(a \o b)
      /\ \A x : In(x, a \o b) =>
            x = Act("alert_quality_degradation", k) \/ x = Act("reorder_grain", k)
  BY <1>2, TwoTypes DEF ActionTypes, SiloTypes, DetectionTypes
<1>5. a = <<Act("alert_quality_degradation", k)>> =>
          In(Act("alert_quality_degradation", k), a \o b)
  BY <1>2, TwoTypes DEF ActionTypes, SiloTypes, DetectionTypes
<1>6. c \in Seq(ActionType) /\ Distinct(c) /\ \A x : In(x, c) => x = Act("rotate_stock", k)
  BY <1>2, AtMostOne DEF ActionTypes, SiloTypes
<1>7. \A x : In(x, (a \o b) \o c) <=> In(x, a \o b) \/ In(x, c)
  BY <1>4, <1>6, ConcatElements
<1>8. (a \o b) \o c \in Seq(ActionType) /\ Distinct((a \o b) \o c)
  <2>1. \A x : ~(In(x, a \o b) /\ In(x, c))
    BY <1>4, <1>6, ActIsAction DEF ActionTypes, SiloTypes
  <2> QED BY <1>4, <1>6, <2>1, ConcatElements
<1>9. \A type \in SiloTypes : Act(type, k).item = k /\ Act(type, k).type \in SiloTypes
  BY ActIsAction DEF ActionTypes
<1>10. ASSUME NEW x, In(x, SiloActions(k)) PROVE x.item = k /\ x.type \in SiloTypes
  <2>1. \E type \in SiloTypes : x = Act(type, k)
    BY <1>3, <1>4, <1>6, <1>7, <1>10 DEF SiloTypes
  <2> QED BY <1>9, <2>1
<1> QED BY <1>2, <1>3, <1>5, <1>7, <1>8, <1>10

LEMMA BatchActionsOK ==
    ASSUME NEW k \in Nat
    PROVE  /\ BatchActions(k) \in Seq(ActionType) /\ Distinct(BatchActions(k))
           /\ \A x : In(x, BatchActions(k)) => x.item = k /\ x.type \in BatchTypes
           /\ Efficiency(items[k]) < TargetEfficiency =>
                 In(Act("recommend_process_adjustment", k), BatchActions(k))
           /\ In(Act("file_efficiency_report", k), BatchActions(k))
<1>1. PICK a, b :
          /\ a = Only(Efficiency(items[k]) < TargetEfficiency, "recommend_process_adjustment", k)
          /\ b = <<Act("file_efficiency_report", k)>>
  OBVIOUS
<1>2. /\ a = <<Act("recommend_process_adjustment", k)>> \/ a = <<>>
      /\ Efficiency(items[k]) < TargetEfficiency =>
            a = <<Act("recommend_process_adjustment", k)>>
      /\ b = <<Act("file_efficiency_report", k)>> \/ b = <<>>
  BY <1>1 DEF Only
<1>3. BatchActions(k) = a \o b
  BY <1>1 DEF BatchActions
<1>4. /\ a \o b \in Seq(ActionType) /\ Distinct(a \o b)
      /\ \A x : In(x, a \o b) =>
            x = Act("recommend_process_adjustment", k) \/ x = Act("file_efficiency_report", k)
  BY <1>2, TwoTypes DEF ActionTypes, BatchTypes
<1>5. /\ a = <<Act("recommend_process_adjustment", k)>> =>
            In(Act("recommend_process_adjustment", k), a \o b)
      /\ In(Act("file_efficiency_report", k), a \o b)
  BY <1>1, <1>2, TwoTypes DEF ActionTypes, BatchTypes
<1>6. \A type \in BatchTypes : Act(type, k).item = k /\ Act(type, k).type \in BatchTypes
  BY ActIsAction DEF ActionTypes
<1>7. ASSUME NEW x, In(x, BatchActions(k)) PROVE x.item = k /\ x.type \in BatchTypes
  <2>1. \E type \in BatchTypes : x = Act(type, k)
    BY <1>3, <1>4, <1>7 DEF BatchTypes
  <2> QED BY <1>6, <2>1
<1> QED BY <1>2, <1>3, <1>4, <1>5, <1>7

LEMMA DetectionActionsOK ==
    ASSUME NEW k \in Nat, items[k] \in Detections
    PROVE  /\ DetectionActions(k) \in Seq(ActionType) /\ Distinct(DetectionActions(k))
           /\ \A x : In(x, DetectionActions(k)) => x.item = k /\ x.type \in DetectionTypes
           /\ items[k].confidence >= 65 /\ items[k].label = "person" =>
                 In(Act("flag_intrusion", k), DetectionActions(k))
           /\ items[k].confidence >= 65 /\ items[k].label # "person" =>
                 In(Act("flag_defect", k), DetectionActions(k))
<1> DEFINE sure == items[k].confidence >= 65
           person == items[k].label = "person"
<1>1. PICK a, b :
          /\ a = Only(sure /\ person, "flag_intrusion", k)
          /\ b = Only(sure /\ ~person /\ items[k].label \in {"flour_bag", "defect", "object"},
                      "flag_defect", k)
  OBVIOUS
<1>2. /\ a = <<Act("flag_intrusion", k)>> \/ a = <<>>
      /\ sure /\ person => a = <<Act("flag_intrusion", k)>>
      /\ b = <<Act("flag_defect", k)>> \/ b = <<>>
  BY <1>1 DEF Only
<1>3. sure /\ ~person => b = <<Act("flag_defect", k)>>
  <2>1. ~person => items[k].label \in {"flour_bag", "defect", "object"}
    BY DEF Detections
  <2> QED BY <1>1, <2>1 DEF Only
<1>4. DetectionActions(k) = a \o b
  BY <1>1 DEF DetectionActions
<1>5. /\ a \o b \in Seq(ActionType) /\ Distinct(a \o b)
      /\ \A x : In(x, a \o b) => x = Act("flag_intrusion", k) \/ x = Act("flag_defect", k)
  BY <1>2, TwoTypes DEF ActionTypes, SiloTypes, DetectionTypes
<1>6. /\ a = <<Act("flag_intrusion", k)>> => In(Act("flag_intrusion", k), a \o b)
      /\ b = <<Act("flag_defect", k)>> => In(Act("flag_defect", k), a \o b)
  BY <1>2, TwoTypes DEF ActionTypes, SiloTypes, DetectionTypes
<1>7. \A type \in DetectionTypes : Act(type, k).item = k /\ Act(type, k).type \in DetectionTypes
  BY ActIsAction DEF ActionTypes
<1>8. ASSUME NEW x, In(x, DetectionActions(k)) PROVE x.item = k /\ x.type \in DetectionTypes
  <2>1. \E type \in DetectionTypes : x = Act(type, k)
    BY <1>4, <1>5, <1>8 DEF DetectionTypes
  <2> QED BY <1>7, <2>1
<1> QED BY <1>2, <1>3, <1>4, <1>5, <1>6, <1>8

LEMMA ThinkSiloIInv ==
    ASSUME IInv, NEW t \in Threads, ThinkSilo(t)
    PROVE  IInv'
<1>1. PICK found, seqs, each, plan :
          /\ found = run[t].found
          /\ seqs = [i \in DOMAIN found |-> SiloActions(found[i])]
          /\ each = FlattenSeq(seqs)
          /\ plan = each \o <<Act("audit_snapshot", 0)>>
  OBVIOUS
<1>2. run[t].pc = "observe" /\ run[t].todo = <<>> /\ agent = "silo" /\ Decide(t, plan)
  BY <1>1 DEF ThinkSilo, Observed, ForEach
<1>3. found \in Seq(Nat) /\ FoundOK(t) /\ run[t].due \subseteq 1..Len(items)
  BY <1>1, <1>2 DEF IInv, TypesOK, Runs, RunOK
<1>4. Distinct(found) /\ \A i \in 1..Len(found) : found[i] \in 1..Len(items)
  BY <1>1, <1>3 DEF FoundOK
<1>5. /\ seqs \in Seq(Seq(ActionType)) /\ Len(seqs) = Len(found)
      /\ \A i \in 1..Len(found) : seqs[i] = SiloActions(found[i])
      /\ \A i \in 1..Len(found) : Distinct(seqs[i])
      /\ \A i \in 1..Len(found) : \A x : In(x, seqs[i]) => x.item = found[i] /\ x.type \in SiloTypes
  <2>1. DOMAIN found = 1..Len(found) /\ Len(found) \in Nat /\ \A i \in 1..Len(found) : found[i] \in Nat
    BY <1>3
  <2>2. \A i \in 1..Len(found) : SiloActions(found[i]) \in Seq(ActionType)
    BY <2>1, SiloActionsOK
  <2>3. \A i \in 1..Len(found) : /\ Distinct(SiloActions(found[i]))
                                 /\ \A x : In(x, SiloActions(found[i])) =>
                                        x.item = found[i] /\ x.type \in SiloTypes
    BY <2>1, SiloActionsOK
  <2>4. seqs = [i \in 1..Len(found) |-> SiloActions(found[i])]
    BY <1>1, <2>1
  <2> QED BY <2>1, <2>2, <2>3, <2>4
<1>6. /\ each \in Seq(ActionType) /\ Distinct(each)
      /\ \A x : In(x, each) <=> \E i \in 1..Len(found) : In(x, seqs[i])
  <2>1. \A i \in 1..Len(found) : /\ Distinct(seqs[i])
                                 /\ \A x : In(x, seqs[i]) => x.item = found[i]
    BY <1>5
  <2>2. seqs \in Seq(Seq(ActionType)) /\ Len(seqs) = Len(found)
    BY <1>5
  <2>3. found \in Seq(Nat) /\ Distinct(found)
    BY <1>3, <1>4
  <2>4. /\ FlattenSeq(seqs) \in Seq(ActionType) /\ Distinct(FlattenSeq(seqs))
        /\ \A x : In(x, FlattenSeq(seqs)) <=> \E i \in 1..Len(found) : In(x, seqs[i])
    BY <2>1, <2>2, <2>3, PlanFor
  <2> QED BY <1>1, <2>4
<1>7. PICK last : last = Act("audit_snapshot", 0)
  OBVIOUS
<1>8. last \in ActionType /\ last.type = "audit_snapshot" /\ last.item = 0
  BY <1>7, ActIsAction DEF ActionTypes
<1>9. <<last>> \in Seq(ActionType) /\ Distinct(<<last>>) /\ \A x : In(x, <<last>>) <=> x = last
  BY <1>8, OneElement
<1>10. /\ plan \in Seq(ActionType) /\ \A x : In(x, plan) <=> In(x, each) \/ x = last
  BY <1>1, <1>6, <1>7, <1>9, ConcatElements
<1>11. \A x : In(x, each) => x.type \in SiloTypes
  BY <1>5, <1>6
<1>12. Distinct(plan)
  <2>1. \A x : ~(In(x, each) /\ In(x, <<last>>))
    BY <1>8, <1>9, <1>11 DEF SiloTypes
  <2> QED BY <1>1, <1>6, <1>7, <1>9, <2>1, ConcatElements
<1>14. ASSUME NEW k \in run[t].due, ~Overtaken(k, run[t].upto), NEW type \in DueRows(items[k])
       PROVE  In([type |-> type, item |-> k], plan)
  <2>1. PICK i \in 1..Len(found) : found[i] = k
    BY <1>1, <1>2, <1>14, FoundOrOvertaken DEF In
  <2>2. /\ type = "alert_quality_degradation" /\ k \in Nat
        /\ items[k].temp_c > 32 \/ items[k].humidity_pct > 70
    BY <1>2, <1>3, <1>14 DEF DueRows
  <2>3. In(Act("alert_quality_degradation", k), SiloActions(k))
    BY <2>2, SiloActionsOK
  <2>4. In(Act("alert_quality_degradation", k), plan)
    BY <1>5, <1>6, <1>10, <2>1, <2>3
  <2> QED BY <2>2, <2>4 DEF Act
<1> QED BY <1>2, <1>10, <1>12, <1>14, Decides

LEMMA ThinkBatchIInv ==
    ASSUME IInv, NEW t \in Threads, ThinkBatch(t)
    PROVE  IInv'
<1>1. PICK found, seqs, plan :
          /\ found = run[t].found
          /\ seqs = [i \in DOMAIN found |-> BatchActions(found[i])]
          /\ plan = FlattenSeq(seqs)
  OBVIOUS
<1>2. run[t].pc = "observe" /\ run[t].todo = <<>> /\ agent = "waste" /\ Decide(t, plan)
  BY <1>1 DEF ThinkBatch, Observed, ForEach
<1>3. found \in Seq(Nat) /\ FoundOK(t) /\ run[t].due \subseteq 1..Len(items)
  BY <1>1, <1>2 DEF IInv, TypesOK, Runs, RunOK
<1>4. Distinct(found)
  BY <1>1, <1>3 DEF FoundOK
<1>5. /\ seqs \in Seq(Seq(ActionType)) /\ Len(seqs) = Len(found)
      /\ \A i \in 1..Len(found) : seqs[i] = BatchActions(found[i])
      /\ \A i \in 1..Len(found) : Distinct(seqs[i])
      /\ \A i \in 1..Len(found) : \A x : In(x, seqs[i]) => x.item = found[i] /\ x.type \in BatchTypes
  <2>1. DOMAIN found = 1..Len(found) /\ Len(found) \in Nat /\ \A i \in 1..Len(found) : found[i] \in Nat
    BY <1>3
  <2>2. \A i \in 1..Len(found) : BatchActions(found[i]) \in Seq(ActionType)
    BY <2>1, BatchActionsOK
  <2>3. \A i \in 1..Len(found) : /\ Distinct(BatchActions(found[i]))
                                 /\ \A x : In(x, BatchActions(found[i])) =>
                                        x.item = found[i] /\ x.type \in BatchTypes
    BY <2>1, BatchActionsOK
  <2>4. seqs = [i \in 1..Len(found) |-> BatchActions(found[i])]
    BY <1>1, <2>1
  <2> QED BY <2>1, <2>2, <2>3, <2>4
<1>6. /\ plan \in Seq(ActionType) /\ Distinct(plan)
      /\ \A x : In(x, plan) <=> \E i \in 1..Len(found) : In(x, seqs[i])
  <2>1. \A i \in 1..Len(found) : /\ Distinct(seqs[i])
                                 /\ \A x : In(x, seqs[i]) => x.item = found[i]
    BY <1>5
  <2>2. seqs \in Seq(Seq(ActionType)) /\ Len(seqs) = Len(found)
    BY <1>5
  <2>3. found \in Seq(Nat) /\ Distinct(found)
    BY <1>3, <1>4
  <2>4. /\ FlattenSeq(seqs) \in Seq(ActionType) /\ Distinct(FlattenSeq(seqs))
        /\ \A x : In(x, FlattenSeq(seqs)) <=> \E i \in 1..Len(found) : In(x, seqs[i])
    BY <2>1, <2>2, <2>3, PlanFor
  <2> QED BY <1>1, <2>4
<1>8. ASSUME NEW k \in run[t].due, ~Overtaken(k, run[t].upto), NEW type \in DueRows(items[k])
      PROVE  In([type |-> type, item |-> k], plan)
  <2>1. PICK i \in 1..Len(found) : found[i] = k
    BY <1>1, <1>2, <1>8, FoundOrOvertaken DEF In
  <2>2. /\ type \in {"file_efficiency_report", "recommend_process_adjustment"} /\ k \in Nat
        /\ type = "file_efficiency_report" \/ Efficiency(items[k]) < TargetEfficiency
    BY <1>2, <1>3, <1>8 DEF DueRows
  <2>3. In(Act(type, k), BatchActions(k))
    BY <2>2, BatchActionsOK
  <2>4. In(Act(type, k), plan)
    BY <1>5, <1>6, <2>1, <2>3
  <2> QED BY <2>4 DEF Act
<1> QED BY <1>2, <1>6, <1>8, Decides

LEMMA ThinkDetectionsIInv ==
    ASSUME IInv, NEW t \in Threads, ThinkDetections(t)
    PROVE  IInv'
<1>1. PICK found, seqs, plan :
          /\ found = run[t].found
          /\ seqs = [i \in DOMAIN found |-> DetectionActions(found[i])]
          /\ plan = FlattenSeq(seqs)
  OBVIOUS
<1>2. run[t].pc = "observe" /\ run[t].todo = <<>> /\ agent = "vision" /\ Decide(t, plan)
  BY <1>1 DEF ThinkDetections, Observed, ForEach
<1>3. found \in Seq(Nat) /\ FoundOK(t) /\ run[t].due \subseteq 1..Len(items)
      /\ items \in Seq(Detections)
  BY <1>1, <1>2 DEF IInv, TypesOK, Runs, RunOK, Items
<1>4. Distinct(found) /\ \A i \in 1..Len(found) : items[found[i]] \in Detections
  BY <1>1, <1>3 DEF FoundOK
<1>5. /\ seqs \in Seq(Seq(ActionType)) /\ Len(seqs) = Len(found)
      /\ \A i \in 1..Len(found) : seqs[i] = DetectionActions(found[i])
      /\ \A i \in 1..Len(found) : Distinct(seqs[i])
      /\ \A i \in 1..Len(found) :
            \A x : In(x, seqs[i]) => x.item = found[i] /\ x.type \in DetectionTypes
  <2>1. DOMAIN found = 1..Len(found) /\ Len(found) \in Nat /\ \A i \in 1..Len(found) : found[i] \in Nat
    BY <1>3
  <2>2. \A i \in 1..Len(found) : DetectionActions(found[i]) \in Seq(ActionType)
    BY <1>4, <2>1, DetectionActionsOK
  <2>3. \A i \in 1..Len(found) : /\ Distinct(DetectionActions(found[i]))
                                 /\ \A x : In(x, DetectionActions(found[i])) =>
                                        x.item = found[i] /\ x.type \in DetectionTypes
    BY <1>4, <2>1, DetectionActionsOK
  <2>4. seqs = [i \in 1..Len(found) |-> DetectionActions(found[i])]
    BY <1>1, <2>1
  <2> QED BY <2>1, <2>2, <2>3, <2>4
<1>6. /\ plan \in Seq(ActionType) /\ Distinct(plan)
      /\ \A x : In(x, plan) <=> \E i \in 1..Len(found) : In(x, seqs[i])
  <2>1. \A i \in 1..Len(found) : /\ Distinct(seqs[i])
                                 /\ \A x : In(x, seqs[i]) => x.item = found[i]
    BY <1>5
  <2>2. seqs \in Seq(Seq(ActionType)) /\ Len(seqs) = Len(found)
    BY <1>5
  <2>3. found \in Seq(Nat) /\ Distinct(found)
    BY <1>3, <1>4
  <2>4. /\ FlattenSeq(seqs) \in Seq(ActionType) /\ Distinct(FlattenSeq(seqs))
        /\ \A x : In(x, FlattenSeq(seqs)) <=> \E i \in 1..Len(found) : In(x, seqs[i])
    BY <2>1, <2>2, <2>3, PlanFor
  <2> QED BY <1>1, <2>4
<1>8. ASSUME NEW k \in run[t].due, ~Overtaken(k, run[t].upto), NEW type \in DueRows(items[k])
      PROVE  In([type |-> type, item |-> k], plan)
  <2>1. PICK i \in 1..Len(found) : found[i] = k
    BY <1>1, <1>2, <1>8, FoundOrOvertaken DEF In
  <2>2. /\ type \in {"flag_intrusion", "flag_defect"} /\ k \in Nat /\ items[k] \in Detections
        /\ items[k].confidence >= 65
        /\ type = "flag_intrusion" <=> items[k].label = "person"
    BY <1>2, <1>3, <1>8 DEF DueRows
  <2>3. In(Act(type, k), DetectionActions(k))
    BY <2>2, DetectionActionsOK
  <2>4. In(Act(type, k), plan)
    BY <1>5, <1>6, <2>1, <2>3
  <2> QED BY <2>4 DEF Act
<1> QED BY <1>2, <1>6, <1>8, Decides

\* No alert was found: the heartbeat is the whole plan, and reports none.
LEMMA ThinkAlertsIInv ==
    ASSUME IInv, NEW t \in Threads, ThinkAlerts(t)
    PROVE  IInv'
<1>1. PICK beat, plan : beat = Act("audit_security_log", 0) /\ plan = <<beat>>
  OBVIOUS
<1>2. run[t].pc = "observe" /\ agent = "security"
  BY DEF ThinkAlerts, Observed
<1>3. run[t].found = <<>>
  BY <1>2 DEF IInv, RunOK, FoundOK
<1>4. Decide(t, plan)
  <2>1. ForEach(<<>>, AlertActions) = <<>>
    BY DEF ForEach, FlattenSeq
  <2>2. Len(<<>>) = 0 /\ <<>> \o <<beat>> = <<beat>>
    <3>1. ASSUME NEW S, NEW x \in S PROVE <<>> \o <<x>> = <<x>>
      OBVIOUS
    <3> QED BY <3>1
  <2> QED BY <1>1, <1>3, <2>1, <2>2 DEF ThinkAlerts
<1>5. beat \in ActionType /\ beat.type = "audit_security_log" /\ beat.item = 0
  BY <1>1, ActIsAction DEF ActionTypes
<1>6. plan \in Seq(ActionType) /\ Distinct(plan) /\ \A x : In(x, plan) <=> x = beat
  BY <1>1, <1>5, OneElement
<1>8. \A k : DueRows(items[k]) = {}
  BY <1>2 DEF DueRows
<1> QED BY <1>2, <1>4, <1>6, <1>8, Decides

-----------------------------------------------------------------------------
(* perform_action()                                                        *)

\* A run at an action of its plan.
LEMMA AtAction ==
    ASSUME IInv, NEW t \in Threads, Acting(t)
    PROVE  /\ run[t] \in Runs /\ run[t].plan \in Seq(ActionType) /\ run[t].plan # <<>>
           /\ Current(t) \in ActionType /\ In(Current(t), run[t].plan)
           /\ ~StoredBy(run[t].id, Current(t).type, Current(t).item)
           /\ PlanOK(t) /\ DuePlanned(t)
           /\ run[t].due \subseteq 1..Len(items) /\ run[t].upto <= Len(items)
           /\ run[t].id \in Nat /\ run[t].upto \in Nat /\ run[t].id < nextRun
<1>1. /\ run[t] \in Runs /\ run[t].plan \in Seq(ActionType) /\ run[t].plan # <<>>
      /\ PlanOK(t) /\ DuePlanned(t)
      /\ run[t].due \subseteq 1..Len(items) /\ run[t].upto <= Len(items)
      /\ run[t].id \in Nat /\ run[t].upto \in Nat /\ run[t].id < nextRun
  BY DEF IInv, TypesOK, RunOK, IdsOK, Acting, Runs
<1>2. /\ Current(t) \in ActionType /\ Current(t) = run[t].plan[1] /\ 1 \in 1..Len(run[t].plan)
  BY <1>1, HeadAndTail DEF Current
<1>3. /\ In(Current(t), run[t].plan)
      /\ ~StoredBy(run[t].id, Current(t).type, Current(t).item)
  BY <1>1, <1>2 DEF In, PlanOK
<1> QED BY <1>1, <1>2, <1>3

LEMMA NextFields ==
    ASSUME IInv, NEW t \in Threads, Acting(t), NextAction(t)
    PROVE  /\ run' = [run EXCEPT ![t] = run'[t]] /\ run'[t] \in Runs
           /\ run'[t].pc = "act" /\ run'[t].id = run[t].id /\ run'[t].due = run[t].due
           /\ run'[t].upto = run[t].upto /\ run'[t].plan = Tail(run[t].plan)
           /\ run'[t].excused = run[t].excused
<1>1. run[t] \in Runs /\ run \in [Threads -> Runs] /\ run[t].pc = "act"
  BY AtAction DEF IInv, TypesOK, Acting
<1>2. PICK plan \in Seq(ActionType) : plan = Tail(run[t].plan)
  BY AtAction, HeadAndTail
<1> DEFINE new == [run[t] EXCEPT !.plan = plan]
<1>3. run' = [run EXCEPT ![t] = new]
  BY <1>2 DEF NextAction
<1>4. new \in Runs
  BY <1>1, <1>2 DEF Runs
<1>5. /\ new.pc = "act" /\ new.id = run[t].id /\ new.due = run[t].due
      /\ new.upto = run[t].upto /\ new.plan = plan /\ new.excused = run[t].excused
  BY <1>1 DEF Runs
<1> HIDE DEF new
<1> QED BY <1>1, <1>2, <1>3, <1>4, <1>5

LEMMA ExcuseFields ==
    ASSUME IInv, NEW t \in Threads, Acting(t), Excuse(t)
    PROVE  /\ run' = [run EXCEPT ![t] = run'[t]] /\ run'[t] \in Runs
           /\ run'[t].pc = "act" /\ run'[t].id = run[t].id /\ run'[t].due = run[t].due
           /\ run'[t].upto = run[t].upto /\ run'[t].plan = Tail(run[t].plan)
           /\ run'[t].excused = run[t].excused \cup {<<Current(t).type, Current(t).item>>}
<1>1. run[t] \in Runs /\ run \in [Threads -> Runs] /\ run[t].pc = "act"
  BY AtAction DEF IInv, TypesOK, Acting
<1>2. PICK plan \in Seq(ActionType) : plan = Tail(run[t].plan)
  BY AtAction, HeadAndTail
<1>3. PICK excused : excused = run[t].excused \cup {<<Current(t).type, Current(t).item>>}
  OBVIOUS
<1>4. excused \in SUBSET (ActionTypes \X Nat)
  <2>1. Current(t).type \in ActionTypes /\ Current(t).item \in Nat
    BY AtAction DEF ActionType
  <2>2. run[t].excused \in SUBSET (ActionTypes \X Nat)
    BY <1>1 DEF Runs
  <2> QED BY <1>3, <2>1, <2>2
<1> DEFINE new == [run[t] EXCEPT !.plan = plan, !.excused = excused]
<1>5. run' = [run EXCEPT ![t] = new]
  BY <1>2, <1>3 DEF Excuse
<1>6. new \in Runs
  BY <1>1, <1>2, <1>4 DEF Runs
<1>7. /\ new.pc = "act" /\ new.id = run[t].id /\ new.due = run[t].due
      /\ new.upto = run[t].upto /\ new.plan = plan /\ new.excused = excused
  BY <1>1 DEF Runs
<1> HIDE DEF new
<1> QED BY <1>1, <1>2, <1>3, <1>5, <1>6, <1>7

LEMMA DueHaveRows ==
    ASSUME NEW item, NEW type \in DueRows(item)
    PROVE  HasRow(type)
BY DEF DueRows, HasRow

\* The run goes on to its next action: what it has done is excused, stored or
\* of a kind that has no row.
LEMMA Performed ==
    ASSUME IInv, NEW t \in Threads, Acting(t), Grows,
           run'[t] \in Runs, run'[t].pc = "act", run'[t].id = run[t].id,
           run'[t].due = run[t].due, run'[t].upto = run[t].upto,
           run'[t].plan = Tail(run[t].plan), run[t].excused \subseteq run'[t].excused,
           \A row \in DOMAIN stored' \ DOMAIN stored :
               row = [run |-> run[t].id, type |-> Current(t).type, item |-> Current(t).item],
           \/ <<Current(t).type, Current(t).item>> \in run'[t].excused
           \/ [run |-> run[t].id, type |-> Current(t).type, item |-> Current(t).item]
                 \in DOMAIN stored'
           \/ ~HasRow(Current(t).type)
    PROVE  RunOK(t)'
<1>1. PICK id, plan, tail, action, upto, due :
          /\ id = run[t].id /\ plan = run[t].plan /\ tail = Tail(plan) /\ action = Current(t)
          /\ upto = run[t].upto /\ due = run[t].due
  OBVIOUS
<1>2. /\ plan \in Seq(ActionType) /\ plan # <<>> /\ action = Head(plan) /\ action \in ActionType
      /\ PlanOK(t) /\ DuePlanned(t) /\ due \subseteq 1..Len(items) /\ upto <= Len(items)
      /\ upto \in Nat
  BY <1>1, AtAction DEF Current
<1>3. /\ tail \in Seq(ActionType)
      /\ \A x : In(x, plan) <=> x = action \/ In(x, tail)
      /\ \A i \in 1..Len(tail) : \E j \in 1..Len(plan) : tail[i] = plan[j]
      /\ Distinct(plan) => Distinct(tail) /\ ~In(action, tail)
  BY <1>1, <1>2, HeadAndTail
<1>4. /\ Distinct(plan)
      /\ \A i \in 1..Len(plan) : ~StoredBy(id, plan[i].type, plan[i].item)
  BY <1>1, <1>2 DEF PlanOK
<1>5. PlanOK(t)'
  <2>1. ASSUME NEW i \in 1..Len(tail)
        PROVE  [run |-> id, type |-> tail[i].type, item |-> tail[i].item] \notin DOMAIN stored'
    <3>1. ~StoredBy(id, tail[i].type, tail[i].item)
      BY <1>3, <1>4
    <3>2. tail[i] \in ActionType /\ tail[i] # action
      BY <1>3, <1>4 DEF In
    <3>3. ~(tail[i].type = action.type /\ tail[i].item = action.item)
      <4>1. \A x, y \in ActionType : x.type = y.type /\ x.item = y.item => x = y
        BY DEF ActionType
      <4> QED BY <1>2, <3>2, <4>1
    <3>4. [run |-> id, type |-> tail[i].type, item |-> tail[i].item]
             # [run |-> id, type |-> action.type, item |-> action.item]
      BY <3>3
    <3> QED BY <1>1, <3>1, <3>4 DEF StoredBy, BagIn, BagToSet
  <2>2. Distinct(tail) /\ run'[t].plan = tail /\ run'[t].id = id
    BY <1>1, <1>3, <1>4
  <2> QED BY <2>1, <2>2 DEF PlanOK, StoredBy, BagIn, BagToSet
<1>6. DuePlanned(t)'
  <2>1. ASSUME NEW k \in due
        PROVE  \/ Overtaken(k, upto)'
               \/ \A type \in DueRows(items[k])' :
                     \/ <<type, k>> \in run'[t].excused
                     \/ StoredBy(id, type, k)'
                     \/ In([type |-> type, item |-> k], tail)
    <3>1. /\ DueRows(items[k])' = DueRows(items[k])
          /\ Overtaken(k, upto) => Overtaken(k, upto)'
          /\ \A type : StoredBy(id, type, k) => StoredBy(id, type, k)'
      BY <1>2, Kept DEF IInv
    <3>2. CASE Overtaken(k, upto)
      BY <3>1, <3>2
    <3>3. ASSUME ~Overtaken(k, upto), NEW type \in DueRows(items[k])
          PROVE  \/ <<type, k>> \in run'[t].excused
                 \/ StoredBy(id, type, k)'
                 \/ In([type |-> type, item |-> k], tail)
      <4>1. \/ <<type, k>> \in run[t].excused
            \/ StoredBy(id, type, k)
            \/ In([type |-> type, item |-> k], plan)
        BY <1>1, <1>2, <3>3 DEF DuePlanned, ToDo
      <4>2. CASE [type |-> type, item |-> k] = action
        <5>1. action.type = type /\ action.item = k /\ HasRow(type)
          BY <3>3, <4>2, DueHaveRows
        <5> QED BY <1>1, <5>1 DEF StoredBy, BagIn, BagToSet
      <4> QED BY <1>3, <3>1, <4>1, <4>2
    <3> QED BY <3>1, <3>2, <3>3
  <2>2. /\ run'[t].due = due /\ run'[t].upto = upto /\ run'[t].plan = tail
        /\ run'[t].id = id
    BY <1>1
  <2> QED BY <2>1, <2>2 DEF DuePlanned, ToDo, Overtaken, StoredBy, BagIn, BagToSet
<1>7. run'[t].due \subseteq 1..Len(items') /\ run'[t].upto <= Len(items')
  <2>1. Len(items) \in Nat /\ Len(items') \in Nat /\ Len(items) <= Len(items')
    BY DEF IInv, TypesOK, Grows
  <2> QED BY <1>1, <1>2, <2>1
<1> QED BY <1>5, <1>6, <1>7 DEF RunOK

LEMMA ExcuseIInv ==
    ASSUME IInv, NEW t \in Threads, Acting(t), Excuse(t)
    PROVE  IInv'
<1>1. UNCHANGED <<agent, items, nextRun, stored, finished>>
  BY DEF Excuse
<1>2. Grows
  BY <1>1 DEF Grows, IInv, TypesOK
<1> HIDE DEF Excuse
<1>3. /\ run' = [run EXCEPT ![t] = run'[t]] /\ run'[t] \in Runs
      /\ run'[t].pc = "act" /\ run'[t].id = run[t].id /\ run'[t].due = run[t].due
      /\ run'[t].upto = run[t].upto /\ run'[t].plan = Tail(run[t].plan)
      /\ run'[t].excused = run[t].excused \cup {<<Current(t).type, Current(t).item>>}
  BY ExcuseFields
<1>4. DOMAIN stored' \ DOMAIN stored = {}
  BY <1>1
<1>5. RunOK(t)'
  BY <1>2, <1>3, <1>4, Performed
<1>6. run[t].pc # "idle"
  BY DEF Acting
<1> QED BY <1>1, <1>2, <1>3, <1>5, <1>6, OneRun

LEMMA StoreNothingIInv ==
    ASSUME IInv, NEW t \in Threads, StoreNothing(t)
    PROVE  IInv'
<1>1. /\ Acting(t) /\ NextAction(t) /\ ~HasRow(Current(t).type)
      /\ UNCHANGED <<agent, items, nextRun, stored, finished>>
  BY DEF StoreNothing
<1>2. Grows
  BY <1>1 DEF Grows, IInv, TypesOK
<1>3. /\ run' = [run EXCEPT ![t] = run'[t]] /\ run'[t] \in Runs
      /\ run'[t].pc = "act" /\ run'[t].id = run[t].id /\ run'[t].due = run[t].due
      /\ run'[t].upto = run[t].upto /\ run'[t].plan = Tail(run[t].plan)
      /\ run'[t].excused = run[t].excused
  BY <1>1, NextFields
<1>4. DOMAIN stored' \ DOMAIN stored = {}
  BY <1>1
<1>5. RunOK(t)'
  BY <1>1, <1>2, <1>3, <1>4, Performed
<1>6. run[t].pc # "idle"
  BY <1>1 DEF Acting
<1> QED BY <1>1, <1>2, <1>3, <1>5, <1>6, OneRun

LEMMA StoreIInv ==
    ASSUME IInv, NEW t \in Threads, Store(t)
    PROVE  IInv'
<1>1. /\ Acting(t) /\ NextAction(t) /\ stored' = stored (+) SetToBag({Row(t)})
      /\ UNCHANGED <<agent, items, nextRun, finished>>
  BY DEF Store
<1>2. PICK row, id, type, item :
          /\ id = run[t].id /\ type = Current(t).type /\ item = Current(t).item
          /\ row = [run |-> id, type |-> type, item |-> item]
  OBVIOUS
<1>3. row = Row(t)
  BY <1>2 DEF Row
<1>4. /\ type \in ActionTypes /\ item \in Nat /\ id \in Nat /\ id < nextRun
      /\ row \notin DOMAIN stored
  BY <1>1, <1>2, AtAction DEF ActionType, StoredBy, BagIn, BagToSet
<1>5. /\ DOMAIN stored' = DOMAIN stored \cup {row}
      /\ (\A r \in DOMAIN stored : stored[r] = 1) => \A r \in DOMAIN stored' : stored'[r] = 1
  <2>1. stored' = stored (+) SetToBag({row})
    BY <1>1, <1>3
  <2> QED BY <1>4, <2>1 DEF (+), SetToBag
<1>6. /\ TypesOK /\ IdsOK /\ StoredOK /\ FinishedOK /\ Items' = Items
      /\ \A u \in Threads : RunOK(u)
  BY <1>1 DEF IInv, Items
<1>7. Grows
  BY <1>1, <1>5, <1>6 DEF Grows, TypesOK
<1>8. /\ run' = [run EXCEPT ![t] = run'[t]] /\ run'[t] \in Runs
      /\ run'[t].pc = "act" /\ run'[t].id = run[t].id /\ run'[t].due = run[t].due
      /\ run'[t].upto = run[t].upto /\ run'[t].plan = Tail(run[t].plan)
      /\ run'[t].excused = run[t].excused
  BY <1>1, NextFields
<1>9. RunOK(t)'
  <2>1. \A r \in DOMAIN stored' \ DOMAIN stored :
            r = [run |-> run[t].id, type |-> Current(t).type, item |-> Current(t).item]
    BY <1>2, <1>5
  <2>2. [run |-> run[t].id, type |-> Current(t).type, item |-> Current(t).item] \in DOMAIN stored'
    BY <1>2, <1>5
  <2> QED BY <1>1, <1>7, <1>8, <2>1, <2>2, Performed
<1>10. run[t].pc # "idle" /\ \A u \in Threads \ {t} : run'[u] = run[u]
  BY <1>1, <1>6, <1>8 DEF Acting, TypesOK
<1>11. ASSUME NEW u \in Threads \ {t} PROVE RunOK(u)'
  <2>1. CASE run[u].pc = "idle"
    BY <1>10, <2>1 DEF RunOK
  <2>2. CASE run[u].pc # "idle"
    <3>1. row.run # run[u].id
      BY <1>2, <1>6, <1>10, <2>2 DEF IdsOK
    <3> QED BY <1>5, <1>6, <1>7, <1>10, <3>1, Unmoved
  <2> QED BY <2>1, <2>2
<1>12. TypesOK'
  BY <1>1, <1>6, <1>7, <1>8 DEF TypesOK, Grows
<1>13. IdsOK'
  BY <1>1, <1>6, <1>8, <1>10 DEF IdsOK
<1>14. StoredOK'
  <2>1. row \in RowType /\ row.run = id /\ row.type = type /\ row.item = item
    BY <1>2, <1>4 DEF RowType
  <2>2. \A r \in DOMAIN stored' : stored'[r] = 1
    BY <1>5, <1>6 DEF StoredOK
  <2>3. \A r \in DOMAIN stored' : r \in RowType /\ r.run < nextRun
    BY <1>4, <1>5, <1>6, <2>1 DEF StoredOK
  <2> QED BY <1>1, <2>2, <2>3 DEF StoredOK
<1>15. FinishedOK'
  BY <1>1, <1>6, <1>7, FinishedKept
<1> QED BY <1>9, <1>11, <1>12, <1>13, <1>14, <1>15 DEF IInv

\* A run is over, and has accounted for what was due.
LEMMA EndsIInv ==
    ASSUME IInv, NEW t \in Threads, Ends(t), run[t].pc # "idle",
           UNCHANGED <<agent, items, nextRun, stored>>,
           \A k \in run[t].due :
               \/ Overtaken(k, run[t].upto)
               \/ \A type \in DueRows(items[k]) :
                     <<type, k>> \in run[t].excused \/ StoredBy(run[t].id, type, k)
    PROVE  IInv'
<1>1. PICK f : f = [run |-> run[t].id, due |-> run[t].due, upto |-> run[t].upto,
                    excused |-> run[t].excused]
  OBVIOUS
<1>2. /\ finished' = finished \cup {f}
      /\ run' = [run EXCEPT ![t] = NoRun] /\ UNCHANGED <<agent, items, nextRun, stored>>
  BY <1>1 DEF Ends
<1>3. /\ TypesOK /\ IdsOK /\ StoredOK /\ FinishedOK /\ \A u \in Threads : RunOK(u)
      /\ run[t] \in Runs /\ run \in [Threads -> Runs]
  BY DEF IInv, TypesOK
<1>4. NoRun \in Runs /\ NoRun.pc = "idle"
  <2>1. <<>> \in Seq(SubjectNames) /\ <<>> \in Seq(Nat) /\ <<>> \in Seq(ActionType)
    OBVIOUS
  <2> QED BY <2>1 DEF NoRun, Runs
<1>5. Grows
  BY <1>2, <1>3 DEF Grows, TypesOK
<1>6. run'[t] = NoRun /\ \A u \in Threads \ {t} : run'[u] = run[u]
  BY <1>2, <1>3
<1>7. TypesOK'
  BY <1>2, <1>3, <1>4 DEF TypesOK, Items
<1>8. IdsOK'
  BY <1>2, <1>3, <1>4, <1>6 DEF IdsOK
<1>9. StoredOK'
  BY <1>2, <1>3 DEF StoredOK
<1>10. \A u \in Threads : RunOK(u)'
  <2>1. RunOK(t)'
    BY <1>4, <1>6 DEF RunOK
  <2> QED BY <1>2, <1>3, <1>5, <1>6, <2>1, Unmoved
<1>11. FinishedOK'
  <2>1. /\ f.run = run[t].id /\ f.due = run[t].due /\ f.upto = run[t].upto
        /\ f.excused = run[t].excused
    BY <1>1
  <2>2. f.due \subseteq 1..Len(items) /\ f.upto <= Len(items) /\ f.upto \in Nat
    BY <1>3, <2>1 DEF RunOK, Runs
  <2>3. \A k \in f.due :
            \/ Overtaken(k, f.upto)
            \/ \A type \in DueRows(items[k]) :
                  <<type, k>> \in f.excused \/ StoredBy(f.run, type, k)
    BY <2>1
  <2>4. \A g \in finished' :
            /\ g.due \subseteq 1..Len(items) /\ g.upto <= Len(items) /\ g.upto \in Nat
            /\ \A k \in g.due :
                  \/ Overtaken(k, g.upto)
                  \/ \A type \in DueRows(items[k]) :
                        <<type, k>> \in g.excused \/ StoredBy(g.run, type, k)
    BY <1>2, <1>3, <2>2, <2>3 DEF FinishedOK
  <2> QED BY <1>2, <2>4
          DEF FinishedOK, Overtaken, DueRows, Efficiency, StoredBy, BagIn, BagToSet
<1> QED BY <1>7, <1>8, <1>9, <1>10, <1>11 DEF IInv

LEMMA ReturnIInv ==
    ASSUME IInv, NEW t \in Threads, Return(t)
    PROVE  IInv'
<1>1. run[t].pc = "act" /\ run[t].plan = <<>> /\ Ends(t)
  BY DEF Return
<1>2. DuePlanned(t)
  BY <1>1 DEF IInv, RunOK
<1>3. \A type, k : ~ToDo(t, type, k)
  BY <1>1, EmptySequence DEF ToDo
<1>4. UNCHANGED <<agent, items, nextRun, stored>>
  BY DEF Return
<1> QED BY <1>1, <1>2, <1>3, <1>4, EndsIInv DEF DuePlanned

\* No row is due from the security agent.
LEMMA ObserveAlertsRaisesIInv ==
    ASSUME IInv, NEW t \in Threads, ObserveAlertsRaises(t)
    PROVE  IInv'
<1>1. /\ Ends(t) /\ run[t].pc # "idle" /\ agent = "security"
      /\ UNCHANGED <<agent, items, nextRun, stored>>
  BY DEF ObserveAlertsRaises, Looking
<1>2. \A k : DueRows(items[k]) = {}
  BY <1>1 DEF DueRows
<1> QED BY <1>1, <1>2, EndsIInv

-----------------------------------------------------------------------------
(* run_once is called, other steps, and the whole specification            *)

LEMMA SubjectsOK ==
    ASSUME TypesOK
    PROVE  /\ Subjects \in Seq(SubjectNames)
           /\ agent \in {"silo", "waste"} => Distinct(Subjects)
           /\ agent = "waste" => \A i \in 1..Len(Subjects) : Subjects[i] = agent
           /\ agent \in {"silo", "waste"} =>
                 \A k \in 1..Len(items) : In(Subject(k), Subjects)
<1>1. /\ SILOS \in [1..Len(SILOS) -> STRING] /\ Cameras \in [1..Len(Cameras) -> STRING]
      /\ Len(SILOS) \in Nat /\ Len(Cameras) \in Nat
  BY MonitorsAssumption
<1>2. SILOS \in Seq(SubjectNames) /\ Cameras \in Seq(SubjectNames)
  <2>1. /\ \A i \in 1..Len(SILOS) : SILOS[i] \in SubjectNames
        /\ \A i \in 1..Len(Cameras) : Cameras[i] \in SubjectNames
    BY <1>1 DEF SubjectNames, ToSet
  <2>2. SILOS = [i \in 1..Len(SILOS) |-> SILOS[i]]
        /\ Cameras = [i \in 1..Len(Cameras) |-> Cameras[i]]
    BY <1>1
  <2> QED BY <1>1, <2>1, <2>2
<1>3. CASE agent = "silo"
  <2>1. Subjects = SILOS
    BY <1>3 DEF Subjects
  <2>2. Distinct(SILOS)
    BY <1>1, SilosAssumption DEF Distinct
  <2>3. ASSUME NEW k \in 1..Len(items) PROVE In(Subject(k), SILOS)
    <3>1. items[k] \in SiloReadings /\ Subject(k) = items[k].silo_id
      BY <1>3 DEF TypesOK, Items, Subject
    <3>2. PICK i \in DOMAIN SILOS : SILOS[i] = items[k].silo_id
      BY <3>1, SilosAssumption
    <3> QED BY <1>1, <3>1, <3>2 DEF In
  <2> QED BY <1>2, <1>3, <2>1, <2>2, <2>3
<1>4. CASE agent = "vision"
  BY <1>2, <1>4 DEF Subjects
<1>5. CASE agent \in {"waste", "security"}
  <2>1. Subjects = <<agent>> /\ agent \in SubjectNames
    BY <1>5 DEF Subjects, SubjectNames
  <2>2. <<agent>> \in Seq(SubjectNames) /\ Distinct(<<agent>>) /\ In(agent, <<agent>>)
    BY <2>1, OneElement
  <2>3. \A i \in 1..Len(<<agent>>) : <<agent>>[i] = agent
    OBVIOUS
  <2>4. \A k : Subject(k) = agent
    BY <1>5 DEF Subject
  <2> QED BY <2>1, <2>2, <2>3, <2>4
<1> QED BY <1>3, <1>4, <1>5 DEF TypesOK

LEMMA CallRunIInv ==
    ASSUME IInv, NEW t \in Threads, CallRun(t)
    PROVE  IInv'
<1>1. PICK todo, due, new :
          /\ todo = Subjects /\ due = (IF agent = "vision" THEN {} ELSE DOMAIN items)
          /\ new = [NoRun EXCEPT !.pc = "observe", !.id = nextRun, !.todo = todo, !.due = due]
  OBVIOUS
<1>2. /\ run[t].pc = "idle" /\ run' = [run EXCEPT ![t] = new] /\ nextRun' = nextRun + 1
      /\ UNCHANGED <<agent, items, stored, finished>>
  BY <1>1 DEF CallRun
<1>3. /\ TypesOK /\ IdsOK /\ StoredOK /\ FinishedOK /\ \A u \in Threads : RunOK(u)
      /\ run \in [Threads -> Runs] /\ items \in Seq(Items) /\ Len(items) \in Nat
      /\ DOMAIN items = 1..Len(items) /\ nextRun \in Nat
  BY DEF IInv, TypesOK
<1>4. todo \in Seq(SubjectNames) /\ due \subseteq 1..Len(items) /\ due \in SUBSET Nat
  BY <1>1, <1>3, SubjectsOK
<1>5. /\ new \in Runs /\ new.pc = "observe" /\ new.id = nextRun /\ new.todo = todo
      /\ new.due = due /\ new.found = <<>> /\ new.upto = 0
  <2>1. new = [pc |-> "observe", id |-> nextRun, todo |-> todo, due |-> due, upto |-> 0,
               found |-> <<>>, plan |-> <<>>, excused |-> {}]
    BY <1>1 DEF NoRun
  <2>2. <<>> \in Seq(Nat) /\ <<>> \in Seq(ActionType)
    OBVIOUS
  <2> QED BY <1>3, <1>4, <2>1, <2>2 DEF Runs
<1>6. run'[t] = new /\ \A u \in Threads \ {t} : run'[u] = run[u]
  BY <1>2, <1>3
<1>7. Grows
  BY <1>2, <1>3 DEF Grows
<1>8. TypesOK'
  BY <1>2, <1>3, <1>5 DEF TypesOK, Items
<1>9. IdsOK'
  <2>1. \A u \in Threads \ {t} : run[u].pc # "idle" => run[u].id # nextRun
    <3>1. \A u \in Threads : run[u].id \in Nat
      BY <1>3 DEF Runs
    <3> QED BY <1>3, <3>1 DEF IdsOK
  <2>2. nextRun < nextRun'
    BY <1>2, <1>3
  <2>3. ASSUME NEW u \in Threads, run'[u].pc # "idle" PROVE run'[u].id < nextRun'
    <3>1. CASE u = t
      BY <1>5, <1>6, <2>2, <3>1
    <3>2. CASE u # t
      <4>1. run'[u] = run[u] /\ run[u].id \in Nat
        BY <1>3, <1>6, <3>2 DEF Runs
      <4>2. run[u].id < nextRun
        BY <1>3, <2>3, <4>1 DEF IdsOK
      <4> QED BY <1>2, <1>3, <4>1, <4>2
    <3> QED BY <3>1, <3>2
  <2>4. ASSUME NEW u \in Threads, NEW w \in Threads, run'[u].pc # "idle",
               run'[w].pc # "idle", run'[w].id = run'[u].id
        PROVE  w = u
    <3>1. CASE u = t \/ w = t
      BY <1>5, <1>6, <2>1, <2>4, <3>1
    <3>2. CASE u # t /\ w # t
      BY <1>3, <1>6, <2>4, <3>2 DEF IdsOK
    <3> QED BY <3>1, <3>2
  <2> QED BY <2>3, <2>4 DEF IdsOK
<1>10. StoredOK'
  BY <1>2, <1>3 DEF StoredOK, RowType
<1>11. FinishedOK'
  BY <1>2, <1>3, <1>7, FinishedKept
<1>12. FoundOK(t)'
  <2>1. Distinct(<<>>) /\ \A i : i \notin 1..Len(<<>>)
    BY EmptySequence
  <2>2. agent \in {"silo", "waste"} => Distinct(todo)
    BY <1>1, <1>3, SubjectsOK
  <2>3. agent = "waste" => \A i \in 1..Len(todo) : todo[i] = agent
    BY <1>1, <1>3, SubjectsOK
  <2> QED BY <1>2, <1>5, <1>6, <2>1, <2>2, <2>3 DEF FoundOK
<1>13. DueFound(t)'
  <2>1. agent \in {"silo", "waste"} => \A k \in due : In(Subject(k), todo)
    BY <1>1, <1>3, <1>4, SubjectsOK
  <2>2. \A k : Subject(k)' = Subject(k)
    BY <1>2 DEF Subject
  <2>3. agent = "vision" => due = {}
    BY <1>1
  <2> QED BY <1>2, <1>5, <1>6, <2>1, <2>2, <2>3 DEF DueFound
<1>14. RunOK(t)'
  <2>1. \A row \in DOMAIN stored : row.run # nextRun
    BY <1>3 DEF StoredOK
  <2>2. /\ run'[t].due \subseteq 1..Len(items') /\ run'[t].upto <= Len(items')
        /\ run'[t].pc = "observe"
    BY <1>2, <1>3, <1>4, <1>5, <1>6
  <2>3. \A row \in DOMAIN stored' : row.run # run'[t].id
    BY <1>2, <1>5, <1>6, <2>1
  <2> QED BY <1>12, <1>13, <2>2, <2>3 DEF RunOK
<1>15. \A u \in Threads \ {t} : RunOK(u)'
  BY <1>2, <1>3, <1>6, <1>7, Unmoved
<1> QED BY <1>8, <1>9, <1>10, <1>11, <1>14, <1>15 DEF IInv

\* Steps that leave every run where it is.
LEMMA OthersStep ==
    ASSUME IInv, Grows, UNCHANGED <<run, nextRun, stored, finished>>
    PROVE  IInv'
<1>1. TypesOK /\ IdsOK /\ StoredOK /\ FinishedOK /\ Items' = Items /\ \A u \in Threads : RunOK(u)
  BY DEF IInv, Items, Grows
<1>2. TypesOK'
  BY <1>1 DEF TypesOK, Grows
<1>3. IdsOK'
  BY <1>1 DEF IdsOK
<1>4. StoredOK'
  BY <1>1 DEF StoredOK
<1>5. FinishedOK'
  BY <1>1, FinishedKept
<1>6. \A u \in Threads : RunOK(u)'
  BY <1>1, Unmoved
<1> QED BY <1>2, <1>3, <1>4, <1>5, <1>6 DEF IInv

LEMMA ArrivesIInv ==
    ASSUME IInv, NEW item \in SiloReadings \cup Batches \cup SecurityAlerts, Arrives(item)
    PROVE  IInv'
<1>1. items \in Seq(Items) /\ item \in Items
  BY DEF IInv, TypesOK, Arrives, Items
<1>2. items' = Append(items, item) /\ UNCHANGED <<agent, run, nextRun, stored, finished>>
  BY DEF Arrives
<1>3. Grows
  <2>1. PICK more : more = Append(items, item)
    OBVIOUS
  <2>2. /\ more \in Seq(Items) /\ Len(items) <= Len(more)
        /\ \A k \in 1..Len(items) : more[k] = items[k]
    BY <1>1, <2>1
  <2> QED BY <1>2, <2>1, <2>2 DEF Grows
<1> QED BY <1>2, <1>3, OthersStep

LEMMA RestartIInv ==
    ASSUME IInv, Restart
    PROVE  IInv'
<1>1. run' = [t \in Threads |-> NoRun] /\ UNCHANGED <<agent, items, nextRun, stored, finished>>
  BY DEF Restart
<1>2. TypesOK /\ StoredOK /\ FinishedOK
  BY DEF IInv
<1>3. NoRun \in Runs /\ NoRun.pc = "idle"
  <2>1. <<>> \in Seq(SubjectNames) /\ <<>> \in Seq(Nat) /\ <<>> \in Seq(ActionType)
    OBVIOUS
  <2> QED BY <2>1 DEF NoRun, Runs
<1>4. \A t \in Threads : run'[t].pc = "idle"
  BY <1>1, <1>3
<1>5. TypesOK'
  BY <1>1, <1>2, <1>3 DEF TypesOK, Items
<1>6. IdsOK' /\ \A t \in Threads : RunOK(t)'
  BY <1>4 DEF IdsOK, RunOK
<1>7. StoredOK'
  BY <1>1, <1>2 DEF StoredOK
<1>8. FinishedOK'
  <2>1. Grows
    BY <1>1, <1>2 DEF Grows, TypesOK
  <2> QED BY <1>1, <1>2, <2>1, FinishedKept
<1> QED BY <1>5, <1>6, <1>7, <1>8 DEF IInv

LEMMA InitIInv == Init => IInv
<1> SUFFICES ASSUME Init PROVE IInv
  OBVIOUS
<1>1. NoRun \in Runs /\ NoRun.pc = "idle"
  <2>1. <<>> \in Seq(SubjectNames) /\ <<>> \in Seq(Nat) /\ <<>> \in Seq(ActionType)
    OBVIOUS
  <2> QED BY <2>1 DEF NoRun, Runs
<1>2. \A t \in Threads : run[t].pc = "idle"
  BY <1>1 DEF Init
<1>3. TypesOK
  BY <1>1, MonitorsAssumption DEF Init, TypesOK
<1>4. IdsOK /\ \A t \in Threads : RunOK(t)
  BY <1>2 DEF IdsOK, RunOK
<1>5. StoredOK /\ FinishedOK
  BY DEF Init, StoredOK, FinishedOK, EmptyBag, SetToBag
<1> QED BY <1>3, <1>4, <1>5 DEF IInv

LEMMA RunStepIInv ==
    ASSUME IInv, NEW t \in Threads, RunStep(t)
    PROVE  IInv'
<1>1. CASE CallRun(t)
  BY <1>1, CallRunIInv
<1>2. CASE ObserveSilo(t) \/ ObserveBatch(t) \/ ObserveAlerts(t)
  BY <1>2, ObserveSiloIInv, ObserveBatchIInv, ObserveAlertsIInv
<1>3. CASE ObserveAlertsRaises(t) \/ BodyRaises(t)
  BY <1>3, ObserveAlertsRaisesIInv, Stops DEF BodyRaises
<1>4. CASE CaptureFails(t) \/ Capture(t)
  BY <1>4, CaptureFailsIInv, CaptureIInv
<1>5. CASE ThinkSilo(t) \/ ThinkBatch(t) \/ ThinkAlerts(t) \/ ThinkDetections(t)
  BY <1>5, ThinkSiloIInv, ThinkBatchIInv, ThinkAlertsIInv, ThinkDetectionsIInv
<1>6. CASE Withhold(t) \/ Fail(t)
  BY <1>6, ExcuseIInv DEF Withhold, Fail
<1>7. CASE Store(t) \/ StoreNothing(t)
  BY <1>7, StoreIInv, StoreNothingIInv
<1>8. CASE Return(t)
  BY <1>8, ReturnIInv
<1> QED BY <1>1, <1>2, <1>3, <1>4, <1>5, <1>6, <1>7, <1>8 DEF RunStep

LEMMA NextIInv == IInv /\ [Next]_vars => IInv'
<1> SUFFICES ASSUME IInv, [Next]_vars PROVE IInv'
  OBVIOUS
<1>1. ASSUME NEW t \in Threads, RunStep(t) PROVE IInv'
  BY <1>1, RunStepIInv
<1>2. ASSUME NEW item \in SiloReadings \cup Batches \cup SecurityAlerts, Arrives(item)
      PROVE  IInv'
  BY <1>2, ArrivesIInv
<1>3. ASSUME UNCHANGED <<agent, items, run, nextRun, stored, finished>> PROVE IInv'
  <2>1. Grows
    BY <1>3 DEF Grows, IInv, TypesOK
  <2> QED BY <1>3, <2>1, OthersStep
<1>4. ASSUME NEW k \in DOMAIN items, Resolve(k) PROVE IInv'
  BY <1>3, <1>4 DEF Resolve
<1>5. CASE SetAutonomy
  BY <1>3, <1>5 DEF SetAutonomy
<1>6. CASE Restart
  BY <1>6, RestartIInv
<1>7. CASE UNCHANGED vars
  BY <1>3, <1>7 DEF vars
<1> QED BY <1>1, <1>2, <1>4, <1>5, <1>6, <1>7 DEF Next

THEOREM SpecIInv == Spec => []IInv
BY InitIInv, NextIInv, PTL DEF Spec

\* silo_agent.py:26-67, waste_agent.py:20-80, vision_agent.py:34-92: whatever runs
\* beside it, arrives meanwhile, fails or is held back, a run that comes to its
\* end has left a row for each item that was there to be found and that nothing
\* newer hid from it, or the action for it failed or was held back.
THEOREM NothingIsMissed == Spec => []NothingMissed
<1>1. IInv => NothingMissed
  BY DEF IInv, FinishedOK, NothingMissed
<1> QED BY <1>1, SpecIInv, PTL

\* base_agent.py:104-113 with the perform_action of each agent: no run stores an
\* action for an item twice.
THEOREM EachActionOnce == Spec => []OneRowPerRun
<1>1. IInv => OneRowPerRun
  BY DEF IInv, StoredOK, OneRowPerRun, BagToSet
<1> QED BY <1>1, SpecIInv, PTL
=============================================================================
