----------------------------- MODULE Scenarios ------------------------------
(***************************************************************************)
(* ScenarioGenerator.generate (backend/app/agents/scenario_generator.py)   *)
(* with the language model behind it (utils/llm_client.py, utils/retry.py):*)
(* what it makes of the model's answer, and its rows in the scenarios      *)
(* table, each in a transaction of its own.  The calls are independent;    *)
(* the module follows one caller, who calls again after an error.          *)
(*                                                                         *)
(* stress_test() is left out: it calls replace(), which the module does    *)
(* not import, and raises before it has changed anything.                  *)
(***************************************************************************)
EXTENDS Integers, Sequences, SequencesExt

CONSTANTS MaxAttempts,   \* 3: the attempts of @retry on chat()
          MaxCount       \* bound on the scenarios asked for, and on those answered

ASSUME ScenariosAssumption == MaxAttempts \in Nat \ {0} /\ MaxCount \in Nat \ {0}

VARIABLES call,     \* the locals of generate()
          rows,     \* the scenarios this call, or the last one, has committed
          outcome   \* history: how the last call ended

scenarioVars == <<call, rows, outcome>>

-----------------------------------------------------------------------------
\* An entry of raw_scenarios: from a template; or from the model, and then fit,
\* without the shape of a scenario (s.get or parameters.items() raises), or
\* refused by the database (a name that is null or no string).
Misfits == {"shapeless", "refused"}
Entries == {"template", "fit"} \cup Misfits

\* What chat_json() returns, as far as generate() tells answers apart: a
\* dictionary with a list or a text under "scenarios", or anything else, a list
\* among them, on which result.get or the slice raises, or finds nothing.
Answers ==
    [kind : {"list"}, entries : BoundedSeq(Entries \ {"template"}, MaxCount)]
        \cup [kind : {"text", "other"}, entries : {<<>>}]

NoAnswer  == [kind |-> "none", entries |-> <<>>]
NotCalled == [pc |-> "idle"]
NoOutcome == [result |-> "none"]

ScenarioInit ==
    /\ call = NotCalled
    /\ rows = <<>>
    /\ outcome = NoOutcome

\* raw[:count]
Sliced(entries, count) ==
    SubSeq(entries, 1, IF Len(entries) < count THEN Len(entries) ELSE count)

Ends(result) ==
    /\ call' = NotCalled
    /\ outcome' = [result |-> result, count |-> call.count, answer |-> call.answer]

\* The entry the loop is at.
Entry == call.entries[Len(rows) + 1]
Storing == call.pc = "store" /\ Len(rows) < Len(call.entries)

-----------------------------------------------------------------------------
\* generate(count, use_llm): with a model that is available, chat() comes first.
Generate(count, llm) ==
    /\ call.pc = "idle"
    /\ call' = [pc |-> IF llm THEN "ask" ELSE "fill", count |-> count, attempt |-> 1,
                answer |-> NoAnswer, entries |-> <<>>]
    /\ rows' = <<>>
    /\ outcome' = NoOutcome

\* An attempt raises, and the next one follows after its delay.
AskAgain ==
    /\ call.pc = "ask"
    /\ call.attempt < MaxAttempts
    /\ call' = [call EXCEPT !.attempt = @ + 1]
    /\ UNCHANGED <<rows, outcome>>

\* The last attempt raises, or the text of one holds no JSON: both are swallowed.
AskFails ==
    /\ call.pc = "ask"
    /\ call' = [call EXCEPT !.pc = "fill"]
    /\ UNCHANGED <<rows, outcome>>

\* The slice is taken; what raises here is swallowed, and a text is kept.
Answered(answer) ==
    /\ call.pc = "ask"
    /\ call' = [call EXCEPT !.pc = IF answer.kind = "text" THEN "text" ELSE "fill",
                            !.answer = answer,
                            !.entries = Sliced(answer.entries, call.count)]
    /\ UNCHANGED <<rows, outcome>>

\* A text has neither append nor get: AttributeError, after the try.
TextRaises ==
    /\ call.pc = "text"
    /\ Ends("raised")
    /\ UNCHANGED rows

\* while len(raw_scenarios) < count
Fill ==
    /\ call.pc = "fill"
    /\ call' = [call EXCEPT !.pc = "store",
          !.entries = @ \o [i \in 1..(call.count - Len(@)) |-> "template"]]
    /\ UNCHANGED <<rows, outcome>>

\* A row, committed in a session of its own.
Store ==
    /\ Storing
    /\ Entry \notin Misfits
    /\ rows' = Append(rows, Entry)
    /\ UNCHANGED <<call, outcome>>

\* Faulty variant of EntryRaises: the error ends the loop, not the call.
EntryEndsLoop ==
    /\ Storing
    /\ Entry \in Misfits
    /\ Ends("returned")
    /\ UNCHANGED rows

\* An entry that cannot be made a row, or that the database refuses.
EntryRaises ==
    /\ Storing
    /\ Entry \in Misfits
    /\ Ends("raised")
    /\ UNCHANGED rows

\* A commit fails although its row is fit: the rows before it remain.
StoreRaises ==
    /\ Storing
    /\ Entry \notin Misfits
    /\ Ends("database error")
    /\ UNCHANGED rows

Return ==
    /\ call.pc = "store"
    /\ Len(rows) = Len(call.entries)
    /\ Ends("returned")
    /\ UNCHANGED rows

\* The process dies during a call, and its caller never hears of it.
CallDies ==
    /\ call.pc # "idle"
    /\ Ends("died")
    /\ UNCHANGED rows

ScenarioNext ==
    \/ \E count \in 1..MaxCount : \E llm \in BOOLEAN : Generate(count, llm)
    \/ AskAgain \/ AskFails \/ TextRaises \/ Fill \/ Store \/ EntryRaises
    \/ StoreRaises \/ Return \/ CallDies
    \/ \E answer \in Answers : Answered(answer)

ScenarioSpec == ScenarioInit /\ [][ScenarioNext]_scenarioVars

-----------------------------------------------------------------------------
(* Properties                                                              *)

\* The entries of an answer generate() takes on trust.
Trusted == Sliced(outcome.answer.entries, outcome.count)

\* Whatever the language model answers, or fails to: a call that returns has
\* stored as many scenarios as it was asked for, those of the model first and
\* templates for the rest.  A call that raises has stored a part, the entries
\* before the first misfit one; an answer without misfits costs no scenario,
\* and no answer at all does not either (scenario_generator.py:54-88).
GeneratedAccounted ==
    /\ outcome.result = "returned" =>
          /\ Len(rows) = outcome.count
          /\ rows = Trusted \o [i \in 1..(outcome.count - Len(Trusted)) |-> "template"]
    /\ outcome.result = "raised" =>
          \/ outcome.answer.kind = "text" /\ rows = <<>>
          \/ /\ Len(rows) < Len(Trusted)
             /\ rows = SubSeq(Trusted, 1, Len(rows))
             /\ Trusted[Len(rows) + 1] \in Misfits
    /\ \A i \in DOMAIN rows : rows[i] \notin Misfits
=============================================================================
