------------------------------- MODULE Policy -------------------------------
(***************************************************************************)
(* MARLCore (backend/app/agents/marl_core.py): training, its artifact      *)
(* file, its row in rl_policies, and infer().  Trainings run in processes  *)
(* or threads of their own, over one models_artifacts directory and one    *)
(* SQLite file; the first statement of a transaction that writes takes the *)
(* write lock of the file until the transaction ends, and others wait for  *)
(* it as long as the driver's timeout.                                     *)
(*                                                                         *)
(* The backend is the heuristic one: stable_baselines3 is not among the    *)
(* requirements, and with it train() raises before it has changed anything *)
(* because FmnEnv is no gymnasium environment.  Training always uses the   *)
(* seed 42, so every training sees the same draws.                         *)
(***************************************************************************)
EXTENDS DigitalTwin, Sequences

CONSTANTS Trainers,       \* the MARLCore objects
          WithDatabase,   \* those made with a session_factory
          NoTrainer,      \* nobody holds the write lock
          Draws,          \* what the generator gives for the seed 42
          Stamps,         \* values of utcnow(), which may be set back
          MaxPolicies     \* bound on the rows

ASSUME TrainersAssumption == WithDatabase \subseteq Trainers /\ NoTrainer \notin Trainers
ASSUME DrawsAssumption == Draws \in [1..Days -> Draw]
ASSUME StampsAssumption == Stamps \subseteq Nat /\ Stamps # {} /\ MaxPolicies \in Nat

VARIABLES artifact,   \* marl_heuristic.json
          policies,   \* the committed rows of rl_policies, by their id
          writer,     \* who holds the write lock
          training,   \* the locals of each training
          torn,       \* history: the last to write the artifact did not finish
          stored,     \* history: the newest row whose training has returned
          inferred    \* history: the last row infer() chose, and "stored" then

policyVars == <<artifact, policies, writer, training, torn, stored, inferred>>

-----------------------------------------------------------------------------
Actions == 0..2   \* conservative, balanced, aggressive

\* demand_multiplier 0.8, 1.0, 1.25 of the 900 tons a day
Demands == <<16, 20, 25>>

ParamsOf(action) ==
    [demand |-> Demands[action + 1], throughput |-> 64, closure |-> 0,
     probability |-> 8, base_waste |-> 6]

\* 1000 times Days times the score: the service level minus risk / 50.
Score(action) ==
    TotalService(ParamsOf(action), Draws) - 2 * Risk(ParamsOf(action), Draws)

\* Faulty variant of BestAction: score >= best[1].
LastBestAction ==
    CHOOSE a \in Actions : \A b \in Actions :
        Score(b) <= Score(a) /\ (b > a => Score(b) < Score(a))

\* The first of those with the highest score.
BestAction ==
    CHOOSE a \in Actions : \A b \in Actions :
        Score(b) <= Score(a) /\ (b < a => Score(b) < Score(a))

Missing  == [state |-> "missing"]
Empty    == [state |-> "empty"]
File(a)  == [state |-> "complete", action |-> a]
NotTraining == [pc |-> "idle", old |-> {}]

Active == {i \in DOMAIN policies : policies[i].active}

PolicyInit ==
    /\ artifact = Missing
    /\ policies = <<>>
    /\ writer = NoTrainer
    /\ training = [t \in Trainers |-> NotTraining]
    /\ torn = FALSE
    /\ stored = 0
    /\ inferred = [row |-> 0, known |-> 0]

TrainingGoes(t, pc, old) == training' = [training EXCEPT ![t] = [pc |-> pc, old |-> old]]

-----------------------------------------------------------------------------
\* The candidates are compared, and open(path, "w") cuts the file to nothing.
Train(t) ==
    /\ training[t].pc = "idle"
    /\ artifact' = Empty
    /\ TrainingGoes(t, "write", {})
    /\ UNCHANGED <<policies, writer, torn, stored, inferred>>

\* json.dump; without a session_factory that is all.
Dump(t) ==
    /\ training[t].pc = "write"
    /\ artifact' = File(BestAction)
    /\ torn' = FALSE
    /\ TrainingGoes(t, IF t \in WithDatabase THEN "update" ELSE "idle", {})
    /\ UNCHANGED <<policies, writer, stored, inferred>>

\* Faulty variant of DumpRaises: the error is swallowed.
DumpRaisesUnheard(t) ==
    /\ training[t].pc = "write"
    /\ TrainingGoes(t, IF t \in WithDatabase THEN "update" ELSE "idle", {})
    /\ UNCHANGED <<artifact, policies, writer, torn, stored, inferred>>

\* The disk is full.
DumpRaises(t) ==
    /\ training[t].pc = "write"
    /\ torn' = (artifact = Empty)
    /\ TrainingGoes(t, "idle", {})
    /\ UNCHANGED <<artifact, policies, writer, stored, inferred>>

\* Faulty variant of Deactivate: the update takes no lock.
DeactivateUnlocked(t) ==
    /\ training[t].pc = "update"
    /\ TrainingGoes(t, "commit", Active)
    /\ UNCHANGED <<artifact, policies, writer, torn, stored, inferred>>

\* UPDATE rl_policies SET active = false: with the lock, until the commit.
Deactivate(t) ==
    /\ training[t].pc = "update"
    /\ writer = NoTrainer
    /\ writer' = t
    /\ TrainingGoes(t, "commit", Active)
    /\ UNCHANGED <<artifact, policies, torn, stored, inferred>>

\* Database is locked: another training holds it for longer than the timeout.
LockTimeout(t) ==
    /\ training[t].pc = "update"
    /\ writer # NoTrainer
    /\ TrainingGoes(t, "idle", {})
    /\ UNCHANGED <<artifact, policies, writer, torn, stored, inferred>>

\* The new row is flushed and the transaction committed.
Commit(t) ==
    /\ training[t].pc = "commit"
    /\ Len(policies) < MaxPolicies
    /\ \E stamp \in Stamps :
          policies' =
              Append([i \in DOMAIN policies |->
                         IF i \in training[t].old THEN [policies[i] EXCEPT !.active = FALSE]
                         ELSE policies[i]],
                     [action |-> BestAction, created_at |-> stamp, active |-> TRUE])
    /\ writer' = NoTrainer
    /\ stored' = Len(policies) + 1
    /\ TrainingGoes(t, "idle", {})
    /\ UNCHANGED <<artifact, torn, inferred>>

\* Faulty variant of CommitRaises: train() returns as if it had stored a row.
CommitRaisesUnheard(t) ==
    /\ training[t].pc = "commit"
    /\ writer' = NoTrainer
    /\ stored' = Len(policies) + 1
    /\ TrainingGoes(t, "idle", {})
    /\ UNCHANGED <<artifact, policies, torn, inferred>>

\* An error of the database: close() rolls back, and the old policy stays.
CommitRaises(t) ==
    /\ training[t].pc = "commit"
    /\ writer' = NoTrainer
    /\ TrainingGoes(t, "idle", {})
    /\ UNCHANGED <<artifact, policies, torn, stored, inferred>>

\* The process of a training dies: SQLite rolls its transaction back.
TrainerDies(t) ==
    /\ training[t].pc # "idle"
    /\ torn' = IF training[t].pc = "write" THEN artifact = Empty ELSE torn
    /\ writer' = IF writer = t THEN NoTrainer ELSE writer
    /\ TrainingGoes(t, "idle", {})
    /\ UNCHANGED <<artifact, policies, stored, inferred>>

\* infer(): the active row with the latest created_at, if there is one.
Infer ==
    /\ \/ Active = {} /\ inferred' = [row |-> 0, known |-> stored]
       \/ \E i \in Active :
             /\ \A j \in Active : policies[j].created_at <= policies[i].created_at
             /\ inferred' = [row |-> i, known |-> stored]
    /\ UNCHANGED <<artifact, policies, writer, training, torn, stored>>

PolicyNext ==
    \/ \E t \in Trainers :
          \/ Train(t) \/ Dump(t) \/ DumpRaises(t)
          \/ Deactivate(t) \/ LockTimeout(t) \/ Commit(t) \/ CommitRaises(t)
          \/ TrainerDies(t)
    \/ Infer

PolicySpec == PolicyInit /\ [][PolicyNext]_policyVars

-----------------------------------------------------------------------------
(* Properties                                                              *)

\* However trainings overlap, fail and die, there is one active policy at most,
\* and none only as long as none was stored (marl_core.py:169-183).
OneActive ==
    /\ \A i, j \in Active : i = j
    /\ policies # <<>> => Active # {}

\* Once train() has returned, infer() answers with its policy or a newer one,
\* even when the clock was set back in between (marl_core.py:187-202).
TrainedIsInferred == inferred.row >= inferred.known

\* The file the active policy points to holds its action, unless a training is
\* writing it or the last one that did never finished (marl_core.py:160-163).
ArtifactFitsPolicy ==
    \A i \in Active :
        \/ artifact = File(policies[i].action)
        \/ artifact = Empty /\ (torn \/ \E t \in Trainers : training[t].pc = "write")

\* The search cannot tell the actions apart: the mill could serve the largest
\* of the demands, so the demand cancels out of every score and the first
\* action, the conservative one, is stored (marl_core.py:56-64, 151-157,
\* simulator.py:51-56, 71-78).
PolicyIsConservative == \A i \in DOMAIN policies : policies[i].action = 0
=============================================================================
