------------------------------ MODULE Startup -------------------------------
(***************************************************************************)
(* The start of the processes of the platform: init_db() of                *)
(* backend/app/models/database.py, called by the lifespan of main.py in    *)
(* each uvicorn worker, which goes on serving when it raises, and by       *)
(* scripts/init_db.py, which does not.                                     *)
(*                                                                         *)
(* create_all() looks up which tables are missing before it creates any,   *)
(* sorts those, and creates them one by one, each followed by its indexes; *)
(* SQLite commits each of these statements at once.  They are sorted as    *)
(* they are declared, but a table that refers to one that is missing too   *)
(* comes after the others: processes that look at different times may go   *)
(* through the same tables in different orders.                            *)
(*                                                                         *)
(* The admin is looked for, and then inserted under a name that is unique  *)
(* by an index of the table users, hence once there is that index.         *)
(***************************************************************************)
EXTENDS Integers, FiniteSets, Sequences

CONSTANTS Starters,   \* the processes: workers, and the script
          Tables,     \* the tables are 1..Tables, as they are declared
          Users,      \* the table users, among them
          ForeignKeys \* the pairs <<table, table it refers to>>

ASSUME TablesAssumption == Tables \in Nat /\ Users \in 1..Tables
\* No table refers to one that refers to another (database.py:152-153, 197).
ASSUME ForeignKeysAssumption ==
    /\ ForeignKeys \subseteq (1..Tables) \X (1..Tables)
    /\ \A key, other \in ForeignKeys : key[2] # other[1]

VARIABLES schema,    \* the tables that exist
          indexed,   \* the index that makes usernames unique exists
          admins,    \* how many rows of users have the admin's name
          starting,  \* the locals of init_db in each process
          spoilt     \* history: since a process last started by itself, one
                     \* died, was failed by the database, or sorted the tables
                     \* in another way than one under way had done

startVars == <<schema, indexed, admins, starting, spoilt>>

-----------------------------------------------------------------------------
Down == [pc |-> "down", missing |-> {}, late |-> {}]
First(set) == CHOOSE x \in set : \A y \in set : x <= y

StartInit ==
    /\ schema = {}
    /\ indexed = FALSE
    /\ admins = 0
    /\ starting = [p \in Starters |-> Down]
    /\ spoilt = FALSE

\* The process goes on with these tables to create, or leaves init_db.
StartGoes(p, pc, missing) ==
    starting' = [starting EXCEPT ![p].pc = pc, ![p].missing = missing]
StartEnds(p, pc) ==
    starting' = [starting EXCEPT ![p] = [Down EXCEPT !.pc = pc]]

UnderWay(p) == starting[p].pc \in {"create", "index", "seed"}

-----------------------------------------------------------------------------
(* Base.metadata.create_all                                                *)

\* The tables to be sorted behind the others.
Late(missing) == {x \in missing : \E y \in missing : <<x, y>> \in ForeignKeys}

\* A process under way has sorted one of these tables otherwise.
SortsOtherwise(missing) ==
    \E q \in Starters : \E x \in starting[q].missing \cap missing :
        UnderWay(q) /\ (x \in starting[q].late) # (x \in Late(missing))

\* Which tables are missing?
StartProcess(p) ==
    LET missing == (1..Tables) \ schema
    IN  /\ starting[p].pc = "down"
        /\ starting' = [starting EXCEPT ![p] =
              [pc |-> "create", missing |-> missing, late |-> Late(missing)]]
        /\ spoilt' = /\ \E q \in Starters : UnderWay(q)
                     /\ spoilt \/ SortsOtherwise(missing)
        /\ UNCHANGED <<schema, indexed, admins>>

\* The first table in the order of the process.
NextTable(p) ==
    LET missing == starting[p].missing
        early   == missing \ starting[p].late
    IN  First(IF early # {} THEN early ELSE missing)

CreateTable(p) ==
    /\ starting[p].pc = "create"
    /\ starting[p].missing # {}
    /\ NextTable(p) \notin schema
    /\ schema' = schema \cup {NextTable(p)}
    /\ StartGoes(p, IF NextTable(p) = Users THEN "index" ELSE "create",
                    starting[p].missing \ {NextTable(p)})
    /\ UNCHANGED <<indexed, admins, spoilt>>

\* CREATE UNIQUE INDEX, by the process that created the table; it fails, and
\* init_db with it, on a table that has two rows of one name by now.
CreateIndex(p) ==
    /\ starting[p].pc = "index"
    /\ indexed' = (admins <= 1)
    /\ IF admins <= 1 THEN StartGoes(p, "create", starting[p].missing)
       ELSE StartEnds(p, "serving")
    /\ UNCHANGED <<schema, admins, spoilt>>

\* Another process created the table meanwhile: OperationalError, and init_db
\* ends there, without the tables that follow and without an admin.
TableExists(p) ==
    /\ starting[p].pc = "create"
    /\ starting[p].missing # {}
    /\ NextTable(p) \in schema
    /\ StartEnds(p, "serving")
    /\ UNCHANGED <<schema, indexed, admins, spoilt>>

-----------------------------------------------------------------------------
(* The rest of init_db                                                     *)

\* existing = db.query(User).filter_by(username=...).first()
LookForAdmin(p) ==
    /\ starting[p].pc = "create"
    /\ starting[p].missing = {}
    /\ IF admins = 0 THEN StartGoes(p, "seed", {}) ELSE StartEnds(p, "serving")
    /\ UNCHANGED <<schema, indexed, admins, spoilt>>

\* Faulty variant of Seed: the index does not make the name unique.
SeedTwice(p) ==
    /\ starting[p].pc = "seed"
    /\ admins' = admins + 1
    /\ StartEnds(p, "serving")
    /\ UNCHANGED <<schema, indexed, spoilt>>

\* The row is inserted; if another process was first, IntegrityError, if the
\* index is there.
Seed(p) ==
    /\ starting[p].pc = "seed"
    /\ admins' = IF indexed /\ admins > 0 THEN admins ELSE admins + 1
    /\ StartEnds(p, "serving")
    /\ UNCHANGED <<schema, indexed, spoilt>>

\* Anything else raises: the file is locked too long, the password cannot be
\* hashed.  lifespan() logs it, and the worker serves.
StartFails(p) ==
    /\ UnderWay(p)
    /\ spoilt' = TRUE
    /\ StartEnds(p, "serving")
    /\ UNCHANGED <<schema, indexed, admins>>

\* A process ends and may be started again; one that dies while it starts
\* leaves what it has done.
Stop(p) ==
    /\ starting[p].pc # "down"
    /\ spoilt' = (spoilt \/ UnderWay(p))
    /\ StartEnds(p, "down")
    /\ UNCHANGED <<schema, indexed, admins>>

StartNext ==
    \E p \in Starters :
        \/ StartProcess(p) \/ CreateTable(p) \/ CreateIndex(p) \/ TableExists(p)
        \/ LookForAdmin(p) \/ Seed(p) \/ StartFails(p) \/ Stop(p)

StartSpec == StartInit /\ [][StartNext]_startVars

-----------------------------------------------------------------------------
(* Properties                                                              *)

\* Processes may start together and get in each other's way, so that some serve
\* without having finished init_db().  All the tables and an admin are there in
\* the end, once one serves and none is under way, unless one died or was failed
\* by the database, or two that were under way together had sorted the tables
\* differently - then each may fail at a table of the other, and no admin is
\* there; a start by itself makes up for that.  There is never an admin without
\* all the tables, and there are two only if they were seeded between a
\* process's creating the table users and its index, which is then missing for
\* good (main.py:33-37, database.py:84, 152-153, 197, 329-350).
AdminSeeded ==
    /\ (/\ ~spoilt
        /\ \A p \in Starters : ~UnderWay(p)
        /\ \E p \in Starters : starting[p].pc = "serving")
          => schema = 1..Tables /\ admins > 0
    /\ admins > 0 => schema = 1..Tables
    /\ admins > 1 => ~indexed
=============================================================================
