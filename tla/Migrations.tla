----------------------------- MODULE Migrations -----------------------------
(***************************************************************************)
(* The start-up of a server process: run_migrations applies the files      *)
(* sql/migration_*.sql that schema_migrations does not record, each in a   *)
(* transaction of its own together with its record, and only then is the   *)
(* process served requests.  A process that fails stops and is started     *)
(* again by the platform; two may start side by side.                      *)
(*                                                                         *)
(* A file is its place in the order of the names.  Of its statements the   *)
(* model keeps which database objects (functions, the unique index of the  *)
(* proofs) it defines anew: CREATE OR REPLACE, or DROP and CREATE.         *)
(***************************************************************************)
EXTENDS Naturals, FiniteSetsExt

CONSTANTS
    Processes,     \* server processes
    LastFile,      \* the number of migration files
    Objects,       \* what several files define
    Defines,       \* the objects each file defines
    MaxFailures    \* bound: processes killed or statements in error

Files == 1 .. LastFile

ASSUME FilesAssumption   == LastFile \in Nat \ {0}
ASSUME DefinesAssumption == Defines \in [Files -> SUBSET Objects]
ASSUME BoundAssumption   == MaxFailures \in Nat

VARIABLES
    users,        \* the table users exists
    recorded,     \* schema_migrations
    definition,   \* the file whose definition of an object is in force, 0 before any
    pc,           \* where a process is
    applied,      \* the files a process takes as applied
    failures

vars == <<users, recorded, definition, pc, applied, failures>>

\* What the files up to f leave in force.
Latest(o, f) == Max({0} \cup {g \in 1 .. f : o \in Defines[g]})

\* A new database, one that an earlier image left with its files applied, or one with
\* tables that were made by hand.
Init ==
    /\ \E f \in 0 .. LastFile :
          /\ recorded = 1 .. f
          /\ definition = [o \in Objects |-> Latest(o, f)]
          /\ users \in {TRUE, f > 0}
    /\ pc = [p \in Processes |-> "stopped"]
    /\ applied = [p \in Processes |-> {}]
    /\ failures = 0

-----------------------------------------------------------------------------

Goto(p, where) == pc' = [pc EXCEPT ![p] = where]

\* INSERT INTO schema_migrations ... ON CONFLICT DO NOTHING, with the file's transaction.
InsertLater(f) == recorded
Insert(f) == recorded \cup {f}

\* The tracking table is made if need be and read.
ReadRecord(p) ==
    /\ pc[p] = "stopped"
    /\ applied' = [applied EXCEPT ![p] = recorded]
    /\ Goto(p, "adopt")
    /\ UNCHANGED <<users, recorded, definition, failures>>

\* The base schema is there although no record says so.
NeverAdopts(p) == FALSE
Adopts(p) == 1 \notin applied[p] /\ users

\* The base schema of such a database is recorded without being run.
AdoptedAll(p) == Files
Adopted(p) == {1}

Adopt(p) ==
    /\ pc[p] = "adopt"
    /\ IF Adopts(p)
       THEN /\ recorded' = Insert(1)
            /\ applied' = [applied EXCEPT ![p] = @ \cup Adopted(p)]
       ELSE UNCHANGED <<recorded, applied>>
    /\ Goto(p, "apply")
    /\ UNCHANGED <<users, definition, failures>>

\* The loop over the files in the order of their names, skipping those applied.
LastOfAll(p) == Max(Files \ applied[p])
NextFile(p) == Min(Files \ applied[p])

Remaining(p) == pc[p] = "apply" /\ applied[p] # Files

\* Only the base schema cannot be run on its own result (CREATE TABLE users).
Runs(f) == ~(f = 1 /\ users)

\* One transaction: the file's statements and its record.
Execute(p) ==
    /\ Remaining(p)
    /\ LET f == NextFile(p) IN
       /\ Runs(f)
       /\ definition' = [o \in Objects |-> IF o \in Defines[f] THEN f ELSE definition[o]]
       /\ recorded' = Insert(f)
       /\ users' = (users \/ f = 1)
       /\ applied' = [applied EXCEPT ![p] = @ \cup {f}]
    /\ UNCHANGED <<pc, failures>>

\* The process ends; what it had committed stays.
Stop(p) ==
    /\ Goto(p, "stopped")
    /\ applied' = [applied EXCEPT ![p] = {}]
    /\ UNCHANGED <<users, recorded, definition>>

\* Another process has created the base schema since this one looked: the exception stops it.
Collide(p) ==
    /\ Remaining(p)
    /\ ~Runs(NextFile(p))
    /\ Stop(p)
    /\ UNCHANGED failures

Serve(p) ==
    /\ pc[p] = "apply"
    /\ applied[p] = Files
    /\ Goto(p, "serving")
    /\ UNCHANGED <<users, recorded, definition, applied, failures>>

\* Killed, or an error of the database: at any moment, a bounded number of times.
Fail(p) ==
    /\ failures < MaxFailures
    /\ pc[p] # "stopped"
    /\ Stop(p)
    /\ failures' = failures + 1

Step(p) == ReadRecord(p) \/ Adopt(p) \/ Execute(p) \/ Collide(p) \/ Serve(p)

Next == \E p \in Processes : Step(p) \/ Fail(p)

\* The platform starts a process that has stopped, and a started process runs.
Spec == Init /\ [][Next]_vars /\ \A p \in Processes : WF_vars(Step(p))

-----------------------------------------------------------------------------
(* Properties *)

\* Variables have their types, and what a process takes as applied is recorded.
TypeOK ==
    /\ users \in BOOLEAN
    /\ recorded \in SUBSET Files
    /\ definition \in [Objects -> 0 .. LastFile]
    /\ pc \in [Processes -> {"stopped", "adopt", "apply", "serving"}]
    /\ applied \in [Processes -> SUBSET recorded]
    /\ failures \in 0 .. MaxFailures

\* Wherever processes stop and start again, the record is a prefix of the files: no file
\* is ever recorded before the files it builds on.
RecordedInOrder == \A f \in recorded : 1 .. f \subseteq recorded

\* No request meets a schema with a file missing.
ServedSchemaIsComplete == \A p \in Processes : pc[p] = "serving" => recorded = Files

\* Once failures are over every process comes to serve, whatever database it found and
\* wherever others were stopped; two that start on an empty database do not stop each
\* other for ever.
EveryProcessServes == \A p \in Processes : <>[](pc[p] = "serving")

\* db_migrate.py:7-8 says the files are executed in order, each only when it is not recorded:
\* the definition of a recorded file is in force until a later file replaces it.
NoStepBack ==
    \A f \in recorded \ {1} : \A o \in Defines[f] : definition[o] >= f
=============================================================================
