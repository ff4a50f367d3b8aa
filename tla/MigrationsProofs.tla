-------------------------- MODULE MigrationsProofs --------------------------
(***************************************************************************)
(* Theorems about Migrations, for every number of files and of processes,  *)
(* every assignment of objects to files and every number of failures.      *)
(***************************************************************************)
EXTENDS Migrations, NaturalsInduction, WellFoundedInduction, TLAPS

-----------------------------------------------------------------------------
(* Least and greatest numbers of a set *)

LessThan == {p \in Nat \X Nat : p[1] < p[2]}

\* A non-empty set of naturals has a least element.
LEMMA LeastNatural ==
    ASSUME NEW T, T \subseteq Nat, T # {}
    PROVE  \E n \in T : \A m \in T : n <= m
PROOF
<1>1. IsWellFoundedOn(LessThan, Nat)
    BY NatLessThanWellFounded, Zenon DEF LessThan, OpToRel
<1>2. PICK n \in T : \A m \in T : <<m, n>> \notin LessThan
    BY <1>1, WFMin
<1>3. \A m \in T : ~(m < n)
    BY <1>2 DEF LessThan
<1> QED
    BY <1>3

\* Min picks it.
LEMMA MinOfNaturals ==
    ASSUME NEW T, T \subseteq Nat, T # {}
    PROVE  Min(T) \in T /\ \A m \in T : Min(T) <= m
PROOF
<1>1. \E n \in T : \A m \in T : n <= m
    BY LeastNatural
<1> QED
    BY <1>1 DEF Min

\* A set of naturals with a bound has a greatest element, and Max picks it.
LEMMA MaxOfNaturals ==
    ASSUME NEW T, T \subseteq Nat, T # {}, NEW b \in Nat, \A m \in T : m <= b
    PROVE  Max(T) \in T /\ \A m \in T : Max(T) >= m
PROOF
<1> DEFINE Above == {n \in Nat : \A m \in T : m <= n}
<1>1. PICK n \in Above : \A k \in Above : n <= k
    BY LeastNatural
<1>2. n \in T
  <2> SUFFICES ASSUME n \notin T PROVE FALSE
      OBVIOUS
  <2>1. PICK t \in T : TRUE
      OBVIOUS
  <2>2. \A m \in T : m <= n /\ m # n
      BY <1>1
  <2>3. n - 1 \in Above
      BY <2>1, <2>2
  <2> QED
      BY <1>1, <2>3
<1>3. \E x \in T : \A y \in T : x >= y
    BY <1>1, <1>2
<1> QED
    BY <1>3 DEF Max

\* What is in force of an object is the number of a file, or 0.
LEMMA LatestType ==
    ASSUME NEW o \in Objects, NEW f \in 0 .. LastFile
    PROVE  Latest(o, f) \in 0 .. LastFile
PROOF
<1> DEFINE T == {0} \cup {g \in 1 .. f : o \in Defines[g]}
<1>1. T \subseteq Nat /\ T # {} /\ f \in Nat /\ (\A m \in T : m <= f)
    BY FilesAssumption
<1>2. Max(T) \in T
    BY <1>1, MaxOfNaturals
<1> QED
    BY <1>2, FilesAssumption DEF Latest

\* The next file is not applied, and all files before it are.
LEMMA NextFileIsFirst ==
    ASSUME TypeOK, NEW p \in Processes, Remaining(p)
    PROVE  /\ NextFile(p) \in Files \ applied[p]
           /\ \A g \in Files : g < NextFile(p) => g \in applied[p]
PROOF
<1>1. Files \ applied[p] \subseteq Nat
    BY FilesAssumption DEF Files
<1>2. Files \ applied[p] # {}
    BY DEF TypeOK, Remaining
<1>3. /\ NextFile(p) \in Files \ applied[p]
      /\ \A m \in Files \ applied[p] : NextFile(p) <= m
    BY <1>1, <1>2, MinOfNaturals DEF NextFile
<1> QED
    BY <1>3, FilesAssumption DEF Files

-----------------------------------------------------------------------------
(* Types *)

\* A process that stops leaves the record and what is in force.
LEMMA StopType ==
    ASSUME TypeOK, NEW p \in Processes, Stop(p), failures' \in 0 .. MaxFailures
    PROVE  TypeOK'
BY DEF TypeOK, Stop, Goto

\* What every process takes as applied stays recorded when the record grows.
LEMMA TypeStep ==
    TypeOK /\ [Next]_vars => TypeOK'
PROOF
<1> SUFFICES ASSUME TypeOK, [Next]_vars PROVE TypeOK'
    OBVIOUS
<1> USE FilesAssumption, DefinesAssumption, BoundAssumption
<1>1. ASSUME NEW p \in Processes, ReadRecord(p) PROVE TypeOK'
    BY <1>1 DEF TypeOK, ReadRecord, Goto
<1>2. ASSUME NEW p \in Processes, Adopt(p) PROVE TypeOK'
  <2>1. 1 \in Files
      BY DEF Files
  <2>2. CASE Adopts(p)
      BY <1>2, <2>1, <2>2 DEF TypeOK, Adopt, Adopted, Insert, Goto
  <2>3. CASE ~Adopts(p)
      BY <1>2, <2>3 DEF TypeOK, Adopt, Goto
  <2> QED
      BY <2>2, <2>3
<1>3. ASSUME NEW p \in Processes, Execute(p) PROVE TypeOK'
  <2> DEFINE f == NextFile(p)
  <2>1. f \in Files
      BY <1>3, NextFileIsFirst DEF Execute
  <2>2. recorded' = recorded \cup {f} /\ users' \in BOOLEAN
      BY <1>3 DEF Execute, Insert, TypeOK
  <2>3. applied' = [applied EXCEPT ![p] = @ \cup {f}]
      BY <1>3 DEF Execute
  <2>4. applied' \in [Processes -> SUBSET recorded']
      BY <2>2, <2>3 DEF TypeOK
  <2>5. definition' \in [Objects -> 0 .. LastFile]
      BY <1>3, <2>1 DEF Execute, TypeOK, Files
  <2> QED
      BY <1>3, <2>1, <2>2, <2>4, <2>5 DEF TypeOK, Execute
<1>4. ASSUME NEW p \in Processes, Collide(p) PROVE TypeOK'
    BY <1>4, StopType DEF Collide, TypeOK
<1>5. ASSUME NEW p \in Processes, Serve(p) PROVE TypeOK'
    BY <1>5 DEF TypeOK, Serve, Goto
<1>6. ASSUME NEW p \in Processes, Fail(p) PROVE TypeOK'
  <2>1. failures' \in 0 .. MaxFailures
      BY <1>6 DEF Fail, TypeOK
  <2> QED
      BY <1>6, <2>1, StopType DEF Fail
<1>7. CASE UNCHANGED vars
    BY <1>7 DEF TypeOK, vars
<1> QED
    BY <1>1, <1>2, <1>3, <1>4, <1>5, <1>6, <1>7 DEF Next, Step

LEMMA TypeInit == Init => TypeOK
PROOF
<1> SUFFICES ASSUME Init PROVE TypeOK
    OBVIOUS
<1>1. PICK f \in 0 .. LastFile :
          /\ recorded = 1 .. f
          /\ definition = [o \in Objects |-> Latest(o, f)]
          /\ users \in {TRUE, f > 0}
    BY DEF Init
<1>2. recorded \in SUBSET Files
    BY <1>1, FilesAssumption DEF Files
<1>3. definition \in [Objects -> 0 .. LastFile]
    BY <1>1, LatestType
<1>4. users \in BOOLEAN
  <2>1. (f > 0) \in BOOLEAN
      OBVIOUS
  <2> QED
      BY <1>1, <2>1, Zenon
<1>5. /\ pc = [p \in Processes |-> "stopped"]
      /\ applied = [p \in Processes |-> {}]
      /\ failures \in 0 .. MaxFailures
    BY BoundAssumption DEF Init
<1> QED
    BY <1>2, <1>3, <1>4, <1>5 DEF TypeOK

\* Types, and with them that a process takes as applied only what is recorded: run_migrations
\* never skips a file that schema_migrations has not got.
THEOREM TypeCorrect == Spec => []TypeOK
PROOF
<1> QED
    BY TypeInit, TypeStep, PTL DEF Spec

-----------------------------------------------------------------------------
(* The record *)

LEMMA InitInOrder == Init => RecordedInOrder
PROOF
<1> SUFFICES ASSUME Init PROVE RecordedInOrder
    OBVIOUS
<1>1. PICK f \in 0 .. LastFile : recorded = 1 .. f
    BY DEF Init
<1> QED
    BY <1>1, FilesAssumption DEF RecordedInOrder

LEMMA StepInOrder ==
    TypeOK /\ RecordedInOrder /\ [Next]_vars => RecordedInOrder'
PROOF
<1> SUFFICES ASSUME TypeOK, RecordedInOrder, [Next]_vars PROVE RecordedInOrder'
    OBVIOUS
<1> USE FilesAssumption DEF Files
<1>1. CASE UNCHANGED recorded
    BY <1>1 DEF RecordedInOrder
<1>2. ASSUME NEW p \in Processes, Adopt(p) PROVE RecordedInOrder'
  <2>1. recorded' = recorded \/ recorded' = recorded \cup {1}
      BY <1>2 DEF Adopt, Insert
  <2> QED
      BY <2>1 DEF RecordedInOrder
<1>3. ASSUME NEW p \in Processes, Execute(p) PROVE RecordedInOrder'
  <2> DEFINE f == NextFile(p)
  <2>1. recorded' = recorded \cup {f}
      BY <1>3 DEF Execute, Insert
  <2>2. f \in Files /\ \A g \in Files : g < f => g \in recorded
      BY <1>3, NextFileIsFirst DEF Execute, TypeOK
  <2>3. 1 .. f \subseteq recorded'
      BY <2>1, <2>2
  <2> QED
      BY <2>1, <2>2, <2>3 DEF RecordedInOrder
<1> QED
    BY <1>1, <1>2, <1>3
       DEF Next, Step, vars, ReadRecord, Collide, Serve, Fail, Stop

\* Wherever processes start, collide and are killed, schema_migrations is a prefix of the
\* files: run_migrations takes the first file that is not applied, and takes as applied only
\* what is recorded.
THEOREM RecordIsAPrefix == Spec => []RecordedInOrder
PROOF
<1>1. Init => TypeOK /\ RecordedInOrder
    BY TypeInit, InitInOrder
<1>2. TypeOK /\ RecordedInOrder /\ [Next]_vars => TypeOK' /\ RecordedInOrder'
    BY TypeStep, StepInOrder
<1> QED
    BY <1>1, <1>2, PTL DEF Spec

-----------------------------------------------------------------------------
(* What a serving process has seen *)

\* A process that serves has taken every file as applied since it started.
ServingAppliedAll == \A p \in Processes : pc[p] = "serving" => applied[p] = Files

LEMMA StepServing ==
    TypeOK /\ ServingAppliedAll /\ [Next]_vars => ServingAppliedAll'
PROOF
<1> SUFFICES ASSUME TypeOK, ServingAppliedAll, [Next]_vars,
                    NEW q \in Processes, pc'[q] = "serving"
             PROVE  applied'[q] = Files
    BY DEF ServingAppliedAll
<1>1. ASSUME NEW p \in Processes, ReadRecord(p) PROVE applied'[q] = Files
    BY <1>1 DEF TypeOK, ServingAppliedAll, ReadRecord, Goto
<1>2. ASSUME NEW p \in Processes, Adopt(p) PROVE applied'[q] = Files
  <2>1. p # q
      BY <1>2 DEF TypeOK, Adopt, Goto
  <2> QED
      BY <1>2, <2>1 DEF TypeOK, ServingAppliedAll, Adopt, Goto
<1>3. ASSUME NEW p \in Processes, Execute(p) PROVE applied'[q] = Files
  <2>1. p # q
      BY <1>3 DEF Execute, Remaining
  <2>2. applied'[q] = applied[q] /\ pc' = pc
      BY <1>3, <2>1 DEF Execute, TypeOK
  <2> QED
      BY <2>2 DEF ServingAppliedAll
<1>4. ASSUME NEW p \in Processes, Stop(p) PROVE applied'[q] = Files
    BY <1>4 DEF TypeOK, ServingAppliedAll, Stop, Goto
<1>5. ASSUME NEW p \in Processes, Serve(p) PROVE applied'[q] = Files
    BY <1>5 DEF TypeOK, ServingAppliedAll, Serve, Goto
<1>6. CASE UNCHANGED vars
    BY <1>6 DEF ServingAppliedAll, vars
<1> QED
    BY <1>1, <1>2, <1>3, <1>4, <1>5, <1>6 DEF Next, Step, Collide, Fail

\* No process is served requests before every file is recorded (the lifespan of main.py),
\* and no other process takes a record back.
THEOREM ServedIsComplete == Spec => []ServedSchemaIsComplete
PROOF
<1>1. Init => TypeOK /\ ServingAppliedAll
    BY TypeInit DEF Init, ServingAppliedAll
<1>2. TypeOK /\ ServingAppliedAll /\ [Next]_vars => TypeOK' /\ ServingAppliedAll'
    BY TypeStep, StepServing
<1>3. TypeOK /\ ServingAppliedAll => ServedSchemaIsComplete
    BY DEF TypeOK, ServingAppliedAll, ServedSchemaIsComplete
<1> QED
    BY <1>1, <1>2, <1>3, PTL DEF Spec
-----------------------------------------------------------------------------
(* One process at a time *)

\* What a starting process takes as applied is what is recorded.
RecordIsCurrent == \A p \in Processes : pc[p] \in {"adopt", "apply"} => applied[p] = recorded

LEMMA InitNoStepBack == Init => NoStepBack
PROOF
<1> SUFFICES ASSUME Init, NEW g \in recorded \ {1}, NEW o \in Defines[g]
             PROVE  definition[o] >= g
    BY DEF NoStepBack
<1>1. PICK f \in 0 .. LastFile :
          /\ recorded = 1 .. f
          /\ definition = [x \in Objects |-> Latest(x, f)]
    BY DEF Init
<1> DEFINE T == {0} \cup {h \in 1 .. f : o \in Defines[h]}
<1>2. f \in 0 .. LastFile /\ f \in Nat /\ g \in 1 .. f /\ g \in Files
    BY <1>1, FilesAssumption DEF Files
<1>3. o \in Objects
    BY <1>2, DefinesAssumption
<1>4. g \in T /\ T \subseteq Nat /\ \A m \in T : m <= f
    BY <1>2
<1>5. Max(T) >= g
  <2>1. T # {}
      BY <1>4
  <2> QED
      BY <1>2, <1>4, <2>1, MaxOfNaturals
<1> QED
    BY <1>1, <1>3, <1>5 DEF Latest

\* With one process the file executed is later than every recorded one.
LEMMA StepNoStepBack ==
    ASSUME NEW p, Processes = {p}
    PROVE  TypeOK /\ RecordedInOrder /\ RecordIsCurrent /\ NoStepBack /\ [Next]_vars
               => RecordIsCurrent' /\ NoStepBack'
PROOF
<1> SUFFICES ASSUME TypeOK, RecordedInOrder, RecordIsCurrent, NoStepBack, [Next]_vars
             PROVE  RecordIsCurrent' /\ NoStepBack'
    OBVIOUS
<1> p \in Processes
    OBVIOUS
<1>1. CASE ReadRecord(p)
    BY <1>1 DEF TypeOK, RecordIsCurrent, NoStepBack, ReadRecord, Goto
<1>2. CASE Adopt(p)
  <2>1. applied[p] = recorded
      BY <1>2 DEF RecordIsCurrent, Adopt
  <2>2. applied'[p] = recorded' /\ (recorded' = recorded \/ recorded' = recorded \cup {1})
    <3>1. CASE Adopts(p)
        BY <1>2, <2>1, <3>1 DEF TypeOK, Adopt, Adopted, Insert
    <3>2. CASE ~Adopts(p)
        BY <1>2, <2>1, <3>2 DEF Adopt
    <3> QED
        BY <3>1, <3>2
  <2>3. definition' = definition
      BY <1>2 DEF Adopt
  <2> QED
      BY <2>2, <2>3 DEF RecordIsCurrent, NoStepBack
<1>3. CASE Execute(p)
  <2> DEFINE f == NextFile(p)
  <2>1. applied[p] = recorded
      BY <1>3 DEF RecordIsCurrent, Execute, Remaining
  <2>2. f \in Files /\ f \notin recorded
      BY <1>3, <2>1, NextFileIsFirst DEF Execute
  <2>3. recorded' = recorded \cup {f} /\ applied' = [applied EXCEPT ![p] = @ \cup {f}]
      BY <1>3 DEF Execute, Insert
  <2>4. RecordIsCurrent'
      BY <2>1, <2>3 DEF RecordIsCurrent, TypeOK
  <2>5. \A g \in recorded : g \in Files /\ g < f
      BY <2>2, FilesAssumption DEF TypeOK, RecordedInOrder, Files
  <2>6. \A g \in Files : Defines[g] \subseteq Objects
      BY DefinesAssumption
  <2>7. \A o \in Objects : definition'[o] = IF o \in Defines[f] THEN f ELSE definition[o]
      BY <1>3 DEF Execute
  <2>8. ASSUME NEW g \in recorded' \ {1}, NEW o \in Defines[g] PROVE definition'[o] >= g
    <3>1. o \in Objects
        BY <2>2, <2>3, <2>5, <2>6, <2>8
    <3>2. CASE o \in Defines[f]
        BY <2>2, <2>3, <2>5, <2>7, <3>1, <3>2, FilesAssumption DEF Files
    <3>3. CASE o \notin Defines[f]
        BY <2>3, <2>7, <2>8, <3>1, <3>3 DEF NoStepBack
    <3> QED
        BY <3>2, <3>3
  <2>9. NoStepBack'
      BY <2>8 DEF NoStepBack
  <2> QED
      BY <2>4, <2>9
<1>4. CASE Stop(p)
    BY <1>4 DEF TypeOK, RecordIsCurrent, NoStepBack, Stop, Goto
<1>5. CASE Serve(p)
    BY <1>5 DEF TypeOK, RecordIsCurrent, NoStepBack, Serve, Goto
<1>6. CASE UNCHANGED vars
    BY <1>6 DEF RecordIsCurrent, NoStepBack, vars
<1> QED
    BY <1>1, <1>2, <1>3, <1>4, <1>5, <1>6 DEF Next, Step, Collide, Fail

\* With one server process, started as often as it fails, no file is executed again after a
\* later one: db_migrate.py:7-8 holds, and what it says can only fail between processes.
THEOREM NoStepBackForOneProcess ==
    ASSUME NEW p, Processes = {p}
    PROVE  Spec => []NoStepBack
PROOF
<1>1. Init => TypeOK /\ RecordedInOrder /\ RecordIsCurrent /\ NoStepBack
    BY TypeInit, InitInOrder, InitNoStepBack DEF Init, RecordIsCurrent
<1>2. TypeOK /\ RecordedInOrder /\ RecordIsCurrent /\ NoStepBack /\ [Next]_vars
          => TypeOK' /\ RecordedInOrder' /\ RecordIsCurrent' /\ NoStepBack'
    BY TypeStep, StepInOrder, StepNoStepBack
<1> QED
    BY <1>1, <1>2, PTL DEF Spec
=============================================================================
