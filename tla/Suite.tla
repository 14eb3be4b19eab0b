------------------------------- MODULE Suite -------------------------------
(***************************************************************************)
(* The data a run is about: the test methods, the classes they belong to,  *)
(* the batch plans that carry them to a worker, and the pure decisions     *)
(* runner.rs takes on them (what a received outcome covers, and how the    *)
(* batch of a dead worker is cut up again).                                *)
(*                                                                         *)
(* A test method is a number.  The numbering follows the order in which    *)
(* build_queue lays methods out, so inside any plan the methods run in     *)
(* increasing order and a plan is a SET of tests: one BatchClass per class *)
(* occurring in it, its methods being the plan's tests of that class.      *)
(***************************************************************************)
EXTENDS Integers, FiniteSets

CONSTANTS
  NTests,       \* how many test methods the run has
  Class,        \* the test classes
  ClassOf,      \* the class of each method
  RowsOf,       \* the outcome rows a method yields: one per data set
  InitialPlans  \* what build_queue returned

Test == 1 .. NTests

(* An outcome row: a method and one of its data sets.                      *)
Case == UNION {{t} \X (1 .. RowsOf[t]) : t \in Test}

(* The data sets a plan carries besides its tests (files, fingerprint) do  *)
(* not change what the protocol does.  force is force_exit_after.          *)
Plan == [tests : (SUBSET Test) \ {{}}, force : BOOLEAN]

(* Option::None for a slot's in-flight batch.                              *)
NoPlan == [tests |-> {}, force |-> FALSE]

ASSUME SuiteAssumption ==
  /\ NTests \in Nat
  /\ ClassOf \in [Test -> Class]
  /\ RowsOf \in [Test -> Nat \ {0}]
  /\ InitialPlans \subseteq Plan

(* build_queue puts every method in one plan, and keeps the methods of a   *)
(* class together inside a plan.                                           *)
ASSUME PlansPartitionTheSuite ==
  /\ \A p, q \in InitialPlans : p = q \/ p.tests \cap q.tests = {}
  /\ Test = UNION {p.tests : p \in InitialPlans}
  /\ \A p \in InitialPlans : \A t, u, v \in p.tests :
       t < u /\ u < v /\ ClassOf[t] = ClassOf[v] => ClassOf[u] = ClassOf[t]

----------------------------------------------------------------------------
(* The first of a set of tests, as a set (empty or a singleton).           *)
First(S) == {t \in S : \A u \in S : t <= u}

(* The tests of the BatchClass the worker reaches first among S.           *)
Entry(S) == {t \in S : \E f \in First(S) : ClassOf[t] = ClassOf[f]}

ClassesOf(S) == {ClassOf[t] : t \in S}

(* All rows of a set of methods.                                           *)
RowsOfTests(S) == {c \in Case : c[1] \in S}

(* Mutant: only <class> rows count as received.                            *)
CoveredByClassRow(pairs, classes) == {t \in Test : ClassOf[t] \in classes}

(* ReceivedOutcomes::covers: the exact method was received, or a <class>   *)
(* row speaks for its whole class.  A row counts whatever its data set.    *)
Covered(pairs, classes) == {t \in Test : t \in pairs \/ ClassOf[t] \in classes}

----------------------------------------------------------------------------
(* requeue_unrun.  A test dies with its worker at most MAX_ATTEMPTS times. *)
MAX_ATTEMPTS == 2

(* Mutant: the cap is off by one.                                          *)
PoisonedLate(unrun, attempts) == {t \in unrun : attempts[t] + 1 > MAX_ATTEMPTS}

(* Tests of the lost batch that would reach the cap: reported as Errors.   *)
Poisoned(unrun, attempts) == {t \in unrun : attempts[t] + 1 >= MAX_ATTEMPTS}

(* The first un-reported test is isolated, in a plan that ends its worker. *)
Suspect(unrun, attempts) == First(unrun) \ Poisoned(unrun, attempts)

(* Mutant: the suspect stays with the others.                              *)
InnocentAndSuspect(unrun, attempts) == unrun \ Poisoned(unrun, attempts)

(* The others go back together.                                            *)
Innocent(unrun, attempts) == unrun \ (First(unrun) \cup Poisoned(unrun, attempts))

(* Mutants: an empty plan is queued too; only the suspect is queued.       *)
RequeuedEvenEmpty(unrun, attempts) ==
  { [tests |-> Suspect(unrun, attempts),  force |-> TRUE],
    [tests |-> Innocent(unrun, attempts), force |-> FALSE] }
RequeuedSuspect(unrun, attempts) ==
  {p \in {[tests |-> Suspect(unrun, attempts), force |-> TRUE]} : p.tests # {}}

Requeued(unrun, attempts) ==
  {p \in { [tests |-> Suspect(unrun, attempts),  force |-> TRUE],
           [tests |-> Innocent(unrun, attempts), force |-> FALSE] } : p.tests # {}}
=============================================================================
