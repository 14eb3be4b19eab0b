------------------------------- MODULE Parity -------------------------------
(***************************************************************************)
(* What a whole run owes: the report a single process running every class  *)
(* in one go would give, whatever the run was cut into and whoever died.   *)
(***************************************************************************)
EXTENDS Pipeline

TypeOK ==
  /\ scenario \in DOMAIN Scenarios
  /\ phase \in {"start", "planning", "running", "returned", "reported", "refused", "failed"}
  /\ unfinished \subseteq pending /\ pending \subseteq Chosen
  /\ inline \in BOOLEAN /\ masterDied \in BOOLEAN /\ lost \in BOOLEAN
  /\ \A p \in queue : p.classes # {} /\ PlanTests(p) \subseteq pending /\ p.force \in BOOLEAN
  /\ \A s \in Slot : /\ slot[s].state \in {"absent", "idle", "busy"}
                     /\ PlanTests(slot[s].plan) \subseteq pending
                     /\ slot[s].left \subseteq slot[s].plan.classes
                     /\ slot[s].stained \in BOOLEAN
  /\ phase = "running" => received \subseteq pending
  /\ attempts \in [AllTests -> 0 .. MAX_ATTEMPTS - 1]
  /\ respawns \in 0 .. MAX_MASTER_RESPAWNS + 1
  /\ \A i \in AllTests : ToSet(report[i]) \subseteq Status \cup {"synthError"}
  /\ \A i \in AllTests : starts[i].call \in 0 .. MAX_ATTEMPTS /\ starts[i].all \in Nat
  /\ deaths.worker \in 0 .. Scenarios[scenario].workerDeaths /\ deaths.master \in 0 .. Scenarios[scenario].masterDeaths

NothingDied == deaths.worker = 0 /\ deaths.master = 0

(* The rows of a test when its class runs in one piece: the reference.     *)
Whole(k) == Rows(k, {j \in DOMAIN Found[k] : <<k, j>> \in Chosen})
GivenUp(t) == ~NothingDied /\ report[t] = <<"synthError">>

----------------------------------------------------------------------------
(* emit_test_cases finds what PHP runs, if it can know the ancestors: each *)
(* case of a test class is a method of that class or one it inherits, once *)
(* and with the properties of the definition PHP calls; and no method is   *)
(* missed, as long as the fold sees all the class descends from and uses.  *)
NearestDefinition ==
  phase = "start" =>
    /\ project.psr4 =>
         DOMAIN Found = {k \in DOMAIN project.root : IsEmitted(project.root[k], AllClasses(project))}
    /\ \A k \in DOMAIN Found :
         LET fqcn == project.root[k].fqcn
             cases == Found[k]
             names == UNION {{m.name : m \in ToSet(c.methods)} : c \in AllClasses(project)}
         IN /\ \A i, j \in DOMAIN cases : cases[i].method = cases[j].method => i = j
            /\ \A c \in ToSet(cases) : LET m == MethodIn(project, fqcn, c.method) IN
                 /\ c.method \in names /\ MethodsIn(project, fqcn, c.method) # {}
                 /\ c.depends = m.depends /\ c.refs = m.refs
                 /\ c.tautological = IsTautological(m) /\ c.provider = (m.provider # "none")
            /\ Covered(project.root[k], project) =>
                 \A n \in names : MethodsIn(project, fqcn, n) # {} => \E c \in ToSet(cases) : c.method = n

(* "We union test methods from the class itself plus every parsed ancestor *)
(* in the chain": a test class has a case for each method of each class it *)
(* descends from and discovery has parsed.                                 *)
AncestorsFolded ==
  phase = "start" =>
    \A k \in DOMAIN Found : \A c \in ToSet(Chain(project.root[k].fqcn, Graph(project))) :
      {m.name : m \in ToSet(c.methods)} \subseteq {t.method : t \in ToSet(Found[k])}

(* build_queue puts each pending test that is not tautological in one plan *)
(* and keeps the tests of a class together inside a plan: what Suite       *)
(* assumes of InitialPlans.                                                *)
PlansPartitionPending ==
  phase = "planning" =>
    LET plans == BuildQueue(Found, pending, Workers) IN
    /\ UNION {PlanTests(p) : p \in plans} = pending \ Synthetic(Found, pending)
    /\ \A p, q \in plans : p = q \/ PlanTests(p) \cap PlanTests(q) = {}
    /\ \A p \in plans : \A b, c \in p.classes : b = c \/ b.class # c.class

(* The union-find of dependency_chains computes the connected components,  *)
(* also of a class some of whose methods are reported already.             *)
ChainsAreComponents ==
  phase = "planning" =>
    LET groups == GroupByClass(Found, pending) IN
    \A k \in DOMAIN groups :
      LET cases == groups[k].cases
          plain == {j \in groups[k].methods : ~cases[j].tautological /\ ~cases[j].provider}
      IN DependencyChains(cases, plain) = {Component(i, cases, plain) : i \in plain}

(* MethodPlanner runs each method of a batch once, and after those of the  *)
(* batch it depends on, unless these depend on it in turn.                 *)
DependenciesFirst ==
  phase = "planning" =>
    \A p \in BuildQueue(Found, pending, Workers) : \A b \in p.classes :
      LET names == [j \in b.methods |-> Found[b.class][j].method]
          fqcn == project.root[b.class].fqcn
          order == TopoSort(project, fqcn, names)
          before == [m \in ToSet(names) |-> ToSet(MethodIn(project, fqcn, m).depends) \cap ToSet(names)]
          step(S) == UNION {before[m] : m \in S}
      IN /\ ToSet(order) = ToSet(names) /\ Len(order) = Cardinality(b.methods)
         /\ \A i, j \in DOMAIN order : order[j] \in before[order[i]] =>
              j < i \/ order[i] \in Closure({order[j]}, step, Len(order))

----------------------------------------------------------------------------
(* "Exact test-count parity": each selected test has as many rows in the   *)
(* report as a whole run of its class would give, or the one Error it was  *)
(* given up with; a test skipped for want of a database has one; no other  *)
(* test is there.  (A tautological test over several data sets gets one    *)
(* synthetic row for all of them.)                                         *)
ExactCount(t) == GivenUp(t) \/ Len(report[t]) = Len(Whole(t[1])[t])

OthersAbsent ==
  \A t \in AllTests \ Chosen : report[t] = IF t \in Skips THEN <<"skipped">> ELSE <<>>

CountParity ==
  phase = "reported" =>
    /\ \A t \in Chosen : \/ Case(Found, t).tautological /\ Case(Found, t).provider
                         \/ ExactCount(t)
    /\ OthersAbsent

(* The first test waits for the second in MethodPlanner's sense.           *)
DependsOn(c, d) == d.method \in ToSet(c.depends)

SameVerdict(t) == report[t] = Whole(t[1])[t]

(* "Topological sort + return-value injection within a class": a test that *)
(* depends on others of its class is reported as in a whole run of it.     *)
DependenciesHonoured ==
  phase = "reported" /\ NothingDied =>
    \A t \in Chosen : Case(Found, t).depends # <<>> => SameVerdict(t)

(* A class none of whose dependencies build_queue or a lost process tears  *)
(* apart: into a synthetic pass, two isolated workers, the two halves of a *)
(* class without hooks, or two plans after a death.                        *)
Uncut(k) ==
  \A t, u \in {v \in Chosen : v[1] = k} :
    LET c == Case(Found, t)
        d == Case(Found, u)
    IN DependsOn(c, d) =>
         /\ NothingDied
         /\ ~c.tautological /\ ~d.tautological
         /\ ~c.isolated
         /\ c.hooks \/ c.provider = d.provider

(* Cutting a class into plans that run anywhere in any order shows in no   *)
(* verdict, as long as its dependencies are not cut.                       *)
VerdictParity ==
  phase = "reported" =>
    \A t \in Chosen :
      Uncut(t[1]) /\ ~Case(Found, t).tautological => GivenUp(t) \/ SameVerdict(t)

(* "The runner forces a fresh fork for each batch of such a class": code   *)
(* that ran a stateful or isolated class runs no later plan.  (Until a     *)
(* worker dies: what requeue_unrun then queues does not force the exit.)   *)
NoBleed ==
  deaths.worker = 0 => \A s \in Slot : slot[s].state = "idle" => ~slot[s].stained

(* Hooks "run once per class (not once per test)": a class that declares   *)
(* them itself and is not isolated runs in one piece.                      *)
HooksOnce ==
  NothingDied =>
    \A t \in Chosen : Case(Found, t).hooks /\ ~Case(Found, t).isolated => hookCalls[t[1]] <= 1

----------------------------------------------------------------------------
(* The run implements the respawn loop, seen from the outside.             *)
LoopState ==
  CASE phase = "start" -> "idle"
    [] phase \in {"planning", "running"} -> "calling"
    [] phase \in {"refused", "failed"} -> "failed"
    [] phase \in {"returned", "reported"} -> phase

Wanted == IF phase \in {"start", "refused"} THEN {} ELSE Chosen

Verdicts ==
  [t \in AllTests |-> IF t \notin Chosen \/ report[t] = <<>> THEN "none"
                      ELSE IF report[t] = <<"synthError">> THEN "error" ELSE "ran"]

CallRuns == [t \in AllTests |-> starts[t].call]
Runs == [t \in AllTests |-> starts[t].all]

Loop == INSTANCE Respawn WITH
  Test <- AllTests, state <- LoopState, wanted <- Wanted, verdict <- Verdicts,
  excused <- {}, stopped <- FALSE, roundRuns <- CallRuns, runs <- Runs

(* Every call returns all it was given judged or handed back, a test is    *)
(* started twice a call at most, and there are four calls at most.         *)
ImplementsRespawn == Loop!Safety

(* A run ends.                                                             *)
Termination == <>(phase \in {"reported", "refused", "failed"})
=============================================================================
