------------------------------ MODULE Planning ------------------------------
(***************************************************************************)
(* build_queue and dependency_chains: from the pending tests S to the      *)
(* batch plans sent to the workers.  A plan is [classes, force]: the       *)
(* BatchClasses [class, methods, isolated] one worker runs one after the   *)
(* other, and whether the worker exits afterwards.  Methods are indices of *)
(* cases, in the order of which they are run; the classes of a plan are    *)
(* run in the order they were packed (Foremost).  So both can be kept as   *)
(* sets, and so can the queue, as in Dispatcher.  Row counts are empty in  *)
(* production: no method is split into row chunks.                         *)
(***************************************************************************)
EXTENDS Discovery

OVERSATURATION == 4

----------------------------------------------------------------------------
(* dependency_chains: union-find over the methods.  (Its find also halves  *)
(* the path it walks, which no root depends on.)                           *)
Find(parent, x) ==
  LET root[i \in DOMAIN parent] == IF parent[i] = i THEN i ELSE root[parent[i]] IN root[x]

(* Mutant: the index is hung below the other's root, not its own root.     *)
JoinLeaf(parent, i, j) == [parent EXCEPT ![i] = Find(parent, j)]

Join(parent, i, j) == [parent EXCEPT ![Find(parent, i)] = Find(parent, j)]

(* Mutant: only the first dependency of a method counts.                   *)
FirstEdges(cases, methods) ==
  {e \in methods \X methods :
     cases[e[1]].depends # <<>> /\ cases[e[2]].method = Head(cases[e[1]].depends)}

(* One edge for each dependency on a method of the slice.                  *)
Edges(cases, methods) ==
  {e \in methods \X methods : cases[e[2]].method \in ToSet(cases[e[1]].depends)}

(* The groups.  In which order the edges are joined decides which method   *)
(* is the root of a group, not what the group is.                          *)
DependencyChains(cases, methods) ==
  LET parent == FoldSet(LAMBDA e, p : Join(p, e[1], e[2]), [i \in methods |-> i],
                        Edges(cases, methods))
  IN {{i \in methods : Find(parent, i) = r} : r \in {Find(parent, i) : i \in methods}}

----------------------------------------------------------------------------
(* build_queue's accumulator: the plans made, and the bin being filled     *)
(* with its size and whether one of its classes must end the worker.       *)
EmptyBin == [plans |-> {}, bin |-> {}, size |-> 0, force |-> FALSE]

(* Mutant: the flushed bin forgets what it contains.                       *)
FlushForgets(q) ==
  IF q.bin = {} THEN q
  ELSE [EmptyBin EXCEPT !.plans = q.plans \cup {[classes |-> q.bin, force |-> FALSE]}]

Flush(q) ==
  IF q.bin = {} THEN q
  ELSE [EmptyBin EXCEPT !.plans = q.plans \cup {[classes |-> q.bin, force |-> q.force]}]

AddPlans(q, plans) == [q EXCEPT !.plans = @ \cup plans]

(* A class that fills a plan gets its own; a smaller one joins the bin.    *)
Pack(q, batch, force, target) ==
  LET cost == Cardinality(batch.methods)
      binned == [q EXCEPT !.bin = @ \cup {batch}, !.size = @ + cost, !.force = @ \/ force]
  IN CASE cost >= target -> AddPlans(Flush(q), {[classes |-> {batch}, force |-> force]})
       [] OTHER          -> IF binned.size >= target THEN Flush(binned) ELSE binned

(* Mutant: any class is cut into its dependency chains.                    *)
SplittableAlways(g) == TRUE

(* Hooks that run once for all methods keep a class in one piece.          *)
Splittable(g) == ~g.hooks

(* One class.  An isolated method has a worker of its own; the dependency  *)
(* chains of a class without lifecycle hooks are spread over the workers;  *)
(* its methods with data providers, and any other class, stay together.    *)
AddClass(q, g, target) ==
  LET real == {j \in g.methods : ~g.cases[j].tautological}
      provided == {j \in real : g.cases[j].provider}
      plain == real \ provided
      batch(ms) == [class |-> g.class, methods |-> ms, isolated |-> g.isolated]
      plan(ms, force) == [classes |-> {batch(ms)}, force |-> force]
      chained == IF plain = {} THEN q
                 ELSE AddPlans(Flush(q), {plan(ms, g.stateful) : ms \in DependencyChains(g.cases, plain)})
      packed == CASE ~Splittable(g)                   -> Pack(q, batch(real), g.stateful, target)
                  [] Splittable(g) /\ provided = {}   -> chained
                  [] Splittable(g) /\ provided # {}   -> Pack(chained, batch(provided), g.stateful, target)
  IN CASE g.isolated                -> AddPlans(q, {plan({j}, TRUE) : j \in real})
       [] ~g.isolated /\ real = {}  -> q
       [] ~g.isolated /\ real # {}  -> packed

(* Of some classes the one with most tests in S, of two the first.         *)
Foremost(classes, S) ==
  LET size(k) == Cardinality({t \in S : t[1] = k})
  IN CHOOSE k \in classes : \A l \in classes :
       size(l) < size(k) \/ (size(l) = size(k) /\ k <= l)

(* The size a plan is filled up to.                                        *)
Target(S, workers) ==
  LET share == Cardinality(S) \div (workers * OVERSATURATION) IN IF share = 0 THEN 1 ELSE share

(* The loop over the classes, the largest first.                           *)
Packed(found, S, workers) ==
  LET groups == GroupByClass(found, S)
      turns == Cardinality(DOMAIN groups)
      after[n \in 0 .. turns] ==
        IF n = 0 THEN [q |-> EmptyBin, todo |-> DOMAIN groups]
        ELSE LET w == after[n - 1]
                 k == Foremost(w.todo, S)
             IN [q |-> AddClass(w.q, groups[k], Target(S, workers)), todo |-> w.todo \ {k}]
  IN after[turns].q

(* Mutant: the last bin is not flushed.                                    *)
Unflushed(found, S, workers) == Packed(found, S, workers).plans

BuildQueue(found, S, workers) == Flush(Packed(found, S, workers)).plans

(* The tautological tests: reported as passed, never sent to a worker.     *)
Synthetic(found, S) == {t \in S : Case(found, t).tautological}

----------------------------------------------------------------------------
(* What a plan is about.                                                   *)
BatchTests(batch) == {batch.class} \X batch.methods
PlanTests(plan) == UNION {BatchTests(b) : b \in plan.classes}

(* The reference for DependencyChains: a method and all it is linked to.   *)
Component(i, cases, methods) ==
  LET linked(T) == {j \in methods : \E m \in T : \/ cases[m].method \in ToSet(cases[j].depends)
                                                \/ cases[j].method \in ToSet(cases[m].depends)}
  IN Closure({i}, linked, Cardinality(methods))
=============================================================================
