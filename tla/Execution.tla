----------------------------- MODULE Execution -----------------------------
(***************************************************************************)
(* What a worker does with one BatchClass: MethodPlanner::plan orders the  *)
(* methods and lays out their data sets, TestExecutor::runClass runs them  *)
(* and yields one outcome row for each.  The methods go by their names.    *)
(*                                                                         *)
(* How the PHP code behaves is part of the class and of the method: hooks  *)
(* that fail (hookFails), requirements that are not met (unmet), a data    *)
(* provider ("none", "rows" or "throws"), and for every data set what each *)
(* phase of the test ends in, <<constructor, body, output, teardown>>.     *)
(***************************************************************************)
EXTENDS Discovery

CONSTANT PHPUNIT_MAJOR

Status == {"pass", "fail", "error", "skipped"}

(* The definitions PHP finds for a class and for a method it calls.        *)
ClassIn(project, fqcn) == CHOOSE c \in AllClasses(project) : c.fqcn = fqcn
MethodsIn(project, fqcn, name) == PhpMethod(fqcn, name, AllClasses(project))
MethodIn(project, fqcn, name) == CHOOSE m \in MethodsIn(project, fqcn, name) : TRUE

(* The class or an ancestor declares setUpBeforeClass: the method that     *)
(* runs once per runClass.                                                 *)
HasHooks(project, fqcn) == \E c \in ToSet(Chain(fqcn, AllClasses(project))) : c.hooks

----------------------------------------------------------------------------
(* A batch is given as the names of its methods by index, to be run in the *)
(* order of the indices.  What those the class has depend on:              *)
Runnable(project, fqcn, names) ==
  [m \in {n \in ToSet(names) : MethodsIn(project, fqcn, n) # {}} |->
     MethodIn(project, fqcn, m).depends]

(* MethodPlanner::topoSort, its recursion as a stack: methods to visit,    *)
(* and methods to put out once all they depend on has been visited.        *)
Visit(work, m, rest, depends) ==
  [ visited |-> work.visited \cup {m},
    out |-> work.out,
    todo |-> IF m \notin DOMAIN depends THEN rest
             ELSE [i \in DOMAIN depends[m] |-> [m |-> depends[m][i], out |-> FALSE]]
                    \o <<[m |-> m, out |-> TRUE]>> \o rest ]

(* One turn: the top of the stack, or the first name not visited yet.      *)
TopoTurn(work, names, depends) ==
  LET left == {i \in DOMAIN names : names[i] \notin work.visited}
      top == Head(work.todo)
      rest == Tail(work.todo)
  IN CASE work.todo = <<>> /\ left = {} -> work
       [] work.todo = <<>> /\ left # {} -> Visit(work, names[Min(left)], <<>>, depends)
       [] work.todo # <<>> /\ top.out   -> [work EXCEPT !.todo = rest, !.out = Append(@, top.m)]
       [] work.todo # <<>> /\ ~top.out /\ top.m \in work.visited    -> [work EXCEPT !.todo = rest]
       [] work.todo # <<>> /\ ~top.out /\ top.m \notin work.visited -> Visit(work, top.m, rest, depends)

(* Mutant: the methods run in the order of the batch.                      *)
UnsortedSteps(project, fqcn, names) ==
  LET indices == SetToSortSeq(DOMAIN names, LAMBDA i, j : i < j)
  IN [n \in DOMAIN indices |-> names[indices[n]]]

(* No name is visited twice: Turns are enough.                             *)
Turns(names, depends) ==
  Cardinality(DOMAIN names) * (2 + Max({Len(depends[m]) : m \in DOMAIN depends} \cup {0}))

TopoSort(project, fqcn, names) ==
  LET depends == Runnable(project, fqcn, names)
      after[n \in 0 .. Turns(names, depends)] ==
        IF n = 0 THEN [visited |-> {}, out |-> <<>>, todo |-> <<>>]
        ELSE TopoTurn(after[n - 1], names, depends)
  IN after[Turns(names, depends)].out

----------------------------------------------------------------------------
(* The outcome of a test: the first of its phases that does not pass; a    *)
(* teardown's error counts only when nothing failed before.                *)
RowStatus(phases) ==
  LET bad == {i \in DOMAIN phases : phases[i] # "pass"}
  IN IF bad = {} THEN "pass" ELSE phases[Min(bad)]

(* Every data set of a method ends in s.                                   *)
Each(rows, s) == [i \in DOMAIN rows |-> s]

(* setUpBeforeClass is called and throws.                                  *)
FailsFirst(class) == ~class.unmet /\ class.hookFails

(* The rows of one method, the methods in passed having passed before it.  *)
MethodRows(class, m, passed) ==
  LET unmet == class.unmet \/ m.unmet
  IN IF m.provider = "throws" THEN <<"error">>
     ELSE IF \/ m.provider = "rows" /\ m.rows = <<>>
             \/ unmet /\ ~FailsFirst(class) /\ PHPUNIT_MAJOR >= 10
     THEN <<"skipped">>
     ELSE IF FailsFirst(class) THEN Each(m.rows, "error")
     ELSE IF unmet \/ ~(ToSet(m.depends) \subseteq passed) THEN Each(m.rows, "skipped")
     ELSE [i \in DOMAIN m.rows |-> RowStatus(m.rows[i])]

(* runClass: the rows by method.  A method has passed, for those that      *)
(* depend on it, as soon as one of its data sets has.                      *)
RunClass(project, fqcn, names) ==
  LET class == ClassIn(project, fqcn)
      order == TopoSort(project, fqcn, names)
      rows(m, passed) == MethodRows(class, MethodIn(project, fqcn, m), passed)
      passed[n \in 0 .. Len(order)] ==
        IF n = 0 THEN {}
        ELSE LET P == passed[n - 1]
             IN IF "pass" \in ToSet(rows(order[n], P)) THEN P \cup {order[n]} ELSE P
  IN [m \in ToSet(order) |-> rows(m, passed[(CHOOSE n \in DOMAIN order : order[n] = m) - 1])]

(* Does runClass call the class's hooks?                                   *)
CallsHooks(project, fqcn) == HasHooks(project, fqcn) /\ ~ClassIn(project, fqcn).unmet
=============================================================================
