--------------------------- MODULE PipelineProofs ---------------------------
(***************************************************************************)
(* The safety of a whole run, proved: what each test, plan and slot is     *)
(* worth in every phase.                                                   *)
(***************************************************************************)
EXTENDS Parity, DiscoveryProofs

Owing == {t \in Chosen : report[t] = <<>>}
QueueTests == UNION {PlanTests(p) : p \in queue}
LeftTests(s) == UNION {BatchTests(b) : b \in slot[s].left}

(* A plan, or what is left of one: batches of pending tests, one a class.  *)
SoundBatches(B, found, S) ==
  /\ \A b \in B : /\ b \in Batches /\ b.methods # {}
                  /\ BatchTests(b) \subseteq RealOf(found, S, {b.class})
  /\ \A b, c \in B : b = c \/ b.class # c.class
Sound(p, found, S) == p \in Plans /\ p.classes # {} /\ SoundBatches(p.classes, found, S)

PhaseOK ==
  /\ scenario \in DOMAIN Scenarios
  /\ phase \in {"start", "planning", "running", "returned", "reported", "refused", "failed"}
  /\ inline \in BOOLEAN /\ masterDied \in BOOLEAN /\ lost \in BOOLEAN
  /\ pending \subseteq Chosen /\ unfinished \subseteq pending
  /\ respawns \in 0 .. MAX_MASTER_RESPAWNS + 1
  /\ deaths \in [worker : 0 .. Scenarios[scenario].workerDeaths,
                 master : 0 .. Scenarios[scenario].masterDeaths]
  /\ phase \in {"start", "refused"} => respawns = 0 /\ NothingDied /\ pending = {}
  /\ phase \in {"start", "refused", "planning", "running", "reported"} => unfinished = {}
  /\ phase \in {"planning", "running"} \/ unfinished # {} => respawns <= MAX_MASTER_RESPAWNS
  /\ phase \notin {"start", "refused"} /\ NothingDied => pending = Chosen /\ unfinished = {}
  /\ phase = "running" /\ masterDied => deaths.master > 0
  /\ inline => Workers = 1 /\ \A t \in Chosen : ~Case(Found, t).stateful /\ ~Case(Found, t).isolated

SlotRecords == [state : {"absent", "idle", "busy"}, plan : Plans, left : SUBSET Batches, stained : BOOLEAN]

(* A worker with a plan has what is left of it, any other has nothing.     *)
SlotOK(w, found, S) ==
  /\ w \in SlotRecords
  /\ w.state = "busy" => Sound(w.plan, found, S) /\ w.left \subseteq w.plan.classes
  /\ w.state # "busy" => w.plan = NoPlan /\ w.left = {}

SlotsOK ==
  /\ slot \in [Slot -> SlotRecords]
  /\ \A s \in Slot : SlotOK(slot[s], Found, pending)
  /\ phase # "running" => queue = {} /\ slot = [s \in Slot |-> Absent]
  /\ phase = "running" =>
       /\ \A p \in queue : Sound(p, Found, pending)
       /\ received \subseteq pending
       /\ lost => masterDied
       /\ ~masterDied => \A s \in Slot : s <= Workers => slot[s].state # "absent"

(* Each pending test is received, or in one plan that is queued or in work *)
(* - unless a plan was lost.                                               *)
TestsOK ==
  phase = "running" =>
    /\ \A p \in queue : PlanTests(p) \cap received = {}
    /\ \A p, q \in queue : p = q \/ PlanTests(p) \cap PlanTests(q) = {}
    /\ \A s \in Slot : LeftTests(s) \cap (received \cup QueueTests) = {}
    /\ \A s, r \in Slot : s = r \/ LeftTests(s) \cap LeftTests(r) = {}
    /\ \A s \in Slot : PlanTests(slot[s].plan) \subseteq LeftTests(s) \cup received
    /\ ~lost => pending \subseteq received \cup QueueTests \cup UNION {LeftTests(s) : s \in Slot}

(* What is started is what is dispatched.                                  *)
StartsOK ==
  /\ attempts \in [AllTests -> 0 .. MAX_ATTEMPTS - 1]
  /\ starts \in [AllTests -> [call : 0 .. MAX_ATTEMPTS, all : Nat]]
  /\ phase \in {"start", "planning"} => \A t \in AllTests : starts[t].call = 0
  /\ phase = "running" =>
       /\ \A t \in QueueTests : starts[t].call = attempts[t]
       /\ \A s \in Slot : \A t \in LeftTests(s) : starts[t].call = attempts[t] + 1

(* How many rows a test has.                                               *)
RowCount(proj, found, t) ==
  LET fqcn == proj.root[t[1]].fqcn
  IN Len(MethodRows(ClassIn(proj, fqcn), MethodIn(proj, fqcn, Case(found, t).method), {}))

(* What a selected test is reported with: an Error if something died, a    *)
(* synthetic pass, or rows of its own.                                     *)
Judgement(r, t, proj, found, died) ==
  \/ r = <<"synthError">> /\ died
  \/ r = <<"pass">> /\ Case(found, t).tautological
  \/ r \in Seq(Status) /\ r # <<>> /\ Len(r) = RowCount(proj, found, t)

Row == Status \cup {"synthError"}
Judged(t) == Judgement(report[t], t, project, Found, ~NothingDied)

ReportOK ==
  /\ report \in [AllTests -> Seq(Row)]
  /\ \A t \in Chosen : report[t] = <<>> \/ Judged(t)
  /\ phase # "reported" => \A t \in AllTests \ Chosen : report[t] = <<>>
  /\ phase = "reported" => OthersAbsent
  /\ phase = "start" => Owing = Chosen
  /\ phase = "refused" => Owing = Chosen
  /\ phase = "planning" => Owing = pending
  /\ phase = "running" => Owing = pending \ received
  /\ phase = "returned" => Owing = unfinished
  /\ phase = "reported" => Owing = {}

(* While no worker died, the code of a marked class runs in plans that     *)
(* force an exit.                                                          *)
StainOK ==
  deaths.worker = 0 =>
    /\ \A p \in queue : \A b \in p.classes : Marked(Found, pending, b.class) => p.force
    /\ \A s \in Slot : \A b \in slot[s].plan.classes : Marked(Found, pending, b.class) => slot[s].plan.force
    /\ \A s \in Slot : slot[s].stained => slot[s].state = "busy" /\ slot[s].plan.force /\ ~inline

(* The hooks of a class in one piece were called once if its tests are     *)
(* received, else not at all.                                              *)
HookOK(k) ==
  LET all == RealOf(Found, Chosen, {k}) IN
  /\ hookCalls[k] <= 1
  /\ phase \in {"start", "planning", "refused"} => hookCalls[k] = 0
  /\ phase = "running" =>
       /\ \A p \in queue : \A b \in p.classes : b.class = k => BatchTests(b) = all
       /\ \A s \in Slot : \A b \in slot[s].left : b.class = k => BatchTests(b) = all
       /\ hookCalls[k] = 0 \/ all \subseteq received

HooksOK ==
  /\ hookCalls \in [{t[1] : t \in AllTests} -> Nat]
  /\ NothingDied => \A k \in {t[1] : t \in Chosen} : InOnePiece(Found, Chosen, k) => HookOK(k)

IInv == PhaseOK /\ SlotsOK /\ TestsOK /\ StartsOK /\ ReportOK /\ StainOK /\ HooksOK

----------------------------------------------------------------------------
(* What the start-up computes from the project and the options.            *)
Known(n) ==
  /\ FoundOk(FoundIn[n]) /\ Uniform(FoundIn[n])
  /\ ChosenIn[n] \subseteq TestsOf(FoundIn[n]) /\ IsFiniteSet(ChosenIn[n])
  /\ TestsOf(FoundIn[n]) \subseteq AllTests

\* The cases discovered in a class agree on what belongs to the class.
LEMMA FoundIsUniform ==
  ASSUME NEW proj
  PROVE  Uniform(DiscoverCases(proj))
<1> DEFINE classes == FoldSources(proj)
<1> SUFFICES ASSUME NEW k \in DOMAIN DiscoverCases(proj),
                    NEW i \in DOMAIN DiscoverCases(proj)[k], NEW j \in DOMAIN DiscoverCases(proj)[k]
             PROVE  /\ DiscoverCases(proj)[k][i].hooks = DiscoverCases(proj)[k][j].hooks
                    /\ DiscoverCases(proj)[k][i].isolated = DiscoverCases(proj)[k][j].isolated
  BY DEF Uniform
<1>1. DiscoverCases(proj)[k] = CasesOf(proj.root[k], classes)
  BY DEF DiscoverCases
<1>2. /\ CasesOf(proj.root[k], classes)[i].hooks = CasesOf(proj.root[k], classes)[j].hooks
      /\ CasesOf(proj.root[k], classes)[i].isolated = CasesOf(proj.root[k], classes)[j].isolated
  <2> HIDE DEF classes
  <2>1. i \in DOMAIN CasesOf(proj.root[k], classes) /\ j \in DOMAIN CasesOf(proj.root[k], classes)
    BY <1>1
  <2> QED
    BY <2>1 DEF CasesOf, CasesFrom
<1> QED
  BY <1>1, <1>2

(* What discovery finds is finite, each method once, and PHP finds it too, *)
(* with the same provider and dependencies.                                *)
Usable(found, proj) ==
  /\ DOMAIN found \in SUBSET Nat /\ IsFiniteSet(TestsOf(found))
  /\ \A k \in DOMAIN found : DOMAIN found[k] \in SUBSET Nat /\ IsFiniteSet(DOMAIN found[k])
  /\ \A k \in DOMAIN found : \A i, j \in DOMAIN found[k] :
       found[k][i].method = found[k][j].method => i = j
  /\ \A t \in TestsOf(found) :
       LET c == Case(found, t)
           m == MethodIn(proj, proj.root[t[1]].fqcn, c.method)
       IN /\ c.method \in STRING /\ MethodsIn(proj, proj.root[t[1]].fqcn, c.method) # {}
          /\ c.provider = (m.provider # "none")
          /\ c.depends = m.depends /\ m.depends \in Seq(STRING)
          /\ m.provider \in {"none", "rows", "throws"}
          /\ m.rows \in Seq(Seq(Status)) /\ (m.provider = "none" => Len(m.rows) = 1)

\* Discovery serves every scenario so.
LEMMA Discovered ==
  ASSUME NEW n \in DOMAIN Scenarios
  PROVE  Usable(FoundIn[n], Scenarios[n].project)
<1> DEFINE proj == Scenarios[n].project
           found == DiscoverCases(proj)
           called(k, i) == MethodIn(proj, proj.root[k].fqcn, found[k][i].method)
<1>0. FoundIn[n] = found
  BY DEF FoundIn
<1>1. /\ Loadable(proj) /\ NothingHidden(proj)
      /\ \A c \in AllClasses(proj) : \A m \in ToSet(c.methods) :
           /\ m.name \in STRING /\ m.depends \in Seq(STRING)
           /\ m.provider \in {"none", "rows", "throws"}
           /\ m.rows \in Seq(Seq(Status)) /\ (m.provider = "none" => Len(m.rows) = 1)
  BY ProjectAssumption
<1> HIDE DEF proj
<1>2. /\ DOMAIN found \subseteq DOMAIN proj.root
      /\ DOMAIN proj.root = 1 .. Len(proj.root) /\ Len(proj.root) \in Nat
      /\ \A k \in DOMAIN found : CasesMatch(found[k], proj, proj.root[k].fqcn)
  BY <1>1, FoundMatches
<1> HIDE DEF found
<1>3. DOMAIN found \in SUBSET Nat /\ IsFiniteSet(DOMAIN found)
  <2>1. IsFiniteSet(1 .. Len(proj.root))
    BY <1>2, FS_Interval
  <2> QED
    BY <1>2, <2>1, FS_Subset
<1>4. ASSUME NEW k \in DOMAIN found PROVE DOMAIN found[k] \in SUBSET Nat /\ IsFiniteSet(DOMAIN found[k])
  <2>1. Len(found[k]) \in Nat /\ DOMAIN found[k] = 1 .. Len(found[k])
    BY <1>2 DEF CasesMatch
  <2>2. IsFiniteSet(1 .. Len(found[k]))
    BY <2>1, FS_Interval
  <2> QED
    BY <2>1, <2>2
<1>5. IsFiniteSet(TestsOf(found))
  <2> DEFINE part == [k \in DOMAIN found |-> {k} \X DOMAIN found[k]]
             parts == {part[k] : k \in DOMAIN found}
  <2>1. TestsOf(found) = UNION parts
    BY DEF TestsOf
  <2>2. IsFiniteSet(parts)
    <3> HIDE DEF part
    <3> QED BY <1>3, ImageIsFinite
  <2>3. ASSUME NEW k \in DOMAIN found PROVE IsFiniteSet({k} \X DOMAIN found[k])
    BY <1>4, FS_Product, FS_Singleton
  <2>4. \A P \in parts : IsFiniteSet(P)
    BY <2>3
  <2> HIDE DEF parts
  <2> QED
    BY <2>1, <2>2, <2>4, FS_UNION
<1>6. \A k \in DOMAIN found : \A i, j \in DOMAIN found[k] : found[k][i].method = found[k][j].method => i = j
  BY <1>2 DEF CasesMatch
<1>7. ASSUME NEW k \in DOMAIN found, NEW i \in DOMAIN found[k]
      PROVE  LET c == found[k][i]
                 m == called(k, i)
             IN /\ c.method \in STRING /\ MethodsIn(proj, proj.root[k].fqcn, c.method) # {}
                /\ c.provider = (m.provider # "none")
                /\ c.depends = m.depends /\ m.depends \in Seq(STRING)
                /\ m.provider \in {"none", "rows", "throws"}
                /\ m.rows \in Seq(Seq(Status)) /\ (m.provider = "none" => Len(m.rows) = 1)
  <2> DEFINE m == called(k, i)
  <2>1. /\ MethodsIn(proj, proj.root[k].fqcn, found[k][i].method) # {}
        /\ CaseIs(found[k][i], m)
        /\ \E c \in AllClasses(proj) : m \in ToSet(c.methods)
    BY <1>2 DEF CasesMatch
  <2> HIDE DEF m
  <2>2. /\ m.name \in STRING /\ m.depends \in Seq(STRING)
        /\ m.provider \in {"none", "rows", "throws"}
        /\ m.rows \in Seq(Seq(Status)) /\ (m.provider = "none" => Len(m.rows) = 1)
    BY <1>1, <2>1
  <2>3. found[k][i].method = m.name /\ found[k][i].depends = m.depends /\ found[k][i].provider = (m.provider # "none")
    BY <2>1 DEF CaseIs
  <2> QED
    BY <2>1, <2>2, <2>3 DEF m
<1>8. \A t \in TestsOf(found) : t[1] \in DOMAIN found /\ t[2] \in DOMAIN found[t[1]] /\ Case(found, t) = found[t[1]][t[2]]
  BY DEF TestsOf, Case
<1>9. \A t \in TestsOf(found) :
        LET c == Case(found, t)
            m == MethodIn(proj, proj.root[t[1]].fqcn, c.method)
        IN /\ c.method \in STRING /\ MethodsIn(proj, proj.root[t[1]].fqcn, c.method) # {}
           /\ c.provider = (m.provider # "none")
           /\ c.depends = m.depends /\ m.depends \in Seq(STRING)
           /\ m.provider \in {"none", "rows", "throws"}
           /\ m.rows \in Seq(Seq(Status)) /\ (m.provider = "none" => Len(m.rows) = 1)
  BY <1>7, <1>8
<1> QED
  BY <1>0, <1>3, <1>4, <1>5, <1>6, <1>9 DEF Usable, proj

\* Every scenario starts from a project the discovery lemmas know.
LEMMA StartUp ==
  ASSUME NEW n \in DOMAIN Scenarios
  PROVE  Known(n)
<1>1. FoundIn[n] = DiscoverCases(Scenarios[n].project)
  BY DEF FoundIn
<1>2. FoundOk(FoundIn[n]) /\ IsFiniteSet(TestsOf(FoundIn[n]))
  BY Discovered DEF Usable, FoundOk
<1>3. Uniform(FoundIn[n])
  BY <1>1, FoundIsUniform
<1>4. ChosenIn[n] \subseteq TestsOf(FoundIn[n])
  <2>1. ChosenIn[n] \subseteq Selected(FoundIn[n], Scenarios[n].options)
    BY DEF ChosenIn, Dispatched
  <2>2. Selected(FoundIn[n], Scenarios[n].options) \subseteq TestsOf(FoundIn[n])
    BY DEF Selected
  <2> QED
    BY <2>1, <2>2
<1>5. IsFiniteSet(ChosenIn[n])
  BY <1>2, <1>4, FS_Subset
<1>6. TestsOf(FoundIn[n]) \subseteq AllTests
  BY DEF AllTests
<1> QED
  BY <1>2, <1>3, <1>4, <1>5, <1>6 DEF Known

\* A run has at least one worker.
LEMMA SomeWorker ==
  ASSUME scenario \in DOMAIN Scenarios
  PROVE  Workers \in Nat /\ Workers >= 1
<1> DEFINE C == Cardinality(Chosen)
           k == IF options.provision \/ \E t \in Chosen : Case(Found, t).functional
                THEN 2 * CLAMP_K ELSE CLAMP_K
<1>1. C \in Nat
  BY StartUp, FS_CardinalityType DEF Known, Chosen
<1>2. k \in Nat /\ k >= 1
  BY BoundsAssumption
<1>3. (C + k - 1) \div k \in Nat
  <2> HIDE DEF C, k
  <2> QED BY <1>1, <1>2
<1>4. options.workers \in Nat
  BY BoundsAssumption DEF options
<1> QED
  BY <1>3, <1>4 DEF Workers, ClampWorkers

\* What the run knows of its scenario: the found classes, the chosen tests, and that any of them can be
\* planned.
LEMMA Seen ==
  ASSUME scenario \in DOMAIN Scenarios
  PROVE  /\ FoundOk(Found) /\ Uniform(Found)
         /\ Chosen \subseteq TestsOf(Found) /\ IsFiniteSet(Chosen) /\ TestsOf(Found) \subseteq AllTests
         /\ \A S \in SUBSET Chosen : Plannable(Found, S)
<1>1. Known(scenario)
  BY StartUp
<1>2. /\ FoundOk(Found) /\ Uniform(Found)
      /\ Chosen \subseteq TestsOf(Found) /\ IsFiniteSet(Chosen) /\ TestsOf(Found) \subseteq AllTests
  BY <1>1 DEF Known, Found, Chosen
<1>3. \A S \in SUBSET Chosen : Plannable(Found, S)
  BY <1>2, FS_Subset DEF Plannable
<1> QED
  BY <1>2, <1>3

----------------------------------------------------------------------------
(* The rows of a batch: one sequence of them for each of its tests, as     *)
(* long as it would be in any other batch.                                 *)
LEMMA StatusOfRow ==
  ASSUME NEW phases \in Seq(Status)
  PROVE  RowStatus(phases) \in Status
<1> DEFINE bad == {i \in DOMAIN phases : phases[i] # "pass"}
<1>1. bad \in SUBSET Nat /\ IsFiniteSet(bad)
  <2>1. DOMAIN phases = 1 .. Len(phases) /\ Len(phases) \in Nat
    OBVIOUS
  <2>2. IsFiniteSet(1 .. Len(phases))
    BY <2>1, FS_Interval
  <2>3. bad \subseteq 1 .. Len(phases)
    BY <2>1
  <2> QED
    BY <2>2, <2>3, FS_Subset
<1>2. CASE bad = {}
  BY <1>2 DEF RowStatus, Status
<1>3. CASE bad # {}
  <2>1. Min(bad) \in bad
    <3> HIDE DEF bad
    <3> QED BY <1>1, <1>3, LeastIsThere
  <2>2. phases[Min(bad)] \in Status
    BY <2>1
  <2> QED
    BY <1>3, <2>2 DEF RowStatus
<1> QED
  BY <1>2, <1>3

(* A method with what ProjectAssumption says of it.                        *)
Callable(m) ==
  /\ m.provider \in {"none", "rows", "throws"}
  /\ m.rows \in Seq(Seq(Status)) /\ (m.provider = "none" => Len(m.rows) = 1)

\* A method yields a row or more, as many whatever passed before it, and one if it has no provider.
LEMMA RowsOfMethod ==
  ASSUME NEW class, NEW m, Callable(m), NEW P
  PROVE  /\ MethodRows(class, m, P) \in Seq(Status)
         /\ Len(MethodRows(class, m, P)) >= 1
         /\ Len(MethodRows(class, m, P)) = Len(MethodRows(class, m, {}))
         /\ m.provider = "none" => Len(MethodRows(class, m, P)) = 1
<1> DEFINE N == Len(m.rows)
<1>1. m.rows \in Seq(Seq(Status)) /\ N \in Nat /\ DOMAIN m.rows = 1 .. N
  BY DEF Callable
<1>2. m.rows # <<>> => N >= 1
  BY <1>1
<1>3. \A r \in Status : Each(m.rows, r) \in Seq(Status) /\ Len(Each(m.rows, r)) = N
  BY <1>1 DEF Each
<1>4. LET out == [i \in DOMAIN m.rows |-> RowStatus(m.rows[i])]
      IN out \in Seq(Status) /\ Len(out) = N
  <2>1. \A i \in DOMAIN m.rows : RowStatus(m.rows[i]) \in Status
    BY <1>1, StatusOfRow
  <2> QED
    BY <1>1, <2>1
<1>5. "skipped" \in Status /\ "error" \in Status
  BY DEF Status
<1>6. \A r \in Status : <<r>> \in Seq(Status) /\ Len(<<r>>) = 1
  OBVIOUS
<1>7. ASSUME NEW Q
      PROVE  MethodRows(class, m, Q) \in Seq(Status) /\
             Len(MethodRows(class, m, Q)) =
               IF \/ m.provider = "throws" \/ (m.provider = "rows" /\ m.rows = <<>>)
                  \/ (class.unmet \/ m.unmet) /\ ~FailsFirst(class) /\ PHPUNIT_MAJOR >= 10
               THEN 1 ELSE N
  <2> DEFINE ran == [i \in DOMAIN m.rows |-> RowStatus(m.rows[i])]
  <2>1. ran \in Seq(Status) /\ Len(ran) = N
    BY <1>4
  <2> HIDE DEF N, ran
  <2>2. /\ <<"error">> \in Seq(Status) /\ Len(<<"error">>) = 1
        /\ <<"skipped">> \in Seq(Status) /\ Len(<<"skipped">>) = 1
        /\ Each(m.rows, "error") \in Seq(Status) /\ Len(Each(m.rows, "error")) = N
        /\ Each(m.rows, "skipped") \in Seq(Status) /\ Len(Each(m.rows, "skipped")) = N
    BY <1>3, <1>5, <1>6
  <2>3. MethodRows(class, m, Q) =
          IF m.provider = "throws" THEN <<"error">>
          ELSE IF \/ m.provider = "rows" /\ m.rows = <<>>
                  \/ (class.unmet \/ m.unmet) /\ ~FailsFirst(class) /\ PHPUNIT_MAJOR >= 10
          THEN <<"skipped">>
          ELSE IF FailsFirst(class) THEN Each(m.rows, "error")
          ELSE IF (class.unmet \/ m.unmet) \/ ~(ToSet(m.depends) \subseteq Q) THEN Each(m.rows, "skipped")
          ELSE ran
    BY Zenon DEF MethodRows, ran
  <2> QED
    BY <2>1, <2>2, <2>3
<1>8. m.provider = "none" => N = 1
  BY DEF Callable
<1>9. m.provider # "throws" /\ ~(m.provider = "rows" /\ m.rows = <<>>) => N >= 1
  BY <1>2, <1>8 DEF Callable
<1>10. Len(MethodRows(class, m, P)) = Len(MethodRows(class, m, {}))
  BY <1>7
<1> HIDE DEF N
<1>11. Len(MethodRows(class, m, P)) >= 1
  BY <1>7, <1>9
<1>12. m.provider = "none" => Len(MethodRows(class, m, P)) = 1
  BY <1>7, <1>8
<1> QED
  BY <1>7, <1>10, <1>11, <1>12

RowsOK(rows, T, proj, found) ==
  /\ DOMAIN rows = T
  /\ \A t \in T : rows[t] \in Seq(Status) /\ rows[t] # <<>> /\ Len(rows[t]) = RowCount(proj, found, t)

(* The methods of a batch by name.                                         *)
LEMMA NamesOfBatch ==
  ASSUME scenario \in DOMAIN Scenarios,
         NEW k \in DOMAIN Found, NEW methods \in SUBSET DOMAIN Found[k]
  PROVE  LET fqcn == project.root[k].fqcn
             names == [j \in methods |-> Found[k][j].method]
             d == Runnable(project, fqcn, names)
         IN /\ Batch(names, d) /\ DOMAIN d = ToSet(names)
            /\ \A j \in methods : Callable(MethodIn(project, fqcn, names[j]))
<1> DEFINE fqcn == project.root[k].fqcn
           names == [j \in methods |-> Found[k][j].method]
           d == Runnable(project, fqcn, names)
<1>1. \A j \in methods : <<k, j>> \in TestsOf(Found) /\ Case(Found, <<k, j>>) = Found[k][j]
  BY DEF TestsOf, Case
<1>2. \A j \in methods : LET m == MethodIn(project, fqcn, names[j]) IN
        /\ names[j] \in STRING /\ MethodsIn(project, fqcn, names[j]) # {}
        /\ m.depends \in Seq(STRING) /\ Callable(m)
  <2>1. \A t \in TestsOf(Found) :
          LET c == Case(Found, t)
              m == MethodIn(project, project.root[t[1]].fqcn, c.method)
          IN /\ c.method \in STRING /\ MethodsIn(project, project.root[t[1]].fqcn, c.method) # {}
             /\ m.depends \in Seq(STRING) /\ Callable(m)
    BY Discovered DEF Usable, Callable, Found, project
  <2>2. SUFFICES ASSUME NEW j \in methods
                 PROVE  LET m == MethodIn(project, fqcn, names[j]) IN
                          /\ names[j] \in STRING /\ MethodsIn(project, fqcn, names[j]) # {}
                          /\ m.depends \in Seq(STRING) /\ Callable(m)
    OBVIOUS
  <2>3. <<k, j>> \in TestsOf(Found) /\ Case(Found, <<k, j>>).method = names[j] /\ <<k, j>>[1] = k
    BY <1>1
  <2> HIDE DEF names
  <2> QED
    BY <2>1, <2>3
<1>3. Batch(names, d) /\ DOMAIN d = ToSet(names)
  <2>1. DOMAIN names = methods
    OBVIOUS
  <2>2. methods \in SUBSET Nat /\ IsFiniteSet(methods)
    <3>1. DOMAIN Found[k] \in SUBSET Nat /\ IsFiniteSet(DOMAIN Found[k])
      BY Seen DEF FoundOk
    <3> QED
      BY <3>1, FS_Subset
  <2>3. names \in [methods -> STRING]
    BY <1>2
  <2> HIDE DEF names
  <2>4. ToSet(names) = {names[j] : j \in methods}
    BY <2>1 DEF ToSet
  <2>5. DOMAIN d = ToSet(names)
    BY <1>2, <2>4 DEF Runnable
  <2>6. \A m \in DOMAIN d : d[m] = MethodIn(project, fqcn, m).depends
    BY DEF Runnable
  <2>7. \A m \in DOMAIN d : d[m] \in Seq(STRING)
    BY <1>2, <2>4, <2>5, <2>6
  <2> HIDE DEF d
  <2> QED
    BY <2>1, <2>2, <2>3, <2>5, <2>7 DEF Batch
<1> QED
  BY <1>2, <1>3

\* The rows a batch streams belong to its tests, whole for each of them.
LEMMA RowsGiven ==
  ASSUME scenario \in DOMAIN Scenarios,
         NEW k \in DOMAIN Found, NEW methods \in SUBSET DOMAIN Found[k]
  PROVE  RowsOK(Rows(k, methods), {k} \X methods, project, Found)
<1> DEFINE fqcn == project.root[k].fqcn
           names == [j \in methods |-> Found[k][j].method]
           run == RunClass(project, fqcn, names)
           d == Runnable(project, fqcn, names)
           class == ClassIn(project, fqcn)
<1>1. \A j \in methods : <<k, j>> \in TestsOf(Found) /\ Case(Found, <<k, j>>) = Found[k][j]
  BY DEF TestsOf, Case
<1>2. \A j \in methods : Callable(MethodIn(project, fqcn, names[j]))
  BY NamesOfBatch
<1>3. Batch(names, d) /\ DOMAIN d = ToSet(names)
  BY NamesOfBatch
<1>4. ToSet(TopoSort(project, fqcn, names)) = ToSet(names)
  <2> HIDE DEF names
  <2> QED BY <1>3, TopoSortRuns
<1>5. /\ DOMAIN run = ToSet(names)
      /\ \A m \in ToSet(names) : \E P : run[m] = MethodRows(class, MethodIn(project, fqcn, m), P)
  <2> HIDE DEF names
  <2> QED BY <1>4 DEF RunClass
<1>6. \A j \in methods : names[j] \in ToSet(names)
  BY DEF ToSet
<1>7. DOMAIN Rows(k, methods) = {k} \X methods /\ \A j \in methods : Rows(k, methods)[<<k, j>>] = run[names[j]]
  <2>1. Rows(k, methods) = [t \in {k} \X {j \in methods : names[j] \in DOMAIN run} |-> run[names[t[2]]]]
    BY DEF Rows
  <2> HIDE DEF names, run
  <2>2. {j \in methods : names[j] \in DOMAIN run} = methods
    BY <1>5, <1>6
  <2> QED
    BY <2>1, <2>2
<1>8. ASSUME NEW j \in methods
      PROVE  /\ run[names[j]] \in Seq(Status) /\ run[names[j]] # <<>>
             /\ Len(run[names[j]]) = RowCount(project, Found, <<k, j>>)
  <2> DEFINE m == MethodIn(project, fqcn, names[j])
  <2>1. PICK P : run[names[j]] = MethodRows(class, m, P)
    BY <1>5, <1>6
  <2>2. Callable(m)
    BY <1>2
  <2>3. RowCount(project, Found, <<k, j>>) = Len(MethodRows(class, m, {}))
    BY <1>1 DEF RowCount
  <2> HIDE DEF m, names, run
  <2> QED
    BY <2>1, <2>2, <2>3, RowsOfMethod
<1> QED
  <2> HIDE DEF names, run
  <2>1. \A t \in {k} \X methods : t = <<k, t[2]>> /\ t[2] \in methods
    OBVIOUS
  <2> QED
    BY <1>7, <1>8, <2>1 DEF RowsOK

----------------------------------------------------------------------------
(* What is computed from the scenario stays what it is.                    *)
LEMMA SameScenario ==
  ASSUME scenario' = scenario
  PROVE  /\ project' = project /\ options' = options /\ Found' = Found /\ Chosen' = Chosen
         /\ Workers' = Workers /\ Skips' = Skips
BY DEF project, options, Found, Chosen, Workers, Skips

\* No step changes the project, the options, or what was found and chosen.
LEMMA NextKeepsScenario ==
  ASSUME [Next]_vars
  PROVE  /\ scenario' = scenario
         /\ project' = project /\ options' = options /\ Found' = Found /\ Chosen' = Chosen
         /\ Workers' = Workers /\ Skips' = Skips
<1>1. scenario' = scenario
  BY DEF Next, vars, Launch, Plan, LoopStep, Return, Respawn, GiveUp, Report, WorkerStep, Dispatch, RunNext,
         FinishPlan, Failure, MasterDies, LosePlan, WorkerDies, OrphanDies, Over
<1> QED
  BY <1>1, SameScenario

\* Only a running call has busy workers.
LEMMA BusyRuns ==
  ASSUME SlotsOK, NEW s \in Slot, slot[s].state = "busy"
  PROVE  phase = "running"
<1>1. Absent.state = "absent"
  BY DEF Absent
<1> QED
  BY <1>1 DEF SlotsOK

\* Every step keeps what each phase of the run implies.
LEMMA PhaseKept ==
  ASSUME PhaseOK, SlotsOK, [Next]_vars
  PROVE  PhaseOK'
<1>1. /\ scenario' = scenario /\ Found' = Found /\ Chosen' = Chosen /\ Workers' = Workers
  BY NextKeepsScenario
<1> USE DEF PhaseOK, NothingDied, MAX_MASTER_RESPAWNS
<1>2. CASE Launch
  <2>1. /\ masterDied' = masterDied /\ lost' = lost /\ unfinished' = {} /\ respawns' = 0 /\ deaths' = deaths
        /\ NothingDied /\ phase = "start"
    BY <1>2 DEF Launch, callVars
  <2>2. CASE phase' = "refused" /\ pending' = pending /\ inline' = inline
    BY <1>1, <2>1, <2>2
  <2>3. CASE phase' = "planning" /\ pending' = Chosen /\ inline' = SingleProcess(Workers, Found, Chosen)
    <3>1. inline' \in BOOLEAN
      BY <2>3 DEF SingleProcess
    <3>2. inline' => Workers = 1 /\ \A t \in Chosen : ~Case(Found, t).stateful /\ ~Case(Found, t).isolated
      BY <2>3 DEF SingleProcess
    <3> QED
      BY <1>1, <2>1, <2>3, <3>1, <3>2
  <2> QED
    BY <1>2, <2>2, <2>3 DEF Launch
<1>3. CASE Plan
  BY <1>1, <1>3 DEF Plan
<1>4. CASE Return
  <2>1. HandedBack \subseteq pending /\ (HandedBack # {} => masterDied)
    BY DEF HandedBack
  <2> QED BY <1>1, <1>4, <2>1 DEF Return
<1>5. CASE Respawn
  BY <1>1, <1>5 DEF Respawn, callVars
<1>6. CASE GiveUp
  BY <1>1, <1>6 DEF GiveUp, callVars
<1>7. CASE Report
  BY <1>1, <1>7 DEF Report, callVars
<1>8. ASSUME NEW s \in Slot, WorkerStep(s) PROVE PhaseOK'
  <2>1. /\ phase' = phase /\ pending' = pending /\ inline' = inline /\ masterDied' = masterDied /\ lost' = lost
        /\ unfinished' = unfinished /\ respawns' = respawns /\ deaths' = deaths
    BY <1>8 DEF WorkerStep, Dispatch, RunNext, FinishPlan
  <2> QED
    BY <1>1, <2>1
<1>9. CASE MasterDies
  <2>1. deaths'.worker = deaths.worker /\ deaths'.master = deaths.master + 1
        /\ deaths' \in [worker : 0 .. Scenarios[scenario].workerDeaths,
                        master : 0 .. Scenarios[scenario].masterDeaths]
    BY <1>9, BoundsAssumption DEF MasterDies
  <2> QED BY <1>1, <1>9, <2>1, BoundsAssumption DEF MasterDies
<1>10. CASE LosePlan
  BY <1>1, <1>10 DEF LosePlan
<1>11. ASSUME NEW s \in Slot, WorkerDies(s) PROVE PhaseOK'
  <2>1. deaths'.master = deaths.master /\ deaths'.worker = deaths.worker + 1
        /\ deaths' \in [worker : 0 .. Scenarios[scenario].workerDeaths,
                        master : 0 .. Scenarios[scenario].masterDeaths]
    BY <1>11, BoundsAssumption DEF WorkerDies
  <2>2. /\ phase' = phase /\ pending' = pending /\ inline' = inline /\ masterDied' = masterDied /\ lost' = lost
        /\ unfinished' = unfinished /\ respawns' = respawns /\ deaths.worker \in Nat
    BY <1>11 DEF WorkerDies
  <2>3. phase = "running"
    BY <1>11, BusyRuns DEF WorkerDies
  <2> QED BY <1>1, <2>1, <2>2, <2>3
<1>12. ASSUME NEW s \in Slot, OrphanDies(s) PROVE PhaseOK'
  BY <1>1, <1>12 DEF OrphanDies
<1>13. CASE UNCHANGED vars
  BY <1>1, <1>13 DEF vars, callVars
<1> QED
  BY <1>2, <1>3, <1>4, <1>5, <1>6, <1>7, <1>8, <1>9, <1>10, <1>11, <1>12, <1>13
     DEF Next, LoopStep, Failure, Over

----------------------------------------------------------------------------
(* Plans and what is cut out of them.                                      *)
LEMMA PlannedIsSound ==
  ASSUME NEW p, NEW found, NEW S, WellPlanned(p, found, S)
  PROVE  Sound(p, found, S)
BY DEF WellPlanned, WellCut, Sound, SoundBatches

\* The queue build_queue returns holds each plannable pending test once, in sound plans.
LEMMA QueueIsSound ==
  ASSUME scenario \in DOMAIN Scenarios, pending \subseteq Chosen
  PROVE  /\ Fair(BuildQueue(Found, pending, Workers), pending \ Synthetic(Found, pending), Found, pending)
         /\ \A p \in BuildQueue(Found, pending, Workers) : Sound(p, Found, pending)
<1>1. Plannable(Found, pending)
  BY Seen
<1>2. Fair(BuildQueue(Found, pending, Workers), pending \ Synthetic(Found, pending), Found, pending)
  BY <1>1, BuildQueueIsFair
<1>3. \A p \in BuildQueue(Found, pending, Workers) : WellPlanned(p, Found, pending)
  BY <1>2 DEF Fair
<1> QED
  BY <1>2, <1>3, PlannedIsSound

\* A sound plan holds pending tests only.
LEMMA SoundTests ==
  ASSUME NEW found, NEW S, NEW p, Sound(p, found, S)
  PROVE  PlanTests(p) \subseteq S
BY DEF Sound, SoundBatches, PlanTests, RealOf

CutTo(r, p, T, found, S) ==
  /\ PlanTests(r) = PlanTests(p) \cap T
  /\ r.classes # {} => Sound(r, found, S)
  /\ \A b \in r.classes : \E c \in p.classes : b.class = c.class

\* A plan cut down to some tests is a sound plan of those of them it held, if any.
LEMMA Cut ==
  ASSUME NEW found, NEW S, NEW p, Sound(p, found, S), NEW T, NEW f \in BOOLEAN
  PROVE  CutTo(Restricted(p, T, f), p, T, found, S)
<1> DEFINE cut(b) == [b EXCEPT !.methods = {j \in @ : <<b.class, j>> \in T}]
           B == {c \in {cut(b) : b \in p.classes} : c.methods # {}}
           r == Restricted(p, T, f)
<1>1. r = [classes |-> B, force |-> f]
  BY DEF Restricted
<1>2. /\ p \in Plans /\ p.classes # {} /\ p.classes \subseteq Batches
      /\ \A b \in p.classes : BatchTests(b) \subseteq RealOf(found, S, {b.class})
      /\ \A b, c \in p.classes : b = c \/ b.class # c.class
  BY DEF Sound, SoundBatches, Plans
<1>3. \A b \in p.classes : /\ cut(b) \in Batches /\ cut(b).class = b.class
                           /\ cut(b).methods = {j \in b.methods : <<b.class, j>> \in T}
  BY <1>2 DEF Batches
<1>4. \A b \in p.classes : BatchTests(cut(b)) = BatchTests(b) \cap T
  BY <1>3 DEF BatchTests
<1> HIDE DEF cut
<1>5. PlanTests(r) = PlanTests(p) \cap T
  <2>1. PlanTests(r) = UNION {BatchTests(c) : c \in B}
    BY <1>1 DEF PlanTests
  <2>2. \A c \in B : c.methods # {} /\ \E b \in p.classes : c = cut(b)
    OBVIOUS
  <2>3. ASSUME NEW t \in PlanTests(p) \cap T
        PROVE  t \in PlanTests(r)
    <3>1. PICK b \in p.classes : t \in BatchTests(b)
      BY DEF PlanTests
    <3>2. t \in BatchTests(cut(b))
      BY <1>4, <3>1
    <3>3. cut(b).methods # {}
      BY <3>2 DEF BatchTests
    <3>4. cut(b) \in B
      BY <3>3
    <3> HIDE DEF B
    <3> QED
      BY <2>1, <3>2, <3>4
  <2>4. ASSUME NEW t \in PlanTests(r)
        PROVE  t \in PlanTests(p) \cap T
    <3> HIDE DEF B
    <3>1. PICK c \in B : t \in BatchTests(c)
      BY <2>1
    <3>2. PICK b \in p.classes : c = cut(b)
      BY <2>2
    <3> QED
      BY <1>4, <3>1, <3>2 DEF PlanTests
  <2> QED
    BY <2>3, <2>4
<1>6. \A b \in B : \E c \in p.classes : b = cut(c) /\ b.class = c.class
  BY <1>3
<1>7. r.classes # {} => Sound(r, found, S)
  <2>1. B \subseteq Batches
    BY <1>3
  <2>2. r \in Plans
    BY <1>1, <2>1 DEF Plans
  <2>3. \A b \in B : b \in Batches /\ b.methods # {}
    BY <2>1
  <2> HIDE DEF B
  <2>4. \A b \in B : BatchTests(b) \subseteq RealOf(found, S, {b.class})
    BY <1>2, <1>4, <1>6
  <2>5. \A b, c \in B : b = c \/ b.class # c.class
    BY <1>2, <1>6
  <2> QED
    BY <1>1, <2>2, <2>3, <2>4, <2>5 DEF Sound, SoundBatches
<1> HIDE DEF B
<1> QED
  BY <1>1, <1>5, <1>6, <1>7 DEF CutTo

(* What requeue_unrun queues: the tests to be retried, each in one plan.   *)
Requeues(Q, T, classes, found, S) ==
  /\ \A q \in Q : Sound(q, found, S) /\ \A b \in q.classes : b.class \in classes
  /\ UNION {PlanTests(q) : q \in Q} = T
  /\ \A q, r \in Q : q = r \/ PlanTests(q) \cap PlanTests(r) = {}

\* What a death puts back in the queue: the survivors of the dead plan, in sound plans of its classes.
LEMMA Requeued ==
  ASSUME NEW found, NEW S, NEW p, Sound(p, found, S), NEW unrun \in SUBSET PlanTests(p)
  PROVE  Requeues(RequeuedPlans(p, unrun), {t \in unrun : attempts[t] + 1 < MAX_ATTEMPTS},
                  {b.class : b \in p.classes}, found, S)
<1> DEFINE retried == {t \in unrun : attempts[t] + 1 < MAX_ATTEMPTS}
           x == Suspect(unrun)
           q1 == Restricted(p, retried \cap {x}, TRUE)
           q2 == Restricted(p, retried \ {x}, FALSE)
           Q == {q \in {q1, q2} : q.classes # {}}
<1>1. RequeuedPlans(p, unrun) = Q
  BY DEF RequeuedPlans
<1>9. retried \subseteq PlanTests(p)
  OBVIOUS
<1> HIDE DEF x, retried
<1>2. /\ PlanTests(q1) = retried \cap {x} /\ (q1.classes # {} => Sound(q1, found, S))
      /\ \A b \in q1.classes : \E c \in p.classes : b.class = c.class
  <2>1. PlanTests(p) \cap (retried \cap {x}) = retried \cap {x}
    BY <1>9
  <2>2. CutTo(Restricted(p, retried \cap {x}, TRUE), p, retried \cap {x}, found, S)
    BY Cut, Zenon
  <2> QED BY <2>1, <2>2 DEF CutTo
<1>3. /\ PlanTests(q2) = retried \ {x} /\ (q2.classes # {} => Sound(q2, found, S))
      /\ \A b \in q2.classes : \E c \in p.classes : b.class = c.class
  <2>1. PlanTests(p) \cap (retried \ {x}) = retried \ {x}
    BY <1>9
  <2>2. CutTo(Restricted(p, retried \ {x}, FALSE), p, retried \ {x}, found, S)
    BY Cut, Zenon
  <2> QED BY <2>1, <2>2 DEF CutTo
<1>4. \A q \in {q1, q2} : q.classes = {} => PlanTests(q) = {}
  BY DEF PlanTests
<1> HIDE DEF q1, q2
<1>5. UNION {PlanTests(q) : q \in Q} = PlanTests(q1) \cup PlanTests(q2)
  BY <1>4
<1>6. UNION {PlanTests(q) : q \in Q} = retried
  BY <1>2, <1>3, <1>5
<1>7. \A q, r \in Q : q = r \/ PlanTests(q) \cap PlanTests(r) = {}
  BY <1>2, <1>3
<1>8. \A q \in Q : Sound(q, found, S) /\ \A b \in q.classes : b.class \in {c.class : c \in p.classes}
  BY <1>2, <1>3
<1> QED
  BY <1>1, <1>6, <1>7, <1>8 DEF Requeues, retried

----------------------------------------------------------------------------
(* What a slot does.                                                       *)
LEMMA SomeSlots ==
  /\ NoPlan \in Plans /\ PlanTests(NoPlan) = {}
  /\ Absent \in SlotRecords /\ Absent.state = "absent" /\ Absent.plan = NoPlan /\ Absent.left = {}
  /\ Absent.stained = FALSE
  /\ Fresh \in SlotRecords /\ Fresh.state = "idle" /\ Fresh.plan = NoPlan /\ Fresh.left = {}
  /\ Fresh.stained = FALSE
  /\ \A found, S : SlotOK(Absent, found, S) /\ SlotOK(Fresh, found, S)
<1>1. NoPlan \in Plans /\ PlanTests(NoPlan) = {}
  BY DEF NoPlan, Plans, PlanTests
<1>2. /\ Absent \in SlotRecords /\ Absent.state = "absent" /\ Absent.plan = NoPlan /\ Absent.left = {}
      /\ Absent.stained = FALSE
  BY <1>1 DEF Absent, SlotRecords
<1>3. /\ Fresh \in SlotRecords /\ Fresh.state = "idle" /\ Fresh.plan = NoPlan /\ Fresh.left = {}
      /\ Fresh.stained = FALSE
  BY <1>1 DEF Fresh, Absent, SlotRecords
<1> QED
  BY <1>1, <1>2, <1>3 DEF SlotOK

(* Slot s becomes w, the others stay as they are.                          *)
OneSlot(s, w) ==
  /\ slot' \in [Slot -> SlotRecords] /\ slot'[s] = w
  /\ \A r \in Slot : r # s => slot'[r] = slot[r]

\* An update of the slot table at s changes the slot s alone.
LEMMA OneSlotChanges ==
  ASSUME SlotsOK, NEW s \in Slot, NEW w \in SlotRecords, slot' = [slot EXCEPT ![s] = w]
  PROVE  OneSlot(s, w)
BY DEF SlotsOK, OneSlot

\* What run_plan's hand-over of plan p does to the slot of worker s, as Dispatch writes it, and what
\* the invariants need of it.
HandsOver(s, p) == slot' = [slot EXCEPT ![s] = [@ EXCEPT !.state = "busy", !.plan = p, !.left = p.classes]]
HandedOver(s, p) == \E w : /\ OneSlot(s, w) /\ SlotOK(w, Found, pending)
                      /\ w.state = "busy" /\ w.plan = p /\ w.left = p.classes /\ w.stained = slot[s].stained

\* A worker given a plan of the queue is busy with all of it, and no other worker changes.
LEMMA Dispatched1 ==
  ASSUME SlotsOK, NEW s \in Slot, NEW p, p \in queue, phase = "running", HandsOver(s, p)
  PROVE  HandedOver(s, p)
<1> DEFINE w == [slot[s] EXCEPT !.state = "busy", !.plan = p, !.left = p.classes]
<1>1. slot' = [slot EXCEPT ![s] = w]
  BY DEF SlotsOK, HandsOver
<1>2. /\ SlotOK(w, Found, pending)
      /\ w.state = "busy" /\ w.plan = p /\ w.left = p.classes /\ w.stained = slot[s].stained
  <2>1. slot[s] \in SlotRecords /\ Sound(p, Found, pending)
    BY DEF SlotsOK
  <2>2. w \in SlotRecords /\ w.state = "busy" /\ w.plan = p /\ w.left = p.classes /\ w.stained = slot[s].stained
    BY <2>1 DEF SlotRecords, Sound, Plans
  <2> HIDE DEF w
  <2> QED BY <2>1, <2>2 DEF SlotOK
<1> HIDE DEF w
<1>3. w \in SlotRecords
  BY <1>2 DEF SlotOK
<1>4. OneSlot(s, w)
  BY <1>1, <1>3, OneSlotChanges
<1> QED
  BY <1>2, <1>4 DEF HandedOver

\* A worker with nothing left may be marked idle.
LEMMA SlotIdles ==
  ASSUME NEW found, NEW S, NEW w, SlotOK(w, found, S), w.left = {}
  PROVE  LET v == [w EXCEPT !.state = "idle", !.plan = NoPlan]
         IN /\ SlotOK(v, found, S)
            /\ v.state = "idle" /\ v.plan = NoPlan /\ v.left = {} /\ v.stained = w.stained
BY SomeSlots DEF SlotOK, SlotRecords

\* A worker that ran a batch has one batch less, and the batch's stain.
LEMMA RanSlot ==
  ASSUME SlotsOK, NEW s \in Slot, Ran(s)
  PROVE  LET batch == Following(slot[s].left)
         IN \E w : /\ OneSlot(s, w) /\ SlotOK(w, Found, pending) /\ w.state = "busy"
                   /\ w.plan = slot[s].plan /\ w.left = slot[s].left \ {batch}
                   /\ w.stained = (slot[s].stained \/ Marked(Found, pending, batch.class))
<1> DEFINE batch == Following(slot[s].left)
           marks == \E t \in pending : /\ t[1] = batch.class
                                       /\ Case(Found, t).stateful \/ Case(Found, t).isolated
           w == [slot[s] EXCEPT !.left = @ \ {batch}, !.stained = @ \/ marks]
<1>0. /\ slot' = [slot EXCEPT ![s].left = slot[s].left \ {batch}, ![s].stained = slot[s].stained \/ marks]
      /\ slot[s].state = "busy"
  BY Zenon DEF Ran
<1>2. marks = Marked(Found, pending, batch.class) /\ marks \in BOOLEAN
  BY DEF Marked
<1> HIDE DEF marks, batch
<1>3. slot[s] \in SlotRecords /\ SlotOK(slot[s], Found, pending)
  BY DEF SlotsOK
<1>1. slot' = [slot EXCEPT ![s] = w] /\ slot[s].state = "busy"
  BY <1>0 DEF SlotsOK
<1>4. w \in SlotRecords /\ w.state = "busy" /\ w.plan = slot[s].plan /\ w.left = slot[s].left \ {batch}
      /\ w.stained = (slot[s].stained \/ marks)
  BY <1>1, <1>2, <1>3 DEF SlotRecords
<1> HIDE DEF w
<1>5. SlotOK(w, Found, pending)
  BY <1>1, <1>3, <1>4 DEF SlotOK
<1>6. OneSlot(s, w)
  BY <1>1, <1>4, OneSlotChanges
<1>7. w.stained = (slot[s].stained \/ Marked(Found, pending, batch.class))
  BY <1>2, <1>4
<1> QED
  BY <1>4, <1>5, <1>6, <1>7 DEF batch

\* A busy worker with batches left has a next batch, and all of them are sound.
LEMMA NextBatch ==
  ASSUME PhaseOK, SlotsOK, NEW s \in Slot, slot[s].state = "busy", slot[s].left # {}
  PROVE  /\ Following(slot[s].left) \in slot[s].left
         /\ SoundBatches(slot[s].left, Found, pending)
<1> DEFINE left == slot[s].left
           K == {c.class : c \in left}
<1>1. SoundBatches(left, Found, pending)
  BY DEF SlotsOK, SlotOK, Sound, SoundBatches
<1>2. IsFiniteSet({t[1] : t \in pending})
  <2> DEFINE f == [t \in pending |-> t[1]]
  <2>1. IsFiniteSet(pending)
    BY Seen, FS_Subset DEF PhaseOK
  <2>2. {t[1] : t \in pending} = {f[t] : t \in pending}
    OBVIOUS
  <2> HIDE DEF f
  <2>3. IsFiniteSet({f[t] : t \in pending})
    BY <2>1, ImageIsFinite
  <2> QED
    BY <2>2, <2>3
<1>3. ASSUME NEW b \in left PROVE b.class \in Nat /\ b.class \in {t[1] : t \in pending}
  <2>1. b \in Batches /\ b.methods # {} /\ BatchTests(b) \subseteq pending
    BY <1>1 DEF SoundBatches, RealOf
  <2>2. PICK j \in b.methods : <<b.class, j>> \in pending
    BY <2>1 DEF BatchTests
  <2>3. <<b.class, j>>[1] = b.class
    OBVIOUS
  <2> QED
    BY <2>1, <2>2, <2>3 DEF Batches
<1>4. K \subseteq {t[1] : t \in pending} /\ K \subseteq Nat /\ K # {}
  BY <1>3
<1>5. IsFiniteSet(K)
  BY <1>2, <1>4, FS_Subset
<1>6. Foremost(K, pending) \in K
  <2>1. IsFiniteSet(pending)
    BY Seen, FS_Subset DEF PhaseOK
  <2> HIDE DEF K
  <2> QED BY <1>4, <1>5, <2>1, ForemostIsThere
<1>7. \E b \in left : b.class = Foremost(K, pending)
  BY <1>6
<1>8. Following(left) \in left
  BY <1>7 DEF Following
<1> QED
  BY <1>1, <1>8

(* The batch b that slot s runs next, and its rows.                        *)
RunsBatch(s, b) ==
  /\ b \in slot[s].left /\ b \in slot[s].plan.classes /\ b \in Batches
  /\ b.methods # {} /\ BatchTests(b) # {}
  /\ BatchTests(b) \subseteq RealOf(Found, pending, {b.class}) /\ BatchTests(b) \subseteq pending
  /\ LeftTests(s) = BatchTests(b) \cup UNION {BatchTests(c) : c \in slot[s].left \ {b}}
  /\ BatchTests(b) \cap UNION {BatchTests(c) : c \in slot[s].left \ {b}} = {}
  /\ RowsOK(Rows(b.class, b.methods), BatchTests(b), project, Found)

\* That batch runs as the execution lemmas describe.
LEMMA BatchRun ==
  ASSUME PhaseOK, SlotsOK, NEW s \in Slot, slot[s].state = "busy", slot[s].left # {}
  PROVE  RunsBatch(s, Following(slot[s].left))
<1> DEFINE b == Following(slot[s].left)
<1>1. b \in slot[s].left /\ SoundBatches(slot[s].left, Found, pending)
  BY NextBatch
<1>2. b \in slot[s].plan.classes
  BY <1>1 DEF SlotsOK, SlotOK
<1> HIDE DEF b
<1>3. /\ b \in Batches /\ b.methods # {}
      /\ BatchTests(b) \subseteq RealOf(Found, pending, {b.class}) /\ BatchTests(b) \subseteq pending
  BY <1>1 DEF SoundBatches, RealOf
<1>4. ASSUME NEW j \in b.methods
      PROVE  b.class \in DOMAIN Found /\ j \in DOMAIN Found[b.class] /\ <<b.class, j>> \in BatchTests(b)
  <2>1. BatchTests(b) \subseteq TestsOf(Found)
    BY <1>3, Seen DEF PhaseOK
  <2>2. <<b.class, j>> \in BatchTests(b)
    BY DEF BatchTests
  <2>3. PICK k \in DOMAIN Found : <<b.class, j>> \in {k} \X DOMAIN Found[k]
    BY <2>1, <2>2 DEF TestsOf
  <2> QED
    BY <2>2, <2>3
<1>5. b.class \in DOMAIN Found /\ b.methods \in SUBSET DOMAIN Found[b.class] /\ BatchTests(b) # {}
  BY <1>3, <1>4
<1>6. RowsOK(Rows(b.class, b.methods), BatchTests(b), project, Found)
  BY <1>5, RowsGiven DEF PhaseOK, BatchTests
<1>7. LeftTests(s) = BatchTests(b) \cup UNION {BatchTests(c) : c \in slot[s].left \ {b}}
  BY <1>1 DEF LeftTests
<1>8. BatchTests(b) \cap UNION {BatchTests(c) : c \in slot[s].left \ {b}} = {}
  <2>1. \A c \in slot[s].left \ {b} : c.class # b.class
    BY <1>1 DEF SoundBatches
  <2>2. \A c \in slot[s].left \ {b} : BatchTests(b) \cap BatchTests(c) = {}
    BY <2>1 DEF BatchTests
  <2> QED
    BY <2>2
<1> QED
  BY <1>1, <1>2, <1>3, <1>5, <1>6, <1>7, <1>8 DEF RunsBatch, b

\* Changing one slot of a running call keeps all of them sound.
LEMMA RunningSlots ==
  ASSUME SlotsOK, phase = "running", phase' = "running",
         Found' = Found, Workers' = Workers, pending' = pending,
         \A p \in queue' : Sound(p, Found, pending),
         received' \subseteq pending, lost' => masterDied', masterDied => masterDied',
         NEW s \in Slot, NEW w, OneSlot(s, w), SlotOK(w, Found, pending),
         masterDied' \/ w.state # "absent"
  PROVE  SlotsOK'
<1>1. slot' \in [Slot -> SlotRecords]
  BY DEF OneSlot
<1>2. ASSUME NEW r \in Slot PROVE SlotOK(slot'[r], Found, pending)
  BY DEF OneSlot, SlotsOK
<1>3. ASSUME NEW r \in Slot, ~masterDied', r <= Workers PROVE slot'[r].state # "absent"
  <2>1. CASE r = s
    BY <1>3, <2>1 DEF OneSlot
  <2>2. CASE r # s
    BY <1>3, <2>2 DEF OneSlot, SlotsOK
  <2> QED BY <2>1, <2>2
<1> QED
  BY <1>1, <1>2, <1>3 DEF SlotsOK

\* Every step keeps the slots and the queue sound.
LEMMA SlotsKept ==
  ASSUME PhaseOK, SlotsOK, [Next]_vars
  PROVE  SlotsOK'
<1>1. /\ scenario' = scenario /\ Found' = Found /\ Chosen' = Chosen /\ Workers' = Workers
  BY NextKeepsScenario
<1>2. CASE Launch
  BY <1>1, <1>2, SomeSlots DEF Launch, callVars, SlotsOK
<1>3. CASE Plan
  <2>1. \A p \in queue' : Sound(p, Found, pending)
    BY <1>3, QueueIsSound DEF Plan, PhaseOK
  <2>2. received' \subseteq pending
    BY <1>3 DEF Plan, Synthetic
  <2>3. /\ slot' \in [Slot -> SlotRecords] /\ \A s \in Slot : SlotOK(slot'[s], Found, pending)
        /\ \A s \in Slot : s <= Workers => slot'[s].state # "absent"
    BY <1>3, SomeSlots DEF Plan
  <2> QED
    BY <1>1, <1>3, <2>1, <2>2, <2>3 DEF Plan, SlotsOK
<1>4. CASE Return
  BY <1>1, <1>4, SomeSlots DEF Return, SlotsOK
<1>5. CASE Respawn
  BY <1>1, <1>5, SomeSlots DEF Respawn, callVars, SlotsOK
<1>6. CASE GiveUp
  BY <1>1, <1>6 DEF GiveUp, callVars, SlotsOK
<1>7. CASE Report
  BY <1>1, <1>7 DEF Report, callVars, SlotsOK
<1>8. ASSUME NEW s \in Slot, Dispatch(s) PROVE SlotsOK'
  <2>1. PICK p \in queue : /\ queue' = queue \ {p}
                           /\ HandsOver(s, p)
    BY <1>8 DEF Dispatch, HandsOver
  <2>2. PICK w : OneSlot(s, w) /\ SlotOK(w, Found, pending) /\ w.state = "busy"
    <3>1. HandedOver(s, p)
      BY <1>8, <2>1, Dispatched1 DEF Dispatch
    <3> QED BY <3>1 DEF HandedOver
  <2>3. phase = "running" /\ phase' = phase /\ pending' = pending /\ received' = received /\ lost' = lost
        /\ masterDied' = masterDied
    BY <1>8 DEF Dispatch
  <2>4. \A q \in queue' : Sound(q, Found, pending)
    BY <2>1, <2>3 DEF SlotsOK
  <2>5. received' \subseteq pending /\ (lost' => masterDied')
    BY <2>3 DEF SlotsOK
  <2> QED
    BY <1>1, <2>2, <2>3, <2>4, <2>5, RunningSlots
<1>9. ASSUME NEW s \in Slot, RunNext(s) PROVE SlotsOK'
  <2>1. PICK w : OneSlot(s, w) /\ SlotOK(w, Found, pending) /\ w.state = "busy"
    BY <1>9, RanSlot DEF RunNext
  <2>2. phase = "running"
    BY <1>9, BusyRuns DEF RunNext, Ran
  <2>3. /\ phase' = phase /\ pending' = pending /\ queue' = queue /\ lost' = lost /\ masterDied' = masterDied
        /\ received' = received \cup DOMAIN Rows(Following(slot[s].left).class, Following(slot[s].left).methods)
    BY <1>9 DEF RunNext
  <2>4. received' \subseteq pending
    <3>1. RunsBatch(s, Following(slot[s].left))
      BY <1>9, BatchRun DEF RunNext, Ran
    <3>2. received \subseteq pending
      BY <2>2 DEF SlotsOK
    <3> QED
      BY <2>3, <3>1, <3>2 DEF RunsBatch, RowsOK
  <2>5. (\A q \in queue' : Sound(q, Found, pending)) /\ (lost' => masterDied')
    BY <2>2, <2>3 DEF SlotsOK
  <2> QED
    BY <1>1, <2>1, <2>2, <2>3, <2>4, <2>5, RunningSlots
<1>10. ASSUME NEW s \in Slot, FinishPlan(s) PROVE SlotsOK'
  <2> DEFINE w == CASE inline \/ ~slot[s].plan.force -> [slot[s] EXCEPT !.state = "idle", !.plan = NoPlan]
                    [] ~inline /\ slot[s].plan.force /\ masterDied  -> Absent
                    [] ~inline /\ slot[s].plan.force /\ ~masterDied -> Fresh
  <2>1. /\ slot' = [slot EXCEPT ![s] = w] /\ slot[s].left = {}
        /\ phase' = phase /\ pending' = pending /\ queue' = queue /\ lost' = lost /\ masterDied' = masterDied
        /\ received' = received
    BY <1>10 DEF FinishPlan
  <2>2. phase = "running"
    BY <1>10, BusyRuns DEF FinishPlan
  <2>3. SlotOK(w, Found, pending) /\ (masterDied \/ w.state # "absent")
    <3>1. SlotOK(slot[s], Found, pending)
      BY DEF SlotsOK
    <3>2. CASE inline \/ ~slot[s].plan.force
      <4>1. w = [slot[s] EXCEPT !.state = "idle", !.plan = NoPlan]
        BY <3>2
      <4>2. w \in SlotRecords /\ w.state = "idle" /\ w.plan = NoPlan /\ w.left = {}
        BY <2>1, <3>1, <4>1, SomeSlots DEF SlotOK, SlotRecords
      <4> HIDE DEF w
      <4> QED
        BY <4>2 DEF SlotOK
    <3>3. CASE ~inline /\ slot[s].plan.force /\ masterDied
      BY <3>3, SomeSlots
    <3>4. CASE ~inline /\ slot[s].plan.force /\ ~masterDied
      BY <3>4, SomeSlots
    <3> QED
      BY <3>2, <3>3, <3>4
  <2> HIDE DEF w
  <2>4. OneSlot(s, w)
    BY <2>1, <2>3, OneSlotChanges DEF SlotOK
  <2>5. (\A q \in queue' : Sound(q, Found, pending)) /\ (lost' => masterDied') /\ received' \subseteq pending
    BY <2>1, <2>2 DEF SlotsOK
  <2> QED
    BY <1>1, <2>1, <2>2, <2>3, <2>4, <2>5, RunningSlots
<1>11. CASE MasterDies
  <2>1. /\ phase = "running" /\ phase' = phase /\ masterDied' = TRUE /\ queue' = queue /\ pending' = pending
        /\ received' = received
        /\ slot' = slot \/ slot' = [s \in Slot |-> Absent]
    BY <1>11 DEF MasterDies
  <2>2. slot' \in [Slot -> SlotRecords] /\ \A s \in Slot : SlotOK(slot'[s], Found, pending)
    BY <2>1, SomeSlots DEF SlotsOK
  <2> QED
    BY <1>1, <2>1, <2>2 DEF SlotsOK
<1>12. CASE LosePlan
  <2>1. /\ phase = "running" /\ phase' = phase /\ masterDied' = masterDied /\ masterDied /\ pending' = pending
        /\ received' = received /\ slot' = slot /\ queue' \subseteq queue
    BY <1>12 DEF LosePlan
  <2> QED
    BY <1>1, <2>1 DEF SlotsOK
<1>13. ASSUME NEW s \in Slot, WorkerDies(s) PROVE SlotsOK'
  <2> DEFINE unrun == Unrun(slot[s].plan)
  <2>1. /\ phase' = phase /\ pending' = pending /\ lost' = lost /\ masterDied' = masterDied
        /\ slot' = [slot EXCEPT ![s] = Fresh] /\ slot[s].state = "busy"
        /\ queue' = queue \cup RequeuedPlans(slot[s].plan, unrun)
        /\ received' = received \cup {t \in unrun : attempts[t] + 1 >= MAX_ATTEMPTS}
    BY <1>13 DEF WorkerDies
  <2>2. phase = "running"
    BY <2>1, BusyRuns
  <2>3. Sound(slot[s].plan, Found, pending) /\ unrun \in SUBSET PlanTests(slot[s].plan)
    BY <2>1 DEF SlotsOK, SlotOK, Unrun
  <2> HIDE DEF unrun
  <2>4. \A q \in RequeuedPlans(slot[s].plan, unrun) : Sound(q, Found, pending)
    BY <2>3, Requeued DEF Requeues
  <2>5. unrun \subseteq pending
    BY <2>3, SoundTests
  <2>6. OneSlot(s, Fresh)
    BY <2>1, SomeSlots, OneSlotChanges
  <2>7. (\A q \in queue' : Sound(q, Found, pending)) /\ (lost' => masterDied') /\ received' \subseteq pending
    BY <2>1, <2>2, <2>4, <2>5 DEF SlotsOK
  <2> QED
    BY <1>1, <2>1, <2>2, <2>6, <2>7, SomeSlots, RunningSlots
<1>14. ASSUME NEW s \in Slot, OrphanDies(s) PROVE SlotsOK'
  <2>1. /\ phase = "running" /\ phase' = phase /\ masterDied' = masterDied /\ masterDied /\ pending' = pending
        /\ received' = received /\ queue' = queue /\ slot' = [slot EXCEPT ![s] = Absent]
    BY <1>14 DEF OrphanDies
  <2>2. OneSlot(s, Absent)
    BY <2>1, SomeSlots, OneSlotChanges
  <2>3. (\A q \in queue' : Sound(q, Found, pending)) /\ (lost' => masterDied') /\ received' \subseteq pending
    BY <2>1 DEF SlotsOK
  <2> QED
    BY <1>1, <2>1, <2>2, <2>3, SomeSlots, RunningSlots
<1>15. CASE UNCHANGED vars
  BY <1>1, <1>15 DEF vars, callVars, SlotsOK
<1> QED
  BY <1>2, <1>3, <1>4, <1>5, <1>6, <1>7, <1>8, <1>9, <1>10, <1>11, <1>12, <1>13, <1>14, <1>15
     DEF Next, LoopStep, WorkerStep, Failure, Over

----------------------------------------------------------------------------
(* Where the tests are.                                                    *)
LEMMA QueueGrows ==
  ASSUME NEW Q, queue' = queue \cup Q
  PROVE  QueueTests' = QueueTests \cup UNION {PlanTests(p) : p \in Q}
BY DEF QueueTests

\* Taking a plan off the queue takes its tests, and no other, off the queue.
LEMMA QueueShrinks ==
  ASSUME NEW p \in queue, queue' = queue \ {p},
         \A q, r \in queue : q = r \/ PlanTests(q) \cap PlanTests(r) = {}
  PROVE  QueueTests' = QueueTests \ PlanTests(p) /\ PlanTests(p) \subseteq QueueTests
<1>1. \A q \in queue \ {p} : PlanTests(q) \cap PlanTests(p) = {}
  OBVIOUS
<1>2. PlanTests(p) \subseteq QueueTests
  BY DEF QueueTests
<1>3. ASSUME NEW t \in QueueTests' PROVE t \in QueueTests \ PlanTests(p)
  <2>1. PICK q \in queue \ {p} : t \in PlanTests(q)
    BY DEF QueueTests
  <2> QED
    BY <1>1, <2>1 DEF QueueTests
<1>4. ASSUME NEW t \in QueueTests \ PlanTests(p) PROVE t \in QueueTests'
  <2>1. PICK q \in queue : t \in PlanTests(q)
    BY DEF QueueTests
  <2>2. q \in queue'
    BY <2>1
  <2> QED
    BY <2>1, <2>2 DEF QueueTests
<1> QED
  BY <1>2, <1>3, <1>4

\* Changing one slot changes the tests left to that slot alone.
LEMMA OneSlotTests ==
  ASSUME NEW s \in Slot, NEW w, OneSlot(s, w)
  PROVE  /\ LeftTests(s)' = UNION {BatchTests(b) : b \in w.left}
         /\ slot'[s].plan = w.plan
         /\ \A r \in Slot : r # s => LeftTests(r)' = LeftTests(r) /\ slot'[r].plan = slot[r].plan
BY DEF LeftTests, OneSlot

\* The tests left to a worker are tests of its plan; an idle worker has neither.
LEMMA SlotTests ==
  ASSUME SlotsOK, NEW s \in Slot
  PROVE  /\ LeftTests(s) \subseteq PlanTests(slot[s].plan) /\ PlanTests(slot[s].plan) \subseteq pending
         /\ slot[s].state # "busy" => LeftTests(s) = {} /\ PlanTests(slot[s].plan) = {}
<1>1. SlotOK(slot[s], Found, pending)
  BY DEF SlotsOK
<1>2. CASE slot[s].state = "busy"
  <2>1. Sound(slot[s].plan, Found, pending) /\ slot[s].left \subseteq slot[s].plan.classes
    BY <1>1, <1>2 DEF SlotOK
  <2> QED
    BY <1>2, <2>1, SoundTests DEF LeftTests, PlanTests
<1>3. CASE slot[s].state # "busy"
  <2>1. slot[s].plan = NoPlan /\ slot[s].left = {}
    BY <1>1, <1>3 DEF SlotOK
  <2> QED
    BY <2>1, SomeSlots DEF LeftTests
<1> QED
  BY <1>2, <1>3

(* The tests of slot s become L, and R more are received.                  *)
LEMMA TestsMove ==
  ASSUME TestsOK, phase = "running", pending' = pending,
         NEW s \in Slot, NEW L, NEW R, NEW P,
         LeftTests(s)' = L, PlanTests(slot'[s].plan) = P,
         \A r \in Slot : r # s => LeftTests(r)' = LeftTests(r) /\ slot'[r].plan = slot[r].plan,
         L \subseteq LeftTests(s), R \subseteq LeftTests(s), L \cap R = {},
         P \subseteq L \cup received \cup R,
         queue' = queue, received' = received \cup R,
         lost' \/ (~lost /\ LeftTests(s) \subseteq L \cup R) \/ lost
  PROVE  (lost => lost') => TestsOK'
<1> SUFFICES ASSUME lost => lost' PROVE TestsOK'
  OBVIOUS
<1>1. QueueTests' = QueueTests
  BY DEF QueueTests
<1>2. \A r, q \in Slot : r = q \/ LeftTests(r)' \cap LeftTests(q)' = {}
  BY DEF TestsOK
<1>3. \A r \in Slot : LeftTests(r)' \cap (received' \cup QueueTests) = {}
  BY DEF TestsOK
<1>4. \A p \in queue : PlanTests(p) \cap received' = {}
  <2>1. \A p \in queue : PlanTests(p) \subseteq QueueTests
    BY DEF QueueTests
  <2> QED
    BY <2>1 DEF TestsOK
<1>5. \A r \in Slot : PlanTests(slot'[r].plan) \subseteq LeftTests(r)' \cup received'
  BY DEF TestsOK
<1>6. ~lost' => pending \subseteq received' \cup QueueTests \cup UNION {LeftTests(r)' : r \in Slot}
  <2> SUFFICES ASSUME ~lost', NEW t \in pending, t \notin received', t \notin QueueTests
               PROVE  \E r \in Slot : t \in LeftTests(r)'
    OBVIOUS
  <2>1. PICK r \in Slot : t \in LeftTests(r)
    BY DEF TestsOK
  <2> QED
    BY <2>1
<1> QED
  BY <1>1, <1>2, <1>3, <1>4, <1>5, <1>6 DEF TestsOK

(* A worker's death: what its plan still owed is queued again or given up. *)
Given(s) == {t \in LeftTests(s) : attempts[t] + 1 >= MAX_ATTEMPTS}
Retried(s) == {t \in LeftTests(s) : attempts[t] + 1 < MAX_ATTEMPTS}

\* A death splits the tests left to the worker into those given up on, which get an error, and those
\* retried.
LEMMA DeathSplits ==
  ASSUME PhaseOK, SlotsOK, TestsOK, StartsOK, NEW s \in Slot, WorkerDies(s)
  PROVE  /\ phase = "running" /\ phase' = phase /\ pending' = pending /\ lost' = lost /\ masterDied' = masterDied
         /\ Unrun(slot[s].plan) = LeftTests(s)
         /\ Given(s) \cup Retried(s) = LeftTests(s) /\ Given(s) \cap Retried(s) = {}
         /\ LeftTests(s) \cap received = {} /\ LeftTests(s) \subseteq pending
         /\ received' = received \cup Given(s)
         /\ attempts' = [t \in AllTests |-> IF t \in Retried(s) THEN attempts[t] + 1 ELSE attempts[t]]
         /\ Reporting(Errors(Given(s)))
         /\ \E Q : /\ queue' = queue \cup Q
                   /\ Requeues(Q, Retried(s), {b.class : b \in slot[s].plan.classes}, Found, pending)
<1> DEFINE unrun == Unrun(slot[s].plan)
<1>1. /\ slot[s].state = "busy" /\ phase' = phase /\ pending' = pending /\ lost' = lost /\ masterDied' = masterDied
  BY DEF WorkerDies
<1>2. phase = "running"
  BY <1>1, BusyRuns
<1>3. Sound(slot[s].plan, Found, pending)
  BY <1>1 DEF SlotsOK, SlotOK
<1>4. unrun = LeftTests(s) /\ LeftTests(s) \cap received = {} /\ LeftTests(s) \subseteq pending
  BY <1>2, SlotTests DEF Unrun, TestsOK
<1>5. LeftTests(s) \subseteq AllTests
  BY <1>4, Seen DEF PhaseOK
<1>6. \A t \in LeftTests(s) : attempts[t] \in Nat
  BY <1>5 DEF StartsOK, MAX_ATTEMPTS
<1>7. Given(s) \cup Retried(s) = LeftTests(s) /\ Given(s) \cap Retried(s) = {}
  BY <1>6 DEF Given, Retried, MAX_ATTEMPTS
<1>8. Given(s) = {t \in unrun : attempts[t] + 1 >= MAX_ATTEMPTS}
  BY <1>4 DEF Given
<1>9. unrun \ Given(s) = Retried(s)
  BY <1>4, <1>7
<1>10. /\ queue' = queue \cup RequeuedPlans(slot[s].plan, unrun)
       /\ received' = received \cup Given(s) /\ Reporting(Errors(Given(s)))
       /\ attempts' = [t \in AllTests |-> IF t \in unrun \ Given(s) THEN attempts[t] + 1 ELSE attempts[t]]
  BY <1>8, Zenon DEF WorkerDies
<1>11. unrun \in SUBSET PlanTests(slot[s].plan)
  BY DEF Unrun
<1>12. {t \in unrun : attempts[t] + 1 < MAX_ATTEMPTS} = Retried(s)
  BY <1>4 DEF Retried
<1> HIDE DEF unrun
<1>13. Requeues(RequeuedPlans(slot[s].plan, unrun), {t \in unrun : attempts[t] + 1 < MAX_ATTEMPTS},
                {b.class : b \in slot[s].plan.classes}, Found, pending)
  BY <1>3, <1>11, Requeued, Zenon
<1>14. \E Q : /\ queue' = queue \cup Q
              /\ Requeues(Q, Retried(s), {b.class : b \in slot[s].plan.classes}, Found, pending)
  BY <1>10, <1>12, <1>13
<1>15. attempts' = [t \in AllTests |-> IF t \in Retried(s) THEN attempts[t] + 1 ELSE attempts[t]]
  BY <1>9, <1>10
<1> QED
  BY <1>1, <1>2, <1>4, <1>7, <1>10, <1>14, <1>15 DEF unrun

\* Every step keeps each pending test in one place: queue, worker, received or lost.
LEMMA TestsKept ==
  ASSUME PhaseOK, SlotsOK, TestsOK, StartsOK, [Next]_vars
  PROVE  TestsOK'
<1>1. /\ scenario' = scenario /\ Found' = Found /\ Chosen' = Chosen /\ Workers' = Workers
  BY NextKeepsScenario
<1>2. CASE phase' # "running"
  BY <1>2 DEF TestsOK
<1>3. CASE Plan
  <2>1. Fair(BuildQueue(Found, pending, Workers), pending \ Synthetic(Found, pending), Found, pending)
    BY QueueIsSound DEF PhaseOK
  <2>2. /\ queue' = BuildQueue(Found, pending, Workers) /\ received' = Synthetic(Found, pending) /\ pending' = pending
        /\ slot' = [s \in Slot |-> IF s <= Workers THEN Fresh ELSE Absent]
    BY <1>3 DEF Plan
  <2>3. QueueTests' = pending \ Synthetic(Found, pending)
    BY <2>1, <2>2 DEF Fair, QueueTests
  <2>4. \A p, q \in queue' : p = q \/ PlanTests(p) \cap PlanTests(q) = {}
    BY <2>1, <2>2 DEF Fair
  <2>5. \A p \in queue' : PlanTests(p) \cap received' = {}
    <3>1. \A p \in queue' : PlanTests(p) \subseteq QueueTests'
      BY DEF QueueTests
    <3> QED
      BY <2>2, <2>3, <3>1
  <2>6. \A s \in Slot : LeftTests(s)' = {} /\ PlanTests(slot'[s].plan) = {}
    <3>1. \A s \in Slot : slot'[s] = Fresh \/ slot'[s] = Absent
      BY <2>2
    <3>2. \A s \in Slot : slot'[s].plan = NoPlan /\ slot'[s].left = {}
      BY <3>1, SomeSlots
    <3> QED
      BY <3>2, SomeSlots DEF LeftTests
  <2> QED
    BY <2>2, <2>3, <2>4, <2>5, <2>6 DEF TestsOK
<1>4. ASSUME NEW s \in Slot, Dispatch(s) PROVE TestsOK'
  <2>1. PICK p \in queue : /\ queue' = queue \ {p}
                           /\ HandsOver(s, p)
    BY <1>4 DEF Dispatch, HandsOver
  <2>2. phase = "running" /\ phase' = phase /\ pending' = pending /\ received' = received /\ lost' = lost
    BY <1>4 DEF Dispatch
  <2>3. PICK w : /\ OneSlot(s, w) /\ SlotOK(w, Found, pending)
                 /\ w.state = "busy" /\ w.plan = p /\ w.left = p.classes /\ w.stained = slot[s].stained
    <3>1. HandedOver(s, p)
      BY <2>1, <2>2, Dispatched1
    <3> QED BY <3>1 DEF HandedOver
  <2>4. /\ LeftTests(s)' = PlanTests(p) /\ slot'[s].plan = p
        /\ \A r \in Slot : r # s => LeftTests(r)' = LeftTests(r) /\ slot'[r].plan = slot[r].plan
    BY <2>3, OneSlotTests DEF PlanTests
  <2>5. LeftTests(s) = {}
    BY <1>4, SlotTests DEF Dispatch
  <2>6. QueueTests' = QueueTests \ PlanTests(p) /\ PlanTests(p) \subseteq QueueTests
    BY <2>1, <2>2, QueueShrinks DEF TestsOK
  <2>7. /\ \A q \in queue' : PlanTests(q) \cap received' = {}
        /\ \A q, r \in queue' : q = r \/ PlanTests(q) \cap PlanTests(r) = {}
    BY <2>1, <2>2 DEF TestsOK
  <2>8. \A r \in Slot : LeftTests(r)' \cap (received' \cup QueueTests') = {}
    BY <2>1, <2>2, <2>4, <2>6 DEF TestsOK
  <2>9. \A r, q \in Slot : r = q \/ LeftTests(r)' \cap LeftTests(q)' = {}
    BY <2>2, <2>4, <2>6 DEF TestsOK
  <2>10. \A r \in Slot : PlanTests(slot'[r].plan) \subseteq LeftTests(r)' \cup received'
    BY <2>2, <2>4 DEF TestsOK
  <2>11. ~lost' => pending \subseteq received' \cup QueueTests' \cup UNION {LeftTests(r)' : r \in Slot}
    <3> SUFFICES ASSUME ~lost', NEW t \in pending, t \notin received', t \notin QueueTests'
                 PROVE  \E r \in Slot : t \in LeftTests(r)'
      OBVIOUS
    <3>1. CASE t \in PlanTests(p)
      BY <2>4, <3>1
    <3>2. CASE t \notin PlanTests(p)
      <4>1. PICK r \in Slot : t \in LeftTests(r)
        BY <2>2, <2>6, <3>2 DEF TestsOK
      <4> QED
        BY <2>4, <2>5, <4>1
    <3> QED
      BY <3>1, <3>2
  <2> QED
    BY <2>2, <2>7, <2>8, <2>9, <2>10, <2>11 DEF TestsOK
<1>5. ASSUME NEW s \in Slot, RunNext(s) PROVE TestsOK'
  <2> DEFINE b == Following(slot[s].left)
  <2>1. PICK w : /\ OneSlot(s, w) /\ w.plan = slot[s].plan /\ w.left = slot[s].left \ {b}
    BY <1>5, RanSlot DEF RunNext
  <2>2. RunsBatch(s, b) /\ phase = "running"
    BY <1>5, BatchRun, BusyRuns DEF RunNext, Ran
  <2>3. /\ phase' = phase /\ pending' = pending /\ queue' = queue /\ lost' = lost
        /\ received' = received \cup DOMAIN Rows(b.class, b.methods)
    BY <1>5 DEF RunNext
  <2> HIDE DEF b
  <2>4. received' = received \cup BatchTests(b)
    BY <2>2, <2>3 DEF RunsBatch, RowsOK
  <2> DEFINE L == UNION {BatchTests(c) : c \in slot[s].left \ {b}}
  <2>5. /\ LeftTests(s)' = L /\ slot'[s].plan = slot[s].plan
        /\ \A r \in Slot : r # s => LeftTests(r)' = LeftTests(r) /\ slot'[r].plan = slot[r].plan
    BY <2>1, OneSlotTests
  <2>6. LeftTests(s) = BatchTests(b) \cup L /\ BatchTests(b) \cap L = {}
    BY <2>2 DEF RunsBatch
  <2> HIDE DEF L
  <2>7. PlanTests(slot[s].plan) \subseteq L \cup received \cup BatchTests(b)
    BY <2>2, <2>6 DEF TestsOK
  <2> QED
    BY <2>2, <2>3, <2>4, <2>5, <2>6, <2>7, TestsMove
<1>6. ASSUME NEW s \in Slot, FinishPlan(s) PROVE TestsOK'
  <2>1. PICK w : slot' = [slot EXCEPT ![s] = w] /\ w \in SlotRecords /\ w.left = {} /\ w.plan = NoPlan
    <3> DEFINE v == [slot[s] EXCEPT !.state = "idle", !.plan = NoPlan]
    <3>1. slot[s] \in SlotRecords /\ slot[s].left = {}
      BY <1>6 DEF FinishPlan, SlotsOK
    <3>2. v \in SlotRecords /\ v.left = {} /\ v.plan = NoPlan
      BY <3>1, SomeSlots DEF SlotRecords
    <3>3. slot' = [slot EXCEPT ![s] = v] \/ slot' = [slot EXCEPT ![s] = Absent] \/ slot' = [slot EXCEPT ![s] = Fresh]
      <4>1. CASE inline \/ ~slot[s].plan.force
        BY <1>6, <4>1 DEF FinishPlan
      <4>2. CASE ~inline /\ slot[s].plan.force /\ masterDied
        BY <1>6, <4>2 DEF FinishPlan
      <4>3. CASE ~inline /\ slot[s].plan.force /\ ~masterDied
        BY <1>6, <4>3 DEF FinishPlan
      <4> QED
        BY <4>1, <4>2, <4>3
    <3> HIDE DEF v
    <3> QED
      BY <3>2, <3>3, SomeSlots
  <2>2. OneSlot(s, w)
    BY <2>1, OneSlotChanges
  <2>3. /\ LeftTests(s)' = {} /\ PlanTests(slot'[s].plan) = {}
        /\ \A r \in Slot : r # s => LeftTests(r)' = LeftTests(r) /\ slot'[r].plan = slot[r].plan
    <3>1. UNION {BatchTests(b) : b \in w.left} = {}
      BY <2>1
    <3> QED
      BY <2>1, <2>2, <3>1, OneSlotTests, SomeSlots
  <2>4. LeftTests(s) = {}
    BY <1>6 DEF FinishPlan, LeftTests
  <2>5. /\ phase = "running" /\ phase' = phase /\ pending' = pending /\ queue' = queue /\ lost' = lost
        /\ received' = received \cup {}
    BY <1>6, BusyRuns DEF FinishPlan
  <2> QED
    BY <2>3, <2>4, <2>5, TestsMove
<1>7. CASE MasterDies
  <2>1. /\ phase = "running" /\ phase' = phase /\ pending' = pending /\ queue' = queue /\ received' = received
        /\ slot' = IF inline THEN [s \in Slot |-> Absent] ELSE slot
        /\ lost' = (inline /\ \E s \in Slot : slot[s].state = "busy")
        /\ ~lost
    BY <1>7 DEF MasterDies, SlotsOK
  <2>2. QueueTests' = QueueTests
    BY <2>1 DEF QueueTests
  <2>3. CASE slot' = slot /\ lost' = FALSE
    BY <2>1, <2>2, <2>3 DEF TestsOK, LeftTests
  <2>4. CASE slot' = [s \in Slot |-> Absent]
    <3>1. \A s \in Slot : LeftTests(s)' = {} /\ PlanTests(slot'[s].plan) = {}
      <4>1. \A s \in Slot : slot'[s].plan = NoPlan /\ slot'[s].left = {}
        BY <2>4, SomeSlots
      <4> QED
        BY <4>1, SomeSlots DEF LeftTests
    <3>2. inline /\ ~lost' => \A s \in Slot : LeftTests(s) = {}
      BY <2>1, SlotTests
    <3>3. ~lost' => pending \subseteq received \cup QueueTests
      <4>1. CASE inline
        BY <2>1, <3>2, <4>1 DEF TestsOK
      <4>2. CASE ~inline
        <5>1. slot' = slot
          BY <2>1, <4>2
        <5>2. \A s \in Slot : LeftTests(s) = {}
          BY <3>1, <5>1 DEF LeftTests
        <5> QED
          BY <2>1, <5>2 DEF TestsOK
      <4> QED
        BY <4>1, <4>2
    <3> QED
      BY <2>1, <2>2, <3>1, <3>3 DEF TestsOK
  <2> QED
    BY <2>1, <2>3, <2>4
<1>8. CASE LosePlan
  <2>1. PICK p \in queue : queue' = queue \ {p}
    BY <1>8 DEF LosePlan
  <2>2. /\ phase = "running" /\ phase' = phase /\ pending' = pending /\ received' = received /\ slot' = slot
        /\ lost' = TRUE
    BY <1>8 DEF LosePlan
  <2>3. QueueTests' = QueueTests \ PlanTests(p)
    BY <2>1, <2>2, QueueShrinks DEF TestsOK
  <2>4. \A s \in Slot : LeftTests(s)' = LeftTests(s)
    BY <2>2 DEF LeftTests
  <2> QED
    BY <2>1, <2>2, <2>3, <2>4 DEF TestsOK
<1>9. ASSUME NEW s \in Slot, WorkerDies(s) PROVE TestsOK'
  <2>1. /\ phase = "running" /\ phase' = phase /\ pending' = pending /\ lost' = lost
        /\ Given(s) \cup Retried(s) = LeftTests(s) /\ Given(s) \cap Retried(s) = {}
        /\ LeftTests(s) \cap received = {}
        /\ received' = received \cup Given(s)
    BY <1>9, DeathSplits
  <2>2. PICK Q : /\ queue' = queue \cup Q
                 /\ Requeues(Q, Retried(s), {b.class : b \in slot[s].plan.classes}, Found, pending)
    BY <1>9, DeathSplits
  <2>3. OneSlot(s, Fresh)
    BY <1>9, SomeSlots, OneSlotChanges DEF WorkerDies
  <2>4. /\ LeftTests(s)' = {} /\ PlanTests(slot'[s].plan) = {}
        /\ \A r \in Slot : r # s => LeftTests(r)' = LeftTests(r) /\ slot'[r].plan = slot[r].plan
    <3>1. UNION {BatchTests(b) : b \in Fresh.left} = {}
      BY SomeSlots
    <3> QED
      BY <2>3, <3>1, OneSlotTests, SomeSlots
  <2>5. /\ UNION {PlanTests(p) : p \in Q} = Retried(s)
        /\ \A p, q \in Q : p = q \/ PlanTests(p) \cap PlanTests(q) = {}
    BY <2>2 DEF Requeues
  <2>6. QueueTests' = QueueTests \cup Retried(s)
    BY <2>2, <2>5, QueueGrows
  <2>7. \A p \in Q : PlanTests(p) \subseteq Retried(s)
    BY <2>5
  <2>8. LeftTests(s) \cap (received \cup QueueTests) = {}
    BY <2>1 DEF TestsOK
  <2>9. \A p \in queue : PlanTests(p) \subseteq QueueTests
    BY DEF QueueTests
  <2>10. \A p \in queue : PlanTests(p) \cap received' = {}
    BY <2>1, <2>8, <2>9 DEF TestsOK
  <2>11. \A p \in Q : PlanTests(p) \cap received' = {}
    BY <2>1, <2>7
  <2>12. \A p, q \in queue' : p = q \/ PlanTests(p) \cap PlanTests(q) = {}
    <3>1. \A p \in queue, q \in Q : PlanTests(p) \cap PlanTests(q) = {}
      BY <2>1, <2>7, <2>8, <2>9
    <3>2. \A p, q \in queue : p = q \/ PlanTests(p) \cap PlanTests(q) = {}
      BY <2>1 DEF TestsOK
    <3> QED
      BY <2>2, <2>5, <3>1, <3>2
  <2>13. \A r \in Slot : r # s => LeftTests(r) \cap LeftTests(s) = {}
    BY <2>1 DEF TestsOK
  <2>14. \A r \in Slot : LeftTests(r)' \cap (received' \cup QueueTests') = {}
    <3>1. \A r \in Slot : LeftTests(r) \cap (received \cup QueueTests) = {}
      BY <2>1 DEF TestsOK
    <3> QED
      BY <2>1, <2>4, <2>6, <2>13, <3>1
  <2>15. \A r, q \in Slot : r = q \/ LeftTests(r)' \cap LeftTests(q)' = {}
    BY <2>1, <2>4 DEF TestsOK
  <2>16. \A r \in Slot : PlanTests(slot'[r].plan) \subseteq LeftTests(r)' \cup received'
    BY <2>1, <2>4 DEF TestsOK
  <2>17. ~lost' => pending \subseteq received' \cup QueueTests' \cup UNION {LeftTests(r)' : r \in Slot}
    <3> SUFFICES ASSUME ~lost', NEW t \in pending, t \notin received', t \notin QueueTests'
                 PROVE  \E r \in Slot : t \in LeftTests(r)'
      OBVIOUS
    <3>1. PICK r \in Slot : t \in LeftTests(r)
      BY <2>1, <2>6 DEF TestsOK
    <3>2. r # s
      BY <2>1, <2>6, <3>1
    <3> QED
      BY <2>4, <3>1, <3>2
  <2>18. \A p \in queue' : PlanTests(p) \cap received' = {}
    BY <2>2, <2>10, <2>11
  <2> QED
    BY <2>1, <2>12, <2>14, <2>15, <2>16, <2>17, <2>18 DEF TestsOK
<1>10. ASSUME NEW s \in Slot, OrphanDies(s) PROVE TestsOK'
  <2>1. /\ phase = "running" /\ phase' = phase /\ pending' = pending /\ queue' = queue
        /\ received' = received \cup {} /\ slot' = [slot EXCEPT ![s] = Absent]
        /\ lost' = (lost \/ slot[s].state = "busy")
    BY <1>10 DEF OrphanDies
  <2>2. OneSlot(s, Absent)
    BY <2>1, SomeSlots, OneSlotChanges
  <2>3. /\ LeftTests(s)' = {} /\ PlanTests(slot'[s].plan) = {}
        /\ \A r \in Slot : r # s => LeftTests(r)' = LeftTests(r) /\ slot'[r].plan = slot[r].plan
    <3>1. UNION {BatchTests(b) : b \in Absent.left} = {}
      BY SomeSlots
    <3> QED
      BY <2>2, <3>1, OneSlotTests, SomeSlots
  <2>4. lost' \/ (~lost /\ LeftTests(s) = {})
    BY <2>1, SlotTests
  <2> QED
    BY <2>1, <2>3, <2>4, TestsMove
<1>11. CASE UNCHANGED vars
  BY <1>11 DEF vars, callVars, TestsOK, LeftTests, QueueTests
<1> QED
  BY <1>2, <1>3, <1>4, <1>5, <1>6, <1>7, <1>8, <1>9, <1>10, <1>11
     DEF Next, LoopStep, WorkerStep, Failure, Over, Launch, Return, Respawn, GiveUp, Report, callVars

----------------------------------------------------------------------------
(* How often the tests were started.                                       *)
LEMMA TestsKnown ==
  ASSUME PhaseOK, SlotsOK
  PROVE  /\ pending \subseteq AllTests /\ QueueTests \subseteq pending
         /\ \A s \in Slot : LeftTests(s) \subseteq pending
<1>1. pending \subseteq AllTests
  BY Seen DEF PhaseOK
<1>2. QueueTests \subseteq pending
  <2>1. \A p \in queue : Sound(p, Found, pending)
    BY DEF SlotsOK
  <2>2. \A p \in queue : PlanTests(p) \subseteq pending
    BY <2>1, SoundTests
  <2> QED
    BY <2>2 DEF QueueTests
<1>3. \A s \in Slot : LeftTests(s) \subseteq pending
  BY SlotTests
<1> QED
  BY <1>1, <1>2, <1>3

\* The steps that only use up work add nothing to the queue or to a worker.
LEMMA LessLeft ==
  ASSUME SlotsOK,
         \/ MasterDies \/ LosePlan
         \/ \E s \in Slot : RunNext(s) \/ FinishPlan(s) \/ OrphanDies(s)
  PROVE  /\ QueueTests' \subseteq QueueTests /\ starts' = starts /\ attempts' = attempts
         /\ \A r \in Slot : slot'[r].left \subseteq slot[r].left
         /\ \A r \in Slot : LeftTests(r)' \subseteq LeftTests(r)
<1>1. queue' \subseteq queue /\ starts' = starts /\ attempts' = attempts
  BY DEF MasterDies, LosePlan, RunNext, FinishPlan, OrphanDies
<1>2. \A r \in Slot : slot'[r].left \subseteq slot[r].left
  <2>1. CASE LosePlan
    BY <2>1 DEF LosePlan
  <2>2. CASE MasterDies
    <3>1. slot' = slot \/ slot' = [s \in Slot |-> Absent]
      BY <2>2 DEF MasterDies
    <3> QED
      BY <3>1, SomeSlots
  <2>3. ASSUME NEW s \in Slot, RunNext(s)
        PROVE  \A r \in Slot : slot'[r].left \subseteq slot[r].left
    BY <2>3, RanSlot DEF RunNext, OneSlot
  <2>4. ASSUME NEW s \in Slot, FinishPlan(s)
        PROVE  \A r \in Slot : slot'[r].left \subseteq slot[r].left
    <3>1. \A r \in Slot : r # s => slot'[r] = slot[r]
      BY <2>4 DEF FinishPlan, SlotsOK
    <3>2. slot[s] \in SlotRecords /\ slot[s].left = {}
      BY <2>4 DEF FinishPlan, SlotsOK
    <3>3. CASE inline \/ ~slot[s].plan.force
      <4>1. slot'[s] = [slot[s] EXCEPT !.state = "idle", !.plan = NoPlan]
        BY <2>4, <3>3 DEF FinishPlan, SlotsOK
      <4>2. slot'[s].left = {}
        BY <3>2, <4>1 DEF SlotRecords
      <4> QED
        BY <3>1, <4>2
    <3>4. CASE ~inline /\ slot[s].plan.force
      <4>1. slot'[s] = Fresh \/ slot'[s] = Absent
        BY <2>4, <3>4 DEF FinishPlan, SlotsOK
      <4> QED
        BY <3>1, <4>1, SomeSlots
    <3> QED
      BY <3>3, <3>4
  <2>5. ASSUME NEW s \in Slot, OrphanDies(s)
        PROVE  \A r \in Slot : slot'[r].left \subseteq slot[r].left
    <3>1. slot' = [slot EXCEPT ![s] = Absent]
      BY <2>5 DEF OrphanDies
    <3> QED
      BY <3>1, SomeSlots DEF SlotsOK
  <2> QED
    BY <2>1, <2>2, <2>3, <2>4, <2>5
<1>3. QueueTests' \subseteq QueueTests
  BY <1>1 DEF QueueTests
<1>4. \A r \in Slot : LeftTests(r)' \subseteq LeftTests(r)
  BY <1>2 DEF LeftTests
<1> QED
  BY <1>1, <1>2, <1>3, <1>4

\* Every step keeps the starts of a test behind the retries charged to it.
LEMMA StartsKept ==
  ASSUME PhaseOK, SlotsOK, TestsOK, StartsOK, [Next]_vars
  PROVE  StartsOK'
<1>1. CASE Launch
  BY <1>1 DEF Launch, callVars, StartsOK
<1>2. CASE Plan
  <2>1. /\ starts' = starts /\ attempts' = [t \in AllTests |-> 0] /\ phase' = "running"
        /\ \A t \in AllTests : starts[t].call = 0
    BY <1>2 DEF Plan, StartsOK
  <2>2. \A s \in Slot : LeftTests(s)' = {}
    <3>1. \A s \in Slot : slot'[s] = Fresh \/ slot'[s] = Absent
      BY <1>2 DEF Plan
    <3> QED
      BY <3>1, SomeSlots DEF LeftTests
  <2>3. QueueTests' \subseteq AllTests
    <3>1. PhaseOK' /\ SlotsOK'
      BY PhaseKept, SlotsKept
    <3>2. pending' \subseteq AllTests
      BY <1>2, TestsKnown DEF Plan
    <3>3. \A p \in queue' : Sound(p, Found, pending)
      BY <1>2, QueueIsSound DEF Plan, PhaseOK
    <3> QED
      BY <1>2, <3>2, <3>3, SoundTests DEF QueueTests, Plan
  <2> QED
    BY <2>1, <2>2, <2>3 DEF StartsOK, MAX_ATTEMPTS
<1>3. CASE Return
  BY <1>3 DEF Return, StartsOK
<1>4. CASE Respawn
  <2>1. /\ attempts' = attempts /\ phase' # "running" /\ starts' = [t \in AllTests |-> [starts[t] EXCEPT !.call = 0]]
    BY <1>4 DEF Respawn, callVars
  <2>2. \A t \in AllTests : starts'[t] \in [call : 0 .. MAX_ATTEMPTS, all : Nat] /\ starts'[t].call = 0
    BY <2>1 DEF StartsOK, MAX_ATTEMPTS
  <2>3. starts' \in [AllTests -> [call : 0 .. MAX_ATTEMPTS, all : Nat]]
    BY <2>1, <2>2
  <2> QED
    BY <2>1, <2>2, <2>3 DEF StartsOK
<1>5. CASE GiveUp
  BY <1>5 DEF GiveUp, callVars, StartsOK
<1>6. CASE Report
  BY <1>6 DEF Report, callVars, StartsOK
<1>7. ASSUME NEW s \in Slot, Dispatch(s) PROVE StartsOK'
  <2>1. PICK p \in queue :
          /\ queue' = queue \ {p}
          /\ HandsOver(s, p)
          /\ starts' = [t \in AllTests |->
               IF t \in PlanTests(p) THEN [call |-> starts[t].call + 1, all |-> starts[t].all + 1]
               ELSE starts[t]]
    BY <1>7 DEF Dispatch, HandsOver
  <2>2. phase = "running" /\ phase' = phase /\ attempts' = attempts
    BY <1>7 DEF Dispatch
  <2>3. PICK w : /\ OneSlot(s, w) /\ SlotOK(w, Found, pending)
                 /\ w.state = "busy" /\ w.plan = p /\ w.left = p.classes /\ w.stained = slot[s].stained
    <3>1. HandedOver(s, p)
      BY <2>1, <2>2, Dispatched1
    <3> QED BY <3>1 DEF HandedOver
  <2>4. /\ LeftTests(s)' = PlanTests(p)
        /\ \A r \in Slot : r # s => LeftTests(r)' = LeftTests(r)
    BY <2>3, OneSlotTests DEF PlanTests
  <2>5. QueueTests' = QueueTests \ PlanTests(p) /\ PlanTests(p) \subseteq QueueTests
    BY <2>1, <2>2, QueueShrinks DEF TestsOK
  <2>6. PlanTests(p) \subseteq AllTests /\ QueueTests \subseteq AllTests /\ \A r \in Slot : LeftTests(r) \subseteq AllTests
    BY <2>5, TestsKnown
  <2>7. \A t \in PlanTests(p) : starts[t].call = attempts[t] /\ attempts[t] \in 0 .. MAX_ATTEMPTS - 1
    BY <2>2, <2>5, <2>6 DEF StartsOK
  <2>8. ASSUME NEW t \in AllTests
        PROVE  /\ starts'[t] \in [call : 0 .. MAX_ATTEMPTS, all : Nat]
               /\ t \in PlanTests(p) => starts'[t].call = attempts[t] + 1
               /\ t \notin PlanTests(p) => starts'[t].call = starts[t].call
    <3>1. starts[t] \in [call : 0 .. MAX_ATTEMPTS, all : Nat]
      BY DEF StartsOK
    <3>2. CASE t \in PlanTests(p)
      <4>1. starts'[t] = [call |-> starts[t].call + 1, all |-> starts[t].all + 1]
        BY <2>1, <3>2
      <4> QED
        BY <2>7, <3>1, <3>2, <4>1 DEF MAX_ATTEMPTS
    <3>3. CASE t \notin PlanTests(p)
      BY <2>1, <3>1, <3>3
    <3> QED
      BY <3>2, <3>3
  <2>9. starts' \in [AllTests -> [call : 0 .. MAX_ATTEMPTS, all : Nat]]
    BY <2>1, <2>8
  <2>10. \A t \in QueueTests' : starts'[t].call = attempts[t]
    BY <2>2, <2>5, <2>6, <2>8 DEF StartsOK
  <2>11. \A r \in Slot : \A t \in LeftTests(r)' : starts'[t].call = attempts[t] + 1
    <3>1. \A r \in Slot : r # s => LeftTests(r) \cap PlanTests(p) = {}
      BY <2>2, <2>5 DEF TestsOK
    <3> QED
      BY <2>2, <2>4, <2>6, <2>8, <3>1 DEF StartsOK
  <2> QED
    BY <2>2, <2>9, <2>10, <2>11 DEF StartsOK
<1>8. ASSUME NEW s \in Slot, WorkerDies(s) PROVE StartsOK'
  <2>1. /\ phase = "running" /\ phase' = phase
        /\ LeftTests(s) \subseteq pending
        /\ Retried(s) \subseteq LeftTests(s)
        /\ attempts' = [t \in AllTests |-> IF t \in Retried(s) THEN attempts[t] + 1 ELSE attempts[t]]
    BY <1>8, DeathSplits
  <2>2. PICK Q : /\ queue' = queue \cup Q
                 /\ Requeues(Q, Retried(s), {b.class : b \in slot[s].plan.classes}, Found, pending)
    BY <1>8, DeathSplits
  <2>3. QueueTests' = QueueTests \cup Retried(s)
    BY <2>2, QueueGrows DEF Requeues
  <2>4. OneSlot(s, Fresh) /\ starts' = starts
    BY <1>8, SomeSlots, OneSlotChanges DEF WorkerDies
  <2>5. LeftTests(s)' = {} /\ \A r \in Slot : r # s => LeftTests(r)' = LeftTests(r)
    <3>1. UNION {BatchTests(b) : b \in Fresh.left} = {}
      BY SomeSlots
    <3> QED
      BY <2>4, <3>1, OneSlotTests
  <2>6. QueueTests \subseteq AllTests /\ \A r \in Slot : LeftTests(r) \subseteq AllTests
    BY TestsKnown
  <2>7. /\ LeftTests(s) \cap QueueTests = {}
        /\ \A r \in Slot : r # s => LeftTests(r) \cap LeftTests(s) = {}
    BY <2>1 DEF TestsOK
  <2>8. \A t \in Retried(s) : attempts[t] + 1 < MAX_ATTEMPTS
    BY DEF Retried
  <2>9. \A t \in AllTests : attempts[t] \in 0 .. MAX_ATTEMPTS - 1
    BY DEF StartsOK
  <2>10. \A t \in AllTests : attempts'[t] \in 0 .. MAX_ATTEMPTS - 1
    BY <2>1, <2>8, <2>9 DEF MAX_ATTEMPTS
  <2>11. attempts' \in [AllTests -> 0 .. MAX_ATTEMPTS - 1]
    BY <2>1, <2>10
  <2>12. \A t \in QueueTests' : starts[t].call = attempts'[t]
    <3>1. \A t \in Retried(s) : starts[t].call = attempts'[t]
      BY <2>1, <2>6 DEF StartsOK
    <3>2. \A t \in QueueTests : starts[t].call = attempts'[t]
      BY <2>1, <2>6, <2>7 DEF StartsOK
    <3> QED
      BY <2>3, <3>1, <3>2
  <2>13. \A r \in Slot : \A t \in LeftTests(r)' : starts[t].call = attempts'[t] + 1
    BY <2>1, <2>5, <2>6, <2>7 DEF StartsOK
  <2> QED
    BY <2>1, <2>4, <2>11, <2>12, <2>13 DEF StartsOK
<1>9. CASE \/ MasterDies \/ LosePlan
           \/ \E s \in Slot : RunNext(s) \/ FinishPlan(s) \/ OrphanDies(s)
  <2>1. /\ QueueTests' \subseteq QueueTests /\ starts' = starts /\ attempts' = attempts
        /\ \A r \in Slot : LeftTests(r)' \subseteq LeftTests(r)
    BY <1>9, LessLeft
  <2>2. phase' = phase
    BY <1>9 DEF MasterDies, LosePlan, RunNext, FinishPlan, OrphanDies
  <2> QED
    BY <2>1, <2>2 DEF StartsOK
<1>10. CASE UNCHANGED vars
  BY <1>10 DEF vars, callVars, StartsOK, LeftTests, QueueTests
<1> QED
  BY <1>1, <1>2, <1>3, <1>4, <1>5, <1>6, <1>7, <1>8, <1>9, <1>10
     DEF Next, LoopStep, WorkerStep, Failure, Over

----------------------------------------------------------------------------
(* What is reported.                                                       *)
LEMMA DeathsStay ==
  ASSUME PhaseOK, [Next]_vars, ~NothingDied
  PROVE  ~NothingDied'
<1>1. deaths.worker \in Nat /\ deaths.master \in Nat
  BY BoundsAssumption DEF PhaseOK
<1>2. CASE deaths' = deaths
  BY <1>2 DEF NothingDied
<1>3. CASE deaths' = [deaths EXCEPT !.worker = @ + 1] \/ deaths' = [deaths EXCEPT !.master = @ + 1]
  <2>1. deaths \in [worker : 0 .. Scenarios[scenario].workerDeaths, master : 0 .. Scenarios[scenario].masterDeaths]
    BY DEF PhaseOK
  <2>2. \/ deaths'.worker = deaths.worker + 1 /\ deaths'.master = deaths.master
        \/ deaths'.worker = deaths.worker /\ deaths'.master = deaths.master + 1
    BY <1>3, <2>1
  <2> QED
    BY <1>1, <2>2 DEF NothingDied
<1> QED
  BY <1>2, <1>3 DEF Next, vars, Launch, Plan, LoopStep, Return, Respawn, GiveUp, Report, WorkerStep, Dispatch,
     RunNext, FinishPlan, Failure, MasterDies, LosePlan, WorkerDies, OrphanDies, Over

\* The death of a worker is counted.
LEMMA WorkerDeathCounts ==
  ASSUME PhaseOK, NEW s \in Slot, WorkerDies(s)
  PROVE  ~NothingDied'
<1>1. deaths' = [deaths EXCEPT !.worker = @ + 1] /\ deaths.worker \in Nat
      /\ deaths \in [worker : 0 .. Scenarios[scenario].workerDeaths, master : 0 .. Scenarios[scenario].masterDeaths]
  BY BoundsAssumption DEF WorkerDies, PhaseOK
<1>2. deaths'.worker = deaths.worker + 1
  BY <1>1
<1> QED
  BY <1>1, <1>2 DEF NothingDied

\* A test's verdict stays while its rows do.
LEMMA JudgedStays ==
  ASSUME PhaseOK, [Next]_vars, NEW t, Judged(t), report'[t] = report[t]
  PROVE  Judged(t)'
<1>1. project' = project /\ Found' = Found
  BY NextKeepsScenario
<1>2. ~NothingDied => ~NothingDied'
  BY DeathsStay
<1> QED
  BY <1>1, <1>2 DEF Judged, Judgement

\* A judged test has a row.
LEMMA JudgedReal ==
  ASSUME NEW t, Judged(t)
  PROVE  report[t] # <<>>
BY DEF Judged, Judgement

(* The rows r of the tests in D, none of which had any.                    *)
LEMMA RowsReported ==
  ASSUME PhaseOK, ReportOK, [Next]_vars, NEW D, D \subseteq Owing, NEW rows, DOMAIN rows = D, Reporting(rows),
         \A t \in D : /\ rows[t] \in Seq(Row) /\ rows[t] # <<>>
                      /\ Judgement(rows[t], t, project, Found, ~NothingDied')
  PROVE  /\ report' \in [AllTests -> Seq(Row)]
         /\ \A t \in Chosen : report'[t] = <<>> \/ Judged(t)'
         /\ \A t \in AllTests \ Chosen : report'[t] = report[t]
         /\ Owing' = Owing \ D
<1>1. project' = project /\ Found' = Found /\ Chosen' = Chosen
  BY NextKeepsScenario
<1>2. Chosen \subseteq AllTests
  BY Seen DEF PhaseOK
<1>3. \A t \in AllTests : report[t] \in Seq(Row)
  BY DEF ReportOK
<1>4. \A t \in D : t \in Chosen /\ report[t] = <<>>
  BY DEF Owing
<1>5. \A t \in D : report'[t] = rows[t]
  <2>1. \A t \in D : report'[t] = report[t] \o rows[t]
    BY <1>2, <1>4 DEF Reporting
  <2>2. \A r \in Seq(Row) : <<>> \o r = r
    OBVIOUS
  <2> QED
    BY <1>4, <2>1, <2>2
<1>6. \A t \in AllTests \ D : report'[t] = report[t]
  BY DEF Reporting
<1>7. report' \in [AllTests -> Seq(Row)]
  <2>1. \A t \in AllTests : report'[t] \in Seq(Row)
    BY <1>3, <1>5, <1>6
  <2>2. report' = [t \in AllTests |-> report'[t]]
    BY DEF Reporting
  <2> QED
    BY <2>1, <2>2
<1>8. ASSUME NEW t \in Chosen
      PROVE  report'[t] = <<>> \/ Judged(t)'
  <2>1. CASE t \in D
    <3>1. Judgement(report'[t], t, project, Found, ~NothingDied')
      BY <1>5, <2>1
    <3> QED
      BY <1>1, <3>1 DEF Judged
  <2>2. CASE t \notin D
    <3>1. report'[t] = report[t]
      BY <1>2, <1>6, <2>2
    <3>2. report[t] = <<>> \/ Judged(t)
      BY DEF ReportOK
    <3> QED
      BY <3>1, <3>2, JudgedStays
  <2> QED
    BY <2>1, <2>2
<1>9. Owing' = Owing \ D
  BY <1>1, <1>2, <1>5, <1>6 DEF Owing
<1> QED
  BY <1>4, <1>6, <1>7, <1>8, <1>9

\* A step that reports nothing keeps every verdict and every debt.
LEMMA NothingReported ==
  ASSUME PhaseOK, ReportOK, [Next]_vars, report' = report
  PROVE  /\ report' \in [AllTests -> Seq(Row)]
         /\ \A t \in Chosen : report'[t] = <<>> \/ Judged(t)'
         /\ Owing' = Owing
<1>1. Chosen' = Chosen
  BY NextKeepsScenario
<1>2. \A t \in Chosen : report'[t] = <<>> \/ Judged(t)'
  BY JudgedStays DEF ReportOK
<1> QED
  BY <1>1, <1>2 DEF ReportOK, Owing

(* A call hands back all it did not report.                                *)
LEMMA AllHandedBack ==
  ASSUME PhaseOK, SlotsOK, TestsOK, phase = "running", Done
  PROVE  HandedBack = pending \ received
<1>1. CASE masterDied /\ (lost \/ queue # {})
  BY <1>1 DEF HandedBack
<1>2. CASE ~(masterDied /\ (lost \/ queue # {}))
  <2>1. \A s \in Slot : LeftTests(s) = {}
    BY SlotTests DEF Done
  <2>2. ~lost
    BY <1>2 DEF SlotsOK
  <2>3. pending \subseteq received \cup QueueTests
    BY <2>1, <2>2 DEF TestsOK
  <2>4. queue = {}
    <3>1. 1 \in Slot /\ 1 <= Workers
      BY SomeWorker, BoundsAssumption DEF PhaseOK, Slot
    <3>2. ~masterDied => slot[1].state # "absent"
      BY <3>1 DEF SlotsOK
    <3> QED
      BY <1>2, <3>1, <3>2 DEF Done
  <2>5. pending \subseteq received
    BY <2>3, <2>4 DEF QueueTests
  <2> QED
    BY <1>2, <2>5 DEF HandedBack
<1> QED
  BY <1>1, <1>2

\* Tests reported as skipped at the start were never chosen.
LEMMA SkipsAreOthers ==
  ASSUME PhaseOK
  PROVE  Skips \cap Chosen = {} /\ Skips \subseteq AllTests
<1>1. scenario \in DOMAIN Scenarios
  BY DEF PhaseOK
<1>2. Chosen = Dispatched(Found, Selected(Found, options), options)
  BY <1>1 DEF Chosen, ChosenIn, Found, options
<1>3. Skips \cap Chosen = {}
  BY <1>2 DEF Skips, Dispatched
<1>4. Skips \subseteq TestsOf(Found)
  BY DEF Skips, SkippedForDb, NeedingDb, Selected
<1> QED
  BY <1>1, <1>3, <1>4, Seen

\* Every step keeps the report of the chosen tests, and of no other before the end, in step with what is
\* owing.
LEMMA ReportKept ==
  ASSUME PhaseOK, SlotsOK, TestsOK, StartsOK, ReportOK, [Next]_vars
  PROVE  ReportOK'
<1>1. /\ scenario' = scenario /\ Found' = Found /\ Chosen' = Chosen /\ Skips' = Skips
  BY NextKeepsScenario
<1>2. ASSUME report' = report, phase' # "reported" \/ phase = "reported",
             phase # "reported" \/ phase' = "reported",
             phase' \in {"start", "refused"} => Owing = Chosen,
             phase' = "planning" => Owing = pending',
             phase' = "running" => Owing = pending' \ received',
             phase' = "returned" => Owing = unfinished',
             phase' = "reported" => Owing = {}
      PROVE  ReportOK'
  <2>1. /\ report' \in [AllTests -> Seq(Row)]
        /\ \A t \in Chosen : report'[t] = <<>> \/ Judged(t)'
        /\ Owing' = Owing
    BY <1>2, NothingReported
  <2>2. phase' # "reported" => \A t \in AllTests \ Chosen : report'[t] = <<>>
    BY <1>2 DEF ReportOK
  <2>3. phase' = "reported" => OthersAbsent'
    BY <1>1, <1>2 DEF ReportOK, OthersAbsent
  <2> QED
    BY <1>1, <1>2, <2>1, <2>2, <2>3 DEF ReportOK
<1>3. ASSUME NEW D, D \subseteq Owing, NEW rows, DOMAIN rows = D, Reporting(rows),
             \A t \in D : /\ rows[t] \in Seq(Row) /\ rows[t] # <<>>
                          /\ Judgement(rows[t], t, project, Found, ~NothingDied'),
             phase # "reported", phase' \in {"running", "returned"},
             phase' = "running" => Owing \ D = pending' \ received',
             phase' = "returned" => Owing \ D = unfinished'
      PROVE  ReportOK'
  <2>1. /\ report' \in [AllTests -> Seq(Row)]
        /\ \A t \in Chosen : report'[t] = <<>> \/ Judged(t)'
        /\ \A t \in AllTests \ Chosen : report'[t] = report[t]
        /\ Owing' = Owing \ D
    BY <1>3, RowsReported
  <2>2. \A t \in AllTests \ Chosen : report'[t] = <<>>
    BY <1>3, <2>1 DEF ReportOK
  <2> QED
    BY <1>1, <1>3, <2>1, <2>2 DEF ReportOK
<1>4. <<"pass">> \in Seq(Row) /\ <<"synthError">> \in Seq(Row) /\ <<"pass">> # <<>> /\ <<"synthError">> # <<>>
      /\ Seq(Status) \subseteq Seq(Row)
  <2>1. "pass" \in Row /\ "synthError" \in Row /\ Status \subseteq Row
    BY DEF Row, Status
  <2>2. \A x \in Row : <<x>> \in Seq(Row) /\ <<x>> # <<>>
    OBVIOUS
  <2> QED
    BY <2>1, <2>2
<1>5. CASE Launch
  <2>1. report' = report /\ Owing = Chosen
    BY <1>5 DEF Launch, ReportOK
  <2>2. \/ phase' = "refused" /\ pending' = pending
        \/ phase' = "planning" /\ pending' = Chosen
    BY <1>5 DEF Launch
  <2> QED
    BY <1>2, <1>5, <2>1, <2>2 DEF Launch
<1>6. CASE Plan
  <2> DEFINE D == Synthetic(Found, pending)
             rows == [t \in D |-> <<"pass">>]
  <2>1. phase' = "running" /\ pending' = pending /\ received' = D /\ Reporting(rows) /\ Owing = pending
    BY <1>6 DEF Plan, ReportOK
  <2>2. D \subseteq Owing /\ \A t \in D : Case(Found, t).tautological
    BY <2>1 DEF Synthetic
  <2>3. \A t \in D : Judgement(rows[t], t, project, Found, ~NothingDied')
    BY <2>2 DEF Judgement
  <2>4. DOMAIN rows = D /\ \A t \in D : rows[t] \in Seq(Row) /\ rows[t] # <<>>
    BY <1>4
  <2>5. phase # "reported"
    BY <1>6 DEF Plan
  <2> HIDE DEF D, rows
  <2> QED
    BY <1>3, <2>1, <2>2, <2>3, <2>4, <2>5
<1>7. CASE Return
  <2>1. /\ phase = "running" /\ phase' = "returned" /\ unfinished' = HandedBack /\ report' = report
        /\ Owing = pending \ received
    BY <1>7 DEF Return, ReportOK
  <2>2. HandedBack = pending \ received
    BY <1>7, AllHandedBack DEF Return
  <2> QED
    BY <1>2, <2>1, <2>2
<1>8. CASE Respawn
  <2>1. /\ phase = "returned" /\ phase' \in {"planning", "failed"} /\ pending' = unfinished /\ report' = report
        /\ Owing = unfinished
    BY <1>8 DEF Respawn, ReportOK
  <2> QED
    BY <1>2, <2>1
<1>9. CASE GiveUp
  <2> DEFINE D == unfinished
             rows == [t \in D |-> <<"synthError">>]
  <2>1. phase = "returned" /\ phase' = "returned" /\ unfinished' = {} /\ Reporting(rows) /\ Owing = unfinished
        /\ unfinished # {}
    BY <1>9 DEF GiveUp, ReportOK, Errors
  <2>2. ~NothingDied'
    BY <2>1, DeathsStay DEF PhaseOK
  <2>3. \A t \in D : Judgement(rows[t], t, project, Found, ~NothingDied')
    BY <2>2 DEF Judgement
  <2>4. DOMAIN rows = D /\ D \subseteq Owing /\ \A t \in D : rows[t] \in Seq(Row) /\ rows[t] # <<>>
    BY <1>4, <2>1
  <2>5. Owing \ D = unfinished'
    BY <2>1
  <2> HIDE DEF D, rows
  <2> QED
    BY <1>3, <2>1, <2>3, <2>4, <2>5
<1>10. CASE Report
  <2>1. /\ phase = "returned" /\ phase' = "reported" /\ Reporting([t \in Skips |-> <<"skipped">>]) /\ Owing = {}
    BY <1>10 DEF Report, ReportOK
  <2>2. Skips \cap Chosen = {} /\ Skips \subseteq AllTests
    BY SkipsAreOthers
  <2>3. \A t \in AllTests \ Skips : report'[t] = report[t]
    BY <2>1 DEF Reporting
  <2>4. \A t \in Skips : report[t] = <<>> /\ report'[t] = <<"skipped">>
    <3>1. \A t \in Skips : report[t] = <<>>
      BY <2>1, <2>2 DEF ReportOK
    <3>2. \A t \in Skips : report'[t] = report[t] \o <<"skipped">>
      BY <2>1, <2>2 DEF Reporting
    <3>3. <<>> \o <<"skipped">> = <<"skipped">>
      OBVIOUS
    <3> QED
      BY <3>1, <3>2, <3>3
  <2>5. report' \in [AllTests -> Seq(Row)]
    <3>1. <<"skipped">> \in Seq(Row)
      BY DEF Row, Status
    <3>2. \A t \in AllTests : report'[t] \in Seq(Row)
      BY <2>3, <2>4, <3>1 DEF ReportOK
    <3>3. report' = [t \in AllTests |-> report'[t]]
      BY <2>1 DEF Reporting
    <3> QED
      BY <3>2, <3>3
  <2>6. \A t \in Chosen : report'[t] = report[t]
    <3>1. Chosen \subseteq AllTests
      BY Seen DEF PhaseOK
    <3> QED
      BY <2>2, <2>3, <3>1
  <2>7. \A t \in Chosen : report'[t] = <<>> \/ Judged(t)'
    BY <2>6, JudgedStays DEF ReportOK
  <2>8. Owing' = {}
    BY <1>1, <2>1, <2>6 DEF Owing
  <2>9. OthersAbsent'
    BY <1>1, <2>1, <2>3, <2>4 DEF OthersAbsent, ReportOK
  <2> QED
    BY <1>1, <2>1, <2>5, <2>7, <2>8, <2>9 DEF ReportOK
<1>11. ASSUME NEW s \in Slot, RunNext(s) PROVE ReportOK'
  <2> DEFINE b == Following(slot[s].left)
             D == BatchTests(b)
             rows == Rows(b.class, b.methods)
  <2>1. RunsBatch(s, b) /\ phase = "running"
    BY <1>11, BatchRun, BusyRuns DEF RunNext, Ran
  <2>2. /\ phase' = phase /\ pending' = pending
        /\ received' = received \cup DOMAIN rows /\ Reporting(rows)
    BY <1>11, Zenon DEF RunNext
  <2> HIDE DEF b
  <2>3. RowsOK(rows, D, project, Found) /\ D \subseteq pending /\ D \subseteq LeftTests(s)
    BY <2>1 DEF RunsBatch
  <2> HIDE DEF rows, D
  <2>4. DOMAIN rows = D /\ \A t \in D : rows[t] \in Seq(Row) /\ rows[t] # <<>>
    BY <1>4, <2>3 DEF RowsOK
  <2>5. \A t \in D : Judgement(rows[t], t, project, Found, ~NothingDied')
    BY <2>3 DEF RowsOK, Judgement
  <2>6. Owing = pending \ received /\ D \cap received = {}
    BY <2>1, <2>3 DEF ReportOK, TestsOK
  <2>7. D \subseteq Owing /\ Owing \ D = pending' \ received'
    BY <2>2, <2>3, <2>4, <2>6
  <2> QED
    BY <1>3, <2>1, <2>2, <2>4, <2>5, <2>7
<1>12. ASSUME NEW s \in Slot, WorkerDies(s) PROVE ReportOK'
  <2> DEFINE D == Given(s)
             rows == [t \in D |-> <<"synthError">>]
  <2>1. /\ phase = "running" /\ phase' = phase /\ pending' = pending
        /\ D \subseteq LeftTests(s) /\ LeftTests(s) \cap received = {} /\ LeftTests(s) \subseteq pending
        /\ received' = received \cup D
        /\ Reporting(rows)
    BY <1>12, DeathSplits DEF Errors
  <2>2. ~NothingDied'
    BY <1>12, WorkerDeathCounts
  <2>3. \A t \in D : Judgement(rows[t], t, project, Found, ~NothingDied')
    BY <2>2 DEF Judgement
  <2>4. DOMAIN rows = D /\ \A t \in D : rows[t] \in Seq(Row) /\ rows[t] # <<>>
    BY <1>4
  <2>5. Owing = pending \ received
    BY <2>1 DEF ReportOK
  <2>6. D \subseteq Owing /\ Owing \ D = pending' \ received'
    BY <2>1, <2>5
  <2> HIDE DEF D, rows
  <2> QED
    BY <1>3, <2>1, <2>3, <2>4, <2>6
<1>13. CASE \/ MasterDies \/ LosePlan
            \/ \E s \in Slot : Dispatch(s) \/ FinishPlan(s) \/ OrphanDies(s)
  <2>1. phase = "running"
    BY <1>13, BusyRuns DEF MasterDies, LosePlan, Dispatch, FinishPlan, OrphanDies
  <2>2. report' = report /\ phase' = phase /\ pending' = pending /\ received' = received
    BY <1>13 DEF MasterDies, LosePlan, Dispatch, FinishPlan, OrphanDies
  <2>3. Owing = pending \ received
    BY <2>1 DEF ReportOK
  <2> QED
    BY <1>2, <2>1, <2>2, <2>3
<1>14. CASE UNCHANGED vars
  <2>1. report' = report /\ phase' = phase /\ pending' = pending /\ received' = received /\ unfinished' = unfinished
    BY <1>14 DEF vars, callVars
  <2> QED
    BY <1>2, <2>1 DEF ReportOK
<1> QED
  BY <1>5, <1>6, <1>7, <1>8, <1>9, <1>10, <1>11, <1>12, <1>13, <1>14
     DEF Next, LoopStep, WorkerStep, Failure, Over

----------------------------------------------------------------------------
(* Marked classes and hooks.                                               *)
LEMMA StainKept ==
  ASSUME PhaseOK, SlotsOK, StainOK, [Next]_vars
  PROVE  StainOK'
<1>1. Found' = Found /\ Chosen' = Chosen
  BY NextKeepsScenario
<1>2. SlotsOK'
  BY SlotsKept
<1>3. deaths.worker \in Nat
  BY BoundsAssumption DEF PhaseOK
<1>4. CASE phase' # "running"
  <2>1. queue' = {} /\ \A s \in Slot : slot'[s] = Absent
    BY <1>2, <1>4 DEF SlotsOK
  <2>2. \A s \in Slot : slot'[s].plan.classes = {} /\ ~slot'[s].stained
    BY <2>1, SomeSlots DEF NoPlan
  <2> QED
    BY <2>1, <2>2 DEF StainOK
<1>5. CASE Plan
  <2>1. Fair(BuildQueue(Found, pending, Workers), pending \ Synthetic(Found, pending), Found, pending)
    BY QueueIsSound DEF PhaseOK
  <2>2. \A p \in queue' : \A b \in p.classes : Marked(Found, pending, b.class) => p.force
    BY <1>5, <2>1 DEF Fair, WellPlanned, Plan
  <2>3. pending' = pending /\ \A s \in Slot : slot'[s] = Fresh \/ slot'[s] = Absent
    BY <1>5 DEF Plan
  <2>4. \A s \in Slot : slot'[s].plan.classes = {} /\ ~slot'[s].stained
    BY <2>3, SomeSlots DEF NoPlan
  <2> QED
    BY <1>1, <2>2, <2>3, <2>4 DEF StainOK
<1>6. ASSUME NEW s \in Slot, Dispatch(s) PROVE StainOK'
  <2>1. PICK p \in queue : /\ queue' = queue \ {p}
                           /\ HandsOver(s, p)
    BY <1>6 DEF Dispatch, HandsOver
  <2>2. phase = "running" /\ pending' = pending /\ inline' = inline /\ deaths' = deaths
    BY <1>6 DEF Dispatch
  <2>3. PICK w : /\ OneSlot(s, w) /\ SlotOK(w, Found, pending)
                 /\ w.state = "busy" /\ w.plan = p /\ w.left = p.classes /\ w.stained = slot[s].stained
    <3>1. HandedOver(s, p)
      BY <2>1, <2>2, Dispatched1
    <3> QED BY <3>1 DEF HandedOver
  <2>4. slot[s].state # "busy"
    BY <1>6 DEF Dispatch
  <2> QED
    BY <1>1, <2>1, <2>2, <2>3, <2>4 DEF StainOK, OneSlot
<1>7. ASSUME NEW s \in Slot, RunNext(s) PROVE StainOK'
  <2> DEFINE b == Following(slot[s].left)
  <2>1. PICK w : /\ OneSlot(s, w) /\ SlotOK(w, Found, pending) /\ w.state = "busy"
                 /\ w.plan = slot[s].plan /\ w.left = slot[s].left \ {b}
                 /\ w.stained = (slot[s].stained \/ Marked(Found, pending, b.class))
    BY <1>7, RanSlot DEF RunNext
  <2>2. b \in slot[s].plan.classes /\ BatchTests(b) \subseteq pending
    BY <1>7, BatchRun DEF RunNext, Ran, RunsBatch
  <2>3. queue' = queue /\ pending' = pending /\ inline' = inline /\ deaths' = deaths
    BY <1>7 DEF RunNext
  <2> HIDE DEF b
  <2>4. inline => ~Marked(Found, pending, b.class)
    BY DEF Marked, PhaseOK
  <2>5. deaths.worker = 0 => (w.stained => w.plan.force /\ ~inline)
    BY <2>1, <2>2, <2>4 DEF StainOK
  <2> QED
    BY <1>1, <2>1, <2>3, <2>5 DEF StainOK, OneSlot
<1>8. ASSUME NEW s \in Slot, FinishPlan(s) PROVE StainOK'
  <2>1. queue' = queue /\ pending' = pending /\ inline' = inline /\ deaths' = deaths
        /\ \A r \in Slot : r # s => slot'[r] = slot[r]
    BY <1>8 DEF FinishPlan, SlotsOK
  <2>2. slot'[s].plan = NoPlan /\ (deaths.worker = 0 => ~slot'[s].stained)
    <3>1. CASE inline \/ ~slot[s].plan.force
      <4>1. slot'[s] = [slot[s] EXCEPT !.state = "idle", !.plan = NoPlan] /\ slot[s] \in SlotRecords
        BY <1>8, <3>1 DEF FinishPlan, SlotsOK
      <4>2. slot'[s].plan = NoPlan /\ slot'[s].stained = slot[s].stained
        BY <4>1 DEF SlotRecords
      <4> QED
        BY <3>1, <4>2 DEF StainOK
    <3>2. CASE ~inline /\ slot[s].plan.force
      <4>1. slot'[s] = Fresh \/ slot'[s] = Absent
        BY <1>8, <3>2 DEF FinishPlan, SlotsOK
      <4> QED
        BY <4>1, SomeSlots
    <3> QED
      BY <3>1, <3>2
  <2>3. slot'[s].plan.classes = {}
    BY <2>2 DEF NoPlan
  <2> QED
    BY <1>1, <2>1, <2>2, <2>3 DEF StainOK
<1>9. CASE MasterDies
  <2>1. queue' = queue /\ pending' = pending /\ inline' = inline
        /\ (slot' = slot \/ \A s \in Slot : slot'[s] = Absent)
    BY <1>9 DEF MasterDies
  <2>2. deaths'.worker = deaths.worker
    BY <1>9 DEF MasterDies, PhaseOK
  <2>3. CASE slot' = slot
    BY <1>1, <2>1, <2>2, <2>3 DEF StainOK
  <2>4. CASE \A s \in Slot : slot'[s] = Absent
    <3>1. \A s \in Slot : slot'[s].plan.classes = {} /\ ~slot'[s].stained
      BY <2>4, SomeSlots DEF NoPlan
    <3> QED
      BY <1>1, <2>1, <2>2, <3>1 DEF StainOK
  <2> QED
    BY <2>1, <2>3, <2>4
<1>10. CASE LosePlan
  <2>1. queue' \subseteq queue /\ pending' = pending /\ inline' = inline /\ deaths' = deaths /\ slot' = slot
    BY <1>10 DEF LosePlan
  <2> QED
    BY <1>1, <2>1 DEF StainOK
<1>11. ASSUME NEW s \in Slot, WorkerDies(s) PROVE StainOK'
  <2>1. deaths'.worker = deaths.worker + 1
    BY <1>11 DEF WorkerDies, PhaseOK
  <2> QED
    BY <1>3, <2>1 DEF StainOK
<1>12. ASSUME NEW s \in Slot, OrphanDies(s) PROVE StainOK'
  <2>1. queue' = queue /\ pending' = pending /\ inline' = inline /\ deaths' = deaths
        /\ slot' = [slot EXCEPT ![s] = Absent]
    BY <1>12 DEF OrphanDies
  <2>2. OneSlot(s, Absent)
    BY <2>1, SomeSlots, OneSlotChanges
  <2>3. Absent.plan.classes = {} /\ ~Absent.stained
    BY SomeSlots DEF NoPlan
  <2> QED
    BY <1>1, <2>1, <2>2, <2>3 DEF StainOK, OneSlot
<1>13. CASE UNCHANGED vars
  BY <1>1, <1>13 DEF vars, callVars, StainOK
<1> QED
  BY <1>4, <1>5, <1>6, <1>7, <1>8, <1>9, <1>10, <1>11, <1>12, <1>13
     DEF Next, LoopStep, WorkerStep, Failure, Over, Launch, Return, Respawn, GiveUp, Report

\* Every step keeps the hooks of a class in one piece to one call.
LEMMA HooksKept ==
  ASSUME PhaseOK, SlotsOK, TestsOK, HooksOK, [Next]_vars
  PROVE  HooksOK'
<1>1. Found' = Found /\ Chosen' = Chosen /\ project' = project
  BY NextKeepsScenario
<1>2. NothingDied' => NothingDied
  BY DeathsStay
<1> DEFINE Classes == {t[1] : t \in Chosen}
           All(k) == RealOf(Found, Chosen, {k})
<1>3. ASSUME hookCalls' = hookCalls,
             NothingDied' => \A k \in Classes : InOnePiece(Found, Chosen, k) /\ HookOK(k) => HookOK(k)'
      PROVE  HooksOK'
  BY <1>1, <1>2, <1>3 DEF HooksOK
<1>4. ASSUME NEW k \in Classes, HookOK(k), hookCalls' = hookCalls, phase' = phase, received' = received,
             phase = "running" =>
               /\ \A p \in queue' : \A b \in p.classes : b.class = k => BatchTests(b) = All(k)
               /\ \A s \in Slot : \A b \in slot'[s].left : b.class = k => BatchTests(b) = All(k)
      PROVE  HookOK(k)'
  BY <1>1, <1>4 DEF HookOK
<1>5. CASE Launch
  <2>1. hookCalls' = hookCalls /\ phase = "start" /\ phase' \in {"planning", "refused"}
    BY <1>5 DEF Launch
  <2>2. ASSUME NEW k \in Classes, HookOK(k) PROVE HookOK(k)'
    BY <1>1, <2>1, <2>2 DEF HookOK
  <2> QED
    BY <1>3, <2>1, <2>2
<1>6. CASE Plan
  <2>1. /\ hookCalls' = hookCalls /\ phase = "planning" /\ phase' = "running"
        /\ queue' = BuildQueue(Found, pending, Workers) /\ \A s \in Slot : slot'[s] = Fresh \/ slot'[s] = Absent
    BY <1>6 DEF Plan
  <2>2. \A s \in Slot : slot'[s].left = {}
    BY <2>1, SomeSlots
  <2>3. Fair(queue', pending \ Synthetic(Found, pending), Found, pending)
    BY <2>1, QueueIsSound DEF PhaseOK
  <2>4. NothingDied' => pending = Chosen
    BY <1>2, <2>1 DEF PhaseOK
  <2>5. ASSUME NothingDied', NEW k \in Classes, InOnePiece(Found, Chosen, k), HookOK(k) PROVE HookOK(k)'
    <3>1. \A p \in queue' : \A b \in p.classes : b.class = k => BatchTests(b) = All(k)
      <4>1. \A p \in queue' : \A b \in p.classes : WellCut(b, Found, Chosen)
        BY <2>3, <2>4, <2>5 DEF Fair, WellPlanned
      <4> QED
        BY <2>5, <4>1 DEF WellCut
    <3> QED
      BY <1>1, <2>1, <2>2, <2>5, <3>1 DEF HookOK
  <2> QED
    BY <1>3, <2>1, <2>5
<1>7. CASE Return
  <2>1. hookCalls' = hookCalls /\ phase' = "returned"
    BY <1>7 DEF Return
  <2>2. ASSUME NEW k \in Classes, HookOK(k) PROVE HookOK(k)'
    BY <1>1, <2>1, <2>2 DEF HookOK
  <2> QED
    BY <1>3, <2>1, <2>2
<1>8. CASE Respawn \/ GiveUp
  <2>1. hookCalls' = hookCalls /\ phase = "returned" /\ unfinished # {}
    BY <1>8 DEF Respawn, GiveUp
  <2>2. ~NothingDied'
    BY <1>2, <2>1 DEF PhaseOK
  <2> QED
    BY <1>3, <2>1, <2>2
<1>9. CASE Report
  <2>1. hookCalls' = hookCalls /\ phase' = "reported"
    BY <1>9 DEF Report
  <2>2. ASSUME NEW k \in Classes, HookOK(k) PROVE HookOK(k)'
    BY <1>1, <2>1, <2>2 DEF HookOK
  <2> QED
    BY <1>3, <2>1, <2>2
<1>10. ASSUME NEW s \in Slot, Dispatch(s) PROVE HooksOK'
  <2>1. PICK p \in queue : /\ queue' = queue \ {p}
                           /\ HandsOver(s, p)
    BY <1>10 DEF Dispatch, HandsOver
  <2>2. phase = "running" /\ phase' = phase /\ hookCalls' = hookCalls /\ received' = received
    BY <1>10 DEF Dispatch
  <2>3. PICK w : /\ OneSlot(s, w) /\ SlotOK(w, Found, pending)
                 /\ w.state = "busy" /\ w.plan = p /\ w.left = p.classes /\ w.stained = slot[s].stained
    <3>1. HandedOver(s, p)
      BY <2>1, <2>2, Dispatched1
    <3> QED BY <3>1 DEF HandedOver
  <2>4. \A r \in Slot : slot'[r].left = IF r = s THEN p.classes ELSE slot[r].left
    BY <2>3 DEF OneSlot
  <2>5. ASSUME NEW k \in Classes, HookOK(k) PROVE HookOK(k)'
    <3>1. \A q \in queue' : \A b \in q.classes : b.class = k => BatchTests(b) = All(k)
      BY <2>1, <2>2, <2>5 DEF HookOK
    <3>2. \A r \in Slot : \A b \in slot'[r].left : b.class = k => BatchTests(b) = All(k)
      BY <2>1, <2>2, <2>4, <2>5 DEF HookOK
    <3> HIDE DEF All
    <3> QED
      BY <1>4, <2>2, <2>5, <3>1, <3>2
  <2> QED
    BY <1>3, <2>2, <2>5
<1>11. ASSUME NEW s \in Slot, RunNext(s) PROVE HooksOK'
  <2> DEFINE b == Following(slot[s].left)
  <2>1. RunsBatch(s, b) /\ phase = "running"
    BY <1>11, BatchRun, BusyRuns DEF RunNext, Ran
  <2>2. /\ phase' = phase /\ queue' = queue
        /\ received' = received \cup DOMAIN Rows(b.class, b.methods)
        /\ hookCalls' = hookCalls \/ hookCalls' = [hookCalls EXCEPT ![b.class] = @ + 1]
    BY <1>11 DEF RunNext
  <2>3. \A r \in Slot : slot'[r].left \subseteq slot[r].left
    BY <1>11, LessLeft
  <2> HIDE DEF b
  <2>4. /\ received' = received \cup BatchTests(b) /\ BatchTests(b) # {} /\ b \in slot[s].left
        /\ BatchTests(b) \cap received = {} /\ BatchTests(b) \subseteq pending
    BY <2>1, <2>2 DEF RunsBatch, RowsOK, TestsOK
  <2>5. b.class \in {t[1] : t \in AllTests}
    <3>1. PICK t \in BatchTests(b) : TRUE
      BY <2>4
    <3>2. t[1] = b.class /\ t \in AllTests
      BY <2>4, <3>1, TestsKnown DEF BatchTests
    <3> QED
      BY <3>2
  <2>6. hookCalls \in [{t[1] : t \in AllTests} -> Nat]
    BY DEF HooksOK
  <2> DEFINE K == {t[1] : t \in AllTests}
  <2>7. Classes \subseteq K
    BY Seen DEF PhaseOK
  <2> HIDE DEF K, Classes
  <2>8. /\ hookCalls' \in [K -> Nat]
        /\ \A k \in K : k # b.class => hookCalls'[k] = hookCalls[k]
        /\ hookCalls'[b.class] <= hookCalls[b.class] + 1
    BY <2>2, <2>5, <2>6 DEF K
  <2>9. ASSUME NothingDied', NEW k \in Classes, InOnePiece(Found, Chosen, k), HookOK(k) PROVE HookOK(k)'
    <3>1. /\ \A p \in queue' : \A c \in p.classes : c.class = k => BatchTests(c) = All(k)
          /\ \A r \in Slot : \A c \in slot'[r].left : c.class = k => BatchTests(c) = All(k)
          /\ hookCalls[k] = 0 \/ All(k) \subseteq received
      BY <2>1, <2>2, <2>3, <2>9 DEF HookOK
    <3>2. CASE k # b.class
      <4>1. hookCalls'[k] = hookCalls[k] /\ hookCalls[k] <= 1
        BY <2>7, <2>8, <2>9, <3>2 DEF HookOK
      <4> QED
        BY <1>1, <2>1, <2>2, <2>4, <3>1, <4>1 DEF HookOK
    <3>3. CASE k = b.class
      <4>1. BatchTests(b) = All(k)
        BY <2>1, <2>4, <2>9, <3>3 DEF HookOK
      <4>2. hookCalls[k] = 0
        BY <2>4, <3>1, <4>1
      <4>3. hookCalls'[k] <= 1
        BY <2>8, <3>3, <4>2
      <4>4. All(k) \subseteq received'
        BY <2>4, <4>1
      <4> QED
        BY <1>1, <2>1, <2>2, <3>1, <4>3, <4>4 DEF HookOK
    <3> QED
      BY <3>2, <3>3
  <2>10. Chosen' = Chosen /\ Found' = Found /\ (NothingDied' => NothingDied)
    BY <1>1, <1>2
  <2>11. \A k \in Classes : NothingDied /\ InOnePiece(Found, Chosen, k) => HookOK(k)
    BY DEF HooksOK, Classes
  <2>12. NothingDied' => \A k \in Classes : InOnePiece(Found, Chosen, k) => HookOK(k)'
    BY <2>9, <2>10, <2>11
  <2> QED
    BY <2>8, <2>10, <2>12 DEF HooksOK, K, Classes
<1>12. CASE \/ MasterDies \/ LosePlan
            \/ \E s \in Slot : FinishPlan(s) \/ OrphanDies(s)
  <2>1. \A r \in Slot : slot'[r].left \subseteq slot[r].left
    BY <1>12, LessLeft
  <2>2. queue' \subseteq queue /\ hookCalls' = hookCalls /\ phase' = phase /\ received' = received
    BY <1>12 DEF MasterDies, LosePlan, FinishPlan, OrphanDies
  <2>3. ASSUME NEW k \in Classes, HookOK(k) PROVE HookOK(k)'
    BY <1>1, <2>1, <2>2, <2>3 DEF HookOK
  <2> QED
    BY <1>3, <2>2, <2>3
<1>13. ASSUME NEW s \in Slot, WorkerDies(s) PROVE HooksOK'
  <2>1. ~NothingDied' /\ hookCalls' = hookCalls
    BY <1>13, WorkerDeathCounts DEF WorkerDies
  <2> QED
    BY <1>3, <2>1
<1>14. CASE UNCHANGED vars
  <2>1. hookCalls' = hookCalls /\ phase' = phase /\ queue' = queue /\ slot' = slot /\ received' = received
    BY <1>14 DEF vars, callVars
  <2>2. ASSUME NEW k \in Classes, HookOK(k) PROVE HookOK(k)'
    BY <1>1, <2>1, <2>2 DEF HookOK
  <2> QED
    BY <1>3, <2>1, <2>2
<1> QED
  BY <1>5, <1>6, <1>7, <1>8, <1>9, <1>10, <1>11, <1>12, <1>13, <1>14
     DEF Next, LoopStep, WorkerStep, Failure, Over

----------------------------------------------------------------------------
(* The invariant holds at the start ...                                    *)
LEMMA InitInvariant ==
  ASSUME Init
  PROVE  IInv
<1>1. scenario \in DOMAIN Scenarios /\ phase = "start" /\ NothingDied
  BY DEF Init, NothingDied
<1>2. PhaseOK
  <2>1. deaths \in [worker : 0 .. Scenarios[scenario].workerDeaths, master : 0 .. Scenarios[scenario].masterDeaths]
    BY <1>1, BoundsAssumption DEF Init
  <2>2. /\ pending = {} /\ unfinished = {} /\ inline = FALSE /\ masterDied = FALSE /\ lost = FALSE
        /\ respawns = 0
    BY DEF Init
  <2>3. /\ pending \subseteq Chosen /\ unfinished \subseteq pending
        /\ respawns \in 0 .. MAX_MASTER_RESPAWNS + 1 /\ respawns <= MAX_MASTER_RESPAWNS
    BY <2>2 DEF MAX_MASTER_RESPAWNS
  <2>4. inline \in BOOLEAN /\ masterDied \in BOOLEAN /\ lost \in BOOLEAN /\ ~inline
    BY <2>2
  <2> QED
    BY <1>1, <2>1, <2>2, <2>3, <2>4 DEF PhaseOK
<1>3. SlotsOK
  BY <1>1, SomeSlots DEF Init, SlotsOK
<1>4. TestsOK
  BY <1>1 DEF TestsOK
<1>5. StartsOK
  BY <1>1 DEF Init, StartsOK, MAX_ATTEMPTS
<1>6. ReportOK
  <2>1. <<>> \in Seq(Row) /\ Chosen \subseteq AllTests
    BY <1>1, Seen
  <2>2. Owing = Chosen
    BY <2>1 DEF Init, Owing
  <2> QED
    BY <1>1, <2>1, <2>2 DEF Init, ReportOK
<1>7. StainOK
  <2>1. NoPlan.classes = {}
    BY DEF NoPlan
  <2> QED
    BY <2>1, SomeSlots DEF Init, StainOK
<1>8. HooksOK
  <2>1. \A k \in {t[1] : t \in Chosen} : k \in {t[1] : t \in AllTests}
    BY <1>1, Seen
  <2>2. \A k \in {t[1] : t \in AllTests} : hookCalls[k] = 0
    BY DEF Init
  <2>3. \A k \in {t[1] : t \in Chosen} : HookOK(k)
    BY <1>1, <2>1, <2>2 DEF HookOK
  <2> QED
    BY <2>3 DEF Init, HooksOK
<1> QED
  BY <1>2, <1>3, <1>4, <1>5, <1>6, <1>7, <1>8 DEF IInv

(* ... and every step keeps it.                                            *)
LEMMA NextInvariant ==
  ASSUME IInv, [Next]_vars
  PROVE  IInv'
BY PhaseKept, SlotsKept, TestsKept, StartsKept, ReportKept, StainKept, HooksKept DEF IInv

\* So the inductive invariant holds in every reachable state.
LEMMA RunInvariant == Spec => []IInv
<1>1. Init => IInv
  BY InitInvariant
<1>2. IInv /\ [Next]_vars => IInv'
  BY NextInvariant
<1> QED
  BY <1>1, <1>2, PTL DEF Spec

(* emit_test_cases finds what PHP runs: each case of a test class is the   *)
(* method PHP resolves, once and with its own properties, and none is      *)
(* missed whose class descends from and uses only what the fold sees; with *)
(* the PSR-4 map the emitted classes are those that descend from a test    *)
(* case.                                                                   *)
THEOREM CasesAreNearest == Spec => []NearestDefinition
<1>1. PhaseOK => NearestDefinition
  <2> SUFFICES ASSUME scenario \in DOMAIN Scenarios PROVE NearestDefinition
    BY DEF PhaseOK
  <2>1. Loadable(project) /\ NothingHidden(project) /\ Found = DiscoverCases(project)
    BY ProjectAssumption DEF project, Found, FoundIn
  <2>2. /\ \A k \in DOMAIN Found :
             /\ CasesMatch(Found[k], project, project.root[k].fqcn)
             /\ Covered(project.root[k], project) => NoneMissed(Found[k], project, project.root[k].fqcn)
        /\ project.psr4 =>
             DOMAIN Found = {k \in DOMAIN project.root : IsEmitted(project.root[k], AllClasses(project))}
    BY <2>1, FoundMatches
  <2>3. ASSUME NEW k \in DOMAIN Found
        PROVE  LET fqcn == project.root[k].fqcn
                   cases == Found[k]
                   names == UNION {{m.name : m \in ToSet(c.methods)} : c \in AllClasses(project)}
               IN /\ \A i, j \in DOMAIN cases : cases[i].method = cases[j].method => i = j
                  /\ \A c \in ToSet(cases) : LET m == MethodIn(project, fqcn, c.method) IN
                       /\ c.method \in names /\ MethodsIn(project, fqcn, c.method) # {}
                       /\ c.depends = m.depends /\ c.refs = m.refs
                       /\ c.tautological = IsTautological(m) /\ c.provider = (m.provider # "none")
                  /\ Covered(project.root[k], project) =>
                       \A n \in names : MethodsIn(project, fqcn, n) # {} => \E c \in ToSet(cases) : c.method = n
    <3> DEFINE fqcn == project.root[k].fqcn
               cases == Found[k]
               names == UNION {{m.name : m \in ToSet(c.methods)} : c \in AllClasses(project)}
    <3>1. CasesMatch(cases, project, fqcn) /\ (Covered(project.root[k], project) => NoneMissed(cases, project, fqcn))
      BY <2>2
    <3> HIDE DEF cases, fqcn
    <3>2. /\ \A i, j \in DOMAIN cases : cases[i].method = cases[j].method => i = j
          /\ \A i \in DOMAIN cases :
               /\ MethodsIn(project, fqcn, cases[i].method) # {}
               /\ CaseIs(cases[i], MethodIn(project, fqcn, cases[i].method))
               /\ \E c \in AllClasses(project) : MethodIn(project, fqcn, cases[i].method) \in ToSet(c.methods)
      BY <3>1 DEF CasesMatch
    <3>3. \A c : c \in ToSet(cases) <=> \E i \in DOMAIN cases : c = cases[i]
      BY DEF ToSet
    <3>4. ASSUME NEW c \in ToSet(cases)
          PROVE  LET m == MethodIn(project, fqcn, c.method) IN
                 /\ c.method \in names /\ MethodsIn(project, fqcn, c.method) # {}
                 /\ c.depends = m.depends /\ c.refs = m.refs
                 /\ c.tautological = IsTautological(m) /\ c.provider = (m.provider # "none")
      <4> DEFINE m == MethodIn(project, fqcn, c.method)
      <4>1. /\ MethodsIn(project, fqcn, c.method) # {} /\ CaseIs(c, m)
            /\ \E d \in AllClasses(project) : m \in ToSet(d.methods)
        BY <3>2, <3>3
      <4> HIDE DEF m
      <4>2. c.method = m.name /\ m.name \in names
        BY <4>1 DEF CaseIs
      <4> HIDE DEF names
      <4> QED
        BY <4>1, <4>2 DEF CaseIs, m
    <3>5. Covered(project.root[k], project) =>
            \A n : MethodsIn(project, fqcn, n) # {} => \E c \in ToSet(cases) : c.method = n
      BY <3>1, <3>3 DEF NoneMissed
    <3> HIDE DEF names
    <3> QED
      BY <3>2, <3>4, <3>5 DEF names, cases, fqcn
  <2> QED
    BY <2>2, <2>3 DEF NearestDefinition
<1>2. IInv => PhaseOK
  BY DEF IInv
<1> QED
  BY <1>1, <1>2, RunInvariant, PTL

----------------------------------------------------------------------------
(* build_queue gives each pending test that is not tautological to exactly *)
(* one plan, and keeps the tests of a class together in it.                *)
THEOREM QueuePartitionsPending == Spec => []PlansPartitionPending
<1>1. IInv => PlansPartitionPending
  <2> SUFFICES ASSUME IInv, phase = "planning"
               PROVE  LET plans == BuildQueue(Found, pending, Workers) IN
                      /\ UNION {PlanTests(p) : p \in plans} = pending \ Synthetic(Found, pending)
                      /\ \A p, q \in plans : p = q \/ PlanTests(p) \cap PlanTests(q) = {}
                      /\ \A p \in plans : \A b, c \in p.classes : b = c \/ b.class # c.class
    BY DEF PlansPartitionPending
  <2> QED
    BY QueueIsSound DEF IInv, PhaseOK, Fair, WellPlanned
<1> QED
  BY <1>1, RunInvariant, PTL

(* dependency_chains groups the plain methods of each class that is left   *)
(* into the connected components of their dependencies, whatever the order *)
(* it joins them in.                                                       *)
THEOREM ChainsAreFound == Spec => []ChainsAreComponents
<1>1. IInv => ChainsAreComponents
  <2> DEFINE groups == GroupByClass(Found, pending)
  <2> SUFFICES ASSUME IInv, phase = "planning", NEW k \in DOMAIN groups
               PROVE  LET cases == groups[k].cases
                          plain == {j \in groups[k].methods : ~cases[j].tautological /\ ~cases[j].provider}
                      IN DependencyChains(cases, plain) = {Component(i, cases, plain) : i \in plain}
    BY DEF ChainsAreComponents
  <2> DEFINE cases == groups[k].cases
             plain == {j \in groups[k].methods : ~cases[j].tautological /\ ~cases[j].provider}
  <2>1. Plannable(Found, pending)
    BY Seen DEF IInv, PhaseOK
  <2>2. k \in {t[1] : t \in pending}
    BY DEF GroupByClass
  <2>3. IsFiniteSet(plain)
    <3>1. groups[k].cases = Found[k] /\ groups[k].methods = {j \in DOMAIN Found[k] : <<k, j>> \in pending}
      BY <2>2 DEF GroupByClass
    <3>2. k \in DOMAIN Found /\ IsFiniteSet(DOMAIN Found[k])
      BY <2>1, <2>2 DEF Plannable, FoundOk, TestsOf
    <3>3. plain \subseteq DOMAIN Found[k]
      BY <3>1
    <3> QED
      BY <3>2, <3>3, FS_Subset
  <2> HIDE DEF plain, cases, groups
  <2>4. DependencyChains(cases, plain) = {Component(i, cases, plain) : i \in plain}
    BY <2>3, ChainsAreTheComponents
  <2> QED
    BY <2>4 DEF cases, plain
<1> QED
  BY <1>1, RunInvariant, PTL

(* The order of a batch.                                                   *)
LEMMA BatchIsSorted ==
  ASSUME scenario \in DOMAIN Scenarios,
         NEW k \in DOMAIN Found, NEW methods \in SUBSET DOMAIN Found[k]
  PROVE  LET names == [j \in methods |-> Found[k][j].method]
             fqcn == project.root[k].fqcn
             order == TopoSort(project, fqcn, names)
             before == [m \in ToSet(names) |-> ToSet(MethodIn(project, fqcn, m).depends) \cap ToSet(names)]
             step(S) == UNION {before[m] : m \in S}
         IN /\ ToSet(order) = ToSet(names) /\ Len(order) = Cardinality(methods)
            /\ \A i, j \in DOMAIN order : order[j] \in before[order[i]] =>
                 j < i \/ order[i] \in Closure({order[j]}, step, Len(order))
<1> DEFINE names == [j \in methods |-> Found[k][j].method]
           U == ToSet(names)
           fqcn == project.root[k].fqcn
           d == Runnable(project, fqcn, names)
           order == TopoSort(project, fqcn, names)
           before == [m \in U |-> ToSet(MethodIn(project, fqcn, m).depends) \cap U]
           step(S) == UNION {before[m] : m \in S}
<1>1. Batch(names, d) /\ DOMAIN d = U
  BY NamesOfBatch
<1>2. /\ order \in Seq(STRING) /\ ToSet(order) = U
      /\ Len(order) = Cardinality(U)
  <2> HIDE DEF names
  <2> QED BY <1>1, TopoSortRuns
<1>3. Cardinality(U) = Cardinality(methods) /\ IsFiniteSet(U)
  <2>1. IsFiniteSet(methods)
    BY Seen, FS_Subset DEF FoundOk
  <2>2. \A i, j \in methods : names[i] = names[j] => i = j
    BY Discovered DEF Usable, Found
  <2>3. names \in Bijection(methods, U)
    <3> HIDE DEF names
    <3>1. DOMAIN names = methods
      BY DEF names
    <3>2. names = [j \in methods |-> names[j]]
      BY DEF names
    <3>3. U = {names[j] : j \in methods}
      BY <3>1 DEF ToSet
    <3> QED
      BY <2>2, <3>2, <3>3 DEF Bijection, Injection, Surjection, IsInjective
  <2>4. ExistsBijection(methods, U)
    BY <2>3 DEF ExistsBijection
  <2> HIDE DEF U
  <2> QED
    BY <2>1, <2>4, FS_Bijection
<1>4. \A m \in U : before[m] \in SUBSET U /\ before[m] = ToSet(d[m]) \cap U
  BY <1>1 DEF Runnable
<1> SUFFICES ASSUME NEW i \in DOMAIN order, NEW j \in DOMAIN order, order[j] \in before[order[i]], ~ (j < i)
             PROVE  order[i] \in Closure({order[j]}, step, Len(order))
  BY <1>2, <1>3
<1> DEFINE C == Closure({order[j]}, step, Len(order))
<1>5. order[i] \in U /\ order[j] \in U
  BY <1>2 DEF ToSet
<1>6. Reaches(order[j], order[i], d)
  <2>1. order[j] \in ToSet(d[order[i]])
    BY <1>4, <1>5
  <2> HIDE DEF names
  <2> QED
    BY <1>1, <2>1, DependenciesRunBefore
<1>7. Len(order) \in Nat /\ Cardinality(U) <= Len(order)
  BY <1>2
<1>8. C \in SUBSET U /\ order[j] \in C /\ \A m \in C : before[m] \subseteq C
  <2> HIDE DEF U, order
  <2>1. /\ IsFiniteSet(U) /\ {order[j]} \in SUBSET U /\ {order[j]} # {}
        /\ \A m \in U : before[m] \in SUBSET U
        /\ Len(order) \in Nat /\ Cardinality(U) <= Len(order)
    BY <1>3, <1>4, <1>5, <1>7
  <2> HIDE DEF before
  <2> DEFINE x == {order[j]}
             N == Len(order)
             grown == CHOOSE f : f = [n \in 0 .. N |-> IF n = 0 THEN x ELSE LET T == f[n - 1] IN T \cup step(T)]
  <2>2. C = grown[N]
    BY DEF Closure
  <2>3. /\ \E f : Grows(f, x, before, N)
        /\ \A f : Grows(f, x, before, N) => ClosedIn(f[N], x, before, U)
    <3> HIDE DEF x, N
    <3> QED BY <2>1, GrowthCloses DEF x, N
  <2>4. Grows(grown, x, before, N)
    <3> HIDE DEF x, N
    <3>1. PICK f : f = [n \in 0 .. N |-> IF n = 0 THEN x ELSE LET T == f[n - 1] IN T \cup step(T)]
      BY <2>3 DEF Grows
    <3>2. grown = [n \in 0 .. N |-> IF n = 0 THEN x ELSE LET T == grown[n - 1] IN T \cup step(T)]
      BY <3>1
    <3> QED
      BY <3>2 DEF Grows
  <2> HIDE DEF C, grown
  <2> QED
    BY <2>2, <2>3, <2>4 DEF ClosedIn
<1> HIDE DEF C, order, U, before, d
<1> DEFINE S == C \cup (STRING \ U)
<1>9. Closed(S, d)
  <2> SUFFICES ASSUME NEW m \in C PROVE ToSet(d[m]) \subseteq S
    BY <1>1, <1>8 DEF Closed
  <2>1. ToSet(d[m]) \cap U \subseteq C
    BY <1>4, <1>8
  <2>2. d[m] \in Seq(STRING)
    BY <1>1, <1>8 DEF Batch
  <2>3. ToSet(d[m]) \subseteq STRING
    BY <2>2 DEF ToSet
  <2> QED
    BY <2>1, <2>3
<1>10. order[i] \in S
  BY <1>6, <1>8, <1>9 DEF Reaches
<1> QED
  BY <1>5, <1>10 DEF C

(* MethodPlanner runs each method of a batch once, and after those of the  *)
(* batch it depends on, unless these depend on it in turn: of every batch  *)
(* build_queue makes in a run.                                             *)
THEOREM DependenciesRunFirst == Spec => []DependenciesFirst
<1>1. IInv => DependenciesFirst
  <2> SUFFICES ASSUME IInv, phase = "planning",
                      NEW p \in BuildQueue(Found, pending, Workers), NEW b \in p.classes
               PROVE  LET names == [j \in b.methods |-> Found[b.class][j].method]
                          fqcn == project.root[b.class].fqcn
                          order == TopoSort(project, fqcn, names)
                          before == [m \in ToSet(names) |-> ToSet(MethodIn(project, fqcn, m).depends) \cap ToSet(names)]
                          step(S) == UNION {before[m] : m \in S}
                      IN /\ ToSet(order) = ToSet(names) /\ Len(order) = Cardinality(b.methods)
                         /\ \A i, j \in DOMAIN order : order[j] \in before[order[i]] =>
                              j < i \/ order[i] \in Closure({order[j]}, step, Len(order))
    BY DEF DependenciesFirst
  <2>1. scenario \in DOMAIN Scenarios /\ pending \subseteq Chosen
    BY DEF IInv, PhaseOK
  <2>2. b.class \in DOMAIN Found /\ b.methods \in SUBSET DOMAIN Found[b.class]
    <3>1. b.methods # {} /\ {b.class} \X b.methods \subseteq pending
      BY <2>1, QueueIsSound DEF Sound, SoundBatches, BatchTests, RealOf
    <3>2. \A j \in b.methods : <<b.class, j>> \in TestsOf(Found)
      BY <2>1, <3>1, Seen
    <3>3. ASSUME NEW j \in b.methods
          PROVE  b.class \in DOMAIN Found /\ j \in DOMAIN Found[b.class]
      <4>1. PICK k \in DOMAIN Found : <<b.class, j>> \in {k} \X DOMAIN Found[k]
        BY <3>2 DEF TestsOf
      <4> QED
        BY <4>1
    <3> QED
      BY <3>1, <3>3
  <2> QED
    BY <2>1, <2>2, BatchIsSorted
<1> QED
  BY <1>1, RunInvariant, PTL

(* The types of the whole run: in every phase, plans hold pending tests    *)
(* only, and no counter passes its cap.                                    *)
THEOREM PipelineTypeCorrect == Spec => []TypeOK
<1>1. IInv => TypeOK
  <2> SUFFICES ASSUME IInv PROVE TypeOK
    OBVIOUS
  <2>1. PhaseOK /\ SlotsOK /\ StartsOK /\ ReportOK
    BY DEF IInv
  <2>2. \A p \in queue : p.classes # {} /\ PlanTests(p) \subseteq pending /\ p.force \in BOOLEAN
    <3>1. \A p \in queue : Sound(p, Found, pending)
      BY <2>1 DEF SlotsOK
    <3> QED
      BY <3>1, SoundTests DEF Sound, Plans
  <2>3. \A s \in Slot : /\ slot[s].state \in {"absent", "idle", "busy"}
                        /\ PlanTests(slot[s].plan) \subseteq pending
                        /\ slot[s].left \subseteq slot[s].plan.classes
                        /\ slot[s].stained \in BOOLEAN
    <3>1. \A s \in Slot : slot[s] \in SlotRecords /\ slot[s].left \subseteq slot[s].plan.classes
      BY <2>1 DEF SlotsOK, SlotOK
    <3> QED
      BY <2>1, <3>1, SlotTests DEF SlotRecords
  <2>4. \A i \in AllTests : ToSet(report[i]) \subseteq Status \cup {"synthError"}
    <3>1. \A i \in AllTests : report[i] \in Seq(Row)
      BY <2>1 DEF ReportOK
    <3>2. \A r \in Seq(Row) : ToSet(r) \subseteq Row
      BY DEF ToSet
    <3> QED
      BY <3>1, <3>2 DEF Row
  <2>5. \A i \in AllTests : starts[i].call \in 0 .. MAX_ATTEMPTS /\ starts[i].all \in Nat
    BY <2>1 DEF StartsOK
  <2>6. /\ deaths.worker \in 0 .. Scenarios[scenario].workerDeaths
        /\ deaths.master \in 0 .. Scenarios[scenario].masterDeaths
    BY <2>1 DEF PhaseOK
  <2> QED
    BY <2>1, <2>2, <2>3, <2>4, <2>5, <2>6 DEF PhaseOK, SlotsOK, StartsOK, TypeOK
<1> QED
  BY <1>1, RunInvariant, PTL

(* Code of a stateful or isolated class runs in no process that runs a     *)
(* later plan, until a worker dies.                                        *)
THEOREM NothingBleeds == Spec => []NoBleed
<1>1. IInv => NoBleed
  BY DEF IInv, StainOK, NoBleed
<1> QED
  BY <1>1, RunInvariant, PTL

(* The hooks of a class that declares them and is not isolated are called  *)
(* once for all its tests, as long as nothing dies.                        *)
THEOREM HooksRunOnce == Spec => []HooksOnce
<1>1. IInv => HooksOnce
  <2> SUFFICES ASSUME IInv, NothingDied, NEW t \in Chosen, Case(Found, t).hooks, ~Case(Found, t).isolated
               PROVE  hookCalls[t[1]] <= 1
    BY DEF HooksOnce
  <2>1. InOnePiece(Found, Chosen, t[1])
    BY DEF InOnePiece
  <2> QED
    BY <2>1 DEF IInv, HooksOK, HookOK
<1> QED
  BY <1>1, RunInvariant, PTL

\* A test run whole has as many rows as its provider and its repetitions ask for.
LEMMA WholeRows ==
  ASSUME PhaseOK, NEW t \in Chosen
  PROVE  Len(Whole(t[1])[t]) = RowCount(project, Found, t)
<1> DEFINE k == t[1]
           methods == {j \in DOMAIN Found[k] : <<k, j>> \in Chosen}
<1>1. PICK c \in DOMAIN Found : t \in {c} \X DOMAIN Found[c]
  BY Seen DEF PhaseOK, TestsOf
<1>2. t = <<k, t[2]>> /\ k \in DOMAIN Found /\ t[2] \in DOMAIN Found[k]
  BY <1>1
<1>3. t[2] \in methods
  BY <1>2
<1>4. t \in {k} \X methods
  BY <1>2, <1>3
<1>5. methods \in SUBSET DOMAIN Found[k]
  OBVIOUS
<1>6. Whole(k) = Rows(k, methods)
  BY DEF Whole
<1> HIDE DEF methods, k
<1>7. RowsOK(Rows(k, methods), {k} \X methods, project, Found)
  BY <1>2, <1>5, RowsGiven DEF PhaseOK
<1> QED
  BY <1>4, <1>6, <1>7 DEF RowsOK, k

\* A test without a provider has one row.
LEMMA OneRow ==
  ASSUME PhaseOK, NEW t \in Chosen, ~Case(Found, t).provider
  PROVE  RowCount(project, Found, t) = 1
<1> DEFINE m == MethodIn(project, project.root[t[1]].fqcn, Case(Found, t).method)
<1>1. t \in TestsOf(Found)
  BY Seen DEF PhaseOK
<1>2. Callable(m) /\ Case(Found, t).provider = (m.provider # "none")
  BY <1>1, Discovered DEF Usable, Callable, Found, project, PhaseOK
<1>3. RowCount(project, Found, t) = Len(MethodRows(ClassIn(project, project.root[t[1]].fqcn), m, {}))
  BY DEF RowCount
<1> HIDE DEF m
<1> QED
  BY <1>2, <1>3, RowsOfMethod

(* "Exact test-count parity", but for the tautological tests with a data   *)
(* provider: the report has for every selected test the rows of an         *)
(* undisturbed run of its whole class, or one Error, and for no other test *)
(* anything but the skip --skip-db asks for.                               *)
THEOREM CountsMatch == Spec => []CountParity
<1>1. IInv => CountParity
  <2> SUFFICES ASSUME IInv, phase = "reported"
               PROVE  /\ \A t \in Chosen : \/ Case(Found, t).tautological /\ Case(Found, t).provider
                                           \/ ExactCount(t)
                      /\ OthersAbsent
    BY DEF CountParity
  <2>1. PhaseOK /\ ReportOK
    BY DEF IInv
  <2>2. OthersAbsent
    BY <2>1 DEF ReportOK
  <2>3. ASSUME NEW t \in Chosen, ~(Case(Found, t).tautological /\ Case(Found, t).provider)
        PROVE  ExactCount(t)
    <3>1. Judged(t)
      BY <2>1 DEF ReportOK, Owing
    <3>2. Len(Whole(t[1])[t]) = RowCount(project, Found, t)
      BY <2>1, WholeRows
    <3>3. CASE report[t] = <<"synthError">> /\ ~NothingDied
      BY <3>3 DEF ExactCount, GivenUp
    <3>4. CASE Len(report[t]) = RowCount(project, Found, t)
      BY <3>2, <3>4 DEF ExactCount
    <3>5. CASE report[t] = <<"pass">> /\ Case(Found, t).tautological
      <4>1. RowCount(project, Found, t) = 1
        BY <2>1, <2>3, <3>5, OneRow
      <4> QED
        BY <3>2, <3>5, <4>1 DEF ExactCount
    <3> QED
      BY <3>1, <3>3, <3>4, <3>5 DEF Judged, Judgement
  <2> QED
    BY <2>2, <2>3
<1> QED
  BY <1>1, RunInvariant, PTL

----------------------------------------------------------------------------
(* Verdicts: a part of a class cut along its dependencies runs as it would *)
(* in the whole.                                                           *)

(* The chosen tests of class k, and a part B of them no dependency leaves  *)
(* or enters.                                                              *)
ChosenOf(k) == {j \in DOMAIN Found[k] : <<k, j>> \in Chosen}

SelfContained(k, B) ==
  /\ B \subseteq ChosenOf(k)
  /\ \A i, j \in ChosenOf(k) : DependsOn(Found[k][i], Found[k][j]) => (i \in B <=> j \in B)

Names(k, B) == [j \in B |-> Found[k][j].method]

\* A test's rows in a batch are those its method has in the run of the batch.
LEMMA RowOfTest ==
  ASSUME NEW k, NEW B, NEW j \in B,
         Names(k, B)[j] \in DOMAIN RunClass(project, project.root[k].fqcn, Names(k, B))
  PROVE  Rows(k, B)[<<k, j>>] = RunClass(project, project.root[k].fqcn, Names(k, B))[Names(k, B)[j]]
<1> DEFINE names == Names(k, B)
           run == RunClass(project, project.root[k].fqcn, names)
<1>1. Rows(k, B) = [t \in {k} \X {i \in B : names[i] \in DOMAIN run} |-> run[names[t[2]]]]
  BY DEF Rows, Names
<1> HIDE DEF names, run
<1> QED
  BY <1>1 DEF names, run

\* The methods of a self-contained part are set apart in the class.
LEMMA PartIsSetApart ==
  ASSUME scenario \in DOMAIN Scenarios, NEW k \in DOMAIN Found, NEW B, SelfContained(k, B)
  PROVE  LET fqcn == project.root[k].fqcn
             part == Names(k, B)
             names == Names(k, ChosenOf(k))
         IN SetApart(part, Runnable(project, fqcn, part), names, Runnable(project, fqcn, names), ToSet(part))
<1> DEFINE fqcn == project.root[k].fqcn
           M == ChosenOf(k)
           part == Names(k, B)
           names == Names(k, M)
           e == Runnable(project, fqcn, part)
           d == Runnable(project, fqcn, names)
           N == ToSet(part)
<1>1. M \subseteq DOMAIN Found[k] /\ B \subseteq M
  BY DEF SelfContained, ChosenOf
<1>2. Batch(part, e) /\ DOMAIN e = N
  BY <1>1, NamesOfBatch DEF Names
<1>3. Batch(names, d) /\ DOMAIN d = ToSet(names)
  BY <1>1, NamesOfBatch DEF Names
<1>4. /\ \A j \in B : part[j] = Found[k][j].method
      /\ \A j \in M : names[j] = Found[k][j].method
      /\ DOMAIN part = B /\ DOMAIN names = M
  BY DEF Names
<1>5. N = {Found[k][j].method : j \in B} /\ ToSet(names) = {Found[k][j].method : j \in M}
  BY <1>4 DEF ToSet
<1>6. \A i, j \in M : Found[k][i].method = Found[k][j].method => i = j
  BY <1>1, Discovered DEF Usable, Found
<1>7. \A j \in M : MethodIn(project, fqcn, Found[k][j].method).depends = Found[k][j].depends
  <2>1. \A t \in TestsOf(Found) :
          MethodIn(project, project.root[t[1]].fqcn, Case(Found, t).method).depends = Case(Found, t).depends
    BY Discovered DEF Usable, Found, project
  <2>2. SUFFICES ASSUME NEW j \in M
                 PROVE  MethodIn(project, fqcn, Found[k][j].method).depends = Found[k][j].depends
    OBVIOUS
  <2>3. <<k, j>> \in TestsOf(Found) /\ Case(Found, <<k, j>>) = Found[k][j] /\ <<k, j>>[1] = k
    BY <1>1 DEF TestsOf, Case
  <2> QED
    BY <2>1, <2>3
<1>8. /\ \A m \in DOMAIN d : d[m] = MethodIn(project, fqcn, m).depends
      /\ \A m \in DOMAIN e : e[m] = MethodIn(project, fqcn, m).depends
  BY DEF Runnable
<1>9. \A i, j \in M : Found[k][j].method \in ToSet(Found[k][i].depends) => (i \in B <=> j \in B)
  BY DEF SelfContained, DependsOn
<1> HIDE DEF part, names, e, d, N, M, fqcn
<1>10. \A j \in M : d[Found[k][j].method] = Found[k][j].depends
  BY <1>3, <1>5, <1>7, <1>8
<1>11. DOMAIN part = {i \in DOMAIN names : names[i] \in N} /\ \A i \in DOMAIN part : part[i] = names[i]
  BY <1>1, <1>4, <1>5, <1>6
<1>12. N \subseteq DOMAIN d /\ \A m \in N : e[m] = d[m]
  BY <1>1, <1>2, <1>3, <1>5, <1>8
<1>13. \A m \in N : \A b \in ToSet(d[m]) : b \in N \/ b \notin DOMAIN d
  <2> SUFFICES ASSUME NEW i \in B, NEW j \in M, Found[k][j].method \in ToSet(Found[k][i].depends)
               PROVE  Found[k][j].method \in N
    BY <1>1, <1>3, <1>5, <1>10
  <2> QED
    BY <1>1, <1>5, <1>9
<1>14. \A m \in DOMAIN d \ N : \A b \in ToSet(d[m]) : b \notin N
  <2> SUFFICES ASSUME NEW i \in M \ B, NEW j \in B, Found[k][j].method \in ToSet(Found[k][i].depends)
               PROVE  FALSE
    BY <1>1, <1>3, <1>5, <1>10
  <2> QED
    BY <1>1, <1>9
<1>15. SetApart(part, e, names, d, N)
  BY <1>2, <1>3, <1>11, <1>12, <1>13, <1>14 DEF SetApart, N
<1> QED
  BY <1>15 DEF part, names, e, d, N, M, fqcn

\* A self-contained part of a class has the rows a run of all of the class gives it.
LEMMA PartIsWhole ==
  ASSUME scenario \in DOMAIN Scenarios, NEW k \in DOMAIN Found, NEW B, SelfContained(k, B), NEW j \in B
  PROVE  Rows(k, B)[<<k, j>>] = Whole(k)[<<k, j>>]
<1> DEFINE fqcn == project.root[k].fqcn
           M == ChosenOf(k)
           part == Names(k, B)
           names == Names(k, M)
           turn == RunClass(project, fqcn, part)
           run == RunClass(project, fqcn, names)
<1>1. \A m \in ToSet(part) : m \in DOMAIN turn /\ m \in DOMAIN run /\ turn[m] = run[m]
  <2>1. SetApart(part, Runnable(project, fqcn, part), names, Runnable(project, fqcn, names), ToSet(part))
    BY PartIsSetApart
  <2> HIDE DEF part, names
  <2> QED
    BY <2>1, PartRunsAlike
<1>2. j \in M /\ part[j] = names[j] /\ part[j] \in ToSet(part)
  <2>1. j \in M /\ part[j] = Found[k][j].method /\ names[j] = Found[k][j].method /\ DOMAIN part = B
    BY DEF SelfContained, Names
  <2> QED
    BY <2>1 DEF ToSet
<1>3. Whole(k) = Rows(k, M)
  BY DEF Whole, ChosenOf
<1> HIDE DEF M
<1>4. part[j] \in DOMAIN turn /\ names[j] \in DOMAIN run /\ turn[part[j]] = run[names[j]]
  <2> HIDE DEF part, names, turn, run
  <2> QED
    BY <1>1, <1>2
<1>5. Rows(k, B)[<<k, j>>] = turn[part[j]]
  BY <1>4, RowOfTest
<1>6. Rows(k, M)[<<k, j>>] = run[names[j]]
  BY <1>2, <1>4, RowOfTest
<1> QED
  BY <1>3, <1>4, <1>5, <1>6

(* While nothing died, a plan is a whole of what is bound together.        *)
KeptOK ==
  NothingDied =>
    /\ \A p \in queue : \A b \in p.classes : Kept(b.methods, Found, Chosen, b.class)
    /\ \A s \in Slot : \A b \in slot[s].left : Kept(b.methods, Found, Chosen, b.class)

(* Tests of an uncut class that are judged have their verdict.             *)
Rightly(t) == report[t] = <<>> \/ GivenUp(t) \/ SameVerdict(t)
VerdictOK == \A t \in Chosen : Uncut(t[1]) /\ ~Case(Found, t).tautological => Rightly(t)

\* A batch that keeps together what is bound is a self-contained part of an uncut class.
LEMMA KeptIsSelfContained ==
  ASSUME NEW k, NEW B, B \subseteq ChosenOf(k), Uncut(k),
         NothingDied => Kept(B, Found, Chosen, k)
  PROVE  SelfContained(k, B)
<1> SUFFICES ASSUME NEW i \in ChosenOf(k), NEW j \in ChosenOf(k), DependsOn(Found[k][i], Found[k][j])
             PROVE  i \in B <=> j \in B
  BY DEF SelfContained
<1>1. /\ i \in DOMAIN Found[k] /\ j \in DOMAIN Found[k] /\ <<k, i>> \in Chosen /\ <<k, j>> \in Chosen
      /\ Case(Found, <<k, i>>) = Found[k][i] /\ Case(Found, <<k, j>>) = Found[k][j]
  BY DEF ChosenOf, Case
<1>2. NothingDied /\ Bound(Found[k][i], Found[k][j])
  <2>1. <<k, i>> \in {v \in Chosen : v[1] = k} /\ <<k, j>> \in {v \in Chosen : v[1] = k}
    BY <1>1
  <2> QED
    BY <1>1, <2>1 DEF Uncut, Bound, DependsOn
<1> QED
  BY <1>1, <1>2 DEF Kept

\* Every step keeps bound tests together until something dies.
LEMMA KeptStays ==
  ASSUME PhaseOK, SlotsOK, KeptOK, [Next]_vars
  PROVE  KeptOK'
<1>1. Found' = Found /\ Chosen' = Chosen
  BY NextKeepsScenario
<1>2. NothingDied' => NothingDied
  BY DeathsStay
<1>3. SlotsOK'
  BY SlotsKept
<1>4. ASSUME queue' \subseteq queue, \A s \in Slot : slot'[s].left \subseteq slot[s].left
      PROVE  KeptOK'
  BY <1>1, <1>2, <1>4 DEF KeptOK
<1>5. CASE phase' # "running"
  <2>1. queue' = {} /\ slot' = [s \in Slot |-> Absent]
    BY <1>3, <1>5 DEF SlotsOK
  <2>2. \A s \in Slot : slot'[s].left = {}
    BY <2>1, SomeSlots
  <2> QED
    BY <2>1, <2>2 DEF KeptOK
<1>6. CASE Plan
  <2>1. /\ phase = "planning"
        /\ queue' = BuildQueue(Found, pending, Workers) /\ \A s \in Slot : slot'[s] = Fresh \/ slot'[s] = Absent
    BY <1>6 DEF Plan
  <2>2. \A s \in Slot : slot'[s].left = {}
    BY <2>1, SomeSlots
  <2>3. Fair(queue', pending \ Synthetic(Found, pending), Found, pending)
    BY <2>1, QueueIsSound DEF PhaseOK
  <2>4. \A p \in queue' : \A b \in p.classes : Kept(b.methods, Found, pending, b.class)
    BY <2>3 DEF Fair, WellPlanned, WellCut
  <2>5. NothingDied => pending = Chosen
    BY <2>1 DEF PhaseOK
  <2> QED
    BY <1>1, <1>2, <2>2, <2>4, <2>5 DEF KeptOK
<1>7. ASSUME NEW s \in Slot, Dispatch(s) PROVE KeptOK'
  <2>1. PICK p \in queue : queue' = queue \ {p} /\ HandsOver(s, p)
    BY <1>7 DEF Dispatch, HandsOver
  <2>2. HandedOver(s, p)
    BY <1>7, <2>1, Dispatched1 DEF Dispatch
  <2>3. \A r \in Slot : slot'[r].left = IF r = s THEN p.classes ELSE slot[r].left
    BY <2>2 DEF HandedOver, OneSlot
  <2> QED
    BY <1>1, <1>2, <2>1, <2>3 DEF KeptOK
<1>8. CASE \/ MasterDies \/ LosePlan
           \/ \E s \in Slot : RunNext(s) \/ FinishPlan(s) \/ OrphanDies(s)
  <2>1. queue' \subseteq queue
    BY <1>8 DEF MasterDies, LosePlan, RunNext, FinishPlan, OrphanDies
  <2> QED
    BY <1>4, <1>8, <2>1, LessLeft
<1>9. ASSUME NEW s \in Slot, WorkerDies(s) PROVE KeptOK'
  BY <1>9, WorkerDeathCounts DEF KeptOK
<1>10. CASE UNCHANGED vars
  BY <1>4, <1>10 DEF vars, callVars
<1>11. Launch \/ LoopStep => phase' # "running"
  BY DEF Launch, LoopStep, Return, Respawn, GiveUp, Report
<1> QED
  BY <1>5, <1>6, <1>7, <1>8, <1>9, <1>10, <1>11 DEF Next, WorkerStep, Failure, Over

\* What a whole run of a class gives stays what it is.
LEMMA WholeStays ==
  ASSUME [Next]_vars, NEW CONSTANT k
  PROVE  Whole(k)' = Whole(k)
<1>1. project' = project /\ Found' = Found /\ Chosen' = Chosen
  BY NextKeepsScenario
<1> QED
  BY <1>1 DEF Whole, Rows

\* Rows for the tests D make a verdict, if they are an Error after a death or what the whole class gives.
LEMMA RightlyReported ==
  ASSUME PhaseOK, ReportOK, VerdictOK, [Next]_vars,
         NEW D, D \subseteq Owing, NEW rows, DOMAIN rows = D, Reporting(rows),
         \A t \in D : rows[t] \in Seq(Row),
         \A t \in D : Uncut(t[1]) /\ ~Case(Found, t).tautological =>
           \/ ~NothingDied' /\ rows[t] = <<"synthError">>
           \/ rows[t] = Whole(t[1])[t]
  PROVE  VerdictOK'
<1>1. /\ project' = project /\ Found' = Found /\ Chosen' = Chosen /\ Chosen \subseteq AllTests
      /\ (~NothingDied => ~NothingDied')
  BY NextKeepsScenario, DeathsStay, Seen DEF PhaseOK
<1>2. \A k : Uncut(k)' => Uncut(k)
  BY <1>1 DEF Uncut
<1>3. \A k : Whole(k)' = Whole(k)
  BY WholeStays
<1> SUFFICES ASSUME NEW t \in Chosen, Uncut(t[1]), ~Case(Found, t).tautological
             PROVE  Rightly(t)'
  BY <1>1, <1>2 DEF VerdictOK
<1>4. CASE t \in D
  <2>1. report[t] = <<>> /\ report'[t] = report[t] \o rows[t]
    BY <1>1, <1>4 DEF Owing, Reporting
  <2>2. \A r \in Seq(Row) : <<>> \o r = r
    OBVIOUS
  <2>3. report'[t] = rows[t]
    BY <1>4, <2>1, <2>2
  <2> QED
    BY <1>3, <1>4, <2>3 DEF Rightly, GivenUp, SameVerdict
<1>5. CASE t \notin D
  <2>1. report'[t] = report[t] /\ Rightly(t)
    BY <1>1, <1>5 DEF Reporting, VerdictOK
  <2> QED
    BY <1>1, <1>3, <2>1 DEF Rightly, GivenUp, SameVerdict
<1> QED
  BY <1>4, <1>5

\* The rows a batch gives its tests are those of a whole run, if its class is uncut.
LEMMA BatchIsWhole ==
  ASSUME PhaseOK, KeptOK, NEW s \in Slot, NEW b, RunsBatch(s, b), NEW t \in BatchTests(b), Uncut(t[1])
  PROVE  Rows(b.class, b.methods)[t] = Whole(t[1])[t]
<1>1. PICK j \in b.methods : t = <<b.class, j>>
  BY DEF BatchTests
<1>2. t[1] = b.class
  BY <1>1
<1>3. b.class \in DOMAIN Found /\ b.methods \subseteq ChosenOf(b.class)
  <2>1. BatchTests(b) \subseteq Chosen /\ Chosen \subseteq TestsOf(Found)
    BY Seen DEF RunsBatch, PhaseOK
  <2>2. ASSUME NEW i \in b.methods
        PROVE  b.class \in DOMAIN Found /\ i \in DOMAIN Found[b.class] /\ <<b.class, i>> \in Chosen
    <3>1. <<b.class, i>> \in BatchTests(b)
      BY DEF BatchTests
    <3>2. PICK k \in DOMAIN Found : <<b.class, i>> \in {k} \X DOMAIN Found[k]
      BY <2>1, <3>1 DEF TestsOf
    <3> QED
      BY <2>1, <3>1, <3>2
  <2> QED
    BY <1>1, <2>2 DEF ChosenOf
<1>4. NothingDied => Kept(b.methods, Found, Chosen, b.class)
  BY DEF KeptOK, RunsBatch
<1>5. SelfContained(b.class, b.methods)
  BY <1>2, <1>3, <1>4, KeptIsSelfContained
<1>6. scenario \in DOMAIN Scenarios
  BY DEF PhaseOK
<1> QED
  BY <1>1, <1>2, <1>3, <1>5, <1>6, PartIsWhole

\* Every step keeps the verdicts right.
LEMMA VerdictsStay ==
  ASSUME PhaseOK, SlotsOK, TestsOK, StartsOK, ReportOK, KeptOK, VerdictOK, [Next]_vars
  PROVE  VerdictOK'
<1>1. <<"pass">> \in Seq(Row) /\ <<"synthError">> \in Seq(Row) /\ <<"skipped">> \in Seq(Row)
      /\ Seq(Status) \subseteq Seq(Row)
  <2>1. "pass" \in Row /\ "synthError" \in Row /\ "skipped" \in Row /\ Status \subseteq Row
    BY DEF Row, Status
  <2> QED
    BY <2>1
<1>2. CASE Plan
  <2> DEFINE D == Synthetic(Found, pending)
             rows == [t \in D |-> <<"pass">>]
  <2>1. Reporting(rows) /\ Owing = pending
    BY <1>2 DEF Plan, ReportOK
  <2>2. D \subseteq Owing /\ \A t \in D : Case(Found, t).tautological
    BY <2>1 DEF Synthetic
  <2>3. DOMAIN rows = D /\ \A t \in D : rows[t] \in Seq(Row)
    BY <1>1
  <2> HIDE DEF D, rows
  <2> QED
    BY <2>1, <2>2, <2>3, RightlyReported
<1>3. CASE GiveUp
  <2> DEFINE D == unfinished
             rows == [t \in D |-> <<"synthError">>]
  <2>1. Reporting(rows) /\ Owing = unfinished /\ phase = "returned" /\ unfinished # {}
    BY <1>3 DEF GiveUp, ReportOK, Errors
  <2>2. ~NothingDied'
    BY <2>1, DeathsStay DEF PhaseOK
  <2>3. DOMAIN rows = D /\ \A t \in D : rows[t] \in Seq(Row) /\ rows[t] = <<"synthError">>
    BY <1>1
  <2>4. D \subseteq Owing
    BY <2>1
  <2> HIDE DEF D, rows
  <2> QED
    BY <2>1, <2>2, <2>3, <2>4, RightlyReported
<1>4. ASSUME report' = report \/ Report
      PROVE  VerdictOK'
  <2>1. \A t \in Chosen : report'[t] = report[t]
    <3>1. Skips \cap Chosen = {} /\ Chosen \subseteq AllTests
      BY SkipsAreOthers, Seen DEF PhaseOK
    <3>2. CASE Report
      BY <3>1, <3>2 DEF Report, Reporting
    <3> QED
      BY <1>4, <3>2
  <2>2. /\ project' = project /\ Found' = Found /\ Chosen' = Chosen /\ (~NothingDied => ~NothingDied')
    BY NextKeepsScenario, DeathsStay
  <2>3. \A k : Uncut(k)' => Uncut(k)
    BY <2>2 DEF Uncut
  <2>4. \A k : Whole(k)' = Whole(k)
    BY WholeStays
  <2> SUFFICES ASSUME NEW t \in Chosen, Uncut(t[1]), ~Case(Found, t).tautological
               PROVE  Rightly(t)'
    BY <2>2, <2>3 DEF VerdictOK
  <2>5. Rightly(t)
    BY DEF VerdictOK
  <2> QED
    BY <2>1, <2>2, <2>4, <2>5 DEF Rightly, GivenUp, SameVerdict
<1>5. ASSUME NEW s \in Slot, RunNext(s) PROVE VerdictOK'
  <2> DEFINE b == Following(slot[s].left)
             D == BatchTests(b)
             rows == Rows(b.class, b.methods)
  <2>1. RunsBatch(s, b) /\ phase = "running"
    BY <1>5, BatchRun, BusyRuns DEF RunNext, Ran
  <2>2. Reporting(rows)
    BY <1>5, Zenon DEF RunNext
  <2> HIDE DEF b
  <2>3. \A t \in D : Uncut(t[1]) => rows[t] = Whole(t[1])[t]
    BY <2>1, BatchIsWhole
  <2>4. RowsOK(rows, D, project, Found) /\ D \subseteq pending /\ D \subseteq LeftTests(s)
    BY <2>1 DEF RunsBatch
  <2> HIDE DEF rows, D
  <2>5. DOMAIN rows = D /\ \A t \in D : rows[t] \in Seq(Row)
    BY <1>1, <2>4 DEF RowsOK
  <2>6. D \subseteq Owing
    BY <2>1, <2>4 DEF ReportOK, TestsOK
  <2> QED
    BY <2>2, <2>3, <2>5, <2>6, RightlyReported
<1>6. ASSUME NEW s \in Slot, WorkerDies(s) PROVE VerdictOK'
  <2> DEFINE D == Given(s)
             rows == [t \in D |-> <<"synthError">>]
  <2>1. /\ phase = "running" /\ Reporting(rows)
        /\ D \subseteq LeftTests(s) /\ LeftTests(s) \cap received = {} /\ LeftTests(s) \subseteq pending
    BY <1>6, DeathSplits DEF Errors
  <2>2. ~NothingDied'
    BY <1>6, WorkerDeathCounts
  <2>3. DOMAIN rows = D /\ \A t \in D : rows[t] \in Seq(Row) /\ rows[t] = <<"synthError">>
    BY <1>1
  <2>4. D \subseteq Owing
    BY <2>1 DEF ReportOK
  <2> HIDE DEF D, rows
  <2> QED
    BY <2>1, <2>2, <2>3, <2>4, RightlyReported
<1>7. \/ Launch \/ Return \/ Respawn \/ MasterDies \/ LosePlan \/ Over \/ UNCHANGED vars
      \/ \E s \in Slot : Dispatch(s) \/ FinishPlan(s) \/ OrphanDies(s)
      => report' = report
  BY DEF Launch, Return, Respawn, MasterDies, LosePlan, Over, vars, Dispatch, FinishPlan, OrphanDies
<1> QED
  BY <1>2, <1>3, <1>4, <1>5, <1>6, <1>7 DEF Next, LoopStep, WorkerStep, Failure

(* Cutting the run into plans that go to any worker in any order, and      *)
(* retrying what a dead worker left, shows in no verdict: a test of a      *)
(* class none of whose dependencies are cut is reported with the rows of a *)
(* whole run of its class, or with one Error after a death.                *)
THEOREM VerdictsMatch == Spec => []VerdictParity
<1>1. Init => KeptOK /\ VerdictOK
  <2> SUFFICES ASSUME Init PROVE KeptOK /\ VerdictOK
    OBVIOUS
  <2>1. KeptOK
    BY SomeSlots DEF Init, KeptOK
  <2>2. Chosen \subseteq AllTests
    BY Seen DEF Init
  <2>3. \A t \in Chosen : report[t] = <<>>
    BY <2>2 DEF Init
  <2> QED
    BY <2>1, <2>3 DEF VerdictOK, Rightly
<1>2. IInv /\ KeptOK /\ VerdictOK /\ [Next]_vars => KeptOK' /\ VerdictOK'
  BY KeptStays, VerdictsStay DEF IInv
<1>3. IInv /\ VerdictOK => VerdictParity
  <2> SUFFICES ASSUME IInv, VerdictOK, phase = "reported",
                      NEW t \in Chosen, Uncut(t[1]), ~Case(Found, t).tautological
               PROVE  GivenUp(t) \/ SameVerdict(t)
    BY DEF VerdictParity
  <2>1. report[t] # <<>>
    BY DEF IInv, ReportOK, Owing
  <2> QED
    BY <2>1 DEF VerdictOK, Rightly
<1> QED
  BY <1>1, <1>2, <1>3, RunInvariant, PTL DEF Spec

----------------------------------------------------------------------------
(* The respawn loop.                                                       *)
LEMMA NotAnError ==
  /\ <<"pass">> # <<"synthError">> /\ <<"synthError">> # <<>> /\ <<"pass">> # <<>>
  /\ \A r \in Seq(Status) : r # <<"synthError">>
<1>1. ASSUME NEW r \in Seq(Status) PROVE r # <<"synthError">>
  <2>1. ASSUME r = <<"synthError">> PROVE FALSE
    <3>1. r[1] = "synthError" /\ 1 \in DOMAIN r
      BY <2>1
    <3>2. r[1] \in Status
      BY <3>1
    <3> QED
      BY <3>1, <3>2 DEF Status
  <2> QED
    BY <2>1
<1>2. <<"pass">> \in Seq(Status)
  BY DEF Status
<1> QED
  BY <1>1, <1>2

\* The verdicts are read off the report alone.
LEMMA SameVerdicts ==
  ASSUME PhaseOK, [Next]_vars, \A t \in Chosen : report'[t] = report[t]
  PROVE  Verdicts' = Verdicts
<1>1. Chosen' = Chosen
  BY NextKeepsScenario
<1> QED
  BY <1>1 DEF Verdicts

(* The rows of the tests in D are a verdict of v on each of them.          *)
VerdictIs(v, D, rows) ==
  \/ v = "error" /\ \A t \in D : rows[t] = <<"synthError">>
  \/ v = "ran" /\ \A t \in D : rows[t] \in Seq(Status) /\ rows[t] # <<>>

\* Reporting rows for the tests D gives those, and no others, a verdict.
LEMMA NewVerdicts ==
  ASSUME PhaseOK, ReportOK, [Next]_vars, NEW D, D \subseteq Owing, NEW rows, DOMAIN rows = D, Reporting(rows),
         NEW v, VerdictIs(v, D, rows)
  PROVE  /\ \A t \in D : Verdicts[t] = "none" /\ Verdicts'[t] = v
         /\ \A t \in AllTests \ D : Verdicts'[t] = Verdicts[t]
         /\ D \subseteq AllTests
<1>1. Chosen' = Chosen /\ Chosen \subseteq AllTests
  BY NextKeepsScenario, Seen DEF PhaseOK
<1>2. \A t \in D : t \in Chosen /\ report[t] = <<>>
  BY DEF Owing
<1>3. \A t \in D : rows[t] \in Seq(Row)
  <2>1. "synthError" \in Row /\ Status \subseteq Row
    BY DEF Row, Status
  <2>2. <<"synthError">> \in Seq(Row) /\ Seq(Status) \subseteq Seq(Row)
    BY <2>1
  <2> QED
    BY <2>2 DEF VerdictIs
<1>4. \A t \in D : report'[t] = rows[t]
  <2>1. \A t \in D : report'[t] = report[t] \o rows[t]
    BY <1>1, <1>2 DEF Reporting
  <2>2. \A r \in Seq(Row) : <<>> \o r = r
    OBVIOUS
  <2> QED
    BY <1>2, <1>3, <2>1, <2>2
<1>5. \A t \in AllTests \ D : report'[t] = report[t]
  BY DEF Reporting
<1>6. \A t \in D : Verdicts[t] = "none"
  BY <1>1, <1>2 DEF Verdicts
<1>7. \A t \in AllTests \ D : Verdicts'[t] = Verdicts[t]
  BY <1>1, <1>5 DEF Verdicts
<1>8. ASSUME NEW t \in D PROVE Verdicts'[t] = v
  <2>1. Verdicts'[t] = IF rows[t] = <<>> THEN "none" ELSE IF rows[t] = <<"synthError">> THEN "error" ELSE "ran"
    BY <1>1, <1>2, <1>4 DEF Verdicts
  <2> QED
    BY <2>1, NotAnError DEF VerdictIs
<1> QED
  BY <1>1, <1>2, <1>6, <1>7, <1>8

\* What the respawn loop is told of the run has the respawn loop's types.
LEMMA LoopTypes ==
  ASSUME IInv
  PROVE  /\ Verdicts \in [AllTests -> {"none", "ran", "error"}]
         /\ CallRuns \in [AllTests -> 0 .. 2] /\ Runs \in [AllTests -> Nat]
<1>1. starts \in [AllTests -> [call : 0 .. 2, all : Nat]]
  BY DEF IInv, StartsOK, MAX_ATTEMPTS
<1>2. \A t \in AllTests : starts[t].call \in 0 .. 2 /\ starts[t].all \in Nat
  BY <1>1
<1>3. CallRuns \in [AllTests -> 0 .. 2] /\ Runs \in [AllTests -> Nat]
  BY <1>2 DEF CallRuns, Runs
<1>4. Verdicts \in [AllTests -> {"none", "ran", "error"}]
  BY DEF Verdicts
<1> QED
  BY <1>3, <1>4

\* The first state maps to a first state of the respawn loop.
LEMMA InitLoop == Init => Loop!Init
<1> SUFFICES ASSUME Init PROVE Loop!Init
  OBVIOUS
<1>1. LoopState = "idle" /\ Wanted = {}
  BY DEF Init, LoopState, Wanted
<1>2. Verdicts = [t \in AllTests |-> "none"]
  BY DEF Init, Verdicts
<1>3. CallRuns = [t \in AllTests |-> 0] /\ Runs = [t \in AllTests |-> 0]
  BY DEF Init, CallRuns, Runs
<1>4. pending = {} /\ unfinished = {} /\ respawns = 0
  BY DEF Init
<1> QED
  BY <1>1, <1>2, <1>3, <1>4 DEF Loop!Init

(* Where a phase is in the loop.                                           *)
LEMMA LoopPhase ==
  /\ phase = "start" => LoopState = "idle" /\ Wanted = {}
  /\ phase \in {"planning", "running"} => LoopState = "calling" /\ Wanted = Chosen
  /\ phase = "returned" => LoopState = "returned" /\ Wanted = Chosen
  /\ phase = "reported" => LoopState = "reported" /\ Wanted = Chosen
  /\ phase = "failed" => LoopState = "failed" /\ Wanted = Chosen
  /\ phase = "refused" => LoopState = "failed" /\ Wanted = {}
BY DEF LoopState, Wanted

(* A step inside a call.                                                   *)
LEMMA InsideCall ==
  ASSUME IInv, IInv', [Next]_vars, phase \in {"planning", "running"}, phase' = "running",
         pending' = pending, unfinished' = unfinished, respawns' = respawns,
         NEW v \in {"ran", "error"},
         \A t \in AllTests : \/ CallRuns'[t] = CallRuns[t] /\ Runs'[t] = Runs[t]
                             \/ t \in pending /\ CallRuns'[t] = CallRuns[t] + 1 /\ Runs'[t] = Runs[t] + 1,
         \A t \in AllTests : \/ Verdicts'[t] = Verdicts[t]
                             \/ t \in pending /\ Verdicts[t] = "none" /\ Verdicts'[t] = v
  PROVE  Loop!Progress
<1>1. Chosen' = Chosen
  BY NextKeepsScenario
<1>2. LoopState = "calling" /\ Wanted = Chosen /\ LoopState' = "calling" /\ Wanted' = Chosen
  BY <1>1, LoopPhase DEF LoopState, Wanted
<1>3. starts' \in [AllTests -> [call : 0 .. 2, all : Nat]]
  BY DEF IInv, StartsOK, MAX_ATTEMPTS
<1>4. CallRuns' \in [AllTests -> 0 .. 2] /\ Runs' \in [AllTests -> Nat]
  <2>1. \A t \in AllTests : starts'[t].call \in 0 .. 2 /\ starts'[t].all \in Nat
    BY <1>3
  <2> QED
    BY <2>1 DEF CallRuns, Runs
<1>5. Verdicts' \in [AllTests -> {"none", "ran", "error"}]
  BY DEF Verdicts
<1> QED
  BY <1>2, <1>4, <1>5 DEF Loop!Progress, Loop!MAX_ATTEMPTS, Loop!Verdict

\* The runs are read off the starts alone.
LEMMA SameRuns ==
  ASSUME starts' = starts
  PROVE  CallRuns' = CallRuns /\ Runs' = Runs
BY DEF CallRuns, Runs

(* Verdicts on tests nothing was started of.                               *)
LEMMA Judging ==
  ASSUME IInv, IInv', [Next]_vars, phase \in {"planning", "running"}, phase' = "running",
         pending' = pending, unfinished' = unfinished, respawns' = respawns, starts' = starts,
         NEW D, D \subseteq Owing, D \subseteq pending, NEW rows, DOMAIN rows = D, Reporting(rows),
         NEW v, VerdictIs(v, D, rows)
  PROVE  Loop!Progress
<1>1. PhaseOK /\ ReportOK
  BY DEF IInv
<1>2. /\ \A t \in D : Verdicts[t] = "none" /\ Verdicts'[t] = v
      /\ \A t \in AllTests \ D : Verdicts'[t] = Verdicts[t]
  BY <1>1, NewVerdicts
<1>3. CallRuns' = CallRuns /\ Runs' = Runs
  BY SameRuns
<1>4. v \in {"ran", "error"}
  BY DEF VerdictIs
<1>5. \A t \in AllTests : \/ Verdicts'[t] = Verdicts[t]
                          \/ t \in pending /\ Verdicts[t] = "none" /\ Verdicts'[t] = v
  BY <1>2
<1> QED
  BY <1>3, <1>4, <1>5, InsideCall

(* A step the loop does not see.                                           *)
LEMMA Unseen ==
  ASSUME IInv, [Next]_vars, phase' = phase, pending' = pending, unfinished' = unfinished,
         respawns' = respawns, starts' = starts, report' = report
  PROVE  UNCHANGED Loop!vars
<1>1. Chosen' = Chosen
  BY NextKeepsScenario
<1>2. LoopState' = LoopState /\ Wanted' = Wanted
  BY <1>1 DEF LoopState, Wanted
<1>3. Verdicts' = Verdicts
  BY SameVerdicts DEF IInv
<1>4. CallRuns' = CallRuns /\ Runs' = Runs
  BY SameRuns
<1> QED
  BY <1>2, <1>3, <1>4 DEF Loop!vars

\* Every step of the pipeline is a step of the respawn loop, or a stutter.
LEMMA NextLoop ==
  ASSUME IInv, [Next]_vars
  PROVE  [Loop!Next]_(Loop!vars)
<1>1. /\ PhaseOK /\ SlotsOK /\ TestsOK /\ StartsOK /\ ReportOK /\ IInv'
  BY NextInvariant DEF IInv
<1>2. Chosen' = Chosen /\ Chosen \subseteq AllTests
  BY <1>1, NextKeepsScenario, Seen DEF PhaseOK
<1>3. /\ phase' = "planning" => LoopState' = "calling" /\ Wanted' = Chosen
      /\ phase' = "returned" => LoopState' = "returned" /\ Wanted' = Chosen
      /\ phase' = "reported" => LoopState' = "reported" /\ Wanted' = Chosen
      /\ phase' = "failed" => LoopState' = "failed" /\ Wanted' = Chosen
      /\ phase' = "refused" => LoopState' = "failed" /\ Wanted' = {}
  BY <1>2 DEF LoopState, Wanted
<1>4. CASE Launch
  <2>1. /\ phase = "start" /\ report' = report /\ starts' = starts /\ unfinished' = unfinished /\ respawns' = respawns
        /\ \/ phase' = "refused" /\ pending' = pending
           \/ phase' = "planning" /\ pending' = Chosen
    BY <1>4 DEF Launch
  <2>2. Verdicts' = Verdicts /\ CallRuns' = CallRuns /\ Runs' = Runs
    BY <1>1, <2>1, SameVerdicts, SameRuns
  <2>3. LoopState = "idle" /\ Wanted = {}
    BY <2>1, LoopPhase
  <2>4. CASE phase' = "refused" /\ pending' = pending
    BY <1>3, <2>1, <2>2, <2>3, <2>4 DEF Loop!Refuse, Loop!Next
  <2>5. CASE phase' = "planning" /\ pending' = Chosen
    BY <1>2, <1>3, <2>1, <2>2, <2>3, <2>5 DEF Loop!Begin, Loop!Next
  <2> QED
    BY <2>1, <2>4, <2>5
<1>5. CASE Plan
  <2> DEFINE D == Synthetic(Found, pending)
             rows == [t \in D |-> <<"pass">>]
  <2>1. /\ phase = "planning" /\ phase' = "running" /\ pending' = pending /\ Reporting(rows)
        /\ unfinished' = unfinished /\ respawns' = respawns /\ starts' = starts
    BY <1>5 DEF Plan
  <2>2. D \subseteq pending /\ Owing = pending
    BY <1>1, <2>1 DEF ReportOK, Synthetic
  <2>3. DOMAIN rows = D /\ \A t \in D : rows[t] \in Seq(Status) /\ rows[t] # <<>>
    <3>1. <<"pass">> \in Seq(Status) /\ <<"pass">> # <<>>
      BY DEF Status
    <3> QED
      BY <3>1
  <2> HIDE DEF D, rows
  <2>4. DOMAIN rows = D /\ VerdictIs("ran", D, rows)
    BY <2>3 DEF VerdictIs
  <2>5. Loop!Progress
    BY <1>1, <2>1, <2>2, <2>4, Judging
  <2> QED
    BY <2>5 DEF Loop!Next
<1>6. ASSUME NEW s \in Slot, RunNext(s) PROVE Loop!Next
  <2> DEFINE b == Following(slot[s].left)
             D == BatchTests(b)
             rows == Rows(b.class, b.methods)
  <2>1. RunsBatch(s, b) /\ phase = "running"
    BY <1>1, <1>6, BatchRun, BusyRuns DEF RunNext, Ran
  <2>2. /\ phase' = phase /\ pending' = pending /\ Reporting(rows)
        /\ unfinished' = unfinished /\ respawns' = respawns /\ starts' = starts
    BY <1>6, Zenon DEF RunNext
  <2> HIDE DEF b
  <2>3. RowsOK(rows, D, project, Found) /\ D \subseteq pending /\ D \subseteq LeftTests(s)
    BY <2>1 DEF RunsBatch
  <2> HIDE DEF rows, D
  <2>4. DOMAIN rows = D /\ \A t \in D : rows[t] \in Seq(Status) /\ rows[t] # <<>>
    BY <2>3 DEF RowsOK
  <2>5. D \subseteq Owing
    BY <1>1, <2>1, <2>3 DEF ReportOK, TestsOK
  <2>6. VerdictIs("ran", D, rows)
    BY <2>4 DEF VerdictIs
  <2>7. Loop!Progress
    BY <1>1, <2>1, <2>2, <2>3, <2>4, <2>5, <2>6, Judging
  <2> QED
    BY <2>7 DEF Loop!Next
<1>7. ASSUME NEW s \in Slot, WorkerDies(s) PROVE Loop!Next
  <2> DEFINE D == Given(s)
             rows == [t \in D |-> <<"synthError">>]
  <2>1. /\ phase = "running" /\ phase' = phase /\ pending' = pending
        /\ D \subseteq LeftTests(s) /\ LeftTests(s) \cap received = {} /\ LeftTests(s) \subseteq pending
        /\ Reporting(rows)
    BY <1>1, <1>7, DeathSplits DEF Errors
  <2>2. unfinished' = unfinished /\ respawns' = respawns /\ starts' = starts
    BY <1>7 DEF WorkerDies
  <2>3. D \subseteq Owing /\ D \subseteq pending
    BY <1>1, <2>1 DEF ReportOK
  <2>4. DOMAIN rows = D /\ \A t \in D : rows[t] = <<"synthError">>
    OBVIOUS
  <2> HIDE DEF D, rows
  <2>5. VerdictIs("error", D, rows)
    BY <2>4 DEF VerdictIs
  <2>6. Loop!Progress
    BY <1>1, <2>1, <2>2, <2>3, <2>4, <2>5, Judging
  <2> QED
    BY <2>6 DEF Loop!Next
<1>8. ASSUME NEW s \in Slot, Dispatch(s) PROVE Loop!Next
  <2>1. PICK p \in queue :
          starts' = [t \in AllTests |->
            IF t \in PlanTests(p) THEN [call |-> starts[t].call + 1, all |-> starts[t].all + 1]
            ELSE starts[t]]
    BY <1>8 DEF Dispatch
  <2>2. /\ phase = "running" /\ phase' = phase /\ pending' = pending /\ report' = report
        /\ unfinished' = unfinished /\ respawns' = respawns
    BY <1>8 DEF Dispatch
  <2>3. PlanTests(p) \subseteq pending
    BY <1>1, TestsKnown DEF QueueTests
  <2>4. Verdicts' = Verdicts
    BY <1>1, <2>2, SameVerdicts
  <2>5. ASSUME NEW t \in AllTests
        PROVE  \/ CallRuns'[t] = CallRuns[t] /\ Runs'[t] = Runs[t]
               \/ t \in pending /\ CallRuns'[t] = CallRuns[t] + 1 /\ Runs'[t] = Runs[t] + 1
    <3>1. CASE t \in PlanTests(p)
      <4>1. starts'[t] = [call |-> starts[t].call + 1, all |-> starts[t].all + 1]
        BY <2>1, <3>1
      <4> QED
        BY <2>3, <3>1, <4>1 DEF CallRuns, Runs
    <3>2. CASE t \notin PlanTests(p)
      <4>1. starts'[t] = starts[t]
        BY <2>1, <3>2
      <4> QED
        BY <4>1 DEF CallRuns, Runs
    <3> QED
      BY <3>1, <3>2
  <2>6. Loop!Progress
    BY <1>1, <2>2, <2>4, <2>5, InsideCall
  <2> QED
    BY <2>6 DEF Loop!Next
<1>9. CASE \/ MasterDies \/ LosePlan \/ UNCHANGED vars
           \/ \E s \in Slot : FinishPlan(s) \/ OrphanDies(s)
  <2>1. /\ phase' = phase /\ pending' = pending /\ unfinished' = unfinished
        /\ respawns' = respawns /\ starts' = starts /\ report' = report
    BY <1>9 DEF MasterDies, LosePlan, vars, FinishPlan, OrphanDies
  <2> QED
    BY <2>1, Unseen
<1>10. CASE Return
  <2>1. /\ phase = "running" /\ phase' = "returned" /\ unfinished' = HandedBack /\ Done
        /\ pending' = pending /\ respawns' = respawns /\ report' = report /\ starts' = starts
    BY <1>10 DEF Return
  <2>2. HandedBack = pending \ received /\ Owing = pending \ received /\ pending \subseteq Chosen
    BY <1>1, <2>1, AllHandedBack DEF ReportOK, PhaseOK
  <2>3. HandedBack = Loop!Owed
    <3>1. \A t \in pending : Verdicts[t] = "none" <=> report[t] = <<>>
      BY <1>2, <2>2 DEF Verdicts
    <3> QED
      BY <2>2, <3>1 DEF Loop!Owed, Owing
  <2>4. Verdicts' = Verdicts /\ CallRuns' = CallRuns /\ Runs' = Runs
    BY <1>1, <2>1, SameVerdicts, SameRuns
  <2>5. LoopState = "calling" /\ Wanted = Chosen
    BY <2>1, LoopPhase
  <2> QED
    BY <1>3, <2>1, <2>3, <2>4, <2>5 DEF Loop!Return, Loop!Next
<1>11. CASE Respawn
  <2>1. /\ phase = "returned" /\ unfinished # {} /\ respawns < 3 /\ respawns' = respawns + 1
        /\ pending' = unfinished /\ unfinished' = {} /\ phase' \in {"planning", "failed"} /\ report' = report
        /\ starts' = [t \in AllTests |-> [starts[t] EXCEPT !.call = 0]]
    BY <1>11 DEF Respawn, MAX_MASTER_RESPAWNS
  <2>2. Verdicts' = Verdicts
    BY <1>1, <2>1, SameVerdicts
  <2>3. \A t \in AllTests : starts'[t].call = 0 /\ starts'[t].all = starts[t].all
    BY <1>1, <2>1 DEF StartsOK
  <2>4. CallRuns' = [t \in AllTests |-> 0] /\ Runs' = Runs
    BY <2>3 DEF CallRuns, Runs
  <2>5. LoopState = "returned" /\ Wanted = Chosen /\ Wanted' = Chosen /\ LoopState' \in {"calling", "failed"}
    BY <1>3, <2>1, LoopPhase
  <2> QED
    BY <2>1, <2>2, <2>4, <2>5 DEF Loop!Respawn, Loop!MAX_MASTER_RESPAWNS, Loop!Next
<1>12. CASE GiveUp
  <2> DEFINE D == unfinished
             rows == [t \in D |-> <<"synthError">>]
  <2>1. /\ phase = "returned" /\ phase' = "returned" /\ unfinished # {} /\ respawns >= 3 /\ respawns' = respawns + 1
        /\ unfinished' = {} /\ Reporting(rows) /\ pending' = pending /\ starts' = starts
    BY <1>12 DEF GiveUp, MAX_MASTER_RESPAWNS, Errors
  <2>2. D \subseteq Owing /\ DOMAIN rows = D /\ \A t \in D : rows[t] = <<"synthError">>
    BY <1>1, <2>1 DEF ReportOK
  <2> HIDE DEF rows, D
  <2>3. VerdictIs("error", D, rows)
    BY <2>2 DEF VerdictIs
  <2>4. /\ \A t \in D : Verdicts'[t] = "error"
        /\ \A t \in AllTests \ D : Verdicts'[t] = Verdicts[t]
    BY <1>1, <2>1, <2>2, <2>3, NewVerdicts
  <2>5. Verdicts' = [t \in AllTests |-> IF t \in unfinished THEN "error" ELSE Verdicts[t]]
    <3>1. Verdicts' = [t \in AllTests |-> Verdicts'[t]]
      BY DEF Verdicts
    <3> QED
      BY <2>4, <3>1 DEF D
  <2>6. CallRuns' = CallRuns /\ Runs' = Runs
    BY <2>1, SameRuns
  <2>7. LoopState = "returned" /\ Wanted = Chosen
    BY <2>1, LoopPhase
  <2> QED
    BY <1>3, <2>1, <2>5, <2>6, <2>7 DEF Loop!GiveUp, Loop!MAX_MASTER_RESPAWNS, Loop!Next
<1>13. CASE Report
  <2>1. /\ phase = "returned" /\ phase' = "reported" /\ unfinished = {} /\ unfinished' = unfinished
        /\ Reporting([t \in Skips |-> <<"skipped">>]) /\ pending' = pending /\ respawns' = respawns
        /\ starts' = starts
    BY <1>13 DEF Report
  <2>2. Skips \cap Chosen = {}
    BY <1>1, SkipsAreOthers
  <2>3. \A t \in Chosen : report'[t] = report[t]
    BY <1>2, <2>1, <2>2 DEF Reporting
  <2>4. Verdicts' = Verdicts /\ CallRuns' = CallRuns /\ Runs' = Runs
    BY <1>1, <2>1, <2>3, SameVerdicts, SameRuns
  <2>5. LoopState = "returned" /\ Wanted = Chosen
    BY <2>1, LoopPhase
  <2> QED
    BY <1>3, <2>1, <2>4, <2>5 DEF Loop!Break, Loop!Next
<1> QED
  BY <1>4, <1>5, <1>6, <1>7, <1>8, <1>9, <1>10, <1>11, <1>12, <1>13
     DEF Next, LoopStep, WorkerStep, Failure, Over

(* A whole run, with its plans, workers and deaths, implements main's loop *)
(* of calls: each returns all it was given judged or handed back, starts a *)
(* test twice at most, and there are four of them at most.                 *)
THEOREM RunImplementsRespawn == Spec => ImplementsRespawn
<1>1. Init => Loop!Init
  BY InitLoop
<1>2. IInv /\ [Next]_vars => [Loop!Next]_(Loop!vars)
  BY NextLoop
<1> QED
  BY <1>1, <1>2, RunInvariant, PTL DEF Spec, ImplementsRespawn, Loop!Safety
=============================================================================
