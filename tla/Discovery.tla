----------------------------- MODULE Discovery -----------------------------
(***************************************************************************)
(* From parsed PHP classes to test cases: discover_cases_and_test_index,   *)
(* resolve_vendor_bases, emit_test_cases and group_by_class.               *)
(*                                                                         *)
(* A project is [root |-> the classes of the test directories, in path     *)
(* order, supplement |-> those of the autoload-dev directories, vendor |-> *)
(* those composer can find, psr4 |-> is there a PSR-4 map?].  A class is a *)
(* ParsedClass: [fqcn, parent, kind \in {"class", "abstract", "trait"},    *)
(* uses, methods, groups, hooks, stateful, isolated, needsDb, functional], *)
(* a method a MethodInfo: [name, stmts, provider, depends, groups, refs],  *)
(* refs being its fingerprint; what running them does is in Execution.tla. *)
(* Names are strings, method names up to case.  An FQCN is defined once.   *)
(***************************************************************************)
EXTENDS Naturals, Sequences, FiniteSets, SequencesExt

CONSTANTS
  NoClass,   \* Option::None for a parent, a name no class has
  Framework, \* PHPUnit's own classes, never parsed
  TestBases  \* the names that end in TestCase

MAX_CHAIN_DEPTH == 32

Named(classes, fqcn) == {c \in classes : c.fqcn = fqcn}

(* S with what Grow adds to it, n times.                                   *)
Closure(S, Grow(_), n) ==
  LET grown[k \in 0 .. n] ==
        IF k = 0 THEN S ELSE LET T == grown[k - 1] IN T \cup Grow(T)
  IN grown[n]

Parents(classes) == {c.parent : c \in classes} \ {NoClass}

(* resolve_vendor_bases: the vendor classes some parsed class descends     *)
(* from, and the classes they descend from in turn.                        *)
WithVendorBases(classes, vendor) ==
  Closure(classes, LAMBDA S : {v \in vendor : v.fqcn \in Parents(S) \ Framework},
          Cardinality(vendor))

(* The classes of the inheritance graph.                                   *)
Graph(project) ==
  LET parsed == ToSet(project.root) \cup project.supplement
  IN IF project.psr4 THEN WithVendorBases(parsed, project.vendor) ELSE parsed

(* emit_test_cases' by_fqcn, the classes methods are folded from: those of *)
(* the autoload-dev directories are in the graph only.                     *)
FoldSources(project) == ToSet(project.root) \cup (Graph(project) \ project.supplement)

(* is_test_class_via_chain: some ancestor's name looks like a test case.   *)
ReachesTestCase(fqcn, classes) ==
  LET above(S) == Parents({c \in classes : c.fqcn \in S})
  IN above(Closure({fqcn}, above, Cardinality(classes))) \cap TestBases # {}

----------------------------------------------------------------------------
(* collect_trait_sources: the traits among the names, each followed by the *)
(* traits it uses; anything else is ignored, what was met before too.      *)
TraitSources(names, met, classes) ==
  LET sources[at \in [todo : Seq(STRING), visited : SUBSET STRING]] ==
        IF at.todo = <<>> THEN <<>>
        ELSE LET t == Head(at.todo)
                 traits == IF t \in at.visited THEN {}
                           ELSE {c \in Named(classes, t) : c.kind = "trait"}
                 later(uses) == sources[[ todo |-> uses \o Tail(at.todo),
                                          visited |-> at.visited \cup {t} ]]
             IN IF traits = {} THEN later(<<>>)
                ELSE LET c == CHOOSE c \in traits : TRUE IN <<c>> \o later(c.uses)
  IN sources[[todo |-> names, visited |-> met]]

(* A class and its ancestors as far as they are among the classes.         *)
Chain(fqcn, classes) ==
  LET up[n \in 0 .. MAX_CHAIN_DEPTH] ==
        IF n = 0 THEN <<>>
        ELSE LET below == up[n - 1]
                 found == Named(classes, IF below = <<>> THEN fqcn ELSE Last(below).parent)
             IN IF found = {} THEN below ELSE Append(below, CHOOSE c \in found : TRUE)
  IN up[MAX_CHAIN_DEPTH]

(* Each class of the chain, followed by the traits it adds.                *)
SourcesAlong(chain, classes) ==
  LET sources[i \in 0 .. Len(chain)] ==
        IF i = 0 THEN <<>>
        ELSE LET before == sources[i - 1]
                 met == {c.fqcn : c \in {d \in ToSet(before) : d.kind = "trait"}}
             IN before \o <<chain[i]>> \o TraitSources(chain[i].uses, met, classes)
  IN sources[Len(chain)]

(* Mutant: the ancestors' methods come before the class's own.             *)
SourcesBackwards(class, classes) == SourcesAlong(Reverse(Chain(class.fqcn, classes)), classes)

(* Where a class's methods come from: itself, its traits, its parent, the  *)
(* parent's traits, and so on.                                             *)
Sources(class, classes) == SourcesAlong(Chain(class.fqcn, classes), classes)

(* is_tautological_method: nothing but assertions that cannot fail, and at *)
(* least one.                                                              *)
IsTautological(m) ==
  /\ ToSet(m.stmts) \subseteq {"trivial", "comment"}
  /\ "trivial" \in ToSet(m.stmts)

(* The `seen` filter of emit_test_cases: the first method of each name.    *)
FirstOfEachName(found) ==
  LET kept[n \in 0 .. Len(found)] ==
        IF n = 0 THEN <<>>
        ELSE IF \E i \in DOMAIN kept[n - 1] : kept[n - 1][i].m.name = found[n].m.name
             THEN kept[n - 1] ELSE Append(kept[n - 1], found[n])
  IN kept[Len(found)]

(* emit_test_cases for one class, from the sources of its methods.  The    *)
(* lifecycle flag is the class's own, the others are those of any source.  *)
CasesFrom(class, sources) ==
  LET found == FlattenSeq([i \in DOMAIN sources |->
                 [j \in DOMAIN sources[i].methods |->
                    [m |-> sources[i].methods[j], from |-> sources[i]]]])
      firsts == FirstOfEachName(found)
      case(m, from) ==
        [ class |-> class.fqcn, method |-> m.name, provider |-> m.provider # "none",
          groups |-> class.groups \cup from.groups \cup m.groups,
          tautological |-> IsTautological(m), hooks |-> class.hooks, depends |-> m.depends,
          refs |-> m.refs,
          stateful |-> \E c \in ToSet(sources) : c.stateful,
          isolated |-> \E c \in ToSet(sources) : c.isolated,
          needsDb |-> \E c \in ToSet(sources) : c.needsDb,
          functional |-> \E c \in ToSet(sources) : c.functional ]
  IN [k \in DOMAIN firsts |-> case(firsts[k].m, firsts[k].from)]

CasesOf(class, classes) == CasesFrom(class, Sources(class, classes))

(* Is the class emitted?  Traits and abstract classes are fold sources.    *)
IsEmitted(class, classes) == class.kind = "class" /\ ReachesTestCase(class.fqcn, classes)

(* emit_test_cases: only the test directories' classes are emitted, if the *)
(* graph makes them test classes.  The cases are kept by class, the index  *)
(* of the class in root.                                                   *)
DiscoverCases(project) ==
  [k \in {i \in DOMAIN project.root : IsEmitted(project.root[i], Graph(project))} |->
     CasesOf(project.root[k], FoldSources(project))]

(* A test is a class and the index of one of its cases.                    *)
TestsOf(found) == UNION {{k} \X DOMAIN found[k] : k \in DOMAIN found}
Case(found, t) == found[t[1]][t[2]]

----------------------------------------------------------------------------
(* group_by_class: a TestClass for each class some test of S is of, with   *)
(* these methods.  It has the lifecycle flag of its first case; it is      *)
(* stateful or isolated if one of its cases is.                            *)
GroupByClass(found, S) ==
  [k \in {t[1] : t \in S} |->
     LET methods == {j \in DOMAIN found[k] : <<k, j>> \in S}
     IN [ class |-> k, cases |-> found[k], methods |-> methods,
          hooks |-> found[k][Min(methods)].hooks,
          stateful |-> \E j \in methods : found[k][j].stateful,
          isolated |-> \E j \in methods : found[k][j].isolated ]]

----------------------------------------------------------------------------
(* What PHP itself makes of the same classes, all of which it can load:    *)
(* the definition a call of the method reaches is the class's own, else    *)
(* one from a trait, else the parent's.                                    *)
AllClasses(project) == ToSet(project.root) \cup project.supplement \cup project.vendor

Defined(class, name) == {m \in ToSet(class.methods) : m.name = name}

TraitsOf(class, classes) == {t \in classes : t.fqcn \in ToSet(class.uses) /\ t.kind = "trait"}

InTraits(class, name, classes) ==
  LET in[t \in classes] ==
        IF Defined(t, name) # {} THEN Defined(t, name)
        ELSE UNION {in[u] : u \in TraitsOf(t, classes)}
  IN UNION {in[t] : t \in TraitsOf(class, classes)}

PhpMethod(fqcn, name, classes) ==
  LET from[c \in classes] ==
        CASE Defined(c, name) # {} -> Defined(c, name)
          [] OTHER -> IF InTraits(c, name, classes) # {} THEN InTraits(c, name, classes)
                      ELSE UNION {from[p] : p \in Named(classes, c.parent)}
  IN UNION {from[c] : c \in Named(classes, fqcn)}

(* What PHP has loaded a project's classes under: each of them once, with  *)
(* its traits before it, at most MAX_CHAIN_DEPTH deep, no trait as a       *)
(* parent, and no method of a test class twice.                            *)
Loadable(project) ==
  LET all == AllClasses(project)
      traits == {c \in all : c.kind = "trait"}
      emitted == {c \in ToSet(project.root) : IsEmitted(c, all)}
  IN /\ IsFiniteSet(all) /\ project.root \in Seq(all)
     /\ \A c \in all : /\ c.fqcn \in STRING \ {NoClass} /\ c.uses \in Seq(STRING)
                       /\ c.methods \in Seq(ToSet(c.methods))
     /\ \A c, d \in all : (c.fqcn = d.fqcn => c = d) /\ (c.parent = d.fqcn => d.kind # "trait")
     /\ \A T \in SUBSET traits : T # {} => \E t \in T : TraitsOf(t, all) \cap T = {}
     /\ \A v \in project.vendor : v.fqcn \notin Framework
     /\ \A c \in emitted :
          /\ Named(all, Last(Chain(c.fqcn, all)).parent) = {}
          /\ \A d \in all : \A m \in ToSet(d.methods) :
               \A a, b \in PhpMethod(c.fqcn, m.name, all) : a = b

(* No method a test class gets from the fold sources is overridden in a    *)
(* class that is not one of them (a trait of another directory).           *)
NothingHidden(project) ==
  LET all == AllClasses(project)
      fold == FoldSources(project)
  IN \A c \in ToSet(project.root) : IsEmitted(c, all) =>
       \A d \in fold : \A m \in ToSet(d.methods) :
         PhpMethod(c.fqcn, m.name, fold) \in {{}, PhpMethod(c.fqcn, m.name, all)}

(* Does the fold see all the class descends from and uses?  Its ancestors  *)
(* are in the test directories or the vendor's, its traits in the test     *)
(* directories unless they, and those they use, have no test methods.      *)
Covered(class, project) ==
  LET all == AllClasses(project)
      root == ToSet(project.root)
      seen(c) ==
        \/ c \in root
        \/ c.kind # "trait" /\ project.psr4 /\ c \in project.vendor \ project.supplement
        \/ c.kind = "trait" /\ c.methods = <<>> /\ TraitsOf(c, all) \cap root = {}
  IN \E R \in SUBSET all :
       /\ class \in R
       /\ \A c \in R : seen(c) /\ Named(all, c.parent) \cup TraitsOf(c, all) \subseteq R
=============================================================================
