----------------------------- MODULE MCPipeline -----------------------------
(* Instances of Parity for TLC: the projects and options it runs.          *)
EXTENDS Parity

CONSTANT Unfiltered

NoClassName == "none"
FrameworkNames == {"TestCase"}
TestBaseNames == {"TestCase", "BaseTestCase"}

pass == <<"pass", "pass", "pass", "pass">>
fail == <<"pass", "fail", "pass", "error">>
late == <<"pass", "pass", "pass", "error">>

(* A plain method that passes, and a plain class.                          *)
Method(name, depends) ==
  [ name |-> name, stmts |-> <<"comment", "other">>, provider |-> "none", depends |-> depends,
    groups |-> {}, refs |-> {}, rows |-> <<pass>>, unmet |-> FALSE ]
Provided(name, depends, rows) ==
  [Method(name, depends) EXCEPT !.provider = "rows", !.rows = rows]
Trivial(name) == [Method(name, <<>>) EXCEPT !.stmts = <<"trivial">>]
Class(name, methods) ==
  [ fqcn |-> name, parent |-> "TestCase", kind |-> "class", uses |-> <<>>, methods |-> methods,
    groups |-> {}, hooks |-> FALSE, stateful |-> FALSE, isolated |-> FALSE, needsDb |-> FALSE,
    functional |-> FALSE, hookFails |-> FALSE, unmet |-> FALSE ]

Project(classes) == [root |-> classes, supplement |-> {}, vendor |-> {}, psr4 |-> TRUE]

Defaults ==
  [ dirty |-> FALSE, changed |-> {}, exclude |-> {}, include |-> {}, filter |-> Unfiltered,
    dbConfigured |-> FALSE, skipDb |-> FALSE, workers |-> 2, explicit |-> TRUE, provision |-> FALSE ]

Calm(proj, opts) == [project |-> proj, options |-> opts, workerDeaths |-> 0, masterDeaths |-> 0]
Deadly(proj, opts, w, m) ==
  [project |-> proj, options |-> opts, workerDeaths |-> w, masterDeaths |-> m]

----------------------------------------------------------------------------
(* Every dependency graph over three methods of a class, one of which      *)
(* fails; loops and a dependency on a method that is not there included.   *)
Targets == {<<>>, <<"a">>, <<"b">>, <<"a", "b">>, <<"c", "z">>}
GraphScenarios ==
  [k \in {"graph"} \X Targets \X Targets \X Targets |->
    Calm(Project(<<Class("A", << [Method("c", k[2]) EXCEPT !.rows = <<late>>],
                                 Method("a", k[3]), Method("b", k[4]) >>)>>), Defaults)]

(* A class with every combination of flags, with a plain method, a data    *)
(* provider that may depend on it and a tautological method, next to a     *)
(* class that is stateful or not; in a pool, or inline where it can be.    *)
Flagged(d, h, st, is, sb) ==
  Project(<< [Class("A", <<Provided("c", d, <<fail, pass>>), Method("a", <<>>), Trivial("b")>>)
                EXCEPT !.hooks = h, !.stateful = st, !.isolated = is, !.hookFails = h],
             [Class("B", <<Method("b", <<>>)>>) EXCEPT !.stateful = sb] >>)
FlagScenarios ==
  [k \in {"flags"} \X {<<>>, <<"a">>} \X BOOLEAN \X BOOLEAN \X BOOLEAN \X BOOLEAN
        \X {<<1, 0>>, <<2, 0>>, <<1, 1>>} |->
    Deadly(Flagged(k[2], k[3], k[4], k[5], k[6]), [Defaults EXCEPT !.workers = k[7][1]], k[7][2], 0)]

----------------------------------------------------------------------------
(* Methods from an abstract parent, traits (one used by the other) and     *)
(* vendor bases, with overrides, and a vendor trait without test methods;  *)
(* all in the test directories, or bases and traits in autoload-dev ones.  *)
Base == [Class("BaseTestCase", <<Method("a", <<>>), [Method("g", <<"a">>) EXCEPT !.groups = {"slow"}]>>)
           EXCEPT !.kind = "abstract", !.stateful = TRUE, !.hooks = TRUE]
Outer == [Class("Outer", <<Method("t", <<>>), Method("a", <<"u">>)>>)
            EXCEPT !.kind = "trait", !.parent = "none", !.uses = <<"Inner">>]
Inner == [Class("Inner", <<Method("u", <<>>), Trivial("t")>>)
            EXCEPT !.kind = "trait", !.parent = "none", !.needsDb = TRUE]
Child == [Class("Child", <<Trivial("b"), Method("t", <<"u">>)>>)
            EXCEPT !.parent = "BaseTestCase", !.uses = <<"Outer">>]
Shipped == [Class("Shipped", <<Method("v", <<>>)>>) EXCEPT !.kind = "abstract", !.parent = "Origin"]
Origin == Class("Origin", <<Method("v", <<"w">>), Method("w", <<>>)>>)
Packaged == [Class("Packaged", <<[Method("b", <<"v">>) EXCEPT !.refs = {"Helper"}]>>)
               EXCEPT !.parent = "Shipped", !.uses = <<"Mocking">>]
Mocking == [Class("Mocking", <<>>) EXCEPT !.kind = "trait", !.parent = "none"]
Helper == [Class("Helper", <<Method("h", <<>>)>>) EXCEPT !.parent = "none"]
Looping == [Class("Looping", <<Method("h", <<>>)>>) EXCEPT !.parent = "Looping"]

Inheriting == [ root |-> <<Base, Outer, Inner, Child, Packaged, Helper, Looping>>, supplement |-> {},
                vendor |-> {Shipped, Origin, Mocking}, psr4 |-> TRUE ]
Split == [Inheriting EXCEPT !.root = <<Child, Packaged>>, !.supplement = {Base, Outer, Inner}]

SelectScenarios ==
  LET projects == <<Inheriting, Split, [Split EXCEPT !.psr4 = FALSE]>>
      choices == << Defaults,
                    [Defaults EXCEPT !.dirty = TRUE, !.changed = {"Helper"}],
                    [Defaults EXCEPT !.exclude = {"slow"}, !.explicit = FALSE],
                    [Defaults EXCEPT !.include = {"slow"}, !.provision = TRUE],
                    [Defaults EXCEPT !.filter =
                       {<<"Packaged", "b">>, <<"Child", "u">>, <<"Child", "b">>}] >>
  IN [k \in {"select"} \X (DOMAIN projects) \X (DOMAIN choices) \X BOOLEAN \X BOOLEAN |->
       Calm(projects[k[2]], [choices[k[3]] EXCEPT !.skipDb = k[4], !.dbConfigured = k[5]])]

----------------------------------------------------------------------------
(* Two classes, a dependency and two data sets: workers and masters die.   *)
Mortal ==
  Project(<< [Class("A", <<Method("b", <<"a">>), Provided("a", <<>>, <<fail, pass>>)>>) EXCEPT !.hooks = TRUE],
             Class("B", <<Method("a", <<>>), Method("b", <<>>)>>) >>)
Tiny == Project(<<Class("A", <<Method("a", <<>>), Method("b", <<>>)>>)>>)
DeathScenarios ==
  LET deadly == << Deadly(Mortal, Defaults, 1, 1), Deadly(Mortal, [Defaults EXCEPT !.workers = 1], 1, 2),
                   Deadly(Tiny, Defaults, 2, 1), Deadly(Tiny, [Defaults EXCEPT !.workers = 1], 0, 4) >>
  IN [k \in {"deaths"} \X (DOMAIN deadly) |-> deadly[k[2]]]

(* Enough methods for one worker to fill bins: a class that fills a plan,  *)
(* small ones that share one, some of them stateful.                       *)
Small(name, st) == [Class(name, <<Method("a", <<>>)>>) EXCEPT !.hooks = TRUE, !.stateful = st]
Binned(sc, u) ==
  Project(<< Small("B", FALSE), Small("C", sc), Small("D", FALSE),
             [Class("A", << Provided("a", <<>>, <<>>), [Method("b", <<"a">>) EXCEPT !.unmet = TRUE],
                            [Method("c", <<>>) EXCEPT !.provider = "throws"], Method("d", <<"b">>),
                            Method("e", <<"c">>) >>) EXCEPT !.unmet = u] >>)
BinScenarios ==
  [k \in {"bins"} \X BOOLEAN \X BOOLEAN |-> Calm(Binned(k[2], k[3]), [Defaults EXCEPT !.workers = 1])]

AllScenarios ==
  LET planned == GraphScenarios @@ FlagScenarios @@ BinScenarios
      cut == SelectScenarios @@ DeathScenarios
  IN planned @@ cut

(* A test class whose parent is in an autoload-dev directory.              *)
SplitScenarios == GraphScenarios @@ (<<"split">> :> Calm(Split, Defaults))

(* A test that depends on a tautological one.                              *)
Dependent == Class("A", <<Trivial("a"), Method("b", <<"a">>)>>)
CutScenarios == GraphScenarios @@ (<<"cut">> :> Calm(Project(<<Dependent>>), Defaults))
=============================================================================
