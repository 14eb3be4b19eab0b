----------------------------- MODULE Selection -----------------------------
(***************************************************************************)
(* Which of the discovered tests a run takes, and how: the filters of      *)
(* real_main in the order it applies them, the database preflight, the     *)
(* number of workers and the single-process fast path.                     *)
(*                                                                         *)
(* Options are [dirty, changed, exclude, include, filter, dbConfigured,    *)
(* skipDb, workers, explicit, provision]: changed is the set of classes in *)
(* files changed since HEAD, filter the set of tests the substring of      *)
(* --filter matches, workers the count before clamping and explicit says   *)
(* it was given on the command line.                                       *)
(***************************************************************************)
EXTENDS Discovery

CONSTANTS
  NoFilter,      \* Option::None for --filter
  CLAMP_K,       \* CLAMP_K_DEFAULT, 16 in the code
  INLINE_MAX_CASES \* 16 in the code

Id(case) == <<case.class, case.method>>

(* is_impacted: the test's class changed, or one its body refers to.       *)
IsImpacted(c, changed) == c.class \in changed \/ c.refs \cap changed # {}

Dirty(c, options) == ~options.dirty \/ IsImpacted(c, options.changed)

InGroups(c, options) ==
  /\ c.groups \cap options.exclude = {}
  /\ options.include = {} \/ c.groups \cap options.include # {}

(* Applied once, to what the other filters left.                           *)
MatchesFilter(c, options) == options.filter = NoFilter \/ Id(c) \in options.filter

Selected(found, options) ==
  {t \in TestsOf(found) : LET c == Case(found, t) IN
     Dirty(c, options) /\ InGroups(c, options) /\ MatchesFilter(c, options)}

NeedingDb(found, S) == {t \in S : Case(found, t).needsDb}

(* db_preflight on the selected tests S.                                   *)
Preflight(found, S, options) ==
  IF NeedingDb(found, S) = {} \/ options.dbConfigured \/ options.provision THEN "proceed"
  ELSE IF options.skipDb THEN "skip" ELSE "abort"

SkippedForDb(found, S, options) ==
  IF Preflight(found, S, options) = "skip" THEN NeedingDb(found, S) ELSE {}

(* Mutant: the skipped tests are also run.                                 *)
DispatchedAll(found, S, options) == S

(* The tests that go to workers: without a database, --skip-db reports the *)
(* others as skipped.                                                      *)
Dispatched(found, S, options) == S \ SkippedForDb(found, S, options)

(* clamp_php_workers; in a suite that is provisioned or functional it      *)
(* takes twice the cases to pay for a worker.                              *)
ClampWorkers(found, S, options) ==
  LET costly == options.provision \/ \E t \in S : Case(found, t).functional
      k == IF costly THEN 2 * CLAMP_K ELSE CLAMP_K
      bySize == (Cardinality(S) + k - 1) \div k
      least(a, b) == IF a < b THEN a ELSE b
      atLeastOne(n) == IF n = 0 THEN 1 ELSE n
  IN atLeastOne(IF options.explicit THEN options.workers
                ELSE least(options.workers, atLeastOne(bySize)))

(* single_process_eligible.                                                *)
SingleProcess(workers, found, S) ==
  /\ workers = 1
  /\ Cardinality(S) <= INLINE_MAX_CASES
  /\ \A t \in S : LET c == Case(found, t) IN ~c.stateful /\ ~c.isolated /\ ~c.needsDb
=============================================================================
