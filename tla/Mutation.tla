------------------------------ MODULE Mutation ------------------------------
(***************************************************************************)
(* How --mutate finds the status of every planned mutant: a warm PHP       *)
(* master forks one child per mutant (run_via_fork_master with             *)
(* php/mutation_run.php), and when that is not possible, or the master     *)
(* fails, one PHP process per mutant is run from scratch (run_one).        *)
(* What a mutant does when its covering tests run is part of the mutant.   *)
(***************************************************************************)
EXTENDS Naturals, FiniteSets

CONSTANTS
  Planned, \* the planned mutants
  Workers  \* children, or processes, at once

ASSUME WorkersAssumption == Workers \in Nat \ {0}

Nature == { "uncovered", \* no test covers the line
            "unusable",  \* its file cannot be read, or the span is bad
            "caught",    \* a covering test fails
            "survives",  \* all covering tests pass
            "skips",     \* none fails, but some are skipped or incomplete
            "hangs",     \* the tests never end
            "dies",      \* the process crashes in the middle of the tests
            "exits" }    \* the code under test calls exit(0)

Status == {"none", "notcovered", "killed", "escaped", "timeout"}

VARIABLES
  nature,   \* of every mutant
  phase,    \* "start", "forking", "fallback" or "done"
  jobs,     \* the jobs not forked yet
  child,    \* of every mutant: "none", "running", "wrote", "gone", "reaped"
  verdict,  \* what the mutant's results file says, "none" when it is missing
  process,  \* the processes of the fallback
  status,   \* of every mutant, as reported
  refused,  \* the mutants for which a write, a fork, a spawn or a wait failed
  fellBack  \* the fork master gave no result

vars == <<nature, phase, jobs, child, verdict, process, status, refused, fellBack>>

Runnable(m) == nature[m] \notin {"uncovered", "unusable"}
InFlight == {m \in Planned : child[m] \in {"running", "wrote", "gone"}}
Alive == {m \in Planned : child[m] \in {"running", "wrote"}}

Init ==
  /\ nature \in [Planned -> Nature]
  /\ phase = "start"
  /\ jobs = {}
  /\ child = [m \in Planned |-> "none"]
  /\ verdict = [m \in Planned |-> "none"]
  /\ process = {}
  /\ status = [m \in Planned |-> "none"]
  /\ refused = {}
  /\ fellBack = FALSE

(* What the tests of a child that runs to its end say: escaped, unless one *)
(* fails.                                                                  *)
Judgement(m) == IF nature[m] = "caught" THEN "killed" ELSE "escaped"

(* What the exit status of a process says: 0 is taken for success.  What   *)
(* PHPUnit exits with after skipped tests is a matter of its settings.     *)
ExitJudgements(m) ==
  CASE nature[m] \in {"survives", "exits"} -> {"escaped"}
    [] nature[m] = "skips" -> {"escaped", "killed"}
    [] OTHER -> {"killed"}

----------------------------------------------------------------------------
(* The master is launched with one job for each mutant that can be run and *)
(* whose overlay could be written ...                                      *)
Launch ==
  /\ phase = "start"
  /\ phase' = "forking"
  /\ refused' \in SUBSET {m \in Planned : Runnable(m)}
  /\ jobs' = {m \in Planned : Runnable(m)} \ refused'
  /\ UNCHANGED <<nature, child, verdict, process, status, fellBack>>

(* ... or cannot be, or fails later: its children live on, but the         *)
(* temporary directory of the verdicts is removed.                         *)
FallBack ==
  /\ phase \in {"start", "forking"}
  /\ phase' = "fallback"
  /\ fellBack' = TRUE
  /\ jobs' = {} /\ refused' = {}
  /\ verdict' = [m \in Planned |-> "none"]
  /\ UNCHANGED <<nature, child, process, status>>

(* A child writes its file, if the directory is still there.               *)
File(m, v) == verdict' = IF fellBack THEN verdict ELSE [verdict EXCEPT ![m] = v]

(* Mutant: one child too many.                                             *)
RoomForOneMore == Cardinality(InFlight) <= Workers

Room == Cardinality(InFlight) < Workers

(* A fork, or a failed one, which counts as a kill.                        *)
Fork(m) ==
  /\ phase = "forking" /\ m \in jobs /\ Room
  /\ jobs' = jobs \ {m}
  /\ \/ child' = [child EXCEPT ![m] = "running"] /\ UNCHANGED <<verdict, refused>>
     \/ /\ verdict' = [verdict EXCEPT ![m] = "killed"]
        /\ refused' = refused \cup {m}
        /\ UNCHANGED child
  /\ UNCHANGED <<nature, phase, process, status, fellBack>>

(* Mutant: whoever is reaped was killed.                                   *)
ReapedKilled(m) == "killed"

(* A child that left no file is a kill.                                    *)
ReapedVerdict(m) == IF verdict[m] = "none" THEN "killed" ELSE verdict[m]

(* reapOne: one that has exited, when there is no room or no job left.     *)
Reap(m) ==
  /\ phase = "forking" /\ (~Room \/ jobs = {})
  /\ child[m] = "gone"
  /\ child' = [child EXCEPT ![m] = "reaped"]
  /\ verdict' = [verdict EXCEPT ![m] = ReapedVerdict(m)]
  /\ UNCHANGED <<nature, phase, jobs, process, status, refused, fellBack>>

----------------------------------------------------------------------------
(* The child: its tests end and it writes what they say.                   *)
Write(m) ==
  /\ child[m] = "running" /\ nature[m] \in {"caught", "survives", "skips"}
  /\ File(m, Judgement(m))
  /\ child' = [child EXCEPT ![m] = "wrote"]
  /\ UNCHANGED <<nature, phase, jobs, process, status, refused, fellBack>>

(* It exits; if the code under test made it exit, without a verdict.       *)
Exit(m) ==
  /\ child[m] = "wrote" \/ (child[m] = "running" /\ nature[m] \in {"dies", "exits"})
  /\ child' = [child EXCEPT ![m] = "gone"]
  /\ UNCHANGED <<nature, phase, jobs, verdict, process, status, refused, fellBack>>

(* Mutant: the alarm is never set.                                         *)
Unarmed(m) == FALSE

(* The alarm is set before the tests and not cleared after them.           *)
Armed(m) == child[m] \in {"running", "wrote"}

(* The SIGALRM handler: it writes over any verdict, and exits.             *)
Alarm(m) ==
  /\ Armed(m)
  /\ File(m, "timeout")
  /\ child' = [child EXCEPT ![m] = "gone"]
  /\ UNCHANGED <<nature, phase, jobs, process, status, refused, fellBack>>

----------------------------------------------------------------------------
(* Mutant: a missing file is no sign of a kill.                            *)
ReadMissingEscaped(m) ==
  IF nature[m] = "uncovered" THEN "notcovered"
  ELSE IF verdict[m] = "none" THEN "escaped" ELSE verdict[m]

(* The status of a mutant whose results file says verdict[m].              *)
Read(m) ==
  IF nature[m] = "uncovered" THEN "notcovered"
  ELSE IF verdict[m] \in {"escaped", "timeout"} THEN verdict[m] ELSE "killed"

AllReaped == jobs = {} /\ InFlight = {}

(* The master exits and its results are read.                              *)
ReadBack ==
  /\ phase = "forking" /\ AllReaped
  /\ phase' = "done"
  /\ status' = [m \in Planned |-> Read(m)]
  /\ UNCHANGED <<nature, jobs, child, verdict, process, refused, fellBack>>

----------------------------------------------------------------------------
(* run_one: what needs no process, and a process that cannot be started.   *)
Settle(m, s) == status' = [status EXCEPT ![m] = s]

Dismiss(m) ==
  /\ phase = "fallback" /\ status[m] = "none" /\ m \notin process
  /\ Cardinality(process) < Workers
  /\ \/ nature[m] = "uncovered" /\ Settle(m, "notcovered") /\ UNCHANGED refused
     \/ nature[m] = "unusable" /\ Settle(m, "killed") /\ UNCHANGED refused
     \/ Runnable(m) /\ Settle(m, "killed") /\ refused' = refused \cup {m}
  /\ UNCHANGED <<nature, phase, jobs, child, verdict, process, fellBack>>

Start(m) ==
  /\ phase = "fallback" /\ status[m] = "none" /\ m \notin process
  /\ Cardinality(process) < Workers
  /\ Runnable(m)
  /\ process' = process \cup {m}
  /\ UNCHANGED <<nature, phase, jobs, child, verdict, status, refused, fellBack>>

(* Exit status 0 or not, the timeout and a kill, or a wait that fails.     *)
End(m) ==
  /\ m \in process
  /\ process' = process \ {m}
  /\ \/ /\ nature[m] # "hangs" /\ \E s \in ExitJudgements(m) : Settle(m, s)
        /\ UNCHANGED refused
     \/ Settle(m, "timeout") /\ UNCHANGED refused
     \/ Settle(m, "killed") /\ refused' = refused \cup {m}
  /\ UNCHANGED <<nature, phase, jobs, child, verdict, fellBack>>

(* Mutant: the results are collected as soon as no process runs.           *)
NoneRunning == process = {}

AllSettled == \A m \in Planned : status[m] # "none"

Collect ==
  /\ phase = "fallback" /\ AllSettled
  /\ phase' = "done"
  /\ UNCHANGED <<nature, jobs, child, verdict, process, status, refused, fellBack>>

Over == phase = "done" /\ Alive = {} /\ UNCHANGED vars

ParentStep == Launch \/ ReadBack \/ Collect \/ \E m \in Planned : Fork(m) \/ Reap(m)
ChildStep(m) == Write(m) \/ Exit(m) \/ Alarm(m)
ProcessStep(m) == Dismiss(m) \/ Start(m) \/ End(m)

Next == ParentStep \/ FallBack \/ (\E m \in Planned : ChildStep(m) \/ ProcessStep(m)) \/ Over

(* The parent and every process go on; an armed alarm goes off.            *)
Fairness ==
  WF_vars(ParentStep) /\ \A m \in Planned : WF_vars(ChildStep(m)) /\ WF_vars(ProcessStep(m))

Spec == Init /\ [][Next]_vars /\ Fairness

----------------------------------------------------------------------------
TypeOK ==
  /\ nature \in [Planned -> Nature]
  /\ phase \in {"start", "forking", "fallback", "done"}
  /\ jobs \subseteq {m \in Planned : child[m] = "none" /\ verdict[m] = "none"}
  /\ child \in [Planned -> {"none", "running", "wrote", "gone", "reaped"}]
  /\ verdict \in [Planned -> {"none", "killed", "escaped", "timeout"}]
  /\ process \subseteq {m \in Planned : Runnable(m) /\ status[m] = "none"}
  /\ status \in [Planned -> Status]
  /\ phase = "done" => \A m \in Planned : status[m] # "none"
  /\ refused \subseteq Planned /\ fellBack \in BOOLEAN

(* The statuses are earned: a mutant escapes only if none of its tests     *)
(* failed (they need not all have passed), or, in the fallback alone, if   *)
(* the code under test called exit(0); it is killed only if a test failed, *)
(* the process died, there was none, or, in the fallback alone, tests were *)
(* skipped.                                                                *)
StatusesEarned ==
  \A m \in Planned :
    /\ status[m] = "escaped" =>
         nature[m] \in {"survives", "skips"} \/ (fellBack /\ nature[m] = "exits")
    /\ status[m] = "killed" =>
         \/ nature[m] \in {"caught", "dies", "exits", "unusable"} \/ m \in refused
         \/ fellBack /\ nature[m] = "skips"
    /\ status[m] = "timeout" => Runnable(m)

(* A verdict on file is final, but for the alarm of a child that has not   *)
(* exited yet: the parent never writes over what a child wrote.            *)
VerdictsKept ==
  [][\A m \in Planned : ~fellBack' /\ verdict[m] # "none" /\ verdict'[m] # verdict[m] =>
       verdict'[m] = "timeout" /\ child[m] = "wrote"]_vars

(* No more children than workers, and none left once the results are read, *)
(* unless the master failed.                                               *)
ChildrenBounded ==
  Cardinality(Alive) <= IF phase = "done" /\ ~fellBack THEN 0 ELSE Workers

(* Every mutant gets its status, also when tests hang.                     *)
Termination == <>(phase = "done")
=============================================================================
