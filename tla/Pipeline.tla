------------------------------ MODULE Pipeline ------------------------------
(***************************************************************************)
(* A whole run, from the parsed project to the report: discovery,          *)
(* selection, planning, the workers executing plans class by class, lost   *)
(* workers and lost masters, and main's respawn loop.  Pipes and signals   *)
(* are abstracted away (Runner.tla has them): a plan is with the queue, or *)
(* with a slot, or lost.  All rows of a class are reported at once.        *)
(***************************************************************************)
EXTENDS Selection, Planning, Execution, Integers

CONSTANTS
  Scenarios,       \* by key: [project, options, workerDeaths, masterDeaths]
  MaxSlots         \* bound on the number of workers

Slot == 1 .. MaxSlots

(* What the start-up code computes from the project and the options.       *)
FoundIn == [n \in DOMAIN Scenarios |-> DiscoverCases(Scenarios[n].project)]
ChosenIn ==
  [n \in DOMAIN Scenarios |->
     LET opts == Scenarios[n].options
     IN Dispatched(FoundIn[n], Selected(FoundIn[n], opts), opts)]

AllTests == UNION {TestsOf(FoundIn[n]) : n \in DOMAIN Scenarios}

ASSUME BoundsAssumption ==
  /\ MaxSlots \in Nat \ {0} /\ CLAMP_K \in Nat \ {0} /\ INLINE_MAX_CASES \in Nat
  /\ \A n \in DOMAIN Scenarios :
       /\ Scenarios[n].options.workers \in Nat
       /\ Scenarios[n].workerDeaths \in Nat /\ Scenarios[n].masterDeaths \in Nat

(* PHP can load the projects, and no class that discovery does not fold    *)
(* from overrides one it does.  A method without a data provider has one   *)
(* data set.                                                               *)
ASSUME ProjectAssumption ==
  \A n \in DOMAIN Scenarios :
    LET proj == Scenarios[n].project
    IN /\ Loadable(proj) /\ NothingHidden(proj)
       /\ \A c \in AllClasses(proj) : \A m \in ToSet(c.methods) :
            /\ m.name \in STRING /\ m.depends \in Seq(STRING)
            /\ m.provider \in {"none", "rows", "throws"}
            /\ m.rows \in Seq(Seq(Status)) /\ (m.provider = "none" => Len(m.rows) = 1)

VARIABLES
  scenario,   \* the key of one of the scenarios
  phase,      \* "start", "planning", "running", "returned", "reported", "refused", "failed"
  pending,    \* the tests of the current call of run_resumable
  inline,     \* single_process
  queue,      \* plans not dispatched
  slot,       \* per slot: [state, plan, left, stained]
  received,   \* ReceivedOutcomes of the current call
  attempts,   \* deaths of a test in the current call
  masterDied, \* the PHP master is gone
  lost,       \* a plan went down with its worker, unannounced
  unfinished, \* what the last call handed back
  respawns,   \* master_respawns
  report,     \* the rows reported for each test, in order
  starts,     \* how often a test was dispatched in this call and in all
  hookCalls,  \* how often setUpBeforeClass was called for each class
  deaths      \* [worker, master]: how many died

callVars == <<queue, slot, received, attempts, masterDied, lost>>
vars == <<scenario, phase, pending, inline, callVars, unfinished, respawns,
          report, starts, hookCalls, deaths>>

project == Scenarios[scenario].project
options == Scenarios[scenario].options
Found == FoundIn[scenario]
Chosen == ChosenIn[scenario]

MAX_ATTEMPTS == 2
MAX_MASTER_RESPAWNS == 3

NoPlan == [classes |-> {}, force |-> FALSE]
Absent == [state |-> "absent", plan |-> NoPlan, left |-> {}, stained |-> FALSE]
Fresh == [Absent EXCEPT !.state = "idle"]

Skips == SkippedForDb(Found, Selected(Found, options), options)
Workers == ClampWorkers(Found, Chosen, options)

Init ==
  /\ scenario \in DOMAIN Scenarios
  /\ phase = "start"
  /\ pending = {} /\ unfinished = {}
  /\ inline = FALSE
  /\ queue = {} /\ slot = [s \in Slot |-> Absent]
  /\ received = {} /\ attempts = [t \in AllTests |-> 0]
  /\ masterDied = FALSE /\ lost = FALSE
  /\ respawns = 0
  /\ report = [t \in AllTests |-> <<>>]
  /\ starts = [t \in AllTests |-> [call |-> 0, all |-> 0]]
  /\ hookCalls = [k \in {t[1] : t \in AllTests} |-> 0]
  /\ deaths = [worker |-> 0, master |-> 0]

(* Rows are appended to the report.                                        *)
Reporting(rows) ==
  report' = [t \in AllTests |-> IF t \in DOMAIN rows THEN report[t] \o rows[t] ELSE report[t]]

(* An Error no worker reported: a poison pill, or one given up.            *)
Errors(tests) == [t \in tests |-> <<"synthError">>]

----------------------------------------------------------------------------
(* Discovery, selection, preflight, the choice of the worker count and of  *)
(* the inline mode; the first master is spawned.                           *)
Launch ==
  /\ phase = "start"
  /\ IF Preflight(Found, Selected(Found, options), options) = "abort"
     THEN phase' = "refused" /\ UNCHANGED <<pending, inline>>
     ELSE /\ phase' = "planning"
          /\ pending' = Chosen
          /\ inline' = SingleProcess(Workers, Found, Chosen)
  /\ UNCHANGED <<scenario, callVars, unfinished, respawns, report, starts, hookCalls, deaths>>

(* run_resumable begins: the queue is built, its bookkeeping starts from   *)
(* nothing, the tautological cases are reported.                           *)
Plan ==
  /\ phase = "planning"
  /\ phase' = "running"
  /\ queue' = BuildQueue(Found, pending, Workers)
  /\ slot' = [s \in Slot |-> IF s <= Workers THEN Fresh ELSE Absent]
  /\ received' = Synthetic(Found, pending)
  /\ Reporting([t \in received' |-> <<"pass">>])
  /\ attempts' = [t \in AllTests |-> 0]
  /\ masterDied' = FALSE /\ lost' = FALSE
  /\ UNCHANGED <<scenario, pending, inline, unfinished, respawns, starts, hookCalls, deaths>>

(* A waiting plan goes to a worker that has nothing to do.                 *)
Dispatch(s) ==
  /\ phase = "running"
  /\ slot[s].state = "idle"
  /\ \E p \in queue :
       /\ queue' = queue \ {p}
       /\ slot' = [slot EXCEPT ![s] = [@ EXCEPT !.state = "busy", !.plan = p, !.left = p.classes]]
       /\ starts' = [t \in AllTests |->
            IF t \in PlanTests(p) THEN [call |-> starts[t].call + 1, all |-> starts[t].all + 1]
            ELSE starts[t]]
  /\ UNCHANGED <<scenario, phase, pending, inline, received, attempts, masterDied, lost,
                 unfinished, respawns, report, hookCalls, deaths>>

(* The class of a plan a worker runs next, and the rows it reports for it. *)
Following(left) == CHOOSE b \in left : b.class = Foremost({c.class : c \in left}, pending)

Rows(k, methods) ==
  LET names == [j \in methods |-> Found[k][j].method]
      run == RunClass(project, project.root[k].fqcn, names)
  IN [t \in {k} \X {j \in methods : names[j] \in DOMAIN run} |-> run[names[t[2]]]]

(* A worker runs the next class of its plan and reports it.  Code of a     *)
(* stateful or isolated class leaves its mark on the process.              *)
Ran(s) ==
  /\ slot[s].state = "busy" /\ slot[s].left # {}
  /\ LET batch == Following(slot[s].left)
         marks == \E t \in pending : /\ t[1] = batch.class
                                     /\ Case(Found, t).stateful \/ Case(Found, t).isolated
     IN slot' = [slot EXCEPT ![s].left = @ \ {batch}, ![s].stained = @ \/ marks]

RunNext(s) ==
  /\ Ran(s)
  /\ LET batch == Following(slot[s].left)
         rows == Rows(batch.class, batch.methods)
     IN /\ Reporting(rows)
        /\ received' = received \cup DOMAIN rows
        /\ hookCalls' = IF CallsHooks(project, project.root[batch.class].fqcn)
                        THEN [hookCalls EXCEPT ![batch.class] = @ + 1] ELSE hookCalls
  /\ UNCHANGED <<scenario, phase, pending, inline, queue, attempts, masterDied, lost,
                 unfinished, respawns, starts, deaths>>

(* The worker says batch_done.  After a plan that forces it to exit it     *)
(* does, unless it is the master itself; a living master forks another.    *)
FinishPlan(s) ==
  /\ slot[s].state = "busy" /\ slot[s].left = {}
  /\ slot' = [slot EXCEPT ![s] =
       CASE inline \/ ~slot[s].plan.force -> [@ EXCEPT !.state = "idle", !.plan = NoPlan]
         [] ~inline /\ slot[s].plan.force /\ masterDied  -> Absent
         [] ~inline /\ slot[s].plan.force /\ ~masterDied -> Fresh]
  /\ UNCHANGED <<scenario, phase, pending, inline, queue, received, attempts, masterDied, lost,
                 unfinished, respawns, report, starts, hookCalls, deaths>>

----------------------------------------------------------------------------
(* The tests of a plan nothing was received for, and the first of them.    *)
Unrun(plan) == PlanTests(plan) \ received

Suspect(unrun) ==
  LET k == Foremost({t[1] : t \in unrun}, pending)
  IN <<k, Min({j \in DOMAIN Found[k] : <<k, j>> \in unrun})>>

(* The plan cut down to some of its tests, and whether it forces an exit.  *)
Restricted(plan, tests, force) ==
  LET cut(b) == [b EXCEPT !.methods = {j \in @ : <<b.class, j>> \in tests}]
  IN [classes |-> {c \in {cut(b) : b \in plan.classes} : c.methods # {}}, force |-> force]

(* Mutant: what reached the cap is queued again too.                       *)
RequeuedAlways(plan, unrun) ==
  {q \in {Restricted(plan, {Suspect(unrun)}, TRUE),
          Restricted(plan, unrun \ {Suspect(unrun)}, FALSE)} : q.classes # {}}

(* requeue_unrun: the first of them alone, in a plan that ends its worker; *)
(* the rest together in one that does not.  What reaches the cap is not    *)
(* queued again.                                                           *)
RequeuedPlans(plan, unrun) ==
  LET retried == {t \in unrun : attempts[t] + 1 < MAX_ATTEMPTS}
  IN {q \in {Restricted(plan, retried \cap {Suspect(unrun)}, TRUE),
             Restricted(plan, retried \ {Suspect(unrun)}, FALSE)} : q.classes # {}}

(* A worker dies in the middle of a plan.  The master announces it, and    *)
(* run_resumable queues what was not reported again, or reports it as an   *)
(* Error; the slot gets a new worker.                                      *)
WorkerDies(s) ==
  /\ slot[s].state = "busy" /\ slot[s].left # {}
  /\ ~inline /\ ~masterDied
  /\ deaths.worker < Scenarios[scenario].workerDeaths
  /\ deaths' = [deaths EXCEPT !.worker = @ + 1]
  /\ LET unrun == Unrun(slot[s].plan)
         poisoned == {t \in unrun : attempts[t] + 1 >= MAX_ATTEMPTS}
     IN /\ queue' = queue \cup RequeuedPlans(slot[s].plan, unrun)
        /\ Reporting(Errors(poisoned))
        /\ received' = received \cup poisoned
        /\ attempts' = [t \in AllTests |-> IF t \in unrun \ poisoned
                                         THEN attempts[t] + 1 ELSE attempts[t]]
  /\ slot' = [slot EXCEPT ![s] = Fresh]
  /\ UNCHANGED <<scenario, phase, pending, inline, masterDied, lost, unfinished, respawns,
                 starts, hookCalls>>

(* The master dies; in inline mode the only worker with it.                *)
MasterDies ==
  /\ phase = "running" /\ ~masterDied
  /\ deaths.master < Scenarios[scenario].masterDeaths
  /\ deaths' = [deaths EXCEPT !.master = @ + 1]
  /\ masterDied' = TRUE
  /\ slot' = IF inline THEN [s \in Slot |-> Absent] ELSE slot
  /\ lost' = (inline /\ \E s \in Slot : slot[s].state = "busy")
  /\ UNCHANGED <<scenario, phase, pending, inline, queue, received, attempts, unfinished,
                 respawns, report, starts, hookCalls>>

(* A worker that outlived the master ends, idle or with its plan: nobody   *)
(* announces it.                                                           *)
OrphanDies(s) ==
  /\ phase = "running" /\ masterDied
  /\ slot[s].state \in {"idle", "busy"}
  /\ lost' = (lost \/ slot[s].state = "busy")
  /\ slot' = [slot EXCEPT ![s] = Absent]
  /\ UNCHANGED <<scenario, phase, pending, inline, queue, received, attempts, masterDied,
                 unfinished, respawns, report, starts, hookCalls, deaths>>

(* A plan is written to the pipe of a slot whose worker is gone.           *)
LosePlan ==
  /\ phase = "running" /\ masterDied
  /\ \E s \in 1 .. Workers : slot[s].state = "absent"
  /\ \E p \in queue : queue' = queue \ {p}
  /\ lost' = TRUE
  /\ UNCHANGED <<scenario, phase, pending, inline, slot, received, attempts, masterDied,
                 unfinished, respawns, report, starts, hookCalls, deaths>>

----------------------------------------------------------------------------
(* Mutant: everything the call was given is handed back.                   *)
HandedBackAll == pending

(* With its master dead and plans left, run_resumable hands back the tests *)
(* nothing was received for.                                               *)
HandedBack ==
  IF masterDied /\ (lost \/ queue # {}) THEN pending \ received ELSE {}

(* Mutant: the call waits for the queue to drain, whoever is left to.      *)
DoneWhenDrained == queue = {} /\ \A s \in Slot : slot[s].state # "busy"

(* Nothing runs, and nothing is queued or no worker is left.               *)
Done ==
  /\ \A s \in Slot : slot[s].state # "busy"
  /\ queue = {} \/ \A s \in Slot : slot[s].state = "absent"

(* run_resumable returns.                                                  *)
Return ==
  /\ phase = "running" /\ Done
  /\ phase' = "returned"
  /\ unfinished' = HandedBack
  /\ slot' = [s \in Slot |-> Absent]
  /\ queue' = {}
  /\ UNCHANGED <<scenario, pending, inline, received, attempts, masterDied, lost, respawns,
                 report, starts, hookCalls, deaths>>

(* The respawn loop of real_main: a fresh master for what is unfinished,   *)
(* whose call of run_resumable counts attempts from zero.                  *)
Respawn ==
  /\ phase = "returned" /\ unfinished # {} /\ respawns < MAX_MASTER_RESPAWNS
  /\ respawns' = respawns + 1
  /\ pending' = unfinished
  /\ unfinished' = {}
  /\ phase' \in {"planning", "failed"}
  /\ starts' = [t \in AllTests |-> [starts[t] EXCEPT !.call = 0]]
  /\ UNCHANGED <<scenario, inline, callVars, report, hookCalls, deaths>>

GiveUp ==
  /\ phase = "returned" /\ unfinished # {} /\ respawns >= MAX_MASTER_RESPAWNS
  /\ respawns' = respawns + 1
  /\ Reporting(Errors(unfinished))
  /\ unfinished' = {}
  /\ UNCHANGED <<scenario, phase, pending, inline, callVars, starts, hookCalls, deaths>>

(* The loop is over; the tests skipped for want of a database are added.   *)
Report ==
  /\ phase = "returned" /\ unfinished = {}
  /\ phase' = "reported"
  /\ Reporting([t \in Skips |-> <<"skipped">>])
  /\ UNCHANGED <<scenario, pending, inline, callVars, unfinished, respawns, starts, hookCalls, deaths>>

Over == phase \in {"reported", "refused", "failed"} /\ UNCHANGED vars

LoopStep == Return \/ Respawn \/ GiveUp \/ Report

WorkerStep(s) == Dispatch(s) \/ RunNext(s) \/ FinishPlan(s)

Failure == MasterDies \/ LosePlan \/ \E s \in Slot : WorkerDies(s) \/ OrphanDies(s)

Next == Launch \/ Plan \/ LoopStep \/ (\E s \in Slot : WorkerStep(s)) \/ Failure \/ Over

(* A step that satisfies Prepared is a Launch or a Plan step, and one that *)
(* satisfies Ran a RunNext step: said this way, TLC need not compute what  *)
(* they compute to see that they can be taken.                             *)
Prepared ==
  \/ phase = "start" /\ phase' \in {"planning", "refused"}
  \/ phase = "planning" /\ phase' = "running"

(* The dispatcher and the workers go on; nothing has to fail.              *)
Fairness ==
  /\ WF_phase(Prepared)
  /\ WF_slot(\E s \in Slot : Ran(s))
  /\ WF_vars(LoopStep \/ \E s \in Slot : Dispatch(s) \/ FinishPlan(s))

Spec == Init /\ [][Next]_vars /\ Fairness
=============================================================================
