----------------------------- MODULE WorkerFork -----------------------------
(***************************************************************************)
(* worker_fork.php: the PHP master that forks one worker per slot, notices *)
(* their deaths through SIGCHLD and forks replacements, and the worker     *)
(* loop itself (runChild), which reads a plan, runs its classes one after  *)
(* another and reports each class when all of it has run.                  *)
(*                                                                         *)
(* What the tests do is given by constants; being killed from outside is   *)
(* an action of the environment.                                           *)
(***************************************************************************)
EXTENDS ForkPool

CONSTANTS
  MaxBatches,     \* --max-batches-per-child of fork_server mode
  Fatal,          \* tests that end their worker with an uncatchable PHP error
  Exits,          \* tests that end it with exit() or a signal
  Hanging,        \* tests that never return
  Throwing,       \* classes whose loading or planning throws
  Failing,        \* tests whose outcome may match the stop-on policy
  StopOn,         \* is a stop-on policy given that matches Error?
  MaxKills,       \* workers killed from outside: at most this many
  MaxMasterKills, \* the same for the master (0 or 1)
  KillBetween,    \* may such a kill hit a worker that is between batches?
  LateFatal,      \* may shutdown code turn a deliberate exit into a crash?
  AllDieEarly,    \* may every worker end before the master's handler is in place?
  ForkMayFail     \* may the fork of a replacement fail?

ASSUME WorkerAssumption ==
  /\ MaxBatches \in Nat \ {0}
  /\ Fatal \subseteq Test /\ Exits \subseteq Test /\ Hanging \subseteq Test
  /\ Failing \subseteq Test /\ Throwing \subseteq Class
  /\ Fatal \cap Exits = {} /\ Hanging \cap (Fatal \cup Exits) = {}
  /\ {StopOn, KillBetween, LateFatal, AllDieEarly, ForkMayFail} \subseteq BOOLEAN
  /\ MaxKills \in Nat /\ MaxMasterKills \in Nat

VARIABLES
  forked,      \* how many slots the master's initial loop has forked
  slotClosed,  \* the slots the master counts as finished ($slotClosed)
  wake,        \* a SIGCHLD reached the installed handler and is not served
  code,        \* how the slot's zombie ended
  job,         \* the plan a worker runs, its tests those still to run
  buffer,      \* plans read by fgets ahead of the one being run
  batches,     \* batches the worker has run ($batchesProcessed)
  executions,  \* how often each test's body was started
  kills, masterKills

workerVars == <<forked, slotClosed, wake, code, job, buffer, batches, executions,
                kills, masterKills>>

ExitCode == {"none", "recycle", "eof", "crash"}

WorkerTypeOK ==
  /\ forked \in 0 .. NSlots
  /\ slotClosed \subseteq Slot
  /\ wake \in BOOLEAN
  /\ code \in [Slot -> ExitCode]
  /\ job \in [Slot -> [tests : SUBSET Test, force : BOOLEAN]]
  /\ buffer \in [Slot -> Seq(Plan)]
  /\ batches \in [Slot -> Nat]
  /\ executions \in [Test -> Nat]
  /\ kills \in Nat /\ masterKills \in Nat

WorkerInit ==
  /\ forked = 0
  /\ slotClosed = {}
  /\ wake = FALSE
  /\ code = [s \in Slot |-> "none"]
  /\ job = [s \in Slot |-> NoPlan]
  /\ buffer = [s \in Slot |-> <<>>]
  /\ batches = [s \in Slot |-> 0]
  /\ executions = [t \in Test |-> 0]
  /\ kills = 0 /\ masterKills = 0

----------------------------------------------------------------------------
(* The master.                                                             *)

(* A fresh worker for slot s, waiting in fgets.                            *)
Spawn(s) ==
  /\ child' = [child EXCEPT ![s] = "idle"]
  /\ code' = [code EXCEPT ![s] = "none"]
  /\ batches' = [batches EXCEPT ![s] = 0]

(* The initial loop forks slot after slot.                                 *)
ForkWorker(s) ==
  /\ mode # "inline" /\ master = "forking"
  /\ s = forked + 1
  /\ forked' = s
  /\ Spawn(s)
  /\ UNCHANGED <<mode, pipeVars, master, slotClosed, wake, job, buffer, executions,
                 kills, masterKills>>

(* All workers are forked: install the SIGCHLD handler (fork_server), or   *)
(* wait for the workers one by one (long_lived).  A worker that died       *)
(* before this point has sent a signal nobody was listening to.            *)
StartServing ==
  /\ mode # "inline" /\ master = "forking"
  /\ forked = NSlots
  /\ master' = IF mode = "fork_server" THEN "serving" ELSE "waiting"
  /\ UNCHANGED <<mode, pipeVars, child, workerVars>>

(* Mutants: a voluntary recycle is announced too; nothing is announced.    *)
isEnded(s) == code[s] # "eof"
isNothing(s) == FALSE

(* $isCrash: neither the recycle code nor the end-of-input code.           *)
isCrash(s) == code[s] = "crash"

(* One turn of the handler's waitpid loop, which runs until no zombie is   *)
(* left: a closed slot stays empty, a crash is announced on the slot's own *)
(* pipe, and anything but a closed slot is given a new worker.             *)
Reap(s) ==
  /\ master = "serving" /\ wake
  /\ child[s] = "zombie"
  /\ wake' = (\E r \in Slot \ {s} : child[r] = "zombie")
  /\ IF isCrash(s) THEN Send(s, Notice("slot_died")) ELSE UNCHANGED outbox
  /\ \/ /\ code[s] # "eof"
        /\ Spawn(s)
        /\ UNCHANGED slotClosed
     \/ /\ code[s] = "eof" \/ ForkMayFail
        /\ slotClosed' = slotClosed \cup {s}
        /\ child' = [child EXCEPT ![s] = "none"]
        /\ UNCHANGED <<code, batches>>
  /\ UNCHANGED <<mode, writeOpen, inbox, master, forked, job, buffer, executions,
                 kills, masterKills>>

(* fork_server: every slot is closed.  long_lived: every worker has ended, *)
(* however it ended.                                                       *)
MasterExit ==
  /\ \/ master = "serving" /\ slotClosed = Slot
     \/ master = "waiting" /\ \A s \in Slot : child[s] = "zombie"
  /\ master' = "exited"
  /\ UNCHANGED <<mode, pipeVars, child, workerVars>>

----------------------------------------------------------------------------
(* The worker.                                                             *)

(* Unless the run allows it, one worker outlives the master's fork loop.   *)
mayDie(s) ==
  AllDieEarly \/ mode = "inline" \/ master # "forking" \/ \E r \in Slot \ {s} : child[r] # "zombie"

(* The worker of slot s ends with the given code.  What it had read and    *)
(* not run is lost with it.                                                *)
Die(s, how) ==
  /\ mayDie(s)
  /\ child' = [child EXCEPT ![s] = "zombie"]
  /\ code' = [code EXCEPT ![s] = how]
  /\ job' = [job EXCEPT ![s] = NoPlan]
  /\ buffer' = [buffer EXCEPT ![s] = <<>>]
  /\ wake' = (wake \/ master = "serving")

(* fgets returns the next plan; the read behind it may have taken more.    *)
ReadPlan(s) ==
  /\ child[s] = "idle"
  /\ LET ahead == buffer[s] \o inbox[s] IN
       /\ ahead # <<>>
       /\ job' = [job EXCEPT ![s] = Head(ahead)]
       /\ \E n \in Len(buffer[s]) .. Len(ahead) :
            /\ n >= 1 /\ (buffer[s] # <<>> => n = Len(buffer[s]))
            /\ buffer' = [buffer EXCEPT ![s] = SubSeq(ahead, 2, n)]
            /\ inbox' = [inbox EXCEPT ![s] = SubSeq(ahead, n + 1, Len(ahead))]
  /\ child' = [child EXCEPT ![s] = "busy"]
  /\ UNCHANGED <<mode, writeOpen, outbox, master, forked, slotClosed, wake, code, batches,
                 executions, kills, masterKills>>

(* fgets returns false: Rust closed the slot.                              *)
StdinEof(s) ==
  /\ child[s] = "idle"
  /\ ~writeOpen[s] /\ inbox[s] = <<>> /\ buffer[s] = <<>>
  /\ \E how \in {"eof"} \cup (IF LateFatal THEN {"crash"} ELSE {}) : Die(s, how)
  /\ UNCHANGED <<mode, pipeVars, master, forked, slotClosed, batches, executions,
                 kills, masterKills>>

(* The class worker s is about to run, the tests in it that stop the       *)
(* worker, and the tests it gets to start.                                 *)
entry(s) == Entry(job[s].tests)
throws(s) == \E t \in entry(s) : ClassOf[t] \in Throwing
stopper(s) == First(entry(s) \cap (Fatal \cup Exits \cup Hanging))
started(s) == {t \in entry(s) : \A u \in stopper(s) : t <= u}

busyWith(s) == child[s] = "busy" /\ job[s].tests # {}

(* Does an outcome of a test of S match the stop-on policy?                *)
matches(S) == {FALSE} \cup (IF StopOn /\ S \cap Failing # {} THEN {TRUE} ELSE {})

(* One more execution of the tests of S.                                   *)
Execute(S) == executions' = [t \in Test |-> executions[t] + IF t \in S THEN 1 ELSE 0]

(* The class throws outside its tests: one <class> row for all of it.      *)
ClassThrows(s) ==
  /\ busyWith(s) /\ throws(s)
  /\ Send(s, RowsMsg({}, ClassesOf(entry(s)), StopOn))
  /\ job' = [job EXCEPT ![s].tests = @ \ entry(s)]
  /\ UNCHANGED <<mode, writeOpen, inbox, master, child, forked, slotClosed, wake, code,
                 buffer, batches, executions, kills, masterKills>>

(* runClass returns and its outcomes are written.                          *)
RunClass(s) ==
  /\ busyWith(s) /\ ~throws(s) /\ stopper(s) = {}
  /\ \E d \in matches(entry(s)) : Send(s, RowsMsg(RowsOfTests(entry(s)), {}, d))
  /\ Execute(entry(s))
  /\ job' = [job EXCEPT ![s].tests = @ \ entry(s)]
  /\ UNCHANGED <<mode, writeOpen, inbox, master, child, forked, slotClosed, wake, code,
                 buffer, batches, kills, masterKills>>

(* A test ends the process inside runClass: the outcomes of its class are  *)
(* lost.  After a fatal error the shutdown handler writes a <class> row    *)
(* for this class and every class of the batch behind it; after exit() or  *)
(* a signal it writes nothing.                                             *)
CrashInClass(s) ==
  /\ busyWith(s) /\ ~throws(s)
  /\ stopper(s) \subseteq Fatal \cup Exits /\ stopper(s) # {}
  /\ IF stopper(s) \subseteq Fatal
     THEN Send(s, RowsMsg({}, ClassesOf(job[s].tests), StopOn))
     ELSE UNCHANGED outbox
  /\ Execute(started(s))
  /\ Die(s, "crash")
  /\ UNCHANGED <<mode, writeOpen, inbox, master, forked, slotClosed, batches,
                 kills, masterKills>>

(* The batch is done and says so; then the worker recycles itself if the   *)
(* plan asks for it or it has run its quota.                               *)
FinishBatch(s) ==
  /\ child[s] = "busy" /\ job[s].tests = {}
  /\ Send(s, Notice("batch_done"))
  /\ batches' = [batches EXCEPT ![s] = @ + 1]
  /\ LET quota == mode = "fork_server" /\ batches[s] + 1 >= MaxBatches
     IN child' = [child EXCEPT ![s] = IF job[s].force \/ quota THEN "exiting" ELSE "idle"]
  /\ job' = [job EXCEPT ![s] = NoPlan]
  /\ UNCHANGED <<mode, writeOpen, inbox, master, forked, slotClosed, wake, code, buffer,
                 executions, kills, masterKills>>

Recycle(s) ==
  /\ child[s] = "exiting"
  /\ \E how \in {"recycle"} \cup (IF LateFatal THEN {"crash"} ELSE {}) : Die(s, how)
  /\ UNCHANGED <<mode, pipeVars, master, forked, slotClosed, batches, executions,
                 kills, masterKills>>

----------------------------------------------------------------------------
(* The environment.                                                        *)

(* The rows of the current class that are on the pipe when a kill hits     *)
(* while they are being written: those up to some row.                     *)
Prefixes(S) == {{c \in S : c[1] < cut[1] \/ (c[1] = cut[1] /\ c[2] < cut[2])} : cut \in S}

(* The tests of the current class that may have been started when a kill   *)
(* hits before any row is written.                                         *)
begun(s) ==
  {{}} \cup IF busyWith(s) /\ ~throws(s)
             THEN {{t \in started(s) : t <= last} : last \in started(s)} ELSE {}

(* SIGKILL, the OOM killer, a segmentation fault.                          *)
KillWorker(s) ==
  /\ kills < MaxKills /\ kills' = kills + 1
  /\ child[s] = "busy" \/ (KillBetween /\ child[s] \in Running)
  /\ \/ UNCHANGED outbox /\ \E S \in begun(s) : Execute(S)
     \/ /\ busyWith(s) /\ ~throws(s) /\ stopper(s) = {}
        /\ \E written \in Prefixes(RowsOfTests(entry(s))) \ {{}} :
             \E d \in matches({c[1] : c \in written}) : Send(s, RowsMsg(written, {}, d))
        /\ Execute(entry(s))
  /\ Die(s, "crash")
  /\ UNCHANGED <<mode, writeOpen, inbox, master, forked, slotClosed, batches, masterKills>>

(* The master is killed; its workers live on without a parent.             *)
KillMaster ==
  /\ masterKills < MaxMasterKills /\ masterKills' = masterKills + 1
  /\ mode # "inline" /\ master \notin {"exited", "killed"}
  /\ master' = "killed"
  /\ wake' = FALSE
  /\ UNCHANGED <<mode, pipeVars, child, forked, slotClosed, code, job, buffer, batches,
                 executions, kills>>

=============================================================================
