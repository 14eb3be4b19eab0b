------------------------------- MODULE Runner -------------------------------
(***************************************************************************)
(* One call of run_resumable against one PHP fork-master: the dispatcher   *)
(* (Dispatcher.tla) and the worker side (WorkerFork.tla), joined by the    *)
(* pipes of ForkPool.tla.  Only the pipes, the processes' states and end   *)
(* of file are shared; every step belongs to one side.                     *)
(***************************************************************************)
EXTENDS Dispatcher, WorkerFork

workerSide == <<mode, master, child, workerVars>>
vars == <<mode, pipeVars, master, child, dispatcherVars, workerVars>>

Init == PoolInit /\ DispatcherInit /\ WorkerInit

(* The steps of the Rust process.                                          *)
RustStep ==
  \/ StartLoop /\ UNCHANGED workerSide
  \/ Watchdog /\ UNCHANGED workerSide
  \/ Terminate /\ UNCHANGED <<mode, workerVars>>
  \/ Join /\ UNCHANGED workerSide
  \/ \E s \in Slot :
       \/ Seed(s) /\ UNCHANGED workerSide
       \/ ReceiveRows(s) /\ UNCHANGED workerSide
       \/ ReceiveBatchDone(s) /\ UNCHANGED workerSide
       \/ ReceiveSlotDied(s) /\ UNCHANGED workerSide
       \/ ReceiveEof(s) /\ UNCHANGED workerSide

(* The steps of the PHP master.                                            *)
PhpMasterStep ==
  \/ StartServing /\ UNCHANGED dispatcherVars
  \/ MasterExit /\ UNCHANGED dispatcherVars
  \/ \E s \in Slot : \/ ForkWorker(s) /\ UNCHANGED dispatcherVars
                     \/ Reap(s) /\ UNCHANGED dispatcherVars

(* The steps of the worker of slot s.                                      *)
PhpWorkerStep(s) ==
  \/ ReadPlan(s) /\ UNCHANGED dispatcherVars
  \/ StdinEof(s) /\ UNCHANGED dispatcherVars
  \/ ClassThrows(s) /\ UNCHANGED dispatcherVars
  \/ RunClass(s) /\ UNCHANGED dispatcherVars
  \/ CrashInClass(s) /\ UNCHANGED dispatcherVars
  \/ FinishBatch(s) /\ UNCHANGED dispatcherVars
  \/ Recycle(s) /\ UNCHANGED dispatcherVars

EnvironmentStep ==
  \/ KillMaster /\ UNCHANGED dispatcherVars
  \/ \E s \in Slot : KillWorker(s) /\ UNCHANGED dispatcherVars

(* run_resumable has returned, with a report or with an error.             *)
Returned == phase \in {"done", "aborted"} /\ UNCHANGED vars

Next ==
  \/ RustStep
  \/ PhpMasterStep
  \/ \E s \in Slot : PhpWorkerStep(s)
  \/ EnvironmentStep
  \/ Returned

Spec == Init /\ [][Next]_vars

(* The operating system keeps scheduling the Rust process, the PHP master  *)
(* and every worker; nothing obliges it to kill anyone.                    *)
Fairness ==
  /\ WF_vars(RustStep)
  /\ WF_vars(PhpMasterStep)
  /\ \A s \in Slot : WF_vars(PhpWorkerStep(s))

FairSpec == Spec /\ Fairness

----------------------------------------------------------------------------
TypeOK == PoolTypeOK /\ DispatcherTypeOK /\ WorkerTypeOK

(* An outcome the report owes is in it: received from a worker, fabricated *)
(* as an Error, or handed back to the caller to be run again.              *)
Accounted(t) == t \in covered \/ synth[t] > 0 \/ t \in unfinished

(* The counted-at-most-once invariant of ReceivedOutcomes: no row is       *)
(* reported twice, and none both by a worker and as a fabricated Error.    *)
CountedAtMostOnce == \A c \in Case : streamed[c] + synth[c[1]] <= 1

(* "No test silently vanishes": when run_resumable returns a report, every *)
(* test is accounted for; after a stop-on match tests may be missing that  *)
(* were never started, or that waited for another try because their worker *)
(* had died, but none that was started more often than its worker died.    *)
NoTestVanishes ==
  phase = "done" =>
    \A t \in Test : ~stopping \/ executions[t] > attempts[t] => Accounted(t)

(* The same for single rows of a data-provider method: a method reported   *)
(* by a worker is reported with all its data sets.                         *)
NoRowVanishes ==
  phase = "done" =>
    \A c, d \in Case : c[1] = d[1] /\ streamed[c] > 0 /\ ClassOf[c[1]] \notin classes
                       => streamed[d] > 0

(* MAX_ATTEMPTS: no test is started more than twice, whatever dies.        *)
ExecutedAtMostTwice == \A t \in Test : executions[t] <= MAX_ATTEMPTS

(* requeue_unrun isolates "the actual crasher" while "its innocent         *)
(* batch-mates run clean": only a test that ends its worker is reported as *)
(* a poison pill.  (For runs in which nothing is killed from outside.)     *)
OnlyCrashersPoisoned == \A t \in Test : synth[t] > 0 => t \in Exits

(* The dispatcher attributes a notice to the batch in flight; one that     *)
(* finds the slot empty would be charged to whatever is dispatched next.   *)
NoStaleNotice ==
  phase = "loop" =>
    \A s \in Slot : outbox[s] # <<>> /\ Head(outbox[s]).kind # "rows" => inFlight[s] # NoPlan

(* Tests handed back for a fresh master have not been reported, so running *)
(* them again cannot count them twice.                                     *)
HandedBackUnreported ==
  phase = "done" =>
    \A c \in Case : c[1] \in unfinished => streamed[c] = 0 /\ synth[c[1]] = 0

(* run_resumable reports; it does not fail.                                *)
NeverAborts == phase # "aborted"

(* --stop-on-X: after the match no further plan is sent.                   *)
NoDispatchAfterStop == [][stopping => \A s \in Slot : Len(inbox'[s]) <= Len(inbox[s])]_vars

(* run_resumable always returns a report ...                               *)
Termination == <>(phase = "done")

(* ... or at least an error.                                               *)
Returns == <>(phase \in {"done", "aborted"})

----------------------------------------------------------------------------
(* The report, read test by test.                                          *)
verdict ==
  [t \in Test |->
    LET rows == {<<t, r>> : r \in 1 .. RowsOf[t]}
    IN CASE synth[t] = 0 /\ (\A c \in rows : streamed[c] = 0) -> "none"
         [] synth[t] = 0 /\ (\E c \in rows : streamed[c] = 1)
                         /\ (\A c \in rows : streamed[c] \in {0, 1}) -> "ran"
         [] synth[t] = 1 /\ (\A c \in rows : streamed[c] = 0) -> "error"
         [] OTHER -> "contradictory"]

Contract == INSTANCE ReportContract WITH
  excused <- {t \in Test : ClassOf[t] \in classes},
  stopped <- stopping,
  returned <- phase = "done",
  handedBack <- IF phase = "done" THEN unfinished ELSE {}

(* The dispatcher and its workers implement the contract, verdicts, and    *)
(* return included ...                                                     *)
ImplementsContract == Contract!Spec

(* ... or all of it but the promise to return a report.                    *)
KeepsContract == Contract!Safety

----------------------------------------------------------------------------
(* Why a notice is never stale.  While run_resumable dispatches, a slot's  *)
(* in-flight plan is in exactly one place: in the pipe, with the worker    *)
(* that runs it, with a worker that crashed and is not reaped yet, or      *)
(* answered by a notice at the end of the slot's output.  This is so when  *)
(* workers crash only in the middle of a batch.                            *)
OnlyMidBatchDeaths == ~KillBetween /\ ~LateFatal

Crashed(s) == child[s] = "zombie" /\ code[s] = "crash"
Told(s) == outbox[s] # <<>> /\ outbox[s][Len(outbox[s])].kind # "rows"

Agreement(s) ==
  /\ buffer[s] = <<>>
  /\ \A i \in 1 .. Len(outbox[s]) - 1 : outbox[s][i].kind = "rows"
  /\ inbox[s] # <<>> =>
       inbox[s] = <<inFlight[s]>> /\ child[s] # "busy" /\ ~Crashed(s) /\ outbox[s] = <<>>
  /\ child[s] = "busy" \/ Crashed(s) => ~Told(s)
  /\ inFlight[s] = NoPlan =>
       inbox[s] = <<>> /\ child[s] # "busy" /\ ~Crashed(s) /\ outbox[s] = <<>>
  /\ inFlight[s] # NoPlan =>
       inbox[s] # <<>> \/ child[s] = "busy" \/ Crashed(s) \/ Told(s)
  /\ child[s] = "busy" =>
       job[s].tests \subseteq inFlight[s].tests /\ job[s].force = inFlight[s].force

(* A slot the master's fork loop has not reached has no worker.            *)
UnbornSlots ==
  mode # "inline" /\ master = "forking" => \A s \in Slot : s > forked => child[s] = "unborn"

UnseededSlots == phase = "seeding" => \A s \in Slot : s > seeded => inFlight[s] = NoPlan

(* For runs in which OnlyMidBatchDeaths: every slot and the dispatcher     *)
(* agree on where the slot's plan is.                                      *)
SlotAgreement ==
  /\ UnbornSlots
  /\ UnseededSlots
  /\ phase \in {"seeding", "loop"} => \A s \in Slot : Agreement(s)

----------------------------------------------------------------------------
(* Why no outcome is counted twice.  While run_resumable dispatches, no    *)
(* test is in two of the plans it knows of, and what may still be reported *)
(* of a plan has not been: rows on their way are of tests of the slot's    *)
(* plan that nothing was received for, each in one message only, and of    *)
(* none that the worker has yet to run.                                    *)
Reported(m) == {c[1] : c \in m.rows}

PlansDisjoint ==
  /\ \A p \in queue : p.tests \cap pairs = {}
  /\ \A p, q \in queue : p # q => p.tests \cap q.tests = {}
  /\ \A p \in queue : \A s \in Slot : p.tests \cap inFlight[s].tests = {}
  /\ \A r, s \in Slot : r # s => inFlight[r].tests \cap inFlight[s].tests = {}

Unreported(s) ==
  /\ inbox[s] # <<>> => inFlight[s].tests \cap pairs = {}
  /\ child[s] = "busy" => job[s].tests \cap pairs = {}
  /\ \A i \in 1 .. Len(outbox[s]) :
       /\ Reported(outbox[s][i]) \subseteq inFlight[s].tests \ pairs
       /\ child[s] = "busy" => Reported(outbox[s][i]) \cap job[s].tests = {}
       /\ \A j \in 1 .. Len(outbox[s]) :
            i # j => Reported(outbox[s][i]) \cap Reported(outbox[s][j]) = {}

(* The report so far, against what the dispatcher remembers of it.         *)
ReportKnown ==
  /\ \A c \in Case : streamed[c] > 0 => c[1] \in pairs
  /\ phase \in {"seeding", "loop"} => \A t \in Test : synth[t] > 0 => t \in pairs

(* For runs in which OnlyMidBatchDeaths.                                   *)
OutcomesFresh ==
  /\ ReportKnown
  /\ phase \in {"seeding", "loop"} => PlansDisjoint /\ \A s \in Slot : Unreported(s)
=============================================================================
