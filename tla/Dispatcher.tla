----------------------------- MODULE Dispatcher -----------------------------
(***************************************************************************)
(* run_resumable (runner.rs): the single-threaded loop that hands batch    *)
(* plans to worker slots, collects the outcomes they stream back, and      *)
(* decides what becomes of the tests of a worker that died.                *)
(*                                                                         *)
(* queue is a set: the deque's order and the fingerprint scores of         *)
(* pick_best_for_slot are heuristics, and any of the queued plans (the     *)
(* scan window holds 32) may be the one they pick.                         *)
(***************************************************************************)
EXTENDS ForkPool

CONSTANT WatchdogOn  \* is --worker-timeout set?

ASSUME DispatcherAssumption == WatchdogOn \in BOOLEAN

VARIABLES
  phase,      \* where run_resumable is
  seeded,     \* the slots the seeding loop has passed
  queue,      \* the plans waiting for a slot
  inFlight,   \* slot_in_flight: the plan handed to each slot, or NoPlan
  pairs,      \* ReceivedOutcomes::pairs
  classes,    \* ReceivedOutcomes::classes
  attempts,   \* worker deaths charged to each test
  stopping,   \* has the stop-on policy fired?
  ended,      \* the slots whose reader saw end of file
  masterDied, \* the run ends with tests to hand back to the caller
  streamed,   \* the report: how often each worker row was pushed to outcomes
  classRows,  \* the report: <class> rows pushed
  synth       \* the report: Errors the dispatcher fabricated per test

reportVars == <<streamed, classRows, synth>>
receivedVars == <<pairs, classes>>
dispatcherVars == <<phase, seeded, queue, inFlight, pairs, classes, attempts,
                    stopping, ended, masterDied, streamed, classRows, synth>>

Phase == {"seeding", "loop", "terminating", "joining", "done", "aborted"}

DispatcherTypeOK ==
  /\ phase \in Phase
  /\ seeded \in 0 .. NSlots
  /\ queue \subseteq Plan
  /\ inFlight \in [Slot -> Plan \cup {NoPlan}]
  /\ pairs \subseteq Test
  /\ classes \subseteq Class
  /\ attempts \in [Test -> Nat]
  /\ stopping \in BOOLEAN
  /\ ended \subseteq Slot
  /\ masterDied \in BOOLEAN
  /\ streamed \in [Case -> Nat]
  /\ classRows \in [Class -> Nat]
  /\ synth \in [Test -> Nat]

DispatcherInit ==
  /\ phase = "seeding"
  /\ seeded = 0
  /\ queue = InitialPlans
  /\ inFlight = [s \in Slot |-> NoPlan]
  /\ pairs = {} /\ classes = {}
  /\ attempts = [t \in Test |-> 0]
  /\ stopping = FALSE
  /\ ended = {}
  /\ masterDied = FALSE
  /\ streamed = [c \in Case |-> 0]
  /\ classRows = [c \in Class |-> 0]
  /\ synth = [t \in Test |-> 0]

----------------------------------------------------------------------------
covered == Covered(pairs, classes)

(* f with one more for every element of S.                                 *)
Bump(f, S) == [x \in DOMAIN f |-> IF x \in S THEN f[x] + 1 ELSE f[x]]

(* Every test that sits in a plan the dispatcher still owes an answer for. *)
Owed == (UNION {p.tests : p \in queue}) \cup (UNION {inFlight[s].tests : s \in Slot})

(* Mutants: received outcomes are not consulted; queued plans are dropped. *)
SynthAllOwed ==
  /\ synth' = Bump(synth, Owed)
  /\ inFlight' = [s \in Slot |-> NoPlan]
  /\ queue' = {}
SynthInFlight ==
  /\ synth' = Bump(synth, (UNION {inFlight[s].tests : s \in Slot}) \ covered)
  /\ inFlight' = [s \in Slot |-> NoPlan]
  /\ queue' = {}

(* synth_error_outcomes over all in-flight and queued plans; the received  *)
(* set is consulted and not updated.                                       *)
SynthOwed ==
  /\ synth' = Bump(synth, Owed \ covered)
  /\ inFlight' = [s \in Slot |-> NoPlan]
  /\ queue' = {}

(* Feed slot s from the waiting plans q, or close it when there are none.  *)
(* A failed write ends run_resumable with an error.                        *)
Dispatch(s, q) ==
  \/ \E p \in q :
       /\ WriteBatch(s, p)
       /\ queue' = q \ {p}
       /\ inFlight' = [inFlight EXCEPT ![s] = p]
       /\ UNCHANGED phase
  \/ /\ q # {} /\ ~CanWrite(s)
     /\ \E p \in q : queue' = q \ {p}
     /\ inFlight' = [inFlight EXCEPT ![s] = NoPlan]
     /\ phase' = "aborted"
     /\ UNCHANGED <<writeOpen, inbox>>
  \/ /\ q = {}
     /\ CloseSlot(s)
     /\ queue' = {}
     /\ inFlight' = [inFlight EXCEPT ![s] = NoPlan]
     /\ UNCHANGED phase

(* The seeding loop: one plan to each slot in turn.                        *)
Seed(s) ==
  /\ phase = "seeding"
  /\ s = seeded + 1
  /\ Dispatch(s, queue)
  /\ seeded' = s
  /\ UNCHANGED <<outbox, receivedVars, attempts, stopping, ended, masterDied, reportVars>>

(* Every slot is seeded: enter the event loop.                             *)
StartLoop ==
  /\ phase = "seeding"
  /\ seeded = NSlots
  /\ phase' = "loop"
  /\ UNCHANGED <<pipeVars, seeded, queue, inFlight, receivedVars, attempts, stopping,
                 ended, masterDied, reportVars>>

(* WorkerMessage::Outcome: pushed to the report whether or not it was      *)
(* already there; the first match of the stop policy drains the queue.     *)
ReceiveRows(s) ==
  /\ phase = "loop"
  /\ Receive(s, "rows")
  /\ LET m == Head(outbox[s]) IN
       /\ pairs' = pairs \cup {c[1] : c \in m.rows}
       /\ classes' = classes \cup m.classes
       /\ streamed' = Bump(streamed, m.rows)
       /\ classRows' = Bump(classRows, m.classes)
       /\ stopping' = (stopping \/ m.defect)
       /\ queue' = IF ~stopping /\ m.defect THEN {} ELSE queue
  /\ UNCHANGED <<phase, seeded, writeOpen, inbox, inFlight, attempts, ended, masterDied, synth>>

(* WorkerMessage::BatchDone.                                               *)
ReceiveBatchDone(s) ==
  /\ phase = "loop"
  /\ Receive(s, "batch_done")
  /\ Dispatch(s, queue)
  /\ UNCHANGED <<seeded, receivedVars, attempts, stopping, ended, masterDied, reportVars>>

(* WorkerMessage::SlotDied: cut up the batch the slot had in flight, then  *)
(* feed the slot's replacement worker.                                     *)
ReceiveSlotDied(s) ==
  /\ phase = "loop"
  /\ Receive(s, "slot_died")
  /\ LET unrun == inFlight[s].tests \ covered
         poison == Poisoned(unrun, attempts)
     IN /\ pairs' = pairs \cup poison
        /\ synth' = Bump(synth, poison)
        /\ attempts' = Bump(attempts, unrun \ poison)
        /\ Dispatch(s, queue \cup Requeued(unrun, attempts))
  /\ UNCHANGED <<seeded, classes, stopping, ended, masterDied, streamed, classRows>>

(* WorkerEvent::Eof.  When the last reader ends, leftover work goes back   *)
(* to the caller if the master is gone, and becomes Errors otherwise.      *)
ReceiveEof(s) ==
  /\ phase = "loop"
  /\ s \notin ended
  /\ AllExited /\ outbox[s] = <<>>
  /\ ended' = ended \cup {s}
  /\ IF ended' # Slot
     THEN UNCHANGED <<phase, queue, inFlight, masterDied, synth>>
     ELSE /\ phase' = "done"
          /\ IF (queue # {} \/ \E r \in Slot : inFlight[r] # NoPlan) /\ ~MasterAlive
             THEN masterDied' = TRUE /\ UNCHANGED <<queue, inFlight, synth>>
             ELSE SynthOwed /\ UNCHANGED masterDied
  /\ UNCHANGED <<pipeVars, seeded, receivedVars, attempts, stopping, streamed, classRows>>

(* RecvTimeoutError::Timeout with work in flight: nothing arrived for the  *)
(* whole timeout, so nothing is waiting to be read.                        *)
Watchdog ==
  /\ WatchdogOn
  /\ phase = "loop"
  /\ \A s \in Slot : outbox[s] = <<>>
  /\ ~AllExited
  /\ \E s \in Slot : inFlight[s] # NoPlan
  /\ SynthOwed
  /\ phase' = "terminating"
  /\ UNCHANGED <<pipeVars, seeded, receivedVars, attempts, stopping, ended, masterDied,
                 streamed, classRows>>

(* Mutant: only the master is killed.                                      *)
TerminateMasterOnly ==
  /\ phase = "terminating"
  /\ writeOpen' = [s \in Slot |-> FALSE]
  /\ master' = "killed"
  /\ phase' = "joining"
  /\ UNCHANGED <<child, inbox, outbox, seeded, queue, inFlight, receivedVars, attempts,
                 stopping, ended, masterDied, reportVars>>

(* PhpForkPool::terminate: close every write end, then kill the master and *)
(* all its descendants.  Once the master is gone its children have another *)
(* parent and kill_process_tree does not find them.                        *)
Terminate ==
  /\ phase = "terminating"
  /\ writeOpen' = [s \in Slot |-> FALSE]
  /\ IF MasterAlive
     THEN /\ master' = "killed"
          /\ child' = [s \in Slot |-> "none"]
     ELSE UNCHANGED <<master, child>>
  /\ phase' = "joining"
  /\ UNCHANGED <<inbox, outbox, seeded, queue, inFlight, receivedVars, attempts, stopping,
                 ended, masterDied, reportVars>>

(* Join the reader threads and wait for the master.                        *)
Join ==
  /\ phase = "joining"
  /\ AllExited
  /\ phase' = "done"
  /\ UNCHANGED <<pipeVars, seeded, queue, inFlight, receivedVars, attempts, stopping, ended,
                 masterDied, reportVars>>

(* Mutants: everything is handed back; only queued tests are.              *)
allUnfinished == IF masterDied THEN Test ELSE {}
queuedUnfinished == IF masterDied THEN UNION {p.tests : p \in queue} ELSE {}

(* The tests run_resumable returns as unfinished.                          *)
unfinished == IF masterDied THEN Test \ covered ELSE {}

=============================================================================
