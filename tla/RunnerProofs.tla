----------------------------- MODULE RunnerProofs -----------------------------
(***************************************************************************)
(* Type correctness of Runner, that a slot and the dispatcher never        *)
(* disagree about the slot's plan, and what follows: no notice is stale,   *)
(* and no plan is written to a pipe that nobody reads.  For every suite,   *)
(* number of slots, mode and choice of misbehaving tests; all but type     *)
(* correctness provided workers crash only in the middle of a batch.       *)
(***************************************************************************)
EXTENDS Runner, SequenceTheorems, TLAPS

(* The sets a plan is cut into are tests of that plan.                     *)
LEMMA SuiteOperators ==
  ASSUME NEW S \in SUBSET Test
  PROVE  /\ First(S) \subseteq S
         /\ Entry(S) \subseteq S
         /\ ClassesOf(S) \in SUBSET Class
         /\ RowsOfTests(S) \in SUBSET Case
BY SuiteAssumption DEF First, Entry, ClassesOf, RowsOfTests

(* requeue_unrun makes well-formed plans of tests it was given.            *)
LEMMA RequeuedPlans ==
  ASSUME NEW unrun \in SUBSET Test, NEW a
  PROVE  /\ Requeued(unrun, a) \subseteq Plan
         /\ Poisoned(unrun, a) \subseteq unrun
<1>1. /\ Suspect(unrun, a) \in SUBSET Test
      /\ Innocent(unrun, a) \in SUBSET Test
  BY DEF Suspect, Innocent, First
<1>2. ASSUME NEW p \in Requeued(unrun, a) PROVE p \in Plan
  <2>1. CASE p = [tests |-> Suspect(unrun, a), force |-> TRUE] /\ p.tests # {}
    BY <1>1, <2>1 DEF Plan
  <2>2. CASE p = [tests |-> Innocent(unrun, a), force |-> FALSE] /\ p.tests # {}
    BY <1>1, <2>2 DEF Plan
  <2> QED
    BY <1>2, <2>1, <2>2 DEF Requeued
<1> QED
  BY <1>2 DEF Poisoned

\* A case is a row of a test.
LEMMA CaseTests == \A c \in Case : c[1] \in Test
BY DEF Case

\* No plan is told from every plan, and holds no test.
LEMMA NoPlanFacts ==
  /\ NoPlan \notin Plan
  /\ NoPlan.tests = {}
  /\ NoPlan \in [tests : SUBSET Test, force : BOOLEAN]
  /\ \A p \in Plan : p.tests \in SUBSET Test /\ p.tests # {} /\ p.force \in BOOLEAN
  /\ Plan \subseteq [tests : SUBSET Test, force : BOOLEAN]
BY DEF NoPlan, Plan

\* What a worker or the master writes is a message.
LEMMA MessageTypes ==
  /\ \A rows \in SUBSET Case, cs \in SUBSET Class, d \in BOOLEAN : RowsMsg(rows, cs, d) \in Msg
  /\ Notice("batch_done") \in Msg /\ Notice("slot_died") \in Msg
<1>1. ASSUME NEW rows \in SUBSET Case, NEW cs \in SUBSET Class, NEW d \in BOOLEAN
      PROVE  RowsMsg(rows, cs, d) \in Msg
  BY DEF RowsMsg, Msg
<1>2. Notice("batch_done") \in Msg /\ Notice("slot_died") \in Msg
  BY DEF Notice, Msg
<1> QED
  BY <1>1, <1>2

(* Appending to and reading from a slot's pipes.                           *)
LEMMA SendType ==
  ASSUME outbox \in [Slot -> Seq(Msg)], NEW s \in Slot, NEW m \in Msg, Send(s, m)
  PROVE  outbox' \in [Slot -> Seq(Msg)]
<1>1. Append(outbox[s], m) \in Seq(Msg)
  BY AppendProperties
<1> QED
  BY <1>1 DEF Send

\* Reading a message leaves the rest of the messages.
LEMMA ReceiveType ==
  ASSUME outbox \in [Slot -> Seq(Msg)], NEW s \in Slot, NEW kind, Receive(s, kind)
  PROVE  outbox' \in [Slot -> Seq(Msg)] /\ Head(outbox[s]) \in Msg
<1>1. Tail(outbox[s]) \in Seq(Msg) /\ Head(outbox[s]) \in Msg
  BY HeadTailProperties DEF Receive
<1> QED
  BY <1>1 DEF Receive

\* Bump keeps counters counters.
LEMMA BumpType ==
  ASSUME NEW D, NEW f \in [D -> Nat], NEW S
  PROVE  Bump(f, S) \in [D -> Nat]
BY DEF Bump

(* Whatever the dispatcher decides for a slot.                             *)
LEMMA DispatchType ==
  ASSUME PoolTypeOK, DispatcherTypeOK, NEW s \in Slot, NEW q \in SUBSET Plan, Dispatch(s, q)
  PROVE  /\ phase' \in Phase
         /\ queue' \in SUBSET Plan
         /\ inFlight' \in [Slot -> Plan \cup {NoPlan}]
         /\ writeOpen' \in [Slot -> BOOLEAN]
         /\ inbox' \in [Slot -> Seq(Plan)]
<1> USE DEF PoolTypeOK, DispatcherTypeOK
<1>1. CASE \E p \in q : /\ WriteBatch(s, p)
                        /\ queue' = q \ {p}
                        /\ inFlight' = [inFlight EXCEPT ![s] = p]
                        /\ UNCHANGED phase
  <2>1. PICK p \in q : /\ WriteBatch(s, p)
                       /\ queue' = q \ {p}
                       /\ inFlight' = [inFlight EXCEPT ![s] = p]
                       /\ UNCHANGED phase
    BY <1>1
  <2>2. Append(inbox[s], p) \in Seq(Plan)
    BY AppendProperties
  <2> QED
    BY <2>1, <2>2 DEF WriteBatch
<1>2. CASE /\ q # {} /\ ~CanWrite(s)
           /\ \E p \in q : queue' = q \ {p}
           /\ inFlight' = [inFlight EXCEPT ![s] = NoPlan]
           /\ phase' = "aborted"
           /\ UNCHANGED <<writeOpen, inbox>>
  BY <1>2 DEF Phase
<1>3. CASE /\ q = {}
           /\ CloseSlot(s)
           /\ queue' = {}
           /\ inFlight' = [inFlight EXCEPT ![s] = NoPlan]
           /\ UNCHANGED phase
  BY <1>3 DEF CloseSlot
<1> QED
  BY <1>1, <1>2, <1>3 DEF Dispatch

\* Reporting what a dead worker owed keeps the types.
LEMMA SynthOwedType ==
  ASSUME DispatcherTypeOK, SynthOwed
  PROVE  /\ synth' \in [Test -> Nat]
         /\ inFlight' \in [Slot -> Plan \cup {NoPlan}]
         /\ queue' \in SUBSET Plan
BY BumpType DEF DispatcherTypeOK, SynthOwed

(* The end of a worker.                                                    *)
LEMMA DieType ==
  ASSUME PoolTypeOK, WorkerTypeOK, NEW s \in Slot, NEW how \in ExitCode, Die(s, how)
  PROVE  /\ child' \in [Slot -> ChildState]
         /\ code' \in [Slot -> ExitCode]
         /\ job' \in [Slot -> [tests : SUBSET Test, force : BOOLEAN]]
         /\ buffer' \in [Slot -> Seq(Plan)]
         /\ wake' \in BOOLEAN
<1>1. << >> \in Seq(Plan)
  BY EmptySeq
<1> QED
  BY <1>1, NoPlanFacts DEF Die, PoolTypeOK, WorkerTypeOK, ChildState

\* What a worker has left is part of its plan.
LEMMA EntryInJob ==
  ASSUME WorkerTypeOK, NEW s \in Slot
  PROVE  /\ entry(s) \subseteq job[s].tests
         /\ job[s].tests \in SUBSET Test
         /\ job[s].force \in BOOLEAN
<1>1. job[s].tests \in SUBSET Test /\ job[s].force \in BOOLEAN
  BY DEF WorkerTypeOK
<1> QED
  BY <1>1, SuiteOperators DEF entry

----------------------------------------------------------------------------
\* The first state has the types.
LEMMA InitTypeOK == Init => TypeOK
<1> SUFFICES ASSUME Init PROVE TypeOK
  OBVIOUS
<1>1. << >> \in Seq(Plan) /\ << >> \in Seq(Msg)
  BY EmptySeq
<1>2. PoolTypeOK
  BY <1>1 DEF Init, PoolInit, PoolTypeOK, MasterState, ChildState
<1>3. 0 \in 0 .. NSlots
  BY PoolAssumption
<1>4. DispatcherTypeOK
  <2>1. queue \subseteq Plan /\ inFlight \in [Slot -> Plan \cup {NoPlan}]
    BY SuiteAssumption DEF Init, DispatcherInit
  <2>2. /\ attempts \in [Test -> Nat] /\ synth \in [Test -> Nat]
        /\ streamed \in [Case -> Nat] /\ classRows \in [Class -> Nat]
    BY DEF Init, DispatcherInit
  <2> QED
    BY <1>3, <2>1, <2>2 DEF Init, DispatcherInit, DispatcherTypeOK, Phase
<1>5. WorkerTypeOK
  <2>1. /\ code \in [Slot -> ExitCode]
        /\ job \in [Slot -> [tests : SUBSET Test, force : BOOLEAN]]
        /\ buffer \in [Slot -> Seq(Plan)]
    BY <1>1, NoPlanFacts DEF Init, WorkerInit, ExitCode
  <2>2. batches \in [Slot -> Nat] /\ executions \in [Test -> Nat]
    BY DEF Init, WorkerInit
  <2> QED
    BY <1>3, <2>1, <2>2 DEF Init, WorkerInit, WorkerTypeOK
<1> QED
  BY <1>2, <1>4, <1>5 DEF TypeOK

(* What the worker side leaves alone of the dispatcher's state.            *)
LEMMA DispatcherUntouched ==
  DispatcherTypeOK /\ UNCHANGED dispatcherVars => DispatcherTypeOK'
BY DEF dispatcherVars, DispatcherTypeOK

\* The dispatcher keeps them.
LEMMA RustStepTypeOK == TypeOK /\ RustStep => TypeOK'
<1> SUFFICES ASSUME TypeOK, RustStep PROVE TypeOK'
  OBVIOUS
<1> USE DEF TypeOK
<1>1. CASE StartLoop /\ UNCHANGED workerSide
  BY <1>1 DEF StartLoop, pipeVars, receivedVars, reportVars, workerSide, workerVars,
              PoolTypeOK, DispatcherTypeOK, WorkerTypeOK, Phase
<1>2. CASE Watchdog /\ UNCHANGED workerSide
  <2>1. SynthOwed
    BY <1>2 DEF Watchdog
  <2> QED
    BY <1>2, <2>1, SynthOwedType
    DEF Watchdog, pipeVars, receivedVars, workerSide, workerVars,
        PoolTypeOK, DispatcherTypeOK, WorkerTypeOK, Phase
<1>3. CASE Terminate /\ UNCHANGED <<mode, workerVars>>
  BY <1>3 DEF Terminate, receivedVars, reportVars, workerVars,
              PoolTypeOK, DispatcherTypeOK, WorkerTypeOK, Phase, MasterState, ChildState
<1>4. CASE Join /\ UNCHANGED workerSide
  BY <1>4 DEF Join, pipeVars, receivedVars, reportVars, workerSide, workerVars,
              PoolTypeOK, DispatcherTypeOK, WorkerTypeOK, Phase
<1>5. ASSUME NEW s \in Slot, Seed(s), UNCHANGED workerSide PROVE TypeOK'
  <2>1. Dispatch(s, queue) /\ queue \in SUBSET Plan
    BY <1>5 DEF Seed, DispatcherTypeOK
  <2>2. s \in 0 .. NSlots
    BY PoolAssumption DEF Slot
  <2> QED
    BY <1>5, <2>1, <2>2, DispatchType
    DEF Seed, receivedVars, reportVars, workerSide, workerVars,
        PoolTypeOK, DispatcherTypeOK, WorkerTypeOK
<1>6. ASSUME NEW s \in Slot, ReceiveRows(s), UNCHANGED workerSide PROVE TypeOK'
  <2>1. outbox' \in [Slot -> Seq(Msg)] /\ Head(outbox[s]) \in Msg
    BY <1>6, ReceiveType DEF ReceiveRows, PoolTypeOK
  <2>2. /\ Head(outbox[s]).rows \in SUBSET Case
        /\ Head(outbox[s]).classes \in SUBSET Class
        /\ Head(outbox[s]).defect \in BOOLEAN
    BY <2>1 DEF Msg
  <2>3. pairs' \subseteq Test /\ classes' \subseteq Class
    BY <1>6, <2>2, CaseTests DEF ReceiveRows, DispatcherTypeOK
  <2>4. streamed' \in [Case -> Nat] /\ classRows' \in [Class -> Nat]
    BY <1>6, BumpType DEF ReceiveRows, DispatcherTypeOK
  <2>5. stopping' \in BOOLEAN
    BY <1>6, <2>2 DEF ReceiveRows, DispatcherTypeOK
  <2>6. queue' \subseteq Plan
    BY <1>6 DEF ReceiveRows, DispatcherTypeOK
  <2> QED
    BY <1>6, <2>1, <2>3, <2>4, <2>5, <2>6
    DEF ReceiveRows, workerSide, workerVars, PoolTypeOK, DispatcherTypeOK, WorkerTypeOK
<1>7. ASSUME NEW s \in Slot, ReceiveBatchDone(s), UNCHANGED workerSide PROVE TypeOK'
  <2>1. outbox' \in [Slot -> Seq(Msg)]
    BY <1>7, ReceiveType DEF ReceiveBatchDone, PoolTypeOK
  <2>2. Dispatch(s, queue) /\ queue \in SUBSET Plan
    BY <1>7 DEF ReceiveBatchDone, DispatcherTypeOK
  <2> QED
    BY <1>7, <2>1, <2>2, DispatchType
    DEF ReceiveBatchDone, receivedVars, reportVars, workerSide, workerVars,
        PoolTypeOK, DispatcherTypeOK, WorkerTypeOK
<1>8. ASSUME NEW s \in Slot, ReceiveSlotDied(s), UNCHANGED workerSide PROVE TypeOK'
  <2> DEFINE unrun == inFlight[s].tests \ covered
  <2>1. outbox' \in [Slot -> Seq(Msg)]
    BY <1>8, ReceiveType DEF ReceiveSlotDied, PoolTypeOK
  <2>2. unrun \in SUBSET Test
    BY NoPlanFacts DEF DispatcherTypeOK
  <2> HIDE DEF unrun
  <2>3. queue \cup Requeued(unrun, attempts) \in SUBSET Plan /\ Poisoned(unrun, attempts) \subseteq Test
    BY <2>2, RequeuedPlans DEF DispatcherTypeOK
  <2>4. /\ pairs' = pairs \cup Poisoned(unrun, attempts)
        /\ synth' = Bump(synth, Poisoned(unrun, attempts))
        /\ attempts' = Bump(attempts, unrun \ Poisoned(unrun, attempts))
        /\ Dispatch(s, queue \cup Requeued(unrun, attempts))
    BY <1>8 DEF ReceiveSlotDied, unrun
  <2>5. /\ pairs' \subseteq Test
        /\ synth' \in [Test -> Nat] /\ attempts' \in [Test -> Nat]
    BY <2>3, <2>4, BumpType DEF DispatcherTypeOK
  <2> QED
    BY <1>8, <2>1, <2>3, <2>4, <2>5, DispatchType
    DEF ReceiveSlotDied, workerSide, workerVars, PoolTypeOK, DispatcherTypeOK, WorkerTypeOK
<1>9. ASSUME NEW s \in Slot, ReceiveEof(s), UNCHANGED workerSide PROVE TypeOK'
  <2>1. /\ synth' \in [Test -> Nat]
        /\ inFlight' \in [Slot -> Plan \cup {NoPlan}]
        /\ queue' \in SUBSET Plan
        /\ masterDied' \in BOOLEAN
        /\ phase' \in Phase
    BY <1>9, SynthOwedType DEF ReceiveEof, DispatcherTypeOK, Phase
  <2> QED
    BY <1>9, <2>1
    DEF ReceiveEof, pipeVars, receivedVars, workerSide, workerVars,
        PoolTypeOK, DispatcherTypeOK, WorkerTypeOK
<1> QED
  BY <1>1, <1>2, <1>3, <1>4, <1>5, <1>6, <1>7, <1>8, <1>9 DEF RustStep

\* Forking a worker keeps them.
LEMMA SpawnType ==
  ASSUME PoolTypeOK, WorkerTypeOK, NEW s \in Slot, Spawn(s)
  PROVE  /\ child' \in [Slot -> ChildState]
         /\ code' \in [Slot -> ExitCode]
         /\ batches' \in [Slot -> Nat]
BY DEF Spawn, PoolTypeOK, WorkerTypeOK, ChildState, ExitCode

\* The fork-master keeps them.
LEMMA PhpMasterStepTypeOK == TypeOK /\ PhpMasterStep => TypeOK'
<1> SUFFICES ASSUME TypeOK, PhpMasterStep PROVE TypeOK'
  OBVIOUS
<1> USE DEF TypeOK
<1>1. CASE StartServing /\ UNCHANGED dispatcherVars
  BY <1>1 DEF StartServing, dispatcherVars, pipeVars, workerVars,
              PoolTypeOK, DispatcherTypeOK, WorkerTypeOK, MasterState
<1>2. CASE MasterExit /\ UNCHANGED dispatcherVars
  BY <1>2 DEF MasterExit, dispatcherVars, pipeVars, workerVars,
              PoolTypeOK, DispatcherTypeOK, WorkerTypeOK, MasterState
<1>3. ASSUME NEW s \in Slot, ForkWorker(s), UNCHANGED dispatcherVars PROVE TypeOK'
  <2>1. s \in 0 .. NSlots
    BY PoolAssumption DEF Slot
  <2> QED
    BY <1>3, <2>1, SpawnType
    DEF ForkWorker, dispatcherVars, pipeVars, PoolTypeOK, DispatcherTypeOK, WorkerTypeOK
<1>4. ASSUME NEW s \in Slot, Reap(s), UNCHANGED dispatcherVars PROVE TypeOK'
  <2>1. outbox' \in [Slot -> Seq(Msg)]
    BY <1>4, SendType, MessageTypes DEF Reap, PoolTypeOK
  <2>2. /\ child' \in [Slot -> ChildState]
        /\ code' \in [Slot -> ExitCode]
        /\ batches' \in [Slot -> Nat]
        /\ slotClosed' \subseteq Slot
    BY <1>4, SpawnType DEF Reap, PoolTypeOK, WorkerTypeOK, ChildState
  <2> QED
    BY <1>4, <2>1, <2>2
    DEF Reap, dispatcherVars, PoolTypeOK, DispatcherTypeOK, WorkerTypeOK
<1> QED
  BY <1>1, <1>2, <1>3, <1>4 DEF PhpMasterStep

(* The part of the job that is left when a class of it is done.            *)
LEMMA JobShrinks ==
  ASSUME WorkerTypeOK, NEW s \in Slot, NEW S,
         job' = [job EXCEPT ![s].tests = @ \ S]
  PROVE  job' \in [Slot -> [tests : SUBSET Test, force : BOOLEAN]]
BY DEF WorkerTypeOK

\* Starts are numbers.
LEMMA CountedStarts ==
  ASSUME NEW f \in [Test -> Nat], NEW S
  PROVE  [t \in Test |-> f[t] + IF t \in S THEN 1 ELSE 0] \in [Test -> Nat]
OBVIOUS

\* A worker keeps the types.
LEMMA PhpWorkerStepTypeOK ==
  ASSUME TypeOK, NEW s \in Slot, PhpWorkerStep(s)
  PROVE  TypeOK'
<1> USE DEF TypeOK
<1> DEFINE Rest == UNCHANGED dispatcherVars
<1>0. /\ entry(s) \in SUBSET Test
      /\ StopOn \in BOOLEAN
      /\ ClassesOf(entry(s)) \in SUBSET Class
      /\ ClassesOf(job[s].tests) \in SUBSET Class
      /\ RowsOfTests(entry(s)) \in SUBSET Case
  BY EntryInJob, SuiteOperators, WorkerAssumption
<1>1. CASE ReadPlan(s) /\ Rest
  <2> DEFINE ahead == buffer[s] \o inbox[s]
  <2>1. ahead \in Seq(Plan)
    BY ConcatProperties DEF PoolTypeOK, WorkerTypeOK
  <2>2. ahead # << >> /\ job' = [job EXCEPT ![s] = Head(ahead)]
    BY <1>1 DEF ReadPlan
  <2>3. PICK n \in Len(buffer[s]) .. Len(ahead) :
           /\ n >= 1
           /\ buffer' = [buffer EXCEPT ![s] = SubSeq(ahead, 2, n)]
           /\ inbox' = [inbox EXCEPT ![s] = SubSeq(ahead, n + 1, Len(ahead))]
    BY <1>1 DEF ReadPlan
  <2>4. Len(buffer[s]) \in Nat /\ Len(ahead) \in Nat
    BY <2>1, LenProperties DEF WorkerTypeOK
  <2> HIDE DEF ahead
  <2>5. \A i \in 1 .. Len(ahead) : ahead[i] \in Plan
    BY <2>1, ElementOfSeq
  <2>6. SubSeq(ahead, 2, n) \in Seq(Plan)
    BY <2>3, <2>4, <2>5, SubSeqProperties
  <2>7. SubSeq(ahead, n + 1, Len(ahead)) \in Seq(Plan)
    BY <2>3, <2>4, <2>5, SubSeqProperties
  <2>8. Head(ahead) \in [tests : SUBSET Test, force : BOOLEAN]
    BY <2>1, <2>2, HeadTailProperties, NoPlanFacts
  <2>9. PoolTypeOK'
    BY <1>1, <2>3, <2>7 DEF ReadPlan, PoolTypeOK, ChildState
  <2>10. WorkerTypeOK'
    <3>1. /\ job' \in [Slot -> [tests : SUBSET Test, force : BOOLEAN]]
          /\ buffer' \in [Slot -> Seq(Plan)]
      BY <2>2, <2>3, <2>6, <2>8 DEF WorkerTypeOK
    <3> QED
      BY <1>1, <3>1 DEF ReadPlan, WorkerTypeOK
  <2> QED
    BY <1>1, <2>9, <2>10, DispatcherUntouched
<1>2. CASE StdinEof(s) /\ Rest
  <2>1. PICK how \in ExitCode : Die(s, how)
    BY <1>2 DEF StdinEof, ExitCode
  <2> QED
    BY <1>2, <2>1, DieType
    DEF StdinEof, dispatcherVars, pipeVars, PoolTypeOK, DispatcherTypeOK, WorkerTypeOK
<1>3. CASE ClassThrows(s) /\ Rest
  <2>1. RowsMsg({}, ClassesOf(entry(s)), StopOn) \in Msg
    BY <1>0, MessageTypes
  <2>2. outbox' \in [Slot -> Seq(Msg)]
    BY <1>3, <2>1, SendType DEF ClassThrows, PoolTypeOK
  <2>3. job' \in [Slot -> [tests : SUBSET Test, force : BOOLEAN]]
    BY <1>3, JobShrinks DEF ClassThrows
  <2> QED
    BY <1>3, <2>2, <2>3
    DEF ClassThrows, dispatcherVars, PoolTypeOK, DispatcherTypeOK, WorkerTypeOK
<1>4. CASE RunClass(s) /\ Rest
  <2>1. PICK d \in BOOLEAN : Send(s, RowsMsg(RowsOfTests(entry(s)), {}, d))
    BY <1>4 DEF RunClass, matches
  <2>2. outbox' \in [Slot -> Seq(Msg)]
    BY <1>0, <2>1, MessageTypes, SendType DEF PoolTypeOK
  <2>3. job' \in [Slot -> [tests : SUBSET Test, force : BOOLEAN]]
    BY <1>4, JobShrinks DEF RunClass
  <2>4. executions' \in [Test -> Nat]
    BY <1>4, CountedStarts DEF RunClass, Execute, WorkerTypeOK
  <2> QED
    BY <1>4, <2>2, <2>3, <2>4
    DEF RunClass, dispatcherVars, PoolTypeOK, DispatcherTypeOK, WorkerTypeOK
<1>5. CASE CrashInClass(s) /\ Rest
  <2>1. RowsMsg({}, ClassesOf(job[s].tests), StopOn) \in Msg
    BY <1>0, MessageTypes
  <2>2. outbox' \in [Slot -> Seq(Msg)]
    BY <1>5, <2>1, SendType DEF CrashInClass, PoolTypeOK
  <2>3. executions' \in [Test -> Nat]
    BY <1>5, CountedStarts DEF CrashInClass, Execute, WorkerTypeOK
  <2>4. Die(s, "crash") /\ "crash" \in ExitCode
    BY <1>5 DEF CrashInClass, ExitCode
  <2> QED
    BY <1>5, <2>2, <2>3, <2>4, DieType
    DEF CrashInClass, dispatcherVars, PoolTypeOK, DispatcherTypeOK, WorkerTypeOK
<1>6. CASE FinishBatch(s) /\ Rest
  <2>1. outbox' \in [Slot -> Seq(Msg)]
    BY <1>6, SendType, MessageTypes DEF FinishBatch, PoolTypeOK
  <2>2. batches' \in [Slot -> Nat]
    BY <1>6 DEF FinishBatch, WorkerTypeOK
  <2>3. child' \in [Slot -> ChildState]
    BY <1>6 DEF FinishBatch, PoolTypeOK, ChildState
  <2> QED
    BY <1>6, <2>1, <2>2, <2>3, NoPlanFacts
    DEF FinishBatch, dispatcherVars, PoolTypeOK, DispatcherTypeOK, WorkerTypeOK
<1>7. CASE Recycle(s) /\ Rest
  <2>1. PICK how \in ExitCode : Die(s, how)
    BY <1>7 DEF Recycle, ExitCode
  <2> QED
    BY <1>7, <2>1, DieType
    DEF Recycle, dispatcherVars, pipeVars, PoolTypeOK, DispatcherTypeOK, WorkerTypeOK
<1> QED
  BY <1>1, <1>2, <1>3, <1>4, <1>5, <1>6, <1>7 DEF PhpWorkerStep

\* A death keeps them.
LEMMA EnvironmentStepTypeOK == TypeOK /\ EnvironmentStep => TypeOK'
<1> SUFFICES ASSUME TypeOK, EnvironmentStep PROVE TypeOK'
  OBVIOUS
<1> USE DEF TypeOK
<1>1. CASE KillMaster /\ UNCHANGED dispatcherVars
  <2>1. PoolTypeOK'
    BY <1>1 DEF KillMaster, pipeVars, PoolTypeOK, MasterState
  <2>2. WorkerTypeOK'
    <3>1. wake' \in BOOLEAN
      BY <1>1 DEF KillMaster
    <3>2. masterKills' \in Nat
      BY <1>1 DEF KillMaster, WorkerTypeOK
    <3> QED
      BY <1>1, <3>1, <3>2 DEF KillMaster, WorkerTypeOK
  <2> QED
    BY <1>1, <2>1, <2>2, DispatcherUntouched
<1>2. ASSUME NEW s \in Slot, KillWorker(s), UNCHANGED dispatcherVars PROVE TypeOK'
  <2>1. outbox' \in [Slot -> Seq(Msg)] /\ executions' \in [Test -> Nat]
    <3>1. CASE UNCHANGED outbox /\ \E S \in begun(s) : Execute(S)
      BY <3>1, CountedStarts DEF Execute, PoolTypeOK, WorkerTypeOK
    <3>2. CASE /\ \E written \in Prefixes(RowsOfTests(entry(s))) :
                    \E d \in BOOLEAN : Send(s, RowsMsg(written, {}, d))
               /\ Execute(entry(s))
      <4>1. PICK written \in Prefixes(RowsOfTests(entry(s))), d \in BOOLEAN :
               Send(s, RowsMsg(written, {}, d))
        BY <3>2
      <4>2. written \in SUBSET Case
        BY EntryInJob, SuiteOperators DEF Prefixes
      <4>3. outbox' \in [Slot -> Seq(Msg)]
        BY <4>1, <4>2, MessageTypes, SendType DEF PoolTypeOK
      <4>4. executions' \in [Test -> Nat]
        BY <3>2, CountedStarts DEF Execute, WorkerTypeOK
      <4> QED
        BY <4>3, <4>4
    <3>3. \/ UNCHANGED outbox /\ \E S \in begun(s) : Execute(S)
          \/ /\ \E written \in Prefixes(RowsOfTests(entry(s))) :
                  \E d \in BOOLEAN : Send(s, RowsMsg(written, {}, d))
             /\ Execute(entry(s))
      BY <1>2 DEF KillWorker, matches
    <3> QED
      BY <3>1, <3>2, <3>3
  <2>2. Die(s, "crash") /\ "crash" \in ExitCode
    BY <1>2 DEF KillWorker, ExitCode
  <2>3. PoolTypeOK'
    BY <1>2, <2>1, <2>2, DieType DEF KillWorker, PoolTypeOK
  <2>4. WorkerTypeOK'
    BY <1>2, <2>1, <2>2, DieType DEF KillWorker, WorkerTypeOK
  <2> QED
    BY <1>2, <2>3, <2>4, DispatcherUntouched
<1> QED
  BY <1>1, <1>2 DEF EnvironmentStep

\* Stuttering keeps them.
LEMMA StutterTypeOK == TypeOK /\ UNCHANGED vars => TypeOK'
BY DEF TypeOK, vars, pipeVars, dispatcherVars, workerVars,
       PoolTypeOK, DispatcherTypeOK, WorkerTypeOK

(* Every reachable state of the runner is well typed.                      *)
THEOREM TypeCorrect == Spec => []TypeOK
<1>1. TypeOK /\ [Next]_vars => TypeOK'
  BY RustStepTypeOK, PhpMasterStepTypeOK, PhpWorkerStepTypeOK, EnvironmentStepTypeOK,
     StutterTypeOK DEF Next, Returned
<1> QED
  BY InitTypeOK, <1>1, PTL DEF Spec

----------------------------------------------------------------------------
(* The part of the state Agreement(s) reads.                               *)
Frame(s) ==
  /\ inbox'[s] = inbox[s] /\ outbox'[s] = outbox[s] /\ child'[s] = child[s]
  /\ code'[s] = code[s] /\ job'[s] = job[s] /\ buffer'[s] = buffer[s]
  /\ inFlight'[s] = inFlight[s]

\* A step that leaves slot s alone keeps the two sides in agreement on it.
LEMMA AgreementFrame ==
  ASSUME NEW s \in Slot, Agreement(s), Frame(s)
  PROVE  Agreement(s)'
BY DEF Agreement, Frame, Crashed, Told

(* Only rows are on their way when nothing has been told yet.              *)
OnlyRows(q) == \A i \in 1 .. Len(q) : q[i].kind = "rows"

\* A worker that has announced nothing has sent rows only.
LEMMA UntoldIsRows ==
  ASSUME PoolTypeOK, NEW s \in Slot, Agreement(s), ~Told(s)
  PROVE  OnlyRows(outbox[s])
<1>1. outbox[s] \in Seq(Msg) /\ Len(outbox[s]) \in Nat
  BY DEF PoolTypeOK
<1>2. outbox[s] = << >> => Len(outbox[s]) = 0
  OBVIOUS
<1> QED
  BY <1>1, <1>2 DEF Agreement, Told, OnlyRows

(* A line written behind nothing but rows.                                 *)
LEMMA SendBehindRows ==
  ASSUME PoolTypeOK, NEW s \in Slot, NEW m \in Msg, Send(s, m), OnlyRows(outbox[s])
  PROVE  /\ outbox'[s] # << >>
         /\ \A i \in 1 .. Len(outbox'[s]) - 1 : outbox'[s][i].kind = "rows"
         /\ Told(s)' <=> m.kind # "rows"
         /\ \A r \in Slot \ {s} : outbox'[r] = outbox[r]
<1>1. outbox[s] \in Seq(Msg)
  BY DEF PoolTypeOK
<1>2. outbox'[s] = Append(outbox[s], m) /\ \A r \in Slot \ {s} : outbox'[r] = outbox[r]
  BY DEF Send, PoolTypeOK
<1>3. /\ Len(outbox'[s]) = Len(outbox[s]) + 1
      /\ outbox'[s][Len(outbox[s]) + 1] = m
      /\ \A i \in 1 .. Len(outbox[s]) : outbox'[s][i] = outbox[s][i]
  BY <1>1, <1>2, AppendProperties
<1>4. Len(outbox[s]) \in Nat /\ outbox'[s] # << >>
  BY <1>1, <1>2, AppendProperties
<1>5. outbox'[s][Len(outbox'[s])] = m
  BY <1>3
<1>6. \A i \in 1 .. Len(outbox'[s]) - 1 : outbox'[s][i].kind = "rows"
  BY <1>3, <1>4 DEF OnlyRows
<1> QED
  BY <1>2, <1>4, <1>5, <1>6 DEF Told

\* Arithmetic of a position in a sequence.
LEMMA OneOrMore ==
  /\ \A n \in Nat : n >= 1 => n > 1 \/ n = 1
  /\ \A n \in Nat : n > 1 => 1 \in 1 .. n - 1
OBVIOUS

(* A notice at the head of a slot's output is the whole of it, and the     *)
(* slot is neither running nor waiting for anything.                       *)
LEMMA NoticeIsLast ==
  ASSUME PoolTypeOK, NEW s \in Slot, Agreement(s), NEW kind \in {"batch_done", "slot_died"},
         Receive(s, kind)
  PROVE  /\ inFlight[s] # NoPlan
         /\ inbox[s] = << >> /\ buffer[s] = << >>
         /\ child[s] # "busy" /\ ~Crashed(s)
         /\ Len(outbox[s]) = 1
         /\ outbox'[s] = << >>
         /\ \A r \in Slot \ {s} : outbox'[r] = outbox[r]
<1>1. outbox[s] \in Seq(Msg) /\ outbox[s] # << >>
  BY DEF PoolTypeOK, Receive
<1>2. Len(outbox[s]) \in Nat /\ Len(outbox[s]) >= 1 /\ Head(outbox[s]) = outbox[s][1]
  BY <1>1, EmptySeq
<1>3. outbox[s][1].kind # "rows"
  BY <1>2 DEF Receive
<1>4. Len(outbox[s]) = 1
  <2>1. \A i \in 1 .. Len(outbox[s]) - 1 : outbox[s][i].kind = "rows"
    BY DEF Agreement
  <2>2. ~(1 \in 1 .. Len(outbox[s]) - 1)
    BY <1>3, <2>1
  <2> QED
    BY <1>2, <2>2, OneOrMore
<1>5. Told(s)
  BY <1>1, <1>3, <1>4 DEF Told
<1>6. outbox'[s] = Tail(outbox[s]) /\ \A r \in Slot \ {s} : outbox'[r] = outbox[r]
  BY DEF Receive, PoolTypeOK
<1>7. Tail(outbox[s]) = << >>
  <2>1. Tail(outbox[s]) \in Seq(Msg) /\ Len(Tail(outbox[s])) = 0
    BY <1>1, <1>4, HeadTailProperties
  <2> QED
    BY <2>1, EmptySeq
<1> QED
  BY <1>1, <1>4, <1>5, <1>6, <1>7 DEF Agreement

(* Feeding a slot that holds nothing.                                      *)
LEMMA DispatchAgrees ==
  ASSUME PoolTypeOK, DispatcherTypeOK, NEW s \in Slot, NEW q \in SUBSET Plan, Dispatch(s, q),
         phase' \in {"seeding", "loop"},
         inbox[s] = << >>, outbox'[s] = << >>, buffer[s] = << >>,
         child[s] # "busy", ~Crashed(s),
         UNCHANGED <<child, code, job, buffer>>
  PROVE  /\ Agreement(s)'
         /\ \A r \in Slot \ {s} : inbox'[r] = inbox[r] /\ inFlight'[r] = inFlight[r]
<1> USE DEF PoolTypeOK, DispatcherTypeOK
<1>0. Len(<< >>) = 0 /\ ~Crashed(s)' /\ child'[s] # "busy" /\ buffer'[s] = << >> /\ ~Told(s)'
  BY DEF Crashed, Told
<1>1. CASE \E p \in q : /\ WriteBatch(s, p)
                        /\ inFlight' = [inFlight EXCEPT ![s] = p]
  <2>1. PICK p \in q : WriteBatch(s, p) /\ inFlight' = [inFlight EXCEPT ![s] = p]
    BY <1>1
  <2>2. inbox'[s] = <<p>> /\ inFlight'[s] = p
    BY <2>1 DEF WriteBatch
  <2>3. p # NoPlan
    BY NoPlanFacts
  <2>4. \A r \in Slot \ {s} : inbox'[r] = inbox[r] /\ inFlight'[r] = inFlight[r]
    BY <2>1 DEF WriteBatch
  <2> QED
    BY <1>0, <2>2, <2>3, <2>4 DEF Agreement
<1>2. CASE q = {} /\ CloseSlot(s) /\ inFlight' = [inFlight EXCEPT ![s] = NoPlan]
  <2>1. inFlight'[s] = NoPlan /\ inbox' = inbox
    BY <1>2 DEF CloseSlot
  <2>2. \A r \in Slot \ {s} : inFlight'[r] = inFlight[r]
    BY <1>2
  <2> QED
    BY <1>0, <2>1, <2>2 DEF Agreement
<1> QED
  BY <1>1, <1>2 DEF Dispatch

(* Rows read from a slot's output: it stays the same otherwise.            *)
LEMMA RowsRead ==
  ASSUME PoolTypeOK, NEW s \in Slot, Agreement(s), Receive(s, "rows"),
         UNCHANGED <<inbox, child, code, job, buffer, inFlight>>
  PROVE  /\ Agreement(s)'
         /\ \A r \in Slot \ {s} : outbox'[r] = outbox[r]
<1>1. outbox[s] \in Seq(Msg) /\ outbox[s] # << >>
  BY DEF PoolTypeOK, Receive
<1>2. outbox'[s] = Tail(outbox[s]) /\ \A r \in Slot \ {s} : outbox'[r] = outbox[r]
  BY DEF Receive, PoolTypeOK
<1>3. /\ Len(outbox[s]) \in Nat /\ Len(outbox[s]) >= 1
      /\ Len(outbox'[s]) = Len(outbox[s]) - 1
      /\ \A i \in 1 .. Len(outbox'[s]) : outbox'[s][i] = outbox[s][i + 1]
  BY <1>1, <1>2, HeadTailProperties, EmptySeq
<1>4. Head(outbox[s]) = outbox[s][1] /\ outbox[s][1].kind = "rows"
  BY <1>1 DEF Receive
<1>5. \A i \in 1 .. Len(outbox'[s]) - 1 : outbox'[s][i].kind = "rows"
  <2>1. \A i \in 1 .. Len(outbox[s]) - 1 : outbox[s][i].kind = "rows"
    BY DEF Agreement
  <2> QED
    BY <1>3, <2>1
<1>6. Told(s)' <=> Told(s)
  <2>1. CASE Len(outbox[s]) = 1
    <3>1. outbox'[s] = << >>
      <4>1. outbox'[s] \in Seq(Msg) /\ Len(outbox'[s]) = 0
        BY <1>1, <1>2, <1>3, <2>1, HeadTailProperties
      <4> QED
        BY <4>1, EmptySeq
    <3> QED
      BY <1>4, <2>1, <3>1 DEF Told
  <2>2. CASE Len(outbox[s]) > 1
    <3>1. outbox'[s] # << >>
      BY <1>3, <2>2
    <3>2. outbox'[s][Len(outbox'[s])] = outbox[s][Len(outbox[s])]
      BY <1>3, <2>2
    <3> QED
      BY <1>1, <3>1, <3>2 DEF Told
  <2> QED
    BY <1>3, <2>1, <2>2, OneOrMore
<1>7. /\ inbox'[s] = inbox[s] /\ child'[s] = child[s] /\ job'[s] = job[s]
      /\ buffer'[s] = buffer[s] /\ inFlight'[s] = inFlight[s]
      /\ Crashed(s)' = Crashed(s)
  BY DEF Crashed
<1> QED
  BY <1>1, <1>2, <1>5, <1>6, <1>7 DEF Agreement

----------------------------------------------------------------------------
(* The invariant, and that every step keeps it.                            *)
Dispatching == phase \in {"seeding", "loop"}

AgreementInv == TypeOK /\ SlotAgreement

\* At the start the two sides agree on every slot.
LEMMA InitAgrees == Init => SlotAgreement
<1> SUFFICES ASSUME Init PROVE SlotAgreement
  OBVIOUS
<1> USE DEF Init, PoolInit, DispatcherInit, WorkerInit
<1>1. UnbornSlots /\ UnseededSlots
  BY DEF UnbornSlots, UnseededSlots
<1>2. ASSUME NEW s \in Slot PROVE Agreement(s)
  <2>1. /\ inbox[s] = << >> /\ outbox[s] = << >> /\ buffer[s] = << >>
        /\ inFlight[s] = NoPlan /\ child[s] \in {"idle", "unborn"}
    BY <1>2
  <2>2. Len(<< >>) = 0
    OBVIOUS
  <2> QED
    BY <2>1, <2>2 DEF Agreement, Crashed, Told
<1> QED
  BY <1>1, <1>2 DEF SlotAgreement

\* The dispatcher keeps them in agreement.
LEMMA RustStepAgrees == AgreementInv /\ RustStep => SlotAgreement'
<1> SUFFICES ASSUME AgreementInv, RustStep PROVE SlotAgreement'
  OBVIOUS
<1> USE DEF AgreementInv, TypeOK
<1>0. Dispatching => \A s \in Slot : Agreement(s)
  BY DEF SlotAgreement, Dispatching
<1>1. ASSUME UNCHANGED <<mode, master, child, forked>> PROVE UnbornSlots'
  BY <1>1 DEF SlotAgreement, UnbornSlots
<1>2. CASE StartLoop /\ UNCHANGED workerSide
  <2>1. \A s \in Slot : Frame(s)
    BY <1>2 DEF StartLoop, workerSide, workerVars, pipeVars, Frame
  <2>2. Dispatching /\ UnseededSlots'
    BY <1>2 DEF StartLoop, Dispatching, UnseededSlots
  <2> QED
    BY <1>0, <1>1, <1>2, <2>1, <2>2, AgreementFrame
    DEF SlotAgreement, workerSide, workerVars
<1>3. CASE (Watchdog \/ Join) /\ UNCHANGED workerSide
  BY <1>1, <1>3 DEF Watchdog, Join, SlotAgreement, UnseededSlots, workerSide, workerVars
<1>4. CASE Terminate /\ UNCHANGED <<mode, workerVars>>
  BY <1>4 DEF Terminate, SlotAgreement, UnseededSlots, UnbornSlots, workerVars, MasterAlive
<1>5. ASSUME NEW s \in Slot, UNCHANGED workerSide,
             Seed(s) \/ ReceiveBatchDone(s) \/ ReceiveSlotDied(s), phase' # "aborted"
      PROVE  SlotAgreement'
  <2>1. Dispatching
    BY <1>5 DEF Seed, ReceiveBatchDone, ReceiveSlotDied, Dispatching
  <2>2. PICK q \in SUBSET Plan : Dispatch(s, q)
    <3>1. CASE Seed(s) \/ ReceiveBatchDone(s)
      BY <3>1 DEF Seed, ReceiveBatchDone, DispatcherTypeOK
    <3>2. CASE ReceiveSlotDied(s)
      <4>1. inFlight[s].tests \ covered \in SUBSET Test
        BY NoPlanFacts DEF DispatcherTypeOK
      <4>2. queue \cup Requeued(inFlight[s].tests \ covered, attempts) \in SUBSET Plan
        BY <4>1, RequeuedPlans DEF DispatcherTypeOK
      <4> QED
        BY <3>2, <4>2 DEF ReceiveSlotDied
    <3> QED
      BY <1>5, <3>1, <3>2
  <2>3. /\ inbox[s] = << >> /\ outbox'[s] = << >> /\ buffer[s] = << >>
        /\ child[s] # "busy" /\ ~Crashed(s)
        /\ \A r \in Slot \ {s} : outbox'[r] = outbox[r]
    <3>1. CASE Seed(s)
      <4>1. s > seeded /\ inFlight[s] = NoPlan /\ outbox' = outbox
        BY <3>1 DEF Seed, SlotAgreement, UnseededSlots, DispatcherTypeOK, Slot
      <4> QED
        BY <1>0, <2>1, <4>1 DEF Agreement
    <3>2. CASE ReceiveBatchDone(s) \/ ReceiveSlotDied(s)
      <4>1. PICK kind \in {"batch_done", "slot_died"} : Receive(s, kind)
        BY <3>2 DEF ReceiveBatchDone, ReceiveSlotDied
      <4> QED
        BY <1>0, <2>1, <4>1, NoticeIsLast
    <3> QED
      BY <1>5, <3>1, <3>2
  <2>4. phase' = phase
    BY <1>5, <2>2 DEF Dispatch
  <2>5. UNCHANGED <<child, code, job, buffer>> /\ phase' \in {"seeding", "loop"}
    BY <1>5, <2>1, <2>4 DEF workerSide, workerVars, Dispatching
  <2>6. /\ Agreement(s)'
        /\ \A r \in Slot \ {s} : inbox'[r] = inbox[r] /\ inFlight'[r] = inFlight[r]
    BY <2>2, <2>3, <2>5, DispatchAgrees
  <2>7. \A r \in Slot \ {s} : Agreement(r)'
    <3>1. \A r \in Slot \ {s} : Frame(r)
      BY <2>3, <2>5, <2>6 DEF Frame
    <3> QED
      BY <1>0, <2>1, <3>1, AgreementFrame
  <2>8. UnseededSlots'
    <3>1. CASE Seed(s)
      <4>1. seeded' = s /\ seeded = s - 1 /\ phase = "seeding"
        BY <3>1 DEF Seed, DispatcherTypeOK, Slot
      <4>2. \A r \in Slot : r > s => r \in Slot \ {s} /\ r > seeded
        BY <4>1 DEF Slot
      <4> QED
        BY <2>6, <4>1, <4>2 DEF SlotAgreement, UnseededSlots
    <3>2. CASE ReceiveBatchDone(s) \/ ReceiveSlotDied(s)
      BY <2>4, <3>2 DEF ReceiveBatchDone, ReceiveSlotDied, UnseededSlots
    <3> QED
      BY <1>5, <3>1, <3>2
  <2> QED
    BY <1>1, <1>5, <2>6, <2>7, <2>8 DEF SlotAgreement, workerSide, workerVars
<1>6. ASSUME UNCHANGED workerSide, phase' = "aborted" PROVE SlotAgreement'
  BY <1>1, <1>6 DEF SlotAgreement, UnseededSlots, workerSide, workerVars
<1>7. ASSUME NEW s \in Slot, ReceiveRows(s), UNCHANGED workerSide PROVE SlotAgreement'
  <2>1. /\ Dispatching /\ UnseededSlots'
        /\ UNCHANGED <<inbox, child, code, job, buffer, inFlight>>
    BY <1>7 DEF ReceiveRows, Dispatching, UnseededSlots, workerSide, workerVars
  <2>2. Agreement(s)' /\ \A r \in Slot \ {s} : outbox'[r] = outbox[r]
    BY <1>0, <1>7, <2>1, RowsRead DEF ReceiveRows
  <2>3. \A r \in Slot \ {s} : Frame(r)
    BY <2>1, <2>2 DEF Frame
  <2>4. \A r \in Slot \ {s} : Agreement(r)'
    BY <1>0, <2>1, <2>3, AgreementFrame
  <2> QED
    BY <1>1, <1>7, <2>1, <2>2, <2>4 DEF SlotAgreement, workerSide, workerVars
<1>8. ASSUME NEW s \in Slot, ReceiveEof(s), UNCHANGED workerSide PROVE SlotAgreement'
  <2>1. UnbornSlots' /\ UnseededSlots'
    BY <1>1, <1>8 DEF ReceiveEof, UnseededSlots, workerSide, workerVars
  <2>2. CASE phase' # "done"
    <3>1. Dispatching /\ \A r \in Slot : Frame(r)
      BY <1>8, <2>2 DEF ReceiveEof, pipeVars, Frame, Dispatching, workerSide, workerVars
    <3> QED
      BY <1>0, <2>1, <3>1, AgreementFrame DEF SlotAgreement
  <2> QED
    BY <2>1, <2>2 DEF SlotAgreement
<1> QED
  BY <1>2, <1>3, <1>4, <1>5, <1>6, <1>7, <1>8 DEF RustStep

(* A worker-side step of slot s leaves the other slots alone, and all that *)
(* the dispatcher keeps; what it does to slot s decides.                   *)
LEMMA SlotStepAgrees ==
  ASSUME AgreementInv, NEW s \in Slot, UNCHANGED dispatcherVars, UnbornSlots',
         Dispatching => Agreement(s)',
         \A r \in Slot \ {s} : /\ inbox'[r] = inbox[r] /\ outbox'[r] = outbox[r]
                               /\ child'[r] = child[r] /\ code'[r] = code[r]
                               /\ job'[r] = job[r] /\ buffer'[r] = buffer[r]
  PROVE  SlotAgreement'
<1>1. UNCHANGED <<phase, seeded, inFlight>>
  BY DEF dispatcherVars
<1>2. UnseededSlots'
  BY <1>1 DEF AgreementInv, SlotAgreement, UnseededSlots
<1>3. \A r \in Slot \ {s} : Frame(r)
  BY <1>1 DEF Frame
<1>4. ASSUME phase' \in {"seeding", "loop"}, NEW r \in Slot \ {s} PROVE Agreement(r)'
  BY <1>1, <1>3, <1>4, AgreementFrame DEF AgreementInv, SlotAgreement
<1> QED
  BY <1>1, <1>2, <1>4 DEF SlotAgreement, Dispatching

(* Workers come and go in slots the master's fork loop has passed.         *)
LEMMA UnbornKept ==
  ASSUME AgreementInv, NEW s \in Slot, child[s] # "unborn",
         UNCHANGED <<mode, master, forked>>, \A r \in Slot \ {s} : child'[r] = child[r]
  PROVE  UnbornSlots'
BY DEF AgreementInv, SlotAgreement, UnbornSlots

\* So does the fork-master.
LEMMA PhpMasterStepAgrees == AgreementInv /\ PhpMasterStep => SlotAgreement'
<1> SUFFICES ASSUME AgreementInv, PhpMasterStep PROVE SlotAgreement'
  OBVIOUS
<1> USE DEF AgreementInv, TypeOK
<1>1. CASE (StartServing \/ MasterExit) /\ UNCHANGED dispatcherVars
  <2>1. \A s \in Slot : Frame(s)
    BY <1>1 DEF StartServing, MasterExit, dispatcherVars, pipeVars, workerVars, Frame
  <2>2. UnbornSlots'
    BY <1>1 DEF StartServing, MasterExit, UnbornSlots
  <2>3. UNCHANGED <<phase, seeded, inFlight>>
    BY <1>1 DEF dispatcherVars
  <2> QED
    BY <2>1, <2>2, <2>3, AgreementFrame DEF SlotAgreement, UnseededSlots
<1>2. ASSUME NEW s \in Slot, ForkWorker(s), UNCHANGED dispatcherVars PROVE SlotAgreement'
  <2>1. s > forked /\ forked' = s /\ forked = s - 1
    BY <1>2 DEF ForkWorker, WorkerTypeOK, Slot
  <2>2. child[s] = "unborn"
    BY <1>2, <2>1 DEF ForkWorker, SlotAgreement, UnbornSlots
  <2>3. /\ UNCHANGED <<mode, inbox, outbox, master, job, buffer, inFlight>>
        /\ child'[s] = "idle" /\ code'[s] = "none"
        /\ \A r \in Slot \ {s} : child'[r] = child[r] /\ code'[r] = code[r]
    BY <1>2 DEF ForkWorker, Spawn, dispatcherVars, pipeVars, PoolTypeOK, WorkerTypeOK
  <2>4. UnbornSlots'
    <3>1. \A r \in Slot : r > s => r \in Slot \ {s} /\ r > forked
      BY <2>1 DEF Slot
    <3> QED
      BY <2>1, <2>3, <3>1 DEF SlotAgreement, UnbornSlots
  <2>5. Dispatching => Agreement(s)'
    BY <2>2, <2>3 DEF Dispatching, SlotAgreement, Agreement, Crashed, Told
  <2> QED
    BY <1>2, <2>3, <2>4, <2>5, SlotStepAgrees
<1>3. ASSUME NEW s \in Slot, Reap(s), UNCHANGED dispatcherVars PROVE SlotAgreement'
  <2>1. /\ UNCHANGED <<mode, inbox, master, forked, job, buffer, inFlight>>
        /\ child[s] = "zombie"
        /\ child'[s] \in {"idle", "none"}
        /\ \A r \in Slot \ {s} : child'[r] = child[r] /\ code'[r] = code[r]
    BY <1>3 DEF Reap, Spawn, dispatcherVars, PoolTypeOK, WorkerTypeOK
  <2>2. UnbornSlots'
    BY <2>1, UnbornKept
  <2>3. CASE code[s] = "crash"
    <3>1. Send(s, Notice("slot_died")) /\ Notice("slot_died") \in Msg
      BY <1>3, <2>3, MessageTypes DEF Reap, isCrash
    <3>2. Notice("slot_died").kind # "rows"
      BY DEF Notice
    <3>3. Dispatching => OnlyRows(outbox[s]) /\ inbox[s] = << >> /\ inFlight[s] # NoPlan
      BY <2>1, <2>3, UntoldIsRows DEF Dispatching, SlotAgreement, Agreement, Crashed
    <3>4. \A r \in Slot \ {s} : outbox'[r] = outbox[r]
      BY <3>1 DEF Send, PoolTypeOK
    <3>5. ASSUME Dispatching PROVE Agreement(s)'
      <4>1. /\ \A i \in 1 .. Len(outbox'[s]) - 1 : outbox'[s][i].kind = "rows"
            /\ Told(s)'
        BY <3>1, <3>2, <3>3, <3>5, SendBehindRows
      <4>2. Agreement(s)
        BY <3>5 DEF Dispatching, SlotAgreement
      <4> QED
        BY <2>1, <3>3, <3>5, <4>1, <4>2 DEF Agreement, Crashed
    <3> QED
      BY <1>3, <2>1, <2>2, <3>4, <3>5, SlotStepAgrees
  <2>4. CASE code[s] # "crash"
    <3>1. outbox' = outbox
      BY <1>3, <2>4 DEF Reap, isCrash
    <3>2. Dispatching => Agreement(s)'
      BY <2>1, <2>4, <3>1 DEF Dispatching, SlotAgreement, Agreement, Crashed, Told
    <3> QED
      BY <1>3, <2>1, <2>2, <3>1, <3>2, SlotStepAgrees
  <2> QED
    BY <2>3, <2>4
<1> QED
  BY <1>1, <1>2, <1>3 DEF PhpMasterStep

(* A worker in the middle of its batch ends with a crash, having written   *)
(* nothing more or one more message of rows.                               *)
LEMMA CrashAgrees ==
  ASSUME AgreementInv, NEW s \in Slot, child[s] = "busy", Die(s, "crash"),
         UNCHANGED outbox \/ \E m \in Msg : m.kind = "rows" /\ Send(s, m),
         UNCHANGED <<mode, inbox, master, forked>>, UNCHANGED dispatcherVars
  PROVE  SlotAgreement'
<1> USE DEF AgreementInv, TypeOK
<1>1. /\ child'[s] = "zombie" /\ code'[s] = "crash" /\ buffer'[s] = << >>
      /\ \A r \in Slot \ {s} : /\ child'[r] = child[r] /\ code'[r] = code[r]
                               /\ job'[r] = job[r] /\ buffer'[r] = buffer[r]
  BY DEF Die, PoolTypeOK, WorkerTypeOK
<1>2. \A r \in Slot \ {s} : outbox'[r] = outbox[r]
  BY DEF Send, PoolTypeOK
<1>3. UnbornSlots'
  BY <1>1, UnbornKept
<1>4. ASSUME Dispatching PROVE Agreement(s)'
  <2>1. Agreement(s) /\ ~Told(s)
    BY <1>4 DEF Dispatching, SlotAgreement, Agreement
  <2>2. inbox[s] = << >> /\ inFlight[s] # NoPlan
    BY <2>1 DEF Agreement
  <2>3. OnlyRows(outbox[s])
    BY <2>1, UntoldIsRows
  <2>4. /\ \A i \in 1 .. Len(outbox'[s]) - 1 : outbox'[s][i].kind = "rows"
        /\ ~Told(s)'
    <3>1. CASE UNCHANGED outbox
      BY <2>1, <3>1 DEF Agreement, Told
    <3>2. CASE \E m \in Msg : m.kind = "rows" /\ Send(s, m)
      BY <2>3, <3>2, SendBehindRows
    <3> QED
      BY <3>1, <3>2
  <2>5. inFlight'[s] = inFlight[s] /\ inbox'[s] = << >>
    BY <2>2 DEF dispatcherVars
  <2> QED
    BY <1>1, <2>2, <2>4, <2>5 DEF Agreement, Crashed
<1> QED
  BY <1>1, <1>2, <1>3, <1>4, SlotStepAgrees

(* A worker between batches ends without a crash.                          *)
LEMMA QuietEndAgrees ==
  ASSUME AgreementInv, NEW s \in Slot, child[s] \in {"idle", "exiting"}, NEW how, how # "crash",
         Die(s, how), UNCHANGED <<mode, inbox, outbox, master, forked>>, UNCHANGED dispatcherVars
  PROVE  SlotAgreement'
<1> USE DEF AgreementInv, TypeOK
<1>1. /\ child'[s] = "zombie" /\ code'[s] = how /\ buffer'[s] = << >>
      /\ \A r \in Slot \ {s} : /\ child'[r] = child[r] /\ code'[r] = code[r]
                               /\ job'[r] = job[r] /\ buffer'[r] = buffer[r]
  BY DEF Die, PoolTypeOK, WorkerTypeOK
<1>2. UnbornSlots'
  BY <1>1, UnbornKept
<1>3. ASSUME Dispatching PROVE Agreement(s)'
  <2>1. Agreement(s) /\ ~Crashed(s) /\ inFlight' = inFlight /\ Told(s)' = Told(s)
    BY <1>3 DEF Dispatching, SlotAgreement, Crashed, dispatcherVars, Told
  <2> QED
    BY <1>1, <2>1 DEF Agreement, Crashed
<1> QED
  BY <1>1, <1>2, <1>3, SlotStepAgrees

(* A class of the batch is done: one more message of rows.                 *)
LEMMA ClassDoneAgrees ==
  ASSUME AgreementInv, NEW s \in Slot, child[s] = "busy",
         NEW m \in Msg, m.kind = "rows", Send(s, m),
         NEW S, job' = [job EXCEPT ![s].tests = @ \ S],
         UNCHANGED <<mode, inbox, master, child, forked, code, buffer>>, UNCHANGED dispatcherVars
  PROVE  SlotAgreement'
<1> USE DEF AgreementInv, TypeOK
<1>1. /\ job'[s].tests = job[s].tests \ S /\ job'[s].force = job[s].force
      /\ \A r \in Slot \ {s} : job'[r] = job[r]
  BY DEF WorkerTypeOK
<1>2. \A r \in Slot \ {s} : outbox'[r] = outbox[r]
  BY DEF Send, PoolTypeOK
<1>3. UnbornSlots'
  BY UnbornKept
<1>4. ASSUME Dispatching PROVE Agreement(s)'
  <2>1. Agreement(s) /\ ~Told(s)
    BY <1>4 DEF Dispatching, SlotAgreement, Agreement
  <2>2. OnlyRows(outbox[s])
    BY <2>1, UntoldIsRows
  <2>3. /\ \A i \in 1 .. Len(outbox'[s]) - 1 : outbox'[s][i].kind = "rows"
        /\ ~Told(s)'
    BY <2>2, SendBehindRows
  <2>4. inFlight'[s] = inFlight[s] /\ ~Crashed(s)'
    BY DEF dispatcherVars, Crashed
  <2> QED
    BY <1>1, <2>1, <2>3, <2>4 DEF Agreement
<1> QED
  BY <1>1, <1>2, <1>3, <1>4, SlotStepAgrees

\* So does a worker, if workers die only in the middle of a batch.
LEMMA PhpWorkerStepAgrees ==
  ASSUME OnlyMidBatchDeaths, AgreementInv, NEW s \in Slot, PhpWorkerStep(s)
  PROVE  SlotAgreement'
<1> USE DEF AgreementInv, TypeOK
<1> DEFINE Rest == UNCHANGED dispatcherVars
<1>0. /\ entry(s) \in SUBSET Test
      /\ StopOn \in BOOLEAN
      /\ ClassesOf(entry(s)) \in SUBSET Class
      /\ ClassesOf(job[s].tests) \in SUBSET Class
      /\ RowsOfTests(entry(s)) \in SUBSET Case
  BY EntryInJob, SuiteOperators, WorkerAssumption
<1>1. ASSUME NEW rows, NEW cs, NEW d PROVE RowsMsg(rows, cs, d).kind = "rows"
  BY DEF RowsMsg
<1>2. CASE ReadPlan(s) /\ Rest
  <2> DEFINE ahead == buffer[s] \o inbox[s]
  <2>1. PICK n \in Len(buffer[s]) .. Len(ahead) :
           /\ n >= 1
           /\ buffer' = [buffer EXCEPT ![s] = SubSeq(ahead, 2, n)]
           /\ inbox' = [inbox EXCEPT ![s] = SubSeq(ahead, n + 1, Len(ahead))]
    BY <1>2 DEF ReadPlan
  <2>2. /\ child[s] = "idle" /\ child' = [child EXCEPT ![s] = "busy"]
        /\ ahead # << >>
        /\ job' = [job EXCEPT ![s] = Head(ahead)]
        /\ UNCHANGED <<mode, outbox, master, forked, code>>
    BY <1>2 DEF ReadPlan
  <2>3. UnbornSlots'
    BY <2>2, UnbornKept DEF PoolTypeOK
  <2>4. ASSUME Dispatching PROVE Agreement(s)'
    <3>1. Agreement(s) /\ buffer[s] = << >>
      BY <2>4 DEF Dispatching, SlotAgreement, Agreement
    <3>2. ahead = inbox[s]
      BY <3>1, ConcatEmptySeq DEF PoolTypeOK
    <3>3. inbox[s] = <<inFlight[s]>> /\ inFlight[s] # NoPlan /\ outbox[s] = << >>
      BY <2>2, <3>1, <3>2 DEF Agreement
    <3>4. Len(ahead) = 1 /\ Head(ahead) = inFlight[s]
      BY <3>2, <3>3
    <3> HIDE DEF ahead
    <3>5. n = 1
      BY <2>1, <3>1, <3>4
    <3>6. SubSeq(ahead, 2, n) = << >> /\ SubSeq(ahead, n + 1, Len(ahead)) = << >>
      BY <3>4, <3>5, SubSeqEmpty
    <3>7. /\ buffer'[s] = << >> /\ inbox'[s] = << >> /\ job'[s] = inFlight[s]
          /\ child'[s] = "busy" /\ outbox'[s] = << >> /\ inFlight'[s] = inFlight[s]
      BY <1>2, <2>1, <2>2, <3>3, <3>4, <3>6 DEF PoolTypeOK, WorkerTypeOK, dispatcherVars
    <3>8. Len(<< >>) = 0
      OBVIOUS
    <3> QED
      BY <3>3, <3>7, <3>8 DEF Agreement, Crashed, Told
  <2>5. \A r \in Slot \ {s} : /\ inbox'[r] = inbox[r] /\ child'[r] = child[r]
                              /\ job'[r] = job[r] /\ buffer'[r] = buffer[r]
    BY <2>1, <2>2 DEF PoolTypeOK, WorkerTypeOK
  <2> QED
    BY <1>2, <2>2, <2>3, <2>4, <2>5, SlotStepAgrees
<1>3. CASE (StdinEof(s) \/ Recycle(s)) /\ Rest
  <2>1. PICK how : how # "crash" /\ Die(s, how)
    BY <1>3 DEF StdinEof, Recycle, OnlyMidBatchDeaths
  <2>2. child[s] \in {"idle", "exiting"} /\ UNCHANGED <<mode, inbox, outbox, master, forked>>
    BY <1>3 DEF StdinEof, Recycle, pipeVars
  <2> QED
    BY <1>3, <2>1, <2>2, QuietEndAgrees
<1>4. CASE ClassThrows(s) /\ Rest
  <2>1. RowsMsg({}, ClassesOf(entry(s)), StopOn) \in Msg
    BY <1>0, MessageTypes
  <2> QED
    BY <1>1, <1>4, <2>1, ClassDoneAgrees DEF ClassThrows, busyWith
<1>5. CASE RunClass(s) /\ Rest
  <2>1. PICK d \in BOOLEAN : Send(s, RowsMsg(RowsOfTests(entry(s)), {}, d))
    BY <1>5 DEF RunClass, matches
  <2>2. RowsMsg(RowsOfTests(entry(s)), {}, d) \in Msg
    BY <1>0, MessageTypes
  <2> QED
    BY <1>1, <1>5, <2>1, <2>2, ClassDoneAgrees DEF RunClass, busyWith
<1>6. CASE CrashInClass(s) /\ Rest
  <2>1. RowsMsg({}, ClassesOf(job[s].tests), StopOn) \in Msg
    BY <1>0, MessageTypes
  <2>2. UNCHANGED outbox \/ \E m \in Msg : m.kind = "rows" /\ Send(s, m)
    BY <1>1, <1>6, <2>1 DEF CrashInClass
  <2> QED
    BY <1>6, <2>2, CrashAgrees DEF CrashInClass, busyWith
<1>7. CASE FinishBatch(s) /\ Rest
  <2>1. /\ Send(s, Notice("batch_done")) /\ Notice("batch_done") \in Msg
        /\ child[s] = "busy" /\ child'[s] \in {"idle", "exiting"}
        /\ UNCHANGED <<mode, inbox, master, forked, code, buffer>>
        /\ \A r \in Slot \ {s} : child'[r] = child[r] /\ job'[r] = job[r]
    BY <1>7, MessageTypes DEF FinishBatch, PoolTypeOK, WorkerTypeOK
  <2>2. Notice("batch_done").kind # "rows"
    BY DEF Notice
  <2>3. UnbornSlots'
    BY <2>1, UnbornKept
  <2>4. \A r \in Slot \ {s} : outbox'[r] = outbox[r]
    BY <2>1 DEF Send, PoolTypeOK
  <2>5. ASSUME Dispatching PROVE Agreement(s)'
    <3>1. Agreement(s) /\ ~Told(s)
      BY <2>1, <2>5 DEF Dispatching, SlotAgreement, Agreement
    <3>2. OnlyRows(outbox[s])
      BY <3>1, UntoldIsRows
    <3>3. /\ \A i \in 1 .. Len(outbox'[s]) - 1 : outbox'[s][i].kind = "rows"
          /\ Told(s)'
      BY <2>1, <2>2, <3>2, SendBehindRows
    <3>4. inFlight'[s] = inFlight[s] /\ ~Crashed(s)'
      BY <1>7, <2>1 DEF dispatcherVars, Crashed
    <3> QED
      BY <2>1, <3>1, <3>3, <3>4 DEF Agreement
  <2> QED
    BY <1>7, <2>1, <2>3, <2>4, <2>5, SlotStepAgrees
<1> QED
  BY <1>2, <1>3, <1>4, <1>5, <1>6, <1>7 DEF PhpWorkerStep

\* So does a death.
LEMMA EnvironmentStepAgrees ==
  ASSUME OnlyMidBatchDeaths, AgreementInv, EnvironmentStep
  PROVE  SlotAgreement'
<1> USE DEF AgreementInv, TypeOK
<1>1. CASE KillMaster /\ UNCHANGED dispatcherVars
  <2>1. \A s \in Slot : Frame(s)
    BY <1>1 DEF KillMaster, dispatcherVars, pipeVars, Frame
  <2>2. UnbornSlots' /\ UNCHANGED <<phase, seeded, inFlight>>
    BY <1>1 DEF KillMaster, UnbornSlots, dispatcherVars
  <2> QED
    BY <2>1, <2>2, AgreementFrame DEF SlotAgreement, UnseededSlots
<1>2. ASSUME NEW s \in Slot, KillWorker(s), UNCHANGED dispatcherVars PROVE SlotAgreement'
  <2>1. child[s] = "busy" /\ Die(s, "crash") /\ UNCHANGED <<mode, inbox, master, forked>>
    BY <1>2 DEF KillWorker, OnlyMidBatchDeaths
  <2>2. UNCHANGED outbox \/ \E m \in Msg : m.kind = "rows" /\ Send(s, m)
    <3>1. CASE ~UNCHANGED outbox
      <4>1. PICK written \in Prefixes(RowsOfTests(entry(s))) :
               \E d \in BOOLEAN : Send(s, RowsMsg(written, {}, d))
        BY <1>2, <3>1 DEF KillWorker, matches
      <4>2. written \in SUBSET Case
        BY EntryInJob, SuiteOperators DEF Prefixes
      <4>3. PICK d \in BOOLEAN : Send(s, RowsMsg(written, {}, d))
        BY <4>1
      <4>4. RowsMsg(written, {}, d) \in Msg /\ RowsMsg(written, {}, d).kind = "rows"
        BY <4>2, MessageTypes DEF RowsMsg
      <4> QED
        BY <4>3, <4>4
    <3> QED
      BY <3>1
  <2> QED
    BY <1>2, <2>1, <2>2, CrashAgrees
<1> QED
  BY <1>1, <1>2 DEF EnvironmentStep

\* So does stuttering.
LEMMA StutterAgrees == SlotAgreement /\ UNCHANGED vars => SlotAgreement'
<1> SUFFICES ASSUME SlotAgreement, UNCHANGED vars PROVE SlotAgreement'
  OBVIOUS
<1>1. \A s \in Slot : Frame(s)
  BY DEF vars, pipeVars, dispatcherVars, workerVars, Frame
<1>2. UNCHANGED <<mode, master, child, forked, phase, seeded, inFlight>>
  BY DEF vars, dispatcherVars, workerVars
<1> QED
  BY <1>1, <1>2, AgreementFrame DEF SlotAgreement, UnbornSlots, UnseededSlots

(* Every slot and the dispatcher agree on where the slot's plan is.        *)
THEOREM SlotsAgree ==
  ASSUME OnlyMidBatchDeaths
  PROVE  Spec => []SlotAgreement
<1>1. AgreementInv /\ [Next]_vars => SlotAgreement'
  BY RustStepAgrees, PhpMasterStepAgrees, PhpWorkerStepAgrees, EnvironmentStepAgrees,
     StutterAgrees DEF Next, Returned, AgreementInv
<1> QED
  BY InitAgrees, TypeCorrect, <1>1, PTL DEF Spec, AgreementInv

(* A batch_done or slot_died is never charged to the wrong plan: when it   *)
(* is read the slot has a plan in flight, the one the notice answers.      *)
THEOREM NoticesAreFresh ==
  ASSUME OnlyMidBatchDeaths
  PROVE  Spec => []NoStaleNotice
<1>1. SlotAgreement => NoStaleNotice
  BY DEF SlotAgreement, Agreement, NoStaleNotice
<1> QED
  BY SlotsAgree, <1>1, PTL

----------------------------------------------------------------------------
(* Why a plan can always be written to the slot it is meant for.  While    *)
(* run_resumable dispatches, a slot that has a plan, or is yet to be given *)
(* its first one, is open; a worker that ended at the end of its input, or *)
(* a slot the master gave up, is not.                                      *)
OpenSlots ==
  /\ \A s \in Slot : inFlight[s] # NoPlan => writeOpen[s]
  /\ phase = "seeding" => \A s \in Slot : s > seeded => writeOpen[s]
  /\ \A s \in slotClosed : ~writeOpen[s]
  /\ \A s \in Slot : child[s] = "zombie" /\ code[s] = "eof" => ~writeOpen[s]

(* The master leaves when all slots are given up, or, in long_lived mode,  *)
(* when all workers have ended; an inline worker is its own master.        *)
MasterStays ==
  /\ master # "killed"
  /\ master = "serving" => mode = "fork_server"
  /\ master = "waiting" => mode = "long_lived"
  /\ master = "exited" => \/ slotClosed = Slot
                          \/ mode = "long_lived" /\ \A s \in Slot : child[s] = "zombie"
  /\ mode = "inline" => \A s \in Slot : child[s] \in {"idle", "busy", "exiting", "zombie"}

(* No notice of a death is on its way to the dispatcher.                   *)
Unannounced(s) == \A i \in 1 .. Len(outbox[s]) : outbox[s][i].kind # "slot_died"

(* Outside fork_server mode nothing ends a worker on purpose before the    *)
(* end of its input, and nobody announces the death of one.                *)
WorkersStay ==
  mode # "fork_server" =>
    /\ \A p \in queue : ~p.force
    /\ \A s \in Slot :
         /\ ~inFlight[s].force
         /\ child[s] # "exiting"
         /\ child[s] = "zombie" => code[s] \in {"eof", "crash"}
         /\ Unannounced(s)

Writable == Dispatching => OpenSlots /\ MasterStays /\ WorkersStay

(* What this takes: workers end by themselves or in the middle of a batch, *)
(* the master is not killed and can fork, and outside fork_server mode,    *)
(* where nobody replaces a worker, no plan ends one.                       *)
NothingBreaks ==
  /\ OnlyMidBatchDeaths /\ MaxMasterKills = 0 /\ ~ForkMayFail
  /\ "long_lived" \in Modes => \A p \in InitialPlans : ~p.force

WritingInv == TypeOK /\ SlotAgreement /\ Writable

(* An open slot whose worker has not crashed is still read by somebody.    *)
LEMMA OpenSlotIsRead ==
  ASSUME WritingInv, Dispatching, NEW s \in Slot, writeOpen[s], ~Crashed(s)
  PROVE  CanWrite(s)
<1> USE DEF WritingInv, TypeOK, Writable
<1>1. s \notin slotClosed /\ ~(child[s] = "zombie" /\ code[s] = "eof")
  BY DEF OpenSlots
<1>2. slotClosed # Slot
  BY <1>1
<1>3. mode # "fork_server" => child[s] # "zombie"
  BY <1>1 DEF WorkersStay, Crashed
<1>4. CASE mode = "inline"
  <2>1. s = 1
    BY <1>4, PoolAssumption DEF PoolTypeOK, Slot
  <2>2. child[1] \in Running
    BY <1>3, <1>4, <2>1 DEF MasterStays, WorkersStay, Running
  <2> QED
    BY <1>4, <2>2 DEF CanWrite, AllExited, MasterAlive
<1>5. CASE mode # "inline"
  <2>1. master # "exited" /\ master # "killed"
    BY <1>2, <1>3 DEF MasterStays
  <2> QED
    BY <1>5, <2>1 DEF CanWrite, AllExited, MasterAlive
<1> QED
  BY <1>4, <1>5

(* Nobody announces a death by writing something else, or by reading.      *)
LEMMA SendAnnounces ==
  ASSUME PoolTypeOK, NEW r \in Slot, NEW s \in Slot, Unannounced(r), NEW m \in Msg,
         m.kind # "slot_died", Send(s, m)
  PROVE  Unannounced(r)'
<1>1. outbox[s] \in Seq(Msg)
  BY DEF PoolTypeOK
<1>2. /\ r = s => outbox'[r] = Append(outbox[r], m)
      /\ r # s => outbox'[r] = outbox[r]
  BY DEF Send, PoolTypeOK
<1>3. CASE r = s
  <2>1. Len(outbox[s]) \in Nat /\ Len(Append(outbox[s], m)) = Len(outbox[s]) + 1
    BY <1>1, AppendProperties
  <2>2. /\ \A i \in 1 .. Len(outbox[s]) : Append(outbox[s], m)[i] = outbox[s][i]
        /\ Append(outbox[s], m)[Len(outbox[s]) + 1] = m
    BY <1>1, AppendProperties
  <2>3. \A i \in 1 .. Len(outbox[s]) + 1 : i \in 1 .. Len(outbox[s]) \/ i = Len(outbox[s]) + 1
    BY <2>1
  <2>4. ASSUME NEW i \in 1 .. Len(outbox'[r]) PROVE outbox'[r][i].kind # "slot_died"
    BY <1>2, <1>3, <2>1, <2>2, <2>3, <2>4 DEF Unannounced
  <2> QED
    BY <2>4 DEF Unannounced
<1> QED
  BY <1>2, <1>3 DEF Unannounced

\* Reading a message of another kind leaves an unannounced death unannounced.
LEMMA ReadAnnounces ==
  ASSUME PoolTypeOK, NEW r \in Slot, NEW s \in Slot, Unannounced(r), NEW kind, Receive(s, kind)
  PROVE  Unannounced(r)' /\ (r = s => kind # "slot_died")
<1>1. outbox[s] \in Seq(Msg) /\ outbox[s] # << >>
  BY DEF PoolTypeOK, Receive
<1>2. /\ outbox'[s] = Tail(outbox[s])
      /\ r # s => outbox'[r] = outbox[r]
  BY DEF Receive, PoolTypeOK
<1>3. CASE r = s
  <2>1. /\ Len(outbox[s]) \in Nat /\ Len(outbox[s]) >= 1
        /\ Len(outbox'[s]) = Len(outbox[s]) - 1
        /\ \A i \in 1 .. Len(outbox'[s]) : outbox'[s][i] = outbox[s][i + 1]
    BY <1>1, <1>2, <1>3, HeadTailProperties, EmptySeq
  <2>2. \A i \in 1 .. Len(outbox'[s]) : i + 1 \in 1 .. Len(outbox[s])
    BY <2>1
  <2>3. Unannounced(r)'
    BY <1>3, <2>1, <2>2 DEF Unannounced
  <2>4. kind # "slot_died"
    <3>1. outbox[s][1].kind = kind /\ 1 \in 1 .. Len(outbox[s])
      BY <1>1, <2>1 DEF Receive
    <3> QED
      BY <1>3, <3>1 DEF Unannounced
  <2> QED
    BY <2>3, <2>4
<1> QED
  BY <1>2, <1>3 DEF Unannounced

(* A step in which the dispatcher gives nothing out and no worker ends.    *)
LEMMA QuietStepWrites ==
  ASSUME WritingInv, UNCHANGED <<mode, phase, writeOpen, inFlight, seeded, queue>>,
         UNCHANGED <<master, slotClosed>>,
         Dispatching => \A r \in Slot :
           /\ child'[r] = "zombie" => child[r] = "zombie" /\ code'[r] = code[r]
           /\ mode # "fork_server" =>
                /\ child'[r] # "exiting"
                /\ child[r] = "zombie" => child'[r] = "zombie"
                /\ Unannounced(r) => Unannounced(r)'
                /\ mode = "inline" => child'[r] \in {"idle", "busy", "zombie"}
  PROVE  Writable'
<1> SUFFICES ASSUME Dispatching PROVE OpenSlots' /\ MasterStays' /\ WorkersStay'
  BY DEF Writable, Dispatching
<1> USE DEF WritingInv, TypeOK, Writable
<1>1. OpenSlots'
  BY DEF OpenSlots
<1>2. MasterStays'
  BY DEF MasterStays
<1>3. WorkersStay'
  BY DEF WorkersStay, Unannounced
<1> QED
  BY <1>1, <1>2, <1>3

(* Feeding a slot that is open and holds nothing.                          *)
LEMMA FeedWrites ==
  ASSUME WritingInv, Dispatching, UNCHANGED workerSide, NEW s \in Slot, NEW q \in SUBSET Plan,
         Dispatch(s, q), writeOpen[s], ~Crashed(s),
         mode # "fork_server" => \A p \in q : ~p.force,
         \A r \in Slot : Unannounced(r) => Unannounced(r)',
         phase' = "seeding" => \A r \in Slot : r > seeded' => r # s /\ r > seeded
  PROVE  phase' = phase /\ Writable'
<1> USE DEF WritingInv, TypeOK, Writable
<1>1. CanWrite(s)
  BY OpenSlotIsRead
<1>2. /\ phase' = phase
      /\ \A r \in Slot \ {s} : writeOpen'[r] = writeOpen[r] /\ inFlight'[r] = inFlight[r]
      /\ \A r \in Slot : writeOpen'[r] => writeOpen[r]
      /\ queue' \subseteq q
      /\ inFlight'[s] # NoPlan => writeOpen'[s]
      /\ inFlight'[s] = NoPlan \/ inFlight'[s] \in q
  <2>1. CASE \E p \in q : WriteBatch(s, p) /\ inFlight' = [inFlight EXCEPT ![s] = p]
                          /\ queue' = q \ {p} /\ UNCHANGED phase
    BY <2>1 DEF WriteBatch, DispatcherTypeOK
  <2>2. CASE q = {} /\ CloseSlot(s) /\ inFlight' = [inFlight EXCEPT ![s] = NoPlan]
             /\ queue' = {} /\ UNCHANGED phase
    BY <2>2 DEF CloseSlot, DispatcherTypeOK, PoolTypeOK
  <2> QED
    BY <1>1, <2>1, <2>2 DEF Dispatch
<1>3. UNCHANGED <<mode, master, child, slotClosed, code>>
  BY DEF workerSide, workerVars
<1>4. OpenSlots'
  BY <1>2, <1>3 DEF OpenSlots, Dispatching, WorkerTypeOK
<1>5. MasterStays'
  BY <1>3 DEF MasterStays
<1>6. WorkersStay'
  <2>1. ~NoPlan.force
    BY DEF NoPlan
  <2> QED
    BY <1>2, <1>3, <2>1 DEF WorkersStay
<1> QED
  BY <1>2, <1>4, <1>5, <1>6

\* The dispatcher writes only to a pipe that has a reader.
LEMMA RustStepWrites ==
  ASSUME WritingInv, RustStep
  PROVE  Writable' /\ (NeverAborts => NeverAborts')
<1> USE DEF WritingInv, TypeOK, NeverAborts
<1>1. CASE StartLoop /\ UNCHANGED workerSide
  <2>1. phase = "seeding" /\ phase' = "loop"
    BY <1>1 DEF StartLoop
  <2>2. UNCHANGED <<mode, writeOpen, inFlight, queue, outbox, master, child, slotClosed, code>>
    BY <1>1 DEF StartLoop, pipeVars, workerSide, workerVars
  <2> QED
    BY <2>1, <2>2 DEF Writable, Dispatching, OpenSlots, MasterStays, WorkersStay, Unannounced
<1>2. CASE Watchdog \/ Join \/ Terminate
  BY <1>2 DEF Watchdog, Join, Terminate, Writable, Dispatching
<1>3. ASSUME NEW s \in Slot, Seed(s), UNCHANGED workerSide PROVE phase' = phase /\ Writable'
  <2>1. /\ phase = "seeding" /\ s = seeded + 1 /\ seeded' = s /\ outbox' = outbox
        /\ queue \in SUBSET Plan /\ Dispatch(s, queue)
    BY <1>3 DEF Seed, DispatcherTypeOK
  <2>2. Agreement(s) /\ inFlight[s] = NoPlan
    BY <2>1 DEF SlotAgreement, UnseededSlots, DispatcherTypeOK
  <2>3. writeOpen[s] /\ ~Crashed(s)
    BY <2>1, <2>2 DEF Writable, Dispatching, OpenSlots, Agreement, DispatcherTypeOK
  <2>4. \A r \in Slot : r > seeded' => r # s /\ r > seeded
    BY <2>1 DEF DispatcherTypeOK, Slot
  <2>5. Dispatching /\ \A r \in Slot : Unannounced(r) => Unannounced(r)'
    BY <2>1 DEF Dispatching, Unannounced
  <2>6. mode # "fork_server" => \A p \in queue : ~p.force
    BY <2>5 DEF Writable, WorkersStay
  <2> QED
    BY <1>3, <2>1, <2>3, <2>4, <2>5, <2>6, FeedWrites
<1>4. ASSUME NEW s \in Slot, ReceiveBatchDone(s) \/ ReceiveSlotDied(s), UNCHANGED workerSide
      PROVE  phase' = phase /\ Writable'
  <2>1. Dispatching /\ phase = "loop"
    BY <1>4 DEF ReceiveBatchDone, ReceiveSlotDied, Dispatching
  <2>2. PICK kind \in {"batch_done", "slot_died"} :
          /\ Receive(s, kind)
          /\ kind = "batch_done" => ReceiveBatchDone(s)
          /\ kind = "slot_died" => ReceiveSlotDied(s)
    BY <1>4 DEF ReceiveBatchDone, ReceiveSlotDied
  <2>3. inFlight[s] # NoPlan /\ ~Crashed(s)
    BY <2>1, <2>2, NoticeIsLast DEF SlotAgreement
  <2>4. writeOpen[s]
    BY <2>1, <2>3 DEF Writable, OpenSlots
  <2>5. \A r \in Slot : Unannounced(r) => Unannounced(r)' /\ (r = s => kind = "batch_done")
    BY <2>2, ReadAnnounces
  <2>6. mode # "fork_server" => kind = "batch_done" /\ \A p \in queue : ~p.force
    BY <2>1, <2>5 DEF Writable, WorkersStay
  <2>7. PICK q \in SUBSET Plan : Dispatch(s, q) /\ (mode # "fork_server" => q = queue)
    <3>1. CASE kind = "batch_done"
      BY <2>2, <3>1 DEF ReceiveBatchDone, DispatcherTypeOK
    <3>2. CASE kind = "slot_died"
      <4>1. inFlight[s].tests \ covered \in SUBSET Test
        BY NoPlanFacts DEF DispatcherTypeOK
      <4>2. queue \cup Requeued(inFlight[s].tests \ covered, attempts) \in SUBSET Plan
        BY <4>1, RequeuedPlans DEF DispatcherTypeOK
      <4> QED
        BY <2>2, <2>6, <3>2, <4>2 DEF ReceiveSlotDied
    <3> QED
      BY <3>1, <3>2
  <2>8. mode # "fork_server" => \A p \in q : ~p.force
    BY <2>6, <2>7
  <2>9. phase' # "seeding"
    BY <2>1, <2>7 DEF Dispatch
  <2> QED
    BY <1>4, <2>1, <2>3, <2>4, <2>5, <2>7, <2>8, <2>9, FeedWrites
<1>5. ASSUME NEW s \in Slot, ReceiveRows(s), UNCHANGED workerSide PROVE phase' = phase /\ Writable'
  <2>1. UNCHANGED <<mode, phase, writeOpen, inFlight, seeded, master, child, slotClosed, code>>
    BY <1>5 DEF ReceiveRows, workerSide, workerVars
  <2>2. \A r \in Slot : Unannounced(r) => Unannounced(r)'
    BY <1>5, ReadAnnounces DEF ReceiveRows
  <2>3. queue' \subseteq queue
    BY <1>5 DEF ReceiveRows
  <2> QED
    BY <2>1, <2>2, <2>3 DEF Writable, Dispatching, OpenSlots, MasterStays, WorkersStay
<1>6. ASSUME NEW s \in Slot, ReceiveEof(s), UNCHANGED workerSide
      PROVE  phase' # "aborted" /\ Writable'
  <2>1. CASE phase' = "done"
    BY <2>1 DEF Writable, Dispatching
  <2>2. CASE phase' # "done"
    <3>1. /\ phase = "loop" /\ phase' = phase /\ seeded' = seeded
          /\ UNCHANGED <<mode, writeOpen, inFlight, queue, outbox, master, child, slotClosed, code>>
      BY <1>6, <2>2 DEF ReceiveEof, pipeVars, workerSide, workerVars
    <3> QED
      BY <3>1 DEF Writable, Dispatching, OpenSlots, MasterStays, WorkersStay, Unannounced
  <2> QED
    BY <2>1, <2>2
<1>7. Writable'
  BY <1>1, <1>2, <1>3, <1>4, <1>5, <1>6 DEF RustStep
<1>8. NeverAborts => NeverAborts'
  <2>1. CASE StartLoop \/ Watchdog \/ Join \/ Terminate
    BY <2>1 DEF StartLoop, Watchdog, Join, Terminate
  <2> QED
    BY <2>1, <1>3, <1>4, <1>5, <1>6 DEF RustStep
<1> QED
  BY <1>7, <1>8

(* The end of a worker that is running: in the middle of a batch, at the   *)
(* end of its input, or on purpose.                                        *)
LEMMA EndWrites ==
  ASSUME WritingInv, NEW s \in Slot, NEW how, Die(s, how),
         how = "eof" => ~writeOpen[s],
         mode # "fork_server" /\ Dispatching => how \in {"eof", "crash"},
         UNCHANGED <<mode, phase, writeOpen, inFlight, seeded, queue>>,
         UNCHANGED <<master, slotClosed>>,
         child[s] # "zombie",
         mode # "fork_server" /\ Dispatching =>
           \A r \in Slot : Unannounced(r) => Unannounced(r)'
  PROVE  Writable'
<1> SUFFICES ASSUME Dispatching PROVE OpenSlots' /\ MasterStays' /\ WorkersStay'
  BY DEF Writable, Dispatching
<1> USE DEF WritingInv, TypeOK, Writable
<1>1. /\ child'[s] = "zombie" /\ code'[s] = how
      /\ \A r \in Slot \ {s} : child'[r] = child[r] /\ code'[r] = code[r]
  BY DEF Die, PoolTypeOK, WorkerTypeOK
<1>2. OpenSlots'
  BY <1>1 DEF OpenSlots
<1>3. MasterStays'
  BY <1>1 DEF MasterStays
<1>4. WorkersStay'
  BY <1>1 DEF WorkersStay
<1> QED
  BY <1>2, <1>3, <1>4

\* The fork-master closes no pipe the dispatcher may still write to.
LEMMA PhpMasterStepWrites ==
  ASSUME NothingBreaks, WritingInv, PhpMasterStep
  PROVE  Writable'
<1> SUFFICES ASSUME Dispatching PROVE OpenSlots' /\ MasterStays' /\ WorkersStay'
  BY DEF Writable, Dispatching, PhpMasterStep, dispatcherVars
<1> USE DEF WritingInv, TypeOK, Writable
<1>0. UNCHANGED <<phase, seeded, queue, inFlight>>
  BY DEF PhpMasterStep, dispatcherVars
<1>1. CASE StartServing
  <2>1. /\ UNCHANGED <<mode, writeOpen, outbox, child, slotClosed, code>>
        /\ mode \in {"fork_server", "long_lived"}
        /\ master' = IF mode = "fork_server" THEN "serving" ELSE "waiting"
    BY <1>1, PoolAssumption DEF StartServing, pipeVars, workerVars, PoolTypeOK, Mode
  <2> QED
    BY <1>0, <2>1 DEF OpenSlots, MasterStays, WorkersStay, Unannounced
<1>2. CASE MasterExit
  <2>1. /\ UNCHANGED <<mode, writeOpen, outbox, child, slotClosed, code>>
        /\ master' = "exited"
        /\ \/ master = "serving" /\ slotClosed = Slot
           \/ master = "waiting" /\ \A s \in Slot : child[s] = "zombie"
    BY <1>2 DEF MasterExit, pipeVars, workerVars
  <2> QED
    BY <1>0, <2>1 DEF OpenSlots, MasterStays, WorkersStay, Unannounced
<1>3. ASSUME NEW s \in Slot, ForkWorker(s) PROVE OpenSlots' /\ MasterStays' /\ WorkersStay'
  <2>1. /\ UNCHANGED <<mode, writeOpen, outbox, master, slotClosed>>
        /\ mode # "inline" /\ master = "forking"
        /\ child'[s] = "idle"
        /\ \A r \in Slot \ {s} : child'[r] = child[r] /\ code'[r] = code[r]
    BY <1>3 DEF ForkWorker, Spawn, pipeVars, PoolTypeOK, WorkerTypeOK
  <2> QED
    BY <1>0, <2>1 DEF OpenSlots, MasterStays, WorkersStay, Unannounced
<1>4. ASSUME NEW s \in Slot, Reap(s) PROVE OpenSlots' /\ MasterStays' /\ WorkersStay'
  <2>1. /\ UNCHANGED <<mode, writeOpen, master>>
        /\ mode = "fork_server" /\ master = "serving"
        /\ child'[s] \in {"idle", "none"}
        /\ \A r \in Slot \ {s} : child'[r] = child[r] /\ code'[r] = code[r]
        /\ \/ slotClosed' = slotClosed
           \/ slotClosed' = slotClosed \cup {s} /\ ~writeOpen[s]
    BY <1>4 DEF Reap, Spawn, PoolTypeOK, WorkerTypeOK, MasterStays, OpenSlots, NothingBreaks
  <2> QED
    BY <1>0, <2>1 DEF OpenSlots, MasterStays, WorkersStay
<1> QED
  BY <1>1, <1>2, <1>3, <1>4 DEF PhpMasterStep

\* Nor does a worker.
LEMMA PhpWorkerStepWrites ==
  ASSUME NothingBreaks, WritingInv, NEW s \in Slot, PhpWorkerStep(s)
  PROVE  Writable'
<1> USE DEF WritingInv, TypeOK
<1>0. /\ UNCHANGED <<mode, phase, writeOpen, inFlight, seeded, queue>>
      /\ UNCHANGED <<master, slotClosed>>
  BY DEF PhpWorkerStep, dispatcherVars, ReadPlan, StdinEof, ClassThrows, RunClass, CrashInClass,
         FinishBatch, Recycle, pipeVars
<1>1. /\ entry(s) \in SUBSET Test /\ StopOn \in BOOLEAN
      /\ ClassesOf(entry(s)) \in SUBSET Class
      /\ ClassesOf(job[s].tests) \in SUBSET Class
      /\ RowsOfTests(entry(s)) \in SUBSET Case
  BY EntryInJob, SuiteOperators, WorkerAssumption
<1>2. ASSUME NEW rows \in SUBSET Case, NEW cs \in SUBSET Class, NEW d \in BOOLEAN,
             Send(s, RowsMsg(rows, cs, d)), NEW r \in Slot, Unannounced(r)
      PROVE  Unannounced(r)'
  <2>1. RowsMsg(rows, cs, d) \in Msg /\ RowsMsg(rows, cs, d).kind # "slot_died"
    BY MessageTypes DEF RowsMsg
  <2> QED
    BY <1>2, <2>1, SendAnnounces
<1>3. CASE ReadPlan(s)
  <2>1. /\ UNCHANGED <<outbox, code>> /\ child[s] = "idle" /\ child'[s] = "busy"
        /\ \A r \in Slot \ {s} : child'[r] = child[r]
    BY <1>3 DEF ReadPlan, PoolTypeOK
  <2>2. \A r \in Slot : Unannounced(r) => Unannounced(r)'
    BY <2>1 DEF Unannounced
  <2> QED
    BY <1>0, <2>1, <2>2, QuietStepWrites DEF Writable, WorkersStay, MasterStays
<1>4. CASE StdinEof(s)
  <2>1. Die(s, "eof") /\ ~writeOpen[s] /\ child[s] = "idle" /\ outbox' = outbox
    BY <1>4 DEF StdinEof, NothingBreaks, OnlyMidBatchDeaths, pipeVars
  <2>2. \A r \in Slot : Unannounced(r) => Unannounced(r)'
    BY <2>1 DEF Unannounced
  <2> QED
    BY <1>0, <2>1, <2>2, EndWrites
<1>5. CASE Recycle(s)
  <2>1. Die(s, "recycle") /\ child[s] = "exiting" /\ outbox' = outbox
    BY <1>5 DEF Recycle, NothingBreaks, OnlyMidBatchDeaths, pipeVars
  <2>2. Dispatching => mode = "fork_server"
    BY <2>1 DEF Writable, WorkersStay
  <2> QED
    BY <1>0, <2>1, <2>2, EndWrites
<1>6. CASE ClassThrows(s) \/ RunClass(s)
  <2>1. UNCHANGED <<child, code>> /\ child[s] = "busy"
    BY <1>6 DEF ClassThrows, RunClass, busyWith
  <2>2. \A r \in Slot : Unannounced(r) => Unannounced(r)'
    BY <1>1, <1>2, <1>6 DEF ClassThrows, RunClass, matches
  <2> QED
    BY <1>0, <2>1, <2>2, QuietStepWrites DEF Writable, WorkersStay, MasterStays
<1>7. CASE CrashInClass(s)
  <2>1. Die(s, "crash") /\ child[s] = "busy"
    BY <1>7 DEF CrashInClass, busyWith
  <2>2. \A r \in Slot : Unannounced(r) => Unannounced(r)'
    <3>1. CASE outbox' = outbox
      BY <3>1 DEF Unannounced
    <3>2. CASE outbox' # outbox
      BY <1>1, <1>2, <1>7, <3>2 DEF CrashInClass
    <3> QED
      BY <3>1, <3>2
  <2> QED
    BY <1>0, <2>1, <2>2, EndWrites
<1>8. CASE FinishBatch(s)
  <2>1. /\ code' = code /\ child[s] = "busy" /\ Send(s, Notice("batch_done"))
        /\ \/ child'[s] = "idle"
           \/ child'[s] = "exiting" /\ (mode = "fork_server" \/ job[s].force)
        /\ \A r \in Slot \ {s} : child'[r] = child[r]
    BY <1>8 DEF FinishBatch, PoolTypeOK
  <2>2. Notice("batch_done") \in Msg /\ Notice("batch_done").kind # "slot_died"
    BY MessageTypes DEF Notice
  <2>3. \A r \in Slot : Unannounced(r) => Unannounced(r)'
    BY <2>1, <2>2, SendAnnounces
  <2>4. Dispatching /\ mode # "fork_server" => ~job[s].force
    BY <2>1 DEF Dispatching, SlotAgreement, Agreement, Writable, WorkersStay
  <2> QED
    BY <1>0, <2>1, <2>3, <2>4, QuietStepWrites DEF Writable, WorkersStay, MasterStays
<1> QED
  BY <1>3, <1>4, <1>5, <1>6, <1>7, <1>8 DEF PhpWorkerStep

\* Nor does a death, if nothing breaks.
LEMMA EnvironmentStepWrites ==
  ASSUME NothingBreaks, WritingInv, EnvironmentStep
  PROVE  Writable'
<1> USE DEF WritingInv, TypeOK
<1>1. PICK s \in Slot : KillWorker(s) /\ UNCHANGED dispatcherVars
  BY DEF EnvironmentStep, KillMaster, NothingBreaks, WorkerTypeOK
<1>2. /\ UNCHANGED <<mode, phase, writeOpen, inFlight, seeded, queue>>
      /\ UNCHANGED <<master, slotClosed>>
      /\ Die(s, "crash") /\ child[s] = "busy"
  BY <1>1 DEF KillWorker, dispatcherVars, NothingBreaks, OnlyMidBatchDeaths
<1>3. \A r \in Slot : Unannounced(r) => Unannounced(r)'
  <2>1. CASE outbox' = outbox
    BY <2>1 DEF Unannounced
  <2>2. CASE outbox' # outbox
    <3>1. PICK written \in Prefixes(RowsOfTests(entry(s))), d \in BOOLEAN :
             Send(s, RowsMsg(written, {}, d))
      BY <1>1, <2>2 DEF KillWorker, matches
    <3>2. written \in SUBSET Case
      BY EntryInJob, SuiteOperators DEF Prefixes
    <3>3. RowsMsg(written, {}, d) \in Msg /\ RowsMsg(written, {}, d).kind # "slot_died"
      BY <3>2, MessageTypes DEF RowsMsg
    <3> QED
      BY <3>1, <3>3, SendAnnounces
  <2> QED
    BY <2>1, <2>2
<1> QED
  BY <1>2, <1>3, EndWrites

\* At the start every pipe has a reader.
LEMMA InitWrites ==
  ASSUME NothingBreaks, Init
  PROVE  Writable /\ NeverAborts
<1> USE DEF Init, PoolInit, DispatcherInit, WorkerInit
<1>1. OpenSlots /\ NeverAborts
  BY DEF OpenSlots, NeverAborts
<1>2. MasterStays
  BY DEF MasterStays
<1>3. WorkersStay
  <2>1. mode # "fork_server" => \A p \in InitialPlans : ~p.force
    BY PoolAssumption DEF NothingBreaks, Mode
  <2>2. ~NoPlan.force /\ Len(<< >>) = 0
    BY DEF NoPlan
  <2> QED
    BY <2>1, <2>2 DEF WorkersStay, Unannounced
<1> QED
  BY <1>1, <1>2, <1>3 DEF Writable

(* run_resumable reports; it does not fail: when nothing but tests in the  *)
(* middle of a batch ends a worker, every plan it writes is written to an  *)
(* open pipe that somebody will read.                                      *)
THEOREM RunsDoNotAbort ==
  ASSUME NothingBreaks
  PROVE  Spec => []NeverAborts
<1> DEFINE Holds == TypeOK /\ SlotAgreement
<1>1. Init => Writable /\ NeverAborts
  BY InitWrites
<1>2. Holds /\ Writable /\ NeverAborts /\ [Next]_vars => Writable' /\ NeverAborts'
  <2> SUFFICES ASSUME Holds, Writable, NeverAborts, [Next]_vars PROVE Writable' /\ NeverAborts'
    OBVIOUS
  <2>0. WritingInv
    BY DEF WritingInv
  <2>1. CASE RustStep
    BY <2>0, <2>1, RustStepWrites
  <2>2. CASE PhpMasterStep \/ EnvironmentStep \/ \E s \in Slot : PhpWorkerStep(s)
    <3>1. NeverAborts'
      BY <2>2 DEF PhpMasterStep, EnvironmentStep, PhpWorkerStep, dispatcherVars, NeverAborts
    <3> QED
      BY <2>0, <2>2, <3>1, PhpMasterStepWrites, EnvironmentStepWrites, PhpWorkerStepWrites
  <2>3. CASE UNCHANGED vars
    BY <2>3 DEF vars, pipeVars, dispatcherVars, workerVars, Writable, Dispatching, OpenSlots,
                MasterStays, WorkersStay, Unannounced, NeverAborts
  <2> QED
    BY <2>1, <2>2, <2>3 DEF Next, Returned
<1>3. Spec => []Holds
  BY TypeCorrect, SlotsAgree, PTL DEF NothingBreaks
<1> QED
  BY <1>1, <1>2, <1>3, PTL DEF Spec
=============================================================================
