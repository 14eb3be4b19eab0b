---------------------------- MODULE RecoveryProofs ----------------------------
(***************************************************************************)
(* How often a test counts, and what recovery must not lose, for every     *)
(* suite, number of slots, mode and choice of misbehaving tests.  No       *)
(* outcome row is pushed to the report twice, and none besides an Error    *)
(* fabricated for its test; a test that is reported is not handed back;    *)
(* none is started a third time.  When the dispatcher forgets a plan, a    *)
(* queue or a whole run, it has an answer for each test that must have     *)
(* one; and with that, run_resumable keeps the safety half of its          *)
(* contract.  All but the hand-back provided workers crash only in the     *)
(* middle of a batch.                                                      *)
(***************************************************************************)
EXTENDS RunnerProofs

CountingInv == AgreementInv /\ OutcomesFresh /\ CountedAtMostOnce

(* What a test yields is its own.                                          *)
LEMMA RowsAreOfTheirTests ==
  ASSUME NEW S \in SUBSET Test, NEW rows \in SUBSET RowsOfTests(S), NEW cs, NEW d
  PROVE  /\ Reported(RowsMsg(rows, cs, d)) \subseteq S
         /\ Reported(RowsMsg({}, cs, d)) = {}
         /\ \A kind : Reported(Notice(kind)) = {}
BY DEF Reported, RowsMsg, RowsOfTests, Notice

(* The part of a slot Unreported(s) reads, and pairs as far as they are    *)
(* about the slot's plan.                                                  *)
LEMMA UnreportedFrame ==
  ASSUME NEW s \in Slot, Unreported(s), Agreement(s),
         inbox'[s] = inbox[s], outbox'[s] = outbox[s], child'[s] = child[s], job'[s] = job[s],
         inFlight'[s] = inFlight[s],
         pairs' \cap inFlight[s].tests = pairs \cap inFlight[s].tests
  PROVE  Unreported(s)'
<1>1. child[s] = "busy" => job[s].tests \subseteq inFlight[s].tests
  BY DEF Agreement
<1>2. inbox'[s] # << >> => inFlight'[s].tests \cap pairs' = {}
  BY DEF Unreported
<1>3. child'[s] = "busy" => job'[s].tests \cap pairs' = {}
  BY <1>1 DEF Unreported
<1>4. \A i \in 1 .. Len(outbox'[s]) : Reported(outbox'[s][i]) \subseteq inFlight'[s].tests \ pairs'
  BY DEF Unreported
<1>5. \A i \in 1 .. Len(outbox'[s]) :
        /\ child'[s] = "busy" => Reported(outbox'[s][i]) \cap job'[s].tests = {}
        /\ \A j \in 1 .. Len(outbox'[s]) :
             i # j => Reported(outbox'[s][i]) \cap Reported(outbox'[s][j]) = {}
  BY DEF Unreported
<1> QED
  BY <1>2, <1>3, <1>4, <1>5 DEF Unreported, Reported

(* Appending a message without rows, or with rows of tests the worker had  *)
(* yet to report and has now done with.                                    *)
LEMMA SendUnreported ==
  ASSUME PoolTypeOK, NEW s \in Slot, Unreported(s), Agreement(s), NEW m \in Msg, Send(s, m),
         Reported(m) = {} \/ (child[s] = "busy" /\ Reported(m) \subseteq job[s].tests),
         UNCHANGED <<inbox, inFlight, pairs>>,
         child'[s] = "busy" => /\ child[s] = "busy"
                               /\ job'[s].tests \subseteq job[s].tests \ Reported(m)
  PROVE  Unreported(s)'
<1> DEFINE n == Len(outbox[s])
<1>1. outbox[s] \in Seq(Msg) /\ n \in Nat
  BY DEF PoolTypeOK
<1>2. /\ Len(outbox'[s]) = n + 1
      /\ outbox'[s][n + 1] = m
      /\ \A i \in 1 .. n : outbox'[s][i] = outbox[s][i]
  BY <1>1, AppendProperties DEF Send, PoolTypeOK
<1>3. /\ child[s] = "busy" => /\ job[s].tests \subseteq inFlight[s].tests
                              /\ job[s].tests \cap pairs = {}
      /\ inbox[s] # << >> => inFlight[s].tests \cap pairs = {}
  BY DEF Agreement, Unreported
<1>4. \A i \in 1 .. n : /\ Reported(outbox[s][i]) \subseteq inFlight[s].tests \ pairs
                        /\ child[s] = "busy" => Reported(outbox[s][i]) \cap job[s].tests = {}
                        /\ Reported(outbox[s][i]) \cap Reported(m) = {}
                        /\ \A j \in 1 .. n : i # j =>
                             Reported(outbox[s][i]) \cap Reported(outbox[s][j]) = {}
  BY DEF Unreported
<1> HIDE DEF n
<1> DEFINE R(i) == Reported(outbox'[s][i])
<1>5. R(n + 1) = Reported(m) /\ \A i \in 1 .. n : R(i) = Reported(outbox[s][i])
  BY <1>2
<1>6. \A i \in 1 .. n + 1 : i \in 1 .. n \/ i = n + 1
  BY <1>1
<1> HIDE DEF R
<1>7. \A i \in 1 .. n + 1 : /\ R(i) \subseteq inFlight[s].tests \ pairs
                            /\ child'[s] = "busy" => R(i) \cap job'[s].tests = {}
  <2> SUFFICES ASSUME NEW i \in 1 .. n + 1
               PROVE  /\ R(i) \subseteq inFlight[s].tests \ pairs
                      /\ child'[s] = "busy" => R(i) \cap job'[s].tests = {}
    OBVIOUS
  <2>1. CASE i \in 1 .. n
    BY <1>4, <1>5, <2>1
  <2>2. CASE i = n + 1
    BY <1>3, <1>5, <2>2
  <2> QED
    BY <1>6, <2>1, <2>2
<1>8. \A i, j \in 1 .. n + 1 : i # j => R(i) \cap R(j) = {}
  <2> SUFFICES ASSUME NEW i \in 1 .. n + 1, NEW j \in 1 .. n + 1, i # j
               PROVE  R(i) \cap R(j) = {}
    OBVIOUS
  <2>1. CASE i \in 1 .. n /\ j \in 1 .. n
    BY <1>4, <1>5, <2>1
  <2>2. CASE i \in 1 .. n /\ j = n + 1
    BY <1>4, <1>5, <2>2
  <2>3. CASE i = n + 1 /\ j \in 1 .. n
    BY <1>4, <1>5, <2>3
  <2> QED
    BY <1>6, <2>1, <2>2, <2>3
<1>9. /\ inbox'[s] # << >> => inFlight'[s].tests \cap pairs' = {}
      /\ inFlight'[s] = inFlight[s] /\ pairs' = pairs
      /\ child'[s] = "busy" => job'[s].tests \cap pairs = {}
  BY <1>3
<1> QED
  BY <1>2, <1>7, <1>8, <1>9 DEF Unreported, R, Reported

(* Reading a message of rows.                                              *)
LEMMA ReadUnreported ==
  ASSUME PoolTypeOK, NEW s \in Slot, Unreported(s), Agreement(s), Receive(s, "rows"),
         UNCHANGED <<inbox, child, job, inFlight>>,
         pairs' = pairs \cup Reported(Head(outbox[s]))
  PROVE  Unreported(s)'
<1> DEFINE n == Len(outbox[s])
<1>1. outbox[s] \in Seq(Msg) /\ outbox[s] # << >>
  BY DEF PoolTypeOK, Receive
<1>2. /\ n \in Nat /\ n >= 1
      /\ Len(outbox'[s]) = n - 1
      /\ \A i \in 1 .. n - 1 : outbox'[s][i] = outbox[s][i + 1]
      /\ Head(outbox[s]) = outbox[s][1]
  BY <1>1, HeadTailProperties, EmptySeq DEF Receive, PoolTypeOK
<1>3. inbox[s] = << >>
  BY <1>1 DEF Agreement
<1>4. \A i \in 1 .. n : /\ Reported(outbox[s][i]) \subseteq inFlight[s].tests \ pairs
                        /\ child[s] = "busy" => Reported(outbox[s][i]) \cap job[s].tests = {}
                        /\ \A j \in 1 .. n : i # j =>
                             Reported(outbox[s][i]) \cap Reported(outbox[s][j]) = {}
  BY DEF Unreported
<1> HIDE DEF n
<1> DEFINE R(i) == Reported(outbox'[s][i])
<1>5. \A i \in 1 .. n - 1 : i + 1 \in 1 .. n /\ R(i) = Reported(outbox[s][i + 1]) /\ i + 1 # 1
  BY <1>2
<1>6. 1 \in 1 .. n /\ pairs' = pairs \cup Reported(outbox[s][1])
  BY <1>2
<1> HIDE DEF R
<1>7. \A i \in 1 .. n - 1 : /\ R(i) \subseteq inFlight[s].tests \ pairs'
                            /\ child[s] = "busy" => R(i) \cap job[s].tests = {}
  BY <1>4, <1>5, <1>6
<1>8. \A i, j \in 1 .. n - 1 : i # j => R(i) \cap R(j) = {}
  <2> SUFFICES ASSUME NEW i \in 1 .. n - 1, NEW j \in 1 .. n - 1, i # j
               PROVE  R(i) \cap R(j) = {}
    OBVIOUS
  <2>1. i + 1 # j + 1
    BY <1>2
  <2> QED
    BY <1>4, <1>5, <2>1
<1>9. child[s] = "busy" => job[s].tests \cap pairs' = {}
  BY <1>4, <1>6 DEF Unreported
<1> QED
  BY <1>2, <1>3, <1>7, <1>8, <1>9 DEF Unreported, R, Reported

(* Feeding a slot whose output is read from plans nothing was received of. *)
LEMMA DispatchFresh ==
  ASSUME PoolTypeOK, DispatcherTypeOK, NEW s \in Slot, NEW q \in SUBSET Plan, Dispatch(s, q),
         phase' \in {"seeding", "loop"}, outbox'[s] = << >>, child'[s] # "busy",
         inbox[s] = << >>,
         \A p \in q : p.tests \cap pairs' = {},
         \A p, r \in q : p # r => p.tests \cap r.tests = {},
         \A p \in q : \A r \in Slot \ {s} : p.tests \cap inFlight[r].tests = {},
         \A r, t \in Slot : r # t => inFlight[r].tests \cap inFlight[t].tests = {},
         \A r \in Slot \ {s} : Unreported(r)'
  PROVE  PlansDisjoint' /\ \A r \in Slot : Unreported(r)'
<1> USE DEF PoolTypeOK, DispatcherTypeOK
<1>1. /\ \A r \in Slot \ {s} : inFlight'[r] = inFlight[r]
      /\ queue' \subseteq q
      /\ \/ inFlight'[s] = NoPlan /\ inbox'[s] = << >>
         \/ inFlight'[s] \in q /\ inFlight'[s] \notin queue'
  <2>1. CASE \E p \in q : /\ WriteBatch(s, p)
                          /\ queue' = q \ {p}
                          /\ inFlight' = [inFlight EXCEPT ![s] = p]
    BY <2>1
  <2>2. CASE q = {} /\ CloseSlot(s) /\ queue' = {} /\ inFlight' = [inFlight EXCEPT ![s] = NoPlan]
    BY <2>2 DEF CloseSlot
  <2> QED
    BY <2>1, <2>2 DEF Dispatch
<1>2. NoPlan.tests = {}
  BY NoPlanFacts
<1>3. Unreported(s)'
  <2>1. Len(outbox'[s]) = 0
    OBVIOUS
  <2>2. inbox'[s] # << >> => inFlight'[s].tests \cap pairs' = {}
    BY <1>1
  <2> QED
    BY <2>1, <2>2 DEF Unreported
<1>4. \A p \in queue' : p.tests \cap pairs' = {}
  BY <1>1
<1>5. \A p, r \in queue' : p # r => p.tests \cap r.tests = {}
  BY <1>1
<1>6. \A p \in queue' : p.tests \cap inFlight'[s].tests = {}
  BY <1>1, <1>2
<1>7. \A p \in queue' : \A r \in Slot : p.tests \cap inFlight'[r].tests = {}
  BY <1>1, <1>6
<1>8. \A r \in Slot \ {s} : inFlight'[r].tests \cap inFlight'[s].tests = {}
  BY <1>1, <1>2
<1>9. \A r, t \in Slot : r # t => inFlight'[r].tests \cap inFlight'[t].tests = {}
  <2> SUFFICES ASSUME NEW r \in Slot, NEW t \in Slot, r # t
               PROVE  inFlight'[r].tests \cap inFlight'[t].tests = {}
    OBVIOUS
  <2>1. CASE r # s /\ t # s
    <3>1. inFlight'[r] = inFlight[r] /\ inFlight'[t] = inFlight[t]
      BY <1>1, <2>1
    <3> QED
      BY <3>1
  <2>2. CASE r = s \/ t = s
    BY <1>8, <2>2
  <2> QED
    BY <2>1, <2>2
<1>10. PlansDisjoint'
  BY <1>4, <1>5, <1>7, <1>9 DEF PlansDisjoint
<1> QED
  BY <1>3, <1>10

(* The plans requeue_unrun makes share no test.                            *)
LEMMA RequeuedDisjoint ==
  ASSUME NEW unrun \in SUBSET Test, NEW a
  PROVE  /\ \A p \in Requeued(unrun, a) : /\ p.tests \subseteq unrun
                                          /\ p.tests \cap Poisoned(unrun, a) = {}
         /\ \A p, r \in Requeued(unrun, a) : p # r => p.tests \cap r.tests = {}
<1> DEFINE u == [tests |-> Suspect(unrun, a), force |-> TRUE]
           v == [tests |-> Innocent(unrun, a), force |-> FALSE]
<1>1. /\ Suspect(unrun, a) \subseteq unrun \ Poisoned(unrun, a)
      /\ Innocent(unrun, a) \subseteq unrun \ Poisoned(unrun, a)
      /\ Suspect(unrun, a) \cap Innocent(unrun, a) = {}
  BY DEF Suspect, Innocent, First
<1>2. \A p \in Requeued(unrun, a) : p = u \/ p = v
  BY DEF Requeued
<1>3. u.tests = Suspect(unrun, a) /\ v.tests = Innocent(unrun, a)
  OBVIOUS
<1> HIDE DEF u, v
<1> QED
  BY <1>1, <1>2, <1>3

\* Bump adds one to the counters of S and to no other.
LEMMA BumpValue ==
  ASSUME NEW D, NEW f \in [D -> Nat], NEW S
  PROVE  \A x \in D : Bump(f, S)[x] = IF x \in S THEN f[x] + 1 ELSE f[x]
BY DEF Bump

(* An Error is fabricated for tests nothing was received of.               *)
LEMMA FabricatedOnce ==
  ASSUME TypeOK, CountedAtMostOnce, ReportKnown, phase \in {"seeding", "loop"},
         NEW S, S \cap pairs = {}, synth' = Bump(synth, S), streamed' = streamed
  PROVE  /\ CountedAtMostOnce'
         /\ \A t \in Test : synth'[t] > 0 => t \in pairs \/ t \in S
<1> USE DEF TypeOK, DispatcherTypeOK
<1>1. \A t \in Test : synth'[t] = IF t \in S THEN synth[t] + 1 ELSE synth[t]
  BY BumpValue
<1>2. ASSUME NEW c \in Case PROVE streamed'[c] + synth'[c[1]] <= 1
  <2>1. c[1] \in Test /\ streamed[c] \in Nat /\ synth[c[1]] \in Nat
    BY <1>2, CaseTests
  <2>2. streamed[c] + synth[c[1]] <= 1
    BY <1>2 DEF CountedAtMostOnce
  <2>3. CASE c[1] \in S
    <3>1. c[1] \notin pairs
      BY <2>3
    <3>2. streamed[c] = 0 /\ synth[c[1]] = 0
      BY <1>2, <2>1, <3>1 DEF ReportKnown
    <3> QED
      BY <1>1, <2>1, <2>3, <3>2
  <2>4. CASE c[1] \notin S
    BY <1>1, <2>1, <2>2, <2>4
  <2> QED
    BY <2>3, <2>4
<1> QED
  BY <1>1, <1>2 DEF CountedAtMostOnce, ReportKnown

(* Steps that leave the report alone.                                      *)
LEMMA ReportUntouched ==
  ASSUME CountedAtMostOnce, ReportKnown, UNCHANGED <<streamed, synth, pairs>>,
         phase' \in {"seeding", "loop"} => phase \in {"seeding", "loop"}
  PROVE  CountedAtMostOnce' /\ ReportKnown'
BY DEF CountedAtMostOnce, ReportKnown

----------------------------------------------------------------------------
\* Before the run nothing has been counted.
LEMMA InitFresh == Init => OutcomesFresh /\ CountedAtMostOnce
<1> SUFFICES ASSUME Init PROVE OutcomesFresh /\ CountedAtMostOnce
  OBVIOUS
<1> USE DEF Init, PoolInit, DispatcherInit, WorkerInit
<1>1. /\ \A c \in Case : streamed[c] = 0
      /\ \A t \in Test : synth[t] = 0
  OBVIOUS
<1>2. ReportKnown /\ CountedAtMostOnce
  BY <1>1, CaseTests DEF ReportKnown, CountedAtMostOnce
<1>3. PlansDisjoint
  BY PlansPartitionTheSuite, NoPlanFacts DEF PlansDisjoint
<1>4. ASSUME NEW s \in Slot PROVE Unreported(s)
  <2>1. inbox[s] = << >> /\ Len(outbox[s]) = 0 /\ child[s] # "busy"
    BY <1>4
  <2> QED
    BY <2>1 DEF Unreported
<1> QED
  BY <1>2, <1>3, <1>4 DEF OutcomesFresh

(* Seed and ReceiveBatchDone: the queue is what it was.                    *)
LEMMA FeedFresh ==
  ASSUME CountingInv, NEW s \in Slot, Seed(s) \/ ReceiveBatchDone(s), UNCHANGED workerSide
  PROVE  OutcomesFresh' /\ CountedAtMostOnce'
<1> USE DEF CountingInv, AgreementInv, TypeOK
<1>1. /\ phase \in {"seeding", "loop"} /\ Dispatch(s, queue) /\ queue \in SUBSET Plan
      /\ UNCHANGED <<pairs, streamed, synth, child, job, code, buffer>>
  BY DEF Seed, ReceiveBatchDone, receivedVars, reportVars, workerSide, workerVars, DispatcherTypeOK
<1>2. CountedAtMostOnce' /\ ReportKnown'
  BY <1>1, ReportUntouched DEF OutcomesFresh
<1>3. CASE phase' \notin {"seeding", "loop"}
  BY <1>2, <1>3 DEF OutcomesFresh
<1>4. CASE phase' \in {"seeding", "loop"}
  <2>1. PlansDisjoint /\ \A r \in Slot : Unreported(r) /\ Agreement(r)
    BY <1>1 DEF OutcomesFresh, SlotAgreement
  <2>2. /\ inbox[s] = << >> /\ outbox'[s] = << >> /\ child[s] # "busy"
        /\ \A r \in Slot \ {s} : outbox'[r] = outbox[r]
    <3>1. CASE Seed(s)
      <4>1. s > seeded /\ inFlight[s] = NoPlan /\ outbox' = outbox
        BY <3>1 DEF Seed, SlotAgreement, UnseededSlots, DispatcherTypeOK, Slot
      <4> QED
        BY <2>1, <4>1 DEF Agreement
    <3>2. CASE ReceiveBatchDone(s)
      BY <2>1, <3>2, NoticeIsLast DEF ReceiveBatchDone
    <3> QED
      BY <3>1, <3>2
  <2>3. \A r \in Slot \ {s} : inbox'[r] = inbox[r] /\ inFlight'[r] = inFlight[r]
    BY <1>1 DEF Dispatch, WriteBatch, CloseSlot, PoolTypeOK, DispatcherTypeOK
  <2>4. \A r \in Slot \ {s} : Unreported(r)'
    BY <1>1, <2>1, <2>2, <2>3, UnreportedFrame
  <2>5. PlansDisjoint' /\ \A r \in Slot : Unreported(r)'
    BY <1>1, <1>4, <2>1, <2>2, <2>4, DispatchFresh DEF PlansDisjoint
  <2> QED
    BY <1>2, <2>5 DEF OutcomesFresh
<1> QED
  BY <1>3, <1>4

(* ReceiveSlotDied: the plan in flight is cut up.                          *)
LEMMA SlotDiedFresh ==
  ASSUME CountingInv, NEW s \in Slot, ReceiveSlotDied(s), UNCHANGED workerSide
  PROVE  OutcomesFresh' /\ CountedAtMostOnce'
<1> USE DEF CountingInv, AgreementInv, TypeOK
<1> DEFINE unrun == inFlight[s].tests \ covered
           poison == Poisoned(unrun, attempts)
           q == queue \cup Requeued(unrun, attempts)
<1>1. unrun \in SUBSET Test /\ unrun \subseteq inFlight[s].tests /\ unrun \cap pairs = {}
  BY NoPlanFacts DEF DispatcherTypeOK, covered, Covered
<1>2. /\ phase = "loop" /\ Receive(s, "slot_died")
      /\ pairs' = pairs \cup poison
      /\ synth' = Bump(synth, poison)
      /\ Dispatch(s, q)
      /\ UNCHANGED <<streamed, child, job>>
  BY DEF ReceiveSlotDied, workerSide, workerVars
<1> HIDE DEF unrun
<1>3. /\ poison \subseteq unrun
      /\ q \in SUBSET Plan
      /\ \A p \in Requeued(unrun, attempts) : p.tests \subseteq unrun /\ p.tests \cap poison = {}
      /\ \A p, r \in Requeued(unrun, attempts) : p # r => p.tests \cap r.tests = {}
  BY <1>1, RequeuedPlans, RequeuedDisjoint DEF DispatcherTypeOK
<1> HIDE DEF poison
<1>4. PlansDisjoint /\ ReportKnown /\ \A r \in Slot : Unreported(r) /\ Agreement(r)
  BY <1>2 DEF OutcomesFresh, SlotAgreement
<1>5. CountedAtMostOnce' /\ ReportKnown'
  <2>1. poison \cap pairs = {}
    BY <1>1, <1>3
  <2>2. CountedAtMostOnce' /\ \A t \in Test : synth'[t] > 0 => t \in pairs \/ t \in poison
    BY <1>2, <1>4, <2>1, FabricatedOnce
  <2> QED
    BY <1>2, <1>4, <2>2 DEF ReportKnown
<1>6. CASE phase' \notin {"seeding", "loop"}
  BY <1>5, <1>6 DEF OutcomesFresh
<1>7. CASE phase' \in {"seeding", "loop"}
  <2>1. /\ inbox[s] = << >> /\ outbox'[s] = << >> /\ child[s] # "busy"
        /\ \A r \in Slot \ {s} : outbox'[r] = outbox[r]
    BY <1>2, <1>4, NoticeIsLast
  <2>2. \A r \in Slot \ {s} : inbox'[r] = inbox[r] /\ inFlight'[r] = inFlight[r]
    BY <1>2 DEF Dispatch, WriteBatch, CloseSlot, PoolTypeOK, DispatcherTypeOK
  <2>3. \A r \in Slot \ {s} : pairs' \cap inFlight[r].tests = pairs \cap inFlight[r].tests
    BY <1>1, <1>2, <1>3, <1>4 DEF PlansDisjoint
  <2>4. \A r \in Slot \ {s} : Unreported(r)'
    BY <1>2, <1>4, <2>1, <2>2, <2>3, UnreportedFrame
  <2>5. \A p \in q : p.tests \cap pairs' = {}
    BY <1>1, <1>2, <1>3, <1>4 DEF PlansDisjoint
  <2>6. \A p, r \in q : p # r => p.tests \cap r.tests = {}
    <3> SUFFICES ASSUME NEW p \in q, NEW r \in q, p # r PROVE p.tests \cap r.tests = {}
      OBVIOUS
    <3>1. CASE p \in queue /\ r \in queue
      BY <1>4, <3>1 DEF PlansDisjoint
    <3>2. CASE p \in Requeued(unrun, attempts) /\ r \in Requeued(unrun, attempts)
      BY <1>3, <3>2
    <3>3. \A x \in queue : \A y \in Requeued(unrun, attempts) : x.tests \cap y.tests = {}
      BY <1>1, <1>3, <1>4 DEF PlansDisjoint
    <3> QED
      BY <3>1, <3>2, <3>3
  <2>7. \A p \in q : \A r \in Slot \ {s} : p.tests \cap inFlight[r].tests = {}
    BY <1>1, <1>3, <1>4 DEF PlansDisjoint
  <2>8. PlansDisjoint' /\ \A r \in Slot : Unreported(r)'
    <3> HIDE DEF q
    <3>1. \A r, t \in Slot : r # t => inFlight[r].tests \cap inFlight[t].tests = {}
      BY <1>4 DEF PlansDisjoint
    <3> QED
      BY <1>2, <1>3, <1>7, <2>1, <2>4, <2>5, <2>6, <2>7, <3>1, DispatchFresh
  <2> QED
    BY <1>5, <2>8 DEF OutcomesFresh
<1> QED
  BY <1>6, <1>7

(* ReceiveRows: what is received was not received before.                  *)
LEMMA RowsFresh ==
  ASSUME CountingInv, NEW s \in Slot, ReceiveRows(s), UNCHANGED workerSide
  PROVE  OutcomesFresh' /\ CountedAtMostOnce'
<1> USE DEF CountingInv, AgreementInv, TypeOK
<1> DEFINE m == Head(outbox[s])
<1>1. /\ phase = "loop" /\ phase' = phase /\ Receive(s, "rows")
      /\ pairs' = pairs \cup Reported(m)
      /\ streamed' = Bump(streamed, m.rows)
      /\ queue' \subseteq queue
      /\ UNCHANGED <<inbox, inFlight, synth, child, job>>
  BY DEF ReceiveRows, Reported, workerSide, workerVars
<1>2. PlansDisjoint /\ ReportKnown /\ \A r \in Slot : Unreported(r) /\ Agreement(r)
  BY <1>1 DEF OutcomesFresh, SlotAgreement
<1>3. Reported(m) \subseteq inFlight[s].tests \ pairs
  <2>1. outbox[s] \in Seq(Msg) /\ outbox[s] # << >>
    BY <1>1 DEF Receive, PoolTypeOK
  <2>2. 1 \in 1 .. Len(outbox[s]) /\ m = outbox[s][1]
    BY <2>1, EmptySeq
  <2>3. Reported(outbox[s][1]) \subseteq inFlight[s].tests \ pairs
    BY <1>2, <2>2 DEF Unreported
  <2> QED
    BY <2>2, <2>3
<1>4. \A c \in m.rows : c[1] \in Reported(m)
  BY DEF Reported
<1> HIDE DEF m
<1>5. \A c \in Case : streamed'[c] = IF c \in m.rows THEN streamed[c] + 1 ELSE streamed[c]
  BY <1>1, BumpValue DEF DispatcherTypeOK
<1>6. ASSUME NEW c \in Case
      PROVE  /\ streamed'[c] + synth'[c[1]] <= 1
             /\ streamed'[c] > 0 => c[1] \in pairs'
  <2>1. c[1] \in Test /\ streamed[c] \in Nat /\ synth[c[1]] \in Nat
    BY <1>6, CaseTests DEF DispatcherTypeOK
  <2>2. CASE c \in m.rows
    <3>1. c[1] \notin pairs /\ c[1] \in pairs'
      BY <1>1, <1>3, <1>4, <2>2
    <3>2. streamed[c] = 0 /\ synth[c[1]] = 0
      BY <1>1, <1>2, <1>6, <2>1, <3>1 DEF ReportKnown
    <3> QED
      BY <1>1, <1>5, <1>6, <2>1, <2>2, <3>1, <3>2
  <2>3. CASE c \notin m.rows
    BY <1>1, <1>2, <1>5, <1>6, <2>3 DEF ReportKnown, CountedAtMostOnce
  <2> QED
    BY <2>2, <2>3
<1>7. CountedAtMostOnce' /\ ReportKnown'
  BY <1>1, <1>2, <1>6 DEF CountedAtMostOnce, ReportKnown
<1>8. PlansDisjoint'
  <2>1. \A p \in queue' : p \in queue /\ p.tests \cap pairs' = {}
    BY <1>1, <1>2, <1>3 DEF PlansDisjoint
  <2> QED
    BY <1>1, <1>2, <2>1 DEF PlansDisjoint
<1>9. Unreported(s)'
  BY <1>1, <1>2, ReadUnreported DEF m
<1>10. ASSUME NEW r \in Slot \ {s} PROVE Unreported(r)'
  <2>1. outbox'[r] = outbox[r]
    BY <1>1 DEF Receive, PoolTypeOK
  <2>2. pairs' \cap inFlight[r].tests = pairs \cap inFlight[r].tests
    BY <1>1, <1>2, <1>3 DEF PlansDisjoint
  <2> QED
    BY <1>1, <1>2, <2>1, <2>2, UnreportedFrame
<1> QED
  BY <1>7, <1>8, <1>9, <1>10 DEF OutcomesFresh

(* SynthOwed: every test still owed an answer, and not received, gets one. *)
LEMMA SynthOwedCounted ==
  ASSUME TypeOK, CountedAtMostOnce, ReportKnown, phase \in {"seeding", "loop"},
         SynthOwed, UNCHANGED <<pairs, streamed>>, phase' \notin {"seeding", "loop"}
  PROVE  CountedAtMostOnce' /\ ReportKnown'
<1>1. synth' = Bump(synth, Owed \ covered) /\ (Owed \ covered) \cap pairs = {}
  <2>1. pairs \subseteq covered
    BY DEF covered, Covered, TypeOK, DispatcherTypeOK
  <2> QED
    BY <2>1 DEF SynthOwed
<1> QED
  BY <1>1, FabricatedOnce DEF ReportKnown

\* No step of the dispatcher counts an outcome a second time.
LEMMA RustStepFresh == CountingInv /\ RustStep => OutcomesFresh' /\ CountedAtMostOnce'
<1> SUFFICES ASSUME CountingInv, RustStep PROVE OutcomesFresh' /\ CountedAtMostOnce'
  OBVIOUS
<1> USE DEF CountingInv, AgreementInv
<1>1. CASE StartLoop /\ UNCHANGED workerSide
  <2>1. /\ phase \in {"seeding", "loop"}
        /\ UNCHANGED <<inbox, outbox, child, job, inFlight, queue, pairs, streamed, synth>>
    BY <1>1 DEF StartLoop, pipeVars, receivedVars, reportVars, workerSide, workerVars
  <2>2. CountedAtMostOnce' /\ ReportKnown'
    BY <2>1, ReportUntouched DEF OutcomesFresh
  <2>3. PlansDisjoint' /\ \A r \in Slot : Unreported(r)'
    BY <2>1, UnreportedFrame DEF OutcomesFresh, SlotAgreement, PlansDisjoint
  <2> QED
    BY <2>2, <2>3 DEF OutcomesFresh
<1>2. CASE (Terminate /\ UNCHANGED <<mode, workerVars>>) \/ (Join /\ UNCHANGED workerSide)
  <2>1. UNCHANGED <<streamed, synth, pairs>> /\ phase' \notin {"seeding", "loop"}
    BY <1>2 DEF Terminate, Join, receivedVars, reportVars
  <2>2. CountedAtMostOnce' /\ ReportKnown'
    BY <2>1, ReportUntouched DEF OutcomesFresh
  <2> QED
    BY <2>1, <2>2 DEF OutcomesFresh
<1>3. CASE Watchdog /\ UNCHANGED workerSide
  <2>1. /\ phase = "loop" /\ phase' \notin {"seeding", "loop"}
        /\ SynthOwed /\ UNCHANGED <<pairs, streamed>>
    BY <1>3 DEF Watchdog, receivedVars
  <2>2. CountedAtMostOnce' /\ ReportKnown'
    BY <2>1, SynthOwedCounted DEF OutcomesFresh
  <2> QED
    BY <2>1, <2>2 DEF OutcomesFresh
<1>4. ASSUME NEW s \in Slot, ReceiveEof(s), UNCHANGED workerSide
      PROVE  OutcomesFresh' /\ CountedAtMostOnce'
  <2>1. phase = "loop" /\ UNCHANGED <<pairs, streamed, inbox, outbox, child, job>>
    BY <1>4 DEF ReceiveEof, receivedVars, pipeVars, workerSide, workerVars
  <2>2. CASE UNCHANGED <<phase, queue, inFlight, synth>>
    <3>1. CountedAtMostOnce' /\ ReportKnown'
      BY <2>1, <2>2, ReportUntouched DEF OutcomesFresh
    <3>2. PlansDisjoint' /\ \A r \in Slot : Unreported(r)'
      BY <2>1, <2>2, UnreportedFrame DEF OutcomesFresh, SlotAgreement, PlansDisjoint
    <3> QED
      BY <3>1, <3>2 DEF OutcomesFresh
  <2>3. CASE phase' = "done" /\ UNCHANGED synth
    <3>1. CountedAtMostOnce' /\ ReportKnown'
      BY <2>1, <2>3, ReportUntouched DEF OutcomesFresh
    <3> QED
      BY <2>3, <3>1 DEF OutcomesFresh
  <2>4. CASE phase' = "done" /\ SynthOwed
    <3>1. CountedAtMostOnce' /\ ReportKnown'
      BY <2>1, <2>4, SynthOwedCounted DEF OutcomesFresh
    <3> QED
      BY <2>4, <3>1 DEF OutcomesFresh
  <2> QED
    BY <1>4, <2>2, <2>3, <2>4 DEF ReceiveEof
<1> QED
  BY <1>1, <1>2, <1>3, <1>4, FeedFresh, SlotDiedFresh, RowsFresh DEF RustStep

(* A worker-side step of slot s: what it does to slot s decides.           *)
LEMMA WorkerSideFresh ==
  ASSUME CountingInv, NEW s \in Slot, UNCHANGED dispatcherVars,
         phase \in {"seeding", "loop"} => Unreported(s)',
         \A r \in Slot \ {s} : /\ inbox'[r] = inbox[r] /\ outbox'[r] = outbox[r]
                               /\ child'[r] = child[r] /\ job'[r] = job[r]
  PROVE  OutcomesFresh' /\ CountedAtMostOnce'
<1> USE DEF CountingInv, AgreementInv
<1>1. UNCHANGED <<phase, queue, inFlight, pairs, streamed, synth>>
  BY DEF dispatcherVars
<1>2. CountedAtMostOnce' /\ ReportKnown'
  BY <1>1, ReportUntouched DEF OutcomesFresh
<1>3. ASSUME phase' \in {"seeding", "loop"} PROVE PlansDisjoint' /\ \A r \in Slot : Unreported(r)'
  <2>1. PlansDisjoint /\ \A r \in Slot : Unreported(r) /\ Agreement(r)
    BY <1>1, <1>3 DEF OutcomesFresh, SlotAgreement
  <2>2. \A r \in Slot \ {s} : Unreported(r)'
    BY <1>1, <2>1, UnreportedFrame
  <2>3. PlansDisjoint'
    BY <1>1, <2>1 DEF PlansDisjoint
  <2> QED
    BY <1>1, <1>3, <2>2, <2>3
<1> QED
  BY <1>2, <1>3 DEF OutcomesFresh

(* A slot whose worker is not, or no longer, busy and writes no rows.      *)
LEMMA QuietUnreported ==
  ASSUME NEW s \in Slot, Unreported(s), outbox'[s] = outbox[s], inbox'[s] = inbox[s],
         UNCHANGED <<inFlight, pairs>>, child'[s] # "busy"
  PROVE  Unreported(s)'
BY DEF Unreported, Reported

(* Writing a message of rows of tests the worker has done with: the whole  *)
(* worker-side step.                                                       *)
LEMMA WritingFresh ==
  ASSUME CountingInv, NEW s \in Slot, UNCHANGED dispatcherVars, child[s] = "busy",
         NEW m \in Msg, Send(s, m), Reported(m) \subseteq job[s].tests, UNCHANGED inbox,
         child'[s] = "busy" => job'[s].tests \subseteq job[s].tests \ Reported(m),
         \A r \in Slot \ {s} : child'[r] = child[r] /\ job'[r] = job[r]
  PROVE  OutcomesFresh' /\ CountedAtMostOnce'
<1> USE DEF CountingInv, AgreementInv, TypeOK
<1>1. UNCHANGED <<inFlight, pairs>>
  BY DEF dispatcherVars
<1>2. phase \in {"seeding", "loop"} => Unreported(s)'
  BY <1>1, SendUnreported DEF OutcomesFresh, SlotAgreement
<1>3. \A r \in Slot \ {s} : outbox'[r] = outbox[r]
  BY DEF Send, PoolTypeOK
<1> QED
  BY <1>2, <1>3, WorkerSideFresh

\* No step of the fork-master puts a counted outcome back on its way.
LEMMA PhpMasterStepFresh ==
  CountingInv /\ PhpMasterStep => OutcomesFresh' /\ CountedAtMostOnce'
<1> SUFFICES ASSUME CountingInv, PhpMasterStep PROVE OutcomesFresh' /\ CountedAtMostOnce'
  OBVIOUS
<1> USE DEF CountingInv, AgreementInv, TypeOK
<1>1. CASE (StartServing \/ MasterExit) /\ UNCHANGED dispatcherVars
  <2>1. UNCHANGED <<inbox, outbox, child, job, phase, queue, inFlight, pairs, streamed, synth>>
    BY <1>1 DEF StartServing, MasterExit, pipeVars, workerVars, dispatcherVars
  <2>2. CountedAtMostOnce' /\ ReportKnown'
    BY <2>1, ReportUntouched DEF OutcomesFresh
  <2>3. phase \in {"seeding", "loop"} => PlansDisjoint' /\ \A r \in Slot : Unreported(r)'
    BY <2>1, UnreportedFrame DEF OutcomesFresh, SlotAgreement, PlansDisjoint
  <2> QED
    BY <2>1, <2>2, <2>3 DEF OutcomesFresh
<1>2. ASSUME NEW s \in Slot, ForkWorker(s), UNCHANGED dispatcherVars
      PROVE  OutcomesFresh' /\ CountedAtMostOnce'
  <2>1. /\ UNCHANGED <<inbox, outbox, job>> /\ child'[s] = "idle"
        /\ \A r \in Slot \ {s} : child'[r] = child[r]
    BY <1>2 DEF ForkWorker, Spawn, pipeVars, PoolTypeOK
  <2>2. phase \in {"seeding", "loop"} => Unreported(s)'
    BY <1>2, <2>1, QuietUnreported DEF OutcomesFresh, dispatcherVars
  <2> QED
    BY <1>2, <2>1, <2>2, WorkerSideFresh
<1>3. ASSUME NEW s \in Slot, Reap(s), UNCHANGED dispatcherVars
      PROVE  OutcomesFresh' /\ CountedAtMostOnce'
  <2>1. /\ UNCHANGED <<inbox, job>> /\ child[s] = "zombie" /\ child'[s] \in {"idle", "none"}
        /\ \A r \in Slot \ {s} : child'[r] = child[r]
    BY <1>3 DEF Reap, Spawn, PoolTypeOK
  <2>2. CASE outbox' = outbox
    <3>1. phase \in {"seeding", "loop"} => Unreported(s)'
      BY <1>3, <2>1, <2>2, QuietUnreported DEF OutcomesFresh, dispatcherVars
    <3> QED
      BY <1>3, <2>1, <2>2, <3>1, WorkerSideFresh
  <2>3. CASE Send(s, Notice("slot_died"))
    <3>1. Notice("slot_died") \in Msg /\ Reported(Notice("slot_died")) = {}
      BY MessageTypes DEF Reported, Notice
    <3>2. ASSUME phase \in {"seeding", "loop"} PROVE Unreported(s)'
      BY <1>3, <2>1, <2>3, <3>1, <3>2, SendUnreported
      DEF OutcomesFresh, SlotAgreement, dispatcherVars
    <3>3. \A r \in Slot \ {s} : outbox'[r] = outbox[r]
      BY <2>3 DEF Send, PoolTypeOK
    <3> QED
      BY <1>3, <2>1, <3>2, <3>3, WorkerSideFresh
  <2> QED
    BY <1>3, <2>2, <2>3 DEF Reap
<1> QED
  BY <1>1, <1>2, <1>3 DEF PhpMasterStep

\* No step of a worker does.
LEMMA PhpWorkerStepFresh ==
  ASSUME OnlyMidBatchDeaths, CountingInv, NEW s \in Slot, PhpWorkerStep(s)
  PROVE  OutcomesFresh' /\ CountedAtMostOnce'
<1> USE DEF CountingInv, AgreementInv, TypeOK
<1> DEFINE Rest == UNCHANGED dispatcherVars
<1>0. /\ entry(s) \in SUBSET Test /\ entry(s) \subseteq job[s].tests
      /\ StopOn \in BOOLEAN
      /\ ClassesOf(entry(s)) \in SUBSET Class
      /\ ClassesOf(job[s].tests) \in SUBSET Class
      /\ RowsOfTests(entry(s)) \in SUBSET Case
  BY EntryInJob, SuiteOperators, WorkerAssumption
<1>1. CASE ReadPlan(s) /\ Rest
  <2>1. /\ child[s] = "idle" /\ child' = [child EXCEPT ![s] = "busy"]
        /\ outbox' = outbox /\ UNCHANGED <<inFlight, pairs, phase>>
        /\ \A r \in Slot \ {s} : inbox'[r] = inbox[r] /\ child'[r] = child[r] /\ job'[r] = job[r]
    BY <1>1 DEF ReadPlan, dispatcherVars, PoolTypeOK, WorkerTypeOK
  <2>2. ASSUME phase \in {"seeding", "loop"} PROVE Unreported(s)'
    <3>1. /\ SlotAgreement' /\ phase' \in {"seeding", "loop"}
          /\ Agreement(s) /\ Unreported(s)
      BY <2>1, <2>2, PhpWorkerStepAgrees DEF SlotAgreement, OutcomesFresh
    <3>2. Agreement(s)' /\ child'[s] = "busy"
      BY <2>1, <3>1 DEF SlotAgreement, PoolTypeOK
    <3>3. inbox[s] # << >>
      <4>1. buffer[s] = << >> /\ buffer[s] \o inbox[s] # << >>
        BY <1>1, <3>1 DEF ReadPlan, Agreement
      <4>2. buffer[s] \o inbox[s] = inbox[s]
        BY <4>1, ConcatEmptySeq DEF PoolTypeOK
      <4> QED
        BY <4>1, <4>2
    <3>4. outbox[s] = << >> /\ inFlight[s].tests \cap pairs = {}
      BY <3>1, <3>3 DEF Agreement, Unreported
    <3>5. inbox'[s] = << >> /\ job'[s].tests \subseteq inFlight[s].tests
      BY <2>1, <3>2 DEF Agreement
    <3>6. Len(outbox'[s]) = 0
      BY <2>1, <3>4
    <3> QED
      BY <2>1, <3>4, <3>5, <3>6 DEF Unreported
  <2> QED
    BY <1>1, <2>1, <2>2, WorkerSideFresh
<1>2. CASE (StdinEof(s) \/ Recycle(s)) /\ Rest
  <2>1. /\ UNCHANGED <<inbox, outbox, inFlight, pairs>> /\ child'[s] # "busy"
        /\ \A r \in Slot \ {s} : child'[r] = child[r] /\ job'[r] = job[r]
    BY <1>2 DEF StdinEof, Recycle, Die, pipeVars, dispatcherVars, PoolTypeOK, WorkerTypeOK
  <2>2. phase \in {"seeding", "loop"} => Unreported(s)'
    BY <2>1, QuietUnreported DEF OutcomesFresh
  <2> QED
    BY <1>2, <2>1, <2>2, WorkerSideFresh
<1>3. CASE ClassThrows(s) /\ Rest
  <2> DEFINE m == RowsMsg({}, ClassesOf(entry(s)), StopOn)
  <2>1. m \in Msg /\ Reported(m) = {}
    BY <1>0, MessageTypes DEF Reported, RowsMsg
  <2>2. /\ child[s] = "busy" /\ Send(s, m) /\ UNCHANGED <<inbox, child>>
        /\ job'[s].tests \subseteq job[s].tests
        /\ \A r \in Slot \ {s} : job'[r] = job[r]
    BY <1>3 DEF ClassThrows, busyWith, WorkerTypeOK
  <2> HIDE DEF m
  <2> QED
    BY <1>3, <2>1, <2>2, WritingFresh
<1>4. CASE RunClass(s) /\ Rest
  <2>1. PICK d \in BOOLEAN : Send(s, RowsMsg(RowsOfTests(entry(s)), {}, d))
    BY <1>4 DEF RunClass, matches
  <2> DEFINE m == RowsMsg(RowsOfTests(entry(s)), {}, d)
  <2>2. m \in Msg /\ Reported(m) \subseteq entry(s)
    BY <1>0, MessageTypes, RowsAreOfTheirTests
  <2>3. /\ child[s] = "busy" /\ UNCHANGED <<inbox, child>>
        /\ job'[s].tests = job[s].tests \ entry(s)
        /\ \A r \in Slot \ {s} : job'[r] = job[r]
    BY <1>4 DEF RunClass, busyWith, WorkerTypeOK
  <2>4. Send(s, m)
    BY <2>1
  <2> HIDE DEF m
  <2>5. Reported(m) \subseteq job[s].tests /\ job'[s].tests \subseteq job[s].tests \ Reported(m)
    BY <1>0, <2>2, <2>3
  <2> QED
    BY <1>4, <2>2, <2>3, <2>4, <2>5, WritingFresh
<1>5. CASE CrashInClass(s) /\ Rest
  <2>1. /\ child[s] = "busy" /\ child'[s] # "busy" /\ UNCHANGED inbox
        /\ \A r \in Slot \ {s} : child'[r] = child[r] /\ job'[r] = job[r]
    BY <1>5 DEF CrashInClass, busyWith, Die, PoolTypeOK, WorkerTypeOK
  <2> DEFINE m == RowsMsg({}, ClassesOf(job[s].tests), StopOn)
  <2>2. m \in Msg /\ Reported(m) = {}
    BY <1>0, MessageTypes DEF Reported, RowsMsg
  <2>3. Send(s, m) \/ outbox' = outbox
    BY <1>5 DEF CrashInClass
  <2> HIDE DEF m
  <2>4. CASE Send(s, m)
    BY <1>5, <2>1, <2>2, <2>4, WritingFresh
  <2>5. CASE outbox' = outbox
    <3>1. phase \in {"seeding", "loop"} => Unreported(s)'
      BY <1>5, <2>1, <2>5, QuietUnreported DEF OutcomesFresh, dispatcherVars
    <3> QED
      BY <1>5, <2>1, <2>5, <3>1, WorkerSideFresh
  <2> QED
    BY <2>3, <2>4, <2>5
<1>6. CASE FinishBatch(s) /\ Rest
  <2> DEFINE m == Notice("batch_done")
  <2>1. m \in Msg /\ Reported(m) = {}
    BY MessageTypes DEF Reported, Notice
  <2>2. /\ child[s] = "busy" /\ child'[s] # "busy" /\ Send(s, m) /\ UNCHANGED inbox
        /\ \A r \in Slot \ {s} : child'[r] = child[r] /\ job'[r] = job[r]
    BY <1>6 DEF FinishBatch, PoolTypeOK, WorkerTypeOK
  <2> HIDE DEF m
  <2> QED
    BY <1>6, <2>1, <2>2, WritingFresh
<1> QED
  BY <1>1, <1>2, <1>3, <1>4, <1>5, <1>6 DEF PhpWorkerStep

\* No death of a worker or of the master does.
LEMMA EnvironmentStepFresh ==
  ASSUME OnlyMidBatchDeaths, CountingInv, EnvironmentStep
  PROVE  OutcomesFresh' /\ CountedAtMostOnce'
<1> USE DEF CountingInv, AgreementInv, TypeOK
<1>1. CASE KillMaster /\ UNCHANGED dispatcherVars
  <2>1. UNCHANGED <<inbox, outbox, child, job, phase, queue, inFlight, pairs, streamed, synth>>
    BY <1>1 DEF KillMaster, pipeVars, dispatcherVars
  <2>2. CountedAtMostOnce' /\ ReportKnown'
    BY <2>1, ReportUntouched DEF OutcomesFresh
  <2>3. phase \in {"seeding", "loop"} => PlansDisjoint' /\ \A r \in Slot : Unreported(r)'
    BY <2>1, UnreportedFrame DEF OutcomesFresh, SlotAgreement, PlansDisjoint
  <2> QED
    BY <2>1, <2>2, <2>3 DEF OutcomesFresh
<1>2. ASSUME NEW s \in Slot, KillWorker(s), UNCHANGED dispatcherVars
      PROVE  OutcomesFresh' /\ CountedAtMostOnce'
  <2>1. /\ child[s] = "busy" /\ child'[s] # "busy" /\ UNCHANGED inbox
        /\ \A r \in Slot \ {s} : child'[r] = child[r] /\ job'[r] = job[r]
    BY <1>2 DEF KillWorker, OnlyMidBatchDeaths, Die, PoolTypeOK, WorkerTypeOK
  <2>2. CASE outbox' = outbox
    <3>1. phase \in {"seeding", "loop"} => Unreported(s)'
      BY <1>2, <2>1, <2>2, QuietUnreported DEF OutcomesFresh, dispatcherVars
    <3> QED
      BY <1>2, <2>1, <2>2, <3>1, WorkerSideFresh
  <2>3. CASE outbox' # outbox
    <3>1. PICK written \in Prefixes(RowsOfTests(entry(s))) :
             \E d \in BOOLEAN : Send(s, RowsMsg(written, {}, d))
      BY <1>2, <2>3 DEF KillWorker, matches
    <3>2. PICK d \in BOOLEAN : Send(s, RowsMsg(written, {}, d))
      BY <3>1
    <3>3. /\ written \in SUBSET RowsOfTests(entry(s)) /\ RowsOfTests(entry(s)) \in SUBSET Case
          /\ entry(s) \in SUBSET Test /\ entry(s) \subseteq job[s].tests
      BY EntryInJob, SuiteOperators DEF Prefixes
    <3> DEFINE m == RowsMsg(written, {}, d)
    <3>4. m \in Msg /\ Reported(m) \subseteq job[s].tests
      BY <3>3, MessageTypes, RowsAreOfTheirTests
    <3>5. Send(s, m)
      BY <3>2
    <3> HIDE DEF m
    <3> QED
      BY <1>2, <2>1, <3>4, <3>5, WritingFresh
  <2> QED
    BY <2>2, <2>3
<1> QED
  BY <1>1, <1>2 DEF EnvironmentStep

\* Nor does stuttering.
LEMMA StutterFresh ==
  CountingInv /\ UNCHANGED vars => OutcomesFresh' /\ CountedAtMostOnce'
<1> SUFFICES ASSUME CountingInv, UNCHANGED vars PROVE OutcomesFresh' /\ CountedAtMostOnce'
  OBVIOUS
<1>1. UNCHANGED <<inbox, outbox, child, job, phase, queue, inFlight, pairs, streamed, synth>>
  BY DEF vars, pipeVars, dispatcherVars, workerVars
<1>2. CountedAtMostOnce' /\ ReportKnown'
  BY <1>1, ReportUntouched DEF CountingInv, OutcomesFresh
<1>3. phase \in {"seeding", "loop"} => PlansDisjoint' /\ \A r \in Slot : Unreported(r)'
  BY <1>1, UnreportedFrame DEF CountingInv, AgreementInv, OutcomesFresh, SlotAgreement, PlansDisjoint
<1> QED
  BY <1>1, <1>2, <1>3 DEF OutcomesFresh

\* The three facts together: every reachable state counts an outcome at most once.
LEMMA CountingIsInvariant ==
  ASSUME OnlyMidBatchDeaths
  PROVE  Spec => [](OutcomesFresh /\ CountedAtMostOnce)
<1> DEFINE Inv == OutcomesFresh /\ CountedAtMostOnce
<1>1. AgreementInv /\ Inv /\ [Next]_vars => Inv'
  BY RustStepFresh, PhpMasterStepFresh, PhpWorkerStepFresh, EnvironmentStepFresh, StutterFresh
  DEF Next, Returned, CountingInv
<1>2. Init => Inv
  BY InitFresh
<1>3. Spec => []AgreementInv
  BY TypeCorrect, SlotsAgree, PTL DEF AgreementInv
<1> HIDE DEF Inv
<1>4. Spec => []Inv
  BY <1>1, <1>2, <1>3, PTL DEF Spec
<1> QED
  BY <1>4 DEF Inv

(* While run_resumable dispatches, no test is in two of its plans, and     *)
(* what may still be reported of a plan has not been: in every run in      *)
(* which workers crash only in the middle of a batch.                      *)
THEOREM OutcomesAreFresh ==
  ASSUME OnlyMidBatchDeaths
  PROVE  Spec => []OutcomesFresh
BY CountingIsInvariant, PTL

(* The counted-at-most-once invariant holds of every run in which workers  *)
(* crash only in the middle of a batch, whatever the suite, the plans, the *)
(* slots and the tests that crash, exit, throw or hang, and however often  *)
(* workers and master are killed.                                          *)
THEOREM CountedOnce ==
  ASSUME OnlyMidBatchDeaths
  PROVE  Spec => []CountedAtMostOnce
BY CountingIsInvariant, PTL

----------------------------------------------------------------------------
(* What the report holds, run_resumable knows to be received, also when it *)
(* hands tests back.                                                       *)
HandBackInv ==
  /\ ReportKnown
  /\ masterDied => phase = "done" /\ \A t \in Test : synth[t] > 0 => t \in pairs

(* The tests a slot's worker has not started: they wait in the pipe or in  *)
(* its batch.                                                              *)
Piped(q) == UNION {q[i].tests : i \in 1 .. Len(q)}
Waiting(s) == (IF child[s] = "busy" THEN job[s].tests ELSE {}) \cup Piped(inbox[s])

(* A slot holds one plan at a time, from the pipe to the worker.           *)
OnePlan(s) ==
  /\ buffer[s] = << >>
  /\ inbox[s] = << >> \/ (child[s] # "busy" /\ \E p \in Plan : inbox[s] = <<p>>)

(* A test is started at most once more than a worker died under it, and    *)
(* the tests still to be started have not been since the last death.       *)
StartsBehindDeaths ==
  /\ \A t \in Test : attempts[t] <= 1 /\ executions[t] <= attempts[t] + 1
  /\ \A s \in Slot : OnePlan(s) /\ \A t \in Waiting(s) : executions[t] <= attempts[t]
  /\ \A r, s \in Slot : r # s => Waiting(r) \cap Waiting(s) = {}
  /\ phase \in {"seeding", "loop"} => \A p \in queue : \A t \in p.tests : executions[t] <= attempts[t]


----------------------------------------------------------------------------
(* The Rust steps' own part: what HandBackInv reads.                       *)
LEMMA RustStepHandBack == TypeOK /\ HandBackInv /\ RustStep => HandBackInv'
<1> SUFFICES ASSUME TypeOK, HandBackInv, RustStep PROVE HandBackInv'
  OBVIOUS
<1> USE DEF TypeOK, DispatcherTypeOK
<1>1. ASSUME UNCHANGED <<masterDied, pairs, streamed, synth>>,
             phase' = phase \/ phase \in {"seeding", "loop"} \/ phase \in {"terminating", "joining"},
             phase' \in {"seeding", "loop"} => phase \in {"seeding", "loop"}
      PROVE  HandBackInv'
  BY <1>1 DEF HandBackInv, ReportKnown
<1>2. CASE StartLoop \/ Terminate \/ Join
  BY <1>1, <1>2 DEF StartLoop, Terminate, Join, receivedVars, reportVars
<1>3. ASSUME NEW s \in Slot, Seed(s) \/ ReceiveBatchDone(s) PROVE HandBackInv'
  <2>1. UNCHANGED <<masterDied, pairs, streamed, synth>> /\ phase \in {"seeding", "loop"}
    BY <1>3 DEF Seed, ReceiveBatchDone, receivedVars, reportVars
  <2> QED
    BY <1>1, <2>1
<1>4. CASE Watchdog
  <2>1. masterDied = FALSE /\ masterDied' = FALSE
    BY <1>4 DEF Watchdog, HandBackInv
  <2> QED
    BY <1>4, <2>1 DEF Watchdog, HandBackInv, ReportKnown, receivedVars
<1>5. ASSUME NEW s \in Slot, ReceiveRows(s) PROVE HandBackInv'
  <2>1. /\ UNCHANGED <<masterDied, synth, phase>> /\ phase = "loop"
        /\ pairs' = pairs \cup {c[1] : c \in Head(outbox[s]).rows}
        /\ streamed' = Bump(streamed, Head(outbox[s]).rows)
    BY <1>5 DEF ReceiveRows
  <2>2. \A c \in Case : streamed'[c] > 0 => c[1] \in pairs'
    <3>1. \A c \in Case : streamed'[c] =
             IF c \in Head(outbox[s]).rows THEN streamed[c] + 1 ELSE streamed[c]
      BY <2>1, BumpValue
    <3> QED
      BY <2>1, <3>1 DEF HandBackInv, ReportKnown
  <2> QED
    BY <2>1, <2>2 DEF HandBackInv, ReportKnown
<1>6. ASSUME NEW s \in Slot, ReceiveSlotDied(s) PROVE HandBackInv'
  <2> DEFINE poison == Poisoned(inFlight[s].tests \ covered, attempts)
  <2>1. /\ UNCHANGED <<masterDied, streamed>> /\ phase = "loop"
        /\ pairs' = pairs \cup poison
        /\ synth' = Bump(synth, poison)
    BY <1>6 DEF ReceiveSlotDied
  <2> HIDE DEF poison
  <2>2. \A t \in Test : synth'[t] = IF t \in poison THEN synth[t] + 1 ELSE synth[t]
    BY <2>1, BumpValue
  <2>3. masterDied = FALSE
    BY <2>1 DEF HandBackInv
  <2> QED
    BY <2>1, <2>2, <2>3 DEF HandBackInv, ReportKnown
<1>7. ASSUME NEW s \in Slot, ReceiveEof(s) PROVE HandBackInv'
  <2>1. phase = "loop" /\ masterDied = FALSE /\ UNCHANGED <<pairs, streamed>>
    BY <1>7 DEF ReceiveEof, HandBackInv, receivedVars
  <2>2. \/ UNCHANGED <<phase, masterDied, synth>>
        \/ phase' = "done" /\ masterDied' = TRUE /\ UNCHANGED synth
        \/ phase' = "done" /\ UNCHANGED masterDied
    BY <1>7 DEF ReceiveEof
  <2> QED
    BY <2>1, <2>2 DEF HandBackInv, ReportKnown
<1> QED
  BY <1>2, <1>3, <1>4, <1>5, <1>6, <1>7 DEF RustStep

(* Tests handed back for a fresh master have not been reported: in every   *)
(* run, whoever is killed and when.                                        *)
THEOREM HandBackIsFresh == Spec => []HandedBackUnreported
<1>1. Init => HandBackInv
  <2> SUFFICES ASSUME Init PROVE HandBackInv
    OBVIOUS
  <2>1. masterDied = FALSE /\ \A c \in Case : streamed[c] = 0
    BY DEF Init, DispatcherInit
  <2>2. \A t \in Test : synth[t] = 0
    BY DEF Init, DispatcherInit
  <2> QED
    BY <2>1, <2>2 DEF HandBackInv, ReportKnown
<1>2. TypeOK /\ HandBackInv /\ [Next]_vars => HandBackInv'
  <2>1. HandBackInv /\ UNCHANGED dispatcherVars => HandBackInv'
    BY DEF dispatcherVars, reportVars, HandBackInv, ReportKnown
  <2>2. PhpMasterStep \/ EnvironmentStep \/ UNCHANGED vars => UNCHANGED dispatcherVars
    BY DEF PhpMasterStep, EnvironmentStep, vars
  <2>3. ASSUME NEW s \in Slot, PhpWorkerStep(s) PROVE UNCHANGED dispatcherVars
    BY <2>3 DEF PhpWorkerStep
  <2> QED
    BY <2>1, <2>2, <2>3, RustStepHandBack DEF Next, Returned
<1>3. TypeOK /\ HandBackInv => HandedBackUnreported
  <2> SUFFICES ASSUME TypeOK, HandBackInv, NEW c \in Case, c[1] \in unfinished
               PROVE  streamed[c] = 0 /\ synth[c[1]] = 0
    BY DEF HandedBackUnreported
  <2>1. c[1] \in Test /\ c[1] \notin pairs /\ masterDied
    BY DEF unfinished, covered, Covered, TypeOK, DispatcherTypeOK
  <2>2. streamed[c] \in Nat /\ synth[c[1]] \in Nat
    BY <2>1 DEF TypeOK, DispatcherTypeOK
  <2> QED
    BY <2>1, <2>2 DEF HandBackInv, ReportKnown
<1> QED
  BY <1>1, <1>2, <1>3, TypeCorrect, PTL DEF Spec

----------------------------------------------------------------------------
(* Where tests wait: nowhere, in the one plan of the pipe, or in the batch *)
(* of a busy worker.                                                       *)
LEMMA PipedFacts ==
  /\ Piped(<< >>) = {}
  /\ \A p : Piped(<<p>>) = p.tests
BY DEF Piped

\* The tests a worker has not started are tests of the project.
LEMMA WaitingTests ==
  ASSUME TypeOK, NEW s \in Slot, OnePlan(s)
  PROVE  Waiting(s) \subseteq Test
<1>1. job[s].tests \subseteq Test
  BY DEF TypeOK, WorkerTypeOK
<1>2. inbox[s] = << >> \/ \E p \in Plan : inbox[s] = <<p>>
  BY DEF OnePlan
<1>3. Piped(inbox[s]) \subseteq Test
  BY <1>2, PipedFacts, NoPlanFacts
<1> QED
  BY <1>1, <1>3 DEF Waiting

(* While run_resumable dispatches, a slot's tests wait in its plan.        *)
LEMMA WaitingInFlight ==
  ASSUME PoolTypeOK, NEW s \in Slot, OnePlan(s), Agreement(s)
  PROVE  Waiting(s) \subseteq inFlight[s].tests
<1>1. CASE inbox[s] = << >>
  BY <1>1, PipedFacts DEF Waiting, Agreement
<1>2. CASE inbox[s] # << >>
  BY <1>2, PipedFacts DEF Waiting, Agreement
<1> QED
  BY <1>1, <1>2

(* A step starts tests S waiting at slot s, and lets no test wait that did *)
(* not before.                                                             *)
Starts(s, S) ==
  /\ S \subseteq Waiting(s)
  /\ \A t \in Test : executions'[t] = IF t \in S THEN executions[t] + 1 ELSE executions[t]
  /\ \A r \in Slot : OnePlan(r)'
  /\ Waiting(s)' \subseteq Waiting(s) \ S
  /\ \A r \in Slot \ {s} : Waiting(r)' \subseteq Waiting(r)
StartsSome == \E s \in Slot : \E S \in SUBSET Test : Starts(s, S)

\* A step that starts the tests S keeps starts behind deaths, if no plan in the queue holds one of S.
LEMMA StartsKept ==
  ASSUME TypeOK, StartsBehindDeaths, UNCHANGED attempts, NEW s \in Slot, NEW S, Starts(s, S),
         phase' \in {"seeding", "loop"} =>
           /\ phase \in {"seeding", "loop"} /\ queue' \subseteq queue
           /\ \A p \in queue : p.tests \cap S = {}
  PROVE  StartsBehindDeaths'
<1> USE DEF Starts
<1>1. /\ \A t \in Test : attempts[t] \in Nat /\ executions[t] \in Nat
      /\ \A p \in queue : p.tests \subseteq Test
      /\ \A r \in Slot : Waiting(r) \subseteq Test
  <2>1. \A p \in queue : p.tests \subseteq Test
    BY NoPlanFacts DEF TypeOK, DispatcherTypeOK
  <2> QED
    BY <2>1, WaitingTests DEF TypeOK, DispatcherTypeOK, WorkerTypeOK, StartsBehindDeaths
<1>2. ASSUME NEW t \in Test PROVE attempts'[t] <= 1 /\ executions'[t] <= attempts'[t] + 1
  BY <1>1, <1>2 DEF StartsBehindDeaths
<1>3. ASSUME NEW r \in Slot, NEW t \in Waiting(r)' PROVE executions'[t] <= attempts'[t]
  <2>1. t \in Waiting(r) /\ t \notin S
    <3>1. CASE r = s
      BY <1>3, <3>1
    <3>2. CASE r # s
      BY <1>3, <3>2 DEF StartsBehindDeaths
    <3> QED
      BY <3>1, <3>2
  <2> QED
    BY <1>1, <2>1 DEF StartsBehindDeaths
<1>4. \A q, r \in Slot : q # r => Waiting(q)' \cap Waiting(r)' = {}
  BY DEF StartsBehindDeaths
<1>5. ASSUME phase' \in {"seeding", "loop"}, NEW p \in queue', NEW t \in p.tests
      PROVE  executions'[t] <= attempts'[t]
  BY <1>1, <1>5 DEF StartsBehindDeaths
<1> QED
  BY <1>2, <1>3, <1>4, <1>5 DEF StartsBehindDeaths

----------------------------------------------------------------------------
\* Before the run no test has started.
LEMMA InitStarts == Init => StartsBehindDeaths
<1> SUFFICES ASSUME Init PROVE StartsBehindDeaths
  OBVIOUS
<1> USE DEF Init, PoolInit, DispatcherInit, WorkerInit
<1>1. \A t \in Test : attempts[t] = 0 /\ executions[t] = 0
  OBVIOUS
<1>2. \A s \in Slot : inbox[s] = << >> /\ buffer[s] = << >> /\ child[s] # "busy"
  OBVIOUS
<1>3. \A s \in Slot : Waiting(s) = {} /\ OnePlan(s)
  BY <1>2, PipedFacts DEF Waiting, OnePlan
<1>4. \A p \in queue : p.tests \subseteq Test
  BY SuiteAssumption, NoPlanFacts
<1> QED
  BY <1>1, <1>3, <1>4 DEF StartsBehindDeaths

(* Feeding slot s, which holds nothing, from plans q none of whose tests   *)
(* waits at another slot.                                                  *)
LEMMA FeedStarts ==
  ASSUME TypeOK, StartsBehindDeaths, NEW s \in Slot, NEW q \in SUBSET Plan, Dispatch(s, q),
         inbox[s] = << >>, child[s] # "busy", UNCHANGED <<child, job, buffer, executions>>,
         \A t \in Test : attempts'[t] \in Nat /\ attempts'[t] >= attempts[t] /\ attempts'[t] <= 1,
         \A p \in q : \A t \in p.tests : executions[t] <= attempts'[t],
         \A p \in q : \A r \in Slot \ {s} : p.tests \cap Waiting(r) = {}
  PROVE  StartsBehindDeaths'
<1> USE DEF TypeOK, PoolTypeOK, WorkerTypeOK, DispatcherTypeOK
<1>1. /\ \A r \in Slot \ {s} : inbox'[r] = inbox[r]
      /\ phase' \in {"seeding", "loop"} => queue' \subseteq q
      /\ inbox'[s] = << >> \/ \E p \in q : inbox'[s] = <<p>>
  BY DEF Dispatch, WriteBatch, CloseSlot
<1>2. \A r \in Slot : OnePlan(r) /\ Waiting(r) \subseteq Test
  BY WaitingTests DEF StartsBehindDeaths
<1>3. \A r \in Slot \ {s} : Waiting(r)' = Waiting(r) /\ OnePlan(r)'
  BY <1>1, <1>2 DEF OnePlan, Waiting
<1>4. OnePlan(s)' /\ (Waiting(s)' = {} \/ \E p \in q : Waiting(s)' = p.tests)
  <2>1. buffer'[s] = << >> /\ child'[s] # "busy" /\ Waiting(s)' = Piped(inbox'[s])
    BY <1>2 DEF OnePlan, Waiting
  <2>2. CASE inbox'[s] = << >>
    BY <2>1, <2>2, PipedFacts DEF OnePlan
  <2>3. CASE \E p \in q : inbox'[s] = <<p>>
    <3>1. PICK p \in q : inbox'[s] = <<p>>
      BY <2>3
    <3>2. Waiting(s)' = p.tests /\ p \in Plan
      BY <2>1, <3>1, PipedFacts
    <3> QED
      BY <2>1, <3>1, <3>2 DEF OnePlan
  <2> QED
    BY <1>1, <2>2, <2>3
<1>6. ASSUME NEW t \in Test PROVE attempts'[t] <= 1 /\ executions'[t] <= attempts'[t] + 1
  <2>1. /\ executions[t] \in Nat /\ attempts[t] \in Nat /\ attempts'[t] \in Nat
        /\ executions[t] <= attempts[t] + 1 /\ attempts'[t] >= attempts[t]
    BY <1>6 DEF StartsBehindDeaths
  <2> QED
    BY <1>6, <2>1
<1>7. ASSUME NEW r \in Slot, NEW t \in Waiting(r)' PROVE executions'[t] <= attempts'[t]
  <2>1. CASE r = s
    BY <1>4, <1>7, <2>1
  <2>2. CASE r # s
    <3>1. t \in Test /\ executions[t] <= attempts[t]
      BY <1>2, <1>3, <1>7, <2>2 DEF StartsBehindDeaths
    <3>2. executions[t] \in Nat /\ attempts[t] \in Nat /\ attempts'[t] \in Nat
      BY <3>1
    <3> QED
      BY <3>1, <3>2
  <2> QED
    BY <2>1, <2>2
<1>8. \A u, r \in Slot : u # r => Waiting(u)' \cap Waiting(r)' = {}
  <2> SUFFICES ASSUME NEW u \in Slot, NEW r \in Slot, u # r
               PROVE  Waiting(u)' \cap Waiting(r)' = {}
    OBVIOUS
  <2>1. \A v \in Slot \ {s} : Waiting(s)' \cap Waiting(v)' = {}
    BY <1>3, <1>4
  <2>2. CASE u = s \/ r = s
    BY <2>1, <2>2
  <2>3. CASE u # s /\ r # s
    BY <1>3, <2>3 DEF StartsBehindDeaths
  <2> QED
    BY <2>2, <2>3
<1>9. phase' \in {"seeding", "loop"} => \A p \in queue' : \A t \in p.tests : executions'[t] <= attempts'[t]
  BY <1>1
<1> QED
  BY <1>3, <1>4, <1>6, <1>7, <1>8, <1>9 DEF StartsBehindDeaths

(* A slot that is fed holds nothing.                                       *)
LEMMA FedSlotIsEmpty ==
  ASSUME AgreementInv, NEW s \in Slot, Seed(s) \/ ReceiveBatchDone(s) \/ ReceiveSlotDied(s)
  PROVE  inbox[s] = << >> /\ child[s] # "busy" /\ phase \in {"seeding", "loop"}
<1> USE DEF AgreementInv, TypeOK
<1>1. CASE Seed(s)
  <2>1. s > seeded /\ inFlight[s] = NoPlan /\ phase = "seeding"
    BY <1>1 DEF Seed, SlotAgreement, UnseededSlots, DispatcherTypeOK, Slot
  <2>2. Agreement(s)
    BY <2>1 DEF SlotAgreement
  <2> QED
    BY <2>1, <2>2 DEF Agreement
<1>2. CASE ReceiveBatchDone(s) \/ ReceiveSlotDied(s)
  <2>1. phase = "loop" /\ (Receive(s, "batch_done") \/ Receive(s, "slot_died"))
    BY <1>2 DEF ReceiveBatchDone, ReceiveSlotDied
  <2>2. Agreement(s)
    BY <2>1 DEF SlotAgreement
  <2> QED
    BY <2>1, <2>2, NoticeIsLast
<1> QED
  BY <1>1, <1>2

(* No queued test waits at a slot.                                         *)
LEMMA QueuedNotWaiting ==
  ASSUME CountingInv, StartsBehindDeaths, phase \in {"seeding", "loop"}, NEW r \in Slot
  PROVE  /\ Waiting(r) \subseteq inFlight[r].tests
         /\ \A p \in queue : p.tests \cap Waiting(r) = {}
<1>1. Waiting(r) \subseteq inFlight[r].tests
  BY WaitingInFlight DEF CountingInv, AgreementInv, TypeOK, SlotAgreement, StartsBehindDeaths
<1> QED
  BY <1>1 DEF CountingInv, OutcomesFresh, PlansDisjoint

\* Handing the next plan to a worker moves its tests from the queue to the worker.
LEMMA FeedStepStarts ==
  ASSUME CountingInv, StartsBehindDeaths, NEW s \in Slot, Seed(s) \/ ReceiveBatchDone(s),
         UNCHANGED workerSide
  PROVE  StartsBehindDeaths'
<1>1. /\ TypeOK /\ Dispatch(s, queue) /\ queue \in SUBSET Plan
      /\ UNCHANGED <<attempts, child, job, buffer, executions>>
  BY DEF CountingInv, AgreementInv, TypeOK, Seed, ReceiveBatchDone, workerSide, workerVars,
         DispatcherTypeOK
<1>2. inbox[s] = << >> /\ child[s] # "busy" /\ phase \in {"seeding", "loop"}
  BY FedSlotIsEmpty DEF CountingInv
<1>3. \A t \in Test : attempts'[t] \in Nat /\ attempts'[t] >= attempts[t] /\ attempts'[t] <= 1
  BY <1>1 DEF TypeOK, DispatcherTypeOK, StartsBehindDeaths
<1>4. \A p \in queue : \A t \in p.tests : executions[t] <= attempts'[t]
  BY <1>1, <1>2 DEF StartsBehindDeaths
<1>5. \A p \in queue : \A r \in Slot \ {s} : p.tests \cap Waiting(r) = {}
  BY <1>2, QueuedNotWaiting
<1> QED
  BY <1>1, <1>2, <1>3, <1>4, <1>5, FeedStarts

(* The tests queued again have been started at most once, and now have one *)
(* death on their account.                                                 *)
LEMMA SlotDiedStarts ==
  ASSUME CountingInv, StartsBehindDeaths, NEW s \in Slot, ReceiveSlotDied(s), UNCHANGED workerSide
  PROVE  StartsBehindDeaths'
<1> DEFINE unrun == inFlight[s].tests \ covered
           poison == Poisoned(unrun, attempts)
           q == queue \cup Requeued(unrun, attempts)
<1>1. /\ TypeOK /\ attempts' = Bump(attempts, unrun \ poison) /\ Dispatch(s, q)
      /\ UNCHANGED <<child, job, buffer, executions>>
  BY DEF CountingInv, AgreementInv, ReceiveSlotDied, workerSide, workerVars
<1>2. inbox[s] = << >> /\ child[s] # "busy" /\ phase \in {"seeding", "loop"}
  BY FedSlotIsEmpty DEF CountingInv
<1>3. unrun \in SUBSET Test /\ unrun \subseteq inFlight[s].tests
  BY <1>1, NoPlanFacts DEF TypeOK, DispatcherTypeOK
<1>4. \A t \in unrun : t \notin poison <=> ~(attempts[t] + 1 >= MAX_ATTEMPTS)
  BY DEF Poisoned
<1> HIDE DEF unrun
<1>5. /\ q \in SUBSET Plan
      /\ \A p \in Requeued(unrun, attempts) : p.tests \subseteq unrun /\ p.tests \cap poison = {}
  BY <1>1, <1>3, RequeuedPlans, RequeuedDisjoint DEF TypeOK, DispatcherTypeOK
<1> HIDE DEF poison
<1>6. \A t \in Test : /\ attempts[t] \in Nat /\ executions[t] \in Nat /\ attempts[t] <= 1
                      /\ executions[t] <= attempts[t] + 1
                      /\ attempts'[t] = IF t \in unrun \ poison THEN attempts[t] + 1 ELSE attempts[t]
  <2>1. attempts \in [Test -> Nat] /\ executions \in [Test -> Nat]
    BY <1>1 DEF TypeOK, DispatcherTypeOK, WorkerTypeOK
  <2> QED
    BY <1>1, <2>1, BumpValue DEF StartsBehindDeaths
<1>7. \A t \in unrun \ poison : t \in Test /\ attempts[t] = 0 /\ attempts'[t] = 1
  BY <1>3, <1>4, <1>6 DEF MAX_ATTEMPTS
<1>8. \A t \in Test : attempts'[t] \in Nat /\ attempts'[t] >= attempts[t] /\ attempts'[t] <= 1
  BY <1>6, <1>7
<1>9. ASSUME NEW p \in q, NEW t \in p.tests PROVE executions[t] <= attempts'[t]
  <2>1. CASE p \in queue
    <3>1. t \in Test /\ executions[t] <= attempts[t]
      BY <1>1, <1>2, <1>9, <2>1, NoPlanFacts DEF StartsBehindDeaths, TypeOK, DispatcherTypeOK
    <3> QED
      BY <1>6, <1>8, <3>1
  <2>2. CASE p \in Requeued(unrun, attempts)
    <3>1. t \in unrun \ poison
      BY <1>5, <1>9, <2>2
    <3> QED
      BY <1>6, <1>7, <3>1
  <2> QED
    BY <1>9, <2>1, <2>2
<1>10. ASSUME NEW p \in q, NEW r \in Slot \ {s} PROVE p.tests \cap Waiting(r) = {}
  <2>1. Waiting(r) \subseteq inFlight[r].tests
    BY <1>2, QueuedNotWaiting
  <2>2. CASE p \in queue
    BY <1>2, <1>10, <2>2, QueuedNotWaiting
  <2>3. CASE p \in Requeued(unrun, attempts)
    <3>1. inFlight[r].tests \cap inFlight[s].tests = {}
      BY <1>2, <1>10 DEF CountingInv, OutcomesFresh, PlansDisjoint
    <3> QED
      BY <1>3, <1>5, <2>1, <2>3, <3>1
  <2> QED
    BY <1>10, <2>2, <2>3
<1> HIDE DEF q
<1> QED
  BY <1>1, <1>2, <1>5, <1>8, <1>9, <1>10, FeedStarts

(* Steps that start nothing, and after which no more tests wait.           *)
LEMMA NothingStarts ==
  ASSUME UNCHANGED executions, \A s \in Slot : OnePlan(s)' /\ Waiting(s)' \subseteq Waiting(s)
  PROVE  StartsSome
<1>1. PICK s \in Slot : TRUE
  BY PoolAssumption DEF Slot
<1>2. PICK S \in SUBSET Test : S = {}
  OBVIOUS
<1>3. S \subseteq Waiting(s) /\ Waiting(s)' \subseteq Waiting(s) \ S
  BY <1>2
<1>4. \A t \in Test : executions'[t] = IF t \in S THEN executions[t] + 1 ELSE executions[t]
  BY <1>2
<1>5. Starts(s, S)
  BY <1>3, <1>4 DEF Starts
<1> QED
  BY <1>5 DEF StartsSome

(* In particular steps that put nothing in a pipe or a batch.              *)
LEMMA QuietStarts ==
  ASSUME StartsBehindDeaths, UNCHANGED <<executions, inbox>>,
         \A s \in Slot : /\ buffer'[s] \in {buffer[s], << >>}
                         /\ child'[s] = "busy" =>
                              child[s] = "busy" /\ job'[s].tests \subseteq job[s].tests
  PROVE  StartsSome
<1>1. \A s \in Slot : OnePlan(s)' /\ Waiting(s)' \subseteq Waiting(s)
  BY DEF StartsBehindDeaths, OnePlan, Waiting
<1> QED
  BY <1>1, NothingStarts

(* Steps that charge no death and queue nothing.                           *)
LEMMA StartsSomeKept ==
  ASSUME CountingInv, StartsBehindDeaths, StartsSome, UNCHANGED attempts,
         phase' \in {"seeding", "loop"} => phase \in {"seeding", "loop"} /\ queue' \subseteq queue
  PROVE  StartsBehindDeaths'
<1>1. PICK s \in Slot, S \in SUBSET Test : Starts(s, S)
  BY DEF StartsSome
<1>2. phase \in {"seeding", "loop"} => \A p \in queue : p.tests \cap S = {}
  BY <1>1, QueuedNotWaiting DEF Starts
<1> QED
  BY <1>1, <1>2, StartsKept DEF CountingInv, AgreementInv

(* The dispatcher's steps that hand out no plan.                           *)
IdleStep ==
  \/ (StartLoop \/ Watchdog \/ Join) /\ UNCHANGED workerSide
  \/ Terminate /\ UNCHANGED <<mode, workerVars>>
  \/ \E s \in Slot : (ReceiveRows(s) \/ ReceiveEof(s)) /\ UNCHANGED workerSide

\* The dispatcher's steps that hand out no plan start no more than a worker may.
LEMMA IdleStepStarts ==
  ASSUME CountingInv, StartsBehindDeaths, IdleStep
  PROVE  StartsSome
<1>1. CASE (StartLoop \/ Watchdog \/ Join) /\ UNCHANGED workerSide
  BY <1>1, QuietStarts DEF StartLoop, Watchdog, Join, pipeVars, workerSide, workerVars
<1>2. CASE Terminate /\ UNCHANGED <<mode, workerVars>>
  BY <1>2, QuietStarts DEF CountingInv, AgreementInv, Terminate, workerVars, TypeOK, PoolTypeOK
<1>3. ASSUME NEW s \in Slot, ReceiveRows(s) \/ ReceiveEof(s), UNCHANGED workerSide
      PROVE  StartsSome
  BY <1>3, QuietStarts DEF ReceiveRows, ReceiveEof, pipeVars, workerSide, workerVars
<1> QED
  BY <1>1, <1>2, <1>3 DEF IdleStep

\* So no step of the dispatcher takes a test past its deaths.
LEMMA RustStepStarts ==
  ASSUME CountingInv, StartsBehindDeaths, RustStep
  PROVE  StartsBehindDeaths'
<1>1. CASE IdleStep
  <2>1. /\ attempts' = attempts
        /\ phase' \in {"seeding", "loop"} => phase \in {"seeding", "loop"} /\ queue' \subseteq queue
    BY <1>1 DEF IdleStep, StartLoop, Watchdog, Join, Terminate, ReceiveRows, ReceiveEof
  <2> QED
    BY <1>1, <2>1, IdleStepStarts, StartsSomeKept
<1> QED
  BY <1>1, FeedStepStarts, SlotDiedStarts DEF RustStep, IdleStep

(* A step of the master, of slot s's worker or of the environment: tests S *)
(* of the worker's batch are started, and the batch is done with them.     *)
LEMMA WorkerSideStarts ==
  ASSUME CountingInv, StartsBehindDeaths, NEW s \in Slot, NEW S,
         S = {} \/ (child[s] = "busy" /\ S \subseteq job[s].tests),
         \A t \in Test : executions'[t] = IF t \in S THEN executions[t] + 1 ELSE executions[t],
         inbox' = inbox, buffer'[s] = << >>,
         child'[s] = "busy" => child[s] = "busy" /\ job'[s].tests \subseteq job[s].tests \ S,
         \A r \in Slot \ {s} : /\ buffer'[r] = buffer[r] /\ job'[r] = job[r]
                               /\ child'[r] = "busy" => child[r] = "busy"
  PROVE  StartsSome
<1>1. \A r \in Slot : OnePlan(r)
  BY DEF StartsBehindDeaths
<1>2. \A r \in Slot \ {s} : OnePlan(r)' /\ Waiting(r)' \subseteq Waiting(r)
  BY <1>1 DEF OnePlan, Waiting
<1>3. OnePlan(s)' /\ S \subseteq Waiting(s) /\ Waiting(s)' \subseteq Waiting(s) \ S
  <2>1. CASE S = {}
    BY <1>1, <2>1 DEF OnePlan, Waiting
  <2>2. CASE child[s] = "busy" /\ S \subseteq job[s].tests
    <3>1. inbox[s] = << >> /\ inbox'[s] = << >>
      BY <1>1, <2>2 DEF OnePlan
    <3> QED
      BY <2>2, <3>1, PipedFacts DEF OnePlan, Waiting
  <2> QED
    BY <2>1, <2>2
<1>4. S \in SUBSET Test
  BY EntryInJob DEF CountingInv, AgreementInv, TypeOK
<1>5. Starts(s, S)
  BY <1>2, <1>3 DEF Starts
<1> QED
  BY <1>4, <1>5 DEF StartsSome

(* The worker takes the plan over from the pipe.                           *)
Takes(s, p) ==
  /\ inbox[s] = <<p>> /\ inbox'[s] = << >> /\ buffer'[s] = << >>
  /\ child[s] = "idle" /\ child'[s] = "busy" /\ job'[s] = p
  /\ \A r \in Slot \ {s} : /\ inbox'[r] = inbox[r] /\ buffer'[r] = buffer[r]
                           /\ child'[r] = child[r] /\ job'[r] = job[r]

\* A worker that reads its pipe takes one plan from it.
LEMMA ReadPlanTakes ==
  ASSUME PoolTypeOK, WorkerTypeOK, NEW s \in Slot, OnePlan(s), ReadPlan(s)
  PROVE  \E p \in Plan : Takes(s, p)
<1> USE DEF PoolTypeOK, WorkerTypeOK
<1>1. child[s] = "idle" /\ child' = [child EXCEPT ![s] = "busy"]
  BY DEF ReadPlan
<1>2. buffer[s] \o inbox[s] = inbox[s] /\ inbox[s] # << >>
  <2>1. buffer[s] = << >> /\ inbox[s] \in Seq(Plan)
    BY DEF OnePlan
  <2>2. << >> \o inbox[s] = inbox[s]
    BY <2>1, ConcatEmptySeq
  <2> QED
    BY <2>1, <2>2 DEF ReadPlan
<1>3. PICK p \in Plan : inbox[s] = <<p>>
  BY <1>2 DEF OnePlan
<1>4. /\ job' = [job EXCEPT ![s] = p]
      /\ buffer' = [buffer EXCEPT ![s] = SubSeq(<<p>>, 2, 1)]
      /\ inbox' = [inbox EXCEPT ![s] = SubSeq(<<p>>, 2, 1)]
  <2>1. Head(<<p>>) = p /\ Len(<<p>>) = 1
    OBVIOUS
  <2>2. job' = [job EXCEPT ![s] = Head(<<p>>)]
    BY <1>2, <1>3 DEF ReadPlan
  <2>3. PICK n \in Len(buffer[s]) .. Len(<<p>>) :
          /\ n >= 1
          /\ buffer' = [buffer EXCEPT ![s] = SubSeq(<<p>>, 2, n)]
          /\ inbox' = [inbox EXCEPT ![s] = SubSeq(<<p>>, n + 1, Len(<<p>>))]
    BY <1>2, <1>3 DEF ReadPlan
  <2>4. n = 1
    <3>1. Len(buffer[s]) = 0
      BY DEF OnePlan
    <3> QED
      BY <2>1, <2>3, <3>1
  <2>5. n + 1 = 2
    BY <2>4
  <2> QED
    BY <2>1, <2>2, <2>3, <2>4, <2>5
<1>5. SubSeq(<<p>>, 2, 1) = << >>
  OBVIOUS
<1>6. Takes(s, p)
  BY <1>1, <1>3, <1>4, <1>5 DEF Takes
<1> QED
  BY <1>6

\* Reading a plan starts its tests once, after the deaths already charged to them.
LEMMA ReadPlanStarts ==
  ASSUME CountingInv, StartsBehindDeaths, NEW s \in Slot, ReadPlan(s), UNCHANGED dispatcherVars
  PROVE  StartsSome
<1>1. PICK p \in Plan : Takes(s, p)
  BY ReadPlanTakes DEF CountingInv, AgreementInv, TypeOK, StartsBehindDeaths
<1>2. OnePlan(s)' /\ Waiting(s)' \subseteq Waiting(s)
  <2>1. Waiting(s)' = p.tests /\ p.tests \subseteq Waiting(s)
    BY <1>1, PipedFacts DEF Takes, Waiting
  <2> QED
    BY <1>1, <2>1 DEF Takes, OnePlan
<1>3. \A r \in Slot \ {s} : OnePlan(r)' /\ Waiting(r)' \subseteq Waiting(r)
  BY <1>1 DEF Takes, StartsBehindDeaths, OnePlan, Waiting
<1>4. executions' = executions
  BY DEF ReadPlan
<1> QED
  BY <1>2, <1>3, <1>4, NothingStarts

\* The fork-master starts no test.
LEMMA PhpMasterStepStarts ==
  ASSUME CountingInv, StartsBehindDeaths, PhpMasterStep
  PROVE  StartsSome
<1> USE DEF CountingInv, AgreementInv, TypeOK
<1>1. CASE (StartServing \/ MasterExit) /\ UNCHANGED dispatcherVars
  BY <1>1, QuietStarts DEF StartServing, MasterExit, pipeVars, workerVars, dispatcherVars
<1>2. ASSUME NEW s \in Slot, ForkWorker(s) \/ Reap(s), UNCHANGED dispatcherVars
      PROVE  StartsSome
  <2>1. /\ UNCHANGED <<inbox, buffer, job, executions>>
        /\ \A r \in Slot : child'[r] = "busy" => child[r] = "busy"
    BY <1>2 DEF ForkWorker, Reap, Spawn, pipeVars, PoolTypeOK
  <2> QED
    BY <1>2, <2>1, QuietStarts DEF dispatcherVars
<1> QED
  BY <1>1, <1>2 DEF PhpMasterStep

\* A worker starts only the tests of the plan it has read.
LEMMA PhpWorkerStepStarts ==
  ASSUME CountingInv, StartsBehindDeaths, NEW s \in Slot, PhpWorkerStep(s)
  PROVE  StartsSome
<1> USE DEF PoolTypeOK, WorkerTypeOK
<1>0. /\ PoolTypeOK /\ WorkerTypeOK /\ entry(s) \subseteq job[s].tests
      /\ started(s) \subseteq entry(s)
      /\ \A r \in Slot : buffer[r] = << >>
  BY EntryInJob DEF CountingInv, AgreementInv, TypeOK, StartsBehindDeaths, OnePlan, started
<1>1. \A S : Execute(S) =>
        \A t \in Test : executions'[t] = IF t \in S THEN executions[t] + 1 ELSE executions[t]
  BY <1>0 DEF Execute
<1>3. CASE (StdinEof(s) \/ Recycle(s)) /\ UNCHANGED dispatcherVars
  <2>1. /\ UNCHANGED <<inbox, executions>> /\ buffer'[s] = << >> /\ child'[s] # "busy"
        /\ \A r \in Slot \ {s} : buffer'[r] = buffer[r] /\ child'[r] = child[r] /\ job'[r] = job[r]
    BY <1>0, <1>3 DEF StdinEof, Recycle, Die, pipeVars
  <2> QED
    BY <2>1, QuietStarts
<1>4. CASE ClassThrows(s) /\ UNCHANGED dispatcherVars
  <2>1. /\ UNCHANGED <<inbox, buffer, child, executions>> /\ child[s] = "busy"
        /\ job'[s].tests \subseteq job[s].tests
        /\ \A r \in Slot \ {s} : job'[r] = job[r]
    BY <1>0, <1>4 DEF ClassThrows, busyWith
  <2> QED
    BY <1>0, <2>1, QuietStarts
<1>5. CASE RunClass(s) /\ UNCHANGED dispatcherVars
  <2>1. /\ UNCHANGED <<inbox, buffer, child>> /\ child[s] = "busy" /\ Execute(entry(s))
        /\ job'[s].tests \subseteq job[s].tests \ entry(s)
        /\ \A r \in Slot \ {s} : job'[r] = job[r]
    BY <1>0, <1>5 DEF RunClass, busyWith
  <2>2. \A t \in Test :
           executions'[t] = IF t \in entry(s) THEN executions[t] + 1 ELSE executions[t]
    BY <1>1, <2>1
  <2> QED
    BY <1>0, <2>1, <2>2, WorkerSideStarts
<1>6. CASE CrashInClass(s) /\ UNCHANGED dispatcherVars
  <2>1. /\ inbox' = inbox /\ child[s] = "busy" /\ Execute(started(s))
        /\ buffer'[s] = << >> /\ child'[s] # "busy"
        /\ \A r \in Slot \ {s} : buffer'[r] = buffer[r] /\ child'[r] = child[r] /\ job'[r] = job[r]
    BY <1>0, <1>6 DEF CrashInClass, busyWith, Die
  <2>2. started(s) \subseteq job[s].tests
    BY <1>0
  <2>3. \A t \in Test :
           executions'[t] = IF t \in started(s) THEN executions[t] + 1 ELSE executions[t]
    BY <1>1, <2>1
  <2> QED
    BY <2>1, <2>2, <2>3, WorkerSideStarts
<1>7. CASE FinishBatch(s) /\ UNCHANGED dispatcherVars
  <2>1. /\ UNCHANGED <<inbox, buffer, executions>> /\ child'[s] # "busy"
        /\ \A r \in Slot \ {s} : child'[r] = child[r] /\ job'[r] = job[r]
    BY <1>0, <1>7 DEF FinishBatch
  <2> QED
    BY <2>1, QuietStarts
<1> QED
  BY <1>3, <1>4, <1>5, <1>6, <1>7, ReadPlanStarts DEF PhpWorkerStep

\* A death starts no test.
LEMMA EnvironmentStepStarts ==
  ASSUME CountingInv, StartsBehindDeaths, EnvironmentStep
  PROVE  StartsSome
<1> USE DEF PoolTypeOK, WorkerTypeOK
<1>1. CASE KillMaster /\ UNCHANGED dispatcherVars
  BY <1>1, QuietStarts DEF CountingInv, AgreementInv, KillMaster, pipeVars, dispatcherVars
<1>2. ASSUME NEW s \in Slot, KillWorker(s), UNCHANGED dispatcherVars PROVE StartsSome
  <2>1. /\ PoolTypeOK /\ WorkerTypeOK /\ entry(s) \subseteq job[s].tests
        /\ started(s) \subseteq entry(s)
    BY EntryInJob DEF CountingInv, AgreementInv, TypeOK, started
  <2>2. /\ inbox' = inbox /\ buffer'[s] = << >> /\ child'[s] # "busy"
        /\ \A r \in Slot \ {s} : buffer'[r] = buffer[r] /\ child'[r] = child[r] /\ job'[r] = job[r]
    BY <1>2, <2>1 DEF KillWorker, Die
  <2>3. PICK S : Execute(S) /\ (S = {} \/ (child[s] = "busy" /\ S \subseteq job[s].tests))
    <3>1. CASE \E S \in begun(s) : Execute(S)
      <4>1. PICK S \in begun(s) : Execute(S)
        BY <3>1
      <4>2. S = {} \/ (child[s] = "busy" /\ S \subseteq started(s))
        BY DEF begun, busyWith
      <4> QED
        BY <2>1, <4>1, <4>2
    <3>2. CASE busyWith(s) /\ Execute(entry(s))
      BY <2>1, <3>2 DEF busyWith
    <3> QED
      BY <1>2, <3>1, <3>2 DEF KillWorker
  <2>4. \A t \in Test : executions'[t] = IF t \in S THEN executions[t] + 1 ELSE executions[t]
    BY <2>1, <2>3 DEF Execute
  <2> QED
    BY <1>2, <2>2, <2>3, <2>4, WorkerSideStarts
<1> QED
  BY <1>1, <1>2 DEF EnvironmentStep

(* The steps of the worker side.                                           *)
LEMMA WorkerSideStartsSome ==
  ASSUME CountingInv, StartsBehindDeaths,
         PhpMasterStep \/ (\E s \in Slot : PhpWorkerStep(s)) \/ EnvironmentStep \/ UNCHANGED vars
  PROVE  StartsSome /\ UNCHANGED dispatcherVars
<1>1. UNCHANGED vars => StartsSome /\ UNCHANGED dispatcherVars
  BY QuietStarts DEF vars, pipeVars, workerVars
<1>2. ASSUME ~UNCHANGED vars PROVE UNCHANGED dispatcherVars
  BY <1>2 DEF PhpMasterStep, PhpWorkerStep, EnvironmentStep
<1> QED
  BY <1>1, <1>2, PhpMasterStepStarts, PhpWorkerStepStarts, EnvironmentStepStarts

\* Every reachable state: each start of a test is matched by a death, but for one.
LEMMA StartsInvariant ==
  ASSUME OnlyMidBatchDeaths
  PROVE  Spec => [](CountingInv /\ StartsBehindDeaths)
<1>1. CountingInv /\ StartsBehindDeaths /\ [Next]_vars => StartsBehindDeaths'
  <2> SUFFICES ASSUME CountingInv, StartsBehindDeaths, ~RustStep, [Next]_vars
               PROVE  StartsBehindDeaths'
    BY RustStepStarts
  <2>1. StartsSome /\ UNCHANGED dispatcherVars
    BY WorkerSideStartsSome DEF Next, Returned
  <2> QED
    BY <2>1, StartsSomeKept DEF dispatcherVars
<1>2. Spec => []CountingInv
  BY TypeCorrect, SlotsAgree, CountingIsInvariant, PTL DEF CountingInv, AgreementInv
<1> QED
  BY <1>1, <1>2, InitStarts, PTL DEF Spec

(* No test is started more than MAX_ATTEMPTS times, whatever dies, in      *)
(* every run in which workers crash only in the middle of a batch: a start *)
(* is always paid for by a death, except for the last.                     *)
THEOREM StartedAtMostTwice ==
  ASSUME OnlyMidBatchDeaths
  PROVE  Spec => []ExecutedAtMostTwice
<1>1. TypeOK /\ StartsBehindDeaths => ExecutedAtMostTwice
  <2> SUFFICES ASSUME TypeOK, StartsBehindDeaths, NEW t \in Test PROVE executions[t] <= 2
    BY DEF ExecutedAtMostTwice, MAX_ATTEMPTS
  <2> QED
    BY DEF StartsBehindDeaths, TypeOK, WorkerTypeOK, DispatcherTypeOK
<1> QED
  BY <1>1, StartsInvariant, TypeCorrect, PTL

----------------------------------------------------------------------------
(* What a line says something of.                                          *)
Answers(m) == {t \in Test : m.kind = "rows" /\ (t \in Reported(m) \/ ClassOf[t] \in m.classes)}
Said(q) == UNION {Answers(q[i]) : i \in 1 .. Len(q)}

DeathTold(q) == \E i \in 1 .. Len(q) : q[i].kind = "slot_died"

(* Each test of the plan in flight still waits, is answered for, or went   *)
(* down with a worker whose death is announced or about to be.             *)
Answered(s) ==
  \/ Crashed(s) \/ DeathTold(outbox[s])
  \/ inFlight[s].tests \subseteq covered \cup Said(outbox[s]) \cup Waiting(s)

InFlight == UNION {inFlight[s].tests : s \in Slot}

(* A test that must be in the report: any, if the stop policy did not      *)
(* fire; one that runs, or ran more often than its worker died.            *)
Due(t) == ~stopping \/ executions[t] > attempts[t] \/ \E s \in Slot : t \in Waiting(s)

NothingLost ==
  /\ phase \in {"seeding", "loop"} =>
       /\ \A s \in Slot : Answered(s)
       /\ ~stopping => Test \subseteq covered \cup Owed
       /\ \A t \in Test : executions[t] > attempts[t] => t \in covered \cup InFlight
  /\ phase \in {"terminating", "joining", "done"} => \A t \in Test : Due(t) => Accounted(t)

----------------------------------------------------------------------------
\* An empty outbox says nothing.
LEMMA NothingSaid == Said(<< >>) = {} /\ ~DeathTold(<< >>)
BY DEF Said, DeathTold

(* One more line.                                                          *)
LEMMA SaidOneMore ==
  ASSUME NEW q \in Seq(Msg), NEW m \in Msg
  PROVE  /\ Said(Append(q, m)) = Said(q) \cup Answers(m)
         /\ DeathTold(Append(q, m)) <=> DeathTold(q) \/ m.kind = "slot_died"
<1> DEFINE n == Len(q)
           r == Append(q, m)
<1>1. n \in Nat
  OBVIOUS
<1>2. Len(r) = n + 1 /\ r[n + 1] = m /\ \A i \in 1 .. n : r[i] = q[i]
  BY AppendProperties
<1> HIDE DEF n, r
<1>3. n + 1 \in 1 .. n + 1 /\ \A i \in 1 .. n + 1 : i \in 1 .. n \/ i = n + 1
  BY <1>1
<1>4. \A i \in 1 .. n : i \in 1 .. n + 1
  BY <1>1
<1>5. \A i \in 1 .. n : Answers(r[i]) = Answers(q[i])
  BY <1>2
<1>6. Said(r) = Said(q) \cup Answers(m)
  <2>1. Said(r) = UNION {Answers(r[i]) : i \in 1 .. n + 1}
    BY <1>2 DEF Said
  <2>2. Said(q) = UNION {Answers(r[i]) : i \in 1 .. n}
    BY <1>5 DEF Said, n
  <2>3. Answers(m) = Answers(r[n + 1])
    BY <1>2
  <2> QED
    BY <1>3, <1>4, <2>1, <2>2, <2>3
<1>7. DeathTold(r) <=> DeathTold(q) \/ m.kind = "slot_died"
  BY <1>2, <1>3, <1>4 DEF DeathTold, n
<1> QED
  BY <1>6, <1>7 DEF r

(* One line less.                                                          *)
LEMMA SaidOneLess ==
  ASSUME NEW q \in Seq(Msg), q # << >>
  PROVE  /\ Said(q) = Answers(Head(q)) \cup Said(Tail(q))
         /\ DeathTold(q) <=> DeathTold(Tail(q)) \/ Head(q).kind = "slot_died"
<1> DEFINE n == Len(q)
           r == Tail(q)
<1>1. n \in Nat /\ n >= 1 /\ Head(q) = q[1]
  BY EmptySeq
<1>2. Len(r) = n - 1 /\ \A i \in 1 .. n - 1 : r[i] = q[i + 1]
  BY HeadTailProperties
<1> HIDE DEF n, r
<1>3. 1 \in 1 .. n /\ \A i \in 1 .. n : i = 1 \/ (i - 1 \in 1 .. n - 1 /\ (i - 1) + 1 = i)
  BY <1>1
<1>4. \A i \in 1 .. n - 1 : i + 1 \in 1 .. n
  BY <1>1
<1>5. Said(q) = Answers(Head(q)) \cup Said(r)
  <2>1. Said(q) = UNION {Answers(q[i]) : i \in 1 .. n}
    BY DEF Said, n
  <2>2. Said(r) = UNION {Answers(q[i + 1]) : i \in 1 .. n - 1}
    BY <1>2 DEF Said
  <2>3. ASSUME NEW t \in Said(q) PROVE t \in Answers(Head(q)) \cup Said(r)
    <3>1. PICK i \in 1 .. n : t \in Answers(q[i])
      BY <2>1, <2>3
    <3>2. CASE i = 1
      BY <1>1, <3>1, <3>2
    <3>3. CASE i - 1 \in 1 .. n - 1 /\ (i - 1) + 1 = i
      <4>1. t \in Answers(q[(i - 1) + 1])
        BY <3>1, <3>3
      <4> QED
        BY <2>2, <3>3, <4>1
    <3> QED
      BY <1>3, <3>2, <3>3
  <2>4. Answers(Head(q)) \cup Said(r) \subseteq Said(q)
    BY <1>1, <1>3, <1>4, <2>1, <2>2
  <2> QED
    BY <2>3, <2>4
<1>6. DeathTold(q) <=> DeathTold(r) \/ Head(q).kind = "slot_died"
  <2>1. ASSUME DeathTold(q) PROVE DeathTold(r) \/ Head(q).kind = "slot_died"
    <3>1. PICK i \in 1 .. n : q[i].kind = "slot_died"
      BY <2>1 DEF DeathTold, n
    <3>2. CASE i = 1
      BY <1>1, <3>1, <3>2
    <3>3. CASE i - 1 \in 1 .. n - 1 /\ (i - 1) + 1 = i
      <4>1. r[i - 1] = q[i]
        BY <1>2, <3>3
      <4> QED
        BY <1>2, <3>1, <3>3, <4>1 DEF DeathTold
    <3> QED
      BY <1>3, <3>2, <3>3
  <2>2. Head(q).kind = "slot_died" => DeathTold(q)
    BY <1>1, <1>3 DEF DeathTold, n
  <2>3. DeathTold(r) => DeathTold(q)
    BY <1>2, <1>4 DEF DeathTold, n
  <2> QED
    BY <2>1, <2>2, <2>3
<1> QED
  BY <1>5, <1>6 DEF r

----------------------------------------------------------------------------
(* A step of the worker side after which a slot's output says no less, and *)
(* what no longer waits is answered for.                                   *)
LEMMA AnsweredKept ==
  ASSUME NEW s \in Slot, Answered(s), ~Crashed(s), UNCHANGED dispatcherVars,
         DeathTold(outbox[s]) => DeathTold(outbox'[s]),
         Said(outbox[s]) \subseteq Said(outbox'[s]),
         Waiting(s) \subseteq Waiting(s)' \cup Said(outbox'[s])
  PROVE  Answered(s)'
<1>1. inFlight' = inFlight /\ covered' = covered
  BY DEF dispatcherVars, covered
<1> QED
  BY <1>1 DEF Answered

(* The part of a slot Answered(s) reads.                                   *)
LEMMA AnsweredFrame ==
  ASSUME NEW s \in Slot, Answered(s), inFlight'[s] = inFlight[s], covered \subseteq covered',
         inbox'[s] = inbox[s], outbox'[s] = outbox[s], child'[s] = child[s], code'[s] = code[s],
         job'[s] = job[s]
  PROVE  Answered(s)'
<1>1. Waiting(s)' = Waiting(s) /\ Crashed(s)' = Crashed(s)
  BY DEF Waiting, Crashed
<1> QED
  BY <1>1 DEF Answered

(* A line written by, or for, a worker.                                    *)
LEMMA SendSays ==
  ASSUME PoolTypeOK, NEW s \in Slot, NEW m \in Msg, Send(s, m)
  PROVE  /\ Said(outbox'[s]) = Said(outbox[s]) \cup Answers(m)
         /\ DeathTold(outbox'[s]) <=> DeathTold(outbox[s]) \/ m.kind = "slot_died"
         /\ \A r \in Slot \ {s} : outbox'[r] = outbox[r]
<1>1. outbox[s] \in Seq(Msg) /\ outbox'[s] = Append(outbox[s], m)
  BY DEF PoolTypeOK, Send
<1>2. \A r \in Slot \ {s} : outbox'[r] = outbox[r]
  BY DEF PoolTypeOK, Send
<1> QED
  BY <1>1, <1>2, SaidOneMore

(* What a class's lines answer: its rows every test of it, a <class> row   *)
(* too.                                                                    *)
LEMMA ClassAnswers ==
  ASSUME NEW S \in SUBSET Test, NEW d \in BOOLEAN
  PROVE  /\ S \subseteq Answers(RowsMsg(RowsOfTests(S), {}, d))
         /\ S \subseteq Answers(RowsMsg({}, ClassesOf(S), d))
<1>1. ASSUME NEW t \in S PROVE t \in Reported(RowsMsg(RowsOfTests(S), {}, d))
  <2>1. RowsOf[t] \in Nat \ {0}
    BY SuiteAssumption
  <2>2. <<t, 1>> \in RowsOfTests(S)
    BY <2>1 DEF RowsOfTests, Case
  <2>3. <<t, 1>>[1] = t
    OBVIOUS
  <2> QED
    BY <2>2, <2>3 DEF Reported, RowsMsg
<1> QED
  BY <1>1 DEF Answers, RowsMsg, ClassesOf

----------------------------------------------------------------------------
Dispatched == phase \in {"seeding", "loop"} /\ \A s \in Slot : Answered(s)

\* A step of the fork-master keeps every worker's plan answered for.
LEMMA PhpMasterStepAnswers ==
  ASSUME CountingInv, Dispatched, PhpMasterStep, NEW r \in Slot
  PROVE  Answered(r)'
<1> USE DEF CountingInv, AgreementInv, TypeOK, PoolTypeOK, WorkerTypeOK
<1>1. Answered(r) /\ (UNCHANGED dispatcherVars => UNCHANGED <<inFlight, covered>>)
  BY DEF Dispatched, dispatcherVars, covered
<1>2. CASE (StartServing \/ MasterExit) /\ UNCHANGED dispatcherVars
  BY <1>1, <1>2, AnsweredFrame DEF StartServing, MasterExit, pipeVars, workerVars
<1>3. ASSUME NEW s \in Slot, ForkWorker(s), UNCHANGED dispatcherVars PROVE Answered(r)'
  <2>1. /\ UNCHANGED <<inbox, outbox, job>> /\ child'[s] = "idle"
        /\ \A q \in Slot \ {s} : child'[q] = child[q] /\ code'[q] = code[q]
    BY <1>3 DEF ForkWorker, Spawn, pipeVars
  <2>2. child[s] = "unborn"
    BY <1>3 DEF ForkWorker, SlotAgreement, UnbornSlots, Slot
  <2>3. CASE r = s
    BY <1>1, <1>3, <2>1, <2>2, <2>3, AnsweredKept DEF Crashed, Waiting
  <2>4. CASE r # s
    BY <1>1, <1>3, <2>1, <2>4, AnsweredFrame
  <2> QED
    BY <2>3, <2>4
<1>4. ASSUME NEW s \in Slot, Reap(s), UNCHANGED dispatcherVars PROVE Answered(r)'
  <2>1. /\ UNCHANGED <<inbox, job>> /\ child[s] = "zombie" /\ child'[s] \in {"idle", "none"}
        /\ \A q \in Slot \ {s} : child'[q] = child[q] /\ code'[q] = code[q]
    BY <1>4 DEF Reap, Spawn
  <2>2. \/ Crashed(s) /\ Send(s, Notice("slot_died"))
        \/ ~Crashed(s) /\ UNCHANGED outbox
    BY <1>4 DEF Reap, isCrash, Crashed
  <2>3. CASE r = s /\ Crashed(s)
    <3>1. Notice("slot_died") \in Msg /\ Notice("slot_died").kind = "slot_died"
      BY MessageTypes DEF Notice
    <3>2. DeathTold(outbox'[s])
      BY <2>2, <2>3, <3>1, SendSays
    <3> QED
      BY <2>3, <3>2 DEF Answered
  <2>4. CASE r = s /\ ~Crashed(s)
    <3>1. outbox' = outbox /\ Waiting(s)' = Waiting(s)
      BY <2>1, <2>2, <2>4 DEF Waiting
    <3> QED
      BY <1>1, <1>4, <2>4, <3>1, AnsweredKept
  <2>5. CASE r # s
    <3>1. outbox'[r] = outbox[r]
      BY <2>2, <2>5 DEF Send
    <3> QED
      BY <1>1, <1>4, <2>1, <2>5, <3>1, AnsweredFrame
  <2> QED
    BY <2>3, <2>4, <2>5
<1> QED
  BY <1>2, <1>3, <1>4 DEF PhpMasterStep

(* Ending in a crash answers for the whole plan.                           *)
LEMMA CrashAnswers ==
  ASSUME CountingInv, Dispatched, NEW s \in Slot, Die(s, "crash"), UNCHANGED dispatcherVars,
         UNCHANGED inbox, \A r \in Slot \ {s} : outbox'[r] = outbox[r], NEW r \in Slot
  PROVE  Answered(r)'
<1> USE DEF CountingInv, AgreementInv, TypeOK, PoolTypeOK, WorkerTypeOK
<1>1. /\ child'[s] = "zombie" /\ code'[s] = "crash"
      /\ \A q \in Slot \ {s} : child'[q] = child[q] /\ code'[q] = code[q] /\ job'[q] = job[q]
  BY DEF Die
<1>2. CASE r = s
  BY <1>1, <1>2 DEF Answered, Crashed
<1>3. CASE r # s
  BY <1>1, <1>3, AnsweredFrame DEF Dispatched, dispatcherVars, covered
<1> QED
  BY <1>2, <1>3

(* Writing a line about what the worker has done with.                     *)
LEMMA WritingAnswers ==
  ASSUME CountingInv, Dispatched, NEW s \in Slot, child[s] = "busy", UNCHANGED dispatcherVars,
         NEW m \in Msg, Send(s, m), UNCHANGED <<inbox, code>>,
         job[s].tests \subseteq Answers(m) \cup (IF child'[s] = "busy" THEN job'[s].tests ELSE {}),
         \A r \in Slot \ {s} : child'[r] = child[r] /\ job'[r] = job[r], NEW r \in Slot
  PROVE  Answered(r)'
<1> USE DEF CountingInv, AgreementInv, TypeOK
<1>1. /\ Said(outbox'[s]) = Said(outbox[s]) \cup Answers(m)
      /\ DeathTold(outbox[s]) => DeathTold(outbox'[s])
      /\ \A q \in Slot \ {s} : outbox'[q] = outbox[q]
  BY SendSays
<1>2. CASE r = s
  <2>1. Waiting(s) \subseteq Waiting(s)' \cup Answers(m)
    BY DEF Waiting
  <2>2. Answered(s) /\ ~Crashed(s)
    BY DEF Dispatched, Crashed
  <2> QED
    BY <1>1, <1>2, <2>1, <2>2, AnsweredKept
<1>3. CASE r # s
  BY <1>1, <1>3, AnsweredFrame DEF Dispatched, dispatcherVars, covered
<1> QED
  BY <1>2, <1>3

\* So does a step of a worker.
LEMMA PhpWorkerStepAnswers ==
  ASSUME CountingInv, StartsBehindDeaths, Dispatched, NEW s \in Slot, PhpWorkerStep(s),
         NEW r \in Slot
  PROVE  Answered(r)'
<1> USE DEF CountingInv, AgreementInv, TypeOK
<1> DEFINE Rest == UNCHANGED dispatcherVars
<1>0. /\ entry(s) \in SUBSET Test /\ entry(s) \subseteq job[s].tests
      /\ StopOn \in BOOLEAN
      /\ ClassesOf(entry(s)) \in SUBSET Class /\ ClassesOf(job[s].tests) \in SUBSET Class
      /\ RowsOfTests(entry(s)) \in SUBSET Case
  BY EntryInJob, SuiteOperators, WorkerAssumption
<1>1. CASE ReadPlan(s) /\ Rest
  <2>1. PICK p \in Plan : Takes(s, p)
    BY <1>1, ReadPlanTakes DEF StartsBehindDeaths
  <2>2. Waiting(s)' = Waiting(s) /\ ~Crashed(s)
    BY <2>1, PipedFacts DEF Takes, Waiting, Crashed
  <2>3. outbox' = outbox /\ code' = code
    BY <1>1 DEF ReadPlan
  <2>4. CASE r = s
    BY <1>1, <2>2, <2>3, <2>4, AnsweredKept DEF Dispatched
  <2>5. CASE r # s
    BY <1>1, <2>1, <2>3, <2>5, AnsweredFrame DEF Takes, Dispatched, dispatcherVars, covered
  <2> QED
    BY <2>4, <2>5
<1>2. CASE (StdinEof(s) \/ Recycle(s)) /\ Rest
  <2>1. /\ UNCHANGED <<inbox, outbox>> /\ child[s] \in {"idle", "exiting"} /\ child'[s] = "zombie"
        /\ \A q \in Slot \ {s} : child'[q] = child[q] /\ code'[q] = code[q] /\ job'[q] = job[q]
    <3>1. CASE StdinEof(s)
      BY <3>1 DEF StdinEof, Die, pipeVars, PoolTypeOK, WorkerTypeOK
    <3>2. CASE Recycle(s)
      BY <3>2 DEF Recycle, Die, pipeVars, PoolTypeOK, WorkerTypeOK
    <3> QED
      BY <1>2, <3>1, <3>2
  <2>2. CASE r = s
    BY <1>2, <2>1, <2>2, AnsweredKept DEF Dispatched, Crashed, Waiting
  <2>3. CASE r # s
    BY <1>2, <2>1, <2>3, AnsweredFrame DEF Dispatched, dispatcherVars, covered
  <2> QED
    BY <2>2, <2>3
<1>3. CASE ClassThrows(s) /\ Rest
  <2> DEFINE m == RowsMsg({}, ClassesOf(entry(s)), StopOn)
  <2>1. m \in Msg /\ entry(s) \subseteq Answers(m)
    BY <1>0, MessageTypes, ClassAnswers
  <2>2. /\ child[s] = "busy" /\ Send(s, m) /\ UNCHANGED <<inbox, child, code>>
        /\ job'[s].tests = job[s].tests \ entry(s)
        /\ \A q \in Slot \ {s} : job'[q] = job[q]
    BY <1>3 DEF ClassThrows, busyWith, WorkerTypeOK
  <2> HIDE DEF m
  <2>3. job[s].tests \subseteq Answers(m) \cup (IF child'[s] = "busy" THEN job'[s].tests ELSE {})
    BY <2>1, <2>2
  <2> QED
    BY <1>3, <2>1, <2>2, <2>3, WritingAnswers
<1>4. CASE RunClass(s) /\ Rest
  <2>1. PICK d \in BOOLEAN : Send(s, RowsMsg(RowsOfTests(entry(s)), {}, d))
    BY <1>4 DEF RunClass, matches
  <2> DEFINE m == RowsMsg(RowsOfTests(entry(s)), {}, d)
  <2>2. m \in Msg /\ entry(s) \subseteq Answers(m)
    BY <1>0, MessageTypes, ClassAnswers
  <2>3. /\ child[s] = "busy" /\ Send(s, m) /\ UNCHANGED <<inbox, child, code>>
        /\ job'[s].tests = job[s].tests \ entry(s)
        /\ \A q \in Slot \ {s} : job'[q] = job[q]
    BY <1>4, <2>1 DEF RunClass, busyWith, WorkerTypeOK
  <2> HIDE DEF m
  <2>4. job[s].tests \subseteq Answers(m) \cup (IF child'[s] = "busy" THEN job'[s].tests ELSE {})
    BY <2>2, <2>3
  <2> QED
    BY <1>4, <2>2, <2>3, <2>4, WritingAnswers
<1>5. CASE CrashInClass(s) /\ Rest
  <2>1. Die(s, "crash") /\ inbox' = inbox /\ \A q \in Slot \ {s} : outbox'[q] = outbox[q]
    BY <1>5 DEF CrashInClass, Send, PoolTypeOK
  <2> QED
    BY <1>5, <2>1, CrashAnswers
<1>6. CASE FinishBatch(s) /\ Rest
  <2> DEFINE m == Notice("batch_done")
  <2>1. m \in Msg
    BY MessageTypes
  <2>2. /\ child[s] = "busy" /\ Send(s, m) /\ UNCHANGED <<inbox, code>> /\ job[s].tests = {}
        /\ \A q \in Slot \ {s} : child'[q] = child[q] /\ job'[q] = job[q]
    BY <1>6 DEF FinishBatch, PoolTypeOK, WorkerTypeOK
  <2> HIDE DEF m
  <2>3. job[s].tests \subseteq Answers(m) \cup (IF child'[s] = "busy" THEN job'[s].tests ELSE {})
    BY <2>2
  <2> QED
    BY <1>6, <2>1, <2>2, <2>3, WritingAnswers
<1> QED
  BY <1>1, <1>2, <1>3, <1>4, <1>5, <1>6 DEF PhpWorkerStep

\* So does a death.
LEMMA EnvironmentStepAnswers ==
  ASSUME CountingInv, Dispatched, EnvironmentStep, NEW r \in Slot
  PROVE  Answered(r)'
<1>1. CASE KillMaster /\ UNCHANGED dispatcherVars
  BY <1>1, AnsweredFrame DEF KillMaster, pipeVars, Dispatched, dispatcherVars, covered
<1>2. ASSUME NEW s \in Slot, KillWorker(s), UNCHANGED dispatcherVars PROVE Answered(r)'
  <2>1. Die(s, "crash") /\ inbox' = inbox /\ \A q \in Slot \ {s} : outbox'[q] = outbox[q]
    BY <1>2 DEF KillWorker, Send, CountingInv, AgreementInv, TypeOK, PoolTypeOK
  <2> QED
    BY <1>2, <2>1, CrashAnswers
<1> QED
  BY <1>1, <1>2 DEF EnvironmentStep

(* No step of the worker side takes an answer away.                        *)
LEMMA WorkerSideAnswers ==
  ASSUME CountingInv, StartsBehindDeaths, Dispatched, NEW r \in Slot,
         PhpMasterStep \/ (\E s \in Slot : PhpWorkerStep(s)) \/ EnvironmentStep \/ UNCHANGED vars
  PROVE  Answered(r)'
<1>1. UNCHANGED vars => Answered(r)'
  BY AnsweredFrame DEF vars, pipeVars, workerVars, dispatcherVars, covered, Dispatched
<1> QED
  BY <1>1, PhpMasterStepAnswers, PhpWorkerStepAnswers, EnvironmentStepAnswers

----------------------------------------------------------------------------
(* Once nothing is dispatched any more: what was due stays due, and what   *)
(* is accounted for stays so.                                              *)
LEMMA AfterwardsKept ==
  ASSUME TypeOK, NothingLost, StartsSome, phase \in {"terminating", "joining", "done"},
         UNCHANGED <<attempts, stopping, pairs, classes, synth, masterDied>>
  PROVE  \A t \in Test : Due(t)' => Accounted(t)'
<1> SUFFICES ASSUME NEW t \in Test, Due(t)' PROVE Accounted(t)'
  OBVIOUS
<1>1. PICK s \in Slot, S \in SUBSET Test : Starts(s, S)
  BY DEF StartsSome
<1>2. \A r \in Slot : t \in Waiting(r)' => t \in Waiting(r)
  BY <1>1 DEF Starts
<1>3. executions'[t] > attempts'[t] => executions[t] > attempts[t] \/ t \in Waiting(s)
  BY <1>1 DEF Starts
<1>4. Due(t)
  BY <1>2, <1>3 DEF Due
<1> QED
  BY <1>4 DEF NothingLost, Accounted, unfinished, covered

\* Nothing on the other side of the pipes loses a test.
LEMMA WorkerSideKeepsAll ==
  ASSUME CountingInv, StartsBehindDeaths, NothingLost,
         PhpMasterStep \/ (\E s \in Slot : PhpWorkerStep(s)) \/ EnvironmentStep \/ UNCHANGED vars
  PROVE  NothingLost'
<1>1. StartsSome /\ UNCHANGED dispatcherVars
  BY WorkerSideStartsSome
<1>2. ASSUME phase \in {"seeding", "loop"}
      PROVE  /\ \A r \in Slot : Answered(r)'
             /\ (~stopping => Test \subseteq covered \cup Owed)'
             /\ (\A t \in Test : executions[t] > attempts[t] => t \in covered \cup InFlight)'
  <2>1. \A r \in Slot : Answered(r)'
    BY <1>2, WorkerSideAnswers DEF NothingLost, Dispatched
  <2>2. UNCHANGED <<attempts, stopping, covered, Owed, InFlight>>
    BY <1>1 DEF dispatcherVars, covered, Owed, InFlight
  <2>3. ASSUME NEW t \in Test, executions'[t] > attempts[t] PROVE t \in covered \cup InFlight
    <3>1. PICK s \in Slot, S \in SUBSET Test : Starts(s, S)
      BY <1>1 DEF StartsSome
    <3>2. CASE t \in S
      BY <1>2, <3>1, <3>2, QueuedNotWaiting DEF Starts, InFlight
    <3>3. CASE t \notin S
      BY <1>2, <2>3, <3>1, <3>3 DEF Starts, NothingLost
    <3> QED
      BY <3>2, <3>3
  <2> QED
    BY <1>2, <2>1, <2>2, <2>3 DEF NothingLost
<1>3. phase \in {"terminating", "joining", "done"} => \A t \in Test : Due(t)' => Accounted(t)'
  BY <1>1, AfterwardsKept DEF dispatcherVars, CountingInv, AgreementInv
<1> QED
  BY <1>1, <1>2, <1>3 DEF dispatcherVars, NothingLost

----------------------------------------------------------------------------
(* The dispatcher gives up on everything it owes: what is not covered      *)
(* becomes an Error.                                                       *)
LEMMA GivingUpAccounts ==
  ASSUME CountingInv, StartsBehindDeaths, NothingLost, phase \in {"seeding", "loop"}, SynthOwed,
         UNCHANGED <<executions, attempts, stopping, pairs, classes, inbox, child, job>>
  PROVE  \A t \in Test : Due(t)' => Accounted(t)'
<1> SUFFICES ASSUME NEW t \in Test, Due(t)' PROVE Accounted(t)'
  OBVIOUS
<1>1. Due(t) /\ covered' = covered
  BY DEF Due, Waiting, covered
<1>2. InFlight \subseteq Owed /\ \A s \in Slot : Waiting(s) \subseteq Owed
  <2>1. InFlight \subseteq Owed
    BY DEF InFlight, Owed
  <2>2. \A s \in Slot : inFlight[s].tests \subseteq InFlight
    BY DEF InFlight
  <2>3. \A s \in Slot : Waiting(s) \subseteq inFlight[s].tests
    BY QueuedNotWaiting
  <2> QED
    BY <2>1, <2>2, <2>3
<1>3. t \in covered \cup Owed
  BY <1>1, <1>2 DEF Due, NothingLost
<1>4. CASE t \in covered
  BY <1>1, <1>4 DEF Accounted
<1>5. CASE t \in Owed \ covered
  <2>1. synth \in [Test -> Nat]
    BY DEF CountingInv, AgreementInv, TypeOK, DispatcherTypeOK
  <2>2. synth'[t] = synth[t] + 1 /\ synth[t] \in Nat
    BY <1>5, <2>1, BumpValue DEF SynthOwed
  <2> QED
    BY <2>2 DEF Accounted
<1> QED
  BY <1>3, <1>4, <1>5

(* Feeding slot s from plans q: its old plan is answered for, or queued    *)
(* again with the death on its tests' account.                             *)
LEMMA FeedingKeepsAll ==
  ASSUME TypeOK, NothingLost, phase \in {"seeding", "loop"}, NEW s \in Slot,
         NEW q \in SUBSET Plan, Dispatch(s, q), queue \subseteq q,
         inbox[s] = << >>, child[s] # "busy",
         \A r \in Slot \ {s} : outbox'[r] = outbox[r],
         UNCHANGED <<child, job, code, executions, stopping>>,
         covered \subseteq covered',
         \A t \in Test : attempts[t] <= attempts'[t] /\ attempts'[t] \in Nat,
         \A t \in inFlight[s].tests :
           t \in covered' \/ (executions[t] <= attempts'[t] /\ \E p \in q : t \in p.tests)
  PROVE  NothingLost'
<1> USE DEF TypeOK, PoolTypeOK, DispatcherTypeOK, WorkerTypeOK
<1>1. /\ phase' \in {phase, "aborted"}
      /\ \A r \in Slot \ {s} : inFlight'[r] = inFlight[r] /\ inbox'[r] = inbox[r]
      /\ phase' = phase => \/ \E p \in q : /\ inFlight'[s] = p /\ queue' = q \ {p}
                                           /\ inbox'[s] = <<p>>
                           \/ inFlight'[s] = NoPlan /\ q = {}
  BY DEF Dispatch, WriteBatch, CloseSlot
<1>2. CASE phase' = "aborted"
  BY <1>2 DEF NothingLost
<1>3. CASE phase' = phase
  <2>1. Answered(s)'
    <3>1. CASE inFlight'[s] = NoPlan
      BY <3>1, NoPlanFacts DEF Answered
    <3>2. ASSUME NEW p \in q, inFlight'[s] = p, inbox'[s] = <<p>> PROVE Answered(s)'
      <4>1. Waiting(s)' = p.tests
        BY <3>2, PipedFacts DEF Waiting
      <4> QED
        BY <3>2, <4>1 DEF Answered
    <3> QED
      BY <1>1, <1>3, <3>1, <3>2
  <2>2. ASSUME NEW r \in Slot \ {s} PROVE Answered(r)'
    BY <1>1, <2>2, AnsweredFrame DEF NothingLost
  <2>3. \A r \in Slot : inFlight'[r].tests \subseteq InFlight' /\ inFlight'[r].tests \subseteq Owed'
    <3>1. InFlight' \subseteq Owed'
      BY DEF InFlight, Owed
    <3>2. \A r \in Slot : inFlight'[r].tests \subseteq InFlight'
      BY DEF InFlight
    <3> QED
      BY <3>1, <3>2
  <2>4. \A p \in q : p.tests \subseteq Owed'
    <3>1. \A p \in queue' : p.tests \subseteq UNION {u.tests : u \in queue'}
      OBVIOUS
    <3>2. \A p \in queue' : p.tests \subseteq Owed'
      BY <3>1 DEF Owed
    <3>3. inFlight'[s].tests \subseteq Owed'
      BY <2>3
    <3> QED
      BY <1>1, <1>3, <3>2, <3>3
  <2>5. \A r \in Slot \ {s} : inFlight[r].tests \subseteq InFlight' /\ inFlight[r].tests \subseteq Owed'
    BY <1>1, <2>3
  <2>6. Owed \subseteq covered' \cup Owed'
    <3>1. \A r \in Slot : inFlight[r].tests \subseteq covered' \cup Owed'
      <4>1. \A t \in inFlight[s].tests : t \in covered' \/ t \in Owed'
        BY <2>4
      <4> QED
        BY <2>5, <4>1
    <3>2. ASSUME NEW t \in Owed PROVE t \in covered' \cup Owed'
      <4>1. CASE \E p \in queue : t \in p.tests
        BY <2>4, <4>1
      <4>2. CASE \E r \in Slot : t \in inFlight[r].tests
        BY <3>1, <4>2
      <4>3. (\E p \in queue : t \in p.tests) \/ (\E r \in Slot : t \in inFlight[r].tests)
        BY <3>2 DEF Owed
      <4> QED
        BY <4>1, <4>2, <4>3
    <3> QED
      BY <3>2
  <2>7. ASSUME NEW t \in Test, executions'[t] > attempts'[t] PROVE t \in covered' \cup InFlight'
    <3>1. /\ executions[t] \in Nat /\ attempts[t] \in Nat /\ attempts'[t] \in Nat
          /\ attempts[t] <= attempts'[t] /\ executions[t] > attempts'[t]
      BY <2>7
    <3>2. t \in covered \cup InFlight /\ ~(executions[t] <= attempts'[t])
      BY <3>1 DEF NothingLost
    <3>3. ASSUME NEW r \in Slot, t \in inFlight[r].tests PROVE t \in covered' \cup InFlight'
      BY <2>5, <3>2, <3>3
    <3> QED
      BY <3>2, <3>3 DEF InFlight
  <2> QED
    BY <1>3, <2>1, <2>2, <2>6, <2>7 DEF NothingLost
<1> QED
  BY <1>1, <1>2, <1>3

(* Without a death between, a batch that is done is answered for.          *)
LEMMA DoneIsAnswered ==
  ASSUME AgreementInv, NothingLost, NEW s \in Slot, ReceiveBatchDone(s)
  PROVE  inFlight[s].tests \subseteq covered
<1> USE DEF AgreementInv, TypeOK
<1>1. phase = "loop" /\ Receive(s, "batch_done") /\ Agreement(s) /\ Answered(s)
  BY DEF ReceiveBatchDone, SlotAgreement, NothingLost
<1>2. /\ inbox[s] = << >> /\ child[s] # "busy" /\ ~Crashed(s) /\ Len(outbox[s]) = 1
  BY <1>1, NoticeIsLast
<1>3. outbox[s] # << >> /\ Head(outbox[s]).kind = "batch_done" /\ Head(outbox[s]) = outbox[s][1]
  BY <1>1, <1>2 DEF Receive, PoolTypeOK
<1>4. \A i \in 1 .. Len(outbox[s]) : outbox[s][i].kind = "batch_done"
  BY <1>2, <1>3
<1>5. ~DeathTold(outbox[s]) /\ Said(outbox[s]) = {}
  BY <1>4 DEF DeathTold, Said, Answers
<1>6. Waiting(s) = {}
  BY <1>2, PipedFacts DEF Waiting
<1> QED
  BY <1>1, <1>2, <1>5, <1>6 DEF Answered

(* What is cut out of a dead worker's batch is an Error or is queued.      *)
LEMMA NothingCutAway ==
  ASSUME NEW unrun \in SUBSET Test, NEW a, NEW t \in unrun, t \notin Poisoned(unrun, a)
  PROVE  \E p \in Requeued(unrun, a) : t \in p.tests
<1> DEFINE u == [tests |-> Suspect(unrun, a), force |-> TRUE]
           v == [tests |-> Innocent(unrun, a), force |-> FALSE]
<1>1. t \in u.tests \/ t \in v.tests
  BY DEF Suspect, Innocent
<1>2. u.tests # {} => u \in Requeued(unrun, a)
  BY DEF Requeued
<1>3. v.tests # {} => v \in Requeued(unrun, a)
  BY DEF Requeued
<1> HIDE DEF u, v
<1> QED
  BY <1>1, <1>2, <1>3

\* Handing out a plan moves its tests from the queue to the worker.
LEMMA SeedKeepsAll ==
  ASSUME CountingInv, NothingLost, NEW s \in Slot, Seed(s) \/ ReceiveBatchDone(s),
         UNCHANGED workerSide
  PROVE  NothingLost'
<1> USE DEF CountingInv
<1>1. /\ TypeOK /\ Dispatch(s, queue) /\ queue \in SUBSET Plan
      /\ UNCHANGED <<attempts, stopping, pairs, classes, child, job, code, executions>>
      /\ \A r \in Slot \ {s} : outbox'[r] = outbox[r]
  BY DEF AgreementInv, TypeOK, Seed, ReceiveBatchDone, Receive, workerSide, workerVars,
         receivedVars, DispatcherTypeOK, PoolTypeOK
<1>2. inbox[s] = << >> /\ child[s] # "busy" /\ phase \in {"seeding", "loop"}
  BY FedSlotIsEmpty
<1>3. covered' = covered
  BY <1>1 DEF covered
<1>4. \A t \in Test : attempts[t] <= attempts'[t] /\ attempts'[t] \in Nat
  BY <1>1 DEF TypeOK, DispatcherTypeOK
<1>5. inFlight[s].tests \subseteq covered'
  <2>1. CASE Seed(s)
    <3>1. inFlight[s] = NoPlan
      BY <2>1 DEF AgreementInv, TypeOK, Seed, SlotAgreement, UnseededSlots, DispatcherTypeOK, Slot
    <3> QED
      BY <3>1, NoPlanFacts
  <2>2. CASE ReceiveBatchDone(s)
    BY <1>3, <2>2, DoneIsAnswered
  <2> QED
    BY <2>1, <2>2
<1> QED
  BY <1>1, <1>2, <1>3, <1>4, <1>5, FeedingKeepsAll

\* A death notice puts each test in flight back, or reports it.
LEMMA SlotDiedKeepsAll ==
  ASSUME CountingInv, StartsBehindDeaths, NothingLost, NEW s \in Slot, ReceiveSlotDied(s),
         UNCHANGED workerSide
  PROVE  NothingLost'
<1> USE DEF CountingInv
<1> DEFINE unrun == inFlight[s].tests \ covered
           poison == Poisoned(unrun, attempts)
           q == queue \cup Requeued(unrun, attempts)
<1>1. /\ TypeOK /\ attempts' = Bump(attempts, unrun \ poison) /\ Dispatch(s, q)
      /\ pairs' = pairs \cup poison
      /\ UNCHANGED <<classes, stopping, child, job, code, executions>>
      /\ \A r \in Slot \ {s} : outbox'[r] = outbox[r]
  BY DEF AgreementInv, TypeOK, ReceiveSlotDied, Receive, workerSide, workerVars, PoolTypeOK
<1>2. inbox[s] = << >> /\ child[s] # "busy" /\ phase \in {"seeding", "loop"}
  BY FedSlotIsEmpty
<1>3. unrun \in SUBSET Test /\ inFlight[s].tests \subseteq covered \cup unrun
  BY <1>1, NoPlanFacts DEF TypeOK, DispatcherTypeOK
<1> HIDE DEF unrun
<1>4. /\ q \in SUBSET Plan /\ queue \subseteq q
      /\ \A t \in unrun \ poison : \E p \in q : t \in p.tests
  BY <1>1, <1>3, RequeuedPlans, NothingCutAway DEF TypeOK, DispatcherTypeOK
<1>5. covered \subseteq covered' /\ poison \cap Test \subseteq covered'
  BY <1>1 DEF covered, Covered
<1> HIDE DEF poison
<1>6. \A t \in Test : /\ attempts[t] \in Nat /\ executions[t] \in Nat
                      /\ executions[t] <= attempts[t] + 1
                      /\ attempts'[t] = IF t \in unrun \ poison THEN attempts[t] + 1 ELSE attempts[t]
  <2>1. attempts \in [Test -> Nat] /\ executions \in [Test -> Nat]
    BY <1>1 DEF TypeOK, DispatcherTypeOK, WorkerTypeOK
  <2> QED
    BY <1>1, <2>1, BumpValue DEF StartsBehindDeaths
<1>7. \A t \in Test : attempts[t] <= attempts'[t] /\ attempts'[t] \in Nat
  BY <1>6
<1>8. \A t \in unrun \ poison : executions[t] <= attempts'[t]
  BY <1>3, <1>6
<1>9. \A t \in inFlight[s].tests :
        t \in covered' \/ (executions[t] <= attempts'[t] /\ \E p \in q : t \in p.tests)
  BY <1>3, <1>4, <1>5, <1>8
<1> HIDE DEF q
<1> QED
  BY <1>1, <1>2, <1>4, <1>5, <1>7, <1>9, FeedingKeepsAll

\* Rows that arrive account for the tests they report.
LEMMA RowsKeepAll ==
  ASSUME CountingInv, NothingLost, NEW s \in Slot, ReceiveRows(s), UNCHANGED workerSide
  PROVE  NothingLost'
<1> USE DEF CountingInv, AgreementInv, TypeOK
<1> DEFINE m == Head(outbox[s])
<1>1. /\ phase = "loop" /\ phase' = phase /\ m.kind = "rows" /\ outbox[s] # << >>
      /\ outbox' = [outbox EXCEPT ![s] = Tail(@)]
      /\ pairs' = pairs \cup Reported(m) /\ classes' = classes \cup m.classes
      /\ ~stopping' => ~stopping /\ queue' = queue
      /\ UNCHANGED <<inbox, inFlight, attempts, executions, child, code, job>>
  BY DEF ReceiveRows, Receive, Reported, workerSide, workerVars
<1>2. covered \cup Answers(m) \subseteq covered'
  BY <1>1 DEF covered, Covered, Answers
<1>3. outbox[s] \in Seq(Msg) /\ outbox'[s] = Tail(outbox[s])
  BY <1>1 DEF PoolTypeOK
<1>4. /\ Said(outbox[s]) = Answers(m) \cup Said(outbox'[s])
      /\ DeathTold(outbox[s]) <=> DeathTold(outbox'[s])
  BY <1>1, <1>3, SaidOneLess
<1> HIDE DEF m
<1>5. ASSUME NEW r \in Slot PROVE Answered(r)'
  <2>1. Answered(r)
    BY <1>1 DEF NothingLost
  <2>2. CASE r = s
    <3>1. Waiting(s)' = Waiting(s) /\ Crashed(s)' = Crashed(s)
      BY <1>1 DEF Waiting, Crashed
    <3> QED
      BY <1>1, <1>2, <1>4, <2>1, <2>2, <3>1 DEF Answered
  <2>3. CASE r # s
    <3>1. outbox'[r] = outbox[r]
      BY <1>1, <2>3 DEF PoolTypeOK
    <3> QED
      BY <1>1, <1>2, <2>1, <3>1, AnsweredFrame
  <2> QED
    BY <2>2, <2>3
<1>6. InFlight' = InFlight /\ (~stopping' => Owed' = Owed)
  BY <1>1 DEF InFlight, Owed
<1> QED
  BY <1>1, <1>2, <1>5, <1>6 DEF NothingLost

\* The master's end hands back what no one reported.
LEMMA EofKeepsAll ==
  ASSUME CountingInv, StartsBehindDeaths, NothingLost, NEW s \in Slot, ReceiveEof(s),
         UNCHANGED workerSide
  PROVE  NothingLost'
<1>1. /\ phase = "loop"
      /\ UNCHANGED <<inbox, outbox, child, code, job, executions, attempts, stopping, pairs, classes>>
  BY DEF ReceiveEof, pipeVars, receivedVars, workerSide, workerVars
<1>2. CASE UNCHANGED <<phase, queue, inFlight, masterDied, synth>>
  <2>1. UNCHANGED <<covered, InFlight, Owed>>
    BY <1>1, <1>2 DEF covered, InFlight, Owed
  <2>2. \A r \in Slot : Answered(r)'
    BY <1>1, <1>2, <2>1, AnsweredFrame DEF NothingLost
  <2> QED
    BY <1>1, <1>2, <2>1, <2>2 DEF NothingLost
<1>3. CASE phase' = "done" /\ masterDied' = TRUE
  BY <1>3 DEF NothingLost, Accounted, unfinished
<1>4. CASE phase' = "done" /\ SynthOwed
  BY <1>1, <1>4, GivingUpAccounts DEF NothingLost
<1> QED
  BY <1>2, <1>3, <1>4 DEF ReceiveEof

\* So no step of the dispatcher loses a test.
LEMMA RustStepKeepsAll ==
  ASSUME CountingInv, StartsBehindDeaths, NothingLost, RustStep
  PROVE  NothingLost'
<1>1. CASE StartLoop /\ UNCHANGED workerSide
  <2>1. /\ phase = "seeding" /\ phase' = "loop"
        /\ UNCHANGED <<inbox, outbox, child, code, job, executions, attempts, stopping, pairs,
                       classes, queue, inFlight>>
    BY <1>1 DEF StartLoop, pipeVars, receivedVars, workerSide, workerVars
  <2>2. UNCHANGED <<covered, InFlight, Owed>>
    BY <2>1 DEF covered, InFlight, Owed
  <2>3. \A r \in Slot : Answered(r)'
    BY <2>1, <2>2, AnsweredFrame DEF NothingLost
  <2> QED
    BY <2>1, <2>2, <2>3 DEF NothingLost
<1>2. CASE Watchdog /\ UNCHANGED workerSide
  <2>1. /\ phase = "loop" /\ phase' = "terminating" /\ SynthOwed
        /\ UNCHANGED <<executions, attempts, stopping, pairs, classes, inbox, child, job>>
    BY <1>2 DEF Watchdog, pipeVars, receivedVars, workerSide, workerVars
  <2> QED
    BY <2>1, GivingUpAccounts DEF NothingLost
<1>3. CASE (Terminate /\ UNCHANGED <<mode, workerVars>>) \/ (Join /\ UNCHANGED workerSide)
  <2>1. StartsSome
    BY <1>3, IdleStepStarts DEF IdleStep
  <2>2. /\ phase \in {"terminating", "joining", "done"} /\ phase' \in {"terminating", "joining", "done"}
        /\ UNCHANGED <<attempts, stopping, pairs, classes, synth, masterDied>>
    BY <1>3 DEF Terminate, Join, receivedVars, reportVars
  <2> QED
    BY <2>1, <2>2, AfterwardsKept DEF NothingLost, CountingInv, AgreementInv
<1> QED
  BY <1>1, <1>2, <1>3, SeedKeepsAll, RowsKeepAll, SlotDiedKeepsAll, EofKeepsAll DEF RustStep

\* At the start every test is still to be planned.
LEMMA InitLosesNothing == Init => NothingLost
<1> SUFFICES ASSUME Init PROVE NothingLost
  OBVIOUS
<1>1. /\ phase = "seeding" /\ queue = InitialPlans
      /\ \A s \in Slot : inFlight[s] = NoPlan
      /\ \A t \in Test : attempts[t] = 0 /\ executions[t] = 0
  BY DEF Init, DispatcherInit, WorkerInit
<1>2. \A s \in Slot : Answered(s)
  BY <1>1, NoPlanFacts DEF Answered
<1>3. Test \subseteq Owed
  BY <1>1, PlansPartitionTheSuite DEF Owed
<1> QED
  BY <1>1, <1>2, <1>3 DEF NothingLost

\* So no reachable state has lost one.
LEMMA LossInvariant ==
  ASSUME OnlyMidBatchDeaths
  PROVE  Spec => []NothingLost
<1>1. CountingInv /\ StartsBehindDeaths /\ NothingLost /\ [Next]_vars => NothingLost'
  BY RustStepKeepsAll, WorkerSideKeepsAll DEF Next, Returned
<1> QED
  BY <1>1, StartsInvariant, InitLosesNothing, PTL DEF Spec

(* No test silently vanishes, in every run in which workers crash only in  *)
(* the middle of a batch: not when a worker dies, however often, not when  *)
(* the master does, not when the watchdog ends the run, and a stop drops   *)
(* only tests that were not running.                                       *)
THEOREM NothingVanishes ==
  ASSUME OnlyMidBatchDeaths
  PROVE  Spec => []NoTestVanishes
<1>1. NothingLost => NoTestVanishes
  BY DEF NothingLost, NoTestVanishes, Due
<1> QED
  BY <1>1, LossInvariant, PTL

----------------------------------------------------------------------------
(* The report as the contract reads it: received tests have a row or an    *)
(* Error, and tests are handed back only on return.                        *)
ReportInv ==
  /\ \A t \in pairs : synth[t] > 0 \/ \E c \in Case : c[1] = t /\ streamed[c] > 0
  /\ masterDied => phase = "done"

ReadOff(st, sy, t) ==
  IF sy[t] > 0 THEN "error" ELSE IF \E c \in Case : c[1] = t /\ st[c] > 0 THEN "ran" ELSE "none"

\* The rows of a test are exactly its cases, and there are some.
LEMMA RowsOfATest ==
  ASSUME NEW t \in Test
  PROVE  LET rows == {<<t, r>> : r \in 1 .. RowsOf[t]}
         IN rows # {} /\ \A c : c \in rows <=> c \in Case /\ c[1] = t
<1> DEFINE rows == {<<t, r>> : r \in 1 .. RowsOf[t]}
<1>1. RowsOf[t] \in Nat /\ RowsOf[t] >= 1
  BY SuiteAssumption
<1>2. 1 \in 1 .. RowsOf[t]
  BY <1>1
<1>3. <<t, 1>> \in rows
  BY <1>2
<1>4. \A c : c \in rows => c \in Case /\ c[1] = t
  BY DEF Case
<1>5. ASSUME NEW c \in Case, c[1] = t PROVE c \in rows
  <2>1. PICK u \in Test : c \in {u} \X (1 .. RowsOf[u])
    BY <1>5 DEF Case
  <2>2. u = t /\ c = <<t, c[2]>> /\ c[2] \in 1 .. RowsOf[t]
    BY <1>5, <2>1
  <2> QED
    BY <2>2
<1> QED
  BY <1>3, <1>4, <1>5

(* The verdict as the dispatcher defines it, from the counts of some rows. *)
Tabled(st, sy, t, rows) ==
  CASE sy[t] = 0 /\ (\A c \in rows : st[c] = 0) -> "none"
    [] sy[t] = 0 /\ (\E c \in rows : st[c] = 1) /\ (\A c \in rows : st[c] \in {0, 1}) -> "ran"
    [] sy[t] = 1 /\ (\A c \in rows : st[c] = 0) -> "error"
    [] OTHER -> "contradictory"

\* A test counted at most once is none of the contradictory cases.
LEMMA VerdictIs ==
  ASSUME NEW st \in [Case -> Nat], NEW sy \in [Test -> Nat],
         \A c \in Case : st[c] + sy[c[1]] <= 1, NEW t \in Test,
         NEW rows, rows # {}, \A c : c \in rows <=> c \in Case /\ c[1] = t
  PROVE  ReadOff(st, sy, t) = Tabled(st, sy, t, rows)
<1>2. sy[t] \in Nat /\ \A c \in rows : st[c] \in Nat /\ st[c] + sy[t] <= 1
  OBVIOUS
<1>3. CASE sy[t] > 0
  <2>1. sy[t] = 1 /\ ~(sy[t] = 0) /\ \A c \in rows : st[c] = 0
    BY <1>2, <1>3
  <2>2. ReadOff(st, sy, t) = "error"
    BY <1>3 DEF ReadOff
  <2> QED
    BY <2>1, <2>2 DEF Tabled
<1>4. CASE sy[t] = 0 /\ \A c \in rows : st[c] = 0
  <2>1. ~\E c \in Case : c[1] = t /\ st[c] > 0
    BY <1>4
  <2>2. ReadOff(st, sy, t) = "none"
    BY <1>4, <2>1 DEF ReadOff
  <2>3. ~(\E c \in rows : st[c] = 1) /\ ~(sy[t] = 1)
    BY <1>4
  <2> QED
    BY <1>4, <2>2, <2>3 DEF Tabled
<1>5. CASE sy[t] = 0 /\ \E c \in rows : st[c] # 0
  <2>1. \A c \in rows : st[c] \in {0, 1}
    BY <1>2, <1>5
  <2>2. PICK c \in rows : st[c] = 1
    BY <1>5, <2>1
  <2>3. ReadOff(st, sy, t) = "ran"
    BY <1>5, <2>2 DEF ReadOff
  <2>4. ~(\A d \in rows : st[d] = 0) /\ ~(sy[t] = 1)
    BY <1>5, <2>2
  <2> QED
    BY <1>5, <2>1, <2>2, <2>3, <2>4 DEF Tabled
<1>6. sy[t] > 0 \/ sy[t] = 0
  BY <1>2
<1> QED
  BY <1>3, <1>4, <1>5, <1>6

VerdictsRead == \A t \in Test : verdict[t] = ReadOff(streamed, synth, t)

\* What the report says of a test is what was counted.
LEMMA VerdictRead == TypeOK /\ CountedAtMostOnce => VerdictsRead
<1> SUFFICES ASSUME TypeOK, CountedAtMostOnce, NEW t \in Test
             PROVE  verdict[t] = ReadOff(streamed, synth, t)
  BY DEF VerdictsRead
<1> DEFINE rows == {<<t, r>> : r \in 1 .. RowsOf[t]}
<1>1. rows # {} /\ \A c : c \in rows <=> c \in Case /\ c[1] = t
  BY RowsOfATest
<1>2. streamed \in [Case -> Nat] /\ synth \in [Test -> Nat]
  BY DEF TypeOK, DispatcherTypeOK
<1>3. \A c \in Case : streamed[c] + synth[c[1]] <= 1
  BY DEF CountedAtMostOnce
<1>4. verdict[t] = Tabled(streamed, synth, t, rows)
  BY DEF verdict, Tabled
<1> HIDE DEF rows
<1>5. ReadOff(streamed, synth, t) = Tabled(streamed, synth, t, rows)
  BY <1>1, <1>2, <1>3, VerdictIs
<1> QED
  BY <1>4, <1>5

\* The same of the next state.
LEMMA VerdictReadNext == TypeOK' /\ CountedAtMostOnce' => VerdictsRead'
BY VerdictRead, PTL

----------------------------------------------------------------------------
(* What the contract's variables stand for.                                *)
contractVars ==
  <<verdict, {t \in Test : ClassOf[t] \in classes}, stopping, phase = "done",
    IF phase = "done" THEN unfinished ELSE {}>>

\* Every step keeps each finished test behind a row or an error of it.
LEMMA ReportInvKept ==
  ASSUME TypeOK, ReportInv, [Next]_vars
  PROVE  ReportInv'
<1> USE DEF TypeOK, DispatcherTypeOK
<1>1. ASSUME UNCHANGED <<masterDied, pairs, streamed, synth>>, phase' = phase \/ phase # "done"
      PROVE  ReportInv'
  BY <1>1 DEF ReportInv
<1>2. CASE PhpMasterStep \/ (\E s \in Slot : PhpWorkerStep(s)) \/ EnvironmentStep \/ UNCHANGED vars
  <2>1. UNCHANGED dispatcherVars
    BY <1>2 DEF PhpMasterStep, PhpWorkerStep, EnvironmentStep, vars
  <2> QED
    BY <1>1, <2>1 DEF dispatcherVars
<1>3. CASE (StartLoop \/ Terminate \/ Join \/ \E s \in Slot : Seed(s) \/ ReceiveBatchDone(s))
  BY <1>1, <1>3 DEF StartLoop, Terminate, Join, Seed, ReceiveBatchDone, receivedVars, reportVars
<1>4. ASSUME NEW s \in Slot, ReceiveRows(s) PROVE ReportInv'
  <2> DEFINE m == Head(outbox[s])
  <2>1. /\ UNCHANGED <<masterDied, synth, phase>> /\ phase = "loop"
        /\ pairs' = pairs \cup {c[1] : c \in m.rows}
        /\ streamed' = Bump(streamed, m.rows)
        /\ m \in Msg
    BY <1>4, ReceiveType DEF ReceiveRows, PoolTypeOK
  <2>2. \A c \in Case : streamed'[c] = IF c \in m.rows THEN streamed[c] + 1 ELSE streamed[c]
    BY <2>1, BumpValue
  <2>3. m.rows \subseteq Case
    BY <2>1 DEF Msg
  <2> HIDE DEF m
  <2>4. ASSUME NEW t \in pairs' PROVE synth'[t] > 0 \/ \E c \in Case : c[1] = t /\ streamed'[c] > 0
    <3>1. \A c \in Case : streamed[c] \in Nat
      OBVIOUS
    <3>2. CASE t \in pairs
      BY <2>1, <2>2, <3>1, <3>2 DEF ReportInv
    <3>3. CASE \E c \in m.rows : c[1] = t
      BY <2>2, <2>3, <3>1, <3>3
    <3> QED
      BY <2>1, <2>4, <3>2, <3>3
  <2> QED
    BY <2>1, <2>4 DEF ReportInv
<1>5. ASSUME NEW S \in SUBSET Test, synth' = Bump(synth, S), pairs' \subseteq pairs \cup S,
             UNCHANGED <<streamed, masterDied>>, phase # "done"
      PROVE  ReportInv'
  <2>1. \A t \in Test : synth'[t] = IF t \in S THEN synth[t] + 1 ELSE synth[t]
    BY <1>5, BumpValue
  <2>2. \A t \in Test : synth[t] \in Nat
    OBVIOUS
  <2>3. ASSUME NEW t \in pairs' PROVE synth'[t] > 0 \/ \E c \in Case : c[1] = t /\ streamed'[c] > 0
    BY <1>5, <2>1, <2>2, <2>3 DEF ReportInv
  <2> QED
    BY <1>5, <2>3 DEF ReportInv
<1>6. Owed \subseteq Test
  <2>1. \A p \in queue : p.tests \subseteq Test
    BY NoPlanFacts
  <2>2. \A s \in Slot : inFlight[s].tests \subseteq Test
    BY NoPlanFacts
  <2> QED
    BY <2>1, <2>2 DEF Owed
<1>7. ASSUME NEW s \in Slot, ReceiveSlotDied(s) PROVE ReportInv'
  <2>1. inFlight[s].tests \ covered \in SUBSET Test
    BY NoPlanFacts
  <2>2. Poisoned(inFlight[s].tests \ covered, attempts) \in SUBSET Test
    BY <2>1 DEF Poisoned
  <2> QED
    BY <1>5, <1>7, <2>2 DEF ReceiveSlotDied
<1>8. CASE Watchdog
  BY <1>5, <1>6, <1>8 DEF Watchdog, SynthOwed, receivedVars
<1>9. ASSUME NEW s \in Slot, ReceiveEof(s) PROVE ReportInv'
  <2>1. phase = "loop" /\ UNCHANGED <<pairs, streamed>>
    BY <1>9 DEF ReceiveEof, receivedVars
  <2>2. CASE UNCHANGED <<phase, masterDied, synth>>
    BY <1>1, <2>1, <2>2
  <2>3. CASE phase' = "done" /\ UNCHANGED synth
    BY <2>1, <2>3 DEF ReportInv
  <2>4. CASE SynthOwed /\ UNCHANGED masterDied
    BY <1>5, <1>6, <2>1, <2>4 DEF SynthOwed
  <2> QED
    BY <1>9, <2>2, <2>3, <2>4 DEF ReceiveEof
<1> QED
  BY <1>2, <1>3, <1>4, <1>7, <1>8, <1>9 DEF Next, RustStep, Returned

(* Steps of run_resumable that report nothing and do not return.           *)
LEMMA SilentMaps ==
  ASSUME UNCHANGED <<streamed, synth, classes, stopping>>, phase # "done", phase' # "done"
  PROVE  UNCHANGED contractVars
BY DEF contractVars, verdict

\* A step outside the dispatcher maps to a stutter of the contract.
LEMMA UntouchedMaps ==
  ASSUME UNCHANGED dispatcherVars
  PROVE  UNCHANGED contractVars
BY DEF dispatcherVars, contractVars, verdict, unfinished, covered

(* Tests of S get their verdict.                                           *)
LEMMA DeliverMaps ==
  ASSUME TypeOK, CountedAtMostOnce, TypeOK', CountedAtMostOnce', phase # "done", phase' # "done",
         NEW S \in SUBSET Test, NEW v \in {"ran", "error"},
         \A t \in S : ReadOff(streamed, synth, t) = "none" /\ ReadOff(streamed', synth', t) = v,
         \A t \in Test \ S : ReadOff(streamed', synth', t) = ReadOff(streamed, synth, t),
         classes \subseteq classes', stopping' \in {stopping, TRUE}
  PROVE  Contract!Deliver
<1>1. /\ \A t \in Test : verdict[t] = ReadOff(streamed, synth, t)
      /\ \A t \in Test : verdict'[t] = ReadOff(streamed', synth', t)
  BY VerdictRead, VerdictReadNext DEF VerdictsRead
<1>2. verdict' = [t \in Test |-> IF t \in S THEN v ELSE verdict[t]]
  <2>1. verdict' = [t \in Test |-> verdict'[t]]
    BY DEF verdict
  <2>2. \A t \in Test : verdict'[t] = IF t \in S THEN v ELSE verdict[t]
    BY <1>1
  <2> HIDE DEF verdict
  <2> QED
    BY <2>1, <2>2
<1>3. \A t \in S : verdict[t] = "none"
  BY <1>1
<1>4. \E E \in SUBSET Test : {t \in Test : ClassOf[t] \in classes'} =
                             {t \in Test : ClassOf[t] \in classes} \cup E
  <2>1. {t \in Test : ClassOf[t] \in classes'} =
          {t \in Test : ClassOf[t] \in classes} \cup {t \in Test : ClassOf[t] \in classes'}
    OBVIOUS
  <2> QED
    BY <2>1
<1>5. Contract!Judge(S, v)
  BY <1>2, <1>3 DEF Contract!Judge
<1> QED
  BY <1>4, <1>5 DEF Contract!Deliver

\* A step that ends the call with nothing dropped maps to the contract's Return.
LEMMA ReturnMaps ==
  ASSUME phase # "done", phase' = "done", UNCHANGED <<streamed, synth, classes, stopping>>,
         unfinished' \subseteq Test, \A t \in unfinished' : verdict[t] = "none",
         \A t \in Test : \/ verdict[t] # "none" \/ ClassOf[t] \in classes
                         \/ t \in unfinished' \/ stopping
  PROVE  Contract!Return
<1>1. verdict' = verdict
  BY DEF verdict
<1> QED
  BY <1>1 DEF Contract!Return

(* What is received has a verdict, or is spoken for by its class; what is  *)
(* not received has none.                                                  *)
LEMMA ReceivedIsJudged ==
  ASSUME TypeOK, CountedAtMostOnce, ReportInv, NEW t \in Test
  PROVE  /\ t \in covered => verdict[t] # "none" \/ ClassOf[t] \in classes
         /\ synth[t] > 0 => verdict[t] # "none"
         /\ ReportKnown /\ phase \in {"seeding", "loop"} /\ t \notin pairs
              => ReadOff(streamed, synth, t) = "none" /\ verdict[t] = "none"
<1>1. verdict[t] = ReadOff(streamed, synth, t)
  BY VerdictRead DEF VerdictsRead
<1>2. synth[t] > 0 => verdict[t] # "none"
  BY <1>1 DEF ReadOff
<1>3. t \in pairs => verdict[t] # "none"
  BY <1>1 DEF ReadOff, ReportInv
<1>4. ReportKnown /\ phase \in {"seeding", "loop"} /\ t \notin pairs
        => ReadOff(streamed, synth, t) = "none"
  BY DEF ReportKnown, ReadOff
<1> QED
  BY <1>1, <1>2, <1>3, <1>4 DEF covered, Covered

RecoveryInv == CountingInv /\ StartsBehindDeaths /\ NothingLost /\ ReportInv

(* Errors for tests S nothing was received for.                            *)
LEMMA ErrorsMap ==
  ASSUME RecoveryInv, TypeOK', CountedAtMostOnce', phase \in {"seeding", "loop"}, phase' # "done",
         NEW S \in SUBSET Test, S \cap covered = {}, synth' = Bump(synth, S),
         UNCHANGED <<streamed, classes, stopping>>
  PROVE  Contract!Deliver
<1>1. TypeOK /\ CountedAtMostOnce /\ ReportInv /\ ReportKnown
  BY DEF RecoveryInv, CountingInv, AgreementInv, OutcomesFresh
<1>2. \A t \in Test : /\ synth[t] \in Nat
                      /\ synth'[t] = IF t \in S THEN synth[t] + 1 ELSE synth[t]
  BY <1>1, BumpValue DEF TypeOK, DispatcherTypeOK
<1>3. \A t \in S : t \notin pairs
  BY <1>1 DEF covered, Covered, TypeOK, DispatcherTypeOK
<1>4. \A t \in S : ReadOff(streamed, synth, t) = "none" /\ ReadOff(streamed', synth', t) = "error"
  <2>1. \A t \in S : ReadOff(streamed, synth, t) = "none"
    BY <1>1, <1>3, ReceivedIsJudged
  <2>2. \A t \in S : ReadOff(streamed', synth', t) = "error"
    BY <1>2 DEF ReadOff
  <2> QED
    BY <2>1, <2>2
<1>5. \A t \in Test \ S : ReadOff(streamed', synth', t) = ReadOff(streamed, synth, t)
  BY <1>2 DEF ReadOff
<1> QED
  BY <1>1, <1>4, <1>5, DeliverMaps

\* Rows that arrive map to Deliver.
LEMMA RowsMap ==
  ASSUME RecoveryInv, TypeOK', CountedAtMostOnce', NEW s \in Slot, ReceiveRows(s)
  PROVE  Contract!Deliver
<1> DEFINE m == Head(outbox[s])
           S == Reported(m)
<1>1. TypeOK /\ CountedAtMostOnce /\ ReportInv /\ ReportKnown
  BY DEF RecoveryInv, CountingInv, AgreementInv, OutcomesFresh
<1>2. /\ phase = "loop" /\ phase' = phase /\ outbox[s] # << >> /\ outbox[s] \in Seq(Msg)
      /\ streamed' = Bump(streamed, m.rows) /\ synth' = synth
      /\ classes' = classes \cup m.classes /\ stopping' \in {stopping, TRUE}
  BY <1>1 DEF ReceiveRows, Receive, TypeOK, PoolTypeOK, DispatcherTypeOK
<1>3. m = outbox[s][1] /\ 1 \in 1 .. Len(outbox[s]) /\ m \in Msg
  BY <1>2, EmptySeq
<1>4. S \in SUBSET Test /\ S \cap pairs = {} /\ m.rows \subseteq Case
  <2>1. m.rows \subseteq Case
    BY <1>3 DEF Msg
  <2>2. S \subseteq inFlight[s].tests \ pairs
    BY <1>2, <1>3 DEF RecoveryInv, CountingInv, OutcomesFresh, Unreported
  <2> QED
    BY <2>1, <2>2, CaseTests DEF Reported
<1>5. \A c \in Case : /\ streamed[c] \in Nat
                      /\ streamed'[c] = IF c \in m.rows THEN streamed[c] + 1 ELSE streamed[c]
  <2>1. streamed \in [Case -> Nat]
    BY <1>1 DEF TypeOK, DispatcherTypeOK
  <2> HIDE DEF m
  <2> QED
    BY <1>2, <2>1, BumpValue
<1>6. \A t \in Test : t \in S <=> \E c \in m.rows : c[1] = t
  BY DEF Reported
<1> HIDE DEF m, S
<1>7. \A t \in S : ReadOff(streamed, synth, t) = "none" /\ ReadOff(streamed', synth', t) = "ran"
  <2>1. \A t \in S : ReadOff(streamed, synth, t) = "none"
    BY <1>1, <1>2, <1>4, ReceivedIsJudged
  <2>2. \A t \in S : ~(synth[t] > 0)
    BY <2>1 DEF ReadOff
  <2>3. \A t \in S : \E c \in Case : c[1] = t /\ streamed'[c] > 0
    BY <1>4, <1>5, <1>6
  <2>4. \A t \in S : ReadOff(streamed', synth', t) = "ran"
    BY <1>2, <2>2, <2>3 DEF ReadOff
  <2> QED
    BY <2>1, <2>4
<1>8. \A t \in Test \ S : ReadOff(streamed', synth', t) = ReadOff(streamed, synth, t)
  <2>1. \A t \in Test \ S : \A c \in Case : c[1] = t => streamed'[c] = streamed[c]
    BY <1>5, <1>6
  <2> QED
    BY <1>2, <2>1 DEF ReadOff
<1>9. classes \subseteq classes'
  BY <1>2
<1> QED
  BY <1>1, <1>2, <1>4, <1>7, <1>8, <1>9, DeliverMaps

\* The master's end maps to Return, or to a stutter.
LEMMA EofMaps ==
  ASSUME RecoveryInv, NEW s \in Slot, ReceiveEof(s)
  PROVE  Contract!Return \/ UNCHANGED contractVars
<1>1. /\ phase = "loop" /\ UNCHANGED <<streamed, classes, stopping, pairs>> /\ AllExited
      /\ masterDied = FALSE
  BY DEF ReceiveEof, receivedVars, RecoveryInv, ReportInv, CountingInv, AgreementInv, TypeOK,
         DispatcherTypeOK
<1>2. TypeOK /\ CountedAtMostOnce /\ ReportInv /\ ReportKnown /\ covered' = covered
  BY <1>1 DEF RecoveryInv, CountingInv, AgreementInv, OutcomesFresh, covered
<1>3. CASE UNCHANGED <<phase, synth>>
  BY <1>1, <1>3, SilentMaps
<1>4. CASE phase' = "done" /\ masterDied' = TRUE /\ UNCHANGED synth
  <2>1. unfinished' = Test \ covered
    BY <1>2, <1>4 DEF unfinished
  <2>2. \A t \in Test \ covered : verdict[t] = "none"
    <3>1. pairs \subseteq covered
      BY <1>2 DEF covered, Covered, TypeOK, DispatcherTypeOK
    <3> QED
      BY <1>1, <1>2, <3>1, ReceivedIsJudged
  <2>3. \A t \in covered : verdict[t] # "none" \/ ClassOf[t] \in classes
    BY <1>2, ReceivedIsJudged DEF covered, Covered
  <2> QED
    BY <1>1, <1>4, <2>1, <2>2, <2>3, ReturnMaps
<1>5. CASE /\ phase' = "done" /\ UNCHANGED masterDied /\ SynthOwed
           /\ ~((queue # {} \/ \E r \in Slot : inFlight[r] # NoPlan) /\ ~MasterAlive)
  <2>1. Owed = {}
    <3>1. queue = {} /\ \A r \in Slot : inFlight[r] = NoPlan
      BY <1>1, <1>5 DEF AllExited
    <3> QED
      BY <3>1, NoPlanFacts DEF Owed
  <2>2. synth' = synth
    <3>1. synth' = Bump(synth, {})
      BY <1>5, <2>1 DEF SynthOwed
    <3>2. synth \in [Test -> Nat]
      BY <1>2 DEF TypeOK, DispatcherTypeOK
    <3> QED
      BY <3>1, <3>2 DEF Bump
  <2>3. unfinished' = {}
    BY <1>1, <1>5 DEF unfinished
  <2>4. ~stopping => Test \subseteq covered
    BY <1>1, <2>1 DEF RecoveryInv, NothingLost
  <2>5. \A t \in Test : verdict[t] # "none" \/ ClassOf[t] \in classes \/ stopping
    BY <1>2, <2>4, ReceivedIsJudged
  <2> QED
    BY <1>1, <1>5, <2>2, <2>3, <2>5, ReturnMaps
<1> QED
  BY <1>1, <1>3, <1>4, <1>5 DEF ReceiveEof

\* Joining the pool maps to Return.
LEMMA JoinMaps ==
  ASSUME RecoveryInv, Join
  PROVE  Contract!Return
<1>1. /\ phase = "joining" /\ phase' = "done"
      /\ UNCHANGED <<streamed, synth, classes, stopping, pairs, masterDied>>
  BY DEF Join, receivedVars, reportVars
<1>2. TypeOK /\ CountedAtMostOnce /\ ReportInv
  BY DEF RecoveryInv, CountingInv, AgreementInv
<1>3. unfinished = {} /\ unfinished' = {}
  BY <1>1, <1>2 DEF unfinished, ReportInv
<1>4. \A t \in Test : ~stopping => t \in covered \/ synth[t] > 0
  BY <1>1, <1>3 DEF RecoveryInv, NothingLost, Due, Accounted
<1>5. \A t \in Test : verdict[t] # "none" \/ ClassOf[t] \in classes \/ stopping
  BY <1>2, <1>4, ReceivedIsJudged
<1> QED
  BY <1>1, <1>3, <1>5, ReturnMaps

\* So every step of the dispatcher maps to a step of the contract, or to a stutter.
LEMMA RustStepMaps ==
  ASSUME RecoveryInv, RustStep, TypeOK', CountedAtMostOnce'
  PROVE  Contract!Next \/ UNCHANGED contractVars
<1>1. CASE StartLoop \/ Terminate \/ \E s \in Slot : Seed(s) \/ ReceiveBatchDone(s)
  <2>1. UNCHANGED <<streamed, synth, classes, stopping>> /\ phase # "done" /\ phase' # "done"
    BY <1>1 DEF StartLoop, Terminate, Seed, ReceiveBatchDone, Dispatch, receivedVars, reportVars
  <2> QED
    BY <2>1, SilentMaps
<1>2. ASSUME NEW s \in Slot, ReceiveSlotDied(s) PROVE Contract!Deliver
  <2> DEFINE unrun == inFlight[s].tests \ covered
             poison == Poisoned(unrun, attempts)
  <2>1. /\ phase = "loop" /\ phase' # "done" /\ synth' = Bump(synth, poison)
        /\ UNCHANGED <<streamed, classes, stopping>>
    BY <1>2 DEF ReceiveSlotDied, Dispatch
  <2>2. poison \in SUBSET Test /\ poison \cap covered = {}
    <3>1. unrun \subseteq Test
      BY NoPlanFacts DEF RecoveryInv, CountingInv, AgreementInv, TypeOK, DispatcherTypeOK
    <3> QED
      BY <3>1 DEF Poisoned
  <2> HIDE DEF poison
  <2> QED
    BY <2>1, <2>2, ErrorsMap
<1>3. CASE Watchdog
  <2>1. /\ phase = "loop" /\ phase' # "done" /\ synth' = Bump(synth, Owed \ covered)
        /\ UNCHANGED <<streamed, classes, stopping>>
    BY <1>3 DEF Watchdog, SynthOwed, receivedVars
  <2>2. Owed \ covered \in SUBSET Test
    <3>1. (\A p \in queue : p.tests \subseteq Test) /\ \A s \in Slot : inFlight[s].tests \subseteq Test
      BY NoPlanFacts DEF RecoveryInv, CountingInv, AgreementInv, TypeOK, DispatcherTypeOK
    <3> QED
      BY <3>1 DEF Owed
  <2>3. (Owed \ covered) \cap covered = {}
    OBVIOUS
  <2> QED
    BY <2>1, <2>2, <2>3, ErrorsMap DEF Contract!Next
<1> QED
  BY <1>1, <1>2, <1>3, RowsMap, EofMaps, JoinMaps DEF RustStep, Contract!Next

\* The first state maps to a first state of the contract.
LEMMA InitMaps == Init => ReportInv /\ Contract!Init
<1> SUFFICES ASSUME Init PROVE ReportInv /\ Contract!Init
  OBVIOUS
<1>1. /\ phase = "seeding" /\ pairs = {} /\ classes = {} /\ stopping = FALSE /\ masterDied = FALSE
      /\ \A c \in Case : streamed[c] = 0
      /\ \A t \in Test : synth[t] = 0
  BY DEF Init, DispatcherInit
<1>2. ReportInv
  BY <1>1 DEF ReportInv
<1>3. \A t \in Test : verdict[t] = "none"
  <2>1. VerdictsRead
    BY InitTypeOK, InitFresh, VerdictRead
  <2> QED
    BY <1>1, <2>1 DEF VerdictsRead, ReadOff
<1>4. verdict = [t \in Test |-> "none"]
  <2>1. verdict = [t \in Test |-> verdict[t]]
    BY DEF verdict
  <2> QED
    BY <1>3, <2>1
<1> QED
  BY <1>1, <1>2, <1>4 DEF Contract!Init

(* run_resumable keeps its contract, in every run in which workers crash   *)
(* only in the middle of a batch: each test is judged at most once, a test *)
(* handed back is not judged, and when the call returns without a stop,    *)
(* every test is judged, excused by its class or handed back.              *)
THEOREM ContractKept ==
  ASSUME OnlyMidBatchDeaths
  PROVE  Spec => KeepsContract
<1>1. RecoveryInv /\ [Next]_vars /\ (TypeOK /\ CountedAtMostOnce)'
        => Contract!Next \/ UNCHANGED contractVars
  <2>1. PhpMasterStep \/ (\E s \in Slot : PhpWorkerStep(s)) \/ EnvironmentStep \/ UNCHANGED vars
          => UNCHANGED dispatcherVars
    BY DEF PhpMasterStep, PhpWorkerStep, EnvironmentStep, vars
  <2> QED
    BY <2>1, RustStepMaps, UntouchedMaps DEF Next, Returned
<1>2. Spec => []RecoveryInv
  <2>1. RecoveryInv /\ [Next]_vars => ReportInv'
    BY ReportInvKept DEF RecoveryInv, CountingInv, AgreementInv
  <2> QED
    BY <2>1, StartsInvariant, LossInvariant, InitMaps, PTL DEF Spec, RecoveryInv
<1>3. RecoveryInv => TypeOK /\ CountedAtMostOnce
  BY DEF RecoveryInv, CountingInv, AgreementInv
<1>4. UNCHANGED contractVars => UNCHANGED Contract!vars
  BY DEF contractVars, Contract!vars
<1> QED
  BY <1>1, <1>2, <1>3, <1>4, InitMaps, PTL DEF Spec, KeepsContract, Contract!Safety
=============================================================================
