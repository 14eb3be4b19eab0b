--------------------------- MODULE MutationProofs ---------------------------
(***************************************************************************)
(* Mutation, for any set of mutants and any number of workers: statuses    *)
(* are earned, children bounded and written verdicts kept.                 *)
(***************************************************************************)
EXTENDS Mutation, FiniteSetTheorems, TLAPS

(* What the phases mean for the variables of the other phases.             *)
Phases ==
  /\ phase \in {"start", "forking"} =>
       ~fellBack /\ process = {} /\ \A m \in Planned : status[m] = "none"
  /\ phase = "start" => \A m \in Planned : child[m] = "none" /\ verdict[m] = "none"
  /\ phase = "fallback" => fellBack
  /\ jobs # {} => phase = "forking"

(* Only what can be run is, and a child without a file has not ended its   *)
(* tests.                                                                  *)
Children ==
  \A m \in Planned :
    /\ m \in jobs \/ child[m] # "none" => Runnable(m)
    /\ child[m] = "running" => verdict[m] = "none"
    /\ ~fellBack /\ child[m] = "wrote" => verdict[m] # "none"
    /\ ~fellBack /\ child[m] = "gone" /\ verdict[m] = "none" => nature[m] \in {"dies", "exits"}

(* What the files say is so, and no job is forgotten.                      *)
Verdicts ==
  ~fellBack => \A m \in Planned :
    /\ verdict[m] = "escaped" => nature[m] \in {"survives", "skips"}
    /\ verdict[m] = "killed" => nature[m] \in {"caught", "dies", "exits"} \/ m \in refused
    /\ verdict[m] = "timeout" => Runnable(m)
    /\ phase = "forking" /\ Runnable(m) =>
         m \in jobs \cup refused \/ verdict[m] # "none" \/ child[m] \in {"running", "gone"}

(* Children that have not been waited for are no more than the workers.    *)
FewInFlight ==
  /\ IsFiniteSet(InFlight) /\ Cardinality(InFlight) <= Workers
  /\ phase = "done" /\ ~fellBack => InFlight = {}

Inv == TypeOK /\ Phases /\ Children /\ Verdicts /\ FewInFlight /\ StatusesEarned

\* The first state satisfies the inductive invariant.
LEMMA InitInv == Init => Inv
<1> SUFFICES ASSUME Init PROVE Inv
  OBVIOUS
<1>1. TypeOK
  BY DEF Init, TypeOK, Nature, Status
<1>2. Phases /\ Children /\ Verdicts /\ StatusesEarned
  BY DEF Init, Phases, Children, Verdicts, StatusesEarned, Runnable
<1>3. FewInFlight
  <2>1. InFlight = {}
    BY DEF Init, InFlight
  <2> QED
    BY <2>1, FS_EmptySet, WorkersAssumption DEF FewInFlight
<1> QED
  BY <1>1, <1>2, <1>3 DEF Inv

\* Every step keeps the types.
LEMMA TypeStep == Inv /\ [Next]_vars => TypeOK'
<1> SUFFICES ASSUME Inv, [Next]_vars PROVE TypeOK'
  OBVIOUS
<1> USE DEF Inv, TypeOK, Nature, Status, Runnable, Phases, Read
<1>1. CASE Launch
  BY <1>1 DEF Launch
<1>2. CASE ReadBack
  <2>1. \A m \in Planned : Read(m) \in Status \ {"none"}
    OBVIOUS
  <2>2. status' = [m \in Planned |-> Read(m)]
    BY <1>2 DEF ReadBack
  <2>3. status' \in [Planned -> Status] /\ \A m \in Planned : status'[m] # "none"
    BY ONLY <2>1, <2>2
  <2>4. process = {}
    BY <1>2 DEF ReadBack
  <2>5. phase' = "done" /\ UNCHANGED <<nature, jobs, child, verdict, process, refused, fellBack>>
    BY <1>2 DEF ReadBack
  <2> HIDE DEF Read, Status
  <2> QED
    BY <2>3, <2>4, <2>5
<1>3. CASE Collect
  BY <1>3 DEF Collect, AllSettled
<1>4. CASE FallBack
  BY <1>4 DEF FallBack
<1>5. ASSUME NEW l \in Planned, Fork(l) PROVE TypeOK'
  BY <1>5 DEF Fork
<1>6. ASSUME NEW l \in Planned, Reap(l) PROVE TypeOK'
  BY <1>6 DEF Reap, ReapedVerdict
<1>7. ASSUME NEW l \in Planned, Write(l) PROVE TypeOK'
  BY <1>7 DEF Write, File, Judgement
<1>8. ASSUME NEW l \in Planned, Exit(l) PROVE TypeOK'
  BY <1>8 DEF Exit
<1>9. ASSUME NEW l \in Planned, Alarm(l) PROVE TypeOK'
  BY <1>9 DEF Alarm, Armed, File
<1>10. ASSUME NEW l \in Planned, Dismiss(l) PROVE TypeOK'
  BY <1>10 DEF Dismiss, Settle
<1>11. ASSUME NEW l \in Planned, Start(l) PROVE TypeOK'
  BY <1>11 DEF Start
<1>12. ASSUME NEW l \in Planned, End(l) PROVE TypeOK'
  BY <1>12 DEF End, Settle, ExitJudgements
<1>13. CASE UNCHANGED vars
  BY <1>13 DEF vars
<1> QED
  BY <1>1, <1>2, <1>3, <1>4, <1>5, <1>6, <1>7, <1>8, <1>9, <1>10, <1>11, <1>12, <1>13 DEF Next, ParentStep, ChildStep, ProcessStep, Over

\* Every step keeps what the phases mean for the variables of the other phases.
LEMMA PhasesStep == Inv /\ [Next]_vars => Phases'
<1> SUFFICES ASSUME Inv, [Next]_vars PROVE Phases'
  OBVIOUS
<1> USE DEF Inv, TypeOK, Phases
<1>1. CASE Launch
  BY <1>1 DEF Launch
<1>2. CASE ReadBack
  BY <1>2 DEF ReadBack, AllReaped
<1>3. CASE Collect
  BY <1>3 DEF Collect, AllSettled
<1>4. CASE FallBack
  BY <1>4 DEF FallBack
<1>5. ASSUME NEW l \in Planned, Fork(l) PROVE Phases'
  BY <1>5 DEF Fork
<1>6. ASSUME NEW l \in Planned, Reap(l) PROVE Phases'
  BY <1>6 DEF Reap, ReapedVerdict
<1>7. ASSUME NEW l \in Planned, Write(l) PROVE Phases'
  BY <1>7 DEF Write, File, Judgement
<1>8. ASSUME NEW l \in Planned, Exit(l) PROVE Phases'
  BY <1>8 DEF Exit
<1>9. ASSUME NEW l \in Planned, Alarm(l) PROVE Phases'
  BY <1>9 DEF Alarm, Armed, File
<1>10. ASSUME NEW l \in Planned, Dismiss(l) PROVE Phases'
  BY <1>10 DEF Dismiss, Settle
<1>11. ASSUME NEW l \in Planned, Start(l) PROVE Phases'
  BY <1>11 DEF Start
<1>12. ASSUME NEW l \in Planned, End(l) PROVE Phases'
  BY <1>12 DEF End, Settle, ExitJudgements
<1>13. CASE UNCHANGED vars
  BY <1>13 DEF vars
<1> QED
  BY <1>1, <1>2, <1>3, <1>4, <1>5, <1>6, <1>7, <1>8, <1>9, <1>10, <1>11, <1>12, <1>13 DEF Next, ParentStep, ChildStep, ProcessStep, Over

\* Every step keeps the children in step with their files.
LEMMA ChildrenStep == Inv /\ [Next]_vars => Children'
<1> SUFFICES ASSUME Inv, [Next]_vars PROVE Children'
  OBVIOUS
<1> USE DEF Inv, TypeOK, Children, Phases, Runnable
<1>1. CASE Launch
  BY <1>1 DEF Launch
<1>2. CASE ReadBack
  BY <1>2 DEF ReadBack
<1>3. CASE Collect
  BY <1>3 DEF Collect, AllSettled
<1>4. CASE FallBack
  BY <1>4 DEF FallBack
<1>5. ASSUME NEW l \in Planned, Fork(l) PROVE Children'
  BY <1>5 DEF Fork
<1>6. ASSUME NEW l \in Planned, Reap(l) PROVE Children'
  BY <1>6 DEF Reap, ReapedVerdict
<1>7. ASSUME NEW l \in Planned, Write(l) PROVE Children'
  BY <1>7 DEF Write, File, Judgement
<1>8. ASSUME NEW l \in Planned, Exit(l) PROVE Children'
  BY <1>8 DEF Exit
<1>9. ASSUME NEW l \in Planned, Alarm(l) PROVE Children'
  BY <1>9 DEF Alarm, Armed, File
<1>10. ASSUME NEW l \in Planned, Dismiss(l) PROVE Children'
  BY <1>10 DEF Dismiss, Settle
<1>11. ASSUME NEW l \in Planned, Start(l) PROVE Children'
  BY <1>11 DEF Start
<1>12. ASSUME NEW l \in Planned, End(l) PROVE Children'
  BY <1>12 DEF End, Settle, ExitJudgements
<1>13. CASE UNCHANGED vars
  BY <1>13 DEF vars
<1> QED
  BY <1>1, <1>2, <1>3, <1>4, <1>5, <1>6, <1>7, <1>8, <1>9, <1>10, <1>11, <1>12, <1>13 DEF Next, ParentStep, ChildStep, ProcessStep, Over

\* Every step keeps the files true, and every job accounted for.
LEMMA VerdictsStep == Inv /\ [Next]_vars => Verdicts'
<1> SUFFICES ASSUME Inv, [Next]_vars PROVE Verdicts'
  OBVIOUS
<1> USE DEF Inv, TypeOK, Verdicts, Children, Phases, Runnable
<1>1. CASE Launch
  BY <1>1 DEF Launch
<1>2. CASE ReadBack
  BY <1>2 DEF ReadBack
<1>3. CASE Collect
  BY <1>3 DEF Collect, AllSettled
<1>4. CASE FallBack
  BY <1>4 DEF FallBack
<1>5. ASSUME NEW l \in Planned, Fork(l) PROVE Verdicts'
  BY <1>5 DEF Fork
<1>6. ASSUME NEW l \in Planned, Reap(l) PROVE Verdicts'
  BY <1>6 DEF Reap, ReapedVerdict
<1>7. ASSUME NEW l \in Planned, Write(l) PROVE Verdicts'
  BY <1>7 DEF Write, File, Judgement
<1>8. ASSUME NEW l \in Planned, Exit(l) PROVE Verdicts'
  BY <1>8 DEF Exit
<1>9. ASSUME NEW l \in Planned, Alarm(l) PROVE Verdicts'
  BY <1>9 DEF Alarm, Armed, File
<1>10. ASSUME NEW l \in Planned, Dismiss(l) PROVE Verdicts'
  BY <1>10 DEF Dismiss, Settle
<1>11. ASSUME NEW l \in Planned, Start(l) PROVE Verdicts'
  BY <1>11 DEF Start
<1>12. ASSUME NEW l \in Planned, End(l) PROVE Verdicts'
  BY <1>12 DEF End, Settle, ExitJudgements
<1>13. CASE UNCHANGED vars
  BY <1>13 DEF vars
<1> QED
  BY <1>1, <1>2, <1>3, <1>4, <1>5, <1>6, <1>7, <1>8, <1>9, <1>10, <1>11, <1>12, <1>13 DEF Next, ParentStep, ChildStep, ProcessStep, Over

\* No step gives a mutant a status it has not earned.
LEMMA StatusesStep == Inv /\ [Next]_vars => StatusesEarned'
<1> SUFFICES ASSUME Inv, [Next]_vars PROVE StatusesEarned'
  OBVIOUS
<1> USE DEF Inv, TypeOK, StatusesEarned, Verdicts, Children, Phases, Runnable, Nature, Status, AllReaped, InFlight, Read
<1>1. CASE Launch
  BY <1>1 DEF Launch
<1>2. CASE ReadBack
  BY <1>2 DEF ReadBack
<1>3. CASE Collect
  BY <1>3 DEF Collect, AllSettled
<1>4. CASE FallBack
  BY <1>4 DEF FallBack
<1>5. ASSUME NEW l \in Planned, Fork(l) PROVE StatusesEarned'
  BY <1>5 DEF Fork
<1>6. ASSUME NEW l \in Planned, Reap(l) PROVE StatusesEarned'
  BY <1>6 DEF Reap, ReapedVerdict
<1>7. ASSUME NEW l \in Planned, Write(l) PROVE StatusesEarned'
  BY <1>7 DEF Write, File, Judgement
<1>8. ASSUME NEW l \in Planned, Exit(l) PROVE StatusesEarned'
  BY <1>8 DEF Exit
<1>9. ASSUME NEW l \in Planned, Alarm(l) PROVE StatusesEarned'
  BY <1>9 DEF Alarm, Armed, File
<1>10. ASSUME NEW l \in Planned, Dismiss(l) PROVE StatusesEarned'
  BY <1>10 DEF Dismiss, Settle
<1>11. ASSUME NEW l \in Planned, Start(l) PROVE StatusesEarned'
  BY <1>11 DEF Start
<1>12. ASSUME NEW l \in Planned, End(l) PROVE StatusesEarned'
  BY <1>12 DEF End, Settle, ExitJudgements
<1>13. CASE UNCHANGED vars
  BY <1>13 DEF vars
<1> QED
  BY <1>1, <1>2, <1>3, <1>4, <1>5, <1>6, <1>7, <1>8, <1>9, <1>10, <1>11, <1>12, <1>13 DEF Next, ParentStep, ChildStep, ProcessStep, Over

\* No step puts more children in flight than there are workers.
LEMMA FewStep == Inv /\ [Next]_vars => FewInFlight'
<1> SUFFICES ASSUME Inv, [Next]_vars PROVE FewInFlight'
  OBVIOUS
<1> USE DEF Inv, TypeOK, FewInFlight, InFlight
<1>1. CASE Launch
  BY <1>1 DEF Launch
<1>2. CASE ReadBack
  BY <1>2 DEF ReadBack, AllReaped
<1>3. CASE Collect
  BY <1>3 DEF Collect, Phases
<1>4. CASE FallBack
  BY <1>4 DEF FallBack
<1>5. ASSUME NEW l \in Planned, Fork(l) PROVE FewInFlight'
  <2>1. CASE child' = [child EXCEPT ![l] = "running"]
    <3>1. InFlight' = InFlight \cup {l}
      BY <2>1
    <3>2. phase' = "forking" /\ Cardinality(InFlight) < Workers
      BY <1>5 DEF Fork, Room
    <3>0. IsFiniteSet(InFlight)
      OBVIOUS
    <3> HIDE DEF InFlight
    <3>3. IsFiniteSet(InFlight')
      BY <3>0, <3>1, FS_AddElement
    <3>4. \/ Cardinality(InFlight') = Cardinality(InFlight)
          \/ Cardinality(InFlight') = Cardinality(InFlight) + 1
      BY <3>0, <3>1, FS_AddElement
    <3>5. Cardinality(InFlight) \in Nat
      BY <3>0, FS_CardinalityType
    <3> QED
      BY <3>2, <3>3, <3>4, <3>5, WorkersAssumption
  <2>2. CASE UNCHANGED child
    BY <1>5, <2>2 DEF Fork
  <2> QED
    BY <1>5, <2>1, <2>2 DEF Fork
<1>6. ASSUME NEW l \in Planned, Reap(l) PROVE FewInFlight'
  <2>1. InFlight' = InFlight \ {l}
    BY <1>6 DEF Reap
  <2>2. phase' = "forking"
    BY <1>6 DEF Reap
  <2>3. IsFiniteSet(InFlight') /\ Cardinality(InFlight') <= Cardinality(InFlight)
    BY <2>1, FS_Subset
  <2>4. Cardinality(InFlight) \in Nat /\ Cardinality(InFlight') \in Nat
    BY <2>3, FS_CardinalityType
  <2> HIDE DEF InFlight
  <2> QED
    BY <2>2, <2>3, <2>4, WorkersAssumption
<1>7. ASSUME NEW l \in Planned, Write(l) PROVE FewInFlight'
  BY <1>7 DEF Write, File, Judgement
<1>8. ASSUME NEW l \in Planned, Exit(l) PROVE FewInFlight'
  BY <1>8 DEF Exit
<1>9. ASSUME NEW l \in Planned, Alarm(l) PROVE FewInFlight'
  BY <1>9 DEF Alarm, Armed, File
<1>10. ASSUME NEW l \in Planned, Dismiss(l) PROVE FewInFlight'
  BY <1>10 DEF Dismiss, Settle
<1>11. ASSUME NEW l \in Planned, Start(l) PROVE FewInFlight'
  BY <1>11 DEF Start
<1>12. ASSUME NEW l \in Planned, End(l) PROVE FewInFlight'
  BY <1>12 DEF End, Settle, ExitJudgements
<1>13. CASE UNCHANGED vars
  BY <1>13 DEF vars
<1> QED
  BY <1>1, <1>2, <1>3, <1>4, <1>5, <1>6, <1>7, <1>8, <1>9, <1>10, <1>11, <1>12, <1>13 DEF Next, ParentStep, ChildStep, ProcessStep, Over

\* The whole invariant is kept by every step.
LEMMA InvStep == Inv /\ [Next]_vars => Inv'
BY TypeStep, PhasesStep, ChildrenStep, VerdictsStep, StatusesStep, FewStep DEF Inv

\* So it holds in every reachable state.
LEMMA Invariance == Spec => []Inv
BY InitInv, InvStep, PTL DEF Spec
----------------------------------------------------------------------------
(* Every variable keeps its type, and no run is over with a mutant that    *)
(* has no status.                                                          *)
THEOREM MutationTypeCorrect == Spec => []TypeOK
BY Invariance, PTL DEF Inv

(* Whatever the order in which children end, alarms go off and the master  *)
(* reaps or fails, a status says what became of the mutant.                *)
THEOREM StatusesAreEarned == Spec => []StatusesEarned
BY Invariance, PTL DEF Inv

(* Never more children than workers, and none left behind by a master that *)
(* did not fail.                                                           *)
THEOREM ChildrenAreBounded == Spec => []ChildrenBounded
<1>1. ASSUME Inv PROVE ChildrenBounded
  <2>1. Alive \subseteq InFlight
    BY DEF Alive, InFlight
  <2>2. Cardinality(Alive) <= Cardinality(InFlight) /\ Cardinality(Alive) \in Nat
    BY <1>1, <2>1, FS_Subset, FS_CardinalityType DEF Inv, FewInFlight
  <2>3. Cardinality(InFlight) \in Nat /\ Cardinality(InFlight) <= Workers
    BY <1>1, FS_CardinalityType DEF Inv, FewInFlight
  <2>4. InFlight = {} => Cardinality(InFlight) = 0
    BY FS_EmptySet
  <2>5. phase = "done" /\ ~fellBack => InFlight = {}
    BY <1>1 DEF Inv, FewInFlight
  <2> QED
    BY <2>2, <2>3, <2>4, <2>5, WorkersAssumption DEF ChildrenBounded
<1> QED
  BY <1>1, Invariance, PTL

(* A verdict in its file is only written over by the alarm of its child.   *)
THEOREM VerdictsAreKept == Spec => VerdictsKept
<1>1. ASSUME Inv, [Next]_vars, NEW m \in Planned, ~fellBack', verdict[m] # "none",
             verdict'[m] # verdict[m]
      PROVE  verdict'[m] = "timeout" /\ child[m] = "wrote"
  <2> USE DEF Inv, TypeOK, Children
  <2>1. CASE \E l \in Planned : Fork(l) \/ Reap(l)
    BY <1>1, <2>1 DEF Fork, Reap, ReapedVerdict
  <2>2. CASE \E l \in Planned : Write(l) \/ Alarm(l)
    BY <1>1, <2>2 DEF Write, Alarm, Armed, File
  <2>3. CASE FallBack
    BY <1>1, <2>3 DEF FallBack
  <2>4. CASE UNCHANGED verdict
    BY <1>1, <2>4
  <2> QED
    BY <1>1, <2>1, <2>2, <2>3, <2>4
       DEF Next, ParentStep, ChildStep, ProcessStep, Launch, ReadBack, Collect, Exit,
           Dismiss, Start, End, Over, vars
<1>2. Inv /\ [Next]_vars =>
        [\A m \in Planned : ~fellBack' /\ verdict[m] # "none" /\ verdict'[m] # verdict[m] =>
           verdict'[m] = "timeout" /\ child[m] = "wrote"]_vars
  BY <1>1
<1> QED
  BY <1>2, Invariance, PTL DEF Spec, VerdictsKept
=============================================================================
