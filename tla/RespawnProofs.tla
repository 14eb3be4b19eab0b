--------------------------- MODULE RespawnProofs ---------------------------
(***************************************************************************)
(* The respawn loop of main, for any set of tests: a test is started at    *)
(* most eight times in a run, and the loop as a whole keeps the promise of *)
(* one call that hands nothing back.                                       *)
(***************************************************************************)
EXTENDS Respawn, TLAPS

(* Judged, spoken for, or cut off by a stop policy.                        *)
Settled(t) == verdict[t] # "none" \/ t \in excused \/ stopped

(* A wanted test is settled unless the current call has it, or the last    *)
(* one handed it back.                                                     *)
Accounted ==
  /\ pending \subseteq wanted
  /\ state = "calling" => \A t \in wanted : Settled(t) \/ t \in pending
  /\ state \in {"returned", "reported"} => \A t \in wanted : Settled(t) \/ t \in unfinished
  /\ state # "returned" => unfinished = {}
  /\ state = "idle" => pending = {}

(* Every master costs at most MAX_ATTEMPTS starts of a test.               *)
Counted ==
  /\ state \in {"idle", "calling"} \/ unfinished # {} => respawns <= MAX_MASTER_RESPAWNS
  /\ \A t \in Test : runs[t] <= MAX_ATTEMPTS * respawns + roundRuns[t]

Inv == TypeOK /\ Accounted /\ HandedBackOwed /\ Counted /\ ExecutionsBounded

\* The first state satisfies the inductive invariant.
LEMMA InitInv == Init => Inv
<1> SUFFICES ASSUME Init PROVE Inv
  OBVIOUS
<1>1. TypeOK
  <2>1. /\ state \in State /\ verdict \in [Test -> Verdict]
        /\ wanted \subseteq Test /\ pending \subseteq Test /\ unfinished \subseteq Test
        /\ excused \subseteq Test
    BY DEF Init, State, Verdict
  <2>2. stopped \in BOOLEAN
    BY Zenon DEF Init
  <2>3. roundRuns \in [Test -> 0 .. MAX_ATTEMPTS] /\ runs \in [Test -> Nat]
    BY DEF Init, MAX_ATTEMPTS
  <2>4. respawns \in 0 .. MAX_MASTER_RESPAWNS + 1
    BY DEF Init, MAX_MASTER_RESPAWNS
  <2> QED
    BY <2>1, <2>2, <2>3, <2>4 DEF TypeOK
<1>2. Accounted /\ HandedBackOwed
  BY DEF Init, Accounted, HandedBackOwed, Owed
<1>3. Counted /\ ExecutionsBounded
  BY DEF Init, Counted, ExecutionsBounded, MAX_ATTEMPTS, MAX_MASTER_RESPAWNS
<1> QED
  BY <1>1, <1>2, <1>3 DEF Inv

\* Every step keeps the types.
LEMMA TypeStep == Inv /\ [Next]_vars => TypeOK'
<1> SUFFICES ASSUME Inv, [Next]_vars PROVE TypeOK'
  OBVIOUS
<1> USE DEF TypeOK, State, Verdict, MAX_ATTEMPTS, MAX_MASTER_RESPAWNS
<1>1. CASE Begin
  BY <1>1 DEF Begin, Inv
<1>2. CASE Refuse
  BY <1>2 DEF Refuse, Inv
<1>3. CASE Progress
  <2>1. /\ roundRuns' \in [Test -> 0 .. 2] /\ runs' \in [Test -> Nat]
        /\ verdict' \in [Test -> Verdict] /\ excused' \subseteq excused \cup pending
    BY <1>3 DEF Progress
  <2>2. UNCHANGED <<state, wanted, pending, unfinished, stopped, respawns>>
    BY <1>3 DEF Progress
  <2> QED
    BY <2>1, <2>2 DEF Inv
<1>4. CASE Return
  BY <1>4 DEF Return, Inv, Owed
<1>5. CASE Fail
  BY <1>5 DEF Fail, Inv
<1>6. CASE Respawn
  BY <1>6 DEF Respawn, Inv
<1>7. CASE GiveUp
  BY <1>7 DEF GiveUp, Inv, Counted
<1>8. CASE Break
  BY <1>8 DEF Break, Inv
<1>9. CASE UNCHANGED vars
  BY <1>9 DEF vars, Inv
<1> QED
  BY <1>1, <1>2, <1>3, <1>4, <1>5, <1>6, <1>7, <1>8, <1>9 DEF Next

\* Every step keeps each pending test accounted for, and what was handed back owed.
LEMMA AccountedStep == Inv /\ [Next]_vars => Accounted' /\ HandedBackOwed'
<1> SUFFICES ASSUME Inv, [Next]_vars PROVE Accounted' /\ HandedBackOwed'
  OBVIOUS
<1> USE DEF Inv, Accounted, Settled, HandedBackOwed, Owed
<1>1. CASE Begin
  BY <1>1 DEF Begin
<1>2. CASE Refuse
  BY <1>2 DEF Refuse
<1>3. CASE Progress
  BY <1>3 DEF Progress, TypeOK
<1>4. CASE Return
  BY <1>4 DEF Return
<1>5. CASE Fail
  BY <1>5 DEF Fail
<1>6. CASE Respawn
  BY <1>6 DEF Respawn
<1>7. CASE GiveUp
  BY <1>7 DEF GiveUp, TypeOK
<1>8. CASE Break
  BY <1>8 DEF Break
<1>9. CASE UNCHANGED vars
  BY <1>9 DEF vars
<1> QED
  BY <1>1, <1>2, <1>3, <1>4, <1>5, <1>6, <1>7, <1>8, <1>9 DEF Next

\* Every step keeps the counts of runs, and their bound.
LEMMA CountedStep == Inv /\ [Next]_vars => Counted' /\ ExecutionsBounded'
<1> SUFFICES ASSUME Inv, [Next]_vars PROVE Counted' /\ ExecutionsBounded'
  OBVIOUS
<1>0. TypeOK'
  BY TypeStep
<1> USE <1>0 DEF Inv, TypeOK, Counted, ExecutionsBounded, MAX_ATTEMPTS, MAX_MASTER_RESPAWNS
<1>1. CASE Begin
  BY <1>1 DEF Begin, Accounted
<1>2. CASE Refuse
  BY <1>2 DEF Refuse, Accounted
<1>3. CASE Progress
  <2>1. state = "calling" /\ respawns <= 3 /\ respawns' = respawns
    BY <1>3 DEF Progress
  <2>2. ASSUME NEW t \in Test
        PROVE  /\ runs'[t] <= 2 * respawns' + roundRuns'[t]
               /\ runs'[t] <= 2 * (3 + 1)
    <3>1. /\ runs[t] \in Nat /\ roundRuns[t] \in 0 .. 2 /\ respawns \in 0 .. 4
          /\ runs'[t] \in Nat /\ roundRuns'[t] \in 0 .. 2
      OBVIOUS
    <3>2. \/ roundRuns'[t] = roundRuns[t] /\ runs'[t] = runs[t]
          \/ roundRuns'[t] = roundRuns[t] + 1 /\ runs'[t] = runs[t] + 1
      BY <1>3 DEF Progress
    <3>3. runs[t] <= 2 * respawns + roundRuns[t]
      OBVIOUS
    <3> QED
      BY <2>1, <3>1, <3>2, <3>3
  <2> QED
    BY <1>3, <2>1, <2>2 DEF Progress
<1>4. CASE Return
  BY <1>4 DEF Return
<1>5. CASE Fail
  BY <1>5 DEF Fail, Accounted
<1>6. CASE Respawn
  <2>1. ASSUME NEW t \in Test PROVE runs'[t] <= 2 * respawns' + roundRuns'[t]
    <3>1. runs[t] \in Nat /\ roundRuns[t] \in 0 .. 2 /\ respawns \in 0 .. 4
      OBVIOUS
    <3>2. runs'[t] = runs[t] /\ roundRuns'[t] = 0 /\ respawns' = respawns + 1
      BY <1>6 DEF Respawn
    <3> QED
      BY <3>1, <3>2
  <2> QED
    BY <1>6, <2>1 DEF Respawn
<1>7. CASE GiveUp
  <2>1. ASSUME NEW t \in Test PROVE runs'[t] <= 2 * respawns' + roundRuns'[t]
    <3>1. runs[t] \in Nat /\ roundRuns[t] \in 0 .. 2 /\ respawns \in 0 .. 4
      OBVIOUS
    <3>2. runs'[t] = runs[t] /\ roundRuns'[t] = roundRuns[t] /\ respawns' = respawns + 1
      BY <1>7 DEF GiveUp
    <3> QED
      BY <3>1, <3>2
  <2> QED
    BY <1>7, <2>1 DEF GiveUp
<1>8. CASE Break
  BY <1>8 DEF Break
<1>9. CASE UNCHANGED vars
  BY <1>9 DEF vars
<1> QED
  BY <1>1, <1>2, <1>3, <1>4, <1>5, <1>6, <1>7, <1>8, <1>9 DEF Next

\* The whole invariant is kept by every step.
LEMMA InvStep == Inv /\ [Next]_vars => Inv'
BY TypeStep, AccountedStep, CountedStep DEF Inv

\* So it holds in every reachable state.
LEMMA Invariance == Safety => []Inv
BY InitInv, InvStep, PTL DEF Safety

----------------------------------------------------------------------------
(* A test is started at most MAX_ATTEMPTS times for each of the masters,   *)
(* the first and MAX_MASTER_RESPAWNS fresh ones, whatever crashes.         *)
THEOREM StartsAreBounded == Safety => []ExecutionsBounded
BY Invariance, PTL DEF Inv

(* Only tests without a verdict are handed back and run again.             *)
THEOREM OnlyOwedHandedBack == Safety => []HandedBackOwed
BY Invariance, PTL DEF Inv

----------------------------------------------------------------------------
(* Every step of the loop is a step of a call that hands nothing back, or  *)
(* none.                                                                   *)
LEMMA WholeInit == Init => Whole!Init
BY DEF Init, Whole!Init

\* Every step of the loop is a step of the abstract run, or a stutter.
LEMMA WholeStep == Inv /\ [Next]_vars => [Whole!Next]_Whole!vars
<1> SUFFICES ASSUME Inv, Next PROVE Whole!Next \/ UNCHANGED Whole!vars
  BY DEF vars, Whole!vars
<1> DEFINE spokenFor == excused \cup (IF state = "idle" THEN {} ELSE Test \ wanted)
<1>0. /\ verdict \in [Test -> Verdict] /\ excused \subseteq Test /\ wanted \subseteq Test
      /\ unfinished \subseteq Test
  BY DEF Inv, TypeOK
<1>1. ASSUME NEW S \in SUBSET Test, NEW v \in {"ran", "error"}, NEW E \in SUBSET Test,
             \A t \in S : verdict[t] = "none",
             verdict' = [t \in Test |-> IF t \in S THEN v ELSE verdict[t]],
             spokenFor' = spokenFor \cup E, stopped' \in {stopped, TRUE},
             state # "reported", state' # "reported"
      PROVE  Whole!Deliver
  BY <1>1 DEF Whole!Deliver, Whole!Judge
<1>2. ASSUME NEW E \in SUBSET Test, verdict' = verdict,
             spokenFor' = spokenFor \cup E, stopped' \in {stopped, TRUE},
             state # "reported", state' # "reported"
      PROVE  Whole!Deliver
  <2> HIDE DEF spokenFor
  <2> DEFINE S == {t \in Test : FALSE}
  <2>1. /\ verdict' = [t \in Test |-> IF t \in S THEN "ran" ELSE verdict[t]]
        /\ \A t \in S : verdict[t] = "none"
    BY <1>0, <1>2
  <2>2. S \in SUBSET Test
    OBVIOUS
  <2> HIDE DEF S
  <2> QED
    BY <1>1, <1>2, <2>1, <2>2
<1>3. CASE Begin
  <2>1. spokenFor' = spokenFor \cup (Test \ wanted') /\ Test \ wanted' \in SUBSET Test
    BY <1>3 DEF Begin
  <2>2. stopped' \in {stopped, TRUE}
    BY <1>3 DEF Begin
  <2>3. verdict' = verdict /\ state # "reported" /\ state' # "reported"
    BY <1>3 DEF Begin
  <2> HIDE DEF spokenFor
  <2> QED
    BY <1>0, <1>2, <2>1, <2>2, <2>3 DEF Whole!Next
<1>4. CASE Refuse
  <2>1. spokenFor' = spokenFor \cup (Test \ wanted) /\ Test \ wanted \in SUBSET Test
    BY <1>4 DEF Refuse
  <2>2. stopped' \in {stopped, TRUE}
    BY <1>4 DEF Refuse
  <2>3. verdict' = verdict /\ state # "reported" /\ state' # "reported"
    BY <1>4 DEF Refuse
  <2> HIDE DEF spokenFor
  <2> QED
    BY <1>0, <1>2, <2>1, <2>2, <2>3 DEF Whole!Next
<1>5. CASE Return
  <2>1. spokenFor' = spokenFor \cup {} /\ {} \in SUBSET Test
    BY <1>5 DEF Return
  <2>2. stopped' \in {stopped, TRUE}
    BY <1>5 DEF Return
  <2>3. verdict' = verdict /\ state # "reported" /\ state' # "reported"
    BY <1>5 DEF Return
  <2> HIDE DEF spokenFor
  <2> QED
    BY <1>0, <1>2, <2>1, <2>2, <2>3 DEF Whole!Next
<1>6. CASE Fail \/ Respawn
  BY <1>6 DEF Fail, Respawn, Whole!vars
<1>7. CASE GiveUp
  <2>1. spokenFor' = spokenFor \cup {}
    BY <1>7 DEF GiveUp
  <2>2. \A t \in unfinished : verdict[t] = "none"
    BY DEF Inv, HandedBackOwed, Owed
  <2> QED
    BY <1>0, <1>1, <1>7, <2>1, <2>2 DEF GiveUp, Whole!Next
<1>8. CASE Break
  <2>1. \A t \in Test : verdict[t] # "none" \/ t \in spokenFor \/ stopped
    BY <1>8 DEF Break, Inv, Accounted, Settled
  <2>2. UNCHANGED <<verdict, spokenFor, stopped>>
    BY <1>8 DEF Break
  <2> QED
    BY <1>8, <2>1, <2>2 DEF Break, Whole!Next, Whole!Return
<1>9. CASE Progress
  <2> PICK v \in {"ran", "error"} : \A t \in Test :
         \/ verdict'[t] = verdict[t]
         \/ t \in pending /\ verdict[t] = "none" /\ verdict'[t] = v
    BY <1>9 DEF Progress
  <2> DEFINE judged == {t \in Test : verdict'[t] # verdict[t]}
  <2>1. spokenFor' = spokenFor \cup excused' /\ excused' \subseteq Test
    BY <1>9 DEF Progress, Inv, TypeOK
  <2>2. stopped' \in {stopped, TRUE}
    BY <1>9 DEF Progress
  <2>3. \A t \in judged : verdict[t] = "none"
    OBVIOUS
  <2>4. verdict' = [t \in Test |-> IF t \in judged THEN v ELSE verdict[t]]
    BY <1>0, <1>9 DEF Progress
  <2>5. state # "reported" /\ state' # "reported"
    BY <1>9 DEF Progress
  <2> HIDE DEF judged, spokenFor
  <2>6. judged \in SUBSET Test
    BY DEF judged
  <2> QED
    BY <1>1, <2>1, <2>2, <2>3, <2>4, <2>5, <2>6 DEF Whole!Next
<1> QED
  BY <1>3, <1>4, <1>5, <1>6, <1>7, <1>8, <1>9 DEF Next

(* However many masters die, the run as a whole is one call that judges    *)
(* every test at most once and hands none back.                            *)
THEOREM LoopHandsNothingBack == Safety => NothingHandedBack
BY Invariance, WholeInit, WholeStep, PTL DEF Safety, NothingHandedBack, Whole!Safety
=============================================================================
