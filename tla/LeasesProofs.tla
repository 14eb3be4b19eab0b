---------------------------- MODULE LeasesProofs ----------------------------
(***************************************************************************)
(* Leases, for any number of runs, process ids and workers: what a run     *)
(* that had the server to itself can rely on, and what it leaves behind.   *)
(***************************************************************************)
EXTENDS Leases, TLAPS

(* Two runs alive at once know of each other.                              *)
OverlapSeen == \A r, s \in Live : r # s => overlapped[r]

(* Only a run in progress, or one killed in progress, has workers.         *)
WorkersInPhase == \A r \in Run : workers[r] => phase[r] \in {"running", "killed"}

(* The cloning loop and destroy_all visit the run's own names.             *)
VisitsOwn == \A r \in Run : phase[r] \in {"cloning", "dropping"} => todo[r] \subseteq Own(r)

(* What the cloning loop has visited is the run's own.                     *)
Cloned ==
  \A r \in Run : ~overlapped[r] =>
    \A n \in Own(r) :
      phase[r] = "running" \/ (phase[r] = "cloning" /\ n \notin todo[r]) => owner[n] = r

(* What destroy_all has visited is gone, warned about, or a file that      *)
(* cannot be deleted.                                                      *)
Destroyed ==
  \A r \in Run : \A n \in Own(r) \ warned[r] :
    phase[r] = "over" \/ (phase[r] = "dropping" /\ n \notin todo[r]) =>
      Undeleted(n) \/ owner[n] # r

(* While a run alone on the server sweeps, nobody can come to use what     *)
(* nobody could use when it began.                                         *)
OwedUnused ==
  \A r \in Run : phase[r] = "sweeping" /\ ~overlapped[r] =>
    \A n \in owed[r] :
      ~Connected(n) /\ \A s \in Run : workers[s] => n \notin Own(s)

(* What the sweep looks for, and has visited, of it is reclaimed, or a     *)
(* file that cannot be deleted.                                            *)
Swept ==
  \A r \in Run : ~overlapped[r] /\ ~abandoned[r] =>
    \A n \in owed[r] \cap listed :
      /\ phase[r] = "sweeping" =>
           n \in todo[r] \cup probed[r] \/ Undeleted(n) \/ owner[n] \in {Nobody, r}
      /\ phase[r] \in {"cloning", "running"} => Undeleted(n) \/ owner[n] \in {Nobody, r}

Inv ==
  /\ TypeOK /\ VisitsOwn /\ OverlapSeen /\ WorkersInPhase
  /\ Cloned /\ Destroyed /\ OwedUnused /\ Swept

\* The first state satisfies the inductive invariant.
LEMMA InitInv == Init => Inv
<1> SUFFICES ASSUME Init PROVE Inv
  OBVIOUS
<1>1. TypeOK
  <2>1. /\ workers \in [Run -> BOOLEAN] /\ overlapped \in [Run -> BOOLEAN]
        /\ abandoned \in [Run -> BOOLEAN] /\ headless \in [Run -> BOOLEAN]
    BY Zenon DEF Init
  <2>2. /\ listed \in SUBSET Name /\ stuck \in SUBSET Name
    BY ListingsAssumption, Zenon DEF Init
  <2> QED
    BY <2>1, <2>2 DEF Init, TypeOK, Phase
<1>2. VisitsOwn /\ OverlapSeen /\ WorkersInPhase
  BY DEF Init, VisitsOwn, OverlapSeen, WorkersInPhase, Live
<1>3. Cloned /\ Destroyed
  BY DEF Init, Cloned, Destroyed
<1>4. OwedUnused /\ Swept
  BY DEF Init, OwedUnused, Swept
<1> QED
  BY <1>1, <1>2, <1>3, <1>4 DEF Inv

\* Every step keeps the types.
LEMMA TypeStep == Inv /\ [Next]_vars => TypeOK'
<1> SUFFICES ASSUME Inv, [Next]_vars PROVE TypeOK'
  OBVIOUS
<1> USE DEF Inv, TypeOK, Live, Phase, ghosts, server, Name, Own, Exists
<1>1. ASSUME NEW r \in Run, Begin(r) PROVE TypeOK'
  BY <1>1 DEF Begin, Move
<1>2. ASSUME NEW r \in Run, Probe(r) PROVE TypeOK'
  BY <1>2 DEF Probe, Spared
<1>3. ASSUME NEW r \in Run, DropStale(r) PROVE TypeOK'
  <2> PICK n \in probed[r] : SweepDrop(r, n)
    BY <1>3 DEF DropStale
  <2>0. n \in Name /\ UNCHANGED <<dbms, listed, pid, headless, workers, warned, overlapped, owed>>
    BY <1>3 DEF DropStale
  <2>1. ASSUME owner' \in {owner, [owner EXCEPT ![n] = Nobody]},
               probed' = [probed EXCEPT ![r] = {}],
               stuck' \in {stuck \ {n}, stuck \cup ({n} \cap Exists)},
               UNCHANGED <<phase, todo, conns, abandoned>>
        PROVE  TypeOK'
    BY <2>0, <2>1
  <2>2. ASSUME StartCloning(r), abandoned' = [abandoned EXCEPT ![r] = TRUE],
               UNCHANGED <<owner, conns, stuck>>
        PROVE  TypeOK'
    <3>1. abandoned' \in [Run -> BOOLEAN]
      BY <2>2
    <3> QED
      BY <2>0, <2>2, <3>1 DEF StartCloning, Move
  <2> HIDE DEF Inv, TypeOK
  <2> QED
    BY <2>1, <2>2 DEF SweepDrop
<1>4. ASSUME NEW r \in Run, SweepFails(r) PROVE TypeOK'
  BY <1>4 DEF SweepFails, StartCloning, Move
<1>5. ASSUME NEW r \in Run, SweepEnds(r) PROVE TypeOK'
  BY <1>5 DEF SweepEnds, StartCloning, Move
<1>6. ASSUME NEW r \in Run, CloneOne(r) PROVE TypeOK'
  <2> PICK n \in todo[r] :
         /\ owner' = Created(r, n) /\ stuck' = stuck \ {n}
         /\ todo' = [todo EXCEPT ![r] = @ \ {n}]
    BY <1>6 DEF CloneOne
  <2>1. UNCHANGED <<dbms, listed, pid, phase, probed, headless, workers, conns, warned, abandoned,
                    overlapped, owed>>
    BY <1>6 DEF CloneOne
  <2>2. owner' \in [Name -> Run \cup {Nobody}]
    BY DEF Created
  <2> QED
    BY <2>1, <2>2
<1>7. ASSUME NEW r \in Run, CloneFails(r) PROVE TypeOK'
  <2>1. owner' \in [Name -> Run \cup {Nobody}] /\ stuck' \in SUBSET Name
    <3>1. CASE UNCHANGED <<owner, stuck>>
      BY <3>1
    <3>2. ASSUME NEW n \in todo[r], owner' \in {Created(r, n), [owner EXCEPT ![n] = Nobody]},
                 stuck' = stuck \ {n}
          PROVE  owner' \in [Name -> Run \cup {Nobody}] /\ stuck' \in SUBSET Name
      BY <3>2 DEF Created
    <3> QED
      BY <1>7, <3>1, <3>2 DEF CloneFails
  <2>2. /\ phase' = [phase EXCEPT ![r] = "failed"] /\ todo' = [todo EXCEPT ![r] = {}]
        /\ UNCHANGED <<dbms, listed, pid, probed, headless, workers, conns, warned, abandoned,
                       overlapped, owed>>
    BY <1>7 DEF CloneFails, Move
  <2> QED
    BY <2>1, <2>2
<1>8. ASSUME NEW r \in Run, Provisioned(r) PROVE TypeOK'
  BY <1>8 DEF Provisioned, Move
<1>9. ASSUME NEW r \in Run, Connect(r) PROVE TypeOK'
  BY <1>9 DEF Connect
<1>10. ASSUME NEW r \in Run, Disconnect(r) PROVE TypeOK'
  BY <1>10 DEF Disconnect
<1>11. ASSUME NEW r \in Run, Finish(r) PROVE TypeOK'
  BY <1>11 DEF Finish, Move
<1>12. ASSUME NEW r \in Run, DestroyOne(r) PROVE TypeOK'
  <2> PICK n \in todo[r] :
         /\ todo' = [todo EXCEPT ![r] = @ \ {n}]
         /\ \/ DropClone(n) /\ UNCHANGED warned
            \/ warned' = [warned EXCEPT ![r] = @ \cup {n}] /\ UNCHANGED <<owner, conns, stuck>>
    BY <1>12 DEF DestroyOne
  <2>1. UNCHANGED <<dbms, listed, pid, phase, probed, headless, workers, abandoned, overlapped, owed>>
    BY <1>12 DEF DestroyOne
  <2>2. CASE DropClone(n) /\ UNCHANGED warned
    <3>1. owner' \in [Name -> Run \cup {Nobody}] /\ stuck' \in SUBSET Name
      BY <2>2 DEF DropClone
    <3>2. conns' \in [Run -> SUBSET Name] /\ \A s \in Run : conns'[s] \subseteq Own(s)
      BY <2>2 DEF DropClone
    <3> QED
      BY <2>1, <2>2, <3>1, <3>2
  <2>3. CASE warned' = [warned EXCEPT ![r] = @ \cup {n}] /\ UNCHANGED <<owner, conns, stuck>>
    <3>1. n \in Own(r)
      BY <1>12 DEF DestroyOne, VisitsOwn
    <3>2. warned' \in [Run -> SUBSET Name] /\ \A s \in Run : warned'[s] \subseteq Own(s)
      BY <2>3, <3>1
    <3> QED
      BY <2>1, <2>3, <3>2
  <2> QED
    BY <2>2, <2>3
<1>13. ASSUME NEW r \in Run, Exit(r) PROVE TypeOK'
  BY <1>13 DEF Exit, Move
<1>14. ASSUME NEW r \in Run, Kill(r) PROVE TypeOK'
  BY <1>14 DEF Kill
<1>15. ASSUME NEW r \in Run, OrphansEnd(r) PROVE TypeOK'
  BY <1>15 DEF OrphansEnd
<1>16. ASSUME NEW r \in Run, LoseHelper(r) PROVE TypeOK'
  BY <1>16 DEF LoseHelper
<1>17. ASSUME NEW r \in Run, HelperEnds(r) PROVE TypeOK'
  BY <1>17 DEF HelperEnds, Move
<1>18. CASE UNCHANGED vars
  BY <1>18 DEF vars
<1> QED
  BY <1>1, <1>2, <1>3, <1>4, <1>5, <1>6, <1>7, <1>8, <1>9, <1>10, <1>11, <1>12, <1>13, <1>14, <1>15, <1>16,
      <1>17, <1>18 DEF Next, Step, Other, Over

\* Every loop stays on the run's own names.
LEMMA VisitsStep == Inv /\ [Next]_vars => VisitsOwn'
<1> SUFFICES ASSUME Inv, [Next]_vars PROVE VisitsOwn'
  OBVIOUS
<1> USE DEF Inv, TypeOK, Live, Phase, ghosts, server, VisitsOwn, Own
<1>1. ASSUME NEW r \in Run, Begin(r) PROVE VisitsOwn'
  BY <1>1 DEF Begin, Move
<1>2. ASSUME NEW r \in Run, Probe(r) PROVE VisitsOwn'
  BY <1>2 DEF Probe, Spared
<1>3. ASSUME NEW r \in Run, DropStale(r) PROVE VisitsOwn'
  BY <1>3 DEF DropStale, SweepDrop, StartCloning, Move, Refused
<1>4. ASSUME NEW r \in Run, SweepFails(r) PROVE VisitsOwn'
  BY <1>4 DEF SweepFails, StartCloning, Move
<1>5. ASSUME NEW r \in Run, SweepEnds(r) PROVE VisitsOwn'
  BY <1>5 DEF SweepEnds, StartCloning, Move
<1>6. ASSUME NEW r \in Run, CloneOne(r) PROVE VisitsOwn'
  BY <1>6 DEF CloneOne, Created
<1>7. ASSUME NEW r \in Run, CloneFails(r) PROVE VisitsOwn'
  BY <1>7 DEF CloneFails, Move
<1>8. ASSUME NEW r \in Run, Provisioned(r) PROVE VisitsOwn'
  BY <1>8 DEF Provisioned, Move
<1>9. ASSUME NEW r \in Run, Connect(r) PROVE VisitsOwn'
  BY <1>9 DEF Connect
<1>10. ASSUME NEW r \in Run, Disconnect(r) PROVE VisitsOwn'
  BY <1>10 DEF Disconnect
<1>11. ASSUME NEW r \in Run, Finish(r) PROVE VisitsOwn'
  BY <1>11 DEF Finish, Move
<1>12. ASSUME NEW r \in Run, DestroyOne(r) PROVE VisitsOwn'
  BY <1>12 DEF DestroyOne, DropClone
<1>13. ASSUME NEW r \in Run, Exit(r) PROVE VisitsOwn'
  BY <1>13 DEF Exit, Move
<1>14. ASSUME NEW r \in Run, Kill(r) PROVE VisitsOwn'
  BY <1>14 DEF Kill
<1>15. ASSUME NEW r \in Run, OrphansEnd(r) PROVE VisitsOwn'
  BY <1>15 DEF OrphansEnd
<1>16. ASSUME NEW r \in Run, LoseHelper(r) PROVE VisitsOwn'
  BY <1>16 DEF LoseHelper
<1>17. ASSUME NEW r \in Run, HelperEnds(r) PROVE VisitsOwn'
  BY <1>17 DEF HelperEnds, Move
<1>18. CASE UNCHANGED vars
  BY <1>18 DEF vars
<1> QED
  BY <1>1, <1>2, <1>3, <1>4, <1>5, <1>6, <1>7, <1>8, <1>9, <1>10, <1>11, <1>12, <1>13, <1>14, <1>15, <1>16,
      <1>17, <1>18 DEF Next, Step, Other, Over

\* Every step leaves two runs that are alive at once knowing of each other.
LEMMA OverlapStep == Inv /\ [Next]_vars => OverlapSeen'
<1> SUFFICES ASSUME Inv, [Next]_vars PROVE OverlapSeen'
  OBVIOUS
<1> USE DEF Inv, TypeOK, Live, Phase, ghosts, server, OverlapSeen
<1>1. ASSUME NEW r \in Run, Begin(r) PROVE OverlapSeen'
  BY <1>1 DEF Begin, Move
<1>2. ASSUME NEW r \in Run, Probe(r) PROVE OverlapSeen'
  BY <1>2 DEF Probe, Spared
<1>3. ASSUME NEW r \in Run, DropStale(r) PROVE OverlapSeen'
  BY <1>3 DEF DropStale, SweepDrop, StartCloning, Move, Refused
<1>4. ASSUME NEW r \in Run, SweepFails(r) PROVE OverlapSeen'
  BY <1>4 DEF SweepFails, StartCloning, Move
<1>5. ASSUME NEW r \in Run, SweepEnds(r) PROVE OverlapSeen'
  BY <1>5 DEF SweepEnds, StartCloning, Move
<1>6. ASSUME NEW r \in Run, CloneOne(r) PROVE OverlapSeen'
  BY <1>6 DEF CloneOne, Created
<1>7. ASSUME NEW r \in Run, CloneFails(r) PROVE OverlapSeen'
  BY <1>7 DEF CloneFails, Move
<1>8. ASSUME NEW r \in Run, Provisioned(r) PROVE OverlapSeen'
  BY <1>8 DEF Provisioned, Move
<1>9. ASSUME NEW r \in Run, Connect(r) PROVE OverlapSeen'
  BY <1>9 DEF Connect
<1>10. ASSUME NEW r \in Run, Disconnect(r) PROVE OverlapSeen'
  BY <1>10 DEF Disconnect
<1>11. ASSUME NEW r \in Run, Finish(r) PROVE OverlapSeen'
  BY <1>11 DEF Finish, Move
<1>12. ASSUME NEW r \in Run, DestroyOne(r) PROVE OverlapSeen'
  BY <1>12 DEF DestroyOne, DropClone
<1>13. ASSUME NEW r \in Run, Exit(r) PROVE OverlapSeen'
  BY <1>13 DEF Exit, Move
<1>14. ASSUME NEW r \in Run, Kill(r) PROVE OverlapSeen'
  BY <1>14 DEF Kill
<1>15. ASSUME NEW r \in Run, OrphansEnd(r) PROVE OverlapSeen'
  BY <1>15 DEF OrphansEnd
<1>16. ASSUME NEW r \in Run, LoseHelper(r) PROVE OverlapSeen'
  BY <1>16 DEF LoseHelper
<1>17. ASSUME NEW r \in Run, HelperEnds(r) PROVE OverlapSeen'
  BY <1>17 DEF HelperEnds, Move
<1>18. CASE UNCHANGED vars
  BY <1>18 DEF vars
<1> QED
  BY <1>1, <1>2, <1>3, <1>4, <1>5, <1>6, <1>7, <1>8, <1>9, <1>10, <1>11, <1>12, <1>13, <1>14, <1>15, <1>16,
      <1>17, <1>18 DEF Next, Step, Other, Over

\* No step leaves workers outside a run, or a run killed.
LEMMA WorkersStep == Inv /\ [Next]_vars => WorkersInPhase'
<1> SUFFICES ASSUME Inv, [Next]_vars PROVE WorkersInPhase'
  OBVIOUS
<1> USE DEF Inv, TypeOK, Live, Phase, ghosts, server, WorkersInPhase
<1>1. ASSUME NEW r \in Run, Begin(r) PROVE WorkersInPhase'
  BY <1>1 DEF Begin, Move
<1>2. ASSUME NEW r \in Run, Probe(r) PROVE WorkersInPhase'
  BY <1>2 DEF Probe, Spared
<1>3. ASSUME NEW r \in Run, DropStale(r) PROVE WorkersInPhase'
  BY <1>3 DEF DropStale, SweepDrop, StartCloning, Move, Refused
<1>4. ASSUME NEW r \in Run, SweepFails(r) PROVE WorkersInPhase'
  BY <1>4 DEF SweepFails, StartCloning, Move
<1>5. ASSUME NEW r \in Run, SweepEnds(r) PROVE WorkersInPhase'
  BY <1>5 DEF SweepEnds, StartCloning, Move
<1>6. ASSUME NEW r \in Run, CloneOne(r) PROVE WorkersInPhase'
  BY <1>6 DEF CloneOne, Created
<1>7. ASSUME NEW r \in Run, CloneFails(r) PROVE WorkersInPhase'
  BY <1>7 DEF CloneFails, Move
<1>8. ASSUME NEW r \in Run, Provisioned(r) PROVE WorkersInPhase'
  BY <1>8 DEF Provisioned, Move
<1>9. ASSUME NEW r \in Run, Connect(r) PROVE WorkersInPhase'
  BY <1>9 DEF Connect
<1>10. ASSUME NEW r \in Run, Disconnect(r) PROVE WorkersInPhase'
  BY <1>10 DEF Disconnect
<1>11. ASSUME NEW r \in Run, Finish(r) PROVE WorkersInPhase'
  BY <1>11 DEF Finish, Move
<1>12. ASSUME NEW r \in Run, DestroyOne(r) PROVE WorkersInPhase'
  BY <1>12 DEF DestroyOne, DropClone
<1>13. ASSUME NEW r \in Run, Exit(r) PROVE WorkersInPhase'
  BY <1>13 DEF Exit, Move
<1>14. ASSUME NEW r \in Run, Kill(r) PROVE WorkersInPhase'
  BY <1>14 DEF Kill
<1>15. ASSUME NEW r \in Run, OrphansEnd(r) PROVE WorkersInPhase'
  BY <1>15 DEF OrphansEnd
<1>16. ASSUME NEW r \in Run, LoseHelper(r) PROVE WorkersInPhase'
  BY <1>16 DEF LoseHelper
<1>17. ASSUME NEW r \in Run, HelperEnds(r) PROVE WorkersInPhase'
  BY <1>17 DEF HelperEnds, Move
<1>18. CASE UNCHANGED vars
  BY <1>18 DEF vars
<1> QED
  BY <1>1, <1>2, <1>3, <1>4, <1>5, <1>6, <1>7, <1>8, <1>9, <1>10, <1>11, <1>12, <1>13, <1>14, <1>15, <1>16,
      <1>17, <1>18 DEF Next, Step, Other, Over

\* No step takes a clone from a run that is alone.
LEMMA ClonedStep == Inv /\ [Next]_vars => Cloned'
<1> SUFFICES ASSUME Inv, [Next]_vars PROVE Cloned'
  OBVIOUS
<1> USE DEF Inv, TypeOK, Live, Phase, ghosts, server, Cloned, OverlapSeen, Own
<1>1. ASSUME NEW r \in Run, Begin(r) PROVE Cloned'
  BY <1>1 DEF Begin, Move
<1>2. ASSUME NEW r \in Run, Probe(r) PROVE Cloned'
  BY <1>2 DEF Probe, Spared
<1>3. ASSUME NEW r \in Run, DropStale(r) PROVE Cloned'
  BY <1>3 DEF DropStale, SweepDrop, StartCloning, Move, Refused
<1>4. ASSUME NEW r \in Run, SweepFails(r) PROVE Cloned'
  BY <1>4 DEF SweepFails, StartCloning, Move
<1>5. ASSUME NEW r \in Run, SweepEnds(r) PROVE Cloned'
  BY <1>5 DEF SweepEnds, StartCloning, Move
<1>6. ASSUME NEW r \in Run, CloneOne(r) PROVE Cloned'
  BY <1>6 DEF CloneOne, Created
<1>7. ASSUME NEW r \in Run, CloneFails(r) PROVE Cloned'
  BY <1>7 DEF CloneFails, Move
<1>8. ASSUME NEW r \in Run, Provisioned(r) PROVE Cloned'
  BY <1>8 DEF Provisioned, Move
<1>9. ASSUME NEW r \in Run, Connect(r) PROVE Cloned'
  BY <1>9 DEF Connect
<1>10. ASSUME NEW r \in Run, Disconnect(r) PROVE Cloned'
  BY <1>10 DEF Disconnect
<1>11. ASSUME NEW r \in Run, Finish(r) PROVE Cloned'
  BY <1>11 DEF Finish, Move
<1>12. ASSUME NEW r \in Run, DestroyOne(r) PROVE Cloned'
  BY <1>12 DEF DestroyOne, DropClone
<1>13. ASSUME NEW r \in Run, Exit(r) PROVE Cloned'
  BY <1>13 DEF Exit, Move
<1>14. ASSUME NEW r \in Run, Kill(r) PROVE Cloned'
  BY <1>14 DEF Kill
<1>15. ASSUME NEW r \in Run, OrphansEnd(r) PROVE Cloned'
  BY <1>15 DEF OrphansEnd
<1>16. ASSUME NEW r \in Run, LoseHelper(r) PROVE Cloned'
  BY <1>16 DEF LoseHelper
<1>17. ASSUME NEW r \in Run, HelperEnds(r) PROVE Cloned'
  BY <1>17 DEF HelperEnds, Move
<1>18. CASE UNCHANGED vars
  BY <1>18 DEF vars
<1> QED
  BY <1>1, <1>2, <1>3, <1>4, <1>5, <1>6, <1>7, <1>8, <1>9, <1>10, <1>11, <1>12, <1>13, <1>14, <1>15, <1>16,
      <1>17, <1>18 DEF Next, Step, Other, Over

\* What a run has destroyed does not come back to it.
LEMMA DestroyedStep == Inv /\ [Next]_vars => Destroyed'
<1> SUFFICES ASSUME Inv, [Next]_vars PROVE Destroyed'
  OBVIOUS
<1> USE DEF Inv, TypeOK, Live, Phase, ghosts, server, Destroyed, Undeleted, Silent, Own
<1>1. ASSUME NEW r \in Run, Begin(r) PROVE Destroyed'
  BY <1>1 DEF Begin, Move
<1>2. ASSUME NEW r \in Run, Probe(r) PROVE Destroyed'
  BY <1>2 DEF Probe, Spared
<1>3. ASSUME NEW r \in Run, DropStale(r) PROVE Destroyed'
  <2> PICK n \in probed[r] : SweepDrop(r, n)
    BY <1>3 DEF DropStale
  <2>1. /\ \A m \in Name : owner'[m] = Nobody \/ (owner'[m] = owner[m] /\ (m \in stuck => m \in stuck'))
        /\ \A s \in Run : phase'[s] \in {"over", "dropping"} =>
             phase'[s] = phase[s] /\ todo'[s] = todo[s]
    BY DEF SweepDrop, StartCloning, Move
  <2> QED
    BY <1>3, <2>1, NobodyAssumption DEF DropStale, Name
<1>4. ASSUME NEW r \in Run, SweepFails(r) PROVE Destroyed'
  BY <1>4 DEF SweepFails, StartCloning, Move
<1>5. ASSUME NEW r \in Run, SweepEnds(r) PROVE Destroyed'
  BY <1>5 DEF SweepEnds, StartCloning, Move
<1>6. ASSUME NEW r \in Run, CloneOne(r) PROVE Destroyed'
  BY <1>6 DEF CloneOne, Created
<1>7. ASSUME NEW r \in Run, CloneFails(r) PROVE Destroyed'
  <2>1. \A m \in Name : owner'[m] \in {Nobody, r} \/ (owner'[m] = owner[m] /\ (m \in stuck => m \in stuck'))
    BY <1>7 DEF CloneFails, Created
  <2>2. /\ phase' = [phase EXCEPT ![r] = "failed"] /\ todo' = [todo EXCEPT ![r] = {}]
        /\ UNCHANGED <<dbms, pid, warned>>
    BY <1>7 DEF CloneFails, Move
  <2> QED
    BY <2>1, <2>2, NobodyAssumption DEF Name
<1>8. ASSUME NEW r \in Run, Provisioned(r) PROVE Destroyed'
  BY <1>8 DEF Provisioned, Move
<1>9. ASSUME NEW r \in Run, Connect(r) PROVE Destroyed'
  BY <1>9 DEF Connect
<1>10. ASSUME NEW r \in Run, Disconnect(r) PROVE Destroyed'
  BY <1>10 DEF Disconnect
<1>11. ASSUME NEW r \in Run, Finish(r) PROVE Destroyed'
  BY <1>11 DEF Finish, Move
<1>12. ASSUME NEW r \in Run, DestroyOne(r) PROVE Destroyed'
  <2> PICK n \in todo[r] :
         /\ todo' = [todo EXCEPT ![r] = @ \ {n}]
         /\ \/ DropClone(n) /\ UNCHANGED warned
            \/ warned' = [warned EXCEPT ![r] = @ \cup {n}] /\ UNCHANGED <<owner, conns, stuck>>
    BY <1>12 DEF DestroyOne
  <2>1. UNCHANGED <<dbms, phase, pid>>
    BY <1>12 DEF DestroyOne
  <2>2. CASE DropClone(n) /\ UNCHANGED warned
    <3>1. n \in Name
      OBVIOUS
    <3>2. \A m \in Name : owner'[m] = Nobody \/ (owner'[m] = owner[m] /\ (m \in stuck => m \in stuck'))
      BY <2>2 DEF DropClone
    <3>3. owner'[n] = Nobody \/ Undeleted(n)'
      <4>1. CASE owner' = [owner EXCEPT ![n] = Nobody]
        BY <3>1, <4>1
      <4>2. CASE Silent /\ stuck' = stuck \cup ({n} \cap Exists) /\ owner' = owner
        BY <2>1, <3>1, <4>2 DEF Exists
      <4> QED
        BY <2>2, <4>1, <4>2 DEF DropClone
    <3> QED
      BY <2>1, <2>2, <3>1, <3>2, <3>3, NobodyAssumption DEF Name
  <2>3. CASE warned' = [warned EXCEPT ![r] = @ \cup {n}] /\ UNCHANGED <<owner, conns, stuck>>
    BY <2>1, <2>3
  <2> QED
    BY <2>2, <2>3
<1>13. ASSUME NEW r \in Run, Exit(r) PROVE Destroyed'
  BY <1>13 DEF Exit, Move
<1>14. ASSUME NEW r \in Run, Kill(r) PROVE Destroyed'
  BY <1>14 DEF Kill
<1>15. ASSUME NEW r \in Run, OrphansEnd(r) PROVE Destroyed'
  BY <1>15 DEF OrphansEnd
<1>16. ASSUME NEW r \in Run, LoseHelper(r) PROVE Destroyed'
  BY <1>16 DEF LoseHelper
<1>17. ASSUME NEW r \in Run, HelperEnds(r) PROVE Destroyed'
  BY <1>17 DEF HelperEnds, Move
<1>18. CASE UNCHANGED vars
  BY <1>18 DEF vars
<1> QED
  BY <1>1, <1>2, <1>3, <1>4, <1>5, <1>6, <1>7, <1>8, <1>9, <1>10, <1>11, <1>12, <1>13, <1>14, <1>15, <1>16,
      <1>17, <1>18 DEF Next, Step, Other, Over

\* Nobody comes to use what a sweep by a run alone has to reclaim.
LEMMA OwedStep == Inv /\ [Next]_vars => OwedUnused'
<1> SUFFICES ASSUME Inv, [Next]_vars PROVE OwedUnused'
  OBVIOUS
<1> USE DEF Inv, TypeOK, Live, Phase, ghosts, server, OwedUnused, OverlapSeen, Own, Connected
<1>1. ASSUME NEW r \in Run, Begin(r) PROVE OwedUnused'
  BY <1>1 DEF Begin, Move
<1>2. ASSUME NEW r \in Run, Probe(r) PROVE OwedUnused'
  BY <1>2 DEF Probe, Spared
<1>3. ASSUME NEW r \in Run, DropStale(r) PROVE OwedUnused'
  BY <1>3 DEF DropStale, SweepDrop, StartCloning, Move, Refused
<1>4. ASSUME NEW r \in Run, SweepFails(r) PROVE OwedUnused'
  BY <1>4 DEF SweepFails, StartCloning, Move
<1>5. ASSUME NEW r \in Run, SweepEnds(r) PROVE OwedUnused'
  BY <1>5 DEF SweepEnds, StartCloning, Move
<1>6. ASSUME NEW r \in Run, CloneOne(r) PROVE OwedUnused'
  BY <1>6 DEF CloneOne, Created
<1>7. ASSUME NEW r \in Run, CloneFails(r) PROVE OwedUnused'
  BY <1>7 DEF CloneFails, Move
<1>8. ASSUME NEW r \in Run, Provisioned(r) PROVE OwedUnused'
  BY <1>8 DEF Provisioned, Move
<1>9. ASSUME NEW r \in Run, Connect(r) PROVE OwedUnused'
  BY <1>9 DEF Connect
<1>10. ASSUME NEW r \in Run, Disconnect(r) PROVE OwedUnused'
  BY <1>10 DEF Disconnect
<1>11. ASSUME NEW r \in Run, Finish(r) PROVE OwedUnused'
  BY <1>11 DEF Finish, Move
<1>12. ASSUME NEW r \in Run, DestroyOne(r) PROVE OwedUnused'
  BY <1>12 DEF DestroyOne, DropClone
<1>13. ASSUME NEW r \in Run, Exit(r) PROVE OwedUnused'
  BY <1>13 DEF Exit, Move
<1>14. ASSUME NEW r \in Run, Kill(r) PROVE OwedUnused'
  BY <1>14 DEF Kill
<1>15. ASSUME NEW r \in Run, OrphansEnd(r) PROVE OwedUnused'
  BY <1>15 DEF OrphansEnd
<1>16. ASSUME NEW r \in Run, LoseHelper(r) PROVE OwedUnused'
  BY <1>16 DEF LoseHelper
<1>17. ASSUME NEW r \in Run, HelperEnds(r) PROVE OwedUnused'
  BY <1>17 DEF HelperEnds, Move
<1>18. CASE UNCHANGED vars
  BY <1>18 DEF vars
<1> QED
  BY <1>1, <1>2, <1>3, <1>4, <1>5, <1>6, <1>7, <1>8, <1>9, <1>10, <1>11, <1>12, <1>13, <1>14, <1>15, <1>16,
      <1>17, <1>18 DEF Next, Step, Other, Over

\* What the sweep has visited stays reclaimed.
LEMMA SweptStep == Inv /\ [Next]_vars => Swept'
<1> SUFFICES ASSUME Inv, [Next]_vars PROVE Swept'
  OBVIOUS
<1> USE DEF Inv, TypeOK, Live, Phase, ghosts, server, Swept, Undeleted, Silent, OverlapSeen, OwedUnused, Connected
<1>1. ASSUME NEW r \in Run, Begin(r) PROVE Swept'
  BY <1>1 DEF Begin, Move
<1>2. ASSUME NEW r \in Run, Probe(r) PROVE Swept'
  BY <1>2 DEF Probe, Spared
<1>3. ASSUME NEW r \in Run, DropStale(r) PROVE Swept'
  <2> PICK n \in probed[r] : SweepDrop(r, n)
    BY <1>3 DEF DropStale
  <2>0. n \in Name /\ probed[r] = {n}
    OBVIOUS
  <2>1. UNCHANGED <<dbms, listed, overlapped, owed>>
    BY <1>3 DEF DropStale
  <2>2. CASE /\ probed' = [probed EXCEPT ![r] = {}] /\ UNCHANGED <<phase, todo, abandoned>>
             /\ \/ owner' = [owner EXCEPT ![n] = Nobody] /\ stuck' = stuck \ {n}
                \/ Silent /\ stuck' = stuck \cup ({n} \cap Exists) /\ owner' = owner
    <3>1. \A m \in Name : owner'[m] = Nobody \/ (owner'[m] = owner[m] /\ (m \in stuck => m \in stuck'))
      BY <2>2
    <3>2. owner'[n] = Nobody \/ Undeleted(n)'
      BY <2>0, <2>1, <2>2 DEF Exists
    <3> QED
      BY <2>0, <2>1, <2>2, <3>1, <3>2
  <2>3. CASE /\ StartCloning(r) /\ abandoned' = [abandoned EXCEPT ![r] = TRUE]
             /\ UNCHANGED <<owner, stuck>>
    BY <2>0, <2>1, <2>3 DEF StartCloning, Move
  <2> QED
    BY <2>2, <2>3 DEF SweepDrop
<1>4. ASSUME NEW r \in Run, SweepFails(r) PROVE Swept'
  BY <1>4 DEF SweepFails, StartCloning, Move
<1>5. ASSUME NEW r \in Run, SweepEnds(r) PROVE Swept'
  BY <1>5 DEF SweepEnds, StartCloning, Move
<1>6. ASSUME NEW r \in Run, CloneOne(r) PROVE Swept'
  BY <1>6 DEF CloneOne, Created
<1>7. ASSUME NEW r \in Run, CloneFails(r) PROVE Swept'
  BY <1>7 DEF CloneFails, Move
<1>8. ASSUME NEW r \in Run, Provisioned(r) PROVE Swept'
  BY <1>8 DEF Provisioned, Move
<1>9. ASSUME NEW r \in Run, Connect(r) PROVE Swept'
  BY <1>9 DEF Connect
<1>10. ASSUME NEW r \in Run, Disconnect(r) PROVE Swept'
  BY <1>10 DEF Disconnect
<1>11. ASSUME NEW r \in Run, Finish(r) PROVE Swept'
  BY <1>11 DEF Finish, Move
<1>12. ASSUME NEW r \in Run, DestroyOne(r) PROVE Swept'
  BY <1>12 DEF DestroyOne, DropClone
<1>13. ASSUME NEW r \in Run, Exit(r) PROVE Swept'
  BY <1>13 DEF Exit, Move
<1>14. ASSUME NEW r \in Run, Kill(r) PROVE Swept'
  BY <1>14 DEF Kill
<1>15. ASSUME NEW r \in Run, OrphansEnd(r) PROVE Swept'
  BY <1>15 DEF OrphansEnd
<1>16. ASSUME NEW r \in Run, LoseHelper(r) PROVE Swept'
  BY <1>16 DEF LoseHelper
<1>17. ASSUME NEW r \in Run, HelperEnds(r) PROVE Swept'
  BY <1>17 DEF HelperEnds, Move
<1>18. CASE UNCHANGED vars
  BY <1>18 DEF vars
<1> QED
  BY <1>1, <1>2, <1>3, <1>4, <1>5, <1>6, <1>7, <1>8, <1>9, <1>10, <1>11, <1>12, <1>13, <1>14, <1>15, <1>16,
      <1>17, <1>18 DEF Next, Step, Other, Over

\* The whole invariant is kept by every step.
LEMMA InvStep == Inv /\ [Next]_vars => Inv'
BY TypeStep, VisitsStep, OverlapStep, WorkersStep, ClonedStep, DestroyedStep, OwedStep, SweptStep
   DEF Inv

\* So it holds in every reachable state.
LEMMA Invariance == Spec => []Inv
BY InitInv, InvStep, PTL DEF Spec

----------------------------------------------------------------------------
(* Every variable keeps its type; no run touches a name that is not its    *)
(* own, but to sweep it.                                                   *)
THEOREM LeasesTypeCorrect == Spec => []TypeOK
BY Invariance, PTL DEF Inv

(* A run that had the server to itself works on clones it created,         *)
(* whatever a crashed run with its process id left behind.                 *)
THEOREM ClonesAreFresh == Spec => []FreshClones
<1>1. Inv => FreshClones
  BY DEF Inv, Cloned, FreshClones
<1> QED
  BY <1>1, Invariance, PTL

(* destroy_all leaves none of the run's clones that it did not warn about. *)
THEOREM ExitIsClean == Spec => []CleanExit
<1>1. Inv => CleanExit
  BY DEF Inv, Destroyed, CleanExit
<1> QED
  BY <1>1, Invariance, PTL

(* A complete sweep of a run alone on the server reclaims every clone that *)
(* nobody could use when it began.                                         *)
THEOREM LeftoversAreReclaimed == Spec => []LeftoversReclaimed
<1>1. Inv => LeftoversReclaimed
  BY DEF Inv, Swept, LeftoversReclaimed
<1> QED
  BY <1>1, Invariance, PTL

(* On PostgreSQL a sweep never drops a clone somebody is connected to.     *)
THEOREM ConnectedAreSpared == Spec => SparesConnected
<1>1. ASSUME Inv, [Next]_vars, dbms = "pg", NEW q \in Run,
             phase[q] = "sweeping", phase'[q] = "sweeping", NEW m \in probed[q] \ probed'[q]
      PROVE  ~Connected(m)
  <2> USE DEF Inv, TypeOK
  <2>1. ASSUME NEW r \in Run, DropStale(r) PROVE ~Connected(m)
    <3> PICK n \in probed[r] : SweepDrop(r, n)
      BY <2>1 DEF DropStale
    <3>1. q = r /\ m = n
      BY <1>1 DEF SweepDrop, StartCloning, Move
    <3>2. ~Refused(n)
      <4>1. ~Silent
        BY <1>1 DEF Silent
      <4> QED
        BY <1>1, <3>1, <4>1 DEF SweepDrop, StartCloning, Move
    <3> QED
      BY <1>1, <3>1, <3>2 DEF Refused
  <2>2. ASSUME NEW r \in Run, Step(r) \/ Other(r), ~DropStale(r) PROVE probed'[q] = probed[q]
    <3>1. CASE SweepFails(r) \/ SweepEnds(r)
      BY <1>1, <3>1 DEF SweepFails, SweepEnds, StartCloning, Move
    <3>2. CASE Probe(r)
      BY <1>1, <3>2 DEF Probe
    <3>3. CASE Kill(r)
      BY <1>1, <3>3 DEF Kill
    <3>4. CASE Begin(r) \/ CloneOne(r) \/ CloneFails(r) \/ Provisioned(r) \/ Finish(r)
               \/ DestroyOne(r) \/ Exit(r) \/ Connect(r) \/ Disconnect(r) \/ LoseHelper(r)
               \/ HelperEnds(r) \/ OrphansEnd(r)
      BY <3>4 DEF Begin, CloneOne, CloneFails, Provisioned, Finish, DestroyOne, Exit,
                  Connect, Disconnect, LoseHelper, HelperEnds, OrphansEnd
    <3> QED
      BY <2>2, <3>1, <3>2, <3>3, <3>4 DEF Step, Other
  <2> QED
    BY <1>1, <2>1, <2>2 DEF Next, Over, vars
<1>2. Inv /\ [Next]_vars =>
        [dbms = "pg" =>
           \A r \in Run : phase[r] = "sweeping" /\ phase'[r] = "sweeping" =>
             \A n \in probed[r] \ probed'[r] : ~Connected(n)]_vars
  BY <1>1
<1> QED
  BY <1>2, Invariance, PTL DEF Spec, SparesConnected
=============================================================================
