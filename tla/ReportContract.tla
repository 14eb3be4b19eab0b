--------------------------- MODULE ReportContract ---------------------------
(***************************************************************************)
(* What run_resumable promises its caller about the tests it was given,    *)
(* with no workers, pipes or batches in sight: every test gets at most one *)
(* verdict and keeps it; when the call returns every test has one, or is   *)
(* spoken for by its class, or is handed back without a verdict, unless a  *)
(* stop policy cut the run short; and the call does return.                *)
(***************************************************************************)
CONSTANT Test

VARIABLES
  verdict,   \* "none", or how the test is reported
  excused,   \* tests a <class> row speaks for
  stopped,   \* has the stop policy fired?
  returned,  \* has the call returned?
  handedBack \* the tests returned as unfinished

vars == <<verdict, excused, stopped, returned, handedBack>>

Verdict == {"none", "ran", "error"}

TypeOK ==
  /\ verdict \in [Test -> Verdict]
  /\ excused \subseteq Test
  /\ stopped \in BOOLEAN /\ returned \in BOOLEAN
  /\ handedBack \subseteq Test

Init ==
  /\ verdict = [t \in Test |-> "none"]
  /\ excused = {} /\ handedBack = {}
  /\ stopped = FALSE /\ returned = FALSE

(* Tests of S get the verdict v.                                           *)
Judge(S, v) ==
  /\ \A t \in S : verdict[t] = "none"
  /\ verdict' = [t \in Test |-> IF t \in S THEN v ELSE verdict[t]]

(* Outcomes arrive, from workers or from the dispatcher's own bookkeeping. *)
Deliver ==
  /\ ~returned
  /\ \E S \in SUBSET Test : \E v \in {"ran", "error"} : Judge(S, v)
  /\ \E E \in SUBSET Test : excused' = excused \cup E
  /\ stopped' \in {stopped, TRUE}
  /\ UNCHANGED <<returned, handedBack>>

(* The call returns with the tests H unfinished.                           *)
Return ==
  /\ ~returned
  /\ returned' = TRUE
  /\ \E H \in SUBSET Test :
       /\ \A t \in H : verdict[t] = "none"
       /\ \A t \in Test : verdict[t] # "none" \/ t \in excused \/ t \in H \/ stopped
       /\ handedBack' = H
  /\ UNCHANGED <<verdict, excused, stopped>>

Next == Deliver \/ Return

Safety == Init /\ [][Next]_vars

Spec == Safety /\ WF_vars(Next)
=============================================================================
