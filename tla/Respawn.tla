------------------------------ MODULE Respawn ------------------------------
(***************************************************************************)
(* What main promises about a whole run, with the queue, the workers and   *)
(* the suite abstracted away: run_resumable is called on the pending       *)
(* tests, and each time it hands tests back because the PHP master died, a *)
(* fresh master is spawned for them, up to MAX_MASTER_RESPAWNS times.  Of  *)
(* a call only ReportContract's promise is used: it judges a test at most  *)
(* once, and returns every test judged, spoken for by its class, handed    *)
(* back, or cut off by a stop policy.                                      *)
(***************************************************************************)
EXTENDS Naturals

CONSTANT Test

VARIABLES
  state,      \* "idle", "calling", "returned", "reported" or "failed"
  wanted,     \* the selected tests
  pending,    \* the tests of the current call
  unfinished, \* what the last call handed back
  verdict,    \* "none", or how the test is reported
  excused,    \* tests a <class> row speaks for
  stopped,    \* a stop policy cut a call short
  roundRuns,  \* how often each test was started in this call
  runs,       \* ... and in the whole run
  respawns    \* master_respawns

vars == <<state, wanted, pending, unfinished, verdict, excused, stopped,
          roundRuns, runs, respawns>>

MAX_ATTEMPTS == 2
MAX_MASTER_RESPAWNS == 3

State == {"idle", "calling", "returned", "reported", "failed"}
Verdict == {"none", "ran", "error"}

TypeOK ==
  /\ state \in State
  /\ wanted \subseteq Test /\ pending \subseteq Test /\ unfinished \subseteq Test
  /\ verdict \in [Test -> Verdict]
  /\ excused \subseteq Test
  /\ stopped \in BOOLEAN
  /\ roundRuns \in [Test -> 0 .. MAX_ATTEMPTS]
  /\ runs \in [Test -> Nat]
  /\ respawns \in 0 .. MAX_MASTER_RESPAWNS + 1

Init ==
  /\ state = "idle"
  /\ wanted = {} /\ pending = {} /\ unfinished = {} /\ excused = {}
  /\ verdict = [t \in Test |-> "none"]
  /\ stopped = FALSE
  /\ roundRuns = [t \in Test |-> 0] /\ runs = [t \in Test |-> 0]
  /\ respawns = 0

(* The pending tests without a verdict.                                    *)
Owed == {t \in pending : verdict[t] = "none"} \ excused

(* The selection is made and the first master spawned ...                  *)
Begin ==
  /\ state = "idle"
  /\ state' = "calling"
  /\ wanted' \in SUBSET Test
  /\ pending' = wanted'
  /\ UNCHANGED <<unfinished, verdict, excused, stopped, roundRuns, runs, respawns>>

(* ... or the run is refused before any test (no database, no PHP), or the *)
(* first master cannot be spawned.                                         *)
Refuse ==
  /\ state = "idle"
  /\ state' = "failed"
  /\ UNCHANGED <<wanted, pending, unfinished, verdict, excused, stopped,
                 roundRuns, runs, respawns>>

(* Inside a call: pending tests are started, and judged or excused.        *)
Progress ==
  /\ state = "calling"
  /\ roundRuns' \in [Test -> 0 .. MAX_ATTEMPTS] /\ runs' \in [Test -> Nat]
  /\ \A t \in Test :
       \/ roundRuns'[t] = roundRuns[t] /\ runs'[t] = runs[t]
       \/ t \in pending /\ roundRuns'[t] = roundRuns[t] + 1 /\ runs'[t] = runs[t] + 1
  /\ verdict' \in [Test -> Verdict]
  /\ \E v \in {"ran", "error"} : \A t \in Test :
       \/ verdict'[t] = verdict[t]
       \/ t \in pending /\ verdict[t] = "none" /\ verdict'[t] = v
  /\ excused \subseteq excused' /\ excused' \subseteq excused \cup pending
  /\ UNCHANGED <<state, wanted, pending, unfinished, stopped, respawns>>

(* The call returns: all is reported, or the master died and what is owed  *)
(* is handed back, or a stop policy had emptied the queue.                 *)
Return ==
  /\ state = "calling"
  /\ state' = "returned"
  /\ \/ unfinished' = Owed /\ UNCHANGED stopped
     \/ Owed # {} /\ unfinished' = {} /\ stopped' = TRUE
  /\ UNCHANGED <<wanted, pending, verdict, excused, roundRuns, runs, respawns>>

(* The call returns an error.                                              *)
Fail ==
  /\ state = "calling"
  /\ state' = "failed"
  /\ UNCHANGED <<wanted, pending, unfinished, verdict, excused, stopped,
                 roundRuns, runs, respawns>>

(* A fresh master for the unfinished tests; every call counts attempts     *)
(* from zero.  Spawning it may fail, which ends the run.                   *)
Respawn ==
  /\ state = "returned" /\ unfinished # {}
  /\ respawns < MAX_MASTER_RESPAWNS
  /\ respawns' = respawns + 1
  /\ pending' = unfinished
  /\ unfinished' = {}
  /\ roundRuns' = [t \in Test |-> 0]
  /\ state' \in {"calling", "failed"}
  /\ UNCHANGED <<wanted, verdict, excused, stopped, runs>>

(* Too many dead masters: the unfinished tests are reported as Errors.     *)
GiveUp ==
  /\ state = "returned" /\ unfinished # {}
  /\ respawns >= MAX_MASTER_RESPAWNS
  /\ respawns' = respawns + 1
  /\ verdict' = [t \in Test |-> IF t \in unfinished THEN "error" ELSE verdict[t]]
  /\ unfinished' = {}
  /\ UNCHANGED <<state, wanted, pending, excused, stopped, roundRuns, runs>>

Break ==
  /\ state = "returned" /\ unfinished = {}
  /\ state' = "reported"
  /\ UNCHANGED <<wanted, pending, unfinished, verdict, excused, stopped,
                 roundRuns, runs, respawns>>

Next == Begin \/ Refuse \/ Progress \/ Return \/ Fail \/ Respawn \/ GiveUp \/ Break

Safety == Init /\ [][Next]_vars

Spec == Safety /\ WF_vars(Next)

----------------------------------------------------------------------------
(* A test is started at most MAX_ATTEMPTS times for each master.           *)
ExecutionsBounded ==
  \A t \in Test : runs[t] <= MAX_ATTEMPTS * (MAX_MASTER_RESPAWNS + 1)

(* What the loop is about to run again has no verdict yet.                 *)
HandedBackOwed == unfinished \subseteq Owed

(* The loop turns calls that may hand tests back into one that does not.   *)
Whole == INSTANCE ReportContract WITH
  excused <- excused \cup (IF state = "idle" THEN {} ELSE Test \ wanted),
  returned <- state = "reported",
  handedBack <- {}

NothingHandedBack == Whole!Safety
=============================================================================
