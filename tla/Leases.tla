------------------------------- MODULE Leases -------------------------------
(***************************************************************************)
(* The per-worker clones of the test database: provisioning (main.rs with  *)
(* resource_lease.rs and provision_db.php), teardown, and the start-up     *)
(* sweep that reclaims what crashed runs left behind.  Several runs use    *)
(* one server, one after the other or at once; a killed run's workers and  *)
(* their connections may outlive it.                                       *)
(***************************************************************************)
EXTENDS Naturals

CONSTANTS
  Run,      \* the runs that use the base database
  Pid,      \* the process ids they get
  NWorkers, \* worker_count
  Listings, \* the sets of names that may have the shape the sweep looks for
  Nobody    \* no run

Name == Pid \X (0 .. NWorkers - 1)

ASSUME NobodyAssumption == Nobody \notin Run
ASSUME ListingsAssumption == Listings \subseteq SUBSET Name

VARIABLES
  dbms,       \* the Provisioner: "pg", "mysql" or "sqlite"
  listed,     \* the names staleClonePattern matches
  phase,      \* where each run is
  pid,        \* its process id
  todo,       \* the names its current loop has still to visit
  probed,     \* found without a connection, about to be dropped by its sweep
  headless,   \* was the run killed, and its provisioning helper not?
  workers,    \* are there worker processes of the run?
  owner,      \* for each database, the run that created it
  conns,      \* the databases the workers of each run are connected to
  warned,     \* the names destroy_all could not drop
  overlapped, \* has another run been alive at the same time?
  abandoned,  \* did its sweep end early?
  stuck,      \* the clones that the last attempt to delete them left, without a word
  owed        \* the leftovers nobody could use when its sweep began

server == <<dbms, listed, pid>>
ghosts == <<overlapped, owed>>
vars == <<server, phase, todo, probed, headless, workers, owner, conns, warned, abandoned,
          stuck, ghosts>>

Phase == {"new", "sweeping", "cloning", "running", "dropping", "over", "failed", "killed"}
Live == {r \in Run : phase[r] \in {"sweeping", "cloning", "running", "dropping"}}

(* Mutant: one slot too many.                                              *)
OwnOneMore(r) == {pid[r]} \X (0 .. NWorkers)

(* "pr<pid>" and the slot: the clones of a run.                            *)
Own(r) == {pid[r]} \X (0 .. NWorkers - 1)
Exists == {n \in Name : owner[n] # Nobody}
Connected(n) == \E r \in Run : n \in conns[r]

Init ==
  /\ dbms \in {"pg", "mysql", "sqlite"}
  /\ listed \in Listings
  /\ phase = [r \in Run |-> "new"]
  /\ pid \in [Run -> Pid]
  /\ todo = [r \in Run |-> {}] /\ probed = [r \in Run |-> {}]
  /\ headless = [r \in Run |-> FALSE] /\ workers = [r \in Run |-> FALSE]
  /\ owner = [n \in Name |-> Nobody]
  /\ conns = [r \in Run |-> {}]
  /\ warned = [r \in Run |-> {}]
  /\ overlapped = [r \in Run |-> FALSE] /\ abandoned = [r \in Run |-> FALSE]
  /\ stuck = {} /\ owed = [r \in Run |-> {}]

Move(r, from, to) == phase[r] = from /\ phase' = [phase EXCEPT ![r] = to]

----------------------------------------------------------------------------
(* The sweep.  It begins by fetching the databases with names of the shape *)
(* <template>_pr<digits>_w<digits>.  clone_name gives its names that shape *)
(* unless it has to shorten them, or the last segment of the base is not   *)
(* the template's name (one with a query string).  No two live processes   *)
(* have one process id.                                                    *)
Begin(r) ==
  /\ Move(r, "new", "sweeping")
  /\ \A s \in Live : pid[s] # pid[r] \/ headless[s]
  /\ todo' = [todo EXCEPT ![r] = Exists \cap listed]
  /\ overlapped' = [s \in Run |-> overlapped[s] \/ (Live # {} /\ s \in Live \cup {r})]
  /\ owed' = [owed EXCEPT ![r] =
       {n \in Exists : ~Connected(n) /\ \A s \in Run : workers[s] => n \notin Own(s)}]
  /\ UNCHANGED <<server, probed, headless, workers, owner, conns, warned, abandoned, stuck>>

(* Mutant: the sweep's own connections count too.                          *)
SparedAlways(n) == dbms # "sqlite"

(* A clone with a connection belongs to a live run: it is not touched.     *)
(* SQLite has no such probe.                                               *)
Spared(n) == dbms # "sqlite" /\ Connected(n)

Probe(r) ==
  /\ phase[r] = "sweeping" /\ probed[r] = {}
  /\ \E n \in todo[r] :
       /\ todo' = [todo EXCEPT ![r] = @ \ {n}]
       /\ probed' = [probed EXCEPT ![r] = IF Spared(n) THEN {} ELSE {n}]
  /\ UNCHANGED <<server, phase, headless, workers, owner, conns, warned, abandoned, stuck, ghosts>>

StartCloning(r) ==
  /\ Move(r, "sweeping", "cloning")
  /\ todo' = [todo EXCEPT ![r] = Own(r)]
  /\ probed' = [probed EXCEPT ![r] = {}]

(* DROP DATABASE: PostgreSQL refuses it while somebody is connected.       *)
Refused(n) == dbms = "pg" /\ Connected(n)

(* SQLite: @unlink may fail, and nobody looks.                             *)
Silent == dbms = "sqlite"

(* Mutant: the sweep terminates the connections first.                     *)
SweepDropForced(r, n) ==
  /\ owner' = [owner EXCEPT ![n] = Nobody]
  /\ conns' = [s \in Run |-> conns[s] \ {n}]
  /\ probed' = [probed EXCEPT ![r] = {}]
  /\ stuck' = stuck \ {n}
  /\ UNCHANGED <<phase, todo, abandoned>>

(* What the sweep does to a name it found without connections.  An error   *)
(* ends the sweep, not the provisioning; a file that cannot be deleted is  *)
(* passed over.                                                            *)
SweepDrop(r, n) ==
  \/ /\ ~Refused(n)
     /\ owner' = [owner EXCEPT ![n] = Nobody]
     /\ probed' = [probed EXCEPT ![r] = {}]
     /\ stuck' = stuck \ {n}
     /\ UNCHANGED <<phase, todo, conns, abandoned>>
  \/ /\ Silent
     /\ probed' = [probed EXCEPT ![r] = {}]
     /\ stuck' = stuck \cup ({n} \cap Exists)
     /\ UNCHANGED <<phase, todo, owner, conns, abandoned>>
  \/ /\ Refused(n)
     /\ StartCloning(r)
     /\ abandoned' = [abandoned EXCEPT ![r] = TRUE]
     /\ UNCHANGED <<owner, conns, stuck>>

DropStale(r) ==
  /\ phase[r] = "sweeping"
  /\ \E n \in probed[r] : SweepDrop(r, n)
  /\ UNCHANGED <<server, headless, workers, warned, ghosts>>

(* Any other failure of the sweep has the same effect.                     *)
SweepFails(r) ==
  /\ StartCloning(r)
  /\ abandoned' = [abandoned EXCEPT ![r] = TRUE]
  /\ UNCHANGED <<server, headless, workers, owner, conns, warned, stuck, ghosts>>

SweepEnds(r) ==
  /\ todo[r] = {} /\ probed[r] = {}
  /\ StartCloning(r)
  /\ UNCHANGED <<server, headless, workers, owner, conns, warned, abandoned, stuck, ghosts>>

----------------------------------------------------------------------------
(* Mutant: a clone that is there already is taken as it is.                *)
CreatedIfMissing(r, n) == [owner EXCEPT ![n] = IF @ = Nobody THEN r ELSE @]

(* cloneOne: whatever has the name is dropped, then the template copied.   *)
Created(r, n) == [owner EXCEPT ![n] = r]

CloneOne(r) ==
  /\ phase[r] = "cloning"
  /\ \E n \in todo[r] :
       /\ ~Refused(n)
       /\ owner' = Created(r, n)
       /\ stuck' = stuck \ {n}
       /\ todo' = [todo EXCEPT ![r] = @ \ {n}]
  /\ UNCHANGED <<server, phase, probed, headless, workers, conns, warned, abandoned, ghosts>>

(* A clone cannot be made, and may be missing now or be there half-copied, *)
(* or the helper's answer does not come: the run is aborted, and as its    *)
(* LeaseGuard does not exist yet, what was created stays.                  *)
CloneFails(r) ==
  /\ Move(r, "cloning", "failed")
  /\ todo' = [todo EXCEPT ![r] = {}]
  /\ \/ UNCHANGED <<owner, stuck>>
     \/ \E n \in todo[r] :
          /\ ~Refused(n)
          /\ owner' \in {Created(r, n), [owner EXCEPT ![n] = Nobody]}
          /\ stuck' = stuck \ {n}
  /\ UNCHANGED <<server, probed, headless, workers, conns, warned, abandoned, ghosts>>

(* The guard is made and the pool started.                                 *)
Provisioned(r) ==
  /\ Move(r, "cloning", "running")
  /\ todo[r] = {} /\ ~headless[r]
  /\ workers' = [workers EXCEPT ![r] = TRUE]
  /\ UNCHANGED <<server, todo, probed, headless, owner, conns, warned, abandoned, stuck, ghosts>>

(* A worker connects to its clone, by name, when a test first needs it.    *)
Connect(r) ==
  /\ workers[r]
  /\ \E n \in (Own(r) \cap Exists) \ conns[r] : conns' = [conns EXCEPT ![r] = @ \cup {n}]
  /\ UNCHANGED <<server, phase, todo, probed, headless, workers, owner, warned, abandoned, stuck,
                 ghosts>>

(* A connection ends: its worker closes it, or the server notices that the *)
(* worker is gone.                                                         *)
Disconnect(r) ==
  /\ \E n \in conns[r] : conns' = [conns EXCEPT ![r] = @ \ {n}]
  /\ UNCHANGED <<server, phase, todo, probed, headless, workers, owner, warned, abandoned, stuck,
                 ghosts>>

----------------------------------------------------------------------------
(* The pool is gone, or an error ended the run: destroy_all begins.        *)
Finish(r) ==
  /\ Move(r, "running", "dropping")
  /\ workers' = [workers EXCEPT ![r] = FALSE]
  /\ todo' = [todo EXCEPT ![r] = Own(r)]
  /\ UNCHANGED <<server, probed, headless, owner, conns, warned, abandoned, stuck, ghosts>>

(* Mutant: connections that linger are not terminated.                     *)
DropClonePolite(n) ==
  /\ owner' = [owner EXCEPT ![n] = IF Refused(n) THEN @ ELSE Nobody]
  /\ stuck' = stuck \ {n}
  /\ UNCHANGED conns

(* dropClone: connections are terminated, then the database is dropped; or *)
(* a file is left where it is, and the helper succeeds all the same.       *)
DropClone(n) ==
  \/ /\ owner' = [owner EXCEPT ![n] = Nobody]
     /\ conns' = [s \in Run |-> conns[s] \ {n}]
     /\ stuck' = stuck \ {n}
  \/ /\ Silent
     /\ stuck' = stuck \cup ({n} \cap Exists)
     /\ UNCHANGED <<owner, conns>>

(* One name of destroy_all: the helper succeeds, or there is a warning.    *)
DestroyOne(r) ==
  /\ phase[r] = "dropping"
  /\ \E n \in todo[r] :
       /\ todo' = [todo EXCEPT ![r] = @ \ {n}]
       /\ \/ DropClone(n) /\ UNCHANGED warned
          \/ warned' = [warned EXCEPT ![r] = @ \cup {n}] /\ UNCHANGED <<owner, conns, stuck>>
  /\ UNCHANGED <<server, phase, probed, headless, workers, abandoned, ghosts>>

Exit(r) ==
  /\ Move(r, "dropping", "over")
  /\ todo[r] = {}
  /\ UNCHANGED <<server, todo, probed, headless, workers, owner, conns, warned, abandoned, stuck,
                 ghosts>>

(* SIGKILL or Ctrl-C: nothing is cleaned up, and workers finish what they  *)
(* are doing.                                                              *)
Kill(r) ==
  /\ r \in Live
  /\ phase' = [phase EXCEPT ![r] = "killed"]
  /\ todo' = [todo EXCEPT ![r] = {}] /\ probed' = [probed EXCEPT ![r] = {}]
  /\ headless' = [headless EXCEPT ![r] = FALSE]
  /\ UNCHANGED <<server, workers, owner, conns, warned, abandoned, stuck, ghosts>>

(* Only the run is killed, not provision_db.php: it goes on to sweep and   *)
(* to clone ...                                                            *)
LoseHelper(r) ==
  /\ phase[r] \in {"sweeping", "cloning"} /\ ~headless[r]
  /\ headless' = [headless EXCEPT ![r] = TRUE]
  /\ UNCHANGED <<server, phase, todo, probed, workers, owner, conns, warned, abandoned, stuck,
                 ghosts>>

(* ... and what it made stays.                                             *)
HelperEnds(r) ==
  /\ Move(r, "cloning", "killed")
  /\ todo[r] = {} /\ headless[r]
  /\ headless' = [headless EXCEPT ![r] = FALSE]
  /\ UNCHANGED <<server, todo, probed, workers, owner, conns, warned, abandoned, stuck, ghosts>>

OrphansEnd(r) ==
  /\ phase[r] = "killed" /\ workers[r]
  /\ workers' = [workers EXCEPT ![r] = FALSE]
  /\ UNCHANGED <<server, phase, todo, probed, headless, owner, conns, warned, abandoned, stuck,
                 ghosts>>

Step(r) ==
  \/ Begin(r) \/ Probe(r) \/ DropStale(r) \/ SweepFails(r) \/ SweepEnds(r)
  \/ CloneOne(r) \/ CloneFails(r) \/ Provisioned(r)
  \/ Finish(r) \/ DestroyOne(r) \/ Exit(r)

Other(r) ==
  Connect(r) \/ Disconnect(r) \/ Kill(r) \/ LoseHelper(r) \/ HelperEnds(r) \/ OrphansEnd(r)

Over == (\A r \in Run : phase[r] \in {"over", "failed", "killed"}) /\ UNCHANGED vars

Next == (\E r \in Run : Step(r) \/ Other(r)) \/ Over

Spec == Init /\ [][Next]_vars

----------------------------------------------------------------------------
TypeOK ==
  /\ dbms \in {"pg", "mysql", "sqlite"} /\ listed \in SUBSET Name
  /\ phase \in [Run -> Phase] /\ pid \in [Run -> Pid]
  /\ todo \in [Run -> SUBSET Name]
  /\ probed \in [Run -> {{}} \cup {{n} : n \in Name}]
  /\ headless \in [Run -> BOOLEAN] /\ workers \in [Run -> BOOLEAN]
  /\ owner \in [Name -> Run \cup {Nobody}]
  /\ conns \in [Run -> SUBSET Name] /\ warned \in [Run -> SUBSET Name]
  /\ \A r \in Run : conns[r] \subseteq Own(r) /\ warned[r] \subseteq Own(r)
  /\ overlapped \in [Run -> BOOLEAN] /\ abandoned \in [Run -> BOOLEAN]
  /\ stuck \in SUBSET Name
  /\ owed \in [Run -> SUBSET Name]

(* "live run owns this clone - do not touch" (PgProvisioner): a sweep of a *)
(* PostgreSQL server never takes a clone somebody is connected to, even    *)
(* when the connection is made between the probe and the DROP.             *)
SparesConnected ==
  [][dbms = "pg" =>
       \A r \in Run : phase[r] = "sweeping" /\ phase'[r] = "sweeping" =>
         \A n \in probed[r] \ probed'[r] : ~Connected(n)]_vars

(* A run that had the server to itself works on clones it created: nothing *)
(* a crashed run with the same process id left, and nothing taken from it. *)
FreshClones ==
  \A r \in Run : phase[r] = "running" /\ ~overlapped[r] => \A n \in Own(r) : owner[n] = r

(* A file of SQLite that could not be deleted when it last should be.      *)
Undeleted(n) == dbms = "sqlite" /\ n \in stuck

(* After destroy_all a run's clones are gone, lingering connections or     *)
(* not, except for those it warned about and, on SQLite, files that could  *)
(* not be deleted.                                                         *)
CleanExit ==
  \A r \in Run : phase[r] = "over" =>
    \A n \in Own(r) \ warned[r] : Undeleted(n) \/ owner[n] # r

(* "Ctrl-C / SIGKILL leftovers are reclaimed by the P4 startup GC sweep",  *)
(* and so are those of a provisioning that failed half-way: when a run     *)
(* starts to work, no clone is left that nobody could use when its sweep   *)
(* began, unless the sweep ended early or another run was there.  That is  *)
(* said of names the sweep looks for and of files that can be deleted.     *)
LeftoversReclaimed ==
  \A r \in Run : phase[r] = "running" /\ ~abandoned[r] /\ ~overlapped[r] =>
    \A n \in owed[r] \cap listed : Undeleted(n) \/ owner[n] \in {Nobody, r}
=============================================================================
