------------------------------ MODULE ForkPool ------------------------------
(***************************************************************************)
(* PhpForkPool (fork_pool.rs): what the Rust dispatcher and the PHP        *)
(* processes share.  Per worker slot there is a pipe of batch plans down   *)
(* to the worker and a pipe of lines back up; the pipes outlive any one    *)
(* worker process, and a slot's replacement worker inherits them.          *)
(*                                                                         *)
(* worker_fork.php opens its streams with fopen('php://fd/N'), which       *)
(* duplicates the descriptor, so the original stays open in the master and *)
(* in every child: a pipe reaches end of file, or refuses a write, only    *)
(* once the master and all children are gone.                              *)
(***************************************************************************)
EXTENDS Suite, Sequences

CONSTANTS
  NSlots,  \* the number of worker slots
  Modes    \* the ways worker_fork.php may be started (see Mode)

Slot == 1 .. NSlots

(* --max-batches-per-child > 0, = 0, and --inline.                         *)
Mode == {"fork_server", "long_lived", "inline"}

ASSUME PoolAssumption ==
  /\ NSlots \in Nat \ {0}
  /\ Modes \subseteq Mode
  /\ "inline" \in Modes => NSlots = 1 /\ \A p \in InitialPlans : ~p.force

VARIABLES
  mode,       \* how this run started worker_fork.php
  writeOpen,  \* is Rust's write end of the slot's plan pipe open?
  inbox,      \* plans written to the slot and not yet read by a worker
  outbox,     \* lines written for the slot and not yet read by the dispatcher
  master,     \* the state of the PHP master process
  child       \* the state of the slot's worker process

pipeVars == <<writeOpen, inbox, outbox>>

----------------------------------------------------------------------------
(* The lines of the protocol.  A worker writes all rows of a class in one  *)
(* go; the message carries them together.  classes are <class> rows, and   *)
(* defect says whether some row matches the run's stop-on policy.          *)
RowsMsg(rows, classes, defect) ==
  [kind |-> "rows", rows |-> rows, classes |-> classes, defect |-> defect]

Notice(kind) == [kind |-> kind, rows |-> {}, classes |-> {}, defect |-> FALSE]

Msg == [kind : {"rows", "batch_done", "slot_died"}, rows : SUBSET Case,
        classes : SUBSET Class, defect : BOOLEAN]

MasterState == {"forking", "serving", "waiting", "exited", "killed"}
ChildState == {"unborn", "idle", "busy", "exiting", "zombie", "none"}
Running == {"idle", "busy", "exiting"}

(* PhpForkPool::master_alive.  An inline master is its own only worker.    *)
MasterAlive ==
  IF mode = "inline" THEN child[1] \in Running ELSE master \notin {"exited", "killed"}

AllExited == ~MasterAlive /\ \A s \in Slot : child[s] \notin Running

(* PhpForkPool::write_batch fails on a closed slot, and with EPIPE when    *)
(* nobody is left to read.                                                 *)
CanWrite(s) == writeOpen[s] /\ ~AllExited

(* Mutant: the write is retried after it went through.                     *)
WriteBatchTwice(s, p) ==
  /\ CanWrite(s)
  /\ inbox' = [inbox EXCEPT ![s] = @ \o <<p, p>>]
  /\ UNCHANGED writeOpen

WriteBatch(s, p) ==
  /\ CanWrite(s)
  /\ inbox' = [inbox EXCEPT ![s] = Append(@, p)]
  /\ UNCHANGED writeOpen

(* Mutants: close every slot's pipe; close nothing.                        *)
CloseEverySlot(s) == writeOpen' = [r \in Slot |-> FALSE] /\ UNCHANGED inbox
CloseNoSlot(s) == UNCHANGED <<writeOpen, inbox>>

(* PhpForkPool::close_slot, idempotent.                                    *)
CloseSlot(s) ==
  /\ writeOpen' = [writeOpen EXCEPT ![s] = FALSE]
  /\ UNCHANGED inbox

(* write_line on the slot's output pipe.                                   *)
Send(s, m) == outbox' = [outbox EXCEPT ![s] = Append(@, m)]

(* The reader thread of the slot hands the next line to the dispatcher.    *)
Receive(s, kind) ==
  /\ outbox[s] # <<>>
  /\ Head(outbox[s]).kind = kind
  /\ outbox' = [outbox EXCEPT ![s] = Tail(@)]

PoolTypeOK ==
  /\ mode \in Modes
  /\ writeOpen \in [Slot -> BOOLEAN]
  /\ inbox \in [Slot -> Seq(Plan)]
  /\ outbox \in [Slot -> Seq(Msg)]
  /\ master \in MasterState
  /\ child \in [Slot -> ChildState]

PoolInit ==
  /\ mode \in Modes
  /\ writeOpen = [s \in Slot |-> TRUE]
  /\ inbox = [s \in Slot |-> <<>>]
  /\ outbox = [s \in Slot |-> <<>>]
  /\ master = "forking"
  /\ child = [s \in Slot |-> IF mode = "inline" THEN "idle" ELSE "unborn"]
=============================================================================
