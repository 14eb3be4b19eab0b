------------------------------ MODULE MCLeases ------------------------------
(* An instance of Leases for TLC.  The names the sweep looks for are all,  *)
(* or those of the first slot (the others are longer).                     *)
EXTENDS Leases, TLC

MCListings == {Pid \X {0}, Name}

RunAndPidSymmetry == Permutations(Run) \cup Permutations(Pid)
=============================================================================
