----------------------------- MODULE MCMutation -----------------------------
(* An instance of Mutation for TLC.  The mutants are interchangeable, so   *)
(* one order of their natures is enough: any behaviour is one of these     *)
(* with the mutants renamed.                                               *)
EXTENDS Mutation

Natures ==
  <<"uncovered", "unusable", "caught", "survives", "skips", "hangs", "dies", "exits">>

Rank(m) == CHOOSE i \in 1 .. 8 : Natures[i] = nature[m]

Sorted == \A l, m \in Planned : l < m => Rank(l) <= Rank(m)

SortedInit == Init /\ Sorted

SortedSpec == SortedInit /\ [][Next]_vars /\ Fairness
=============================================================================
