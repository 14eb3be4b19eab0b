------------------------------ MODULE MCRunner ------------------------------
(* Instances of Runner for TLC: the suites its configurations run.         *)
EXTENDS Runner

CONSTANTS A, B

(* Four methods.  A class A with a dependency chain 1-2 of which 2 has two *)
(* data sets, binned with class B's method 3; A's method 4 alone, in a     *)
(* stateful plan that ends its worker.                                     *)
Suite4Classes == {A, B}
Suite4ClassOf == <<A, A, B, A>>
Suite4Rows == <<1, 2, 1, 1>>
Suite4Plans == {[tests |-> {1, 2, 3}, force |-> FALSE], [tests |-> {4}, force |-> TRUE]}

(* Three methods and no stateful class, as the inline mode needs: class A  *)
(* with 1-2 in one plan, class B alone.                                    *)
Suite3ClassOf == <<A, A, B>>
Suite3Rows == <<1, 2, 1>>
Suite3Plans == {[tests |-> {1, 2}, force |-> FALSE], [tests |-> {3}, force |-> FALSE]}
=============================================================================
