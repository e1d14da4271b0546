---------------------------- MODULE MCExecution ----------------------------
(* Instance of Execution: the calls of one key, two of them for the same    *)
(* action and, where there is a third, one for another action.              *)
EXTENDS Execution, TLC

CONSTANTS c3, k1, h1, h2, i1

MCKeyOf == [c \in Calls |-> k1]
MCRequestOf == [c \in Calls |-> c]
MCInstanceOf == [c \in Calls |-> i1]
MCHashOf == [c \in Calls |-> IF c = c3 THEN h2 ELSE h1]

Symmetry == Permutations(Calls \ {c3})
=============================================================================
