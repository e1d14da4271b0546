---------------------------- MODULE MCToolProxy ----------------------------
(* Four calls of one key: three carry the same request, two of them served by *)
(* one instance; the fourth carries another request under the same key.       *)
EXTENDS ToolProxy, TLC

CONSTANTS p1, p2, p3, p4, k1, r1, r2, i1, i2

MCKeyOf == [p \in Calls |-> k1]
MCRequestOf == [p \in Calls |-> IF p = p4 THEN r2 ELSE r1]
MCInstanceOf == [p \in Calls |-> IF p \in {p1, p2} THEN i1 ELSE i2]
=============================================================================
