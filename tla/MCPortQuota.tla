----------------------------- MODULE MCPortQuota -----------------------------
(* Finite instances of PortQuota.                                          *)
EXTENDS PortQuota, TLC

CONSTANTS r1, r2, m1, a1, a2

\* Every account belongs to m1.
AllOnM1 == [a \in Account |-> m1]

RequestSymmetry == Permutations(Request)
=============================================================================
