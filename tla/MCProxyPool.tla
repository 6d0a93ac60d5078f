----------------------------- MODULE MCProxyPool -----------------------------
(* Finite instances of ProxyPool.                                          *)
EXTENDS ProxyPool, TLC

CONSTANTS r1, r2, g1, cn

\* One proxy at first, for one account only.
CappedPool ==
    [p \in Proxy |-> [status |-> IF p = 1 THEN "active" ELSE "none", group |-> g1, cap |-> 1]]
FirstAtHome == [p \in Proxy |-> IF p = 1 THEN cn ELSE None]
OneAtHome == [a \in Account |-> IF a = 2 THEN cn ELSE None]

RequestSymmetry == Permutations(Request)
=============================================================================
