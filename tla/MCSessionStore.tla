--------------------------- MODULE MCSessionStore ---------------------------
(* Finite instances of SessionStore.                                       *)
EXTENDS SessionStore, TLC

CONSTANTS r1, r2, u1, u2, p1, x, s

ByPhone  == [stem |-> p1, sub |-> FALSE, uid |-> Null, phone |-> Null, user |-> u1]
BySidecar == [stem |-> x, sub |-> FALSE, uid |-> u1, phone |-> Null, user |-> u1]
Both     == [stem |-> p1, sub |-> FALSE, uid |-> u1, phone |-> p1, user |-> u1]
Folder   == [stem |-> s, sub |-> TRUE, uid |-> Null, phone |-> Null, user |-> u2]

Entries == {ByPhone, BySidecar, Both, Folder}
Uploads == {{ByPhone}, {Both, Folder}, {BySidecar, Folder}}

RequestSymmetry == Permutations(Request)
=============================================================================
