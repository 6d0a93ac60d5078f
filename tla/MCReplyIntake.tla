---------------------------- MODULE MCReplyIntake ----------------------------
(* Finite instances of ReplyIntake.                                        *)
EXTENDS ReplyIntake

CONSTANTS r1, r2, s1, s2, a1, a2

\* Messages 1 and 2 are from s1, message 3 from s2.
TwoSenders == [m \in Message |-> IF m = 3 THEN s2 ELSE s1]

\* s2 writes to an account of its own.
ToTheirs == [m \in Message |-> IF m = 3 THEN a2 ELSE a1]
=============================================================================
