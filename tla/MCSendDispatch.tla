--------------------------- MODULE MCSendDispatch ---------------------------
(* Finite instances of SendDispatch.                                       *)
EXTENDS SendDispatch, TLC

CONSTANTS w1, w2, c1, c2, a1, a2

\* The messages of one campaign, on the same account, which has a substitute.
OneCampaign == [m \in Message |-> c1]
AllOnA1 == [m \in Message |-> a1]
BothAccounts == [c \in Campaign |-> {a1, a2}]

\* Message 1 goes out from a1, every other message from a2.
SplitAccounts == [m \in Message |-> IF m = 1 THEN a1 ELSE a2]

NoLimit == [a \in Account |-> 0]
LimitOne == [a \in Account |-> 1]

WorkerSymmetry == Permutations(Worker)
=============================================================================
