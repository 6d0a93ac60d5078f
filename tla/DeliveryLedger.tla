--------------------------- MODULE DeliveryLedger ---------------------------
(***************************************************************************)
(* What the send queue promises for each message, with no worker, session, *)
(* lock or campaign: a message is pending, accepted by Telegram but not    *)
(* yet recorded, sent, or dead.  An acceptance is forgotten only at the    *)
(* price of a fault, and only an operator revives a dead message.          *)
(***************************************************************************)
EXTENDS Integers

CONSTANTS Message

VARIABLES
    outcome,    \* where each message stands
    delivered,  \* how often Telegram accepted it
    faults      \* crashes and lost replies so far

ledgerVars == <<outcome, delivered, faults>>

Accepted == {m \in Message : outcome[m] = "accepted"}

Init ==
    /\ outcome = [m \in Message |-> "pending"]
    /\ delivered = [m \in Message |-> 0]
    /\ faults = 0

\* One message is in flight at a time.
Accept(m) ==
    /\ outcome[m] = "pending"
    /\ Accepted = {}
    /\ outcome' = [outcome EXCEPT ![m] = "accepted"]
    /\ delivered' = [delivered EXCEPT ![m] = @ + 1]
    /\ UNCHANGED faults

\* A commit: what was accepted becomes sent, some pending messages are given up.
Settle ==
    /\ \E gone \in SUBSET {m \in Message : outcome[m] = "pending"} :
          outcome' = [m \in Message |-> CASE m \in Accepted -> "sent"
                                          [] m \in gone -> "dead"
                                          [] OTHER -> outcome[m]]
    /\ UNCHANGED <<delivered, faults>>

Revive ==
    /\ \E some \in SUBSET {m \in Message : outcome[m] = "dead"} :
          outcome' = [m \in Message |-> IF m \in some THEN "pending" ELSE outcome[m]]
    /\ UNCHANGED <<delivered, faults>>

\* The acceptance never reached the worker.
LoseReply(m) ==
    /\ outcome[m] = "pending"
    /\ delivered' = [delivered EXCEPT ![m] = @ + 1]
    /\ faults' = faults + 1
    /\ UNCHANGED outcome

\* The worker dies before its commit.
Forget ==
    /\ outcome' = [m \in Message |-> IF m \in Accepted THEN "pending" ELSE outcome[m]]
    /\ faults' = faults + 1
    /\ UNCHANGED delivered

Next ==
    \/ \E m \in Message : Accept(m) \/ LoseReply(m)
    \/ Settle \/ Revive \/ Forget

Spec == Init /\ [][Next]_ledgerVars

\* Every acceptance but the recorded one was paid for by a fault.
LedgerTypeOK ==
    /\ outcome \in [Message -> {"pending", "accepted", "sent", "dead"}]
    /\ delivered \in [Message -> Nat]
    /\ faults \in Nat

PaidFor ==
    \A m \in Message :
        delivered[m] <= faults + (IF outcome[m] \in {"accepted", "sent"} THEN 1 ELSE 0)

=============================================================================
