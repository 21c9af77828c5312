---------------------------- MODULE PaymentOrder ----------------------------
(***************************************************************************)
(* What a transaction intent promises to the merchant who created it.  The *)
(* payment it stands for is made at most once, it is reported confirmed    *)
(* only when it was made, and is not made again afterwards; an expired     *)
(* order stays expired.  An order the code lost track of (doubted) keeps   *)
(* only the order of its reports.                                          *)
(***************************************************************************)
CONSTANTS
    Orders,
    Hashes  \* transactions

VARIABLES
    state,   \* what the merchant is told
    paid,    \* the transactions that moved, or may still move, the money
    doubted  \* orders whose payment was lost sight of

Init == /\ state = [i \in Orders |-> "open"]
        /\ paid = [i \in Orders |-> {}]
        /\ doubted = {}

\* The payment is made, unless it was made or is under way.
Pay(i, n) == /\ i \in doubted \/ (state[i] # "confirmed" /\ paid[i] = {})
             /\ paid' = [paid EXCEPT ![i] = @ \cup {n}]
             /\ UNCHANGED state

\* The chain reverts a payment, never one reported confirmed.
Void(i) == /\ i \in doubted \/ state[i] # "confirmed"
           /\ \E n \in paid[i] : paid' = [paid EXCEPT ![i] = @ \ {n}]
           /\ UNCHANGED state

Confirm(i) == /\ state[i] = "open"
              /\ i \in doubted \/ paid[i] # {}
              /\ state' = [state EXCEPT ![i] = "confirmed"]
              /\ UNCHANGED paid

Expire(i) == /\ state' = [state EXCEPT ![i] = "expired"]
             /\ UNCHANGED paid

Report == \E i \in Orders : \/ \E n \in Hashes : Pay(i, n)
                            \/ Void(i) \/ Confirm(i) \/ Expire(i)

Next == /\ Report \/ UNCHANGED <<state, paid>>
        /\ doubted \subseteq doubted'
        /\ doubted' \subseteq Orders

Spec == Init /\ [][Next]_<<state, paid, doubted>>
=============================================================================
