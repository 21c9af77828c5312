--------------------------- MODULE RefundRequests ---------------------------
(***************************************************************************)
(* The refunds of paid requests: creation, by the business or a POS, and   *)
(* the review, apps/api/src/routes/refundRequests.ts, with the wallet that *)
(* pays what was approved.                                                 *)
(*                                                                         *)
(* A refund is paid through the transaction intent its approval inserts.   *)
(* Here an intent is the PaymentOrder TxIntent implements, which promises  *)
(* nothing once the code lost track of its transaction (doubted).  Every   *)
(* handler reads, decides and writes in separate statements; a step is one *)
(* of them.  The payments are paid and stay so; they went to one wallet in *)
(* one token, so of what verifyTransaction compares only the recipient     *)
(* tells two refunds apart.                                                *)
(***************************************************************************)
EXTENDS Integers, FiniteSets, FiniteSetsExt

CONSTANTS
    Refunds,    \* rows of refund_requests
    Payments,   \* paid payment requests
    Collected,  \* what each of them received
    Intents,    \* rows of tx_intents that approvals insert
    Hashes,     \* transactions of the wallet
    Addresses,  \* where they may send the token
    Creators,   \* concurrent POST requests
    Reviewers,  \* concurrent PATCH requests
    MayDie,     \* whether a request may die between two statements
    None

ASSUME RefundAssumption ==
    /\ Collected \in Nat \ {0}
    /\ MayDie \in BOOLEAN
    /\ Creators \cap Reviewers = {}
    /\ None \notin Refunds \cup Payments \cup Intents \cup Hashes \cup Addresses

VARIABLES
    refunds,  \* the table
    madeFor,  \* the refund an intent was inserted for
    listed,   \* the intents the wallet has been shown as those of a refund
    state,    \* of an intent, see PaymentOrder
    doubted,  \* the intents the code lost track of, see PaymentOrder
    chain,    \* the wallet's transactions, of an intent or not
    h,        \* where a request stands and what it remembers
    raced     \* history: the refunds two reviews of which overlapped, and the
              \* payments two creations for which did

vars == <<refunds, madeFor, listed, state, doubted, chain, h, raced>>

\* The transactions that pay an intent, see PaymentOrder.
paid == [i \in Intents |-> { n \in Hashes :
           chain[n].intent = i /\ chain[n].state \in {"pool", "success"} }]

Order == INSTANCE PaymentOrder WITH Orders <- Intents

Status == { "none", "pending", "approved_pending_signature", "rejected",
            "executed" }

Open == { "pending", "approved_pending_signature" }

Steps == { "idle", "insert", "approve", "link", "reject", "verify", "execute" }

Absent == [status |-> "none", payment |-> None, amount |-> 0, to |-> None,
           intent |-> None, tx |-> None]

Idle == [at |-> "idle", refund |-> None, payment |-> None, amount |-> 0,
         to |-> None, intent |-> None, tx |-> None]

Free == [intent |-> None, to |-> None, state |-> "free"]

Init ==
    /\ refunds = [r \in Refunds |-> Absent]
    /\ madeFor = [i \in Intents |-> None]
    /\ listed = {}
    /\ chain = [n \in Hashes |-> Free]
    /\ h = [p \in Creators \cup Reviewers |-> Idle]
    /\ raced = {}
    /\ Order!Init

Rest(p) == h' = [h EXCEPT ![p] = Idle]

-----------------------------------------------------------------------------
(* POST /business/refund-requests and POST /pos/refund-requests *)

\* Between the read and the write of a creation.
Creating(p, y) == h[p].at = "insert" /\ h[p].payment = y

BeginCreation(y) ==
    raced' = IF \E q \in Creators : Creating(q, y) THEN raced \cup {y} ELSE raced

\* Mutant of CreateRead: an approved refund is no longer open.
CreateReadPending(p, y, a, d) ==
    /\ h[p].at = "idle"
    /\ ~\E r \in Refunds : refunds[r].payment = y /\ refunds[r].status = "pending"
    /\ h' = [h EXCEPT ![p] = [Idle EXCEPT !.at = "insert", !.payment = y,
                                          !.amount = a, !.to = d]]
    /\ BeginCreation(y)
    /\ UNCHANGED <<refunds, madeFor, listed, state, doubted, chain>>

\* The amount is what was received, or less on request, the destination what the
\* request says; an open refund of the payment is a conflict.
CreateRead(p, y, a, d) ==
    /\ h[p].at = "idle"
    /\ ~\E r \in Refunds : refunds[r].payment = y /\ refunds[r].status \in Open
    /\ h' = [h EXCEPT ![p] = [Idle EXCEPT !.at = "insert", !.payment = y,
                                          !.amount = a, !.to = d]]
    /\ BeginCreation(y)
    /\ UNCHANGED <<refunds, madeFor, listed, state, doubted, chain>>

CreateInsert(p, r) ==
    /\ h[p].at = "insert"
    /\ refunds[r].status = "none"
    /\ refunds' = [refunds EXCEPT ![r] = [Absent EXCEPT !.status = "pending",
                     !.payment = h[p].payment, !.amount = h[p].amount,
                     !.to = h[p].to]]
    /\ Rest(p)
    /\ UNCHANGED <<madeFor, listed, state, doubted, chain, raced>>

-----------------------------------------------------------------------------
(* PATCH /business/refund-requests/:id *)

\* Between the read and the last write of a review.
Reviewing(p, r) == h[p].at \in {"approve", "link", "reject"} /\ h[p].refund = r

\* canApproveRefund and canRejectRefund, on the row read.
ReviewRead(p, r, action) ==
    /\ h[p].at = "idle"
    /\ refunds[r].status = "pending"
    /\ h' = [h EXCEPT ![p] = [Idle EXCEPT !.at = action, !.refund = r]]
    /\ raced' = IF \E q \in Reviewers : Reviewing(q, r) THEN raced \cup {r} ELSE raced
    /\ UNCHANGED <<refunds, madeFor, listed, state, doubted, chain>>

\* Mutant of ApproveInsert: the wallet is shown the intent at once.
ApproveInsertShown(p, i) ==
    /\ h[p].at = "approve"
    /\ madeFor[i] = None
    /\ madeFor' = [madeFor EXCEPT ![i] = h[p].refund]
    /\ listed' = listed \cup {i}
    /\ h' = [h EXCEPT ![p].at = "link", ![p].intent = i]
    /\ UNCHANGED <<refunds, state, doubted, chain, raced>>

ApproveInsert(p, i) ==
    /\ h[p].at = "approve"
    /\ madeFor[i] = None
    /\ madeFor' = [madeFor EXCEPT ![i] = h[p].refund]
    /\ h' = [h EXCEPT ![p].at = "link", ![p].intent = i]
    /\ UNCHANGED <<refunds, listed, state, doubted, chain, raced>>

\* Mutant of ApproveWrite: the status is that of RefundStateMachine.
ApproveAsMachine(p) ==
    /\ h[p].at = "link"
    /\ refunds' = [refunds EXCEPT ![h[p].refund].status = "approved",
                                  ![h[p].refund].intent = h[p].intent]
    /\ Rest(p)
    /\ UNCHANGED <<madeFor, listed, state, doubted, chain, raced>>

\* The update names the id alone.
ApproveWrite(p) ==
    LET r == h[p].refund
    IN  /\ h[p].at = "link"
        /\ refunds' = [refunds EXCEPT ![r].status = "approved_pending_signature",
                                      ![r].intent = h[p].intent]
        /\ listed' = listed \cup {h[p].intent}
        /\ Rest(p)
        /\ UNCHANGED <<madeFor, state, doubted, chain, raced>>

RejectWrite(p) ==
    /\ h[p].at = "reject"
    /\ refunds' = [refunds EXCEPT ![h[p].refund].status = "rejected"]
    /\ Rest(p)
    /\ UNCHANGED <<madeFor, listed, state, doubted, chain, raced>>

\* mark_executed, on the row read.
ExecuteRead(p, r) ==
    /\ h[p].at = "idle"
    /\ refunds[r].status = "approved_pending_signature"
    /\ h' = [h EXCEPT ![p] = [Idle EXCEPT !.at = "verify", !.refund = r,
                               !.intent = refunds[r].intent]]
    /\ UNCHANGED <<refunds, madeFor, listed, state, doubted, chain, raced>>

\* The linked intent may be confirmed with hash n: see SettledRowsAreTrue of
\* TxIntent.
ConfirmedWith(i, n) ==
    /\ state[i] = "confirmed"
    /\ chain[n].intent = i
    /\ i \in doubted \/ chain[n].state = "success"

\* verifyTransaction: a transaction of the wallet to the destination, whatever
\* it was sent for and however much it moved.
WentTo(n, d) == chain[n].state = "success" /\ chain[n].to = d

Verify(p, n, ok) ==
    /\ h[p].at = "verify"
    /\ h' = [h EXCEPT ![p] =
               IF ok THEN [Idle EXCEPT !.at = "execute", !.refund = h[p].refund,
                                       !.tx = n]
                     ELSE Idle]
    /\ UNCHANGED <<refunds, madeFor, listed, state, doubted, chain, raced>>

\* Mutant of ExecuteVerify: a transaction in the pool passes.
ExecuteVerifyEarly(p, n) ==
    Verify(p, n, chain[n].to = refunds[h[p].refund].to)

\* Any hash n the request names.
ExecuteVerify(p, n) ==
    Verify(p, n, \/ ConfirmedWith(h[p].intent, n)
                 \/ WentTo(n, refunds[h[p].refund].to))

\* The update names the id alone.
ExecuteWrite(p) ==
    /\ h[p].at = "execute"
    /\ refunds' = [refunds EXCEPT ![h[p].refund].status = "executed",
                                  ![h[p].refund].tx = h[p].tx]
    /\ Rest(p)
    /\ UNCHANGED <<madeFor, listed, state, doubted, chain, raced>>

Die(p) ==
    /\ MayDie
    /\ h[p].at # "idle"
    /\ Rest(p)
    /\ UNCHANGED <<refunds, madeFor, listed, state, doubted, chain, raced>>

-----------------------------------------------------------------------------
(* The wallet and the chain.  The wallet pays an intent it found in a refund
   that it read as approved. *)

Pay(i) ==
    /\ i \in listed
    /\ \E n \in Hashes :
         /\ chain[n].state = "free"
         /\ chain' = [chain EXCEPT ![n] = [intent |-> i, state |-> "pool",
                                           to |-> refunds[madeFor[i]].to]]
         /\ Order!Pay(i, n)
    /\ UNCHANGED <<refunds, madeFor, listed, doubted, h, raced>>

\* The owner has sent the token from the same wallet for another reason.
PayOther(n, d) ==
    /\ chain[n].state = "free"
    /\ chain' = [chain EXCEPT ![n] = [intent |-> None, to |-> d, state |-> "success"]]
    /\ UNCHANGED <<refunds, madeFor, listed, state, doubted, h, raced>>

\* A transaction succeeds; or it reverts and its intent may be paid again.
Mine(n) ==
    /\ chain[n].state = "pool"
    /\ \/ /\ chain' = [chain EXCEPT ![n].state = "success"]
          /\ UNCHANGED state
       \/ /\ chain' = [chain EXCEPT ![n].state = "reverted"]
          /\ Order!Void(chain[n].intent)
    /\ UNCHANGED <<refunds, madeFor, listed, doubted, h, raced>>

\* The intent is settled.
Settle(i) ==
    /\ madeFor[i] # None
    /\ UNCHANGED <<refunds, madeFor, listed, doubted, chain, h, raced>>
    /\ \/ /\ i \in doubted \/ \A n \in paid[i] : chain[n].state = "success"
          /\ Order!Confirm(i)
       \/ Order!Expire(i)

\* The code loses track of the intent's transaction.
Lose(i) ==
    /\ i \in listed
    /\ doubted' = doubted \cup {i}
    /\ UNCHANGED <<refunds, madeFor, listed, state, chain, h, raced>>

-----------------------------------------------------------------------------

Next ==
    \/ \E p \in Creators :
         \/ \E y \in Payments, a \in 1 .. Collected, d \in Addresses :
              CreateRead(p, y, a, d)
         \/ \E r \in Refunds : CreateInsert(p, r)
         \/ Die(p)
    \/ \E p \in Reviewers :
         \/ \E r \in Refunds : \/ ReviewRead(p, r, "approve")
                               \/ ReviewRead(p, r, "reject")
                               \/ ExecuteRead(p, r)
         \/ \E i \in Intents : ApproveInsert(p, i)
         \/ ApproveWrite(p) \/ RejectWrite(p) \/ Die(p)
         \/ \E n \in Hashes : ExecuteVerify(p, n)
         \/ ExecuteWrite(p)
    \/ \E i \in Intents : Pay(i) \/ Settle(i) \/ Lose(i)
    \/ \E n \in Hashes : Mine(n) \/ \E d \in Addresses : PayOther(n, d)

Spec == Init /\ [][Next]_vars

-----------------------------------------------------------------------------
(* Properties *)

Row == [status : Status, payment : Payments \cup {None},
        amount : 0 .. Collected, to : Addresses \cup {None},
        intent : Intents \cup {None}, tx : Hashes \cup {None}]

Memory == [at : Steps, refund : Refunds \cup {None},
           payment : Payments \cup {None}, amount : 0 .. Collected,
           to : Addresses \cup {None},
           intent : Intents \cup {None}, tx : Hashes \cup {None}]

Slot == [intent : Intents \cup {None}, to : Addresses \cup {None},
         state : {"free", "pool", "success", "reverted"}]

\* What a request has at hand at each step.
AtHand(m) ==
    /\ m.at \in {"approve", "link", "reject", "verify", "execute"} =>
         m.refund \in Refunds
    /\ m.at \in {"link", "verify"} => m.intent \in Intents
    /\ m.at = "execute" => m.tx \in Hashes

TypeOK ==
    /\ refunds \in [Refunds -> Row]
    /\ madeFor \in [Intents -> Refunds \cup {None}]
    /\ listed \subseteq Intents
    /\ state \in [Intents -> {"open", "confirmed", "expired"}]
    /\ doubted \subseteq Intents
    /\ chain \in [Hashes -> Slot]
    /\ h \in [Creators \cup Reviewers -> Memory]
    /\ \A p \in Creators \cup Reviewers : AtHand(h[p])
    /\ \A r \in Refunds : refunds[r].status = "approved_pending_signature" =>
                             refunds[r].intent \in Intents
    /\ raced \subseteq Refunds \cup Payments

\* The transactions that moved money for a refund.
Moved(r) == { n \in Hashes : /\ chain[n].state = "success"
                             /\ chain[n].intent # None
                             /\ madeFor[chain[n].intent] = r }

\* The code lost track of an intent of the refund.
Doubts(r) == \E i \in doubted : madeFor[i] = r

\* A refund moves money at most once, however often its approval was tried, and
\* never once it was rejected, unless two of its reviews overlapped
\* (refundRequests.ts:367) or its intent was lost track of (see TxIntent).
RefundPaidOnce ==
    \A r \in Refunds \ raced :
      /\ ~Doubts(r) => Cardinality(Moved(r)) <= 1
      /\ refunds[r].status = "rejected" => Moved(r) = {}

\* An executed refund names a transaction of the wallet to the destination of
\* the refund, and one that succeeded unless an intent of it was lost track of;
\* the hash is checked two requests and several seconds before it is written.
\* That it is the transaction of this refund the code does not check: see
\* ExecutedByItsOwn.
ExecutedIsPaid ==
    \A r \in Refunds : refunds[r].status = "executed" =>
      LET n == refunds[r].tx
      IN  chain[n].to = refunds[r].to /\ (chain[n].state = "success" \/ Doubts(r))

\* An executed refund was paid.  The code does not keep it: any transaction of
\* the wallet to the same address passes, that of another refund too.
ExecutedByItsOwn ==
    \A r \in Refunds : refunds[r].status = "executed" => Moved(r) # {}

\* A payment has one open refund ("a refund request is already pending for this
\* payment"), unless two creations for it overlapped (refundRequests.ts:199), or
\* an overlapping review opened one again.
OneOpenRefund ==
    \A r, s \in Refunds \ raced :
      /\ refunds[r].payment \notin raced
      /\ refunds[r].status \in Open /\ refunds[s].status \in Open
      /\ refunds[r].payment = refunds[s].payment
      => r = s

\* pos.ts:360: a payment is not refunded for more than it received.
RefundedWithinCollected ==
    \A y \in Payments :
      MapThenSumSet(LAMBDA r : refunds[r].amount,
                    { r \in Refunds : refunds[r].payment = y /\ Moved(r) # {} })
        <= Collected
=============================================================================
