---------------------------- MODULE RefundProofs ----------------------------
(* Proofs about RefundRequests, for any number of concurrent requests. *)
EXTENDS RefundRequests, FiniteSetTheorems, TLAPS

LEMMA IdleType == Idle \in Memory /\ AtHand(Idle)
  BY RefundAssumption DEF Idle, Memory, Steps, AtHand

LEMMA InitType == Init => TypeOK
<1> SUFFICES ASSUME Init PROVE TypeOK
  OBVIOUS
<1>1. Absent \in Row /\ Absent.status = "none"
  BY RefundAssumption DEF Absent, Row, Status
<1>2. Free \in Slot
  BY DEF Free, Slot
<1> QED
  BY <1>1, <1>2, IdleType DEF Init, TypeOK, Order!Init

\* Replacing what one request remembers.
LEMMA Remember ==
  ASSUME TypeOK, NEW p \in Creators \cup Reviewers, NEW m \in Memory, AtHand(m),
         h' = [h EXCEPT ![p] = m]
  PROVE  /\ h' \in [Creators \cup Reviewers -> Memory]
         /\ \A q \in Creators \cup Reviewers : AtHand(h'[q])
  BY DEF TypeOK

LEMMA Resting ==
  ASSUME TypeOK, NEW p \in Creators \cup Reviewers, Rest(p)
  PROVE  /\ h' \in [Creators \cup Reviewers -> Memory]
         /\ \A q \in Creators \cup Reviewers : AtHand(h'[q])
  BY IdleType, Remember DEF Rest

\* Replacing a row.
LEMMA Replace ==
  ASSUME TypeOK, NEW r \in Refunds, NEW row \in Row,
         row.status = "approved_pending_signature" => row.intent \in Intents,
         refunds' = [refunds EXCEPT ![r] = row]
  PROVE  /\ refunds' \in [Refunds -> Row]
         /\ \A s \in Refunds : refunds'[s].status = "approved_pending_signature" =>
                                 refunds'[s].intent \in Intents
  BY DEF TypeOK

\* Replacing a transaction.
LEMMA ChainType ==
  ASSUME TypeOK, NEW n \in Hashes, NEW s \in Slot, chain' = [chain EXCEPT ![n] = s]
  PROVE  chain' \in [Hashes -> Slot]
  BY DEF TypeOK

\* An intent the wallet is shown, or is about to be, was inserted for a refund.
Shown ==
    /\ \A p \in Reviewers : h[p].at = "link" => madeFor[h[p].intent] = h[p].refund
    /\ \A i \in listed : madeFor[i] \in Refunds

-----------------------------------------------------------------------------
\* Type correctness of the tables, the chain and what a request remembers at
\* each of its steps.
LEMMA StepType == ASSUME TypeOK, Shown, [Next]_vars PROVE TypeOK'
<1>1. ASSUME NEW p \in Creators, NEW y \in Payments, NEW a \in 1 .. Collected,
             NEW d \in Addresses, CreateRead(p, y, a, d)
      PROVE  TypeOK'
  <2> DEFINE m == [Idle EXCEPT !.at = "insert", !.payment = y, !.amount = a, !.to = d]
  <2>0. a \in 0 .. Collected
    BY RefundAssumption
  <2>1. m \in Memory /\ AtHand(m)
    BY <2>0, IdleType DEF Memory, Steps, AtHand
  <2>2. h' = [h EXCEPT ![p] = m]
    BY <1>1 DEF CreateRead
  <2> HIDE DEF m
  <2> QED
    BY <1>1, <2>1, <2>2, Remember DEF TypeOK, CreateRead, BeginCreation
<1>2. ASSUME NEW p \in Creators, NEW r \in Refunds, CreateInsert(p, r)
      PROVE  TypeOK'
  <2> DEFINE row == [Absent EXCEPT !.status = "pending",
                       !.payment = h[p].payment, !.amount = h[p].amount, !.to = h[p].to]
  <2>1. row \in Row /\ row.status = "pending"
    BY RefundAssumption DEF Absent, Row, Status, TypeOK, Memory
  <2>2. refunds' = [refunds EXCEPT ![r] = row]
    BY <1>2 DEF CreateInsert
  <2> HIDE DEF row
  <2>3. Rest(p)
    BY <1>2 DEF CreateInsert
  <2> QED
    BY <1>2, <2>1, <2>2, <2>3, Replace, Resting DEF TypeOK, CreateInsert
<1>3. ASSUME NEW p \in Creators \cup Reviewers, Die(p) PROVE TypeOK'
  BY <1>3, Resting DEF TypeOK, Die
<1>4. ASSUME NEW p \in Reviewers, NEW r \in Refunds, NEW c \in {"approve", "reject"},
             ReviewRead(p, r, c)
      PROVE  TypeOK'
  <2> DEFINE m == [Idle EXCEPT !.at = c, !.refund = r]
  <2>1. m \in Memory /\ AtHand(m)
    BY IdleType, RefundAssumption DEF Memory, Steps, AtHand
  <2>2. h' = [h EXCEPT ![p] = m]
    BY <1>4 DEF ReviewRead
  <2> HIDE DEF m
  <2> QED
    BY <1>4, <2>1, <2>2, Remember DEF TypeOK, ReviewRead
<1>5. ASSUME NEW p \in Reviewers, NEW r \in Refunds, ExecuteRead(p, r)
      PROVE  TypeOK'
  <2> DEFINE m == [Idle EXCEPT !.at = "verify", !.refund = r,
                               !.intent = refunds[r].intent]
  <2>1. refunds[r].intent \in Intents
    BY <1>5 DEF ExecuteRead, TypeOK
  <2>2. m \in Memory /\ AtHand(m)
    BY <2>1, IdleType, RefundAssumption DEF Memory, Steps, AtHand
  <2>3. h' = [h EXCEPT ![p] = m]
    BY <1>5 DEF ExecuteRead
  <2> HIDE DEF m
  <2> QED
    BY <1>5, <2>2, <2>3, Remember DEF TypeOK, ExecuteRead
<1>6. ASSUME NEW p \in Reviewers, NEW i \in Intents, ApproveInsert(p, i)
      PROVE  TypeOK'
  <2> DEFINE m == [h[p] EXCEPT !.at = "link", !.intent = i]
  <2>1. h[p] \in Memory /\ h[p].refund \in Refunds
    BY <1>6 DEF TypeOK, AtHand, ApproveInsert
  <2>2. m \in Memory /\ AtHand(m)
    BY <2>1 DEF Memory, Steps, AtHand
  <2>3. h' = [h EXCEPT ![p] = m]
    BY <1>6, <2>1 DEF ApproveInsert, TypeOK
  <2> HIDE DEF m
  <2> QED
    BY <1>6, <2>1, <2>2, <2>3, Remember DEF TypeOK, ApproveInsert
<1>7. ASSUME NEW p \in Reviewers, ApproveWrite(p) PROVE TypeOK'
  <2> DEFINE r == h[p].refund
             row == [refunds[r] EXCEPT !.status = "approved_pending_signature",
                                       !.intent = h[p].intent]
  <2>1. r \in Refunds /\ h[p].intent \in Intents /\ refunds[r] \in Row
    BY <1>7 DEF TypeOK, AtHand, ApproveWrite
  <2>2. row \in Row /\ row.intent \in Intents
    BY <2>1 DEF Row, Status
  <2>3. refunds' = [refunds EXCEPT ![r] = row] /\ Rest(p)
    BY <1>7, <2>1 DEF ApproveWrite, TypeOK
  <2> HIDE DEF r, row
  <2> QED
    BY <1>7, <2>1, <2>2, <2>3, Replace, Resting DEF TypeOK, ApproveWrite
<1>8. ASSUME NEW p \in Reviewers, RejectWrite(p) PROVE TypeOK'
  <2> DEFINE r == h[p].refund
             row == [refunds[r] EXCEPT !.status = "rejected"]
  <2>1. r \in Refunds /\ refunds[r] \in Row
    BY <1>8 DEF TypeOK, AtHand, RejectWrite
  <2>2. row \in Row /\ row.status = "rejected"
    BY <2>1 DEF Row, Status
  <2>3. refunds' = [refunds EXCEPT ![r] = row] /\ Rest(p)
    BY <1>8, <2>1 DEF RejectWrite, TypeOK
  <2> HIDE DEF r, row
  <2> QED
    BY <1>8, <2>1, <2>2, <2>3, Replace, Resting DEF TypeOK, RejectWrite
<1>9. ASSUME NEW p \in Reviewers, ExecuteWrite(p) PROVE TypeOK'
  <2> DEFINE r == h[p].refund
             row == [refunds[r] EXCEPT !.status = "executed", !.tx = h[p].tx]
  <2>1. r \in Refunds /\ h[p].tx \in Hashes /\ refunds[r] \in Row
    BY <1>9 DEF TypeOK, AtHand, ExecuteWrite
  <2>2. row \in Row /\ row.status = "executed"
    BY <2>1 DEF Row, Status
  <2>3. Rest(p) /\ refunds' = [refunds EXCEPT ![r] = row]
    BY <1>9, <2>1 DEF ExecuteWrite, TypeOK
  <2> HIDE DEF r, row
  <2> QED
    BY <1>9, <2>1, <2>2, <2>3, Replace, Resting DEF TypeOK, ExecuteWrite
<1>10. ASSUME NEW p \in Reviewers, NEW n \in Hashes, ExecuteVerify(p, n)
       PROVE  TypeOK'
  <2> DEFINE m == [Idle EXCEPT !.at = "execute", !.refund = h[p].refund, !.tx = n]
  <2>1. h[p].refund \in Refunds
    BY <1>10 DEF ExecuteVerify, Verify, TypeOK, AtHand
  <2>2. m \in Memory /\ AtHand(m)
    BY <2>1, IdleType DEF Memory, Steps, AtHand
  <2>3. h' = [h EXCEPT ![p] = m] \/ h' = [h EXCEPT ![p] = Idle]
    BY <1>10 DEF ExecuteVerify, Verify
  <2> HIDE DEF m
  <2> QED
    BY <1>10, <2>2, <2>3, IdleType, Remember DEF TypeOK, ExecuteVerify, Verify
<1>11. ASSUME NEW i \in Intents, Pay(i) PROVE TypeOK'
  <2>1. PICK n \in Hashes :
          chain' = [chain EXCEPT ![n] = [intent |-> i, state |-> "pool",
                                         to |-> refunds[madeFor[i]].to]]
    BY <1>11 DEF Pay
  <2> DEFINE s == [intent |-> i, state |-> "pool", to |-> refunds[madeFor[i]].to]
  <2>2. s \in Slot
    BY <1>11 DEF Slot, TypeOK, Row, Pay, Shown
  <2>3. chain' = [chain EXCEPT ![n] = s]
    BY <2>1
  <2> HIDE DEF s
  <2>4. chain' \in [Hashes -> Slot]
    BY <2>2, <2>3, ChainType
  <2> QED
    BY <1>11, <2>4 DEF TypeOK, Pay, Order!Pay
<1>12. ASSUME NEW n \in Hashes, Mine(n) PROVE TypeOK'
  <2>1. PICK s \in {"success", "reverted"} : chain' = [chain EXCEPT ![n].state = s]
    BY <1>12 DEF Mine
  <2>2. chain' \in [Hashes -> Slot]
    BY <2>1 DEF TypeOK, Slot
  <2> QED
    BY <1>12, <2>2 DEF TypeOK, Mine, Order!Void
<1>13. ASSUME NEW n \in Hashes, NEW d \in Addresses, PayOther(n, d) PROVE TypeOK'
  BY <1>13 DEF TypeOK, PayOther, Slot
<1>14. ASSUME NEW i \in Intents, Settle(i) \/ Lose(i) PROVE TypeOK'
  BY <1>14 DEF TypeOK, Settle, Lose, Order!Confirm, Order!Expire
<1>15. CASE UNCHANGED vars
  BY <1>15 DEF TypeOK, vars
<1> QED
  BY <1>1, <1>2, <1>3, <1>4, <1>5, <1>6, <1>7, <1>8, <1>9, <1>10, <1>11,
     <1>12, <1>13, <1>14, <1>15 DEF Next

-----------------------------------------------------------------------------
(* What a step does to the memory of a request, to the rows and to the chain. *)

\* A request that writes its own memory leaves that of the others.
LEMMA OthersRemember ==
  ASSUME TypeOK, NEW p \in Creators \cup Reviewers, NEW m, h' = [h EXCEPT ![p] = m]
  PROVE  /\ h'[p] = m
         /\ \A q \in Creators \cup Reviewers : q # p => h'[q] = h[q]
  BY DEF TypeOK

\* A request at rest neither creates nor reviews.
LEMMA AtRest ==
  ASSUME TypeOK, NEW p \in Creators \cup Reviewers, Rest(p)
  PROVE  /\ h'[p].at = "idle"
         /\ \A q \in Creators \cup Reviewers : q # p => h'[q] = h[q]
<1>1. Idle.at = "idle"
  BY DEF Idle
<1> QED
  BY <1>1 DEF Rest, TypeOK

\* A review keeps what it remembers, rests, or goes on by a step of its own.
LEMMA ReachStep ==
  ASSUME TypeOK, [Next]_vars, NEW p \in Reviewers
  PROVE  \/ h'[p] = h[p] \/ h'[p].at = "idle"
         \/ \E r \in Refunds : \/ ReviewRead(p, r, "approve")
                               \/ ReviewRead(p, r, "reject")
                               \/ ExecuteRead(p, r)
         \/ \E i \in Intents : ApproveInsert(p, i)
         \/ \E n \in Hashes : ExecuteVerify(p, n)
<1> DEFINE Goal == \/ h'[p] = h[p] \/ h'[p].at = "idle"
                   \/ \E r \in Refunds : \/ ReviewRead(p, r, "approve")
                                         \/ ReviewRead(p, r, "reject")
                                         \/ ExecuteRead(p, r)
                   \/ \E i \in Intents : ApproveInsert(p, i)
                   \/ \E n \in Hashes : ExecuteVerify(p, n)
<1>1. ASSUME NEW q \in Creators \cup Reviewers, Rest(q) PROVE Goal
  BY <1>1, AtRest
<1>2. ASSUME NEW q \in Creators \cup Reviewers, q # p, NEW m, h' = [h EXCEPT ![q] = m]
      PROVE  Goal
  BY <1>2, OthersRemember
<1>3. ASSUME NEW q \in Creators, NEW y \in Payments, NEW a \in 1 .. Collected,
             NEW d \in Addresses, CreateRead(q, y, a, d)
      PROVE  Goal
  BY <1>2, <1>3, RefundAssumption DEF CreateRead
<1>4. ASSUME NEW q \in Reviewers, NEW r \in Refunds, NEW c \in {"approve", "reject"},
             ReviewRead(q, r, c)
      PROVE  Goal
  <2>1. CASE q = p
    BY <1>4, <2>1
  <2>2. CASE q # p
    BY <1>2, <1>4, <2>2 DEF ReviewRead
  <2> QED
    BY <2>1, <2>2
<1>5. ASSUME NEW q \in Reviewers, NEW r \in Refunds, ExecuteRead(q, r) PROVE Goal
  <2>1. CASE q = p
    BY <1>5, <2>1
  <2>2. CASE q # p
    BY <1>2, <1>5, <2>2 DEF ExecuteRead
  <2> QED
    BY <2>1, <2>2
<1>6. ASSUME NEW q \in Reviewers, NEW i \in Intents, ApproveInsert(q, i) PROVE Goal
  <2>1. CASE q = p
    BY <1>6, <2>1
  <2>2. CASE q # p
    BY <1>6, <2>2 DEF ApproveInsert, TypeOK
  <2> QED
    BY <2>1, <2>2
<1>7. ASSUME NEW q \in Reviewers, NEW n \in Hashes, ExecuteVerify(q, n) PROVE Goal
  <2>1. CASE q = p
    BY <1>7, <2>1
  <2>2. CASE q # p
    BY <1>2, <1>7, <2>2 DEF ExecuteVerify, Verify
  <2> QED
    BY <2>1, <2>2
<1>8. ASSUME UNCHANGED h PROVE Goal
  BY <1>8
<1> HIDE DEF Goal
<1>9. ASSUME NEW q \in Reviewers, ApproveWrite(q) \/ RejectWrite(q) \/ ExecuteWrite(q)
      PROVE  Goal
  BY <1>1, <1>9 DEF ApproveWrite, RejectWrite, ExecuteWrite
<1>10. ASSUME NEW q \in Creators \cup Reviewers, Die(q) PROVE Goal
  BY <1>1, <1>10 DEF Die
<1>11. ASSUME NEW q \in Creators, NEW r \in Refunds, CreateInsert(q, r) PROVE Goal
  BY <1>1, <1>11 DEF CreateInsert
<1>12. ASSUME NEW i \in Intents, Pay(i) \/ Settle(i) \/ Lose(i) PROVE Goal
  BY <1>8, <1>12 DEF Pay, Settle, Lose
<1>13. ASSUME NEW n \in Hashes, NEW d, Mine(n) \/ PayOther(n, d) PROVE Goal
  BY <1>8, <1>13 DEF Mine, PayOther
<1>14. ASSUME NEW q \in Reviewers, NEW r \in Refunds,
              ReviewRead(q, r, "approve") \/ ReviewRead(q, r, "reject")
       PROVE  Goal
  BY <1>4, <1>14
<1>15. Goal
  BY <1>3, <1>5, <1>6, <1>7, <1>8, <1>9, <1>10, <1>11, <1>12, <1>13, <1>14
     DEF Next, vars
<1> QED
  BY <1>15 DEF Goal

\* No step forgets an overlap, an intent shown to the wallet or one lost track of.
LEMMA Grow ==
  ASSUME [Next]_vars
  PROVE  raced \subseteq raced' /\ listed \subseteq listed' /\ doubted \subseteq doubted'
  BY DEF Next, vars, CreateRead, BeginCreation, CreateInsert, Die, ReviewRead,
     ExecuteRead, ApproveInsert, ApproveWrite, RejectWrite, ExecuteVerify, Verify,
     ExecuteWrite, Pay, PayOther, Mine, Settle, Lose

\* No step changes the refund an intent was inserted for.
LEMMA MadeForStays ==
  ASSUME TypeOK, [Next]_vars, NEW i \in Intents, madeFor[i] # None
  PROVE  madeFor'[i] = madeFor[i]
<1>1. ASSUME NEW p \in Reviewers, NEW j \in Intents, ApproveInsert(p, j)
      PROVE  madeFor'[i] = madeFor[i]
  BY <1>1 DEF ApproveInsert, TypeOK
<1>2. CASE UNCHANGED madeFor
  BY <1>2
<1> QED
  BY <1>1, <1>2 DEF Next, vars, CreateRead, CreateInsert, Die, ReviewRead,
     ExecuteRead, ApproveWrite, RejectWrite, ExecuteVerify, Verify, ExecuteWrite,
     Pay, PayOther, Mine, Settle, Lose

\* A row stays, with its destination.
LEMMA RowsStay ==
  ASSUME TypeOK, [Next]_vars, NEW r \in Refunds, refunds[r].status # "none"
  PROVE  refunds'[r].status # "none" /\ refunds'[r].to = refunds[r].to
<1> DEFINE Goal == refunds'[r].status # "none" /\ refunds'[r].to = refunds[r].to
<1>1. ASSUME NEW p \in Creators, NEW q \in Refunds, CreateInsert(p, q) PROVE Goal
  BY <1>1 DEF CreateInsert, TypeOK
<1>2. ASSUME NEW p \in Reviewers, ApproveWrite(p) PROVE Goal
  BY <1>2 DEF ApproveWrite, TypeOK, Row
<1>3. ASSUME NEW p \in Reviewers, RejectWrite(p) PROVE Goal
  BY <1>3 DEF RejectWrite, TypeOK, Row
<1>4. ASSUME NEW p \in Reviewers, ExecuteWrite(p) PROVE Goal
  BY <1>4 DEF ExecuteWrite, TypeOK, Row
<1>5. CASE UNCHANGED refunds
  BY <1>5
<1> QED
  BY <1>1, <1>2, <1>3, <1>4, <1>5 DEF Next, vars, CreateRead, Die, ReviewRead,
     ExecuteRead, ApproveInsert, ExecuteVerify, Verify, Pay, PayOther, Mine, Settle,
     Lose

\* A transaction keeps its destination and its intent, and its success.
LEMMA ChainStays ==
  ASSUME TypeOK, [Next]_vars, NEW n \in Hashes, chain[n].state # "free"
  PROVE  /\ chain'[n].state # "free"
         /\ chain'[n].to = chain[n].to /\ chain'[n].intent = chain[n].intent
         /\ chain[n].state = "success" => chain'[n].state = "success"
<1> DEFINE Goal == /\ chain'[n].state # "free"
                   /\ chain'[n].to = chain[n].to /\ chain'[n].intent = chain[n].intent
                   /\ chain[n].state = "success" => chain'[n].state = "success"
<1>1. ASSUME NEW i \in Intents, Pay(i) PROVE Goal
  BY <1>1 DEF Pay, TypeOK
<1>2. ASSUME NEW m \in Hashes, NEW d \in Addresses, PayOther(m, d) PROVE Goal
  BY <1>2 DEF PayOther, TypeOK
<1>3. ASSUME NEW m \in Hashes, Mine(m) PROVE Goal
  BY <1>3 DEF Mine, TypeOK, Slot
<1>4. CASE UNCHANGED chain
  BY <1>4
<1> QED
  BY <1>1, <1>2, <1>3, <1>4 DEF Next, vars, CreateRead, CreateInsert, Die,
     ReviewRead, ExecuteRead, ApproveInsert, ApproveWrite, RejectWrite, ExecuteVerify,
     Verify, ExecuteWrite, Settle, Lose

LEMMA StepShown == ASSUME TypeOK, Shown, [Next]_vars PROVE Shown'
<1>1. ASSUME NEW p \in Reviewers, h'[p].at = "link"
      PROVE  madeFor'[h'[p].intent] = h'[p].refund
  <2>1. CASE h'[p] = h[p]
    <3>1. h[p].intent \in Intents /\ h[p].refund \in Refunds
          /\ madeFor[h[p].intent] = h[p].refund
      BY <1>1, <2>1 DEF TypeOK, AtHand, Shown
    <3> QED
      BY <2>1, <3>1, MadeForStays, RefundAssumption
  <2>2. ASSUME NEW i \in Intents, ApproveInsert(p, i)
        PROVE  madeFor'[h'[p].intent] = h'[p].refund
    <3>1. h[p] \in Memory
      BY DEF TypeOK
    <3>2. h'[p] = [h[p] EXCEPT !.at = "link", !.intent = i]
      BY <2>2, <3>1 DEF ApproveInsert, TypeOK
    <3>3. h'[p].intent = i /\ h'[p].refund = h[p].refund
      BY <3>1, <3>2 DEF Memory
    <3> QED
      BY <2>2, <3>3 DEF ApproveInsert, TypeOK
  <2>3. ASSUME NEW c \in {"approve", "reject", "verify", "execute"}, NEW m,
               h' = [h EXCEPT ![p] = m], m.at = c
        PROVE  FALSE
    BY <1>1, <2>3 DEF TypeOK
  <2>4. ASSUME NEW r \in Refunds, NEW c \in {"approve", "reject"}, ReviewRead(p, r, c)
        PROVE  FALSE
    BY <2>3, <2>4 DEF ReviewRead, Idle
  <2>5. ASSUME NEW r \in Refunds, ExecuteRead(p, r) PROVE FALSE
    BY <2>3, <2>5 DEF ExecuteRead, Idle
  <2>6. ASSUME NEW n \in Hashes, ExecuteVerify(p, n) PROVE FALSE
    <3>1. CASE h' = [h EXCEPT ![p] = Idle]
      BY <1>1, <3>1 DEF TypeOK, Idle
    <3>2. CASE h' = [h EXCEPT ![p] = [Idle EXCEPT !.at = "execute",
                                        !.refund = h[p].refund, !.tx = n]]
      BY <2>3, <3>2 DEF Idle
    <3> QED
      BY <2>6, <3>1, <3>2 DEF ExecuteVerify, Verify
  <2>7. CASE h'[p].at = "idle"
    BY <1>1, <2>7
  <2> QED
    BY <2>1, <2>2, <2>4, <2>5, <2>6, <2>7, ReachStep
<1>2. ASSUME NEW i \in listed' PROVE madeFor'[i] \in Refunds
  <2>1. CASE i \in listed
    <3>1. i \in Intents /\ madeFor[i] \in Refunds
      BY <2>1 DEF TypeOK, Shown
    <3> QED
      BY <3>1, MadeForStays, RefundAssumption
  <2>2. ASSUME NEW p \in Reviewers, ApproveWrite(p), i \notin listed
        PROVE  madeFor'[i] \in Refunds
    <3>1. i = h[p].intent /\ h[p].at = "link" /\ madeFor' = madeFor
      BY <1>2, <2>2 DEF ApproveWrite
    <3> QED
      BY <3>1 DEF Shown, TypeOK, AtHand
  <2>3. CASE UNCHANGED listed
    BY <1>2, <2>1, <2>3
  <2> QED
    BY <2>1, <2>2, <2>3 DEF Next, vars, CreateRead, CreateInsert, Die, ReviewRead,
       ExecuteRead, ApproveInsert, RejectWrite, ExecuteVerify, Verify, ExecuteWrite,
       Pay, PayOther, Mine, Settle, Lose
<1> QED
  BY <1>1, <1>2 DEF Shown

LEMMA InitShown == Init => Shown
<1>1. Idle.at = "idle"
  BY DEF Idle
<1> QED
  BY <1>1 DEF Init, Shown

\* Every row, intent and request keeps its type.
THEOREM RefundTypes == Spec => []TypeOK
<1>1. TypeOK /\ Shown /\ [Next]_vars => TypeOK' /\ Shown'
  BY StepType, StepShown
<1> QED
  BY InitType, InitShown, <1>1, PTL DEF Spec

-----------------------------------------------------------------------------
(* What an executed refund names. *)

\* A transaction of the wallet to the refund's destination, and a success unless
\* an intent of the refund was lost track of.
Backed(r, n) ==
    /\ chain[n].state # "free"
    /\ chain[n].to = refunds[r].to
    /\ chain[n].state = "success" \/ Doubts(r)

\* What a review goes on from.
Placed(m) ==
    /\ m.at \in {"approve", "link", "reject", "verify", "execute"} =>
         refunds[m.refund].status # "none"
    /\ m.at = "verify" => m.intent \in listed /\ madeFor[m.intent] = m.refund
    /\ m.at = "execute" => /\ \E i \in listed : madeFor[i] = m.refund
                           /\ Backed(m.refund, m.tx)

RowOK(r) ==
    /\ refunds[r].status = "approved_pending_signature" =>
         refunds[r].intent \in listed /\ madeFor[refunds[r].intent] = r
    /\ refunds[r].status = "executed" =>
         refunds[r].tx \in Hashes /\ Backed(r, refunds[r].tx)

\* A transaction that pays an intent goes where its refund says.
SlotOK(n) ==
    chain[n].intent # None =>
      /\ chain[n].intent \in listed
      /\ chain[n].state # "free"
      /\ chain[n].to = refunds[madeFor[chain[n].intent]].to

Linked ==
    /\ \A p \in Reviewers : Placed(h[p])
    /\ \A r \in Refunds : RowOK(r)
    /\ \A n \in Hashes : SlotOK(n)
    /\ \A i \in listed : refunds[madeFor[i]].status # "none"

IInv == TypeOK /\ Shown /\ Linked

LEMMA BackedStays ==
  ASSUME IInv, [Next]_vars, NEW r \in Refunds, NEW n \in Hashes,
         refunds[r].status # "none", Backed(r, n)
  PROVE  Backed(r, n)'
<1>1. /\ chain'[n].state # "free" /\ chain'[n].to = chain[n].to
      /\ chain[n].state = "success" => chain'[n].state = "success"
  BY ChainStays DEF IInv, Backed
<1>2. refunds'[r].to = refunds[r].to
  BY RowsStay DEF IInv
<1>3. Doubts(r) => Doubts(r)'
  <2> SUFFICES ASSUME NEW i \in doubted, madeFor[i] = r
               PROVE  \E j \in doubted' : madeFor'[j] = r
    BY DEF Doubts
  <2>1. i \in doubted' /\ i \in Intents
    BY Grow DEF IInv, TypeOK
  <2>2. madeFor'[i] = r
    BY <2>1, MadeForStays, RefundAssumption DEF IInv
  <2> QED
    BY <2>1, <2>2
<1> QED
  BY <1>1, <1>2, <1>3 DEF Backed

\* What a request remembers stays true.
LEMMA PlacedStays ==
  ASSUME IInv, [Next]_vars, NEW m, AtHand(m), Placed(m)
  PROVE  Placed(m)'
<1>1. ASSUME m.at \in {"approve", "link", "reject", "verify", "execute"}
      PROVE  m.refund \in Refunds /\ refunds[m.refund].status # "none"
             /\ refunds'[m.refund].status # "none"
  <2>1. m.refund \in Refunds /\ refunds[m.refund].status # "none"
    BY <1>1 DEF AtHand, Placed
  <2> QED
    BY <2>1, RowsStay DEF IInv
<1>2. ASSUME NEW i \in listed, madeFor[i] = m.refund, m.refund \in Refunds
      PROVE  i \in listed' /\ madeFor'[i] = m.refund
  BY <1>2, Grow, MadeForStays, RefundAssumption DEF IInv, TypeOK
<1>3. m.at = "execute" => Backed(m.refund, m.tx)'
  BY <1>1, BackedStays DEF AtHand, Placed
<1> QED
  BY <1>1, <1>2, <1>3 DEF Placed, AtHand

LEMMA StepPlaced ==
  ASSUME IInv, [Next]_vars, NEW p \in Reviewers
  PROVE  Placed(h[p])'
<1>0. AtHand(h[p]) /\ Placed(h[p]) /\ h[p] \in Memory
  BY DEF IInv, TypeOK, Linked
<1>1. CASE h'[p] = h[p]
  <2>1. PICK m : m = h[p]
    OBVIOUS
  <2>2. Placed(m)'
    BY <1>0, <2>1, PlacedStays
  <2> QED
    BY <1>1, <2>1, <2>2 DEF Placed, Backed, Doubts
<1>2. CASE h'[p].at = "idle"
  BY <1>2 DEF Placed
<1>3. ASSUME NEW r \in Refunds, NEW c \in {"approve", "reject"}, ReviewRead(p, r, c)
      PROVE  Placed(h[p])'
  <2>1. h'[p] = [Idle EXCEPT !.at = c, !.refund = r]
    BY <1>3 DEF ReviewRead, IInv, TypeOK
  <2>2. h'[p].at = c /\ h'[p].refund = r
    BY <2>1 DEF Idle
  <2> QED
    BY <1>3, <2>2 DEF ReviewRead, Placed
<1>4. ASSUME NEW r \in Refunds, ExecuteRead(p, r) PROVE Placed(h[p])'
  <2>1. h'[p] = [Idle EXCEPT !.at = "verify", !.refund = r, !.intent = refunds[r].intent]
    BY <1>4 DEF ExecuteRead, IInv, TypeOK
  <2>2. h'[p].at = "verify" /\ h'[p].refund = r /\ h'[p].intent = refunds[r].intent
    BY <2>1 DEF Idle
  <2>3. RowOK(r)
    BY DEF IInv, Linked
  <2> QED
    BY <1>4, <2>2, <2>3 DEF ExecuteRead, Placed, RowOK
<1>5. ASSUME NEW i \in Intents, ApproveInsert(p, i) PROVE Placed(h[p])'
  <2>1. h'[p] = [h[p] EXCEPT !.at = "link", !.intent = i]
    BY <1>0, <1>5 DEF ApproveInsert, IInv, TypeOK
  <2>2. h'[p].at = "link" /\ h'[p].refund = h[p].refund
    BY <1>0, <2>1 DEF Memory
  <2> QED
    BY <1>0, <1>5, <2>2 DEF ApproveInsert, Placed
<1>6. ASSUME NEW n \in Hashes, ExecuteVerify(p, n), h'[p].at # "idle"
      PROVE  Placed(h[p])'
  <2> DEFINE r == h[p].refund
             i == h[p].intent
  <2>1. /\ h[p].at = "verify" /\ UNCHANGED <<refunds, madeFor, listed, doubted, chain>>
        /\ ConfirmedWith(i, n) \/ WentTo(n, refunds[r].to)
        /\ h'[p] = [Idle EXCEPT !.at = "execute", !.refund = r, !.tx = n]
    BY <1>6, AtRest DEF ExecuteVerify, Verify, IInv, TypeOK, Idle
  <2>2. h'[p].at = "execute" /\ h'[p].refund = r /\ h'[p].tx = n
    BY <2>1 DEF Idle
  <2>3. r \in Refunds /\ i \in listed /\ madeFor[i] = r /\ refunds[r].status # "none"
        /\ i # None
    BY <1>0, <2>1, RefundAssumption DEF Placed, AtHand
  <2>4. Backed(r, n)
    <3>1. CASE ConfirmedWith(i, n)
      <4>1. SlotOK(n)
        BY DEF IInv, Linked
      <4> QED
        BY <2>3, <3>1, <4>1 DEF SlotOK, ConfirmedWith, Backed, Doubts
    <3>2. CASE WentTo(n, refunds[r].to)
      BY <3>2 DEF WentTo, Backed
    <3> QED
      BY <2>1, <3>1, <3>2
  <2> HIDE DEF r, i
  <2> QED
    BY <2>1, <2>2, <2>3, <2>4 DEF Placed, Backed, Doubts
<1> QED
  BY <1>1, <1>2, <1>3, <1>4, <1>5, <1>6, ReachStep DEF IInv

\* A row is written by a review that holds what it says, or says what it did.
LEMMA ReachRow ==
  ASSUME TypeOK, [Next]_vars, NEW r \in Refunds
  PROVE  \/ refunds'[r].status \in {"none", "pending", "rejected"}
         \/ /\ refunds'[r].status = refunds[r].status
            /\ refunds'[r].intent = refunds[r].intent
            /\ refunds'[r].tx = refunds[r].tx
         \/ \E p \in Reviewers : /\ h[p].refund = r /\ ApproveWrite(p)
                                 /\ refunds'[r].intent = h[p].intent
                                 /\ refunds'[r].status = "approved_pending_signature"
         \/ \E p \in Reviewers : /\ h[p].refund = r /\ h[p].at = "execute"
                                 /\ refunds'[r].tx = h[p].tx
                                 /\ refunds'[r].status = "executed"
<1> DEFINE Goal ==
         \/ refunds'[r].status \in {"none", "pending", "rejected"}
         \/ /\ refunds'[r].status = refunds[r].status
            /\ refunds'[r].intent = refunds[r].intent
            /\ refunds'[r].tx = refunds[r].tx
         \/ \E p \in Reviewers : /\ h[p].refund = r /\ ApproveWrite(p)
                                 /\ refunds'[r].intent = h[p].intent
                                 /\ refunds'[r].status = "approved_pending_signature"
         \/ \E p \in Reviewers : /\ h[p].refund = r /\ h[p].at = "execute"
                                 /\ refunds'[r].tx = h[p].tx
                                 /\ refunds'[r].status = "executed"
<1>1. ASSUME NEW p \in Creators, NEW q \in Refunds, CreateInsert(p, q) PROVE Goal
  <2> DEFINE row == [Absent EXCEPT !.status = "pending", !.payment = h[p].payment,
                       !.amount = h[p].amount, !.to = h[p].to]
  <2>1. row.status = "pending"
    BY DEF Absent
  <2>2. refunds' = [refunds EXCEPT ![q] = row]
    BY <1>1 DEF CreateInsert
  <2> HIDE DEF row
  <2> QED
    BY <2>1, <2>2 DEF TypeOK
<1>2. ASSUME NEW p \in Reviewers, ApproveWrite(p) PROVE Goal
  <2>1. CASE h[p].refund = r
    <3>1. refunds'[r] = [refunds[r] EXCEPT !.status = "approved_pending_signature",
                                           !.intent = h[p].intent]
      BY <1>2, <2>1 DEF ApproveWrite, TypeOK
    <3>2. refunds[r] \in Row
      BY DEF TypeOK
    <3> QED
      BY <1>2, <2>1, <3>1, <3>2 DEF Row
  <2>2. CASE h[p].refund # r
    BY <1>2, <2>2 DEF ApproveWrite, TypeOK
  <2> QED
    BY <2>1, <2>2
<1>3. ASSUME NEW p \in Reviewers, RejectWrite(p) PROVE Goal
  BY <1>3 DEF RejectWrite, TypeOK, Row
<1>4. ASSUME NEW p \in Reviewers, ExecuteWrite(p) PROVE Goal
  BY <1>4 DEF ExecuteWrite, TypeOK, Row
<1>5. CASE UNCHANGED refunds
  BY <1>5
<1> QED
  BY <1>1, <1>2, <1>3, <1>4, <1>5 DEF Next, vars, CreateRead, Die, ReviewRead,
     ExecuteRead, ApproveInsert, ExecuteVerify, Verify, Pay, PayOther, Mine, Settle,
     Lose

LEMMA StepRow ==
  ASSUME IInv, [Next]_vars, NEW r \in Refunds
  PROVE  RowOK(r)'
<1>0. RowOK(r) /\ \A p \in Reviewers : Placed(h[p]) /\ AtHand(h[p])
  BY DEF IInv, Linked, TypeOK
<1>1. CASE refunds'[r].status \in {"none", "pending", "rejected"}
  BY <1>1 DEF RowOK
<1>2. CASE /\ refunds'[r].status = refunds[r].status
           /\ refunds'[r].intent = refunds[r].intent
           /\ refunds'[r].tx = refunds[r].tx
  <2>1. refunds[r].status = "approved_pending_signature" =>
          refunds[r].intent \in listed' /\ madeFor'[refunds[r].intent] = r
    BY <1>0, Grow, MadeForStays, RefundAssumption DEF IInv, TypeOK, RowOK
  <2>2. ASSUME refunds[r].status = "executed"
        PROVE  refunds[r].tx \in Hashes /\ Backed(r, refunds[r].tx)'
    <3>1. PICK n \in Hashes : n = refunds[r].tx
      BY <1>0, <2>2 DEF RowOK
    <3>2. Backed(r, n)'
      BY <1>0, <2>2, <3>1, BackedStays DEF RowOK
    <3> QED
      BY <1>2, <3>1, <3>2 DEF Backed, Doubts
  <2> QED
    BY <1>2, <2>1, <2>2 DEF RowOK, Backed, Doubts
<1>3. ASSUME NEW p \in Reviewers, h[p].refund = r, ApproveWrite(p),
             refunds'[r].intent = h[p].intent,
             refunds'[r].status = "approved_pending_signature"
      PROVE  RowOK(r)'
  BY <1>3 DEF ApproveWrite, IInv, Shown, RowOK
<1>4. ASSUME NEW p \in Reviewers, h[p].refund = r, h[p].at = "execute",
             refunds'[r].tx = h[p].tx, refunds'[r].status = "executed"
      PROVE  RowOK(r)'
  <2>1. PICK n : n = h[p].tx
    OBVIOUS
  <2>2. n \in Hashes /\ Backed(r, n) /\ refunds[r].status # "none"
    BY <1>0, <1>4, <2>1 DEF AtHand, Placed
  <2>3. Backed(r, n)'
    BY <2>2, BackedStays
  <2> QED
    BY <1>4, <2>1, <2>2, <2>3 DEF RowOK, Backed, Doubts
<1> QED
  BY <1>1, <1>2, <1>3, <1>4, ReachRow DEF IInv

LEMMA StepSlot ==
  ASSUME IInv, [Next]_vars, NEW n \in Hashes
  PROVE  SlotOK(n)'
<1>0. SlotOK(n) /\ \A i \in listed : /\ madeFor[i] \in Refunds /\ i \in Intents
                                     /\ refunds[madeFor[i]].status # "none"
  BY DEF IInv, Linked, Shown, TypeOK
<1>1. CASE chain'[n].intent = None
  BY <1>1 DEF SlotOK
<1>2. ASSUME chain'[n].intent = chain[n].intent, chain[n].intent # None PROVE SlotOK(n)'
  <2>1. PICK i : i = chain[n].intent
    OBVIOUS
  <2>2. i \in listed /\ chain[n].state # "free" /\ chain[n].to = refunds[madeFor[i]].to
    BY <1>0, <1>2, <2>1 DEF SlotOK
  <2>3. chain'[n].state # "free" /\ chain'[n].to = chain[n].to /\ i \in listed'
    BY <2>2, ChainStays, Grow DEF IInv
  <2>4. madeFor'[i] = madeFor[i]
    BY <1>0, <2>2, MadeForStays, RefundAssumption DEF IInv
  <2>5. refunds'[madeFor[i]].to = refunds[madeFor[i]].to
    BY <1>0, <2>2, RowsStay DEF IInv
  <2> QED
    BY <1>2, <2>1, <2>2, <2>3, <2>4, <2>5 DEF SlotOK
<1>3. ASSUME NEW i \in Intents, Pay(i) PROVE SlotOK(n)'
  <2>1. PICK m \in Hashes :
          chain' = [chain EXCEPT ![m] = [intent |-> i, state |-> "pool",
                                         to |-> refunds[madeFor[i]].to]]
    BY <1>3 DEF Pay
  <2>2. UNCHANGED <<refunds, madeFor, listed>> /\ i \in listed
    BY <1>3 DEF Pay
  <2> QED
    BY <1>0, <2>1, <2>2 DEF SlotOK, IInv, TypeOK
<1>4. ASSUME NEW m \in Hashes, NEW d \in Addresses, PayOther(m, d)
      PROVE  chain'[n].intent = None \/ chain'[n].intent = chain[n].intent
  BY <1>4 DEF PayOther, IInv, TypeOK
<1>5. ASSUME NEW m \in Hashes, Mine(m) PROVE chain'[n].intent = chain[n].intent
  BY <1>5 DEF Mine, IInv, TypeOK, Slot
<1>6. ASSUME UNCHANGED chain PROVE chain'[n].intent = chain[n].intent
  BY <1>6
<1> QED
  BY <1>1, <1>2, <1>3, <1>4, <1>5, <1>6 DEF Next, vars, CreateRead, CreateInsert,
     Die, ReviewRead, ExecuteRead, ApproveInsert, ApproveWrite, RejectWrite,
     ExecuteVerify, Verify, ExecuteWrite, Settle, Lose

LEMMA StepLinked == ASSUME IInv, [Next]_vars PROVE Linked'
<1>1. ASSUME NEW i \in listed' PROVE refunds'[madeFor'[i]].status # "none"
  <2>1. CASE i \in listed
    <3>1. i \in Intents /\ madeFor[i] \in Refunds /\ refunds[madeFor[i]].status # "none"
      BY <2>1 DEF IInv, TypeOK, Shown, Linked
    <3> QED
      BY <3>1, MadeForStays, RowsStay, RefundAssumption DEF IInv
  <2>2. ASSUME NEW p \in Reviewers, ApproveWrite(p), i \notin listed
        PROVE  refunds'[madeFor'[i]].status # "none"
    <3>1. i = h[p].intent /\ h[p].at = "link" /\ madeFor' = madeFor
      BY <1>1, <2>2 DEF ApproveWrite
    <3>2. h[p].refund \in Refunds /\ refunds[h[p].refund].status # "none"
          /\ madeFor[i] = h[p].refund
      BY <3>1 DEF IInv, TypeOK, AtHand, Shown, Linked, Placed
    <3> QED
      BY <3>1, <3>2, RowsStay DEF IInv
  <2>3. CASE UNCHANGED listed
    BY <1>1, <2>1, <2>3
  <2> QED
    BY <2>1, <2>2, <2>3 DEF Next, vars, CreateRead, CreateInsert, Die, ReviewRead,
       ExecuteRead, ApproveInsert, RejectWrite, ExecuteVerify, Verify, ExecuteWrite,
       Pay, PayOther, Mine, Settle, Lose
<1> QED
  BY <1>1, StepPlaced, StepRow, StepSlot DEF Linked

LEMMA InitIInv == Init => IInv
<1> SUFFICES ASSUME Init PROVE Linked
  BY InitType, InitShown DEF IInv
<1>1. Idle.at = "idle" /\ Absent.status = "none" /\ Free.intent = None
  BY DEF Idle, Absent, Free
<1> QED
  BY <1>1 DEF Init, Linked, Placed, RowOK, SlotOK

LEMMA StepIInv == IInv /\ [Next]_vars => IInv'
  BY StepType, StepShown, StepLinked DEF IInv

\* An executed refund names a transaction of the wallet to its destination, a
\* success unless an intent of the refund was lost track of, whatever number of
\* requests create and review refunds at once and whenever they die
\* (refundRequests.ts:421-520).
THEOREM ExecutedRefundsArePaid == Spec => []ExecutedIsPaid
<1>1. IInv => ExecutedIsPaid
  BY DEF IInv, Linked, RowOK, Backed, ExecutedIsPaid
<1> QED
  BY InitIInv, StepIInv, <1>1, PTL DEF Spec

-----------------------------------------------------------------------------
(* Reviews and creations that do not overlap. *)

Settled == {"approved_pending_signature", "executed"}

\* A refund has one review at a time, which finds it pending; the wallet is
\* shown one intent of it, when it is approved.
ReviewsInOrder ==
    /\ \A r \in Refunds \ raced : \A p, q \in Reviewers :
         Reviewing(p, r) /\ Reviewing(q, r) => p = q
    /\ \A r \in Refunds \ raced : \A p \in Reviewers :
         Reviewing(p, r) => refunds[r].status = "pending"
    /\ \A i \in listed : madeFor[i] \in Refunds \ raced =>
         refunds[madeFor[i]].status \in Settled
    /\ \A i, j \in listed :
         madeFor[i] \in Refunds \ raced /\ madeFor[i] = madeFor[j] => i = j

\* A payment has one creation at a time, and no open refund during it.
CreationsInOrder ==
    /\ \A p, q \in Creators : \A y \in Payments \ raced :
         Creating(p, y) /\ Creating(q, y) => p = q
    /\ \A p \in Creators : h[p].at = "insert" => h[p].payment \in Payments
    /\ \A p \in Creators : \A y \in Payments \ raced : \A r \in Refunds \ raced :
         Creating(p, y) /\ refunds[r].payment = y => refunds[r].status \notin Open

\* An intent that was not lost track of has one transaction that moved, or may
\* still move, its money.
PaidByTracked ==
    \A i \in Intents \ doubted : \A m, n \in paid[i] : m = n

Inv == IInv /\ ReviewsInOrder /\ CreationsInOrder /\ OneOpenRefund /\ PaidByTracked

\* What creators remember is nothing to ReviewsInOrder.
LEMMA CreateReadKeepsR ==
  ASSUME IInv, ReviewsInOrder, NEW p \in Creators, NEW y \in Payments,
         NEW a \in 1 .. Collected, NEW d \in Addresses, CreateRead(p, y, a, d)
  PROVE  ReviewsInOrder'
<1>1. \A q \in Reviewers : h'[q] = h[q]
  BY RefundAssumption DEF CreateRead, IInv, TypeOK
<1>2. raced \subseteq raced'
  BY DEF CreateRead, BeginCreation
<1>3. UNCHANGED <<refunds, madeFor, listed>>
  BY DEF CreateRead
<1> QED
  BY <1>1, <1>2, <1>3 DEF ReviewsInOrder, Reviewing

LEMMA CreateInsertKeepsR ==
  ASSUME IInv, ReviewsInOrder, NEW p \in Creators, NEW r \in Refunds,
         CreateInsert(p, r)
  PROVE  ReviewsInOrder'
<1>1. \A q \in Reviewers : h'[q] = h[q]
  BY RefundAssumption DEF CreateInsert, Rest, IInv, TypeOK
<1>2. \A s \in Refunds : refunds[s].status \in Settled \cup {"pending"} =>
                           refunds'[s] = refunds[s]
  BY DEF CreateInsert, IInv, TypeOK, Settled
<1>3. UNCHANGED <<raced, madeFor, listed>>
  BY DEF CreateInsert
<1> QED
  BY <1>1, <1>2, <1>3 DEF ReviewsInOrder, Reviewing, Settled

LEMMA DieKeepsR ==
  ASSUME IInv, ReviewsInOrder, NEW p \in Creators \cup Reviewers, Die(p)
  PROVE  ReviewsInOrder'
<1>1. /\ h'[p].at = "idle"
      /\ \A q \in Creators \cup Reviewers : q # p => h'[q] = h[q]
  BY AtRest DEF Die, IInv
<1>2. UNCHANGED <<refunds, raced, madeFor, listed>>
  BY DEF Die
<1> QED
  BY <1>1, <1>2 DEF ReviewsInOrder, Reviewing

LEMMA ReviewReadKeepsR ==
  ASSUME IInv, ReviewsInOrder, NEW p \in Reviewers, NEW r \in Refunds,
         NEW c \in {"approve", "reject"}, ReviewRead(p, r, c)
  PROVE  ReviewsInOrder'
<1> DEFINE m == [Idle EXCEPT !.at = c, !.refund = r]
<1>1. m.at = c /\ m.refund = r
  BY DEF Idle
<1>2. h' = [h EXCEPT ![p] = m]
  BY DEF ReviewRead
<1> HIDE DEF m
<1>3. h'[p] = m /\ \A q \in Creators \cup Reviewers : q # p => h'[q] = h[q]
  BY <1>2, OthersRemember DEF IInv
<1>4. UNCHANGED <<refunds, madeFor, listed>> /\ raced \subseteq raced'
      /\ refunds[r].status = "pending"
  BY DEF ReviewRead
<1>5. r \notin raced' => \A q \in Reviewers : ~Reviewing(q, r)
  BY DEF ReviewRead
<1>6. ASSUME NEW s \in Refunds \ raced', NEW q \in Reviewers, NEW o \in Reviewers,
             Reviewing(q, s)', Reviewing(o, s)'
      PROVE  q = o
  BY <1>6, <1>1, <1>3, <1>4, <1>5 DEF ReviewsInOrder, Reviewing
<1>7. ASSUME NEW s \in Refunds \ raced', NEW q \in Reviewers, Reviewing(q, s)'
      PROVE  refunds'[s].status = "pending"
  BY <1>7, <1>1, <1>3, <1>4 DEF ReviewsInOrder, Reviewing
<1> QED
  BY <1>6, <1>7, <1>4 DEF ReviewsInOrder

\* What mark_executed remembers is no review.
LEMMA ExecuteKeepsR ==
  ASSUME IInv, ReviewsInOrder, NEW p \in Reviewers,
         (\E r \in Refunds : ExecuteRead(p, r)) \/ (\E n \in Hashes : ExecuteVerify(p, n))
  PROVE  ReviewsInOrder'
<1>1. ASSUME NEW m, h' = [h EXCEPT ![p] = m], m.at \in {"verify", "execute", "idle"}
      PROVE  /\ h'[p].at \in {"verify", "execute", "idle"}
             /\ \A q \in Creators \cup Reviewers : q # p => h'[q] = h[q]
  BY <1>1, OthersRemember DEF IInv
<1>2. /\ h'[p].at \in {"verify", "execute", "idle"}
      /\ \A q \in Creators \cup Reviewers : q # p => h'[q] = h[q]
  <2>1. ASSUME NEW r \in Refunds, ExecuteRead(p, r)
        PROVE  /\ h'[p].at \in {"verify", "execute", "idle"}
               /\ \A q \in Creators \cup Reviewers : q # p => h'[q] = h[q]
    BY <1>1, <2>1 DEF ExecuteRead, Idle
  <2>2. ASSUME NEW n \in Hashes, ExecuteVerify(p, n)
        PROVE  /\ h'[p].at \in {"verify", "execute", "idle"}
               /\ \A q \in Creators \cup Reviewers : q # p => h'[q] = h[q]
    BY <1>1, <2>2 DEF ExecuteVerify, Verify, Idle
  <2> QED
    BY <2>1, <2>2
<1>3. UNCHANGED <<refunds, raced, madeFor, listed>>
  BY DEF ExecuteRead, ExecuteVerify, Verify
<1> QED
  BY <1>2, <1>3 DEF ReviewsInOrder, Reviewing

LEMMA ApproveInsertKeepsR ==
  ASSUME IInv, ReviewsInOrder, NEW p \in Reviewers, NEW i \in Intents,
         ApproveInsert(p, i)
  PROVE  ReviewsInOrder'
<1> DEFINE m == [h[p] EXCEPT !.at = "link", !.intent = i]
<1>1. h[p] \in Memory /\ h[p].refund \in Refunds /\ h[p].at = "approve"
  BY DEF IInv, TypeOK, AtHand, ApproveInsert
<1>2. m.at = "link" /\ m.intent = i /\ m.refund = h[p].refund
  BY <1>1 DEF Memory
<1>3. h' = [h EXCEPT ![p] = m]
  BY <1>1 DEF ApproveInsert, IInv, TypeOK
<1> HIDE DEF m
<1>4. h'[p] = m /\ \A q \in Creators \cup Reviewers : q # p => h'[q] = h[q]
  BY <1>3, OthersRemember DEF IInv
<1>5. /\ madeFor[i] = None
      /\ \A j \in Intents : j # i => madeFor'[j] = madeFor[j]
      /\ UNCHANGED <<refunds, raced, listed>>
  BY <1>1 DEF ApproveInsert, IInv, TypeOK
<1>6. i \notin listed /\ listed \subseteq Intents
  BY <1>5, RefundAssumption DEF IInv, Shown, TypeOK
<1>7. \A q \in Reviewers : \A r \in Refunds : Reviewing(q, r)' => Reviewing(q, r)
  BY <1>1, <1>2, <1>4 DEF Reviewing
<1> QED
  BY <1>5, <1>6, <1>7 DEF ReviewsInOrder

LEMMA ApproveWriteKeepsR ==
  ASSUME IInv, ReviewsInOrder, NEW p \in Reviewers, ApproveWrite(p)
  PROVE  ReviewsInOrder'
<1> DEFINE r == h[p].refund
           i == h[p].intent
<1>1. /\ h[p].at = "link" /\ r \in Refunds /\ i \in Intents
      /\ madeFor[i] = r /\ Reviewing(p, r)
  BY DEF IInv, TypeOK, AtHand, ApproveWrite, Shown, Reviewing
<1>2. /\ h'[p].at = "idle"
      /\ \A q \in Creators \cup Reviewers : q # p => h'[q] = h[q]
  BY AtRest DEF ApproveWrite, IInv
<1>3. /\ refunds'[r].status \in Settled
      /\ \A s \in Refunds : s # r => refunds'[s] = refunds[s]
      /\ listed' = listed \cup {i}
      /\ UNCHANGED <<raced, madeFor>>
  BY <1>1 DEF ApproveWrite, IInv, TypeOK, Row, Settled
<1> HIDE DEF r, i
<1>4. \A q \in Reviewers : \A s \in Refunds : Reviewing(q, s)' => q # p /\ Reviewing(q, s)
  BY <1>2 DEF Reviewing
<1>5. r \notin raced => /\ \A q \in Reviewers : Reviewing(q, r) => q = p
                        /\ \A j \in listed : madeFor[j] # r
  <2>1. r \notin raced => refunds[r].status = "pending"
    BY <1>1 DEF ReviewsInOrder
  <2> QED
    BY <1>1, <2>1 DEF ReviewsInOrder, Settled
<1>6. ASSUME NEW s \in Refunds \ raced, NEW q \in Reviewers, Reviewing(q, s)'
      PROVE  refunds'[s].status = "pending"
  <2>1. Reviewing(q, s) /\ s # r
    BY <1>6, <1>4, <1>5
  <2> QED
    BY <1>6, <2>1, <1>3 DEF ReviewsInOrder
<1>7. ASSUME NEW j \in listed', madeFor[j] \in Refunds \ raced
      PROVE  refunds'[madeFor[j]].status \in Settled
  BY <1>7, <1>1, <1>3 DEF ReviewsInOrder
<1>8. ASSUME NEW j \in listed', NEW k \in listed',
             madeFor[j] \in Refunds \ raced, madeFor[j] = madeFor[k]
      PROVE  j = k
  BY <1>8, <1>1, <1>3, <1>5 DEF ReviewsInOrder
<1>9. \A s \in Refunds \ raced : \A q, o \in Reviewers :
        Reviewing(q, s)' /\ Reviewing(o, s)' => q = o
  BY <1>4 DEF ReviewsInOrder
<1> QED
  BY <1>3, <1>6, <1>7, <1>8, <1>9 DEF ReviewsInOrder

LEMMA RejectWriteKeepsR ==
  ASSUME IInv, ReviewsInOrder, NEW p \in Reviewers, RejectWrite(p)
  PROVE  ReviewsInOrder'
<1> DEFINE r == h[p].refund
<1>1. h[p].at = "reject" /\ r \in Refunds /\ Reviewing(p, r)
  BY DEF IInv, TypeOK, AtHand, RejectWrite, Reviewing
<1>2. /\ h'[p].at = "idle"
      /\ \A q \in Creators \cup Reviewers : q # p => h'[q] = h[q]
  BY AtRest DEF RejectWrite, IInv
<1>3. /\ \A s \in Refunds : s # r => refunds'[s] = refunds[s]
      /\ UNCHANGED <<listed, raced, madeFor>>
  BY <1>1 DEF RejectWrite, IInv, TypeOK
<1> HIDE DEF r
<1>4. \A q \in Reviewers : \A s \in Refunds : Reviewing(q, s)' => q # p /\ Reviewing(q, s)
  BY <1>2 DEF Reviewing
<1>5. r \notin raced => /\ \A q \in Reviewers : Reviewing(q, r) => q = p
                        /\ \A j \in listed : madeFor[j] # r
  <2>1. r \notin raced => refunds[r].status = "pending"
    BY <1>1 DEF ReviewsInOrder
  <2> QED
    BY <1>1, <2>1 DEF ReviewsInOrder, Settled
<1>6. ASSUME NEW s \in Refunds \ raced, NEW q \in Reviewers, Reviewing(q, s)'
      PROVE  refunds'[s].status = "pending"
  <2>1. Reviewing(q, s) /\ s # r
    BY <1>6, <1>4, <1>5
  <2> QED
    BY <1>6, <2>1, <1>3 DEF ReviewsInOrder
<1>7. ASSUME NEW j \in listed, madeFor[j] \in Refunds \ raced
      PROVE  refunds'[madeFor[j]].status \in Settled
  BY <1>7, <1>3, <1>5 DEF ReviewsInOrder
<1>8. \A s \in Refunds \ raced : \A q, o \in Reviewers :
        Reviewing(q, s)' /\ Reviewing(o, s)' => q = o
  BY <1>4 DEF ReviewsInOrder
<1> QED
  BY <1>3, <1>6, <1>7, <1>8 DEF ReviewsInOrder

LEMMA ExecuteWriteKeepsR ==
  ASSUME IInv, ReviewsInOrder, NEW p \in Reviewers, ExecuteWrite(p)
  PROVE  ReviewsInOrder'
<1> DEFINE r == h[p].refund
<1>1. r \in Refunds /\ \E i \in listed : madeFor[i] = r
  BY DEF IInv, TypeOK, AtHand, ExecuteWrite, Linked, Placed
<1>2. /\ h'[p].at = "idle"
      /\ \A q \in Creators \cup Reviewers : q # p => h'[q] = h[q]
  BY AtRest DEF ExecuteWrite, IInv
<1>3. /\ refunds'[r].status = "executed"
      /\ \A s \in Refunds : s # r => refunds'[s] = refunds[s]
      /\ UNCHANGED <<listed, raced, madeFor>>
  BY <1>1 DEF ExecuteWrite, IInv, TypeOK, Row
<1> HIDE DEF r
<1>4. \A q \in Reviewers : \A s \in Refunds : Reviewing(q, s)' => Reviewing(q, s)
  BY <1>2 DEF Reviewing
<1>5. r \notin raced => \A q \in Reviewers : ~Reviewing(q, r)
  BY <1>1 DEF ReviewsInOrder, Settled
<1> QED
  BY <1>1, <1>3, <1>4, <1>5 DEF ReviewsInOrder, Settled

LEMMA StepR == ASSUME IInv, ReviewsInOrder, [Next]_vars PROVE ReviewsInOrder'
<1>1. CASE UNCHANGED <<refunds, madeFor, listed, h, raced>>
  BY <1>1 DEF ReviewsInOrder, Reviewing
<1>2. UNCHANGED vars => UNCHANGED <<refunds, madeFor, listed, h, raced>>
  BY DEF vars
<1>3. ASSUME NEW i \in Intents, Pay(i) \/ Settle(i) \/ Lose(i)
      PROVE  UNCHANGED <<refunds, madeFor, listed, h, raced>>
  BY <1>3 DEF Pay, Settle, Lose
<1>4. ASSUME NEW n \in Hashes, NEW d \in Addresses, Mine(n) \/ PayOther(n, d)
      PROVE  UNCHANGED <<refunds, madeFor, listed, h, raced>>
  BY <1>4 DEF Mine, PayOther
<1>5. ASSUME NEW n \in Hashes, Mine(n)
      PROVE  UNCHANGED <<refunds, madeFor, listed, h, raced>>
  BY <1>5 DEF Mine
<1> QED
  BY <1>1, <1>2, <1>3, <1>4, <1>5, CreateReadKeepsR, CreateInsertKeepsR, DieKeepsR,
     ReviewReadKeepsR, ExecuteKeepsR, ApproveInsertKeepsR, ApproveWriteKeepsR,
     RejectWriteKeepsR, ExecuteWriteKeepsR DEF Next

\* Only an insertion opens a refund that no overlapping review touched.
LEMMA OpenWasOpen ==
  ASSUME IInv, ReviewsInOrder, [Next]_vars,
         \A p \in Creators : \A r \in Refunds : ~CreateInsert(p, r),
         NEW s \in Refunds \ raced
  PROVE  /\ refunds'[s].payment = refunds[s].payment
         /\ refunds'[s].status \in Open => refunds[s].status \in Open
<1> DEFINE Goal == /\ refunds'[s].payment = refunds[s].payment
                   /\ refunds'[s].status \in Open => refunds[s].status \in Open
<1>1. ASSUME NEW p \in Reviewers, ApproveWrite(p) PROVE Goal
  <2>1. /\ h[p].refund \in Refunds
        /\ h[p].refund = s => refunds[s].status \in Open
    BY <1>1 DEF ApproveWrite, IInv, TypeOK, AtHand, ReviewsInOrder, Reviewing, Open
  <2> QED
    BY <1>1, <2>1 DEF ApproveWrite, IInv, TypeOK, Row
<1>2. ASSUME NEW p \in Reviewers, RejectWrite(p) PROVE Goal
  BY <1>2 DEF RejectWrite, IInv, TypeOK, Row, Open
<1>3. ASSUME NEW p \in Reviewers, ExecuteWrite(p) PROVE Goal
  BY <1>3 DEF ExecuteWrite, IInv, TypeOK, Row, Open
<1>4. CASE UNCHANGED refunds
  BY <1>4
<1> QED
  BY <1>1, <1>2, <1>3, <1>4 DEF Next, vars, CreateRead, Die, ReviewRead,
     ExecuteRead, ApproveInsert, ExecuteVerify, Verify, Pay, PayOther, Mine, Settle,
     Lose

\* A creation begins with CreateRead.
LEMMA ReachInsert ==
  ASSUME TypeOK, [Next]_vars, NEW p \in Creators, h'[p].at = "insert"
  PROVE  \/ h'[p] = h[p]
         \/ \E y \in Payments, a \in 1 .. Collected, d \in Addresses :
              CreateRead(p, y, a, d)
<1> DEFINE Goal == \/ h'[p] = h[p]
                   \/ \E y \in Payments, a \in 1 .. Collected, d \in Addresses :
                        CreateRead(p, y, a, d)
<1>1. ASSUME NEW q \in Creators, NEW y \in Payments, NEW a \in 1 .. Collected,
             NEW d \in Addresses, CreateRead(q, y, a, d)
      PROVE  Goal
  <2>1. CASE q = p
    BY <1>1, <2>1
  <2>2. CASE q # p
    BY <1>1, <2>2 DEF CreateRead, TypeOK
  <2> QED
    BY <2>1, <2>2
<1>2. ASSUME NEW q \in Creators \cup Reviewers, Rest(q) PROVE Goal
  BY <1>2, AtRest
<1>3. ASSUME NEW q \in Reviewers, NEW m, h' = [h EXCEPT ![q] = m] PROVE Goal
  BY <1>3, RefundAssumption DEF TypeOK
<1>4. ASSUME NEW q \in Reviewers, NEW i \in Intents, ApproveInsert(q, i) PROVE Goal
  BY <1>4, RefundAssumption DEF TypeOK, ApproveInsert
<1>5. ASSUME NEW q \in Reviewers, NEW r \in Refunds, ExecuteRead(q, r) PROVE Goal
  BY <1>3, <1>5 DEF ExecuteRead
<1>6. ASSUME NEW q \in Reviewers, NEW n \in Hashes, ExecuteVerify(q, n) PROVE Goal
  BY <1>3, <1>6 DEF ExecuteVerify, Verify
<1>7. ASSUME NEW q \in Reviewers, NEW r \in Refunds, NEW c \in {"approve", "reject"},
             ReviewRead(q, r, c)
      PROVE  Goal
  BY <1>3, <1>7 DEF ReviewRead
<1>8. CASE UNCHANGED h
  BY <1>8
<1> QED
  BY <1>1, <1>2, <1>4, <1>5, <1>6, <1>7, <1>8 DEF Next, vars, CreateInsert, Die,
     ApproveWrite, RejectWrite, ExecuteWrite, Pay, PayOther, Mine, Settle, Lose

LEMMA StepCreations ==
  ASSUME IInv, ReviewsInOrder, CreationsInOrder, [Next]_vars PROVE CreationsInOrder'
<1>1. ASSUME NEW p \in Creators, NEW y \in Payments, NEW a \in 1 .. Collected,
             NEW d \in Addresses, CreateRead(p, y, a, d)
      PROVE  CreationsInOrder'
  <2> DEFINE m == [Idle EXCEPT !.at = "insert", !.payment = y, !.amount = a, !.to = d]
  <2>1. m.at = "insert" /\ m.payment = y
    BY DEF Idle
  <2>2. h' = [h EXCEPT ![p] = m]
    BY <1>1 DEF CreateRead
  <2> HIDE DEF m
  <2>3. h'[p] = m /\ \A q \in Creators \cup Reviewers : q # p => h'[q] = h[q]
    BY <2>2, OthersRemember DEF IInv
  <2>4. /\ raced \subseteq raced' /\ UNCHANGED refunds
        /\ \A r \in Refunds : refunds[r].payment = y => refunds[r].status \notin Open
    BY <1>1 DEF CreateRead, BeginCreation
  <2>5. y \notin raced' => \A q \in Creators : ~Creating(q, y)
    BY <1>1 DEF CreateRead, BeginCreation
  <2> QED
    BY <2>1, <2>3, <2>4, <2>5 DEF CreationsInOrder, Creating
<1>2. ASSUME NEW p \in Creators, NEW r \in Refunds, CreateInsert(p, r)
      PROVE  CreationsInOrder'
  <2>1. h'[p].at = "idle" /\ \A q \in Creators \cup Reviewers : q # p => h'[q] = h[q]
    BY <1>2, AtRest DEF CreateInsert, IInv
  <2>2. /\ Creating(p, h[p].payment) /\ raced' = raced
        /\ refunds'[r].payment = h[p].payment
        /\ \A s \in Refunds : s # r => refunds'[s] = refunds[s]
    BY <1>2 DEF CreateInsert, Creating, IInv, TypeOK, Absent
  <2> QED
    BY <2>1, <2>2 DEF CreationsInOrder, Creating
<1>3. ASSUME \A p \in Creators : \A r \in Refunds : ~CreateInsert(p, r),
             \A p \in Creators : h'[p].at = "insert" => h'[p] = h[p]
      PROVE  CreationsInOrder'
  <2>1. \A p \in Creators : \A y \in Payments : Creating(p, y)' => Creating(p, y)
    BY <1>3 DEF Creating
  <2>2. \A s \in Refunds \ raced :
          /\ refunds'[s].payment = refunds[s].payment
          /\ refunds'[s].status \in Open => refunds[s].status \in Open
    BY <1>3, OpenWasOpen
  <2> QED
    BY <1>3, <2>1, <2>2, Grow DEF CreationsInOrder
<1> QED
  BY <1>1, <1>2, <1>3, ReachInsert DEF IInv

LEMMA StepOneOpen ==
  ASSUME IInv, ReviewsInOrder, CreationsInOrder, OneOpenRefund, [Next]_vars
  PROVE  OneOpenRefund'
<1>1. ASSUME NEW p \in Creators, NEW r \in Refunds, CreateInsert(p, r)
      PROVE  OneOpenRefund'
  <2> DEFINE y == h[p].payment
  <2>1. /\ Creating(p, y) /\ raced' = raced
        /\ refunds'[r].payment = y
        /\ \A s \in Refunds : s # r => refunds'[s] = refunds[s]
    BY <1>1 DEF CreateInsert, Creating, IInv, TypeOK, Absent
  <2>2. \A s \in Refunds \ raced : y \notin raced /\ refunds[s].payment = y
                                     => refunds[s].status \notin Open
    BY <2>1 DEF CreationsInOrder, Creating
  <2> QED
    BY <2>1, <2>2 DEF OneOpenRefund
<1>2. ASSUME \A p \in Creators : \A r \in Refunds : ~CreateInsert(p, r)
      PROVE  OneOpenRefund'
  BY <1>2, OpenWasOpen, Grow DEF OneOpenRefund
<1> QED
  BY <1>1, <1>2

LEMMA StepTracked ==
  ASSUME IInv, PaidByTracked, [Next]_vars PROVE PaidByTracked'
<1> SUFFICES ASSUME NEW i \in Intents \ doubted', NEW m \in paid'[i], NEW n \in paid'[i]
             PROVE  m = n
  BY DEF PaidByTracked
<1>0. i \notin doubted
  BY Grow
<1>1. CASE paid'[i] \subseteq paid[i]
  BY <1>0, <1>1 DEF PaidByTracked
<1>2. paid = [j \in Intents |-> paid[j]] /\ paid' = [j \in Intents |-> paid'[j]]
  BY DEF paid
<1>3. ASSUME NEW j \in Intents, Pay(j) PROVE m = n
  <2>1. PICK k \in Hashes : Order!Pay(j, k)
    BY <1>3 DEF Pay
  <2>2. j \in doubted \/ paid[j] = {}
    BY <2>1 DEF Order!Pay
  <2>3. paid' = [paid EXCEPT ![j] = @ \cup {k}]
    BY <2>1 DEF Order!Pay
  <2> HIDE DEF paid
  <2>4. CASE i = j
    BY <1>0, <1>2, <2>2, <2>3, <2>4
  <2>5. CASE i # j
    BY <1>1, <1>2, <2>3, <2>5
  <2> QED
    BY <2>4, <2>5
<1>4. ASSUME NEW k \in Hashes, Mine(k) PROVE paid'[i] \subseteq paid[i]
  BY <1>4 DEF Mine, paid, IInv, TypeOK, Slot
<1>5. ASSUME NEW k \in Hashes, NEW d \in Addresses, PayOther(k, d)
      PROVE  paid'[i] \subseteq paid[i]
  BY <1>5, RefundAssumption DEF PayOther, paid, IInv, TypeOK, Slot
<1>6. ASSUME UNCHANGED chain PROVE paid'[i] \subseteq paid[i]
  BY <1>6 DEF paid
<1> QED
  BY <1>1, <1>3, <1>4, <1>5, <1>6 DEF Next, vars, CreateRead, CreateInsert, Die,
     ReviewRead, ExecuteRead, ApproveInsert, ApproveWrite, RejectWrite, ExecuteVerify,
     Verify, ExecuteWrite, Settle, Lose

LEMMA InitInv == Init => Inv
<1> SUFFICES ASSUME Init
             PROVE  ReviewsInOrder /\ CreationsInOrder /\ OneOpenRefund /\ PaidByTracked
  BY InitIInv DEF Inv
<1>1. Idle.at = "idle" /\ Absent.status = "none" /\ Free.intent = None
  BY DEF Idle, Absent, Free
<1>2. \A p \in Creators \cup Reviewers : h[p].at = "idle"
  BY <1>1 DEF Init
<1>3. \A r \in Refunds : refunds[r].status \notin Open
  BY <1>1 DEF Init, Open
<1>4. listed = {}
  BY DEF Init
<1>5. PaidByTracked
  BY <1>1, RefundAssumption DEF Init, PaidByTracked, paid
<1> QED
  BY <1>2, <1>3, <1>4, <1>5 DEF ReviewsInOrder, CreationsInOrder,
     OneOpenRefund, Reviewing, Creating

LEMMA InvHolds == Spec => []Inv
<1>1. Inv /\ [Next]_vars => Inv'
  BY StepIInv, StepR, StepCreations, StepOneOpen, StepTracked DEF Inv
<1> QED
  BY InitInv, <1>1, PTL DEF Spec

\* A set all of whose members are equal has at most one.
LEMMA AtMostOne ==
  ASSUME NEW S, \A i, j \in S : i = j
  PROVE  Cardinality(S) <= 1
<1>1. CASE S = {}
  BY <1>1, FS_EmptySet
<1>2. ASSUME NEW i \in S PROVE Cardinality(S) <= 1
  <2>1. S = {i}
    BY <1>2
  <2>2. Cardinality(S) = 1
    BY <2>1, FS_Singleton, Zenon
  <2> QED
    BY <2>2
<1> QED
  BY <1>1, <1>2

\* However many requests review at once and whenever they die, a refund whose
\* reviews do not overlap and whose intent is not lost track of moves money once;
\* one that was rejected never moves any (refundRequests.ts:330-418).
THEOREM RefundsPaidOnce == Spec => []RefundPaidOnce
<1>1. ASSUME Inv PROVE RefundPaidOnce
  <2> SUFFICES ASSUME NEW r \in Refunds \ raced
               PROVE  /\ ~Doubts(r) => Cardinality(Moved(r)) <= 1
                      /\ refunds[r].status = "rejected" => Moved(r) = {}
    BY DEF RefundPaidOnce
  <2>1. \A n \in Moved(r) : /\ chain[n].intent \in listed \cap Intents
                            /\ madeFor[chain[n].intent] = r
                            /\ n \in paid[chain[n].intent]
    BY <1>1 DEF Inv, IInv, TypeOK, Linked, SlotOK, Moved, paid
  <2>2. ASSUME ~Doubts(r), NEW m \in Moved(r), NEW n \in Moved(r) PROVE m = n
    <3>1. chain[m].intent = chain[n].intent
      BY <1>1, <2>1 DEF Inv, ReviewsInOrder
    <3>2. chain[n].intent \notin doubted
      BY <2>1, <2>2 DEF Doubts
    <3> HIDE DEF paid, Moved
    <3> QED
      BY <1>1, <2>1, <3>1, <3>2 DEF Inv, PaidByTracked
  <2>3. refunds[r].status = "rejected" => Moved(r) = {}
    BY <1>1, <2>1 DEF Inv, ReviewsInOrder, Settled
  <2> HIDE DEF Moved
  <2> QED
    BY <2>2, <2>3, AtMostOne
<1> QED
  BY InvHolds, <1>1, PTL

\* A payment has one open refund, however many requests create and review at
\* once, as long as those of one payment and of one refund do not overlap
\* (refundRequests.ts:199-244).
THEOREM OneRefundOpen == Spec => []OneOpenRefund
<1>1. Inv => OneOpenRefund
  BY DEF Inv
<1> QED
  BY InvHolds, <1>1, PTL
=============================================================================
