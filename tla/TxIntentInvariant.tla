-------------------------- MODULE TxIntentInvariant --------------------------
(***************************************************************************)
(* The inductive invariant behind TrackedPaidOnce and SettledRowsAreTrue,  *)
(* under every fault.  It follows the money of an intent the code has not  *)
(* lost track of through its one broadcast: what keeps a second handler    *)
(* out, and why no verdict about an older transaction is left when the row *)
(* is opened again.                                                        *)
(***************************************************************************)
EXTENDS TxIntent

\* The intents whose transaction the code has not lost track of.
Tracked == Intents \ doubted

\* While a handler is busy with i nobody else can claim it to broadcast.
BusyKeepsOut(i) ==
    /\ \A p \in Handlers : Busy(p, i) =>
         rows[i].status \in {"broadcasting", "expired"} \/ clock[i].past
    /\ \A p, q \in Handlers : Busy(p, i) /\ Busy(q, i) => p = q

\* A handler sends only what was not paid, and puts back only what it did not
\* send, or what is too old to be sent again.
UnpaidWhenSending(i) ==
    \A p \in Handlers : Busy(p, i) =>
      /\ h[p].at = "send" => Payments(i) = {}
      /\ h[p].at = "revert" => Payments(i) = {} \/ clock[i].past

\* A payment is recorded, or its intent can no longer be broadcast.
PaidIsClosed(i) ==
    \A n \in Payments(i) :
      \/ clock[i].past
      \/ rows[i].status \in {"expired", "confirmed"}
      \/ rows[i].status = "broadcasted" /\ rows[i].txHash = n
      \/ /\ rows[i].status = "broadcasting"
         /\ \A p \in Handlers : h[p].at = "record" /\ h[p].intent = i =>
                                   h[p].raw = n

\* A verdict not applied yet is about the hash the row carries, unless the row
\* is settled already.
VerdictIsCurrent(i) ==
    \A n \in Verdicts(i) :
      \/ rows[i].status = "broadcasted" /\ rows[i].txHash = n
      \/ rows[i].status \in {"confirmed", "failed", "expired"}

ConfirmedIsTrue(i) ==
    rows[i].status = "confirmed" =>
      rows[i].txHash \in DOMAIN chain /\ chain[rows[i].txHash].state = "success"

Safe(i) ==
    /\ BusyKeepsOut(i)
    /\ UnpaidWhenSending(i)
    /\ PaidIsClosed(i)
    /\ VerdictIsCurrent(i)
    /\ ConfirmedIsTrue(i)
    /\ PaidOnce(i)

\* What a handler, a client or a row remembers of the chain is on the chain.
MemoryIsTrue ==
    /\ \A p \in Handlers :
         /\ h[p].at = "record" => /\ h[p].raw \in DOMAIN chain
                                  /\ chain[h[p].raw].intent = h[p].intent
         /\ \A b \in h[p].batch : b[2] \in DOMAIN chain /\ chain[b[2]].intent = b[1]
    /\ told \subseteq DOMAIN chain
    /\ \A i \in Intents : rows[i].status \in {"broadcasted", "confirmed"} =>
         rows[i].txHash \in DOMAIN chain /\ chain[rows[i].txHash].intent = i

IInv == MemoryIsTrue /\ \A i \in Tracked : Safe(i)

-----------------------------------------------------------------------------
(* The refinement of PaymentOrder *)

Told(i) == IF rows[i].status \in {"confirmed", "expired"}
           THEN rows[i].status ELSE "open"

StateBar == [i \in Intents |-> Told(i)]

PaidBar == [i \in Intents |-> Payments(i)]

Order == INSTANCE PaymentOrder
           WITH Orders <- Intents, Hashes <- 1 .. MaxChain,
                state <- StateBar, paid <- PaidBar

\* Under every fault, the intents implement payment orders.
ImplementsOrder == Order!Spec
=============================================================================
