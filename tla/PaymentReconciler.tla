-------------------------- MODULE PaymentReconciler --------------------------
(***************************************************************************)
(* The reconciler of payment requests, packages/shared/src/payments/       *)
(* reconcilePendingPaymentRequests.ts, with the creation and the           *)
(* cancellation of a request.                                              *)
(*                                                                         *)
(* A tick is one call of reconcilePendingPaymentRequests: by the cron      *)
(* worker, by POST /internal/reconcile or by a GET that polls one request. *)
(* Ticks overlap freely, on one process or several; a step is one SQL      *)
(* statement, one transaction or one RPC call with the code up to the next *)
(* await.  All requests name one merchant wallet, transfers are single,    *)
(* worth one unit, above the dust limit and not from a wallet of the       *)
(* merchant.  Time is counted in blocks: block n is mined at time n.       *)
(***************************************************************************)
EXTENDS Integers, FiniteSets, SequencesExt

CONSTANTS
    NumRequests,  \* requests 1 .. NumRequests, numbered in order of creation
    Split,        \* those that take several contributions
    Need,         \* the amount of a split request
    Transfers,    \* transactions that pay the wallet
    Ticks,        \* concurrent calls of the reconciler
    Lag,          \* how many blocks an RPC answer, or a cached height, may lag
    Offset,       \* SAFE_BLOCK_OFFSET
    Required,     \* PAYMENT_REQUIRED_CONFIRMATIONS
    TTL,          \* PAYMENT_EXPIRY_MINUTES, in blocks
    MaxBlock,     \* bound: height of the chain; its last blocks are empty and
                  \* see no new request, so that no life is cut short
    Fallible,     \* whether all calls but one may fail in the middle
    None

Requests == 1 .. NumRequests

ASSUME ReconcilerAssumption ==
    /\ NumRequests \in Nat
    /\ Split \subseteq Requests
    /\ {Need, Lag, Offset, Required, TTL, MaxBlock} \subseteq Nat
    /\ Need > 0 /\ Required > 0
    /\ Fallible \in BOOLEAN
    /\ None \notin Transfers \cup Requests
    /\ IsFiniteSet(Transfers)

VARIABLES
    rows,      \* the payment_requests table
    contrib,   \* split_payment_contributions: the request of a tx_hash
    settled,   \* the contributions in status confirmed
    history,   \* the hashes in the transactions table
    announced, \* paid events sent for a request, counted up to Many
    tick,      \* where each tick stands, and its local variables
    height,    \* the chain
    mined,     \* the block of a transfer, 0 while it has none
    torn       \* history: the split requests whose scan a tick left unfinished

vars == <<rows, contrib, settled, history, announced, tick, height, mined, torn>>

Status == { "none", "pending", "confirming", "paid", "expired", "cancelled" }

Steps == { "idle", "row", "clock", "confirm", "scan", "check", "claim", "save",
           "settle", "close", "failed" }

Many == 2

Absent == [status |-> "none", tx |-> None, confirmations |-> 0, start |-> 0,
           scanned |-> 0, deadline |-> 0, total |-> 0]

Idle == [at |-> "idle", todo |-> {}, snap |-> <<>>, row |-> 0, block |-> 0,
         now |-> 0, logs |-> <<>>, matched |-> FALSE, paid |-> FALSE]

Init ==
    /\ rows = [r \in Requests |-> Absent]
    /\ contrib = [t \in Transfers |-> None]
    /\ settled = {}
    /\ history = {}
    /\ announced = [r \in Requests |-> 0]
    /\ tick = [k \in Ticks |-> Idle]
    /\ height = 1
    /\ mined = [t \in Transfers |-> 0]
    /\ torn = {}

-----------------------------------------------------------------------------
(* Helpers *)

\* A height some RPC node answers now, or viem has cached.
Heights == { n \in 1 .. height : n + Lag >= height }

Goto(k, step) == tick' = [tick EXCEPT ![k].at = step]

Rest(k) == tick' = [tick EXCEPT ![k] = Idle]

\* The loop over the rows goes on with the next one.
NextRow(k) ==
    tick' = [tick EXCEPT ![k] = [Idle EXCEPT !.at = "row", !.todo = tick[k].todo,
                                   !.snap = [q \in tick[k].todo |-> tick[k].snap[q]]]]

\* The loop over the logs goes on with the next one.
NextLog(k) == tick' = [tick EXCEPT ![k].at = "check", ![k].logs = Tail(@)]

\* The tick is over before the logs of its request are.
CutShort(k) ==
    torn' = IF tick[k].row \in Split /\ tick[k].logs # <<>>
            THEN torn \cup {tick[k].row} ELSE torn

Announce(r) == announced' = [announced EXCEPT ![r] = IF @ < Many THEN @ + 1 ELSE @]

\* Mutant of ScanFrom: the scan starts after the last block scanned.
ScanFromNext(s, b) == IF s > b THEN b ELSE s + 1

\* scanFromBlock, of a request scanned up to s, at block b.
ScanFrom(s, b) ==
    LET clamped == IF s > b THEN b ELSE s
    IN  IF clamped > Offset THEN clamped - Offset ELSE 0

\* Mutant of Confirmations: one too many.
ConfirmationsPlusOne(b, t) == b - mined[t] + 2

Confirmations(b, t) == b - mined[t] + 1

\* A non-split request in confirming or paid names t.
ClaimedBy(t, r) == rows[r].tx = t /\ rows[r].status \in {"confirming", "paid"}

-----------------------------------------------------------------------------
(* The routes *)

\* createPaymentRequestRecord.
Create(r, b) ==
    /\ rows[r].status = "none"
    /\ height + TTL < MaxBlock
    /\ r > 1 => rows[r - 1].status # "none"
    /\ rows' = [rows EXCEPT ![r] = [Absent EXCEPT !.status = "pending",
                  !.start = b, !.scanned = b, !.deadline = height + TTL]]
    /\ UNCHANGED <<contrib, settled, history, announced, tick, height, mined, torn>>

\* PATCH /payment-requests and PATCH /pos/payment-requests/:id/cancel.  The
\* policy reads the status the update tests again.
Cancel(r) ==
    /\ rows[r].status = "pending"
    /\ rows' = [rows EXCEPT ![r].status = "cancelled"]
    /\ UNCHANGED <<contrib, settled, history, announced, tick, height, mined, torn>>

-----------------------------------------------------------------------------
(* A tick *)

Active == { r \in Requests : rows[r].status \in {"pending", "confirming"} }

\* The select of the rows: all of them, or the one of options.id.
Start(k, todo) ==
    /\ tick[k].at = "idle"
    /\ tick' = [tick EXCEPT ![k] = [Idle EXCEPT !.at = "row",
                  !.todo = todo, !.snap = [r \in todo |-> rows[r]]]]
    /\ UNCHANGED <<rows, contrib, settled, history, announced, height, mined, torn>>

\* The loop goes on with the oldest row: getBlockNumber.
Row(k) ==
    LET r == CHOOSE q \in tick[k].todo : \A s \in tick[k].todo : q <= s
    IN  /\ tick[k].at = "row"
        /\ \/ tick[k].todo = {} /\ Rest(k)
           \/ /\ tick[k].todo # {}
              /\ \E b \in Heights :
                   tick' = [tick EXCEPT ![k] =
                     [@ EXCEPT !.at = "clock", !.todo = tick[k].todo \ {r}, !.row = r,
                               !.block = b]]
        /\ UNCHANGED <<rows, contrib, settled, history, announced, height, mined, torn>>

\* Mutant of Clock: the deadline is looked at before the scan.
ClockExpiresFirst(k) ==
    /\ tick[k].at = "clock"
    /\ tick' = [tick EXCEPT ![k] =
         [@ EXCEPT !.now = height,
                   !.at = IF height > tick[k].snap[tick[k].row].deadline
                          THEN "close" ELSE "scan"]]
    /\ UNCHANGED <<rows, contrib, settled, history, announced, height, mined, torn>>

\* Once the answer has arrived: now.
Clock(k) ==
    LET r == tick[k].row
    IN  /\ tick[k].at = "clock"
        /\ tick' = [tick EXCEPT ![k] =
             [@ EXCEPT !.now = height,
                       !.at = IF tick[k].snap[r].status = "confirming" /\ r \notin Split
                              THEN "confirm" ELSE "scan"]]
        /\ UNCHANGED <<rows, contrib, settled, history, announced, height, mined, torn>>

\* Mutant of Confirm: the update has the guard of the first detection.
ConfirmPending(k) ==
    LET r == tick[k].row
        n == Confirmations(tick[k].block, tick[k].snap[r].tx)
    IN  /\ tick[k].at = "confirm"
        /\ rows' = IF rows[r].status = "pending" /\ n >= Required
                   THEN [rows EXCEPT ![r].status = "paid"] ELSE rows
        /\ NextRow(k)
        /\ UNCHANGED <<contrib, settled, history, announced, height, mined, torn>>

\* The confirming branch: the receipt, then an update by id alone.
Confirm(k) ==
    LET r == tick[k].row
        t == tick[k].snap[r].tx
        n == Confirmations(tick[k].block, t)
        next == IF n >= Required THEN "paid" ELSE "confirming"
    IN  /\ tick[k].at = "confirm"
        /\ \/ /\ \E b \in Heights : mined[t] <= b
              /\ n # tick[k].snap[r].confirmations \/ next = "paid"
              /\ rows' = [rows EXCEPT ![r].status = next, ![r].confirmations = n]
              /\ IF next = "paid" THEN Announce(r) ELSE UNCHANGED announced
           \/ /\ \/ \E b \in Heights : mined[t] > b       \* no receipt yet
                 \/ n = tick[k].snap[r].confirmations /\ next # "paid"
              /\ UNCHANGED <<rows, announced>>
        /\ NextRow(k)
        /\ UNCHANGED <<contrib, settled, history, height, mined, torn>>

\* getLogs, answered by a node that may not have the last blocks.
Scan(k) ==
    LET from == ScanFrom(tick[k].snap[tick[k].row].scanned, tick[k].block)
        Seen(b) == { t \in Transfers : /\ mined[t] # 0
                                       /\ mined[t] >= from
                                       /\ mined[t] <= tick[k].block
                                       /\ mined[t] <= b }
    IN  /\ tick[k].at = "scan"
        /\ \E b \in Heights : \E logs \in SetToSeqs(Seen(b)) :
             /\ \A i, j \in DOMAIN logs : i < j => mined[logs[i]] <= mined[logs[j]]
             /\ tick' = [tick EXCEPT ![k].at = "check", ![k].logs = logs]
        /\ UNCHANGED <<rows, contrib, settled, history, announced, height, mined, torn>>

\* The reads that filter one log, and the block for its time stamp.
Check(k) ==
    LET r == tick[k].row
        t == Head(tick[k].logs)
        Skip == \/ mined[t] > rows[r].deadline
                \/ \E s \in Requests : ClaimedBy(t, s)
                \/ r \in Split /\ contrib[t] # None
    IN  /\ tick[k].at = "check"
        /\ \/ /\ tick[k].logs = <<>>
              /\ Goto(k, IF r \in Split THEN "settle" ELSE "close")
           \/ tick[k].logs # <<>> /\ Skip /\ NextLog(k)
           \/ tick[k].logs # <<>> /\ ~Skip /\ Goto(k, "claim")
        /\ UNCHANGED <<rows, contrib, settled, history, announced, height, mined, torn>>

\* Mutant of Claim: the status of a contribution is written to the request.
ClaimAsConfirmed(k) ==
    LET r == tick[k].row
    IN  /\ tick[k].at = "claim"
        /\ r \notin Split
        /\ rows' = [rows EXCEPT ![r].status = "confirmed"]
        /\ Goto(k, "save")
        /\ UNCHANGED <<contrib, settled, history, announced, height, mined, torn>>

\* The guarded update of a non-split request.  A second row with the same hash
\* is a unique violation; drizzle wraps it, the catch does not recognise it and
\* the tick ends.
Claim(k) ==
    LET r == tick[k].row
        t == Head(tick[k].logs)
        n == Confirmations(tick[k].block, t)
        next == IF n >= Required THEN "paid" ELSE "confirming"
        duplicate == \E s \in Requests \ {r} : rows[s].tx = t
    IN  /\ tick[k].at = "claim"
        /\ r \notin Split
        /\ \/ /\ rows[r].status = "pending"
              /\ ~duplicate
              /\ rows' = [rows EXCEPT ![r] = [@ EXCEPT !.status = next, !.tx = t,
                            !.confirmations = n, !.scanned = tick[k].block]]
              /\ tick' = [tick EXCEPT ![k].at = "save", ![k].paid = (next = "paid")]
           \/ /\ rows[r].status = "pending"
              /\ duplicate
              /\ Rest(k)
              /\ UNCHANGED rows
           \/ rows[r].status # "pending" /\ NextLog(k) /\ UNCHANGED rows
        /\ UNCHANGED <<contrib, settled, history, announced, height, mined, torn>>

\* A contribution to total t that makes the request paid if flips, and sends
\* the paid event if paid: what the mutants of Contribute have in common.
Take(k, total, flips, paid) ==
    LET r == tick[k].row
        t == Head(tick[k].logs)
    IN  /\ tick[k].at = "claim"
        /\ r \in Split
        /\ contrib[t] = None
        /\ contrib' = [contrib EXCEPT ![t] = r]
        /\ rows' = [rows EXCEPT ![r] = [@ EXCEPT !.total = total,
                      !.scanned = tick[k].block,
                      !.status = IF flips /\ @ = "pending" THEN "paid" ELSE @]]
        /\ tick' = [tick EXCEPT ![k].at = "save", ![k].paid = paid]
        /\ UNCHANGED <<settled, history, announced, height, mined, torn>>

\* Mutant of Contribute: the total grows from the row read at the start.
ContributeStaleTotal(k) ==
    LET total == tick[k].snap[tick[k].row].total + 1
    IN  Take(k, total, total >= Need, total >= Need)

\* Mutant of Contribute: the total read at the start decides on the event.
ContributeStaleEvent(k) ==
    LET total == rows[tick[k].row].total + 1
    IN  Take(k, total, total >= Need, tick[k].snap[tick[k].row].total + 1 >= Need)

\* The transaction of a split request, under the lock of its row.  A hash that
\* another tick contributed meanwhile ends the tick, see Claim.
Contribute(k) ==
    LET r == tick[k].row
        t == Head(tick[k].logs)
        full == rows[r].total + 1 >= Need /\ rows[r].status = "pending"
    IN  /\ tick[k].at = "claim"
        /\ r \in Split
        /\ \/ /\ contrib[t] = None
              /\ contrib' = [contrib EXCEPT ![t] = r]
              /\ settled' = IF Confirmations(tick[k].block, t) >= Required
                            THEN settled \cup {t} ELSE settled
              /\ rows' = [rows EXCEPT ![r] = [@ EXCEPT !.total = rows[r].total + 1,
                            !.scanned = tick[k].block,
                            !.status = IF full THEN "paid" ELSE rows[r].status]]
              /\ tick' = [tick EXCEPT ![k].at = "save", ![k].paid = full]
              /\ UNCHANGED torn
           \/ /\ contrib[t] # None
              /\ Rest(k) /\ CutShort(k)
              /\ UNCHANGED <<rows, contrib, settled>>
        /\ UNCHANGED <<history, announced, height, mined>>

\* The insert into transactions, then the events.
Save(k) ==
    LET r == tick[k].row
    IN  /\ tick[k].at = "save"
        /\ history' = history \cup {Head(tick[k].logs)}
        /\ IF tick[k].paid THEN Announce(r) ELSE UNCHANGED announced
        /\ IF r \in Split
           THEN tick' = [tick EXCEPT ![k] = [@ EXCEPT !.at = "check",
                  !.logs = Tail(tick[k].logs), !.matched = TRUE, !.paid = FALSE]]
           ELSE NextRow(k)
        /\ UNCHANGED <<rows, contrib, settled, height, mined, torn>>

\* The contributions in status confirming.
Settle(k) ==
    /\ tick[k].at = "settle"
    /\ \E b \in Heights :
         settled' = settled \cup
           { t \in Transfers : /\ contrib[t] = tick[k].row
                               /\ mined[t] <= b
                               /\ Confirmations(tick[k].block, t) >= Required }
    /\ Goto(k, "close")
    /\ UNCHANGED <<rows, contrib, history, announced, height, mined, torn>>

\* Mutant of Close: the update that expires the request has no status guard.
CloseUnguarded(k) ==
    LET r == tick[k].row
    IN  /\ tick[k].at = "close"
        /\ IF ~tick[k].matched /\ tick[k].now > rows[r].deadline
           THEN rows' = [rows EXCEPT ![r].status = "expired"]
           ELSE UNCHANGED rows
        /\ NextRow(k)
        /\ UNCHANGED <<contrib, settled, history, announced, height, mined, torn>>

\* Nothing matched: the request expires, or its cursor moves.
Close(k) ==
    LET r == tick[k].row
        open == ~tick[k].matched
        late == tick[k].now > rows[r].deadline
        moved == tick[k].snap[r].scanned # tick[k].block
    IN  /\ tick[k].at = "close"
        /\ \/ /\ open /\ late /\ r \in Active
              /\ rows' = [rows EXCEPT ![r] = [@ EXCEPT !.status = "expired",
                                                !.scanned = tick[k].block]]
           \/ /\ open /\ ~late /\ moved
              /\ rows' = [rows EXCEPT ![r].scanned = tick[k].block]
           \/ /\ ~open \/ (IF late THEN r \notin Active ELSE ~moved)
              /\ UNCHANGED rows
        /\ NextRow(k)
        /\ UNCHANGED <<contrib, settled, history, announced, height, mined, torn>>

\* An RPC call throws, or the process dies: the call is over, and other calls
\* go on with what it has written.
Fail(k) ==
    /\ Fallible
    /\ tick[k].at # "idle"
    /\ \E other \in Ticks \ {k} : tick[other].at # "failed"
    /\ tick' = [tick EXCEPT ![k] = [Idle EXCEPT !.at = "failed"]]
    /\ CutShort(k)
    /\ UNCHANGED <<rows, contrib, settled, history, announced, height, mined>>

-----------------------------------------------------------------------------

\* The chain grows by a block that holds the transfers paid.
Mine(paid) ==
    /\ height < MaxBlock
    /\ paid = {} \/ height + Required <= MaxBlock
    /\ \A t \in paid : mined[t] = 0
    /\ height' = height + 1
    /\ mined' = [t \in Transfers |-> IF t \in paid THEN height + 1 ELSE mined[t]]
    /\ UNCHANGED <<rows, contrib, settled, history, announced, tick, torn>>

Continue(k) ==
    \/ Row(k) \/ Clock(k) \/ Confirm(k) \/ Scan(k) \/ Check(k) \/ Claim(k) \/ Contribute(k)
    \/ Save(k) \/ Settle(k) \/ Close(k)

Next ==
    \/ \E r \in Requests : Cancel(r) \/ \E b \in Heights : Create(r, b)
    \/ \E k \in Ticks : \/ Start(k, Active)
                        \/ \E r \in Active : Start(k, {r})
                        \/ Continue(k)
                        \/ Fail(k)
    \/ \E paid \in SUBSET Transfers : Mine(paid)

Spec == Init /\ [][Next]_vars

\* The worker ticks, a tick goes on, and the chain grows.
Fairness ==
    /\ \A k \in Ticks : WF_vars(Start(k, Active)) /\ WF_vars(Continue(k))
    /\ WF_vars(\E paid \in SUBSET Transfers : Mine(paid))

FairSpec == Spec /\ Fairness

-----------------------------------------------------------------------------
(* Properties *)

TypeOK ==
    /\ rows \in [Requests -> [status : Status, tx : Transfers \cup {None},
                   confirmations : Int, start : Nat, scanned : Nat,
                   deadline : Nat, total : Nat]]
    /\ contrib \in [Transfers -> Split \cup {None}]
    /\ settled \subseteq Transfers
    /\ history \subseteq Transfers
    /\ announced \in [Requests -> 0 .. Many]
    /\ \A k \in Ticks :
         /\ tick[k].at \in Steps
         /\ tick[k].todo \subseteq DOMAIN tick[k].snap
         /\ tick[k].at \notin {"idle", "row", "failed"} =>
              tick[k].row \in DOMAIN tick[k].snap
         /\ tick[k].at \in {"claim", "save"} => tick[k].logs # <<>>
    /\ height \in Nat
    /\ mined \in [Transfers -> Nat]
    /\ torn \subseteq Split

Credited(t) == contrib[t] # None \/ \E r \in Requests : rows[r].tx = t

Quiet == \A k \in Ticks : tick[k].at = "idle"

AllOver == \A k \in Ticks : tick[k].at \in {"idle", "failed"}

\* docs/architecture.md:85: of ticks that race on one split request none loses
\* a contribution and none counts one twice, and the total after the update
\* decides whether the request is paid.
SplitTotals ==
    \A r \in Split :
      /\ rows[r].total = Cardinality({ t \in Transfers : contrib[t] = r })
      /\ rows[r].status = "paid" => rows[r].total >= Need
      /\ rows[r].status = "pending" => rows[r].total < Need

\* A split request is announced as paid once, whichever of the racing ticks
\* crosses the threshold (reconcilePendingPaymentRequests.ts:283).  No paid
\* request is left unannounced, and no credited transfer is missing from the
\* merchant's history, once the ticks are over.  It is not so when a tick fails
\* between the credit and its report.
ReportedOnce ==
    /\ \A r \in Split : announced[r] <= 1
    /\ Quiet => /\ \A r \in Requests : rows[r].status = "paid" => announced[r] > 0
                /\ \A t \in Transfers : Credited(t) => t \in history

\* A non-split request is paid, and a contribution to a split one confirmed,
\* only under PAYMENT_REQUIRED_CONFIRMATIONS blocks, however old the height and
\* the row its tick read.
PaidIsDeep ==
    LET Deep(t) == mined[t] # 0 /\ mined[t] + Required <= height + 1
    IN  /\ \A r \in Requests \ Split :
             rows[r].status = "paid" => rows[r].tx # None /\ Deep(rows[r].tx)
        /\ \A t \in settled : Deep(t)

\* The cursor of an open request passes no payment it should have seen: behind
\* the safety offset everything that arrived in time is credited, once no tick
\* is at work, but for a split request one of whose scans was left unfinished
\* (reconcilePendingPaymentRequests.ts:271).
NothingSkipped ==
    AllOver => \A r \in Requests \ torn, t \in Transfers :
      /\ rows[r].status = "pending"
      /\ mined[t] > rows[r].start
      /\ mined[t] <= rows[r].deadline
      /\ mined[t] + Offset < rows[r].scanned
      => Credited(t)

InTime(t, r) == mined[t] > rows[r].start /\ mined[t] <= rows[r].deadline

\* A plain request expires only when every payment that reached it in time, by
\* the height its tick read less the lag of the node that answers the scan, is
\* credited, whatever the ticks read and when.  A payment above that height is
\* lost: see PaidInTimeIsKept.  A split request may expire over one: a tick that
\* credits the first of two contributions moves the cursor, and another tick
\* scans from there before the second is credited.
ExpiredIsUnpaid ==
    [][\A r \in Requests \ Split, t \in Transfers :
         /\ rows[r].status # "expired" /\ rows'[r].status = "expired"
         /\ rows[r].tx = None
         /\ InTime(t, r)
         /\ mined[t] + Lag <= rows'[r].scanned
         => Credited(t)]_vars

\* A payment in a block by the deadline counts (line 422), but the height that
\* bounds the scan and the clock that ends it are two reads (lines 114 and 115).
PaidInTimeIsKept ==
    \A r \in Requests \ Split, t \in Transfers :
      rows[r].status = "expired" /\ rows[r].tx = None /\ InTime(t, r) => Credited(t)

\* A cancelled request stays cancelled, no stale tick expires it or credits it
\* as paid (paymentRequests.ts:121, reconcilePendingPaymentRequests.ts:523).  A
\* paid one is neither expired nor cancelled, and never loses its payment: at
\* worst the update by id alone of a tick with an older height, at line 141,
\* takes a plain one back to confirming.
EndsAreFinal ==
    [][\A r \in Requests :
         /\ rows[r].status = "cancelled" => rows'[r].status = "cancelled"
         /\ rows[r].status = "paid" =>
              \/ rows'[r].status = "paid"
              \/ /\ r \notin Split /\ rows'[r].status = "confirming"
                 /\ rows'[r].tx = rows[r].tx]_vars

\* docs/architecture.md:109: a paid request stays paid.
PaidStaysPaid ==
    [][\A r \in Requests : rows[r].status = "paid" => rows'[r].status = "paid"]_vars

\* reconcilePendingPaymentRequests.ts:523: a tick does not expire a request
\* whose payment another tick detected.
DetectedIsKept ==
    [][\A r \in Requests : rows[r].status = "confirming" =>
                             rows'[r].status \in {"confirming", "paid"}]_vars

\* A transfer that a non-split request took is no split contribution too
\* (reconcilePendingPaymentRequests.ts:217).
CreditedOnce ==
    \A t \in Transfers : contrib[t] # None =>
                           \A r \in Requests : rows[r].tx # t

\* A request that expired over the payment another tick had detected, see
\* DetectedIsKept.  Its hash is taken, and not skipped: a tick that finds it for
\* a later request throws at reconcilePendingPaymentRequests.ts:439, always.
Wedged == \E r \in Requests \ Split : rows[r].status = "expired" /\ rows[r].tx # None

\* Every request ends: it is paid, it expires or it is cancelled, however ticks
\* overlap, unless an earlier request wedges the ticks that reach it.
EveryRequestEnds ==
    \A r \in Requests : rows[r].status = "pending" ~>
                          \/ rows[r].status \in {"paid", "expired", "cancelled"}
                          \/ Wedged
=============================================================================
