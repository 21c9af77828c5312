------------------------------ MODULE TxIntent ------------------------------
(***************************************************************************)
(* The transaction intents of walty: apps/api/src/routes/txIntents.ts, the *)
(* expiry helpers of packages/shared/src/tx-intents/expire.ts, the sweep   *)
(* worker and the intent half of POST /tx/sync.                            *)
(*                                                                         *)
(* A handler is an Express request.  Node runs it between two awaits       *)
(* without interruption and PostgreSQL runs each statement atomically, so  *)
(* a step is one database statement (or one RPC call) together with the    *)
(* code up to the next await.  Handlers interleave freely in between, on   *)
(* one process or on several replicas.                                     *)
(*                                                                         *)
(* The intents are those of one account.  Its transactions occupy the      *)
(* nonces 1, 2, ... of chain; a signed raw transaction is represented by   *)
(* its nonce, and so is its hash, because two transactions of one account  *)
(* with one nonce cannot both be mined.                                    *)
(***************************************************************************)
EXTENDS Naturals, Sequences

CONSTANTS
    Intents,    \* rows of tx_intents, one per idempotency key
    Refunds,    \* the rows created by a refund approval: no key, a 24 h TTL
    Payloads,   \* canonical payload hashes
    Handlers,   \* concurrent requests
    Faults,     \* what the environment may do, see FaultKinds
    MaxChain,   \* bound: transactions the node accepts from the account
    None

FaultKinds ==
    { "crash",        \* an API process dies between two steps of a handler
      "slow",         \* a broadcast takes longer than STUCK_BROADCASTING_MS
      "lostReply" }   \* the node accepts a transaction, the call still throws

ASSUME IntentAssumption ==
    /\ Refunds \subseteq Intents
    /\ Faults \subseteq FaultKinds
    /\ MaxChain \in Nat
    /\ None \notin Intents \cup Payloads

NoRaw == 0

Status == { "none", "pending", "signed", "broadcasting", "broadcasted",
            "confirmed", "failed", "expired" }

Steps == { "idle", "createExpire", "createInsert", "createReread",
           "signWrite", "expire", "send", "revert", "record",
           "syncRead", "syncVerdicts" }

VARIABLES
    rows,     \* the tx_intents table
    clock,    \* which of the three deadlines of a row lie in the past
    h,        \* where each handler stands, and its local variables
    chain,    \* the account's transactions, by nonce
    told,     \* transactions a client was told of and has not PATCHed yet
    granted,  \* payloads of the requests POST /tx-intents answered with a row
    doubted   \* history: the intents whose transaction the code lost track of

vars == <<rows, clock, h, chain, told, granted, doubted>>

Idle == [at |-> "idle", intent |-> None, payload |-> None, raw |-> NoRaw,
         batch |-> {}]

Init ==
    /\ rows = [i \in Intents |-> [status |-> "none", raw |-> NoRaw,
                                  txHash |-> NoRaw, payload |-> None]]
    /\ clock = [i \in Intents |-> [past |-> FALSE, aged |-> FALSE,
                                   stuck |-> FALSE]]
    /\ h = [p \in Handlers |-> Idle]
    /\ chain = <<>>
    /\ told = {}
    /\ granted = [i \in Intents |-> {}]
    /\ doubted = {}

-----------------------------------------------------------------------------
(* Helpers *)

Goto(p, step, i, c, n) ==
    h' = [h EXCEPT ![p] = [at |-> step, intent |-> i, payload |-> c,
                           raw |-> n, batch |-> {}]]

Rest(p) == h' = [h EXCEPT ![p] = Idle]

\* Mutant of Grant: the payload hashes are not compared.
GrantUnchecked(i, c) == granted' = [granted EXCEPT ![i] = @ \cup {c}]

\* The reply to a create that finds the key taken: the row when the payload
\* hashes agree, 409 otherwise.
Grant(i, c) ==
    granted' = IF rows[i].payload = c
               THEN [granted EXCEPT ![i] = @ \cup {c}]
               ELSE granted

\* UPDATE tx_intents SET status = ..., WHERE id = i AND status = from.
Update(i, from, row) ==
    rows' = IF rows[i].status = from THEN [rows EXCEPT ![i] = row] ELSE rows

Reset(i) == [rows[i] EXCEPT !.status = "pending", !.raw = NoRaw]

\* UPDATE ... SET status = confirmed | failed WHERE status = broadcasted, from
\* the receipt of transaction n.
Conclude(i, n) ==
    Update(i, "broadcasted",
           [rows[i] EXCEPT !.status = IF chain[n].state = "success"
                                      THEN "confirmed" ELSE "failed"])

\* p has claimed i, or is about to expire it.
Holds(p, i) == /\ h[p].at \in {"expire", "send", "revert", "record"}
               /\ h[p].intent = i

\* The transactions that moved, or may still move, the money of intent i.
Payments(i) == { n \in DOMAIN chain : /\ chain[n].intent = i
                                      /\ chain[n].state # "reverted" }

\* p is broadcasting i, or about to write what came of it.
Busy(p, i) == h[p].at \in {"send", "record", "revert"} /\ h[p].intent = i

\* History: a row of S leaves "broadcasting" before its TTL although its
\* transaction is on the chain or on its way there.
Loses(S) ==
    doubted' = doubted \cup
      { i \in S : /\ ~clock[i].past
                  /\ Payments(i) # {} \/ \E p \in Handlers : Busy(p, i) }

\* Hashes of i whose receipts somebody read or awaits and has not applied yet.
Verdicts(i) == { n \in told : chain[n].intent = i }
                 \cup { n \in DOMAIN chain :
                          \E p \in Handlers : <<i, n>> \in h[p].batch }

\* History: i is opened again although such a receipt of it is left.
Forgets(i) ==
    doubted' = IF Verdicts(i) = {} THEN doubted ELSE doubted \cup {i}

-----------------------------------------------------------------------------
(* POST /tx-intents *)

CreateRead(p, i, c) ==
    /\ h[p].at = "idle"
    /\ i \notin Refunds
    /\ \/ /\ rows[i].status = "none"
          /\ Goto(p, "createInsert", i, c, NoRaw)
          /\ UNCHANGED granted
       \/ /\ rows[i].status # "none"
          /\ clock[i].past
          /\ Goto(p, "createExpire", i, c, NoRaw)
          /\ UNCHANGED granted
       \/ /\ rows[i].status # "none"
          /\ ~clock[i].past
          /\ Grant(i, c)
          /\ UNCHANGED h
    /\ UNCHANGED <<rows, clock, chain, told, doubted>>

CreateInsert(p) ==
    LET i == h[p].intent
        c == h[p].payload
    IN  /\ h[p].at = "createInsert"
        /\ \/ /\ rows[i].status = "none"
              /\ rows' = [rows EXCEPT ![i] = [status |-> "pending",
                            raw |-> NoRaw, txHash |-> NoRaw, payload |-> c]]
              /\ granted' = [granted EXCEPT ![i] = @ \cup {c}]
              /\ Rest(p)
           \/ /\ rows[i].status # "none"      \* unique violation
              /\ Goto(p, "createReread", i, c, NoRaw)
              /\ UNCHANGED <<rows, granted>>
        /\ UNCHANGED <<clock, chain, told, doubted>>

CreateReread(p) ==
    /\ h[p].at = "createReread"
    /\ Grant(h[p].intent, h[p].payload)
    /\ Rest(p)
    /\ UNCHANGED <<rows, clock, chain, told, doubted>>

\* The insert of a refund approval, in routes/refundRequests.ts.
CreateRefund(i) ==
    /\ i \in Refunds
    /\ rows[i].status = "none"
    /\ rows' = [rows EXCEPT ![i].status = "pending"]
    /\ UNCHANGED <<clock, h, chain, told, granted, doubted>>

\* Mutant of Expire: every caller goes on to the insert of a create.
ExpireAndInsert(p) ==
    LET i == h[p].intent
    IN  /\ h[p].at \in {"expire", "createExpire"}
        /\ rows' = [rows EXCEPT ![i].status = "expired"]
        /\ Goto(p, "createInsert", i, h[p].payload, NoRaw)
        /\ UNCHANGED <<clock, chain, told, granted, doubted>>

\* The write of expireIfStale, whose WHERE clause is the id alone.  A create
\* goes on to its insert; every other caller ends.
Expire(p) ==
    LET i == h[p].intent
    IN  /\ h[p].at \in {"expire", "createExpire"}
        /\ rows' = [rows EXCEPT ![i].status = "expired"]
        /\ IF h[p].at = "createExpire"
           THEN Goto(p, "createInsert", i, h[p].payload, NoRaw)
           ELSE Rest(p)
        /\ UNCHANGED <<clock, chain, told, granted, doubted>>

(* GET /tx-intents/:id, when it finds a pending row past its expiry *)
GetStale(p, i) ==
    /\ h[p].at = "idle"
    /\ rows[i].status = "pending"
    /\ clock[i].past
    /\ Goto(p, "expire", i, None, NoRaw)
    /\ UNCHANGED <<rows, clock, chain, told, granted, doubted>>

(* PATCH /tx-intents/:id, sent by a client once it has the receipt of n *)
Patch(n) ==
    /\ n \in told
    /\ chain[n].state # "pool"
    /\ Conclude(chain[n].intent, n)
    /\ told' = told \ {n}
    /\ UNCHANGED <<clock, h, chain, granted, doubted>>

\* What the client may have read as the account's next nonce, now or earlier.
Nonces == (1 .. (Len(chain) + 1)) \cap (1 .. MaxChain)

(* POST /tx-intents/:id/sign *)
SignRead(p, i, n) ==
    /\ h[p].at = "idle"
    /\ rows[i].status = "pending"
    /\ IF clock[i].past THEN Goto(p, "expire", i, None, NoRaw)
                        ELSE Goto(p, "signWrite", i, None, n)
    /\ UNCHANGED <<rows, clock, chain, told, granted, doubted>>

SignWrite(p) ==
    LET i == h[p].intent
    IN  /\ h[p].at = "signWrite"
        /\ Update(i, "pending",
                  [rows[i] EXCEPT !.status = "signed", !.raw = h[p].raw])
        /\ Rest(p)
        /\ UNCHANGED <<clock, chain, told, granted, doubted>>

(* POST /tx-intents/:id/broadcast *)
Claim(p, i) ==
    /\ h[p].at = "idle"
    /\ rows[i].status = "signed"
    /\ rows' = [rows EXCEPT ![i].status = "broadcasting"]
    /\ clock' = [clock EXCEPT ![i].stuck = FALSE]
    /\ IF clock[i].past THEN Goto(p, "expire", i, None, NoRaw)
                        ELSE Goto(p, "send", i, None, rows[i].raw)
    /\ UNCHANGED <<chain, told, granted, doubted>>

\* The node takes the account's next nonce, from whichever intent it comes.
SendAccepted(p, next) ==
    /\ h[p].at = "send"
    /\ Len(chain) < MaxChain
    /\ h[p].raw = Len(chain) + 1
    /\ chain' = Append(chain, [intent |-> h[p].intent, state |-> "pool"])
    /\ h' = [h EXCEPT ![p].at = next]
    /\ UNCHANGED <<rows, clock, told, granted>>

Send(p) == SendAccepted(p, "record") /\ UNCHANGED doubted

\* The reply is lost: the row is about to be put back, its payment is made.
SendLost(p) ==
    /\ "lostReply" \in Faults
    /\ SendAccepted(p, "revert")
    /\ Loses({h[p].intent})

SendRejected(p) ==
    /\ h[p].at = "send"
    /\ h' = [h EXCEPT ![p].at = "revert"]
    /\ UNCHANGED <<rows, clock, chain, told, granted, doubted>>

\* Mutant of Revert: a refused transaction is recorded as sent.
RevertRecords(p) ==
    LET i == h[p].intent
    IN  /\ h[p].at = "revert"
        /\ Update(i, "broadcasting", [rows[i] EXCEPT !.status = "broadcasted",
                                                     !.txHash = h[p].raw])
        /\ Rest(p)
        /\ UNCHANGED <<clock, chain, told, granted, doubted>>

Revert(p) ==
    LET i == h[p].intent
    IN  /\ h[p].at = "revert"
        /\ Update(i, "broadcasting", Reset(i))
        /\ Rest(p)
        /\ UNCHANGED <<clock, chain, told, granted, doubted>>

\* The reply carries the hash only when the update matched, and the client may
\* be gone by then.
Record(p) ==
    LET i == h[p].intent
        n == h[p].raw
    IN  /\ h[p].at = "record"
        /\ Update(i, "broadcasting",
                  [rows[i] EXCEPT !.status = "broadcasted", !.txHash = n,
                                  !.raw = NoRaw])
        /\ \/ rows[i].status = "broadcasting" /\ told' = told \cup {n}
           \/ UNCHANGED told
        /\ Rest(p)
        /\ UNCHANGED <<clock, chain, granted, doubted>>

\* Mutant of Retry: a confirmed intent may be retried too.
RetryConfirmed(i) ==
    /\ rows[i].status \in {"failed", "confirmed"}
    /\ rows' = [rows EXCEPT ![i] = Reset(i)]
    /\ Forgets(i)
    /\ UNCHANGED <<clock, h, chain, told, granted>>

(* POST /tx-intents/:id/retry.  The read and the update test the same      *)
(* status, so the update alone decides.                                    *)
Retry(i) ==
    /\ rows[i].status = "failed"
    /\ rows' = [rows EXCEPT ![i] = Reset(i)]
    /\ Forgets(i)
    /\ UNCHANGED <<clock, h, chain, told, granted>>

\* Mutant of Stuck: the sweep looks for signed intents.
StuckSigned == { i \in Intents : rows[i].status = "signed" /\ clock[i].stuck }

(* workers/sweep.ts and POST /internal/tx-intents/sweep *)
Stuck == { i \in Intents : rows[i].status = "broadcasting" /\ clock[i].stuck }

Sweep ==
    /\ Stuck # {}
    /\ rows' = [i \in Intents |-> IF i \in Stuck THEN Reset(i) ELSE rows[i]]
    /\ Loses(Stuck)
    /\ UNCHANGED <<clock, h, chain, told, granted>>

(* POST /tx/sync: the three statements over tx_intents *)
TimedOut(i) == rows[i].status = "broadcasting" /\ clock[i].aged

SyncFail(p) ==
    /\ h[p].at = "idle"
    /\ rows' = [i \in Intents |->
                  IF TimedOut(i) THEN [rows[i] EXCEPT !.status = "failed"]
                                 ELSE rows[i]]
    /\ Loses({ i \in Intents : TimedOut(i) })
    /\ Goto(p, "syncRead", None, None, NoRaw)
    /\ UNCHANGED <<clock, chain, told, granted>>

SyncRead(p) ==
    /\ h[p].at = "syncRead"
    /\ h' = [h EXCEPT ![p].at = "syncVerdicts",
                      ![p].batch = { <<i, rows[i].txHash>> : i \in
                        { j \in Intents : rows[j].status = "broadcasted" } }]
    /\ UNCHANGED <<rows, clock, chain, told, granted, doubted>>

\* Mutant of SyncVerdict: a missing receipt counts as a failed one.
SyncVerdictNoReceipt(p) ==
    /\ h[p].at = "syncVerdicts"
    /\ \E b \in h[p].batch :
         /\ Conclude(b[1], b[2])
         /\ h' = [h EXCEPT ![p].batch = @ \ {b}]
    /\ UNCHANGED <<clock, chain, told, granted, doubted>>

SyncVerdict(p) ==
    /\ h[p].at = "syncVerdicts"
    /\ \E b \in h[p].batch :
         /\ IF chain[b[2]].state # "pool" THEN Conclude(b[1], b[2])
                                          ELSE UNCHANGED rows
         /\ h' = [h EXCEPT ![p].batch = @ \ {b}]
    /\ UNCHANGED <<clock, chain, told, granted, doubted>>

SyncDone(p) ==
    /\ h[p].at = "syncVerdicts"
    /\ h[p].batch = {}
    /\ Rest(p)
    /\ UNCHANGED <<rows, clock, chain, told, granted, doubted>>

-----------------------------------------------------------------------------
(* The environment *)

\* expiresAt is reached.  A transfer lives INTENT_TTL_MS = 5 minutes, the age
\* at which /tx/sync gives a broadcast up; a refund lives 24 hours.
PassExpiry(i) ==
    /\ rows[i].status # "none"
    /\ ~clock[i].past
    /\ i \in Refunds => clock[i].aged
    /\ clock' = [clock EXCEPT ![i].past = TRUE]
    /\ UNCHANGED <<rows, h, chain, told, granted, doubted>>

\* createdAt is BROADCASTING_TIMEOUT_MS old.
PassTimeout(i) ==
    /\ rows[i].status # "none"
    /\ ~clock[i].aged
    /\ i \notin Refunds => clock[i].past
    /\ clock' = [clock EXCEPT ![i].aged = TRUE]
    /\ UNCHANGED <<rows, h, chain, told, granted, doubted>>

\* updatedAt is STUCK_BROADCASTING_MS old.
PassStuck(i) ==
    /\ rows[i].status = "broadcasting"
    /\ ~clock[i].stuck
    /\ "slow" \in Faults \/ \A p \in Handlers : ~Holds(p, i)
    /\ clock' = [clock EXCEPT ![i].stuck = TRUE]
    /\ UNCHANGED <<rows, h, chain, told, granted, doubted>>

Mine(n) ==
    /\ chain[n].state = "pool"
    /\ \A m \in 1 .. (n - 1) : chain[m].state # "pool"
    /\ \E s \in {"success", "reverted"} :
         chain' = [chain EXCEPT ![n].state = s]
    /\ UNCHANGED <<rows, clock, h, told, granted, doubted>>

Crash(p) ==
    /\ "crash" \in Faults
    /\ h[p].at # "idle"
    /\ Rest(p)
    /\ UNCHANGED <<rows, clock, chain, told, granted, doubted>>

-----------------------------------------------------------------------------

Continue(p) ==
    \/ CreateInsert(p) \/ CreateReread(p) \/ Expire(p) \/ SignWrite(p)
    \/ Send(p) \/ SendLost(p) \/ SendRejected(p)
    \/ Revert(p) \/ Record(p)
    \/ SyncRead(p) \/ SyncVerdict(p) \/ SyncDone(p)

Next ==
    \/ \E p \in Handlers :
         \/ Continue(p)
         \/ SyncFail(p)
         \/ Crash(p)
         \/ \E i \in Intents :
              \/ \E c \in Payloads : CreateRead(p, i, c)
              \/ GetStale(p, i)
              \/ \E n \in Nonces : SignRead(p, i, n)
              \/ Claim(p, i)
    \/ \E i \in Intents : \/ CreateRefund(i) \/ Retry(i)
                          \/ PassExpiry(i) \/ PassTimeout(i) \/ PassStuck(i)
    \/ \E n \in DOMAIN chain : Patch(n) \/ Mine(n)
    \/ Sweep

Spec == Init /\ [][Next]_vars

\* The cron worker runs the sweep every 30 s, time passes, and a handler whose
\* process lives runs to its end.
Fairness ==
    /\ WF_vars(Sweep)
    /\ \A i \in Intents : WF_vars(PassStuck(i))
    /\ \A p \in Handlers : WF_vars(Continue(p))

FairSpec == Spec /\ Fairness

-----------------------------------------------------------------------------
(* Properties *)

TypeOK ==
    /\ rows \in [Intents -> [status : Status, raw : Nat, txHash : Nat,
                              payload : Payloads \cup {None}]]
    /\ clock \in [Intents -> [past : BOOLEAN, aged : BOOLEAN, stuck : BOOLEAN]]
    /\ h \in [Handlers -> [at : Steps, intent : Intents \cup {None},
                            payload : Payloads \cup {None}, raw : Nat,
                            batch : SUBSET (Intents \X Nat)]]
    /\ \A p \in Handlers :
         /\ h[p].at \notin {"idle", "syncRead", "syncVerdicts"} =>
              h[p].intent \in Intents
         /\ h[p].at \in {"createExpire", "createInsert", "createReread"} =>
              h[p].payload \in Payloads
    /\ chain \in Seq([intent : Intents, state : {"pool", "success", "reverted"}])
    /\ told \subseteq Nat
    /\ granted \in [Intents -> SUBSET Payloads]
    /\ doubted \subseteq Intents

PaidOnce(i) == \A m, n \in Payments(i) : m = n

\* An intent moves its money at most once, whatever is retried, re-signed or
\* raced: the claim of docs/architecture.md:83 that the atomic signed ->
\* broadcasting update prevents a double broadcast.
NoDoublePayment == \A i \in Intents : PaidOnce(i)

\* The only ways to a second payment are the moments in which the code loses
\* track of a transaction: a row taken out of "broadcasting" by the sweep or by
\* /tx/sync before its TTL, a reply that is lost, and a retry while a receipt of
\* the old hash is not applied yet.  Whatever else is retried, re-signed, raced,
\* reverted or expired, by whatever faults, an intent moves its money at most
\* once.
TrackedPaidOnce == \A i \in Intents \ doubted : PaidOnce(i)

\* What a client reads on a settled row is true of the chain: a broadcasted or
\* confirmed row carries a hash the node took for this very intent, and a
\* confirmed one a hash that succeeded, although PATCH and /tx/sync never name
\* the hash they are about; the second unless the code lost track of the intent.
SettledRowsAreTrue ==
    \A i \in Intents :
      LET n == rows[i].txHash
      IN  /\ rows[i].status \in {"broadcasted", "confirmed"} =>
                n \in DOMAIN chain /\ chain[n].intent = i
          /\ rows[i].status = "confirmed" /\ i \notin doubted =>
                chain[n].state = "success"

\* Concurrent and repeated creates under one idempotency key, before and after
\* its expiry, are never answered with a row for another payload.
NoPayloadSwap == \A i \in Intents : granted[i] \subseteq {rows[i].payload}

\* A claimable row carries the bytes to broadcast: no interleaving of sign,
\* revert, retry and sweep leaves a signed row without them, so the "No signed
\* transaction data" branch of the broadcast handler is never taken.
SignedHasBytes ==
    \A i \in Intents : rows[i].status \in {"signed", "broadcasting"} =>
                          rows[i].raw # NoRaw

\* Two handlers never broadcast one intent at the same time, unless it was
\* taken from the first while it was at it.
OneBroadcaster ==
    \A i \in Intents \ doubted : \A p, q \in Handlers :
      Busy(p, i) /\ Busy(q, i) => p = q

\* Expiry is final: no handler that read the row before it expired brings it
\* back.
ExpiredIsFinal ==
    [][\A i \in Intents : rows[i].status = "expired" =>
                              rows'[i].status = "expired"]_vars

\* A merchant who was told of a payment is not told afterwards that it expired.
\* The code does not keep it: a create that uses the key again after the TTL
\* writes "expired" by the id alone, whatever the status.
ConfirmedIsFinal ==
    [][\A i \in Intents : rows[i].status = "confirmed" =>
                              rows'[i].status = "confirmed"]_vars

\* workers/sweep.ts: an intent does not stay in broadcasting, even when the
\* handler that claimed it died.
BroadcastingEnds ==
    \A i \in Intents : rows[i].status = "broadcasting" ~>
                          rows[i].status # "broadcasting"
=============================================================================
