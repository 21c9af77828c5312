------------------------- MODULE IncomingTransfers -------------------------
(***************************************************************************)
(* The scan of incoming transfers, packages/shared/src/tx/                 *)
(* reconcileIncomingTransfers.ts, and the rows of the transactions table   *)
(* it shares with the payment reconciler and with /tx/sync.                *)
(*                                                                         *)
(* A scan is one call: by the cron worker every 30 seconds, which does not *)
(* wait for the last one, or by an internal route.  A step is one RPC call *)
(* or one SQL statement with the code up to the next await.  The scan of   *)
(* one token is modelled: the two share the height and the addresses read  *)
(* first and touch neither's rows nor cursor.  A transfer stands for one   *)
(* Transfer event of a positive value, each to a wallet of its own.        *)
(***************************************************************************)
EXTENDS Integers, FiniteSetsExt

CONSTANTS
    Transfers,  \* the events (hash, logIndex)
    Sold,       \* those that pay a payment request
    Scans,      \* concurrent calls, each of which may fail at any await
    Cron,       \* those the cron worker starts, again and again
    Window,     \* BLOCK_WINDOW
    Required,   \* PAYMENT_REQUIRED_CONFIRMATIONS
    Lag,        \* how many blocks an answer of a provider may lag
    MaxBlock    \* bound: height of the chain, whose last blocks are empty

ASSUME IncomingAssumption ==
    /\ Sold \subseteq Transfers
    /\ Cron \subseteq Scans
    /\ {Window, Required, Lag, MaxBlock} \subseteq Nat
    /\ Window > 0 /\ Lag <= 1

VARIABLES
    rows,       \* the transactions table, at the key of each transfer
    cursor,     \* token_scan_cursors.lastBlock, or NoCursor
    scan,       \* where each scan stands, and its local variables
    registered, \* the transfers whose receiver is in the addresses table
    height,     \* the chain
    mined,      \* the block of a transfer, 0 while it has none
    outage,     \* whether the awaits of the cron worker may fail now
    followed    \* history: those mined after a cursor and their wallet existed

vars == <<rows, cursor, scan, registered, height, mined, outage, followed>>

NoCursor == -1

Absent == [type |-> "none", status |-> "none"]

Row == {Absent} \cup [type : {"receive"}, status : {"confirmed"}]
                \cup [type : {"collected"}, status : {"pending", "confirmed"}]

Idle == [at |-> "idle", safe |-> 0, known |-> {}, from |-> 0, logs |-> {}]

Init ==
    /\ rows = [t \in Transfers |-> Absent]
    /\ cursor = NoCursor
    /\ scan = [k \in Scans |-> Idle]
    /\ registered = {}
    /\ height = 1
    /\ mined = [t \in Transfers |-> 0]
    /\ outage = FALSE
    /\ followed = {}

-----------------------------------------------------------------------------
(* A scan *)

\* A height some provider answers now, or viem has cached.
Heights == { n \in 1 .. height : n + Lag >= height }

\* Mutant of SafeBlock: the last block itself.
SafeBlockAtHead(n) == n

\* safeBlock, one behind the height a provider answered.
SafeBlock(n) == n - 1

\* The call of getBlockNumber.
Begin(k) ==
    /\ scan[k].at = "idle"
    /\ \E n \in Heights :
         scan' = [scan EXCEPT ![k].at = "wallets", ![k].safe = SafeBlock(n)]
    /\ UNCHANGED <<rows, cursor, registered, height, mined, outage, followed>>

\* The select of the addresses; a scan of none returns.
LoadWallets(k) ==
    /\ scan[k].at = "wallets"
    /\ scan' = [scan EXCEPT ![k] =
         IF registered = {} THEN Idle
         ELSE [@ EXCEPT !.at = "cursor", !.known = registered]]
    /\ UNCHANGED <<rows, cursor, registered, height, mined, outage, followed>>

\* fromBlock, of a scan up to block safe.
FromBlock(safe) ==
    IF cursor # NoCursor THEN cursor + 1
    ELSE IF safe > Window THEN safe - Window ELSE 0

\* The select of the token's cursor; a scan with nothing new is over.
ReadCursor(k) ==
    /\ scan[k].at = "cursor"
    /\ scan' = [scan EXCEPT ![k] =
         IF FromBlock(scan[k].safe) > scan[k].safe THEN Idle
         ELSE [@ EXCEPT !.at = "logs", !.from = FromBlock(scan[k].safe)]]
    /\ UNCHANGED <<rows, cursor, registered, height, mined, outage, followed>>

\* The last block of the chunk that scan s is at.
ToBlock(s) == IF s.from + Window - 1 > s.safe THEN s.safe ELSE s.from + Window - 1

\* Scan s with these logs of its chunk left: it goes on with them, with the next
\* chunk, or with its cursor.
Continue(s, logs) ==
    IF logs # {} THEN [s EXCEPT !.at = "insert", !.logs = logs]
    ELSE IF ToBlock(s) < s.safe
         THEN [s EXCEPT !.at = "logs", !.from = ToBlock(s) + 1, !.logs = {}]
         ELSE [Idle EXCEPT !.at = "save", !.safe = s.safe]

\* The call of getLogs, by a provider at height n, and the choice of those that
\* reach a wallet loaded before.
FetchLogs(k) ==
    /\ scan[k].at = "logs"
    /\ \E n \in Heights :
         scan' = [scan EXCEPT ![k] = Continue(scan[k],
           { t \in scan[k].known : /\ mined[t] \in scan[k].from .. ToBlock(scan[k])
                                   /\ mined[t] \in 1 .. n })]
    /\ UNCHANGED <<rows, cursor, registered, height, mined, outage, followed>>

\* Mutant of Insert: the scan overwrites the row it finds.
InsertOver(k, t) ==
    /\ scan[k].at = "insert" /\ t \in scan[k].logs
    /\ rows' = [rows EXCEPT ![t] = [type |-> "receive", status |-> "confirmed"]]
    /\ scan' = [scan EXCEPT ![k] = Continue(scan[k], scan[k].logs \ {t})]
    /\ UNCHANGED <<cursor, registered, height, mined, outage, followed>>

\* Mutant of Insert: a row that is there makes the scan throw.
InsertThrows(k, t) ==
    /\ scan[k].at = "insert" /\ t \in scan[k].logs
    /\ IF rows[t] = Absent
       THEN /\ rows' = [rows EXCEPT ![t] = [type |-> "receive", status |-> "confirmed"]]
            /\ scan' = [scan EXCEPT ![k] = Continue(scan[k], scan[k].logs \ {t})]
       ELSE /\ scan' = [scan EXCEPT ![k] = Idle]
            /\ UNCHANGED rows
    /\ UNCHANGED <<cursor, registered, height, mined, outage, followed>>

\* Mutant of Insert: the row is stored as pending.
InsertPending(k, t) ==
    /\ scan[k].at = "insert" /\ t \in scan[k].logs
    /\ rows' = [rows EXCEPT ![t] = IF @ = Absent
                  THEN [type |-> "receive", status |-> "pending"] ELSE @]
    /\ scan' = [scan EXCEPT ![k] = Continue(scan[k], scan[k].logs \ {t})]
    /\ UNCHANGED <<cursor, registered, height, mined, outage, followed>>

\* The insert of one log, on conflict do nothing.
Insert(k, t) ==
    /\ scan[k].at = "insert" /\ t \in scan[k].logs
    /\ rows' = [rows EXCEPT ![t] = IF @ = Absent
                  THEN [type |-> "receive", status |-> "confirmed"] ELSE @]
    /\ scan' = [scan EXCEPT ![k] = Continue(scan[k], scan[k].logs \ {t})]
    /\ UNCHANGED <<cursor, registered, height, mined, outage, followed>>

\* The upsert of the cursor, whatever it says by now.
SaveCursor(k) ==
    /\ scan[k].at = "save"
    /\ cursor' = scan[k].safe
    /\ scan' = [scan EXCEPT ![k] = Idle]
    /\ UNCHANGED <<rows, registered, height, mined, outage, followed>>

\* An await throws or the process dies: the rows so far stay, the cursor does
\* not move.
Fail(k) ==
    /\ scan[k].at # "idle"
    /\ k \in Cron => outage
    /\ scan' = [scan EXCEPT ![k] = Idle]
    /\ UNCHANGED <<rows, cursor, registered, height, mined, outage, followed>>

-----------------------------------------------------------------------------
(* The others *)

\* The payment reconciler, at height n, has credited t and upserts its row: a
\* collection, of which a row that is there keeps its status.
Collect(t) ==
    /\ t \in Sold \cap registered
    /\ \E n \in Heights :
         /\ mined[t] \in 1 .. n
         /\ rows' = [rows EXCEPT ![t] =
              IF @ # Absent THEN [@ EXCEPT !.type = "collected"]
              ELSE [type |-> "collected",
                    status |-> IF n - mined[t] + 1 >= Required
                               THEN "confirmed" ELSE "pending"]]
    /\ UNCHANGED <<cursor, scan, registered, height, mined, outage, followed>>

\* POST /tx/sync, which the receiver's browser sends when the wallet is unlocked
\* and nothing repeats, for a row whose receipt is found: it holds the event, so
\* it is a success.
Sync(t) ==
    /\ rows[t].status = "pending"
    /\ rows' = [rows EXCEPT ![t].status = "confirmed"]
    /\ UNCHANGED <<cursor, scan, registered, height, mined, outage, followed>>

\* The receiver of t registers the wallet.
Register(t) ==
    /\ t \notin registered
    /\ registered' = registered \cup {t}
    /\ UNCHANGED <<rows, cursor, scan, height, mined, outage, followed>>

\* A block, with some of the transfers.
Mine(new) ==
    /\ height < MaxBlock
    /\ new # {} => height + 2 + Lag <= MaxBlock
    /\ \A t \in new : mined[t] = 0
    /\ height' = height + 1
    /\ mined' = [t \in Transfers |-> IF t \in new THEN height' ELSE mined[t]]
    /\ followed' = IF cursor = NoCursor THEN followed
                   ELSE followed \cup (new \cap registered)
    /\ UNCHANGED <<rows, cursor, scan, registered, outage>>

\* The provider, the database or the process goes down, or comes back.
Turn ==
    /\ outage' = ~outage
    /\ UNCHANGED <<rows, cursor, scan, registered, height, mined, followed>>

-----------------------------------------------------------------------------
Step(k) ==
    \/ Begin(k) \/ LoadWallets(k) \/ ReadCursor(k) \/ FetchLogs(k)
    \/ \E t \in Transfers : Insert(k, t)
    \/ SaveCursor(k)

Next ==
    \/ \E k \in Scans : Step(k) \/ Fail(k)
    \/ \E t \in Transfers : Collect(t) \/ Sync(t) \/ Register(t)
    \/ \E new \in SUBSET Transfers : Mine(new)
    \/ Turn

Spec == Init /\ [][Next]_vars

\* The chain grows; the cron starts scan after scan, whatever became of the last
\* ones; and the outages of the cron end, after any number of scans that failed at
\* any await.  Nobody is assumed to sync, to register or to credit, and a call of
\* the internal route may fail or hang for ever.
Fairness ==
    /\ WF_vars(Mine({}))
    /\ \A k \in Cron : WF_vars(Step(k))
    /\ <>[](~outage)

FairSpec == Spec /\ Fairness

-----------------------------------------------------------------------------
(* Properties *)

TypeOK ==
    /\ rows \in [Transfers -> Row]
    /\ cursor \in Nat \cup {NoCursor}
    /\ scan \in [Scans -> [at : {"idle", "wallets", "cursor", "logs", "insert", "save"},
                           safe : Nat, known : SUBSET Transfers, from : Nat,
                           logs : SUBSET Transfers]]
    /\ registered \subseteq Transfers
    /\ height \in Nat \ {0}
    /\ mined \in [Transfers -> Nat]
    /\ outage \in BOOLEAN
    /\ followed \subseteq Transfers

\* The cursor passes no transfer to a wallet that was registered before the
\* transfer was mined, although scans overlap, fail, move the cursor back and
\* ask providers that lag by a block: its row is there.  The height is read
\* before the addresses, and the block behind it is one that every provider
\* has.  (Of the transfers before the first cursor some are never scanned.)
NothingMissed ==
    \A t \in followed : mined[t] <= cursor => rows[t] # Absent

\* reconcileIncomingTransfers.ts:106: "type=null (cobro) is immutable once
\* written", whichever of the scan and the payment reconciler comes first and
\* however often; and what is confirmed stays so.
CollectionsStay ==
    [][\A t \in Transfers :
         /\ rows[t].type = "collected" => rows'[t].type = "collected"
         /\ rows[t].status = "confirmed" => rows'[t].status = "confirmed"]_vars

\* What GET /tx/activity makes of the row for its receiver, "hidden" when it
\* leaves it out.
Kind(t) ==
    CASE rows[t].type = "receive" -> "receive"
      [] rows[t].type = "collected" /\ rows[t].status = "confirmed" -> "collected"
      [] OTHER -> "hidden"

\* A collection that was credited before its depth: a row GET /tx/activity hides,
\* for as long as the receiver does not unlock the wallet.
AwaitsSync(t) == rows[t] = [type |-> "collected", status |-> "pending"]

\* A transfer that is followed comes to be shown, for good, although any call may
\* fail at any await and a failed scan leaves rows without a cursor: the scans
\* after it meet those rows, and rows of the reconciler.  The exception is a
\* collection that was credited early, which no scan repairs: it awaits a sync.
EveryTransferShown ==
    \A t \in Transfers : t \in followed ~> [](Kind(t) # "hidden" \/ AwaitsSync(t))
=============================================================================
