# TLA+ specifications of walty

walty is a business wallet: a Next.js web client (`apps/web`), an Express and
Socket.IO API (`apps/api`), domain code shared by both (`packages/shared`) and a
PostgreSQL schema (`packages/db`). A key is split by multi-party computation (MPC)
into a device share, a server share and a backup share in a recovery kit; two of
them sign. Payments and refunds are transactions on a public chain, which the API
watches by polling receipts and logs.

The specifications here model the parts of walty where money or keys can be lost by
an order of steps nobody tested. Every definition is translated from the source;
`PROJECT.json` maps each one to the lines it stands for. Paths below are relative to
the root of the repository, `payments/`, `tx-intents/` and the like to
`packages/shared/src/`, `routes/`, `workers/` and `services/` to `apps/api/src/`.

Contents: 1 inventory, 2 modules and code, 3 runs, 4 findings, 5 proofs, 6 what is
abstracted and left out, 7 plan.

## 1. Inventory

| Part | State | Operations | Interacts with | What is hard | What makes it correct | Status |
| --- | --- | --- | --- | --- | --- | --- |
| Transaction intents (`routes/txIntents.ts`, `routes/tx.ts`, `workers/sweep.ts`, `tx-intents/expire.ts`) | `tx_intents`: status, signed bytes, hash, payload hash, three time stamps | create, get, patch, sign, broadcast, retry, sweep, `/tx/sync` | node RPC, web client, refund approval | several requests on one row, a death between the RPC call and the write, three clocks, verdicts that name no hash | a payment moves once, a settled row is true, an idempotency key never answers with another payload, nothing stays in broadcasting | `TxIntent` and its family |
| Payment requests and their reconciler (`payments/reconcilePendingPaymentRequests.ts`, `routes/paymentRequests.ts`) | `payment_requests`, `split_payment_contributions`, a log cursor per request | create, cancel, tick (confirm, scan, claim, contribute, save, settle, expire) | node RPC, cron, polling GETs, POS, realtime events, `transactions` | ticks overlap, heights lag, a tick fails in the middle, a deadline races a payment | totals are sums, paid is deep and final, cancellation is final, no payment in time is lost, every request ends | `PaymentReconciler` |
| Refund requests (`routes/refundRequests.ts`, `routes/pos.ts`) | `refund_requests`, the intent of an approval | create (business, POS), approve, reject, mark_executed | intents, wallet client | check-then-act on several tables, a death between two inserts, retries of mark_executed | money moves once per refund, executed means paid, rejected means unpaid | `RefundRequests` |
| Server key share and recovery (`routes/wallet.ts`, `services/mpc/recoverStaging.ts`, onboarding pages) | `mpc_keys.version`, `mpc_server_shares`, staged recoveries in memory, kits and device shares of the user | recover, commit, staging sweep, restart | KMS, browser | two phases over a volatile store, two statements of a commit, lost answers, concurrent recoveries | a kit of the user recovers the key, a device told to keep its share signs | `ShareRecovery` |
| MPC ceremonies (`services/mpc/ceremony.ts`, `ws/mpc.ts`, `apps/web/lib/mpc/mpcClient.ts`) | a ceremony per socket: round, reaper, deadline; slots per user; the page's own step | connect, start, round, answer, abort, reap, persist, disconnect, revoke | MPC engine, sockets, device sessions, `mpc_keys` | caps read before awaits, an abort or a reaper during the last persist, a socket that is gone before its ceremony is registered, a revocation between check and use | a slot is given back once, both ends agree on the round and on the keys, a revoked device's ceremonies end | `Ceremony`, `KeyGeneration` |
| Wallet custody in the browser (`apps/web/lib/wallet-status.ts`, onboarding pages and guard, `useWalletLifecycle.ts`) | device share in IndexedDB, shares in the page, wallet status, session | generate, download the kit, choose a PIN, recover, unlock, lock, log in and out, status check | `GET /mpc-key`, ceremonies, recovery | answers that are late, wrong or of another session, reloads, two owners of one browser | a kept share has its kit, a registered key can be used again | `Custody` |
| Device sessions and pairing (`services/deviceSessions.ts`, `routes/devices.ts`, `routes/session.ts`) | sessions, nonces, pairing requests | attest, pair, approve, reject, revoke, expire | web client, ceremonies, realtime events | decisions on a row read earlier, the sweep that expires, open sockets of a revoked session | one decision per pairing, a revoked device stays out | revocation and trust in `Ceremony`; pairing not modelled |
| POS terminals (`middleware/withPos.ts`, `routes/pos.ts`) | terminal status, nonces | create, activate, revoke, signed requests | payment and refund requests, child wallets | a row without its child, a status read before two awaits and written after them, replays and clocks | a terminal can be signed for, a request goes through once, a revoked terminal stays revoked | `ChildWallets`, `PaymentReconciler`, `RefundRequests` |
| Members and derivation indexes (`routes/business.ts`, `routes/join.ts`, `services/derivationIndex.ts`) | members, invitations, indexes and addresses of child keys | invite, delete, next index; join, suspend, revoke, reactivate | POS terminals, MPC engine | maximum over two tables without a lock, updates by id alone | one index, one wallet; one invitation, one user | indexes in `ChildWallets`; statuses not modelled |
| Incoming transfers (`tx/reconcileIncomingTransfers.ts`, `routes/internal.ts`) | a cursor per token, `transactions` | scan, insert, move the cursor | reconciler of requests, `/tx/sync`, activity list | overlapping scans, a height, the addresses and the cursor read one after the other, providers that lag, a row another writer inserts or changes | no transfer passed over, a collection stays one, every transfer shown in the end | `IncomingTransfers` |
| Treasury (`services/treasury.ts`, `services/safeRoles.ts`, `routes/treasury.ts`) | the row's two statuses; on the chain a Safe, a modifier, an allowance, managers | deploy, set up roles, assign a manager | node RPC, admin account | a failure between chain and row, overlapping set-ups, transactions mined after their handler gave up, a receipt nobody reads | the row is true of the chain, nobody has the role before its limits, managers move no more than the cap | `Treasury` |
| Workers (`workers/`) | none | cron ticks every 30 s | all of the above | ticks start without waiting for the last one | see the components | their ticks are actions of the models |
| Activity, schema, wallet client | `transactions` rows; tables; local keys | listings, calls | all | | | the part the models use |
| Transaction verification, key management, accounts and permissions, rate limit, refund policy table, rounds of the MPC engine, realtime delivery, prices and RPC providers, pages, bootstrap | none, or one row per request | | | pure functions, cryptography, presentation and I/O | | not modelled |

Interaction, from the outside in: the web client creates intents, has them signed in a
ceremony, broadcasts them through the API and reports receipts; a ceremony generates the
owner's key, whose children are the wallets of cashiers and terminals; a refund approval
inserts an intent the wallet pays like any other; the reconciler and the transfers scan
read the same chain for incoming money and write the same `transactions` table;
the workers run the sweep and the reconciler from the side, on rows that requests
are working on. All of them share rows with no lock held over an `await`, so almost
every hazard is a row read before an `await` and written after it. The hazards, at their
lines and with the properties that watch them, are listed in `PROJECT.json`.

## 2. Modules and the code they model

A step of every model is one SQL statement, one database transaction or one RPC call,
with the synchronous code up to the next `await`. A request, or a tick, is a process with
a program counter `at` and the values it read (`h`, `tick`); between two of its steps
every other process may act. A SQL `UPDATE ... WHERE status = x` is an action whose guard
is evaluated on the row as it is then, an update by id alone has no such guard, which is
where stale reads bite.

### TxIntent

| Code | Model |
| --- | --- |
| `tx_intents` | `rows`: status, bytes (`raw`, 0 for null), `txHash`, `payload` |
| `expires_at`, `created_at`, `updated_at` against their limits | `clock`: `past`, `aged`, `stuck`, moved by `PassExpiry`, `PassTimeout`, `PassStuck` |
| a transaction of the account, with its nonce | a position in `chain`: the intent it pays, and pool, success or reverted |
| receipts a client may still report | `told` |
| payloads a caller was answered with under a key | `granted` |
| `POST /tx-intents` | `CreateRead`, `Expire`, `CreateInsert`, `CreateReread` |
| `GET` and the lazy expiry of `expireIfStale` | `GetStale`, `Expire` |
| `PATCH /:id`, `POST /:id/sign`, `/broadcast`, `/retry` | `Patch`; `SignRead`, `SignWrite`; `Claim`, `Send`, `SendLost`, `SendRejected`, `Record`, `Revert`; `Retry` |
| `runSweep` | `Sweep`, all stuck rows in one statement |
| intent half of `POST /tx/sync` | `SyncFail` (rows that timed out), `SyncRead`, `SyncVerdict`, `SyncDone` |
| process death, mining | `Crash`, `Mine` |

`Faults` names what the environment may do: `crash`, `slow` (a broadcast outlasts the
sweep's limit), `lostReply` (the node accepts and the call still throws). Every run and every
theorem but the traces of section 4 allows all three. A receipt applied late is no fault: a
retry is free while a `/tx/sync` or a client holds a receipt of the old hash, as in the code.

`doubted` is a history variable: the intents whose transaction the code lost track of. An
intent gets there in four ways: its row leaves broadcasting before its time limit while the
transaction is sent or about to be, by the sweep or by `/tx/sync` (`Loses`); the reply of the
node is lost; or the row is opened again by a retry while a receipt of its old hash is still
to be applied (`Forgets`). What such an intent may do is finding 1. Refund intents
(`Refunds`) differ by their 24 hour life; transfers live five minutes, the age at which
`/tx/sync` gives up.

`TxIntentInvariant` holds the inductive invariant and the refinement mapping to
`PaymentOrder`, the abstract promise: paid at most once, reported confirmed only when paid,
not paid again after that. Of an order the code lost track of it promises only the order of
its reports; it shares `doubted` with `TxIntent`. The refinement covers transfers and refund
intents, under every fault.

### PaymentReconciler

| Code | Model |
| --- | --- |
| `payment_requests` | `rows`: status, `tx`, confirmations, start, cursor `scanned`, deadline, total |
| `split_payment_contributions`, their `confirmed` flag | `contrib`, `settled` |
| `transactions` rows, `payment.paid` events | `history`, `announced` |
| one call of `reconcilePendingPaymentRequests` (cron, internal route, polling GET) | a tick `k`: `Start`, then per row `Row` (the height), `Clock` (the time, once the height is there), `Confirm`, `Scan`, per log `Check`, `Claim`/`Save` or `Contribute`, then `Settle`, `Close` |
| creation, cancellation | `Create`, `Cancel` |
| chain | `height`, `mined`, `Mine` |
| an error that ends a row or the tick | `Fail`, and the branches that rethrow |

`Claim` is the conditional update of a plain request; `Contribute` is the transaction of a split
one (insert, sum, flip); `Close` the expiry, by the clock of the row and not its height: the
chain may grow between the two reads, even with exact nodes. `Heights` are the answers a node,
or the cached block number, may give: at most `Lag` behind. `torn` is a history variable: split
requests with logs still to handle when a tick left them (`CutShort`).

### RefundRequests

| Code | Model |
| --- | --- |
| `refund_requests` | `refunds[r]`: status, payment, amount, destination, intent, hash |
| the two creations (business and POS) | `CreateRead`, `CreateInsert` |
| an approval, a rejection | `ReviewRead`, `ApproveInsert`, `ApproveWrite`; `ReviewRead`, `RejectWrite` |
| mark_executed | `ExecuteRead`, `ExecuteVerify` of any hash, `ExecuteWrite` |
| its two ways to accept a hash | `ConfirmedWith` (the linked intent is confirmed with it), `WentTo` (`verifyTransaction` without an amount: it succeeded, and went to the destination) |
| the wallet, the chain | `Pay`, `PayOther` (what the owner sends for another reason), `Mine` |
| the fate of an intent | `Settle`, `Lose` |

An intent is a `PaymentOrder`: `Pay`, `Mine` and `Settle` are conjoined with the actions of the
abstract specification, and `Lose` is the moment an intent becomes `doubted`, after which it may
be paid any number of times. `TxIntent` is shown to implement that specification for refund
intents too, by a run of its own (`refund_intents`) and by the theorem `Refinement`, so the two
models compose without a product of their states. `raced` is a history variable: refunds
two reviews of which overlapped (`Reviewing`), and payments two creations for which did
(`Creating`).

### ShareRecovery

| Code | Model |
| --- | --- |
| `mpc_keys.version` | `version` |
| the row of `mpc_server_shares` | `live`: polynomial and version it is encrypted under |
| `recoverStaging.ts` `store` | `store`: entries of polynomial, version, consumed |
| the three new shares of `runLocalRecover` | one fresh polynomial, numbered in `minted`; the commit token is as fresh, and represented by it |
| downloaded kits | `kits`: polynomial and generation; `Legacy` for kits without one |
| a browser in the onboarding pages | `w[c]`: away, asking, kit, pin, committing, confirmed, saved |
| `POST /mpc-recover` | `Ask`, `CheckGeneration`, `LoadKey`, `LoadShare`, `Stage` |
| `POST /mpc-recover/commit` | `Commit`, `Take`, `Bump`, `Write`, `Mark` |
| download, `saveDeviceShare`, error or lost answer, reload | `SaveKit`, `SaveDevice`, `GiveUp`, `Leave` |
| staging expiry, database error, restart | `Sweep`, `Fail`, `Restart` |

A request may always die between the two statements of a commit, and `torn` is a history
variable that says whether one has.

### Ceremony and KeyGeneration

| Code | Model |
| --- | --- |
| an operation of `MpcClient`: `connect`, `startServerCeremony`, the driver, `close` | `page[s]`: connecting, starting, waiting for a round; `Connect`, `Start`, `Begin`, `Answer`, `Again`, `Result`, `Fail` |
| the connection, as either end knows it | `link[s]`: handshake, open, cut (only the page has left), closed (only the server has) |
| messages and replies under way | `up[s]`, `down[s]` |
| the handlers of `ceremony:start` and `ceremony:message`, suspended at an `await` | `h[s]`: start, create, round, persist, finish |
| `authMiddleware`, `isSocketSessionLive`, `killSocket` | `Authenticate`, `Check`, `SessionLive`, `CloseServerEnd` |
| caps, rate limit, `Ceremony.create` and registration | `WithinCap`, `Refuse`, `Create` |
| `guard`, a round, the last round | `NotFound`, `GuardThrows`, `RoundThrows`, `Round`, `LastStep`, `Persist`, `LastStepThrows`, `Finish` |
| `teardown` with its one-shot hook, `abort`, the reaper | `Teardown`, `AbortMapped`, `Reap` |
| `liveCeremoniesByUser` | `live` |
| disconnection, `POST /devices/:id/revoke`, restart | `Disconnect`, `Revoke`, `Restart` |

A message on a socket that is not open any more is lost (`Send`): the client does not reconnect.
`MpcClient` opens a socket for each operation, so a socket is named for its device and has one
ceremony at a time; to derive is to sign twice. `KeyGeneration` is the promise about keys: the
server stores its share before the device has its own, only the device that generated a key gets
one, and generating a key is what makes a device trusted.

### Custody

| Code | Model |
| --- | --- |
| session cookie, `mpc_keys` rows | `session`, `keys[u]` in order of insertion |
| device share in IndexedDB, downloaded kits | `saved`, `kits` |
| the onboarding context: device and backup share | `ram` |
| `determineWalletStatus`, two reads and what follows | `check`; `CheckRead`, `CheckNoKey`, `CheckKey`, `CheckThrows` |
| `OnboardingGuard`, `getNextOnboardingStep`, a layout that mounts or unmounts its provider | `Guard`, `NextStep`, `Allowed`, `GoTo`, `Unmount` |
| create-wallet, with the generations under way and what waits for each: the onboarding context, code of a layout that is gone, nothing | `dkg[g]`; `Generate`, `Stored`, `Generated`, `GenerateFails`, `Forgotten` |
| recovery-kit, create-pin, recover | `NothingHeld`, `Download`, `Continue`, `ChoosePin`, `Recover` |
| lock, unlock, reload, login, logout, expiry | `Unlock`, `Lock`, `Visit`, `Login`, `Logout`, `Expire` |

Leaving the onboarding layout unmounts its provider, in a client-side navigation to the
dashboard too: the shares it held are gone, and a generation under way goes on
for nobody. `lost` is a history variable: the keys whose shares were dropped, in this or in
another way, before their kit was downloaded. `Unsaved` and `Awaited` are the keys that the
context holds, or waits for, without a kit.

### ChildWallets

| Code | Model |
| --- | --- |
| indexes in `business_members`; `pos_devices` by index; `mpc_child_addresses` | `members`, `terminals`, `children` |
| `InviteModal`, `CreatePosModal` and their requests | `form[f]`: derive, register; `GetNext`, `Abandon`, `Invite`, `CreateTerminal`, `IndexTaken`, `Register`, `RegisterFails` |
| the key of a terminal, in the answer to its creation | `keyed` |
| `DELETE /business/members/:id`, `DELETE /business/pos/:id` | `DeleteInvitation`, `Revoke` |
| a terminal's request with its time | `signed[q]`; `Sign` |
| `verifyPos` between its awaits | `h[p]`; `Verify`, `Accept`, `Replayed`, `Link` |
| `pos_request_nonces` and their pruning | `nonce[q]`, `Prune` |

`RegisterFails` leaves the row or deletes it, with or without the child: the read of the key is
outside the `try` that deletes (`routes/pos.ts:126`), the delete may fail too, and a process may
die. The answer of a creation that went through may be lost as well, and then the key it carried
is nobody's. A form stands for a page and for the request it leaves behind, so two tabs, a
reload in the middle and a second manager are all two forms. `raced` is a history variable:
indexes that were given to a form while another held them.

### IncomingTransfers

| Code | Model |
| --- | --- |
| `transactions`, at the key of an event (hash and log index) | `rows[t]`: type (`receive`, or `collected` for null), status |
| `token_scan_cursors` | `cursor`, `NoCursor` before the first |
| `addresses` | `registered`: the transfers whose receiver has a row |
| one call of `reconcileIncomingTransfers`, for one token | `scan[k]`: `Begin` (the height), `LoadWallets`, `ReadCursor`, per chunk `FetchLogs`, per log `Insert`, `SaveCursor`; `Fail` at any `await` |
| `fromBlock`, the chunks of `BLOCK_WINDOW` | `FromBlock`, `ToBlock`, `Continue` |
| `upsertReceiveTransaction` of the payment reconciler, `POST /tx/sync` | `Collect`, `Sync` |
| the kind `GET /tx/activity` gives a row | `Kind` |
| registration of a wallet, the chain | `Register`; `height`, `mined`, `Mine` |

Any scan may fail at any `await`; those of the cron (`Cron`) fail during an `outage`, which
begins and ends by `Turn`. `followed` is a history variable: the transfers mined when a cursor
and their receiver's row existed. `Sold` are those that pay a payment request; the scan does not
know which.

### Treasury

| Code | Model |
| --- | --- |
| `business_treasuries` | `row`: `status`, and `roles` with the modifier's address |
| a request to one of the three POST routes | `request[h]`: where it stands, the receipt it waits for, the manager it names |
| `ensureTreasury` | `Deploy`, `Claim` (the insert that does nothing on conflict), the transaction, `RecordSafe` |
| `ensureRolesModule` | `Setup` (from where the row says it was left), the transactions, `RecordModule`, `RecordScope` |
| `assignManager` | `Assign`, the transaction |
| a transaction of the admin account, its nonce and its receipt | `Send`, `OtherSends`, `Answer`, `Receipt`; `GoesOn` is what a handler makes of a receipt, `After` the order of the calls |
| a throw, a timeout, a death | `Fail`, at any step; what was sent stays in `pool` |
| the chain | `pool` in order of nonce, `executed`, `allowance`, `managers`; `Mine`, `Spend` |

Any transaction may revert; a deployment of what is there always does. The admin account is
that of every business and keeps no nonces, so `Send` may take a nonce that is in use, by this
business or another (`OtherSends`): one of the two transactions is mined, and viem gives both
who wait the receipt of that one (`Answer`). `spent`, `misread`, `overlapped` and `taken` are
history variables: what managers moved, what a handler took to be done without a receipt of it
(`Misleads`), whether a set-up began while another was under way, and how many nonces were
taken twice.

## 3. Runs

A `Spec` run explores every interleaving of its instance. Symmetry is used on sets of
model values only, and never in a run with a liveness property.

| Run | Instance | What it shows |
| --- | --- | --- |
| `transfers` | one transfer, two payloads, two requests, two transactions, every fault | types; an intent whose transaction the code did not lose track of is paid at most once (`TrackedPaidOnce`), no create is answered with a row of another payload (`NoPayloadSwap`), and under fairness no intent stays in broadcasting (`BroadcastingEnds`) |
| `refund_intents` | one refund intent, two requests, three transactions, every fault | a settled row is true of the chain (`SettledRowsAreTrue`), and the intent implements `PaymentOrder` (`ImplementsOrder`), lost track of or not |
| `sweep_repays` | one transfer, two requests, requests may die | violates `NoDoublePayment`, finding 1 |
| `requests` | two plain requests, two overlapping ticks, one transfer, exact nodes | types; paid is deep (`PaidIsDeep`), a request expires only when what came in time by its tick's height is credited (`ExpiredIsUnpaid`), cancelled is final and a paid request never ends otherwise (`EndsAreFinal`), and under fairness every request ends unless ticks are wedged (`EveryRequestEnds`) |
| `split_lag` | a split request of two contributions, two ticks, answers one block behind, one tick may fail anywhere | `SplitTotals` (totals are sums, and a full one is paid), `ReportedOnce` (one paid event, and a history without gaps once the ticks are over, none having failed) and `NothingSkipped`: a safety offset of one block makes up for a lag of one block, whether ticks failed or not, but for a scan that was cut short (`torn`) |
| `refunds` | two refunds of one payment, two intents, two hashes, one address, two creations and two reviews at once, all may die, intents may be lost track of, the owner sends to the same address for other reasons | money moves once per refund unless its reviews overlapped or its intent was lost track of, and never for a rejected one unless its reviews overlapped (`RefundPaidOnce`); an executed refund names a transaction that went to its destination (`ExecutedIsPaid`); one open refund per payment unless creations overlapped (`OneOpenRefund`) |
| `shares` | two browsers, two requests at a time, three recoveries, restarts, lost answers, requests that die anywhere | a kit recovers the key, unless a request died between the two statements of a commit (`Recoverable`); a kept device signs (`KeptDeviceSigns`) |
| `ceremonies` | two devices of a user, one key, two rounds, a cap of one live ceremony, generation and derivation, a restart at any time | types; the count of slots is the number of running ceremonies (`SlotsMatch`), the page is never out of step (`LockStep`), both ends agree on the keys there are (`ImplementsKeyGeneration`), and under fairness a revoked device's ceremonies end for good (`RevokedEnds`) |
| `custody` | two owners of one browser, three keys, two generations under way | types; a share the browser keeps has its kit (`SavedHasKit`), and of the keys the server has exactly those whose shares were dropped before their kit cannot be used again (`RegisteredIsRecoverable`) |
| `members` | two forms, two indexes, one request of a terminal at two handlers, six ticks of the clock | types; only creations that overlap share a child wallet (`NoSharedPath`), a terminal whose key was handed out has its row and its child (`TerminalsAreSignable`), a request goes through once (`RequestAcceptedOnce`) |
| `incoming` | two transfers, one of them sold, two scans that fail at any `await`, providers one block behind | types; the cursor passes no followed transfer without a row (`NothingMissed`), a collection stays one and confirmed stays confirmed (`CollectionsStay`), and under fairness each followed transfer is shown in the end, but for a collection credited before its depth (`EveryTransferShown`) |
| `treasury` | three requests at once, one manager, a cap of one, failures at every step, every transaction may revert, one nonce is taken twice | types; what the row says is on the chain, but for what a handler misread, and nobody has the role before its limits while no nonce is taken twice (`ScopedIsSetUp`); managers move no more than the cap unless two set-ups overlap or two transactions have one nonce (`SpentWithinCap`) |

**Bounds, and why they are enough.**

- Two concurrent processes (requests, ticks): every hazard here is one process acting
  between two steps of another. A third process adds no new kind of step between them,
  and each is free to finish and start again as another handler. `treasury` has three,
  since its row gives way to a third kind of request once two set-ups overlap.
- `MaxChain` = 2 transactions: a second payment, or a revert followed by a payment,
  needs two; `refund_intents` has three, room for a payment after one that was lost track
  of and one that reverted. Nothing the handlers decide depends on how many came before.
  The nonces a client may sign with (`Nonces`) are capped by the same bound: the node would
  refuse a later one in the model for want of room.
- Two transfers reach the threshold of a split request in either order; two rows are
  what one tick can confuse, since a row is compared with at most one other.
- `MaxBlock` = 3 (`requests`) or 4 (`split_lag`) with two confirmations, a life of one block and
  an offset of one: payment at the deadline, in `split_lag` before and after it too,
  confirmation after it, a scan from before and after the cursor, a block between the
  height of a tick and its clock. Two plain requests are what the unique hash needs to stop a
  tick. The last blocks are empty and see no new request, so that no life is cut short by the
  bound.
- Two intents for a refund: a second approval, or one that dies and is tried again, needs
  two. Two refunds race for one payment; two hashes, of which one may be another's.
- Three recoveries: one committed, one staged against it and one after it. A restart
  returns the store to empty, so longer histories repeat.
- The reconciler's limit of rows per tick (100) is not reached, and announcements are
  counted up to two (`Many`).

- Two rounds instead of the four of a ceremony: a first, a last and the step between
  them; every round before the last is handled alike. One key and a cap of one make the
  second generation fail and the second ceremony meet the cap, or pass it.
- Three keys between two owners: one of them generates twice, or two generations of one
  document overlap.
- Two indexes: the next one after a row, and the same one given to both forms. Six ticks
  are past the end of every nonce (`Window` = 2, two windows long) with a clock that is a
  tick ahead, and leave room for a request signed later.
- For `incoming`, `MaxBlock` = 4 with a window of two and a lag of one: a scan of several
  chunks, an answer one block short, a cursor that a late scan moves back. The last blocks
  are empty, so that every transfer gets behind a safe block.
- For `treasury`, three requests: two set-ups and the assignment of a manager between
  their ends. Three transactions under way are one for each handler, or two left behind
  and one that meets them (`MaxPool`); a cap of one and `MaxSpent` = 2 let managers spend past
  it; one nonce that is taken twice (`MaxTaken`) misleads each kind of handler.

`ceremonies` and `refunds` turn the deadlock check off: once every refund, intent and hash of
`refunds` is used up, and once both devices of `ceremonies` are revoked or have no share to
sign with, the system of that instance is at its end. The other models never stop.

**Fairness.** `BroadcastingEnds` assumes that the sweep runs (the cron of `workers/index.ts`, or
the internal route), that a row in broadcasting ages, and that a request whose process lives
goes on: an RPC call returns or fails by its timeout. A dying request is not forced to act, so
the property covers requests that die. `EveryRequestEnds` assumes that the cron ticks, that a
tick goes on, and that the chain grows; two ticks may overlap at every step. Its exception,
`Wedged`, is a request that expired over a payment another tick detected (finding 3).
`RevokedEnds` assumes that the reaper's timer, once set and not cleared, fires; neither the
page, nor the network, nor the handlers are assumed to go on, so it covers sockets nobody uses
again. `EveryTransferShown` assumes that the chain grows, that the cron starts scan after scan
(one process is the cron's, the other, a call of the internal route, may hang or fail for ever),
and that its outages end: however many of its scans failed, from some time on they go through. A
scan that failed has left rows and no cursor, which the next ones meet. Nobody is assumed to
unlock a wallet, so that `POST /tx/sync` may never come, and a collection that awaits it
(`AwaitsSync`) is the exception. No client is assumed to do anything: not to poll, retry, pay,
sync or cancel. But for the end of the outages all fairness is weak.

## 4. Findings

1. **A sweep lets an intent be paid twice** (`sweep_repays`). A request dies after the
   node took the transaction and before the hash is written. The sweep resets the row to
   pending and drops the bytes without asking the node; the user signs again, with a
   fresh nonce. `docs/architecture.md` says of this very pair of mechanisms that it
   prevents double broadcast and recovers stuck intents.
   *The same without any fault:* with the constants `Intents = Refunds = {r1}`,
   `Faults = {}` the property fails too. `/tx/sync` (`routes/tx.ts:267`) judges the age
   of a broadcast by `createdAt`. A refund intent lives 24 hours, so one signed later
   than five minutes after its approval is failed while its first broadcast is under way;
   the hash is not recorded and a retry pays again.
   *And of a transfer, without any fault* (`TxIntent_stale.cfg`): `/tx/sync` reads all hashes at
   once (`tx.ts:271`) and applies each receipt by id and status (`tx.ts:289`, as `PATCH` does,
   `txIntents.ts:220`). The transaction reverts, a `PATCH` or another `/tx/sync` fails the row,
   the client retries and broadcasts again (`txIntents.ts:389`), and a request that had read the
   first hash fails the row a second time, now while its new transaction pays; the next retry
   pays twice. `TrackedPaidOnce` and the theorems except exactly the intents that were lost
   track of in these ways (`doubted`).

The others were met on the way and are not among the runs of `PROJECT.json`; each can be
seen with `tlc -config <cfg> <MC module>`. `Treasury_findings.cfg` lists five invariants, of
which TLC reports the first it meets; leave one of them to see its trace.

2. **One transfer pays two requests** (`Reconciler_twice.cfg`,
   `CreditedOnce`). The scan of a split request
   looks for plain requests that hold the hash; the scan of a plain one does not look
   for contributions, and the first check is a read before its transaction.
3. **A detected payment expires** (`Reconciler_detected.cfg`, `DetectedIsKept`). The
   tick that loses the update of a request to another tick carries on as if nothing had
   matched, and its expiry admits `confirming`, which the comment above it calls safe.
   *What follows from it:* the expired row keeps its hash. With two plain requests and
   two ticks the run `requests` meets it: the scan of the next request does
   not see the hash as taken, the update meets the unique index, the catch at `:479`
   does not recognise the wrapped error, and the tick dies there at every later run, for
   that row and all after it. This is what `EveryRequestEnds` excepts (`Wedged`).
4. **Refunds exceed what was received** (`Refunds_over.cfg`,
   `RefundedWithinCollected`). Each refund is capped on its own, and an executed one no
   longer stops another.
5. **A torn commit of a recovery locks the key** (`Shares_torn.cfg`, `NeverBricked`).
   `recoverStaging.ts:8` says that an interrupted recovery is retryable, never bricking.
   The version is bumped and the share written in two statements
   (`routes/wallet.ts:275`). Between them, a failure of
   the database or a restart leaves a version no share has: signing and recovery fail to
   decrypt, the old kit is outdated, and the same token fails its own check. This is what
   `Recoverable` excepts (`torn`).
6. **A user's second key** (`Custody_two_keys.cfg`, `OneKeyPerUser`). `ceremony.ts:254`
   says that each user has one key. When the last answer of a generation is lost the
   server has stored the key and the page starts again: the server names the first key,
   and the share the browser then saves, of the second, is invalid for good. Its kit is
   no use, and the first key has none.
7. **Two wallets at one path** (`Wallets_shared.cfg`, `SharedByNobody`). `business.ts:203`
   says of the next index that a cashier and a terminal never land on the same HD path.
   The maximum over both tables is read without a lock, and handed out before either row
   exists; each table's own constraint does not see the other.
8. **A revoked terminal is active again** (`Wallets_revoked.cfg`, `RevokedIsFinal`).
   `schema.ts:164` gives the statuses as pending, then active, then revoked. A first
   request that read pending writes active by id, after a revocation that came between.
9. **A treasury that stays pending, a set-up that cannot be resumed**
   (`Treasury_findings.cfg`, `NoStuckRow` and `SetupResumes`). A handler
   that gives up between the transaction and the write of the row leaves a Safe, or a
   modifier, at an address that is computed; every later attempt deploys it again and
   reverts. `treasury.test.ts:96` tests "no stuck pending row" with a deployment that
   failed before it was sent; `safeRoles.ts:92` says that a retry "continues from where it
   left off".
10. **The cap is given twice** (`Treasury_findings.cfg`, `CapHolds`).
    `zodiacRoles.ts:221` calls the cap fixed. Of two set-ups that overlap the slower one
    sets the allowance again, after the faster one scoped the row, a manager was assigned
    and spent. This is what `SpentWithinCap` excepts.
11. **A module recorded and not enabled** (`Treasury_findings.cfg`, `ModuleIsEnabled`). Of all
    receipts the one of `enableModule` (`safeRoles.ts:139`) is not read: when it reverts the
    row says enabled, which `schema.ts:282` explains as deployed and enabled on the Safe, then
    scoped, and the set-up is never made again. `ScopedIsSetUp` excepts what was misread so.
12. **A receipt of another transaction** (`Treasury_findings.cfg`, `DeployedIsThere`). The
    admin account is shared and nothing orders its nonces. When another transaction takes
    the nonce of a deployment, the receipt viem returns is that one's, and a success records
    a Safe that is not there; `treasury.ts:48` says that the database stays consistent.
13. **A confirmed transfer becomes expired** (`TxIntent_expired.cfg`, `ConfirmedIsFinal`). A
    create that finds its key past its time expires the row by id alone
    (`tx-intents/expire.ts:9`), whatever its status: the caller of a paid transfer is
    told that it expired.
14. **A refund executed by another's transaction** (`Refunds_hash.cfg`, `ExecutedByItsOwn`).
    `mark_executed` accepts any hash of the wallet's transactions to the destination
    (`routes/refundRequests.ts:421-505`), without the amount (`:468`): a transfer made for
    another reason, or for another refund to the same address, marks it as paid.
15. **A payment in time expires** (`Reconciler_late.cfg`, `PaidInTimeIsKept`). The height that
    bounds a scan and the clock that ends the request are two reads (`:114`, `:115`). A
    payment mined between them, with the deadline passing between them too, is not in
    the scan, and the request expires over it. `ExpiredIsUnpaid` excepts what lies above the height.
16. **A paid request goes back to confirming** (`Reconciler_stale.cfg`, `PaidStaysPaid`).
    `docs/architecture.md:109` has no way back from paid. With a node, or a cached height,
    one block behind and the code's two confirmations, a tick with an older height writes
    confirming by id alone (`:141`) after another wrote paid; it is paid again later, and
    announced again. `EndsAreFinal` excepts this step, and no other.
17. **A reload loses the set-up** (`Custody_reload.cfg`, `SetupCanBeRedone`). `context.tsx:48`
    says that a reload loses state and that callers go back to create the wallet. Between the
    server's insert and the download of the kit that is too late: the server names the
    first key from then on, whose shares are gone. Leaving the onboarding layout does the same.
18. **An orphaned terminal** (`Wallets_orphan.cfg`, `NoOrphans`). `routes/pos.ts:131` rolls a
    terminal back so that a failed registration leaves no orphan. The key is awaited
    outside the `try` (`:126`), and the delete itself may fail (`:133`).

Seen on the way, and stated by no property: the caps on live ceremonies are read before
two awaits, so concurrent starts exceed them (`ws/mpc.ts:134`); any answer of
`GET /mpc-key` that is not a success, a 401 after logout among them, clears the device
share from the browser (`wallet-status.ts:68`), where the guard forces a login "if there is
a local wallet"; a transfer mined before the first cursor of
its token, or before its receiver was registered, may be passed over by the scan for good;
one that was credited before its confirmations stays out of the activity list until its
receiver unlocks the wallet, which posts `/tx/sync` (`useWalletHistory.ts:52`); this is what
`EveryTransferShown` excepts (`AwaitsSync`).

One more place holds only under a condition the code does not enforce, and is
recorded as a hazard: `RefundPaidOnce` excepts refunds two reviews of which overlapped and
`OneOpenRefund` payments two creations for which did (the updates name the id alone,
`routes/refundRequests.ts:367`, and no row says that a creation began). With more than two
confirmations, the number of `config.ts:6`, finding 16 needs no lagging node.

## 5. Proofs

All theorems hold for every number of rows, requests, payloads, browsers, owners, forms,
deliveries, managers, sockets and rounds, and for every bound. Every property a run
checks, but the four of liveness, is stated by one of them. `ExpiryIsFinal`,
`SingleBroadcaster`, `LiveShareAdvances`, `HeldKeysAreStored`, `EveryCeremonyIsReaped` and
`RevokedStayQuiet` are proved only, and no run checks them: each says one more thing about
what the run's property of the same component rests on.

| Module | Theorem | Statement | Assumption |
| --- | --- | --- | --- |
| `TxIntentProofs` | `TypeCorrect` | `[]TypeOK` | all faults allowed |
| | `BytesAlwaysThere` | `[]SignedHasBytes` | all faults allowed |
| | `NoSwap` | `[]NoPayloadSwap` | all faults allowed |
| | `ExpiryIsFinal` | `ExpiredIsFinal` | all faults allowed |
| | `Invariant` | `[](TypeOK /\ IInv)` | all faults allowed |
| | `NoTrackedPaidTwice` | `[]TrackedPaidOnce` | all faults allowed |
| | `ReportsAreTrue` | `[]SettledRowsAreTrue` | all faults allowed |
| | `SingleBroadcaster` | `[]OneBroadcaster` | all faults allowed |
| | `Refinement` | `ImplementsOrder` | all faults allowed |
| `PaymentReconcilerProofs` | `Invariant` | `[]IInv` | any lag, any failures |
| | `TypeCorrect` | `[]TypeOK` | the same |
| | `TotalsHold` | `[]SplitTotals` | the same |
| | `PaymentsAreDeep` | `[]PaidIsDeep` | the same |
| | `EverythingReported` | `[]ReportedOnce` | the same |
| | `CursorsAreSafe` | `[]NothingSkipped` | `Lag <= Offset`, any failures |
| | `NoPaymentExpires` | `ExpiredIsUnpaid` | `Lag <= Offset`, any failures |
| | `EndsStay` | `EndsAreFinal` | any lag, any failures |
| `RefundProofs` | `RefundTypes` | `[]TypeOK` | any number of creators and reviewers, intents lost track of or not |
| | `ExecutedRefundsArePaid` | `[]ExecutedIsPaid` | the same |
| | `RefundsPaidOnce` | `[]RefundPaidOnce` | the same, dying or not |
| | `OneRefundOpen` | `[]OneOpenRefund` | the same, dying or not |
| `ShareRecoveryProofs` | `Invariant` | `[]IInv` | requests die anywhere |
| | `TypeCorrect` | `[]TypeOK` | the same |
| | `LiveShareAdvances` | `GenerationsAdvance` | the same |
| | `KeptDevicesSign` | `[]KeptDeviceSigns` | the same |
| | `KitsRecover` | `[]Recoverable` | the same |
| `CeremonyProofs` | `Invariant` | `[]IInv` | any caps, rounds, disconnections and restarts |
| | `TypeCorrect` | `[]TypeOK` | the same |
| | `SlotsAreCounted` | `[]SlotsMatch` | the same |
| | `RoundsAgree` | `[]LockStep` | the same |
| | `GeneratesKeys` | `ImplementsKeyGeneration` | the same |
| | `HeldKeysAreStored` | `[]KeysAgree` | the same |
| | `EveryCeremonyIsReaped` | `[]Reaped` | the same |
| | `RevokedStayQuiet` | a device whose ceremonies ended after its revocation has none again | the same |
| `WalletProofs` | `CustodyInvariant` | `[]CustodyInv` | `Nil` names no user and no key |
| | `CustodyTypes` | `[]CustodyTypeOK` | the same |
| | `KeptShareHasKit` | `[]SavedHasKit` | the same |
| | `KeysStayUsable` | `[]RegisteredIsRecoverable` | the same |
| | `Invariant` | `[]IInv` | `Ahead + Delay <= Window` |
| | `TypeCorrect` | `[]TypeOK` | the same |
| | `PathsApart` | `[]NoSharedPath` | the same |
| | `Signable` | `[]TerminalsAreSignable` | the same |
| | `NoReplay` | `[]RequestAcceptedOnce` | the same |
| `IncomingTransfersProofs` | `Invariant` | `[]IInv` | `Lag <= 1` |
| | `TypeCorrect` | `[]TypeOK` | the same |
| | `NoneMissed` | `[]NothingMissed` | the same |
| | `CollectionsAreKept` | `CollectionsStay` | the same |
| `TreasuryProofs` | `Invariant` | `[]IInv` | any reverts, any nonces taken twice |
| | `TypeCorrect` | `[]TypeOK` | the same |
| | `RowIsTrue` | `[]ScopedIsSetUp` | the same |
| | `CapIsKept` | `[]SpentWithinCap` | the same |

`WalletProofs` holds the proofs about `Custody` and about `ChildWallets`, the owner's key
and the wallets derived from it; the two share no constant, variable or definition.

**Why an intent is paid once.** `TrackedPaidOnce` is not inductive: it says nothing of
what a request is about to do. `IInv` has a part for all intents, that what handlers, clients
and rows remember of the chain is on the chain (`MemoryIsTrue`), and a part that
follows the money of an intent the code has not lost track of through its one broadcast
(`Safe`). While a request is between its claim and its write, nobody else can claim
(`BusyKeepsOut`: the row is broadcasting, expired, or past its time, which no claim
survives); what is sent was unpaid (`UnpaidWhenSending`); what was paid is recorded, or
its row can no longer be sent (`PaidIsClosed`); a verdict not yet applied is about the hash
the row carries, or finds a settled row (`VerdictIsCurrent`), which is what makes applying it
by id alone right; and a confirmed row was paid (`ConfirmedIsTrue`). Each of the four ways
into `doubted` breaks one of these: the sweep and `/tx/sync` the first, a lost reply the second, a
retry with a verdict left the fourth. So the proof also shows that there are no others. The
refinement reads `PaymentOrder`'s state off the same invariant.

**Why totals hold and payments are deep.** A tick goes by rows it read several awaits ago, so
`IInv` says what of them is still true (`TickSound`): a row it saw confirming is confirming,
paid or expired, and still names the transfer it saw; its logs were mined by the block it read,
and that block is not above the chain. A total is the cardinality of the contributions, which an
insert and the update in its transaction move together (`SplitTotals`); the update adds to what
the table holds, not to what the tick read. Confirmations counted from an older block are fewer,
which is why they never overstate. `EndsStay` follows: of the writes that a tick makes from an
older row only the one of the confirming branch may meet a paid request, and it keeps its
transfer.

**Why everything is reported.** `ReportedOnce` says nothing of a tick that paid a request
and has not announced it yet. `Reported` does: what is paid is announced, or a tick is at
the step that announces it, or a tick has failed; and the same of a credited transfer and
the merchant's history. A split request is flipped to paid inside the transaction that
adds the contribution, so exactly one tick is ever at that step, and none once the event
was sent. Of plain requests the theorem does not say that they are announced only once.

**Why a cursor passes no payment.** `Behind(r, b)` says that a scan of `r` from block `b`
would miss nothing: whatever arrived in time and lies more than the offset behind `b` is
`Covered`: it is credited, or `r` is no longer open, or `r` is a split request and some
tick still has it among its logs. It holds of the cursor in the row and of the one each tick read.
`Through` says it of a tick past its scan, with its own logs as one more excuse, and is
what the tick hands over when it writes its block as the new cursor: its scan began at a
cursor that was safe, and a node that lags at most `Lag` has answered for every block below
that height less the offset, which is where `Lag <= Offset` is needed. A step keeps all
this when the logs it drops are credited, late, or of a request it marks as torn
(`LogsKept`); a plain request that loses its logs has not moved its cursor. All this is one
invariant: `RowComplete` of each row, `TickComplete` of each tick.

**Why a payment in time does not expire.** A tick that expires a plain request is past its scan
and has no logs left, so `Through` leaves no excuse but the credit: what came in time and lies
the lag behind the height the tick read, the row's new cursor, is credited. The clock does
not matter, and how late it was read neither: what lies above that height is finding 15.

**Why an executed refund names a transfer.** `mark_executed` verifies a transaction and then
writes. The invariant carries the verification over the write: a destination is
never changed, a transaction that succeeded stays so, and one that the linked intent
was confirmed with went to the destination of the refund the intent was inserted for
(`Linked`). Only a confirmed intent that was lost track of may name a transaction that did
not succeed, which is the exception. It needs no bound on concurrent reviews, since it never
mentions the refund's status before the write.

**Why a refund is paid once.** The wallet pays what an approval listed, so the invariant counts
that (`ReviewsInOrder`): unless two reviews of a refund overlapped, at most one listed intent is
its own, it is there only once the refund was approved, and while a review is under way the
refund is still pending and the review is the only one. A review that dies after its insert
leaves an intent nobody is shown, so the next approval does not make two. That the one intent is
paid once is the promise of a `PaymentOrder`, of an intent not lost track of (`PaidByTracked`);
`TxIntent` keeps it for refund intents too. `OneOpenRefund` is the same argument over payments
(`CreationsInOrder`): a creation that overlaps no other finds no open refund when it inserts.
`Linked` ties the two to what a request remembers between its statements.

**Why a kit recovers the key.** A polynomial is minted for one generation and every token,
kit and browser says that one (`OneLabel`). The key is at most one commit ahead of its
share, one request is then writing it, and nothing was staged from a later generation
(`Ordered`). What may be committed was downloaded first (`Downloaded`), so the share
always has a kit. What was consumed or confirmed was live (`Committed`), and a request
that answers a browser does so about what the browser waits for (`Linked`). Together: the
live share's polynomial has a kit in the user's hands whose generation is the key's.
`Ordered`'s clause on equality of the two versions excepts a history with a torn commit.

**Why the two ends of a ceremony agree.** `LockStep` is about a page and a ceremony with
a network between them. `Talk` says of each socket that at most one message, or one reply,
or one handler is under way (`OneMessage`); that a message finds the ceremony at the round
it names, and, while the link is open, the page waiting for that round (`Sent`); and that a
reply finds the page one round behind the ceremony (`Replied`). A page that left has
nothing on its line but what the server has not read yet (`Line`). A ceremony that ended
is no counterexample: the page then hears an error, or nothing.

**Why a slot is given back once.** `teardown` runs from six places. `SlotsMatch` is the
cardinality of the running ceremonies, and `Teardown` lowers the count exactly when it
takes one out of that set. `Create` raises it by one that was not there: a handler that
creates has no running ceremony on its socket (`Sent`). So the count is exact, though it
may exceed the cap.

**Why both ends agree on the keys.** Only three steps touch what `KeyGeneration` sees:
`Persist` is its `Store`, the page's `Result` its `Hold`, and `Finish` its `Trust`. The
last two act on what an earlier step left in a message: `Sent` says that a handler at
`finish` names a key its own device generated, and `Replied` that the last answer names a
key the server has stored. `KeysAgree` then follows from the abstract specification alone.
`EveryCeremonyIsReaped` and `RevokedStayQuiet` are the part of `RevokedEnds` that is safety: a
ceremony that runs has its timer set, and after the end of a revoked device's ceremonies
every handler meets `isSocketSessionLive` before it does anything.

**Why a kept share has its kit.** A share is saved on the PIN page, which asks nothing
about kits. What the page holds without a backup share was exported, and a page past the
kit holds no backup share (`Exported`): the guard never leads to it, and a page load drops
the shares. For `RegisteredIsRecoverable` the invariant accounts for every key
the server has (`Accounted`): it is lost, or in a kit, or its backup share is in the context or
on its way there, and none of these is lost. A key stored by a generation under way is in
no kit and not in the context, no other generation has it, and it is lost if only code of an
unmounted layout waits for it (`Generations`). So whatever replaces or drops shares, another
answer, a recovery, an unmounted layout, a page load, loses exactly those without a kit.

**Why wallets stay apart.** `NoSharedPath` does not say what a form may still insert. An
index that was given out once is held by one form, and is free in the other table
(`HeldAlone`), because the next index lies above both (`NextIsFree`, by the maximum of a
bounded set). A terminal stays signable because its row stands while it is created, by one
form (`CreationsStand`), so that the roll-back of another form meets no terminal whose key was
handed out; and only such a terminal signs (`SignersKeyed`), so that the activation never
brings back a row that was deleted.

**Why a request goes through once.** A nonce is deleted once it expired, so the check of
duplicates alone proves nothing. `NonceStands` says that a nonce lasts until
`time + 2 * Window - Ahead`, and that a request that went through has its nonce or is past
that; `ClocksNear` bounds the age of a delivery that passed the window, so that it cannot
reach a deleted nonce when skew and delay together are within the window.

**Why no transfer is missed.** The cursor may move back, and the row of a transfer is the
only trace of its scan, so `Sound` follows each scan through its steps. Below the block it
starts from everything followed is stored, because a cursor stood there (`Behind`). The
wallets it loads include all that its blocks may pay, since they are read after the height.
A chunk of logs is complete, since a provider one block behind still has the safe block,
which is why the theorem needs `Lag <= 1`. What is mined later lies above every scan's
safe block (`Chain`).

**Why the row is true and the cap is kept.** A handler that gave up leaves transactions behind
that nobody waits for, and a nonce may have gone to another, so the row alone proves nothing.
`Awaited` and `Waiting` tie a handler to the one transaction it waits for, and `Seen` says that
what a handler is past is on the chain or was misread; the row adds nothing to that, which
is `ScopedIsSetUp`. A modifier is never misread, since its address is read from a log.
The rest is for histories in which no nonce was taken twice (`taken = 0`). Since addresses are
computed, only one handler can have deployed the modifier (`OneInstalls`), and a handler is
where it is because of a row that still says so (`Grounded`). A
set-up that runs alone waits for its own `setAllowance`, and transactions are mined in the
order they were sent, so that one is the last of its kind (`SetLast`): when the row is
scoped nothing is left that could give the allowance again. Until then nobody has the role
(`Unspent`), and from then on what was spent and what is left are the cap (`Capped`).

Only model-checked are the liveness properties (`BroadcastingEnds`, `EveryRequestEnds`,
`RevokedEnds`, `EveryTransferShown`): fairness is about `ENABLED`, which is out of the
prover's reach.

## 6. Abstractions and what is left out

- *Time.* Three booleans per intent, crossed in the order their limits allow; blocks for
  the reconciler, block n at time n; the staging store may drop an entry at any time,
  which covers its ten minutes.
- *Chain.* Transactions are final once mined; no fork. The account's transactions are mined in
  order of nonce. Two transactions of one nonce meet only in `Treasury`, whose account many
  requests share; a user's wallet is refused the second by its node (`SendRejected`).
- *Requests.* One merchant wallet; transfers are single per transaction, of one unit,
  above the dust limit and not from a wallet of the merchant. A scan may credit a
  transfer mined up to the offset before the request, as the code does.
- *Clients.* The web client is honest: it reports a receipt it was given, pays only
  intents the approval listed, and signs the payload it created. `PATCH` with a hash the
  node never gave is not modelled.
- *Bytes.* Checks of signed bytes against an intent are a verdict; the branch "No signed
  transaction data" of the broadcast is not an action, since the theorem
  `BytesAlwaysThere` shows that it is never taken. Shares are polynomials: two of one
  polynomial open the key, two of different ones never do.
- *Refunds.* One wallet pays; the choice of the child wallet that signs, and with it the test
  of the sender, is left out. A hash given to `mark_executed` is any of that wallet's
  transactions; what it moved is not compared, by the model as by the code.
- *Recovery.* One key per user (the routes read the first); the user keeps every kit
  they downloaded; the key exists. The refresh and recover ceremonies, which write the
  same rows over a socket, are not part of it: no page of the web client starts them.
- *Not stated.* `ReportedOnce` is not claimed when ticks fail: a death between a
  credit and its report is made up for by nothing. `NothingSkipped` is not claimed of a
  split request that a tick left in the middle of its logs: a contribution moves the
  cursor before the other logs of the scan are handled, so a split request paid in time
  can expire.
- *Ceremonies.* One user, and one ceremony per socket, as the page works; so
  `MAX_CEREMONIES_PER_SOCKET` is never met. Rounds succeed or fail; the device computes
  when it takes the server's answer. An error reply is not a message of its own: the page
  may fail at any time. Completed and aborted are one state, ended. That a session becomes
  trusted, a write nobody waits for, happens with the end of its generation. The sockets
  `disconnectSession` finds are dropped by `Disconnect`, or not. A socket's name is used
  again when nothing of it is left.
- *Custody.* A kit is good for the key it was made of; passwords and PINs are right or
  refused. The cache of the status, good for 5 seconds, is left out: a check may be as late as
  it likes anyway. The mnemonic wallets of old accounts and the business set-up step are left out;
  `useSelfRevokeWatcher` clears only the former.
- *Child wallets.* One business. A row is its index; the select for a taken index and the insert
  are one step, since the unique constraint decides between them. A failure may leave the row
  without its child, or with it; nothing in the code repairs that. Clock skew of a terminal and
  the time a handler takes before the nonce are together within the 60 seconds of the window.
  What a terminal's request then does is in `PaymentReconciler` and `RefundRequests`.
- *Incoming transfers.* One token: the scans of two tokens share only the height and the
  addresses. Every event has a key of its own and a receiver of its own. The sender's rows
  (`POST` and `PATCH /tx`), which have other keys, and the statistics are left out; no
  writer gives a row the type the activity list shows as a refund.
- *Treasury.* One business, on one chain, with the default cap; what other businesses send from
  the same account appears where it takes a nonce. The modifier's address and
  the status enabled are written by one statement and are one field. None of the admin account's
  transactions is dropped but by another of its nonce; the Safe's own nonce, which
  a second `enableModule` would meet, is covered by `Fail` and by the revert. Left out is a
  handler that takes the log of another business's modifier for its own, when that one's
  deployment took its nonce. Managers spend one unit at a time.
- *Members.* A member's status, and the user who joined, are not modelled: every update
  names the id alone after a read, so of two concurrent decisions the later one stands,
  and no promise of the code says otherwise.

What is not modelled at all is the last rows of the inventory, for the reasons its
components give in `PROJECT.json`.

## 7. Plan

The most important behaviour came first: money out, money in, money back, keys; then the
ceremonies, the browser, the child wallets and the treasury. What is left:

1. `DevicePairing` and the statuses of members: decisions on rows read before an `await`.
2. Lemmas under the liveness properties: that each step their fairness asks for leads on.
   Their end, the leads-to itself, stays with TLC.

Abstract specifications worth adding: a *ledger of a request* (credited once, never
uncredited) that `PaymentReconciler` implements for exact heights, and a *key* (one
share, one generation) for ceremonies and recovery together. Each component keeps its
shape: constants with named assumptions, one action per statement, an invariant of named
parts, proofs in a module of their own.
