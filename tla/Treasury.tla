------------------------------ MODULE Treasury ------------------------------
(***************************************************************************)
(* The treasury of one business: its row of business_treasuries, and on    *)
(* the chain a Safe, a Roles modifier enabled on it, and the managers who  *)
(* may spend from it up to a cap (services/treasury.ts,                    *)
(* services/safeRoles.ts, routes/treasury.ts in apps/api/src).             *)
(*                                                                         *)
(* A handler is a request to one of the three POST routes.  It sends the   *)
(* transactions of the admin account one by one, waits for the receipt of  *)
(* each, and writes the row when some are done.  A step is one RPC call or *)
(* one SQL statement with the code up to the next await.  The Safe and the *)
(* modifier lie at addresses computed from the user and from the Safe, so  *)
(* that there is one of either: a second deployment reverts.  The account  *)
(* is that of every business, and nobody keeps its nonces: each            *)
(* transaction takes the next one a node knows of.                         *)
(***************************************************************************)
EXTENDS Integers, Sequences, FiniteSets

CONSTANTS
    Handlers,  \* concurrent requests
    Managers,  \* the addresses that may be given the role
    Cap,       \* DEFAULT_MANAGER_CAP
    MaxPool,   \* bound: transactions under way
    MaxTaken,  \* bound: nonces that are taken twice
    MaxSpent,  \* bound: what managers spend
    None

ScopeCalls == {"scopeTarget", "scopeFunction", "setAllowance"}

Deployments == {"deploySafe", "deployModule", "enableModule"}

Kinds == Deployments \cup ScopeCalls \cup {"assignRoles"}

ASSUME TreasuryAssumption ==
    /\ Cap \in Nat /\ MaxPool \in Nat /\ MaxTaken \in Nat /\ MaxSpent \in Nat
    /\ None \notin Handlers \cup Managers

VARIABLES
    row,       \* business_treasuries: status, rolesStatus with the address
    request,   \* where each handler stands
    pool,      \* transactions sent, one for each of the account's next nonces
    executed,  \* the transactions that succeeded, by what they do
    allowance, \* what is left of the allowance of the role
    managers,  \* who has the role
    spent,     \* history: what managers moved
    misread,   \* history: what a handler took to be done without a receipt of it
    overlapped, \* history: a set-up began while another was under way
    taken      \* history: how many transactions were sent with a nonce in use

vars == <<row, request, pool, executed, allowance, managers, spent, misread,
          overlapped, taken>>

Idle == [at |-> "idle", receipt |-> "none", manager |-> None]

Init ==
    /\ row = [status |-> "absent", roles |-> "none"]
    /\ request = [h \in Handlers |-> Idle]
    /\ pool = <<>>
    /\ executed = {}
    /\ allowance = 0
    /\ managers = {}
    /\ spent = 0
    /\ misread = {}
    /\ overlapped = FALSE
    /\ taken = 0

onChain == <<executed, allowance, managers, spent>>

history == <<misread, overlapped, taken>>

Goto(h, step) == request' = [request EXCEPT ![h].at = step, ![h].receipt = "none"]

\* The answer is on its way: a handler that is done, or that throws.
Done(h) == request' = [request EXCEPT ![h] = Idle]

-----------------------------------------------------------------------------
(* POST /treasury/deploy *)

\* getTreasury, and the answer with a treasury that is there.
Deploy(h) ==
    /\ request[h].at = "idle"
    /\ row.status # "deployed"
    /\ Goto(h, "claim")
    /\ UNCHANGED <<row, pool, onChain, history>>

\* The insert of the pending row, which does nothing when there is one.
Claim(h) ==
    /\ request[h].at = "claim"
    /\ row' = IF row.status = "absent" THEN [row EXCEPT !.status = "pending"] ELSE row
    /\ Goto(h, "deploySafe")
    /\ UNCHANGED <<pool, onChain, history>>

\* Mutant of RecordSafe: the two status columns are mixed up.
RecordSafeRoles(h) ==
    /\ request[h].at = "recordSafe"
    /\ row' = [row EXCEPT !.roles = "deployed"]
    /\ Done(h)
    /\ UNCHANGED <<pool, onChain, history>>

\* The update once the Safe is there.
RecordSafe(h) ==
    /\ request[h].at = "recordSafe"
    /\ row' = [row EXCEPT !.status = "deployed"]
    /\ Done(h)
    /\ UNCHANGED <<pool, onChain, history>>

-----------------------------------------------------------------------------
(* POST /treasury/roles/setup *)

SetupSteps == (Deployments \ {"deploySafe"}) \cup ScopeCalls \cup {"recordModule", "recordScope"}

SettingUp(h) == request[h].at \in SetupSteps

\* Mutant of Setup: a treasury that is scoped is set up again.
SetupAgain(h) ==
    /\ request[h].at = "idle"
    /\ row.status = "deployed"
    /\ Goto(h, IF row.roles = "none" THEN "deployModule" ELSE "scopeTarget")
    /\ overlapped' = (overlapped \/ \E g \in Handlers : SettingUp(g))
    /\ UNCHANGED <<row, pool, onChain, misread, taken>>

\* getTreasury: a treasury that is deployed and not scoped is set up from where
\* its row says it was left.
Setup(h) ==
    /\ request[h].at = "idle"
    /\ row.status = "deployed" /\ row.roles # "scoped"
    /\ Goto(h, IF row.roles = "none" THEN "deployModule" ELSE "scopeTarget")
    /\ overlapped' = (overlapped \/ \E g \in Handlers : SettingUp(g))
    /\ UNCHANGED <<row, pool, onChain, misread, taken>>

\* The update with the address of the modifier; the row it returns is enabled.
RecordModule(h) ==
    /\ request[h].at = "recordModule"
    /\ row' = [row EXCEPT !.roles = "enabled"]
    /\ Goto(h, "scopeTarget")
    /\ UNCHANGED <<pool, onChain, history>>

\* The update with the cap.
RecordScope(h) ==
    /\ request[h].at = "recordScope"
    /\ row' = [row EXCEPT !.roles = "scoped"]
    /\ Done(h)
    /\ UNCHANGED <<pool, onChain, history>>

-----------------------------------------------------------------------------
(* POST /treasury/roles/managers *)

\* getTreasury, of a treasury that is scoped.
Assign(h, m) ==
    /\ request[h].at = "idle"
    /\ row.roles = "scoped"
    /\ request' = [request EXCEPT ![h] = [at |-> "assignRoles", receipt |-> "none", manager |-> m]]
    /\ UNCHANGED <<row, pool, onChain, history>>

-----------------------------------------------------------------------------
(* A transaction of a handler *)

\* The transaction handler h is at.
Transaction(h) == [kind |-> request[h].at, manager |-> request[h].manager, by |-> {h}]

\* sendTransaction, or executeTransaction of the Safe.  The node that is asked for
\* the nonce may not know of transactions under way: then the account has two of
\* one nonce, of which one will be mined, and the hashes of both are waited for.
Send(h) ==
    /\ request[h].at \in Kinds /\ request[h].receipt = "none"
    /\ \/ /\ Len(pool) < MaxPool
          /\ pool' = Append(pool, Transaction(h))
          /\ UNCHANGED taken
       \/ /\ taken < MaxTaken
          /\ \E i \in DOMAIN pool : \E tx \in {pool[i], Transaction(h)} :
               pool' = [pool EXCEPT ![i] = [tx EXCEPT !.by = pool[i].by \cup {h}]]
          /\ taken' = taken + 1
    /\ request' = [request EXCEPT ![h].receipt = "awaited"]
    /\ UNCHANGED <<row, onChain, misread, overlapped>>

\* A request of another business sends a transaction with the nonce of this one's.
\* (Unless it deploys a modifier: the log of another's modifier is left out.)
OtherSends(i) ==
    /\ taken < MaxTaken
    /\ pool' = [pool EXCEPT ![i] = [kind |-> "other", manager |-> None, by |-> pool[i].by]]
    /\ taken' = taken + 1
    /\ UNCHANGED <<row, request, onChain, misread, overlapped>>

\* What a handler does once a transaction of this kind is done.
After(kind) ==
    CASE kind = "deploySafe"    -> "recordSafe"
      [] kind = "deployModule"  -> "enableModule"
      [] kind = "enableModule"  -> "recordModule"
      [] kind = "scopeTarget"   -> "scopeFunction"
      [] kind = "scopeFunction" -> "setAllowance"
      [] kind = "setAllowance"  -> "recordScope"
      [] kind = "assignRoles"   -> "idle"

\* Mutant of GoesOn: no status is looked at.
GoesOnUnread(r) == After(r.at) # "idle"

\* What waitForTransactionReceipt returns is good enough for a handler at r.  When
\* the nonce went to another transaction it is the receipt of that one, of which a
\* handler that waits for a modifier misses the log; and the status of enableModule
\* is not looked at.
GoesOn(r) ==
    /\ After(r.at) # "idle"
    /\ \/ r.receipt = "success"
       \/ r.receipt = "another" /\ r.at # "deployModule"
       \/ r.receipt = "reverted" /\ r.at = "enableModule"

\* The receipts that a handler at r takes for that of what it sent.
Misleads(r) ==
    r.receipt = "another" \/ (r.receipt = "reverted" /\ r.at = "enableModule")

\* waitForTransactionReceipt returns: the handler goes on, is done, or throws.
Receipt(h) ==
    /\ request[h].receipt \in {"success", "another", "reverted"}
    /\ IF GoesOn(request[h]) THEN Goto(h, After(request[h].at)) ELSE Done(h)
    /\ misread' = IF GoesOn(request[h]) /\ Misleads(request[h])
                  THEN misread \cup ({request[h].at} \ executed) ELSE misread
    /\ UNCHANGED <<row, pool, onChain, overlapped, taken>>

\* A handler throws or dies: a call of the node or of the database fails, the
\* wait for a receipt times out, the estimate says a transaction would revert,
\* another took its nonce, or the process ends.  What it sent may be mined yet.
Fail(h) ==
    /\ request[h].at # "idle"
    /\ Done(h)
    /\ pool' = [i \in DOMAIN pool |-> [pool[i] EXCEPT !.by = @ \ {h}]]
    /\ UNCHANGED <<row, onChain, history>>

-----------------------------------------------------------------------------
(* The chain *)

\* An address is taken, and a module enabled, once.
MaySucceed(kind) == kind \in Deployments => kind \notin executed

\* What handler h is told of tx.
Answer(h, tx, status) ==
    IF status = "success" /\ <<tx.kind, tx.manager>> # <<request[h].at, request[h].manager>>
    THEN "another" ELSE status

\* The next transaction of the account is mined, and does what it says or, for
\* want of gas or since its contract refuses, does not.
Mine ==
    /\ pool # <<>>
    /\ pool' = Tail(pool)
    /\ LET tx == Head(pool) IN
       \E status \in {"success", "reverted"} :
         /\ request' = [h \in Handlers |->
              IF h \in tx.by THEN [request[h] EXCEPT !.receipt = Answer(h, tx, status)]
              ELSE request[h]]
         /\ IF status = "reverted" THEN UNCHANGED <<executed, allowance, managers>>
            ELSE /\ MaySucceed(tx.kind)
                 /\ executed' = executed \cup ({tx.kind} \cap Kinds)
                 /\ allowance' = IF tx.kind = "setAllowance" THEN Cap ELSE allowance
                 /\ managers' = IF tx.kind = "assignRoles" THEN managers \cup {tx.manager}
                                ELSE managers
    /\ UNCHANGED <<row, spent, history>>

\* A manager moves money of the Safe through the modifier (buildExecRefundTx).
Spend ==
    /\ managers # {}
    /\ Deployments \cup ScopeCalls \subseteq executed
    /\ allowance > 0 /\ spent < MaxSpent
    /\ allowance' = allowance - 1
    /\ spent' = spent + 1
    /\ UNCHANGED <<row, request, pool, executed, managers, history>>

-----------------------------------------------------------------------------

Handle(h) ==
    \/ Deploy(h) \/ Claim(h) \/ RecordSafe(h)
    \/ Setup(h) \/ RecordModule(h) \/ RecordScope(h)
    \/ \E m \in Managers : Assign(h, m)
    \/ Send(h) \/ Receipt(h) \/ Fail(h)

Next ==
    \/ \E h \in Handlers : Handle(h)
    \/ \E i \in DOMAIN pool : OtherSends(i)
    \/ Mine \/ Spend

Spec == Init /\ [][Next]_vars

-----------------------------------------------------------------------------
(* Properties *)

Steps == {"idle", "claim", "recordSafe"} \cup SetupSteps \cup Kinds

TypeOK ==
    /\ row \in [status : {"absent", "pending", "deployed"}, roles : {"none", "enabled", "scoped"}]
    /\ request \in [Handlers -> [at : Steps,
                     receipt : {"none", "awaited", "success", "another", "reverted"},
                     manager : Managers \cup {None}]]
    /\ pool \in Seq([kind : Kinds \cup {"other"}, manager : Managers \cup {None},
                    by : SUBSET Handlers])
    /\ executed \subseteq Kinds
    /\ allowance \in Nat
    /\ managers \subseteq Managers
    /\ spent \in Nat
    /\ misread \subseteq Kinds
    /\ overlapped \in BOOLEAN
    /\ taken \in Nat

\* What the row says is on the chain: however set-ups overlap, fail and are
\* resumed and whichever transactions revert, the row runs ahead of the chain only
\* by what a handler misread, which is the revert of enableModule (safeRoles.ts:139
\* looks at no status) or the receipt of a transaction that took the nonce.  And
\* nobody has the role before its limits do, while no nonce is taken twice.
ScopedIsSetUp ==
    /\ row.status = "deployed" => "deploySafe" \in executed \cup misread
    /\ row.roles # "none" => Deployments \subseteq executed \cup misread
    /\ row.roles = "scoped" => ScopeCalls \subseteq executed \cup misread
    /\ "deployModule" \notin misread
    /\ managers # {} /\ taken = 0 => row.roles = "scoped"

\* Managers move no more than the cap: a set-up that is resumed gives them a new
\* allowance only before anybody has the role, unless two set-ups overlap or two
\* transactions have one nonce.
SpentWithinCap == spent > Cap => overlapped \/ taken > 0

\* schema.ts:282, "enabled (modifier deployed + enabled on Safe)": does not hold,
\* an enableModule that reverts leaves a row that is enabled and then scoped, to
\* which no set-up comes back.
ModuleIsEnabled == row.roles # "none" => "enableModule" \in executed

\* treasury.ts:48, "the DB stays consistent" when deployments race: does not
\* hold, the receipt of another transaction records a Safe that is not there.
DeployedIsThere == row.status = "deployed" => "deploySafe" \in executed

\* zodiacRoles.ts:221, "fixed cap": does not hold, the slower of two set-ups sets
\* the allowance again after managers spent it.
CapHolds == spent <= Cap

\* treasury.test.ts:96, "no stuck pending row": does not hold, a Safe whose
\* deployment was not recorded cannot be deployed again.
NoStuckRow ==
    row.status = "pending" /\ "deploySafe" \in executed =>
      \E h \in Handlers : request[h].at \in {"deploySafe", "recordSafe"}

\* safeRoles.ts:92, "a retry call continues from where it left off": does not
\* hold, a modifier that was not recorded cannot be deployed again.
SetupResumes ==
    row.roles = "none" /\ "deployModule" \in executed =>
      \E h \in Handlers : request[h].at \in {"deployModule", "enableModule", "recordModule"}
=============================================================================
