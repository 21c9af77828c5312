--------------------------- MODULE ShareRecovery ---------------------------
(***************************************************************************)
(* The recovery of a device share from a recovery kit, in two phases:      *)
(* POST /mpc-recover stages a new server share, POST /mpc-recover/commit   *)
(* installs it (apps/api/src/routes/wallet.ts, services/mpc/recoverStaging *)
(* .ts), with the onboarding pages that call them.                         *)
(*                                                                         *)
(* One key of one user.  The three shares of a key are points of a         *)
(* polynomial: two open the key together only when they are of the same    *)
(* one.  A recovery mints a polynomial and numbers it with a generation; a *)
(* share is represented by its polynomial, and so is the commit token,     *)
(* which is as fresh.  A step of a request is one statement on the         *)
(* database, or one run of synchronous code between two awaits.            *)
(***************************************************************************)
EXTENDS Integers, FiniteSets

CONSTANTS
    Clients,   \* browsers of the user
    Handlers,  \* concurrent requests
    Shares,    \* polynomials
    First,     \* the polynomial of the key's generation
    None

ASSUME RecoveryAssumption ==
    /\ First \in Shares
    /\ None \notin Shares \cup Handlers \cup Clients

VARIABLES
    version,  \* mpc_keys.version
    live,     \* the row of mpc_server_shares: polynomial and version
    store,    \* the staged recoveries, in the memory of the process
    minted,   \* the generation a polynomial was minted for, 0 before
    kits,     \* the recovery kits the user has downloaded
    w,        \* what a browser is doing and holds
    h,        \* where a request stands and what it remembers
    torn      \* history: a commit died between its two statements

vars == <<version, live, store, minted, kits, w, h, torn>>

\* A kit exported before kits carried their generation.
Legacy == 0

Away == [at |-> "away", share |-> None, generation |-> 0, request |-> None]

Idle == [at |-> "idle", client |-> None, kit |-> None, generation |-> 0,
         base |-> 0, share |-> None]

Init ==
    /\ version = 1
    /\ live = [share |-> First, version |-> 1]
    /\ store = {}
    /\ minted = [s \in Shares |-> IF s = First THEN 1 ELSE 0]
    /\ \E g \in {1, Legacy} : kits = {[share |-> First, generation |-> g]}
    /\ w = [c \in Clients |-> Away]
    /\ h = [r \in Handlers |-> Idle]
    /\ torn = FALSE

-----------------------------------------------------------------------------
(* Requests and their answers *)

\* A request answers a browser that is still waiting for it.
Listens(r) == h[r].client # None /\ w[h[r].client].request = r

\* The request ends; its browser, if it still listens, goes on as `next`.
Answer(r, next) ==
    /\ h' = [h EXCEPT ![r] = Idle]
    /\ w' = IF Listens(r) THEN [w EXCEPT ![h[r].client] = next] ELSE w

\* An error: the recovery page starts again, the PIN page may try again.
Refuse(r) ==
    Answer(r, IF w[h[r].client].at = "asking" THEN Away
              ELSE [w[h[r].client] EXCEPT !.at = "pin", !.request = None])

-----------------------------------------------------------------------------
(* POST /mpc-recover *)

\* The user uploads one of the kits.
Ask(c, r, k) ==
    /\ w[c].at = "away"
    /\ h[r].at = "idle"
    /\ k \in kits
    /\ h' = [h EXCEPT ![r] = [at |-> "generation", client |-> c,
                              kit |-> k.share, generation |-> k.generation,
                              base |-> 0, share |-> None]]
    /\ w' = [w EXCEPT ![c] = [at |-> "asking", share |-> None,
                              generation |-> 0, request |-> r]]
    /\ UNCHANGED <<version, live, store, minted, kits, torn>>

\* A kit of another generation is outdated.
CheckGeneration(r) ==
    /\ h[r].at = "generation"
    /\ IF h[r].generation \in {version, Legacy}
       THEN /\ h' = [h EXCEPT ![r].at = "key", ![r].base = version]
            /\ UNCHANGED w
       ELSE Refuse(r)
    /\ UNCHANGED <<version, live, store, minted, kits, torn>>

\* loadServerKeyshare reads the key again: `generation` is its version now.
LoadKey(r) ==
    /\ h[r].at = "key"
    /\ h' = [h EXCEPT ![r].at = "share", ![r].generation = version]
    /\ UNCHANGED <<version, live, store, minted, kits, w, torn>>

\* The share must be of the key's version, or it does not decrypt, and of the
\* kit's polynomial, or the two do not recombine.
LoadShare(r) ==
    /\ h[r].at = "share"
    /\ IF live = [share |-> h[r].kit, version |-> h[r].generation]
       THEN /\ h' = [h EXCEPT ![r].at = "stage"]
            /\ UNCHANGED w
       ELSE Refuse(r)
    /\ UNCHANGED <<version, live, store, minted, kits, torn>>

Entry(s, v) == [share |-> s, version |-> v, consumed |-> FALSE]

\* Mutant of Stage: the new share is installed at once.
StageInstalls(r, s) ==
    /\ h[r].at = "stage"
    /\ minted[s] = 0
    /\ minted' = [minted EXCEPT ![s] = h[r].base + 1]
    /\ store' = {e \in store : e.consumed} \cup {Entry(s, h[r].base + 1)}
    /\ live' = [share |-> s, version |-> h[r].base + 1]
    /\ version' = h[r].base + 1
    /\ Answer(r, [at |-> "kit", share |-> s, generation |-> h[r].base + 1,
                  request |-> None])
    /\ UNCHANGED <<kits, torn>>

\* The three shares are minted anew; only the latest recovery can be committed.
Stage(r, s) ==
    /\ h[r].at = "stage"
    /\ minted[s] = 0
    /\ minted' = [minted EXCEPT ![s] = h[r].base + 1]
    /\ store' = {e \in store : e.consumed} \cup {Entry(s, h[r].base + 1)}
    /\ Answer(r, [at |-> "kit", share |-> s, generation |-> h[r].base + 1,
                  request |-> None])
    /\ UNCHANGED <<version, live, kits, torn>>

-----------------------------------------------------------------------------
(* POST /mpc-recover/commit *)

\* The PIN page commits what the recovery page received.
Commit(c, r) ==
    /\ w[c].at = "pin"
    /\ h[r].at = "idle"
    /\ h' = [h EXCEPT ![r] = [at |-> "take", client |-> c, kit |-> None,
                              generation |-> 0, base |-> 0,
                              share |-> w[c].share]]
    /\ w' = [w EXCEPT ![c].at = "committing", ![c].request = r]
    /\ UNCHANGED <<version, live, store, minted, kits, torn>>

\* The browser learns that the recovery is committed.
Confirm(r) ==
    Answer(r, [w[h[r].client] EXCEPT !.at = "confirmed", !.request = None])

\* Mutant of Take: a token that is gone was committed.
TakeUnknown(r) ==
    /\ h[r].at = "take"
    /\ \/ /\ \A e \in store : e.share # h[r].share \/ e.consumed
          /\ Confirm(r)
       \/ \E e \in store :
            /\ e.share = h[r].share
            /\ ~e.consumed
            /\ h' = [h EXCEPT ![r].at = "bump", ![r].base = e.version - 1]
            /\ UNCHANGED w
    /\ UNCHANGED <<version, live, store, minted, kits, torn>>

\* An unknown token is refused, a consumed one confirmed.
Take(r) ==
    /\ h[r].at = "take"
    /\ \/ /\ \A e \in store : e.share # h[r].share
          /\ Refuse(r)
       \/ \E e \in store :
            /\ e.share = h[r].share
            /\ \/ e.consumed /\ Confirm(r)
               \/ /\ ~e.consumed
                  /\ h' = [h EXCEPT ![r].at = "bump",
                                    ![r].base = e.version - 1]
                  /\ UNCHANGED w
    /\ UNCHANGED <<version, live, store, minted, kits, torn>>

\* The version moves on only from the generation the recovery started at.
Bump(r) ==
    /\ h[r].at = "bump"
    /\ IF version = h[r].base
       THEN /\ version' = h[r].base + 1
            /\ h' = [h EXCEPT ![r].at = "write"]
            /\ UNCHANGED w
       ELSE /\ Refuse(r)
            /\ UNCHANGED version
    /\ UNCHANGED <<live, store, minted, kits, torn>>

\* The new server share.
Write(r) ==
    /\ h[r].at = "write"
    /\ live' = [share |-> h[r].share, version |-> h[r].base + 1]
    /\ h' = [h EXCEPT ![r].at = "mark"]
    /\ UNCHANGED <<version, store, minted, kits, w, torn>>

\* The token is consumed if it is still there; the answer.
Mark(r) ==
    /\ h[r].at = "mark"
    /\ LET mine == {e \in store : e.share = h[r].share}
       IN  store' = (store \ mine) \cup {[e EXCEPT !.consumed = TRUE] : e \in mine}
    /\ Confirm(r)
    /\ UNCHANGED <<version, live, minted, kits, torn>>

-----------------------------------------------------------------------------
(* The browser between the requests *)

\* The kit of the new generation is downloaded before the PIN is asked.
SaveKit(c) ==
    /\ w[c].at = "kit"
    /\ kits' = kits \cup {[share |-> w[c].share, generation |-> w[c].generation]}
    /\ w' = [w EXCEPT ![c].at = "pin"]
    /\ UNCHANGED <<version, live, store, minted, h, torn>>

\* saveDeviceShare
SaveDevice(c) ==
    /\ w[c].at = "confirmed"
    /\ w' = [w EXCEPT ![c].at = "saved"]
    /\ UNCHANGED <<version, live, store, minted, kits, h, torn>>

\* The answer is lost: the recovery page starts again, the PIN page may commit
\* again; as it may when the device share could not be saved.
GiveUp(c) ==
    /\ w[c].request # None \/ w[c].at = "confirmed"
    /\ w' = [w EXCEPT ![c] = IF w[c].at = "asking" THEN Away
                             ELSE [w[c] EXCEPT !.at = "pin", !.request = None]]
    /\ UNCHANGED <<version, live, store, minted, kits, h, torn>>

\* Mutant of Leave: the pages forget, the shares stay.
LeaveBehind(c) ==
    /\ w[c].at \in {"kit", "pin", "confirmed", "saved"}
    /\ w' = [w EXCEPT ![c].at = "away"]
    /\ UNCHANGED <<version, live, store, minted, kits, h, torn>>

\* The page is reloaded, or the device with its share is lost.
Leave(c) ==
    /\ w[c].at \in {"kit", "pin", "confirmed", "saved"}
    /\ w' = [w EXCEPT ![c] = Away]
    /\ UNCHANGED <<version, live, store, minted, kits, h, torn>>

-----------------------------------------------------------------------------
(* The process *)

\* A staged recovery, or the trace of a consumed one, is out of time.
Sweep(e) ==
    /\ store' = store \ {e}
    /\ UNCHANGED <<version, live, minted, kits, w, h, torn>>

\* The database refuses a statement: the request ends.
Fail(r) ==
    /\ h[r].at # "idle"
    /\ Refuse(r)
    /\ torn' = (torn \/ h[r].at = "write")
    /\ UNCHANGED <<version, live, store, minted, kits>>

\* The process restarts: requests end unanswered, staged recoveries are gone.
Restart ==
    /\ store' = {}
    /\ h' = [r \in Handlers |-> Idle]
    /\ torn' = (torn \/ \E r \in Handlers : h[r].at = "write")
    /\ UNCHANGED <<version, live, minted, kits, w>>

Next ==
    \/ \E r \in Handlers :
         \/ CheckGeneration(r) \/ LoadKey(r) \/ LoadShare(r)
         \/ \E s \in Shares : Stage(r, s)
         \/ Take(r) \/ Bump(r) \/ Write(r) \/ Mark(r) \/ Fail(r)
         \/ \E c \in Clients : Commit(c, r) \/ \E k \in kits : Ask(c, r, k)
    \/ \E c \in Clients : SaveKit(c) \/ SaveDevice(c) \/ GiveUp(c) \/ Leave(c)
    \/ \E e \in store : Sweep(e)
    \/ Restart

Spec == Init /\ [][Next]_vars

-----------------------------------------------------------------------------
(* Properties *)

Asked == [at : {"generation", "key", "share", "stage"}, client : Clients,
          kit : Shares, generation : Nat, base : Nat, share : {None}]

Committing == [at : {"take", "bump", "write", "mark"}, client : Clients,
               kit : {None}, generation : {0}, base : Nat, share : Shares]

Waiting == [at : {"asking"}, share : {None}, generation : {0},
            request : Handlers]

Holding == [at : {"kit", "pin", "confirmed", "saved"}, share : Shares,
            generation : Nat, request : {None}]
             \cup [at : {"committing"}, share : Shares, generation : Nat,
                   request : Handlers]

\* The type invariant: a browser holds the new shares from the answer of the
\* recovery until it leaves, and no longer.
TypeOK ==
    /\ version \in Nat
    /\ live \in [share : Shares, version : Nat]
    /\ store \subseteq [share : Shares, version : Nat \ {0}, consumed : BOOLEAN]
    /\ minted \in [Shares -> Nat]
    /\ kits \subseteq [share : Shares, generation : Nat]
    /\ w \in [Clients -> {Away} \cup Waiting \cup Holding]
    /\ h \in [Handlers -> {Idle} \cup Asked \cup Committing]
    /\ torn \in BOOLEAN

\* A kit recovers the key: it is not refused as outdated, the server share
\* decrypts, and the two are of one polynomial.
Opens(k) ==
    /\ k.generation \in {version, Legacy}
    /\ live = [share |-> k.share, version |-> version]

\* recoverStaging.ts:8-12: the live share is never touched until the client
\* commits the same recovery, and an interrupted recovery is retryable.  Whatever
\* recoveries were started, abandoned, repeated or committed, and wherever they
\* and the process died, one of the kits the user has downloaded recovers the
\* key, unless a commit died after its update of the version (wallet.ts:275) and
\* before that of the share (wallet.ts:285).
Recoverable ==
    (\A r \in Handlers : h[r].at # "write") => torn \/ \E k \in kits : Opens(k)

\* recoverStaging.ts:8-12: "an interrupted recovery is retryable, never
\* bricking".
NeverBricked ==
    (\A r \in Handlers : h[r].at # "write") => \E k \in kits : Opens(k)

\* The device share a browser was told to keep signs with the server share,
\* unless a later generation was committed since: wallet.ts:267-271, "we must
\* NOT install a server share that no longer matches the kit + device the user
\* kept".
KeptDeviceSigns ==
    \A c \in Clients : w[c].at \in {"confirmed", "saved"} =>
      \/ live = [share |-> w[c].share, version |-> w[c].generation]
      \/ live.version > w[c].generation

\* The live share is only ever replaced by one of the next generation, and so
\* never by another polynomial under the same number, which no generation
\* check could tell apart (recoverStaging.ts:57-62).
GenerationsAdvance ==
    [][live' # live => live'.version = live.version + 1]_live

-----------------------------------------------------------------------------
(* The inductive invariant behind them *)

\* The live share is that of polynomial s and generation g, or a later one.
Reached(s, g) ==
    live = [share |-> s, version |-> g] \/ live.version > g

\* Whatever speaks of a polynomial says the generation it was minted for; a
\* kit may say nothing.
OneLabel ==
    /\ minted[First] # 0
    /\ \A e \in store : minted[e.share] = e.version
    /\ \A k \in kits : /\ minted[k.share] # 0
                       /\ k.generation \in {minted[k.share], Legacy}
    /\ \A c \in Clients : w[c].share # None =>
         minted[w[c].share] = w[c].generation /\ w[c].generation # 0
    /\ \A r \in Handlers : h[r].at \in {"bump", "write", "mark"} =>
         minted[h[r].share] = h[r].base + 1

\* The key is at most one commit ahead of its share, which is then being
\* written by one request, or that commit is torn; nothing was staged from a
\* later generation than that of the share.
Ordered ==
    /\ live.version <= version /\ version <= live.version + 1
    /\ ~torn /\ version # live.version => \E r \in Handlers : h[r].at = "write"
    /\ \A e \in store : e.version <= live.version + 1
    /\ \A r \in Handlers :
         /\ h[r].at = "key" => h[r].base <= version
         /\ h[r].at = "share" => /\ h[r].base <= h[r].generation
                                 /\ h[r].generation <= version
         /\ h[r].at \in {"stage", "bump"} => h[r].base <= live.version
         /\ h[r].at = "write" => /\ version = h[r].base + 1
                                 /\ live.version = h[r].base
    /\ \A q, r \in Handlers : h[q].at = "write" /\ h[r].at = "write" => q = r

\* Only a downloaded kit is committed, and the live share has one.
Downloaded ==
    /\ minted[live.share] = live.version
    /\ \E k \in kits : k.share = live.share
    /\ \A c \in Clients : w[c].at \in {"pin", "committing", "confirmed", "saved"} =>
         [share |-> w[c].share, generation |-> w[c].generation] \in kits
    /\ \A r \in Handlers : h[r].at \in {"take", "bump", "write", "mark"} =>
         \E k \in kits : k.share = h[r].share

\* What was consumed, and what a browser was told to keep, was live.
Committed ==
    /\ \A e \in store : e.consumed => Reached(e.share, e.version)
    /\ \A r \in Handlers : h[r].at = "mark" => Reached(h[r].share, h[r].base + 1)
    /\ \A c \in Clients : w[c].at \in {"confirmed", "saved"} =>
         Reached(w[c].share, w[c].generation)

\* A browser that a request answers waits for what the request does.
Linked ==
    \A r \in Handlers : Listens(r) =>
      IF h[r].at \in {"generation", "key", "share", "stage"}
      THEN w[h[r].client].at = "asking"
      ELSE /\ w[h[r].client].at = "committing"
           /\ w[h[r].client].share = h[r].share

\* The inductive invariant: generations in order, one per polynomial, kits
\* before commits, confirmations after them.
IInv == TypeOK /\ OneLabel /\ Ordered /\ Downloaded /\ Committed /\ Linked
=============================================================================
