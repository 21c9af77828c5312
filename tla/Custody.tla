------------------------------- MODULE Custody -------------------------------
(***************************************************************************)
(* The life of a wallet in one browser, apps/web: the onboarding pages     *)
(* that generate its key, hand out its recovery kit and save its device    *)
(* share, the status check that compares the browser with the server, and  *)
(* the guards that send the owner where the status says.                   *)
(*                                                                         *)
(* A generation is that of KeyGeneration: the server stores the key, the   *)
(* page gets the shares.  How the server recovers a share and replaces it  *)
(* is ShareRecovery; here a kit of a key is good for that key.  Owners     *)
(* have set up their business.                                             *)
(***************************************************************************)
EXTENDS Naturals, Sequences

CONSTANTS
    Users,  \* owners who use this browser
    Keys,
    Gens,   \* generations that can be under way at a time
    Nil

ASSUME CustodyAssumption == Nil \notin Users \cup Keys

VARIABLES
    session,  \* who is logged in
    keys,     \* a user's rows of mpc_keys, in order of insertion
    saved,    \* the key whose device share is in IndexedDB
    kits,     \* keys whose recovery kit was downloaded
    ram,      \* the onboarding context
    dkg,      \* the generations under way
    hasGenerated,  \* the create-wallet page that is shown has started its own
    page,
    status,   \* of the wallet, as the page last learned
    check,    \* the status check under way
    lost      \* history: keys whose shares were dropped before their kit

custodyVars == <<session, keys, saved, kits, ram, dkg, hasGenerated, page, status,
                 check, lost>>

Pages == { "entry", "create", "kit", "pin", "recover", "dashboard" }

Statuses == { "loading", "new", "locked", "unlocked", "recoverable",
              "invalid-local" }

NoShares == [key |-> Nil, backup |-> FALSE]

\* What waits for the result: the onboarding context, code whose context was
\* unmounted, or nothing, when the document is gone.
NoDkg == [at |-> "none", user |-> Nil, key |-> Nil, for |-> "nothing"]

NoCheck == [at |-> "none", local |-> Nil, answer |-> Nil]

CustodyInit ==
    /\ session = Nil
    /\ keys = [u \in Users |-> <<>>]
    /\ saved = Nil
    /\ kits = {}
    /\ ram = NoShares
    /\ dkg = [g \in Gens |-> NoDkg]
    /\ hasGenerated = FALSE
    /\ page = "entry"
    /\ status = "loading"
    /\ check = NoCheck
    /\ lost = {}

-----------------------------------------------------------------------------
(* determineWalletStatus *)

\* What the set-up of a wallet changes.
setupVars == <<kits, ram, dkg, hasGenerated, lost>>

\* GET /mpc-key: the first row of the user.
ServerKey == IF session = Nil \/ keys[session] = <<>> THEN Nil
             ELSE Head(keys[session])

\* The two reads.  The server may answer an error, which reads as no key, or
\* not at all.
CheckRead ==
    /\ check = NoCheck
    /\ status # "unlocked"
    /\ \E a \in { ServerKey, Nil, "unreachable" } :
         check' = [at |-> "read", local |-> saved, answer |-> a]
    /\ UNCHANGED <<session, keys, saved, page, status, setupVars>>

\* Without a key the local wallet is cleared.
CheckNoKey ==
    /\ check.at = "read"
    /\ check.answer = Nil
    /\ saved' = Nil
    /\ status' = "new"
    /\ check' = NoCheck
    /\ UNCHANGED <<session, keys, page, setupVars>>

CheckKey ==
    /\ check.at = "read"
    /\ check.answer \in Keys
    /\ status' = IF check.local = Nil THEN "recoverable"
                 ELSE IF check.local = check.answer THEN "locked"
                 ELSE "invalid-local"
    /\ check' = NoCheck
    /\ UNCHANGED <<session, keys, saved, page, setupVars>>

\* The catch reads the local wallet again.
CheckThrows ==
    /\ check.at = "read"
    /\ check.answer = "unreachable"
    /\ status' = IF saved = Nil THEN "new" ELSE "locked"
    /\ check' = NoCheck
    /\ UNCHANGED <<session, keys, saved, page, setupVars>>

-----------------------------------------------------------------------------
(* The guards *)

\* Another page is shown.  The onboarding and the dashboard have a layout
\* each, which learns the status when it is mounted.
GoTo(p) ==
    /\ page' = p
    /\ hasGenerated' = FALSE
    /\ status' = IF (page = "dashboard") # (p = "dashboard") THEN "loading" ELSE status

\* Keys whose backup share is in the context only, or on its way there.
Unsaved == { k \in Keys \ kits : ram.key = k /\ ram.backup }

Awaited == { k \in Keys : \E g \in Gens : dkg[g].key = k /\ dkg[g].for = "context" }

\* The onboarding layout is unmounted, and its context with it.
Unmount ==
    /\ ram' = NoShares
    /\ dkg' = [g \in Gens |-> IF dkg[g].for = "context"
                              THEN [dkg[g] EXCEPT !.for = "code"] ELSE dkg[g]]
    /\ lost' = lost \cup Unsaved \cup Awaited

\* Mutant of NextStep: an outdated name of the recovery page.
NextStepRenamed ==
    IF session = Nil THEN "entry"
    ELSE CASE status = "new" -> "create"
           [] status \in {"recoverable", "invalid-local"} -> "recovery"
           [] OTHER -> "dashboard"

\* getNextOnboardingStep, and the guard's own rule without a session.
NextStep ==
    IF session = Nil THEN "entry"
    ELSE CASE status = "new" -> "create"
           [] status \in {"recoverable", "invalid-local"} -> "recover"
           [] OTHER -> "dashboard"

Allowed ==
    {NextStep} \cup (IF NextStep \in {"create", "recover"} THEN {"kit", "pin"} ELSE {})

Guard ==
    /\ status # "loading"
    /\ page \notin Allowed
    /\ GoTo(NextStep)
    /\ \/ NextStep = "dashboard" /\ Unmount
       \/ NextStep # "dashboard" /\ UNCHANGED <<ram, dkg, lost>>
    /\ UNCHANGED <<session, keys, saved, kits, check>>

-----------------------------------------------------------------------------
(* The onboarding pages *)

\* create-wallet, as soon as it is shown; the guard may be about to leave it.
Generate(g) ==
    /\ page = "create" /\ status # "loading"
    /\ session # Nil
    /\ ram = NoShares /\ ~hasGenerated
    /\ dkg[g] = NoDkg
    /\ dkg' = [dkg EXCEPT ![g] =
                 [at |-> "running", user |-> session, key |-> Nil, for |-> "context"]]
    /\ hasGenerated' = TRUE
    /\ UNCHANGED <<session, keys, saved, kits, ram, page, status, check, lost>>

\* The server's part, persistServerKey, whoever is left to learn of it.
Stored(g, k) ==
    /\ dkg[g].at = "running"
    /\ \A u \in Users : \A i \in DOMAIN keys[u] : keys[u][i] # k
    /\ keys' = [keys EXCEPT ![dkg[g].user] = Append(@, k)]
    /\ dkg' = [dkg EXCEPT ![g] = IF @.for = "nothing" THEN NoDkg
                                 ELSE [@ EXCEPT !.at = "stored", !.key = k]]
    /\ lost' = IF dkg[g].for = "context" THEN lost ELSE lost \cup {k}
    /\ UNCHANGED <<session, saved, kits, ram, hasGenerated, page, status, check>>

\* Mutant of Generated: the wallet is ready, on to the PIN.
GeneratedToPin(g) ==
    /\ dkg[g].at = "stored"
    /\ \/ /\ dkg[g].for = "context"
          /\ ram' = [key |-> dkg[g].key, backup |-> TRUE]
          /\ lost' = lost \cup Unsaved
       \/ dkg[g].for # "context" /\ UNCHANGED <<ram, lost>>
    /\ dkg' = [dkg EXCEPT ![g] = NoDkg]
    /\ GoTo("pin")
    /\ UNCHANGED <<session, keys, saved, kits, check>>

\* setMpc, in place of what the context held, and on to the kit, from wherever
\* the guard put the page.  A context that is gone keeps nothing.
Generated(g) ==
    /\ dkg[g].at = "stored"
    /\ \/ /\ dkg[g].for = "context"
          /\ ram' = [key |-> dkg[g].key, backup |-> TRUE]
          /\ lost' = lost \cup Unsaved
       \/ dkg[g].for # "context" /\ UNCHANGED <<ram, lost>>
    /\ dkg' = [dkg EXCEPT ![g] = NoDkg]
    /\ GoTo("kit")
    /\ UNCHANGED <<session, keys, saved, kits, check>>

\* The ceremony fails, possibly when only its last answer is missing; the
\* server may still be storing the key.
GenerateFails(g) ==
    /\ dkg[g].for \in {"context", "code"}
    /\ dkg' = [dkg EXCEPT ![g] = IF @.at = "running" THEN [@ EXCEPT !.for = "nothing"]
                                 ELSE NoDkg]
    /\ lost' = lost \cup ({dkg[g].key} \ {Nil})
    /\ GoTo("entry")
    /\ UNCHANGED <<session, keys, saved, kits, ram, check>>

\* The server never stores the key of a generation nothing waits for.
Forgotten(g) ==
    /\ dkg[g].at = "running" /\ dkg[g].for = "nothing"
    /\ dkg' = [dkg EXCEPT ![g] = NoDkg]
    /\ UNCHANGED <<session, keys, saved, kits, ram, hasGenerated, page, status, check,
                   lost>>

\* kit and pin have nothing to show after a reload.
NothingHeld ==
    /\ page \in {"kit", "pin"} /\ status # "loading"
    /\ ram = NoShares
    /\ GoTo("create")
    /\ UNCHANGED <<session, keys, saved, kits, ram, dkg, check, lost>>

\* Mutant of Download: the backup share is dropped before it is exported.
DownloadEmpty ==
    /\ page = "kit"
    /\ ram.backup
    /\ ram' = [ram EXCEPT !.backup = FALSE]
    /\ UNCHANGED <<session, keys, saved, kits, dkg, hasGenerated, page, status, check,
                   lost>>

\* finalizeBackupShare, the download, and the backup share is dropped.
Download ==
    /\ page = "kit"
    /\ ram.backup
    /\ kits' = kits \cup {ram.key}
    /\ ram' = [ram EXCEPT !.backup = FALSE]
    /\ UNCHANGED <<session, keys, saved, dkg, hasGenerated, page, status, check, lost>>

Continue ==
    /\ page = "kit"
    /\ ram.key # Nil /\ ~ram.backup
    /\ GoTo("pin")
    /\ UNCHANGED <<session, keys, saved, kits, ram, dkg, check, lost>>

\* create-pin: saveDeviceShare, clear, and the dashboard takes over.
ChoosePin ==
    /\ page = "pin"
    /\ ram.key # Nil
    /\ saved' = ram.key
    /\ GoTo("dashboard")
    /\ Unmount
    /\ UNCHANGED <<session, keys, kits, check>>

\* recover: the server recovers the user's first key with its kit, and its
\* shares take the place of what the context held.
Recover ==
    /\ page = "recover" /\ status # "loading"
    /\ saved = Nil
    /\ ServerKey \in kits
    /\ ram' = [key |-> ServerKey, backup |-> TRUE]
    /\ lost' = lost \cup Unsaved
    /\ GoTo("kit")
    /\ UNCHANGED <<session, keys, saved, kits, dkg, check>>

Unlock ==
    /\ page = "dashboard"
    /\ status = "locked" /\ saved # Nil
    /\ status' = "unlocked"
    /\ UNCHANGED <<session, keys, saved, page, check, setupVars>>

\* By hand, when idle, or when the page is hidden.
Lock ==
    /\ status = "unlocked"
    /\ status' = "locked"
    /\ UNCHANGED <<session, keys, saved, page, check, setupVars>>

-----------------------------------------------------------------------------

\* A document is loaded: what the last one held is gone, and the server may
\* still finish its generations.
Load(p) ==
    /\ lost' = lost \cup Unsaved \cup Awaited
    /\ ram' = NoShares
    /\ dkg' = [g \in Gens |-> IF dkg[g].at = "running"
                              THEN [dkg[g] EXCEPT !.for = "nothing"] ELSE NoDkg]
    /\ hasGenerated' = FALSE
    /\ check' = NoCheck
    /\ status' = "loading"
    /\ page' = p
    /\ UNCHANGED <<keys, saved, kits>>

Visit(p) == Load(p) /\ UNCHANGED session

Login(u) ==
    /\ session = Nil
    /\ page = "entry"
    /\ session' = u
    /\ UNCHANGED <<keys, saved, page, status, check, setupVars>>

\* The user menu, or the session was revoked elsewhere.
Logout == session # Nil /\ session' = Nil /\ Load("entry")

\* The session expires under an open page.
Expire ==
    /\ session # Nil
    /\ session' = Nil
    /\ UNCHANGED <<keys, saved, page, status, check, setupVars>>

CustodyNext ==
    \/ CheckRead \/ CheckNoKey \/ CheckKey \/ CheckThrows \/ Guard
    \/ NothingHeld \/ Download \/ Continue \/ ChoosePin \/ Recover
    \/ Unlock \/ Lock \/ Logout \/ Expire
    \/ \E g \in Gens : Generate(g) \/ Generated(g) \/ GenerateFails(g) \/ Forgotten(g)
    \/ \E g \in Gens, k \in Keys : Stored(g, k)
    \/ \E p \in Pages : Visit(p)
    \/ \E u \in Users : Login(u)

CustodySpec == CustodyInit /\ [][CustodyNext]_custodyVars

-----------------------------------------------------------------------------
(* Properties *)

CustodyTypeOK ==
    /\ session \in Users \cup {Nil}
    /\ keys \in [Users -> Seq(Keys)]
    /\ saved \in Keys \cup {Nil}
    /\ kits \subseteq Keys
    /\ ram \in [key : Keys \cup {Nil}, backup : BOOLEAN]
    /\ dkg \in [Gens -> [at : {"none", "running", "stored"}, user : Users \cup {Nil},
                         key : Keys \cup {Nil}, for : {"context", "code", "nothing"}]]
    /\ hasGenerated \in BOOLEAN
    /\ page \in Pages
    /\ status \in Statuses
    /\ check \in [at : {"none", "read"}, local : Keys \cup {Nil},
                  answer : Keys \cup {Nil, "unreachable"}]
    /\ lost \subseteq Keys

\* A device share that the browser keeps is of a key whose kit was downloaded:
\* whatever clears it, the kit is left.
SavedHasKit == saved # Nil => saved \in kits

\* A key that the server has can be used again, whichever of its owner's keys
\* it is and whoever is logged in: its kit exists, or the onboarding context
\* holds its backup share or waits for it.  The keys of which this is not true
\* are exactly those whose shares went with a document or a layout that was
\* left, with an answer that did not arrive, or with the shares that replaced
\* them; everything else keeps them.
RegisteredIsRecoverable ==
    \A u \in Users : \A i \in DOMAIN keys[u] :
      (keys[u][i] \in lost) # (keys[u][i] \in kits \cup Unsaved \cup Awaited)

\* context.tsx:48: "Reload mid-flow loses state; callers redirect back to
\* create-wallet."  The set-up can then be done again only if the server has
\* no key yet: the key that the server names is not lost.
SetupCanBeRedone ==
    \A u \in Users : keys[u] # <<>> => Head(keys[u]) \notin lost

\* ceremony.ts:254: "each user has one" key.
OneKeyPerUser == \A u \in Users : Len(keys[u]) <= 1
=============================================================================
