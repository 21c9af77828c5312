---------------------------- MODULE WalletProofs ----------------------------
(* Proofs about the wallets of a business: about Custody, the owner's key in *)
(* a browser, for any number of owners and keys, and about ChildWallets, the *)
(* wallets derived from it, for any number of forms, terminals, requests and *)
(* deliveries and any window that is as wide as the assumption says.  The    *)
(* two share no constant, variable or definition.                            *)
EXTENDS Custody, ChildWallets, WellFoundedInduction, TLAPS

-----------------------------------------------------------------------------
(* The owner's key *)

\* Keys that the server has.
Registered == { k \in Keys : \E u \in Users : \E i \in DOMAIN keys[u] : keys[u][i] = k }

\* What a generation under way has reached.  A key that only the server and
\* the generation have is held by nothing else, and is lost if no context
\* waits for it.
Generations ==
    \A g \in Gens :
      /\ dkg[g].at = "none" => dkg[g] = NoDkg
      /\ dkg[g].at = "running" => dkg[g].user \in Users /\ dkg[g].key = Nil
      /\ dkg[g].at = "stored" =>
           /\ dkg[g].key \in Registered \ kits /\ dkg[g].key # ram.key
           /\ dkg[g].for # "nothing"
           /\ dkg[g].for = "code" => dkg[g].key \in lost
           /\ \A f \in Gens \ {g} : dkg[f].key # dkg[g].key

\* A share without its backup was exported; a page past the kit holds no
\* backup share.
Exported ==
    /\ ram.key = Nil => ~ram.backup
    /\ ram.key # Nil /\ ~ram.backup => ram.key \in kits
    /\ page = "pin" => ~ram.backup

\* The server's keys are those that can be used again and those that are lost.
Accounted ==
    /\ Registered = lost \cup kits \cup Unsaved \cup Awaited
    /\ lost \cap (kits \cup Unsaved \cup Awaited) = {}

Safe == Generations /\ Exported /\ Accounted /\ SavedHasKit

CustodyInv == CustodyTypeOK /\ Safe

GenRecords == [at : {"none", "running", "stored"}, user : Users \cup {Nil},
               key : Keys \cup {Nil}, for : {"context", "code", "nothing"}]
-----------------------------------------------------------------------------
LEMMA CustodyInitInv == CustodyInit => CustodyInv
<1> SUFFICES ASSUME CustodyInit PROVE CustodyInv
  OBVIOUS
<1>1. keys = [u \in Users |-> <<>>] /\ <<>> \in Seq(Keys) /\ DOMAIN <<>> = {}
  BY DEF CustodyInit
<1>2. CustodyTypeOK
  <2>1. keys \in [Users -> Seq(Keys)]
    BY <1>1
  <2> QED
    BY <2>1 DEF CustodyInit, CustodyTypeOK, NoShares, NoDkg, NoCheck, Pages, Statuses
<1>3. Registered = {}
  <2>1. \A u \in Users : DOMAIN keys[u] = {}
    BY <1>1, Zenon
  <2> QED
    BY <2>1 DEF Registered
<1>4. Unsaved = {} /\ Awaited = {}
  BY DEF CustodyInit, Unsaved, Awaited, NoShares, NoDkg
<1>5. Generations /\ Exported /\ SavedHasKit
  BY DEF CustodyInit, Generations, Exported, SavedHasKit, NoShares, NoDkg
<1>6. Accounted
  BY <1>3, <1>4 DEF CustodyInit, Accounted
<1> QED
  BY <1>2, <1>5, <1>6 DEF CustodyInv, Safe

\* What the server names is a key it has.
LEMMA ServerNames ==
  ASSUME CustodyTypeOK
  PROVE  ServerKey \in Keys \cup {Nil}
<1> SUFFICES ASSUME session # Nil, keys[session] # <<>>
             PROVE  Head(keys[session]) \in Keys
  BY DEF ServerKey
<1>1. keys[session] \in Seq(Keys)
  BY DEF CustodyTypeOK
<1> QED
  BY <1>1

\* Moving one generation.
LEMMA GenMoves ==
  ASSUME CustodyTypeOK, NEW g \in Gens, NEW r \in GenRecords, dkg' = [dkg EXCEPT ![g] = r]
  PROVE  /\ dkg' \in [Gens -> GenRecords]
         /\ dkg'[g] = r /\ \A f \in Gens \ {g} : dkg'[f] = dkg[f]
  BY DEF CustodyTypeOK, GenRecords

LEMMA GenType ==
  ASSUME CustodyTypeOK, NEW g \in Gens
  PROVE  /\ dkg[g] \in GenRecords /\ NoDkg \in GenRecords
         /\ \A x \in {"context", "code", "nothing"} : [dkg[g] EXCEPT !.for = x] \in GenRecords
  BY DEF CustodyTypeOK, GenRecords, NoDkg

\* Every generation is forgotten, or keeps all but what waits for it.
LEMMA GensKept ==
  ASSUME CustodyTypeOK,
         \/ dkg' = [g \in Gens |-> IF dkg[g].for = "context"
                                   THEN [dkg[g] EXCEPT !.for = "code"] ELSE dkg[g]]
         \/ dkg' = [g \in Gens |-> IF dkg[g].at = "running"
                                   THEN [dkg[g] EXCEPT !.for = "nothing"] ELSE NoDkg]
  PROVE  /\ dkg' \in [Gens -> GenRecords]
         /\ \A g \in Gens :
              \/ dkg'[g] = NoDkg
              \/ /\ dkg'[g].at = dkg[g].at /\ dkg'[g].user = dkg[g].user
                 /\ dkg'[g].key = dkg[g].key /\ dkg'[g].for # "context"
                 /\ \/ dkg'[g] = dkg[g]
                    \/ dkg'[g].for = "code" /\ dkg[g].for = "context"
                    \/ dkg'[g].for = "nothing" /\ dkg[g].at = "running"
<1>1. \A g \in Gens : dkg[g] \in GenRecords /\ NoDkg \in GenRecords
  BY GenType
<1>2. CASE dkg' = [g \in Gens |-> IF dkg[g].for = "context"
                                  THEN [dkg[g] EXCEPT !.for = "code"] ELSE dkg[g]]
  BY <1>1, <1>2 DEF GenRecords
<1>3. CASE dkg' = [g \in Gens |-> IF dkg[g].at = "running"
                                  THEN [dkg[g] EXCEPT !.for = "nothing"] ELSE NoDkg]
  BY <1>1, <1>3 DEF GenRecords
<1> QED
  BY <1>2, <1>3

\* A stored key is new, and its owner's.
LEMMA Stores ==
  ASSUME CustodyInv, NEW g \in Gens, NEW k \in Keys, Stored(g, k)
  PROVE  /\ keys' \in [Users -> Seq(Keys)]
         /\ k \notin Registered /\ Registered' = Registered \cup {k}
<1> DEFINE u == dkg[g].user
<1>1. u \in Users /\ keys \in [Users -> Seq(Keys)] /\ keys[u] \in Seq(Keys)
  BY DEF Stored, Generations, CustodyTypeOK, CustodyInv, Safe
<1>2. keys' = [keys EXCEPT ![u] = Append(keys[u], k)]
  BY DEF Stored
<1>3. /\ Append(keys[u], k) \in Seq(Keys)
      /\ DOMAIN keys[u] = 1 .. Len(keys[u]) /\ Len(keys[u]) \in Nat
      /\ DOMAIN Append(keys[u], k) = 1 .. Len(keys[u]) + 1
      /\ \A i \in 1 .. Len(keys[u]) : Append(keys[u], k)[i] = keys[u][i]
      /\ Append(keys[u], k)[Len(keys[u]) + 1] = k
  BY <1>1
<1>4. keys' \in [Users -> Seq(Keys)] /\ keys'[u] = Append(keys[u], k)
      /\ \A v \in Users \ {u} : keys'[v] = keys[v]
  BY <1>1, <1>2, <1>3
<1>5. k \notin Registered
  BY DEF Stored, Registered
<1>6. Registered' \subseteq Registered \cup {k}
  <2> SUFFICES ASSUME NEW v \in Users, NEW i \in DOMAIN keys'[v], keys'[v][i] \in Keys
               PROVE  keys'[v][i] = k \/ \E j \in DOMAIN keys[v] : keys[v][j] = keys'[v][i]
    BY DEF Registered
  <2>1. CASE v = u
    <3>1. i \in 1 .. Len(keys[u]) \/ i = Len(keys[u]) + 1
      BY <1>3, <1>4, <2>1
    <3> QED
      BY <1>3, <1>4, <2>1, <3>1
  <2>2. CASE v # u
    BY <1>4, <2>2
  <2> QED
    BY <2>1, <2>2
<1>7. Registered \cup {k} \subseteq Registered'
  <2>1. k \in Registered'
    <3>1. Len(keys[u]) + 1 \in DOMAIN keys'[u]
      BY <1>3, <1>4
    <3> QED
      BY <1>1, <1>3, <1>4, <3>1 DEF Registered
  <2>2. ASSUME NEW v \in Users, NEW i \in DOMAIN keys[v]
        PROVE  i \in DOMAIN keys'[v] /\ keys'[v][i] = keys[v][i]
    <3>1. CASE v = u
      BY <1>3, <1>4, <3>1
    <3>2. CASE v # u
      BY <1>4, <3>2
    <3> QED
      BY <3>1, <3>2
  <2>3. ASSUME NEW x \in Registered PROVE x \in Registered'
    <3>1. PICK v \in Users : \E i \in DOMAIN keys[v] : keys[v][i] = x
      BY <2>3 DEF Registered
    <3>2. PICK i \in DOMAIN keys[v] : keys[v][i] = x
      BY <3>1
    <3> QED
      BY <2>2, <2>3, <3>2 DEF Registered
  <2> QED
    BY <2>1, <2>3
<1> QED
  BY <1>4, <1>5, <1>6, <1>7

-----------------------------------------------------------------------------
LEMMA GoesTo ==
  ASSUME CustodyTypeOK, NEW p \in Pages, GoTo(p)
  PROVE  page' \in Pages /\ status' \in Statuses /\ hasGenerated' \in BOOLEAN
  BY DEF GoTo, CustodyTypeOK, Statuses

\* Unsaved and Awaited are keys.
LEMMA HeldTypes == Unsaved \subseteq Keys /\ Awaited \subseteq Keys
  BY DEF Unsaved, Awaited

\* Every action keeps the types.
LEMMA CustodyStepType == ASSUME CustodyInv, [CustodyNext]_custodyVars PROVE CustodyTypeOK'
<1>0. CustodyTypeOK /\ Generations /\ Exported /\ Unsaved \subseteq Keys /\ Awaited \subseteq Keys
  BY HeldTypes DEF CustodyInv, Safe
<1>1. CASE CheckRead \/ CheckNoKey \/ CheckKey \/ CheckThrows
  <2>1. CASE CheckRead
    <3>1. PICK a \in {ServerKey, Nil, "unreachable"} :
            check' = [at |-> "read", local |-> saved, answer |-> a]
      BY <1>0, <2>1 DEF CheckRead
    <3> QED
      BY <1>0, <2>1, <3>1, ServerNames DEF CheckRead, CustodyTypeOK, setupVars
  <2>2. CASE CheckNoKey \/ CheckKey \/ CheckThrows
    BY <1>0, <2>2 DEF CheckNoKey, CheckKey, CheckThrows, CustodyTypeOK, NoCheck, Statuses,
       setupVars
  <2> QED
    BY <1>1, <2>1, <2>2
<1>2. CASE Guard
  <2>1. NextStep \in Pages
    BY DEF NextStep, Pages
  <2>2. page' \in Pages /\ status' \in Statuses /\ hasGenerated' \in BOOLEAN
    BY <1>0, <1>2, <2>1, GoesTo DEF Guard
  <2>3. CASE Unmount
    <3>1. dkg' \in [Gens -> GenRecords]
      BY <1>0, <2>3, GensKept DEF Unmount
    <3> QED
      BY <1>0, <1>2, <2>2, <2>3, <3>1 DEF Guard, Unmount, CustodyTypeOK, NoShares, GenRecords
  <2>4. CASE UNCHANGED <<ram, dkg, lost>>
    BY <1>0, <1>2, <2>2, <2>4 DEF Guard, CustodyTypeOK
  <2> QED
    BY <1>2, <2>3, <2>4 DEF Guard
<1>3. ASSUME NEW g \in Gens, Generate(g) \/ Generated(g) \/ GenerateFails(g) \/ Forgotten(g)
      PROVE  CustodyTypeOK'
  <2>0. /\ dkg[g] \in GenRecords /\ NoDkg \in GenRecords /\ "kit" \in Pages /\ "entry" \in Pages
        /\ [dkg[g] EXCEPT !.for = "nothing"] \in GenRecords
    BY <1>0, GenType DEF Pages
  <2>1. CASE Generate(g)
    <3> DEFINE r == [at |-> "running", user |-> session, key |-> Nil, for |-> "context"]
    <3>1. r \in GenRecords /\ dkg' = [dkg EXCEPT ![g] = r]
      BY <1>0, <2>1 DEF Generate, GenRecords, CustodyTypeOK
    <3>2. dkg' \in [Gens -> GenRecords]
      <4> HIDE DEF r
      <4> QED
        BY <1>0, <3>1, GenMoves
    <3> QED
      BY <1>0, <2>1, <3>2 DEF Generate, CustodyTypeOK, GenRecords
  <2>2. CASE Generated(g)
    <3>1. dkg' \in [Gens -> GenRecords]
      BY <1>0, <2>0, <2>2, GenMoves DEF Generated
    <3>2. page' \in Pages /\ status' \in Statuses /\ hasGenerated' \in BOOLEAN
      BY <1>0, <2>0, <2>2, GoesTo DEF Generated
    <3>3. ram' \in [key : Keys \cup {Nil}, backup : BOOLEAN] /\ lost' \subseteq Keys
      <4>1. dkg[g].key \in Keys
        BY <1>0, <2>2 DEF Generated, Generations, Registered
      <4>2. CASE dkg[g].for = "context"
        <5>1. ram' = [key |-> dkg[g].key, backup |-> TRUE] /\ lost' = lost \cup Unsaved
          BY <2>2, <4>2 DEF Generated
        <5>2. lost' \subseteq Keys
          BY <1>0, <5>1 DEF CustodyTypeOK
        <5> QED
          BY <4>1, <5>1, <5>2
      <4>3. CASE dkg[g].for # "context"
        BY <1>0, <2>2, <4>3 DEF Generated, CustodyTypeOK
      <4> QED
        BY <4>2, <4>3
    <3> QED
      BY <1>0, <2>2, <3>1, <3>2, <3>3 DEF Generated, CustodyTypeOK, GenRecords
  <2>3. CASE GenerateFails(g)
    <3>1. dkg' \in [Gens -> GenRecords]
      BY <1>0, <2>0, <2>3, GenMoves DEF GenerateFails
    <3>2. page' \in Pages /\ status' \in Statuses /\ hasGenerated' \in BOOLEAN
      BY <1>0, <2>0, <2>3, GoesTo DEF GenerateFails
    <3>3. lost' \subseteq Keys
      BY <1>0, <2>0, <2>3 DEF GenerateFails, CustodyTypeOK, GenRecords
    <3> QED
      BY <1>0, <2>3, <3>1, <3>2, <3>3 DEF GenerateFails, CustodyTypeOK, GenRecords
  <2>4. CASE Forgotten(g)
    <3>1. dkg' \in [Gens -> GenRecords]
      BY <1>0, <2>0, <2>4, GenMoves DEF Forgotten
    <3> QED
      BY <1>0, <2>4, <3>1 DEF Forgotten, CustodyTypeOK, GenRecords
  <2> QED
    BY <1>3, <2>1, <2>2, <2>3, <2>4
<1>4. CASE NothingHeld \/ Download \/ Continue
  <2>0. "create" \in Pages /\ "pin" \in Pages
    BY DEF Pages
  <2>1. CASE NothingHeld
    BY <1>0, <2>0, <2>1, GoesTo DEF NothingHeld, CustodyTypeOK
  <2>2. CASE Download
    BY <1>0, <2>2 DEF Download, CustodyTypeOK, Exported
  <2>3. CASE Continue
    BY <1>0, <2>0, <2>3, GoesTo DEF Continue, CustodyTypeOK
  <2> QED
    BY <1>4, <2>1, <2>2, <2>3
<1>5. CASE ChoosePin \/ Recover
  <2>0. "dashboard" \in Pages /\ "kit" \in Pages
    BY DEF Pages
  <2>1. CASE ChoosePin
    <3>1. dkg' \in [Gens -> GenRecords]
      BY <1>0, <2>1, GensKept DEF ChoosePin, Unmount
    <3>2. page' \in Pages /\ status' \in Statuses /\ hasGenerated' \in BOOLEAN
      BY <1>0, <2>0, <2>1, GoesTo DEF ChoosePin
    <3> QED
      BY <1>0, <2>1, <3>1, <3>2 DEF ChoosePin, Unmount, CustodyTypeOK, NoShares, GenRecords
  <2>2. CASE Recover
    <3>1. page' \in Pages /\ status' \in Statuses /\ hasGenerated' \in BOOLEAN
      BY <1>0, <2>0, <2>2, GoesTo DEF Recover
    <3> QED
      BY <1>0, <2>2, <3>1, ServerNames DEF Recover, CustodyTypeOK
  <2> QED
    BY <1>5, <2>1, <2>2
<1>6. CASE Unlock \/ Lock \/ Expire
  BY <1>0, <1>6 DEF Unlock, Lock, Expire, CustodyTypeOK, Statuses, setupVars
<1>7. ASSUME NEW p \in Pages, Load(p), session' \in Users \cup {Nil}
      PROVE  CustodyTypeOK'
  <2>1. dkg' \in [Gens -> GenRecords]
    BY <1>0, <1>7, GensKept DEF Load
  <2> QED
    BY <1>0, <1>7, <2>1 DEF Load, CustodyTypeOK, NoShares, NoCheck, Statuses, GenRecords
<1>8. CASE Logout
  <2>1. "entry" \in Pages
    BY DEF Pages
  <2> QED
    BY <1>0, <1>7, <1>8, <2>1 DEF Logout
<1>9. ASSUME NEW p \in Pages, Visit(p) PROVE CustodyTypeOK'
  BY <1>0, <1>7, <1>9 DEF Visit, CustodyTypeOK
<1>10. ASSUME NEW g \in Gens, NEW k \in Keys, Stored(g, k) PROVE CustodyTypeOK'
  <2>1. keys' \in [Users -> Seq(Keys)]
    BY <1>10, Stores
  <2>2. dkg' \in [Gens -> GenRecords]
    <3>1. dkg[g] \in GenRecords /\ NoDkg \in GenRecords
      BY <1>0, GenType
    <3>2. [dkg[g] EXCEPT !.at = "stored", !.key = k] \in GenRecords
      BY <3>1 DEF GenRecords
    <3> QED
      BY <1>0, <1>10, <3>1, <3>2, GenMoves DEF Stored
  <2> QED
    BY <1>0, <1>10, <2>1, <2>2 DEF Stored, CustodyTypeOK, GenRecords
<1>11. ASSUME NEW u \in Users, Login(u) PROVE CustodyTypeOK'
  BY <1>0, <1>11 DEF Login, CustodyTypeOK, setupVars
<1>12. CASE UNCHANGED custodyVars
  BY <1>0, <1>12 DEF custodyVars, CustodyTypeOK
<1> QED
  BY <1>1, <1>2, <1>3, <1>4, <1>5, <1>6, <1>8, <1>9, <1>10, <1>11, <1>12 DEF CustodyNext

-----------------------------------------------------------------------------
\* A step that leaves the keys, the kits and what the page holds alone, and
\* saves nothing.
LEMMA SetupRests ==
  ASSUME CustodyInv, UNCHANGED <<keys, kits, ram, dkg, lost>>,
         saved' \in {saved, Nil}, page' # "pin" \/ page' = page
  PROVE  Safe'
<1>1. Safe
  BY DEF CustodyInv
<1>2. Registered' = Registered /\ Unsaved' = Unsaved /\ Awaited' = Awaited
  BY DEF Registered, Unsaved, Awaited
<1>3. Generations'
  BY <1>1, <1>2 DEF Safe, Generations
<1>4. Exported' /\ SavedHasKit'
  BY <1>1 DEF Safe, Exported, SavedHasKit
<1>5. Accounted'
  BY <1>1, <1>2 DEF Safe, Accounted
<1> QED
  BY <1>3, <1>4, <1>5 DEF Safe

\* A generation has a key when the server stored it.
LEMMA StoredKey ==
  ASSUME CustodyInv, NEW g \in Gens
  PROVE  dkg[g] \in GenRecords /\ (dkg[g].key # Nil => dkg[g].at = "stored")
<1>1. dkg[g] \in GenRecords
  BY GenType DEF CustodyInv
<1>2. CASE dkg[g].at = "none"
  BY <1>1, <1>2 DEF CustodyInv, Safe, Generations, NoDkg
<1>3. CASE dkg[g].at = "running"
  BY <1>1, <1>3 DEF CustodyInv, Safe, Generations
<1>4. CASE dkg[g].at = "stored"
  BY <1>1, <1>4
<1> QED
  BY <1>1, <1>2, <1>3, <1>4 DEF GenRecords

\* What the context holds, what it waits for, the kits and what is lost have
\* no key in common.
LEMMA Apart ==
  ASSUME CustodyInv
  PROVE  /\ Unsaved \cap Awaited = {} /\ Unsaved \cap kits = {} /\ Awaited \cap kits = {}
         /\ lost \cap kits = {} /\ lost \cap Unsaved = {} /\ lost \cap Awaited = {}
         /\ ram.key # Nil => ram.key \in Registered
         /\ \A g \in Gens : dkg[g].for = "context" /\ dkg[g].key # Nil => dkg[g].key \in Awaited
<1>1. CustodyTypeOK /\ Safe
  BY DEF CustodyInv
<1>2. \A g \in Gens : dkg[g] \in GenRecords /\ (dkg[g].key # Nil => dkg[g].at = "stored")
  BY StoredKey
<1>3. \A g \in Gens : dkg[g].key \in Keys => dkg[g].key \notin kits /\ dkg[g].key # ram.key
  BY <1>1, <1>2, CustodyAssumption DEF Safe, Generations
<1>4. Unsaved \cap Awaited = {} /\ Unsaved \cap kits = {} /\ Awaited \cap kits = {}
  BY <1>3 DEF Unsaved, Awaited
<1>5. lost \cap kits = {} /\ lost \cap Unsaved = {} /\ lost \cap Awaited = {}
  BY <1>1 DEF Safe, Accounted
<1>6. ram.key # Nil => ram.key \in Registered
  <2>1. ram.key # Nil => ram.key \in Keys /\ (ram.key \in kits \/ ram.key \in Unsaved)
    BY <1>1 DEF Safe, Exported, Unsaved, CustodyTypeOK
  <2> QED
    BY <1>1, <2>1 DEF Safe, Accounted
<1>7. \A g \in Gens : dkg[g].for = "context" /\ dkg[g].key # Nil => dkg[g].key \in Awaited
  BY <1>2 DEF Awaited, GenRecords
<1> QED
  BY <1>4, <1>5, <1>6, <1>7

\* The context goes: what it held or waited for is lost.
LEMMA ContextGoes ==
  ASSUME CustodyInv, UNCHANGED <<keys, kits>>, ram' = NoShares,
         lost' = lost \cup Unsaved \cup Awaited, saved' \in kits \cup {Nil},
         \/ dkg' = [g \in Gens |-> IF dkg[g].for = "context"
                                   THEN [dkg[g] EXCEPT !.for = "code"] ELSE dkg[g]]
         \/ dkg' = [g \in Gens |-> IF dkg[g].at = "running"
                                   THEN [dkg[g] EXCEPT !.for = "nothing"] ELSE NoDkg]
  PROVE  Safe'
<1>1. CustodyTypeOK /\ Safe /\ NoShares.key = Nil /\ ~NoShares.backup
  BY DEF CustodyInv, NoShares
<1>2. \A g \in Gens :
         \/ dkg'[g] = NoDkg
         \/ /\ dkg'[g].at = dkg[g].at /\ dkg'[g].user = dkg[g].user
            /\ dkg'[g].key = dkg[g].key /\ dkg'[g].for # "context"
            /\ \/ dkg'[g] = dkg[g]
               \/ dkg'[g].for = "code" /\ dkg[g].for = "context"
               \/ dkg'[g].for = "nothing" /\ dkg[g].at = "running"
  BY <1>1, GensKept
<1>3. NoDkg.at = "none" /\ NoDkg.key = Nil /\ NoDkg.for = "nothing"
  BY DEF NoDkg
<1>4. Registered' = Registered /\ Unsaved' = {} /\ Awaited' = {}
  <2>1. Registered' = Registered
    BY DEF Registered
  <2>2. Unsaved' = {}
    BY <1>1 DEF Unsaved
  <2>3. Awaited' = {}
    BY <1>2, <1>3 DEF Awaited
  <2> QED
    BY <2>1, <2>2, <2>3
<1>5. Accounted'
  BY <1>1, <1>4, Apart DEF Safe, Accounted
<1>6. Generations'
  <2> SUFFICES ASSUME NEW g \in Gens
               PROVE  /\ dkg'[g].at = "none" => dkg'[g] = NoDkg
                      /\ dkg'[g].at = "running" => dkg'[g].user \in Users /\ dkg'[g].key = Nil
                      /\ dkg'[g].at = "stored" =>
                           /\ dkg'[g].key \in Registered \ kits /\ dkg'[g].key # Nil
                           /\ dkg'[g].for # "nothing"
                           /\ dkg'[g].for = "code" => dkg'[g].key \in lost'
                           /\ \A f \in Gens \ {g} : dkg'[f].key # dkg'[g].key
    BY <1>1, <1>4 DEF Generations
  <2>1. CASE dkg'[g] = NoDkg
    BY <1>3, <2>1
  <2>2. CASE dkg'[g] # NoDkg
    <3>1. /\ dkg'[g].at = dkg[g].at /\ dkg'[g].user = dkg[g].user
          /\ dkg'[g].key = dkg[g].key
          /\ \/ dkg'[g] = dkg[g]
             \/ dkg'[g].for = "code" /\ dkg[g].for = "context"
             \/ dkg'[g].for = "nothing" /\ dkg[g].at = "running"
      BY <1>2, <2>2
    <3>2. dkg[g].at # "none"
      <4>1. dkg[g].at = "none" => dkg[g] = NoDkg
        BY <1>1 DEF Safe, Generations
      <4> QED
        BY <1>3, <2>2, <3>1, <4>1
    <3>3. dkg'[g].at = "running" => dkg'[g].user \in Users /\ dkg'[g].key = Nil
      BY <1>1, <3>1 DEF Safe, Generations
    <3>4. ASSUME dkg'[g].at = "stored"
          PROVE  /\ dkg'[g].key \in Registered \ kits /\ dkg'[g].key # Nil
                 /\ dkg'[g].for # "nothing"
                 /\ dkg'[g].for = "code" => dkg'[g].key \in lost'
                 /\ \A f \in Gens \ {g} : dkg'[f].key # dkg'[g].key
      <4>1. /\ dkg[g].key \in Registered \ kits /\ dkg[g].for # "nothing"
            /\ dkg[g].for = "code" => dkg[g].key \in lost
            /\ \A f \in Gens \ {g} : dkg[f].key # dkg[g].key
        BY <1>1, <3>1, <3>4 DEF Safe, Generations
      <4>2. dkg[g].key # Nil
        BY <4>1, CustodyAssumption DEF Registered
      <4>3. dkg[g].for = "context" => dkg[g].key \in Awaited
        BY <4>2, Apart
      <4>4. \A f \in Gens \ {g} : dkg'[f].key \in {dkg[f].key, Nil}
        BY <1>2, <1>3
      <4>5. \A f \in Gens \ {g} : dkg'[f].key # dkg'[g].key
        BY <3>1, <4>1, <4>2, <4>4
      <4>6. dkg'[g].for # "nothing"
        BY <3>1, <3>4, <4>1
      <4>7. dkg'[g].for = "code" => dkg'[g].key \in lost'
        BY <3>1, <4>1, <4>3
      <4> QED
        BY <3>1, <4>1, <4>2, <4>5, <4>6, <4>7
    <3> QED
      BY <3>1, <3>2, <3>3, <3>4
  <2> QED
    BY <2>1, <2>2
<1>7. Exported' /\ SavedHasKit'
  BY <1>1 DEF Exported, SavedHasKit
<1> QED
  BY <1>5, <1>6, <1>7 DEF Safe

\* One generation goes on, for the same key or for none.
LEMMA GenerationGoesOn ==
  ASSUME CustodyInv, NEW g \in Gens, UNCHANGED <<keys, kits, saved>>,
         NEW r \in GenRecords, dkg' = [dkg EXCEPT ![g] = r], r.at # "stored", r.key = Nil,
         r.at = "none" => r = NoDkg, r.at = "running" => r.user \in Users,
         lost \subseteq lost',
         \A f \in Gens \ {g} : dkg[f].at = "stored" => dkg[f].key # ram'.key
  PROVE  /\ Generations'
         /\ Registered' = Registered
         /\ Awaited' = {k \in Awaited : k # dkg[g].key}
<1>1. CustodyTypeOK /\ Safe
  BY DEF CustodyInv
<1>2. dkg'[g] = r /\ \A f \in Gens \ {g} : dkg'[f] = dkg[f]
  BY <1>1, GenMoves
<1>3. Registered' = Registered
  BY DEF Registered
<1>4. \A f \in Gens : dkg[f].key \in Keys => dkg[f].at = "stored"
  BY StoredKey, CustodyAssumption
<1>5. Awaited' = {k \in Awaited : k # dkg[g].key}
  <2>1. \A f \in Gens \ {g} : dkg[f].key \in Keys => dkg[f].key # dkg[g].key
    BY <1>1, <1>4 DEF Safe, Generations
  <2> QED
    BY <1>2, <2>1, CustodyAssumption DEF Awaited
<1>6. Generations'
  <2> SUFFICES ASSUME NEW f \in Gens
               PROVE  /\ dkg'[f].at = "none" => dkg'[f] = NoDkg
                      /\ dkg'[f].at = "running" => dkg'[f].user \in Users /\ dkg'[f].key = Nil
                      /\ dkg'[f].at = "stored" =>
                           /\ dkg'[f].key \in Registered \ kits /\ dkg'[f].key # ram'.key
                           /\ dkg'[f].for # "nothing"
                           /\ dkg'[f].for = "code" => dkg'[f].key \in lost'
                           /\ \A e \in Gens \ {f} : dkg'[e].key # dkg'[f].key
    BY <1>3 DEF Generations
  <2>1. CASE f = g
    BY <1>2, <2>1
  <2>2. CASE f # g
    <3>1. dkg'[f] = dkg[f]
      BY <1>2, <2>2
    <3>2. /\ dkg[f].at = "none" => dkg[f] = NoDkg
          /\ dkg[f].at = "running" => dkg[f].user \in Users /\ dkg[f].key = Nil
      BY <1>1 DEF Safe, Generations
    <3>3. ASSUME dkg[f].at = "stored"
          PROVE  /\ dkg[f].key \in Registered \ kits /\ dkg[f].key # ram'.key
                 /\ dkg[f].for # "nothing"
                 /\ dkg[f].for = "code" => dkg[f].key \in lost'
                 /\ \A e \in Gens \ {f} : dkg'[e].key # dkg[f].key
      <4>1. /\ dkg[f].key \in Registered \ kits
            /\ dkg[f].for # "nothing"
            /\ dkg[f].for = "code" => dkg[f].key \in lost
            /\ \A e \in Gens \ {f} : dkg[e].key # dkg[f].key
        BY <1>1, <3>3 DEF Safe, Generations
      <4>2. dkg[f].key # Nil
        BY <4>1, CustodyAssumption DEF Registered
      <4>3. \A e \in Gens \ {f} : dkg'[e].key # dkg[f].key
        BY <1>2, <4>1, <4>2
      <4> QED
        BY <2>2, <3>3, <4>1, <4>3
    <3> QED
      BY <3>1, <3>2, <3>3
  <2> QED
    BY <2>1, <2>2
<1> QED
  BY <1>3, <1>5, <1>6

\* A generation begins, is forgotten, fails, or gives the page its shares.
LEMMA SafeGeneration ==
  ASSUME CustodyInv, NEW g \in Gens,
         Generate(g) \/ Generated(g) \/ GenerateFails(g) \/ Forgotten(g)
  PROVE  Safe'
<1>1. CustodyTypeOK /\ Safe /\ NoDkg.at = "none" /\ NoDkg.key = Nil
  BY DEF CustodyInv, NoDkg
<1>2. dkg[g] \in GenRecords /\ NoDkg \in GenRecords
      /\ [dkg[g] EXCEPT !.for = "nothing"] \in GenRecords
  BY <1>1, GenType
<1>3. \A f \in Gens : dkg[f].at = "stored" => dkg[f].key # ram.key
  BY <1>1 DEF Safe, Generations
<1>4. CASE Generate(g)
  <2> DEFINE r == [at |-> "running", user |-> session, key |-> Nil, for |-> "context"]
  <2>1. /\ r \in GenRecords /\ dkg' = [dkg EXCEPT ![g] = r]
        /\ r.at = "running" /\ r.key = Nil /\ r.user \in Users
        /\ UNCHANGED <<keys, kits, saved, ram, page, lost>> /\ dkg[g].key = Nil
    BY <1>1, <1>4 DEF Generate, GenRecords, CustodyTypeOK
  <2> HIDE DEF r
  <2>2. Generations' /\ Registered' = Registered /\ Awaited' = {k \in Awaited : k # dkg[g].key}
    BY <1>3, <2>1, GenerationGoesOn
  <2>3. Unsaved' = Unsaved /\ Nil \notin Awaited
    BY <2>1, CustodyAssumption DEF Unsaved, Awaited
  <2>4. Accounted'
    BY <1>1, <2>1, <2>2, <2>3 DEF Safe, Accounted
  <2> QED
    BY <1>1, <2>1, <2>2, <2>4 DEF Safe, Exported, SavedHasKit
<1>5. CASE Forgotten(g)
  <2>1. dkg' = [dkg EXCEPT ![g] = NoDkg] /\ dkg[g].key = Nil
        /\ UNCHANGED <<keys, kits, saved, ram, page, lost>>
    BY <1>1, <1>5 DEF Forgotten, Safe, Generations
  <2>2. Generations' /\ Registered' = Registered /\ Awaited' = {k \in Awaited : k # dkg[g].key}
    BY <1>1, <1>2, <1>3, <2>1, GenerationGoesOn
  <2>3. Unsaved' = Unsaved /\ Nil \notin Awaited
    BY <2>1, CustodyAssumption DEF Unsaved, Awaited
  <2>4. Accounted'
    BY <1>1, <2>1, <2>2, <2>3 DEF Safe, Accounted
  <2> QED
    BY <1>1, <2>1, <2>2, <2>4 DEF Safe, Exported, SavedHasKit
<1>6. CASE GenerateFails(g)
  <2>1. PICK r \in GenRecords :
          /\ dkg' = [dkg EXCEPT ![g] = r] /\ r.at # "stored" /\ r.key = Nil
          /\ r.at = "none" => r = NoDkg
          /\ r.at = "running" => r.user \in Users
    <3>1. CASE dkg[g].at = "running"
      <4> DEFINE r == [dkg[g] EXCEPT !.for = "nothing"]
      <4>1. /\ dkg' = [dkg EXCEPT ![g] = r] /\ r.at = "running" /\ r.key = Nil
            /\ r.user \in Users
        BY <1>1, <1>2, <1>6, <3>1 DEF GenerateFails, Safe, Generations, GenRecords
      <4> QED
        BY <1>2, <4>1
    <3>2. CASE dkg[g].at # "running"
      BY <1>1, <1>2, <1>6, <3>2 DEF GenerateFails
    <3> QED
      BY <3>1, <3>2
  <2>2. /\ UNCHANGED <<keys, kits, saved, ram>> /\ page' = "entry"
        /\ lost' = lost \cup ({dkg[g].key} \ {Nil})
    BY <1>6 DEF GenerateFails, GoTo
  <2>3. Generations' /\ Registered' = Registered /\ Awaited' = {k \in Awaited : k # dkg[g].key}
    BY <1>3, <2>1, <2>2, GenerationGoesOn
  <2>4. Unsaved' = Unsaved
    BY <2>2 DEF Unsaved
  <2>5. dkg[g].key # Nil => dkg[g].key \in Awaited \/ dkg[g].key \in lost
    <3>1. dkg[g].key # Nil => dkg[g].at = "stored"
      BY <1>1, <1>2 DEF Safe, Generations, GenRecords
    <3> QED
      BY <1>1, <1>2, <1>6, <3>1, Apart DEF GenerateFails, Safe, Generations
  <2>6. Accounted'
    <3>1. Nil \notin Awaited
      BY CustodyAssumption DEF Awaited
    <3> QED
      BY <1>1, <2>2, <2>3, <2>4, <2>5, <3>1, Apart DEF Safe, Accounted
  <2> QED
    BY <1>1, <2>2, <2>3, <2>6 DEF Safe, Exported, SavedHasKit
<1>7. CASE Generated(g)
  <2>1. /\ dkg' = [dkg EXCEPT ![g] = NoDkg] /\ dkg[g].at = "stored"
        /\ UNCHANGED <<keys, kits, saved>> /\ page' = "kit"
        /\ dkg[g].key \in Registered \ kits /\ dkg[g].key # ram.key /\ dkg[g].key \in Keys
        /\ dkg[g].key # Nil
        /\ dkg[g].for = "code" => dkg[g].key \in lost
    BY <1>1, <1>7, CustodyAssumption DEF Generated, GoTo, Safe, Generations, Registered
  <2>2. CASE dkg[g].for = "context"
    <3>1. ram' = [key |-> dkg[g].key, backup |-> TRUE] /\ lost' = lost \cup Unsaved
      BY <1>7, <2>2 DEF Generated
    <3>2. ram'.key = dkg[g].key /\ ram'.backup
      BY <3>1
    <3>3. \A f \in Gens \ {g} : dkg[f].at = "stored" => dkg[f].key # ram'.key
      BY <1>1, <2>1, <3>2 DEF Safe, Generations
    <3>4. Generations' /\ Registered' = Registered /\ Awaited' = {k \in Awaited : k # dkg[g].key}
      BY <1>1, <1>2, <2>1, <3>1, <3>3, GenerationGoesOn
    <3>5. Unsaved' = {dkg[g].key} /\ dkg[g].key \in Awaited
      <4>1. Unsaved' = {dkg[g].key}
        BY <2>1, <3>2 DEF Unsaved
      <4> QED
        BY <2>1, <2>2, <4>1, Apart
    <3>6. Accounted'
      BY <1>1, <2>1, <3>1, <3>4, <3>5, Apart DEF Safe, Accounted
    <3>7. Exported' /\ SavedHasKit'
      BY <1>1, <2>1, <3>2 DEF Safe, Exported, SavedHasKit
    <3> QED
      BY <3>4, <3>6, <3>7 DEF Safe
  <2>3. CASE dkg[g].for # "context"
    <3>1. UNCHANGED <<ram, lost>> /\ dkg[g].key \in lost
      BY <1>1, <1>2, <1>7, <2>1, <2>3 DEF Generated, Safe, Generations, GenRecords
    <3>2. Generations' /\ Registered' = Registered /\ Awaited' = {k \in Awaited : k # dkg[g].key}
      BY <1>1, <1>2, <1>3, <2>1, <3>1, GenerationGoesOn
    <3>3. Unsaved' = Unsaved /\ dkg[g].key \notin Awaited
      <4>1. Unsaved' = Unsaved
        BY <2>1, <3>1 DEF Unsaved
      <4> QED
        BY <3>1, <4>1, Apart
    <3>4. Accounted'
      BY <1>1, <2>1, <3>1, <3>2, <3>3 DEF Safe, Accounted
    <3> QED
      BY <1>1, <2>1, <3>1, <3>2, <3>4 DEF Safe, Exported, SavedHasKit
  <2> QED
    BY <2>2, <2>3
<1> QED
  BY <1>4, <1>5, <1>6, <1>7

\* The server stores the key of a generation under way.
LEMMA SafeStored ==
  ASSUME CustodyInv, NEW g \in Gens, NEW k \in Keys, Stored(g, k)
  PROVE  Safe'
<1>1. CustodyTypeOK /\ Safe /\ NoDkg.at = "none" /\ NoDkg.key = Nil /\ NoDkg.for = "nothing"
      /\ k # Nil
  BY CustodyAssumption DEF CustodyInv, NoDkg
<1>2. k \notin Registered /\ Registered' = Registered \cup {k}
  BY Stores
<1>3. /\ dkg[g].at = "running" /\ dkg[g].key = Nil /\ dkg[g] \in GenRecords
      /\ UNCHANGED <<saved, kits, ram, page>>
  BY <1>1, GenType DEF Stored, Safe, Generations
<1>4. PICK r \in GenRecords :
        /\ dkg' = [dkg EXCEPT ![g] = r]
        /\ dkg[g].for = "nothing" => r = NoDkg
        /\ dkg[g].for # "nothing" => r.at = "stored" /\ r.key = k /\ r.for = dkg[g].for
  <2>1. CASE dkg[g].for = "nothing"
    BY <1>1, <2>1, GenType DEF Stored
  <2>2. CASE dkg[g].for # "nothing"
    <3> DEFINE r == [dkg[g] EXCEPT !.at = "stored", !.key = k]
    <3>1. r \in GenRecords /\ r.at = "stored" /\ r.key = k /\ r.for = dkg[g].for
      BY <1>3 DEF GenRecords
    <3>2. dkg' = [dkg EXCEPT ![g] = r]
      BY <2>2 DEF Stored
    <3> HIDE DEF r
    <3> QED
      BY <2>2, <3>1, <3>2
  <2> QED
    BY <2>1, <2>2
<1>5. dkg'[g] = r /\ \A f \in Gens \ {g} : dkg'[f] = dkg[f]
  BY <1>1, <1>4, GenMoves
<1>6. lost' = IF dkg[g].for = "context" THEN lost ELSE lost \cup {k}
  BY DEF Stored
<1>7. Unsaved' = Unsaved
  BY <1>3 DEF Unsaved
<1>8. Awaited' = IF dkg[g].for = "context" THEN Awaited \cup {k} ELSE Awaited
  <2>1. CASE dkg[g].for = "context"
    BY <1>3, <1>4, <1>5, <2>1, CustodyAssumption DEF Awaited
  <2>2. CASE dkg[g].for # "context"
    BY <1>1, <1>3, <1>4, <1>5, <2>2, CustodyAssumption DEF Awaited
  <2> QED
    BY <2>1, <2>2
<1>9. Accounted'
  BY <1>1, <1>2, <1>3, <1>6, <1>7, <1>8 DEF Safe, Accounted
<1>10. Generations'
  <2> SUFFICES ASSUME NEW f \in Gens
               PROVE  /\ dkg'[f].at = "none" => dkg'[f] = NoDkg
                      /\ dkg'[f].at = "running" => dkg'[f].user \in Users /\ dkg'[f].key = Nil
                      /\ dkg'[f].at = "stored" =>
                           /\ dkg'[f].key \in Registered' \ kits /\ dkg'[f].key # ram.key
                           /\ dkg'[f].for # "nothing"
                           /\ dkg'[f].for = "code" => dkg'[f].key \in lost'
                           /\ \A e \in Gens \ {f} : dkg'[e].key # dkg'[f].key
    BY <1>3 DEF Generations
  <2>0. /\ \A e \in Gens : dkg[e].key # k
        /\ k # ram.key /\ k \notin kits
    <3>1. \A e \in Gens : dkg[e].at = "stored" => dkg[e].key \in Registered
      BY <1>1 DEF Safe, Generations
    <3>2. \A e \in Gens : dkg[e].at # "stored" => dkg[e].key = Nil
      BY <1>1, GenType DEF Safe, Generations, GenRecords
    <3>3. k # ram.key
      BY <1>1, <1>2, Apart
    <3>4. k \notin kits
      BY <1>1, <1>2 DEF Safe, Accounted
    <3> QED
      BY <1>1, <1>2, <3>1, <3>2, <3>3, <3>4
  <2>1. CASE f = g
    <3>1. CASE dkg[g].for = "nothing"
      BY <1>1, <1>4, <1>5, <2>1, <3>1
    <3>2. CASE dkg[g].for # "nothing"
      BY <1>2, <1>4, <1>5, <1>6, <2>0, <2>1, <3>2
    <3> QED
      BY <3>1, <3>2
  <2>2. CASE f # g
    <3>1. dkg'[f] = dkg[f]
      BY <1>5, <2>2
    <3>2. /\ dkg[f].at = "none" => dkg[f] = NoDkg
          /\ dkg[f].at = "running" => dkg[f].user \in Users /\ dkg[f].key = Nil
      BY <1>1 DEF Safe, Generations
    <3>3. ASSUME dkg[f].at = "stored"
          PROVE  /\ dkg[f].key \in Registered' \ kits /\ dkg[f].key # ram.key
                 /\ dkg[f].for # "nothing"
                 /\ dkg[f].for = "code" => dkg[f].key \in lost'
                 /\ \A e \in Gens \ {f} : dkg'[e].key # dkg[f].key
      <4>1. /\ dkg[f].key \in Registered \ kits /\ dkg[f].key # ram.key
            /\ dkg[f].for # "nothing"
            /\ dkg[f].for = "code" => dkg[f].key \in lost
            /\ \A e \in Gens \ {f} : dkg[e].key # dkg[f].key
        BY <1>1, <3>3 DEF Safe, Generations
      <4>2. dkg'[g].key \in {k, Nil} /\ dkg[f].key # Nil
        BY <1>1, <1>4, <1>5, <4>1, CustodyAssumption DEF Registered
      <4>3. \A e \in Gens \ {f} : dkg'[e].key # dkg[f].key
        BY <1>5, <2>0, <4>1, <4>2
      <4> QED
        BY <1>2, <1>6, <4>1, <4>3
    <3> QED
      BY <3>1, <3>2, <3>3
  <2> QED
    BY <2>1, <2>2
<1> QED
  BY <1>1, <1>3, <1>9, <1>10 DEF Safe, Exported, SavedHasKit

\* The kit is exported, and the shares of a recovery replace what the page
\* holds.
LEMMA SafePages ==
  ASSUME CustodyInv, Download \/ Continue \/ Recover
  PROVE  Safe'
<1>1. CustodyTypeOK /\ Safe
  BY DEF CustodyInv
<1>2. UNCHANGED <<keys, dkg, saved>> /\ Registered' = Registered
  BY DEF Download, Continue, Recover, Registered
<1>3. CASE Continue
  <2>1. ~ram.backup /\ UNCHANGED <<ram, kits, lost>>
    BY <1>3 DEF Continue
  <2>2. Generations' /\ Unsaved' = Unsaved /\ Awaited' = Awaited
    BY <1>1, <1>2, <2>1 DEF Safe, Generations, Unsaved, Awaited
  <2>3. Accounted'
    BY <1>1, <1>2, <2>1, <2>2 DEF Safe, Accounted
  <2> QED
    BY <1>1, <1>2, <2>1, <2>2, <2>3 DEF Safe, Exported, SavedHasKit
<1>4. CASE Download
  <2>1. /\ ram.backup /\ ram'.key = ram.key /\ ~ram'.backup /\ kits' = kits \cup {ram.key}
        /\ ram.key \in Keys /\ UNCHANGED <<page, lost>>
    BY <1>1, <1>4 DEF Download, CustodyTypeOK, Safe, Exported
  <2>2. Generations'
    <3>1. \A g \in Gens : dkg[g].at = "stored" =>
            dkg[g].key \in Registered' \ kits' /\ dkg[g].key # ram'.key
      BY <1>1, <1>2, <2>1 DEF Safe, Generations
    <3> QED
      BY <1>1, <1>2, <2>1, <3>1 DEF Safe, Generations
  <2>3. /\ Unsaved \subseteq {ram.key} /\ (ram.key \in kits \/ ram.key \in Unsaved)
        /\ Unsaved' = {}
    BY <2>1 DEF Unsaved
  <2>4. Awaited' = Awaited
    BY <1>2 DEF Awaited
  <2>5. Accounted'
    BY <1>1, <1>2, <2>1, <2>3, <2>4, Apart DEF Safe, Accounted
  <2> QED
    BY <1>1, <1>2, <2>1, <2>2, <2>5 DEF Safe, Exported, SavedHasKit
<1>5. CASE Recover
  <2>1. /\ ram' = [key |-> ServerKey, backup |-> TRUE] /\ ServerKey \in kits
        /\ lost' = lost \cup Unsaved /\ page' = "kit" /\ UNCHANGED kits
    BY <1>5 DEF Recover, GoTo
  <2>2. ram'.key \in kits /\ ram'.backup /\ ram'.key \in Keys /\ ram'.key # Nil
    <3>1. ram'.key = ServerKey /\ ram'.backup
      BY <2>1
    <3> QED
      BY <1>1, <2>1, <3>1, CustodyAssumption DEF CustodyTypeOK
  <2>3. Generations'
    <3>1. \A g \in Gens : dkg[g].at = "stored" =>
            dkg[g].key \in Registered' \ kits' /\ dkg[g].key # ram'.key
      BY <1>1, <1>2, <2>1, <2>2 DEF Safe, Generations
    <3> QED
      BY <1>1, <1>2, <2>1, <3>1 DEF Safe, Generations
  <2>4. Unsaved' = {} /\ Awaited' = Awaited
    BY <1>2, <2>1, <2>2 DEF Unsaved, Awaited
  <2>5. Accounted'
    BY <1>1, <1>2, <2>1, <2>4, Apart DEF Safe, Accounted
  <2>6. Exported' /\ SavedHasKit'
    BY <1>1, <1>2, <2>1, <2>2 DEF Safe, Exported, SavedHasKit
  <2> QED
    BY <2>3, <2>5, <2>6 DEF Safe
<1> QED
  BY <1>3, <1>4, <1>5

LEMMA CustodyStepSafe ==
  ASSUME CustodyInv, [CustodyNext]_custodyVars
  PROVE  Safe'
<1>0. CustodyTypeOK /\ Safe
  BY DEF CustodyInv
<1>1. CASE CheckRead \/ CheckNoKey \/ CheckKey \/ CheckThrows \/ NothingHeld
  BY <1>1, SetupRests DEF CheckRead, CheckNoKey, CheckKey, CheckThrows, NothingHeld,
     setupVars, GoTo
<1>2. CASE Unlock \/ Lock \/ Expire \/ UNCHANGED custodyVars \/ \E u \in Users : Login(u)
  BY <1>2, SetupRests DEF Unlock, Lock, Expire, Login, custodyVars, setupVars
<1>3. CASE Guard
  <2>1. NextStep # "pin" /\ saved' = saved /\ UNCHANGED <<keys, kits>> /\ page' = NextStep
    BY <1>3 DEF NextStep, Guard, GoTo
  <2>2. CASE Unmount
    <3>1. saved' \in kits \cup {Nil}
      BY <1>0, <2>1 DEF Safe, SavedHasKit
    <3> QED
      BY <2>1, <2>2, <3>1, ContextGoes DEF Unmount
  <2>3. CASE UNCHANGED <<ram, dkg, lost>>
    BY <2>1, <2>3, SetupRests
  <2> QED
    BY <1>3, <2>2, <2>3 DEF Guard
<1>4. CASE ChoosePin
  <2>1. saved' \in kits \cup {Nil} /\ UNCHANGED <<keys, kits>> /\ Unmount
    BY <1>0, <1>4 DEF ChoosePin, Safe, Exported
  <2> QED
    BY <2>1, ContextGoes DEF Unmount
<1>5. ASSUME NEW p \in Pages, Load(p) PROVE Safe'
  <2>1. saved' \in kits \cup {Nil} /\ UNCHANGED <<keys, kits>>
    BY <1>0, <1>5 DEF Load, Safe, SavedHasKit
  <2> QED
    BY <1>5, <2>1, ContextGoes DEF Load
<1>6. CASE Logout \/ \E p \in Pages : Visit(p)
  BY <1>5, <1>6 DEF Logout, Visit, Pages
<1>7. ASSUME NEW g \in Gens, NEW k \in Keys, Stored(g, k) PROVE Safe'
  BY <1>7, SafeStored
<1>8. ASSUME NEW g \in Gens, Generate(g) \/ Generated(g) \/ GenerateFails(g) \/ Forgotten(g)
      PROVE  Safe'
  BY <1>8, SafeGeneration
<1> QED
  BY <1>1, <1>2, <1>3, <1>4, <1>6, <1>7, <1>8, SafePages DEF CustodyNext

-----------------------------------------------------------------------------
\* The types and the strengthening hold in every reachable state.
THEOREM CustodyInvariant == CustodySpec => []CustodyInv
<1>1. CustodyInit => CustodyInv
  BY CustodyInitInv
<1>2. CustodyInv /\ [CustodyNext]_custodyVars => CustodyInv'
  BY CustodyStepType, CustodyStepSafe DEF CustodyInv
<1> QED
  BY <1>1, <1>2, PTL DEF CustodySpec

\* The session, the keys, the browser and the pages hold values of their types.
THEOREM CustodyTypes == CustodySpec => []CustodyTypeOK
<1>1. CustodyInv => CustodyTypeOK
  BY DEF CustodyInv
<1> QED
  BY <1>1, CustodyInvariant, PTL

\* A device share the browser keeps is of a key whose kit was downloaded.
THEOREM KeptShareHasKit == CustodySpec => []SavedHasKit
<1>1. CustodyInv => SavedHasKit
  BY DEF CustodyInv, Safe
<1> QED
  BY <1>1, CustodyInvariant, PTL

\* The server's keys can be used again, all but those whose shares went with
\* what held or awaited them.
THEOREM KeysStayUsable == CustodySpec => []RegisteredIsRecoverable
<1>1. ASSUME CustodyInv PROVE RegisteredIsRecoverable
  <2> SUFFICES ASSUME NEW u \in Users, NEW i \in DOMAIN keys[u]
               PROVE  (keys[u][i] \in lost) # (keys[u][i] \in kits \cup Unsaved \cup Awaited)
    BY DEF RegisteredIsRecoverable
  <2>1. keys[u] \in Seq(Keys)
    BY <1>1 DEF CustodyInv, CustodyTypeOK
  <2>2. keys[u][i] \in Registered
    BY <2>1 DEF Registered
  <2> QED
    BY <1>1, <2>2 DEF CustodyInv, Safe, Accounted
<1>2. CustodyInv => RegisteredIsRecoverable
  BY <1>1
<1> QED
  BY <1>2, CustodyInvariant, PTL

-----------------------------------------------------------------------------
(* The child wallets *)

Registers(f, i) == /\ form[f].at = "register" /\ form[f].kind = "terminal"
                   /\ form[f].index = i

Known(q) == signed[q] # Unsigned

\* A terminal's row stands while it is created, by one form, and its key was
\* not handed out yet.
CreationsStand ==
    \A f \in Forms, i \in Indexes : Registers(f, i) =>
        /\ terminals[i] # "none" /\ i \notin keyed
        /\ \A g \in Forms : Registers(g, i) => g = f

\* A terminal that signed has its key.
SignersKeyed == \A q \in Requests : Known(q) => signed[q].terminal \in keyed

\* A delivery is of a request that was signed.
DeliveriesKnown == \A p \in Handlers : h[p].at # "idle" => Known(h[p].req)

\* The index a form holds has no row in the other table, and no other form
\* holds it, unless it was given out twice.
HeldAlone ==
    \A f \in Forms : form[f].index \notin raced =>
        /\ form[f].at = "derive" =>
             \/ form[f].kind = "cashier" /\ terminals[form[f].index] = "none"
             \/ form[f].kind = "terminal" /\ form[f].index \notin members
        /\ form[f].at # "closed" =>
             \A g \in Forms \ {f} : form[g].index # form[f].index

\* The clocks are no further apart than Ahead, and a delivery that passed the
\* check of the window is not older than Delay.
ClocksNear ==
    /\ \A q \in Requests : Known(q) => signed[q].time <= now + Ahead
    /\ \A p \in Handlers : h[p].at = "nonce" =>
         /\ h[p].since <= now /\ now <= h[p].since + Delay
         /\ h[p].since <= signed[h[p].req].time + Window

\* The last tick in which a nonce is needed.
Outlives(q) == signed[q].time + 2 * Window - Ahead

\* A nonce lasts until then, and a request that went through has its nonce
\* or is older.
NonceStands ==
    \A q \in Requests :
        /\ nonce[q] # None => Known(q) /\ nonce[q] >= Outlives(q)
        /\ accepted[q] > 0 => Known(q) /\ (nonce[q] # None \/ now > Outlives(q))

WalletInv ==
    /\ CreationsStand /\ SignersKeyed /\ HeldAlone
    /\ NoSharedPath /\ TerminalsAreSignable

RequestInv == DeliveriesKnown /\ ClocksNear /\ NonceStands /\ RequestAcceptedOnce

IInv == TypeOK /\ WalletInv /\ RequestInv

-----------------------------------------------------------------------------
\* A bounded set of numbers that is not empty has a maximum.
LEMMA MaxAbove ==
  ASSUME NEW S \in SUBSET Nat, S # {}, NEW n \in Nat, \A s \in S : s <= n
  PROVE  Max(S) \in S /\ \A s \in S : s <= Max(S)
<1> DEFINE T == {m \in Nat : n - m \in S}
<1>1. T # {}
  <2>1. PICK s \in S : TRUE
    OBVIOUS
  <2>2. n - s \in Nat /\ n - (n - s) = s
    OBVIOUS
  <2> QED
    BY <2>1, <2>2
<1>2. PICK x \in T : \A y \in T : ~(<<y, x>> \in OpToRel(<, Nat))
  <2>1. T \subseteq Nat
    OBVIOUS
  <2> HIDE DEF T
  <2> QED
    BY <1>1, <2>1, NatLessThanWellFounded, WFMin
<1>3. \A y \in T : x <= y
  <2> SUFFICES ASSUME NEW y \in T PROVE ~(y < x)
    OBVIOUS
  <2>1. ~(<<y, x>> \in OpToRel(<, Nat))
    BY <1>2
  <2> QED
    BY <2>1 DEF OpToRel
<1>4. \A s \in S : s <= n - x
  <2> SUFFICES ASSUME NEW s \in S PROVE s <= n - x
    OBVIOUS
  <2>1. n - s \in Nat /\ n - (n - s) = s
    OBVIOUS
  <2>2. n - s \in T
    BY <2>1
  <2> QED
    BY <1>3, <2>1, <2>2
<1>5. \E m \in S : \A s \in S : m >= s
  <2>1. n - x \in S
    OBVIOUS
  <2>2. \A s \in S : n - x >= s
    BY <1>4, <2>1
  <2> QED
    BY <2>1, <2>2
<1> QED
  BY <1>5 DEF Max

\* The next index has no row in either table.
LEMMA NextIsFree ==
  ASSUME TypeOK, NextIndex \in Indexes
  PROVE  NextIndex \notin members /\ terminals[NextIndex] = "none"
<1> DEFINE S == members \cup Rows \cup {0}
<1>1. S \in SUBSET Nat /\ S # {} /\ MaxIndex \in Nat /\ \A s \in S : s <= MaxIndex
  <2>1. MaxIndex \in Nat
    BY ChildAssumption
  <2>2. members \cup Rows \subseteq 1 .. MaxIndex
    BY DEF TypeOK, Rows, Indexes
  <2> QED
    BY <2>1, <2>2
<1>2. Max(S) \in Nat /\ \A s \in S : s <= Max(S)
  <2> HIDE DEF S
  <2> QED
    BY <1>1, MaxAbove
<1>3. NextIndex = Max(S) + 1
  BY DEF NextIndex
<1>4. NextIndex \notin S
  <2> HIDE DEF S
  <2> QED
    BY <1>1, <1>2, <1>3
<1> QED
  BY <1>4 DEF Rows

-----------------------------------------------------------------------------
LEMMA InitInv == Init => IInv
<1> SUFFICES ASSUME Init PROVE IInv
  OBVIOUS
<1>1. TypeOK
  BY ChildAssumption DEF Init, TypeOK, Times
<1>2. CreationsStand /\ SignersKeyed /\ DeliveriesKnown /\ HeldAlone
  BY DEF Init, CreationsStand, SignersKeyed, DeliveriesKnown, HeldAlone, Closed, Idle,
         Registers, Known
<1>3. NoSharedPath /\ TerminalsAreSignable /\ ClocksNear /\ NonceStands
        /\ RequestAcceptedOnce
  BY DEF Init, NoSharedPath, TerminalsAreSignable, ClocksNear, NonceStands,
         RequestAcceptedOnce, Known, Idle
<1> QED
  BY <1>1, <1>2, <1>3 DEF IInv, WalletInv, RequestInv

FormRecords == [at : {"derive", "register"}, kind : {"cashier", "terminal"}, index : Indexes]

Deliveries == [at : {"nonce", "link"}, req : Requests, status : {"pending", "active"},
               since : 0 .. MaxTime]

\* Moving one form.
LEMMA FormMoves ==
  ASSUME TypeOK, NEW f \in Forms, NEW r \in {Closed} \cup FormRecords,
         form' = [form EXCEPT ![f] = r]
  PROVE  /\ form' \in [Forms -> {Closed} \cup FormRecords]
         /\ form'[f] = r /\ \A g \in Forms \ {f} : form'[g] = form[g]
  BY DEF TypeOK, FormRecords

\* A form that is not closed holds an index.
LEMMA FormHolds ==
  ASSUME TypeOK, NEW f \in Forms, form[f].at # "closed"
  PROVE  form[f] \in FormRecords
  BY DEF TypeOK, FormRecords, Closed

\* Moving one delivery.
LEMMA DeliveryMoves ==
  ASSUME TypeOK, NEW p \in Handlers, NEW r \in {Idle} \cup Deliveries,
         h' = [h EXCEPT ![p] = r]
  PROVE  /\ h' \in [Handlers -> {Idle} \cup Deliveries]
         /\ h'[p] = r /\ \A g \in Handlers \ {p} : h'[g] = h[g]
  BY DEF TypeOK, Deliveries

LEMMA DeliveryHolds ==
  ASSUME TypeOK, NEW p \in Handlers, h[p].at # "idle"
  PROVE  h[p] \in Deliveries
  BY DEF TypeOK, Deliveries, Idle

LEMMA KnownType ==
  ASSUME TypeOK, NEW q \in Requests, Known(q)
  PROVE  /\ signed[q] \in [terminal : Indexes, time : 0 .. MaxTime + Ahead]
         /\ signed[q].time \in Nat
  BY ChildAssumption DEF TypeOK, Known
-----------------------------------------------------------------------------
\* Every action keeps the types.
LEMMA StepType == ASSUME TypeOK, [Next]_vars PROVE TypeOK'
<1>1. ASSUME NEW f \in Forms, FormStep(f) PROVE TypeOK'
  <2>1. UNCHANGED clockVars
    BY <1>1 DEF FormStep, GetNext, Abandon, Invite, CreateTerminal, IndexTaken,
                Register, RegisterFails
  <2>2. members' \subseteq Indexes /\ children' \subseteq Indexes /\ raced' \subseteq Indexes
        /\ keyed' \subseteq Indexes
        /\ terminals' \in [Indexes -> {"none", "pending", "active", "revoked"}]
    <3>1. form[f].at # "closed" => form[f].index \in Indexes
      BY FormHolds DEF FormRecords
    <3> QED
      BY <1>1, <3>1 DEF TypeOK, FormStep, GetNext, Abandon, Invite, CreateTerminal,
                        IndexTaken, Register, RegisterFails
  <2>3. PICK r \in {Closed} \cup FormRecords : form' = [form EXCEPT ![f] = r]
    <3>1. ASSUME NEW kind \in {"cashier", "terminal"}, GetNext(f, kind)
          PROVE  \E r \in {Closed} \cup FormRecords : form' = [form EXCEPT ![f] = r]
      <4>1. [at |-> "derive", kind |-> kind, index |-> NextIndex] \in FormRecords
        BY <3>1 DEF GetNext, FormRecords
      <4> QED
        BY <3>1, <4>1 DEF GetNext
    <3>2. ASSUME form[f].at # "closed", Registering(f)
          PROVE  \E r \in {Closed} \cup FormRecords : form' = [form EXCEPT ![f] = r]
      <4>1. [at |-> "register", kind |-> form[f].kind, index |-> form[f].index]
              \in FormRecords
        BY <3>2, FormHolds DEF FormRecords
      <4> QED
        BY <3>2, <4>1 DEF Registering
    <3> QED
      BY <1>1, <3>1, <3>2 DEF FormStep, Abandon, Invite, CreateTerminal, IndexTaken,
                              Register, RegisterFails
  <2> QED
    BY <2>1, <2>2, <2>3, FormMoves DEF TypeOK, clockVars, FormRecords
<1>2. ASSUME NEW i \in Indexes, DeleteInvitation(i) \/ Revoke(i) PROVE TypeOK'
  BY <1>2 DEF TypeOK, DeleteInvitation, Revoke, walletVars, clockVars
<1>3. ASSUME NEW q \in Requests, NEW i \in Indexes, NEW t \in now .. now + Ahead,
             Sign(q, i, t)
      PROVE  TypeOK'
  <2>1. t \in 0 .. MaxTime + Ahead
    BY ChildAssumption DEF TypeOK
  <2> DEFINE r == [terminal |-> i, time |-> t]
  <2>2. r \in [terminal : Indexes, time : 0 .. MaxTime + Ahead]
    BY <2>1
  <2>3. signed' = [signed EXCEPT ![q] = r]
    BY <1>3 DEF Sign
  <2> HIDE DEF r
  <2> QED
    BY <1>3, <2>2, <2>3 DEF TypeOK, Sign, walletVars
<1>4. ASSUME NEW p \in Handlers, Deliver(p) PROVE TypeOK'
  <2>1. ASSUME NEW q \in Requests, Verify(p, q) PROVE TypeOK'
    <3> DEFINE r == [at |-> "nonce", req |-> q,
                     status |-> terminals[signed[q].terminal], since |-> now]
    <3>1. r \in Deliveries
      BY <2>1 DEF TypeOK, Verify, Deliveries
    <3>2. h' = [h EXCEPT ![p] = r]
      BY <2>1 DEF Verify
    <3> HIDE DEF r
    <3>3. h' \in [Handlers -> {Idle} \cup Deliveries]
      BY <3>1, <3>2, DeliveryMoves
    <3> QED
      BY <2>1, <3>3 DEF TypeOK, Verify, walletVars, Deliveries
  <2>2. CASE Accept(p)
    <3> DEFINE r == [at |-> "link", req |-> h[p].req, status |-> h[p].status,
                     since |-> h[p].since]
    <3>1. h[p] \in Deliveries
      BY <2>2, DeliveryHolds DEF Accept
    <3>2. r \in Deliveries /\ h' = [h EXCEPT ![p] = r]
      BY <2>2, <3>1 DEF Accept, Deliveries
    <3> HIDE DEF r
    <3>3. h' \in [Handlers -> {Idle} \cup Deliveries]
      BY <3>2, DeliveryMoves
    <3>4. Expiry \in Times
      BY ChildAssumption DEF Expiry, Times, TypeOK
    <3>5. nonce' \in [Requests -> {None} \cup Times]
      BY <2>2, <3>4 DEF TypeOK, Accept
    <3>6. accepted' \in [Requests -> Nat]
      <4>1. h[p].req \in Requests
        BY <3>1 DEF Deliveries
      <4> QED
        BY <2>2, <4>1 DEF TypeOK, Accept
    <3> QED
      BY <2>2, <3>3, <3>5, <3>6 DEF TypeOK, Accept, walletVars, Deliveries
  <2>3. CASE Replayed(p)
    BY <2>3, DeliveryMoves DEF TypeOK, Replayed, walletVars, Deliveries
  <2>4. CASE Link(p)
    BY <2>4, DeliveryMoves DEF TypeOK, Link, walletVars, Deliveries
  <2> QED
    BY <1>4, <2>1, <2>2, <2>3, <2>4 DEF Deliver
<1>5. CASE Prune
  BY <1>5 DEF TypeOK, Prune, walletVars
<1>6. CASE Tick
  BY <1>6, ChildAssumption DEF TypeOK, Tick, walletVars
<1>7. CASE UNCHANGED vars
  BY <1>7 DEF TypeOK, vars
<1> QED
  BY <1>1, <1>2, <1>3, <1>4, <1>5, <1>6, <1>7 DEF Next
-----------------------------------------------------------------------------
\* A form leaves its place: what it held is held by one form less.
LEMMA Closes ==
  ASSUME IInv, NEW f \in Forms, form' = [form EXCEPT ![f] = Closed],
         ~(form[f].at = "register" /\ form[f].kind = "terminal"),
         UNCHANGED <<members, terminals, keyed, raced, signed>>,
         children \subseteq children'
  PROVE  WalletInv'
<1>1. TypeOK /\ WalletInv /\ Closed.at = "closed" /\ Closed.index = 0 /\ 0 \notin Indexes
  BY DEF IInv, Closed, Indexes
<1>2. form'[f] = Closed /\ \A g \in Forms \ {f} : form'[g] = form[g]
  BY <1>1, FormMoves
<1>3. \A g \in Forms, i \in Indexes : Registers(g, i)' = Registers(g, i)
  BY <1>1, <1>2 DEF Registers
<1>5. CreationsStand' /\ SignersKeyed' /\ NoSharedPath' /\ TerminalsAreSignable'
  BY <1>1, <1>3 DEF WalletInv, CreationsStand, SignersKeyed, NoSharedPath,
     TerminalsAreSignable, Known
<1>6. HeldAlone'
  <2>1. \A g \in Forms : form[g].at # "closed" => form[g].index # 0
    BY <1>1, FormHolds DEF FormRecords
  <2> QED
    BY <1>1, <1>2, <2>1 DEF WalletInv, HeldAlone
<1> QED
  BY <1>5, <1>6 DEF WalletInv

LEMMA Given ==
  ASSUME IInv, NEW f \in Forms, NEW kind \in {"cashier", "terminal"}, GetNext(f, kind)
  PROVE  WalletInv'
<1> DEFINE r == [at |-> "derive", kind |-> kind, index |-> NextIndex]
<1>1. TypeOK /\ WalletInv /\ NextIndex \in Indexes
  BY DEF IInv, GetNext
<1>2. NextIndex \notin members /\ terminals[NextIndex] = "none"
  BY <1>1, NextIsFree
<1>3. r \in FormRecords /\ form' = [form EXCEPT ![f] = r] /\ r.at = "derive"
      /\ r.kind = kind /\ r.index = NextIndex
  BY <1>1 DEF GetNext, FormRecords
<1> HIDE DEF r
<1>4. form'[f] = r /\ \A g \in Forms \ {f} : form'[g] = form[g]
  BY <1>1, <1>3, FormMoves
<1>5. form[f].at = "closed" /\ UNCHANGED <<members, terminals, children, keyed, signed>>
  BY DEF GetNext, clockVars
<1>6. \A g \in Forms, i \in Indexes : Registers(g, i)' = Registers(g, i)
  BY <1>3, <1>4, <1>5 DEF Registers
<1>8. CreationsStand' /\ SignersKeyed' /\ TerminalsAreSignable'
  BY <1>1, <1>5, <1>6 DEF WalletInv, CreationsStand, SignersKeyed, TerminalsAreSignable,
     Known
<1>9. raced \subseteq raced' /\ ((\E g \in Forms \ {f} : form[g].index = NextIndex)
                                  => NextIndex \in raced')
  BY <1>1 DEF GetNext
<1>10. NoSharedPath'
  BY <1>1, <1>5, <1>9 DEF WalletInv, NoSharedPath
<1>11. HeldAlone'
  <2> SUFFICES ASSUME NEW g \in Forms, form'[g].index \notin raced'
               PROVE  /\ form'[g].at = "derive" =>
                           \/ form'[g].kind = "cashier" /\ terminals[form'[g].index] = "none"
                           \/ form'[g].kind = "terminal" /\ form'[g].index \notin members
                      /\ form'[g].at # "closed" =>
                           \A k \in Forms \ {g} : form'[k].index # form'[g].index
    BY <1>5 DEF HeldAlone
  <2>1. CASE g = f
    BY <1>2, <1>3, <1>4, <1>9, <2>1
  <2>2. CASE g # f
    BY <1>1, <1>3, <1>4, <1>9, <2>2 DEF WalletInv, HeldAlone
  <2> QED
    BY <2>1, <2>2
<1> QED
  BY <1>8, <1>10, <1>11 DEF WalletInv

\* The row of a form is inserted.
LEMMA Inserts ==
  ASSUME IInv, NEW f \in Forms, Invite(f) \/ CreateTerminal(f)
  PROVE  WalletInv'
<1> DEFINE r == [at |-> "register", kind |-> form[f].kind, index |-> form[f].index]
           i == form[f].index
<1>1. TypeOK /\ WalletInv /\ form[f].at = "derive" /\ form[f] \in FormRecords
  BY FormHolds DEF IInv, Invite, CreateTerminal
<1>2. r \in FormRecords /\ form' = [form EXCEPT ![f] = r] /\ r.at = "register"
      /\ r.kind = form[f].kind /\ r.index = i /\ i \in Indexes
  BY <1>1 DEF Invite, CreateTerminal, Registering, FormRecords
<1> HIDE DEF r
<1>3. form'[f] = r /\ \A g \in Forms \ {f} : form'[g] = form[g]
  BY <1>1, <1>2, FormMoves
<1>4. UNCHANGED <<children, keyed, raced, signed>>
  BY DEF Invite, CreateTerminal, clockVars
<1>6. /\ i \notin raced => i \notin members \/ terminals[i] = "none"
      /\ i \notin raced => \A g \in Forms \ {f} : form[g].index # i
      /\ i \notin raced /\ form[f].kind = "cashier" => terminals[i] = "none"
      /\ i \notin raced /\ form[f].kind = "terminal" => i \notin members
  BY <1>1, <1>2 DEF WalletInv, HeldAlone, NoSharedPath
<1>7. CASE Invite(f)
  <2>1. members' = members \cup {i} /\ UNCHANGED terminals /\ form[f].kind = "cashier"
    BY <1>7 DEF Invite
  <2>2. \A g \in Forms, j \in Indexes : Registers(g, j)' = Registers(g, j)
    BY <1>1, <1>2, <1>3, <2>1 DEF Registers
  <2>4. CreationsStand' /\ SignersKeyed' /\ TerminalsAreSignable'
    BY <1>1, <1>4, <2>1, <2>2 DEF WalletInv, CreationsStand, SignersKeyed,
       TerminalsAreSignable, Known
  <2>5. NoSharedPath'
    BY <1>1, <1>4, <1>6, <2>1 DEF WalletInv, NoSharedPath
  <2>6. HeldAlone'
    BY <1>1, <1>2, <1>3, <1>4, <1>6, <2>1 DEF WalletInv, HeldAlone
  <2> QED
    BY <2>4, <2>5, <2>6 DEF WalletInv
<1>8. CASE CreateTerminal(f)
  <2>1. /\ terminals' = [terminals EXCEPT ![i] = "pending"] /\ UNCHANGED members
        /\ form[f].kind = "terminal" /\ terminals[i] = "none"
    BY <1>8 DEF CreateTerminal
  <2>2. terminals'[i] = "pending" /\ \A j \in Indexes \ {i} : terminals'[j] = terminals[j]
    BY <1>1, <1>2, <2>1 DEF TypeOK
  <2>3. \A g \in Forms, j \in Indexes :
          Registers(g, j)' <=> Registers(g, j) \/ (g = f /\ j = i)
    BY <1>1, <1>2, <1>3, <2>1 DEF Registers
  <2>4. \A g \in Forms : ~Registers(g, i)
    BY <1>1, <1>2, <2>1 DEF WalletInv, CreationsStand
  <2>5. i \notin keyed
    BY <1>1, <2>1 DEF WalletInv, TerminalsAreSignable
  <2>6. CreationsStand'
    BY <1>1, <1>2, <1>4, <2>2, <2>3, <2>4, <2>5 DEF WalletInv, CreationsStand
  <2>7. SignersKeyed'
    BY <1>1, <1>4 DEF WalletInv, SignersKeyed, Known
  <2>8. TerminalsAreSignable'
    <3>1. keyed \subseteq Indexes
      BY <1>1 DEF TypeOK
    <3> QED
      BY <1>1, <1>4, <2>2, <2>5, <3>1 DEF WalletInv, TerminalsAreSignable
  <2>9. NoSharedPath'
    BY <1>1, <1>4, <1>6, <2>1, <2>2 DEF WalletInv, NoSharedPath
  <2>10. HeldAlone'
    <3> SUFFICES ASSUME NEW g \in Forms, form'[g].index \notin raced
                 PROVE  /\ form'[g].at = "derive" =>
                             \/ form'[g].kind = "cashier" /\ terminals'[form'[g].index] = "none"
                             \/ form'[g].kind = "terminal" /\ form'[g].index \notin members
                        /\ form'[g].at # "closed" =>
                             \A k \in Forms \ {g} : form'[k].index # form'[g].index
      BY <1>4, <2>1 DEF HeldAlone
    <3>1. CASE g = f
      BY <1>2, <1>3, <1>6, <3>1
    <3>2. CASE g # f
      <4>1. form[g].at # "closed" => form[g].index \in Indexes \ {i}
        BY <1>1, <1>2, <1>3, <1>6, <3>2, FormHolds DEF FormRecords
      <4> QED
        BY <1>1, <1>2, <1>3, <2>2, <3>2, <4>1 DEF WalletInv, HeldAlone
    <3> QED
      BY <3>1, <3>2
  <2> QED
    BY <2>6, <2>7, <2>8, <2>9, <2>10 DEF WalletInv
<1> QED
  BY <1>7, <1>8
\* A terminal's creation ends, and its row with it when the registration
\* failed.
LEMMA CreationEnds ==
  ASSUME IInv, NEW f \in Forms, Register(f) \/ RegisterFails(f),
         form[f].kind = "terminal"
  PROVE  WalletInv'
<1> DEFINE i == form[f].index
<1>1. TypeOK /\ WalletInv /\ form[f].at = "register" /\ i \in Indexes /\ Registers(f, i)
      /\ Closed.at = "closed" /\ Closed.index = 0 /\ 0 \notin Indexes
  BY FormHolds DEF IInv, Register, RegisterFails, FormRecords, Registers, Closed, Indexes
<1>2. form'[f] = Closed /\ \A g \in Forms \ {f} : form'[g] = form[g]
  BY <1>1, FormMoves DEF Register, RegisterFails
<1>3. UNCHANGED <<members, raced, signed>>
  BY DEF Register, RegisterFails, clockVars
<1>4. \A g \in Forms, j \in Indexes : Registers(g, j)' <=> Registers(g, j) /\ g # f
  BY <1>1, <1>2 DEF Registers
<1>5. \A g \in Forms : Registers(g, i) => g = f
  BY <1>1 DEF WalletInv, CreationsStand
<1>6. i \notin keyed /\ keyed \subseteq Indexes /\ terminals[i] # "none"
  BY <1>1 DEF WalletInv, CreationsStand, TypeOK
<1>7. \A j \in Indexes \ {i} : terminals'[j] = terminals[j]
  BY <1>1 DEF Register, RegisterFails, TypeOK
<1>8. /\ children \subseteq children' /\ terminals'[i] \in {terminals[i], "none"}
      /\ \/ keyed' = keyed
         \/ /\ keyed' = keyed \cup {i} /\ i \in children'
            /\ terminals'[i] = terminals[i]
  BY <1>1 DEF Register, RegisterFails, TypeOK
<1>9. CreationsStand'
  BY <1>1, <1>4, <1>5, <1>7, <1>8 DEF WalletInv, CreationsStand
<1>10. SignersKeyed'
  BY <1>1, <1>3, <1>8 DEF WalletInv, SignersKeyed, Known
<1>11. TerminalsAreSignable'
  BY <1>1, <1>6, <1>7, <1>8 DEF WalletInv, TerminalsAreSignable
<1>12. NoSharedPath'
  BY <1>1, <1>3, <1>7, <1>8 DEF WalletInv, NoSharedPath
<1>13. HeldAlone'
  <2>1. \A g \in Forms : form[g].at # "closed" => form[g].index \in Indexes
    BY <1>1, FormHolds DEF FormRecords
  <2> QED
    BY <1>1, <1>2, <1>3, <1>7, <1>8, <2>1 DEF WalletInv, HeldAlone
<1> QED
  BY <1>9, <1>10, <1>11, <1>12, <1>13 DEF WalletInv

\* A step that leaves the forms and the children alone, makes no terminal's
\* row and drops none.
LEMMA RowsStand ==
  ASSUME IInv, UNCHANGED <<form, raced, children, keyed, signed>>,
         members' \subseteq members,
         \A i \in Indexes : terminals'[i] = "none" <=> terminals[i] = "none"
  PROVE  WalletInv'
<1>1. TypeOK /\ WalletInv
  BY DEF IInv
<1>2. \A g \in Forms, i \in Indexes : Registers(g, i)' = Registers(g, i)
  BY DEF Registers
<1>5. CreationsStand' /\ SignersKeyed' /\ TerminalsAreSignable' /\ NoSharedPath'
  BY <1>1, <1>2 DEF WalletInv, CreationsStand, SignersKeyed, TerminalsAreSignable,
     NoSharedPath, Known, TypeOK
<1>6. \A g \in Forms : form[g].at # "closed" => form[g].index \in Indexes
  BY <1>1, FormHolds DEF FormRecords
<1>7. HeldAlone'
  BY <1>1, <1>6 DEF WalletInv, HeldAlone
<1> QED
  BY <1>5, <1>7 DEF WalletInv

\* A terminal signs only when its creation was answered.
LEMMA Signs ==
  ASSUME IInv, NEW q \in Requests, NEW i \in Indexes, NEW t \in now .. now + Ahead,
         Sign(q, i, t)
  PROVE  WalletInv'
<1>1. TypeOK /\ WalletInv /\ UNCHANGED <<form, raced, children, keyed, members, terminals>>
  BY DEF IInv, Sign, walletVars
<1>2. signed'[q].terminal = i /\ \A p \in Requests \ {q} : signed'[p] = signed[p]
  BY <1>1 DEF TypeOK, Sign
<1>3. SignersKeyed'
  BY <1>1, <1>2 DEF WalletInv, SignersKeyed, Known, Sign
<1> QED
  BY <1>1, <1>3 DEF WalletInv, CreationsStand, HeldAlone, NoSharedPath,
     TerminalsAreSignable, Registers

LEMMA StepWallet == ASSUME IInv, [Next]_vars PROVE WalletInv'
<1>1. ASSUME NEW f \in Forms, FormStep(f) PROVE WalletInv'
  <2>1. CASE Abandon(f) \/ IndexTaken(f)
    BY <2>1, Closes DEF Abandon, IndexTaken, clockVars
  <2>2. CASE Register(f) \/ RegisterFails(f)
    <3>1. CASE form[f].kind = "terminal"
      BY <2>2, <3>1, CreationEnds
    <3>2. CASE form[f].kind # "terminal"
      <4>1. UNCHANGED <<members, terminals, keyed, raced, signed>>
        BY <2>2, <3>2 DEF Register, RegisterFails, clockVars
      <4>2. form' = [form EXCEPT ![f] = Closed] /\ children \subseteq children'
        BY <2>2 DEF Register, RegisterFails
      <4> QED
        BY <3>2, <4>1, <4>2, Closes
    <3> QED
      BY <3>1, <3>2
  <2> QED
    BY <1>1, <2>1, <2>2, Given, Inserts DEF FormStep
<1>2. ASSUME NEW i \in Indexes, DeleteInvitation(i) \/ Revoke(i) PROVE WalletInv'
  <2>1. UNCHANGED <<form, raced, children, keyed, signed>> /\ members' \subseteq members
    BY <1>2 DEF DeleteInvitation, Revoke, walletVars, clockVars
  <2>2. \A j \in Indexes : terminals'[j] = "none" <=> terminals[j] = "none"
    BY <1>2 DEF DeleteInvitation, Revoke, IInv, TypeOK
  <2> QED
    BY <2>1, <2>2, RowsStand
<1>3. ASSUME NEW q \in Requests, NEW i \in Indexes, NEW t \in now .. now + Ahead,
             Sign(q, i, t)
      PROVE  WalletInv'
  BY <1>3, Signs
<1>4. ASSUME NEW p \in Handlers, Deliver(p) PROVE WalletInv'
  <2>1. UNCHANGED <<form, raced, children, keyed, members, signed>>
    BY <1>4 DEF Deliver, Verify, Accept, Replayed, Link, walletVars
  <2>2. \A j \in Indexes : terminals'[j] = "none" <=> terminals[j] = "none"
    <3>1. CASE Link(p)
      <4>1. h[p] \in Deliveries /\ h[p].req \in Requests /\ Known(h[p].req)
        BY <3>1, DeliveryHolds DEF Link, IInv, RequestInv, DeliveriesKnown, Deliveries
      <4>2. signed[h[p].req].terminal \in Indexes
            /\ terminals[signed[h[p].req].terminal] # "none"
        BY <4>1, KnownType DEF IInv, WalletInv, SignersKeyed, TerminalsAreSignable
      <4> QED
        BY <3>1, <4>2 DEF Link, IInv, TypeOK
    <3> QED
      BY <1>4, <3>1 DEF Deliver, Verify, Accept, Replayed
  <2> QED
    BY <2>1, <2>2, RowsStand
<1>5. CASE Prune \/ Tick \/ UNCHANGED vars
  BY <1>5, RowsStand DEF Prune, Tick, vars, walletVars
<1> QED
  BY <1>1, <1>2, <1>3, <1>4, <1>5 DEF Next
-----------------------------------------------------------------------------
\* A step that touches neither the requests nor the clock.
LEMMA RequestsRest ==
  ASSUME IInv, UNCHANGED clockVars
  PROVE  RequestInv'
BY DEF IInv, RequestInv, DeliveriesKnown, ClocksNear, NonceStands, RequestAcceptedOnce,
       clockVars, Known, Outlives

\* A request is signed once, with a time that is not far ahead.
LEMMA SignsOnce ==
  ASSUME IInv, TypeOK', NEW q \in Requests, NEW i \in Indexes, NEW t \in now .. now + Ahead,
         Sign(q, i, t)
  PROVE  RequestInv'
<1>1. TypeOK /\ RequestInv /\ ~Known(q) /\ UNCHANGED <<now, nonce, accepted, h>>
  BY DEF IInv, Sign, Known
<1>2. /\ signed'[q] = [terminal |-> i, time |-> t] /\ signed'[q].time = t
      /\ \A p \in Requests \ {q} : signed'[p] = signed[p]
  BY <1>1 DEF TypeOK, Sign
<1>3. now \in Nat /\ Ahead \in Nat /\ Window \in Nat /\ t \in Int /\ t <= now + Ahead
  BY <1>1, ChildAssumption DEF TypeOK
<1>4. \A p \in Handlers : h[p].at # "idle" => h[p].req \in Requests \ {q}
  BY <1>1, DeliveryHolds DEF RequestInv, DeliveriesKnown, Deliveries
<1>5. Known(q)'
  BY <1>2, <1>3, ChildAssumption DEF Known, Unsigned
<1>6. \A p \in Requests \ {q} : Known(p)' = Known(p) /\ Outlives(p)' = Outlives(p)
  BY <1>2 DEF Known, Outlives
<1>7. DeliveriesKnown'
  BY <1>1, <1>4, <1>6 DEF RequestInv, DeliveriesKnown
<1>8. ClocksNear'
  BY <1>1, <1>2, <1>3, <1>4, <1>6 DEF RequestInv, ClocksNear
<1>9. NonceStands'
  BY <1>1, <1>5, <1>6 DEF RequestInv, NonceStands
<1> QED
  BY <1>1, <1>7, <1>8, <1>9 DEF RequestInv, RequestAcceptedOnce

\* The nonce that is stored outlives the window of the request, and a nonce
\* that was dropped belongs to a request no delivery still holds.
LEMMA AcceptsOnce ==
  ASSUME IInv, NEW p \in Handlers, Accept(p)
  PROVE  RequestInv'
<1> DEFINE q == h[p].req
<1>1. TypeOK /\ RequestInv /\ h[p] \in Deliveries /\ h[p].at = "nonce"
  BY DeliveryHolds DEF IInv, Accept
<1>2. q \in Requests /\ Known(q) /\ nonce[q] = None /\ h[p].since \in Nat
  BY <1>1 DEF RequestInv, DeliveriesKnown, Deliveries, Accept
<1>3. signed[q].time \in Nat /\ now \in Nat /\ Window \in Nat /\ Ahead \in Nat /\ Delay \in Nat
      /\ Ahead + Delay <= Window /\ accepted[q] \in Nat /\ now + 2 * Window # None
  BY <1>1, <1>2, KnownType, ChildAssumption DEF TypeOK
<1>4. /\ signed[q].time <= now + Ahead
      /\ h[p].since <= now /\ now <= h[p].since + Delay
      /\ h[p].since <= signed[q].time + Window
  BY <1>1, <1>2 DEF RequestInv, ClocksNear
<1>5. accepted[q] = 0
  <2>1. accepted[q] > 0 => now > signed[q].time + 2 * Window - Ahead
    BY <1>1, <1>2 DEF RequestInv, NonceStands, Outlives
  <2> HIDE DEF q
  <2> QED
    BY <1>2, <1>3, <1>4, <2>1
<1>6. /\ nonce'[q] = now + 2 * Window /\ accepted'[q] = 1
      /\ \A r \in Requests \ {q} : nonce'[r] = nonce[r] /\ accepted'[r] = accepted[r]
      /\ UNCHANGED <<signed, now>>
  BY <1>1, <1>2, <1>5 DEF TypeOK, Accept, Expiry
<1>7. /\ h'[p].at = "link" /\ h'[p].req = q
      /\ \A r \in Handlers \ {p} : h'[r] = h[r]
  BY <1>1 DEF TypeOK, Accept
<1>8. \A r \in Requests : Known(r)' = Known(r) /\ Outlives(r)' = Outlives(r)
  BY <1>6 DEF Known, Outlives
<1>9. nonce'[q] >= Outlives(q)
  <2>1. now + 2 * Window >= signed[q].time + 2 * Window - Ahead
    BY <1>3, <1>4
  <2> QED
    BY <1>6, <2>1 DEF Outlives
<1> HIDE DEF q
<1>10. DeliveriesKnown'
  BY <1>1, <1>2, <1>7, <1>8, DeliveryHolds DEF RequestInv, DeliveriesKnown, Deliveries
<1>11. ClocksNear'
  BY <1>1, <1>6, <1>7, <1>8 DEF RequestInv, ClocksNear
<1>12. NonceStands'
  BY <1>1, <1>2, <1>3, <1>6, <1>8, <1>9 DEF RequestInv, NonceStands
<1>13. RequestAcceptedOnce'
  BY <1>1, <1>6 DEF RequestInv, RequestAcceptedOnce
<1> QED
  BY <1>10, <1>11, <1>12, <1>13 DEF RequestInv

LEMMA StepRequest == ASSUME IInv, TypeOK', [Next]_vars PROVE RequestInv'
<1>0. TypeOK /\ RequestInv
  BY DEF IInv
<1>1. ASSUME NEW f \in Forms, FormStep(f) PROVE RequestInv'
  BY <1>1, RequestsRest DEF FormStep, GetNext, Abandon, Invite, CreateTerminal,
     IndexTaken, Register, RegisterFails
<1>2. ASSUME NEW i \in Indexes, DeleteInvitation(i) \/ Revoke(i) PROVE RequestInv'
  BY <1>2, RequestsRest DEF DeleteInvitation, Revoke
<1>3. ASSUME NEW q \in Requests, NEW i \in Indexes, NEW t \in now .. now + Ahead,
             Sign(q, i, t)
      PROVE  RequestInv'
  BY <1>3, SignsOnce
<1>4. ASSUME NEW p \in Handlers, NEW q \in Requests, Verify(p, q) PROVE RequestInv'
  <2>1. /\ h'[p].at = "nonce" /\ h'[p].req = q /\ h'[p].since = now
        /\ \A r \in Handlers \ {p} : h'[r] = h[r]
        /\ UNCHANGED <<signed, now, nonce, accepted>>
    BY <1>0, <1>4 DEF TypeOK, Verify
  <2>2. Known(q) /\ now <= signed[q].time + Window
    BY <1>4 DEF Verify, Known, Fresh
  <2>3. \A r \in Requests : Known(r)' = Known(r) /\ Outlives(r)' = Outlives(r)
    BY <2>1 DEF Known, Outlives
  <2>4. now \in Nat /\ Delay \in Nat
    BY <1>0, ChildAssumption DEF TypeOK
  <2>5. DeliveriesKnown'
    BY <1>0, <2>1, <2>2, <2>3, DeliveryHolds DEF RequestInv, DeliveriesKnown, Deliveries
  <2>6. ClocksNear'
    BY <1>0, <2>1, <2>2, <2>3, <2>4 DEF RequestInv, ClocksNear
  <2> QED
    BY <1>0, <2>1, <2>3, <2>5, <2>6 DEF RequestInv, NonceStands, RequestAcceptedOnce
<1>5. ASSUME NEW p \in Handlers, Replayed(p) \/ Link(p) PROVE RequestInv'
  <2>1. /\ h'[p] = Idle /\ Idle.at = "idle" /\ \A r \in Handlers \ {p} : h'[r] = h[r]
        /\ UNCHANGED <<signed, now, nonce, accepted>>
    BY <1>0, <1>5 DEF TypeOK, Replayed, Link, Idle
  <2>2. \A r \in Requests : Known(r)' = Known(r) /\ Outlives(r)' = Outlives(r)
    BY <2>1 DEF Known, Outlives
  <2>3. DeliveriesKnown'
    BY <1>0, <2>1, <2>2, DeliveryHolds DEF RequestInv, DeliveriesKnown, Deliveries
  <2>4. ClocksNear'
    BY <1>0, <2>1, <2>2 DEF RequestInv, ClocksNear
  <2> QED
    BY <1>0, <2>1, <2>2, <2>3, <2>4 DEF RequestInv, NonceStands, RequestAcceptedOnce
<1>6. CASE Prune
  <2>1. UNCHANGED <<signed, now, accepted, h>>
    BY <1>6 DEF Prune
  <2>2. \A r \in Requests : Known(r)' = Known(r) /\ Outlives(r)' = Outlives(r)
    BY <2>1 DEF Known, Outlives
  <2>3. NonceStands'
    <3> SUFFICES ASSUME NEW q \in Requests
                 PROVE  /\ nonce'[q] # None => Known(q) /\ nonce'[q] >= Outlives(q)
                        /\ accepted[q] > 0 =>
                             Known(q) /\ (nonce'[q] # None \/ now > Outlives(q))
      BY <2>1, <2>2 DEF NonceStands
    <3>1. nonce'[q] = IF nonce[q] # None /\ nonce[q] < now THEN None ELSE nonce[q]
      BY <1>6 DEF Prune
    <3>2. CASE nonce[q] # None /\ nonce[q] < now
      <4>1. Known(q) /\ nonce[q] >= Outlives(q) /\ nonce'[q] = None
        BY <1>0, <3>1, <3>2 DEF RequestInv, NonceStands
      <4>2. nonce[q] \in Nat /\ now \in Nat /\ Outlives(q) \in Int
        BY <1>0, <3>2, <4>1, KnownType, ChildAssumption DEF TypeOK, Times, Outlives
      <4> QED
        BY <3>2, <4>1, <4>2
    <3>3. CASE ~(nonce[q] # None /\ nonce[q] < now)
      BY <1>0, <3>1, <3>3 DEF RequestInv, NonceStands
    <3> QED
      BY <3>2, <3>3
  <2>4. DeliveriesKnown' /\ RequestAcceptedOnce'
    BY <1>0, <2>1, <2>2, DeliveryHolds DEF RequestInv, DeliveriesKnown, Deliveries,
       RequestAcceptedOnce
  <2>5. ClocksNear'
    BY <1>0, <2>1, <2>2 DEF RequestInv, ClocksNear
  <2> QED
    BY <2>3, <2>4, <2>5 DEF RequestInv
<1>7. CASE Tick
  <2>1. UNCHANGED <<signed, nonce, accepted, h>> /\ now' = now + 1 /\ now \in Nat
    BY <1>0, <1>7 DEF Tick, TypeOK
  <2>2. \A r \in Requests : Known(r)' = Known(r) /\ Outlives(r)' = Outlives(r)
    BY <2>1 DEF Known, Outlives
  <2>3. ClocksNear'
    <3>1. \A q \in Requests : Known(q) => signed[q].time <= now + 1 + Ahead
      BY <1>0, <2>1, KnownType, ChildAssumption DEF RequestInv, ClocksNear
    <3>2. ASSUME NEW p \in Handlers, h[p].at = "nonce"
          PROVE  /\ h[p].since <= now + 1 /\ now + 1 <= h[p].since + Delay
                 /\ h[p].since <= signed[h[p].req].time + Window
      <4>1. h[p].since \in Nat
        BY <1>0, <3>2, DeliveryHolds DEF Deliveries
      <4> QED
        BY <1>0, <1>7, <2>1, <3>2, <4>1, ChildAssumption DEF RequestInv, ClocksNear, Tick
    <3> QED
      BY <2>1, <2>2, <3>1, <3>2 DEF ClocksNear
  <2>4. NonceStands'
    <3>1. \A q \in Requests : Known(q) => Outlives(q) \in Int
      BY <1>0, KnownType, ChildAssumption DEF Outlives
    <3> QED
      BY <1>0, <2>1, <2>2, <3>1 DEF RequestInv, NonceStands
  <2>5. DeliveriesKnown' /\ RequestAcceptedOnce'
    BY <1>0, <2>1, <2>2, DeliveryHolds DEF RequestInv, DeliveriesKnown, Deliveries,
       RequestAcceptedOnce
  <2> QED
    BY <2>3, <2>4, <2>5 DEF RequestInv
<1>8. CASE UNCHANGED vars
  BY <1>8, RequestsRest DEF vars, clockVars
<1> QED
  BY <1>1, <1>2, <1>3, <1>4, <1>5, AcceptsOnce, <1>6, <1>7, <1>8 DEF Next, Deliver

-----------------------------------------------------------------------------
\* The types and the strengthening hold in every reachable state.
THEOREM Invariant == Spec => []IInv
<1>1. Init => IInv
  BY InitInv
<1>2. IInv /\ [Next]_vars => IInv'
  <2> SUFFICES ASSUME IInv, [Next]_vars PROVE IInv'
    OBVIOUS
  <2>1. TypeOK'
    BY StepType DEF IInv
  <2> QED
    BY <2>1, StepWallet, StepRequest DEF IInv
<1> QED
  BY <1>1, <1>2, PTL DEF Spec

\* The tables, the forms and the deliveries hold values of their types.
THEOREM TypeCorrect == Spec => []TypeOK
<1>1. IInv => TypeOK
  BY DEF IInv
<1> QED
  BY <1>1, Invariant, PTL

\* A cashier and a terminal share a child wallet only when their creations
\* overlapped.
THEOREM PathsApart == Spec => []NoSharedPath
<1>1. IInv => NoSharedPath
  BY DEF IInv, WalletInv
<1> QED
  BY <1>1, Invariant, PTL

\* A terminal whose key was handed out has its row and its child registered.
THEOREM Signable == Spec => []TerminalsAreSignable
<1>1. IInv => TerminalsAreSignable
  BY DEF IInv, WalletInv
<1> QED
  BY <1>1, Invariant, PTL

\* A signed request goes through once, whenever the nonces are deleted, when
\* the skew and the delay together are within the window.
THEOREM NoReplay == Spec => []RequestAcceptedOnce
<1>1. IInv => RequestAcceptedOnce
  BY DEF IInv, RequestInv
<1> QED
  BY <1>1, Invariant, PTL
=============================================================================
