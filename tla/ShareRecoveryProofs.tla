------------------------ MODULE ShareRecoveryProofs ------------------------
(* Proofs about ShareRecovery, for any number of browsers, requests and      *)
(* recoveries.                                                               *)
EXTENDS ShareRecovery, TLAPS

Browser == {Away} \cup Waiting \cup Holding
Request == {Idle} \cup Asked \cup Committing

\* What the steps of a request and of a browser are.
LEMMA Kinds ==
  ASSUME TypeOK
  PROVE  /\ \A r \in Handlers :
              /\ h[r] \in Request
              /\ h[r].at = "idle" => h[r] = Idle
              /\ h[r].at \in {"generation", "key", "share", "stage"} => h[r] \in Asked
              /\ h[r].at \in {"take", "bump", "write", "mark"} => h[r] \in Committing
              /\ h[r].at \in {"idle", "generation", "key", "share", "stage",
                              "take", "bump", "write", "mark"}
              /\ h[r].base \in Nat /\ h[r].generation \in Nat
              /\ h[r].at # "idle" => h[r].client \in Clients /\ h[r].client # None
              /\ h[r].at = "idle" => h[r].client = None
         /\ \A c \in Clients :
              /\ w[c] \in Browser
              /\ w[c].at = "away" => w[c] = Away
              /\ w[c].at = "asking" => w[c] \in Waiting
              /\ w[c].at \in {"kit", "pin", "committing", "confirmed", "saved"} =>
                   w[c] \in Holding
              /\ w[c].at \in {"away", "asking", "kit", "pin", "committing",
                              "confirmed", "saved"}
              /\ w[c].generation \in Nat
              /\ w[c].request # None <=> w[c].at \in {"asking", "committing"}
              /\ w[c].share # None <=> w[c].at \in {"kit", "pin", "committing",
                                                    "confirmed", "saved"}
<1> USE RecoveryAssumption DEF TypeOK, Browser, Request
<1>1. ASSUME NEW r \in Handlers
      PROVE  /\ h[r] \in Request
             /\ h[r].at = "idle" => h[r] = Idle
             /\ h[r].at \in {"generation", "key", "share", "stage"} => h[r] \in Asked
             /\ h[r].at \in {"take", "bump", "write", "mark"} => h[r] \in Committing
             /\ h[r].at \in {"idle", "generation", "key", "share", "stage",
                             "take", "bump", "write", "mark"}
             /\ h[r].base \in Nat /\ h[r].generation \in Nat
             /\ h[r].at # "idle" => h[r].client \in Clients /\ h[r].client # None
             /\ h[r].at = "idle" => h[r].client = None
  <2>1. h[r] \in Request
    OBVIOUS
  <2>2. CASE h[r] = Idle
    BY <2>1, <2>2 DEF Idle
  <2>3. CASE h[r] \in Asked
    BY <2>1, <2>3 DEF Asked
  <2>4. CASE h[r] \in Committing
    BY <2>1, <2>4 DEF Committing
  <2> QED
    BY <2>1, <2>2, <2>3, <2>4
<1>2. ASSUME NEW c \in Clients
      PROVE  /\ w[c] \in Browser
             /\ w[c].at = "away" => w[c] = Away
             /\ w[c].at = "asking" => w[c] \in Waiting
             /\ w[c].at \in {"kit", "pin", "committing", "confirmed", "saved"} =>
                  w[c] \in Holding
             /\ w[c].at \in {"away", "asking", "kit", "pin", "committing",
                             "confirmed", "saved"}
             /\ w[c].generation \in Nat
             /\ w[c].request # None <=> w[c].at \in {"asking", "committing"}
             /\ w[c].share # None <=> w[c].at \in {"kit", "pin", "committing",
                                                   "confirmed", "saved"}
  <2>1. w[c] \in Browser
    OBVIOUS
  <2>2. CASE w[c] = Away
    BY <2>1, <2>2 DEF Away
  <2>3. CASE w[c] \in Waiting
    BY <2>1, <2>3 DEF Waiting
  <2>4. CASE w[c] \in Holding
    BY <2>1, <2>4 DEF Holding
  <2> QED
    BY <2>1, <2>2, <2>3, <2>4
<1> QED
  BY <1>1, <1>2

\* Every browser and every request after one of each moved.
LEMMA Moves ==
  ASSUME TypeOK,
         NEW r \in Handlers, NEW a \in Request, h' = [h EXCEPT ![r] = a],
         NEW c \in Clients, NEW b \in Browser,
         w' = w \/ w' = [w EXCEPT ![c] = b]
  PROVE  /\ h' \in [Handlers -> Request]
         /\ w' \in [Clients -> Browser]
  BY DEF TypeOK, Browser, Request

LEMMA IdleAway ==
  /\ Idle.at = "idle" /\ Idle.client = None
  /\ Away.at = "away" /\ Away.share = None /\ Away.request = None
  BY DEF Idle, Away

\* Initially.
LEMMA InitInv == Init => IInv
<1> SUFFICES ASSUME Init PROVE IInv
  OBVIOUS
<1> USE RecoveryAssumption, IdleAway DEF Init
<1>1. TypeOK
  <2>1. /\ version \in Nat /\ live \in [share : Shares, version : Nat]
        /\ minted \in [Shares -> Nat]
        /\ kits \subseteq [share : Shares, generation : Nat]
    BY DEF Legacy
  <2>2. /\ w \in [Clients -> {Away} \cup Waiting \cup Holding]
        /\ h \in [Handlers -> {Idle} \cup Asked \cup Committing]
        /\ torn \in BOOLEAN
    OBVIOUS
  <2> QED
    BY <2>1, <2>2 DEF TypeOK
<1>2. OneLabel /\ Downloaded
  BY DEF OneLabel, Downloaded, Legacy
<1>3. Ordered /\ Committed /\ Linked
  BY DEF Ordered, Committed, Linked, Listens
<1> QED
  BY <1>1, <1>2, <1>3 DEF IInv

\* After an answer.
LEMMA AnswerType ==
  ASSUME TypeOK, NEW r \in Handlers, h[r].at # "idle", NEW b, Answer(r, b),
         Listens(r) => b \in Browser
  PROVE  /\ h' \in [Handlers -> Request]
         /\ w' \in [Clients -> Browser]
<1>1. Idle \in Request /\ h[r].client \in Clients
  BY Kinds DEF Request
<1>2. w' = w \/ (b \in Browser /\ w' = [w EXCEPT ![h[r].client] = b])
  BY DEF Answer
<1> QED
  BY <1>1, <1>2 DEF Answer, TypeOK, Browser, Request

LEMMA RefuseType ==
  ASSUME TypeOK, NEW r \in Handlers, h[r].at # "idle", Refuse(r)
  PROVE  /\ h' \in [Handlers -> Request]
         /\ w' \in [Clients -> Browser]
<1> DEFINE c == h[r].client
           b == IF w[c].at = "asking" THEN Away
                ELSE [w[c] EXCEPT !.at = "pin", !.request = None]
<1>1. c \in Clients
  BY Kinds
<1>2. ASSUME Listens(r) PROVE b \in Browser
  <2>1. CASE w[c].at = "asking"
    BY <2>1 DEF Browser
  <2>2. CASE w[c].at # "asking"
    <3>1. w[c] \in Holding
      BY <1>1, <1>2, <2>2, Kinds, RecoveryAssumption DEF Listens
    <3> QED
      BY <2>2, <3>1 DEF Holding, Browser
  <2> QED
    BY <2>1, <2>2
<1>3. Answer(r, b)
  BY DEF Refuse
<1> HIDE DEF b
<1> QED
  BY <1>2, <1>3, AnswerType

LEMMA ConfirmType ==
  ASSUME TypeOK, Linked, NEW r \in Handlers,
         h[r].at \in {"take", "mark"}, Confirm(r)
  PROVE  /\ h' \in [Handlers -> Request]
         /\ w' \in [Clients -> Browser]
<1> DEFINE c == h[r].client
           b == [w[c] EXCEPT !.at = "confirmed", !.request = None]
<1>1. c \in Clients
  BY Kinds
<1>2. ASSUME Listens(r) PROVE b \in Browser
  <2>1. w[c].at = "committing"
    BY <1>2 DEF Linked
  <2>2. w[c] \in Holding
    BY <1>1, <2>1, Kinds
  <2> QED
    BY <2>2 DEF Holding, Browser
<1>3. Answer(r, b)
  BY DEF Confirm
<1> HIDE DEF b
<1> QED
  BY <1>2, <1>3, AnswerType

\* A torn commit stays torn.
LEMMA TornStays ==
  ASSUME torn \in BOOLEAN, [Next]_vars
  PROVE  torn' \in BOOLEAN /\ (torn => torn')
<1>1. UNCHANGED torn \/ (\E r \in Handlers : Fail(r)) \/ Restart
  BY DEF Next, vars, Ask, CheckGeneration, LoadKey, LoadShare, Stage, Commit, Take, Bump,
         Write, Mark, SaveKit, SaveDevice, GiveUp, Leave, Sweep
<1>2. ASSUME NEW P \in BOOLEAN, torn' = (torn \/ P)
      PROVE  torn' \in BOOLEAN /\ (torn => torn')
  BY <1>2
<1> QED
  BY <1>1, <1>2 DEF Fail, Restart

\* The types are kept: a confirmation finds its browser committing.
LEMMA StepType ==
  ASSUME IInv, [Next]_vars
  PROVE  TypeOK'
<1> USE DEF IInv
<1>t. torn' \in BOOLEAN
  BY TornStays DEF TypeOK
<1>0. /\ h' \in [Handlers -> Request] /\ w' \in [Clients -> Browser]
      /\ version' \in Nat
      /\ live' \in [share : Shares, version : Nat]
      /\ store' \subseteq [share : Shares, version : Nat \ {0}, consumed : BOOLEAN]
      /\ minted' \in [Shares -> Nat]
      /\ kits' \subseteq [share : Shares, generation : Nat]
      => TypeOK'
  BY <1>t DEF TypeOK, Browser, Request
<1> USE <1>t
<1>1. ASSUME NEW r \in Handlers, NEW c \in Clients, NEW k \in kits, Ask(c, r, k)
      PROVE  TypeOK'
  <2>1. [at |-> "generation", client |-> c, kit |-> k.share,
         generation |-> k.generation, base |-> 0, share |-> None] \in Request
    BY DEF TypeOK, Request, Asked
  <2>2. [at |-> "asking", share |-> None, generation |-> 0, request |-> r]
          \in Browser
    BY DEF Browser, Waiting
  <2> QED
    BY <1>0, <1>1, <2>1, <2>2, Moves DEF Ask, TypeOK
<1>2. ASSUME NEW r \in Handlers, CheckGeneration(r) PROVE TypeOK'
  <2>1. CASE h[r].generation \in {version, Legacy}
    <3>1. [h[r] EXCEPT !.at = "key", !.base = version] \in Request
      BY <1>2, Kinds DEF CheckGeneration, Asked, Request, TypeOK
    <3>2. h' = [h EXCEPT ![r] = [h[r] EXCEPT !.at = "key", !.base = version]]
      BY <1>2, <2>1 DEF CheckGeneration
    <3> QED
      BY <1>0, <1>2, <2>1, <3>1, <3>2 DEF CheckGeneration, TypeOK, Browser, Request
  <2>2. CASE h[r].generation \notin {version, Legacy}
    BY <1>0, <1>2, <2>2, RefuseType DEF CheckGeneration, TypeOK
  <2> QED
    BY <2>1, <2>2
<1>3. ASSUME NEW r \in Handlers, LoadKey(r) PROVE TypeOK'
  <2>1. [h[r] EXCEPT !.at = "share", !.generation = version] \in Request
    BY <1>3, Kinds DEF LoadKey, Asked, Request, TypeOK
  <2> QED
    BY <1>0, <1>3, <2>1 DEF LoadKey, TypeOK, Browser, Request
<1>4. ASSUME NEW r \in Handlers, LoadShare(r) PROVE TypeOK'
  <2>1. CASE live = [share |-> h[r].kit, version |-> h[r].generation]
    <3>1. [h[r] EXCEPT !.at = "stage"] \in Request
      BY <1>4, Kinds DEF LoadShare, Asked, Request
    <3> QED
      BY <1>0, <1>4, <2>1, <3>1 DEF LoadShare, TypeOK, Browser, Request
  <2>2. CASE live # [share |-> h[r].kit, version |-> h[r].generation]
    BY <1>0, <1>4, <2>2, RefuseType DEF LoadShare, TypeOK
  <2> QED
    BY <2>1, <2>2
<1>5. ASSUME NEW r \in Handlers, NEW s \in Shares, Stage(r, s) PROVE TypeOK'
  <2> DEFINE b == [at |-> "kit", share |-> s, generation |-> h[r].base + 1,
                   request |-> None]
  <2>0. h[r].base \in Nat
    BY Kinds
  <2>1. b \in Browser
    BY <2>0 DEF Browser, Holding
  <2>2. Entry(s, h[r].base + 1)
          \in [share : Shares, version : Nat \ {0}, consumed : BOOLEAN]
    BY <2>0 DEF Entry
  <2>3. Answer(r, b)
    BY <1>5 DEF Stage
  <2> HIDE DEF b
  <2>4. h' \in [Handlers -> Request] /\ w' \in [Clients -> Browser]
    BY <1>5, <2>1, <2>3, AnswerType DEF Stage
  <2> QED
    BY <1>0, <1>5, <2>0, <2>2, <2>4 DEF Stage, TypeOK
<1>6. ASSUME NEW r \in Handlers, NEW c \in Clients, Commit(c, r) PROVE TypeOK'
  <2>1. w[c] \in Holding
    BY <1>6, Kinds DEF Commit
  <2>2. [at |-> "take", client |-> c, kit |-> None, generation |-> 0,
         base |-> 0, share |-> w[c].share] \in Request
    BY <2>1 DEF Request, Committing, Holding
  <2>3. [w[c] EXCEPT !.at = "committing", !.request = r] \in Browser
    BY <1>6, <2>1 DEF Commit, Browser, Holding
  <2>4. w' = [w EXCEPT ![c] = [w[c] EXCEPT !.at = "committing", !.request = r]]
    BY <1>6 DEF Commit
  <2> QED
    BY <1>0, <1>6, <2>2, <2>3, <2>4, Moves DEF Commit, TypeOK
<1>7. ASSUME NEW r \in Handlers, Take(r) PROVE TypeOK'
  <2>1. CASE Refuse(r)
    BY <1>0, <1>7, <2>1, RefuseType DEF Take, TypeOK
  <2>2. CASE Confirm(r)
    BY <1>0, <1>7, <2>2, ConfirmType DEF Take, TypeOK
  <2>3. ASSUME NEW e \in store, UNCHANGED w,
               h' = [h EXCEPT ![r].at = "bump", ![r].base = e.version - 1]
        PROVE  TypeOK'
    <3>1. e.version - 1 \in Nat
      BY DEF TypeOK
    <3>2. [h[r] EXCEPT !.at = "bump", !.base = e.version - 1] \in Request
      BY <1>7, <3>1, Kinds DEF Take, Committing, Request
    <3>3. h' = [h EXCEPT ![r] = [h[r] EXCEPT !.at = "bump", !.base = e.version - 1]]
      BY <2>3
    <3> QED
      BY <1>0, <1>7, <2>3, <3>2, <3>3 DEF Take, TypeOK, Browser, Request
  <2> QED
    BY <1>7, <2>1, <2>2, <2>3 DEF Take
<1>8. ASSUME NEW r \in Handlers, Bump(r) PROVE TypeOK'
  <2>1. CASE version = h[r].base
    <3>1. [h[r] EXCEPT !.at = "write"] \in Request
      BY <1>8, Kinds DEF Bump, Committing, Request
    <3>2. h[r].base \in Nat
      BY Kinds
    <3> QED
      BY <1>0, <1>8, <2>1, <3>1, <3>2 DEF Bump, TypeOK, Browser, Request
  <2>2. CASE version # h[r].base
    BY <1>0, <1>8, <2>2, RefuseType DEF Bump, TypeOK
  <2> QED
    BY <2>1, <2>2
<1>9. ASSUME NEW r \in Handlers, Write(r) PROVE TypeOK'
  <2>1. h[r] \in Committing
    BY <1>9, Kinds DEF Write
  <2>2. [h[r] EXCEPT !.at = "mark"] \in Request
    BY <2>1 DEF Committing, Request
  <2>3. [share |-> h[r].share, version |-> h[r].base + 1]
          \in [share : Shares, version : Nat]
    BY <2>1 DEF Committing
  <2> QED
    BY <1>0, <1>9, <2>2, <2>3 DEF Write, TypeOK, Browser, Request
<1>10. ASSUME NEW r \in Handlers, Mark(r) PROVE TypeOK'
  <2>1. h' \in [Handlers -> Request] /\ w' \in [Clients -> Browser]
    BY <1>10, ConfirmType DEF Mark
  <2>2. store' \subseteq [share : Shares, version : Nat \ {0}, consumed : BOOLEAN]
    <3>1. \A e \in store : [e EXCEPT !.consumed = TRUE]
            \in [share : Shares, version : Nat \ {0}, consumed : BOOLEAN]
      BY DEF TypeOK
    <3> QED
      BY <1>10, <3>1 DEF Mark, TypeOK
  <2> QED
    BY <1>0, <1>10, <2>1, <2>2 DEF Mark, TypeOK
<1>11. ASSUME NEW c \in Clients,
              SaveKit(c) \/ SaveDevice(c) \/ GiveUp(c) \/ Leave(c)
       PROVE  TypeOK'
  <2>1. /\ version' \in Nat /\ live' \in [share : Shares, version : Nat]
        /\ store' = store /\ minted' = minted /\ h' = h
    BY <1>11 DEF SaveKit, SaveDevice, GiveUp, Leave, TypeOK
  <2>2. CASE SaveKit(c)
    <3>1. w[c] \in Holding
      BY <2>2, Kinds DEF SaveKit
    <3>2. [w[c] EXCEPT !.at = "pin"] \in Browser
      BY <2>2, <3>1 DEF SaveKit, Browser, Holding
    <3>3. [share |-> w[c].share, generation |-> w[c].generation]
            \in [share : Shares, generation : Nat]
      BY <3>1 DEF Holding
    <3> QED
      BY <1>0, <2>1, <2>2, <3>2, <3>3 DEF SaveKit, TypeOK, Browser, Request
  <2>3. CASE SaveDevice(c)
    <3>1. [w[c] EXCEPT !.at = "saved"] \in Browser
      BY <2>3, Kinds DEF SaveDevice, Browser, Holding
    <3> QED
      BY <1>0, <2>1, <2>3, <3>1 DEF SaveDevice, TypeOK, Browser, Request
  <2>4. CASE GiveUp(c)
    <3>1. CASE w[c].at = "asking"
      BY <1>0, <2>1, <2>4, <3>1 DEF GiveUp, TypeOK, Browser, Request
    <3>2. CASE w[c].at # "asking"
      <4>1. w[c] \in Holding
        BY <2>4, <3>2, Kinds DEF GiveUp
      <4>2. [w[c] EXCEPT !.at = "pin", !.request = None] \in Browser
        BY <4>1 DEF Browser, Holding
      <4> QED
        BY <1>0, <2>1, <2>4, <3>2, <4>2 DEF GiveUp, TypeOK, Browser, Request
    <3> QED
      BY <3>1, <3>2
  <2>5. CASE Leave(c)
    BY <1>0, <2>1, <2>5 DEF Leave, TypeOK, Browser, Request
  <2> QED
    BY <1>11, <2>2, <2>3, <2>4, <2>5
<1>12. ASSUME NEW e \in store, Sweep(e) PROVE TypeOK'
  BY <1>12 DEF Sweep, TypeOK
<1>13. ASSUME NEW r \in Handlers, Fail(r) PROVE TypeOK'
  BY <1>0, <1>13, RefuseType DEF Fail, TypeOK
<1>14. CASE Restart
  BY <1>14 DEF Restart, TypeOK
<1>15. CASE UNCHANGED vars
  BY <1>15 DEF vars, TypeOK
<1> QED
  BY <1>1, <1>2, <1>3, <1>4, <1>5, <1>6, <1>7, <1>8, <1>9, <1>10, <1>11,
     <1>12, <1>13, <1>14, <1>15 DEF Next

-----------------------------------------------------------------------------
\* A refusal frees the request and leaves its browser away, or on the PIN page
\* with what it held.
LEMMA RefuseMoves ==
  ASSUME TypeOK, NEW r \in Handlers, h[r].at # "idle", Refuse(r)
  PROVE  /\ \A q \in Handlers : h'[q] = IF q = r THEN Idle ELSE h[q]
         /\ \A c \in Clients :
              \/ w'[c] = w[c]
              \/ w'[c] = Away
              \/ /\ w[c].at = "committing" /\ w'[c].at = "pin"
                 /\ w'[c].share = w[c].share
                 /\ w'[c].generation = w[c].generation
                 /\ w'[c].request = None
<1>1. \A q \in Handlers : h'[q] = IF q = r THEN Idle ELSE h[q]
  BY DEF Refuse, Answer, TypeOK
<1>2. ASSUME NEW c \in Clients, w'[c] # w[c], w'[c] # Away
      PROVE  /\ w[c].at = "committing" /\ w'[c].at = "pin"
             /\ w'[c].share = w[c].share
             /\ w'[c].generation = w[c].generation
             /\ w'[c].request = None
  <2>1. /\ Listens(r) /\ c = h[r].client /\ w[c].at # "asking"
        /\ w'[c] = [w[c] EXCEPT !.at = "pin", !.request = None]
    BY <1>2, Kinds DEF Refuse, Answer, TypeOK
  <2>2. w[c] \in Holding
    BY <2>1, Kinds, RecoveryAssumption DEF Listens
  <2>3. w[c].at = "committing"
    BY <2>1, <2>2, Kinds, RecoveryAssumption DEF Listens
  <2> QED
    BY <2>1, <2>2, <2>3 DEF Holding
<1> QED
  BY <1>1, <1>2

\* A confirmation frees the request and tells its browser, which was
\* committing what the request committed.
LEMMA ConfirmMoves ==
  ASSUME TypeOK, Linked, NEW r \in Handlers, h[r].at \in {"take", "mark"},
         Confirm(r)
  PROVE  /\ \A q \in Handlers : h'[q] = IF q = r THEN Idle ELSE h[q]
         /\ \A c \in Clients :
              \/ w'[c] = w[c]
              \/ /\ w[c].at = "committing" /\ w'[c].at = "confirmed"
                 /\ w[c].share = h[r].share
                 /\ w'[c].share = w[c].share
                 /\ w'[c].generation = w[c].generation
                 /\ w'[c].request = None
<1>1. \A q \in Handlers : h'[q] = IF q = r THEN Idle ELSE h[q]
  BY DEF Confirm, Answer, TypeOK
<1>2. ASSUME NEW c \in Clients, w'[c] # w[c]
      PROVE  /\ w[c].at = "committing" /\ w'[c].at = "confirmed"
             /\ w[c].share = h[r].share
             /\ w'[c].share = w[c].share
             /\ w'[c].generation = w[c].generation
             /\ w'[c].request = None
  <2>1. /\ Listens(r) /\ c = h[r].client
        /\ w'[c] = [w[c] EXCEPT !.at = "confirmed", !.request = None]
    BY <1>2, Kinds DEF Confirm, Answer, TypeOK
  <2>2. w[c].at = "committing" /\ w[c].share = h[r].share
    BY <2>1 DEF Linked
  <2>3. w[c] \in Holding
    BY <2>2, Kinds
  <2> QED
    BY <2>1, <2>2, <2>3 DEF Holding
<1> QED
  BY <1>1, <1>2

\* Labels survive a step that mints nothing, when each place that speaks of a
\* polynomial afterwards spoke of it before.
LEMMA LabelsStay ==
  ASSUME IInv, TypeOK',
         UNCHANGED minted,
         \A e \in store' : \E f \in store : e.share = f.share /\ e.version = f.version,
         \A k \in kits' : \/ k \in kits
                          \/ \E c \in Clients :
                               /\ w[c].share # None
                               /\ k = [share |-> w[c].share,
                                       generation |-> w[c].generation],
         \A c \in Clients : \/ w'[c].share = None
                            \/ /\ w'[c].share = w[c].share
                               /\ w'[c].generation = w[c].generation,
         \A r \in Handlers : \/ h'[r].at \notin {"bump", "write", "mark"}
                             \/ minted[h'[r].share] = h'[r].base + 1
  PROVE  OneLabel'
<1> USE DEF IInv
<1>1. \A k \in kits' : /\ minted'[k.share] # 0
                       /\ k.generation \in {minted'[k.share], Legacy}
  <2> TAKE k \in kits'
  <2>1. CASE k \in kits
    BY <2>1 DEF OneLabel
  <2>2. ASSUME NEW c \in Clients, w[c].share # None,
               k = [share |-> w[c].share, generation |-> w[c].generation]
        PROVE  /\ minted'[k.share] # 0
               /\ k.generation \in {minted'[k.share], Legacy}
    BY <2>2 DEF OneLabel
  <2> QED
    BY <2>1, <2>2
<1>2. \A e \in store' : minted'[e.share] = e.version
  BY DEF OneLabel
<1>3. \A c \in Clients : w'[c].share # None =>
        minted'[w'[c].share] = w'[c].generation /\ w'[c].generation # 0
  BY DEF OneLabel
<1> QED
  BY <1>1, <1>2, <1>3 DEF OneLabel

LEMMA Consumption ==
  ASSUME TypeOK, NEW r \in Handlers, Mark(r), NEW e \in store'
  PROVE  \E f \in store : /\ e.share = f.share /\ e.version = f.version
                          /\ e.consumed => f.consumed \/ e.share = h[r].share
<1>1. CASE e \in store
  BY <1>1
<1>2. ASSUME NEW f \in store, f.share = h[r].share,
             e = [f EXCEPT !.consumed = TRUE]
      PROVE  e.share = f.share /\ e.version = f.version /\ e.share = h[r].share
  BY <1>2 DEF TypeOK
<1> QED
  BY <1>1, <1>2 DEF Mark

LEMMA StepLabel ==
  ASSUME IInv, [Next]_vars
  PROVE  OneLabel'
<1>0. TypeOK' /\ TypeOK
  BY StepType DEF IInv
<1> USE <1>0
<1> DEFINE Quiet(q) == \/ h'[q].at \notin {"bump", "write", "mark"}
                       \/ minted[h'[q].share] = h'[q].base + 1
           Same(c) == \/ w'[c].share = None
                      \/ /\ w'[c].share = w[c].share
                         /\ w'[c].generation = w[c].generation
<1>q. \A q \in Handlers : h'[q] = h[q] => Quiet(q)
  BY DEF IInv, OneLabel
<1>s. \A c \in Clients : w'[c] = w[c] => Same(c)
  OBVIOUS
<1>r. ASSUME NEW r \in Handlers, h[r].at # "idle", Refuse(r)
      PROVE  (\A q \in Handlers : Quiet(q)) /\ (\A c \in Clients : Same(c))
  BY <1>r, <1>q, RefuseMoves, IdleAway DEF IInv
<1>c. ASSUME NEW r \in Handlers, h[r].at \in {"take", "mark"}, Confirm(r)
      PROVE  (\A q \in Handlers : Quiet(q)) /\ (\A c \in Clients : Same(c))
  BY <1>c, <1>q, ConfirmMoves, IdleAway DEF IInv
<1>1. ASSUME NEW r \in Handlers, NEW c \in Clients, NEW k \in kits, Ask(c, r, k)
      PROVE  OneLabel'
  <2>1. \A q \in Handlers : Quiet(q)
    BY <1>1, <1>q DEF Ask, TypeOK
  <2>2. \A d \in Clients : Same(d)
    BY <1>1 DEF Ask, TypeOK
  <2> QED
    BY <1>1, <2>1, <2>2, LabelsStay DEF Ask
<1>2. ASSUME NEW r \in Handlers, CheckGeneration(r) PROVE OneLabel'
  <2>1. (\A q \in Handlers : Quiet(q)) /\ (\A c \in Clients : Same(c))
    <3>1. CASE h[r].generation \in {version, Legacy}
      <4>1. h[r] \in Asked /\ w' = w /\ \A q \in Handlers : q # r => h'[q] = h[q]
        BY <1>2, <3>1, Kinds DEF CheckGeneration, TypeOK
      <4>2. h'[r].at = "key"
        BY <1>2, <3>1, <4>1 DEF CheckGeneration, TypeOK, Asked
      <4> QED
        BY <1>q, <1>s, <4>1, <4>2
    <3>2. CASE h[r].generation \notin {version, Legacy}
      BY <1>2, <1>r, <3>2 DEF CheckGeneration
    <3> QED
      BY <3>1, <3>2
  <2> QED
    BY <1>2, <2>1, LabelsStay DEF CheckGeneration
<1>3. ASSUME NEW r \in Handlers, LoadKey(r) PROVE OneLabel'
  <2>1. (\A q \in Handlers : Quiet(q)) /\ (\A c \in Clients : Same(c))
    BY <1>3, <1>q DEF LoadKey, TypeOK
  <2> QED
    BY <1>3, <2>1, LabelsStay DEF LoadKey
<1>4. ASSUME NEW r \in Handlers, LoadShare(r) PROVE OneLabel'
  <2>1. (\A q \in Handlers : Quiet(q)) /\ (\A c \in Clients : Same(c))
    <3>1. CASE live = [share |-> h[r].kit, version |-> h[r].generation]
      <4>1. h[r] \in Asked /\ w' = w /\ \A q \in Handlers : q # r => h'[q] = h[q]
        BY <1>4, <3>1, Kinds DEF LoadShare, TypeOK
      <4>2. h'[r].at = "stage"
        BY <1>4, <3>1, <4>1 DEF LoadShare, TypeOK, Asked
      <4> QED
        BY <1>q, <1>s, <4>1, <4>2
    <3>2. CASE live # [share |-> h[r].kit, version |-> h[r].generation]
      BY <1>4, <1>r, <3>2 DEF LoadShare
    <3> QED
      BY <3>1, <3>2
  <2> QED
    BY <1>4, <2>1, LabelsStay DEF LoadShare
<1>5. ASSUME NEW r \in Handlers, NEW s \in Shares, Stage(r, s) PROVE OneLabel'
  <2> DEFINE g == h[r].base + 1
  <2>0. h[r].base \in Nat /\ g # 0
    BY Kinds
  <2>1. /\ minted'[s] = g /\ minted[s] = 0
        /\ \A t \in Shares : t # s => minted'[t] = minted[t]
    BY <1>5 DEF Stage, TypeOK
  <2>2. \A e \in store' : minted'[e.share] = e.version
    <3>1. \A e \in store : e.share # s /\ e.share \in Shares
      BY <2>1 DEF IInv, OneLabel, TypeOK
    <3> QED
      BY <1>5, <2>1, <3>1 DEF Stage, Entry, IInv, OneLabel
  <2>3. \A k \in kits' : /\ minted'[k.share] # 0
                         /\ k.generation \in {minted'[k.share], Legacy}
    <3>1. \A k \in kits : k.share # s /\ k.share \in Shares
      BY <2>1 DEF IInv, OneLabel, TypeOK
    <3> QED
      BY <1>5, <2>1, <3>1 DEF Stage, IInv, OneLabel
  <2>4. \A c \in Clients : w'[c].share # None =>
          minted'[w'[c].share] = w'[c].generation /\ w'[c].generation # 0
    <3> TAKE c \in Clients
    <3>1. CASE w'[c] = w[c]
      <4>1. w[c].share # None => w[c].share \in Shares /\ w[c].share # s
        BY <2>1, Kinds DEF IInv, OneLabel, Holding
      <4> QED
        BY <2>1, <3>1, <4>1 DEF IInv, OneLabel
    <3>2. CASE w'[c] # w[c]
      <4>1. w'[c].share = s /\ w'[c].generation = g
        BY <1>5, <3>2 DEF Stage, Answer, TypeOK
      <4> QED
        BY <2>0, <2>1, <4>1
    <3> QED
      BY <3>1, <3>2
  <2>5. \A q \in Handlers : h'[q].at \in {"bump", "write", "mark"} =>
          minted'[h'[q].share] = h'[q].base + 1
    <3> TAKE q \in Handlers
    <3>1. CASE h'[q] = h[q]
      <4>1. h[q].at \in {"bump", "write", "mark"} =>
              /\ h[q].share \in Shares
              /\ minted[h[q].share] = h[q].base + 1 /\ h[q].base + 1 # 0
        BY Kinds DEF IInv, OneLabel, Committing
      <4> QED
        BY <2>1, <3>1, <4>1
    <3>2. CASE h'[q] # h[q]
      BY <1>5, <3>2, IdleAway DEF Stage, Answer, TypeOK
    <3> QED
      BY <3>1, <3>2
  <2>6. minted'[First] # 0
    BY <2>1, RecoveryAssumption DEF IInv, OneLabel
  <2> QED
    BY <2>2, <2>3, <2>4, <2>5, <2>6 DEF OneLabel
<1>6. ASSUME NEW r \in Handlers, NEW c \in Clients, Commit(c, r) PROVE OneLabel'
  <2>1. \A q \in Handlers : Quiet(q)
    BY <1>6, <1>q DEF Commit, TypeOK
  <2>2. w[c] \in Holding
    BY <1>6, Kinds DEF Commit
  <2>3. \A d \in Clients : Same(d)
    BY <1>6, <2>2 DEF Commit, TypeOK, Holding
  <2> QED
    BY <1>6, <2>1, <2>3, LabelsStay DEF Commit
<1>7. ASSUME NEW r \in Handlers, Take(r) PROVE OneLabel'
  <2>1. (\A q \in Handlers : Quiet(q)) /\ (\A c \in Clients : Same(c))
    <3>1. CASE Refuse(r)
      BY <1>7, <1>r, <3>1 DEF Take
    <3>2. CASE Confirm(r)
      BY <1>7, <1>c, <3>2 DEF Take
    <3>3. ASSUME NEW e \in store, e.share = h[r].share, UNCHANGED w,
                 h' = [h EXCEPT ![r].at = "bump", ![r].base = e.version - 1]
          PROVE  (\A q \in Handlers : Quiet(q)) /\ (\A c \in Clients : Same(c))
      <4>1. h[r] \in Committing
        BY <1>7, Kinds DEF Take
      <4>2. h'[r].share = e.share /\ h'[r].base + 1 = e.version
        BY <3>3, <4>1 DEF TypeOK, Committing
      <4>3. Quiet(r)
        BY <4>2 DEF IInv, OneLabel
      <4> QED
        BY <1>q, <3>3, <4>3 DEF TypeOK
    <3> QED
      BY <1>7, <3>1, <3>2, <3>3 DEF Take
  <2> QED
    BY <1>7, <2>1, LabelsStay DEF Take
<1>8. ASSUME NEW r \in Handlers, Bump(r) PROVE OneLabel'
  <2>1. (\A q \in Handlers : Quiet(q)) /\ (\A c \in Clients : Same(c))
    <3>1. CASE version = h[r].base
      <4>1. h[r] \in Committing /\ minted[h[r].share] = h[r].base + 1
        BY <1>8, Kinds DEF Bump, IInv, OneLabel
      <4>2. h'[r].share = h[r].share /\ h'[r].base = h[r].base
        BY <1>8, <3>1, <4>1 DEF Bump, TypeOK, Committing
      <4> QED
        BY <1>8, <1>q, <3>1, <4>1, <4>2 DEF Bump, TypeOK
    <3>2. CASE version # h[r].base
      BY <1>8, <1>r, <3>2 DEF Bump
    <3> QED
      BY <3>1, <3>2
  <2> QED
    BY <1>8, <2>1, LabelsStay DEF Bump
<1>9. ASSUME NEW r \in Handlers, Write(r) PROVE OneLabel'
  <2>1. h[r] \in Committing /\ minted[h[r].share] = h[r].base + 1
    BY <1>9, Kinds DEF Write, IInv, OneLabel
  <2>2. h'[r].share = h[r].share /\ h'[r].base = h[r].base
    BY <1>9, <2>1 DEF Write, TypeOK, Committing
  <2>3. \A q \in Handlers : Quiet(q)
    BY <1>9, <1>q, <2>1, <2>2 DEF Write, TypeOK
  <2> QED
    BY <1>9, <2>3, LabelsStay DEF Write
<1>10. ASSUME NEW r \in Handlers, Mark(r) PROVE OneLabel'
  <2>1. (\A q \in Handlers : Quiet(q)) /\ (\A c \in Clients : Same(c))
    BY <1>10, <1>c DEF Mark
  <2>2. \A e \in store' : \E f \in store : e.share = f.share /\ e.version = f.version
    BY <1>10, Consumption
  <2> QED
    BY <1>10, <2>1, <2>2, LabelsStay DEF Mark
<1>11. ASSUME NEW c \in Clients,
              SaveKit(c) \/ SaveDevice(c) \/ GiveUp(c) \/ Leave(c)
       PROVE  OneLabel'
  <2>1. UNCHANGED <<store, minted, h>>
    BY <1>11 DEF SaveKit, SaveDevice, GiveUp, Leave
  <2>2. \A d \in Clients : Same(d)
    <3>1. CASE w'[c] = Away
      BY <1>11, <3>1, IdleAway DEF SaveKit, SaveDevice, GiveUp, Leave, TypeOK
    <3>2. CASE w'[c] # Away
      <4>1. w[c] \in Holding
        BY <1>11, <3>2, Kinds DEF SaveKit, SaveDevice, GiveUp, Leave, TypeOK
      <4>2. \A d \in Clients : d # c => w'[d] = w[d]
        BY <1>11 DEF SaveKit, SaveDevice, GiveUp, Leave, TypeOK
      <4>3. \E a, b : w'[c] = [w[c] EXCEPT !.at = a, !.request = b]
        <5>1. CASE SaveKit(c)
          <6>1. w'[c] = [w[c] EXCEPT !.at = "pin", !.request = w[c].request]
            BY <4>1, <5>1 DEF SaveKit, TypeOK, Holding
          <6> QED
            BY <6>1
        <5>2. CASE SaveDevice(c)
          <6>1. w'[c] = [w[c] EXCEPT !.at = "saved", !.request = w[c].request]
            BY <4>1, <5>2 DEF SaveDevice, TypeOK, Holding
          <6> QED
            BY <6>1
        <5>3. CASE GiveUp(c)
          BY <3>2, <4>1, <5>3 DEF GiveUp, TypeOK, Holding
        <5>4. CASE Leave(c)
          BY <3>2, <5>4 DEF Leave, TypeOK
        <5> QED
          BY <1>11, <5>1, <5>2, <5>3, <5>4
      <4> QED
        BY <4>1, <4>2, <4>3 DEF Holding
    <3> QED
      BY <3>1, <3>2
  <2>3. \A k \in kits' : \/ k \in kits
                         \/ \E d \in Clients :
                              /\ w[d].share # None
                              /\ k = [share |-> w[d].share,
                                      generation |-> w[d].generation]
    BY <1>11, Kinds DEF SaveKit, SaveDevice, GiveUp, Leave
  <2> QED
    BY <1>q, <2>1, <2>2, <2>3, LabelsStay
<1>12. ASSUME NEW e \in store, Sweep(e) PROVE OneLabel'
  BY <1>12, <1>q, <1>s, LabelsStay DEF Sweep
<1>13. ASSUME NEW r \in Handlers, Fail(r) PROVE OneLabel'
  BY <1>13, <1>r, LabelsStay DEF Fail
<1>14. CASE Restart
  BY <1>14, <1>s, IdleAway, LabelsStay DEF Restart
<1>15. CASE UNCHANGED vars
  BY <1>15, <1>q, <1>s, LabelsStay DEF vars
<1> QED
  BY <1>1, <1>2, <1>3, <1>4, <1>5, <1>6, <1>7, <1>8, <1>9, <1>10, <1>11,
     <1>12, <1>13, <1>14, <1>15 DEF Next

-----------------------------------------------------------------------------
\* The order survives a step that writes neither the version nor the share,
\* when no request arrives at a write and none leaves one.
LEMMA OrderStays ==
  ASSUME IInv, UNCHANGED <<version, live>>,
         torn => torn', \A e \in store' : e.version <= live.version + 1,
         \A q \in Handlers :
           \/ h'[q] = h[q]
           \/ /\ h[q].at # "write" \/ torn'
              /\ \/ h'[q].at \in {"idle", "generation", "take", "mark"}
                 \/ h'[q].at = "key" /\ h'[q].base <= version
                 \/ /\ h'[q].at = "share" /\ h'[q].base <= h'[q].generation
                    /\ h'[q].generation <= version
                 \/ /\ h'[q].at \in {"stage", "bump"}
                    /\ h'[q].base <= live.version
  PROVE  Ordered'
<1> USE DEF IInv, Ordered
<1>1. ~torn' /\ version' # live'.version => \E r \in Handlers : h'[r].at = "write"
  <2>1. \A q \in Handlers : ~torn' /\ h[q].at = "write" => h'[q] = h[q]
    OBVIOUS
  <2> QED
    BY <2>1
<1>2. \A q \in Handlers : h'[q].at = "write" => h'[q] = h[q]
  OBVIOUS
<1> QED
  BY <1>1, <1>2

LEMMA StepOrdered ==
  ASSUME IInv, [Next]_vars
  PROVE  Ordered'
<1>0. TypeOK' /\ TypeOK
  BY StepType DEF IInv
<1>t. torn => torn'
  BY <1>0, TornStays DEF TypeOK
<1> USE <1>0, <1>t, IdleAway
<1> DEFINE Fine(q) ==
             \/ h'[q] = h[q]
             \/ /\ h[q].at # "write" \/ torn'
                /\ \/ h'[q].at \in {"idle", "generation", "take", "mark"}
                   \/ h'[q].at = "key" /\ h'[q].base <= version
                   \/ /\ h'[q].at = "share" /\ h'[q].base <= h'[q].generation
                      /\ h'[q].generation <= version
                   \/ /\ h'[q].at \in {"stage", "bump"}
                      /\ h'[q].base <= live.version
<1>s. \A e \in store : e.version <= live.version + 1
  BY DEF IInv, Ordered
<1>n. version \in Nat /\ live.version \in Nat
  BY DEF TypeOK
<1>r. ASSUME NEW r \in Handlers, h[r].at # "idle", h[r].at # "write" \/ torn',
             Refuse(r)
      PROVE  \A q \in Handlers : Fine(q)
  BY <1>r, RefuseMoves
<1>c. ASSUME NEW r \in Handlers, h[r].at \in {"take", "mark"}, Confirm(r)
      PROVE  \A q \in Handlers : Fine(q)
  BY <1>c, ConfirmMoves DEF IInv
<1>1. ASSUME NEW r \in Handlers, NEW c \in Clients, NEW k \in kits, Ask(c, r, k)
      PROVE  Ordered'
  <2>1. \A q \in Handlers : Fine(q)
    BY <1>1 DEF Ask, TypeOK
  <2> QED
    BY <1>1, <1>s, <2>1, OrderStays DEF Ask
<1>2. ASSUME NEW r \in Handlers, CheckGeneration(r) PROVE Ordered'
  <2>1. CASE h[r].generation \in {version, Legacy}
    <3>1. h[r] \in Asked
      BY <1>2, Kinds DEF CheckGeneration
    <3>2. h'[r].at = "key" /\ h'[r].base = version
      BY <1>2, <2>1, <3>1 DEF CheckGeneration, TypeOK, Asked
    <3>3. \A q \in Handlers : Fine(q)
      BY <1>2, <2>1, <1>n, <3>2 DEF CheckGeneration, TypeOK
    <3> QED
      BY <1>2, <1>s, <3>3, OrderStays DEF CheckGeneration
  <2>2. CASE h[r].generation \notin {version, Legacy}
    BY <1>2, <1>r, <1>s, <2>2, OrderStays DEF CheckGeneration
  <2> QED
    BY <2>1, <2>2
<1>3. ASSUME NEW r \in Handlers, LoadKey(r) PROVE Ordered'
  <2>1. h[r] \in Asked /\ h[r].base <= version
    BY <1>3, Kinds DEF LoadKey, IInv, Ordered
  <2>2. h'[r].at = "share" /\ h'[r].base = h[r].base /\ h'[r].generation = version
    BY <1>3, <2>1 DEF LoadKey, TypeOK, Asked
  <2>3. \A q \in Handlers : Fine(q)
    BY <1>3, <1>n, <2>1, <2>2 DEF LoadKey, TypeOK
  <2> QED
    BY <1>3, <1>s, <2>3, OrderStays DEF LoadKey
<1>4. ASSUME NEW r \in Handlers, LoadShare(r) PROVE Ordered'
  <2>1. CASE live = [share |-> h[r].kit, version |-> h[r].generation]
    <3>1. h[r] \in Asked /\ h[r].base <= live.version
      BY <1>4, <2>1, Kinds DEF LoadShare, IInv, Ordered
    <3>2. h'[r].at = "stage" /\ h'[r].base = h[r].base
      BY <1>4, <2>1, <3>1 DEF LoadShare, TypeOK, Asked
    <3>3. \A q \in Handlers : Fine(q)
      BY <1>4, <2>1, <3>1, <3>2 DEF LoadShare, TypeOK
    <3> QED
      BY <1>4, <1>s, <3>3, OrderStays DEF LoadShare
  <2>2. CASE live # [share |-> h[r].kit, version |-> h[r].generation]
    BY <1>4, <1>r, <1>s, <2>2, OrderStays DEF LoadShare
  <2> QED
    BY <2>1, <2>2
<1>5. ASSUME NEW r \in Handlers, NEW s \in Shares, Stage(r, s) PROVE Ordered'
  <2>1. h[r].base \in Nat /\ h[r].base <= live.version
    BY <1>5, Kinds DEF Stage, IInv, Ordered
  <2>2. \A e \in store' : e.version <= live.version + 1
    BY <1>5, <1>n, <1>s, <2>1 DEF Stage, Entry
  <2>3. \A q \in Handlers : Fine(q)
    BY <1>5 DEF Stage, Answer, TypeOK
  <2> QED
    BY <1>5, <2>2, <2>3, OrderStays DEF Stage
<1>6. ASSUME NEW r \in Handlers, NEW c \in Clients, Commit(c, r) PROVE Ordered'
  <2>1. \A q \in Handlers : Fine(q)
    BY <1>6 DEF Commit, TypeOK
  <2> QED
    BY <1>6, <1>s, <2>1, OrderStays DEF Commit
<1>7. ASSUME NEW r \in Handlers, Take(r) PROVE Ordered'
  <2>1. \A q \in Handlers : Fine(q)
    <3>1. CASE Refuse(r)
      BY <1>7, <1>r, <3>1 DEF Take
    <3>2. CASE Confirm(r)
      BY <1>7, <1>c, <3>2 DEF Take
    <3>3. ASSUME NEW e \in store,
                 h' = [h EXCEPT ![r].at = "bump", ![r].base = e.version - 1]
          PROVE  \A q \in Handlers : Fine(q)
      <4>1. h[r] \in Committing
        BY <1>7, Kinds DEF Take
      <4>2. h'[r].at = "bump" /\ h'[r].base = e.version - 1
        BY <3>3, <4>1 DEF TypeOK, Committing
      <4>3. e.version - 1 <= live.version
        BY <1>n, <1>s DEF TypeOK
      <4> QED
        BY <1>7, <3>3, <4>2, <4>3 DEF Take, TypeOK
    <3> QED
      BY <1>7, <3>1, <3>2, <3>3 DEF Take
  <2> QED
    BY <1>7, <1>s, <2>1, OrderStays DEF Take
<1>8. ASSUME NEW r \in Handlers, Bump(r) PROVE Ordered'
  <2>1. CASE version = h[r].base
    <3>1. h[r] \in Committing /\ h[r].base \in Nat /\ h[r].base <= live.version
      BY <1>8, Kinds DEF Bump, IInv, Ordered
    <3>2. live.version = version
      BY <1>n, <2>1, <3>1 DEF IInv, Ordered
    <3>3. /\ h'[r].at = "write" /\ h'[r].base = h[r].base
          /\ \A q \in Handlers : q # r => h'[q] = h[q]
      BY <1>8, <2>1, <3>1 DEF Bump, TypeOK, Committing
    <3>4. \A q \in Handlers : h[q].at # "write"
      BY <1>n, <3>2, Kinds DEF IInv, Ordered
    <3>5. /\ version' = version + 1 /\ UNCHANGED <<live, store>>
      BY <1>8, <2>1 DEF Bump
    <3>6. \A q \in Handlers :
            /\ h'[q].at = "key" => h'[q].base <= version'
            /\ h'[q].at = "share" => /\ h'[q].base <= h'[q].generation
                                     /\ h'[q].generation <= version'
            /\ h'[q].at \in {"stage", "bump"} => h'[q].base <= live'.version
            /\ h'[q].at = "write" => /\ version' = h'[q].base + 1
                                     /\ live'.version = h'[q].base
      <4> TAKE q \in Handlers
      <4>1. CASE q = r
        BY <1>n, <2>1, <3>2, <3>3, <3>5, <4>1
      <4>2. CASE q # r
        <5>1. h'[q] = h[q] /\ h[q].base \in Nat /\ h[q].generation \in Nat
          BY <3>3, <4>2, Kinds
        <5> QED
          BY <1>n, <3>4, <3>5, <5>1 DEF IInv, Ordered
      <4> QED
        BY <4>1, <4>2
    <3> QED
      BY <1>n, <1>s, <3>2, <3>3, <3>4, <3>5, <3>6 DEF Ordered
  <2>2. CASE version # h[r].base
    BY <1>8, <1>r, <1>s, <2>2, OrderStays DEF Bump
  <2> QED
    BY <2>1, <2>2
<1>9. ASSUME NEW r \in Handlers, Write(r) PROVE Ordered'
  <2>1. /\ h[r] \in Committing /\ h[r].base \in Nat
        /\ version = h[r].base + 1 /\ live.version = h[r].base
    BY <1>9, Kinds DEF Write, IInv, Ordered
  <2>2. /\ h'[r].at = "mark" /\ \A q \in Handlers : q # r => h'[q] = h[q]
        /\ live'.version = h[r].base + 1 /\ UNCHANGED <<version, store>>
    BY <1>9, <2>1 DEF Write, TypeOK, Committing
  <2>3. \A q \in Handlers : q # r => h[q].at # "write"
    BY <1>9 DEF Write, IInv, Ordered
  <2>4. \A q \in Handlers :
          /\ h'[q].at = "key" => h'[q].base <= version'
          /\ h'[q].at = "share" => /\ h'[q].base <= h'[q].generation
                                   /\ h'[q].generation <= version'
          /\ h'[q].at \in {"stage", "bump"} => h'[q].base <= live'.version
          /\ h'[q].at # "write"
    <3> TAKE q \in Handlers
    <3>1. q # r => h[q].base \in Nat
      BY Kinds
    <3> QED
      BY <1>n, <2>1, <2>2, <2>3, <3>1 DEF IInv, Ordered
  <2>5. \A e \in store' : e.version <= live'.version + 1
    BY <1>s, <2>1, <2>2 DEF TypeOK
  <2> QED
    BY <2>1, <2>2, <2>4, <2>5 DEF Ordered
<1>10. ASSUME NEW r \in Handlers, Mark(r) PROVE Ordered'
  <2>1. \A e \in store' : e.version <= live.version + 1
    BY <1>10, <1>s, Consumption
  <2> QED
    BY <1>10, <1>c, <2>1, OrderStays DEF Mark
<1>11. ASSUME NEW c \in Clients,
              SaveKit(c) \/ SaveDevice(c) \/ GiveUp(c) \/ Leave(c)
       PROVE  Ordered'
  BY <1>11, <1>s, OrderStays DEF SaveKit, SaveDevice, GiveUp, Leave
<1>12. ASSUME NEW e \in store, Sweep(e) PROVE Ordered'
  BY <1>12, <1>s, OrderStays DEF Sweep
<1>13. ASSUME NEW r \in Handlers, Fail(r) PROVE Ordered'
  BY <1>13, <1>r, <1>s, OrderStays DEF Fail
<1>14. CASE Restart
  <2>1. \A q \in Handlers : Fine(q)
    BY <1>14 DEF Restart
  <2> QED
    BY <1>14, <2>1, OrderStays DEF Restart
<1>15. CASE UNCHANGED vars
  BY <1>15, <1>s, OrderStays DEF vars
<1> QED
  BY <1>1, <1>2, <1>3, <1>4, <1>5, <1>6, <1>7, <1>8, <1>9, <1>10, <1>11,
     <1>12, <1>13, <1>14, <1>15 DEF Next

-----------------------------------------------------------------------------
\* Nobody starts to listen when requests keep what they are about and browsers
\* only stop waiting.
LEMMA LinksStay ==
  ASSUME IInv,
         \A q \in Handlers :
           \/ h'[q] = h[q]
           \/ h'[q].client = None
           \/ /\ h'[q].client = h[q].client /\ h'[q].share = h[q].share
              /\ \/ /\ h[q].at \in {"generation", "key", "share", "stage"}
                    /\ h'[q].at \in {"generation", "key", "share", "stage"}
                 \/ /\ h[q].at \notin {"generation", "key", "share", "stage"}
                    /\ h'[q].at \notin {"generation", "key", "share", "stage"},
         \A c \in Clients : w'[c] = w[c] \/ w'[c].request = None
  PROVE  Linked'
<1> SUFFICES ASSUME NEW q \in Handlers, Listens(q)'
             PROVE  IF h'[q].at \in {"generation", "key", "share", "stage"}
                    THEN w'[h'[q].client].at = "asking"
                    ELSE /\ w'[h'[q].client].at = "committing"
                         /\ w'[h'[q].client].share = h'[q].share
  BY DEF Linked
<1>1. h'[q].client = h[q].client /\ h[q].client # None
  BY DEF Listens
<1>2. h[q].client \in Clients
  BY <1>1, Kinds DEF IInv
<1>3. w'[h[q].client] = w[h[q].client]
  BY <1>1, <1>2, RecoveryAssumption DEF Listens
<1>4. Listens(q)
  BY <1>1, <1>3 DEF Listens
<1> QED
  BY <1>1, <1>3, <1>4 DEF IInv, Linked, Listens

\* A browser that begins to wait for an idle request is the only one it hears.
LEMMA LinkMade ==
  ASSUME IInv, NEW r \in Handlers, NEW c \in Clients,
         NEW a, NEW b, a.client = c, b.request = r,
         h' = [h EXCEPT ![r] = a], w' = [w EXCEPT ![c] = b],
         IF a.at \in {"generation", "key", "share", "stage"}
         THEN b.at = "asking"
         ELSE b.at = "committing" /\ b.share = a.share
  PROVE  Linked'
<1> SUFFICES ASSUME NEW q \in Handlers, Listens(q)'
             PROVE  IF h'[q].at \in {"generation", "key", "share", "stage"}
                    THEN w'[h'[q].client].at = "asking"
                    ELSE /\ w'[h'[q].client].at = "committing"
                         /\ w'[h'[q].client].share = h'[q].share
  BY DEF Linked
<1> USE DEF IInv, TypeOK
<1>1. CASE q = r
  BY <1>1
<1>2. CASE q # r
  <2>1. h'[q] = h[q] /\ h[q].client # None
    BY <1>2 DEF Listens
  <2>2. h[q].client \in Clients
    BY <2>1, Kinds
  <2>3. h[q].client # c
    BY <1>2, <2>1, <2>2 DEF Listens
  <2>4. w'[h[q].client] = w[h[q].client]
    BY <2>2, <2>3
  <2>5. Listens(q)
    BY <2>1, <2>4 DEF Listens
  <2> QED
    BY <2>1, <2>4, <2>5 DEF Linked
<1> QED
  BY <1>1, <1>2

\* What a step of a request keeps.
LEMMA StepLinked ==
  ASSUME IInv, [Next]_vars
  PROVE  Linked'
<1>0. TypeOK' /\ TypeOK
  BY StepType DEF IInv
<1> USE <1>0, IdleAway
<1> DEFINE Kept(q) ==
             \/ h'[q] = h[q]
             \/ h'[q].client = None
             \/ /\ h'[q].client = h[q].client /\ h'[q].share = h[q].share
                /\ \/ /\ h[q].at \in {"generation", "key", "share", "stage"}
                      /\ h'[q].at \in {"generation", "key", "share", "stage"}
                   \/ /\ h[q].at \notin {"generation", "key", "share", "stage"}
                      /\ h'[q].at \notin {"generation", "key", "share", "stage"}
           Calm(c) == w'[c] = w[c] \/ w'[c].request = None
<1>r. ASSUME NEW r \in Handlers, h[r].at # "idle", Refuse(r)
      PROVE  (\A q \in Handlers : Kept(q)) /\ (\A c \in Clients : Calm(c))
  BY <1>r, RefuseMoves
<1>c. ASSUME NEW r \in Handlers, h[r].at \in {"take", "mark"}, Confirm(r)
      PROVE  (\A q \in Handlers : Kept(q)) /\ (\A c \in Clients : Calm(c))
  BY <1>c, ConfirmMoves DEF IInv
<1>a. ASSUME NEW r \in Handlers, NEW a, h' = [h EXCEPT ![r] = a], Kept(r)
      PROVE  \A q \in Handlers : Kept(q)
  BY <1>a DEF TypeOK
<1>1. ASSUME NEW r \in Handlers, NEW c \in Clients, NEW k \in kits, Ask(c, r, k)
      PROVE  Linked'
  <2> DEFINE a == [at |-> "generation", client |-> c, kit |-> k.share,
                   generation |-> k.generation, base |-> 0, share |-> None]
             b == [at |-> "asking", share |-> None, generation |-> 0,
                   request |-> r]
  <2>1. /\ h' = [h EXCEPT ![r] = a] /\ w' = [w EXCEPT ![c] = b]
        /\ a.client = c /\ a.at = "generation" /\ b.request = r /\ b.at = "asking"
    BY <1>1 DEF Ask
  <2> HIDE DEF a, b
  <2> QED
    BY <2>1, LinkMade
<1>2. ASSUME NEW r \in Handlers, CheckGeneration(r) PROVE Linked'
  <2>1. CASE h[r].generation \in {version, Legacy}
    <3>1. h[r] \in Asked
      BY <1>2, Kinds DEF CheckGeneration
    <3>2. h'[r].at = "key" /\ h'[r].client = h[r].client /\ h'[r].share = h[r].share
      BY <1>2, <2>1, <3>1 DEF CheckGeneration, TypeOK, Asked
    <3>3. Kept(r)
      BY <1>2, <3>2 DEF CheckGeneration
    <3> QED
      BY <1>2, <1>a, <2>1, <3>3, LinksStay DEF CheckGeneration
  <2>2. CASE h[r].generation \notin {version, Legacy}
    BY <1>2, <1>r, <2>2, LinksStay DEF CheckGeneration
  <2> QED
    BY <2>1, <2>2
<1>3. ASSUME NEW r \in Handlers, LoadKey(r) PROVE Linked'
  <2>1. h[r] \in Asked
    BY <1>3, Kinds DEF LoadKey
  <2>2. h'[r].at = "share" /\ h'[r].client = h[r].client /\ h'[r].share = h[r].share
    BY <1>3, <2>1 DEF LoadKey, TypeOK, Asked
  <2>3. Kept(r)
    BY <1>3, <2>2 DEF LoadKey
  <2> QED
    BY <1>3, <1>a, <2>3, LinksStay DEF LoadKey
<1>4. ASSUME NEW r \in Handlers, LoadShare(r) PROVE Linked'
  <2>1. CASE live = [share |-> h[r].kit, version |-> h[r].generation]
    <3>1. h[r] \in Asked
      BY <1>4, Kinds DEF LoadShare
    <3>2. h'[r].at = "stage" /\ h'[r].client = h[r].client /\ h'[r].share = h[r].share
      BY <1>4, <2>1, <3>1 DEF LoadShare, TypeOK, Asked
    <3>3. Kept(r)
      BY <1>4, <3>2 DEF LoadShare
    <3> QED
      BY <1>4, <1>a, <2>1, <3>3, LinksStay DEF LoadShare
  <2>2. CASE live # [share |-> h[r].kit, version |-> h[r].generation]
    BY <1>4, <1>r, <2>2, LinksStay DEF LoadShare
  <2> QED
    BY <2>1, <2>2
<1>5. ASSUME NEW r \in Handlers, NEW s \in Shares, Stage(r, s) PROVE Linked'
  <2>1. \A c \in Clients : Calm(c)
    BY <1>5 DEF Stage, Answer, TypeOK
  <2>2. \A q \in Handlers : Kept(q)
    BY <1>5 DEF Stage, Answer, TypeOK
  <2> QED
    BY <2>1, <2>2, LinksStay
<1>6. ASSUME NEW r \in Handlers, NEW c \in Clients, Commit(c, r) PROVE Linked'
  <2> DEFINE a == [at |-> "take", client |-> c, kit |-> None, generation |-> 0,
                   base |-> 0, share |-> w[c].share]
             b == [w[c] EXCEPT !.at = "committing", !.request = r]
  <2>0. w[c] \in Holding
    BY <1>6, Kinds DEF Commit
  <2>1. /\ h' = [h EXCEPT ![r] = a] /\ w' = [w EXCEPT ![c] = b]
        /\ a.client = c /\ a.at = "take" /\ b.request = r /\ b.at = "committing"
        /\ b.share = a.share
    BY <1>6, <2>0 DEF Commit, Holding
  <2> HIDE DEF a, b
  <2> QED
    BY <2>1, LinkMade
<1>7. ASSUME NEW r \in Handlers, Take(r) PROVE Linked'
  <2>1. CASE Refuse(r)
    BY <1>7, <1>r, <2>1, LinksStay DEF Take
  <2>2. CASE Confirm(r)
    BY <1>7, <1>c, <2>2, LinksStay DEF Take
  <2>3. ASSUME NEW e \in store, UNCHANGED w,
               h' = [h EXCEPT ![r].at = "bump", ![r].base = e.version - 1]
        PROVE  Linked'
    <3>1. h[r] \in Committing
      BY <1>7, Kinds DEF Take
    <3>2. h'[r].at = "bump" /\ h'[r].client = h[r].client /\ h'[r].share = h[r].share
      BY <2>3, <3>1 DEF TypeOK, Committing
    <3>3. Kept(r)
      BY <1>7, <3>2 DEF Take
    <3>4. \A q \in Handlers : q # r => h'[q] = h[q]
      BY <2>3 DEF TypeOK
    <3>5. \A q \in Handlers : Kept(q)
      BY <3>3, <3>4
    <3> HIDE DEF Kept
    <3>6. \A c \in Clients : Calm(c)
      BY <2>3
    <3> QED
      BY <3>5, <3>6, LinksStay DEF Kept
  <2> QED
    BY <1>7, <2>1, <2>2, <2>3 DEF Take
<1>8. ASSUME NEW r \in Handlers, Bump(r) PROVE Linked'
  <2>1. CASE version = h[r].base
    <3>1. h[r] \in Committing
      BY <1>8, Kinds DEF Bump
    <3>2. h'[r].at = "write" /\ h'[r].client = h[r].client /\ h'[r].share = h[r].share
      BY <1>8, <2>1, <3>1 DEF Bump, TypeOK, Committing
    <3>3. Kept(r)
      BY <1>8, <3>2 DEF Bump
    <3> QED
      BY <1>8, <1>a, <2>1, <3>3, LinksStay DEF Bump
  <2>2. CASE version # h[r].base
    BY <1>8, <1>r, <2>2, LinksStay DEF Bump
  <2> QED
    BY <2>1, <2>2
<1>9. ASSUME NEW r \in Handlers, Write(r) PROVE Linked'
  <2>1. h[r] \in Committing
    BY <1>9, Kinds DEF Write
  <2>2. h'[r].at = "mark" /\ h'[r].client = h[r].client /\ h'[r].share = h[r].share
    BY <1>9, <2>1 DEF Write, TypeOK, Committing
  <2>3. Kept(r)
    BY <1>9, <2>2 DEF Write
  <2> QED
    BY <1>9, <1>a, <2>3, LinksStay DEF Write
<1>10. ASSUME NEW r \in Handlers, Mark(r) PROVE Linked'
  BY <1>10, <1>c, LinksStay DEF Mark
<1>11. ASSUME NEW c \in Clients,
              SaveKit(c) \/ SaveDevice(c) \/ GiveUp(c) \/ Leave(c)
       PROVE  Linked'
  <2>1. h' = h /\ \A d \in Clients : d # c => w'[d] = w[d]
    BY <1>11 DEF SaveKit, SaveDevice, GiveUp, Leave, TypeOK
  <2>2. Calm(c)
    <3>1. CASE w'[c] = Away
      BY <3>1
    <3>2. CASE SaveKit(c) \/ SaveDevice(c)
      <4>1. w[c] \in Holding /\ w[c].request = None
        BY <3>2, Kinds DEF SaveKit, SaveDevice
      <4>2. CASE SaveKit(c)
        BY <4>1, <4>2 DEF SaveKit, TypeOK, Holding
      <4>3. CASE SaveDevice(c)
        BY <4>1, <4>3 DEF SaveDevice, TypeOK, Holding
      <4> QED
        BY <3>2, <4>2, <4>3
    <3>3. CASE GiveUp(c) /\ w[c].at # "asking"
      <4>1. w[c] \in Holding
        BY <3>3, Kinds DEF GiveUp
      <4> QED
        BY <3>3, <4>1 DEF GiveUp, TypeOK, Holding
    <3> QED
      BY <1>11, <3>1, <3>2, <3>3 DEF SaveKit, SaveDevice, GiveUp, Leave, TypeOK
  <2> QED
    BY <2>1, <2>2, LinksStay
<1>12. ASSUME NEW e \in store, Sweep(e) PROVE Linked'
  BY <1>12, LinksStay DEF Sweep
<1>13. ASSUME NEW r \in Handlers, Fail(r) PROVE Linked'
  BY <1>13, <1>r, LinksStay DEF Fail
<1>14. CASE Restart
  BY <1>14, LinksStay DEF Restart
<1>15. CASE UNCHANGED vars
  BY <1>15, LinksStay DEF vars
<1> QED
  BY <1>1, <1>2, <1>3, <1>4, <1>5, <1>6, <1>7, <1>8, <1>9, <1>10, <1>11,
     <1>12, <1>13, <1>14, <1>15 DEF Next

-----------------------------------------------------------------------------
\* Kits stay, so what was downloaded stays downloaded while the live share and
\* its generation do.
LEMMA DownloadsStay ==
  ASSUME IInv, UNCHANGED live, minted'[live.share] = minted[live.share],
         kits \subseteq kits',
         \A c \in Clients :
           \/ w'[c] = w[c]
           \/ w'[c].at \in {"away", "asking", "kit"}
           \/ [share |-> w'[c].share, generation |-> w'[c].generation] \in kits'
           \/ /\ w[c].at \in {"pin", "committing", "confirmed", "saved"}
              /\ w'[c].share = w[c].share /\ w'[c].generation = w[c].generation,
         \A q \in Handlers :
           \/ h'[q] = h[q]
           \/ h'[q].at \notin {"take", "bump", "write", "mark"}
           \/ \E k \in kits : k.share = h'[q].share
           \/ /\ h[q].at \in {"take", "bump", "write", "mark"}
              /\ h'[q].share = h[q].share
  PROVE  Downloaded'
<1> USE DEF IInv, Downloaded
<1>1. \A q \in Handlers : h'[q].at \in {"take", "bump", "write", "mark"} =>
        \E k \in kits : k.share = h'[q].share
  OBVIOUS
<1>2. \A c \in Clients : w'[c].at \in {"pin", "committing", "confirmed", "saved"} =>
        [share |-> w'[c].share, generation |-> w'[c].generation] \in kits'
  OBVIOUS
<1> QED
  BY <1>1, <1>2

LEMMA StepDownloaded ==
  ASSUME IInv, [Next]_vars
  PROVE  Downloaded'
<1>0. TypeOK' /\ TypeOK
  BY StepType DEF IInv
<1> USE <1>0, IdleAway
<1> DEFINE Held(c) ==
             \/ w'[c] = w[c]
             \/ w'[c].at \in {"away", "asking", "kit"}
             \/ [share |-> w'[c].share, generation |-> w'[c].generation] \in kits'
             \/ /\ w[c].at \in {"pin", "committing", "confirmed", "saved"}
                /\ w'[c].share = w[c].share /\ w'[c].generation = w[c].generation
           About(q) ==
             \/ h'[q] = h[q]
             \/ h'[q].at \notin {"take", "bump", "write", "mark"}
             \/ \E k \in kits : k.share = h'[q].share
             \/ /\ h[q].at \in {"take", "bump", "write", "mark"}
                /\ h'[q].share = h[q].share
<1>r. ASSUME NEW r \in Handlers, h[r].at # "idle", Refuse(r)
      PROVE  (\A q \in Handlers : About(q)) /\ (\A c \in Clients : Held(c))
  BY <1>r, RefuseMoves
<1>c. ASSUME NEW r \in Handlers, h[r].at \in {"take", "mark"}, Confirm(r)
      PROVE  (\A q \in Handlers : About(q)) /\ (\A c \in Clients : Held(c))
  BY <1>c, ConfirmMoves DEF IInv
<1>1. ASSUME NEW r \in Handlers, NEW c \in Clients, NEW k \in kits, Ask(c, r, k)
      PROVE  Downloaded'
  <2>1. (\A q \in Handlers : About(q)) /\ (\A d \in Clients : Held(d))
    BY <1>1 DEF Ask, TypeOK
  <2> QED
    BY <1>1, <2>1, DownloadsStay DEF Ask
<1>2. ASSUME NEW r \in Handlers, CheckGeneration(r) PROVE Downloaded'
  <2>1. CASE h[r].generation \in {version, Legacy}
    <3>1. h[r] \in Asked
      BY <1>2, Kinds DEF CheckGeneration
    <3>2. h'[r].at = "key" /\ \A q \in Handlers : q # r => h'[q] = h[q]
      BY <1>2, <2>1, <3>1 DEF CheckGeneration, TypeOK, Asked
    <3> QED
      BY <1>2, <2>1, <3>2, DownloadsStay DEF CheckGeneration
  <2>2. CASE h[r].generation \notin {version, Legacy}
    BY <1>2, <1>r, <2>2, DownloadsStay DEF CheckGeneration
  <2> QED
    BY <2>1, <2>2
<1>3. ASSUME NEW r \in Handlers, LoadKey(r) PROVE Downloaded'
  <2>1. h[r] \in Asked
    BY <1>3, Kinds DEF LoadKey
  <2>2. h'[r].at = "share" /\ \A q \in Handlers : q # r => h'[q] = h[q]
    BY <1>3, <2>1 DEF LoadKey, TypeOK, Asked
  <2> QED
    BY <1>3, <2>2, DownloadsStay DEF LoadKey
<1>4. ASSUME NEW r \in Handlers, LoadShare(r) PROVE Downloaded'
  <2>1. CASE live = [share |-> h[r].kit, version |-> h[r].generation]
    <3>1. h[r] \in Asked
      BY <1>4, Kinds DEF LoadShare
    <3>2. h'[r].at = "stage" /\ \A q \in Handlers : q # r => h'[q] = h[q]
      BY <1>4, <2>1, <3>1 DEF LoadShare, TypeOK, Asked
    <3> QED
      BY <1>4, <2>1, <3>2, DownloadsStay DEF LoadShare
  <2>2. CASE live # [share |-> h[r].kit, version |-> h[r].generation]
    BY <1>4, <1>r, <2>2, DownloadsStay DEF LoadShare
  <2> QED
    BY <2>1, <2>2
<1>5. ASSUME NEW r \in Handlers, NEW s \in Shares, Stage(r, s) PROVE Downloaded'
  <2>1. \A q \in Handlers : About(q)
    BY <1>5 DEF Stage, Answer, TypeOK
  <2>2. \A c \in Clients : Held(c)
    BY <1>5 DEF Stage, Answer, TypeOK
  <2>3. live.share # s
    BY <1>5 DEF Stage, IInv, Downloaded, OneLabel
  <2>4. minted'[live.share] = minted[live.share]
    BY <1>5, <2>3 DEF Stage, TypeOK
  <2> QED
    BY <1>5, <2>1, <2>2, <2>4, DownloadsStay DEF Stage
<1>6. ASSUME NEW r \in Handlers, NEW c \in Clients, Commit(c, r) PROVE Downloaded'
  <2>0. w[c] \in Holding
    BY <1>6, Kinds DEF Commit
  <2>1. \E k \in kits : k.share = w[c].share
    BY <1>6 DEF Commit, IInv, Downloaded
  <2>2. \A q \in Handlers : About(q)
    BY <1>6, <2>1 DEF Commit, TypeOK
  <2>3. \A d \in Clients : Held(d)
    BY <1>6, <2>0 DEF Commit, TypeOK, Holding
  <2> QED
    BY <1>6, <2>2, <2>3, DownloadsStay DEF Commit
<1>7. ASSUME NEW r \in Handlers, Take(r) PROVE Downloaded'
  <2>1. CASE Refuse(r)
    BY <1>7, <1>r, <2>1, DownloadsStay DEF Take
  <2>2. CASE Confirm(r)
    BY <1>7, <1>c, <2>2, DownloadsStay DEF Take
  <2>3. ASSUME NEW e \in store, UNCHANGED w,
               h' = [h EXCEPT ![r].at = "bump", ![r].base = e.version - 1]
        PROVE  Downloaded'
    <3>1. h[r] \in Committing
      BY <1>7, Kinds DEF Take
    <3>2. h'[r].share = h[r].share /\ \A q \in Handlers : q # r => h'[q] = h[q]
      BY <2>3, <3>1 DEF TypeOK, Committing
    <3> QED
      BY <1>7, <2>3, <3>2, DownloadsStay DEF Take
  <2> QED
    BY <1>7, <2>1, <2>2, <2>3 DEF Take
<1>8. ASSUME NEW r \in Handlers, Bump(r) PROVE Downloaded'
  <2>1. CASE version = h[r].base
    <3>1. h[r] \in Committing
      BY <1>8, Kinds DEF Bump
    <3>2. h'[r].share = h[r].share /\ \A q \in Handlers : q # r => h'[q] = h[q]
      BY <1>8, <2>1, <3>1 DEF Bump, TypeOK, Committing
    <3> QED
      BY <1>8, <2>1, <3>2, DownloadsStay DEF Bump
  <2>2. CASE version # h[r].base
    BY <1>8, <1>r, <2>2, DownloadsStay DEF Bump
  <2> QED
    BY <2>1, <2>2
<1>9. ASSUME NEW r \in Handlers, Write(r) PROVE Downloaded'
  <2>1. /\ h[r] \in Committing
        /\ \E k \in kits : k.share = h[r].share
        /\ minted[h[r].share] = h[r].base + 1
    BY <1>9, Kinds DEF Write, IInv, OneLabel, Downloaded
  <2>2. h'[r].share = h[r].share /\ \A q \in Handlers : q # r => h'[q] = h[q]
    BY <1>9, <2>1 DEF Write, TypeOK, Committing
  <2>3. /\ live'.share = h[r].share /\ live'.version = h[r].base + 1
        /\ UNCHANGED <<minted, kits, w>>
    BY <1>9 DEF Write
  <2>4. \A q \in Handlers : h'[q].at \in {"take", "bump", "write", "mark"} =>
          \E k \in kits : k.share = h'[q].share
    BY <2>1, <2>2 DEF IInv, Downloaded
  <2> QED
    BY <2>1, <2>3, <2>4 DEF IInv, Downloaded
<1>10. ASSUME NEW r \in Handlers, Mark(r) PROVE Downloaded'
  BY <1>10, <1>c, DownloadsStay DEF Mark
<1>11. ASSUME NEW c \in Clients,
              SaveKit(c) \/ SaveDevice(c) \/ GiveUp(c) \/ Leave(c)
       PROVE  Downloaded'
  <2>1. /\ UNCHANGED <<live, minted, h>> /\ kits \subseteq kits'
        /\ \A d \in Clients : d # c => w'[d] = w[d]
    BY <1>11 DEF SaveKit, SaveDevice, GiveUp, Leave, TypeOK
  <2>2. Held(c)
    <3>1. CASE w'[c] = Away
      BY <3>1
    <3>2. CASE SaveKit(c)
      <4>1. w[c] \in Holding
        BY <3>2, Kinds DEF SaveKit
      <4> QED
        BY <3>2, <4>1 DEF SaveKit, TypeOK, Holding
    <3>3. CASE SaveDevice(c)
      <4>1. w[c] \in Holding
        BY <3>3, Kinds DEF SaveDevice
      <4> QED
        BY <3>3, <4>1 DEF SaveDevice, TypeOK, Holding
    <3>4. CASE GiveUp(c) /\ w[c].at # "asking"
      <4>1. w[c] \in Holding /\ w[c].at \in {"committing", "confirmed"}
        BY <3>4, Kinds DEF GiveUp
      <4> QED
        BY <3>4, <4>1 DEF GiveUp, TypeOK, Holding
    <3> QED
      BY <1>11, <3>1, <3>2, <3>3, <3>4 DEF GiveUp, Leave, TypeOK
  <2> QED
    BY <2>1, <2>2, DownloadsStay
<1>12. ASSUME NEW e \in store, Sweep(e) PROVE Downloaded'
  BY <1>12, DownloadsStay DEF Sweep
<1>13. ASSUME NEW r \in Handlers, Fail(r) PROVE Downloaded'
  BY <1>13, <1>r, DownloadsStay DEF Fail
<1>14. CASE Restart
  BY <1>14, DownloadsStay DEF Restart
<1>15. CASE UNCHANGED vars
  BY <1>15, DownloadsStay DEF vars
<1> QED
  BY <1>1, <1>2, <1>3, <1>4, <1>5, <1>6, <1>7, <1>8, <1>9, <1>10, <1>11,
     <1>12, <1>13, <1>14, <1>15 DEF Next

-----------------------------------------------------------------------------
\* What was reached stays so while the live share does.
LEMMA CommitsStay ==
  ASSUME IInv, UNCHANGED live,
         \A e \in store' : e.consumed => Reached(e.share, e.version),
         \A q \in Handlers : h'[q] = h[q] \/ h'[q].at # "mark",
         \A c \in Clients :
           \/ w'[c] = w[c]
           \/ w'[c].at \notin {"confirmed", "saved"}
           \/ Reached(w'[c].share, w'[c].generation)
  PROVE  Committed'
  BY DEF IInv, Committed, Reached

LEMMA StepCommitted ==
  ASSUME IInv, [Next]_vars
  PROVE  Committed'
<1>0. TypeOK' /\ TypeOK
  BY StepType DEF IInv
<1> USE <1>0, IdleAway
<1> DEFINE Told(c) ==
             \/ w'[c] = w[c]
             \/ w'[c].at \notin {"confirmed", "saved"}
             \/ Reached(w'[c].share, w'[c].generation)
           Marks(q) == h'[q] = h[q] \/ h'[q].at # "mark"
<1>s. \A e \in store : e.consumed => Reached(e.share, e.version)
  BY DEF IInv, Committed
<1>r. ASSUME NEW r \in Handlers, h[r].at # "idle", Refuse(r)
      PROVE  (\A q \in Handlers : Marks(q)) /\ (\A c \in Clients : Told(c))
  BY <1>r, RefuseMoves
<1>c. ASSUME NEW r \in Handlers, h[r].at \in {"take", "mark"}, Confirm(r),
             NEW g \in Nat, Reached(h[r].share, g), minted[h[r].share] = g
      PROVE  (\A q \in Handlers : Marks(q)) /\ (\A c \in Clients : Told(c))
  <2>1. ASSUME NEW c \in Clients, w'[c] # w[c] PROVE Told(c)
    <3>1. /\ w[c].at = "committing" /\ w[c].share = h[r].share
          /\ w'[c].share = w[c].share /\ w'[c].generation = w[c].generation
      BY <1>c, <2>1, ConfirmMoves DEF IInv
    <3>2. w[c].share # None
      BY <3>1, Kinds
    <3>3. w[c].generation = g
      BY <1>c, <3>1, <3>2 DEF IInv, OneLabel
    <3> QED
      BY <1>c, <3>1, <3>3
  <2> QED
    BY <1>c, <2>1, ConfirmMoves DEF IInv
<1>1. ASSUME NEW r \in Handlers, NEW c \in Clients, NEW k \in kits, Ask(c, r, k)
      PROVE  Committed'
  <2>1. (\A q \in Handlers : Marks(q)) /\ (\A d \in Clients : Told(d))
    BY <1>1 DEF Ask, TypeOK
  <2> QED
    BY <1>1, <1>s, <2>1, CommitsStay DEF Ask
<1>2. ASSUME NEW r \in Handlers, CheckGeneration(r) PROVE Committed'
  <2>1. CASE h[r].generation \in {version, Legacy}
    <3>1. h[r] \in Asked
      BY <1>2, Kinds DEF CheckGeneration
    <3>2. h'[r].at = "key" /\ \A q \in Handlers : q # r => h'[q] = h[q]
      BY <1>2, <2>1, <3>1 DEF CheckGeneration, TypeOK, Asked
    <3> QED
      BY <1>2, <1>s, <2>1, <3>2, CommitsStay DEF CheckGeneration
  <2>2. CASE h[r].generation \notin {version, Legacy}
    BY <1>2, <1>r, <1>s, <2>2, CommitsStay DEF CheckGeneration
  <2> QED
    BY <2>1, <2>2
<1>3. ASSUME NEW r \in Handlers, LoadKey(r) PROVE Committed'
  <2>1. h[r] \in Asked
    BY <1>3, Kinds DEF LoadKey
  <2>2. h'[r].at = "share" /\ \A q \in Handlers : q # r => h'[q] = h[q]
    BY <1>3, <2>1 DEF LoadKey, TypeOK, Asked
  <2> QED
    BY <1>3, <1>s, <2>2, CommitsStay DEF LoadKey
<1>4. ASSUME NEW r \in Handlers, LoadShare(r) PROVE Committed'
  <2>1. CASE live = [share |-> h[r].kit, version |-> h[r].generation]
    <3>1. h[r] \in Asked
      BY <1>4, Kinds DEF LoadShare
    <3>2. h'[r].at = "stage" /\ \A q \in Handlers : q # r => h'[q] = h[q]
      BY <1>4, <2>1, <3>1 DEF LoadShare, TypeOK, Asked
    <3> QED
      BY <1>4, <1>s, <2>1, <3>2, CommitsStay DEF LoadShare
  <2>2. CASE live # [share |-> h[r].kit, version |-> h[r].generation]
    BY <1>4, <1>r, <1>s, <2>2, CommitsStay DEF LoadShare
  <2> QED
    BY <2>1, <2>2
<1>5. ASSUME NEW r \in Handlers, NEW s \in Shares, Stage(r, s) PROVE Committed'
  <2>1. (\A q \in Handlers : Marks(q)) /\ (\A c \in Clients : Told(c))
    BY <1>5 DEF Stage, Answer, TypeOK
  <2>2. \A e \in store' : e.consumed => Reached(e.share, e.version)
    BY <1>5, <1>s DEF Stage, Entry
  <2> QED
    BY <1>5, <2>1, <2>2, CommitsStay DEF Stage
<1>6. ASSUME NEW r \in Handlers, NEW c \in Clients, Commit(c, r) PROVE Committed'
  <2>0. w[c] \in Holding
    BY <1>6, Kinds DEF Commit
  <2>1. (\A q \in Handlers : Marks(q)) /\ (\A d \in Clients : Told(d))
    BY <1>6, <2>0 DEF Commit, TypeOK, Holding
  <2> QED
    BY <1>6, <1>s, <2>1, CommitsStay DEF Commit
<1>7. ASSUME NEW r \in Handlers, Take(r) PROVE Committed'
  <2>1. CASE Refuse(r)
    BY <1>7, <1>r, <1>s, <2>1, CommitsStay DEF Take
  <2>2. ASSUME NEW e \in store, e.share = h[r].share, e.consumed, Confirm(r)
        PROVE  Committed'
    <3>1. Reached(h[r].share, e.version) /\ minted[h[r].share] = e.version
      BY <1>s, <2>2 DEF IInv, OneLabel
    <3>2. e.version \in Nat /\ h[r].at = "take"
      BY <1>7 DEF Take, TypeOK
    <3>3. (\A q \in Handlers : Marks(q)) /\ (\A c \in Clients : Told(c))
      BY <1>c, <2>2, <3>1, <3>2
    <3> QED
      BY <1>7, <1>s, <3>3, CommitsStay DEF Take
  <2>3. ASSUME NEW e \in store, UNCHANGED w,
               h' = [h EXCEPT ![r].at = "bump", ![r].base = e.version - 1]
        PROVE  Committed'
    <3>1. h[r] \in Committing
      BY <1>7, Kinds DEF Take
    <3>2. h'[r].at = "bump" /\ \A q \in Handlers : q # r => h'[q] = h[q]
      BY <2>3, <3>1 DEF TypeOK, Committing
    <3> QED
      BY <1>7, <1>s, <2>3, <3>2, CommitsStay DEF Take
  <2> QED
    BY <1>7, <2>1, <2>2, <2>3 DEF Take
<1>8. ASSUME NEW r \in Handlers, Bump(r) PROVE Committed'
  <2>1. CASE version = h[r].base
    <3>1. h[r] \in Committing
      BY <1>8, Kinds DEF Bump
    <3>2. h'[r].at = "write" /\ \A q \in Handlers : q # r => h'[q] = h[q]
      BY <1>8, <2>1, <3>1 DEF Bump, TypeOK, Committing
    <3> QED
      BY <1>8, <1>s, <2>1, <3>2, CommitsStay DEF Bump
  <2>2. CASE version # h[r].base
    BY <1>8, <1>r, <1>s, <2>2, CommitsStay DEF Bump
  <2> QED
    BY <2>1, <2>2
<1>9. ASSUME NEW r \in Handlers, Write(r) PROVE Committed'
  <2>1. h[r] \in Committing /\ live.version = h[r].base /\ h[r].base \in Nat
    BY <1>9, Kinds DEF Write, IInv, Ordered
  <2>2. /\ h'[r].share = h[r].share /\ h'[r].base = h[r].base
        /\ \A q \in Handlers : q # r => h'[q] = h[q]
        /\ live' = [share |-> h[r].share, version |-> h[r].base + 1]
        /\ UNCHANGED <<store, w>>
    BY <1>9, <2>1 DEF Write, TypeOK, Committing
  <2>3. \A s, g : g \in Nat /\ Reached(s, g) => Reached(s, g)'
    BY <2>1, <2>2 DEF Reached
  <2>4. \A e \in store' : e.consumed => Reached(e.share, e.version)'
    BY <1>s, <2>2, <2>3 DEF TypeOK
  <2>5. \A q \in Handlers : h'[q].at = "mark" => Reached(h[q].share, h[q].base + 1)'
    <3> TAKE q \in Handlers
    <3>1. CASE q = r
      BY <2>2, <3>1 DEF Reached
    <3>2. CASE q # r
      <4>1. h[q].at = "mark" => Reached(h[q].share, h[q].base + 1)
        BY DEF IInv, Committed
      <4>2. h[q].base + 1 \in Nat /\ h'[q] = h[q]
        BY <2>2, <3>2, Kinds
      <4> QED
        BY <2>3, <4>1, <4>2
    <3> QED
      BY <3>1, <3>2
  <2>6. \A c \in Clients : w[c].at \in {"confirmed", "saved"} =>
          Reached(w[c].share, w[c].generation)'
    <3> TAKE c \in Clients
    <3>1. w[c].generation \in Nat
      BY Kinds
    <3> QED
      BY <2>2, <2>3, <3>1 DEF IInv, Committed
  <2> QED
    BY <2>2, <2>4, <2>5, <2>6 DEF Committed
<1>10. ASSUME NEW r \in Handlers, Mark(r) PROVE Committed'
  <2>1. /\ Reached(h[r].share, h[r].base + 1)
        /\ minted[h[r].share] = h[r].base + 1 /\ h[r].base + 1 \in Nat
    BY <1>10, Kinds DEF Mark, IInv, Committed, OneLabel
  <2>2. (\A q \in Handlers : Marks(q)) /\ (\A c \in Clients : Told(c))
    BY <1>10, <1>c, <2>1 DEF Mark
  <2>3. \A e \in store' : e.consumed => Reached(e.share, e.version)
    <3> TAKE e \in store'
    <3>1. PICK f \in store : /\ e.share = f.share /\ e.version = f.version
                             /\ e.consumed => f.consumed \/ e.share = h[r].share
      BY <1>10, Consumption
    <3>2. minted[f.share] = f.version
      BY DEF IInv, OneLabel
    <3> QED
      BY <1>s, <2>1, <3>1, <3>2
  <2> QED
    BY <1>10, <2>2, <2>3, CommitsStay DEF Mark
<1>11. ASSUME NEW c \in Clients,
              SaveKit(c) \/ SaveDevice(c) \/ GiveUp(c) \/ Leave(c)
       PROVE  Committed'
  <2>1. /\ UNCHANGED <<live, store, h>>
        /\ \A d \in Clients : d # c => w'[d] = w[d]
    BY <1>11 DEF SaveKit, SaveDevice, GiveUp, Leave, TypeOK
  <2>2. Told(c)
    <3>1. CASE w'[c] = Away
      BY <3>1
    <3>2. CASE SaveKit(c)
      <4>1. w[c] \in Holding
        BY <3>2, Kinds DEF SaveKit
      <4> QED
        BY <3>2, <4>1 DEF SaveKit, TypeOK, Holding
    <3>3. CASE SaveDevice(c)
      <4>1. w[c] \in Holding /\ Reached(w[c].share, w[c].generation)
        BY <3>3, Kinds DEF SaveDevice, IInv, Committed
      <4> QED
        BY <3>3, <4>1 DEF SaveDevice, TypeOK, Holding
    <3>4. CASE GiveUp(c) /\ w[c].at # "asking"
      <4>1. w[c] \in Holding
        BY <3>4, Kinds DEF GiveUp
      <4> QED
        BY <3>4, <4>1 DEF GiveUp, TypeOK, Holding
    <3> QED
      BY <1>11, <3>1, <3>2, <3>3, <3>4 DEF GiveUp, Leave, TypeOK
  <2> QED
    BY <1>s, <2>1, <2>2, CommitsStay
<1>12. ASSUME NEW e \in store, Sweep(e) PROVE Committed'
  BY <1>12, <1>s, CommitsStay DEF Sweep
<1>13. ASSUME NEW r \in Handlers, Fail(r) PROVE Committed'
  BY <1>13, <1>r, <1>s, CommitsStay DEF Fail
<1>14. CASE Restart
  BY <1>14, CommitsStay DEF Restart
<1>15. CASE UNCHANGED vars
  BY <1>15, <1>s, CommitsStay DEF vars
<1> QED
  BY <1>1, <1>2, <1>3, <1>4, <1>5, <1>6, <1>7, <1>8, <1>9, <1>10, <1>11,
     <1>12, <1>13, <1>14, <1>15 DEF Next

-----------------------------------------------------------------------------
LEMMA StepInv == IInv /\ [Next]_vars => IInv'
  BY StepType, StepLabel, StepOrdered, StepDownloaded, StepCommitted,
     StepLinked DEF IInv

\* The invariant of every recovery: however many browsers and requests there
\* are, and wherever a commit dies, generations advance in order, nothing
\* is committed that was not downloaded and nothing confirmed that was not
\* committed (routes/wallet.ts, recoverStaging.ts).
THEOREM Invariant == Spec => []IInv
  BY InitInv, StepInv, PTL DEF Spec

\* The key, its share, the ceremonies in memory and every request and browser
\* keep their type, for any number of them.
THEOREM TypeCorrect == Spec => []TypeOK
<1>1. IInv => TypeOK
  BY DEF IInv
<1> QED
  BY <1>1, Invariant, PTL

\* The live share is only ever replaced by one of the next generation: the
\* conditional update of wallet.ts:275-279 is enough, torn commits included.
THEOREM LiveShareAdvances == Spec => GenerationsAdvance
<1>1. IInv /\ [Next]_vars => [live' # live => live'.version = live.version + 1]_live
  <2> SUFFICES ASSUME IInv, Next, live' # live
               PROVE  live'.version = live.version + 1
    BY DEF vars
  <2>1. PICK r \in Handlers : Write(r)
    BY DEF Next, Ask, CheckGeneration, LoadKey, LoadShare, Stage, Commit, Take,
           Bump, Mark, SaveKit, SaveDevice, GiveUp, Leave, Sweep, Fail, Restart
  <2> QED
    BY <2>1 DEF Write, IInv, Ordered
<1> QED
  BY <1>1, Invariant, PTL DEF Spec, GenerationsAdvance

\* A device told to keep its share signs with the server share until a later
\* generation is committed.
THEOREM KeptDevicesSign == Spec => []KeptDeviceSigns
<1>1. IInv => KeptDeviceSigns
  BY DEF IInv, Committed, Reached, KeptDeviceSigns
<1> QED
  BY <1>1, Invariant, PTL

\* A downloaded kit recovers the key whenever no commit is between its two
\* statements, unless one died there.
THEOREM KitsRecover == Spec => []Recoverable
<1>1. IInv => Recoverable
  <2> SUFFICES ASSUME IInv, \A r \in Handlers : h[r].at # "write", ~torn
               PROVE  \E k \in kits : Opens(k)
    BY DEF Recoverable
  <2>1. version = live.version
    BY DEF IInv, Ordered
  <2>2. PICK k \in kits : k.share = live.share
    BY DEF IInv, Downloaded
  <2>3. k.generation \in {version, Legacy}
    BY <2>1, <2>2 DEF IInv, OneLabel, Downloaded
  <2>4. live = [share |-> k.share, version |-> version]
    BY <2>1, <2>2 DEF IInv, TypeOK
  <2> QED
    BY <2>3, <2>4 DEF Opens
<1> QED
  BY <1>1, Invariant, PTL
=============================================================================
