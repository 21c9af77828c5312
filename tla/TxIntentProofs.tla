--------------------------- MODULE TxIntentProofs ---------------------------
(* Theorems about TxIntent, for every set of intents, requests and faults. *)
EXTENDS TxIntentInvariant, TLAPS

Row == [status : Status, raw : Nat, txHash : Nat,
        payload : Payloads \cup {None}]
Handler == [at : Steps, intent : Intents \cup {None},
            payload : Payloads \cup {None}, raw : Nat,
            batch : SUBSET (Intents \X Nat)]
Slot == [intent : Intents, state : {"pool", "success", "reverted"}]

\* What TypeOK says of one handler record.
WellPlaced(r) ==
    /\ r \in Handler
    /\ r.at \notin {"idle", "syncRead", "syncVerdicts"} => r.intent \in Intents
    /\ r.at \in {"createExpire", "createInsert", "createReread"} =>
         r.payload \in Payloads

HandlersOK == h \in [Handlers -> Handler] /\ \A p \in Handlers : WellPlaced(h[p])
RowsOK == rows \in [Intents -> Row]
ClockOK == clock \in [Intents -> [past : BOOLEAN, aged : BOOLEAN, stuck : BOOLEAN]]
GrantedOK == granted \in [Intents -> SUBSET Payloads]

LEMMA TypeParts ==
  TypeOK <=> /\ RowsOK /\ ClockOK /\ HandlersOK /\ chain \in Seq(Slot)
             /\ told \subseteq Nat /\ GrantedOK /\ doubted \subseteq Intents
BY DEF TypeOK, RowsOK, ClockOK, HandlersOK, GrantedOK, WellPlaced, Row,
       Handler, Slot

-----------------------------------------------------------------------------
(* The helpers keep types *)

LEMMA PlaceType ==
  ASSUME HandlersOK, NEW p \in Handlers, NEW r, WellPlaced(r),
         h' = [h EXCEPT ![p] = r]
  PROVE  HandlersOK'
BY DEF HandlersOK, WellPlaced

LEMMA GotoType ==
  ASSUME HandlersOK, NEW p \in Handlers, NEW s \in Steps,
         NEW i \in Intents \cup {None}, NEW c \in Payloads \cup {None},
         NEW n \in Nat, Goto(p, s, i, c, n),
         s \notin {"idle", "syncRead", "syncVerdicts"} => i \in Intents,
         s \in {"createExpire", "createInsert", "createReread"} => c \in Payloads
  PROVE  HandlersOK'
<1> DEFINE r == [at |-> s, intent |-> i, payload |-> c, raw |-> n, batch |-> {}]
<1>1. WellPlaced(r)
  BY DEF WellPlaced, Handler
<1>2. h' = [h EXCEPT ![p] = r]
  BY DEF Goto
<1> HIDE DEF r
<1> QED BY <1>1, <1>2 DEF HandlersOK, WellPlaced

LEMMA RestType ==
  ASSUME HandlersOK, NEW p \in Handlers, Rest(p)
  PROVE  HandlersOK'
<1>1. WellPlaced(Idle)
  BY DEF WellPlaced, Handler, Idle, Steps, NoRaw
<1> QED BY <1>1 DEF HandlersOK, Rest, WellPlaced

\* An UPDATE with a row of the right type keeps the table well typed.
LEMMA UpdateType ==
  ASSUME RowsOK, NEW i \in Intents, NEW s, NEW r \in Row, Update(i, s, r)
  PROVE  RowsOK'
BY DEF Update, RowsOK

LEMMA GrantType ==
  ASSUME GrantedOK, NEW i \in Intents, NEW c \in Payloads, Grant(i, c)
  PROVE  GrantedOK'
BY DEF Grant, GrantedOK

LEMMA RowWithStatus ==
  ASSUME RowsOK, NEW i \in Intents, NEW s \in Status
  PROVE  [rows[i] EXCEPT !.status = s] \in Row
BY DEF RowsOK, Row

LEMMA ResetType ==
  ASSUME RowsOK, NEW i \in Intents
  PROVE  Reset(i) \in Row
BY DEF RowsOK, Row, Reset, NoRaw, Status

LEMMA ConcludeType ==
  ASSUME RowsOK, NEW i \in Intents, NEW n, Conclude(i, n)
  PROVE  RowsOK'
<1>1. (IF chain[n].state = "success" THEN "confirmed" ELSE "failed") \in Status
  BY DEF Status
<1> QED BY <1>1, RowWithStatus, UpdateType DEF Conclude

-----------------------------------------------------------------------------
(* Type correctness *)

LEMMA TypeInit == Init => TypeOK
BY IntentAssumption DEF Init, TypeOK, Status, Steps, Idle, NoRaw

\* The code never finds a transaction again that it lost.
LEMMA DoubtStep ==
  ASSUME TypeOK, [Next]_vars
  PROVE  doubted \subseteq doubted' /\ doubted' \subseteq Intents
<1>0. doubted \subseteq Intents /\ HandlersOK
  BY TypeParts
<1>1. ASSUME NEW p \in Handlers, SendLost(p)
      PROVE  doubted \subseteq doubted' /\ doubted' \subseteq Intents
  <2>1. h[p].intent \in Intents
    BY <1>0, <1>1 DEF HandlersOK, WellPlaced, SendLost, SendAccepted
  <2> QED BY <1>0, <1>1, <2>1 DEF SendLost, Loses
<1>2. ASSUME Sweep \/ \E p \in Handlers : SyncFail(p)
      PROVE  doubted \subseteq doubted' /\ doubted' \subseteq Intents
  BY <1>0, <1>2 DEF Sweep, SyncFail, Loses, Stuck
<1>3. ASSUME NEW i \in Intents, Retry(i)
      PROVE  doubted \subseteq doubted' /\ doubted' \subseteq Intents
  BY <1>0, <1>3 DEF Retry, Forgets
<1>4. ASSUME UNCHANGED doubted
      PROVE  doubted \subseteq doubted' /\ doubted' \subseteq Intents
  BY <1>0, <1>4
<1> QED
  BY <1>1, <1>2, <1>3, <1>4
     DEF Next, Continue, CreateInsert, CreateReread, Expire, SignWrite, Send,
         SendRejected, Revert, Record, SyncRead, SyncVerdict, SyncDone, Crash,
         CreateRead, GetStale, SignRead, Claim, CreateRefund, PassExpiry,
         PassTimeout, PassStuck, Patch, Mine, vars

LEMMA TypeStep ==
  ASSUME TypeOK, [Next]_vars
  PROVE  TypeOK'
<1>0. RowsOK /\ ClockOK /\ HandlersOK /\ chain \in Seq(Slot)
      /\ told \subseteq Nat /\ GrantedOK
  BY TypeParts
<1>00. (doubted \subseteq Intents)'
  BY DoubtStep
<1> SUFFICES RowsOK' /\ ClockOK' /\ HandlersOK' /\ (chain \in Seq(Slot))'
             /\ (told \subseteq Nat)' /\ GrantedOK'
  BY <1>00, TypeParts, PTL
<1> USE <1>0
<1>a. \A p \in Handlers : WellPlaced(h[p])
  BY DEF HandlersOK
<1>b. \A i \in Intents : clock[i] \in [past : BOOLEAN, aged : BOOLEAN, stuck : BOOLEAN]
  BY DEF ClockOK
<1>c. \A n \in DOMAIN chain : chain[n] \in Slot /\ n \in Nat
  OBVIOUS
<1>1. ASSUME NEW p \in Handlers, CreateInsert(p)
      PROVE  RowsOK' /\ ClockOK' /\ HandlersOK' /\ chain' = chain
             /\ told' = told /\ GrantedOK'
  <2>1. h[p].intent \in Intents /\ h[p].payload \in Payloads
    BY <1>a, <1>1 DEF CreateInsert, WellPlaced
  <2>2. HandlersOK'
    BY <1>1, <2>1, RestType, GotoType DEF CreateInsert, NoRaw, Steps
  <2>a. [status |-> "pending", raw |-> NoRaw, txHash |-> NoRaw,
         payload |-> h[p].payload] \in Row
    BY <2>1 DEF Row, Status, NoRaw
  <2>3. RowsOK' /\ GrantedOK'
    BY <1>1, <2>1, <2>a DEF CreateInsert, RowsOK, GrantedOK
  <2> QED BY <1>1, <2>2, <2>3 DEF CreateInsert, ClockOK
<1>2. ASSUME NEW p \in Handlers, CreateReread(p)
      PROVE  RowsOK' /\ ClockOK' /\ HandlersOK' /\ chain' = chain
             /\ told' = told /\ GrantedOK'
  <2>1. h[p].intent \in Intents /\ h[p].payload \in Payloads
    BY <1>a, <1>2 DEF CreateReread, WellPlaced
  <2> QED BY <1>2, <2>1, RestType, GrantType DEF CreateReread, RowsOK, ClockOK
<1>3. ASSUME NEW p \in Handlers, Expire(p)
      PROVE  RowsOK' /\ ClockOK' /\ HandlersOK' /\ chain' = chain
             /\ told' = told /\ GrantedOK'
  <2>1. /\ h[p].intent \in Intents
        /\ h[p].at = "createExpire" => h[p].payload \in Payloads
    BY <1>a, <1>3 DEF Expire, WellPlaced
  <2>2. HandlersOK'
    BY <1>3, <2>1, RestType, GotoType DEF Expire, NoRaw, Steps
  <2>3. RowsOK'
    BY <1>3, <2>1, RowWithStatus DEF Expire, RowsOK, Status
  <2> QED BY <1>3, <2>2, <2>3 DEF Expire, ClockOK, GrantedOK
<1>4. ASSUME NEW p \in Handlers, SignWrite(p)
      PROVE  RowsOK' /\ ClockOK' /\ HandlersOK' /\ chain' = chain
             /\ told' = told /\ GrantedOK'
  <2>1. h[p].intent \in Intents /\ h[p].raw \in Nat
    BY <1>a, <1>4 DEF SignWrite, WellPlaced, Handler
  <2> DEFINE r == [rows[h[p].intent] EXCEPT !.status = "signed", !.raw = h[p].raw]
  <2>2. r \in Row
    BY <2>1 DEF RowsOK, Row, Status
  <2>3. Update(h[p].intent, "pending", r)
    BY <1>4 DEF SignWrite
  <2> HIDE DEF r
  <2>4. RowsOK'
    BY <2>1, <2>2, <2>3, UpdateType
  <2> QED BY <1>4, <2>4, RestType DEF SignWrite, ClockOK, GrantedOK
<1>5. ASSUME NEW p \in Handlers, NEW s \in {"record", "revert"}, SendAccepted(p, s)
      PROVE  RowsOK' /\ ClockOK' /\ HandlersOK' /\ (chain \in Seq(Slot))'
             /\ told' = told /\ GrantedOK'
  <2>1. h[p].intent \in Intents
    BY <1>a, <1>5 DEF SendAccepted, WellPlaced
  <2>2. (chain \in Seq(Slot))'
    BY <1>5, <2>1 DEF SendAccepted, Slot
  <2>3. WellPlaced([h[p] EXCEPT !.at = s])
    BY <1>a, <1>5, <2>1 DEF SendAccepted, WellPlaced, Handler, Steps
  <2>4. HandlersOK'
    BY <1>5, <2>3, PlaceType DEF SendAccepted
  <2> QED BY <1>5, <2>2, <2>4 DEF SendAccepted, RowsOK, ClockOK, GrantedOK
<1>6. ASSUME NEW p \in Handlers, SendRejected(p)
      PROVE  RowsOK' /\ ClockOK' /\ HandlersOK' /\ chain' = chain
             /\ told' = told /\ GrantedOK'
  <2>1. WellPlaced([h[p] EXCEPT !.at = "revert"])
    BY <1>a, <1>6 DEF SendRejected, WellPlaced, Handler, Steps
  <2>2. HandlersOK'
    BY <1>6, <2>1, PlaceType DEF SendRejected
  <2> QED BY <1>6, <2>2 DEF SendRejected, RowsOK, ClockOK, GrantedOK
<1>7. ASSUME NEW p \in Handlers, Revert(p)
      PROVE  RowsOK' /\ ClockOK' /\ HandlersOK' /\ chain' = chain
             /\ told' = told /\ GrantedOK'
  <2>1. h[p].intent \in Intents
    BY <1>a, <1>7 DEF Revert, WellPlaced
  <2>2. RowsOK'
    BY <1>7, <2>1, ResetType, UpdateType DEF Revert
  <2> QED BY <1>7, <2>2, RestType DEF Revert, ClockOK, GrantedOK
<1>8. ASSUME NEW p \in Handlers, Record(p)
      PROVE  RowsOK' /\ ClockOK' /\ HandlersOK' /\ chain' = chain
             /\ (told \subseteq Nat)' /\ GrantedOK'
  <2>1. h[p].intent \in Intents /\ h[p].raw \in Nat
    BY <1>a, <1>8 DEF Record, WellPlaced, Handler
  <2> DEFINE r == [rows[h[p].intent] EXCEPT !.status = "broadcasted",
                     !.txHash = h[p].raw, !.raw = NoRaw]
  <2>2. r \in Row
    BY <2>1 DEF RowsOK, Row, Status, NoRaw
  <2>3. Update(h[p].intent, "broadcasting", r)
    BY <1>8 DEF Record
  <2> HIDE DEF r
  <2>4. RowsOK'
    BY <2>1, <2>2, <2>3, UpdateType
  <2>5. (told \subseteq Nat)'
    BY <1>8, <2>1 DEF Record
  <2> QED BY <1>8, <2>4, <2>5, RestType DEF Record, ClockOK, GrantedOK
<1>9. ASSUME NEW p \in Handlers, SyncRead(p) \/ SyncVerdict(p) \/ SyncDone(p)
      PROVE  RowsOK' /\ ClockOK' /\ HandlersOK' /\ chain' = chain
             /\ told' = told /\ GrantedOK'
  <2>1. CASE SyncRead(p)
    <3> DEFINE b == { <<i, rows[i].txHash>> : i \in
                        { j \in Intents : rows[j].status = "broadcasted" } }
    <3>1. b \in SUBSET (Intents \X Nat)
      BY DEF RowsOK, Row
    <3>2. h' = [h EXCEPT ![p].at = "syncVerdicts", ![p].batch = b]
      BY <2>1 DEF SyncRead
    <3> HIDE DEF b
    <3>3. WellPlaced([h[p] EXCEPT !.at = "syncVerdicts", !.batch = b])
      BY <1>a, <3>1 DEF WellPlaced, Handler, Steps
    <3>4. HandlersOK'
      BY <3>2, <3>3, PlaceType
    <3> QED BY <2>1, <3>4 DEF SyncRead, RowsOK, ClockOK, GrantedOK
  <2>2. CASE SyncVerdict(p)
    <3>1. PICK b \in h[p].batch :
            /\ IF chain[b[2]].state # "pool" THEN Conclude(b[1], b[2])
                                             ELSE UNCHANGED rows
            /\ h' = [h EXCEPT ![p].batch = @ \ {b}]
      BY <2>2 DEF SyncVerdict
    <3>2. b[1] \in Intents
      BY <1>a DEF WellPlaced, Handler
    <3>3. HandlersOK'
      BY <3>1 DEF HandlersOK, WellPlaced, Handler
    <3>4. RowsOK'
      BY <3>1, <3>2, ConcludeType DEF RowsOK
    <3> QED BY <2>2, <3>3, <3>4 DEF SyncVerdict, ClockOK, GrantedOK
  <2>3. CASE SyncDone(p)
    BY <2>3, RestType DEF SyncDone, RowsOK, ClockOK, GrantedOK
  <2> QED BY <1>9, <2>1, <2>2, <2>3
<1>10. ASSUME NEW p \in Handlers, SyncFail(p)
       PROVE  RowsOK' /\ ClockOK' /\ HandlersOK' /\ chain' = chain
              /\ told' = told /\ GrantedOK'
  <2>1. \A i \in Intents : [rows[i] EXCEPT !.status = "failed"] \in Row
    BY RowWithStatus DEF Status
  <2>2. RowsOK'
    BY <1>10, <2>1 DEF SyncFail, RowsOK
  <2>3. HandlersOK'
    BY <1>10, GotoType DEF SyncFail, NoRaw, Steps
  <2> QED BY <1>10, <2>2, <2>3 DEF SyncFail, ClockOK, GrantedOK
<1>11. ASSUME NEW p \in Handlers, Crash(p)
       PROVE  RowsOK' /\ ClockOK' /\ HandlersOK' /\ chain' = chain
              /\ told' = told /\ GrantedOK'
  BY <1>11, RestType DEF Crash, RowsOK, ClockOK, GrantedOK
<1>12. ASSUME NEW p \in Handlers, NEW i \in Intents, NEW c \in Payloads,
              CreateRead(p, i, c)
       PROVE  RowsOK' /\ ClockOK' /\ HandlersOK' /\ chain' = chain
              /\ told' = told /\ GrantedOK'
  <2>1. HandlersOK'
    BY <1>12, GotoType DEF CreateRead, NoRaw, Steps, HandlersOK
  <2>2. GrantedOK'
    BY <1>12, GrantType DEF CreateRead, GrantedOK
  <2> QED BY <1>12, <2>1, <2>2 DEF CreateRead, RowsOK, ClockOK
<1>13. ASSUME NEW p \in Handlers, NEW i \in Intents,
              \/ GetStale(p, i)
              \/ \E n \in Nonces : SignRead(p, i, n)
       PROVE  RowsOK' /\ ClockOK' /\ HandlersOK' /\ chain' = chain
              /\ told' = told /\ GrantedOK'
  <2>1. Len(chain) \in Nat
    OBVIOUS
  <2>2. HandlersOK'
    BY <1>13, <2>1, GotoType DEF GetStale, SignRead, Nonces, NoRaw, Steps
  <2> QED BY <1>13, <2>2 DEF GetStale, SignRead, RowsOK, ClockOK, GrantedOK
<1>14. ASSUME NEW p \in Handlers, NEW i \in Intents, Claim(p, i)
       PROVE  RowsOK' /\ ClockOK' /\ HandlersOK' /\ chain' = chain
              /\ told' = told /\ GrantedOK'
  <2>1. rows[i].raw \in Nat
    BY DEF RowsOK, Row
  <2>2. HandlersOK'
    BY <1>14, <2>1, GotoType DEF Claim, NoRaw, Steps
  <2>3. RowsOK' /\ ClockOK'
    BY <1>14, RowWithStatus DEF Claim, RowsOK, ClockOK, Status
  <2> QED BY <1>14, <2>2, <2>3 DEF Claim, GrantedOK
<1>15. ASSUME NEW i \in Intents, CreateRefund(i) \/ Retry(i)
       PROVE  RowsOK' /\ ClockOK' /\ HandlersOK' /\ chain' = chain
              /\ told' = told /\ GrantedOK'
  <2>1. RowsOK'
    BY <1>15, RowWithStatus, ResetType DEF CreateRefund, Retry, RowsOK, Status
  <2> QED BY <1>15, <2>1 DEF CreateRefund, Retry, ClockOK, HandlersOK,
             WellPlaced, GrantedOK
<1>16. ASSUME NEW i \in Intents,
              PassExpiry(i) \/ PassTimeout(i) \/ PassStuck(i)
       PROVE  RowsOK' /\ ClockOK' /\ HandlersOK' /\ chain' = chain
              /\ told' = told /\ GrantedOK'
  <2>1. ClockOK'
    BY <1>16 DEF PassExpiry, PassTimeout, PassStuck, ClockOK
  <2> QED BY <1>16, <2>1 DEF PassExpiry, PassTimeout, PassStuck, RowsOK,
             HandlersOK, WellPlaced, GrantedOK
<1>17. ASSUME NEW n \in DOMAIN chain, Patch(n)
       PROVE  RowsOK' /\ ClockOK' /\ HandlersOK' /\ chain' = chain
              /\ (told \subseteq Nat)' /\ GrantedOK'
  <2>1. chain[n].intent \in Intents
    BY <1>c DEF Slot
  <2>2. RowsOK'
    BY <1>17, <2>1, ConcludeType DEF Patch
  <2> QED BY <1>17, <2>2 DEF Patch, ClockOK, HandlersOK, WellPlaced, GrantedOK
<1>18. ASSUME NEW n \in DOMAIN chain, Mine(n)
       PROVE  RowsOK' /\ ClockOK' /\ HandlersOK' /\ (chain \in Seq(Slot))'
              /\ told' = told /\ GrantedOK'
  <2>1. PICK s \in {"success", "reverted"} : chain' = [chain EXCEPT ![n].state = s]
    BY <1>18 DEF Mine
  <2>2. [chain[n] EXCEPT !.state = s] \in Slot
    BY <1>c DEF Slot
  <2>3. (chain \in Seq(Slot))'
    BY <2>1, <2>2
  <2> QED BY <1>18, <2>3 DEF Mine, RowsOK, ClockOK, HandlersOK, WellPlaced, GrantedOK
<1>19. CASE Sweep
  <2>1. RowsOK'
    BY <1>19, ResetType DEF Sweep, RowsOK
  <2> QED BY <1>19, <2>1 DEF Sweep, ClockOK, HandlersOK, WellPlaced, GrantedOK
<1>20. CASE UNCHANGED vars
  BY <1>20 DEF vars, RowsOK, ClockOK, HandlersOK, WellPlaced, GrantedOK
<1> QED
  BY <1>1, <1>2, <1>3, <1>4, <1>5, <1>6, <1>7, <1>8, <1>9, <1>10, <1>11, <1>12,
     <1>13, <1>14, <1>15, <1>16, <1>17, <1>18, <1>19, <1>20
     DEF Next, Continue, Send, SendLost

\* Every variable keeps its type, and every handler that is about to write an
\* intent names one, under any faults.
THEOREM TypeCorrect == Spec => []TypeOK
<1>1. TypeOK /\ [Next]_vars => TypeOK'
  BY TypeStep
<1> QED BY TypeInit, <1>1, PTL DEF Spec

-----------------------------------------------------------------------------
(* What holds under every fault *)

\* A handler about to sign has the bytes.
BytesInv ==
    /\ SignedHasBytes
    /\ \A p \in Handlers : h[p].at = "signWrite" => h[p].raw # NoRaw

LEMMA ConcludeBytes ==
  ASSUME RowsOK, SignedHasBytes, NEW i \in Intents, NEW n, Conclude(i, n)
  PROVE  SignedHasBytes'
BY DEF Conclude, Update, SignedHasBytes, RowsOK, Row

LEMMA BytesStep ==
  ASSUME TypeOK, BytesInv, [Next]_vars
  PROVE  BytesInv'
<1>0. RowsOK /\ HandlersOK
  BY TypeParts
<1> USE <1>0 DEF BytesInv, SignedHasBytes, RowsOK, Row
<1>a. \A p \in Handlers : h[p] \in Handler /\ WellPlaced(h[p])
  BY DEF HandlersOK, WellPlaced
<1>b. ASSUME NEW i \in Intents, NEW r \in Row, NEW s \in Status, Update(i, s, r),
             r.status \in {"signed", "broadcasting"} => r.raw # NoRaw
      PROVE  SignedHasBytes'
  BY <1>b DEF Update
<1>1. ASSUME NEW p \in Handlers, Continue(p)
      PROVE  BytesInv'
  <2>1. CASE CreateInsert(p) \/ CreateReread(p) \/ Expire(p)
    BY <2>1, <1>a DEF CreateInsert, CreateReread, Expire, Goto, Rest, Idle,
       HandlersOK, WellPlaced
  <2>2. CASE SignWrite(p)
    <3>1. h[p].intent \in Intents /\ h[p].raw \in Nat
      BY <1>a, <2>2 DEF SignWrite, WellPlaced, Handler
    <3> DEFINE r == [rows[h[p].intent] EXCEPT !.status = "signed", !.raw = h[p].raw]
    <3>2. r \in Row /\ r.raw # NoRaw
      BY <2>2, <3>1 DEF SignWrite, Status
    <3>3. Update(h[p].intent, "pending", r)
      BY <2>2 DEF SignWrite
    <3> HIDE DEF r
    <3>4. SignedHasBytes'
      BY <3>1, <3>2, <3>3, <1>b DEF Status
    <3> QED BY <2>2, <3>4 DEF SignWrite, Rest, Idle, HandlersOK
  <2>3. CASE (\E s \in {"record", "revert"} : SendAccepted(p, s)) \/ SendRejected(p)
    BY <2>3, <1>a DEF SendAccepted, SendRejected, HandlersOK, Handler
  <2>4. CASE Revert(p)
    <3>1. h[p].intent \in Intents
      BY <1>a, <2>4 DEF Revert, WellPlaced
    <3>2. Reset(h[p].intent) \in Row /\ Reset(h[p].intent).status = "pending"
      BY <3>1, ResetType DEF Reset
    <3>3. SignedHasBytes'
      BY <2>4, <3>1, <3>2, <1>b DEF Revert, Status
    <3> QED BY <2>4, <3>3 DEF Revert, Rest, Idle, HandlersOK
  <2>5. CASE Record(p)
    <3>1. h[p].intent \in Intents /\ h[p].raw \in Nat
      BY <1>a, <2>5 DEF Record, WellPlaced, Handler
    <3> DEFINE r == [rows[h[p].intent] EXCEPT !.status = "broadcasted",
                       !.txHash = h[p].raw, !.raw = NoRaw]
    <3>2. r \in Row /\ r.status = "broadcasted"
      BY <3>1 DEF Status, NoRaw
    <3>3. Update(h[p].intent, "broadcasting", r)
      BY <2>5 DEF Record
    <3> HIDE DEF r
    <3>4. SignedHasBytes'
      BY <3>1, <3>2, <3>3, <1>b DEF Status
    <3> QED BY <2>5, <3>4 DEF Record, Rest, Idle, HandlersOK
  <2>6. CASE SyncRead(p)
    BY <2>6, <1>a DEF SyncRead, HandlersOK, Handler
  <2>7. CASE SyncVerdict(p)
    <3>1. PICK b \in h[p].batch :
            /\ IF chain[b[2]].state # "pool" THEN Conclude(b[1], b[2])
                                             ELSE UNCHANGED rows
            /\ h' = [h EXCEPT ![p].batch = @ \ {b}]
      BY <2>7 DEF SyncVerdict
    <3>2. b[1] \in Intents
      BY <1>a DEF Handler
    <3>3. SignedHasBytes'
      BY <3>1, <3>2, ConcludeBytes
    <3> QED BY <1>a, <3>1, <3>3 DEF HandlersOK, Handler
  <2>8. CASE SyncDone(p)
    BY <2>8 DEF SyncDone, Rest, Idle, HandlersOK
  <2> QED BY <1>1, <2>1, <2>2, <2>3, <2>4, <2>5, <2>6, <2>7, <2>8
          DEF Continue, Send, SendLost
<1>2. ASSUME NEW p \in Handlers, SyncFail(p) \/ Crash(p)
      PROVE  BytesInv'
  BY <1>2 DEF SyncFail, Crash, Goto, Rest, Idle, HandlersOK
<1>3. ASSUME NEW p \in Handlers, NEW i \in Intents,
             \/ \E c \in Payloads : CreateRead(p, i, c)
             \/ GetStale(p, i)
             \/ Claim(p, i)
      PROVE  BytesInv'
  BY <1>3 DEF CreateRead, GetStale, Claim, Goto, HandlersOK
<1>4. ASSUME NEW p \in Handlers, NEW i \in Intents,
             NEW n \in Nonces, SignRead(p, i, n)
      PROVE  BytesInv'
  BY <1>4, IntentAssumption DEF SignRead, Nonces, Goto, HandlersOK, NoRaw
<1>5. ASSUME NEW i \in Intents, \/ CreateRefund(i) \/ Retry(i) \/ PassExpiry(i)
                                \/ PassTimeout(i) \/ PassStuck(i)
      PROVE  BytesInv'
  BY <1>5 DEF CreateRefund, Retry, PassExpiry, PassTimeout, PassStuck, Reset
<1>6. ASSUME NEW n \in DOMAIN chain, Patch(n) \/ Mine(n)
      PROVE  BytesInv'
  <2>1. chain[n] \in Slot
    BY TypeParts
  <2>2. chain[n].intent \in Intents
    BY <2>1 DEF Slot
  <2> QED BY <1>6, <2>2, ConcludeBytes DEF Patch, Mine
<1>7. CASE Sweep \/ UNCHANGED vars
  <2>1. CASE Sweep
    <3>1. \A i \in Intents : /\ Reset(i).status = "pending"
                             /\ rows'[i] = Reset(i) \/ rows'[i] = rows[i]
      BY <2>1 DEF Sweep, Reset
    <3> QED BY <2>1, <3>1 DEF Sweep
  <2>2. CASE UNCHANGED vars
    BY <2>2 DEF vars
  <2> QED BY <1>7, <2>1, <2>2
<1> QED BY <1>1, <1>2, <1>3, <1>4, <1>5, <1>6, <1>7 DEF Next

\* No interleaving leaves a claimable row without its signed transaction, so
\* the branch of the broadcast handler for that case is dead code.
THEOREM BytesAlwaysThere == Spec => []SignedHasBytes
<1>1. Init => BytesInv
  BY DEF Init, BytesInv, SignedHasBytes, Idle
<1>2. TypeOK /\ BytesInv /\ [Next]_vars => BytesInv'
  BY BytesStep
<1>3. BytesInv => SignedHasBytes
  BY DEF BytesInv
<1> QED BY <1>1, <1>2, <1>3, TypeCorrect, PTL DEF Spec

-----------------------------------------------------------------------------

\* Only a create that found no row grants a payload the row did not have.
GrantInv ==
    /\ NoPayloadSwap
    /\ \A i \in Intents : rows[i].status = "none" =>
         granted[i] = {} /\ rows[i].payload = None

\* A step of anything but an insert leaves payloads, replies and the absence of
\* rows as they are.
LEMMA GrantFrame ==
  ASSUME GrantInv, UNCHANGED granted,
         \A i \in Intents : /\ rows'[i].payload = rows[i].payload
                            /\ rows'[i].status = "none" => rows[i].status = "none"
  PROVE  GrantInv'
BY DEF GrantInv, NoPayloadSwap

\* No UPDATE touches the payload, and none brings a row back to its absence.
LEMMA UpdateFrame ==
  ASSUME RowsOK, NEW i \in Intents, NEW s \in Status, NEW r \in Row, s # "none",
         Update(i, s, r), r.payload = rows[i].payload, r.status # "none"
  PROVE  \A j \in Intents : /\ rows'[j].payload = rows[j].payload
                            /\ rows'[j].status = "none" => rows[j].status = "none"
BY DEF Update, RowsOK

LEMMA ConcludeFrame ==
  ASSUME RowsOK, NEW i \in Intents, NEW n, Conclude(i, n)
  PROVE  \A j \in Intents : /\ rows'[j].payload = rows[j].payload
                            /\ rows'[j].status = "none" => rows[j].status = "none"
BY DEF Conclude, Update, RowsOK, Row

LEMMA GrantStep ==
  ASSUME TypeOK, GrantInv, [Next]_vars
  PROVE  GrantInv'
<1>0. RowsOK /\ HandlersOK /\ GrantedOK
  BY TypeParts
<1> USE <1>0
<1>a. \A p \in Handlers : h[p] \in Handler /\ WellPlaced(h[p])
  BY DEF HandlersOK, WellPlaced
<1>b. ASSUME NEW i \in Intents, NEW c \in Payloads, rows[i].status # "none",
             Grant(i, c), UNCHANGED rows
      PROVE  GrantInv'
  BY <1>b DEF Grant, GrantInv, NoPayloadSwap, GrantedOK
<1>1. ASSUME NEW p \in Handlers, CreateInsert(p)
      PROVE  GrantInv'
  <2>1. h[p].intent \in Intents
    BY <1>a, <1>1 DEF CreateInsert, WellPlaced
  <2> QED BY <1>1, <2>1 DEF CreateInsert, GrantInv, NoPayloadSwap, RowsOK, GrantedOK
<1>2. ASSUME NEW p \in Handlers, CreateReread(p)
      PROVE  GrantInv'
  <2>1. h[p].intent \in Intents /\ h[p].payload \in Payloads
    BY <1>a, <1>2 DEF CreateReread, WellPlaced
  <2>2. CASE rows[h[p].intent].status # "none"
    BY <1>2, <1>b, <2>1, <2>2 DEF CreateReread
  <2>3. CASE rows[h[p].intent].status = "none"
    <3>1. rows[h[p].intent].payload # h[p].payload
      BY <2>1, <2>3, IntentAssumption DEF GrantInv
    <3> QED BY <1>2, <3>1, GrantFrame DEF CreateReread, Grant
  <2> QED BY <2>2, <2>3
<1>3. ASSUME NEW p \in Handlers, NEW i \in Intents, NEW c \in Payloads,
             CreateRead(p, i, c)
      PROVE  GrantInv'
  BY <1>3, <1>b, GrantFrame DEF CreateRead
<1>4. ASSUME NEW p \in Handlers, SignWrite(p) \/ Revert(p) \/ Record(p)
      PROVE  GrantInv'
  <2>1. h[p].intent \in Intents /\ h[p].raw \in Nat
    BY <1>a, <1>4 DEF SignWrite, Revert, Record, WellPlaced, Handler
  <2> DEFINE i == h[p].intent
             signed == [rows[i] EXCEPT !.status = "signed", !.raw = h[p].raw]
             done == [rows[i] EXCEPT !.status = "broadcasted",
                        !.txHash = h[p].raw, !.raw = NoRaw]
  <2>2. /\ signed \in Row /\ signed.payload = rows[i].payload /\ signed.status = "signed"
        /\ done \in Row /\ done.payload = rows[i].payload /\ done.status = "broadcasted"
        /\ Reset(i) \in Row /\ Reset(i).payload = rows[i].payload
        /\ Reset(i).status = "pending"
    BY <2>1 DEF RowsOK, Row, Status, Reset, NoRaw
  <2>3. /\ UNCHANGED granted
        /\ \/ Update(i, "pending", signed)
           \/ Update(i, "broadcasting", done)
           \/ Update(i, "broadcasting", Reset(i))
    BY <1>4 DEF SignWrite, Revert, Record
  <2> HIDE DEF signed, done
  <2>4. "pending" \in Status /\ "broadcasting" \in Status
    BY DEF Status
  <2> QED BY <2>1, <2>2, <2>3, <2>4, UpdateFrame, GrantFrame
<1>5. ASSUME NEW p \in Handlers, SyncVerdict(p)
      PROVE  GrantInv'
  <2>1. PICK b \in h[p].batch : IF chain[b[2]].state # "pool"
                                THEN Conclude(b[1], b[2]) ELSE UNCHANGED rows
    BY <1>5 DEF SyncVerdict
  <2>2. b[1] \in Intents
    BY <1>a DEF Handler
  <2> QED BY <1>5, <2>1, <2>2, ConcludeFrame, GrantFrame DEF SyncVerdict
<1>6. ASSUME NEW n \in DOMAIN chain, Patch(n)
      PROVE  GrantInv'
  <2>1. chain[n] \in Slot
    BY TypeParts
  <2>2. chain[n].intent \in Intents
    BY <2>1 DEF Slot
  <2> QED BY <1>6, <2>2, ConcludeFrame, GrantFrame DEF Patch
<1>7. ASSUME NEW p \in Handlers, Expire(p)
      PROVE  GrantInv'
  <2>1. h[p].intent \in Intents
    BY <1>a, <1>7 DEF Expire, WellPlaced
  <2> QED BY <1>7, <2>1, GrantFrame DEF Expire, RowsOK, Row
<1>8. ASSUME NEW p \in Handlers, NEW i \in Intents, Claim(p, i)
      PROVE  GrantInv'
  BY <1>8, GrantFrame DEF Claim, RowsOK, Row
<1>9. ASSUME NEW i \in Intents, CreateRefund(i)
      PROVE  GrantInv'
  BY <1>9 DEF CreateRefund, RowsOK, Row, GrantInv, NoPayloadSwap
<1>10. ASSUME NEW i \in Intents, Retry(i)
       PROVE  GrantInv'
  BY <1>10, GrantFrame DEF Retry, Reset, RowsOK, Row
<1>11. CASE Sweep
  <2>1. \A i \in Intents : /\ Reset(i).payload = rows[i].payload
                           /\ Reset(i).status = "pending"
    BY DEF Reset, RowsOK, Row
  <2> QED BY <1>11, <2>1, GrantFrame DEF Sweep
<1>12. ASSUME NEW p \in Handlers, SyncFail(p)
       PROVE  GrantInv'
  <2>1. \A i \in Intents : LET r == [rows[i] EXCEPT !.status = "failed"]
                           IN  r.payload = rows[i].payload /\ r.status = "failed"
    BY DEF RowsOK, Row
  <2> QED BY <1>12, <2>1, GrantFrame DEF SyncFail
<1>13. ASSUME UNCHANGED <<rows, granted>>
       PROVE  GrantInv'
  BY <1>13 DEF GrantInv, NoPayloadSwap
<1> QED
  BY <1>1, <1>2, <1>3, <1>4, <1>5, <1>6, <1>7, <1>8, <1>9, <1>10, <1>11, <1>12, <1>13
     DEF Next, Continue, Send, SendLost, SendAccepted, SendRejected, SyncRead, SyncDone,
         Crash, GetStale, SignRead, PassExpiry, PassTimeout, PassStuck, Mine, vars

\* An idempotency key is never answered with a row for another payload, however
\* many creates race on it and whether or not the row has expired.
THEOREM NoSwap == Spec => []NoPayloadSwap
<1>1. Init => GrantInv
  BY DEF Init, GrantInv, NoPayloadSwap
<1>2. TypeOK /\ GrantInv /\ [Next]_vars => GrantInv'
  BY GrantStep
<1>3. GrantInv => NoPayloadSwap
  BY DEF GrantInv
<1> QED BY <1>1, <1>2, <1>3, TypeCorrect, PTL DEF Spec

-----------------------------------------------------------------------------

\* An UPDATE that asks for another status leaves an expired row alone.
LEMMA UpdateKeepsExpired ==
  ASSUME RowsOK, NEW i \in Intents, NEW s, NEW r, s # "expired", Update(i, s, r),
         NEW j \in Intents, rows[j].status = "expired"
  PROVE  rows'[j].status = "expired"
BY DEF Update, RowsOK

LEMMA ExpiredStep ==
  ASSUME TypeOK, [Next]_vars, NEW i \in Intents, rows[i].status = "expired"
  PROVE  rows'[i].status = "expired"
<1>0. RowsOK /\ HandlersOK
  BY TypeParts
<1> USE <1>0
<1>a. \A p \in Handlers : h[p] \in Handler /\ WellPlaced(h[p])
  BY DEF HandlersOK, WellPlaced
<1>1. ASSUME NEW p \in Handlers, SignWrite(p) \/ Revert(p) \/ Record(p)
      PROVE  rows'[i].status = "expired"
  <2>1. h[p].intent \in Intents
    BY <1>a, <1>1 DEF SignWrite, Revert, Record, WellPlaced
  <2> QED BY <1>1, <2>1, UpdateKeepsExpired DEF SignWrite, Revert, Record
<1>2. ASSUME NEW p \in Handlers, SyncVerdict(p)
      PROVE  rows'[i].status = "expired"
  <2>1. PICK b \in h[p].batch : IF chain[b[2]].state # "pool"
                                THEN Conclude(b[1], b[2]) ELSE UNCHANGED rows
    BY <1>2 DEF SyncVerdict
  <2>2. b[1] \in Intents
    BY <1>a DEF Handler
  <2> QED BY <2>1, <2>2, UpdateKeepsExpired DEF Conclude
<1>3. ASSUME NEW n \in DOMAIN chain, Patch(n)
      PROVE  rows'[i].status = "expired"
  <2>1. chain[n] \in Slot
    BY TypeParts
  <2>2. chain[n].intent \in Intents
    BY <2>1 DEF Slot
  <2> QED BY <1>3, <2>2, UpdateKeepsExpired DEF Patch, Conclude
<1>4. ASSUME NEW p \in Handlers, CreateInsert(p) \/ Expire(p)
      PROVE  rows'[i].status = "expired"
  <2>1. h[p].intent \in Intents
    BY <1>a, <1>4 DEF CreateInsert, Expire, WellPlaced
  <2> QED BY <1>4, <2>1 DEF CreateInsert, Expire, RowsOK, Row
<1>5. ASSUME NEW p \in Handlers, SyncFail(p)
      PROVE  rows'[i].status = "expired"
  BY <1>5 DEF SyncFail, TimedOut
<1>6. CASE Sweep
  BY <1>6 DEF Sweep, Stuck
<1>7. ASSUME NEW j \in Intents,
             \/ CreateRefund(j) \/ Retry(j) \/ \E p \in Handlers : Claim(p, j)
      PROVE  rows'[i].status = "expired"
  BY <1>7 DEF CreateRefund, Retry, Claim, RowsOK
<1>8. ASSUME UNCHANGED rows
      PROVE  rows'[i].status = "expired"
  BY <1>8
<1> QED
  BY <1>1, <1>2, <1>3, <1>4, <1>5, <1>6, <1>7, <1>8
     DEF Next, Continue, CreateReread, CreateRead, Send, SendLost, SendAccepted,
         SendRejected, SyncRead, SyncDone, Crash, GetStale, SignRead, PassExpiry,
         PassTimeout, PassStuck, Mine, vars

\* An expired intent is never signed, broadcast or reported again, although the
\* handlers that read it earlier still hold their copy.
THEOREM ExpiryIsFinal == Spec => ExpiredIsFinal
<1>1. TypeOK /\ [Next]_vars =>
        [\A i \in Intents : rows[i].status = "expired" =>
                               rows'[i].status = "expired"]_vars
  BY ExpiredStep
<1> QED BY <1>1, TypeCorrect, PTL DEF Spec, ExpiredIsFinal
-----------------------------------------------------------------------------
(* An intent the code keeps track of is paid at most once: IInv is         *)
(* inductive, and from it the intents implement PaymentOrder.              *)
(* Each step of the proof that Next preserves it is one action; an intent  *)
(* the action does not write is dealt with by SafeFrame.                   *)


\* The handlers that hold i stay where they are, and no other becomes busy.
SameHolders(i) ==
    \A p \in Handlers : Holds(p, i) \/ Busy(p, i)' =>
      /\ h'[p].at = h[p].at
      /\ h'[p].intent = h[p].intent
      /\ h'[p].raw = h[p].raw

SameRow(i) == /\ rows'[i].status = rows[i].status
              /\ rows'[i].txHash = rows[i].txHash

LEMMA SafeFrame ==
  ASSUME NEW i \in Tracked, Safe(i), SameRow(i), clock'[i] = clock[i],
         chain' = chain, SameHolders(i), Verdicts(i)' \subseteq Verdicts(i)
  PROVE  Safe(i)'
<1> USE DEF SameRow, SameHolders
<1>0. Payments(i)' = Payments(i)
  BY DEF Payments
<1>1. BusyKeepsOut(i)'
  BY DEF Safe, BusyKeepsOut, Busy
<1>2. UnpaidWhenSending(i)'
  BY <1>0 DEF Safe, UnpaidWhenSending, Busy
<1>3. PaidIsClosed(i)'
  BY <1>0 DEF Safe, PaidIsClosed, Busy
<1>4. VerdictIsCurrent(i)'
  BY DEF Safe, VerdictIsCurrent
<1>5. ConfirmedIsTrue(i)'
  BY DEF Safe, ConfirmedIsTrue
<1>6. PaidOnce(i)'
  BY <1>0 DEF Safe, PaidOnce
<1> QED BY <1>1, <1>2, <1>3, <1>4, <1>5, <1>6 DEF Safe

\* A row that is not being broadcast and not reported may change among such
\* statuses, as long as nobody awaits a verdict about it.
LEMMA OpenFrame ==
  ASSUME NEW i \in Tracked, Safe(i), clock'[i] = clock[i], chain' = chain,
         rows[i].status \in {"none", "pending", "signed", "failed"},
         rows'[i].status \in {"none", "pending", "signed", "failed"},
         SameHolders(i), Verdicts(i)' = {}
  PROVE  Safe(i)'
<1> USE DEF SameHolders
<1>0. Payments(i)' = Payments(i)
  BY DEF Payments
<1>1. BusyKeepsOut(i)'
  BY DEF Safe, BusyKeepsOut, Busy
<1>2. UnpaidWhenSending(i)'
  BY <1>0 DEF Safe, UnpaidWhenSending, Busy
<1>3. PaidIsClosed(i)'
  BY <1>0 DEF Safe, PaidIsClosed
<1>4. VerdictIsCurrent(i)'
  BY DEF VerdictIsCurrent
<1>5. ConfirmedIsTrue(i)'
  BY DEF ConfirmedIsTrue
<1>6. PaidOnce(i)'
  BY <1>0 DEF Safe, PaidOnce
<1> QED BY <1>1, <1>2, <1>3, <1>4, <1>5, <1>6 DEF Safe

\* A row may expire at any time.
LEMMA ExpiredFrame ==
  ASSUME NEW i \in Tracked, Safe(i), clock'[i] = clock[i], chain' = chain,
         rows'[i].status = "expired",
         \A p \in Handlers : Busy(p, i)' => h'[p] = h[p]
  PROVE  Safe(i)'
<1>0. Payments(i)' = Payments(i)
  BY DEF Payments
<1>1. BusyKeepsOut(i)'
  BY DEF Safe, BusyKeepsOut, Busy
<1>2. UnpaidWhenSending(i)'
  BY <1>0 DEF Safe, UnpaidWhenSending, Busy
<1>3. PaidIsClosed(i)'
  BY <1>0 DEF Safe, PaidIsClosed
<1>4. VerdictIsCurrent(i)'
  BY DEF VerdictIsCurrent
<1>5. ConfirmedIsTrue(i)'
  BY DEF ConfirmedIsTrue
<1>6. PaidOnce(i)'
  BY <1>0 DEF Safe, PaidOnce
<1> QED BY <1>1, <1>2, <1>3, <1>4, <1>5, <1>6 DEF Safe

Settled == {"broadcasted", "confirmed"}

\* Only Record writes a hash, and only a receipt takes a row on from there.
HashesKept ==
    \A i \in Intents : rows'[i].status \in Settled =>
      rows[i].status \in Settled /\ rows'[i].txHash = rows[i].txHash

LEMMA MemoryFrame ==
  ASSUME MemoryIsTrue, told' \subseteq told, HashesKept,
         \A n \in DOMAIN chain : /\ n \in DOMAIN chain'
                                 /\ chain'[n].intent = chain[n].intent,
         \A p \in Handlers :
           /\ h'[p].at = "record" => h[p].at = "record" /\ h'[p].raw = h[p].raw
                                     /\ h'[p].intent = h[p].intent
           /\ h'[p].batch \subseteq h[p].batch
  PROVE  MemoryIsTrue'
BY DEF MemoryIsTrue, HashesKept, Settled

\* An UPDATE to another status than these two keeps the hashes.
LEMMA UpdateKeepsHashes ==
  ASSUME RowsOK, NEW i \in Intents, NEW s, NEW r, r.status \notin Settled,
         Update(i, s, r)
  PROVE  HashesKept
BY DEF Update, RowsOK, HashesKept

\* Goto and Rest put one record in the place of another.
MovesTo(p, r) == h' = [h EXCEPT ![p] = r] /\ r.batch = {}

LEMMA GotoMoves ==
  ASSUME NEW p, NEW s, NEW i, NEW c, NEW n, Goto(p, s, i, c, n)
  PROVE  \E r : MovesTo(p, r) /\ r.at = s /\ r.intent = i /\ r.raw = n
<1> DEFINE r == [at |-> s, intent |-> i, payload |-> c, raw |-> n, batch |-> {}]
<1>1. MovesTo(p, r) /\ r.at = s /\ r.intent = i /\ r.raw = n
  BY DEF Goto, MovesTo
<1> QED BY <1>1

LEMMA RestMoves ==
  ASSUME NEW p, Rest(p)
  PROVE  MovesTo(p, Idle) /\ Idle.at = "idle" /\ Idle.intent = None
BY DEF Rest, Idle, MovesTo

\* A handler that moves without touching anything else, neither giving a row up
\* nor becoming busy.
LEMMA QuietMove ==
  ASSUME HandlersOK, IInv, NEW p \in Handlers, NEW r,
         h' = [h EXCEPT ![p] = r], r.batch \subseteq h[p].batch,
         h[p].at \notin {"expire", "send", "revert", "record"},
         r.at \notin {"send", "revert", "record"},
         UNCHANGED <<chain, told>>, HashesKept
  PROVE  /\ MemoryIsTrue'
         /\ \A i \in Tracked : SameHolders(i) /\ Verdicts(i)' \subseteq Verdicts(i)
<1>0. \A q \in Handlers : h'[q] = IF q = p THEN r ELSE h[q]
  BY DEF HandlersOK
<1>1. MemoryIsTrue'
  BY <1>0, MemoryFrame DEF IInv
<1>2. ASSUME NEW i \in Tracked
      PROVE  SameHolders(i) /\ Verdicts(i)' \subseteq Verdicts(i)
  BY <1>0 DEF SameHolders, Holds, Busy, Verdicts
<1> QED BY <1>1, <1>2

-----------------------------------------------------------------------------
(* One lemma per action of weight *)

LEMMA CreateKeepsIInv ==
  ASSUME TypeOK, IInv, Tracked' \subseteq Tracked, NEW p \in Handlers,
         \/ CreateInsert(p) \/ CreateReread(p)
         \/ \E i \in Intents, c \in Payloads : CreateRead(p, i, c)
  PROVE  IInv'
<1>0. HandlersOK /\ RowsOK
  BY TypeParts
<1>1. ASSUME UNCHANGED h, UNCHANGED <<rows, clock, chain, told>>
      PROVE  IInv'
  BY <1>1 DEF IInv, MemoryIsTrue, Safe, BusyKeepsOut, UnpaidWhenSending,
     PaidIsClosed, VerdictIsCurrent, ConfirmedIsTrue, PaidOnce, Busy, Payments,
     Verdicts
<1>2. ASSUME NEW r, MovesTo(p, r),
             h[p].at \in {"idle", "createInsert", "createReread"},
             r.at \in {"idle", "createExpire", "createInsert", "createReread"},
             UNCHANGED <<clock, chain, told>>,
             \A i \in Intents :
               \/ rows'[i] = rows[i]
               \/ rows[i].status = "none" /\ rows'[i].status = "pending"
      PROVE  IInv'
  <2>0. HashesKept
    BY <1>2 DEF HashesKept, Settled
  <2>1. /\ MemoryIsTrue'
        /\ \A i \in Tracked : SameHolders(i) /\ Verdicts(i)' \subseteq Verdicts(i)
    BY <1>0, <1>2, <2>0, QuietMove DEF MovesTo
  <2>2. ASSUME NEW i \in Tracked
        PROVE  Safe(i)'
    <3>1. CASE rows'[i] = rows[i]
      BY <1>2, <2>1, <3>1, SafeFrame DEF SameRow, IInv
    <3>2. CASE rows[i].status = "none" /\ rows'[i].status = "pending"
      <4>1. Verdicts(i) = {}
        BY <3>2 DEF IInv, Safe, VerdictIsCurrent
      <4> QED BY <1>2, <2>1, <3>2, <4>1, OpenFrame DEF IInv
    <3> QED BY <1>2, <3>1, <3>2 DEF Tracked
  <2> QED BY <2>1, <2>2 DEF IInv
<1>3. CASE CreateReread(p)
  BY <1>2, <1>3, RestMoves DEF CreateReread
<1>4. CASE CreateInsert(p)
  <2>1. \E r : MovesTo(p, r) /\ r.at \in {"idle", "createReread"}
    BY <1>4, GotoMoves, RestMoves DEF CreateInsert
  <2>2. ASSUME NEW i \in Intents
        PROVE  \/ rows'[i] = rows[i]
               \/ rows[i].status = "none" /\ rows'[i].status = "pending"
    BY <1>0, <1>4 DEF CreateInsert, RowsOK
  <2> QED BY <1>2, <1>4, <2>1, <2>2 DEF CreateInsert
<1>5. CASE \E i \in Intents, c \in Payloads : CreateRead(p, i, c)
  <2>1. \/ UNCHANGED h
        \/ \E r : MovesTo(p, r) /\ r.at \in {"createExpire", "createInsert"}
    BY <1>5, GotoMoves DEF CreateRead
  <2> QED BY <1>1, <1>2, <1>5, <2>1 DEF CreateRead
<1> QED BY <1>3, <1>4, <1>5

\* GET, and the first read of sign.
LEMMA ReadKeepsIInv ==
  ASSUME TypeOK, IInv, Tracked' \subseteq Tracked, NEW p \in Handlers, NEW i \in Intents,
         \/ GetStale(p, i)
         \/ \E n \in Nonces : SignRead(p, i, n)
  PROVE  IInv'
<1>1. PICK r : MovesTo(p, r) /\ r.at \in {"expire", "signWrite"}
  BY GotoMoves DEF GetStale, SignRead
<1>2. UNCHANGED <<rows, clock, chain, told>> /\ h[p].at = "idle"
  BY DEF GetStale, SignRead
<1>3. /\ MemoryIsTrue'
      /\ \A j \in Tracked : SameHolders(j) /\ Verdicts(j)' \subseteq Verdicts(j)
  BY <1>1, <1>2, QuietMove, TypeParts DEF MovesTo, HashesKept
<1>4. \A j \in Tracked : Safe(j)'
  BY <1>2, <1>3, SafeFrame DEF SameRow, IInv
<1> QED BY <1>3, <1>4 DEF IInv

LEMMA SignKeepsIInv ==
  ASSUME TypeOK, IInv, Tracked' \subseteq Tracked, NEW p \in Handlers, SignWrite(p)
  PROVE  IInv'
<1>0. HandlersOK /\ RowsOK
  BY TypeParts
<1> DEFINE i == h[p].intent
<1>1. i \in Intents
  BY <1>0 DEF HandlersOK, WellPlaced, SignWrite
<1>a. HashesKept
  <2> DEFINE r == [rows[i] EXCEPT !.status = "signed", !.raw = h[p].raw]
  <2>1. r.status = "signed" /\ Update(i, "pending", r)
    BY <1>0, <1>1 DEF SignWrite, RowsOK, Row
  <2> HIDE DEF r, i
  <2> QED BY <1>0, <1>1, <2>1, UpdateKeepsHashes DEF Settled
<1>2. /\ MemoryIsTrue'
      /\ \A j \in Tracked : SameHolders(j) /\ Verdicts(j)' \subseteq Verdicts(j)
  BY <1>0, <1>a, QuietMove, RestMoves DEF SignWrite, MovesTo
<1>3. ASSUME NEW j \in Tracked
      PROVE  Safe(j)'
  <2>1. CASE rows'[j] = rows[j]
    BY <1>2, <2>1, SafeFrame DEF SameRow, IInv, SignWrite
  <2>2. CASE rows[j].status = "pending" /\ rows'[j].status = "signed"
    <3>1. Verdicts(j) = {}
      BY <2>2 DEF IInv, Safe, VerdictIsCurrent
    <3> QED BY <1>2, <2>2, <3>1, OpenFrame DEF IInv, SignWrite
  <2>3. \/ rows'[j] = rows[j]
        \/ rows[j].status = "pending" /\ rows'[j].status = "signed"
    <3>1. rows[i] \in Row /\ j \in Intents
      BY <1>0, <1>1 DEF RowsOK, Tracked
    <3> DEFINE r == [rows[i] EXCEPT !.status = "signed", !.raw = h[p].raw]
    <3>2. r.status = "signed"
      BY <3>1 DEF Row
    <3>3. Update(i, "pending", r)
      BY DEF SignWrite
    <3> HIDE DEF i, r
    <3> QED BY <1>0, <1>1, <3>1, <3>2, <3>3 DEF Update, RowsOK
  <2> QED BY <2>1, <2>2, <2>3
<1> QED BY <1>2, <1>3 DEF IInv

LEMMA ExpireKeepsIInv ==
  ASSUME TypeOK, IInv, Tracked' \subseteq Tracked, NEW p \in Handlers, Expire(p)
  PROVE  IInv'
<1>0. HandlersOK /\ RowsOK
  BY TypeParts
<1> DEFINE i == h[p].intent
<1>1. i \in Intents
  BY <1>0 DEF HandlersOK, WellPlaced, Expire
<1>2. PICK r : MovesTo(p, r) /\ r.at \in {"idle", "createInsert"}
  BY GotoMoves, RestMoves DEF Expire
<1>3. \A q \in Handlers : h'[q] = IF q = p THEN r ELSE h[q]
  BY <1>0, <1>2 DEF HandlersOK, MovesTo
<1>5. rows'[i].status = "expired" /\ \A j \in Intents \ {i} : rows'[j] = rows[j]
  BY <1>0, <1>1 DEF Expire, RowsOK, Row
<1>a. HashesKept
  BY <1>5 DEF HashesKept, Settled
<1>4. MemoryIsTrue'
  BY <1>2, <1>3, <1>a, MemoryFrame DEF IInv, Expire, MovesTo
<1>6. ASSUME NEW j \in Tracked
      PROVE  Safe(j)'
  <2>1. CASE j = i
    BY <1>2, <1>3, <1>5, <2>1, ExpiredFrame DEF IInv, Expire, Busy
  <2>2. CASE j # i
    <3>1. SameHolders(j) /\ Verdicts(j)' \subseteq Verdicts(j)
      BY <1>2, <1>3, <2>2 DEF SameHolders, Holds, Busy, Verdicts, Expire, MovesTo
    <3>2. SameRow(j)
      BY <1>5, <2>2 DEF SameRow, Tracked
    <3> QED BY <3>1, <3>2, SafeFrame DEF IInv, Expire
  <2> QED BY <2>1, <2>2
<1> QED BY <1>4, <1>6 DEF IInv

LEMMA ClaimKeepsIInv ==
  ASSUME TypeOK, IInv, Tracked' \subseteq Tracked, NEW p \in Handlers, NEW i \in Intents, Claim(p, i)
  PROVE  IInv'
<1>0. HandlersOK /\ RowsOK /\ ClockOK
  BY TypeParts
<1>1. PICK r : /\ MovesTo(p, r) /\ r.intent = i
               /\ r.at = IF clock[i].past THEN "expire" ELSE "send"
  BY GotoMoves DEF Claim
<1>2. \A q \in Handlers : h'[q] = IF q = p THEN r ELSE h[q]
  BY <1>0, <1>1 DEF HandlersOK, MovesTo
<1>3. h[p].at = "idle" /\ chain' = chain /\ told' = told
  BY DEF Claim
<1>a. HashesKept
  BY <1>0 DEF Claim, RowsOK, Row, HashesKept, Settled
<1>4. MemoryIsTrue'
  BY <1>1, <1>2, <1>3, <1>a, MemoryFrame DEF IInv, MovesTo
<1>5. \A j \in Intents \ {i} : rows'[j] = rows[j] /\ clock'[j] = clock[j]
  BY <1>0 DEF Claim, RowsOK, ClockOK
<1>6. /\ rows[i].status = "signed" /\ rows'[i].status = "broadcasting"
      /\ clock'[i].past = clock[i].past /\ clock'[i].aged = clock[i].aged
      /\ clock'[i].stuck = FALSE
  BY <1>0 DEF Claim, RowsOK, Row, ClockOK
<1>7. \A j \in Tracked : Verdicts(j)' \subseteq Verdicts(j)
  BY <1>1, <1>2, <1>3 DEF Verdicts, MovesTo
<1>8. ASSUME NEW j \in Tracked, j # i
      PROVE  Safe(j)'
  <2>1. SameHolders(j)
    BY <1>1, <1>2, <1>3, <1>8 DEF SameHolders, Holds, Busy
  <2> QED BY <1>3, <1>5, <1>7, <1>8, <2>1, SafeFrame DEF IInv, SameRow, Tracked
<1>9. ASSUME i \in Tracked
      PROVE  Safe(i)'
  <2>0. Safe(i)
    BY <1>9 DEF IInv
  <2>a. Payments(i)' = Payments(i)
    BY <1>3 DEF Payments
  <2>b. Payments(i) # {} => clock[i].past
    BY <1>6, <2>0 DEF Safe, PaidIsClosed
  <2>c. \A q \in Handlers : Busy(q, i) => clock[i].past
    BY <1>6, <2>0 DEF Safe, BusyKeepsOut
  <2>1. BusyKeepsOut(i)'
    BY <1>1, <1>2, <1>6, <2>0, <2>c DEF Safe, BusyKeepsOut, Busy
  <2>2. UnpaidWhenSending(i)'
    BY <1>1, <1>2, <1>6, <2>0, <2>a, <2>b DEF Safe, UnpaidWhenSending, Busy
  <2>3. PaidIsClosed(i)'
    BY <1>6, <2>a, <2>b DEF PaidIsClosed
  <2>4. VerdictIsCurrent(i)'
    BY <1>6, <1>7, <1>9, <2>0 DEF Safe, VerdictIsCurrent
  <2>5. ConfirmedIsTrue(i)'
    BY <1>6 DEF ConfirmedIsTrue
  <2>6. PaidOnce(i)'
    BY <2>0, <2>a DEF Safe, PaidOnce
  <2> QED BY <2>1, <2>2, <2>3, <2>4, <2>5, <2>6 DEF Safe
<1> QED BY <1>4, <1>8, <1>9 DEF IInv

\* The node appends the transaction of the handler's intent.
LEMMA ChainGrows ==
  ASSUME TypeOK, NEW p \in Handlers, NEW s, SendAccepted(p, s),
         h[p].intent \in Intents
  PROVE  LET n == Len(chain) + 1
         IN  /\ n \notin DOMAIN chain
             /\ DOMAIN chain' = DOMAIN chain \cup {n}
             /\ \A m \in DOMAIN chain : chain'[m] = chain[m]
             /\ chain'[n].intent = h[p].intent /\ chain'[n].state = "pool"
<1> DEFINE slot == [intent |-> h[p].intent, state |-> "pool"]
<1>1. slot \in Slot /\ slot.intent = h[p].intent /\ slot.state = "pool"
  BY DEF Slot
<1>2. chain' = Append(chain, slot) /\ chain \in Seq(Slot)
  BY TypeParts DEF SendAccepted
<1> HIDE DEF slot
<1> QED BY <1>1, <1>2

\* Nobody awaits a receipt of a hash the node did not have.
LEMMA NewHashUnknown ==
  ASSUME MemoryIsTrue, NEW n, n \notin DOMAIN chain,
         DOMAIN chain' = DOMAIN chain \cup {n},
         \A m \in DOMAIN chain : chain'[m] = chain[m],
         told' = told, \A q \in Handlers : h'[q].batch = h[q].batch, NEW j
  PROVE  Verdicts(j)' = Verdicts(j)
<1>1. told \subseteq DOMAIN chain
  BY DEF MemoryIsTrue
<1>2. ASSUME NEW q \in Handlers, <<j, n>> \in h[q].batch
      PROVE  FALSE
  <2> DEFINE b == <<j, n>>
  <2>1. b[2] = n /\ b \in h[q].batch
    BY <1>2
  <2> HIDE DEF b
  <2> QED BY <2>1 DEF MemoryIsTrue
<1> QED BY <1>1, <1>2 DEF Verdicts

\* A transaction of one intent does not concern another.
LEMMA OtherSendFrame ==
  ASSUME NEW i, NEW j \in Intents, j # i, Safe(j), NEW p \in Handlers,
         rows' = rows, clock' = clock, NEW n,
         DOMAIN chain' = DOMAIN chain \cup {n},
         \A m \in DOMAIN chain : chain'[m] = chain[m], chain'[n].intent = i,
         i = h[p].intent,
         \A q \in Handlers : /\ q # p => h'[q] = h[q]
                             /\ h'[q].intent = h[q].intent,
         Verdicts(j)' = Verdicts(j)
  PROVE  Safe(j)'
<1>a. Payments(j)' = Payments(j)
  BY DEF Payments
<1>b. \A q \in Handlers : h[q].intent = j => h'[q] = h[q]
  OBVIOUS
<1>c. \A q \in Handlers : h'[q].intent = j => h'[q] = h[q]
  OBVIOUS
<1>1. BusyKeepsOut(j)'
  BY <1>c DEF Safe, BusyKeepsOut, Busy
<1>2. UnpaidWhenSending(j)'
  BY <1>a, <1>c DEF Safe, UnpaidWhenSending, Busy
<1>3. PaidIsClosed(j)'
  BY <1>a, <1>c DEF Safe, PaidIsClosed
<1>4. VerdictIsCurrent(j)'
  BY DEF Safe, VerdictIsCurrent
<1>5. ConfirmedIsTrue(j)'
  BY DEF Safe, ConfirmedIsTrue
<1>6. PaidOnce(j)'
  BY <1>a DEF Safe, PaidOnce
<1> QED BY <1>1, <1>2, <1>3, <1>4, <1>5, <1>6 DEF Safe

LEMMA SendKeepsIInv ==
  ASSUME TypeOK, IInv, Tracked' \subseteq Tracked, NEW p \in Handlers, SendAccepted(p, "record")
  PROVE  IInv'
<1>0. HandlersOK /\ chain \in Seq(Slot)
  BY TypeParts
<1> DEFINE i == h[p].intent
           n == Len(chain) + 1
<1>1. /\ i \in Intents /\ h[p].at = "send" /\ h[p].raw = n
      /\ rows' = rows /\ clock' = clock /\ told' = told
  BY <1>0 DEF HandlersOK, WellPlaced, SendAccepted
<1>2. /\ n \notin DOMAIN chain
      /\ DOMAIN chain' = DOMAIN chain \cup {n}
      /\ \A m \in DOMAIN chain : chain'[m] = chain[m]
      /\ chain'[n].intent = i /\ chain'[n].state = "pool"
  BY <1>1, ChainGrows
<1>3. \A q \in Handlers :
        /\ q # p => h'[q] = h[q]
        /\ h'[q].intent = h[q].intent /\ h'[q].raw = h[q].raw
        /\ h'[q].batch = h[q].batch
        /\ q = p => h'[q].at = "record"
  BY <1>0 DEF HandlersOK, Handler, SendAccepted
<1> HIDE DEF n, i
<1>4. MemoryIsTrue'
  BY <1>1, <1>2, <1>3 DEF IInv, MemoryIsTrue, i
<1>5. ASSUME NEW j \in Tracked
      PROVE  Verdicts(j)' = Verdicts(j)
  BY <1>1, <1>2, <1>3, NewHashUnknown DEF IInv
<1>6. ASSUME NEW j \in Tracked
      PROVE  Safe(j)'
  <2>0. Safe(j) /\ j \in Intents
    BY DEF IInv, Tracked
  <2>1. CASE j # i
    BY <1>1, <1>2, <1>3, <1>5, <2>0, <2>1, OtherSendFrame DEF i
  <2>2. CASE j = i
    <3>a. Busy(p, j)
      BY <1>1, <2>2 DEF Busy, i
    <3>b. Payments(j) = {}
      BY <1>1, <2>0, <3>a DEF Safe, UnpaidWhenSending
    <3>c. Payments(j)' = {n}
      BY <1>1, <1>2, <2>2, <3>b DEF Payments
    <3>d. rows[j].status \in {"broadcasting", "expired"} \/ clock[j].past
      BY <2>0, <3>a DEF Safe, BusyKeepsOut
    <3>e. \A q \in Handlers : Busy(q, j)' => q = p
      BY <1>1, <1>3, <2>0, <3>a DEF Safe, BusyKeepsOut, Busy
    <3>1. BusyKeepsOut(j)'
      BY <1>1, <3>d, <3>e DEF BusyKeepsOut
    <3>2. UnpaidWhenSending(j)'
      BY <1>3, <3>e DEF UnpaidWhenSending
    <3>3. PaidIsClosed(j)'
      BY <1>1, <1>3, <3>c, <3>d, <3>e DEF PaidIsClosed, Busy
    <3>4. VerdictIsCurrent(j)'
      BY <1>1, <1>5, <2>0 DEF Safe, VerdictIsCurrent
    <3>5. ConfirmedIsTrue(j)'
      BY <1>1, <1>2, <2>0 DEF Safe, ConfirmedIsTrue
    <3>6. PaidOnce(j)'
      BY <3>c DEF PaidOnce
    <3> QED BY <3>1, <3>2, <3>3, <3>4, <3>5, <3>6 DEF Safe
  <2> QED BY <2>1, <2>2
<1> QED BY <1>4, <1>6 DEF IInv

\* A lost reply: the other intents are not concerned, and this one is doubted
\* unless its TTL is over.
LEMMA LostKeepsIInv ==
  ASSUME TypeOK, IInv, Tracked' \subseteq Tracked, NEW p \in Handlers, SendLost(p)
  PROVE  IInv'
<1>0. HandlersOK /\ chain \in Seq(Slot)
  BY TypeParts
<1> DEFINE i == h[p].intent
           n == Len(chain) + 1
<1>a. SendAccepted(p, "revert") /\ Loses({i})
  BY DEF SendLost
<1>1. /\ i \in Intents /\ h[p].at = "send" /\ h[p].raw = n
      /\ rows' = rows /\ clock' = clock /\ told' = told
  BY <1>0, <1>a DEF HandlersOK, WellPlaced, SendAccepted
<1>2. /\ n \notin DOMAIN chain
      /\ DOMAIN chain' = DOMAIN chain \cup {n}
      /\ \A m \in DOMAIN chain : chain'[m] = chain[m]
      /\ chain'[n].intent = i /\ chain'[n].state = "pool"
  BY <1>a, <1>0, <1>1, ChainGrows
<1>3. \A q \in Handlers :
        /\ q # p => h'[q] = h[q]
        /\ h'[q].intent = h[q].intent /\ h'[q].raw = h[q].raw
        /\ h'[q].batch = h[q].batch
        /\ q = p => h'[q].at = "revert"
  BY <1>a, <1>0 DEF HandlersOK, Handler, SendAccepted
<1> HIDE DEF n, i
<1>4. MemoryIsTrue'
  BY <1>1, <1>2, <1>3 DEF IInv, MemoryIsTrue
<1>5. ASSUME NEW j \in Tracked
      PROVE  Verdicts(j)' = Verdicts(j)
  BY <1>1, <1>2, <1>3, NewHashUnknown DEF IInv
<1>6. ASSUME NEW j \in Tracked, j \in Tracked'
      PROVE  Safe(j)'
  <2>0. Safe(j) /\ j \in Intents
    BY DEF IInv, Tracked
  <2>1. CASE j # i
    BY <1>1, <1>2, <1>3, <1>5, <2>0, <2>1, OtherSendFrame DEF i
  <2>2. CASE j = i
    <3>a. Busy(p, j)
      BY <1>1, <2>2 DEF Busy, i
    <3>b. clock[j].past
      BY <1>6, <1>a, <2>2, <3>a DEF Loses, Tracked
    <3>c. Payments(j) = {}
      BY <1>1, <2>0, <3>a DEF Safe, UnpaidWhenSending
    <3>d. Payments(j)' = {n}
      BY <1>1, <1>2, <2>2, <3>c DEF Payments
    <3>e. \A q \in Handlers : Busy(q, j)' => q = p
      BY <1>1, <1>3, <2>0, <3>a DEF Safe, BusyKeepsOut, Busy
    <3>1. BusyKeepsOut(j)'
      BY <1>1, <3>b, <3>e DEF BusyKeepsOut
    <3>2. UnpaidWhenSending(j)'
      BY <1>1, <1>3, <3>b, <3>e DEF UnpaidWhenSending
    <3>3. PaidIsClosed(j)'
      BY <1>1, <3>b DEF PaidIsClosed
    <3>4. VerdictIsCurrent(j)'
      BY <1>1, <1>5, <2>0 DEF Safe, VerdictIsCurrent
    <3>5. ConfirmedIsTrue(j)'
      BY <1>1, <1>2, <2>0 DEF Safe, ConfirmedIsTrue
    <3>6. PaidOnce(j)'
      BY <3>d DEF PaidOnce
    <3> QED BY <3>1, <3>2, <3>3, <3>4, <3>5, <3>6 DEF Safe
  <2> QED BY <2>1, <2>2
<1> QED BY <1>4, <1>6 DEF IInv

LEMMA RejectKeepsIInv ==
  ASSUME TypeOK, IInv, Tracked' \subseteq Tracked, NEW p \in Handlers, SendRejected(p)
  PROVE  IInv'
<1>0. HandlersOK
  BY TypeParts
<1>1. /\ h[p].at = "send" /\ UNCHANGED <<rows, clock, chain, told>>
      /\ \A q \in Handlers :
           /\ q # p => h'[q] = h[q]
           /\ h'[q].intent = h[q].intent /\ h'[q].raw = h[q].raw
           /\ h'[q].batch = h[q].batch
           /\ q = p => h'[q].at = "revert"
  BY <1>0 DEF HandlersOK, Handler, SendRejected
<1>2. MemoryIsTrue'
  BY <1>1, MemoryFrame DEF IInv, HashesKept
<1>3. ASSUME NEW j \in Tracked
      PROVE  Safe(j)'
  <2>0. Safe(j)
    BY DEF IInv
  <2>a. Payments(j)' = Payments(j) /\ Verdicts(j)' = Verdicts(j)
    BY <1>1 DEF Payments, Verdicts
  <2>b. \A q \in Handlers : /\ Busy(q, j)' <=> Busy(q, j)
                            /\ Holds(q, j)' <=> Holds(q, j)
    BY <1>1 DEF Busy, Holds
  <2>1. BusyKeepsOut(j)'
    BY <1>1, <2>0, <2>b DEF Safe, BusyKeepsOut
  <2>2. UnpaidWhenSending(j)'
    BY <1>1, <2>0, <2>a, <2>b DEF Safe, UnpaidWhenSending, Busy
  <2>3. PaidIsClosed(j)'
    BY <1>1, <2>0, <2>a DEF Safe, PaidIsClosed
  <2>4. VerdictIsCurrent(j)'
    BY <1>1, <2>0, <2>a DEF Safe, VerdictIsCurrent
  <2>5. ConfirmedIsTrue(j)'
    BY <1>1, <2>0 DEF Safe, ConfirmedIsTrue
  <2>6. PaidOnce(j)'
    BY <2>0, <2>a DEF Safe, PaidOnce
  <2> QED BY <2>1, <2>2, <2>3, <2>4, <2>5, <2>6 DEF Safe
<1> QED BY <1>2, <1>3 DEF IInv

LEMMA RevertKeepsIInv ==
  ASSUME TypeOK, IInv, Tracked' \subseteq Tracked, NEW p \in Handlers, Revert(p)
  PROVE  IInv'
<1>0. HandlersOK /\ RowsOK
  BY TypeParts
<1>1. PICK i \in Intents : i = h[p].intent
  BY <1>0 DEF HandlersOK, WellPlaced, Revert
<1>2. /\ h[p].at = "revert" /\ MovesTo(p, Idle) /\ Idle.at = "idle"
      /\ UNCHANGED <<clock, chain, told>>
  BY RestMoves DEF Revert
<1>3. \A q \in Handlers : h'[q] = IF q = p THEN Idle ELSE h[q]
  BY <1>0, <1>2 DEF HandlersOK, MovesTo
<1>a. HashesKept
  <2>1. Reset(i).status = "pending" /\ Update(i, "broadcasting", Reset(i))
    BY <1>0, <1>1 DEF Revert, Reset, RowsOK, Row
  <2> QED BY <1>0, <2>1, UpdateKeepsHashes DEF Settled
<1>4. MemoryIsTrue'
  BY <1>2, <1>3, <1>a, MemoryFrame DEF IInv, MovesTo
<1>5. \A j \in Tracked : Verdicts(j)' \subseteq Verdicts(j)
  BY <1>2, <1>3 DEF Verdicts, MovesTo
<1>6. /\ \A j \in Intents \ {i} : rows'[j] = rows[j]
      /\ IF rows[i].status = "broadcasting" THEN rows'[i].status = "pending"
                                            ELSE rows'[i] = rows[i]
  <2>1. Reset(i).status = "pending" /\ Update(i, "broadcasting", Reset(i))
    BY <1>0, <1>1 DEF Revert, Reset, RowsOK, Row
  <2> QED BY <1>0, <2>1 DEF Update, RowsOK
<1>7. ASSUME NEW j \in Tracked
      PROVE  Safe(j)'
  <2>0. Safe(j) /\ j \in Intents
    BY DEF IInv, Tracked
  <2>a. Payments(j)' = Payments(j)
    BY <1>2 DEF Payments
  <2>b. \A q \in Handlers : Busy(q, j)' => Busy(q, j) /\ q # p /\ h'[q] = h[q]
    BY <1>2, <1>3 DEF Busy
  <2>c. j = i => /\ Payments(j) = {} \/ clock[j].past
                 /\ \A q \in Handlers : ~Busy(q, j)'
    <3>1. j = i => Busy(p, j)
      BY <1>1, <1>2 DEF Busy
    <3> QED BY <1>2, <2>0, <2>b, <3>1 DEF Safe, UnpaidWhenSending, BusyKeepsOut
  <2>d. j # i => /\ rows'[j] = rows[j]
                 /\ \A q \in Handlers : Holds(q, j) => h'[q] = h[q]
    BY <1>1, <1>3, <1>6, <2>0 DEF Holds
  <2>e. rows'[j].status = "broadcasting" => j # i
    BY <1>6
  <2>f. \/ rows'[j] = rows[j]
        \/ j = i /\ rows[j].status = "broadcasting" /\ rows'[j].status = "pending"
    BY <1>6, <2>0
  <2>1. BusyKeepsOut(j)'
    BY <1>2, <2>0, <2>b, <2>c, <2>d DEF Safe, BusyKeepsOut
  <2>2. UnpaidWhenSending(j)'
    BY <1>2, <1>3, <2>0, <2>a, <2>b DEF Safe, UnpaidWhenSending
  <2>3. PaidIsClosed(j)'
    BY <1>2, <2>0, <2>a, <2>b, <2>c, <2>d DEF Safe, PaidIsClosed, Busy
  <2>4. VerdictIsCurrent(j)'
    BY <1>5, <2>0, <2>f DEF Safe, VerdictIsCurrent
  <2>5. ConfirmedIsTrue(j)'
    BY <1>2, <2>0, <2>f DEF Safe, ConfirmedIsTrue
  <2>6. PaidOnce(j)'
    BY <2>0, <2>a DEF Safe, PaidOnce
  <2> QED BY <2>1, <2>2, <2>3, <2>4, <2>5, <2>6 DEF Safe
<1> QED BY <1>4, <1>7 DEF IInv

LEMMA RecordKeepsIInv ==
  ASSUME TypeOK, IInv, Tracked' \subseteq Tracked, NEW p \in Handlers, Record(p)
  PROVE  IInv'
<1>0. HandlersOK /\ RowsOK /\ chain \in Seq(Slot)
  BY TypeParts
<1>1. PICK i \in Intents, n \in Nat : i = h[p].intent /\ n = h[p].raw
  BY <1>0 DEF HandlersOK, WellPlaced, Handler, Record
<1>2. /\ h[p].at = "record" /\ MovesTo(p, Idle) /\ Idle.at = "idle"
      /\ UNCHANGED <<clock, chain>>
  BY RestMoves DEF Record
<1>3. \A q \in Handlers : h'[q] = IF q = p THEN Idle ELSE h[q]
  BY <1>0, <1>2 DEF HandlersOK, MovesTo
<1>4. n \in DOMAIN chain /\ chain[n].intent = i
  BY <1>1, <1>2 DEF IInv, MemoryIsTrue
<1>5. \/ told' = told
      \/ told' = told \cup {n} /\ rows[i].status = "broadcasting"
  BY <1>1 DEF Record
<1>7. /\ \A j \in Intents \ {i} : rows'[j] = rows[j]
      /\ IF rows[i].status = "broadcasting"
         THEN rows'[i].status = "broadcasted" /\ rows'[i].txHash = n
         ELSE rows'[i] = rows[i]
  <2> DEFINE r == [rows[i] EXCEPT !.status = "broadcasted", !.txHash = n,
                                  !.raw = NoRaw]
  <2>1. r.status = "broadcasted" /\ r.txHash = n
    BY <1>0 DEF RowsOK, Row
  <2>2. Update(i, "broadcasting", r)
    BY <1>1 DEF Record
  <2> HIDE DEF r
  <2> QED BY <1>0, <2>1, <2>2 DEF Update, RowsOK
<1>6. MemoryIsTrue'
  <2>1. \A j \in Intents : rows'[j].status \in Settled =>
          \/ rows'[j] = rows[j]
          \/ j = i /\ rows'[j].txHash = n
    BY <1>7
  <2> QED BY <1>2, <1>3, <1>4, <1>5, <2>1 DEF IInv, MemoryIsTrue, MovesTo, Settled
<1>8. ASSUME NEW j \in Tracked
      PROVE  Verdicts(j)' \subseteq Verdicts(j) \cup
               (IF j = i /\ rows[i].status = "broadcasting" THEN {n} ELSE {})
  BY <1>2, <1>3, <1>4, <1>5 DEF Verdicts, MovesTo
<1>9. ASSUME NEW j \in Tracked
      PROVE  Safe(j)'
  <2>0. Safe(j) /\ j \in Intents
    BY DEF IInv, Tracked
  <2>a. Payments(j)' = Payments(j)
    BY <1>2 DEF Payments
  <2>b. \A q \in Handlers : Busy(q, j)' => Busy(q, j) /\ q # p /\ h'[q] = h[q]
    BY <1>2, <1>3 DEF Busy
  <2>c. j = i => \A q \in Handlers : ~Busy(q, j)'
    BY <1>1, <1>2, <2>0, <2>b DEF Safe, BusyKeepsOut, Busy
  <2>d. j # i => /\ rows'[j] = rows[j]
                 /\ \A q \in Handlers : Holds(q, j) => h'[q] = h[q]
    BY <1>1, <1>3, <1>7, <2>0 DEF Holds
  <2>e. CASE j # i \/ rows[j].status # "broadcasting"
    <3>1. rows'[j] = rows[j]
      BY <1>7, <2>0, <2>e
    <3>2. Verdicts(j)' \subseteq Verdicts(j)
      BY <1>8, <2>e
    <3>3. CASE j # i
      <4>1. SameHolders(j)
        BY <2>b, <2>d, <3>3 DEF SameHolders
      <4> QED BY <1>2, <2>0, <3>1, <3>2, <4>1, SafeFrame DEF SameRow
    <3>4. CASE j = i /\ rows[j].status # "broadcasting"
      <4>1. BusyKeepsOut(j)'
        BY <2>c, <3>4 DEF BusyKeepsOut
      <4>2. UnpaidWhenSending(j)'
        BY <2>c, <3>4 DEF UnpaidWhenSending, Busy
      <4>3. PaidIsClosed(j)'
        BY <1>2, <2>0, <2>a, <3>1, <3>4 DEF Safe, PaidIsClosed
      <4>4. VerdictIsCurrent(j)'
        BY <2>0, <3>1, <3>2 DEF Safe, VerdictIsCurrent
      <4>5. ConfirmedIsTrue(j)'
        BY <1>2, <2>0, <3>1 DEF Safe, ConfirmedIsTrue
      <4>6. PaidOnce(j)'
        BY <2>0, <2>a DEF Safe, PaidOnce
      <4> QED BY <4>1, <4>2, <4>3, <4>4, <4>5, <4>6 DEF Safe
    <3> QED BY <2>e, <3>3, <3>4
  <2>f. CASE j = i /\ rows[j].status = "broadcasting"
    <3>0. rows'[j].status = "broadcasted" /\ rows'[j].txHash = n
      BY <1>7, <2>f
    <3>1. BusyKeepsOut(j)'
      BY <2>c, <2>f DEF BusyKeepsOut
    <3>2. UnpaidWhenSending(j)'
      BY <2>c, <2>f DEF UnpaidWhenSending, Busy
    <3>3. PaidIsClosed(j)'
      <4>1. \A m \in Payments(j) : clock[j].past \/ m = n
        BY <1>1, <1>2, <2>0, <2>f DEF Safe, PaidIsClosed, BusyKeepsOut, Busy
      <4> QED BY <1>2, <2>a, <3>0, <4>1 DEF PaidIsClosed
    <3>4. VerdictIsCurrent(j)'
      <4>1. Verdicts(j) = {}
        BY <2>0, <2>f DEF Safe, VerdictIsCurrent
      <4>2. Verdicts(j)' \subseteq {n}
        BY <1>8, <2>f, <4>1
      <4> QED BY <3>0, <4>2 DEF VerdictIsCurrent
    <3>5. ConfirmedIsTrue(j)'
      BY <1>2, <1>4, <2>f, <3>0 DEF ConfirmedIsTrue
    <3>6. PaidOnce(j)'
      BY <2>0, <2>a DEF Safe, PaidOnce
    <3> QED BY <3>1, <3>2, <3>3, <3>4, <3>5, <3>6 DEF Safe
  <2> QED BY <2>e, <2>f
<1> QED BY <1>6, <1>9 DEF IInv

\* A row taken out of "broadcasting" without doubt has no payment, and nobody
\* who could make one; and where one could, it is past its TTL.
LEMMA LostFrame ==
  ASSUME NEW i \in Tracked, Safe(i), clock'[i] = clock[i], chain' = chain,
         rows[i].status = "broadcasting",
         rows'[i].status \in {"pending", "failed"},
         SameHolders(i), Verdicts(i)' \subseteq Verdicts(i),
         clock[i].past \/ (Payments(i) = {} /\ \A p \in Handlers : ~Busy(p, i))
  PROVE  Safe(i)'
<1> USE DEF SameHolders
<1>0. Payments(i)' = Payments(i)
  BY DEF Payments
<1>a. \A p \in Handlers : Busy(p, i)' => Busy(p, i) /\ h'[p].at = h[p].at
  BY DEF Busy
<1>1. BusyKeepsOut(i)'
  BY <1>a DEF Safe, BusyKeepsOut
<1>2. UnpaidWhenSending(i)'
  BY <1>0, <1>a DEF Safe, UnpaidWhenSending
<1>3. PaidIsClosed(i)'
  BY <1>0 DEF PaidIsClosed
<1>4. VerdictIsCurrent(i)'
  BY DEF Safe, VerdictIsCurrent
<1>5. ConfirmedIsTrue(i)'
  BY DEF ConfirmedIsTrue
<1>6. PaidOnce(i)'
  BY <1>0 DEF Safe, PaidOnce
<1> QED BY <1>1, <1>2, <1>3, <1>4, <1>5, <1>6 DEF Safe

LEMMA SyncFailKeepsIInv ==
  ASSUME TypeOK, IInv, Tracked' \subseteq Tracked, NEW p \in Handlers, SyncFail(p)
  PROVE  IInv'
<1>0. HandlersOK /\ RowsOK
  BY TypeParts
<1>1. PICK r : MovesTo(p, r) /\ r.at = "syncRead"
  BY GotoMoves DEF SyncFail
<1>2. h[p].at = "idle" /\ UNCHANGED <<clock, chain, told>>
  BY DEF SyncFail
<1>a. \A j \in Intents : IF TimedOut(j) THEN rows'[j].status = "failed"
                                        ELSE rows'[j] = rows[j]
  <2> SUFFICES ASSUME NEW j \in Intents
               PROVE  IF TimedOut(j) THEN rows'[j].status = "failed"
                                     ELSE rows'[j] = rows[j]
    OBVIOUS
  <2> DEFINE f == [rows[j] EXCEPT !.status = "failed"]
  <2>1. f.status = "failed"
    BY <1>0 DEF RowsOK, Row
  <2>2. rows'[j] = IF TimedOut(j) THEN f ELSE rows[j]
    BY DEF SyncFail
  <2> HIDE DEF f
  <2> QED BY <2>1, <2>2
<1>b. HashesKept
  BY <1>a DEF HashesKept, Settled
<1>3. /\ MemoryIsTrue'
      /\ \A j \in Tracked : SameHolders(j) /\ Verdicts(j)' \subseteq Verdicts(j)
  BY <1>0, <1>1, <1>2, <1>b, QuietMove DEF MovesTo
<1>4. ASSUME NEW j \in Tracked, j \in Tracked'
      PROVE  Safe(j)'
  <2>0. Safe(j) /\ j \in Intents
    BY DEF IInv, Tracked
  <2>1. CASE ~TimedOut(j)
    <3>1. rows'[j] = rows[j]
      BY <1>a, <2>0, <2>1
    <3> QED BY <1>2, <1>3, <2>0, <3>1, SafeFrame DEF SameRow
  <2>2. CASE TimedOut(j)
    <3>1. rows[j].status = "broadcasting" /\ rows'[j].status = "failed"
      BY <1>a, <2>0, <2>2 DEF TimedOut
    <3>2. clock[j].past \/ (Payments(j) = {} /\ \A q \in Handlers : ~Busy(q, j))
      BY <1>4, <2>0, <2>2 DEF SyncFail, Loses, Tracked, TimedOut
    <3> QED BY <1>2, <1>3, <2>0, <3>1, <3>2, LostFrame
  <2> QED BY <2>1, <2>2
<1> QED BY <1>3, <1>4 DEF IInv

LEMMA SyncReadKeepsIInv ==
  ASSUME TypeOK, IInv, Tracked' \subseteq Tracked, NEW p \in Handlers, SyncRead(p)
  PROVE  IInv'
<1>0. HandlersOK /\ RowsOK
  BY TypeParts
<1> DEFINE batch == { <<i, rows[i].txHash>> : i \in
                        { j \in Intents : rows[j].status = "broadcasted" } }
<1>1. /\ h[p].at = "syncRead" /\ UNCHANGED <<rows, clock, chain, told>>
      /\ \A q \in Handlers :
           /\ q # p => h'[q] = h[q]
           /\ q = p => h'[q].at = "syncVerdicts" /\ h'[q].batch = batch
  BY <1>0 DEF HandlersOK, Handler, SyncRead
<1>2. ASSUME NEW i \in Tracked, NEW n, <<i, n>> \in batch
      PROVE  rows[i].status = "broadcasted" /\ rows[i].txHash = n
  BY <1>2
<1>3. ASSUME NEW b \in batch
      PROVE  b[2] \in DOMAIN chain /\ chain[b[2]].intent = b[1]
  <2>1. PICK i \in Intents : b = <<i, rows[i].txHash>> /\ rows[i].status = "broadcasted"
    BY <1>3
  <2> HIDE DEF batch
  <2>2. b[1] = i /\ b[2] = rows[i].txHash
    BY <2>1
  <2> QED BY <2>1, <2>2 DEF IInv, MemoryIsTrue
<1> HIDE DEF batch
<1>4. MemoryIsTrue'
  <2>1. \A q \in Handlers :
          /\ h'[q].at = "record" => h'[q] = h[q]
          /\ h'[q].batch \in {h[q].batch, batch}
    BY <1>1
  <2> QED BY <1>1, <1>3, <2>1 DEF IInv, MemoryIsTrue
<1>5. ASSUME NEW j \in Tracked
      PROVE  Safe(j)'
  <2>0. Safe(j)
    BY DEF IInv
  <2>a. Payments(j)' = Payments(j)
    BY <1>1 DEF Payments
  <2>b. \A q \in Handlers : Busy(q, j)' \/ Holds(q, j) => h'[q] = h[q]
    BY <1>1 DEF Busy, Holds
  <2>c. ASSUME NEW n, n \in Verdicts(j)', n \notin Verdicts(j)
        PROVE  rows[j].status = "broadcasted" /\ rows[j].txHash = n
    <3>1. \E q \in Handlers : <<j, n>> \in h'[q].batch /\ <<j, n>> \notin h[q].batch
      BY <1>1, <2>c DEF Verdicts
    <3>2. <<j, n>> \in batch
      BY <1>1, <3>1
    <3> QED BY <1>2, <3>2
  <2>1. BusyKeepsOut(j)'
    BY <1>1, <2>0, <2>b DEF Safe, BusyKeepsOut, Busy
  <2>2. UnpaidWhenSending(j)'
    BY <1>1, <2>0, <2>a, <2>b DEF Safe, UnpaidWhenSending, Busy
  <2>3. PaidIsClosed(j)'
    BY <1>1, <2>0, <2>a, <2>b DEF Safe, PaidIsClosed, Holds, Busy
  <2>4. VerdictIsCurrent(j)'
    BY <1>1, <2>0, <2>c DEF Safe, VerdictIsCurrent
  <2>5. ConfirmedIsTrue(j)'
    BY <1>1, <2>0 DEF Safe, ConfirmedIsTrue
  <2>6. PaidOnce(j)'
    BY <2>0, <2>a DEF Safe, PaidOnce
  <2> QED BY <2>1, <2>2, <2>3, <2>4, <2>5, <2>6 DEF Safe
<1> QED BY <1>4, <1>5 DEF IInv

\* A verdict writes no hash.
LEMMA ConcludeKeepsHashes ==
  ASSUME RowsOK, NEW i \in Intents, NEW n, Conclude(i, n)
  PROVE  HashesKept
<1> DEFINE s == IF chain[n].state = "success" THEN "confirmed" ELSE "failed"
           r == [rows[i] EXCEPT !.status = s]
<1>1. r.txHash = rows[i].txHash /\ Update(i, "broadcasted", r)
  BY DEF RowsOK, Row, Conclude
<1> HIDE DEF r
<1> QED BY <1>1 DEF Update, RowsOK, HashesKept, Settled

\* A verdict about the hash a row carries settles the row truthfully.
LEMMA ConcludeSafe ==
  ASSUME RowsOK, MemoryIsTrue, NEW i \in Intents, NEW n, Conclude(i, n), NEW j \in Tracked,
         Safe(j), clock' = clock, chain' = chain,
         j = i => n \in Verdicts(j) /\ chain[n].state # "pool",
         chain \in Seq(Slot), SameHolders(j), Verdicts(j)' \subseteq Verdicts(j)
  PROVE  Safe(j)'
<1> DEFINE s == IF chain[n].state = "success" THEN "confirmed" ELSE "failed"
           r == [rows[i] EXCEPT !.status = s]
<1>1. r.status = s /\ r.txHash = rows[i].txHash /\ j \in Intents
  BY DEF RowsOK, Row, Tracked
<1>2. Update(i, "broadcasted", r)
  BY DEF Conclude
<1>3. s \in {"confirmed", "failed"} /\ (s = "confirmed" => chain[n].state = "success")
      /\ (s = "failed" => chain[n].state # "success")
  OBVIOUS
<1> HIDE DEF s, r
<1>4. CASE ~(j = i /\ rows[j].status = "broadcasted")
  <2>1. rows'[j] = rows[j]
    BY <1>1, <1>2, <1>4 DEF Update, RowsOK
  <2> QED BY <2>1, SafeFrame DEF SameRow
<1>5. CASE j = i /\ rows[j].status = "broadcasted"
  <2>0. rows'[j].status = s /\ rows'[j].txHash = rows[j].txHash
    BY <1>1, <1>2, <1>5 DEF Update, RowsOK
  <2>a. n = rows[j].txHash
    BY <1>5 DEF Safe, VerdictIsCurrent
  <2>b. n \in DOMAIN chain /\ chain[n].intent = j
    BY <1>1, <1>5, <2>a DEF MemoryIsTrue
  <2>c. chain[n] \in Slot
    BY <2>b
  <2>d. Payments(j)' = Payments(j)
    BY DEF Payments
  <2>e. s = "failed" => n \notin Payments(j)
    BY <1>3, <1>5, <2>c DEF Payments, Slot
  <2>f. \A q \in Handlers : Busy(q, j)' => Busy(q, j) /\ h'[q].at = h[q].at
    BY DEF SameHolders, Busy
  <2>1. BusyKeepsOut(j)'
    BY <1>5, <2>f DEF Safe, BusyKeepsOut
  <2>2. UnpaidWhenSending(j)'
    BY <2>d, <2>f DEF Safe, UnpaidWhenSending, Busy
  <2>3. PaidIsClosed(j)'
    BY <1>3, <1>5, <2>0, <2>a, <2>d, <2>e DEF Safe, PaidIsClosed
  <2>4. VerdictIsCurrent(j)'
    BY <1>3, <2>0 DEF VerdictIsCurrent
  <2>5. ConfirmedIsTrue(j)'
    BY <1>3, <2>0, <2>a, <2>b DEF ConfirmedIsTrue
  <2>6. PaidOnce(j)'
    BY <2>d DEF Safe, PaidOnce
  <2> QED BY <2>1, <2>2, <2>3, <2>4, <2>5, <2>6 DEF Safe
<1> QED BY <1>4, <1>5

LEMMA VerdictKeepsIInv ==
  ASSUME TypeOK, IInv, Tracked' \subseteq Tracked, NEW p \in Handlers, SyncVerdict(p)
  PROVE  IInv'
<1>0. HandlersOK /\ RowsOK /\ chain \in Seq(Slot)
  BY TypeParts
<1>1. PICK b \in h[p].batch :
        /\ IF chain[b[2]].state # "pool" THEN Conclude(b[1], b[2])
                                         ELSE UNCHANGED rows
        /\ h' = [h EXCEPT ![p].batch = @ \ {b}]
  BY DEF SyncVerdict
<1>2. b \in Intents \X Nat
  BY <1>0 DEF HandlersOK, WellPlaced, Handler
<1>3. PICK i \in Intents, n \in Nat : b = <<i, n>> /\ b[1] = i /\ b[2] = n
  BY <1>2
<1>4. /\ h[p].at = "syncVerdicts" /\ UNCHANGED <<clock, chain, told>>
      /\ \A q \in Handlers :
           /\ q # p => h'[q] = h[q]
           /\ h'[q].at = h[q].at /\ h'[q].batch \subseteq h[q].batch
           /\ h'[q].intent = h[q].intent /\ h'[q].raw = h[q].raw
  BY <1>0, <1>1 DEF HandlersOK, Handler, SyncVerdict
<1>a. HashesKept
  BY <1>0, <1>1, <1>3, ConcludeKeepsHashes DEF HashesKept
<1>5. MemoryIsTrue'
  BY <1>4, <1>a, MemoryFrame DEF IInv
<1>6. ASSUME NEW j \in Tracked
      PROVE  Safe(j)'
  <2>1. Safe(j)
    BY DEF IInv
  <2>2. SameHolders(j) /\ Verdicts(j)' \subseteq Verdicts(j)
    BY <1>4 DEF SameHolders, Verdicts
  <2>3. j = i => n \in Verdicts(j)
    <3>1. j = i => n \in DOMAIN chain
      BY <1>1, <1>3 DEF IInv, MemoryIsTrue
    <3> QED BY <1>1, <1>3, <3>1 DEF Verdicts
  <2>4. CASE chain[n].state # "pool"
    BY <1>0, <1>1, <1>3, <1>4, <2>1, <2>2, <2>3, <2>4, ConcludeSafe DEF IInv
  <2>5. CASE chain[n].state = "pool"
    BY <1>1, <1>3, <1>4, <2>1, <2>2, <2>5, SafeFrame DEF SameRow
  <2> QED BY <2>4, <2>5
<1> QED BY <1>5, <1>6 DEF IInv

LEMMA PatchKeepsIInv ==
  ASSUME TypeOK, IInv, Tracked' \subseteq Tracked, NEW n \in DOMAIN chain, Patch(n)
  PROVE  IInv'
<1>0. RowsOK /\ chain \in Seq(Slot) /\ chain[n] \in Slot
  BY TypeParts
<1>1. chain[n].intent \in Intents
  BY <1>0 DEF Slot
<1>a. HashesKept
  BY <1>0, <1>1, ConcludeKeepsHashes DEF Patch
<1>2. MemoryIsTrue'
  BY <1>a, MemoryFrame DEF IInv, Patch
<1>3. ASSUME NEW j \in Tracked
      PROVE  Safe(j)'
  <2>1. SameHolders(j) /\ Verdicts(j)' \subseteq Verdicts(j)
    BY DEF Patch, SameHolders, Verdicts
  <2>2. j = chain[n].intent => n \in Verdicts(j)
    BY DEF Patch, Verdicts
  <2> QED BY <1>0, <1>1, <2>1, <2>2, ConcludeSafe DEF Patch, IInv
<1> QED BY <1>2, <1>3 DEF IInv

LEMMA SyncDoneKeepsIInv ==
  ASSUME TypeOK, IInv, Tracked' \subseteq Tracked, NEW p \in Handlers, SyncDone(p)
  PROVE  IInv'
<1>1. /\ MovesTo(p, Idle) /\ Idle.at = "idle" /\ h[p].at = "syncVerdicts"
      /\ UNCHANGED <<rows, clock, chain, told>>
  BY RestMoves DEF SyncDone
<1>2. /\ MemoryIsTrue'
      /\ \A j \in Tracked : SameHolders(j) /\ Verdicts(j)' \subseteq Verdicts(j)
  BY <1>1, QuietMove, TypeParts DEF MovesTo, HashesKept
<1>3. \A j \in Tracked : Safe(j)'
  BY <1>1, <1>2, SafeFrame DEF SameRow, IInv
<1> QED BY <1>2, <1>3 DEF IInv

\* Retry opens a failed row only when no verdict about it is under way, or the
\* intent is doubted.
LEMMA RetryKeepsIInv ==
  ASSUME TypeOK, IInv, Tracked' \subseteq Tracked, NEW i \in Intents, Retry(i)
  PROVE  IInv'
<1>0. RowsOK
  BY TypeParts
<1>1. UNCHANGED <<clock, h, chain, told>> /\ rows[i].status = "failed"
  BY DEF Retry
<1>2. rows'[i].status = "pending" /\ \A j \in Intents \ {i} : rows'[j] = rows[j]
  BY <1>0 DEF Retry, Reset, RowsOK, Row
<1>a. HashesKept
  BY <1>2 DEF HashesKept, Settled
<1>3. MemoryIsTrue'
  BY <1>1, <1>a, MemoryFrame DEF IInv
<1>4. ASSUME NEW j \in Tracked, j \in Tracked'
      PROVE  Safe(j)'
  <2>1. SameHolders(j) /\ Verdicts(j)' = Verdicts(j)
    BY <1>1 DEF SameHolders, Verdicts
  <2>2. CASE j = i
    <3>1. Verdicts(i) = {}
      BY <1>4, <2>2 DEF Retry, Forgets, Tracked
    <3> QED BY <1>1, <1>2, <2>1, <2>2, <3>1, OpenFrame DEF IInv
  <2>3. CASE j # i
    BY <1>1, <1>2, <2>1, <2>3, SafeFrame DEF IInv, SameRow, Tracked
  <2> QED BY <2>2, <2>3
<1> QED BY <1>3, <1>4 DEF IInv

LEMMA SweepKeepsIInv ==
  ASSUME TypeOK, IInv, Tracked' \subseteq Tracked, Sweep
  PROVE  IInv'
<1>0. RowsOK
  BY TypeParts
<1>1. UNCHANGED <<clock, h, chain, told>>
  BY DEF Sweep
<1>a. \A j \in Intents : IF j \in Stuck THEN rows'[j].status = "pending"
                                        ELSE rows'[j] = rows[j]
  <2>1. \A j \in Intents : Reset(j).status = "pending"
    BY <1>0 DEF Reset, RowsOK, Row
  <2> QED BY <2>1 DEF Sweep
<1>b. HashesKept
  BY <1>a DEF HashesKept, Settled
<1>2. MemoryIsTrue'
  BY <1>1, <1>b, MemoryFrame DEF IInv
<1>3. ASSUME NEW j \in Tracked, j \in Tracked'
      PROVE  Safe(j)'
  <2>0. Safe(j) /\ j \in Intents
    BY DEF IInv, Tracked
  <2>1. SameHolders(j) /\ Verdicts(j)' = Verdicts(j)
    BY <1>1 DEF SameHolders, Verdicts
  <2>2. CASE j \notin Stuck
    BY <1>1, <1>a, <2>0, <2>1, <2>2, SafeFrame DEF SameRow
  <2>3. CASE j \in Stuck
    <3>1. rows[j].status = "broadcasting" /\ rows'[j].status = "pending"
      BY <1>a, <2>0, <2>3 DEF Stuck
    <3>2. clock[j].past \/ (Payments(j) = {} /\ \A q \in Handlers : ~Busy(q, j))
      BY <1>3, <2>0, <2>3 DEF Sweep, Loses, Tracked
    <3> QED BY <1>1, <2>0, <2>1, <3>1, <3>2, LostFrame
  <2> QED BY <2>2, <2>3
<1> QED BY <1>2, <1>3 DEF IInv

\* A refund approval inserts a row nobody holds.
LEMMA RefundKeepsIInv ==
  ASSUME TypeOK, IInv, Tracked' \subseteq Tracked, NEW i \in Intents, CreateRefund(i)
  PROVE  IInv'
<1>0. RowsOK
  BY TypeParts
<1>1. /\ UNCHANGED <<clock, h, chain, told>>
      /\ rows[i].status = "none" /\ rows'[i].status = "pending"
      /\ \A j \in Intents \ {i} : rows'[j] = rows[j]
  BY <1>0 DEF CreateRefund, RowsOK, Row
<1>2. MemoryIsTrue'
  BY <1>1, MemoryFrame DEF IInv, HashesKept, Settled
<1>3. ASSUME NEW j \in Tracked
      PROVE  Safe(j)'
  <2>0. Safe(j) /\ j \in Intents
    BY DEF IInv, Tracked
  <2>1. SameHolders(j) /\ Verdicts(j)' = Verdicts(j)
    BY <1>1 DEF SameHolders, Verdicts
  <2>2. CASE j = i
    <3>1. Verdicts(j) = {}
      BY <1>1, <2>0, <2>2 DEF Safe, VerdictIsCurrent
    <3> QED BY <1>1, <2>0, <2>1, <2>2, <3>1, OpenFrame
  <2>3. CASE j # i
    BY <1>1, <2>0, <2>1, <2>3, SafeFrame DEF SameRow
  <2> QED BY <2>2, <2>3
<1> QED BY <1>2, <1>3 DEF IInv

\* Time passes: a TTL that has ended stays so.
LEMMA TimeKeepsIInv ==
  ASSUME TypeOK, IInv, Tracked' \subseteq Tracked, NEW i \in Intents,
         PassExpiry(i) \/ PassTimeout(i) \/ PassStuck(i)
  PROVE  IInv'
<1>0. ClockOK
  BY TypeParts
<1>1. UNCHANGED <<rows, h, chain, told>>
  BY DEF PassExpiry, PassTimeout, PassStuck
<1>2. MemoryIsTrue'
  BY <1>1, MemoryFrame DEF IInv, HashesKept
<1>3. ASSUME NEW j \in Tracked
      PROVE  Safe(j)'
  <2>0. Safe(j) /\ j \in Intents
    BY DEF IInv, Tracked
  <2>a. Payments(j)' = Payments(j) /\ Verdicts(j)' = Verdicts(j)
    BY <1>1 DEF Payments, Verdicts
  <2>b. clock[j].past => clock'[j].past
    BY <1>0, <2>0 DEF ClockOK, PassExpiry, PassTimeout, PassStuck
  <2>1. BusyKeepsOut(j)'
    BY <1>1, <2>0, <2>b DEF Safe, BusyKeepsOut, Busy
  <2>2. UnpaidWhenSending(j)'
    BY <1>1, <2>0, <2>a, <2>b DEF Safe, UnpaidWhenSending, Busy
  <2>3. PaidIsClosed(j)'
    BY <1>1, <2>0, <2>a, <2>b DEF Safe, PaidIsClosed
  <2>4. VerdictIsCurrent(j)'
    BY <1>1, <2>0, <2>a DEF Safe, VerdictIsCurrent
  <2>5. ConfirmedIsTrue(j)'
    BY <1>1, <2>0 DEF Safe, ConfirmedIsTrue
  <2>6. PaidOnce(j)'
    BY <2>0, <2>a DEF Safe, PaidOnce
  <2> QED BY <2>1, <2>2, <2>3, <2>4, <2>5, <2>6 DEF Safe
<1> QED BY <1>2, <1>3 DEF IInv

\* A handler that dies takes its memory along.
LEMMA CrashKeepsIInv ==
  ASSUME TypeOK, IInv, Tracked' \subseteq Tracked, NEW p \in Handlers, Crash(p)
  PROVE  IInv'
<1>0. HandlersOK
  BY TypeParts
<1>1. /\ MovesTo(p, Idle) /\ Idle.at = "idle"
      /\ UNCHANGED <<rows, clock, chain, told>>
  BY RestMoves DEF Crash
<1>2. \A q \in Handlers : h'[q] = IF q = p THEN Idle ELSE h[q]
  BY <1>0, <1>1 DEF HandlersOK, MovesTo
<1>3. MemoryIsTrue'
  BY <1>1, <1>2, MemoryFrame DEF IInv, HashesKept, MovesTo
<1>4. ASSUME NEW j \in Tracked
      PROVE  Safe(j)'
  <2>0. Safe(j)
    BY DEF IInv
  <2>a. Payments(j)' = Payments(j) /\ Verdicts(j)' \subseteq Verdicts(j)
    BY <1>1, <1>2 DEF Payments, Verdicts, MovesTo
  <2>b. \A q \in Handlers : Busy(q, j)' => Busy(q, j) /\ h'[q] = h[q]
    BY <1>1, <1>2 DEF Busy
  <2>1. BusyKeepsOut(j)'
    BY <1>1, <2>0, <2>b DEF Safe, BusyKeepsOut
  <2>2. UnpaidWhenSending(j)'
    BY <1>1, <2>0, <2>a, <2>b DEF Safe, UnpaidWhenSending
  <2>3. PaidIsClosed(j)'
    BY <1>1, <1>2, <2>0, <2>a DEF Safe, PaidIsClosed
  <2>4. VerdictIsCurrent(j)'
    BY <1>1, <2>0, <2>a DEF Safe, VerdictIsCurrent
  <2>5. ConfirmedIsTrue(j)'
    BY <1>1, <2>0 DEF Safe, ConfirmedIsTrue
  <2>6. PaidOnce(j)'
    BY <2>0, <2>a DEF Safe, PaidOnce
  <2> QED BY <2>1, <2>2, <2>3, <2>4, <2>5, <2>6 DEF Safe
<1> QED BY <1>3, <1>4 DEF IInv

\* Mining only takes payments away.
LEMMA MineKeepsIInv ==
  ASSUME TypeOK, IInv, Tracked' \subseteq Tracked, NEW n \in DOMAIN chain, Mine(n)
  PROVE  IInv'
<1>0. chain \in Seq(Slot) /\ \A m \in DOMAIN chain : chain[m] \in Slot
  BY TypeParts
<1>1. UNCHANGED <<rows, clock, h, told>> /\ chain[n].state = "pool"
  BY DEF Mine
<1>2. /\ DOMAIN chain' = DOMAIN chain
      /\ \A m \in DOMAIN chain : /\ chain'[m].intent = chain[m].intent
                                 /\ m # n => chain'[m] = chain[m]
  <2>1. PICK s \in {"success", "reverted"} : chain' = [chain EXCEPT ![n].state = s]
    BY DEF Mine
  <2>2. [chain[n] EXCEPT !.state = s].intent = chain[n].intent
    BY <1>0 DEF Slot
  <2>3. chain' = [chain EXCEPT ![n] = [chain[n] EXCEPT !.state = s]]
    BY <2>1
  <2> DEFINE r == [chain[n] EXCEPT !.state = s]
  <2> HIDE DEF r
  <2>4. chain' = [chain EXCEPT ![n] = r] /\ r.intent = chain[n].intent
    BY <2>2, <2>3 DEF r
  <2> QED BY <1>0, <2>4
<1>3. MemoryIsTrue'
  BY <1>1, <1>2, MemoryFrame DEF IInv, HashesKept
<1>4. ASSUME NEW j \in Tracked
      PROVE  Safe(j)'
  <2>0. Safe(j)
    BY DEF IInv
  <2>a. Payments(j)' \subseteq Payments(j)
    BY <1>1, <1>2 DEF Payments
  <2>b. Verdicts(j)' = Verdicts(j)
    <3>1. told \subseteq DOMAIN chain
      BY DEF IInv, MemoryIsTrue
    <3> QED BY <1>1, <1>2, <3>1 DEF Verdicts
  <2>1. BusyKeepsOut(j)'
    BY <1>1, <2>0 DEF Safe, BusyKeepsOut, Busy
  <2>2. UnpaidWhenSending(j)'
    BY <1>1, <2>0, <2>a DEF Safe, UnpaidWhenSending, Busy
  <2>3. PaidIsClosed(j)'
    BY <1>1, <2>0, <2>a DEF Safe, PaidIsClosed
  <2>4. VerdictIsCurrent(j)'
    BY <1>1, <2>0, <2>b DEF Safe, VerdictIsCurrent
  <2>5. ConfirmedIsTrue(j)'
    BY <1>1, <1>2, <2>0 DEF Safe, ConfirmedIsTrue
  <2>6. PaidOnce(j)'
    BY <2>0, <2>a DEF Safe, PaidOnce
  <2> QED BY <2>1, <2>2, <2>3, <2>4, <2>5, <2>6 DEF Safe
<1> QED BY <1>3, <1>4 DEF IInv

-----------------------------------------------------------------------------

LEMMA IInvStep ==
  ASSUME TypeOK, IInv, [Next]_vars
  PROVE  IInv'
<1>0. Tracked' \subseteq Tracked
  BY DoubtStep DEF Tracked
<1> USE <1>0
<1>1. ASSUME NEW p \in Handlers, Continue(p)
      PROVE  IInv'
  BY <1>1, CreateKeepsIInv, ExpireKeepsIInv, SignKeepsIInv, SendKeepsIInv,
     LostKeepsIInv, RejectKeepsIInv, RevertKeepsIInv, RecordKeepsIInv,
     SyncReadKeepsIInv, VerdictKeepsIInv, SyncDoneKeepsIInv DEF Continue, Send
<1>2. ASSUME NEW p \in Handlers, NEW i \in Intents,
             \/ \E c \in Payloads : CreateRead(p, i, c)
             \/ GetStale(p, i)
             \/ \E n \in Nonces : SignRead(p, i, n)
             \/ Claim(p, i)
      PROVE  IInv'
  BY <1>2, CreateKeepsIInv, ReadKeepsIInv, ClaimKeepsIInv
<1>3. ASSUME NEW p \in Handlers, SyncFail(p) \/ Crash(p)
      PROVE  IInv'
  BY <1>3, SyncFailKeepsIInv, CrashKeepsIInv
<1>4. ASSUME NEW i \in Intents,
             \/ CreateRefund(i) \/ Retry(i)
             \/ PassExpiry(i) \/ PassTimeout(i) \/ PassStuck(i)
      PROVE  IInv'
  BY <1>4, RefundKeepsIInv, RetryKeepsIInv, TimeKeepsIInv
<1>5. ASSUME NEW n \in DOMAIN chain, Patch(n) \/ Mine(n)
      PROVE  IInv'
  BY <1>5, PatchKeepsIInv, MineKeepsIInv
<1>6. CASE UNCHANGED vars
  BY <1>6 DEF vars, IInv, MemoryIsTrue, Safe,
     BusyKeepsOut, UnpaidWhenSending, PaidIsClosed, VerdictIsCurrent, ConfirmedIsTrue,
     PaidOnce, Busy, Payments, Verdicts
<1> QED BY <1>1, <1>2, <1>3, <1>4, <1>5, <1>6, SweepKeepsIInv DEF Next

LEMMA IInvInit ==
  ASSUME Init
  PROVE  IInv
<1>1. chain = <<>> /\ told = {} /\ DOMAIN chain = {}
  BY DEF Init
<1>2. \A p \in Handlers : h[p].at = "idle" /\ h[p].batch = {}
  BY DEF Init, Idle
<1>3. \A i \in Intents : rows[i].status = "none"
  BY DEF Init
<1>4. MemoryIsTrue
  BY <1>1, <1>2, <1>3 DEF MemoryIsTrue
<1>5. ASSUME NEW i \in Tracked
      PROVE  Safe(i)
  <2>1. i \in Intents /\ Payments(i) = {} /\ Verdicts(i) = {}
    BY <1>1, <1>2 DEF Tracked, Payments, Verdicts
  <2> QED BY <1>2, <1>3, <2>1 DEF Safe, BusyKeepsOut,
             UnpaidWhenSending, PaidIsClosed, VerdictIsCurrent, ConfirmedIsTrue,
             PaidOnce, Busy
<1> QED BY <1>4, <1>5 DEF IInv

\* The inductive invariant holds throughout, for any number of intents,
\* requests and transactions and under any faults.
THEOREM Invariant == Spec => [](TypeOK /\ IInv)
<1>1. IInv /\ TypeOK /\ [Next]_vars => IInv'
  BY IInvStep
<1> QED BY <1>1, TypeCorrect, IInvInit, PTL DEF Spec

\* Money moves at most once for every intent, transfer or refund, unless the
\* code lost track of a transaction of it.
THEOREM NoTrackedPaidTwice == Spec => []TrackedPaidOnce
<1>1. IInv => TrackedPaidOnce
  BY DEF IInv, Safe, TrackedPaidOnce, Tracked
<1> QED BY <1>1, Invariant, PTL

\* The hash of a broadcasted or confirmed row belongs to its intent, and, while
\* the intent is tracked, a confirmed one succeeded, although no verdict names
\* its hash.
THEOREM ReportsAreTrue == Spec => []SettledRowsAreTrue
<1>1. IInv => SettledRowsAreTrue
  BY DEF IInv, Safe, MemoryIsTrue, ConfirmedIsTrue, SettledRowsAreTrue, Tracked
<1> QED BY <1>1, Invariant, PTL

\* The signed -> broadcasting update keeps a second broadcaster of one intent
\* out until the first is done, unless the first was overtaken.
THEOREM SingleBroadcaster == Spec => []OneBroadcaster
<1>1. IInv => OneBroadcaster
  BY DEF IInv, Safe, BusyKeepsOut, OneBroadcaster, Tracked
<1> QED BY <1>1, Invariant, PTL

-----------------------------------------------------------------------------
(* The intents implement PaymentOrder.  Most actions write a row among the *)
(* statuses a merchant sees as open, or no row at all, and stutter; four   *)
(* lemmas map the others.                                                  *)

OrderVars == <<StateBar, PaidBar>>

\* What a step of the intents does to the orders, doubt aside.
Moves == Order!Report \/ UNCHANGED OrderVars

\* No merchant is told anything new.
SameTold == \A j \in Intents : Told(j)' = Told(j)

LEMMA Stutter ==
  ASSUME SameTold, chain' = chain
  PROVE  Moves
<1>1. StateBar' = StateBar
  BY DEF SameTold, StateBar
<1>2. PaidBar' = PaidBar
  BY DEF PaidBar, Payments
<1> QED BY <1>1, <1>2 DEF OrderVars, Moves

\* An update among the open statuses is not reported.
LEMMA OpenUpdate ==
  ASSUME RowsOK, NEW i \in Intents, NEW from, NEW row, Update(i, from, row),
         from \notin {"confirmed", "expired"},
         row.status \notin {"confirmed", "expired"}
  PROVE  SameTold
BY DEF Update, RowsOK, Told, SameTold

\* What an action that writes the row of one intent i does to StateBar.
LEMMA OneTold ==
  ASSUME NEW i \in Intents, NEW s, Told(i)' = s,
         \A j \in Intents \ {i} : rows'[j] = rows[j]
  PROVE  StateBar' = [StateBar EXCEPT ![i] = s]
<1>1. \A j \in Intents \ {i} : Told(j)' = Told(j)
  BY DEF Told
<1> QED BY <1>1 DEF StateBar

LEMMA ExpireRefines ==
  ASSUME TypeOK, NEW p \in Handlers, Expire(p)
  PROVE  Moves
<1>0. HandlersOK /\ RowsOK
  BY TypeParts
<1>1. PICK i \in Intents : i = h[p].intent
  BY <1>0 DEF HandlersOK, WellPlaced, Expire
<1>2. rows'[i].status = "expired" /\ \A j \in Intents \ {i} : rows'[j] = rows[j]
  BY <1>0, <1>1 DEF Expire, RowsOK, Row
<1>3. StateBar' = [StateBar EXCEPT ![i] = "expired"]
  BY <1>2, OneTold DEF Told
<1>4. PaidBar' = PaidBar
  BY DEF PaidBar, Payments, Expire
<1> QED BY <1>3, <1>4 DEF Moves, Order!Report, Order!Expire

\* A receipt confirms a payment that was made, or the order is doubted.
LEMMA ConcludeRefines ==
  ASSUME TypeOK, IInv, NEW i \in Intents, NEW n \in DOMAIN chain,
         Conclude(i, n), n \in Verdicts(i), chain' = chain
  PROVE  Moves
<1>0. RowsOK
  BY TypeParts
<1>1. CASE chain[n].state # "success"
  <2> DEFINE r == [rows[i] EXCEPT !.status = "failed"]
  <2>1. r.status = "failed"
    BY <1>0 DEF RowsOK, Row
  <2>2. Update(i, "broadcasted", r)
    BY <1>1 DEF Conclude
  <2> HIDE DEF r
  <2> QED BY <1>0, <2>1, <2>2, OpenUpdate, Stutter
<1>2. CASE chain[n].state = "success"
  <2> DEFINE r == [rows[i] EXCEPT !.status = "confirmed"]
  <2>1. r.status = "confirmed"
    BY <1>0 DEF RowsOK, Row
  <2>2. Update(i, "broadcasted", r)
    BY <1>2 DEF Conclude
  <2> HIDE DEF r
  <2>3. \A j \in Intents \ {i} : rows'[j] = rows[j]
    BY <1>0, <2>2 DEF Update, RowsOK
  <2>4. CASE rows[i].status # "broadcasted"
    <3>1. SameTold
      BY <2>2, <2>3, <2>4 DEF Update, SameTold, Told
    <3> QED BY <3>1, Stutter
  <2>5. CASE rows[i].status = "broadcasted"
    <3>1. rows'[i].status = "confirmed"
      BY <1>0, <2>1, <2>2, <2>5 DEF Update, RowsOK
    <3>2. StateBar' = [StateBar EXCEPT ![i] = "confirmed"]
      BY <2>3, <2>5, <3>1, OneTold DEF Told
    <3>3. PaidBar' = PaidBar
      BY DEF PaidBar, Payments
    <3>4. StateBar[i] = "open"
      BY <2>5 DEF StateBar, Told
    <3>5. i \in doubted \/ PaidBar[i] # {}
      <4> SUFFICES ASSUME i \in Tracked PROVE PaidBar[i] # {}
        BY DEF Tracked
      <4>1. rows[i].txHash = n
        BY <2>5 DEF IInv, Safe, VerdictIsCurrent
      <4>2. chain[n].intent = i
        BY <2>5, <4>1 DEF IInv, MemoryIsTrue, Settled
      <4> QED BY <1>2, <4>2 DEF PaidBar, Payments
    <3> QED BY <3>2, <3>3, <3>4, <3>5 DEF Moves, Order!Report, Order!Confirm
  <2> QED BY <2>4, <2>5
<1> QED BY <1>1, <1>2

LEMMA SyncVerdictRefines ==
  ASSUME TypeOK, IInv, NEW p \in Handlers, SyncVerdict(p)
  PROVE  Moves
<1>0. HandlersOK
  BY TypeParts
<1>1. PICK b \in h[p].batch : IF chain[b[2]].state # "pool"
                              THEN Conclude(b[1], b[2]) ELSE UNCHANGED rows
  BY DEF SyncVerdict
<1>2. chain' = chain
  BY DEF SyncVerdict
<1>3. PICK i \in Intents, n \in Nat : b = <<i, n>> /\ b[1] = i /\ b[2] = n
  BY <1>0 DEF HandlersOK, WellPlaced, Handler
<1>4. CASE UNCHANGED rows
  BY <1>2, <1>4, Stutter DEF SameTold, Told
<1>5. CASE Conclude(i, n)
  <2>1. n \in DOMAIN chain
    BY <1>1, <1>3 DEF IInv, MemoryIsTrue
  <2>2. n \in Verdicts(i)
    BY <1>3, <2>1 DEF Verdicts
  <2> QED BY <1>2, <1>5, <2>1, <2>2, ConcludeRefines
<1> QED BY <1>1, <1>3, <1>4, <1>5

\* The node accepts the only payment of an order, or the order is doubted.
LEMMA SendRefines ==
  ASSUME TypeOK, IInv, NEW p \in Handlers, NEW s, SendAccepted(p, s)
  PROVE  Moves
<1>0. HandlersOK /\ chain \in Seq(Slot) /\ Len(chain) \in Nat
  BY TypeParts
<1>1. PICK i \in Intents, n \in 1 .. MaxChain : i = h[p].intent /\ n = Len(chain) + 1
  BY <1>0, IntentAssumption DEF HandlersOK, WellPlaced, SendAccepted
<1>2. Busy(p, i) /\ h[p].at = "send" /\ rows' = rows
  BY <1>1 DEF SendAccepted, Busy
<1>3. /\ DOMAIN chain' = DOMAIN chain \cup {n} /\ n \notin DOMAIN chain
      /\ \A m \in DOMAIN chain : chain'[m] = chain[m]
      /\ chain'[n].intent = i /\ chain'[n].state = "pool"
  BY <1>1, ChainGrows
<1>4. StateBar' = StateBar
  BY <1>2 DEF StateBar, Told
<1>5. PaidBar' = [PaidBar EXCEPT ![i] = @ \cup {n}]
  <2>1. \A j \in Intents : Payments(j)' = IF j = i THEN Payments(j) \cup {n}
                                                   ELSE Payments(j)
    BY <1>3 DEF Payments
  <2> QED BY <2>1 DEF PaidBar
<1>6. i \in doubted \/ (StateBar[i] # "confirmed" /\ PaidBar[i] = {})
  <2> SUFFICES ASSUME i \in Tracked
               PROVE  StateBar[i] # "confirmed" /\ PaidBar[i] = {}
    BY DEF Tracked
  <2>1. Payments(i) = {}
    BY <1>2 DEF IInv, Safe, UnpaidWhenSending
  <2>2. rows[i].status # "confirmed"
    <3> SUFFICES ASSUME rows[i].status = "confirmed" PROVE FALSE
      OBVIOUS
    <3>1. /\ rows[i].txHash \in DOMAIN chain
          /\ chain[rows[i].txHash].intent = i
          /\ chain[rows[i].txHash].state = "success"
      BY DEF IInv, Safe, MemoryIsTrue, ConfirmedIsTrue
    <3> QED BY <2>1, <3>1 DEF Payments
  <2> QED BY <2>1, <2>2 DEF StateBar, Told, PaidBar
<1> QED BY <1>4, <1>5, <1>6 DEF Moves, Order!Report, Order!Pay

\* A reverted transaction voids the payment it stood for.
LEMMA MineRefines ==
  ASSUME TypeOK, IInv, NEW n \in DOMAIN chain, Mine(n)
  PROVE  Moves
<1>0. chain \in Seq(Slot) /\ \A m \in DOMAIN chain : chain[m] \in Slot
  BY TypeParts
<1>1. chain[n].state = "pool" /\ rows' = rows
  BY DEF Mine
<1>2. PICK s \in {"success", "reverted"} : chain' = [chain EXCEPT ![n].state = s]
  BY DEF Mine
<1>3. /\ DOMAIN chain' = DOMAIN chain
      /\ \A m \in DOMAIN chain : m # n => chain'[m] = chain[m]
      /\ chain'[n].intent = chain[n].intent /\ chain'[n].state = s
  <2> DEFINE r == [chain[n] EXCEPT !.state = s]
  <2>1. r.intent = chain[n].intent /\ r.state = s
    BY <1>0 DEF Slot
  <2>2. chain' = [chain EXCEPT ![n] = r]
    BY <1>2
  <2> HIDE DEF r
  <2> QED BY <1>0, <2>1, <2>2
<1>4. StateBar' = StateBar
  BY <1>1 DEF StateBar, Told
<1>5. PICK i \in Intents : i = chain[n].intent
  BY <1>0 DEF Slot
<1>6. \A j \in Intents : Payments(j)' = IF j = i /\ s = "reverted"
                                        THEN Payments(j) \ {n} ELSE Payments(j)
  BY <1>1, <1>2, <1>3, <1>5 DEF Payments
<1>7. CASE s = "reverted"
  <2>1. n \in PaidBar[i]
    BY <1>1, <1>5 DEF PaidBar, Payments
  <2>2. PaidBar' = [PaidBar EXCEPT ![i] = @ \ {n}]
    BY <1>6, <1>7 DEF PaidBar
  <2>3. i \in doubted \/ StateBar[i] # "confirmed"
    <3> SUFFICES ASSUME i \in Tracked, rows[i].status = "confirmed" PROVE FALSE
      BY DEF Tracked, StateBar, Told
    <3>1. /\ rows[i].txHash \in DOMAIN chain
          /\ chain[rows[i].txHash].intent = i
          /\ chain[rows[i].txHash].state = "success"
      BY DEF IInv, Safe, MemoryIsTrue, ConfirmedIsTrue
    <3>2. rows[i].txHash \in Payments(i) /\ n \in Payments(i)
      BY <1>1, <1>5, <3>1 DEF Payments
    <3>3. rows[i].txHash = n
      BY <3>2 DEF IInv, Safe, PaidOnce
    <3> QED BY <1>1, <3>1, <3>3
  <2> QED BY <1>4, <2>1, <2>2, <2>3 DEF Moves, Order!Report, Order!Void
<1>8. CASE s = "success"
  <2>1. PaidBar' = PaidBar
    BY <1>6, <1>8 DEF PaidBar
  <2> QED BY <1>4, <2>1 DEF OrderVars, Moves
<1> QED BY <1>7, <1>8

-----------------------------------------------------------------------------
(* The actions that stutter *)

LEMMA HandlerStutters ==
  ASSUME TypeOK, NEW p \in Handlers,
         \/ CreateInsert(p) \/ CreateReread(p) \/ SignWrite(p)
         \/ SendRejected(p) \/ Revert(p) \/ Record(p)
         \/ SyncRead(p) \/ SyncDone(p) \/ SyncFail(p)
  PROVE  Moves
<1>0. HandlersOK /\ RowsOK
  BY TypeParts
<1>1. ASSUME rows' = rows, chain' = chain
      PROVE  Moves
  BY <1>1, Stutter DEF SameTold, Told
<1>2. CASE CreateInsert(p)
  <2>1. h[p].intent \in Intents /\ chain' = chain
    BY <1>0, <1>2 DEF HandlersOK, WellPlaced, CreateInsert
  <2>2. SameTold
    <3> SUFFICES ASSUME NEW j \in Intents PROVE Told(j)' = Told(j)
      BY DEF SameTold
    <3> QED BY <1>0, <1>2, <2>1 DEF CreateInsert, Told, RowsOK
  <2> QED BY <2>1, <2>2, Stutter
<1>3. CASE SignWrite(p) \/ Revert(p) \/ Record(p)
  <2>1. PICK i \in Intents : i = h[p].intent
    BY <1>0, <1>3 DEF HandlersOK, WellPlaced, SignWrite, Revert, Record
  <2>2. PICK from, row : /\ Update(i, from, row)
                         /\ from \notin {"confirmed", "expired"}
                         /\ row.status \notin {"confirmed", "expired"}
    <3>1. CASE SignWrite(p)
      <4> DEFINE r == [rows[i] EXCEPT !.status = "signed", !.raw = h[p].raw]
      <4>1. r.status = "signed"
        BY <1>0 DEF RowsOK, Row
      <4>2. Update(i, "pending", r)
        BY <2>1, <3>1 DEF SignWrite
      <4> HIDE DEF r
      <4> QED BY <4>1, <4>2
    <3>2. CASE Revert(p)
      <4>1. Reset(i).status = "pending" /\ Update(i, "broadcasting", Reset(i))
        BY <1>0, <2>1, <3>2 DEF Revert, Reset, RowsOK, Row
      <4> QED BY <4>1
    <3>3. CASE Record(p)
      <4> DEFINE r == [rows[i] EXCEPT !.status = "broadcasted",
                                      !.txHash = h[p].raw, !.raw = NoRaw]
      <4>1. r.status = "broadcasted"
        BY <1>0 DEF RowsOK, Row
      <4>2. Update(i, "broadcasting", r)
        BY <2>1, <3>3 DEF Record
      <4> HIDE DEF r
      <4> QED BY <4>1, <4>2
    <3> QED BY <1>3, <3>1, <3>2, <3>3
  <2>3. chain' = chain
    BY <1>3 DEF SignWrite, Revert, Record
  <2> QED BY <1>0, <2>2, <2>3, OpenUpdate, Stutter
<1>4. CASE SyncFail(p)
  <2>1. SameTold
    <3> SUFFICES ASSUME NEW j \in Intents PROVE Told(j)' = Told(j)
      BY DEF SameTold
    <3> DEFINE f == [rows[j] EXCEPT !.status = "failed"]
    <3>1. f.status = "failed"
      BY <1>0 DEF RowsOK, Row
    <3>2. rows'[j] = IF TimedOut(j) THEN f ELSE rows[j]
      BY <1>4 DEF SyncFail
    <3> HIDE DEF f
    <3> QED BY <3>1, <3>2 DEF TimedOut, Told
  <2> QED BY <1>4, <2>1, Stutter DEF SyncFail
<1> QED BY <1>1, <1>2, <1>3, <1>4 DEF CreateReread, SendRejected, SyncRead, SyncDone

LEMMA IntentStutters ==
  ASSUME TypeOK, NEW i \in Intents,
         \/ \E p \in Handlers : \/ \E c \in Payloads : CreateRead(p, i, c)
                                \/ GetStale(p, i)
                                \/ \E n \in Nonces : SignRead(p, i, n)
                                \/ Claim(p, i)
         \/ CreateRefund(i) \/ Retry(i)
         \/ PassExpiry(i) \/ PassTimeout(i) \/ PassStuck(i)
  PROVE  Moves
<1>0. RowsOK
  BY TypeParts
<1>1. ASSUME rows' = rows, chain' = chain
      PROVE  Moves
  BY <1>1, Stutter DEF SameTold, Told
<1>2. CASE (\E p \in Handlers : Claim(p, i)) \/ CreateRefund(i) \/ Retry(i)
  <2>1. /\ chain' = chain
        /\ \A j \in Intents \ {i} : rows'[j] = rows[j]
        /\ rows[i].status \in {"none", "signed", "failed"}
        /\ rows'[i].status \in {"pending", "broadcasting"}
    <3>1. CASE \E p \in Handlers : Claim(p, i)
      BY <1>0, <3>1 DEF Claim, RowsOK, Row
    <3>2. CASE CreateRefund(i)
      BY <1>0, <3>2 DEF CreateRefund, RowsOK, Row
    <3>3. CASE Retry(i)
      BY <1>0, <3>3 DEF Retry, Reset, RowsOK, Row
    <3> QED
      BY <1>2, <3>1, <3>2, <3>3
  <2> QED BY <2>1, Stutter DEF SameTold, Told
<1> QED BY <1>1, <1>2
        DEF CreateRead, GetStale, SignRead, PassExpiry, PassTimeout, PassStuck

-----------------------------------------------------------------------------

LEMMA SweepStutters ==
  ASSUME TypeOK, Sweep
  PROVE  Moves
<1>0. RowsOK
  BY TypeParts
<1>1. \A j \in Intents : Reset(j).status = "pending"
  BY <1>0 DEF Reset, RowsOK, Row
<1>2. SameTold
  BY <1>1 DEF Sweep, Stuck, SameTold, Told
<1> QED BY <1>2, Stutter DEF Sweep

-----------------------------------------------------------------------------

LEMMA OrderStep ==
  ASSUME TypeOK, IInv, [Next]_vars
  PROVE  [Order!Next]_<<StateBar, PaidBar, doubted>>
<1>0. doubted \subseteq doubted' /\ doubted' \subseteq Intents
  BY DoubtStep
<1> SUFFICES Moves
  BY <1>0 DEF Moves, OrderVars, Order!Next
<1>1. ASSUME NEW p \in Handlers, Continue(p) \/ SyncFail(p)
      PROVE  Moves
  BY <1>1, HandlerStutters, ExpireRefines, SendRefines, SyncVerdictRefines
     DEF Continue, Send, SendLost
<1>2. ASSUME NEW p \in Handlers, Crash(p)
      PROVE  Moves
  BY <1>2, Stutter DEF Crash, SameTold, Told
<1>3. ASSUME NEW n \in DOMAIN chain, Patch(n)
      PROVE  Moves
  <2>0. chain[n] \in Slot
    BY TypeParts
  <2>1. PICK i \in Intents : i = chain[n].intent
    BY <2>0 DEF Slot
  <2>2. n \in Verdicts(i) /\ Conclude(i, n) /\ chain' = chain
    BY <1>3, <2>1 DEF Patch, Verdicts
  <2> QED BY <2>2, ConcludeRefines
<1>4. CASE UNCHANGED vars
  BY <1>4, Stutter DEF vars, SameTold, Told
<1> QED BY <1>1, <1>2, <1>3, <1>4, SweepStutters, IntentStutters, MineRefines DEF Next

LEMMA OrderInit ==
  ASSUME Init
  PROVE  Order!Init
<1>1. \A i \in Intents : Told(i) = "open"
  BY DEF Init, Told
<1>2. \A i \in Intents : Payments(i) = {}
  <2>1. DOMAIN chain = {}
    BY DEF Init
  <2> QED BY <2>1 DEF Payments
<1> QED BY <1>1, <1>2 DEF Init, Order!Init, StateBar, PaidBar

\* Under any faults every behaviour of the intents, transfers and refunds, is
\* one of payment orders: paid at most once and confirmed only when paid until
\* the code loses track of them, expired for good.
THEOREM Refinement == Spec => ImplementsOrder
<1>1. TypeOK /\ IInv /\ [Next]_vars => [Order!Next]_<<StateBar, PaidBar, doubted>>
  BY OrderStep
<1> QED BY <1>1, OrderInit, Invariant, PTL DEF Spec, ImplementsOrder, Order!Spec
=============================================================================
