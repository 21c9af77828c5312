--------------------------- MODULE TreasuryProofs ---------------------------
(***************************************************************************)
(* Theorems about Treasury, for any number of requests that overlap, fail  *)
(* and leave transactions behind, whichever transactions revert and        *)
(* whichever lose their nonce to another.                                  *)
(***************************************************************************)
EXTENDS Treasury, SequenceTheorems, TLAPS

Request == [at : Steps, receipt : {"none", "awaited", "success", "another", "reverted"},
            manager : Managers \cup {None}]

Sent == [kind : Kinds \cup {"other"}, manager : Managers \cup {None}, by : SUBSET Handlers]

\* A handler whose modifier is on the chain and not in the row.
Installing(h) ==
    \/ request[h].at \in {"enableModule", "recordModule"}
    \/ request[h].at = "deployModule" /\ request[h].receipt = "success"

\* Who waits for a transaction waits for no other, and sent it unless a nonce was
\* taken.
Awaited ==
    /\ \A i \in DOMAIN pool : \A h \in pool[i].by : request[h].receipt = "awaited"
    /\ \A i, j \in DOMAIN pool : \A h \in Handlers :
         h \in pool[i].by /\ h \in pool[j].by => i = j
    /\ taken = 0 => \A i \in DOMAIN pool : \A h \in pool[i].by :
         /\ request[h].at = pool[i].kind /\ request[h].manager = pool[i].manager
         /\ \A g \in pool[i].by : g = h

\* Only a handler at a transaction has, or waits for, a receipt.
Waiting ==
    /\ \A h \in Handlers : request[h].receipt # "none" => request[h].at \in Kinds
    /\ taken = 0 => \A h \in Handlers : request[h].receipt # "another"

\* What a handler is past has happened, or was misread.
Seen ==
    \A h \in Handlers :
      /\ request[h].receipt = "success" => request[h].at \in executed
      /\ request[h].at = "recordSafe" => "deploySafe" \in executed \cup misread
      /\ request[h].at \in {"enableModule", "recordModule"} => "deployModule" \in executed
      /\ request[h].at = "recordModule" => "enableModule" \in executed \cup misread
      /\ request[h].at \in {"scopeFunction", "setAllowance", "recordScope"} =>
           "scopeTarget" \in executed \cup misread
      /\ request[h].at \in {"setAllowance", "recordScope"} =>
           "scopeFunction" \in executed \cup misread
      /\ request[h].at = "recordScope" => "setAllowance" \in executed \cup misread

\* A handler is where it is because of a row that still says so.
Grounded ==
    /\ \A h \in Handlers :
         /\ SettingUp(h) => row.status = "deployed"
         /\ request[h].at \in ScopeCalls \cup {"recordScope"} => row.roles # "none"
         /\ request[h].at = "assignRoles" => request[h].manager \in Managers
         /\ request[h].at = "assignRoles" /\ taken = 0 => row.roles = "scoped"
    /\ \A i \in DOMAIN pool : pool[i].kind = "assignRoles" =>
         /\ pool[i].manager \in Managers
         /\ taken = 0 => row.roles = "scoped"
    /\ row.roles # "none" => row.status = "deployed"

\* One handler at most records the modifier, and no row has it before.
OneInstalls ==
    taken = 0 =>
      /\ \A h \in Handlers : Installing(h) => row.roles = "none" /\ "deployModule" \in executed
      /\ \A h, g \in Handlers : Installing(h) /\ Installing(g) => h = g

\* The allowance is at most the cap, and nothing is spent before the row is scoped.
Unspent ==
    /\ allowance <= Cap
    /\ row.roles # "scoped" /\ taken = 0 => spent = 0

\* Set-ups that do not overlap are one, and none goes on once the row is scoped.
Alone ==
    ~overlapped =>
      /\ \A h, g \in Handlers : SettingUp(h) /\ SettingUp(g) => h = g
      /\ row.roles = "scoped" => \A h \in Handlers : ~SettingUp(h)

NoneUnderWay == \A i \in DOMAIN pool : pool[i].kind # "setAllowance"

\* What a set-up waits for is the last of its kind, so that the row is scoped
\* when nothing is left that sets the allowance again.
SetLast ==
    ~overlapped /\ taken = 0 =>
      /\ \A i, j \in DOMAIN pool :
           pool[i].kind = "setAllowance" /\ pool[i].by # {} /\ i < j =>
             pool[j].kind # "setAllowance"
      /\ \A h \in Handlers :
           \/ request[h].at = "recordScope"
           \/ request[h].at = "setAllowance" /\ request[h].receipt = "success"
           => NoneUnderWay
      /\ row.roles = "scoped" => NoneUnderWay

Capped == ~overlapped /\ taken = 0 => spent + allowance <= Cap

IInv == /\ TypeOK
        /\ ScopedIsSetUp
        /\ Awaited
        /\ Waiting
        /\ Seen
        /\ Grounded
        /\ OneInstalls
        /\ Unspent /\ Alone /\ SetLast /\ Capped
-----------------------------------------------------------------------------
(* Moves of a handler *)

LEMMA StepSets ==
  /\ SetupSteps \subseteq Steps /\ Kinds \subseteq Steps
  /\ {"idle", "claim", "recordSafe"} \subseteq Steps
  /\ \A kind \in Kinds : After(kind) \in Steps
BY SMTT(30) DEF Steps, SetupSteps, Kinds, Deployments, ScopeCalls, After

\* Handler h is at a step, with nothing sent there yet; the others stay.
MovedTo(h, step) ==
    /\ request'[h].at = step /\ request'[h].receipt = "none"
    /\ \A g \in Handlers \ {h} : request'[g] = request[g]

LEMMA RequestType ==
  ASSUME TypeOK, NEW h \in Handlers
  PROVE  request[h] \in Request /\ request \in [Handlers -> Request]
BY DEF TypeOK, Request

LEMMA PoolType ==
  ASSUME TypeOK
  PROVE  pool \in Seq(Sent) /\ \A i \in DOMAIN pool : pool[i] \in Sent
<1>1. pool \in Seq(Sent)
  BY DEF TypeOK, Sent
<1> QED
  BY <1>1

LEMMA GotoMoves ==
  ASSUME TypeOK, NEW h \in Handlers, NEW step \in Steps, Goto(h, step)
  PROVE  request' \in [Handlers -> Request] /\ MovedTo(h, step)
<1>1. request[h] \in Request /\ request \in [Handlers -> Request]
  BY RequestType
<1> QED
  BY <1>1 DEF Goto, MovedTo, Request

LEMMA DoneMoves ==
  ASSUME TypeOK, NEW h \in Handlers, Done(h)
  PROVE  request' \in [Handlers -> Request] /\ MovedTo(h, "idle")
<1>1. request[h] \in Request /\ request \in [Handlers -> Request]
  BY RequestType
<1>2. Idle \in Request
  BY StepSets DEF Idle, Request
<1> QED
  BY <1>1, <1>2 DEF Done, MovedTo, Idle

\* A handler that waits for nothing moves: what others wait for is still theirs.
LEMMA AwaitedStays ==
  ASSUME IInv, NEW h \in Handlers, NEW step, MovedTo(h, step), pool' = pool,
         taken' = taken,
         request[h].receipt # "awaited"
  PROVE  Awaited'
<1>1. \A i \in DOMAIN pool : pool[i].by \subseteq Handlers
  BY PoolType DEF IInv, Sent
<1> QED
  BY <1>1 DEF IInv, Awaited, MovedTo

LEMMA DeployKeeps ==
  ASSUME TreasuryAssumption, IInv, NEW h \in Handlers, Deploy(h)
  PROVE  IInv'
<1> DEFINE step == "claim"
<1> USE DEF SettingUp, SetupSteps, Deployments, ScopeCalls, Kinds, onChain, history
<1>1. request' \in [Handlers -> Request] /\ MovedTo(h, step)
  <2>1. step \in Steps
    BY StepSets
  <2> QED
    BY <2>1, GotoMoves DEF Deploy, IInv
<1>2. request \in [Handlers -> Request] /\ request[h] \in Request
  BY RequestType DEF IInv
<1>3. TypeOK'
  BY <1>1 DEF Deploy, IInv, TypeOK, Request
<1>4. ScopedIsSetUp'
  BY <1>2 DEF Deploy, IInv, TypeOK, ScopedIsSetUp, Seen, Grounded, OneInstalls, Installing
<1>5. Awaited'
  <2>1. request[h].receipt # "awaited"
    BY DEF Deploy, IInv, Waiting
  <2> QED
    BY <1>1, <2>1, AwaitedStays DEF Deploy
<1>10. Waiting'
  BY <1>1 DEF Deploy, IInv, MovedTo, Waiting
<1>6. Seen'
  BY <1>1, <1>2 DEF Deploy, IInv, MovedTo, Seen, Grounded, ScopedIsSetUp
<1>7. Grounded'
  BY <1>1, <1>2 DEF Deploy, IInv, TypeOK, MovedTo, Grounded, OneInstalls, Installing
<1>8. OneInstalls'
  <2>1. \A g \in Handlers : Installing(g)' => Installing(g) /\ g # h
    BY <1>1 DEF Deploy, MovedTo, Installing
  <2> QED
    BY <2>1 DEF Deploy, IInv, OneInstalls, Grounded
<1>9. Unspent'
  BY <1>1, <1>2 DEF Deploy, IInv, TypeOK, Unspent, ScopedIsSetUp, Grounded, OneInstalls, Installing
<1>11. Alone'
  <2>1. \A g \in Handlers : SettingUp(g)' => SettingUp(g) /\ g # h
    BY <1>1, <1>2 DEF Deploy, MovedTo, ScopedIsSetUp
  <2> QED
    BY <1>1, <2>1 DEF Deploy, IInv, Alone
<1>12. SetLast'
  BY <1>1, <1>2 DEF Deploy, IInv, TypeOK, MovedTo, SetLast, NoneUnderWay, OneInstalls, Installing
<1>13. Capped'
  BY DEF Deploy, IInv, TypeOK, Capped
<1> QED
  BY <1>3, <1>4, <1>5, <1>10, <1>6, <1>7, <1>8, <1>9, <1>11, <1>12, <1>13 DEF IInv

LEMMA ClaimKeeps ==
  ASSUME TreasuryAssumption, IInv, NEW h \in Handlers, Claim(h)
  PROVE  IInv'
<1> DEFINE step == "deploySafe"
<1> USE DEF SettingUp, SetupSteps, Deployments, ScopeCalls, Kinds, onChain, history
<1>1. request' \in [Handlers -> Request] /\ MovedTo(h, step)
  <2>1. step \in Steps
    BY StepSets
  <2> QED
    BY <2>1, GotoMoves DEF Claim, IInv
<1>2. request \in [Handlers -> Request] /\ request[h] \in Request
  BY RequestType DEF IInv
<1>3. TypeOK'
  BY <1>1 DEF Claim, IInv, TypeOK, Request
<1>4. ScopedIsSetUp'
  BY <1>2 DEF Claim, IInv, TypeOK, ScopedIsSetUp, Seen, Grounded, OneInstalls, Installing
<1>5. Awaited'
  <2>1. request[h].receipt # "awaited"
    BY DEF Claim, IInv, Waiting
  <2> QED
    BY <1>1, <2>1, AwaitedStays DEF Claim
<1>10. Waiting'
  BY <1>1 DEF Claim, IInv, MovedTo, Waiting
<1>6. Seen'
  BY <1>1, <1>2 DEF Claim, IInv, MovedTo, Seen, Grounded, ScopedIsSetUp
<1>7. Grounded'
  BY <1>1, <1>2 DEF Claim, IInv, TypeOK, MovedTo, Grounded, OneInstalls, Installing
<1>8. OneInstalls'
  <2>1. \A g \in Handlers : Installing(g)' => Installing(g) /\ g # h
    BY <1>1 DEF Claim, MovedTo, Installing
  <2> QED
    BY <2>1 DEF Claim, IInv, OneInstalls, Grounded
<1>9. Unspent'
  BY <1>1, <1>2 DEF Claim, IInv, TypeOK, Unspent, ScopedIsSetUp, Grounded, OneInstalls, Installing
<1>11. Alone'
  <2>1. \A g \in Handlers : SettingUp(g)' => SettingUp(g) /\ g # h
    BY <1>1, <1>2 DEF Claim, MovedTo, ScopedIsSetUp
  <2> QED
    BY <1>1, <2>1 DEF Claim, IInv, Alone
<1>12. SetLast'
  BY <1>1, <1>2 DEF Claim, IInv, TypeOK, MovedTo, SetLast, NoneUnderWay, OneInstalls, Installing
<1>13. Capped'
  BY DEF Claim, IInv, TypeOK, Capped
<1> QED
  BY <1>3, <1>4, <1>5, <1>10, <1>6, <1>7, <1>8, <1>9, <1>11, <1>12, <1>13 DEF IInv

LEMMA RecordSafeKeeps ==
  ASSUME TreasuryAssumption, IInv, NEW h \in Handlers, RecordSafe(h)
  PROVE  IInv'
<1> DEFINE step == "idle"
<1> USE DEF SettingUp, SetupSteps, Deployments, ScopeCalls, Kinds, onChain, history
<1>1. request' \in [Handlers -> Request] /\ MovedTo(h, step)
  <2>1. step \in Steps
    BY StepSets
  <2> QED
    BY <2>1, DoneMoves DEF RecordSafe, IInv
<1>2. request \in [Handlers -> Request] /\ request[h] \in Request
  BY RequestType DEF IInv
<1>3. TypeOK'
  BY <1>1 DEF RecordSafe, IInv, TypeOK, Request
<1>4. ScopedIsSetUp'
  BY <1>2 DEF RecordSafe, IInv, TypeOK, ScopedIsSetUp, Seen, Grounded, OneInstalls, Installing
<1>5. Awaited'
  <2>1. request[h].receipt # "awaited"
    BY DEF RecordSafe, IInv, Waiting
  <2> QED
    BY <1>1, <2>1, AwaitedStays DEF RecordSafe
<1>10. Waiting'
  BY <1>1 DEF RecordSafe, IInv, MovedTo, Waiting
<1>6. Seen'
  BY <1>1, <1>2 DEF RecordSafe, IInv, MovedTo, Seen, Grounded, ScopedIsSetUp
<1>7. Grounded'
  BY <1>1, <1>2 DEF RecordSafe, IInv, TypeOK, MovedTo, Grounded, OneInstalls, Installing
<1>8. OneInstalls'
  <2>1. \A g \in Handlers : Installing(g)' => Installing(g) /\ g # h
    BY <1>1 DEF RecordSafe, MovedTo, Installing
  <2> QED
    BY <2>1 DEF RecordSafe, IInv, OneInstalls, Grounded
<1>9. Unspent'
  BY <1>1, <1>2 DEF RecordSafe, IInv, TypeOK, Unspent, ScopedIsSetUp, Grounded, OneInstalls, Installing
<1>11. Alone'
  <2>1. \A g \in Handlers : SettingUp(g)' => SettingUp(g) /\ g # h
    BY <1>1, <1>2 DEF RecordSafe, MovedTo, ScopedIsSetUp
  <2> QED
    BY <1>1, <2>1 DEF RecordSafe, IInv, Alone
<1>12. SetLast'
  BY <1>1, <1>2 DEF RecordSafe, IInv, TypeOK, MovedTo, SetLast, NoneUnderWay, OneInstalls, Installing
<1>13. Capped'
  BY DEF RecordSafe, IInv, TypeOK, Capped
<1> QED
  BY <1>3, <1>4, <1>5, <1>10, <1>6, <1>7, <1>8, <1>9, <1>11, <1>12, <1>13 DEF IInv

LEMMA SetupKeeps ==
  ASSUME TreasuryAssumption, IInv, NEW h \in Handlers, Setup(h)
  PROVE  IInv'
<1> DEFINE step == IF row.roles = "none" THEN "deployModule" ELSE "scopeTarget"
<1> USE DEF SettingUp, SetupSteps, Deployments, ScopeCalls, Kinds, onChain, history
<1>1. request' \in [Handlers -> Request] /\ MovedTo(h, step)
  <2>1. step \in Steps
    BY StepSets
  <2> QED
    BY <2>1, GotoMoves DEF Setup, IInv
<1>2. request \in [Handlers -> Request] /\ request[h] \in Request
  BY RequestType DEF IInv
<1>3. TypeOK'
  BY <1>1 DEF Setup, IInv, TypeOK, Request
<1>4. ScopedIsSetUp'
  BY <1>2 DEF Setup, IInv, TypeOK, ScopedIsSetUp, Seen, Grounded, OneInstalls, Installing
<1>5. Awaited'
  <2>1. request[h].receipt # "awaited"
    BY DEF Setup, IInv, Waiting
  <2> QED
    BY <1>1, <2>1, AwaitedStays DEF Setup
<1>10. Waiting'
  BY <1>1 DEF Setup, IInv, MovedTo, Waiting
<1>6. Seen'
  BY <1>1, <1>2 DEF Setup, IInv, MovedTo, Seen, Grounded, ScopedIsSetUp
<1>7. Grounded'
  BY <1>1, <1>2 DEF Setup, IInv, TypeOK, MovedTo, Grounded, OneInstalls, Installing
<1>8. OneInstalls'
  <2>1. \A g \in Handlers : Installing(g)' => Installing(g) /\ g # h
    BY <1>1 DEF Setup, MovedTo, Installing
  <2> QED
    BY <2>1 DEF Setup, IInv, OneInstalls, Grounded
<1>9. Unspent'
  BY <1>1, <1>2 DEF Setup, IInv, TypeOK, Unspent, ScopedIsSetUp, Grounded, OneInstalls, Installing
<1>11. Alone'
  <2>1. \A g \in Handlers : SettingUp(g)' => SettingUp(g) \/ g = h
    BY <1>1, <1>2 DEF Setup, MovedTo, ScopedIsSetUp
  <2> QED
    BY <1>1, <2>1 DEF Setup, IInv, Alone
<1>12. SetLast'
  BY <1>1, <1>2 DEF Setup, IInv, TypeOK, MovedTo, SetLast, NoneUnderWay, OneInstalls, Installing
<1>13. Capped'
  BY DEF Setup, IInv, TypeOK, Capped
<1> QED
  BY <1>3, <1>4, <1>5, <1>10, <1>6, <1>7, <1>8, <1>9, <1>11, <1>12, <1>13 DEF IInv

LEMMA RecordModuleKeeps ==
  ASSUME TreasuryAssumption, IInv, NEW h \in Handlers, RecordModule(h)
  PROVE  IInv'
<1> DEFINE step == "scopeTarget"
<1> USE DEF SettingUp, SetupSteps, Deployments, ScopeCalls, Kinds, onChain, history
<1>1. request' \in [Handlers -> Request] /\ MovedTo(h, step)
  <2>1. step \in Steps
    BY StepSets
  <2> QED
    BY <2>1, GotoMoves DEF RecordModule, IInv
<1>2. request \in [Handlers -> Request] /\ request[h] \in Request
  BY RequestType DEF IInv
<1>3. TypeOK'
  BY <1>1 DEF RecordModule, IInv, TypeOK, Request
<1>4. ScopedIsSetUp'
  BY <1>2 DEF RecordModule, IInv, TypeOK, ScopedIsSetUp, Seen, Grounded, OneInstalls, Installing
<1>5. Awaited'
  <2>1. request[h].receipt # "awaited"
    BY DEF RecordModule, IInv, Waiting
  <2> QED
    BY <1>1, <2>1, AwaitedStays DEF RecordModule
<1>10. Waiting'
  BY <1>1 DEF RecordModule, IInv, MovedTo, Waiting
<1>6. Seen'
  BY <1>1, <1>2 DEF RecordModule, IInv, MovedTo, Seen, Grounded, ScopedIsSetUp
<1>7. Grounded'
  BY <1>1, <1>2 DEF RecordModule, IInv, TypeOK, MovedTo, Grounded, OneInstalls, Installing
<1>8. OneInstalls'
  <2>1. \A g \in Handlers : Installing(g)' => Installing(g) /\ g # h
    BY <1>1 DEF RecordModule, MovedTo, Installing
  <2> QED
    BY <2>1 DEF RecordModule, IInv, OneInstalls, Installing
<1>9. Unspent'
  BY <1>1, <1>2 DEF RecordModule, IInv, TypeOK, Unspent, ScopedIsSetUp, Grounded, OneInstalls, Installing
<1>11. Alone'
  <2>1. \A g \in Handlers : SettingUp(g)' => SettingUp(g)
    BY <1>1, <1>2 DEF RecordModule, MovedTo, ScopedIsSetUp
  <2> QED
    BY <1>1, <2>1 DEF RecordModule, IInv, Alone, Grounded, OneInstalls, Installing
<1>12. SetLast'
  BY <1>1, <1>2 DEF RecordModule, IInv, TypeOK, MovedTo, SetLast, NoneUnderWay, OneInstalls, Installing
<1>13. Capped'
  BY DEF RecordModule, IInv, TypeOK, Capped
<1> QED
  BY <1>3, <1>4, <1>5, <1>10, <1>6, <1>7, <1>8, <1>9, <1>11, <1>12, <1>13 DEF IInv

LEMMA RecordScopeKeeps ==
  ASSUME TreasuryAssumption, IInv, NEW h \in Handlers, RecordScope(h)
  PROVE  IInv'
<1> DEFINE step == "idle"
<1> USE DEF SettingUp, SetupSteps, Deployments, ScopeCalls, Kinds, onChain, history
<1>1. request' \in [Handlers -> Request] /\ MovedTo(h, step)
  <2>1. step \in Steps
    BY StepSets
  <2> QED
    BY <2>1, DoneMoves DEF RecordScope, IInv
<1>2. request \in [Handlers -> Request] /\ request[h] \in Request
  BY RequestType DEF IInv
<1>3. TypeOK'
  BY <1>1 DEF RecordScope, IInv, TypeOK, Request
<1>4. ScopedIsSetUp'
  BY <1>2 DEF RecordScope, IInv, TypeOK, ScopedIsSetUp, Seen, Grounded, OneInstalls, Installing
<1>5. Awaited'
  <2>1. request[h].receipt # "awaited"
    BY DEF RecordScope, IInv, Waiting
  <2> QED
    BY <1>1, <2>1, AwaitedStays DEF RecordScope
<1>10. Waiting'
  BY <1>1 DEF RecordScope, IInv, MovedTo, Waiting
<1>6. Seen'
  BY <1>1, <1>2 DEF RecordScope, IInv, MovedTo, Seen, Grounded, ScopedIsSetUp
<1>7. Grounded'
  BY <1>1, <1>2 DEF RecordScope, IInv, TypeOK, MovedTo, Grounded, OneInstalls, Installing
<1>8. OneInstalls'
  <2>1. \A g \in Handlers : Installing(g)' => Installing(g) /\ g # h
    BY <1>1 DEF RecordScope, MovedTo, Installing
  <2> QED
    BY <2>1 DEF RecordScope, IInv, OneInstalls, Grounded
<1>9. Unspent'
  BY <1>1, <1>2 DEF RecordScope, IInv, TypeOK, Unspent, ScopedIsSetUp, Grounded, OneInstalls, Installing
<1>11. Alone'
  <2>1. \A g \in Handlers : SettingUp(g)' => SettingUp(g) /\ g # h
    BY <1>1, <1>2 DEF RecordScope, MovedTo, ScopedIsSetUp
  <2> QED
    BY <1>1, <2>1 DEF RecordScope, IInv, Alone
<1>12. SetLast'
  BY <1>1, <1>2 DEF RecordScope, IInv, TypeOK, MovedTo, SetLast, NoneUnderWay, OneInstalls, Installing
<1>13. Capped'
  BY DEF RecordScope, IInv, TypeOK, Capped
<1> QED
  BY <1>3, <1>4, <1>5, <1>10, <1>6, <1>7, <1>8, <1>9, <1>11, <1>12, <1>13 DEF IInv

LEMMA AssignKeeps ==
  ASSUME TreasuryAssumption, IInv, NEW h \in Handlers, NEW m \in Managers, Assign(h, m)
  PROVE  IInv'
<1> USE DEF SettingUp, SetupSteps, Deployments, ScopeCalls, Kinds, onChain, history
<1>2. request \in [Handlers -> Request] /\ request[h] \in Request
  BY RequestType DEF IInv
<1>1. request' \in [Handlers -> Request] /\ MovedTo(h, "assignRoles")
  <2>1. "assignRoles" \in Steps
    BY StepSets
  <2> QED
    BY <2>1, <1>2 DEF Assign, MovedTo, Request
<1>3. TypeOK'
  BY <1>1 DEF Assign, IInv, TypeOK, Request
<1>4. ScopedIsSetUp'
  BY DEF Assign, IInv, ScopedIsSetUp
<1>5. Awaited'
  <2>1. request[h].receipt # "awaited"
    BY DEF Assign, IInv, Waiting
  <2> QED
    BY <1>1, <2>1, AwaitedStays DEF Assign
<1>6. Waiting'
  BY <1>1 DEF Assign, IInv, MovedTo, Waiting
<1>7. Seen'
  BY <1>1 DEF Assign, IInv, MovedTo, Seen
<1>8. Grounded'
  BY <1>1 DEF Assign, IInv, MovedTo, Grounded
<1>9. OneInstalls'
  <2>1. \A g \in Handlers : Installing(g)' => Installing(g)
    BY <1>1 DEF MovedTo, Installing
  <2> QED
    BY <2>1 DEF Assign, IInv, OneInstalls
<1>10. Unspent'
  BY DEF Assign, IInv, Unspent
<1>11. Alone'
  <2>1. \A g \in Handlers : SettingUp(g)' => SettingUp(g)
    BY <1>1 DEF MovedTo
  <2> QED
    BY <2>1 DEF Assign, IInv, Alone
<1>12. SetLast'
  BY <1>1 DEF Assign, IInv, MovedTo, SetLast, NoneUnderWay
<1>13. Capped'
  BY DEF Assign, IInv, Capped
<1> QED
  BY <1>3, <1>4, <1>5, <1>6, <1>7, <1>8, <1>9, <1>10, <1>11, <1>12, <1>13 DEF IInv

\* A transaction with a nonce of its own.
LEMMA AppendKeeps ==
  ASSUME TreasuryAssumption, IInv, NEW h \in Handlers, Send(h),
         pool' = Append(pool, Transaction(h)), taken' = taken
  PROVE  IInv'
<1> USE DEF SettingUp, SetupSteps, Deployments, ScopeCalls, Kinds, onChain, history
<1> DEFINE tx == [kind |-> request[h].at, manager |-> request[h].manager, by |-> {h}]
<1>2. /\ request \in [Handlers -> Request] /\ request[h] \in Request
      /\ pool \in Seq(Sent) /\ tx \in Sent /\ tx = Transaction(h)
  BY RequestType, PoolType DEF IInv, Send, Request, Sent, Transaction
<1>1. /\ request' \in [Handlers -> Request]
      /\ request'[h].at = request[h].at /\ request'[h].receipt = "awaited"
      /\ request'[h].manager = request[h].manager
      /\ \A g \in Handlers \ {h} : request'[g] = request[g]
  BY <1>2 DEF Send, Request
<1>14. /\ pool' \in Seq(Sent)
       /\ DOMAIN pool' = 1 .. Len(pool) + 1 /\ DOMAIN pool = 1 .. Len(pool)
       /\ Len(pool) \in Nat
       /\ \A i \in DOMAIN pool : pool'[i] = pool[i]
       /\ pool'[Len(pool) + 1] = tx
  <2>1. pool' = Append(pool, tx)
    BY <1>2
  <2> HIDE DEF tx
  <2> QED
    BY <1>2, <2>1
<1>15. request[h].receipt = "none" /\ request[h].at \in Kinds
  BY DEF Send
<1>16. \A i \in DOMAIN pool' : i \in DOMAIN pool \/ i = Len(pool) + 1
  BY <1>14
<1>3. TypeOK'
  BY <1>1, <1>14 DEF Send, IInv, TypeOK, Request, Sent
<1>4. ScopedIsSetUp'
  BY DEF Send, IInv, ScopedIsSetUp
<1>5. Awaited'
  <2>1. \A i \in DOMAIN pool : h \notin pool[i].by
    BY <1>15 DEF IInv, Awaited
  <2>2. \A i \in DOMAIN pool : pool[i].by \subseteq Handlers
    BY PoolType DEF IInv, Sent
  <2>3. \A i \in DOMAIN pool' : \A g \in pool'[i].by : request'[g].receipt = "awaited"
    BY <1>1, <1>14, <1>16, <2>1, <2>2 DEF IInv, Awaited
  <2>4. \A i, j \in DOMAIN pool' : \A g \in Handlers :
          g \in pool'[i].by /\ g \in pool'[j].by => i = j
    BY <1>14, <1>16, <2>1 DEF IInv, Awaited
  <2>5. taken' = 0 => \A i \in DOMAIN pool' : \A g \in pool'[i].by :
          /\ request'[g].at = pool'[i].kind /\ request'[g].manager = pool'[i].manager
          /\ \A k \in pool'[i].by : k = g
    BY <1>1, <1>14, <1>16, <2>1, <2>2 DEF IInv, Awaited
  <2> QED
    BY <2>3, <2>4, <2>5 DEF Awaited
<1>6. Waiting'
  <2>1. \A g \in Handlers : request'[g].receipt # "none" => request'[g].at \in Kinds
    BY <1>1, <1>15 DEF IInv, Waiting
  <2>2. taken' = 0 => \A g \in Handlers : request'[g].receipt # "another"
    BY <1>1 DEF IInv, Waiting
  <2> QED
    BY <2>1, <2>2 DEF Waiting
<1>7. Seen'
  BY <1>1, <1>15 DEF Send, IInv, Seen
<1>8. Grounded'
  <2>1. UNCHANGED <<row, taken>>
    BY DEF Send
  <2>2. \A i \in DOMAIN pool' : pool'[i].kind = "assignRoles" =>
          pool'[i].manager \in Managers /\ (taken = 0 => row.roles = "scoped")
    BY <1>14, <1>16 DEF IInv, Grounded
  <2>3. \A g \in Handlers :
          request'[g].at = request[g].at /\ request'[g].manager = request[g].manager
    BY <1>1
  <2> QED
    BY <2>1, <2>2, <2>3 DEF IInv, Grounded
<1>9. OneInstalls'
  <2>1. \A g \in Handlers : Installing(g)' => Installing(g)
    BY <1>1, <1>15 DEF Installing
  <2> QED
    BY <2>1 DEF Send, IInv, OneInstalls
<1>10. Unspent'
  BY DEF Send, IInv, Unspent
<1>11. Alone'
  <2>1. \A g \in Handlers : SettingUp(g)' => SettingUp(g)
    BY <1>1, <1>15
  <2> QED
    BY <2>1 DEF Send, IInv, Alone
<1>12. SetLast'
  <2> SUFFICES ASSUME ~overlapped, taken = 0
               PROVE  SetLast'
    BY DEF Send, SetLast
  <2>1. \A g \in Handlers : SettingUp(g) => g = h \/ request[h].at # "setAllowance"
    BY DEF IInv, Alone
  <2>2. request[h].at = "setAllowance" =>
          \A i \in DOMAIN pool : pool[i].kind = "setAllowance" => pool[i].by = {}
    <3> SUFFICES ASSUME request[h].at = "setAllowance", NEW i \in DOMAIN pool,
                        pool[i].kind = "setAllowance", NEW g \in pool[i].by
                 PROVE  FALSE
      OBVIOUS
    <3>1. g \in Handlers
      BY PoolType DEF IInv, Sent
    <3>2. request[g].at = "setAllowance" /\ request[g].receipt = "awaited"
      BY DEF IInv, Awaited
    <3> QED
      BY <2>1, <3>1, <3>2, <1>15
  <2>3. request[h].at = "setAllowance" => row.roles # "scoped"
    BY DEF IInv, Alone
  <2>4. \A i, j \in DOMAIN pool' :
           pool'[i].kind = "setAllowance" /\ pool'[i].by # {} /\ i < j =>
             pool'[j].kind # "setAllowance"
    BY <1>14, <1>16, <2>2 DEF IInv, SetLast
  <2>5. ASSUME NEW g \in Handlers,
               \/ request'[g].at = "recordScope"
               \/ request'[g].at = "setAllowance" /\ request'[g].receipt = "success"
        PROVE  NoneUnderWay'
    <3>1. g # h /\ request[g] = request'[g]
      BY <1>1, <1>15, <2>5
    <3>2. request[h].at # "setAllowance"
      BY <2>1, <2>5, <3>1
    <3> QED
      BY <1>14, <1>16, <2>5, <3>1, <3>2 DEF IInv, SetLast, NoneUnderWay
  <2>6. row.roles = "scoped" => NoneUnderWay'
    BY <1>14, <1>16, <2>3 DEF IInv, SetLast, NoneUnderWay
  <2> QED
    BY <2>4, <2>5, <2>6 DEF Send, SetLast
<1>13. Capped'
  BY DEF Send, IInv, Capped
<1> QED
  BY <1>3, <1>4, <1>5, <1>6, <1>7, <1>8, <1>9, <1>10, <1>11, <1>12, <1>13 DEF IInv

\* A transaction with a nonce that was taken: it, or the one before, is mined.
LEMMA TakenKeeps ==
  ASSUME IInv, taken' # 0, UNCHANGED <<row, onChain, misread, overlapped>>
  PROVE  ScopedIsSetUp' /\ OneInstalls' /\ Unspent' /\ SetLast' /\ Capped'
BY DEF onChain, IInv, ScopedIsSetUp, OneInstalls, Unspent, SetLast, Capped

LEMMA ReplaceKeeps ==
  ASSUME TreasuryAssumption, IInv, NEW h \in Handlers, Send(h), taken' = taken + 1,
         NEW i \in DOMAIN pool, NEW tx \in {pool[i], Transaction(h)},
         pool' = [pool EXCEPT ![i] = [tx EXCEPT !.by = pool[i].by \cup {h}]]
  PROVE  IInv'
<1> USE DEF SettingUp, SetupSteps, Deployments, ScopeCalls, Kinds, onChain, history
<1>2. /\ request \in [Handlers -> Request] /\ request[h] \in Request
      /\ pool \in Seq(Sent) /\ pool[i] \in Sent /\ tx \in Sent
      /\ request[h].receipt = "none" /\ request[h].at \in Kinds
  BY RequestType, PoolType DEF IInv, Send, Request, Sent, Transaction
<1>1. /\ request' \in [Handlers -> Request]
      /\ request'[h].at = request[h].at /\ request'[h].receipt = "awaited"
      /\ request'[h].manager = request[h].manager
      /\ \A g \in Handlers \ {h} : request'[g] = request[g]
  BY <1>2 DEF Send, Request
<1>14. /\ pool' \in Seq(Sent) /\ DOMAIN pool' = DOMAIN pool
       /\ \A j \in DOMAIN pool \ {i} : pool'[j] = pool[j]
       /\ pool'[i].by = pool[i].by \cup {h}
       /\ pool'[i].kind = tx.kind /\ pool'[i].manager = tx.manager
  <2>1. [tx EXCEPT !.by = pool[i].by \cup {h}] \in Sent
    BY <1>2 DEF Sent
  <2> QED
    BY <1>2, <2>1 DEF Sent
<1>15. taken \in Nat /\ taken' # 0 /\ taken' \in Nat
  BY DEF IInv, TypeOK
<1>3. TypeOK'
  BY <1>1, <1>14, <1>15 DEF Send, IInv, TypeOK, Request, Sent
<1>5. Awaited'
  <2>1. \A j \in DOMAIN pool : h \notin pool[j].by
    BY <1>2 DEF IInv, Awaited
  <2>2. \A j \in DOMAIN pool : pool[j].by \subseteq Handlers
    BY PoolType DEF IInv, Sent
  <2>3. \A j \in DOMAIN pool' : \A g \in pool'[j].by : request'[g].receipt = "awaited"
    BY <1>1, <1>14, <2>1, <2>2 DEF IInv, Awaited
  <2>4. \A j, k \in DOMAIN pool' : \A g \in Handlers :
          g \in pool'[j].by /\ g \in pool'[k].by => j = k
    BY <1>14, <2>1 DEF IInv, Awaited
  <2> QED
    BY <1>15, <2>3, <2>4 DEF Awaited
<1>6. Waiting'
  BY <1>1, <1>2, <1>15 DEF IInv, Waiting
<1>7. Seen'
  BY <1>1, <1>2 DEF Send, IInv, Seen
<1>8. Grounded'
  <2>1. tx.kind = "assignRoles" => tx.manager \in Managers
    BY DEF IInv, Grounded, Transaction
  <2> QED
    BY <1>1, <1>14, <1>15, <2>1 DEF Send, IInv, Grounded
<1>11. Alone'
  <2>1. \A g \in Handlers : SettingUp(g)' => SettingUp(g)
    BY <1>1, <1>2
  <2> QED
    BY <2>1 DEF Send, IInv, Alone
<1> QED
  BY <1>3, <1>5, <1>6, <1>7, <1>8, <1>11, <1>15, TakenKeeps DEF Send, IInv

LEMMA SendKeeps ==
  ASSUME TreasuryAssumption, IInv, NEW h \in Handlers, Send(h)
  PROVE  IInv'
<1>1. CASE pool' = Append(pool, Transaction(h)) /\ taken' = taken
  BY <1>1, AppendKeeps
<1>2. CASE /\ taken' = taken + 1
           /\ \E i \in DOMAIN pool : \E tx \in {pool[i], Transaction(h)} :
                pool' = [pool EXCEPT ![i] = [tx EXCEPT !.by = pool[i].by \cup {h}]]
  BY <1>2, ReplaceKeeps
<1> QED
  BY <1>1, <1>2 DEF Send

LEMMA OtherKeeps ==
  ASSUME TreasuryAssumption, IInv, NEW i \in DOMAIN pool, OtherSends(i)
  PROVE  IInv'
<1> USE DEF SettingUp, SetupSteps, Deployments, ScopeCalls, Kinds, onChain, history
<1>2. pool \in Seq(Sent) /\ pool[i] \in Sent
  BY PoolType DEF IInv
<1>14. /\ pool' \in Seq(Sent) /\ DOMAIN pool' = DOMAIN pool
       /\ \A j \in DOMAIN pool \ {i} : pool'[j] = pool[j]
       /\ pool'[i].by = pool[i].by /\ pool'[i].kind = "other"
  <2>1. [kind |-> "other", manager |-> None, by |-> pool[i].by] \in Sent
    BY <1>2 DEF Sent
  <2> QED
    BY <1>2, <2>1 DEF OtherSends
<1>15. taken \in Nat /\ taken' # 0 /\ taken' \in Nat
  BY DEF OtherSends, IInv, TypeOK
<1>3. TypeOK'
  BY <1>14, <1>15 DEF OtherSends, IInv, TypeOK, Sent
<1>5. Awaited'
  BY <1>14, <1>15 DEF OtherSends, IInv, Awaited
<1>6. Waiting' /\ Seen' /\ Alone'
  BY <1>15 DEF OtherSends, IInv, Waiting, Seen, Alone
<1>8. Grounded'
  BY <1>14, <1>15 DEF OtherSends, IInv, Grounded
<1> QED
  BY <1>3, <1>5, <1>6, <1>8, <1>15, TakenKeeps DEF OtherSends, IInv

LEMMA FailKeeps ==
  ASSUME TreasuryAssumption, IInv, NEW h \in Handlers, Fail(h)
  PROVE  IInv'
<1> USE DEF SettingUp, SetupSteps, Deployments, ScopeCalls, Kinds, onChain, history
<1>2. request \in [Handlers -> Request] /\ pool \in Seq(Sent)
  BY RequestType, PoolType DEF IInv
<1>1. request' \in [Handlers -> Request] /\ MovedTo(h, "idle")
  BY DoneMoves DEF Fail, IInv
<1>14. /\ DOMAIN pool' = DOMAIN pool
       /\ \A i \in DOMAIN pool :
            /\ pool'[i] \in Sent /\ pool'[i].kind = pool[i].kind
            /\ pool'[i].manager = pool[i].manager
            /\ pool'[i].by = pool[i].by \ {h}
  <2>1. \A i \in DOMAIN pool : pool[i] \in Sent
    BY PoolType DEF IInv
  <2>2. pool' = [i \in DOMAIN pool |-> [pool[i] EXCEPT !.by = pool[i].by \ {h}]]
    BY DEF Fail
  <2>3. \A i \in DOMAIN pool : [pool[i] EXCEPT !.by = pool[i].by \ {h}] \in Sent
    BY <2>1 DEF Sent
  <2>4. \A i \in DOMAIN pool : pool[i] = [kind |-> pool[i].kind,
                              manager |-> pool[i].manager, by |-> pool[i].by]
    BY <2>1 DEF Sent
  <2> QED
    BY <2>1, <2>2, <2>3, <2>4
<1>15. pool' \in Seq(Sent)
  <2>1. DOMAIN pool = 1 .. Len(pool) /\ Len(pool) \in Nat
    BY <1>2
  <2>2. pool' \in [1 .. Len(pool) -> Sent]
    BY <1>14, <2>1 DEF Fail
  <2> QED
    BY <2>1, <2>2
<1>3. TypeOK'
  BY <1>1, <1>15 DEF Fail, IInv, TypeOK, Request, Sent
<1>4. ScopedIsSetUp'
  BY DEF Fail, IInv, ScopedIsSetUp
<1>5. Awaited'
  <2>1. \A i \in DOMAIN pool : pool[i].by \subseteq Handlers
    BY PoolType DEF IInv, Sent
  <2>2. \A i \in DOMAIN pool' : \A g \in pool'[i].by :
          i \in DOMAIN pool /\ g \in pool[i].by /\ request'[g] = request[g]
    BY <1>1, <1>14, <2>1 DEF MovedTo
  <2> QED
    BY <1>14, <2>2 DEF Fail, IInv, Awaited
<1>6. Waiting'
  BY <1>1 DEF Fail, IInv, MovedTo, Waiting
<1>7. Seen'
  BY <1>1 DEF Fail, IInv, MovedTo, Seen
<1>8. Grounded'
  BY <1>1, <1>14 DEF Fail, IInv, MovedTo, Grounded
<1>9. OneInstalls'
  <2>1. \A g \in Handlers : Installing(g)' => Installing(g)
    BY <1>1 DEF MovedTo, Installing
  <2> QED
    BY <2>1 DEF Fail, IInv, OneInstalls
<1>10. Unspent'
  BY DEF Fail, IInv, Unspent
<1>11. Alone'
  <2>1. \A g \in Handlers : SettingUp(g)' => SettingUp(g)
    BY <1>1 DEF MovedTo
  <2> QED
    BY <2>1 DEF Fail, IInv, Alone
<1>12. SetLast'
  <2>1. NoneUnderWay => NoneUnderWay'
    BY <1>14 DEF NoneUnderWay
  <2>2. \A g \in Handlers :
           \/ request'[g].at = "recordScope"
           \/ request'[g].at = "setAllowance" /\ request'[g].receipt = "success"
           => request'[g] = request[g]
    BY <1>1 DEF MovedTo
  <2> QED
    BY <1>14, <2>1, <2>2 DEF Fail, IInv, SetLast
<1>13. Capped'
  BY DEF Fail, IInv, Capped
<1> QED
  BY <1>3, <1>4, <1>5, <1>6, <1>7, <1>8, <1>9, <1>10, <1>11, <1>12, <1>13 DEF IInv

LEMMA ReceiptKeeps ==
  ASSUME TreasuryAssumption, IInv, NEW h \in Handlers, Receipt(h)
  PROVE  IInv'
<1> USE DEF SettingUp, SetupSteps, Deployments, ScopeCalls, Kinds, onChain, history
<1> DEFINE step == IF GoesOn(request[h]) THEN After(request[h].at) ELSE "idle"
<1>2. /\ request \in [Handlers -> Request] /\ request[h] \in Request
      /\ request[h].at \in Kinds /\ request[h].receipt \in {"success", "another", "reverted"}
  BY RequestType DEF IInv, Waiting, Receipt
<1>1. request' \in [Handlers -> Request] /\ MovedTo(h, step)
  <2>1. step \in Steps
    BY <1>2, StepSets
  <2>2. CASE ~GoesOn(request[h])
    <3>1. Done(h)
      BY <2>2 DEF Receipt
    <3> QED
      BY <2>2, <3>1, DoneMoves DEF IInv
  <2>3. CASE GoesOn(request[h])
    <3>1. Goto(h, step)
      BY <2>3 DEF Receipt
    <3> QED
      BY <2>1, <3>1, GotoMoves DEF IInv
  <2> QED
    BY <2>2, <2>3
<1>14. /\ misread \subseteq misread' /\ misread' \subseteq Kinds
       /\ "deployModule" \notin misread'
       /\ step # "idle" => /\ step = After(request[h].at)
                           /\ request[h].at \in executed \cup misread'
                           /\ request[h].at = "deployModule" => "deployModule" \in executed
  <2>1. misread \subseteq Kinds /\ "deployModule" \notin misread
    BY DEF IInv, TypeOK, ScopedIsSetUp
  <2>2. CASE GoesOn(request[h]) /\ Misleads(request[h])
    <3>1. misread' = misread \cup ({request[h].at} \ executed)
      BY <2>2 DEF Receipt
    <3>2. request[h].at # "deployModule"
      BY <2>2 DEF GoesOn, Misleads
    <3> QED
      BY <1>2, <2>1, <3>1, <3>2
  <2>3. CASE ~(GoesOn(request[h]) /\ Misleads(request[h]))
    <3>1. misread' = misread
      BY <2>3 DEF Receipt
    <3>2. GoesOn(request[h]) => request[h].receipt = "success"
      BY <2>3 DEF GoesOn, Misleads
    <3> QED
      BY <2>1, <3>1, <3>2 DEF IInv, Seen
  <2> QED
    BY <2>2, <2>3
<1>15. /\ step \notin {"claim", "deploySafe", "deployModule", "scopeTarget", "assignRoles"}
       /\ step = "recordSafe" => request[h].at = "deploySafe"
       /\ step = "enableModule" =>
            request[h].at = "deployModule" /\ request[h].receipt = "success"
       /\ step = "recordModule" => request[h].at = "enableModule"
       /\ step = "scopeFunction" => request[h].at = "scopeTarget"
       /\ step = "setAllowance" => request[h].at = "scopeFunction"
       /\ step = "recordScope" => /\ request[h].at = "setAllowance"
                                  /\ taken = 0 => request[h].receipt = "success"
  BY <1>2 DEF After, GoesOn, IInv, Waiting
<1> HIDE DEF step
<1>3. TypeOK'
  BY <1>1, <1>14 DEF Receipt, IInv, TypeOK, Request
<1>4. ScopedIsSetUp'
  BY <1>14 DEF Receipt, IInv, ScopedIsSetUp
<1>5. Awaited'
  <2>1. request[h].receipt # "awaited"
    BY <1>2
  <2> QED
    BY <1>1, <2>1, AwaitedStays DEF Receipt
<1>6. Waiting'
  BY <1>1 DEF Receipt, IInv, MovedTo, Waiting
<1>7. Seen'
  BY <1>1, <1>14, <1>15 DEF Receipt, IInv, MovedTo, Seen
<1>8. Grounded'
  BY <1>1, <1>15 DEF Receipt, IInv, MovedTo, Grounded
<1>9. OneInstalls'
  <2>1. \A g \in Handlers : Installing(g)' => Installing(g)
    BY <1>1, <1>15 DEF MovedTo, Installing
  <2> QED
    BY <2>1 DEF Receipt, IInv, OneInstalls
<1>10. Unspent'
  BY DEF Receipt, IInv, Unspent
<1>11. Alone'
  <2>1. \A g \in Handlers : SettingUp(g)' => SettingUp(g)
    BY <1>1, <1>15 DEF MovedTo
  <2> QED
    BY <2>1 DEF Receipt, IInv, Alone
<1>12. SetLast'
  BY <1>1, <1>15 DEF Receipt, IInv, MovedTo, SetLast, NoneUnderWay
<1>13. Capped'
  BY DEF Receipt, IInv, Capped
<1> QED
  BY <1>3, <1>4, <1>5, <1>6, <1>7, <1>8, <1>9, <1>10, <1>11, <1>12, <1>13 DEF IInv

LEMMA MineKeeps ==
  ASSUME TreasuryAssumption, IInv, Mine
  PROVE  IInv'
<1> USE DEF SettingUp, SetupSteps, Deployments, ScopeCalls, Kinds, onChain, history
<1> DEFINE tx == Head(pool)
<1>2. /\ request \in [Handlers -> Request] /\ pool \in Seq(Sent)
      /\ \A i \in DOMAIN pool : pool[i] \in Sent
  BY PoolType DEF IInv, TypeOK, Request
<1>14. /\ pool' \in Seq(Sent) /\ tx \in Sent /\ tx = pool[1]
       /\ 1 \in DOMAIN pool
       /\ \A i \in DOMAIN pool' : i \in Nat /\ i >= 1 /\ i + 1 \in DOMAIN pool /\ pool'[i] = pool[i + 1]
  BY <1>2 DEF Mine
<1>15. \A h \in tx.by :
         /\ h \in Handlers /\ request[h] \in Request /\ request[h].receipt = "awaited"
         /\ taken = 0 => request[h].at = tx.kind /\ request[h].manager = tx.manager
  BY <1>2, <1>14 DEF IInv, Awaited, Sent
<1>16. PICK status \in {"success", "reverted"} :
         /\ request' = [h \in Handlers |->
              IF h \in tx.by THEN [request[h] EXCEPT !.receipt = Answer(h, tx, status)]
              ELSE request[h]]
         /\ status = "reverted" => UNCHANGED <<executed, allowance, managers>>
         /\ status = "success" =>
              /\ MaySucceed(tx.kind)
              /\ executed' = executed \cup ({tx.kind} \cap Kinds)
              /\ allowance' = IF tx.kind = "setAllowance" THEN Cap ELSE allowance
              /\ managers' = IF tx.kind = "assignRoles" THEN managers \cup {tx.manager}
                                                       ELSE managers
  BY DEF Mine
<1>19. \A h \in Handlers :
         /\ Answer(h, tx, status) \in {"success", "another", "reverted"}
         /\ Answer(h, tx, status) = "success" => status = "success" /\ tx.kind = request[h].at
         /\ h \in tx.by /\ taken = 0 => Answer(h, tx, status) # "another"
  BY <1>15, <1>16 DEF Answer
<1>1. /\ request' \in [Handlers -> Request]
      /\ \A g \in Handlers : g \notin tx.by => request'[g] = request[g]
      /\ \A g \in Handlers : request'[g].at = request[g].at /\ request'[g].manager = request[g].manager
      /\ \A g \in tx.by : request'[g].receipt = Answer(g, tx, status)
  BY <1>2, <1>15, <1>16, <1>19 DEF Request
<1>17. executed \subseteq executed'
  BY <1>16
<1>18. UNCHANGED <<row, spent, misread, overlapped, taken>>
  BY DEF Mine
<1> HIDE DEF tx
<1>20. \A h \in Handlers : request'[h].receipt = "success" =>
         \/ request'[h] = request[h]
         \/ h \in tx.by /\ status = "success" /\ tx.kind = request[h].at
  BY <1>1, <1>19
<1>3. TypeOK'
  <2>1. tx.kind \in Kinds \cup {"other"} /\ (tx.kind = "assignRoles" => tx.manager \in Managers)
    BY <1>14 DEF IInv, Grounded, Sent
  <2>2. executed' \subseteq Kinds /\ allowance' \in Nat /\ managers' \subseteq Managers
    BY <1>16, <2>1 DEF IInv, TypeOK, TreasuryAssumption
  <2> QED
    BY <1>1, <1>14, <1>18, <2>2 DEF IInv, TypeOK, Request, Sent
<1>4. ScopedIsSetUp'
  <2>1. tx.kind = "assignRoles" /\ taken = 0 => row.roles = "scoped"
    BY <1>14 DEF IInv, Grounded
  <2> QED
    BY <1>16, <1>17, <1>18, <2>1 DEF IInv, ScopedIsSetUp
<1>5. Awaited'
  <2>1. \A i \in DOMAIN pool' : \A h \in pool'[i].by :
          h \in Handlers /\ h \notin tx.by /\ i + 1 \in DOMAIN pool /\ h \in pool[i + 1].by
    <3>1. \A i \in DOMAIN pool' : i + 1 # 1
      BY <1>14
    <3>2. \A i \in DOMAIN pool' : pool'[i].by \subseteq Handlers
      BY <1>14, <1>2 DEF Sent
    <3> QED
      BY <1>14, <3>1, <3>2 DEF IInv, Awaited
  <2>2. \A i, j \in DOMAIN pool' : i + 1 = j + 1 => i = j
    BY <1>14
  <2>3. \A i \in DOMAIN pool' : \A h \in pool'[i].by : request'[h].receipt = "awaited"
    BY <1>1, <2>1 DEF IInv, Awaited
  <2>4. \A i, j \in DOMAIN pool' : \A h \in Handlers :
          h \in pool'[i].by /\ h \in pool'[j].by => i = j
    BY <2>1, <2>2 DEF IInv, Awaited
  <2>5. taken' = 0 => \A i \in DOMAIN pool' : \A h \in pool'[i].by :
          /\ request'[h].at = pool'[i].kind /\ request'[h].manager = pool'[i].manager
          /\ \A g \in pool'[i].by : g = h
    BY <1>1, <1>14, <1>18, <2>1 DEF IInv, Awaited
  <2> QED
    BY <2>3, <2>4, <2>5 DEF Awaited
<1>6. Waiting'
  <2>1. \A h \in Handlers : request'[h].receipt # "none" => request'[h].at \in Kinds
    BY <1>1, <1>15 DEF IInv, Waiting
  <2>2. taken' = 0 => \A h \in Handlers : request'[h].receipt # "another"
    BY <1>1, <1>18, <1>19 DEF IInv, Waiting
  <2> QED
    BY <2>1, <2>2 DEF Waiting
<1>7. Seen'
  <2>1. ASSUME NEW h \in Handlers, request'[h].receipt = "success"
        PROVE  request'[h].at \in executed'
    <3>1. CASE request'[h] = request[h]
      BY <1>17, <2>1, <3>1 DEF IInv, Seen
    <3>2. CASE h \in tx.by /\ status = "success" /\ tx.kind = request[h].at
      <4>1. request[h].at \in Kinds
        BY <1>15, <3>2 DEF IInv, Waiting
      <4> QED
        BY <1>1, <1>16, <3>2, <4>1
    <3> QED
      BY <1>20, <2>1, <3>1, <3>2
  <2> QED
    BY <1>1, <1>17, <1>18, <2>1 DEF IInv, Seen
<1>8. Grounded'
  BY <1>1, <1>14, <1>18 DEF IInv, Grounded
<1>9. OneInstalls'
  <2> SUFFICES ASSUME taken = 0
               PROVE  OneInstalls'
    BY <1>18 DEF OneInstalls
  <2>1. CASE tx.kind = "deployModule" /\ status = "success"
    <3>1. "deployModule" \notin executed
      BY <1>16, <2>1 DEF MaySucceed
    <3>2. \A g \in Handlers : ~Installing(g)
      BY <3>1 DEF IInv, OneInstalls
    <3>3. row.roles = "none" /\ "deployModule" \in executed'
      BY <1>16, <2>1, <3>1 DEF IInv, ScopedIsSetUp, TypeOK
    <3>4. \A g \in Handlers : Installing(g)' => g \in tx.by
      BY <1>1, <3>2 DEF Installing
    <3>5. \A g, h \in tx.by : g = h
      BY <1>14 DEF IInv, Awaited
    <3> QED
      BY <1>18, <3>3, <3>4, <3>5 DEF OneInstalls
  <2>2. CASE ~(tx.kind = "deployModule" /\ status = "success")
    <3>1. \A g \in Handlers : Installing(g)' => Installing(g)
      BY <1>1, <1>20, <2>2 DEF Installing
    <3> QED
      BY <1>17, <1>18, <3>1 DEF IInv, OneInstalls
  <2> QED
    BY <2>1, <2>2
<1>10. Unspent'
  BY <1>16, <1>18, TreasuryAssumption DEF IInv, Unspent, TypeOK, TreasuryAssumption
<1>11. Alone'
  BY <1>1, <1>18 DEF IInv, Alone
<1>12. SetLast'
  <2> SUFFICES ASSUME ~overlapped, taken = 0
               PROVE  SetLast'
    BY <1>18 DEF SetLast
  <2>1. NoneUnderWay => NoneUnderWay'
    BY <1>14 DEF NoneUnderWay
  <2>2. ASSUME NEW h \in tx.by, request'[h].at = "setAllowance"
        PROVE  NoneUnderWay'
    <3>1. tx.kind = "setAllowance" /\ tx.by # {}
      BY <1>1, <1>15, <2>2
    <3>2. \A j \in DOMAIN pool : 1 < j => pool[j].kind # "setAllowance"
      BY <1>14, <3>1 DEF IInv, SetLast
    <3> QED
      BY <1>14, <3>2 DEF NoneUnderWay
  <2>3. \A g \in Handlers : request'[g].at = "recordScope" => request[g].at = "recordScope"
    BY <1>1
  <2>4. \A i, j \in DOMAIN pool' :
           pool'[i].kind = "setAllowance" /\ pool'[i].by # {} /\ i < j =>
             pool'[j].kind # "setAllowance"
    <3>1. \A i, j \in DOMAIN pool' : i < j => i + 1 < j + 1
      BY <1>14
    <3> QED
      BY <1>14, <3>1 DEF IInv, SetLast
  <2>5. ASSUME NEW h \in Handlers,
               \/ request'[h].at = "recordScope"
               \/ request'[h].at = "setAllowance" /\ request'[h].receipt = "success"
        PROVE  NoneUnderWay'
    <3>1. CASE h \in tx.by
      BY <1>1, <1>15, <2>1, <2>2, <2>3, <2>5, <3>1 DEF IInv, SetLast
    <3>2. CASE h \notin tx.by
      BY <1>1, <2>1, <2>5, <3>2 DEF IInv, SetLast
    <3> QED
      BY <3>1, <3>2
  <2>6. row'.roles = "scoped" => NoneUnderWay'
    BY <1>18, <2>1 DEF IInv, SetLast
  <2> QED
    BY <2>4, <2>5, <2>6 DEF SetLast
<1>13. Capped'
  <2>1. tx.kind = "setAllowance" => overlapped \/ taken # 0 \/ row.roles # "scoped"
    BY <1>14 DEF IInv, SetLast, NoneUnderWay
  <2> QED
    BY <1>16, <1>18, <2>1, TreasuryAssumption
    DEF IInv, Capped, Unspent, TypeOK, TreasuryAssumption
<1> QED
  BY <1>3, <1>4, <1>5, <1>6, <1>7, <1>8, <1>9, <1>10, <1>11, <1>12, <1>13 DEF IInv

LEMMA SpendKeeps ==
  ASSUME TreasuryAssumption, IInv, Spend
  PROVE  IInv'
<1> USE DEF SettingUp, history
<1>1. TypeOK' /\ Unspent' /\ Capped'
  BY TreasuryAssumption
  DEF Spend, IInv, TypeOK, Unspent, Capped, ScopedIsSetUp, TreasuryAssumption
<1>2. ScopedIsSetUp'
  BY DEF Spend, IInv, ScopedIsSetUp
<1>3. Awaited' /\ Waiting' /\ Seen' /\ Grounded'
  BY DEF Spend, IInv, Awaited, Waiting, Seen, Grounded
<1>4. OneInstalls' /\ Alone' /\ SetLast'
  BY DEF Spend, IInv, OneInstalls, Installing, Alone, SetLast, NoneUnderWay
<1> QED
  BY <1>1, <1>2, <1>3, <1>4 DEF IInv

LEMMA IInvStep ==
  ASSUME TreasuryAssumption, IInv, [Next]_vars
  PROVE  IInv'
<1>1. ASSUME NEW h \in Handlers, Handle(h)
      PROVE  IInv'
  BY <1>1, DeployKeeps, ClaimKeeps, RecordSafeKeeps, SetupKeeps, RecordModuleKeeps,
     RecordScopeKeeps, AssignKeeps, SendKeeps, ReceiptKeeps, FailKeeps DEF Handle
<1>2. CASE UNCHANGED vars
  BY <1>2 DEF vars, onChain, history, IInv, TypeOK, ScopedIsSetUp, Awaited, Waiting, Seen,
     Grounded, OneInstalls, Installing, Unspent, Alone, SettingUp, SetLast, NoneUnderWay, Capped
<1> QED
  BY <1>1, <1>2, OtherKeeps, MineKeeps, SpendKeeps DEF Next

LEMMA IInvInit ==
  ASSUME TreasuryAssumption, Init
  PROVE  IInv
<1> USE DEF Init
<1>1. TypeOK
  <2>1. Idle \in Request
    BY StepSets DEF Idle, Request
  <2>2. request \in [Handlers -> Request]
    BY <2>1
  <2>3. pool \in Seq(Sent)
    OBVIOUS
  <2> QED
    BY <2>2, <2>3 DEF TypeOK, Request, Sent
<1>2. \A h \in Handlers : request[h] = Idle
  OBVIOUS
<1>3. ScopedIsSetUp /\ Awaited /\ Waiting /\ Seen /\ Grounded
  BY <1>2 DEF ScopedIsSetUp, Awaited, Waiting, Seen, Grounded, SettingUp, SetupSteps,
     Deployments, ScopeCalls, Idle
<1>4. OneInstalls /\ Unspent /\ Alone /\ SetLast /\ Capped
  BY <1>2, TreasuryAssumption
  DEF OneInstalls, Installing, Unspent, Alone, SettingUp, SetupSteps, Deployments, ScopeCalls,
      SetLast, NoneUnderWay, Capped, Idle, TreasuryAssumption
<1> QED
  BY <1>1, <1>3, <1>4 DEF IInv

-----------------------------------------------------------------------------

\* The inductive invariant, for any number of requests that overlap and fail and
\* any number of transactions that revert or lose their nonce.
THEOREM Invariant == Spec => []IInv
<1>1. Init => IInv
  BY IInvInit, TreasuryAssumption
<1>2. IInv /\ [Next]_vars => IInv'
  BY IInvStep, TreasuryAssumption
<1> QED
  BY <1>1, <1>2, PTL DEF Spec

\* The row, the requests and the transactions under way have their types.
THEOREM TypeCorrect == Spec => []TypeOK
<1>1. IInv => TypeOK
  BY DEF IInv
<1> QED
  BY <1>1, Invariant, PTL

\* What the row says is on the chain or was misread: see ScopedIsSetUp.
THEOREM RowIsTrue == Spec => []ScopedIsSetUp
<1>1. IInv => ScopedIsSetUp
  BY DEF IInv
<1> QED
  BY <1>1, Invariant, PTL

\* However often a set-up fails and is resumed, managers move no more than the
\* cap while set-ups do not overlap and no two transactions have one nonce.
THEOREM CapIsKept == Spec => []SpentWithinCap
<1>1. IInv => SpentWithinCap
  BY TreasuryAssumption DEF IInv, TypeOK, Capped, SpentWithinCap, TreasuryAssumption
<1> QED
  BY <1>1, Invariant, PTL
=============================================================================
