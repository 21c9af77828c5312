------------------------ MODULE PaymentReconcilerProofs ------------------------
(***************************************************************************)
(* Theorems about PaymentReconciler, for any number of requests, transfers *)
(* and ticks, which may overlap and fail anywhere: what holds whatever the *)
(* providers lag, how a request ends, which payments are reported, and     *)
(* which are found when the lag is within the safety offset.               *)
(***************************************************************************)
EXTENDS PaymentReconciler, FiniteSetTheorems, SequenceTheorems, TLAPS

Plain == Requests \ Split

RowRecord == [status : Status, tx : Transfers \cup {None}, confirmations : Int,
              start : Nat, scanned : Nat, deadline : Nat, total : Nat]

\* What a tick read: the rows of some requests.
Snaps == UNION { [S -> RowRecord] : S \in SUBSET Requests }

TickRecord == [at : Steps, todo : SUBSET Requests, snap : Snaps, row : Int,
               block : Nat, now : Nat, logs : Seq(Transfers),
               matched : BOOLEAN, paid : BOOLEAN]

TypeInv ==
    /\ rows \in [Requests -> RowRecord]
    /\ contrib \in [Transfers -> Split \cup {None}]
    /\ settled \subseteq Transfers
    /\ history \subseteq Transfers
    /\ announced \in [Requests -> 0 .. Many]
    /\ tick \in [Ticks -> TickRecord]
    /\ height \in Nat
    /\ mined \in [Transfers -> Nat]

\* The states of a plain request once a transfer was found, or its time is up.
Detected == { "confirming", "paid", "expired" }

Working(s) == s.at \notin { "idle", "row", "failed" }

\* What a row of request r says is true.
RowSound(r) ==
    /\ rows[r].status \in {"none", "pending"} => rows[r].tx = None
    /\ rows[r].status = "none" => rows[r].total = 0
    /\ rows[r].tx # None => mined[rows[r].tx] # 0
    /\ r \in Plain /\ rows[r].status \in {"confirming", "paid"} => rows[r].tx # None

CreditSound ==
    /\ \A t \in Transfers : contrib[t] # None => mined[t] # 0
    /\ \A t \in Transfers : mined[t] <= height

\* What a tick k remembers is true where it stands: its rows exist, one that it
\* saw confirming still names its transfer, and its logs were mined by the block
\* it read.
TickSound(k) ==
    /\ tick[k].todo \subseteq DOMAIN tick[k].snap
    /\ \A r \in DOMAIN tick[k].snap : rows[r].status # "none"
    /\ \A r \in DOMAIN tick[k].snap \cap Plain :
         tick[k].snap[r].status = "confirming" =>
           /\ rows[r].status \in Detected
           /\ tick[k].snap[r].tx # None
           /\ rows[r].tx = tick[k].snap[r].tx
    /\ Working(tick[k]) => tick[k].row \in DOMAIN tick[k].snap
    /\ tick[k].at = "confirm" =>
         tick[k].row \in Plain /\ tick[k].snap[tick[k].row].status = "confirming"
    /\ tick[k].at \in {"claim", "save"} => tick[k].logs # <<>>
    /\ ~Working(tick[k]) => tick[k].logs = <<>>
    /\ tick[k].block <= height
    /\ \A i \in DOMAIN tick[k].logs : mined[tick[k].logs[i]] \in 1 .. tick[k].block

IInv ==
    /\ TypeInv
    /\ \A r \in Requests : RowSound(r)
    /\ CreditSound
    /\ \A k \in Ticks : TickSound(k)
    /\ SplitTotals
    /\ PaidIsDeep

-----------------------------------------------------------------------------

(* Helpers *)

LEMMA SnapType ==
  ASSUME NEW s \in Snaps
  PROVE  DOMAIN s \subseteq Requests /\ \A r \in DOMAIN s : s[r] \in RowRecord
BY DEF Snaps

LEMMA SnapMade ==
  ASSUME NEW S \in SUBSET Requests, NEW s \in [S -> RowRecord]
  PROVE  s \in Snaps
BY DEF Snaps

LEMMA IdleType ==
  /\ Idle \in TickRecord
  /\ DOMAIN Idle.snap = {} /\ DOMAIN Idle.logs = {}
<1>1. <<>> \in [{} -> RowRecord]
  OBVIOUS
<1>2. <<>> \in Snaps
  BY <1>1, SnapMade
<1>3. <<>> \in Seq(Transfers)
  OBVIOUS
<1> QED
  BY <1>1, <1>2, <1>3 DEF Idle, TickRecord, Steps

\* The other ticks stay where they are.
OthersStay(k) == \A j \in Ticks \ {k} : tick'[j] = tick[j]

\* What no step undoes.
Later ==
    /\ \A r \in Requests :
         /\ rows[r].status # "none" => rows'[r].status # "none"
         /\ r \in Plain /\ rows[r].status \in Detected =>
              /\ rows'[r].status \in Detected
              /\ rows[r].tx # None => rows'[r].tx = rows[r].tx
    /\ height' \in Nat /\ height' >= height
    /\ \A t \in Transfers : mined[t] # 0 => mined'[t] = mined[t]

LEMMA TickFrame ==
  ASSUME TypeInv, Later, NEW k \in Ticks, tick'[k] = tick[k], TickSound(k)
  PROVE  TickSound(k)'
<1> DEFINE s == tick[k]
<1>1. s \in TickRecord /\ s.snap \in Snaps /\ s.logs \in Seq(Transfers) /\ s.block \in Nat
  BY DEF TypeInv, TickRecord
<1>2. \A r \in DOMAIN s.snap : r \in Requests
  BY <1>1, SnapType
<1>3. \A i \in DOMAIN s.logs : s.logs[i] \in Transfers
  BY <1>1
<1>4. s.block <= height'
  BY <1>1 DEF TickSound, Later, TypeInv
<1>5. \A i \in DOMAIN s.logs : mined'[s.logs[i]] \in 1 .. s.block
  BY <1>3 DEF TickSound, Later
<1>6. \A r \in DOMAIN s.snap : rows'[r].status # "none"
  BY <1>2 DEF TickSound, Later
<1>7. \A r \in DOMAIN s.snap \cap Plain : s.snap[r].status = "confirming" =>
           /\ rows'[r].status \in Detected
           /\ s.snap[r].tx # None
           /\ rows'[r].tx = s.snap[r].tx
  BY <1>2 DEF TickSound, Later
<1> QED
  BY <1>4, <1>5, <1>6, <1>7 DEF TickSound

\* A step that leaves the tables and the chain alone.
LEMMA TablesFrame ==
  ASSUME IInv, UNCHANGED <<rows, contrib, settled, height, mined>>
  PROVE  /\ Later
         /\ \A r \in Requests : RowSound(r)'
         /\ CreditSound' /\ SplitTotals' /\ PaidIsDeep'
<1>1. Later
  BY DEF Later, IInv, TypeInv
<1>2. \A r \in Requests : RowSound(r)'
  BY DEF IInv, RowSound
<1>3. CreditSound' /\ SplitTotals' /\ PaidIsDeep'
  BY DEF IInv, CreditSound, SplitTotals, PaidIsDeep
<1> QED
  BY <1>1, <1>2, <1>3

\* Tick k has moved within its row, with some of the logs it had.
Moved(k) ==
    /\ tick'[k].todo = tick[k].todo
    /\ tick'[k].snap = tick[k].snap
    /\ tick'[k].row = tick[k].row
    /\ tick'[k].block = tick[k].block /\ tick'[k].now = tick[k].now
    /\ Working(tick[k])
    /\ Working(tick'[k]) /\ tick'[k].at # "confirm"
    /\ tick'[k].at \in {"claim", "save"} => tick'[k].logs # <<>>
    /\ \A i \in DOMAIN tick'[k].logs : \E j \in DOMAIN tick[k].logs :
         tick'[k].logs[i] = tick[k].logs[j]

LEMMA MovedSound ==
  ASSUME IInv, Later, NEW k \in Ticks, Moved(k), OthersStay(k),
         tick' \in [Ticks -> TickRecord]
  PROVE  \A j \in Ticks : TickSound(j)'
<1>1. ASSUME NEW j \in Ticks \ {k} PROVE TickSound(j)'
  BY <1>1, TickFrame DEF IInv, OthersStay
<1> DEFINE s == tick[k]
<1>2. s \in TickRecord /\ s.snap \in Snaps /\ s.logs \in Seq(Transfers) /\ s.block \in Nat
  BY DEF IInv, TypeInv, TickRecord
<1>3. \A r \in DOMAIN s.snap : r \in Requests
  BY <1>2, SnapType
<1>4. \A i \in DOMAIN s.logs : s.logs[i] \in Transfers /\ mined'[s.logs[i]] \in 1 .. s.block
  BY <1>2 DEF TickSound, Later, IInv
<1>5. s.block <= height'
  BY <1>2 DEF TickSound, Later, IInv, TypeInv
<1>6. \A r \in DOMAIN s.snap : rows'[r].status # "none"
  BY <1>3 DEF TickSound, Later, IInv
<1>7. \A r \in DOMAIN s.snap \cap Plain : s.snap[r].status = "confirming" =>
           /\ rows'[r].status \in Detected
           /\ s.snap[r].tx # None
           /\ rows'[r].tx = s.snap[r].tx
  BY <1>3 DEF TickSound, Later, IInv
<1>8. s.todo \subseteq DOMAIN s.snap /\ s.row \in DOMAIN s.snap
  BY DEF TickSound, IInv, Moved
<1>9. TickSound(k)'
  BY <1>4, <1>5, <1>6, <1>7, <1>8 DEF TickSound, Moved, Working
<1> QED
  BY <1>1, <1>9

\* Tick k is done with its row, or over.
Between(k) ==
    /\ tick'[k].at \in {"idle", "row", "failed"}
    /\ tick'[k].todo \subseteq DOMAIN tick'[k].snap
    /\ DOMAIN tick'[k].snap \subseteq DOMAIN tick[k].snap
    /\ \A r \in DOMAIN tick'[k].snap : tick'[k].snap[r] = tick[k].snap[r]
    /\ tick'[k].logs = <<>> /\ tick'[k].block = 0

LEMMA BetweenSound ==
  ASSUME IInv, Later, NEW k \in Ticks, Between(k), OthersStay(k),
         tick' \in [Ticks -> TickRecord]
  PROVE  \A j \in Ticks : TickSound(j)'
<1>1. ASSUME NEW j \in Ticks \ {k} PROVE TickSound(j)'
  BY <1>1, TickFrame DEF IInv, OthersStay
<1> DEFINE s == tick[k]
           n == tick'[k]
<1>2. s \in TickRecord /\ s.snap \in Snaps
  BY DEF IInv, TypeInv, TickRecord
<1>3. \A r \in DOMAIN s.snap : r \in Requests
  BY <1>2, SnapType
<1>4. \A r \in DOMAIN n.snap : rows'[r].status # "none"
  BY <1>3 DEF TickSound, Later, IInv, Between
<1>5. \A r \in DOMAIN n.snap \cap Plain : n.snap[r].status = "confirming" =>
           /\ rows'[r].status \in Detected
           /\ n.snap[r].tx # None
           /\ rows'[r].tx = n.snap[r].tx
  BY <1>3 DEF TickSound, Later, IInv, Between
<1>6. n.block <= height' /\ DOMAIN n.logs = {}
  BY DEF Between, Later
<1>7. TickSound(k)'
  BY <1>4, <1>5, <1>6 DEF TickSound, Between, Working
<1> QED
  BY <1>1, <1>7

LEMMA RestBetween ==
  ASSUME TypeInv, NEW k \in Ticks, Rest(k)
  PROVE  tick' \in [Ticks -> TickRecord] /\ OthersStay(k) /\ Between(k)
<1>1. tick'[k] = Idle /\ tick' \in [Ticks -> TickRecord] /\ OthersStay(k)
  BY IdleType DEF Rest, TypeInv, OthersStay
<1>2. Idle.at = "idle" /\ Idle.todo = {} /\ Idle.logs = <<>> /\ Idle.block = 0
  BY DEF Idle
<1> QED
  BY <1>1, <1>2, IdleType DEF Between

LEMMA NextRowBetween ==
  ASSUME TypeInv, NEW k \in Ticks, TickSound(k), NextRow(k)
  PROVE  tick' \in [Ticks -> TickRecord] /\ OthersStay(k) /\ Between(k)
<1> DEFINE snap == [q \in tick[k].todo |-> tick[k].snap[q]]
           n == [Idle EXCEPT !.at = "row", !.todo = tick[k].todo, !.snap = snap]
<1>1. tick[k].snap \in Snaps /\ tick[k].todo \in SUBSET Requests
  BY DEF TypeInv, TickRecord
<1>2. snap \in Snaps
  <2>1. snap \in [tick[k].todo -> RowRecord]
    BY <1>1, SnapType DEF TickSound
  <2> QED
    BY <1>1, <2>1, SnapMade
<1> HIDE DEF snap
<1>3. n = [Idle EXCEPT !.at = "row", !.todo = tick[k].todo, !.snap = snap]
  OBVIOUS
<1> HIDE DEF n
<1>6. /\ n \in TickRecord
      /\ n.at = "row" /\ n.todo = tick[k].todo /\ n.snap = snap /\ n.logs = <<>> /\ n.block = 0
  <2>1. Idle.logs = <<>> /\ Idle.block = 0
    BY DEF Idle
  <2>2. Idle \in TickRecord
    BY IdleType
  <2> QED
    BY <1>1, <1>2, <1>3, <2>1, <2>2 DEF TickRecord, Steps
<1>7. tick' = [tick EXCEPT ![k] = n]
  BY DEF NextRow, n, snap
<1>8. tick'[k] = n /\ tick' \in [Ticks -> TickRecord] /\ OthersStay(k)
  BY <1>6, <1>7 DEF TypeInv, OthersStay
<1>9. DOMAIN snap = tick[k].todo /\ \A q \in tick[k].todo : snap[q] = tick[k].snap[q]
  BY DEF snap
<1> QED
  BY <1>6, <1>8, <1>9 DEF Between, TickSound

LEMMA LogsSplit ==
  ASSUME NEW s \in Seq(Transfers), s # <<>>
  PROVE  /\ Head(s) \in Transfers /\ 1 \in DOMAIN s /\ Head(s) = s[1]
         /\ Tail(s) \in Seq(Transfers)
         /\ \A i \in DOMAIN Tail(s) : i + 1 \in DOMAIN s /\ Tail(s)[i] = s[i + 1]
         /\ \A i \in DOMAIN s : i = 1 \/ (i - 1 \in DOMAIN Tail(s) /\ Tail(s)[i - 1] = s[i])
<1>1. Len(s) \in Nat \ {0} /\ DOMAIN s = 1 .. Len(s)
  BY EmptySeq, LenProperties
<1>2. Tail(s) \in Seq(Transfers) /\ Len(Tail(s)) = Len(s) - 1
  BY <1>1
<1>3. DOMAIN Tail(s) = 1 .. Len(s) - 1
  BY <1>2, LenProperties
<1>4. \A i \in 1 .. Len(s) - 1 : Tail(s)[i] = s[i + 1]
  BY <1>1
<1> QED
  BY <1>1, <1>2, <1>3, <1>4

LEMMA GotoMoved ==
  ASSUME TypeInv, NEW k \in Ticks, NEW step \in {"settle", "close", "claim", "save"},
         Goto(k, step), Working(tick[k]), step \in {"claim", "save"} => tick[k].logs # <<>>
  PROVE  tick' \in [Ticks -> TickRecord] /\ OthersStay(k) /\ Moved(k)
<1>1. tick[k] \in TickRecord
  BY DEF TypeInv
<1>2. tick'[k] = [tick[k] EXCEPT !.at = step]
  BY DEF Goto, TypeInv
<1>3. tick' \in [Ticks -> TickRecord] /\ OthersStay(k)
  BY <1>1 DEF Goto, TypeInv, TickRecord, OthersStay, Steps
<1> QED
  BY <1>1, <1>2, <1>3 DEF Moved, TickRecord, Working

LEMMA NextLogMoved ==
  ASSUME TypeInv, NEW k \in Ticks, NextLog(k), Working(tick[k]), tick[k].logs # <<>>
  PROVE  tick' \in [Ticks -> TickRecord] /\ OthersStay(k) /\ Moved(k)
<1>1. tick[k] \in TickRecord /\ tick[k].logs \in Seq(Transfers)
  BY DEF TypeInv, TickRecord
<1>2. tick'[k] = [tick[k] EXCEPT !.at = "check", !.logs = Tail(@)]
  BY DEF NextLog, TypeInv
<1>3. /\ Tail(tick[k].logs) \in Seq(Transfers)
      /\ \A i \in DOMAIN Tail(tick[k].logs) :
           i + 1 \in DOMAIN tick[k].logs /\ Tail(tick[k].logs)[i] = tick[k].logs[i + 1]
  BY <1>1, LogsSplit
<1>4. tick' \in [Ticks -> TickRecord] /\ OthersStay(k)
  BY <1>1, <1>2, <1>3 DEF NextLog, TypeInv, TickRecord, OthersStay, Steps
<1>5. /\ tick'[k].todo = tick[k].todo /\ tick'[k].snap = tick[k].snap
      /\ tick'[k].row = tick[k].row /\ tick'[k].block = tick[k].block
      /\ tick'[k].now = tick[k].now
      /\ tick'[k].at = "check" /\ tick'[k].logs = Tail(tick[k].logs)
  BY <1>1, <1>2 DEF TickRecord
<1> QED
  BY <1>3, <1>4, <1>5 DEF Moved, Working

\* A step of a tick that leaves the tables of requests and the chain alone.
LEMMA QuietStep ==
  ASSUME IInv, NEW k \in Ticks, UNCHANGED <<rows, contrib, settled, height, mined>>,
         history' \subseteq Transfers, announced' \in [Requests -> 0 .. Many],
         tick' \in [Ticks -> TickRecord], OthersStay(k), Moved(k) \/ Between(k)
  PROVE  IInv'
<1>1. /\ Later /\ CreditSound' /\ SplitTotals' /\ PaidIsDeep'
      /\ \A r \in Requests : RowSound(r)'
  BY TablesFrame
<1>2. \A j \in Ticks : TickSound(j)'
  BY <1>1, MovedSound, BetweenSound
<1>3. TypeInv'
  BY DEF IInv, TypeInv
<1> QED
  BY <1>1, <1>2, <1>3 DEF IInv

LEMMA AnnounceType ==
  ASSUME TypeInv, NEW r \in Requests, Announce(r)
  PROVE  announced' \in [Requests -> 0 .. Many]
BY DEF Announce, TypeInv, Many

\* The row that a tick works on.
LEMMA RowOfTick ==
  ASSUME IInv, NEW k \in Ticks, Working(tick[k])
  PROVE  /\ tick[k].row \in Requests
         /\ tick[k].snap[tick[k].row] \in RowRecord
         /\ rows[tick[k].row] \in RowRecord
         /\ rows[tick[k].row].status # "none"
<1>1. tick[k].row \in DOMAIN tick[k].snap /\ tick[k].snap \in Snaps
  BY DEF IInv, TickSound, TypeInv, TickRecord
<1> QED
  BY <1>1, SnapType DEF IInv, TickSound, TypeInv

\* The log that a tick works on.
LEMMA LogOfTick ==
  ASSUME IInv, NEW k \in Ticks, tick[k].logs # <<>>
  PROVE  /\ Head(tick[k].logs) \in Transfers
         /\ mined[Head(tick[k].logs)] \in 1 .. tick[k].block
         /\ tick[k].block \in Nat /\ tick[k].block <= height
<1>1. tick[k].logs \in Seq(Transfers) /\ tick[k].block \in Nat
  BY DEF IInv, TypeInv, TickRecord
<1> QED
  BY <1>1, LogsSplit DEF IInv, TickSound

-----------------------------------------------------------------------------
(* Every action keeps IInv *)

LEMMA InitKeeps == Init => IInv
<1> SUFFICES ASSUME Init PROVE IInv
  OBVIOUS
<1> USE ReconcilerAssumption DEF Init
<1>1. TypeInv
  <2>1. Absent \in RowRecord
    BY DEF Absent, RowRecord, Status
  <2> QED
    BY <2>1, IdleType DEF TypeInv, Many
<1>2. \A r \in Requests : RowSound(r)
  BY DEF RowSound, Absent
<1>3. CreditSound
  BY DEF CreditSound
<1>4. \A k \in Ticks : TickSound(k)
  <2>1. Idle.at = "idle" /\ Idle.todo = {} /\ Idle.block = 0 /\ Idle.logs = <<>>
    BY DEF Idle
  <2> QED
    BY <2>1, IdleType DEF TickSound, Working
<1>5. SplitTotals
  <2>1. ASSUME NEW r \in Split
        PROVE  { t \in Transfers : contrib[t] = r } = {}
    BY DEF Requests
  <2>2. \A r \in Split : rows[r].total = 0 /\ rows[r].status = "none"
    BY DEF Absent
  <2> QED
    BY <2>1, <2>2, FS_EmptySet DEF SplitTotals
<1>6. PaidIsDeep
  BY DEF PaidIsDeep, Absent
<1> QED
  BY <1>1, <1>2, <1>3, <1>4, <1>5, <1>6 DEF IInv

\* Tick k has read the rows of todo.
Started(k, todo) ==
    /\ tick'[k].at = "row" /\ tick'[k].todo = todo /\ DOMAIN tick'[k].snap = todo
    /\ \A r \in todo : tick'[k].snap[r] = rows[r]
    /\ tick'[k].logs = <<>> /\ tick'[k].block = 0

LEMMA StartTick ==
  ASSUME TypeInv, NEW k \in Ticks, NEW todo \in SUBSET Active, Start(k, todo)
  PROVE  tick' \in [Ticks -> TickRecord] /\ OthersStay(k) /\ Started(k, todo)
<1> DEFINE snap == [r \in todo |-> rows[r]]
           n == [Idle EXCEPT !.at = "row", !.todo = todo, !.snap = snap]
<1>1. todo \in SUBSET Requests /\ snap \in [todo -> RowRecord]
  BY DEF Active, TypeInv
<1>2. snap \in Snaps
  BY <1>1, SnapMade
<1>3. DOMAIN snap = todo /\ \A r \in todo : snap[r] = rows[r]
  OBVIOUS
<1>4. tick' = [tick EXCEPT ![k] = n]
  BY DEF Start
<1> HIDE DEF snap
<1>5. n = [Idle EXCEPT !.at = "row", !.todo = todo, !.snap = snap]
  OBVIOUS
<1> HIDE DEF n
<1>6. Idle \in TickRecord /\ Idle.logs = <<>> /\ Idle.block = 0
  BY IdleType DEF Idle
<1>7. /\ n \in TickRecord
      /\ n.at = "row" /\ n.todo = todo /\ n.snap = snap /\ n.logs = <<>> /\ n.block = 0
  BY <1>1, <1>2, <1>5, <1>6 DEF TickRecord, Steps
<1>8. tick'[k] = n /\ tick' \in [Ticks -> TickRecord] /\ OthersStay(k)
  BY <1>4, <1>7 DEF TypeInv, OthersStay
<1> QED
  BY <1>3, <1>7, <1>8 DEF Started

LEMMA StartKeeps ==
  ASSUME IInv, NEW k \in Ticks, NEW todo \in SUBSET Active, Start(k, todo)
  PROVE  IInv'
<1>1. tick' \in [Ticks -> TickRecord] /\ OthersStay(k) /\ Started(k, todo)
  BY StartTick DEF IInv
<1>2. UNCHANGED <<rows, contrib, settled, history, announced, height, mined>>
  BY DEF Start
<1>3. /\ Later /\ CreditSound' /\ SplitTotals' /\ PaidIsDeep'
      /\ \A r \in Requests : RowSound(r)'
  BY <1>2, TablesFrame
<1>4. TickSound(k)'
  <2>1. ASSUME NEW r \in todo
        PROVE  /\ rows[r].status # "none"
               /\ r \in Plain /\ rows[r].status = "confirming" =>
                    rows[r].status \in Detected /\ rows[r].tx # None
    BY DEF Active, IInv, RowSound, Detected
  <2>2. DOMAIN tick'[k].logs = {} /\ height \in Nat
    BY <1>1 DEF Started, IInv, TypeInv
  <2> QED
    BY <1>1, <1>2, <2>1, <2>2 DEF Started, TickSound, Working
<1>5. \A j \in Ticks \ {k} : TickSound(j)'
  BY <1>1, <1>3, TickFrame DEF IInv, OthersStay
<1>6. TypeInv'
  BY <1>1, <1>2 DEF IInv, TypeInv
<1> QED
  BY <1>3, <1>4, <1>5, <1>6 DEF IInv

LEMMA LeastOf ==
  ASSUME NEW S \in SUBSET Nat, S # {}
  PROVE  \E q \in S : \A s \in S : q <= s
<1>1. PICK q \in S : \A s \in S : ~(<<s, q>> \in OpToRel(<, Nat))
  BY NatLessThanWellFounded, WFMin
<1>2. ASSUME NEW s \in S PROVE q <= s
  <2>1. ~(<<s, q>> \in OpToRel(<, Nat))
    BY <1>1
  <2> QED
    BY <2>1 DEF OpToRel
<1> QED
  BY <1>2

\* Tick k has taken up a row, at height b.
Entered(k, b) ==
    /\ tick[k].at = "row" /\ tick'[k].at = "clock"
    /\ tick'[k].todo \subseteq tick[k].todo /\ tick'[k].row \in tick[k].todo
    /\ tick'[k].snap = tick[k].snap /\ tick'[k].logs = tick[k].logs
    /\ tick'[k].block = b

LEMMA RowTick ==
  ASSUME TypeInv, NEW k \in Ticks, Row(k)
  PROVE  /\ tick' \in [Ticks -> TickRecord] /\ OthersStay(k)
         /\ Between(k) \/ \E b \in Heights : Entered(k, b)
<1> DEFINE r == CHOOSE q \in tick[k].todo : \A s \in tick[k].todo : q <= s
<1>1. CASE tick[k].todo = {} /\ Rest(k)
  BY <1>1, RestBetween
<1>2. ASSUME tick[k].todo # {}, NEW b \in Heights, tick[k].at = "row",
             tick' = [tick EXCEPT ![k] = [@ EXCEPT !.at = "clock", !.todo = tick[k].todo \ {r},
                        !.row = r, !.block = b]]
      PROVE  tick' \in [Ticks -> TickRecord] /\ OthersStay(k) /\ Entered(k, b)
  <2>1. /\ tick[k] \in TickRecord /\ tick[k].todo \in SUBSET Requests
        /\ b \in Nat /\ b <= height /\ height \in Nat
    BY DEF TypeInv, TickRecord, Heights
  <2>2. r \in tick[k].todo
    <3>1. tick[k].todo \in SUBSET Nat => \E q \in tick[k].todo : \A s \in tick[k].todo : q <= s
      BY <1>2, LeastOf
    <3>2. tick[k].todo \in SUBSET Nat
      BY <2>1 DEF Requests
    <3> QED
      BY <1>2, <3>1, <3>2
  <2> HIDE DEF r
  <2> DEFINE n == [tick[k] EXCEPT !.at = "clock", !.todo = tick[k].todo \ {r}, !.row = r,
                                  !.block = b]
  <2>4. tick' = [tick EXCEPT ![k] = n]
    BY <1>2
  <2>5. r \in Int /\ tick[k].todo \ {r} \in SUBSET Requests
    BY <2>1, <2>2 DEF Requests
  <2>6. /\ n.todo = tick[k].todo \ {r} /\ n.row = r /\ n.block = b /\ n.at = "clock"
        /\ n.snap = tick[k].snap /\ n.logs = tick[k].logs
    BY <2>1 DEF TickRecord
  <2>7. n \in TickRecord
    BY <2>1, <2>5 DEF TickRecord, Steps
  <2> HIDE DEF n
  <2>8. tick'[k] = n /\ OthersStay(k) /\ tick' \in [Ticks -> TickRecord]
    BY <2>4, <2>7 DEF TypeInv, OthersStay
  <2> QED
    BY <1>2, <2>2, <2>6, <2>8 DEF Entered
<1>3. CASE tick[k].todo # {}
  BY <1>2, <1>3 DEF Row
<1> QED
  BY <1>1, <1>3 DEF Row

LEMMA RowKeeps ==
  ASSUME IInv, NEW k \in Ticks, Row(k)
  PROVE  IInv'
<1>1. UNCHANGED <<rows, contrib, settled, history, announced, height, mined>>
  BY DEF Row
<1>2. /\ tick' \in [Ticks -> TickRecord] /\ OthersStay(k)
      /\ Between(k) \/ \E b \in Heights : Entered(k, b)
  BY RowTick DEF IInv
<1>3. CASE Between(k)
  BY <1>1, <1>2, <1>3, QuietStep DEF IInv, TypeInv
<1>4. ASSUME NEW b \in Heights, Entered(k, b)
      PROVE  IInv'
  <2>1. /\ Later /\ CreditSound' /\ SplitTotals' /\ PaidIsDeep'
        /\ \A q \in Requests : RowSound(q)'
    BY <1>1, TablesFrame
  <2>2. TickSound(k)'
    <3>1. /\ tick[k].todo \subseteq DOMAIN tick[k].snap
          /\ tick[k].todo \subseteq Requests
          /\ \A i \in DOMAIN tick[k].logs : FALSE
      BY <1>4 DEF IInv, TickSound, Working, Entered, TypeInv, TickRecord
    <3>2. b <= height
      BY DEF Heights
    <3> QED
      BY <1>1, <1>4, <3>1, <3>2 DEF IInv, TickSound, Working, Entered
  <2>3. \A j \in Ticks \ {k} : TickSound(j)'
    BY <1>2, <2>1, TickFrame DEF IInv, OthersStay
  <2>4. TypeInv'
    BY <1>1, <1>2 DEF IInv, TypeInv
  <2> QED
    BY <2>1, <2>2, <2>3, <2>4 DEF IInv
<1> QED
  BY <1>2, <1>3, <1>4

\* Tick k has read the clock.
Timed(k) ==
    /\ tick[k].at = "clock" /\ tick'[k].at \in {"confirm", "scan"}
    /\ tick'[k].todo = tick[k].todo /\ tick'[k].row = tick[k].row
    /\ tick'[k].snap = tick[k].snap /\ tick'[k].logs = tick[k].logs
    /\ tick'[k].block = tick[k].block
    /\ tick'[k].at = "confirm" => /\ tick[k].snap[tick[k].row].status = "confirming"
                                  /\ tick[k].row \notin Split

LEMMA ClockTick ==
  ASSUME TypeInv, NEW k \in Ticks, Clock(k)
  PROVE  tick' \in [Ticks -> TickRecord] /\ OthersStay(k) /\ Timed(k)
<1> DEFINE r == tick[k].row
           at == IF tick[k].snap[r].status = "confirming" /\ r \notin Split
                 THEN "confirm" ELSE "scan"
<1>1. tick[k] \in TickRecord /\ height \in Nat
  BY DEF TypeInv
<1>2. tick[k].at = "clock" /\ tick' = [tick EXCEPT ![k] = [@ EXCEPT !.now = height, !.at = at]]
  BY DEF Clock
<1>3. /\ at \in {"confirm", "scan"} /\ at \in Steps
      /\ at = "confirm" => tick[k].snap[r].status = "confirming" /\ r \notin Split
  BY DEF Steps
<1> HIDE DEF r, at
<1> DEFINE n == [tick[k] EXCEPT !.now = height, !.at = at]
<1>4. tick' = [tick EXCEPT ![k] = n]
  BY <1>2
<1>5. /\ n \in TickRecord /\ n.at = at /\ n.todo = tick[k].todo /\ n.row = tick[k].row
      /\ n.snap = tick[k].snap /\ n.logs = tick[k].logs /\ n.block = tick[k].block
  BY <1>1, <1>3 DEF TickRecord
<1> HIDE DEF n
<1>6. tick'[k] = n /\ OthersStay(k) /\ tick' \in [Ticks -> TickRecord]
  BY <1>4, <1>5 DEF TypeInv, OthersStay
<1> QED
  BY <1>2, <1>3, <1>5, <1>6 DEF Timed, r

LEMMA ClockKeeps ==
  ASSUME IInv, NEW k \in Ticks, Clock(k)
  PROVE  IInv'
<1>1. UNCHANGED <<rows, contrib, settled, history, announced, height, mined>>
  BY DEF Clock
<1>2. tick' \in [Ticks -> TickRecord] /\ OthersStay(k) /\ Timed(k)
  BY ClockTick DEF IInv
<1>3. /\ Later /\ CreditSound' /\ SplitTotals' /\ PaidIsDeep'
      /\ \A q \in Requests : RowSound(q)'
  BY <1>1, TablesFrame
<1>4. TickSound(k)'
  <2>1. TickSound(k) /\ Working(tick[k]) /\ Working(tick'[k])
    BY <1>2 DEF IInv, Working, Timed
  <2>2. tick[k].row \in Requests
    BY <2>1, RowOfTick
  <2> QED
    BY <1>1, <1>2, <2>1, <2>2 DEF TickSound, Timed, Plain
<1>5. \A j \in Ticks \ {k} : TickSound(j)'
  BY <1>2, <1>3, TickFrame DEF IInv, OthersStay
<1>6. TypeInv'
  BY <1>1, <1>2 DEF IInv, TypeInv
<1> QED
  BY <1>3, <1>4, <1>5, <1>6 DEF IInv

LEMMA SaveTick ==
  ASSUME IInv, NEW k \in Ticks, Save(k)
  PROVE  /\ tick' \in [Ticks -> TickRecord] /\ OthersStay(k)
         /\ Between(k) \/ (Moved(k) /\ tick'[k].at = "check" /\ tick[k].row \in Split)
<1>1. tick[k].at = "save"
  BY DEF Save
<1>2. Working(tick[k]) /\ tick[k].logs # <<>>
  BY <1>1 DEF Working, IInv, TickSound
<1>3. CASE tick[k].row \in Split
  <2>1. tick[k] \in TickRecord /\ tick[k].logs \in Seq(Transfers)
    BY DEF IInv, TypeInv, TickRecord
  <2>2. /\ Tail(tick[k].logs) \in Seq(Transfers)
        /\ \A i \in DOMAIN Tail(tick[k].logs) :
             i + 1 \in DOMAIN tick[k].logs /\ Tail(tick[k].logs)[i] = tick[k].logs[i + 1]
    BY <1>2, <2>1, LogsSplit
  <2> DEFINE n == [tick[k] EXCEPT !.at = "check", !.logs = Tail(tick[k].logs),
                                  !.matched = TRUE, !.paid = FALSE]
  <2>3. tick' = [tick EXCEPT ![k] = n]
    BY <1>3 DEF Save
  <2>a. /\ n.todo = tick[k].todo /\ n.snap = tick[k].snap
        /\ n.row = tick[k].row /\ n.block = tick[k].block /\ n.now = tick[k].now
        /\ n.at = "check" /\ n.logs = Tail(tick[k].logs) /\ n \in TickRecord
    BY <2>1, <2>2 DEF TickRecord, Steps
  <2> HIDE DEF n
  <2>4. tick'[k] = n /\ OthersStay(k)
    BY <2>3 DEF IInv, TypeInv, OthersStay
  <2>5. /\ tick'[k].todo = tick[k].todo /\ tick'[k].snap = tick[k].snap
        /\ tick'[k].row = tick[k].row /\ tick'[k].block = tick[k].block
        /\ tick'[k].now = tick[k].now
        /\ tick'[k].at = "check" /\ tick'[k].logs = Tail(tick[k].logs)
        /\ tick'[k] \in TickRecord
    BY <2>4, <2>a
  <2>6. tick' \in [Ticks -> TickRecord]
    BY <2>3, <2>4, <2>5 DEF IInv, TypeInv
  <2>7. Moved(k)
    BY <1>2, <2>2, <2>5 DEF Moved, Working
  <2> QED
    BY <1>3, <2>4, <2>5, <2>6, <2>7
<1>4. CASE tick[k].row \notin Split
  <2>1. NextRow(k)
    BY <1>4 DEF Save
  <2> QED
    BY <2>1, NextRowBetween DEF IInv
<1> QED
  BY <1>3, <1>4

LEMMA SaveKeeps ==
  ASSUME IInv, NEW k \in Ticks, Save(k)
  PROVE  IInv'
<1>1. tick[k].at = "save" /\ UNCHANGED <<rows, contrib, settled, height, mined>>
  BY DEF Save
<1>2. Working(tick[k]) /\ tick[k].logs # <<>>
  BY <1>1 DEF Working, IInv, TickSound
<1>3. history' \subseteq Transfers
  BY <1>2, LogOfTick DEF Save, IInv, TypeInv
<1>4. announced' \in [Requests -> 0 .. Many]
  BY <1>2, RowOfTick, AnnounceType DEF Save, IInv, TypeInv
<1> QED
  BY <1>1, <1>3, <1>4, SaveTick, QuietStep

LEMMA CheckKeeps ==
  ASSUME IInv, NEW k \in Ticks, Check(k)
  PROVE  IInv'
<1>1. /\ tick[k].at = "check" /\ Working(tick[k]) /\ TypeInv
      /\ UNCHANGED <<rows, contrib, settled, history, announced, height, mined>>
      /\ history' \subseteq Transfers /\ announced' \in [Requests -> 0 .. Many]
  BY DEF Check, Working, IInv, TypeInv
<1>2. CASE Goto(k, "settle") \/ Goto(k, "close")
  BY <1>1, <1>2, GotoMoved, QuietStep
<1>3. CASE tick[k].logs # <<>> /\ NextLog(k)
  BY <1>1, <1>3, NextLogMoved, QuietStep
<1>4. CASE tick[k].logs # <<>> /\ Goto(k, "claim")
  BY <1>1, <1>4, GotoMoved, QuietStep
<1> QED
  BY <1>2, <1>3, <1>4 DEF Check

LEMMA FailKeeps ==
  ASSUME IInv, NEW k \in Ticks, Fail(k)
  PROVE  IInv'
<1> DEFINE n == [Idle EXCEPT !.at = "failed"]
<1>1. n \in TickRecord /\ n.at = "failed" /\ n.snap = Idle.snap /\ n.todo = {}
      /\ n.logs = <<>> /\ n.block = 0
  <2>1. Idle.todo = {} /\ Idle.logs = <<>> /\ Idle.block = 0
    BY DEF Idle
  <2> QED
    BY <2>1, IdleType DEF TickRecord, Steps
<1>2. tick' = [tick EXCEPT ![k] = n]
  BY DEF Fail
<1> HIDE DEF n
<1>3. tick'[k] = n /\ tick' \in [Ticks -> TickRecord] /\ OthersStay(k)
  BY <1>1, <1>2 DEF IInv, TypeInv, OthersStay
<1>4. Between(k)
  BY <1>1, <1>3, IdleType DEF Between
<1>5. UNCHANGED <<rows, contrib, settled, history, announced, height, mined>>
  BY DEF Fail
<1> QED
  BY <1>3, <1>4, <1>5, QuietStep DEF IInv, TypeInv

\* What a scan from block first finds at height b.
Found(k, first, b) == { t \in Transfers : /\ mined[t] # 0
                                          /\ mined[t] >= first
                                          /\ mined[t] <= tick[k].block
                                          /\ mined[t] <= b }

First(k) == ScanFrom(tick[k].snap[tick[k].row].scanned, tick[k].block)

\* Tick k holds the logs that it found.
Scanned(k, S) ==
    /\ tick'[k].todo = tick[k].todo /\ tick'[k].snap = tick[k].snap
    /\ tick'[k].row = tick[k].row /\ tick'[k].block = tick[k].block
    /\ tick'[k].now = tick[k].now /\ tick'[k].at = "check"
    /\ \A i \in DOMAIN tick'[k].logs : tick'[k].logs[i] \in S
    /\ \A t \in S : \E i \in DOMAIN tick'[k].logs : tick'[k].logs[i] = t

LEMMA ScanTick ==
  ASSUME TypeInv, NEW k \in Ticks, Scan(k)
  PROVE  /\ tick' \in [Ticks -> TickRecord] /\ OthersStay(k)
         /\ \E b \in Heights : Scanned(k, Found(k, First(k), b))
<1>a. PICK b \in Heights : \E logs \in SetToSeqs(Found(k, First(k), b)) :
        tick' = [tick EXCEPT ![k].at = "check", ![k].logs = logs]
  BY DEF Scan, Found, First
<1> DEFINE S == Found(k, First(k), b)
<1>b. S \in SUBSET Transfers /\ \A t \in S : mined[t] # 0 /\ mined[t] <= tick[k].block
  BY DEF Found
<1>c. \E logs \in SetToSeqs(S) :
        tick' = [tick EXCEPT ![k].at = "check", ![k].logs = logs]
  BY <1>a
<1> HIDE DEF S
<1>2. PICK logs \in SetToSeqs(S) :
        tick' = [tick EXCEPT ![k].at = "check", ![k].logs = logs]
  BY <1>c
<1>3. /\ logs \in Seq(Transfers) /\ \A i \in DOMAIN logs : logs[i] \in S
      /\ \A t \in S : \E i \in DOMAIN logs : logs[i] = t
  <2>1. Cardinality(S) \in Nat /\ IsFiniteSet(S)
    BY <1>b, FS_Subset, FS_CardinalityType, ReconcilerAssumption
  <2>2. logs \in Injection(1 .. Cardinality(S), S)
    BY <1>2 DEF SetToSeqs, Injection, IsInjective
  <2>3. Cardinality(1 .. Cardinality(S)) = Cardinality(S)
    BY <2>1, FS_Interval
  <2>4. logs \in Surjection(1 .. Cardinality(S), S)
    BY <2>1, <2>2, <2>3, FS_Injection
  <2> QED
    BY <1>b, <2>1, <2>4 DEF Surjection
<1>4. tick[k] \in TickRecord /\ tick[k].block \in Nat
  BY DEF TypeInv, TickRecord
<1>5. tick'[k] = [tick[k] EXCEPT !.at = "check", !.logs = logs] /\ OthersStay(k)
  BY <1>2 DEF TypeInv, OthersStay
<1>6. /\ tick'[k].todo = tick[k].todo /\ tick'[k].snap = tick[k].snap
      /\ tick'[k].row = tick[k].row /\ tick'[k].block = tick[k].block
      /\ tick'[k].now = tick[k].now
      /\ tick'[k].at = "check" /\ tick'[k].logs = logs /\ tick'[k] \in TickRecord
  BY <1>3, <1>4, <1>5 DEF TickRecord, Steps
<1>7. tick' \in [Ticks -> TickRecord]
  BY <1>2, <1>5, <1>6 DEF TypeInv
<1>8. Scanned(k, S)
  BY <1>3, <1>6 DEF Scanned
<1> QED
  BY <1>5, <1>7, <1>8 DEF S

LEMMA ScanKeeps ==
  ASSUME IInv, NEW k \in Ticks, Scan(k)
  PROVE  IInv'
<1>1. UNCHANGED <<rows, contrib, settled, history, announced, height, mined>>
      /\ tick[k].at = "scan" /\ Working(tick[k])
  BY DEF Scan, Working
<1>2. tick' \in [Ticks -> TickRecord] /\ OthersStay(k)
  BY ScanTick DEF IInv
<1>3. PICK b \in Heights : Scanned(k, Found(k, First(k), b))
  BY ScanTick DEF IInv
<1>4. /\ Later /\ CreditSound' /\ SplitTotals' /\ PaidIsDeep'
      /\ \A q \in Requests : RowSound(q)'
  BY <1>1, TablesFrame
<1>5. \A t \in Found(k, First(k), b) : mined[t] \in 1 .. tick[k].block
  BY DEF Found, IInv, TypeInv, TickRecord
<1>6. TickSound(k)'
  BY <1>1, <1>3, <1>5 DEF IInv, TickSound, Working, Scanned
<1>7. \A j \in Ticks \ {k} : TickSound(j)'
  BY <1>2, <1>4, TickFrame DEF IInv, OthersStay
<1>8. TypeInv'
  BY <1>1, <1>2 DEF IInv, TypeInv
<1> QED
  BY <1>4, <1>6, <1>7, <1>8 DEF IInv

\* Tick k has credited the log at hand.
LEMMA ToSave ==
  ASSUME IInv, NEW k \in Ticks, NEW paid \in BOOLEAN, tick[k].at = "claim",
         tick' = [tick EXCEPT ![k].at = "save", ![k].paid = paid]
  PROVE  /\ tick' \in [Ticks -> TickRecord] /\ OthersStay(k) /\ Moved(k)
         /\ tick'[k].at = "save"
<1> DEFINE m == [tick[k] EXCEPT !.at = "save", !.paid = paid]
<1>1. tick[k] \in TickRecord /\ "save" \in Steps /\ Working(tick[k]) /\ tick[k].logs # <<>>
  BY DEF Steps, IInv, TypeInv, TickSound, Working
<1>2. tick' = [tick EXCEPT ![k] = m]
  BY DEF IInv, TypeInv
<1>3. /\ m \in TickRecord
      /\ m.todo = tick[k].todo /\ m.snap = tick[k].snap
      /\ m.row = tick[k].row /\ m.block = tick[k].block /\ m.now = tick[k].now
      /\ m.at = "save" /\ m.logs = tick[k].logs
  BY <1>1 DEF TickRecord
<1> HIDE DEF m
<1>4. tick'[k] = m /\ OthersStay(k) /\ tick' \in [Ticks -> TickRecord]
  BY <1>2, <1>3 DEF IInv, TypeInv, OthersStay
<1> QED
  BY <1>1, <1>3, <1>4 DEF Moved, Working

\* A step of a tick that writes the row of one request r, of no transfer that
\* another row names; the totals and the depth of payments are for its lemma.
LEMMA RowStep ==
  ASSUME IInv, NEW k \in Ticks, NEW r \in Requests, NEW new \in RowRecord,
         rows' = [rows EXCEPT ![r] = new],
         UNCHANGED <<height, mined>>,
         contrib' \in [Transfers -> Split \cup {None}], settled' \subseteq Transfers,
         history' \subseteq Transfers, announced' \in [Requests -> 0 .. Many],
         \A t \in Transfers : contrib'[t] # None => mined[t] # 0,
         rows[r].status # "none", new.status # "none",
         r \in Plain /\ rows[r].status \in Detected => new.status \in Detected,
         rows[r].tx # None => new.tx = rows[r].tx,
         new.status = "pending" => new.tx = None,
         new.tx # None => mined[new.tx] # 0,
         r \in Plain /\ new.status \in {"confirming", "paid"} => new.tx # None,
         SplitTotals', PaidIsDeep',
         tick' \in [Ticks -> TickRecord], OthersStay(k), Moved(k) \/ Between(k)
  PROVE  IInv' /\ Later
<1>1. rows' \in [Requests -> RowRecord] /\ rows'[r] = new
      /\ \A q \in Requests \ {r} : rows'[q] = rows[q]
  BY DEF IInv, TypeInv
<1>2. Later
  BY <1>1 DEF Later, IInv, TypeInv, Plain
<1>3. \A q \in Requests : RowSound(q)'
  BY <1>1 DEF IInv, RowSound, Plain
<1>4. CreditSound'
  BY DEF IInv, CreditSound
<1>5. \A j \in Ticks : TickSound(j)'
  BY <1>2, MovedSound, BetweenSound
<1>6. TypeInv'
  BY <1>1 DEF IInv, TypeInv
<1> QED
  BY <1>2, <1>3, <1>4, <1>5, <1>6 DEF IInv

\* A plain row, or a split one whose total stays, leaves the totals as they are.
LEMMA TotalsFrame ==
  ASSUME IInv, NEW r \in Requests, NEW new \in RowRecord,
         rows' = [rows EXCEPT ![r] = new], contrib' = contrib,
         r \in Split => /\ new.total = rows[r].total
                        /\ new.status \in {"paid", "pending"} => new.status = rows[r].status
  PROVE  SplitTotals'
<1>1. rows'[r] = new /\ \A q \in Requests \ {r} : rows'[q] = rows[q]
  BY DEF IInv, TypeInv
<1>2. Split \subseteq Requests
  BY ReconcilerAssumption
<1>3. ASSUME NEW q \in Split
      PROVE  /\ rows'[q].total = Cardinality({ t \in Transfers : contrib'[t] = q })
             /\ rows'[q].status = "paid" => rows'[q].total >= Need
             /\ rows'[q].status = "pending" => rows'[q].total < Need
  <2>1. /\ rows[q].total = Cardinality({ t \in Transfers : contrib[t] = q })
        /\ rows[q].status = "paid" => rows[q].total >= Need
        /\ rows[q].status = "pending" => rows[q].total < Need
    BY DEF IInv, SplitTotals
  <2>2. rows'[q].total = rows[q].total
        /\ rows'[q].status \in {"paid", "pending"} => rows'[q].status = rows[q].status
    BY <1>1, <1>2
  <2> QED
    BY <2>1, <2>2
<1> QED
  BY <1>3 DEF SplitTotals

\* So does a row that is not paid, or is deep, leave the depth of the others.
LEMMA DepthFrame ==
  ASSUME IInv, NEW r \in Requests, NEW new \in RowRecord,
         rows' = [rows EXCEPT ![r] = new], UNCHANGED <<settled, height, mined>>,
         r \in Plain /\ new.status = "paid" =>
           /\ new.tx # None /\ mined[new.tx] # 0
           /\ mined[new.tx] + Required <= height + 1
  PROVE  PaidIsDeep'
<1>1. rows'[r] = new /\ \A q \in Requests \ {r} : rows'[q] = rows[q]
  BY DEF IInv, TypeInv
<1> QED
  BY <1>1 DEF IInv, PaidIsDeep, Plain

LEMMA CancelKeeps ==
  ASSUME IInv, NEW r \in Requests, Cancel(r)
  PROVE  IInv' /\ Later
<1> DEFINE new == [rows[r] EXCEPT !.status = "cancelled"]
<1>1. /\ rows[r] \in RowRecord /\ rows[r].status = "pending" /\ rows[r].tx = None
      /\ UNCHANGED <<contrib, settled, history, announced, tick, height, mined>>
      /\ rows' = [rows EXCEPT ![r] = new]
  BY DEF IInv, TypeInv, Cancel, RowSound
<1>2. new \in RowRecord /\ new.status = "cancelled" /\ new.tx = None /\ new.total = rows[r].total
  BY <1>1 DEF RowRecord, Status
<1> HIDE DEF new
<1>3. rows' \in [Requests -> RowRecord] /\ rows'[r] = new
      /\ \A q \in Requests \ {r} : rows'[q] = rows[q]
  BY <1>1, <1>2 DEF IInv, TypeInv
<1>4. Later
  BY <1>1, <1>2, <1>3 DEF Later, IInv, TypeInv, Plain, Detected
<1>5. \A q \in Requests : RowSound(q)'
  BY <1>1, <1>2, <1>3 DEF IInv, RowSound, Plain
<1>6. CreditSound' /\ TypeInv'
  BY <1>1, <1>3 DEF IInv, CreditSound, TypeInv
<1>7. \A j \in Ticks : TickSound(j)'
  BY <1>1, <1>4, TickFrame DEF IInv
<1>8. SplitTotals' /\ PaidIsDeep'
  BY <1>1, <1>2, TotalsFrame, DepthFrame
<1> QED
  BY <1>4, <1>5, <1>6, <1>7, <1>8 DEF IInv

LEMMA CreateKeeps ==
  ASSUME IInv, NEW r \in Requests, NEW b \in Heights, Create(r, b)
  PROVE  IInv' /\ Later
<1> DEFINE new == [Absent EXCEPT !.status = "pending", !.start = b, !.scanned = b,
                                 !.deadline = height + TTL]
<1>1. /\ rows[r] \in RowRecord /\ rows[r].status = "none" /\ rows[r].total = 0
      /\ UNCHANGED <<contrib, settled, history, announced, tick, height, mined>>
      /\ rows' = [rows EXCEPT ![r] = new]
  BY DEF IInv, TypeInv, Create, RowSound
<1>2. new \in RowRecord /\ new.status = "pending" /\ new.tx = None /\ new.total = 0
  <2>1. b \in Nat /\ height + TTL \in Nat
    BY ReconcilerAssumption DEF Heights, IInv, TypeInv
  <2>2. Absent \in RowRecord /\ Absent.tx = None /\ Absent.total = 0
    BY DEF Absent, RowRecord, Status
  <2> QED
    BY <2>1, <2>2 DEF RowRecord, Status
<1> HIDE DEF new
<1>3. rows' \in [Requests -> RowRecord] /\ rows'[r] = new
      /\ \A q \in Requests \ {r} : rows'[q] = rows[q]
  BY <1>1, <1>2 DEF IInv, TypeInv
<1>4. Later
  BY <1>1, <1>2, <1>3 DEF Later, IInv, TypeInv, Plain, Detected
<1>5. \A q \in Requests : RowSound(q)'
  BY <1>1, <1>2, <1>3 DEF IInv, RowSound, Plain
<1>6. CreditSound' /\ TypeInv'
  BY <1>1, <1>3 DEF IInv, CreditSound, TypeInv
<1>7. \A j \in Ticks : TickSound(j)'
  BY <1>1, <1>4, TickFrame DEF IInv
<1>8. PaidIsDeep'
  BY <1>1, <1>2, DepthFrame
<1>9. SplitTotals'
  <2>1. ASSUME NEW q \in Split
        PROVE  /\ rows'[q].total = Cardinality({ t \in Transfers : contrib'[t] = q })
               /\ rows'[q].status = "paid" => rows'[q].total >= Need
               /\ rows'[q].status = "pending" => rows'[q].total < Need
    <3>1. /\ rows[q].total = Cardinality({ t \in Transfers : contrib[t] = q })
          /\ rows[q].status = "paid" => rows[q].total >= Need
          /\ rows[q].status = "pending" => rows[q].total < Need
          /\ q \in Requests
      BY ReconcilerAssumption DEF IInv, SplitTotals
    <3> QED
      BY <1>1, <1>2, <1>3, <3>1, ReconcilerAssumption
  <2> QED
    BY <2>1 DEF SplitTotals
<1> QED
  BY <1>4, <1>5, <1>6, <1>7, <1>8, <1>9 DEF IInv

LEMMA ConfirmKeeps ==
  ASSUME IInv, NEW k \in Ticks, Confirm(k)
  PROVE  IInv' /\ Later
<1> DEFINE r == tick[k].row
           t == tick[k].snap[r].tx
           n == Confirmations(tick[k].block, t)
           next == IF n >= Required THEN "paid" ELSE "confirming"
           new == [rows[r] EXCEPT !.status = next, !.confirmations = n]
<1>1. /\ tick[k].at = "confirm" /\ Working(tick[k]) /\ NextRow(k) /\ TickSound(k)
      /\ UNCHANGED <<contrib, settled, history, height, mined>>
  BY DEF Confirm, Working, IInv
<1>2. /\ r \in Plain /\ r \in Requests /\ rows[r] \in RowRecord
      /\ rows[r].status \in Detected /\ rows[r].tx # None /\ rows[r].tx = t
  <2>1. r \in Plain /\ r \in DOMAIN tick[k].snap /\ tick[k].snap[r].status = "confirming"
    BY <1>1 DEF TickSound
  <2> QED
    BY <1>1, <2>1, RowOfTick DEF TickSound
<1>3. t \in Transfers /\ mined[t] # 0 /\ mined[t] \in Nat /\ n \in Int
      /\ tick[k].block \in Nat /\ tick[k].block <= height /\ height \in Nat
  <2>1. t \in Transfers /\ mined[t] # 0
    BY <1>2 DEF IInv, RowSound, RowRecord
  <2>2. tick[k].block \in Nat /\ tick[k].block <= height
    BY <1>1 DEF TickSound, IInv, TypeInv, TickRecord
  <2> QED
    BY <2>1, <2>2 DEF Confirmations, IInv, TypeInv
<1>4. tick' \in [Ticks -> TickRecord] /\ OthersStay(k) /\ Between(k)
  BY <1>1, NextRowBetween DEF IInv
<1>5. CASE UNCHANGED <<rows, announced>>
  <2>1. IInv'
    BY <1>1, <1>4, <1>5, QuietStep DEF IInv, TypeInv
  <2>2. Later
    BY <1>1, <1>5, TablesFrame
  <2> QED
    BY <2>1, <2>2
<1>6. ASSUME rows' = [rows EXCEPT ![r].status = next, ![r].confirmations = n],
             IF next = "paid" THEN Announce(r) ELSE UNCHANGED announced
      PROVE  IInv' /\ Later
  <2>1. rows' = [rows EXCEPT ![r] = new]
    BY <1>2, <1>6 DEF IInv, TypeInv
  <2>2. announced' \in [Requests -> 0 .. Many]
    BY <1>2, <1>6, AnnounceType DEF IInv, TypeInv
  <2>3. next \in {"paid", "confirming"} /\ (next = "paid" => mined[t] + Required <= height + 1)
    BY <1>3, ReconcilerAssumption DEF Confirmations
  <2> HIDE DEF n, next
  <2>4. /\ new \in RowRecord /\ new.status = next
        /\ new.tx = rows[r].tx /\ new.total = rows[r].total
    BY <1>2, <1>3, <2>3 DEF RowRecord, Status
  <2> HIDE DEF new
  <2>5. SplitTotals'
    BY <1>1, <1>2, <2>1, <2>4, TotalsFrame DEF Plain
  <2>6. PaidIsDeep'
    BY <1>1, <1>2, <1>3, <2>1, <2>3, <2>4, DepthFrame
  <2>7. rows[r].status # "none" /\ new.status \in Detected /\ new.status # "none"
        /\ new.status # "pending"
    BY <1>2, <2>3, <2>4 DEF Detected
  <2>8. \A q \in Transfers : contrib'[q] # None => mined[q] # 0
    BY <1>1 DEF IInv, CreditSound
  <2>9. contrib' \in [Transfers -> Split \cup {None}] /\ settled' \subseteq Transfers
        /\ history' \subseteq Transfers
    BY <1>1 DEF IInv, TypeInv
  <2>10. new.tx # None /\ mined[new.tx] # 0 /\ new.tx = rows[r].tx /\ UNCHANGED <<height, mined>>
    BY <1>1, <1>2, <1>3, <2>4
  <2>11. r \in Requests
    BY <1>2
  <2> HIDE DEF r, t
  <2> QED
    BY <1>4, <2>1, <2>2, <2>4, <2>5, <2>6, <2>7, <2>8, <2>9, <2>10, <2>11, RowStep
<1> QED
  BY <1>5, <1>6 DEF Confirm

LEMMA CloseKeeps ==
  ASSUME IInv, NEW k \in Ticks, Close(k)
  PROVE  IInv' /\ Later
<1> DEFINE r == tick[k].row
<1>1. /\ tick[k].at = "close" /\ Working(tick[k]) /\ NextRow(k)
      /\ UNCHANGED <<contrib, settled, history, announced, height, mined>>
  BY DEF Close, Working, IInv
<1>2. /\ r \in Requests /\ rows[r] \in RowRecord /\ rows[r].status # "none"
      /\ tick[k].block \in Nat /\ TickSound(k)
  BY <1>1, RowOfTick DEF IInv, TypeInv, TickRecord
<1>3. tick' \in [Ticks -> TickRecord] /\ OthersStay(k) /\ Between(k)
  BY <1>1, <1>2, NextRowBetween DEF IInv
<1>4. \A q \in Transfers : contrib'[q] # None => mined[q] # 0
  BY <1>1 DEF IInv, CreditSound
<1>5. contrib' \in [Transfers -> Split \cup {None}] /\ settled' \subseteq Transfers
      /\ history' \subseteq Transfers /\ announced' \in [Requests -> 0 .. Many]
  BY <1>1 DEF IInv, TypeInv
<1>6. CASE UNCHANGED rows
  <2>1. IInv'
    BY <1>1, <1>3, <1>5, <1>6, QuietStep
  <2>2. Later
    BY <1>1, <1>6, TablesFrame
  <2> QED
    BY <2>1, <2>2
<1>7. RowSound(r)
  BY <1>2 DEF IInv
<1>8. ASSUME NEW new \in RowRecord, rows' = [rows EXCEPT ![r] = new],
             new.tx = rows[r].tx, new.total = rows[r].total,
             new.status = rows[r].status
             \/ (new.status = "expired" /\ rows[r].status \in {"pending", "confirming"})
      PROVE  IInv' /\ Later
  <2>1. SplitTotals'
    BY <1>1, <1>2, <1>8, TotalsFrame
  <2>2. r \in Plain /\ new.status = "paid" => new.tx # None /\ mined[new.tx] # 0
                          /\ mined[new.tx] + Required <= height + 1
    BY <1>2, <1>8 DEF IInv, PaidIsDeep, Plain
  <2>3. PaidIsDeep'
    BY <1>1, <1>2, <1>8, <2>2, DepthFrame
  <2>4. /\ new.status # "none"
        /\ r \in Plain /\ rows[r].status \in Detected => new.status \in Detected
        /\ new.status = "pending" => new.tx = None
        /\ new.tx # None => mined[new.tx] # 0
        /\ r \in Plain /\ new.status \in {"confirming", "paid"} => new.tx # None
    BY <1>2, <1>7, <1>8 DEF Detected, RowSound
  <2> QED
    BY <1>1, <1>2, <1>3, <1>4, <1>5, <1>8, <2>1, <2>3, <2>4, RowStep
<1>9. CASE r \in Active
           /\ rows' = [rows EXCEPT ![r] = [@ EXCEPT !.status = "expired",
                                                    !.scanned = tick[k].block]]
  <2> DEFINE new == [rows[r] EXCEPT !.status = "expired", !.scanned = tick[k].block]
  <2>1. rows' = [rows EXCEPT ![r] = new] /\ rows[r].status \in {"pending", "confirming"}
    BY <1>9, <1>2 DEF Active
  <2>2. /\ new \in RowRecord /\ new.status = "expired"
        /\ new.tx = rows[r].tx /\ new.total = rows[r].total
    BY <1>2 DEF RowRecord, Status
  <2> HIDE DEF new
  <2> QED
    BY <1>8, <2>1, <2>2
<1>10. CASE rows' = [rows EXCEPT ![r].scanned = tick[k].block]
  <2> DEFINE new == [rows[r] EXCEPT !.scanned = tick[k].block]
  <2>1. rows' = [rows EXCEPT ![r] = new]
    BY <1>10, <1>2 DEF IInv, TypeInv
  <2>2. /\ new \in RowRecord /\ new.status = rows[r].status
        /\ new.tx = rows[r].tx /\ new.total = rows[r].total
    BY <1>2 DEF RowRecord
  <2> HIDE DEF new
  <2> QED
    BY <1>8, <2>1, <2>2
<1> QED
  BY <1>6, <1>9, <1>10 DEF Close

LEMMA ClaimKeeps ==
  ASSUME IInv, NEW k \in Ticks, Claim(k)
  PROVE  IInv' /\ Later
<1> DEFINE r == tick[k].row
           t == Head(tick[k].logs)
           n == Confirmations(tick[k].block, t)
           next == IF n >= Required THEN "paid" ELSE "confirming"
           new == [rows[r] EXCEPT !.status = next, !.tx = t,
                                  !.confirmations = n, !.scanned = tick[k].block]
<1>1. /\ tick[k].at = "claim" /\ Working(tick[k]) /\ TickSound(k) /\ r \in Plain
      /\ tick[k].logs # <<>> /\ tick[k] \in TickRecord /\ TypeInv
      /\ UNCHANGED <<contrib, settled, history, announced, height, mined>>
  <2>1. tick[k].at = "claim" /\ Working(tick[k]) /\ r \notin Split
        /\ UNCHANGED <<contrib, settled, history, announced, height, mined>>
    BY DEF Claim, Working
  <2>2. TickSound(k) /\ TypeInv /\ tick[k] \in TickRecord
    BY DEF IInv, TypeInv
  <2>3. r \in Requests
    BY <2>1, RowOfTick
  <2> QED
    BY <2>1, <2>2, <2>3 DEF TickSound, Plain
<1>2. /\ r \in Requests /\ rows[r] \in RowRecord /\ rows[r].status # "none"
      /\ tick[k].block \in Nat /\ tick[k].block <= height
      /\ t \in Transfers /\ mined[t] \in 1 .. tick[k].block
  BY <1>1, RowOfTick, LogOfTick
<1>3. contrib' \in [Transfers -> Split \cup {None}] /\ settled' \subseteq Transfers
      /\ history' \subseteq Transfers /\ announced' \in [Requests -> 0 .. Many]
  BY <1>1 DEF TypeInv
<1>4. CASE UNCHANGED rows /\ (Rest(k) \/ NextLog(k))
  <2>1. tick' \in [Ticks -> TickRecord] /\ OthersStay(k) /\ (Moved(k) \/ Between(k))
    BY <1>1, <1>4, RestBetween, NextLogMoved
  <2>2. IInv'
    BY <1>1, <1>3, <1>4, <2>1, QuietStep
  <2>3. Later
    BY <1>1, <1>4, TablesFrame
  <2> QED
    BY <2>2, <2>3
<1>5. ASSUME rows[r].status = "pending",
             rows' = [rows EXCEPT ![r] = [@ EXCEPT !.status = next, !.tx = t,
                            !.confirmations = n, !.scanned = tick[k].block]],
             tick' = [tick EXCEPT ![k].at = "save", ![k].paid = (next = "paid")]
      PROVE  IInv' /\ Later
  <2>1. rows' = [rows EXCEPT ![r] = new]
    BY <1>2, <1>5 DEF IInv, TypeInv
  <2>2. /\ next \in {"paid", "confirming"} /\ n \in Int
        /\ (next = "paid") \in BOOLEAN /\ height \in Nat
        /\ mined[t] # 0 /\ (next = "paid" => mined[t] + Required <= height + 1)
    BY <1>2, ReconcilerAssumption DEF Confirmations, IInv, TypeInv
  <2>3. tick' \in [Ticks -> TickRecord] /\ OthersStay(k) /\ Moved(k)
    <3> DEFINE paid == next = "paid"
    <3>1. paid \in BOOLEAN /\ tick' = [tick EXCEPT ![k].at = "save", ![k].paid = paid]
      BY <1>5
    <3> HIDE DEF paid
    <3> QED
      BY <1>1, <3>1, ToSave
  <2> HIDE DEF n, next
  <2>4. new \in RowRecord /\ new.status = next /\ new.tx = t
    BY <1>2, <2>2 DEF RowRecord, Status
  <2> HIDE DEF new
  <2>5. SplitTotals'
    BY <1>1, <1>2, <2>1, <2>4, TotalsFrame DEF Plain
  <2>6. t # None
    BY <1>2, ReconcilerAssumption
  <2>7. PaidIsDeep'
    BY <1>1, <1>2, <2>1, <2>2, <2>4, <2>6, DepthFrame
  <2>8. rows[r].tx = None
    BY <1>2, <1>5 DEF IInv, RowSound
  <2>9. \A q \in Transfers : contrib'[q] # None => mined[q] # 0
    BY <1>1 DEF IInv, CreditSound
  <2>10. /\ new.status # "none" /\ new.status # "pending" /\ new.status \in Detected
         /\ UNCHANGED <<height, mined>>
    BY <1>1, <2>2, <2>4 DEF Detected
  <2> QED
    BY <1>2, <1>3, <2>1, <2>2, <2>3, <2>4, <2>5, <2>6, <2>7, <2>8, <2>9, <2>10, RowStep
<1> QED
  BY <1>4, <1>5 DEF Claim

\* A contribution adds one to the total of its request, and to no other.
LEMMA OneMore ==
  ASSUME TypeInv, NEW r \in Split, NEW t \in Transfers, contrib[t] = None,
         contrib' = [contrib EXCEPT ![t] = r], NEW q \in Split
  PROVE  /\ Cardinality({ u \in Transfers : contrib'[u] = q }) =
              IF q = r THEN Cardinality({ u \in Transfers : contrib[u] = q }) + 1
                       ELSE Cardinality({ u \in Transfers : contrib[u] = q })
         /\ Cardinality({ u \in Transfers : contrib[u] = q }) \in Nat
<1> DEFINE S == { u \in Transfers : contrib[u] = q }
           T == { u \in Transfers : contrib'[u] = q }
<1>1. IsFiniteSet(S) /\ Cardinality(S) \in Nat
  BY FS_Subset, FS_CardinalityType, ReconcilerAssumption
<1>2. q # None /\ r # None
  BY ReconcilerAssumption
<1>3. contrib'[t] = r /\ \A u \in Transfers \ {t} : contrib'[u] = contrib[u]
  BY DEF TypeInv
<1>4. CASE q = r
  <2>1. T = S \cup {t} /\ t \notin S
    BY <1>2, <1>3, <1>4
  <2> HIDE DEF S, T
  <2>2. Cardinality(T) = Cardinality(S) + 1
    BY <1>1, <2>1, FS_AddElement
  <2> QED
    BY <1>1, <1>4, <2>2 DEF S, T
<1>5. CASE q # r
  <2>1. T = S
    BY <1>2, <1>3, <1>5
  <2> QED
    BY <1>1, <1>5, <2>1
<1> QED
  BY <1>4, <1>5

LEMMA ContributeKeeps ==
  ASSUME IInv, NEW k \in Ticks, Contribute(k)
  PROVE  IInv' /\ Later
<1> DEFINE r == tick[k].row
           t == Head(tick[k].logs)
           full == rows[r].total + 1 >= Need /\ rows[r].status = "pending"
           status == IF full THEN "paid" ELSE rows[r].status
           new == [rows[r] EXCEPT !.total = rows[r].total + 1,
                                  !.scanned = tick[k].block, !.status = status]
<1>1. /\ tick[k].at = "claim" /\ Working(tick[k]) /\ TickSound(k) /\ r \in Split
      /\ tick[k].logs # <<>> /\ tick[k] \in TickRecord /\ TypeInv
      /\ UNCHANGED <<history, announced, height, mined>>
  <2>1. tick[k].at = "claim" /\ Working(tick[k]) /\ r \in Split
        /\ UNCHANGED <<history, announced, height, mined>>
    BY DEF Contribute, Working
  <2>2. TickSound(k) /\ TypeInv /\ tick[k] \in TickRecord
    BY DEF IInv, TypeInv
  <2> QED
    BY <2>1, <2>2 DEF TickSound
<1>2. /\ r \in Requests /\ rows[r] \in RowRecord /\ rows[r].status # "none"
      /\ tick[k].block \in Nat /\ tick[k].block <= height
      /\ t \in Transfers /\ mined[t] \in 1 .. tick[k].block
  BY <1>1, RowOfTick, LogOfTick
<1>3. history' \subseteq Transfers /\ announced' \in [Requests -> 0 .. Many]
  BY <1>1 DEF TypeInv
<1>4. CASE Rest(k) /\ UNCHANGED <<rows, contrib, settled>>
  <2>1. tick' \in [Ticks -> TickRecord] /\ OthersStay(k) /\ Between(k)
    BY <1>1, <1>4, RestBetween
  <2>2. IInv'
    BY <1>1, <1>3, <1>4, <2>1, QuietStep
  <2>3. Later
    BY <1>1, <1>4, TablesFrame
  <2> QED
    BY <2>2, <2>3
<1>5. ASSUME contrib[t] = None,
             contrib' = [contrib EXCEPT ![t] = r],
             settled' = IF Confirmations(tick[k].block, t) >= Required
                        THEN settled \cup {t} ELSE settled,
             rows' = [rows EXCEPT ![r] = [@ EXCEPT !.total = rows[r].total + 1,
                            !.scanned = tick[k].block, !.status = status]],
             tick' = [tick EXCEPT ![k].at = "save", ![k].paid = full]
      PROVE  IInv' /\ Later
  <2>1. rows' = [rows EXCEPT ![r] = new]
    BY <1>2, <1>5 DEF IInv, TypeInv
  <2>2. /\ status \in Status /\ status # "none" /\ full \in BOOLEAN
        /\ status = "pending" => rows[r].status = "pending" /\ rows[r].total + 1 < Need
        /\ status = "paid" => rows[r].status = "paid" \/ rows[r].total + 1 >= Need
        /\ rows[r].total \in Nat /\ Need \in Nat
    BY <1>2, ReconcilerAssumption DEF RowRecord, Status
  <2>3. tick' \in [Ticks -> TickRecord] /\ OthersStay(k) /\ Moved(k)
    <3> DEFINE paid == full
    <3>1. paid \in BOOLEAN /\ tick' = [tick EXCEPT ![k].at = "save", ![k].paid = paid]
      BY <1>5
    <3> HIDE DEF paid
    <3> QED
      BY <1>1, <3>1, ToSave
  <2> HIDE DEF full, status
  <2>4. /\ new \in RowRecord /\ new.status = status /\ new.tx = rows[r].tx
        /\ new.total = rows[r].total + 1
    <3>1. rows[r] \in RowRecord /\ status \in Status /\ rows[r].total + 1 \in Nat
          /\ tick[k].block \in Nat
      BY <1>2, <2>2
    <3> HIDE DEF r, t
    <3> QED
      BY <3>1 DEF RowRecord
  <2> HIDE DEF new
  <2>5. SplitTotals'
    <3>1. rows'[r] = new /\ \A q \in Requests \ {r} : rows'[q] = rows[q]
      BY <1>2, <2>1 DEF IInv, TypeInv
    <3>2. ASSUME NEW q \in Split
          PROVE  /\ rows'[q].total = Cardinality({ u \in Transfers : contrib'[u] = q })
                 /\ rows'[q].status = "paid" => rows'[q].total >= Need
                 /\ rows'[q].status = "pending" => rows'[q].total < Need
      <4>1. /\ rows[q].total = Cardinality({ u \in Transfers : contrib[u] = q })
            /\ rows[q].status = "paid" => rows[q].total >= Need
            /\ rows[q].status = "pending" => rows[q].total < Need
            /\ q \in Requests
        BY ReconcilerAssumption DEF IInv, SplitTotals
      <4>2. Cardinality({ u \in Transfers : contrib'[u] = q }) =
              IF q = r THEN rows[q].total + 1 ELSE rows[q].total
        BY <1>1, <1>2, <1>5, <4>1, OneMore
      <4>3. CASE q = r
        <5>1. rows'[q] = new /\ rows[q].total = rows[r].total
          BY <3>1, <4>3
        <5> QED
          BY <1>1, <2>2, <2>4, <4>1, <4>2, <4>3, <5>1
      <4>4. CASE q # r
        BY <3>1, <4>1, <4>2, <4>4
      <4> QED
        BY <4>3, <4>4
    <3> QED
      BY <3>2 DEF SplitTotals
  <2>6. settled' \subseteq Transfers
        /\ \A q \in settled' : mined[q] # 0 /\ mined[q] + Required <= height + 1
    <3>1. \A q \in settled : mined[q] # 0 /\ mined[q] + Required <= height + 1
      BY DEF IInv, PaidIsDeep
    <3>2. Confirmations(tick[k].block, t) >= Required =>
            mined[t] # 0 /\ mined[t] + Required <= height + 1
      BY <1>2, ReconcilerAssumption DEF Confirmations, IInv, TypeInv
    <3>3. settled \subseteq Transfers
      BY DEF IInv, TypeInv
    <3> HIDE DEF t
    <3> QED
      BY <1>2, <1>5, <3>1, <3>2, <3>3
  <2>7. PaidIsDeep'
    <3>1. rows'[r] = new /\ \A q \in Requests \ {r} : rows'[q] = rows[q]
      BY <1>2, <2>1 DEF IInv, TypeInv
    <3> QED
      BY <1>1, <2>6, <3>1 DEF IInv, PaidIsDeep
  <2>8. contrib' \in [Transfers -> Split \cup {None}]
        /\ \A q \in Transfers : contrib'[q] # None => mined[q] # 0
    BY <1>1, <1>2, <1>5 DEF IInv, TypeInv, CreditSound
  <2>9. /\ r \in Plain /\ rows[r].status \in Detected => new.status \in Detected
        /\ new.status = "pending" => new.tx = None
        /\ new.tx # None => mined[new.tx] # 0
        /\ r \in Plain /\ new.status \in {"confirming", "paid"} => new.tx # None
        /\ UNCHANGED <<height, mined>>
    BY <1>1, <1>2, <2>2, <2>4 DEF Plain, IInv, RowSound
  <2> HIDE DEF r, t
  <2> QED
    BY <1>2, <1>3, <2>1, <2>2, <2>3, <2>4, <2>5, <2>6, <2>7, <2>8, <2>9, RowStep
<1> QED
  BY <1>4, <1>5 DEF Contribute

LEMMA SettleKeeps ==
  ASSUME IInv, NEW k \in Ticks, Settle(k)
  PROVE  IInv' /\ Later
<1>1. /\ tick[k].at = "settle" /\ Working(tick[k]) /\ Goto(k, "close")
      /\ UNCHANGED <<rows, contrib, history, announced, height, mined>>
      /\ tick[k].block \in Nat /\ tick[k].block <= height /\ height \in Nat
  BY DEF Settle, Working, IInv, TypeInv, TickRecord, TickSound
<1>2. tick' \in [Ticks -> TickRecord] /\ OthersStay(k) /\ Moved(k)
  BY <1>1, GotoMoved DEF IInv
<1>3. settled' \subseteq Transfers
      /\ \A t \in settled' : mined[t] # 0 /\ mined[t] + Required <= height + 1
  <2>1. \A t \in settled : t \in Transfers /\ mined[t] # 0 /\ mined[t] + Required <= height + 1
    BY DEF IInv, PaidIsDeep, TypeInv
  <2>2. ASSUME NEW t \in Transfers, contrib[t] = tick[k].row,
               Confirmations(tick[k].block, t) >= Required
        PROVE  mined[t] # 0 /\ mined[t] + Required <= height + 1
    <3>1. contrib[t] # None
      BY <1>1, <2>2, RowOfTick, ReconcilerAssumption
    <3>2. mined[t] \in Nat
      BY DEF IInv, TypeInv
    <3> QED
      BY <1>1, <2>2, <3>1, <3>2, ReconcilerAssumption DEF IInv, CreditSound, Confirmations
  <2>3. \A t \in settled' : \/ t \in settled
                            \/ /\ t \in Transfers /\ contrib[t] = tick[k].row
                               /\ Confirmations(tick[k].block, t) >= Required
    BY DEF Settle
  <2> QED
    BY <2>1, <2>2, <2>3
<1>4. Later
  BY <1>1 DEF Later, IInv, TypeInv
<1>5. /\ \A r \in Requests : RowSound(r)'
      /\ CreditSound' /\ SplitTotals' /\ TypeInv'
  BY <1>1, <1>2, <1>3 DEF IInv, RowSound, CreditSound, SplitTotals, TypeInv
<1>6. PaidIsDeep'
  BY <1>1, <1>3 DEF IInv, PaidIsDeep
<1>7. \A j \in Ticks : TickSound(j)'
  BY <1>2, <1>4, MovedSound
<1> QED
  BY <1>4, <1>5, <1>6, <1>7 DEF IInv

LEMMA MineKeeps ==
  ASSUME IInv, NEW paid \in SUBSET Transfers, Mine(paid)
  PROVE  IInv' /\ Later
<1>1. /\ height \in Nat /\ height' = height + 1
      /\ UNCHANGED <<rows, contrib, settled, history, announced, tick>>
      /\ \A t \in paid : mined[t] = 0
      /\ mined' = [t \in Transfers |-> IF t \in paid THEN height + 1 ELSE mined[t]]
  BY DEF Mine, IInv, TypeInv
<1>2. \A t \in Transfers : /\ mined[t] \in Nat /\ mined'[t] \in Nat
                           /\ mined[t] # 0 => mined'[t] = mined[t]
                           /\ mined'[t] <= height + 1
  BY <1>1 DEF IInv, TypeInv, CreditSound
<1>3. Later
  BY <1>1, <1>2 DEF Later
<1>4. TypeInv'
  BY <1>1, <1>2 DEF IInv, TypeInv
<1>5. \A r \in Requests : RowSound(r)'
  <2>1. \A r \in Requests : rows[r].tx \in Transfers \cup {None}
    BY DEF IInv, TypeInv, RowRecord
  <2> QED
    BY <1>1, <1>2, <2>1 DEF IInv, RowSound
<1>6. CreditSound'
  BY <1>1, <1>2 DEF IInv, CreditSound
<1>7. SplitTotals'
  BY <1>1 DEF IInv, SplitTotals
<1>8. PaidIsDeep'
  <2>1. \A r \in Requests : rows[r].tx # None => rows[r].tx \in Transfers
    BY DEF IInv, TypeInv, RowRecord
  <2>2. \A t \in Transfers : mined[t] # 0 /\ mined[t] + Required <= height + 1 =>
                               mined'[t] # 0 /\ mined'[t] + Required <= height' + 1
    BY <1>1, <1>2, ReconcilerAssumption
  <2>3. \A t \in settled : t \in Transfers
    BY DEF IInv, TypeInv
  <2> QED
    BY <1>1, <2>1, <2>2, <2>3 DEF IInv, PaidIsDeep
<1>9. \A k \in Ticks : TickSound(k)'
  BY <1>1, <1>3, TickFrame DEF IInv
<1> QED
  BY <1>3, <1>4, <1>5, <1>6, <1>7, <1>8, <1>9 DEF IInv

LEMMA IInvStep ==
  ASSUME IInv, [Next]_vars
  PROVE  IInv' /\ Later
<1>1. CASE UNCHANGED vars
  BY <1>1 DEF vars, IInv, TypeInv, Later, RowSound, CreditSound, TickSound,
              SplitTotals, PaidIsDeep
<1>2. ASSUME NEW r \in Requests, Cancel(r) \/ \E b \in Heights : Create(r, b)
      PROVE  IInv' /\ Later
  BY <1>2, CancelKeeps, CreateKeeps
<1>3. ASSUME NEW k \in Ticks, Start(k, Active) \/ \E r \in Active : Start(k, {r})
      PROVE  IInv' /\ Later
  <2>1. PICK todo \in SUBSET Active : Start(k, todo)
    BY <1>3
  <2>2. UNCHANGED <<rows, contrib, settled, height, mined>>
    BY <2>1 DEF Start
  <2> QED
    BY <2>1, <2>2, StartKeeps, TablesFrame
<1>4. ASSUME NEW k \in Ticks, Continue(k) \/ Fail(k)
      PROVE  IInv' /\ Later
  <2>1. CASE Row(k) \/ Clock(k) \/ Scan(k) \/ Check(k) \/ Save(k) \/ Fail(k)
    <3>1. UNCHANGED <<rows, contrib, settled, height, mined>>
      BY <2>1 DEF Row, Clock, Scan, Check, Save, Fail
    <3> QED
      BY <2>1, <3>1, RowKeeps, ClockKeeps, ScanKeeps, CheckKeeps, SaveKeeps, FailKeeps, TablesFrame
  <2>2. CASE Confirm(k) \/ Claim(k) \/ Contribute(k) \/ Settle(k) \/ Close(k)
    BY <2>2, ConfirmKeeps, ClaimKeeps, ContributeKeeps, SettleKeeps, CloseKeeps
  <2> QED
    BY <1>4, <2>1, <2>2 DEF Continue
<1>5. ASSUME NEW paid \in SUBSET Transfers, Mine(paid)
      PROVE  IInv' /\ Later
  BY <1>5, MineKeeps
<1> QED
  BY <1>1, <1>2, <1>3, <1>4, <1>5 DEF Next

-----------------------------------------------------------------------------
(* What holds whatever the providers lag *)

\* The inductive invariant.
THEOREM Invariant == Spec => []IInv
<1>1. Init => IInv
  BY InitKeeps
<1>2. IInv /\ [Next]_vars => IInv'
  BY IInvStep
<1> QED
  BY <1>1, <1>2, PTL DEF Spec

LEMMA TornStep == torn \subseteq Split /\ [Next]_vars => (torn \subseteq Split)'
<1> SUFFICES ASSUME torn \subseteq Split, [Next]_vars PROVE torn' \subseteq Split
  OBVIOUS
<1>1. ASSUME NEW k \in Ticks, CutShort(k) PROVE torn' \subseteq Split
  BY <1>1 DEF CutShort
<1>2. ASSUME NEW k \in Ticks, Continue(k) PROVE torn' \subseteq Split
  BY <1>1, <1>2 DEF Continue, Row, Clock, Confirm, Scan, Check, Claim, Contribute, Save, Settle,
     Close
<1> QED
  BY <1>1, <1>2 DEF Next, vars, Create, Cancel, Start, Fail, Mine

\* The tables have their types, and a tick in the middle of a row has one.
THEOREM TypeCorrect == Spec => []TypeOK
<1>1. Init => torn \subseteq Split
  BY DEF Init
<1>2. IInv /\ torn \subseteq Split => TypeOK
  <2> SUFFICES ASSUME IInv, torn \subseteq Split PROVE TypeOK
    OBVIOUS
  <2>1. \A k \in Ticks : tick[k].at \in Steps
    BY DEF IInv, TypeInv, TickRecord
  <2> QED
    BY <2>1 DEF IInv, TypeInv, TypeOK, RowRecord, TickSound, Working
<1> QED
  BY <1>1, <1>2, TornStep, Invariant, PTL DEF Spec

\* The total of a split request is the sum of its contributions, and decides
\* whether it is paid, however many ticks credit it at once.
THEOREM TotalsHold == Spec => []SplitTotals
<1>1. IInv => SplitTotals
  BY DEF IInv
<1> QED
  BY <1>1, Invariant, PTL

\* No request is paid, and no contribution confirmed, by a transfer that is not
\* deep enough in the chain, however old what the tick read.
THEOREM PaymentsAreDeep == Spec => []PaidIsDeep
<1>1. IInv => PaidIsDeep
  BY DEF IInv
<1> QED
  BY <1>1, Invariant, PTL

-----------------------------------------------------------------------------
(* What every step keeps, and how a request ends *)

\* What every step keeps of the rows, the credits and the chain.
Kept ==
    /\ \A r \in Requests :
         /\ rows[r].status # "none" =>
              /\ rows'[r].start = rows[r].start
              /\ rows'[r].deadline = rows[r].deadline
         /\ rows[r].status \notin {"none", "pending"} => rows'[r].status # "pending"
         /\ rows[r].tx # None => rows'[r].tx = rows[r].tx
    /\ \A t \in Transfers :
         /\ contrib[t] # None => contrib'[t] # None
         /\ mined'[t] \in Nat /\ (mined'[t] = mined[t] \/ mined'[t] > height)
    /\ height \in Nat /\ height' \in Nat /\ height' >= height

LEMMA CreditedKept ==
  ASSUME Kept, NEW t \in Transfers, Credited(t)
  PROVE  Credited(t)'
BY ReconcilerAssumption DEF Credited, Kept

\* A transfer in time up to a block there was, was in time before.
LEMMA InTimeKept ==
  ASSUME TypeInv, Kept, NEW t \in Transfers, NEW r \in Requests,
         rows[r].status # "none", NEW b \in Nat, b <= height,
         InTime(t, r)', mined'[t] <= b
  PROVE  InTime(t, r) /\ mined[t] <= b
<1>1. mined'[t] = mined[t]
  BY DEF Kept, TypeInv
<1> QED
  BY <1>1 DEF InTime, Kept

\* A tick's request has its row.
LEMMA SnapRow ==
  ASSUME IInv, NEW k \in Ticks, NEW r \in DOMAIN tick[k].snap
  PROVE  /\ r \in Requests /\ rows[r].status # "none" /\ tick[k].snap[r] \in RowRecord
         /\ height \in Nat
<1>1. tick[k].snap \in Snaps
  BY DEF IInv, TypeInv, TickRecord
<1> QED
  BY <1>1, SnapType DEF IInv, TickSound, TypeInv

LEMMA KeptQuiet ==
  ASSUME IInv, UNCHANGED <<rows, contrib, height, mined>>
  PROVE  Kept
BY DEF Kept, IInv, TypeInv

LEMMA KeptRow ==
  ASSUME IInv, NEW r \in Requests, NEW new, rows' = [rows EXCEPT ![r] = new],
         UNCHANGED <<height, mined>>, \A t \in Transfers : contrib[t] # None => contrib'[t] # None,
         rows[r].status # "none" =>
           new.start = rows[r].start /\ new.deadline = rows[r].deadline,
         rows[r].status \notin {"none", "pending"} => new.status # "pending",
         rows[r].tx # None => new.tx = rows[r].tx
  PROVE  Kept
<1>1. rows'[r] = new /\ \A q \in Requests \ {r} : rows'[q] = rows[q]
  BY DEF IInv, TypeInv
<1> QED
  BY <1>1 DEF Kept, IInv, TypeInv

\* Every step keeps what Kept says.
LEMMA KeptStep == ASSUME IInv, [Next]_vars PROVE Kept
<1> USE DEF IInv, TypeInv
<1>1. CASE UNCHANGED <<rows, contrib, height, mined>>
  BY <1>1, KeptQuiet
<1>2. ASSUME NEW r \in Requests, Cancel(r)
      PROVE  Kept
  <2> DEFINE new == [rows[r] EXCEPT !.status = "cancelled"]
  <2>1. new \in RowRecord
    BY DEF RowRecord, Status
  <2>2. /\ rows' = [rows EXCEPT ![r] = new] /\ UNCHANGED <<height, mined, contrib>>
        /\ new.start = rows[r].start /\ new.deadline = rows[r].deadline
        /\ new.tx = rows[r].tx /\ new.status # "pending"
    BY <1>2 DEF Cancel, RowRecord
  <2> HIDE DEF new
  <2> QED
    BY <2>1, <2>2, KeptRow
<1>3. ASSUME NEW r \in Requests, NEW b \in Heights, Create(r, b)
      PROVE  Kept
  <2>1. /\ rows[r].status = "none" /\ rows[r].tx = None /\ UNCHANGED <<height, mined, contrib>>
        /\ \A q \in Requests \ {r} : rows'[q] = rows[q]
    BY <1>3 DEF Create, RowSound
  <2> QED
    BY <2>1 DEF Kept
<1>4. ASSUME NEW k \in Ticks, Confirm(k)
      PROVE  Kept
  <2> DEFINE r == tick[k].row
             n == Confirmations(tick[k].block, tick[k].snap[r].tx)
             next == IF n >= Required THEN "paid" ELSE "confirming"
  <2>1. Working(tick[k]) /\ tick[k].at = "confirm"
    BY <1>4 DEF Confirm, Working
  <2>2. r \in Requests /\ rows[r] \in RowRecord /\ rows[r].status # "none"
    BY <2>1, RowOfTick
  <2>3. /\ rows' = rows \/ rows' = [rows EXCEPT ![r].status = next, ![r].confirmations = n]
        /\ UNCHANGED <<height, mined, contrib>> /\ next # "pending"
    BY <1>4 DEF Confirm
  <2> HIDE DEF n, next
  <2> DEFINE new == [rows[r] EXCEPT !.status = next, !.confirmations = n]
  <2>4. /\ new.start = rows[r].start /\ new.deadline = rows[r].deadline
        /\ new.tx = rows[r].tx /\ new.status # "pending"
    BY <2>2, <2>3 DEF RowRecord
  <2>5. rows' = rows \/ rows' = [rows EXCEPT ![r] = new]
    BY <2>2, <2>3
  <2> HIDE DEF r, new
  <2> QED
    BY <2>2, <2>3, <2>4, <2>5, KeptRow, KeptQuiet
<1>5. ASSUME NEW k \in Ticks, Claim(k)
      PROVE  Kept
  <2> DEFINE r == tick[k].row
             t == Head(tick[k].logs)
             n == Confirmations(tick[k].block, t)
             next == IF n >= Required THEN "paid" ELSE "confirming"
  <2>1. Working(tick[k]) /\ tick[k].at = "claim"
    BY <1>5 DEF Claim, Working
  <2>2. r \in Requests /\ rows[r] \in RowRecord /\ rows[r].status # "none"
    BY <2>1, RowOfTick
  <2>3. /\ \/ rows' = rows
           \/ /\ rows' = [rows EXCEPT ![r] = [@ EXCEPT !.status = next, !.tx = t,
                            !.confirmations = n, !.scanned = tick[k].block]]
              /\ rows[r].tx = None
        /\ UNCHANGED <<height, mined, contrib>> /\ next # "pending"
    BY <1>5, <2>2 DEF Claim, RowSound
  <2> HIDE DEF n, next, t
  <2> DEFINE new == [rows[r] EXCEPT !.status = next, !.tx = t,
                            !.confirmations = n, !.scanned = tick[k].block]
  <2>4. /\ new.start = rows[r].start /\ new.deadline = rows[r].deadline
        /\ new.status # "pending"
    BY <2>2, <2>3 DEF RowRecord
  <2>5. rows' = rows \/ (rows' = [rows EXCEPT ![r] = new] /\ rows[r].tx = None)
    BY <2>2, <2>3
  <2> HIDE DEF r, new
  <2> QED
    BY <2>2, <2>3, <2>4, <2>5, KeptRow, KeptQuiet
<1>6. ASSUME NEW k \in Ticks, Contribute(k)
      PROVE  Kept
  <2> DEFINE r == tick[k].row
             t == Head(tick[k].logs)
             full == rows[r].total + 1 >= Need /\ rows[r].status = "pending"
             status == IF full THEN "paid" ELSE rows[r].status
  <2>1. Working(tick[k]) /\ tick[k].at = "claim" /\ tick[k].logs # <<>>
    BY <1>6 DEF Contribute, Working, TickSound
  <2>2. r \in Requests /\ rows[r] \in RowRecord /\ rows[r].status # "none" /\ t \in Transfers
    BY <2>1, RowOfTick, LogOfTick
  <2>3. /\ \/ rows' = rows /\ contrib' = contrib
           \/ /\ rows' = [rows EXCEPT ![r] = [@ EXCEPT !.total = rows[r].total + 1,
                            !.scanned = tick[k].block, !.status = status]]
              /\ contrib' = [contrib EXCEPT ![t] = r]
        /\ UNCHANGED <<height, mined>>
        /\ rows[r].status # "pending" => status # "pending"
    BY <1>6 DEF Contribute
  <2>4. r # None
    BY <2>2, ReconcilerAssumption
  <2> HIDE DEF t, full, status
  <2> DEFINE new == [rows[r] EXCEPT !.total = rows[r].total + 1,
                            !.scanned = tick[k].block, !.status = status]
  <2>5. /\ new.start = rows[r].start /\ new.deadline = rows[r].deadline
        /\ new.tx = rows[r].tx /\ new.status = status
    BY <2>2, <2>3 DEF RowRecord
  <2>6. \/ rows' = rows /\ contrib' = contrib
        \/ rows' = [rows EXCEPT ![r] = new]
    BY <2>2, <2>3
  <2>7. \A q \in Transfers : contrib[q] # None => contrib'[q] # None
    BY <2>2, <2>3, <2>4
  <2> HIDE DEF r, new
  <2> QED
    BY <2>2, <2>3, <2>5, <2>6, <2>7, KeptRow, KeptQuiet
<1>7. ASSUME NEW k \in Ticks, Close(k)
      PROVE  Kept
  <2> DEFINE r == tick[k].row
  <2>1. Working(tick[k])
    BY <1>7 DEF Close, Working
  <2>2. r \in Requests /\ rows[r] \in RowRecord /\ rows[r].status # "none"
    BY <2>1, RowOfTick
  <2>3. /\ \/ rows' = rows
           \/ rows' = [rows EXCEPT ![r] = [@ EXCEPT !.status = "expired",
                                                    !.scanned = tick[k].block]]
           \/ rows' = [rows EXCEPT ![r].scanned = tick[k].block]
        /\ UNCHANGED <<height, mined, contrib>>
    BY <1>7 DEF Close
  <2> DEFINE new == [rows[r] EXCEPT !.status = "expired", !.scanned = tick[k].block]
             moved == [rows[r] EXCEPT !.scanned = tick[k].block]
  <2>4. /\ new.start = rows[r].start /\ new.deadline = rows[r].deadline
        /\ new.tx = rows[r].tx /\ new.status = "expired"
    BY <2>2 DEF RowRecord
  <2>5. /\ moved.start = rows[r].start /\ moved.deadline = rows[r].deadline
        /\ moved.tx = rows[r].tx /\ moved.status = rows[r].status
    BY <2>2 DEF RowRecord
  <2>6. \/ rows' = rows \/ rows' = [rows EXCEPT ![r] = new]
        \/ rows' = [rows EXCEPT ![r] = moved]
    BY <2>2, <2>3
  <2> HIDE DEF r, new, moved
  <2> QED
    BY <2>2, <2>3, <2>4, <2>5, <2>6, KeptRow, KeptQuiet
<1>8. ASSUME NEW paid \in SUBSET Transfers, Mine(paid)
      PROVE  Kept
  BY <1>8 DEF Mine, Kept
<1>9. ASSUME NEW k \in Ticks,
             Row(k) \/ Clock(k) \/ Scan(k) \/ Check(k) \/ Save(k) \/ Settle(k) \/ Fail(k)
             \/ \E todo \in SUBSET Active : Start(k, todo)
      PROVE  UNCHANGED <<rows, contrib, height, mined>>
  BY <1>9 DEF Row, Clock, Scan, Check, Save, Settle, Fail, Start
<1> QED
  BY <1>1, <1>2, <1>3, <1>4, <1>5, <1>6, <1>7, <1>8, <1>9 DEF Next, Continue, vars

\* Confirm writes paid or confirming over a row that was one of the two or
\* expired, and keeps its transfer.
LEMMA EndsStep ==
  ASSUME IInv, [Next]_vars, NEW r \in Requests, rows[r].status \in {"cancelled", "paid"}
  PROVE  \/ rows'[r].status = rows[r].status
         \/ /\ rows[r].status = "paid" /\ r \in Plain
            /\ rows'[r].status = "confirming" /\ rows'[r].tx = rows[r].tx
<1> USE DEF IInv, TypeInv
<1>1. CASE UNCHANGED rows
  BY <1>1
<1>2. ASSUME NEW q \in Requests, Cancel(q) \/ \E b \in Heights : Create(q, b)
      PROVE  rows'[r] = rows[r]
  BY <1>2 DEF Cancel, Create
<1>3. ASSUME NEW k \in Ticks, Confirm(k)
      PROVE  \/ rows'[r].status = rows[r].status
             \/ /\ rows[r].status = "paid" /\ r \in Plain
                /\ rows'[r].status = "confirming" /\ rows'[r].tx = rows[r].tx
  <2> DEFINE q == tick[k].row
             n == Confirmations(tick[k].block, tick[k].snap[q].tx)
             next == IF n >= Required THEN "paid" ELSE "confirming"
  <2>1. q \in Plain /\ q \in Requests /\ rows[q].status \in Detected /\ rows[q] \in RowRecord
    BY <1>3 DEF Confirm, TickSound, Working, Plain
  <2>2. rows' = rows \/ rows' = [rows EXCEPT ![q].status = next, ![q].confirmations = n]
    BY <1>3 DEF Confirm
  <2>3. next \in {"paid", "confirming"}
    OBVIOUS
  <2> HIDE DEF n, next
  <2>4. q = r => rows[r].status = "paid" /\ r \in Plain
    BY <2>1 DEF Detected
  <2> HIDE DEF q
  <2>5. CASE q # r
    BY <2>1, <2>2, <2>5
  <2>6. CASE q = r
    BY <2>1, <2>2, <2>3, <2>4, <2>6 DEF RowRecord
  <2> QED
    BY <2>5, <2>6
<1>4. ASSUME NEW k \in Ticks, Claim(k)
      PROVE  rows'[r] = rows[r]
  BY <1>4 DEF Claim
<1>5. ASSUME NEW k \in Ticks, Contribute(k)
      PROVE  rows'[r].status = rows[r].status
  <2>1. rows[r] \in RowRecord /\ rows[r].status # "pending"
    OBVIOUS
  <2>2. CASE tick[k].row = r
    <3>1. rows' = rows \/ rows' = [rows EXCEPT ![r] =
            [rows[r] EXCEPT !.total = rows[r].total + 1, !.scanned = tick[k].block,
                            !.status = rows[r].status]]
      BY <1>5, <2>1, <2>2 DEF Contribute
    <3> QED
      BY <2>1, <3>1 DEF RowRecord
  <2>3. CASE tick[k].row # r
    BY <1>5, <2>3 DEF Contribute
  <2> QED
    BY <2>2, <2>3
<1>6. ASSUME NEW k \in Ticks, Close(k)
      PROVE  rows'[r].status = rows[r].status
  <2>1. rows[r] \in RowRecord /\ r \notin Active
    BY DEF Active
  <2> QED
    BY <1>6, <2>1 DEF Close, RowRecord
<1>7. ASSUME NEW k \in Ticks,
             Row(k) \/ Clock(k) \/ Scan(k) \/ Check(k) \/ Save(k) \/ Settle(k) \/ Fail(k)
             \/ \E todo \in SUBSET Active : Start(k, todo)
      PROVE  rows' = rows
  BY <1>7 DEF Row, Clock, Scan, Check, Save, Settle, Fail, Start
<1>8. ASSUME NEW paid \in SUBSET Transfers, Mine(paid)
      PROVE  rows' = rows
  BY <1>8 DEF Mine
<1> QED
  BY <1>1, <1>2, <1>3, <1>4, <1>5, <1>6, <1>7, <1>8 DEF Next, Continue, vars

\* Whatever a stale tick writes, a cancelled request stays cancelled, and a paid
\* one keeps its payment and is neither expired nor cancelled.
THEOREM EndsStay == Spec => EndsAreFinal
<1>1. IInv /\ [Next]_vars =>
        [\A r \in Requests :
           /\ rows[r].status = "cancelled" => rows'[r].status = "cancelled"
           /\ rows[r].status = "paid" =>
                \/ rows'[r].status = "paid"
                \/ /\ r \notin Split /\ rows'[r].status = "confirming"
                   /\ rows'[r].tx = rows[r].tx]_vars
  BY EndsStep DEF Plain
<1> QED
  BY <1>1, Invariant, PTL DEF Spec, EndsAreFinal

-----------------------------------------------------------------------------
(* Reports and cursors, whatever the providers lag *)

\* Tick k is about to announce that r is paid, or to enter t in the history.
Announcing(k, r) == tick[k].at = "save" /\ tick[k].row = r /\ tick[k].paid
Saving(k, t) == tick[k].at = "save" /\ Head(tick[k].logs) = t

Broken == \E k \in Ticks : tick[k].at = "failed"

\* A split request is announced by one tick, the one that made it paid; what is
\* paid and credited is reported, or a tick is about to, or that tick failed.
Reported ==
    /\ \A r \in Split : /\ rows[r].status # "confirming"
                        /\ announced[r] <= 1
                        /\ announced[r] > 0 => rows[r].status = "paid"
    /\ \A r \in Split : \A k \in Ticks :
         Announcing(k, r) => rows[r].status = "paid" /\ announced[r] = 0
    /\ \A r \in Split : \A j, k \in Ticks : Announcing(j, r) /\ Announcing(k, r) => j = k
    /\ \A r \in Requests : rows[r].status = "paid" =>
         announced[r] > 0 \/ Broken \/ \E k \in Ticks : Announcing(k, r)
    /\ \A t \in Transfers : Credited(t) =>
         t \in history \/ Broken \/ \E k \in Ticks : Saving(k, t)

\* Nothing is paid or credited by this step.
NothingNew ==
    /\ \A r \in Requests : rows'[r].tx \in {rows[r].tx, None}
    /\ \A r \in Requests : rows'[r].status = "paid" => rows[r].status = "paid"
    /\ \A r \in Split : rows[r].status = "paid" => rows'[r].status = "paid"
    /\ \A r \in Split : rows'[r].status # "confirming"
    /\ UNCHANGED contrib

LEMMA CreditedBefore ==
  ASSUME NothingNew, NEW t \in Transfers, Credited(t)'
  PROVE  Credited(t)
BY ReconcilerAssumption DEF NothingNew, Credited

\* A step of a tick that reports nothing, and had nothing to report unless it
\* fails now.
LEMMA NothingToReport ==
  ASSUME IInv, Reported, NothingNew, UNCHANGED <<announced, history>>,
         NEW k \in Ticks, OthersStay(k),
         tick'[k].at # "save",
         tick[k].at \in {"save", "failed"} => tick'[k].at = "failed"
  PROVE  Reported'
<1>1. Broken => Broken'
  BY DEF Broken, OthersStay
<1>2. \A j \in Ticks : \A r \in Requests :
        /\ Announcing(j, r)' => Announcing(j, r)
        /\ Announcing(j, r) => Broken' \/ Announcing(j, r)'
  BY DEF Announcing, OthersStay, Broken
<1>3. \A j \in Ticks : \A t \in Transfers : Saving(j, t) => Broken' \/ Saving(j, t)'
  BY DEF Saving, OthersStay, Broken
<1>4. Split \subseteq Requests
  BY ReconcilerAssumption
<1>5. \A t \in Transfers : Credited(t)' =>
        t \in history \/ Broken' \/ \E j \in Ticks : Saving(j, t)'
  BY <1>1, <1>3, CreditedBefore DEF Reported
<1>6. \A r \in Requests : rows'[r].status = "paid" =>
        announced[r] > 0 \/ Broken' \/ \E j \in Ticks : Announcing(j, r)'
  BY <1>1, <1>2 DEF Reported, NothingNew
<1>7. \A r \in Split : /\ rows'[r].status # "confirming"
                       /\ announced[r] <= 1
                       /\ announced[r] > 0 => rows'[r].status = "paid"
  BY DEF Reported, NothingNew
<1>8. \A r \in Split : \A j \in Ticks :
         Announcing(j, r)' => rows'[r].status = "paid" /\ announced[r] = 0
  BY <1>2, <1>4 DEF Reported, NothingNew
<1>9. \A r \in Split : \A i, j \in Ticks : Announcing(i, r)' /\ Announcing(j, r)' => i = j
  BY <1>2, <1>4 DEF Reported
<1> QED
  BY <1>5, <1>6, <1>7, <1>8, <1>9 DEF Reported

LEMMA RowsUnchanged ==
  ASSUME Reported, UNCHANGED <<rows, contrib>>
  PROVE  NothingNew
BY DEF NothingNew, Reported

LEMMA QuietReports ==
  ASSUME IInv, Reported, NEW k \in Ticks,
         \/ Row(k) \/ Clock(k) \/ Scan(k) \/ Check(k) \/ Settle(k) \/ Fail(k)
         \/ \E todo \in SUBSET Active : Start(k, todo)
  PROVE  Reported'
<1>1. UNCHANGED <<rows, contrib, announced, history>> /\ TypeInv
  BY DEF Row, Clock, Scan, Check, Settle, Fail, Start, IInv
<1>2. NothingNew
  BY <1>1, RowsUnchanged
<1>3. CASE Row(k)
  <2>1. tick[k].at = "row" /\ OthersStay(k)
    BY <1>1, <1>3, RowTick DEF Row
  <2>2. tick'[k].at # "save"
    BY <1>1, <1>3, RowTick DEF Between, Entered
  <2> QED
    BY <1>1, <1>2, <2>1, <2>2, NothingToReport
<1>4. CASE Scan(k)
  BY <1>1, <1>2, <1>4, ScanTick, NothingToReport DEF Scan, Scanned
<1>5. CASE Check(k)
  <2>1. tick[k].at = "check" /\ tick[k] \in TickRecord
    BY <1>1, <1>5 DEF Check, TypeInv
  <2>2. \/ NextLog(k)
        \/ \E step \in {"settle", "close", "claim"} : Goto(k, step)
    BY <1>5 DEF Check
  <2>3. tick'[k].at \in {"settle", "close", "claim", "check"} /\ OthersStay(k)
    BY <1>1, <2>1, <2>2 DEF Goto, NextLog, TypeInv, TickRecord, OthersStay
  <2> QED
    BY <1>1, <1>2, <2>1, <2>3, NothingToReport
<1>6. CASE Settle(k)
  <2>1. tick[k].at = "settle" /\ tick'[k].at # "save" /\ OthersStay(k)
    BY <1>1, <1>6 DEF Settle, Goto, TypeInv, OthersStay
  <2> QED
    BY <1>1, <1>2, <2>1, NothingToReport
<1>7. CASE Fail(k)
  <2>1. tick'[k].at = "failed" /\ OthersStay(k)
    BY <1>1, <1>7 DEF Fail, Idle, TypeInv, OthersStay
  <2> QED
    BY <1>1, <1>2, <2>1, NothingToReport
<1>8. ASSUME NEW todo \in SUBSET Active, Start(k, todo) PROVE Reported'
  <2>1. tick[k].at = "idle" /\ tick'[k].at = "row" /\ OthersStay(k)
    BY <1>1, <1>8, StartTick DEF Start, Started
  <2> QED
    BY <1>1, <1>2, <2>1, NothingToReport
<1>9. CASE Clock(k)
  BY <1>1, <1>2, <1>9, ClockTick, NothingToReport DEF Timed
<1> QED
  BY <1>3, <1>4, <1>5, <1>6, <1>7, <1>8, <1>9

\* Where no tick moves.
LEMMA TicksRest ==
  ASSUME IInv, Reported, NothingNew, UNCHANGED <<announced, history, tick>>
  PROVE  Reported'
<1>1. \A t \in Transfers : Credited(t)' => Credited(t)
  BY CreditedBefore
<1>2. Broken' = Broken /\ \A k \in Ticks : /\ \A r : Announcing(k, r)' = Announcing(k, r)
                                          /\ \A t : Saving(k, t)' = Saving(k, t)
  BY DEF Broken, Announcing, Saving
<1> QED
  BY <1>1, <1>2 DEF Reported, NothingNew

LEMMA RoutesReport ==
  ASSUME IInv, Reported, NEW r \in Requests, Cancel(r) \/ \E b \in Heights : Create(r, b)
  PROVE  Reported'
<1>1. /\ UNCHANGED <<announced, history, tick, contrib>>
      /\ \A q \in Requests \ {r} : rows'[q] = rows[q]
      /\ rows[r].status \in {"pending", "none"}
  BY DEF Cancel, Create, IInv, TypeInv
<1>2. rows'[r].tx \in {rows[r].tx, None} /\ rows'[r].status \in {"cancelled", "pending"}
  <2>1. rows[r] \in RowRecord /\ rows \in [Requests -> RowRecord]
    BY DEF IInv, TypeInv
  <2>2. CASE Cancel(r)
    BY <2>1, <2>2 DEF Cancel, RowRecord
  <2>3. ASSUME NEW b \in Heights, Create(r, b)
        PROVE  rows'[r].tx = None /\ rows'[r].status = "pending"
    <3> DEFINE new == [Absent EXCEPT !.status = "pending", !.start = b, !.scanned = b,
                                     !.deadline = height + TTL]
    <3>1. new.tx = None /\ new.status = "pending"
      BY DEF Absent
    <3>2. rows' = [rows EXCEPT ![r] = new]
      BY <2>3 DEF Create
    <3> HIDE DEF new
    <3> QED
      BY <2>1, <3>1, <3>2
  <2> QED
    BY <2>2, <2>3
<1>3. NothingNew
  BY <1>1, <1>2, ReconcilerAssumption DEF NothingNew, Reported
<1> QED
  BY <1>1, <1>3, TicksRest

\* A step of a working tick that pays, credits or reports.
LEMMA ReportStep ==
  ASSUME IInv, Reported, NEW k \in Ticks, OthersStay(k), Working(tick[k]),
         \A r \in Split : /\ rows'[r].status # "confirming"
                          /\ rows[r].status = "paid" => rows'[r].status = "paid"
                          /\ Announcing(k, r)' => /\ rows'[r].status = "paid"
                                                  /\ rows[r].status # "paid"
                                                  /\ announced'[r] = announced[r]
                          /\ \/ announced'[r] = announced[r]
                             \/ Announcing(k, r) /\ announced'[r] = 1,
         \A r \in Requests : rows'[r].status = "paid" =>
           \/ rows[r].status = "paid" /\ ~Announcing(k, r)
           \/ announced'[r] > 0
           \/ Announcing(k, r)',
         \A r \in Requests : announced[r] > 0 => announced'[r] > 0,
         \A t \in Transfers : Credited(t)' =>
           (Credited(t) /\ ~Saving(k, t)) \/ t \in history' \/ Saving(k, t)',
         history \subseteq history'
  PROVE  Reported'
<1>1. Broken => Broken'
  BY DEF Broken, OthersStay, Working
<1>2. \A j \in Ticks \ {k} : /\ \A r \in Requests : Announcing(j, r)' <=> Announcing(j, r)
                             /\ \A t \in Transfers : Saving(j, t)' <=> Saving(j, t)
  BY DEF Announcing, Saving, OthersStay
<1>3. Split \subseteq Requests /\ announced \in [Requests -> 0 .. Many]
  BY ReconcilerAssumption DEF IInv, TypeInv
<1>4. \A t \in Transfers : Credited(t)' =>
        t \in history' \/ Broken' \/ \E j \in Ticks : Saving(j, t)'
  <2> SUFFICES ASSUME NEW t \in Transfers, Credited(t)', t \notin history', ~Saving(k, t)',
                      ~Broken'
               PROVE  \E j \in Ticks : Saving(j, t)'
    OBVIOUS
  <2>1. Credited(t) /\ ~Saving(k, t) /\ t \notin history /\ ~Broken
    BY <1>1
  <2>2. PICK j \in Ticks : Saving(j, t)
    BY <2>1 DEF Reported
  <2> QED
    BY <1>2, <2>1, <2>2
<1>5. \A r \in Requests : rows'[r].status = "paid" =>
        announced'[r] > 0 \/ Broken' \/ \E j \in Ticks : Announcing(j, r)'
  <2> SUFFICES ASSUME NEW r \in Requests, rows'[r].status = "paid", ~(announced'[r] > 0),
                      ~Announcing(k, r)', ~Broken'
               PROVE  \E j \in Ticks : Announcing(j, r)'
    OBVIOUS
  <2>1. rows[r].status = "paid" /\ ~Announcing(k, r) /\ ~(announced[r] > 0) /\ ~Broken
    BY <1>1
  <2>2. PICK j \in Ticks : Announcing(j, r)
    BY <2>1 DEF Reported
  <2> QED
    BY <1>2, <2>1, <2>2
<1>6. \A r \in Split : /\ announced'[r] <= 1
                       /\ announced'[r] > 0 => rows'[r].status = "paid"
  BY <1>3 DEF Reported
<1>7. \A r \in Split : \A j \in Ticks :
         Announcing(j, r)' => rows'[r].status = "paid" /\ announced'[r] = 0
  <2> SUFFICES ASSUME NEW r \in Split, NEW j \in Ticks, Announcing(j, r)'
               PROVE  rows'[r].status = "paid" /\ announced'[r] = 0
    OBVIOUS
  <2>1. CASE j = k
    <3>1. ~(announced[r] > 0) /\ announced'[r] = announced[r] /\ rows'[r].status = "paid"
      BY <2>1 DEF Reported
    <3> QED
      BY <1>3, <3>1
  <2>2. CASE j # k
    <3>1. Announcing(j, r)
      BY <1>2, <1>3, <2>2
    <3>2. ~Announcing(k, r) /\ rows[r].status = "paid" /\ announced[r] = 0
      BY <2>2, <3>1 DEF Reported
    <3> QED
      BY <3>2
  <2> QED
    BY <2>1, <2>2
<1>8. \A r \in Split : \A i, j \in Ticks : Announcing(i, r)' /\ Announcing(j, r)' => i = j
  <2> SUFFICES ASSUME NEW r \in Split, NEW i \in Ticks, NEW j \in Ticks, i # j,
                      Announcing(i, r)', Announcing(j, r)'
               PROVE  FALSE
    OBVIOUS
  <2>1. CASE i # k /\ j # k
    BY <1>2, <1>3, <2>1 DEF Reported
  <2>2. ASSUME NEW o \in Ticks \ {k}, Announcing(o, r)', Announcing(k, r)'
        PROVE  FALSE
    <3>1. rows[r].status # "paid" /\ Announcing(o, r)
      BY <1>2, <1>3, <2>2
    <3> QED
      BY <3>1 DEF Reported
  <2> QED
    BY <2>1, <2>2
<1> QED
  BY <1>4, <1>5, <1>6, <1>7, <1>8 DEF Reported

LEMMA ConfirmReports ==
  ASSUME IInv, Reported, NEW k \in Ticks, Confirm(k)
  PROVE  Reported'
<1> DEFINE r == tick[k].row
           n == Confirmations(tick[k].block, tick[k].snap[r].tx)
           next == IF n >= Required THEN "paid" ELSE "confirming"
<1>1. /\ tick[k].at = "confirm" /\ Working(tick[k]) /\ TickSound(k) /\ TypeInv
      /\ UNCHANGED <<contrib, history>>
  BY DEF Confirm, Working, IInv
<1>2. r \in Plain /\ r \in Requests /\ rows[r] \in RowRecord
  BY <1>1, RowOfTick DEF TickSound
<1>3. OthersStay(k) /\ tick'[k].at # "save"
  BY <1>1, NextRowBetween DEF Confirm, Between
<1>4. CASE UNCHANGED <<rows, announced>>
  BY <1>1, <1>3, <1>4, RowsUnchanged, NothingToReport DEF Working
<1>5. ASSUME rows' = [rows EXCEPT ![r].status = next, ![r].confirmations = n],
             IF next = "paid" THEN Announce(r) ELSE UNCHANGED announced
      PROVE  Reported'
  <2>1. /\ \A q \in Requests \ {r} : rows'[q] = rows[q]
        /\ rows'[r].status = next /\ rows'[r].tx = rows[r].tx
    BY <1>1, <1>2, <1>5 DEF TypeInv, RowRecord
  <2>2. /\ \A q \in Requests \ {r} : announced'[q] = announced[q]
        /\ next = "paid" => announced'[r] > 0
        /\ announced[r] > 0 => announced'[r] > 0
    BY <1>1, <1>2, <1>5 DEF TypeInv, Announce, Many
  <2>3. \A t \in Transfers : Credited(t)' => Credited(t)
    BY <1>1, <1>2, <2>1 DEF Credited
  <2>4. \A q \in Split : q \in Requests /\ q # r
    BY <1>2, ReconcilerAssumption DEF Plain
  <2>5. \A q, t : ~Announcing(k, q) /\ ~Announcing(k, q)' /\ ~Saving(k, t)
    BY <1>1, <1>3 DEF Announcing, Saving
  <2> HIDE DEF r, n, next
  <2>6. \A q \in Split : /\ rows'[q].status # "confirming"
                         /\ rows[q].status = "paid" => rows'[q].status = "paid"
                         /\ announced'[q] = announced[q]
    BY <2>1, <2>2, <2>4 DEF Reported
  <2>7. \A q \in Requests : /\ rows'[q].status = "paid" =>
                                 rows[q].status = "paid" \/ announced'[q] > 0
                            /\ announced[q] > 0 => announced'[q] > 0
    BY <2>1, <2>2
  <2> QED
    BY <1>1, <1>3, <2>3, <2>5, <2>6, <2>7, ReportStep
<1> QED
  BY <1>5, <1>4 DEF Confirm

LEMMA ClaimReports ==
  ASSUME IInv, Reported, NEW k \in Ticks, Claim(k)
  PROVE  Reported'
<1> DEFINE r == tick[k].row
           logs == tick[k].logs
           t == Head(logs)
           n == Confirmations(tick[k].block, t)
           next == IF n >= Required THEN "paid" ELSE "confirming"
<1>1. /\ tick[k].at = "claim" /\ Working(tick[k]) /\ TypeInv /\ r \notin Split
      /\ logs # <<>> /\ UNCHANGED <<contrib, history, announced>>
  BY DEF Claim, Working, IInv, TickSound
<1>2. /\ r \in Requests /\ rows[r] \in RowRecord /\ t \in Transfers
      /\ tick[k] \in TickRecord
  BY <1>1, RowOfTick, LogOfTick DEF TypeInv
<1>3. CASE UNCHANGED rows /\ Rest(k)
  BY <1>1, <1>3, RestBetween, RowsUnchanged, NothingToReport DEF Between
<1>4. CASE UNCHANGED rows /\ NextLog(k)
  <2>1. tick'[k].at = "check" /\ OthersStay(k)
    BY <1>1, <1>2, <1>4 DEF NextLog, TypeInv, TickRecord, OthersStay
  <2> QED
    BY <1>1, <1>4, <2>1, RowsUnchanged, NothingToReport
<1>5. ASSUME rows[r].status = "pending",
             rows' = [rows EXCEPT ![r] = [@ EXCEPT !.status = next, !.tx = t,
                            !.confirmations = n, !.scanned = tick[k].block]],
             tick' = [tick EXCEPT ![k].at = "save", ![k].paid = (next = "paid")]
      PROVE  Reported'
  <2>1. /\ \A q \in Requests \ {r} : rows'[q] = rows[q]
        /\ rows'[r].status = next /\ rows'[r].tx = t
    BY <1>1, <1>2, <1>5 DEF TypeInv, RowRecord
  <2>2. \A u \in Transfers : Credited(u)' => Credited(u) \/ u = t
    BY <1>1, <1>2, <2>1 DEF Credited
  <2>3. /\ tick'[k].at = "save" /\ tick'[k].row = r /\ tick'[k].logs = logs
        /\ tick'[k].paid = (next = "paid") /\ OthersStay(k)
    BY <1>1, <1>2, <1>5 DEF TypeInv, TickRecord, OthersStay
  <2>4. \A q \in Split : q \in Requests /\ q # r
    BY <1>1, ReconcilerAssumption
  <2>5. /\ \A u : u = t => Saving(k, u)'
        /\ \A q, u : ~Announcing(k, q) /\ ~Saving(k, u)
    BY <1>1, <2>3 DEF Announcing, Saving
  <2>6. \A q : Announcing(k, q)' <=> q = r /\ next = "paid"
    BY <2>3 DEF Announcing
  <2> HIDE DEF r, n, t, logs, next
  <2>7. \A q \in Split : /\ rows'[q].status # "confirming"
                         /\ rows[q].status = "paid" => rows'[q].status = "paid"
                         /\ ~Announcing(k, q)'
    BY <2>1, <2>4, <2>6 DEF Reported
  <2>8. \A q \in Requests : rows'[q].status = "paid" =>
                              rows[q].status = "paid" \/ Announcing(k, q)'
    BY <2>1, <2>6
  <2>10. \A q \in Split : /\ rows'[q].status # "confirming"
                          /\ rows[q].status = "paid" => rows'[q].status = "paid"
                          /\ Announcing(k, q)' => /\ rows'[q].status = "paid"
                                                  /\ rows[q].status # "paid"
                                                  /\ announced'[q] = announced[q]
                          /\ \/ announced'[q] = announced[q]
                             \/ Announcing(k, q) /\ announced'[q] = 1
    BY <1>1, <2>7
  <2>11. \A q \in Requests : rows'[q].status = "paid" =>
           \/ rows[q].status = "paid" /\ ~Announcing(k, q)
           \/ announced'[q] > 0
           \/ Announcing(k, q)'
    BY <2>5, <2>8
  <2>12. /\ \A q \in Requests : announced[q] > 0 => announced'[q] > 0
         /\ history \subseteq history'
    BY <1>1
  <2>13. \A u \in Transfers : Credited(u)' =>
           (Credited(u) /\ ~Saving(k, u)) \/ u \in history' \/ Saving(k, u)'
    BY <2>2, <2>5
  <2> QED
    BY <1>1, <2>3, <2>10, <2>11, <2>12, <2>13, ReportStep
<1>6. \/ UNCHANGED rows /\ Rest(k)
      \/ UNCHANGED rows /\ NextLog(k)
      \/ /\ rows[r].status = "pending"
         /\ rows' = [rows EXCEPT ![r] = [@ EXCEPT !.status = next, !.tx = t,
                            !.confirmations = n, !.scanned = tick[k].block]]
         /\ tick' = [tick EXCEPT ![k].at = "save", ![k].paid = (next = "paid")]
  BY Zenon DEF Claim
<1> HIDE DEF r, n, t, logs, next
<1> QED
  BY <1>3, <1>4, <1>5, <1>6

LEMMA ContributeReports ==
  ASSUME IInv, Reported, NEW k \in Ticks, Contribute(k)
  PROVE  Reported'
<1> DEFINE r == tick[k].row
           logs == tick[k].logs
           t == Head(logs)
           full == rows[r].total + 1 >= Need /\ rows[r].status = "pending"
           status == IF full THEN "paid" ELSE rows[r].status
<1>1. /\ tick[k].at = "claim" /\ Working(tick[k]) /\ TypeInv /\ r \in Split
      /\ logs # <<>> /\ UNCHANGED <<history, announced>>
  BY DEF Contribute, Working, IInv, TickSound
<1>2. /\ r \in Requests /\ rows[r] \in RowRecord /\ t \in Transfers
      /\ tick[k] \in TickRecord
  BY <1>1, RowOfTick, LogOfTick DEF TypeInv
<1>3. CASE UNCHANGED <<rows, contrib>> /\ Rest(k)
  BY <1>1, <1>3, RestBetween, RowsUnchanged, NothingToReport DEF Between
<1>4. ASSUME contrib' = [contrib EXCEPT ![t] = r],
             rows' = [rows EXCEPT ![r] = [@ EXCEPT !.total = rows[r].total + 1,
                            !.scanned = tick[k].block, !.status = status]],
             tick' = [tick EXCEPT ![k].at = "save", ![k].paid = full]
      PROVE  Reported'
  <2>1. /\ \A q \in Requests \ {r} : rows'[q] = rows[q]
        /\ rows'[r].status = status /\ rows'[r].tx = rows[r].tx
    <3>1. rows[r] \in RowRecord /\ rows \in [Requests -> RowRecord] /\ r \in Requests
      BY <1>1, <1>2 DEF TypeInv
    <3> HIDE DEF r, t, logs, full, status
    <3> QED
      BY <1>4, <3>1 DEF RowRecord
  <2>2. \A u \in Transfers : Credited(u)' => Credited(u) \/ u = t
    BY <1>1, <1>2, <1>4, <2>1 DEF Credited, TypeInv
  <2>3. /\ tick'[k].at = "save" /\ tick'[k].row = r /\ tick'[k].logs = logs
        /\ tick'[k].paid = full /\ OthersStay(k)
    BY <1>1, <1>2, <1>4 DEF TypeInv, TickRecord, OthersStay
  <2>4. \A q \in Split : q \in Requests
    BY ReconcilerAssumption
  <2>5. /\ \A u : u = t => Saving(k, u)'
        /\ \A q, u : ~Announcing(k, q) /\ ~Saving(k, u)
    BY <1>1, <2>3 DEF Announcing, Saving
  <2>6. \A q : Announcing(k, q)' <=> q = r /\ full
    BY <2>3 DEF Announcing
  <2>7. /\ full => rows[r].status = "pending" /\ status = "paid"
        /\ ~full => status = rows[r].status
    OBVIOUS
  <2> HIDE DEF r, t, logs, full, status
  <2>8. \A q \in Split : /\ rows'[q].status # "confirming"
                         /\ rows[q].status = "paid" => rows'[q].status = "paid"
                         /\ Announcing(k, q)' => /\ rows'[q].status = "paid"
                                                 /\ rows[q].status # "paid"
    BY <2>1, <2>4, <2>6, <2>7 DEF Reported
  <2>9. \A q \in Requests : rows'[q].status = "paid" =>
                              rows[q].status = "paid" \/ Announcing(k, q)'
    BY <2>1, <2>6, <2>7
  <2>10. \A q \in Split : /\ rows'[q].status # "confirming"
                          /\ rows[q].status = "paid" => rows'[q].status = "paid"
                          /\ Announcing(k, q)' => /\ rows'[q].status = "paid"
                                                  /\ rows[q].status # "paid"
                                                  /\ announced'[q] = announced[q]
                          /\ \/ announced'[q] = announced[q]
                             \/ Announcing(k, q) /\ announced'[q] = 1
    BY <1>1, <2>8
  <2>11. \A q \in Requests : rows'[q].status = "paid" =>
           \/ rows[q].status = "paid" /\ ~Announcing(k, q)
           \/ announced'[q] > 0
           \/ Announcing(k, q)'
    BY <2>5, <2>9
  <2>12. /\ \A q \in Requests : announced[q] > 0 => announced'[q] > 0
         /\ history \subseteq history'
    BY <1>1
  <2>13. \A u \in Transfers : Credited(u)' =>
           (Credited(u) /\ ~Saving(k, u)) \/ u \in history' \/ Saving(k, u)'
    BY <2>2, <2>5
  <2> QED
    BY <1>1, <2>3, <2>10, <2>11, <2>12, <2>13, ReportStep
<1>5. \/ UNCHANGED <<rows, contrib>> /\ Rest(k)
      \/ /\ contrib' = [contrib EXCEPT ![t] = r]
         /\ rows' = [rows EXCEPT ![r] = [@ EXCEPT !.total = rows[r].total + 1,
                            !.scanned = tick[k].block, !.status = status]]
         /\ tick' = [tick EXCEPT ![k].at = "save", ![k].paid = full]
  BY Zenon DEF Contribute
<1> HIDE DEF r, t, logs, full, status
<1> QED
  BY <1>3, <1>4, <1>5

LEMMA CloseReports ==
  ASSUME IInv, Reported, NEW k \in Ticks, Close(k)
  PROVE  Reported'
<1> DEFINE r == tick[k].row
<1>1. /\ tick[k].at = "close" /\ Working(tick[k]) /\ TypeInv /\ TickSound(k)
      /\ UNCHANGED <<contrib, history, announced>>
  BY DEF Close, Working, IInv
<1>2. r \in Requests /\ rows[r] \in RowRecord
  BY <1>1, RowOfTick
<1>3. OthersStay(k) /\ tick'[k].at # "save"
  BY <1>1, NextRowBetween DEF Close, Between
<1>4. /\ \A q \in Requests \ {r} : rows'[q] = rows[q]
      /\ rows'[r].tx = rows[r].tx
      /\ \/ rows'[r].status = rows[r].status
         \/ rows'[r].status = "expired" /\ r \in Active
  <2>1. \/ rows' = rows
        \/ /\ rows' = [rows EXCEPT ![r] = [@ EXCEPT !.status = "expired",
                                                    !.scanned = tick[k].block]]
           /\ r \in Active
        \/ rows' = [rows EXCEPT ![r].scanned = tick[k].block]
    BY DEF Close
  <2>2. rows \in [Requests -> RowRecord]
    BY <1>1 DEF TypeInv
  <2> HIDE DEF r
  <2> QED
    BY <1>2, <2>1, <2>2 DEF RowRecord
<1>5. NothingNew
  <2>1. \A q \in Split : q \in Requests
    BY ReconcilerAssumption
  <2> HIDE DEF r
  <2> QED
    BY <1>1, <1>4, <2>1 DEF NothingNew, Reported, Active
<1> QED
  BY <1>1, <1>3, <1>5, NothingToReport

LEMMA SaveReports ==
  ASSUME IInv, Reported, NEW k \in Ticks, Save(k)
  PROVE  Reported'
<1> DEFINE r == tick[k].row
           t == Head(tick[k].logs)
<1>1. /\ tick[k].at = "save" /\ Working(tick[k]) /\ TypeInv
      /\ UNCHANGED <<rows, contrib>> /\ history' = history \cup {t}
      /\ IF tick[k].paid THEN Announce(r) ELSE UNCHANGED announced
  BY DEF Save, Working, IInv
<1>2. r \in Requests /\ \A q \in Split : q \in Requests
  BY <1>1, RowOfTick, ReconcilerAssumption
<1>3. OthersStay(k) /\ tick'[k].at # "save"
  BY SaveTick DEF Between
<1>4. /\ \A q : Announcing(k, q) <=> q = r /\ tick[k].paid
      /\ \A u : Saving(k, u) => u \in history'
      /\ \A q : ~Announcing(k, q)'
  BY <1>1, <1>3 DEF Announcing, Saving
<1>5. /\ \A q \in Requests \ {r} : announced'[q] = announced[q]
      /\ tick[k].paid => announced'[r] > 0 /\ (announced[r] = 0 => announced'[r] = 1)
      /\ ~tick[k].paid => announced'[r] = announced[r]
  BY <1>1, <1>2 DEF TypeInv, Announce, Many
<1>6. \A u \in Transfers : Credited(u)' = Credited(u)
  BY <1>1 DEF Credited
<1> HIDE DEF r, t
<1>7. \A q \in Split : announced'[q] = announced[q] \/ (Announcing(k, q) /\ announced'[q] = 1)
  BY <1>2, <1>4, <1>5 DEF Reported
<1>8. \A q \in Requests : /\ announced[q] > 0 => announced'[q] > 0
                          /\ Announcing(k, q) => announced'[q] > 0
  BY <1>2, <1>4, <1>5
<1>9. \A q \in Split : rows'[q].status # "confirming"
  BY <1>1 DEF Reported
<1> QED
  BY <1>1, <1>3, <1>4, <1>6, <1>7, <1>8, <1>9, ReportStep

LEMMA StepReports == ASSUME IInv, Reported, [Next]_vars PROVE Reported'
<1>1. CASE UNCHANGED vars
  BY <1>1, RowsUnchanged, TicksRest DEF vars
<1>2. ASSUME NEW paid \in SUBSET Transfers, Mine(paid)
      PROVE  Reported'
  BY <1>2, RowsUnchanged, TicksRest DEF Mine
<1>3. ASSUME NEW k \in Ticks,
             \/ Start(k, Active) \/ \E r \in Active : Start(k, {r})
             \/ Row(k) \/ Clock(k) \/ Scan(k) \/ Check(k) \/ Settle(k) \/ Fail(k)
      PROVE  Reported'
  <2>1. \/ \E todo \in SUBSET Active : Start(k, todo)
        \/ Row(k) \/ Clock(k) \/ Scan(k) \/ Check(k) \/ Settle(k) \/ Fail(k)
    BY <1>3
  <2> QED
    BY <2>1, QuietReports
<1> QED
  BY <1>1, <1>2, <1>3, RoutesReport, ConfirmReports, ClaimReports, ContributeReports,
     SaveReports, CloseReports DEF Next, Continue

LEMMA InitReports == Init => Reported
<1> SUFFICES ASSUME Init PROVE Reported
  OBVIOUS
<1>1. /\ \A r \in Requests : rows[r].status = "none" /\ rows[r].tx = None /\ announced[r] = 0
      /\ \A t \in Transfers : contrib[t] = None
      /\ \A k \in Ticks : tick[k].at = "idle"
  BY DEF Init, Absent, Idle
<1>2. \A r \in Split : r \in Requests
  BY ReconcilerAssumption
<1>3. \A t \in Transfers : ~Credited(t)
  BY <1>1, ReconcilerAssumption DEF Credited
<1> QED
  BY <1>1, <1>2, <1>3 DEF Reported, Announcing, Saving

\* However many ticks race, whatever the providers lag: a split request is
\* announced as paid once (reconcilePendingPaymentRequests.ts:279-296), and when
\* none failed and all are done, nothing paid or credited is unreported.
THEOREM EverythingReported == Spec => []ReportedOnce
<1>1. IInv /\ Reported /\ [Next]_vars => (IInv /\ Reported)'
  BY IInvStep, StepReports
<1>2. Init => IInv /\ Reported
  BY InitKeeps, InitReports
<1>3. ASSUME IInv, Reported PROVE ReportedOnce
  <2>1. Quiet => /\ ~Broken
                 /\ \A k \in Ticks : /\ \A r : ~Announcing(k, r)
                                     /\ \A t : ~Saving(k, t)
    BY DEF Quiet, Broken, Announcing, Saving
  <2> QED
    BY <1>3, <2>1 DEF Reported, ReportedOnce
<1> QED
  BY <1>1, <1>2, <1>3, PTL DEF Spec

-----------------------------------------------------------------------------
(* What a lag within the safety offset adds *)

\* Tick k works on request r and has transfer t among its logs.
Held(k, t) == Working(tick[k]) /\ \E i \in DOMAIN tick[k].logs : tick[k].logs[i] = t
Holds(k, r, t) == tick[k].row = r /\ Held(k, t)

\* Nothing is to be done for t and request r, or a tick is at it.  A split
\* request moves its cursor while the tick that credits it holds further logs.
Covered(r, t) == \/ Credited(t)
                 \/ rows[r].status # "pending"
                 \/ r \in Split /\ \E k \in Ticks : Holds(k, r, t)

\* A scan of request r from block b on misses nothing.
Behind(r, b) ==
    r \in torn \/ \A t \in Transfers : InTime(t, r) /\ mined[t] + Lag <= b => Covered(r, t)

\* What tick k has not found of its request is covered.
Through(k) ==
    \/ tick[k].row \in torn
    \/ \A t \in Transfers : InTime(t, tick[k].row) /\ mined[t] + Lag <= tick[k].block =>
                              Covered(tick[k].row, t) \/ Held(k, t)

TickComplete(k) ==
    /\ \A r \in DOMAIN tick[k].snap :
         tick[k].snap[r].scanned <= height /\ Behind(r, tick[k].snap[r].scanned)
    /\ tick[k].at \in {"clock", "scan", "settle", "close"} => tick[k].logs = <<>>
    /\ tick[k].at = "save" /\ tick[k].row \in Split => contrib[Head(tick[k].logs)] # None
    /\ tick[k].at \in {"check", "claim", "save", "settle", "close"} => Through(k)

RowComplete(r) == rows[r].scanned <= height /\ Behind(r, rows[r].scanned)

Complete ==
    /\ \A r \in Requests : RowComplete(r)
    /\ \A k \in Ticks : TickComplete(k)

\* What tick k drops of its logs is credited, late, of no use, or its request is
\* torn; a plain request has moved no cursor yet.
LogsKept(k) ==
    \A r \in Requests, t \in Transfers : Holds(k, r, t) =>
      \/ Holds(k, r, t)' \/ Credited(t)' \/ ~InTime(t, r)'
      \/ rows'[r].status # "pending" \/ r \in torn'
      \/ r \in Plain /\ ~Working(tick'[k])

Grows == Kept /\ torn \subseteq torn' /\ \A k \in Ticks : LogsKept(k)

LEMMA CoveredStep ==
  ASSUME Grows, NEW r \in Requests, rows[r].status # "none", NEW t \in Transfers,
         InTime(t, r)', r \notin torn', Covered(r, t)
  PROVE  Covered(r, t)'
<1>1. Credited(t) => Credited(t)'
  BY CreditedKept DEF Grows
<1>2. rows[r].status # "pending" => rows'[r].status # "pending"
  BY DEF Grows, Kept
<1>3. ASSUME r \in Split, NEW k \in Ticks, Holds(k, r, t)
      PROVE  Covered(r, t)'
  BY <1>3 DEF Grows, LogsKept, Plain, Covered
<1> QED
  BY <1>1, <1>2, <1>3 DEF Covered

\* Behind a block there was nothing is missed that was not missed before.
LEMMA BehindStep ==
  ASSUME IInv, Grows, NEW r \in Requests, rows[r].status # "none",
         NEW b \in Nat, b <= height, Behind(r, b), r \notin torn',
         NEW t \in Transfers, InTime(t, r)', mined'[t] + Lag <= b
  PROVE  Covered(r, t)'
<1>1. Lag \in Nat /\ height \in Nat /\ mined'[t] \in Nat /\ TypeInv /\ Kept
  BY ReconcilerAssumption DEF IInv, TypeInv, Grows, Kept
<1>2. InTime(t, r) /\ mined'[t] = mined[t]
  <2>1. mined'[t] <= b
    BY <1>1
  <2> QED
    BY <1>1, <2>1, InTimeKept DEF Kept
<1>3. r \notin torn /\ Covered(r, t)
  BY <1>2 DEF Behind, Grows
<1> QED
  BY <1>3, CoveredStep

\* A row that a tick remembers, remembered again or read now.
LEMMA SnapComplete ==
  ASSUME IInv, Grows, NEW r \in Requests, rows[r].status # "none",
         NEW b \in Nat, b <= height, Behind(r, b), NEW c, c = b
  PROVE  /\ c <= height'
         /\ r \in torn' \/ \A t \in Transfers :
              InTime(t, r)' /\ mined'[t] + Lag <= c => Covered(r, t)'
BY BehindStep DEF Grows, Kept

\* What tick k found, it goes on with.
LEMMA ThroughStep ==
  ASSUME IInv, Grows, NEW k \in Ticks, Working(tick[k]), Through(k),
         tick'[k].row = tick[k].row, tick'[k].block = tick[k].block, Working(tick'[k])
  PROVE  Through(k)'
<1> DEFINE r == tick[k].row
<1>1. /\ r \in Requests /\ rows[r].status # "none"
      /\ tick[k].block \in Nat /\ tick[k].block <= height /\ height \in Nat
      /\ Lag \in Nat /\ TypeInv /\ Kept
  BY RowOfTick, ReconcilerAssumption DEF IInv, TickSound, TypeInv, TickRecord, Grows
<1>2. ASSUME r \notin torn', NEW t \in Transfers, InTime(t, r)', mined'[t] + Lag <= tick[k].block
      PROVE  Covered(r, t)' \/ Held(k, t)'
  <2>1. InTime(t, r) /\ mined'[t] = mined[t]
    <3>1. mined'[t] <= tick[k].block /\ mined'[t] <= height
      BY <1>1, <1>2 DEF Kept
    <3> QED
      BY <1>1, <1>2, <3>1, InTimeKept DEF Kept
  <2>2. Covered(r, t) \/ Holds(k, r, t)
    BY <1>2, <2>1 DEF Through, Grows, Holds
  <2>3. CASE Covered(r, t)
    BY <1>1, <1>2, <2>3, CoveredStep
  <2>4. CASE Holds(k, r, t)
    <3>1. Holds(k, r, t)' \/ Credited(t)' \/ rows'[r].status # "pending"
      BY <1>1, <1>2, <2>4 DEF Grows, LogsKept
    <3> QED
      BY <3>1 DEF Covered, Holds
  <2> QED
    BY <2>2, <2>3, <2>4
<1> QED
  BY <1>2 DEF Through

\* The rows a tick remembers after a step were remembered before it, or are
\* the rows of the table.
LEMMA SnapsComplete ==
  ASSUME IInv, Complete, Grows, NEW k \in Ticks,
         \A r \in DOMAIN tick'[k].snap :
           \/ r \in DOMAIN tick[k].snap /\ tick'[k].snap[r] = tick[k].snap[r]
           \/ r \in Requests /\ rows[r].status # "none" /\ tick'[k].snap[r] = rows[r]
  PROVE  \A r \in DOMAIN tick'[k].snap :
           tick'[k].snap[r].scanned <= height' /\ Behind(r, tick[k].snap[r].scanned)'
<1> SUFFICES ASSUME NEW r \in DOMAIN tick'[k].snap
             PROVE  tick'[k].snap[r].scanned <= height' /\ Behind(r, tick[k].snap[r].scanned)'
  OBVIOUS
<1> DEFINE c == tick'[k].snap[r].scanned
<1>1. /\ r \in Requests /\ rows[r].status # "none"
      /\ c \in Nat /\ c <= height /\ Behind(r, c)
  <2>1. CASE r \in DOMAIN tick[k].snap /\ tick'[k].snap[r] = tick[k].snap[r]
    BY <2>1, SnapRow DEF Complete, TickComplete, RowRecord
  <2>2. CASE r \in Requests /\ rows[r].status # "none" /\ tick'[k].snap[r] = rows[r]
    BY <2>2 DEF Complete, RowComplete, IInv, TypeInv, RowRecord
  <2> QED
    BY <2>1, <2>2
<1>2. c <= height'
      /\ (r \in torn' \/ \A t \in Transfers :
              InTime(t, r)' /\ mined'[t] + Lag <= c => Covered(r, t)')
  BY <1>1, SnapComplete
<1> QED
  BY <1>2 DEF Behind

LEMMA TickCompleteFrame ==
  ASSUME IInv, Complete, Grows, NEW k \in Ticks, tick'[k] = tick[k]
  PROVE  TickComplete(k)'
<1>1. \A r \in DOMAIN tick'[k].snap :
        tick'[k].snap[r].scanned <= height' /\ Behind(r, tick[k].snap[r].scanned)'
  BY SnapsComplete
<1>2. tick[k].at = "save" => Head(tick[k].logs) \in Transfers
  BY LogOfTick DEF IInv, TickSound
<1>3. tick[k].at \in {"check", "claim", "save", "settle", "close"} => Through(k)'
  BY ThroughStep DEF Complete, TickComplete, Working
<1> QED
  BY <1>1, <1>2, <1>3 DEF TickComplete, Complete, Grows, Kept

LEMMA OthersComplete ==
  ASSUME IInv, Complete, Grows, NEW k \in Ticks, OthersStay(k), TickComplete(k)'
  PROVE  \A j \in Ticks : TickComplete(j)'
<1>1. ASSUME NEW j \in Ticks \ {k} PROVE TickComplete(j)'
  BY <1>1, TickCompleteFrame DEF OthersStay
<1> QED
  BY <1>1

LEMMA BetweenComplete ==
  ASSUME IInv, Complete, Grows, NEW k \in Ticks, OthersStay(k), Between(k)
  PROVE  \A j \in Ticks : TickComplete(j)'
<1>1. \A r \in DOMAIN tick'[k].snap :
        tick'[k].snap[r].scanned <= height' /\ Behind(r, tick[k].snap[r].scanned)'
  BY SnapsComplete DEF Between
<1>2. TickComplete(k)'
  BY <1>1 DEF TickComplete, Between
<1> QED
  BY <1>2, OthersComplete

LEMMA MovedComplete ==
  ASSUME IInv, Complete, Grows, NEW k \in Ticks, OthersStay(k), Moved(k),
         tick[k].at \in {"check", "claim", "save", "settle"}, tick'[k].at \notin {"clock", "scan"},
         tick'[k].at \in {"settle", "close"} => tick'[k].logs = <<>>,
         tick'[k].at = "save" /\ tick[k].row \in Split => contrib'[Head(tick'[k].logs)] # None
  PROVE  \A j \in Ticks : TickComplete(j)'
<1>1. \A r \in DOMAIN tick'[k].snap :
        tick'[k].snap[r].scanned <= height' /\ Behind(r, tick[k].snap[r].scanned)'
  BY SnapsComplete DEF Moved
<1>2. Through(k)'
  BY ThroughStep DEF Complete, TickComplete, Moved
<1>3. TickComplete(k)'
  BY <1>1, <1>2 DEF TickComplete, Moved
<1> QED
  BY <1>3, OthersComplete

\* A row that keeps its cursor.
LEMMA RowCompleteFrame ==
  ASSUME IInv, Complete, Grows, NEW r \in Requests, rows'[r].scanned = rows[r].scanned,
         rows[r].status # "none" \/ rows'[r] = rows[r]
  PROVE  RowComplete(r)'
<1>1. rows[r].scanned \in Nat /\ height \in Nat /\ height' \in Nat /\ height <= height'
      /\ RowComplete(r)
  BY DEF IInv, TypeInv, RowRecord, Complete, Grows, Kept
<1>2. CASE rows[r].status # "none"
  <2>1. r \in torn' \/ \A t \in Transfers :
          InTime(t, r)' /\ mined'[t] + Lag <= rows[r].scanned => Covered(r, t)'
    BY <1>1, <1>2, BehindStep DEF RowComplete
  <2> QED
    BY <1>1, <2>1 DEF RowComplete, Behind
<1>3. CASE rows[r].status = "none" /\ rows'[r] = rows[r]
  BY <1>1, <1>3 DEF RowComplete, Behind, Covered
<1> QED
  BY <1>2, <1>3

\* A row whose cursor moves to a block behind which nothing is missed.
LEMMA RowCompleteMoved ==
  ASSUME IInv, Grows, NEW r \in Requests, rows[r].status # "none",
         NEW b \in Nat, b <= height, Behind(r, b), rows'[r].scanned = b
  PROVE  RowComplete(r)'
<1>1. /\ b <= height'
      /\ r \in torn' \/ \A t \in Transfers :
              InTime(t, r)' /\ mined'[t] + Lag <= b => Covered(r, t)'
  BY SnapComplete
<1> QED
  BY <1>1 DEF RowComplete, Behind

LEMMA RowsComplete ==
  ASSUME IInv, Complete, Grows, NEW r \in Requests,
         \A q \in Requests \ {r} : rows'[q] = rows[q], RowComplete(r)'
  PROVE  \A q \in Requests : RowComplete(q)'
<1>1. ASSUME NEW q \in Requests \ {r} PROVE RowComplete(q)'
  BY RowCompleteFrame
<1> QED
  BY <1>1

LEMMA TablesComplete ==
  ASSUME IInv, Complete, Grows, rows' = rows
  PROVE  \A q \in Requests : RowComplete(q)'
BY RowCompleteFrame

LEMMA LogsFrame ==
  ASSUME NEW k \in Ticks, tick'[k] = tick[k]
  PROVE  LogsKept(k)
BY DEF LogsKept, Holds, Held

LEMMA GrowsOf ==
  ASSUME Kept, torn \subseteq torn', NEW k \in Ticks, OthersStay(k), LogsKept(k)
  PROVE  Grows
<1>1. \A j \in Ticks \ {k} : LogsKept(j)
  BY LogsFrame DEF OthersStay
<1> QED
  BY <1>1 DEF Grows

LEMMA NoLogs ==
  ASSUME NEW k \in Ticks, ~Working(tick[k]) \/ tick[k].logs = <<>>
  PROVE  LogsKept(k)
BY DEF LogsKept, Holds, Held

LEMMA SameLogs ==
  ASSUME NEW k \in Ticks, Moved(k), tick'[k].logs = tick[k].logs
  PROVE  LogsKept(k)
BY DEF LogsKept, Holds, Held, Moved

\* The first log goes: it is credited, late, or of no use.
LEMMA LogDropped ==
  ASSUME TypeInv, NEW k \in Ticks, Moved(k), tick[k].logs # <<>>,
         tick'[k].logs = Tail(tick[k].logs),
         \A r \in Requests, t \in Transfers : r = tick[k].row /\ t = Head(tick[k].logs) =>
           Credited(t)' \/ ~InTime(t, r)' \/ rows'[r].status # "pending"
  PROVE  LogsKept(k)
<1> DEFINE logs == tick[k].logs
<1>1. logs \in Seq(Transfers)
  BY DEF TypeInv, TickRecord
<1> SUFFICES ASSUME NEW r \in Requests, NEW t \in Transfers, Holds(k, r, t)
             PROVE  Holds(k, r, t)' \/ Credited(t)' \/ ~InTime(t, r)'
                    \/ rows'[r].status # "pending"
  BY DEF LogsKept
<1>2. PICK i \in DOMAIN logs : logs[i] = t
  BY DEF Holds, Held
<1>3. CASE i = 1
  BY <1>1, <1>2, <1>3, LogsSplit DEF Holds
<1>4. CASE i # 1
  <2>1. i - 1 \in DOMAIN Tail(logs) /\ Tail(logs)[i - 1] = t
    BY <1>1, <1>2, <1>4, LogsSplit
  <2> QED
    BY <2>1 DEF Holds, Held, Moved
<1> QED
  BY <1>3, <1>4

\* A plain request left in the middle has moved no cursor.
LEMMA PlainLeft ==
  ASSUME NEW k \in Ticks, tick[k].row \in Plain, ~Working(tick'[k])
  PROVE  LogsKept(k)
BY DEF LogsKept, Holds

-----------------------------------------------------------------------------
(* Every action keeps Complete *)

LEMMA StartCompletes ==
  ASSUME IInv, Complete, Kept, NEW k \in Ticks, NEW todo \in SUBSET Active, Start(k, todo)
  PROVE  Complete'
<1>1. OthersStay(k) /\ Started(k, todo) /\ tick[k].at = "idle" /\ UNCHANGED <<rows, torn>>
  BY StartTick DEF IInv, Start
<1>2. Grows
  BY <1>1, NoLogs, GrowsOf DEF Working
<1>3. \A r \in DOMAIN tick'[k].snap :
        tick'[k].snap[r].scanned <= height' /\ Behind(r, tick[k].snap[r].scanned)'
  <2>1. \A r \in todo : r \in Requests /\ rows[r].status # "none"
    BY DEF Active
  <2> QED
    BY <1>1, <1>2, <2>1, SnapsComplete DEF Started
<1>4. TickComplete(k)'
  BY <1>1, <1>3 DEF Started, TickComplete
<1> QED
  BY <1>1, <1>2, <1>4, OthersComplete, TablesComplete DEF Complete

LEMMA RowCompletes ==
  ASSUME IInv, Complete, Kept, NEW k \in Ticks, Row(k)
  PROVE  Complete'
<1>1. /\ OthersStay(k) /\ tick[k].at = "row" /\ UNCHANGED <<rows, torn>>
      /\ Between(k) \/ \E b \in Heights : Entered(k, b)
  BY RowTick DEF IInv, Row
<1>2. Grows
  BY <1>1, NoLogs, GrowsOf DEF Working
<1>3. ASSUME NEW b \in Heights, Entered(k, b)
      PROVE  TickComplete(k)'
  <2>1. \A r \in DOMAIN tick'[k].snap :
          tick'[k].snap[r].scanned <= height' /\ Behind(r, tick[k].snap[r].scanned)'
    BY <1>2, <1>3, SnapsComplete DEF Entered
  <2>2. tick'[k].logs = <<>>
    BY <1>1, <1>3 DEF Entered, IInv, TickSound, Working
  <2> QED
    BY <1>3, <2>1, <2>2 DEF Entered, TickComplete
<1> QED
  BY <1>1, <1>2, <1>3, OthersComplete, BetweenComplete, TablesComplete DEF Complete

LEMMA ClockCompletes ==
  ASSUME IInv, Complete, Kept, NEW k \in Ticks, Clock(k)
  PROVE  Complete'
<1>1. /\ UNCHANGED <<rows, contrib, height, mined, torn>>
      /\ OthersStay(k) /\ Timed(k)
  BY ClockTick DEF Clock, IInv
<1>2. tick[k].logs = <<>>
  BY <1>1 DEF Complete, TickComplete, Timed
<1>3. Grows
  BY <1>1, <1>2, NoLogs, GrowsOf
<1>4. \A r \in DOMAIN tick'[k].snap :
        tick'[k].snap[r].scanned <= height' /\ Behind(r, tick[k].snap[r].scanned)'
  BY <1>1, <1>3, SnapsComplete DEF Timed
<1>5. TickComplete(k)'
  BY <1>1, <1>2, <1>4 DEF Timed, TickComplete
<1> QED
  BY <1>1, <1>3, <1>5, OthersComplete, TablesComplete DEF Complete

\* The scan starts where the last one that the tick knows of ended, and the node
\* has every block the safety offset leaves.
LEMMA ScanCompletes ==
  ASSUME Lag <= Offset, IInv, Complete, Kept, NEW k \in Ticks, Scan(k)
  PROVE  Complete'
<1>1. OthersStay(k) /\ Working(tick[k]) /\ tick[k].at = "scan"
      /\ UNCHANGED <<rows, contrib, height, mined, torn>>
  BY ScanTick DEF IInv, Scan, Working
<1>2. PICK b \in Heights : Scanned(k, Found(k, First(k), b))
  BY ScanTick DEF IInv
<1>3. tick[k].logs = <<>>
  BY <1>1 DEF Complete, TickComplete
<1>4. Grows
  BY <1>1, <1>3, NoLogs, GrowsOf
<1> DEFINE r == tick[k].row
           row == tick[k].snap[r]
<1>5. /\ r \in DOMAIN tick[k].snap /\ row \in RowRecord /\ row.scanned \in Nat
      /\ r \in Requests /\ rows[r].status # "none"
      /\ tick[k].block \in Nat /\ tick[k].block <= height /\ height \in Nat
      /\ Lag \in Nat /\ Offset \in Nat /\ b \in Nat /\ b + Lag >= height
  <2>1. /\ r \in DOMAIN tick[k].snap /\ row \in RowRecord
        /\ r \in Requests /\ rows[r].status # "none"
        /\ tick[k].block \in Nat /\ tick[k].block <= height /\ height \in Nat
    BY <1>1, RowOfTick DEF IInv, TypeInv, TickRecord, TickSound
  <2>2. row.scanned \in Nat
    BY <2>1 DEF RowRecord
  <2> QED
    BY <2>1, <2>2, ReconcilerAssumption DEF Heights
<1>6. First(k) \in Nat /\ (First(k) = 0 \/ First(k) + Offset <= row.scanned)
  BY <1>5 DEF First, ScanFrom
<1>7. \A q \in DOMAIN tick'[k].snap :
        tick'[k].snap[q].scanned <= height' /\ Behind(q, tick[k].snap[q].scanned)'
  BY <1>2, <1>4, SnapsComplete DEF Scanned
<1>8. ASSUME NEW q \in Requests, q = r, NEW t \in Transfers, q \notin torn',
             InTime(t, q)', mined'[t] + Lag <= tick[k].block
      PROVE  Covered(q, t)' \/ Held(k, t)'
  <2>1. mined[t] \in Nat /\ mined[t] # 0 /\ mined'[t] = mined[t] /\ InTime(t, q)
    <3>1. mined[t] \in Nat /\ mined'[t] = mined[t] /\ rows[q].start \in Nat
      BY <1>1, <1>5 DEF IInv, TypeInv, RowRecord
    <3>2. InTime(t, q)
      BY <1>1, <1>8 DEF InTime
    <3> QED
      BY <3>1, <3>2 DEF InTime
  <2>2. CASE mined[t] >= First(k)
    <3>1. mined[t] <= tick[k].block /\ mined[t] <= b
      BY <1>5, <1>8, <2>1
    <3>2. t \in Found(k, First(k), b)
      BY <2>1, <2>2, <3>1 DEF Found
    <3> QED
      BY <1>2, <3>2 DEF Scanned, Held, Working
  <2>3. CASE mined[t] < First(k)
    <3>1. mined[t] + Lag <= row.scanned
      BY <1>5, <1>6, <2>1, <2>3
    <3>2. Behind(r, row.scanned)
      BY <1>5 DEF Complete, TickComplete
    <3>3. Covered(q, t)
      BY <1>1, <1>8, <2>1, <3>1, <3>2 DEF Behind
    <3> QED
      BY <1>4, <1>5, <1>8, <3>3, CoveredStep
  <2> QED
    BY <1>6, <2>1, <2>2, <2>3
<1>9. TickComplete(k)'
  <2>1. Through(k)'
    <3>1. tick'[k].row \in Requests /\ tick'[k].row = r /\ tick'[k].block = tick[k].block
      BY <1>2, <1>5 DEF Scanned
    <3> QED
      BY <1>8, <3>1 DEF Through
  <2> QED
    BY <1>2, <1>7, <2>1 DEF TickComplete, Scanned
<1> QED
  BY <1>1, <1>4, <1>9, OthersComplete, TablesComplete DEF Complete

\* Where a tick stands that has looked at its next log.
Checked(k) ==
    /\ OthersStay(k) /\ Moved(k) /\ LogsKept(k)
    /\ tick'[k].at \in {"check", "claim", "settle", "close"}
    /\ tick'[k].at \in {"settle", "close"} => tick'[k].logs = <<>>

LEMMA CheckCompletes ==
  ASSUME IInv, Complete, Kept, NEW k \in Ticks, Check(k)
  PROVE  Complete'
<1> DEFINE r == tick[k].row
           logs == tick[k].logs
           t == Head(logs)
<1>1. /\ tick[k].at = "check" /\ Working(tick[k]) /\ TypeInv /\ tick[k] \in TickRecord
      /\ UNCHANGED <<rows, contrib, mined, torn>>
  BY DEF Check, Working, IInv, TypeInv
<1>2. Checked(k)
  <2>1. ASSUME NEW step \in {"settle", "close", "claim"}, Goto(k, step),
               step \in {"settle", "close"} => logs = <<>>, step = "claim" => logs # <<>>
        PROVE  Checked(k)
    <3>1. OthersStay(k) /\ Moved(k)
      BY <1>1, <2>1, GotoMoved
    <3>2. tick'[k].at = step /\ tick'[k].logs = logs
      BY <1>1, <2>1 DEF Goto, TypeInv, TickRecord
    <3> QED
      BY <2>1, <3>1, <3>2, SameLogs DEF Checked
  <2>2. ASSUME logs # <<>>, NextLog(k),
               \/ mined[t] > rows[r].deadline
               \/ \E s \in Requests : ClaimedBy(t, s)
               \/ contrib[t] # None
        PROVE  Checked(k)
    <3>1. OthersStay(k) /\ Moved(k)
      BY <1>1, <2>2, NextLogMoved
    <3>2. tick'[k].at = "check" /\ tick'[k].logs = Tail(logs)
      BY <1>1, <2>2 DEF NextLog, TypeInv, TickRecord
    <3>3. ASSUME NEW q \in Requests, NEW u \in Transfers, q = r, u = t
          PROVE  Credited(u)' \/ ~InTime(u, q)'
      <4>1. rows[q].deadline \in Nat /\ mined[u] \in Nat
        BY <1>1 DEF TypeInv, RowRecord
      <4> HIDE DEF r, t
      <4> QED
        BY <1>1, <2>2, <3>3, <4>1 DEF Credited, InTime, ClaimedBy
    <3>4. LogsKept(k)
      BY <1>1, <2>2, <3>1, <3>2, <3>3, LogDropped
    <3> QED
      BY <3>1, <3>2, <3>4 DEF Checked
  <2> QED
    BY <2>1, <2>2 DEF Check
<1>3. Grows
  BY <1>1, <1>2, GrowsOf DEF Checked
<1> QED
  BY <1>1, <1>2, <1>3, MovedComplete, TablesComplete DEF Complete, Checked

LEMMA SettleCompletes ==
  ASSUME IInv, Complete, Kept, NEW k \in Ticks, Settle(k)
  PROVE  Complete'
<1>1. /\ tick[k].at = "settle" /\ Working(tick[k]) /\ TypeInv /\ tick[k] \in TickRecord
      /\ Goto(k, "close") /\ UNCHANGED <<rows, torn>> /\ tick[k].logs = <<>>
  BY DEF Settle, Working, IInv, TypeInv, Complete, TickComplete
<1>2. OthersStay(k) /\ Moved(k)
  BY <1>1, GotoMoved
<1>3. tick'[k].at = "close" /\ tick'[k].logs = <<>>
  BY <1>1 DEF Goto, TypeInv, TickRecord
<1>4. Grows
  BY <1>1, <1>2, NoLogs, GrowsOf
<1> QED
  BY <1>1, <1>2, <1>3, <1>4, MovedComplete, TablesComplete DEF Complete

LEMMA SaveCompletes ==
  ASSUME IInv, Complete, Kept, NEW k \in Ticks, Save(k)
  PROVE  Complete'
<1> DEFINE t == Head(tick[k].logs)
<1>1. /\ tick[k].at = "save" /\ Working(tick[k]) /\ TypeInv /\ tick[k] \in TickRecord
      /\ tick[k].logs # <<>> /\ UNCHANGED <<rows, contrib, torn>>
  BY DEF Save, Working, IInv, TypeInv, TickSound
<1>2. /\ OthersStay(k)
      /\ Between(k) \/ (Moved(k) /\ tick'[k].at = "check" /\ tick[k].row \in Split)
  BY SaveTick
<1>3. CASE tick[k].row \in Split
  <2>1. tick'[k].logs = Tail(tick[k].logs) /\ tick'[k].at = "check"
    <3> DEFINE m == [tick[k] EXCEPT !.at = "check", !.logs = Tail(tick[k].logs),
                                    !.matched = TRUE, !.paid = FALSE]
    <3>1. tick'[k] = m
      BY <1>1, <1>3 DEF Save, TypeInv
    <3>2. m.at = "check" /\ m.logs = Tail(tick[k].logs)
      BY <1>1 DEF TickRecord
    <3> QED
      BY <3>1, <3>2
  <2>2. contrib'[t] # None
    BY <1>1, <1>3 DEF Complete, TickComplete
  <2>3. Moved(k)
    BY <1>2, <2>1 DEF Between
  <2>4. LogsKept(k)
    <3>1. \A q \in Transfers : q = t => Credited(q)'
      BY <2>2 DEF Credited
    <3> QED
      BY <1>1, <2>1, <2>3, <3>1, LogDropped
  <2>5. Grows
    BY <1>1, <1>2, <2>4, GrowsOf
  <2> QED
    BY <1>1, <1>2, <2>1, <2>3, <2>5, MovedComplete, TablesComplete DEF Complete
<1>4. CASE tick[k].row \notin Split
  <2>1. Between(k) /\ tick[k].row \in Plain
    BY <1>1, <1>2, <1>4, RowOfTick DEF Plain
  <2>2. Grows
    BY <1>1, <1>2, <2>1, PlainLeft, GrowsOf DEF Between, Working
  <2> QED
    BY <1>1, <1>2, <2>1, <2>2, BetweenComplete, TablesComplete DEF Complete
<1> QED
  BY <1>3, <1>4

\* What a failing tick leaves of a split request is torn.
LEMMA FailCompletes ==
  ASSUME IInv, Complete, Kept, NEW k \in Ticks, Fail(k)
  PROVE  Complete'
<1>1. rows' = rows /\ CutShort(k) /\ torn \subseteq torn'
  BY DEF Fail, CutShort
<1>2. OthersStay(k) /\ tick'[k] = [Idle EXCEPT !.at = "failed"]
  BY DEF Fail, IInv, TypeInv, OthersStay
<1>3. /\ tick'[k].at = "failed" /\ tick'[k].todo = {} /\ tick'[k].logs = <<>>
      /\ tick'[k].block = 0 /\ tick'[k].snap = Idle.snap
  BY <1>2 DEF Idle
<1>4. Between(k)
  BY <1>3, IdleType DEF Between
<1>5. LogsKept(k)
  <2>1. CASE ~Working(tick[k]) \/ tick[k].logs = <<>>
    BY <2>1, NoLogs
  <2>2. CASE Working(tick[k]) /\ tick[k].row \in Plain
    BY <1>3, <2>2, PlainLeft DEF Working
  <2>3. CASE tick[k].row \in Split /\ tick[k].logs # <<>>
    BY <1>1, <2>3 DEF CutShort, LogsKept, Holds
  <2> QED
    BY <2>1, <2>2, <2>3, RowOfTick DEF Plain
<1>6. Grows
  BY <1>1, <1>2, <1>5, GrowsOf
<1> QED
  BY <1>1, <1>2, <1>4, <1>6, BetweenComplete, TablesComplete DEF Complete

\* The rows but r keep their cursor.
LEMMA RowClosed ==
  ASSUME NEW r \in Requests, rows'[r].status # "pending", rows'[r].scanned <= height'
  PROVE  RowComplete(r)'
BY DEF RowComplete, Behind, Covered

LEMMA ConfirmCompletes ==
  ASSUME IInv, Complete, Kept, NEW k \in Ticks, Confirm(k)
  PROVE  Complete'
<1> DEFINE r == tick[k].row
           n == Confirmations(tick[k].block, tick[k].snap[r].tx)
           next == IF n >= Required THEN "paid" ELSE "confirming"
<1>1. /\ tick[k].at = "confirm" /\ NextRow(k) /\ Working(tick[k]) /\ TypeInv
      /\ UNCHANGED torn /\ r \in Plain
      /\ rows' = rows \/ rows' = [rows EXCEPT ![r].status = next, ![r].confirmations = n]
  BY DEF Confirm, Working, IInv, TickSound
<1>2. OthersStay(k) /\ Between(k)
  BY <1>1, NextRowBetween DEF IInv
<1>3. Grows
  BY <1>1, <1>2, PlainLeft, GrowsOf DEF Between, Working
<1>4. r \in Requests /\ rows[r] \in RowRecord /\ rows[r].status # "none"
  BY <1>1, RowOfTick
<1> HIDE DEF n, next
<1>5. /\ \A q \in Requests \ {r} : rows'[q] = rows[q]
      /\ rows'[r].scanned = rows[r].scanned
  BY <1>1, <1>4 DEF TypeInv, RowRecord
<1> HIDE DEF r
<1>6. \A q \in Requests : RowComplete(q)'
  BY <1>3, <1>4, <1>5, RowCompleteFrame
<1> QED
  BY <1>2, <1>3, <1>6, BetweenComplete DEF Complete

LEMMA ClaimCompletes ==
  ASSUME IInv, Complete, Kept, NEW k \in Ticks, Claim(k)
  PROVE  Complete'
<1> DEFINE r == tick[k].row
           logs == tick[k].logs
           t == Head(logs)
           n == Confirmations(tick[k].block, t)
           next == IF n >= Required THEN "paid" ELSE "confirming"
<1>1. /\ tick[k].at = "claim" /\ Working(tick[k]) /\ TypeInv /\ tick[k] \in TickRecord
      /\ logs # <<>> /\ UNCHANGED <<height, torn>> /\ r \notin Split
  BY DEF Claim, Working, IInv, TickSound, TypeInv
<1>2. /\ r \in Requests /\ r \in Plain /\ rows[r] \in RowRecord
      /\ tick[k].block \in Nat /\ tick[k].block <= height /\ height \in Nat
  BY <1>1, RowOfTick, LogOfTick DEF Plain, TypeInv
<1>3. CASE UNCHANGED rows /\ Rest(k)
  <2>1. OthersStay(k) /\ Between(k)
    BY <1>1, <1>3, RestBetween
  <2>2. Grows
    BY <1>1, <1>2, <2>1, PlainLeft, GrowsOf DEF Between, Working
  <2> QED
    BY <1>3, <2>1, <2>2, BetweenComplete, TablesComplete DEF Complete
<1>4. CASE UNCHANGED rows /\ NextLog(k) /\ rows[r].status # "pending"
  <2>1. OthersStay(k) /\ Moved(k)
    BY <1>1, <1>4, NextLogMoved
  <2>2. tick'[k].at = "check" /\ tick'[k].logs = Tail(logs)
    BY <1>1, <1>4 DEF NextLog, TypeInv, TickRecord
  <2>3. LogsKept(k)
    BY <1>1, <1>4, <2>1, <2>2, LogDropped
  <2>4. Grows
    BY <1>1, <2>1, <2>3, GrowsOf
  <2> QED
    BY <1>1, <1>4, <2>1, <2>2, <2>4, MovedComplete, TablesComplete DEF Complete
<1>5. ASSUME rows' = [rows EXCEPT ![r] = [@ EXCEPT !.status = next, !.tx = t,
                            !.confirmations = n, !.scanned = tick[k].block]],
             tick' = [tick EXCEPT ![k].at = "save", ![k].paid = (next = "paid")]
      PROVE  Complete'
  <2>1. next # "pending"
    OBVIOUS
  <2>2. OthersStay(k) /\ Moved(k) /\ tick'[k].at = "save" /\ tick'[k].logs = logs
    <3> DEFINE paid == next = "paid"
    <3>1. paid \in BOOLEAN /\ tick' = [tick EXCEPT ![k].at = "save", ![k].paid = paid]
      BY <1>5
    <3> HIDE DEF paid
    <3> QED
      BY <1>1, <3>1, ToSave DEF TypeInv, TickRecord
  <2>3. Grows
    BY <1>1, <2>2, SameLogs, GrowsOf
  <2> HIDE DEF t, n, next
  <2>4. /\ \A q \in Requests \ {r} : rows'[q] = rows[q]
        /\ rows'[r].status # "pending" /\ rows'[r].scanned = tick[k].block
    BY <1>1, <1>2, <1>5, <2>1 DEF TypeInv, RowRecord
  <2>5. \A q \in Requests : RowComplete(q)'
    BY <1>1, <1>2, <2>3, <2>4, RowClosed, RowCompleteFrame
  <2> QED
    BY <1>1, <2>2, <2>3, <2>5, MovedComplete DEF Complete
<1>6. \/ UNCHANGED rows /\ Rest(k)
      \/ UNCHANGED rows /\ NextLog(k) /\ rows[r].status # "pending"
      \/ /\ rows' = [rows EXCEPT ![r] = [@ EXCEPT !.status = next, !.tx = t,
                            !.confirmations = n, !.scanned = tick[k].block]]
         /\ tick' = [tick EXCEPT ![k].at = "save", ![k].paid = (next = "paid")]
  BY Zenon DEF Claim
<1> HIDE DEF r, n, t, logs, next
<1> QED
  BY <1>3, <1>4, <1>5, <1>6

LEMMA ContributeCompletes ==
  ASSUME IInv, Complete, Kept, NEW k \in Ticks, Contribute(k)
  PROVE  Complete'
<1> DEFINE r == tick[k].row
           logs == tick[k].logs
           t == Head(logs)
           full == rows[r].total + 1 >= Need /\ rows[r].status = "pending"
           status == IF full THEN "paid" ELSE rows[r].status
<1>1. /\ tick[k].at = "claim" /\ Working(tick[k]) /\ TypeInv /\ tick[k] \in TickRecord
      /\ logs # <<>> /\ UNCHANGED height /\ r \in Split /\ TickSound(k)
  BY DEF Contribute, Working, IInv, TickSound, TypeInv
<1>2. /\ r \in Requests /\ rows[r] \in RowRecord /\ rows[r].status # "none"
      /\ tick[k].block \in Nat /\ tick[k].block <= height /\ height \in Nat
      /\ t \in Transfers /\ r # None
  BY <1>1, RowOfTick, LogOfTick, ReconcilerAssumption DEF TypeInv
<1>3. CASE UNCHANGED rows /\ Rest(k) /\ CutShort(k)
  <2>1. OthersStay(k) /\ Between(k)
    BY <1>1, <1>3, RestBetween
  <2>2. r \in torn' /\ torn \subseteq torn'
    BY <1>1, <1>3 DEF CutShort
  <2>3. LogsKept(k)
    BY <2>2 DEF LogsKept, Holds
  <2>4. Grows
    BY <2>1, <2>2, <2>3, GrowsOf
  <2> QED
    BY <1>3, <2>1, <2>4, BetweenComplete, TablesComplete DEF Complete
<1>4. ASSUME contrib' = [contrib EXCEPT ![t] = r], UNCHANGED torn,
             rows' = [rows EXCEPT ![r] = [@ EXCEPT !.total = rows[r].total + 1,
                            !.scanned = tick[k].block, !.status = status]],
             tick' = [tick EXCEPT ![k].at = "save", ![k].paid = full]
      PROVE  Complete'
  <2>1. OthersStay(k) /\ Moved(k) /\ tick'[k].at = "save" /\ tick'[k].logs = logs
    <3> DEFINE paid == full
    <3>1. paid \in BOOLEAN /\ tick' = [tick EXCEPT ![k].at = "save", ![k].paid = paid]
      BY <1>4
    <3> HIDE DEF paid, full
    <3> QED
      BY <1>1, <3>1, ToSave DEF TypeInv, TickRecord
  <2>2. Grows
    BY <1>4, <2>1, SameLogs, GrowsOf
  <2>3. contrib'[t] # None
    BY <1>1, <1>2, <1>4 DEF TypeInv
  <2>4. Behind(r, tick[k].block)
    BY <1>1 DEF Complete, TickComplete, Through, Behind, Covered, Holds
  <2> HIDE DEF t, full, status
  <2>5. /\ \A q \in Requests \ {r} : rows'[q] = rows[q]
        /\ rows'[r].scanned = tick[k].block
    BY <1>1, <1>2, <1>4 DEF TypeInv, RowRecord
  <2>6. \A q \in Requests : q = r => RowComplete(q)'
    BY <1>2, <2>2, <2>4, <2>5, RowCompleteMoved
  <2> HIDE DEF r
  <2>7. \A q \in Requests : RowComplete(q)'
    BY <1>2, <2>2, <2>5, <2>6, RowCompleteFrame
  <2> QED
    BY <1>1, <2>1, <2>2, <2>3, <2>7, MovedComplete DEF Complete, t
<1>5. \/ UNCHANGED rows /\ Rest(k) /\ CutShort(k)
      \/ /\ contrib' = [contrib EXCEPT ![t] = r] /\ UNCHANGED torn
         /\ rows' = [rows EXCEPT ![r] = [@ EXCEPT !.total = rows[r].total + 1,
                            !.scanned = tick[k].block, !.status = status]]
         /\ tick' = [tick EXCEPT ![k].at = "save", ![k].paid = full]
  BY Zenon DEF Contribute
<1> HIDE DEF r, t, logs, full, status
<1> QED
  BY <1>3, <1>4, <1>5

LEMMA CloseCompletes ==
  ASSUME IInv, Complete, Kept, NEW k \in Ticks, Close(k)
  PROVE  Complete'
<1> DEFINE r == tick[k].row
<1>1. /\ tick[k].at = "close" /\ NextRow(k) /\ Working(tick[k]) /\ TypeInv
      /\ tick[k].logs = <<>> /\ Through(k) /\ UNCHANGED <<height, torn>>
  BY DEF Close, Working, IInv, Complete, TickComplete
<1>2. /\ r \in Requests /\ rows[r] \in RowRecord /\ rows[r].status # "none"
      /\ tick[k].block \in Nat /\ tick[k].block <= height /\ height \in Nat
  BY <1>1, RowOfTick DEF IInv, TickSound, TypeInv, TickRecord
<1>3. OthersStay(k) /\ Between(k)
  BY <1>1, NextRowBetween DEF IInv
<1>4. Grows
  BY <1>1, <1>3, NoLogs, GrowsOf
<1>5. Behind(r, tick[k].block)
  BY <1>1 DEF Through, Behind, Held
<1>6. \/ rows' = rows
      \/ rows' = [rows EXCEPT ![r] = [@ EXCEPT !.status = "expired",
                                                !.scanned = tick[k].block]]
      \/ rows' = [rows EXCEPT ![r].scanned = tick[k].block]
  BY DEF Close
<1>7. /\ \A q \in Requests \ {r} : rows'[q] = rows[q]
      /\ rows'[r].scanned \in {rows[r].scanned, tick[k].block}
  BY <1>1, <1>2, <1>6 DEF TypeInv, RowRecord
<1>8. \A q \in Requests : q = r => RowComplete(q)'
  BY <1>2, <1>4, <1>5, <1>7, RowCompleteMoved, RowCompleteFrame
<1> HIDE DEF r
<1>9. \A q \in Requests : RowComplete(q)'
  BY <1>2, <1>4, <1>7, <1>8, RowCompleteFrame
<1> QED
  BY <1>3, <1>4, <1>9, BetweenComplete DEF Complete

LEMMA CancelCompletes ==
  ASSUME IInv, Complete, Kept, NEW r \in Requests, Cancel(r)
  PROVE  Complete'
<1>1. UNCHANGED <<tick, torn>> /\ rows[r].status # "none"
  BY DEF Cancel
<1>2. Grows
  BY <1>1, LogsFrame DEF Grows
<1>3. /\ \A q \in Requests \ {r} : rows'[q] = rows[q]
      /\ rows'[r].scanned = rows[r].scanned
  BY DEF Cancel, IInv, TypeInv, RowRecord
<1>4. \A q \in Requests : RowComplete(q)'
  BY <1>1, <1>2, <1>3, RowCompleteFrame
<1> QED
  BY <1>1, <1>2, <1>4, TickCompleteFrame DEF Complete

LEMMA CreateCompletes ==
  ASSUME IInv, Complete, Kept, NEW r \in Requests, NEW b \in Heights, Create(r, b)
  PROVE  Complete'
<1> DEFINE new == [Absent EXCEPT !.status = "pending", !.start = b, !.scanned = b,
                                 !.deadline = height + TTL]
<1>1. /\ UNCHANGED <<tick, torn, height, mined>> /\ TypeInv
      /\ rows' = [rows EXCEPT ![r] = new]
  BY DEF Create, IInv
<1>2. Grows
  BY <1>1, LogsFrame DEF Grows
<1>3. b \in Nat /\ b <= height /\ height \in Nat /\ Lag \in Nat
  BY <1>1, ReconcilerAssumption DEF Heights, TypeInv
<1>4. new.start = b /\ new.scanned = b
  BY DEF Absent
<1> HIDE DEF new
<1>5. /\ \A q \in Requests \ {r} : rows'[q] = rows[q]
      /\ rows'[r].start = b /\ rows'[r].scanned = b
  BY <1>1, <1>4 DEF TypeInv
<1>6. RowComplete(r)'
  <2>1. \A t \in Transfers : mined'[t] > b => ~(mined'[t] + Lag <= b)
    BY <1>1, <1>3 DEF TypeInv
  <2> QED
    BY <1>1, <1>3, <1>5, <2>1 DEF RowComplete, Behind, InTime
<1>7. \A q \in Requests : RowComplete(q)'
  BY <1>2, <1>5, <1>6, RowCompleteFrame
<1> QED
  BY <1>1, <1>2, <1>7, TickCompleteFrame DEF Complete

LEMMA StepCompletes ==
  ASSUME Lag <= Offset, IInv, Complete, [Next]_vars
  PROVE  Complete'
<1>1. Kept
  BY KeptStep
<1>2. CASE UNCHANGED <<rows, tick, torn>>
  <2>1. Grows
    BY <1>1, <1>2, LogsFrame DEF Grows
  <2> QED
    BY <1>2, <2>1, TablesComplete, TickCompleteFrame DEF Complete
<1>3. ASSUME NEW r \in Requests, Cancel(r) \/ \E b \in Heights : Create(r, b)
      PROVE  Complete'
  BY <1>1, <1>3, CancelCompletes, CreateCompletes
<1>4. ASSUME NEW k \in Ticks, Start(k, Active) \/ \E r \in Active : Start(k, {r})
      PROVE  Complete'
  <2>1. PICK todo \in SUBSET Active : Start(k, todo)
    BY <1>4
  <2> QED
    BY <1>1, <2>1, StartCompletes
<1>5. ASSUME NEW k \in Ticks, Continue(k)
      PROVE  Complete'
  <2>1. CASE Row(k) \/ Clock(k) \/ Confirm(k) \/ Scan(k) \/ Check(k) \/ Claim(k)
    BY <1>1, <2>1, RowCompletes, ClockCompletes, ConfirmCompletes, ScanCompletes, CheckCompletes,
       ClaimCompletes
  <2>2. CASE Contribute(k) \/ Save(k) \/ Settle(k) \/ Close(k)
    BY <1>1, <2>2, ContributeCompletes, SaveCompletes, SettleCompletes, CloseCompletes
  <2> QED
    BY <1>5, <2>1, <2>2 DEF Continue
<1>6. ASSUME NEW k \in Ticks, Fail(k)
      PROVE  Complete'
  BY <1>1, <1>6, FailCompletes
<1>7. ASSUME NEW paid \in SUBSET Transfers, Mine(paid)
      PROVE  UNCHANGED <<rows, tick, torn>>
  BY <1>7 DEF Mine
<1> QED
  BY <1>2, <1>3, <1>4, <1>5, <1>6, <1>7 DEF Next, vars

LEMMA InitCompletes == Init => Complete
<1> SUFFICES ASSUME Init PROVE Complete
  OBVIOUS
<1>1. \A r \in Requests : RowComplete(r)
  BY DEF Init, Absent, RowComplete, Behind, Covered
<1>2. \A k \in Ticks : TickComplete(k)
  <2>1. Idle.at = "idle"
    BY DEF Idle
  <2> QED
    BY <2>1, IdleType DEF Init, TickComplete
<1> QED
  BY <1>1, <1>2 DEF Complete

\* The invariant of the cursors.
LEMMA CursorInvariant ==
  ASSUME Lag <= Offset
  PROVE  Spec => []Complete
<1>1. Init => Complete
  BY InitCompletes
<1>2. IInv /\ Complete /\ [Next]_vars => Complete'
  BY StepCompletes
<1> QED
  BY <1>1, <1>2, Invariant, PTL DEF Spec

\* The cursor of an open request passes no payment it should have seen, when no
\* answer lags by more than the safety offset, whatever fails; but for a split
\* request one of whose scans was cut short.
THEOREM CursorsAreSafe ==
  ASSUME Lag <= Offset
  PROVE  Spec => []NothingSkipped
<1>1. IInv /\ Complete => NothingSkipped
  <2> SUFFICES ASSUME IInv, Complete, AllOver, NEW r \in Requests \ torn, NEW t \in Transfers,
                      rows[r].status = "pending", InTime(t, r),
                      mined[t] + Offset < rows[r].scanned
               PROVE  Credited(t)
    BY DEF NothingSkipped, InTime
  <2>1. mined[t] + Lag <= rows[r].scanned
    BY ReconcilerAssumption DEF IInv, TypeInv, RowRecord
  <2>2. Covered(r, t)
    BY <2>1 DEF Complete, RowComplete, Behind
  <2>3. \A k \in Ticks : ~Working(tick[k])
    BY DEF AllOver, Working
  <2> QED
    BY <2>2, <2>3 DEF Covered, Holds, Held
<1> QED
  BY <1>1, Invariant, CursorInvariant, PTL

\* Only a tick whose scan is through expires a request.
LEMMA ExpiryStep ==
  ASSUME IInv, Complete, torn \subseteq Split, [Next]_vars,
         NEW r \in Requests \ Split, NEW t \in Transfers,
         rows[r].status # "expired", rows'[r].status = "expired",
         rows[r].tx = None, InTime(t, r), mined[t] + Lag <= rows'[r].scanned
  PROVE  Credited(t)
<1> USE DEF IInv, TypeInv
<1>1. rows[r] \in RowRecord
  OBVIOUS
<1>2. PICK k \in Ticks : Close(k) /\ tick[k].row = r
  <2>1. ASSUME NEW q \in Requests, Cancel(q) \/ \E b \in Heights : Create(q, b)
        PROVE  rows'[r].status # "expired"
    BY <1>1, <2>1 DEF Cancel, Create, Absent, RowRecord
  <2>2. ASSUME NEW k \in Ticks, Confirm(k) PROVE rows'[r].status # "expired"
    <3> DEFINE q == tick[k].row
               n == Confirmations(tick[k].block, tick[k].snap[q].tx)
               next == IF n >= Required THEN "paid" ELSE "confirming"
    <3>1. rows' = rows \/ rows' = [rows EXCEPT ![q].status = next, ![q].confirmations = n]
      BY <2>2 DEF Confirm
    <3>2. next # "expired"
      OBVIOUS
    <3> HIDE DEF n, next, q
    <3> QED
      BY <1>1, <3>1, <3>2 DEF RowRecord
  <2>3. ASSUME NEW k \in Ticks, Claim(k) PROVE rows'[r].status # "expired"
    <3> DEFINE q == tick[k].row
               t1 == Head(tick[k].logs)
               n == Confirmations(tick[k].block, t1)
               next == IF n >= Required THEN "paid" ELSE "confirming"
    <3>1. rows' = rows \/ rows' = [rows EXCEPT ![q] = [@ EXCEPT !.status = next, !.tx = t1,
                            !.confirmations = n, !.scanned = tick[k].block]]
      BY <2>3 DEF Claim
    <3>2. next # "expired"
      OBVIOUS
    <3> HIDE DEF n, next, q, t1
    <3> QED
      BY <1>1, <3>1, <3>2 DEF RowRecord
  <2>4. ASSUME NEW k \in Ticks, Contribute(k) PROVE rows'[r] = rows[r]
    BY <2>4 DEF Contribute
  <2>5. ASSUME NEW k \in Ticks, Close(k), tick[k].row # r PROVE rows'[r] = rows[r]
    BY <2>5 DEF Close
  <2>6. ASSUME NEW k \in Ticks,
               Row(k) \/ Clock(k) \/ Scan(k) \/ Check(k) \/ Save(k) \/ Settle(k) \/ Fail(k)
               \/ \E todo \in SUBSET Active : Start(k, todo)
        PROVE  rows' = rows
    BY <2>6 DEF Row, Clock, Scan, Check, Save, Settle, Fail, Start
  <2>7. ASSUME NEW paid \in SUBSET Transfers, Mine(paid) PROVE rows' = rows
    BY <2>7 DEF Mine
  <2> QED
    BY <2>1, <2>2, <2>3, <2>4, <2>5, <2>6, <2>7 DEF Next, Continue, vars
<1>3. /\ tick[k].at = "close" /\ Working(tick[k]) /\ tick[k].logs = <<>> /\ Through(k)
      /\ tick[k].row \in Plain /\ tick[k].row \notin torn
  BY <1>2 DEF Close, Working, Complete, TickComplete, Plain
<1>4. r \in Active /\ rows'[r].scanned = tick[k].block
  <2>1. \/ /\ r \in Active
           /\ rows' = [rows EXCEPT ![r] = [@ EXCEPT !.status = "expired",
                                                     !.scanned = tick[k].block]]
        \/ rows' = [rows EXCEPT ![r].scanned = tick[k].block]
        \/ UNCHANGED rows
    BY <1>2 DEF Close
  <2> QED
    BY <1>1, <2>1 DEF RowRecord
<1>5. rows[r].status = "pending"
  BY <1>4 DEF Active, RowSound, Plain
<1>6. Covered(r, t) \/ Held(k, t)
  BY <1>2, <1>3, <1>4 DEF Through
<1> QED
  BY <1>3, <1>5, <1>6 DEF Covered, Held, Holds, Plain

\* A plain request expires only when every transfer that paid it in time is
\* credited, up to the height its tick read less the lag of the node that
\* answered the scan, when none lags by more than the safety offset: whatever
\* the clock read after the height, and however the ticks overlap and fail.
THEOREM NoPaymentExpires ==
  ASSUME Lag <= Offset
  PROVE  Spec => ExpiredIsUnpaid
<1>1. Init => torn \subseteq Split
  BY DEF Init
<1>2. IInv /\ Complete /\ torn \subseteq Split /\ [Next]_vars =>
        [\A r \in Requests \ Split, t \in Transfers :
           /\ rows[r].status # "expired" /\ rows'[r].status = "expired"
           /\ rows[r].tx = None
           /\ InTime(t, r)
           /\ mined[t] + Lag <= rows'[r].scanned
           => Credited(t)]_vars
  BY ExpiryStep
<1> QED
  BY <1>1, <1>2, TornStep, Invariant, CursorInvariant, PTL DEF Spec, ExpiredIsUnpaid
=============================================================================
