---------------------- MODULE IncomingTransfersProofs ----------------------
(***************************************************************************)
(* NothingMissed and CollectionsStay for any number of transfers and       *)
(* scans, all of which may fail.  The argument follows a block through a   *)
(* scan: what lies behind the block a scan starts from is stored, because  *)
(* that is where some cursor stood; the addresses it loads include every   *)
(* wallet that a block up to its safe one may pay; and a provider that     *)
(* lags by one block has the safe one.                                     *)
(***************************************************************************)
EXTENDS IncomingTransfers, TLAPS

\* Every transfer of F up to block b has its row, in the table r where m gives
\* the blocks.
Behind(b, r, F, m) == \A t \in F : m[t] <= b => r[t] # Absent

\* The chain's side: what is followed has been mined, to a registered wallet,
\* and not before there was a cursor.
Chain ==
    /\ \A t \in Transfers : mined[t] <= height
    /\ \A t \in followed : mined[t] > 0
    /\ followed \subseteq registered
    /\ cursor = NoCursor => followed = {}
    /\ cursor < height

\* What is true of a scan s where it stands, at height n of the chain: it has
\* loaded the wallets that its blocks may pay, what lies behind it is stored,
\* and what is not of its chunk is at hand.
Sound(s, n, r, F, m) ==
    /\ s.at # "idle" => s.safe < n
    /\ s.at \in {"cursor", "logs", "insert"} =>
         \A t \in F : m[t] <= s.safe => t \in s.known
    /\ s.at \in {"logs", "insert"} => s.from <= s.safe /\ Behind(s.from - 1, r, F, m)
    /\ s.at = "insert" =>
         \A t \in F : m[t] \in s.from .. ToBlock(s) => r[t] # Absent \/ t \in s.logs
    /\ s.at = "save" => Behind(s.safe, r, F, m)

ScansSound == \A k \in Scans : Sound(scan[k], height, rows, followed, mined)

IInv ==
    /\ TypeOK
    /\ Chain
    /\ NothingMissed
    /\ ScansSound

ScanRecord ==
    [at : {"idle", "wallets", "cursor", "logs", "insert", "save"}, safe : Nat,
     known : SUBSET Transfers, from : Nat, logs : SUBSET Transfers]

\* A chunk ends within the blocks of its scan, at or after its first one.
LEMMA ChunkInside ==
  ASSUME NEW s \in ScanRecord, s.from <= s.safe
  PROVE  /\ ToBlock(s) \in Nat
         /\ s.from <= ToBlock(s) /\ ToBlock(s) <= s.safe
BY IncomingAssumption DEF ScanRecord, ToBlock

\* A scan that goes on, with logs L of its chunk left, is sound when what is not
\* stored of the chunk is in L.
LEMMA GoesOn ==
  ASSUME NEW s \in ScanRecord, NEW L \in SUBSET Transfers, NEW n \in Nat,
         NEW r, NEW F \in SUBSET Transfers, NEW m \in [Transfers -> Nat],
         s.safe < n, s.from <= s.safe,
         \A t \in F : m[t] <= s.safe => t \in s.known,
         Behind(s.from - 1, r, F, m),
         \A t \in F : m[t] \in s.from .. ToBlock(s) => r[t] # Absent \/ t \in L
  PROVE  /\ Continue(s, L) \in ScanRecord
         /\ Sound(Continue(s, L), n, r, F, m)
<1>1. /\ ToBlock(s) \in Nat
      /\ s.from <= ToBlock(s) /\ ToBlock(s) <= s.safe
  BY ChunkInside
<1> DEFINE c == Continue(s, L)
<1>2. CASE L # {}
  <2>1. c = [s EXCEPT !.at = "insert", !.logs = L]
    BY <1>2 DEF Continue
  <2>2. /\ c \in ScanRecord /\ c.at = "insert" /\ c.logs = L
        /\ c.safe = s.safe /\ c.from = s.from /\ c.known = s.known
    BY <2>1 DEF ScanRecord
  <2>3. ToBlock(c) = ToBlock(s)
    BY <2>2 DEF ToBlock
  <2> HIDE DEF c
  <2>4. Sound(c, n, r, F, m)
    BY <2>2, <2>3 DEF Sound
  <2>5. QED
    BY <2>2, <2>4 DEF c
<1>3. CASE L = {} /\ ToBlock(s) < s.safe
  <2>1. c = [s EXCEPT !.at = "logs", !.from = ToBlock(s) + 1, !.logs = {}]
    BY <1>3 DEF Continue
  <2> HIDE DEF c
  <2> DEFINE b == ToBlock(s) + 1
  <2>a. b \in Nat /\ {} \in SUBSET Transfers
    BY <1>1
  <2>b. c = [s EXCEPT !.at = "logs", !.from = b, !.logs = {}]
    BY <2>1
  <2> HIDE DEF b
  <2>2. /\ c \in ScanRecord /\ c.at = "logs"
        /\ c.safe = s.safe /\ c.from = b /\ c.known = s.known
    BY <2>a, <2>b DEF ScanRecord
  <2>3. Behind(ToBlock(s), r, F, m)
    BY <1>1, <1>3 DEF ScanRecord, Behind
  <2>4. c.from - 1 = ToBlock(s) /\ c.from <= c.safe
    BY <1>1, <1>3, <2>2 DEF ScanRecord, b
  <2>5. Sound(c, n, r, F, m)
    BY <2>2, <2>3, <2>4 DEF Sound
  <2>6. QED
    BY <2>2, <2>5 DEF c
<1>4. CASE L = {} /\ ~(ToBlock(s) < s.safe)
  <2>1. c = [Idle EXCEPT !.at = "save", !.safe = s.safe]
    BY <1>4 DEF Continue
  <2> HIDE DEF c
  <2>a. /\ c = [at |-> "save", safe |-> s.safe, known |-> {}, from |-> 0, logs |-> {}]
        /\ {} \in SUBSET Transfers
    BY <2>1 DEF Idle
  <2>2. c \in ScanRecord /\ c.at = "save" /\ c.safe = s.safe
    BY <2>a DEF ScanRecord
  <2>3. ToBlock(s) = s.safe
    BY <1>1, <1>4 DEF ScanRecord
  <2>4. Behind(s.safe, r, F, m)
    BY <1>1, <1>4, <2>3 DEF ScanRecord, Behind
  <2>5. Sound(c, n, r, F, m)
    BY <2>2, <2>4 DEF Sound
  <2>6. QED
    BY <2>2, <2>5 DEF c
<1>5. QED
  BY <1>2, <1>3, <1>4

\* A sound scan stays so when rows are only added.
LEMMA StaysSound ==
  ASSUME NEW s, NEW n, NEW r, NEW q, NEW F, NEW m, Sound(s, n, r, F, m),
         \A t \in F : r[t] # Absent => q[t] # Absent
  PROVE  Sound(s, n, q, F, m)
BY DEF Sound, Behind

\* One scan moves, rows are only added: only the scan that moves is in question.
LEMMA OneMoves ==
  ASSUME IInv, NEW k \in Scans, NEW s,
         scan' = [scan EXCEPT ![k] = s],
         Sound(s, height, rows', followed, mined),
         UNCHANGED <<height, followed, mined, outage>>,
         \A t \in followed : rows[t] # Absent => rows'[t] # Absent
  PROVE  ScansSound'
<1> SUFFICES ASSUME NEW j \in Scans
             PROVE  Sound(scan'[j], height, rows', followed, mined)
  BY DEF ScansSound
<1>1. CASE j = k
  BY <1>1 DEF IInv, TypeOK
<1>2. CASE j # k
  <2>1. scan'[j] = scan[j]
    BY <1>2 DEF IInv, TypeOK
  <2>2. Sound(scan[j], height, rows, followed, mined)
    BY DEF IInv, ScansSound
  <2>3. QED
    BY <2>1, <2>2, StaysSound
<1>3. QED
  BY <1>1, <1>2

\* No scan moves, rows are only added.
LEMMA NoneMoves ==
  ASSUME IInv, UNCHANGED <<scan, height, followed, mined, outage>>,
         \A t \in followed : rows[t] # Absent => rows'[t] # Absent
  PROVE  ScansSound'
<1> SUFFICES ASSUME NEW j \in Scans
             PROVE  Sound(scan[j], height, rows', followed, mined)
  BY DEF ScansSound
<1>1. Sound(scan[j], height, rows, followed, mined)
  BY DEF IInv, ScansSound
<1>2. QED
  BY <1>1, StaysSound

LEMMA ScanTyped == ASSUME TypeOK, NEW k \in Scans PROVE scan[k] \in ScanRecord
BY DEF TypeOK, ScanRecord

\* The step of one scan that leaves the cursor alone and only adds rows.
LEMMA ScanSteps ==
  ASSUME IInv, NEW k \in Scans, NEW s \in ScanRecord,
         scan' = [scan EXCEPT ![k] = s],
         Sound(s, height, rows', followed, mined),
         rows' \in [Transfers -> Row],
         UNCHANGED <<cursor, registered, height, mined, outage, followed>>,
         \A t \in followed : rows[t] # Absent => rows'[t] # Absent
  PROVE  IInv'
<1>1. TypeOK'
  BY DEF IInv, TypeOK, ScanRecord
<1>2. Chain'
  BY DEF IInv, Chain
<1>3. NothingMissed'
  BY DEF IInv, NothingMissed
<1>4. ScansSound'
  BY OneMoves
<1>5. QED
  BY <1>1, <1>2, <1>3, <1>4 DEF IInv

LEMMA InitInv == Init => IInv
<1> SUFFICES ASSUME Init PROVE IInv
  OBVIOUS
<1>1. TypeOK
  <2>1. outage \in BOOLEAN
    BY DEF Init
  <2>2. scan \in [Scans -> [at : {"idle", "wallets", "cursor", "logs", "insert", "save"},
                             safe : Nat, known : SUBSET Transfers, from : Nat,
                             logs : SUBSET Transfers]]
    BY DEF Init, Idle
  <2>3. rows \in [Transfers -> Row] /\ cursor = NoCursor /\ registered = {}
        /\ height = 1 /\ mined \in [Transfers -> Nat] /\ followed = {}
    BY DEF Init, Row
  <2> QED
    BY <2>1, <2>2, <2>3 DEF TypeOK
<1>2. Chain
  BY DEF Init, Chain, NoCursor
<1>3. NothingMissed
  BY DEF Init, NothingMissed
<1>4. ScansSound
  BY DEF Init, ScansSound, Sound, Idle
<1>5. QED
  BY <1>1, <1>2, <1>3, <1>4 DEF IInv

\* An idle scan asks nothing.
LEMMA IdleSound ==
  ASSUME NEW n, NEW r, NEW F, NEW m
  PROVE  Idle \in ScanRecord /\ Sound(Idle, n, r, F, m)
BY DEF Idle, ScanRecord, Sound

LEMMA BeginInv == ASSUME IInv, NEW k \in Scans, Begin(k) PROVE IInv'
<1>1. PICK n \in Heights :
        scan' = [scan EXCEPT ![k].at = "wallets", ![k].safe = SafeBlock(n)]
  BY DEF Begin
<1> DEFINE s == [scan[k] EXCEPT !.at = "wallets", !.safe = n - 1]
<1>2. scan[k] \in ScanRecord /\ height \in Nat /\ n \in 1 .. height
  BY ScanTyped DEF IInv, TypeOK, Heights
<1>3. n - 1 \in Nat /\ n - 1 < height
  BY <1>2
<1>4. scan' = [scan EXCEPT ![k] = s]
  BY <1>1 DEF SafeBlock, IInv, TypeOK
<1>5. s \in ScanRecord /\ s.at = "wallets" /\ s.safe = n - 1
  BY <1>2, <1>3 DEF ScanRecord
<1> HIDE DEF s
<1>6. Sound(s, height, rows', followed, mined)
  BY <1>3, <1>5 DEF Sound
<1>7. rows' = rows /\ rows \in [Transfers -> Row]
  BY DEF Begin, IInv, TypeOK
<1>8. QED
  BY <1>4, <1>5, <1>6, <1>7, ScanSteps DEF Begin

\* The addresses are read after the height: they hold every wallet that was
\* followed by then.
LEMMA LoadWalletsInv == ASSUME IInv, NEW k \in Scans, LoadWallets(k) PROVE IInv'
<1> DEFINE s == [scan[k] EXCEPT !.at = "cursor", !.known = registered]
<1>1. scan[k] \in ScanRecord /\ registered \in SUBSET Transfers
  BY ScanTyped DEF IInv, TypeOK
<1>2. /\ s \in ScanRecord /\ s.at = "cursor" /\ s.known = registered
      /\ s.safe = scan[k].safe
  BY <1>1 DEF ScanRecord
<1>3. scan[k].safe < height
  BY DEF IInv, ScansSound, Sound, LoadWallets
<1>4. scan' = [scan EXCEPT ![k] = Idle] \/ scan' = [scan EXCEPT ![k] = s]
  BY DEF LoadWallets
<1> HIDE DEF s
<1>5. rows' = rows /\ rows \in [Transfers -> Row]
  BY DEF LoadWallets, IInv, TypeOK
<1>6. Sound(s, height, rows', followed, mined)
  BY <1>2, <1>3 DEF Sound, IInv, Chain
<1>7. QED
  BY <1>2, <1>4, <1>5, <1>6, IdleSound, ScanSteps DEF LoadWallets

\* A scan starts behind where the cursor stands, or before anything is followed.
LEMMA ReadCursorInv == ASSUME IInv, NEW k \in Scans, ReadCursor(k) PROVE IInv'
<1> DEFINE f == FromBlock(scan[k].safe)
<1> DEFINE s == [scan[k] EXCEPT !.at = "logs", !.from = f]
<1>1. scan[k] \in ScanRecord /\ scan[k].safe \in Nat
  BY ScanTyped DEF IInv, TypeOK, ScanRecord
<1>2. f \in Nat
  BY <1>1, IncomingAssumption DEF FromBlock, IInv, TypeOK, NoCursor
<1>3. Behind(f - 1, rows, followed, mined)
  <2>1. CASE cursor = NoCursor
    BY <2>1 DEF IInv, Chain, Behind
  <2>2. CASE cursor # NoCursor
    <3>1. f = cursor + 1 /\ cursor \in Nat
      BY <2>2 DEF FromBlock, IInv, TypeOK
    <3>2. QED
      BY <3>1 DEF IInv, NothingMissed, Behind
  <2>3. QED
    BY <2>1, <2>2
<1>4. \/ scan' = [scan EXCEPT ![k] = Idle]
      \/ f <= scan[k].safe /\ scan' = [scan EXCEPT ![k] = s]
  <2>1. CASE f > scan[k].safe
    BY <2>1 DEF ReadCursor
  <2>2. CASE ~(f > scan[k].safe)
    <3>1. scan' = [scan EXCEPT ![k] = s]
      BY <2>2 DEF ReadCursor
    <3>2. f <= scan[k].safe
      <4> HIDE DEF f
      <4>1. QED
        BY <1>1, <1>2, <2>2
    <3>3. QED
      BY <3>1, <3>2
  <2>3. QED
    BY <2>1, <2>2
<1> HIDE DEF f
<1>5. /\ s \in ScanRecord /\ s.at = "logs" /\ s.from = f
      /\ s.safe = scan[k].safe /\ s.known = scan[k].known
  BY <1>1, <1>2 DEF ScanRecord
<1> HIDE DEF s
<1>6. rows' = rows /\ rows \in [Transfers -> Row]
  BY DEF ReadCursor, IInv, TypeOK
<1>7. /\ scan[k].safe < height
      /\ \A t \in followed : mined[t] <= scan[k].safe => t \in scan[k].known
  BY DEF IInv, ScansSound, Sound, ReadCursor
<1>8. f <= scan[k].safe => Sound(s, height, rows', followed, mined)
  BY <1>3, <1>5, <1>6, <1>7 DEF Sound
<1>9. QED
  BY <1>4, <1>5, <1>6, <1>8, IdleSound, ScanSteps DEF ReadCursor

\* A provider has the safe block: it lags by one at most.
LEMMA FetchLogsInv == ASSUME IInv, NEW k \in Scans, FetchLogs(k) PROVE IInv'
<1> DEFINE s == scan[k]
<1>1. PICK n \in Heights :
        scan' = [scan EXCEPT ![k] = Continue(s,
          { t \in s.known : mined[t] \in s.from .. ToBlock(s) /\ mined[t] \in 1 .. n })]
  BY DEF FetchLogs
<1> DEFINE L == { t \in s.known : /\ mined[t] \in s.from .. ToBlock(s)
                                  /\ mined[t] \in 1 .. n }
<1>2. /\ s \in ScanRecord /\ s.from \in Nat /\ s.safe \in Nat
      /\ s.known \in SUBSET Transfers
  BY ScanTyped DEF IInv, TypeOK, ScanRecord
<1>3. /\ s.safe < height /\ s.from <= s.safe
      /\ \A t \in followed : mined[t] <= s.safe => t \in s.known
      /\ Behind(s.from - 1, rows, followed, mined)
  BY DEF IInv, ScansSound, Sound, FetchLogs
<1>4. ToBlock(s) \in Nat /\ ToBlock(s) <= s.safe
  BY <1>2, <1>3, ChunkInside
<1>5. /\ height \in Nat /\ n \in Nat /\ s.safe <= n
  BY <1>2, <1>3, IncomingAssumption DEF Heights, IInv, TypeOK
<1>6. \A t \in followed : mined[t] \in s.from .. ToBlock(s) => t \in L
  <2> SUFFICES ASSUME NEW t \in followed, mined[t] \in s.from .. ToBlock(s)
               PROVE  t \in L
    OBVIOUS
  <2>1. mined[t] \in Nat /\ mined[t] > 0
    BY DEF IInv, TypeOK, Chain
  <2>2. mined[t] <= s.safe /\ mined[t] \in 1 .. n
    BY <1>2, <1>4, <1>5, <2>1
  <2>3. QED
    BY <1>3, <2>2
<1>7. L \in SUBSET Transfers
  BY <1>2
<1>8. /\ rows' = rows /\ rows \in [Transfers -> Row]
      /\ mined \in [Transfers -> Nat] /\ followed \in SUBSET Transfers
  BY DEF FetchLogs, IInv, TypeOK
<1>9. scan' = [scan EXCEPT ![k] = Continue(s, L)]
  BY <1>1
<1> HIDE DEF s, L
<1>10. /\ Continue(s, L) \in ScanRecord
       /\ Sound(Continue(s, L), height, rows, followed, mined)
  BY <1>2, <1>3, <1>5, <1>6, <1>7, <1>8, GoesOn
<1>11. QED
  BY <1>8, <1>9, <1>10, ScanSteps DEF FetchLogs

\* What leaves the logs at hand has its row.
LEMMA InsertInv ==
  ASSUME IInv, NEW k \in Scans, NEW t \in Transfers, Insert(k, t)
  PROVE  IInv'
<1> DEFINE s == scan[k]
<1> DEFINE L == s.logs \ {t}
<1>1. /\ s \in ScanRecord /\ s.logs \in SUBSET Transfers
      /\ s.from \in Nat /\ s.safe \in Nat
  BY ScanTyped DEF IInv, TypeOK, ScanRecord
<1>2. /\ rows \in [Transfers -> Row] /\ mined \in [Transfers -> Nat]
      /\ followed \in SUBSET Transfers /\ height \in Nat
  BY DEF IInv, TypeOK
<1>3. /\ rows' \in [Transfers -> Row]
      /\ rows'[t] # Absent
      /\ \A u \in Transfers : rows[u] # Absent => rows'[u] # Absent
  BY <1>2 DEF Insert, Row, Absent
<1>4. /\ s.safe < height /\ s.from <= s.safe
      /\ \A u \in followed : mined[u] <= s.safe => u \in s.known
      /\ Behind(s.from - 1, rows, followed, mined)
      /\ \A u \in followed : mined[u] \in s.from .. ToBlock(s) =>
                               rows[u] # Absent \/ u \in s.logs
  BY DEF IInv, ScansSound, Sound, Insert
<1>5. /\ Behind(s.from - 1, rows', followed, mined)
      /\ \A u \in followed : mined[u] \in s.from .. ToBlock(s) =>
                               rows'[u] # Absent \/ u \in L
  BY <1>2, <1>3, <1>4 DEF Behind
<1>6. L \in SUBSET Transfers
  BY <1>1
<1>7. scan' = [scan EXCEPT ![k] = Continue(s, L)]
  BY DEF Insert
<1> HIDE DEF s, L
<1>8. /\ Continue(s, L) \in ScanRecord
      /\ Sound(Continue(s, L), height, rows', followed, mined)
  BY <1>1, <1>2, <1>4, <1>5, <1>6, GoesOn
<1>9. QED
  BY <1>2, <1>3, <1>7, <1>8, ScanSteps DEF Insert

\* The cursor goes to the safe block of a scan that is through, forward or back.
LEMMA SaveCursorInv == ASSUME IInv, NEW k \in Scans, SaveCursor(k) PROVE IInv'
<1>1. scan[k] \in ScanRecord /\ scan[k].safe \in Nat
  BY ScanTyped DEF IInv, TypeOK, ScanRecord
<1>2. scan[k].safe < height /\ Behind(scan[k].safe, rows, followed, mined)
  BY DEF IInv, ScansSound, Sound, SaveCursor
<1>3. TypeOK'
  BY <1>1 DEF SaveCursor, IInv, TypeOK, Idle
<1>4. Chain'
  BY <1>1, <1>2 DEF SaveCursor, IInv, Chain, NoCursor
<1>5. NothingMissed'
  BY <1>2 DEF SaveCursor, NothingMissed, Behind
<1>6. ScansSound'
  BY IdleSound, OneMoves DEF SaveCursor
<1>7. QED
  BY <1>3, <1>4, <1>5, <1>6 DEF IInv

LEMMA FailInv == ASSUME IInv, NEW k \in Scans, Fail(k) PROVE IInv'
<1>1. rows' = rows /\ rows \in [Transfers -> Row]
  BY DEF Fail, IInv, TypeOK
<1>2. QED
  BY <1>1, IdleSound, ScanSteps DEF Fail

\* A row is written by somebody else, who leaves no row absent that was there.
LEMMA OthersWrite ==
  ASSUME IInv, rows' \in [Transfers -> Row],
         UNCHANGED <<cursor, scan, registered, height, mined, outage, followed>>,
         \A t \in Transfers : rows[t] # Absent => rows'[t] # Absent
  PROVE  IInv'
<1>1. TypeOK'
  BY DEF IInv, TypeOK
<1>2. Chain'
  BY DEF IInv, Chain
<1>3. followed \in SUBSET Transfers
  BY DEF IInv, TypeOK
<1>4. NothingMissed'
  BY <1>3 DEF IInv, NothingMissed
<1>5. ScansSound'
  BY <1>3, NoneMoves
<1>6. QED
  BY <1>1, <1>2, <1>4, <1>5 DEF IInv

LEMMA CollectInv == ASSUME IInv, NEW t \in Transfers, Collect(t) PROVE IInv'
<1>1. PICK r : rows' = [rows EXCEPT ![t] =
                 IF rows[t] # Absent THEN [rows[t] EXCEPT !.type = "collected"]
                 ELSE [type |-> "collected", status |-> r]]
               /\ r \in {"pending", "confirmed"}
  BY DEF Collect
<1>2. rows \in [Transfers -> Row]
  BY DEF IInv, TypeOK
<1>3. /\ rows' \in [Transfers -> Row]
      /\ \A u \in Transfers : rows[u] # Absent => rows'[u] # Absent
  BY <1>1, <1>2 DEF Row, Absent
<1>4. QED
  BY <1>3, OthersWrite DEF Collect

LEMMA SyncInv == ASSUME IInv, NEW t \in Transfers, Sync(t) PROVE IInv'
<1>1. rows \in [Transfers -> Row]
  BY DEF IInv, TypeOK
<1>2. /\ rows' \in [Transfers -> Row]
      /\ \A u \in Transfers : rows[u] # Absent => rows'[u] # Absent
  BY <1>1 DEF Sync, Row, Absent
<1>3. QED
  BY <1>2, OthersWrite DEF Sync

LEMMA RegisterInv == ASSUME IInv, NEW t \in Transfers, Register(t) PROVE IInv'
<1>1. TypeOK'
  BY DEF Register, IInv, TypeOK
<1>2. Chain'
  BY DEF Register, IInv, Chain
<1>3. NothingMissed'
  BY DEF Register, IInv, NothingMissed
<1>4. ScansSound'
  BY NoneMoves DEF Register
<1>5. QED
  BY <1>1, <1>2, <1>3, <1>4 DEF IInv

\* What a new block brings lies above the cursor and the blocks of every scan.
LEMMA MineInv == ASSUME IInv, NEW new \in SUBSET Transfers, Mine(new) PROVE IInv'
<1>1. /\ height \in Nat /\ mined \in [Transfers -> Nat] /\ followed \in SUBSET Transfers
      /\ height' = height + 1
  BY DEF IInv, TypeOK, Mine
<1>2. /\ \A t \in Transfers : mined'[t] = IF t \in new THEN height + 1 ELSE mined[t]
      /\ \A t \in new : mined[t] = 0
  BY <1>1 DEF Mine
<1>3. /\ followed' \in SUBSET Transfers
      /\ \A t \in followed' : t \in followed \/ (t \in new /\ t \in registered)
  BY <1>1 DEF Mine
<1>4. \A t \in followed : t \notin new
  BY <1>1, <1>2 DEF IInv, Chain
<1>5. \A t \in followed' : \/ t \in followed /\ mined'[t] = mined[t]
                           \/ mined'[t] = height + 1
  BY <1>1, <1>2, <1>3, <1>4
<1>6. TypeOK'
  BY <1>1, <1>3 DEF Mine, IInv, TypeOK
<1>7. Chain'
  <2>1. \A t \in Transfers : mined'[t] <= height'
    BY <1>1, <1>2 DEF IInv, Chain
  <2>2. followed' \subseteq registered' /\ (cursor' = NoCursor => followed' = {})
    BY <1>3 DEF Mine, IInv, Chain
  <2>3. \A t \in followed' : mined'[t] > 0
    BY <1>1, <1>5 DEF IInv, Chain
  <2>4. cursor' < height'
    BY <1>1 DEF Mine, IInv, Chain, TypeOK, NoCursor
  <2>5. QED
    BY <2>1, <2>2, <2>3, <2>4 DEF Chain
<1>8. NothingMissed'
  <2> SUFFICES ASSUME NEW t \in followed', mined'[t] <= cursor'
               PROVE  rows'[t] # Absent
    BY DEF NothingMissed
  <2>1. cursor' = cursor /\ rows' = rows /\ cursor < height /\ cursor \in Nat \cup {-1}
    BY DEF Mine, IInv, Chain, TypeOK, NoCursor
  <2>2. t \in followed /\ mined[t] <= cursor
    BY <1>1, <1>5, <2>1
  <2>3. QED
    BY <2>1, <2>2 DEF IInv, NothingMissed
<1>9. ScansSound'
  <2> SUFFICES ASSUME NEW k \in Scans
               PROVE  Sound(scan[k], height', rows, followed', mined')
    BY DEF ScansSound, Mine
  <2> DEFINE s == scan[k]
  <2>1. /\ s \in ScanRecord /\ s.safe \in Nat /\ s.from \in Nat
        /\ Sound(s, height, rows, followed, mined)
    BY ScanTyped DEF IInv, TypeOK, ScanRecord, ScansSound
  <2> HIDE DEF s
  <2>2. s.at = "idle" => Sound(s, height', rows, followed', mined')
    BY DEF Sound
  <2>3. ASSUME s.at # "idle"
        PROVE  Sound(s, height', rows, followed', mined')
    <3>1. s.safe < height
      BY <2>1, <2>3 DEF Sound
    <3>2. \A t \in followed' : mined'[t] <= s.safe =>
                                 t \in followed /\ mined'[t] = mined[t]
      BY <1>1, <1>5, <2>1, <3>1
    <3>3. s.safe < height'
      BY <1>1, <2>1, <3>1
    <3>4. s.at \in {"cursor", "logs", "insert"} =>
            \A t \in followed' : mined'[t] <= s.safe => t \in s.known
      BY <2>1, <3>2 DEF Sound
    <3>5. s.at \in {"logs", "insert"} =>
            s.from <= s.safe /\ Behind(s.from - 1, rows, followed', mined')
      <4> SUFFICES ASSUME s.at \in {"logs", "insert"}
                   PROVE  /\ s.from <= s.safe
                          /\ \A t \in followed' : mined'[t] <= s.from - 1 => rows[t] # Absent
        BY DEF Behind
      <4>1. s.from <= s.safe /\ \A t \in followed : mined[t] <= s.from - 1 => rows[t] # Absent
        BY <2>1 DEF Sound, Behind
      <4>2. \A t \in followed' : mined'[t] <= s.from - 1 => mined'[t] <= s.safe
        BY <1>1, <1>5, <2>1, <4>1
      <4>3. QED
        BY <3>2, <4>1, <4>2
    <3>6. s.at = "insert" =>
            \A t \in followed' : mined'[t] \in s.from .. ToBlock(s) =>
                                   rows[t] # Absent \/ t \in s.logs
      <4> SUFFICES ASSUME s.at = "insert", NEW t \in followed',
                          mined'[t] \in s.from .. ToBlock(s)
                   PROVE  rows[t] # Absent \/ t \in s.logs
        OBVIOUS
      <4>1. ToBlock(s) \in Nat /\ ToBlock(s) <= s.safe
        BY <2>1, ChunkInside DEF Sound
      <4>2. mined'[t] <= s.safe
        BY <2>1, <4>1
      <4>3. t \in followed /\ mined[t] \in s.from .. ToBlock(s)
        BY <3>2, <4>2
      <4>4. QED
        BY <2>1, <4>3 DEF Sound
    <3>7. s.at = "save" => Behind(s.safe, rows, followed', mined')
      BY <2>1, <3>2 DEF Sound, Behind
    <3>8. QED
      BY <3>3, <3>4, <3>5, <3>6, <3>7 DEF Sound
  <2>4. QED
    BY <2>2, <2>3 DEF s
<1>10. QED
  BY <1>6, <1>7, <1>8, <1>9 DEF IInv

LEMMA TurnInv == ASSUME IInv, Turn PROVE IInv'
BY DEF Turn, IInv, TypeOK, Chain, NothingMissed, ScansSound, Sound, Behind, ToBlock

LEMMA StutterInv == ASSUME IInv, UNCHANGED vars PROVE IInv'
BY DEF IInv, TypeOK, Chain, NothingMissed, ScansSound, Sound, Behind, ToBlock, vars

\* The inductive invariant: what lies behind the start of a scan is stored, a
\* scan knows the wallets of its blocks, and what of its chunk is not stored is
\* at hand.
THEOREM Invariant == Spec => []IInv
<1>1. IInv /\ [Next]_vars => IInv'
  <2> SUFFICES ASSUME IInv, [Next]_vars PROVE IInv'
    OBVIOUS
  <2>1. ASSUME NEW k \in Scans, Step(k) PROVE IInv'
    BY <2>1, BeginInv, LoadWalletsInv, ReadCursorInv, FetchLogsInv, InsertInv,
       SaveCursorInv DEF Step
  <2>2. ASSUME NEW k \in Scans, Fail(k) PROVE IInv'
    BY <2>2, FailInv
  <2>3. ASSUME NEW t \in Transfers, Collect(t) \/ Sync(t) \/ Register(t) PROVE IInv'
    BY <2>3, CollectInv, SyncInv, RegisterInv
  <2>4. ASSUME NEW new \in SUBSET Transfers, Mine(new) PROVE IInv'
    BY <2>4, MineInv
  <2>5. QED
    BY <2>1, <2>2, <2>3, <2>4, TurnInv, StutterInv DEF Next
<1>2. QED
  BY InitInv, <1>1, PTL DEF Spec

\* Type correctness of the table, the cursor and the scans.
THEOREM TypeCorrect == Spec => []TypeOK
<1>1. IInv => TypeOK
  BY DEF IInv
<1>2. QED
  BY Invariant, <1>1, PTL

\* The cursor passes no transfer to a registered wallet: see NothingMissed.
THEOREM NoneMissed == Spec => []NothingMissed
<1>1. IInv => NothingMissed
  BY DEF IInv
<1>2. QED
  BY Invariant, <1>1, PTL

\* A row that is a collection stays one, and a confirmed one stays confirmed.
THEOREM CollectionsAreKept == Spec => CollectionsStay
<1> DEFINE Kept(t) ==
      /\ rows[t].type = "collected" => rows'[t].type = "collected"
      /\ rows[t].status = "confirmed" => rows'[t].status = "confirmed"
<1>1. IInv /\ [Next]_vars => [\A t \in Transfers : Kept(t)]_vars
  <2> SUFFICES ASSUME IInv, Next, NEW t \in Transfers PROVE Kept(t)
    OBVIOUS
  <2>1. rows \in [Transfers -> Row]
    BY DEF IInv, TypeOK
  <2>2. CASE rows' = rows
    BY <2>2
  <2>3. ASSUME NEW k \in Scans, NEW u \in Transfers, Insert(k, u) PROVE Kept(t)
    BY <2>1, <2>3 DEF Insert, Absent
  <2>4. ASSUME NEW u \in Transfers, Collect(u) PROVE Kept(t)
    BY <2>1, <2>4 DEF Collect, Row, Absent
  <2>5. ASSUME NEW u \in Transfers, Sync(u) PROVE Kept(t)
    BY <2>1, <2>5 DEF Sync, Row, Absent
  <2>6. QED
    BY <2>2, <2>3, <2>4, <2>5
    DEF Next, Step, Begin, LoadWallets, ReadCursor, FetchLogs, SaveCursor, Fail,
        Register, Mine, Turn
<1>2. QED
  BY Invariant, <1>1, PTL DEF Spec, CollectionsStay
=============================================================================
