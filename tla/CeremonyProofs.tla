--------------------------- MODULE CeremonyProofs ---------------------------
(* Proofs about Ceremony, for any number of sockets, keys and rounds and any *)
(* cap.                                                                      *)
EXTENDS Ceremony, FiniteSetTheorems, TLAPS

Pages == [at : {"idle", "connecting", "starting", "waiting"},
          type : Operations \cup {None}, round : 0 .. LastRound, left : 0 .. 2]

Links == {"none", "handshake", "open", "cut", "closed"}

Replies == [kind : {"none", "started", "answer", "done"}, key : Keys \cup {None}]

Ceremonies == [step : 0 .. LastRound, mapped : BOOLEAN, armed : BOOLEAN]

\* A key the server stored.
Stored(k) == k \in Keys /\ maker[k] # None

\* The page and the connection of socket s.
Line(s) ==
    /\ page[s].at = "idle" => link[s] \in {"none", "cut"} /\ down[s] = Silence
    /\ page[s].at # "idle" => link[s] \in {"handshake", "open", "closed"}
                              /\ page[s].type \in Operations
    /\ page[s].at = "connecting" =>
         up[s] = Nothing /\ h[s] = Nothing /\ down[s] = Silence /\ s \notin Running
    /\ link[s] = "handshake" => page[s].at = "connecting"
    /\ up[s] # Nothing => link[s] \in {"open", "cut"}

\* One message of socket s is under way, or none.
OneMessage(s) ==
    /\ up[s] # Nothing => up[s].at \in {"start", "round"} /\ h[s] = Nothing
    /\ h[s] # Nothing => h[s].at # "none"
    /\ down[s].kind # "none" => up[s] = Nothing /\ h[s] = Nothing
    /\ down[s].kind = "none" => down[s] = Silence

\* A message m of socket s to the server finds the ceremony where it should be,
\* and a page that is still connected waits for the answer.
Sent(s, m) ==
    /\ m.type \in Operations
    /\ m.at \in {"start", "create"} => s \notin Running
    /\ m.at = "round" /\ cer[s].mapped => m.round = cer[s].step
    /\ m.at = "persist" => m.type = "dkg"
    /\ m.at = "finish" /\ m.type = "dkg" => m.key \in Keys /\ maker[m.key] = s
    /\ link[s] = "open" =>
         /\ page[s].type = m.type
         /\ m.at \in {"start", "create"} => page[s].at = "starting"
         /\ m.at \in {"round", "persist", "finish"} =>
              page[s].at = "waiting" /\ page[s].round = m.round

\* A reply finds the page that waits for it, and the ceremony one round on.
Replied(s) ==
    /\ down[s].kind = "started" =>
         page[s].at = "starting" /\ (cer[s].mapped => cer[s].step = 1)
    /\ down[s].kind = "answer" =>
         /\ page[s].at = "waiting" /\ page[s].round < LastRound
         /\ cer[s].mapped => cer[s].step = page[s].round + 1
    /\ down[s].kind = "done" =>
         /\ page[s].at = "waiting" /\ s \notin Running
         /\ page[s].type = "dkg" => Stored(down[s].key)

Talk(s) ==
    /\ Line(s) /\ OneMessage(s) /\ Replied(s)
    /\ up[s] # Nothing => Sent(s, up[s])
    /\ h[s] # Nothing => Sent(s, h[s])
    /\ cer[s].mapped => s \in Running

TypeInv ==
    /\ page \in [Sockets -> Pages]
    /\ link \in [Sockets -> Links]
    /\ up \in [Sockets -> Message]
    /\ down \in [Sockets -> Replies]
    /\ h \in [Sockets -> Message]
    /\ cer \in [Sockets -> Ceremonies]
    /\ live \in Nat
    /\ revoked \subseteq Sockets
    /\ maker \in [Keys -> Sockets \cup {None}]
    /\ held \subseteq Keys
    /\ trusted \subseteq Sockets

IInv ==
    /\ TypeInv
    /\ \A s \in Sockets : Talk(s)
    /\ SlotsMatch
-----------------------------------------------------------------------------
(* Helpers *)

\* What a step leaves alone of socket s.
Same(s) ==
    /\ page'[s] = page[s] /\ link'[s] = link[s] /\ up'[s] = up[s]
    /\ down'[s] = down[s] /\ h'[s] = h[s] /\ cer'[s] = cer[s]

\* A stored key stays as it is.
MakersKept == \A k \in Keys : maker[k] # None => maker'[k] = maker[k]

LEMMA TalkFrame ==
  ASSUME NEW s \in Sockets, Same(s), MakersKept, Talk(s)
  PROVE  Talk(s)'
<1>1. /\ Line(s) /\ OneMessage(s) /\ Replied(s)
      /\ up[s] # Nothing => Sent(s, up[s])
      /\ h[s] # Nothing => Sent(s, h[s])
      /\ cer[s].mapped => s \in Running
      /\ s \in Running <=> s \in Running'
  BY DEF Talk, Same, Running
<1>2. Line(s)' /\ OneMessage(s)'
  BY <1>1 DEF Line, OneMessage, Same
<1>3. Replied(s)'
  BY <1>1 DEF Replied, Same, Stored, MakersKept
<1>4. ASSUME NEW m, Sent(s, m), NEW n, n = m
      PROVE  /\ m.type \in Operations
             /\ m.at \in {"start", "create"} => s \notin Running'
             /\ m.at = "round" /\ cer'[s].mapped => m.round = cer'[s].step
             /\ m.at = "persist" => m.type = "dkg"
             /\ m.at = "finish" /\ m.type = "dkg" => m.key \in Keys /\ maker'[m.key] = s
             /\ link'[s] = "open" =>
                  /\ page'[s].type = m.type
                  /\ m.at \in {"start", "create"} => page'[s].at = "starting"
                  /\ m.at \in {"round", "persist", "finish"} =>
                       page'[s].at = "waiting" /\ page'[s].round = m.round
  <2>1. s # None
    BY CeremonyAssumption
  <2> QED
    BY <1>1, <1>4, <2>1 DEF Sent, Same, MakersKept
<1>5. up'[s] # Nothing => Sent(s, up[s])'
  BY <1>1, <1>4 DEF Sent, Same
<1>6. h'[s] # Nothing => Sent(s, h[s])'
  BY <1>1, <1>4 DEF Sent, Same
<1> QED
  BY <1>1, <1>2, <1>3, <1>5, <1>6 DEF Talk, Same

LEMMA Parts ==
  /\ Idle \in Pages /\ Nothing \in Message /\ Silence \in Replies /\ Ended \in Ceremonies
  /\ Idle.at = "idle" /\ Nothing.at = "none" /\ Silence.kind = "none"
  /\ Ended.step = 0 /\ ~Ended.mapped
  /\ 0 \in 0 .. LastRound /\ 1 \in 0 .. LastRound /\ 1 \in 1 .. LastRound
BY CeremonyAssumption DEF Idle, Nothing, Silence, Ended, Pages, Message, Replies, Ceremonies

LEMMA InitInv == Init => IInv
<1> SUFFICES ASSUME Init PROVE IInv
  OBVIOUS
<1> USE CeremonyAssumption, Parts
<1>1. TypeInv
  BY DEF Init, TypeInv, Links, Generation!Init
<1>2. Running = {}
  BY DEF Init, Running
<1>3. \A s \in Sockets : Talk(s)
  BY <1>2 DEF Init, Talk, Line, OneMessage, Replied
<1>4. SlotsMatch
  BY <1>2, FS_EmptySet DEF Init, SlotsMatch
<1> QED
  BY <1>1, <1>3, <1>4 DEF IInv

\* The other sockets go on talking as they did.
LEMMA OthersTalk ==
  ASSUME IInv, NEW s \in Sockets, \A q \in Sockets \ {s} : Same(q), MakersKept, Talk(s)'
  PROVE  \A q \in Sockets : Talk(q)'
BY TalkFrame DEF IInv

\* A ceremony that runs after the step ran before it, and conversely.
LEMMA SlotsFrame ==
  ASSUME IInv, live' = live, NEW s \in Sockets,
         \A q \in Sockets \ {s} : Same(q), s \in Running <=> s \in Running'
  PROVE  SlotsMatch'
<1>1. Running' = Running
  BY DEF Same, Running
<1> QED
  BY <1>1 DEF IInv, SlotsMatch

LEMMA SlotTaken ==
  ASSUME IInv, live' = live + 1, NEW s \in Sockets,
         \A q \in Sockets \ {s} : Same(q), s \notin Running, s \in Running'
  PROVE  SlotsMatch' /\ live' \in Nat
<1>1. Running' = Running \cup {s}
  BY DEF Same, Running
<1>2. IsFiniteSet(Running)
  BY CeremonyAssumption, FS_Subset DEF Running
<1>3. Cardinality(Running') = Cardinality(Running) + 1
  BY <1>1, <1>2, FS_AddElement
<1> QED
  BY <1>3 DEF IInv, SlotsMatch, TypeInv

\* teardown gives a slot back, if the ceremony had one.
LEMMA SlotGiven ==
  ASSUME IInv, NEW s \in Sockets, Teardown(s)
  PROVE  /\ cer' \in [Sockets -> Ceremonies] /\ live' \in Nat /\ SlotsMatch'
         /\ cer'[s] = Ended /\ s \notin Running'
         /\ \A q \in Sockets \ {s} : cer'[q] = cer[q]
<1>1. /\ cer' \in [Sockets -> Ceremonies] /\ cer'[s] = Ended
      /\ \A q \in Sockets \ {s} : cer'[q] = cer[q]
  BY Parts DEF Teardown, IInv, TypeInv
<1>2. Running' = Running \ {s}
  BY <1>1, Parts DEF Running
<1>3. IsFiniteSet(Running)
  BY CeremonyAssumption, FS_Subset DEF Running
<1>4. CASE s \in Running
  <2>1. Cardinality(Running') = Cardinality(Running) - 1
    BY <1>2, <1>3, <1>4, FS_RemoveElement
  <2>2. Cardinality(Running) \in Nat /\ Cardinality(Running') \in Nat
    BY <1>2, <1>3, FS_CardinalityType, FS_Subset
  <2> QED
    BY <1>1, <1>2, <1>4, <2>1, <2>2 DEF Teardown, IInv, SlotsMatch
<1>5. CASE s \notin Running
  BY <1>1, <1>2, <1>5 DEF Teardown, IInv, SlotsMatch, TypeInv
<1> QED
  BY <1>1, <1>2, <1>4, <1>5

-----------------------------------------------------------------------------
(* The page *)

\* A step of the page of socket s, which leaves the server alone.
LEMMA PageKeeps ==
  ASSUME IInv, NEW s \in Sockets, UNCHANGED <<server, revoked, maker, trusted>>,
         \A q \in Sockets \ {s} : Same(q),
         page' \in [Sockets -> Pages], link' \in [Sockets -> Links],
         up' \in [Sockets -> Message], down' \in [Sockets -> Replies], held' \subseteq Keys,
         Talk(s)'
  PROVE  IInv'
<1>1. TypeInv'
  BY DEF IInv, TypeInv, server
<1>2. \A q \in Sockets : Talk(q)'
  BY OthersTalk DEF MakersKept
<1>3. SlotsMatch'
  BY SlotsFrame DEF server, Running
<1> QED
  BY <1>1, <1>2, <1>3 DEF IInv

\* What the page sends goes up, or is lost.
LEMMA SendType ==
  ASSUME IInv, NEW s \in Sockets, NEW at \in {"start", "round"}, NEW n \in 0 .. LastRound,
         Send(s, at, n)
  PROVE  /\ up' \in [Sockets -> Message] /\ \A q \in Sockets \ {s} : up'[q] = up[q]
         /\ link[s] = "open" => /\ up'[s].at = at /\ up'[s].type = page[s].type
                                /\ up'[s].round = n /\ up'[s] # Nothing
         /\ link[s] # "open" => up'[s] = up[s]
<1>1. [at |-> at, type |-> page[s].type, round |-> n, key |-> None] \in Message
  BY DEF IInv, TypeInv, Message, Pages
<1> QED
  BY <1>1, Parts DEF Send, IInv, TypeInv

LEMMA ConnectKeeps ==
  ASSUME IInv, NEW s \in Sockets, NEW t \in Operations, Connect(s, t)
  PROVE  IInv'
<1> DEFINE new == [Idle EXCEPT !.at = "connecting", !.type = t,
                               !.left = IF t = "derive" THEN 2 ELSE 1]
<1>1. /\ page[s].at = "idle" /\ link[s] = "none" /\ h[s] = Nothing /\ s \notin Running
      /\ UNCHANGED <<up, down, server, revoked, keys>> /\ Talk(s)
      /\ page' = [page EXCEPT ![s] = new] /\ link' = [link EXCEPT ![s] = "handshake"]
  BY DEF Connect, IInv
<1>2. new \in Pages /\ new.at = "connecting" /\ new.type = t
  <2> DEFINE l == IF t = "derive" THEN 2 ELSE 1
  <2>1. l \in 0 .. 2 /\ new = [Idle EXCEPT !.at = "connecting", !.type = t, !.left = l]
    OBVIOUS
  <2>2. Idle \in Pages
    BY Parts
  <2> HIDE DEF new, l
  <2> QED
    BY <2>1, <2>2 DEF Pages
<1> HIDE DEF new
<1>3. /\ page' \in [Sockets -> Pages] /\ link' \in [Sockets -> Links]
      /\ page'[s] = new /\ link'[s] = "handshake" /\ \A q \in Sockets \ {s} : Same(q)
  BY <1>1, <1>2 DEF IInv, TypeInv, Links, Same, server
<1>4. up[s] = Nothing /\ down[s] = Silence
  BY <1>1 DEF Talk, Line
<1>5. Talk(s)'
  BY <1>1, <1>2, <1>3, <1>4, Parts
     DEF Talk, Line, OneMessage, Replied, Running, server
<1> QED
  BY <1>1, <1>3, <1>5, PageKeeps DEF IInv, TypeInv, keys

LEMMA StartKeeps ==
  ASSUME IInv, NEW s \in Sockets, Start(s)
  PROVE  IInv'
<1>1. /\ page[s].at = "connecting" /\ link[s] = "open" /\ Send(s, "start", 0)
      /\ UNCHANGED <<link, down, server, revoked, keys>> /\ Talk(s) /\ TypeInv
      /\ page' = [page EXCEPT ![s].at = "starting"] /\ 0 \in 0 .. LastRound
  BY CeremonyAssumption DEF Start, IInv
<1> DEFINE new == [page[s] EXCEPT !.at = "starting"]
<1>a. new \in Pages /\ new.at = "starting" /\ new.type = page[s].type
  BY <1>1 DEF TypeInv, Pages
<1>b. page' = [page EXCEPT ![s] = new]
  BY <1>1 DEF TypeInv
<1> HIDE DEF new
<1>2. /\ page' \in [Sockets -> Pages] /\ page'[s].at = "starting"
      /\ page'[s].type = page[s].type /\ \A q \in Sockets \ {s} : page'[q] = page[q]
  BY <1>1, <1>a, <1>b DEF TypeInv
<1>3. /\ up' \in [Sockets -> Message] /\ \A q \in Sockets \ {s} : up'[q] = up[q]
      /\ up'[s].at = "start" /\ up'[s].type = page[s].type /\ up'[s] # Nothing
  BY <1>1, SendType
<1>4. h[s] = Nothing /\ down[s] = Silence /\ s \notin Running /\ page[s].type \in Operations
  BY <1>1 DEF Talk, Line
<1>5. Sent(s, up[s])'
  BY <1>1, <1>2, <1>3, <1>4 DEF Sent, Running, server
<1>6. Talk(s)'
  BY <1>1, <1>2, <1>3, <1>4, <1>5, Parts
     DEF Talk, Line, OneMessage, Replied, Running, server
<1> QED
  BY <1>1, <1>2, <1>3, <1>6, PageKeeps DEF TypeInv, keys, Same, server

\* The page takes a reply and sends its next round.
LEMMA NextRoundKeeps ==
  ASSUME IInv, NEW s \in Sockets, NEW n \in 1 .. LastRound,
         down[s].kind \in {"started", "answer"}, cer[s].mapped => cer[s].step = n,
         page' \in [Sockets -> Pages], \A q \in Sockets \ {s} : page'[q] = page[q],
         page'[s].at = "waiting", page'[s].round = n, page'[s].type = page[s].type,
         Send(s, "round", n), down' = [down EXCEPT ![s] = Silence],
         UNCHANGED <<link, server, revoked, keys>>
  PROVE  IInv'
<1>1. /\ down' \in [Sockets -> Replies] /\ down'[s] = Silence
      /\ \A q \in Sockets \ {s} : down'[q] = down[q]
      /\ Talk(s) /\ TypeInv /\ n \in 0 .. LastRound
  BY Parts DEF IInv, TypeInv
<1>2. /\ up' \in [Sockets -> Message] /\ \A q \in Sockets \ {s} : up'[q] = up[q]
      /\ link[s] = "open" => /\ up'[s].at = "round" /\ up'[s].type = page[s].type
                             /\ up'[s].round = n /\ up'[s] # Nothing
      /\ link[s] # "open" => up'[s] = up[s]
  BY <1>1, SendType
<1>3. /\ up[s] = Nothing /\ h[s] = Nothing /\ page[s].at \in {"starting", "waiting"}
      /\ page[s].type \in Operations /\ link[s] \in {"open", "closed"}
  BY <1>1, Parts DEF Talk, Line, OneMessage, Replied
<1>4. up'[s] # Nothing => Sent(s, up[s])'
  BY <1>2, <1>3 DEF Sent, server
<1>5. Talk(s)'
  BY <1>1, <1>2, <1>3, <1>4, Parts
     DEF Talk, Line, OneMessage, Replied, Running, server
<1> QED
  BY <1>1, <1>2, <1>5, PageKeeps DEF TypeInv, keys, Same, server

LEMMA BeginKeeps ==
  ASSUME IInv, NEW s \in Sockets, Begin(s)
  PROVE  IInv'
<1> DEFINE new == [page[s] EXCEPT !.at = "waiting", !.round = 1]
<1>a. /\ new \in Pages /\ new.at = "waiting" /\ new.round = 1 /\ new.type = page[s].type
      /\ 1 \in 1 .. LastRound
  <2>1. page[s] \in Pages
    BY DEF IInv, TypeInv
  <2>2. new = [page[s] EXCEPT !.at = "waiting", !.round = 1]
    OBVIOUS
  <2> HIDE DEF new
  <2>3. 1 \in 0 .. LastRound /\ 1 \in 1 .. LastRound
    BY Parts
  <2> QED
    BY <2>1, <2>2, <2>3 DEF Pages
<1>b. page' = [page EXCEPT ![s] = new]
  BY DEF Begin, IInv, TypeInv
<1> HIDE DEF new
<1>1. page' \in [Sockets -> Pages] /\ page'[s].at = "waiting" /\ page'[s].round = 1
      /\ page'[s].type = page[s].type /\ (\A q \in Sockets \ {s} : page'[q] = page[q])
      /\ 1 \in 1 .. LastRound
  BY <1>a, <1>b DEF IInv, TypeInv
<1>2. cer[s].mapped => cer[s].step = 1
  BY DEF IInv, Talk, Replied, Begin
<1> QED
  BY <1>1, <1>2, NextRoundKeeps DEF Begin

LEMMA AnswerKeeps ==
  ASSUME IInv, NEW s \in Sockets, Answer(s)
  PROVE  IInv'
<1> DEFINE n == page[s].round + 1
<1>1. page[s] \in Pages /\ page[s].round < LastRound
  BY DEF Answer, IInv, TypeInv, Talk, Replied
<1>2. n \in 1 .. LastRound
  BY <1>1, CeremonyAssumption DEF Pages
<1> DEFINE new == [page[s] EXCEPT !.round = n]
<1>a. new \in Pages /\ new.at = "waiting" /\ new.round = n /\ new.type = page[s].type
  BY <1>1, <1>2 DEF Answer, Pages
<1>b. page' = [page EXCEPT ![s] = new]
  BY DEF Answer, IInv, TypeInv
<1> HIDE DEF new
<1>3. page' \in [Sockets -> Pages] /\ page'[s].at = "waiting" /\ page'[s].round = n
      /\ page'[s].type = page[s].type /\ (\A q \in Sockets \ {s} : page'[q] = page[q])
  BY <1>a, <1>b DEF IInv, TypeInv
<1>4. cer[s].mapped => cer[s].step = n
  BY DEF IInv, Talk, Replied, Answer
<1>5. Send(s, "round", n) /\ down[s].kind = "answer"
      /\ down' = [down EXCEPT ![s] = Silence] /\ UNCHANGED <<link, server, revoked, keys>>
  BY DEF Answer
<1> HIDE DEF n
<1> QED
  BY <1>2, <1>3, <1>4, <1>5, NextRoundKeeps

LEMMA AgainKeeps ==
  ASSUME IInv, NEW s \in Sockets, Again(s)
  PROVE  IInv'
<1>1. /\ down[s].kind = "done" /\ down' = [down EXCEPT ![s] = Silence]
      /\ UNCHANGED <<link, up, server, revoked, keys>> /\ Talk(s) /\ TypeInv
      /\ page' = [page EXCEPT ![s].at = "connecting", ![s].left = 1, ![s].round = 0]
      /\ page[s].at = "waiting"
  BY DEF Again, IInv
<1> DEFINE new == [page[s] EXCEPT !.at = "connecting", !.left = 1, !.round = 0]
<1>a. new \in Pages /\ new.at = "connecting" /\ new.type = page[s].type
  <2>1. page[s] \in Pages
    BY <1>1 DEF TypeInv
  <2>2. new = [page[s] EXCEPT !.at = "connecting", !.left = 1, !.round = 0]
    OBVIOUS
  <2> HIDE DEF new
  <2>3. 0 \in 0 .. LastRound /\ 1 \in 0 .. 2
    BY Parts
  <2>4. new \in Pages
    BY <2>1, <2>2, <2>3 DEF Pages
  <2>5. new.at = "connecting"
    BY <2>1, <2>2 DEF Pages
  <2>6. new.type = page[s].type
    BY <2>1, <2>2 DEF Pages
  <2> QED
    BY <2>4, <2>5, <2>6
<1>b. page' = [page EXCEPT ![s] = new]
  BY <1>1 DEF TypeInv
<1> HIDE DEF new
<1>2. /\ page' \in [Sockets -> Pages] /\ page'[s].at = "connecting"
      /\ page'[s].type = page[s].type /\ \A q \in Sockets \ {s} : page'[q] = page[q]
  BY <1>1, <1>a, <1>b DEF TypeInv
<1>3. /\ down' \in [Sockets -> Replies] /\ down'[s] = Silence
      /\ \A q \in Sockets \ {s} : down'[q] = down[q]
  BY <1>1, Parts DEF TypeInv
<1>4. up[s] = Nothing /\ h[s] = Nothing /\ s \notin Running /\ page[s].type \in Operations
      /\ link[s] \in {"open", "closed"}
  BY <1>1 DEF Talk, OneMessage, Replied, Line
<1>5. Talk(s)'
  BY <1>1, <1>2, <1>3, <1>4, Parts
     DEF Talk, Line, OneMessage, Replied, Running, server
<1> QED
  BY <1>1, <1>2, <1>3, <1>5, PageKeeps DEF TypeInv, keys, Same, server

\* The page goes, and what is under way to the server may still arrive.
LEMMA HangupKeeps ==
  ASSUME IInv, NEW s \in Sockets, page[s].at # "idle", Hangup(s), held' \subseteq Keys,
         UNCHANGED <<up, server, revoked, maker, trusted>>
  PROVE  IInv'
<1>1. /\ page' \in [Sockets -> Pages] /\ page'[s] = Idle
      /\ down' \in [Sockets -> Replies] /\ down'[s] = Silence
      /\ link' \in [Sockets -> Links] /\ Talk(s) /\ up' = up /\ TypeInv
      /\ link'[s] = IF link[s] = "open" THEN "cut" ELSE "none"
      /\ \A q \in Sockets \ {s} : Same(q)
  BY Parts DEF Hangup, IInv, TypeInv, Same, server, Links
<1>2. /\ up[s] # Nothing => link'[s] = "cut" /\ Sent(s, up[s])
      /\ h[s] # Nothing => Sent(s, h[s])
  BY <1>1 DEF Talk, Line
<1>3. /\ up'[s] # Nothing => Sent(s, up[s])'
      /\ h'[s] # Nothing => Sent(s, h[s])'
  BY <1>1, <1>2 DEF Sent, server, Running
<1>4. Talk(s)'
  BY <1>1, <1>2, <1>3, Parts DEF Talk, Line, OneMessage, Replied, Running, server
<1> QED
  BY <1>1, <1>4, PageKeeps DEF TypeInv

LEMMA ResultKeeps ==
  ASSUME IInv, NEW s \in Sockets, Result(s)
  PROVE  IInv'
<1>1. held' \subseteq Keys
  BY DEF Result, IInv, TypeInv, Talk, Replied, Stored
<1> QED
  BY <1>1, HangupKeeps DEF Result

LEMMA FailKeeps ==
  ASSUME IInv, NEW s \in Sockets, Fail(s)
  PROVE  IInv'
BY HangupKeeps DEF Fail, keys, IInv, TypeInv
-----------------------------------------------------------------------------
(* The server *)

\* What Sent asks of message m after a step.
SentNext(s, m) ==
    /\ m.type \in Operations
    /\ m.at \in {"start", "create"} => s \notin Running'
    /\ m.at = "round" /\ cer'[s].mapped => m.round = cer'[s].step
    /\ m.at = "persist" => m.type = "dkg"
    /\ m.at = "finish" /\ m.type = "dkg" => m.key \in Keys /\ maker'[m.key] = s
    /\ link'[s] = "open" =>
         /\ page'[s].type = m.type
         /\ m.at \in {"start", "create"} => page'[s].at = "starting"
         /\ m.at \in {"round", "persist", "finish"} =>
              page'[s].at = "waiting" /\ page'[s].round = m.round

LEMMA TalkNext ==
  ASSUME NEW s \in Sockets, Line(s)', OneMessage(s)', Replied(s)',
         up'[s] # Nothing => SentNext(s, up'[s]), h'[s] # Nothing => SentNext(s, h'[s]),
         cer'[s].mapped => s \in Running'
  PROVE  Talk(s)'
BY DEF Talk, Sent, SentNext

\* A ceremony that goes on or ends, and a connection that stays or closes, leave
\* what was sent in its place.
LEMMA SentStays ==
  ASSUME NEW s \in Sockets, NEW m, Sent(s, m), page'[s] = page[s], MakersKept,
         link'[s] = link[s] \/ link'[s] # "open", cer'[s] = cer[s] \/ cer'[s] = Ended
  PROVE  SentNext(s, m)
<1>1. s # None /\ (s \in Running' => s \in Running)
  BY CeremonyAssumption, Parts DEF Running
<1>2. cer'[s].mapped => cer'[s] = cer[s]
  BY Parts
<1> QED
  BY <1>1, <1>2 DEF Sent, SentNext, MakersKept

\* A step of the server for socket s.
LEMMA ServerKeeps ==
  ASSUME IInv, NEW s \in Sockets, UNCHANGED <<page, held>>, MakersKept,
         \A q \in Sockets \ {s} : Same(q),
         link' \in [Sockets -> Links], up' \in [Sockets -> Message],
         down' \in [Sockets -> Replies], h' \in [Sockets -> Message],
         cer' \in [Sockets -> Ceremonies], live' \in Nat, revoked' \subseteq Sockets,
         maker' \in [Keys -> Sockets \cup {None}], trusted' \subseteq Sockets,
         Talk(s)', SlotsMatch'
  PROVE  IInv'
<1>1. TypeInv'
  BY DEF IInv, TypeInv
<1>2. \A q \in Sockets : Talk(q)'
  BY OthersTalk
<1> QED
  BY <1>1, <1>2 DEF IInv

\* The socket's entry of the map is aborted, if it has one.
LEMMA Aborted ==
  ASSUME IInv, NEW s \in Sockets, AbortMapped(s)
  PROVE  /\ cer' \in [Sockets -> Ceremonies] /\ live' \in Nat /\ SlotsMatch'
         /\ cer'[s] = cer[s] \/ cer'[s] = Ended
         /\ \A q \in Sockets \ {s} : cer'[q] = cer[q]
<1>1. CASE cer[s].mapped
  BY <1>1, SlotGiven DEF AbortMapped
<1>2. CASE ~cer[s].mapped
  BY <1>2 DEF AbortMapped, IInv, TypeInv, SlotsMatch, Running
<1> QED
  BY <1>1, <1>2

LEMMA ReapKeeps ==
  ASSUME IInv, NEW s \in Sockets, Reap(s)
  PROVE  IInv'
<1>1. Teardown(s) /\ UNCHANGED <<page, wire, h, revoked, keys>> /\ Talk(s) /\ MakersKept
  BY DEF Reap, IInv, keys, MakersKept
<1>2. /\ cer' \in [Sockets -> Ceremonies] /\ live' \in Nat /\ SlotsMatch'
      /\ cer'[s] = Ended /\ s \notin Running'
      /\ \A q \in Sockets \ {s} : cer'[q] = cer[q]
  BY <1>1, SlotGiven
<1>3. /\ up'[s] # Nothing => SentNext(s, up'[s])
      /\ h'[s] # Nothing => SentNext(s, h'[s])
  BY <1>1, <1>2, SentStays DEF Talk, wire
<1>4. Line(s)' /\ OneMessage(s)' /\ Replied(s)'
  BY <1>1, <1>2, Parts DEF Talk, Line, OneMessage, Replied, Stored, wire, keys
<1>5. Talk(s)'
  BY <1>2, <1>3, <1>4, TalkNext, Parts
<1> QED
  BY <1>1, <1>2, <1>5, ServerKeeps DEF IInv, TypeInv, wire, keys, Same

LEMMA AuthenticateKeeps ==
  ASSUME IInv, NEW s \in Sockets, Authenticate(s)
  PROVE  IInv'
<1>1. /\ link[s] = "handshake" /\ UNCHANGED <<page, up, down, server, revoked, keys>>
      /\ link' \in [Sockets -> Links] /\ link'[s] \in {"open", "closed"}
      /\ \A q \in Sockets \ {s} : link'[q] = link[q]
  BY DEF Authenticate, IInv, TypeInv, Links
<1>2. /\ page[s].at = "connecting" /\ page[s].type \in Operations /\ up[s] = Nothing
      /\ h[s] = Nothing /\ down[s] = Silence /\ s \notin Running /\ Talk(s)
  BY <1>1 DEF IInv, Talk, Line
<1>3. Talk(s)'
  BY <1>1, <1>2, Parts DEF Talk, Line, OneMessage, Replied, server, Running
<1>4. SlotsMatch'
  BY <1>1 DEF IInv, SlotsMatch, Running, server
<1> QED
  BY <1>1, <1>3, <1>4, ServerKeeps DEF IInv, TypeInv, server, keys, Same, MakersKept

\* The server's end of a connection closes.
LEMMA CloseKeeps ==
  ASSUME IInv, NEW s \in Sockets, link[s] \in {"open", "cut"}, CloseServerEnd(s),
         UNCHANGED <<page, down, h, revoked, keys>>
  PROVE  IInv'
<1>1. /\ cer' \in [Sockets -> Ceremonies] /\ live' \in Nat /\ SlotsMatch'
      /\ cer'[s] = cer[s] \/ cer'[s] = Ended
      /\ \A q \in Sockets \ {s} : cer'[q] = cer[q]
  BY Aborted DEF CloseServerEnd
<1>2. /\ link' \in [Sockets -> Links] /\ up' \in [Sockets -> Message] /\ up'[s] = Nothing
      /\ link'[s] = IF link[s] = "open" THEN "closed" ELSE "none"
      /\ \A q \in Sockets \ {s} : link'[q] = link[q] /\ up'[q] = up[q]
  BY Parts DEF CloseServerEnd, IInv, TypeInv, Links
<1>3. Talk(s) /\ MakersKept
  BY DEF IInv, keys, MakersKept
<1>4. h'[s] # Nothing => SentNext(s, h'[s])
  BY <1>1, <1>2, <1>3, SentStays DEF Talk
<1>5. s \in Running' => s \in Running
  BY <1>1, Parts DEF Running
<1>6. Line(s)' /\ OneMessage(s)'
  BY <1>2, <1>3, <1>5 DEF Talk, Line, OneMessage
<1>7. Replied(s)'
  BY <1>1, <1>3, <1>5, Parts DEF Talk, Replied, Stored, keys
<1>8. cer'[s].mapped => s \in Running'
  BY <1>1, <1>3, Parts DEF Talk, Running
<1>9. Talk(s)'
  BY <1>2, <1>4, <1>6, <1>7, <1>8, TalkNext
<1> QED
  BY <1>1, <1>2, <1>3, <1>9, ServerKeeps DEF IInv, TypeInv, keys, Same

LEMMA DisconnectKeeps ==
  ASSUME IInv, NEW s \in Sockets, Disconnect(s)
  PROVE  IInv'
BY CloseKeeps DEF Disconnect

LEMMA CheckKeeps ==
  ASSUME IInv, NEW s \in Sockets, Check(s)
  PROVE  IInv'
<1>1. /\ up[s] # Nothing /\ h[s] = Nothing /\ UNCHANGED <<page, down, revoked, keys>>
      /\ Talk(s) /\ link[s] \in {"open", "cut"} /\ MakersKept
  BY DEF Check, IInv, Talk, Line, keys, MakersKept
<1>2. CASE SessionLive(s)
  <2>1. /\ h' \in [Sockets -> Message] /\ up' \in [Sockets -> Message]
        /\ h'[s] = up[s] /\ up'[s] = Nothing /\ UNCHANGED <<link, cer, live>>
        /\ \A q \in Sockets \ {s} : h'[q] = h[q] /\ up'[q] = up[q]
    BY <1>2, Parts DEF Check, IInv, TypeInv
  <2>2. SentNext(s, h'[s])
    BY <1>1, <2>1, SentStays DEF Talk
  <2>3. Line(s)' /\ OneMessage(s)' /\ Replied(s)' /\ (cer'[s].mapped => s \in Running')
    BY <1>1, <2>1, Parts DEF Talk, Line, OneMessage, Replied, Stored, Running, keys
  <2>4. Talk(s)'
    BY <2>1, <2>2, <2>3, TalkNext
  <2>5. SlotsMatch'
    BY <2>1 DEF IInv, SlotsMatch, Running
  <2> QED
    BY <1>1, <2>1, <2>4, <2>5, ServerKeeps DEF IInv, TypeInv, keys, Same
<1>3. CASE ~SessionLive(s)
  BY <1>1, <1>3, CloseKeeps DEF Check
<1> QED
  BY <1>2, <1>3

LEMMA RevokeKeeps ==
  ASSUME IInv, NEW s \in Sockets, Revoke(s)
  PROVE  IInv'
<1>1. /\ revoked' \subseteq Sockets /\ UNCHANGED <<page, wire, server, keys>> /\ MakersKept
  BY DEF Revoke, IInv, TypeInv, keys, MakersKept
<1>2. \A q \in Sockets : Same(q)
  BY <1>1 DEF Same, wire, server
<1>3. Talk(s)'
  BY <1>1, <1>2, TalkFrame DEF IInv
<1>4. SlotsMatch'
  BY <1>1 DEF IInv, SlotsMatch, Running, server
<1> QED
  BY <1>1, <1>2, <1>3, <1>4, ServerKeeps DEF IInv, TypeInv, wire, server, keys

LEMMA RestartKeeps ==
  ASSUME IInv, Restart
  PROVE  IInv'
<1>1. /\ h' \in [Sockets -> Message] /\ up' \in [Sockets -> Message]
      /\ cer' \in [Sockets -> Ceremonies] /\ link' \in [Sockets -> Links]
      /\ UNCHANGED <<page, down, revoked, keys>> /\ live' = 0
      /\ \A s \in Sockets : /\ h'[s] = Nothing /\ up'[s] = Nothing /\ cer'[s] = Ended
                            /\ link'[s] = IF page[s].at = "idle" THEN "none" ELSE "closed"
  BY Parts DEF Restart, Links
<1>2. TypeInv'
  BY <1>1 DEF IInv, TypeInv, keys
<1>3. Running' = {}
  BY <1>1, Parts DEF Running
<1>4. \A s \in Sockets : Talk(s)'
  BY <1>1, <1>3, Parts DEF IInv, Talk, Line, OneMessage, Replied, Stored, keys
<1>5. SlotsMatch'
  BY <1>1, <1>3, FS_EmptySet DEF SlotsMatch
<1> QED
  BY <1>2, <1>4, <1>5 DEF IInv
-----------------------------------------------------------------------------
(* The handlers *)

\* A step of a handler of socket s, which leaves the connection alone.
LEMMA HandlerKeeps ==
  ASSUME IInv, NEW s \in Sockets, UNCHANGED <<page, link, up, revoked, held>>, MakersKept,
         \A q \in Sockets \ {s} : down'[q] = down[q] /\ h'[q] = h[q] /\ cer'[q] = cer[q],
         down' \in [Sockets -> Replies], h' \in [Sockets -> Message],
         cer' \in [Sockets -> Ceremonies], live' \in Nat,
         maker' \in [Keys -> Sockets \cup {None}], trusted' \subseteq Sockets,
         Talk(s)', SlotsMatch'
  PROVE  IInv'
BY ServerKeeps DEF IInv, TypeInv, Same

\* The handler has more to do: nothing is sent yet.
LEMMA HandlerGoesOn ==
  ASSUME IInv, NEW s \in Sockets, h[s] # Nothing, NEW m \in Message, h' = [h EXCEPT ![s] = m],
         m.at # "none", SentNext(s, m), UNCHANGED <<page, wire, cer, live, revoked, held>>,
         maker' \in [Keys -> Sockets \cup {None}], MakersKept, trusted' = trusted
  PROVE  IInv'
<1>1. /\ h' \in [Sockets -> Message] /\ h'[s] = m /\ \A q \in Sockets \ {s} : h'[q] = h[q]
      /\ Talk(s)
  BY DEF IInv, TypeInv
<1>2. up[s] = Nothing /\ down[s] = Silence /\ page[s].at # "connecting"
  BY <1>1 DEF Talk, Line, OneMessage
<1>3. Line(s)' /\ OneMessage(s)' /\ Replied(s)' /\ (cer'[s].mapped => s \in Running')
  BY <1>1, <1>2, Parts DEF Talk, Line, OneMessage, Replied, Running, wire
<1>4. Talk(s)'
  BY <1>1, <1>2, <1>3, TalkNext DEF wire
<1>5. SlotsMatch'
  BY DEF IInv, SlotsMatch, Running
<1> QED
  BY <1>1, <1>4, <1>5, HandlerKeeps DEF IInv, TypeInv, wire

\* The handler ends: silently, or with a reply the page waits for.
LEMMA HandlerEnds ==
  ASSUME IInv, NEW s \in Sockets, h[s] # Nothing, h' = [h EXCEPT ![s] = Nothing],
         UNCHANGED <<page, link, up, revoked, held, maker>>, trusted' \subseteq Sockets,
         down' \in [Sockets -> Replies], \A q \in Sockets \ {s} : down'[q] = down[q],
         down'[s] # Silence => link[s] = "open" /\ down'[s].kind # "none",
         cer' \in [Sockets -> Ceremonies], live' \in Nat, SlotsMatch',
         \A q \in Sockets \ {s} : cer'[q] = cer[q], cer'[s].mapped => s \in Running',
         Replied(s)'
  PROVE  IInv'
<1>1. /\ h' \in [Sockets -> Message] /\ h'[s] = Nothing
      /\ \A q \in Sockets \ {s} : h'[q] = h[q]
      /\ Talk(s)
  BY Parts DEF IInv, TypeInv
<1>2. up[s] = Nothing /\ page[s].at # "connecting"
  BY <1>1 DEF Talk, Line, OneMessage
<1>3. Line(s)' /\ OneMessage(s)'
  BY <1>1, <1>2, Parts DEF Talk, Line, OneMessage
<1>4. Talk(s)'
  BY <1>1, <1>2, <1>3, TalkNext
<1> QED
  BY <1>1, <1>4, HandlerKeeps DEF IInv, TypeInv, MakersKept

LEMMA ReplyType ==
  ASSUME IInv, NEW s \in Sockets, h[s] # Nothing, NEW kind \in {"started", "answer", "done"},
         NEW key \in Keys \cup {None}, Reply(s, kind, key)
  PROVE  /\ h' = [h EXCEPT ![s] = Nothing] /\ UNCHANGED <<page, link, up, revoked>>
         /\ down' \in [Sockets -> Replies] /\ \A q \in Sockets \ {s} : down'[q] = down[q]
         /\ link[s] = "open" => down'[s].kind = kind /\ down'[s].key = key
         /\ link[s] # "open" => down'[s] = Silence
<1>1. [kind |-> kind, key |-> key] \in Replies
  BY DEF Replies
<1>2. down[s] = Silence
  BY DEF IInv, Talk, OneMessage
<1>3. down \in [Sockets -> Replies]
  BY DEF IInv, TypeInv
<1> QED
  BY <1>1, <1>2, <1>3 DEF Reply

\* The handler ends, and says nothing.
LEMMA RejectKeeps ==
  ASSUME IInv, NEW s \in Sockets, h[s] # Nothing, Reject(s),
         cer' \in [Sockets -> Ceremonies], live' \in Nat, SlotsMatch',
         \A q \in Sockets \ {s} : cer'[q] = cer[q], cer'[s].mapped => s \in Running'
  PROVE  IInv'
<1>1. down[s] = Silence
  BY DEF IInv, Talk, OneMessage
<1>2. /\ h' = [h EXCEPT ![s] = Nothing] /\ UNCHANGED <<page, wire, revoked, keys>>
  BY DEF Reject
<1>3. Replied(s)'
  BY <1>1, <1>2, Parts DEF Replied, wire
<1> QED
  BY <1>1, <1>2, <1>3, HandlerEnds DEF IInv, TypeInv, wire, keys

\* The handler's message is a message, and no other.
LEMMA Handled ==
  ASSUME IInv, NEW s \in Sockets, h[s].at # "none"
  PROVE  h[s] # Nothing /\ h[s] \in Message /\ Sent(s, h[s]) /\ Talk(s)
BY Parts DEF IInv, TypeInv, Talk

LEMMA WithinCapKeeps ==
  ASSUME IInv, NEW s \in Sockets, WithinCap(s)
  PROVE  IInv'
<1> DEFINE m == [h[s] EXCEPT !.at = "create"]
<1>1. h[s].at = "start" /\ h[s] # Nothing /\ h[s] \in Message /\ Sent(s, h[s])
  BY Handled DEF WithinCap
<1>2. /\ m \in Message /\ m.at = "create" /\ m.type = h[s].type /\ m.round = h[s].round
      /\ h' = [h EXCEPT ![s] = m] /\ UNCHANGED <<page, wire, cer, live, revoked, keys>>
  BY <1>1 DEF WithinCap, Message
<1> HIDE DEF m
<1>3. SentNext(s, m)
  BY <1>1, <1>2 DEF Sent, SentNext, wire, Running
<1> QED
  BY <1>1, <1>2, <1>3, HandlerGoesOn DEF keys, MakersKept, IInv, TypeInv

LEMMA RefuseKeeps ==
  ASSUME IInv, NEW s \in Sockets, Refuse(s) \/ NotFound(s)
  PROVE  IInv'
<1>1. /\ h[s] # Nothing /\ Reject(s) /\ UNCHANGED <<cer, live>>
      /\ cer[s].mapped => s \in Running
  BY Handled DEF Refuse, NotFound, IInv, Talk
<1>2. SlotsMatch' /\ (cer'[s].mapped => s \in Running')
  BY <1>1 DEF IInv, SlotsMatch, Running
<1> QED
  BY <1>1, <1>2, RejectKeeps DEF IInv, TypeInv

LEMMA CreateKeeps ==
  ASSUME IInv, NEW s \in Sockets, Create(s)
  PROVE  IInv'
<1> DEFINE c == [step |-> 1, mapped |-> TRUE, armed |-> TRUE]
<1>1. h[s].at = "create" /\ h[s] # Nothing /\ Sent(s, h[s]) /\ UNCHANGED keys
  BY Handled DEF Create
<1>2. c \in Ceremonies /\ c.step = 1 /\ c.mapped
  BY Parts DEF Ceremonies
<1>3. cer' = [cer EXCEPT ![s] = c] /\ live' = live + 1 /\ Reply(s, "started", None)
  BY DEF Create
<1> HIDE DEF c
<1>4. /\ cer' \in [Sockets -> Ceremonies] /\ cer'[s] = c
      /\ \A q \in Sockets \ {s} : cer'[q] = cer[q]
  BY <1>2, <1>3 DEF IInv, TypeInv
<1>5. s \notin Running /\ s \in Running'
  BY <1>1, <1>2, <1>4 DEF Sent, Running
<1>6. /\ h' = [h EXCEPT ![s] = Nothing] /\ UNCHANGED <<page, link, up, revoked>>
      /\ down' \in [Sockets -> Replies] /\ \A q \in Sockets \ {s} : down'[q] = down[q]
      /\ link[s] = "open" => down'[s].kind = "started"
      /\ link[s] # "open" => down'[s] = Silence
  BY <1>1, <1>3, ReplyType
<1>7. live' \in Nat /\ SlotsMatch'
  <2>1. Running' = Running \cup {s}
    BY <1>4, <1>5 DEF Running
  <2>2. IsFiniteSet(Running)
    BY CeremonyAssumption, FS_Subset DEF Running
  <2>3. Cardinality(Running') = Cardinality(Running) + 1
    BY <1>5, <2>1, <2>2, FS_AddElement
  <2> QED
    BY <1>3, <2>3 DEF IInv, SlotsMatch, TypeInv
<1>8. Replied(s)'
  BY <1>1, <1>2, <1>4, <1>6, Parts DEF Replied, Sent
<1> QED
  BY <1>1, <1>4, <1>5, <1>6, <1>7, <1>8, HandlerEnds DEF keys, IInv, TypeInv

LEMMA GuardThrowsKeeps ==
  ASSUME IInv, NEW s \in Sockets, GuardThrows(s)
  PROVE  IInv'
<1> DEFINE c == [cer[s] EXCEPT !.mapped = FALSE]
<1>1. h[s] # Nothing /\ Reject(s) /\ live' = live
  BY Handled DEF GuardThrows, Found
<1>2. c \in Ceremonies /\ c.step = cer[s].step /\ ~c.mapped
  BY DEF IInv, TypeInv, Ceremonies
<1>3. cer' = [cer EXCEPT ![s] = c]
  BY DEF GuardThrows
<1> HIDE DEF c
<1>4. /\ cer' \in [Sockets -> Ceremonies] /\ cer'[s] = c
      /\ \A q \in Sockets \ {s} : cer'[q] = cer[q]
  BY <1>2, <1>3 DEF IInv, TypeInv
<1>5. Running' = Running
  BY <1>2, <1>4 DEF Running
<1> QED
  BY <1>1, <1>2, <1>4, <1>5, RejectKeeps DEF IInv, TypeInv, SlotsMatch

\* The ceremony ends and the handler says nothing.
LEMMA ThrowsKeeps ==
  ASSUME IInv, NEW s \in Sockets, h[s] # Nothing, Teardown(s), Reject(s)
  PROVE  IInv'
BY SlotGiven, RejectKeeps, Parts

LEMMA RoundThrowsKeeps ==
  ASSUME IInv, NEW s \in Sockets, RoundThrows(s) \/ LastStepThrows(s)
  PROVE  IInv'
BY ThrowsKeeps, Handled DEF RoundThrows, LastStepThrows, Found

LEMMA RoundKeeps ==
  ASSUME IInv, NEW s \in Sockets, Round(s)
  PROVE  IInv'
<1> DEFINE c == [cer[s] EXCEPT !.step = cer[s].step + 1, !.armed = TRUE]
<1>1. /\ h[s].at = "round" /\ h[s] # Nothing /\ Sent(s, h[s]) /\ UNCHANGED <<live, keys>>
      /\ cer[s].mapped /\ h[s].round = cer[s].step /\ cer[s].step < LastRound
      /\ cer[s] \in Ceremonies /\ s \in Running /\ Reply(s, "answer", None)
  BY Handled DEF Round, Found, InOrder, IInv, TypeInv, Talk
<1>2. c \in Ceremonies /\ c.step = cer[s].step + 1 /\ c.step > 0 /\ c.mapped
  <2> DEFINE n == cer[s].step + 1
  <2>1. n \in 0 .. LastRound /\ n > 0
    BY <1>1, CeremonyAssumption DEF Ceremonies
  <2> HIDE DEF n
  <2>2. c = [cer[s] EXCEPT !.step = n, !.armed = TRUE]
    BY DEF n
  <2> HIDE DEF c
  <2>3. c \in Ceremonies
    BY <1>1, <2>1, <2>2 DEF Ceremonies
  <2>4. c.step = n /\ c.mapped
    BY <1>1, <2>2 DEF Ceremonies
  <2> QED
    BY <2>1, <2>3, <2>4 DEF n
<1>3. cer' = [cer EXCEPT ![s] = c]
  BY DEF Round
<1> HIDE DEF c
<1>4. /\ cer' \in [Sockets -> Ceremonies] /\ cer'[s] = c
      /\ \A q \in Sockets \ {s} : cer'[q] = cer[q]
  BY <1>2, <1>3 DEF IInv, TypeInv
<1>5. Running' = Running
  BY <1>1, <1>2, <1>4 DEF Running
<1>6. /\ h' = [h EXCEPT ![s] = Nothing] /\ UNCHANGED <<page, link, up, revoked>>
      /\ down' \in [Sockets -> Replies] /\ \A q \in Sockets \ {s} : down'[q] = down[q]
      /\ link[s] = "open" => down'[s].kind = "answer"
      /\ link[s] # "open" => down'[s] = Silence
  BY <1>1, ReplyType
<1>7. Replied(s)'
  BY <1>1, <1>2, <1>4, <1>6, Parts DEF Replied, Sent
<1> QED
  BY <1>1, <1>4, <1>5, <1>6, <1>7, HandlerEnds, Parts DEF keys, IInv, TypeInv, SlotsMatch

LEMMA LastStepKeeps ==
  ASSUME IInv, NEW s \in Sockets, LastStep(s)
  PROVE  IInv'
<1> DEFINE a == IF h[s].type = "dkg" THEN "persist" ELSE "finish"
           m == [h[s] EXCEPT !.at = a]
<1>1. h[s].at = "round" /\ h[s] # Nothing /\ h[s] \in Message /\ Sent(s, h[s])
  BY Handled DEF LastStep, Found
<1>2. /\ m \in Message /\ m.at = a /\ m.type = h[s].type /\ m.round = h[s].round
      /\ h' = [h EXCEPT ![s] = m] /\ UNCHANGED <<page, wire, cer, live, revoked, keys>>
  BY <1>1 DEF LastStep, Message
<1> HIDE DEF m
<1>3. SentNext(s, m)
  BY <1>1, <1>2 DEF Sent, SentNext, wire, Running
<1> QED
  BY <1>1, <1>2, <1>3, HandlerGoesOn DEF keys, MakersKept, IInv, TypeInv

LEMMA PersistKeeps ==
  ASSUME IInv, NEW s \in Sockets, Persist(s)
  PROVE  IInv'
<1>1. /\ h[s].at = "persist" /\ h[s] # Nothing /\ h[s] \in Message /\ Sent(s, h[s])
      /\ UNCHANGED <<page, wire, cer, live, revoked>>
  BY Handled DEF Persist
<1>2. PICK k \in Keys : /\ Generation!Store(k, s)
                        /\ h' = [h EXCEPT ![s].at = "finish", ![s].key = k]
  BY DEF Persist
<1> DEFINE m == [h[s] EXCEPT !.at = "finish", !.key = k]
<1>3. m \in Message
  BY <1>1 DEF Message
<1>4. m.at = "finish" /\ m.key = k /\ m.type = h[s].type /\ m.round = h[s].round
  BY <1>1 DEF Message
<1>5. h' = [h EXCEPT ![s] = m]
  BY <1>2 DEF IInv, TypeInv
<1> HIDE DEF m
<1>6. /\ maker' \in [Keys -> Sockets \cup {None}] /\ maker'[k] = s /\ MakersKept
      /\ UNCHANGED <<held, trusted>>
  BY <1>2 DEF Generation!Store, IInv, TypeInv, MakersKept
<1>7. SentNext(s, m)
  BY <1>1, <1>4, <1>6 DEF Sent, SentNext, wire, Running
<1> QED
  BY <1>1, <1>3, <1>4, <1>5, <1>6, <1>7, HandlerGoesOn

LEMMA FinishKeeps ==
  ASSUME IInv, NEW s \in Sockets, Finish(s)
  PROVE  IInv'
<1>1. /\ h[s].at = "finish" /\ h[s] # Nothing /\ h[s] \in Message /\ Sent(s, h[s])
      /\ Teardown(s) /\ Reply(s, "done", h[s].key) /\ UNCHANGED <<maker, held>>
      /\ trusted' \subseteq Sockets
  BY Handled DEF Finish, IInv, TypeInv
<1>2. h[s].key \in Keys \cup {None}
  BY <1>1 DEF Message
<1>3. /\ cer' \in [Sockets -> Ceremonies] /\ live' \in Nat /\ SlotsMatch'
      /\ cer'[s] = Ended /\ s \notin Running'
      /\ \A q \in Sockets \ {s} : cer'[q] = cer[q]
  BY <1>1, SlotGiven
<1>4. /\ h' = [h EXCEPT ![s] = Nothing] /\ UNCHANGED <<page, link, up, revoked>>
      /\ down' \in [Sockets -> Replies] /\ \A q \in Sockets \ {s} : down'[q] = down[q]
      /\ link[s] = "open" => down'[s].kind = "done" /\ down'[s].key = h[s].key
      /\ link[s] # "open" => down'[s] = Silence
  BY <1>1, <1>2, ReplyType
<1>5. s # None
  BY CeremonyAssumption
<1>6. Replied(s)'
  BY <1>1, <1>3, <1>4, <1>5, Parts DEF Replied, Sent, Stored
<1> QED
  BY <1>1, <1>3, <1>4, <1>6, HandlerEnds, Parts
-----------------------------------------------------------------------------
LEMMA IInvStep == ASSUME IInv, [Next]_vars PROVE IInv'
<1>1. CASE Next
  <2>1. ASSUME NEW s \in Sockets, PageStep(s)
        PROVE  IInv'
    BY <2>1, ConnectKeeps, StartKeeps, BeginKeeps, AnswerKeeps, AgainKeeps,
       ResultKeeps, FailKeeps DEF PageStep
  <2>2. ASSUME NEW s \in Sockets, HandlerStep(s)
        PROVE  IInv'
    BY <2>2, CheckKeeps, WithinCapKeeps, RefuseKeeps, CreateKeeps, GuardThrowsKeeps,
       RoundThrowsKeeps, RoundKeeps, LastStepKeeps, PersistKeeps, FinishKeeps
       DEF HandlerStep
  <2>3. ASSUME NEW s \in Sockets,
               Authenticate(s) \/ Disconnect(s) \/ Reap(s) \/ Revoke(s)
        PROVE  IInv'
    BY <2>3, AuthenticateKeeps, DisconnectKeeps, ReapKeeps, RevokeKeeps
  <2> QED
    BY <1>1, <2>1, <2>2, <2>3, RestartKeeps DEF Next
<1>2. CASE UNCHANGED vars
  <2>1. /\ UNCHANGED <<page, link, up, down, h, cer, live, revoked, maker, held, trusted>>
        /\ MakersKept /\ \A s \in Sockets : Same(s)
    BY <1>2 DEF vars, wire, server, keys, MakersKept, Same
  <2>2. \A s \in Sockets : Talk(s)'
    BY <2>1, TalkFrame DEF IInv
  <2> QED
    BY <2>1, <2>2 DEF IInv, TypeInv, SlotsMatch, Running
<1> QED
  BY <1>1, <1>2

\* The page, the message under way and the ceremony of every socket agree.
THEOREM Invariant == Spec => []IInv
<1>1. Init => IInv
  BY InitInv
<1>2. IInv /\ [Next]_vars => IInv'
  BY IInvStep
<1> QED
  BY <1>1, <1>2, PTL DEF Spec

\* Type correctness of the pages, the sockets, the handlers and the ceremonies.
THEOREM TypeCorrect == Spec => []TypeOK
<1>1. IInv => TypeOK
  BY DEF IInv, TypeInv, TypeOK, Pages, Links, Replies, Ceremonies
<1> QED
  BY <1>1, Invariant, PTL

\* ws/mpc.ts:36: the count of live ceremonies is the number of those that run,
\* however they end and in whatever order.
THEOREM SlotsAreCounted == Spec => []SlotsMatch
<1>1. IInv => SlotsMatch
  BY DEF IInv
<1> QED
  BY <1>1, Invariant, PTL

\* MpcServerParty.guard never refuses a round of this client for its number.
THEOREM RoundsAgree == Spec => []LockStep
<1>1. IInv => LockStep
  BY Parts DEF IInv, Talk, Sent, LockStep, Found, InOrder
<1> QED
  BY <1>1, Invariant, PTL

-----------------------------------------------------------------------------
(* The keys *)

\* Only persistServerKey, the page that has its result and the end of a DKG
\* touch a key, each as KeyGeneration has it.
LEMMA KeysStep == ASSUME IInv, [Next]_vars PROVE [Generation!Next]_<<maker, held, trusted>>
<1>1. CASE UNCHANGED keys
  BY <1>1 DEF keys
<1>2. ASSUME NEW s \in Sockets, Persist(s)
      PROVE  \E k \in Keys : Generation!Store(k, s)
  BY <1>2 DEF Persist
<1>3. ASSUME NEW s \in Sockets, Result(s)
      PROVE  UNCHANGED keys \/ \E k \in Keys : Generation!Hold(k)
  <2>1. CASE page[s].type = "dkg"
    <3> DEFINE k == down[s].key
    <3>1. k \in Keys /\ maker[k] # None
      BY <1>3, <2>1 DEF Result, IInv, Talk, Replied, Stored
    <3>2. held' = held \cup {k} /\ UNCHANGED <<maker, trusted>>
      BY <1>3, <2>1 DEF Result
    <3>3. CASE k \in held
      BY <3>2, <3>3 DEF keys
    <3>4. CASE k \notin held
      BY <3>1, <3>2, <3>4 DEF Generation!Hold
    <3> QED
      BY <3>3, <3>4
  <2>2. CASE page[s].type # "dkg"
    BY <1>3, <2>2 DEF Result, keys
  <2> QED
    BY <2>1, <2>2
<1>4. ASSUME NEW s \in Sockets, Finish(s)
      PROVE  UNCHANGED keys \/ Generation!Trust(s)
  <2>1. Sent(s, h[s])
    BY <1>4, Handled DEF Finish
  <2>2. CASE h[s].type = "dkg"
    BY <1>4, <2>1, <2>2 DEF Finish, Sent, Generation!Trust
  <2>3. CASE h[s].type # "dkg"
    BY <1>4, <2>3 DEF Finish, keys
  <2> QED
    BY <2>2, <2>3
<1>5. CASE Next
  <2>1. ASSUME NEW s \in Sockets, PageStep(s)
        PROVE  UNCHANGED keys \/ Result(s)
    BY <2>1 DEF PageStep, Connect, Start, Begin, Answer, Again, Fail
  <2>2. ASSUME NEW s \in Sockets, HandlerStep(s)
        PROVE  UNCHANGED keys \/ Persist(s) \/ Finish(s)
    BY <2>2 DEF HandlerStep, Check, WithinCap, Refuse, Create, NotFound, GuardThrows,
       RoundThrows, Round, LastStep, LastStepThrows, Reject
  <2>3. ASSUME NEW s \in Sockets,
               Authenticate(s) \/ Disconnect(s) \/ Reap(s) \/ Revoke(s)
        PROVE  UNCHANGED keys
    BY <2>3 DEF Authenticate, Disconnect, Reap, Revoke
  <2>4. CASE Restart
    BY <1>1, <2>4 DEF Restart
  <2> QED
    BY <1>1, <1>2, <1>3, <1>4, <1>5, <2>1, <2>2, <2>3, <2>4 DEF Next, Generation!Next
<1>6. CASE UNCHANGED vars
  BY <1>1, <1>6 DEF vars
<1> QED
  BY <1>5, <1>6

\* The ceremonies keep what KeyGeneration promises: the server has its share of a
\* key before the device has its own, and trusts a device that generated one.
THEOREM GeneratesKeys == Spec => ImplementsKeyGeneration
<1>1. Init => Generation!Init
  BY DEF Init
<1>2. IInv /\ [Next]_vars => [Generation!Next]_<<maker, held, trusted>>
  BY KeysStep
<1>3. Spec => Generation!Init /\ [][Generation!Next]_<<maker, held, trusted>>
  BY <1>1, <1>2, Invariant, PTL DEF Spec
<1> QED
  BY <1>3, PTL DEF ImplementsKeyGeneration, Generation!Spec, Generation!vars

\* A device's share has its counterpart, and a trusted device its key.
KeysAgree ==
    /\ \A k \in held : maker[k] # None
    /\ \A s \in trusted : \E k \in Keys : maker[k] = s

\* For good: the server never lacks its share of a key a device can use.
THEOREM HeldKeysAreStored == Spec => []KeysAgree
<1>1. Init => KeysAgree
  BY DEF Init, Generation!Init, KeysAgree
<1>2. IInv /\ KeysAgree /\ [Next]_vars => KeysAgree'
  <2> SUFFICES ASSUME IInv, KeysAgree, [Generation!Next]_<<maker, held, trusted>>
               PROVE  KeysAgree'
    BY KeysStep
  <2>1. /\ maker \in [Keys -> Sockets \cup {None}] /\ held \subseteq Keys
        /\ trusted \subseteq Sockets /\ None \notin Sockets
    BY CeremonyAssumption DEF IInv, TypeInv
  <2>2. ASSUME NEW k \in Keys, NEW s \in Sockets, Generation!Store(k, s)
        PROVE  KeysAgree'
    <3>1. /\ maker'[k] = s /\ \A j \in Keys \ {k} : maker'[j] = maker[j]
          /\ maker[k] = None /\ UNCHANGED <<held, trusted>>
      BY <2>1, <2>2 DEF Generation!Store
    <3>2. \A j \in Keys : maker[j] # None => maker'[j] = maker[j]
      BY <3>1
    <3> QED
      BY <2>1, <3>1, <3>2 DEF KeysAgree
  <2>3. ASSUME NEW k \in Keys, Generation!Hold(k)
        PROVE  KeysAgree'
    BY <2>3 DEF Generation!Hold, KeysAgree
  <2>4. ASSUME NEW s \in Sockets, Generation!Trust(s)
        PROVE  KeysAgree'
    BY <2>4 DEF Generation!Trust, KeysAgree
  <2>5. CASE UNCHANGED <<maker, held, trusted>>
    BY <2>5 DEF KeysAgree
  <2> QED
    BY <2>2, <2>3, <2>4, <2>5 DEF Generation!Next
<1> QED
  BY <1>1, <1>2, Invariant, PTL DEF Spec

-----------------------------------------------------------------------------
(* What the end of a revoked device's ceremonies rests on *)

\* A ceremony that runs has its reaper waiting.
Reaped == \A s \in Sockets : s \in Running => cer[s].armed

\* Nothing of a revoked device runs, nor is any of its messages handled.
Quiet(s) == s \in revoked /\ s \notin Running /\ h[s] = Nothing

LEMMA ReapedStep == ASSUME TypeInv, Reaped, [Next]_vars PROVE Reaped'
<1> USE Parts
<1>1. ASSUME NEW s \in Sockets, cer'[s] = Ended \/ cer'[s].armed,
             \A q \in Sockets \ {s} : cer'[q] = cer[q]
      PROVE  Reaped'
  BY <1>1 DEF Reaped, Running
<1>2. ASSUME cer' = cer PROVE Reaped'
  BY <1>2 DEF Reaped, Running
<1>3. ASSUME NEW s \in Sockets, Teardown(s) PROVE Reaped'
  BY <1>1, <1>3 DEF Teardown, TypeInv
<1>4. ASSUME NEW s \in Sockets, Create(s) \/ GuardThrows(s) \/ Round(s) PROVE Reaped'
  <2>1. CASE Create(s)
    BY <1>1, <2>1 DEF Create, TypeInv
  <2>2. CASE GuardThrows(s)
    <3> DEFINE c == [cer[s] EXCEPT !.mapped = FALSE]
    <3>1. c.step = cer[s].step /\ c.armed = cer[s].armed
      BY DEF TypeInv, Ceremonies
    <3>2. cer' = [cer EXCEPT ![s] = c]
      BY <2>2 DEF GuardThrows
    <3> HIDE DEF c
    <3>3. cer'[s] = c /\ \A q \in Sockets \ {s} : cer'[q] = cer[q]
      BY <3>2 DEF TypeInv
    <3> QED
      BY <3>1, <3>3 DEF Reaped, Running
  <2>3. CASE Round(s)
    <3> DEFINE c == [cer[s] EXCEPT !.step = cer[s].step + 1, !.armed = TRUE]
    <3>1. c.armed
      BY DEF TypeInv, Ceremonies
    <3>2. cer' = [cer EXCEPT ![s] = c]
      BY <2>3 DEF Round
    <3> HIDE DEF c
    <3> QED
      BY <1>1, <3>1, <3>2 DEF TypeInv
  <2> QED
    BY <1>4, <2>1, <2>2, <2>3
<1>5. ASSUME NEW s \in Sockets, CloseServerEnd(s) PROVE Reaped'
  BY <1>2, <1>3, <1>5 DEF CloseServerEnd, AbortMapped
<1>6. CASE Next
  <2>1. ASSUME NEW s \in Sockets, PageStep(s) PROVE Reaped'
    BY <1>2, <2>1 DEF PageStep, Connect, Start, Begin, Answer, Again, Result, Fail, server
  <2>2. ASSUME NEW s \in Sockets, HandlerStep(s) PROVE Reaped'
    BY <1>2, <1>3, <1>4, <1>5, <2>2 DEF HandlerStep, Check, WithinCap, Refuse, NotFound,
       RoundThrows, LastStep, Persist, LastStepThrows, Finish
  <2>3. ASSUME NEW s \in Sockets,
               Authenticate(s) \/ Disconnect(s) \/ Reap(s) \/ Revoke(s)
        PROVE  Reaped'
    BY <1>2, <1>3, <1>5, <2>3 DEF Authenticate, Disconnect, Reap, Revoke, server
  <2>4. CASE Restart
    BY <2>4 DEF Restart, Reaped, Running
  <2> QED
    BY <1>6, <2>1, <2>2, <2>3, <2>4 DEF Next
<1>7. CASE UNCHANGED vars
  BY <1>2, <1>7 DEF vars, server
<1> QED
  BY <1>6, <1>7

\* A ceremony that runs has a timer set that ends it, one a round refused by the
\* guard took out of the socket's map included.
THEOREM EveryCeremonyIsReaped == Spec => []Reaped
<1>1. Init => Reaped
  BY Parts DEF Init, Reaped, Running
<1>2. IInv /\ Reaped /\ [Next]_vars => Reaped'
  BY ReapedStep DEF IInv
<1> QED
  BY <1>1, <1>2, Invariant, PTL DEF Spec

LEMMA QuietStep ==
  ASSUME IInv, NEW s \in Sockets, Quiet(s), [Next]_vars
  PROVE  Quiet(s)'
<1> USE Parts
<1>1. s \in revoked /\ cer[s].step = 0 /\ h[s] = Nothing /\ TypeInv
  BY DEF Quiet, Running, IInv, TypeInv, Ceremonies
<1>2. ASSUME s \in revoked', cer'[s].step = 0, h'[s] = Nothing PROVE Quiet(s)'
  BY <1>2 DEF Quiet, Running
<1>3. ASSUME NEW q \in Sockets, Teardown(q) PROVE cer'[s].step = 0
  BY <1>1, <1>3 DEF Teardown, TypeInv
<1>4. ASSUME NEW q \in Sockets, CloseServerEnd(q) PROVE cer'[s].step = 0
  BY <1>1, <1>3, <1>4 DEF CloseServerEnd, AbortMapped
<1>5. ASSUME NEW q \in Sockets, PageStep(q) PROVE Quiet(s)'
  BY <1>1, <1>2, <1>5 DEF PageStep, Connect, Start, Begin, Answer, Again, Result, Fail,
     server
<1>6. ASSUME NEW q \in Sockets, HandlerStep(q) PROVE Quiet(s)'
  <2>1. CASE Check(q)
    <3>1. CASE SessionLive(q)
      BY <1>1, <1>2, <2>1, <3>1 DEF Check, SessionLive, TypeInv
    <3>2. CASE ~SessionLive(q)
      BY <1>1, <1>2, <1>4, <2>1, <3>2 DEF Check
    <3> QED
      BY <3>1, <3>2
  <2>2. CASE ~Check(q)
    <3>1. q # s
      BY <1>1, <1>6, <2>2 DEF HandlerStep, WithinCap, Refuse, Create, NotFound,
         GuardThrows, RoundThrows, Round, LastStep, Persist, LastStepThrows, Finish, Found
    <3>2. h'[s] = h[s] /\ revoked' = revoked
      BY <1>1, <1>6, <2>2, <3>1 DEF HandlerStep, WithinCap, Refuse, Create, NotFound,
         GuardThrows, RoundThrows, Round, LastStep, Persist, LastStepThrows, Finish,
         Reply, Reject, TypeInv
    <3>3. cer'[s].step = 0
      BY <1>1, <1>3, <1>6, <2>2, <3>1 DEF HandlerStep, WithinCap, Refuse, Create,
         NotFound, GuardThrows, RoundThrows, Round, LastStep, Persist, LastStepThrows,
         Finish, TypeInv
    <3> QED
      BY <1>1, <1>2, <3>2, <3>3
  <2> QED
    BY <2>1, <2>2
<1>7. ASSUME NEW q \in Sockets, Authenticate(q) \/ Disconnect(q) \/ Reap(q) \/ Revoke(q)
      PROVE  Quiet(s)'
  BY <1>1, <1>2, <1>3, <1>4, <1>7 DEF Authenticate, Disconnect, Reap, Revoke, server
<1>8. CASE Restart
  BY <1>1, <1>2, <1>8 DEF Restart
<1>9. CASE UNCHANGED vars
  BY <1>1, <1>2, <1>9 DEF vars, server
<1> QED
  BY <1>5, <1>6, <1>7, <1>8, <1>9 DEF Next

\* Once a revoked device has no ceremony and no message in a handler, it never
\* has one again: isSocketSessionLive comes before everything a handler does.
THEOREM RevokedStayQuiet == Spec => [][\A s \in Sockets : Quiet(s) => Quiet(s)']_vars
<1>1. IInv /\ [Next]_vars => [\A s \in Sockets : Quiet(s) => Quiet(s)']_vars
  BY QuietStep
<1> QED
  BY <1>1, Invariant, PTL DEF Spec
=============================================================================
