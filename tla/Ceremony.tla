------------------------------ MODULE Ceremony ------------------------------
(***************************************************************************)
(* The MPC ceremonies a browser and the server run over a socket: the page *)
(* (MpcClient), the /mpc namespace with its count of live ceremonies, the  *)
(* Ceremony objects with their reaper, and the revocation of the device    *)
(* session a socket belongs to.                                            *)
(*                                                                         *)
(* A page opens a socket of its own for each operation and closes it after *)
(* so a socket has one ceremony at a time.  The cryptography is abstract:  *)
(* a round succeeds or fails.  One user; a socket is of one device.        *)
(***************************************************************************)
EXTENDS Integers, FiniteSets

CONSTANTS
    Sockets,
    Keys,
    Operations,  \* what pages do: "dkg", "sign", "derive"
    LastRound,   \* rounds of a ceremony: four
    PerUser,     \* MAX_CEREMONIES_PER_USER
    None

ASSUME CeremonyAssumption ==
    /\ Operations \subseteq { "dkg", "sign", "derive" }
    /\ LastRound \in Nat \ {0}
    /\ PerUser \in Nat \ {0}
    /\ IsFiniteSet(Sockets)
    /\ None \notin Sockets \cup Keys \cup Operations

VARIABLES
    page,      \* where an operation stands in the browser
    link,      \* the connection: which ends still know of it
    up,        \* the message under way to the server
    down,      \* the reply under way to the page
    h,         \* the server's handler of a message
    cer,       \* the Ceremony of the socket, while it runs
    live,      \* liveCeremoniesByUser
    revoked,   \* devices whose session was revoked
    maker,     \* the device a stored key was generated with
    held,      \* keys whose device share reached the page
    trusted    \* devices whose session became trusted

server == <<h, cer, live>>
wire == <<link, up, down>>
keys == <<maker, held, trusted>>
vars == <<page, wire, server, revoked, keys>>

Generation == INSTANCE KeyGeneration WITH Devices <- Sockets

Idle == [at |-> "idle", type |-> None, round |-> 0, left |-> 0]

\* A message to the server, and what its handler knows.
Nothing == [at |-> "none", type |-> None, round |-> 0, key |-> None]

Silence == [kind |-> "none", key |-> None]

Ended == [step |-> 0, mapped |-> FALSE, armed |-> FALSE]

Running == { s \in Sockets : cer[s].step > 0 }

Init ==
    /\ page = [s \in Sockets |-> Idle]
    /\ link = [s \in Sockets |-> "none"]
    /\ up = [s \in Sockets |-> Nothing]
    /\ down = [s \in Sockets |-> Silence]
    /\ h = [s \in Sockets |-> Nothing]
    /\ cer = [s \in Sockets |-> Ended]
    /\ live = 0
    /\ revoked = {}
    /\ Generation!Init

-----------------------------------------------------------------------------
(* The page *)

\* An operation begins on a socket of which nothing is left.  Signing takes a
\* device share; to derive is to sign twice.
Connect(s, t) ==
    /\ page[s].at = "idle"
    /\ link[s] = "none"
    /\ h[s] = Nothing
    /\ s \notin Running
    /\ t # "dkg" => held # {}
    /\ page' = [page EXCEPT ![s] = [Idle EXCEPT !.at = "connecting", !.type = t,
                                     !.left = IF t = "derive" THEN 2 ELSE 1]]
    /\ link' = [link EXCEPT ![s] = "handshake"]
    /\ UNCHANGED <<up, down, server, revoked, keys>>

\* The socket does not reconnect: what is sent on a closed one is lost.
Send(s, at, round) ==
    up' = IF link[s] = "open"
          THEN [up EXCEPT ![s] = [at |-> at, type |-> page[s].type,
                                  round |-> round, key |-> None]]
          ELSE up

\* startServerCeremony, once the socket is open and the device has started.
Start(s) ==
    /\ page[s].at = "connecting"
    /\ link[s] = "open"
    /\ page' = [page EXCEPT ![s].at = "starting"]
    /\ Send(s, "start", 0)
    /\ UNCHANGED <<link, down, server, revoked, keys>>

\* ceremony:started.  The first round goes out.
Begin(s) ==
    /\ page[s].at = "starting"
    /\ down[s].kind = "started"
    /\ page' = [page EXCEPT ![s].at = "waiting", ![s].round = 1]
    /\ Send(s, "round", 1)
    /\ down' = [down EXCEPT ![s] = Silence]
    /\ UNCHANGED <<link, server, revoked, keys>>

\* close() leaves the server's end to find out.
Hangup(s) ==
    /\ page' = [page EXCEPT ![s] = Idle]
    /\ link' = [link EXCEPT ![s] = IF @ = "open" THEN "cut" ELSE "none"]
    /\ down' = [down EXCEPT ![s] = Silence]

\* ceremony:message.  The device takes the server's round before and sends its
\* next one, ...
Answer(s) ==
    /\ page[s].at = "waiting"
    /\ down[s].kind = "answer"
    /\ page' = [page EXCEPT ![s].round = @ + 1]
    /\ Send(s, "round", page[s].round + 1)
    /\ down' = [down EXCEPT ![s] = Silence]
    /\ UNCHANGED <<link, server, revoked, keys>>

\* ... or has its result, which the first signature of two is not.
Again(s) ==
    /\ page[s].at = "waiting"
    /\ down[s].kind = "done"
    /\ page[s].left = 2
    /\ page' = [page EXCEPT ![s].at = "connecting", ![s].left = 1, ![s].round = 0]
    /\ down' = [down EXCEPT ![s] = Silence]
    /\ UNCHANGED <<link, up, server, revoked, keys>>

\* The device of a DKG has its share of the key.
Result(s) ==
    /\ page[s].at = "waiting"
    /\ down[s].kind = "done"
    /\ page[s].left = 1
    /\ held' = IF page[s].type = "dkg" THEN held \cup {down[s].key} ELSE held
    /\ Hangup(s)
    /\ UNCHANGED <<up, server, revoked, maker, trusted>>

\* Mutant of Fail: the page sends a round again when its answer is late.
Resend(s) ==
    /\ page[s].at = "waiting"
    /\ Send(s, "round", page[s].round)
    /\ UNCHANGED <<page, link, down, server, revoked, keys>>

\* A timeout, an error message, a disconnection, a throw of the worker or a
\* page that is left: the operation fails and its socket is closed.
Fail(s) ==
    /\ page[s].at # "idle"
    /\ Hangup(s)
    /\ UNCHANGED <<up, server, revoked, keys>>

-----------------------------------------------------------------------------
(* The Ceremony object.  Completed or aborted, it has ended. *)

\* Mutant of Teardown: the hook runs each time the ceremony is torn down.
TeardownAgain(s) ==
    /\ cer' = [cer EXCEPT ![s] = Ended]
    /\ live' = IF live > 0 THEN live - 1 ELSE 0

\* teardown.  Its one-shot hook drops the map's entry and gives the slot back.
Teardown(s) ==
    /\ cer' = [cer EXCEPT ![s] = Ended]
    /\ live' = IF s \in Running THEN live - 1 ELSE live

\* abort of what the socket's map holds; what it does not hold goes on.
AbortMapped(s) ==
    IF cer[s].mapped THEN Teardown(s) ELSE UNCHANGED <<cer, live>>

\* The reaper's timer fires.
Reap(s) ==
    /\ cer[s].armed
    /\ Teardown(s)
    /\ UNCHANGED <<page, wire, h, revoked, keys>>

-----------------------------------------------------------------------------
(* The /mpc namespace.  An error reply changes nothing a page does: it may
   fail at any time. *)

\* Mutant of SessionLive: a revoked session is one that exists.
SessionExists(s) == TRUE

\* What authMiddleware and isSocketSessionLive ask of the session.
SessionLive(s) == s \notin revoked

\* authMiddleware.  The page learns of a refusal.
Authenticate(s) ==
    /\ link[s] = "handshake"
    /\ link' = [link EXCEPT ![s] = IF SessionLive(s) THEN "open" ELSE "closed"]
    /\ UNCHANGED <<page, up, down, server, revoked, keys>>

\* The server's end closes, and aborts what runs there.
CloseServerEnd(s) ==
    /\ AbortMapped(s)
    /\ link' = [link EXCEPT ![s] = IF @ = "open" THEN "closed" ELSE "none"]
    /\ up' = [up EXCEPT ![s] = Nothing]

\* The handler of either message first asks whether the session is live;
\* killSocket when not.
Check(s) ==
    /\ up[s] # Nothing
    /\ h[s] = Nothing
    /\ IF SessionLive(s)
       THEN /\ h' = [h EXCEPT ![s] = up[s]]
            /\ up' = [up EXCEPT ![s] = Nothing]
            /\ UNCHANGED <<link, cer, live>>
       ELSE CloseServerEnd(s) /\ UNCHANGED h
    /\ UNCHANGED <<page, down, revoked, keys>>

\* A reply reaches a page that has not closed.
Reply(s, kind, key) ==
    /\ h' = [h EXCEPT ![s] = Nothing]
    /\ down' = IF link[s] = "open"
               THEN [down EXCEPT ![s] = [kind |-> kind, key |-> key]]
               ELSE down
    /\ UNCHANGED <<page, link, up, revoked>>

Reject(s) ==
    /\ h' = [h EXCEPT ![s] = Nothing]
    /\ UNCHANGED <<page, wire, revoked, keys>>

\* ceremony:start, the caps.  The rate limit is awaited next.
WithinCap(s) ==
    /\ h[s].at = "start"
    /\ live < PerUser
    /\ h' = [h EXCEPT ![s].at = "create"]
    /\ UNCHANGED <<page, wire, cer, live, revoked, keys>>

\* The cap, the rate limit or Ceremony.create refuses.
Refuse(s) ==
    /\ \/ h[s].at = "start" /\ live >= PerUser
       \/ h[s].at = "create"
    /\ Reject(s)
    /\ UNCHANGED <<cer, live>>

\* Mutant of Create: the reaper is armed by the first round.
CreateUnarmed(s) ==
    /\ h[s].at = "create"
    /\ cer' = [cer EXCEPT ![s] = [step |-> 1, mapped |-> TRUE, armed |-> FALSE]]
    /\ live' = live + 1
    /\ Reply(s, "started", None)
    /\ UNCHANGED keys

\* Ceremony.create, and the registration that nothing interrupts: the map, the
\* slot, the hook and the reaper.  The socket may be gone by now.
Create(s) ==
    /\ h[s].at = "create"
    /\ cer' = [cer EXCEPT ![s] = [step |-> 1, mapped |-> TRUE, armed |-> TRUE]]
    /\ live' = live + 1
    /\ Reply(s, "started", None)
    /\ UNCHANGED keys

\* The ceremony of the message is in the socket's map.
Found(s) == h[s].at = "round" /\ cer[s].mapped

InOrder(s) == h[s].round = cer[s].step

NotFound(s) ==
    /\ h[s].at = "round"
    /\ ~cer[s].mapped
    /\ Reject(s)
    /\ UNCHANGED <<cer, live>>

\* guard: out of order, or the clocks differ too much (expired,
\* expiry_too_far).  The map forgets a ceremony that is not torn down.
GuardThrows(s) ==
    /\ Found(s)
    /\ cer' = [cer EXCEPT ![s].mapped = FALSE]
    /\ Reject(s)
    /\ UNCHANGED live

\* The deadline has passed before the reaper ran, or the engine throws.
RoundThrows(s) ==
    /\ Found(s)
    /\ Teardown(s)
    /\ Reject(s)

\* A round before the last.
Round(s) ==
    /\ Found(s) /\ InOrder(s)
    /\ cer[s].step < LastRound
    /\ cer' = [cer EXCEPT ![s].step = @ + 1, ![s].armed = TRUE]
    /\ Reply(s, "answer", None)
    /\ UNCHANGED <<live, keys>>

\* The last round awaits: a DKG the database, a signature its assembly.
LastStep(s) ==
    /\ Found(s) /\ InOrder(s)
    /\ cer[s].step = LastRound
    /\ h' = [h EXCEPT ![s].at = IF h[s].type = "dkg" THEN "persist" ELSE "finish"]
    /\ UNCHANGED <<page, wire, cer, live, revoked, keys>>

\* Mutant of Persist: a failure is logged and the round answered.
PersistOrNot(s) ==
    /\ h[s].at = "persist"
    /\ \E k \in Keys : /\ Generation!Store(k, s) \/ UNCHANGED keys
                       /\ h' = [h EXCEPT ![s].at = "finish", ![s].key = k]
    /\ UNCHANGED <<page, wire, cer, live, revoked>>

\* persistServerKey: one transaction.
Persist(s) ==
    /\ h[s].at = "persist"
    /\ \E k \in Keys : /\ Generation!Store(k, s)
                       /\ h' = [h EXCEPT ![s].at = "finish", ![s].key = k]
    /\ UNCHANGED <<page, wire, cer, live, revoked>>

\* The transaction fails; the ceremony ends all the same.  Or the assembly
\* fails: an abort.
LastStepThrows(s) ==
    /\ \/ h[s].at = "persist"
       \/ h[s].at = "finish" /\ h[s].type # "dkg"
    /\ Teardown(s)
    /\ Reject(s)

\* Mutant of Finish: the result is not marked done.
FinishNotDone(s) ==
    /\ h[s].at = "finish"
    /\ Teardown(s)
    /\ Reply(s, "answer", h[s].key)
    /\ trusted' = IF h[s].type = "dkg" THEN trusted \cup {s} ELSE trusted
    /\ UNCHANGED <<maker, held>>

\* The ceremony ends as completed, even when it was aborted meanwhile.
Finish(s) ==
    /\ h[s].at = "finish"
    /\ Teardown(s)
    /\ Reply(s, "done", h[s].key)
    /\ trusted' = IF h[s].type = "dkg" THEN trusted \cup {s} ELSE trusted
    /\ UNCHANGED <<maker, held>>

\* The socket's disconnect handler, when the server finds out that the page or
\* the network has gone, or when disconnectSession drops the socket.
Disconnect(s) ==
    /\ link[s] \in {"open", "cut"}
    /\ CloseServerEnd(s)
    /\ UNCHANGED <<page, down, h, revoked, keys>>

-----------------------------------------------------------------------------

\* POST /devices/:id/revoke.  That it also drops the sockets it finds, best
\* effort, is a Disconnect.
Revoke(s) ==
    /\ s \notin revoked
    /\ revoked' = revoked \cup {s}
    /\ UNCHANGED <<page, wire, server, keys>>

\* The server restarts: what it keeps in memory is gone.
Restart ==
    /\ h' = [s \in Sockets |-> Nothing]
    /\ cer' = [s \in Sockets |-> Ended]
    /\ live' = 0
    /\ up' = [s \in Sockets |-> Nothing]
    /\ link' = [s \in Sockets |-> IF page[s].at = "idle" THEN "none" ELSE "closed"]
    /\ UNCHANGED <<page, down, revoked, keys>>

PageStep(s) ==
    \/ \E t \in Operations : Connect(s, t)
    \/ Start(s) \/ Begin(s) \/ Answer(s) \/ Again(s)
    \/ Result(s) \/ Fail(s)

HandlerStep(s) ==
    \/ Check(s) \/ WithinCap(s) \/ Refuse(s) \/ Create(s)
    \/ NotFound(s) \/ GuardThrows(s) \/ RoundThrows(s) \/ Round(s) \/ LastStep(s)
    \/ Persist(s) \/ LastStepThrows(s) \/ Finish(s)

Next ==
    \/ \E s \in Sockets : \/ PageStep(s) \/ HandlerStep(s)
                          \/ Authenticate(s) \/ Disconnect(s) \/ Reap(s) \/ Revoke(s)
    \/ Restart

Spec == Init /\ [][Next]_vars

\* A timer that was set and not cleared fires.
FairSpec == Spec /\ \A s \in Sockets : WF_vars(Reap(s))

-----------------------------------------------------------------------------
(* Properties *)

Message == [at : {"none", "start", "create", "round", "persist", "finish"},
            type : Operations \cup {None}, round : 0 .. LastRound,
            key : Keys \cup {None}]

TypeOK ==
    /\ page \in [Sockets -> [at : {"idle", "connecting", "starting", "waiting"},
                             type : Operations \cup {None},
                             round : 0 .. LastRound, left : 0 .. 2]]
    /\ link \in [Sockets -> {"none", "handshake", "open", "cut", "closed"}]
    /\ up \in [Sockets -> Message]
    /\ down \in [Sockets -> [kind : {"none", "started", "answer", "done"},
                             key : Keys \cup {None}]]
    /\ h \in [Sockets -> Message]
    /\ cer \in [Sockets -> [step : 0 .. LastRound, mapped : BOOLEAN,
                            armed : BOOLEAN]]
    /\ live \in Nat
    /\ revoked \subseteq Sockets
    /\ maker \in [Keys -> Sockets \cup {None}]
    /\ held \subseteq Keys
    /\ trusted \subseteq Sockets

\* ws/mpc.ts:36: the count of live ceremonies is "decremented exactly once on
\* teardown": it is the number of running ceremonies, whatever ends them.
SlotsMatch == live = Cardinality(Running)

\* A round of the page is the one its ceremony expects: neither replay nor
\* out_of_order ever refuses this client.
LockStep == \A s \in Sockets : Found(s) => InOrder(s)

\* The ceremonies of a revoked device come to an end, and no more begin.
RevokedEnds == \A s \in Sockets : s \in revoked ~> [](s \notin Running)

\* Server and device agree on the keys there are.
ImplementsKeyGeneration == Generation!Spec
=============================================================================
