---------------------------- MODULE ChildWallets ----------------------------
(***************************************************************************)
(* The child wallets of a business, of its cashiers and of its POS         *)
(* terminals, and the signed requests of the terminals:                    *)
(* apps/api/src/routes/business.ts and pos.ts, services/derivationIndex.ts *)
(* and middleware/withPos.ts, with the two forms of the web client.        *)
(*                                                                         *)
(* Both kinds of wallet are children m/i of the owner's one key.  A form   *)
(* asks for the next index, derives the address with the device and posts  *)
(* it; the handler inserts the row and then registers the child, without   *)
(* which no ceremony signs for it.  A form stands for a page and the       *)
(* request it leaves behind, so two tabs, a reload in the middle and a     *)
(* second manager are all two forms.  A terminal's request may be          *)
(* delivered more than once.                                               *)
(***************************************************************************)
EXTENDS Integers, FiniteSets, FiniteSetsExt

CONSTANTS
    Forms,      \* creations under way at a time
    Requests,   \* requests the terminals sign
    Handlers,   \* deliveries handled at a time
    Window,     \* POS_SIGNATURE_WINDOW_MS
    Ahead,      \* how far a terminal's clock may be ahead of the server's
    Delay,      \* how long a handler may take from the check to the nonce
    MaxIndex,   \* bound on the indexes
    MaxTime,    \* bound on the clock
    None

ASSUME ChildAssumption ==
    /\ {Window, Ahead, Delay, MaxIndex, MaxTime} \subseteq Nat
    /\ Ahead + Delay <= Window
    /\ None \notin Nat \cup Requests

VARIABLES
    members,    \* the indexes of the rows of business_members
    terminals,  \* status of the row of pos_devices of an index
    children,   \* the indexes of mpc_child_addresses
    keyed,      \* terminals whose key was handed out
    form,       \* where a form stands and the index it holds
    raced,      \* indexes that were given to a form while another held them
    now,        \* the server's clock
    signed,     \* the terminal and the timestamp of a request
    nonce,      \* when the nonce of a request expires, if it is stored
    accepted,   \* how many times a request passed the check of its nonce
    h           \* where a delivery stands and what it remembers

walletVars == <<members, children, keyed, form, raced>>
clockVars  == <<now, signed, nonce, accepted, h>>

vars == <<members, terminals, children, keyed, form, raced, now, signed, nonce,
          accepted, h>>

Indexes == 1 .. MaxIndex

Closed   == [at |-> "closed", kind |-> "none", index |-> 0]
Unsigned == [terminal |-> 0, time |-> None]
Idle     == [at |-> "idle", req |-> None, status |-> "none", since |-> 0]

Init ==
    /\ members = {}
    /\ terminals = [i \in Indexes |-> "none"]
    /\ children = {}
    /\ keyed = {}
    /\ form = [f \in Forms |-> Closed]
    /\ raced = {}
    /\ now = 0
    /\ signed = [q \in Requests |-> Unsigned]
    /\ nonce = [q \in Requests |-> None]
    /\ accepted = [q \in Requests |-> 0]
    /\ h = [p \in Handlers |-> Idle]

-----------------------------------------------------------------------------
(* InviteModal and CreatePosModal, and the requests they send *)

Rows == {i \in Indexes : terminals[i] # "none"}

\* Mutant of NextIndex: only the cashiers are counted.
NextIndexOfMembers == Max(members \cup {0}) + 1

\* getNextDerivationIndex: above every cashier and every terminal.
NextIndex == Max(members \cup Rows \cup {0}) + 1

\* The index is given out, and nothing is reserved.
GetNext(f, kind) ==
    /\ form[f].at = "closed"
    /\ NextIndex \in Indexes
    /\ form' = [form EXCEPT ![f] = [at |-> "derive", kind |-> kind,
                                    index |-> NextIndex]]
    /\ raced' = raced \cup {i \in {NextIndex} :
                              \E g \in Forms \ {f} : form[g].index = i}
    /\ UNCHANGED <<members, terminals, children, keyed, clockVars>>

\* The derivation fails, or the page is left.
Abandon(f) ==
    /\ form[f].at = "derive"
    /\ form' = [form EXCEPT ![f] = Closed]
    /\ UNCHANGED <<members, terminals, children, keyed, raced, clockVars>>

Registering(f) == form' = [form EXCEPT ![f] =
    [at |-> "register", kind |-> form[f].kind, index |-> form[f].index]]

\* POST /business/members/invite
Invite(f) ==
    /\ form[f].at = "derive" /\ form[f].kind = "cashier"
    /\ form[f].index \notin members
    /\ members' = members \cup {form[f].index}
    /\ Registering(f)
    /\ UNCHANGED <<terminals, children, keyed, raced, clockVars>>

\* POST /business/pos
CreateTerminal(f) ==
    /\ form[f].at = "derive" /\ form[f].kind = "terminal"
    /\ terminals[form[f].index] = "none"
    /\ terminals' = [terminals EXCEPT ![form[f].index] = "pending"]
    /\ Registering(f)
    /\ UNCHANGED <<members, children, keyed, raced, clockVars>>

\* The index is taken in the form's own table: the select before the insert
\* says so, or else its unique constraint.
IndexTaken(f) ==
    /\ form[f].at = "derive"
    /\ \/ form[f].kind = "cashier" /\ form[f].index \in members
       \/ form[f].kind = "terminal" /\ terminals[form[f].index] # "none"
    /\ form' = [form EXCEPT ![f] = Closed]
    /\ UNCHANGED <<members, terminals, children, keyed, raced, clockVars>>

\* registerChildAddress; a child that is registered stays as it was.  The
\* answer hands a terminal's key out, unless it is lost.
Register(f) ==
    /\ form[f].at = "register"
    /\ children' = children \cup {form[f].index}
    /\ \/ form[f].kind = "terminal" /\ keyed' = keyed \cup {form[f].index}
       \/ UNCHANGED keyed
    /\ form' = [form EXCEPT ![f] = Closed]
    /\ UNCHANGED <<members, terminals, raced, clockVars>>

\* Mutant of RegisterFails: the error is swallowed, and the key handed out.
RegisterFailsSilently(f) ==
    /\ form[f].at = "register"
    /\ keyed' = IF form[f].kind = "terminal" THEN keyed \cup {form[f].index} ELSE keyed
    /\ form' = [form EXCEPT ![f] = Closed]
    /\ UNCHANGED <<members, terminals, children, raced, clockVars>>

\* Mutant of RegisterFails: the terminal's row is marked instead.
RegisterFailsMarked(f) ==
    /\ form[f].at = "register"
    /\ terminals' = IF form[f].kind = "terminal"
                    THEN [terminals EXCEPT ![form[f].index] = "failed"]
                    ELSE terminals
    /\ form' = [form EXCEPT ![f] = Closed]
    /\ UNCHANGED <<members, children, keyed, raced, clockVars>>

\* The key is not read, the child is not registered, or it is and the answer
\* is lost.  A terminal's row is deleted when it was the registration that
\* failed, if the deletion does not fail as well; an invitation's is left.
RegisterFails(f) ==
    /\ form[f].at = "register"
    /\ \/ form[f].kind = "terminal"
            /\ terminals' = [terminals EXCEPT ![form[f].index] = "none"]
       \/ UNCHANGED terminals
    /\ children' \in {children, children \cup {form[f].index}}
    /\ form' = [form EXCEPT ![f] = Closed]
    /\ UNCHANGED <<members, keyed, raced, clockVars>>

-----------------------------------------------------------------------------
(* The lists of the owner *)

\* DELETE /business/members/:id, of an invitation that was not taken up: its
\* index is free again.
DeleteInvitation(i) ==
    /\ i \in members
    /\ members' = members \ {i}
    /\ UNCHANGED <<terminals, children, keyed, form, raced, clockVars>>

\* DELETE /business/pos/:id: the row and its index stay.
Revoke(i) ==
    /\ terminals[i] \in {"pending", "active"}
    /\ terminals' = [terminals EXCEPT ![i] = "revoked"]
    /\ UNCHANGED <<walletVars, clockVars>>

-----------------------------------------------------------------------------
(* The terminal, and verifyPos *)

\* A terminal has its key once its creation was answered.  Its clock may be
\* ahead, and a request may be delivered long after it was signed.
Sign(q, i, t) ==
    /\ signed[q] = Unsigned
    /\ i \in keyed
    /\ signed' = [signed EXCEPT ![q] = [terminal |-> i, time |-> t]]
    /\ UNCHANGED <<walletVars, terminals, now, nonce, accepted, h>>

\* The timestamp is within the window on either side.
Fresh(q) == signed[q].time - Window <= now /\ now <= signed[q].time + Window

\* The checks before the nonce; the status read is kept.
Verify(p, q) ==
    /\ h[p].at = "idle"
    /\ signed[q] # Unsigned
    /\ Fresh(q)
    /\ terminals[signed[q].terminal] \in {"pending", "active"}
    /\ h' = [h EXCEPT ![p] = [at |-> "nonce", req |-> q,
                              status |-> terminals[signed[q].terminal],
                              since |-> now]]
    /\ UNCHANGED <<walletVars, terminals, now, signed, nonce, accepted>>

\* Mutant of Expiry: one window instead of two.
ExpiryOneWindow == now + Window

Expiry == now + 2 * Window

\* The nonce is stored, and the request goes through.
Accept(p) ==
    /\ h[p].at = "nonce"
    /\ nonce[h[p].req] = None
    /\ nonce' = [nonce EXCEPT ![h[p].req] = Expiry]
    /\ accepted' = [accepted EXCEPT ![h[p].req] = @ + 1]
    /\ h' = [h EXCEPT ![p] = [at |-> "link", req |-> h[p].req,
                              status |-> h[p].status, since |-> h[p].since]]
    /\ UNCHANGED <<walletVars, terminals, now, signed>>

\* The nonce is a duplicate.
Replayed(p) ==
    /\ h[p].at = "nonce"
    /\ nonce[h[p].req] # None
    /\ h' = [h EXCEPT ![p] = Idle]
    /\ UNCHANGED <<walletVars, terminals, now, signed, nonce, accepted>>

\* The terminal is seen; it becomes active when it was read as pending,
\* whatever it is by now.
Link(p) ==
    /\ h[p].at = "link"
    /\ terminals' = IF h[p].status = "pending"
                    THEN [terminals EXCEPT ![signed[h[p].req].terminal] = "active"]
                    ELSE terminals
    /\ h' = [h EXCEPT ![p] = Idle]
    /\ UNCHANGED <<walletVars, now, signed, nonce, accepted>>

\* The reconciler's tick deletes the nonces that expired.
Prune ==
    /\ nonce' = [q \in Requests |-> IF nonce[q] # None /\ nonce[q] < now
                                    THEN None ELSE nonce[q]]
    /\ UNCHANGED <<walletVars, terminals, now, signed, accepted, h>>

Tick ==
    /\ now < MaxTime
    /\ \A p \in Handlers : h[p].at = "nonce" => now < h[p].since + Delay
    /\ now' = now + 1
    /\ UNCHANGED <<walletVars, terminals, signed, nonce, accepted, h>>

-----------------------------------------------------------------------------

FormStep(f) ==
    \/ \E kind \in {"cashier", "terminal"} : GetNext(f, kind)
    \/ Abandon(f) \/ Invite(f) \/ CreateTerminal(f) \/ IndexTaken(f)
    \/ Register(f) \/ RegisterFails(f)

Deliver(p) ==
    \/ \E q \in Requests : Verify(p, q)
    \/ Accept(p) \/ Replayed(p) \/ Link(p)

Next ==
    \/ \E f \in Forms : FormStep(f)
    \/ \E i \in Indexes : DeleteInvitation(i) \/ Revoke(i)
    \/ \E q \in Requests, i \in Indexes, t \in now .. now + Ahead : Sign(q, i, t)
    \/ \E p \in Handlers : Deliver(p)
    \/ Prune \/ Tick

Spec == Init /\ [][Next]_vars

-----------------------------------------------------------------------------
(* Properties *)

Times == 0 .. MaxTime + Ahead + 2 * Window

\* The tables, the forms and the deliveries hold values of their types.
TypeOK ==
    /\ members \subseteq Indexes
    /\ terminals \in [Indexes -> {"none", "pending", "active", "revoked"}]
    /\ children \subseteq Indexes
    /\ keyed \subseteq Indexes
    /\ raced \subseteq Indexes
    /\ form \in [Forms -> {Closed} \cup
                   [at : {"derive", "register"}, kind : {"cashier", "terminal"},
                    index : Indexes]]
    /\ now \in 0 .. MaxTime
    /\ signed \in [Requests -> {Unsigned} \cup
                     [terminal : Indexes, time : 0 .. MaxTime + Ahead]]
    /\ nonce \in [Requests -> {None} \cup Times]
    /\ accepted \in [Requests -> Nat]
    /\ h \in [Handlers -> {Idle} \cup
                [at : {"nonce", "link"}, req : Requests,
                 status : {"pending", "active"}, since : 0 .. MaxTime]]

\* A cashier and a terminal share a child wallet only when the index was
\* given to two creations that overlapped: the next index is above both
\* tables, and nothing but that stands against a collision between them.
NoSharedPath == \A i \in Indexes \ raced : i \notin members \/ terminals[i] = "none"

\* A terminal whose key was handed out, so that it can take payments, has its
\* row and its child registered, and what it collects can be moved: also when
\* other creations of its index failed, at any of their statements, or were
\* rolled back.
TerminalsAreSignable == \A i \in keyed : terminals[i] # "none" /\ i \in children

\* However often a request is delivered, and however the deletion of the
\* nonces falls, it goes through once: the nonce outlives the window in which
\* the request is fresh, for a clock that is ahead too.
RequestAcceptedOnce == \A q \in Requests : accepted[q] <= 1

\* The path of a key is a wallet of its own: does not hold, the cashier and
\* the terminal of two forms that overlap share it.
SharedByNobody == \A i \in Indexes : i \notin members \/ terminals[i] = "none"

\* pos.ts:131: the roll-back is there "so a failed registration doesn't leave
\* an orphan holding a derivation index with a key that only existed in the
\* browser".  Does not hold: getActiveMpcKey is awaited outside the try, and
\* the roll-back may fail.
NoOrphans ==
    \A i \in Indexes : terminals[i] # "none" =>
        \/ i \in keyed \/ i \in children
        \/ \E f \in Forms : form[f].at = "register" /\ form[f].index = i

\* Revoked is the last status of a terminal: does not hold, a request that
\* read the terminal pending makes it active again.
RevokedIsFinal ==
    [][\A i \in Indexes : terminals[i] = "revoked" => terminals'[i] # "active"]_vars
=============================================================================
