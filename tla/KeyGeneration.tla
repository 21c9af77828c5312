---------------------------- MODULE KeyGeneration ----------------------------
(***************************************************************************)
(* What the ceremonies promise a user's devices about generated keys: the  *)
(* server stores its share before the device gets its own, only the device *)
(* that generated a key gets one, and a device is trusted for having       *)
(* generated a key.                                                        *)
(***************************************************************************)
CONSTANTS Keys, Devices, None

VARIABLES
    maker,   \* the device a stored key was generated with
    held,    \* keys whose device share reached that device
    trusted  \* devices trusted for it

vars == <<maker, held, trusted>>

Init ==
    /\ maker = [k \in Keys |-> None]
    /\ held = {}
    /\ trusted = {}

Store(k, d) ==
    /\ maker[k] = None
    /\ maker' = [maker EXCEPT ![k] = d]
    /\ UNCHANGED <<held, trusted>>

Hold(k) ==
    /\ maker[k] # None
    /\ k \notin held
    /\ held' = held \cup {k}
    /\ UNCHANGED <<maker, trusted>>

Trust(d) ==
    /\ \E k \in Keys : maker[k] = d
    /\ trusted' = trusted \cup {d}
    /\ UNCHANGED <<maker, held>>

Next ==
    \/ \E k \in Keys : Hold(k) \/ \E d \in Devices : Store(k, d)
    \/ \E d \in Devices : Trust(d)

Spec == Init /\ [][Next]_vars
=============================================================================
