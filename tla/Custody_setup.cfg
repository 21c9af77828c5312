\* Two owners share a browser; two generations may be under way, and what the
\* page holds may be lost at any time.
SPECIFICATION CustodySpec
CONSTANTS
    Users = {u1, u2}
    Keys = {k1, k2, k3}
    Gens = {g1, g2}
    Nil = Nil
SYMMETRY Symmetric
INVARIANTS
    CustodyTypeOK
    SavedHasKit
    RegisteredIsRecoverable
