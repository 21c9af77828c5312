\* One owner reloads the page before the kit is downloaded.
SPECIFICATION CustodySpec
CONSTANTS
    Users = {u1}
    Keys = {k1, k2}
    Gens = {g1}
    Nil = Nil
INVARIANTS
    SetupCanBeRedone
