\* One owner, two keys to generate.
SPECIFICATION CustodySpec
CONSTANTS
    Users = {u1}
    Keys = {k1, k2}
    Gens = {g1}
    Nil = Nil
INVARIANTS
    OneKeyPerUser
