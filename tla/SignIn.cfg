SPECIFICATION MCSpec
CONSTANTS
    Parts = {"codes", "accounts", "sessions"}
    Emails = {e1, e2}
    Phones = {p1, p2}
    Recipients = {e1, p1}
    Codes = {c1, c2}
    Guesses = {g1, g2, g3}
    MaxCodeAttempts = 2
    MaxLost = 1
    Accounts = {a1, a2}
    Proofs = {k1, k2}
    Tokens = {c1, c2}
    Links = {l1}
    Members = {m1, m2, m3}
    PhoneOnly = {m3}
    Requests = {c1, c2}
    MaxSessionClock = 2
SYMMETRY MCSymmetry
CHECK_DEADLOCK FALSE
INVARIANTS MCTypeOK GuessesBounded OneLiveCode AdminRights
PROPERTIES OnlyADeliveryBurns LastDoorKept ProofNotTaken NeverAdopted
