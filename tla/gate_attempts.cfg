SPECIFICATION Spec
CONSTANTS
    None = None
    r1 = r1
    t1 = t1
    t2 = t2
    MaxPerson = 2
    Humans = {h1}
    Users = {u1}
    Fingerprints = {f1}
    Tests = {t1}
    Revisions = {r1}
    TestOf <- OneTest
    MaxAttempts <- TwoAttempts
    Sessions = {s1, s2}
    Starts = {}
    LegacyTest = t1
SYMMETRY SameSessions
INVARIANTS
    AttemptLimit
    FreeIdIsClean
    AccountUnique
PROPERTIES
    NoAttemptAfterPass
