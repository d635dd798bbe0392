SPECIFICATION Spec
CONSTANTS
    None = None
    r1 = r1
    t1 = t1
    t2 = t2
    MaxPerson = 1
    Humans = {h1}
    Users = {u1}
    Fingerprints = {f1}
    Tests = {t1, t2}
    Revisions = {r1, r2, r3}
    TestOf <- TwoTests
    MaxAttempts <- OneAttempt
    Sessions = {s1}
    Starts = {q1}
    LegacyTest = t1
INVARIANTS
    TypeOK
    PassIsOneAttempt
    RevisionsPublished
PROPERTIES
    PassKept
    ShellNeedsCurrentPass
    KeepsPromise
