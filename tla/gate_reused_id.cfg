SPECIFICATION Spec
CONSTANTS
    None = None
    r1 = r1
    t1 = t1
    t2 = t2
    MaxPerson = 1
    Humans = {h1, h2}
    Users = {u1}
    Fingerprints = {f1}
    Tests = {t1}
    Revisions = {r1}
    TestOf <- OneTest
    MaxAttempts <- OneAttempt
    Sessions = {s1}
    Starts = {q1}
    LegacyTest = t1
PROPERTY AttemptBelongsToSitter
