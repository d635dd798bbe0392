SPECIFICATION Spec
CONSTANTS
    None = None
    alice = alice
    bob = bob
    Persons <- Everyone
    Processes = {serve}
    OwnTests = {t1}
    Policies = {p1}
    Questions = {q1}
INVARIANT CarriedToLegacy
