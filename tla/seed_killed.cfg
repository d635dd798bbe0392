SPECIFICATION Spec
CONSTANTS
    None = None
    alice = alice
    bob = bob
    Persons <- Everyone
    Processes = {serve}
    OwnTests = {}
    Policies = {p1}
    Questions = {q1}
INVARIANT StartCarriesPasses
