SPECIFICATION UpgradeSpec
CONSTANTS
    None = None
    alice = alice
    bob = bob
    Persons <- Everyone
    Processes = {serve, migrate}
    OwnTests = {t1}
    Policies = {p1}
    Questions = {q1, q2}
    Accounts = {u1, u2}
    Scopes = {k1}
    Modes = {shell, jump}
    Shell = shell
    Current = 5
SYMMETRY Symmetry
INVARIANTS
    LegacyPassKept
    UpgradeSucceeds
PROPERTIES
    ResetIsFinal
    AccountsCertain
