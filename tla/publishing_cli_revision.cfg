SPECIFICATION Spec
CONSTANTS
    None = None
    LegacyBank = legacy
    Banks = {legacy, b1}
    Contents = {c1}
    Tests = {t1}
    Settings = {x}
    WebJobs = {w1}
    CliJobs = {p1}
INVARIANT RevisionNamesItsBanks
