SPECIFICATION FairSpec
CONSTANTS
    None = None
    LegacyBank = legacy
    Banks = {legacy, b1}
    Contents = {c1, c2}
    Tests = {t1}
    Settings = {x}
    WebJobs = {w1, w2}
    CliJobs = {}
INVARIANTS
    SavedTestHasItsBanks
    RevisionNamesItsBanks
PROPERTIES
    UsedBankKept
    PublishesCurrentDraft
    ImportNeverReplaces
    NoLostEdit
    ActsAtOnce
    LockReleased
