SPECIFICATION Spec
CONSTANTS
    legacy = legacy
    b1 = b1
    Banks = {legacy, b1}
    LegacyBank = legacy
    Temps = {t1, t2}
    Contents = {c1, c2}
    Processes = {p1, p2}
    Pages = {r1}
    MaxTurn <- Turns
    None = None
SYMMETRY Symmetry
INVARIANTS
    NeverPartial
    SavedStaysSaved
    TemporariesOwned
PROPERTIES
    ListingFailsOnlyOverDeleted
    KeepsStore
