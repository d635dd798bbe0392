SPECIFICATION Spec
CONSTANTS
    Logins = {r1, r2, r3}
    Limit = 3
    Window = 3
    Block = 4
    Slow = 2
    Boot = 3
    MaxClock = 14
SYMMETRY SameLogins
INVARIANTS
    TypeOK
    BlockEnds
    LimitCoversWindow
PROPERTY BlockHolds
