SPECIFICATION Spec
CONSTANTS
    None = None
    Tabs = {a, b}
    Passwords = {pw1, pw2}
    Ttl = 1
    NoticeTtl = 1
    MaxClock = 2
    MaxSecret = 2
    MaxSession = 2
    MaxNotice = 2
SYMMETRY Symmetry
INVARIANTS
    SessionProvesPassword
    NoticeOnce
PROPERTIES
    ChangesAreAuthorized
    AnsweredUnlessExpired
