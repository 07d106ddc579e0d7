CONSTANTS
    c1 = c1  c2 = c2  a = a  b = b
    Clients = {c1, c2}
    Sections = {a, b}

SPECIFICATION FairSpec
INVARIANTS
    TypeOK
    LeavesPath
    SessionsAreSound
PROPERTIES
    AdmittedAsChecked
    EverythingEnds
CHECK_DEADLOCK FALSE
