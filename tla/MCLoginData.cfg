\* Two cores and two clients of an account that authenticates twice; one fault.
CONSTANTS
    NCore = 2
    k1 = k1
    k2 = k2
    Key = {k1, k2}
    MaxDesc = 2
    MaxAuth = 2
    MaxFault = 1
    MaxLogin = 2
    MaxOther = 1
    MaxLoad = 2
    MaxRequest = 5
    MaxObj = 4
SYMMETRY KeySymmetry
SPECIFICATION Spec
INVARIANTS
    TypeOK
    NoDangling
    OneSession
    HolderIsLoggedOn
    NoOrphanLogon
    PlayingIsKept
CHECK_DEADLOCK FALSE
