\* A core loses its connection to the db and its client stays.
CONSTANTS
    NCore = 2
    k1 = k1
    k2 = k2
    Key = {k1, k2}
    MaxDesc = 2
    MaxAuth = 1
    MaxFault = 1
    MaxLogin = 2
    MaxOther = 1
    MaxLoad = 2
    MaxRequest = 5
    MaxObj = 4
SYMMETRY KeySymmetry
SPECIFICATION Spec
INVARIANT OneSessionEver
CHECK_DEADLOCK FALSE
