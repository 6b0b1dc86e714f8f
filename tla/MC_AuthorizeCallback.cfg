CONSTANTS
    user = user
    evil = evil
    n1 = n1
    o1 = o1
    o2 = o2
    t1 = t1
    t2 = t2
    t3 = t3
    noIDP = noIDP
    none = none
    noName = noName
    Browsers <- MCBrowsers
    Attacker = evil
    Names <- MCNames
    IDPObjs <- MCIDPObjs
    Tokens <- MCTokens
    Requests <- MCRequests
    NoIDP = noIDP
    None = none
    NoName = noName
    MaxAuthorize = 3
    MaxCodes = 2
    MaxCallbacks = 2
    MaxAdmin = 1
SPECIFICATION Spec
SYMMETRY MCSymmetry
INVARIANT TypeOK NoLoginCSRF
CHECK_DEADLOCK FALSE
