CONSTANTS
    i1 = i1  i2 = i2  c1 = c1  c2 = c2  r1 = r1  r2 = r2  b1 = b1  b2 = b2
    Invalid = Invalid
    Auths <- MCAuths
    Issuers <- MCIssuers
    ValidIssuers <- MCValidIssuers
    JWKSHttps <- MCJWKSHttps
    Claims <- MCClaims
    ValidClaims <- MCValidClaims
    Refs <- MCRefs
    Bundles <- MCBundles
    MaxEnvChanges = 2
    MaxAPIFailures = 1
    MaxNetFaults = 1
SPECIFICATION FairSpec
INVARIANT TypeOK ErrorNeverServed ReadyImpliesProbed
PROPERTY EventuallyConverged StatusForCurrentGeneration
