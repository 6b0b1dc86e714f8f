------------------------- MODULE MC_JWTCacheFiller -------------------------
(* Small instances of the JWTAuthenticator cache filler for TLC. *)
EXTENDS JWTCacheFiller

CONSTANTS i1, i2, c1, c2, r1, r2, b1, b2

MCAuths == {1}
MCIssuers == {i1}
MCValidIssuers == {i1}
MCJWKSHttps == {i1}
MCClaims == {c1, c2}
MCValidClaims == {c1}
MCRefs == {r1}
MCBundles == {b1, b2}

=============================================================================
