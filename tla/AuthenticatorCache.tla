-------------------------- MODULE AuthenticatorCache --------------------------
(***************************************************************************)
(* What the JWTAuthenticator cache filler promises the rest of the         *)
(* Concierge, whatever its queue, informers and status writes do: the      *)
(* authenticator cache (authncache) serves, for each authenticator, either *)
(* nothing or a token authenticator for an issuer and CA bundle that a     *)
(* network probe accepted, with claims that validate.  Probes only add to  *)
(* what is known to be valid; an entry is published or withdrawn one      *)
(* authenticator at a time.                                                *)
(***************************************************************************)
CONSTANTS Auths, Issuers, Bundles, Claims, ValidClaims

VARIABLES
    cache,      \* cache[a]: the entry served for authenticator a
    validated   \* the <<issuer, bundle>> pairs some probe accepted

Entry == [issuer : Issuers, claims : Claims, caHash : Bundles]
NoEntry == [none |-> TRUE]

Init ==
    /\ cache = [a \in Auths |-> NoEntry]
    /\ validated = {}

\* A probe of issuer i through bundle b succeeds.
Validate(i, b) ==
    /\ validated' = validated \cup {<<i, b>>}
    /\ UNCHANGED cache

\* Authenticator a starts serving entry e, which a probe vouched for.
Publish(a, e) ==
    /\ e \in Entry
    /\ <<e.issuer, e.caHash>> \in validated
    /\ e.claims \in ValidClaims
    /\ cache' = [cache EXCEPT ![a] = e]
    /\ UNCHANGED validated

\* Authenticator a stops being served.
Withdraw(a) ==
    /\ cache' = [cache EXCEPT ![a] = NoEntry]
    /\ UNCHANGED validated

Next ==
    \/ \E i \in Issuers, b \in Bundles : Validate(i, b)
    \/ \E a \in Auths, e \in Entry : Publish(a, e)
    \/ \E a \in Auths : Withdraw(a)

Spec == Init /\ [][Next]_<<cache, validated>>
==============================================================================
