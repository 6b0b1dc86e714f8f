--------------------------- MODULE JWTCacheFiller ---------------------------
(***************************************************************************)
(* The Concierge's JWTAuthenticator cache-filler controller               *)
(* (internal/controller/authenticator/jwtcachefiller/jwtcachefiller.go).  *)
(*                                                                         *)
(* One controller worker drains a singleton work queue.  A pass (Sync)    *)
(* lists every JWTAuthenticator from the informer, sorts them by name and *)
(* runs syncIndividualJWTAuthenticator on each.  That function is split   *)
(* at its two blocking points: the network probes of                      *)
(* doExpensiveValidations and the status write of updateStatus.  Between  *)
(* those steps the administrator may edit the spec, the status or a CA    *)
(* bundle, the issuer's server may go down or rotate its certificate, and *)
(* informers deliver what the API server holds later than it happened.    *)
(*                                                                         *)
(* Data is abstract: an issuer URL, a claims configuration (audience,     *)
(* claim mappings and validation rules) and a CA bundle are model values; *)
(* which of them pass the code's checks is given by constant subsets.     *)
(***************************************************************************)
EXTENDS Naturals, FiniteSets

CONSTANTS
    Auths,          \* names of JWTAuthenticator objects (sorted as numbers)
    Issuers,        \* spec.issuer values
    ValidIssuers,   \* issuers that pass validateIssuer (https, no query ...)
    JWKSHttps,      \* issuers whose discovery document has an https jwks_uri
    Claims,         \* audience + claims + validation rules of a spec
    ValidClaims,    \* those that ValidateAuthenticationConfiguration accepts
    Refs,           \* spec.tls sources (inline data, Secret, ConfigMap)
    Bundles,        \* CA bundle contents that parse
    Invalid,        \* a CA bundle source that does not hold a usable bundle
    MaxEnvChanges,  \* bound on administrator and network events
    MaxAPIFailures, \* bound on failed UpdateStatus calls for other reasons
    MaxNetFaults    \* bound on single JWKS fetches that time out

ASSUME AuthsAssumption == Auths \subseteq Nat /\ Auths # {} /\ IsFiniteSet(Auths)
ASSUME IssuersAssumption == ValidIssuers \subseteq Issuers /\ JWKSHttps \subseteq Issuers
ASSUME ClaimsAssumption == ValidClaims \subseteq Claims
ASSUME NonEmptyAssumption == Issuers # {} /\ Claims # {} /\ Refs # {}
ASSUME BundlesAssumption == Invalid \notin Bundles /\ Bundles # {}
ASSUME BoundsAssumption ==
    MaxEnvChanges \in Nat /\ MaxAPIFailures \in Nat /\ MaxNetFaults \in Nat

VARIABLES
    obj,        \* obj[a]: the JWTAuthenticator held by the API server
    seen,       \* seen[a]: the JWTAuthenticator informer's copy
    caSrv,      \* caSrv[r]: the CA bundle the Secret/ConfigMap r holds
    caSeen,     \* caSeen[r]: the Secret/ConfigMap informers' copy
    up,         \* up[i]: the issuer's server answers
    serverCA,   \* serverCA[i]: the CA bundle that verifies i's certificate
    cache,      \* cache[a]: the authncache entry for a, or NoEntry
    queued,     \* the singleton work-queue key is queued
    stage,      \* where the worker is: idle, select, probe or finish
    pending,    \* authenticators not yet synced in this pass
    cur,        \* the locals of the syncIndividualJWTAuthenticator running
    passErr,    \* some sync of this pass returned an error
    envChanges, apiFailures, netFaults, \* counters for the bounds above
    verdict,    \* history: what the last finished sync of a concluded
    probedOK    \* history: <<issuer, bundle>> pairs whose probes succeeded

vars == <<obj, seen, caSrv, caSeen, up, serverCA, cache, queued, stage,
          pending, cur, passErr, envChanges, apiFailures, netFaults,
          verdict, probedOK>>
envVars == <<caSrv, up, serverCA>>
budgetVars == <<envChanges, apiFailures, netFaults>>

-----------------------------------------------------------------------------
(* Values *)

BundleVals == Bundles \cup {Invalid}
CondTypes == {"TLSConfigurationValid", "IssuerURLValid", "DiscoveryURLValid",
              "JWKSURLValid", "JWKSFetchValid", "AuthenticatorValid"}
CondStatus == {"True", "False", "Unknown"}
Phases == {"Pending", "Ready", "Error"}

AuthSpec == [issuer : Issuers, claims : Claims, tls : Refs]
\* The status as written by updateStatus; conditions absent before the first write.
Status == [phase : Phases, gen : Nat, conds : [CondTypes -> CondStatus \cup {"None"}]]
NoConds == [t \in CondTypes |-> "None"]
Object == [spec : AuthSpec, gen : Nat, status : Status, rv : Nat]

\* Writes to the API server: each one moves the resourceVersion.
WithStatus(o, st) == [spec |-> o.spec, gen |-> o.gen, status |-> st, rv |-> o.rv + 1]
WithSpec(o, s) == [spec |-> s, gen |-> o.gen + 1, status |-> o.status, rv |-> o.rv + 1]

\* A cachedJWTAuthenticator: the spec fields it was built from and the CA hash.
Entry == [issuer : Issuers, claims : Claims, caHash : Bundles]
NoEntry == [none |-> TRUE]
EntryOf_tlsRef(s, b) == [issuer |-> s.issuer, claims |-> s.claims, caHash |-> s.tls]
EntryOf(s, b) == [issuer |-> s.issuer, claims |-> s.claims, caHash |-> b]

Verdict == [phase : {"Ready", "Error"}, issuer : Issuers, claims : Claims, bundle : BundleVals]
NoVerdict == [none |-> TRUE]

Stages == {"idle", "select", "probe", "finish"}
Cur == [a : Auths, obj : Object, bundle : BundleVals, tlsOk : BOOLEAN,
        issuerOk : BOOLEAN, found : BOOLEAN, conds : [CondTypes -> CondStatus],
        built : BOOLEAN, errs : BOOLEAN]

-----------------------------------------------------------------------------
(* Helpers translated from the controller *)

\* conditionsutil.HadErrorCondition: some condition is not True.
HadErrorCondition(conds) == \E t \in CondTypes : conds[t] # "True"

\* A probe of issuer i trusting bundle b gets a TLS connection through.
Reachable(i, b) == up[i] /\ serverCA[i] = b

\* The spec-derived fields the cache compares, with the resolved CA hash.
havePreviouslyValidated_noHash(a, s, tlsOk, b) ==
    /\ cache[a] # NoEntry
    /\ cache[a].issuer = s.issuer
    /\ cache[a].claims = s.claims
    /\ tlsOk
havePreviouslyValidated(a, s, tlsOk, b) ==
    /\ cache[a] # NoEntry
    /\ cache[a].issuer = s.issuer
    /\ cache[a].claims = s.claims
    /\ tlsOk
    /\ cache[a].caHash = b

\* The shape every validator shares: Unknown when a prerequisite failed,
\* otherwise True or False by its own check.
StepCond(prereqOk, ok) == IF ~prereqOk THEN "Unknown" ELSE IF ok THEN "True" ELSE "False"

\* validateProviderDiscovery: the discovery GET succeeds through a client
\* that trusts only bundle b.
DiscoveryOK(s, b) == Reachable(s.issuer, b)
\* validateProviderJWKSURL: the discovery document names an https jwks_uri.
JWKSURLOK(s) == s.issuer \in JWKSHttps
\* validateJWKSFetch: fetching the key set does not fail.
JWKSFetchOK(fetchFails) == ~fetchFails
\* Mutant: the authenticator is built without validating the claims.
AuthenticatorOK_noClaimCheck(s) == TRUE
\* newCachedJWTAuthenticator: the claims configuration validates.
AuthenticatorOK(s) == s.claims \in ValidClaims

\* doExpensiveValidations: each validator runs when every earlier one passed.
ExpensiveConds(okSoFar, s, b, fetchFails) ==
    LET ok1 == okSoFar /\ DiscoveryOK(s, b)
        ok2 == ok1 /\ JWKSURLOK(s)
        ok3 == ok2 /\ JWKSFetchOK(fetchFails)
    IN [DiscoveryURLValid |-> StepCond(okSoFar, ok1),
        JWKSURLValid |-> StepCond(ok1, ok2),
        JWKSFetchValid |-> StepCond(ok2, ok3),
        AuthenticatorValid |-> StepCond(ok3, AuthenticatorOK(s))]

CheapConds(tlsOk, issuerOk) ==
    [TLSConfigurationValid |-> IF tlsOk THEN "True" ELSE "False",
     IssuerURLValid |-> IF issuerOk THEN "True" ELSE "False"]

AllConds(cheap, expensive) ==
    [t \in CondTypes |-> IF t \in DOMAIN cheap THEN cheap[t] ELSE expensive[t]]

SkippedConds ==
    [DiscoveryURLValid |-> "True", JWKSURLValid |-> "True",
     JWKSFetchValid |-> "True", AuthenticatorValid |-> "True"]

\* No condition computed yet.
UnknownConds == [t \in CondTypes |-> "Unknown"]

StatusFor(conds, gen) ==
    [phase |-> IF HadErrorCondition(conds) THEN "Error" ELSE "Ready",
     gen |-> gen, conds |-> conds]

\* The worker's locals before its first sync (never read while idle).
IdleCur ==
    [a |-> CHOOSE x \in Auths : TRUE,
        obj |-> [spec |-> CHOOSE s \in AuthSpec : TRUE, gen |-> 0,
                 status |-> [phase |-> "Pending", gen |-> 0, conds |-> NoConds],
                 rv |-> 0],
        bundle |-> Invalid, tlsOk |-> FALSE,
        issuerOk |-> FALSE, found |-> FALSE,
     conds |-> UnknownConds, built |-> FALSE, errs |-> FALSE]

-----------------------------------------------------------------------------
Init ==
    /\ \E s \in [Auths -> AuthSpec] :
          obj = [a \in Auths |-> [spec |-> s[a], gen |-> 1,
                   status |-> [phase |-> "Pending", gen |-> 0, conds |-> NoConds],
                   rv |-> 1]]
    /\ seen = obj
    /\ caSrv \in [Refs -> BundleVals]
    /\ caSeen = caSrv
    /\ up \in [Issuers -> BOOLEAN]
    /\ serverCA \in [Issuers -> Bundles]
    /\ cache = [a \in Auths |-> NoEntry]
    /\ queued = TRUE
    /\ stage = "idle"
    /\ pending = {}
    /\ cur = IdleCur
    /\ passErr = FALSE
    /\ envChanges = 0 /\ apiFailures = 0 /\ netFaults = 0
    /\ verdict = [a \in Auths |-> NoVerdict]
    /\ probedOK = {}

-----------------------------------------------------------------------------
(* The controller *)

\* Sync: list all JWTAuthenticators and start a pass over them.
Sync ==
    /\ stage = "idle" /\ queued
    /\ queued' = FALSE
    /\ pending' = Auths
    /\ passErr' = FALSE
    /\ stage' = "select"
    /\ UNCHANGED <<obj, seen, envVars, caSeen, cache, cur, budgetVars,
                   verdict, probedOK>>

\* syncIndividualJWTAuthenticator up to its branch on the validation cache:
\* the cheap checks on the informers' copies, then havePreviouslyValidated.
BeginSyncIndividual ==
    /\ stage = "select"
    /\ \E a \in pending :
       /\ \A y \in pending : a <= y
       /\ LET o == seen[a]
              b == caSeen[o.spec.tls]
              tlsOk == b # Invalid
              issuerOk == o.spec.issuer \in ValidIssuers
              skip == havePreviouslyValidated(a, o.spec, tlsOk, b)
          IN /\ cur' = [a |-> a, obj |-> o, bundle |-> b, tlsOk |-> tlsOk,
                        issuerOk |-> issuerOk, found |-> cache[a] # NoEntry,
                        conds |-> IF skip
                                  THEN AllConds(CheapConds(tlsOk, issuerOk), SkippedConds)
                                  ELSE UnknownConds,
                        built |-> FALSE, errs |-> FALSE]
             /\ stage' = IF skip THEN "finish" ELSE "probe"
    /\ UNCHANGED <<obj, seen, envVars, caSeen, cache, queued, pending, passErr,
                   budgetVars, verdict, probedOK>>

\* doExpensiveValidations: discovery, jwks_uri, JWKS fetch, authenticator.
DoExpensiveValidations ==
    /\ stage = "probe"
    /\ \E fetchFails \in IF netFaults < MaxNetFaults THEN BOOLEAN ELSE {FALSE} :
         LET s == cur.obj.spec
             b == cur.bundle
             okSoFar == cur.tlsOk /\ cur.issuerOk
             exp == ExpensiveConds(okSoFar, s, b, fetchFails)
             conds == AllConds(CheapConds(cur.tlsOk, cur.issuerOk), exp)
             errs == \/ exp.DiscoveryURLValid = "False"
                     \/ exp.JWKSURLValid = "False"
                     \/ exp.JWKSFetchValid = "False"
             built == exp.AuthenticatorValid = "True"
         IN /\ cur' = [cur EXCEPT !.conds = conds, !.built = built, !.errs = errs]
            /\ probedOK' = IF built THEN probedOK \cup {<<s.issuer, b>>} ELSE probedOK
            /\ netFaults' = IF fetchFails THEN netFaults + 1 ELSE netFaults
    /\ stage' = "finish"
    /\ UNCHANGED <<obj, seen, envVars, caSeen, cache, queued, pending, passErr,
                   envChanges, apiFailures, verdict>>

\* Lines 272-281: an invalid authenticator leaves the cache before the
\* status write is even tried.
RemoveIfInvalid_afterWrite(c, k, updateOK) ==
    IF ~HadErrorCondition(k.conds) \/ ~updateOK THEN c
    ELSE [c EXCEPT ![k.a] = NoEntry]
RemoveIfInvalid(c, k, updateOK) ==
    IF ~HadErrorCondition(k.conds) THEN c ELSE [c EXCEPT ![k.a] = NoEntry]

\* Lines 287-292: a newly built, valid authenticator is stored only when the
\* status update succeeded.
StoreIfWritten_onlyNew(c, k, updateOK) ==
    IF k.built /\ ~HadErrorCondition(k.conds) /\ updateOK /\ ~k.found
    THEN [c EXCEPT ![k.a] = EntryOf(k.obj.spec, k.bundle)]
    ELSE c
StoreIfWritten(c, k, updateOK) ==
    IF k.built /\ ~HadErrorCondition(k.conds) /\ updateOK
    THEN [c EXCEPT ![k.a] = EntryOf(k.obj.spec, k.bundle)]
    ELSE c

\* updateStatus: no call when the informer copy already holds this status;
\* otherwise UpdateStatus, which the API server refuses when the object's
\* resourceVersion moved since the informer copy was taken.
NeedsWrite(k) == StatusFor(k.conds, k.obj.gen) # k.obj.status
\* Mutant: a write that does not carry the resourceVersion (as a patch would).
UpdateSucceeds_noConflict(k, apiFail) == ~NeedsWrite(k) \/ ~apiFail
UpdateSucceeds(k, apiFail) ==
    \/ ~NeedsWrite(k)
    \/ obj[k.a].rv = k.obj.rv /\ ~apiFail

\* The error syncIndividualJWTAuthenticator returns (lines 283-299): the
\* errors of the expensive validations aggregated with the status write's.
\* Mutant: the status write's error is not appended to errs.
SyncError_dropUpdateErr(k, updateOK) == k.errs
SyncError(k, updateOK) == k.errs \/ ~updateOK

\* The rest of syncIndividualJWTAuthenticator, with updateStatus, and, after
\* the last authenticator, the end of Sync: an aggregated error requeues.
FinishSyncIndividual ==
    /\ stage = "finish"
    /\ \E apiFail \in IF NeedsWrite(cur) /\ apiFailures < MaxAPIFailures
                      THEN BOOLEAN ELSE {FALSE} :
       LET a == cur.a
           newStatus == StatusFor(cur.conds, cur.obj.gen)
           updateOK == UpdateSucceeds(cur, apiFail)
       IN /\ obj' = IF NeedsWrite(cur) /\ updateOK
                    THEN [obj EXCEPT ![a] = WithStatus(obj[a], newStatus)]
                    ELSE obj
          /\ cache' = StoreIfWritten(RemoveIfInvalid(cache, cur, updateOK), cur, updateOK)
          /\ apiFailures' = IF apiFail THEN apiFailures + 1 ELSE apiFailures
          /\ verdict' = [verdict EXCEPT ![a] =
                           [phase |-> newStatus.phase, issuer |-> cur.obj.spec.issuer,
                            claims |-> cur.obj.spec.claims, bundle |-> cur.bundle]]
          /\ pending' = pending \ {a}
          /\ cur' = IdleCur
          /\ passErr' = (passErr \/ SyncError(cur, updateOK))
          /\ IF pending' = {}
             THEN /\ stage' = "idle"
                  /\ queued' = (queued \/ passErr')
             ELSE /\ stage' = "select"
                  /\ UNCHANGED queued
    /\ UNCHANGED <<seen, envVars, caSeen, envChanges, netFaults, probedOK>>

-----------------------------------------------------------------------------
(* The informers and the periodic resync: each delivery enqueues the key. *)

InformerDeliverAuthenticator(a) ==
    /\ seen[a] # obj[a]
    /\ seen' = [seen EXCEPT ![a] = obj[a]]
    /\ queued' = TRUE
    /\ UNCHANGED <<obj, envVars, caSeen, cache, stage, pending, cur, passErr,
                   budgetVars, verdict, probedOK>>

InformerDeliverBundle(r) ==
    /\ caSeen[r] # caSrv[r]
    /\ caSeen' = [caSeen EXCEPT ![r] = caSrv[r]]
    /\ queued' = TRUE
    /\ UNCHANGED <<obj, seen, envVars, cache, stage, pending, cur, passErr,
                   budgetVars, verdict, probedOK>>

Resync ==
    /\ ~queued
    /\ queued' = TRUE
    /\ UNCHANGED <<obj, seen, envVars, caSeen, cache, stage, pending, cur,
                   passErr, budgetVars, verdict, probedOK>>

-----------------------------------------------------------------------------
(* The environment, bounded by MaxEnvChanges. *)

EnvStep ==
    /\ envChanges < MaxEnvChanges
    /\ envChanges' = envChanges + 1
    /\ UNCHANGED <<seen, caSeen, cache, queued, stage, pending, cur, passErr,
                   apiFailures, netFaults, verdict, probedOK>>

\* The administrator edits a spec: a new generation and resourceVersion.
EditSpec(a, s) ==
    /\ EnvStep
    /\ s # obj[a].spec
    /\ obj' = [obj EXCEPT ![a] = WithSpec(obj[a], s)]
    /\ UNCHANGED envVars

\* Someone overwrites the status by hand (as the integration test does).
EditStatus(a) ==
    /\ EnvStep
    /\ obj[a].status.phase # "Pending"
    /\ obj' = [obj EXCEPT ![a] = WithStatus(obj[a], [obj[a].status EXCEPT !.phase = "Pending"])]
    /\ UNCHANGED envVars

EditBundle(r, b) ==
    /\ EnvStep
    /\ b # caSrv[r]
    /\ caSrv' = [caSrv EXCEPT ![r] = b]
    /\ UNCHANGED <<obj, up, serverCA>>

ServerUpDown(i) ==
    /\ EnvStep
    /\ up' = [up EXCEPT ![i] = ~@]
    /\ UNCHANGED <<obj, caSrv, serverCA>>

RotateServerCert(i, b) ==
    /\ EnvStep
    /\ b # serverCA[i]
    /\ serverCA' = [serverCA EXCEPT ![i] = b]
    /\ UNCHANGED <<obj, caSrv, up>>

Environment ==
    \/ \E a \in Auths, s \in AuthSpec : EditSpec(a, s)
    \/ \E a \in Auths : EditStatus(a)
    \/ \E r \in Refs, b \in BundleVals : EditBundle(r, b)
    \/ \E i \in Issuers : ServerUpDown(i)
    \/ \E i \in Issuers, b \in Bundles : RotateServerCert(i, b)

Controller ==
    \/ Sync
    \/ BeginSyncIndividual
    \/ DoExpensiveValidations
    \/ FinishSyncIndividual

Informers ==
    \/ \E a \in Auths : InformerDeliverAuthenticator(a)
    \/ \E r \in Refs : InformerDeliverBundle(r)

Next == Controller \/ Informers \/ Resync \/ Environment

\* The worker goroutine, the watches and the resync timer all keep running.
Fairness ==
    /\ WF_vars(Controller)
    /\ \A a \in Auths : WF_vars(InformerDeliverAuthenticator(a))
    /\ \A r \in Refs : WF_vars(InformerDeliverBundle(r))
    /\ WF_vars(Resync)

\* The same without the resync: only errors and watch events requeue.
FairnessWithoutResync ==
    /\ WF_vars(Controller)
    /\ \A a \in Auths : WF_vars(InformerDeliverAuthenticator(a))
    /\ \A r \in Refs : WF_vars(InformerDeliverBundle(r))

SpecNoFairness == Init /\ [][Next]_vars
FairSpec == SpecNoFairness /\ Fairness
RetrySpec == SpecNoFairness /\ FairnessWithoutResync

-----------------------------------------------------------------------------
(* Properties *)

\* Every variable holds a value of its type: objects, bundles, cache entries,
\* the worker's stage and locals, and the bounded counters.
TypeOK ==
    /\ obj \in [Auths -> Object]
    /\ seen \in [Auths -> Object]
    /\ caSrv \in [Refs -> BundleVals]
    /\ caSeen \in [Refs -> BundleVals]
    /\ up \in [Issuers -> BOOLEAN]
    /\ serverCA \in [Issuers -> Bundles]
    /\ cache \in [Auths -> Entry \cup {NoEntry}]
    /\ queued \in BOOLEAN
    /\ stage \in Stages
    /\ pending \subseteq Auths
    /\ cur \in Cur
    /\ passErr \in BOOLEAN
    /\ envChanges \in 0..MaxEnvChanges
    /\ apiFailures \in 0..MaxAPIFailures
    /\ netFaults \in 0..MaxNetFaults
    /\ verdict \in [Auths -> Verdict \cup {NoVerdict}]
    /\ probedOK \subseteq Issuers \X Bundles

\* Once a sync of a has found its configuration invalid, no authenticator for
\* a is left in the cache, even when the status write of that sync failed and
\* even if an earlier configuration of a had been valid and cached.
ErrorNeverServed ==
    \A a \in Auths :
        verdict[a] # NoVerdict /\ verdict[a].phase = "Error" => cache[a] = NoEntry

\* A sync that reports Ready without probing (because the cache already held an
\* authenticator for the same fields) only does so for an issuer and CA bundle
\* that some earlier probe accepted: changing only the bundle forces a probe.
ReadyImpliesProbed ==
    \A a \in Auths :
        verdict[a] # NoVerdict /\ verdict[a].phase = "Ready" =>
            /\ <<verdict[a].issuer, verdict[a].bundle>> \in probedOK
            /\ verdict[a].claims \in ValidClaims

\* Every status the controller writes (Ready or Error; the hand edit writes
\* Pending) records the generation the object has when it lands.  updateStatus
\* computes it from the informer's copy, which may predate a spec edit made
\* during the probes; only the resourceVersion check of UpdateStatus (line
\* 820) keeps a status for an older spec from being written over the new one.
StatusForCurrentGeneration ==
    [][\A a \in Auths :
          obj'[a].status # obj[a].status /\ obj'[a].status.phase # "Pending"
            => obj'[a].status.gen = obj'[a].gen]_vars

\* The spec (section 4.3): a sync that concludes Ready publishes its
\* authenticator, even when the status write then fails.
PublishedOnReady ==
    \A a \in Auths :
        verdict[a] # NoVerdict /\ verdict[a].phase = "Ready" =>
            cache[a] = [issuer |-> verdict[a].issuer, claims |-> verdict[a].claims,
                        caHash |-> verdict[a].bundle]

\* What a configuration should end up as: cached and Ready when it is usable
\* (a cached authenticator is kept while its server is unreachable, by design),
\* absent and Error when it is not usable now.
Usable(s, b) == b # Invalid /\ s.issuer \in ValidIssuers /\ s.claims \in ValidClaims
Converged(a) ==
    LET o == obj[a]
        b == caSrv[o.spec.tls]
    IN /\ o.status.gen = o.gen
       /\ \/ /\ cache[a] = EntryOf(o.spec, b)
             /\ Usable(o.spec, b)
             /\ o.status.phase = "Ready"
          \/ /\ cache[a] = NoEntry
             /\ ~(Usable(o.spec, b) /\ Reachable(o.spec.issuer, b)
                  /\ o.spec.issuer \in JWKSHttps)
             /\ o.status.phase = "Error"

\* Once the administrator, the network and the API server stop changing
\* things, every authenticator's cache entry and status settle on the above:
\* retries after errors, watch events and the resync get it there.
EventuallyConverged == <>[](\A a \in Auths : Converged(a))

\* The refinement mapping onto the abstract cache: the cache is the cache,
\* and what the abstract spec knows to be validated is the history of
\* successful probes.
AbstractCache == INSTANCE AuthenticatorCache WITH validated <- probedOK

\* The cache filler implements AuthenticatorCache: every change it makes to
\* the authenticator cache is a publication of a probed configuration
\* (the store at line 288) or a withdrawal (the delete at line 278), and
\* its probes (doExpensiveValidations) only add validated pairs.
AbstractCacheSpec == AbstractCache!Spec

=============================================================================
