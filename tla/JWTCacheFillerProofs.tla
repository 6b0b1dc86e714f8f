------------------------ MODULE JWTCacheFillerProofs ------------------------
(***************************************************************************)
(* Proofs about the JWTAuthenticator cache filler, for every value of the  *)
(* constants that satisfies the module's assumptions.                      *)
(***************************************************************************)
EXTENDS JWTCacheFiller, TLAPS

\* The locals of the running sync agree with the CA bundle they resolved:
\* tlsOk says the bundle is usable, and a True TLS condition needs tlsOk.
CurConsistent ==
    /\ cur.tlsOk = (cur.bundle # Invalid)
    /\ cur.conds["TLSConfigurationValid"] = "True" => cur.tlsOk
    /\ cur.built => cur.tlsOk

\* The type invariant is not inductive alone: storing an authenticator needs
\* its bundle to be a real one, which CurConsistent supplies.
TypeInv == TypeOK /\ CurConsistent

\* Every cached authenticator was built from an issuer and a bundle that a
\* probe accepted, with claims that validate.
CacheProbed ==
    \A a \in Auths :
        cache[a] # NoEntry =>
            /\ <<cache[a].issuer, cache[a].caHash>> \in probedOK
            /\ cache[a].claims \in ValidClaims

\* A sync about to finish without an error condition has either probed its
\* issuer and bundle or found them in the cache.
CurProbed ==
    stage = "finish" /\ ~HadErrorCondition(cur.conds) =>
        /\ <<cur.obj.spec.issuer, cur.bundle>> \in probedOK
        /\ cur.obj.spec.claims \in ValidClaims

\* The strengthening of ReadyImpliesProbed that each step preserves.
ProbedInv == TypeInv /\ CacheProbed /\ CurProbed /\ ReadyImpliesProbed

\* The worker's idle locals are well typed and hold no usable bundle.
LEMMA IdleCurType == IdleCur \in Cur /\ IdleCur.bundle = Invalid /\ IdleCur.tlsOk = FALSE
                     /\ IdleCur.built = FALSE
                     /\ IdleCur.conds["TLSConfigurationValid"] = "Unknown"
<1>1. \E x \in Auths : TRUE
  BY AuthsAssumption
<1>2. \E s \in AuthSpec : TRUE
  <2>1. PICK i \in Issuers, c \in Claims, r \in Refs : TRUE
    BY NonEmptyAssumption
  <2>2. [issuer |-> i, claims |-> c, tls |-> r] \in AuthSpec
    BY <2>1 DEF AuthSpec
  <2>. QED
    BY <2>2
<1>3. (CHOOSE x \in Auths : TRUE) \in Auths
  BY <1>1
<1>4. (CHOOSE s \in AuthSpec : TRUE) \in AuthSpec
  BY <1>2
<1>. QED
  BY <1>3, <1>4, BundlesAssumption
  DEF IdleCur, UnknownConds, Cur, Object, Status, NoConds, CondTypes, CondStatus, Phases, BundleVals

\* The initial states satisfy the inductive type invariant.
LEMMA InitTypeInv == Init => TypeInv
<1>. SUFFICES ASSUME Init PROVE TypeInv
  OBVIOUS
<1>1. obj \in [Auths -> Object] /\ seen \in [Auths -> Object]
  BY DEF Init, Object, Status, NoConds, Phases
<1>2. cur = IdleCur
  BY DEF Init
<1>3. cur \in Cur /\ CurConsistent
  BY <1>2, IdleCurType DEF CurConsistent
<1>4. /\ cache \in [Auths -> Entry \cup {NoEntry}]
      /\ verdict \in [Auths -> Verdict \cup {NoVerdict}]
  BY DEF Init
<1>5. /\ caSrv \in [Refs -> BundleVals] /\ caSeen \in [Refs -> BundleVals]
      /\ up \in [Issuers -> BOOLEAN] /\ serverCA \in [Issuers -> Bundles]
  BY DEF Init
<1>6. /\ queued \in BOOLEAN /\ stage \in Stages /\ pending \subseteq Auths
      /\ passErr \in BOOLEAN /\ probedOK \subseteq Issuers \X Bundles
  BY DEF Init, Stages
<1>7. /\ envChanges \in 0..MaxEnvChanges /\ apiFailures \in 0..MaxAPIFailures
      /\ netFaults \in 0..MaxNetFaults
  BY BoundsAssumption DEF Init
<1>. QED
  BY <1>1, <1>3, <1>4, <1>5, <1>6, <1>7 DEF TypeInv, TypeOK

\* Starting a pass (Sync) preserves the type invariant.
LEMMA SyncTypeInv == TypeInv /\ Sync => TypeInv'
BY DEF TypeInv, TypeOK, CurConsistent, Sync, Stages, budgetVars, envVars

\* An informer delivery preserves the type invariant.
LEMMA InformersTypeInv == TypeInv /\ Informers => TypeInv'
BY DEF TypeInv, TypeOK, CurConsistent, Informers, InformerDeliverAuthenticator,
       InformerDeliverBundle, budgetVars, envVars

\* The periodic resync preserves the type invariant.
LEMMA ResyncTypeInv == TypeInv /\ Resync => TypeInv'
BY DEF TypeInv, TypeOK, CurConsistent, Resync, budgetVars, envVars

\* An environment step spends one unit of its budget and leaves the
\* controller's state alone.
LEMMA EnvStepTypeInv ==
    ASSUME TypeInv, EnvStep
    PROVE  /\ envChanges' \in 0..MaxEnvChanges
           /\ UNCHANGED <<seen, caSeen, cache, queued, stage, pending, cur, passErr,
                          apiFailures, netFaults, verdict, probedOK>>
BY BoundsAssumption DEF TypeInv, TypeOK, EnvStep

\* Every administrator and network event preserves the type invariant.
LEMMA EnvironmentTypeInv == TypeInv /\ Environment => TypeInv'
<1>. SUFFICES ASSUME TypeInv, Environment PROVE TypeInv'
  OBVIOUS
<1>1. CASE \E a \in Auths, s \in AuthSpec : EditSpec(a, s)
  <2>. PICK a \in Auths, s \in AuthSpec : EditSpec(a, s)
    BY <1>1
  <2>1. EnvStep
    BY DEF EditSpec
  <2>2. obj' \in [Auths -> Object]
    BY DEF TypeInv, TypeOK, EditSpec, Object, WithSpec
  <2>. QED
    BY <2>1, <2>2, EnvStepTypeInv DEF TypeInv, TypeOK, CurConsistent, EditSpec, envVars
<1>2. CASE \E a \in Auths : EditStatus(a)
  <2>. PICK a \in Auths : EditStatus(a)
    BY <1>2
  <2>1. EnvStep
    BY DEF EditStatus
  <2>2. obj' \in [Auths -> Object]
    <3>1. obj[a] \in Object
      BY DEF TypeInv, TypeOK
    <3>2. [obj[a].status EXCEPT !.phase = "Pending"] \in Status
      BY <3>1 DEF Object, Status, Phases
    <3>3. WithStatus(obj[a], [obj[a].status EXCEPT !.phase = "Pending"]) \in Object
      BY <3>1, <3>2 DEF Object, WithStatus
    <3>. QED
      BY <3>3 DEF TypeInv, TypeOK, EditStatus
  <2>. QED
    BY <2>1, <2>2, EnvStepTypeInv DEF TypeInv, TypeOK, CurConsistent, EditStatus, envVars
<1>3. CASE \E r \in Refs, b \in BundleVals : EditBundle(r, b)
  <2>. PICK r \in Refs, b \in BundleVals : EditBundle(r, b)
    BY <1>3
  <2>1. EnvStep
    BY DEF EditBundle
  <2>. QED
    BY <2>1, EnvStepTypeInv DEF TypeInv, TypeOK, CurConsistent, EditBundle
<1>4. CASE \E i \in Issuers : ServerUpDown(i)
  <2>. PICK i \in Issuers : ServerUpDown(i)
    BY <1>4
  <2>1. EnvStep
    BY DEF ServerUpDown
  <2>. QED
    BY <2>1, EnvStepTypeInv DEF TypeInv, TypeOK, CurConsistent, ServerUpDown
<1>5. CASE \E i \in Issuers, b \in Bundles : RotateServerCert(i, b)
  <2>. PICK i \in Issuers, b \in Bundles : RotateServerCert(i, b)
    BY <1>5
  <2>1. EnvStep
    BY DEF RotateServerCert
  <2>. QED
    BY <2>1, EnvStepTypeInv DEF TypeInv, TypeOK, CurConsistent, RotateServerCert
<1>. QED
  BY <1>1, <1>2, <1>3, <1>4, <1>5 DEF Environment

\* The conditions a sync computes are total over the condition types.
LEMMA AllCondsType ==
    ASSUME NEW tlsOk \in BOOLEAN, NEW issuerOk \in BOOLEAN,
           NEW e, e \in [{"DiscoveryURLValid", "JWKSURLValid", "JWKSFetchValid",
                          "AuthenticatorValid"} -> CondStatus]
    PROVE  /\ AllConds(CheapConds(tlsOk, issuerOk), e) \in [CondTypes -> CondStatus]
           /\ AllConds(CheapConds(tlsOk, issuerOk), e)["TLSConfigurationValid"]
                = IF tlsOk THEN "True" ELSE "False"
BY DEF AllConds, CheapConds, CondTypes, CondStatus

\* The cheap checks and havePreviouslyValidated leave well-typed, consistent locals.
LEMMA BeginTypeInv == TypeInv /\ BeginSyncIndividual => TypeInv'
<1>. SUFFICES ASSUME TypeInv, BeginSyncIndividual PROVE TypeInv'
  OBVIOUS
<1>. PICK a \in pending :
        /\ \A y \in pending : a <= y
        /\ LET o == seen[a]
               b == caSeen[o.spec.tls]
               tlsOk == b # Invalid
               issuerOk == o.spec.issuer \in ValidIssuers
               skip == havePreviouslyValidated(a, o.spec, tlsOk, b)
           IN /\ cur' = [a |-> a, obj |-> o, bundle |-> b, tlsOk |-> tlsOk,
                         issuerOk |-> issuerOk, found |-> cache[a] # NoEntry,
                         conds |-> IF skip
                                   THEN AllConds(CheapConds(tlsOk, issuerOk), SkippedConds)
                                   ELSE UnknownConds,
                         built |-> FALSE, errs |-> FALSE]
              /\ stage' = IF skip THEN "finish" ELSE "probe"
  BY DEF BeginSyncIndividual
<1>. DEFINE o == seen[a]
            b == caSeen[o.spec.tls]
            tlsOk == b # Invalid
            issuerOk == o.spec.issuer \in ValidIssuers
            skip == havePreviouslyValidated(a, o.spec, tlsOk, b)
            nc == IF skip THEN AllConds(CheapConds(tlsOk, issuerOk), SkippedConds)
                  ELSE UnknownConds
<1>1. cur' = [a |-> a, obj |-> o, bundle |-> b, tlsOk |-> tlsOk,
              issuerOk |-> issuerOk, found |-> cache[a] # NoEntry,
              conds |-> nc, built |-> FALSE, errs |-> FALSE]
  OBVIOUS
<1>2. a \in Auths /\ o \in Object /\ b \in BundleVals
  BY DEF TypeInv, TypeOK, Object, AuthSpec
<1>3. SkippedConds \in [{"DiscoveryURLValid", "JWKSURLValid", "JWKSFetchValid",
                         "AuthenticatorValid"} -> CondStatus]
  BY DEF SkippedConds, CondStatus
<1>4. nc \in [CondTypes -> CondStatus] /\ (nc["TLSConfigurationValid"] = "True" => tlsOk)
  <2>1. CASE skip
    <3>1. tlsOk \in BOOLEAN /\ issuerOk \in BOOLEAN
      OBVIOUS
    <3>2. /\ AllConds(CheapConds(tlsOk, issuerOk), SkippedConds) \in [CondTypes -> CondStatus]
          /\ AllConds(CheapConds(tlsOk, issuerOk), SkippedConds)["TLSConfigurationValid"]
               = IF tlsOk THEN "True" ELSE "False"
      BY <3>1, <1>3, AllCondsType
    <3>. QED
      BY <3>2, <2>1 DEF nc
  <2>2. CASE ~skip
    <3>1. nc = UnknownConds
      BY <2>2 DEF nc
    <3>2. UnknownConds \in [CondTypes -> CondStatus]
          /\ UnknownConds["TLSConfigurationValid"] = "Unknown"
      BY DEF UnknownConds, CondStatus, CondTypes
    <3>. QED
      BY <3>1, <3>2
  <2>. QED
    BY <2>1, <2>2
<1>5. cur' \in Cur
  BY <1>1, <1>2, <1>4 DEF Cur
<1>6. CurConsistent'
  <2>1. cur'.tlsOk = tlsOk /\ cur'.bundle = b /\ cur'.built = FALSE /\ cur'.conds = nc
    BY <1>1
  <2>. QED
    BY <2>1, <1>4 DEF CurConsistent
<1>7. stage' \in Stages
  BY DEF Stages
<1>. QED
  BY <1>5, <1>6, <1>7 DEF TypeInv, TypeOK, BeginSyncIndividual, budgetVars, envVars

\* The probes yield a condition per step, and a usable authenticator only
\* when every earlier check passed.
LEMMA ExpensiveCondsType ==
    ASSUME NEW okSoFar \in BOOLEAN, NEW s \in AuthSpec, NEW b, NEW fetchFails \in BOOLEAN
    PROVE  /\ ExpensiveConds(okSoFar, s, b, fetchFails)
                \in [{"DiscoveryURLValid", "JWKSURLValid", "JWKSFetchValid",
                      "AuthenticatorValid"} -> CondStatus]
           /\ ExpensiveConds(okSoFar, s, b, fetchFails).AuthenticatorValid = "True" => okSoFar
BY DEF ExpensiveConds, StepCond, DiscoveryOK, JWKSURLOK, JWKSFetchOK, AuthenticatorOK,
       CondStatus, Reachable

\* doExpensiveValidations leaves well-typed locals and records only real bundles as probed.
LEMMA ProbeTypeInv == TypeInv /\ DoExpensiveValidations => TypeInv'
<1>. SUFFICES ASSUME TypeInv, DoExpensiveValidations PROVE TypeInv'
  OBVIOUS
<1>. PICK fetchFails \in IF netFaults < MaxNetFaults THEN BOOLEAN ELSE {FALSE} :
         LET s == cur.obj.spec
             b == cur.bundle
             okSoFar == cur.tlsOk /\ cur.issuerOk
             exp == ExpensiveConds(okSoFar, s, b, fetchFails)
             conds == AllConds(CheapConds(cur.tlsOk, cur.issuerOk), exp)
             errs == \/ exp.DiscoveryURLValid = "False"
                     \/ exp.JWKSURLValid = "False"
                     \/ exp.JWKSFetchValid = "False"
             built == exp.AuthenticatorValid = "True"
         IN /\ cur' = [cur EXCEPT !.conds = conds, !.built = built, !.errs = errs]
            /\ probedOK' = IF built THEN probedOK \cup {<<s.issuer, b>>} ELSE probedOK
            /\ netFaults' = IF fetchFails THEN netFaults + 1 ELSE netFaults
  BY DEF DoExpensiveValidations
<1>. DEFINE s == cur.obj.spec
            b == cur.bundle
            okSoFar == cur.tlsOk /\ cur.issuerOk
            exp == ExpensiveConds(okSoFar, s, b, fetchFails)
            conds == AllConds(CheapConds(cur.tlsOk, cur.issuerOk), exp)
            errs == \/ exp.DiscoveryURLValid = "False"
                    \/ exp.JWKSURLValid = "False"
                    \/ exp.JWKSFetchValid = "False"
            built == exp.AuthenticatorValid = "True"
<1>1. cur \in Cur /\ CurConsistent
  BY DEF TypeInv, TypeOK
<1>2. /\ fetchFails \in BOOLEAN
      /\ okSoFar \in BOOLEAN
      /\ s \in AuthSpec
      /\ cur.tlsOk \in BOOLEAN /\ cur.issuerOk \in BOOLEAN
  BY <1>1 DEF Cur, Object
<1>3. /\ exp \in [{"DiscoveryURLValid", "JWKSURLValid", "JWKSFetchValid",
                   "AuthenticatorValid"} -> CondStatus]
      /\ built => okSoFar
  BY <1>2, ExpensiveCondsType
<1>4. /\ conds \in [CondTypes -> CondStatus]
      /\ conds["TLSConfigurationValid"] = IF cur.tlsOk THEN "True" ELSE "False"
  BY <1>2, <1>3, AllCondsType
<1>5. cur' = [cur EXCEPT !.conds = conds, !.built = built, !.errs = errs]
  OBVIOUS
<1>6. cur' \in Cur
  BY <1>1, <1>4, <1>5 DEF Cur
<1>7. CurConsistent'
  <2>1. /\ cur'.tlsOk = cur.tlsOk /\ cur'.bundle = cur.bundle
        /\ cur'.conds = conds /\ cur'.built = built
    BY <1>1, <1>5 DEF Cur
  <2>2. built => cur.tlsOk
    BY <1>3
  <2>. QED
    BY <1>1, <1>4, <2>1, <2>2 DEF CurConsistent
<1>8. probedOK' \subseteq Issuers \X Bundles
  <2>1. built => b \in Bundles /\ s.issuer \in Issuers
    BY <1>1, <1>2, <1>3 DEF CurConsistent, Cur, BundleVals, AuthSpec
  <2>. QED
    BY <2>1 DEF TypeInv, TypeOK
<1>9. netFaults' \in 0..MaxNetFaults
  <2>1. fetchFails => netFaults < MaxNetFaults
    OBVIOUS
  <2>. QED
    BY <2>1, BoundsAssumption DEF TypeInv, TypeOK
<1>. QED
  BY <1>6, <1>7, <1>8, <1>9 DEF TypeInv, TypeOK, DoExpensiveValidations, Stages, envVars

\* The status a sync writes is a status, whatever it concluded.
LEMMA StatusForType ==
    ASSUME NEW conds \in [CondTypes -> CondStatus], NEW gen \in Nat
    PROVE  /\ StatusFor(conds, gen) \in Status
           /\ StatusFor(conds, gen).phase \in {"Ready", "Error"}
BY DEF StatusFor, Status, Phases, CondStatus

\* Removing and storing keep the cache a map to entries, provided a built
\* authenticator trusts a real bundle.
LEMMA CacheWriteType ==
    ASSUME NEW c \in [Auths -> Entry \cup {NoEntry}], NEW k \in Cur, NEW ok,
           k.built => k.bundle \in Bundles
    PROVE  StoreIfWritten(RemoveIfInvalid(c, k, ok), k, ok) \in [Auths -> Entry \cup {NoEntry}]
<1>1. RemoveIfInvalid(c, k, ok) \in [Auths -> Entry \cup {NoEntry}]
  BY DEF RemoveIfInvalid, Cur
<1>2. k.built => EntryOf(k.obj.spec, k.bundle) \in Entry
  BY DEF EntryOf, Entry, Cur, Object, AuthSpec
<1>. QED
  BY <1>1, <1>2 DEF StoreIfWritten, Cur

\* The rest of syncIndividualJWTAuthenticator (remove, updateStatus, store) preserves the type invariant.
LEMMA FinishTypeInv == TypeInv /\ FinishSyncIndividual => TypeInv'
<1>. SUFFICES ASSUME TypeInv, FinishSyncIndividual PROVE TypeInv'
  OBVIOUS
<1>. PICK apiFail \in IF NeedsWrite(cur) /\ apiFailures < MaxAPIFailures
                      THEN BOOLEAN ELSE {FALSE} :
       LET a == cur.a
           newStatus == StatusFor(cur.conds, cur.obj.gen)
           updateOK == UpdateSucceeds(cur, apiFail)
       IN /\ obj' = IF NeedsWrite(cur) /\ updateOK
                    THEN [obj EXCEPT ![a] = WithStatus(obj[a], newStatus)]
                    ELSE obj
          /\ cache' = StoreIfWritten(RemoveIfInvalid(cache, cur, updateOK), cur, updateOK)
          /\ apiFailures' = IF apiFail THEN apiFailures + 1 ELSE apiFailures
          /\ verdict' = [verdict EXCEPT ![a] =
                           [phase |-> newStatus.phase, issuer |-> cur.obj.spec.issuer,
                            claims |-> cur.obj.spec.claims, bundle |-> cur.bundle]]
          /\ pending' = pending \ {a}
          /\ cur' = IdleCur
          /\ passErr' = (passErr \/ SyncError(cur, updateOK))
          /\ IF pending' = {}
             THEN /\ stage' = "idle"
                  /\ queued' = (queued \/ passErr')
             ELSE /\ stage' = "select"
                  /\ UNCHANGED queued
  BY DEF FinishSyncIndividual, SyncError
<1>. DEFINE a == cur.a
            newStatus == StatusFor(cur.conds, cur.obj.gen)
            updateOK == UpdateSucceeds(cur, apiFail)
<1>1. cur \in Cur /\ CurConsistent
  BY DEF TypeInv, TypeOK
<1>2. a \in Auths /\ cur.obj \in Object /\ cur.conds \in [CondTypes -> CondStatus]
  BY <1>1 DEF Cur
<1>3. newStatus \in Status /\ newStatus.phase \in {"Ready", "Error"}
  BY <1>2, StatusForType DEF Object
<1>4. obj' \in [Auths -> Object]
  <2>1. WithStatus(obj[a], newStatus) \in Object
    BY <1>2, <1>3 DEF TypeInv, TypeOK, WithStatus, Object
  <2>. QED
    BY <2>1 DEF TypeInv, TypeOK
<1>5. cache' \in [Auths -> Entry \cup {NoEntry}]
  <2>1. cur.built => cur.bundle \in Bundles
    BY <1>1 DEF CurConsistent, Cur, BundleVals
  <2>. QED
    BY <1>1, <2>1, CacheWriteType DEF TypeInv, TypeOK
<1>6. verdict' \in [Auths -> Verdict \cup {NoVerdict}]
  BY <1>2, <1>3 DEF TypeInv, TypeOK, Verdict, Cur, Object, AuthSpec
<1>7. apiFailures' \in 0..MaxAPIFailures
  <2>1. apiFail => apiFailures < MaxAPIFailures
    OBVIOUS
  <2>. QED
    BY <2>1, BoundsAssumption DEF TypeInv, TypeOK
<1>8. /\ cur' \in Cur /\ CurConsistent'
      /\ pending' \subseteq Auths
      /\ stage' \in Stages /\ queued' \in BOOLEAN /\ passErr' \in BOOLEAN
  BY IdleCurType DEF TypeInv, TypeOK, CurConsistent, Stages
<1>. QED
  BY <1>4, <1>5, <1>6, <1>7, <1>8 DEF TypeInv, TypeOK, FinishSyncIndividual, envVars

\* Every step of the controller and its environment preserves the type invariant.
LEMMA NextTypeInv == TypeInv /\ [Next]_vars => TypeInv'
<1>. SUFFICES ASSUME TypeInv, [Next]_vars PROVE TypeInv'
  OBVIOUS
<1>1. CASE Sync
  BY <1>1, SyncTypeInv
<1>2. CASE BeginSyncIndividual
  BY <1>2, BeginTypeInv
<1>3. CASE DoExpensiveValidations
  BY <1>3, ProbeTypeInv
<1>4. CASE FinishSyncIndividual
  BY <1>4, FinishTypeInv
<1>5. CASE Informers
  BY <1>5, InformersTypeInv
<1>6. CASE Resync
  BY <1>6, ResyncTypeInv
<1>7. CASE Environment
  BY <1>7, EnvironmentTypeInv
<1>8. CASE UNCHANGED vars
  BY <1>8 DEF TypeInv, TypeOK, CurConsistent, vars
<1>. QED
  BY <1>1, <1>2, <1>3, <1>4, <1>5, <1>6, <1>7, <1>8 DEF Next, Controller

\* Type correctness of the controller model: every reachable state gives each
\* variable a value of the type TypeOK names, whatever the constants, because
\* each handler step writes only well-typed locals, statuses and cache entries.
THEOREM TypeCorrect == SpecNoFairness => []TypeOK
<1>1. Init => TypeInv
  BY InitTypeInv
<1>2. TypeInv /\ [Next]_vars => TypeInv'
  BY NextTypeInv
<1>3. TypeInv => TypeOK
  BY DEF TypeInv
<1>. QED
  BY <1>1, <1>2, <1>3, PTL DEF SpecNoFairness

-----------------------------------------------------------------------------
(* ErrorNeverServed and ReadyImpliesProbed *)

\* What the remove-then-store of a finishing sync does to one cache slot:
\* other slots are untouched, an error empties the slot, and a slot that ends
\* full holds either its old entry or the authenticator just built.
LEMMA CacheWriteAt ==
    ASSUME NEW c \in [Auths -> Entry \cup {NoEntry}], NEW k \in Cur, NEW ok,
           NEW x \in Auths
    PROVE  LET c2 == StoreIfWritten(RemoveIfInvalid(c, k, ok), k, ok)
           IN  /\ x # k.a => c2[x] = c[x]
               /\ HadErrorCondition(k.conds) => c2[k.a] = NoEntry
               /\ c2[k.a] # NoEntry =>
                     \/ c2[k.a] = c[k.a]
                     \/ /\ k.built /\ ~HadErrorCondition(k.conds)
                        /\ c2[k.a] = EntryOf(k.obj.spec, k.bundle)
BY DEF StoreIfWritten, RemoveIfInvalid, Cur

\* The parts of a finishing sync that the two invariants read.
LEMMA FinishFacts ==
    ASSUME TypeInv, FinishSyncIndividual
    PROVE  \E ok \in BOOLEAN :
              /\ cache' = StoreIfWritten(RemoveIfInvalid(cache, cur, ok), cur, ok)
              /\ verdict' = [verdict EXCEPT ![cur.a] =
                   [phase |-> StatusFor(cur.conds, cur.obj.gen).phase,
                    issuer |-> cur.obj.spec.issuer,
                    claims |-> cur.obj.spec.claims, bundle |-> cur.bundle]]
              /\ probedOK' = probedOK
              /\ stage' \in {"idle", "select"}
<1>. PICK apiFail \in BOOLEAN :
       LET updateOK == UpdateSucceeds(cur, apiFail)
       IN /\ cache' = StoreIfWritten(RemoveIfInvalid(cache, cur, updateOK), cur, updateOK)
          /\ verdict' = [verdict EXCEPT ![cur.a] =
                 [phase |-> StatusFor(cur.conds, cur.obj.gen).phase,
                  issuer |-> cur.obj.spec.issuer,
                  claims |-> cur.obj.spec.claims, bundle |-> cur.bundle]]
          /\ stage' \in {"idle", "select"}
  BY DEF FinishSyncIndividual
<1>. UpdateSucceeds(cur, apiFail) \in BOOLEAN
  BY DEF UpdateSucceeds
<1>. QED
  BY DEF FinishSyncIndividual

\* A sync ends in Error exactly when some condition is not True.
LEMMA ErrorPhase ==
    ASSUME NEW conds, NEW gen
    PROVE  StatusFor(conds, gen).phase = "Error" <=> HadErrorCondition(conds)
BY DEF StatusFor

\* Only a finishing sync touches the cache, the verdicts or probedOK.
LEMMA OthersKeepCache ==
    ASSUME TypeInv, [Next]_vars, ~FinishSyncIndividual
    PROVE  /\ UNCHANGED <<cache, verdict>>
           /\ probedOK \subseteq probedOK'
           /\ stage' = "finish" => stage = "finish" \/ DoExpensiveValidations
                                   \/ BeginSyncIndividual
BY DEF Next, Controller, Sync, BeginSyncIndividual, DoExpensiveValidations, Informers,
       InformerDeliverAuthenticator, InformerDeliverBundle, Resync, Environment,
       EditSpec, EditStatus, EditBundle, ServerUpDown, RotateServerCert, EnvStep, vars

\* No step leaves an authenticator with an Error verdict in the cache.
LEMMA NextErrorNeverServed ==
    TypeInv /\ ErrorNeverServed /\ [Next]_vars => ErrorNeverServed'
<1>. SUFFICES ASSUME TypeInv, ErrorNeverServed, [Next]_vars PROVE ErrorNeverServed'
  OBVIOUS
<1>1. CASE FinishSyncIndividual
  <2>. PICK ok \in BOOLEAN :
          /\ cache' = StoreIfWritten(RemoveIfInvalid(cache, cur, ok), cur, ok)
          /\ verdict' = [verdict EXCEPT ![cur.a] =
               [phase |-> StatusFor(cur.conds, cur.obj.gen).phase,
                issuer |-> cur.obj.spec.issuer,
                claims |-> cur.obj.spec.claims, bundle |-> cur.bundle]]
    BY <1>1, FinishFacts
  <2>. SUFFICES ASSUME NEW x \in Auths, verdict'[x] # NoVerdict,
                       verdict'[x].phase = "Error"
                PROVE  cache'[x] = NoEntry
    BY DEF ErrorNeverServed
  <2>1. cur \in Cur /\ cache \in [Auths -> Entry \cup {NoEntry}]
        /\ verdict \in [Auths -> Verdict \cup {NoVerdict}]
    BY DEF TypeInv, TypeOK
  <2>2. CASE x = cur.a
    <3>1. StatusFor(cur.conds, cur.obj.gen).phase = "Error"
      BY <2>1, <2>2 DEF Cur
    <3>2. HadErrorCondition(cur.conds)
      BY <3>1, ErrorPhase
    <3>. QED
      BY <2>1, <2>2, <3>2, CacheWriteAt
  <2>3. CASE x # cur.a
    <3>1. verdict'[x] = verdict[x] /\ cache'[x] = cache[x]
      BY <2>1, <2>3, CacheWriteAt
    <3>. QED
      BY <3>1 DEF ErrorNeverServed
  <2>. QED
    BY <2>2, <2>3
<1>2. CASE ~FinishSyncIndividual
  BY <1>2, OthersKeepCache DEF ErrorNeverServed
<1>. QED
  BY <1>1, <1>2

\* A configuration a sync found invalid is never left servable: whenever the
\* last sync of an authenticator concluded Error, the cache holds no
\* authenticator for it, because the invalid entry is deleted before the
\* status write and a failed status write never re-adds one.
THEOREM ErrorNeverServedHolds == SpecNoFairness => []ErrorNeverServed
<1>1. Init => TypeInv /\ ErrorNeverServed
  BY InitTypeInv DEF Init, ErrorNeverServed
<1>2. TypeInv /\ ErrorNeverServed /\ [Next]_vars => (TypeInv /\ ErrorNeverServed)'
  BY NextTypeInv, NextErrorNeverServed
<1>. QED
  BY <1>1, <1>2, PTL DEF SpecNoFairness

\* The steps that are neither the controller's sync steps nor its finish
\* leave everything the probe invariants read alone.
LEMMA QuietSteps ==
    ASSUME Sync \/ Informers \/ Resync \/ Environment \/ UNCHANGED vars
    PROVE  /\ UNCHANGED <<cache, verdict, probedOK, cur>>
           /\ stage' = "finish" => stage = "finish"
BY DEF Sync, Informers, InformerDeliverAuthenticator, InformerDeliverBundle, Resync,
       Environment, EditSpec, EditStatus, EditBundle, ServerUpDown, RotateServerCert,
       EnvStep, vars

\* The authenticator condition is True only for claims that validate.
LEMMA AuthenticatorValidClaims ==
    ASSUME NEW okSoFar, NEW sp, NEW b, NEW fetchFails,
           ExpensiveConds(okSoFar, sp, b, fetchFails).AuthenticatorValid = "True"
    PROVE  sp.claims \in ValidClaims
BY DEF ExpensiveConds, StepCond, AuthenticatorOK

\* Without an error condition every condition is True, the authenticator's too.
LEMMA NoErrorAuthenticatorValid ==
    ASSUME NEW cheap, NEW e, ~HadErrorCondition(AllConds(cheap, e)),
           "AuthenticatorValid" \notin DOMAIN cheap
    PROVE  e["AuthenticatorValid"] = "True"
BY DEF HadErrorCondition, AllConds, CondTypes

\* A sync that skips its probes because the cache matched vouches only for a probed pair.
LEMMA BeginProbed == ProbedInv /\ BeginSyncIndividual => ProbedInv'
<1>. SUFFICES ASSUME ProbedInv, BeginSyncIndividual PROVE ProbedInv'
  OBVIOUS
<1>1. TypeInv'
  BY BeginTypeInv DEF ProbedInv
<1>2. UNCHANGED <<cache, verdict, probedOK>>
  BY DEF BeginSyncIndividual
<1>3. CurProbed'
  <2>. PICK a \in pending :
          LET o == seen[a]
              b == caSeen[o.spec.tls]
              skip == havePreviouslyValidated(a, o.spec, b # Invalid, b)
          IN /\ cur'.obj = o /\ cur'.bundle = b
             /\ stage' = IF skip THEN "finish" ELSE "probe"
    BY DEF BeginSyncIndividual
  <2>. DEFINE o == seen[a]
              b == caSeen[o.spec.tls]
  <2>. SUFFICES ASSUME stage' = "finish" PROVE CurProbed'
    BY DEF CurProbed
  <2>1. havePreviouslyValidated(a, o.spec, b # Invalid, b)
    OBVIOUS
  <2>2. /\ cache[a] # NoEntry
        /\ cache[a].issuer = o.spec.issuer /\ cache[a].claims = o.spec.claims
        /\ cache[a].caHash = b
    BY <2>1 DEF havePreviouslyValidated
  <2>3. a \in Auths
    BY DEF ProbedInv, TypeInv, TypeOK
  <2>. QED
    BY <1>2, <2>2, <2>3 DEF ProbedInv, CacheProbed, CurProbed
<1>. QED
  BY <1>1, <1>2, <1>3 DEF ProbedInv, CacheProbed, ReadyImpliesProbed

\* After the probes, a sync without error conditions has its pair recorded as probed.
LEMMA ProbeProbed == ProbedInv /\ DoExpensiveValidations => ProbedInv'
<1>. SUFFICES ASSUME ProbedInv, DoExpensiveValidations PROVE ProbedInv'
  OBVIOUS
<1>1. TypeInv'
  BY ProbeTypeInv DEF ProbedInv
<1>2. UNCHANGED <<cache, verdict>> /\ probedOK \subseteq probedOK'
  BY DEF DoExpensiveValidations
<1>3. CurProbed'
  <2>. PICK fetchFails :
         LET exp == ExpensiveConds(cur.tlsOk /\ cur.issuerOk, cur.obj.spec, cur.bundle,
                                   fetchFails)
             built == exp.AuthenticatorValid = "True"
         IN /\ cur' = [cur EXCEPT !.conds = AllConds(CheapConds(cur.tlsOk, cur.issuerOk), exp),
                                  !.built = built,
                                  !.errs = \/ exp.DiscoveryURLValid = "False"
                                           \/ exp.JWKSURLValid = "False"
                                           \/ exp.JWKSFetchValid = "False"]
            /\ probedOK' = IF built THEN probedOK \cup {<<cur.obj.spec.issuer, cur.bundle>>}
                                    ELSE probedOK
    BY DEF DoExpensiveValidations
  <2>. DEFINE exp == ExpensiveConds(cur.tlsOk /\ cur.issuerOk, cur.obj.spec, cur.bundle,
                                    fetchFails)
  <2>1. cur \in Cur
    BY DEF ProbedInv, TypeInv, TypeOK
  <2>2. /\ cur'.conds = AllConds(CheapConds(cur.tlsOk, cur.issuerOk), exp)
        /\ cur'.obj = cur.obj /\ cur'.bundle = cur.bundle
    BY <2>1 DEF Cur
  <2>. SUFFICES ASSUME ~HadErrorCondition(cur'.conds)
                PROVE  /\ <<cur.obj.spec.issuer, cur.bundle>> \in probedOK'
                       /\ cur.obj.spec.claims \in ValidClaims
    BY <2>2 DEF CurProbed
  <2>3. exp["AuthenticatorValid"] = "True"
    <3>1. "AuthenticatorValid" \notin DOMAIN CheapConds(cur.tlsOk, cur.issuerOk)
      BY DEF CheapConds
    <3>. QED
      BY <2>2, <3>1, NoErrorAuthenticatorValid
  <2>. QED
    BY <2>3, AuthenticatorValidClaims
<1>. QED
  BY <1>1, <1>2, <1>3 DEF ProbedInv, CacheProbed, ReadyImpliesProbed

\* Finishing a sync stores and reports Ready only for probed pairs.
LEMMA FinishProbed == ProbedInv /\ FinishSyncIndividual => ProbedInv'
<1>. SUFFICES ASSUME ProbedInv, FinishSyncIndividual PROVE ProbedInv'
  OBVIOUS
<1>1. TypeInv'
  BY FinishTypeInv DEF ProbedInv
<1>. PICK ok \in BOOLEAN :
        /\ cache' = StoreIfWritten(RemoveIfInvalid(cache, cur, ok), cur, ok)
        /\ verdict' = [verdict EXCEPT ![cur.a] =
             [phase |-> StatusFor(cur.conds, cur.obj.gen).phase,
              issuer |-> cur.obj.spec.issuer,
              claims |-> cur.obj.spec.claims, bundle |-> cur.bundle]]
        /\ probedOK' = probedOK
        /\ stage' \in {"idle", "select"}
  BY FinishFacts DEF ProbedInv
<1>2. cur \in Cur /\ cache \in [Auths -> Entry \cup {NoEntry}]
      /\ verdict \in [Auths -> Verdict \cup {NoVerdict}] /\ stage = "finish"
  BY DEF ProbedInv, TypeInv, TypeOK, FinishSyncIndividual
<1>3. ~HadErrorCondition(cur.conds) =>
         /\ <<cur.obj.spec.issuer, cur.bundle>> \in probedOK
         /\ cur.obj.spec.claims \in ValidClaims
  BY <1>2 DEF ProbedInv, CurProbed
<1>4. CacheProbed'
  <2>. SUFFICES ASSUME NEW x \in Auths, cache'[x] # NoEntry
                PROVE  /\ <<cache'[x].issuer, cache'[x].caHash>> \in probedOK
                       /\ cache'[x].claims \in ValidClaims
    BY DEF CacheProbed
  <2>1. CASE x = cur.a
    <3>1. CASE cache'[x] = cache[x]
      BY <3>1, <2>1 DEF ProbedInv, CacheProbed
    <3>2. CASE cache'[x] = EntryOf(cur.obj.spec, cur.bundle) /\ ~HadErrorCondition(cur.conds)
      BY <3>2, <1>3 DEF EntryOf
    <3>. QED
      BY <2>1, <3>1, <3>2, <1>2, CacheWriteAt
  <2>2. CASE x # cur.a
    BY <2>2, <1>2, CacheWriteAt DEF ProbedInv, CacheProbed
  <2>. QED
    BY <2>1, <2>2
<1>5. ReadyImpliesProbed'
  <2>. SUFFICES ASSUME NEW x \in Auths, verdict'[x] # NoVerdict,
                       verdict'[x].phase = "Ready"
                PROVE  /\ <<verdict'[x].issuer, verdict'[x].bundle>> \in probedOK
                       /\ verdict'[x].claims \in ValidClaims
    BY DEF ReadyImpliesProbed
  <2>1. CASE x = cur.a
    <3>1. StatusFor(cur.conds, cur.obj.gen).phase = "Ready"
      BY <2>1, <1>2 DEF Cur
    <3>2. ~HadErrorCondition(cur.conds)
      BY <3>1 DEF StatusFor
    <3>. QED
      BY <2>1, <1>2, <1>3, <3>2 DEF Cur
  <2>2. CASE x # cur.a
    BY <2>2 DEF ProbedInv, ReadyImpliesProbed
  <2>. QED
    BY <2>1, <2>2
<1>6. CurProbed'
  BY DEF CurProbed
<1>. QED
  BY <1>1, <1>4, <1>5, <1>6 DEF ProbedInv

\* Initially nothing is cached and nothing is Ready.
LEMMA InitProbed == Init => ProbedInv
BY InitTypeInv DEF Init, ProbedInv, CacheProbed, CurProbed, ReadyImpliesProbed

\* Every step preserves the probe invariant.
LEMMA NextProbed == ProbedInv /\ [Next]_vars => ProbedInv'
<1>. SUFFICES ASSUME ProbedInv, [Next]_vars PROVE ProbedInv'
  OBVIOUS
<1>1. CASE BeginSyncIndividual
  BY <1>1, BeginProbed
<1>2. CASE DoExpensiveValidations
  BY <1>2, ProbeProbed
<1>3. CASE FinishSyncIndividual
  BY <1>3, FinishProbed
<1>4. CASE Sync \/ Informers \/ Resync \/ Environment \/ UNCHANGED vars
  <2>1. TypeInv'
    BY NextTypeInv DEF ProbedInv
  <2>2. UNCHANGED <<cache, verdict, probedOK, cur>> /\ (stage' = "finish" => stage = "finish")
    BY <1>4, QuietSteps
  <2>. QED
    BY <2>1, <2>2 DEF ProbedInv, CacheProbed, CurProbed, ReadyImpliesProbed
<1>. QED
  BY <1>1, <1>2, <1>3, <1>4 DEF Next, Controller

\* A Ready verdict is never reached on an unprobed issuer and CA bundle: a
\* sync that skips the network probes because havePreviouslyValidated matched
\* the cache (including the CA hash) reports Ready only for a pair some
\* earlier probe accepted, with claims the authenticator builder accepted.
THEOREM ReadyImpliesProbedHolds == SpecNoFairness => []ReadyImpliesProbed
<1>1. Init => ProbedInv
  BY InitProbed
<1>2. ProbedInv /\ [Next]_vars => ProbedInv'
  BY NextProbed
<1>3. ProbedInv => ReadyImpliesProbed
  BY DEF ProbedInv
<1>. QED
  BY <1>1, <1>2, <1>3, PTL DEF SpecNoFairness

=============================================================================
