--------------------- MODULE JWTCacheFillerRefinement ---------------------
(***************************************************************************)
(* Proof that the cache filler implements the abstract authenticator       *)
(* cache: SpecNoFairness => AbstractCacheSpec, for every instance.  The    *)
(* mapping is the identity on the cache and maps the abstract set of       *)
(* validated pairs to probedOK.  It rests on ProbedInv from                *)
(* JWTCacheFillerProofs: a finishing sync without an error condition has   *)
(* probed what it stores.                                                  *)
(***************************************************************************)
EXTENDS JWTCacheFillerProofs

absVars == <<cache, probedOK>>

\* The initial cache is empty and nothing has been probed.
LEMMA RefinementInit == Init => AbstractCache!Init
BY DEF Init, AbstractCache!Init, NoEntry, AbstractCache!NoEntry

\* A probe step leaves the cache alone and adds at most one pair.
LEMMA ProbeRefines ==
    ASSUME TypeInv, DoExpensiveValidations
    PROVE  [AbstractCache!Next]_absVars
<1>. PICK fetchFails :
       LET built == ExpensiveConds(cur.tlsOk /\ cur.issuerOk, cur.obj.spec,
                                   cur.bundle, fetchFails).AuthenticatorValid
                    = "True"
       IN  probedOK' = IF built
                       THEN probedOK \cup {<<cur.obj.spec.issuer, cur.bundle>>}
                       ELSE probedOK
  BY DEF DoExpensiveValidations
<1>1. cache' = cache
  BY DEF DoExpensiveValidations
<1>2. CASE probedOK' = probedOK
  BY <1>1, <1>2 DEF absVars
<1>3. CASE probedOK' = probedOK \cup {<<cur.obj.spec.issuer, cur.bundle>>}
  <2>1. <<cur.obj.spec.issuer, cur.bundle>> \in Issuers \X Bundles
    <3>1. TypeInv'
      BY ProbeTypeInv
    <3>. QED
      BY <1>3, <3>1 DEF TypeInv, TypeOK
  <2>2. AbstractCache!Validate(cur.obj.spec.issuer, cur.bundle)
    BY <1>1, <1>3 DEF AbstractCache!Validate
  <2>. QED
    BY <2>1, <2>2 DEF AbstractCache!Next
<1>. QED
  BY <1>2, <1>3

\* A finishing sync leaves the cache as it was, withdraws the
\* authenticator, or publishes the entry it probed.
LEMMA FinishRefines ==
    ASSUME ProbedInv, FinishSyncIndividual
    PROVE  [AbstractCache!Next]_absVars
<1>. PICK ok \in BOOLEAN :
        /\ cache' = StoreIfWritten(RemoveIfInvalid(cache, cur, ok), cur, ok)
        /\ probedOK' = probedOK
  BY FinishFacts DEF ProbedInv
<1>. DEFINE a == cur.a
<1>1. /\ cur \in Cur /\ a \in Auths
      /\ cache \in [Auths -> Entry \cup {NoEntry}]
      /\ stage = "finish"
  BY DEF ProbedInv, TypeInv, TypeOK, Cur, FinishSyncIndividual
<1>2. cache' \in [Auths -> Entry \cup {NoEntry}]
  BY FinishTypeInv DEF ProbedInv, TypeInv, TypeOK
<1>3. \A x \in Auths : x # a => cache'[x] = cache[x]
  BY <1>1, CacheWriteAt
<1>4. CASE cache'[a] = cache[a]
  <2>1. cache' = cache
    BY <1>1, <1>2, <1>3, <1>4
  <2>. QED
    BY <2>1 DEF absVars
<1>5. CASE cache'[a] = NoEntry
  <2>1. cache' = [cache EXCEPT ![a] = NoEntry]
    BY <1>1, <1>2, <1>3, <1>5
  <2>2. AbstractCache!Withdraw(a)
    BY <2>1 DEF AbstractCache!Withdraw, NoEntry, AbstractCache!NoEntry
  <2>. QED
    BY <1>1, <2>2 DEF AbstractCache!Next
<1>6. CASE cache'[a] # cache[a] /\ cache'[a] # NoEntry
  <2>1. /\ ~HadErrorCondition(cur.conds)
        /\ cache'[a] = EntryOf(cur.obj.spec, cur.bundle)
    BY <1>1, <1>6, CacheWriteAt
  <2>2. /\ <<cur.obj.spec.issuer, cur.bundle>> \in probedOK
        /\ cur.obj.spec.claims \in ValidClaims
    BY <1>1, <2>1 DEF ProbedInv, CurProbed
  <2>. DEFINE e == cache'[a]
  <2>3. e \in AbstractCache!Entry
    BY <1>1, <1>2, <1>6 DEF Entry, AbstractCache!Entry
  <2>4. <<e.issuer, e.caHash>> \in probedOK /\ e.claims \in ValidClaims
    BY <2>1, <2>2 DEF EntryOf
  <2>5. cache' = [cache EXCEPT ![a] = e]
    BY <1>1, <1>2, <1>3
  <2>6. AbstractCache!Publish(a, e)
    BY <2>3, <2>4, <2>5 DEF AbstractCache!Publish
  <2>. QED
    BY <1>1, <2>3, <2>6 DEF AbstractCache!Next
<1>. QED
  BY <1>4, <1>5, <1>6

\* Every step of the cache filler is a step of the abstract cache or
\* leaves the cache and the probe history as they are.
LEMMA RefinementStep == ProbedInv /\ [Next]_vars => [AbstractCache!Next]_absVars
<1>. SUFFICES ASSUME ProbedInv, [Next]_vars PROVE [AbstractCache!Next]_absVars
  OBVIOUS
<1>1. CASE FinishSyncIndividual
  BY <1>1, FinishRefines
<1>2. CASE DoExpensiveValidations
  BY <1>2, ProbeRefines DEF ProbedInv
<1>3. CASE BeginSyncIndividual
  BY <1>3 DEF BeginSyncIndividual, absVars
<1>4. CASE Sync \/ Informers \/ Resync \/ Environment \/ UNCHANGED vars
  BY <1>4, QuietSteps DEF absVars
<1>. QED
  BY <1>1, <1>2, <1>3, <1>4 DEF Next, Controller

\* The cache filler implements the abstract authenticator cache: whatever
\* the informers, the status-write conflicts and the administrator do, the
\* cache only ever gains probed configurations with valid claims, one
\* authenticator at a time, or loses entries (lines 270-292).
THEOREM CacheFillerImplementsAbstract == SpecNoFairness => AbstractCacheSpec
<1>1. Init => ProbedInv /\ AbstractCache!Init
  BY InitProbed, RefinementInit
<1>2. ProbedInv /\ [Next]_vars => ProbedInv'
  BY NextProbed
<1>3. ProbedInv /\ [Next]_vars => [AbstractCache!Next]_absVars
  BY RefinementStep
<1>. QED
  BY <1>1, <1>2, <1>3, PTL DEF SpecNoFairness, AbstractCacheSpec,
     AbstractCache!Spec, absVars
==============================================================================
