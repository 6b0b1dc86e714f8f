# TLA+ models of the Pinniped core

This directory holds TLA+ models of the Pinniped code under `src/`. It also
holds the TLC configurations that model-check them on small instances, and the
TLAPS proofs that some of their properties hold for every instance.

## The system and its parts

| Part | Source | Status |
|------|--------|--------|
| JWTAuthenticator cache filler (Concierge) | `internal/controller/authenticator/jwtcachefiller/jwtcachefiller.go` | modelled: `JWTCacheFiller`, `MC_JWTCacheFiller`, `JWTCacheFillerProofs`, `JWTCacheFillerStatusProofs`; abstract spec `AuthenticatorCache`, refinement proof `JWTCacheFillerRefinement` |
| Supervisor authorize endpoint | `internal/federationdomain/endpoints/auth/auth_handler.go` | partly: `AuthorizeCallback`, `MC_AuthorizeCallback`, `AuthorizeCallbackProofs` |
| Supervisor callback endpoint | `internal/federationdomain/endpoints/callback/callback_handler.go` | partly: the same modules |
| Concierge static config loader | `internal/config/concierge/config.go` | modelled: `ConciergeConfig`, `MC_ConciergeConfig`, `ConciergeConfigProofs` |
| FIPS TLS profiles | `internal/crypto/ptls/profiles_fips_strict.go` | not modelled: constant tables, no state |
| TLS test server, mocks, generated clients | `internal/testutil`, `internal/mocks`, `generated/` | not modelled: test helpers and generated code |

How the parts interact:

- The cache filler is a controller. It turns JWTAuthenticator objects into
  in-memory token authenticators in `authncache`, and writes their status back.
- The authorize and callback handlers serve the Supervisor's OIDC flow. They
  read an IDP registry that other controllers fill. Those controllers, the
  registry and the CSRF/state codec are not in `src/`; `AuthorizeCallback`
  models them from the spec.
- The generated informers deliver the API server's objects to the cache
  filler, late and one change at a time. The model's environment reproduces
  that lag.

## JWTCacheFiller: the cache-filler controller

### What the code does

- The controller has a singleton work queue and one worker. Every informer
  event and the periodic resync enqueue the same key. `New`, lines 132-178,
  sets this up.
- `Sync` (193-217) lists every authenticator, sorts them by name and calls
  `syncIndividualJWTAuthenticator` on each. It aggregates their errors, and an
  error requeues the key.
- `syncIndividualJWTAuthenticator` (219-299) runs these steps in order:
  1. The cheap checks: `validateTLSBundle` and `validateIssuer`.
  2. `havePreviouslyValidated`, which compares the cached authenticator's
     issuer, claims and CA hash with the spec and with the bundle resolved
     from the informers.
  3. If they differ, `doExpensiveValidations`. Discovery, the jwks_uri
     check, the JWKS fetch and the authenticator build each report True,
     False, or Unknown when a prerequisite failed.
  4. If any condition is not True, the authenticator is deleted from the cache.
  5. `updateStatus`. It writes nothing when the informer copy already holds
     the computed status. Otherwise it calls `UpdateStatus` with the informer
     copy, which conflicts if the object moved since.
  6. The new authenticator is stored only if it is valid and the status write
     succeeded.

### How the model corresponds

- **The worker.** `stage` places the worker at one of the points where the
  real function can be interleaved with other events:
  - `idle`;
  - `select`, before a sync;
  - `probe`, before the network calls;
  - `finish`, before the status write.

  `cur` holds the locals of the sync that is running.
- **The actions.** `Sync`, `BeginSyncIndividual` (cheap checks and
  `havePreviouslyValidated`), `DoExpensiveValidations` and
  `FinishSyncIndividual` cover the whole function. `FinishSyncIndividual`
  takes in the removal, `updateStatus`, the store and the requeue decision at
  the end of a pass.
- **The informers.** `seen` and `caSeen` are the informers' copies of `obj`
  (the API server's JWTAuthenticators) and of `caSrv` (Secret and ConfigMap
  contents). `InformerDeliverAuthenticator` and `InformerDeliverBundle`
  deliver a change and enqueue the key. `Resync` is the periodic resync.
- **The validators.** Each is an operator named after it: `CheapConds`,
  `DiscoveryOK`, `JWKSURLOK`, `JWKSFetchOK`, `AuthenticatorOK`. They are
  combined by `ExpensiveConds` with the prerequisite chain of
  `doExpensiveValidations` (`StepCond`).
- **Data.** Issuers, claims configurations, bundle sources and bundles are
  model values. Which of them pass a check is given by constant subsets
  (`ValidIssuers`, `JWKSHttps`, `ValidClaims`), and `Invalid` is a source that
  does not hold a usable bundle. A probe succeeds when the server is up and
  its certificate verifies under the bundle: `Reachable`.
- **Status writes.** Every write bumps the resourceVersion `rv`. An update
  succeeds only when the informer copy's `rv` is current and the API does not
  fail for another reason.
- **The environment.** The administrator edits a spec, overwrites a status
  (as the integration test does) or edits a CA bundle. The issuer's server
  goes up or down or rotates its certificate.
- **Bounds.** The environment is bounded by `MaxEnvChanges`, other status
  write failures by `MaxAPIFailures`, and JWKS fetch failures by
  `MaxNetFaults`.
- **History variables.** `verdict` records what the last finished sync of
  each authenticator concluded. `probedOK` records the issuer and bundle pairs
  whose probes succeeded.

### Left out

- A failure of `oidc.New` after CEL validation passed (line 710).
- An error from the lister.
- Log messages, condition reasons and messages.
- The ordering of authenticators, since each one's sync touches only its own
  cache entry and status.

### Runs

| Run | cfg | Checks | Result |
|-----|-----|--------|--------|
| `jwt_cache_filler` | `MC_JWTCacheFiller.cfg` | `TypeOK`, `ErrorNeverServed`, `ReadyImpliesProbed`, `EventuallyConverged`, `StatusForCurrentGeneration` | pass, 386,336 distinct states, about 30 s |
| `jwt_converges_by_retry` | `MC_JWTCacheFiller_retry.cfg` | `EventuallyConverged` (under `RetrySpec`) | pass, 386,336 distinct states, about 25 s |
| `jwt_refines_abstract_cache` | `MC_JWTCacheFiller_refinement.cfg` | `AbstractCacheSpec` | pass, 386,336 distinct states |
| `jwt_published_on_ready` | `MC_JWTCacheFiller_published.cfg` | `PublishedOnReady` | violation, as expected |

**Instance.** The instance has one authenticator, one issuer and one bundle
source. There are two bundles, plus `Invalid`, and two claims
configurations, one of them invalid.

**Bounds.** Two environment events, one failed status write and one failed
fetch.

**Why these bounds are enough.** Together they reach every case the
properties are about:

- A bundle changes under a cached authenticator while the informer lags.
- The server rotates to a certificate the old bundle does not verify.
- A probe fails and then succeeds on retry.
- A status write conflicts with a spec edit, or fails for another reason.
- The DeepEqual skip meets a status overwrite the informer has not delivered
  yet.

**Why one authenticator.** The syncs of different authenticators share only
the pass-level requeue, because each touches only its own cache key and
object. A second authenticator multiplies the state space without adding a
new interleaving of one authenticator's state.

**Properties:**

- `ErrorNeverServed`: whenever the last sync of an authenticator concluded
  Error, its cache slot is empty. It checks the delete-before-write order at
  line 278.
- `ReadyImpliesProbed`: a Ready verdict names an issuer and bundle that some
  probe accepted, and claims that validate. A sync that skips the probes
  because the cache already matched must not vouch for a bundle that no probe
  saw. It checks that `havePreviouslyValidated` compares the CA hash (line
  365).
- `EventuallyConverged`: once the environment stops, every authenticator ends
  either cached, Ready and matching its current spec and bundle, or absent
  and Error. It holds under weak fairness of the worker, the informers and the
  resync. It checks the store-after-write at line 288 and recovery from
  conflicts.
- `EventuallyConverged` again, in run `jwt_converges_by_retry`, under
  `RetrySpec`, which gives `Resync` no fairness. Under `FairSpec` a fair
  `Resync` re-queues the key whether or not the pass failed, so an error
  that `Sync` fails to return (line 216) only delays convergence and goes
  unseen. Without the resync's fairness, only the errors a pass returns and
  the watch events requeue the key, and TLC finds that they suffice. Server
  drift (`ServerUpDown`, `RotateServerCert`) raises no watch event, but
  cannot leave the filler unconverged: a Ready entry is kept while its
  server is unreachable, by design, and a failing probe returns an error,
  which requeues the key.
- `StatusForCurrentGeneration` (an action property): every Ready or Error
  status the controller writes records the generation of the object it lands
  on. `updateStatus` computes the status from the informer's copy, which may
  predate a spec edit made during the probes. Only the resourceVersion check
  of `UpdateStatus` (line 820) stops a status for the old spec from being
  written over the new one. The hand edit `EditStatus` writes `Pending`, and
  the property leaves it out.
- `PublishedOnReady`: the spec's claim (section 4.3) that a Ready entry is
  published even when the status write fails. TLC finds a counterexample:
  1. the first sync probes successfully;
  2. `UpdateStatus` fails;
  3. the verdict is Ready while the cache is empty.

  The code (line 288) stores only after a successful write. This is recorded
  as a spec/code divergence in PROJECT.json. The next successful retry closes
  the gap, as `EventuallyConverged` shows.

**Mutants.** Each property has one, and TLC catches each under the run's
cfg:

- deleting after a successful write only;
- `havePreviouslyValidated` without the CA-hash comparison;
- storing only authenticators not already cached;
- an entry that records the bundle source instead of its hash;
- a status write without the resourceVersion, as a patch would send it;
- `SyncError` without the status write's error (run
  `jwt_converges_by_retry`). `FairSpec` does not catch this mutant, because
  the resync hides it.

### Fairness

The fairness assumed is weak fairness of the worker (`Controller`), of each
informer delivery and of `Resync`. The code justifies it: the worker
goroutine runs for the life of the process, the watches deliver every change,
and controllerlib's resync enqueues the key periodically. The environment gets
no fairness, and its budget is finite, so it eventually stops.
`RetrySpec` leaves out the resync's fairness. This assumes less than the code
provides, so what holds under it also holds for the code. It is used to
check that the error path alone reaches convergence.

## What is proved (JWTCacheFillerProofs)

All theorems are about `SpecNoFairness == Init /\ [][Next]_vars`. They hold
for every value of the constants allowed by the module's named assumptions:
`Auths` is a finite, non-empty set of naturals; the valid subsets are
included in their sets; `Invalid` is not a bundle; the bounds are naturals.

- **`TypeCorrect`** proves `[]TypeOK`. `TypeOK` alone is not inductive:
  storing an authenticator needs its bundle to be a real one. The inductive
  invariant `TypeInv` adds `CurConsistent`, which states three facts about
  the running sync's locals:
  - `tlsOk` says whether the bundle is usable;
  - a True TLS condition implies `tlsOk`;
  - a built authenticator implies `tlsOk`.

  The proof has one lemma per action, `InitTypeInv`, and `NextTypeInv`, which
  combines them.
- **`ErrorNeverServedHolds`** proves `[]ErrorNeverServed`, with the invariant
  `TypeInv /\ ErrorNeverServed`. Only `FinishSyncIndividual` touches the cache
  or the verdicts. Its phase is Error exactly when some condition is not True
  (`ErrorPhase`). In that case the removal empties the slot, and the store is
  not taken (`CacheWriteAt`).
- **`ReadyImpliesProbedHolds`** proves `[]ReadyImpliesProbed`. It needs two
  more invariants:
  - `CacheProbed`: every cached entry's issuer and bundle were probed, and
    its claims validate.
  - `CurProbed`: a sync at `finish` without an error condition has probed
    its pair, or found it in the cache.

  The skip branch of `BeginSyncIndividual` carries `CacheProbed` over to
  `cur` through `havePreviouslyValidated`'s hash check. `DoExpensiveValidations`
  adds the pair whenever the authenticator condition is True.
  `FinishSyncIndividual` stores only what `CurProbed` covers. TLC checked the
  invariant `ProbedInv` on the run's instance before the proof was written.

What stays with TLC:

- `EventuallyConverged`, which is liveness under fairness.
- `PublishedOnReady`, which fails.

## What is proved (JWTCacheFillerStatusProofs)

**`StatusForCurrentGenerationHolds`** proves
`SpecNoFairness => StatusForCurrentGeneration`, the action property, for
every instance.

**The inductive invariant.** `RVInv` is `TypeInv /\ CopiesOlder`.
`CopiesOlder` says that every copy the controller holds is the server's
object or an older one (`SameOrOlder`): its resourceVersion is at most the
server's, and equal only if the copies are the same object. This holds for
the informer's copy `seen[a]` and, while a sync probes or finishes, for the
copy `cur.obj` it read. It holds because every write to the API server moves
the resourceVersion by one (`WritesMoveRV`, `OlderAfterWrite`), and a copy
is only ever refreshed to the server's current object.

**The argument.**
- A finishing sync writes only when its copy's resourceVersion is the
  server's (`FinishWrite`).
- By `CopiesOlder`, that copy is then the server's object.
- So the generation the status records is the object's
  (`FinishStatusStep`).
- A spec edit keeps the status, and a hand edit writes `Pending`
  (`EnvironmentStatusStep`).
- `NextStatusStep` combines these cases into the step formula, and the
  theorem follows from `[]RVInv` by PTL.

## AuthorizeCallback: the Supervisor's authorize and callback endpoints

### What the code does

- `authorizeHandler.ServeHTTP` and `authorize` (auth_handler.go 100-220)
  handle a request in this order:
  1. fosite validates the request;
  2. `shouldShowIDPChooser` redirects to the chooser when no IDP is named and
     there is no default;
  3. `chooseUpstreamIDP` picks the IDP by display name, or the default;
  4. the request branches into the browserless flow or the browser flow.
- **The browserless flow** (`authorizeWithoutBrowser`) requires the static
  CLI client and non-empty username and password headers.
- **The browser flow** (`authorizeWithBrowser`) first reads the CSRF cookie
  (`readCSRFCookie`). `generateUpstreamAuthorizeRequestState` then reuses
  the cookie's value as the state's CSRF value when there is one. When there
  is none, it generates a fresh value (`generateValues`), puts it in the
  state and sets it as a cookie (`addCSRFSetCookieHeader`).
- **The callback handler** (callback_handler.go 36-133) runs
  `validateRequest`:
  - the method and Content-Type checks;
  - `oidc.ReadStateParamAndValidateCSRFCookie`;
  - a present code.

  It then looks the IDP up by the display name the state carries, answering
  422 if the IDP has gone, and calls `LoginFromCallback`.

### How the model corresponds

- **The actors.** Browsers are model values, and one of them, `Attacker`,
  tries login CSRF.
- **A request** is a record of the facts the handler branches on:
  - whether fosite accepts it;
  - the IDP name;
  - browserless or not;
  - the client;
  - the credential headers;
  - `prompt=none`.
- **Data.** A state parameter is a record: a sequence number, the CSRF value,
  the IDP name and configuration, and (as a history field) the initiating
  browser. Codes carry their state. Id 0 stands for a callback with an
  error instead of a code.
- **The actions:**
  - `ServeAuthorize` is the whole handler. The operators it uses are named
    after the Go functions and mapped to them.
  - `ReceiveAuthorizeResponse` is the browser processing a response: it
    stores the Set-Cookie value and holds the state for the upstream.
    Responses sit in `inflight` until processed, so two of them can be
    processed in either order.
  - `UpstreamLogin` is the upstream IDP issuing a code, or an error.
  - `PlantCallback` is the attacker making a victim open a callback URL
    the attacker obtained.
  - `ServeCallback` is the whole callback handler.
  - `SetProvider` and `SetNamed` are the IDP controllers and the
    administrator changing the registry between the steps.
- **From the spec.** The CSRF comparison and `LoginFromCallback` are outside
  `src/`. They are modelled from the spec and marked `spec_modelled`:
  - the cookie must be present and equal the state's CSRF value;
  - an upstream code is redeemed once, and only at the IDP configuration
    that issued it.
- **The history variable** `owner` records for which browser each CSRF value
  was generated. The properties and the proof use it; the code does not.

### Runs

| Run | cfg | Checks | Result |
|-----|-----|--------|--------|
| `authorize_callback` | `MC_AuthorizeCallback.cfg` | `TypeOK`, `NoLoginCSRF` | pass, 1,675,388 distinct states, about 70 s |
| `authorize_concurrent_first_logins` | `MC_AuthorizeCallback_OwnLoginsPassCSRF.cfg` | `OwnLoginsPassCSRF` | violation |
| `callback_state_reuse` | `MC_AuthorizeCallback_StateConsumedOnce.cfg` | `StateConsumedOnce` | violation |

**Instance.**
- Browsers: the user and the attacker.
- One IDP name, with two IDP configurations, so that a controller can
  replace it.
- Three CSRF tokens, under symmetry.
- Seven request kinds:
  - a plain browser request;
  - no IDP name;
  - `prompt=none`;
  - an invalid request;
  - browserless with the CLI;
  - browserless with a dynamic client;
  - browserless with blank headers.

**Bounds.** Three authorize requests, two upstream codes, two callbacks and
one registry change. Three requests allow two logins of the user plus one of
the attacker. Two codes allow a second code for one state. One registry
change removes or replaces the IDP between authorize and callback.
Deadlock checking is off because the bounded steps run out.

**Properties:**

- `NoLoginCSRF`: every session was created in the browser that started its
  login. The attacker can run its own login up to the upstream and plant the
  callback URL in the user's browser, with or without a cookie there. TLC
  finds no session that the user's browser makes for the attacker's login.
  It checks that the state's CSRF value is bound to a cookie that only the
  initiating browser holds.
- What `NoLoginCSRF` tests is the callback's check (callback_handler.go
  line 172). In the model, a browser's cookie only ever holds values the
  authorize handler generated for that browser. So a mistake in the
  authorize side's reuse of the cookie (auth_handler.go line 404) can make
  the user's own logins fail, but it cannot make a session for the wrong
  browser. That functional half is examined only by the violation run
  below.
- `OwnLoginsPassCSRF`: each state a browser holds for its own login matches
  its current cookie. TLC finds it violated:
  1. the user's browser, with no cookie, sends two authorize requests;
  2. each request generates a fresh value and sets it as the cookie;
  3. the browser processes both responses, and the cookie ends at the
     second value;
  4. the first login's callback now fails the CSRF check.

  Spec 4.4 describes only the reuse of a present cookie. This is recorded as
  a spec gap in PROJECT.json: concurrent first logins in one browser are not
  supported.
- `StateConsumedOnce`: two sessions with codes never come from the same
  authorize request. TLC finds it violated:
  1. one authorize request is made;
  2. the upstream step runs twice for the state, giving two codes;
  3. two callbacks each create a session.

  Spec section 3 says the state is consumed exactly once. The handler keeps
  no record of used states. This is recorded as a spec/code divergence.

**Mutants.**
- `TypeOK` is broken by a state that takes its CSRF value only from the
  cookie, which leaves it `None` on a first login.
- `NoLoginCSRF` is broken by a CSRF check that lets a request without a
  cookie through.

### What is proved (AuthorizeCallbackProofs)

- `AuthorizeCallbackTypeCorrect` proves `Spec => []TypeOK`.
- `NoLoginCSRFHolds` proves `Spec => []NoLoginCSRF`.
- Both hold for every set of browsers, names, IDP configurations, tokens and
  requests, and every bound, under `AuthorizeCallbackAssumption`:
  - the attacker is a browser;
  - the sentinels lie outside their sets;
  - the token set is finite;
  - the bounds are naturals.

**The inductive invariant.** `NoLoginCSRF` alone is not inductive: a callback
could pass the CSRF check with any cookie that matches. `Inv` adds that every
CSRF value in flight is owned by the right browser:
- `CookieOwned`: a browser's cookie was generated for it.
- `InflightOwned`: a response goes to the initiator, and its state's CSRF
  value and its Set-Cookie value were generated for that browser.
- `HeldOwned` and `WalletOwned`: the same for held states and for callback
  URLs. This includes URLs the attacker planted, since they carry the
  attacker's own state.

**The argument.**
- A callback passes only if the cookie equals the state's CSRF value
  (`CSRFCheckBindsBrowser`).
- The cookie's owner is the browser, and the state's owner is its initiator.
- So the browser is the initiator.
- `generateValues` picks only unowned tokens, so owning a new one disturbs no
  existing fact (`FreshKeepsOwners`).
- There is one lemma per action, and `NextInv` combines them. TLC checked
  `Inv` on the run's instance before the proof was written.

## ConciergeConfig: the Concierge's configuration loader

- **The model.** `FromPath` is modelled step by step:
  - `ReadFile` and `DecodeYAML`;
  - `SetDefaults`, which applies every defaulting helper in the code's order;
  - `Validate`, one disjunct per validation, in order, where the first
    failure ends the call;
  - `ValidateAndSetLogLevel`, which sets the process-wide level and then the
    label default.
- **Inputs.** A file is a record of the fields `FromPath` reads. `Nil` marks
  an omitted field.
- **Outside this file.** `groupsuffix.Validate` and plog's level parsing are
  given by constant sets.

| Run | cfg | Checks | Result |
|-----|-----|--------|--------|
| `concierge_config` | `MC_ConciergeConfig.cfg` | `TypeOK`, `MatchesReference`, `DefaultsAccepted`, `LogLevelSetOnlyOnSuccess` | pass, 238,026 distinct states, about 2 s |

**Inputs enumerated.** The run enumerates every combination of these values,
plus an unreadable file and an undecodable one:
- durations `Nil`, 0, nine months and a year;
- ports `Nil`, 1023, 1024, 65535 and 65536;
- with and without the required names;
- a valid and an invalid suffix and log level;
- with and without labels.

These are the boundary values of every check, and each default meets every
given value of the other field.

**Properties:**
- `MatchesReference` compares the step machine with `Acceptable`, a
  declarative reference written from the documented rules. The loader
  returns without error exactly for acceptable files. It then keeps every
  field given, and has installed the file's log level.
- `DefaultsAccepted` checks that a file giving only the required fields is
  accepted, which tests the default constants against the validators.
- `TypeOK` includes that a returned config has no nil field.
- `LogLevelSetOnlyOnSuccess` (an action property): the process-wide log
  level changes only on the step that returns the config without error. A
  file rejected by any validation leaves the level the process had. The
  level is a side effect of the last validation (line 80). The property
  therefore says that no earlier rejection, and no rejected level, changes
  it. Nothing can reject a file after the level is set.

**Mutants.**
- The label default dropped.
- The port range's top excluded.
- The two duration defaults swapped.
- The log level installed right after the API check, before the other
  validations.

### What is proved (ConciergeConfigProofs)

The theorems hold for every set of files, suffixes and log levels that
`ConciergeConfigAssumption` allows, not only the enumerated boundary values:

| Theorem | Proves |
|---------|--------|
| `ConciergeConfigTypeCorrect` | `Spec => []TypeOK` |
| `MatchesReferenceHolds` | `Spec => []MatchesReference` |
| `DefaultsAcceptedHolds` | `Spec => []DefaultsAccepted` |
| `LogLevelSetOnlyOnSuccessHolds` | `Spec => LogLevelSetOnlyOnSuccess` |

**The assumptions.**
- Every file is in `FileRecords`, the types of the `Config` struct's fields:
  integers for the durations and ports, strings for the suffix and the
  agent settings, each optional one possibly `Nil`.
- `Nil` is neither an integer, a string, nor one of the default strings.
- `None` is not one of the error strings.
- The default suffix is valid.

**The inductive invariant `IInv`.** It records what `FromPath` has
established when it reaches each step:
- before the defaults, the config is the decoded file;
- after them, it is `WithDefaults(file)`, and every validation before `pc`
  has passed;
- once it returns, the error is `None` exactly when `Acceptable(file)`, and
  then the config is the defaulted file with labels set and the file's
  level installed.

`IInv` was checked with TLC on the run's instance before it was proved.
There is one lemma per action (`ReadFileIInv` ... `ValidateAndSetLogLevelIInv`).
Each failing branch rests on `FailIInv`: an error ends the call only for a
file the reference rejects. `AcceptableAfterDefaults` gives that from the
staged validation facts.

**The operator lemmas.**
- `WithDefaultsValue` computes the chain of defaulting helpers as one
  record update.
- `ValidationsMeanAcceptable` shows the code's validators on the defaulted
  file are equivalent to the reference.
- `ReturnedHasNoNil`, `ReturnedKeepsGiven` and `MinimalAcceptable` are the
  facts the three theorems need.

**`UnprivilegedPorts`.** The port range `1024..65535` is named
`UnprivilegedPorts` and proved equivalent to the two comparisons of
`validateServerPort` once (`PortsMembership`). An interval literal with
such bounds inside a large obligation stalls the prover's preprocessing.

## Refinement: the cache filler implements an abstract cache

`AuthenticatorCache` states what the cache filler promises. The cache serves,
for each authenticator, either nothing or an entry whose issuer and bundle a
probe validated and whose claims validate. Probes only add to what is
validated.

`JWTCacheFiller` instantiates it:

```
AbstractCache == INSTANCE AuthenticatorCache WITH validated <- probedOK
```

The other names map to the same names. The run `jwt_refines_abstract_cache`
checks `AbstractCacheSpec` as a PROPERTY on the filler's instance: pass,
386,336 distinct states.

**What the mutants show.**
- An authenticator built without the claims check is caught: it publishes an
  entry the abstract cache refuses.
- A store that re-reads the spec after the status write is not caught, and
  this refinement does not close the stale-store hazard at line 288. The
  abstract cache asks only that a stored (issuer, bundle) pair was probed.
  It does not ask that the pair matches the spec the API server holds now.
- The resourceVersion conflict does not close that hazard either. When the
  computed status equals the informer copy's (the DeepEqual skip, line 815),
  no write happens, so no conflict can happen. TLC finds such a store with
  three environment events:
  1. a pass stores the entry for claims c1 and bundle b1;
  2. the spec's claims change to c2, and the informer has not delivered it;
  3. the bundle changes to b2, and that change is delivered;
  4. the next pass probes b2 against the old spec copy;
  5. the status it computes equals the copy's, so it writes nothing;
  6. it stores (c1, b2) while the API server holds c2.
- The run's instance (two environment events) cannot reach this store. The
  store is transient: the pending delivery of the spec requeues the key, and
  `EventuallyConverged` checks that the entry then matches the spec. Spec
  section 4.3 asks for no more than this, since informer lag is part of its
  model.

**The proof (JWTCacheFillerRefinement).** `CacheFillerImplementsAbstract`
proves `SpecNoFairness => AbstractCacheSpec` for every instance:
- `RefinementInit`: the initial states map to initial states.
- `ProbeRefines`: a probe step is a `Validate` step or a stutter.
- `FinishRefines`, split by cases:
  - an unchanged slot is a stutter;
  - a removed slot is a `Withdraw`;
  - a store is a `Publish`.

  The store case rests on `CurProbed`, from the invariant `ProbedInv` that
  `JWTCacheFillerProofs` proves.
- `RefinementStep` combines them.

## What stays with TLC

Every invariant and action property of a passing run is now proved for all
instances, except these:

- **Liveness under fairness.** `EventuallyConverged` is liveness under
  fairness, out of the prover's reach.
- **The violation runs.** Properties that fail are shown by TLC's traces.

One hazard has no property, neither checked nor proved:

- **The callback's IDP lookup by display name** (callback_handler.go 54).
  Whether an IDP that replaced the original refuses its code is decided in
  `LoginFromCallback`, outside `src/`. A property about it would restate the
  model's assumption, so none is stated.

## Not modelled

- **Authorize endpoint:**
  - a cookie or state that fails to decode after a key rotation;
  - errors of `UpstreamAuthorizeRedirectURL`;
  - fosite's checks beyond accept and reject;
  - `removeCustomIDPParams`;
  - the wording of responses.
- **Callback endpoint:**
  - deletion of the OIDC client between authorize and callback;
  - `errorMsgForNoCodeParam`;
  - audit logging.

  The downstream session storage is in fosite, not in `src/`.
- **The authenticator context leak** (jwtcachefiller.go 708). The model does
  not track contexts, and `authncache`, which would close replaced entries,
  is not in this repository.
- **FIPS profiles, test helpers, mocks and generated code.** These have no
  state to check.

## Plan for the next sittings

1. **Two authenticators.** A run with two authenticators and smaller budgets,
   for the pass-level error aggregation and requeue.
2. **Concurrent authorize requests.** Model the ServeAuthorize read of the
   cookie and the response write as separate steps, to see how concurrent
   requests interleave with other tabs' callbacks.
3. **Decode failures.** A codec key rotation between authorize and callback.
4. **Open authenticators.** A set of open authenticators, for the context
   leak, if authncache's replacement behaviour can be taken from the spec.
