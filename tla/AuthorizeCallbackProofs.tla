---------------------- MODULE AuthorizeCallbackProofs ----------------------
(***************************************************************************)
(* Proofs that AuthorizeCallback is type-correct and that no session is    *)
(* ever created for a login another browser started (NoLoginCSRF), for     *)
(* every number of browsers, names, tokens and requests.                   *)
(***************************************************************************)
EXTENDS AuthorizeCallback, TLAPS

\* Every CSRF value the model carries around belongs to the browser that it
\* claims: the cookie of b was generated for b, and the CSRF value of a state
\* was generated for the browser whose request minted it.  A response goes
\* to the browser that sent the request.
CookieOwned ==
    \A b \in Browsers : cookie[b] # None => owner[cookie[b]] = b
InflightOwned ==
    \A r \in inflight :
        /\ r.to = r.state.initiator
        /\ owner[r.state.csrf] = r.to
        /\ r.setCookie # None => owner[r.setCookie] = r.to
HeldOwned ==
    \A b \in Browsers : \A s \in held[b] : owner[s.csrf] = s.initiator
WalletOwned ==
    \A b \in Browsers : \A c \in wallet[b] :
        owner[c.state.csrf] = c.state.initiator

\* The inductive invariant.
Inv == TypeOK /\ CookieOwned /\ InflightOwned /\ HeldOwned /\ WalletOwned
       /\ NoLoginCSRF

\* The initial state satisfies the invariant: no cookie, response, redirect,
\* callback URL or session exists yet.
LEMMA InitInv == Init => Inv
BY DEF Init, Inv, TypeOK, CookieOwned, InflightOwned, HeldOwned, WalletOwned,
       NoLoginCSRF

\* Processing a response moves its state to held and its Set-Cookie value
\* to the cookie of the browser it was sent to, both owned by that browser.
LEMMA ReceiveInv ==
    ASSUME Inv, NEW r \in inflight, ReceiveAuthorizeResponse(r)
    PROVE  Inv'
<1>1. r \in Responses /\ owner' = owner
  BY DEF Inv, TypeOK, ReceiveAuthorizeResponse
<1>2. TypeOK'
  BY <1>1 DEF Inv, TypeOK, ReceiveAuthorizeResponse, Responses
<1>3. CookieOwned'
  BY <1>1 DEF Inv, TypeOK, InflightOwned, CookieOwned, ReceiveAuthorizeResponse
<1>4. HeldOwned'
  BY <1>1 DEF Inv, TypeOK, InflightOwned, HeldOwned, ReceiveAuthorizeResponse
<1>5. InflightOwned' /\ WalletOwned' /\ NoLoginCSRF'
  BY <1>1 DEF Inv, InflightOwned, WalletOwned, NoLoginCSRF,
              ReceiveAuthorizeResponse
<1>. QED
  BY <1>2, <1>3, <1>4, <1>5 DEF Inv

\* An upstream login adds a callback URL for a state the browser holds.
LEMMA UpstreamLoginInv ==
    ASSUME Inv, NEW b \in Browsers, NEW s \in held[b], UpstreamLogin(b, s)
    PROVE  Inv'
<1>1. TypeOK'
  BY DEF Inv, TypeOK, UpstreamLogin, Codes
<1>2. WalletOwned'
  BY DEF Inv, TypeOK, HeldOwned, WalletOwned, UpstreamLogin
<1>. QED
  BY <1>1, <1>2 DEF Inv, CookieOwned, InflightOwned, HeldOwned, NoLoginCSRF,
                    UpstreamLogin

\* Planting copies a callback URL of the attacker's, states included.
LEMMA PlantInv ==
    ASSUME Inv, NEW v \in Browsers, NEW c \in wallet[Attacker],
           PlantCallback(v, c)
    PROVE  Inv'
<1>0. Attacker \in Browsers
  BY AuthorizeCallbackAssumption
<1>1. TypeOK'
  BY <1>0 DEF Inv, TypeOK, PlantCallback
<1>2. WalletOwned'
  BY <1>0 DEF Inv, TypeOK, WalletOwned, PlantCallback
<1>. QED
  BY <1>1, <1>2 DEF Inv, CookieOwned, InflightOwned, HeldOwned, NoLoginCSRF,
                    PlantCallback

\* A registry change touches nothing the invariant is about but reg.
LEMMA AdminInv ==
    ASSUME Inv,
           \/ \E n \in Names, o \in IDPObjs \cup {NoIDP} : SetProvider(n, o)
           \/ \E v \in BOOLEAN : SetNamed(v)
    PROVE  Inv'
<1>. DEFINE others == <<cookie, owner, inflight, held, wallet, usedCodes,
                        sessions, nAuthorize, nCodes, nCallbacks>>
<1>1. CASE \E n \in Names, o \in IDPObjs \cup {NoIDP} : SetProvider(n, o)
  <2>. PICK n \in Names, o \in IDPObjs \cup {NoIDP} : SetProvider(n, o)
    BY <1>1
  <2>1. UNCHANGED others /\ named' = named
    BY DEF SetProvider
  <2>2. reg' \in [Names -> IDPObjs \cup {NoIDP}] /\ nAdmin' \in Nat
    BY DEF Inv, TypeOK, SetProvider
  <2>. QED
    BY <2>1, <2>2 DEF Inv, TypeOK, CookieOwned, InflightOwned, HeldOwned,
                      WalletOwned, NoLoginCSRF
<1>2. CASE \E v \in BOOLEAN : SetNamed(v)
  <2>. PICK v \in BOOLEAN : SetNamed(v)
    BY <1>2
  <2>1. UNCHANGED others /\ reg' = reg
    BY DEF SetNamed
  <2>2. named' \in BOOLEAN /\ nAdmin' \in Nat
    BY DEF Inv, TypeOK, SetNamed
  <2>. QED
    BY <2>1, <2>2 DEF Inv, TypeOK, CookieOwned, InflightOwned, HeldOwned,
                      WalletOwned, NoLoginCSRF
<1>. QED
  BY <1>1, <1>2

\* The heart of NoLoginCSRF: a callback that passes the CSRF check in
\* browser b presents a state whose CSRF value is b's cookie, and both the
\* cookie and the state's value are owned, so the state was minted for b.
LEMMA CSRFCheckBindsBrowser ==
    ASSUME Inv, NEW b \in Browsers, NEW c \in wallet[b],
           CSRFMatches(cookie[b], c.state)
    PROVE  c.state.initiator = b
<1>1. owner[cookie[b]] = b
  BY DEF Inv, CookieOwned, CSRFMatches
<1>2. owner[c.state.csrf] = c.state.initiator
  BY DEF Inv, WalletOwned
<1>. QED
  BY <1>1, <1>2 DEF CSRFMatches

\* The callback adds a session only after the CSRF check.
LEMMA CallbackInv ==
    ASSUME Inv, NEW b \in Browsers, NEW f \in CallbackForms,
           NEW c \in wallet[b], ServeCallback(b, c, f)
    PROVE  Inv'
<1>. DEFINE idp == reg[c.state.name]
            new == [browser |-> b, initiator |-> c.state.initiator,
                    authId |-> c.state.id, code |-> c.id, idp |-> idp]
<1>0. c \in Codes /\ idp \in IDPObjs \cup {NoIDP}
  BY DEF Inv, TypeOK, Codes, States
<1>1. CASE /\ \/ ~validateRequest(b, c, f)
              \/ idp = NoIDP
           /\ UNCHANGED <<usedCodes, sessions>>
  BY <1>1 DEF ServeCallback, Inv, TypeOK, CookieOwned, InflightOwned,
              HeldOwned, WalletOwned, NoLoginCSRF
<1>2. CASE /\ validateRequest(b, c, f)
           /\ idp # NoIDP
           /\ usedCodes' = IF idp = c.state.idp THEN usedCodes \cup {c.id}
                           ELSE usedCodes
           /\ sessions' = IF LoginFromCallbackOK(c, idp)
                          THEN sessions \cup {new} ELSE sessions
  <2>1. c.state.initiator = b
    BY <1>2, CSRFCheckBindsBrowser DEF validateRequest
  <2>2. new \in Sessions
    BY <1>0, <1>2 DEF Codes, States, Sessions, validateRequest
  <2>3. sessions' \subseteq Sessions /\ NoLoginCSRF'
    BY <1>2, <2>1, <2>2 DEF Inv, TypeOK, NoLoginCSRF
  <2>4. usedCodes' \subseteq Nat
    BY <1>0, <1>2 DEF Inv, TypeOK, Codes, validateRequest
  <2>. QED
    BY <2>3, <2>4 DEF ServeCallback, Inv, TypeOK, CookieOwned, InflightOwned,
                      HeldOwned, WalletOwned
<1>. QED
  BY <1>1, <1>2 DEF ServeCallback

\* chooseUpstreamIDP resolves only names the registry holds.
LEMMA ChooseInRegistry ==
    ASSUME NEW name \in Names \cup {NoName}
    PROVE  chooseUpstreamIDP(name) \subseteq Present
BY DEF chooseUpstreamIDP

\* Generating a fresh CSRF value for b leaves the owner of every value
\* already generated as it was.
LEMMA FreshKeepsOwners ==
    ASSUME TypeOK, NEW b \in Browsers, NEW t \in Tokens, owner[t] = None,
           owner' = [owner EXCEPT ![t] = b],
           NEW x \in Tokens, owner[x] \in Browsers
    PROVE  owner'[x] = owner[x]
BY AuthorizeCallbackAssumption DEF TypeOK

\* The authorize handler preserves the invariant.  In the browser flow the
\* state's CSRF value is either the cookie the request carried, which b
\* owns, or the value just generated for b; the Set-Cookie header carries
\* the latter.
LEMMA AuthorizeInv ==
    ASSUME Inv, NEW b \in Browsers, NEW q \in Requests, ServeAuthorize(b, q)
    PROVE  Inv'
<1>. DEFINE sent == readCSRFCookie(b)
            choice == chooseUpstreamIDP(q.idpName)
<1>0. /\ q \in RequestKinds
      /\ choice \subseteq Present
      /\ nAuthorize' \in Nat
      /\ UNCHANGED <<cookie, held, wallet, usedCodes, reg, named, nCodes,
                     nCallbacks, nAdmin>>
  BY AuthorizeCallbackAssumption, ChooseInRegistry DEF RequestKinds,
     ServeAuthorize, Inv, TypeOK
<1>1. CASE UNCHANGED <<owner, inflight, sessions>>
  BY <1>0, <1>1 DEF Inv, TypeOK, CookieOwned, InflightOwned, HeldOwned,
                    WalletOwned, NoLoginCSRF
<1>2. CASE /\ q.valid
           /\ ~shouldShowIDPChooser(q.idpName, q.browserless)
           /\ \E n \in choice :
              IF q.browserless
              THEN /\ sessions' = IF LoginWithoutBrowserOK(q)
                                  THEN sessions \cup
                                       {[browser |-> b, initiator |-> b,
                                         authId |-> nAuthorize + 1, code |-> 0,
                                         idp |-> reg[n]]}
                                  ELSE sessions
                   /\ UNCHANGED <<owner, inflight>>
              ELSE \E t \in generateValues :
                   /\ owner' = [owner EXCEPT ![t] = b]
                   /\ inflight' = inflight \cup
                         authorizeWithBrowser(b, n, q, sent, t)
                   /\ UNCHANGED sessions
  <2>. PICK n \in choice :
              IF q.browserless
              THEN /\ sessions' = IF LoginWithoutBrowserOK(q)
                                  THEN sessions \cup
                                       {[browser |-> b, initiator |-> b,
                                         authId |-> nAuthorize + 1, code |-> 0,
                                         idp |-> reg[n]]}
                                  ELSE sessions
                   /\ UNCHANGED <<owner, inflight>>
              ELSE \E t \in generateValues :
                   /\ owner' = [owner EXCEPT ![t] = b]
                   /\ inflight' = inflight \cup
                         authorizeWithBrowser(b, n, q, sent, t)
                   /\ UNCHANGED sessions
    BY <1>2
  <2>0. n \in Names /\ reg[n] \in IDPObjs /\ nAuthorize + 1 \in Nat
    BY <1>0 DEF Present, Inv, TypeOK
  <2>1. CASE q.browserless
    <3>1. /\ sessions' \subseteq Sessions
          /\ NoLoginCSRF'
          /\ UNCHANGED <<owner, inflight>>
      BY <2>0, <2>1 DEF Inv, TypeOK, NoLoginCSRF, Sessions
    <3>. QED
      BY <1>0, <3>1 DEF Inv, TypeOK, CookieOwned, InflightOwned, HeldOwned,
                        WalletOwned
  <2>2. CASE ~q.browserless
    <3>. PICK t \in generateValues :
              /\ owner' = [owner EXCEPT ![t] = b]
              /\ inflight' = inflight \cup
                    authorizeWithBrowser(b, n, q, sent, t)
              /\ UNCHANGED sessions
      BY <2>2
    <3>. DEFINE new == [to |-> b, setCookie |-> SetCookieFor(sent, t),
                        state |-> generateUpstreamAuthorizeRequestState(
                                     b, n, sent, t)]
    <3>0. t \in Tokens /\ owner[t] = None /\ sessions' = sessions
      BY DEF generateValues
    <3>1. sent \in Tokens \cup {None} /\ (sent # None => owner[sent] = b)
      BY DEF Inv, TypeOK, CookieOwned, readCSRFCookie
    <3>2. owner' \in [Tokens -> Browsers \cup {None}] /\ owner'[t] = b
      BY <3>0 DEF Inv, TypeOK
    <3>3. owner'[StateCSRF(sent, t)] = b /\ StateCSRF(sent, t) \in Tokens
      <4>1. CASE sent = None
        BY <3>2, <4>1 DEF StateCSRF
      <4>2. CASE sent # None
        BY <3>0, <3>1, <4>2, FreshKeepsOwners DEF StateCSRF, Inv
      <4>. QED
        BY <4>1, <4>2
    <3>4. /\ SetCookieFor(sent, t) \in Tokens \cup {None}
          /\ SetCookieFor(sent, t) # None => owner'[SetCookieFor(sent, t)] = b
      BY <3>0, <3>2 DEF SetCookieFor
    <3>5. /\ new \in Responses
          /\ new.to = new.state.initiator
          /\ owner'[new.state.csrf] = new.to
          /\ new.setCookie # None => owner'[new.setCookie] = new.to
      BY <2>0, <3>3, <3>4 DEF Responses, States,
         generateUpstreamAuthorizeRequestState, upstreamStateParam
    <3>6. inflight' \subseteq inflight \cup {new}
      BY DEF authorizeWithBrowser
    <3>7. \A x \in Tokens : owner[x] \in Browsers => owner'[x] = owner[x]
      BY <3>0, FreshKeepsOwners DEF Inv
    <3>8. TypeOK'
      BY <1>0, <3>0, <3>2, <3>5, <3>6 DEF Inv, TypeOK
    <3>9. CookieOwned' /\ HeldOwned' /\ WalletOwned'
      BY <1>0, <3>7 DEF Inv, TypeOK, CookieOwned, HeldOwned, WalletOwned,
                        States, Codes
    <3>10. InflightOwned'
      <4>1. \A r \in inflight :
              /\ r.to = r.state.initiator
              /\ owner'[r.state.csrf] = r.to
              /\ r.setCookie # None => owner'[r.setCookie] = r.to
        BY <3>7 DEF Inv, TypeOK, InflightOwned, Responses, States
      <4>. QED
        BY <3>5, <3>6, <4>1 DEF InflightOwned
    <3>11. NoLoginCSRF'
      BY <3>0 DEF Inv, NoLoginCSRF
    <3>. QED
      BY <3>8, <3>9, <3>10, <3>11 DEF Inv
  <2>. QED
    BY <2>1, <2>2
<1>. QED
  BY <1>1, <1>2 DEF ServeAuthorize

\* Every step of the model preserves the invariant.
LEMMA NextInv == Inv /\ [Next]_vars => Inv'
<1>. SUFFICES ASSUME Inv, [Next]_vars PROVE Inv'
  OBVIOUS
<1>1. CASE \E b \in Browsers, q \in Requests : ServeAuthorize(b, q)
  BY <1>1, AuthorizeInv
<1>2. CASE \E r \in inflight : ReceiveAuthorizeResponse(r)
  BY <1>2, ReceiveInv
<1>3. CASE \E b \in Browsers : \E s \in held[b] : UpstreamLogin(b, s)
  BY <1>3, UpstreamLoginInv
<1>4. CASE \E v \in Browsers, c \in wallet[Attacker] : PlantCallback(v, c)
  BY <1>4, PlantInv
<1>5. CASE \E b \in Browsers, f \in CallbackForms :
              \E c \in wallet[b] : ServeCallback(b, c, f)
  BY <1>5, CallbackInv
<1>6. CASE \/ \E n \in Names, o \in IDPObjs \cup {NoIDP} : SetProvider(n, o)
           \/ \E v \in BOOLEAN : SetNamed(v)
  BY <1>6, AdminInv
<1>7. CASE UNCHANGED vars
  BY <1>7 DEF vars, Inv, TypeOK, CookieOwned, InflightOwned, HeldOwned,
              WalletOwned, NoLoginCSRF
<1>. QED
  BY <1>1, <1>2, <1>3, <1>4, <1>5, <1>6, <1>7 DEF Next

\* The authorize and callback handlers keep every variable in its type.
THEOREM AuthorizeCallbackTypeCorrect == Spec => []TypeOK
<1>1. Init => Inv
  BY InitInv
<1>2. Inv /\ [Next]_vars => Inv'
  BY NextInv
<1>3. Inv => TypeOK
  BY DEF Inv
<1>. QED
  BY <1>1, <1>2, <1>3, PTL DEF Spec

\* No login CSRF, for every number of browsers, IDPs and CSRF values: the
\* callback creates a session in a browser only for a login that browser
\* started, however the attacker hands its callback URLs around, because
\* validateRequest checks the state's CSRF value against the cookie and
\* generateUpstreamAuthorizeRequestState puts only b's own values there.
THEOREM NoLoginCSRFHolds == Spec => []NoLoginCSRF
<1>1. Init => Inv
  BY InitInv
<1>2. Inv /\ [Next]_vars => Inv'
  BY NextInv
<1>3. Inv => NoLoginCSRF
  BY DEF Inv
<1>. QED
  BY <1>1, <1>2, <1>3, PTL DEF Spec
==============================================================================
