-------------------------- MODULE AuthorizeCallback --------------------------
(***************************************************************************)
(* The Supervisor's authorize endpoint (auth/auth_handler.go) and callback *)
(* endpoint (callback/callback_handler.go), with the browsers that use     *)
(* them, the upstream identity providers and the IDP registry.             *)
(*                                                                         *)
(* A browser sends an authorize request.  The handler reads the request's  *)
(* CSRF cookie, resolves the IDP and either logs in directly (username and *)
(* password headers) or answers with a redirect to the upstream carrying   *)
(* an encoded state parameter and, when the request had no cookie, a       *)
(* Set-Cookie header.  The response reaches the browser later; two         *)
(* responses to the same browser may arrive in either order.  The user     *)
(* authenticates at the upstream, which sends the browser back to the      *)
(* callback with a code.  The callback checks the state against the        *)
(* cookie the browser sends, looks the IDP up again by display name,       *)
(* exchanges the code and creates the downstream session.                  *)
(*                                                                         *)
(* One browser is the attacker's: it can run its own logins and hand the   *)
(* resulting callback URL (state and code) to another browser, which is    *)
(* the login-CSRF attack the cookie exists to stop.                        *)
(***************************************************************************)
EXTENDS Naturals, FiniteSets

CONSTANTS
    Browsers,      \* the browsers (user agents) that talk to the Supervisor
    Attacker,      \* the browser of the attacker
    Names,         \* IDP display names
    IDPObjs,       \* resolved IDP configurations the registry can hold
    Tokens,        \* values generateCSRF can return
    Requests,      \* the authorize requests a browser can send
    MaxAuthorize,  \* bound on authorize requests served
    MaxCodes,      \* bound on codes the upstreams issue
    MaxCallbacks,  \* bound on callback requests served
    MaxAdmin,      \* bound on registry changes
    NoIDP,         \* no IDP under a display name
    None,          \* no cookie (readCSRFCookie's "")
    NoName         \* no pinniped_idp_name parameter

\* The client ID of the Pinniped CLI, the only client allowed to send
\* username and password headers.
CLI == "pinniped-cli"
Clients == {CLI, "dynamic"}

\* An authorize request, by what the handler's control depends on:
\*   valid      - AuditRequestParams, the method check and fosite's
\*                NewAuthorizeRequest accept it;
\*   idpName    - the pinniped_idp_name parameter, NoName when absent;
\*   browserless- the username or password header is present;
\*   client     - the client ID;
\*   creds      - "blank" when a header is empty, else whether the upstream
\*                accepts the credentials;
\*   promptNone - prompt=none together with the openid scope.
RequestKinds == [valid : BOOLEAN, idpName : Names \cup {NoName},
                 browserless : BOOLEAN, client : Clients,
                 creds : {"blank", "wrong", "right"}, promptNone : BOOLEAN]

ASSUME AuthorizeCallbackAssumption ==
    /\ Attacker \in Browsers
    /\ NoIDP \notin IDPObjs /\ None \notin Tokens /\ NoName \notin Names
    /\ None \notin Browsers
    /\ Requests \subseteq RequestKinds
    /\ IsFiniteSet(Tokens)
    /\ {MaxAuthorize, MaxCodes, MaxCallbacks, MaxAdmin} \subseteq Nat

\* The decoded upstream state parameter.  id stands for the nonce and PKCE
\* values that make each one distinct; initiator is a history field, the
\* browser whose request minted it.
States == [id : Nat, csrf : Tokens, name : Names, idp : IDPObjs,
           initiator : Browsers]
\* The callback URL the upstream sends a browser to; id 0 stands for a
\* redirect with an error instead of a code.
Codes == [id : Nat, state : States]
\* An authorize response on its way to a browser.
Responses == [to : Browsers, setCookie : Tokens \cup {None}, state : States]
\* A downstream session; authId is the authorize request it completes and
\* code the upstream code redeemed for it (0 for the browserless flow).
Sessions == [browser : Browsers, initiator : Browsers, authId : Nat,
             code : Nat, idp : IDPObjs]

VARIABLES
    cookie,        \* cookie[b]: the CSRF cookie browser b holds
    owner,         \* owner[t]: the browser whose request generated CSRF value
                   \* t, None while t is not yet generated (history)
    inflight,      \* authorize responses not yet processed by their browser
    held,          \* held[b]: upstream redirects browser b has followed
    wallet,        \* wallet[b]: callback URLs browser b can visit
    usedCodes,     \* codes the upstreams have redeemed
    reg,           \* reg[n]: the IDP registered under display name n
    named,         \* the FederationDomain names its IDPs explicitly
    sessions,      \* downstream sessions created
    nAuthorize, nCodes, nCallbacks, nAdmin

vars == <<cookie, owner, inflight, held, wallet, usedCodes, reg, named,
          sessions, nAuthorize, nCodes, nCallbacks, nAdmin>>

-----------------------------------------------------------------------------
(* The IDP registry (federationdomainproviders, not under src/).          *)

Present == {n \in Names : reg[n] # NoIDP}
IDPCount == Cardinality(Present)
\* Backward-compatibility mode: no IDP is named by the FederationDomain and
\* exactly one exists.
HasDefaultIDP == ~named /\ IDPCount = 1

\* chooseUpstreamIDP: the default IDP for an empty name, else the lookup by
\* display name.  The set of names it resolves to; empty is an error.
chooseUpstreamIDP(name) ==
    IF name = NoName THEN (IF HasDefaultIDP THEN Present ELSE {})
    ELSE Present \cap {name}

shouldShowIDPChooser(name, browserless) ==
    /\ name = NoName
    /\ ~browserless
    /\ ~HasDefaultIDP
    /\ IDPCount > 0

requireStaticClientForUsernameAndPasswordHeaders(q) == q.client = CLI
requireNonEmptyUsernameAndPasswordHeaders(q) == q.creds # "blank"

\* authorizeWithoutBrowser succeeds: the client check, the header check,
\* then idp.Login, which accepts only the right credentials.
LoginWithoutBrowserOK(q) ==
    /\ requireStaticClientForUsernameAndPasswordHeaders(q)
    /\ requireNonEmptyUsernameAndPasswordHeaders(q)
    /\ q.creds = "right"

\* readCSRFCookie: the CSRF value of the cookie browser b sends, None when
\* there is none.  Every cookie of the model was encoded by the codec, so
\* the decode error branch is not reached.
readCSRFCookie(b) == cookie[b]

\* generateValues: the CSRF values generateCSRF can return, one not
\* returned before (the nonce and PKCE values are the state's id).
generateValues == {x \in Tokens : owner[x] = None}

\* Mutant: the state always takes the cookie's value, even when there is none.
StateCSRF_cookieOnly(sent, fresh) == sent
\* The CSRF value of the state: the cookie's when the request had one,
\* else the freshly generated one.
StateCSRF(sent, fresh) == IF sent # None THEN sent ELSE fresh
\* The Set-Cookie header, added only when the request had no cookie.
SetCookieFor(sent, fresh) == IF sent = None THEN fresh ELSE None

\* upstreamStateParam: the state parameter's contents.
upstreamStateParam(id, n, idp, csrf, b) ==
    [id |-> id, csrf |-> csrf, name |-> n, idp |-> idp, initiator |-> b]

\* generateUpstreamAuthorizeRequestState for browser b and IDP name n, the
\* request carrying cookie value sent and generateValues returning fresh.
generateUpstreamAuthorizeRequestState(b, n, sent, fresh) ==
    upstreamStateParam(nAuthorize + 1, n, reg[n], StateCSRF(sent, fresh), b)

\* authorizeWithBrowser: the redirect to the upstream, or none when
\* prompt=none asks for a login without interaction (ErrLoginRequired is
\* returned before the cookie is added).
authorizeWithBrowser(b, n, q, sent, fresh) ==
    IF q.promptNone THEN {}
    ELSE {[to |-> b, setCookie |-> SetCookieFor(sent, fresh),
           state |-> generateUpstreamAuthorizeRequestState(b, n, sent, fresh)]}

-----------------------------------------------------------------------------
Init ==
    /\ cookie = [b \in Browsers |-> None]
    /\ owner = [t \in Tokens |-> None]
    /\ inflight = {}
    /\ held = [b \in Browsers |-> {}]
    /\ wallet = [b \in Browsers |-> {}]
    /\ usedCodes = {}
    /\ reg \in [Names -> IDPObjs \cup {NoIDP}]
    /\ named \in BOOLEAN
    /\ sessions = {}
    /\ nAuthorize = 0 /\ nCodes = 0 /\ nCallbacks = 0 /\ nAdmin = 0

\* ServeHTTP with authorize, for browser b sending request q with the cookie
\* it holds.  Every branch that writes only an error response leaves the
\* state as it is.
ServeAuthorize(b, q) ==
    /\ nAuthorize < MaxAuthorize
    /\ nAuthorize' = nAuthorize + 1
    /\ LET choice == chooseUpstreamIDP(q.idpName) IN
       \/ /\ \/ ~q.valid
             \/ shouldShowIDPChooser(q.idpName, q.browserless)
             \/ choice = {}
          /\ UNCHANGED <<owner, inflight, sessions>>
       \/ /\ q.valid
          /\ ~shouldShowIDPChooser(q.idpName, q.browserless)
          /\ \E n \in choice :
             IF q.browserless
             THEN /\ sessions' = IF LoginWithoutBrowserOK(q)
                                 THEN sessions \cup
                                      {[browser |-> b, initiator |-> b,
                                        authId |-> nAuthorize + 1, code |-> 0,
                                        idp |-> reg[n]]}
                                 ELSE sessions
                  /\ UNCHANGED <<owner, inflight>>
             ELSE \E t \in generateValues :
                  /\ owner' = [owner EXCEPT ![t] = b]
                  /\ inflight' = inflight \cup
                        authorizeWithBrowser(b, n, q, readCSRFCookie(b), t)
                  /\ UNCHANGED sessions
    /\ UNCHANGED <<cookie, held, wallet, usedCodes, reg, named, nCodes,
                   nCallbacks, nAdmin>>

\* The browser processes an authorize response: it stores the cookie of the
\* Set-Cookie header, replacing the one it had, and follows the redirect.
ReceiveAuthorizeResponse(r) ==
    /\ r \in inflight
    /\ inflight' = inflight \ {r}
    /\ cookie' = IF r.setCookie # None
                 THEN [cookie EXCEPT ![r.to] = r.setCookie] ELSE cookie
    /\ held' = [held EXCEPT ![r.to] = @ \cup {r.state}]
    /\ UNCHANGED <<owner, wallet, usedCodes, reg, named, sessions,
                   nAuthorize, nCodes, nCallbacks, nAdmin>>

\* The user of browser b authenticates at the upstream named in the state,
\* which redirects back to the callback with a fresh code for that state.
UpstreamLogin(b, s) ==
    /\ s \in held[b]
    /\ nCodes < MaxCodes
    /\ nCodes' = nCodes + 1
    /\ \E gotCode \in BOOLEAN :
          wallet' = [wallet EXCEPT ![b] = @ \cup
                       {[id |-> IF gotCode THEN nCodes + 1 ELSE 0, state |-> s]}]
    /\ UNCHANGED <<cookie, owner, inflight, held, usedCodes, reg, named,
                   sessions, nAuthorize, nCallbacks, nAdmin>>

\* The attacker makes browser v visit a callback URL of the attacker's.
PlantCallback(v, c) ==
    /\ v # Attacker
    /\ c \in wallet[Attacker]
    /\ wallet' = [wallet EXCEPT ![v] = @ \cup {c}]
    /\ UNCHANGED <<cookie, owner, inflight, held, usedCodes, reg, named,
                   sessions, nAuthorize, nCodes, nCallbacks, nAdmin>>

\* The callback request forms validateRequest tells apart.
CallbackForms == {"GET", "POST-urlencoded", "POST-no-type", "POST-other",
                  "PUT"}
\* validateRequest's method and Content-Type checks.
FormAccepted(f) == f \in {"GET", "POST-urlencoded"}

\* Mutant: a request without a cookie is let through.
CSRFMatches_noCookie(sent, s) == sent = None \/ sent = s.csrf
\* oidc.ReadStateParamAndValidateCSRFCookie (not under src/): the cookie is
\* present and equals the CSRF value of the state.
CSRFMatches(sent, s) == sent # None /\ sent = s.csrf

\* idp.LoginFromCallback (not under src/): the upstream redeems a code once,
\* and only at the IDP configuration that sent the user to it.
LoginFromCallbackOK(c, idp) == c.id \notin usedCodes /\ idp = c.state.idp

\* validateRequest: the form checks, the state and CSRF cookie check, and
\* a code parameter that is present (authcode).
validateRequest(b, c, f) ==
    /\ FormAccepted(f)
    /\ CSRFMatches(cookie[b], c.state)
    /\ c.id # 0

\* The callback handler, for browser b visiting callback URL c with form f
\* and the cookie it holds.
ServeCallback(b, c, f) ==
    /\ c \in wallet[b]
    /\ nCallbacks < MaxCallbacks
    /\ nCallbacks' = nCallbacks + 1
    /\ LET idp == reg[c.state.name] IN
       \/ /\ \/ ~validateRequest(b, c, f)
             \/ idp = NoIDP
          /\ UNCHANGED <<usedCodes, sessions>>
       \/ /\ validateRequest(b, c, f)
          /\ idp # NoIDP
          \* the exchange is attempted at idp: a code it issued is spent
          /\ usedCodes' = IF idp = c.state.idp THEN usedCodes \cup {c.id}
                          ELSE usedCodes
          /\ sessions' =
               IF LoginFromCallbackOK(c, idp)
               THEN sessions \cup {[browser |-> b,
                                    initiator |-> c.state.initiator,
                                    authId |-> c.state.id, code |-> c.id,
                                    idp |-> idp]}
               ELSE sessions
    /\ UNCHANGED <<cookie, owner, inflight, held, wallet, reg, named,
                   nAuthorize, nCodes, nAdmin>>

\* A controller replaces the IDP under display name n (SetProviders); the
\* administrator edits whether the FederationDomain names its IDPs.
SetProvider(n, o) ==
    /\ nAdmin < MaxAdmin
    /\ nAdmin' = nAdmin + 1
    /\ reg' = [reg EXCEPT ![n] = o]
    /\ UNCHANGED <<cookie, owner, inflight, held, wallet, usedCodes, named,
                   sessions, nAuthorize, nCodes, nCallbacks>>

SetNamed(v) ==
    /\ nAdmin < MaxAdmin
    /\ nAdmin' = nAdmin + 1
    /\ named' = v
    /\ UNCHANGED <<cookie, owner, inflight, held, wallet, usedCodes, reg,
                   sessions, nAuthorize, nCodes, nCallbacks>>

Next ==
    \/ \E b \in Browsers, q \in Requests : ServeAuthorize(b, q)
    \/ \E r \in inflight : ReceiveAuthorizeResponse(r)
    \/ \E b \in Browsers : \E s \in held[b] : UpstreamLogin(b, s)
    \/ \E v \in Browsers, c \in wallet[Attacker] : PlantCallback(v, c)
    \/ \E b \in Browsers, f \in CallbackForms :
          \E c \in wallet[b] : ServeCallback(b, c, f)
    \/ \E n \in Names, o \in IDPObjs \cup {NoIDP} : SetProvider(n, o)
    \/ \E v \in BOOLEAN : SetNamed(v)

Spec == Init /\ [][Next]_vars

-----------------------------------------------------------------------------
(* Properties.                                                             *)

\* Every variable has its type.
TypeOK ==
    /\ cookie \in [Browsers -> Tokens \cup {None}]
    /\ owner \in [Tokens -> Browsers \cup {None}]
    /\ inflight \subseteq Responses
    /\ held \in [Browsers -> SUBSET States]
    /\ wallet \in [Browsers -> SUBSET Codes]
    /\ usedCodes \subseteq Nat
    /\ reg \in [Names -> IDPObjs \cup {NoIDP}]
    /\ named \in BOOLEAN
    /\ sessions \subseteq Sessions
    /\ {nAuthorize, nCodes, nCallbacks, nAdmin} \subseteq Nat

\* No login CSRF: every session the callback creates in a browser completes
\* a login that browser itself started.  A callback URL the attacker plants
\* carries a state minted for the attacker's request; the CSRF cookie check
\* of validateRequest, with the cookie reuse of
\* generateUpstreamAuthorizeRequestState, must refuse it.
NoLoginCSRF == \A s \in sessions : s.browser = s.initiator

\* Two logins started in one browser can both finish: every upstream
\* redirect a browser followed for its own request carries the CSRF value
\* of the cookie the browser now holds.  The cookie reuse of
\* generateUpstreamAuthorizeRequestState (lines 404-407 and 428) is there
\* so that a new login does not break one already under way.
OwnLoginsPassCSRF ==
    \A b \in Browsers : \A s \in held[b] :
        s.initiator = b => cookie[b] = s.csrf

\* The state parameter is consumed once: no two sessions complete the same
\* authorize request through the callback.
StateConsumedOnce ==
    \A s1, s2 \in sessions :
        (s1.code # 0 /\ s2.code # 0 /\ s1.authId = s2.authId) => s1 = s2
==============================================================================
