------------------------ MODULE MC_AuthorizeCallback ------------------------
(* A small instance of AuthorizeCallback: a user's browser and the         *)
(* attacker's, one IDP display name with two configurations it can hold,   *)
(* and the authorize requests that reach every branch of ServeHTTP.        *)
EXTENDS AuthorizeCallback, TLC

CONSTANTS user, evil, n1, o1, o2, t1, t2, t3, noIDP, none, noName

MCBrowsers == {user, evil}
MCNames == {n1}
MCIDPObjs == {o1, o2}
MCTokens == {t1, t2, t3}

\* A request with every check passing, and the variants each reaching one
\* branch of ServeHTTP, authorize and authorizeWithoutBrowser.
BrowserRequest == [valid |-> TRUE, idpName |-> n1, browserless |-> FALSE,
                   client |-> CLI, creds |-> "right", promptNone |-> FALSE]
MCRequests ==
    { BrowserRequest,
      [BrowserRequest EXCEPT !.idpName = noName],
      [BrowserRequest EXCEPT !.promptNone = TRUE],
      [BrowserRequest EXCEPT !.valid = FALSE],
      [BrowserRequest EXCEPT !.browserless = TRUE],
      [BrowserRequest EXCEPT !.browserless = TRUE, !.client = "dynamic"],
      [BrowserRequest EXCEPT !.browserless = TRUE, !.creds = "blank"] }

\* The browsers are interchangeable only if the attacker is not among them.
MCSymmetry == Permutations(MCTokens)
==============================================================================
