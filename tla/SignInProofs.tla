---------------------------- MODULE SignInProofs -----------------------------
(***************************************************************************)
(* Proofs about SignIn, for any tabs, browsers and logins.  That a session *)
(* is its browser's own is handed on from step to step of a login: who     *)
(* began it is kept in the login cookie (OwnCookies), in the address a tab *)
(* is at (OwnAddresses) and at Hydra (GrantsAreOwn).  How far redirects go *)
(* is counted by the place they have come to (HopsCounted); that a logout  *)
(* ended both sessions is kept of the tabs about to end the second         *)
(* (KratosEnded).                                                          *)
(***************************************************************************)
EXTENDS SignIn, TLAPS

Cookies == [login : Logins, dest : {App, Elsewhere}]
Names == Logins \cup {None}
Places == {"blank", "app", "error", "form", "authorize", "page", "kratos", "flow", "consent", "bff",
           "callback", "exchanging", "verifying", "saved", "end", "logout", "ending", "accepting",
           "logged_out"}
Addresses == [at : Places, login : Names, code : Names, dest : Names \cup {App, Elsewhere},
              cookie : Cookies \cup {None}, hops : Nat]

SignInTypes ==
    /\ browser \in [Tabs -> Browsers]
    /\ tab \in [Tabs -> Addresses]
    /\ jar \in [Browsers -> [login : Cookies \cup {None}, session : Names]]
    /\ grant \in [Logins -> {"none", "code", "spent"}]
    /\ began \in [Logins -> Browsers \cup {None}]
    /\ user \in [Logins -> Browsers \cup {None}]

(* What an address has in it of a login is of one that browser b began: on *)
(* the way to the consent by the challenge, afterwards by the login cookie *)
(* the callback was compared with.                                         *)
Own(b, where) ==
    /\ where.at \in {"authorize", "page", "kratos", "consent"} /\ where.login # None =>
          began[where.login] = b
    /\ where.at = "kratos" => where.login # None
    /\ where.at \in {"flow", "form"} => where.code # None /\ began[where.code] = b
    /\ where.at = "consent" /\ where.login # None => user[where.login] = b
    /\ where.at = "exchanging" => where.login # None /\ began[where.login] = b
                                  /\ where.cookie.login = where.login
    /\ where.at \in {"verifying", "saved"} =>
          /\ where.code # None /\ began[where.code] = b /\ grant[where.code] # "none"
          /\ where.cookie.login = where.code
    /\ where.at \in {"exchanging", "verifying", "saved"} =>
          where.cookie \in Cookies /\ where.cookie.dest = App
    /\ where.at = "app" => where.dest = App

OwnAddresses == \A t \in Tabs : Own(browser[t], tab[t])
OwnCookies ==
    \A b \in Browsers :
       /\ jar[b].login # None => began[jar[b].login.login] = b
       /\ jar[b].session # None => began[jar[b].session] = b /\ user[jar[b].session] = b
GrantsAreOwn == \A l \in Logins : grant[l] # "none" => user[l] = began[l]

SignInInv == SignInTypes /\ OwnAddresses /\ OwnCookies /\ GrantsAreOwn

-----------------------------------------------------------------------------
(* Steps in general                                                        *)

\* A redirect counts its hop and changes nothing else of the address.
LEMMA SentOn ==
  ASSUME SignInTypes, NEW t \in Tabs, NEW where \in Addresses, Redirect(t, where) \/ Open(t, where)
  PROVE  \E w \in Addresses :
            /\ tab' = [tab EXCEPT ![t] = w]
            /\ w.at = where.at /\ w.login = where.login /\ w.code = where.code
            /\ w.dest = where.dest /\ w.cookie = where.cookie
<1>1. CASE Open(t, where)
  BY <1>1 DEF Open
<1>2. CASE Redirect(t, where)
  <2> DEFINE n == IF where.at \in Resting THEN 0 ELSE tab[t].hops + 1
             w == [where EXCEPT !.hops = n]
  <2>1. n \in Nat
    BY DEF SignInTypes, Addresses
  <2>2. /\ w \in Addresses
        /\ w.at = where.at /\ w.login = where.login /\ w.code = where.code
        /\ w.dest = where.dest /\ w.cookie = where.cookie
    <3> HIDE DEF n
    <3> QED
      BY <2>1 DEF Addresses
  <2>3. tab' = [tab EXCEPT ![t] = w]
    BY <1>2 DEF Redirect, Open
  <2> QED
    BY <2>2, <2>3
<1> QED
  BY <1>1, <1>2

(* An address and what is in it.                                           *)
Has(w, at, login, code, dest, cookie) ==
    /\ w \in Addresses
    /\ w.at = at /\ w.login = login /\ w.code = code /\ w.dest = dest /\ w.cookie = cookie

\* What the addresses have in them that the handlers redirect to.
LEMMA AddressHas ==
  ASSUME NEW at \in Places PROVE Has(Address(at), at, None, None, None, None)
  BY DEF Address, Addresses, Names, Has
\* A tab has an address, with names of logins in it.
LEMMA TabHas ==
  ASSUME SignInTypes, NEW t \in Tabs
  PROVE  /\ Has(tab[t], tab[t].at, tab[t].login, tab[t].code, tab[t].dest, tab[t].cookie)
         /\ tab[t].login \in Names /\ tab[t].code \in Names
         /\ tab[t].dest \in Names \cup {App, Elsewhere}
  BY DEF SignInTypes, Addresses, Has
\* Another login put into an address.
LEMMA WithLogin ==
  ASSUME NEW a, NEW at, NEW l, NEW c, NEW d, NEW k, Has(a, at, l, c, d, k), NEW m \in Names
  PROVE  Has([a EXCEPT !.login = m], at, m, c, d, k)
  BY DEF Has, Addresses
\* Another code put into an address.
LEMMA WithCode ==
  ASSUME NEW a, NEW at, NEW l, NEW c, NEW d, NEW k, Has(a, at, l, c, d, k), NEW m \in Names
  PROVE  Has([a EXCEPT !.code = m], at, l, m, d, k)
  BY DEF Has, Addresses
\* A login and a code put into an address.
LEMMA WithBoth ==
  ASSUME NEW a, NEW at, NEW l, NEW c, NEW d, NEW k, Has(a, at, l, c, d, k),
         NEW m \in Names, NEW n \in Names
  PROVE  Has([a EXCEPT !.login = m, !.code = n], at, m, n, d, k)
  BY DEF Has, Addresses
\* An address moved to another place.
LEMMA WithPlace ==
  ASSUME NEW a, NEW at, NEW l, NEW c, NEW d, NEW k, Has(a, at, l, c, d, k), NEW p \in Places
  PROVE  Has([a EXCEPT !.at = p], p, l, c, d, k)
  BY DEF Has, Addresses
\* Another destination put into an address.
LEMMA WithDest ==
  ASSUME NEW a, NEW at, NEW l, NEW c, NEW d, NEW k, Has(a, at, l, c, d, k),
         NEW e \in Names \cup {App, Elsewhere}
  PROVE  Has([a EXCEPT !.dest = e], at, l, c, e, k)
  BY DEF Has, Addresses
\* A code and a destination put into an address.
LEMMA WithCodeAndDest ==
  ASSUME NEW a, NEW at, NEW l, NEW c, NEW d, NEW k, Has(a, at, l, c, d, k),
         NEW m \in Names, NEW e \in Names \cup {App, Elsewhere}
  PROVE  Has([a EXCEPT !.code = m, !.dest = e], at, l, m, e, k)
  BY DEF Has, Addresses
\* The login cookie and the old session kept by the callback, with its address.
LEMMA WithCookie ==
  ASSUME NEW a, NEW at, NEW l, NEW c, NEW d, NEW k, Has(a, at, l, c, d, k), NEW p \in Places,
         NEW q \in Cookies \cup {None}, NEW e \in Names \cup {App, Elsewhere}
  PROVE  Has([a EXCEPT !.at = p, !.cookie = q, !.dest = e], p, l, c, e, q)
  BY DEF Has, Addresses

(* One tab goes on to an address of its browser's own logins, and whoever  *)
(* is signed in with at Hydra began the login.                             *)
HydraGoesOn ==
    /\ began' = began
    /\ grant' \in [Logins -> {"none", "code", "spent"}]
    /\ user' \in [Logins -> Browsers \cup {None}]
    /\ \A l \in Logins : /\ grant[l] # "none" => grant'[l] # "none"
                         /\ grant'[l] # "none" => user'[l] = began[l]
                         /\ user'[l] # user[l] => user'[l] = began[l]
CookiesGoOn ==
    /\ jar' \in [Browsers -> [login : Cookies \cup {None}, session : Names]]
    /\ OwnCookies'
GoesOn(t, where) ==
    /\ where \in Addresses /\ browser' = browser
    /\ Redirect(t, where) \/ Open(t, where)
    /\ HydraGoesOn /\ CookiesGoOn
    /\ Own(browser[t], where)'

\* Whoever's addresses and cookies are of its own logins keeps them so.
LEMMA MoveKeepsSignInInv ==
  ASSUME SignInInv, NEW t \in Tabs, NEW where, GoesOn(t, where)
  PROVE  SignInInv'
<1> USE DEF GoesOn, HydraGoesOn, CookiesGoOn
<1> USE DEF SignInInv
<1>1. PICK w \in Addresses :
        /\ tab' = [tab EXCEPT ![t] = w]
        /\ w.at = where.at /\ w.login = where.login /\ w.code = where.code
        /\ w.dest = where.dest /\ w.cookie = where.cookie
  BY SentOn
<1>2. SignInTypes'
  BY <1>1 DEF SignInTypes
<1>3. ASSUME NEW u \in Tabs PROVE Own(browser[u], tab[u])'
  <2>1. CASE u = t
    <3>1. tab'[u] = w /\ browser'[u] = browser[t]
      BY <1>1, <2>1 DEF SignInTypes
    <3> QED
      BY <1>1, <3>1 DEF Own
  <2>2. CASE u # t
    <3>1. tab'[u] = tab[u] /\ browser'[u] = browser[u] /\ tab[u] \in Addresses
      BY <1>1, <2>2 DEF SignInTypes
    <3>2. Own(browser[u], tab[u])
      BY DEF OwnAddresses
    <3>3. /\ tab[u].login # None => tab[u].login \in Logins
          /\ tab[u].code # None => tab[u].code \in Logins
      BY <3>1 DEF Addresses, Names
    <3> QED
      BY <3>1, <3>2, <3>3 DEF Own
  <2> QED
    BY <2>1, <2>2
<1> QED
  BY <1>2, <1>3 DEF OwnAddresses, GrantsAreOwn

\* One tab goes on, and neither cookies nor Hydra change.
LEMMA QuietKeepsSignInInv ==
  ASSUME SignInInv, NEW t \in Tabs, NEW where \in Addresses,
         Redirect(t, where) \/ Open(t, where),
         UNCHANGED <<browser, jar, grant, began, user>>,
         Own(browser[t], where)
  PROVE  SignInInv'
<1>1. Own(browser[t], where)'
  BY DEF Own
<1>2. HydraGoesOn
  BY DEF HydraGoesOn, SignInInv, SignInTypes, GrantsAreOwn
<1>3. CookiesGoOn
  BY DEF CookiesGoOn, OwnCookies, SignInInv, SignInTypes
<1>4. GoesOn(t, where)
  BY <1>1, <1>2, <1>3 DEF GoesOn
<1> QED
  BY <1>4, MoveKeepsSignInInv

\* An error page and the like have nothing of a login in them.
LEMMA BareAddress ==
  ASSUME NEW b, NEW at \in Places, at \notin {"kratos", "flow", "form", "exchanging", "verifying", "saved", "app"}
  PROVE  Address(at) \in Addresses /\ Address(at).login = None /\ Own(b, Address(at))
  BY DEF Address, Addresses, Names, Own

\* A tab in which a handler fails shows an error page.
LEMMA ErrorKeepsSignInInv ==
  ASSUME SignInInv, NEW t \in Tabs, ErrorPage(t), UNCHANGED <<browser, jar, grant, began, user>>
  PROVE  SignInInv'
<1>1. Address("error") \in Addresses /\ Own(browser[t], Address("error"))
  BY BareAddress DEF Places
<1>2. Redirect(t, Address("error"))
  BY DEF ErrorPage
<1> QED
  BY <1>1, <1>2, QuietKeepsSignInInv, Zenon

-----------------------------------------------------------------------------
(* bff: beginning a login                                                  *)

\* A new login is begun by the browser that gets its cookie, and nobody has it yet.
LEMMA StartKeepsSignInInv ==
  ASSUME SignInInv, NEW t \in Tabs, NEW dest \in {App, Elsewhere}, start(t, dest), browser' = browser
  PROVE  SignInInv'
<1> USE DEF SignInInv
<1>1. CASE ~allows_redirect_uri(dest)
  BY <1>1, ErrorKeepsSignInInv DEF start
<1>2. CASE allows_redirect_uri(dest)
  <2> DEFINE b == browser[t]
  <2>1. PICK l \in Logins :
          /\ Unknown(l)
          /\ jar' = [jar EXCEPT ![b].login = Cookie(l, dest)]
          /\ grant' = [grant EXCEPT ![l] = "none"]
          /\ began' = [began EXCEPT ![l] = b] /\ user' = [user EXCEPT ![l] = None]
          /\ To(t, "authorize", l)
    BY <1>2 DEF start
  <2>2. b \in Browsers /\ Cookie(l, dest) \in Cookies /\ Cookie(l, dest).login = l
    BY DEF SignInTypes, Cookie, Cookies
  <2> DEFINE where == [Address("authorize") EXCEPT !.login = l]
  <2>3. where \in Addresses /\ where.at = "authorize" /\ where.login = l
    <3>1. Has(Address("authorize"), "authorize", None, None, None, None) /\ l \in Names
      BY AddressHas DEF Places, Names
    <3>2. Has(where, "authorize", l, None, None, None)
      BY <3>1, WithLogin, Zenon
    <3> QED
      BY <3>2, Zenon DEF Has
  <2>4. PICK w \in Addresses : tab' = [tab EXCEPT ![t] = w] /\ w.at = "authorize" /\ w.login = l
    <3>1. Redirect(t, where)
      BY <2>1 DEF To
    <3> HIDE DEF where
    <3> QED
      BY <2>3, <3>1, SentOn
  <2>5. SignInTypes'
    BY <2>1, <2>2, <2>4 DEF SignInTypes
  <2>6. ASSUME NEW u \in Tabs PROVE Own(browser[u], tab[u])'
    <3>1. CASE u = t
      <4>1. tab'[u] = w /\ browser'[u] = b /\ began'[l] = b /\ l # None
        BY <2>1, <2>4, <3>1, NoneAssumption DEF SignInTypes
      <4> QED
        BY <2>4, <4>1 DEF Own
    <3>2. CASE u # t
      <4>1. tab'[u] = tab[u] /\ browser'[u] = browser[u] /\ tab[u] \in Addresses
        BY <2>4, <3>2 DEF SignInTypes
      <4>2. tab[u].login # l /\ tab[u].code # l
        BY <2>1 DEF Unknown
      <4>3. \A x \in Logins \ {l} : began'[x] = began[x] /\ user'[x] = user[x] /\ grant'[x] = grant[x]
        BY <2>1 DEF SignInTypes
      <4>4. /\ tab[u].login # None => tab[u].login \in Logins \ {l}
            /\ tab[u].code # None => tab[u].code \in Logins \ {l}
        BY <4>1, <4>2 DEF Addresses, Names
      <4>5. Own(browser[u], tab[u])
        BY DEF OwnAddresses
      <4> QED
        BY <4>1, <4>3, <4>4, <4>5 DEF Own
    <3> QED
      BY <3>1, <3>2
  <2>7. ASSUME NEW c \in Browsers
        PROVE  /\ jar'[c].login # None => began'[jar'[c].login.login] = c
               /\ jar'[c].session # None => began'[jar'[c].session] = c /\ user'[jar'[c].session] = c
    <3>1. jar[c] \in [login : Cookies \cup {None}, session : Names]
      BY DEF SignInTypes
    <3>2. /\ jar'[c].session = jar[c].session
          /\ c = b => jar'[c].login = Cookie(l, dest)
          /\ c # b => jar'[c].login = jar[c].login
      BY <2>1, <2>2, <3>1 DEF SignInTypes
    <3>3. jar[c].session # None => jar[c].session \in Logins \ {l}
      BY <2>1, <3>1 DEF Unknown, Names
    <3>4. jar[c].login # None => jar[c].login.login \in Logins \ {l}
      BY <2>1, <3>1 DEF Unknown, Cookies
    <3>5. \A x \in Logins \ {l} : began'[x] = began[x] /\ user'[x] = user[x]
      BY <2>1 DEF SignInTypes
    <3>6. began'[l] = b
      BY <2>1 DEF SignInTypes
    <3>7. /\ jar[c].login # None => began[jar[c].login.login] = c
          /\ jar[c].session # None => began[jar[c].session] = c /\ user[jar[c].session] = c
      BY DEF OwnCookies
    <3> QED
      BY <2>2, <3>2, <3>3, <3>4, <3>5, <3>6, <3>7
  <2>8. GrantsAreOwn'
    BY <2>1 DEF GrantsAreOwn, SignInTypes
  <2> QED
    BY <2>5, <2>6, <2>7, <2>8 DEF OwnAddresses, OwnCookies
<1> QED
  BY <1>1, <1>2

-----------------------------------------------------------------------------
(* login: its pages, Kratos behind them, and the consent challenge         *)

\* Hydra sends the browser to the page with the challenge of its login.
LEMMA AuthorizeKeepsSignInInv ==
  ASSUME SignInInv, NEW t \in Tabs, Authorize(t)
  PROVE  SignInInv'
<1> DEFINE w == [Address("page") EXCEPT !.login = tab[t].login]
<1>1. Has(w, "page", tab[t].login, None, None, None)
  <2>1. Has(Address("page"), "page", None, None, None, None) /\ tab[t].login \in Names
    BY AddressHas, TabHas DEF Places, SignInInv
  <2> QED
    BY <2>1, WithLogin, Zenon
<1>2. Redirect(t, w)
  BY Zenon DEF Authorize, To
<1> HIDE DEF w
<1>3. At(t, "authorize") /\ UNCHANGED <<browser, jar, grant, began, user>>
  BY DEF Authorize, hydraVars
<1>4. Own(browser[t], w)
  BY <1>1, <1>3 DEF Has, Own, OwnAddresses, SignInInv, At
<1> QED
  BY <1>1, <1>2, <1>3, <1>4, QuietKeepsSignInInv DEF Has

\* start_flow: with the challenge to Kratos, without one back to bff.
LEMMA PageKeepsSignInInv ==
  ASSUME SignInInv, NEW t \in Tabs, Page(t)
  PROVE  SignInInv'
<1>0. At(t, "page") /\ UNCHANGED <<browser, jar, grant, began, user>>
  BY DEF Page, hydraVars
<1>1. CASE tab[t].login = None
  <2>1. Redirect(t, Address("bff"))
    BY <1>1, Zenon DEF Page, start_flow
  <2>2. Address("bff") \in Addresses /\ Own(browser[t], Address("bff"))
    BY BareAddress DEF Places
  <2> QED
    BY <1>0, <2>1, <2>2, QuietKeepsSignInInv, Zenon
<1>2. CASE tab[t].login # None
  <2> DEFINE w == [Address("kratos") EXCEPT !.login = tab[t].login]
  <2>1. Has(w, "kratos", tab[t].login, None, None, None)
    <3>1. Has(Address("kratos"), "kratos", None, None, None, None) /\ tab[t].login \in Names
      BY AddressHas, TabHas DEF Places, SignInInv
    <3> QED
      BY <3>1, WithLogin, Zenon
  <2>2. Redirect(t, w)
    BY <1>2, Zenon DEF Page, start_flow, To
  <2> HIDE DEF w
  <2>3. Own(browser[t], w)
    BY <1>0, <1>2, <2>1 DEF Has, Own, OwnAddresses, SignInInv, At
  <2> QED
    BY <1>0, <2>1, <2>2, <2>3, QuietKeepsSignInInv DEF Has
<1> QED
  BY <1>1, <1>2

\* A login is accepted in the browser that began it: its user is whoever is there.
LEMMA AcceptedKeepsSignInInv ==
  ASSUME SignInInv, NEW t \in Tabs, NEW l \in Logins, began[l] = browser[t],
         To(t, "consent", l), user' = [user EXCEPT ![l] = browser[t]],
         UNCHANGED <<browser, jar, grant, began>>
  PROVE  SignInInv'
<1>1. PICK w : Has(w, "consent", l, None, None, None) /\ Redirect(t, w)
  <2>1. Has(Address("consent"), "consent", None, None, None, None) /\ l \in Names
    BY AddressHas DEF Places, Names
  <2>2. Has([Address("consent") EXCEPT !.login = l], "consent", l, None, None, None)
    BY <2>1, WithLogin, Zenon
  <2> QED
    BY <2>2, Zenon DEF To
<1>3. browser[t] \in Browsers /\ user \in [Logins -> Browsers \cup {None}]
  BY DEF SignInInv, SignInTypes
<1>4. user'[l] = browser[t] /\ \A m \in Logins \ {l} : user'[m] = user[m]
  BY <1>3
<1>5. Own(browser[t], w)'
  BY <1>1, <1>4 DEF Has, Own
<1>6. OwnCookies'
  <2> SUFFICES ASSUME NEW b \in Browsers
               PROVE  /\ jar[b].login # None => began[jar[b].login.login] = b
                      /\ jar[b].session # None => began[jar[b].session] = b /\ user'[jar[b].session] = b
    BY DEF OwnCookies
  <2>1. /\ jar[b].login # None => began[jar[b].login.login] = b
        /\ jar[b].session # None => began[jar[b].session] = b /\ user[jar[b].session] = b
    BY DEF OwnCookies, SignInInv
  <2>2. jar[b].session # None => jar[b].session \in Logins
    BY DEF SignInInv, SignInTypes, Names
  <2> QED
    BY <1>4, <2>1, <2>2
<1>7. HydraGoesOn
  BY <1>3, <1>4 DEF HydraGoesOn, SignInInv, SignInTypes, GrantsAreOwn
<1>8. CookiesGoOn
  BY <1>6 DEF CookiesGoOn, SignInInv, SignInTypes
<1>9. GoesOn(t, w)
  BY <1>1, <1>5, <1>7, <1>8 DEF GoesOn, Has
<1> QED
  BY <1>9, MoveKeepsSignInInv

\* Kratos has a session and accepts, or shows a flow that knows its challenge.
LEMMA KratosStartsKeepsSignInInv ==
  ASSUME SignInInv, NEW t \in Tabs, KratosStarts(t)
  PROVE  SignInInv'
<1> DEFINE l == tab[t].login
<1>1. l \in Logins /\ began[l] = browser[t]
  BY TabHas DEF KratosStarts, At, SignInInv, OwnAddresses, Own, Names
<1>2. CASE browser[t] \in kratos
  BY <1>1, <1>2, AcceptedKeepsSignInInv DEF KratosStarts
<1>3. CASE browser[t] \notin kratos
  <2>1. PICK w : Has(w, "flow", None, l, None, None) /\ Redirect(t, w)
    <3>1. Has(Address("flow"), "flow", None, None, None, None) /\ l \in Names
      BY <1>1, AddressHas DEF Places, Names
    <3>2. Has([Address("flow") EXCEPT !.code = l], "flow", None, l, None, None)
      BY <3>1, WithCode, Zenon
    <3>3. Redirect(t, [Address("flow") EXCEPT !.code = l])
      BY <1>3, Zenon DEF KratosStarts
    <3> QED
      BY <3>2, <3>3, Zenon
  <2>2. UNCHANGED <<browser, jar, grant, began, user>>
    BY <1>3 DEF KratosStarts
  <2>3. Own(browser[t], w) /\ w \in Addresses
    BY <1>1, <2>1, NoneAssumption DEF Has, Own
  <2> QED
    BY <2>1, <2>2, <2>3, QuietKeepsSignInInv
<1> QED
  BY <1>2, <1>3

\* A tab goes on with the address it has, to another place.
LEMMA PlaceKeepsSignInInv ==
  ASSUME SignInInv, NEW t \in Tabs, NEW p \in Places, Redirect(t, [tab[t] EXCEPT !.at = p]),
         UNCHANGED <<browser, jar, grant, began, user>>,
         \A w : Has(w, p, tab[t].login, tab[t].code, tab[t].dest, tab[t].cookie)
                 => Own(browser[t], w)
  PROVE  SignInInv'
<1>1. PICK w : /\ Has(w, p, tab[t].login, tab[t].code, tab[t].dest, tab[t].cookie)
               /\ Redirect(t, w)
  <2>1. Has([tab[t] EXCEPT !.at = p], p, tab[t].login, tab[t].code, tab[t].dest, tab[t].cookie)
    <3>1. Has(tab[t], tab[t].at, tab[t].login, tab[t].code, tab[t].dest, tab[t].cookie)
      BY TabHas DEF SignInInv
    <3> QED
      BY <3>1, WithPlace, Zenon
  <2> QED
    BY <2>1, Zenon
<1>2. w \in Addresses /\ Own(browser[t], w)
  BY <1>1 DEF Has
<1> QED
  BY <1>1, <1>2, QuietKeepsSignInInv

\* The page of a flow, if there is one.
LEMMA FlowKeepsSignInInv ==
  ASSUME SignInInv, NEW t \in Tabs, FlowFound(t) \/ FlowGone(t)
  PROVE  SignInInv'
<1>0. At(t, "flow") /\ UNCHANGED <<browser, jar, grant, began, user>>
  BY DEF FlowFound, FlowGone, hydraVars
<1>1. CASE FlowFound(t)
  <2>1. \A w : Has(w, "form", tab[t].login, tab[t].code, tab[t].dest, tab[t].cookie)
                 => Own(browser[t], w)
    BY <1>0 DEF Has, Own, OwnAddresses, SignInInv, At
  <2>2. Redirect(t, [tab[t] EXCEPT !.at = "form"])
    BY <1>1, Zenon DEF FlowFound
  <2>3. "form" \in Places
    BY DEF Places
  <2> QED
    BY <1>0, <2>1, <2>2, <2>3, PlaceKeepsSignInInv, Zenon
<1>2. CASE FlowGone(t)
  <2>1. Address("bff") \in Addresses /\ Own(browser[t], Address("bff"))
    BY BareAddress DEF Places
  <2>2. Open(t, Address("bff")) \/ ErrorPage(t)
    BY <1>2, Zenon DEF FlowGone
  <2>3. CASE Open(t, Address("bff"))
    BY <1>0, <2>1, <2>3, QuietKeepsSignInInv, Zenon
  <2> QED
    BY <1>0, <2>2, <2>3, ErrorKeepsSignInInv
<1> QED
  BY <1>1, <1>2

\* The user signs in, at a flow of a login of this browser.
LEMMA SubmitFormKeepsSignInInv ==
  ASSUME SignInInv, NEW t \in Tabs, SubmitForm(t)
  PROVE  SignInInv'
<1>1. tab[t].code \in Logins /\ began[tab[t].code] = browser[t]
  BY TabHas DEF SubmitForm, At, SignInInv, OwnAddresses, Own, Names
<1> QED
  BY <1>1, AcceptedKeepsSignInInv DEF SubmitForm

\* The consent is given to bff, for a login whose user is its browser's.
LEMMA ConsentKeepsSignInInv ==
  ASSUME SignInInv, NEW t \in Tabs, Consent(t)
  PROVE  SignInInv'
<1> DEFINE l == tab[t].login
           callback == [Address("callback") EXCEPT !.login = l, !.code = l]
<1>0. At(t, "consent") /\ UNCHANGED <<browser, jar, began, user>> /\ l \in Names
  BY TabHas DEF Consent, SignInInv
<1>1. \/ /\ l # None /\ grant' = [grant EXCEPT ![l] = "code"]
         /\ Redirect(t, callback) \/ ErrorPage(t)
      \/ grant' = grant /\ (Redirect(t, Address("blank")) \/ ErrorPage(t))
  BY Zenon DEF Consent, check_grantable
<1>2. CASE grant' = grant /\ (Redirect(t, Address("blank")) \/ ErrorPage(t))
  <2>1. Address("blank") \in Addresses /\ Own(browser[t], Address("blank"))
    BY BareAddress DEF Places
  <2>2. CASE Redirect(t, Address("blank"))
    BY <1>0, <1>2, <2>1, <2>2, QuietKeepsSignInInv, Zenon
  <2> QED
    BY <1>0, <1>2, <2>2, ErrorKeepsSignInInv
<1>3. CASE /\ l # None /\ grant' = [grant EXCEPT ![l] = "code"]
           /\ Redirect(t, callback) \/ ErrorPage(t)
  <2>1. PICK w \in Addresses : Redirect(t, w) /\ w.at \in {"callback", "error"}
    <3>1. Has(callback, "callback", l, l, None, None)
      <4>1. Has(Address("callback"), "callback", None, None, None, None)
        BY AddressHas DEF Places
      <4> QED
        BY <1>0, <4>1, WithBoth, Zenon
    <3>2. Has(Address("error"), "error", None, None, None, None)
      BY AddressHas DEF Places
    <3>3. CASE Redirect(t, callback)
      <4>1. callback \in Addresses /\ callback.at = "callback"
        BY <3>1, Zenon DEF Has
      <4> QED
        BY <3>3, <4>1, Zenon
    <3>4. CASE ErrorPage(t)
      BY <3>2, <3>4 DEF Has, ErrorPage
    <3> QED
      BY <1>3, <3>3, <3>4
  <2>2. l \in Logins /\ began[l] = browser[t] /\ user[l] = browser[t]
    BY <1>0, <1>3 DEF Names, SignInInv, OwnAddresses, Own, At
  <2>3. HydraGoesOn
    BY <1>0, <1>3, <2>2 DEF HydraGoesOn, SignInInv, SignInTypes, GrantsAreOwn
  <2>4. Own(browser[t], w)'
    BY <2>1 DEF Own
  <2>5. CookiesGoOn
    BY <1>0 DEF CookiesGoOn, OwnCookies, SignInInv, SignInTypes
  <2>6. GoesOn(t, w)
    BY <1>0, <2>1, <2>3, <2>4, <2>5 DEF GoesOn
  <2> QED
    BY <2>6, MoveKeepsSignInInv
<1> QED
  BY <1>1, <1>2, <1>3

-----------------------------------------------------------------------------
(* bff: the callback                                                       *)

\* Any address may be opened, with nobody's login cookie in it.
LEMMA OpenLinkKeepsSignInInv ==
  ASSUME SignInInv, NEW t \in Tabs, OpenLink(t)
  PROVE  SignInInv'
<1>0. UNCHANGED <<browser, jar, grant, began, user>>
  BY DEF OpenLink, hydraVars
<1>1. CASE \E c, s \in {l \in Logins : grant[l] # "none"} :
             Open(t, [Address("callback") EXCEPT !.login = s, !.code = c])
  <2>1. PICK c \in Logins, s \in Logins :
           Open(t, [Address("callback") EXCEPT !.login = s, !.code = c])
    BY <1>1, Zenon
  <2>2. Has(Address("callback"), "callback", None, None, None, None) /\ c \in Names /\ s \in Names
    BY AddressHas DEF Places, Names
  <2>3. Has([Address("callback") EXCEPT !.login = s, !.code = c], "callback", s, c, None, None)
    BY <2>2, WithBoth, Zenon
  <2>4. PICK w : Has(w, "callback", s, c, None, None) /\ Open(t, w)
    BY <2>1, <2>3, Zenon
  <2>5. w \in Addresses /\ Own(browser[t], w)
    BY <2>4 DEF Has, Own
  <2> QED
    BY <1>0, <2>4, <2>5, QuietKeepsSignInInv
<1>2. CASE \E page \in {"page", "consent", "callback"} : Open(t, Address(page))
  <2>1. PICK page \in {"page", "consent", "callback"} : Open(t, Address(page))
    BY <1>2
  <2>2. Address(page) \in Addresses /\ Own(browser[t], Address(page))
    BY BareAddress DEF Places
  <2> QED
    BY <1>0, <2>1, <2>2, QuietKeepsSignInInv, Zenon
<1>3. CASE Open(t, [Address("logged_out") EXCEPT !.dest = Elsewhere])
  <2>1. Has(Address("logged_out"), "logged_out", None, None, None, None)
        /\ Elsewhere \in Names \cup {App, Elsewhere}
    BY AddressHas DEF Places
  <2>2. Has([Address("logged_out") EXCEPT !.dest = Elsewhere], "logged_out", None, None, Elsewhere, None)
    BY <2>1, WithDest, Zenon
  <2>3. PICK w : Has(w, "logged_out", None, None, Elsewhere, None) /\ Open(t, w)
    BY <1>3, <2>2, Zenon
  <2>4. w \in Addresses /\ Own(browser[t], w)
    BY <2>3 DEF Has, Own
  <2> QED
    BY <1>0, <2>3, <2>4, QuietKeepsSignInInv
<1> QED
  BY <1>1, <1>2, <1>3, Zenon DEF OpenLink

\* Whoever edits the cookie's destination leaves its login.
LEMMA EditCookieKeepsSignInInv ==
  ASSUME SignInInv, NEW t \in Tabs, EditCookie(t)
  PROVE  SignInInv'
<1> DEFINE b == browser[t]
<1>1. /\ UNCHANGED <<browser, tab, grant, began, user>> /\ b \in Browsers
      /\ jar[b].login # None /\ jar' = [jar EXCEPT ![b].login.dest = Elsewhere]
  BY DEF EditCookie, hydraVars, SignInInv, SignInTypes
<1>2. ASSUME NEW c \in Browsers
      PROVE  /\ jar'[c] \in [login : Cookies \cup {None}, session : Names]
             /\ jar'[c].session = jar[c].session
             /\ c # b => jar'[c] = jar[c]
             /\ c = b => jar'[c].login.login = jar[c].login.login
  BY <1>1, <1>2 DEF SignInInv, SignInTypes, Cookies
<1>3. jar' \in [Browsers -> [login : Cookies \cup {None}, session : Names]]
  BY <1>1, <1>2 DEF SignInInv, SignInTypes
<1>4. OwnCookies'
  BY <1>1, <1>2 DEF SignInInv, OwnCookies
<1> QED
  BY <1>1, <1>3, <1>4 DEF SignInInv, SignInTypes, OwnAddresses, Own, GrantsAreOwn

\* complete: only the login that the browser's own cookie names goes on.
LEMMA CallbackKeepsSignInInv ==
  ASSUME SignInInv, NEW t \in Tabs, Callback(t)
  PROVE  SignInInv'
<1> DEFINE b == browser[t]
           pending == jar[b].login
           session == jar[b].session
<1>0. UNCHANGED <<browser, jar, grant, began, user>> /\ b \in Browsers
  BY DEF Callback, hydraVars, SignInInv, SignInTypes
<1>1. CASE MayRedeem(pending, tab[t])
  <2>1. Redirect(t, [tab[t] EXCEPT !.at = "exchanging", !.cookie = pending, !.dest = session])
    BY <1>1, Zenon DEF Callback
  <2>2. /\ pending \in Cookies /\ session \in Names /\ pending # None
        /\ tab[t].login = pending.login /\ pending.dest = App /\ began[pending.login] = b
        /\ pending.login \in Logins
    BY <1>0, <1>1 DEF MayRedeem, allows_redirect_uri, SignInInv, SignInTypes, OwnCookies, Cookies
  <2>3. PICK w : /\ Has(w, "exchanging", tab[t].login, tab[t].code, session, pending)
                 /\ Redirect(t, w)
    <3>1. /\ Has(tab[t], tab[t].at, tab[t].login, tab[t].code, tab[t].dest, tab[t].cookie)
          /\ pending \in Cookies \cup {None} /\ session \in Names \cup {App, Elsewhere}
          /\ "exchanging" \in Places
      BY <2>2, TabHas DEF SignInInv, Places
    <3>2. Has([tab[t] EXCEPT !.at = "exchanging", !.cookie = pending, !.dest = session],
              "exchanging", tab[t].login, tab[t].code, session, pending)
      BY <3>1, WithCookie, Zenon
    <3> QED
      BY <2>1, <3>2, Zenon
  <2>4. w \in Addresses /\ Own(b, w)
    BY <2>2, <2>3, NoneAssumption DEF Has, Own
  <2> QED
    BY <1>0, <2>3, <2>4, QuietKeepsSignInInv
<1>2. CASE ~MayRedeem(pending, tab[t])
  <2>1. ErrorPage(t)
    BY <1>2, Zenon DEF Callback
  <2> QED
    BY <1>0, <2>1, ErrorKeepsSignInInv
<1> QED
  BY <1>1, <1>2

\* Hydra: the code is the login's whose verifier the cookie has.
LEMMA ExchangeCodeKeepsSignInInv ==
  ASSUME SignInInv, NEW t \in Tabs, ExchangeCode(t)
  PROVE  SignInInv'
<1> DEFINE c == tab[t].code
           next == [tab[t] EXCEPT !.at = "verifying"]
<1>0. At(t, "exchanging") /\ UNCHANGED <<browser, jar, began, user>> /\ c \in Names
  BY TabHas DEF ExchangeCode, SignInInv
<1>1. CASE ~Redeems(c, tab[t].cookie)
  <2>1. ErrorPage(t) /\ grant' = grant
    BY <1>1, Zenon DEF ExchangeCode
  <2> QED
    BY <1>0, <2>1, ErrorKeepsSignInInv
<1>2. CASE Redeems(c, tab[t].cookie)
  <2>1. grant' = [grant EXCEPT ![c] = "spent"] /\ (Redirect(t, next) \/ ErrorPage(t))
    BY <1>2, Zenon DEF ExchangeCode
  <2>2. /\ tab[t].login \in Logins /\ tab[t].cookie \in Cookies /\ tab[t].cookie.dest = App
        /\ tab[t].cookie.login = tab[t].login /\ began[tab[t].login] = browser[t]
    BY <1>0, TabHas DEF SignInInv, OwnAddresses, Own, At, Names
  <2>3. c = tab[t].login /\ grant[c] = "code"
    BY <1>2, <2>2 DEF Redeems
  <2>4. PICK w \in Addresses :
          /\ Redirect(t, w)
          /\ \/ w.at = "error"
             \/ w.at = "verifying" /\ w.code = c /\ w.cookie = tab[t].cookie
    <3>1. Has(next, "verifying", tab[t].login, c, tab[t].dest, tab[t].cookie)
      <4>1. /\ Has(tab[t], tab[t].at, tab[t].login, c, tab[t].dest, tab[t].cookie)
            /\ "verifying" \in Places
        BY TabHas DEF SignInInv, Places
      <4> QED
        BY <4>1, WithPlace, Zenon
    <3>2. Has(Address("error"), "error", None, None, None, None)
      BY AddressHas DEF Places
    <3>3. CASE Redirect(t, next)
      <4>1. next \in Addresses /\ next.at = "verifying" /\ next.code = c /\ next.cookie = tab[t].cookie
        BY <3>1, Zenon DEF Has
      <4> QED
        BY <3>3, <4>1, Zenon
    <3>4. CASE ErrorPage(t)
      BY <3>2, <3>4 DEF Has, ErrorPage
    <3> QED
      BY <2>1, <3>3, <3>4
  <2>5. HydraGoesOn
    BY <1>0, <2>1, <2>3 DEF HydraGoesOn, SignInInv, SignInTypes, GrantsAreOwn
  <2>6. CookiesGoOn
    BY <1>0 DEF CookiesGoOn, OwnCookies, SignInInv, SignInTypes
  <2>7. Own(browser[t], w)'
    <3>1. c \in Logins /\ grant'[c] = "spent" /\ began'[c] = browser[t] /\ c # None
      BY <1>0, <2>1, <2>2, <2>3, NoneAssumption DEF SignInInv, SignInTypes
    <3> HIDE DEF c, next
    <3> QED
      BY <1>0, <2>2, <2>3, <2>4, <3>1 DEF Own
  <2>8. GoesOn(t, w)
    BY <1>0, <2>4, <2>5, <2>6, <2>7 DEF GoesOn
  <2> QED
    BY <2>8, MoveKeepsSignInInv
<1> QED
  BY <1>1, <1>2

\* verify_id_token and save_session.
LEMMA VerifyKeepsSignInInv ==
  ASSUME SignInInv, NEW t \in Tabs, Verify(t)
  PROVE  SignInInv'
<1>0. At(t, "verifying") /\ UNCHANGED <<browser, jar, grant, began, user>>
  BY DEF Verify, hydraVars
<1>1. Redirect(t, [tab[t] EXCEPT !.at = "saved"]) \/ ErrorPage(t)
  BY Zenon DEF Verify
<1>2. \A w : Has(w, "saved", tab[t].login, tab[t].code, tab[t].dest, tab[t].cookie)
               => Own(browser[t], w)
  BY <1>0 DEF Has, Own, OwnAddresses, SignInInv, At
<1>3. "saved" \in Places
  BY DEF Places
<1>4. CASE Redirect(t, [tab[t] EXCEPT !.at = "saved"])
  BY <1>0, <1>2, <1>3, <1>4, PlaceKeepsSignInInv, Zenon
<1> QED
  BY <1>0, <1>1, <1>4, ErrorKeepsSignInInv

\* Hydra cannot be asked.
LEMMA ExchangeFailsKeepsSignInInv ==
  ASSUME SignInInv, NEW t \in Tabs, ExchangeFails(t)
  PROVE  SignInInv'
  BY ErrorKeepsSignInInv DEF ExchangeFails, hydraVars

\* The browser's session is the login's whose code its cookie has redeemed.
LEMMA StartedKeepsSignInInv ==
  ASSUME SignInInv, NEW t \in Tabs, Started(t)
  PROVE  SignInInv'
<1> DEFINE b == browser[t]
           c == tab[t].code
           dest == tab[t].cookie.dest
           new == [login |-> None, session |-> c]
<1>0. /\ At(t, "saved") /\ UNCHANGED <<browser, grant, began, user>>
      /\ jar' = [jar EXCEPT ![b] = new] /\ b \in Browsers
  BY DEF Started, SignInInv, SignInTypes
<1>1. c \in Logins /\ began[c] = b /\ user[c] = b /\ dest = App
  BY <1>0, TabHas DEF SignInInv, OwnAddresses, Own, At, Names, GrantsAreOwn
<1>2. PICK w : Has(w, "app", None, None, App, None) /\ Redirect(t, w)
  <2>1. Has(Address("app"), "app", None, None, None, None) /\ App \in Names \cup {App, Elsewhere}
    BY AddressHas DEF Places
  <2>2. Has([Address("app") EXCEPT !.dest = App], "app", None, None, App, None)
    BY <2>1, WithDest, Zenon
  <2>3. Redirect(t, [Address("app") EXCEPT !.dest = dest])
    BY Zenon DEF Started
  <2> QED
    BY <1>1, <2>2, <2>3, Zenon
<1>3. new.login = None /\ new.session = c
      /\ new \in [login : Cookies \cup {None}, session : Names]
  BY <1>1 DEF Names
<1>4. CookiesGoOn
  <2> HIDE DEF new, c, dest
  <2> QED
    BY <1>0, <1>1, <1>3 DEF CookiesGoOn, OwnCookies, SignInInv, SignInTypes
<1>5. HydraGoesOn
  BY <1>0 DEF HydraGoesOn, SignInInv, SignInTypes, GrantsAreOwn
<1>6. Own(b, w)'
  BY <1>2 DEF Own, Has
<1>7. GoesOn(t, w)
  BY <1>0, <1>2, <1>4, <1>5, <1>6 DEF GoesOn, Has
<1> QED
  BY <1>7, MoveKeepsSignInInv

-----------------------------------------------------------------------------
(* Signing out                                                             *)

\* A logout is sent to Hydra, with the session's hint and where to go after it.
LEMMA LogoutSends ==
  ASSUME SignInTypes, NEW t \in Tabs, Logout(t)
  PROVE  \E hint \in Names, dest \in Names \cup {App, Elsewhere} : \E w :
            Has(w, "end", None, hint, dest, None) /\ Redirect(t, w)
<1> DEFINE s == jar[browser[t]].session
           hint == IF s \in sessions THEN s ELSE None
           kept(dest) == IF allows_redirect_uri(dest) THEN dest ELSE None
<1>1. PICK dest \in {App, Elsewhere, None} :
        Redirect(t, [Address("end") EXCEPT !.code = hint, !.dest = kept(dest)])
  BY Zenon DEF Logout
<1>2. hint \in Names /\ kept(dest) \in Names \cup {App, Elsewhere}
  BY DEF SignInTypes, Names
<1>3. Has(Address("end"), "end", None, None, None, None)
  BY AddressHas DEF Places
<1>4. Has([Address("end") EXCEPT !.code = hint, !.dest = kept(dest)],
          "end", None, hint, kept(dest), None)
  BY <1>2, <1>3, WithCodeAndDest, Zenon
<1> HIDE DEF hint, kept
<1> QED
  BY <1>1, <1>2, <1>4

\* bff forgets the browser's session and sends it to Hydra.
LEMMA LogoutKeepsSignInInv ==
  ASSUME SignInInv, NEW t \in Tabs, Logout(t)
  PROVE  SignInInv'
<1> DEFINE b == browser[t]
<1>0. /\ UNCHANGED <<browser, grant, began, user>> /\ b \in Browsers
      /\ jar' = [jar EXCEPT ![b].session = None]
  BY DEF Logout, SignInInv, SignInTypes
<1>a. PICK hint \in Names, dest \in Names \cup {App, Elsewhere} :
        \E w : Has(w, "end", None, hint, dest, None) /\ Redirect(t, w)
  BY LogoutSends DEF SignInInv
<1>1. PICK w : Has(w, "end", None, hint, dest, None) /\ Redirect(t, w)
  BY <1>a
<1>2. CookiesGoOn
  BY <1>0 DEF CookiesGoOn, OwnCookies, SignInInv, SignInTypes, Names
<1>3. HydraGoesOn
  BY <1>0 DEF HydraGoesOn, SignInInv, SignInTypes, GrantsAreOwn
<1>4. w \in Addresses /\ w.at = "end"
  BY <1>1 DEF Has
<1>5. Own(b, w)'
  BY <1>4 DEF Own
<1>6. GoesOn(t, w)
  BY <1>0, <1>1, <1>2, <1>3, <1>4, <1>5 DEF GoesOn
<1> QED
  BY <1>6, MoveKeepsSignInInv

\* On its way out an address has nothing to be anyone's own.
LEMMA OnTheWayOut ==
  ASSUME SignInInv, NEW t \in Tabs, NEW p \in {"logout", "logged_out", "ending", "accepting"},
         Redirect(t, [tab[t] EXCEPT !.at = p]), UNCHANGED <<browser, jar, grant, began, user>>
  PROVE  SignInInv'
<1>1. \A w : Has(w, p, tab[t].login, tab[t].code, tab[t].dest, tab[t].cookie) => Own(browser[t], w)
  BY DEF Has, Own
<1>2. p \in Places
  BY DEF Places
<1> QED
  BY <1>1, <1>2, PlaceKeepsSignInInv, Zenon

\* Hydra asks login, or sends the browser on to bff.
LEMMA HydraLogoutKeepsSignInInv ==
  ASSUME SignInInv, NEW t \in Tabs, HydraLogout(t)
  PROVE  SignInInv'
<1> DEFINE p == IF browser[t] \in sso THEN "logout" ELSE "logged_out"
<1>1. /\ Redirect(t, [tab[t] EXCEPT !.at = p]) /\ UNCHANGED <<browser, jar, grant, began, user>>
  BY Zenon DEF HydraLogout, hydraVars
<1>2. p \in {"logout", "logged_out", "ending", "accepting"}
  OBVIOUS
<1> HIDE DEF p
<1> QED
  BY <1>1, <1>2, OnTheWayOut, Zenon

\* The logout challenge, Kratos's session and the answer to Hydra.
LEMMA ChallengeKeepsSignInInv ==
  ASSUME SignInInv, NEW t \in Tabs, LogoutRequest(t) \/ end_kratos_session(t) \/ AcceptLogout(t)
  PROVE  SignInInv'
<1>0. UNCHANGED <<browser, jar, grant, began, user>>
  BY DEF LogoutRequest, end_kratos_session, AcceptLogout, hydraVars
<1>1. CASE Redirect(t, [tab[t] EXCEPT !.at = "ending"])
  BY <1>0, <1>1, OnTheWayOut, Zenon
<1>2. CASE Redirect(t, [tab[t] EXCEPT !.at = "accepting"])
  BY <1>0, <1>2, OnTheWayOut, Zenon
<1>3. CASE Redirect(t, [tab[t] EXCEPT !.at = "logged_out"])
  BY <1>0, <1>3, OnTheWayOut, Zenon
<1>4. CASE ErrorPage(t)
  BY <1>0, <1>4, ErrorKeepsSignInInv
<1> QED
  BY <1>1, <1>2, <1>3, <1>4, Zenon DEF LogoutRequest, end_kratos_session, AcceptLogout

\* Whatever destination came back from Hydra, the browser lands on the allowlist.
LEMMA LoggedOutKeepsSignInInv ==
  ASSUME SignInInv, NEW t \in Tabs, LoggedOut(t)
  PROVE  SignInInv'
<1>0. UNCHANGED <<browser, jar, grant, began, user>>
  BY DEF LoggedOut, hydraVars
<1>1. destination(tab[t].dest) = App
  BY DEF destination, allows_redirect_uri
<1>2. PICK w : Has(w, "app", None, None, App, None) /\ Redirect(t, w)
  <2>1. Has(Address("app"), "app", None, None, None, None) /\ App \in Names \cup {App, Elsewhere}
    BY AddressHas DEF Places
  <2>2. Has([Address("app") EXCEPT !.dest = App], "app", None, None, App, None)
    BY <2>1, WithDest, Zenon
  <2>3. Redirect(t, [Address("app") EXCEPT !.dest = destination(tab[t].dest)])
    BY Zenon DEF LoggedOut
  <2> QED
    BY <1>1, <2>2, <2>3, Zenon
<1>3. w \in Addresses /\ Own(browser[t], w)
  BY <1>2 DEF Has, Own
<1> QED
  BY <1>0, <1>2, <1>3, QuietKeepsSignInInv

\* The user goes elsewhere.
LEMMA LeaveKeepsSignInInv ==
  ASSUME SignInInv, NEW t \in Tabs, Leave(t)
  PROVE  SignInInv'
<1>1. Open(t, Address("blank")) /\ UNCHANGED <<browser, jar, grant, began, user>>
  BY Zenon DEF Leave, hydraVars
<1>2. Address("blank") \in Addresses /\ Own(browser[t], Address("blank"))
  BY BareAddress DEF Places
<1> QED
  BY <1>1, <1>2, QuietKeepsSignInInv, Zenon

-----------------------------------------------------------------------------
(* The whole                                                               *)

\* At the start nobody has a login.
LEMMA InitSignInInv == Init => SignInInv
<1> SUFFICES ASSUME Init PROVE SignInInv
  OBVIOUS
<1>1. Has(Address("blank"), "blank", None, None, None, None)
  BY AddressHas DEF Places
<1>2. PICK w : Has(w, "blank", None, None, None, None) /\ tab = [t \in Tabs |-> w]
  BY <1>1, Zenon DEF Init
<1>3. SignInTypes
  BY <1>2 DEF Init, SignInTypes, Has, Names
<1>4. OwnAddresses
  BY <1>2 DEF OwnAddresses, Own, Has
<1> QED
  BY <1>3, <1>4 DEF Init, SignInInv, OwnCookies, GrantsAreOwn

\* Every step keeps the invariant.
LEMMA NextKeepsSignInInv ==
  ASSUME SignInInv, [Next]_vars
  PROVE  SignInInv'
<1>1. CASE UNCHANGED vars
  BY <1>1 DEF vars, SignInInv, SignInTypes, OwnAddresses, Own, OwnCookies, GrantsAreOwn
<1>2. ASSUME NEW t \in Tabs, Follow(t) PROVE SignInInv'
  <2>1. CASE StartAgain(t)
    BY <2>1, StartKeepsSignInInv DEF StartAgain
  <2>2. CASE Authorize(t)
    BY <2>2, AuthorizeKeepsSignInInv
  <2>3. CASE Page(t)
    BY <2>3, PageKeepsSignInInv
  <2>4. CASE KratosStarts(t)
    BY <2>4, KratosStartsKeepsSignInInv
  <2>5. CASE Consent(t)
    BY <2>5, ConsentKeepsSignInInv
  <2>6. CASE Callback(t)
    BY <2>6, CallbackKeepsSignInInv
  <2>7. CASE ExchangeCode(t) \/ ExchangeFails(t)
    BY <2>7, ExchangeCodeKeepsSignInInv, ExchangeFailsKeepsSignInInv
  <2>8. CASE Verify(t)
    BY <2>8, VerifyKeepsSignInInv
  <2>9. CASE Started(t)
    BY <2>9, StartedKeepsSignInInv
  <2>10. CASE HydraLogout(t)
    BY <2>10, HydraLogoutKeepsSignInInv
  <2>11. CASE LogoutRequest(t) \/ end_kratos_session(t) \/ AcceptLogout(t)
    BY <2>11, ChallengeKeepsSignInInv
  <2>12. CASE LoggedOut(t)
    BY <2>12, LoggedOutKeepsSignInInv
  <2> QED
    BY <1>2, <2>1, <2>2, <2>3, <2>4, <2>5, <2>6, <2>7, <2>8, <2>9, <2>10, <2>11, <2>12 DEF Follow
<1>3. ASSUME NEW t \in Tabs, FlowFound(t) \/ FlowGone(t) PROVE SignInInv'
  BY <1>3, FlowKeepsSignInInv
<1>4. ASSUME NEW t \in Tabs, Act(t) PROVE SignInInv'
  <2>1. CASE StartLogin(t)
    BY <2>1, StartKeepsSignInInv DEF StartLogin
  <2>2. CASE SubmitForm(t)
    BY <2>2, SubmitFormKeepsSignInInv
  <2>3. CASE OpenLink(t)
    BY <2>3, OpenLinkKeepsSignInInv
  <2>4. CASE EditCookie(t)
    BY <2>4, EditCookieKeepsSignInInv
  <2>5. CASE Logout(t)
    BY <2>5, LogoutKeepsSignInInv
  <2>6. CASE Leave(t)
    BY <2>6, LeaveKeepsSignInInv
  <2> QED
    BY <1>4, <2>1, <2>2, <2>3, <2>4, <2>5, <2>6 DEF Act
<1> QED
  BY <1>1, <1>2, <1>3, <1>4 DEF Next

\* A browser's session comes of a login that it began itself and its user
\* signed in to, and it lands only on the allowlist (callback.rs:232-253):
\* whatever callbacks are opened in it, in whatever tabs.
THEOREM SessionOfItsOwnLoginHolds == Spec => []SessionOfItsOwnLogin
<1>1. SignInInv => SessionOfItsOwnLogin
  BY DEF SignInInv, SessionOfItsOwnLogin, OwnCookies, OwnAddresses, Own, At
<1> QED
  BY <1>1, InitSignInInv, NextKeepsSignInInv, PTL DEF Spec

-----------------------------------------------------------------------------
(* How far redirects go                                                    *)

(* The longest way to a place from where it was opened or the user acted.  *)
Furthest(at) ==
    CASE at \in {"bff", "end"} -> 1
      [] at \in {"authorize", "logout"} -> 2
      [] at \in {"page", "ending"} -> 3
      [] at \in {"kratos", "accepting"} -> 4
      [] at \in {"consent", "flow", "logged_out"} -> 5
      [] at = "callback" -> 6
      [] at = "exchanging" -> 7
      [] at = "verifying" -> 8
      [] at = "saved" -> 9
      [] OTHER -> 0

(* Only a page that was opened without a login sends back to the beginning.*)
Counted(where) ==
    /\ where.hops <= Furthest(where.at)
    /\ where.at = "authorize" => where.login # None
    /\ where.at = "page" /\ where.login = None => where.hops = 0
HopsCounted == \A t \in Tabs : Counted(tab[t])

(* What most steps have to do with a logout: nothing.                      *)
NoneAccepts == \A t \in Tabs : tab'[t].at = "accepting" => tab[t].at = "accepting"

\* The places by how far they are.
LEMMA FurthestOf ==
  /\ \A at : Furthest(at) \in 0..9
  /\ \A at \in Resting : Furthest(at) = 0
  /\ Furthest("bff") = 1 /\ Furthest("authorize") = 2 /\ Furthest("page") = 3
  /\ Furthest("kratos") = 4 /\ Furthest("consent") = 5 /\ Furthest("flow") = 5
  /\ Furthest("callback") = 6 /\ Furthest("exchanging") = 7 /\ Furthest("verifying") = 8
  /\ Furthest("saved") = 9
  /\ Furthest("end") = 1 /\ Furthest("logout") = 2 /\ Furthest("ending") = 3
  /\ Furthest("accepting") = 4 /\ Furthest("logged_out") = 5
  BY DEF Furthest, Resting

\* A tab that is sent to a counted address leaves the others where they are.
LEMMA SentIsCounted ==
  ASSUME SignInTypes, HopsCounted, NEW t \in Tabs, NEW w, tab' = [tab EXCEPT ![t] = w], Counted(w)
  PROVE  HopsCounted' /\ (w.at # "accepting" => NoneAccepts)
  BY DEF SignInTypes, HopsCounted, Counted, NoneAccepts

\* A redirect is one hop further, or ends on a page.
LEMMA RedirectIsCounted ==
  ASSUME SignInTypes, HopsCounted, NEW t \in Tabs,
         NEW w, NEW a, NEW l, NEW c, NEW d, NEW k, Has(w, a, l, c, d, k), Redirect(t, w),
         a \in Resting \/ (tab[t].hops + 1 <= Furthest(a) /\ (a \in {"authorize", "page"} => l # None))
  PROVE  HopsCounted' /\ (a # "accepting" => NoneAccepts)
<1> DEFINE n == IF w.at \in Resting THEN 0 ELSE tab[t].hops + 1
           v == [w EXCEPT !.hops = n]
<1>1. tab' = [tab EXCEPT ![t] = v]
  BY DEF Redirect, Open
<1>2. n <= Furthest(a)
  BY FurthestOf DEF Has
<1>3. v.hops = n /\ v.at = a /\ v.login = l
  <2> HIDE DEF n
  <2> QED
    BY DEF Has, Addresses
<1>4. a \notin Resting \/ a \notin {"authorize", "page"}
  BY DEF Resting
<1>5. Counted(v)
  <2> HIDE DEF n, v
  <2> QED
    BY <1>2, <1>3, <1>4 DEF Counted, Resting
<1> HIDE DEF v
<1> QED
  BY <1>1, <1>3, <1>5, SentIsCounted

\* What is opened by the user is the first of its way.
LEMMA OpenIsCounted ==
  ASSUME SignInTypes, HopsCounted, NEW t \in Tabs, NEW w, Open(t, w), w.hops = 0, w.at # "authorize"
  PROVE  HopsCounted' /\ (w.at # "accepting" => NoneAccepts)
<1>1. Furthest(w.at) \in 0..9
  BY FurthestOf
<1>2. Counted(w)
  BY <1>1 DEF Counted
<1> QED
  BY <1>2, SentIsCounted DEF Open

\* A handler that fails shows a page.
LEMMA ErrorIsCounted ==
  ASSUME SignInTypes, HopsCounted, NEW t \in Tabs, ErrorPage(t)
  PROVE  HopsCounted' /\ NoneAccepts
<1>1. Has(Address("error"), "error", None, None, None, None) /\ "error" \in Resting
  BY AddressHas DEF Places, Resting
<1> QED
  BY <1>1, RedirectIsCounted DEF ErrorPage

\* A handler passes a login on.
LEMMA ToIsCounted ==
  ASSUME SignInTypes, HopsCounted, NEW t \in Tabs, NEW p \in Places, NEW l \in Names, To(t, p, l),
         tab[t].hops + 1 <= Furthest(p), p \in {"authorize", "page"} => l # None
  PROVE  HopsCounted' /\ (p # "accepting" => NoneAccepts)
<1>1. Has([Address(p) EXCEPT !.login = l], p, l, None, None, None)
  BY AddressHas, WithLogin, Zenon
<1>2. Redirect(t, [Address(p) EXCEPT !.login = l])
  BY Zenon DEF To
<1> QED
  BY <1>1, <1>2, RedirectIsCounted

\* A handler passes its address on.
LEMMA PlaceIsCounted ==
  ASSUME SignInTypes, HopsCounted, NEW t \in Tabs, NEW p \in Places \ {"authorize", "page"},
         Redirect(t, [tab[t] EXCEPT !.at = p]),
         p \in Resting \/ tab[t].hops + 1 <= Furthest(p)
  PROVE  HopsCounted' /\ (p # "accepting" => NoneAccepts)
<1>1. Has([tab[t] EXCEPT !.at = p], p, tab[t].login, tab[t].code, tab[t].dest, tab[t].cookie)
  BY TabHas, WithPlace, Zenon
<1> QED
  BY <1>1, RedirectIsCounted

\* However far it was, the application is where a way ends.
LEMMA AppIsCounted ==
  ASSUME SignInTypes, HopsCounted, NEW t \in Tabs, NEW dest,
         Redirect(t, [Address("app") EXCEPT !.dest = dest])
  PROVE  HopsCounted' /\ NoneAccepts
<1> DEFINE w == [[Address("app") EXCEPT !.dest = dest] EXCEPT !.hops = 0]
<1>1. w.at = "app" /\ w.hops = 0
  BY DEF Address
<1>2. tab' = [tab EXCEPT ![t] = w]
  BY DEF Redirect, Open, Resting, Address
<1>3. Counted(w)
  BY <1>1, FurthestOf DEF Counted, Resting
<1> HIDE DEF w
<1> QED
  BY <1>1, <1>2, <1>3, SentIsCounted

\* The way to the page: a login that was just begun is shown to it, and a page
\* without one begins at the beginning, once.
LEMMA BeginIsCounted ==
  ASSUME SignInTypes, HopsCounted, NEW t \in Tabs,
         StartAgain(t) \/ StartLogin(t) \/ Authorize(t) \/ Page(t)
  PROVE  HopsCounted' /\ NoneAccepts
<1>1. Counted(tab[t]) /\ tab[t].hops \in Nat /\ tab[t].login \in Names
  BY DEF HopsCounted, SignInTypes, Addresses
<1>2. CASE StartAgain(t) \/ StartLogin(t)
  <2>1. tab[t].hops <= 1
    BY <1>1, <1>2, FurthestOf DEF StartAgain, StartLogin, At, Counted
  <2>2. ErrorPage(t) \/ \E l \in Logins : To(t, "authorize", l)
    BY <1>2, Zenon DEF StartAgain, StartLogin, start
  <2>3. ASSUME NEW l \in Logins, To(t, "authorize", l) PROVE HopsCounted' /\ NoneAccepts
    <3>1. l \in Names /\ l # None
      BY NoneAssumption DEF Names
    <3>2. "authorize" \in Places
      BY DEF Places
    <3>3. tab[t].hops + 1 <= Furthest("authorize")
      BY <1>1, <2>1, FurthestOf
    <3> QED
      BY <2>3, <3>1, <3>2, <3>3, ToIsCounted
  <2> QED
    BY <2>2, <2>3, ErrorIsCounted
<1>3. CASE Authorize(t)
  <2>1. tab[t].hops <= 2 /\ tab[t].login # None /\ To(t, "page", tab[t].login)
    BY <1>1, <1>3, FurthestOf DEF Authorize, At, Counted
  <2>2. tab[t].hops + 1 <= Furthest("page") /\ "page" \in Places
    BY <1>1, <2>1, FurthestOf DEF Places
  <2> QED
    BY <1>1, <2>1, <2>2, ToIsCounted
<1>4. CASE Page(t)
  <2>1. tab[t].hops <= 3 /\ (tab[t].login = None => tab[t].hops = 0)
    BY <1>1, <1>4, FurthestOf DEF Page, At, Counted
  <2>2. \/ tab[t].login = None /\ Redirect(t, Address("bff"))
        \/ To(t, "kratos", tab[t].login)
    BY <1>4, Zenon DEF Page, start_flow
  <2>3. CASE tab[t].login = None /\ Redirect(t, Address("bff"))
    <3>1. Has(Address("bff"), "bff", None, None, None, None)
      BY AddressHas DEF Places
    <3>2. tab[t].hops + 1 <= Furthest("bff")
      BY <1>1, <2>1, <2>3, FurthestOf
    <3> QED
      BY <2>3, <3>1, <3>2, RedirectIsCounted
  <2>4. CASE To(t, "kratos", tab[t].login)
    <3>1. tab[t].hops + 1 <= Furthest("kratos") /\ "kratos" \in Places
      BY <1>1, <2>1, FurthestOf DEF Places
    <3> QED
      BY <1>1, <2>4, <3>1, ToIsCounted
  <2> QED
    BY <2>2, <2>3, <2>4
<1> QED
  BY <1>2, <1>3, <1>4

\* From the page through Kratos to the consent, with or without a form.
LEMMA KratosIsCounted ==
  ASSUME SignInTypes, HopsCounted, NEW t \in Tabs,
         KratosStarts(t) \/ FlowFound(t) \/ FlowGone(t) \/ SubmitForm(t)
  PROVE  HopsCounted' /\ NoneAccepts
<1>1. /\ Counted(tab[t]) /\ tab[t].hops \in Nat
      /\ tab[t].login \in Names /\ tab[t].code \in Names
  BY DEF HopsCounted, SignInTypes, Addresses
<1>2. CASE KratosStarts(t)
  <2>1. tab[t].hops <= 4
    BY <1>1, <1>2, FurthestOf DEF KratosStarts, At, Counted
  <2>2. \/ To(t, "consent", tab[t].login)
        \/ Redirect(t, [Address("flow") EXCEPT !.code = tab[t].login])
    BY <1>2, Zenon DEF KratosStarts
  <2>3. /\ tab[t].hops + 1 <= Furthest("consent") /\ "consent" \in Places
        /\ tab[t].hops + 1 <= Furthest("flow") /\ "flow" \in Places
    BY <1>1, <2>1, FurthestOf DEF Places
  <2>4. Has([Address("flow") EXCEPT !.code = tab[t].login], "flow", None, tab[t].login, None, None)
    BY <1>1, <2>3, AddressHas, WithCode, Zenon
  <2>5. CASE To(t, "consent", tab[t].login)
    BY <1>1, <2>3, <2>5, ToIsCounted
  <2>6. CASE Redirect(t, [Address("flow") EXCEPT !.code = tab[t].login])
    BY <2>3, <2>4, <2>6, RedirectIsCounted
  <2> QED
    BY <2>2, <2>5, <2>6
<1>3. CASE FlowFound(t)
  <2>1. Redirect(t, [tab[t] EXCEPT !.at = "form"]) /\ "form" \in Resting
    BY <1>3, Zenon DEF FlowFound, Resting
  <2>2. "form" \in Places \ {"authorize", "page"}
    BY DEF Places
  <2> QED
    BY <2>1, <2>2, PlaceIsCounted
<1>4. CASE FlowGone(t)
  <2>1. Open(t, Address("bff")) \/ ErrorPage(t)
    BY <1>4, Zenon DEF FlowGone
  <2>2. Address("bff").hops = 0 /\ Address("bff").at \notin {"authorize", "accepting"}
    BY DEF Address
  <2> QED
    BY <2>1, <2>2, OpenIsCounted, ErrorIsCounted
<1>5. CASE SubmitForm(t)
  <2>1. tab[t].hops <= 0 /\ To(t, "consent", tab[t].code)
    BY <1>1, <1>5, FurthestOf DEF SubmitForm, At, Counted, Resting
  <2>2. tab[t].hops + 1 <= Furthest("consent") /\ "consent" \in Places
    BY <1>1, <2>1, FurthestOf DEF Places
  <2> QED
    BY <1>1, <2>1, <2>2, ToIsCounted
<1> QED
  BY <1>2, <1>3, <1>4, <1>5

\* From the consent to the callback, and through its calls to the application.
LEMMA CallbackIsCounted ==
  ASSUME SignInTypes, HopsCounted, NEW t \in Tabs,
         Consent(t) \/ Callback(t) \/ ExchangeCode(t) \/ ExchangeFails(t) \/ Verify(t) \/ Started(t)
  PROVE  HopsCounted' /\ NoneAccepts
<1>1. /\ Counted(tab[t]) /\ tab[t].hops \in Nat
      /\ tab[t].login \in Names /\ tab[t].code \in Names
      /\ tab[t].dest \in Names \cup {App, Elsewhere}
  BY DEF HopsCounted, SignInTypes, Addresses
<1>2. CASE Consent(t)
  <2>1. tab[t].hops <= 5
    BY <1>1, <1>2, FurthestOf DEF Consent, At, Counted
  <2>2. tab[t].hops + 1 <= Furthest("callback")
    BY <1>1, <2>1, FurthestOf
  <2>3. \/ Redirect(t, [Address("callback") EXCEPT !.login = tab[t].login, !.code = tab[t].login])
        \/ Redirect(t, Address("blank"))
        \/ ErrorPage(t)
    BY <1>2, Zenon DEF Consent
  <2>4. Has([Address("callback") EXCEPT !.login = tab[t].login, !.code = tab[t].login],
            "callback", tab[t].login, tab[t].login, None, None)
    <3>1. Has(Address("callback"), "callback", None, None, None, None)
      BY AddressHas DEF Places
    <3> QED
      BY <1>1, <3>1, WithBoth, Zenon
  <2>5. Has(Address("blank"), "blank", None, None, None, None) /\ "blank" \in Resting
    BY AddressHas DEF Places, Resting
  <2>6. CASE Redirect(t, [Address("callback") EXCEPT !.login = tab[t].login, !.code = tab[t].login])
    BY <2>2, <2>4, <2>6, RedirectIsCounted
  <2>7. CASE Redirect(t, Address("blank"))
    BY <2>5, <2>7, RedirectIsCounted
  <2> QED
    BY <2>3, <2>6, <2>7, ErrorIsCounted
<1>3. CASE Callback(t)
  <2> DEFINE pending == jar[browser[t]].login
             old == jar[browser[t]].session
  <2>1. tab[t].hops <= 6
    BY <1>1, <1>3, FurthestOf DEF Callback, At, Counted
  <2>2. tab[t].hops + 1 <= Furthest("exchanging") /\ "exchanging" \in Places
    BY <1>1, <2>1, FurthestOf DEF Places
  <2>3. pending \in Cookies \cup {None} /\ old \in Names
    BY DEF SignInTypes
  <2>4. \/ Redirect(t, [tab[t] EXCEPT !.at = "exchanging", !.cookie = pending, !.dest = old])
        \/ ErrorPage(t)
    BY <1>3, Zenon DEF Callback
  <2>5. Has([tab[t] EXCEPT !.at = "exchanging", !.cookie = pending, !.dest = old],
            "exchanging", tab[t].login, tab[t].code, old, pending)
    <3>1. old \in Names \cup {App, Elsewhere}
      BY <2>3
    <3> HIDE DEF pending, old
    <3> QED
      BY <2>2, <2>3, <3>1, TabHas, WithCookie, Zenon
  <2> HIDE DEF pending, old
  <2>6. CASE Redirect(t, [tab[t] EXCEPT !.at = "exchanging", !.cookie = pending, !.dest = old])
    BY <2>2, <2>5, <2>6, RedirectIsCounted
  <2> QED
    BY <2>4, <2>6, ErrorIsCounted
<1>4. CASE ExchangeCode(t) \/ ExchangeFails(t)
  <2>1. tab[t].hops <= 7
    BY <1>1, <1>4, FurthestOf DEF ExchangeCode, ExchangeFails, At, Counted
  <2>2. tab[t].hops + 1 <= Furthest("verifying")
    BY <1>1, <2>1, FurthestOf
  <2>3. Redirect(t, [tab[t] EXCEPT !.at = "verifying"]) \/ ErrorPage(t)
    BY <1>4, Zenon DEF ExchangeCode, ExchangeFails
  <2>4. "verifying" \in Places \ {"authorize", "page"}
    BY DEF Places
  <2> QED
    BY <2>2, <2>3, <2>4, PlaceIsCounted, ErrorIsCounted
<1>5. CASE Verify(t)
  <2>1. tab[t].hops <= 8
    BY <1>1, <1>5, FurthestOf DEF Verify, At, Counted
  <2>2. tab[t].hops + 1 <= Furthest("saved")
    BY <1>1, <2>1, FurthestOf
  <2>3. Redirect(t, [tab[t] EXCEPT !.at = "saved"]) \/ ErrorPage(t)
    BY <1>5, Zenon DEF Verify
  <2>4. "saved" \in Places \ {"authorize", "page"}
    BY DEF Places
  <2> QED
    BY <2>2, <2>3, <2>4, PlaceIsCounted, ErrorIsCounted
<1>6. CASE Started(t)
  <2>1. Redirect(t, [Address("app") EXCEPT !.dest = tab[t].cookie.dest])
    BY <1>6, Zenon DEF Started
  <2> QED
    BY <2>1, AppIsCounted, Zenon
<1> QED
  BY <1>2, <1>3, <1>4, <1>5, <1>6

\* What the user opens, or leaves for, is the first of its way.
LEMMA OpenedIsCounted ==
  ASSUME SignInTypes, HopsCounted, NEW t \in Tabs, OpenLink(t) \/ EditCookie(t) \/ Leave(t)
  PROVE  HopsCounted' /\ NoneAccepts
<1>1. CASE OpenLink(t)
  <2> DEFINE First(w) == w.hops = 0 /\ w.at \in {"callback", "page", "consent", "logged_out"}
  <2>1. PICK w : Open(t, w) /\ First(w)
    <3>1. \A s, c : First([Address("callback") EXCEPT !.login = s, !.code = c])
      BY DEF Address
    <3>2. \A page \in {"page", "consent", "callback"} : First(Address(page))
      BY DEF Address
    <3>3. First([Address("logged_out") EXCEPT !.dest = Elsewhere])
      BY DEF Address
    <3>4. \/ \E s, c : Open(t, [Address("callback") EXCEPT !.login = s, !.code = c])
          \/ \E page \in {"page", "consent", "callback"} : Open(t, Address(page))
          \/ Open(t, [Address("logged_out") EXCEPT !.dest = Elsewhere])
      BY <1>1, Zenon DEF OpenLink
    <3> HIDE DEF First
    <3> QED
      BY <3>1, <3>2, <3>3, <3>4, Zenon
  <2>2. w.at \notin {"authorize", "accepting"}
    BY <2>1
  <2> QED
    BY <2>1, <2>2, OpenIsCounted
<1>2. CASE EditCookie(t)
  BY <1>2 DEF EditCookie, HopsCounted, NoneAccepts, Counted
<1>3. CASE Leave(t)
  <2>1. /\ Open(t, Address("blank")) /\ Address("blank").hops = 0
        /\ Address("blank").at \notin {"authorize", "accepting"}
    BY <1>3 DEF Leave, Address
  <2> QED
    BY <2>1, OpenIsCounted
<1> QED
  BY <1>1, <1>2, <1>3

\* The way out: by Hydra to the challenge, or past it, and on to the application.
LEMMA LogoutIsCounted ==
  ASSUME SignInTypes, HopsCounted, NEW t \in Tabs,
         Logout(t) \/ HydraLogout(t) \/ LogoutRequest(t) \/ AcceptLogout(t) \/ LoggedOut(t)
  PROVE  HopsCounted' /\ NoneAccepts
<1>1. Counted(tab[t]) /\ tab[t].hops \in Nat
  BY DEF HopsCounted, SignInTypes, Addresses
<1>2. CASE Logout(t)
  <2>1. tab[t].hops <= 0
    BY <1>1, <1>2, FurthestOf DEF Logout, At, Counted, Resting
  <2>a. PICK hint \in Names, dest \in Names \cup {App, Elsewhere} :
          \E w : Has(w, "end", None, hint, dest, None) /\ Redirect(t, w)
    BY <1>2, LogoutSends
  <2>2. PICK w : Has(w, "end", None, hint, dest, None) /\ Redirect(t, w)
    BY <2>a
  <2>3. tab[t].hops + 1 <= Furthest("end")
    BY <1>1, <2>1, FurthestOf
  <2> QED
    BY <2>2, <2>3, RedirectIsCounted
<1>3. CASE HydraLogout(t)
  <2>1. tab[t].hops <= 1
    BY <1>1, <1>3, FurthestOf DEF HydraLogout, At, Counted
  <2>2. Redirect(t, [tab[t] EXCEPT !.at = "logout"]) \/ Redirect(t, [tab[t] EXCEPT !.at = "logged_out"])
    BY <1>3, Zenon DEF HydraLogout
  <2>3. /\ tab[t].hops + 1 <= Furthest("logout") /\ tab[t].hops + 1 <= Furthest("logged_out")
        /\ {"logout", "logged_out"} \subseteq Places \ {"authorize", "page", "accepting"}
    BY <1>1, <2>1, FurthestOf DEF Places
  <2> QED
    BY <2>2, <2>3, PlaceIsCounted
<1>4. CASE LogoutRequest(t)
  <2>1. tab[t].hops <= 2
    BY <1>1, <1>4, FurthestOf DEF LogoutRequest, At, Counted
  <2>2. Redirect(t, [tab[t] EXCEPT !.at = "ending"]) \/ ErrorPage(t)
    BY <1>4, Zenon DEF LogoutRequest
  <2>3. /\ tab[t].hops + 1 <= Furthest("ending")
        /\ "ending" \in Places \ {"authorize", "page"}
    BY <1>1, <2>1, FurthestOf DEF Places
  <2> QED
    BY <2>2, <2>3, PlaceIsCounted, ErrorIsCounted
<1>5. CASE AcceptLogout(t)
  <2>1. tab[t].hops <= 4
    BY <1>1, <1>5, FurthestOf DEF AcceptLogout, At, Counted
  <2>2. Redirect(t, [tab[t] EXCEPT !.at = "logged_out"]) \/ ErrorPage(t)
    BY <1>5, Zenon DEF AcceptLogout
  <2>3. /\ tab[t].hops + 1 <= Furthest("logged_out")
        /\ "logged_out" \in Places \ {"authorize", "page"}
    BY <1>1, <2>1, FurthestOf DEF Places
  <2> QED
    BY <2>2, <2>3, PlaceIsCounted, ErrorIsCounted
<1>6. CASE LoggedOut(t)
  <2>1. Redirect(t, [Address("app") EXCEPT !.dest = destination(tab[t].dest)])
    BY <1>6, Zenon DEF LoggedOut
  <2> QED
    BY <2>1, AppIsCounted, Zenon
<1> QED
  BY <1>2, <1>3, <1>4, <1>5, <1>6

\* The one step that brings a tab to the answer to Hydra.
LEMMA EndIsCounted ==
  ASSUME SignInTypes, HopsCounted, NEW t \in Tabs, end_kratos_session(t)
  PROVE  HopsCounted' /\ \A u \in Tabs \ {t} : tab'[u] = tab[u]
<1>1. Counted(tab[t]) /\ tab[t].hops \in Nat /\ tab[t].hops <= 3
  BY FurthestOf DEF HopsCounted, SignInTypes, Addresses, end_kratos_session, At, Counted
<1>2. /\ tab[t].hops + 1 <= Furthest("accepting")
      /\ "accepting" \in Places \ {"authorize", "page"}
  BY <1>1, FurthestOf DEF Places
<1>3. Redirect(t, [tab[t] EXCEPT !.at = "accepting"])
  BY Zenon DEF end_kratos_session
<1>4. HopsCounted'
  BY <1>2, <1>3, PlaceIsCounted
<1>5. \A u \in Tabs \ {t} : tab'[u] = tab[u]
  BY <1>3 DEF Redirect, Open, SignInTypes
<1> QED
  BY <1>4, <1>5

\* Every step counts its hop, and only one brings a tab to the answer to Hydra.
LEMMA NextIsCounted ==
  ASSUME SignInTypes, HopsCounted, [Next]_vars
  PROVE  HopsCounted' /\ (NoneAccepts \/ \E t \in Tabs : end_kratos_session(t))
<1>1. CASE UNCHANGED vars
  BY <1>1 DEF vars, HopsCounted, Counted, NoneAccepts
<1>2. ASSUME NEW t \in Tabs, Follow(t) \/ FlowFound(t) \/ FlowGone(t) \/ Act(t), ~end_kratos_session(t)
      PROVE  HopsCounted' /\ NoneAccepts
  BY <1>2, BeginIsCounted, KratosIsCounted, CallbackIsCounted, OpenedIsCounted, LogoutIsCounted
  DEF Follow, Act
<1>3. ASSUME NEW t \in Tabs, end_kratos_session(t) PROVE HopsCounted'
  BY <1>3, EndIsCounted
<1> QED
  BY <1>1, <1>2, <1>3 DEF Next

\* A browser that is not sent in circles by Kratos gets to a page in a bounded
\* number of redirects, wherever it began (pages.rs:127-148).
THEOREM RedirectsEndHolds == Spec => []RedirectsEnd
<1>1. Init => HopsCounted
  BY FurthestOf DEF Init, HopsCounted, Counted, Address, Resting
<1>2. SignInInv /\ HopsCounted /\ [Next]_vars => HopsCounted'
  BY NextIsCounted DEF SignInInv
<1>3. SignInInv /\ HopsCounted => RedirectsEnd
  <2> SUFFICES ASSUME SignInInv, HopsCounted, NEW t \in Tabs PROVE tab[t].hops <= 10
    BY DEF RedirectsEnd
  <2>1. tab[t].hops \in Nat /\ tab[t].hops <= Furthest(tab[t].at) /\ Furthest(tab[t].at) \in 0..9
    BY FurthestOf DEF SignInInv, SignInTypes, Addresses, HopsCounted, Counted
  <2> QED
    BY <2>1
<1> QED
  BY <1>1, <1>2, <1>3, InitSignInInv, NextKeepsSignInInv, PTL DEF Spec

-----------------------------------------------------------------------------
(* Logging out                                                             *)

(* Who has come to answer Hydra has ended its session at Kratos, unless    *)
(* that failed or its user has signed in again.                            *)
KratosEnded ==
    \A t \in Tabs : tab[t].at = "accepting" => browser[t] \notin kratos \/ t \in back

\* A session at Kratos begins with a note to all that are logging out, and the
\* note is taken back where a logout begins.
LEMMA NextKeepsKratosEnded ==
  ASSUME SignInInv, HopsCounted, KratosEnded, [Next]_vars
  PROVE  KratosEnded'
<1>1. SignInTypes /\ browser' = browser
  BY DEF SignInInv, Next, vars, Follow, Act, StartAgain, Authorize, Page, KratosStarts, Consent,
         Callback, ExchangeCode, ExchangeFails, Verify, Started, HydraLogout, LogoutRequest,
         end_kratos_session, AcceptLogout, LoggedOut, StartLogin, SubmitForm, OpenLink, EditCookie,
         Logout, Leave, FlowFound, FlowGone
<1>2. CASE \E t \in Tabs : SubmitForm(t)
  <2>1. PICK t \in Tabs : SubmitForm(t)
    BY <1>2
  <2>2. /\ kratos' = kratos \cup {browser[t]}
        /\ back' = back \cup {u \in Tabs : browser[u] = browser[t]}
    BY <2>1 DEF SubmitForm
  <2>3. NoneAccepts
    BY <1>1, <2>1, KratosIsCounted
  <2> QED
    BY <1>1, <2>2, <2>3 DEF KratosEnded, NoneAccepts
<1>3. CASE \E t \in Tabs : LogoutRequest(t)
  <2>1. PICK t \in Tabs : LogoutRequest(t)
    BY <1>3
  <2>2. kratos' = kratos /\ back' = back \ {t} /\ tab[t].at = "logout"
    BY <2>1 DEF LogoutRequest, At
  <2>3. NoneAccepts
    BY <1>1, <2>1, LogoutIsCounted
  <2> QED
    BY <1>1, <2>2, <2>3 DEF KratosEnded, NoneAccepts
<1>4. CASE \E t \in Tabs : end_kratos_session(t)
  <2>1. PICK t \in Tabs : end_kratos_session(t)
    BY <1>4
  <2>2. \/ kratos' = kratos \ {browser[t]} /\ back' = back
        \/ kratos' = kratos /\ back' = back \cup {t}
    BY <2>1 DEF end_kratos_session
  <2>3. \A u \in Tabs \ {t} : tab'[u] = tab[u]
    BY <1>1, <2>1, EndIsCounted
  <2> QED
    BY <1>1, <2>2, <2>3 DEF KratosEnded
<1>5. CASE ~\E t \in Tabs : SubmitForm(t) \/ LogoutRequest(t) \/ end_kratos_session(t)
  <2>1. kratos' = kratos /\ back' = back
    BY <1>5
    DEF Next, vars, Follow, Act, StartAgain, Authorize, Page, KratosStarts, Consent,
        Callback, ExchangeCode, ExchangeFails, Verify, Started, HydraLogout, AcceptLogout, LoggedOut,
        StartLogin, OpenLink, EditCookie, Logout, Leave, FlowFound, FlowGone, signedIn
  <2>2. NoneAccepts
    BY <1>1, <1>5, NextIsCounted
  <2> QED
    BY <1>1, <2>1, <2>2 DEF KratosEnded, NoneAccepts
<1> QED
  BY <1>2, <1>3, <1>4, <1>5

\* When a logout ends a browser's session at Hydra, the one at Kratos has ended
\* before, unless Kratos failed or the user signed in again meanwhile
\* (challenges.rs:28-30, 78-89).
THEOREM LogoutEndsBothSessionsHolds == Spec => LogoutEndsBothSessions
<1> DEFINE Both == \A b \in sso : b \notin sso' => \/ b \notin kratos
                                                   \/ \E t \in back : browser[t] = b /\ At(t, "accepting")
<1>1. Init => HopsCounted /\ KratosEnded
  BY FurthestOf DEF Init, HopsCounted, Counted, Address, Resting, KratosEnded
<1>2. SignInInv /\ HopsCounted /\ [Next]_vars => HopsCounted'
  BY NextIsCounted DEF SignInInv
<1>3. SignInInv /\ HopsCounted /\ KratosEnded /\ [Next]_vars => KratosEnded'
  BY NextKeepsKratosEnded
<1>4. ASSUME KratosEnded, [Next]_vars PROVE Both
  <2> SUFFICES ASSUME NEW b \in sso, b \notin sso'
               PROVE  b \notin kratos \/ \E t \in back : browser[t] = b /\ At(t, "accepting")
    OBVIOUS
  <2>1. PICK t \in Tabs : AcceptLogout(t)
    BY <1>4
    DEF Next, vars, Follow, Act, StartAgain, Authorize, Page, KratosStarts, Consent,
        Callback, ExchangeCode, ExchangeFails, Verify, Started, HydraLogout, LogoutRequest,
        end_kratos_session, LoggedOut, StartLogin, SubmitForm, OpenLink, EditCookie, Logout, Leave,
        FlowFound, FlowGone, signedIn, hydraVars
  <2>2. At(t, "accepting") /\ sso' \in {sso, sso \ {browser[t]}}
    BY <2>1 DEF AcceptLogout
  <2>3. b = browser[t]
    BY <2>2
  <2> QED
    BY <1>4, <2>2, <2>3 DEF KratosEnded, At
<1>5. KratosEnded /\ [Next]_vars => [Both]_vars
  BY <1>4
<1> QED
  BY <1>1, <1>2, <1>3, <1>5, InitSignInInv, NextKeepsSignInInv, PTL DEF Spec, LogoutEndsBothSessions
=============================================================================
