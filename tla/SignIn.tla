------------------------------- MODULE SignIn -------------------------------
(***************************************************************************)
(* Signing in and out, as the browser lives it: a tab follows redirects    *)
(* from bff (login.rs, callback.rs, logout.rs, logged_out.rs) to Hydra,    *)
(* login (pages.rs, challenges.rs), Kratos, and back.  What belongs to one *)
(* login travels in the browser: in its cookies, which the tabs share, and *)
(* in the addresses they are sent to.                                      *)
(*                                                                         *)
(* A login stands for its state, nonce, PKCE verifier, Hydra challenge and *)
(* code, which are random and its own; and for the session it leads to.    *)
(***************************************************************************)
EXTENDS Naturals, FiniteSets

CONSTANTS Tabs, Browsers,
          Logins,          \* names for logins; one nobody knows any more is used again
          App, Elsewhere,  \* destinations: one on the allowlist, one that is not
          None

ASSUME NoneAssumption == None \notin Logins \cup {App, Elsewhere} /\ App # Elsewhere

VARIABLES browser,  \* the browser a tab is of
          tab,      \* where it is
          jar,      \* each browser's cookies: a login under way, a session
          grant,    \* Hydra: how far each login's authorization is
          began,    \* history: which browser began a login
          user,     \* whose account it was signed in with: a browser's own
          chain,    \* Hydra: logins whose tokens work
          sessions, \* bff's sessions
          sso,      \* browsers with a login session at Hydra
          kratos,   \* browsers with a session at Kratos
          back      \* history: tabs whose logout failed at Kratos or was overtaken by a sign-in

vars == <<browser, tab, jar, grant, began, user, chain, sessions, sso, kratos, back>>

hydraVars == <<grant, began, user, chain, sso>>
signedIn == <<sessions, sso, kratos, back>>

Cookie(l, dest) == [login |-> l, dest |-> dest]

(* An address is what the next handler gets to see of it.                  *)
Address(at) == [at |-> at, login |-> None, code |-> None, dest |-> None, cookie |-> None,
                hops |-> 0]
At(t, place) == tab[t].at = place
Resting == {"blank", "app", "error", "form"}

(* The user goes somewhere, or is sent on by what was opened last.         *)
Open(t, where) == tab' = [tab EXCEPT ![t] = where]
Redirect(t, where) ==
    Open(t, [where EXCEPT !.hops = IF where.at \in Resting THEN 0 ELSE tab[t].hops + 1])
To(t, at, l) == Redirect(t, [Address(at) EXCEPT !.login = l])
ErrorPage(t) == Redirect(t, Address("error"))

(* No cookie and no address has the login any more; what is left of it at  *)
(* bff and Hydra expires.                                                  *)
Unknown(l) ==
    /\ \A b \in Browsers : jar[b].session # l /\ (jar[b].login # None => jar[b].login.login # l)
    /\ \A t \in Tabs : /\ l \notin {tab[t].login, tab[t].code, tab[t].dest}
                       /\ tab[t].cookie # None => tab[t].cookie.login # l

Init ==
    /\ browser \in [Tabs -> Browsers]
    /\ tab = [t \in Tabs |-> Address("blank")]
    /\ jar = [b \in Browsers |-> [login |-> None, session |-> None]]
    /\ grant = [l \in Logins |-> "none"]
    /\ began = [l \in Logins |-> None] /\ user = [l \in Logins |-> None]
    /\ chain = {} /\ sessions = {} /\ sso = {} /\ kratos = {} /\ back = {}

-----------------------------------------------------------------------------
(* bff: beginning a login                                                  *)

allows_redirect_uri(dest) == dest = App

(* The destination asked for, or the default one.                          *)
start(t, dest) ==
    LET b == browser[t]
    IN  IF ~allows_redirect_uri(dest)
        THEN ErrorPage(t) /\ UNCHANGED <<jar, grant, began, user, chain, sessions>>
        ELSE \E l \in Logins :
               /\ Unknown(l)
               /\ jar' = [jar EXCEPT ![b].login = Cookie(l, dest)]
               /\ grant' = [grant EXCEPT ![l] = "none"]
               /\ began' = [began EXCEPT ![l] = b] /\ user' = [user EXCEPT ![l] = None]
               /\ chain' = chain \ {l} /\ sessions' = sessions \ {l}
               /\ To(t, "authorize", l)

StartLogin(t) ==
    /\ tab[t].at \in Resting
    /\ \E dest \in {App, Elsewhere} : start(t, dest)
    /\ UNCHANGED <<browser, sso, kratos, back>>

(* login sent the browser back to bff to begin at the beginning.           *)
StartAgain(t) ==
    /\ At(t, "bff")
    /\ start(t, App)
    /\ UNCHANGED <<browser, sso, kratos, back>>

-----------------------------------------------------------------------------
(* login: its pages, Kratos behind them, and the consent challenge         *)

(* Hydra sends the browser to log in, whoever it takes it for.             *)
Authorize(t) ==
    /\ At(t, "authorize")
    /\ To(t, "page", tab[t].login)
    /\ UNCHANGED <<browser, jar, hydraVars, sessions, kratos, back>>

(* Mutant: a page without a challenge is asked for again.                  *)
start_flow_again(t) ==
    IF tab[t].login = None THEN Redirect(t, Address("page"))
                           ELSE To(t, "kratos", tab[t].login)

(* A page opened without a flow: a login needs a challenge to start one.   *)
start_flow(t) ==
    IF tab[t].login = None THEN Redirect(t, Address("bff"))
                           ELSE To(t, "kratos", tab[t].login)

Page(t) ==
    /\ At(t, "page")
    /\ start_flow(t)
    /\ UNCHANGED <<browser, jar, hydraVars, sessions, kratos, back>>

(* Kratos has a session and accepts, or starts a flow, whose id is all the *)
(* page is then opened with.                                               *)
KratosStarts(t) ==
    /\ At(t, "kratos")
    /\ IF browser[t] \in kratos
       THEN /\ user' = [user EXCEPT ![tab[t].login] = browser[t]]
            /\ sso' = sso \cup {browser[t]}
            /\ To(t, "consent", tab[t].login)
       ELSE /\ Redirect(t, [Address("flow") EXCEPT !.code = tab[t].login])
            /\ UNCHANGED <<user, sso>>
    /\ UNCHANGED <<browser, jar, grant, began, chain, sessions, kratos, back>>

(* fetch_flow: Kratos has the flow.                                        *)
FlowFound(t) ==
    /\ At(t, "flow")
    /\ Redirect(t, [tab[t] EXCEPT !.at = "form"])
    /\ UNCHANGED <<browser, jar, hydraVars, sessions, kratos, back>>

(* It is expired or not this browser's, and the page begins anew, knowing  *)
(* no challenge; or Kratos does not answer.                                *)
FlowGone(t) ==
    /\ At(t, "flow")
    /\ Open(t, Address("bff")) \/ ErrorPage(t)
    /\ UNCHANGED <<browser, jar, hydraVars, sessions, kratos, back>>

(* The user signs in; Kratos accepts the flow's login at Hydra.            *)
SubmitForm(t) ==
    /\ At(t, "form")
    /\ kratos' = kratos \cup {browser[t]} /\ sso' = sso \cup {browser[t]}
    /\ back' = back \cup {u \in Tabs : browser[u] = browser[t]}
    /\ user' = [user EXCEPT ![tab[t].code] = browser[t]]
    /\ To(t, "consent", tab[t].code)
    /\ UNCHANGED <<browser, jar, grant, began, chain, sessions>>

(* check_grantable: bff's client, and no scope but the two it asks for.    *)
check_grantable(request) == request.client = "bff" /\ request.scopes \subseteq {"openid", "offline_access"}

(* The consent page looks the challenge up and answers it: both can fail.  *)
Consent(t) ==
    /\ At(t, "consent")
    /\ LET l == tab[t].login
           request == [client |-> IF l = None THEN "other" ELSE "bff",
                       scopes |-> {"openid", "offline_access"}]
       IN  \/ /\ check_grantable(request)
              /\ grant' = [grant EXCEPT ![l] = "code"]
              /\ \/ Redirect(t, [Address("callback") EXCEPT !.login = l, !.code = l])
                 \/ ErrorPage(t)
           \/ /\ ~check_grantable(request)
              /\ Redirect(t, Address("blank")) /\ UNCHANGED grant
           \/ ErrorPage(t) /\ UNCHANGED grant
    /\ UNCHANGED <<browser, jar, began, user, chain, signedIn>>

-----------------------------------------------------------------------------
(* bff: the callback                                                       *)

(* Any address can be opened in any tab: a callback with the code and the  *)
(* state of any two logins (a reload, a link passed on, a stale tab), or   *)
(* one of the pages bare, with another client's challenge, or with a       *)
(* destination of one's own.                                               *)
OpenLink(t) ==
    /\ tab[t].at \in Resting
    /\ \/ \E c, s \in {l \in Logins : grant[l] # "none"} :
             Open(t, [Address("callback") EXCEPT !.login = s, !.code = c])
       \/ \E page \in {"page", "consent", "callback"} : Open(t, Address(page))
       \/ Open(t, [Address("logged_out") EXCEPT !.dest = Elsewhere])
    /\ UNCHANGED <<browser, jar, hydraVars, sessions, kratos, back>>

(* The cookie is the browser's to edit.                                    *)
EditCookie(t) ==
    /\ At(t, "callback") /\ jar[browser[t]].login # None
    /\ jar' = [jar EXCEPT ![browser[t]].login.dest = Elsewhere]
    /\ UNCHANGED <<browser, tab, hydraVars, sessions, kratos, back>>

(* Mutant: the cookie's destination is taken as it comes.                  *)
MayRedeemAnywhere(pending, where) ==
    /\ pending # None
    /\ where.login = pending.login
    /\ where.code # None

(* Everything `complete` asks before it redeems the code.                  *)
MayRedeem(pending, where) ==
    /\ pending # None
    /\ where.login = pending.login
    /\ where.code # None
    /\ allows_redirect_uri(pending.dest)

Callback(t) ==
    /\ At(t, "callback")
    /\ LET pending == jar[browser[t]].login
       IN  IF MayRedeem(pending, tab[t])
           THEN Redirect(t, [tab[t] EXCEPT !.at = "exchanging", !.cookie = pending,
                                           !.dest = jar[browser[t]].session])
           ELSE ErrorPage(t)
    /\ UNCHANGED <<browser, jar, hydraVars, sessions, kratos, back>>

(* Hydra: a code is good once, with its own verifier; a second use revokes *)
(* what the first one gave.                                                *)
Redeems(code, pending) == grant[code] = "code" /\ pending.login = code

ExchangeCode(t) ==
    /\ At(t, "exchanging")
    /\ LET c == tab[t].code
       IN  IF Redeems(c, tab[t].cookie)
           THEN /\ grant' = [grant EXCEPT ![c] = "spent"] /\ chain' = chain \cup {c}
                /\ Redirect(t, [tab[t] EXCEPT !.at = "verifying"]) \/ ErrorPage(t)
           ELSE /\ chain' = IF grant[c] = "spent" THEN chain \ {c} ELSE chain
                /\ ErrorPage(t) /\ UNCHANGED grant
    /\ UNCHANGED <<browser, jar, began, user, sessions, sso, kratos, back>>

(* Hydra cannot be asked.                                                  *)
ExchangeFails(t) ==
    /\ At(t, "exchanging")
    /\ ErrorPage(t)
    /\ UNCHANGED <<browser, jar, hydraVars, sessions, kratos, back>>

(* verify_id_token: the nonce is the login's; the keys may be out of reach *)
(* and the answer may lack a token: then nobody knows its tokens.          *)
Verify(t) ==
    /\ At(t, "verifying")
    /\ \/ /\ tab[t].cookie.login = tab[t].code
          /\ sessions' = sessions \cup {tab[t].code}
          /\ Redirect(t, [tab[t] EXCEPT !.at = "saved"])
       \/ ErrorPage(t) /\ UNCHANGED sessions
    /\ UNCHANGED <<browser, jar, hydraVars, kratos, back>>

(* The session the browser logged in over ends; its token's revocation can *)
(* fail.  Then the browser gets its new cookie and goes on.                *)
end_session(s) ==
    /\ sessions' = sessions \ {s}
    /\ \/ chain' = chain \ {s}
       \/ UNCHANGED chain

Started(t) ==
    /\ At(t, "saved")
    /\ end_session(tab[t].dest)
    /\ jar' = [jar EXCEPT ![browser[t]] = [login |-> None, session |-> tab[t].code]]
    /\ Redirect(t, [Address("app") EXCEPT !.dest = tab[t].cookie.dest])
    /\ UNCHANGED <<browser, grant, began, user, sso, kratos, back>>

-----------------------------------------------------------------------------
(* Signing out                                                             *)

(* bff ends its session and sends the browser to Hydra, with the session's *)
(* id_token as the hint; a destination off the allowlist is dropped.       *)
Logout(t) ==
    /\ At(t, "app")
    /\ LET s == jar[browser[t]].session
       IN  /\ IF s \in sessions THEN end_session(s) ELSE UNCHANGED <<sessions, chain>>
           /\ jar' = [jar EXCEPT ![browser[t]].session = None]
           /\ \E dest \in {App, Elsewhere, None} :
                 Redirect(t, [Address("end") EXCEPT
                               !.code = IF s \in sessions THEN s ELSE None,
                               !.dest = IF allows_redirect_uri(dest) THEN dest ELSE None])
    /\ UNCHANGED <<browser, grant, began, user, sso, kratos, back>>

(* Hydra has a login session to end and asks login, or has none.           *)
HydraLogout(t) ==
    /\ At(t, "end")
    /\ Redirect(t, [tab[t] EXCEPT !.at = IF browser[t] \in sso THEN "logout" ELSE "logged_out"])
    /\ UNCHANGED <<browser, jar, hydraVars, sessions, kratos, back>>

(* Mutant: the logout is accepted without Kratos.                          *)
LogoutAtHydraOnly(t) ==
    /\ At(t, "logout")
    /\ Redirect(t, [tab[t] EXCEPT !.at = "accepting"])
    /\ back' = back \ {t}
    /\ UNCHANGED <<browser, jar, hydraVars, sessions, kratos>>

(* Only a logout the application started is accepted, by its hint.         *)
LogoutRequest(t) ==
    /\ At(t, "logout")
    /\ IF tab[t].code # None
       THEN Redirect(t, [tab[t] EXCEPT !.at = "ending"]) \/ ErrorPage(t)
       ELSE ErrorPage(t)
    /\ back' = back \ {t}
    /\ UNCHANGED <<browser, jar, hydraVars, sessions, kratos>>

(* A failure here does not stop the logout.                                *)
end_kratos_session(t) ==
    /\ At(t, "ending")
    /\ \/ kratos' = kratos \ {browser[t]} /\ UNCHANGED back
       \/ back' = back \cup {t} /\ UNCHANGED kratos
    /\ Redirect(t, [tab[t] EXCEPT !.at = "accepting"])
    /\ UNCHANGED <<browser, jar, hydraVars, sessions>>

(* Hydra ends its session, tells bff of the others that came from it       *)
(* (BackchannelLogout), and sends the browser on; or cannot be asked.      *)
AcceptLogout(t) ==
    /\ At(t, "accepting")
    /\ \/ /\ sso' = sso \ {browser[t]}
          /\ LET ended == {l \in sessions : user[l] = browser[t]}
             IN  sessions' = sessions \ ended /\ chain' = chain \ ended
          /\ Redirect(t, [tab[t] EXCEPT !.at = "logged_out"]) \/ ErrorPage(t)
       \/ ErrorPage(t) /\ UNCHANGED <<sso, sessions, chain>>
    /\ UNCHANGED <<browser, jar, grant, began, user, kratos, back>>

(* The allowlisted destination, else the default, which is the same here.  *)
destination(dest) == IF allows_redirect_uri(dest) THEN dest ELSE App

LoggedOut(t) ==
    /\ At(t, "logged_out")
    /\ Redirect(t, [Address("app") EXCEPT !.dest = destination(tab[t].dest)])
    /\ UNCHANGED <<browser, jar, hydraVars, sessions, kratos, back>>

-----------------------------------------------------------------------------

(* The user goes elsewhere; a handler in the middle of a call is dropped.  *)
Leave(t) ==
    /\ tab[t].at # "blank"
    /\ Open(t, Address("blank"))
    /\ UNCHANGED <<browser, jar, hydraVars, sessions, kratos, back>>

Follow(t) ==
    \/ StartAgain(t) \/ Authorize(t) \/ Page(t) \/ KratosStarts(t) \/ Consent(t)
    \/ Callback(t) \/ ExchangeCode(t) \/ ExchangeFails(t) \/ Verify(t) \/ Started(t)
    \/ HydraLogout(t) \/ LogoutRequest(t) \/ end_kratos_session(t) \/ AcceptLogout(t)
    \/ LoggedOut(t)

Act(t) ==
    \/ StartLogin(t) \/ SubmitForm(t) \/ OpenLink(t) \/ EditCookie(t)
    \/ Logout(t) \/ Leave(t)

Next == \E t \in Tabs : Follow(t) \/ FlowFound(t) \/ FlowGone(t) \/ Act(t)

Spec == Init /\ [][Next]_vars

-----------------------------------------------------------------------------
(* Properties                                                              *)

(* A browser's session comes of a login that this browser began and its    *)
(* user signed in to, whatever callbacks are opened in it, in whatever     *)
(* order its tabs come back; and it lands nowhere but on the allowlist     *)
(* (callback.rs:232-253).                                                  *)
SessionOfItsOwnLogin ==
    /\ \A b \in Browsers :
          jar[b].session # None => began[jar[b].session] = b /\ user[jar[b].session] = b
    /\ \A t \in Tabs : At(t, "app") => tab[t].dest = App

(* When Hydra's session ends in a logout, the browser's session at Kratos  *)
(* has ended before, unless Kratos failed or the user signed in again      *)
(* during the logout; so who comes back is asked to sign in                *)
(* (challenges.rs:28-30, 78-89).                                           *)
LogoutEndsBothSessions ==
    [][\A b \in sso : b \notin sso' => \/ b \notin kratos
                                       \/ \E t \in back : browser[t] = b /\ At(t, "accepting")]_vars

(* A browser is never sent round in circles: unless Kratos keeps saying    *)
(* that the flow it has just made is gone, what a browser is redirected    *)
(* through ends on a page, however little of a login it was opened with    *)
(* (pages.rs:127-148).                                                     *)
RedirectsEnd == \A t \in Tabs : tab[t].hops <= 10
=============================================================================
