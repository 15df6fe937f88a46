----------------------------- MODULE Deployment -----------------------------
(***************************************************************************)
(* A deployment from its start: the launcher and the services it starts    *)
(* with the settings it has, and, while they all serve, the requests that  *)
(* come in (Requests) and the pages login shows (Pages).  A service that   *)
(* goes down takes the request it was at with it.                          *)
(***************************************************************************)
EXTENDS Launcher, Requests

CONSTANTS Watched,       \* bound: the deployments whose requests are followed
          Flows, Headers   \* what Kratos sends and how a browser asks for it

Page == INSTANCE Pages

(* Kratos' flows, and headers as login takes them apart.                   *)
ASSUME PagesAssumption ==
    /\ \A flow \in Flows : Page!KratosSends(flow)
    /\ \A headers \in Headers :
          /\ headers.cookies \in Seq(Seq(STRING))
          /\ headers.accepted \in Seq([tag : Seq(STRING), q : Nat])

depVars == <<launchVars, vars>>

DepInit == LaunchInit /\ Init /\ (deployed \notin Watched => service = "login")

(* The launcher's look at the services does not meet what they do: bound,  *)
(* requests come in while it looks at the first.                           *)
Serving == AllServe /\ launcher.does = "look" /\ launcher.at = 1

Requesting == Serving /\ deployed \in Watched /\ Next /\ UNCHANGED launchVars

(* A page with a flow is rendered in the language asked for.               *)
Visit ==
    /\ Serving /\ service = "login" /\ call = Idle /\ spent = NoneSpent
    /\ \E flow \in Flows, headers \in Headers :
          Page!Render(flow, headers, Lang!Catalog(d.locales, loginConfig(d).default_locale),
                      [own |-> loginConfig(d).own_origin.scheme,
                       kratos |-> loginConfig(d).kratos_public_url.scheme])
    /\ UNCHANGED <<launchVars, service, limitVars>>

Seen ==
    /\ call.at \in {"visited", "no page"}
    /\ call' = Idle
    /\ UNCHANGED <<launchVars, service, limitVars>>

Down ==
    /\ call = Idle                          \* bound: between two requests
    /\ \E s \in Services : Crashes(s)
    /\ spent' = NoneSpent /\ sent' = NoneSpent
    /\ UNCHANGED <<service, call>>

Starting == call = Idle /\ (\E s \in Services : Starts(s)) /\ UNCHANGED vars
Launching == call = Idle /\ LauncherSteps /\ UNCHANGED vars

DepNext == Requesting \/ Visit \/ Seen \/ Down \/ Starting \/ Launching

(* The launcher's loop has no step that waits on a service.                *)
DepSpec == DepInit /\ [][DepNext]_depVars /\ WF_depVars(Launching)

(* The invariants of the parts (Pages, LoginProxy and Edge), of            *)
(* login/src/render.rs:340-407 and login/src/proxy.rs:145-366.             *)
PagesInv == Page!PagesInv
ProxyInv == EveryCheckIsCounted /\ OutcomeTellsTheTruth
=============================================================================
