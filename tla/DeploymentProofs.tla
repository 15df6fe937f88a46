-------------------------- MODULE DeploymentProofs ---------------------------
(***************************************************************************)
(* Proofs about Deployment, for any deployments, requests and pages.  What *)
(* the launcher leaves behind follows from how far it is in its list       *)
(* (LauncherInv), and what the services serve with from what each checks   *)
(* of its settings when it starts (ServingInv).                            *)
(***************************************************************************)
EXTENDS Deployment, FiniteSetTheorems, SequenceTheorems, WellFoundedInduction, TLAPS

Procs == {"none", "starting", "serving", "ended"}
LaunchTypeOK ==
    /\ proc \in [Services -> Procs]
    /\ status \in [Services -> {0, 1, 101, Killed}]
    /\ launcher \in [does : {"start", "look", "stop", "exited"}, at : 1..4, started : 0..3,
                     code : 0..255]

(* What is not started, or stopped again, is not there.                    *)
NotThere ==
    /\ \A i \in 1..3 : i > launcher.started => proc[SERVICES[i]] = "none"
    /\ launcher.does \in {"stop", "exited"} =>
          \A i \in 1..3 : i < launcher.at => proc[SERVICES[i]] = "none"

WhereItIs ==
    /\ launcher.does = "start" => launcher.at \in 1..3 /\ launcher.started = launcher.at - 1
    /\ launcher.does = "look" => launcher.at \in 1..3
    /\ launcher.does \in {"stop", "exited"} => launcher.code \in 1..255
    /\ launcher.does = "stop" => launcher.at <= launcher.started + 1
    /\ launcher.does = "exited" => launcher.at = launcher.started + 1

LauncherInv == LaunchTypeOK /\ NotThere /\ WhereItIs

\* SERVICES has hooks, bff and login, each once.
LEMMA ThreeServices ==
  /\ Services = {"hooks", "bff", "login"} /\ Len(SERVICES) = 3 /\ DOMAIN SERVICES = 1..3
  /\ SERVICES[1] = "hooks" /\ SERVICES[2] = "bff" /\ SERVICES[3] = "login"
  /\ \A i \in 1..3 : SERVICES[i] \in Services
  /\ \A i, j \in 1..3 : SERVICES[i] = SERVICES[j] => i = j
  /\ \A s \in Services : \E i \in 1..3 : s = SERVICES[i]
<1>1. /\ Len(SERVICES) = 3 /\ DOMAIN SERVICES = 1..3
      /\ SERVICES[1] = "hooks" /\ SERVICES[2] = "bff" /\ SERVICES[3] = "login"
  BY DEF SERVICES
<1>2. Services = {"hooks", "bff", "login"}
  BY <1>1 DEF Services
<1> QED
  BY <1>1, <1>2

\* The launcher begins with nothing started.
LEMMA InitLauncherInv == LaunchInit => LauncherInv
  BY ThreeServices DEF LaunchInit, LauncherInv, LaunchTypeOK, NotThere, WhereItIs, Procs

\* A service that was started goes on, or ends.
LEMMA ServiceKeepsLauncherInv ==
  ASSUME LauncherInv, NEW s \in Services, proc[s] \in {"starting", "serving"},
         NEW p \in Procs, proc' = [proc EXCEPT ![s] = p],
         status' \in [Services -> {0, 1, 101, Killed}], UNCHANGED launcher
  PROVE  LauncherInv'
  BY ThreeServices DEF LauncherInv, LaunchTypeOK, NotThere, WhereItIs

\* app_start of a service: it serves, or it ends with 1 or 101.
LEMMA StartsKeepsLauncherInv ==
  ASSUME LauncherInv, NEW s \in Services, Starts(s)
  PROVE  LauncherInv'
<1>1. proc[s] = "starting" /\ UNCHANGED launcher
  BY DEF Starts
<1>2. \/ proc' = [proc EXCEPT ![s] = "serving"] /\ UNCHANGED status
      \/ proc' = [proc EXCEPT ![s] = "ended"] /\ status' = [status EXCEPT ![s] = 1]
  BY DEF Starts, Ends
<1>3. status' \in [Services -> {0, 1, 101, Killed}]
  BY <1>2 DEF LauncherInv, LaunchTypeOK
<1> QED
  BY <1>1, <1>2, <1>3, ServiceKeepsLauncherInv DEF Procs

\* A service that serves ends by itself.
LEMMA CrashesKeepsLauncherInv ==
  ASSUME LauncherInv, NEW s \in Services, Crashes(s)
  PROVE  LauncherInv'
<1>1. status' \in [Services -> {0, 1, 101, Killed}]
  BY DEF Crashes, Ends, LauncherInv, LaunchTypeOK
<1> QED
  BY <1>1, ServiceKeepsLauncherInv DEF Crashes, Ends, Procs

\* The launcher turns to stopping what it started.
LEMMA StopKeepsLauncherInv ==
  ASSUME LauncherInv, launcher.does \in {"start", "look"},
         NEW code \in 1..255, stop(code), UNCHANGED <<proc, status>>
  PROVE  LauncherInv'
<1> USE DEF LauncherInv
<1>1. launcher \in [does : {"start", "look", "stop", "exited"}, at : 1..4, started : 0..3,
                   code : 0..255]
  BY DEF LaunchTypeOK
<1>2. /\ launcher'.does = "stop" /\ launcher'.at = 1 /\ launcher'.code = code
      /\ launcher'.started = launcher.started
      /\ launcher' \in [does : {"start", "look", "stop", "exited"}, at : 1..4, started : 0..3,
                        code : 0..255]
  <2>1. launcher' = [does |-> "stop", at |-> 1, started |-> launcher.started, code |-> code]
    BY <1>1 DEF stop
  <2> QED
    BY <1>1, <2>1
<1>3. LaunchTypeOK'
  BY <1>2 DEF LaunchTypeOK
<1> QED
  BY <1>1, <1>2, <1>3 DEF NotThere, WhereItIs

\* Command::spawn in main, or its failure, which stops what was started.
LEMMA SpawnKeepsLauncherInv == LauncherInv /\ Spawn => LauncherInv'
<1> SUFFICES ASSUME LauncherInv, Spawn PROVE LauncherInv'
  OBVIOUS
<1> USE ThreeServices DEF LauncherInv
<1>1. CASE stop(1) /\ UNCHANGED proc
  BY <1>1, StopKeepsLauncherInv DEF Spawn
<1>2. CASE /\ proc' = [proc EXCEPT ![SERVICES[launcher.at]] = "starting"]
           /\ launcher' = IF launcher.at = Len(SERVICES)
                          THEN [launcher EXCEPT !.does = "look", !.at = 1, !.started = launcher.at]
                          ELSE [launcher EXCEPT !.at = @ + 1, !.started = launcher.at]
  <2>1. launcher.at \in 1..3 /\ launcher.does = "start" /\ UNCHANGED status
    BY DEF Spawn, WhereItIs
  <2>2. LaunchTypeOK'
    <3>1. proc' \in [Services -> Procs]
      BY <1>2, <2>1 DEF LaunchTypeOK, Procs
    <3>2. launcher.at = 3 \/ launcher.at + 1 \in 1..4
      BY <2>1
    <3>3. launcher' \in [does : {"start", "look", "stop", "exited"}, at : 1..4, started : 0..3,
                        code : 0..255]
      <4>1. launcher \in [does : {"start", "look", "stop", "exited"}, at : 1..4, started : 0..3,
                         code : 0..255]
        BY DEF LaunchTypeOK
      <4>2. CASE launcher.at = 3
        <5>1. launcher' = [does |-> "look", at |-> 1, started |-> 3, code |-> launcher.code]
          BY <1>2, <4>1, <4>2
        <5> QED
          BY <4>1, <5>1
      <4>3. CASE launcher.at # 3
        <5>1. launcher' = [does |-> launcher.does, at |-> launcher.at + 1,
                           started |-> launcher.at, code |-> launcher.code]
          BY <1>2, <4>1, <4>3
        <5> QED
          BY <2>1, <4>1, <5>1
      <4> QED
        BY <4>2, <4>3
    <3> QED
      BY <2>1, <3>1, <3>3 DEF LaunchTypeOK
  <2>3. launcher'.started = launcher.at /\ launcher'.does \in {"start", "look"}
    BY <1>2, <2>1 DEF LaunchTypeOK
  <2>4. NotThere'
    BY <1>2, <2>1, <2>3 DEF NotThere, LaunchTypeOK, WhereItIs
  <2>5. WhereItIs'
    BY <1>2, <2>1 DEF WhereItIs, LaunchTypeOK
  <2> QED
    BY <2>2, <2>4, <2>5
<1> QED
  BY <1>1, <1>2 DEF Spawn

\* try_wait in main's loop: the first that ended makes the launcher stop.
LEMMA LookKeepsLauncherInv == LauncherInv /\ Look => LauncherInv'
<1> SUFFICES ASSUME LauncherInv, Look PROVE LauncherInv'
  OBVIOUS
<1> USE ThreeServices DEF LauncherInv
<1> DEFINE s == SERVICES[launcher.at]
<1>0. s \in Services /\ launcher.does = "look" /\ launcher.at \in 1..3 /\ UNCHANGED <<proc, status>>
  BY DEF Look, WhereItIs
<1>1. exit_code(s) \in 1..255
  BY <1>0 DEF exit_code, LaunchTypeOK, Killed
<1>2. CASE launcher' = [launcher EXCEPT !.at = 1 + (@ % Len(SERVICES))]
  <2>1. 1 + (launcher.at % 3) \in 1..3
    BY <1>0
  <2> QED
    BY <1>0, <1>2, <2>1 DEF LaunchTypeOK, NotThere, WhereItIs
<1>3. ASSUME NEW code \in 1..255, stop(code) PROVE LauncherInv'
  BY <1>0, <1>3, StopKeepsLauncherInv
<1> QED
  BY <1>1, <1>2, <1>3 DEF Look

\* stop: kill and wait, one service after the other, then the exit.
LEMMA KillKeepsLauncherInv == LauncherInv /\ Kill => LauncherInv'
<1> SUFFICES ASSUME LauncherInv, Kill PROVE LauncherInv'
  OBVIOUS
<1> USE ThreeServices DEF LauncherInv
<1>1. CASE /\ launcher.at <= launcher.started
           /\ proc' = [proc EXCEPT ![SERVICES[launcher.at]] = "none"]
           /\ launcher' = [launcher EXCEPT !.at = @ + 1]
  <2>1. launcher.at \in 1..3 /\ launcher.does = "stop" /\ UNCHANGED status
    BY <1>1 DEF Kill, LaunchTypeOK
  <2>2. LaunchTypeOK'
    BY <1>1, <2>1 DEF LaunchTypeOK, Procs
  <2>3. NotThere' /\ WhereItIs'
    BY <1>1, <2>1 DEF NotThere, WhereItIs, LaunchTypeOK
  <2> QED
    BY <2>2, <2>3
<1>2. CASE /\ ~(launcher.at <= launcher.started)
           /\ launcher' = [launcher EXCEPT !.does = "exited"] /\ UNCHANGED proc
  BY <1>2 DEF Kill, LaunchTypeOK, NotThere, WhereItIs
<1> QED
  BY <1>1, <1>2 DEF Kill

\* Every step keeps what the launcher knows of its children.
LEMMA DepNextKeepsLauncherInv == LauncherInv /\ [DepNext]_depVars => LauncherInv'
<1> SUFFICES ASSUME LauncherInv, [DepNext]_depVars PROVE LauncherInv'
  OBVIOUS
<1>1. CASE UNCHANGED launchVars
  BY <1>1 DEF launchVars, LauncherInv, LaunchTypeOK, NotThere, WhereItIs
<1>2. CASE \E s \in Services : Crashes(s) \/ Starts(s)
  BY <1>2, StartsKeepsLauncherInv, CrashesKeepsLauncherInv
<1>3. CASE LauncherSteps
  BY <1>3, SpawnKeepsLauncherInv, LookKeepsLauncherInv, KillKeepsLauncherInv DEF LauncherSteps
<1>4. CASE Seen
  BY <1>4, <1>1 DEF Seen, launchVars
<1> QED
  BY <1>1, <1>2, <1>3, <1>4 DEF DepNext, depVars, Requesting, Visit, Down, Starting, Launching

\* When the container's process exits it says that it failed, and none of the
\* services it started is left (launcher/src/main.rs:27-58).
THEOREM NoneOutlivesTheLauncherHolds == DepSpec => []NoneOutlivesTheLauncher
<1>1. DepInit => LauncherInv
  BY InitLauncherInv DEF DepInit
<1>2. LauncherInv => NoneOutlivesTheLauncher
  BY ThreeServices DEF LauncherInv, LaunchTypeOK, NotThere, WhereItIs, NoneOutlivesTheLauncher
<1> QED
  BY <1>1, <1>2, DepNextKeepsLauncherInv, PTL DEF DepSpec

-----------------------------------------------------------------------------
(* The settings                                                            *)

\* One environment: where bff's profile is prod, login's is.
LEMMA ProdIsEveryones ==
  ASSUME NEW e, Prod(bffUser(e))
  PROVE  Prod(loginUser(e))
<1> DEFINE bffVars == DOMAIN bffENV \cap DOMAIN e.env
           loginVars == DOMAIN loginENV \cap DOMAIN e.env
           fromEnv(table, vs) == [k \in {table[v] : v \in vs} |->
                                    e.env[CHOOSE v \in vs : table[v] = k]]
<1>1. /\ "WA_PROFILE" \in DOMAIN bffENV
      /\ \A v \in DOMAIN bffENV : bffENV[v] = "profile" <=> v = "WA_PROFILE"
  BY DEF bffENV
<1>2. /\ "WA_PROFILE" \in DOMAIN loginENV
      /\ \A v \in DOMAIN loginENV : loginENV[v] = "profile" <=> v = "WA_PROFILE"
  BY DEF loginENV
<1>3. bffUser(e) = merge(e.file, fromEnv(bffENV, bffVars))
  BY DEF bffUser, user_settings
<1>4. loginUser(e) = fromEnv(loginENV, loginVars)
  BY DEF loginUser, user_settings
<1>5. CASE "WA_PROFILE" \in DOMAIN e.env
  <2>1. (CHOOSE v \in bffVars : bffENV[v] = "profile") = "WA_PROFILE"
    BY <1>1, <1>5
  <2>2. (CHOOSE v \in loginVars : loginENV[v] = "profile") = "WA_PROFILE"
    BY <1>2, <1>5
  <2>3. "profile" \in DOMAIN bffUser(e) /\ bffUser(e)["profile"] = e.env["WA_PROFILE"]
    BY <1>1, <1>3, <1>5, <2>1 DEF merge
  <2>4. "profile" \in DOMAIN loginUser(e) /\ loginUser(e)["profile"] = e.env["WA_PROFILE"]
    BY <1>2, <1>4, <1>5, <2>2
  <2> QED
    BY <2>3, <2>4 DEF Prod, profile
<1>6. CASE "WA_PROFILE" \notin DOMAIN e.env
  <2>1. "profile" \notin DOMAIN loginUser(e)
    BY <1>2, <1>4, <1>6
  <2> QED
    BY <2>1 DEF Prod, profile
<1> QED
  BY <1>5, <1>6

\* The cookies' names after bff's prefix is put before them.
LEMMA CookiesAreKept ==
  ASSUME NEW config, config.session_cookie_name \in [prefixes : Seq(STRING), rest : STRING],
         cookies_accepted(config)
  PROVE  /\ CookiesWork(config)
         /\ secure_cookies(config) => has_prefix(session_cookie(config), "__Host-")
<1> DEFINE name == config.session_cookie_name
<1>1. CASE ~secure_cookies(config)
  <2>1. session_cookie(config) = name /\ login_cookie(config) = LOGIN_COOKIE
    BY <1>1 DEF session_cookie, login_cookie, cookie_name
  <2>2. \A p : ~has_prefix(LOGIN_COOKIE, p)
    BY DEF has_prefix, LOGIN_COOKIE, CookieName
  <2>3. ~has_prefix(name, "__Host-") /\ ~has_prefix(name, "__Secure-")
    BY <1>1 DEF cookies_accepted
  <2> QED
    BY <1>1, <2>1, <2>2, <2>3 DEF CookiesWork, Kept, cookies_accepted
<1>2. CASE secure_cookies(config)
  <2>1. ASSUME has_prefix(name, "__Host-") PROVE has_prefix(session_cookie(config), "__Host-")
    BY <1>2, <2>1 DEF session_cookie, cookie_name
  <2>2. ASSUME ~has_prefix(name, "__Host-") PROVE has_prefix(session_cookie(config), "__Host-")
    <3> DEFINE long == <<"__Host-">> \o name.prefixes
    <3>1. session_cookie(config).prefixes = long
      BY <1>2, <2>2 DEF session_cookie, cookie_name
    <3>2. long # <<>> /\ Head(long) = "__Host-"
      OBVIOUS
    <3> QED
      BY <3>1, <3>2 DEF has_prefix
  <2>3. CookiesWork(config)
    BY <1>2 DEF CookiesWork, Kept, cookies_accepted
  <2> QED
    BY <2>1, <2>2, <2>3
<1> QED
  BY <1>1, <1>2

\* Four ports no two of which are the same are four.
LEMMA FourPorts ==
  ASSUME NEW w, NEW x, NEW y, NEW z,
         w # x, w # y, w # z, x # y, x # z, y # z
  PROVE  Cardinality({w, x, y, z}) = 4
<1>1. IsFiniteSet({w}) /\ Cardinality({w}) = 1
  BY FS_Singleton
<1>2. IsFiniteSet({w} \cup {x}) /\ Cardinality({w} \cup {x}) = 2
  BY <1>1, FS_AddElement
<1>3. IsFiniteSet(({w} \cup {x}) \cup {y}) /\ Cardinality(({w} \cup {x}) \cup {y}) = 3
  BY <1>2, FS_AddElement
<1>4. Cardinality((({w} \cup {x}) \cup {y}) \cup {z}) = 4
  BY <1>3, FS_AddElement
<1>5. (({w} \cup {x}) \cup {y}) \cup {z} = {w, x, y, z}
  OBVIOUS
<1> QED
  BY <1>4, <1>5

\* Under prod.
LEMMA ProdIsClosedIfLoaded ==
  ASSUME NEW n \in DOMAIN Deployments, NEW e, e = Deployments[n],
         bff_load(e), login_load(e), Prod(bffUser(e))
  PROVE  ProdIsClosed(bffConfig(e), loginConfig(e))
<1> DEFINE bff == bffConfig(e)
           login == loginConfig(e)
<1>1. Prod(loginUser(e))
  BY ProdIsEveryones
<1>2. secure_cookies(bff) /\ bff.hydra_public_url.scheme = "https"
  BY DEF bff_load, require_https_in_prod, secure_cookies
<1>3. has_prefix(session_cookie(bff), "__Host-")
  BY <1>2, CookiesAreKept, DeploymentsAssumption DEF bff_load
<1>4. /\ \A url \in bff.redirect_uri_allowlist : url.scheme = "https"
      /\ \A url \in bff.default_redirect_uri : url.scheme = "https"
      /\ \A url \in bff.trusted_origins : url.scheme = "https"
  BY DEF bff_load, check_redirect_uri_allowlist, origins_accepted
<1>5. /\ login.own_origin.scheme = "https"
      /\ \A url \in login.default_redirect_uri : url.scheme = "https"
  BY <1>1 DEF login_load, require_https_in_prod
<1>6. \A net \in ip_nets(bff.trusted_proxies) \cup ip_nets(login.trusted_proxies) :
        ~too_wide_to_trust(net)
  BY <1>1 DEF bff_load, login_load, proxies_accepted
<1>7. /\ ip_nets(bff.trusted_proxies \cup login.trusted_proxies)
           = ip_nets(bff.trusted_proxies) \cup ip_nets(login.trusted_proxies)
  BY DEF ip_nets
<1>8. ASSUME NEW net \in ip_nets(bff.trusted_proxies \cup login.trusted_proxies), net.family = "v4"
      PROVE  net.prefix_len >= 8
  <2>1. PICK raw \in bff.trusted_proxies \cup login.trusted_proxies : net = v4_mapped_as_v4(raw)
    BY DEF ip_nets
  <2>2. raw.prefix_len \in Nat
    BY DeploymentsAssumption
  <2>3. net.prefix_len \in Int
    BY <2>1, <2>2 DEF v4_mapped_as_v4, Net
  <2>4. ~(net.prefix_len < 8)
    BY <1>6, <1>7, <1>8 DEF too_wide_to_trust
  <2> QED
    BY <2>3, <2>4
<1> QED
  BY <1>2, <1>3, <1>4, <1>5, <1>8 DEF ProdIsClosed

\* What the three loads accept together, with ports that could be bound, is sound.
LEMMA SoundIfLoaded ==
  ASSUME NEW n \in DOMAIN Deployments, NEW e, e = Deployments[n],
         bff_load(e), login_load(e), hooks_load(e),
         hooksConfig(e).port # loginConfig(e).port,
         {hooksConfig(e).port, loginConfig(e).port}
            \cap {bffConfig(e).port, bffConfig(e).internal_port} = {}
  PROVE  Sound(e)
<1> DEFINE bff == bffConfig(e)
           login == loginConfig(e)
           hooks == hooksConfig(e)
<1>1. CookiesWork(bff)
  BY CookiesAreKept, DeploymentsAssumption DEF bff_load
<1>2. HooksFit(hooks)
  BY DEF hooks_load, validate, HooksFit
<1>3. OneOfEach(bff, login, hooks)
  <2>1. Cardinality({bff.port, bff.internal_port, login.port, hooks.port}) = 4
    <3>1. bff.port # bff.internal_port
      BY DEF bff_load
    <3>2. /\ hooks.port # login.port /\ hooks.port # bff.port /\ hooks.port # bff.internal_port
          /\ login.port # bff.port /\ login.port # bff.internal_port
      OBVIOUS
    <3> HIDE DEF bff, login, hooks
    <3> QED
      BY <3>1, <3>2, FourPorts
  <2> QED
    BY <2>1 DEF OneOfEach, bff_load, check_routes
<1>4. "" \notin {bff.internal_api_key, hooks.hooks_api_key, hooks.bff_internal_api_key}
  BY DEF bff_load, hooks_load, require_api_keys
<1> QED
  BY <1>1, <1>2, <1>3, <1>4, ProdIsClosedIfLoaded DEF Sound

\* A service that serves accepted its settings and has its ports to itself.
ServingInv ==
    /\ deployed \in DOMAIN Deployments
    /\ \A s \in Services : proc[s] = "serving" => load(s)
    /\ \A s, t \in Services :
          s # t /\ proc[s] = "serving" /\ proc[t] = "serving" => ports(s) \cap ports(t) = {}

\* Who does not come to serve changes nothing for the others.
LEMMA NobodyNewKeepsServingInv ==
  ASSUME ServingInv, UNCHANGED deployed,
         \A s \in Services : proc'[s] = "serving" => proc[s] = "serving"
  PROVE  ServingInv'
<1>1. \A s : (load(s)' <=> load(s)) /\ ports(s)' = ports(s)
  BY DEF load, ports, d
<1> QED
  BY <1>1 DEF ServingInv

\* A service begins to serve: its load passed and nobody has its ports.
LEMMA StartsKeepsServingInv ==
  ASSUME LauncherInv, ServingInv, NEW s \in Services, Starts(s)
  PROVE  ServingInv'
<1>1. CASE load(s) /\ proc' = [proc EXCEPT ![s] = "serving"]
           /\ ports(s) \cap UNION {ports(t) : t \in {t \in Services : proc[t] = "serving"}} = {}
  <2>1. \A t : (load(t)' <=> load(t)) /\ ports(t)' = ports(t)
    BY DEF load, ports, d, Starts
  <2>2. \A t \in Services : proc[t] = "serving" => ports(s) \cap ports(t) = {}
    BY <1>1
  <2>3. \A t \in Services : proc'[t] = IF t = s THEN "serving" ELSE proc[t]
    BY <1>1 DEF LauncherInv, LaunchTypeOK
  <2> QED
    BY <1>1, <2>1, <2>2, <2>3 DEF ServingInv, Starts
<1>2. CASE Ends(s, 1)
  BY <1>2, NobodyNewKeepsServingInv DEF Starts, Ends, LauncherInv, LaunchTypeOK
<1> QED
  BY <1>1, <1>2 DEF Starts

\* Every step keeps that those who serve accepted their settings.
LEMMA DepNextKeepsServingInv == LauncherInv /\ ServingInv /\ [DepNext]_depVars => ServingInv'
<1> SUFFICES ASSUME LauncherInv, ServingInv, [DepNext]_depVars PROVE ServingInv'
  OBVIOUS
<1>1. CASE UNCHANGED launchVars
  BY <1>1, NobodyNewKeepsServingInv DEF launchVars
<1>2. ASSUME NEW s \in Services, Crashes(s) PROVE ServingInv'
  BY <1>2, NobodyNewKeepsServingInv DEF Crashes, Ends, LauncherInv, LaunchTypeOK
<1>3. CASE Spawn
  BY <1>3, NobodyNewKeepsServingInv DEF Spawn, LauncherInv, LaunchTypeOK
<1>4. CASE Look
  BY <1>4, NobodyNewKeepsServingInv DEF Look
<1>5. CASE Kill
  BY <1>5, NobodyNewKeepsServingInv DEF Kill, LauncherInv, LaunchTypeOK
<1>6. CASE Seen
  BY <1>6, <1>1 DEF Seen, launchVars
<1> QED
  BY <1>1, <1>2, <1>3, <1>4, <1>5, <1>6, StartsKeepsServingInv
     DEF DepNext, depVars, Requesting, Visit, Down, Starting, Launching, LauncherSteps

\* When all three serve, their settings fit together.
LEMMA AllServeSoundly == ServingInv => ServingIsSound
<1> SUFFICES ASSUME ServingInv, AllServe PROVE Sound(d)
  BY DEF ServingIsSound
<1>1. load("hooks") /\ load("bff") /\ load("login")
  BY ThreeServices DEF ServingInv, AllServe
<1>2. hooks_load(d) /\ bff_load(d) /\ login_load(d)
  BY <1>1 DEF load
<1>3. /\ ports("hooks") \cap ports("bff") = {} /\ ports("hooks") \cap ports("login") = {}
      /\ ports("bff") \cap ports("login") = {}
  BY ThreeServices DEF ServingInv, AllServe
<1>4. /\ ports("hooks") = {hooksConfig(d).port} /\ ports("login") = {loginConfig(d).port}
      /\ ports("bff") = {bffConfig(d).port, bffConfig(d).internal_port}
  BY DEF ports
<1>5. /\ hooksConfig(d).port # loginConfig(d).port
      /\ {hooksConfig(d).port, loginConfig(d).port}
            \cap {bffConfig(d).port, bffConfig(d).internal_port} = {}
  BY <1>3, <1>4
<1> QED
  BY <1>2, <1>5, SoundIfLoaded DEF ServingInv, d

\* All three serve only with settings the rest of the system may take for granted,
\* whatever of them came from the environment, a file or the defaults
\* (the `load` of bff, login and hooks, and the ports they bind).
THEOREM ServingIsSoundHolds == DepSpec => []ServingIsSound
<1>1. DepInit => LauncherInv /\ ServingInv
  BY InitLauncherInv DEF DepInit, LaunchInit, ServingInv
<1>2. DepSpec => [](LauncherInv /\ ServingInv)
  BY <1>1, DepNextKeepsLauncherInv, DepNextKeepsServingInv, PTL DEF DepSpec
<1> QED
  BY <1>2, AllServeSoundly, PTL

-----------------------------------------------------------------------------
(* The requests                                                            *)

\* A step of a request begins, answers or refuses it, or is one of these.
LEMMA WhatARequestDoes ==
  ASSUME [DepNext]_depVars
  PROVE  \/ UNCHANGED call
         \/ call' = Idle
         \/ Visit /\ call'.at \in {"visited", "no page"}
         \/ \E route \in Routes : call' = [at |-> route]
         \/ Submit \/ KratosReplies \/ FromBrowser \/ FromService \/ Upstream
<1>1. CASE UNCHANGED depVars
  BY <1>1 DEF depVars, vars
<1>2. CASE Requesting
  <2>1. Arrive => \E route \in Routes : call' = [at |-> route]
    BY Zenon DEF Arrive
  <2>2. Done => call' = Idle
    BY DEF Done
  <2>3. Refill => UNCHANGED call
    BY DEF Refill
  <2> QED
    BY <1>2, <2>1, <2>2, <2>3 DEF Requesting, Next
<1>3. CASE Visit
  <2>1. PICK flow, headers, catalog, rules : Page!Render(flow, headers, catalog, rules)
    BY <1>3, Zenon DEF Visit
  <2>2. call'.at \in {"visited", "no page"}
    BY <2>1 DEF Page!Render
  <2> QED
    BY <1>3, <2>2
<1>4. CASE Seen
  BY <1>4 DEF Seen
<1>5. CASE Down \/ Starting \/ Launching
  BY <1>5 DEF Down, Starting, Launching, vars
<1> QED
  BY <1>1, <1>2, <1>3, <1>4, <1>5 DEF DepNext

\* bff counts as everybody does.
LEMMA ProxysCardinality == \A S : Proxy!Cardinality(S) = Cardinality(S)
  BY Zenon DEF Proxy!Cardinality, Cardinality

\* A browser's request is sent on for the cookie of its own, or for a planted one
\* where there is no other.
LEMMA TheOwnCookieFirst ==
  ASSUME NEW cookies \in SUBSET {"own", "planted"}, "own" \in cookies
  PROVE  Proxy!extract_cookie(cookies) # "planted"
<1>1. CASE cookies = {"own"}
  BY <1>1 DEF Proxy!extract_cookie
<1>2. CASE cookies # {"own"}
  <2>1. cookies = {"own"} \cup {"planted"}
    BY <1>2
  <2>2. IsFiniteSet({"own"}) /\ Cardinality({"own"}) = 1
    BY FS_Singleton
  <2>3. Proxy!Cardinality({"own"} \cup {"planted"}) = 2
    BY <2>2, FS_AddElement, ProxysCardinality
  <2> QED
    BY <2>1, <2>3 DEF Proxy!extract_cookie
<1> QED
  BY <1>1, <1>2

\* Whoever passes the check of the origin is on a trusted page.
LEMMA TrustedPages ==
  ASSUME NEW page, NEW origin \in Proxy!Origins(page), NEW referer \in Proxy!Referers(page),
         Proxy!require_trusted_origin(origin, referer)
  PROVE  page \in {"own", "trusted"}
  BY DEF Proxy!Origins, Proxy!Referers, Proxy!require_trusted_origin, Proxy!trusted_origins

\* A path that is clean shows nothing else to who decodes it twice.
LEMMA CleanPaths ==
  ASSUME NEW s \in Segments, Proxy!is_clean_path({s}), s.what # "plain"
  PROVE  \A decoded \in 0..2 : s.layers > decoded
<1>1. s.what \in {"dots", "slash"} /\ s.layers \in Nat
  BY RequestsAssumption
<1>2. ~Proxy!shows(s, 2)
  BY <1>1 DEF Proxy!is_clean_path
<1> QED
  BY <1>1, <1>2 DEF Proxy!shows

\* A browser's request goes on, or a logout does.
LEMMA FromBrowserKeepsEdgeInv == FromBrowser => EdgeInv'
<1> SUFFICES ASSUME FromBrowser PROVE EdgeInv'
  OBVIOUS
<1>1. PICK r \in BrowserRequests :
        /\ r.origin \in Proxy!Origins(r.page) /\ r.referer \in Proxy!Referers(r.page)
        /\ Proxy!Forward(r) \/ Proxy!LogoutCalled(r)
  BY Zenon DEF FromBrowser
<1>2. /\ r.cookies \in SUBSET {"own", "planted"}
      /\ \E s \in Segments : r.path = {s}
  BY DEF BrowserRequests
<1>3. "own" \in r.cookies => Proxy!extract_cookie(r.cookies) # "planted"
  BY <1>2, TheOwnCookieFirst
<1>4. CASE Proxy!Forward(r)
  <2>1. Proxy!Authenticated(r)
    BY <1>4 DEF Proxy!Forward
  <2>2. r.method \notin {"GET", "HEAD", "OPTIONS"} => r.page \in {"own", "trusted"}
    BY <1>1, <2>1, TrustedPages DEF Proxy!Authenticated, Proxy!needs_trusted_origin
  <2>3. \A s \in r.path : \A decoded \in 0..2 : s.what # "plain" => s.layers > decoded
    BY <1>2, <2>1, CleanPaths DEF Proxy!Authenticated
  <2>4. (Proxy!allowed(r.headers, Proxy!REQUEST_HEADERS) \cup {"bearer"})
          \cap {"cookie", "authorization", "upgrade"} = {}
    BY DEF Proxy!allowed, Proxy!REQUEST_HEADERS
  <2>5. /\ call'.at = "upstream" /\ call'.page = r.page /\ call'.method = r.method
        /\ call'.path = r.path /\ call'.cookies = r.cookies
        /\ call'.session = Proxy!extract_cookie(r.cookies)
        /\ call'.headers = Proxy!allowed(r.headers, Proxy!REQUEST_HEADERS) \cup {"bearer"}
    BY <1>4 DEF Proxy!Forward
  <2> QED
    BY <1>3, <2>2, <2>3, <2>4, <2>5 DEF EdgeInv, Proxy!EdgeInv, Proxy!OnlyTrustedPagesAct,
       Proxy!RequestsStayInTheirLane, Proxy!NoStrangersAnswers, Proxy!KeysAreAsked
<1>5. CASE Proxy!LogoutCalled(r)
  <2>1. r.page \in {"own", "trusted"}
    BY <1>1, <1>5, TrustedPages DEF Proxy!LogoutCalled
  <2>2. /\ call'.at = "upstream" /\ call'.page = r.page /\ call'.path = {}
        /\ call'.cookies = r.cookies /\ call'.session = Proxy!extract_cookie(r.cookies)
        /\ call'.headers = {"bearer"}
    BY <1>5 DEF Proxy!LogoutCalled
  <2> QED
    BY <1>3, <2>1, <2>2 DEF EdgeInv, Proxy!EdgeInv, Proxy!OnlyTrustedPagesAct,
       Proxy!RequestsStayInTheirLane, Proxy!NoStrangersAnswers, Proxy!KeysAreAsked
<1> QED
  BY <1>1, <1>4, <1>5

\* An answer that a shared cache keeps is one the upstream offered it.
LEMMA UpstreamKeepsEdgeInv == Upstream => EdgeInv'
<1> SUFFICES ASSUME Upstream PROVE EdgeInv'
  OBVIOUS
<1>1. PICK said : /\ call'.at = "answer" /\ call'.said = said
                  /\ call'.directives = Proxy!keep_out_of_shared_caches(said)
  BY DEF Upstream, Proxy!UpstreamAnswers
<1>2. Proxy!Stored(Proxy!keep_out_of_shared_caches(said)) => said \cap {"public", "s-maxage"} # {}
  BY DEF Proxy!Stored, Proxy!keep_out_of_shared_caches, Proxy!SHARED_CACHE_DIRECTIVES
<1> QED
  BY <1>1, <1>2 DEF EdgeInv, Proxy!EdgeInv, Proxy!OnlyTrustedPagesAct,
     Proxy!RequestsStayInTheirLane, Proxy!NoStrangersAnswers, Proxy!KeysAreAsked

\* bff and hooks do as they are asked by who has the key.
LEMMA ServiceKeepsEdgeInv == FromService => EdgeInv'
<1> SUFFICES ASSUME FromService PROVE EdgeInv'
  OBVIOUS
<1>1. PICK expected \in {"", "key"}, to \in {"bff", "hooks"},
           auth \in [scheme: {"Bearer", "bearer", "Basic"}, token: {"", "key", "guess"}] :
        /\ to = "hooks" => expected # ""
        /\ IF to = "bff" THEN Proxy!authorize(Proxy!bearer_token(auth), expected)
                         ELSE Proxy!require_api_key(auth, expected)
        /\ call' = [at |-> "revoking", token |-> auth.token]
  BY Zenon DEF FromService, Proxy!ServiceCall
<1>2. auth.token = "key"
  BY <1>1 DEF Proxy!authorize, Proxy!bearer_token, Proxy!require_api_key
<1> QED
  BY <1>1, <1>2 DEF EdgeInv, Proxy!EdgeInv, Proxy!OnlyTrustedPagesAct,
     Proxy!RequestsStayInTheirLane, Proxy!NoStrangersAnswers, Proxy!KeysAreAsked

\* Every other step leaves nothing that was sent on or answered.
LEMMA ElsewhereKeepsEdgeInv ==
  ASSUME call'.at \notin {"upstream", "answer", "revoking"}
  PROVE  EdgeInv'
  BY DEF EdgeInv, Proxy!EdgeInv, Proxy!OnlyTrustedPagesAct, Proxy!RequestsStayInTheirLane,
     Proxy!NoStrangersAnswers, Proxy!KeysAreAsked

\* What login does of its own is no proxied request.
LEMMA LoginsOwnSteps ==
  /\ Submit => call'.at \in {"sent", "none"}
  /\ KratosReplies => call'.at \in {"answered", "settled"}
  BY DEF Submit, Idle, KratosReplies, Login!KratosAnswers, Login!KratosLost, Login!Settle

\* bff sends on what a trusted page asks for, with the browser's own cookie and to the
\* route's upstream, keeps the answer from strangers and does what only a service may
\* ask for no one else (bff/src/server/api/proxy.rs:237-287, internal_revoke.rs:97-113).
THEOREM EdgeInvHolds == DepSpec => []EdgeInv
<1>1. DepInit => EdgeInv
  BY DEF DepInit, Init, Idle, EdgeInv, Proxy!EdgeInv, Proxy!OnlyTrustedPagesAct,
     Proxy!RequestsStayInTheirLane, Proxy!NoStrangersAnswers, Proxy!KeysAreAsked
<1>2. EdgeInv /\ [DepNext]_depVars => EdgeInv'
  <2> SUFFICES ASSUME EdgeInv, [DepNext]_depVars PROVE EdgeInv'
    OBVIOUS
  <2>1. CASE UNCHANGED call
    BY <2>1 DEF EdgeInv, Proxy!EdgeInv, Proxy!OnlyTrustedPagesAct, Proxy!RequestsStayInTheirLane,
       Proxy!NoStrangersAnswers, Proxy!KeysAreAsked
  <2>2. CASE call' = Idle \/ call'.at \in {"visited", "no page"}
    <3>1. Idle.at = "none"
      BY DEF Idle
    <3>2. call'.at \in {"none", "visited", "no page"}
      BY <2>2, <3>1
    <3> QED
      BY <3>2, ElsewhereKeepsEdgeInv
  <2>3. CASE \E route \in Routes : call' = [at |-> route]
    <3>1. call'.at \notin {"upstream", "answer", "revoking"}
      BY <2>3 DEF Routes
    <3> QED
      BY <3>1, ElsewhereKeepsEdgeInv
  <2>4. CASE Submit \/ KratosReplies
    BY <2>4, LoginsOwnSteps, ElsewhereKeepsEdgeInv
  <2> QED
    BY <2>1, <2>2, <2>3, <2>4, WhatARequestDoes, FromBrowserKeepsEdgeInv,
       UpstreamKeepsEdgeInv, ServiceKeepsEdgeInv
<1> QED
  BY <1>1, <1>2, PTL DEF DepSpec

-----------------------------------------------------------------------------
(* What login forwards                                                     *)

\* What is forwarded was read, and what is answered fits what became of the password.
ProxyHolds ==
    /\ call.at = "sent" =>
          /\ call.path \in Login!Paths /\ call.body \in Bodies
          /\ Login!Forwarded(call.path, call.encoding, call.body)
          /\ call.key = Login!Attempt(call.path, call.encoding, call.body).key
    /\ call.at = "answered" =>
          /\ call.result \in {"right", "wrong", "none"}
          /\ call.answer \in Login!AnswersTo(call.result)
    /\ ProxyInv

\* A set with two members has more than one.
LEMMA TwoAreMoreThanOne ==
  ASSUME NEW S, IsFiniteSet(S), NEW i \in S, NEW j \in S, i # j
  PROVE  Login!Cardinality(S) > 1
<1>1. IsFiniteSet({i}) /\ Cardinality({i}) = 1
  BY FS_Singleton
<1>2. Cardinality({i} \cup {j}) = 2
  BY <1>1, FS_AddElement
<1>3. Cardinality({i} \cup {j}) <= Cardinality(S) /\ Cardinality(S) \in Nat
  BY FS_Subset, FS_CardinalityType
<1>4. Cardinality(S) > 1
  BY <1>2, <1>3
<1>5. Login!Cardinality(S) = Cardinality(S)
  BY Zenon DEF Login!Cardinality, Cardinality
<1> QED
  BY <1>4, <1>5

\* A body that repeats neither has one field at most for each.
LEMMA OneOfEachField ==
  ASSUME NEW body \in Bodies, ~Login!repeated(body)
  PROVE  \A keys \in {{"method"}, Login!IdentifierKeys} :
            \A i, j \in Login!Under(body, keys, {"plain"}) : i = j
<1> SUFFICES ASSUME NEW keys \in {{"method"}, Login!IdentifierKeys},
                    NEW i \in Login!Under(body, keys, {"plain"}),
                    NEW j \in Login!Under(body, keys, {"plain"}), i # j
             PROVE  FALSE
  OBVIOUS
<1>1. IsFiniteSet(DOMAIN body)
  <2>1. Len(body) \in Nat /\ DOMAIN body = 1..Len(body)
    BY RequestsAssumption
  <2>2. IsFiniteSet(1..Len(body))
    BY <2>1, FS_Interval
  <2> QED
    BY <2>1, <2>2
<1>2. IsFiniteSet(Login!Under(body, keys, {"plain"}))
  BY <1>1, FS_Subset DEF Login!Under
<1>3. Login!Cardinality(Login!Under(body, keys, {"plain"})) > 1
  BY <1>2, TwoAreMoreThanOne
<1> QED
  BY <1>3 DEF Login!repeated

\* Where login does not refuse a body, Kratos reads from it what login read.
LEMMA KratosReadsTheSame ==
  ASSUME NEW body, NEW encoding \in {"form", "json"},
         ~(encoding = "json" /\ Login!from_json_refuses(body)),
         NEW keys \in {{"method"}, Login!IdentifierKeys}
  PROVE  Login!Values(body, keys, Login!Spellings(encoding)) = Login!Values(body, keys, {"plain"})
<1>1. keys \subseteq Login!IdentifierKeys \cup {"method"}
  OBVIOUS
<1>2. Login!Under(body, keys, Login!Spellings(encoding)) = Login!Under(body, keys, {"plain"})
  BY <1>1 DEF Login!Under, Login!Spellings, Login!from_json_refuses
<1> QED
  BY <1>2 DEF Login!Values

\* The one Kratos looks at a password for is the one the attempt was counted for.
LEMMA WhoIsCheckedIsCounted ==
  ASSUME NEW path \in Login!Paths, NEW encoding, NEW body \in Bodies,
         Login!Forwarded(path, encoding, body),
         NEW who \in Login!Checks(path, encoding, body)
  PROVE  who = Login!Attempt(path, encoding, body).key
<1> DEFINE methods == Login!Values(body, {"method"}, {"plain"})
           named == Login!Values(body, Login!IdentifierKeys, {"plain"})
           asked == {v \in named : ~Login!is_blank(v)}
<1>1. path.to = "login" /\ path.spelling = "plain"
  <2>1. path.to = "login"
    BY DEF Login!Checks
  <2>2. path.spelling \in {"plain", "percent", "double", "dots", "api", "slash", "case"}
    BY DEF Login!Paths
  <2> QED
    BY <2>1, <2>2 DEF Login!Forwarded, Login!is_clean_path, Login!is_native_api_path,
       Login!is_login_submit_variant
<1>2. Login!is_login_submit(path)
  BY <1>1 DEF Login!is_login_submit, Login!Paths
<1>3. Login!login_attempt(encoding, body).refused = "no"
  BY <1>2 DEF Login!Forwarded, Login!Attempt
<1>4. /\ encoding \in {"form", "json"} /\ ~Login!repeated(body)
      /\ ~(encoding = "json" /\ Login!from_json_refuses(body))
  BY <1>3 DEF Login!login_attempt
<1>5. Login!Attempt(path, encoding, body).key = Login!throttled_identifier(body)
  BY <1>2, <1>4 DEF Login!Attempt, Login!login_attempt
<1>6. /\ Login!Values(body, {"method"}, Login!Spellings(encoding)) = methods
      /\ Login!Values(body, Login!IdentifierKeys, Login!Spellings(encoding)) = named
  BY <1>4, KratosReadsTheSame
<1>7. PICK v \in named \ {" "} : who = Login!Key_of(v) /\ (methods = {} \/ "password" \in methods)
  BY <1>6 DEF Login!Checks
<1>8. \A x, y \in named : x = y
  BY <1>4, OneOfEachField DEF Login!Values
<1>9. \A x, y \in methods : x = y
  BY <1>4, OneOfEachField DEF Login!Values
<1>10. asked = {v}
  BY <1>7, <1>8 DEF Login!is_blank
<1>11. methods \subseteq {"password"}
  BY <1>7, <1>9
<1>12. (CHOOSE w \in asked : TRUE) = v
  BY <1>10
<1>13. Login!throttled_identifier(body) = Login!Key_of(CHOOSE w \in asked : TRUE)
  BY <1>10, <1>11, Zenon DEF Login!throttled_identifier
<1> QED
  BY <1>5, <1>7, <1>12, <1>13

\* What the throttle is told is true of the answer.
LEMMA OutcomesAreTrue ==
  ASSUME NEW result \in {"right", "wrong", "none"}, NEW answer \in Login!AnswersTo(result)
  PROVE  /\ Login!outcome(answer) = "Succeeded" <=> result = "right"
         /\ Login!outcome(answer) = "NotAnAttempt" => result = "none"
<1> USE DEF Login!outcome, Login!signed_in, Login!sets_session, Login!AnswersTo, Login!Answer,
        Login!Refusals
<1>1. CASE result = "right"
  BY <1>1
<1>2. CASE result = "wrong"
  BY <1>2
<1>3. CASE result = "none"
  BY <1>3
<1> QED
  BY <1>1, <1>2, <1>3

\* forward, up to the request to Kratos: it was counted as it is sent.
LEMMA SubmitKeepsProxyHolds == Submit => ProxyHolds'
<1> SUFFICES ASSUME Submit PROVE ProxyHolds'
  OBVIOUS
<1>1. PICK path \in Login!Paths, encoding \in Login!Encodings, body \in Bodies :
        call' = IF Login!Forwarded(path, encoding, body)
                THEN [at |-> "sent", path |-> path, encoding |-> encoding, body |-> body,
                      key |-> Login!Attempt(path, encoding, body).key]
                ELSE Idle
  BY Zenon DEF Submit
<1>2. CASE Login!Forwarded(path, encoding, body)
  <2>1. /\ call'.at = "sent" /\ call'.path = path /\ call'.encoding = encoding
        /\ call'.body = body /\ call'.key = Login!Attempt(path, encoding, body).key
    BY <1>1, <1>2
  <2> QED
    BY <1>2, <2>1 DEF ProxyHolds, ProxyInv, EveryCheckIsCounted, OutcomeTellsTheTruth,
       Login!EveryCheckIsCounted, Login!OutcomeTellsTheTruth
<1>3. CASE ~Login!Forwarded(path, encoding, body)
  BY <1>1, <1>3 DEF Idle, ProxyHolds, ProxyInv, EveryCheckIsCounted, OutcomeTellsTheTruth,
     Login!EveryCheckIsCounted, Login!OutcomeTellsTheTruth
<1> QED
  BY <1>2, <1>3

\* Kratos' answer, or none, and what login makes of it.
LEMMA KratosKeepsProxyHolds == ProxyHolds /\ KratosReplies => ProxyHolds'
<1> SUFFICES ASSUME ProxyHolds, KratosReplies PROVE ProxyHolds'
  OBVIOUS
<1>1. ASSUME call.at = "sent",
             NEW who \in Login!Checks(call.path, call.encoding, call.body),
             NEW result \in {"right", "wrong"}, NEW answer \in Login!AnswersTo(result),
             call' = [at |-> "answered", key |-> call.key, checked |-> who, result |-> result,
                      answer |-> answer]
      PROVE  ProxyHolds'
  <2>1. who = call.key
    BY <1>1, WhoIsCheckedIsCounted DEF ProxyHolds
  <2>2. /\ call'.at = "answered" /\ call'.checked = call'.key
        /\ call'.result = result /\ call'.answer = answer
    BY <1>1, <2>1
  <2> QED
    BY <2>2 DEF ProxyHolds, ProxyInv, EveryCheckIsCounted, OutcomeTellsTheTruth,
       Login!EveryCheckIsCounted, Login!OutcomeTellsTheTruth
<1>2. ASSUME NEW answer \in Login!AnswersTo("none"),
             call' = [at |-> "answered", key |-> call.key, checked |-> NoOne, result |-> "none",
                      answer |-> answer]
      PROVE  ProxyHolds'
  <2>1. /\ call'.at = "answered" /\ call'.checked = NoOne
        /\ call'.result = "none" /\ call'.answer = answer
    BY <1>2
  <2> QED
    BY <2>1 DEF ProxyHolds, ProxyInv, EveryCheckIsCounted, OutcomeTellsTheTruth,
       Login!EveryCheckIsCounted, Login!OutcomeTellsTheTruth
<1>3. CASE Login!KratosLost
  <2>1. call'.at = "settled" /\ call'.outcome = "NotAnAttempt" /\ call'.result = "none"
    BY <1>3 DEF Login!KratosLost
  <2> QED
    BY <2>1 DEF ProxyHolds, ProxyInv, EveryCheckIsCounted, OutcomeTellsTheTruth,
       Login!EveryCheckIsCounted, Login!OutcomeTellsTheTruth
<1>4. CASE Login!Settle
  <2>1. /\ call.at = "answered" /\ call'.at = "settled" /\ call'.result = call.result
        /\ call'.outcome = Login!outcome(call.answer)
    BY <1>4 DEF Login!Settle
  <2>2. /\ Login!outcome(call.answer) = "Succeeded" <=> call.result = "right"
        /\ Login!outcome(call.answer) = "NotAnAttempt" => call.result = "none"
    BY <2>1, OutcomesAreTrue DEF ProxyHolds
  <2> QED
    BY <2>1, <2>2 DEF ProxyHolds, ProxyInv, EveryCheckIsCounted, OutcomeTellsTheTruth,
       Login!EveryCheckIsCounted, Login!OutcomeTellsTheTruth
<1> QED
  BY <1>1, <1>2, <1>3, <1>4 DEF KratosReplies, Login!KratosAnswers

\* Every other step leaves nothing that is at Kratos or was answered by it.
LEMMA ElsewhereKeepsProxyHolds ==
  ASSUME call'.at \notin {"sent", "answered", "settled"}
  PROVE  ProxyHolds'
  BY DEF ProxyHolds, ProxyInv, EveryCheckIsCounted, OutcomeTellsTheTruth,
     Login!EveryCheckIsCounted, Login!OutcomeTellsTheTruth

\* What bff does is no submission of login's.
LEMMA BffsOwnSteps ==
  FromBrowser \/ FromService \/ Upstream => call'.at \in {"upstream", "revoking", "answer"}
<1>1. FromBrowser => call'.at = "upstream"
  <2> SUFFICES ASSUME FromBrowser PROVE call'.at = "upstream"
    OBVIOUS
  <2>1. PICK r : Proxy!Forward(r) \/ Proxy!LogoutCalled(r)
    BY Zenon DEF FromBrowser
  <2> QED
    BY <2>1 DEF Proxy!Forward, Proxy!LogoutCalled
<1>2. FromService => call'.at = "revoking"
  <2> SUFFICES ASSUME FromService PROVE call'.at = "revoking"
    OBVIOUS
  <2>1. PICK token : call' = [at |-> "revoking", token |-> token]
    BY Zenon DEF FromService, Proxy!ServiceCall
  <2> QED
    BY <2>1
<1>3. Upstream => call'.at = "answer"
  BY DEF Upstream, Proxy!UpstreamAnswers
<1> QED
  BY <1>1, <1>2, <1>3

\* However path, encoding and body are chosen, Kratos looks at a password only for the
\* identifier the attempt was counted for, and the throttle is told what became of it
\* (login/src/proxy.rs:107-222, 316-366).
THEOREM ProxyInvHolds == DepSpec => []ProxyInv
<1>1. DepInit => ProxyHolds
  BY DEF DepInit, Init, Idle, ProxyHolds, ProxyInv, EveryCheckIsCounted, OutcomeTellsTheTruth,
     Login!EveryCheckIsCounted, Login!OutcomeTellsTheTruth
<1>2. ProxyHolds /\ [DepNext]_depVars => ProxyHolds'
  <2> SUFFICES ASSUME ProxyHolds, [DepNext]_depVars PROVE ProxyHolds'
    OBVIOUS
  <2>1. CASE UNCHANGED call
    BY <2>1 DEF ProxyHolds, ProxyInv, EveryCheckIsCounted, OutcomeTellsTheTruth,
       Login!EveryCheckIsCounted, Login!OutcomeTellsTheTruth
  <2>2. CASE call' = Idle \/ call'.at \in {"visited", "no page"}
    <3>1. Idle.at = "none"
      BY DEF Idle
    <3>2. call'.at \in {"none", "visited", "no page"}
      BY <2>2, <3>1
    <3> QED
      BY <3>2, ElsewhereKeepsProxyHolds
  <2>3. CASE \E route \in Routes : call' = [at |-> route]
    <3>1. call'.at \notin {"sent", "answered", "settled"}
      BY <2>3 DEF Routes
    <3> QED
      BY <3>1, ElsewhereKeepsProxyHolds
  <2>4. CASE FromBrowser \/ FromService \/ Upstream
    BY <2>4, BffsOwnSteps, ElsewhereKeepsProxyHolds
  <2> QED
    BY <2>1, <2>2, <2>3, <2>4, WhatARequestDoes, SubmitKeepsProxyHolds, KratosKeepsProxyHolds
<1>3. ProxyHolds => ProxyInv
  BY DEF ProxyHolds
<1> QED
  BY <1>1, <1>2, <1>3, PTL DEF DepSpec

-----------------------------------------------------------------------------
(* Pages                                                                   *)

\* A set of naturals with a member has a least one.
LEMMA Least ==
  ASSUME NEW T, T \subseteq Nat, T # {}
  PROVE  \E n \in T : \A m \in T : n <= m
<1>1. IsWellFoundedOn(OpToRel(<, Nat), Nat)
  BY NatLessThanWellFounded, Zenon
<1>2. PICK n \in T : \A m \in T : <<m, n>> \notin OpToRel(<, Nat)
  BY <1>1, WFMin, Zenon
<1>3. \A m \in T : ~(m < n)
  BY <1>2 DEF OpToRel
<1> QED
  BY <1>3

\* What holds of 0, and of n + 1 with n, holds of every natural: a set of those it
\* holds of has them all.
LEMMA EveryNatural ==
  ASSUME NEW T, 0 \in T, \A n \in Nat : n \in T => n + 1 \in T
  PROVE  Nat \subseteq T
<1>1. SUFFICES ASSUME Nat \ T # {} PROVE FALSE
  OBVIOUS
<1>2. PICK n \in Nat \ T : \A m \in Nat \ T : n <= m
  BY <1>1, Least
<1>3. n # 0 /\ n - 1 \in Nat /\ n - 1 \in T
  BY <1>2
<1> QED
  BY <1>2, <1>3

\* The first of some places.
LEMMA MinIsIn ==
  ASSUME NEW T, T \subseteq Nat, T # {}
  PROVE  Page!Min(T) \in T
<1>1. \E n \in T : \A m \in T : n <= m
  BY Least
<1> QED
  BY <1>1 DEF Page!Min

\* The last of some places of a sequence.
LEMMA MaxIsIn ==
  ASSUME NEW n \in Nat, NEW T, T \subseteq 1..n, T # {}
  PROVE  Page!Max(T) \in T
<1> DEFINE rest == {n - m : m \in T}
<1>0. \A m \in T : m \in 1..n /\ n - m \in Nat /\ n - m \in rest
  OBVIOUS
<1>1. rest \subseteq Nat /\ rest # {}
  BY <1>0
<1>2. PICK x \in rest : \A y \in rest : x <= y
  <2> HIDE DEF rest
  <2> QED
    BY <1>1, Least
<1>3. PICK k \in T : x = n - k
  BY <1>2
<1>4. ASSUME NEW m \in T PROVE k >= m
  <2>1. n - k <= n - m
    BY <1>0, <1>2, <1>3
  <2> QED
    BY <1>0, <2>1
<1> QED
  BY <1>3, <1>4 DEF Page!Max

\* Of some places of a sequence of naturals, the first of those with the largest.
LEMMA BestIsThere ==
  ASSUME NEW n \in Nat, NEW q \in [1..n -> Nat], NEW T, T \subseteq 1..n, T # {}
  PROVE  \E i \in T : \A j \in T : q[i] > q[j] \/ (q[i] = q[j] /\ i <= j)
<1> DEFINE Bounded == {k \in Nat : \E top \in Nat : \A i \in 1..n : i <= k => q[i] <= top}
<1>1. 0 \in Bounded
  OBVIOUS
<1>2. ASSUME NEW k \in Nat, k \in Bounded PROVE k + 1 \in Bounded
  <2>1. PICK top \in Nat : \A i \in 1..n : i <= k => q[i] <= top
    BY <1>2
  <2>2. CASE k + 1 \in 1..n
    <3>0. q[k + 1] \in Nat
      BY <2>2
    <3>1. top + q[k + 1] \in Nat
      BY <3>0
    <3>2. ASSUME NEW i \in 1..n, i <= k + 1 PROVE q[i] <= top + q[k + 1]
      <4>1. q[i] \in Nat /\ (i <= k \/ i = k + 1)
        BY <3>2
      <4> QED
        BY <2>1, <3>0, <4>1
    <3>3. \E t \in Nat : \A i \in 1..n : i <= k + 1 => q[i] <= t
      BY <3>1, <3>2
    <3> QED
      BY <3>3
  <2>3. CASE k + 1 \notin 1..n
    BY <2>1, <2>3
  <2> QED
    BY <2>2, <2>3
<1>3. n \in Bounded
  <2> HIDE DEF Bounded
  <2> QED
    BY <1>1, <1>2, EveryNatural
<1>4. PICK top \in Nat : \A i \in 1..n : q[i] <= top
  BY <1>3
<1> DEFINE short == {top - q[i] : i \in T}
<1>5. \A i \in T : q[i] \in Nat /\ top - q[i] \in Nat /\ top - q[i] \in short
  BY <1>4
<1>6. PICK x \in short : \A y \in short : x <= y
  <2>1. short \subseteq Nat /\ short # {}
    BY <1>5
  <2> HIDE DEF short
  <2> QED
    BY <2>1, Least
<1>7. PICK k \in T : x = top - q[k]
  BY <1>6
<1>8. ASSUME NEW j \in T PROVE q[k] >= q[j]
  <2>1. top - q[k] <= top - q[j]
    BY <1>5, <1>6, <1>7
  <2>2. q[k] \in Nat /\ q[j] \in Nat
    BY <1>5, <1>7
  <2> QED
    BY <1>4, <2>1, <2>2
<1> DEFINE largest == {j \in T : q[j] = q[k]}
<1>9. PICK i \in largest : \A j \in largest : i <= j
  <2>1. k \in largest /\ \A j \in largest : j \in 1..n
    BY <1>7
  <2> HIDE DEF largest
  <2>2. largest \subseteq Nat /\ largest # {}
    BY <2>1
  <2> QED
    BY <2>2, Least
<1>10. ASSUME NEW j \in T PROVE q[i] > q[j] \/ (q[i] = q[j] /\ i <= j)
  <2>1. q[i] = q[k] /\ q[k] >= q[j] /\ q[i] \in Nat /\ q[j] \in Nat
    BY <1>5, <1>8, <1>9
  <2> QED
    BY <1>9, <2>1
<1> QED
  BY <1>9, <1>10

\* The texts login answers with when the visitor's language lacks one.
Complete(catalog) ==
    /\ <<>> \notin DOMAIN catalog.locales
    /\ catalog.default \in DOMAIN catalog.locales
    /\ \A key \in Page!MessageKeys :
          LET texts == catalog.locales[catalog.default]["messages"]
          IN  /\ key \in DOMAIN texts
              /\ texts[key].closed /\ texts[key].names \subseteq Page!CONTEXT_NAMES(key)
    /\ \A key \in Page!LabelKeys :
          LET texts == catalog.locales[catalog.default]["labels"]
          IN  /\ key \in DOMAIN texts
              /\ texts[key].closed /\ texts[key].names \subseteq Page!CONTEXT_NAMES(key)

\* The keys, and the values their texts may want, are the same for who loads them and
\* for who looks for them.
LEMMA SameKeys ==
  /\ Lang!MessageKeys = Page!MessageKeys /\ Lang!LabelKeys = Page!LabelKeys
  /\ \A key : Lang!CONTEXT_NAMES(key) = Page!CONTEXT_NAMES(key)
  BY DEF Lang!MessageKeys, Page!MessageKeys, Lang!LabelKeys, Page!LabelKeys,
     Lang!CONTEXT_NAMES, Page!CONTEXT_NAMES

\* Translations that login starts with leave no key without a text.
LEMMA LoadedIsComplete ==
  ASSUME NEW files, NEW default, Lang!load(files, default)
  PROVE  Complete(Lang!Catalog(files, default))
<1> DEFINE catalog == Lang!Catalog(files, default)
<1>1. PICK f \in files : f.tag = default /\ Lang!check_complete(f.locale) /\ Lang!check_keys(f.locale)
  BY Zenon DEF Lang!load
<1>2. /\ catalog.default = default
      /\ DOMAIN catalog.locales = {g.tag : g \in files}
      /\ catalog.locales[default] = (CHOOSE g \in files : g.tag = default).locale
  BY <1>1 DEF Lang!Catalog
<1>3. (CHOOSE g \in files : g.tag = default) = f
  <2>1. \A g \in files : g.tag = default => g = f
    BY <1>1 DEF Lang!load
  <2> QED
    BY <1>1, <2>1
<1>4. <<>> \notin DOMAIN catalog.locales
  <2>1. \A g \in files : Len(g.tag) \in 1..MAX_TAG_LEN
    BY DEF Lang!load
  <2> QED
    BY <1>2, <2>1
<1>5. \A key \in Page!MessageKeys :
         /\ key \in DOMAIN f.locale.messages /\ f.locale.messages[key].closed
         /\ f.locale.messages[key].names \subseteq Page!CONTEXT_NAMES(key)
  BY <1>1, SameKeys DEF Lang!check_complete, Lang!check_keys, Lang!placeholders_fit
<1>6. \A key \in Page!LabelKeys :
         /\ key \in DOMAIN f.locale.labels /\ f.locale.labels[key].closed
         /\ f.locale.labels[key].names \subseteq Page!CONTEXT_NAMES(key)
  BY <1>1, SameKeys DEF Lang!check_complete, Lang!check_keys, Lang!placeholders_fit
<1>7. catalog.locales[catalog.default] = f.locale /\ catalog.default \in DOMAIN catalog.locales
  BY <1>1, <1>2, <1>3
<1>8. /\ f.locale["messages"] = f.locale.messages
      /\ f.locale["labels"] = f.locale.labels
  OBVIOUS
<1> HIDE DEF catalog
<1>9. Complete(catalog)
  BY <1>4, <1>5, <1>6, <1>7, <1>8, Zenon DEF Complete
<1> QED
  BY <1>9 DEF catalog

\* A language that is found is one of the loaded ones.
LEMMA MatchingIsLoaded ==
  ASSUME NEW catalog, NEW tag \in Seq(STRING), Page!matching(catalog, tag) # Page!NoTag
  PROVE  Page!matching(catalog, tag) \in DOMAIN catalog.locales
<1> DEFINE loaded == {n \in 1..Len(tag) : SubSeq(tag, 1, n) \in DOMAIN catalog.locales}
<1>1. loaded # {} /\ Page!matching(catalog, tag) = SubSeq(tag, 1, Page!Max(loaded))
  BY DEF Page!matching
<1>2. Page!Max(loaded) \in loaded
  <2>1. Len(tag) \in Nat /\ loaded \subseteq 1..Len(tag)
    OBVIOUS
  <2> HIDE DEF loaded
  <2> QED
    BY <1>1, <2>1, MaxIsIn
<1> QED
  BY <1>1, <1>2

\* A sequence's places are counted from 1.
LEMMA PlacesOfASequence ==
  \A S : \A s \in Seq(S) :
     Len(s) \in Nat /\ DOMAIN s = 1..Len(s) /\ \A i \in DOMAIN s : s[i] \in S
  OBVIOUS

\* The language of an answer is one of the loaded ones.
LEMMA NegotiatedIsLoaded ==
  ASSUME NEW catalog, Complete(catalog), NEW headers \in Headers
  PROVE  Page!negotiate(catalog, headers) \in DOMAIN catalog.locales
<1> DEFINE cookies == Page!language_cookies(catalog, headers)
           accepted == Page!accepted_tags(catalog, headers)
           q(i) == headers.accepted[i].q
           best == CHOOSE i \in accepted : \A j \in accepted : q(i) > q(j) \/ (q(i) = q(j) /\ i <= j)
<1>1. /\ headers.cookies \in Seq(Seq(STRING))
      /\ headers.accepted \in Seq([tag : Seq(STRING), q : Nat])
  BY PagesAssumption
<1>a. \A i \in DOMAIN headers.accepted : headers.accepted[i] \in [tag : Seq(STRING), q : Nat]
  BY <1>1, PlacesOfASequence, Zenon
<1>b. Len(headers.accepted) \in Nat /\ DOMAIN headers.accepted = 1..Len(headers.accepted)
  BY <1>1, PlacesOfASequence, Zenon
<1>c. \A i \in DOMAIN headers.accepted :
         headers.accepted[i].tag \in Seq(STRING) /\ headers.accepted[i].q \in Nat
  BY <1>a
<1>2. CASE cookies # {}
  <2>1. /\ cookies \subseteq DOMAIN headers.cookies
        /\ \A i \in cookies : Page!matching(catalog, headers.cookies[i]) # Page!NoTag
    BY DEF Page!language_cookies, Page!LookedAt
  <2>2. Page!Min(cookies) \in cookies
    <3>1. cookies \subseteq Nat
      BY <1>1, <2>1
    <3> HIDE DEF cookies
    <3> QED
      BY <1>2, <3>1, MinIsIn
  <2>3. headers.cookies[Page!Min(cookies)] \in Seq(STRING)
    BY <1>1, <2>1, <2>2
  <2>4. Page!negotiate(catalog, headers) = Page!matching(catalog, headers.cookies[Page!Min(cookies)])
    BY <1>2, Zenon DEF Page!negotiate
  <2> HIDE DEF cookies
  <2> QED
    BY <2>1, <2>2, <2>3, <2>4, MatchingIsLoaded
<1>3. CASE cookies = {} /\ accepted # {}
  <2>1. /\ accepted \subseteq DOMAIN headers.accepted
        /\ \A i \in accepted : Page!matching(catalog, headers.accepted[i].tag) # Page!NoTag
    BY DEF Page!accepted_tags, Page!LookedAt
  <2>2. best \in accepted
    <3> DEFINE n == Len(headers.accepted)
               qs == [i \in 1..n |-> q(i)]
    <3>1. n \in Nat /\ DOMAIN headers.accepted = 1..n /\ \A i \in 1..n : q(i) \in Nat
      BY <1>b, <1>c
    <3>2. qs \in [1..n -> Nat] /\ accepted \subseteq 1..n
      BY <2>1, <3>1
    <3>3. \E i \in accepted : \A j \in accepted : qs[i] > qs[j] \/ (qs[i] = qs[j] /\ i <= j)
      <4> HIDE DEF qs, accepted, n
      <4> QED
        BY <1>3, <3>1, <3>2, BestIsThere
    <3>4. \A i \in accepted : qs[i] = q(i)
      BY <3>2
    <3>5. \E i \in accepted : \A j \in accepted : q(i) > q(j) \/ (q(i) = q(j) /\ i <= j)
      <4> HIDE DEF qs, accepted, q
      <4> QED
        BY <3>3, <3>4
    <3> QED
      BY <3>5
  <2>3. headers.accepted[best].tag \in Seq(STRING)
    <3> HIDE DEF best, accepted
    <3> QED
      BY <1>c, <2>1, <2>2
  <2>4. Page!negotiate(catalog, headers) = Page!matching(catalog, headers.accepted[best].tag)
    BY <1>3, Zenon DEF Page!negotiate
  <2> HIDE DEF best, accepted
  <2> QED
    BY <2>1, <2>2, <2>3, <2>4, MatchingIsLoaded
<1>4. CASE cookies = {} /\ accepted = {}
  <2>1. Page!negotiate(catalog, headers) = catalog.default
    BY <1>4, Zenon DEF Page!negotiate
  <2> QED
    BY <2>1 DEF Complete
<1> QED
  BY <1>2, <1>3, <1>4

\* A text that some language has is found, in the visitor's or the default one.
LEMMA FoundIfTheDefaultHas ==
  ASSUME NEW catalog, NEW language, NEW section, NEW key, NEW context,
         key \in DOMAIN catalog.locales[catalog.default][section],
         Page!fill(catalog.locales[catalog.default][section][key], context)
  PROVE  \/ Page!find(catalog, language, section, key, context) = Page!Text(language, key)
         \/ Page!find(catalog, language, section, key, context) = Page!Text(catalog.default, key)
<1> DEFINE has(l) == LET texts == catalog.locales[l][section]
                     IN  key \in DOMAIN texts /\ Page!fill(texts[key], context)
<1>1. Page!find(catalog, language, section, key, context)
        = CASE has(language) -> Page!Text(language, key)
            [] ~has(language) /\ has(catalog.default) -> Page!Text(catalog.default, key)
            [] OTHER -> Page!Nothing
  BY Zenon DEF Page!find
<1>2. has(catalog.default)
  OBVIOUS
<1> HIDE DEF has
<1> QED
  BY <1>1, <1>2

\* What a text found says of itself.
LEMMA Found ==
  ASSUME NEW catalog, NEW language \in DOMAIN catalog.locales, Complete(catalog),
         NEW section, NEW key, NEW context, key # "nothing",
         \/ key \in Page!MessageKeys /\ section = "messages"
         \/ key \in Page!LabelKeys /\ section = "labels",
         Page!CONTEXT_NAMES(key) \subseteq context
  PROVE  LET text == Page!find(catalog, language, section, key, context)
         IN  /\ text.language \in {language, catalog.default} \ {<<>>}
             /\ text.of = key /\ text # Page!Nothing
<1> DEFINE text == Page!find(catalog, language, section, key, context)
           texts == catalog.locales[catalog.default][section]
<1>1. key \in DOMAIN texts /\ texts[key].closed /\ texts[key].names \subseteq Page!CONTEXT_NAMES(key)
  BY Zenon DEF Complete
<1>2. Page!fill(texts[key], context)
  BY <1>1 DEF Page!fill
<1>3. text = Page!Text(language, key) \/ text = Page!Text(catalog.default, key)
  BY <1>1, <1>2, FoundIfTheDefaultHas, Zenon
<1>4. language # <<>> /\ catalog.default # <<>>
  BY DEF Complete
<1> HIDE DEF text
<1>5. /\ text.language \in {language, catalog.default} \ {<<>>}
      /\ text.of = key /\ text # Page!Nothing
  BY <1>3, <1>4 DEF Page!Text, Page!Nothing
<1> QED
  BY <1>5 DEF text

\* What Kratos says is told in one of the two languages, as itself where it is complete.
LEMMA MessageIsTold ==
  ASSUME NEW catalog, NEW language \in DOMAIN catalog.locales, Complete(catalog), NEW said
  PROVE  LET text == Page!message(catalog, language, said)
             key == Page!from_id(Page!MessageKeys, said.id)
         IN  /\ text.language \in {language, catalog.default} \ {Page!NoTag}
             /\ Page!CONTEXT_NAMES(key) \subseteq said.context => text.of = key
<1> DEFINE key == Page!from_id(Page!MessageKeys, said.id)
           own == Page!find(catalog, language, "messages", key, said.context)
           unknown == Page!find(catalog, language, "messages", "Unknown", {})
           text == Page!message(catalog, language, said)
<1>1. key \in Page!MessageKeys /\ "Unknown" \in Page!MessageKeys /\ key # "nothing"
  BY DEF Page!from_id, Page!MessageKeys
<1>2. Page!CONTEXT_NAMES("Unknown") \subseteq {}
  BY DEF Page!CONTEXT_NAMES
<1>3. text = IF own # Page!Nothing THEN own ELSE unknown
  BY Zenon DEF Page!message
<1>4. ASSUME Page!CONTEXT_NAMES(key) \subseteq said.context
      PROVE  /\ own.language \in {language, catalog.default} \ {<<>>}
             /\ own.of = key /\ own # Page!Nothing
  <2> HIDE DEF key
  <2> QED
    BY <1>1, <1>4, Found
<1>5. unknown.language \in {language, catalog.default} \ {<<>>}
  BY <1>1, <1>2, Found
<1>6. own # Page!Nothing => own.language \in {language, catalog.default} \ {<<>>}
  <2>1. language # <<>> /\ catalog.default # <<>>
    BY DEF Complete
  <2>2. own \in {Page!Text(language, key), Page!Text(catalog.default, key), Page!Nothing}
    BY Zenon DEF Page!find
  <2> HIDE DEF own, key
  <2> QED
    BY <2>1, <2>2 DEF Page!Text
<1> HIDE DEF own, unknown, key
<1> QED
  BY <1>3, <1>4, <1>5, <1>6 DEF Page!NoTag, key, text

\* A button with a text of login's is worded with it.
LEMMA LabelIsWorded ==
  ASSUME NEW catalog, NEW language \in DOMAIN catalog.locales, Complete(catalog), NEW node,
         node.said.id \in Page!LabelKeys,
         Page!CONTEXT_NAMES(node.said.id) \subseteq node.said.context
  PROVE  Page!Worded(catalog, language, node).language
           \in {language, catalog.default} \ {Page!NoTag}
<1> DEFINE own == Page!find(catalog, language, "labels", node.said.id, node.said.context)
<1>1. node.said.id \notin {"none", "Generated", "nothing"}
  BY DEF Page!LabelKeys
<1>2. own.language \in {language, catalog.default} \ {<<>>} /\ own # Page!Nothing
  BY <1>1, Found
<1>3. Page!label(catalog, language, node.said) = own
  BY <1>2, Zenon DEF Page!label
<1>4. Page!field_label(catalog, language, node.said) = own
  BY <1>1, <1>3, Zenon DEF Page!field_label
<1> HIDE DEF own
<1>5. Page!Worded(catalog, language, node) = own
  BY <1>1, <1>3, <1>4 DEF Page!Worded
<1> QED
  BY <1>2, <1>5 DEF Page!NoTag

\* A method Kratos offers has its group on the page, with `default` where it takes
\* that group's fields and with what the scripts are in where it needs one.
LEMMA OneFormForAMethod ==
  ASSUME NEW flow \in Flows, NEW m \in Page!Offered(flow)
  PROVE  \E groups \in Page!Groups(flow) :
            /\ m \in groups
            /\ \A n \in Page!Submission(flow, m) :
                  n.kind = "field" /\ n.group = "default" => "default" \in groups
<1>1. /\ flow.page \in {"login", "registration", "recovery", "verification", "settings"}
      /\ \A n \in flow.nodes :
            /\ Page!continuing(flow) => flow.page = "registration" /\ n.group \in {"default", "oidc"}
            /\ n.kind = "field" /\ n.group = "default" =>
                  /\ flow.page # "settings"
                  /\ flow.page = "registration" => "passkey" \notin Page!Offered(flow)
  BY PagesAssumption DEF Page!KratosSends
<1>2. /\ m \in Page!Methods(flow)
      /\ flow.page = "settings" /\ Page!recovering(flow) => m = "password"
      /\ \E n \in flow.nodes : n.kind = "submit" /\ n.group = m
  BY DEF Page!Offered
<1>3. \A n \in Page!Submission(flow, m) :
         n.kind = "field" /\ n.group = "default" =>
            n \in flow.nodes /\ (Page!TakesDefault(flow, m) \/ m = "default")
  BY DEF Page!Submission
<1>4. CASE flow.page = "login"
  <2>1. m \in {"password", "passkey", "oidc"}
    BY <1>2, <1>4 DEF Page!Methods
  <2>2. Page!TakesDefault(flow, m) => m = "password"
    BY <1>4 DEF Page!TakesDefault
  <2>3. Page!Groups(flow) = {{"default", "password"}, {"passkey", "webauthn"}, {"oidc"}}
    BY <1>4 DEF Page!Groups
  <2> QED
    BY <1>3, <2>1, <2>2, <2>3
<1>5. CASE flow.page = "registration"
  <2>1. m \in {"profile", "password", "passkey", "oidc"}
    BY <1>2, <1>5 DEF Page!Methods
  <2>2. CASE Page!continuing(flow)
    <3>1. m = "oidc"
      BY <1>1, <1>2, <2>1, <2>2
    <3>2. Page!Groups(flow) = {{"default", "oidc"}}
      BY <1>5, <2>2 DEF Page!Groups
    <3> QED
      BY <3>1, <3>2
  <2>3. CASE ~Page!continuing(flow)
    <3>1. Page!Groups(flow)
            = {{"default", "profile", "password"}, {"passkey", "webauthn"}, {"oidc"}}
      BY <1>5, <2>3 DEF Page!Groups
    <3>2. Page!TakesDefault(flow, m) => m # "oidc"
      BY <1>5, <2>3 DEF Page!TakesDefault
    <3> QED
      BY <1>1, <1>3, <1>5, <2>1, <3>1, <3>2
  <2> QED
    BY <2>2, <2>3
<1>6. CASE flow.page \in {"recovery", "verification"}
  <2>1. m = "code" /\ Page!Groups(flow) = {{"default", "code"}}
    BY <1>2, <1>6 DEF Page!Methods, Page!Groups
  <2> QED
    BY <2>1
<1>7. CASE flow.page = "settings"
  <2>1. m \in {"profile", "password", "passkey", "oidc"}
    BY <1>2, <1>7 DEF Page!Methods
  <2>2. {m} \in Page!Groups(flow)
    BY <1>2, <1>7, <2>1 DEF Page!Groups, Page!Each
  <2> QED
    BY <1>1, <1>3, <1>7, <2>2
<1> QED
  BY <1>1, <1>4, <1>5, <1>6, <1>7

\* What a visitor posts with a method is in one form of the page.
LEMMA PostedFromOneForm ==
  ASSUME NEW flow \in Flows, NEW m \in Page!Offered(flow)
  PROVE  \E f \in Page!forms(flow) : Page!Submission(flow, m) \subseteq f
<1>1. PICK groups \in Page!Groups(flow) :
        /\ m \in groups
        /\ \A n \in Page!Submission(flow, m) :
              n.kind = "field" /\ n.group = "default" => "default" \in groups
  BY OneFormForAMethod
<1> DEFINE nodes == Page!chosen(flow, groups, Page!only_missing(flow))
           f == Page!form(flow, groups, Page!only_missing(flow))
<1>2. ASSUME NEW n \in Page!Submission(flow, m)
      PROVE  n \in nodes /\ n.kind # "script"
  <2>1. /\ n \in flow.nodes
        /\ \/ n.kind \in {"hidden", "field", "submit"} /\ n.group = m
           \/ n.kind = "hidden" /\ n.group = "default"
           \/ /\ n.kind = "field" /\ n.group = "default"
              /\ Page!continuing(flow) => n.state # "filled"
    BY DEF Page!Submission
  <2>2. n.group \in groups \/ Page!is_hidden_default(n)
    BY <1>1, <2>1 DEF Page!is_hidden_default
  <2>3. m # "default"
    BY PagesAssumption DEF Page!Offered, Page!Methods, Page!KratosSends
  <2>4. ~(Page!only_missing(flow) /\ Page!is_settled_field(n))
    BY <2>1, <2>3 DEF Page!only_missing, Page!is_settled_field
  <2> QED
    BY <2>1, <2>2, <2>4 DEF Page!chosen
<1>3. \E n \in nodes : n.kind \notin {"hidden", "script", "unknown"}
  <2>1. PICK n \in flow.nodes : n.kind = "submit" /\ n.group = m
    BY DEF Page!Offered
  <2>2. n \in Page!Submission(flow, m)
    BY <2>1 DEF Page!Submission
  <2> QED
    BY <1>2, <2>1, <2>2
<1>4. f = {n \in nodes : n.kind # "script"}
  BY <1>3 DEF Page!form
<1>5. Page!Submission(flow, m) \subseteq f
  BY <1>2, <1>4
<1>6. f \in Page!forms(flow)
  <2>1. f # {}
    BY <1>3, <1>4
  <2> QED
    BY <1>1, <2>1, Zenon DEF Page!forms
<1> QED
  BY <1>5, <1>6

\* Where a passkey may be used, the page has Kratos' scripts.
LEMMA PasskeysHaveTheirScript ==
  ASSUME NEW flow \in Flows, "passkey" \in Page!Offered(flow),
         NEW n \in flow.nodes, n.kind = "script"
  PROVE  n \in Page!scripts(flow)
<1>1. /\ n.group = "webauthn"
      /\ \A k \in flow.nodes : Page!continuing(flow) => k.group \in {"default", "oidc"}
  BY PagesAssumption DEF Page!KratosSends
<1>2. /\ "passkey" \in Page!Methods(flow)
      /\ flow.page = "settings" => ~Page!recovering(flow)
      /\ \E k \in flow.nodes : k.group = "passkey"
  BY DEF Page!Offered
<1>3. ~Page!continuing(flow)
  BY <1>1, <1>2
<1>4. flow.page \in {"login", "registration", "settings"}
  <2>1. flow.page \in {"login", "registration", "recovery", "verification", "settings"}
    BY PagesAssumption DEF Page!KratosSends
  <2> QED
    BY <1>2, <2>1 DEF Page!Methods
<1>5. PICK groups \in Page!Groups(flow) : "webauthn" \in groups
  <2>1. CASE flow.page \in {"login", "registration"}
    BY <1>3, <2>1 DEF Page!Groups
  <2>2. CASE flow.page = "settings"
    BY <1>2, <2>2 DEF Page!Groups, Page!Each
  <2> QED
    BY <1>4, <2>1, <2>2
<1>6. n \in Page!chosen(flow, groups, Page!only_missing(flow))
  BY <1>1, <1>3, <1>5 DEF Page!chosen, Page!only_missing
<1> QED
  BY <1>5, <1>6 DEF Page!scripts

\* A page is rendered: complete, in the visitor's words, for this host.
LEMMA RenderedSoundly ==
  ASSUME NEW flow \in Flows, NEW headers \in Headers, NEW catalog, Complete(catalog),
         NEW rules, Page!Render(flow, headers, catalog, rules)
  PROVE  PagesInv'
<1> DEFINE language == Page!negotiate(catalog, headers)
<1>1. CASE call' = [at |-> "no page"]
  BY <1>1 DEF PagesInv, Page!PagesInv, Page!AlwaysInTheVisitorsWords, Page!NoFieldIsStranded,
     Page!StaysWithThisHost
<1>2. CASE call' # [at |-> "no page"]
  <2>1. /\ call'.at = "visited" /\ call'.flow = flow /\ call'.forms = Page!forms(flow)
        /\ call'.language = language /\ call'.default = catalog.default
        /\ call'.rules = rules /\ (Page!forms(flow) # {} => Page!local(flow.action, rules))
        /\ call'.messages = [m \in flow.messages |-> Page!message(catalog, language, m)]
        /\ call'.labels = [n \in UNION Page!forms(flow) |-> Page!Worded(catalog, language, n)]
        /\ call'.leads = [n \in Page!scripts(flow) \cup UNION Page!forms(flow) |->
                             Page!Rendered(n, rules)]
    BY <1>2 DEF Page!Render
  <2>2. language \in DOMAIN catalog.locales
    BY NegotiatedIsLoaded
  <2> HIDE DEF language
  <2>3. Page!AlwaysInTheVisitorsWords'
    <3>1. ASSUME NEW m \in flow.messages
          PROVE  LET text == call'.messages[m]
                     key == Page!from_id(Page!MessageKeys, m.id)
                 IN  /\ text.language \in {call'.language, call'.default} \ {Page!NoTag}
                     /\ Page!CONTEXT_NAMES(key) \subseteq m.context => text.of = key
      <4>1. call'.messages[m] = Page!message(catalog, language, m)
        BY <2>1
      <4> QED
        BY <2>1, <2>2, <4>1, MessageIsTold
    <3>2. ASSUME NEW n \in UNION Page!forms(flow), n.said.id \in Page!LabelKeys,
                 Page!CONTEXT_NAMES(n.said.id) \subseteq n.said.context
          PROVE  call'.labels[n].language \in {call'.language, call'.default} \ {Page!NoTag}
      <4>1. call'.labels[n] = Page!Worded(catalog, language, n)
        BY <2>1
      <4> QED
        BY <2>1, <2>2, <3>2, <4>1, LabelIsWorded
    <3>3. DOMAIN call'.messages = flow.messages /\ DOMAIN call'.labels = UNION Page!forms(flow)
      BY <2>1
    <3> QED
      BY <3>1, <3>2, <3>3, Zenon DEF Page!AlwaysInTheVisitorsWords
  <2>4. Page!NoFieldIsStranded'
    <3>1. ASSUME NEW m \in Page!Offered(flow)
          PROVE  \E f \in Page!forms(flow) : Page!Submission(flow, m) \subseteq f
      BY PostedFromOneForm
    <3>2. ASSUME "passkey" \in Page!Offered(flow), NEW n \in flow.nodes,
                 n.kind = "script", Page!local(n.target, rules)
          PROVE  n \in DOMAIN call'.leads /\ call'.leads[n] = Page!Path
      <4>1. n \in Page!scripts(flow)
        BY <3>2, PasskeysHaveTheirScript
      <4>2. Page!Rendered(n, rules) = Page!Path
        BY <3>2 DEF Page!Rendered
      <4> QED
        BY <2>1, <4>1, <4>2
    <3> QED
      BY <2>1, <3>1, <3>2 DEF Page!NoFieldIsStranded
  <2>5. Page!StaysWithThisHost'
    <3>1. ASSUME NEW target, Page!local(target, rules)
          PROVE  Page!OfThisStack(target)
      BY <3>1 DEF Page!local, Page!OfThisStack
    <3>2. ASSUME NEW n
          PROVE  LET shown == Page!Rendered(n, rules)
                 IN  /\ n.kind = "a" => shown.scheme \in {"none", "path", "https", "http"}
                     /\ n.kind # "a" => shown.scheme \in {"none", "path", "data"}
                     /\ n.kind = "script" /\ shown = Page!Path => Page!OfThisStack(n.target)
                     /\ rules.own = "https" => shown.scheme # "http"
      <4>1. Page!Path.scheme = "path" /\ Page!Nowhere.scheme = "none" /\ Page!Path # Page!Nowhere
        BY DEF Page!Path, Page!Nowhere, Page!Address
      <4>2. CASE n.kind = "script" /\ Page!local(n.target, rules)
        BY <3>1, <4>1, <4>2 DEF Page!Rendered
      <4>3. CASE n.kind = "img" /\ n.target.scheme \in {"path", "data"}
        BY <4>3 DEF Page!Rendered
      <4>4. CASE n.kind = "a" /\ Page!is_web_url(n.target, rules)
        BY <4>4 DEF Page!Rendered, Page!is_web_url, Page!https_only
      <4>5. CASE ~(\/ n.kind = "script" /\ Page!local(n.target, rules)
                   \/ n.kind = "img" /\ n.target.scheme \in {"path", "data"}
                   \/ n.kind = "a" /\ Page!is_web_url(n.target, rules))
        <5>1. Page!Rendered(n, rules) = Page!Nowhere
          BY <4>5, Zenon DEF Page!Rendered
        <5> QED
          BY <4>1, <5>1
      <4> QED
        BY <4>2, <4>3, <4>4, <4>5
    <3> QED
      BY <2>1, <3>1, <3>2 DEF Page!StaysWithThisHost
  <2> QED
    BY <2>3, <2>4, <2>5 DEF PagesInv, Page!PagesInv
<1> QED
  BY <1>1, <1>2

\* Every other step leaves no page to be seen.
LEMMA ElsewhereKeepsPagesInv ==
  ASSUME call'.at # "visited"
  PROVE  PagesInv'
  BY DEF PagesInv, Page!PagesInv, Page!AlwaysInTheVisitorsWords, Page!NoFieldIsStranded,
     Page!StaysWithThisHost

\* Whatever Kratos sends and whichever translations login started with, a page tells it
\* in one of the visitor's languages, posts from one form all that a method takes, posts
\* to this host and runs scripts of this host and Kratos alone, and on https links to no
\* address in the clear (login/src/render.rs:340-407, 599-670, i18n.rs:294-352).
THEOREM PagesInvHolds == DepSpec => []PagesInv
<1>1. DepInit => LauncherInv /\ ServingInv /\ PagesInv
  <2>1. DepInit => PagesInv
    BY DEF DepInit, Init, Idle, PagesInv, Page!PagesInv, Page!AlwaysInTheVisitorsWords,
       Page!NoFieldIsStranded, Page!StaysWithThisHost
  <2> QED
    BY <2>1, InitLauncherInv DEF DepInit, LaunchInit, ServingInv
<1>2. LauncherInv /\ ServingInv /\ PagesInv /\ [DepNext]_depVars => PagesInv'
  <2> SUFFICES ASSUME ServingInv, PagesInv, [DepNext]_depVars PROVE PagesInv'
    OBVIOUS
  <2>1. CASE UNCHANGED call
    BY <2>1 DEF PagesInv, Page!PagesInv, Page!AlwaysInTheVisitorsWords, Page!NoFieldIsStranded,
       Page!StaysWithThisHost
  <2>2. CASE call' = Idle
    BY <2>2, ElsewhereKeepsPagesInv DEF Idle
  <2>3. CASE \E route \in Routes : call' = [at |-> route]
    <3>1. call'.at # "visited"
      BY <2>3 DEF Routes
    <3> QED
      BY <3>1, ElsewhereKeepsPagesInv
  <2>4. CASE Submit \/ KratosReplies
    BY <2>4, LoginsOwnSteps, ElsewhereKeepsPagesInv
  <2>5. CASE FromBrowser \/ FromService \/ Upstream
    BY <2>5, BffsOwnSteps, ElsewhereKeepsPagesInv
  <2>6. CASE Visit
    <3>1. load("login")
      BY <2>6, ThreeServices DEF Visit, Serving, AllServe, ServingInv
    <3>2. Lang!load(d.locales, loginConfig(d).default_locale)
      BY <3>1, Zenon DEF load, login_load
    <3>3. Complete(Lang!Catalog(d.locales, loginConfig(d).default_locale))
      BY <3>2, LoadedIsComplete
    <3> QED
      BY <2>6, <3>3, RenderedSoundly DEF Visit
  <2> QED
    BY <2>1, <2>2, <2>3, <2>4, <2>5, <2>6, WhatARequestDoes
<1> QED
  BY <1>1, <1>2, DepNextKeepsLauncherInv, DepNextKeepsServingInv, PTL DEF DepSpec

-----------------------------------------------------------------------------
(* Whom a request is counted for                                           *)

\* The step of client_ip's walk, and the walk over some of the hops: it has read the
\* places of a set, the last first.
Onwards(hop, walk) ==
    IF walk.stop \/ ~is_trusted(walk.ip) THEN walk
    ELSE IF parse_hop(hop) THEN [ip |-> hop.ip, stop |-> FALSE]
    ELSE [walk EXCEPT !.stop = TRUE]
At(hops, peer, read, g) ==
    IF read = {} THEN [ip |-> peer, stop |-> FALSE]
    ELSE Onwards(hops[Min(read)], g[read \ {Min(read)}])
IsWalk(g, hops, peer) == g = [read \in SUBSET DOMAIN hops |-> At(hops, peer, read, g)]
Walked(hops, peer, k) == (CHOOSE g : IsWalk(g, hops, peer))[(k + 1)..Len(hops)]

\* The first of some places is one of them.
LEMMA FirstOfThem ==
  ASSUME NEW T, T \subseteq Nat, T # {}
  PROVE  Min(T) \in T /\ \A m \in T : Min(T) <= m
<1>1. \E n \in T : \A m \in T : n <= m
  BY Least
<1> QED
  BY <1>1 DEF Min

\* The first place of an interval, and what is left without it.
LEMMA FirstOfAnInterval ==
  ASSUME NEW n \in Nat, NEW k \in 1..n
  PROVE  Min(k..n) = k /\ (k..n) \ {Min(k..n)} = (k + 1)..n
<1>1. k \in k..n /\ k..n \subseteq Nat /\ \A j \in k..n : k <= j
  OBVIOUS
<1>2. Min(k..n) \in k..n /\ \A m \in k..n : Min(k..n) <= m
  BY <1>1, FirstOfThem
<1>3. Min(k..n) = k
  BY <1>1, <1>2
<1>4. (k..n) \ {k} = (k + 1)..n
  OBVIOUS
<1> QED
  BY <1>3, <1>4

\* There is a walk over any hops: over the last k for every k.
LEMMA WalkExists ==
  ASSUME NEW n \in Nat, NEW hops, DOMAIN hops = 1..n, NEW peer
  PROVE  \E g : IsWalk(g, hops, peer)
<1> DEFINE Rest(k) == SUBSET ((n + 1 - k)..n)
           There(k) == k <= n => \E g : g = [read \in Rest(k) |-> At(hops, peer, read, g)]
           Known == {k \in Nat : There(k)}
<1>1. 0 \in Known
  <2> DEFINE g == [read \in Rest(0) |-> [ip |-> peer, stop |-> FALSE]]
  <2>1. \A read \in Rest(0) : read = {}
    OBVIOUS
  <2>2. \A read \in Rest(0) : At(hops, peer, read, g) = [ip |-> peer, stop |-> FALSE]
    BY <2>1 DEF At
  <2>3. g = [read \in Rest(0) |-> At(hops, peer, read, g)]
    BY <2>2
  <2>4. There(0)
    BY <2>3, Zenon
  <2> HIDE DEF There
  <2> QED
    BY <2>4
<1>2. ASSUME NEW k \in Nat, k \in Known PROVE k + 1 \in Known
  <2>a. There(k) /\ (There(k + 1) => k + 1 \in Known)
    <3> HIDE DEF There
    <3> QED
      BY <1>2
  <2>b. SUFFICES ASSUME k + 1 <= n
                 PROVE  \E h : h = [read \in Rest(k + 1) |-> At(hops, peer, read, h)]
    BY <2>a, Zenon
  <2>c. k <= n
    BY <2>b
  <2>1. PICK g : g = [read \in Rest(k) |-> At(hops, peer, read, g)]
    BY <2>a, <2>c, Zenon
  <2> DEFINE h == [read \in Rest(k + 1) |-> At(hops, peer, read, g)]
  <2>2. Rest(k) \subseteq Rest(k + 1)
    OBVIOUS
  <2>3. \A read \in Rest(k) : h[read] = g[read]
    BY <2>1, <2>2
  <2>4. ASSUME NEW read \in Rest(k + 1), read # {} PROVE read \ {Min(read)} \in Rest(k)
    <3>0. n + 1 - (k + 1) = n - k /\ n - k \in Nat /\ n + 1 - k = (n - k) + 1
      BY <2>c
    <3>1. \A m \in read : m \in (n - k)..n /\ m \in Nat
      BY <3>0
    <3>2. Min(read) \in read /\ \A m \in read : Min(read) <= m
      <4>1. read \subseteq Nat
        BY <3>1
      <4> QED
        BY <2>4, <4>1, FirstOfThem
    <3>3. ASSUME NEW m \in read \ {Min(read)} PROVE m \in (n + 1 - k)..n
      <4>1. m \in (n - k)..n /\ Min(read) \in (n - k)..n /\ Min(read) <= m /\ Min(read) # m
        BY <3>1, <3>2
      <4> QED
        BY <3>0, <4>1
    <3> QED
      BY <3>3
  <2> HIDE DEF Rest
  <2>5. ASSUME NEW read \in Rest(k + 1)
        PROVE  At(hops, peer, read, g) = At(hops, peer, read, h)
    <3>1. CASE read = {}
      BY <3>1 DEF At
    <3>2. CASE read # {}
      <4>1. h[read \ {Min(read)}] = g[read \ {Min(read)}]
        BY <2>3, <2>4, <3>2
      <4> QED
        BY <4>1, <3>2 DEF At
    <3> QED
      BY <3>1, <3>2
  <2>6. h = [read \in Rest(k + 1) |-> At(hops, peer, read, h)]
    BY <2>5
  <2> QED
    BY <2>6, Zenon
<1>3. n \in Known
  <2> HIDE DEF Known
  <2>1. Nat \subseteq Known
    BY <1>1, <1>2, EveryNatural, Zenon
  <2> QED
    BY <2>1
<1>4. Rest(n) = SUBSET DOMAIN hops
  <2>1. n + 1 - n = 1
    OBVIOUS
  <2> QED
    BY <2>1
<1>5. \E g : g = [read \in SUBSET DOMAIN hops |-> At(hops, peer, read, g)]
  <2>1. There(n)
    <3> HIDE DEF There
    <3> QED
      BY <1>3
  <2>2. n <= n
    OBVIOUS
  <2>3. \E g : g = [read \in Rest(n) |-> At(hops, peer, read, g)]
    BY <2>1, <2>2, Zenon
  <2> QED
    BY <1>4, <2>3, Zenon
<1> QED
  BY <1>5 DEF IsWalk

\* The walk goes from the last hop to the first.
LEMMA WalkGoesOn ==
  ASSUME NEW hops, Len(hops) \in Nat, DOMAIN hops = 1..Len(hops), NEW peer
  PROVE  /\ client_ip(peer, hops) = Walked(hops, peer, 0).ip
         /\ Walked(hops, peer, Len(hops)) = [ip |-> peer, stop |-> FALSE]
         /\ \A k \in 1..Len(hops) :
               Walked(hops, peer, k - 1) = Onwards(hops[k], Walked(hops, peer, k))
<1> DEFINE n == Len(hops)
           g == CHOOSE g : IsWalk(g, hops, peer)
<1>1. IsWalk(g, hops, peer)
  BY WalkExists
<1>2. client_ip(peer, hops) = g[DOMAIN hops].ip
  BY DEF client_ip, FoldRight, MapThenFoldSet, IsWalk, At, Onwards
<1>3. \A k \in 0..n : Walked(hops, peer, k) = g[(k + 1)..n]
  BY DEF Walked
<1> HIDE DEF g
<1>4. \A read \in SUBSET (1..n) : g[read] = At(hops, peer, read, g)
  BY <1>1 DEF IsWalk
<1>5. client_ip(peer, hops) = Walked(hops, peer, 0).ip
  BY <1>2, <1>3
<1>6. Walked(hops, peer, n) = [ip |-> peer, stop |-> FALSE]
  <2>1. (n + 1)..n = {} /\ n \in 0..n
    OBVIOUS
  <2>2. Walked(hops, peer, n) = g[{}]
    BY <1>3, <2>1
  <2>3. g[{}] = At(hops, peer, {}, g)
    BY <1>4
  <2> QED
    BY <2>2, <2>3 DEF At
<1>7. ASSUME NEW k \in 1..n
      PROVE  Walked(hops, peer, k - 1) = Onwards(hops[k], Walked(hops, peer, k))
  <2>1. Walked(hops, peer, k - 1) = g[k..n]
    BY <1>3
  <2>2. k..n \in SUBSET (1..n) /\ k..n # {}
    OBVIOUS
  <2>3. Min(k..n) = k /\ (k..n) \ {Min(k..n)} = (k + 1)..n
    BY FirstOfAnInterval
  <2>4. g[k..n] = Onwards(hops[k], g[(k + 1)..n])
    BY <1>4, <2>2, <2>3 DEF At
  <2> QED
    BY <1>3, <2>1, <2>4
<1> QED
  BY <1>5, <1>6, <1>7

\* What the peer is told by the hops, and what was forged before them.
LEMMA WhatIsReported ==
  ASSUME NEW host \in Hosts, NEW path \in Seq(Proxies), NEW form \in {"bare", "unreadable"},
         NEW forged \in Forgeries
  PROVE  LET hops == Reported(forged, host, path, form)
             chain == <<host>> \o path
         IN  /\ Len(forged) \in Nat /\ Len(path) \in Nat
             /\ Len(hops) = Len(forged) + Len(path) /\ DOMAIN hops = 1..Len(hops)
             /\ DOMAIN chain = 1..(Len(path) + 1)
             /\ \A i \in 1..Len(path) : hops[Len(forged) + i] = Entry(chain[i], form)
             /\ chain[1] = host /\ PeerOf(host, path) = chain[Len(path) + 1]
<1> DEFINE told == [i \in 1..Len(path) |-> Entry(IF i = 1 THEN host ELSE path[i - 1], form)]
           Entries == [ip : Hosts \cup Proxies, form : {"bare", "port", "mapped", "unreadable"}]
           chain == <<host>> \o path
<1>1. forged \in Seq(Entries) /\ Len(forged) \in Nat /\ Len(path) \in Nat
  <2>1. forged \in Seq(Entries)
    BY RequestsAssumption, Zenon
  <2> HIDE DEF Entries
  <2> QED
    BY <2>1, PlacesOfASequence
<1>2. \A i \in 1..Len(path) : told[i] \in Entries
  <2> SUFFICES ASSUME NEW i \in 1..Len(path) PROVE told[i] \in Entries
    OBVIOUS
  <2>1. (IF i = 1 THEN host ELSE path[i - 1]) \in Hosts \cup Proxies
    <3>1. i # 1 => i - 1 \in 1..Len(path)
      BY <1>1
    <3> QED
      BY <3>1
  <2>2. told[i] = [ip |-> IF i = 1 THEN host ELSE path[i - 1], form |-> form]
    BY DEF Entry
  <2>3. form \in {"bare", "port", "mapped", "unreadable"}
    OBVIOUS
  <2> QED
    BY <2>1, <2>2, <2>3
<1>3. told \in Seq(Entries) /\ Len(told) = Len(path)
  <2>1. told \in [1..Len(path) -> Entries]
    BY <1>2
  <2> HIDE DEF told, Entries
  <2> QED
    BY <1>1, <2>1
<1>4. /\ Len(forged \o told) = Len(forged) + Len(told)
      /\ DOMAIN (forged \o told) = 1..(Len(forged) + Len(told))
      /\ \A i \in 1..Len(told) : (forged \o told)[Len(forged) + i] = told[i]
  <2> HIDE DEF told, Entries
  <2>1. Len(told) \in Nat
    BY <1>1, <1>3
  <2>a. forged \o told \in Seq(Entries)
    BY <1>1, <1>3, ConcatProperties
  <2>2. /\ Len(forged \o told) = Len(forged) + Len(told)
        /\ DOMAIN (forged \o told) = 1..(Len(forged) + Len(told))
        /\ \A i \in 1..(Len(forged) + Len(told)) :
              (forged \o told)[i] = IF i <= Len(forged) THEN forged[i] ELSE told[i - Len(forged)]
    BY <1>1, <1>3, <2>a, PlacesOfASequence, ConcatProperties
  <2>3. ASSUME NEW i \in 1..Len(told)
        PROVE  (forged \o told)[Len(forged) + i] = told[i]
    <3>1. /\ Len(forged) + i \in 1..(Len(forged) + Len(told)) /\ ~(Len(forged) + i <= Len(forged))
          /\ Len(forged) + i - Len(forged) = i
      BY <1>1, <2>1
    <3> QED
      BY <2>2, <3>1
  <2> QED
    BY <2>2, <2>3
<1>5. /\ DOMAIN chain = 1..(Len(path) + 1) /\ chain[1] = host
      /\ \A i \in 1..Len(path) : chain[i + 1] = path[i]
  BY <1>1
<1>6. PeerOf(host, path) = chain[Len(path) + 1]
  <2>1. CASE path = <<>>
    BY <1>5, <2>1 DEF PeerOf
  <2>2. CASE path # <<>>
    <3>1. Len(path) \in 1..Len(path)
      BY <1>1, <2>2
    <3> QED
      BY <1>5, <2>2, <3>1 DEF PeerOf, Last
  <2> QED
    BY <2>1, <2>2
<1>7. ASSUME NEW i \in 1..Len(path) PROVE told[i] = Entry(chain[i], form)
  <2>1. i # 1 => i - 1 \in 1..Len(path) /\ (i - 1) + 1 = i
    BY <1>1
  <2>2. (IF i = 1 THEN host ELSE path[i - 1]) = chain[i]
    BY <1>5, <2>1
  <2> QED
    BY <2>2
<1>8. Reported(forged, host, path, form) = forged \o told
  BY DEF Reported
<1> HIDE DEF told, chain
<1> QED
  BY <1>1, <1>3, <1>4, <1>5, <1>6, <1>7, <1>8 DEF chain

\* Who sent it: the first in the chain of whom only trusted proxies speak.
LEMMA TheSender ==
  ASSUME NEW host \in Hosts, NEW path \in Seq(Proxies), NEW form \in {"bare", "unreadable"}
  PROVE  LET chain == <<host>> \o path
             m == Len(path)
         IN  \E a \in 1..(m + 1) :
                /\ Sender(host, path, form) = chain[a]
                /\ \A j \in 1..(m + 1) : j > a => is_trusted(chain[j])
                /\ form = "unreadable" => a = m + 1
                /\ a = 1 \/ ~is_trusted(chain[a]) \/ form = "unreadable"
<1> DEFINE chain == <<host>> \o path
           m == Len(path)
           known == {i \in DOMAIN chain :
                       /\ \A j \in DOMAIN chain : j > i => is_trusted(chain[j])
                       /\ form = "unreadable" => i = Len(chain)}
           a == CHOOSE i \in known : \A j \in known : i <= j
<1>1. m \in Nat /\ DOMAIN chain = 1..(m + 1) /\ Len(chain) = m + 1
  OBVIOUS
<1>2. known \subseteq 1..(m + 1) /\ m + 1 \in known
  BY <1>1
<1>3. a \in known /\ \A j \in known : a <= j
  <2> HIDE DEF known
  <2>1. known \subseteq Nat /\ known # {}
    BY <1>1, <1>2
  <2>2. \E i \in known : \A j \in known : i <= j
    BY <2>1, Least
  <2> QED
    BY <2>2
<1>4. Sender(host, path, form) = chain[a]
  BY DEF Sender
<1> HIDE DEF a, chain, m
<1>5. /\ a \in 1..(m + 1) /\ \A j \in 1..(m + 1) : j > a => is_trusted(chain[j])
      /\ form = "unreadable" => a = m + 1
  BY <1>1, <1>3
<1>6. ASSUME a # 1, is_trusted(chain[a]), form # "unreadable" PROVE FALSE
  <2>1. a - 1 \in 1..(m + 1) /\ ~(a <= a - 1)
    BY <1>1, <1>5, <1>6
  <2>2. \A j \in 1..(m + 1) : j > a - 1 => is_trusted(chain[j])
    BY <1>1, <1>5, <1>6
  <2>3. a - 1 \in known
    BY <1>1, <1>6, <2>1, <2>2
  <2> QED
    BY <1>3, <2>1, <2>3
<1> QED
  BY <1>4, <1>5, <1>6 DEF chain, m

\* What is set on a record is what it then holds, the rest of it as it was.
LEMMA Stopping ==
  ASSUME NEW p, NEW t
  PROVE  [[ip |-> p, stop |-> FALSE] EXCEPT !.stop = t] = [ip |-> p, stop |-> t]
  OBVIOUS

\* However the request came and whatever was written into its headers before, it is
\* counted for its sender.
LEMMA CountedForItsSender ==
  ASSUME NEW host \in Hosts, NEW path \in Seq(Proxies), NEW form \in {"bare", "unreadable"},
         NEW forged \in Forgeries
  PROVE  client_ip(PeerOf(host, path), Reported(forged, host, path, form))
           = Sender(host, path, form)
<1> DEFINE hops == Reported(forged, host, path, form)
           chain == <<host>> \o path
           f == Len(forged)
           m == Len(path)
           peer == chain[m + 1]
           walk(k) == Walked(hops, peer, k)
<1>1. /\ f \in Nat /\ m \in Nat /\ Len(hops) = f + m /\ DOMAIN hops = 1..Len(hops)
      /\ \A i \in 1..m : hops[f + i] = Entry(chain[i], form)
      /\ chain[1] = host /\ PeerOf(host, path) = peer
  BY WhatIsReported
<1>2. PICK a \in 1..(m + 1) :
        /\ Sender(host, path, form) = chain[a]
        /\ \A j \in 1..(m + 1) : j > a => is_trusted(chain[j])
        /\ form = "unreadable" => a = m + 1
        /\ a = 1 \/ ~is_trusted(chain[a]) \/ form = "unreadable"
  BY TheSender
<1>3. ~is_trusted(chain[1])
  BY <1>1, LimitsAssumption DEF is_trusted
<1> HIDE DEF hops, chain, f, m
<1>4. /\ client_ip(peer, hops) = walk(0).ip
      /\ walk(f + m) = [ip |-> peer, stop |-> FALSE]
      /\ \A k \in 1..(f + m) : walk(k - 1) = Onwards(hops[k], walk(k))
  <2>1. Len(hops) \in Nat
    BY <1>1
  <2> QED
    BY <1>1, <2>1, WalkGoesOn
<1> HIDE DEF walk
<1> DEFINE stopped(i) == form = "unreadable" /\ i < m /\ is_trusted(peer)
           there(i) == [ip |-> chain[IF i + 1 > a THEN i + 1 ELSE a], stop |-> IF stopped(i) THEN TRUE ELSE FALSE]
           Told == {k \in Nat : k <= m => walk(f + (m - k)) = there(m - k)}
<1>5. 0 \in Told
  <2>1. there(m) = [ip |-> chain[m + 1], stop |-> FALSE]
    <3>1. (IF m + 1 > a THEN m + 1 ELSE a) = m + 1 /\ ~(m < m)
      BY <1>1, <1>2
    <3> QED
      BY <3>1
  <2>2. m - 0 = m
    BY <1>1
  <2> HIDE DEF there
  <2> QED
    BY <1>4, <2>1, <2>2
<1>6. ASSUME NEW k \in Nat, k \in Told PROVE k + 1 \in Told
  <2> DEFINE i == m - k
  <2> SUFFICES ASSUME k + 1 <= m PROVE walk(f + (m - (k + 1))) = there(m - (k + 1))
    OBVIOUS
  <2>1. /\ i \in 1..m /\ m - (k + 1) = i - 1 /\ f + i \in 1..(f + m)
        /\ f + (m - (k + 1)) = (f + i) - 1 /\ k <= m
    BY <1>1
  <2>2. walk(f + i) = there(i)
    BY <1>6, <2>1
  <2> HIDE DEF i
  <2>3. walk((f + i) - 1) = Onwards(Entry(chain[i], form), there(i))
    BY <1>1, <1>4, <2>1, <2>2
  <2>4. Onwards(Entry(chain[i], form), there(i)) = there(i - 1)
    <3>1. CASE form = "unreadable"
      <4>1. /\ there(i) = [ip |-> peer, stop |-> IF stopped(i) THEN TRUE ELSE FALSE]
            /\ there(i - 1) = [ip |-> peer, stop |-> IF stopped(i - 1) THEN TRUE ELSE FALSE]
        <5>1. /\ (IF i + 1 > a THEN i + 1 ELSE a) = m + 1
              /\ (IF (i - 1) + 1 > a THEN (i - 1) + 1 ELSE a) = m + 1
          BY <1>1, <1>2, <2>1, <3>1
        <5> QED
          BY <5>1
      <4>2. CASE ~is_trusted(peer)
        <5>1. /\ there(i) = [ip |-> peer, stop |-> FALSE]
              /\ there(i - 1) = [ip |-> peer, stop |-> FALSE]
          BY <4>1, <4>2
        <5> HIDE DEF there
        <5> QED
          BY <4>2, <5>1 DEF Onwards
      <4>3. CASE is_trusted(peer) /\ i < m
        <5>1. stopped(i) /\ stopped(i - 1)
          BY <1>1, <2>1, <3>1, <4>3
        <5>2. /\ there(i) = [ip |-> peer, stop |-> TRUE]
              /\ there(i - 1) = [ip |-> peer, stop |-> TRUE]
          BY <4>1, <5>1
        <5> HIDE DEF there
        <5> QED
          BY <5>2 DEF Onwards
      <4>4. CASE is_trusted(peer) /\ i = m
        <5>1. ~stopped(i) /\ stopped(i - 1)
          BY <1>1, <2>1, <3>1, <4>4
        <5>2. /\ there(i) = [ip |-> peer, stop |-> FALSE]
              /\ there(i - 1) = [ip |-> peer, stop |-> TRUE]
          BY <4>1, <5>1
        <5>3. ~parse_hop(Entry(chain[i], form))
          BY <3>1 DEF parse_hop, Entry
        <5>4. [[ip |-> peer, stop |-> FALSE] EXCEPT !.stop = TRUE] = [ip |-> peer, stop |-> TRUE]
          BY Stopping
        <5> HIDE DEF there
        <5> QED
          BY <4>4, <5>2, <5>3, <5>4 DEF Onwards
      <4> QED
        BY <1>1, <2>1, <4>2, <4>3, <4>4
    <3>2. CASE form = "bare"
      <4>1. /\ there(i) = [ip |-> chain[IF i + 1 > a THEN i + 1 ELSE a], stop |-> FALSE]
            /\ there(i - 1) = [ip |-> chain[IF i > a THEN i ELSE a], stop |-> FALSE]
        <5>1. ~stopped(i) /\ ~stopped(i - 1) /\ (i - 1) + 1 = i
          BY <2>1, <3>2
        <5> QED
          BY <5>1
      <4>2. CASE i >= a
        <5>1. there(i).ip = chain[i + 1] /\ is_trusted(chain[i + 1]) /\ there(i).stop = FALSE
          BY <1>1, <1>2, <2>1, <4>1, <4>2
        <5>2. there(i - 1) = [ip |-> chain[i], stop |-> FALSE]
          <6>1. (IF i > a THEN i ELSE a) = i
            BY <1>2, <2>1, <4>2
          <6> QED
            BY <4>1, <6>1
        <5> HIDE DEF there
        <5> QED
          BY <3>2, <5>1, <5>2 DEF Onwards, parse_hop, Entry
      <4>3. CASE i < a
        <5>1. there(i) = [ip |-> chain[a], stop |-> FALSE] /\ there(i - 1) = there(i)
          <6>1. (IF i + 1 > a THEN i + 1 ELSE a) = a /\ (IF i > a THEN i ELSE a) = a
            BY <1>2, <2>1, <4>3
          <6> HIDE DEF there
          <6>2. there(i) = [ip |-> chain[a], stop |-> FALSE]
            BY <4>1, <6>1
          <6>3. there(i - 1) = [ip |-> chain[a], stop |-> FALSE]
            BY <4>1, <6>1
          <6> QED
            BY <6>2, <6>3
        <5>2. ~is_trusted(chain[a])
          BY <1>2, <2>1, <3>2, <4>3
        <5> HIDE DEF there
        <5> QED
          BY <5>1, <5>2 DEF Onwards
      <4> QED
        BY <1>2, <2>1, <4>2, <4>3
    <3> QED
      BY <3>1, <3>2
  <2> QED
    BY <2>1, <2>3, <2>4
<1>7. walk(f) = there(0)
  <2> HIDE DEF there
  <2>1. m \in Told
    <3> HIDE DEF Told
    <3>1. Nat \subseteq Told
      BY <1>5, <1>6, EveryNatural, Zenon
    <3> QED
      BY <1>1, <3>1
  <2>2. m - m = 0 /\ f + 0 = f /\ m <= m
    BY <1>1
  <2> QED
    BY <2>1, <2>2
<1>8. walk(f).ip = chain[a] /\ (walk(f).stop \/ ~is_trusted(chain[a]))
  <2>1. there(0).ip = chain[a] /\ (there(0).stop <=> stopped(0))
    <3>1. (IF 0 + 1 > a THEN 0 + 1 ELSE a) = a
      BY <1>2
    <3> QED
      BY <3>1
  <2>2. stopped(0) \/ ~is_trusted(chain[a])
    <3>1. CASE a = 1
      BY <1>3, <3>1
    <3>2. CASE a # 1 /\ form = "unreadable"
      BY <1>1, <1>2, <3>2
    <3>3. CASE a # 1 /\ form # "unreadable"
      BY <1>2, <3>3
    <3> QED
      BY <3>1, <3>2, <3>3
  <2> HIDE DEF there, stopped
  <2> QED
    BY <1>7, <2>1, <2>2
<1> DEFINE Unchanged == {k \in Nat : k <= f => walk(f - k) = walk(f)}
<1>9. 0 \in Unchanged
  BY <1>1
<1>10. ASSUME NEW k \in Nat, k \in Unchanged PROVE k + 1 \in Unchanged
  <2> SUFFICES ASSUME k + 1 <= f PROVE walk(f - (k + 1)) = walk(f)
    OBVIOUS
  <2>1. f - k \in 1..(f + m) /\ f - (k + 1) = (f - k) - 1 /\ k <= f
    BY <1>1
  <2>2. walk(f - (k + 1)) = Onwards(hops[f - k], walk(f - k)) /\ walk(f - k) = walk(f)
    BY <1>4, <1>10, <2>1
  <2> QED
    BY <1>8, <2>2 DEF Onwards
<1>11. walk(0) = walk(f)
  <2>1. f \in Unchanged
    <3> HIDE DEF Unchanged
    <3>1. Nat \subseteq Unchanged
      BY <1>9, <1>10, EveryNatural, Zenon
    <3> QED
      BY <1>1, <3>1
  <2>2. f - f = 0 /\ f <= f
    BY <1>1
  <2> QED
    BY <2>1, <2>2
<1>12. client_ip(peer, hops) = Sender(host, path, form)
  BY <1>2, <1>4, <1>8, <1>11
<1> QED
  BY <1>1, <1>12 DEF hops

\* Nothing but a request that is counted, an attempt that is back and a service that
\* goes down changes what was spent.
LEMMA WhatIsSpent ==
  ASSUME [DepNext]_depVars
  PROVE  \/ UNCHANGED limitVars
         \/ spent' = NoneSpent /\ sent' = NoneSpent
         \/ Replenish
         \/ Arrive
<1>1. CASE UNCHANGED depVars
  BY <1>1 DEF depVars, vars
<1>2. CASE Requesting
  BY <1>2 DEF Requesting, Next, Submit, KratosReplies, FromBrowser, FromService, Upstream,
     Done, Refill
<1>3. CASE Visit \/ Seen
  BY <1>3 DEF Visit, Seen
<1>4. CASE Down
  BY <1>4 DEF Down
<1>5. CASE Starting \/ Launching
  BY <1>5 DEF Starting, Launching, vars
<1> QED
  BY <1>1, <1>2, <1>3, <1>4, <1>5 DEF DepNext

\* A request is charged to its sender's bucket.
LEMMA LimitKeepsKeyedOnWhoSent ==
  ASSUME KeyedOnWhoSent, NEW in, NEW host \in Hosts,
         NEW path \in UNION {[1..n -> Proxies] : n \in 0..2},
         NEW form \in {"bare", "unreadable"}, NEW forged \in Forgeries,
         Limit(in, host, path, form, forged)
  PROVE  KeyedOnWhoSent'
<1>1. PICK n \in 0..2 : path \in [1..n -> Proxies]
  OBVIOUS
<1>2. path \in Seq(Proxies)
  BY <1>1
<1>3. client_ip(PeerOf(host, path), Reported(forged, host, path, form)) = Sender(host, path, form)
  BY <1>2, CountedForItsSender
<1> QED
  BY <1>3 DEF Limit, KeyedOnWhoSent

\* Every client pays for its own requests and for no one else's, whatever it writes into
\* X-Forwarded-For and whichever proxies it comes through (common/src/rate_limit.rs:85-131).
THEOREM KeyedOnWhoSentHolds == DepSpec => []KeyedOnWhoSent
<1>1. DepInit => KeyedOnWhoSent
  BY DEF DepInit, Init, LimitsInit, KeyedOnWhoSent
<1>2. KeyedOnWhoSent /\ [DepNext]_depVars => KeyedOnWhoSent'
  <2> SUFFICES ASSUME KeyedOnWhoSent, [DepNext]_depVars PROVE KeyedOnWhoSent'
    OBVIOUS
  <2>1. CASE UNCHANGED limitVars
    BY <2>1 DEF limitVars, KeyedOnWhoSent
  <2>2. CASE spent' = NoneSpent /\ sent' = NoneSpent
    BY <2>2 DEF KeyedOnWhoSent
  <2>3. CASE Replenish
    BY <2>3 DEF Replenish, KeyedOnWhoSent
  <2>4. CASE Arrive
    <3>1. CASE UNCHANGED limitVars
      BY <3>1, <2>1
    <3>2. CASE \E route \in Routes, host \in Hosts, path \in UNION {[1..n -> Proxies] : n \in 0..2},
                  form \in {"bare", "unreadable"}, forged \in Forgeries :
                  Limit(bucket(route), host, path, form, forged)
      BY <3>2, LimitKeepsKeyedOnWhoSent
    <3> QED
      BY <2>4, <3>1, <3>2, Zenon DEF Arrive
  <2> QED
    BY <2>1, <2>2, <2>3, <2>4, WhatIsSpent
<1> QED
  BY <1>1, <1>2, PTL DEF DepSpec
=============================================================================
