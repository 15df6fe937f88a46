------------------------------ MODULE Launcher ------------------------------
(***************************************************************************)
(* The container's entrypoint (launcher/src/main.rs): it starts the three  *)
(* services, looks at them in turn, and when one is down stops the others  *)
(* and exits, for the orchestrator to restart all of it.  A service loads  *)
(* its settings, binds its ports and serves (app_start of hooks and bff,   *)
(* login's serve), and may end at any time.                                *)
(***************************************************************************)
EXTENDS Settings

CONSTANTS Deployments       \* name -> deployment

(* What the types of the YAML and the variables say of the settings whose  *)
(* insides the checks look at.                                             *)
ASSUME DeploymentsAssumption ==
    \A n \in DOMAIN Deployments :
       LET bff == bffConfig(Deployments[n])
           login == loginConfig(Deployments[n])
       IN  /\ bff.session_cookie_name \in [prefixes : Seq(STRING), rest : STRING]
           /\ \A net \in bff.trusted_proxies \cup login.trusted_proxies :
                 net = Net(net.family, net.prefix_len) /\ net.prefix_len \in Nat

VARIABLES deployed,     \* the deployment's name
          proc,         \* of each service: not there, starting, serving, or ended
          status,       \* of each service that ended: its exit code, or Killed
          launcher      \* what the launcher does, at which service

launchVars == <<deployed, proc, status, launcher>>

Killed == 256     \* by a signal: there is no code
SERVICES == <<"hooks", "bff", "login">>
Services == {SERVICES[i] : i \in DOMAIN SERVICES}

d == Deployments[deployed]
load(service) ==
    CASE service = "hooks" -> hooks_load(d)
      [] service = "bff" -> bff_load(d)
      [] OTHER -> login_load(d)
ports(service) ==
    CASE service = "hooks" -> {hooksConfig(d).port}
      [] service = "bff" -> {bffConfig(d).port, bffConfig(d).internal_port}
      [] OTHER -> {loginConfig(d).port}

LaunchInit ==
    /\ deployed \in DOMAIN Deployments
    /\ proc = [s \in Services |-> "none"]
    /\ status = [s \in Services |-> 0]
    /\ launcher = [does |-> "start", at |-> 1, started |-> 0, code |-> 0]

AllServe == \A s \in Services : proc[s] = "serving"

-----------------------------------------------------------------------------
(* The services                                                            *)

Ends(s, code) ==
    /\ proc' = [proc EXCEPT ![s] = "ended"]
    /\ status' = [status EXCEPT ![s] = code]

(* Settings it does not accept, or a port that is taken, end it: code 1.   *)
Starts(s) ==
    LET taken == UNION {ports(t) : t \in {t \in Services : proc[t] = "serving"}}
    IN  /\ proc[s] = "starting"
        /\ IF load(s) /\ ports(s) \cap taken = {}
           THEN proc' = [proc EXCEPT ![s] = "serving"] /\ UNCHANGED status
           ELSE Ends(s, 1)
        /\ UNCHANGED <<deployed, launcher>>

(* It returns, panics, or is killed from outside.                          *)
Crashes(s) ==
    /\ proc[s] \in {"starting", "serving"}
    /\ \E code \in {0, 101, Killed} : Ends(s, code)
    /\ UNCHANGED <<deployed, launcher>>

-----------------------------------------------------------------------------
(* The launcher                                                            *)

stop(code) == launcher' = [launcher EXCEPT !.does = "stop", !.at = 1, !.code = code]

Spawn ==
    /\ launcher.does = "start"
    /\ \/ /\ proc' = [proc EXCEPT ![SERVICES[launcher.at]] = "starting"]
          /\ launcher' = IF launcher.at = Len(SERVICES)
                         THEN [launcher EXCEPT !.does = "look", !.at = 1, !.started = launcher.at]
                         ELSE [launcher EXCEPT !.at = @ + 1, !.started = launcher.at]
       \/ stop(1) /\ UNCHANGED proc         \* it cannot be started
    /\ UNCHANGED <<deployed, status>>

(* Mutant: the service's own code is passed on.                            *)
exit_code_of(s) == status[s]

(* A code is a byte; a service's end is a failure whatever it says.        *)
exit_code(s) == IF status[s] \in {0, Killed} THEN 1 ELSE status[s]

(* Mutant: a service that ended well is not missed.                        *)
LookForFailures ==
    /\ launcher.does = "look"
    /\ LET s == SERVICES[launcher.at]
       IN  \/ /\ proc[s] # "ended" \/ status[s] = 0
              /\ launcher' = [launcher EXCEPT !.at = 1 + (@ % Len(SERVICES))]
           \/ proc[s] = "ended" /\ status[s] # 0 /\ stop(exit_code(s))
           \/ stop(1)
    /\ UNCHANGED <<deployed, proc, status>>

(* One service after the other, for ever; try_wait may fail.               *)
Look ==
    /\ launcher.does = "look"
    /\ LET s == SERVICES[launcher.at]
       IN  \/ /\ proc[s] # "ended"
              /\ launcher' = [launcher EXCEPT !.at = 1 + (@ % Len(SERVICES))]
           \/ proc[s] = "ended" /\ stop(exit_code(s))
           \/ stop(1)
    /\ UNCHANGED <<deployed, proc, status>>

(* Each one is killed and waited for, those that ended before included.    *)
Kill ==
    /\ launcher.does = "stop"
    /\ IF launcher.at <= launcher.started
       THEN /\ proc' = [proc EXCEPT ![SERVICES[launcher.at]] = "none"]
            /\ launcher' = [launcher EXCEPT !.at = @ + 1]
       ELSE /\ launcher' = [launcher EXCEPT !.does = "exited"]
            /\ UNCHANGED proc
    /\ UNCHANGED <<deployed, status>>

LauncherSteps == Spawn \/ Look \/ Kill

-----------------------------------------------------------------------------
(* Properties                                                              *)

(* All three serve only with settings the rest of the system may take for  *)
(* granted (the checks of the three `load`s, and the ports they bind).     *)
ServingIsSound == AllServe => Sound(d)

(* When the container's process exits it says so with a code the           *)
(* orchestrator takes for a failure, and leaves no service behind          *)
(* (main.rs:27-29, 52-58).                                                 *)
NoneOutlivesTheLauncher ==
    /\ launcher.does \in {"stop", "exited"} => launcher.code \in 1..255
    /\ launcher.does = "exited" => \A s \in Services : proc[s] = "none"

(* One service down means all of it goes down, whenever it went down       *)
(* (main.rs:27-48).                                                        *)
OneDownAllDown == (\E s \in Services : proc[s] = "ended") ~> (launcher.does = "exited")
=============================================================================
