---------------------------- MODULE RefreshMutex ----------------------------
(***************************************************************************)
(* What bff's RefreshLocks promises the proxy: one turn per session.  A    *)
(* task that wants to refresh a session waits until no other task has that *)
(* session's turn; it may give up while it waits; it gives the turn back   *)
(* exactly once.  Nothing is said about lock objects, maps or reference    *)
(* counts: RefreshLocks is shown to implement this module.                 *)
(***************************************************************************)
CONSTANTS Tasks,     \* the requests being served
          Sessions,  \* the session ids they refresh
          NoSession  \* the session of a task that asks for nothing

VARIABLES phase,     \* "none", "wants" the turn, or "has" it
          session    \* the session whose turn the task wants or has

mutexVars == <<phase, session>>

Init ==
  /\ phase = [t \in Tasks |-> "none"]
  /\ session = [t \in Tasks |-> NoSession]

Want(t, s) ==
  /\ phase[t] = "none"
  /\ phase' = [phase EXCEPT ![t] = "wants"]
  /\ session' = [session EXCEPT ![t] = s]

\* The whole promise: a turn is taken only when nobody else has it.
Take(t) ==
  /\ phase[t] = "wants"
  /\ \A u \in Tasks : phase[u] = "has" => session[u] # session[t]
  /\ phase' = [phase EXCEPT ![t] = "has"]
  /\ UNCHANGED session

GiveUp(t) ==
  /\ phase[t] = "wants"
  /\ phase' = [phase EXCEPT ![t] = "none"]
  /\ session' = [session EXCEPT ![t] = NoSession]

Release(t) ==
  /\ phase[t] = "has"
  /\ phase' = [phase EXCEPT ![t] = "none"]
  /\ session' = [session EXCEPT ![t] = NoSession]

Next ==
  \E t \in Tasks :
    \/ \E s \in Sessions : Want(t, s)
    \/ Take(t)
    \/ GiveUp(t)
    \/ Release(t)

Spec == Init /\ [][Next]_mutexVars
=============================================================================
