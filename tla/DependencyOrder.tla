---------------------------- MODULE DependencyOrder ----------------------------
(***************************************************************************)
(* What the reconciler promises of the order of its operations             *)
(* (plan.go:6-7), with no word about phases: an operation starts when all  *)
(* those it must follow have succeeded, nothing starts after a failure,    *)
(* and the run returns when nothing is in flight.                          *)
(***************************************************************************)
EXTENDS FiniteSets

CONSTANT Event

VARIABLES
  todo,      (* The events of this run, constant.                          *)
  prior,     (* What each event must follow, constant.                     *)
  running,   (* Started and not returned.                                  *)
  done,      (* Returned without an error.                                 *)
  failed,    (* Some event returned an error.                              *)
  result     (* "running", then "ok" or "error".                           *)

dvars == <<todo, prior, running, done, failed, result>>

Init ==
  /\ todo \in SUBSET Event
  /\ prior \in [Event -> SUBSET Event]
  /\ running = {} /\ done = {}
  /\ failed = FALSE
  /\ result = "running"

\* Several events may start at once.
Start ==
  /\ result = "running" /\ ~failed
  /\ \E S \in SUBSET (todo \ (running \union done)) :
       /\ \A e \in S : prior[e] \subseteq done
       /\ running' = running \union S
  /\ UNCHANGED <<todo, prior, done, failed, result>>

Succeed(e) ==
  /\ e \in running
  /\ running' = running \ {e}
  /\ done' = done \union {e}
  /\ UNCHANGED <<todo, prior, failed, result>>

Fail(e) ==
  /\ e \in running
  /\ running' = running \ {e}
  /\ failed' = TRUE
  /\ UNCHANGED <<todo, prior, done, result>>

Return ==
  /\ result = "running" /\ running = {}
  /\ \/ failed /\ result' = "error"
     \/ ~failed /\ todo \subseteq done /\ result' = "ok"
  /\ UNCHANGED <<todo, prior, running, done, failed>>

Next ==
  \/ Start
  \/ \E e \in Event : Succeed(e) \/ Fail(e)
  \/ Return

Spec == Init /\ [][Next]_dvars
=============================================================================
