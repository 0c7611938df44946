---------------------------- MODULE OrderedExecutor ----------------------------
(***************************************************************************)
(* Execute run on a plan that respects the dependencies of its events, as  *)
(* a closed system.  The plans are those topoSort makes of a graph without *)
(* cycles (TopoSort!OrderRespected); the order they were made from is kept *)
(* in prior, which no step reads, and says what the run has to respect.    *)
(***************************************************************************)
EXTENDS Executor

CONSTANTS
  Plans,    (* The plans to run.                                           *)
  Priors    (* The orders to consider, functions from an event to the      *)
            (* events it must follow.                                      *)

ASSUME PlanAssumption == Plans \subseteq Plan
ASSUME PriorAssumption == Priors \subseteq [Event -> SUBSET Event]

VARIABLE prior

ovars == <<prior, xvars>>

\* What an event of phase n must follow is in an earlier phase.
Respects(plan, order) ==
  \A n \in DOMAIN plan : \A e \in plan[n] :
    order[e] \subseteq UNION {plan[m] : m \in 1 .. n - 1}

OInit ==
  /\ \E p \in Plans : Enter(p)
  /\ prior \in Priors
  /\ Respects(phases, prior)
  /\ cancelled \in BOOLEAN

ONext == Next /\ UNCHANGED prior

(***************************************************************************)
(* The loop is sequential code, and the context is cancelled sooner or     *)
(* later if Execute has not returned: INIT_SPOCK_TIMEOUT.  An event need   *)
(* not return by itself (WaitForSyncEvent polls for as long as its context *)
(* lives), but each one returns once its context is cancelled: every       *)
(* statement and every sleep of a resource takes the context.              *)
(***************************************************************************)
Fairness ==
  /\ WF_ovars((NextPhase \/ Return) /\ UNCHANGED prior)
  /\ WF_ovars(Cancel /\ UNCHANGED prior)
  /\ \A e \in Event : WF_ovars(Asked /\ (Succeed(e) \/ Fail(e)) /\ UNCHANGED prior)

OSpec == OInit /\ [][ONext]_ovars /\ Fairness

-----------------------------------------------------------------------------

Abstract == INSTANCE DependencyOrder
              WITH todo <- UNION {phases[n] : n \in DOMAIN phases}

(* Running the phases one after the other implements the order of the      *)
(* dependencies: whatever the interleaving of the goroutines, errors and   *)
(* cancellations, no operation overtakes one it depends on, none starts    *)
(* after a failure has been reported, and success means all of them.       *)
ImplementsDependencyOrder == Abstract!Spec

(* Execute returns, even when an event waits for something that never      *)
(* happens.                                                                *)
AlwaysReturns == <>(result # "running")
=============================================================================
