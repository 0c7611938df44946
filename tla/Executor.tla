------------------------------- MODULE Executor -------------------------------
(***************************************************************************)
(* Execute of internal/resource/executor.go: the phases of a plan one      *)
(* after the other, the events of a phase in parallel under an errgroup.   *)
(*                                                                         *)
(* An event is a call of Create, Update or Delete on a resource.  Here it  *)
(* only returns, with or without an error; Mesh.tla composes these actions *)
(* with what the calls do to the databases.  The first error of a phase    *)
(* cancels the context of its other events (errgroup.WithContext), and     *)
(* SIGTERM or INIT_SPOCK_TIMEOUT cancels the context of all (main.go).     *)
(* Cancellation only asks: a call whose statement has been sent may still  *)
(* succeed, and Execute waits for every call either way.                   *)
(***************************************************************************)
EXTENDS Naturals, Sequences

CONSTANT Event

VARIABLES
  phases,     (* The argument, constant: a sequence of sets of events.     *)
  phase,      (* The loop index, 0 before the first phase.                 *)
  running,    (* Goroutines of the current phase that have not returned.   *)
  done,       (* Events that returned nil.                                 *)
  failed,     (* The errgroup has recorded an error.                       *)
  cancelled,  (* The parent context is cancelled.                          *)
  result      (* "running", then what Execute returned: "ok" or "error".   *)

xvars == <<phases, phase, running, done, failed, cancelled, result>>

\* Execute is entered with this plan; the caller says whether its context
\* is still alive.
Enter(plan) ==
  /\ phases = plan
  /\ phase = 0
  /\ running = {} /\ done = {}
  /\ failed = FALSE
  /\ result = "running"

\* Mutation: the loop index advances twice.
NextPhase_SkipsOne ==
  /\ result = "running"
  /\ running = {} /\ ~failed
  /\ phase < Len(phases)
  /\ phase' = phase + 2
  /\ running' = phases[phase + 1]
  /\ UNCHANGED <<phases, done, failed, cancelled, result>>

\* Mutation: the error of g.Wait() is ignored.
NextPhase_IgnoresError ==
  /\ result = "running"
  /\ running = {}
  /\ phase < Len(phases)
  /\ phase' = phase + 1
  /\ running' = phases[phase + 1]
  /\ UNCHANGED <<phases, done, failed, cancelled, result>>

\* Mutation: no g.Wait() between the phases.
NextPhase_NoBarrier ==
  /\ result = "running" /\ ~failed
  /\ phase < Len(phases)
  /\ phase' = phase + 1
  /\ running' = running \union phases[phase + 1]
  /\ UNCHANGED <<phases, done, failed, cancelled, result>>

\* g.Wait() returned nil, or this is the first iteration: spawn one
\* goroutine per event.  A cancelled parent does not stop the loop.
NextPhase ==
  /\ result = "running"
  /\ running = {} /\ ~failed
  /\ phase < Len(phases)
  /\ phase' = phase + 1
  /\ running' = phases[phase + 1]
  /\ UNCHANGED <<phases, done, failed, cancelled, result>>

\* The call returns nil.
Succeed(e) ==
  /\ e \in running
  /\ running' = running \ {e}
  /\ done' = done \union {e}
  /\ UNCHANGED <<phases, phase, failed, cancelled, result>>

\* The call returns an error, of its own or of its cancelled context.
Fail(e) ==
  /\ e \in running
  /\ running' = running \ {e}
  /\ failed' = TRUE
  /\ UNCHANGED <<phases, phase, done, cancelled, result>>

\* Mutation: calls run under a context nobody cancels from outside.
Asked_GroupOnly == failed

\* The context of the current phase's events is cancelled.
Asked == failed \/ cancelled

\* Mutation: Execute returns on the first error, without waiting.
Over_Eager ==
  result = "running" /\ (failed \/ (running = {} /\ phase = Len(phases)))

\* Nothing is left to wait for: the loop has ended, or g.Wait() returned an
\* error and the later phases are given up.
Over == result = "running" /\ running = {} /\ (failed \/ phase = Len(phases))
Outcome == IF failed THEN "error" ELSE "ok"

Return ==
  /\ Over
  /\ result' = Outcome
  /\ UNCHANGED <<phases, phase, running, done, failed, cancelled>>

\* The timeout of main.go, or SIGTERM.
Cancel ==
  /\ result = "running"
  /\ ~cancelled
  /\ cancelled' = TRUE
  /\ UNCHANGED <<phases, phase, running, done, failed, result>>

Next ==
  \/ NextPhase
  \/ \E e \in Event : Succeed(e) \/ Fail(e)
  \/ Return
  \/ Cancel

-----------------------------------------------------------------------------

\* A plan: phases without a common event.
Plan ==
  {p \in Seq(SUBSET Event) :
     \A n \in DOMAIN p, m \in DOMAIN p : m # n => p[m] \intersect p[n] = {}}

\* The events of the first n phases.
UpTo(n) == UNION {phases[m] : m \in 1 .. n}

TypeOK ==
  /\ phases \in Seq(SUBSET Event)
  /\ phase \in 0 .. Len(phases)
  /\ running \subseteq Event
  /\ done \subseteq Event
  /\ failed \in BOOLEAN
  /\ cancelled \in BOOLEAN
  /\ result \in {"running", "ok", "error"}

(* No event starts, and none has finished, before every event of every     *)
(* earlier phase returned without an error: one failed event keeps all     *)
(* later phases from starting.                                             *)
PhaseBarrier ==
  \A n \in DOMAIN phases :
    phases[n] \intersect (running \union done) # {} => UpTo(n - 1) \subseteq done

(* Execute returns nil only when every event of the plan succeeded, and it *)
(* leaves no goroutine behind, whatever it returns.                        *)
ReturnsComplete ==
  result # "running" =>
    /\ running = {}
    /\ result = "ok" <=> UNION {phases[n] : n \in DOMAIN phases} \subseteq done
=============================================================================
