------------------------ MODULE OrderedExecutorProofs ------------------------
(***************************************************************************)
(* Execute keeps its promises for every set of events, every plan and      *)
(* every order the plan respects.                                          *)
(*                                                                         *)
(* PhaseBarrier and ReturnsComplete say nothing of where the loop stands,  *)
(* so neither is inductive.  Progress adds it: the phases before the       *)
(* current one are done, the current one is split in running, done and, if *)
(* the errgroup has failed, at least one event that is neither, and no     *)
(* later event has been touched.                                           *)
(***************************************************************************)
EXTENDS OrderedExecutor, TLAPS

\* The events before the current phase are done.
Behind == \A m \in 1 .. phase - 1 : phases[m] \subseteq done

\* Nothing beyond the current phase is started, let alone finished.
NotAhead ==
  /\ \A e \in running : phase > 0 /\ e \in phases[phase]
  /\ \A e \in done : \E m \in 1 .. phase : e \in phases[m]

\* What has become of the events of the current phase.
Current ==
  /\ running \intersect done = {}
  /\ phase > 0 /\ ~failed => phases[phase] \subseteq running \union done
  /\ failed => phase > 0 /\ \E e \in phases[phase] : e \notin running \union done

\* What Execute has returned.
Returned ==
  result # "running" =>
    /\ running = {}
    /\ failed \/ phase = Len(phases)
    /\ result = Outcome

Progress == phases \in Plan /\ TypeOK /\ Behind /\ NotAhead /\ Current /\ Returned

\* The order is a constant of the run.
Ordered == prior \in [Event -> SUBSET Event] /\ Respects(phases, prior)

-----------------------------------------------------------------------------

LEMMA InitProgress == OInit => Progress
<1> SUFFICES ASSUME OInit PROVE Progress
    OBVIOUS
<1>1. phases \in Plan
    BY PlanAssumption DEF OInit, Enter
<1>2. phases \in Seq(SUBSET Event) /\ Len(phases) \in Nat
    BY <1>1 DEF Plan
<1>3. TypeOK
  <2>1. phase = 0 /\ running = {} /\ done = {} /\ ~failed /\ result = "running"
      BY DEF OInit, Enter
  <2>2. failed \in BOOLEAN /\ cancelled \in BOOLEAN
      BY Zenon DEF OInit, Enter
  <2> QED
      BY <1>2, <2>1, <2>2 DEF TypeOK
<1>4. Behind /\ NotAhead /\ Current /\ Returned
    BY DEF OInit, Enter, Behind, NotAhead, Current, Returned
<1> QED
    BY <1>1, <1>3, <1>4 DEF Progress

LEMMA StepProgress == Progress /\ [Next]_xvars => Progress'
<1> SUFFICES ASSUME Progress, [Next]_xvars PROVE Progress'
    OBVIOUS
<1>0. /\ phases \in Plan /\ phases \in Seq(SUBSET Event) /\ Len(phases) \in Nat
      /\ \A m \in 1 .. Len(phases) : phases[m] \in SUBSET Event
    BY DEF Progress, Plan
<1> USE DEF Progress
<1>1. CASE NextPhase
  <2>1. /\ phase \in Nat /\ phase + 1 \in 1 .. Len(phases)
        /\ phase' = phase + 1 /\ running' = phases[phase + 1] /\ running = {}
        /\ ~failed /\ result = "running"
        /\ UNCHANGED <<phases, done, failed, cancelled, result>>
      BY <1>0, <1>1 DEF NextPhase, TypeOK
  <2>2. TypeOK'
      BY <1>0, <2>1 DEF TypeOK
  <2>3. Behind'
    <3> SUFFICES ASSUME NEW m \in 1 .. phase PROVE phases[m] \subseteq done
        BY <2>1 DEF Behind
    <3>1. CASE m = phase
        BY <2>1, <3>1 DEF Current
    <3>2. CASE m # phase
        BY <2>1, <3>2 DEF Behind
    <3> QED
        BY <3>1, <3>2
  <2>4. NotAhead'
    <3>1. \A e \in done : \E m \in 1 .. phase + 1 : e \in phases[m]
        BY <2>1 DEF NotAhead
    <3> QED
        BY <2>1, <3>1 DEF NotAhead
  <2>5. Current'
    <3>1. ASSUME NEW e \in done PROVE e \notin phases[phase + 1]
      <4>1. PICK m \in 1 .. phase : e \in phases[m]
          BY <3>1 DEF NotAhead
      <4>2. m \in DOMAIN phases /\ phase + 1 \in DOMAIN phases /\ m # phase + 1
          BY <1>0, <2>1
      <4> QED
          BY <1>0, <4>1, <4>2 DEF Plan
    <3> QED
        BY <2>1, <3>1 DEF Current
  <2>6. Returned'
      BY <2>1 DEF Returned
  <2> QED
      BY <1>0, <2>1, <2>2, <2>3, <2>4, <2>5, <2>6
<1>2. ASSUME NEW e \in Event, Succeed(e) PROVE Progress'
  <2>1. /\ e \in running /\ running' = running \ {e} /\ done' = done \union {e}
        /\ UNCHANGED <<phases, phase, failed, cancelled, result>>
      BY <1>2 DEF Succeed
  <2>2. TypeOK' /\ Behind'
      BY <2>1 DEF TypeOK, Behind
  <2>3. NotAhead'
    <3>1. phase > 0 /\ e \in phases[phase] /\ phase \in 1 .. phase
        BY <2>1 DEF NotAhead, TypeOK
    <3> QED
        BY <2>1, <3>1 DEF NotAhead
  <2>4. Current'
      BY <2>1 DEF Current
  <2>5. Returned'
      BY <2>1 DEF Returned
  <2> QED
      BY <1>0, <2>1, <2>2, <2>3, <2>4, <2>5
<1>3. ASSUME NEW e \in Event, Fail(e) PROVE Progress'
  <2>1. /\ e \in running /\ running' = running \ {e} /\ failed' = TRUE
        /\ UNCHANGED <<phases, phase, done, cancelled, result>>
      BY <1>3 DEF Fail
  <2>2. TypeOK' /\ Behind' /\ NotAhead'
      BY <2>1 DEF TypeOK, Behind, NotAhead
  <2>3. Current'
    <3>1. phase > 0 /\ e \in phases[phase] /\ e \notin done
        BY <2>1 DEF NotAhead, Current
    <3> QED
        BY <2>1, <3>1 DEF Current
  <2>4. Returned'
      BY <2>1 DEF Returned
  <2> QED
      BY <1>0, <2>1, <2>2, <2>3, <2>4
<1>4. CASE Return
    BY <1>0, <1>4 DEF Return, Over, Outcome, TypeOK, Behind, NotAhead, Current, Returned
<1>5. CASE Cancel
    BY <1>0, <1>5 DEF Cancel, Outcome, TypeOK, Behind, NotAhead, Current, Returned
<1>6. CASE UNCHANGED xvars
    BY <1>0, <1>6 DEF xvars, Outcome, TypeOK, Behind, NotAhead, Current, Returned
<1> QED
    BY <1>1, <1>2, <1>3, <1>4, <1>5, <1>6 DEF Next

LEMMA ProgressAlways == OSpec => []Progress
<1>1. [ONext]_ovars => [Next]_xvars
    BY DEF ONext, ovars, xvars
<1> QED
    BY <1>1, InitProgress, StepProgress, PTL DEF OSpec

-----------------------------------------------------------------------------

(* The executor's variables keep their types, for any plans: the loop      *)
(* index never leaves the plan (executor.go:16).                           *)
THEOREM ExecutorTypeOK == OSpec => []TypeOK
<1>1. Progress => TypeOK
    BY DEF Progress
<1> QED
    BY <1>1, ProgressAlways, PTL

(* No event of a phase is started before every earlier phase succeeded     *)
(* (executor.go:16-46): g.Wait() is a barrier, and an error ends the loop. *)
THEOREM ExecutorPhaseBarrier == OSpec => []PhaseBarrier
<1>1. Progress => PhaseBarrier
  <2> SUFFICES ASSUME Progress,
                      NEW n \in DOMAIN phases,
                      phases[n] \intersect (running \union done) # {},
                      NEW m \in 1 .. n - 1
               PROVE  phases[m] \subseteq done
      BY DEF PhaseBarrier, UpTo
  <2>1. phases \in Plan /\ phase \in 0 .. Len(phases) /\ Len(phases) \in Nat
        /\ DOMAIN phases = 1 .. Len(phases)
      BY DEF Progress, TypeOK
  <2>2. PICK e \in phases[n] : e \in running \union done
      OBVIOUS
  <2>3. PICK k \in 1 .. phase : e \in phases[k]
      BY <2>1, <2>2 DEF Progress, NotAhead
  <2>4. k = n
      BY <2>1, <2>2, <2>3 DEF Plan
  <2>5. m \in 1 .. phase - 1
      BY <2>1, <2>3, <2>4
  <2> QED
      BY <2>5 DEF Progress, Behind
<1> QED
    BY <1>1, ProgressAlways, PTL

(* Execute returns nil exactly when the whole plan succeeded, and never    *)
(* leaves a goroutine running (executor.go:42-48).                         *)
THEOREM ExecutorReturnsComplete == OSpec => []ReturnsComplete
<1>1. Progress => ReturnsComplete
  <2> SUFFICES ASSUME Progress, result # "running" PROVE ReturnsComplete
      BY DEF ReturnsComplete
  <2>1. /\ phases \in Plan /\ phase \in 0 .. Len(phases) /\ Len(phases) \in Nat
        /\ DOMAIN phases = 1 .. Len(phases)
      BY DEF Progress, TypeOK
  <2>2. running = {} /\ (failed \/ phase = Len(phases)) /\ result = Outcome
      BY DEF Progress, Returned
  <2>3. CASE failed
    <3>1. PICK e \in phases[phase] : phase > 0 /\ e \notin done
        BY <2>3 DEF Progress, Current
    <3>2. phase \in DOMAIN phases
        BY <2>1, <3>1
    <3>3. ~(UNION {phases[n] : n \in DOMAIN phases} \subseteq done)
        BY <3>1, <3>2
    <3> QED
        BY <2>2, <2>3, <3>3 DEF Outcome, ReturnsComplete
  <2>4. CASE ~failed
    <3>0. phase = Len(phases)
        BY <2>2, <2>4
    <3>1. ASSUME NEW n \in DOMAIN phases PROVE phases[n] \subseteq done
      <4>1. n \in 1 .. Len(phases)
          BY <2>1
      <4>2. CASE n = phase
          BY <2>1, <2>2, <2>4, <4>1, <4>2 DEF Progress, Current
      <4>3. CASE n # phase
        <5>1. n \in 1 .. phase - 1
            BY <2>1, <3>0, <4>1, <4>3
        <5> QED
            BY <5>1 DEF Progress, Behind
      <4> QED
          BY <4>2, <4>3
    <3> QED
        BY <2>2, <2>4, <3>1 DEF Outcome, ReturnsComplete
  <2> QED
      BY <2>3, <2>4
<1> QED
    BY <1>1, ProgressAlways, PTL

-----------------------------------------------------------------------------

LEMMA OrderedAlways == OSpec => []Ordered
<1>1. OInit => Ordered
    BY PriorAssumption DEF OInit, Ordered
<1>2. Ordered /\ [ONext]_ovars => Ordered'
  <2> SUFFICES ASSUME Ordered, [ONext]_ovars PROVE Ordered'
      OBVIOUS
  <2>1. UNCHANGED <<prior, phases>>
      BY DEF ONext, ovars, xvars, Next, NextPhase, Succeed, Fail, Return, Cancel
  <2> QED
      BY <2>1 DEF Ordered, Respects
<1> QED
    BY <1>1, <1>2, PTL DEF OSpec

\* What phase n + 1 waits for has succeeded when it starts.
LEMMA PriorDone ==
  ASSUME Progress, Ordered, NextPhase
  PROVE  \A e \in phases[phase + 1] : prior[e] \subseteq done
<1>1. /\ phase \in Nat /\ Len(phases) \in Nat /\ phase < Len(phases)
      /\ DOMAIN phases = 1 .. Len(phases) /\ ~failed /\ running = {}
    BY DEF Progress, TypeOK, NextPhase
<1>2. phase + 1 \in DOMAIN phases
    BY <1>1
<1>3. ASSUME NEW e \in phases[phase + 1], NEW d \in prior[e] PROVE d \in done
  <2>1. d \in UNION {phases[m] : m \in 1 .. (phase + 1) - 1}
      BY <1>2 DEF Ordered, Respects
  <2>2. PICK m \in 1 .. phase : d \in phases[m]
      BY <1>1, <2>1
  <2>3. CASE m = phase
      BY <1>1, <2>2, <2>3 DEF Progress, Current
  <2>4. CASE m # phase
    <3>1. m \in 1 .. phase - 1
        BY <1>1, <2>2, <2>4
    <3> QED
        BY <2>2, <3>1 DEF Progress, Behind
  <2> QED
      BY <2>3, <2>4
<1> QED
    BY <1>3

(* Whatever the interleaving, the errors and the cancellations, the phases *)
(* keep the order of the dependencies (plan.go:6-7): a phase starting is a *)
(* Start of the abstract specification, a call returning is its Succeed or *)
(* Fail, Execute returning is its Return, and a cancellation is invisible. *)
THEOREM ExecutorImplementsDependencyOrder == OSpec => ImplementsDependencyOrder
<1>1. OInit => Abstract!Init
  <2> SUFFICES ASSUME OInit PROVE Abstract!Init
      OBVIOUS
  <2>1. phases \in Plan /\ prior \in [Event -> SUBSET Event]
      BY PlanAssumption, PriorAssumption DEF OInit, Enter
  <2>2. UNION {phases[n] : n \in DOMAIN phases} \in SUBSET Event
      BY <2>1 DEF Plan
  <2> QED
      BY <2>1, <2>2 DEF OInit, Enter, Abstract!Init
<1>2. Progress /\ Ordered /\ [ONext]_ovars => [Abstract!Next]_(Abstract!dvars)
  <2> SUFFICES ASSUME Progress, Ordered, [ONext]_ovars
               PROVE  Abstract!Next \/ UNCHANGED Abstract!dvars
      OBVIOUS
  <2>1. ASSUME NextPhase, UNCHANGED prior PROVE Abstract!Start
    <3> DEFINE todo == UNION {phases[n] : n \in DOMAIN phases}
               S == phases[phase + 1]
    <3>1. /\ phase \in Nat /\ Len(phases) \in Nat /\ phase < Len(phases)
          /\ DOMAIN phases = 1 .. Len(phases) /\ phases \in Plan
          /\ result = "running" /\ running = {} /\ ~failed /\ running' = S
          /\ UNCHANGED <<phases, done, failed, result>>
        BY <2>1 DEF Progress, TypeOK, NextPhase
    <3>2. phase + 1 \in DOMAIN phases /\ S \subseteq todo
        BY <3>1
    <3>3. S \intersect done = {}
      <4> SUFFICES ASSUME NEW e \in S, e \in done PROVE FALSE
          OBVIOUS
      <4>1. PICK m \in 1 .. phase : e \in phases[m]
          BY DEF Progress, NotAhead
      <4>2. m \in DOMAIN phases /\ m # phase + 1
          BY <3>1
      <4> QED
          BY <3>1, <3>2, <4>1, <4>2 DEF Plan
    <3>4. S \in SUBSET (todo \ (running \union done)) /\ running' = running \union S
        BY <3>1, <3>2, <3>3
    <3>5. \A e \in S : prior[e] \subseteq done
        BY <2>1, PriorDone
    <3>6. todo' = todo
        BY <3>1
    <3> QED
        BY <2>1, <3>1, <3>4, <3>5, <3>6 DEF Abstract!Start
  <2>2. ASSUME NEW e \in Event, Succeed(e), UNCHANGED prior
        PROVE  Abstract!Succeed(e)
      BY <2>2 DEF Succeed, Abstract!Succeed
  <2>3. ASSUME NEW e \in Event, Fail(e), UNCHANGED prior PROVE Abstract!Fail(e)
      BY <2>3 DEF Fail, Abstract!Fail
  <2>4. ASSUME Return, UNCHANGED prior PROVE Abstract!Return
    <3> DEFINE todo == UNION {phases[n] : n \in DOMAIN phases}
    <3>1. /\ Over /\ result' = Outcome /\ todo' = todo
          /\ UNCHANGED <<prior, phases, running, done, failed>>
        BY <2>4 DEF Return
    <3>2. CASE failed
        BY <3>1, <3>2 DEF Over, Outcome, Abstract!Return
    <3>3. CASE ~failed
      <4>1. /\ phase = Len(phases) /\ running = {} /\ Len(phases) \in Nat
            /\ DOMAIN phases = 1 .. Len(phases)
          BY <3>1, <3>3 DEF Over, Progress, TypeOK
      <4>2. ASSUME NEW n \in DOMAIN phases PROVE phases[n] \subseteq done
        <5>1. CASE n = phase
            BY <3>3, <4>1, <5>1 DEF Progress, Current
        <5>2. CASE n # phase
          <6>1. n \in 1 .. phase - 1
              BY <4>1, <5>2
          <6> QED
              BY <6>1 DEF Progress, Behind
        <5> QED
            BY <5>1, <5>2
      <4>3. todo \subseteq done
          BY <4>2
      <4> QED
          BY <3>1, <3>3, <4>1, <4>3 DEF Over, Outcome, Abstract!Return
    <3> QED
        BY <3>2, <3>3
  <2>5. ASSUME Cancel, UNCHANGED prior PROVE UNCHANGED Abstract!dvars
      BY <2>5 DEF Cancel, Abstract!dvars
  <2>6. ASSUME UNCHANGED ovars PROVE UNCHANGED Abstract!dvars
      BY <2>6 DEF ovars, xvars, Abstract!dvars
  <2> QED
      BY <2>1, <2>2, <2>3, <2>4, <2>5, <2>6 DEF ONext, Next, Abstract!Next
<1> QED
    BY <1>1, <1>2, ProgressAlways, OrderedAlways, PTL
    DEF OSpec, ImplementsDependencyOrder, Abstract!Spec
=============================================================================
