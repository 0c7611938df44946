---------------------------- MODULE PopulateProofs ----------------------------
(***************************************************************************)
(* Adding a node loses no commit and sends none twice, for any number of   *)
(* peers, commits, faults and repeated runs.                               *)
(*                                                                         *)
(* PopulateInv follows a commit of a peer.  What the new node misses below *)
(* an advanced slot or origin is at first covered by the event of the run  *)
(* (the copy waits for it), then by what the source has replayed (the copy *)
(* brings it), then by nothing.  On top of it, FirstInv follows the run    *)
(* that adds the node, where slot and origin also meet the copy exactly.   *)
(***************************************************************************)
EXTENDS Populate, MeshProofs

\* The run that adds the node, before anybody repeats it.
First == New \in NewNodes(cfg) /\ retries = 0

Statement == {"target", "active", "compare", "advance"}

\* What EXCEPT needs; Bounded says the rest.
Positioned ==
  /\ end \in [Peer -> Int] /\ replayed \in [Peer -> Int]
  /\ restart \in [Peer -> Int] /\ flushed \in [Peer -> Int] /\ stream \in [Peer -> Int]
  /\ origin \in [Peer -> Int] /\ rows \in [Peer -> SUBSET Int] /\ progress \in [Peer -> Int]
  /\ event \in [Peer -> Int] /\ stamp \in [Peer -> Int] /\ moved \in [Peer -> Int]
  /\ step \in [Peer -> Statement]

\* No position is behind the end of the WAL.
Bounded(p) ==
  /\ 0 <= replayed[p] /\ replayed[p] <= end[p]
  /\ 0 <= restart[p] /\ restart[p] <= flushed[p] /\ flushed[p] <= end[p]
  /\ 0 <= origin[p] /\ origin[p] <= end[p]
  /\ \A x \in {stream[p], progress[p], event[p], stamp[p], moved[p]} : None <= x /\ x <= end[p]
  /\ rows[p] \subseteq UpTo(end[p])

\* The node is added once, from Source.
Membership ==
  /\ cfg.nodes \in {InitialNodes, InitialNodes \union {New}}
  /\ \A n \in NewNodes(cfg) : n = New /\ cfg.source[n] = Source

\* Until the run that adds the node has planned, nothing is on it.
Untouched ==
  New \notin cfg.nodes \/ (First /\ started) =>
    /\ New \notin user /\ New \notin seeded
    /\ \A p \in Peer :
         /\ origin[p] = 0 /\ rows[p] = {} /\ restart[p] = flushed[p]
         /\ progress[p] = None /\ event[p] = None /\ stamp[p] = None /\ moved[p] = None

\* Slots of the node are orphans until it is added, and no plan drops them
\* afterwards.
SlotsSpared ==
  New \in cfg.nodes =>
    \A m \in DOMAIN phases, p \in Peer : <<"delete", Slot(p, New)>> \notin phases[m]

\* What would miss commits without the slot.
Relies(p) ==
  \/ event[p] # None \/ <<"create", SlotCreate(p, New)>> \in done
  \/ sub[<<p, New>>] = "replicating" \/ sub[<<Source, New>>] = "copying" \/ New \in seeded

Held(p) == Relies(p) => SlotExists(p, New)

\* An active slot has sent what the new node has, and no more.
Streams(p) ==
  /\ sub[<<p, New>>] # "copying"
  /\ Active(p) => sub[<<p, New>>] = "replicating" /\ stream[p] = Larger(origin[p], flushed[p])

Waited(p) == <<"create", PeerCatchup(p, Source)>> \in done => CaughtUp(p)

\* The new node has the peer's commits up to x, but for some up to b.
Has(p, x, b) == \A c \in UpTo(x) : c \in rows[p] \/ c <= b

\* So it is with each position a slot or an origin is ever set to.
Filled(p, b) ==
  /\ Has(p, flushed[p], b) /\ Has(p, origin[p], b)
  /\ Has(p, progress[p], b) /\ Has(p, stamp[p], b) /\ Has(p, moved[p], b)

\* What is missing comes with the copy: up to the event of this run, then up
\* to what the source has replayed, then nothing.
Covered(p) ==
  /\ event[p] # None => Filled(p, event[p])
  /\ sub[<<Source, New>>] = "copying" => Filled(p, replayed[p])
  /\ New \in seeded => Filled(p, 0)

PopulateInv ==
  /\ MeshInv /\ Positioned /\ retries \in 0 .. MaxRetries
  /\ Membership /\ Untouched /\ SlotsSpared
  /\ \A p \in Peer : Bounded(p) /\ Held(p) /\ Streams(p) /\ Waited(p) /\ Covered(p)

-----------------------------------------------------------------------------
(* The steps.                                                              *)

\* What one step changes for one peer.
Wal(p)    == <<end[p], replayed[p]>>
SlotAt(p) == <<restart[p], flushed[p], stream[p]>>
OnNew(p)  == <<origin[p], rows[p], progress[p]>>
Memory(p) == <<event[p], stamp[p], moved[p]>>

Rests(p) == UNCHANGED <<Wal(p), SlotAt(p), OnNew(p), Memory(p)>>

Writes(p) ==
  /\ end'[p] = end[p] + 1 /\ event'[p] \in {event[p], end[p] + 1}
  /\ UNCHANGED <<replayed[p], SlotAt(p), OnNew(p), stamp[p], moved[p]>>

Replays(p) ==
  /\ replayed[p] < end[p] /\ replayed'[p] = replayed[p] + 1
  /\ UNCHANGED <<end[p], SlotAt(p), OnNew(p), Memory(p)>>

GetsSlot(p) ==
  /\ ~SlotExists(p, New) /\ restart'[p] = end[p] /\ flushed'[p] = end[p]
  /\ UNCHANGED <<Wal(p), stream[p], OnNew(p), Memory(p)>>

Stamps(p) ==
  /\ stamp'[p] \in {None, progress[p]}
  /\ UNCHANGED <<Wal(p), SlotAt(p), OnNew(p), event[p], moved[p]>>

Forgets(p) ==
  /\ event'[p] = None /\ moved'[p] = None
  /\ UNCHANGED <<Wal(p), SlotAt(p), OnNew(p), stamp[p]>>

Advances(p) ==
  /\ moved'[p] = stamp[p]
  /\ flushed'[p] = Larger(flushed[p], stamp[p]) /\ restart'[p] \in {restart[p], flushed'[p]}
  /\ Active(p) => UNCHANGED SlotAt(p)
  /\ UNCHANGED <<Wal(p), stream[p], OnNew(p), event[p], stamp[p]>>

Skips(p) ==
  /\ SkipsAdvance(p) /\ moved'[p] = None
  /\ UNCHANGED <<Wal(p), SlotAt(p), OnNew(p), event[p], stamp[p]>>

Follows(p) ==
  /\ moved[p] # None /\ ~Active(p) /\ origin'[p] = moved[p]
  /\ UNCHANGED <<Wal(p), SlotAt(p), rows[p], progress[p], Memory(p)>>

Ends(p) ==
  /\ stream'[p] = None /\ origin'[p] \in {origin[p], 0}
  /\ UNCHANGED <<Wal(p), restart[p], flushed[p], rows[p], progress[p], Memory(p)>>

Fills(p) ==
  /\ rows'[p] = rows[p] \union UpTo(replayed[p])
  /\ progress'[p] \in {progress[p], Larger(progress[p], replayed[p])}
  /\ UNCHANGED <<Wal(p), SlotAt(p), origin[p], Memory(p)>>

Attaches(p) ==
  /\ sub[<<p, New>>] = "replicating" /\ ~Active(p)
  /\ stream'[p] = Larger(origin[p], flushed[p])
  /\ UNCHANGED <<Wal(p), restart[p], flushed[p], OnNew(p), Memory(p)>>

Applies(p) ==
  /\ Active(p) /\ stream[p] < end[p] /\ stream'[p] = stream[p] + 1
  /\ origin'[p] = stream[p] + 1 /\ progress'[p] = stream[p] + 1
  /\ rows'[p] = rows[p] \union {stream[p] + 1}
  /\ UNCHANGED <<Wal(p), restart[p], flushed[p], Memory(p)>>

Confirms(p) ==
  /\ Active(p) /\ flushed[p] < origin[p]
  /\ flushed'[p] = origin[p] /\ restart'[p] \in {restart[p], origin[p]}
  /\ UNCHANGED <<Wal(p), stream[p], OnNew(p), Memory(p)>>

\* The calls that touch the positions of a peer.
Touching(p) ==
  {<<"delete", Subscription(p, New)>>} \union
    ({"create"} \X {SlotCreate(p, New), SyncEvent(p, Source), PeerCatchup(p, Source),
                   LagTracker(p, New), SlotAdvance(p, New), OriginAdvance(p, New)})

\* What a call of the run does for one peer.
CallMoves(e, p) ==
  LET Is(k) == e = <<"create", k>>
  IN  \/ Is(SlotCreate(p, New)) /\ ((SlotExists(p, New) /\ Rests(p)) \/ GetsSlot(p))
      \/ Is(SyncEvent(p, Source)) /\ Writes(p) /\ event'[p] = end[p] + 1
      \/ Is(PeerCatchup(p, Source)) /\ CaughtUp(p) /\ Rests(p)
      \/ Is(LagTracker(p, New)) /\ Stamps(p) /\ stamp'[p] = progress[p]
      \/ Is(SlotAdvance(p, New)) /\ (Advances(p) \/ Skips(p))
      \/ Is(OriginAdvance(p, New)) /\ ((moved[p] = None /\ Rests(p)) \/ Follows(p))
      \/ e = <<"delete", Subscription(p, New)>> /\ Ends(p) /\ origin'[p] = 0
      \/ e \notin Touching(p) /\ Rests(p)

Walked(p) ==
  Rests(p) \/ (Writes(p) /\ event'[p] = event[p]) \/ Replays(p) \/ Attaches(p) \/ Applies(p)
    \/ Confirms(p) \/ (Ends(p) /\ origin'[p] = origin[p])

\* What any step does, the copy or another.
Drifts(p) ==
  Rests(p) \/ Writes(p) \/ Replays(p) \/ GetsSlot(p) \/ Stamps(p) \/ Forgets(p) \/ Advances(p)
    \/ Skips(p) \/ Follows(p) \/ Ends(p) \/ Attaches(p) \/ Applies(p) \/ Confirms(p)

Motion(p) == Fills(p) \/ Drifts(p)

\* The call e returns.
PCalled(e) ==
  /\ Called(e) /\ UNCHANGED retries
  /\ \/ Effect(e) /\ Move(e)
     \/ UNCHANGED <<catalog, positions, done>>

\* The job goes on and touches no database, or a run is created.
Idles == (PlanFails \/ NextPhase \/ Waits) /\ UNCHANGED <<positions, retries>>
Adds  == AddNode(New, Source) /\ UNCHANGED <<positions, retries>>

\* The databases move by themselves, and only positions change.
Walks(p) ==
  Write(p) \/ Replay(p) \/ Attach(p) \/ Apply(p) \/ Confirm(p) \/ Detach(p) \/ AdvanceGoesOn(p)

\* Constants.
LEMMA Parts ==
  /\ Peer \subseteq InitialNodes /\ InitialNodes \subseteq Node /\ New \in Node /\ Source \in InitialNodes
  /\ New \notin InitialNodes /\ Source \notin Peer /\ New \notin Peer /\ Source # New
  /\ \A p : p \in InitialNodes <=> p \in Peer \/ p = Source
  /\ MaxLSN \in Nat /\ MaxRetries \in Nat /\ None = -1
BY MeshAssumption, PopulateAssumption DEF Peer, None

\* The steps, told apart by what the invariant needs of them.
LEMMA PSteps ==
  ASSUME MeshInv, [PNext]_pvars
  PROVE  \/ \E e \in running : PCalled(e)
         \/ PMakePlan \/ PReturn \/ PRerun \/ Adds \/ Idles \/ LateStarts \/ Copy
         \/ \E p \in Peer : FirstStart(p) \/ Walks(p)
<1>1. ASSUME NEW e \in running, PSucceed(e) PROVE PCalled(e)
    BY <1>1 DEF PSucceed, PCalled, Succeed, Called, Executor!Succeed
<1>2. ASSUME NEW e \in running, PFail(e) PROVE PCalled(e)
  <2>1. PICK effect \in BOOLEAN :
          FailWith(e, effect) /\ (IF effect THEN Move(e) ELSE UNCHANGED positions)
      BY <1>2 DEF PFail
  <2>2. /\ Executor!Fail(e) /\ UNCHANGED retries /\ UNCHANGED <<cfg, started, blind, upgrades>>
        /\ IF effect THEN Effect(e) ELSE UNCHANGED catalog
        /\ UNCHANGED faults \/ (faults < MaxFaults /\ faults' = faults + 1)
      BY <1>2, <2>1 DEF PFail, FailWith
  <2>3. Called(e)
      BY <2>2 DEF Called, Executor!Fail
  <2>4. done' = done
      BY <2>2 DEF Executor!Fail
  <2>5. CASE effect
      BY <2>1, <2>2, <2>3, <2>5 DEF PCalled
  <2>6. CASE ~effect
    <3>1. UNCHANGED positions /\ UNCHANGED catalog
        BY <2>1, <2>2, <2>6
    <3> QED
        BY <2>2, <2>3, <2>4, <3>1 DEF PCalled
  <2> QED
      BY <2>5, <2>6
<1>3. ASSUME NEW e \in running, Refused(e) PROVE PCalled(e)
    BY <1>3 DEF Refused, PCalled, Called, Executor!Fail
<1>4. CASE UNCHANGED pvars
    BY <1>4 DEF pvars, mvars, Idles, Waits, catalog, execution
<1>5. ASSUME (NextPhase \/ TimeOut) /\ UNCHANGED <<positions, retries>> PROVE Idles
    BY <1>5 DEF Idles, TimeOut, Waits, Executor!Cancel
<1>6. ASSUME (PlanFails \/ Stop \/ AddNode(New, Source)) /\ UNCHANGED <<positions, retries>>
      PROVE  Idles \/ Adds
    BY <1>6 DEF Idles, Adds, Stop, Waits, Executor!Cancel
<1>7. PJobOrOperator => PRerun \/ PReturn \/ Idles
    BY <1>5 DEF PJobOrOperator
<1>8. PCallReturns => (\E e \in running : PCalled(e)) \/ \E p \in Peer : Walks(p)
    BY <1>1, <1>2, <1>3 DEF PCallReturns, Walks
<1>9. Unforced => \/ Idles \/ Adds \/ \E e \in running : PCalled(e)
                  \/ \E p \in Peer : Walks(p)
    BY <1>2, <1>6 DEF Unforced, Walks
<1>10. PSomeWorker => Copy \/ \E p \in Peer : FirstStart(p)
    BY DEF PSomeWorker
<1>11. (\E p \in Peer : Replay(p) \/ Attach(p) \/ Apply(p)) => \E p \in Peer : Walks(p)
    BY DEF Walks
<1> QED
    BY <1>4, <1>7, <1>8, <1>9, <1>10, <1>11 DEF PNext

\* A step of this module is one of Mesh, but for a fault less or more.
LEMMA MeshKeeps ==
  ASSUME MeshInv, [PNext]_pvars PROVE MeshInv'
<1>1. [Next]_mvars => MeshInv'
    BY Steps, MakePlanKeeps, PlanFailsKeeps, NextPhaseKeeps, ReturnKeeps, EnvironmentKeeps,
       WaitsKeeps, StartsKeeps, CalledKeeps
<1>2. \A e \in running : PCalled(e) => MeshInv'
    BY CalledKeeps DEF PCalled
<1>3. PMakePlan \/ PReturn \/ PRerun => MeshInv'
    BY <1>1 DEF PMakePlan, PReturn, PRerun, Next
<1>4. Adds => MeshInv'
    BY <1>1, Parts DEF Adds, Next
<1>5. Idles => MeshInv'
    BY PlanFailsKeeps, NextPhaseKeeps, WaitsKeeps DEF Idles
<1>6. LateStarts \/ Copy \/ (\E p \in Peer : FirstStart(p)) => MeshInv'
  <2>1. LateStarts \/ Copy \/ (\E p \in Peer : FirstStart(p)) => Environment
      BY Parts DEF LateStarts, Late, Copy, FirstStart, Environment
  <2> QED
      BY <2>1, EnvironmentKeeps
<1>7. ASSUME NEW p \in Peer, Walks(p) PROVE MeshInv'
  <2>1. UNCHANGED mvars \/ Detach(p)
      BY <1>7 DEF Walks, Write, Replay, Attach, Apply, Confirm, AdvanceGoesOn
  <2>2. UNCHANGED mvars => Waits
      BY DEF mvars, Waits, catalog, execution
  <2>3. Detach(p) => Waits
      BY DEF Detach, Waits, execution
  <2> QED
      BY <2>1, <2>2, <2>3, WaitsKeeps
<1> QED
    BY <1>2, <1>3, <1>4, <1>5, <1>6, <1>7, PSteps

\* A call, by the peer that it names.
LEMMA MoveIs ==
  ASSUME NEW e, Move(e)
  PROVE  LET q == e[2][2] IN
         \/ UNCHANGED positions /\ (q \notin Peer \/ e \notin Touching(q))
         \/ /\ q \in Peer
            /\ \/ e = <<"create", SlotCreate(q, New)>> /\ MoveSlotCreate(q)
               \/ e = <<"create", SyncEvent(q, Source)>> /\ MoveSyncEvent(q)
               \/ e = <<"create", PeerCatchup(q, Source)>> /\ CaughtUp(q) /\ UNCHANGED positions
               \/ e = <<"create", LagTracker(q, New)>> /\ MoveLagTracker(q)
               \/ e = <<"create", SlotAdvance(q, New)>> /\ MoveSlotAdvance(q)
               \/ e = <<"create", OriginAdvance(q, New)>> /\ MoveOriginAdvance(q)
               \/ e = <<"delete", Subscription(q, New)>> /\ MoveSubDrop(q)
<1> DEFINE q == e[2][2]
<1>1. CASE q \notin Peer
    BY <1>1 DEF Move
<1>2. CASE q \in Peer
    BY <1>2 DEF Move, Touching, SlotCreate, SyncEvent, PeerCatchup, LagTracker, SlotAdvance,
                OriginAdvance, Subscription
<1> QED
    BY <1>1, <1>2

\* Nothing moves.
LEMMA PositionsRest ==
  ASSUME Positioned, UNCHANGED positions
  PROVE  Positioned' /\ \A p \in Peer : Rests(p)
<1>1. UNCHANGED <<end, replayed, restart, flushed, stream, origin, rows, progress, event, stamp,
                  moved, step>>
    BY DEF positions, wal, slots, newNode, memory
<1> QED
    BY <1>1 DEF Positioned, Rests, Wal, SlotAt, OnNew, Memory

\* What it does to the positions of each peer.
LEMMA MovesOf ==
  ASSUME Positioned, NEW e, Move(e)
  PROVE  Positioned' /\ \A p \in Peer : CallMoves(e, p)
<1> DEFINE q == e[2][2]
           Others == \A p \in Peer : p # q => Rests(p)
<1> USE DEF Wal, SlotAt, OnNew, Memory
<1>1. \A p \in Peer : p # q => e \notin Touching(p)
    BY DEF Touching, SlotCreate, SyncEvent, PeerCatchup, LagTracker, SlotAdvance, OriginAdvance,
           Subscription
<1>2. UNCHANGED positions => Positioned' /\ \A p \in Peer : Rests(p)
    BY PositionsRest
<1>3. ASSUME Others, q \in Peer => CallMoves(e, q) PROVE \A p \in Peer : CallMoves(e, p)
    BY <1>1, <1>3 DEF CallMoves
<1> HIDE DEF q
<1>4. CASE UNCHANGED positions /\ (q \notin Peer \/ e \notin Touching(q))
    BY <1>2, <1>3, <1>4 DEF CallMoves
<1>5. CASE q \in Peer /\ e = <<"create", SlotCreate(q, New)>> /\ MoveSlotCreate(q)
  <2>1. /\ UNCHANGED <<end, replayed, stream, origin, rows, progress, event, stamp, moved, step>>
        /\ \/ SlotExists(q, New) /\ UNCHANGED <<restart, flushed>>
           \/ /\ ~SlotExists(q, New)
              /\ restart' = [restart EXCEPT ![q] = end[q]] /\ flushed' = [flushed EXCEPT ![q] = end[q]]
      BY <1>5 DEF MoveSlotCreate, NewSlotAt, wal, newNode, memory
  <2>2. Positioned' /\ Others /\ ((SlotExists(q, New) /\ Rests(q)) \/ GetsSlot(q))
      BY <1>5, <2>1 DEF Positioned, Rests, GetsSlot
  <2> QED
      BY <1>3, <1>5, <2>2 DEF CallMoves
<1>6. CASE q \in Peer /\ e = <<"create", SyncEvent(q, Source)>> /\ MoveSyncEvent(q)
  <2>1. /\ UNCHANGED <<replayed, restart, flushed, stream, origin, rows, progress, stamp, moved, step>>
        /\ end' = [end EXCEPT ![q] = end[q] + 1] /\ event' = [event EXCEPT ![q] = end'[q]]
      BY <1>6 DEF MoveSyncEvent, slots, newNode
  <2>2. Positioned' /\ Others /\ Writes(q) /\ event'[q] = end[q] + 1
      BY <1>6, <2>1 DEF Positioned, Rests, Writes
  <2> QED
      BY <1>3, <1>6, <2>2 DEF CallMoves
<1>7. CASE q \in Peer /\ e = <<"create", PeerCatchup(q, Source)>> /\ CaughtUp(q) /\ UNCHANGED positions
    BY <1>2, <1>3, <1>7 DEF CallMoves
<1>8. CASE q \in Peer /\ e = <<"create", LagTracker(q, New)>> /\ MoveLagTracker(q)
  <2>1. /\ UNCHANGED <<end, replayed, restart, flushed, stream, origin, rows, progress, event, moved, step>>
        /\ stamp' = [stamp EXCEPT ![q] = progress[q]]
      BY <1>8 DEF MoveLagTracker, wal, slots, newNode
  <2>2. Positioned' /\ Others /\ Stamps(q) /\ stamp'[q] = progress[q]
      BY <1>8, <2>1 DEF Positioned, Rests, Stamps
  <2> QED
      BY <1>3, <1>8, <2>2 DEF CallMoves
<1>9. CASE q \in Peer /\ e = <<"create", SlotAdvance(q, New)>> /\ MoveSlotAdvance(q)
  <2>1. /\ UNCHANGED <<end, replayed, origin, rows, progress, event, stamp>>
        /\ step' = [step EXCEPT ![q] = "target"]
      BY <1>9 DEF MoveSlotAdvance, wal, newNode
  <2>2. step' \in [Peer -> Statement]
      BY <2>1 DEF Positioned, Statement
  <2>3. CASE AdvanceSlot(q)
    <3>1. moved' = [moved EXCEPT ![q] = stamp[q]] /\ stream' = stream
        BY <2>3 DEF AdvanceSlot, SlotMovesTo, slots
    <3>2. flushed[q] \in Int /\ stamp[q] \in Int /\ restart[q] \in Int
        BY <1>9 DEF Positioned
    <3>3. moved' \in [Peer -> Int] /\ moved'[q] = stamp[q] /\ \A p \in Peer : p # q => moved'[p] = moved[p]
        BY <1>9, <3>1, <3>2 DEF Positioned
    <3>4. CASE ~AheadOfSlot(q) /\ UNCHANGED slots
      <4>1. UNCHANGED <<restart, flushed>> /\ flushed[q] = Larger(flushed[q], stamp[q])
          BY <3>2, <3>4 DEF slots, AheadOfSlot, Larger
      <4>2. Advances(q)
          BY <2>1, <3>1, <3>3, <4>1 DEF Advances, SlotAt
      <4>3. Positioned'
          BY <2>1, <2>2, <3>1, <3>3, <4>1 DEF Positioned
      <4>4. Others
          BY <2>1, <3>1, <3>3, <4>1 DEF Rests
      <4> QED
          BY <1>3, <1>9, <4>2, <4>3, <4>4 DEF CallMoves
    <3>5. CASE AheadOfSlot(q) /\ ~Active(q) /\ SlotMovesTo(q, stamp[q])
      <4>1. stamp[q] = Larger(flushed[q], stamp[q])
          BY <3>2, <3>5 DEF AheadOfSlot, Larger
      <4>2. flushed' \in [Peer -> Int] /\ flushed'[q] = stamp[q]
              /\ \A p \in Peer : p # q => flushed'[p] = flushed[p]
          BY <1>9, <3>2, <3>5 DEF Positioned, SlotMovesTo
      <4>3. PICK r \in {restart[q], stamp[q]} : restart' = [restart EXCEPT ![q] = r]
          BY <3>5 DEF SlotMovesTo
      <4>4. restart' \in [Peer -> Int] /\ restart'[q] = r
              /\ \A p \in Peer : p # q => restart'[p] = restart[p]
          BY <1>9, <3>2, <4>3 DEF Positioned
      <4>5. Advances(q)
          BY <2>1, <3>1, <3>3, <3>5, <4>1, <4>2, <4>3, <4>4 DEF Advances
      <4>6. Positioned'
          BY <2>1, <2>2, <3>1, <3>3, <4>2, <4>4 DEF Positioned
      <4>7. Others
          BY <2>1, <3>1, <3>3, <4>2, <4>4 DEF Rests
      <4> QED
          BY <1>3, <1>9, <4>5, <4>6, <4>7 DEF CallMoves
    <3> QED
        BY <2>3, <3>4, <3>5 DEF AdvanceSlot
  <2>4. CASE /\ SkipsAdvance(q) /\ moved' = [moved EXCEPT ![q] = None] /\ UNCHANGED slots
    <3>1. UNCHANGED <<restart, flushed, stream>>
        BY <2>4 DEF slots
    <3>2. moved' \in [Peer -> Int] /\ moved'[q] = None /\ \A p \in Peer : p # q => moved'[p] = moved[p]
        BY <1>9, <2>4 DEF Positioned, None
    <3>3. Positioned' /\ Others /\ Skips(q)
        BY <2>1, <2>2, <2>4, <3>1, <3>2 DEF Positioned, Rests, Skips
    <3> QED
        BY <1>3, <1>9, <3>3 DEF CallMoves
  <2> QED
      BY <1>9, <2>3, <2>4 DEF MoveSlotAdvance
<1>10. CASE q \in Peer /\ e = <<"create", OriginAdvance(q, New)>> /\ MoveOriginAdvance(q)
  <2>1. /\ UNCHANGED <<end, replayed, restart, flushed, stream, rows, progress, event, stamp, moved, step>>
        /\ moved[q] # None => ~Active(q)
        /\ \/ moved[q] = None /\ origin' = origin
           \/ moved[q] # None /\ origin' = [origin EXCEPT ![q] = moved[q]]
      BY <1>10 DEF MoveOriginAdvance, AdvanceOrigin, wal, slots, memory
  <2>2. Positioned' /\ Others /\ ((moved[q] = None /\ Rests(q)) \/ Follows(q))
      BY <1>10, <2>1 DEF Positioned, Rests, Follows
  <2> QED
      BY <1>3, <1>10, <2>2 DEF CallMoves
<1>11. CASE q \in Peer /\ e = <<"delete", Subscription(q, New)>> /\ MoveSubDrop(q)
  <2>1. /\ UNCHANGED <<end, replayed, restart, flushed, rows, progress, event, stamp, moved, step>>
        /\ stream' = [stream EXCEPT ![q] = None] /\ origin' = [origin EXCEPT ![q] = 0]
      BY <1>11 DEF MoveSubDrop, wal, memory
  <2>2. None \in Int /\ 0 \in Int
      BY DEF None
  <2>3. Positioned' /\ Others /\ Ends(q) /\ origin'[q] = 0
      BY <1>11, <2>1, <2>2 DEF Positioned, Rests, Ends
  <2> QED
      BY <1>3, <1>11, <2>3 DEF CallMoves
<1> QED
    BY <1>4, <1>5, <1>6, <1>7, <1>8, <1>9, <1>10, <1>11, MoveIs DEF q

\* A step of the databases by themselves, for each peer.
LEMMA MovesOfWalks ==
  ASSUME Positioned, NEW q \in Peer, Walks(q)
  PROVE  Positioned' /\ \A p \in Peer : Walked(p)
<1> DEFINE Others == \A p \in Peer : p # q => Rests(p)
<1> USE DEF Wal, SlotAt, OnNew, Memory, Walked
<1>1. CASE Write(q)
  <2>1. /\ UNCHANGED <<replayed, restart, flushed, stream, origin, rows, progress, event, stamp, moved, step>>
        /\ end' = [end EXCEPT ![q] = end[q] + 1]
      BY <1>1 DEF Write, slots, newNode, memory
  <2>2. Positioned' /\ Others /\ Writes(q) /\ event'[q] = event[q]
      BY <2>1 DEF Positioned, Rests, Writes
  <2> QED
      BY <2>2
<1>2. CASE Replay(q)
  <2>1. /\ UNCHANGED <<end, restart, flushed, stream, origin, rows, progress, event, stamp, moved, step>>
        /\ replayed[q] < end[q] /\ replayed' = [replayed EXCEPT ![q] = replayed[q] + 1]
      BY <1>2 DEF Replay, slots, newNode, memory
  <2>2. Positioned' /\ Others /\ Replays(q)
      BY <2>1 DEF Positioned, Rests, Replays
  <2> QED
      BY <2>2
<1>3. CASE Attach(q)
  <2>1. /\ UNCHANGED <<end, replayed, restart, flushed, origin, rows, progress, event, stamp, moved, step>>
        /\ sub[<<q, New>>] = "replicating" /\ ~Active(q)
        /\ stream' = [stream EXCEPT ![q] = Larger(origin[q], flushed[q])]
      BY <1>3 DEF Attach, wal, newNode, memory
  <2>2. Larger(origin[q], flushed[q]) \in Int
      BY DEF Positioned, Larger
  <2>3. Positioned' /\ Others /\ Attaches(q)
      BY <2>1, <2>2 DEF Positioned, Rests, Attaches
  <2> QED
      BY <2>3
<1>4. CASE Apply(q)
  <2>1. /\ UNCHANGED <<end, replayed, restart, flushed, event, stamp, moved, step>>
        /\ Active(q) /\ stream[q] < end[q]
        /\ stream' = [stream EXCEPT ![q] = stream[q] + 1]
        /\ origin' = [origin EXCEPT ![q] = stream'[q]]
        /\ progress' = [progress EXCEPT ![q] = stream'[q]]
        /\ rows' = [rows EXCEPT ![q] = rows[q] \union {stream'[q]}]
      BY <1>4 DEF Apply, wal, memory
  <2>2. stream[q] + 1 \in Int /\ stream'[q] = stream[q] + 1
      BY <2>1 DEF Positioned
  <2>3. rows[q] \union {stream[q] + 1} \in SUBSET Int
      BY <2>2 DEF Positioned
  <2>4. rows' \in [Peer -> SUBSET Int] /\ rows'[q] = rows[q] \union {stream[q] + 1}
          /\ \A p \in Peer : p # q => rows'[p] = rows[p]
      BY <2>1, <2>2, <2>3 DEF Positioned
  <2>5. /\ Positioned'
        /\ origin'[q] = stream[q] + 1 /\ progress'[q] = stream[q] + 1
        /\ \A p \in Peer : p # q => stream'[p] = stream[p] /\ origin'[p] = origin[p] /\ progress'[p] = progress[p]
      BY <2>1, <2>2, <2>4 DEF Positioned
  <2>6. Others /\ Applies(q)
      BY <2>1, <2>2, <2>4, <2>5 DEF Rests, Applies
  <2> QED
      BY <2>5, <2>6
<1>5. CASE Confirm(q)
  <2>1. /\ UNCHANGED <<end, replayed, stream, origin, rows, progress, event, stamp, moved, step>>
        /\ Active(q) /\ flushed[q] < origin[q]
        /\ flushed' = [flushed EXCEPT ![q] = origin[q]]
        /\ \E r \in {restart[q], origin[q]} : restart' = [restart EXCEPT ![q] = r]
      BY <1>5 DEF Confirm, wal, newNode, memory
  <2>2. PICK r \in {restart[q], origin[q]} : restart' = [restart EXCEPT ![q] = r]
      BY <2>1
  <2>3. r \in Int
      BY <2>2 DEF Positioned
  <2>4. restart' \in [Peer -> Int] /\ restart'[q] = r /\ \A p \in Peer : p # q => restart'[p] = restart[p]
      BY <2>2, <2>3 DEF Positioned
  <2>5. flushed' \in [Peer -> Int] /\ flushed'[q] = origin[q] /\ \A p \in Peer : p # q => flushed'[p] = flushed[p]
      BY <2>1 DEF Positioned
  <2>6. Positioned' /\ Others /\ Confirms(q)
      BY <2>1, <2>2, <2>4, <2>5 DEF Positioned, Rests, Confirms
  <2> QED
      BY <2>6
<1>6. CASE Detach(q)
  <2>1. /\ UNCHANGED <<end, replayed, restart, flushed, origin, rows, progress, event, stamp, moved, step>>
        /\ stream' = [stream EXCEPT ![q] = None]
      BY <1>6 DEF Detach, wal, newNode, memory
  <2>2. Positioned' /\ Others /\ Ends(q) /\ origin'[q] = origin[q]
      BY <2>1 DEF Positioned, Rests, Ends, None
  <2> QED
      BY <2>2
<1>7. CASE AdvanceGoesOn(q)
  <2>1. /\ UNCHANGED <<end, replayed, restart, flushed, stream, origin, rows, progress, event, stamp, moved>>
        /\ step[q] # "advance" /\ step' = [step EXCEPT ![q] = NextStatement[step[q]]]
      BY <1>7 DEF AdvanceGoesOn, wal, slots, newNode
  <2>2. NextStatement[step[q]] \in Statement
      BY <2>1 DEF Positioned, Statement, NextStatement
  <2>3. Positioned' /\ \A p \in Peer : Rests(p)
      BY <2>1, <2>2 DEF Positioned, Rests
  <2> QED
      BY <2>3
<1> QED
    BY <1>1, <1>2, <1>3, <1>4, <1>5, <1>6, <1>7 DEF Walks

\* The workers of the new node.
LEMMA MovesOfWorkers ==
  ASSUME Positioned
  PROVE  /\ Copy => /\ Positioned'
                    /\ \A p \in Peer : IF sub[<<Source, New>>] = "copying" THEN Fills(p) ELSE Rests(p)
         /\ \A q \in Peer : FirstStart(q) =>
              /\ Positioned'
              /\ \A p \in Peer : Rests(p) \/ (p = q /\ GetsSlot(p))
<1> USE DEF Wal, SlotAt, OnNew, Memory
<1>1. ASSUME Copy, sub[<<Source, New>>] = "copying"
      PROVE  Positioned' /\ \A p \in Peer : Fills(p)
  <2>1. /\ UNCHANGED <<end, replayed, restart, flushed, stream, origin, event, stamp, moved, step>>
        /\ rows' = [p \in Peer |-> rows[p] \union UpTo(replayed[p])]
        /\ progress' \in {progress, [p \in Peer |-> Larger(progress[p], replayed[p])]}
      BY <1>1 DEF Copy, wal, slots, memory
  <2>2. \A p \in Peer : rows[p] \union UpTo(replayed[p]) \in SUBSET Int /\ Larger(progress[p], replayed[p]) \in Int
      BY DEF Positioned, UpTo, Larger
  <2>3. rows' \in [Peer -> SUBSET Int] /\ \A p \in Peer : rows'[p] = rows[p] \union UpTo(replayed[p])
      BY <2>1, <2>2
  <2>4. /\ progress' \in [Peer -> Int]
        /\ \A p \in Peer : progress'[p] \in {progress[p], Larger(progress[p], replayed[p])}
      BY <2>1, <2>2 DEF Positioned
  <2> QED
      BY <2>1, <2>3, <2>4 DEF Positioned, Fills
<1>2. ASSUME Copy, sub[<<Source, New>>] # "copying"
      PROVE  Positioned' /\ \A p \in Peer : Rests(p)
  <2>1. UNCHANGED positions
      BY <1>2 DEF Copy, positions, newNode
  <2> QED
      BY <2>1, PositionsRest
<1>3. ASSUME NEW q \in Peer, FirstStart(q)
      PROVE  /\ Positioned'
             /\ \A p \in Peer : Rests(p) \/ (p = q /\ GetsSlot(p))
  <2>1. CASE SlotExists(q, New)
    <3>1. UNCHANGED positions
        BY <1>3, <2>1 DEF FirstStart, positions, slots
    <3> QED
        BY <3>1, PositionsRest
  <2>2. CASE ~SlotExists(q, New)
    <3>1. /\ UNCHANGED <<end, replayed, stream, origin, rows, progress, event, stamp, moved, step>>
          /\ restart' = [restart EXCEPT ![q] = end[q]] /\ flushed' = [flushed EXCEPT ![q] = end[q]]
        BY <1>3, <2>2 DEF FirstStart, NewSlotAt, wal, newNode, memory
    <3> QED
        BY <2>2, <3>1 DEF Positioned, Rests, GetsSlot
  <2> QED
      BY <2>1, <2>2
<1> QED
    BY <1>1, <1>2, <1>3

\* The job itself.
LEMMA MovesOfTheJob ==
  ASSUME Positioned
  PROVE  /\ PMakePlan => Positioned' /\ \A p \in Peer : Stamps(p) /\ stamp'[p] = None
         /\ PReturn => Positioned' /\ \A p \in Peer : Forgets(p)
         /\ PRerun \/ Adds \/ Idles \/ LateStarts => Positioned' /\ \A p \in Peer : Rests(p)
<1> USE DEF Wal, SlotAt, OnNew, Memory
<1>1. ASSUME PMakePlan PROVE Positioned' /\ \A p \in Peer : Stamps(p) /\ stamp'[p] = None
  <2>1. /\ UNCHANGED <<end, replayed, restart, flushed, stream, origin, rows, progress, event, moved, step>>
        /\ stamp' = [p \in Peer |-> None]
      BY <1>1 DEF PMakePlan, wal, slots, newNode
  <2> QED
      BY <2>1 DEF Positioned, Stamps, None
<1>2. ASSUME PReturn PROVE Positioned' /\ \A p \in Peer : Forgets(p)
  <2>1. /\ UNCHANGED <<end, replayed, restart, flushed, stream, origin, rows, progress, stamp>>
        /\ event' = [p \in Peer |-> None] /\ moved' = event' /\ step' = [p \in Peer |-> "target"]
      BY <1>2 DEF PReturn, wal, slots, newNode
  <2> QED
      BY <2>1 DEF Positioned, Forgets, None, Statement
<1>3. ASSUME PRerun \/ Adds \/ Idles \/ LateStarts PROVE UNCHANGED positions
    BY <1>3 DEF PRerun, Adds, Idles, LateStarts
<1> QED
    BY <1>1, <1>2, <1>3, PositionsRest

\* Every step is a motion of each peer.
LEMMA Motions ==
  ASSUME MeshInv, Positioned, [PNext]_pvars
  PROVE  Positioned' /\ \A p \in Peer : Motion(p)
<1>1. ASSUME NEW e \in running, PCalled(e) PROVE Positioned' /\ \A p \in Peer : Motion(p)
  <2>1. CASE UNCHANGED positions
      BY <2>1, PositionsRest DEF Motion, Drifts
  <2>2. CASE Move(e)
    <3>1. Positioned' /\ \A p \in Peer : CallMoves(e, p)
        BY <2>2, MovesOf
    <3> QED
        BY <3>1 DEF CallMoves, Motion, Drifts
  <2> QED
      BY <1>1, <2>1, <2>2 DEF PCalled
<1>2. ASSUME NEW q \in Peer, Walks(q) PROVE Positioned' /\ \A p \in Peer : Motion(p)
    BY <1>2, MovesOfWalks DEF Walked, Motion, Drifts
<1>3. Copy \/ (\E q \in Peer : FirstStart(q)) => Positioned' /\ \A p \in Peer : Motion(p)
    BY MovesOfWorkers DEF Motion, Drifts
<1>4. PMakePlan \/ PReturn \/ PRerun \/ Adds \/ Idles \/ LateStarts
        => Positioned' /\ \A p \in Peer : Motion(p)
    BY MovesOfTheJob DEF Motion, Drifts
<1> QED
    BY <1>1, <1>2, <1>3, <1>4, PSteps

-----------------------------------------------------------------------------
(* What no motion breaks.                                                  *)

LEMMA BoundsStay ==
  ASSUME Positioned, NEW p \in Peer, Bounded(p), Motion(p)
  PROVE  Bounded(p)'
<1>1. /\ end[p] \in Int /\ replayed[p] \in Int /\ restart[p] \in Int /\ flushed[p] \in Int
      /\ stream[p] \in Int /\ origin[p] \in Int /\ progress[p] \in Int /\ event[p] \in Int
      /\ stamp[p] \in Int /\ moved[p] \in Int
    BY DEF Positioned
<1>2. /\ 0 <= replayed[p] /\ replayed[p] <= end[p]
      /\ 0 <= restart[p] /\ restart[p] <= flushed[p] /\ flushed[p] <= end[p]
      /\ 0 <= origin[p] /\ origin[p] <= end[p]
      /\ -1 <= stream[p] /\ stream[p] <= end[p] /\ -1 <= progress[p] /\ progress[p] <= end[p]
      /\ -1 <= event[p] /\ event[p] <= end[p] /\ -1 <= stamp[p] /\ stamp[p] <= end[p]
      /\ -1 <= moved[p] /\ moved[p] <= end[p]
      /\ \A c \in rows[p] : c \in 1 .. end[p]
    BY DEF Bounded, None, UpTo
<1> DEFINE Ordered ==
             /\ 0 <= replayed[p] /\ replayed[p] <= end[p]
             /\ 0 <= restart[p] /\ restart[p] <= flushed[p] /\ flushed[p] <= end[p]
             /\ 0 <= origin[p] /\ origin[p] <= end[p]
             /\ -1 <= stream[p] /\ stream[p] <= end[p] /\ -1 <= progress[p] /\ progress[p] <= end[p]
             /\ -1 <= event[p] /\ event[p] <= end[p] /\ -1 <= stamp[p] /\ stamp[p] <= end[p]
             /\ -1 <= moved[p] /\ moved[p] <= end[p]
           Rowed == \A c \in rows[p] : c \in 1 .. end[p]
<1> USE DEF Wal, SlotAt, OnNew, Memory, Larger, None, Active
<1>3. CASE Rests(p) \/ Replays(p) \/ GetsSlot(p) \/ Stamps(p) \/ Forgets(p)
    BY <1>1, <1>2, <1>3 DEF Rests, Replays, GetsSlot, Stamps, Forgets, Bounded, UpTo
<1>4. CASE Writes(p)
    BY <1>1, <1>2, <1>4 DEF Writes, Bounded, UpTo
<1>5. CASE Advances(p)
    BY <1>1, <1>2, <1>5 DEF Advances, Bounded, UpTo
<1>6. CASE Skips(p) \/ Follows(p) \/ Ends(p)
    BY <1>1, <1>2, <1>6 DEF Skips, Follows, Ends, Bounded, UpTo
<1>7. CASE Fills(p)
    BY <1>1, <1>2, <1>7 DEF Fills, Bounded, UpTo
<1>8. CASE Attaches(p) \/ Confirms(p)
    BY <1>1, <1>2, <1>8 DEF Attaches, Confirms, Bounded, UpTo
<1>9. CASE Applies(p)
    BY <1>1, <1>2, <1>9 DEF Applies, Bounded, UpTo
<1> QED
    BY <1>3, <1>4, <1>5, <1>6, <1>7, <1>8, <1>9 DEF Motion, Drifts

\* A slot that is there is not set past what the new node has, apart from
\* what comes with the copy.
LEMMA FilledStays ==
  ASSUME Positioned, NEW p \in Peer, Bounded(p), Streams(p), SlotExists(p, New), Motion(p),
         NEW b \in Int, Filled(p, b)
  PROVE  Filled(p, b)'
<1>1. /\ end[p] \in Int /\ replayed[p] \in Int /\ flushed[p] \in Int
      /\ stream[p] \in Int /\ origin[p] \in Int /\ progress[p] \in Int
      /\ stamp[p] \in Int /\ moved[p] \in Int
    BY DEF Positioned
<1>2. /\ Has(p, flushed[p], b) /\ Has(p, origin[p], b) /\ Has(p, progress[p], b)
      /\ Has(p, stamp[p], b) /\ Has(p, moved[p], b) /\ Has(p, None, b)
    BY DEF Filled, Has, UpTo, None
<1>3. \A x, y : rows[p] \subseteq rows'[p] /\ y = x /\ Has(p, x, b) =>
        \A c \in UpTo(y) : c \in rows'[p] \/ c <= b
    BY DEF Has
<1> DEFINE Have(x) == \A c \in UpTo(x) : c \in rows'[p] \/ c <= b
           All == /\ Have(flushed'[p]) /\ Have(origin'[p]) /\ Have(progress'[p])
                  /\ Have(stamp'[p]) /\ Have(moved'[p])
<1>4. ASSUME rows[p] \subseteq rows'[p]
      PROVE  /\ Have(flushed[p]) /\ Have(origin[p]) /\ Have(progress[p])
             /\ Have(stamp[p]) /\ Have(moved[p]) /\ Have(None) /\ Have(0)
  <2>1. Have(0)
      BY DEF UpTo
  <2> QED
      BY <1>2, <1>4, <2>1 DEF Has
<1>5. All => Filled(p, b)'
    BY DEF Filled, Has
<1> HIDE DEF Have
<1> USE DEF Wal, SlotAt, OnNew, Memory
<1>6. CASE Rests(p) \/ Writes(p) \/ Replays(p) \/ Stamps(p) \/ Forgets(p) \/ Skips(p)
    BY <1>4, <1>5, <1>6 DEF Rests, Writes, Replays, Stamps, Forgets, Skips
<1>7. CASE GetsSlot(p)
    BY <1>7 DEF GetsSlot
<1>8. CASE Advances(p)
  <2>1. flushed'[p] \in {flushed[p], stamp[p]}
      BY <1>8 DEF Advances, Larger
  <2> QED
      BY <1>4, <1>5, <1>8, <2>1 DEF Advances
<1>9. CASE Follows(p) \/ Ends(p) \/ Attaches(p) \/ Confirms(p)
    BY <1>4, <1>5, <1>9 DEF Follows, Ends, Attaches, Confirms
<1>10. CASE Fills(p)
  <2>1. rows[p] \subseteq rows'[p] /\ progress'[p] \in {progress[p], replayed[p]}
      BY <1>10 DEF Fills, Larger
  <2>2. Have(replayed[p])
      BY <1>10 DEF Have, Fills
  <2> QED
      BY <1>4, <1>5, <1>10, <2>1, <2>2 DEF Fills
<1>11. CASE Applies(p)
  <2>1. /\ Active(p) /\ stream'[p] = stream[p] + 1
        /\ rows'[p] = rows[p] \union {stream[p] + 1}
        /\ origin'[p] = stream[p] + 1 /\ progress'[p] = stream[p] + 1
        /\ UNCHANGED <<flushed[p], stamp[p], moved[p]>>
      BY <1>11 DEF Applies
  <2>2. stream[p] \in {origin[p], flushed[p]}
      BY <2>1 DEF Streams, Larger
  <2>3. rows[p] \subseteq rows'[p]
      BY <2>1
  <2>4. Have(stream[p])
      BY <1>4, <2>2, <2>3
  <2>5. Have(stream[p] + 1)
    <3>1. \A c \in UpTo(stream[p] + 1) : c \in UpTo(stream[p]) \/ c = stream[p] + 1
        BY <1>1 DEF UpTo
    <3> QED
        BY <2>1, <2>4, <3>1 DEF Have
  <2> QED
      BY <1>4, <1>5, <2>1, <2>3, <2>5
<1> QED
    BY <1>6, <1>7, <1>8, <1>9, <1>10, <1>11 DEF Motion, Drifts

-----------------------------------------------------------------------------
(* The start: a mesh, perhaps with slots of an earlier node of this name.  *)

LEMMA StartIsFine ==
  ASSUME PInit PROVE PopulateInv
<1>0. /\ IsFiniteSet(Node) /\ InitialNodes \subseteq Node /\ NoSource \notin Node
      /\ MaxUpgrades \in Nat /\ MaxFaults \in Nat
    BY MeshAssumption
<1>1. PICK L \in SUBSET {<<p, New>> : p \in Peer} :
        Cardinality(L) <= MaxFaults /\ InitWith(InitialNodes, {}, L)
    BY DEF PInit
<1>2. /\ cfg = Plain(InitialNodes) /\ blind = {} /\ started = FALSE
      /\ user = InitialNodes /\ local = InitialNodes
      /\ known = [n \in Node |-> IF n \in InitialNodes THEN InitialNodes ELSE {}]
      /\ sub = [pr \in Node \X Node |-> IF pr \in Pairs(InitialNodes) THEN "replicating" ELSE "none"]
      /\ slot = Pairs(InitialNodes) \union L
      /\ seeded = InitialNodes
      /\ phases = <<>> /\ phase = 0 /\ running = {} /\ done = {}
      /\ failed = FALSE /\ cancelled = FALSE /\ result = "ok"
      /\ upgrades = 0 /\ faults = Cardinality(L)
  <2>1. \A n \in Node : (IF n \in {} THEN {n} ELSE IF n \in InitialNodes THEN InitialNodes ELSE {})
                          = (IF n \in InitialNodes THEN InitialNodes ELSE {})
      OBVIOUS
  <2>2. \A pr \in Node \X Node :
          (IF pr \in Pairs(InitialNodes) /\ pr[2] \notin {} THEN "replicating" ELSE "none")
            = (IF pr \in Pairs(InitialNodes) THEN "replicating" ELSE "none")
      OBVIOUS
  <2>3. {pr \in Pairs(InitialNodes) : pr[1] \notin {}} = Pairs(InitialNodes)
      OBVIOUS
  <2>4. started = FALSE
      BY <1>1, MeshAssumption DEF InitWith
  <2> QED
      BY <1>1, <2>1, <2>2, <2>3, <2>4 DEF InitWith
<1>3. /\ IsConfig(cfg) /\ OneNew(cfg) /\ NewNodes(cfg) = {} /\ cfg.nodes = InitialNodes
      /\ cfg.source = [n \in InitialNodes |-> NoSource]
  <2>1. IsFiniteSet(InitialNodes) /\ NoSource \notin InitialNodes
      BY <1>0, FS_Subset
  <2> QED
      BY <1>2, <2>1, PlainIsConfig DEF Plain
<1>4. \A pr \in slot : pr \in Pairs(Node) /\ pr[1] \in InitialNodes
  <2>1. \A pr \in L : pr \in Pairs(Node) /\ pr[1] \in InitialNodes
    <3> TAKE pr \in L
    <3>1. PICK p \in Peer : pr = <<p, New>>
        BY <1>1
    <3> QED
        BY <3>1, Parts DEF Pairs
  <2>2. \A pr \in Pairs(InitialNodes) : pr \in Pairs(Node) /\ pr[1] \in InitialNodes
      BY <1>0 DEF Pairs
  <2> QED
      BY <1>2, <2>1, <2>2
<1>5. faults \in 0 .. MaxFaults
  <2>1. IsFiniteSet(Node \X Node) /\ L \subseteq Node \X Node
      BY <1>0, <1>2, <1>4, FS_Product DEF Pairs
  <2>2. Cardinality(L) \in Nat
      BY <2>1, FS_Subset, FS_CardinalityType
  <2> QED
      BY <1>0, <1>1, <1>2, <2>2
<1>6. /\ known \in [Node -> SUBSET Node] /\ sub \in [Node \X Node -> SubState]
      /\ \A n \in Node : known[n] = IF n \in InitialNodes THEN InitialNodes ELSE {}
    BY <1>0, <1>2 DEF SubState
<1>7. \A p \in Node, s \in Node :
        sub[<<p, s>>] = IF p \in InitialNodes /\ s \in InitialNodes /\ p # s THEN "replicating" ELSE "none"
    BY <1>2 DEF Pairs
<1>8. TypeOK
  <2>1. Executor!TypeOK
    <3>1. /\ phases \in Seq(SUBSET ({"create", "update", "delete"} \X Keys)) /\ phase \in 0 .. Len(phases)
          /\ running \subseteq {"create", "update", "delete"} \X Keys
          /\ done \subseteq {"create", "update", "delete"} \X Keys
        BY <1>2
    <3>2. failed \in BOOLEAN /\ cancelled \in BOOLEAN /\ result \in {"running", "ok", "error"}
        BY <1>2
    <3> QED
        BY <3>1, <3>2 DEF Executor!TypeOK
  <2>2. upgrades \in 0 .. MaxUpgrades /\ blind \subseteq Node
      BY <1>0, <1>2
  <2>3. started \in BOOLEAN
      BY <1>2
  <2> QED
      BY <1>0, <1>2, <1>3, <1>4, <1>5, <1>6, <2>1, <2>2, <2>3 DEF TypeOK
<1>9. MeshInv
  <2>1. Barrier
      BY <1>2 DEF Barrier
  <2>2. SubscriptionsStayVisible
    <3> SUFFICES ASSUME NEW p \in Node, NEW s \in Node, sub[<<p, s>>] # "none"
                 PROVE  s \in local /\ {p, s} \subseteq known[s]
        BY DEF SubscriptionsStayVisible
    <3>1. p \in InitialNodes /\ s \in InitialNodes
        BY <1>7
    <3> QED
        BY <1>2, <1>6, <3>1
  <2>3. Catalogs
      BY <1>2, <1>4, <1>6, <1>7, <2>2 DEF Catalogs
  <2>4. Gated /\ Cleaning /\ Mending /\ DropsFirst /\ Lasting /\ Promised
      BY <1>2 DEF Gated, Cleaning, Mending, DropsFirst, Lasting, Promised
  <2>5. SuccessMeansMeshed
    <3>1. \A pr \in Pairs(cfg.nodes) : sub[pr] \in Enabled
      <4> TAKE pr \in Pairs(cfg.nodes)
      <4>1. pr \in Pairs(InitialNodes) /\ pr \in Node \X Node
          BY <1>0, <1>3 DEF Pairs
      <4> QED
          BY <1>2, <4>1 DEF Enabled
    <3>2. \A s \in cfg.nodes \ blind, o \in Node \ cfg.nodes : sub[<<o, s>>] = "none"
        BY <1>0, <1>3, <1>7
    <3> QED
        BY <1>2, <1>3, <3>1, <3>2 DEF SuccessMeansMeshed
  <2>6. ConfigIs
      BY <1>0, <1>3 DEF ConfigIs
  <2> QED
      BY <1>8, <2>1, <2>3, <2>4, <2>5, <2>6 DEF MeshInv
<1>10. /\ end = [p \in Peer |-> 0] /\ replayed = end /\ restart = end /\ flushed = end /\ origin = end
       /\ stream = [p \in Peer |-> None] /\ rows = [p \in Peer |-> {}]
       /\ progress = stream /\ event = stream /\ stamp = stream /\ moved = stream
       /\ step = [p \in Peer |-> "target"] /\ retries = 0
    BY DEF PInit
<1>11. Positioned
    BY <1>10 DEF Positioned, None, Statement
<1>12. New \notin cfg.nodes /\ New \notin user /\ New \notin seeded /\ sub[<<Source, New>>] = "none"
         /\ \A p \in Peer : sub[<<p, New>>] = "none"
    BY <1>2, <1>3, <1>7, Parts
<1>13. Membership /\ Untouched /\ SlotsSpared
    BY <1>3, <1>10, <1>12, Parts DEF Membership, Untouched, SlotsSpared
<1>14. ASSUME NEW p \in Peer PROVE Bounded(p) /\ Held(p) /\ Streams(p) /\ Waited(p) /\ Covered(p)
  <2>1. /\ end[p] = 0 /\ replayed[p] = 0 /\ restart[p] = 0 /\ flushed[p] = 0 /\ origin[p] = 0
        /\ stream[p] = None /\ rows[p] = {} /\ progress[p] = None /\ event[p] = None
        /\ stamp[p] = None /\ moved[p] = None
      BY <1>10
  <2>2. Bounded(p)
      BY <2>1 DEF Bounded, None
  <2> QED
      BY <1>2, <1>12, <2>1, <2>2 DEF Held, Relies, Streams, Waited, Covered, Active
<1> QED
    BY <1>9, <1>10, <1>11, <1>13, <1>14, Parts DEF PopulateInv

-----------------------------------------------------------------------------
(* What the invariant says of the gates.                                   *)

\* k is created after j.
After(j, k) == <<"create", k>> \in running \union done => <<"create", j>> \in done

\* What succeeded was desired, and what it depends on came before.
LEMMA DoneIsGated ==
  ASSUME MeshInv, NEW k, <<"create", k>> \in running \union done
  PROVE  /\ k \in DesiredIds(cfg)
         /\ \A d \in Dependencies(cfg, k) : <<"create", d>> \in done \/ Stays(d)
<1> DEFINE e == <<"create", k>>
<1>1. e[1] = "create" /\ e[2] = k
    OBVIOUS
<1>2. CASE e \in running
    BY <1>1, <1>2, RunningEvent
<1>3. CASE e \in done
  <2>1. /\ Barrier /\ Gated /\ phase \in 0 .. Len(phases) /\ DOMAIN phases = 1 .. Len(phases)
        /\ Len(phases) \in Nat
    <3>1. phases \in Seq(SUBSET ({"create", "update", "delete"} \X Keys)) /\ phase \in 0 .. Len(phases)
        BY DEF MeshInv, TypeOK, Executor!TypeOK
    <3> QED
        BY <3>1 DEF MeshInv
  <2>2. PICK n \in DOMAIN phases : e \in phases[n]
      BY <1>3, <2>1 DEF Barrier
  <2>3. k \in DesiredIds(cfg) /\ \A d \in Dependencies(cfg, k) : Earlier(n, <<"create", d>>) \/ Stays(d)
      BY <1>1, <2>1, <2>2 DEF Gated
  <2>4. n \in Nat /\ phase \in Nat /\ n <= phase
    <3>1. ~(phase < n)
        BY <1>3, <2>1, <2>2 DEF Barrier
    <3> QED
        BY <2>1, <2>2, <3>1
  <2>5. \A d : Earlier(n, <<"create", d>>) => <<"create", d>> \in done
    <3> SUFFICES ASSUME NEW d, Earlier(n, <<"create", d>>) PROVE <<"create", d>> \in done
        OBVIOUS
    <3>1. PICK m \in 1 .. n - 1 : <<"create", d>> \in phases[m]
        BY DEF Earlier
    <3>2. m \in DOMAIN phases /\ m < phase
        BY <2>1, <2>2, <2>4, <3>1
    <3> QED
        BY <2>1, <3>1, <3>2 DEF Barrier
  <2> QED
      BY <2>3, <2>5
<1> QED
    BY <1>2, <1>3

\* Resources that no catalog shows come first if they must.
LEMMA GateHolds ==
  ASSUME MeshInv, NEW j, NEW k, j \in Dependencies(cfg, k),
         j[1] \notin {"user", "node", "slot", "subscription"}
  PROVE  After(j, k)
<1>1. ~Stays(j)
    BY DEF Stays
<1> QED
    BY <1>1, DoneIsGated DEF After

\* The configuration that adds the node, and the others.
LEMMA TheNewNode ==
  ASSUME ConfigIs, Membership
  PROVE  /\ IsConfig(cfg) /\ OneNew(cfg) /\ InitialNodes \subseteq cfg.nodes /\ cfg.nodes \subseteq Node
         /\ New \notin NewNodes(cfg) => NewNodes(cfg) = {}
         /\ New \in NewNodes(cfg) =>
              /\ New \in cfg.nodes /\ cfg.source[New] = Source /\ Peers(cfg, New) = Peer
              /\ NewNodes(cfg) = {New} /\ GatesAre(cfg, New, Source)
         /\ \A x \in InitialNodes : ~IsCopy(cfg, x, New) \/ x = Source
         /\ \A x \in InitialNodes : ~IsCopy(cfg, New, x)
<1>1. IsConfig(cfg) /\ OneNew(cfg) /\ InitialNodes \subseteq cfg.nodes /\ cfg.nodes \subseteq Node
    BY DEF ConfigIs, Membership
<1>2. ASSUME New \in NewNodes(cfg)
      PROVE  /\ New \in cfg.nodes /\ cfg.source[New] = Source /\ Peers(cfg, New) = Peer
             /\ NewNodes(cfg) = {New} /\ GatesAre(cfg, New, Source)
  <2>1. New \in cfg.nodes /\ cfg.source[New] = Source /\ NewNodes(cfg) = {New}
      BY <1>1, <1>2 DEF NewNodes, OneNew, Membership
  <2>2. cfg.nodes = InitialNodes \union {New}
      BY <2>1, Parts DEF Membership
  <2>3. Peers(cfg, New) = Peer
      BY <2>1, <2>2, Parts DEF Peers, Peer
  <2> QED
      BY <1>1, <1>2, <2>1, <2>3, GatesOfTheNewNode
<1>3. New \notin NewNodes(cfg) => NewNodes(cfg) = {}
    BY DEF Membership
<1>4. \A x \in InitialNodes : (~IsCopy(cfg, x, New) \/ x = Source) /\ ~IsCopy(cfg, New, x)
    BY <1>2, <1>3, Parts DEF IsCopy
<1> QED
    BY <1>1, <1>2, <1>3, <1>4

\* The chain that adds the node, for each peer.
LEMMA InTheChain ==
  ASSUME MeshInv, Membership, New \in NewNodes(cfg), NEW p \in Peer
  PROVE  /\ After(SlotCreate(p, New), SyncEvent(p, Source))
         /\ After(SyncEvent(p, Source), PeerCatchup(p, Source))
         /\ After(PeerCatchup(p, Source), Subscription(Source, New))
         /\ After(WaitForSync(Source, New), LagTracker(p, New))
         /\ After(LagTracker(p, New), SlotAdvance(p, New))
         /\ After(SlotAdvance(p, New), OriginAdvance(p, New))
         /\ After(OriginAdvance(p, New), Subscription(p, New))
<1>1. /\ New \in cfg.nodes /\ cfg.source[New] = Source /\ Peers(cfg, New) = Peer
      /\ GatesAre(cfg, New, Source) /\ InitialNodes \subseteq cfg.nodes
    BY TheNewNode DEF MeshInv
<1>2. {Source, New} \subseteq cfg.nodes /\ {p, New} \subseteq cfg.nodes
    BY <1>1, Parts
<1>3. /\ SlotCreate(p, New) \in Dependencies(cfg, SyncEvent(p, Source))
      /\ OriginAdvance(p, New) \in Dependencies(cfg, Subscription(p, New))
    BY <1>1, <1>2, DependenciesAre DEF GatesAre
<1>4. PeerCatchup(p, Source) \in Dependencies(cfg, Subscription(Source, New))
  <2>1. PeerCatchup(p, Source) \in SubscriptionGates(cfg, Source, New)
      BY <1>1 DEF GatesAre
  <2> QED
      BY <1>2, <2>1, DependenciesAre
<1>5. /\ SyncEvent(p, Source) \in Dependencies(cfg, PeerCatchup(p, Source))
      /\ LagTracker(p, New) \in Dependencies(cfg, SlotAdvance(p, New))
      /\ SlotAdvance(p, New) \in Dependencies(cfg, OriginAdvance(p, New))
      /\ WaitForSync(Source, New) \in Dependencies(cfg, LagTracker(p, New))
    BY <1>1, DependenciesAre
<1>6. \A j, k : j \in Dependencies(cfg, k) /\ j[1] \notin {"user", "node", "slot", "subscription"} => After(j, k)
    BY GateHolds
<1>7. \A k \in {SlotCreate(p, New), OriginAdvance(p, New), PeerCatchup(p, Source), SyncEvent(p, Source),
                LagTracker(p, New), SlotAdvance(p, New), WaitForSync(Source, New)} :
        k[1] \notin {"user", "node", "slot", "subscription"}
    BY DEF SlotCreate, SyncEvent, PeerCatchup, WaitForSync, LagTracker, SlotAdvance, OriginAdvance
<1>8. /\ After(SlotCreate(p, New), SyncEvent(p, Source))
      /\ After(OriginAdvance(p, New), Subscription(p, New))
    BY <1>3, <1>6, <1>7
<1>9. After(PeerCatchup(p, Source), Subscription(Source, New))
    BY <1>4, <1>6, <1>7
<1>10. /\ After(SyncEvent(p, Source), PeerCatchup(p, Source))
       /\ After(WaitForSync(Source, New), LagTracker(p, New))
    BY <1>5, <1>6, <1>7
<1>11. /\ After(LagTracker(p, New), SlotAdvance(p, New))
       /\ After(SlotAdvance(p, New), OriginAdvance(p, New))
    BY <1>5, <1>6, <1>7
<1>12. QED
    BY <1>8, <1>9, <1>10, <1>11 DEF After

\* Before the node is added, nothing of it is created, and the populate
\* resources are created in the run that adds it only.
LEMMA OnlyForTheNew ==
  ASSUME MeshInv, Membership, NEW p \in Peer, NEW k, <<"create", k>> \in running \union done
  PROVE  /\ <<"create", k>> \in Touching(p) => New \in NewNodes(cfg) /\ New \in cfg.nodes
         /\ \A n \in Node : k \in {User(n), SpockNode(n)} => n \in cfg.nodes
         /\ \A x \in Node, s \in Node : k = Subscription(x, s) => x \in cfg.nodes /\ s \in cfg.nodes
<1>1. k \in DesiredIds(cfg)
    BY DoneIsGated
<1>2. IsConfig(cfg) /\ OneNew(cfg) /\ (New \notin NewNodes(cfg) => NewNodes(cfg) = {})
        /\ (New \in NewNodes(cfg) => New \in cfg.nodes)
    BY TheNewNode DEF MeshInv
<1>3. ASSUME NewNodes(cfg) = {}, <<"create", k>> \in Touching(p) PROVE FALSE
  <2>1. \/ \E n \in cfg.nodes : k \in {User(n), SpockNode(n)}
        \/ \E q \in cfg.nodes, s \in cfg.nodes : q # s /\ k \in {Slot(q, s), Subscription(q, s)}
      BY <1>1, <1>3, DesiredWithoutNew
  <2>2. k[1] \in {"user", "node", "slot", "subscription"}
      BY <2>1 DEF User, SpockNode, Slot, Subscription
  <2>3. k \in {SlotCreate(p, New), SyncEvent(p, Source), PeerCatchup(p, Source),
               LagTracker(p, New), SlotAdvance(p, New), OriginAdvance(p, New)}
      BY <1>3 DEF Touching
  <2> QED
      BY <2>2, <2>3 DEF SlotCreate, SyncEvent, PeerCatchup, LagTracker, SlotAdvance, OriginAdvance
<1>4. \A n \in Node : k \in {User(n), SpockNode(n)} => n \in cfg.nodes
    BY <1>1, <1>2, DesiredShapes
<1>5. \A x \in Node, s \in Node : k = Subscription(x, s) => x \in cfg.nodes /\ s \in cfg.nodes
    BY <1>1, <1>2, DesiredShapes
<1> QED
    BY <1>2, <1>3, <1>4, <1>5

\* Until the run that adds the node has planned, nothing relies on a slot.
LEMMA NothingYet ==
  ASSUME PopulateInv, New \notin cfg.nodes \/ (First /\ started)
  PROVE  /\ New \notin user /\ New \notin local /\ New \notin seeded
         /\ \A x \in Node : sub[<<x, New>>] = "none"
         /\ \A p \in Peer : ~Relies(p)
<1>1. /\ MeshInv /\ TypeOK /\ Catalogs /\ Barrier /\ Membership
      /\ New \notin user /\ New \notin seeded /\ New \in Node
      /\ \A p \in Peer : event[p] = None
    BY Parts DEF PopulateInv, MeshInv, Untouched
<1>2. \A x \in Node : sub[<<x, New>>] = "none"
    BY <1>1, NothingOnAnEmptyNode
<1>3. New \notin local
    BY <1>1 DEF Catalogs
<1>4. ASSUME NEW p \in Peer PROVE <<"create", SlotCreate(p, New)>> \notin done
  <2>1. CASE started
      BY <1>1, <2>1 DEF Barrier
  <2>2. CASE New \notin cfg.nodes
      BY <1>1, <2>2, OnlyForTheNew DEF Touching
  <2> QED
      BY <2>1, <2>2
<1> QED
    BY <1>1, <1>2, <1>3, <1>4, Parts DEF Relies

-----------------------------------------------------------------------------
(* The steps keep what is said of one peer.                                *)

\* Nothing new relies on the slot of p.
Usual(p) ==
  /\ Motion(p)
  /\ event'[p] \in {event[p], None}
  /\ sub'[<<Source, New>>] = "copying" => sub[<<Source, New>>] = "copying"
  /\ New \in seeded' => New \in seeded
  /\ <<"create", SlotCreate(p, New)>> \in done' => <<"create", SlotCreate(p, New)>> \in done
  /\ <<"create", PeerCatchup(p, Source)>> \in done' =>
       <<"create", PeerCatchup(p, Source)>> \in done /\ event'[p] = event[p]
  /\ sub'[<<p, New>>] # "copying"
  /\ sub'[<<p, New>>] = "replicating" => sub[<<p, New>>] = "replicating"
  /\ sub[<<p, New>>] = "replicating" => sub'[<<p, New>>] = "replicating" \/ Ends(p)
  /\ SlotExists(p, New) => SlotExists(p, New)' \/ ~Relies(p)

\* An active slot that is there goes on with what the new node has.
LEMMA StreamsStay ==
  ASSUME Positioned, NEW p \in Peer, Bounded(p), Streams(p), Motion(p),
         Active(p) => SlotExists(p, New),
         sub'[<<p, New>>] # "copying",
         sub[<<p, New>>] = "replicating" => sub'[<<p, New>>] = "replicating" \/ Ends(p)
  PROVE  Streams(p)'
<1>1. /\ end[p] \in Int /\ flushed[p] \in Int /\ stream[p] \in Int /\ origin[p] \in Int
      /\ 0 <= flushed[p] /\ 0 <= origin[p]
    BY DEF Positioned, Bounded
<1>2. CASE Ends(p)
    BY <1>2 DEF Ends, Streams, Active
<1>3. CASE ~Ends(p) /\ Active(p)
  <2>1. sub'[<<p, New>>] = "replicating" /\ stream[p] = Larger(origin[p], flushed[p]) /\ SlotExists(p, New)
      BY <1>3 DEF Streams
  <2>2. CASE Applies(p)
    <3>1. stream'[p] = stream[p] + 1 /\ origin'[p] = stream[p] + 1 /\ flushed'[p] = flushed[p]
        BY <2>2 DEF Applies
    <3>2. stream'[p] = Larger(origin'[p], flushed'[p])
        BY <1>1, <2>1, <3>1 DEF Larger
    <3> QED
        BY <2>1, <3>2 DEF Streams
  <2>3. CASE Confirms(p)
    <3>1. stream'[p] = stream[p] /\ origin'[p] = origin[p] /\ flushed'[p] = origin[p] /\ flushed[p] < origin[p]
        BY <2>3 DEF Confirms, OnNew
    <3>2. stream'[p] = Larger(origin'[p], flushed'[p])
        BY <1>1, <2>1, <3>1 DEF Larger
    <3> QED
        BY <2>1, <3>2 DEF Streams
  <2>4. CASE ~Applies(p) /\ ~Confirms(p)
    <3>1. stream'[p] = stream[p] /\ origin'[p] = origin[p] /\ flushed'[p] = flushed[p]
        BY <1>3, <2>1, <2>4 DEF Motion, Drifts, Rests, Writes, Replays, GetsSlot, Stamps, Forgets, Advances, Skips,
           Follows, Fills, Attaches, SlotAt, OnNew
    <3> QED
        BY <2>1, <3>1 DEF Streams
  <2> QED
      BY <2>2, <2>3, <2>4
<1>4. CASE ~Ends(p) /\ ~Active(p)
  <2>1. CASE Attaches(p)
    <3>1. /\ sub[<<p, New>>] = "replicating" /\ stream'[p] = Larger(origin[p], flushed[p])
          /\ origin'[p] = origin[p] /\ flushed'[p] = flushed[p]
        BY <2>1 DEF Attaches, OnNew
    <3> QED
        BY <1>4, <3>1 DEF Streams
  <2>2. CASE ~Attaches(p)
    <3>1. stream'[p] = stream[p]
        BY <1>4, <2>2 DEF Motion, Drifts, Rests, Writes, Replays, GetsSlot, Stamps, Forgets, Advances, Skips,
           Follows, Fills, Applies, Confirms, SlotAt, OnNew
    <3> QED
        BY <1>4, <3>1 DEF Streams, Active
  <2> QED
      BY <2>1, <2>2
<1> QED
    BY <1>2, <1>3, <1>4

\* The source does not lose what it has replayed.
LEMMA ReplayedGrows ==
  ASSUME Positioned, NEW p \in Peer, Motion(p)
  PROVE  replayed[p] \in Int /\ replayed'[p] \in Int /\ replayed[p] <= replayed'[p]
<1>1. replayed[p] \in Int /\ (replayed'[p] = replayed[p] \/ replayed'[p] = replayed[p] + 1)
    BY DEF Positioned, Motion, Drifts, Rests, Writes, Replays, GetsSlot, Stamps, Forgets, Advances, Skips, Follows,
           Ends, Fills, Attaches, Applies, Confirms, Wal
<1> QED
    BY <1>1

\* To miss less is enough.
LEMMA FilledMore ==
  ASSUME NEW p, NEW b \in Int, NEW a \in Int, a <= b, Filled(p, a)
  PROVE  Filled(p, b)
<1>1. ASSUME NEW x, Has(p, x, a) PROVE Has(p, x, b)
  <2> SUFFICES ASSUME NEW c \in UpTo(x), c <= a PROVE c <= b
      BY <1>1 DEF Has
  <2>1. c \in Int
      BY DEF UpTo
  <2> QED
      BY <2>1
<1> QED
    BY <1>1 DEF Filled

\* What is covered stays covered, if nothing new relies on the slot.
LEMMA CoveredStays ==
  ASSUME Positioned, NEW p \in Peer, Bounded(p), Held(p), Streams(p), Covered(p), Motion(p),
         event'[p] \in {event[p], None},
         sub'[<<Source, New>>] = "copying" => sub[<<Source, New>>] = "copying",
         New \in seeded' => New \in seeded
  PROVE  Covered(p)'
<1>1. replayed[p] \in Int /\ replayed'[p] \in Int /\ replayed[p] <= replayed'[p] /\ event[p] \in Int
    BY ReplayedGrows DEF Positioned
<1>2. ASSUME NEW b \in Int, Filled(p, b), Relies(p) PROVE Filled(p, b)'
    BY <1>2, FilledStays DEF Held
<1>3. event'[p] # None => Filled(p, event[p])'
  <2> SUFFICES ASSUME event'[p] # None PROVE Filled(p, event[p])'
      OBVIOUS
  <2>1. event'[p] = event[p] /\ Filled(p, event[p]) /\ Relies(p)
      BY DEF Covered, Relies
  <2>2. PICK b : b = event'[p]
      OBVIOUS
  <2>3. Filled(p, b)'
      BY <1>1, <1>2, <2>1, <2>2
  <2> QED
      BY <2>1, <2>2, <2>3 DEF Filled, Has
<1>4. sub'[<<Source, New>>] = "copying" => Filled(p, replayed[p])'
  <2> SUFFICES ASSUME sub'[<<Source, New>>] = "copying" PROVE Filled(p, replayed[p])'
      OBVIOUS
  <2>1. Filled(p, replayed[p]) /\ Relies(p)
      BY DEF Covered, Relies
  <2>2. PICK b : b = replayed'[p]
      OBVIOUS
  <2>3. b \in Int /\ Filled(p, b)
      BY <1>1, <2>1, <2>2, FilledMore
  <2>4. Filled(p, b)'
      BY <1>2, <2>1, <2>3
  <2> QED
      BY <2>2, <2>4 DEF Filled, Has
<1>5. New \in seeded' => Filled(p, 0)'
    BY <1>2 DEF Covered, Relies
<1> QED
    BY <1>3, <1>4, <1>5 DEF Covered

\* One peer, when nothing new relies on its slot.
LEMMA UsualStays ==
  ASSUME Positioned, NEW p \in Peer, Bounded(p), Held(p), Streams(p), Waited(p), Covered(p), Usual(p)
  PROVE  Held(p)' /\ Streams(p)' /\ Waited(p)' /\ Covered(p)'
<1>1. Relies(p)' => Relies(p)
    BY DEF Usual, Relies, None
<1>2. Held(p)'
    BY <1>1 DEF Held, Usual
<1>3. Streams(p)'
  <2>1. Active(p) => SlotExists(p, New)
      BY DEF Streams, Held, Relies
  <2> QED
      BY <2>1, StreamsStay DEF Usual
<1>4. Waited(p)'
  <2>1. event[p] \in Int /\ Motion(p)
      BY DEF Positioned, Usual
  <2>2. replayed[p] \in Int /\ replayed'[p] \in Int /\ replayed[p] <= replayed'[p]
      BY <2>1, ReplayedGrows
  <2> QED
      BY <2>1, <2>2 DEF Usual, Waited, CaughtUp, None
<1>5. Covered(p)'
    BY CoveredStays DEF Usual
<1> QED
    BY <1>2, <1>3, <1>4, <1>5

-----------------------------------------------------------------------------
(* Steps that change no plan and no subscription to the new node.          *)

\* What is left to show of a step.
Maintained ==
  /\ retries' \in 0 .. MaxRetries /\ Membership' /\ Untouched' /\ SlotsSpared'
  /\ \A p \in Peer : Held(p)' /\ Streams(p)' /\ Waited(p)' /\ Covered(p)'

LEMMA Together ==
  ASSUME PopulateInv, [PNext]_pvars, Maintained PROVE PopulateInv'
<1>1. MeshInv' /\ Positioned' /\ \A p \in Peer : Motion(p)
    BY MeshKeeps, Motions DEF PopulateInv
<1>2. \A p \in Peer : Bounded(p)'
    BY <1>1, BoundsStay DEF PopulateInv
<1> QED
    BY <1>1, <1>2 DEF Maintained, PopulateInv

\* Positions of a node with no slot, no subscription and no copy.
LEMMA UntouchedStays ==
  ASSUME PopulateInv, New \notin cfg.nodes \/ (First /\ started), New \notin user', New \notin seeded',
         \A p \in Peer : Drifts(p) /\ event'[p] \in {event[p], None}
  PROVE  Untouched'
<1> SUFFICES ASSUME NEW p \in Peer
             PROVE  /\ origin'[p] = 0 /\ rows'[p] = {} /\ restart'[p] = flushed'[p]
                    /\ progress'[p] = None /\ event'[p] = None /\ stamp'[p] = None /\ moved'[p] = None
    BY DEF Untouched
<1>1. /\ origin[p] = 0 /\ rows[p] = {} /\ restart[p] = flushed[p] /\ ~Active(p)
      /\ progress[p] = None /\ event[p] = None /\ stamp[p] = None /\ moved[p] = None
  <2>1. sub[<<p, New>>] = "none" /\ Streams(p)
      BY NothingYet, Parts DEF PopulateInv
  <2> QED
      BY <2>1 DEF PopulateInv, Untouched, Streams
<1>2. Larger(flushed[p], None) = flushed[p]
    BY DEF PopulateInv, Positioned, Bounded, Larger, None
<1>3. Drifts(p) /\ event'[p] = None
    BY <1>1
<1> USE DEF Wal, SlotAt, OnNew, Memory
<1>4. CASE Rests(p) \/ Writes(p) \/ Replays(p) \/ GetsSlot(p) \/ Stamps(p) \/ Forgets(p)
    BY <1>1, <1>3, <1>4 DEF Rests, Writes, Replays, GetsSlot, Stamps, Forgets
<1>5. CASE Advances(p) \/ Skips(p) \/ Follows(p) \/ Ends(p)
    BY <1>1, <1>2, <1>3, <1>5 DEF Advances, Skips, Follows, Ends
<1>6. CASE Attaches(p) \/ Applies(p) \/ Confirms(p)
    BY <1>1, <1>3, <1>6 DEF Attaches, Applies, Confirms
<1> QED
    BY <1>3, <1>4, <1>5, <1>6 DEF Drifts

\* The databases by themselves, and the job between its calls.
Calm ==
  /\ UNCHANGED <<cfg, user, seeded, phases, done, retries>> /\ started' \in {started, FALSE}
  /\ \A x \in InitialNodes : sub'[<<x, New>>] = sub[<<x, New>>]
  /\ \A p \in Peer : (SlotExists(p, New) => SlotExists(p, New)') /\ Walked(p)

LEMMA CalmSteps ==
  ASSUME PopulateInv, Idles \/ LateStarts \/ \E p \in Peer : Walks(p)
  PROVE  Calm
<1>0. Positioned /\ TypeOK
    BY DEF PopulateInv, MeshInv
<1>1. CASE Idles
  <2>1. UNCHANGED <<cfg, user, sub, slot, seeded, phases, done, retries>> /\ started' \in {started, FALSE}
      BY <1>1 DEF Idles, PlanFails, NextPhase, Executor!NextPhase, Waits, catalog
  <2>2. \A p \in Peer : Walked(p)
      BY <1>0, <1>1, MovesOfTheJob DEF Walked
  <2> QED
      BY <2>1, <2>2 DEF Calm, SlotExists
<1>2. CASE LateStarts
  <2>1. PICK x \in InitialNodes : /\ sub[<<New, x>>] = "initializing" /\ WorkerStarts(New, x)
                                  /\ UNCHANGED <<positions, retries>>
      BY <1>2 DEF LateStarts, Late
  <2>2. /\ UNCHANGED <<cfg, user, phases, done, retries, started>>
        /\ sub' = [sub EXCEPT ![<<New, x>>] = "replicating"]
        /\ slot' = slot \union {<<New, x>>} /\ seeded' = seeded
      BY <2>1 DEF WorkerStarts, SetSub, execution
  <2>3. \A y \in InitialNodes : sub'[<<y, New>>] = sub[<<y, New>>]
    <3> TAKE y \in InitialNodes
    <3>1. <<y, New>> # <<New, x>> /\ <<y, New>> \in Node \X Node
        BY Parts
    <3> QED
        BY <1>0, <2>2, <3>1 DEF TypeOK
  <2>4. \A p \in Peer : Walked(p)
      BY <1>0, <1>2, MovesOfTheJob DEF Walked
  <2> QED
      BY <2>2, <2>3, <2>4 DEF Calm, SlotExists
<1>3. ASSUME NEW q \in Peer, Walks(q) PROVE Calm
  <2>1. UNCHANGED <<cfg, user, sub, slot, seeded, phases, done, retries, started>>
      BY <1>3 DEF Walks, Write, Replay, Attach, Apply, Confirm, Detach, AdvanceGoesOn, mvars, catalog, execution
  <2>2. \A p \in Peer : Walked(p)
      BY <1>0, <1>3, MovesOfWalks
  <2> QED
      BY <2>1, <2>2 DEF Calm, SlotExists
<1> QED
    BY <1>1, <1>2, <1>3

LEMMA CalmKeeps ==
  ASSUME PopulateInv, Calm PROVE Maintained
<1>1. Membership' /\ SlotsSpared' /\ retries' \in 0 .. MaxRetries
    BY DEF Calm, PopulateInv, Membership, NewNodes, SlotsSpared
<1>2. \A p \in Peer : Drifts(p) /\ Motion(p) /\ event'[p] \in {event[p], None}
                      /\ (event'[p] = event[p])
  <2> TAKE p \in Peer
  <2>1. Walked(p)
      BY DEF Calm
  <2>2. Drifts(p)
      BY <2>1 DEF Walked, Drifts
  <2>3. event'[p] = event[p]
      BY <2>1 DEF Walked, Rests, Replays, Attaches, Applies, Confirms, Ends, Memory
  <2> QED
      BY <2>2, <2>3 DEF Motion
<1>3. Untouched'
  <2>1. CASE New \notin cfg.nodes \/ (First /\ started)
    <3>1. New \notin user' /\ New \notin seeded'
        BY <2>1, NothingYet DEF Calm
    <3> QED
        BY <1>2, <2>1, <3>1, UntouchedStays
  <2>2. CASE ~(New \notin cfg.nodes \/ (First /\ started))
      BY <2>2 DEF Calm, Untouched, First, NewNodes
  <2> QED
      BY <2>1, <2>2
<1>4. \A p \in Peer : Usual(p)
    BY <1>2, Parts DEF Usual, Calm, PopulateInv, Streams
<1> QED
    BY <1>1, <1>3, <1>4, UsualStays DEF Maintained, PopulateInv

-----------------------------------------------------------------------------
(* Runs are created, planned and over.                                     *)

\* No plan drops a slot of a configured node.
LEMMA PlansSpareSlots ==
  ASSUME TypeOK, ConfigIs, NEW missed, NEW p \in PlansFor(missed), NEW x, NEW s \in cfg.nodes,
         NEW m \in DOMAIN p
  PROVE  <<"delete", Slot(x, s)>> \notin p[m]
<1> DEFINE e == <<"delete", Slot(x, s)>>
<1> SUFFICES ASSUME e \in p[m] PROVE FALSE
    OBVIOUS
<1>1. \/ e = <<"create", e[2]>> /\ e[2] \in ToCreate
      \/ e = <<"update", e[2]>> /\ e[2] \in ToUpdate
      \/ e = <<"delete", e[2]>> /\ e[2] \in ToDelete(missed)
    BY EventsOfPlan
<1>2. Slot(x, s) \in ToDelete(missed)
    BY <1>1
<1>3. Slot(x, s) \notin NeedsRecreate
    BY DEF NeedsRecreate, Slot
<1>4. Slot(x, s) \in Orphans(missed)
    BY <1>2, <1>3 DEF ToDelete
<1>5. PICK pr \in slot : pr[2] \notin cfg.nodes /\ Slot(x, s) = Slot(pr[1], pr[2])
  <2>1. Slot(x, s)[1] = "slot"
      BY DEF Slot
  <2> QED
      BY <1>4, <2>1, OrphanKeys
<1> QED
    BY <1>5 DEF Slot

LEMMA PlanningKeeps ==
  ASSUME PopulateInv, PMakePlan PROVE Maintained
<1>1. /\ MakePlan /\ UNCHANGED retries /\ TypeOK /\ ConfigIs /\ Positioned
      /\ retries \in 0 .. MaxRetries
    BY DEF PMakePlan, PopulateInv, MeshInv
<1>2. /\ UNCHANGED <<cfg, user, sub, slot, seeded>> /\ started' = FALSE /\ done' = {}
      /\ \E missed : phases' \in PlansFor(missed)
    BY <1>1 DEF MakePlan, PlansFor, catalog
<1>3. \A p \in Peer : Stamps(p) /\ stamp'[p] = None
    BY <1>1, MovesOfTheJob
<1>4. \A p \in Peer : Drifts(p) /\ Motion(p) /\ event'[p] = event[p]
    BY <1>3 DEF Drifts, Motion, Stamps
<1>5. Membership' /\ retries' \in 0 .. MaxRetries
    BY <1>1, <1>2 DEF PopulateInv, Membership, NewNodes
<1>6. SlotsSpared'
  <2> SUFFICES ASSUME New \in cfg.nodes, NEW m \in DOMAIN phases', NEW p \in Peer
               PROVE  <<"delete", Slot(p, New)>> \notin phases'[m]
      BY <1>2 DEF SlotsSpared
  <2>1. PICK missed, plan : plan = phases' /\ plan \in PlansFor(missed)
      BY <1>2
  <2> QED
      BY <1>1, <2>1, PlansSpareSlots
<1>7. Untouched'
  <2>1. CASE New \notin cfg.nodes
    <3>1. New \notin user' /\ New \notin seeded'
        BY <1>2, <2>1, NothingYet
    <3> QED
        BY <1>4, <2>1, <3>1, UntouchedStays
  <2>2. CASE New \in cfg.nodes
      BY <1>2, <2>2 DEF Untouched
  <2> QED
      BY <2>1, <2>2
<1>8. \A p \in Peer : Usual(p)
    BY <1>2, <1>4 DEF Usual, PopulateInv, Streams, SlotExists
<1> QED
    BY <1>5, <1>6, <1>7, <1>8, UsualStays DEF Maintained, PopulateInv

LEMMA ReturningKeeps ==
  ASSUME PopulateInv, PReturn PROVE Maintained
<1>1. /\ UNCHANGED <<cfg, user, sub, slot, seeded, started, retries>> /\ phases' = <<>> /\ done' = {}
      /\ Positioned /\ retries \in 0 .. MaxRetries
    BY DEF PReturn, Return, catalog, PopulateInv
<1>2. \A p \in Peer : Forgets(p)
    BY <1>1, MovesOfTheJob
<1>3. \A p \in Peer : Drifts(p) /\ Motion(p) /\ event'[p] = None
    BY <1>2 DEF Drifts, Motion, Forgets
<1>4. Membership' /\ SlotsSpared' /\ retries' \in 0 .. MaxRetries
    BY <1>1 DEF PopulateInv, Membership, NewNodes, SlotsSpared
<1>5. Untouched'
  <2>1. CASE New \notin cfg.nodes \/ (First /\ started)
    <3>1. New \notin user' /\ New \notin seeded'
        BY <1>1, <2>1, NothingYet
    <3> QED
        BY <1>3, <2>1, <3>1, UntouchedStays
  <2>2. CASE ~(New \notin cfg.nodes \/ (First /\ started))
      BY <1>1, <2>2 DEF Untouched, First, NewNodes
  <2> QED
      BY <2>1, <2>2
<1>6. \A p \in Peer : Usual(p)
    BY <1>1, <1>3 DEF Usual, PopulateInv, Streams, SlotExists
<1> QED
    BY <1>4, <1>5, <1>6, UsualStays DEF Maintained, PopulateInv

\* The configuration of the next run.
LEMMA NextConfig ==
  ASSUME PopulateInv, PRerun \/ Adds
  PROVE  /\ \E c : Launch(c)
         /\ Membership' /\ retries' \in 0 .. MaxRetries
         /\ New \notin cfg.nodes \/ ~First'
<1>1. retries \in Nat /\ retries <= MaxRetries /\ MaxRetries \in Nat /\ Membership /\ ConfigIs
    BY Parts DEF PopulateInv, MeshInv
<1>2. CASE Adds
  <2> DEFINE c == Adding(New, Source)
  <2>1. New \notin cfg.nodes /\ Launch(c) /\ retries' = retries
      BY <1>2 DEF Adds, AddNode
  <2>2. cfg.nodes = InitialNodes
      BY <1>1, <2>1 DEF Membership
  <2>3. /\ c.nodes = InitialNodes \union {New}
        /\ c.source = [n \in InitialNodes \union {New} |-> IF n = New THEN Source ELSE NoSource]
      BY <2>2 DEF Adding
  <2>4. cfg' = c
      BY <2>1 DEF Launch
  <2> HIDE DEF c
  <2>5. Membership'
      BY <2>3, <2>4 DEF Membership, NewNodes
  <2> QED
      BY <1>1, <2>1, <2>5
<1>3. CASE PRerun
  <2>1. PICK c \in Repeats : Launch(c)
      BY <1>3 DEF PRerun, Rerun
  <2>2. cfg' = c /\ c \in {Plain(cfg.nodes), cfg}
      BY <2>1 DEF Launch, Repeats
  <2>4. NewNodes(Plain(cfg.nodes)) = {} /\ Plain(cfg.nodes).nodes = cfg.nodes
      BY DEF NewNodes, Plain
  <2>5. Membership'
    <3>1. CASE c = cfg
        BY <1>1, <2>2, <3>1 DEF Membership, NewNodes
    <3>2. CASE c = Plain(cfg.nodes)
        BY <1>1, <2>2, <2>4, <3>2 DEF Membership
    <3> QED
        BY <2>2, <3>1, <3>2
  <2>6. /\ NewNodes(cfg') = {} => retries' = retries
        /\ NewNodes(cfg') # {} => retries < MaxRetries /\ retries' = retries + 1
      BY <1>3 DEF PRerun
  <2>7. retries' \in 0 .. MaxRetries /\ (NewNodes(cfg') # {} => retries' # 0)
      BY <1>1, <2>6
  <2>8. ~First'
      BY <2>7 DEF First
  <2> QED
      BY <2>1, <2>5, <2>7, <2>8
<1> QED
    BY <1>2, <1>3

LEMMA LaunchingKeeps ==
  ASSUME PopulateInv, PRerun \/ Adds PROVE Maintained
<1>1. PICK c : Launch(c)
    BY NextConfig
<1>2. /\ UNCHANGED <<user, sub, slot, seeded, phases, done>>
      /\ phases = <<>> /\ done = {} /\ Positioned
    BY <1>1 DEF Launch, Idle, catalog, execution, PopulateInv, MeshInv, Barrier
<1>3. \A p \in Peer : Rests(p)
    BY <1>2, MovesOfTheJob
<1>4. \A p \in Peer : Drifts(p) /\ Motion(p) /\ event'[p] = event[p]
    BY <1>3 DEF Drifts, Motion, Rests, Memory
<1>5. Membership' /\ SlotsSpared' /\ retries' \in 0 .. MaxRetries
    BY <1>2, NextConfig DEF SlotsSpared
<1>6. Untouched'
  <2>1. CASE New \notin cfg.nodes
    <3>1. New \notin user' /\ New \notin seeded'
        BY <1>2, <2>1, NothingYet
    <3> QED
        BY <1>4, <2>1, <3>1, UntouchedStays
  <2>2. CASE New \in cfg.nodes
    <3>1. ~First' /\ cfg'.nodes = cfg.nodes
      <4>1. ~Adds
          BY <2>2 DEF Adds, AddNode
      <4>2. PICK d \in Repeats : Launch(d)
          BY <4>1 DEF PRerun, Rerun
      <4>3. cfg' = d /\ d.nodes = cfg.nodes
          BY <4>2 DEF Launch, Repeats, Plain
      <4> QED
          BY <2>2, <4>3, NextConfig
    <3> QED
        BY <2>2, <3>1 DEF Untouched
  <2> QED
      BY <2>1, <2>2
<1>7. \A p \in Peer : Usual(p)
    BY <1>2, <1>4 DEF Usual, PopulateInv, Streams, SlotExists
<1> QED
    BY <1>5, <1>6, <1>7, UsualStays DEF Maintained, PopulateInv

-----------------------------------------------------------------------------
(* Workers on the new node.                                                *)

\* What the copy brings closes what it covered.
LEMMA CopyKeeps ==
  ASSUME PopulateInv, Copy PROVE Maintained
<1>1. /\ WorkerStarts(Source, New) /\ UNCHANGED retries
      /\ MeshInv /\ TypeOK /\ Positioned /\ retries \in 0 .. MaxRetries
      /\ \A p \in Peer : Bounded(p) /\ Held(p) /\ Streams(p) /\ Waited(p) /\ Covered(p)
    BY DEF Copy, PopulateInv, MeshInv
<1>2. /\ sub[<<Source, New>>] \in {"initializing", "copying"}
      /\ sub' = [sub EXCEPT ![<<Source, New>>] = "replicating"]
      /\ slot' = slot \union {<<Source, New>>}
      /\ UNCHANGED <<cfg, user, phases, done, started>>
      /\ sub[<<Source, New>>] # "copying" => seeded' = seeded
    BY <1>1 DEF WorkerStarts, SetSub, execution
<1>3. /\ sub'[<<Source, New>>] = "replicating"
      /\ \A p \in Peer : sub'[<<p, New>>] = sub[<<p, New>>]
  <2>1. <<Source, New>> \in Node \X Node /\ \A p \in Peer : <<p, New>> \in Node \X Node /\ p # Source
      BY Parts
  <2> QED
      BY <1>1, <1>2, <2>1 DEF TypeOK
<1>4. Membership' /\ SlotsSpared' /\ Untouched' /\ retries' \in 0 .. MaxRetries
  <2>1. ~(New \notin cfg.nodes \/ (First /\ started))
      BY <1>2, NothingYet, Parts
  <2> QED
      BY <1>1, <1>2, <2>1 DEF PopulateInv, Membership, NewNodes, SlotsSpared, Untouched, First
<1>5. ASSUME NEW p \in Peer, sub[<<Source, New>>] # "copying"
      PROVE  Held(p)' /\ Streams(p)' /\ Waited(p)' /\ Covered(p)'
  <2>1. Rests(p)
      BY <1>1, <1>5, MovesOfWorkers
  <2>2. Motion(p) /\ event'[p] = event[p]
      BY <2>1 DEF Motion, Drifts, Rests, Memory
  <2>3. Usual(p)
      BY <1>1, <1>2, <1>3, <1>5, <2>2 DEF Usual, Streams, SlotExists
  <2> QED
      BY <1>1, <2>3, UsualStays
<1>6. ASSUME NEW p \in Peer, sub[<<Source, New>>] = "copying"
      PROVE  Held(p)' /\ Streams(p)' /\ Waited(p)' /\ Covered(p)'
  <2>1. Fills(p)
      BY <1>1, <1>6, MovesOfWorkers
  <2>2. Motion(p) /\ event'[p] = event[p] /\ replayed'[p] = replayed[p] /\ rows'[p] = rows[p] \union UpTo(replayed[p])
      BY <2>1 DEF Motion, Fills, Memory, Wal
  <2>3. SlotExists(p, New) /\ Filled(p, replayed[p])
      BY <1>1, <1>6 DEF Held, Relies, Covered
  <2>4. Held(p)'
      BY <1>2, <2>3 DEF Held, SlotExists
  <2>5. Streams(p)'
      BY <1>1, <1>3, <2>2, <2>3, StreamsStay DEF Streams
  <2>6. Waited(p)'
      BY <1>1, <1>2, <2>2 DEF Waited, CaughtUp
  <2>7. event[p] \in Int /\ replayed[p] \in Int
      BY <1>1 DEF Positioned
  <2>8. ASSUME NEW b \in Int, Filled(p, b) PROVE Filled(p, b)'
      BY <1>1, <2>2, <2>3, <2>8, FilledStays
  <2>9. event'[p] # None => Filled(p, event[p])'
    <3>1. PICK b : b = event'[p]
        OBVIOUS
    <3>2. event'[p] # None => Filled(p, b)'
        BY <1>1, <2>2, <2>7, <2>8, <3>1 DEF Covered
    <3> QED
        BY <3>1, <3>2 DEF Filled, Has
  <2>10. Filled(p, 0)'
    <3>1. PICK b : b = replayed[p]
        OBVIOUS
    <3>2. Filled(p, b)'
        BY <2>3, <2>7, <2>8, <3>1
    <3>3. ASSUME NEW x PROVE Has(p, x, b)' => \A c \in UpTo(x) : c \in rows'[p] \/ c <= 0
        BY <2>2, <2>7, <3>1 DEF Has, UpTo
    <3> QED
        BY <3>2, <3>3 DEF Filled, Has
  <2> QED
      BY <1>3, <2>4, <2>5, <2>6, <2>9, <2>10 DEF Covered
<1> QED
    BY <1>4, <1>5, <1>6 DEF Maintained

\* A worker that starts before the slot was made makes it.
LEMMA FirstStartKeeps ==
  ASSUME PopulateInv, NEW q \in Peer, FirstStart(q) PROVE Maintained
<1>1. /\ WorkerStarts(q, New) /\ UNCHANGED retries
      /\ MeshInv /\ TypeOK /\ Positioned /\ retries \in 0 .. MaxRetries
      /\ \A p \in Peer : Bounded(p) /\ Held(p) /\ Streams(p) /\ Waited(p) /\ Covered(p)
    BY DEF FirstStart, PopulateInv, MeshInv
<1>2. /\ sub[<<q, New>>] = "initializing"
      /\ sub' = [sub EXCEPT ![<<q, New>>] = "replicating"]
      /\ slot' = slot \union {<<q, New>>}
      /\ UNCHANGED <<cfg, user, seeded, phases, done, started>>
    BY <1>1 DEF WorkerStarts, SetSub, execution, Streams
<1>3. /\ sub'[<<q, New>>] = "replicating" /\ sub'[<<Source, New>>] = sub[<<Source, New>>]
      /\ \A p \in Peer : p # q => sub'[<<p, New>>] = sub[<<p, New>>]
  <2>1. <<Source, New>> \in Node \X Node /\ Source # q /\ \A p \in Peer : <<p, New>> \in Node \X Node
      BY Parts
  <2> QED
      BY <1>1, <1>2, <2>1 DEF TypeOK
<1>4. Membership' /\ SlotsSpared' /\ Untouched' /\ retries' \in 0 .. MaxRetries
  <2>1. ~(New \notin cfg.nodes \/ (First /\ started))
      BY <1>2, NothingYet, Parts
  <2> QED
      BY <1>1, <1>2, <2>1 DEF PopulateInv, Membership, NewNodes, SlotsSpared, Untouched, First
<1>5. ASSUME NEW p \in Peer PROVE Motion(p) /\ event'[p] = event[p] /\ replayed'[p] = replayed[p]
  <2>1. Rests(p) \/ GetsSlot(p)
      BY <1>1, MovesOfWorkers
  <2> QED
      BY <2>1 DEF Motion, Drifts, Rests, GetsSlot, Memory, Wal
<1>6. ASSUME NEW p \in Peer, p # q PROVE Held(p)' /\ Streams(p)' /\ Waited(p)' /\ Covered(p)'
  <2>1. Usual(p)
      BY <1>1, <1>2, <1>3, <1>5, <1>6 DEF Usual, Streams, SlotExists
  <2> QED
      BY <1>1, <2>1, UsualStays
<1>7. Held(q)' /\ Streams(q)' /\ Waited(q)' /\ Covered(q)'
  <2>1. Held(q)'
      BY <1>2 DEF Held, SlotExists
  <2>2. ~Active(q)
      BY <1>1, <1>2 DEF Streams
  <2>3. Streams(q)'
      BY <1>1, <1>2, <1>3, <1>5, <2>2, StreamsStay
  <2>4. Waited(q)'
      BY <1>1, <1>2, <1>5 DEF Waited, CaughtUp
  <2>5. Covered(q)'
      BY <1>1, <1>2, <1>3, <1>5, CoveredStays
  <2> QED
      BY <2>1, <2>3, <2>4, <2>5
<1> QED
    BY <1>4, <1>6, <1>7 DEF Maintained

-----------------------------------------------------------------------------
(* Calls of the run.                                                       *)

\* A call on the catalogs, as far as the new node is concerned.
LEMMA CallOnTheNew ==
  ASSUME PopulateInv, NEW e \in running, Effect(e)
  PROVE  /\ e \in {"create", "update", "delete"} \X Keys /\ e = <<e[1], e[2]>> /\ e \notin done /\ ~started
         /\ seeded' = seeded /\ (New \notin cfg.nodes => New \notin user')
         /\ \A p \in Peer :
              /\ New \in cfg.nodes /\ SlotExists(p, New) => SlotExists(p, New)'
              /\ e = <<"create", SlotCreate(p, New)>> => SlotExists(p, New)'
              /\ sub'[<<p, New>>] # "copying"
              /\ sub'[<<p, New>>] = "replicating" => sub[<<p, New>>] = "replicating"
              /\ sub[<<p, New>>] = "replicating" =>
                   sub'[<<p, New>>] = "replicating" \/ e = <<"delete", Subscription(p, New)>>
         /\ sub'[<<Source, New>>] = "copying" =>
              \/ sub[<<Source, New>>] = "copying"
              \/ e = <<"create", Subscription(Source, New)>> /\ New \in NewNodes(cfg)
<1>1. /\ MeshInv /\ TypeOK /\ ConfigIs /\ Membership /\ \A p \in Peer : Streams(p)
      /\ New \in Node /\ Source \in Node /\ \A p \in Peer : p \in Node /\ p \in InitialNodes /\ p # Source
    BY Parts DEF PopulateInv, MeshInv
<1>2. /\ e \in {"create", "update", "delete"} \X Keys /\ e \notin done /\ ~started
      /\ phase \in DOMAIN phases /\ e \in phases[phase]
      /\ e[1] = "create" => e[2] \in DesiredIds(cfg)
    BY <1>1, RunningEvent
<1>3. e = <<e[1], e[2]>>
    BY <1>2
<1>4. PICK x \in Node, y \in Node : Change(e, x, y)
    BY <1>2, Effects
<1>5. New \notin cfg.nodes => New \notin user'
  <2> SUFFICES ASSUME New \notin cfg.nodes PROVE New \notin user'
      OBVIOUS
  <2>1. New \notin user
      BY NothingYet
  <2>2. user' = user \/ (e[1] = "create" /\ user' = user \union {e[2][2]})
      BY <1>4 DEF Change, catalog, NodesKept
  <2>3. e[1] = "create" => e[2][2] \in cfg.nodes
      BY <1>1, <1>2, KeysOfTheMaps
  <2> QED
      BY <2>1, <2>2, <2>3
<1>6. ASSUME NEW p \in Peer, New \in cfg.nodes, SlotExists(p, New) PROVE SlotExists(p, New)'
  <2>1. e # <<"delete", Slot(p, New)>>
      BY <1>2, <1>6 DEF PopulateInv, SlotsSpared
  <2>2. slot \subseteq slot' \/ (e = <<"delete", Slot(x, y)>> /\ slot' = slot \ {<<x, y>>})
      BY <1>4 DEF Change, catalog, SlotsKept
  <2>3. e = <<"delete", Slot(x, y)>> => <<x, y>> # <<p, New>>
      BY <2>1 DEF Slot
  <2> QED
      BY <1>6, <2>2, <2>3 DEF SlotExists
<1>7. ASSUME NEW p \in Peer, e = <<"create", SlotCreate(p, New)>> PROVE SlotExists(p, New)'
  <2>1. e[1] = "create" /\ e[2] = <<"slot_create", p, New>>
      BY <1>7 DEF SlotCreate
  <2>2. CreateSlot(p, New)
      BY <2>1 DEF Effect, Create, Positions
  <2> QED
      BY <2>2 DEF CreateSlot, SlotExists
<1>8. ASSUME NEW p \in Peer
      PROVE  /\ sub'[<<p, New>>] # "copying"
             /\ sub'[<<p, New>>] = "replicating" => sub[<<p, New>>] = "replicating"
             /\ sub[<<p, New>>] = "replicating" =>
                  sub'[<<p, New>>] = "replicating" \/ e = <<"delete", Subscription(p, New)>>
  <2>1. ~IsCopy(cfg, p, New) /\ sub[<<p, New>>] # "copying"
      BY <1>1, TheNewNode DEF Streams
  <2> QED
      BY <1>1, <1>2, <2>1, EffectOnSub
<1>9. sub'[<<Source, New>>] = "copying" =>
        \/ sub[<<Source, New>>] = "copying"
        \/ e = <<"create", Subscription(Source, New)>> /\ New \in NewNodes(cfg)
    BY <1>1, <1>2, EffectOnSub DEF IsCopy
<1>10. seeded' = seeded
    BY <1>1, EffectOnCatalogs
<1> QED
    BY <1>2, <1>3, <1>5, <1>6, <1>7, <1>8, <1>9, <1>10

\* A call with its effect, for one peer.
LEMMA CallKeepsPeer ==
  ASSUME PopulateInv, NEW e \in running, Effect(e), NEW p \in Peer, CallMoves(e, p),
         done' \subseteq done \union {e}, Positioned', MeshInv'
  PROVE  /\ Drifts(p) /\ (New \notin cfg.nodes => event'[p] \in {event[p], None})
         /\ Held(p)' /\ Streams(p)' /\ Waited(p)' /\ Covered(p)'
<1>0. /\ MeshInv /\ Membership /\ Positioned
      /\ Bounded(p) /\ Held(p) /\ Streams(p) /\ Waited(p) /\ Covered(p)
    BY DEF PopulateInv
<1> DEFINE Is(k) == e = <<"create", k>>
<1>1. /\ e \notin done /\ seeded' = seeded
      /\ New \in cfg.nodes /\ SlotExists(p, New) => SlotExists(p, New)'
      /\ Is(SlotCreate(p, New)) => SlotExists(p, New)'
      /\ sub'[<<p, New>>] # "copying"
      /\ sub'[<<p, New>>] = "replicating" => sub[<<p, New>>] = "replicating"
      /\ sub[<<p, New>>] = "replicating" =>
           sub'[<<p, New>>] = "replicating" \/ e = <<"delete", Subscription(p, New)>>
      /\ sub'[<<Source, New>>] = "copying" =>
           \/ sub[<<Source, New>>] = "copying"
           \/ Is(Subscription(Source, New)) /\ New \in NewNodes(cfg)
    BY CallOnTheNew
<1>2. Drifts(p) /\ Motion(p)
    BY DEF CallMoves, Drifts, Motion
<1>3. e = <<"delete", Subscription(p, New)>> => Ends(p)
    BY DEF CallMoves, Touching, SlotCreate, SyncEvent, PeerCatchup, LagTracker, SlotAdvance, OriginAdvance
<1>4. /\ SyncEvent(p, Source) # PeerCatchup(p, Source) /\ SyncEvent(p, Source) # SlotCreate(p, New)
      /\ PeerCatchup(p, Source) # SlotCreate(p, New)
      /\ Subscription(Source, New) \notin {SyncEvent(p, Source), PeerCatchup(p, Source), SlotCreate(p, New)}
      /\ <<"create", Subscription(Source, New)>> \notin Touching(p)
    BY DEF SyncEvent, PeerCatchup, SlotCreate, Subscription, LagTracker, SlotAdvance, OriginAdvance, Touching
<1>5. ~Is(SyncEvent(p, Source)) => event'[p] = event[p]
    BY DEF CallMoves, Rests, GetsSlot, Stamps, Advances, Skips, Follows, Ends, Memory
<1>6. \A k : Is(k) /\ e \in Touching(p) => New \in NewNodes(cfg) /\ New \in cfg.nodes
    BY <1>0, OnlyForTheNew
<1>7. New \notin cfg.nodes => event'[p] = event[p]
    BY <1>5, <1>6 DEF Touching
<1>8. New \notin cfg.nodes => ~Relies(p)
    BY NothingYet
<1>9. Active(p) => SlotExists(p, New)
    BY <1>0 DEF Streams, Held, Relies
<1>10. Streams(p)'
    BY <1>0, <1>1, <1>2, <1>3, <1>9, StreamsStay
<1>11. Bounded(p)'
    BY <1>0, <1>2, BoundsStay
<1>12. replayed[p] \in Int /\ replayed'[p] \in Int /\ replayed[p] <= replayed'[p] /\ event[p] \in Int
    BY <1>0, <1>2, ReplayedGrows DEF Positioned
<1>13. CASE Is(SlotCreate(p, New))
  <2>1. Held(p)'
      BY <1>1, <1>13 DEF Held
  <2>2. <<"create", PeerCatchup(p, Source)>> \in done' => <<"create", PeerCatchup(p, Source)>> \in done
      BY <1>4, <1>13
  <2>3. event'[p] = event[p]
      BY <1>4, <1>5, <1>13
  <2>4. Waited(p)'
      BY <1>0, <1>12, <2>2, <2>3 DEF Waited, CaughtUp
  <2>5. sub'[<<Source, New>>] = "copying" => sub[<<Source, New>>] = "copying"
      BY <1>1, <1>4, <1>13
  <2>6. Covered(p)'
      BY <1>0, <1>1, <1>2, <2>3, <2>5, CoveredStays
  <2> QED
      BY <1>2, <1>10, <2>1, <2>3, <2>4, <2>6
<1>14. CASE Is(SyncEvent(p, Source))
  <2>1. Writes(p) /\ event'[p] = end[p] + 1 /\ end'[p] = end[p] + 1
      BY <1>14 DEF CallMoves, Touching, SyncEvent, SlotCreate, PeerCatchup, LagTracker, SlotAdvance,
                   OriginAdvance, Subscription, Writes
  <2>2. New \in NewNodes(cfg) /\ New \in cfg.nodes
      BY <1>6, <1>14 DEF Touching
  <2>3. SlotExists(p, New) /\ SlotExists(p, New)'
    <3>1. <<"create", SlotCreate(p, New)>> \in done
        BY <1>0, <1>14, <2>2, InTheChain DEF After
    <3> QED
        BY <1>0, <1>1, <2>2, <3>1 DEF Held, Relies
  <2>4. Held(p)'
      BY <2>3 DEF Held
  <2>5. Waited(p)'
    <3>1. <<"create", PeerCatchup(p, Source)>> \notin done
        BY <1>0, <1>1, <1>14, <2>2, InTheChain DEF After
    <3> QED
        BY <1>4, <1>14, <3>1 DEF Waited
  <2>6. ASSUME NEW b \in Int, Filled(p, b) PROVE Filled(p, b)'
      BY <1>0, <1>2, <2>3, <2>6, FilledStays
  <2>7. Filled(p, event[p])'
    <3>1. /\ flushed'[p] \in Int /\ origin'[p] \in Int /\ progress'[p] \in Int /\ stamp'[p] \in Int
          /\ moved'[p] \in Int /\ event'[p] \in Int
        BY DEF Positioned
    <3>2. /\ flushed'[p] <= event'[p] /\ origin'[p] <= event'[p] /\ progress'[p] <= event'[p]
          /\ stamp'[p] <= event'[p] /\ moved'[p] <= event'[p]
        BY <1>11, <2>1 DEF Bounded
    <3>3. \A x, b \in Int : x <= b => \A c \in UpTo(x) : c <= b
        BY DEF UpTo
    <3> QED
        BY <3>1, <3>2, <3>3 DEF Filled, Has
  <2>8. sub'[<<Source, New>>] = "copying" => Filled(p, replayed[p])'
    <3> SUFFICES ASSUME sub'[<<Source, New>>] = "copying" PROVE Filled(p, replayed[p])'
        OBVIOUS
    <3>1. replayed'[p] = replayed[p] /\ Filled(p, replayed[p])
        BY <1>0, <1>1, <1>4, <1>14, <2>1 DEF Covered, Writes
    <3>2. PICK b : b = replayed'[p]
        OBVIOUS
    <3>3. Filled(p, b)'
        BY <1>12, <2>6, <3>1, <3>2
    <3> QED
        BY <3>2, <3>3 DEF Filled, Has
  <2>9. New \in seeded' => Filled(p, 0)'
      BY <1>0, <1>1, <2>6 DEF Covered
  <2> QED
      BY <1>2, <1>10, <2>2, <2>4, <2>5, <2>7, <2>8, <2>9 DEF Covered
<1>15. CASE Is(PeerCatchup(p, Source))
  <2>1. CaughtUp(p) /\ Rests(p)
      BY <1>15 DEF CallMoves, Touching, SyncEvent, SlotCreate, PeerCatchup, LagTracker, SlotAdvance,
                   OriginAdvance, Subscription
  <2>2. New \in cfg.nodes
      BY <1>6, <1>15 DEF Touching
  <2>3. event'[p] = event[p] /\ replayed'[p] = replayed[p]
      BY <2>1 DEF Rests, Memory, Wal
  <2>4. <<"create", SlotCreate(p, New)>> \in done' => <<"create", SlotCreate(p, New)>> \in done
      BY <1>4, <1>15
  <2>5. sub'[<<Source, New>>] = "copying" => sub[<<Source, New>>] = "copying"
      BY <1>1, <1>4, <1>15
  <2>6. Held(p)'
      BY <1>0, <1>1, <2>2, <2>3, <2>4, <2>5 DEF Held, Relies
  <2>7. Waited(p)'
      BY <2>1, <2>3 DEF Waited, CaughtUp
  <2>8. Covered(p)'
      BY <1>0, <1>1, <1>2, <2>3, <2>5, CoveredStays
  <2> QED
      BY <1>2, <1>10, <2>2, <2>6, <2>7, <2>8
<1>16. CASE Is(Subscription(Source, New)) /\ New \in NewNodes(cfg)
  <2>1. Rests(p) /\ event'[p] = event[p] /\ replayed'[p] = replayed[p] /\ New \in cfg.nodes
    <3>1. e \notin Touching(p)
        BY <1>4, <1>16
    <3>2. Rests(p)
        BY <3>1 DEF CallMoves, Touching
    <3> QED
        BY <1>16, <3>2 DEF Rests, Memory, Wal, NewNodes
  <2>2. CaughtUp(p)
    <3>1. <<"create", PeerCatchup(p, Source)>> \in done
        BY <1>0, <1>16, InTheChain DEF After
    <3> QED
        BY <1>0, <3>1 DEF Waited
  <2>3. SlotExists(p, New) /\ SlotExists(p, New)' /\ Filled(p, event[p]) /\ event[p] <= replayed[p]
      BY <1>0, <1>1, <2>1, <2>2 DEF CaughtUp, Held, Relies, Covered
  <2>4. Held(p)'
      BY <2>3 DEF Held
  <2>5. Waited(p)'
    <3>1. CaughtUp(p)'
        BY <2>1, <2>2 DEF CaughtUp
    <3> QED
        BY <3>1 DEF Waited
  <2>6. Filled(p, replayed[p])
      BY <1>12, <2>3, FilledMore
  <2>7. ASSUME NEW b \in Int, Filled(p, b) PROVE Filled(p, b)'
      BY <1>0, <1>2, <2>3, <2>7, FilledStays
  <2>8. Filled(p, event[p])' /\ Filled(p, replayed[p])'
    <3>1. PICK a, b : a = event'[p] /\ b = replayed'[p]
        OBVIOUS
    <3>2. Filled(p, a)' /\ Filled(p, b)'
        BY <1>12, <2>1, <2>3, <2>6, <2>7, <3>1
    <3> QED
        BY <3>1, <3>2 DEF Filled, Has
  <2>9. New \in seeded' => Filled(p, 0)'
      BY <1>0, <1>1, <2>7 DEF Covered
  <2> QED
      BY <1>2, <1>10, <2>1, <2>4, <2>5, <2>8, <2>9 DEF Covered
<1>17. CASE /\ ~Is(SlotCreate(p, New)) /\ ~Is(SyncEvent(p, Source)) /\ ~Is(PeerCatchup(p, Source))
            /\ ~(Is(Subscription(Source, New)) /\ New \in NewNodes(cfg))
  <2>1. Usual(p)
      BY <1>1, <1>2, <1>3, <1>5, <1>8, <1>17 DEF Usual
  <2> QED
      BY <1>0, <1>2, <1>5, <1>17, <2>1, UsualStays
<1> QED
    BY <1>13, <1>14, <1>15, <1>16, <1>17

LEMMA CallKeeps ==
  ASSUME PopulateInv, NEW e \in running, PCalled(e), MeshInv', Positioned' PROVE Maintained
<1>1. /\ UNCHANGED <<cfg, phases, started, retries>> /\ done' \subseteq done \union {e}
      /\ (Effect(e) /\ Move(e)) \/ UNCHANGED <<catalog, positions, done>>
      /\ Positioned /\ retries \in 0 .. MaxRetries
    BY DEF PCalled, Called, PopulateInv
<1>2. CASE UNCHANGED <<catalog, positions, done>>
  <2>1. UNCHANGED <<user, sub, slot, seeded>>
      BY <1>2 DEF catalog
  <2>2. \A p \in Peer : Rests(p)
      BY <1>1, <1>2, PositionsRest
  <2>3. Calm
      BY <1>1, <1>2, <2>1, <2>2 DEF Calm, Walked, SlotExists
  <2> QED
      BY <2>3, CalmKeeps
<1>3. CASE Effect(e) /\ Move(e)
  <2>1. \A p \in Peer : CallMoves(e, p)
      BY <1>1, <1>3, MovesOf
  <2>2. \A p \in Peer : /\ Drifts(p) /\ (New \notin cfg.nodes => event'[p] \in {event[p], None})
                        /\ Held(p)' /\ Streams(p)' /\ Waited(p)' /\ Covered(p)'
      BY <1>1, <1>3, <2>1, CallKeepsPeer
  <2>3. Membership' /\ SlotsSpared' /\ retries' \in 0 .. MaxRetries
      BY <1>1 DEF PopulateInv, Membership, NewNodes, SlotsSpared
  <2>4. Untouched'
    <3>1. ~started /\ seeded' = seeded /\ (New \notin cfg.nodes => New \notin user')
        BY <1>3, CallOnTheNew
    <3>2. CASE New \notin cfg.nodes
      <4>1. New \notin seeded'
          BY <3>1, <3>2, NothingYet
      <4> QED
          BY <2>2, <3>1, <3>2, <4>1, UntouchedStays
    <3>3. CASE New \in cfg.nodes
        BY <1>1, <3>1, <3>3 DEF Untouched
    <3> QED
        BY <3>2, <3>3
  <2> QED
      BY <2>2, <2>3, <2>4 DEF Maintained
<1> QED
    BY <1>1, <1>2, <1>3

-----------------------------------------------------------------------------
(* The theorems.                                                           *)

\* Every step keeps the invariant.
LEMMA PopulateStep ==
  ASSUME PopulateInv, [PNext]_pvars PROVE PopulateInv'
<1>1. MeshInv /\ MeshInv' /\ Positioned'
    BY MeshKeeps, Motions DEF PopulateInv
<1>2. Maintained
    BY <1>1, PSteps, CallKeeps, PlanningKeeps, ReturningKeeps, LaunchingKeeps, CopyKeeps, FirstStartKeeps,
       CalmSteps, CalmKeeps
<1> QED
    BY <1>2, Together

LEMMA PopulateAlways ==
  PSpec => []PopulateInv
<1>1. PInit => PopulateInv
    BY StartIsFine
<1>2. PopulateInv /\ [PNext]_pvars => PopulateInv'
    BY PopulateStep
<1> QED
    BY <1>1, <1>2, PTL DEF PSpec

(* Positions keep their order in every history: a slot restarts at or      *)
(* before what was confirmed, nothing is confirmed, replayed or remembered *)
(* that is not in the WAL (slots, spock.progress and the LSNs that the     *)
(* resources of a run pass on), and the new node has no commit that no     *)
(* peer made.                                                              *)
THEOREM PopulateTypes ==
  PSpec => []PTypeOK
<1>1. ASSUME PopulateInv PROVE PTypeOK
  <2>1. TypeOK /\ Positioned /\ retries \in 0 .. MaxRetries
      BY <1>1 DEF PopulateInv, MeshInv
  <2>2. ASSUME NEW p \in Peer
        PROVE  /\ end[p] \in Nat /\ replayed[p] \in Nat /\ restart[p] \in Nat /\ flushed[p] \in Nat
               /\ origin[p] \in Nat
               /\ \A x \in {stream[p], progress[p], event[p], stamp[p], moved[p]} : x \in Nat \union {None}
               /\ rows[p] \subseteq UpTo(end[p])
               /\ replayed[p] <= end[p] /\ restart[p] <= flushed[p] /\ flushed[p] <= end[p]
               /\ step[p] \in {"target", "active", "compare", "advance"}
      BY <1>1 DEF PopulateInv, Positioned, Bounded, None, Statement
  <2>3. {end, replayed, restart, flushed, origin} \subseteq [Peer -> Nat]
      BY <2>1, <2>2 DEF Positioned
  <2>4. {stream, progress, event, stamp, moved} \subseteq [Peer -> Nat \union {None}]
      BY <2>1, <2>2 DEF Positioned
  <2> QED
      BY <2>1, <2>2, <2>3, <2>4 DEF PTypeOK
<1> QED
    BY <1>1, PopulateAlways, PTL

(* Whatever peers write, workers do and calls fail at, in the run that     *)
(* adds a node and in all runs that repair it: once the node has its copy, *)
(* a commit of a peer that it lacks is still to come through the slot that *)
(* ReplicationSlotCreate made there, behind the position that slot and     *)
(* origin were advanced to (replication_slot_advance.go,                   *)
(* replication_origin_advance.go).  It rests on the order of desired.go:   *)
(* slot, sync event, catch-up of the source, copy.                         *)
THEOREM NothingIsLost ==
  PSpec => []NoCommitIsLost
<1>1. ASSUME PopulateInv PROVE NoCommitIsLost
  <2> SUFFICES ASSUME New \in seeded, NEW p \in Peer, NEW c \in UpTo(end[p]), c \notin rows[p]
               PROVE  SlotExists(p, New) /\ c > Larger(flushed[p], origin[p])
      BY DEF NoCommitIsLost
  <2>1. Filled(p, 0) /\ SlotExists(p, New)
      BY <1>1 DEF PopulateInv, Covered, Held, Relies
  <2>2. /\ flushed[p] \in Int /\ origin[p] \in Int /\ end[p] \in Int
        /\ c \in Int /\ 1 <= c
      BY <1>1 DEF PopulateInv, Positioned, UpTo
  <2>3. c \notin UpTo(flushed[p]) /\ c \notin UpTo(origin[p])
      BY <2>1, <2>2 DEF Filled, Has
  <2> QED
      BY <2>1, <2>2, <2>3 DEF UpTo, Larger
<1> QED
    BY <1>1, PopulateAlways, PTL

-----------------------------------------------------------------------------
(* The run that adds the node: the invariant.                              *)

\* The call can still return in this run, or be made.
Pending(k) ==
  /\ started \/ result = "running"
  /\ <<"create", k>> \in running \/ (~failed /\ <<"create", k>> \notin done)

Unsent(p) == sub[<<p, New>>] \in {"none", "disabled"}

SubsSpared ==
  \A m \in DOMAIN phases, x \in InitialNodes :
    {<<"update", Subscription(x, New)>>, <<"delete", Subscription(x, New)>>} \intersect phases[m] = {}

CopiedOnce ==
  /\ sub[<<Source, New>>] \in {"none", "copying", "replicating"}
  /\ <<"create", WaitForSync(Source, New)>> \in done => sub[<<Source, New>>] = "replicating"

\* Slot, copy, enabling.
Stages(p) ==
  /\ sub[<<Source, New>>] # "none" =>
       SlotExists(p, New) /\ (result = "running" => <<"create", PeerCatchup(p, Source)>> \in done)
  /\ sub[<<Source, New>>] # "replicating" => rows[p] = {} /\ progress[p] = None /\ stamp[p] = None
  /\ ~Unsent(p) => /\ sub[<<Source, New>>] = "replicating"
                   /\ result = "running" => <<"create", OriginAdvance(p, New)>> \in done

\* Before the slot is advanced it is where it was made.
Before(p) ==
  Pending(SlotAdvance(p, New)) =>
    /\ restart[p] = flushed[p]
    /\ \A x \in {event[p], progress[p], stamp[p]} : x # None => flushed[p] < x

\* Until the subscription is enabled the lag tracker says what the copy brought.
Copied(p) ==
  Unsent(p) => \A x \in {progress[p], stamp[p]} : x # None => rows[p] = UpTo(x)

Advanced(p) ==
  Unsent(p) /\ stamp[p] # None =>
    /\ <<"create", SlotAdvance(p, New)>> \in done => moved[p] = stamp[p] /\ flushed[p] = stamp[p]
    /\ <<"create", OriginAdvance(p, New)>> \in done => origin[p] = stamp[p]

Sent(p) ==
  ~Unsent(p) /\ stamp[p] # None => rows[p] = UpTo(origin[p]) /\ flushed[p] <= origin[p]

FirstPeer(p) == Stages(p) /\ Before(p) /\ Copied(p) /\ Advanced(p) /\ Sent(p)

FirstInv == First => SubsSpared /\ CopiedOnce /\ \A p \in Peer : FirstPeer(p)

\* What most steps are for a peer.
Steady(p) ==
  /\ Unsent(p)' <=> Unsent(p)
  /\ \/ sub'[<<Source, New>>] = sub[<<Source, New>>]
     \/ /\ sub[<<Source, New>>] = "none" /\ sub'[<<Source, New>>] = "copying"
        /\ SlotExists(p, New) /\ <<"create", PeerCatchup(p, Source)>> \in done
  /\ SlotExists(p, New) => SlotExists(p, New)'
  /\ Pending(SlotAdvance(p, New))' => Pending(SlotAdvance(p, New))
  /\ result' = "running" => result = "running" /\ done \subseteq done'
  /\ \/ /\ Walked(p) \/ Writes(p)
        /\ \A k \in {SlotAdvance(p, New), OriginAdvance(p, New)} :
             <<"create", k>> \in done' => <<"create", k>> \in done
     \/ Forgets(p) /\ done' = {}

\* Calls of the chain are over for a peer whose subscription is enabled.
LEMMA EnabledIsLast ==
  ASSUME PopulateInv, First, FirstInv, NEW p \in Peer,
         ~Unsent(p) \/ sub[<<p, New>>] = "replicating" \/ Active(p)
  PROVE  /\ ~Unsent(p) /\ sub[<<Source, New>>] = "replicating"
         /\ \A k \in {SlotCreate(p, New), LagTracker(p, New), SlotAdvance(p, New), OriginAdvance(p, New)} :
              <<"create", k>> \notin running
         /\ ~Pending(SlotAdvance(p, New))
<1>1. /\ MeshInv /\ Membership /\ New \in NewNodes(cfg) /\ Stages(p) /\ Streams(p) /\ Barrier
    BY DEF PopulateInv, MeshInv, First, FirstInv, FirstPeer
<1>2. ~Unsent(p)
    BY <1>1 DEF Unsent, Streams
<1>3. sub[<<Source, New>>] = "replicating"
    BY <1>1, <1>2 DEF Stages
<1>4. ~started
    BY <1>2, NothingYet, Parts DEF Unsent
<1>5. CASE result = "running"
  <2>1. <<"create", OriginAdvance(p, New)>> \in done
      BY <1>1, <1>2, <1>5 DEF Stages
  <2>2. <<"create", SlotAdvance(p, New)>> \in done
      BY <1>1, <2>1, InTheChain DEF After
  <2>3. <<"create", LagTracker(p, New)>> \in done
      BY <1>1, <2>2, InTheChain DEF After
  <2>4. <<"create", PeerCatchup(p, Source)>> \in done
      BY <1>1, <1>3, <1>5 DEF Stages
  <2>5. <<"create", SyncEvent(p, Source)>> \in done
      BY <1>1, <2>4, InTheChain DEF After
  <2>6. <<"create", SlotCreate(p, New)>> \in done
      BY <1>1, <2>5, InTheChain DEF After
  <2>7. \A e \in running : e \notin done
      BY <1>1 DEF Barrier
  <2> QED
      BY <1>2, <1>3, <2>1, <2>2, <2>3, <2>6, <2>7 DEF Pending
<1>6. CASE result # "running"
  <2>1. running = {}
      BY <1>1, <1>6, RunningEvent
  <2> QED
      BY <1>2, <1>3, <1>4, <1>6, <2>1 DEF Pending
<1> QED
    BY <1>5, <1>6

\* Whatever commits, workers and other calls do.
LEMMA SteadyKeeps ==
  ASSUME PopulateInv, First, FirstInv, NEW p \in Peer, Steady(p)
  PROVE  FirstPeer(p)'
<1>1. /\ Stages(p) /\ Before(p) /\ Copied(p) /\ Advanced(p) /\ Sent(p)
      /\ Positioned /\ Bounded(p) /\ Streams(p)
    BY DEF PopulateInv, FirstInv, FirstPeer
<1>2. /\ end[p] \in Int /\ restart[p] \in Int /\ flushed[p] \in Int /\ stream[p] \in Int /\ origin[p] \in Int
      /\ progress[p] \in Int /\ event[p] \in Int /\ stamp[p] \in Int /\ 0 <= origin[p] /\ flushed[p] <= end[p]
    BY <1>1 DEF Positioned, Bounded
<1>3. Walked(p) \/ Writes(p) \/ Forgets(p)
    BY DEF Steady
<1>4. Active(p) => ~Unsent(p) /\ sub[<<Source, New>>] = "replicating" /\ ~Pending(SlotAdvance(p, New))
                   /\ stream[p] = Larger(origin[p], flushed[p])
    BY <1>1, EnabledIsLast DEF Streams
<1> USE DEF Wal, SlotAt, OnNew, Memory
<1>5. Stages(p)'
  <2>1. Active(p) \/ (rows'[p] = rows[p] /\ progress'[p] = progress[p])
      BY <1>3 DEF Walked, Rests, Writes, Replays, Attaches, Applies, Confirms, Ends, Forgets
  <2>2. stamp'[p] = stamp[p]
      BY <1>3 DEF Walked, Rests, Writes, Replays, Attaches, Applies, Confirms, Ends, Forgets
  <2>3. sub'[<<Source, New>>] # "none" =>
          SlotExists(p, New)' /\ (result' = "running" => <<"create", PeerCatchup(p, Source)>> \in done')
      BY <1>1 DEF Steady, Stages
  <2>4. sub'[<<Source, New>>] # "replicating" => rows'[p] = {} /\ progress'[p] = None /\ stamp'[p] = None
      BY <1>1, <1>4, <2>1, <2>2 DEF Steady, Stages
  <2>5. ~Unsent(p)' => /\ sub'[<<Source, New>>] = "replicating"
                       /\ result' = "running" => <<"create", OriginAdvance(p, New)>> \in done'
      BY <1>1 DEF Steady, Stages
  <2> QED
      BY <2>3, <2>4, <2>5 DEF Stages
<1>6. Before(p)'
  <2> SUFFICES ASSUME Pending(SlotAdvance(p, New))'
               PROVE  /\ restart'[p] = flushed'[p]
                      /\ \A x \in {event'[p], progress'[p], stamp'[p]} : x # None => flushed'[p] < x
      BY DEF Before
  <2>1. Pending(SlotAdvance(p, New)) /\ ~Active(p)
      BY <1>4 DEF Steady
  <2>2. /\ restart[p] = flushed[p]
        /\ \A x \in {event[p], progress[p], stamp[p]} : x # None => flushed[p] < x
      BY <1>1, <2>1 DEF Before
  <2>3. /\ restart'[p] = restart[p] /\ flushed'[p] = flushed[p]
        /\ progress'[p] = progress[p] /\ stamp'[p] = stamp[p]
      BY <1>3, <2>1 DEF Walked, Rests, Writes, Replays, Attaches, Applies, Confirms, Ends, Forgets
  <2>4. event'[p] \in {event[p], end[p] + 1, None}
      BY <1>3 DEF Walked, Rests, Writes, Replays, Attaches, Applies, Confirms, Ends, Forgets
  <2>5. flushed[p] < end[p] + 1
      BY <1>2
  <2> QED
      BY <2>2, <2>3, <2>4, <2>5
<1>7. Copied(p)' /\ Advanced(p)'
  <2> SUFFICES ASSUME Unsent(p) PROVE Copied(p)' /\ Advanced(p)'
      BY DEF Steady, Copied, Advanced
  <2>1. ~Active(p)
      BY <1>4
  <2>2. rows'[p] = rows[p] /\ progress'[p] = progress[p] /\ stamp'[p] = stamp[p] /\ origin'[p] = origin[p]
          /\ flushed'[p] = flushed[p]
      BY <1>3, <2>1 DEF Walked, Rests, Writes, Replays, Attaches, Applies, Confirms, Ends, Forgets
  <2>3. Walked(p) \/ Writes(p) => moved'[p] = moved[p]
      BY DEF Walked, Rests, Writes, Replays, Attaches, Applies, Confirms, Ends
  <2>4. Copied(p)'
      BY <1>1, <2>2 DEF Copied
  <2>5. Advanced(p)'
      BY <1>1, <2>2, <2>3 DEF Advanced, Steady
  <2> QED
      BY <2>4, <2>5
<1>8. Sent(p)'
  <2> SUFFICES ASSUME ~Unsent(p), stamp[p] # None
               PROVE  rows'[p] = UpTo(origin'[p]) /\ flushed'[p] <= origin'[p]
    <3>1. stamp'[p] = stamp[p]
        BY <1>3 DEF Walked, Rests, Writes, Replays, Attaches, Applies, Confirms, Ends, Forgets
    <3> QED
        BY <3>1 DEF Steady, Sent
  <2>1. rows[p] = UpTo(origin[p]) /\ flushed[p] <= origin[p]
      BY <1>1 DEF Sent
  <2>2. CASE Applies(p)
    <3>1. stream[p] = origin[p]
        BY <1>2, <1>4, <2>1, <2>2 DEF Applies, Larger
    <3>2. rows'[p] = UpTo(origin[p]) \union {origin[p] + 1} /\ origin'[p] = origin[p] + 1
            /\ flushed'[p] = flushed[p]
        BY <2>1, <2>2, <3>1 DEF Applies
    <3>3. UpTo(origin[p]) \union {origin[p] + 1} = UpTo(origin[p] + 1)
        BY <1>2 DEF UpTo
    <3> QED
        BY <1>2, <2>1, <3>2, <3>3
  <2>3. CASE Confirms(p)
    <3>1. flushed'[p] = origin[p] /\ origin'[p] = origin[p] /\ rows'[p] = rows[p]
        BY <2>3 DEF Confirms
    <3> QED
        BY <1>2, <2>1, <3>1
  <2>4. CASE ~Applies(p) /\ ~Confirms(p)
    <3>1. flushed'[p] = flushed[p] /\ origin'[p] = origin[p] /\ rows'[p] = rows[p]
        BY <1>3, <2>4 DEF Walked, Rests, Writes, Replays, Attaches, Ends, Forgets
    <3> QED
        BY <2>1, <3>1
  <2> QED
      BY <2>2, <2>3, <2>4
<1> QED
    BY <1>5, <1>6, <1>7, <1>8 DEF FirstPeer

\* What a call of this run does to the subscriptions of the new node.
LEMMA FirstCallOnSubs ==
  ASSUME PopulateInv, First, FirstInv, NEW e \in running, Effect(e)
  PROVE  /\ \A x \in InitialNodes : e # <<"delete", Subscription(x, New)>>
         /\ \/ sub'[<<Source, New>>] = sub[<<Source, New>>]
            \/ /\ e = <<"create", Subscription(Source, New)>>
               /\ sub[<<Source, New>>] = "none" /\ sub'[<<Source, New>>] = "copying"
         /\ \A p \in Peer :
              \/ Unsent(p)' <=> Unsent(p)
              \/ e = <<"create", Subscription(p, New)>> /\ Unsent(p)
<1>1. /\ MeshInv /\ TypeOK /\ ConfigIs /\ Membership /\ New \in NewNodes(cfg) /\ SubsSpared /\ CopiedOnce
      /\ New \in Node /\ Source \in Node /\ InitialNodes \subseteq Node /\ Source \in InitialNodes
      /\ Peer \subseteq InitialNodes
    BY Parts DEF PopulateInv, MeshInv, First, FirstInv
<1>2. /\ e \in {"create", "update", "delete"} \X Keys /\ e \in phases[phase] /\ phase \in DOMAIN phases
      /\ e[1] = "create" => e[2] \in DesiredIds(cfg)
      /\ e[1] = "update" => e[2][1] = "subscription"
    BY <1>1, RunningEvent
<1>3. ASSUME NEW x \in InitialNodes
      PROVE  e # <<"delete", Subscription(x, New)>> /\ e # <<"update", Subscription(x, New)>>
    BY <1>1, <1>2 DEF SubsSpared
<1>4. ASSUME NEW x \in InitialNodes, e[1] = "update" PROVE ~(e[2][2] = x /\ e[2][3] = New)
  <2> SUFFICES ASSUME e[2][2] = x /\ e[2][3] = New PROVE FALSE
      OBVIOUS
  <2>1. e = <<"update", Subscription(x, New)>>
      BY <1>2, <1>4 DEF Subscription, Keys
  <2> QED
      BY <1>3, <2>1
<1>5. \A x \in InitialNodes :
        \/ sub'[<<x, New>>] = sub[<<x, New>>]
        \/ /\ e = <<"create", Subscription(x, New)>>
           /\ \/ sub[<<x, New>>] = "disabled" /\ sub'[<<x, New>>] = "initializing"
              \/ /\ sub[<<x, New>>] = "none"
                 /\ sub'[<<x, New>>] = (IF IsCopy(cfg, x, New) THEN "copying" ELSE "initializing")
        \/ /\ e = <<"create", DisabledSub(x, New)>>
           /\ sub[<<x, New>>] = "none" /\ sub'[<<x, New>>] = "disabled"
    BY <1>1, <1>2, <1>3, <1>4, EffectOnSub
<1>6. \/ sub'[<<Source, New>>] = sub[<<Source, New>>]
      \/ /\ e = <<"create", Subscription(Source, New)>>
         /\ sub[<<Source, New>>] = "none" /\ sub'[<<Source, New>>] = "copying"
  <2>1. e # <<"create", DisabledSub(Source, New)>>
    <3>1. IsConfig(cfg) /\ OneNew(cfg) /\ Peers(cfg, New) = Peer
        BY <1>1, TheNewNode
    <3>2. DisabledSub(Source, New) \notin DesiredIds(cfg)
        BY <3>1, DesiredShapes, Parts
    <3> QED
        BY <1>2, <3>2
  <2>2. IsCopy(cfg, Source, New)
      BY <1>1, TheNewNode DEF IsCopy
  <2> QED
      BY <1>1, <1>5, <2>1, <2>2 DEF CopiedOnce
<1>7. ASSUME NEW p \in Peer
      PROVE  (Unsent(p)' <=> Unsent(p)) \/ (e = <<"create", Subscription(p, New)>> /\ Unsent(p))
    BY <1>1, <1>5 DEF Unsent
<1> QED
    BY <1>3, <1>6, <1>7

\* How the run goes on when a call returns.
LEMMA CallReturned ==
  ASSUME PopulateInv, NEW e \in running, PCalled(e)
  PROVE  /\ UNCHANGED <<cfg, phases, started, retries, result>>
         /\ done \subseteq done' /\ done' \subseteq done \union {e}
         /\ result = "running" /\ ~started
         /\ \A k : Pending(k)' => Pending(k) /\ e # <<"create", k>>
<1>1. /\ running' = running \ {e} /\ UNCHANGED <<cfg, phases, started, retries, result>>
      /\ \/ done' = done \union {e} /\ failed' = failed
         \/ done' = done /\ failed' = TRUE
    BY DEF PCalled, Called
<1>2. result = "running" /\ ~started
    BY RunningEvent DEF PopulateInv
<1>3. ASSUME NEW k, Pending(k)' PROVE Pending(k) /\ e # <<"create", k>>
  <2>1. <<"create", k>> \in running' \/ (~failed' /\ <<"create", k>> \notin done')
      BY <1>3 DEF Pending
  <2>2. <<"create", k>> \in running \/ (~failed /\ <<"create", k>> \notin done)
      BY <1>1, <2>1
  <2>3. e # <<"create", k>>
      BY <1>1, <2>1
  <2> QED
      BY <1>2, <2>2, <2>3 DEF Pending
<1> QED
    BY <1>1, <1>2, <1>3

\* A call of this run, for one peer.
LEMMA FirstCallKeepsPeer ==
  ASSUME PopulateInv, First, FirstInv, NEW e \in running, PCalled(e), Effect(e), NEW p \in Peer, CallMoves(e, p)
  PROVE  FirstPeer(p)'
<1> DEFINE Is(k) == e = <<"create", k>>
<1>1. /\ Stages(p) /\ Before(p) /\ Copied(p) /\ Advanced(p) /\ Sent(p) /\ SubsSpared /\ CopiedOnce
      /\ Positioned /\ Bounded(p) /\ Streams(p) /\ Held(p) /\ Waited(p)
      /\ MeshInv /\ Membership /\ New \in NewNodes(cfg) /\ New \in cfg.nodes
    BY DEF PopulateInv, First, FirstInv, FirstPeer, NewNodes
<1>2. /\ UNCHANGED <<cfg, phases, started, retries, result>>
      /\ done \subseteq done' /\ done' \subseteq done \union {e}
      /\ result = "running" /\ ~started
      /\ \A k : Pending(k)' => Pending(k) /\ ~Is(k)
    BY CallReturned
<1>3. /\ e # <<"delete", Subscription(p, New)>>
      /\ \/ sub'[<<Source, New>>] = sub[<<Source, New>>]
         \/ /\ Is(Subscription(Source, New))
            /\ sub[<<Source, New>>] = "none" /\ sub'[<<Source, New>>] = "copying"
      /\ (Unsent(p)' <=> Unsent(p)) \/ (Is(Subscription(p, New)) /\ Unsent(p))
    BY FirstCallOnSubs, Parts
<1>4. e \notin done /\ (SlotExists(p, New) => SlotExists(p, New)')
    BY <1>1, CallOnTheNew
<1>5. /\ Is(Subscription(Source, New)) => <<"create", PeerCatchup(p, Source)>> \in done
      /\ Is(SlotAdvance(p, New)) => <<"create", LagTracker(p, New)>> \in done
      /\ Is(OriginAdvance(p, New)) => <<"create", SlotAdvance(p, New)>> \in done
      /\ Is(Subscription(p, New)) => <<"create", OriginAdvance(p, New)>> \in done
    BY <1>1, InTheChain DEF After
<1>6. /\ <<"create", OriginAdvance(p, New)>> \in done => <<"create", SlotAdvance(p, New)>> \in done
      /\ <<"create", SlotAdvance(p, New)>> \in done => <<"create", LagTracker(p, New)>> \in done
      /\ <<"create", LagTracker(p, New)>> \in done => <<"create", WaitForSync(Source, New)>> \in done
      /\ <<"create", PeerCatchup(p, Source)>> \in done => <<"create", SyncEvent(p, Source)>> \in done
      /\ <<"create", SyncEvent(p, Source)>> \in done => <<"create", SlotCreate(p, New)>> \in done
    BY <1>1, InTheChain DEF After
<1>7. Is(Subscription(Source, New)) => SlotExists(p, New)
    BY <1>1, <1>5, <1>6 DEF Held, Relies
<1>8. /\ end[p] \in Int /\ restart[p] \in Int /\ flushed[p] \in Int /\ stream[p] \in Int /\ origin[p] \in Int
      /\ progress[p] \in Int /\ event[p] \in Int /\ stamp[p] \in Int /\ moved[p] \in Int
    BY <1>1 DEF Positioned
<1> USE DEF Wal, SlotAt, OnNew, Memory
<1>9. CASE /\ Unsent(p)' <=> Unsent(p)
           /\ Rests(p) \/ Writes(p)
           /\ ~Is(SlotAdvance(p, New)) /\ ~Is(OriginAdvance(p, New))
  <2>1. Steady(p)
    <3>1. \A k \in {SlotAdvance(p, New), OriginAdvance(p, New)} :
            <<"create", k>> \in done' => <<"create", k>> \in done
        BY <1>2, <1>9
    <3>2. \/ sub'[<<Source, New>>] = sub[<<Source, New>>]
          \/ /\ sub[<<Source, New>>] = "none" /\ sub'[<<Source, New>>] = "copying"
             /\ SlotExists(p, New) /\ <<"create", PeerCatchup(p, Source)>> \in done
        BY <1>3, <1>5, <1>7
    <3> QED
        BY <1>2, <1>4, <1>9, <3>1, <3>2 DEF Steady, Walked
  <2> QED
      BY <2>1, SteadyKeeps
<1>10. CASE Is(Subscription(p, New)) /\ Unsent(p) /\ ~(Unsent(p)' <=> Unsent(p))
  <2>1. Rests(p)
      BY <1>10 DEF CallMoves, Touching, SyncEvent, SlotCreate, PeerCatchup, LagTracker, SlotAdvance,
                   OriginAdvance, Subscription
  <2>2. sub'[<<Source, New>>] = sub[<<Source, New>>] /\ sub[<<Source, New>>] = "replicating"
    <3>1. Subscription(p, New) # Subscription(Source, New)
        BY Parts DEF Subscription
    <3> QED
        BY <1>1, <1>3, <1>5, <1>6, <1>10, <3>1 DEF CopiedOnce
  <2>3. <<"create", OriginAdvance(p, New)>> \in done /\ <<"create", SlotAdvance(p, New)>> \in done
      BY <1>5, <1>6, <1>10
  <2>4. Stages(p)'
      BY <1>1, <1>2, <1>4, <2>1, <2>2, <2>3 DEF Stages, Rests
  <2>5. ~Unsent(p)' /\ Before(p)'
      BY <1>1, <1>2, <1>10, <2>1 DEF Before, Rests
  <2>6. Sent(p)'
    <3>1. stamp[p] # None => origin[p] = stamp[p] /\ flushed[p] = stamp[p] /\ rows[p] = UpTo(stamp[p])
        BY <1>1, <1>10, <2>3 DEF Advanced, Copied
    <3> QED
        BY <1>8, <2>1, <3>1 DEF Sent, Rests
  <2> QED
      BY <2>4, <2>5, <2>6 DEF FirstPeer, Copied, Advanced
<1>11. CASE Is(SlotCreate(p, New)) /\ GetsSlot(p)
  <2>1. ~SlotExists(p, New)
      BY <1>11 DEF GetsSlot
  <2>2. event[p] = None /\ sub[<<Source, New>>] = "none" /\ progress[p] = None /\ stamp[p] = None
      BY <1>1, <2>1 DEF Held, Relies, Stages
  <2>3. sub'[<<Source, New>>] = "none" /\ (Unsent(p)' <=> Unsent(p)) /\ Unsent(p)
    <3>1. SlotCreate(p, New) \notin {Subscription(Source, New), Subscription(p, New)}
        BY DEF SlotCreate, Subscription
    <3> QED
        BY <1>1, <1>3, <1>11, <2>2, <3>1 DEF Stages
  <2>4. /\ restart'[p] = flushed'[p] /\ rows'[p] = rows[p] /\ progress'[p] = None /\ event'[p] = None
        /\ stamp'[p] = None
      BY <1>11, <2>2 DEF GetsSlot
  <2>5. Stages(p)'
      BY <1>1, <2>2, <2>3, <2>4 DEF Stages
  <2> QED
      BY <2>3, <2>4, <2>5 DEF FirstPeer, Before, Copied, Advanced, Sent
<1>12. CASE Is(LagTracker(p, New)) /\ Stamps(p) /\ stamp'[p] = progress[p]
  <2>1. Unsent(p)
      BY <1>12, EnabledIsLast
  <2>2. /\ sub'[<<Source, New>>] = sub[<<Source, New>>] /\ (Unsent(p)' <=> Unsent(p))
        /\ <<"create", SlotAdvance(p, New)>> \notin done' /\ <<"create", OriginAdvance(p, New)>> \notin done'
    <3>1. LagTracker(p, New) \notin {Subscription(Source, New), Subscription(p, New), SlotAdvance(p, New),
                                     OriginAdvance(p, New)}
        BY DEF LagTracker, Subscription, SlotAdvance, OriginAdvance
    <3> QED
        BY <1>2, <1>3, <1>4, <1>6, <1>12, <3>1
  <2>3. /\ restart'[p] = restart[p] /\ flushed'[p] = flushed[p] /\ rows'[p] = rows[p]
        /\ progress'[p] = progress[p] /\ event'[p] = event[p]
      BY <1>12 DEF Stamps
  <2>4. Stages(p)'
      BY <1>1, <1>2, <1>4, <1>12, <2>1, <2>2, <2>3 DEF Stages
  <2>5. Before(p)'
      BY <1>1, <1>2, <1>12, <2>3 DEF Before
  <2>6. Copied(p)'
      BY <1>1, <1>12, <2>1, <2>3 DEF Copied
  <2> QED
      BY <2>1, <2>2, <2>4, <2>5, <2>6 DEF FirstPeer, Advanced, Sent
<1>13. CASE Is(SlotAdvance(p, New)) /\ (Advances(p) \/ Skips(p))
  <2>1. Unsent(p) /\ Pending(SlotAdvance(p, New)) /\ ~Active(p)
      BY <1>2, <1>13, EnabledIsLast DEF Pending
  <2>2. restart[p] = flushed[p] /\ (stamp[p] # None => flushed[p] < stamp[p])
      BY <1>1, <2>1 DEF Before
  <2>3. /\ sub'[<<Source, New>>] = sub[<<Source, New>>] /\ (Unsent(p)' <=> Unsent(p))
        /\ <<"create", OriginAdvance(p, New)>> \notin done'
    <3>1. SlotAdvance(p, New) \notin {Subscription(Source, New), Subscription(p, New), OriginAdvance(p, New)}
        BY DEF Subscription, SlotAdvance, OriginAdvance
    <3> QED
        BY <1>2, <1>3, <1>4, <1>6, <1>13, <3>1
  <2>4. /\ rows'[p] = rows[p] /\ progress'[p] = progress[p] /\ event'[p] = event[p] /\ stamp'[p] = stamp[p]
      BY <1>13 DEF Advances, Skips
  <2>5. Stages(p)'
      BY <1>1, <1>2, <1>4, <2>1, <2>3, <2>4 DEF Stages
  <2>6. Before(p)'
      BY <1>2, <1>13 DEF Before
  <2>7. Copied(p)'
      BY <1>1, <2>1, <2>4 DEF Copied
  <2>8. Advanced(p)'
    <3> SUFFICES ASSUME stamp[p] # None PROVE moved'[p] = stamp[p] /\ flushed'[p] = stamp[p]
        BY <2>3, <2>4 DEF Advanced
    <3>1. ~SkipsAdvance(p)
        BY <1>8, <2>1, <2>2 DEF SkipsAdvance, AtOrBefore
    <3>2. Advances(p)
        BY <1>13, <3>1 DEF Skips
    <3> QED
        BY <1>8, <2>2, <3>2 DEF Advances, Larger
  <2> QED
      BY <2>1, <2>3, <2>5, <2>6, <2>7, <2>8 DEF FirstPeer, Sent
<1>14. CASE Is(OriginAdvance(p, New)) /\ ((moved[p] = None /\ Rests(p)) \/ Follows(p))
  <2>1. Unsent(p) /\ <<"create", SlotAdvance(p, New)>> \in done
      BY <1>5, <1>14, EnabledIsLast
  <2>2. stamp[p] # None => moved[p] = stamp[p] /\ flushed[p] = stamp[p]
      BY <1>1, <2>1 DEF Advanced
  <2>3. sub'[<<Source, New>>] = sub[<<Source, New>>] /\ (Unsent(p)' <=> Unsent(p))
    <3>1. OriginAdvance(p, New) \notin {Subscription(Source, New), Subscription(p, New)}
        BY DEF Subscription, OriginAdvance
    <3> QED
        BY <1>3, <1>14, <3>1
  <2>4. /\ rows'[p] = rows[p] /\ progress'[p] = progress[p] /\ event'[p] = event[p] /\ stamp'[p] = stamp[p]
        /\ restart'[p] = restart[p] /\ flushed'[p] = flushed[p] /\ moved'[p] = moved[p]
      BY <1>14 DEF Follows, Rests
  <2>5. stamp[p] # None => origin'[p] = stamp[p]
      BY <1>14, <2>2 DEF Follows
  <2>6. Stages(p)'
      BY <1>1, <1>2, <1>4, <2>1, <2>3, <2>4 DEF Stages
  <2>7. Before(p)'
      BY <1>1, <1>2, <2>4 DEF Before
  <2>8. Copied(p)' /\ Advanced(p)'
      BY <1>1, <2>1, <2>2, <2>4, <2>5 DEF Copied, Advanced
  <2> QED
      BY <2>1, <2>3, <2>6, <2>7, <2>8 DEF FirstPeer, Sent
<1>15. \/ Is(SlotCreate(p, New)) /\ GetsSlot(p)
       \/ Is(LagTracker(p, New)) /\ Stamps(p) /\ stamp'[p] = progress[p]
       \/ Is(SlotAdvance(p, New)) /\ (Advances(p) \/ Skips(p))
       \/ Is(OriginAdvance(p, New)) /\ ((moved[p] = None /\ Rests(p)) \/ Follows(p))
       \/ (Rests(p) \/ Writes(p)) /\ ~Is(SlotAdvance(p, New)) /\ ~Is(OriginAdvance(p, New))
  <2>1. /\ SlotAdvance(p, New) # OriginAdvance(p, New)
        /\ {SlotCreate(p, New), SyncEvent(p, Source), PeerCatchup(p, Source)}
             \intersect {SlotAdvance(p, New), OriginAdvance(p, New)} = {}
        /\ {<<"create", SlotAdvance(p, New)>>, <<"create", OriginAdvance(p, New)>>} \subseteq Touching(p)
      BY DEF SlotCreate, SyncEvent, PeerCatchup, SlotAdvance, OriginAdvance, Touching
  <2>2. \A k, l : Is(k) /\ Is(l) => k = l
      OBVIOUS
  <2>3. ASSUME NEW k \in {SlotCreate(p, New), SyncEvent(p, Source), PeerCatchup(p, Source)}, Is(k)
        PROVE  ~Is(SlotAdvance(p, New)) /\ ~Is(OriginAdvance(p, New))
      BY <2>1, <2>2, <2>3
  <2>4. e \notin Touching(p) => ~Is(SlotAdvance(p, New)) /\ ~Is(OriginAdvance(p, New))
      BY <2>1
  <2> QED
      BY <1>3, <2>3, <2>4 DEF CallMoves
<1> QED
    BY <1>3, <1>9, <1>10, <1>11, <1>12, <1>13, <1>14, <1>15

LEMMA FirstCallKeeps ==
  ASSUME PopulateInv, First, FirstInv, NEW e \in running, PCalled(e) PROVE FirstInv'
<1>1. /\ UNCHANGED <<cfg, phases, started, retries, result>>
      /\ done \subseteq done' /\ done' \subseteq done \union {e}
      /\ \A k : Pending(k)' => Pending(k) /\ e # <<"create", k>>
      /\ (Effect(e) /\ Move(e)) \/ UNCHANGED <<catalog, positions, done>>
      /\ Positioned /\ SubsSpared /\ CopiedOnce
    BY CallReturned DEF PCalled, PopulateInv, FirstInv
<1>2. SubsSpared'
    BY <1>1 DEF SubsSpared
<1>3. CASE Effect(e) /\ Move(e)
  <2>1. \A p \in Peer : FirstPeer(p)'
    <3>1. \A p \in Peer : CallMoves(e, p)
        BY <1>1, <1>3, MovesOf
    <3> QED
        BY <1>3, <3>1, FirstCallKeepsPeer
  <2>2. /\ sub'[<<Source, New>>] \in {"none", "copying", "replicating"}
        /\ sub[<<Source, New>>] = "replicating" => sub'[<<Source, New>>] = "replicating"
      BY <1>1, <1>3, FirstCallOnSubs DEF CopiedOnce
  <2>3. e = <<"create", WaitForSync(Source, New)>> => sub[<<Source, New>>] = "replicating"
      BY <1>3 DEF Effect, Create, WaitForSync, CreateWaitForSync, Arrived, Positions
  <2>4. CopiedOnce'
      BY <1>1, <2>2, <2>3 DEF CopiedOnce
  <2> QED
      BY <1>2, <2>1, <2>4 DEF FirstInv
<1>4. CASE UNCHANGED <<catalog, positions, done>>
  <2>1. UNCHANGED <<sub, slot>>
      BY <1>4 DEF catalog
  <2>2. \A p \in Peer : Rests(p)
      BY <1>1, <1>4, PositionsRest
  <2>3. \A p \in Peer : Steady(p)
      BY <1>1, <1>4, <2>1, <2>2 DEF Steady, Walked, Unsent, SlotExists
  <2>4. CopiedOnce'
      BY <1>1, <1>4, <2>1 DEF CopiedOnce
  <2> QED
      BY <1>2, <2>3, <2>4, SteadyKeeps DEF FirstInv
<1> QED
    BY <1>1, <1>3, <1>4

\* A run that finds no subscription to the node plans no change of one.
LEMMA FirstPlanning ==
  ASSUME PopulateInv, First, FirstInv, PMakePlan PROVE FirstInv'
<1>1. /\ MakePlan /\ TypeOK /\ ConfigIs /\ Positioned /\ Untouched /\ New \in cfg.nodes
      /\ InitialNodes \subseteq Node
    BY Parts DEF PMakePlan, PopulateInv, MeshInv, First, NewNodes
<1>2. /\ UNCHANGED <<cfg, sub, slot>> /\ started /\ done' = {} /\ \E missed : phases' \in PlansFor(missed)
    BY <1>1 DEF MakePlan, PlansFor, catalog
<1>3. \A x \in Node : sub[<<x, New>>] = "none"
    BY <1>2, NothingYet
<1>4. \A p \in Peer : Stamps(p) /\ stamp'[p] = None
    BY <1>1, MovesOfTheJob DEF PMakePlan
<1>5. SubsSpared'
  <2> SUFFICES ASSUME NEW m \in DOMAIN phases', NEW x \in InitialNodes
               PROVE  /\ <<"update", Subscription(x, New)>> \notin phases'[m]
                      /\ <<"delete", Subscription(x, New)>> \notin phases'[m]
      BY DEF SubsSpared
  <2> DEFINE k == Subscription(x, New)
  <2>1. PICK missed, plan : plan = phases' /\ plan \in PlansFor(missed)
      BY <1>2
  <2>2. \A e \in plan[m] : \/ e = <<"create", e[2]>> /\ e[2] \in ToCreate
                           \/ e = <<"update", e[2]>> /\ e[2] \in ToUpdate
                           \/ e = <<"delete", e[2]>> /\ e[2] \in ToDelete(missed)
      BY <1>1, <2>1, EventsOfPlan
  <2>3. k \notin Present
      BY <1>1, <1>3 DEF Present, Exists, SubExists, Subscription
  <2>4. k \notin ToUpdate /\ k \notin NeedsRecreate
      BY <2>3 DEF ToUpdate, NeedsUpdate, NeedsRecreate
  <2>5. k \notin Orphans(missed)
    <3> SUFFICES ASSUME k \in Orphans(missed) PROVE FALSE
        OBVIOUS
    <3>1. k[1] = "subscription" /\ k[2] = x /\ k[3] = New
        BY DEF Subscription
    <3>2. x \in cfg.nodes
        BY Parts DEF PopulateInv, Membership
    <3>3. \A a, b : k # Slot(a, b)
        BY DEF Slot, Subscription
    <3> HIDE DEF k
    <3>4. \/ k[2] \notin cfg.nodes
          \/ \E pr \in slot : pr[2] \notin cfg.nodes /\ k = Slot(pr[1], pr[2])
        BY OrphanKeys
    <3> QED
        BY <3>1, <3>2, <3>3, <3>4
  <2>6. <<"update", k>>[1] = "update" /\ <<"update", k>>[2] = k /\ <<"delete", k>>[1] = "delete" /\ <<"delete", k>>[2] = k
      OBVIOUS
  <2> HIDE DEF k
  <2>7. <<"update", k>> \notin plan[m] /\ <<"delete", k>> \notin plan[m]
      BY <2>2, <2>4, <2>5, <2>6 DEF ToDelete
  <2> QED
      BY <2>1, <2>7 DEF k
<1>6. CopiedOnce'
    BY <1>2, <1>3, Parts DEF CopiedOnce
<1>7. ASSUME NEW p \in Peer PROVE FirstPeer(p)'
  <2>1. /\ rows[p] = {} /\ restart[p] = flushed[p] /\ progress[p] = None /\ event[p] = None
      BY <1>1, <1>2 DEF Untouched
  <2>2. /\ rows'[p] = {} /\ restart'[p] = flushed'[p] /\ progress'[p] = None /\ event'[p] = None /\ stamp'[p] = None
      BY <1>4, <2>1 DEF Stamps, SlotAt, OnNew
  <2>3. sub'[<<p, New>>] = "none" /\ sub'[<<Source, New>>] = "none"
      BY <1>2, <1>3, Parts
  <2> QED
      BY <2>2, <2>3 DEF FirstPeer, Stages, Before, Copied, Advanced, Sent, Unsent
<1> QED
    BY <1>5, <1>6, <1>7 DEF FirstInv

\* The run is created.
LEMMA FirstLaunching ==
  ASSUME PopulateInv, Adds PROVE FirstInv'
<1>1. \E c : Launch(c)
    BY NextConfig
<1>2. /\ UNCHANGED <<sub, phases, done>> /\ phases = <<>> /\ done = {} /\ Positioned /\ New \notin cfg.nodes
    BY <1>1 DEF Adds, AddNode, Launch, Idle, catalog, execution, PopulateInv, MeshInv, Barrier
<1>3. \A x \in Node : sub[<<x, New>>] = "none"
    BY <1>2, NothingYet
<1>4. \A p \in Peer : Rests(p)
    BY <1>2, MovesOfTheJob
<1>5. SubsSpared' /\ CopiedOnce'
    BY <1>2, <1>3, Parts DEF SubsSpared, CopiedOnce
<1>6. ASSUME NEW p \in Peer PROVE FirstPeer(p)'
  <2>1. /\ rows[p] = {} /\ restart[p] = flushed[p] /\ progress[p] = None /\ event[p] = None /\ stamp[p] = None
      BY <1>2 DEF PopulateInv, Untouched
  <2>2. /\ rows'[p] = {} /\ restart'[p] = flushed'[p] /\ progress'[p] = None /\ event'[p] = None /\ stamp'[p] = None
      BY <1>4, <2>1 DEF Rests, SlotAt, OnNew, Memory
  <2>3. sub'[<<p, New>>] = "none" /\ sub'[<<Source, New>>] = "none"
      BY <1>2, <1>3, Parts
  <2> QED
      BY <2>2, <2>3 DEF FirstPeer, Stages, Before, Copied, Advanced, Sent, Unsent
<1> QED
    BY <1>5, <1>6 DEF FirstInv

\* The process exits.
LEMMA FirstReturning ==
  ASSUME PopulateInv, First, FirstInv, PReturn PROVE FirstInv'
<1>1. /\ UNCHANGED <<cfg, sub, slot, started, retries>> /\ phases' = <<>> /\ done' = {} /\ result' # "running"
      /\ result = "running" /\ Positioned /\ CopiedOnce
    BY DEF PReturn, Return, Executor!Over, Executor!Outcome, catalog, PopulateInv, FirstInv
<1>2. ~started
    BY <1>1 DEF PopulateInv, MeshInv, Barrier
<1>3. \A p \in Peer : Forgets(p)
    BY <1>1, MovesOfTheJob
<1>4. \A p \in Peer : Steady(p)
    BY <1>1, <1>2, <1>3 DEF Steady, Unsent, SlotExists, Pending
<1>5. SubsSpared' /\ CopiedOnce'
    BY <1>1 DEF SubsSpared, CopiedOnce
<1> QED
    BY <1>4, <1>5, SteadyKeeps DEF FirstInv

\* Between the calls.
LEMMA FirstCalm ==
  ASSUME PopulateInv, First, FirstInv, Idles \/ LateStarts \/ \E p \in Peer : Walks(p) PROVE FirstInv'
<1>1. Calm /\ CopiedOnce /\ SubsSpared /\ InitialNodes \subseteq Node /\ Barrier /\ TypeOK
    BY CalmSteps, Parts DEF FirstInv, PopulateInv, MeshInv
<1>2. \A k : Pending(k)' => Pending(k)
  <2>1. CASE UNCHANGED execution /\ UNCHANGED started
      BY <2>1 DEF Pending, execution
  <2>2. CASE PlanFails \/ Waits
    <3>1. (started' = FALSE /\ result' = "error") \/ UNCHANGED <<started, running, done, failed, result>>
        BY <2>2 DEF PlanFails, Waits
    <3> QED
        BY <3>1 DEF Pending
  <2>3. CASE NextPhase
    <3>1. /\ result = "running" /\ running = {} /\ ~failed /\ phase < Len(phases) /\ phase' = phase + 1
          /\ running' = phases[phase + 1] /\ UNCHANGED <<started, done, failed, result>>
        BY <2>3 DEF NextPhase, Executor!NextPhase
    <3>2. phases \in Seq(SUBSET ({"create", "update", "delete"} \X Keys)) /\ phase \in 0 .. Len(phases)
        BY <1>1 DEF TypeOK, Executor!TypeOK
    <3>3. phase + 1 \in DOMAIN phases /\ phase < phase + 1
        BY <3>1, <3>2
    <3>4. running' \intersect done = {}
        BY <1>1, <3>1, <3>3 DEF Barrier
    <3> QED
        BY <3>1, <3>4 DEF Pending
  <2>4. (LateStarts \/ \E p \in Peer : Walks(p)) => UNCHANGED execution /\ UNCHANGED started
      BY DEF LateStarts, WorkerStarts, Walks, Write, Replay, Attach, Apply, Confirm, Detach, AdvanceGoesOn,
             mvars
  <2> QED
      BY <2>1, <2>2, <2>3, <2>4 DEF Idles
<1>3. result' = "running" => result = "running"
  <2>1. Idles => result' \in {result, "error"}
      BY DEF Idles, PlanFails, NextPhase, Executor!NextPhase, Waits
  <2>2. (LateStarts \/ \E p \in Peer : Walks(p)) => result' = result
      BY DEF LateStarts, WorkerStarts, Walks, Write, Replay, Attach, Apply, Confirm, Detach, AdvanceGoesOn,
             mvars, execution
  <2> QED
      BY <2>1, <2>2
<1>4. \A p \in Peer : Steady(p)
    BY <1>1, <1>2, <1>3, Parts DEF Calm, Steady, Unsent
<1>5. SubsSpared' /\ CopiedOnce'
    BY <1>1, Parts DEF Calm, SubsSpared, CopiedOnce
<1> QED
    BY <1>4, <1>5, SteadyKeeps DEF FirstInv

\* The copy comes when the source has replayed the event, which is after the
\* slot: so it ends past the slot.
LEMMA FirstCopy ==
  ASSUME PopulateInv, First, FirstInv, Copy PROVE FirstInv'
<1>1. /\ WorkerStarts(Source, New) /\ TypeOK /\ Positioned /\ SubsSpared /\ CopiedOnce
      /\ \A p \in Peer : FirstPeer(p) /\ Bounded(p) /\ Held(p) /\ Streams(p) /\ Waited(p)
    BY DEF Copy, PopulateInv, MeshInv, FirstInv
<1>2. /\ sub[<<Source, New>>] = "copying"
      /\ sub' = [sub EXCEPT ![<<Source, New>>] = "replicating"]
      /\ slot' = slot \union {<<Source, New>>}
      /\ UNCHANGED <<cfg, phases, running, done, failed, result, started>>
    BY <1>1 DEF WorkerStarts, SetSub, execution, CopiedOnce
<1>3. /\ sub'[<<Source, New>>] = "replicating"
      /\ \A p \in Peer : sub'[<<p, New>>] = sub[<<p, New>>]
  <2>1. <<Source, New>> \in Node \X Node /\ \A p \in Peer : <<p, New>> \in Node \X Node /\ p # Source
      BY Parts
  <2> QED
      BY <1>1, <1>2, <2>1 DEF TypeOK
<1>4. \A p \in Peer : Fills(p)
    BY <1>1, <1>2, MovesOfWorkers DEF Copy
<1>5. SubsSpared' /\ CopiedOnce'
    BY <1>1, <1>2, <1>3 DEF SubsSpared, CopiedOnce
<1>6. ASSUME NEW p \in Peer PROVE FirstPeer(p)'
  <2>1. /\ Unsent(p) /\ rows[p] = {} /\ progress[p] = None /\ stamp[p] = None
        /\ SlotExists(p, New) /\ (result = "running" => <<"create", PeerCatchup(p, Source)>> \in done)
      BY <1>1, <1>2 DEF FirstPeer, Stages
  <2>2. /\ replayed[p] \in Int /\ flushed[p] \in Int /\ event[p] \in Int /\ 0 <= replayed[p]
      BY <1>1 DEF Positioned, Bounded
  <2>3. /\ rows'[p] = UpTo(replayed[p]) /\ progress'[p] \in {None, replayed[p]} /\ stamp'[p] = None
        /\ event'[p] = event[p] /\ restart'[p] = restart[p] /\ flushed'[p] = flushed[p]
      BY <1>4, <2>1, <2>2 DEF Fills, SlotAt, Memory, Larger, None
  <2>4. Unsent(p)' /\ SlotExists(p, New)' /\ (Pending(SlotAdvance(p, New))' <=> Pending(SlotAdvance(p, New)))
      BY <1>2, <1>3, <2>1 DEF Unsent, SlotExists, Pending
  <2>5. Stages(p)'
      BY <1>2, <1>3, <2>1, <2>4 DEF Stages
  <2>6. Before(p)'
    <3> SUFFICES ASSUME Pending(SlotAdvance(p, New))
                 PROVE  /\ restart'[p] = flushed'[p]
                        /\ \A x \in {event'[p], progress'[p], stamp'[p]} : x # None => flushed'[p] < x
        BY <2>4 DEF Before
    <3>1. restart[p] = flushed[p] /\ (event[p] # None => flushed[p] < event[p])
        BY <1>1 DEF FirstPeer, Before
    <3>2. ~started
        BY <1>2, NothingYet, Parts
    <3>3. event[p] # None /\ event[p] <= replayed[p]
        BY <1>1, <2>1, <2>2, <3>2 DEF Pending, Waited, CaughtUp
    <3>4. flushed[p] < replayed[p]
        BY <2>2, <3>1, <3>3
    <3> QED
        BY <2>3, <3>1, <3>4
  <2>7. Copied(p)'
      BY <2>3 DEF Copied
  <2> QED
      BY <2>3, <2>4, <2>5, <2>6, <2>7 DEF FirstPeer, Advanced, Sent
<1> QED
    BY <1>5, <1>6 DEF FirstInv

\* The slot is there when the first worker starts.
LEMMA FirstWorker ==
  ASSUME PopulateInv, First, FirstInv, NEW q \in Peer, FirstStart(q) PROVE FirstInv'
<1>1. /\ WorkerStarts(q, New) /\ TypeOK /\ Positioned /\ SubsSpared /\ CopiedOnce /\ Streams(q) /\ Stages(q)
    BY DEF FirstStart, PopulateInv, MeshInv, FirstInv, FirstPeer
<1>2. /\ sub[<<q, New>>] = "initializing"
      /\ sub' = [sub EXCEPT ![<<q, New>>] = "replicating"]
      /\ slot' = slot \union {<<q, New>>}
      /\ UNCHANGED <<cfg, phases, running, done, failed, result, started>>
    BY <1>1 DEF WorkerStarts, SetSub, execution, Streams
<1>3. /\ sub'[<<q, New>>] = "replicating" /\ sub'[<<Source, New>>] = sub[<<Source, New>>]
      /\ \A p \in Peer : p # q => sub'[<<p, New>>] = sub[<<p, New>>]
  <2>1. <<Source, New>> \in Node \X Node /\ Source # q /\ \A p \in Peer : <<p, New>> \in Node \X Node
      BY Parts
  <2> QED
      BY <1>1, <1>2, <2>1 DEF TypeOK
<1>4. SlotExists(q, New)
    BY <1>1, <1>2 DEF Stages, Unsent
<1>5. \A p \in Peer : Rests(p)
    BY <1>1, <1>4, MovesOfWorkers DEF GetsSlot
<1>6. \A p \in Peer : Steady(p)
  <2> TAKE p \in Peer
  <2>1. Unsent(p)' <=> Unsent(p)
      BY <1>2, <1>3 DEF Unsent
  <2>2. Pending(SlotAdvance(p, New))' <=> Pending(SlotAdvance(p, New))
      BY <1>2 DEF Pending
  <2> QED
      BY <1>2, <1>3, <1>5, <2>1, <2>2 DEF Steady, Walked, SlotExists
<1>7. SubsSpared' /\ CopiedOnce'
    BY <1>1, <1>2, <1>3 DEF SubsSpared, CopiedOnce
<1> QED
    BY <1>6, <1>7, SteadyKeeps DEF FirstInv

\* Every step keeps it.
LEMMA FirstStep ==
  ASSUME PopulateInv, FirstInv, [PNext]_pvars PROVE FirstInv'
<1>1. MeshInv
    BY DEF PopulateInv
<1>2. CASE PRerun \/ Adds
  <2>1. CASE Adds
      BY <2>1, FirstLaunching
  <2>2. CASE ~Adds
    <3>1. ~First'
      <4>1. CASE New \notin cfg.nodes
        <5>1. PICK c \in Repeats : Launch(c)
            BY <1>2, <2>2 DEF PRerun, Rerun
        <5>2. cfg'.nodes = cfg.nodes
            BY <5>1 DEF Launch, Repeats, Plain
        <5> QED
            BY <4>1, <5>2 DEF First, NewNodes
      <4>2. CASE New \in cfg.nodes
          BY <1>2, <4>2, NextConfig
      <4> QED
          BY <4>1, <4>2
    <3> QED
        BY <3>1 DEF FirstInv
  <2> QED
      BY <2>1, <2>2
<1>3. CASE ~(PRerun \/ Adds)
  <2>1. UNCHANGED <<cfg, retries>>
    <3>1. \A e \in running : PCalled(e) => UNCHANGED <<cfg, retries>>
        BY DEF PCalled, Called
    <3>2. PMakePlan \/ PReturn \/ Idles \/ LateStarts \/ Copy => UNCHANGED <<cfg, retries>>
        BY DEF PMakePlan, MakePlan, PReturn, Return, Idles, PlanFails, NextPhase, Waits, LateStarts, Copy,
               WorkerStarts
    <3>3. \A p \in Peer : FirstStart(p) \/ Walks(p) => UNCHANGED <<cfg, retries>>
        BY DEF FirstStart, WorkerStarts, Walks, Write, Replay, Attach, Apply, Confirm, Detach, AdvanceGoesOn,
               mvars
    <3> QED
        BY <1>1, <1>3, <3>1, <3>2, <3>3, PSteps
  <2>2. CASE ~First
      BY <2>1, <2>2 DEF FirstInv, First
  <2>3. CASE First
      BY <1>1, <1>3, <2>3, PSteps, FirstCallKeeps, FirstPlanning, FirstReturning, FirstCalm, FirstCopy, FirstWorker
  <2> QED
      BY <2>2, <2>3
<1> QED
    BY <1>2, <1>3

\* So does every step of a history.
LEMMA FirstAlways ==
  PSpec => []FirstInv
<1>1. PInit => FirstInv
  <2> SUFFICES ASSUME PInit PROVE FirstInv
      OBVIOUS
  <2>1. New \notin cfg.nodes
    <3>1. cfg = Plain(InitialNodes)
        BY DEF PInit, InitWith
    <3> QED
        BY <3>1, Parts DEF Plain
  <2> QED
      BY <2>1 DEF FirstInv, First, NewNodes
<1>2. PopulateInv /\ FirstInv /\ [PNext]_pvars => FirstInv'
    BY FirstStep
<1> QED
    BY <1>1, <1>2, PopulateAlways, PTL DEF PSpec

(* In the run that adds a node, whatever its calls fail at: a worker that  *)
(* starts from the advanced slot and origin, or comes back after a broken  *)
(* connection, is sent nothing that the copy brought or that it has        *)
(* applied, if the lag tracker had the peer's row (replication_slot_-      *)
(* advance.go, replication_origin_advance.go).                             *)
THEOREM NothingTwice ==
  PSpec => AppliedOnce
<1>1. ASSUME PopulateInv, FirstInv
      PROVE  \A p \in Peer :
               /\ New \in NewNodes(cfg) /\ retries = 0 /\ stamp[p] # None
               /\ Active(p) /\ stream'[p] = stream[p] + 1
               => stream'[p] \notin rows[p]
  <2> SUFFICES ASSUME NEW p \in Peer, First, stamp[p] # None, Active(p), stream'[p] = stream[p] + 1
               PROVE  stream'[p] \notin rows[p]
      BY DEF First
  <2>1. rows[p] = UpTo(origin[p]) /\ flushed[p] <= origin[p]
      BY <1>1, EnabledIsLast DEF FirstInv, FirstPeer, Sent
  <2>2. stream[p] = Larger(origin[p], flushed[p]) /\ origin[p] \in Int /\ flushed[p] \in Int
      BY <1>1 DEF PopulateInv, Streams, Positioned
  <2>3. stream[p] = origin[p]
      BY <2>1, <2>2 DEF Larger
  <2> QED
      BY <2>1, <2>2, <2>3 DEF UpTo
<1> QED
    BY <1>1, PopulateAlways, FirstAlways, PTL DEF AppliedOnce

(* At every enabling of a subscription that populate made disabled, slot and *)
(* origin agree on what the copy brought, whatever failed and was stopped  *)
(* before ("both must complete before enabling the subscription to keep slot *)
(* LSN and origin LSN in lockstep", desired.go), if no run is repeated with *)
(* its bootstrap blocks.                                                   *)
THEOREM SlotMeetsOrigin ==
  ASSUME ~KeepBootstrap PROVE PSpec => Lockstep
<1> DEFINE Once == retries = 0
<1>1. PInit => Once
    BY DEF PInit
<1>2. ASSUME PopulateInv, Once, [PNext]_pvars PROVE Once'
  <2>1. PRerun => retries' = retries
    <3> SUFFICES ASSUME PRerun PROVE retries' = retries
        OBVIOUS
    <3>1. cfg' = Plain(cfg.nodes)
        BY DEF PRerun, Rerun, Repeats, Launch
    <3>2. NewNodes(cfg') = {}
        BY <3>1 DEF NewNodes, Plain
    <3> QED
        BY <3>2 DEF PRerun
  <2>2. \A e \in running : PCalled(e) => retries' = retries
      BY DEF PCalled
  <2>3. PMakePlan \/ PReturn \/ Adds \/ Idles \/ LateStarts \/ Copy => retries' = retries
      BY DEF PMakePlan, PReturn, Adds, Idles, LateStarts, Copy
  <2>4. \A p \in Peer : FirstStart(p) \/ Walks(p) => retries' = retries
      BY DEF FirstStart, Walks, Write, Replay, Attach, Apply, Confirm, Detach, AdvanceGoesOn
  <2> QED
      BY <1>2, <2>1, <2>2, <2>3, <2>4, PSteps DEF PopulateInv
<1>3. ASSUME PopulateInv, FirstInv, Once
      PROVE  \A p \in Peer :
               /\ <<"create", OriginAdvance(p, New)>> \in done /\ stamp[p] # None
               /\ sub[<<p, New>>] = "disabled" /\ sub'[<<p, New>>] = "initializing"
               => /\ origin[p] = flushed[p]
                  /\ rows[p] = UpTo(origin[p])
  <2> SUFFICES ASSUME NEW p \in Peer, <<"create", OriginAdvance(p, New)>> \in done, stamp[p] # None,
                      sub[<<p, New>>] = "disabled"
               PROVE  origin[p] = flushed[p] /\ rows[p] = UpTo(origin[p])
      OBVIOUS
  <2>1. MeshInv /\ Membership
      BY <1>3 DEF PopulateInv
  <2>2. First
      BY <1>3, <2>1, OnlyForTheNew DEF First, Touching
  <2>3. <<"create", SlotAdvance(p, New)>> \in done
      BY <2>1, <2>2, InTheChain DEF First, After
  <2>4. origin[p] = stamp[p] /\ flushed[p] = stamp[p] /\ rows[p] = UpTo(stamp[p])
      BY <1>3, <2>2, <2>3 DEF FirstInv, FirstPeer, Advanced, Copied, Unsent
  <2> QED
      BY <2>4
<1> HIDE DEF Once
<1> QED
    BY <1>1, <1>2, <1>3, PopulateAlways, FirstAlways, PTL DEF PSpec, Lockstep
=============================================================================
