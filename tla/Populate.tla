------------------------------- MODULE Populate -------------------------------
(***************************************************************************)
(* What Mesh.tla leaves out of adding a node: positions in the WAL.  Each  *)
(* action of Mesh is taken together with what it does to them.             *)
(*                                                                         *)
(* A position stands for the commit that ends there: commits of a peer are *)
(* numbered 1, 2, ..., a sync event is one of them, and the timestamp of a *)
(* commit is its position (timestamps are assumed to grow along the WAL).  *)
(* 0 is before all commits.  The writes of the peers are followed on their *)
(* two ways to the new node: with the copy of the source, and through the  *)
(* slot that populate makes on the peer.                                   *)
(***************************************************************************)
EXTENDS Mesh, Integers

CONSTANTS
  Source,      (* bootstrap.sourceNode of the node that is added.          *)
  New,         (* That node.                                               *)
  MaxLSN,      (* Bound: what peers write on their own.                    *)
  MaxRetries   (* Bound: runs repeated with the bootstrap block.           *)

ASSUME PopulateAssumption ==
  /\ Source \in InitialNodes /\ New \in Node \ InitialNodes
  /\ MaxLSN \in Nat
  /\ MaxRetries \in Nat

Peer == InitialNodes \ {Source}

VARIABLES
  end,       (* Last commit in the WAL of each peer.                       *)
  replayed,  (* What the source has applied of it: spock.progress there.   *)
  restart,   (* restart_lsn of the slot peer -> New on the peer.           *)
  flushed,   (* confirmed_flush_lsn of that slot.                          *)
  stream,    (* Last commit sent by an active slot; None when inactive.    *)
  origin,    (* The replication origin of the peer on New.                 *)
  rows,      (* The peer's commits that New has.                           *)
  progress,  (* What spock.lag_tracker on New shows; None without a row.   *)
  event,     (* SyncEvent.LSN of the event peer -> source, in this run.    *)
  stamp,     (* LagTrackerCommitTimestamp.CommitTS, in this run.           *)
  moved,     (* ReplicationSlotAdvanceFromCTS.AdvancedToLSN, in this run.  *)
  step,      (* The next statement of ReplicationSlotAdvanceFromCTS.Create *)
  retries    (* What MaxRetries bounds.                                    *)

wal     == <<end, replayed>>
slots   == <<restart, flushed, stream>>
newNode == <<origin, rows, progress>>
memory  == <<event, stamp, moved, step>>
positions == <<wal, slots, newNode, memory>>
pvars == <<mvars, positions, retries>>

None == -1
Larger(a, b) == IF a > b THEN a ELSE b
UpTo(n) == 1 .. n

Active(p) == stream[p] # None

-----------------------------------------------------------------------------
(* What the calls do to positions.                                         *)

\* pg_create_logical_replication_slot: the slot starts at the end of the WAL.
NewSlotAt(p) ==
  /\ restart' = [restart EXCEPT ![p] = end[p]]
  /\ flushed' = [flushed EXCEPT ![p] = end[p]]

MoveSlotCreate(p) ==
  /\ IF SlotExists(p, New) THEN UNCHANGED <<restart, flushed>> ELSE NewSlotAt(p)
  /\ UNCHANGED <<wal, stream, newNode, memory>>

\* spock.sync_event writes to the WAL and returns where.
MoveSyncEvent(p) ==
  /\ end' = [end EXCEPT ![p] = @ + 1]
  /\ event' = [event EXCEPT ![p] = end'[p]]
  /\ UNCHANGED <<replayed, slots, newNode, stamp, moved, step>>

\* Mutation: received is taken for applied.
CaughtUp_Received(p) == event[p] # None

\* PeerCatchup: spock.progress.remote_lsn >= the event's LSN.
CaughtUp(p) == event[p] # None /\ replayed[p] >= event[p]

\* Without a row CommitTS becomes nil.
MoveLagTracker(p) ==
  /\ stamp' = [stamp EXCEPT ![p] = progress[p]]
  /\ UNCHANGED <<wal, slots, newNode, event, moved, step>>

\* Mutation: the comparison of target and restart_lsn the wrong way round.
AtOrBefore_Swapped(p) == stamp[p] >= restart[p]

AtOrBefore(p) == stamp[p] <= restart[p]

\* The ways ReplicationSlotAdvanceFromCTS.Create returns nil without moving
\* the slot: no timestamp, a slot in use, a target at or before restart_lsn.
SkipsAdvance(p) ==
  \/ step[p] = "target" /\ stamp[p] = None
  \/ step[p] = "active" /\ Active(p)
  \/ step[p] = "compare" /\ AtOrBefore(p)

\* It goes on to its next statement.
NextStatement ==
  [target |-> "active", active |-> "compare", compare |-> "advance"]

AdvanceGoesOn(p) ==
  /\ <<"create", SlotAdvance(p, New)>> \in running
  /\ step[p] # "advance" /\ ~SkipsAdvance(p)
  /\ step' = [step EXCEPT ![p] = NextStatement[@]]
  /\ UNCHANGED <<mvars, wal, slots, newNode, event, stamp, moved, retries>>

\* The CASE of the last statement: target and confirmed_flush_lsn.
AheadOfSlot(p) == stamp[p] > flushed[p]

\* pg_replication_slot_advance: restart_lsn may follow.
SlotMovesTo(p, lsn) ==
  /\ flushed' = [flushed EXCEPT ![p] = lsn]
  /\ \E r \in {restart[p], lsn} : restart' = [restart EXCEPT ![p] = r]
  /\ UNCHANGED stream

\* Mutation: the end of the target commit is taken for its position.
AdvanceSlot_PastTarget(p) ==
  /\ step[p] = "advance"
  /\ \/ ~AheadOfSlot(p) /\ UNCHANGED slots
     \/ AheadOfSlot(p) /\ ~Active(p) /\ SlotMovesTo(p, stamp[p] + 1)
  /\ moved' = [moved EXCEPT ![p] = stamp[p]]

\* The last statement moves the slot if the target is ahead of it, and leaves
\* it, in use or not, if not; in both cases AdvancedToLSN becomes the target.
AdvanceSlot(p) ==
  /\ step[p] = "advance"
  /\ \/ ~AheadOfSlot(p) /\ UNCHANGED slots
     \/ AheadOfSlot(p) /\ ~Active(p) /\ SlotMovesTo(p, stamp[p])
  /\ moved' = [moved EXCEPT ![p] = stamp[p]]

MoveSlotAdvance(p) ==
  /\ \/ AdvanceSlot(p)
     \/ /\ SkipsAdvance(p)
        /\ moved' = [moved EXCEPT ![p] = None]
        /\ UNCHANGED slots
  /\ step' = [step EXCEPT ![p] = "target"]
  /\ UNCHANGED <<wal, newNode, event, stamp>>

\* Mutation: the origin is not advanced.
AdvanceOrigin_Never(p) == UNCHANGED origin

\* pg_replication_origin_advance sets the origin, also backwards.
AdvanceOrigin(p) ==
  IF moved[p] = None THEN UNCHANGED origin
  ELSE origin' = [origin EXCEPT ![p] = moved[p]]

MoveOriginAdvance(p) ==
  /\ moved[p] # None => ~Active(p)
  /\ AdvanceOrigin(p)
  /\ UNCHANGED <<wal, slots, rows, progress, memory>>

\* sub_drop ends the worker and drops the origin.
MoveSubDrop(p) ==
  /\ stream' = [stream EXCEPT ![p] = None]
  /\ origin' = [origin EXCEPT ![p] = 0]
  /\ UNCHANGED <<wal, restart, flushed, rows, progress, memory>>

\* What the call of an event does to positions.
Move(e) ==
  LET p == e[2][2]
      Is(k) == e = <<"create", k>>
  IN  IF p \notin Peer THEN UNCHANGED positions
      ELSE CASE Is(SlotCreate(p, New))      -> MoveSlotCreate(p)
             [] Is(SyncEvent(p, Source))    -> MoveSyncEvent(p)
             [] Is(PeerCatchup(p, Source))  -> CaughtUp(p) /\ UNCHANGED positions
             [] Is(LagTracker(p, New))      -> MoveLagTracker(p)
             [] Is(SlotAdvance(p, New))     -> MoveSlotAdvance(p)
             [] Is(OriginAdvance(p, New))   -> MoveOriginAdvance(p)
             [] e = <<"delete", Subscription(p, New)>> -> MoveSubDrop(p)
             [] OTHER                       -> UNCHANGED positions

\* The database refuses to move a slot or an origin that is in use.
Refuses(e) ==
  \E p \in Peer :
    /\ Active(p)
    /\ \/ /\ e = <<"create", SlotAdvance(p, New)>>
          /\ step[p] = "advance" /\ AheadOfSlot(p)
       \/ e = <<"create", OriginAdvance(p, New)>> /\ moved[p] # None

-----------------------------------------------------------------------------
(* The run.                                                                *)

PMakePlan ==
  /\ MakePlan
  /\ stamp' = [p \in Peer |-> None]
  /\ UNCHANGED <<wal, slots, newNode, event, moved, step, retries>>

\* The memory of the process is gone; stamp, which AppliedOnce speaks of, is
\* kept up to the next run.
PReturn ==
  /\ Return
  /\ event' = [p \in Peer |-> None] /\ moved' = event'
  /\ step' = [p \in Peer |-> "target"]
  /\ UNCHANGED <<wal, slots, newNode, stamp, retries>>

\* Calls that commute with every step of this module: they succeed, first
\* and in a fixed order.  Their timing and failures are the subject of
\* Mesh.tla; here the run can stop or fail beside them.
Quiet ==
  {e \in running :
     \/ e[2][1] \in {"user", "node", "slot"}
     \/ e[2][1] = "subscription" /\ e[2][2] = New
     \/ e[2] = SyncEvent(Source, New)}

InTurn(e) == Quiet # {} => e = CHOOSE q \in Quiet : MayReturn(q)

PSucceed(e) == InTurn(e) /\ Succeed(e) /\ Move(e) /\ UNCHANGED retries

PFail(e) ==
  /\ Quiet = {}
  /\ \E effect \in BOOLEAN :
       /\ FailWith(e, effect)
       /\ IF effect THEN Move(e) ELSE UNCHANGED positions
  /\ UNCHANGED retries

Refused(e) ==
  /\ Quiet = {} /\ Refuses(e)
  /\ Executor!Fail(e)
  /\ UNCHANGED <<cfg, catalog, started, blind, upgrades, faults, positions, retries>>

\* With the bootstrap block there are more sync events, so this is bounded.
PRerun ==
  /\ Rerun
  /\ IF NewNodes(cfg') = {} THEN UNCHANGED retries
     ELSE retries < MaxRetries /\ retries' = retries + 1
  /\ UNCHANGED positions

-----------------------------------------------------------------------------
(* The databases.                                                          *)

Write(p) ==
  /\ end[p] < MaxLSN
  /\ end' = [end EXCEPT ![p] = @ + 1]
  /\ UNCHANGED <<mvars, replayed, slots, newNode, memory, retries>>

\* The subscription peer -> source.
Replay(p) ==
  /\ replayed[p] < end[p]
  /\ replayed' = [replayed EXCEPT ![p] = @ + 1]
  /\ UNCHANGED <<mvars, end, slots, newNode, memory, retries>>

\* The worker of source -> New makes its slot and copies, with the snapshot
\* of the slot, what the source has and how far it is with each peer.  The
\* lag tracker may lack the rows of the peers.
Copy ==
  /\ WorkerStarts(Source, New)
  /\ IF sub[<<Source, New>>] = "copying"
     THEN /\ rows' = [p \in Peer |-> rows[p] \union UpTo(replayed[p])]
          /\ progress' \in {progress, [p \in Peer |-> Larger(progress[p], replayed[p])]}
     ELSE UNCHANGED <<rows, progress>>
  /\ UNCHANGED <<wal, slots, origin, memory, retries>>

\* A worker asks for what follows its origin; the slot starts at what was
\* confirmed if that is later.
Attach(p) ==
  /\ sub[<<p, New>>] = "replicating" /\ ~Active(p)
  /\ stream' = [stream EXCEPT ![p] = Larger(origin[p], flushed[p])]
  /\ UNCHANGED <<mvars, wal, restart, flushed, newNode, memory, retries>>

\* The worker of peer -> New makes the slot if there is none.
FirstStart(p) ==
  /\ WorkerStarts(p, New)
  /\ IF SlotExists(p, New) THEN UNCHANGED <<restart, flushed>> ELSE NewSlotAt(p)
  /\ UNCHANGED <<wal, stream, newNode, memory, retries>>

Apply(p) ==
  /\ Active(p) /\ stream[p] < end[p]
  /\ stream' = [stream EXCEPT ![p] = @ + 1]
  /\ origin' = [origin EXCEPT ![p] = stream'[p]]
  /\ progress' = [progress EXCEPT ![p] = stream'[p]]
  /\ rows' = [rows EXCEPT ![p] = @ \union {stream'[p]}]
  /\ UNCHANGED <<mvars, wal, restart, flushed, memory, retries>>

\* The provider hears how far the subscriber is.
Confirm(p) ==
  /\ Active(p) /\ flushed[p] < origin[p]
  /\ flushed' = [flushed EXCEPT ![p] = origin[p]]
  /\ \E r \in {restart[p], origin[p]} : restart' = [restart EXCEPT ![p] = r]
  /\ UNCHANGED <<mvars, wal, stream, newNode, memory, retries>>

\* The worker or the connection breaks.
Detach(p) ==
  /\ Active(p)
  /\ faults < MaxFaults /\ faults' = faults + 1
  /\ stream' = [stream EXCEPT ![p] = None]
  /\ UNCHANGED <<cfg, catalog, started, blind, execution, upgrades,
                 wal, restart, flushed, newNode, memory, retries>>

\* The workers of the directions from New, which Mesh.tla follows, start at
\* once.
Late == {x \in InitialNodes : sub[<<New, x>>] = "initializing"}

-----------------------------------------------------------------------------

\* Peers may still have a slot of an earlier node of this name: orphan scans
\* that fail are only logged.
PInit ==
  /\ \E L \in SUBSET {<<p, New>> : p \in Peer} :
       Cardinality(L) <= MaxFaults /\ InitWith(InitialNodes, {}, L)
  /\ end = [p \in Peer |-> 0] /\ replayed = end
  /\ restart = end /\ flushed = end /\ origin = end
  /\ stream = [p \in Peer |-> None]
  /\ rows = [p \in Peer |-> {}]
  /\ progress = stream /\ event = stream /\ stamp = stream /\ moved = stream
  /\ step = [p \in Peer |-> "target"] /\ retries = 0

\* What is fair in Mesh.tla, with positions.
LateStarts == \E x \in Late : WorkerStarts(New, x) /\ UNCHANGED <<positions, retries>>

PJobOrOperator ==
  \/ PRerun \/ PReturn
  \/ (NextPhase \/ TimeOut) /\ UNCHANGED <<positions, retries>>

PCallReturns ==
  \/ \E e \in running : PSucceed(e) \/ Refused(e) \/ (Executor!Asked /\ PFail(e))
  \/ \E p \in Peer : AdvanceGoesOn(p)

PSomeWorker == Copy \/ \E p \in Peer : FirstStart(p)

\* What is not fair: faults, the upgrade, writes, confirmations.
Unforced ==
  \/ (PlanFails \/ Stop \/ AddNode(New, Source)) /\ UNCHANGED <<positions, retries>>
  \/ \E e \in running : PFail(e)
  \/ \E p \in Peer : Write(p) \/ Confirm(p) \/ Detach(p)

PNext ==
  \/ LateStarts
  \/ /\ Late = {}
     /\ \/ PMakePlan \/ PJobOrOperator \/ PCallReturns \/ PSomeWorker \/ Unforced
        \/ \E p \in Peer : Replay(p) \/ Attach(p) \/ Apply(p)

PSpec == PInit /\ [][PNext]_pvars

(***************************************************************************)
(* As in Mesh.tla; besides, subscriptions between nodes that work replay   *)
(* what there is, and their workers come back.                             *)
(***************************************************************************)
PFairness ==
  /\ []<>~started
  /\ WF_pvars(LateStarts)
  /\ WF_pvars(Late = {} /\ PJobOrOperator)
  /\ WF_pvars(Late = {} /\ PCallReturns)
  /\ SF_pvars(Late = {} /\ PSomeWorker)
  /\ \A p \in Peer : WF_pvars(Late = {} /\ (Replay(p) \/ Attach(p) \/ Apply(p)))

PFairSpec == PSpec /\ PFairness

-----------------------------------------------------------------------------

PTypeOK ==
  /\ TypeOK
  /\ {end, replayed, restart, flushed, origin} \subseteq [Peer -> Nat]
  /\ {stream, progress, event, stamp, moved} \subseteq [Peer -> Nat \union {None}]
  /\ retries \in 0 .. MaxRetries
  /\ \A p \in Peer :
       /\ rows[p] \subseteq UpTo(end[p])
       /\ replayed[p] <= end[p] /\ restart[p] <= flushed[p] /\ flushed[p] <= end[p]
       /\ step[p] \in {"target", "active", "compare", "advance"}

(* Populate adds a node while the peers go on writing.  From the moment    *)
(* the copy is done, every commit of a peer is on the new node or will     *)
(* still be sent by the peer's slot: none falls between copy and slot, nor *)
(* under an advanced slot or origin, in the run that adds the node and in  *)
(* any run that repairs it.                                                *)
NoCommitIsLost ==
  New \in seeded =>
    \A p \in Peer : \A c \in UpTo(end[p]) :
      \/ c \in rows[p]
      \/ SlotExists(p, New) /\ c > Larger(flushed[p], origin[p])

(* "skip WAL the subscriber has already received via the source path,      *)
(* preventing double-apply" (replication_slot_advance.go:15): in the run   *)
(* that adds the node, if the lag tracker has the peer's row, nothing is   *)
(* sent that the new node has.                                             *)
AppliedOnce ==
  [][\A p \in Peer :
       /\ New \in NewNodes(cfg) /\ retries = 0 /\ stamp[p] # None
       /\ Active(p) /\ stream'[p] = stream[p] + 1
       => stream'[p] \notin rows[p]]_pvars

(* "both must complete before enabling the subscription to keep slot LSN   *)
(* and origin LSN in lockstep" (desired.go:78): when the run that adds the *)
(* node enables a subscription that populate made disabled, slot and       *)
(* origin agree on what the copy brought.                                  *)
Lockstep ==
  [][\A p \in Peer :
       /\ <<"create", OriginAdvance(p, New)>> \in done /\ stamp[p] # None
       /\ sub[<<p, New>>] = "disabled" /\ sub'[<<p, New>>] = "initializing"
       => /\ origin[p] = flushed[p]
          /\ rows[p] = UpTo(origin[p])]_pvars

(* When upgrades, faults and writes have stopped, a node that got its copy *)
(* comes to have every commit of every peer.                               *)
AllCommitsArrive ==
  <>[](New \in seeded => \A p \in Peer : rows[p] = UpTo(end[p]))
=============================================================================
