----------------------------- MODULE EnginePool -----------------------------
(***************************************************************************)
(* The engine pool of core/server/engine.rs: one slot per model, which     *)
(* loads its engine for the first request that needs it, lends it to       *)
(* requests, and gives it up for the loaded-model cap, under memory        *)
(* pressure, after idle time or on an operator's order.                    *)
(*                                                                         *)
(* A slot object is <<model, n>>: a reload or a registration may put a new *)
(* object in the map while calls still hold the old one.  Each action is   *)
(* the code between two awaits that other tasks can get into; a scan that  *)
(* locks the slots one by one (loaded_count, the choice of a victim) is    *)
(* one action, and so is the drain poll with the lock it takes next.       *)
(* Disabled models are refused before they reach a slot and are left out.  *)
(***************************************************************************)
EXTENDS Naturals, Sequences, FiniteSets

CONSTANTS
  Models,
  Preload,        \* models with the Preload policy; the others are lazy
  NoModel,
  Requests,       \* inference calls (EngineLoadTrigger::Request)
  Controls,       \* operator calls (EngineLoadTrigger::Control)
  HangUps,        \* calls whose client may disconnect
  Monitor,        \* the memory monitor, an evictor next to the tasks
  NoSlot,
  MaxObjects,     \* bound on the slot objects made for a model
  MaxLoaded,      \* max_loaded_models
  EvictsLru,      \* EnginePoolCapacityPolicy is EvictLruIdle, not Reject
  MemoryTight     \* the memory governor may refuse a load

Tasks == Requests \cup Controls
Slots == Models \X (1..MaxObjects)
ModelOf(s) == s[1]

ASSUME PoolAssumption ==
  /\ IsFiniteSet(Models) /\ IsFiniteSet(Requests)
  /\ Preload \subseteq Models /\ NoModel \notin Models
  /\ NoSlot \notin Slots /\ Monitor \notin Tasks /\ Requests \cap Controls = {}
  /\ HangUps \subseteq Tasks
  /\ MaxObjects \in Nat \ {0}
  /\ MaxLoaded \in Nat \ {0} /\ MaxLoaded >= Cardinality(Preload)
  /\ {EvictsLru, MemoryTight} \subseteq BOOLEAN

VARIABLES
  map,       \* slots: the slot object of each model, or NoSlot
  made,      \* how many objects each model has had
  state,     \* EngineSlotState of each object
  pinned,    \* EngineSlot.pinned
  active,    \* EngineSlot.active_requests
  refs,      \* tasks that hold the Arc of the slot's present engine
  streams,   \* requests whose response body its scheduler actor still fills
  recency,   \* loaded objects by last_used_unix_ms, oldest first
  drainers,  \* objects a finish_draining task polls
  gate,      \* load_gate: its holder, then the tasks queued for it
  pc,        \* where each task is
  op,        \* the call each task makes
  slot,      \* the object it works on
  old,       \* the object its reload took out of the map
  victim,    \* the model each evictor chose
  sweep      \* the object the TTL sweep is about to unload, or NoSlot

catalog == <<map, made>>
engines == <<state, refs, streams, recency, drainers>>
locals == <<op, slot, old>>
vars == <<catalog, engines, pinned, active, gate, pc, locals, victim, sweep>>

States == {"Unloaded", "Loading", "Loaded", "Draining", "Failed"}
Points == {"new", "insert", "look", "waiting", "gate", "reserve", "reclaim",
           "retry", "capacity", "evict", "begin", "loading", "leased", "streaming",
           "undo", "restore", "setpin", "enroll", "done", "loadcut", "reloadcut"}

\* A call that is over: it has returned, or its handler was dropped.  A drop that
\* leaves a load or a reload half done has a point of its own.
Over == {"done", "loadcut", "reloadcut"}

\* The static pool loads its Preload models before it serves anything.
Init ==
  /\ map = [m \in Models |-> <<m, 1>>]
  /\ made = [m \in Models |-> 1]
  /\ state = [s \in Slots |->
               IF ModelOf(s) \in Preload /\ s[2] = 1 THEN "Loaded" ELSE "Unloaded"]
  /\ pinned = [s \in Slots |-> FALSE]
  /\ active = [s \in Slots |-> 0]
  /\ refs = [s \in Slots |-> {}]
  /\ streams = [s \in Slots |-> {}]
  /\ recency = <<>>
  /\ drainers = {}
  /\ gate = <<>>
  /\ pc = [t \in Tasks |-> "new"]
  /\ op = [t \in Tasks |-> "none"]
  /\ slot = [t \in Tasks |-> NoSlot]
  /\ old = [t \in Tasks |-> NoSlot]
  /\ victim = [e \in Tasks \cup {Monitor} |-> NoModel]
  /\ sweep = NoSlot
-----------------------------------------------------------------------------
(* Slots *)

\* A queue that holds nothing twice, with x gone from it.
Without(seq, x) ==
  LET places == {i \in 1..Len(seq) : seq[i] = x}
      place == CHOOSE i \in places : TRUE
  IN  IF places = {} THEN seq
      ELSE [i \in 1..(Len(seq) - 1) |-> seq[IF i < place THEN i ELSE i + 1]]

\* last_used_unix_ms := now.  A sweep that chose s earlier finds it recent.
Touch(s) ==
  /\ recency' = Append(Without(recency, s), s)
  /\ sweep' = IF sweep = s THEN NoSlot ELSE sweep

\* The slot gives up its Arc, for state st.  The last Arc takes the sender of
\* the scheduler actor's commands with it, and the actor cuts its streams.
Give(s, st) ==
  /\ state' = [state EXCEPT ![s] = st]
  /\ recency' = Without(recency, s)
  /\ IF st = "Unloaded"
     THEN refs' = [refs EXCEPT ![s] = {}] /\ streams' = [streams EXCEPT ![s] = {}]
     ELSE UNCHANGED <<refs, streams>>

\* notify_waiters of s, on the program counters p.
Woken(s, p) ==
  [t \in Tasks |-> IF p[t] = "waiting" /\ slot[t] = s THEN "look" ELSE p[t]]

\* Mutant of Lend: an operator's lease counts as a request.
LendCountsAll(t, s) ==
  /\ refs' = [refs EXCEPT ![s] = @ \cup {t}]
  /\ active' = [active EXCEPT ![s] = @ + 1] /\ Touch(s)

\* EngineLease::new for t: the state lock of s is held.
Lend(t, s) ==
  /\ refs' = [refs EXCEPT ![s] = @ \cup {t}]
  /\ IF t \in Requests
     THEN active' = [active EXCEPT ![s] = @ + 1] /\ Touch(s)
     ELSE UNCHANGED <<active, recency, sweep>>

InUse(s) == state[s] \in {"Loaded", "Draining"}
InMap == {map[m] : m \in Models} \ {NoSlot}
LoadedCount == Cardinality({s \in InMap : InUse(s)})

\* Loaded, unpinned, no active request, Arc::strong_count 1.
Idle(s) == state[s] = "Loaded" /\ ~pinned[s] /\ active[s] = 0 /\ refs[s] = {}

\* Mutant of Choose: it forgets that Preload models stay.
ChooseAny(m) ==
  LET candidates == {s \in InMap : ModelOf(s) # m /\ Idle(s)}
  IN  IF candidates = {} THEN NoModel ELSE ModelOf(CHOOSE s \in candidates : TRUE)

\* The victim evict_lru_idle_engine picks for a load of model m.
Choose(m) ==
  LET candidates == {s \in InMap : ModelOf(s) \notin Preload \cup {m} /\ Idle(s)}
      oldest == {s \in candidates : \E i \in 1..Len(recency) :
                   recency[i] = s /\ \A j \in 1..(i - 1) : recency[j] \notin candidates}
  IN  IF oldest = {} THEN NoModel ELSE ModelOf(CHOOSE s \in oldest : TRUE)

\* Its second look, under the state lock of whatever slot the model has now.
\* Nobody waits on a Loaded slot, so its notify_waiters wakes no one.
CanEvict(e) == victim[e] # NoModel /\ map[victim[e]] # NoSlot /\ Idle(map[victim[e]])
Evict(e) ==
  IF CanEvict(e) THEN Give(map[victim[e]], "Unloaded")
                 ELSE UNCHANGED <<state, recency, refs, streams>>
-----------------------------------------------------------------------------
(* Calls *)

\* The model's slot object is looked up; a model without one is an error.
Start(t, name, m) ==
  /\ pc[t] = "new"
  /\ op' = [op EXCEPT ![t] = name]
  /\ slot' = [slot EXCEPT ![t] = map[m]]

Resolve(t, m) ==
  /\ Start(t, IF t \in Requests THEN "request" ELSE "load", m)
  /\ pc' = [pc EXCEPT ![t] = IF map[m] = NoSlot THEN "done" ELSE "look"]
  /\ UNCHANGED <<catalog, engines, pinned, active, gate, old, victim, sweep>>

\* Task t makes a new slot object for m, pinned as the configuration says.
Fresh(t, m) ==
  LET s == <<m, made[m] + 1>> IN
  /\ made[m] < MaxObjects
  /\ made' = [made EXCEPT ![m] = @ + 1]
  /\ slot' = [slot EXCEPT ![t] = s]
  /\ \E p \in BOOLEAN : pinned' = [pinned EXCEPT ![s] = p]

\* reload_dynamic_model takes the old object out of the map ...
ReloadRemove(t, m) ==
  /\ t \in Controls /\ pc[t] = "new"
  /\ Fresh(t, m)
  /\ op' = [op EXCEPT ![t] = "reload"]
  /\ old' = [old EXCEPT ![t] = map[m]]
  /\ map' = [map EXCEPT ![m] = NoSlot]
  /\ pc' = [pc EXCEPT ![t] = "insert"]
  /\ UNCHANGED <<engines, active, gate, victim, sweep>>

\* ... and after it has updated the registry puts in the new one.
ReloadInsert(t) ==
  /\ pc[t] = "insert"
  /\ map' = [map EXCEPT ![ModelOf(slot[t])] = slot[t]]
  /\ pc' = [pc EXCEPT ![t] = "look"]
  /\ UNCHANGED <<made, engines, pinned, active, gate, locals, victim, sweep>>

\* ensure_loaded gives up with an error; a failed reload rolls back.
AfterError(t) == IF op[t] = "reload" THEN "undo" ELSE "done"

\* The first look at the slot, under its state lock.
LookLoaded(t) ==
  /\ pc[t] = "look" /\ state[slot[t]] = "Loaded"
  /\ Lend(t, slot[t])
  /\ pc' = [pc EXCEPT ![t] = "leased"]
  /\ UNCHANGED <<catalog, state, streams, drainers, pinned, gate, locals, victim>>

\* Another task is loading: wait for its notify_waiters.
LookLoading(t) ==
  /\ pc[t] = "look" /\ state[slot[t]] = "Loading"
  /\ pc' = [pc EXCEPT ![t] = "waiting"]
  /\ UNCHANGED <<catalog, engines, pinned, active, gate, locals, victim, sweep>>

\* Mutant of Refuses: a request retries a failed load.
RefusesDraining(t) == state[slot[t]] = "Draining" /\ active[slot[t]] > 0

\* Draining with requests left, or Failed and asked for by a request.
Refuses(t) ==
  \/ state[slot[t]] = "Draining" /\ active[slot[t]] > 0
  \/ state[slot[t]] = "Failed" /\ t \in Requests

LookRefused(t) ==
  /\ pc[t] = "look" /\ Refuses(t)
  /\ pc' = [pc EXCEPT ![t] = AfterError(t)]
  /\ UNCHANGED <<catalog, engines, pinned, active, gate, locals, victim, sweep>>

\* A drained slot becomes Unloaded, and nobody is notified of it.
Drained(s) ==
  IF state[s] = "Draining" THEN Give(s, "Unloaded")
                           ELSE UNCHANGED <<state, recency, refs, streams>>

LookAbsent(t) ==
  /\ pc[t] = "look" /\ state[slot[t]] \in {"Unloaded", "Failed", "Draining"}
  /\ ~Refuses(t)
  /\ Drained(slot[t])
  /\ gate' = Append(gate, t)
  /\ pc' = [pc EXCEPT ![t] = "gate"]
  /\ UNCHANGED <<catalog, drainers, pinned, active, locals, victim, sweep>>

HasGate(t) == gate # <<>> /\ Head(gate) = t

\* The same look again, once the task holds the load gate.
GateLoaded(t) ==
  /\ pc[t] = "gate" /\ HasGate(t) /\ state[slot[t]] = "Loaded"
  /\ Lend(t, slot[t])
  /\ gate' = Tail(gate)
  /\ pc' = [pc EXCEPT ![t] = "leased"]
  /\ UNCHANGED <<catalog, state, streams, drainers, pinned, locals, victim>>

GateLoading(t) ==
  /\ pc[t] = "gate" /\ HasGate(t) /\ state[slot[t]] = "Loading"
  /\ gate' = Tail(gate)
  /\ pc' = [pc EXCEPT ![t] = "look"]
  /\ UNCHANGED <<catalog, engines, pinned, active, locals, victim, sweep>>

GateRefused(t) ==
  /\ pc[t] = "gate" /\ HasGate(t) /\ Refuses(t)
  /\ gate' = Tail(gate)
  /\ pc' = [pc EXCEPT ![t] = AfterError(t)]
  /\ UNCHANGED <<catalog, engines, pinned, active, locals, victim, sweep>>

GateAbsent(t) ==
  /\ pc[t] = "gate" /\ HasGate(t)
  /\ state[slot[t]] \in {"Unloaded", "Failed", "Draining"} /\ ~Refuses(t)
  /\ Drained(slot[t])
  /\ pc' = [pc EXCEPT ![t] = "reserve"]
  /\ UNCHANGED <<catalog, drainers, pinned, active, gate, locals, victim, sweep>>
-----------------------------------------------------------------------------
(* ensure_capacity_for and the load, with the gate held *)

\* Any error of ensure_capacity_for: CapacityRejected, whatever the slot was.
CapacityRejected(t) ==
  /\ state' = [state EXCEPT ![slot[t]] = "Unloaded"]
  /\ gate' = Tail(gate)
  /\ pc' = Woken(slot[t], [pc EXCEPT ![t] = AfterError(t)])

\* state := Loading.
BeginLoad(t) ==
  /\ state' = [state EXCEPT ![slot[t]] = "Loading"]
  /\ pc' = Woken(slot[t], [pc EXCEPT ![t] = "loading"])
  /\ UNCHANGED gate

\* The governor grants the estimated weight bytes, at once or on the retry.
Reserve(t) ==
  /\ pc[t] \in {"reserve", "retry"}
  /\ pc' = [pc EXCEPT ![t] = "capacity"]
  /\ UNCHANGED <<catalog, engines, pinned, active, gate, locals, victim, sweep>>

\* It refuses: reclaim, which ends with the eviction of an idle engine ...
ReserveRefused(t) ==
  /\ pc[t] = "reserve" /\ MemoryTight
  /\ victim' = [victim EXCEPT ![t] = Choose(ModelOf(slot[t]))]
  /\ pc' = [pc EXCEPT ![t] = "reclaim"]
  /\ UNCHANGED <<catalog, engines, pinned, active, gate, locals, sweep>>

Reclaim(t) ==
  /\ pc[t] = "reclaim"
  /\ Evict(t)
  /\ victim' = [victim EXCEPT ![t] = NoModel]
  /\ pc' = [pc EXCEPT ![t] = "retry"]
  /\ UNCHANGED <<catalog, drainers, pinned, active, gate, locals, sweep>>

\* ... and retry once.
RetryRefused(t) ==
  /\ pc[t] = "retry"
  /\ CapacityRejected(t)
  /\ UNCHANGED <<catalog, refs, streams, recency, drainers, pinned, active, locals, victim, sweep>>

\* Mutant of HasRoom: off by one.
HasRoomForOneMore == LoadedCount <= MaxLoaded
HasRoom == LoadedCount < MaxLoaded

CapacityContinue(t) ==
  /\ pc[t] = "capacity" /\ HasRoom
  /\ BeginLoad(t)
  /\ UNCHANGED <<catalog, refs, streams, recency, drainers, pinned, active, locals, victim, sweep>>

CapacityReject(t) ==
  /\ pc[t] = "capacity" /\ ~HasRoom
  /\ ~EvictsLru
  /\ CapacityRejected(t)
  /\ UNCHANGED <<catalog, refs, streams, recency, drainers, pinned, active, locals, victim, sweep>>

TryEvictLruIdle(t) ==
  /\ pc[t] = "capacity" /\ ~HasRoom
  /\ EvictsLru
  /\ victim' = [victim EXCEPT ![t] = Choose(ModelOf(slot[t]))]
  /\ pc' = [pc EXCEPT ![t] = "evict"]
  /\ UNCHANGED <<catalog, engines, pinned, active, gate, locals, sweep>>

\* One engine makes room for one; none to evict is an error.
EvictForRoom(t) ==
  /\ pc[t] = "evict" /\ CanEvict(t)
  /\ victim' = [victim EXCEPT ![t] = NoModel]
  /\ Evict(t)
  /\ pc' = [pc EXCEPT ![t] = "begin"]
  /\ UNCHANGED <<catalog, drainers, pinned, active, gate, locals, sweep>>

NoRoom(t) ==
  /\ pc[t] = "evict" /\ ~CanEvict(t)
  /\ victim' = [victim EXCEPT ![t] = NoModel]
  /\ CapacityRejected(t)
  /\ UNCHANGED <<catalog, refs, streams, recency, drainers, pinned, active, locals, sweep>>

Begin(t) ==
  /\ pc[t] = "begin"
  /\ BeginLoad(t)
  /\ UNCHANGED <<catalog, refs, streams, recency, drainers, pinned, active, locals, victim, sweep>>

\* The engine is built and within the memory limits.
LoadDone(t) ==
  /\ pc[t] = "loading"
  /\ state' = [state EXCEPT ![slot[t]] = "Loaded"]
  /\ refs' = [refs EXCEPT ![slot[t]] = {t}]
  /\ active' = [active EXCEPT ![slot[t]] = @ + (IF t \in Requests THEN 1 ELSE 0)]
  /\ Touch(slot[t])
  /\ gate' = Tail(gate)
  /\ pc' = Woken(slot[t], [pc EXCEPT ![t] = "leased"])
  /\ UNCHANGED <<catalog, streams, drainers, pinned, locals, victim>>

\* Mutants of LoadFailed: nobody is notified; the slot stays in Loading.
LoadFailsSilently(t) ==
  /\ pc[t] = "loading"
  /\ state' = [state EXCEPT ![slot[t]] = "Failed"]
  /\ gate' = Tail(gate)
  /\ pc' = [pc EXCEPT ![t] = AfterError(t)]
  /\ UNCHANGED <<catalog, refs, streams, recency, drainers, pinned, active, locals,
                 victim, sweep>>
LoadFailsInPlace(t) ==
  /\ pc[t] = "loading"
  /\ gate' = Tail(gate)
  /\ pc' = [pc EXCEPT ![t] = AfterError(t)]
  /\ UNCHANGED <<catalog, engines, pinned, active, locals, victim, sweep>>

\* The snapshot lease, the load or the memory limits fail.
LoadFailed(t) ==
  /\ pc[t] = "loading"
  /\ state' = [state EXCEPT ![slot[t]] = "Failed"]
  /\ gate' = Tail(gate)
  /\ pc' = Woken(slot[t], [pc EXCEPT ![t] = AfterError(t)])
  /\ UNCHANGED <<catalog, refs, streams, recency, drainers, pinned, active, locals, victim, sweep>>

\* Mutant of DropLease: an operator's lease decrements active_requests too.
DropAnyLease(t) ==
  /\ pc[t] = "leased"
  /\ refs' = [refs EXCEPT ![slot[t]] = @ \ {t}]
  /\ active' = [active EXCEPT ![slot[t]] = @ - 1]
  /\ UNCHANGED <<catalog, state, recency, drainers, pinned, gate, locals, victim, sweep>>

\* The lease is dropped: EngineLease::drop.
DropLease(t) ==
  /\ pc[t] = "leased"
  /\ refs' = [refs EXCEPT ![slot[t]] = @ \ {t}]
  /\ active' = [active EXCEPT ![slot[t]] = @ - (IF t \in Requests THEN 1 ELSE 0)]
  /\ UNCHANGED <<catalog, state, recency, drainers, pinned, gate, locals, victim, sweep>>

\* A unary response is complete, an operator's call has its result.
Release(t) ==
  /\ DropLease(t)
  /\ pc' = [pc EXCEPT ![t] = "done"]
  /\ UNCHANGED streams

\* A streaming response is returned, with its body still to come; the task
\* that forwards it holds neither the lease nor a sender of the actor.
Respond(t) ==
  /\ t \in Requests /\ DropLease(t)
  /\ streams' = [streams EXCEPT ![slot[t]] =
                   IF t \in refs[slot[t]] THEN @ \cup {t} ELSE @]
  /\ pc' = [pc EXCEPT ![t] = "streaming"]

\* The body ends, by its last event or cut short.
StreamEnds(t) ==
  /\ pc[t] = "streaming"
  /\ streams' = [streams EXCEPT ![slot[t]] = @ \ {t}]
  /\ pc' = [pc EXCEPT ![t] = "done"]
  /\ UNCHANGED <<catalog, state, refs, recency, drainers, pinned, active, gate,
                 locals, victim, sweep>>

\* Mutant of ReloadUndo: the old object is not put back.
ReloadForgets(t) ==
  /\ pc[t] = "undo"
  /\ map' = [map EXCEPT ![ModelOf(slot[t])] = NoSlot]
  /\ pc' = [pc EXCEPT ![t] = "done"]
  /\ UNCHANGED <<made, engines, pinned, active, gate, locals, victim, sweep>>

\* A failed reload removes whatever the model has now ...
ReloadUndo(t) ==
  /\ pc[t] = "undo"
  /\ map' = [map EXCEPT ![ModelOf(slot[t])] = NoSlot]
  /\ pc' = [pc EXCEPT ![t] = IF old[t] = NoSlot THEN "done" ELSE "restore"]
  /\ UNCHANGED <<made, engines, pinned, active, gate, locals, victim, sweep>>

\* ... and puts its old object back, in the state it is in by now.
ReloadRestore(t) ==
  /\ pc[t] = "restore"
  /\ map' = [map EXCEPT ![ModelOf(slot[t])] = old[t]]
  /\ pc' = [pc EXCEPT ![t] = "done"]
  /\ UNCHANGED <<made, engines, pinned, active, gate, locals, victim, sweep>>
-----------------------------------------------------------------------------
(* Unloading, pinning, registering *)

\* Mutant of Unload: nobody polls the draining slot.
UnloadUnwatched(m) ==
  LET s == map[m] IN
  /\ m \notin Preload /\ s # NoSlot /\ state[s] # "Loading"
  /\ Give(s, IF InUse(s) /\ active[s] > 0 THEN "Draining" ELSE "Unloaded")
  /\ pc' = Woken(s, pc)
  /\ UNCHANGED <<catalog, drainers, pinned, active, gate, locals, victim, sweep>>

\* unload of a lazy model.
Unload(m) ==
  LET s == map[m] IN
  /\ m \notin Preload /\ s # NoSlot /\ state[s] # "Loading"
  /\ IF InUse(s) /\ active[s] > 0
     THEN Give(s, "Draining") /\ drainers' = drainers \cup {s}
     ELSE Give(s, "Unloaded") /\ UNCHANGED drainers
  /\ pc' = Woken(s, pc)
  /\ UNCHANGED <<catalog, pinned, active, gate, locals, victim, sweep>>

\* Mutant of FinishDraining: it does not look at active_requests.
FinishDrainingEarly(s) ==
  /\ s \in drainers
  /\ drainers' = drainers \ {s}
  /\ IF state[s] = "Draining"
     THEN Give(s, "Unloaded") /\ pc' = Woken(s, pc)
     ELSE UNCHANGED <<state, recency, refs, streams, pc>>
  /\ UNCHANGED <<catalog, pinned, active, gate, locals, victim, sweep>>

\* finish_draining: the poll that finds no active request.
FinishDraining(s) ==
  /\ s \in drainers /\ active[s] = 0
  /\ drainers' = drainers \ {s}
  /\ IF state[s] = "Draining"
     THEN Give(s, "Unloaded") /\ pc' = Woken(s, pc)
     ELSE UNCHANGED <<state, recency, refs, streams, pc>>
  /\ UNCHANGED <<catalog, pinned, active, gate, locals, victim, sweep>>

\* unload_if_ttl_expired: what it tests before it takes the state lock.
TtlCheck(s) ==
  /\ sweep = NoSlot
  /\ s \in InMap /\ ModelOf(s) \notin Preload
  /\ state[s] = "Loaded" /\ ~pinned[s] /\ active[s] = 0
  /\ sweep' = s
  /\ UNCHANGED <<catalog, engines, pinned, active, gate, pc, locals, victim>>

\* ... and what it tests again under it.
TtlUnload ==
  LET s == sweep IN
  /\ s # NoSlot
  /\ IF state[s] = "Loaded" /\ active[s] = 0
     THEN Give(s, "Unloaded") /\ pc' = Woken(s, pc)
     ELSE UNCHANGED <<state, recency, refs, streams, pc>>
  /\ sweep' = NoSlot
  /\ UNCHANGED <<catalog, drainers, pinned, active, gate, locals, victim>>

\* Hard or Emergency pressure makes the monitor evict.
MonitorChoose ==
  /\ victim[Monitor] = NoModel
  /\ victim' = [victim EXCEPT ![Monitor] = Choose(NoModel)]
  /\ UNCHANGED <<catalog, engines, pinned, active, gate, pc, locals, sweep>>

MonitorEvict ==
  /\ victim[Monitor] # NoModel
  /\ Evict(Monitor)
  /\ victim' = [victim EXCEPT ![Monitor] = NoModel]
  /\ UNCHANGED <<catalog, drainers, pinned, active, gate, pc, locals, sweep>>

\* set_model_pinned: the model must be loaded when it looks.
PinCheck(t, m) ==
  /\ t \in Controls /\ Start(t, "pin", m)
  /\ pc' = [pc EXCEPT ![t] =
       IF map[m] # NoSlot /\ state[map[m]] = "Loaded" THEN "setpin" ELSE "done"]
  /\ UNCHANGED <<catalog, engines, pinned, active, gate, old, victim, sweep>>

SetPinned(t) ==
  /\ pc[t] = "setpin"
  /\ \E p \in BOOLEAN : pinned' = [pinned EXCEPT ![slot[t]] = p]
  /\ pc' = [pc EXCEPT ![t] = "done"]
  /\ UNCHANGED <<catalog, engines, active, gate, locals, victim, sweep>>

\* register_dynamic_model keeps an object that is loaded, loading or draining ...
RegisterKeep(t, m) ==
  /\ t \in Controls /\ Start(t, "register", m)
  /\ map[m] # NoSlot /\ state[map[m]] \in {"Loaded", "Loading", "Draining"}
  /\ pc' = [pc EXCEPT ![t] = "setpin"]
  /\ UNCHANGED <<catalog, engines, pinned, active, gate, old, victim, sweep>>

\* ... and makes a new one in place of any other.
RegisterNew(t, m) ==
  /\ t \in Controls /\ pc[t] = "new"
  /\ map[m] # NoSlot => state[map[m]] \in {"Unloaded", "Failed"}
  /\ Fresh(t, m)
  /\ op' = [op EXCEPT ![t] = "register"]
  /\ pc' = [pc EXCEPT ![t] = "enroll"]
  /\ UNCHANGED <<map, engines, active, gate, old, victim, sweep>>

RegisterInsert(t) ==
  /\ pc[t] = "enroll"
  /\ map' = [map EXCEPT ![ModelOf(slot[t])] = slot[t]]
  /\ pc' = [pc EXCEPT ![t] = "done"]
  /\ UNCHANGED <<made, engines, pinned, active, gate, locals, victim, sweep>>

\* Where a call dropped at point p ends.
CutAt(p) ==
  CASE p = "loading" -> "loadcut"
    [] p \in {"insert", "restore"} -> "reloadcut"
    [] OTHER -> "done"

\* A dropped call lets go of the gate and of its place in the queue; what it
\* wrote to its slot and to the map stays.
HangUp(t) ==
  /\ t \in HangUps /\ pc[t] \notin {"new", "leased", "streaming"} \cup Over
  /\ gate' = Without(gate, t)
  /\ victim' = [victim EXCEPT ![t] = NoModel]
  /\ pc' = [pc EXCEPT ![t] = CutAt(@)]
  /\ UNCHANGED <<catalog, engines, pinned, active, locals, sweep>>
-----------------------------------------------------------------------------

\* What a task does by itself once its call has started.
Proceed(t) ==
  \/ ReloadInsert(t) \/ RegisterInsert(t) \/ SetPinned(t)
  \/ LookLoaded(t) \/ LookLoading(t) \/ LookRefused(t) \/ LookAbsent(t)
  \/ GateLoaded(t) \/ GateLoading(t) \/ GateRefused(t) \/ GateAbsent(t)
  \/ Reserve(t) \/ ReserveRefused(t) \/ Reclaim(t) \/ RetryRefused(t)
  \/ CapacityContinue(t) \/ CapacityReject(t) \/ TryEvictLruIdle(t)
  \/ EvictForRoom(t) \/ NoRoom(t) \/ Begin(t)
  \/ LoadDone(t) \/ LoadFailed(t)
  \/ Release(t) \/ Respond(t) \/ StreamEnds(t)
  \/ ReloadUndo(t) \/ ReloadRestore(t)

\* Calls that arrive; a static pool (MaxObjects 1) has no reload or register.
Arrive(t) ==
  \E m \in Models :
    \/ Resolve(t, m)
    \/ ReloadRemove(t, m)
    \/ PinCheck(t, m)
    \/ RegisterKeep(t, m)
    \/ RegisterNew(t, m)

Next ==
  \/ \E t \in Tasks : Arrive(t) \/ Proceed(t) \/ HangUp(t)
  \/ \E m \in Models : Unload(m)
  \/ \E s \in Slots : FinishDraining(s) \/ TtlCheck(s)
  \/ TtlUnload
  \/ MonitorChoose \/ MonitorEvict

Spec == Init /\ [][Next]_vars

\* The runtime polls a woken task, the load gate is a queue, and the drain
\* poll sleeps 50 ms at a time.
Fairness ==
  /\ \A t \in Tasks : WF_vars(Proceed(t))
  /\ \A s \in Slots : WF_vars(FinishDraining(s))

FairSpec == Spec /\ Fairness
-----------------------------------------------------------------------------
(* Properties *)

TypeOK ==
  /\ map \in [Models -> Slots \cup {NoSlot}]
  /\ made \in [Models -> 1..MaxObjects]
  /\ state \in [Slots -> States]
  /\ pinned \in [Slots -> BOOLEAN]
  /\ active \in [Slots -> 0..Cardinality(Requests)]
  /\ refs \in [Slots -> SUBSET Tasks]
  /\ streams \in [Slots -> SUBSET Requests]
  /\ drainers \subseteq Slots
  /\ pc \in [Tasks -> Points]
  /\ {slot[t] : t \in Tasks} \cup {old[t] : t \in Tasks} \subseteq Slots \cup {NoSlot}
  /\ sweep \in Slots \cup {NoSlot}
  /\ victim \in [Tasks \cup {Monitor} -> Models \cup {NoModel}]
  /\ \A i, j \in 1..Len(gate) : i # j => gate[i] # gate[j]

\* An engine lent to a request is not unloaded under it: its slot stays Loaded
\* or Draining, counted by loaded_count, until the request drops its lease.
LeaseKeepsEngine ==
  \A t \in Requests : pc[t] = "leased" => InUse(slot[t]) /\ t \in refs[slot[t]]

\* active_requests is the number of leases, so an idle engine is idle and a
\* drained one is drained.
ActiveCountsLeases ==
  \A s \in Slots :
    active[s] = Cardinality({t \in Requests : pc[t] = "leased" /\ slot[t] = s})

\* docs/engine-pool.md:68-69: an engine in use, and one whose response is still
\* being streamed is, is not evicted.
StreamKeepsEngine ==
  \A t \in Requests : pc[t] = "streaming" => t \in streams[slot[t]]

\* docs/engine-pool.md:39, serve.rs:65: no more than max_loaded_models models
\* of the pool have an engine.
CapRespected == LoadedCount <= MaxLoaded

\* The load of s was dropped by a client that left in the middle of it.
LoadCut(s) == \E t \in HangUps : pc[t] = "loadcut" /\ slot[t] = s

\* A slot in Loading is being loaded by the one task that holds the load gate
\* (docs/engine-pool.md, "loading: model load is in progress"), unless the client
\* whose request was loading it has left; no failure, refusal, unload or reload
\* leaves it behind.
LoadingHasLoader ==
  \A s \in Slots : state[s] = "Loading" =>
    (\E t \in Tasks : HasGate(t) /\ pc[t] = "loading" /\ slot[t] = s) \/ LoadCut(s)

\* Reload t is between taking an object out of the map and putting one in, its
\* operator hung up there, or its rollback had no object to put back.
Parts(t) ==
  \/ pc[t] \in {"insert", "restore"}
  \/ pc[t] = "reloadcut" /\ t \in HangUps
  \/ pc[t] = "done" /\ old[t] = NoSlot

\* A model is without a slot object only while a reload or its rollback is
\* under way, after one whose operator hung up in the middle of it, or after the
\* rollback of a reload that found it without one.
ModelKept ==
  \A m \in Models : map[m] = NoSlot =>
    \E t \in Controls : op[t] = "reload" /\ ModelOf(slot[t]) = m /\ Parts(t)

\* Nothing takes a Preload model out of service: not the cap, memory pressure,
\* idle time, an operator's unload or a failed call.
PreloadStays ==
  [][\A s \in Slots :
       ModelOf(s) \in Preload /\ state[s] = "Loaded" => state'[s] = "Loaded"]_vars

\* A request never retries a failed load, even one that failed while it stood
\* in the queue for the load gate (docs/engine-pool.md:64-66).
FailedNeedsControl ==
  [][\A s \in Slots : state[s] = "Failed" /\ state'[s] = "Loading" =>
       \E t \in Controls : pc'[t] = "loading" /\ slot[t] = s]_vars

\* Every call ends: no task waits for a notification that was sent before it
\* waited or is never sent, or for a gate nobody opens.  Only the slot whose load
\* was dropped keeps its callers: a load cut for one model stops no other.
EveryCallEnds ==
  \A t \in Tasks : pc[t] # "new" ~> pc[t] \in Over \/ (slot[t] # NoSlot /\ LoadCut(slot[t]))

\* An unload deferred by running requests happens once they are done.
DrainingEnds == \A s \in Slots : state[s] = "Draining" ~> state[s] # "Draining"
=============================================================================
