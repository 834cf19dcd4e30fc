-------------------------- MODULE EnginePoolProofs --------------------------
(***************************************************************************)
(* For any number of models, requests and operator calls: the type of      *)
(* EnginePool's state, what a lease guarantees, who loads, and what nobody *)
(* may take out of service.                                                *)
(*                                                                         *)
(* The inductive invariant Inv says of a task what its place in its call   *)
(* means for its slot (TaskOK), of a slot that it counts its leases        *)
(* (Counted), and of the load gate that those inside hold it (Queue).      *)
(***************************************************************************)
EXTENDS EnginePool, FiniteSetTheorems, TLAPS

Holding == {"reserve", "reclaim", "retry", "capacity", "evict", "begin", "loading"}

Types ==
  /\ map \in [Models -> Slots \cup {NoSlot}]
  /\ made \in [Models -> 1..MaxObjects]
  /\ state \in [Slots -> States]
  /\ pinned \in [Slots -> BOOLEAN]
  /\ active \in [Slots -> Nat]
  /\ refs \in [Slots -> SUBSET Tasks]
  /\ streams \in [Slots -> SUBSET Requests]
  /\ drainers \subseteq Slots
  /\ gate \in Seq(Tasks)
  /\ pc \in [Tasks -> Points]
  /\ slot \in [Tasks -> Slots \cup {NoSlot}]
  /\ old \in [Tasks -> Slots \cup {NoSlot}]
  /\ sweep \in Slots \cup {NoSlot}
  /\ victim \in [Tasks \cup {Monitor} -> Models \cup {NoModel}]

TaskOK(t) ==
  /\ pc[t] \notin {"new", "done"} => slot[t] \in Slots
  /\ pc[t] \in Holding => HasGate(t)
  /\ pc[t] \in Holding \ {"loading"} =>
       /\ state[slot[t]] \in {"Unloaded", "Failed"}
       /\ t \in Requests => state[slot[t]] = "Unloaded"
  /\ pc[t] = "loading" => state[slot[t]] = "Loading"
  /\ (t \in Requests /\ pc[t] = "leased") => InUse(slot[t]) /\ t \in refs[slot[t]]

Leases(s) == {t \in Requests : pc[t] = "leased" /\ slot[t] = s}
Counted == \A s \in Slots : active[s] = Cardinality(Leases(s))

Queue ==
  /\ \A i \in 1..Len(gate) : pc[gate[i]] \in Holding \cup {"gate"}
  /\ \A i, j \in 1..Len(gate) : i # j => gate[i] # gate[j]

Inv == Types /\ (\A t \in Tasks : TaskOK(t)) /\ Counted /\ Queue

(* What a step of t leaves of the others: their slots, their places but for the
   sleepers it wakes, the gate, and the engines they have leased. *)
Wakes(t) ==
  \A u \in Tasks \ {t} :
    /\ slot'[u] = slot[u]
    /\ pc'[u] = pc[u] \/ (pc[u] = "waiting" /\ pc'[u] = "look")

GateKept(t) == \A u \in Tasks \ {t} : HasGate(u) => HasGate(u)'

Settles(t) ==
  \A s \in Slots :
    \/ /\ refs[s] \ {t} \subseteq refs'[s]
       /\ IF InUse(s) THEN InUse(s)' ELSE state'[s] = state[s]
    \/ Leases(s) = {} /\ state[s] # "Loading" /\ state'[s] = "Unloaded"
    \/ t \in Tasks /\ s = slot[t] /\ pc[t] \in Holding

-----------------------------------------------------------------------------
(* The others                                                              *)

\* Only one task is at the head of the load gate.
LEMMA OneHolder ==
  ASSUME NEW t, NEW u, HasGate(t), HasGate(u)
  PROVE  t = u
BY DEF HasGate

\* A step that settles its slots breaks no other task's place.
LEMMA OthersOK ==
  ASSUME Inv, NEW t, Wakes(t), Settles(t), GateKept(t)
  PROVE  \A u \in Tasks \ {t} : TaskOK(u)'
<1> SUFFICES ASSUME NEW u \in Tasks \ {t} PROVE TaskOK(u)'
  OBVIOUS
<1>1. TaskOK(u) /\ slot'[u] = slot[u]
      /\ (pc'[u] = pc[u] \/ (pc[u] = "waiting" /\ pc'[u] = "look"))
  BY DEF Inv, Wakes
<1>2. CASE pc'[u] # pc[u]
  BY <1>1, <1>2 DEF TaskOK, Holding
<1>3. CASE pc'[u] = pc[u] /\ pc[u] \notin Holding \cup {"leased"}
  BY <1>1, <1>3 DEF TaskOK, Holding
<1>4. CASE pc'[u] = pc[u] /\ pc[u] \in Holding
  <2>1. HasGate(u) /\ HasGate(u)' /\ slot[u] \in Slots
    BY <1>1, <1>4 DEF TaskOK, GateKept, Holding
  <2>2. ~(t \in Tasks /\ pc[t] \in Holding)
    BY <2>1, OneHolder DEF Inv, TaskOK
  <2>3. ~InUse(slot[u])
    BY <1>1, <1>4 DEF TaskOK, InUse, Holding
  <2>4. \/ state'[slot[u]] = state[slot[u]]
        \/ state[slot[u]] # "Loading" /\ state'[slot[u]] = "Unloaded"
    BY <2>1, <2>2, <2>3 DEF Settles
  <2> QED
    BY <1>1, <1>4, <2>1, <2>4 DEF TaskOK, Holding
<1>5. CASE pc'[u] = pc[u] /\ pc[u] = "leased"
  <2>1. slot[u] \in Slots
    BY <1>1, <1>5 DEF TaskOK
  <2>2. CASE u \in Requests
    <3>1. InUse(slot[u]) /\ u \in refs[slot[u]] /\ u \in Leases(slot[u])
      BY <1>1, <1>5, <2>2 DEF TaskOK, Leases
    <3>2. ~(t \in Tasks /\ slot[u] = slot[t] /\ pc[t] \in Holding)
      BY <3>1 DEF Inv, TaskOK, InUse, Holding
    <3>3. InUse(slot[u])' /\ u \in refs'[slot[u]]
      BY <1>1, <2>1, <3>1, <3>2 DEF Settles, InUse
    <3> QED
      BY <1>1, <1>5, <2>1, <3>3 DEF TaskOK, Holding
  <2>3. CASE u \notin Requests
    BY <1>1, <1>5, <2>1, <2>3 DEF TaskOK, Holding
  <2> QED
    BY <2>2, <2>3
<1> QED
  BY <1>2, <1>3, <1>4, <1>5

\* Nobody gets or drops a lease.
LEMMA CountsKept ==
  ASSUME Inv, NEW t, Wakes(t), UNCHANGED active,
         t \in Tasks => pc[t] # "leased" /\ pc'[t] # "leased"
  PROVE  Counted'
<1>1. ASSUME NEW s \in Slots PROVE Leases(s)' = Leases(s)
  BY DEF Leases, Wakes, Tasks
<1> QED
  BY <1>1 DEF Inv, Counted

\* A step that takes no lease and drops none.
LEMMA Quiet ==
  ASSUME Inv, NEW t, Wakes(t), Settles(t), GateKept(t), UNCHANGED active,
         Types', Queue',
         t \in Tasks => TaskOK(t)' /\ pc[t] # "leased" /\ pc'[t] # "leased"
  PROVE  Inv' /\ Wakes(t)
BY OthersOK, CountsKept DEF Inv

\* t takes the lease of its slot.
LEMMA LeaseCounted ==
  ASSUME Inv, NEW t \in Tasks, Wakes(t), slot'[t] = slot[t], slot[t] \in Slots,
         pc[t] # "leased", pc'[t] = "leased",
         active' = [active EXCEPT ![slot[t]] = @ + (IF t \in Requests THEN 1 ELSE 0)]
  PROVE  Counted'
<1> SUFFICES ASSUME NEW s \in Slots PROVE active'[s] = Cardinality(Leases(s)')
  BY DEF Counted
<1>1. active \in [Slots -> Nat] /\ active[s] = Cardinality(Leases(s))
  BY DEF Inv, Types, Counted
<1>2. CASE s = slot[t] /\ t \in Requests
  <2>1. Leases(s)' = Leases(s) \cup {t} /\ t \notin Leases(s)
    BY <1>2 DEF Leases, Wakes, Tasks
  <2>2. IsFiniteSet(Leases(s))
    BY FS_Subset, PoolAssumption DEF Leases
  <2>3. Cardinality(Leases(s)') = Cardinality(Leases(s)) + 1
    BY <2>1, <2>2, FS_AddElement
  <2> QED
    BY <1>1, <1>2, <2>3
<1>3. CASE ~(s = slot[t] /\ t \in Requests)
  <2>1. Leases(s)' = Leases(s)
    BY <1>3 DEF Leases, Wakes, Tasks
  <2>2. active'[s] = active[s]
    BY <1>1, <1>3
  <2> QED
    BY <1>1, <2>1, <2>2
<1> QED
  BY <1>2, <1>3

\* t drops its lease.
LEMMA DropCounted ==
  ASSUME Inv, NEW t \in Tasks, Wakes(t), slot'[t] = slot[t], slot[t] \in Slots,
         pc[t] = "leased", pc'[t] # "leased",
         active' = [active EXCEPT ![slot[t]] = @ - (IF t \in Requests THEN 1 ELSE 0)]
  PROVE  Counted' /\ active' \in [Slots -> Nat]
<1>1. active \in [Slots -> Nat] /\ Counted
  BY DEF Inv, Types
<1>2. ASSUME NEW s \in Slots PROVE active'[s] = Cardinality(Leases(s)') /\ active'[s] \in Nat
  <2>1. CASE s = slot[t] /\ t \in Requests
    <3>1. Leases(s)' = Leases(s) \ {t} /\ t \in Leases(s)
      BY <2>1 DEF Leases, Wakes, Tasks
    <3>2. IsFiniteSet(Leases(s))
      BY FS_Subset, PoolAssumption DEF Leases
    <3>3. Cardinality(Leases(s)') = Cardinality(Leases(s)) - 1
      BY <3>1, <3>2, FS_RemoveElement
    <3>4. IsFiniteSet(Leases(s)')
      BY <3>1, <3>2, FS_RemoveElement
    <3>5. Cardinality(Leases(s)') \in Nat
      BY <3>4, FS_CardinalityType
    <3>6. active'[s] = active[s] - 1
      BY <1>1, <2>1
    <3> QED
      BY <1>1, <3>3, <3>5, <3>6 DEF Counted
  <2>2. CASE ~(s = slot[t] /\ t \in Requests)
    <3>1. Leases(s)' = Leases(s)
      BY <2>2 DEF Leases, Wakes, Tasks
    <3>2. active'[s] = active[s]
      BY <1>1, <2>2
    <3> QED
      BY <1>1, <3>1, <3>2 DEF Counted
  <2> QED
    BY <2>1, <2>2
<1>3. active' = [s \in Slots |-> active'[s]]
  BY <1>1
<1> QED
  BY <1>2, <1>3 DEF Counted

-----------------------------------------------------------------------------
(* The load gate                                                           *)

\* The load gate as it was, with its tasks where they belong in it.
LEMMA QueueKept ==
  ASSUME Inv, NEW t, Wakes(t), gate' = gate,
         t \in Tasks => \/ pc[t] \notin Holding \cup {"gate"}
                        \/ pc'[t] \in Holding \cup {"gate"}
  PROVE  Queue' /\ GateKept(t)
<1>1. GateKept(t)
  BY DEF GateKept, HasGate
<1>2. \A u \in Tasks : pc[u] \in Holding \cup {"gate"} => pc'[u] \in Holding \cup {"gate"}
  BY DEF Wakes, Holding
<1>3. Queue'
  BY <1>2 DEF Queue, Inv, Types
<1> QED
  BY <1>1, <1>3

\* The holder leaves: the next in the queue, if any, is let in.
LEMMA QueueTail ==
  ASSUME Inv, NEW t \in Tasks, Wakes(t), HasGate(t), gate' = Tail(gate)
  PROVE  Queue' /\ GateKept(t) /\ gate' \in Seq(Tasks)
<1>1. gate \in Seq(Tasks) /\ gate # <<>> /\ gate[1] = t
  BY DEF HasGate, Inv, Types
<1>2. /\ gate' \in Seq(Tasks) /\ Len(gate') = Len(gate) - 1
      /\ \A i \in 1..Len(gate') : gate'[i] = gate[i + 1] /\ i + 1 \in 1..Len(gate)
  BY <1>1
<1>3. \A i \in 1..Len(gate') : gate'[i] # t /\ gate'[i] \in Tasks
  <2> TAKE i \in 1..Len(gate')
  <2>1. 1 \in 1..Len(gate) /\ i + 1 # 1 /\ i + 1 \in 1..Len(gate)
    BY <1>1, <1>2
  <2> QED
    BY <1>1, <1>2, <2>1 DEF Inv, Queue
<1>4. \A i \in 1..Len(gate') : pc'[gate'[i]] \in Holding \cup {"gate"}
  BY <1>2, <1>3 DEF Wakes, Inv, Queue, Holding
<1>5. \A i, j \in 1..Len(gate') : i # j => gate'[i] # gate'[j]
  <2> TAKE i, j \in 1..Len(gate')
  <2>1. gate'[i] = gate[i + 1] /\ gate'[j] = gate[j + 1]
        /\ i + 1 \in 1..Len(gate) /\ j + 1 \in 1..Len(gate) /\ i \in Int /\ j \in Int
    BY <1>2
  <2> QED
    BY <2>1 DEF Inv, Queue
<1>6. GateKept(t)
  BY OneHolder DEF GateKept
<1> QED
  BY <1>2, <1>4, <1>5, <1>6 DEF Queue

\* A task that was not in the queue joins it.
LEMMA QueueAppend ==
  ASSUME Inv, NEW t \in Tasks, Wakes(t), pc[t] \notin Holding \cup {"gate"},
         pc'[t] = "gate", gate' = Append(gate, t)
  PROVE  Queue' /\ GateKept(t) /\ gate' \in Seq(Tasks)
<1>1. /\ gate \in Seq(Tasks) /\ gate' \in Seq(Tasks) /\ Len(gate') = Len(gate) + 1
      /\ \A i \in 1..Len(gate) : gate'[i] = gate[i] /\ gate[i] \in Tasks /\ gate[i] # t
      /\ gate'[Len(gate) + 1] = t
  BY DEF Inv, Types, Queue
<1>2. \A i \in 1..Len(gate') : i \in 1..Len(gate) \/ i = Len(gate) + 1
  BY <1>1
<1>3. \A i \in 1..Len(gate') : pc'[gate'[i]] \in Holding \cup {"gate"}
  BY <1>1, <1>2 DEF Wakes, Inv, Queue, Holding
<1>4. \A i, j \in 1..Len(gate') : i # j => gate'[i] # gate'[j]
  BY <1>1, <1>2 DEF Inv, Queue
<1>5. GateKept(t)
  BY <1>1 DEF GateKept, HasGate
<1> QED
  BY <1>1, <1>3, <1>4, <1>5 DEF Queue

\* A dropped call leaves the queue, wherever it stood in it.
LEMMA QueueWithout ==
  ASSUME Inv, NEW t \in Tasks, Wakes(t), gate' = Without(gate, t)
  PROVE  Queue' /\ GateKept(t) /\ gate' \in Seq(Tasks)
<1> DEFINE places == {i \in 1..Len(gate) : gate[i] = t}
           place == CHOOSE i \in places : TRUE
<1>1. gate \in Seq(Tasks) /\ Len(gate) \in Nat
      /\ \A i, j \in 1..Len(gate) : i # j => gate[i] # gate[j]
  BY DEF Inv, Types, Queue
<1>2. CASE places = {}
  <2>1. gate' = gate /\ \A i \in 1..Len(gate) : gate[i] # t
    BY <1>2 DEF Without
  <2>2. GateKept(t)
    BY <2>1 DEF GateKept, HasGate
  <2>3. Queue'
    BY <1>1, <2>1 DEF Inv, Queue, Wakes, Holding
  <2> QED
    BY <1>1, <2>1, <2>2, <2>3
<1>3. CASE places # {}
  <2>1. place \in 1..Len(gate) /\ gate[place] = t
    BY <1>3
  <2>2. gate' = [i \in 1..(Len(gate) - 1) |-> gate[IF i < place THEN i ELSE i + 1]]
    BY <1>3 DEF Without
  <2> HIDE DEF place, places
  <2> DEFINE at(i) == IF i < place THEN i ELSE i + 1
  <2>3. \A i \in 1..(Len(gate) - 1) :
          /\ at(i) \in 1..Len(gate) /\ at(i) # place
          /\ \A j \in 1..(Len(gate) - 1) : i # j => at(i) # at(j)
    BY <1>1, <2>1
  <2>4. \A i \in 1..(Len(gate) - 1) : gate'[i] = gate[at(i)]
    BY <2>2
  <2>5. Len(gate) - 1 \in Nat
    BY <1>1, <2>1
  <2> HIDE DEF at
  <2>6. \A i \in 1..(Len(gate) - 1) : gate'[i] \in Tasks /\ gate'[i] # t
    <3> SUFFICES ASSUME NEW i \in 1..(Len(gate) - 1)
                 PROVE  gate'[i] \in Tasks /\ gate'[i] # t
      OBVIOUS
    <3>1. at(i) \in 1..Len(gate) /\ at(i) # place
      BY <2>3
    <3>2. gate[at(i)] # gate[place] /\ gate[at(i)] \in Tasks
      BY <1>1, <2>1, <3>1
    <3> QED
      BY <2>1, <2>4, <3>2
  <2>7. gate' \in Seq(Tasks) /\ Len(gate') = Len(gate) - 1
    <3> SUFFICES gate' \in Seq(Tasks)
      BY <2>2, <2>5
    <3>1. PICK n \in Nat : n = Len(gate) - 1
      BY <2>5
    <3>2. gate' = [i \in 1..n |-> gate'[i]] /\ \A i \in 1..n : gate'[i] \in Tasks
      BY <2>2, <2>6, <3>1
    <3> QED
      BY <3>2
  <2>8. \A i \in 1..Len(gate') : pc'[gate'[i]] \in Holding \cup {"gate"}
    <3> SUFFICES ASSUME NEW i \in 1..(Len(gate) - 1)
                 PROVE  pc'[gate'[i]] \in Holding \cup {"gate"}
      BY <2>7
    <3>1. PICK u \in Tasks : u = gate'[i] /\ u = gate[at(i)] /\ u # t
      BY <2>4, <2>6
    <3>2. pc[u] \in Holding \cup {"gate"}
      BY <2>3, <3>1 DEF Inv, Queue
    <3>3. pc'[u] = pc[u]
      BY <3>1, <3>2 DEF Wakes, Holding
    <3> QED
      BY <3>1, <3>2, <3>3
  <2>9. \A i, j \in 1..Len(gate') : i # j => gate'[i] # gate'[j]
    <3> SUFFICES ASSUME NEW i \in 1..(Len(gate) - 1), NEW j \in 1..(Len(gate) - 1), i # j
                 PROVE  gate'[i] # gate'[j]
      BY <2>7
    <3>1. at(i) \in 1..Len(gate) /\ at(j) \in 1..Len(gate) /\ at(i) # at(j)
      BY <2>3
    <3>2. gate[at(i)] # gate[at(j)]
      BY <1>1, <3>1
    <3> QED
      BY <2>4, <3>2
  <2>10. GateKept(t)
    <3> SUFFICES ASSUME NEW u \in Tasks \ {t}, HasGate(u) PROVE HasGate(u)'
      BY DEF GateKept
    <3>1. gate[1] = u /\ 1 \in 1..Len(gate)
      BY <1>1 DEF HasGate
    <3>2. place # 1
      BY <2>1, <3>1
    <3>3. 1 \in 1..Len(gate') /\ at(1) = 1
      BY <2>1, <2>7, <3>2 DEF at
    <3>4. gate'[1] = u /\ gate' # <<>>
      BY <2>4, <2>7, <3>1, <3>3
    <3> QED
      BY <2>7, <3>4 DEF HasGate
  <2> QED
    BY <2>7, <2>8, <2>9, <2>10 DEF Queue
<1> QED
  BY <1>2, <1>3

-----------------------------------------------------------------------------
(* The steps of a task                                                     *)

\* t goes on to x, at most with a new slot object, and touches no engine.
LEMMA GoesOn ==
  ASSUME Inv, NEW t \in Tasks, NEW x \in Points, NEW v \in Slots \cup {NoSlot},
         UNCHANGED <<state, refs, active, gate>>,
         pc' = [pc EXCEPT ![t] = x], slot' = [slot EXCEPT ![t] = v],
         pc[t] = "new" \/ v = slot[t],
         x = "done" \/ v \in Slots,
         pc[t] # "leased", x \notin {"leased", "loading", "new", "gate"},
         pc[t] \in Holding \cup {"gate"} <=> x \in Holding,
         pc[t] \notin {"gate", "loading"},
         Types'
  PROVE  Inv' /\ Wakes(t)
<1>1. /\ pc'[t] = x /\ slot'[t] = v /\ TaskOK(t)
      /\ pc \in [Tasks -> Points] /\ slot \in [Tasks -> Slots \cup {NoSlot}]
  BY DEF Inv, Types
<1>2. Wakes(t)
  BY <1>1 DEF Wakes
<1>3. Settles(t)
  BY DEF Settles, InUse
<1>4. Queue' /\ GateKept(t)
  BY <1>1, <1>2, QueueKept
<1>5. TaskOK(t)'
  BY <1>1 DEF TaskOK, Holding, HasGate
<1> QED
  BY <1>1, <1>2, <1>3, <1>4, <1>5, Quiet

\* A new object of a model is one of the model's slots.
LEMMA FreshSlot ==
  ASSUME Inv, NEW t \in Tasks, NEW m \in Models, Fresh(t, m)
  PROVE  /\ <<m, made[m] + 1>> \in Slots
         /\ slot' = [slot EXCEPT ![t] = <<m, made[m] + 1>>]
         /\ made' \in [Models -> 1..MaxObjects]
         /\ pinned' \in [Slots -> BOOLEAN]
<1>1. made[m] \in 1..MaxObjects /\ made[m] < MaxObjects /\ MaxObjects \in Nat
  BY PoolAssumption DEF Inv, Types, Fresh
<1>2. made[m] + 1 \in 1..MaxObjects
  BY <1>1
<1> QED
  BY <1>2 DEF Fresh, Slots, Inv, Types

\* A victim is a lazy model, or none.
LEMMA ChooseType ==
  ASSUME Inv, NEW m
  PROVE  Choose(m) \in (Models \ Preload) \cup {NoModel}
<1>1. ASSUME NEW s \in InMap, ModelOf(s) \notin Preload PROVE ModelOf(s) \in Models
  BY <1>1 DEF Inv, Types, InMap, Slots, ModelOf
<1> QED
  BY <1>1 DEF Choose

\* A call that arrives takes the object the map holds.
LEMMA TypesStart ==
  ASSUME Types, NEW t \in Tasks, NEW m \in Models, NEW x \in Points,
         pc' = [pc EXCEPT ![t] = x], slot' = [slot EXCEPT ![t] = map[m]],
         UNCHANGED <<catalog, engines, pinned, active, gate, old, victim, sweep>>
  PROVE  Types'
<1>1. pc' \in [Tasks -> Points]
  BY DEF Types
<1>2. slot' \in [Tasks -> Slots \cup {NoSlot}]
  BY DEF Types
<1> QED
  BY <1>1, <1>2 DEF Types, catalog, engines

\* And goes on with it to a point where it holds nothing yet.
LEMMA ArrivesAt ==
  ASSUME Inv, Types', NEW t \in Tasks, NEW x \in {"done", "look", "setpin", "insert", "enroll"},
         NEW v \in Slots \cup {NoSlot}, x = "done" \/ v \in Slots, pc[t] = "new",
         pc' = [pc EXCEPT ![t] = x], slot' = [slot EXCEPT ![t] = v],
         UNCHANGED <<state, refs, active, gate>>
  PROVE  Inv' /\ Wakes(t)
<1>1. x \in Points /\ x \notin {"leased", "loading", "new", "gate"} /\ x \notin Holding
  BY DEF Points, Holding
<1>2. pc[t] \notin Holding \cup {"gate"} /\ pc[t] \notin {"leased", "gate", "loading"}
  BY DEF Holding
<1> QED
  BY <1>1, <1>2, GoesOn

\* Calls that arrive.
LEMMA ArriveOK ==
  ASSUME Inv, NEW t \in Tasks, Arrive(t)
  PROVE  Inv' /\ Wakes(t)
<1>0. Types /\ pc[t] \in Points /\ slot[t] \in Slots \cup {NoSlot}
  BY DEF Inv, Types
<1>1. ASSUME NEW m \in Models, Resolve(t, m) PROVE Inv' /\ Wakes(t)
  <2> DEFINE x == IF map[m] = NoSlot THEN "done" ELSE "look"
  <2>2. map[m] \in Slots \cup {NoSlot} /\ (x = "done" \/ map[m] \in Slots)
    BY <1>0 DEF Types
  <2>3. x \in {"done", "look"} /\ pc[t] = "new"
    BY <1>1 DEF Resolve, Start
  <2>4. pc' = [pc EXCEPT ![t] = x] /\ slot' = [slot EXCEPT ![t] = map[m]]
        /\ UNCHANGED <<catalog, engines, pinned, active, gate, old, victim, sweep>>
    BY <1>1, Zenon DEF Resolve, Start
  <2> HIDE DEF x
  <2>1. Types'
    BY <1>0, <2>3, <2>4, TypesStart DEF Points
  <2>5. UNCHANGED <<state, refs, active, gate>>
    BY <2>4 DEF engines
  <2> QED
    BY <2>1, <2>2, <2>3, <2>4, <2>5, ArrivesAt
<1>2. ASSUME NEW m \in Models, ReloadRemove(t, m) PROVE Inv' /\ Wakes(t)
  <2>1. Types'
    BY <1>0, <1>2, FreshSlot DEF Types, ReloadRemove, engines, Points
  <2>2. <<m, made[m] + 1>> \in Slots /\ slot' = [slot EXCEPT ![t] = <<m, made[m] + 1>>]
    BY <1>2, FreshSlot DEF ReloadRemove
  <2>3. pc[t] = "new" /\ pc' = [pc EXCEPT ![t] = "insert"]
        /\ UNCHANGED <<state, refs, active, gate>>
    BY <1>2 DEF ReloadRemove, engines
  <2> QED
    BY <2>1, <2>2, <2>3, ArrivesAt
<1>3. ASSUME NEW m \in Models, PinCheck(t, m) PROVE Inv' /\ Wakes(t)
  <2> DEFINE x == IF map[m] # NoSlot /\ state[map[m]] = "Loaded" THEN "setpin" ELSE "done"
  <2>2. map[m] \in Slots \cup {NoSlot} /\ (x = "done" \/ map[m] \in Slots)
    BY <1>0 DEF Types
  <2>3. x \in {"done", "setpin"} /\ pc[t] = "new"
    BY <1>3 DEF PinCheck, Start
  <2>4. pc' = [pc EXCEPT ![t] = x] /\ slot' = [slot EXCEPT ![t] = map[m]]
        /\ UNCHANGED <<catalog, engines, pinned, active, gate, old, victim, sweep>>
    BY <1>3, Zenon DEF PinCheck, Start
  <2> HIDE DEF x
  <2>1. Types'
    BY <1>0, <2>3, <2>4, TypesStart DEF Points
  <2>5. UNCHANGED <<state, refs, active, gate>>
    BY <2>4 DEF engines
  <2> QED
    BY <2>1, <2>2, <2>3, <2>4, <2>5, ArrivesAt
<1>4. ASSUME NEW m \in Models, RegisterKeep(t, m) PROVE Inv' /\ Wakes(t)
  <2>1. Types'
    BY <1>0, <1>4, TypesStart DEF RegisterKeep, Start, Points
  <2>2. map[m] \in Slots
    BY <1>0, <1>4 DEF Types, RegisterKeep
  <2>3. pc' = [pc EXCEPT ![t] = "setpin"] /\ slot' = [slot EXCEPT ![t] = map[m]]
        /\ UNCHANGED <<state, refs, active, gate>> /\ pc[t] = "new"
    BY <1>4 DEF RegisterKeep, Start, engines
  <2> QED
    BY <2>1, <2>2, <2>3, ArrivesAt
<1>5. ASSUME NEW m \in Models, RegisterNew(t, m) PROVE Inv' /\ Wakes(t)
  <2>1. Types'
    BY <1>0, <1>5, FreshSlot DEF Types, RegisterNew, engines, Points
  <2>2. <<m, made[m] + 1>> \in Slots /\ slot' = [slot EXCEPT ![t] = <<m, made[m] + 1>>]
    BY <1>5, FreshSlot DEF RegisterNew
  <2>3. pc[t] = "new" /\ pc' = [pc EXCEPT ![t] = "enroll"]
        /\ UNCHANGED <<state, refs, active, gate>>
    BY <1>5 DEF RegisterNew, engines
  <2> QED
    BY <2>1, <2>2, <2>3, ArrivesAt
<1> QED
  BY <1>1, <1>2, <1>3, <1>4, <1>5 DEF Arrive

\* Steps that touch no engine.
LEMMA PlainOK ==
  ASSUME Inv, NEW t \in Tasks,
         \/ ReloadInsert(t) \/ RegisterInsert(t) \/ SetPinned(t)
         \/ LookLoading(t) \/ LookRefused(t)
         \/ Reserve(t) \/ ReserveRefused(t) \/ TryEvictLruIdle(t)
         \/ StreamEnds(t) \/ ReloadUndo(t) \/ ReloadRestore(t)
  PROVE  Inv' /\ Wakes(t)
<1>0. /\ Types /\ TaskOK(t) /\ pc[t] \in Points /\ slot[t] \in Slots \cup {NoSlot}
      /\ slot = [slot EXCEPT ![t] = slot[t]]
  BY DEF Inv, Types
<1>1. ASSUME NEW x \in Points, pc' = [pc EXCEPT ![t] = x], Types',
             UNCHANGED <<state, refs, active, gate, slot>>,
             pc[t] \notin {"new", "done", "leased", "gate", "loading"},
             x \notin {"leased", "loading", "new", "gate"},
             pc[t] \in Holding <=> x \in Holding
      PROVE  Inv' /\ Wakes(t)
  <2>1. slot[t] \in Slots
    BY <1>0, <1>1 DEF TaskOK
  <2> QED
    BY <1>0, <1>1, <2>1, GoesOn
<1>2. AfterError(t) \in {"undo", "done"}
  BY DEF AfterError
<1>3. CASE ReloadInsert(t) \/ RegisterInsert(t) \/ ReloadUndo(t) \/ ReloadRestore(t)
  <2>1. ModelOf(slot[t]) \in Models /\ slot[t] \in Slots
    BY <1>0, <1>3 DEF TaskOK, ReloadInsert, RegisterInsert, ReloadUndo, ReloadRestore,
                      Slots, ModelOf
  <2>3. CASE ReloadInsert(t)
    <3>1. Types'
      BY <1>0, <2>1, <2>3 DEF Types, ReloadInsert, engines, locals, Points
    <3> QED
      BY <1>1, <2>3, <3>1 DEF ReloadInsert, engines, locals, Points, Holding
  <2>4. CASE RegisterInsert(t)
    <3>1. Types'
      BY <1>0, <2>1, <2>4 DEF Types, RegisterInsert, engines, locals, Points
    <3> QED
      BY <1>1, <2>4, <3>1 DEF RegisterInsert, engines, locals, Points, Holding
  <2>5. CASE ReloadUndo(t)
    <3>1. Types'
      BY <1>0, <2>1, <2>5 DEF Types, ReloadUndo, engines, locals, Points
    <3> QED
      BY <1>1, <2>5, <3>1 DEF ReloadUndo, engines, locals, Points, Holding
  <2>6. CASE ReloadRestore(t)
    <3>1. Types'
      BY <1>0, <2>1, <2>6 DEF Types, ReloadRestore, engines, locals, Points
    <3> QED
      BY <1>1, <2>6, <3>1 DEF ReloadRestore, engines, locals, Points, Holding
  <2> QED
    BY <1>3, <2>3, <2>4, <2>5, <2>6
<1>4. CASE SetPinned(t)
  <2>1. Types'
    <3>1. PICK p \in BOOLEAN : pinned' = [pinned EXCEPT ![slot[t]] = p]
      BY <1>4, Zenon DEF SetPinned
    <3>2. pinned' \in [Slots -> BOOLEAN]
      BY <1>0, <3>1 DEF Types
    <3>3. pc' \in [Tasks -> Points]
      BY <1>0, <1>4 DEF Types, SetPinned, Points
    <3> QED
      BY <1>0, <1>4, <3>2, <3>3 DEF Types, SetPinned, catalog, engines, locals
  <2> QED
    BY <1>1, <1>4, <2>1 DEF SetPinned, engines, locals, Points, Holding
<1>5. CASE LookLoading(t)
  <2>1. Types'
    BY <1>0, <1>5 DEF Types, LookLoading, catalog, engines, locals, Points
  <2> QED
    BY <1>1, <1>5, <2>1 DEF LookLoading, engines, locals, Points, Holding
<1>6. CASE LookRefused(t)
  <2>1. Types'
    BY <1>0, <1>2, <1>6 DEF Types, LookRefused, catalog, engines, locals, Points
  <2> QED
    BY <1>1, <1>2, <1>6, <2>1 DEF LookRefused, engines, locals, Points, Holding
<1>7. CASE Reserve(t)
  <2>1. Types'
    BY <1>0, <1>7 DEF Types, Reserve, catalog, engines, locals, Points
  <2> QED
    BY <1>1, <1>7, <2>1 DEF Reserve, engines, locals, Points, Holding
<1>8. CASE ReserveRefused(t) \/ TryEvictLruIdle(t)
  <2>1. Choose(ModelOf(slot[t])) \in Models \cup {NoModel}
    BY ChooseType
  <2>2. victim' = [victim EXCEPT ![t] = Choose(ModelOf(slot[t]))]
        /\ UNCHANGED <<catalog, engines, pinned, active, gate, locals, sweep>>
    BY <1>8 DEF ReserveRefused, TryEvictLruIdle
  <2>3. victim' \in [Tasks \cup {Monitor} -> Models \cup {NoModel}]
    BY <1>0, <2>1, <2>2 DEF Types
  <2>4. PICK x \in {"reclaim", "evict"} :
          pc' = [pc EXCEPT ![t] = x] /\ pc[t] \in {"reserve", "capacity"}
    BY <1>8 DEF ReserveRefused, TryEvictLruIdle
  <2>5. Types'
    BY <1>0, <2>2, <2>3, <2>4 DEF Types, catalog, engines, locals, Points
  <2> QED
    BY <1>1, <2>2, <2>4, <2>5 DEF engines, locals, Points, Holding
<1>9. CASE StreamEnds(t)
  <2>1. slot[t] \in Slots
    BY <1>0, <1>9 DEF TaskOK, StreamEnds
  <2>2. Types'
    BY <1>0, <1>9, <2>1 DEF Types, StreamEnds, catalog, locals, Points
  <2> QED
    BY <1>1, <1>9, <2>2 DEF StreamEnds, locals, Points, Holding
<1> QED
  BY <1>3, <1>4, <1>5, <1>6, <1>7, <1>8, <1>9

-----------------------------------------------------------------------------
(* Engines given up                                                        *)

\* A slot out of use, without an active request or without an Arc has no lease.
LEMMA NoLeases ==
  ASSUME Inv, NEW s \in Slots, ~InUse(s) \/ active[s] = 0 \/ refs[s] = {}
  PROVE  Leases(s) = {}
<1>1. CASE ~InUse(s) \/ refs[s] = {}
  BY <1>1 DEF Inv, TaskOK, Leases, Tasks
<1>2. CASE active[s] = 0
  <2>1. IsFiniteSet(Leases(s)) /\ Cardinality(Leases(s)) = 0
    BY <1>2, FS_Subset, PoolAssumption DEF Inv, Counted, Leases
  <2> QED
    BY <2>1, FS_EmptySet
<1> QED
  BY <1>1, <1>2

\* A slot that no request has leased may give up its engine.
LEMMA GiveSound ==
  ASSUME Inv, NEW t, NEW s \in Slots, NEW st \in {"Unloaded", "Draining"}, Give(s, st),
         IF st = "Draining" THEN InUse(s) ELSE Leases(s) = {} /\ state[s] # "Loading"
  PROVE  /\ Settles(t)
         /\ state' \in [Slots -> States] /\ refs' \in [Slots -> SUBSET Tasks]
         /\ streams' \in [Slots -> SUBSET Requests]
<1>1. /\ state \in [Slots -> States] /\ refs \in [Slots -> SUBSET Tasks]
      /\ streams \in [Slots -> SUBSET Requests]
  BY DEF Inv, Types
<1>2. /\ state' \in [Slots -> States] /\ refs' \in [Slots -> SUBSET Tasks]
      /\ streams' \in [Slots -> SUBSET Requests]
  BY <1>1 DEF Give, States
<1>3. /\ state'[s] = st
      /\ \A r \in Slots \ {s} : state'[r] = state[r] /\ refs'[r] = refs[r]
      /\ st = "Draining" => refs' = refs
  BY <1>1 DEF Give
<1>4. Settles(t)
  BY <1>3 DEF Settles, InUse
<1> QED
  BY <1>2, <1>4

\* A step that leaves engines and leases alone settles every slot.
LEMMA KeptSettles ==
  ASSUME NEW t, UNCHANGED <<state, refs>>
  PROVE  Settles(t)
BY DEF Settles, InUse

\* evict_lru_idle_engine's second look
LEMMA EvictSound ==
  ASSUME Inv, NEW t, NEW e \in Tasks \cup {Monitor}, Evict(e)
  PROVE  /\ Settles(t)
         /\ state' \in [Slots -> States] /\ refs' \in [Slots -> SUBSET Tasks]
         /\ streams' \in [Slots -> SUBSET Requests]
<1>1. CASE CanEvict(e)
  <2> DEFINE s == map[victim[e]]
  <2>1. s \in Slots
    BY <1>1 DEF CanEvict, Inv, Types
  <2>2. Leases(s) = {} /\ state[s] # "Loading"
    BY <1>1, <2>1, NoLeases DEF CanEvict, Idle
  <2>3. Give(s, "Unloaded")
    BY <1>1 DEF Evict
  <2> QED
    BY <2>1, <2>2, <2>3, GiveSound
<1>2. CASE ~CanEvict(e)
  BY <1>2, KeptSettles DEF Evict, Inv, Types
<1> QED
  BY <1>1, <1>2

\* LookAbsent and GateAbsent meet a slot whose drain is over.
LEMMA DrainedSound ==
  ASSUME Inv, NEW t, NEW s \in Slots, Drained(s),
         state[s] = "Draining" => active[s] = 0
  PROVE  /\ Settles(t)
         /\ state' \in [Slots -> States] /\ refs' \in [Slots -> SUBSET Tasks]
         /\ streams' \in [Slots -> SUBSET Requests]
         /\ state'[s] = IF state[s] = "Draining" THEN "Unloaded" ELSE state[s]
<1>1. CASE state[s] = "Draining"
  <2>1. Give(s, "Unloaded") /\ Leases(s) = {}
    BY <1>1, NoLeases DEF Drained
  <2>2. state'[s] = "Unloaded"
    BY <2>1 DEF Give, Inv, Types
  <2> QED
    BY <1>1, <2>1, <2>2, GiveSound
<1>2. CASE state[s] # "Draining"
  BY <1>2, KeptSettles DEF Drained, Inv, Types
<1> QED
  BY <1>1, <1>2

\* notify_waiters after t's own move
LEMMA WokenSound ==
  ASSUME Inv, NEW t \in Tasks, NEW s, NEW x \in Points, x # "waiting",
         slot' = slot, pc' = Woken(s, [pc EXCEPT ![t] = x])
  PROVE  Wakes(t) /\ pc'[t] = x /\ pc' \in [Tasks -> Points]
BY DEF Inv, Types, Woken, Wakes, Points

\* notify_waiters by somebody who is no task
LEMMA WokenAside ==
  ASSUME Inv, NEW s, slot' = slot, pc' = Woken(s, pc) \/ pc' = pc
  PROVE  Wakes(Monitor) /\ pc' \in [Tasks -> Points]
BY DEF Inv, Types, Woken, Wakes, Points

-----------------------------------------------------------------------------
(* With the gate                                                           *)

\* The holder of the gate stays inside.
LEMMA InsideOK ==
  ASSUME Inv, NEW t \in Tasks, pc[t] \in Holding \ {"loading"},
         NEW x \in Holding \ {"loading"},
         pc' = [pc EXCEPT ![t] = x], UNCHANGED <<slot, gate, active>>, Settles(t), Types',
         state'[slot[t]] = state[slot[t]]
  PROVE  Inv' /\ Wakes(t)
<1>1. pc \in [Tasks -> Points] /\ TaskOK(t)
  BY DEF Inv, Types
<1>2. pc'[t] = x /\ Wakes(t)
  BY <1>1 DEF Wakes
<1>3. Queue' /\ GateKept(t)
  BY <1>2, QueueKept
<1>4. TaskOK(t)'
  BY <1>1, <1>2 DEF TaskOK, Holding, HasGate
<1>5. pc[t] # "leased" /\ pc'[t] # "leased"
  BY <1>2 DEF Holding
<1> QED
  BY <1>2, <1>3, <1>4, <1>5, Quiet

\* An idle engine is evicted for t's load; t's own slot has none.
LEMMA EvictOK ==
  ASSUME Inv, NEW t \in Tasks, Reclaim(t) \/ EvictForRoom(t)
  PROVE  Inv' /\ Wakes(t)
<1>1. /\ Evict(t) /\ victim' = [victim EXCEPT ![t] = NoModel]
      /\ UNCHANGED <<catalog, drainers, pinned, active, gate, locals, sweep>>
  BY DEF Reclaim, EvictForRoom
<1>2. PICK x \in {"retry", "begin"} :
        pc' = [pc EXCEPT ![t] = x] /\ pc[t] \in {"reclaim", "evict"}
  BY DEF Reclaim, EvictForRoom
<1>3. Types /\ TaskOK(t)
  BY DEF Inv
<1>4. /\ Settles(t)
      /\ state' \in [Slots -> States] /\ refs' \in [Slots -> SUBSET Tasks]
      /\ streams' \in [Slots -> SUBSET Requests]
  BY <1>1, EvictSound
<1>5. victim' \in [Tasks \cup {Monitor} -> Models \cup {NoModel}]
  BY <1>1, <1>3 DEF Types
<1>6. Types'
  BY <1>1, <1>2, <1>3, <1>4, <1>5 DEF Types, catalog, locals, Points
<1>7. state'[slot[t]] = state[slot[t]]
  <2>1. slot[t] \in Slots /\ state[slot[t]] # "Loaded"
    BY <1>2, <1>3 DEF TaskOK, Holding
  <2>2. CASE CanEvict(t)
    BY <1>1, <1>3, <2>1, <2>2 DEF Evict, CanEvict, Idle, Give, Types
  <2>3. CASE ~CanEvict(t)
    BY <1>1, <2>3 DEF Evict
  <2> QED
    BY <2>2, <2>3
<1> QED
  BY <1>1, <1>2, <1>4, <1>6, <1>7, InsideOK DEF locals, Holding

\* ensure_capacity_for fails, or the load does: the slot is out of use.
LEMMA FailOK ==
  ASSUME Inv, NEW t \in Tasks, pc[t] \in Holding,
         NEW st \in {"Unloaded", "Failed"},
         state' = [state EXCEPT ![slot[t]] = st], gate' = Tail(gate),
         pc' = Woken(slot[t], [pc EXCEPT ![t] = AfterError(t)]),
         UNCHANGED <<catalog, refs, streams, recency, drainers, pinned, active, locals, sweep>>,
         victim' \in [Tasks \cup {Monitor} -> Models \cup {NoModel}]
  PROVE  Inv' /\ Wakes(t)
<1>1. Types /\ TaskOK(t) /\ slot[t] \in Slots /\ HasGate(t)
  BY DEF Inv, TaskOK, Holding
<1>2. PICK x \in {"undo", "done"} : x = AfterError(t)
  BY DEF AfterError
<1>3. slot' = slot
  BY DEF locals
<1>4. Wakes(t) /\ pc'[t] = x /\ pc' \in [Tasks -> Points]
  BY <1>2, <1>3, WokenSound DEF Points
<1>5. Queue' /\ GateKept(t) /\ gate' \in Seq(Tasks)
  BY <1>1, <1>4, QueueTail
<1>6. Settles(t)
  BY <1>1 DEF Settles, Types, InUse
<1>7. Types'
  BY <1>1, <1>4, <1>5 DEF Types, catalog, locals, States
<1>8. TaskOK(t)'
  BY <1>1, <1>2, <1>3, <1>4 DEF TaskOK, Holding
<1>9. pc[t] # "leased" /\ pc'[t] # "leased"
  BY <1>2, <1>4 DEF Holding
<1> QED
  BY <1>4, <1>5, <1>6, <1>7, <1>8, <1>9, Quiet

\* Loads given up, with the waiters woken.
LEMMA RejectedOK ==
  ASSUME Inv, NEW t \in Tasks,
         RetryRefused(t) \/ CapacityReject(t) \/ NoRoom(t) \/ LoadFailed(t)
  PROVE  Inv' /\ Wakes(t)
<1>1. pc[t] \in Holding
  BY DEF RetryRefused, CapacityReject, NoRoom, LoadFailed, Holding
<1>2. victim' \in [Tasks \cup {Monitor} -> Models \cup {NoModel}]
  <2>1. victim' = victim \/ victim' = [victim EXCEPT ![t] = NoModel]
    BY DEF RetryRefused, CapacityReject, NoRoom, LoadFailed
  <2> QED
    BY <2>1 DEF Inv, Types
<1>3. \E st \in {"Unloaded", "Failed"} :
        /\ state' = [state EXCEPT ![slot[t]] = st] /\ gate' = Tail(gate)
        /\ pc' = Woken(slot[t], [pc EXCEPT ![t] = AfterError(t)])
        /\ UNCHANGED <<catalog, refs, streams, recency, drainers, pinned, active, locals, sweep>>
  BY DEF RetryRefused, CapacityReject, NoRoom, LoadFailed, CapacityRejected
<1> QED
  BY <1>1, <1>2, <1>3, FailOK

\* state := Loading
LEMMA BeginOK ==
  ASSUME Inv, NEW t \in Tasks, CapacityContinue(t) \/ Begin(t)
  PROVE  Inv' /\ Wakes(t)
<1>1. /\ BeginLoad(t) /\ pc[t] \in {"capacity", "begin"}
      /\ UNCHANGED <<catalog, refs, streams, recency, drainers, pinned, active, locals,
                     victim, sweep>>
  BY DEF CapacityContinue, Begin
<1>2. Types /\ TaskOK(t) /\ slot[t] \in Slots /\ HasGate(t) /\ slot' = slot
  BY <1>1 DEF Inv, TaskOK, Holding, locals
<1>3. Wakes(t) /\ pc'[t] = "loading" /\ pc' \in [Tasks -> Points]
  BY <1>1, <1>2, WokenSound DEF BeginLoad, Points
<1>4. Queue' /\ GateKept(t)
  BY <1>1, <1>3, QueueKept DEF BeginLoad, Holding
<1>5. Settles(t)
  BY <1>1, <1>2 DEF BeginLoad, Settles, Types, InUse, Holding
<1>6. Types'
  <2>1. state' \in [Slots -> States] /\ gate' \in Seq(Tasks)
    BY <1>1, <1>2 DEF BeginLoad, Types, States
  <2>2. UNCHANGED <<map, made, pinned, active, refs, streams, drainers, slot, old, sweep, victim>>
    BY <1>1 DEF catalog, locals
  <2> QED
    BY <1>2, <1>3, <2>1, <2>2 DEF Types
<1>7. TaskOK(t)'
  BY <1>1, <1>2, <1>3 DEF BeginLoad, TaskOK, Holding, HasGate, Types
<1>8. pc[t] # "leased" /\ pc'[t] # "leased" /\ UNCHANGED active
  BY <1>1, <1>3
<1> QED
  BY <1>3, <1>4, <1>5, <1>6, <1>7, <1>8, Quiet

\* The engine is there, and its loader has the first lease.
LEMMA LoadDoneOK ==
  ASSUME Inv, NEW t \in Tasks, LoadDone(t)
  PROVE  Inv' /\ Wakes(t)
<1>1. Types /\ TaskOK(t) /\ slot[t] \in Slots /\ HasGate(t) /\ slot' = slot
      /\ pc[t] = "loading"
  <2>1. pc[t] = "loading" /\ slot' = slot
    BY DEF LoadDone, locals
  <2>2. Types /\ TaskOK(t)
    BY DEF Inv
  <2> QED
    BY <2>1, <2>2 DEF TaskOK, Holding
<1>2. Wakes(t) /\ pc'[t] = "leased" /\ pc' \in [Tasks -> Points]
  BY <1>1, WokenSound DEF LoadDone, Points
<1>3. Queue' /\ GateKept(t) /\ gate' \in Seq(Tasks)
  BY <1>1, <1>2, QueueTail DEF LoadDone
<1>4. Settles(t)
  BY <1>1 DEF LoadDone, Settles, Types, InUse, Holding
<1>5. Counted'
  BY <1>1, <1>2, LeaseCounted DEF LoadDone
<1>6. active' \in [Slots -> Nat]
  BY <1>1 DEF LoadDone, Types
<1>7. /\ state' \in [Slots -> States] /\ refs' \in [Slots -> SUBSET Tasks]
      /\ state'[slot[t]] = "Loaded" /\ refs'[slot[t]] = {t}
  BY <1>1 DEF LoadDone, Types, States
<1>8. Types'
  BY <1>1, <1>2, <1>3, <1>6, <1>7 DEF LoadDone, Touch, Types, catalog, locals
<1>9. TaskOK(t)'
  BY <1>1, <1>2, <1>7 DEF TaskOK, Holding, InUse
<1> QED
  BY <1>2, <1>3, <1>4, <1>5, <1>8, <1>9, OthersOK DEF Inv

-----------------------------------------------------------------------------
(* Leases and looks                                                        *)

\* A loaded engine is lent at the first look, or at the second.
LEMMA LendOK ==
  ASSUME Inv, NEW t \in Tasks, LookLoaded(t) \/ GateLoaded(t)
  PROVE  Inv' /\ Wakes(t)
<1>1. /\ Types /\ TaskOK(t) /\ slot[t] \in Slots /\ slot' = slot
      /\ pc[t] \in {"look", "gate"} /\ state[slot[t]] = "Loaded" /\ Lend(t, slot[t])
      /\ pc' = [pc EXCEPT ![t] = "leased"]
      /\ UNCHANGED <<catalog, state, streams, drainers, pinned, locals, victim>>
  BY DEF Inv, TaskOK, LookLoaded, GateLoaded, locals
<1>2. Wakes(t) /\ pc'[t] = "leased" /\ pc' \in [Tasks -> Points]
  BY <1>1 DEF Wakes, Types, Points
<1>3. Queue' /\ GateKept(t) /\ gate' \in Seq(Tasks)
  <2>1. CASE LookLoaded(t)
    BY <1>1, <1>2, <2>1, QueueKept DEF LookLoaded, Types, Holding
  <2>2. CASE GateLoaded(t)
    BY <1>2, <2>2, QueueTail DEF GateLoaded
  <2> QED
    BY <2>1, <2>2
<1>4. /\ refs' = [refs EXCEPT ![slot[t]] = @ \cup {t}]
      /\ active' = [active EXCEPT ![slot[t]] = @ + (IF t \in Requests THEN 1 ELSE 0)]
      /\ sweep' \in Slots \cup {NoSlot}
  BY <1>1 DEF Lend, Touch, Types
<1>5. Settles(t)
  BY <1>1, <1>4 DEF Settles, Types, InUse
<1>6. Counted'
  BY <1>1, <1>2, <1>4, LeaseCounted
<1>7. /\ active' \in [Slots -> Nat] /\ refs' \in [Slots -> SUBSET Tasks]
      /\ t \in refs'[slot[t]]
  BY <1>1, <1>4 DEF Types
<1>8. Types'
  BY <1>1, <1>2, <1>3, <1>4, <1>7 DEF Types, catalog, locals
<1>9. TaskOK(t)'
  BY <1>1, <1>2, <1>7 DEF TaskOK, Holding, InUse
<1> QED
  BY <1>2, <1>3, <1>5, <1>6, <1>8, <1>9, OthersOK DEF Inv

\* EngineLease::drop
LEMMA DropOK ==
  ASSUME Inv, NEW t \in Tasks, Release(t) \/ Respond(t)
  PROVE  Inv' /\ Wakes(t)
<1>1. /\ Types /\ TaskOK(t) /\ slot[t] \in Slots /\ slot' = slot /\ pc[t] = "leased"
      /\ refs' = [refs EXCEPT ![slot[t]] = @ \ {t}]
      /\ active' = [active EXCEPT ![slot[t]] = @ - (IF t \in Requests THEN 1 ELSE 0)]
      /\ UNCHANGED <<catalog, state, recency, drainers, pinned, gate, locals, victim, sweep>>
  BY DEF Inv, TaskOK, Release, Respond, DropLease, locals
<1>2. PICK x \in {"done", "streaming"} : pc' = [pc EXCEPT ![t] = x]
  BY DEF Release, Respond
<1>3. Wakes(t) /\ pc'[t] = x /\ pc' \in [Tasks -> Points]
  BY <1>1, <1>2 DEF Wakes, Types, Points
<1>4. Queue' /\ GateKept(t)
  BY <1>1, <1>3, QueueKept DEF Holding
<1>5. Settles(t)
  BY <1>1 DEF Settles, Types, InUse
<1>6. Counted' /\ active' \in [Slots -> Nat]
  BY <1>1, <1>3, DropCounted
<1>7. streams' \in [Slots -> SUBSET Requests]
  <2>1. CASE Release(t)
    BY <1>1, <2>1 DEF Types, Release
  <2>2. CASE Respond(t)
    <3>1. t \in Requests
          /\ streams' = [streams EXCEPT ![slot[t]] =
                           IF t \in refs[slot[t]] THEN @ \cup {t} ELSE @]
      BY <2>2 DEF Respond
    <3> QED
      BY <1>1, <3>1 DEF Types
  <2> QED
    BY <2>1, <2>2
<1>8. refs' \in [Slots -> SUBSET Tasks]
  BY <1>1 DEF Types
<1>9. Types'
  BY <1>1, <1>3, <1>6, <1>7, <1>8 DEF Types, catalog, locals
<1>10. TaskOK(t)'
  BY <1>1, <1>3 DEF TaskOK, Holding
<1> QED
  BY <1>3, <1>4, <1>5, <1>6, <1>9, <1>10, OthersOK DEF Inv

\* The first look finds no engine: t queues for the load gate.
LEMMA LookAbsentOK ==
  ASSUME Inv, NEW t \in Tasks, LookAbsent(t)
  PROVE  Inv' /\ Wakes(t)
<1>1. /\ Types /\ TaskOK(t) /\ slot[t] \in Slots /\ slot' = slot /\ pc[t] = "look"
      /\ active[slot[t]] \in Nat
      /\ state[slot[t]] = "Draining" => ~(active[slot[t]] > 0)
      /\ Drained(slot[t]) /\ gate' = Append(gate, t)
      /\ pc' = [pc EXCEPT ![t] = "gate"]
      /\ UNCHANGED <<catalog, drainers, pinned, active, locals, victim, sweep>>
  BY DEF Inv, Types, TaskOK, LookAbsent, Refuses, locals, Holding
<1>2. Wakes(t) /\ pc'[t] = "gate" /\ pc' \in [Tasks -> Points]
  BY <1>1 DEF Wakes, Types, Points
<1>3. Queue' /\ GateKept(t) /\ gate' \in Seq(Tasks)
  <2>1. pc[t] \notin Holding \cup {"gate"} /\ gate' = Append(gate, t)
    BY <1>1 DEF Holding
  <2> QED
    BY <1>2, <2>1, QueueAppend
<1>4. /\ Settles(t)
      /\ state' \in [Slots -> States] /\ refs' \in [Slots -> SUBSET Tasks]
      /\ streams' \in [Slots -> SUBSET Requests]
  <2>1. PICK s \in Slots : s = slot[t]
    BY <1>1
  <2>2. Drained(s) /\ (state[s] = "Draining" => active[s] = 0)
    BY <1>1, <2>1
  <2> QED
    BY <2>2, DrainedSound
<1>5. Types'
  <2>1. UNCHANGED <<map, made, pinned, active, slot, old, sweep, victim, drainers>>
    BY <1>1 DEF catalog, locals
  <2> QED
    BY <1>1, <1>2, <1>3, <1>4, <2>1 DEF Types
<1>6. TaskOK(t)'
  BY <1>1, <1>2 DEF TaskOK, Holding
<1> QED
  BY <1>1, <1>2, <1>3, <1>4, <1>5, <1>6, Quiet

\* The second look, with the gate held: leave it, or go in.
LEMMA GateOK ==
  ASSUME Inv, NEW t \in Tasks, GateLoading(t) \/ GateRefused(t) \/ GateAbsent(t)
  PROVE  Inv' /\ Wakes(t)
<1>1. Types /\ TaskOK(t) /\ slot[t] \in Slots /\ pc[t] = "gate" /\ HasGate(t)
  BY DEF Inv, TaskOK, GateLoading, GateRefused, GateAbsent
<1>2. CASE GateLoading(t) \/ GateRefused(t)
  <2>1. PICK x \in {"look", "undo", "done"} : pc' = [pc EXCEPT ![t] = x]
    BY <1>2 DEF GateLoading, GateRefused, AfterError
  <2>2. /\ UNCHANGED <<catalog, engines, pinned, active, locals, victim, sweep>>
        /\ gate' = Tail(gate)
    BY <1>2 DEF GateLoading, GateRefused
  <2>3. Wakes(t) /\ pc'[t] = x /\ pc' \in [Tasks -> Points] /\ slot' = slot
    BY <1>1, <2>1, <2>2 DEF Wakes, Types, Points, locals
  <2>4. Queue' /\ GateKept(t) /\ gate' \in Seq(Tasks)
    BY <1>1, <2>2, <2>3, QueueTail
  <2>5. Settles(t)
    BY <2>2, KeptSettles DEF engines
  <2>6. Types'
    BY <1>1, <2>2, <2>3, <2>4 DEF Types, catalog, engines, locals
  <2>7. TaskOK(t)'
    BY <1>1, <2>3 DEF TaskOK, Holding
  <2> QED
    BY <1>1, <2>2, <2>3, <2>4, <2>5, <2>6, <2>7, Quiet
<1>3. CASE GateAbsent(t)
  <2>1. /\ state[slot[t]] \in {"Unloaded", "Failed", "Draining"}
        /\ active[slot[t]] \in Nat /\ slot' = slot
        /\ state[slot[t]] = "Draining" => ~(active[slot[t]] > 0)
        /\ state[slot[t]] = "Failed" => t \notin Requests
        /\ Drained(slot[t]) /\ pc' = [pc EXCEPT ![t] = "reserve"]
        /\ UNCHANGED <<catalog, drainers, pinned, active, gate, locals, victim, sweep>>
    BY <1>1, <1>3 DEF Types, GateAbsent, Refuses, locals
  <2>2. Wakes(t) /\ pc'[t] = "reserve" /\ pc' \in [Tasks -> Points]
    BY <1>1, <2>1 DEF Wakes, Types, Points
  <2>3. Queue' /\ GateKept(t)
    BY <2>1, <2>2, QueueKept DEF Holding
  <2>4. /\ Settles(t)
        /\ state' \in [Slots -> States] /\ refs' \in [Slots -> SUBSET Tasks]
        /\ streams' \in [Slots -> SUBSET Requests]
        /\ state'[slot[t]] = IF state[slot[t]] = "Draining" THEN "Unloaded"
                             ELSE state[slot[t]]
    BY <1>1, <2>1, DrainedSound
  <2>5. Types'
    BY <1>1, <2>1, <2>2, <2>4 DEF Types, catalog, locals
  <2>6. TaskOK(t)'
    BY <1>1, <2>1, <2>2, <2>4 DEF TaskOK, Holding, HasGate
  <2> QED
    BY <1>1, <2>1, <2>2, <2>3, <2>4, <2>5, <2>6, Quiet
<1> QED
  BY <1>2, <1>3

\* A dropped call is over.
LEMMA CutIsOver == \A p : CutAt(p) \in Over
BY DEF CutAt, Over

\* The client of t is gone.
LEMMA HangUpOK ==
  ASSUME Inv, NEW t \in Tasks, HangUp(t)
  PROVE  Inv' /\ Wakes(t)
<1>1. /\ Types /\ TaskOK(t) /\ slot' = slot /\ pc[t] # "leased"
      /\ gate' = Without(gate, t) /\ pc' = [pc EXCEPT ![t] = CutAt(@)]
      /\ victim' = [victim EXCEPT ![t] = NoModel] /\ pc[t] # "new"
      /\ UNCHANGED <<catalog, engines, pinned, active, locals, sweep>>
  BY DEF Inv, HangUp, locals
<1>2. Wakes(t) /\ pc'[t] \in Over /\ pc' \in [Tasks -> Points]
  BY <1>1, CutIsOver DEF Wakes, Types, Points, Over
<1>7. pc'[t] # "done" => slot'[t] \in Slots
  <2>1. pc'[t] = CutAt(pc[t])
    BY <1>1 DEF Types
  <2>2. pc[t] = "done" => CutAt(pc[t]) = "done"
    BY DEF CutAt
  <2> QED
    BY <1>1, <2>1, <2>2 DEF TaskOK
<1>3. Queue' /\ GateKept(t) /\ gate' \in Seq(Tasks)
  BY <1>1, <1>2, QueueWithout
<1>4. Settles(t)
  BY <1>1, KeptSettles DEF engines
<1>5. Types'
  BY <1>1, <1>2, <1>3 DEF Types, catalog, engines, locals
<1>6. TaskOK(t)'
  BY <1>2, <1>7 DEF TaskOK, Holding, Over
<1> QED
  BY <1>1, <1>2, <1>3, <1>4, <1>5, <1>6, Quiet DEF Over

\* Whatever a task does.
LEMMA ProceedOK ==
  ASSUME Inv, NEW t \in Tasks, Proceed(t)
  PROVE  Inv' /\ Wakes(t)
BY PlainOK, EvictOK, RejectedOK, BeginOK, LoadDoneOK, LendOK, DropOK, LookAbsentOK, GateOK,
   Zenon DEF Proceed

-----------------------------------------------------------------------------
(* Steps of nobody's call                                                  *)

\* Unload, the drain poll, the sweep and the monitor.
LEMMA AsideOK ==
  ASSUME Inv, NEW m, NEW s,
         \/ m \in Models /\ Unload(m)
         \/ s \in Slots /\ (FinishDraining(s) \/ TtlCheck(s))
         \/ TtlUnload
         \/ MonitorChoose \/ MonitorEvict
  PROVE  Inv' /\ Wakes(Monitor)
<1>0. Types /\ Monitor \notin Tasks
  BY PoolAssumption DEF Inv
<1>1. ASSUME Settles(Monitor), pc' = pc \/ (\E r : pc' = Woken(r, pc)),
             UNCHANGED <<catalog, pinned, active, gate, locals>>,
             /\ state' \in [Slots -> States] /\ refs' \in [Slots -> SUBSET Tasks]
             /\ streams' \in [Slots -> SUBSET Requests],
             drainers' \subseteq Slots, sweep' \in Slots \cup {NoSlot},
             victim' \in [Tasks \cup {Monitor} -> Models \cup {NoModel}]
      PROVE  Inv' /\ Wakes(Monitor)
  <2>1. Wakes(Monitor) /\ pc' \in [Tasks -> Points] /\ slot' = slot
    BY <1>1, WokenAside DEF locals
  <2>2. Queue' /\ GateKept(Monitor)
    BY <1>0, <1>1, <2>1, QueueKept
  <2>3. Types'
    BY <1>0, <1>1, <2>1 DEF Types, catalog, locals
  <2> QED
    BY <1>0, <1>1, <2>1, <2>2, <2>3, Quiet
<1>2. ASSUME UNCHANGED <<state, refs, streams>>
      PROVE  /\ Settles(Monitor)
             /\ state' \in [Slots -> States] /\ refs' \in [Slots -> SUBSET Tasks]
             /\ streams' \in [Slots -> SUBSET Requests]
  BY <1>0, <1>2, KeptSettles DEF Types
<1>3. CASE m \in Models /\ Unload(m)
  <2>1. map[m] \in Slots /\ state[map[m]] # "Loading"
    BY <1>0, <1>3 DEF Types, Unload
  <2>2. CASE InUse(map[m]) /\ active[map[m]] > 0
    <3>1. Give(map[m], "Draining")
      BY <1>3, <2>2 DEF Unload
    <3> QED
      <4>1. PICK given \in Slots, st \in {"Unloaded", "Draining"} :
              /\ given = map[m] /\ st = "Draining" /\ Give(given, st) /\ InUse(given)
        BY <2>1, <2>2, <3>1
      <4>2. /\ Settles(Monitor)
            /\ state' \in [Slots -> States] /\ refs' \in [Slots -> SUBSET Tasks]
            /\ streams' \in [Slots -> SUBSET Requests]
        BY <4>1, GiveSound
      <4> QED
        BY <1>0, <1>1, <1>3, <2>1, <4>2 DEF Unload, Types
  <2>3. CASE ~(InUse(map[m]) /\ active[map[m]] > 0)
    <3>1. Give(map[m], "Unloaded")
      BY <1>3, <2>3 DEF Unload
    <3>2. Leases(map[m]) = {}
      BY <1>0, <2>1, <2>3, NoLeases DEF Types
    <3> QED
      BY <1>0, <1>1, <1>3, <2>1, <2>3, <3>1, <3>2, GiveSound DEF Unload, Types
  <2> QED
    BY <2>2, <2>3
<1>4. CASE s \in Slots /\ FinishDraining(s)
  <2>1. Leases(s) = {}
    BY <1>4, NoLeases DEF FinishDraining
  <2>2. /\ Settles(Monitor)
        /\ state' \in [Slots -> States] /\ refs' \in [Slots -> SUBSET Tasks]
        /\ streams' \in [Slots -> SUBSET Requests]
    BY <1>2, <1>4, <2>1, GiveSound DEF FinishDraining
  <2> QED
    BY <1>0, <1>1, <1>4, <2>2 DEF FinishDraining, Types
<1>5. CASE s \in Slots /\ TtlCheck(s)
  BY <1>0, <1>1, <1>2, <1>5 DEF TtlCheck, engines, Types
<1>6. CASE TtlUnload
  <2>1. sweep \in Slots
    BY <1>0, <1>6 DEF TtlUnload, Types
  <2>2. active[sweep] = 0 => Leases(sweep) = {}
    BY <2>1, NoLeases
  <2>3. /\ Settles(Monitor)
        /\ state' \in [Slots -> States] /\ refs' \in [Slots -> SUBSET Tasks]
        /\ streams' \in [Slots -> SUBSET Requests]
    BY <1>2, <1>6, <2>1, <2>2, GiveSound DEF TtlUnload
  <2> QED
    BY <1>0, <1>1, <1>6, <2>3 DEF TtlUnload, Types
<1>7. CASE MonitorChoose
  <2>1. victim' \in [Tasks \cup {Monitor} -> Models \cup {NoModel}]
    BY <1>0, <1>7, ChooseType DEF MonitorChoose, Types
  <2> QED
    BY <1>0, <1>1, <1>2, <1>7, <2>1 DEF MonitorChoose, engines, Types
<1>8. CASE MonitorEvict
  <2>1. victim' \in [Tasks \cup {Monitor} -> Models \cup {NoModel}]
    BY <1>0, <1>8 DEF MonitorEvict, Types
  <2>2. /\ Settles(Monitor)
        /\ state' \in [Slots -> States] /\ refs' \in [Slots -> SUBSET Tasks]
        /\ streams' \in [Slots -> SUBSET Requests]
    BY <1>8, EvictSound DEF MonitorEvict
  <2> QED
    BY <1>0, <1>1, <1>8, <2>1, <2>2 DEF MonitorEvict, Types
<1> QED
  BY <1>3, <1>4, <1>5, <1>6, <1>7, <1>8

-----------------------------------------------------------------------------
(* The invariant                                                           *)

\* A pool that has served nobody yet satisfies Inv.
LEMMA InitInv == Init => Inv
<1> SUFFICES ASSUME Init PROVE Inv
  OBVIOUS
<1>1. Types
  <2>1. \A m \in Models : <<m, 1>> \in Slots
    BY PoolAssumption DEF Slots
  <2> QED
    BY <2>1, PoolAssumption DEF Init, Types, States, Points
<1>2. \A t \in Tasks : TaskOK(t)
  BY DEF Init, TaskOK, Holding
<1>3. Counted
  <2> SUFFICES ASSUME NEW s \in Slots PROVE active[s] = Cardinality(Leases(s))
    BY DEF Counted
  <2>1. Leases(s) = {}
    BY DEF Init, Leases, Tasks
  <2> QED
    BY <2>1, FS_EmptySet DEF Init
<1>4. Queue
  BY DEF Init, Queue
<1> QED
  BY <1>1, <1>2, <1>3, <1>4 DEF Inv

\* A step is a task's, or nobody's.
LEMMA StepInv == Inv /\ [Next]_vars => Inv'
<1> SUFFICES ASSUME Inv, [Next]_vars PROVE Inv'
  OBVIOUS
<1>1. CASE UNCHANGED vars
  BY <1>1 DEF vars, catalog, engines, locals, Inv, Types, TaskOK, Counted, Leases, Queue,
              HasGate, InUse
<1>2. ASSUME NEW t \in Tasks, Arrive(t) \/ Proceed(t) \/ HangUp(t) PROVE Inv'
  BY <1>2, ArriveOK, ProceedOK, HangUpOK
<1>3. ASSUME NEW m \in Models, Unload(m) PROVE Inv'
  BY <1>3, AsideOK
<1>4. ASSUME NEW s \in Slots, FinishDraining(s) \/ TtlCheck(s) PROVE Inv'
  BY <1>4, AsideOK
<1>5. CASE TtlUnload \/ MonitorChoose \/ MonitorEvict
  BY <1>5, AsideOK
<1> QED
  BY <1>1, <1>2, <1>3, <1>4, <1>5 DEF Next

\* Inv is inductive, so it holds whatever calls, sweeps and unloads come.
THEOREM Invariant == Spec => []Inv
BY InitInv, StepInv, PTL DEF Spec

(* The state is what TypeOK says, whatever the numbers of models and calls: in
   particular active_requests never passes the number of requests, and no task
   stands in the load gate's queue twice. *)
THEOREM PoolTypeCorrect == Spec => []TypeOK
<1>1. Inv => TypeOK
  <2> SUFFICES ASSUME Inv PROVE TypeOK
    OBVIOUS
  <2>1. Types /\ Counted /\ Queue
    BY DEF Inv
  <2>2. ASSUME NEW s \in Slots PROVE active[s] \in 0..Cardinality(Requests)
    <3>1. IsFiniteSet(Requests) /\ Leases(s) \subseteq Requests
      BY PoolAssumption DEF Leases
    <3>2. Cardinality(Leases(s)) <= Cardinality(Requests) /\ Cardinality(Requests) \in Nat
      BY <3>1, FS_Subset, FS_CardinalityType
    <3> QED
      BY <2>1, <3>2 DEF Types, Counted
  <2> QED
    BY <2>1, <2>2 DEF Types, Queue, TypeOK
<1> QED
  BY <1>1, Invariant, PTL

(* No order of unloads, drains, evictions, sweeps, reloads and failed loads takes
   the engine from a request that holds its lease. *)
THEOREM LeasesHold == Spec => []LeaseKeepsEngine
<1>1. Inv => LeaseKeepsEngine
  BY DEF Inv, TaskOK, LeaseKeepsEngine, Tasks
<1> QED
  BY <1>1, Invariant, PTL

(* active_requests is the number of live leases: what Idle, the drain poll and the
   sweep decide by is never ahead of the leases or behind them. *)
THEOREM CountsExact == Spec => []ActiveCountsLeases
<1>1. Inv => ActiveCountsLeases
  BY DEF Inv, Counted, Leases, ActiveCountsLeases
<1> QED
  BY <1>1, Invariant, PTL

-----------------------------------------------------------------------------
(* What a step does to a slot's state                                      *)

(* Objects stay with their model, and nobody aims at a Preload model. *)
Names ==
  /\ \A m \in Models : map[m] # NoSlot => ModelOf(map[m]) = m
  /\ \A t \in Tasks : old[t] # NoSlot => /\ pc[t] # "new" /\ slot[t] # NoSlot
                                         /\ ModelOf(old[t]) = ModelOf(slot[t])
  /\ \A e \in Tasks \cup {Monitor} : victim[e] \notin Preload
  /\ sweep # NoSlot => ModelOf(sweep) \notin Preload

Moves(s) ==
  \/ state'[s] = state[s]
  \/ /\ state[s] # "Loading" /\ state'[s] \in {"Unloaded", "Draining"}
     /\ state[s] = "Loaded" => ModelOf(s) \notin Preload
     /\ state'[s] = "Draining" => InUse(s)
  \/ \E t \in Tasks :
       /\ slot[t] = s /\ pc[t] \in Holding /\ state'[s] # "Draining"
       /\ state'[s] = "Loading" => pc[t] # "loading" /\ pc'[t] = "loading"
       /\ state'[s] = "Loaded" => LoadDone(t)

\* Calls that arrive change no slot state and keep names apart.
LEMMA ArriveNames ==
  ASSUME Inv, Names, NEW t \in Tasks, Arrive(t)
  PROVE  Names' /\ UNCHANGED state
<1>0. Types /\ pc[t] = "new" /\ old[t] = NoSlot /\ UNCHANGED <<victim, sweep, state>>
  BY DEF Inv, Names, Arrive, Resolve, ReloadRemove, PinCheck, RegisterKeep, RegisterNew,
         Start, engines
<1>1. PICK m \in Models : \/ Resolve(t, m) \/ ReloadRemove(t, m) \/ PinCheck(t, m)
                         \/ RegisterKeep(t, m) \/ RegisterNew(t, m)
  BY DEF Arrive
<1>2. /\ map' = map \/ map' = [map EXCEPT ![m] = NoSlot]
      /\ \A u \in Tasks \ {t} : old'[u] = old[u] /\ slot'[u] = slot[u] /\ pc'[u] = pc[u]
  BY <1>0, <1>1 DEF Types, Resolve, ReloadRemove, PinCheck, RegisterKeep, RegisterNew,
                    Start, Fresh, catalog
<1>3. old'[t] # NoSlot => /\ pc'[t] # "new" /\ slot'[t] # NoSlot
                          /\ ModelOf(old'[t]) = ModelOf(slot'[t])
  <2>1. CASE ReloadRemove(t, m)
    <3>1. slot'[t] = <<m, made[m] + 1>> /\ <<m, made[m] + 1>> \in Slots
          /\ old'[t] = map[m] /\ pc'[t] = "insert"
      BY <1>0, <2>1, FreshSlot DEF Types, ReloadRemove
    <3>2. map[m] # NoSlot => ModelOf(map[m]) = m
      BY DEF Names
    <3> QED
      BY <3>1, <3>2, PoolAssumption DEF ModelOf
  <2>2. CASE ~ReloadRemove(t, m)
    BY <1>0, <1>1, <2>2 DEF Resolve, PinCheck, RegisterKeep, RegisterNew
  <2> QED
    BY <2>1, <2>2
<1>4. \A n \in Models : map'[n] # NoSlot => ModelOf(map'[n]) = n
  BY <1>0, <1>2 DEF Names, Types
<1>5. \A u \in Tasks : old'[u] # NoSlot => /\ pc'[u] # "new" /\ slot'[u] # NoSlot
                                          /\ ModelOf(old'[u]) = ModelOf(slot'[u])
  BY <1>2, <1>3 DEF Names
<1>6. /\ \A e \in Tasks \cup {Monitor} : victim'[e] \notin Preload
      /\ sweep' # NoSlot => ModelOf(sweep') \notin Preload
  BY <1>0 DEF Names
<1> QED
  BY <1>0, <1>4, <1>5, <1>6 DEF Names

\* Steps that leave map, victims and slots as they are.
LEMMA SameNames ==
  ASSUME Inv, Names, UNCHANGED <<map, old, slot>>, sweep' \in {sweep, NoSlot},
         \A e \in Tasks \cup {Monitor} : victim'[e] \in {victim[e], NoModel},
         \A t \in Tasks : pc'[t] = "new" => pc[t] = "new"
  PROVE  Names'
BY PoolAssumption DEF Names

\* No step takes a call back to its start.
LEMMA WakesNotNew ==
  ASSUME NEW t, Wakes(t), t \in Tasks => pc'[t] # "new"
  PROVE  \A u \in Tasks : pc'[u] = "new" => pc[u] = "new"
BY DEF Wakes

\* evict_lru_idle_engine takes no Preload model's engine.
LEMMA EvictMoves ==
  ASSUME Inv, Names, NEW e \in Tasks \cup {Monitor}, Evict(e)
  PROVE  \A s \in Slots : Moves(s)
<1>1. CASE CanEvict(e)
  <2> DEFINE r == map[victim[e]]
  <2>1. r \in Slots /\ ModelOf(r) \notin Preload /\ state[r] = "Loaded"
    BY <1>1 DEF CanEvict, Inv, Types, Names, Idle
  <2>2. state' = [state EXCEPT ![r] = "Unloaded"]
    BY <1>1 DEF Evict, Give
  <2> QED
    BY <2>1, <2>2 DEF Moves, Inv, Types
<1>2. CASE ~CanEvict(e)
  BY <1>2 DEF Evict, Moves
<1> QED
  BY <1>1, <1>2

\* A drained slot goes from Draining to Unloaded.
LEMMA DrainedMoves ==
  ASSUME Inv, NEW r \in Slots, Drained(r)
  PROVE  \A s \in Slots : Moves(s)
BY DEF Drained, Give, Moves, Inv, Types

\* A task's own steps move only the slots Moves lets them move.
LEMMA ProceedNames ==
  ASSUME Inv, Names, NEW t \in Tasks, Proceed(t)
  PROVE  Names' /\ UNCHANGED slot /\ \A s \in Slots : Moves(s)
<1>0. /\ Types /\ TaskOK(t) /\ Inv' /\ Wakes(t) /\ pc[t] # "new"
  <2>1. pc[t] # "new"
    BY DEF Proceed, ReloadInsert, RegisterInsert, SetPinned,
       LookLoaded, LookLoading, LookRefused, LookAbsent,
       GateLoaded, GateLoading, GateRefused, GateAbsent,
       Reserve, ReserveRefused, Reclaim, RetryRefused,
       CapacityContinue, CapacityReject, TryEvictLruIdle, EvictForRoom, NoRoom, Begin,
       LoadDone, LoadFailed, Release, Respond, StreamEnds, ReloadUndo, ReloadRestore, DropLease
  <2> QED
    BY <2>1, ProceedOK DEF Inv
<1>1. \A u \in Tasks : pc'[u] = "new" => pc[u] = "new"
  <2>1. pc'[t] # "new"
    BY <1>0 DEF Types, Points, Proceed, Woken, AfterError, ReloadInsert, RegisterInsert, SetPinned,
       LookLoaded, LookLoading, LookRefused, LookAbsent,
       GateLoaded, GateLoading, GateRefused, GateAbsent,
       Reserve, ReserveRefused, Reclaim, RetryRefused, CapacityRejected, BeginLoad,
       CapacityContinue, CapacityReject, TryEvictLruIdle, EvictForRoom, NoRoom, Begin,
       LoadDone, LoadFailed, Release, Respond, StreamEnds, ReloadUndo, ReloadRestore
  <2> QED
    BY <1>0, <2>1, WakesNotNew
<1>2. UNCHANGED <<old, slot>>
  BY DEF Proceed, locals, catalog, ReloadInsert, RegisterInsert, SetPinned,
     LookLoaded, LookLoading, LookRefused, LookAbsent,
     GateLoaded, GateLoading, GateRefused, GateAbsent,
     Reserve, ReserveRefused, Reclaim, RetryRefused,
     CapacityContinue, CapacityReject, TryEvictLruIdle, EvictForRoom, NoRoom, Begin,
     LoadDone, LoadFailed, Release, Respond, StreamEnds, ReloadUndo, ReloadRestore, DropLease
<1>3. CASE ReloadInsert(t) \/ RegisterInsert(t) \/ ReloadUndo(t) \/ ReloadRestore(t)
  <2>1. UNCHANGED <<state, victim, sweep>> /\ slot[t] \in Slots
    BY <1>0, <1>3 DEF ReloadInsert, RegisterInsert, ReloadUndo, ReloadRestore, engines, TaskOK
  <2>2. PICK r \in {slot[t], old[t], NoSlot} : map' = [map EXCEPT ![ModelOf(slot[t])] = r]
    BY <1>3 DEF ReloadInsert, RegisterInsert, ReloadUndo, ReloadRestore
  <2>3. r # NoSlot => ModelOf(r) = ModelOf(slot[t])
    BY <2>2 DEF Names
  <2>4. \A m \in Models : map'[m] # NoSlot => ModelOf(map'[m]) = m
    BY <1>0, <2>2, <2>3 DEF Types, Names
  <2> QED
    BY <1>1, <1>2, <2>1, <2>4 DEF Names, Moves
<1>4. CASE SetPinned(t) \/ LookLoading(t) \/ LookRefused(t) \/ Reserve(t) \/ StreamEnds(t)
           \/ GateLoading(t) \/ GateRefused(t) \/ Release(t) \/ Respond(t)
  <2>1. UNCHANGED <<map, state, victim, sweep>>
    BY <1>4 DEF SetPinned, LookLoading, LookRefused, Reserve, StreamEnds, GateLoading,
                GateRefused, Release, Respond, DropLease, catalog, engines
  <2> QED
    BY <1>1, <1>2, <2>1, SameNames DEF Moves
<1>5. CASE ReserveRefused(t) \/ TryEvictLruIdle(t)
  <2>1. /\ UNCHANGED <<map, state, sweep>>
        /\ victim' = [victim EXCEPT ![t] = Choose(ModelOf(slot[t]))]
    BY <1>5 DEF ReserveRefused, TryEvictLruIdle, catalog, engines
  <2>2. Choose(ModelOf(slot[t])) \notin Preload
    BY ChooseType, PoolAssumption
  <2>3. \A e \in Tasks \cup {Monitor} : victim'[e] \notin Preload
    BY <1>0, <2>1, <2>2 DEF Types, Names
  <2> QED
    BY <1>1, <1>2, <2>1, <2>3 DEF Names, Moves
<1>6. CASE Reclaim(t) \/ EvictForRoom(t)
  <2>1. /\ Evict(t) /\ UNCHANGED <<map, sweep>>
        /\ victim' = [victim EXCEPT ![t] = NoModel]
    BY <1>6 DEF Reclaim, EvictForRoom, catalog
  <2>2. \A e \in Tasks \cup {Monitor} : victim'[e] \in {victim[e], NoModel}
    BY <1>0, <2>1 DEF Types
  <2> QED
    BY <1>1, <1>2, <2>1, <2>2, SameNames, EvictMoves
<1>7. CASE LookAbsent(t) \/ GateAbsent(t)
  <2>1. Drained(slot[t]) /\ UNCHANGED <<map, victim, sweep>> /\ slot[t] \in Slots
    BY <1>0, <1>7 DEF LookAbsent, GateAbsent, catalog, TaskOK
  <2> QED
    BY <1>1, <1>2, <2>1, SameNames, DrainedMoves
<1>8. CASE LookLoaded(t) \/ GateLoaded(t)
  <2>1. UNCHANGED <<map, state, victim>> /\ sweep' \in {sweep, NoSlot}
    BY <1>8 DEF LookLoaded, GateLoaded, catalog, Lend, Touch
  <2> QED
    BY <1>1, <1>2, <2>1, SameNames DEF Moves
<1>9. CASE CapacityContinue(t) \/ Begin(t)
  <2>1. /\ state' = [state EXCEPT ![slot[t]] = "Loading"] /\ UNCHANGED <<map, victim, sweep>>
        /\ pc[t] \in Holding \ {"loading"}
        /\ pc' = Woken(slot[t], [pc EXCEPT ![t] = "loading"])
    BY <1>9 DEF CapacityContinue, Begin, BeginLoad, catalog, Holding
  <2>2. pc'[t] = "loading"
    BY <1>0, <2>1 DEF Woken, Types
  <2>3. \A s \in Slots : Moves(s)
    BY <1>0, <2>1, <2>2 DEF Moves, Types
  <2> QED
    BY <1>1, <1>2, <2>1, <2>3, SameNames
<1>10. CASE RetryRefused(t) \/ CapacityReject(t) \/ NoRoom(t) \/ LoadFailed(t) \/ LoadDone(t)
  <2>1. PICK st \in {"Unloaded", "Failed", "Loaded"} : state' = [state EXCEPT ![slot[t]] = st]
    BY <1>10 DEF RetryRefused, CapacityReject, NoRoom, LoadFailed, LoadDone, CapacityRejected
  <2>2. /\ pc[t] \in Holding /\ map' = map /\ sweep' \in {sweep, NoSlot}
        /\ victim' = victim \/ victim' = [victim EXCEPT ![t] = NoModel]
    BY <1>10 DEF RetryRefused, CapacityReject, NoRoom, LoadFailed, LoadDone, catalog,
                 Touch, Holding
  <2>3. \A e \in Tasks \cup {Monitor} : victim'[e] \in {victim[e], NoModel}
    BY <1>0, <2>2 DEF Types
  <2>4. st = "Loaded" => LoadDone(t)
    BY <1>0, <1>10, <2>1 DEF RetryRefused, CapacityReject, NoRoom, LoadFailed, CapacityRejected,
                             Types, TaskOK, Holding
  <2>5. \A s \in Slots : Moves(s)
    BY <1>0, <2>1, <2>2, <2>4 DEF Moves, Types
  <2> QED
    BY <1>1, <1>2, <2>2, <2>3, <2>5, SameNames
<1> QED
  BY <1>3, <1>4, <1>5, <1>6, <1>7, <1>8, <1>9, <1>10, Zenon DEF Proceed

\* A dropped call changes no slot state.
LEMMA HangUpNames ==
  ASSUME Inv, Names, NEW t \in Tasks, HangUp(t)
  PROVE  Names' /\ UNCHANGED <<state, slot>>
<1>1. /\ UNCHANGED <<map, old, slot, sweep, state>> /\ pc' = [pc EXCEPT ![t] = CutAt(@)]
      /\ victim' = [victim EXCEPT ![t] = NoModel]
  BY DEF HangUp, catalog, locals, engines
<1>2. /\ \A e \in Tasks \cup {Monitor} : victim'[e] \in {victim[e], NoModel}
      /\ \A u \in Tasks : pc'[u] = "new" => pc[u] = "new"
  BY <1>1, CutIsOver DEF Inv, Types, Over
<1> QED
  BY <1>1, <1>2, SameNames

\* Nor do unloads, sweeps and the monitor touch a Preload model.
LEMMA AsideNames ==
  ASSUME Inv, Names, NEW m, NEW s,
         \/ m \in Models /\ Unload(m)
         \/ s \in Slots /\ (FinishDraining(s) \/ TtlCheck(s))
         \/ TtlUnload
         \/ MonitorChoose \/ MonitorEvict
  PROVE  Names' /\ UNCHANGED slot /\ \A r \in Slots : Moves(r)
<1>0. /\ Types /\ Wakes(Monitor) /\ Monitor \notin Tasks /\ UNCHANGED <<map, old, slot>>
  BY AsideOK, PoolAssumption DEF Inv, Unload, FinishDraining, TtlCheck, TtlUnload,
     MonitorChoose, MonitorEvict, catalog, locals
<1>1. \A u \in Tasks : pc'[u] = "new" => pc[u] = "new"
  BY <1>0, WakesNotNew
<1>2. CASE m \in Models /\ Unload(m)
  <2>1. /\ map[m] \in Slots /\ state[map[m]] # "Loading" /\ ModelOf(map[m]) \notin Preload
        /\ UNCHANGED <<victim, sweep>>
    BY <1>0, <1>2 DEF Types, Unload, Names
  <2>2. \E st \in {"Unloaded", "Draining"} :
          /\ state' = [state EXCEPT ![map[m]] = st]
          /\ st = "Draining" => InUse(map[m])
    BY <1>2 DEF Unload, Give
  <2>3. \A r \in Slots : Moves(r)
    BY <1>0, <2>1, <2>2 DEF Moves, Types
  <2> QED
    BY <1>0, <1>1, <2>1, <2>3, SameNames
<1>3. CASE s \in Slots /\ FinishDraining(s)
  <2>1. \A r \in Slots : Moves(r)
    BY <1>0, <1>3 DEF FinishDraining, Give, Moves, Types
  <2> QED
    BY <1>0, <1>1, <1>3, <2>1, SameNames DEF FinishDraining
<1>4. CASE s \in Slots /\ TtlCheck(s)
  <2>1. UNCHANGED <<victim, state>> /\ ModelOf(sweep') \notin Preload
    BY <1>4 DEF TtlCheck, engines
  <2> QED
    BY <1>0, <1>1, <2>1 DEF Names, Moves
<1>5. CASE TtlUnload
  <2>1. sweep \in Slots /\ ModelOf(sweep) \notin Preload /\ sweep' = NoSlot /\ victim' = victim
    BY <1>0, <1>5 DEF TtlUnload, Types, Names
  <2>2. \A r \in Slots : Moves(r)
    BY <1>0, <1>5, <2>1 DEF TtlUnload, Give, Moves, Types
  <2> QED
    BY <1>0, <1>1, <2>1, <2>2, SameNames
<1>6. CASE MonitorChoose
  <2>1. UNCHANGED <<state, sweep>> /\ victim' = [victim EXCEPT ![Monitor] = Choose(NoModel)]
    BY <1>6 DEF MonitorChoose, engines
  <2>2. Choose(NoModel) \notin Preload
    BY ChooseType, PoolAssumption
  <2>3. \A e \in Tasks \cup {Monitor} : victim'[e] \notin Preload
    BY <1>0, <2>1, <2>2 DEF Types, Names
  <2> QED
    BY <1>0, <1>1, <2>1, <2>3 DEF Names, Moves
<1>7. CASE MonitorEvict
  <2>1. /\ Evict(Monitor) /\ sweep' = sweep
        /\ \A e \in Tasks \cup {Monitor} : victim'[e] \in {victim[e], NoModel}
    BY <1>0, <1>7 DEF MonitorEvict, Types
  <2> QED
    BY <1>0, <1>1, <2>1, SameNames, EvictMoves
<1> QED
  BY <1>2, <1>3, <1>4, <1>5, <1>6, <1>7

-----------------------------------------------------------------------------
(* What nobody may do, and who loads                                       *)

Named == Inv /\ Names

\* Every step keeps Named and moves slots as Moves says.
LEMMA StepNamed == Named /\ [Next]_vars => Named' /\ \A s \in Slots : Moves(s)
<1> SUFFICES ASSUME Named, [Next]_vars PROVE Named' /\ \A s \in Slots : Moves(s)
  OBVIOUS
<1>1. Inv' /\ Inv /\ Names
  BY StepInv DEF Named
<1>2. CASE UNCHANGED vars
  BY <1>1, <1>2 DEF vars, catalog, engines, locals, Names, Moves, Named
<1>3. ASSUME NEW t \in Tasks, Arrive(t) \/ Proceed(t) \/ HangUp(t)
      PROVE  Names' /\ \A s \in Slots : Moves(s)
  BY <1>1, <1>3, ArriveNames, ProceedNames, HangUpNames DEF Moves
<1>4. ASSUME NEW m \in Models, Unload(m) PROVE Names' /\ \A s \in Slots : Moves(s)
  BY <1>1, <1>4, AsideNames
<1>5. ASSUME NEW s \in Slots, FinishDraining(s) \/ TtlCheck(s)
      PROVE  Names' /\ \A r \in Slots : Moves(r)
  BY <1>1, <1>5, AsideNames
<1>6. CASE TtlUnload \/ MonitorChoose \/ MonitorEvict
  BY <1>1, <1>6, AsideNames DEF Named
<1> QED
  BY <1>1, <1>2, <1>3, <1>4, <1>5, <1>6 DEF Next, Named

\* Names holds at the start.
LEMMA InitNamed == Init => Named
BY InitInv, PoolAssumption DEF Init, Named, Names, ModelOf

\* Named holds throughout.
LEMMA NamedHolds == Spec => []Named
BY InitNamed, StepNamed, PTL DEF Spec

(* Nothing any call, sweep or monitor does takes a loaded Preload model out of
   service, for every policy and any number of models and objects. *)
THEOREM PreloadIsSafe == Spec => PreloadStays
<1> DEFINE Stays == \A s \in Slots :
      ModelOf(s) \in Preload /\ state[s] = "Loaded" => state'[s] = "Loaded"
<1>1. Named /\ [Next]_vars => Stays
  <2> SUFFICES ASSUME Named, [Next]_vars, NEW s \in Slots,
                      ModelOf(s) \in Preload, state[s] = "Loaded"
               PROVE  state'[s] = "Loaded"
    OBVIOUS
  <2>1. Moves(s)
    BY StepNamed
  <2>2. \A t \in Tasks : pc[t] \in Holding => slot[t] # s
    BY DEF Named, Inv, TaskOK, Holding
  <2> QED
    BY <2>1, <2>2 DEF Moves
<1> HIDE DEF Stays
<1>2. Spec => [][Stays]_vars
  BY <1>1, NamedHolds, PTL DEF Spec
<1> QED
  BY <1>2 DEF PreloadStays, Stays

(* Only an operator's call starts the load of a Failed slot again, however many
   requests stood in the queue for the gate when it failed. *)
THEOREM FailedWaitsForOperator == Spec => FailedNeedsControl
<1> DEFINE Waits == \A s \in Slots : state[s] = "Failed" /\ state'[s] = "Loading" =>
      \E t \in Controls : pc'[t] = "loading" /\ slot[t] = s
<1>1. Named /\ [Next]_vars => Waits
  <2> SUFFICES ASSUME Named, [Next]_vars, NEW s \in Slots,
                      state[s] = "Failed", state'[s] = "Loading"
               PROVE  \E t \in Controls : pc'[t] = "loading" /\ slot[t] = s
    OBVIOUS
  <2>1. Moves(s)
    BY StepNamed
  <2>2. PICK t \in Tasks : /\ slot[t] = s /\ pc[t] \in Holding \ {"loading"}
                           /\ pc'[t] = "loading"
    BY <2>1 DEF Moves
  <2>3. t \notin Requests
    BY <2>2 DEF Named, Inv, TaskOK
  <2> QED
    BY <2>2, <2>3 DEF Tasks
<1> HIDE DEF Waits
<1>2. Spec => [][Waits]_vars
  BY <1>1, NamedHolds, PTL DEF Spec
<1> QED
  BY <1>2 DEF FailedNeedsControl, Waits

Loads(t, s) == pc[t] = "loading" /\ slot[t] = s

Loaders == \A s \in Slots : state[s] = "Loading" =>
             (\E t \in Tasks : Loads(t, s)) \/ LoadCut(s)

\* A load dropped half done stays so.
LEMMA CutStays ==
  ASSUME Named, [Next]_vars, NEW s, LoadCut(s)
  PROVE  LoadCut(s)'
<1>0. Inv /\ Names
  BY DEF Named
<1>1. PICK t \in HangUps : pc[t] = "loadcut" /\ slot[t] = s
  BY DEF LoadCut
<1> SUFFICES pc'[t] = "loadcut" /\ slot'[t] = s
  BY DEF LoadCut
<1>2. CASE UNCHANGED vars
  BY <1>1, <1>2 DEF vars, locals
<1>3. ASSUME NEW u \in Tasks, Arrive(u) \/ Proceed(u) \/ HangUp(u)
      PROVE  pc'[t] = "loadcut" /\ slot'[t] = s
  <2>1. u # t
    <3>1. SUFFICES ASSUME u = t PROVE FALSE
      OBVIOUS
    <3>2. ~Arrive(t) /\ ~HangUp(t)
      BY <1>1 DEF Arrive, Resolve, ReloadRemove, PinCheck, RegisterKeep, RegisterNew, Start,
                  HangUp, Over
    <3>3. ~Proceed(t)
      BY <1>1 DEF Proceed, ReloadInsert, RegisterInsert, SetPinned,
         LookLoaded, LookLoading, LookRefused, LookAbsent,
         GateLoaded, GateLoading, GateRefused, GateAbsent,
         Reserve, ReserveRefused, Reclaim, RetryRefused, CapacityContinue, CapacityReject,
         TryEvictLruIdle, EvictForRoom, NoRoom, Begin, LoadDone, LoadFailed,
         Release, Respond, StreamEnds, ReloadUndo, ReloadRestore, DropLease
    <3> QED
      BY <1>3, <3>1, <3>2, <3>3
  <2>2. Wakes(u)
    BY <1>0, <1>3, ArriveOK, ProceedOK, HangUpOK
  <2>3. t \in Tasks
    BY <1>1, PoolAssumption
  <2> QED
    BY <1>1, <2>1, <2>2, <2>3 DEF Wakes
<1>4. ASSUME \/ \E m \in Models : Unload(m)
             \/ \E r \in Slots : FinishDraining(r) \/ TtlCheck(r)
             \/ TtlUnload \/ MonitorChoose \/ MonitorEvict
      PROVE  pc'[t] = "loadcut" /\ slot'[t] = s
  <2>1. Wakes(Monitor) /\ Monitor \notin Tasks
    BY <1>0, <1>4, AsideOK, PoolAssumption
  <2>2. t \in Tasks
    BY <1>1, PoolAssumption
  <2> QED
    BY <1>1, <2>1, <2>2 DEF Wakes
<1> QED
  BY <1>2, <1>3, <1>4 DEF Next

\* A slot in Loading keeps its loader until the load ends or is dropped.
LEMMA LoadersStep ==
  ASSUME Named, Loaders, [Next]_vars
  PROVE  Loaders'
<1> SUFFICES ASSUME NEW s \in Slots, state'[s] = "Loading"
             PROVE  (\E t \in Tasks : Loads(t, s)') \/ LoadCut(s)'
  BY DEF Loaders
<1>1. Moves(s) /\ Inv /\ Names
  BY StepNamed DEF Named
<1>2. ASSUME NEW t \in Tasks, pc[t] = "loading", state[s] = "Loading", slot[t] = s,
             ~HangUp(t)
      PROVE  pc'[t] = "loading" /\ slot'[t] = s
  <2>1. CASE UNCHANGED vars
    BY <1>2, <2>1 DEF vars, locals
  <2>2. ASSUME NEW u \in Tasks \ {t}, Arrive(u) \/ Proceed(u) \/ HangUp(u)
        PROVE  pc'[t] = "loading" /\ slot'[t] = s
    <3>1. Wakes(u)
      BY <1>1, <2>2, ArriveOK, ProceedOK, HangUpOK
    <3> QED
      BY <1>2, <2>2, <3>1 DEF Wakes
  <2>3. ASSUME \/ \E m \in Models : Unload(m)
               \/ \E r \in Slots : FinishDraining(r) \/ TtlCheck(r)
               \/ TtlUnload \/ MonitorChoose \/ MonitorEvict
        PROVE  pc'[t] = "loading" /\ slot'[t] = s
    <3>1. Wakes(Monitor) /\ Monitor \notin Tasks
      BY <1>1, <2>3, AsideOK, PoolAssumption
    <3> QED
      BY <1>2, <3>1 DEF Wakes
  <2>4. ~Arrive(t)
    BY <1>2 DEF Arrive, Resolve, ReloadRemove, PinCheck, RegisterKeep, RegisterNew, Start
  <2>5. ~Proceed(t)
    <3>1. SUFFICES ASSUME Proceed(t) PROVE FALSE
      OBVIOUS
    <3>2. LoadDone(t) \/ LoadFailed(t)
      BY <1>2, <3>1 DEF Proceed, ReloadInsert, RegisterInsert, SetPinned,
         LookLoaded, LookLoading, LookRefused, LookAbsent,
         GateLoaded, GateLoading, GateRefused, GateAbsent,
         Reserve, ReserveRefused, Reclaim, RetryRefused, CapacityContinue, CapacityReject,
         TryEvictLruIdle, EvictForRoom, NoRoom, Begin, Release, Respond, DropLease,
         StreamEnds, ReloadUndo, ReloadRestore
    <3> QED
      BY <1>1, <1>2, <3>2 DEF LoadDone, LoadFailed, Inv, Types
  <2> QED
    BY <1>2, <2>1, <2>2, <2>3, <2>4, <2>5 DEF Next
<1>5. ASSUME NEW t \in Tasks, pc[t] = "loading", slot[t] = s, HangUp(t)
      PROVE  LoadCut(s)'
  <2>1. t \in HangUps /\ pc' = [pc EXCEPT ![t] = CutAt(@)] /\ slot' = slot
    BY <1>5 DEF HangUp, locals
  <2>2. pc'[t] = "loadcut"
    BY <1>1, <1>5, <2>1 DEF CutAt, Inv, Types
  <2> QED
    BY <1>5, <2>1, <2>2 DEF LoadCut
<1>3. CASE state[s] = "Loading"
  <2>1. CASE LoadCut(s)
    BY <2>1, CutStays
  <2>2. ASSUME NEW t \in Tasks, Loads(t, s)
        PROVE  Loads(t, s)' \/ LoadCut(s)'
    BY <1>2, <1>3, <1>5, <2>2 DEF Loads
  <2> QED
    BY <1>3, <2>1, <2>2 DEF Loaders
<1>4. CASE state[s] # "Loading"
  <2>1. PICK t \in Tasks : slot[t] = s /\ pc[t] # "loading" /\ pc'[t] = "loading" /\ pc[t] \in Holding
    BY <1>1, <1>4 DEF Moves
  <2>2. slot'[t] = slot[t]
    <3>1. CASE UNCHANGED vars
      BY <3>1 DEF vars, locals
    <3>2. ASSUME NEW u \in Tasks, Arrive(u) \/ Proceed(u) \/ HangUp(u) PROVE slot'[t] = slot[t]
      <4>1. CASE u # t
        BY <1>1, <3>2, <4>1, ArriveOK, ProceedOK, HangUpOK DEF Wakes
      <4>2. CASE u = t
        <5>1. ~Arrive(t)
          BY <2>1 DEF Arrive, Resolve, ReloadRemove, PinCheck, RegisterKeep, RegisterNew,
                      Start, Holding
        <5> QED
          BY <1>1, <3>2, <4>2, <5>1, ProceedNames, HangUpNames
      <4> QED
        BY <4>1, <4>2
    <3>3. ASSUME \/ \E m \in Models : Unload(m)
                 \/ \E r \in Slots : FinishDraining(r) \/ TtlCheck(r)
                 \/ TtlUnload \/ MonitorChoose \/ MonitorEvict
          PROVE  slot'[t] = slot[t]
      BY <1>1, <3>3, AsideNames
    <3> QED
      BY <3>1, <3>2, <3>3 DEF Next
  <2> QED
    BY <2>1, <2>2 DEF Loads
<1> QED
  BY <1>3, <1>4

(* A slot in Loading is being loaded by the holder of the load gate, who will notify
   whoever waits for it, unless the call that was loading it was dropped: nothing
   else leaves a slot in Loading behind. *)
THEOREM LoaderExists == Spec => []LoadingHasLoader
<1>1. Init => Loaders
  BY DEF Init, Loaders
<1>2. Loaders /\ Named /\ [Next]_vars => Loaders'
  BY LoadersStep
<1>3. Spec => []Loaders
  BY <1>1, <1>2, NamedHolds, PTL DEF Spec
<1>4. Loaders /\ Named => LoadingHasLoader
  BY DEF Loaders, Loads, Named, Inv, TaskOK, Holding, LoadingHasLoader
<1> QED
  BY <1>3, <1>4, NamedHolds, PTL

-----------------------------------------------------------------------------
(* The cap of a static pool                                                *)

(* Without reloads and registrations the map stays as it is. *)
Static ==
  /\ op \in [Tasks -> {"none", "request", "load", "pin", "register"}]
  /\ \A t \in Tasks : pc[t] \notin {"insert", "undo", "restore", "enroll"}

Fitted == {s \in InMap : InUse(s)}

(* Whoever is past the cap's check has the room it found, or made, still. *)
Room ==
  /\ LoadedCount <= MaxLoaded
  /\ \A t \in Tasks : pc[t] \in {"begin", "loading"} => LoadedCount < MaxLoaded

\* In a static pool no step replaces a slot object.
LEMMA StaticStep ==
  ASSUME MaxObjects = 1, Named, Static, [Next]_vars
  PROVE  Static' /\ UNCHANGED map
<1>0. Types /\ Inv /\ Names /\ PoolAssumption
  BY PoolAssumption DEF Named, Inv
<1>1. CASE UNCHANGED vars
  BY <1>1 DEF Static, vars, catalog, locals
<1>2. ASSUME NEW t \in Tasks, Arrive(t) PROVE Static' /\ UNCHANGED map
  <2>1. \A m \in Models : ~ReloadRemove(t, m) /\ ~RegisterNew(t, m)
    BY <1>0 DEF Types, ReloadRemove, RegisterNew, Fresh
  <2>2. PICK m \in Models : Resolve(t, m) \/ PinCheck(t, m) \/ RegisterKeep(t, m)
    BY <1>2, <2>1 DEF Arrive
  <2>3. map' = map
    BY <2>2 DEF Resolve, PinCheck, RegisterKeep, catalog
  <2>4. PICK name \in {"request", "load", "pin", "register"} : op' = [op EXCEPT ![t] = name]
    BY <2>2 DEF Resolve, PinCheck, RegisterKeep, Start
  <2>5. PICK p \in {"done", "look", "setpin"} : pc' = [pc EXCEPT ![t] = p]
    BY <2>2 DEF Resolve, PinCheck, RegisterKeep
  <2> QED
    BY <1>0, <2>3, <2>4, <2>5 DEF Static, Types
<1>3. ASSUME NEW t \in Tasks, Proceed(t) PROVE Static' /\ UNCHANGED map
  <2>1. ~(ReloadInsert(t) \/ RegisterInsert(t) \/ ReloadUndo(t) \/ ReloadRestore(t))
    BY DEF Static, ReloadInsert, RegisterInsert, ReloadUndo, ReloadRestore
  <2>2. UNCHANGED <<map, op>>
    BY <1>3, <2>1 DEF Proceed, locals, catalog, SetPinned,
       LookLoaded, LookLoading, LookRefused, LookAbsent,
       GateLoaded, GateLoading, GateRefused, GateAbsent,
       Reserve, ReserveRefused, Reclaim, RetryRefused,
       CapacityContinue, CapacityReject, TryEvictLruIdle, EvictForRoom, NoRoom, Begin,
       LoadDone, LoadFailed, Release, Respond, StreamEnds, DropLease
  <2>3. AfterError(t) = "done"
    BY DEF AfterError, Static
  <2>4. pc'[t] \notin {"insert", "undo", "restore", "enroll"}
    BY <1>0, <1>3, <2>1, <2>3 DEF Types, Proceed, Woken, SetPinned,
       LookLoaded, LookLoading, LookRefused, LookAbsent,
       GateLoaded, GateLoading, GateRefused, GateAbsent,
       Reserve, ReserveRefused, Reclaim, RetryRefused, CapacityRejected, BeginLoad,
       CapacityContinue, CapacityReject, TryEvictLruIdle, EvictForRoom, NoRoom, Begin,
       LoadDone, LoadFailed, Release, Respond, StreamEnds
  <2>5. Wakes(t)
    BY <1>0, <1>3, ProceedOK
  <2> QED
    BY <2>2, <2>4, <2>5 DEF Static, Wakes
<1>4. ASSUME NEW t \in Tasks, HangUp(t) PROVE Static' /\ UNCHANGED map
  BY <1>0, <1>4, CutIsOver DEF HangUp, Static, catalog, locals, Types, Over
<1>5. ASSUME \/ \E m \in Models : Unload(m)
             \/ \E s \in Slots : FinishDraining(s) \/ TtlCheck(s)
             \/ TtlUnload \/ MonitorChoose \/ MonitorEvict
      PROVE  Static' /\ UNCHANGED map
  <2>1. Wakes(Monitor) /\ Monitor \notin Tasks
    BY <1>0, <1>5, AsideOK
  <2>2. UNCHANGED <<map, op>>
    BY <1>5 DEF Unload, FinishDraining, TtlCheck, TtlUnload, MonitorChoose, MonitorEvict,
                catalog, locals
  <2> QED
    BY <2>1, <2>2 DEF Static, Wakes
<1> QED
  BY <1>1, <1>2, <1>3, <1>4, <1>5 DEF Next

\* Slots are finitely many, so counts of them can be compared.
LEMMA FiniteSlots ==
  ASSUME NEW S \in SUBSET Slots
  PROVE  IsFiniteSet(S) /\ Cardinality(S) \in Nat
<1>1. IsFiniteSet(1..MaxObjects)
  BY PoolAssumption, FS_Interval
<1>2. IsFiniteSet(Slots)
  BY <1>1, PoolAssumption, FS_Product DEF Slots
<1> QED
  BY <1>2, FS_Subset, FS_CardinalityType

\* A slot comes to have an engine only where a load is done.
LEMMA FittedMoves ==
  ASSUME Named, [Next]_vars, UNCHANGED map, NEW s \in Fitted' \ Fitted
  PROVE  \E t \in Tasks : LoadDone(t) /\ slot[t] = s
<1>1. s \in InMap /\ s \in Slots /\ state'[s] \in {"Loaded", "Draining"} /\ ~InUse(s)
  BY DEF Fitted, InMap, InUse, Named, Inv, Types
<1>2. Moves(s)
  BY <1>1, StepNamed
<1> QED
  BY <1>1, <1>2 DEF Moves, InUse

\* A task gets past the cap's check by finding room or by making it.
LEMMA Entering ==
  ASSUME Named, [Next]_vars, NEW u \in Tasks,
         pc'[u] \in {"begin", "loading"}, pc[u] \notin {"begin", "loading"}
  PROVE  CapacityContinue(u) \/ EvictForRoom(u)
<1>0. Types /\ Inv
  BY DEF Named, Inv
<1>1. ~UNCHANGED vars
  BY DEF vars
<1>2. ASSUME NEW t \in Tasks \ {u} PROVE ~(Arrive(t) \/ Proceed(t) \/ HangUp(t))
  BY <1>0, ArriveOK, ProceedOK, HangUpOK DEF Wakes
<1>3. ~(\/ \E m \in Models : Unload(m)
        \/ \E s \in Slots : FinishDraining(s) \/ TtlCheck(s)
        \/ TtlUnload \/ MonitorChoose \/ MonitorEvict)
  BY <1>0, AsideOK, PoolAssumption DEF Wakes
<1>4. ~Arrive(u)
  <2> SUFFICES ASSUME NEW m \in Models, \/ Resolve(u, m) \/ ReloadRemove(u, m)
               \/ PinCheck(u, m) \/ RegisterKeep(u, m) \/ RegisterNew(u, m)
      PROVE  FALSE
    BY DEF Arrive
  <2>1. PICK p \in {"look", "done", "insert", "setpin", "enroll"} : pc' = [pc EXCEPT ![u] = p]
    BY DEF Resolve, ReloadRemove, PinCheck, RegisterKeep, RegisterNew
  <2> QED
    BY <1>0, <2>1 DEF Types
<1>5. ~HangUp(u)
  <2>1. pc \in [Tasks -> Points]
    BY <1>0 DEF Types
  <2>2. HangUp(u) => pc'[u] = CutAt(pc[u])
    BY <2>1 DEF HangUp
  <2> QED
    BY <2>2, CutIsOver DEF Over
<1>6. Proceed(u)
  BY <1>1, <1>2, <1>3, <1>4, <1>5 DEF Next
<1>7. AfterError(u) \in {"done", "undo"}
  BY DEF AfterError
<1> QED
  BY <1>0, <1>6, <1>7 DEF Types, Proceed, Woken, ReloadInsert, RegisterInsert, SetPinned,
       LookLoaded, LookLoading, LookRefused, LookAbsent,
       GateLoaded, GateLoading, GateRefused, GateAbsent,
       Reserve, ReserveRefused, Reclaim, RetryRefused, CapacityRejected, BeginLoad,
       CapacityContinue, CapacityReject, TryEvictLruIdle, EvictForRoom, NoRoom, Begin,
       LoadDone, LoadFailed, Release, Respond, StreamEnds, ReloadUndo, ReloadRestore

\* No step takes away the room a loading task has found or made.
LEMMA RoomStep ==
  ASSUME MaxObjects = 1, Named, Static, Room, [Next]_vars
  PROVE  Room'
<1>0. /\ Types /\ Inv /\ UNCHANGED map /\ MaxLoaded \in Nat
      /\ IsFiniteSet(Fitted) /\ Cardinality(Fitted) \in Nat /\ LoadedCount = Cardinality(Fitted)
      /\ IsFiniteSet(Fitted') /\ Cardinality(Fitted') \in Nat
      /\ LoadedCount' = Cardinality(Fitted')
  <2>1. Inv /\ Inv'
    BY StepNamed DEF Named
  <2>2. Fitted \subseteq Slots /\ Fitted' \subseteq Slots
    BY <2>1 DEF Inv, Types, Fitted, InMap
  <2>3. LoadedCount = Cardinality(Fitted) /\ LoadedCount' = Cardinality(Fitted')
    BY DEF LoadedCount, Fitted
  <2>4. IsFiniteSet(Fitted) /\ Cardinality(Fitted) \in Nat
    BY <2>2, FiniteSlots
  <2>5. IsFiniteSet(Fitted') /\ Cardinality(Fitted') \in Nat
    BY <2>2, FiniteSlots
  <2> QED
    BY <2>1, <2>3, <2>4, <2>5, StaticStep, PoolAssumption DEF Inv
<1>1. ASSUME Fitted' \subseteq Fitted PROVE LoadedCount' <= LoadedCount
  BY <1>0, <1>1, FS_Subset
<1>2. CASE \E t \in Tasks : LoadDone(t)
  <2>1. PICK t \in Tasks : LoadDone(t)
    BY <1>2
  <2>2. /\ pc[t] = "loading" /\ HasGate(t) /\ pc'[t] = "leased" /\ Wakes(t)
    <3>1. pc[t] = "loading" /\ pc'[t] = "leased"
      BY <1>0, <2>1 DEF LoadDone, Woken, Types
    <3>2. Proceed(t)
      BY <2>1 DEF Proceed
    <3> QED
      BY <1>0, <3>1, <3>2, ProceedOK DEF Inv, TaskOK, Holding
  <2>3. \A u \in Tasks : pc[u] = "loading" => u = t
    BY <1>0, <2>2, OneHolder DEF Inv, TaskOK, Holding
  <2>4. Fitted' \subseteq Fitted \cup {slot[t]}
    BY <2>3, FittedMoves, <1>0 DEF LoadDone
  <2>5. LoadedCount' <= LoadedCount + 1
    <3> DEFINE T == Fitted \cup {slot[t]}
    <3>1. /\ IsFiniteSet(T)
          /\ Cardinality(T) = IF slot[t] \in Fitted THEN Cardinality(Fitted)
                                                    ELSE Cardinality(Fitted) + 1
      BY <1>0, FS_AddElement
    <3>2. Fitted' \in SUBSET T
      BY <2>4
    <3> HIDE DEF T
    <3>3. Cardinality(Fitted') <= Cardinality(T)
      BY <3>1, <3>2, FS_Subset
    <3> QED
      BY <1>0, <3>1, <3>3
  <2>6. \A u \in Tasks : pc'[u] \notin {"begin", "loading"}
    BY <1>0, <2>2, OneHolder DEF Inv, TaskOK, Holding, Wakes
  <2> QED
    BY <1>0, <2>2, <2>5, <2>6 DEF Room
<1>3. CASE ~\E t \in Tasks : LoadDone(t)
  <2>1. Fitted' \subseteq Fitted
    BY <1>0, <1>3, FittedMoves
  <2>2. ASSUME NEW u \in Tasks, pc'[u] \in {"begin", "loading"}
        PROVE  LoadedCount' < MaxLoaded
    <3>1. CASE pc[u] \in {"begin", "loading"}
      BY <1>0, <1>1, <2>1, <3>1 DEF Room
    <3>2. CASE pc[u] \notin {"begin", "loading"}
      <4>1. CapacityContinue(u) \/ EvictForRoom(u)
        BY <2>2, <3>2, Entering
      <4>2. CASE CapacityContinue(u)
        BY <1>0, <1>1, <2>1, <4>2 DEF CapacityContinue, HasRoom
      <4>3. CASE EvictForRoom(u)
        <5> DEFINE v == map[victim[u]]
        <5>1. v \in Fitted /\ v \in Slots /\ state' = [state EXCEPT ![v] = "Unloaded"]
          BY <1>0, <4>3 DEF EvictForRoom, CanEvict, Evict, Give, Idle, InUse, Fitted, InMap, Types
        <5>2. Fitted' \subseteq Fitted \ {v}
          BY <1>0, <2>1, <5>1 DEF Types, Fitted, InUse
        <5>3. LoadedCount' <= LoadedCount - 1
          <6> HIDE DEF v
          <6> QED
            BY <1>0, <5>1, <5>2, FS_RemoveElement, FS_Subset
        <5> QED
          BY <1>0, <5>3 DEF Room
      <4> QED
        BY <4>1, <4>2, <4>3
    <3> QED
      BY <3>1, <3>2
  <2> QED
    BY <1>0, <1>1, <2>1, <2>2 DEF Room
<1> QED
  BY <1>2, <1>3

\* The static pool starts with its Preload models' engines, which fit.
LEMMA InitRoom ==
  ASSUME MaxObjects = 1, Init
  PROVE  Static /\ Room
<1>1. Inv /\ Static
  BY InitInv DEF Init, Static
<1>2. Fitted = {<<m, 1>> : m \in Preload}
  BY PoolAssumption DEF Init, Fitted, InMap, InUse, ModelOf, Slots
<1>3. IsFiniteSet(Preload) /\ Cardinality(Preload) \in Nat
  BY PoolAssumption, FS_Subset, FS_CardinalityType
<1>4. Cardinality(Fitted) <= Cardinality(Preload)
  <2> DEFINE f == [m \in Preload |-> <<m, 1>>]
  <2>1. f \in Surjection(Preload, Fitted)
    BY <1>2 DEF Surjection
  <2> QED
    BY <1>3, <2>1, FS_Surjection
<1>5. LoadedCount = Cardinality(Fitted) /\ Cardinality(Fitted) \in Nat
  <2>1. Fitted \subseteq Slots
    BY <1>1 DEF Inv, Types, Fitted, InMap
  <2> QED
    BY <2>1, FiniteSlots DEF LoadedCount, Fitted
<1> QED
  BY <1>1, <1>3, <1>4, <1>5, PoolAssumption DEF Room, Init

(* A static pool, one without reloads and registrations, never holds more engines
   than max_loaded_models: the room found under the load gate is still there when
   the load is done, however late an eviction or an unload comes in between. *)
THEOREM StaticCap ==
  ASSUME MaxObjects = 1
  PROVE  Spec => []CapRespected
<1>1. Init => Static /\ Room
  BY InitRoom
<1>2. Static /\ Room /\ Named /\ [Next]_vars => (Static /\ Room)'
  BY StaticStep, RoomStep
<1>3. Spec => [](Static /\ Room)
  BY <1>1, <1>2, NamedHolds, PTL DEF Spec
<1>4. Room => CapRespected
  BY DEF Room, CapRespected
<1> QED
  BY <1>3, <1>4, PTL

-----------------------------------------------------------------------------
(* No model is lost                                                        *)

Ops == {"none", "request", "load", "reload", "pin", "register"}

(* ModelKept and what makes its reloads come to an end: a reload is an operator's,
   it alone reaches a rollback, and a rollback that restores has what it restores. *)
Reloading ==
  /\ op \in [Tasks -> Ops]
  /\ \A t \in Tasks :
       /\ op[t] = "reload" => t \in Controls
       /\ pc[t] \in {"insert", "undo", "restore"} => op[t] = "reload"
       /\ pc[t] = "restore" => old[t] # NoSlot
  /\ ModelKept

\* A call that arrives takes a slot object away only as a reload.
LEMMA ArriveReloads ==
  ASSUME Inv, Reloading, NEW t \in Tasks, Arrive(t)
  PROVE  Reloading'
<1>0. Types /\ pc[t] = "new"
  BY DEF Inv, Arrive, Resolve, ReloadRemove, PinCheck, RegisterKeep, RegisterNew, Start
<1>1. PICK m \in Models : \/ Resolve(t, m) \/ ReloadRemove(t, m) \/ PinCheck(t, m)
                         \/ RegisterKeep(t, m) \/ RegisterNew(t, m)
  BY DEF Arrive
<1>2. /\ \A u \in Tasks \ {t} : /\ op'[u] = op[u] /\ pc'[u] = pc[u]
                                /\ old'[u] = old[u] /\ slot'[u] = slot[u]
      /\ op' \in [Tasks -> Ops]
  <2>1. PICK name \in Ops : op' = [op EXCEPT ![t] = name]
    BY <1>1 DEF Ops, Resolve, ReloadRemove, PinCheck, RegisterKeep, RegisterNew, Start
  <2>2. \E x, v : pc' = [pc EXCEPT ![t] = x] /\ slot' = [slot EXCEPT ![t] = v]
    BY <1>1 DEF Resolve, ReloadRemove, PinCheck, RegisterKeep, RegisterNew, Start, Fresh
  <2>3. \A u \in Tasks \ {t} : old'[u] = old[u]
    BY <1>0, <1>1 DEF Types, Resolve, ReloadRemove, PinCheck, RegisterKeep, RegisterNew
  <2>4. op \in [Tasks -> Ops]
    BY DEF Reloading
  <2> QED
    BY <1>0, <2>1, <2>2, <2>3, <2>4 DEF Types
<1>3. /\ op'[t] = "reload" => t \in Controls
      /\ pc'[t] \in {"insert", "undo", "restore"} => op'[t] = "reload"
      /\ pc'[t] # "restore"
  <2>1. t \in Tasks /\ op \in [Tasks -> Ops] /\ pc \in [Tasks -> Points]
    BY <1>0 DEF Types, Reloading
  <2>2. CASE ReloadRemove(t, m)
    BY <2>1, <2>2 DEF ReloadRemove
  <2>3. CASE ~ReloadRemove(t, m)
    BY <1>1, <2>1, <2>3 DEF Resolve, PinCheck, RegisterKeep, RegisterNew, Start
  <2> QED
    BY <2>2, <2>3
<1>4. ASSUME NEW n \in Models, map'[n] = NoSlot
      PROVE  \E u \in Controls : op'[u] = "reload" /\ ModelOf(slot'[u]) = n /\ Parts(u)'
  <2>1. CASE map[n] = NoSlot
    <3>1. PICK u \in Controls : op[u] = "reload" /\ ModelOf(slot[u]) = n /\ Parts(u)
      BY <2>1 DEF Reloading, ModelKept
    <3>2. u \in Tasks \ {t}
      BY <1>0, <3>1 DEF Tasks, Parts
    <3> QED
      BY <1>2, <3>1, <3>2 DEF Parts
  <2>2. CASE map[n] # NoSlot
    <3>1. ReloadRemove(t, m) /\ m = n
      BY <1>0, <1>1, <1>4, <2>2 DEF Types, Resolve, ReloadRemove, PinCheck, RegisterKeep,
                                    RegisterNew, Start, catalog
    <3>2. /\ t \in Controls /\ op'[t] = "reload" /\ pc'[t] = "insert"
          /\ slot'[t] = <<n, made[n] + 1>>
      BY <1>0, <3>1 DEF Types, Reloading, ReloadRemove, Fresh
    <3> QED
      BY <3>2 DEF ModelOf, Parts
  <2> QED
    BY <2>1, <2>2
<1> QED
  BY <1>2, <1>3, <1>4 DEF Reloading, ModelKept

\* Where a step that leaves the map alone takes its task.
LEMMA ProceedPlaces ==
  ASSUME Inv, NEW t \in Tasks, Proceed(t),
         ~(ReloadInsert(t) \/ ReloadUndo(t) \/ ReloadRestore(t) \/ RegisterInsert(t))
  PROVE  /\ UNCHANGED map
         /\ pc[t] \notin {"insert", "undo", "restore", "done", "reloadcut"}
         /\ pc'[t] \notin {"insert", "restore"}
         /\ pc'[t] = "undo" => op[t] = "reload"
<1>0. Types
  BY DEF Inv
<1>1. AfterError(t) \in {"undo", "done"} /\ (AfterError(t) = "undo" => op[t] = "reload")
  BY DEF AfterError
<1>2. CASE SetPinned(t) \/ LookLoaded(t) \/ LookLoading(t) \/ LookAbsent(t)
           \/ GateLoaded(t) \/ GateLoading(t) \/ GateAbsent(t)
           \/ Reserve(t) \/ ReserveRefused(t) \/ Reclaim(t) \/ TryEvictLruIdle(t)
           \/ EvictForRoom(t) \/ Release(t) \/ Respond(t) \/ StreamEnds(t)
  BY <1>0, <1>2 DEF Types, catalog, SetPinned, LookLoaded, LookLoading, LookAbsent,
     GateLoaded, GateLoading, GateAbsent, Reserve, ReserveRefused, Reclaim, TryEvictLruIdle,
     EvictForRoom, Release, Respond, StreamEnds, DropLease
<1>3. CASE LookRefused(t) \/ GateRefused(t)
  BY <1>0, <1>1, <1>3 DEF Types, catalog, LookRefused, GateRefused
<1>4. CASE CapacityContinue(t) \/ Begin(t) \/ LoadDone(t)
  BY <1>0, <1>4 DEF Types, catalog, CapacityContinue, Begin, BeginLoad, LoadDone, Woken
<1>5. CASE RetryRefused(t) \/ CapacityReject(t) \/ NoRoom(t) \/ LoadFailed(t)
  BY <1>0, <1>1, <1>5 DEF Types, catalog, RetryRefused, CapacityReject, NoRoom, LoadFailed,
     CapacityRejected, Woken
<1> QED
  BY <1>2, <1>3, <1>4, <1>5 DEF Proceed

\* A call that goes on leaves a model without an object only to restore it, or because
\* it had found none.
LEMMA ProceedReloads ==
  ASSUME Inv, Names, Reloading, NEW t \in Tasks, Proceed(t)
  PROVE  Reloading'
<1>0. Types /\ TaskOK(t) /\ Wakes(t) /\ UNCHANGED slot
  BY ProceedOK, ProceedNames DEF Inv
<1>1. UNCHANGED <<op, old>>
  BY DEF Proceed, locals, ReloadInsert, RegisterInsert, SetPinned,
     LookLoaded, LookLoading, LookRefused, LookAbsent,
     GateLoaded, GateLoading, GateRefused, GateAbsent,
     Reserve, ReserveRefused, Reclaim, RetryRefused,
     CapacityContinue, CapacityReject, TryEvictLruIdle, EvictForRoom, NoRoom, Begin,
     LoadDone, LoadFailed, Release, Respond, StreamEnds, ReloadUndo, ReloadRestore, DropLease
<1>2. ASSUME NEW u \in Tasks \ {t},
             \/ pc'[u] \in {"insert", "undo", "restore", "done", "reloadcut"}
             \/ pc[u] \in {"insert", "undo", "restore", "done", "reloadcut"}
      PROVE  pc'[u] = pc[u]
  BY <1>0, <1>2 DEF Wakes
<1>3. ASSUME /\ pc'[t] \in {"insert", "undo", "restore"} => op[t] = "reload"
             /\ pc'[t] = "restore" => old[t] # NoSlot,
             \A n \in Models : map'[n] = NoSlot =>
               \/ map[n] = NoSlot /\ ~(ModelOf(slot[t]) = n /\ op[t] = "reload"
                                        /\ pc[t] \in {"insert", "restore", "done", "reloadcut"})
               \/ /\ op[t] = "reload" /\ ModelOf(slot[t]) = n
                  /\ pc'[t] = "restore" \/ (pc'[t] = "done" /\ old[t] = NoSlot)
      PROVE  Reloading'
  <2>1. \A u \in Tasks : /\ pc'[u] \in {"insert", "undo", "restore"} => op[u] = "reload"
                         /\ pc'[u] = "restore" => old[u] # NoSlot
    BY <1>2, <1>3 DEF Reloading
  <2>2. ASSUME NEW n \in Models, map'[n] = NoSlot
        PROVE  \E u \in Controls : op[u] = "reload" /\ ModelOf(slot[u]) = n /\ Parts(u)'
    <3>1. CASE /\ map[n] = NoSlot
               /\ ~(ModelOf(slot[t]) = n /\ op[t] = "reload"
                     /\ pc[t] \in {"insert", "restore", "done", "reloadcut"})
      <4>1. PICK u \in Controls : op[u] = "reload" /\ ModelOf(slot[u]) = n /\ Parts(u)
        BY <3>1 DEF Reloading, ModelKept
      <4>2. u \in Tasks \ {t}
        BY <3>1, <4>1 DEF Tasks, Parts
      <4> QED
        BY <1>1, <1>2, <4>1, <4>2 DEF Parts
    <3>2. CASE /\ op[t] = "reload" /\ ModelOf(slot[t]) = n
               /\ pc'[t] = "restore" \/ (pc'[t] = "done" /\ old[t] = NoSlot)
      BY <1>1, <3>2 DEF Reloading, Parts
    <3> QED
      BY <1>3, <2>2, <3>1, <3>2
  <2> QED
    BY <1>0, <1>1, <2>1, <2>2 DEF Reloading, ModelKept
<1>4. CASE ReloadInsert(t) \/ RegisterInsert(t)
  <2>1. /\ slot[t] \in Slots /\ map' = [map EXCEPT ![ModelOf(slot[t])] = slot[t]]
        /\ pc'[t] \in {"look", "done"}
    BY <1>0, <1>4 DEF Types, TaskOK, ReloadInsert, RegisterInsert
  <2>2. ASSUME NEW n \in Models, map'[n] = NoSlot
        PROVE  map[n] = NoSlot /\ ModelOf(slot[t]) # n
    BY <1>0, <2>1, <2>2, PoolAssumption DEF Types
  <2> QED
    BY <1>3, <2>1, <2>2
<1>5. CASE ReloadUndo(t)
  <2>1. /\ pc[t] = "undo" /\ op[t] = "reload"
        /\ map' = [map EXCEPT ![ModelOf(slot[t])] = NoSlot]
        /\ pc'[t] = IF old[t] = NoSlot THEN "done" ELSE "restore"
    BY <1>0, <1>5 DEF Types, ReloadUndo, Reloading
  <2>2. ASSUME NEW n \in Models, map'[n] = NoSlot
        PROVE  map[n] = NoSlot \/ ModelOf(slot[t]) = n
    BY <1>0, <2>1, <2>2 DEF Types
  <2> QED
    BY <1>3, <2>1, <2>2
<1>6. CASE ReloadRestore(t)
  <2>1. /\ pc[t] = "restore" /\ old[t] # NoSlot
        /\ map' = [map EXCEPT ![ModelOf(slot[t])] = old[t]] /\ pc'[t] = "done"
    BY <1>0, <1>6 DEF Types, ReloadRestore, Reloading
  <2>2. ASSUME NEW n \in Models, map'[n] = NoSlot
        PROVE  map[n] = NoSlot /\ ModelOf(slot[t]) # n
    BY <1>0, <2>1, <2>2 DEF Types
  <2> QED
    BY <1>3, <2>1, <2>2
<1>7. CASE ~(ReloadInsert(t) \/ ReloadUndo(t) \/ ReloadRestore(t) \/ RegisterInsert(t))
  BY <1>3, <1>7, ProceedPlaces
<1> QED
  BY <1>4, <1>5, <1>6, <1>7

\* A call dropped in the middle of a reload stands there for good.
LEMMA HangUpReloads ==
  ASSUME Inv, Reloading, NEW t \in Tasks, HangUp(t)
  PROVE  Reloading'
<1>1. UNCHANGED <<map, op, old, slot>> /\ pc' = [pc EXCEPT ![t] = CutAt(@)] /\ t \in HangUps
  BY DEF HangUp, catalog, locals
<1>2. pc \in [Tasks -> Points] /\ pc[t] \notin Over
  BY DEF Inv, Types, HangUp
<1>3. pc'[t] = CutAt(pc[t]) /\ \A u \in Tasks \ {t} : pc'[u] = pc[u]
  BY <1>1, <1>2
<1>4. pc'[t] \in Over
  BY <1>3, CutIsOver
<1>5. ASSUME Parts(t) PROVE Parts(t)'
  <2>1. pc[t] \in {"insert", "restore"}
    BY <1>2, <1>5 DEF Parts, Over
  <2>2. pc'[t] = "reloadcut"
    BY <1>3, <2>1 DEF CutAt
  <2> QED
    BY <1>1, <2>2 DEF Parts
<1>6. \A u \in Controls : Parts(u) => Parts(u)'
  <2> SUFFICES ASSUME NEW u \in Controls, Parts(u), u # t PROVE Parts(u)'
    BY <1>5
  <2>1. pc'[u] = pc[u]
    BY <1>3 DEF Tasks
  <2> QED
    BY <1>1, <2>1 DEF Parts
<1>7. ModelKept'
  BY <1>1, <1>6 DEF Reloading, ModelKept
<1> QED
  BY <1>1, <1>3, <1>4, <1>7 DEF Reloading, Over

\* Every step keeps Reloading.
LEMMA ReloadsStep ==
  ASSUME Named, Reloading, [Next]_vars
  PROVE  Reloading'
<1>0. Inv /\ Names
  BY DEF Named
<1>1. CASE UNCHANGED vars
  BY <1>1 DEF vars, catalog, locals, Reloading, ModelKept, Parts
<1>2. ASSUME NEW t \in Tasks, Arrive(t) \/ Proceed(t) PROVE Reloading'
  BY <1>0, <1>2, ArriveReloads, ProceedReloads
<1>3. ASSUME NEW t \in Tasks, HangUp(t) PROVE Reloading'
  BY <1>0, <1>3, HangUpReloads
<1>4. CASE \/ \E m \in Models : Unload(m)
           \/ \E s \in Slots : FinishDraining(s) \/ TtlCheck(s)
           \/ TtlUnload \/ MonitorChoose \/ MonitorEvict
  <2>1. PICK m, s :
          \/ m \in Models /\ Unload(m)
          \/ s \in Slots /\ (FinishDraining(s) \/ TtlCheck(s))
          \/ TtlUnload \/ MonitorChoose \/ MonitorEvict
    BY <1>4
  <2>2. Wakes(Monitor) /\ Monitor \notin Tasks
    BY <1>0, <2>1, AsideOK, PoolAssumption
  <2>3. UNCHANGED <<map, op, old, slot>>
    BY <2>1 DEF Unload, FinishDraining, TtlCheck, TtlUnload, MonitorChoose, MonitorEvict,
                catalog, locals
  <2>4. \A u \in Tasks : pc'[u] = pc[u] \/ (pc[u] = "waiting" /\ pc'[u] = "look")
    BY <2>2 DEF Wakes
  <2>5. ModelKept'
    BY <2>3, <2>4 DEF Reloading, ModelKept, Parts, Tasks
  <2> QED
    BY <2>3, <2>4, <2>5 DEF Reloading
<1> QED
  BY <1>1, <1>2, <1>3, <1>4 DEF Next

(* A model is without a slot object only in a reload, after one whose operator hung up in
   the middle, or after the rollback of one that found none: whatever else reloads,
   registers or unloads it in between. *)
THEOREM ModelsKept == Spec => []ModelKept
<1>1. Init => Reloading
  BY PoolAssumption DEF Init, Reloading, ModelKept, Ops, Slots
<1>2. Reloading /\ Named /\ [Next]_vars => Reloading'
  BY ReloadsStep
<1>3. Spec => []Reloading
  BY <1>1, <1>2, NamedHolds, PTL DEF Spec
<1>4. Reloading => ModelKept
  BY DEF Reloading
<1> QED
  BY <1>3, <1>4, PTL

=============================================================================
