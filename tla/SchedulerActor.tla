--------------------------- MODULE SchedulerActor ---------------------------
(***************************************************************************)
(* `driver_loop` of core/server/scheduler_actor.rs: one thread that owns   *)
(* the scheduler, receives Admit commands from the HTTP handlers over a    *)
(* bounded channel, assembles and prefills batches, and runs the rolling   *)
(* decode loop with its admission queue, its chunked mid-batch admit and   *)
(* its parked requests.  Each action is the stretch of code between two    *)
(* points at which a client, the memory governor or the command channel    *)
(* can be observed; pc names the point the thread has reached.             *)
(*                                                                         *)
(* Modelled for the ordinary decode mode (SchedulerActorNoMtp with the     *)
(* disabled adaptive policy).  Counters, profiling and the shared          *)
(* prompt-lookup control command carry no control state and are left out.  *)
(* Releasing a row's pages cannot fail here (that is PagedKV's business),  *)
(* so evict_all fails only in Idle and gc_finished_rows does not fail.     *)
(***************************************************************************)
EXTENDS Naturals, Sequences, FiniteSets, Functions

CONSTANTS
  Requests, BMax, MaxNew, SessionFaults,
  NoRequest,
  QueueMax,       \* admission_queue_max
  ChannelCap,     \* capacity of the command channel
  BatchLimit,     \* fresh_prefill_batch_limit of each request
  Chunks,         \* prefill chunks of each request
  DecodeBurst,    \* ROLLING_DECODE_STEPS_AFTER_ADMISSION_WORK
  Refusable,      \* requests admit may refuse (size, budget, store queue)
  HangUps,        \* requests whose client may disconnect
  MaxFaults,      \* bound on failures of the model
  Offload,        \* active-KV offload enabled
  PressureVaries, \* the memory governor may leave Normal
  MayClose        \* the engine may drop the last command sender

ASSUME RequestsAreFinite == IsFiniteSet(Requests)
ASSUME NoRequestIsNone == NoRequest \notin Requests
ASSUME BatchOK ==
  /\ BMax \in Nat \ {0}
  /\ MaxNew \in [Requests -> Nat]
  /\ SessionFaults \subseteq Requests
ASSUME BoundsAreNat ==
  /\ {QueueMax, ChannelCap, DecodeBurst} \subseteq Nat \ {0}
  /\ MaxFaults \in Nat
ASSUME PoliciesOK ==
  /\ BatchLimit \in [Requests -> 1..BMax]
  /\ Chunks \in [Requests -> Nat \ {0}]
  /\ Refusable \subseteq Requests
  /\ HangUps \subseteq Requests
ASSUME SwitchesAreBoolean == {Offload, PressureVaries, MayClose} \subseteq BOOLEAN

VARIABLES
  pc,                   \* where the driver thread is
  sched,                \* Scheduler
  event_txs,            \* requests with a registered event channel
  admission_queue,      \* PendingAdmit values
  in_flight_mid_admit,  \* the request being mid-admitted, or NoRequest
  chunks_left,          \* its prompt chunks still to prefill
  parked_active_kv,     \* parked requests, oldest first
  steps_due,            \* decode_steps_due_after_admission
  fresh_limit,          \* batch limit of the fresh batch being assembled
  cmds,                 \* commands in the channel
  open,                 \* some command sender is left
  client,               \* what each client is doing
  reply,                \* what its oneshot reply said
  last_event,           \* requests whose event with a finish_reason was sent
  pressure,             \* pressure_level of the memory governor
  faults                \* failures of the model so far

Core == INSTANCE SchedulerCore WITH parked <- Range(parked_active_kv), spent <- {}

midVars == <<in_flight_mid_admit, chunks_left>>
ownVars == <<sched, event_txs, admission_queue, midVars, parked_active_kv>>
envVars == <<open, client, pressure>>
vars == <<pc, ownVars, steps_due, fresh_limit, cmds, reply, last_event, faults, envVars>>

Windows == {"window", "queue_window", "next_window"}
Prefills == {"prefill", "queue_prefill", "next_prefill"}
Points == Windows \union Prefills \union
  {"top", "outer", "sweep", "rolling", "press", "event", "advance", "park", "drain",
   "tail", "handoff", "restore", "queue", "queue_drain", "break", "stopped"}

Init ==
  /\ pc = "top"
  /\ sched = Core!NewScheduler
  /\ event_txs = {}
  /\ admission_queue = <<>>
  /\ in_flight_mid_admit = NoRequest
  /\ chunks_left = 0
  /\ parked_active_kv = <<>>
  /\ steps_due = 0
  /\ fresh_limit = 1
  /\ cmds = <<>>
  /\ open = TRUE
  /\ client = [r \in Requests |-> "new"]
  /\ reply = [r \in Requests |-> "none"]
  /\ last_event = {}
  /\ pressure = "Normal"
  /\ faults = 0

-----------------------------------------------------------------------------
(* Helpers                                                                 *)

Gone(r) == client[r] = "gone"

\* prune_abandoned_pending_admits: a closed reply channel leaves the queue.
\* What is left of q keeps its order: rank counts the places kept up to i.
Live(q) ==
  LET kept    == {i \in DOMAIN q : ~Gone(q[i])}
      rank(i) == Cardinality({j \in kept : j <= i})
  IN  [k \in 1..Cardinality(kept) |-> q[CHOOSE i \in kept : rank(i) = k]]

ActiveCount == Core!ActiveCount(sched)

\* Rejecting a list of admits answers those that still listen.
Reject(q) == reply' = [r \in Requests |-> IF r \in Range(q) THEN "err" ELSE reply[r]]

\* Mutant of Deliver: a row that ends with its first token ends silently.
DeliverDecoded(after) ==
  last_event' = last_event \union ((after.done \ sched.done) \intersect Core!Decodable(sched))

\* The events of a step carry a finish_reason for the rows that just ended.
Deliver(after) == last_event' = last_event \union (after.done \ sched.done)

AdmissionWork == steps_due' = IF steps_due < DecodeBurst THEN DecodeBurst ELSE steps_due

\* can_start_rolling_mid_admit_for_request
CanStartRolling(r, active) ==
  active < BMax /\ (active < BatchLimit[r] \/ Chunks[r] > 1)

\* Everything in `admit` that may refuse: its own state, the governor, and for
\* the Refusable the size cap, the KV budget or the prefix-store backpressure.
MayAdmit(s) == Core!CanAdmit(s) /\ pressure = "Normal"
MayRefuse(s, r) == ~MayAdmit(s) \/ r \in Refusable

\* handle_admit in scheduler s: the command answers its caller exactly once; a
\* caller that has left by then is evicted again.
HandleAdmit(s, r) ==
  \/ /\ MayRefuse(s, r)
     /\ sched' = s
     /\ reply' = [reply EXCEPT ![r] = "err"]
     /\ UNCHANGED event_txs
  \/ /\ MayAdmit(s)
     /\ r \in SessionFaults
     /\ sched' = Core!AdmitSessionFails(s, r)
     /\ reply' = [reply EXCEPT ![r] = "err"]
     /\ UNCHANGED event_txs
  \/ /\ MayAdmit(s)
     /\ r \notin SessionFaults
     /\ IF Gone(r)
        THEN /\ sched' = Core!Evict(Core!Admit(s, r), {r})
             /\ UNCHANGED <<reply, event_txs>>
        ELSE /\ sched' = Core!Admit(s, r)
             /\ reply' = [reply EXCEPT ![r] = "ok"]
             /\ event_txs' = event_txs \union {r}

\* Mutants of EnqueueOrReject: the bound is off by one; a full queue drops the
\* request and forgets its caller.
EnqueueOneMore(r) ==
  IF Gone(r) THEN UNCHANGED <<admission_queue, reply>>
  ELSE IF Len(Live(admission_queue)) > QueueMax
  THEN admission_queue' = Live(admission_queue) /\ reply' = [reply EXCEPT ![r] = "err"]
  ELSE admission_queue' = Append(Live(admission_queue), r) /\ UNCHANGED reply

EnqueueOrForget(r) ==
  IF Gone(r) \/ Len(Live(admission_queue)) >= QueueMax
  THEN admission_queue' = Live(admission_queue) /\ UNCHANGED reply
  ELSE admission_queue' = Append(Live(admission_queue), r) /\ UNCHANGED reply

\* enqueue_or_reject
EnqueueOrReject(r) ==
  IF Gone(r) THEN UNCHANGED <<admission_queue, reply>>
  ELSE IF Len(Live(admission_queue)) >= QueueMax
  THEN /\ admission_queue' = Live(admission_queue)
       /\ reply' = [reply EXCEPT ![r] = "err"]
  ELSE /\ admission_queue' = Append(Live(admission_queue), r)
       /\ UNCHANGED reply

\* begin_mid_admit in scheduler s: the first chunk follows at once.  Preparing
\* the row may fail after its admission, which is then rolled back.
BeginMidAdmit(s, r, refused) ==
  LET begins == s.phase = "Decoding" /\ MayAdmit(s)
  IN  \/ /\ begins /\ r \notin SessionFaults /\ ~Gone(r)
         /\ sched' = Core!Admit(s, r)
         /\ reply' = [reply EXCEPT ![r] = "ok"]
         /\ event_txs' = event_txs \union {r}
         /\ in_flight_mid_admit' = r
         /\ chunks_left' = Chunks[r]
         /\ pc' = "advance"
      \/ /\ \/ (~begins \/ r \in Refusable) /\ sched' = s
            \/ begins /\ r \in SessionFaults /\ sched' = Core!AdmitSessionFails(s, r)
            \/ /\ begins /\ r \notin SessionFaults /\ (Gone(r) \/ r \in Refusable)
               /\ sched' = Core!Evict(Core!Admit(s, r), {r})
         /\ reply' = IF Gone(r) THEN reply ELSE [reply EXCEPT ![r] = "err"]
         /\ pc' = refused
         /\ UNCHANGED <<event_txs, midVars>>

\* try_park_one_active_kv_request takes one of these rows, or none: a payload
\* write can fail, and without offload there is no store.
Parkable ==
  IF Offload /\ sched.phase = "Decoding" THEN {r \in Requests : Core!CanPark(sched, r)} ELSE {}

ParkRow(r) == parked_active_kv' = Append(parked_active_kv, r)

\* Mutants of DropBatch: the streams stay open; the parked requests stay parked.
DropBatchKeepsStreams(s) ==
  /\ sched' = Core!EvictAll(s) /\ UNCHANGED event_txs
  /\ in_flight_mid_admit' = NoRequest /\ chunks_left' = 0
  /\ parked_active_kv' = <<>> /\ pc' = "top"

DropBatchKeepsParked(s) ==
  /\ sched' = Core!EvictAll(s) /\ event_txs' = {}
  /\ in_flight_mid_admit' = NoRequest /\ chunks_left' = 0
  /\ UNCHANGED parked_active_kv /\ pc' = "top"

\* Every failed batch ends the same way: evict_all, every stream dropped.
DropBatch(s) ==
  /\ sched' = Core!EvictAll(s)
  /\ event_txs' = {}
  /\ in_flight_mid_admit' = NoRequest
  /\ chunks_left' = 0
  /\ parked_active_kv' = <<>>
  /\ pc' = "top"

\* Mutant of RejectQueue: the queue is cleared without an answer.
ClearQueue == UNCHANGED reply /\ admission_queue' = <<>>

RejectQueue == Reject(admission_queue) /\ admission_queue' = <<>>

-----------------------------------------------------------------------------
(* Outer loop: wait for a first request, assemble and prefill a batch.     *)

Goto(from, to) == pc = from /\ pc' = to

Top ==
  /\ Goto("top", "outer")
  /\ sched' = IF sched.phase = "Finished" THEN Core!EvictAll(sched) ELSE sched
  /\ event_txs' = IF sched.phase = "Finished" THEN event_txs \ sched.rows ELSE event_txs
  /\ UNCHANGED <<admission_queue, midVars, parked_active_kv, steps_due, fresh_limit,
                 cmds, reply, last_event, faults>>

FirstAdmit ==
  /\ pc = "outer"
  /\ cmds # <<>>
  /\ cmds' = Tail(cmds)
  /\ HandleAdmit(sched, Head(cmds))
  /\ fresh_limit' = BatchLimit[Head(cmds)]
  /\ pc' = IF sched'.rows = {} THEN "top"
           ELSE IF Core!ActiveCount(sched') < fresh_limit' THEN "window" ELSE "sweep"
  /\ UNCHANGED <<admission_queue, midVars, parked_active_kv, steps_due, last_event, faults>>

\* The channel is closed: the thread returns and whatever it owns is dropped.
OuterClosed ==
  /\ Goto("outer", "stopped")
  /\ cmds = <<>> /\ ~open
  /\ event_txs' = {}
  /\ parked_active_kv' = <<>>
  /\ RejectQueue
  /\ UNCHANGED <<sched, midVars, steps_due, fresh_limit, cmds, last_event, faults>>

\* drain_window takes the commands that arrive before its deadline.
AdmissionWindow ==
  /\ pc \in Windows
  /\ cmds # <<>>
  /\ cmds' = Tail(cmds)
  /\ IF ActiveCount >= fresh_limit \/ ActiveCount >= BatchLimit[Head(cmds)]
     THEN EnqueueOrReject(Head(cmds)) /\ UNCHANGED <<sched, event_txs>>
     ELSE HandleAdmit(sched, Head(cmds)) /\ UNCHANGED admission_queue
  /\ UNCHANGED <<pc, midVars, parked_active_kv, steps_due, fresh_limit, last_event, faults>>

WindowDeadline ==
  /\ \/ Goto("window", "sweep")
     \/ Goto("queue_window", "queue_prefill")
     \/ Goto("next_window", "next_prefill")
  /\ UNCHANGED <<ownVars, steps_due, fresh_limit, cmds, reply, last_event, faults>>

\* Requests whose client left while the batch was assembled are evicted.
Sweep ==
  LET gone == {r \in sched.rows : Gone(r)}
  IN  /\ pc = "sweep"
      /\ admission_queue' = Live(admission_queue)
      /\ sched' = Core!Evict(sched, gone)
      /\ event_txs' = event_txs \ gone
      /\ pc' = IF sched'.rows = {} THEN "top" ELSE "prefill"
      /\ UNCHANGED <<midVars, parked_active_kv, steps_due, fresh_limit, cmds, reply,
                     last_event, faults>>

Prefill ==
  /\ pc \in Prefills
  /\ Core!CanPrefill(sched)
  /\ \E eos \in SUBSET sched.rows :
       /\ sched' = Core!Prefill(sched, eos)
       /\ Deliver(sched')
  /\ IF pc = "prefill" THEN steps_due' = DecodeBurst ELSE AdmissionWork
  /\ pc' = "rolling"
  /\ UNCHANGED <<event_txs, admission_queue, midVars, parked_active_kv, fresh_limit,
                 cmds, reply, faults>>

\* A failed prefill drops the batch; only the try_recv branch of the handoff
\* leaves the queue as it is.
PrefillFails ==
  /\ pc \in Prefills
  /\ faults < MaxFaults
  /\ faults' = faults + 1
  /\ DropBatch(Core!PrefillFails(sched))
  /\ IF pc = "next_prefill" THEN UNCHANGED <<admission_queue, reply>> ELSE RejectQueue
  /\ UNCHANGED <<steps_due, fresh_limit, cmds, last_event>>

-----------------------------------------------------------------------------
(* Rolling loop                                                            *)

\* Mutant of Cancel: the handle of a cancelled mid-admit survives its row.
CancelKeepsHandle ==
  LET gone == {r \in sched.rows : Gone(r)}
  IN  /\ Goto("rolling", "press")
      /\ admission_queue' = Live(admission_queue)
      /\ sched' = Core!Evict(sched, gone)
      /\ parked_active_kv' = Live(parked_active_kv)
      /\ event_txs' = event_txs \ (gone \union {r \in Range(parked_active_kv) : Gone(r)})
      /\ UNCHANGED <<midVars, steps_due, fresh_limit, cmds, reply, last_event, faults>>

\* Cancellations first: queue, rows (the one being mid-admitted too), parked.
Cancel ==
  LET gone == {r \in sched.rows : Gone(r)}
  IN  /\ Goto("rolling", "press")
      /\ admission_queue' = Live(admission_queue)
      /\ sched' = Core!Evict(sched, gone)
      /\ parked_active_kv' = Live(parked_active_kv)
      /\ event_txs' = event_txs \ (gone \union {r \in Range(parked_active_kv) : Gone(r)})
      /\ IF in_flight_mid_admit \in gone
         THEN in_flight_mid_admit' = NoRequest /\ chunks_left' = 0
         ELSE UNCHANGED midVars
      /\ UNCHANGED <<steps_due, fresh_limit, cmds, reply, last_event, faults>>

\* apply_process_memory_pressure asks for a row to park, the last one included.
Press ==
  /\ pc = "press"
  /\ \/ /\ pressure = "Hard" /\ in_flight_mid_admit = NoRequest
        /\ \E r \in Parkable : sched' = Core!Park(sched, r) /\ ParkRow(r)
     \/ UNCHANGED <<sched, parked_active_kv>>
  /\ pc' = IF sched.phase = "Finished" THEN "handoff" ELSE "event"
  /\ UNCHANGED <<event_txs, admission_queue, midVars, steps_due, fresh_limit, cmds,
                 reply, last_event, faults>>

\* should_force_decode
ForceDecode ==
  /\ steps_due > 0
  /\ sched.phase = "Decoding"
  /\ Core!Decodable(sched) # {}
  /\ in_flight_mid_admit # NoRequest \/ admission_queue # <<>>

\* The biased select prefers a command to a decode step.
PicksStep ==
  /\ pc = "event"
  /\ ForceDecode \/ (in_flight_mid_admit = NoRequest /\ cmds = <<>> /\ open)

PicksAdmit == pc = "event" /\ ~ForceDecode /\ in_flight_mid_admit = NoRequest /\ cmds # <<>>

\* Mutant of Step: finished rows are not collected.
StepWithoutGc ==
  /\ PicksStep
  /\ Core!CanStep(sched)
  /\ \E eos \in SUBSET Core!Decodable(sched) :
       sched' = Core!Step(sched, eos) /\ Deliver(sched')
  /\ steps_due' = IF steps_due = 0 THEN 0 ELSE steps_due - 1
  /\ pc' = "park"
  /\ UNCHANGED <<event_txs, admission_queue, midVars, parked_active_kv, fresh_limit, cmds,
                 reply, faults>>

Step ==
  /\ PicksStep
  /\ Core!CanStep(sched)
  /\ \E eos \in SUBSET Core!Decodable(sched) :
       LET s == Core!Step(sched, eos)
       IN  /\ Deliver(s)
           /\ sched' = Core!GcFinishedRows(s)
           /\ event_txs' = event_txs \ s.done
  /\ steps_due' = IF steps_due = 0 THEN 0 ELSE steps_due - 1
  /\ pc' = "park"
  /\ UNCHANGED <<admission_queue, midVars, parked_active_kv, fresh_limit, cmds, reply, faults>>

StepFails ==
  /\ PicksStep
  /\ IF Core!CanStep(sched) THEN faults < MaxFaults /\ faults' = faults + 1
                            ELSE UNCHANGED faults
  /\ DropBatch(IF sched.poisoned THEN sched ELSE Core!StepFails(sched))
  /\ RejectQueue
  /\ UNCHANGED <<steps_due, fresh_limit, cmds, last_event>>

\* RollingEvent::Admit with room for the request.
AdmitDirect ==
  /\ PicksAdmit
  /\ CanStartRolling(Head(cmds), ActiveCount)
  /\ cmds' = Tail(cmds)
  /\ BeginMidAdmit(sched, Head(cmds), "tail")
  /\ UNCHANGED <<admission_queue, parked_active_kv, steps_due, fresh_limit, last_event, faults>>

\* Without room: park a row and take its place, or queue the request.
AdmitByParking ==
  /\ PicksAdmit
  /\ ~CanStartRolling(Head(cmds), ActiveCount)
  /\ ActiveCount > 1
  /\ CanStartRolling(Head(cmds), ActiveCount - 1)
  /\ cmds' = Tail(cmds)
  /\ \E r \in Parkable :
       /\ ParkRow(r)
       /\ BeginMidAdmit(Core!Park(sched, r), Head(cmds), "tail")
  /\ UNCHANGED <<admission_queue, steps_due, fresh_limit, last_event, faults>>

AdmitQueued ==
  /\ PicksAdmit
  /\ ~CanStartRolling(Head(cmds), ActiveCount)
  /\ cmds' = Tail(cmds)
  /\ EnqueueOrReject(Head(cmds))
  /\ pc' = "tail"
  /\ UNCHANGED <<sched, event_txs, midVars, parked_active_kv, steps_due, fresh_limit,
                 last_event, faults>>

PicksAdvance ==
  /\ pc = "event"
  /\ ~ForceDecode
  /\ in_flight_mid_admit # NoRequest
  /\ pc' = "advance"
  /\ UNCHANGED <<ownVars, steps_due, fresh_limit, cmds, reply, last_event, faults>>

\* Mutant of AdvanceMidAdmit: the handle is not taken by the last chunk.
AdvanceKeepsHandle ==
  LET r == in_flight_mid_admit
  IN  /\ pc = "advance"
      /\ AdmissionWork
      /\ pc' = "tail"
      /\ IF chunks_left > 1
         THEN chunks_left' = chunks_left - 1 /\ UNCHANGED <<in_flight_mid_admit, sched, last_event>>
         ELSE /\ UNCHANGED midVars
              /\ \E eos \in SUBSET {r} :
                   sched' = Core!FinalizeMid(sched, r, eos) /\ Deliver(sched')
      /\ UNCHANGED <<event_txs, admission_queue, parked_active_kv, fresh_limit, cmds, reply, faults>>

\* advance_mid_admit_one_chunk; the last chunk is finalized at once.
AdvanceMidAdmit ==
  LET r == in_flight_mid_admit
  IN  /\ pc = "advance"
      /\ AdmissionWork
      /\ pc' = "tail"
      /\ IF chunks_left > 1
         THEN chunks_left' = chunks_left - 1 /\ UNCHANGED <<in_flight_mid_admit, sched, last_event>>
         ELSE /\ in_flight_mid_admit' = NoRequest /\ chunks_left' = 0
              /\ \E eos \in SUBSET {r} :
                   sched' = Core!FinalizeMid(sched, r, eos) /\ Deliver(sched')
      /\ UNCHANGED <<event_txs, admission_queue, parked_active_kv, fresh_limit, cmds, reply, faults>>

AdvanceFails ==
  LET r == in_flight_mid_admit
  IN  /\ Goto("advance", "tail")
      /\ faults < MaxFaults
      /\ faults' = faults + 1
      /\ AdmissionWork
      /\ sched' = Core!Evict(sched, {r})
      /\ event_txs' = event_txs \ {r}
      /\ in_flight_mid_admit' = NoRequest /\ chunks_left' = 0
      /\ UNCHANGED <<admission_queue, parked_active_kv, fresh_limit, cmds, reply, last_event>>

Shutdown ==
  /\ Goto("event", "stopped")
  /\ ~ForceDecode /\ in_flight_mid_admit = NoRequest
  /\ cmds = <<>> /\ ~open
  /\ parked_active_kv' = <<>>
  /\ event_txs' = {}
  /\ RejectQueue
  /\ UNCHANGED <<sched, midVars, steps_due, fresh_limit, cmds, last_event, faults>>

\* After a step: make room for a queued request by parking a row of a full
\* batch, then start the head of the queue.
ParkForQueue ==
  /\ pc = "park"
  /\ \/ /\ in_flight_mid_admit = NoRequest /\ admission_queue # <<>>
        /\ ActiveCount >= BMax /\ ActiveCount > 1
        /\ \E r \in Parkable : sched' = Core!Park(sched, r) /\ ParkRow(r)
     \/ UNCHANGED <<sched, parked_active_kv>>
  /\ pc' = IF in_flight_mid_admit = NoRequest THEN "drain" ELSE "tail"
  /\ UNCHANGED <<event_txs, admission_queue, midVars, steps_due, fresh_limit, cmds,
                 reply, last_event, faults>>

\* One turn of drain_admission_queue.
Drain ==
  LET r == Head(admission_queue)
      idle == \/ sched.phase # "Decoding" \/ sched.rows = {}
              \/ ActiveCount >= BMax \/ admission_queue = <<>>
  IN  /\ pc = "drain"
      /\ IF idle \/ (~Gone(r) /\ ~CanStartRolling(r, ActiveCount))
         THEN pc' = "tail" /\ UNCHANGED <<sched, event_txs, admission_queue, midVars, reply>>
         ELSE /\ admission_queue' = Tail(admission_queue)
              /\ IF Gone(r) THEN UNCHANGED <<pc, sched, event_txs, midVars, reply>>
                 ELSE BeginMidAdmit(sched, r, "drain")
      /\ UNCHANGED <<parked_active_kv, steps_due, fresh_limit, cmds, last_event, faults>>

LoopTail ==
  /\ pc = "tail"
  /\ pc' = IF sched.rows = {} THEN "handoff" ELSE "rolling"
  /\ UNCHANGED <<ownVars, steps_due, fresh_limit, cmds, reply, last_event, faults>>

-----------------------------------------------------------------------------
(* drive_empty_scheduler_handoff                                           *)

Handoff ==
  /\ Goto("handoff", "restore")
  /\ sched' = IF sched.phase = "Finished" THEN Core!EvictAll(sched) ELSE sched
  /\ event_txs' = IF sched.phase = "Finished" THEN event_txs \ sched.rows ELSE event_txs
  /\ UNCHANGED <<admission_queue, midVars, parked_active_kv, steps_due, fresh_limit, cmds,
                 reply, last_event, faults>>

\* One turn of try_restore_one_active_kv_request: a payload that cannot be
\* loaded, or no longer fits the budget, is dropped with its stream.
Restore ==
  LET r == Head(parked_active_kv)
      tries == /\ Offload /\ pressure = "Normal" /\ ActiveCount < BMax
               /\ parked_active_kv # <<>>
  IN  /\ pc = "restore"
      /\ IF tries
         THEN /\ parked_active_kv' = Tail(parked_active_kv)
              /\ \/ /\ ~Gone(r) /\ Core!CanRestore(sched, r)
                    /\ sched' = Core!Restore(sched, r)
                    /\ pc' = "rolling" /\ AdmissionWork
                    /\ UNCHANGED <<event_txs, faults>>
                 \/ /\ IF Gone(r) THEN UNCHANGED faults
                       ELSE faults < MaxFaults /\ faults' = faults + 1
                    /\ event_txs' = event_txs \ {r}
                    /\ UNCHANGED <<pc, sched, steps_due>>
         ELSE /\ IF parked_active_kv # <<>> THEN pc' = "rolling" /\ AdmissionWork
                 ELSE pc' = "queue" /\ UNCHANGED steps_due
              /\ UNCHANGED <<sched, event_txs, parked_active_kv, faults>>
      /\ UNCHANGED <<admission_queue, midVars, fresh_limit, cmds, reply, last_event>>

\* A batch whose rows all left while Decoding is reset before the next one.
ResetDecoding == IF sched.phase = "Decoding" THEN Core!EvictAll(sched) ELSE sched

\* The next batch starts from the head of the queue.  If its admission leaves no
\* row the thread goes back to the rolling loop.
BatchFromQueue ==
  LET r == Head(admission_queue)
  IN  /\ pc = "queue"
      /\ admission_queue # <<>>
      /\ admission_queue' = Tail(admission_queue)
      /\ HandleAdmit(ResetDecoding, r)
      /\ fresh_limit' = BatchLimit[r]
      /\ IF sched'.rows = {} THEN pc' = "rolling" /\ AdmissionWork
         ELSE /\ pc' = IF Core!ActiveCount(sched') < fresh_limit' THEN "queue_drain"
                       ELSE "queue_prefill"
              /\ UNCHANGED steps_due
      /\ UNCHANGED <<midVars, parked_active_kv, cmds, last_event, faults>>

\* Queued requests join the batch head by head, as long as each one fits.
BatchMoreFromQueue ==
  LET r == Head(admission_queue)
  IN  /\ pc = "queue_drain"
      /\ IF /\ admission_queue # <<>>
            /\ ActiveCount < fresh_limit /\ ActiveCount < BatchLimit[r]
         THEN /\ admission_queue' = Tail(admission_queue)
              /\ HandleAdmit(sched, r)
              /\ UNCHANGED pc
         ELSE /\ pc' = IF ActiveCount < fresh_limit THEN "queue_window" ELSE "queue_prefill"
              /\ UNCHANGED <<sched, event_txs, admission_queue, reply>>
      /\ UNCHANGED <<midVars, parked_active_kv, steps_due, fresh_limit, cmds, last_event, faults>>

\* With an empty queue the next batch starts from a waiting command, if any.
BatchFromCommand ==
  /\ pc = "queue"
  /\ admission_queue = <<>> /\ cmds # <<>>
  /\ cmds' = Tail(cmds)
  /\ HandleAdmit(ResetDecoding, Head(cmds))
  /\ fresh_limit' = BatchLimit[Head(cmds)]
  /\ pc' = IF sched'.rows = {} THEN "break"
           ELSE IF Core!ActiveCount(sched') < fresh_limit' THEN "next_window"
           ELSE "next_prefill"
  /\ UNCHANGED <<admission_queue, midVars, parked_active_kv, steps_due, last_event, faults>>

NoNextBatch ==
  /\ pc = "queue"
  /\ admission_queue = <<>> /\ cmds = <<>>
  /\ IF open THEN pc' = "break" /\ UNCHANGED event_txs
             ELSE pc' = "stopped" /\ event_txs' = {}
  /\ UNCHANGED <<sched, admission_queue, midVars, parked_active_kv, steps_due, fresh_limit,
                 cmds, reply, last_event, faults>>

\* Leaving the rolling loop resets everything the batch owned.
BreakRolling ==
  /\ pc = "break"
  /\ DropBatch(sched)
  /\ UNCHANGED <<admission_queue, steps_due, fresh_limit, cmds, reply, last_event, faults>>

-----------------------------------------------------------------------------
(* The clients, the governor and the engine                                *)

\* The channel is bounded: a sender waits for room.
Submit(r) ==
  /\ client[r] = "new" /\ open
  /\ Len(cmds) < ChannelCap
  /\ client' = [client EXCEPT ![r] = "waiting"]
  /\ cmds' = Append(cmds, r)
  /\ UNCHANGED <<pc, ownVars, steps_due, fresh_limit, reply, last_event, faults, open, pressure>>

\* Dropping the response drops both the reply and the event receiver.
HangUp(r) ==
  /\ r \in HangUps
  /\ client[r] = "waiting" /\ reply[r] # "err"
  /\ reply[r] = "ok" => r \in event_txs
  /\ client' = [client EXCEPT ![r] = "gone"]
  /\ UNCHANGED <<pc, ownVars, steps_due, fresh_limit, cmds, reply, last_event, faults,
                 open, pressure>>

PressureChange ==
  /\ PressureVaries
  /\ pressure' = IF pressure = "Normal" THEN "Hard" ELSE "Normal"
  /\ UNCHANGED <<pc, ownVars, steps_due, fresh_limit, cmds, reply, last_event, faults,
                 open, client>>

Close ==
  /\ MayClose /\ open
  /\ open' = FALSE
  /\ UNCHANGED <<pc, ownVars, steps_due, fresh_limit, cmds, reply, last_event, faults,
                 client, pressure>>

DriverStep ==
  \/ Top \/ FirstAdmit \/ OuterClosed \/ AdmissionWindow \/ WindowDeadline
  \/ Sweep \/ Prefill \/ PrefillFails
  \/ Cancel \/ Press \/ Step \/ StepFails
  \/ AdmitDirect \/ AdmitByParking \/ AdmitQueued
  \/ PicksAdvance \/ AdvanceMidAdmit \/ AdvanceFails \/ Shutdown
  \/ ParkForQueue \/ Drain \/ LoopTail
  \/ Handoff \/ Restore \/ BatchFromQueue \/ BatchMoreFromQueue
  \/ BatchFromCommand \/ NoNextBatch \/ BreakRolling

Driver == DriverStep /\ UNCHANGED envVars

Environment ==
  \/ \E r \in Requests : Submit(r) \/ HangUp(r)
  \/ PressureChange
  \/ Close

Next == Driver \/ Environment

Spec == Init /\ [][Next]_vars

\* The driver is a thread of its own that nothing but its next receive blocks.
FairSpec == Spec /\ WF_vars(Driver)

-----------------------------------------------------------------------------
(* Properties                                                              *)

TypeOK ==
  /\ pc \in Points
  /\ sched \in [ phase : Core!Phases, poisoned : BOOLEAN, rows : SUBSET Requests,
                 tok : [Requests -> Nat], done : SUBSET Requests,
                 charged : SUBSET Requests, reserved : SUBSET Requests ]
  /\ event_txs \subseteq Requests
  /\ admission_queue \in Seq(Requests) /\ Len(admission_queue) <= QueueMax
  /\ in_flight_mid_admit \in Requests \union {NoRequest}
  /\ chunks_left \in Nat
  /\ parked_active_kv \in Seq(Requests)
  /\ steps_due \in 0..DecodeBurst
  /\ fresh_limit \in 1..BMax
  /\ cmds \in Seq(Requests) /\ Len(cmds) <= ChannelCap
  /\ open \in BOOLEAN
  /\ client \in [Requests -> {"new", "waiting", "gone"}]
  /\ reply \in [Requests -> {"none", "ok", "err"}]
  /\ last_event \subseteq Requests
  /\ pressure \in {"Normal", "Hard"}
  /\ faults \in 0..MaxFaults

\* Every open stream has a request behind it and every request a stream: rows
\* and parked requests are disjoint and are together the registered channels.
StreamsOwned ==
  /\ pc # "stopped" => event_txs = sched.rows \union Range(parked_active_kv)
  /\ sched.rows \cap Range(parked_active_kv) = {}

\* In a decoding batch the one row without a token is the mid-admit in flight:
\* whatever cancels, fails, parks or resets the batch forgets the handle exactly
\* when it frees the row, so no handle survives its row and no reserved row is
\* left that nobody will ever prefill.
MidAdmitOwnsSlot ==
  LET tokenless == {r \in sched.rows : sched.tok[r] = 0}
      inFlight  == {in_flight_mid_admit} \ {NoRequest}
  IN  /\ inFlight \subseteq tokenless
      /\ sched.phase = "Decoding" => tokenless = inFlight

\* A request without an answer is waiting in exactly one place, once.
NoLostRequest ==
  LET line == cmds \o admission_queue
  IN  \A r \in Requests :
        client[r] = "waiting" /\ reply[r] = "none" =>
          \E k \in DOMAIN line : {i \in DOMAIN line : line[i] = r} = {k}

\* Before it blocks for a new batch the driver owns nothing of the last one.
IdleOwnsNothing ==
  pc = "outer" =>
    /\ sched.phase = "Idle" /\ sched.rows = {}
    /\ sched.reserved = {} /\ sched.charged \subseteq SessionFaults
    /\ event_txs = {} /\ parked_active_kv = <<>>
    /\ in_flight_mid_admit = NoRequest

\* The ledgers of the scheduler stay exact under the calls this driver makes,
\* several of which change the scheduler in one stretch of code.
CoreInvariants ==
  /\ Core!BudgetFollowsRows
  /\ Core!ReservedUntilFirstToken
  /\ Core!PhaseDescribesRows
  /\ Core!TokensWithinLimit

\* What the client of r has seen.  A client that has its final event has no
\* stream to lose, whatever happens to the row.
ClientSees(r) ==
  IF client[r] = "new" THEN "new"
  ELSE IF reply[r] = "none" THEN "waiting"
  ELSE IF reply[r] = "err" THEN "refused"
  ELSE IF r \in last_event THEN "ended"
  ELSE IF r \in event_txs THEN "streaming"
  ELSE "cut"

\* The driver implements the service its callers rely on.
Service == INSTANCE RequestService WITH
  state  <- [r \in Requests |-> ClientSees(r)],
  left   <- {r \in Requests : Gone(r)},
  broken <- faults > 0 \/ ~open

ImplementsService == Service!Spec

\* Every request is answered, and every stream that was opened is closed.  The
\* exception is a request stranded in the queue of an idle driver (see
\* IdleQueueEmpty), which takes a client that left or a failure of the model.
Stranded(r) ==
  /\ pc = "outer" /\ r \in Range(admission_queue)
  /\ faults > 0 \/ \E q \in Requests : Gone(q)

EveryRequestAnswered ==
  \A r \in Requests : client[r] = "waiting" ~> reply[r] # "none" \/ Gone(r) \/ Stranded(r)

\* An admitted request does not keep its stream open for ever: it is decoded to
\* its end, restored if it was parked, or dropped with a failed batch.
EveryStreamEnds == \A r \in Requests : reply[r] = "ok" ~> r \notin event_txs

-----------------------------------------------------------------------------
(* Statements of the source's comments that the code does not keep.        *)

\* "the admission queue is invariantly empty here" (the outer idle receive): a
\* sweep that cancels the whole batch, or a failed prefill in the try_recv
\* branch, comes back with the queue as it was.
IdleQueueEmpty == pc = "outer" => admission_queue = <<>>

\* "Call evict_all to recover" (ensure_not_poisoned): a queued request that is
\* refused when its batch starts sends the driver to a decode step in Idle; the
\* step poisons the scheduler and evict_all refuses an Idle one.
PoisonRecoverable == sched.poisoned => ~Core!EvictAll(sched).poisoned
=============================================================================
