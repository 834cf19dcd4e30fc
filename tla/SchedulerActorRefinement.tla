---------------------- MODULE SchedulerActorRefinement ----------------------
(***************************************************************************)
(* The driver of SchedulerActor implements RequestService, when the memory *)
(* pressure stays Normal or no request is ever parked.  Calm is the        *)
(* invariant this needs beside IInv: the loop never makes a decode step in *)
(* Idle with requests parked, a step that fails and drops their streams.   *)
(***************************************************************************)
EXTENDS SchedulerActorProofs

\* The rolling loop is between two decode steps.
RollingPoints == {"rolling", "press", "event", "advance", "park", "drain", "tail"}

\* Either the pressure stays Normal or nothing is ever parked.
Steady == ~PressureVaries \/ ~Offload

\* The rolling loop never steps an Idle scheduler over parked requests.
Calm ==
  /\ ~Offload => parked_active_kv = <<>>
  /\ ~PressureVaries => pressure = "Normal"
  /\ pc \in RollingPoints /\ sched.phase = "Idle" => parked_active_kv = <<>>

\* Nothing is parked at the start.
LEMMA CalmAtStart == Init => Calm
BY DEF Init, Calm, RollingPoints

\* What parks a row has offload, and leaves the batch decoding.
LEMMA ParkedCalm ==
  ASSUME IInv, NEW r \in Parkable
  PROVE  Offload /\ Core!Park(sched, r).phase = "Decoding"
<1>1. Offload /\ sched.phase = "Decoding"
  BY DEF Parkable
<1>2. Core!Park(sched, r).phase = sched.phase
  BY RollingBatch, SoundFacts DEF Core!Park, Owns
<1> QED
  BY <1>1, <1>2

\* begin_mid_admit does not leave an Idle scheduler that was not Idle.
LEMMA BeginMidAdmitCalm ==
  ASSUME NEW s, NEW p, Owns(s, p, AcceptedBy(reply)), NEW r \in Requests, reply[r] = "none",
         NEW refused, BeginMidAdmit(s, r, refused), s.phase # "Admitting"
  PROVE  /\ sched'.phase = "Idle" => s.phase = "Idle"
         /\ pc' \in {"advance", refused}
<1>0. r \notin AcceptedBy(reply)
  BY DEF AcceptedBy
<1>1. pc' \in {"advance", refused}
  BY DEF BeginMidAdmit
<1>2. sched'.phase = "Idle" => s.phase = "Idle"
  <2>1. CASE s.phase = "Decoding" /\ sched' = Core!Admit(s, r)
    BY <2>1, AdmitFields DEF Owns
  <2>2. CASE sched' = s
    BY <2>2
  <2>3. CASE sched' = Core!AdmitSessionFails(s, r)
    BY <2>3, SessionFailureFields DEF Owns
  <2>4. CASE /\ Core!CanAdmit(s) /\ r \notin SessionFaults
             /\ sched' = Core!Evict(Core!Admit(s, r), {r})
    BY <1>0, <2>4, AdmitEvict
  <2> QED
    BY <2>1, <2>2, <2>3, <2>4 DEF BeginMidAdmit, MayAdmit
<1> QED
  BY <1>1, <1>2

\* Cancelling, and giving up a mid-admit, end a batch but do not make it Idle.
LEMMA EvictCalm ==
  ASSUME NEW s, P!Sound(s), s.phase # "Admitting", NEW R
  PROVE  Core!Evict(s, R).phase = "Idle" => s.phase = "Idle"
<1>1. PICK t : t = Core!Evict(s, R)
  OBVIOUS
<1>2. t.phase = IF R = {} \/ s.rows \ R # {} THEN s.phase
                ELSE IF s.phase = "Admitting" THEN "Idle"
                ELSE IF s.phase = "Decoding" THEN "Finished"
                ELSE s.phase
  BY <1>1, EvictFields
<1> QED
  BY <1>1, <1>2

\* Pruning an empty list leaves it empty.
LEMMA LiveOfEmpty == Live(<<>>) = <<>>
<1>1. Live(<<>>) \in Seq(Requests) /\ Range(Live(<<>>)) = {}
  BY EmptyOf, LiveOf
<1> QED
  BY <1>1, SeqOf

\* Nothing parked, then and now.
LEMMA NothingParkedCalm ==
  ASSUME Calm, parked_active_kv' = <<>>, UNCHANGED pressure
  PROVE  Calm'
BY DEF Calm

\* The same parked requests, and an Idle scheduler only if it was one.
LEMMA SameParkedCalm ==
  ASSUME Calm, UNCHANGED pressure, parked_active_kv' = parked_active_kv,
         \/ pc' \notin RollingPoints
         \/ pc \in RollingPoints /\ (sched'.phase = "Idle" => sched.phase = "Idle")
         \/ sched'.phase # "Idle"
  PROVE  Calm'
BY DEF Calm

\* Every step of the driver keeps Calm.  Only Restore resumes the loop over parked
\* requests, and with Normal pressure only with a row.
LEMMA CalmKept ==
  ASSUME Steady, IInv, Calm, DriverStep, UNCHANGED envVars
  PROVE  Calm'
<1>0. /\ UNCHANGED pressure
      /\ Owns(sched, Range(parked_active_kv), AcceptedBy(reply)) /\ P!Sound(sched)
      /\ pc \in RollingPoints => sched.phase # "Admitting"
      /\ pc \in Assembling => parked_active_kv = <<>>
  BY RollingBatch, FreshBatch DEF Owns, envVars, RollingPoints, Assembling, Windows, Prefills
<1> USE DEF Goto, midVars, ownVars
<1>1. CASE Top \/ FirstAdmit \/ AdmissionWindow \/ WindowDeadline \/ Sweep \/ Prefill \/ BatchMoreFromQueue
  <2>1. pc \in Assembling
    BY <1>1 DEF Top, FirstAdmit, AdmissionWindow, WindowDeadline, Sweep, Prefill,
       BatchMoreFromQueue, Assembling, Windows, Prefills
  <2>2. parked_active_kv' = parked_active_kv
    BY <1>1 DEF Top, FirstAdmit, AdmissionWindow, WindowDeadline, Sweep, Prefill, BatchMoreFromQueue
  <2> QED
    BY <1>0, <2>1, <2>2, NothingParkedCalm
<1>2. CASE OuterClosed \/ PrefillFails \/ StepFails \/ Shutdown \/ BreakRolling
  <2>1. parked_active_kv' = <<>>
    BY <1>2 DEF OuterClosed, PrefillFails, StepFails, Shutdown, BreakRolling, DropBatch
  <2> QED
    BY <1>0, <2>1, NothingParkedCalm
<1>3. CASE BatchFromQueue \/ BatchFromCommand \/ NoNextBatch
  <2>1. pc = "queue" /\ parked_active_kv' = parked_active_kv
    BY <1>3 DEF BatchFromQueue, BatchFromCommand, NoNextBatch
  <2> QED
    BY <1>0, <2>1, QueueBatch, NothingParkedCalm
<1>4. CASE Cancel
  <2>1. /\ sched' = Core!Evict(sched, {r \in sched.rows : Gone(r)})
        /\ parked_active_kv' = Live(parked_active_kv) /\ pc = "rolling"
    BY <1>4 DEF Cancel
  <2>2. sched'.phase = "Idle" => sched.phase = "Idle"
    BY <1>0, <2>1, EvictCalm DEF RollingPoints
  <2> QED
    BY <1>0, <2>1, <2>2, LiveOfEmpty DEF Calm, RollingPoints
<1>5. ASSUME NEW r \in Parkable, sched' = Core!Park(sched, r), ParkRow(r)
      PROVE  Calm'
  BY <1>0, <1>5, ParkedCalm DEF Calm
<1>6. CASE Press
  BY <1>0, <1>5, <1>6, SameParkedCalm DEF Press, RollingPoints
<1>7. CASE Step
  <2>1. Core!CanStep(sched) /\ parked_active_kv' = parked_active_kv
    BY <1>7 DEF Step
  <2>2. PICK eos \in SUBSET Core!Decodable(sched) :
          sched' = Core!GcFinishedRows(Core!Step(sched, eos))
    BY <1>7 DEF Step
  <2>3. PICK t : t = Core!Step(sched, eos)
    OBVIOUS
  <2>4. sched'.phase \in {"Decoding", "Finished"}
    BY <1>0, <2>1, <2>2, <2>3, StepOwns
  <2> QED
    BY <1>0, <2>1, <2>4, SameParkedCalm
<1>8. CASE AdmitDirect
  <2>1. /\ parked_active_kv' = parked_active_kv /\ BeginMidAdmit(sched, Head(cmds), "tail")
        /\ pc = "event" /\ cmds # <<>>
    BY <1>8 DEF AdmitDirect, PicksAdmit
  <2>2. sched'.phase = "Idle" => sched.phase = "Idle"
    BY <1>0, <2>1, HeadUnanswered, BeginMidAdmitCalm DEF RollingPoints
  <2> QED
    BY <1>0, <2>1, <2>2, SameParkedCalm DEF RollingPoints
<1>9. CASE AdmitByParking
  <2>1. /\ pc = "event" /\ cmds # <<>> /\ in_flight_mid_admit = NoRequest
    BY <1>9 DEF AdmitByParking, PicksAdmit
  <2>2. PICK r \in Parkable : ParkRow(r) /\ BeginMidAdmit(Core!Park(sched, r), Head(cmds), "tail")
    BY <1>9 DEF AdmitByParking
  <2>3. PICK s : s = Core!Park(sched, r)
    OBVIOUS
  <2>4. PICK p : p = Append(parked_active_kv, r)
    OBVIOUS
  <2>5. Owns(s, Range(p), AcceptedBy(reply)) /\ s.phase = "Decoding"
    BY <2>1, <2>3, <2>4, ParkKeeps DEF Assembling, Windows, Prefills
  <2>6. sched'.phase # "Idle"
    BY <2>1, <2>2, <2>3, <2>5, HeadUnanswered, BeginMidAdmitCalm
  <2> QED
    BY <1>0, <2>2, <2>6, ParkedCalm DEF Calm
<1>10. CASE AdmitQueued \/ PicksAdvance \/ LoopTail
  <2>1. pc \in RollingPoints /\ sched' = sched /\ parked_active_kv' = parked_active_kv
    BY <1>10 DEF AdmitQueued, PicksAdvance, LoopTail, PicksAdmit, RollingPoints
  <2> QED
    BY <1>0, <2>1, SameParkedCalm
<1>11. CASE AdvanceMidAdmit
  <2>1. pc = "advance" /\ parked_active_kv' = parked_active_kv
    BY <1>11 DEF AdvanceMidAdmit
  <2>2. PICK r : r = in_flight_mid_admit
    OBVIOUS
  <2>3. sched' = sched \/ \E eos : sched' = Core!FinalizeMid(sched, r, eos)
    BY <1>11, <2>2 DEF AdvanceMidAdmit
  <2>4. \A eos : Core!FinalizeMid(sched, r, eos).phase = sched.phase
    BY <1>0, SoundFacts DEF Core!FinalizeMid, Core!PushTokens
  <2> QED
    BY <1>0, <2>1, <2>3, <2>4, SameParkedCalm DEF RollingPoints
<1>12. CASE AdvanceFails
  <2>1. /\ pc = "advance" /\ parked_active_kv' = parked_active_kv
        /\ sched' = Core!Evict(sched, {in_flight_mid_admit})
    BY <1>12 DEF AdvanceFails
  <2>2. sched'.phase = "Idle" => sched.phase = "Idle"
    BY <1>0, <2>1, EvictCalm DEF RollingPoints
  <2> QED
    BY <1>0, <2>1, <2>2, SameParkedCalm DEF RollingPoints
<1>13. CASE ParkForQueue
  BY <1>0, <1>5, <1>13, SameParkedCalm DEF ParkForQueue, RollingPoints
<1>14. CASE Drain
  <2>1. pc = "drain" /\ parked_active_kv' = parked_active_kv
    BY <1>14 DEF Drain
  <2>2. \/ sched' = sched
        \/ admission_queue # <<>> /\ BeginMidAdmit(sched, Head(admission_queue), "drain")
    BY <1>14 DEF Drain
  <2>3. sched'.phase = "Idle" => sched.phase = "Idle"
    BY <1>0, <2>1, <2>2, HeadUnanswered, BeginMidAdmitCalm DEF RollingPoints
  <2> QED
    BY <1>0, <2>1, <2>3, SameParkedCalm DEF RollingPoints
<1>15. CASE Handoff
  BY <1>0, <1>15, SameParkedCalm DEF Handoff, RollingPoints
<1>16. CASE Restore
  <2>0. sched.rows = {} /\ pc = "restore" /\ parked_active_kv \in Seq(Requests)
    BY <1>16 DEF Restore, IInv, Kept, Place, Batch
  <2>1. ActiveCount < BMax
    BY <2>0, SameCounting, FS_EmptySet, BatchOK DEF ActiveCount, Core!ActiveCount
  <2>2. CASE Offload /\ pressure = "Normal" /\ parked_active_kv # <<>>
    <3>1. \/ sched' = Core!Restore(sched, Head(parked_active_kv))
          \/ pc' = "restore"
      BY <1>16, <2>0, <2>1, <2>2 DEF Restore
    <3>2. sched.phase # "Admitting" /\ Core!Restore(sched, Head(parked_active_kv)).phase # "Idle"
      BY <1>0, <2>0, SoundFacts DEF Core!Restore, IInv, Kept, Place, Assembling, Windows, Prefills
    <3> QED
      BY <1>0, <2>2, <3>1, <3>2 DEF Calm, RollingPoints
  <2>3. CASE ~(Offload /\ pressure = "Normal" /\ parked_active_kv # <<>>)
    <3>1. /\ parked_active_kv' = parked_active_kv
          /\ parked_active_kv = <<>> => pc' = "queue"
      BY <1>16, <2>3 DEF Restore
    <3>2. parked_active_kv = <<>>
      BY <2>3, SwitchesAreBoolean DEF Calm, Steady
    <3> QED
      BY <1>0, <3>1, <3>2, NothingParkedCalm
  <2> QED
    BY <2>2, <2>3
<1> QED
  BY <1>1, <1>2, <1>3, <1>4, <1>6, <1>7, <1>8, <1>9, <1>10, <1>11, <1>12, <1>13, <1>14, <1>15, <1>16
     DEF DriverStep

-----------------------------------------------------------------------------
(* A step of the service                                                   *)

\* What a step of the driver does to the replies and the streams: answers are
\* given once and to waiting clients, a stream is registered with its answer and
\* no stream is dropped before its final event but for a client that left, a
\* failure of the model or a closed channel.
Serves ==
  /\ \A r \in Requests :
       /\ reply'[r] # reply[r] => reply[r] = "none" /\ client[r] # "new"
       /\ reply[r] = "none" /\ reply'[r] = "ok" => r \in event_txs'
       /\ r \in event_txs' \ event_txs => reply[r] = "none"
       /\ r \in event_txs \ event_txs' =>
            r \in last_event' \/ Gone(r) \/ faults' > 0 \/ ~open
  /\ last_event \subseteq last_event' /\ last_event' \subseteq last_event \union event_txs
  /\ faults' >= faults

\* Streams and final events belong to accepted requests.
LEMMA StreamsAccepted ==
  ASSUME IInv
  PROVE  /\ event_txs \subseteq AcceptedBy(reply) /\ last_event \subseteq AcceptedBy(reply)
         /\ reply \in Replies /\ Scalars
         /\ \A r \in Requests : client[r] = "new" => reply[r] = "none"
<1>1. event_txs \subseteq sched.rows \union Range(parked_active_kv)
  BY DEF IInv, Kept, Place, Streams
<1>2. sched.rows \union Range(parked_active_kv) \subseteq AcceptedBy(reply)
  BY RollingBatch DEF Owns, P!Accounted
<1> QED
  BY <1>1, <1>2, RollingBatch DEF IInv, InLine

\* A step of the driver is a step of the service.
LEMMA DriverStepServes ==
  ASSUME IInv, IInv', Serves, UNCHANGED envVars
  PROVE  Service!Next
<1>0. /\ event_txs \subseteq AcceptedBy(reply) /\ last_event \subseteq AcceptedBy(reply)
      /\ reply \in Replies /\ reply' \in Replies /\ Scalars /\ Scalars'
      /\ event_txs' \subseteq AcceptedBy(reply') /\ last_event' \subseteq AcceptedBy(reply')
      /\ \A r \in Requests : client[r] = "new" => reply[r] = "none"
  BY StreamsAccepted DEF IInv, Kept, InLine, Batch, Place, Streams, Owns, P!Accounted
<1>1. ASSUME NEW r \in Requests
      PROVE  \/ ClientSees(r)' = ClientSees(r)
             \/ ClientSees(r) = "waiting" /\ ClientSees(r)' \in {"refused", "streaming"}
             \/ ClientSees(r) = "streaming" /\ ClientSees(r)' = "ended"
             \/ /\ ClientSees(r) = "streaming" /\ ClientSees(r)' = "cut"
                /\ Gone(r)' \/ (faults > 0 \/ ~open)'
  <2>1. client' = client /\ open' = open
    BY DEF envVars
  <2>2. CASE client[r] = "new"
    BY <2>1, <2>2 DEF ClientSees
  <2>3. CASE client[r] # "new" /\ reply[r] = "none"
    <3>1. r \notin last_event' /\ ClientSees(r) = "waiting"
      BY <1>0, <2>3 DEF Serves, AcceptedBy, ClientSees
    <3> QED
      BY <1>0, <2>1, <2>3, <3>1 DEF Serves, ClientSees, Replies
  <2>4. CASE client[r] # "new" /\ reply[r] = "err"
    BY <2>1, <2>4 DEF Serves, ClientSees
  <2>5. CASE client[r] # "new" /\ reply[r] = "ok"
    <3>1. reply'[r] = "ok" /\ client'[r] # "new"
      BY <2>1, <2>5 DEF Serves
    <3>2. CASE r \in last_event
      BY <2>5, <3>1, <3>2 DEF Serves, ClientSees
    <3>3. CASE r \notin last_event /\ r \in event_txs
      BY <2>1, <2>5, <3>1, <3>3 DEF Serves, ClientSees, Gone
    <3>4. CASE r \notin last_event /\ r \notin event_txs
      BY <2>5, <3>1, <3>4 DEF Serves, ClientSees
    <3> QED
      BY <3>2, <3>3, <3>4
  <2> QED
    BY <1>0, <2>2, <2>3, <2>4, <2>5 DEF Replies
<1>2. \A r \in Requests : Gone(r)' <=> Gone(r)
  BY DEF envVars, Gone
<1>3. (faults > 0 \/ ~open) => (faults' > 0 \/ ~open')
  BY <1>0, BoundsAreNat DEF Serves, envVars, Scalars
<1> HIDE DEF ClientSees, Gone
<1> QED
  BY <1>1, <1>2, <1>3 DEF Service!Next, Service!Moves, Service!Edges, Service!MayCut

\* So is a step of a client, of the governor or of the engine.
LEMMA EnvironmentServes ==
  ASSUME IInv, Environment
  PROVE  Service!Next
<1>0. /\ reply' = reply /\ event_txs' = event_txs /\ last_event' = last_event /\ faults' = faults
  BY DEF Environment, Submit, HangUp, PressureChange, Close, ownVars
<1>1. /\ client \in [Requests -> {"new", "waiting", "gone"}]
      /\ \A r \in Requests : client[r] = "new" => reply[r] = "none"
  BY StreamsAccepted DEF Scalars
<1>2. /\ \A r \in Requests : \/ client'[r] = client[r]
                             \/ client[r] = "new" /\ client'[r] = "waiting"
                             \/ client[r] = "waiting" /\ client'[r] = "gone"
      /\ open \/ ~open'
  BY <1>1 DEF Environment, Submit, HangUp, PressureChange, Close
<1>3. \A r \in Requests :
        \/ ClientSees(r)' = ClientSees(r)
        \/ ClientSees(r) = "new" /\ ClientSees(r)' = "waiting"
  BY <1>0, <1>1, <1>2 DEF ClientSees
<1>4. \A r \in Requests : Gone(r) => Gone(r)'
  BY <1>2 DEF Gone
<1> HIDE DEF ClientSees, Gone
<1> QED
  BY <1>0, <1>2, <1>3, <1>4 DEF Service!Next, Service!Moves, Service!Edges, Service!MayCut

\* No client has seen anything at the start.
LEMMA ServiceStarts == Init => Service!Init
<1> SUFFICES ASSUME Init PROVE Service!Init
  OBVIOUS
<1>1. \A r \in Requests : ClientSees(r) = "new" /\ ~Gone(r)
  BY DEF Init, ClientSees, Gone
<1>2. ~(faults > 0 \/ ~open)
  BY DEF Init
<1> HIDE DEF ClientSees, Gone
<1> QED
  BY <1>1, <1>2 DEF Service!Init

-----------------------------------------------------------------------------
(* Every action serves                                                     *)

\* A request whose answer is due: it is in the line.
LEMMA InLineWaits ==
  ASSUME IInv
  PROVE  /\ cmds # <<>> => client[Head(cmds)] # "new"
         /\ admission_queue # <<>> => client[Head(admission_queue)] # "new"
BY TailOf DEF IInv, Kept, InLine

\* Answering one request.
LEMMA AnswerServes ==
  ASSUME IInv, NEW r \in Requests, reply[r] = "none", client[r] # "new", Answers(r),
         UNCHANGED <<last_event, faults>>
  PROVE  Serves
BY StreamsAccepted DEF Serves, Answers, Scalars

\* handle_admit answers its request alone.
LEMMA HandleAdmitAnswers ==
  ASSUME NEW s, NEW r \in Requests, reply \in Replies, reply[r] = "none", HandleAdmit(s, r)
  PROVE  Answers(r)
BY AnswersTyped DEF HandleAdmit, Gone

\* begin_mid_admit answers its request alone.
LEMMA BeginMidAdmitAnswers ==
  ASSUME NEW s, NEW r \in Requests, NEW refused, reply \in Replies, reply[r] = "none",
         BeginMidAdmit(s, r, refused)
  PROVE  Answers(r)
BY AnswersTyped DEF BeginMidAdmit, Gone

\* Nothing answered, no stream touched.
LEMMA QuietServes ==
  ASSUME IInv, UNCHANGED <<reply, last_event, faults, event_txs>>
  PROVE  Serves
BY StreamsAccepted DEF Serves, Scalars

\* Errors for requests in the line, streams as they were.
LEMMA RefusalServes ==
  ASSUME IInv, UNCHANGED <<last_event, faults, event_txs>>,
         \A r \in Requests : reply'[r] # reply[r] =>
           reply'[r] = "err" /\ reply[r] = "none" /\ client[r] # "new"
  PROVE  Serves
BY StreamsAccepted DEF Serves, Scalars

\* Dropping every stream with the queue rejected.
LEMMA DropServes ==
  ASSUME IInv, event_txs' = {}, UNCHANGED last_event, faults' >= faults,
         UNCHANGED reply \/ RejectQueue,
         event_txs \subseteq {} \/ faults' > 0 \/ ~open
  PROVE  Serves
<1>1. \A r \in Requests : reply'[r] # reply[r] =>
        reply'[r] = "err" /\ reply[r] = "none" /\ client[r] # "new"
  BY DEF RejectQueue, Reject, IInv, Kept, InLine
<1> QED
  BY <1>1 DEF Serves

\* enqueue_or_reject refuses at most the command at hand.
LEMMA EnqueueServes ==
  ASSUME IInv, cmds # <<>>, EnqueueOrReject(Head(cmds)), UNCHANGED <<last_event, faults, event_txs>>
  PROVE  Serves
<1>1. /\ Head(cmds) \in Requests /\ reply[Head(cmds)] = "none" /\ reply \in Replies
      /\ client[Head(cmds)] # "new"
  BY HeadUnanswered, InLineWaits
<1>2. reply' = reply \/ reply' = [reply EXCEPT ![Head(cmds)] = "err"]
  BY DEF EnqueueOrReject
<1>3. \A r \in Requests : reply'[r] # reply[r] =>
        reply'[r] = "err" /\ reply[r] = "none" /\ client[r] # "new"
  BY <1>1, <1>2 DEF Replies
<1> QED
  BY <1>3, RefusalServes

\* Every action of the driver serves.
LEMMA ActionServes ==
  ASSUME Steady, IInv, Calm, DriverStep, UNCHANGED envVars
  PROVE  Serves
<1>0. /\ faults \in Nat /\ MaxFaults \in Nat
      /\ cmds # <<>> => /\ Head(cmds) \in Requests /\ reply[Head(cmds)] = "none"
                        /\ client[Head(cmds)] # "new"
      /\ admission_queue # <<>> => /\ Head(admission_queue) \in Requests
                                   /\ reply[Head(admission_queue)] = "none"
                                   /\ client[Head(admission_queue)] # "new"
      /\ reply \in Replies
  BY StreamsAccepted, HeadUnanswered, InLineWaits, BoundsAreNat DEF Scalars
<1>a. /\ Owns(sched, Range(parked_active_kv), AcceptedBy(reply)) /\ P!Sound(sched)
      /\ sched.done \subseteq last_event
      /\ pc # "stopped" => event_txs = sched.rows \union Range(parked_active_kv)
  BY RollingBatch DEF Owns
<1> USE DEF Goto, midVars, ownVars
<1>1. CASE Top
  <2>1. sched.phase = "Idle"
    BY <1>1 DEF Top, IInv, Kept, Place
  <2>2. UNCHANGED <<reply, last_event, faults, event_txs>>
    BY <1>1, <2>1 DEF Top
  <2> QED
    BY <2>2, QuietServes
<1>2. CASE WindowDeadline \/ PicksAdvance \/ LoopTail \/ ParkForQueue \/ Press
  BY <1>2, QuietServes DEF WindowDeadline, PicksAdvance, LoopTail, ParkForQueue, Press
<1>3. CASE FirstAdmit \/ BatchFromCommand
  <2>1. PICK s : HandleAdmit(s, Head(cmds))
    BY <1>3 DEF FirstAdmit, BatchFromCommand
  <2>2. cmds # <<>> /\ UNCHANGED <<last_event, faults>>
    BY <1>3 DEF FirstAdmit, BatchFromCommand
  <2> QED
    BY <1>0, <2>1, <2>2, HandleAdmitAnswers, AnswerServes
<1>4. CASE AdmissionWindow
  <2>1. cmds # <<>> /\ UNCHANGED <<last_event, faults>>
    BY <1>4 DEF AdmissionWindow
  <2>2. CASE EnqueueOrReject(Head(cmds)) /\ UNCHANGED event_txs
    BY <2>1, <2>2, EnqueueServes
  <2>3. CASE HandleAdmit(sched, Head(cmds))
    BY <1>0, <2>1, <2>3, HandleAdmitAnswers, AnswerServes
  <2> QED
    BY <1>4, <2>2, <2>3 DEF AdmissionWindow
<1>5. CASE BatchFromQueue
  <2>1. PICK s : HandleAdmit(s, Head(admission_queue))
    BY <1>5 DEF BatchFromQueue
  <2>2. admission_queue # <<>> /\ UNCHANGED <<last_event, faults>>
    BY <1>5 DEF BatchFromQueue
  <2> QED
    BY <1>0, <2>1, <2>2, HandleAdmitAnswers, AnswerServes
<1>6. CASE BatchMoreFromQueue
  <2>1. UNCHANGED <<last_event, faults>>
    BY <1>6 DEF BatchMoreFromQueue
  <2>2. CASE admission_queue # <<>> /\ HandleAdmit(sched, Head(admission_queue))
    BY <1>0, <2>1, <2>2, HandleAdmitAnswers, AnswerServes
  <2>3. CASE UNCHANGED <<event_txs, reply>>
    BY <2>1, <2>3, QuietServes
  <2> QED
    BY <1>6, <2>2, <2>3 DEF BatchMoreFromQueue
<1>7. CASE AdmitDirect \/ AdmitByParking
  <2>1. cmds # <<>> /\ UNCHANGED <<last_event, faults>>
    BY <1>7 DEF AdmitDirect, AdmitByParking, PicksAdmit
  <2>2. PICK s : BeginMidAdmit(s, Head(cmds), "tail")
    BY <1>7 DEF AdmitDirect, AdmitByParking
  <2> QED
    BY <1>0, <2>1, <2>2, BeginMidAdmitAnswers, AnswerServes
<1>8. CASE AdmitQueued
  BY <1>8, EnqueueServes DEF AdmitQueued, PicksAdmit
<1>9. CASE Drain
  <2>1. UNCHANGED <<last_event, faults>>
    BY <1>9 DEF Drain
  <2>2. CASE admission_queue # <<>> /\ BeginMidAdmit(sched, Head(admission_queue), "drain")
    BY <1>0, <2>1, <2>2, BeginMidAdmitAnswers, AnswerServes
  <2>3. CASE UNCHANGED <<event_txs, reply>>
    BY <2>1, <2>3, QuietServes
  <2> QED
    BY <1>9, <2>2, <2>3 DEF Drain
<1>10. CASE Sweep
  <2>1. /\ event_txs' = event_txs \ {r \in sched.rows : Gone(r)}
        /\ UNCHANGED <<reply, last_event, faults>>
    BY <1>10 DEF Sweep
  <2> QED
    BY <1>0, <2>1 DEF Serves
<1>11. CASE Cancel
  <2>1. /\ event_txs' \subseteq event_txs
        /\ \A r \in event_txs \ event_txs' : Gone(r)
        /\ UNCHANGED <<reply, last_event, faults>>
    BY <1>11 DEF Cancel
  <2> QED
    BY <1>0, <2>1 DEF Serves
<1>12. ASSUME NEW t, P!Sound(t), t.rows = sched.rows, Deliver(t), pc # "stopped"
       PROVE  last_event \subseteq last_event' /\ last_event' \subseteq last_event \union event_txs
              /\ t.done \subseteq last_event'
  BY <1>a, <1>12, SoundFacts DEF Deliver
<1>13. CASE Prefill
  <2>1. PICK eos \in SUBSET sched.rows : sched' = Core!Prefill(sched, eos) /\ Deliver(sched')
    BY <1>13 DEF Prefill
  <2>2. Core!CanPrefill(sched) /\ pc # "stopped" /\ UNCHANGED <<event_txs, reply, faults>>
    BY <1>13 DEF Prefill, Prefills
  <2>3. P!Sound(sched') /\ sched'.rows = sched.rows
    BY <1>a, <2>1, <2>2, PrefillOwns DEF Owns
  <2> QED
    BY <1>0, <1>12, <2>1, <2>2, <2>3 DEF Serves
<1>14. CASE Step
  <2>1. PICK eos \in SUBSET Core!Decodable(sched) :
          /\ Deliver(Core!Step(sched, eos))
          /\ event_txs' = event_txs \ Core!Step(sched, eos).done
    BY <1>14 DEF Step
  <2>2. Core!CanStep(sched) /\ pc # "stopped" /\ UNCHANGED <<reply, faults>>
    BY <1>14 DEF Step, PicksStep
  <2>3. PICK t : t = Core!Step(sched, eos)
    OBVIOUS
  <2>4. PICK v : v = Core!GcFinishedRows(t)
    OBVIOUS
  <2>5. t.rows = sched.rows /\ t.done \subseteq sched.rows
    BY <1>a, <2>1, <2>2, <2>3, <2>4, StepOwns
  <2>6. /\ last_event \subseteq last_event' /\ last_event' \subseteq last_event \union event_txs
        /\ t.done \subseteq last_event'
    BY <1>a, <2>1, <2>2, <2>3, <2>5 DEF Deliver
  <2> QED
    BY <1>0, <2>1, <2>2, <2>3, <2>6 DEF Serves
<1>15. CASE AdvanceMidAdmit
  <2>1. UNCHANGED <<event_txs, reply, faults>> /\ pc = "advance"
    BY <1>15 DEF AdvanceMidAdmit
  <2>2. CASE UNCHANGED last_event
    BY <2>1, <2>2, QuietServes
  <2>3. ASSUME NEW r, r = in_flight_mid_admit, NEW eos \in SUBSET {r},
               sched' = Core!FinalizeMid(sched, r, eos), Deliver(sched')
        PROVE  Serves
    <3>1. r \in sched.rows /\ sched.tok[r] = 0 /\ Core!CanStep(sched)
      BY <2>1, <2>3, MidAdmitDecodes
    <3>2. PICK t : t = Core!FinalizeMid(sched, r, eos)
      OBVIOUS
    <3>3. P!Sound(t) /\ t.rows = sched.rows
      BY <1>a, <3>1, <3>2, <2>3, FinalizeMidOwns DEF Owns
    <3> QED
      BY <1>0, <1>12, <2>1, <2>3, <3>2, <3>3 DEF Serves
  <2> QED
    BY <1>15, <2>2, <2>3 DEF AdvanceMidAdmit
<1>16. CASE AdvanceFails
  <2>1. /\ event_txs' \subseteq event_txs /\ faults' = faults + 1
        /\ UNCHANGED <<reply, last_event>>
    BY <1>16 DEF AdvanceFails
  <2> QED
    BY <1>0, <2>1 DEF Serves
<1>17. CASE PrefillFails
  <2>1. /\ event_txs' = {} /\ faults' = faults + 1 /\ UNCHANGED last_event
        /\ UNCHANGED reply \/ RejectQueue
    BY <1>17 DEF PrefillFails, DropBatch
  <2> QED
    BY <1>0, <2>1, DropServes
<1>18. CASE OuterClosed \/ Shutdown
  <2>1. /\ event_txs' = {} /\ faults' = faults /\ UNCHANGED last_event /\ RejectQueue /\ ~open
    BY <1>18 DEF OuterClosed, Shutdown
  <2> QED
    BY <1>0, <2>1, DropServes
<1>19. CASE StepFails
  <2>1. /\ event_txs' = {} /\ UNCHANGED last_event /\ RejectQueue /\ pc = "event"
    BY <1>19 DEF StepFails, DropBatch, PicksStep
  <2>2. CASE Core!CanStep(sched)
    <3>1. faults' = faults + 1
      BY <1>19, <2>2 DEF StepFails
    <3> QED
      BY <1>0, <2>1, <3>1, DropServes
  <2>3. CASE ~Core!CanStep(sched)
    <3>1. sched.phase = "Idle"
      <4>1. sched.phase \notin {"Admitting", "Finished"}
        BY <2>1 DEF IInv, Kept, Place, Assembling, Windows, Prefills
      <4>2. sched.poisoned => sched.phase = "Idle"
        BY <1>a DEF Owns, Recoverable
      <4> QED
        BY <1>a, <2>3, <4>1, <4>2, SoundFacts DEF Core!CanStep
    <3>2. event_txs = {}
      BY <1>a, <2>1, <3>1, SoundFacts, EmptyOf DEF Calm, RollingPoints
    <3>3. faults' = faults
      BY <1>19, <2>3 DEF StepFails
    <3> QED
      BY <1>0, <2>1, <3>2, <3>3, DropServes
  <2> QED
    BY <2>2, <2>3
<1>20. CASE Handoff
  <2>1. /\ UNCHANGED <<reply, last_event, faults>> /\ event_txs' \subseteq event_txs
        /\ event_txs \ event_txs' \subseteq last_event
    BY <1>a, <1>20, SoundFacts DEF Handoff
  <2> QED
    BY <1>0, <2>1 DEF Serves
<1>21. CASE Restore
  <2>1. /\ UNCHANGED <<reply, last_event>> /\ faults' \in {faults, faults + 1}
        /\ event_txs' \subseteq event_txs
        /\ \A r \in event_txs \ event_txs' : Gone(r) \/ faults' = faults + 1
    BY <1>21 DEF Restore
  <2> QED
    BY <1>0, <2>1 DEF Serves
<1>22. CASE NoNextBatch
  <2>1. UNCHANGED <<reply, last_event, faults>>
    BY <1>22 DEF NoNextBatch
  <2>2. CASE open
    BY <1>22, <2>1, <2>2, QuietServes DEF NoNextBatch
  <2>3. CASE ~open
    BY <1>0, <1>22, <2>1, <2>3, DropServes DEF NoNextBatch
  <2> QED
    BY <2>2, <2>3
<1>23. CASE BreakRolling
  <2>1. /\ UNCHANGED <<reply, last_event, faults>> /\ event_txs' = {} /\ pc = "break"
    BY <1>23 DEF BreakRolling, DropBatch
  <2>2. event_txs = {}
    BY <1>a, <2>1, EmptyOf DEF IInv, Kept, Place
  <2> QED
    BY <1>0, <2>1, <2>2, DropServes
<1> QED
  BY <1>1, <1>2, <1>3, <1>4, <1>5, <1>6, <1>7, <1>8, <1>9, <1>10, <1>11, <1>13, <1>14, <1>15,
     <1>16, <1>17, <1>18, <1>19, <1>20, <1>21, <1>22, <1>23
     DEF DriverStep

\* The driver loop implements the service its callers rely on: each request is answered
\* at most once, an accepted one has a stream, and the stream is closed by its final event
\* unless its client left, the model failed or the channel was closed.  Pressure that
\* varies over parked requests is excepted: there the loop cuts streams of its own accord.
THEOREM DriverImplementsService ==
  ASSUME Steady
  PROVE  Spec => ImplementsService
<1>1. Init => IInv /\ Calm
  BY Start, CalmAtStart
<1>2. IInv /\ Calm /\ [Next]_vars => IInv' /\ Calm'
  <2> SUFFICES ASSUME IInv, Calm, [Next]_vars PROVE Calm'
    BY NextKeeps
  <2>2. CASE Driver
    BY <2>2, CalmKept DEF Driver
  <2>3. CASE Environment
    BY <2>3 DEF Calm, Environment, Submit, HangUp, PressureChange, Close, ownVars
  <2>4. CASE UNCHANGED vars
    BY <2>4 DEF Calm, vars, ownVars, envVars
  <2> QED
    BY <2>2, <2>3, <2>4 DEF Next
<1>3. IInv /\ Calm /\ IInv' /\ [Next]_vars => [Service!Next]_(Service!serviceVars)
  <2> SUFFICES ASSUME IInv, Calm, IInv', [Next]_vars PROVE [Service!Next]_(Service!serviceVars)
    OBVIOUS
  <2>1. CASE Driver
    BY <2>1, ActionServes, DriverStepServes DEF Driver
  <2>2. CASE Environment
    BY <2>2, EnvironmentServes
  <2>3. CASE UNCHANGED vars
    BY <2>3 DEF Service!serviceVars, ClientSees, Gone, vars, ownVars, envVars
  <2> QED
    BY <2>1, <2>2, <2>3 DEF Next
<1> QED
  BY <1>1, <1>2, <1>3, ServiceStarts, PTL DEF Spec, ImplementsService, Service!Spec
=============================================================================
