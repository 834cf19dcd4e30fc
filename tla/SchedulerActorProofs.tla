------------------------ MODULE SchedulerActorProofs ------------------------
(***************************************************************************)
(* The safety of the driver loop of SchedulerActor, for any number of      *)
(* requests, rows, chunks, queue places and failures.  The inductive       *)
(* invariant IInv has four parts: Scalars; InLine, on the channel, the     *)
(* queue and the replies; Batch, on the scheduler, the parked requests and *)
(* the mid-admit; Place, which says where in the loop what may be held.    *)
(* One lemma per action proves that it keeps the last three.               *)
(***************************************************************************)
EXTENDS SchedulerActorCalls

\* What the oneshot channels may say.
Replies == [Requests -> {"none", "ok", "err"}]

\* The requests that were told their admission.
AcceptedBy(rep) == {r \in Requests : rep[r] = "ok"}

\* The channel c and the queue q hold unanswered requests only, none of them twice,
\* and every one whose client still waits.
InLine(c, q, rep, cl) ==
  /\ c \in Seq(Requests) /\ Len(c) <= ChannelCap /\ IsInjective(c)
  /\ q \in Seq(Requests) /\ Len(q) <= QueueMax /\ IsInjective(q)
  /\ rep \in Replies
  /\ Range(c) \cap Range(q) = {}
  /\ \A r \in Range(c) \union Range(q) : rep[r] = "none" /\ cl[r] # "new"
  /\ \A r \in Requests :
       /\ cl[r] = "new" => rep[r] = "none"
       /\ cl[r] = "waiting" /\ rep[r] = "none" => r \in Range(c) \union Range(q)

\* The row of the mid-admit m is one without a token, in a decoding batch the only one.
Mid(s, m) ==
  LET tokenless == {r \in s.rows : s.tok[r] = 0}
      inFlight  == {m} \ {NoRequest}
  IN  /\ inFlight \subseteq tokenless
      /\ s.phase = "Decoding" => tokenless = inFlight

\* Rows and parked requests were accepted, and every finished row has had its event.
Batch(s, p, m, last, rep) ==
  /\ p \in Seq(Requests) /\ IsInjective(p)
  /\ Owns(s, Range(p), AcceptedBy(rep))
  /\ Mid(s, m)
  /\ s.done \subseteq last /\ last \subseteq AcceptedBy(rep)

\* The open streams are those of the rows and of the parked requests.
Streams(s, p, tx) == tx = s.rows \union Range(p)

\* The places of the loop where a batch is assembled and not yet decoded.
Assembling == {"top", "outer", "sweep", "queue_drain"} \union Windows \union Prefills

\* What the driver may hold at each place of the loop.
Place(at, s, p, m, tx) ==
  /\ at \in Assembling => p = <<>> /\ m = NoRequest
  /\ at \in {"top", "outer"} => s.phase = "Idle"
  /\ at \in Assembling \ {"top", "outer"} => s.phase = "Admitting"
  /\ at \notin Assembling \union {"stopped"} => s.phase # "Admitting"
  /\ at = "event" => s.phase # "Finished"
  /\ at = "advance" => m # NoRequest
  /\ at \in {"drain", "handoff", "restore", "queue", "break"} => m = NoRequest
  /\ at = "handoff" => s.rows = {} \/ s.phase = "Finished"
  /\ at \in {"restore", "queue", "break"} => s.rows = {} /\ s.phase # "Finished"
  /\ at \in {"queue", "break"} => p = <<>>
  /\ at = "stopped" => p = <<>> /\ tx = {}
  /\ at # "stopped" => Streams(s, p, tx)

\* The parts of the state that only have a range.
Scalars ==
  /\ pc \in Points
  /\ chunks_left \in Nat
  /\ steps_due \in 0..DecodeBurst
  /\ fresh_limit \in 1..BMax
  /\ open \in BOOLEAN
  /\ client \in [Requests -> {"new", "waiting", "gone"}]
  /\ pressure \in {"Normal", "Hard"}
  /\ faults \in 0..MaxFaults

\* What each action is shown to keep.
Kept ==
  /\ InLine(cmds, admission_queue, reply, client)
  /\ Batch(sched, parked_active_kv, in_flight_mid_admit, last_event, reply)
  /\ Place(pc, sched, parked_active_kv, in_flight_mid_admit, event_txs)

\* The inductive invariant.
IInv == Scalars /\ Kept

\* The driver starts with nothing.
LEMMA Start == Init => IInv
<1> SUFFICES ASSUME Init PROVE IInv
  OBVIOUS
<1>1. Scalars
  BY BatchOK, BoundsAreNat DEF Init, Scalars, Points
<1>2. InLine(cmds, admission_queue, reply, client)
  BY EmptyOf, BoundsAreNat DEF Init, InLine, Replies
<1>3. Core!NewScheduler = P!NewScheduler /\ AcceptedBy(reply) = {}
  BY DEF Core!NewScheduler, P!NewScheduler, Init, AcceptedBy
<1>4. P!Sound(sched)
  BY <1>3, P!NewSound, CoreAssumptions DEF Init
<1>5. /\ sched.rows = {} /\ sched.phase = "Idle" /\ sched.done = {} /\ ~sched.poisoned
      /\ \A r \in Requests : sched.tok[r] = 0
  BY DEF Init, Core!NewScheduler
<1>6. Owns(sched, {}, AcceptedBy(reply))
  BY <1>3, <1>4, <1>5 DEF Owns, P!Accounted, Recoverable
<1>7. Batch(sched, parked_active_kv, in_flight_mid_admit, last_event, reply)
  BY <1>3, <1>5, <1>6, EmptyOf DEF Batch, Mid, Init
<1>8. Place(pc, sched, parked_active_kv, in_flight_mid_admit, event_txs)
  BY <1>5, EmptyOf DEF Place, Streams, Init, Assembling, Windows, Prefills
<1> QED
  BY <1>1, <1>2, <1>7, <1>8 DEF IInv, Kept

\* Every action stays within the ranges: counters are capped by their guards.
LEMMA ScalarsKept ==
  ASSUME IInv, Next
  PROVE  Scalars'
<1>0. /\ DecodeBurst \in Nat \ {0} /\ MaxFaults \in Nat /\ steps_due \in 0..DecodeBurst
      /\ BatchLimit \in [Requests -> 1..BMax] /\ Chunks \in [Requests -> Nat \ {0}]
      /\ Scalars /\ cmds \in Seq(Requests) /\ admission_queue \in Seq(Requests)
  BY BoundsAreNat, PoliciesOK DEF IInv, Kept, Scalars, InLine
<1>1. ASSUME cmds # <<>> PROVE Head(cmds) \in Requests
  BY <1>0, <1>1, HeadTailProperties
<1>2. ASSUME admission_queue # <<>> PROVE Head(admission_queue) \in Requests
  BY <1>0, <1>2, HeadTailProperties
<1>3. ASSUME AdmissionWork PROVE steps_due' \in 0..DecodeBurst
  BY <1>0, <1>3 DEF AdmissionWork
<1> USE DEF Scalars, Points, Windows, Prefills, Goto, DropBatch, midVars, ownVars, envVars
<1>4. ASSUME UNCHANGED envVars, DriverStep
      PROVE  Scalars'
  <2>1. CASE Top
    BY <1>0, <1>4, <2>1 DEF Top
  <2>2. CASE FirstAdmit
    BY <1>0, <1>1, <1>4, <2>2 DEF FirstAdmit
  <2>3. CASE OuterClosed
    BY <1>0, <1>4, <2>3 DEF OuterClosed
  <2>4. CASE AdmissionWindow
    BY <1>0, <1>4, <2>4 DEF AdmissionWindow
  <2>5. CASE WindowDeadline
    BY <1>0, <1>4, <2>5 DEF WindowDeadline
  <2>6. CASE Sweep
    BY <1>0, <1>4, <2>6 DEF Sweep
  <2>7. CASE Prefill
    BY <1>0, <1>3, <1>4, <2>7 DEF Prefill
  <2>8. CASE PrefillFails
    BY <1>0, <1>4, <2>8 DEF PrefillFails
  <2>9. CASE Cancel
    BY <1>0, <1>4, <2>9 DEF Cancel
  <2>10. CASE Press
    BY <1>0, <1>4, <2>10 DEF Press
  <2>11. CASE Step
    BY <1>0, <1>4, <2>11 DEF Step
  <2>12. CASE StepFails
    BY <1>0, <1>4, <2>12 DEF StepFails
  <2>13. CASE AdmitDirect
    BY <1>0, <1>1, <1>4, <2>13 DEF AdmitDirect, BeginMidAdmit, PicksAdmit
  <2>14. CASE AdmitByParking
    BY <1>0, <1>1, <1>4, <2>14 DEF AdmitByParking, BeginMidAdmit, PicksAdmit
  <2>15. CASE AdmitQueued
    BY <1>0, <1>4, <2>15 DEF AdmitQueued
  <2>16. CASE PicksAdvance
    BY <1>0, <1>4, <2>16 DEF PicksAdvance
  <2>17. CASE AdvanceMidAdmit
    BY <1>0, <1>3, <1>4, <2>17 DEF AdvanceMidAdmit
  <2>18. CASE AdvanceFails
    BY <1>0, <1>3, <1>4, <2>18 DEF AdvanceFails
  <2>19. CASE Shutdown
    BY <1>0, <1>4, <2>19 DEF Shutdown
  <2>20. CASE ParkForQueue
    BY <1>0, <1>4, <2>20 DEF ParkForQueue
  <2>21. CASE Drain
    BY <1>0, <1>2, <1>4, <2>21 DEF Drain, BeginMidAdmit
  <2>22. CASE LoopTail
    BY <1>0, <1>4, <2>22 DEF LoopTail
  <2>23. CASE Handoff
    BY <1>0, <1>4, <2>23 DEF Handoff
  <2>24. CASE Restore
    BY <1>0, <1>3, <1>4, <2>24 DEF Restore
  <2>25. CASE BatchFromQueue
    BY <1>0, <1>2, <1>3, <1>4, <2>25 DEF BatchFromQueue
  <2>26. CASE BatchMoreFromQueue
    BY <1>0, <1>4, <2>26 DEF BatchMoreFromQueue
  <2>27. CASE BatchFromCommand
    BY <1>0, <1>1, <1>4, <2>27 DEF BatchFromCommand
  <2>28. CASE NoNextBatch
    BY <1>0, <1>4, <2>28 DEF NoNextBatch
  <2>29. CASE BreakRolling
    BY <1>0, <1>4, <2>29 DEF BreakRolling
  <2> HIDE DEF Scalars, Points, Windows, Prefills, Goto, DropBatch, midVars, ownVars, envVars
  <2> QED
    BY <1>4, <2>1, <2>2, <2>3, <2>4, <2>5, <2>6, <2>7, <2>8, <2>9, <2>10, <2>11, <2>12, <2>13, <2>14, <2>15, <2>16, <2>17, <2>18, <2>19, <2>20, <2>21, <2>22, <2>23, <2>24, <2>25, <2>26, <2>27, <2>28, <2>29, Zenon DEF DriverStep
<1>5. ASSUME Environment PROVE Scalars'
  <2>1. ASSUME NEW r \in Requests, Submit(r) PROVE Scalars'
    BY <1>0, <2>1 DEF Submit
  <2>2. ASSUME NEW r \in Requests, HangUp(r) PROVE Scalars'
    BY <1>0, <2>2 DEF HangUp
  <2>3. CASE PressureChange
    BY <1>0, <2>3 DEF PressureChange
  <2>4. CASE Close
    BY <1>0, <2>4 DEF Close
  <2> HIDE DEF Scalars, Points, Windows, Prefills, Goto, DropBatch, midVars, ownVars, envVars
  <2> QED
    BY <1>5, <2>1, <2>2, <2>3, <2>4, Zenon DEF Environment
<1> HIDE DEF Scalars, Points, Windows, Prefills, Goto, DropBatch, midVars, ownVars, envVars
<1> QED
  BY <1>4, <1>5, Zenon DEF Next, Driver

-----------------------------------------------------------------------------
(* The line                                                                *)

\* The head of the channel leaves it with an answer.
LEMMA LineTakesCommand ==
  ASSUME NEW c, NEW q, NEW rep, NEW cl, InLine(c, q, rep, cl), c # <<>>,
         NEW ans \in Replies,
         \A r \in Requests : r # Head(c) => ans[r] = rep[r],
         cl[Head(c)] = "waiting" => ans[Head(c)] # "none"
  PROVE  InLine(Tail(c), q, ans, cl)
<1>1. /\ c \in Seq(Requests) /\ Len(c) <= ChannelCap /\ IsInjective(c)
      /\ q \in Seq(Requests) /\ Len(q) <= QueueMax /\ IsInjective(q)
      /\ Range(c) \cap Range(q) = {}
      /\ \A r \in Range(c) \union Range(q) : rep[r] = "none" /\ cl[r] # "new"
  BY DEF InLine
<1>2. /\ Head(c) \in Requests /\ Head(c) \in Range(c)
      /\ Tail(c) \in Seq(Requests) /\ Len(Tail(c)) = Len(c) - 1
      /\ Range(Tail(c)) = Range(c) \ {Head(c)} /\ IsInjective(Tail(c))
  BY <1>1, TailOf
<1>3. Len(Tail(c)) <= ChannelCap
  BY <1>1, <1>2, SeqOf, BoundsAreNat
<1>4. Range(c) \subseteq Requests /\ Range(q) \subseteq Requests
  BY <1>1, SeqOf
<1> QED
  BY <1>1, <1>2, <1>3, <1>4 DEF InLine

\* The head of the queue leaves it with an answer.
LEMMA LineTakesQueued ==
  ASSUME NEW c, NEW q, NEW rep, NEW cl, InLine(c, q, rep, cl), q # <<>>,
         NEW ans \in Replies,
         \A r \in Requests : r # Head(q) => ans[r] = rep[r],
         cl[Head(q)] = "waiting" => ans[Head(q)] # "none"
  PROVE  InLine(c, Tail(q), ans, cl)
<1>1. /\ c \in Seq(Requests) /\ Len(c) <= ChannelCap /\ IsInjective(c)
      /\ q \in Seq(Requests) /\ Len(q) <= QueueMax /\ IsInjective(q)
      /\ Range(c) \cap Range(q) = {}
      /\ \A r \in Range(c) \union Range(q) : rep[r] = "none" /\ cl[r] # "new"
  BY DEF InLine
<1>2. /\ Head(q) \in Requests /\ Head(q) \in Range(q)
      /\ Tail(q) \in Seq(Requests) /\ Len(Tail(q)) = Len(q) - 1
      /\ Range(Tail(q)) = Range(q) \ {Head(q)} /\ IsInjective(Tail(q))
  BY <1>1, TailOf
<1>3. Len(Tail(q)) <= QueueMax
  BY <1>1, <1>2, SeqOf, BoundsAreNat
<1>4. Range(c) \subseteq Requests /\ Range(q) \subseteq Requests
  BY <1>1, SeqOf
<1> QED
  BY <1>1, <1>2, <1>3, <1>4 DEF InLine

\* Pruning takes out requests nobody waits for.
LEMMA LinePruned ==
  ASSUME NEW c, NEW q, NEW rep, InLine(c, q, rep, client)
  PROVE  InLine(c, Live(q), rep, client)
<1>1. /\ c \in Seq(Requests) /\ Len(c) <= ChannelCap /\ IsInjective(c)
      /\ q \in Seq(Requests) /\ Len(q) <= QueueMax /\ IsInjective(q)
      /\ Range(c) \cap Range(q) = {} /\ rep \in Replies
  BY DEF InLine
<1>2. /\ Live(q) \in Seq(Requests) /\ Len(Live(q)) <= Len(q)
      /\ Range(Live(q)) = {r \in Range(q) : ~Gone(r)} /\ IsInjective(Live(q))
  BY <1>1, LiveOf
<1>3. Len(Live(q)) <= QueueMax
  BY <1>1, <1>2, SeqOf, BoundsAreNat
<1>4. \A r \in Range(q) \ Range(Live(q)) : client[r] = "gone"
  BY <1>2 DEF Gone
<1> HIDE DEF Live
<1> QED
  BY <1>1, <1>2, <1>3, <1>4 DEF InLine

\* Rejecting the queue answers all of it and accepts none.
LEMMA LineRejected ==
  ASSUME InLine(cmds, admission_queue, reply, client), RejectQueue
  PROVE  /\ InLine(cmds, admission_queue', reply', client)
         /\ AcceptedBy(reply') = AcceptedBy(reply)
<1>1. /\ cmds \in Seq(Requests) /\ Len(cmds) <= ChannelCap /\ IsInjective(cmds)
      /\ admission_queue \in Seq(Requests)
      /\ Range(cmds) \cap Range(admission_queue) = {} /\ reply \in Replies
      /\ \A r \in Range(cmds) \union Range(admission_queue) : reply[r] = "none" /\ client[r] # "new"
  BY DEF InLine
<1>2. /\ admission_queue' = <<>>
      /\ reply' = [r \in Requests |-> IF r \in Range(admission_queue) THEN "err" ELSE reply[r]]
  BY DEF RejectQueue, Reject
<1>3. /\ reply' \in Replies
      /\ \A r \in Requests : r \notin Range(admission_queue) => reply'[r] = reply[r]
      /\ \A r \in Range(admission_queue) : r \in Requests /\ reply'[r] = "err"
  BY <1>1, <1>2, SeqOf DEF Replies
<1>4. /\ <<>> \in Seq(Requests) /\ Len(<<>>) <= QueueMax /\ Range(<<>>) = {} /\ IsInjective(<<>>)
  BY EmptyOf, BoundsAreNat
<1>5. Range(cmds) \subseteq Requests
  BY <1>1, SeqOf
<1>6. InLine(cmds, <<>>, reply', client)
  BY <1>1, <1>3, <1>4, <1>5 DEF InLine
<1> QED
  BY <1>1, <1>2, <1>3, <1>6 DEF AcceptedBy

\* enqueue_or_reject keeps the line: the command moves, or is answered.
LEMMA LineEnqueues ==
  ASSUME InLine(cmds, admission_queue, reply, client), cmds # <<>>,
         cmds' = Tail(cmds), EnqueueOrReject(Head(cmds))
  PROVE  /\ InLine(cmds', admission_queue', reply', client)
         /\ AcceptedBy(reply') = AcceptedBy(reply)
<1> DEFINE r == Head(cmds)
           live == Live(admission_queue)
<1>1. /\ cmds \in Seq(Requests) /\ Len(cmds) <= ChannelCap /\ IsInjective(cmds)
      /\ admission_queue \in Seq(Requests) /\ IsInjective(admission_queue)
      /\ Range(cmds) \cap Range(admission_queue) = {} /\ reply \in Replies
      /\ \A x \in Range(cmds) \union Range(admission_queue) : reply[x] = "none" /\ client[x] # "new"
      /\ \A x \in Requests :
           /\ client[x] = "new" => reply[x] = "none"
           /\ client[x] = "waiting" /\ reply[x] = "none" => x \in Range(cmds) \union Range(admission_queue)
  BY DEF InLine
<1>2. /\ r \in Requests /\ r \in Range(cmds)
      /\ Tail(cmds) \in Seq(Requests) /\ Len(Tail(cmds)) = Len(cmds) - 1
      /\ Range(Tail(cmds)) = Range(cmds) \ {r} /\ IsInjective(Tail(cmds))
  BY <1>1, TailOf
<1>3. InLine(cmds, live, reply, client)
  BY LinePruned
<1>4. /\ live \in Seq(Requests) /\ Len(live) <= QueueMax /\ IsInjective(live) /\ Len(live) \in Nat
      /\ Range(live) \subseteq Range(admission_queue)
      /\ \A x \in Range(admission_queue) \ Range(live) : client[x] = "gone"
  BY <1>1, <1>3, LiveOf, SeqOf DEF InLine, Gone
<1> HIDE DEF r, live
<1>5. CASE Gone(r)
  <2>1. admission_queue' = admission_queue /\ reply' = reply
    BY <1>5 DEF EnqueueOrReject, r
  <2>2. client[r] # "waiting"
    BY <1>5 DEF Gone
  <2> QED
    BY <1>1, <2>1, <2>2, LineTakesCommand DEF r
<1>6. CASE ~Gone(r) /\ Len(live) >= QueueMax
  <2>1. admission_queue' = live /\ reply' = [reply EXCEPT ![r] = "err"]
    BY <1>6 DEF EnqueueOrReject, r, live
  <2>2. reply' \in Replies /\ reply'[r] = "err" /\ \A x \in Requests : x # r => reply'[x] = reply[x]
    BY <1>1, <1>2, <2>1 DEF Replies
  <2>3. InLine(Tail(cmds), live, reply', client)
    BY <1>3, <2>2, LineTakesCommand DEF r
  <2>4. reply[r] = "none"
    BY <1>1, <1>2
  <2> QED
    BY <2>1, <2>2, <2>3, <2>4, <1>2 DEF AcceptedBy
<1>7. CASE ~Gone(r) /\ ~(Len(live) >= QueueMax)
  <2>1. admission_queue' = Append(live, r) /\ reply' = reply
    BY <1>7 DEF EnqueueOrReject, r, live
  <2>2. /\ Append(live, r) \in Seq(Requests) /\ Len(Append(live, r)) = Len(live) + 1
        /\ Range(Append(live, r)) = Range(live) \union {r}
        /\ IsInjective(Append(live, r))
    BY <1>1, <1>2, <1>4, AppendOf
  <2>3. Len(Append(live, r)) <= QueueMax
    BY <1>4, <1>7, <2>2, BoundsAreNat
  <2>4. Len(Tail(cmds)) <= ChannelCap
    BY <1>1, <1>2, SeqOf, BoundsAreNat
  <2> QED
    BY <1>1, <1>2, <1>4, <2>1, <2>2, <2>3, <2>4 DEF InLine
<1> QED
  BY <1>5, <1>6, <1>7

-----------------------------------------------------------------------------
(* The two admissions                                                      *)

\* What handle_admit and begin_mid_admit do to the replies and the streams:
\* r alone is answered, and has a stream exactly when it is accepted.
Answers(r) ==
  /\ reply' \in Replies
  /\ \A x \in Requests : x # r => reply'[x] = reply[x]
  /\ client[r] = "waiting" => reply'[r] # "none"
  /\ event_txs' = event_txs \union (IF reply'[r] = "ok" THEN {r} ELSE {})

\* An answer is one of the two, or none to a client that has left.
LEMMA AnswersTyped ==
  ASSUME NEW r \in Requests, reply \in Replies, reply[r] = "none",
         \/ reply' = reply /\ client[r] = "gone" /\ event_txs' = event_txs
         \/ reply' = [reply EXCEPT ![r] = "err"] /\ event_txs' = event_txs
         \/ reply' = [reply EXCEPT ![r] = "ok"] /\ event_txs' = event_txs \union {r}
  PROVE  /\ Answers(r)
         /\ AcceptedBy(reply') = AcceptedBy(reply) \union (IF reply'[r] = "ok" THEN {r} ELSE {})
<1>1. CASE reply' = reply /\ client[r] = "gone" /\ event_txs' = event_txs
  BY <1>1 DEF Answers, AcceptedBy, Replies
<1>2. CASE reply' = [reply EXCEPT ![r] = "err"] /\ event_txs' = event_txs
  BY <1>2 DEF Answers, AcceptedBy, Replies
<1>3. CASE reply' = [reply EXCEPT ![r] = "ok"] /\ event_txs' = event_txs \union {r}
  BY <1>3 DEF Answers, AcceptedBy, Replies
<1> QED
  BY <1>1, <1>2, <1>3

\* handle_admit while a batch is assembled: refused, rolled back or a new row, the
\* streams are those of the rows.
LEMMA HandleAdmitKeeps ==
  ASSUME NEW s, NEW r \in Requests, reply \in Replies, reply[r] = "none",
         Owns(s, {}, AcceptedBy(reply)), s.phase \in {"Idle", "Admitting"},
         event_txs = s.rows, HandleAdmit(s, r)
  PROVE  /\ Answers(r)
         /\ Owns(sched', {}, AcceptedBy(reply')) /\ AcceptedBy(reply) \subseteq AcceptedBy(reply')
         /\ event_txs' = sched'.rows /\ sched'.done = {}
         /\ sched'.phase \in {"Idle", "Admitting"}
         /\ s.phase = "Admitting" => sched'.phase = "Admitting"
<1>0. r \notin AcceptedBy(reply)
  BY DEF AcceptedBy
<1>1. CASE sched' = s /\ reply' = [reply EXCEPT ![r] = "err"] /\ event_txs' = event_txs
  <2>1. Answers(r) /\ AcceptedBy(reply') = AcceptedBy(reply)
    BY <1>1, AnswersTyped DEF Replies
  <2>2. s.done = {}
    BY SoundFacts DEF Owns
  <2> QED
    BY <1>1, <2>1, <2>2
<1>2. CASE /\ r \in SessionFaults /\ sched' = Core!AdmitSessionFails(s, r)
           /\ reply' = [reply EXCEPT ![r] = "err"] /\ event_txs' = event_txs
  <2>1. Answers(r) /\ AcceptedBy(reply') = AcceptedBy(reply)
    BY <1>2, AnswersTyped DEF Replies
  <2>2. Owns(sched', {}, AcceptedBy(reply))
    BY <1>2, SessionFailureOwns
  <2>3. sched'.rows = s.rows /\ sched'.done = s.done /\ sched'.phase = s.phase
    BY <1>2, SessionFailureFields DEF Owns
  <2>4. s.done = {}
    BY SoundFacts DEF Owns
  <2> QED
    BY <1>2, <2>1, <2>2, <2>3, <2>4
<1>3. CASE /\ Core!CanAdmit(s) /\ r \notin SessionFaults /\ Gone(r)
           /\ sched' = Core!Evict(Core!Admit(s, r), {r})
           /\ reply' = reply /\ event_txs' = event_txs
  <2>1. Answers(r) /\ AcceptedBy(reply') = AcceptedBy(reply)
    BY <1>3, AnswersTyped DEF Replies, Gone
  <2>2. /\ Owns(sched', {}, AcceptedBy(reply))
        /\ sched'.rows = s.rows /\ sched'.done = s.done
        /\ \/ sched'.phase = s.phase
           \/ sched'.rows = {} /\ s.phase = "Decoding" /\ sched'.phase = "Finished"
    BY <1>0, <1>3, AdmitEvict
  <2>3. s.done = {}
    BY SoundFacts DEF Owns
  <2> QED
    BY <1>3, <2>1, <2>2, <2>3
<1>4. CASE /\ Core!CanAdmit(s) /\ r \notin SessionFaults
           /\ sched' = Core!Admit(s, r)
           /\ reply' = [reply EXCEPT ![r] = "ok"] /\ event_txs' = event_txs \union {r}
  <2>1. Answers(r) /\ AcceptedBy(reply') = AcceptedBy(reply) \union {r}
    BY <1>4, AnswersTyped DEF Replies
  <2>2. Owns(sched', {}, AcceptedBy(reply'))
    <3>1. Owns(Core!Admit(s, r), {}, AcceptedBy(reply) \union {r})
      BY <1>0, <1>4, AdmitOwns
    <3> QED
      BY <1>4, <2>1, <3>1
  <2>3. /\ sched'.rows = s.rows \union {r} /\ sched'.done = s.done
        /\ sched'.phase = IF s.phase = "Idle" THEN "Admitting" ELSE s.phase
    BY <1>4, AdmitFields DEF Owns
  <2>4. s.done = {}
    BY SoundFacts DEF Owns
  <2> QED
    BY <1>4, <2>1, <2>2, <2>3, <2>4
<1> QED
  BY <1>1, <1>2, <1>3, <1>4 DEF HandleAdmit, MayAdmit

\* begin_mid_admit in scheduler s with p parked: refused, rolled back, or the new row
\* is the one in flight.
LEMMA BeginMidAdmitKeeps ==
  ASSUME NEW s, NEW p, NEW r \in Requests, NEW refused, reply \in Replies, reply[r] = "none",
         Owns(s, p, AcceptedBy(reply)), s.phase # "Admitting",
         event_txs = s.rows \union p, in_flight_mid_admit = NoRequest, Mid(s, NoRequest),
         BeginMidAdmit(s, r, refused)
  PROVE  /\ Answers(r)
         /\ Owns(sched', p, AcceptedBy(reply')) /\ AcceptedBy(reply) \subseteq AcceptedBy(reply')
         /\ event_txs' = sched'.rows \union p /\ sched'.done = s.done
         /\ sched'.phase # "Admitting"
         /\ Mid(sched', in_flight_mid_admit')
         /\ \/ pc' = "advance" /\ in_flight_mid_admit' = r
            \/ pc' = refused /\ in_flight_mid_admit' = NoRequest
<1>0. r \notin AcceptedBy(reply)
  BY DEF AcceptedBy
<1>1. CASE /\ s.phase = "Decoding" /\ Core!CanAdmit(s) /\ r \notin SessionFaults
           /\ sched' = Core!Admit(s, r)
           /\ reply' = [reply EXCEPT ![r] = "ok"] /\ event_txs' = event_txs \union {r}
           /\ in_flight_mid_admit' = r /\ pc' = "advance"
  <2>1. Answers(r) /\ AcceptedBy(reply') = AcceptedBy(reply) \union {r}
    BY <1>1, AnswersTyped DEF Replies
  <2>2. Owns(sched', p, AcceptedBy(reply')) /\ r \notin s.rows /\ s.tok[r] = 0
    <3>1. /\ Owns(Core!Admit(s, r), p, AcceptedBy(reply) \union {r})
          /\ r \notin s.rows /\ s.tok[r] = 0
      BY <1>0, <1>1, AdmitOwns
    <3> QED
      BY <1>1, <2>1, <3>1
  <2>3. /\ sched'.rows = s.rows \union {r} /\ sched'.done = s.done /\ sched'.tok = s.tok
        /\ sched'.phase = s.phase
    BY <1>1, AdmitFields DEF Owns
  <2>4. Mid(sched', r)
    BY <1>1, <2>2, <2>3, NoRequestIsNone DEF Mid
  <2> QED
    BY <1>1, <2>1, <2>2, <2>3, <2>4
<1>2. ASSUME reply' = (IF Gone(r) THEN reply ELSE [reply EXCEPT ![r] = "err"]),
             pc' = refused, UNCHANGED <<event_txs, midVars>>,
             Owns(sched', p, AcceptedBy(reply)),
             sched'.rows = s.rows, sched'.done = s.done, sched'.tok = s.tok,
             \/ sched'.phase = s.phase
             \/ sched'.rows = {} /\ s.phase = "Decoding" /\ sched'.phase = "Finished"
      PROVE  /\ Answers(r)
             /\ Owns(sched', p, AcceptedBy(reply')) /\ AcceptedBy(reply) \subseteq AcceptedBy(reply')
             /\ event_txs' = sched'.rows \union p /\ sched'.done = s.done
             /\ sched'.phase # "Admitting"
             /\ Mid(sched', in_flight_mid_admit')
             /\ pc' = refused /\ in_flight_mid_admit' = NoRequest
  <2>1. /\ event_txs' = event_txs /\ in_flight_mid_admit' = NoRequest
        /\ \/ reply' = reply /\ client[r] = "gone"
           \/ reply' = [reply EXCEPT ![r] = "err"]
    BY <1>2 DEF Gone, midVars
  <2>2. Answers(r) /\ AcceptedBy(reply') = AcceptedBy(reply)
    BY <2>1, AnswersTyped DEF Replies
  <2>3. Mid(sched', NoRequest) /\ sched'.phase # "Admitting"
    BY <1>2 DEF Mid
  <2> QED
    BY <1>2, <2>1, <2>2, <2>3
<1>3. CASE sched' = s /\ reply' = (IF Gone(r) THEN reply ELSE [reply EXCEPT ![r] = "err"])
           /\ pc' = refused /\ UNCHANGED <<event_txs, midVars>>
  BY <1>2, <1>3
<1>4. CASE /\ r \in SessionFaults /\ sched' = Core!AdmitSessionFails(s, r)
           /\ reply' = (IF Gone(r) THEN reply ELSE [reply EXCEPT ![r] = "err"])
           /\ pc' = refused /\ UNCHANGED <<event_txs, midVars>>
  <2>1. Owns(sched', p, AcceptedBy(reply))
    BY <1>4, SessionFailureOwns
  <2>2. sched'.rows = s.rows /\ sched'.done = s.done /\ sched'.tok = s.tok /\ sched'.phase = s.phase
    BY <1>4, SessionFailureFields DEF Owns
  <2> QED
    BY <1>2, <1>4, <2>1, <2>2
<1>5. CASE /\ Core!CanAdmit(s) /\ r \notin SessionFaults
           /\ sched' = Core!Evict(Core!Admit(s, r), {r})
           /\ reply' = (IF Gone(r) THEN reply ELSE [reply EXCEPT ![r] = "err"])
           /\ pc' = refused /\ UNCHANGED <<event_txs, midVars>>
  <2>1. /\ Owns(sched', p, AcceptedBy(reply))
        /\ sched'.rows = s.rows /\ sched'.done = s.done /\ sched'.tok = s.tok
        /\ \/ sched'.phase = s.phase
           \/ sched'.rows = {} /\ s.phase = "Decoding" /\ sched'.phase = "Finished"
    BY <1>0, <1>5, AdmitEvict
  <2> QED
    BY <1>2, <1>5, <2>1
<1> QED
  BY <1>1, <1>3, <1>4, <1>5 DEF BeginMidAdmit, MayAdmit

-----------------------------------------------------------------------------
(* Assembling a batch                                                      *)

\* The start of the outer loop: nothing is left to finalize.
LEMMA TopKeeps ==
  ASSUME IInv, Top, UNCHANGED client
  PROVE  Kept'
<1> USE DEF IInv, Kept, Top, Goto
<1>1. sched.phase = "Idle" /\ parked_active_kv = <<>> /\ in_flight_mid_admit = NoRequest
  BY DEF Place, Assembling, Windows, Prefills
<1>2. sched' = sched /\ event_txs' = event_txs /\ in_flight_mid_admit' = in_flight_mid_admit
  BY <1>1 DEF midVars
<1>3. InLine(cmds, admission_queue, reply, client)'
  OBVIOUS
<1>4. Batch(sched, parked_active_kv, in_flight_mid_admit, last_event, reply)'
  BY <1>2
<1>5. Place(pc, sched, parked_active_kv, in_flight_mid_admit, event_txs)'
  BY <1>1, <1>2 DEF Place, Assembling, Windows, Prefills, Streams
<1> QED
  BY <1>3, <1>4, <1>5

\* Nothing is parked while a batch is assembled.
LEMMA FreshBatch ==
  ASSUME IInv, pc \in Assembling
  PROVE  /\ parked_active_kv = <<>> /\ in_flight_mid_admit = NoRequest
         /\ Range(parked_active_kv) = {} /\ event_txs = sched.rows
         /\ Owns(sched, {}, AcceptedBy(reply)) /\ sched.done = {}
         /\ sched.phase \in {"Idle", "Admitting"}
         /\ last_event \subseteq AcceptedBy(reply)
<1> USE DEF IInv, Kept
<1>1. /\ parked_active_kv = <<>> /\ in_flight_mid_admit = NoRequest
      /\ sched.phase \in {"Idle", "Admitting"} /\ event_txs = sched.rows \union Range(parked_active_kv)
  BY DEF Place, Assembling, Streams, Windows, Prefills
<1>2. Range(parked_active_kv) = {}
  BY <1>1, EmptyOf
<1>3. Owns(sched, {}, AcceptedBy(reply)) /\ last_event \subseteq AcceptedBy(reply)
  BY <1>2 DEF Batch
<1>4. sched.done = {}
  BY <1>1, <1>3, SoundFacts DEF Owns
<1> QED
  BY <1>1, <1>2, <1>3, <1>4

\* A batch with nothing parked and no decoding yet.
LEMMA FreshBatchKept ==
  ASSUME NEW s, NEW m, NEW last, NEW rep, m = NoRequest,
         Owns(s, {}, AcceptedBy(rep)), s.phase \in {"Idle", "Admitting"}, s.done = {},
         last \subseteq AcceptedBy(rep)
  PROVE  Batch(s, <<>>, m, last, rep)
BY EmptyOf DEF Batch, Mid

\* The first request of a batch.
LEMMA FirstAdmitKeeps ==
  ASSUME IInv, FirstAdmit, UNCHANGED client
  PROVE  Kept'
<1> USE DEF IInv, Kept, FirstAdmit
<1>1. /\ parked_active_kv = <<>> /\ in_flight_mid_admit = NoRequest
      /\ event_txs = sched.rows /\ Owns(sched, {}, AcceptedBy(reply))
      /\ sched.phase \in {"Idle", "Admitting"} /\ last_event \subseteq AcceptedBy(reply)
  BY FreshBatch DEF Assembling
<1>2. Head(cmds) \in Requests /\ reply[Head(cmds)] = "none" /\ reply \in Replies
  BY TailOf DEF InLine
<1>3. /\ Answers(Head(cmds))
      /\ Owns(sched', {}, AcceptedBy(reply')) /\ AcceptedBy(reply) \subseteq AcceptedBy(reply')
      /\ event_txs' = sched'.rows /\ sched'.done = {}
      /\ sched'.phase \in {"Idle", "Admitting"}
  BY <1>1, <1>2, HandleAdmitKeeps
<1>4. InLine(cmds, admission_queue, reply, client)'
  BY <1>2, <1>3, LineTakesCommand DEF Answers
<1>5. Batch(sched, parked_active_kv, in_flight_mid_admit, last_event, reply)'
  BY <1>1, <1>3, FreshBatchKept DEF midVars
<1>6. sched'.rows = {} <=> sched'.phase = "Idle"
  BY <1>3, SoundFacts DEF Owns
<1>7. Place(pc, sched, parked_active_kv, in_flight_mid_admit, event_txs)'
  BY <1>1, <1>3, <1>6, EmptyOf DEF Place, Assembling, Windows, Prefills, Streams, midVars
<1> QED
  BY <1>4, <1>5, <1>7

\* The channel is closed while the driver is idle.
LEMMA OuterClosedKeeps ==
  ASSUME IInv, OuterClosed, UNCHANGED client
  PROVE  Kept'
<1> USE DEF IInv, Kept, OuterClosed, Goto
<1>1. /\ parked_active_kv = <<>> /\ in_flight_mid_admit = NoRequest
  BY FreshBatch DEF Assembling
<1>2. InLine(cmds, admission_queue, reply, client)' /\ AcceptedBy(reply') = AcceptedBy(reply)
  BY LineRejected
<1>3. Batch(sched, parked_active_kv, in_flight_mid_admit, last_event, reply)'
  BY <1>1, <1>2 DEF midVars, Batch
<1>4. Place(pc, sched, parked_active_kv, in_flight_mid_admit, event_txs)'
  BY <1>1 DEF Place, Assembling, Windows, Prefills, Streams, midVars
<1> QED
  BY <1>2, <1>3, <1>4

\* A command within the admission window joins the batch or the queue.
LEMMA AdmissionWindowKeeps ==
  ASSUME IInv, AdmissionWindow, UNCHANGED client
  PROVE  Kept'
<1> USE DEF IInv, Kept, AdmissionWindow
<1>1. /\ parked_active_kv = <<>> /\ in_flight_mid_admit = NoRequest
      /\ event_txs = sched.rows /\ Owns(sched, {}, AcceptedBy(reply))
      /\ sched.done = {} /\ sched.phase = "Admitting" /\ last_event \subseteq AcceptedBy(reply)
  BY FreshBatch DEF Assembling, Place, Windows
<1>2. Head(cmds) \in Requests /\ reply[Head(cmds)] = "none" /\ reply \in Replies
  BY TailOf DEF InLine
<1>3. CASE EnqueueOrReject(Head(cmds)) /\ UNCHANGED <<sched, event_txs>>
  <2>1. InLine(cmds, admission_queue, reply, client)' /\ AcceptedBy(reply') = AcceptedBy(reply)
    BY <1>3, LineEnqueues
  <2>2. Batch(sched, parked_active_kv, in_flight_mid_admit, last_event, reply)'
    BY <1>1, <1>3, <2>1 DEF midVars, Batch
  <2>3. Place(pc, sched, parked_active_kv, in_flight_mid_admit, event_txs)'
    BY <1>3 DEF midVars
  <2> QED
    BY <2>1, <2>2, <2>3
<1>4. CASE HandleAdmit(sched, Head(cmds)) /\ UNCHANGED admission_queue
  <2>1. /\ Answers(Head(cmds))
        /\ Owns(sched', {}, AcceptedBy(reply')) /\ AcceptedBy(reply) \subseteq AcceptedBy(reply')
        /\ event_txs' = sched'.rows /\ sched'.done = {}
        /\ sched'.phase = "Admitting"
    BY <1>1, <1>2, <1>4, HandleAdmitKeeps
  <2>2. InLine(cmds, admission_queue, reply, client)'
    BY <1>2, <1>4, <2>1, LineTakesCommand DEF Answers
  <2>3. Batch(sched, parked_active_kv, in_flight_mid_admit, last_event, reply)'
    BY <1>1, <2>1, FreshBatchKept DEF midVars
  <2>4. Place(pc, sched, parked_active_kv, in_flight_mid_admit, event_txs)'
    BY <1>1, <2>1, EmptyOf DEF Place, Assembling, Windows, Prefills, Streams, midVars
  <2> QED
    BY <2>2, <2>3, <2>4
<1> QED
  BY <1>3, <1>4

\* The window ends.
LEMMA WindowDeadlineKeeps ==
  ASSUME IInv, WindowDeadline, UNCHANGED client
  PROVE  Kept'
<1> USE DEF IInv, Kept, WindowDeadline, Goto
<1>1. InLine(cmds, admission_queue, reply, client)'
  BY DEF ownVars, midVars
<1>2. Batch(sched, parked_active_kv, in_flight_mid_admit, last_event, reply)'
  BY DEF ownVars, midVars
<1>3. Place(pc, sched, parked_active_kv, in_flight_mid_admit, event_txs)'
  BY DEF Place, Assembling, Windows, Prefills, Streams, ownVars, midVars
<1> QED
  BY <1>1, <1>2, <1>3

\* Clients that left during the assembly.
LEMMA SweepKeeps ==
  ASSUME IInv, Sweep, UNCHANGED client
  PROVE  Kept'
<1> USE DEF IInv, Kept, Sweep
<1> DEFINE gone == {r \in sched.rows : Gone(r)}
<1>1. /\ parked_active_kv = <<>> /\ in_flight_mid_admit = NoRequest
      /\ event_txs = sched.rows /\ Owns(sched, {}, AcceptedBy(reply))
      /\ sched.done = {} /\ sched.phase = "Admitting" /\ last_event \subseteq AcceptedBy(reply)
  BY FreshBatch DEF Assembling, Place
<1>2. sched' = Core!Evict(sched, gone) /\ event_txs' = event_txs \ gone
  OBVIOUS
<1>3. gone \in SUBSET sched.rows
  OBVIOUS
<1> HIDE DEF gone
<1>4. Owns(sched', {}, AcceptedBy(reply))
  BY <1>1, <1>2, <1>3, EvictOwns
<1>5. /\ sched'.rows = sched.rows \ gone /\ sched'.done = sched.done \ gone
      /\ sched'.phase \in {"Idle", "Admitting"}
  BY <1>1, <1>2, EvictFields DEF Owns
<1>6. sched'.rows = {} <=> sched'.phase = "Idle"
  BY <1>4, <1>5, SoundFacts DEF Owns
<1>7. InLine(cmds, admission_queue, reply, client)'
  BY LinePruned
<1>8. Batch(sched, parked_active_kv, in_flight_mid_admit, last_event, reply)'
  BY <1>1, <1>4, <1>5, FreshBatchKept DEF midVars
<1>9. Place(pc, sched, parked_active_kv, in_flight_mid_admit, event_txs)'
  BY <1>1, <1>2, <1>5, <1>6, EmptyOf DEF Place, Assembling, Windows, Prefills, Streams, midVars
<1> QED
  BY <1>7, <1>8, <1>9

\* The events of a step cover the rows it ended.
LEMMA DeliverKeeps ==
  ASSUME NEW s, NEW p, NEW rep, Owns(s, p, AcceptedBy(rep)), Deliver(s),
         sched.done \subseteq last_event, last_event \subseteq AcceptedBy(rep)
  PROVE  /\ s.done \subseteq last_event' /\ last_event' \subseteq AcceptedBy(rep)
         /\ last_event \subseteq last_event'
<1>1. s.done \subseteq AcceptedBy(rep)
  BY SoundFacts DEF Owns, P!Accounted
<1> QED
  BY <1>1 DEF Deliver

\* The prefill of a batch.
LEMMA PrefillKeeps ==
  ASSUME IInv, Prefill, UNCHANGED client
  PROVE  Kept'
<1> USE DEF IInv, Kept, Prefill
<1>1. /\ parked_active_kv = <<>> /\ in_flight_mid_admit = NoRequest
      /\ event_txs = sched.rows /\ Owns(sched, {}, AcceptedBy(reply))
      /\ sched.done = {} /\ last_event \subseteq AcceptedBy(reply)
  BY FreshBatch DEF Assembling
<1>2. PICK eos \in SUBSET sched.rows : sched' = Core!Prefill(sched, eos) /\ Deliver(sched')
  OBVIOUS
<1>3. /\ Owns(sched', {}, AcceptedBy(reply))
      /\ sched'.rows = sched.rows /\ sched'.phase \in {"Decoding", "Finished"}
      /\ \A r \in sched'.rows : sched'.tok[r] > 0
  BY <1>1, <1>2, PrefillOwns
<1>4. sched'.done \subseteq last_event' /\ last_event' \subseteq AcceptedBy(reply)
  BY <1>1, <1>2, <1>3, DeliverKeeps
<1>5. InLine(cmds, admission_queue, reply, client)'
  OBVIOUS
<1>6. Mid(sched', NoRequest)
  BY <1>3 DEF Mid
<1>7. Batch(sched, parked_active_kv, in_flight_mid_admit, last_event, reply)'
  BY <1>1, <1>3, <1>4, <1>6, EmptyOf DEF Batch, midVars
<1>8. Place(pc, sched, parked_active_kv, in_flight_mid_admit, event_txs)'
  BY <1>1, <1>3, EmptyOf DEF Place, Assembling, Windows, Prefills, Streams, midVars
<1> QED
  BY <1>5, <1>7, <1>8

-----------------------------------------------------------------------------
(* Cancelling, parking under pressure, decode steps and their failures     *)

\* What IInv says of a rolling batch.
LEMMA RollingBatch ==
  ASSUME IInv
  PROVE  /\ InLine(cmds, admission_queue, reply, client)
         /\ Owns(sched, Range(parked_active_kv), AcceptedBy(reply))
         /\ parked_active_kv \in Seq(Requests) /\ IsInjective(parked_active_kv)
         /\ Mid(sched, in_flight_mid_admit)
         /\ sched.done \subseteq last_event /\ last_event \subseteq AcceptedBy(reply)
         /\ pc # "stopped" => event_txs = sched.rows \union Range(parked_active_kv)
         /\ pc \notin Assembling \union {"stopped"} => sched.phase # "Admitting"
BY DEF IInv, Kept, Batch, Place, Streams

\* Dropping a batch that failed.
LEMMA DropBatchKeeps ==
  ASSUME IInv, NEW s, DropBatch(s), Owns(Core!EvictAll(s), {}, AcceptedBy(reply)), P!Sound(s),
         InLine(cmds, admission_queue, reply, client)',
         AcceptedBy(reply') = AcceptedBy(reply), last_event' = last_event
  PROVE  Kept'
<1>1. /\ sched' = Core!EvictAll(s) /\ event_txs' = {} /\ in_flight_mid_admit' = NoRequest
      /\ parked_active_kv' = <<>> /\ pc' = "top"
  BY DEF DropBatch
<1>2. sched'.rows = {} /\ sched'.done = {} /\ sched'.phase = "Idle"
  BY <1>1, EvictAllFields
<1>3. Batch(sched, parked_active_kv, in_flight_mid_admit, last_event, reply)'
  BY <1>1, <1>2, RollingBatch, FreshBatchKept
<1>4. Place(pc, sched, parked_active_kv, in_flight_mid_admit, event_txs)'
  BY <1>1, <1>2, EmptyOf DEF Place, Assembling, Windows, Prefills, Streams
<1> QED
  BY <1>3, <1>4 DEF Kept

\* Parked requests can be let go.
LEMMA OwnsNoneParked ==
  ASSUME NEW s, NEW p, NEW u, Owns(s, p, u), NEW q \in SUBSET p
  PROVE  Owns(s, q, u)
BY DEF Owns, P!Accounted

\* A failed prefill drops the batch, its streams and, but for one caller, the queue.
LEMMA PrefillFailsKeeps ==
  ASSUME IInv, PrefillFails, UNCHANGED client
  PROVE  Kept'
<1> USE DEF PrefillFails
<1>1. /\ Owns(sched, {}, AcceptedBy(reply)) /\ sched.phase = "Admitting"
  BY FreshBatch DEF Assembling, IInv, Kept, Place, Prefills
<1>2. /\ P!Sound(Core!PrefillFails(sched))
      /\ Owns(Core!EvictAll(Core!PrefillFails(sched)), {}, AcceptedBy(reply))
  BY <1>1, FailedPrefillOwns
<1>3. InLine(cmds, admission_queue, reply, client)' /\ AcceptedBy(reply') = AcceptedBy(reply)
  BY LineRejected, RollingBatch
<1> QED
  BY <1>2, <1>3, DropBatchKeeps

\* Clients that left during decoding: their rows, their parked state and the handle of
\* the mid-admit go together.
LEMMA CancelKeeps ==
  ASSUME IInv, Cancel, UNCHANGED client
  PROVE  Kept'
<1> USE DEF Cancel, Goto
<1> DEFINE gone == {r \in sched.rows : Gone(r)}
           lost == {r \in Range(parked_active_kv) : Gone(r)}
<1>0. /\ Owns(sched, Range(parked_active_kv), AcceptedBy(reply))
      /\ parked_active_kv \in Seq(Requests) /\ IsInjective(parked_active_kv)
      /\ Mid(sched, in_flight_mid_admit)
      /\ sched.done \subseteq last_event /\ last_event \subseteq AcceptedBy(reply)
      /\ event_txs = sched.rows \union Range(parked_active_kv)
      /\ sched.phase # "Admitting"
  BY RollingBatch DEF Assembling, Windows, Prefills
<1>1. /\ sched' = Core!Evict(sched, gone) /\ parked_active_kv' = Live(parked_active_kv)
      /\ event_txs' = event_txs \ (gone \union lost)
      /\ in_flight_mid_admit' = IF in_flight_mid_admit \in gone THEN NoRequest ELSE in_flight_mid_admit
  BY DEF midVars
<1>2. InLine(cmds, admission_queue, reply, client)'
  BY LinePruned, RollingBatch
<1>3. /\ parked_active_kv' \in Seq(Requests) /\ IsInjective(parked_active_kv')
      /\ Range(parked_active_kv') = Range(parked_active_kv) \ lost
  BY <1>0, <1>1, LiveOf
<1>4. gone \in SUBSET sched.rows /\ lost \subseteq Range(parked_active_kv) /\ gone \cap Range(parked_active_kv) = {}
      /\ lost \cap sched.rows = {}
  BY <1>0 DEF Owns, P!Accounted
<1> HIDE DEF gone, lost
<1>5. Owns(sched', Range(parked_active_kv'), AcceptedBy(reply))
  BY <1>0, <1>1, <1>3, <1>4, EvictOwns, OwnsNoneParked
<1>a. PICK t : t = Core!Evict(sched, gone)
  OBVIOUS
<1>b. /\ t.rows = sched.rows \ gone /\ t.done = sched.done \ gone /\ t.tok = sched.tok
      /\ t.phase = IF gone = {} \/ sched.rows \ gone # {} THEN sched.phase
                   ELSE IF sched.phase = "Admitting" THEN "Idle"
                   ELSE IF sched.phase = "Decoding" THEN "Finished"
                   ELSE sched.phase
  BY <1>0, <1>a, EvictFields DEF Owns
<1>6. /\ sched'.rows = sched.rows \ gone /\ sched'.done = sched.done \ gone /\ sched'.tok = sched.tok
      /\ sched'.phase \in {sched.phase, "Finished"} /\ sched'.phase # "Admitting"
      /\ sched'.phase = "Decoding" => sched.phase = "Decoding"
  BY <1>0, <1>1, <1>a, <1>b
<1>c. {r \in sched'.rows : sched'.tok[r] = 0} = {r \in sched.rows : sched.tok[r] = 0} \ gone
  BY <1>6
<1>d. {in_flight_mid_admit'} \ {NoRequest} = ({in_flight_mid_admit} \ {NoRequest}) \ gone
  <2>1. NoRequest \notin gone
    BY <1>4, <1>0, SoundFacts, NoRequestIsNone DEF Owns
  <2>2. CASE in_flight_mid_admit \in gone
    BY <1>1, <2>2
  <2>3. CASE in_flight_mid_admit \notin gone
    BY <1>1, <2>3
  <2> QED
    BY <2>2, <2>3
<1>7. Mid(sched', in_flight_mid_admit')
  BY <1>0, <1>6, <1>c, <1>d DEF Mid
<1>8. Batch(sched, parked_active_kv, in_flight_mid_admit, last_event, reply)'
  BY <1>0, <1>3, <1>5, <1>6, <1>7 DEF Batch
<1>9. event_txs' = sched'.rows \union Range(parked_active_kv')
  BY <1>0, <1>1, <1>3, <1>4, <1>6
<1>10. Place(pc, sched, parked_active_kv, in_flight_mid_admit, event_txs)'
  BY <1>0, <1>6, <1>9 DEF Place, Assembling, Windows, Prefills, Streams
<1> QED
  BY <1>2, <1>8, <1>10 DEF Kept

\* Parking a row of a batch with no mid-admit in flight.
LEMMA ParkKeeps ==
  ASSUME IInv, pc \notin Assembling \union {"stopped"}, in_flight_mid_admit = NoRequest,
         NEW r \in Parkable, NEW s, s = Core!Park(sched, r),
         NEW p, p = Append(parked_active_kv, r)
  PROVE  /\ Owns(s, Range(p), AcceptedBy(reply)) /\ p \in Seq(Requests) /\ IsInjective(p)
         /\ Mid(s, NoRequest) /\ s.done = sched.done /\ s.phase = "Decoding" /\ sched.phase = "Decoding"
         /\ event_txs = s.rows \union Range(p)
<1>0. /\ Owns(sched, Range(parked_active_kv), AcceptedBy(reply))
      /\ parked_active_kv \in Seq(Requests) /\ IsInjective(parked_active_kv)
      /\ Mid(sched, NoRequest)
      /\ event_txs = sched.rows \union Range(parked_active_kv)
  BY RollingBatch
<1>1. sched.phase = "Decoding" /\ r \in Requests /\ Core!CanPark(sched, r)
  BY DEF Parkable
<1>a. PICK q : q = Range(parked_active_kv)
  OBVIOUS
<1>b. PICK u : u = AcceptedBy(reply)
  OBVIOUS
<1>c. Owns(sched, q, u)
  BY <1>0, <1>a, <1>b
<1>d. /\ Owns(Core!Park(sched, r), q \union {r}, u)
      /\ r \in sched.rows /\ r \notin q /\ sched.tok[r] > 0
      /\ Core!Park(sched, r).rows = sched.rows \ {r} /\ Core!Park(sched, r).phase = sched.phase
      /\ Core!Park(sched, r).done = sched.done /\ Core!Park(sched, r).tok = sched.tok
  BY <1>1, <1>c, ParkOwns
<1>2. /\ Owns(s, Range(parked_active_kv) \union {r}, AcceptedBy(reply))
      /\ r \in sched.rows /\ r \notin Range(parked_active_kv) /\ sched.tok[r] > 0
      /\ s.rows = sched.rows \ {r} /\ s.phase = sched.phase /\ s.done = sched.done /\ s.tok = sched.tok
  BY <1>a, <1>b, <1>d
<1>3. p \in Seq(Requests) /\ IsInjective(p) /\ Range(p) = Range(parked_active_kv) \union {r}
  BY <1>0, <1>1, <1>2, AppendOf
<1>4. Mid(s, NoRequest)
  BY <1>0, <1>1, <1>2 DEF Mid
<1>5. event_txs = s.rows \union Range(p)
  BY <1>0, <1>2, <1>3
<1> QED
  BY <1>1, <1>2, <1>3, <1>4, <1>5

\* Memory pressure parks a row, or nothing.
LEMMA PressKeeps ==
  ASSUME IInv, Press, UNCHANGED client
  PROVE  Kept'
<1> USE DEF Press
<1>1. InLine(cmds, admission_queue, reply, client)'
  BY RollingBatch
<1>2. in_flight_mid_admit' = in_flight_mid_admit /\ event_txs' = event_txs /\ last_event' = last_event
      /\ reply' = reply /\ sched.done \subseteq last_event /\ last_event \subseteq AcceptedBy(reply)
      /\ sched.phase # "Admitting"
  BY RollingBatch DEF midVars, Assembling, Windows, Prefills
<1>3. CASE UNCHANGED <<sched, parked_active_kv>>
  <2>1. Batch(sched, parked_active_kv, in_flight_mid_admit, last_event, reply)'
    BY <1>2, <1>3 DEF IInv, Kept
  <2>2. sched.phase = "Finished" => in_flight_mid_admit = NoRequest
    BY RollingBatch, SoundFacts DEF Mid, Owns
  <2>3. Place(pc, sched, parked_active_kv, in_flight_mid_admit, event_txs)'
    BY <1>2, <1>3, <2>2 DEF Place, Assembling, Windows, Prefills, Streams, IInv, Kept
  <2> QED
    BY <1>1, <2>1, <2>3 DEF Kept
<1>4. ASSUME in_flight_mid_admit = NoRequest, NEW r \in Parkable,
             sched' = Core!Park(sched, r), ParkRow(r)
      PROVE  Kept'
  <2>1. parked_active_kv' = Append(parked_active_kv, r) /\ pc \notin Assembling \union {"stopped"}
    BY <1>4 DEF ParkRow, Assembling, Windows, Prefills
  <2>2. /\ Owns(sched', Range(parked_active_kv'), AcceptedBy(reply)) /\ parked_active_kv' \in Seq(Requests)
        /\ IsInjective(parked_active_kv') /\ Mid(sched', NoRequest) /\ sched'.done = sched.done
        /\ sched'.phase = "Decoding" /\ sched.phase = "Decoding"
        /\ event_txs = sched'.rows \union Range(parked_active_kv')
    BY <1>4, <2>1, ParkKeeps
  <2>3. Batch(sched, parked_active_kv, in_flight_mid_admit, last_event, reply)'
    BY <1>2, <1>4, <2>2 DEF Batch
  <2>4. Place(pc, sched, parked_active_kv, in_flight_mid_admit, event_txs)'
    BY <1>2, <2>2 DEF Place, Assembling, Windows, Prefills, Streams
  <2> QED
    BY <1>1, <2>3, <2>4 DEF Kept
<1> QED
  BY <1>3, <1>4

\* A decode step and the collection of the rows it ended.
LEMMA StepKeeps ==
  ASSUME IInv, Step, UNCHANGED client
  PROVE  Kept'
<1> USE DEF Step, PicksStep
<1>0. /\ Owns(sched, Range(parked_active_kv), AcceptedBy(reply))
      /\ parked_active_kv \in Seq(Requests) /\ IsInjective(parked_active_kv)
      /\ Mid(sched, in_flight_mid_admit)
      /\ sched.done \subseteq last_event /\ last_event \subseteq AcceptedBy(reply)
      /\ event_txs = sched.rows \union Range(parked_active_kv)
  BY RollingBatch DEF Assembling, Windows, Prefills
<1>1. PICK eos \in SUBSET Core!Decodable(sched) :
        /\ Deliver(Core!Step(sched, eos))
        /\ sched' = Core!GcFinishedRows(Core!Step(sched, eos))
        /\ event_txs' = event_txs \ Core!Step(sched, eos).done
  OBVIOUS
<1>2. PICK t : t = Core!Step(sched, eos)
  OBVIOUS
<1>3. /\ Owns(sched', Range(parked_active_kv), AcceptedBy(reply))
      /\ t.rows = sched.rows /\ sched'.rows = sched.rows \ t.done /\ sched'.done = {}
      /\ t.done \subseteq sched.rows
      /\ sched'.phase \in {"Decoding", "Finished"}
      /\ {r \in sched'.rows : sched'.tok[r] = 0} = {r \in sched.rows : sched.tok[r] = 0}
  BY <1>0, <1>1, <1>2, StepOwns
<1>4. last_event' \subseteq AcceptedBy(reply)
  <2>1. sched.rows \subseteq AcceptedBy(reply)
    BY <1>0 DEF Owns, P!Accounted
  <2> QED
    BY <1>0, <1>1, <1>2, <1>3, <2>1 DEF Deliver
<1>5. InLine(cmds, admission_queue, reply, client)'
  BY RollingBatch
<1>6. sched.phase = "Decoding"
  BY DEF Core!CanStep
<1>7. Mid(sched', in_flight_mid_admit)
  BY <1>0, <1>3, <1>6 DEF Mid
<1>8. Batch(sched, parked_active_kv, in_flight_mid_admit, last_event, reply)'
  BY <1>0, <1>3, <1>4, <1>7 DEF Batch, midVars
<1>9. event_txs' = sched'.rows \union Range(parked_active_kv)
  <2>1. sched.rows \cap Range(parked_active_kv) = {}
    BY <1>0 DEF Owns, P!Accounted
  <2> QED
    BY <1>0, <1>1, <1>2, <1>3, <2>1
<1>10. Place(pc, sched, parked_active_kv, in_flight_mid_admit, event_txs)'
  BY <1>3, <1>9 DEF Place, Assembling, Windows, Prefills, Streams, midVars
<1> QED
  BY <1>5, <1>8, <1>10 DEF Kept

\* A failed step drops everything, the parked requests included.
LEMMA StepFailsKeeps ==
  ASSUME IInv, StepFails, UNCHANGED client
  PROVE  Kept'
<1> USE DEF StepFails
<1>0. Owns(sched, {}, AcceptedBy(reply))
  BY RollingBatch, OwnsNoneParked
<1>1. InLine(cmds, admission_queue, reply, client)' /\ AcceptedBy(reply') = AcceptedBy(reply)
  BY LineRejected, RollingBatch
<1>2. CASE sched.poisoned
  <2>1. DropBatch(sched) /\ Owns(Core!EvictAll(sched), {}, AcceptedBy(reply)) /\ P!Sound(sched)
    BY <1>0, <1>2, EvictAllOwns DEF Owns
  <2> QED
    BY <1>1, <2>1, DropBatchKeeps
<1>3. CASE ~sched.poisoned
  <2>1. /\ DropBatch(Core!StepFails(sched)) /\ P!Sound(Core!StepFails(sched))
        /\ Owns(Core!EvictAll(Core!StepFails(sched)), {}, AcceptedBy(reply))
    BY <1>0, <1>3, FailedStepOwns
  <2> QED
    BY <1>1, <2>1, DropBatchKeeps
<1> QED
  BY <1>2, <1>3

-----------------------------------------------------------------------------
(* The rolling loop takes commands and advances the mid-admit              *)

\* The rolling loop takes a request from the line into scheduler s, which holds
\* what the batch holds.
LEMMA BeganMidAdmit ==
  ASSUME IInv, NEW s, NEW r \in Requests, NEW refused, reply[r] = "none",
         in_flight_mid_admit = NoRequest, s.phase # "Admitting", Mid(s, NoRequest),
         s.done = sched.done,
         parked_active_kv' \in Seq(Requests), IsInjective(parked_active_kv'),
         Owns(s, Range(parked_active_kv'), AcceptedBy(reply)),
         event_txs = s.rows \union Range(parked_active_kv'),
         BeginMidAdmit(s, r, refused), last_event' = last_event,
         refused \in {"tail", "drain"}
  PROVE  /\ Answers(r)
         /\ Batch(sched, parked_active_kv, in_flight_mid_admit, last_event, reply)'
         /\ Place(pc, sched, parked_active_kv, in_flight_mid_admit, event_txs)'
<1>0. reply \in Replies /\ sched.done \subseteq last_event /\ last_event \subseteq AcceptedBy(reply)
  BY RollingBatch DEF InLine
<1>a. PICK p : p = Range(parked_active_kv')
  OBVIOUS
<1>b. Owns(s, p, AcceptedBy(reply)) /\ event_txs = s.rows \union p
  BY <1>a
<1>1. /\ Answers(r)
      /\ Owns(sched', p, AcceptedBy(reply')) /\ AcceptedBy(reply) \subseteq AcceptedBy(reply')
      /\ event_txs' = sched'.rows \union p /\ sched'.done = s.done
      /\ sched'.phase # "Admitting"
      /\ Mid(sched', in_flight_mid_admit')
      /\ \/ pc' = "advance" /\ in_flight_mid_admit' = r
         \/ pc' = refused /\ in_flight_mid_admit' = NoRequest
  BY <1>0, <1>b, BeginMidAdmitKeeps
<1>2. Batch(sched, parked_active_kv, in_flight_mid_admit, last_event, reply)'
  BY <1>0, <1>a, <1>1 DEF Batch
<1>3. Place(pc, sched, parked_active_kv, in_flight_mid_admit, event_txs)'
  BY <1>a, <1>1, NoRequestIsNone DEF Place, Assembling, Windows, Prefills, Streams
<1> QED
  BY <1>1, <1>2, <1>3

\* The command at the head of the channel has no answer yet.
LEMMA HeadUnanswered ==
  ASSUME IInv
  PROVE  /\ cmds # <<>> => Head(cmds) \in Requests /\ reply[Head(cmds)] = "none"
         /\ admission_queue # <<>> =>
              Head(admission_queue) \in Requests /\ reply[Head(admission_queue)] = "none"
         /\ reply \in Replies
BY TailOf DEF IInv, Kept, InLine

\* A command with room for its request.
LEMMA AdmitDirectKeeps ==
  ASSUME IInv, AdmitDirect, UNCHANGED client
  PROVE  Kept'
<1> USE DEF AdmitDirect, PicksAdmit
<1>1. /\ Head(cmds) \in Requests /\ reply[Head(cmds)] = "none"
  BY HeadUnanswered
<1>2. /\ Owns(sched, Range(parked_active_kv), AcceptedBy(reply))
      /\ parked_active_kv \in Seq(Requests) /\ IsInjective(parked_active_kv)
      /\ Mid(sched, NoRequest) /\ sched.phase # "Admitting"
      /\ event_txs = sched.rows \union Range(parked_active_kv)
  BY RollingBatch DEF Assembling, Windows, Prefills
<1>3. /\ Answers(Head(cmds))
      /\ Batch(sched, parked_active_kv, in_flight_mid_admit, last_event, reply)'
      /\ Place(pc, sched, parked_active_kv, in_flight_mid_admit, event_txs)'
  BY <1>1, <1>2, BeganMidAdmit
<1>4. InLine(cmds, admission_queue, reply, client)'
  BY <1>3, RollingBatch, LineTakesCommand DEF Answers
<1> QED
  BY <1>3, <1>4 DEF Kept

\* A command whose request takes the place of a row parked for it.
LEMMA AdmitByParkingKeeps ==
  ASSUME IInv, AdmitByParking, UNCHANGED client
  PROVE  Kept'
<1> USE DEF AdmitByParking, PicksAdmit
<1>1. /\ Head(cmds) \in Requests /\ reply[Head(cmds)] = "none"
  BY HeadUnanswered
<1>2. pc \notin Assembling \union {"stopped"} /\ in_flight_mid_admit = NoRequest
  BY DEF Assembling, Windows, Prefills
<1>3. PICK r \in Parkable : ParkRow(r) /\ BeginMidAdmit(Core!Park(sched, r), Head(cmds), "tail")
  OBVIOUS
<1>4. PICK s : s = Core!Park(sched, r)
  OBVIOUS
<1>5. parked_active_kv' = Append(parked_active_kv, r)
  BY <1>3 DEF ParkRow
<1>6. /\ Owns(s, Range(parked_active_kv'), AcceptedBy(reply)) /\ parked_active_kv' \in Seq(Requests)
      /\ IsInjective(parked_active_kv') /\ Mid(s, NoRequest) /\ s.done = sched.done
      /\ s.phase = "Decoding"
      /\ event_txs = s.rows \union Range(parked_active_kv')
  BY <1>2, <1>4, <1>5, ParkKeeps
<1>7. BeginMidAdmit(s, Head(cmds), "tail")
  BY <1>3, <1>4
<1>8. /\ Answers(Head(cmds))
      /\ Batch(sched, parked_active_kv, in_flight_mid_admit, last_event, reply)'
      /\ Place(pc, sched, parked_active_kv, in_flight_mid_admit, event_txs)'
  BY <1>1, <1>6, <1>7, BeganMidAdmit
<1>9. InLine(cmds, admission_queue, reply, client)'
  BY <1>8, RollingBatch, LineTakesCommand DEF Answers
<1> QED
  BY <1>8, <1>9 DEF Kept

\* A command without room.
LEMMA AdmitQueuedKeeps ==
  ASSUME IInv, AdmitQueued, UNCHANGED client
  PROVE  Kept'
<1> USE DEF AdmitQueued, PicksAdmit
<1>1. InLine(cmds, admission_queue, reply, client)' /\ AcceptedBy(reply') = AcceptedBy(reply)
  BY RollingBatch, LineEnqueues
<1>2. Batch(sched, parked_active_kv, in_flight_mid_admit, last_event, reply)'
  BY <1>1 DEF IInv, Kept, Batch, midVars
<1>3. Place(pc, sched, parked_active_kv, in_flight_mid_admit, event_txs)'
  BY DEF IInv, Kept, Place, Assembling, Windows, Prefills, Streams, midVars
<1> QED
  BY <1>1, <1>2, <1>3 DEF Kept

\* The select picks the mid-admit.
LEMMA PicksAdvanceKeeps ==
  ASSUME IInv, PicksAdvance, UNCHANGED client
  PROVE  Kept'
<1> USE DEF PicksAdvance
<1>1. InLine(cmds, admission_queue, reply, client)'
  BY RollingBatch DEF ownVars
<1>2. Batch(sched, parked_active_kv, in_flight_mid_admit, last_event, reply)'
  BY DEF IInv, Kept, ownVars, midVars
<1>3. Place(pc, sched, parked_active_kv, in_flight_mid_admit, event_txs)'
  BY DEF IInv, Kept, Place, Assembling, Windows, Prefills, Streams, ownVars, midVars
<1> QED
  BY <1>1, <1>2, <1>3 DEF Kept

\* The row of a mid-admit is in a decoding batch.
LEMMA MidAdmitDecodes ==
  ASSUME IInv, pc = "advance"
  PROVE  /\ in_flight_mid_admit \in sched.rows /\ sched.tok[in_flight_mid_admit] = 0
         /\ Core!CanStep(sched) /\ in_flight_mid_admit \in Requests
<1>1. /\ Owns(sched, Range(parked_active_kv), AcceptedBy(reply))
      /\ Mid(sched, in_flight_mid_admit) /\ sched.phase # "Admitting"
      /\ in_flight_mid_admit # NoRequest
  BY RollingBatch DEF Assembling, Windows, Prefills, IInv, Kept, Place
<1>2. in_flight_mid_admit \in sched.rows /\ sched.tok[in_flight_mid_admit] = 0
  BY <1>1 DEF Mid
<1>3. sched.phase = "Decoding"
  BY <1>1, <1>2, SoundFacts DEF Owns
<1>4. ~sched.poisoned
  BY <1>1, <1>3 DEF Owns, Recoverable
<1> QED
  BY <1>1, <1>2, <1>3, <1>4, SoundFacts DEF Core!CanStep, Owns

\* A chunk of the mid-admit; the last one gives the row its first token.
LEMMA AdvanceMidAdmitKeeps ==
  ASSUME IInv, AdvanceMidAdmit, UNCHANGED client
  PROVE  Kept'
<1> USE DEF AdvanceMidAdmit
<1>0. pc = "advance" /\ pc' = "tail"
  OBVIOUS
<1>1. InLine(cmds, admission_queue, reply, client)'
  BY RollingBatch
<1>2. CASE chunks_left > 1
  <2>1. Batch(sched, parked_active_kv, in_flight_mid_admit, last_event, reply)'
    BY <1>2 DEF IInv, Kept
  <2>2. Place(pc, sched, parked_active_kv, in_flight_mid_admit, event_txs)'
    BY <1>2 DEF IInv, Kept, Place, Assembling, Windows, Prefills, Streams
  <2> QED
    BY <1>1, <2>1, <2>2 DEF Kept
<1>3. CASE ~(chunks_left > 1)
  <2>0. PICK r : r = in_flight_mid_admit
    OBVIOUS
  <2>1. PICK eos \in SUBSET {r} : sched' = Core!FinalizeMid(sched, r, eos) /\ Deliver(sched')
    BY <1>3, <2>0
  <2>2. /\ Owns(sched, Range(parked_active_kv), AcceptedBy(reply))
        /\ parked_active_kv \in Seq(Requests) /\ IsInjective(parked_active_kv)
        /\ Mid(sched, r) /\ sched.phase # "Admitting"
        /\ sched.done \subseteq last_event /\ last_event \subseteq AcceptedBy(reply)
        /\ event_txs = sched.rows \union Range(parked_active_kv)
    BY <1>0, <2>0, RollingBatch DEF Assembling, Windows, Prefills
  <2>3. r \in sched.rows /\ sched.tok[r] = 0 /\ Core!CanStep(sched) /\ r \in Requests
    BY <1>0, <2>0, MidAdmitDecodes
  <2>a. PICK t : t = Core!FinalizeMid(sched, r, eos)
    OBVIOUS
  <2>b. PICK p : p = Range(parked_active_kv)
    OBVIOUS
  <2>c. PICK u : u = AcceptedBy(reply)
    OBVIOUS
  <2>d. Owns(sched, p, u)
    BY <2>2, <2>b, <2>c
  <2>e. /\ Owns(t, p, u)
        /\ t.rows = sched.rows /\ t.phase = sched.phase
        /\ {q \in t.rows : t.tok[q] = 0} = {q \in sched.rows : sched.tok[q] = 0} \ {r}
    BY <2>3, <2>a, <2>d, FinalizeMidOwns
  <2>4. /\ Owns(sched', Range(parked_active_kv), AcceptedBy(reply))
        /\ sched'.rows = sched.rows /\ sched'.phase = sched.phase
        /\ {q \in sched'.rows : sched'.tok[q] = 0} = {q \in sched.rows : sched.tok[q] = 0} \ {r}
    BY <2>1, <2>a, <2>b, <2>c, <2>e
  <2>5. sched'.done \subseteq last_event' /\ last_event' \subseteq AcceptedBy(reply)
    BY <2>1, <2>2, <2>4, DeliverKeeps
  <2>6. Mid(sched', NoRequest)
    <3>1. {q \in sched.rows : sched.tok[q] = 0} = {r} \ {NoRequest}
      BY <2>2, <2>3 DEF Mid, Core!CanStep
    <3> QED
      BY <2>4, <3>1 DEF Mid
  <2>7. Batch(sched, parked_active_kv, in_flight_mid_admit, last_event, reply)'
    BY <1>3, <2>2, <2>4, <2>5, <2>6 DEF Batch
  <2>8. Place(pc, sched, parked_active_kv, in_flight_mid_admit, event_txs)'
    BY <1>0, <2>2, <2>4 DEF Place, Assembling, Windows, Prefills, Streams
  <2> QED
    BY <1>1, <2>7, <2>8 DEF Kept
<1> QED
  BY <1>2, <1>3

\* A chunk fails: row, stream and handle go together.
LEMMA AdvanceFailsKeeps ==
  ASSUME IInv, AdvanceFails, UNCHANGED client
  PROVE  Kept'
<1> USE DEF AdvanceFails, Goto
<1>0. PICK r : r = in_flight_mid_admit
  OBVIOUS
<1>1. /\ Owns(sched, Range(parked_active_kv), AcceptedBy(reply))
      /\ parked_active_kv \in Seq(Requests) /\ IsInjective(parked_active_kv)
      /\ Mid(sched, r) /\ sched.phase # "Admitting"
      /\ sched.done \subseteq last_event /\ last_event \subseteq AcceptedBy(reply)
      /\ event_txs = sched.rows \union Range(parked_active_kv)
  BY <1>0, RollingBatch DEF Assembling, Windows, Prefills
<1>2. r \in sched.rows /\ sched.tok[r] = 0 /\ Core!CanStep(sched) /\ r \in Requests
  BY <1>0, MidAdmitDecodes
<1>3. sched' = Core!Evict(sched, {r}) /\ event_txs' = event_txs \ {r} /\ in_flight_mid_admit' = NoRequest
  BY <1>0
<1>4. Owns(sched', Range(parked_active_kv), AcceptedBy(reply))
  BY <1>1, <1>2, <1>3, EvictOwns
<1>a. PICK t : t = Core!Evict(sched, {r})
  OBVIOUS
<1>b. /\ t.rows = sched.rows \ {r} /\ t.done = sched.done \ {r} /\ t.tok = sched.tok
      /\ t.phase \in {"Decoding", "Finished"}
  BY <1>1, <1>2, <1>a, EvictFields DEF Owns, Core!CanStep
<1>5. /\ sched'.rows = sched.rows \ {r} /\ sched'.done \subseteq sched.done /\ sched'.tok = sched.tok
      /\ sched'.phase \in {"Decoding", "Finished"}
  BY <1>3, <1>a, <1>b
<1>6. Mid(sched', NoRequest)
  <2>1. {q \in sched.rows : sched.tok[q] = 0} = {r} \ {NoRequest}
    BY <1>1, <1>2 DEF Mid, Core!CanStep
  <2>2. {q \in sched'.rows : sched'.tok[q] = 0} = {q \in sched.rows : sched.tok[q] = 0} \ {r}
    BY <1>5
  <2> QED
    BY <2>1, <2>2 DEF Mid
<1>7. r \notin Range(parked_active_kv)
  BY <1>1, <1>2 DEF Owns, P!Accounted
<1>8. InLine(cmds, admission_queue, reply, client)'
  BY RollingBatch
<1>9. Batch(sched, parked_active_kv, in_flight_mid_admit, last_event, reply)'
  BY <1>1, <1>3, <1>4, <1>5, <1>6 DEF Batch
<1>10. Place(pc, sched, parked_active_kv, in_flight_mid_admit, event_txs)'
  <2>1. event_txs' = sched'.rows \union Range(parked_active_kv)
    BY <1>1, <1>3, <1>5, <1>7
  <2> QED
    BY <1>5, <2>1 DEF Place, Assembling, Windows, Prefills, Streams
<1> QED
  BY <1>8, <1>9, <1>10 DEF Kept

\* The channel is closed while the driver decodes.
LEMMA ShutdownKeeps ==
  ASSUME IInv, Shutdown, UNCHANGED client
  PROVE  Kept'
<1> USE DEF Shutdown, Goto
<1>1. InLine(cmds, admission_queue, reply, client)' /\ AcceptedBy(reply') = AcceptedBy(reply)
  BY RollingBatch, LineRejected
<1>2. /\ Owns(sched, {}, AcceptedBy(reply)) /\ Mid(sched, in_flight_mid_admit)
      /\ sched.done \subseteq last_event /\ last_event \subseteq AcceptedBy(reply)
  BY RollingBatch, OwnsNoneParked
<1>3. Batch(sched, parked_active_kv, in_flight_mid_admit, last_event, reply)'
  BY <1>1, <1>2, EmptyOf DEF Batch, midVars
<1>4. Place(pc, sched, parked_active_kv, in_flight_mid_admit, event_txs)'
  BY DEF Place, Assembling, Windows, Prefills, Streams
<1> QED
  BY <1>1, <1>3, <1>4 DEF Kept

-----------------------------------------------------------------------------
(* After a step, and the handoff of an empty scheduler                     *)

\* A row of a full batch is parked for the queue.
LEMMA ParkForQueueKeeps ==
  ASSUME IInv, ParkForQueue, UNCHANGED client
  PROVE  Kept'
<1> USE DEF ParkForQueue
<1>1. InLine(cmds, admission_queue, reply, client)'
  BY RollingBatch
<1>2. /\ in_flight_mid_admit' = in_flight_mid_admit /\ event_txs' = event_txs
      /\ last_event' = last_event /\ reply' = reply
      /\ sched.done \subseteq last_event /\ last_event \subseteq AcceptedBy(reply)
      /\ sched.phase # "Admitting"
  BY RollingBatch DEF midVars, Assembling, Windows, Prefills
<1>3. CASE UNCHANGED <<sched, parked_active_kv>>
  <2>1. Batch(sched, parked_active_kv, in_flight_mid_admit, last_event, reply)'
    BY <1>2, <1>3 DEF IInv, Kept
  <2>2. Place(pc, sched, parked_active_kv, in_flight_mid_admit, event_txs)'
    BY <1>2, <1>3 DEF Place, Assembling, Windows, Prefills, Streams, IInv, Kept
  <2> QED
    BY <1>1, <2>1, <2>2 DEF Kept
<1>4. ASSUME in_flight_mid_admit = NoRequest, NEW r \in Parkable,
             sched' = Core!Park(sched, r), ParkRow(r)
      PROVE  Kept'
  <2>1. parked_active_kv' = Append(parked_active_kv, r) /\ pc \notin Assembling \union {"stopped"}
    BY <1>4 DEF ParkRow, Assembling, Windows, Prefills
  <2>2. /\ Owns(sched', Range(parked_active_kv'), AcceptedBy(reply)) /\ parked_active_kv' \in Seq(Requests)
        /\ IsInjective(parked_active_kv') /\ Mid(sched', NoRequest) /\ sched'.done = sched.done
        /\ sched'.phase = "Decoding"
        /\ event_txs = sched'.rows \union Range(parked_active_kv')
    BY <1>4, <2>1, ParkKeeps
  <2>3. Batch(sched, parked_active_kv, in_flight_mid_admit, last_event, reply)'
    BY <1>2, <1>4, <2>2 DEF Batch
  <2>4. Place(pc, sched, parked_active_kv, in_flight_mid_admit, event_txs)'
    BY <1>2, <1>4, <2>2 DEF Place, Assembling, Windows, Prefills, Streams
  <2> QED
    BY <1>1, <2>3, <2>4 DEF Kept
<1> QED
  BY <1>3, <1>4

\* One turn of drain_admission_queue.
LEMMA DrainKeeps ==
  ASSUME IInv, Drain, UNCHANGED client
  PROVE  Kept'
<1> USE DEF Drain
<1>0. pc = "drain" /\ in_flight_mid_admit = NoRequest
  BY DEF IInv, Kept, Place
<1>1. /\ InLine(cmds, admission_queue, reply, client)
      /\ Owns(sched, Range(parked_active_kv), AcceptedBy(reply))
      /\ parked_active_kv \in Seq(Requests) /\ IsInjective(parked_active_kv)
      /\ Mid(sched, NoRequest) /\ sched.phase # "Admitting"
      /\ event_txs = sched.rows \union Range(parked_active_kv)
  BY <1>0, RollingBatch DEF Assembling, Windows, Prefills
<1>2. CASE pc' = "tail" /\ UNCHANGED <<sched, event_txs, admission_queue, midVars, reply>>
  <2>1. InLine(cmds, admission_queue, reply, client)'
    BY <1>1, <1>2
  <2>2. Batch(sched, parked_active_kv, in_flight_mid_admit, last_event, reply)'
    BY <1>2 DEF IInv, Kept, midVars
  <2>3. Place(pc, sched, parked_active_kv, in_flight_mid_admit, event_txs)'
    BY <1>1, <1>2 DEF Place, Assembling, Windows, Prefills, Streams
  <2> QED
    BY <2>1, <2>2, <2>3 DEF Kept
<1>3. CASE /\ admission_queue # <<>> /\ admission_queue' = Tail(admission_queue)
           /\ Gone(Head(admission_queue)) /\ UNCHANGED <<pc, sched, event_txs, midVars, reply>>
  <2>1. InLine(cmds, admission_queue, reply, client)'
    <3>1. client[Head(admission_queue)] # "waiting" /\ reply \in Replies
      BY <1>3, HeadUnanswered DEF Gone
    <3>2. InLine(cmds, Tail(admission_queue), reply, client)
      BY <1>1, <1>3, <3>1, LineTakesQueued
    <3> QED
      BY <1>3, <3>2
  <2>2. Batch(sched, parked_active_kv, in_flight_mid_admit, last_event, reply)'
    BY <1>3 DEF IInv, Kept, midVars
  <2>3. Place(pc, sched, parked_active_kv, in_flight_mid_admit, event_txs)'
    BY <1>3 DEF IInv, Kept, midVars
  <2> QED
    BY <2>1, <2>2, <2>3 DEF Kept
<1>4. CASE /\ admission_queue # <<>> /\ admission_queue' = Tail(admission_queue)
           /\ BeginMidAdmit(sched, Head(admission_queue), "drain")
  <2>1. Head(admission_queue) \in Requests /\ reply[Head(admission_queue)] = "none"
    BY <1>4, HeadUnanswered
  <2>2. /\ Answers(Head(admission_queue))
        /\ Batch(sched, parked_active_kv, in_flight_mid_admit, last_event, reply)'
        /\ Place(pc, sched, parked_active_kv, in_flight_mid_admit, event_txs)'
    BY <1>0, <1>1, <1>4, <2>1, BeganMidAdmit
  <2>3. InLine(cmds, admission_queue, reply, client)'
    BY <1>1, <1>4, <2>2, LineTakesQueued DEF Answers
  <2> QED
    BY <2>2, <2>3 DEF Kept
<1> QED
  BY <1>2, <1>3, <1>4

\* The end of a turn of the rolling loop: without rows there is no mid-admit.
LEMMA LoopTailKeeps ==
  ASSUME IInv, LoopTail, UNCHANGED client
  PROVE  Kept'
<1> USE DEF LoopTail
<1>1. InLine(cmds, admission_queue, reply, client)'
  BY RollingBatch DEF ownVars
<1>2. Batch(sched, parked_active_kv, in_flight_mid_admit, last_event, reply)'
  BY DEF IInv, Kept, ownVars, midVars
<1>3. sched.rows = {} => in_flight_mid_admit = NoRequest
  BY RollingBatch DEF Mid
<1>4. Place(pc, sched, parked_active_kv, in_flight_mid_admit, event_txs)'
  BY <1>3 DEF IInv, Kept, Place, Assembling, Windows, Prefills, Streams, ownVars, midVars
<1> QED
  BY <1>1, <1>2, <1>4 DEF Kept

\* The handoff finalizes a batch that ended.
LEMMA HandoffKeeps ==
  ASSUME IInv, Handoff, UNCHANGED client
  PROVE  Kept'
<1> USE DEF Handoff, Goto
<1>0. pc = "handoff" /\ pc' = "restore"
  OBVIOUS
<1>1. /\ Owns(sched, Range(parked_active_kv), AcceptedBy(reply))
      /\ parked_active_kv \in Seq(Requests) /\ IsInjective(parked_active_kv)
      /\ sched.phase # "Admitting" /\ in_flight_mid_admit = NoRequest
      /\ sched.done \subseteq last_event /\ last_event \subseteq AcceptedBy(reply)
      /\ event_txs = sched.rows \union Range(parked_active_kv)
      /\ sched.rows = {} \/ sched.phase = "Finished"
  BY RollingBatch DEF Assembling, Windows, Prefills, IInv, Kept, Place
<1>2. /\ Owns(sched', Range(parked_active_kv), AcceptedBy(reply))
      /\ sched'.rows = {} /\ sched'.phase \notin {"Finished", "Admitting"}
      /\ sched'.done \subseteq sched.done
      /\ event_txs' = Range(parked_active_kv)
  <2>1. CASE sched.phase = "Finished"
    <3>1. sched' = Core!EvictAll(sched) /\ event_txs' = event_txs \ sched.rows
      BY <2>1
    <3>2. sched'.rows = {} /\ sched'.done = {} /\ sched'.phase = "Idle"
      BY <1>1, <3>1, EvictAllFields DEF Owns
    <3>3. Owns(sched', Range(parked_active_kv), AcceptedBy(reply))
      BY <1>1, <3>1, EvictAllOwns
    <3>4. sched.rows \cap Range(parked_active_kv) = {}
      BY <1>1 DEF Owns, P!Accounted
    <3> QED
      BY <1>1, <3>1, <3>2, <3>3, <3>4
  <2>2. CASE sched.phase # "Finished"
    BY <1>1, <2>2
  <2> QED
    BY <2>1, <2>2
<1>3. InLine(cmds, admission_queue, reply, client)'
  BY RollingBatch
<1>4. Batch(sched, parked_active_kv, in_flight_mid_admit, last_event, reply)'
  BY <1>1, <1>2 DEF Batch, Mid, midVars
<1>5. Place(pc, sched, parked_active_kv, in_flight_mid_admit, event_txs)'
  BY <1>1, <1>2 DEF Place, Assembling, Windows, Prefills, Streams, midVars
<1> QED
  BY <1>3, <1>4, <1>5 DEF Kept

\* One turn of the restoring of parked requests.
LEMMA RestoreKeeps ==
  ASSUME IInv, Restore, UNCHANGED client
  PROVE  Kept'
<1> USE DEF Restore
<1>0. pc = "restore" /\ in_flight_mid_admit' = in_flight_mid_admit /\ last_event' = last_event
      /\ reply' = reply
  BY DEF midVars
<1>1. /\ Owns(sched, Range(parked_active_kv), AcceptedBy(reply))
      /\ parked_active_kv \in Seq(Requests) /\ IsInjective(parked_active_kv)
      /\ sched.phase \notin {"Admitting", "Finished"} /\ in_flight_mid_admit = NoRequest
      /\ sched.done \subseteq last_event /\ last_event \subseteq AcceptedBy(reply)
      /\ event_txs = Range(parked_active_kv) /\ sched.rows = {}
  BY <1>0, RollingBatch DEF Assembling, Windows, Prefills, IInv, Kept, Place
<1>2. InLine(cmds, admission_queue, reply, client)'
  BY RollingBatch
<1>3. CASE /\ parked_active_kv = <<>> => pc' = "queue"
           /\ parked_active_kv # <<>> => pc' = "rolling"
           /\ UNCHANGED <<sched, event_txs, parked_active_kv, faults>>
  <2>1. Batch(sched, parked_active_kv, in_flight_mid_admit, last_event, reply)'
    BY <1>0, <1>3 DEF IInv, Kept
  <2>2. Place(pc, sched, parked_active_kv, in_flight_mid_admit, event_txs)'
    BY <1>0, <1>1, <1>3 DEF Place, Assembling, Windows, Prefills, Streams
  <2> QED
    BY <1>2, <2>1, <2>2 DEF Kept
<1>4. ASSUME parked_active_kv # <<>>, parked_active_kv' = Tail(parked_active_kv)
      PROVE  /\ Head(parked_active_kv) \in Range(parked_active_kv)
             /\ parked_active_kv' \in Seq(Requests) /\ IsInjective(parked_active_kv')
             /\ Range(parked_active_kv') = Range(parked_active_kv) \ {Head(parked_active_kv)}
  BY <1>1, <1>4, TailOf
<1>5. CASE /\ parked_active_kv # <<>> /\ parked_active_kv' = Tail(parked_active_kv)
           /\ Core!CanRestore(sched, Head(parked_active_kv))
           /\ sched' = Core!Restore(sched, Head(parked_active_kv))
           /\ pc' = "rolling" /\ UNCHANGED event_txs
  <2>0. PICK r : r = Head(parked_active_kv)
    OBVIOUS
  <2>1. PICK p : p = Range(parked_active_kv)
    OBVIOUS
  <2>2. PICK u : u = AcceptedBy(reply)
    OBVIOUS
  <2>3. Owns(sched, p, u) /\ r \in p /\ Core!CanRestore(sched, r)
    BY <1>1, <1>4, <1>5, <2>0, <2>1, <2>2
  <2>a. PICK t : t = Core!Restore(sched, r)
    OBVIOUS
  <2>b. sched.phase # "Admitting"
    BY <1>1
  <2>4. /\ Owns(t, p \ {r}, u)
        /\ t.rows = sched.rows \union {r} /\ t.phase = "Decoding"
        /\ t.done = sched.done /\ t.tok = sched.tok /\ sched.tok[r] > 0
    <3>1. PICK s : s = sched
      OBVIOUS
    <3>2. Owns(s, p, u) /\ Core!CanRestore(s, r) /\ s.phase # "Admitting" /\ t = Core!Restore(s, r)
      BY <2>3, <2>a, <2>b, <3>1, Zenon
    <3>3. /\ Owns(t, p \ {r}, u) /\ t.rows = s.rows \union {r} /\ t.phase = "Decoding"
          /\ t.done = s.done /\ t.tok = s.tok /\ s.tok[r] > 0
      BY <2>3, <3>2, RestoreOwns
    <3> QED
      BY <3>1, <3>3
  <2>5. /\ Owns(sched', Range(parked_active_kv'), AcceptedBy(reply))
        /\ sched'.rows = {r} /\ sched'.phase = "Decoding" /\ sched'.done = sched.done
        /\ sched'.tok[r] > 0
    BY <1>1, <1>4, <1>5, <2>0, <2>1, <2>2, <2>a, <2>4
  <2>6. Mid(sched', NoRequest)
    BY <2>5 DEF Mid
  <2>7. Batch(sched, parked_active_kv, in_flight_mid_admit, last_event, reply)'
    BY <1>0, <1>1, <1>4, <1>5, <2>5, <2>6 DEF Batch
  <2>8. event_txs' = sched'.rows \union Range(parked_active_kv')
    BY <1>1, <1>4, <1>5, <2>0, <2>5
  <2>9. Place(pc, sched, parked_active_kv, in_flight_mid_admit, event_txs)'
    BY <1>0, <1>1, <1>5, <2>5, <2>8 DEF Place, Assembling, Windows, Prefills, Streams
  <2> QED
    BY <1>2, <2>7, <2>9 DEF Kept
<1>6. CASE /\ parked_active_kv # <<>> /\ parked_active_kv' = Tail(parked_active_kv)
           /\ event_txs' = event_txs \ {Head(parked_active_kv)}
           /\ UNCHANGED <<pc, sched, steps_due>>
  <2>1. Owns(sched', Range(parked_active_kv'), AcceptedBy(reply))
    BY <1>1, <1>4, <1>6, OwnsNoneParked
  <2>2. Batch(sched, parked_active_kv, in_flight_mid_admit, last_event, reply)'
    BY <1>0, <1>1, <1>4, <1>6, <2>1 DEF Batch, Mid
  <2>3. event_txs' = sched'.rows \union Range(parked_active_kv')
    BY <1>1, <1>4, <1>6
  <2>4. Place(pc, sched, parked_active_kv, in_flight_mid_admit, event_txs)'
    BY <1>0, <1>1, <1>6, <2>3 DEF Place, Assembling, Windows, Prefills, Streams
  <2> QED
    BY <1>2, <2>2, <2>4 DEF Kept
<1> QED
  BY <1>3, <1>5, <1>6

-----------------------------------------------------------------------------
(* The next batch, the environment, and every step                         *)

\* Nothing is left of the last batch when the next one is looked for.
LEMMA QueueBatch ==
  ASSUME IInv, pc = "queue"
  PROVE  /\ parked_active_kv = <<>> /\ in_flight_mid_admit = NoRequest
         /\ sched.rows = {} /\ event_txs = {} /\ sched.phase \in {"Idle", "Decoding"}
         /\ last_event \subseteq AcceptedBy(reply)
         /\ Owns(ResetDecoding, {}, AcceptedBy(reply))
         /\ ResetDecoding.rows = {} /\ ResetDecoding.phase = "Idle"
<1>1. /\ parked_active_kv = <<>> /\ in_flight_mid_admit = NoRequest
      /\ sched.rows = {} /\ sched.phase \notin {"Admitting", "Finished"}
      /\ event_txs = sched.rows \union Range(parked_active_kv)
  BY DEF IInv, Kept, Place, Assembling, Windows, Prefills, Streams
<1>2. Owns(sched, {}, AcceptedBy(reply)) /\ last_event \subseteq AcceptedBy(reply)
  BY RollingBatch, OwnsNoneParked
<1>3. sched.phase \in {"Idle", "Decoding"}
  BY <1>1, <1>2, SoundFacts DEF Owns
<1>4. Owns(ResetDecoding, {}, AcceptedBy(reply))
  BY <1>2, EvictAllOwns DEF ResetDecoding
<1>5. ResetDecoding.rows = {} /\ ResetDecoding.phase = "Idle"
  BY <1>1, <1>2, <1>3, EvictAllFields DEF ResetDecoding, Owns
<1> QED
  BY <1>1, <1>2, <1>3, <1>4, <1>5, EmptyOf

\* The head of the queue starts the next batch.
LEMMA BatchFromQueueKeeps ==
  ASSUME IInv, BatchFromQueue, UNCHANGED client
  PROVE  Kept'
<1> USE DEF BatchFromQueue
<1>0. PICK s : s = ResetDecoding
  OBVIOUS
<1>1. /\ parked_active_kv = <<>> /\ in_flight_mid_admit = NoRequest
      /\ last_event \subseteq AcceptedBy(reply) /\ Owns(s, {}, AcceptedBy(reply))
      /\ s.rows = {} /\ s.phase = "Idle" /\ event_txs = s.rows
  BY <1>0, QueueBatch
<1>2. PICK r : r = Head(admission_queue)
  OBVIOUS
<1>3. r \in Requests /\ reply[r] = "none" /\ reply \in Replies
  BY <1>2, HeadUnanswered
<1>4. HandleAdmit(s, r)
  BY <1>0, <1>2
<1>5. /\ Answers(r)
      /\ Owns(sched', {}, AcceptedBy(reply')) /\ AcceptedBy(reply) \subseteq AcceptedBy(reply')
      /\ event_txs' = sched'.rows /\ sched'.done = {}
      /\ sched'.phase \in {"Idle", "Admitting"}
  BY <1>1, <1>3, <1>4, HandleAdmitKeeps
<1>6. InLine(cmds, admission_queue, reply, client)'
  BY <1>2, <1>5, RollingBatch, LineTakesQueued DEF Answers
<1>7. Batch(sched, parked_active_kv, in_flight_mid_admit, last_event, reply)'
  BY <1>1, <1>5, FreshBatchKept DEF midVars
<1>8. sched'.rows = {} <=> sched'.phase = "Idle"
  BY <1>5, SoundFacts DEF Owns
<1>9. Place(pc, sched, parked_active_kv, in_flight_mid_admit, event_txs)'
  BY <1>1, <1>5, <1>8, EmptyOf DEF Place, Assembling, Windows, Prefills, Streams, midVars
<1> QED
  BY <1>6, <1>7, <1>9 DEF Kept

\* Queued requests join it.
LEMMA BatchMoreFromQueueKeeps ==
  ASSUME IInv, BatchMoreFromQueue, UNCHANGED client
  PROVE  Kept'
<1> USE DEF BatchMoreFromQueue
<1>1. /\ parked_active_kv = <<>> /\ in_flight_mid_admit = NoRequest
      /\ event_txs = sched.rows /\ Owns(sched, {}, AcceptedBy(reply))
      /\ sched.done = {} /\ sched.phase = "Admitting" /\ last_event \subseteq AcceptedBy(reply)
  BY FreshBatch DEF Assembling, Place, Windows, Prefills, IInv, Kept
<1>2. CASE /\ pc' \in {"queue_window", "queue_prefill"}
           /\ UNCHANGED <<sched, event_txs, admission_queue, reply>>
  <2>1. InLine(cmds, admission_queue, reply, client)'
    BY <1>2, RollingBatch
  <2>2. Batch(sched, parked_active_kv, in_flight_mid_admit, last_event, reply)'
    BY <1>2 DEF IInv, Kept, midVars
  <2>3. Place(pc, sched, parked_active_kv, in_flight_mid_admit, event_txs)'
    BY <1>1, <1>2, EmptyOf DEF Place, Assembling, Windows, Prefills, Streams, midVars
  <2> QED
    BY <2>1, <2>2, <2>3 DEF Kept
<1>3. CASE /\ admission_queue # <<>> /\ admission_queue' = Tail(admission_queue)
           /\ HandleAdmit(sched, Head(admission_queue)) /\ UNCHANGED pc
  <2>1. PICK r : r = Head(admission_queue)
    OBVIOUS
  <2>2. r \in Requests /\ reply[r] = "none" /\ reply \in Replies /\ HandleAdmit(sched, r)
    BY <1>3, <2>1, HeadUnanswered
  <2>3. /\ Answers(r)
        /\ Owns(sched', {}, AcceptedBy(reply')) /\ AcceptedBy(reply) \subseteq AcceptedBy(reply')
        /\ event_txs' = sched'.rows /\ sched'.done = {} /\ sched'.phase = "Admitting"
    BY <1>1, <2>2, HandleAdmitKeeps
  <2>4. InLine(cmds, admission_queue, reply, client)'
    BY <1>3, <2>1, <2>3, RollingBatch, LineTakesQueued DEF Answers
  <2>5. Batch(sched, parked_active_kv, in_flight_mid_admit, last_event, reply)'
    BY <1>1, <2>3, FreshBatchKept DEF midVars
  <2>6. Place(pc, sched, parked_active_kv, in_flight_mid_admit, event_txs)'
    BY <1>1, <1>3, <2>3, EmptyOf DEF Place, Assembling, Windows, Prefills, Streams, midVars
  <2> QED
    BY <2>4, <2>5, <2>6 DEF Kept
<1> QED
  BY <1>2, <1>3

\* A waiting command starts the next batch.
LEMMA BatchFromCommandKeeps ==
  ASSUME IInv, BatchFromCommand, UNCHANGED client
  PROVE  Kept'
<1> USE DEF BatchFromCommand
<1>0. PICK s : s = ResetDecoding
  OBVIOUS
<1>1. /\ parked_active_kv = <<>> /\ in_flight_mid_admit = NoRequest
      /\ last_event \subseteq AcceptedBy(reply) /\ Owns(s, {}, AcceptedBy(reply))
      /\ s.rows = {} /\ s.phase = "Idle" /\ event_txs = s.rows
  BY <1>0, QueueBatch
<1>2. PICK r : r = Head(cmds)
  OBVIOUS
<1>3. r \in Requests /\ reply[r] = "none" /\ reply \in Replies
  BY <1>2, HeadUnanswered
<1>4. HandleAdmit(s, r)
  BY <1>0, <1>2
<1>5. /\ Answers(r)
      /\ Owns(sched', {}, AcceptedBy(reply')) /\ AcceptedBy(reply) \subseteq AcceptedBy(reply')
      /\ event_txs' = sched'.rows /\ sched'.done = {}
      /\ sched'.phase \in {"Idle", "Admitting"}
  BY <1>1, <1>3, <1>4, HandleAdmitKeeps
<1>6. InLine(cmds, admission_queue, reply, client)'
  BY <1>2, <1>5, RollingBatch, LineTakesCommand DEF Answers
<1>7. Batch(sched, parked_active_kv, in_flight_mid_admit, last_event, reply)'
  BY <1>1, <1>5, FreshBatchKept DEF midVars
<1>8. sched'.rows = {} <=> sched'.phase = "Idle"
  BY <1>5, SoundFacts DEF Owns
<1>9. Place(pc, sched, parked_active_kv, in_flight_mid_admit, event_txs)'
  BY <1>1, <1>5, <1>8, EmptyOf DEF Place, Assembling, Windows, Prefills, Streams, midVars
<1> QED
  BY <1>6, <1>7, <1>9 DEF Kept

\* There is nothing to start a batch with.
LEMMA NoNextBatchKeeps ==
  ASSUME IInv, NoNextBatch, UNCHANGED client
  PROVE  Kept'
<1> USE DEF NoNextBatch
<1>1. InLine(cmds, admission_queue, reply, client)'
  BY RollingBatch
<1>2. Batch(sched, parked_active_kv, in_flight_mid_admit, last_event, reply)'
  BY DEF IInv, Kept, midVars
<1>3. Place(pc, sched, parked_active_kv, in_flight_mid_admit, event_txs)'
  BY QueueBatch, EmptyOf DEF Place, Assembling, Windows, Prefills, Streams, midVars
<1> QED
  BY <1>1, <1>2, <1>3 DEF Kept

\* The rolling loop is left with nothing in hand.
LEMMA BreakRollingKeeps ==
  ASSUME IInv, BreakRolling, UNCHANGED client
  PROVE  Kept'
<1> USE DEF BreakRolling
<1>1. Owns(sched, {}, AcceptedBy(reply))
  BY RollingBatch, OwnsNoneParked
<1>2. Owns(Core!EvictAll(sched), {}, AcceptedBy(reply)) /\ P!Sound(sched)
  BY <1>1, EvictAllOwns DEF Owns
<1> QED
  BY <1>2, RollingBatch, DropBatchKeeps

\* Clients join the line and leave; the governor and the engine touch nothing here.
LEMMA EnvironmentKeeps ==
  ASSUME IInv, Environment
  PROVE  Kept'
<1>0. InLine(cmds, admission_queue, reply, client) /\ Scalars
  BY DEF IInv, Kept
<1>1. ASSUME ownVars' = ownVars, pc' = pc, reply' = reply, last_event' = last_event
      PROVE  /\ Batch(sched, parked_active_kv, in_flight_mid_admit, last_event, reply)'
             /\ Place(pc, sched, parked_active_kv, in_flight_mid_admit, event_txs)'
             /\ admission_queue' = admission_queue
  BY <1>1 DEF IInv, Kept, ownVars, midVars
<1>2. ASSUME NEW r \in Requests, Submit(r) PROVE Kept'
  <2>1. /\ client[r] = "new" /\ Len(cmds) < ChannelCap
        /\ client' = [client EXCEPT ![r] = "waiting"] /\ cmds' = Append(cmds, r)
        /\ ownVars' = ownVars /\ pc' = pc /\ reply' = reply /\ last_event' = last_event
    BY <1>2 DEF Submit
  <2>2. /\ cmds \in Seq(Requests) /\ IsInjective(cmds)
        /\ r \notin Range(cmds) /\ r \notin Range(admission_queue) /\ reply[r] = "none"
        /\ client \in [Requests -> {"new", "waiting", "gone"}]
    BY <1>0, <2>1 DEF InLine, Scalars
  <2>3. /\ cmds' \in Seq(Requests) /\ Len(cmds') = Len(cmds) + 1
        /\ Range(cmds') = Range(cmds) \union {r} /\ IsInjective(cmds')
    BY <2>1, <2>2, AppendOf
  <2>4. Len(cmds') <= ChannelCap
    BY <2>1, <2>2, <2>3, SeqOf, BoundsAreNat
  <2>5. client'[r] = "waiting" /\ \A x \in Requests : x # r => client'[x] = client[x]
    BY <2>1, <2>2
  <2>6. Range(cmds) \subseteq Requests /\ Range(admission_queue) \subseteq Requests
    BY <1>0, SeqOf DEF InLine
  <2>7. InLine(cmds', admission_queue, reply, client')
    BY <1>0, <2>2, <2>3, <2>4, <2>5, <2>6 DEF InLine
  <2> QED
    BY <1>1, <2>1, <2>7 DEF Kept
<1>3. ASSUME NEW r \in Requests, HangUp(r) PROVE Kept'
  <2>1. /\ client[r] = "waiting" /\ client' = [client EXCEPT ![r] = "gone"] /\ cmds' = cmds
        /\ ownVars' = ownVars /\ pc' = pc /\ reply' = reply /\ last_event' = last_event
    BY <1>3 DEF HangUp
  <2>2. client'[r] = "gone" /\ \A x \in Requests : x # r => client'[x] = client[x]
    BY <1>0, <2>1 DEF Scalars
  <2>3. Range(cmds) \subseteq Requests /\ Range(admission_queue) \subseteq Requests
    BY <1>0, SeqOf DEF InLine
  <2>4. InLine(cmds, admission_queue, reply, client')
    BY <1>0, <2>2, <2>3 DEF InLine
  <2> QED
    BY <1>1, <2>1, <2>4 DEF Kept
<1>4. CASE PressureChange \/ Close
  <2>1. /\ client' = client /\ cmds' = cmds
        /\ ownVars' = ownVars /\ pc' = pc /\ reply' = reply /\ last_event' = last_event
    BY <1>4 DEF PressureChange, Close
  <2> QED
    BY <1>0, <1>1, <2>1 DEF Kept
<1> QED
  BY <1>2, <1>3, <1>4 DEF Environment

\* Every step keeps the invariant.
LEMMA NextKeeps == IInv /\ [Next]_vars => IInv'
<1> SUFFICES ASSUME IInv, [Next]_vars PROVE IInv'
  OBVIOUS
<1>1. CASE UNCHANGED vars
  BY <1>1 DEF vars, ownVars, midVars, envVars, IInv, Scalars, Kept
<1>2. CASE Environment
  BY <1>2, ScalarsKept, EnvironmentKeeps DEF IInv, Next
<1>3. CASE Driver
  <2>1. DriverStep /\ UNCHANGED client
    BY <1>3 DEF Driver, envVars
  <2>2. Kept'
    BY <2>1, TopKeeps, FirstAdmitKeeps, OuterClosedKeeps, AdmissionWindowKeeps,
       WindowDeadlineKeeps, SweepKeeps, PrefillKeeps, PrefillFailsKeeps, CancelKeeps,
       PressKeeps, StepKeeps, StepFailsKeeps, AdmitDirectKeeps, AdmitByParkingKeeps,
       AdmitQueuedKeeps, PicksAdvanceKeeps, AdvanceMidAdmitKeeps, AdvanceFailsKeeps,
       ShutdownKeeps, ParkForQueueKeeps, DrainKeeps, LoopTailKeeps, HandoffKeeps,
       RestoreKeeps, BatchFromQueueKeeps, BatchMoreFromQueueKeeps, BatchFromCommandKeeps,
       NoNextBatchKeeps, BreakRollingKeeps
       DEF DriverStep
  <2> QED
    BY <1>3, <2>2, ScalarsKept DEF IInv, Next
<1> QED
  BY <1>1, <1>2, <1>3 DEF Next

-----------------------------------------------------------------------------
(* Theorems                                                                *)

\* The inductive invariant holds in every reachable state.
THEOREM DriverInvariant == Spec => []IInv
<1>1. Init => IInv
  BY Start
<1>2. IInv /\ [Next]_vars => IInv'
  BY NextKeeps
<1> QED
  BY <1>1, <1>2, PTL DEF Spec

\* What the invariant says of the types.
LEMMA TypeOKHolds == IInv => TypeOK
<1> SUFFICES ASSUME IInv PROVE TypeOK
  OBVIOUS
<1>1. /\ Scalars /\ InLine(cmds, admission_queue, reply, client)
      /\ Batch(sched, parked_active_kv, in_flight_mid_admit, last_event, reply)
      /\ Place(pc, sched, parked_active_kv, in_flight_mid_admit, event_txs)
  BY DEF IInv, Kept
<1>2. Owns(sched, Range(parked_active_kv), AcceptedBy(reply)) /\ parked_active_kv \in Seq(Requests)
  BY <1>1 DEF Batch
<1>3. /\ sched \in [ phase : Core!Phases, poisoned : BOOLEAN, rows : SUBSET Requests,
                     tok : [Requests -> Nat], done : SUBSET Requests,
                     charged : SUBSET Requests, reserved : SUBSET Requests ]
      /\ sched.rows \subseteq Requests
  BY <1>2, SoundFacts DEF Owns, P!Sound, P!SchedulerStates, P!Phases, Core!Phases
<1>4. Range(parked_active_kv) \subseteq Requests
  BY <1>2, SeqOf
<1>5. event_txs \subseteq Requests
  <2>1. pc = "stopped" => event_txs = {}
    BY <1>1 DEF Place
  <2>2. pc # "stopped" => event_txs = sched.rows \union Range(parked_active_kv)
    BY <1>1 DEF Place, Streams
  <2> QED
    BY <1>3, <1>4, <2>1, <2>2
<1>6. in_flight_mid_admit \in Requests \union {NoRequest}
  BY <1>1, <1>3 DEF Batch, Mid
<1>7. last_event \subseteq Requests
  BY <1>1 DEF Batch, AcceptedBy
<1> QED
  BY <1>1, <1>2, <1>3, <1>5, <1>6, <1>7 DEF TypeOK, Scalars, InLine, Replies

\* Every variable of the driver stays in its type and every queue within its bound,
\* whatever clients, governor and model do.
THEOREM DriverTypeCorrect == Spec => []TypeOK
BY DriverInvariant, TypeOKHolds, PTL

\* While the driver runs the registered event channels are exactly those of the rows
\* and of the parked requests, and no request is both.
THEOREM StreamsAlwaysOwned == Spec => []StreamsOwned
<1>1. IInv => StreamsOwned
  BY RollingBatch DEF StreamsOwned, Owns, P!Accounted
<1> QED
  BY <1>1, DriverInvariant, PTL

\* The handle of the mid-admit and the one row without a token in a decoding batch
\* appear and disappear together.
THEOREM MidAdmitAlwaysOwnsSlot == Spec => []MidAdmitOwnsSlot
<1>1. IInv => MidAdmitOwnsSlot
  BY DEF IInv, Kept, Batch, Mid, MidAdmitOwnsSlot
<1> QED
  BY <1>1, DriverInvariant, PTL

\* Two queues without repetition and without a common member are one such line.
LEMMA NoLostRequestHolds == IInv => NoLostRequest
<1> SUFFICES ASSUME IInv, NEW r \in Requests, client[r] = "waiting", reply[r] = "none"
             PROVE  \E k \in DOMAIN (cmds \o admission_queue) :
                      {i \in DOMAIN (cmds \o admission_queue) :
                         (cmds \o admission_queue)[i] = r} = {k}
  BY DEF NoLostRequest
<1> DEFINE line == cmds \o admission_queue
<1>1. /\ cmds \in Seq(Requests) /\ IsInjective(cmds)
      /\ admission_queue \in Seq(Requests) /\ IsInjective(admission_queue)
      /\ Range(cmds) \cap Range(admission_queue) = {}
      /\ r \in Range(cmds) \union Range(admission_queue)
  BY DEF IInv, Kept, InLine
<1>2. /\ line \in Seq(Requests) /\ Len(line) = Len(cmds) + Len(admission_queue)
      /\ \A i \in 1..Len(line) :
           line[i] = IF i <= Len(cmds) THEN cmds[i] ELSE admission_queue[i - Len(cmds)]
  BY <1>1, ConcatProperties
<1>3. /\ DOMAIN cmds = 1..Len(cmds) /\ Len(cmds) \in Nat
      /\ DOMAIN admission_queue = 1..Len(admission_queue) /\ Len(admission_queue) \in Nat
      /\ DOMAIN line = 1..Len(line)
  BY <1>1, <1>2, LenProperties
<1> HIDE DEF line
<1>4. \E k \in DOMAIN line : line[k] = r
  <2>1. CASE r \in Range(cmds)
    <3>1. PICK k \in 1..Len(cmds) : cmds[k] = r
      BY <1>3, <2>1 DEF Range
    <3>2. k \in 1..Len(line) /\ line[k] = r
      BY <1>2, <1>3, <3>1
    <3> QED
      BY <1>3, <3>2
  <2>2. CASE r \in Range(admission_queue)
    <3>1. PICK k \in 1..Len(admission_queue) : admission_queue[k] = r
      BY <1>3, <2>2 DEF Range
    <3>2. k + Len(cmds) \in 1..Len(line) /\ line[k + Len(cmds)] = r
      BY <1>2, <1>3, <3>1
    <3> QED
      BY <1>3, <3>2
  <2> QED
    BY <1>1, <2>1, <2>2
<1>5. ASSUME NEW i \in DOMAIN line, NEW j \in DOMAIN line, line[i] = r, line[j] = r
      PROVE  i = j
  <2>0. i \in 1..Len(line) /\ j \in 1..Len(line)
    BY <1>3
  <2>1. CASE i <= Len(cmds) /\ j <= Len(cmds)
    <3>1. i \in DOMAIN cmds /\ j \in DOMAIN cmds /\ cmds[i] = cmds[j]
      BY <1>2, <1>3, <1>5, <2>0, <2>1
    <3> QED
      BY <1>1, <3>1 DEF IsInjective
  <2>2. CASE ~(i <= Len(cmds)) /\ ~(j <= Len(cmds))
    <3>1. /\ i - Len(cmds) \in DOMAIN admission_queue /\ j - Len(cmds) \in DOMAIN admission_queue
          /\ admission_queue[i - Len(cmds)] = admission_queue[j - Len(cmds)]
      BY <1>2, <1>3, <1>5, <2>0, <2>2
    <3>2. i - Len(cmds) = j - Len(cmds)
      BY <1>1, <3>1 DEF IsInjective
    <3> QED
      BY <1>3, <2>0, <3>2
  <2>3. ASSUME NEW a \in 1..Len(line), NEW b \in 1..Len(line), line[a] = r, line[b] = r,
               a <= Len(cmds), ~(b <= Len(cmds))
        PROVE  FALSE
    <3>1. a \in DOMAIN cmds /\ cmds[a] = r
      BY <1>2, <1>3, <2>3
    <3>2. b - Len(cmds) \in DOMAIN admission_queue /\ admission_queue[b - Len(cmds)] = r
      BY <1>2, <1>3, <2>3
    <3> QED
      BY <1>1, <3>1, <3>2 DEF Range
  <2> QED
    BY <1>5, <2>0, <2>1, <2>2, <2>3
<1>6. PICK k \in DOMAIN line : line[k] = r
  BY <1>4
<1>7. {i \in DOMAIN line : line[i] = r} = {k}
  BY <1>5, <1>6
<1> QED
  BY <1>7 DEF line

\* A waiting client without an answer is at exactly one place of channel and queue: no
\* interleaving of windows, drains, parking and failures loses or doubles a request.
THEOREM NoRequestLost == Spec => []NoLostRequest
BY DriverInvariant, NoLostRequestHolds, PTL

\* What the invariant says of the idle receive.
LEMMA IdleOwnsNothingHolds == IInv => IdleOwnsNothing
<1> SUFFICES ASSUME IInv, pc = "outer"
             PROVE  /\ sched.phase = "Idle" /\ sched.rows = {}
                    /\ sched.reserved = {} /\ sched.charged \subseteq SessionFaults
                    /\ event_txs = {} /\ parked_active_kv = <<>>
                    /\ in_flight_mid_admit = NoRequest
  BY DEF IdleOwnsNothing
<1>1. /\ parked_active_kv = <<>> /\ in_flight_mid_admit = NoRequest
      /\ sched.phase = "Idle" /\ event_txs = sched.rows /\ Owns(sched, {}, AcceptedBy(reply))
  BY FreshBatch DEF Assembling, IInv, Kept, Place
<1>2. sched.rows = {} /\ sched.charged \ SessionFaults = sched.rows
  BY <1>1, SoundFacts DEF Owns
<1>3. sched.reserved = {}
  BY <1>1, <1>2, SoundFacts DEF Owns, Recoverable
<1> QED
  BY <1>1, <1>2, <1>3

\* When the driver blocks for a first command it owns no row, stream, parked request,
\* reservation or handle, and no charge but those of failed grammar sessions.
THEOREM IdleAlwaysOwnsNothing == Spec => []IdleOwnsNothing
BY DriverInvariant, IdleOwnsNothingHolds, PTL

\* The budget, the reservations, the phase and the token counts of the scheduler are
\* exact under every sequence of calls the driver makes.
THEOREM LedgersExact == Spec => []CoreInvariants
<1>1. IInv => CoreInvariants
  <2> SUFFICES ASSUME IInv PROVE CoreInvariants
    OBVIOUS
  <2>1. P!Sound(sched)
    BY RollingBatch DEF Owns
  <2> QED
    BY <2>1 DEF CoreInvariants, P!Sound, P!SchedulerStates, P!Budgeted, P!Reserved, P!Phased,
       P!Limited, P!DoneRows, Core!BudgetFollowsRows, Core!ReservedUntilFirstToken,
       Core!PhaseDescribesRows, Core!TokensWithinLimit, P!Limit, Core!Limit
<1> QED
  BY <1>1, DriverInvariant, PTL
=============================================================================
