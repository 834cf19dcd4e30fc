------------------------ MODULE SchedulerCoreProofs ------------------------
(***************************************************************************)
(* For every set of requests, batch size and token limits: the invariants  *)
(* of SchedulerCore, from the inductive invariant CoreIInv.                *)
(*                                                                         *)
(* Sound(s) is what each call keeps of the scheduler alone; its lemmas are *)
(* one per call.  Accounted relates the scheduler to what the caller holds *)
(* and has spent, which is what makes a repeated admission or a restored   *)
(* row keep Sound.                                                         *)
(***************************************************************************)
EXTENDS SchedulerCore, FiniteSetTheorems, TLAPS

Budgeted(s) == s.charged \ SessionFaults = s.rows

Reserved(s) == ~s.poisoned => s.reserved = {r \in s.rows : s.tok[r] = 0}

Phased(s) ==
  /\ s.phase = "Idle" => s.rows = {}
  /\ s.phase = "Admitting" => s.rows # {} /\ \A r \in s.rows : s.tok[r] = 0
  /\ s.phase = "Finished" => s.rows \subseteq s.done

\* Finished rows are rows, and have at least the token that finished them.
DoneRows(s) == s.done \subseteq s.rows /\ \A r \in s.done : s.tok[r] > 0

Limited(s) ==
  \A r \in Requests :
    /\ s.tok[r] <= Limit(r)
    /\ s.tok[r] = Limit(r) /\ r \in s.rows => r \in s.done

\* The rows fit the batch.
Fits(s) == ActiveCount(s) <= BMax

Sound(s) ==
  /\ s \in SchedulerStates /\ Fits(s)
  /\ Budgeted(s) /\ Reserved(s) /\ Phased(s) /\ DoneRows(s) /\ Limited(s)

\* A parked request has a token, is not done and holds no row; a request that
\* was never admitted has no token.
Accounted(s, p, u) ==
  /\ p \subseteq Requests /\ u \subseteq Requests
  /\ s.rows \union p \subseteq u
  /\ s.rows \cap p = {}
  /\ \A r \in p : 0 < s.tok[r] /\ s.tok[r] < MaxNew[r] /\ r \notin SessionFaults
  /\ \A r \in Requests \ u : s.tok[r] = 0

CoreIInv == Sound(sched) /\ Accounted(sched, parked, spent)

USE DEF SchedulerStates, Phases

\* Every limit leaves room for the first token.
LEMMA LimitPositive ==
  ASSUME NEW r \in Requests
  PROVE  Limit(r) \in Nat \ {0} /\ MaxNew[r] <= Limit(r) /\ (Limit(r) > 1 => Limit(r) = MaxNew[r])
BY MaxNewNatural DEF Limit
-----------------------------------------------------------------------------
(* Sound, call by call                                                     *)

\* A batch that fits still fits when rows leave it.
LEMMA FitsSubset ==
  ASSUME NEW R \in SUBSET Requests, NEW Q \in SUBSET R, Cardinality(R) <= BMax
  PROVE  Cardinality(Q) <= BMax
<1>1. IsFiniteSet(R)
  BY RequestsFinite, FS_Subset
<1>2. Cardinality(Q) <= Cardinality(R) /\ IsFiniteSet(Q)
  BY <1>1, FS_Subset
<1>3. Cardinality(Q) \in Nat /\ Cardinality(R) \in Nat
  BY <1>1, <1>2, FS_CardinalityType
<1> QED
  BY <1>2, <1>3, BMaxPositive

\* A batch with a free slot fits one row more.
LEMMA FitsAdd ==
  ASSUME NEW R \in SUBSET Requests, NEW r, Cardinality(R) < BMax
  PROVE  Cardinality(R \union {r}) <= BMax
<1>1. IsFiniteSet(R)
  BY RequestsFinite, FS_Subset
<1>2. Cardinality(R) \in Nat
  BY <1>1, FS_CardinalityType
<1>3. Cardinality(R \union {r}) \in {Cardinality(R), Cardinality(R) + 1}
  BY <1>1, FS_AddElement
<1> QED
  BY <1>2, <1>3, BMaxPositive

\* A scheduler that was just created is sound.
LEMMA NewSound == Sound(NewScheduler)
<1>1. Cardinality({}) <= BMax
  BY FS_EmptySet, BMaxPositive
<1> QED
  BY <1>1, LimitPositive
     DEF Sound, Fits, ActiveCount, NewScheduler, Budgeted, Reserved, Phased,
         DoneRows, Limited

\* Admission charges and reserves for the row it takes.
LEMMA AdmitSound ==
  ASSUME NEW s, Sound(s), NEW r \in Requests \ SessionFaults,
         CanAdmit(s), s.tok[r] = 0, r \notin s.rows
  PROVE  Sound(Admit(s, r))
<1>0. PICK u : u = Admit(s, r)
  OBVIOUS
<1>1. Cardinality(s.rows \union {r}) <= BMax
  BY FitsAdd DEF Sound, CanAdmit, ActiveCount
<1>2. /\ u \in SchedulerStates
      /\ u.rows = s.rows \union {r} /\ u.done = s.done /\ u.tok = s.tok
      /\ u.charged = s.charged \union {r} /\ u.reserved = s.reserved \union {r}
      /\ u.poisoned = s.poisoned
      /\ u.phase = IF s.phase = "Idle" THEN "Admitting" ELSE s.phase
  BY <1>0 DEF Sound, Admit
<1>3. Fits(u)
  BY <1>1, <1>2 DEF Fits, ActiveCount
<1>4. Budgeted(u)
  BY <1>2 DEF Sound, Budgeted
<1>5. Reserved(u)
  BY <1>2 DEF Sound, Reserved
<1>6. Phased(u)
  BY <1>2 DEF Sound, CanAdmit, Phased
<1>7. DoneRows(u)
  BY <1>2 DEF Sound, DoneRows
<1>8. Limited(u)
  BY <1>2, LimitPositive DEF Sound, Limited
<1>9. Sound(u)
  BY <1>2, <1>3, <1>4, <1>5, <1>6, <1>7, <1>8, Zenon DEF Sound
<1> QED
  BY <1>9, <1>0

\* A failed grammar session leaves a charge and nothing else.
LEMMA SessionFailureSound ==
  ASSUME NEW s, Sound(s), NEW r \in SessionFaults
  PROVE  Sound(AdmitSessionFails(s, r))
<1>0. PICK u : u = AdmitSessionFails(s, r)
  OBVIOUS
<1>1. /\ u \in SchedulerStates
      /\ u.rows = s.rows /\ u.done = s.done /\ u.tok = s.tok
      /\ u.charged = s.charged \union {r} /\ u.reserved = s.reserved
      /\ u.poisoned = s.poisoned /\ u.phase = s.phase
  BY <1>0, SessionFaultsAreRequests DEF Sound, AdmitSessionFails
<1>2. Budgeted(u)
  BY <1>1 DEF Sound, Budgeted
<1>3. Reserved(u)
  BY <1>1 DEF Sound, Reserved
<1>4. Phased(u) /\ DoneRows(u) /\ Limited(u) /\ Fits(u)
  BY <1>1 DEF Sound, Phased, DoneRows, Limited, Fits, ActiveCount
<1>5. Sound(u)
  BY <1>1, <1>2, <1>3, <1>4, Zenon DEF Sound
<1> QED
  BY <1>5, <1>0

\* Evicting unpoisoned rows releases everything they hold.
LEMMA EvictSound ==
  ASSUME NEW s, Sound(s), NEW R \in SUBSET s.rows, ~s.poisoned
  PROVE  Sound(Evict(s, R))
<1>0. PICK t : t = Evict(s, R)
  OBVIOUS
<1>1. /\ t \in SchedulerStates
      /\ t.rows = s.rows \ R /\ t.done = s.done \ R /\ t.tok = s.tok
      /\ t.charged = s.charged \ R /\ t.reserved = s.reserved \ R
      /\ t.poisoned = s.poisoned
      /\ t.phase \in {s.phase, "Idle", "Finished"}
      /\ t.phase # s.phase => t.rows = {}
      /\ t.rows = {} /\ R # {} => t.phase # "Admitting"
  BY <1>0 DEF Sound, Evict
<1>2. Phased(t)
  BY <1>1 DEF Sound, Phased
<1>3. Budgeted(t) /\ Reserved(t) /\ DoneRows(t) /\ Limited(t)
  BY <1>1 DEF Sound, Budgeted, Reserved, DoneRows, Limited
<1>4. Fits(t)
  <2>1. t.rows \in SUBSET s.rows
    BY <1>1
  <2> QED
    BY <2>1, FitsSubset DEF Sound, Fits, ActiveCount
<1>5. Sound(t)
  BY <1>1, <1>2, <1>3, <1>4, Zenon DEF Sound
<1> QED
  BY <1>5, <1>0

\* evict_all leaves an empty Idle scheduler, or refuses one that is Idle.
LEMMA EvictAllSound ==
  ASSUME NEW s, Sound(s)
  PROVE  Sound(EvictAll(s))
<1>1. Cardinality({}) <= BMax
  BY FS_EmptySet, BMaxPositive
<1> QED
  BY <1>1
     DEF Sound, Fits, ActiveCount, EvictAll, Budgeted, Reserved, Phased, DoneRows,
         Limited

\* Only rows get tokens, and no row appears or leaves.
Frame(s, t) ==
  t.rows = s.rows /\ \A r \in Requests \ s.rows : t.tok[r] = s.tok[r]

\* t is s with one token more in the rows of R, its limits respected.
Pushed(s, R, t) ==
  /\ t \in SchedulerStates
  /\ t.rows = s.rows /\ t.charged = s.charged /\ t.reserved = s.reserved
  /\ t.phase = s.phase /\ t.poisoned = s.poisoned
  /\ \A r \in Requests : t.tok[r] = IF r \in R THEN s.tok[r] + 1 ELSE s.tok[r]
  /\ DoneRows(t) /\ Limited(t)

\* A push to rows that still have tokens to go stays within the limit and
\* finishes a row exactly when it must.
LEMMA PushLimited ==
  ASSUME NEW s, Sound(s), NEW R \in SUBSET (s.rows \ s.done), NEW eos \in SUBSET R
  PROVE  Pushed(s, R, PushTokens(s, R, eos))
<1> DEFINE t == PushTokens(s, R, eos)
           tok == [r \in Requests |-> IF r \in R THEN s.tok[r] + 1 ELSE s.tok[r]]
           done == s.done \union {r \in R : r \in eos \/ s.tok[r] + 1 >= MaxNew[r]}
<1>0. /\ s \in SchedulerStates /\ R \subseteq Requests
      /\ tok \in [Requests -> Nat] /\ done \subseteq Requests
  BY DEF Sound
<1>1. /\ t \in SchedulerStates
      /\ t.rows = s.rows /\ t.charged = s.charged /\ t.reserved = s.reserved
      /\ t.phase = s.phase /\ t.poisoned = s.poisoned
      /\ t.tok = tok /\ t.done = done
  <2> t = [s EXCEPT !.tok = tok, !.done = done]
    BY DEF PushTokens
  <2> HIDE DEF tok, done, t
  <2> QED
    BY <1>0
<1>2. DoneRows(t)
  BY <1>1 DEF Sound, DoneRows
<1>3. Limited(t)
  <2> SUFFICES ASSUME NEW r \in Requests
               PROVE  /\ t.tok[r] <= Limit(r)
                      /\ t.tok[r] = Limit(r) /\ r \in t.rows => r \in t.done
    BY DEF Limited
  <2>1. /\ s.tok[r] \in Nat /\ MaxNew[r] \in Nat /\ Limit(r) \in Nat
        /\ MaxNew[r] <= Limit(r) /\ s.tok[r] <= Limit(r)
    BY MaxNewNatural, LimitPositive DEF Sound, Limited
  <2>2. CASE r \in R
    <3>1. s.tok[r] # Limit(r)
      BY <2>2 DEF Sound, Limited
    <3> QED
      BY <1>1, <2>1, <2>2, <3>1
  <2>3. CASE r \notin R
    BY <1>1, <2>1, <2>3 DEF Sound, Limited
  <2> QED
    BY <2>2, <2>3
<1> QED
  BY <1>0, <1>1, <1>2, <1>3 DEF Pushed

\* The first token of every row of a batch commits every reservation.
LEMMA PrefillSound ==
  ASSUME NEW s, Sound(s), CanPrefill(s), NEW eos \in SUBSET s.rows
  PROVE  Sound(Prefill(s, eos)) /\ Frame(s, Prefill(s, eos))
<1> DEFINE t == PushTokens(s, s.rows, eos)
           u == Prefill(s, eos)
<1>1. s.done = {}
  BY DEF Sound, CanPrefill, Phased, DoneRows
<1>2. \A r \in s.rows : s.tok[r] = 0
  BY DEF Sound, CanPrefill, Phased
<1>3. Pushed(s, s.rows, t)
  <2>1. s.rows \in SUBSET (s.rows \ s.done)
    BY <1>1
  <2> QED
    BY <2>1, PushLimited, Zenon
<1>4. /\ u \in SchedulerStates
      /\ u.rows = t.rows /\ u.charged = t.charged /\ u.poisoned = t.poisoned
      /\ u.tok = t.tok /\ u.done = t.done /\ u.reserved = {}
      /\ u.phase = IF t.rows \subseteq t.done THEN "Finished" ELSE "Decoding"
  BY <1>3 DEF Prefill, Pushed
<1> HIDE DEF t, u
<1>5. Reserved(u)
  BY <1>2, <1>3, <1>4 DEF Sound, Reserved, Pushed
<1>6. Budgeted(u) /\ Phased(u) /\ DoneRows(u) /\ Limited(u)
  BY <1>3, <1>4 DEF Sound, Budgeted, Phased, DoneRows, Limited, Pushed
<1>7. Frame(s, u)
  BY <1>3, <1>4 DEF Pushed, Frame
<1>8. Fits(u)
  BY <1>3, <1>4 DEF Sound, Fits, ActiveCount, Pushed
<1>9. Sound(u)
  BY <1>4, <1>5, <1>6, <1>8, Zenon DEF Sound
<1> QED
  BY <1>7, <1>9, Zenon DEF u

\* A call that fails and poisons keeps what evict_all needs.
LEMMA PoisonSound ==
  ASSUME NEW s, Sound(s)
  PROVE  Sound(PrefillFails(s)) /\ Sound(StepFails(s))
BY DEF Sound, Fits, ActiveCount, PrefillFails, StepFails, Budgeted, Reserved, Phased, DoneRows, Limited

\* A decode step only touches rows that already have a token.
LEMMA StepSound ==
  ASSUME NEW s, Sound(s), CanStep(s), NEW eos \in SUBSET Decodable(s)
  PROVE  Sound(Step(s, eos)) /\ Frame(s, Step(s, eos))
<1> DEFINE t == PushTokens(s, Decodable(s), eos)
           u == Step(s, eos)
<1>1. CASE Decodable(s) = {}
  BY <1>1 DEF Step, Frame
<1>2. CASE Decodable(s) # {}
  <2>1. Pushed(s, Decodable(s), t)
    <3>1. Decodable(s) \in SUBSET (s.rows \ s.done)
      BY DEF Decodable
    <3> QED
      BY <3>1, PushLimited, Zenon
  <2>2. /\ u \in SchedulerStates
        /\ u.rows = t.rows /\ u.charged = t.charged /\ u.reserved = t.reserved
        /\ u.poisoned = t.poisoned /\ u.tok = t.tok /\ u.done = t.done
        /\ u.phase = IF t.rows \subseteq t.done THEN "Finished" ELSE t.phase
    BY <1>2, <2>1 DEF Step, Pushed
  <2> HIDE DEF t, u
  <2>3. {r \in u.rows : u.tok[r] = 0} = {r \in s.rows : s.tok[r] = 0}
    <3> SUFFICES ASSUME NEW r \in s.rows PROVE u.tok[r] = 0 <=> s.tok[r] = 0
      BY <2>1, <2>2 DEF Pushed
    <3>1. r \in Requests /\ s.tok[r] \in Nat
      BY DEF Sound
    <3> QED
      BY <2>1, <2>2, <3>1 DEF Pushed, Decodable
  <2>4. Reserved(u)
    BY <2>1, <2>2, <2>3 DEF Sound, Reserved, Pushed
  <2>5. Budgeted(u) /\ Phased(u) /\ DoneRows(u) /\ Limited(u)
    BY <2>1, <2>2 DEF Sound, CanStep, Budgeted, Phased, DoneRows, Limited, Pushed
  <2>6. Frame(s, u)
    BY <2>1, <2>2 DEF Pushed, Frame, Decodable
  <2>7. Fits(u)
    BY <2>1, <2>2 DEF Sound, Fits, ActiveCount, Pushed
  <2>8. Sound(u)
    BY <2>2, <2>4, <2>5, <2>7, Zenon DEF Sound
  <2> QED
    BY <2>6, <2>8, Zenon DEF u
<1> QED
  BY <1>1, <1>2

\* Collecting finished rows releases their charges; they hold no reservation.
LEMMA GcSound ==
  ASSUME NEW s, Sound(s)
  PROVE  Sound(GcFinishedRows(s))
<1>0. PICK u : u = GcFinishedRows(s)
  OBVIOUS
<1>1. /\ u \in SchedulerStates
      /\ u.rows = s.rows \ s.done /\ u.charged = s.charged \ s.done /\ u.done = {}
      /\ u.reserved = s.reserved /\ u.tok = s.tok /\ u.poisoned = s.poisoned
      /\ u.phase = IF s.phase = "Decoding" /\ s.rows \subseteq s.done THEN "Finished"
                   ELSE s.phase
  BY <1>0 DEF Sound, GcFinishedRows
<1>2. {r \in u.rows : u.tok[r] = 0} = {r \in s.rows : s.tok[r] = 0}
  BY <1>1 DEF Sound, DoneRows
<1>3. Reserved(u)
  BY <1>1, <1>2 DEF Sound, Reserved
<1>4. Phased(u)
  BY <1>1 DEF Sound, Phased, DoneRows
<1>5. Budgeted(u) /\ DoneRows(u) /\ Limited(u)
  BY <1>1 DEF Sound, Budgeted, DoneRows, Limited
<1>6. Fits(u)
  <2>1. u.rows \in SUBSET s.rows
    BY <1>1
  <2> QED
    BY <2>1, FitsSubset DEF Sound, Fits, ActiveCount
<1>7. Sound(u)
  BY <1>1, <1>3, <1>4, <1>5, <1>6, Zenon DEF Sound
<1> QED
  BY <1>7, <1>0

\* The first token of a mid-admitted row commits its reservation alone.
LEMMA FinalizeMidSound ==
  ASSUME NEW s, Sound(s), CanStep(s), NEW r \in s.rows, s.tok[r] = 0,
         NEW eos \in SUBSET {r}
  PROVE  Sound(FinalizeMid(s, r, eos))
<1> DEFINE t == PushTokens(s, {r}, eos)
           u == FinalizeMid(s, r, eos)
<1>1. r \notin s.done
  BY DEF Sound, DoneRows
<1>2. Pushed(s, {r}, t)
  <2>1. {r} \in SUBSET (s.rows \ s.done)
    BY <1>1
  <2> QED
    BY <2>1, PushLimited, Zenon
<1>3. /\ u \in SchedulerStates
      /\ u.rows = t.rows /\ u.charged = t.charged /\ u.reserved = t.reserved \ {r}
      /\ u.phase = t.phase /\ u.poisoned = t.poisoned /\ u.tok = t.tok /\ u.done = t.done
  BY <1>2 DEF FinalizeMid, Pushed
<1> HIDE DEF t, u
<1>4. Reserved(u)
  <2>1. \A q \in s.rows : u.tok[q] = 0 <=> q # r /\ s.tok[q] = 0
    <3> SUFFICES ASSUME NEW q \in s.rows
                 PROVE  u.tok[q] = 0 <=> q # r /\ s.tok[q] = 0
      OBVIOUS
    <3>1. q \in Requests /\ s.tok[q] \in Nat
      BY DEF Sound
    <3>2. u.tok[q] = IF q \in {r} THEN s.tok[q] + 1 ELSE s.tok[q]
      BY <1>2, <1>3, <3>1 DEF Pushed
    <3> QED
      BY <3>1, <3>2
  <2>2. s.reserved = {q \in s.rows : s.tok[q] = 0} /\ ~u.poisoned
    BY <1>2, <1>3 DEF Sound, Reserved, CanStep, Pushed
  <2>3. u.rows = s.rows /\ u.reserved = s.reserved \ {r}
    BY <1>2, <1>3 DEF Pushed
  <2> QED
    BY <2>1, <2>2, <2>3 DEF Reserved
<1>5. Budgeted(u) /\ Phased(u) /\ DoneRows(u) /\ Limited(u)
  BY <1>2, <1>3 DEF Sound, CanStep, Budgeted, Phased, DoneRows, Limited, Pushed
<1>6. Fits(u)
  BY <1>2, <1>3 DEF Sound, Fits, ActiveCount, Pushed
<1>7. Sound(u)
  BY <1>3, <1>4, <1>5, <1>6, Zenon DEF Sound
<1> QED
  BY <1>7, Zenon DEF u

\* A parked row takes its charge with it; it had no reservation left.
LEMMA ParkSound ==
  ASSUME NEW s, Sound(s), NEW r \in Requests, CanPark(s, r)
  PROVE  Sound(Park(s, r))
<1> DEFINE u == Park(s, r)
<1>1. /\ u \in SchedulerStates
      /\ u.rows = s.rows \ {r} /\ u.charged = s.charged \ {r}
      /\ u.reserved = s.reserved /\ u.tok = s.tok /\ u.done = s.done
      /\ u.phase = s.phase /\ u.poisoned = s.poisoned
  BY DEF Sound, Park
<1>2. r \in s.rows /\ r \notin s.done /\ s.tok[r] > 0 /\ s.tok[r] \in Nat
  BY DEF Sound, CanPark, Decodable
<1>3. s.phase \notin {"Idle", "Admitting", "Finished"}
  BY <1>2 DEF Sound, Phased
<1>4. Reserved(u)
  <2>1. {q \in u.rows : u.tok[q] = 0} = {q \in s.rows : s.tok[q] = 0}
    BY <1>1, <1>2
  <2> QED
    BY <1>1, <2>1 DEF Sound, Reserved
<1>5. Budgeted(u) /\ Phased(u) /\ DoneRows(u) /\ Limited(u)
  BY <1>1, <1>2, <1>3 DEF Sound, Budgeted, Phased, DoneRows, Limited
<1>6. Fits(u)
  <2>1. u.rows \in SUBSET s.rows
    BY <1>1
  <2> HIDE DEF u
  <2> QED
    BY <2>1, FitsSubset DEF Sound, Fits, ActiveCount
<1> QED
  BY <1>1, <1>4, <1>5, <1>6 DEF Sound

\* A restored row is charged again and goes on decoding.
LEMMA RestoreSound ==
  ASSUME NEW s, Sound(s), NEW r \in Requests \ SessionFaults, CanRestore(s, r),
         s.phase # "Admitting", 0 < s.tok[r], s.tok[r] < MaxNew[r]
  PROVE  Sound(Restore(s, r))
<1> DEFINE u == Restore(s, r)
<1>1. /\ u \in SchedulerStates
      /\ u.rows = s.rows \union {r} /\ u.charged = s.charged \union {r}
      /\ u.reserved = s.reserved /\ u.tok = s.tok /\ u.done = s.done
      /\ u.poisoned = s.poisoned
      /\ u.phase \notin {"Idle", "Admitting", "Finished"}
  BY DEF Sound, Restore
<1>2. s.tok[r] \in Nat /\ Limit(r) \in Nat /\ s.tok[r] < Limit(r)
  <2>1. MaxNew[r] \in Nat /\ Limit(r) \in Nat /\ MaxNew[r] <= Limit(r)
    BY MaxNewNatural, LimitPositive
  <2> QED
    BY <2>1 DEF Sound
<1>3. {q \in u.rows : u.tok[q] = 0} = {q \in s.rows : s.tok[q] = 0}
  BY <1>1, <1>2
<1>4. Reserved(u)
  BY <1>1, <1>3 DEF Sound, Reserved
<1>5. Limited(u)
  <2> SUFFICES ASSUME NEW q \in Requests
               PROVE  /\ u.tok[q] <= Limit(q)
                      /\ u.tok[q] = Limit(q) /\ q \in u.rows => q \in u.done
    BY DEF Limited
  <2>1. CASE q = r
    BY <1>1, <1>2, <2>1
  <2>2. CASE q # r
    BY <1>1, <2>2 DEF Sound, Limited
  <2> QED
    BY <2>1, <2>2
<1>6. Budgeted(u) /\ Phased(u) /\ DoneRows(u)
  BY <1>1 DEF Sound, Budgeted, Phased, DoneRows
<1>7. Fits(u)
  <2>1. Cardinality(s.rows \union {r}) <= BMax
    BY FitsAdd DEF Sound, CanRestore, ActiveCount
  <2> QED
    BY <1>1, <2>1 DEF Fits, ActiveCount
<1> QED
  BY <1>1, <1>4, <1>5, <1>6, <1>7 DEF Sound

-----------------------------------------------------------------------------
(* The specification                                                       *)

\* A fresh scheduler with an empty-handed caller satisfies it.
LEMMA CoreStart == CoreInit => CoreIInv
BY NewSound DEF CoreInit, CoreIInv, Accounted, NewScheduler

\* Every call of the scheduler keeps the inductive invariant.
LEMMA CoreStep ==
  ASSUME CoreIInv, [CoreNext]_coreVars
  PROVE  CoreIInv'
<1> USE DEF CoreIInv
<1>0. /\ MaxNew \in [Requests -> Nat]
      /\ sched.tok \in [Requests -> Nat]
      /\ sched.rows \in SUBSET Requests
  BY MaxNewNatural DEF Sound
<1>1. ASSUME NEW r \in Requests, CallAdmit(r) PROVE CoreIInv'
  <2>1. sched.tok[r] = 0 /\ r \notin sched.rows
    BY <1>1 DEF CallAdmit, Accounted
  <2>2. CASE r \in SessionFaults
    <3>1. Sound(AdmitSessionFails(sched, r)) /\ sched' = AdmitSessionFails(sched, r)
      BY <1>1, <2>2, SessionFailureSound DEF CallAdmit
    <3>2. /\ sched'.rows = sched.rows /\ sched'.tok = sched.tok
          /\ parked' = parked /\ spent' = spent \union {r}
      BY <1>1, <3>1 DEF CallAdmit, AdmitSessionFails, Sound
    <3> QED
      BY <3>1, <3>2 DEF Accounted
  <2>3. CASE r \notin SessionFaults
    <3>1. Sound(Admit(sched, r)) /\ sched' = Admit(sched, r)
      BY <1>1, <2>1, <2>3, AdmitSound DEF CallAdmit
    <3>2. /\ sched'.rows = sched.rows \union {r} /\ sched'.tok = sched.tok
          /\ parked' = parked /\ spent' = spent \union {r} /\ r \notin spent
      BY <1>1, <3>1 DEF CallAdmit, Admit, Sound
    <3> QED
      BY <3>1, <3>2 DEF Accounted
  <2> QED
    BY <2>2, <2>3
<1>2. ASSUME NEW r \in Requests, CallEvict(r) PROVE CoreIInv'
  <2>1. Sound(sched')
    BY <1>2, EvictSound DEF CallEvict
  <2>2. sched'.rows \subseteq sched.rows /\ sched'.tok = sched.tok
        /\ UNCHANGED <<parked, spent>>
    BY <1>2 DEF CallEvict, Evict, Sound
  <2> QED
    BY <2>1, <2>2 DEF Accounted
<1>3. ASSUME NEW r \in Requests, CallFinalizeMid(r) PROVE CoreIInv'
  <2>1. Sound(sched')
    BY <1>3, FinalizeMidSound DEF CallFinalizeMid
  <2>2. /\ sched'.rows = sched.rows
        /\ \A q \in Requests : q # r => sched'.tok[q] = sched.tok[q]
        /\ r \in sched.rows /\ UNCHANGED <<parked, spent>>
    BY <1>3 DEF CallFinalizeMid, FinalizeMid, PushTokens, Sound
  <2> QED
    BY <2>1, <2>2 DEF Accounted
<1>4. ASSUME NEW r \in Requests, CallPark(r) PROVE CoreIInv'
  <2>1. Sound(sched')
    BY <1>4, ParkSound DEF CallPark
  <2>2. /\ sched'.rows = sched.rows \ {r} /\ sched'.tok = sched.tok
        /\ parked' = parked \union {r} /\ spent' = spent
    BY <1>4 DEF CallPark, Park, Sound
  <2>3. /\ r \in sched.rows /\ r \notin sched.done /\ sched.tok[r] > 0
        /\ r \notin SessionFaults
    BY <1>4 DEF CallPark, CanPark, Decodable, Sound, Budgeted
  <2>4. sched.tok[r] < MaxNew[r]
    <3>1. sched.tok[r] \in Nat /\ sched.tok[r] < Limit(r)
      BY <1>0, <2>3, LimitPositive DEF Sound, Limited
    <3> QED
      BY <2>3, <3>1, LimitPositive
  <2> QED
    BY <2>1, <2>2, <2>3, <2>4 DEF Accounted
<1>5. ASSUME NEW r \in Requests, CallRestore(r) PROVE CoreIInv'
  <2>1. 0 < sched.tok[r] /\ sched.tok[r] < MaxNew[r] /\ r \notin SessionFaults
    BY <1>5 DEF CallRestore, Accounted
  <2>2. Sound(sched')
    BY <1>5, <2>1, RestoreSound DEF CallRestore
  <2>3. /\ sched'.rows = sched.rows \union {r} /\ sched'.tok = sched.tok
        /\ parked' = parked \ {r} /\ spent' = spent /\ r \in parked
    BY <1>5 DEF CallRestore, Restore, Sound
  <2> QED
    BY <2>2, <2>3 DEF Accounted
<1>6. ASSUME CallEvictAll PROVE CoreIInv'
  <2>1. Sound(sched')
    BY <1>6, EvictAllSound DEF CallEvictAll
  <2>2. sched'.rows \subseteq sched.rows /\ sched'.tok = sched.tok
        /\ UNCHANGED <<parked, spent>>
    BY <1>6 DEF CallEvictAll, EvictAll, Sound
  <2> QED
    BY <2>1, <2>2 DEF Accounted
<1>7. ASSUME CallPrefill PROVE CoreIInv'
  <2>1. Sound(sched')
    BY <1>7, PrefillSound, PoisonSound DEF CallPrefill
  <2>2. /\ sched'.rows = sched.rows /\ UNCHANGED <<parked, spent>>
        /\ \A q \in Requests : q \notin sched.rows => sched'.tok[q] = sched.tok[q]
    <3>1. CASE sched' = PrefillFails(sched)
      BY <1>7, <3>1 DEF CallPrefill, PrefillFails, Sound
    <3>2. ASSUME CanPrefill(sched), NEW eos \in SUBSET sched.rows,
                 sched' = Prefill(sched, eos)
          PROVE  Frame(sched, sched')
      BY <3>2, PrefillSound
    <3> QED
      BY <1>7, <3>1, <3>2 DEF CallPrefill, Frame
  <2> QED
    BY <2>1, <2>2 DEF Accounted
<1>8. ASSUME CallStep PROVE CoreIInv'
  <2>1. Sound(sched')
    BY <1>8, StepSound, PoisonSound DEF CallStep
  <2>2. /\ sched'.rows = sched.rows /\ UNCHANGED <<parked, spent>>
        /\ \A q \in Requests : q \notin sched.rows => sched'.tok[q] = sched.tok[q]
    BY <1>8, StepSound DEF Frame, CallStep, StepFails, Sound
  <2> QED
    BY <2>1, <2>2 DEF Accounted
<1>9. ASSUME CallGc PROVE CoreIInv'
  <2>1. Sound(sched')
    BY <1>9, GcSound DEF CallGc
  <2>2. sched'.rows \subseteq sched.rows /\ sched'.tok = sched.tok
        /\ UNCHANGED <<parked, spent>>
    BY <1>9 DEF CallGc, GcFinishedRows, Sound
  <2> QED
    BY <2>1, <2>2 DEF Accounted
<1>10. ASSUME UNCHANGED coreVars PROVE CoreIInv'
  BY <1>10
     DEF coreVars, Sound, Fits, ActiveCount, Accounted, Budgeted, Reserved, Phased,
         DoneRows, Limited
<1> QED
  BY <1>1, <1>2, <1>3, <1>4, <1>5, <1>6, <1>7, <1>8, <1>9, <1>10 DEF CoreNext

\* The inductive invariant holds in every state a caller can bring about.
THEOREM CoreInvariant == CoreSpec => []CoreIInv
BY CoreStart, CoreStep, PTL DEF CoreSpec

\* The scheduler's state stays well formed.
THEOREM CoreTypeCorrect == CoreSpec => []CoreTypeOK
<1>1. CoreIInv => CoreTypeOK
  BY DEF CoreIInv, CoreTypeOK, Sound, Fits, Accounted
<1> QED
  BY <1>1, CoreInvariant, PTL

\* The KV budget charges exactly the requests that hold a row, apart from the
\* charges of failed grammar sessions.
THEOREM BudgetExact == CoreSpec => []BudgetFollowsRows
<1>1. CoreIInv => BudgetFollowsRows
  BY DEF CoreIInv, BudgetFollowsRows, Sound, Budgeted
<1> QED
  BY <1>1, CoreInvariant, PTL

\* A reservation of process memory lives from admission to first token.
THEOREM ReservationsExact == CoreSpec => []ReservedUntilFirstToken
<1>1. CoreIInv => ReservedUntilFirstToken
  BY DEF CoreIInv, ReservedUntilFirstToken, Sound, Reserved
<1> QED
  BY <1>1, CoreInvariant, PTL

\* The phase never contradicts the rows.
THEOREM PhaseExact == CoreSpec => []PhaseDescribesRows
<1>1. CoreIInv => PhaseDescribesRows
  BY DEF CoreIInv, PhaseDescribesRows, Sound, Phased
<1> QED
  BY <1>1, CoreInvariant, PTL

\* No request is decoded past max_new_tokens, however often it is parked; one that
\* asked for no token gets the first and no other.
THEOREM TokensBounded == CoreSpec => []TokensWithinLimit
<1>1. CoreIInv => TokensWithinLimit
  BY DEF CoreIInv, TokensWithinLimit, Sound, Limited
<1> QED
  BY <1>1, CoreInvariant, PTL
=============================================================================
