------------------------- MODULE SchedulerActorCalls ------------------------
(***************************************************************************)
(* What the calls of the driver of SchedulerActor do to what it holds: the *)
(* queue and the list of parked requests (lemmas on sequences without      *)
(* repetition) and its scheduler, whose Sound and Accounted of             *)
(* SchedulerCoreProofs are instantiated with the parked requests of the    *)
(* driver.  Owns adds what this driver alone guarantees: a scheduler it    *)
(* leaves poisoned is an Idle one with nothing reserved.                   *)
(***************************************************************************)
EXTENDS SchedulerActor, FiniteSetTheorems, SequenceTheorems, TLAPS

\* Taking the head of a queue without repetition takes exactly that request.
LEMMA TailOf ==
  ASSUME NEW q \in Seq(Requests), q # <<>>, IsInjective(q)
  PROVE  /\ Head(q) \in Requests /\ Head(q) \in Range(q)
         /\ Tail(q) \in Seq(Requests) /\ Len(Tail(q)) = Len(q) - 1
         /\ Range(Tail(q)) = Range(q) \ {Head(q)}
         /\ IsInjective(Tail(q))
<1>1. /\ Head(q) \in Requests /\ Tail(q) \in Seq(Requests)
      /\ Len(Tail(q)) = Len(q) - 1
      /\ \A i \in 1..Len(Tail(q)) : Tail(q)[i] = q[i + 1]
  BY HeadTailProperties
<1>2. /\ DOMAIN q = 1..Len(q) /\ DOMAIN Tail(q) = 1..Len(Tail(q))
      /\ Len(q) \in Nat /\ Len(q) > 0 /\ Head(q) = q[1]
  BY <1>1, EmptySeq, LenProperties
<1>3. Range(Tail(q)) = Range(q) \ {Head(q)}
  <2>1. ASSUME NEW x \in Range(q) \ {Head(q)} PROVE x \in Range(Tail(q))
    <3>1. PICK i \in 1..Len(q) : q[i] = x
      BY <1>2 DEF Range
    <3>2. i # 1
      BY <1>2, <3>1
    <3>3. i - 1 \in 1..Len(Tail(q)) /\ Tail(q)[i - 1] = x
      BY <1>1, <1>2, <3>1, <3>2
    <3> QED
      BY <1>2, <3>3 DEF Range
  <2>2. ASSUME NEW x \in Range(Tail(q)) PROVE x \in Range(q) \ {Head(q)}
    <3>1. PICK i \in 1..Len(Tail(q)) : Tail(q)[i] = x
      BY <1>2 DEF Range
    <3>2. i + 1 \in 1..Len(q) /\ q[i + 1] = x /\ i + 1 # 1 /\ 1 \in 1..Len(q)
      BY <1>1, <1>2, <3>1
    <3>3. x # Head(q)
      BY <1>2, <3>2 DEF IsInjective
    <3> QED
      BY <1>2, <3>2, <3>3 DEF Range
  <2> QED
    BY <2>1, <2>2
<1>4. IsInjective(Tail(q))
  <2> SUFFICES ASSUME NEW i \in 1..Len(Tail(q)), NEW j \in 1..Len(Tail(q)),
                      Tail(q)[i] = Tail(q)[j]
               PROVE  i = j
    BY <1>2 DEF IsInjective
  <2>1. i + 1 \in 1..Len(q) /\ j + 1 \in 1..Len(q) /\ q[i + 1] = q[j + 1]
    BY <1>1, <1>2
  <2>2. i + 1 = j + 1
    BY <1>2, <2>1 DEF IsInjective
  <2> QED
    BY <2>2
<1>5. Head(q) \in Range(q)
  BY <1>2 DEF Range
<1> QED
  BY <1>1, <1>3, <1>4, <1>5

\* Appending adds one request, and repeats none that was not there.
LEMMA AppendOf ==
  ASSUME NEW q \in Seq(Requests), NEW r \in Requests
  PROVE  /\ Append(q, r) \in Seq(Requests) /\ Len(Append(q, r)) = Len(q) + 1
         /\ Range(Append(q, r)) = Range(q) \union {r}
         /\ IsInjective(q) /\ r \notin Range(q) => IsInjective(Append(q, r))
<1> DEFINE a == Append(q, r)
<1>1. /\ a \in Seq(Requests) /\ Len(a) = Len(q) + 1
      /\ \A i \in 1..Len(q) : a[i] = q[i]
      /\ a[Len(q) + 1] = r
  BY AppendProperties
<1>2. DOMAIN q = 1..Len(q) /\ DOMAIN a = 1..Len(a) /\ Len(q) \in Nat
  BY <1>1, LenProperties
<1> HIDE DEF a
<1>3. Range(a) = Range(q) \union {r}
  <2>1. ASSUME NEW x \in Range(q) \union {r} PROVE x \in Range(a)
    <3>1. CASE x = r
      BY <1>1, <1>2, <3>1 DEF Range
    <3>2. CASE x \in Range(q)
      BY <1>1, <1>2, <3>2 DEF Range
    <3> QED
      BY <3>1, <3>2
  <2>2. ASSUME NEW x \in Range(a) PROVE x \in Range(q) \union {r}
    BY <1>1, <1>2 DEF Range
  <2> QED
    BY <2>1, <2>2
<1>4. ASSUME IsInjective(q), r \notin Range(q) PROVE IsInjective(a)
  BY <1>1, <1>2, <1>4 DEF IsInjective, Range
<1> QED
  BY <1>1, <1>3, <1>4 DEF a

\* The empty queue.
LEMMA EmptyOf ==
  /\ <<>> \in Seq(Requests) /\ Len(<<>>) = 0 /\ Range(<<>>) = {} /\ IsInjective(<<>>)
BY EmptySeq DEF Range, IsInjective

\* The requests of a queue; a queue of none is empty.
LEMMA SeqOf ==
  ASSUME NEW q \in Seq(Requests)
  PROVE  Range(q) \subseteq Requests /\ Len(q) \in Nat /\ (Range(q) = {} => q = <<>>)
<1>1. DOMAIN q = 1..Len(q) /\ Len(q) \in Nat
  BY LenProperties
<1>2. q # <<>> => Range(q) # {}
  <2>1. q # <<>> => 1 \in DOMAIN q
    BY <1>1, EmptySeq
  <2> QED
    BY <2>1 DEF Range
<1>3. Range(q) \subseteq Requests
  BY <1>1, RangeOfSeq, ElementOfSeq DEF Range
<1> QED
  BY <1>1, <1>2, <1>3

\* Pruning keeps exactly the requests whose client has not left, each as often as
\* before: what prune_abandoned_pending_admits and discard_abandoned_parked_requests do.
LEMMA LiveOf ==
  ASSUME NEW q \in Seq(Requests)
  PROVE  /\ Live(q) \in Seq(Requests) /\ Len(Live(q)) <= Len(q)
         /\ Range(Live(q)) = {r \in Range(q) : ~Gone(r)}
         /\ IsInjective(q) => IsInjective(Live(q))
<1> DEFINE kept == {i \in DOMAIN q : ~Gone(q[i])}
           below(i) == {j \in kept : j <= i}
           rank(i) == Cardinality(below(i))
           n == Cardinality(kept)
           at(k) == CHOOSE i \in kept : rank(i) = k
<1>1. /\ DOMAIN q = 1..Len(q) /\ Len(q) \in Nat
      /\ \A i \in 1..Len(q) : q[i] \in Requests
  BY LenProperties, ElementOfSeq
<1>2. \A m \in Nat : IsFiniteSet(1..m) /\ Cardinality(1..m) = m
  <2> SUFFICES ASSUME NEW m \in Nat PROVE IsFiniteSet(1..m) /\ Cardinality(1..m) = m
    OBVIOUS
  <2>1. IsFiniteSet(1..m) /\ Cardinality(1..m) = IF 1 > m THEN 0 ELSE m - 1 + 1
    BY FS_Interval
  <2> QED
    BY <2>1
<1>3. IsFiniteSet(kept) /\ n \in Nat /\ n <= Len(q)
  <2>1. kept \in SUBSET (1..Len(q))
    BY <1>1
  <2>2. IsFiniteSet(1..Len(q)) /\ Cardinality(1..Len(q)) = Len(q)
    BY <1>1, <1>2
  <2> HIDE DEF kept
  <2> QED
    BY <2>1, <2>2, FS_Subset, FS_CardinalityType
<1>4. ASSUME NEW i \in kept
      PROVE  /\ rank(i) \in 1..n
             /\ \A j \in kept : j < i => rank(j) < rank(i)
  <2>1. /\ \A k \in kept : below(k) \in SUBSET kept /\ k \in Nat /\ k \in below(k)
    BY <1>1
  <2> HIDE DEF kept
  <2>2. \A k \in kept : IsFiniteSet(below(k)) /\ rank(k) <= n /\ rank(k) \in Nat
    BY <1>3, <2>1, FS_Subset, FS_CardinalityType
  <2>3. rank(i) # 0
    BY <2>1, <2>2, FS_EmptySet
  <2>4. ASSUME NEW j \in kept, j < i PROVE rank(j) < rank(i)
    <3>1. below(j) \in SUBSET below(i) /\ i \in below(i) /\ i \notin below(j)
      BY <2>1, <2>4
    <3> HIDE DEF below
    <3>2. rank(j) <= rank(i) /\ rank(j) # rank(i)
      BY <2>2, <3>1, FS_Subset
    <3> QED
      BY <2>2, <3>2
  <2>5. rank(i) \in 1..n
    <3>1. PICK x, y : x = rank(i) /\ y = n
      OBVIOUS
    <3>2. x \in Nat /\ x # 0 /\ y \in Nat /\ x <= y
      BY <1>3, <1>4, <2>2, <2>3, <3>1, Zenon
    <3>3. x \in 1..y
      BY <3>2
    <3> QED
      BY <3>1, <3>3, Zenon
  <2> QED
    BY <2>4, <2>5
<1>5. \A k \in 1..n : \E i \in kept : rank(i) = k
  <2> DEFINE f == [i \in kept |-> rank(i)]
  <2>1. f \in [kept -> 1..n]
    BY <1>4
  <2>2. \A i, j \in kept : f[i] = f[j] => i = j
    <3> SUFFICES ASSUME NEW i \in kept, NEW j \in kept, i # j PROVE rank(i) # rank(j)
      OBVIOUS
    <3>1. i \in Nat /\ j \in Nat
      BY <1>1
    <3>2. rank(i) \in 1..n /\ rank(j) \in 1..n
      BY <1>4
    <3>3. (i < j => rank(i) < rank(j)) /\ (j < i => rank(j) < rank(i))
      BY <1>4
    <3> HIDE DEF kept, rank
    <3> QED
      BY <1>3, <3>1, <3>2, <3>3
  <2> HIDE DEF kept, rank
  <2>3. f \in Injection(kept, 1..n)
    BY <2>1, <2>2 DEF Injection, IsInjective
  <2>4. IsFiniteSet(1..n) /\ Cardinality(1..n) = n
    BY <1>2, <1>3
  <2>5. f \in Surjection(kept, 1..n)
    BY <2>3, <2>4, FS_Injection
  <2> QED
    BY <2>5 DEF Surjection
<1>6. \A k \in 1..n : at(k) \in kept /\ rank(at(k)) = k
  <2> HIDE DEF kept, rank
  <2> QED
    BY <1>5
<1>7. Live(q) = [k \in 1..n |-> q[at(k)]]
  BY DEF Live
<1>8. \A i \in kept : i \in 1..Len(q) /\ q[i] \in Requests /\ ~Gone(q[i])
  BY <1>1
<1>9. \A i \in 1..Len(q) : ~Gone(q[i]) => i \in kept
  BY <1>1
<1> HIDE DEF kept, rank, at
<1>10. Live(q) \in Seq(Requests) /\ Len(Live(q)) = n
  <2>1. Live(q) \in [1..n -> Requests]
    BY <1>6, <1>7, <1>8
  <2> QED
    BY <1>3, <2>1, IsASeq, LenProperties
<1>11. Range(Live(q)) = {r \in Range(q) : ~Gone(r)}
  <2>1. ASSUME NEW r \in Range(Live(q)) PROVE r \in Range(q) /\ ~Gone(r)
    BY <1>1, <1>6, <1>7, <1>8 DEF Range
  <2>2. ASSUME NEW r \in Range(q), ~Gone(r) PROVE r \in Range(Live(q))
    <3>1. PICK i \in kept : q[i] = r
      BY <1>1, <1>9, <2>2 DEF Range
    <3>2. rank(i) \in 1..n /\ at(rank(i)) \in kept /\ rank(at(rank(i))) = rank(i)
      BY <1>4, <1>6
    <3>3. at(rank(i)) = i
      <4>1. \A a, b \in kept : a \in Nat /\ b \in Nat /\ rank(a) \in 1..n
        BY <1>4, <1>8
      <4>2. \A a, b \in kept : a < b => rank(a) < rank(b)
        BY <1>4
      <4> QED
        BY <3>2, <4>1, <4>2
    <3> QED
      BY <1>7, <3>1, <3>2, <3>3 DEF Range
  <2> QED
    BY <2>1, <2>2
<1>12. ASSUME IsInjective(q) PROVE IsInjective(Live(q))
  <2> SUFFICES ASSUME NEW k \in 1..n, NEW l \in 1..n, q[at(k)] = q[at(l)]
               PROVE  k = l
    BY <1>7 DEF IsInjective
  <2>1. at(k) = at(l)
    BY <1>1, <1>6, <1>8, <1>12 DEF IsInjective
  <2> QED
    BY <1>6, <2>1
<1> QED
  BY <1>3, <1>10, <1>11, <1>12

-----------------------------------------------------------------------------
\* The lemmas on the scheduler alone, for this driver.
P == INSTANCE SchedulerCoreProofs WITH parked <- Range(parked_active_kv), spent <- {}

\* A poisoned scheduler of this driver is Idle and holds no reservation.
Recoverable(s) == s.poisoned => s.phase = "Idle" /\ s.reserved = {}

\* Scheduler s with the parked requests p, all of them among u.
Owns(s, p, u) == P!Sound(s) /\ P!Accounted(s, p, u) /\ Recoverable(s)

\* The counting operators of the instances are the ones of this module.
LEMMA SameCounting ==
  /\ \A S : P!Cardinality(S) = Cardinality(S) /\ Core!Cardinality(S) = Cardinality(S)
  /\ \A S : P!IsFiniteSet(S) <=> IsFiniteSet(S)
BY DEF Cardinality, P!Cardinality, Core!Cardinality, IsFiniteSet, P!IsFiniteSet

\* The assumptions of SchedulerCoreProofs.
LEMMA CoreAssumptions ==
  /\ P!IsFiniteSet(Requests) /\ BMax \in Nat \ {0} /\ MaxNew \in [Requests -> Nat]
  /\ SessionFaults \subseteq Requests
BY SameCounting, RequestsAreFinite, BatchOK

\* What makes a scheduler sound, spelled out.
LEMMA SoundFacts ==
  ASSUME NEW s, P!Sound(s)
  PROVE  /\ s = [phase |-> s.phase, poisoned |-> s.poisoned, rows |-> s.rows, tok |-> s.tok,
                 done |-> s.done, charged |-> s.charged, reserved |-> s.reserved]
         /\ s.phase \in {"Idle", "Admitting", "Decoding", "Finished"}
         /\ s.poisoned \in BOOLEAN
         /\ s.rows \subseteq Requests /\ s.done \subseteq s.rows
         /\ s.charged \subseteq Requests /\ s.reserved \subseteq Requests
         /\ s.tok \in [Requests -> Nat]
         /\ s.charged \ SessionFaults = s.rows
         /\ ~s.poisoned => s.reserved = {r \in s.rows : s.tok[r] = 0}
         /\ s.phase = "Idle" => s.rows = {}
         /\ s.phase = "Admitting" => s.rows # {} /\ \A r \in s.rows : s.tok[r] = 0
         /\ s.phase = "Finished" => s.rows \subseteq s.done
         /\ \A r \in s.done : s.tok[r] > 0
BY DEF P!Sound, P!SchedulerStates, P!Phases, P!Budgeted, P!Reserved, P!Phased, P!DoneRows

\* What the calls leave behind, field by field.
LEMMA AdmitFields ==
  ASSUME NEW s, P!Sound(s), NEW r
  PROVE  /\ Core!Admit(s, r).rows = s.rows \union {r}
         /\ Core!Admit(s, r).done = s.done
         /\ Core!Admit(s, r).tok = s.tok
         /\ Core!Admit(s, r).poisoned = s.poisoned
         /\ Core!Admit(s, r).phase = IF s.phase = "Idle" THEN "Admitting" ELSE s.phase
BY SoundFacts DEF Core!Admit

\* A grammar session that does not start changes the charges and nothing else.
LEMMA SessionFailureFields ==
  ASSUME NEW s, P!Sound(s), NEW r
  PROVE  /\ Core!AdmitSessionFails(s, r).rows = s.rows
         /\ Core!AdmitSessionFails(s, r).done = s.done
         /\ Core!AdmitSessionFails(s, r).tok = s.tok
         /\ Core!AdmitSessionFails(s, r).phase = s.phase
         /\ Core!AdmitSessionFails(s, r).poisoned = s.poisoned
         /\ Core!AdmitSessionFails(s, r).reserved = s.reserved
BY SoundFacts DEF Core!AdmitSessionFails

\* Evicting rows, and the phase when none is left.
LEMMA EvictFields ==
  ASSUME NEW s, P!Sound(s), NEW R
  PROVE  /\ Core!Evict(s, R).rows = s.rows \ R
         /\ Core!Evict(s, R).done = s.done \ R
         /\ Core!Evict(s, R).tok = s.tok
         /\ Core!Evict(s, R).poisoned = s.poisoned
         /\ Core!Evict(s, R).phase =
              IF R = {} \/ s.rows \ R # {} THEN s.phase
              ELSE IF s.phase = "Admitting" THEN "Idle"
              ELSE IF s.phase = "Decoding" THEN "Finished"
              ELSE s.phase
BY SoundFacts DEF Core!Evict

\* evict_all, which leaves an Idle scheduler as it is.
LEMMA EvictAllFields ==
  ASSUME NEW s, P!Sound(s)
  PROVE  /\ Core!EvictAll(s).rows = {}
         /\ Core!EvictAll(s).done = {}
         /\ Core!EvictAll(s).tok = s.tok
         /\ Core!EvictAll(s).phase = "Idle"
         /\ s.phase # "Idle" => ~Core!EvictAll(s).poisoned
         /\ s.phase = "Idle" => Core!EvictAll(s) = s
BY SoundFacts DEF Core!EvictAll

-----------------------------------------------------------------------------
\* A new row belongs to an accepted request.
LEMMA AdmitOwns ==
  ASSUME NEW s, NEW p, NEW u, Owns(s, p, u), NEW r \in Requests, r \notin u,
         r \notin SessionFaults, Core!CanAdmit(s)
  PROVE  Owns(Core!Admit(s, r), p, u \union {r}) /\ r \notin s.rows /\ s.tok[r] = 0
<1>1. P!CanAdmit(s) /\ Core!Admit(s, r) = P!Admit(s, r)
  BY SameCounting DEF Core!CanAdmit, P!CanAdmit, Core!ActiveCount, P!ActiveCount, P!Admit, Core!Admit
<1>2. s.tok[r] = 0 /\ r \notin s.rows
  BY DEF Owns, P!Accounted
<1>3. P!Sound(Core!Admit(s, r))
  BY <1>1, <1>2, CoreAssumptions, P!AdmitSound DEF Owns
<1>4. ~s.poisoned
  BY DEF Core!CanAdmit
<1>5. s.poisoned \in BOOLEAN
  BY SoundFacts DEF Owns
<1> QED
  BY <1>2, <1>3, <1>4, <1>5, AdmitFields DEF Owns, P!Accounted, Recoverable

\* A failed grammar session takes no row.
LEMMA SessionFailureOwns ==
  ASSUME NEW s, NEW p, NEW u, Owns(s, p, u), NEW r \in SessionFaults
  PROVE  Owns(Core!AdmitSessionFails(s, r), p, u)
<1>1. Core!AdmitSessionFails(s, r) = P!AdmitSessionFails(s, r)
  BY DEF Core!AdmitSessionFails, P!AdmitSessionFails
<1>2. P!Sound(Core!AdmitSessionFails(s, r))
  BY <1>1, CoreAssumptions, P!SessionFailureSound DEF Owns
<1> QED
  BY <1>2, SessionFailureFields DEF Owns, P!Accounted, Recoverable

\* Evicting rows keeps the rest.
LEMMA EvictOwns ==
  ASSUME NEW s, NEW p, NEW u, Owns(s, p, u), NEW R \in SUBSET s.rows
  PROVE  Owns(Core!Evict(s, R), p, u)
<1>1. Core!Evict(s, R) = P!Evict(s, R)
  BY DEF Core!Evict, P!Evict
<1>2. CASE ~s.poisoned
  <2>1. P!Sound(Core!Evict(s, R))
    BY <1>1, <1>2, CoreAssumptions, P!EvictSound DEF Owns
  <2> QED
    BY <1>2, <2>1, EvictFields DEF Owns, P!Accounted, Recoverable
<1>3. CASE s.poisoned
  <2>1. R = {}
    BY <1>3, SoundFacts DEF Owns, Recoverable
  <2>2. /\ s.rows \ R = s.rows /\ s.done \ R = s.done /\ s.charged \ R = s.charged
        /\ s.reserved \ R = s.reserved
    BY <2>1
  <2>3. Core!Evict(s, R) = [s EXCEPT !.rows = s.rows, !.done = s.done,
          !.charged = s.charged, !.reserved = s.reserved, !.phase = s.phase]
    BY <2>1, <2>2 DEF Core!Evict
  <2>4. Core!Evict(s, R) = s
    BY <2>3, SoundFacts DEF Owns
  <2> QED
    BY <2>4
<1> QED
  BY <1>2, <1>3, SoundFacts DEF Owns

\* evict_all keeps the parked requests.
LEMMA EvictAllOwns ==
  ASSUME NEW s, NEW p, NEW u, Owns(s, p, u)
  PROVE  Owns(Core!EvictAll(s), p, u)
<1>1. Core!EvictAll(s) = P!EvictAll(s)
  BY DEF Core!EvictAll, P!EvictAll
<1>2. P!Sound(Core!EvictAll(s))
  BY <1>1, CoreAssumptions, P!EvictAllSound DEF Owns
<1> QED
  BY <1>2, EvictAllFields DEF Owns, P!Accounted, Recoverable

\* An admission whose caller has left is undone.
LEMMA AdmitEvict ==
  ASSUME NEW s, NEW p, NEW u, Owns(s, p, u), NEW r \in Requests, r \notin u,
         r \notin SessionFaults, Core!CanAdmit(s), NEW t,
         t = Core!Evict(Core!Admit(s, r), {r})
  PROVE  /\ Owns(t, p, u)
         /\ t.rows = s.rows /\ t.done = s.done /\ t.tok = s.tok
         /\ \/ t.phase = s.phase
            \/ t.rows = {} /\ s.phase = "Decoding" /\ t.phase = "Finished"
<1>a. PICK a : a = Core!Admit(s, r)
  OBVIOUS
<1>1. Owns(a, p, u \union {r}) /\ r \notin s.rows
  BY <1>a, AdmitOwns
<1>2. /\ a.rows = s.rows \union {r} /\ a.done = s.done /\ a.tok = s.tok
      /\ a.phase = IF s.phase = "Idle" THEN "Admitting" ELSE s.phase
  BY <1>a, AdmitFields DEF Owns
<1>3. r \notin s.done
  BY <1>1, SoundFacts DEF Owns
<1>4. Owns(t, p, u \union {r})
  BY <1>a, <1>1, <1>2, EvictOwns
<1>5. t.rows = s.rows /\ t.done = s.done /\ t.tok = s.tok
  <2>1. t.rows = a.rows \ {r} /\ t.done = a.done \ {r} /\ t.tok = a.tok
    <3>1. P!Sound(a)
      BY <1>1, Zenon DEF Owns
    <3> QED
      BY <1>a, <3>1, EvictFields
  <2> QED
    BY <1>1, <1>2, <1>3, <2>1
<1>6. Owns(t, p, u)
  BY <1>4, <1>5 DEF Owns, P!Accounted
<1>7. t.phase = IF s.rows # {} THEN a.phase
                ELSE IF a.phase = "Admitting" THEN "Idle"
                ELSE IF a.phase = "Decoding" THEN "Finished"
                ELSE a.phase
  BY <1>a, <1>1, <1>2, EvictFields DEF Owns
<1>8. /\ s.phase \in {"Idle", "Admitting", "Decoding", "Finished"}
      /\ s.phase = "Idle" => s.rows = {}
      /\ s.phase = "Admitting" => s.rows # {}
  BY SoundFacts DEF Owns
<1> QED
  BY <1>2, <1>5, <1>6, <1>7, <1>8

\* A batch that failed is thrown away, whether or not the failure poisoned.
LEMMA FailedPrefillOwns ==
  ASSUME NEW s, NEW p, NEW u, Owns(s, p, u), s.phase # "Idle"
  PROVE  /\ P!Sound(Core!PrefillFails(s))
         /\ Core!PrefillFails(s).tok = s.tok
         /\ Owns(Core!EvictAll(Core!PrefillFails(s)), p, u)
<1>1. /\ Core!PrefillFails(s) = P!PrefillFails(s)
      /\ \A t : Core!EvictAll(t) = P!EvictAll(t)
  BY DEF Core!PrefillFails, P!PrefillFails, Core!EvictAll, P!EvictAll
<1>2. P!Sound(Core!PrefillFails(s))
  BY <1>1, CoreAssumptions, P!PoisonSound DEF Owns
<1>3. P!Sound(Core!EvictAll(Core!PrefillFails(s)))
  BY <1>1, <1>2, CoreAssumptions, P!EvictAllSound
<1>4. Core!PrefillFails(s).phase = s.phase /\ Core!PrefillFails(s).tok = s.tok
  BY SoundFacts DEF Owns, Core!PrefillFails
<1> QED
  BY <1>2, <1>3, <1>4, EvictAllFields DEF Owns, P!Accounted, Recoverable

\* A failed step of a scheduler that was not poisoned is recovered by evict_all.
LEMMA FailedStepOwns ==
  ASSUME NEW s, NEW p, NEW u, Owns(s, p, u)
  PROVE  /\ P!Sound(Core!StepFails(s))
         /\ Core!StepFails(s).tok = s.tok
         /\ ~s.poisoned => Owns(Core!EvictAll(Core!StepFails(s)), p, u)
<1>1. /\ Core!StepFails(s) = P!StepFails(s)
      /\ \A t : Core!EvictAll(t) = P!EvictAll(t)
  BY DEF Core!StepFails, P!StepFails, Core!EvictAll, P!EvictAll
<1>2. P!Sound(Core!StepFails(s))
  BY <1>1, CoreAssumptions, P!PoisonSound DEF Owns
<1>3. P!Sound(Core!EvictAll(Core!StepFails(s)))
  BY <1>1, <1>2, CoreAssumptions, P!EvictAllSound
<1>4. /\ Core!StepFails(s).phase = s.phase /\ Core!StepFails(s).tok = s.tok
      /\ Core!StepFails(s).reserved = s.reserved
  BY SoundFacts DEF Owns, Core!StepFails
<1>5. ~s.poisoned /\ s.phase = "Idle" => s.reserved = {}
  BY SoundFacts DEF Owns
<1> QED
  BY <1>2, <1>3, <1>4, <1>5, EvictAllFields DEF Owns, P!Accounted, Recoverable

\* The first token of a whole batch.
LEMMA PrefillOwns ==
  ASSUME NEW s, NEW p, NEW u, Owns(s, p, u), Core!CanPrefill(s),
         NEW eos \in SUBSET s.rows, NEW t, t = Core!Prefill(s, eos)
  PROVE  /\ Owns(t, p, u)
         /\ t.rows = s.rows /\ t.phase \in {"Decoding", "Finished"}
         /\ \A r \in t.rows : t.tok[r] > 0
<1>1. P!CanPrefill(s) /\ t = P!Prefill(s, eos)
  BY DEF Core!CanPrefill, P!CanPrefill, P!Prefill, Core!Prefill, P!PushTokens, Core!PushTokens
<1>2. P!Sound(t) /\ P!Frame(s, t)
  BY <1>1, CoreAssumptions, P!PrefillSound DEF Owns
<1>3. t.rows = s.rows /\ \A r \in Requests \ s.rows : t.tok[r] = s.tok[r]
  BY <1>2 DEF P!Frame
<1>4. /\ t.phase \in {"Decoding", "Finished"} /\ ~t.poisoned /\ t.reserved = {}
  BY SoundFacts DEF Owns, Core!CanPrefill, Core!Prefill, Core!PushTokens
<1>5. \A r \in t.rows : t.tok[r] > 0
  BY <1>2, <1>4, SoundFacts
<1> QED
  BY <1>2, <1>3, <1>4, <1>5 DEF Owns, P!Accounted, Recoverable

\* A decode step and the collection of what it finished.
LEMMA StepOwns ==
  ASSUME NEW s, NEW p, NEW u, Owns(s, p, u), Core!CanStep(s),
         NEW eos \in SUBSET Core!Decodable(s), NEW t, t = Core!Step(s, eos),
         NEW v, v = Core!GcFinishedRows(t)
  PROVE  /\ Owns(v, p, u)
         /\ t.rows = s.rows /\ v.rows = s.rows \ t.done /\ v.done = {} /\ t.done \subseteq s.rows
         /\ v.phase \in {"Decoding", "Finished"}
         /\ {r \in v.rows : v.tok[r] = 0} = {r \in s.rows : s.tok[r] = 0}
<1>1. /\ P!CanStep(s) /\ t = P!Step(s, eos) /\ eos \in SUBSET P!Decodable(s)
      /\ v = P!GcFinishedRows(t)
  BY DEF Core!CanStep, P!CanStep, P!Step, Core!Step, P!PushTokens, Core!PushTokens,
         P!Decodable, Core!Decodable, Core!GcFinishedRows, P!GcFinishedRows
<1>2. P!Sound(t) /\ P!Frame(s, t)
  BY <1>1, CoreAssumptions, P!StepSound DEF Owns
<1>3. P!Sound(v)
  BY <1>1, <1>2, CoreAssumptions, P!GcSound
<1>4. t.rows = s.rows /\ \A r \in Requests \ s.rows : t.tok[r] = s.tok[r]
  BY <1>2 DEF P!Frame
<1>5. t.phase \in {"Decoding", "Finished"} /\ ~t.poisoned /\ t.reserved = s.reserved /\ ~s.poisoned
  BY SoundFacts DEF Owns, Core!CanStep, Core!Step, Core!PushTokens
<1>6. /\ v.rows = t.rows \ t.done /\ v.done = {} /\ v.tok = t.tok
      /\ v.phase \in {"Decoding", "Finished"} /\ ~v.poisoned /\ v.reserved = t.reserved
  BY <1>2, <1>5, SoundFacts DEF Core!GcFinishedRows
<1>7. {r \in v.rows : v.tok[r] = 0} = {r \in s.rows : s.tok[r] = 0}
  <2>1. v.reserved = {r \in v.rows : v.tok[r] = 0}
    BY <1>3, <1>6, SoundFacts
  <2>2. s.reserved = {r \in s.rows : s.tok[r] = 0}
    BY <1>5, SoundFacts DEF Owns
  <2> QED
    BY <1>5, <1>6, <2>1, <2>2
<1>8. t.done \subseteq s.rows
  BY <1>2, <1>4, SoundFacts
<1> QED
  BY <1>3, <1>4, <1>6, <1>7, <1>8 DEF Owns, P!Accounted, Recoverable

\* The first token of a mid-admitted row.
LEMMA FinalizeMidOwns ==
  ASSUME NEW s, NEW p, NEW u, Owns(s, p, u), Core!CanStep(s),
         NEW r \in s.rows, s.tok[r] = 0,
         NEW eos \in SUBSET {r}, NEW t, t = Core!FinalizeMid(s, r, eos)
  PROVE  /\ Owns(t, p, u)
         /\ t.rows = s.rows /\ t.phase = s.phase /\ s.done \subseteq t.done
         /\ {q \in t.rows : t.tok[q] = 0} = {q \in s.rows : s.tok[q] = 0} \ {r}
<1>1. P!CanStep(s) /\ t = P!FinalizeMid(s, r, eos)
  BY DEF Core!CanStep, P!CanStep, P!FinalizeMid, Core!FinalizeMid, P!PushTokens, Core!PushTokens
<1>2. P!Sound(t)
  BY <1>1, CoreAssumptions, P!FinalizeMidSound DEF Owns
<1>3. /\ t.rows = s.rows /\ t.phase = s.phase /\ t.poisoned = s.poisoned /\ ~s.poisoned
      /\ t.reserved = s.reserved \ {r} /\ s.done \subseteq t.done /\ r \in Requests
      /\ t.tok = [q \in Requests |-> IF q \in {r} THEN s.tok[q] + 1 ELSE s.tok[q]]
  BY SoundFacts DEF Owns, Core!CanStep, Core!FinalizeMid, Core!PushTokens
<1>4. {q \in t.rows : t.tok[q] = 0} = {q \in s.rows : s.tok[q] = 0} \ {r}
  <2>1. t.reserved = {q \in t.rows : t.tok[q] = 0}
    BY <1>2, <1>3, SoundFacts
  <2>2. s.reserved = {q \in s.rows : s.tok[q] = 0}
    BY <1>3, SoundFacts DEF Owns
  <2> QED
    BY <1>3, <2>1, <2>2
<1>5. \A q \in Requests : q # r => t.tok[q] = s.tok[q]
  BY <1>3
<1> QED
  BY <1>2, <1>3, <1>4, <1>5 DEF Owns, P!Accounted, Recoverable

\* A parked row is the caller's to restore.
LEMMA ParkOwns ==
  ASSUME NEW s, NEW p, NEW u, Owns(s, p, u), NEW r \in Requests, Core!CanPark(s, r),
         NEW t, t = Core!Park(s, r)
  PROVE  /\ Owns(t, p \union {r}, u)
         /\ r \in s.rows /\ r \notin p /\ s.tok[r] > 0
         /\ t.rows = s.rows \ {r} /\ t.phase = s.phase /\ t.done = s.done /\ t.tok = s.tok
<1>1. P!CanPark(s, r) /\ t = P!Park(s, r)
  BY DEF Core!CanPark, P!CanPark, Core!Decodable, P!Decodable, Core!Park, P!Park
<1>2. P!Sound(t)
  BY <1>1, CoreAssumptions, P!ParkSound DEF Owns
<1>3. /\ t.rows = s.rows \ {r} /\ t.phase = s.phase /\ t.done = s.done /\ t.tok = s.tok
      /\ t.poisoned = s.poisoned /\ t.reserved = s.reserved
  BY SoundFacts DEF Owns, Core!Park
<1>4. r \in s.rows /\ r \notin s.done /\ s.tok[r] > 0 /\ ~s.poisoned
  BY DEF Core!CanPark, Core!Decodable
<1>5. r \notin p /\ r \in u /\ p \subseteq Requests /\ u \subseteq Requests
  BY <1>4 DEF Owns, P!Accounted
<1>6. s.tok[r] < MaxNew[r]
  <2>1. s.tok[r] <= P!Limit(r) /\ s.tok[r] # P!Limit(r) /\ s.tok[r] \in Nat
    BY <1>4, SoundFacts DEF Owns, P!Sound, P!Limited
  <2>2. MaxNew[r] \in Nat /\ P!Limit(r) = IF MaxNew[r] = 0 THEN 1 ELSE MaxNew[r]
    BY CoreAssumptions DEF P!Limit
  <2> QED
    BY <1>4, <2>1, <2>2
<1>7. r \notin SessionFaults
  BY <1>4, SoundFacts DEF Owns
<1> QED
  BY <1>2, <1>3, <1>4, <1>5, <1>6, <1>7 DEF Owns, P!Accounted, Recoverable

\* A restored row is a row again.
LEMMA RestoreOwns ==
  ASSUME NEW s, NEW p, NEW u, Owns(s, p, u), NEW r \in p, Core!CanRestore(s, r),
         s.phase # "Admitting", NEW t, t = Core!Restore(s, r)
  PROVE  /\ Owns(t, p \ {r}, u)
         /\ t.rows = s.rows \union {r} /\ t.phase = "Decoding"
         /\ t.done = s.done /\ t.tok = s.tok /\ s.tok[r] > 0
<1>1. P!CanRestore(s, r) /\ t = P!Restore(s, r)
  BY SameCounting DEF Core!CanRestore, P!CanRestore, Core!Restore, P!Restore,
     Core!ActiveCount, P!ActiveCount
<1>2. /\ r \in Requests /\ r \in u /\ 0 < s.tok[r] /\ s.tok[r] < MaxNew[r]
      /\ r \notin SessionFaults
  BY DEF Owns, P!Accounted
<1>3. P!Sound(t)
  BY <1>1, <1>2, CoreAssumptions, P!RestoreSound DEF Owns
<1>4. /\ t.rows = s.rows \union {r} /\ t.phase = "Decoding"
      /\ t.done = s.done /\ t.tok = s.tok
      /\ t.poisoned = s.poisoned /\ ~s.poisoned
  BY SoundFacts DEF Owns, Core!Restore, Core!CanRestore
<1> QED
  BY <1>2, <1>3, <1>4 DEF Owns, P!Accounted, Recoverable
=============================================================================
