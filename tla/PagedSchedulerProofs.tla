------------------------ MODULE PagedSchedulerProofs ------------------------
(***************************************************************************)
(* What PagedScheduler keeps of requests, whatever its calls on the cache  *)
(* come to: which request is in which slot, parked or ended, and whom the  *)
(* handle of a mid-batch admission names.                                  *)
(***************************************************************************)
EXTENDS PagedScheduler, WellFoundedInduction, TLAPS

Phases == {"Idle", "Admitting", "Decoding", "Finished"}

(* The requests in the slots of s *)
In(s) == {s[i] : i \in Occupied(s)}

(* Every slot has a request or none, and no request has two. *)
OneSlotEach(s) ==
  /\ s \in [Slots -> Requests \cup {NoRequest}]
  /\ \A i, j \in Slots : s[i] = s[j] /\ s[i] # NoRequest => i = j

IsHandle(m) ==
  /\ m = [req |-> m.req, in_place |-> m.in_place, start |-> m.start, begun |-> m.begun]
  /\ m.req \in Requests \cup {NoRequest}

(* The inductive invariant: OnePlace with the types it needs *)
PlaceInv ==
  /\ OneSlotEach(slots) /\ phase \in Phases /\ gen \in [Requests -> Seq(Nat)]
  /\ Parked \subseteq Requests /\ ended \subseteq Requests /\ IsHandle(mid)
  /\ OnePlace

-----------------------------------------------------------------------------
(* Slots *)

LEMMA RunningIsIn == Running = In(slots) /\ Running' = In(slots')
  BY DEF Running, In

LEMMA MemberOfIn ==
  ASSUME NEW s, NEW r
  PROVE  r \in In(s) <=> \E i \in Slots : s[i] = r /\ r # NoRequest
  BY DEF In, Occupied

LEMMA InRequests == ASSUME NEW s, OneSlotEach(s) PROVE In(s) \subseteq Requests
  BY MemberOfIn DEF OneSlotEach

(* The smallest of some slots is one of them. *)
LEMMA MinOfSlots ==
  ASSUME NEW S, S \subseteq Slots, S # {}
  PROVE  Min(S) \in S
<1>1. S \subseteq Nat
  BY PagedAssumption DEF Slots
<1>2. PICK less : less = {pair \in Nat \X Nat : pair[1] < pair[2]}
  OBVIOUS
<1>3. IsWellFoundedOn(less, Nat)
  BY <1>2, NatLessThanWellFounded DEF OpToRel
<1>4. PICK x \in S : \A y \in S : ~(<<y, x>> \in less)
  BY <1>1, <1>3, WFMin
<1>5. \A y \in S : x <= y
  <2> SUFFICES ASSUME NEW y \in S, y < x PROVE FALSE
    BY <1>1
  <2>1. <<y, x>> \in less
    BY <1>1, <1>2
  <2> QED
    BY <1>4, <2>1
<1> QED
  BY <1>5 DEF Min

(* A request that is in no slot takes the free slot i. *)
Takes(s, i, r, t) ==
  /\ OneSlotEach(s) /\ i \in Slots /\ s[i] = NoRequest
  /\ r \in Requests \ In(s) /\ t = [s EXCEPT ![i] = r]

LEMMA TakeSlot ==
  ASSUME NEW s, NEW i, NEW r, NEW t, Takes(s, i, r, t)
  PROVE  OneSlotEach(t) /\ In(t) = In(s) \cup {r}
<1>0. /\ OneSlotEach(s) /\ i \in Slots /\ s[i] = NoRequest
      /\ r \in Requests /\ r \notin In(s) /\ t = [s EXCEPT ![i] = r]
  BY DEF Takes
<1>1. r # NoRequest
  BY <1>0, KVAssumption
<1>2. \A j \in Slots : s[j] # r
  BY <1>0, <1>1, MemberOfIn
<1>3. t \in [Slots -> Requests \cup {NoRequest}] /\ \A j \in Slots : t[j] = IF j = i THEN r ELSE s[j]
  BY <1>0 DEF OneSlotEach
<1>4. OneSlotEach(t)
  BY <1>0, <1>2, <1>3 DEF OneSlotEach
<1>5. ASSUME NEW q PROVE q \in In(t) <=> q \in In(s) \/ q = r
  <2>1. q \in In(s) <=> \E j \in Slots : s[j] = q /\ q # NoRequest
    BY MemberOfIn, Zenon
  <2>2. q \in In(t) <=> \E j \in Slots : t[j] = q /\ q # NoRequest
    BY MemberOfIn, Zenon
  <2>3. t[i] = r /\ \A j \in Slots : j # i => t[j] = s[j]
    BY <1>0, <1>3
  <2>4. CASE q = r
    BY <1>0, <1>1, <2>2, <2>3, <2>4
  <2>5. CASE q # r
    BY <1>0, <2>1, <2>2, <2>3, <2>5
  <2> QED
    BY <2>4, <2>5
<1>6. PICK before, after : before = In(s) /\ after = In(t)
  OBVIOUS
<1>7. ASSUME NEW q PROVE q \in after <=> q \in before \cup {r}
  BY <1>5, <1>6
<1>8. after = before \cup {r}
  BY <1>7, Zenon
<1> QED
  BY <1>4, <1>6, <1>8

(* The slots of some requests are vacated. *)
LEMMA VacateSlots ==
  ASSUME OneSlotEach(slots), NEW rs, NEW t, t = Vacate(rs)
  PROVE  OneSlotEach(t) /\ In(t) = In(slots) \ rs
<1>1. /\ t \in [Slots -> Requests \cup {NoRequest}]
      /\ \A j \in Slots : t[j] = IF slots[j] \in rs THEN NoRequest ELSE slots[j]
  BY DEF OneSlotEach, Vacate
<1>2. OneSlotEach(t)
  BY <1>1 DEF OneSlotEach
<1>3. ASSUME NEW q PROVE q \in In(t) <=> q \in In(slots) /\ q \notin rs
  BY <1>1, MemberOfIn
<1> QED
  BY <1>2, <1>3

LEMMA EmptySlots ==
  ASSUME NEW t, t = [i \in Slots |-> NoRequest]
  PROVE  OneSlotEach(t) /\ In(t) = {}
  BY MemberOfIn DEF OneSlotEach

(* What the phase becomes when slots are vacated *)
LEMMA PhaseOfSlots ==
  ASSUME phase \in Phases, phase = "Idle" => In(slots) = {}, NEW s, In(s) \subseteq In(slots),
         NEW p, p = PhaseWith(s)
  PROVE  p \in Phases /\ (p = "Idle" => In(s) = {}) /\ (In(s) # {} => p = phase)
<1>1. In(s) = {} <=> Occupied(s) = {}
  BY DEF In
<1>2. CASE Occupied(s) # {}
  BY <1>1, <1>2 DEF PhaseWith
<1>3. CASE Occupied(s) = {}
  <2>1. CASE phase = "Decoding"
    BY <1>1, <1>3, <2>1 DEF PhaseWith, Phases
  <2>2. CASE phase = "Admitting"
    BY <1>1, <1>3, <2>2 DEF PhaseWith, Phases
  <2>3. CASE phase \in {"Idle", "Finished"}
    BY <1>1, <1>3, <2>3 DEF PhaseWith, Phases
  <2> QED
    BY <2>1, <2>2, <2>3 DEF Phases
<1> QED
  BY <1>2, <1>3

-----------------------------------------------------------------------------
(* Tokens *)

LEMMA EmittedTokens ==
  ASSUME gen \in [Requests -> Seq(Nat)], NEW rs, NEW g, g = Emitted(rs)
  PROVE  g \in [Requests -> Seq(Nat)] /\ \A r \in Requests : r \notin rs => g[r] = gen[r]
<1>1. \A r \in Requests : Append(gen[r], Sampled[r]) \in Seq(Nat)
  BY PagedAssumption
<1> QED
  BY <1>1 DEF Emitted

LEMMA ForgottenTokens ==
  ASSUME NEW g \in [Requests -> Seq(Nat)], NEW rs, NEW h, h = Forget(g, rs)
  PROVE  h \in [Requests -> Seq(Nat)] /\ \A r \in Requests : h[r] = <<>> \/ h[r] = g[r]
  BY DEF Forget

-----------------------------------------------------------------------------
(* The invariant before a step, in parts, and what shows it afterwards *)

LEMMA PlaceParts ==
  ASSUME PlaceInv
  PROVE  /\ OneSlotEach(slots) /\ phase \in Phases /\ gen \in [Requests -> Seq(Nat)]
         /\ Parked \subseteq Requests /\ ended \subseteq Requests /\ IsHandle(mid)
         /\ In(slots) \cap (ended \cup Parked) = {} /\ ended \cap Parked = {}
         /\ \A r \in Requests : r \notin In(slots) \cup ended \cup Parked => gen[r] = <<>>
         /\ mid.req # NoRequest => mid.req \in In(slots) /\ gen[mid.req] = <<>> /\ phase = "Decoding"
         /\ phase = "Idle" => In(slots) = {}
  BY RunningIsIn DEF PlaceInv, OnePlace, New

LEMMA Placed ==
  ASSUME OneSlotEach(slots'), phase' \in Phases, gen' \in [Requests -> Seq(Nat)],
         Parked' \subseteq Requests, ended' \subseteq Requests, IsHandle(mid'),
         NEW run, run = In(slots'),
         run \cap (ended' \cup Parked') = {}, ended' \cap Parked' = {},
         \A r \in Requests : r \notin run \cup ended' \cup Parked' => gen'[r] = <<>>,
         mid'.req # NoRequest => mid'.req \in run /\ gen'[mid'.req] = <<>> /\ phase' = "Decoding",
         phase' = "Idle" => run = {}
  PROVE  PlaceInv'
  BY RunningIsIn DEF PlaceInv, OnePlace, New, OneSlotEach

LEMMA NoMidIsHandle == IsHandle(NoMid) /\ NoMid.req = NoRequest
  BY DEF NoMid, IsHandle

-----------------------------------------------------------------------------
(* Ways a call ends *)

LEMMA AbortPlaces == ASSUME PlaceInv, NEW w, Abort(w) PROVE PlaceInv'
<1>1. /\ slots' = [i \in Slots |-> NoRequest] /\ gen' = [r \in Requests |-> <<>>]
      /\ ended' = ended \cup In(slots) \cup Parked /\ saved' = <<>> /\ mid' = NoMid /\ phase' = "Idle"
  BY RunningIsIn DEF Abort
<1>2. OneSlotEach(slots') /\ In(slots') = {}
  BY <1>1, EmptySlots
<1>3. Parked' = {}
  BY <1>1 DEF Parked
<1>4. ended' \subseteq Requests
  BY <1>1, PlaceParts, InRequests
<1>5. IsHandle(mid') /\ mid'.req = NoRequest
  BY <1>1, NoMidIsHandle
<1> QED
  BY <1>1, <1>2, <1>3, <1>4, <1>5, Placed DEF Phases

(* The requests of rs get a token, and those that are done go. *)
LEMMA CollectPlaces ==
  ASSUME PlaceInv, NEW w, NEW rs, rs \subseteq In(slots), mid.req \notin rs,
         Collect(w, Emitted(rs))
  PROVE  PlaceInv'
<1>1. PICK g, gone : g = Emitted(rs) /\ gone = Done(g)
  OBVIOUS
<1>2. /\ slots' = Vacate(gone) /\ phase' = PhaseWith(Vacate(gone)) /\ gen' = Forget(g, gone)
      /\ ended' = ended \cup gone /\ mid' = mid /\ saved' = saved
  BY <1>1 DEF Collect
<1>3. g \in [Requests -> Seq(Nat)] /\ \A r \in Requests : r \notin rs => g[r] = gen[r]
  BY <1>1, PlaceParts, EmittedTokens
<1>4. gen' \in [Requests -> Seq(Nat)] /\ \A r \in Requests : gen'[r] = <<>> \/ gen'[r] = g[r]
  BY <1>2, <1>3, ForgottenTokens
<1>5. gone \subseteq In(slots) /\ In(slots) \subseteq Requests
  BY <1>1, RunningIsIn, PlaceParts, InRequests DEF Done
<1>6. OneSlotEach(slots') /\ In(slots') = In(slots) \ gone
  BY <1>2, PlaceParts, VacateSlots
<1>7. /\ phase' \in Phases /\ (phase' = "Idle" => In(slots') = {})
      /\ (In(slots') # {} => phase' = phase)
  <2>1. PICK s : s = Vacate(gone)
    OBVIOUS
  <2> QED
    BY <1>2, <1>6, <2>1, PlaceParts, PhaseOfSlots
<1>8. ASSUME mid.req # NoRequest
      PROVE  mid.req \in In(slots') /\ gen'[mid.req] = <<>> /\ phase' = "Decoding"
  <2>1. mid.req \in In(slots) /\ mid.req \in Requests /\ gen[mid.req] = <<>> /\ phase = "Decoding"
    BY <1>5, <1>8, PlaceParts
  <2>2. g[mid.req] = <<>>
    BY <1>3, <2>1
  <2>3. mid.req \notin gone
    BY <1>1, <2>1, <2>2, PagedAssumption DEF Done
  <2> QED
    BY <1>4, <1>6, <1>7, <2>1, <2>2, <2>3
<1>9. Parked' = Parked
  BY <1>2 DEF Parked
<1>10. ASSUME NEW r \in Requests, r \notin In(slots') \cup ended' \cup Parked'
       PROVE  gen'[r] = <<>>
  BY <1>2, <1>3, <1>4, <1>6, <1>9, <1>10, PlaceParts
<1>11. /\ In(slots') \cap (ended' \cup Parked') = {} /\ ended' \cap Parked' = {}
       /\ ended' \subseteq Requests /\ Parked' \subseteq Requests
  BY <1>2, <1>5, <1>6, <1>9, PlaceParts
<1>12. IsHandle(mid')
  BY <1>2, PlaceParts
<1> QED
  BY <1>2, <1>4, <1>6, <1>7, <1>8, <1>10, <1>11, <1>12, Placed

(* A running request is evicted; the handle goes with its request. *)
LEMMA EvictPlaces ==
  ASSUME PlaceInv, NEW w, NEW r, r \in In(slots), EvictedFrom(w, r), saved' = saved,
         mid' = IF mid.req = r THEN NoMid ELSE mid
  PROVE  PlaceInv'
<1>1. /\ slots' = Vacate({r}) /\ phase' = PhaseWith(Vacate({r})) /\ gen' = Forget(gen, {r})
      /\ ended' = ended \cup {r}
  BY DEF EvictedFrom
<1>2. r \in Requests
  BY PlaceParts, InRequests
<1>3. gen' \in [Requests -> Seq(Nat)] /\ \A q \in Requests : gen'[q] = <<>> \/ gen'[q] = gen[q]
  BY <1>1, PlaceParts, ForgottenTokens
<1>4. OneSlotEach(slots') /\ In(slots') = In(slots) \ {r}
  BY <1>1, PlaceParts, VacateSlots
<1>5. /\ phase' \in Phases /\ (phase' = "Idle" => In(slots') = {})
      /\ (In(slots') # {} => phase' = phase)
  <2>1. PICK s : s = Vacate({r})
    OBVIOUS
  <2> QED
    BY <1>1, <1>4, <2>1, PlaceParts, PhaseOfSlots
<1>6. /\ IsHandle(mid')
      /\ mid'.req # NoRequest => mid' = mid /\ mid.req # r
  BY NoMidIsHandle, PlaceParts
<1>7. Parked' = Parked
  BY DEF Parked
<1>8. ASSUME mid'.req # NoRequest
      PROVE  mid'.req \in In(slots') /\ gen'[mid'.req] = <<>> /\ phase' = "Decoding"
  <2>1. mid.req \in In(slots) /\ mid.req \in Requests /\ gen[mid.req] = <<>> /\ phase = "Decoding"
    BY <1>6, <1>8, PlaceParts, InRequests
  <2> QED
    BY <1>3, <1>4, <1>5, <1>6, <1>8, <2>1
<1>9. ASSUME NEW q \in Requests, q \notin In(slots') \cup ended' \cup Parked'
      PROVE  gen'[q] = <<>>
  BY <1>1, <1>3, <1>4, <1>7, <1>9, PlaceParts
<1>10. /\ In(slots') \cap (ended' \cup Parked') = {} /\ ended' \cap Parked' = {}
       /\ ended' \subseteq Requests /\ Parked' \subseteq Requests
  BY <1>1, <1>2, <1>4, <1>7, PlaceParts
<1> QED
  BY <1>3, <1>4, <1>5, <1>6, <1>8, <1>9, <1>10, Placed

(* A request that is new or parked takes slot i, and no other is touched. *)
LEMMA TakePlaces ==
  ASSUME PlaceInv, NEW i \in Slots, slots[i] = NoRequest, NEW r \in Requests,
         r \notin In(slots) \cup ended, slots' = [slots EXCEPT ![i] = r],
         phase' \in Phases \ {"Idle"}, mid.req # NoRequest => phase' = "Decoding",
         gen' = gen, ended' = ended, Parked' = Parked \ {r},
         \/ mid' = mid
         \/ IsHandle(mid') /\ mid'.req = r /\ gen[r] = <<>> /\ phase' = "Decoding"
  PROVE  PlaceInv'
<1>1. OneSlotEach(slots') /\ In(slots') = In(slots) \cup {r}
  <2>1. OneSlotEach(slots) /\ r \notin In(slots)
    BY PlaceParts
  <2>2. PICK s : s = slots
    OBVIOUS
  <2>3. PICK t : t = slots'
    OBVIOUS
  <2>4. Takes(s, i, r, t)
    BY <2>1, <2>2, <2>3 DEF Takes
  <2>5. OneSlotEach(t) /\ In(t) = In(s) \cup {r}
    BY <2>4, TakeSlot
  <2>6. OneSlotEach(slots')
    BY <2>3, <2>5, Zenon
  <2>7. In(slots') = In(slots) \cup {r}
    <3>1. In(slots') = In(t)
      BY <2>3
    <3>2. In(slots) = In(s)
      BY <2>2
    <3> QED
      BY <2>5, <3>1, <3>2
  <2> QED
    BY <2>6, <2>7
<1>2. ASSUME mid'.req # NoRequest
      PROVE  mid'.req \in In(slots') /\ gen'[mid'.req] = <<>> /\ phase' = "Decoding"
  BY <1>1, <1>2, PlaceParts
<1>3. ASSUME NEW q \in Requests, q \notin In(slots') \cup ended' \cup Parked'
      PROVE  gen'[q] = <<>>
  BY <1>1, <1>3, PlaceParts
<1>4. /\ In(slots') \cap (ended' \cup Parked') = {} /\ ended' \cap Parked' = {}
      /\ ended' \subseteq Requests /\ Parked' \subseteq Requests
  BY <1>1, PlaceParts
<1>5. IsHandle(mid') /\ phase' \in Phases /\ phase' # "Idle" /\ gen' \in [Requests -> Seq(Nat)]
  BY PlaceParts
<1> QED
  BY <1>1, <1>2, <1>3, <1>4, <1>5, Placed

(* Nobody moves; requests that run may get tokens, and the handle may go on. *)
LEMMA StayPlaces ==
  ASSUME PlaceInv, slots' = slots, ended' = ended, saved' = saved,
         gen' \in [Requests -> Seq(Nat)], \A r \in Requests \ In(slots) : gen'[r] = gen[r],
         phase' \in Phases \ {"Idle"}, IsHandle(mid'),
         \/ mid'.req = NoRequest
         \/ mid'.req = mid.req /\ gen'[mid.req] = gen[mid.req] /\ phase' = phase
  PROVE  PlaceInv'
<1>1. OneSlotEach(slots') /\ In(slots') = In(slots) /\ Parked' = Parked
  BY PlaceParts DEF Parked
<1>2. ASSUME mid'.req # NoRequest
      PROVE  mid'.req \in In(slots') /\ gen'[mid'.req] = <<>> /\ phase' = "Decoding"
  BY <1>1, <1>2, PlaceParts
<1>3. ASSUME NEW q \in Requests, q \notin In(slots') \cup ended' \cup Parked'
      PROVE  gen'[q] = <<>>
  BY <1>1, <1>3, PlaceParts
<1>4. /\ In(slots') \cap (ended' \cup Parked') = {} /\ ended' \cap Parked' = {}
      /\ ended' \subseteq Requests /\ Parked' \subseteq Requests
  BY <1>1, PlaceParts
<1> QED
  BY <1>1, <1>2, <1>3, <1>4, Placed

(* A request that does not run ends. *)
LEMMA EndPlaces ==
  ASSUME PlaceInv, NEW r \in Requests, r \notin In(slots), slots' = slots,
         ended' = ended \cup {r}, Parked' = Parked \ {r}, phase' = phase, mid' = mid,
         gen' \in [Requests -> Seq(Nat)], \A q \in Requests \ {r} : gen'[q] = gen[q]
  PROVE  PlaceInv'
<1>1. OneSlotEach(slots') /\ In(slots') = In(slots)
  BY PlaceParts
<1>2. ASSUME mid'.req # NoRequest
      PROVE  mid'.req \in In(slots') /\ gen'[mid'.req] = <<>> /\ phase' = "Decoding"
  BY <1>1, <1>2, PlaceParts, InRequests
<1>3. ASSUME NEW q \in Requests, q \notin In(slots') \cup ended' \cup Parked'
      PROVE  gen'[q] = <<>>
  BY <1>1, <1>3, PlaceParts
<1>4. /\ In(slots') \cap (ended' \cup Parked') = {} /\ ended' \cap Parked' = {}
      /\ ended' \subseteq Requests /\ Parked' \subseteq Requests
  BY <1>1, PlaceParts
<1>5. IsHandle(mid') /\ phase' \in Phases /\ (phase' = "Idle" => In(slots') = {})
  BY <1>1, PlaceParts
<1> QED
  BY <1>1, <1>2, <1>3, <1>4, <1>5, Placed

-----------------------------------------------------------------------------
(* The actions *)

LEMMA FreeSlot == ASSUME Free # {} PROVE Min(Free) \in Slots /\ slots[Min(Free)] = NoRequest
<1>1. Free \subseteq Slots
  BY DEF Free
<1>2. Min(Free) \in Free
  BY <1>1, MinOfSlots
<1> QED
  BY <1>2 DEF Free, Occupied

LEMMA AdmitPlaces == ASSUME PlaceInv, NEW r \in Requests, Admit(r) PROVE PlaceInv'
<1>1. /\ r \notin In(slots) \cup ended \cup Parked /\ Free # {}
      /\ slots' = [slots EXCEPT ![Min(Free)] = r]
      /\ phase \in {"Idle", "Admitting", "Decoding"}
      /\ phase' = IF phase = "Idle" THEN "Admitting" ELSE phase
      /\ gen' = gen /\ mid' = mid /\ saved' = saved /\ ended' = ended
  BY RunningIsIn DEF Admit, New
<1>2. PICK i \in Slots : i = Min(Free) /\ slots[i] = NoRequest
  BY <1>1, FreeSlot
<1>3. Parked' = Parked \ {r}
  BY <1>1 DEF Parked
<1>4. phase' \in Phases \ {"Idle"} /\ (mid.req # NoRequest => phase' = "Decoding")
  BY <1>1, PlaceParts DEF Phases
<1>5. slots' = [slots EXCEPT ![i] = r]
  BY <1>1, <1>2
<1> QED
  BY <1>1, <1>2, <1>3, <1>4, <1>5, TakePlaces

LEMMA PrefillPlaces ==
  ASSUME PlaceInv, NEW readable, NEW room, NEW fails, Prefill(readable, room, fails)
  PROVE  PlaceInv'
<1>1. PICK a : phase = "Admitting" /\ PrefillEnds(a, room, fails)
  BY DEF Prefill
<1>2. CASE fails \/ ~a.ok
  BY <1>1, <1>2, AbortPlaces DEF PrefillEnds
<1>3. CASE ~(fails \/ ~a.ok)
  <2>1. /\ gen' = Emitted(Running) /\ phase' \in {"Finished", "Decoding"}
        /\ slots' = slots /\ mid' = mid /\ saved' = saved /\ ended' = ended
    BY <1>1, <1>3 DEF PrefillEnds
  <2>2. mid.req = NoRequest /\ IsHandle(mid)
    BY <1>1, PlaceParts
  <2>3. gen' \in [Requests -> Seq(Nat)] /\ \A r \in Requests \ In(slots) : gen'[r] = gen[r]
    BY <2>1, RunningIsIn, PlaceParts, EmittedTokens
  <2> QED
    BY <2>1, <2>2, <2>3, StayPlaces DEF Phases
<1> QED
  BY <1>2, <1>3

LEMMA StepPlaces == ASSUME PlaceInv, NEW fails, Step(fails) PROVE PlaceInv'
<1>1. PICK a : phase = "Decoding" /\ StepEnds(a, Active, fails)
  BY DEF Step
<1>2. CASE fails \/ ~a.ok
  BY <1>1, <1>2, AbortPlaces DEF StepEnds
<1>3. CASE ~(fails \/ ~a.ok)
  <2>1. Collect(a.w, Emitted(Active))
    BY <1>1, <1>3 DEF StepEnds
  <2>2. Active \subseteq In(slots)
    BY MemberOfIn DEF Active, Decodable
  <2>3. mid.req \notin Active
    <3> SUFFICES ASSUME mid.req \in Active PROVE FALSE
      OBVIOUS
    <3>1. PICK i \in Slots : slots[i] = mid.req /\ Decodable(i)
      BY DEF Active
    <3> QED
      BY <3>1, PlaceParts DEF Decodable
  <2> QED
    BY <2>1, <2>2, <2>3, CollectPlaces
<1> QED
  BY <1>2, <1>3

LEMMA MidBeginPlaces ==
  ASSUME PlaceInv, NEW r \in Requests, NEW readable, MidBegin(r, readable)
  PROVE  PlaceInv'
<1>1. PICK a : /\ r \notin In(slots) \cup ended \cup Parked /\ phase = "Decoding" /\ Free # {}
               /\ MidBegins(a, r) /\ gen' = gen /\ phase' = phase /\ saved' = saved
  BY RunningIsIn DEF MidBegin, New
<1>2. Parked' = Parked \ {r}
  BY <1>1 DEF Parked
<1>3. CASE a.ok
  <2>1. slots' = [slots EXCEPT ![Min(Free)] = r] /\ ended' = ended
    BY <1>1, <1>3 DEF MidBegins
  <2>2. IsHandle(mid') /\ mid'.req = r
    BY <1>1, <1>3 DEF MidBegins, IsHandle
  <2>3. gen[r] = <<>>
    BY <1>1, PlaceParts
  <2>4. PICK i \in Slots : i = Min(Free) /\ slots[i] = NoRequest
    BY <1>1, FreeSlot
  <2> QED
    BY <1>1, <1>2, <2>1, <2>2, <2>3, <2>4, TakePlaces DEF Phases
<1>4. CASE ~a.ok
  <2>1. slots' = slots /\ mid' = mid /\ ended' = ended \cup {r}
    BY <1>1, <1>4 DEF MidBegins
  <2> QED
    BY <1>1, <1>2, <2>1, EndPlaces, PlaceParts
<1> QED
  BY <1>3, <1>4

LEMMA GoesOnPlaces ==
  ASSUME PlaceInv, NEW w, NEW end, GoesOn(w, end), saved' = saved, mid.req # NoRequest
  PROVE  PlaceInv'
<1>1. /\ slots' = slots /\ gen' = gen /\ phase' = phase /\ ended' = ended
      /\ mid' = [mid EXCEPT !.start = end, !.begun = TRUE]
  BY DEF GoesOn
<1>2. IsHandle(mid') /\ mid'.req = mid.req
  BY <1>1, PlaceParts DEF IsHandle
<1>3. phase = "Decoding"
  BY PlaceParts
<1> QED
  BY <1>1, <1>2, <1>3, PlaceParts, StayPlaces DEF Phases

LEMMA CompletesPlaces ==
  ASSUME PlaceInv, NEW w, Completes(w), saved' = saved, mid.req # NoRequest
  PROVE  PlaceInv'
<1>1. /\ slots' = slots /\ gen' = Emitted({mid.req}) /\ phase' = phase /\ ended' = ended
      /\ mid' = NoMid
  BY DEF Completes
<1>2. mid.req \in In(slots) /\ phase = "Decoding"
  BY PlaceParts
<1>3. gen' \in [Requests -> Seq(Nat)] /\ \A r \in Requests \ In(slots) : gen'[r] = gen[r]
  BY <1>1, <1>2, PlaceParts, EmittedTokens
<1> QED
  BY <1>1, <1>2, <1>3, NoMidIsHandle, StayPlaces DEF Phases

LEMMA MidChunkPlaces ==
  ASSUME PlaceInv, NEW n, NEW room, NEW fails, MidChunk(n, room, fails)
  PROVE  PlaceInv'
<1>1. PICK a, end : mid.req # NoRequest /\ ChunkEnds(a, end, room, fails) /\ saved' = saved
  BY DEF MidChunk
<1>2. \/ GivesUp(a.w) \/ GoesOn(a.w, end)
      \/ \E w : Completes(w)
  BY <1>1 DEF ChunkEnds
<1>3. CASE GivesUp(a.w)
  BY <1>1, <1>3, PlaceParts, EvictPlaces DEF GivesUp
<1>4. CASE GoesOn(a.w, end)
  BY <1>1, <1>4, GoesOnPlaces
<1>5. CASE \E w : Completes(w)
  BY <1>1, <1>5, CompletesPlaces
<1> QED
  BY <1>2, <1>3, <1>4, <1>5

LEMMA HangUpPlaces == ASSUME PlaceInv, NEW r \in Requests, HangUp(r) PROVE PlaceInv'
<1>1. /\ r \in In(slots) /\ EvictedFrom(paged, r) /\ saved' = saved
      /\ mid' = IF mid.req = r THEN NoMid ELSE mid
  BY RunningIsIn DEF HangUp
<1> QED
  BY <1>1, EvictPlaces

LEMMA DiscardPlaces == ASSUME PlaceInv, NEW r \in Requests, DiscardParked(r) PROVE PlaceInv'
<1>1. /\ r \in Parked /\ saved' = Unparked(r) /\ gen' = Forget(gen, {r})
      /\ ended' = ended \cup {r} /\ slots' = slots /\ phase' = phase /\ mid' = mid
  BY DEF DiscardParked
<1>2. Parked' = Parked \ {r} /\ r \notin In(slots)
  BY <1>1, PlaceParts DEF Parked, Unparked
<1>3. gen' \in [Requests -> Seq(Nat)] /\ \A q \in Requests \ {r} : gen'[q] = gen[q]
  BY <1>1, PlaceParts DEF Forget
<1> QED
  BY <1>1, <1>2, <1>3, EndPlaces

LEMMA EvictAllPlaces == ASSUME PlaceInv, EvictAll PROVE PlaceInv'
<1>1. /\ phase = "Finished" \/ In(slots) = {}
      /\ slots' = [i \in Slots |-> NoRequest] /\ gen' = Forget(gen, In(slots))
      /\ ended' = ended \cup In(slots) /\ phase' = "Idle" /\ mid' = mid /\ saved' = saved
  BY RunningIsIn DEF EvictAll
<1>2. OneSlotEach(slots') /\ In(slots') = {}
  BY <1>1, EmptySlots
<1>3. Parked' = Parked
  BY <1>1 DEF Parked
<1>4. gen' \in [Requests -> Seq(Nat)] /\ \A q \in Requests : gen'[q] = <<>> \/ gen'[q] = gen[q]
  BY <1>1, PlaceParts, ForgottenTokens
<1>5. mid'.req = NoRequest /\ IsHandle(mid')
  BY <1>1, PlaceParts
<1>6. ASSUME NEW q \in Requests, q \notin In(slots') \cup ended' \cup Parked'
      PROVE  gen'[q] = <<>>
  BY <1>1, <1>3, <1>4, <1>6, PlaceParts
<1>7. ended' \cap Parked' = {} /\ ended' \subseteq Requests /\ Parked' \subseteq Requests
  BY <1>1, <1>3, PlaceParts, InRequests
<1> QED
  BY <1>1, <1>2, <1>4, <1>5, <1>6, <1>7, Placed DEF Phases

LEMMA ForkPlaces == ASSUME PlaceInv, NEW s \in Requests, NEW d \in Requests, Fork(s, d) PROVE PlaceInv'
<1>1. /\ phase = "Decoding" /\ d \in In(slots) /\ d # mid.req /\ gen' = [gen EXCEPT ![d] = gen[s]]
      /\ slots' = slots /\ phase' = phase /\ mid' = mid /\ saved' = saved /\ ended' = ended
  BY RunningIsIn DEF Fork
<1>2. gen' \in [Requests -> Seq(Nat)] /\ \A q \in Requests : q # d => gen'[q] = gen[q]
  BY <1>1, PlaceParts
<1>3. mid.req # NoRequest => mid.req \in Requests
  BY PlaceParts DEF IsHandle
<1> QED
  BY <1>1, <1>2, <1>3, PlaceParts, StayPlaces DEF Phases

LEMMA ParkPlaces == ASSUME PlaceInv, NEW r \in Requests, Park(r) PROVE PlaceInv'
<1>1. /\ phase = "Decoding" /\ mid = NoMid /\ r \in In(slots)
      /\ DOMAIN saved' = Parked \cup {r} /\ slots' = Vacate({r})
      /\ gen' = gen /\ phase' = phase /\ mid' = mid /\ ended' = ended
  BY RunningIsIn DEF Park
<1>2. OneSlotEach(slots') /\ In(slots') = In(slots) \ {r}
  BY <1>1, PlaceParts, VacateSlots
<1>3. Parked' = Parked \cup {r}
  BY <1>1 DEF Parked
<1>4. mid'.req = NoRequest /\ IsHandle(mid')
  BY <1>1, NoMidIsHandle
<1>5. ASSUME NEW q \in Requests, q \notin In(slots') \cup ended' \cup Parked'
      PROVE  gen'[q] = <<>>
  BY <1>1, <1>2, <1>3, <1>5, PlaceParts
<1>6. /\ In(slots') \cap (ended' \cup Parked') = {} /\ ended' \cap Parked' = {}
      /\ ended' \subseteq Requests /\ Parked' \subseteq Requests
  <2>1. /\ In(slots) \cap (ended \cup Parked) = {} /\ ended \cap Parked = {}
        /\ ended \subseteq Requests /\ Parked \subseteq Requests /\ r \in In(slots)
    BY <1>1, PlaceParts
  <2>2. ended' = ended /\ In(slots') = In(slots) \ {r} /\ Parked' = Parked \cup {r}
    BY <1>1, <1>2, <1>3
  <2>3. In(slots') \cap (ended' \cup Parked') = {}
    BY <2>1, <2>2
  <2>4. ended' \cap Parked' = {}
    BY <2>1, <2>2
  <2> QED
    BY <2>1, <2>2, <2>3, <2>4
<1> QED
  BY <1>1, <1>2, <1>4, <1>5, <1>6, PlaceParts, Placed DEF Phases

LEMMA UnparkPlaces == ASSUME PlaceInv, NEW r \in Requests, NEW fails, Unpark(r, fails) PROVE PlaceInv'
<1>1. PICK w, row : /\ r \in Parked /\ In(slots) = {} /\ saved' = Unparked(r)
                    /\ UnparkEnds(w, row, r) /\ mid' = mid
  BY RunningIsIn DEF Unpark
<1>2. Parked' = Parked \ {r}
  BY <1>1 DEF Parked, Unparked
<1>3. \/ /\ ended' = ended /\ slots' = [slots EXCEPT ![Min(Slots)] = r]
         /\ phase' = "Decoding" /\ gen' = gen
      \/ /\ gen' = Forget(gen, {r}) /\ ended' = ended \cup {r}
         /\ slots' = slots /\ phase' = phase
  BY <1>1 DEF UnparkEnds
<1>4. CASE ended' = ended /\ slots' = [slots EXCEPT ![Min(Slots)] = r] /\ phase' = "Decoding" /\ gen' = gen
  <2>1. Min(Slots) \in Slots
    <3>1. 1 \in Slots
      BY PagedAssumption DEF Slots
    <3> QED
      BY <3>1, MinOfSlots
  <2>2. PICK i \in Slots : i = Min(Slots)
    BY <2>1
  <2>3. slots[i] = NoRequest
    BY <1>1, MemberOfIn
  <2>4. r \notin In(slots) \cup ended
    BY <1>1, PlaceParts
  <2>5. slots' = [slots EXCEPT ![i] = r]
    BY <1>4, <2>2
  <2> QED
    BY <1>1, <1>2, <1>4, <2>3, <2>4, <2>5, TakePlaces DEF Phases
<1>5. CASE /\ gen' = Forget(gen, {r}) /\ ended' = ended \cup {r}
           /\ slots' = slots /\ phase' = phase
  <2>1. gen' \in [Requests -> Seq(Nat)] /\ \A q \in Requests \ {r} : gen'[q] = gen[q]
    BY <1>5, PlaceParts DEF Forget
  <2> QED
    BY <1>1, <1>2, <1>5, <2>1, EndPlaces
<1> QED
  BY <1>3, <1>4, <1>5

(* Pressure, the store and a stutter leave requests alone. *)
LEMMA AsidePlaces ==
  ASSUME PlaceInv, UNCHANGED <<slots, gen, phase, mid, saved, ended>>
  PROVE  PlaceInv'
<1>1. OneSlotEach(slots') /\ In(slots') = In(slots) /\ Parked' = Parked
  BY PlaceParts DEF Parked
<1> QED
  BY <1>1, PlaceParts, Placed

-----------------------------------------------------------------------------
(* Nothing runs at the start. *)
LEMMA PlaceStart == Init => PlaceInv
<1> SUFFICES ASSUME Init PROVE PlaceInv
  OBVIOUS
<1>1. /\ slots = [i \in Slots |-> NoRequest] /\ gen = [r \in Requests |-> <<>>] /\ phase = "Idle"
      /\ mid = NoMid /\ saved = <<>> /\ ended = {}
  BY DEF Init
<1>2. OneSlotEach(slots) /\ In(slots) = {}
  BY <1>1, EmptySlots
<1>3. Parked = {} /\ Running = {}
  BY <1>1, <1>2, RunningIsIn DEF Parked
<1>4. gen \in [Requests -> Seq(Nat)] /\ \A r \in Requests : gen[r] = <<>>
  BY <1>1
<1> QED
  BY <1>1, <1>2, <1>3, <1>4, NoMidIsHandle DEF PlaceInv, OnePlace, OneSlotEach, Phases

LEMMA PlaceStep == PlaceInv /\ [Next]_vars => PlaceInv'
<1> SUFFICES ASSUME PlaceInv, [Next]_vars PROVE PlaceInv'
  OBVIOUS
<1>1. ASSUME NEW r \in Requests, Admit(r) PROVE PlaceInv'
  BY <1>1, AdmitPlaces
<1>2. ASSUME NEW readable, NEW room, NEW fails, Prefill(readable, room, fails) PROVE PlaceInv'
  BY <1>2, PrefillPlaces
<1>3. ASSUME NEW fails, Step(fails) PROVE PlaceInv'
  BY <1>3, StepPlaces
<1>4. ASSUME NEW r \in Requests, NEW readable, MidBegin(r, readable) PROVE PlaceInv'
  BY <1>4, MidBeginPlaces
<1>5. ASSUME NEW n, NEW room, NEW fails, MidChunk(n, room, fails) PROVE PlaceInv'
  BY <1>5, MidChunkPlaces
<1>6. ASSUME NEW r \in Requests, HangUp(r) \/ DiscardParked(r) \/ Park(r) PROVE PlaceInv'
  BY <1>6, HangUpPlaces, DiscardPlaces, ParkPlaces
<1>7. ASSUME EvictAll PROVE PlaceInv'
  BY <1>7, EvictAllPlaces
<1>8. ASSUME NEW s \in Requests, NEW d \in Requests, Fork(s, d) PROVE PlaceInv'
  BY <1>8, ForkPlaces
<1>9. ASSUME NEW r \in Requests, NEW fails, Unpark(r, fails) PROVE PlaceInv'
  BY <1>9, UnparkPlaces
<1>10. ASSUME NEW quarters, NEW emergency, Pressure(quarters, emergency) PROVE PlaceInv'
  BY <1>10, AsidePlaces DEF Pressure
<1>11. ASSUME NEW tried, RetryStores(tried) PROVE PlaceInv'
  BY <1>11, AsidePlaces DEF RetryStores
<1>12. ASSUME NEW chain, NEW succeeds, StoreWorker(chain, succeeds) PROVE PlaceInv'
  BY <1>12, AsidePlaces DEF StoreWorker
<1>13. CASE UNCHANGED vars
  BY <1>13, AsidePlaces DEF vars
<1> QED
  BY <1>1, <1>2, <1>3, <1>4, <1>5, <1>6, <1>7, <1>8, <1>9, <1>10, <1>11, <1>12, <1>13, Zenon DEF Next

(* The inductive invariant holds in every reachable state. *)
THEOREM PlacesInvariant == Spec => []PlaceInv
  BY PlaceStart, PlaceStep, PTL DEF Spec

(* No request is in two places, none is lost between them by a failing call, and the
   handle of a mid-batch admission never outlives its slot: for any number of slots,
   requests, pages and faults. *)
THEOREM RequestsInOnePlace == Spec => []OnePlace
<1>1. PlaceInv => OnePlace
  BY DEF PlaceInv
<1> QED
  BY <1>1, PlacesInvariant, PTL

=============================================================================
