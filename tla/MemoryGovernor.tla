--------------------------- MODULE MemoryGovernor ---------------------------
(***************************************************************************)
(* The process memory governor of core/process_memory.rs and the tracker   *)
(* of weights that are still cold.  Threads (scheduler actors, the engine  *)
(* pool, handlers) sample the machine, reserve bytes before a peak and     *)
(* give them back; the first to touch a cold component warms it and the    *)
(* others wait.  Each action is one critical section of the governor's or  *)
(* of the tracker's mutex.                                                 *)
(*                                                                         *)
(* Bytes are units: the instances choose samples on either side of every   *)
(* watermark.  A sample reads an arbitrary member of Samples, so whether   *)
(* committed bytes show up in it is not modelled.  Saturation at           *)
(* usize::MAX is out of the samples' range.                                *)
(***************************************************************************)
EXTENDS Integers, FiniteSets, FiniteSetsExt

CONSTANTS
  Threads,
  Kinds,            \* thread -> the reservations it asks for, see Kind
  ColdBytes,        \* component -> bytes still cold, StaticMemoryEstimate
  Needs,            \* MaterializationComponents callers ask for
  Sizes,            \* bytes asked for (prefill: the transient peak)
  Chunks,           \* transient peaks of the chunks a prefill can be cut into
  Samples,          \* telemetry the machine can show
  Missing,          \* a reading that failed
  StaticCeiling,    \* total RAM less static_reserve_bytes
  PromotionSamples, RecoverySamples,
  EmergencyOverage, CacheMin, CacheColdMax, CacheMax

(* load: EnginePool::ensure_capacity_for; admission: Scheduler::admit;
   vision: reserve_vision_prefill_for_request; plan: plan_prefill_chunk;
   cold: ColdMaterializationTracker::begin. *)
Kind == {"load", "admission", "vision", "plan", "cold"}
Prefills == {"vision", "plan"}

Components == {"text", "vision", "speculative"}

Reading == Nat \cup {Missing}
Telemetry == [phys : Reading, active : Nat, available : Reading,
              metal : Reading, cache : Nat]

ASSUME GovernorAssumption ==
  /\ Kinds \in [Threads -> SUBSET Kind]
  /\ IsFiniteSet(Threads)
  /\ ColdBytes \in [Components -> Nat] /\ Needs \subseteq SUBSET Components
  /\ Sizes \cup Chunks \subseteq Nat \ {0}
  /\ Missing \notin Nat /\ Samples \subseteq Telemetry /\ Samples # {}
  /\ StaticCeiling \in Nat \ {0}
  /\ PromotionSamples \in Nat \ {0} /\ RecoverySamples \in Nat \ {0}
  /\ {EmergencyOverage, CacheMin, CacheColdMax, CacheMax} \subseteq Nat \ {0}
  /\ CacheMin <= CacheColdMax /\ CacheColdMax <= CacheMax

VARIABLES
  gov,      \* GovernorState
  low_run,  \* history: low samples taken in a row, up to RecoverySamples
  high_run, \* history: <<level, samples in a row that showed it>>
  comp,     \* component -> Cold, Warming or Warm
  pc, job,  \* where a thread is in its call, and the call
  owned,    \* components a cold call is warming
  held      \* thread -> its MemoryReservation

vars == <<gov, low_run, high_run, comp, pc, job, owned, held>>

-----------------------------------------------------------------------------
(* Watermarks and budgets (MemoryGovernorConfig::default) *)

Normal == 0
Soft == 1
Hard == 2
Emergency == 3
Levels == Normal..Emergency

Percent(n, ratio) == (n * ratio) \div 100
SoftMark(ceiling) == Percent(ceiling, 90)
HardMark(ceiling) == Percent(ceiling, 95)
RecoveryMark(ceiling) == Percent(ceiling, 85)
Target(ceiling) == Percent(ceiling, 90)      \* prefill_headroom_ratio

Least(a, b) == IF a <= b THEN a ELSE b
Most(a, b) == IF a >= b THEN a ELSE b
Minus(a, b) == Most(a - b, 0)                \* saturating_sub

Usage(t) == IF t.phys = Missing THEN t.active ELSE Most(t.phys, t.active)
Degraded(t) == Missing \in {t.phys, t.available, t.metal}
Ceiling(t) ==
  Min({StaticCeiling}
      \cup (IF t.available = Missing THEN {} ELSE {Most(Usage(t) + t.available, 1)})
      \cup (IF t.metal \in {Missing, 0} THEN {} ELSE {t.metal}))

Observed(current, ceiling) ==
  IF current >= ceiling + EmergencyOverage THEN Emergency
  ELSE IF current >= HardMark(ceiling) THEN Hard
  ELSE IF current >= SoftMark(ceiling) THEN Soft
  ELSE Normal

(* The MLX allocator's cache budget, recomputed after every change. *)
ApplyCacheBudget(g) ==
  LET headroom == Minus(Minus(Target(g.ceiling), Minus(g.usage, g.cache)), g.reserved)
      normal == Least(Least(Most(Percent(g.ceiling, 5), CacheMin), CacheMax), headroom)
      by_level == IF g.degraded \/ g.level >= Hard THEN 0
                  ELSE IF g.level = Soft THEN Least(normal \div 2, CacheColdMax)
                  ELSE IF g.cold_reservations > 0 THEN Least(normal, CacheColdMax)
                  ELSE normal
  IN [g EXCEPT !.cache_limit =
        IF g.prefill_reservations > 0
        THEN Least(by_level, g.cache + g.growth_reserved)
        ELSE by_level]

FailSafe(g) == [g EXCEPT !.degraded = TRUE, !.level = Most(@, Soft)]

(* Mutant: a sample between the marks leaves the candidate's count alone. *)
AdvanceKeepsCount(g, observed, current, ceiling) ==
  LET count == IF g.candidate = observed THEN g.candidate_samples + 1 ELSE 1
      low == g.recovery_samples + 1
  IN IF observed = Emergency /\ g.level < Emergency THEN [g EXCEPT !.level = Emergency]
     ELSE IF observed > g.level
     THEN [g EXCEPT !.recovery_samples = 0, !.candidate = observed,
                    !.candidate_samples = IF count >= PromotionSamples THEN 0 ELSE count,
                    !.level = IF count >= PromotionSamples THEN observed ELSE @]
     ELSE IF current <= RecoveryMark(ceiling)
     THEN [g EXCEPT !.recovery_samples = IF low >= RecoverySamples THEN 0 ELSE low,
                    !.level = IF low >= RecoverySamples THEN Minus(@, 1) ELSE @]
     ELSE [g EXCEPT !.recovery_samples = 0]

(* Mutant: the count of low samples goes on after a step down. *)
AdvanceCountsOn(g, observed, current, ceiling) ==
  IF observed <= g.level /\ current <= RecoveryMark(ceiling)
  THEN [g EXCEPT !.candidate_samples = 0, !.recovery_samples = @ + 1,
                 !.level = IF g.recovery_samples + 1 >= RecoverySamples THEN Minus(@, 1) ELSE @]
  ELSE [g EXCEPT !.candidate_samples = 0, !.recovery_samples = 0, !.level = Most(@, observed)]

(* advance_pressure_state: one sample moves the level and its counters. *)
Reset(g) == [g EXCEPT !.candidate_samples = 0, !.recovery_samples = 0]
Promoting(g, observed) ==
  LET count == IF g.candidate = observed THEN g.candidate_samples + 1 ELSE 1
  IN [g EXCEPT !.recovery_samples = 0,
               !.candidate = observed,
               !.candidate_samples = IF count >= PromotionSamples THEN 0 ELSE count,
               !.level = IF count >= PromotionSamples THEN observed ELSE @]
Recovering(g) ==
  LET low == g.recovery_samples + 1
  IN [g EXCEPT !.candidate_samples = 0,
               !.recovery_samples = IF low >= RecoverySamples THEN 0 ELSE low,
               !.level = IF low >= RecoverySamples THEN Minus(@, 1) ELSE @]
Advance(g, observed, current, ceiling) ==
  IF observed = Emergency /\ g.level < Emergency THEN [Reset(g) EXCEPT !.level = Emergency]
  ELSE IF observed > g.level THEN Promoting(g, observed)
  ELSE IF current <= RecoveryMark(ceiling) THEN Recovering(g)
  ELSE Reset(g)

(* update: take telemetry t in. *)
Update(g, t) ==
  LET current == Usage(t) + g.reserved
      judged ==
        IF Degraded(t)
        THEN [FailSafe(g) EXCEPT !.candidate = Most(g.level, Soft),
                                 !.candidate_samples = 0, !.recovery_samples = 0]
        ELSE Advance(g, Observed(current, Ceiling(t)), current, Ceiling(t))
  IN ApplyCacheBudget([judged EXCEPT !.usage = Usage(t), !.ceiling = Ceiling(t),
                                     !.cache = t.cache, !.degraded = Degraded(t),
                                     !.age = "fresh"])

(* What a reader or a reservation does first when the last sample is stale. *)
Checked(g) == IF g.age = "stale" THEN ApplyCacheBudget(FailSafe(g)) ELSE g

-----------------------------------------------------------------------------
(* Reservations *)

NoReservation == [kind |-> "none", bytes |-> 0, growth |-> 0]

(* The growth of the allocator's cache that the first live prefill pays for. *)
GrowthLiability(g) ==
  IF g.prefill_reservations > 0 THEN 0 ELSE Minus(g.cache_limit, g.cache)

Charge(g, bytes, kind) == bytes + (IF kind \in Prefills THEN GrowthLiability(g) ELSE 0)

(* try_reserve_inner would succeed *)
Reservable(g, bytes, kind) ==
  /\ g.ceiling > 0 /\ ~g.degraded /\ g.age # "stale"
  /\ g.level < Hard
  /\ g.usage + g.reserved + Charge(g, bytes, kind) <= Target(g.ceiling)

(* Mutant: the cache keeps the budget it had. *)
ReserveKeepsBudget(g, bytes, kind) ==
  [g EXCEPT !.reserved = @ + Charge(g, bytes, kind),
            !.cold_reservations = IF kind = "cold" THEN @ + 1 ELSE @,
            !.prefill_reservations = IF kind \in Prefills THEN @ + 1 ELSE @,
            !.growth_reserved = IF kind \in Prefills THEN @ + GrowthLiability(g) ELSE @]

Reserve(g, bytes, kind) ==
  ApplyCacheBudget(
    [g EXCEPT !.reserved = @ + Charge(g, bytes, kind),
              !.cold_reservations = IF kind = "cold" THEN @ + 1 ELSE @,
              !.prefill_reservations = IF kind \in Prefills THEN @ + 1 ELSE @,
              !.growth_reserved = IF kind \in Prefills THEN @ + GrowthLiability(g) ELSE @])

(* Mutant: every prefill gives back the growth it paid, others live or not. *)
ReleaseOwnGrowth(g, r) ==
  ApplyCacheBudget(
    [g EXCEPT !.reserved = Minus(@, r.bytes),
              !.cold_reservations = IF r.kind = "cold" THEN Minus(@, 1) ELSE @,
              !.prefill_reservations = IF r.kind \in Prefills THEN Minus(@, 1) ELSE @])

Release(g, r) ==
  LET last == r.kind \in Prefills /\ g.prefill_reservations = 1
      freed == IF r.kind \in Prefills THEN r.bytes - r.growth ELSE r.bytes
  IN ApplyCacheBudget(
       [g EXCEPT !.reserved = Minus(Minus(@, freed), IF last THEN g.growth_reserved ELSE 0),
                 !.cold_reservations = IF r.kind = "cold" THEN Minus(@, 1) ELSE @,
                 !.prefill_reservations = IF r.kind \in Prefills THEN Minus(@, 1) ELSE @,
                 !.growth_reserved = IF last THEN 0 ELSE @])

(* The two histories the pressure properties speak of. *)
Record(g, t) ==
  LET current == Usage(t) + g.reserved
      level == Observed(current, Ceiling(t))
  IN /\ low_run' = IF ~Degraded(t) /\ current <= RecoveryMark(Ceiling(t))
                   THEN Least(low_run + 1, RecoverySamples) ELSE 0
     /\ high_run' = IF Degraded(t) THEN <<Normal, 0>>
                    ELSE <<level, IF level = high_run[1]
                                  THEN Least(high_run[2] + 1, PromotionSamples) ELSE 1>>

(* refresh_process samples always, sample_process not within poll_interval. *)
Refreshes == \E t \in Samples : gov' = Update(gov, t) /\ Record(gov, t)
SamplesNow ==
  IF gov.age = "fresh" THEN UNCHANGED <<gov, low_run, high_run>> ELSE Refreshes

-----------------------------------------------------------------------------
(* The clock and the readers *)

(* poll_interval passes, then telemetry_stale_after *)
Tick ==
  /\ gov.age # "stale"
  /\ gov' = [gov EXCEPT !.age = IF @ = "fresh" THEN "due" ELSE "stale"]
  /\ UNCHANGED <<low_run, high_run, comp, pc, job, owned, held>>

(* the pool's monitor, on its interval *)
MonitorSamples == /\ SamplesNow
                  /\ UNCHANGED <<comp, pc, job, owned, held>>

(* snapshot, for health and metrics *)
Observe == /\ gov' = Checked(gov)
           /\ UNCHANGED <<low_run, high_run, comp, pc, job, owned, held>>

-----------------------------------------------------------------------------
(* Threads.  A call is sampled, tried, and after one failure refreshed and
   tried again; a thread that got its reservation holds it over the peak. *)

Calls == [kind : Kind \cup {"none"}, bytes : Nat, comps : SUBSET Components,
          chunk : Nat, retried : BOOLEAN]
NoCall == [kind |-> "none", bytes |-> 0, comps |-> {}, chunk |-> 0, retried |-> FALSE]

CostOf(c, comps) == IF c \in comps THEN ColdBytes[c] ELSE 0
ColdCost(comps) == CostOf("text", comps) + CostOf("vision", comps) + CostOf("speculative", comps)

(* One prefill chunk as large as the snapshot's headroom allows. *)
SafeChunks(g, bytes) ==
  IF g.ceiling = 0 \/ g.degraded THEN {}
  ELSE {s \in Chunks : s <= bytes /\ g.usage + g.reserved + GrowthLiability(g) + s
                                    <= Target(g.ceiling)}

(* A thread goes on at `where'; a call that is over is forgotten. *)
GoesTo(t, where) ==
  /\ pc' = [pc EXCEPT ![t] = where]
  /\ job' = IF where = "idle" THEN [job EXCEPT ![t] = NoCall] ELSE job

Wake(p) == [u \in Threads |-> IF p[u] = "asleep" THEN "begin" ELSE p[u]]

Call(t) ==
  /\ pc[t] = "idle"
  /\ \E k \in Kinds[t] :
       \/ /\ k = "cold"
          /\ \E cs \in Needs :
               job' = [job EXCEPT ![t] = [NoCall EXCEPT !.kind = k, !.comps = cs]]
          /\ pc' = [pc EXCEPT ![t] = "begin"]
       \/ /\ k # "cold"
          /\ \E n \in Sizes :
               job' = [job EXCEPT ![t] = [NoCall EXCEPT !.kind = k, !.bytes = n]]
          /\ pc' = [pc EXCEPT ![t] = "sample"]
  /\ UNCHANGED <<gov, low_run, high_run, comp, owned, held>>

(* Mutant: waits only when everything it needs is being warmed. *)
BeginUnlessAllWarming(t) ==
  LET mine == {c \in job[t].comps : ColdBytes[c] > 0 /\ comp[c] = "Cold"}
  IN /\ pc[t] = "begin"
     /\ \/ /\ \A c \in job[t].comps : comp[c] = "Warming"
           /\ pc' = [pc EXCEPT ![t] = "asleep"]
           /\ UNCHANGED <<comp, owned, job>>
        \/ /\ \E c \in job[t].comps : comp[c] # "Warming"
           /\ comp' = [c \in Components |-> IF c \in mine THEN "Warming" ELSE comp[c]]
           /\ owned' = [owned EXCEPT ![t] = mine]
           /\ job' = [job EXCEPT ![t].bytes = ColdCost(mine)]
           /\ pc' = [pc EXCEPT ![t] = IF mine = {} THEN "hold" ELSE "sample"]
     /\ UNCHANGED <<gov, low_run, high_run, held>>

(* begin: wait out whoever warms a component this call needs, then claim
   the cold ones.  The wait and the claim are one hold of the tracker's lock. *)
Begin(t) ==
  LET mine == {c \in job[t].comps : ColdBytes[c] > 0 /\ comp[c] = "Cold"}
  IN /\ pc[t] = "begin"
     /\ \/ /\ \E c \in job[t].comps : comp[c] = "Warming"
           /\ pc' = [pc EXCEPT ![t] = "asleep"]
           /\ UNCHANGED <<comp, owned, job>>
        \/ /\ \A c \in job[t].comps : comp[c] # "Warming"
           /\ comp' = [c \in Components |-> IF c \in mine THEN "Warming" ELSE comp[c]]
           /\ owned' = [owned EXCEPT ![t] = mine]
           /\ job' = [job EXCEPT ![t].bytes = ColdCost(mine)]
           /\ pc' = [pc EXCEPT ![t] = IF mine = {} THEN "hold" ELSE "sample"]
     /\ UNCHANGED <<gov, low_run, high_run, held>>

(* sample_process, and what its snapshot decides *)
Sample(t) ==
  /\ pc[t] = "sample"
  /\ SamplesNow
  /\ GoesTo(t, IF gov'.level = Normal \/ job[t].kind \notin {"load", "admission"} THEN "try"
               ELSE IF job[t].kind = "load" THEN "refresh" ELSE "idle")
  /\ UNCHANGED <<comp, owned, held>>

GivesUp(t) ==
  IF job[t].kind = "admission" THEN "idle"
  ELSE IF ~job[t].retried THEN "refresh"
  ELSE IF job[t].kind = "cold" THEN "rollback" ELSE "idle"

(* plan_prefill_chunk reads a snapshot and sizes the chunk by it ... *)
Plan(t) ==
  LET safe == SafeChunks(Checked(gov), job[t].bytes)
  IN /\ pc[t] = "try" /\ job[t].kind = "plan"
     /\ gov' = Checked(gov)
     /\ \/ /\ safe = {}
           /\ GoesTo(t, GivesUp(t))
        \/ /\ \E s \in safe : /\ \A u \in safe : u <= s
                             /\ job' = [job EXCEPT ![t].chunk = s]
           /\ pc' = [pc EXCEPT ![t] = "planned"]
     /\ UNCHANGED <<low_run, high_run, comp, owned, held>>

(* ... and reserves it under the lock taken anew.  The others reserve at once. *)
TryReserve(t) ==
  LET g == Checked(gov)
      k == job[t].kind
      bytes == IF k = "plan" THEN job[t].chunk ELSE job[t].bytes
  IN /\ pc[t] = IF k = "plan" THEN "planned" ELSE "try"
     /\ \/ /\ Reservable(g, bytes, k)
           /\ gov' = Reserve(g, bytes, k)
           /\ held' = [held EXCEPT ![t] =
                [kind |-> k, bytes |-> Charge(g, bytes, k),
                 growth |-> Charge(g, bytes, k) - bytes]]
           /\ GoesTo(t, "hold")
        \/ /\ ~Reservable(g, bytes, k)
           /\ gov' = g
           /\ GoesTo(t, GivesUp(t))
           /\ UNCHANGED held
     /\ UNCHANGED <<low_run, high_run, comp, owned>>

(* clear_cache and refresh_process, before the one retry *)
Refresh(t) ==
  /\ pc[t] = "refresh"
  /\ Refreshes
  /\ \/ /\ job[t].kind = "load" /\ gov'.level # Normal
        /\ GoesTo(t, "idle")
     \/ /\ job[t].kind = "load" => gov'.level = Normal
        /\ job' = [job EXCEPT ![t].retried = TRUE]
        /\ pc' = [pc EXCEPT ![t] = "try"]
  /\ UNCHANGED <<comp, owned, held>>

(* ColdMaterializationGuard::commit looks at the footprint first. *)
CommitCold(t) ==
  /\ pc[t] = "hold" /\ job[t].kind = "cold"
  /\ Refreshes
  /\ pc' = [pc EXCEPT ![t] = "commit"]
  /\ UNCHANGED <<comp, job, owned, held>>

(* The reservation is given back: the peak is over, or the guard is dropped. *)
GiveBack(t) ==
  /\ pc[t] \in {"hold", "commit"}
  /\ gov' = IF held[t] = NoReservation THEN gov ELSE Release(gov, held[t])
  /\ held' = [held EXCEPT ![t] = NoReservation]
  /\ GoesTo(t, CASE pc[t] = "commit" -> "warm"
                 [] pc[t] = "hold" /\ job[t].kind = "cold" -> "rollback"
                 [] pc[t] = "hold" /\ job[t].kind = "admission" -> "settle"
                 [] OTHER -> "idle")
  /\ UNCHANGED <<low_run, high_run, comp, owned>>

(* The first step of an admitted request is followed by a refresh. *)
Settle(t) == /\ pc[t] = "settle"
             /\ Refreshes \/ UNCHANGED <<gov, low_run, high_run>>
             /\ GoesTo(t, "idle")
             /\ UNCHANGED <<comp, owned, held>>

(* Mutants: a rollback leaves its components warming, or wakes nobody. *)
MarkOnCommitOnly(t) ==
  /\ pc[t] \in {"warm", "rollback"}
  /\ comp' = [c \in Components |->
                IF c \in owned[t] /\ pc[t] = "warm" THEN "Warm" ELSE comp[c]]
  /\ owned' = [owned EXCEPT ![t] = {}]
  /\ pc' = [Wake(pc) EXCEPT ![t] = "idle"]
  /\ job' = [job EXCEPT ![t] = NoCall]
  /\ UNCHANGED <<gov, low_run, high_run, held>>

MarkWakesOnCommitOnly(t) ==
  /\ pc[t] \in {"warm", "rollback"}
  /\ comp' = [c \in Components |->
                IF c \in owned[t] THEN (IF pc[t] = "warm" THEN "Warm" ELSE "Cold")
                ELSE comp[c]]
  /\ owned' = [owned EXCEPT ![t] = {}]
  /\ pc' = [(IF pc[t] = "warm" THEN Wake(pc) ELSE pc) EXCEPT ![t] = "idle"]
  /\ job' = [job EXCEPT ![t] = NoCall]
  /\ UNCHANGED <<gov, low_run, high_run, held>>

(* commit's or rollback's last lock: mark what was owned, wake the waiters. *)
Mark(t) ==
  /\ pc[t] \in {"warm", "rollback"}
  /\ comp' = [c \in Components |->
                IF c \in owned[t] THEN (IF pc[t] = "warm" THEN "Warm" ELSE "Cold")
                ELSE comp[c]]
  /\ owned' = [owned EXCEPT ![t] = {}]
  /\ pc' = [Wake(pc) EXCEPT ![t] = "idle"]
  /\ job' = [job EXCEPT ![t] = NoCall]
  /\ UNCHANGED <<gov, low_run, high_run, held>>

-----------------------------------------------------------------------------
(* Specification *)

Init ==
  /\ gov = [level |-> Normal, candidate |-> Normal, candidate_samples |-> 0,
            recovery_samples |-> 0, usage |-> 0, cache |-> 0, ceiling |-> 0,
            degraded |-> TRUE, age |-> "stale", reserved |-> 0,
            cold_reservations |-> 0, prefill_reservations |-> 0,
            growth_reserved |-> 0, cache_limit |-> 0]
  /\ low_run = 0 /\ high_run = <<Normal, 0>>
  /\ comp = [c \in Components |-> "Cold"]
  /\ pc = [t \in Threads |-> "idle"] /\ job = [t \in Threads |-> NoCall]
  /\ owned = [t \in Threads |-> {}]
  /\ held = [t \in Threads |-> NoReservation]

(* Steps a thread takes by itself once it has called. *)
Goes(t) == \/ Begin(t) \/ Sample(t) \/ Plan(t) \/ TryReserve(t) \/ Refresh(t)
           \/ GiveBack(t) \/ Settle(t) \/ Mark(t)

Next == \/ Tick \/ MonitorSamples \/ Observe
        \/ \E t \in Threads : Call(t) \/ CommitCold(t) \/ Goes(t)

Spec == Init /\ [][Next]_vars

-----------------------------------------------------------------------------
(* Properties *)

TypeOK ==
  /\ gov \in [level : Levels, candidate : Levels, candidate_samples : 0..PromotionSamples,
              recovery_samples : 0..RecoverySamples, usage : Nat, cache : Nat,
              ceiling : Nat, degraded : BOOLEAN, age : {"fresh", "due", "stale"},
              reserved : Nat, cold_reservations : Nat, prefill_reservations : Nat,
              growth_reserved : Nat, cache_limit : Nat]
  /\ low_run \in 0..RecoverySamples /\ high_run \in Levels \X (0..PromotionSamples)
  /\ comp \in [Components -> {"Cold", "Warming", "Warm"}]
  /\ pc \in [Threads -> {"idle", "begin", "asleep", "sample", "try", "planned",
                         "refresh", "hold", "commit", "settle", "warm", "rollback"}]
  /\ job \in [Threads -> Calls]
  /\ owned \in [Threads -> SUBSET Components]
  /\ held \in [Threads -> [kind : Kind \cup {"none"}, bytes : Nat, growth : Nat]]

(* What the governor counts as reserved is exactly what live reservations hold:
   the transient bytes of each and, while any prefill lives, the cache growth the
   first of a run of prefills paid for, whoever that was and whether it is still
   there.  Reservations are dropped in any order, by several actors
   (try_reserve_inner, release_reservation). *)
ReservedExact ==
  LET Of(kinds) == {t \in Threads : held[t].kind \in kinds}
      Transient == UNION {{t} \X (1..(held[t].bytes - held[t].growth)) : t \in Threads}
  IN /\ gov.reserved = gov.growth_reserved + Cardinality(Transient)
     /\ gov.cold_reservations = Cardinality(Of({"cold"}))
     /\ gov.prefill_reservations = Cardinality(Of(Prefills))
     /\ Of(Prefills) = {} => gov.growth_reserved = 0

(* The allocator is never left a cache budget that, with the other usage and every
   live reservation, overruns the headroom the last sample left: reservations and
   samples of different actors each recompute it (apply_mlx_cache_budget_locked). *)
CacheWithinTarget ==
  gov.cache_limit > 0 =>
    Minus(gov.usage, gov.cache) + gov.reserved + gov.cache_limit <= Target(gov.ceiling)

(* A component is Warming exactly while one call owns it, and that call is past its
   claim: a component nobody owns would make every later call wait for ever
   (ColdMaterializationTracker). *)
WarmingOwned ==
  /\ \A c \in Components :
       (comp[c] = "Warming") <=> \E t \in Threads : c \in owned[t]
  /\ \A t, u \in Threads : t # u => owned[t] \cap owned[u] = {}
  /\ \A t \in Threads :
       owned[t] # {} => pc[t] \notin {"idle", "begin", "asleep", "settle"}

(* A call that goes ahead finds every component it needs warm, free of cost or its
   own to warm, and has reserved the bytes of its own: nobody computes on weights
   another call is still paging in (begin_inner, commit, rollback). *)
WarmBeforeUse ==
  \A t \in Threads :
    (job[t].kind = "cold" /\ pc[t] \in {"hold", "commit"}) =>
      /\ \A c \in job[t].comps : comp[c] = "Warm" \/ ColdBytes[c] = 0 \/ c \in owned[t]
      /\ held[t].bytes = ColdCost(owned[t])

(* The level falls one step at a time and only after RecoverySamples samples in a
   row were low, and rises only on an emergency, to Soft when telemetry fails, or
   after PromotionSamples samples in a row that showed the new level, whatever
   reservations, stale readings and failed samples come in between
   (docs/process-memory-safety-loop.md: promotion needs consecutive samples,
   recovery goes level by level). *)
LevelMovesSlowly ==
  [][/\ gov'.level < gov.level =>
          gov'.level = gov.level - 1 /\ low_run' = RecoverySamples
     /\ gov'.level > gov.level =>
          \/ gov'.level = Emergency /\ high_run'[1] = Emergency
          \/ gov'.level = Soft /\ gov'.degraded
          \/ high_run' = <<gov'.level, PromotionSamples>>]_vars

(* Whoever waits for a component to warm waits for one that another call still has
   to mark: commit and rollback wake everybody after the mark, so nobody sleeps on
   a component that is already warm, or cold again (begin_inner's condition
   variable). *)
SleepersAwaited ==
  \A t \in Threads : pc[t] = "asleep" =>
    \E c \in job[t].comps, u \in Threads \ {t} : comp[c] = "Warming" /\ c \in owned[u]

=============================================================================
