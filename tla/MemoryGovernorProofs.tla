------------------------ MODULE MemoryGovernorProofs ------------------------
(***************************************************************************)
(* For any number of threads, any samples, watermarks and sizes: the type  *)
(* of MemoryGovernor's state, its cache budget, its pressure level, its    *)
(* count of reservations and the claims on cold components.                *)
(*                                                                         *)
(* The governor's part rests on GovernorStep, which says what a step of    *)
(* any thread can do to the governor; the tracker's part on Tracked, which *)
(* relates the place of a thread in its call to what it owns and holds;    *)
(* the count on Ledger, which relates the governor to what threads hold.   *)
(***************************************************************************)
EXTENDS MemoryGovernor, FiniteSetTheorems, TLAPS

Governors ==
  [level : Levels, candidate : Levels, candidate_samples : 0..PromotionSamples,
   recovery_samples : 0..RecoverySamples, usage : Nat, cache : Nat,
   ceiling : Nat, degraded : BOOLEAN, age : {"fresh", "due", "stale"},
   reserved : Nat, cold_reservations : Nat, prefill_reservations : Nat,
   growth_reserved : Nat, cache_limit : Nat]
Reservations == [kind : Kind \cup {"none"}, bytes : Nat, growth : Nat]

Within(g) ==
  g.cache_limit > 0 =>
    Minus(g.usage, g.cache) + g.reserved + g.cache_limit <= Target(g.ceiling)

(* What the counters of the state machine have to do with the samples in a row:
   low of them were low, and n of them showed level l. *)
Counted(g, low, l, n) ==
  /\ g.recovery_samples <= low /\ g.recovery_samples < RecoverySamples
  /\ g.candidate_samples < PromotionSamples
  /\ g.candidate_samples > 0 => l = g.candidate /\ g.candidate_samples <= n

(* How the level may move from g to h at a sample that leaves these counts. *)
Moves(g, h, low, l, n) ==
  /\ h.level < g.level => h.level = g.level - 1 /\ low = RecoverySamples
  /\ h.level > g.level => \/ h.level = Emergency /\ l = Emergency
                          \/ h.level = Soft /\ h.degraded
                          \/ l = h.level /\ n = PromotionSamples

(* The same of a sample that told the level. *)
MovesByCount(g, h, low, l, n) ==
  /\ h.level < g.level => h.level = g.level - 1 /\ low = RecoverySamples
  /\ h.level > g.level => \/ h.level = Emergency /\ l = Emergency
                          \/ l = h.level /\ n = PromotionSamples

(* h keeps g's counters and level, but for the fall back on Soft. *)
Keeps(g, h) ==
  /\ h.candidate = g.candidate /\ h.candidate_samples = g.candidate_samples
  /\ h.recovery_samples = g.recovery_samples
  /\ h.level = g.level \/ (h.level = Soft /\ g.level < Soft /\ h.degraded)

(* h counts the reservations that g counted. *)
SameLedger(g, h) ==
  /\ h.reserved = g.reserved /\ h.growth_reserved = g.growth_reserved
  /\ h.cold_reservations = g.cold_reservations
  /\ h.prefill_reservations = g.prefill_reservations

NextLow(low, is_low) == IF is_low THEN Least(low + 1, RecoverySamples) ELSE 0
NextHigh(l, n, observed) == IF observed = l THEN Least(n + 1, PromotionSamples) ELSE 1

USE DEF Levels, Normal, Soft, Hard, Emergency
-----------------------------------------------------------------------------
(* Numbers                                                                 *)

\* A saturating subtraction stays a natural number.
LEMMA MinusNat ==
  ASSUME NEW a \in Int, NEW b \in Int
  PROVE  Minus(a, b) \in Nat /\ (Minus(a, b) > 0 => Minus(a, b) = a - b)
BY DEF Minus, Most

\* So does the least of two bounds.
LEMMA LeastNat ==
  ASSUME NEW a \in Nat, NEW b \in Nat
  PROVE  Least(a, b) \in Nat /\ Least(a, b) <= a /\ Least(a, b) <= b
BY DEF Least

\* The watermarks of any ceiling are natural numbers.
LEMMA MarksNat ==
  ASSUME NEW c \in Nat
  PROVE  /\ SoftMark(c) \in Nat /\ HardMark(c) \in Nat /\ RecoveryMark(c) \in Nat
         /\ Target(c) \in Nat /\ Percent(c, 5) \in Nat
BY DEF SoftMark, HardMark, RecoveryMark, Target, Percent

\* The ceiling is the least of at most three numbers.
LEMMA CeilingNat ==
  ASSUME NEW t \in Telemetry
  PROVE  Usage(t) \in Nat /\ Ceiling(t) \in Nat
<1>1. Usage(t) \in Nat
  BY GovernorAssumption DEF Usage, Telemetry, Reading, Most
<1> DEFINE A == IF t.available = Missing THEN {} ELSE {Most(Usage(t) + t.available, 1)}
           M == IF t.metal \in {Missing, 0} THEN {} ELSE {t.metal}
           S == {StaticCeiling} \cup (A \cup M)
<1>2. StaticCeiling \in Nat
  BY GovernorAssumption
<1>3. \E a \in Nat : A \subseteq {a}
  BY <1>1, GovernorAssumption DEF Telemetry, Reading, Most
<1>4. \E m \in Nat : M \subseteq {m}
  BY GovernorAssumption DEF Telemetry, Reading
<1>5. PICK a \in Nat, m \in Nat : A \subseteq {a} /\ M \subseteq {m}
  BY <1>3, <1>4
<1> HIDE DEF A, M
<1>6. \E x \in S : \A y \in S : x =< y
  <2>1. CASE a \notin A /\ m \notin M
    BY <2>1, <1>2, <1>5
  <2>2. CASE a \in A /\ m \notin M
    BY <2>2, <1>2, <1>5
  <2>3. CASE a \notin A /\ m \in M
    BY <2>3, <1>2, <1>5
  <2>4. CASE a \in A /\ m \in M
    BY <2>4, <1>2, <1>5
  <2> QED
    BY <2>1, <2>2, <2>3, <2>4
<1>7. Min(S) \in S
  BY <1>6 DEF Min
<1>8. S \subseteq Nat
  BY <1>2, <1>5
<1>9. Ceiling(t) = Min(S)
  BY DEF Ceiling, A, M
<1> QED
  BY <1>1, <1>7, <1>8, <1>9

\* A sample is classified into one of the four levels.
LEMMA ObservedLevel ==
  ASSUME NEW n \in Int, NEW c \in Nat
  PROVE  Observed(n, c) \in Levels
BY DEF Observed

\* What a cold materialization costs is a natural number.
LEMMA ColdCostNat ==
  ASSUME NEW cs \in SUBSET Components
  PROVE  ColdCost(cs) \in Nat /\ (cs = {} => ColdCost(cs) = 0)
BY GovernorAssumption DEF ColdCost, CostOf, Components

-----------------------------------------------------------------------------
(* The governor's operators                                                *)

\* What apply_mlx_cache_budget_locked leaves: a budget within the headroom.
LEMMA BudgetApplied ==
  ASSUME NEW g \in Governors
  PROVE  /\ \E n \in Nat : ApplyCacheBudget(g) = [g EXCEPT !.cache_limit = n]
         /\ ApplyCacheBudget(g) \in Governors
         /\ Within(ApplyCacheBudget(g))
<1> DEFINE used == Minus(g.usage, g.cache)
           free == Minus(Target(g.ceiling), used)
           headroom == Minus(free, g.reserved)
           normal == Least(Least(Most(Percent(g.ceiling, 5), CacheMin), CacheMax), headroom)
           by_level == IF g.degraded \/ g.level >= Hard THEN 0
                       ELSE IF g.level = Soft THEN Least(normal \div 2, CacheColdMax)
                       ELSE IF g.cold_reservations > 0 THEN Least(normal, CacheColdMax)
                       ELSE normal
           limit == IF g.prefill_reservations > 0
                    THEN Least(by_level, g.cache + g.growth_reserved) ELSE by_level
<1>1. /\ g.usage \in Nat /\ g.cache \in Nat /\ g.ceiling \in Nat /\ g.reserved \in Nat
      /\ g.degraded \in BOOLEAN /\ g.level \in 0..3 /\ g.growth_reserved \in Nat
      /\ g.cold_reservations \in Nat /\ g.prefill_reservations \in Nat
  BY DEF Governors
<1>2. Target(g.ceiling) \in Nat /\ Percent(g.ceiling, 5) \in Nat
  BY <1>1, MarksNat
<1>3. used \in Nat
  BY <1>1 DEF Minus, Most
<1> HIDE DEF used
<1>4. free \in Nat /\ (free > 0 => free = Target(g.ceiling) - used)
  BY <1>2, <1>3 DEF Minus, Most
<1> HIDE DEF free
<1>5. headroom \in Nat /\ (headroom > 0 => headroom = free - g.reserved)
  BY <1>1, <1>4 DEF Minus, Most
<1> HIDE DEF headroom
<1>6. CacheMin \in Nat /\ CacheMax \in Nat /\ CacheColdMax \in Nat
  BY GovernorAssumption
<1>7. normal \in Nat /\ normal <= headroom
  BY <1>2, <1>5, <1>6 DEF Least, Most
<1> HIDE DEF normal
<1>8. by_level \in Nat /\ by_level <= headroom
  <2>1. normal \div 2 \in Nat /\ normal \div 2 <= normal
    BY <1>7
  <2> QED
    BY <2>1, <1>1, <1>5, <1>6, <1>7 DEF Least
<1> HIDE DEF by_level
<1>9. limit \in Nat /\ limit <= headroom
  BY <1>1, <1>5, <1>8 DEF Least
<1> HIDE DEF limit
<1>10. ApplyCacheBudget(g) = [g EXCEPT !.cache_limit = limit]
  BY Zenon DEF ApplyCacheBudget, used, free, headroom, normal, by_level, limit
<1>11. [g EXCEPT !.cache_limit = limit] \in Governors
  BY <1>9 DEF Governors
<1>12. Within([g EXCEPT !.cache_limit = limit])
  <2> DEFINE h == [g EXCEPT !.cache_limit = limit]
  <2>1. h.cache_limit = limit /\ h.usage = g.usage /\ h.cache = g.cache
        /\ h.reserved = g.reserved /\ h.ceiling = g.ceiling
    BY DEF Governors
  <2> HIDE DEF h
  <2>2. limit > 0 => used + g.reserved + limit <= Target(g.ceiling)
    BY <1>1, <1>2, <1>3, <1>4, <1>5, <1>9
  <2> QED
    BY <2>1, <2>2 DEF Within, used, h
<1> QED
  BY <1>9, <1>10, <1>11, <1>12

\* advance_pressure_state: the level moves only as far as the counts allow.
LEMMA AdvanceSound ==
  ASSUME NEW g \in Governors, NEW observed \in Levels, NEW current \in Int,
         NEW ceiling \in Nat, NEW low \in 0..RecoverySamples,
         NEW l \in Levels, NEW n \in 0..PromotionSamples, Counted(g, low, l, n)
  PROVE  LET h == Advance(g, observed, current, ceiling)
             low2 == NextLow(low, current <= RecoveryMark(ceiling))
             n2 == NextHigh(l, n, observed)
         IN h \in Governors /\ Counted(h, low2, observed, n2) /\ MovesByCount(g, h, low2, observed, n2)
<1> DEFINE h == Advance(g, observed, current, ceiling)
           is_low == current <= RecoveryMark(ceiling)
           low2 == NextLow(low, is_low)
           n2 == NextHigh(l, n, observed)
<1>1. PromotionSamples \in Nat \ {0} /\ RecoverySamples \in Nat \ {0}
  BY GovernorAssumption
<1>2. is_low \in BOOLEAN
  OBVIOUS
<1> HIDE DEF is_low
<1>0. low2 \in 0..RecoverySamples /\ n2 \in 1..PromotionSamples
  BY <1>1, <1>2 DEF NextLow, NextHigh, Least
<1>3. Reset(g) \in Governors /\ Counted(Reset(g), low2, observed, n2)
  <2>1. Reset(g) \in Governors
    <3>1. 0 \in 0..PromotionSamples /\ 0 \in 0..RecoverySamples
      BY <1>1
    <3> QED
      BY <3>1, Zenon DEF Governors, Reset
  <2>2. Reset(g).recovery_samples = 0 /\ Reset(g).candidate_samples = 0
    BY Zenon DEF Governors, Reset
  <2> QED
    BY <1>0, <1>1, <2>2, <2>1 DEF Counted
<1>4. CASE observed = Emergency /\ g.level < Emergency
  <2>1. h = [Reset(g) EXCEPT !.level = observed] /\ observed = Emergency
    BY <1>4 DEF Advance
  <2>2. h \in Governors /\ h.level = observed
    BY <1>3, <2>1, Zenon DEF Governors
  <2>3. h.recovery_samples = Reset(g).recovery_samples
        /\ h.candidate_samples = Reset(g).candidate_samples
    BY <1>3, <2>1, Zenon DEF Governors
  <2>4. h.recovery_samples = 0 /\ h.candidate_samples = 0
    BY <2>3, Zenon DEF Governors, Reset
  <2> HIDE DEF h
  <2>5. Counted(h, low2, observed, n2)
    BY <1>0, <1>1, <2>2, <2>4 DEF Counted
  <2>6. g.level \in Levels
    BY DEF Governors
  <2>7. MovesByCount(g, h, low2, observed, n2)
    BY <1>4, <2>1, <2>2, <2>6 DEF MovesByCount
  <2> QED
    BY <2>2, <2>5, <2>7 DEF h, is_low
<1>5. CASE observed > g.level /\ ~(observed = Emergency /\ g.level < Emergency)
  <2>1. h = Promoting(g, observed)
    BY <1>5 DEF Advance
  <2> HIDE DEF h
  <2> DEFINE count == IF g.candidate = observed THEN g.candidate_samples + 1 ELSE 1
             lv == IF count >= PromotionSamples THEN observed ELSE g.level
             cs == IF count >= PromotionSamples THEN 0 ELSE count
  <2>2. /\ count \in 1..PromotionSamples
        /\ count >= PromotionSamples => n2 = PromotionSamples
        /\ count <= n2
    <3>1. g.candidate_samples \in 0..PromotionSamples /\ g.candidate \in Levels
      BY DEF Governors
    <3>2. CASE g.candidate = observed /\ g.candidate_samples > 0
      BY <1>1, <3>1, <3>2 DEF Counted, NextHigh, Least
    <3>3. CASE ~(g.candidate = observed /\ g.candidate_samples > 0)
      <4>1. count = 1
        BY <3>1, <3>3
      <4> QED
        BY <1>0, <1>1, <4>1
    <3> QED
      BY <3>2, <3>3
  <2>3. g.level \in Levels
    BY DEF Governors
  <2>4. lv \in Levels /\ cs \in 0..(PromotionSamples - 1) /\ (cs > 0 => cs = count)
    BY <1>1, <2>2, <2>3
  <2>5. h = [g EXCEPT !.recovery_samples = 0, !.candidate = observed,
                      !.candidate_samples = cs, !.level = lv]
    BY <2>1, Zenon DEF Promoting
  <2>6. 0 \in 0..RecoverySamples /\ cs \in 0..PromotionSamples
    BY <1>1, <2>4
  <2> HIDE DEF cs
  <2>7. (lv > g.level => lv = observed /\ n2 = PromotionSamples) /\ ~(lv < g.level)
    BY <1>5, <2>2, <2>3
  <2> HIDE DEF lv
  <2>8. h \in Governors
    BY <2>4, <2>5, <2>6, Zenon DEF Governors
  <2>9. h.level = lv /\ h.candidate_samples = cs /\ h.recovery_samples = 0
        /\ h.candidate = observed
    BY <2>5, Zenon DEF Governors
  <2> HIDE DEF count, n2, low2
  <2>10. Counted(h, low2, observed, n2)
    BY <1>0, <1>1, <2>2, <2>4, <2>9 DEF Counted
  <2>11. MovesByCount(g, h, low2, observed, n2)
    BY <2>7, <2>9 DEF MovesByCount
  <2> QED
    BY <2>8, <2>10, <2>11 DEF h, n2, low2, is_low
<1>6. CASE ~(observed > g.level) /\ is_low
  <2>1. h = Recovering(g)
    BY <1>6 DEF Advance, Governors, is_low
  <2> HIDE DEF h
  <2> DEFINE rs == IF g.recovery_samples + 1 >= RecoverySamples THEN 0
                   ELSE g.recovery_samples + 1
             lv == IF g.recovery_samples + 1 >= RecoverySamples THEN Minus(g.level, 1)
                   ELSE g.level
  <2>2. g.recovery_samples \in 0..RecoverySamples /\ g.level \in Levels
    BY DEF Governors
  <2>3. /\ g.recovery_samples + 1 <= low2
        /\ g.recovery_samples + 1 >= RecoverySamples => low2 = RecoverySamples
    BY <1>1, <1>6, <2>2 DEF Counted, NextLow, Least
  <2>4. /\ lv \in Levels /\ rs \in 0..(RecoverySamples - 1) /\ rs <= low2
        /\ rs \in 0..RecoverySamples /\ 0 \in 0..PromotionSamples
        /\ ~(lv > g.level)
        /\ lv < g.level => lv = g.level - 1 /\ low2 = RecoverySamples
    BY <1>0, <1>1, <2>2, <2>3 DEF Minus, Most
  <2>5. h = [g EXCEPT !.candidate_samples = 0, !.recovery_samples = rs, !.level = lv]
    BY <2>1, Zenon DEF Recovering
  <2> HIDE DEF rs, lv
  <2>6. h \in Governors
    BY <2>4, <2>5, Zenon DEF Governors
  <2>7. h.level = lv /\ h.candidate_samples = 0 /\ h.recovery_samples = rs
    BY <2>5, Zenon DEF Governors
  <2> HIDE DEF n2, low2
  <2>8. Counted(h, low2, observed, n2)
    BY <1>1, <2>4, <2>7 DEF Counted
  <2>9. MovesByCount(g, h, low2, observed, n2)
    BY <2>4, <2>7 DEF MovesByCount
  <2> QED
    BY <2>6, <2>8, <2>9 DEF h, n2, low2, is_low
<1>7. CASE ~(observed > g.level) /\ ~is_low
  <2>1. h = Reset(g)
    BY <1>7 DEF Advance, Governors, is_low
  <2>2. Reset(g).level = g.level /\ g.level \in Levels
    BY Zenon DEF Reset, Governors
  <2>3. MovesByCount(g, Reset(g), low2, observed, n2)
    BY <2>2 DEF MovesByCount
  <2> QED
    BY <1>3, <2>1, <2>3 DEF is_low
<1>8. g.level \in Levels
  BY DEF Governors
<1> QED
  BY <1>4, <1>5, <1>6, <1>7, <1>8 DEF is_low


\* The budget is all that apply_mlx_cache_budget_locked touches.
LEMMA Budgeted ==
  ASSUME NEW g \in Governors
  PROVE  /\ ApplyCacheBudget(g) \in Governors /\ Within(ApplyCacheBudget(g))
         /\ Keeps(g, ApplyCacheBudget(g))
         /\ ApplyCacheBudget(g).degraded = g.degraded
<1>1. PICK n \in Nat : ApplyCacheBudget(g) = [g EXCEPT !.cache_limit = n]
  BY BudgetApplied
<1>2. Keeps(g, [g EXCEPT !.cache_limit = n])
  BY Zenon DEF Keeps, Governors
<1>3. [g EXCEPT !.cache_limit = n].degraded = g.degraded
  BY Zenon DEF Governors
<1> QED
  BY BudgetApplied, <1>1, <1>2, <1>3

\* It touches no count of reservations.
LEMMA BudgetSame ==
  ASSUME NEW g \in Governors
  PROVE  SameLedger(g, ApplyCacheBudget(g))
<1>1. PICK n \in Nat : ApplyCacheBudget(g) = [g EXCEPT !.cache_limit = n]
  BY BudgetApplied
<1>2. SameLedger(g, [g EXCEPT !.cache_limit = n])
  BY Zenon DEF SameLedger, Governors
<1> QED
  BY <1>1, <1>2

\* Nor does the pressure machine.
LEMMA AdvanceSame ==
  ASSUME NEW g \in Governors, NEW observed, NEW current, NEW ceiling
  PROVE  SameLedger(g, Advance(g, observed, current, ceiling))
<1>1. SameLedger(g, Reset(g))
  BY Zenon DEF SameLedger, Governors, Reset
<1>2. SameLedger(g, [Reset(g) EXCEPT !.level = Emergency])
  BY Zenon DEF SameLedger, Governors, Reset
<1>3. SameLedger(g, Promoting(g, observed))
  BY Zenon DEF SameLedger, Governors, Promoting
<1>4. SameLedger(g, Recovering(g))
  BY Zenon DEF SameLedger, Governors, Recovering
<1> QED
  BY <1>1, <1>2, <1>3, <1>4, Zenon DEF Advance

\* fail_safe_locked: at least Soft, degraded, counters as they were.
LEMMA FailSafeSound ==
  ASSUME NEW g \in Governors
  PROVE  /\ FailSafe(g) \in Governors /\ Keeps(g, FailSafe(g)) /\ FailSafe(g).degraded
         /\ SameLedger(g, FailSafe(g))
<1> DEFINE lv == Most(g.level, Soft)
<1>1. g.level \in Levels
  BY DEF Governors
<1>2. lv \in Levels /\ (lv = g.level \/ (lv = Soft /\ g.level < Soft))
  BY <1>1 DEF Most
<1> HIDE DEF lv
<1>3. FailSafe(g) = [g EXCEPT !.degraded = TRUE, !.level = lv]
  BY Zenon DEF FailSafe, lv
<1>4. FailSafe(g) \in Governors
  BY <1>2, <1>3, Zenon DEF Governors
<1>5. FailSafe(g).level = lv /\ FailSafe(g).degraded
      /\ FailSafe(g).candidate = g.candidate
      /\ FailSafe(g).candidate_samples = g.candidate_samples
      /\ FailSafe(g).recovery_samples = g.recovery_samples
  BY <1>3, Zenon DEF Governors
<1>6. SameLedger(g, FailSafe(g))
  BY <1>3, Zenon DEF SameLedger, Governors
<1> QED
  BY <1>2, <1>4, <1>5, <1>6 DEF Keeps

\* A reader, or a reservation, that may find the last sample stale.
LEMMA CheckedSound ==
  ASSUME NEW g \in Governors, Within(g)
  PROVE  /\ Checked(g) \in Governors /\ Within(Checked(g)) /\ Keeps(g, Checked(g))
         /\ Checked(g) = g \/ Checked(g).degraded
         /\ SameLedger(g, Checked(g))
<1>1. CASE g.age = "stale"
  <2>1. Checked(g) = ApplyCacheBudget(FailSafe(g))
    BY <1>1 DEF Checked
  <2> QED
    BY <1>1, <2>1, Budgeted, BudgetSame, FailSafeSound DEF Keeps, SameLedger
<1>2. CASE g.age # "stale"
  BY <1>2 DEF Checked, Keeps, SameLedger
<1> QED
  BY <1>1, <1>2

\* try_reserve_inner
LEMMA ReserveSound ==
  ASSUME NEW g \in Governors, NEW bytes \in Nat, NEW kind
  PROVE  /\ Reserve(g, bytes, kind) \in Governors /\ Within(Reserve(g, bytes, kind))
         /\ Keeps(g, Reserve(g, bytes, kind))
         /\ GrowthLiability(g) \in Nat
<1> DEFINE r == g.reserved + Charge(g, bytes, kind)
           c == IF kind = "cold" THEN g.cold_reservations + 1 ELSE g.cold_reservations
           p == IF kind \in Prefills THEN g.prefill_reservations + 1 ELSE g.prefill_reservations
           w == IF kind \in Prefills THEN g.growth_reserved + GrowthLiability(g)
                ELSE g.growth_reserved
           h == [g EXCEPT !.reserved = r, !.cold_reservations = c,
                          !.prefill_reservations = p, !.growth_reserved = w]
<1>1. /\ g.reserved \in Nat /\ g.cold_reservations \in Nat /\ g.cache_limit \in Nat
      /\ g.prefill_reservations \in Nat /\ g.growth_reserved \in Nat /\ g.cache \in Nat
  BY DEF Governors
<1>2. GrowthLiability(g) \in Nat
  BY <1>1 DEF GrowthLiability, Minus, Most
<1>3. r \in Nat /\ c \in Nat /\ p \in Nat /\ w \in Nat
  BY <1>1, <1>2 DEF Charge
<1>4. Reserve(g, bytes, kind) = ApplyCacheBudget(h)
  BY Zenon DEF Reserve
<1> HIDE DEF r, c, p, w
<1>5. h \in Governors
  BY <1>3, Zenon DEF Governors
<1>6. Keeps(g, h)
  BY Zenon DEF Keeps, Governors
<1> HIDE DEF h
<1> QED
  BY <1>2, <1>4, <1>5, <1>6, Budgeted DEF Keeps

\* release_reservation
LEMMA ReleaseSound ==
  ASSUME NEW g \in Governors, NEW r \in Reservations
  PROVE  /\ Release(g, r) \in Governors /\ Within(Release(g, r))
         /\ Keeps(g, Release(g, r))
<1> DEFINE last == r.kind \in Prefills /\ g.prefill_reservations = 1
           freed == IF r.kind \in Prefills THEN r.bytes - r.growth ELSE r.bytes
           n == Minus(Minus(g.reserved, freed), IF last THEN g.growth_reserved ELSE 0)
           c == IF r.kind = "cold" THEN Minus(g.cold_reservations, 1) ELSE g.cold_reservations
           p == IF r.kind \in Prefills THEN Minus(g.prefill_reservations, 1)
                ELSE g.prefill_reservations
           w == IF last THEN 0 ELSE g.growth_reserved
           h == [g EXCEPT !.reserved = n, !.cold_reservations = c,
                          !.prefill_reservations = p, !.growth_reserved = w]
<1>1. /\ g.reserved \in Nat /\ g.cold_reservations \in Nat
      /\ g.prefill_reservations \in Nat /\ g.growth_reserved \in Nat
  BY DEF Governors
<1>2. freed \in Int
  BY DEF Reservations
<1> HIDE DEF freed
<1>3. n \in Nat /\ c \in Nat /\ p \in Nat /\ w \in Nat
  BY <1>1, <1>2 DEF Minus, Most
<1>4. Release(g, r) = ApplyCacheBudget(h)
  BY Zenon DEF Release, freed
<1> HIDE DEF n, c, p, w
<1>5. h \in Governors
  BY <1>3, Zenon DEF Governors
<1>6. Keeps(g, h)
  BY Zenon DEF Keeps, Governors
<1> HIDE DEF h
<1> QED
  BY <1>4, <1>5, <1>6, Budgeted DEF Keeps

-----------------------------------------------------------------------------
(* What a step does to the governor                                        *)

Governed ==
  /\ gov \in Governors
  /\ low_run \in 0..RecoverySamples
  /\ high_run \in Levels \X (0..PromotionSamples)
  /\ Within(gov)
  /\ Counted(gov, low_run, high_run[1], high_run[2])

MovesWell == Moves(gov, gov', low_run', high_run'[1], high_run'[2])

\* update, with the two histories: the counters stay counts of samples in a row.
LEMMA RefreshSound ==
  ASSUME Governed, Refreshes
  PROVE  Governed' /\ MovesWell /\ SameLedger(gov, gov')
<1>1. PICK t \in Samples : gov' = Update(gov, t) /\ Record(gov, t)
  BY DEF Refreshes
<1>2. t \in Telemetry
  BY <1>1, GovernorAssumption
<1> DEFINE n == Usage(t)
           c == Ceiling(t)
           current == n + gov.reserved
           bad == [FailSafe(gov) EXCEPT !.candidate = Most(gov.level, Soft),
                                        !.candidate_samples = 0, !.recovery_samples = 0]
           judged == IF Degraded(t) THEN bad
                     ELSE Advance(gov, Observed(current, c), current, c)
           seen == [judged EXCEPT !.usage = n, !.ceiling = c, !.cache = t.cache,
                                  !.degraded = Degraded(t), !.age = "fresh"]
<1>3. n \in Nat /\ c \in Nat /\ t.cache \in Nat /\ Degraded(t) \in BOOLEAN
  BY <1>2, CeilingNat DEF Telemetry, Degraded
<1>4. gov' = ApplyCacheBudget(seen)
  BY <1>1, Zenon DEF Update
<1>5. /\ low_run' = IF ~Degraded(t) /\ current <= RecoveryMark(c)
                    THEN Least(low_run + 1, RecoverySamples) ELSE 0
      /\ high_run' = IF Degraded(t) THEN <<Normal, 0>>
                     ELSE <<Observed(current, c),
                            NextHigh(high_run[1], high_run[2], Observed(current, c))>>
  BY <1>1, Zenon DEF Record, NextHigh
<1> HIDE DEF n, c
<1>6. current \in Int
  BY <1>3 DEF Governed, Governors
<1> HIDE DEF current
<1>7. Observed(current, c) \in Levels
  BY <1>3, <1>6, ObservedLevel
<1>8. PromotionSamples \in Nat \ {0} /\ RecoverySamples \in Nat \ {0}
  BY GovernorAssumption
<1>9. high_run[1] \in Levels /\ high_run[2] \in 0..PromotionSamples
  BY DEF Governed
<1>10. /\ low_run' \in 0..RecoverySamples
       /\ high_run' \in Levels \X (0..PromotionSamples)
  <2>1. NextHigh(high_run[1], high_run[2], Observed(current, c)) \in 0..PromotionSamples
    BY <1>8, <1>9 DEF NextHigh, Least
  <2>2. Least(low_run + 1, RecoverySamples) \in 0..RecoverySamples
    BY <1>8 DEF Least, Governed
  <2>3. CASE Degraded(t)
    BY <1>5, <1>8, <2>3
  <2>4. CASE ~Degraded(t)
    BY <1>5, <1>7, <1>8, <2>1, <2>2, <2>4
  <2> QED
    BY <2>3, <2>4
<1>11. judged \in Governors /\ Counted(judged, low_run', high_run'[1], high_run'[2])
       /\ (~Degraded(t) => MovesByCount(gov, judged, low_run', high_run'[1], high_run'[2]))
       /\ (Degraded(t) => judged.level = Most(gov.level, Soft))
  <2>1. CASE Degraded(t)
    <3>1. judged = bad
      BY <2>1
    <3> DEFINE lv == Most(gov.level, Soft)
    <3>2. lv \in Levels
      BY DEF Governed, Governors, Most
    <3>3. FailSafe(gov) = [gov EXCEPT !.degraded = TRUE, !.level = lv]
      BY Zenon DEF FailSafe
    <3>4. 0 \in 0..PromotionSamples /\ 0 \in 0..RecoverySamples
      BY <1>8
    <3> HIDE DEF lv
    <3>5. FailSafe(gov) \in Governors /\ FailSafe(gov).level = lv
      BY <3>2, <3>3, Zenon DEF Governed, Governors
    <3>6. bad = [FailSafe(gov) EXCEPT !.candidate = lv,
                                      !.candidate_samples = 0, !.recovery_samples = 0]
      BY DEF lv
    <3> HIDE DEF bad
    <3>7. bad \in Governors /\ bad.recovery_samples = 0 /\ bad.candidate_samples = 0
          /\ bad.level = lv
      BY <3>2, <3>4, <3>5, <3>6, Zenon DEF Governors
    <3>8. Counted(bad, low_run', high_run'[1], high_run'[2])
      BY <1>8, <1>10, <3>7 DEF Counted
    <3> QED
      BY <2>1, <3>1, <3>7, <3>8 DEF lv
  <2>2. CASE ~Degraded(t)
    <3>1. judged = Advance(gov, Observed(current, c), current, c)
      BY <2>2
    <3>2. low_run' = NextLow(low_run, current <= RecoveryMark(c))
      BY <1>5, <2>2, Zenon DEF NextLow
    <3>3. /\ high_run'[1] = Observed(current, c)
          /\ high_run'[2] = NextHigh(high_run[1], high_run[2], Observed(current, c))
      BY <1>5, <2>2
    <3>4. PICK observed : observed = Observed(current, c)
      OBVIOUS
    <3>5. PICK h, l, n0 : h = Advance(gov, observed, current, c) /\ l = high_run[1] /\ n0 = high_run[2]
      OBVIOUS
    <3>6. /\ gov \in Governors /\ low_run \in 0..RecoverySamples
          /\ Counted(gov, low_run, l, n0) /\ l \in Levels /\ n0 \in 0..PromotionSamples
      BY <1>9, <3>5 DEF Governed
    <3>7. /\ low_run' = NextLow(low_run, current <= RecoveryMark(c))
          /\ high_run'[1] = observed /\ high_run'[2] = NextHigh(l, n0, observed)
      BY <3>2, <3>3, <3>4, <3>5, Zenon
    <3>8. PICK low2, n2 : /\ low2 = NextLow(low_run, current <= RecoveryMark(c))
                          /\ n2 = NextHigh(l, n0, observed)
      OBVIOUS
    <3>9. h \in Governors /\ Counted(h, low2, observed, n2)
          /\ MovesByCount(gov, h, low2, observed, n2)
      BY <1>3, <1>6, <1>7, <3>4, <3>5, <3>6, <3>8, AdvanceSound, Zenon
    <3>10. judged = h /\ low_run' = low2 /\ high_run'[1] = observed /\ high_run'[2] = n2
      BY <3>1, <3>4, <3>5, <3>7, <3>8, Zenon
    <3> QED
      BY <2>2, <3>9, <3>10, Zenon
  <2> QED
    BY <2>1, <2>2
<1>11a. SameLedger(gov, judged)
  <2>1. SameLedger(gov, bad)
    BY Zenon DEF Governed, SameLedger, Governors, FailSafe
  <2>2. SameLedger(gov, Advance(gov, Observed(current, c), current, c))
    BY AdvanceSame DEF Governed
  <2> QED
    BY <2>1, <2>2, Zenon
<1> HIDE DEF judged
<1>12. seen \in Governors
  BY <1>3, <1>11, Zenon DEF Governors
<1>13. /\ seen.level = judged.level /\ seen.candidate = judged.candidate
       /\ seen.candidate_samples = judged.candidate_samples
       /\ seen.recovery_samples = judged.recovery_samples
       /\ seen.degraded = Degraded(t)
  BY <1>11, Zenon DEF Governors
<1>14. Counted(seen, low_run', high_run'[1], high_run'[2])
  BY <1>11, <1>13 DEF Counted
<1>12a. SameLedger(judged, seen)
  BY <1>11, Zenon DEF SameLedger, Governors
<1> HIDE DEF seen
<1>12b. SameLedger(gov, gov')
  BY <1>4, <1>12, <1>11a, <1>12a, BudgetSame DEF SameLedger
<1>15. gov' \in Governors /\ Within(gov') /\ gov'.degraded = seen.degraded
       /\ gov'.level = seen.level /\ gov'.candidate = seen.candidate
       /\ gov'.candidate_samples = seen.candidate_samples
       /\ gov'.recovery_samples = seen.recovery_samples
  <2>1. Keeps(seen, gov') /\ gov' \in Governors /\ Within(gov')
        /\ gov'.degraded = seen.degraded
    BY <1>4, <1>12, Budgeted
  <2>2. gov'.level = seen.level
    <3>1. ApplyCacheBudget(seen).level = seen.level
      <4>1. PICK k \in Nat : ApplyCacheBudget(seen) = [seen EXCEPT !.cache_limit = k]
        BY <1>12, BudgetApplied
      <4> QED
        BY <4>1, <1>12, Zenon DEF Governors
    <3> QED
      BY <3>1, <1>4
  <2> QED
    BY <2>1, <2>2 DEF Keeps
<1>16. Counted(gov', low_run', high_run'[1], high_run'[2])
  BY <1>14, <1>15 DEF Counted
<1>17. MovesWell
  <2>1. gov.level \in Levels
    BY DEF Governed, Governors
  <2>2. CASE Degraded(t)
    <3>1. gov'.level = Most(gov.level, Soft) /\ gov'.degraded
      BY <1>11, <1>13, <1>15, <2>2
    <3> QED
      BY <2>1, <3>1 DEF MovesWell, Moves, Most
  <2>3. CASE ~Degraded(t)
    <3>1. MovesByCount(gov, judged, low_run', high_run'[1], high_run'[2])
      BY <1>11, <2>3
    <3>2. gov'.level = judged.level
      BY <1>13, <1>15
    <3> QED
      BY <3>1, <3>2 DEF MovesWell, Moves, MovesByCount
  <2> QED
    BY <2>2, <2>3
<1> QED
  BY <1>10, <1>15, <1>16, <1>17, <1>12b DEF Governed

\* Everything else a step does to the governor.
LEMMA KeptSound ==
  ASSUME Governed, gov' \in Governors, Within(gov'), Keeps(gov, gov'),
         UNCHANGED <<low_run, high_run>>
  PROVE  Governed' /\ MovesWell
<1>1. gov.level \in Levels
  BY DEF Governed, Governors
<1>2. Counted(gov', low_run', high_run'[1], high_run'[2])
  BY DEF Governed, Counted, Keeps
<1>3. MovesWell
  BY <1>1 DEF MovesWell, Moves, Keeps
<1> QED
  BY <1>2, <1>3 DEF Governed

\* Threads, calls and reservations are what TypeOK says.
ThreadsOK ==
  /\ comp \in [Components -> {"Cold", "Warming", "Warm"}]
  /\ pc \in [Threads -> {"idle", "begin", "asleep", "sample", "try", "planned",
                         "refresh", "hold", "commit", "settle", "warm", "rollback"}]
  /\ job \in [Threads -> Calls]
  /\ owned \in [Threads -> SUBSET Components]
  /\ held \in [Threads -> Reservations]

\* No step of the clock, a reader or a thread breaks the governor's part.
LEMMA GovernorStep ==
  ASSUME Governed, ThreadsOK, [Next]_vars
  PROVE  Governed' /\ MovesWell
<1> gov \in Governors /\ Within(gov)
  BY DEF Governed
<1> DEFINE Same == UNCHANGED <<gov, low_run, high_run>>
<1>1. ASSUME Same PROVE Governed' /\ MovesWell
  <2>1. Keeps(gov, gov')
    BY <1>1 DEF Keeps
  <2> QED
    BY <1>1, <2>1, KeptSound
<1>2. ASSUME SamplesNow PROVE Governed' /\ MovesWell
  BY <1>1, <1>2, RefreshSound DEF SamplesNow
<1>3. ASSUME gov' = Checked(gov), UNCHANGED <<low_run, high_run>>
      PROVE  Governed' /\ MovesWell
  BY <1>3, CheckedSound, KeptSound
<1>4. ASSUME Tick PROVE Governed' /\ MovesWell
  <2> DEFINE a == IF gov.age = "fresh" THEN "due" ELSE "stale"
  <2>1. gov' = [gov EXCEPT !.age = a] /\ UNCHANGED <<low_run, high_run>>
    BY <1>4, Zenon DEF Tick
  <2>2. a \in {"fresh", "due", "stale"}
    OBVIOUS
  <2> HIDE DEF a
  <2>3. gov' \in Governors
    BY <2>1, <2>2, Zenon DEF Governors
  <2>4. Keeps(gov, gov')
    BY <2>1, Zenon DEF Keeps, Governors
  <2>5. /\ gov'.cache_limit = gov.cache_limit /\ gov'.usage = gov.usage
        /\ gov'.cache = gov.cache /\ gov'.reserved = gov.reserved
        /\ gov'.ceiling = gov.ceiling
    BY <2>1, Zenon DEF Governors
  <2>6. Within(gov')
    BY <2>5 DEF Within
  <2> QED
    BY <2>1, <2>3, <2>4, <2>6, KeptSound
<1>5. ASSUME NEW t \in Threads, TryReserve(t) PROVE Governed' /\ MovesWell
  <2> DEFINE g == Checked(gov)
             b == IF job[t].kind = "plan" THEN job[t].chunk ELSE job[t].bytes
  <2>1. b \in Nat
    BY DEF ThreadsOK, Calls
  <2> HIDE DEF b
  <2>2. UNCHANGED <<low_run, high_run>>
    BY <1>5 DEF TryReserve
  <2>3. CASE Reservable(g, b, job[t].kind) /\ gov' = Reserve(g, b, job[t].kind)
    <3>1. g = gov
      BY <2>3, CheckedSound DEF Reservable
    <3> QED
      BY <2>1, <2>2, <2>3, <3>1, ReserveSound, KeptSound
  <2>4. CASE gov' = g
    BY <1>3, <2>2, <2>4
  <2> QED
    BY <1>5, <2>3, <2>4, Zenon DEF TryReserve, b
<1>6. ASSUME NEW t \in Threads, GiveBack(t) PROVE Governed' /\ MovesWell
  <2>1. UNCHANGED <<low_run, high_run>>
    BY <1>6 DEF GiveBack
  <2>2. held[t] \in Reservations
    BY DEF ThreadsOK
  <2>3. gov' = gov \/ gov' = Release(gov, held[t])
    BY <1>6 DEF GiveBack
  <2> QED
    BY <1>1, <2>1, <2>2, <2>3, ReleaseSound, KeptSound
<1>7. CASE UNCHANGED vars
  BY <1>1, <1>7 DEF vars
<1>8. ASSUME NEW t \in Threads,
             Call(t) \/ Begin(t) \/ Mark(t)
      PROVE  Governed' /\ MovesWell
  BY <1>1, <1>8, Zenon DEF Call, Begin, Mark
<1>9. ASSUME NEW t \in Threads,
             Sample(t) \/ Plan(t) \/ Refresh(t) \/ CommitCold(t) \/ Settle(t)
      PROVE  Governed' /\ MovesWell
  BY <1>1, <1>2, <1>3, <1>9, RefreshSound, Zenon
     DEF Sample, Plan, Refresh, CommitCold, Settle
<1>10. CASE MonitorSamples \/ Observe
  BY <1>2, <1>3, <1>10 DEF MonitorSamples, Observe
<1> QED
  BY <1>4, <1>5, <1>6, <1>7, <1>8, <1>9, <1>10, Zenon DEF Next, Goes

-----------------------------------------------------------------------------
(* The tracker of cold components                                          *)

(* What the place of a thread in its call says of the call, of the components
   it owns and of its reservation. *)
Placed(t) ==
  /\ pc[t] \in {"begin", "asleep", "commit", "warm", "rollback"} => job[t].kind = "cold"
  /\ pc[t] = "planned" => job[t].kind = "plan"
  /\ pc[t] \notin {"hold", "commit"} => held[t] = NoReservation
  /\ owned[t] # {} => /\ job[t].kind = "cold"
                      /\ pc[t] \notin {"idle", "begin", "asleep", "settle"}
  /\ (job[t].kind = "cold" /\ pc[t] \in {"sample", "try", "refresh", "hold", "commit"}) =>
       /\ \A c \in job[t].comps : comp[c] = "Warm" \/ ColdBytes[c] = 0 \/ c \in owned[t]
       /\ IF pc[t] \in {"hold", "commit"} THEN held[t].bytes = ColdCost(owned[t])
          ELSE job[t].bytes = ColdCost(owned[t])

Owners ==
  /\ \A c \in Components : (comp[c] = "Warming") <=> \E t \in Threads : c \in owned[t]
  /\ \A t, u \in Threads : t # u => owned[t] \cap owned[u] = {}

Tracked == Owners /\ (\A t \in Threads : Placed(t)) /\ SleepersAwaited

(* t moves in its own call and touches no component. *)
Local(t) ==
  /\ ThreadsOK' /\ UNCHANGED <<comp, owned>>
  /\ \A u \in Threads \ {t} : pc'[u] = pc[u] /\ job'[u] = job[u] /\ held'[u] = held[u]

\* A thread that moves in its own call breaks nobody else's.
LEMMA LocalKeeps ==
  ASSUME Tracked, NEW t \in Threads, Local(t), Placed(t)', pc'[t] # "asleep"
  PROVE  Tracked'
<1>1. Owners'
  BY DEF Tracked, Owners, Local
<1>2. \A u \in Threads \ {t} : Placed(u)'
  BY DEF Tracked, Placed, Local
<1>3. SleepersAwaited'
  BY DEF Tracked, SleepersAwaited, Local
<1> QED
  BY <1>1, <1>2, <1>3 DEF Tracked

\* What GoesTo does to the place and the call of its thread.
LEMMA GoesToSound ==
  ASSUME ThreadsOK, NEW t \in Threads, NEW where, GoesTo(t, where),
         where \in {"idle", "try", "refresh", "rollback", "hold", "warm", "settle"}
  PROVE  /\ pc' \in [Threads -> {"idle", "begin", "asleep", "sample", "try", "planned",
                                 "refresh", "hold", "commit", "settle", "warm", "rollback"}]
         /\ job' \in [Threads -> Calls]
         /\ pc'[t] = where
         /\ job'[t] = IF where = "idle" THEN NoCall ELSE job[t]
         /\ \A u \in Threads \ {t} : pc'[u] = pc[u] /\ job'[u] = job[u]
<1>1. NoCall \in Calls
  BY DEF NoCall, Calls
<1> QED
  BY <1>1 DEF ThreadsOK, GoesTo

\* After one failure a cold call is refreshed, after the second rolled back.
LEMMA GivesUpSound ==
  ASSUME NEW t \in Threads
  PROVE  /\ GivesUp(t) \in {"idle", "refresh", "rollback"}
         /\ GivesUp(t) = "rollback" => job[t].kind = "cold"
         /\ GivesUp(t) = "idle" => job[t].kind # "cold"
BY DEF GivesUp

\* A new call claims no component and wakes nobody.
LEMMA CallTracked ==
  ASSUME ThreadsOK, Tracked, NEW t \in Threads, Call(t)
  PROVE  ThreadsOK' /\ Tracked'
<1>0. NoCall \in Calls /\ Kinds[t] \subseteq Kind
  BY GovernorAssumption DEF NoCall, Calls
<1>1. PICK k \in Kinds[t], call \in Calls :
        /\ call.kind = k
        /\ job' = [job EXCEPT ![t] = call]
        /\ pc' = [pc EXCEPT ![t] = IF k = "cold" THEN "begin" ELSE "sample"]
  <2>1. PICK k \in Kinds[t] :
          \/ /\ k = "cold"
             /\ \E cs \in Needs :
                  job' = [job EXCEPT ![t] = [NoCall EXCEPT !.kind = k, !.comps = cs]]
             /\ pc' = [pc EXCEPT ![t] = "begin"]
          \/ /\ k # "cold"
             /\ \E n \in Sizes :
                  job' = [job EXCEPT ![t] = [NoCall EXCEPT !.kind = k, !.bytes = n]]
             /\ pc' = [pc EXCEPT ![t] = "sample"]
    BY DEF Call
  <2>2. CASE k = "cold"
    <3>1. PICK cs \in Needs :
            job' = [job EXCEPT ![t] = [NoCall EXCEPT !.kind = k, !.comps = cs]]
      BY <2>1, <2>2
    <3>2. cs \subseteq Components
      BY GovernorAssumption
    <3>3. /\ [NoCall EXCEPT !.kind = k, !.comps = cs] \in Calls
          /\ [NoCall EXCEPT !.kind = k, !.comps = cs].kind = k
      BY <1>0, <3>2, Zenon DEF Calls
    <3> QED
      BY <2>1, <2>2, <3>1, <3>3
  <2>3. CASE k # "cold"
    <3>1. PICK n \in Sizes :
            job' = [job EXCEPT ![t] = [NoCall EXCEPT !.kind = k, !.bytes = n]]
      BY <2>1, <2>3
    <3>2. n \in Nat
      BY GovernorAssumption
    <3>3. /\ [NoCall EXCEPT !.kind = k, !.bytes = n] \in Calls
          /\ [NoCall EXCEPT !.kind = k, !.bytes = n].kind = k
      BY <1>0, <3>2, Zenon DEF Calls
    <3> QED
      BY <2>1, <2>3, <3>1, <3>3
  <2> QED
    BY <2>2, <2>3
<1>3. UNCHANGED <<comp, owned, held>> /\ pc[t] = "idle"
      /\ (k # "cold" => pc'[t] = "sample") /\ (k = "cold" => pc'[t] = "begin")
  BY <1>1 DEF Call, ThreadsOK
<1>4. Local(t)
  BY <1>1, <1>3 DEF Local, ThreadsOK
<1>5. job'[t].kind = k
  BY <1>1 DEF ThreadsOK
<1>6. Placed(t)'
  BY <1>3, <1>5 DEF Placed, Tracked
<1> QED
  BY <1>3, <1>4, <1>6, LocalKeeps DEF Local

\* Sample, Refresh, CommitCold, Settle: the call goes on, or is over.
LEMMA RefreshTracked ==
  ASSUME ThreadsOK, Tracked, NEW t \in Threads,
         Sample(t) \/ Refresh(t) \/ CommitCold(t) \/ Settle(t)
  PROVE  ThreadsOK' /\ Tracked'
<1>0. Placed(t) /\ held[t] \in Reservations /\ job[t] \in Calls
  BY DEF Tracked, ThreadsOK
<1>1. CASE Sample(t)
  <2>1. PICK w \in {"try", "refresh", "idle"} :
          GoesTo(t, w) /\ (job[t].kind = "cold" => w = "try")
    BY <1>1 DEF Sample
  <2>2. pc[t] = "sample" /\ UNCHANGED <<comp, owned, held>>
    BY <1>1 DEF Sample
  <2>3. Local(t) /\ pc'[t] = w /\ job'[t] = IF w = "idle" THEN NoCall ELSE job[t]
    BY <2>1, <2>2, GoesToSound DEF Local, ThreadsOK
  <2>4. Placed(t)'
    BY <1>0, <2>1, <2>2, <2>3 DEF Placed, NoCall
  <2> QED
    BY <2>3, <2>4, LocalKeeps DEF Local
<1>2. CASE Refresh(t)
  <2>1. pc[t] = "refresh" /\ UNCHANGED <<comp, owned, held>>
    BY <1>2 DEF Refresh
  <2>2. CASE job[t].kind = "load" /\ GoesTo(t, "idle")
    <3>1. Local(t) /\ pc'[t] = "idle" /\ job'[t] = NoCall
      BY <2>1, <2>2, GoesToSound DEF Local, ThreadsOK
    <3>2. Placed(t)'
      BY <1>0, <2>1, <2>2, <3>1 DEF Placed, NoCall
    <3> QED
      BY <3>1, <3>2, LocalKeeps DEF Local
  <2>3. CASE job' = [job EXCEPT ![t].retried = TRUE] /\ pc' = [pc EXCEPT ![t] = "try"]
    <3>1. [job[t] EXCEPT !.retried = TRUE] \in Calls
      BY <1>0 DEF Calls
    <3>2. Local(t) /\ pc'[t] = "try" /\ job'[t] = [job[t] EXCEPT !.retried = TRUE]
      BY <2>1, <2>3, <3>1 DEF Local, ThreadsOK
    <3>3. job'[t].kind = job[t].kind /\ job'[t].comps = job[t].comps
          /\ job'[t].bytes = job[t].bytes
      BY <1>0, <3>2 DEF Calls
    <3>4. Placed(t)'
      BY <1>0, <2>1, <3>2, <3>3 DEF Placed
    <3> QED
      BY <3>2, <3>4, LocalKeeps DEF Local
  <2> QED
    BY <1>2, <2>2, <2>3 DEF Refresh
<1>3. CASE CommitCold(t)
  <2>1. Local(t) /\ pc'[t] = "commit" /\ job'[t] = job[t] /\ held'[t] = held[t]
    BY <1>3 DEF CommitCold, Local, ThreadsOK
  <2>2. Placed(t)'
    BY <1>0, <1>3, <2>1 DEF Placed, Local, CommitCold
  <2> QED
    BY <2>1, <2>2, LocalKeeps DEF Local
<1>4. CASE Settle(t)
  <2>1. GoesTo(t, "idle") /\ pc[t] = "settle" /\ UNCHANGED <<comp, owned, held>>
    BY <1>4 DEF Settle
  <2>2. Local(t) /\ pc'[t] = "idle" /\ job'[t] = NoCall
    BY <2>1, GoesToSound DEF Local, ThreadsOK
  <2>3. Placed(t)'
    BY <1>0, <2>1, <2>2 DEF Placed, NoCall
  <2> QED
    BY <2>2, <2>3, LocalKeeps DEF Local
<1> QED
  BY <1>1, <1>2, <1>3, <1>4

\* plan_prefill_chunk's first half
LEMMA PlanTracked ==
  ASSUME ThreadsOK, Tracked, NEW t \in Threads, Plan(t)
  PROVE  ThreadsOK' /\ Tracked'
<1>1. /\ Placed(t) /\ job[t] \in Calls /\ pc[t] = "try" /\ job[t].kind = "plan"
      /\ UNCHANGED <<comp, owned, held>>
  BY DEF Tracked, ThreadsOK, Plan
<1>2. CASE GoesTo(t, GivesUp(t))
  <2>1. Local(t) /\ pc'[t] \in {"idle", "refresh"}
        /\ (pc'[t] = "refresh" => job'[t] = job[t])
        /\ (pc'[t] = "idle" => job'[t] = NoCall)
    BY <1>1, <1>2, GoesToSound, GivesUpSound DEF Local, ThreadsOK
  <2>2. Placed(t)'
    BY <1>1, <2>1 DEF Placed, NoCall
  <2> QED
    BY <2>1, <2>2, LocalKeeps DEF Local
<1>3. ASSUME NEW s \in Nat, job' = [job EXCEPT ![t].chunk = s],
             pc' = [pc EXCEPT ![t] = "planned"]
      PROVE  ThreadsOK' /\ Tracked'
  <2>1. [job[t] EXCEPT !.chunk = s] \in Calls /\ [job[t] EXCEPT !.chunk = s].kind = "plan"
    BY <1>1 DEF Calls
  <2>2. Local(t) /\ pc'[t] = "planned" /\ job'[t] = [job[t] EXCEPT !.chunk = s]
    BY <1>1, <1>3, <2>1 DEF Local, ThreadsOK
  <2>3. Placed(t)'
    BY <1>1, <2>1, <2>2 DEF Placed
  <2> QED
    BY <2>2, <2>3, LocalKeeps DEF Local
<1>4. SafeChunks(Checked(gov), job[t].bytes) \subseteq Nat
  BY GovernorAssumption DEF SafeChunks
<1> QED
  BY <1>2, <1>3, <1>4 DEF Plan

\* try_reserve: the reservation is the call's, or the call gives up.
LEMMA TryReserveTracked ==
  ASSUME Governed, ThreadsOK, Tracked, NEW t \in Threads, TryReserve(t)
  PROVE  ThreadsOK' /\ Tracked'
<1> DEFINE g == Checked(gov)
           k == job[t].kind
           b == IF k = "plan" THEN job[t].chunk ELSE job[t].bytes
           r == [kind |-> k, bytes |-> Charge(g, b, k), growth |-> Charge(g, b, k) - b]
<1>1. /\ Placed(t) /\ job[t] \in Calls /\ UNCHANGED <<comp, owned>>
      /\ pc[t] = IF k = "plan" THEN "planned" ELSE "try"
  BY DEF Tracked, ThreadsOK, TryReserve
<1>2. b \in Nat /\ GrowthLiability(g) \in Nat /\ k \in Kind \cup {"none"}
  BY <1>1, CheckedSound, ReserveSound DEF Governed, Calls
<1>3. r \in Reservations /\ (k = "cold" => r.bytes = b)
  BY <1>2 DEF Reservations, Charge, Prefills
<1>4. CASE held' = [held EXCEPT ![t] = r] /\ GoesTo(t, "hold")
  <2> HIDE DEF r
  <2>1. Local(t) /\ pc'[t] = "hold" /\ job'[t] = job[t] /\ held'[t] = r
    BY <1>1, <1>3, <1>4, GoesToSound DEF Local, ThreadsOK
  <2>2. Placed(t)'
    BY <1>1, <1>3, <2>1 DEF Placed
  <2> QED
    BY <2>1, <2>2, LocalKeeps DEF Local
<1>5. CASE UNCHANGED held /\ GoesTo(t, GivesUp(t))
  <2> HIDE DEF r
  <2>1. Local(t) /\ pc'[t] \in {"idle", "refresh", "rollback"} /\ held'[t] = held[t]
        /\ (pc'[t] = "rollback" => job[t].kind = "cold")
        /\ (pc'[t] = "idle" => job[t].kind # "cold" /\ job'[t] = NoCall)
        /\ (pc'[t] # "idle" => job'[t] = job[t])
    BY <1>1, <1>5, GoesToSound, GivesUpSound DEF Local, ThreadsOK
  <2>2. Placed(t)'
    BY <1>1, <2>1 DEF Placed, NoCall
  <2> QED
    BY <2>1, <2>2, LocalKeeps DEF Local
<1> QED
  BY <1>4, <1>5, Zenon DEF TryReserve

\* The guard is dropped, or commit gives the bytes back before it marks.
LEMMA GiveBackTracked ==
  ASSUME ThreadsOK, Tracked, NEW t \in Threads, GiveBack(t)
  PROVE  ThreadsOK' /\ Tracked'
<1>1. /\ Placed(t) /\ pc[t] \in {"hold", "commit"} /\ UNCHANGED <<comp, owned>>
      /\ held' = [held EXCEPT ![t] = NoReservation]
  BY DEF Tracked, GiveBack
<1>2. NoReservation \in Reservations
  BY DEF NoReservation, Reservations
<1>3. PICK w \in {"warm", "rollback", "settle", "idle"} :
        /\ GoesTo(t, w)
        /\ pc[t] = "commit" => w = "warm"
        /\ pc[t] = "hold" => /\ w = "rollback" <=> job[t].kind = "cold"
                             /\ w # "warm"
  <2>1. CASE pc[t] = "commit"
    BY <2>1 DEF GiveBack
  <2>2. CASE pc[t] = "hold" /\ job[t].kind = "cold"
    BY <2>2 DEF GiveBack
  <2>3. CASE pc[t] = "hold" /\ job[t].kind = "admission"
    BY <2>3 DEF GiveBack
  <2>4. CASE pc[t] = "hold" /\ job[t].kind \notin {"cold", "admission"}
    BY <2>4 DEF GiveBack
  <2> QED
    BY <1>1, <2>1, <2>2, <2>3, <2>4
<1>4. /\ Local(t) /\ pc'[t] = w /\ held'[t] = NoReservation
      /\ job'[t] = IF w = "idle" THEN NoCall ELSE job[t]
  BY <1>1, <1>2, <1>3, GoesToSound DEF Local, ThreadsOK
<1>5. Placed(t)'
  BY <1>1, <1>3, <1>4 DEF Placed, NoCall
<1> QED
  BY <1>3, <1>4, <1>5, LocalKeeps DEF Local

\* begin: the claim takes only what nobody owns.
LEMMA BeginTracked ==
  ASSUME ThreadsOK, Tracked, NEW t \in Threads, Begin(t)
  PROVE  ThreadsOK' /\ Tracked'
<1> DEFINE mine == {c \in job[t].comps : ColdBytes[c] > 0 /\ comp[c] = "Cold"}
<1>1. /\ Placed(t) /\ job[t] \in Calls /\ pc[t] = "begin" /\ held' = held
      /\ owned[t] = {} /\ job[t].kind = "cold" /\ held[t] = NoReservation
  BY DEF Tracked, ThreadsOK, Begin, Placed
<1>2. CASE /\ \E c \in job[t].comps : comp[c] = "Warming"
           /\ pc' = [pc EXCEPT ![t] = "asleep"] /\ UNCHANGED <<comp, owned, job>>
  <2>1. ThreadsOK'
    BY <1>1, <1>2 DEF ThreadsOK
  <2>2. Owners'
    BY <1>2 DEF Tracked, Owners
  <2>3. \A u \in Threads : Placed(u)'
    BY <1>1, <1>2 DEF Tracked, Placed, ThreadsOK
  <2>4. SleepersAwaited'
    <3>1. \E c \in job[t].comps, u \in Threads \ {t} : comp[c] = "Warming" /\ c \in owned[u]
      BY <1>1, <1>2 DEF Tracked, Owners, Calls
    <3> QED
      BY <1>2, <3>1 DEF Tracked, SleepersAwaited, ThreadsOK
  <2> QED
    BY <2>1, <2>2, <2>3, <2>4 DEF Tracked
<1>3. CASE /\ \A c \in job[t].comps : comp[c] # "Warming"
           /\ comp' = [c \in Components |-> IF c \in mine THEN "Warming" ELSE comp[c]]
           /\ owned' = [owned EXCEPT ![t] = mine]
           /\ job' = [job EXCEPT ![t].bytes = ColdCost(mine)]
           /\ pc' = [pc EXCEPT ![t] = IF mine = {} THEN "hold" ELSE "sample"]
  <2>1. /\ mine \in SUBSET Components
        /\ \A c \in mine : comp[c] = "Cold"
        /\ \A c \in job[t].comps : comp[c] = "Warm" \/ ColdBytes[c] = 0 \/ c \in mine
    BY <1>1, <1>3, GovernorAssumption DEF Calls, ThreadsOK
  <2> HIDE DEF mine
  <2>2. ColdCost(mine) \in Nat /\ (mine = {} => ColdCost(mine) = 0)
    BY <2>1, ColdCostNat
  <2>3. /\ [job[t] EXCEPT !.bytes = ColdCost(mine)] \in Calls
        /\ [job[t] EXCEPT !.bytes = ColdCost(mine)].kind = "cold"
        /\ [job[t] EXCEPT !.bytes = ColdCost(mine)].comps = job[t].comps
        /\ [job[t] EXCEPT !.bytes = ColdCost(mine)].bytes = ColdCost(mine)
    BY <1>1, <2>2 DEF Calls
  <2>4. /\ job'[t] = [job[t] EXCEPT !.bytes = ColdCost(mine)] /\ owned'[t] = mine
        /\ pc'[t] = IF mine = {} THEN "hold" ELSE "sample"
        /\ \A u \in Threads \ {t} :
             pc'[u] = pc[u] /\ job'[u] = job[u] /\ owned'[u] = owned[u]
        /\ \A c \in Components : comp'[c] = IF c \in mine THEN "Warming" ELSE comp[c]
    BY <1>3 DEF ThreadsOK
  <2>5. ThreadsOK'
    BY <1>1, <1>3, <2>1, <2>3 DEF ThreadsOK
  <2>6. \A u \in Threads \ {t} : mine \cap owned[u] = {}
    BY <2>1 DEF Tracked, Owners, ThreadsOK
  <2>7. Owners'
    <3>1. \A u, v \in Threads : u # v => owned'[u] \cap owned'[v] = {}
      BY <2>4, <2>6 DEF Tracked, Owners
    <3>2. ASSUME NEW c \in Components
          PROVE  (comp'[c] = "Warming") <=> \E u \in Threads : c \in owned'[u]
      <4>1. (comp[c] = "Warming") <=> \E u \in Threads \ {t} : c \in owned[u]
        BY <1>1 DEF Tracked, Owners
      <4> QED
        BY <2>4, <4>1
    <3> QED
      BY <3>1, <3>2 DEF Owners
  <2>8. Placed(t)'
    <3>1. \A c \in job'[t].comps : comp'[c] = "Warm" \/ ColdBytes[c] = 0 \/ c \in owned'[t]
      BY <1>1, <2>1, <2>3, <2>4 DEF Calls
    <3>2. mine = {} => held'[t].bytes = ColdCost(owned'[t])
      BY <1>1, <2>2, <2>4 DEF NoReservation
    <3>3. mine # {} => job'[t].bytes = ColdCost(owned'[t]) /\ held'[t] = NoReservation
      BY <1>1, <2>3, <2>4
    <3> QED
      BY <2>3, <2>4, <3>1, <3>2, <3>3 DEF Placed
  <2>9. ASSUME NEW u \in Threads \ {t} PROVE Placed(u)'
    <3>1. \A c \in Components : comp[c] = "Warm" => comp'[c] = "Warm"
      BY <2>1, <2>4
    <3>2. Placed(u) /\ job[u].comps \subseteq Components /\ held'[u] = held[u]
      BY <1>1 DEF Tracked, ThreadsOK, Calls
    <3> QED
      BY <2>4, <3>1, <3>2 DEF Placed
  <2>10. SleepersAwaited'
    <3> SUFFICES ASSUME NEW u \in Threads, pc'[u] = "asleep"
                 PROVE  \E c \in job'[u].comps, v \in Threads \ {u} :
                          comp'[c] = "Warming" /\ c \in owned'[v]
      BY DEF SleepersAwaited
    <3>1. u # t /\ pc[u] = "asleep" /\ job'[u] = job[u] /\ job[u].comps \subseteq Components
      BY <2>4 DEF ThreadsOK, Calls
    <3>2. PICK c \in job[u].comps, v \in Threads \ {u} : comp[c] = "Warming" /\ c \in owned[v]
      BY <3>1 DEF Tracked, SleepersAwaited
    <3>3. v # t
      BY <1>1, <3>2
    <3> QED
      BY <2>4, <3>1, <3>2, <3>3
  <2> QED
    BY <2>5, <2>7, <2>8, <2>9, <2>10 DEF Tracked
<1> QED
  BY <1>2, <1>3, Zenon DEF Begin

\* commit's or rollback's mark: what was owned is free, and nobody sleeps on.
LEMMA MarkTracked ==
  ASSUME ThreadsOK, Tracked, NEW t \in Threads, Mark(t)
  PROVE  ThreadsOK' /\ Tracked'
<1>1. /\ pc[t] \in {"warm", "rollback"} /\ held' = held /\ held[t] = NoReservation
      /\ comp' = [c \in Components |->
                    IF c \in owned[t] THEN (IF pc[t] = "warm" THEN "Warm" ELSE "Cold")
                    ELSE comp[c]]
      /\ owned' = [owned EXCEPT ![t] = {}]
      /\ pc' = [Wake(pc) EXCEPT ![t] = "idle"]
      /\ job' = [job EXCEPT ![t] = NoCall]
  BY DEF Tracked, Placed, Mark
<1>2. NoCall \in Calls
  BY DEF NoCall, Calls
<1>3. /\ pc'[t] = "idle" /\ job'[t] = NoCall /\ owned'[t] = {}
      /\ \A u \in Threads \ {t} :
           /\ pc'[u] = IF pc[u] = "asleep" THEN "begin" ELSE pc[u]
           /\ job'[u] = job[u] /\ owned'[u] = owned[u]
  BY <1>1 DEF Wake, ThreadsOK
<1>4. ThreadsOK'
  BY <1>1, <1>2 DEF Wake, ThreadsOK
<1>5. \A c \in Components :
        IF c \in owned[t] THEN comp[c] = "Warming" /\ comp'[c] \in {"Warm", "Cold"}
        ELSE comp'[c] = comp[c]
  BY <1>1 DEF Tracked, Owners
<1>6. Owners'
  <2>1. ASSUME NEW c \in Components
        PROVE  (comp'[c] = "Warming") <=> \E u \in Threads : c \in owned'[u]
    <3>1. CASE c \in owned[t]
      <4>1. \A u \in Threads \ {t} : c \notin owned[u]
        BY <3>1 DEF Tracked, Owners
      <4> QED
        BY <1>3, <1>5, <3>1, <4>1
    <3>2. CASE c \notin owned[t]
      BY <1>3, <1>5, <3>2 DEF Tracked, Owners
    <3> QED
      BY <3>1, <3>2
  <2>2. \A u, v \in Threads : u # v => owned'[u] \cap owned'[v] = {}
    BY <1>3 DEF Tracked, Owners
  <2> QED
    BY <2>1, <2>2 DEF Owners
<1>7. ASSUME NEW u \in Threads PROVE Placed(u)'
  <2>1. CASE u = t
    BY <1>1, <1>3, <2>1 DEF Placed, NoCall
  <2>2. CASE u # t
    <3>1. \A c \in Components : comp[c] = "Warm" => comp'[c] = "Warm"
      BY <1>5
    <3>2. Placed(u) /\ job[u].comps \subseteq Components /\ held'[u] = held[u]
      BY <1>1 DEF Tracked, ThreadsOK, Calls
    <3> QED
      BY <1>3, <2>2, <3>1, <3>2 DEF Placed
  <2> QED
    BY <2>1, <2>2
<1>8. SleepersAwaited'
  BY <1>3 DEF SleepersAwaited
<1> QED
  BY <1>4, <1>6, <1>7, <1>8 DEF Tracked

-----------------------------------------------------------------------------
(* The ledger of reservations                                              *)

Holders(h, kinds) == {t \in Threads : h[t].kind \in kinds}
BytesOf(r) == 1..(r.bytes - r.growth)
Transients(h) == UNION {{t} \X BytesOf(h[t]) : t \in Threads}

(* g's counters are the totals of the reservations h; a reservation that is
   no prefill's paid for no growth. *)
Ledger(g, h) ==
  /\ IsFiniteSet(Transients(h))
  /\ g.reserved = g.growth_reserved + Cardinality(Transients(h))
  /\ g.cold_reservations = Cardinality(Holders(h, {"cold"}))
  /\ g.prefill_reservations = Cardinality(Holders(h, Prefills))
  /\ Holders(h, Prefills) = {} => g.growth_reserved = 0
  /\ \A t \in Threads :
       /\ h[t].growth <= h[t].bytes
       /\ h[t].kind \notin Prefills => h[t].growth = 0

(* From h to h2, thread t became a holder if r is of one of the kinds. *)
HolderAdded(h, h2, t, r, kinds) ==
  /\ IsFiniteSet(Holders(h, kinds)) /\ Cardinality(Holders(h, kinds)) \in Nat
  /\ Cardinality(Holders(h2, kinds))
       = Cardinality(Holders(h, kinds)) + (IF r.kind \in kinds THEN 1 ELSE 0)
  /\ Holders(h, kinds) = Holders(h2, kinds) \ {t}
  /\ t \in Holders(h2, kinds) <=> r.kind \in kinds

\* A thread that held nothing now holds r: one more holder of its kind.
LEMMA OneMoreHolder ==
  ASSUME NEW h \in [Threads -> Reservations], NEW t \in Threads,
         h[t] = NoReservation, NEW r \in Reservations,
         NEW h2, h2 = [h EXCEPT ![t] = r], NEW kinds, "none" \notin kinds
  PROVE  HolderAdded(h, h2, t, r, kinds)
<1> DEFINE old == Holders(h, kinds)
           new == Holders(h2, kinds)
<1>1. t \notin old
  BY DEF Holders, NoReservation
<1>2. new = IF r.kind \in kinds THEN old \cup {t} ELSE old
  BY <1>1 DEF Holders
<1>3. IsFiniteSet(Threads) /\ old \subseteq Threads
  BY GovernorAssumption DEF Holders
<1>4. IsFiniteSet(old) /\ Cardinality(old) \in Nat
  BY <1>3, FS_Subset, FS_CardinalityType
<1>5. Cardinality(old \cup {t}) = Cardinality(old) + 1
  BY <1>1, <1>4, FS_AddElement
<1>6. t \in new <=> r.kind \in kinds
  BY <1>1, <1>2
<1>7. old = new \ {t}
  BY <1>1, <1>2
<1> HIDE DEF old, new
<1>8. Cardinality(new) = Cardinality(old) + (IF r.kind \in kinds THEN 1 ELSE 0)
  BY <1>2, <1>4, <1>5
<1> QED
  BY <1>4, <1>6, <1>7, <1>8 DEF old, new, HolderAdded

\* And its bytes are added to the total.
LEMMA MoreTransients ==
  ASSUME NEW h \in [Threads -> Reservations], NEW t \in Threads,
         h[t] = NoReservation, NEW r \in Reservations, r.growth <= r.bytes
  PROVE  LET old == Transients(h)
             new == Transients([h EXCEPT ![t] = r])
         IN /\ old \subseteq new
            /\ IsFiniteSet(old) =>
                 /\ IsFiniteSet(new) /\ Cardinality(old) \in Nat
                 /\ Cardinality(new) = Cardinality(old) + (r.bytes - r.growth)
<1> DEFINE old == Transients(h)
           new == Transients([h EXCEPT ![t] = r])
           mine == {t} \X BytesOf(r)
           n == r.bytes - r.growth
<1>1. n \in Nat /\ n \in Int
  BY DEF Reservations
<1>2. BytesOf(h[t]) = {}
  BY DEF BytesOf, NoReservation
<1>3. new = old \cup mine /\ old \cap mine = {}
  <2> HIDE DEF mine
  <2> DEFINE B == [u \in Threads |-> {u} \X BytesOf(h[u])]
             C == [u \in Threads |-> {u} \X BytesOf([h EXCEPT ![t] = r][u])]
  <2>1. B[t] = {} /\ C[t] = mine /\ \A u \in Threads \ {t} : C[u] = B[u]
    BY <1>2 DEF mine
  <2>2. \A u \in Threads : \A p \in B[u] : p[1] = u
    OBVIOUS
  <2>3. \A p \in mine : p[1] = t
    BY DEF mine
  <2>4. old = UNION {B[u] : u \in Threads} /\ new = UNION {C[u] : u \in Threads}
    BY DEF Transients
  <2> HIDE DEF B, C, old, new
  <2>5. \A p : p \in new <=> p \in old \/ p \in mine
    BY <2>1, <2>4
  <2>6. \A p \in old : p[1] # t
    BY <2>1, <2>2, <2>4
  <2> QED
    BY <2>3, <2>5, <2>6
<1>4. IsFiniteSet(mine) /\ Cardinality(mine) = n
  <2>4. mine = {t} \X (1..n)
    BY DEF BytesOf
  <2> HIDE DEF mine, n
  <2>1. IsFiniteSet(1..n) /\ Cardinality(1..n) = n
    BY <1>1, FS_Interval
  <2>2. IsFiniteSet({t}) /\ Cardinality({t}) = 1
    BY FS_Singleton
  <2>3. IsFiniteSet({t} \X (1..n)) /\ Cardinality({t} \X (1..n)) = 1 * n
    <3>1. PICK A, B, a, b : A = {t} /\ B = 1..n /\ a = 1 /\ b = n
      OBVIOUS
    <3>2. IsFiniteSet(A) /\ IsFiniteSet(B) /\ Cardinality(A) = a /\ Cardinality(B) = b
      BY <2>1, <2>2, <3>1, Zenon
    <3>3. IsFiniteSet(A \X B) /\ Cardinality(A \X B) = Cardinality(A) * Cardinality(B)
      BY <3>2, FS_Product, Zenon
    <3> QED
      BY <3>1, <3>2, <3>3, Zenon
  <2>5. 1 * n = n
    BY <1>1
  <2>6. IsFiniteSet({t} \X (1..n)) /\ Cardinality({t} \X (1..n)) = n
    BY <2>3, <2>5, Zenon
  <2> QED
    BY <2>4, <2>6, Zenon
<1> HIDE DEF old, new, mine, n
<1>5. ASSUME IsFiniteSet(old)
      PROVE  /\ IsFiniteSet(new) /\ Cardinality(old) \in Nat
             /\ Cardinality(new) = Cardinality(old) + n
  <2>1. Cardinality(old) \in Nat /\ Cardinality(old \cap mine) = 0
    BY <1>3, <1>5, FS_CardinalityType, FS_EmptySet
  <2>2. IsFiniteSet(old \cup mine)
        /\ Cardinality(old \cup mine)
           = Cardinality(old) + Cardinality(mine) - Cardinality(old \cap mine)
    BY <1>4, <1>5, FS_Union
  <2> QED
    BY <1>1, <1>3, <1>4, <2>1, <2>2
<1>6. old \subseteq new
  BY <1>3
<1> QED
  BY <1>5, <1>6 DEF old, new, n

\* A ledger is read off the four counters alone.
LEMMA LedgerKept ==
  ASSUME NEW g, NEW g2, NEW h, Ledger(g, h), SameLedger(g, g2)
  PROVE  Ledger(g2, h)
BY DEF Ledger, SameLedger

\* try_reserve_inner enters the new reservation, with the growth it pays for.
LEMMA ReserveLedger ==
  ASSUME NEW g \in Governors, NEW h \in [Threads -> Reservations], Ledger(g, h),
         NEW t \in Threads, h[t] = NoReservation,
         NEW b \in Nat, NEW k \in Kind \cup {"none"},
         NEW r, r = [kind |-> k, bytes |-> Charge(g, b, k), growth |-> Charge(g, b, k) - b]
  PROVE  Ledger(Reserve(g, b, k), [h EXCEPT ![t] = r])
<1> DEFINE h2 == [h EXCEPT ![t] = r]
           pays == IF k \in Prefills THEN GrowthLiability(g) ELSE 0
           n == g.reserved + Charge(g, b, k)
           c == IF k = "cold" THEN g.cold_reservations + 1 ELSE g.cold_reservations
           p == IF k \in Prefills THEN g.prefill_reservations + 1 ELSE g.prefill_reservations
           w == IF k \in Prefills THEN g.growth_reserved + GrowthLiability(g)
                ELSE g.growth_reserved
           charged == [g EXCEPT !.reserved = n, !.cold_reservations = c,
                                !.prefill_reservations = p, !.growth_reserved = w]
<1>1. /\ g.reserved \in Nat /\ g.growth_reserved \in Nat
      /\ g.cold_reservations \in Nat /\ g.prefill_reservations \in Nat
  BY DEF Governors
<1>2. pays \in Nat /\ Charge(g, b, k) = b + pays /\ GrowthLiability(g) \in Nat
  BY ReserveSound DEF Charge
<1>3. w = g.growth_reserved + pays /\ n = g.reserved + b + pays
  BY <1>1, <1>2
<1> HIDE DEF pays
<1>4. /\ r \in Reservations /\ r.kind = k /\ r.bytes = b + pays /\ r.growth = pays
      /\ r.growth <= r.bytes /\ r.bytes - r.growth = b
  BY <1>2 DEF Reservations
<1>5. k \notin Prefills => r.growth = 0
  BY <1>4 DEF pays
<1>6. n \in Nat /\ c \in Nat /\ p \in Nat /\ w \in Nat
  BY <1>1, <1>2, <1>3
<1>7. Reserve(g, b, k) = ApplyCacheBudget(charged)
  BY Zenon DEF Reserve
<1> HIDE DEF n, c, p, w
<1>8. /\ charged \in Governors /\ charged.reserved = n /\ charged.cold_reservations = c
      /\ charged.prefill_reservations = p /\ charged.growth_reserved = w
  BY <1>6, Zenon DEF Governors
<1> HIDE DEF charged
<1>9. /\ IsFiniteSet(Transients(h2)) /\ Cardinality(Transients(h)) \in Nat
      /\ Cardinality(Transients(h2)) = Cardinality(Transients(h)) + b
  BY <1>4, MoreTransients DEF Ledger
<1>9a. \A kinds : "none" \notin kinds => HolderAdded(h, h2, t, r, kinds)
  BY <1>4, OneMoreHolder
<1>10. Cardinality(Holders(h2, {"cold"})) = c
  <2>1. Cardinality(Holders(h2, {"cold"}))
          = Cardinality(Holders(h, {"cold"})) + (IF k \in {"cold"} THEN 1 ELSE 0)
    <3>1. HolderAdded(h, h2, t, r, {"cold"})
      BY <1>9a
    <3> QED
      BY <1>4, <3>1, Zenon DEF HolderAdded
  <2>2. g.cold_reservations = Cardinality(Holders(h, {"cold"}))
    BY DEF Ledger
  <2> HIDE DEF h2
  <2>3. CASE k = "cold"
    BY <1>4, <2>1, <2>2, <2>3 DEF c
  <2>4. CASE k # "cold"
    BY <1>1, <1>4, <2>1, <2>2, <2>4 DEF c
  <2> QED
    BY <2>3, <2>4
<1>11. Cardinality(Holders(h2, Prefills)) = p
       /\ (k \in Prefills => t \in Holders(h2, Prefills))
       /\ (k \notin Prefills => Holders(h, Prefills) = Holders(h2, Prefills))
  <2>1. "none" \notin Prefills
    BY DEF Prefills
  <2>2. /\ Cardinality(Holders(h2, Prefills))
             = Cardinality(Holders(h, Prefills)) + (IF k \in Prefills THEN 1 ELSE 0)
        /\ Holders(h, Prefills) = Holders(h2, Prefills) \ {t}
        /\ (t \in Holders(h2, Prefills) <=> k \in Prefills)
    <3>1. HolderAdded(h, h2, t, r, Prefills)
      BY <1>9a, <2>1
    <3> QED
      BY <1>4, <3>1, Zenon DEF HolderAdded
  <2>3. g.prefill_reservations = Cardinality(Holders(h, Prefills))
    BY DEF Ledger
  <2> HIDE DEF h2
  <2>4. CASE k \in Prefills
    BY <1>4, <2>2, <2>3, <2>4 DEF p
  <2>5. CASE k \notin Prefills
    BY <1>1, <1>4, <2>2, <2>3, <2>5 DEF p
  <2> QED
    BY <2>4, <2>5
<1>12. Holders(h2, Prefills) = {} => w = 0
  BY <1>11 DEF Ledger, w
<1>13. \A u \in Threads : h2[u].growth <= h2[u].bytes
                          /\ (h2[u].kind \notin Prefills => h2[u].growth = 0)
  BY <1>4, <1>5 DEF Ledger
<1> HIDE DEF h2
<1>14. n = w + Cardinality(Transients(h2))
  BY <1>1, <1>2, <1>3, <1>9 DEF Ledger
<1>15. Ledger(charged, h2)
  BY <1>8, <1>9, <1>10, <1>11, <1>12, <1>13, <1>14 DEF Ledger
<1> QED
  BY <1>7, <1>8, <1>15, BudgetSame, LedgerKept DEF h2

\* release_reservation takes it out again, and the growth with the last prefill:
\* nothing saturates on the way.
LEMMA ReleaseLedger ==
  ASSUME NEW g \in Governors, NEW h \in [Threads -> Reservations], Ledger(g, h),
         NEW t \in Threads
  PROVE  Ledger(Release(g, h[t]), [h EXCEPT ![t] = NoReservation])
<1> DEFINE r == h[t]
           h2 == [h EXCEPT ![t] = NoReservation]
           last == r.kind \in Prefills /\ g.prefill_reservations = 1
           freed == IF r.kind \in Prefills THEN r.bytes - r.growth ELSE r.bytes
           n == Minus(Minus(g.reserved, freed), IF last THEN g.growth_reserved ELSE 0)
           c == IF r.kind = "cold" THEN Minus(g.cold_reservations, 1) ELSE g.cold_reservations
           p == IF r.kind \in Prefills THEN Minus(g.prefill_reservations, 1)
                ELSE g.prefill_reservations
           w == IF last THEN 0 ELSE g.growth_reserved
           freed_g == [g EXCEPT !.reserved = n, !.cold_reservations = c,
                                !.prefill_reservations = p, !.growth_reserved = w]
<1>1. /\ g.reserved \in Nat /\ g.growth_reserved \in Nat
      /\ g.cold_reservations \in Nat /\ g.prefill_reservations \in Nat
  BY DEF Governors
<1>2. /\ r \in Reservations /\ r.bytes \in Nat /\ r.growth \in Nat
      /\ r.growth <= r.bytes /\ (r.kind \notin Prefills => r.growth = 0)
  BY DEF Ledger, Reservations
<1>3. freed = r.bytes - r.growth /\ freed \in Nat
  BY <1>2
<1>4. h2 \in [Threads -> Reservations] /\ h2[t] = NoReservation /\ h = [h2 EXCEPT ![t] = r]
  BY DEF NoReservation, Reservations
<1> HIDE DEF h2, r
<1>5. /\ IsFiniteSet(Transients(h2)) /\ Cardinality(Transients(h2)) \in Nat
      /\ Cardinality(Transients(h)) = Cardinality(Transients(h2)) + (r.bytes - r.growth)
  <2>1. Transients(h2) \subseteq Transients(h)
    BY <1>2, <1>4, MoreTransients
  <2>2. IsFiniteSet(Transients(h2))
    BY <2>1, FS_Subset DEF Ledger
  <2> QED
    BY <1>2, <1>4, <2>2, MoreTransients
<1>5a. \A kinds : "none" \notin kinds => HolderAdded(h2, h, t, r, kinds)
  BY <1>2, <1>4, OneMoreHolder
<1>6. Cardinality(Holders(h2, {"cold"})) = c
  <2>1. /\ Cardinality(Holders(h2, {"cold"})) \in Nat
        /\ Cardinality(Holders(h, {"cold"}))
             = Cardinality(Holders(h2, {"cold"})) + (IF r.kind \in {"cold"} THEN 1 ELSE 0)
    <3>1. HolderAdded(h2, h, t, r, {"cold"})
      BY <1>5a
    <3> QED
      BY <3>1, Zenon DEF HolderAdded
  <2>2. g.cold_reservations = Cardinality(Holders(h, {"cold"}))
    BY DEF Ledger
  <2>3. CASE r.kind = "cold"
    BY <2>1, <2>2, <2>3 DEF Minus, Most
  <2>4. CASE r.kind # "cold"
    BY <1>1, <2>1, <2>2, <2>4
  <2> QED
    BY <2>3, <2>4
<1>7. /\ Cardinality(Holders(h2, Prefills)) = p
      /\ last => Holders(h2, Prefills) = {}
      /\ (Holders(h2, Prefills) = {} /\ ~last) => g.growth_reserved = 0
  <2>1. "none" \notin Prefills
    BY DEF Prefills
  <2>2. /\ IsFiniteSet(Holders(h2, Prefills)) /\ Cardinality(Holders(h2, Prefills)) \in Nat
        /\ Cardinality(Holders(h, Prefills))
             = Cardinality(Holders(h2, Prefills)) + (IF r.kind \in Prefills THEN 1 ELSE 0)
        /\ Holders(h2, Prefills) = Holders(h, Prefills) \ {t}
        /\ (t \in Holders(h, Prefills) <=> r.kind \in Prefills)
    <3>1. HolderAdded(h2, h, t, r, Prefills)
      BY <1>5a, <2>1
    <3> QED
      BY <3>1, Zenon DEF HolderAdded
  <2>3. g.prefill_reservations = Cardinality(Holders(h, Prefills))
    BY DEF Ledger
  <2>4. Cardinality(Holders(h2, Prefills)) = 0 <=> Holders(h2, Prefills) = {}
    BY <2>2, FS_EmptySet
  <2>5. Holders(h, Prefills) = {} => g.growth_reserved = 0
    BY DEF Ledger
  <2>6. CASE r.kind \in Prefills
    <3>0. g.prefill_reservations = Cardinality(Holders(h2, Prefills)) + 1
      BY <2>2, <2>3, <2>6
    <3>1. p = g.prefill_reservations - 1
      BY <2>2, <2>6, <3>0 DEF Minus, Most
    <3> HIDE DEF p
    <3> QED
      BY <1>1, <2>2, <2>3, <2>4, <2>6, <3>1
  <2>7. CASE r.kind \notin Prefills
    <3>1. Holders(h2, Prefills) = Holders(h, Prefills)
      BY <2>2, <2>7
    <3> QED
      BY <2>3, <2>5, <2>7, <3>1
  <2> QED
    BY <2>6, <2>7
<1>8. n = w + Cardinality(Transients(h2)) /\ n \in Nat /\ w \in Nat
  <2>1. g.reserved = g.growth_reserved + Cardinality(Transients(h2)) + freed
    BY <1>1, <1>2, <1>3, <1>5 DEF Ledger
  <2> HIDE DEF freed, last
  <2>2. Minus(g.reserved, freed) = g.growth_reserved + Cardinality(Transients(h2))
    BY <1>1, <1>3, <1>5, <2>1 DEF Minus, Most
  <2> QED
    BY <1>1, <1>5, <2>2 DEF Minus, Most
<1>9. c \in Nat /\ p \in Nat
  BY <1>1 DEF Minus, Most
<1>10. Release(g, h[t]) = ApplyCacheBudget(freed_g)
  BY Zenon DEF Release, r
<1>11. Holders(h2, Prefills) = {} => w = 0
  BY <1>7
<1> HIDE DEF n, c, p, w
<1>12. /\ freed_g \in Governors /\ freed_g.reserved = n /\ freed_g.cold_reservations = c
       /\ freed_g.prefill_reservations = p /\ freed_g.growth_reserved = w
  BY <1>8, <1>9, Zenon DEF Governors
<1> HIDE DEF freed_g
<1>13. \A u \in Threads : h2[u].growth <= h2[u].bytes
                          /\ (h2[u].kind \notin Prefills => h2[u].growth = 0)
  BY DEF Ledger, NoReservation, h2
<1>14. Ledger(freed_g, h2)
  BY <1>5, <1>6, <1>7, <1>8, <1>11, <1>12, <1>13 DEF Ledger
<1> QED
  BY <1>10, <1>12, <1>14, BudgetSame, LedgerKept DEF h2

\* No step leaves a reservation uncounted, or counts one that is gone.
LEMMA LedgerStep ==
  ASSUME Governed, ThreadsOK, Tracked, Ledger(gov, held), [Next]_vars
  PROVE  Ledger(gov', held')
<1>0. gov \in Governors /\ Within(gov) /\ held \in [Threads -> Reservations]
  BY DEF Governed, ThreadsOK
<1>1. ASSUME SameLedger(gov, gov'), UNCHANGED held PROVE Ledger(gov', held')
  <2>1. held' = held
    BY <1>1
  <2>2. Ledger(gov', held)
    BY <1>1, LedgerKept
  <2> QED
    BY <2>1, <2>2
<1>2. (UNCHANGED gov \/ SamplesNow \/ Refreshes \/ gov' = Checked(gov))
        => SameLedger(gov, gov')
  <2>1. UNCHANGED gov => SameLedger(gov, gov')
    BY DEF SameLedger
  <2>2. Refreshes => SameLedger(gov, gov')
    BY RefreshSound
  <2>3. gov' = Checked(gov) => SameLedger(gov, gov')
    BY <1>0, CheckedSound
  <2> QED
    BY <2>1, <2>2, <2>3 DEF SamplesNow
<1>3. CASE Tick
  <2> DEFINE a == IF gov.age = "fresh" THEN "due" ELSE "stale"
  <2>1. gov' = [gov EXCEPT !.age = a] /\ UNCHANGED held
    BY <1>3, Zenon DEF Tick
  <2> HIDE DEF a
  <2>2. SameLedger(gov, gov')
    BY <1>0, <2>1, Zenon DEF SameLedger, Governors
  <2> QED
    BY <1>1, <2>1, <2>2
<1>4. CASE MonitorSamples \/ Observe \/ UNCHANGED vars
  BY <1>1, <1>2, <1>4 DEF MonitorSamples, Observe, vars
<1>5. ASSUME NEW t \in Threads,
             \/ Call(t) \/ Begin(t) \/ Mark(t) \/ Sample(t) \/ Plan(t)
             \/ Refresh(t) \/ CommitCold(t) \/ Settle(t)
      PROVE  Ledger(gov', held')
  BY <1>1, <1>2, <1>5, Zenon
     DEF Call, Begin, Mark, Sample, Plan, Refresh, CommitCold, Settle
<1>6. ASSUME NEW t \in Threads, TryReserve(t) PROVE Ledger(gov', held')
  <2> DEFINE k == job[t].kind
             b == IF k = "plan" THEN job[t].chunk ELSE job[t].bytes
             r == [kind |-> k, bytes |-> Charge(gov, b, k), growth |-> Charge(gov, b, k) - b]
  <2>1. b \in Nat /\ k \in Kind \cup {"none"}
    BY DEF ThreadsOK, Calls
  <2>2. held[t] = NoReservation
    BY <1>6 DEF TryReserve, Tracked, Placed
  <2>3. CASE /\ Reservable(Checked(gov), b, k)
             /\ gov' = Reserve(Checked(gov), b, k)
             /\ held' = [held EXCEPT ![t] =
                  [kind |-> k, bytes |-> Charge(Checked(gov), b, k),
                   growth |-> Charge(Checked(gov), b, k) - b]]
    <3>1. Checked(gov) = gov
      BY <1>0, <2>3, CheckedSound DEF Reservable
    <3>2. gov' = Reserve(gov, b, k) /\ held' = [held EXCEPT ![t] = r]
      BY <2>3, <3>1
    <3> HIDE DEF b, k
    <3>3. PICK q : q = r
      OBVIOUS
    <3>4. Ledger(Reserve(gov, b, k), [held EXCEPT ![t] = q])
      BY <1>0, <2>1, <2>2, <3>3, ReserveLedger
    <3> QED
      BY <3>2, <3>3, <3>4, Zenon
  <2>4. CASE gov' = Checked(gov) /\ UNCHANGED held
    BY <1>1, <1>2, <2>4
  <2> QED
    BY <1>6, <2>3, <2>4, Zenon DEF TryReserve
<1>7. ASSUME NEW t \in Threads, GiveBack(t) PROVE Ledger(gov', held')
  <2>1. held' = [held EXCEPT ![t] = NoReservation]
    BY <1>7 DEF GiveBack
  <2>2. CASE held[t] = NoReservation
    <3>1. gov' = gov /\ held' = held
      BY <1>0, <1>7, <2>1, <2>2 DEF GiveBack
    <3> QED
      BY <1>1, <1>2, <3>1
  <2>3. CASE held[t] # NoReservation
    <3>1. gov' = Release(gov, held[t])
      BY <1>7, <2>3 DEF GiveBack
    <3> QED
      BY <1>0, <2>1, <3>1, ReleaseLedger
  <2> QED
    BY <2>2, <2>3
<1> QED
  BY <1>3, <1>4, <1>5, <1>6, <1>7, Zenon DEF Next, Goes

\* Nobody holds anything when the process starts.
LEMMA InitLedger == Init => Ledger(gov, held)
<1> SUFFICES ASSUME Init PROVE Ledger(gov, held)
  OBVIOUS
<1>1. \A t \in Threads : held[t] = NoReservation
  BY DEF Init
<1>2. Transients(held) = {}
  BY <1>1 DEF Transients, BytesOf, NoReservation
<1>3. \A kinds : "none" \notin kinds => Holders(held, kinds) = {}
  BY <1>1 DEF Holders, NoReservation
<1>4. Holders(held, {"cold"}) = {} /\ Holders(held, Prefills) = {}
  BY <1>3 DEF Prefills
<1>5. /\ gov.reserved = 0 /\ gov.growth_reserved = 0
      /\ gov.cold_reservations = 0 /\ gov.prefill_reservations = 0
  BY DEF Init
<1> QED
  BY <1>1, <1>2, <1>4, <1>5, FS_EmptySet DEF Ledger, NoReservation

-----------------------------------------------------------------------------
(* The theorems                                                            *)

Inv == Governed /\ ThreadsOK /\ Tracked

\* The state the process starts in.
LEMMA InitInv == Init => Inv
<1> SUFFICES ASSUME Init PROVE Inv
  OBVIOUS
<1>1. PromotionSamples \in Nat \ {0} /\ RecoverySamples \in Nat \ {0}
  BY GovernorAssumption
<1>2. Governed
  <2>1. gov \in Governors
    BY <1>1 DEF Init, Governors
  <2>2. low_run \in 0..RecoverySamples /\ high_run \in Levels \X (0..PromotionSamples)
    BY <1>1 DEF Init
  <2>3. Within(gov)
    BY DEF Init, Within
  <2>4. Counted(gov, low_run, high_run[1], high_run[2])
    BY <1>1 DEF Init, Counted
  <2> QED
    BY <2>1, <2>2, <2>3, <2>4 DEF Governed
<1>3. ThreadsOK
  BY DEF Init, ThreadsOK, NoCall, Calls, NoReservation, Reservations
<1>4. Tracked
  BY DEF Init, Tracked, Owners, Placed, SleepersAwaited, NoCall
<1> QED
  BY <1>2, <1>3, <1>4 DEF Inv

\* Every step keeps the invariant, and moves the level as the counts allow.
LEMMA StepInv == Inv /\ [Next]_vars => Inv' /\ MovesWell
<1> SUFFICES ASSUME Inv, [Next]_vars PROVE Inv' /\ MovesWell
  OBVIOUS
<1>1. Governed /\ ThreadsOK /\ Tracked
  BY DEF Inv
<1>2. Governed' /\ MovesWell
  BY <1>1, GovernorStep
<1>3. ASSUME UNCHANGED <<comp, pc, job, owned, held>> PROVE ThreadsOK' /\ Tracked'
  BY <1>1, <1>3 DEF ThreadsOK, Tracked, Owners, Placed, SleepersAwaited
<1>4. ASSUME Tick \/ MonitorSamples \/ Observe \/ UNCHANGED vars
      PROVE  ThreadsOK' /\ Tracked'
  <2>1. UNCHANGED <<comp, pc, job, owned, held>>
    BY <1>4 DEF Tick, MonitorSamples, Observe, vars
  <2> QED
    BY <1>3, <2>1
<1>5. ASSUME NEW t \in Threads, Call(t) \/ CommitCold(t) \/ Goes(t)
      PROVE  ThreadsOK' /\ Tracked'
  BY <1>1, <1>5, CallTracked, RefreshTracked, PlanTracked, TryReserveTracked,
     GiveBackTracked, BeginTracked, MarkTracked, Zenon DEF Goes
<1>6. ThreadsOK' /\ Tracked'
  BY <1>4, <1>5, Zenon DEF Next
<1> QED
  BY <1>2, <1>6 DEF Inv

\* The inductive invariant holds in every reachable state of the governor.
THEOREM Invariant == Spec => []Inv
BY InitInv, StepInv, PTL DEF Spec

(* The state is what TypeOK says, for any number of threads: in particular no
   counter of samples passes its threshold. *)
THEOREM GovernorTypeCorrect == Spec => []TypeOK
<1>1. Inv => TypeOK
  BY DEF Inv, Governed, ThreadsOK, TypeOK, Governors, Reservations
<1> QED
  BY <1>1, Invariant, PTL

(* No order of samples, stale readings, reservations and releases leaves the
   allocator a cache budget above the headroom (apply_mlx_cache_budget_locked). *)
THEOREM BudgetFits == Spec => []CacheWithinTarget
<1>1. Inv => CacheWithinTarget
  BY DEF Inv, Governed, Within, CacheWithinTarget
<1> QED
  BY <1>1, Invariant, PTL

(* The pressure level falls by one after RecoverySamples low samples in a row and
   rises only on an emergency, on failed telemetry or after PromotionSamples samples
   in a row, for every value of the two thresholds (advance_pressure_state). *)
THEOREM LevelIsSlow == Spec => LevelMovesSlowly
<1> DEFINE Slowly ==
      /\ gov'.level < gov.level =>
           gov'.level = gov.level - 1 /\ low_run' = RecoverySamples
      /\ gov'.level > gov.level =>
           \/ gov'.level = Emergency /\ high_run'[1] = Emergency
           \/ gov'.level = Soft /\ gov'.degraded
           \/ high_run' = <<gov'.level, PromotionSamples>>
<1>1. Inv /\ [Next]_vars => Slowly
  <2> SUFFICES ASSUME Inv, [Next]_vars PROVE Slowly
    OBVIOUS
  <2>1. Inv' /\ MovesWell
    BY StepInv
  <2>2. high_run' = <<high_run'[1], high_run'[2]>>
    BY <2>1 DEF Inv, Governed
  <2> QED
    BY <2>1, <2>2 DEF MovesWell, Moves
<1> HIDE DEF Slowly
<1>2. Spec => [][Slowly]_vars
  BY <1>1, Invariant, PTL DEF Spec
<1> QED
  BY <1>2 DEF LevelMovesSlowly, Slowly

(* Each component that is being warmed has exactly one owner, whose call is past its
   claim and will mark it (ColdMaterializationTracker). *)
THEOREM OneOwner == Spec => []WarmingOwned
<1>1. Inv => WarmingOwned
  BY DEF Inv, Tracked, Owners, Placed, WarmingOwned
<1> QED
  BY <1>1, Invariant, PTL

(* Nobody goes ahead on weights another call is still paging in, and whoever warms
   has reserved the bytes (begin_inner, commit, rollback). *)
THEOREM NeverCold == Spec => []WarmBeforeUse
<1>1. Inv => WarmBeforeUse
  BY DEF Inv, Tracked, Placed, WarmBeforeUse
<1> QED
  BY <1>1, Invariant, PTL

(* A call that sleeps in begin waits for a component that another call owns, so the
   mark that frees it also wakes the sleeper. *)
THEOREM NoLostWake == Spec => []SleepersAwaited
<1>1. Inv => SleepersAwaited
  BY DEF Inv, Tracked
<1> QED
  BY <1>1, Invariant, PTL

(* The governor's counters are the totals of the reservations alive, in whatever
   order the actors take them and drop them, and the cache growth the first prefill
   paid for is given back with the last (try_reserve_inner, release_reservation). *)
THEOREM ReservationsCounted == Spec => []ReservedExact
<1> DEFINE Counts == Ledger(gov, held)
<1>1. Init => Counts
  BY InitLedger
<1>2. Inv /\ Counts /\ [Next]_vars => Counts'
  BY LedgerStep DEF Inv
<1>3. Counts => ReservedExact
  BY DEF Ledger, ReservedExact, Transients, BytesOf, Holders
<1> HIDE DEF Counts
<1> QED
  BY <1>1, <1>2, <1>3, Invariant, PTL DEF Spec

=============================================================================
