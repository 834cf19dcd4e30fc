--------------------------- MODULE SchedulerCore ---------------------------
(***************************************************************************)
(* The request life cycle kept by `Scheduler` (core/scheduler.rs): which   *)
(* requests hold a row, which of them have produced tokens, the phase of   *)
(* the batch, the poison flag, and the two ledgers that every admission    *)
(* charges: the KV budget and the process-memory reservations.             *)
(*                                                                         *)
(* The scheduler is one value owned by its driver thread, so a call is an  *)
(* operator from one scheduler state to the next.  SchedulerActor composes *)
(* these operators the way the driver loop composes the calls; this module *)
(* also closes them under an arbitrary caller (Spec), the widest use the   *)
(* public API allows a driver that parks and restores only while no batch  *)
(* is being assembled.                                                     *)
(***************************************************************************)
EXTENDS Naturals, FiniteSets

CONSTANTS
  Requests,       \* admissions; a RequestId is never issued twice
  BMax,           \* rows of the batch (b_max)
  MaxNew,         \* max_new_tokens of each request
  SessionFaults   \* requests whose grammar session cannot be started

ASSUME RequestsFinite == IsFiniteSet(Requests)
ASSUME BMaxPositive == BMax \in Nat \ {0}
ASSUME MaxNewNatural == MaxNew \in [Requests -> Nat]
ASSUME SessionFaultsAreRequests == SessionFaults \subseteq Requests

Phases == {"Idle", "Admitting", "Decoding", "Finished"}

(***************************************************************************)
(* rows: occupied slots.  tok: generated_tokens.len().  done: rows whose   *)
(* `finished` is set.  charged: requests whose kv_bytes_admitted are in    *)
(* budget_state.  reserved: keys of governor_admission_reservations.       *)
(***************************************************************************)
SchedulerStates ==
  [ phase    : Phases,
    poisoned : BOOLEAN,
    rows     : SUBSET Requests,
    tok      : [Requests -> Nat],
    done     : SUBSET Requests,
    charged  : SUBSET Requests,
    reserved : SUBSET Requests ]

NewScheduler ==
  [ phase    |-> "Idle",
    poisoned |-> FALSE,
    rows     |-> {},
    tok      |-> [r \in Requests |-> 0],
    done     |-> {},
    charged  |-> {},
    reserved |-> {} ]

-----------------------------------------------------------------------------
(* Calls.  Each operator is the state a call leaves behind.                *)

ActiveCount(s) == Cardinality(s.rows)

\* Rows a decode step advances: unfinished and past their first token.  The
\* row of a mid-admit in progress holds a slot and has no token yet.
Decodable(s) == {r \in s.rows \ s.done : s.tok[r] > 0}

\* Mutant of CanAdmit: one row too many.
CanAdmitOffByOne(s) == ~s.poisoned /\ s.phase # "Finished" /\ ActiveCount(s) <= BMax

\* The checks of `admit` that only look at the scheduler itself.
CanAdmit(s) ==
  /\ ~s.poisoned
  /\ s.phase # "Finished"
  /\ ActiveCount(s) < BMax

Admit(s, r) ==
  [s EXCEPT !.rows     = @ \union {r},
            !.charged  = @ \union {r},
            !.reserved = @ \union {r},
            !.phase    = IF @ = "Idle" THEN "Admitting" ELSE @]

\* `start_session()?` leaves after try_admit: the reservation is dropped with
\* its local variable, the budget charge is not.
AdmitSessionFails(s, r) == [s EXCEPT !.charged = @ \union {r}]

\* Mutant of Evict: the last row leaves and the batch is still being assembled.
EvictKeepsPhase(s, R) ==
  [s EXCEPT !.rows = @ \ R, !.done = @ \ R, !.charged = @ \ R, !.reserved = @ \ R]

\* `evict`, once per member of R.
Evict(s, R) ==
  [s EXCEPT !.rows     = @ \ R,
            !.done     = @ \ R,
            !.charged  = @ \ R,
            !.reserved = @ \ R,
            !.phase    = IF R = {} \/ s.rows \ R # {} THEN @
                         ELSE IF @ = "Admitting" THEN "Idle"
                         ELSE IF @ = "Decoding" THEN "Finished"
                         ELSE @]

\* `evict_all` refuses an Idle scheduler, and then clears nothing: not the
\* poison flag either.
EvictAll(s) ==
  IF s.phase = "Idle" THEN s
  ELSE [s EXCEPT !.rows     = {},
                 !.done     = {},
                 !.charged  = @ \ s.rows,
                 !.reserved = {},
                 !.phase    = "Idle",
                 !.poisoned = FALSE]

\* Mutant of PushTokens: the limit is checked with > instead of >=.
PushTokensPastLimit(s, R, eos) ==
  [s EXCEPT !.tok  = [r \in Requests |-> IF r \in R THEN @[r] + 1 ELSE @[r]],
            !.done = @ \union {r \in R : r \in eos \/ s.tok[r] + 1 > MaxNew[r]}]

\* Push one token to every row of R; a row ends at max_new_tokens or when
\* the token is a stop token (the rows of eos).
PushTokens(s, R, eos) ==
  [s EXCEPT !.tok  = [r \in Requests |-> IF r \in R THEN @[r] + 1 ELSE @[r]],
            !.done = @ \union {r \in R : r \in eos \/ s.tok[r] + 1 >= MaxNew[r]}]

CanPrefill(s) ==
  /\ ~s.poisoned
  /\ s.phase \in {"Idle", "Admitting"}
  /\ s.rows # {}

Prefill(s, eos) ==
  LET t == PushTokens(s, s.rows, eos)
  IN  [t EXCEPT !.reserved = {},
                !.phase = IF t.rows \subseteq t.done THEN "Finished" ELSE "Decoding"]

PrefillFails(s) == [s EXCEPT !.reserved = {}, !.poisoned = TRUE]

CanStep(s) == ~s.poisoned /\ s.phase = "Decoding"

\* With nothing to decode `step` returns before it looks at the phase.
Step(s, eos) ==
  IF Decodable(s) = {} THEN s
  ELSE LET t == PushTokens(s, Decodable(s), eos)
       IN  [t EXCEPT !.phase = IF t.rows \subseteq t.done THEN "Finished" ELSE @]

StepFails(s) == [s EXCEPT !.poisoned = TRUE]

GcFinishedRows(s) ==
  [s EXCEPT !.rows    = @ \ s.done,
            !.charged = @ \ s.done,
            !.done    = {},
            !.phase   = IF @ = "Decoding" /\ s.rows \subseteq s.done THEN "Finished"
                        ELSE @]

\* Mutant of FinalizeMid: commit_governor_admission is forgotten.
FinalizeMidUncommitted(s, r, eos) == PushTokens(s, {r}, eos)

\* The first token of a mid-admitted row.  Nothing here looks at the phase.
FinalizeMid(s, r, eos) ==
  [PushTokens(s, {r}, eos) EXCEPT !.reserved = @ \ {r}]

CanPark(s, r) == ~s.poisoned /\ r \in Decodable(s)

\* Mutant of Park: the parked request stays charged.
ParkKeepsCharge(s, r) == [s EXCEPT !.rows = @ \ {r}]

\* The phase stays what it was, even when the last row leaves.
Park(s, r) == [s EXCEPT !.rows = @ \ {r}, !.charged = @ \ {r}]

CanRestore(s, r) ==
  /\ ~s.poisoned
  /\ r \notin s.rows
  /\ ActiveCount(s) < BMax

Restore(s, r) ==
  [s EXCEPT !.rows    = @ \union {r},
            !.charged = @ \union {r},
            !.phase   = IF @ \in {"Idle", "Finished"} THEN "Decoding" ELSE @]

-----------------------------------------------------------------------------
(* The scheduler under an arbitrary caller.                                *)

VARIABLES
  sched,   \* the scheduler
  parked,  \* ActiveKvParkedRequest values the caller holds
  spent    \* requests already handed to admit

coreVars == <<sched, parked, spent>>

CoreInit ==
  /\ sched = NewScheduler
  /\ parked = {}
  /\ spent = {}

CallAdmit(r) ==
  /\ r \notin spent
  /\ spent' = spent \union {r}
  /\ CanAdmit(sched)
  /\ IF r \in SessionFaults
     THEN sched' = AdmitSessionFails(sched, r)
     ELSE sched' = Admit(sched, r)
  /\ UNCHANGED parked

CallEvict(r) ==
  /\ ~sched.poisoned
  /\ r \in sched.rows
  /\ sched' = Evict(sched, {r})
  /\ UNCHANGED <<parked, spent>>

CallEvictAll ==
  /\ sched' = EvictAll(sched)
  /\ UNCHANGED <<parked, spent>>

\* A failure poisons, an illegal phase or an empty batch included.
CallPrefill ==
  /\ ~sched.poisoned
  /\ \/ CanPrefill(sched) /\ \E eos \in SUBSET sched.rows : sched' = Prefill(sched, eos)
     \/ sched' = PrefillFails(sched)
  /\ UNCHANGED <<parked, spent>>

\* `step` outside Decoding is an error, and the error poisons.
CallStep ==
  /\ ~sched.poisoned
  /\ \/ CanStep(sched) /\ \E eos \in SUBSET Decodable(sched) : sched' = Step(sched, eos)
     \/ sched' = StepFails(sched)
  /\ UNCHANGED <<parked, spent>>

CallGc ==
  /\ sched' = GcFinishedRows(sched)
  /\ UNCHANGED <<parked, spent>>

\* admit_mid_finalize of a row that admit_mid_begin reserved.
CallFinalizeMid(r) ==
  /\ CanStep(sched)
  /\ r \in sched.rows
  /\ sched.tok[r] = 0
  /\ \E eos \in SUBSET {r} : sched' = FinalizeMid(sched, r, eos)
  /\ UNCHANGED <<parked, spent>>

CallPark(r) ==
  /\ CanPark(sched, r)
  /\ sched' = Park(sched, r)
  /\ parked' = parked \union {r}
  /\ UNCHANGED spent

CallRestore(r) ==
  /\ r \in parked
  /\ sched.phase # "Admitting"
  /\ CanRestore(sched, r)
  /\ sched' = Restore(sched, r)
  /\ parked' = parked \ {r}
  /\ UNCHANGED spent

CoreNext ==
  \/ \E r \in Requests :
       \/ CallAdmit(r) \/ CallEvict(r) \/ CallFinalizeMid(r)
       \/ CallPark(r)  \/ CallRestore(r)
  \/ CallEvictAll
  \/ CallPrefill
  \/ CallStep
  \/ CallGc

CoreSpec == CoreInit /\ [][CoreNext]_coreVars

-----------------------------------------------------------------------------
(* What the calls keep, whatever the caller does.                          *)

\* The slots are a vector of BMax entries.
CoreTypeOK ==
  /\ sched \in SchedulerStates
  /\ ActiveCount(sched) <= BMax
  /\ parked \subseteq Requests
  /\ spent \subseteq Requests

\* The KV budget is charged for exactly the requests that hold a row ("charged
\* at admit; released on slot clear"): admission, eviction, collection, parking
\* and restoring never charge twice, release twice or forget one.  The fault
\* path of a grammar session is the exception, and the only one.
BudgetFollowsRows == sched.charged \ SessionFaults = sched.rows

\* A process-memory reservation lives from admission to the first token of its
\* row and no longer: no row decodes on memory it still holds reserved, and no
\* reservation outlives its row.  (A poisoned scheduler awaits evict_all.)
ReservedUntilFirstToken ==
  ~sched.poisoned => sched.reserved = {r \in sched.rows : sched.tok[r] = 0}

\* The phase describes the rows: an Idle scheduler has none, a batch being
\* assembled has at least one and none has been prefilled, a Finished batch has
\* nothing left to decode.
PhaseDescribesRows ==
  /\ sched.phase = "Idle" => sched.rows = {}
  /\ sched.phase = "Admitting" =>
       sched.rows # {} /\ \A r \in sched.rows : sched.tok[r] = 0
  /\ sched.phase = "Finished" => sched.rows \subseteq sched.done

\* A row gets its first token before anything compares with max_new_tokens, so a
\* limit of 0 admits one token like a limit of 1.
Limit(r) == IF MaxNew[r] = 0 THEN 1 ELSE MaxNew[r]

\* No request gets a token after its last one, across parking, restoring and
\* the three ways a first token is produced, and a row that has its last one is
\* finished; a request that asked for none stops at one.
TokensWithinLimit ==
  \A r \in Requests :
    /\ sched.tok[r] <= Limit(r)
    /\ sched.tok[r] = Limit(r) /\ r \in sched.rows => r \in sched.done
=============================================================================
