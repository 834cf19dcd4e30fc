--------------------------- MODULE PagedScheduler ---------------------------
(***************************************************************************)
(* The scheduler's use of the paged K/V cache and of the prefix pool       *)
(* (core/scheduler.rs): block tables of running requests and the compact   *)
(* execution layout, through admission, prefill, mid-batch admission in    *)
(* place or in a temporary cache, decode, fork, parking and restoring,     *)
(* hang-ups, memory pressure and failing forwards.                         *)
(*                                                                         *)
(* One driver thread makes every call, in the order the driver loop makes  *)
(* them; only the prefix store's worker runs beside it.  When memory       *)
(* pressure strikes is free.  Whole-prompt prefix caches, MLA and linear   *)
(* layers, TurboQuant, images and speculative decoding are left out, so    *)
(* the cache is FullPaged throughout.  The model starts no further batch   *)
(* where a pool with blocks has outlived its cache.                        *)
(***************************************************************************)
EXTENDS PrefixPool

CONSTANTS
  Prompt,         \* request -> prompt_ids
  MaxNew,         \* request -> max_new_tokens
  Sampled,        \* request -> the token its sampler draws
  BMax,           \* b_max
  NoCache,        \* Scheduler.cache is None
  HangUps,        \* requests whose client may leave
  Forks,          \* requests that are admitted to be forked into
  ChunkSizes,     \* tokens a mid-admit chunk may have
  MaxFaults       \* forwards that fail

ASSUME PagedAssumption ==
  /\ BMax \in Nat \ {0}
  /\ MaxBlocks \in Nat /\ MaxBlocks + BMax = Cardinality(Pages)
  /\ \A r \in Requests : Prompt[r] \in Seq(Nat) \ {<<>>}
                         /\ MaxNew[r] \in Nat /\ Sampled[r] \in Nat
  /\ HangUps \cup Forks \subseteq Requests /\ ChunkSizes \subseteq Nat \ {0}
  /\ MaxFaults \in Nat

VARIABLES
  paged,   \* kv: the cache or NoCache; rows: cache_rows; pool: the prefix pool;
           \* disk, queue: blocks the prefix store has saved and has yet to save;
           \* lost, a history variable: a rollback has dropped the cache, and the
           \* pool has had blocks, or rows have run, ever since
  slots,   \* row -> the request in it
  gen,     \* request -> generated_tokens
  phase,
  mid,     \* AdmitMidHandle of the admission in flight
  saved,   \* parked request -> cached_len of its payload
  ended,   \* requests answered, refused or dropped
  faults   \* forwards that have failed

vars == <<paged, slots, gen, phase, mid, saved, ended, faults>>

NoMid == [req |-> NoRequest, in_place |-> FALSE, start |-> 0, begun |-> FALSE]
Slots == 1..BMax
HasCache == paged.kv # NoCache
Occupied(s) == {i \in Slots : s[i] # NoRequest}
Running == {slots[i] : i \in Occupied(slots)}
Parked == DOMAIN saved
Unparked(r) == [q \in Parked \ {r} |-> saved[q]]
SlotOf(r) == CHOOSE i \in Slots : slots[i] = r
New(r) == r \notin Running \cup ended \cup Parked
Free == Slots \ Occupied(slots)
Text(r) == Prompt[r] \o gen[r]

(* A set of rows in ascending order *)
Ascending(rows) == SelectSeq([i \in Slots |-> i], LAMBDA i : i \in rows)
Decodable(i) == /\ slots[i] # NoRequest
                /\ gen[slots[i]] # <<>> /\ Len(gen[slots[i]]) < MaxNew[slots[i]]
ActiveRows == Ascending({i \in Slots : Decodable(i)})
Active == {slots[i] : i \in {j \in Slots : Decodable(j)}}

(* block_owners_for_rows, which fails when a row holds no request *)
OwnersOf(rows) == [n \in DOMAIN rows |-> slots[rows[n]]]
AllOwned(rows) == \A n \in DOMAIN rows : slots[rows[n]] # NoRequest

(* A token for each of rs; those that have then reached max_new_tokens.  What a
   request has generated is forgotten with its slot. *)
Emitted(rs) == [r \in Requests |-> IF r \in rs THEN Append(gen[r], Sampled[r]) ELSE gen[r]]
Done(g) == {r \in Running : g[r] # <<>> /\ Len(g[r]) >= MaxNew[r]}
Forget(g, rs) == [r \in Requests |-> IF r \in rs THEN <<>> ELSE g[r]]

-----------------------------------------------------------------------------
(* Parts of the calls *)

(* Vacated slots; what the phase becomes when the last one goes (evict,
   gc_finished_rows). *)
Vacate(rs) == [i \in Slots |-> IF slots[i] \in rs THEN NoRequest ELSE slots[i]]
PhaseWith(s) == IF Occupied(s) # {} THEN phase
                ELSE CASE phase = "Decoding" -> "Finished"
                       [] phase = "Admitting" -> "Idle"
                       [] OTHER -> phase

ReleaseAll(w, rs) ==
  IF w.kv = NoCache THEN w
  ELSE [w EXCEPT !.kv = FoldSet(LAMBDA r, kv : ReleaseOwner(kv, r), @, rs)]

(* evict: the table goes, cache_rows stays as it is. *)
EvictedFrom(w, r) ==
  /\ paged' = ReleaseAll(w, {r})
  /\ slots' = Vacate({r})
  /\ phase' = PhaseWith(Vacate({r}))
  /\ gen' = Forget(gen, {r})
  /\ ended' = ended \cup {r}

(* Mutant: an emptied batch keeps its layout. *)
ClearKeepsRows(w) ==
  LET r == ReleaseAll(w, Running)
  IN [r EXCEPT !.kv = IF IsEmpty(w) THEN NoCache ELSE @, !.lost = @ /\ ~IsEmpty(w)]

(* evict_all: every table goes, and the cache too unless the pool needs it. *)
Clear(w) ==
  LET r == ReleaseAll(w, Running)
  IN [r EXCEPT !.kv = IF IsEmpty(w) THEN NoCache ELSE @, !.rows = <<>>,
               !.lost = @ /\ ~IsEmpty(w)]

(* evict_all with the driver's cleanup after a failed batch *)
Abort(w) ==
  /\ paged' = Clear(w)
  /\ slots' = [i \in Slots |-> NoRequest]
  /\ gen' = [r \in Requests |-> <<>>]
  /\ ended' = ended \cup Running \cup Parked
  /\ saved' = <<>>
  /\ mid' = NoMid /\ phase' = "Idle"

(* Rows the layout can be rebuilt with *)
InLayout(w, rows) == w.rows = rows \/ (w.kv # NoCache /\ ToSet(rows) \subseteq ToSet(w.rows))

(* rebuild_cache_layout *)
Layout(w, rows) ==
  CASE w.rows = rows -> w
    [] w.rows # rows /\ rows = <<>> ->
         [w EXCEPT !.kv = IF IsEmpty(w) THEN NoCache ELSE @, !.rows = <<>>]
    [] OTHER -> [w EXCEPT !.kv = Bind(@, OwnersOf(rows)), !.rows = rows]

(* A call on what the scheduler keeps, that may have failed already, and a forward
   over the rows of the layout; request r has cached[r] in it afterwards. *)
Forward(a, cached) ==
  LET texts == [n \in DOMAIN a.w.rows |-> cached[slots[a.w.rows[n]]]]
      Stored(written) == [w |-> [a.w EXCEPT !.kv = written.kv], ok |-> written.ok]
  IN IF a.ok THEN Stored(AppendRows(a.w.kv, texts)) ELSE a

(* A forward may also fail by itself. *)
Faulty(fails, ok) ==
  /\ fails => ok
  /\ faults' = faults + (IF fails THEN 1 ELSE 0) /\ faults' <= MaxFaults

(* The first chunk of a mid-batch admission follows its start at once. *)
AtTurn == mid.req = NoRequest \/ mid.begun

-----------------------------------------------------------------------------
(* Admission and prefill *)

(* admit.  The driver admits to a fresh batch, when nothing is parked; a request
   made to be forked into joins a batch that decodes. *)
Admit(r) ==
  /\ New(r) /\ Free # {}
  /\ IF r \in Forks THEN phase = "Decoding" /\ AtTurn
     ELSE phase \in {"Idle", "Admitting"} /\ Parked = {} /\ ~paged.lost
  /\ slots' = [slots EXCEPT ![Min(Free)] = r]
  /\ phase' = IF phase = "Idle" THEN "Admitting" ELSE phase
  /\ UNCHANGED <<paged, gen, mid, saved, ended, faults>>

OccupiedRows == Ascending(Occupied(slots))

(* install_initial_cache_for_rows: the storage is kept for the pool. *)
CannotInstall(w) == w.rows # <<>> \/ (w.kv # NoCache /\ IsEmpty(w))
Install(w, rows) ==
  [w EXCEPT !.kv = Bind(IF @ = NoCache THEN NewCache ELSE @, OwnersOf(rows)), !.rows = rows]

Readable == SUBSET (paged.disk \cup paged.queue)

(* prefill_admitted of the driver's model: restore, reclaim, forward, publish. *)
PrefillForward(w) == Forward(Reclaim(w, [r \in Running |-> Len(Prompt[r])]), Prompt)
PrefillEnds(a, room, fails) ==
  LET PublishRow(w, i) ==
        Publish(w, slots[i], Prefix(Prompt[slots[i]], Len(Prompt[slots[i]]) - 1), room)
      g == Emitted(Running)
  IN /\ Faulty(fails, a.ok)
     /\ IF fails \/ ~a.ok THEN Abort(a.w)
        ELSE /\ paged' = FoldLeft(PublishRow, a.w, OccupiedRows)
             /\ gen' = g
             /\ phase' = IF Done(g) = Running THEN "Finished" ELSE "Decoding"
             /\ UNCHANGED <<slots, mid, saved, ended>>
Prefill(readable, room, fails) ==
  LET RestoreRow(w, i) == Restore(w, slots[i], Prompt[slots[i]], readable)
  IN /\ phase = "Admitting"
     /\ PrefillEnds(
          IF CannotInstall(paged) THEN [w |-> paged, ok |-> FALSE]
          ELSE PrefillForward(FoldLeft(RestoreRow, Install(paged, OccupiedRows), OccupiedRows)),
          room, fails)

-----------------------------------------------------------------------------
(* Decode *)

(* gc_finished_rows after a step that leaves w and g *)
Collect(w, g) ==
  LET gone == Done(g)
  IN /\ paged' = ReleaseAll(w, gone)
     /\ slots' = Vacate(gone)
     /\ phase' = PhaseWith(Vacate(gone))
     /\ gen' = Forget(g, gone)
     /\ ended' = ended \cup gone
     /\ UNCHANGED <<mid, saved>>

(* step and gc_finished_rows: the layout is made to fit, pages are found for the
   rows at a block's end, and each decodable row moves on by one position. *)
StepForward(w, rs) ==
  LET full == {r \in rs : w.kv.table[r].offset % BlockSize = 0}
  IN Forward(Reclaim(w, [r \in full |-> w.kv.table[r].offset + 1]),
             [r \in Requests |-> Text(r)])
StepEnds(a, rs, fails) ==
  /\ Faulty(fails, a.ok)
  /\ IF fails \/ ~a.ok THEN Abort(a.w) ELSE Collect(a.w, Emitted(rs))
Step(fails) ==
  /\ phase = "Decoding" /\ AtTurn
  /\ StepEnds(CASE ActiveRows = <<>> -> [w |-> paged, ok |-> TRUE]
                [] ActiveRows # <<>> /\ ~InLayout(paged, ActiveRows) -> [w |-> paged, ok |-> FALSE]
                [] OTHER -> StepForward(Layout(paged, ActiveRows), Active),
              Active, fails)

-----------------------------------------------------------------------------
(* Mid-batch admission *)

(* admit_mid_begin: a prompt whose prefix is in the pool continues in the main
   cache, any other in a temporary one.  Without a main cache it fails. *)
MidReady(w, r) ==
  IF w.kv.table[r].offset > 0 THEN Reclaim(w, r :> Len(Prompt[r]))
  ELSE [w |-> w, ok |-> TRUE]
MidBegins(a, r) ==
  IF a.ok
  THEN /\ paged' = a.w
       /\ slots' = [slots EXCEPT ![Min(Free)] = r]
       /\ mid' = [req |-> r, in_place |-> a.w.kv.table[r].offset > 0,
                  start |-> a.w.kv.table[r].offset, begun |-> FALSE]
       /\ UNCHANGED ended
  ELSE /\ paged' = ReleaseAll(a.w, {r}) /\ ended' = ended \cup {r}
       /\ UNCHANGED <<slots, mid>>
MidBegin(r, readable) ==
  /\ New(r) /\ r \notin Forks
  /\ phase = "Decoding" /\ mid = NoMid /\ Running # {} /\ Free # {}
  /\ MidBegins(IF HasCache THEN MidReady(Restore(paged, r, Prompt[r], readable), r)
               ELSE [w |-> paged, ok |-> FALSE], r)
  /\ UNCHANGED <<gen, phase, saved, faults>>

(* The last prompt token never shares a chunk with others. *)
ChunkEnd(n) ==
  LET length == Len(Prompt[mid.req])
      end == IF mid.start + n < length THEN mid.start + n ELSE length
  IN IF end = length /\ mid.start < length - 1 THEN length - 1 ELSE end

(* What a chunk comes to: the admission goes on, is complete, or is given up. *)
GoesOn(w, end) ==
  /\ paged' = w
  /\ mid' = [mid EXCEPT !.start = end, !.begun = TRUE]
  /\ UNCHANGED <<slots, gen, phase, ended>>
Completes(w) ==
  /\ paged' = w
  /\ gen' = Emitted({mid.req})
  /\ mid' = NoMid
  /\ UNCHANGED <<slots, phase, ended>>

(* Mutant: the handle of an admission that failed is kept. *)
GivesUpKeepsHandle(w) == EvictedFrom(w, mid.req) /\ UNCHANGED mid
GivesUp(w) == EvictedFrom(w, mid.req) /\ mid' = NoMid

(* include_fullpaged_owner_in_layout: row i joins the layout. *)
WithRow(rows, i) == Ascending({i} \cup ToSet(rows))
Include(w, i) ==
  LET rows == WithRow(w.rows, i) IN [w EXCEPT !.kv = Bind(@, OwnersOf(rows)), !.rows = rows]

(* Mutant: the layout's owners are not bound again. *)
WriteChunkUnbound(w, r, end) ==
  LET a == AppendRows(Bind(w.kv, <<r>>), <<Prefix(Prompt[r], end)>>)
  IN IF SlotOf(r) \in ToSet(w.rows) \/ ~AllOwned(w.rows) THEN [w |-> w, ok |-> FALSE]
     ELSE [w |-> [w EXCEPT !.kv = a.kv], ok |-> a.ok]

(* admit_mid_chunk_immutable_in_place: the row alone is bound for the chunk and
   the layout's owners are bound again, unless the destination is still in the
   layout or a row of it has lost its request. *)
WriteChunk(w, r, end) ==
  LET old == w.rows
      Back(written) ==
        [w |-> [w EXCEPT !.kv = IF old = <<>> THEN written.kv ELSE Bind(written.kv, OwnersOf(old))],
         ok |-> written.ok]
  IN IF SlotOf(r) \in ToSet(old) \/ ~AllOwned(old) THEN [w |-> w, ok |-> FALSE]
     ELSE Back(AppendRows(Bind(w.kv, <<r>>), <<Prefix(Prompt[r], end)>>))

(* install_cache_with_temp_row: the row is copied in beside the decodable ones.
   Its rollback has no owner to bind for a vacated row, and drops the cache. *)
Adopt(w, i) ==
  LET rows == WithRow(ActiveRows, i)
      n == CHOOSE k \in DOMAIN rows : rows[k] = i
      Undone(kv) ==
        IF AllOwned(w.rows)
        THEN [w EXCEPT !.kv = ReleaseOwner(Bind(kv, OwnersOf(w.rows)), slots[i])]
        ELSE [w EXCEPT !.kv = NoCache, !.rows = <<>>, !.lost = TRUE]
      Installed(adopted) ==
        IF adopted.ok /\ ToSet(ActiveRows) \subseteq ToSet(w.rows)
        THEN [w |-> [w EXCEPT !.kv = adopted.kv, !.rows = rows], ok |-> TRUE]
        ELSE [w |-> Undone(adopted.kv), ok |-> FALSE]
  IN Installed(AdoptRow(Bind(w.kv, OwnersOf(rows)), n, Prompt[slots[i]]))

(* admit_mid_chunk, and admit_mid_finalize after the last one *)
ChunkEnds(a, end, room, fails) ==
  LET r == mid.req
      text == Prefix(Prompt[r], Len(Prompt[r]) - 1)
  IN /\ Faulty(fails, a.ok)
     /\ CASE fails \/ ~a.ok -> GivesUp(a.w)
          [] ~fails /\ a.ok /\ end < Len(Prompt[r]) -> GoesOn(a.w, end)
          [] OTHER -> Completes(IF mid.in_place THEN Publish(Include(a.w, SlotOf(r)), r, text, room)
                                ELSE a.w)
MidChunk(n, room, fails) ==
  LET end == ChunkEnd(n)
  IN /\ mid.req # NoRequest
     /\ ChunkEnds(CASE mid.in_place -> WriteChunk(paged, mid.req, end)
                    [] ~mid.in_place /\ end = Len(Prompt[mid.req]) /\ ~fails ->
                         Adopt(paged, SlotOf(mid.req))
                    [] OTHER -> [w |-> paged, ok |-> TRUE],
                  end, room, fails)
     /\ UNCHANGED saved

-----------------------------------------------------------------------------
(* Leaving, forking, parking *)

(* The client of r hangs up: evict, which drops a mid-batch admission of it. *)
HangUp(r) ==
  /\ r \in HangUps \cap Running /\ (AtTurn \/ mid.req = r)
  /\ EvictedFrom(paged, r)
  /\ mid' = IF mid.req = r THEN NoMid ELSE mid
  /\ UNCHANGED <<saved, faults>>

(* discard_active_kv_request for a client that has gone *)
DiscardParked(r) ==
  /\ r \in HangUps \cap Parked /\ AtTurn
  /\ saved' = Unparked(r)
  /\ gen' = Forget(gen, {r})
  /\ ended' = ended \cup {r}
  /\ UNCHANGED <<paged, slots, phase, mid, faults>>

(* evict_all, when a batch is over *)
EvictAll ==
  /\ phase = "Finished" \/ (phase = "Decoding" /\ Running = {} /\ Parked = {})
  /\ paged' = Clear(paged)
  /\ slots' = [i \in Slots |-> NoRequest]
  /\ gen' = Forget(gen, Running)
  /\ ended' = ended \cup Running
  /\ phase' = "Idle"
  /\ UNCHANGED <<mid, saved, faults>>

(* fork_request_blocks: d takes over what s has cached and generated. *)
Fork(s, d) ==
  LET i == SlotOf(d)
      forked == [paged EXCEPT !.kv = ForkOwner(@, s, d)]
  IN /\ phase = "Decoding" /\ AtTurn
     /\ {s, d} \subseteq Running /\ s # d
     /\ Decodable(SlotOf(s)) /\ gen[d] = <<>> /\ d # mid.req
     /\ Prompt[s] = Prompt[d] /\ Len(gen[s]) < MaxNew[d]
     /\ SlotOf(s) \in ToSet(paged.rows) /\ AllOwned(WithRow(paged.rows, i))
     /\ paged' = Include(forked, i)
     /\ gen' = [gen EXCEPT ![d] = gen[s]]
     /\ UNCHANGED <<slots, phase, mid, saved, ended, faults>>

(* park_active_kv_request: the row goes to the store, its table is released. *)
Park(r) ==
  LET rest == SelectSeq(ActiveRows, LAMBDA i : slots[i] # r)
  IN /\ phase = "Decoding" /\ mid = NoMid
     /\ r \in Running /\ Decodable(SlotOf(r)) /\ SlotOf(r) \in ToSet(paged.rows)
     /\ saved' = [q \in Parked \cup {r} |-> IF q = r THEN paged.kv.table[r].offset ELSE saved[q]]
     /\ paged' = ReleaseAll(Layout(paged, rest), {r})
     /\ slots' = Vacate({r})
     /\ UNCHANGED <<gen, phase, mid, ended, faults>>

(* restore_active_kv_request of the handoff, when no row is occupied.  A failure
   ends the request and leaves what was reclaimed. *)
Readopted(w, r) ==
  AdoptRow(Bind(IF w.kv = NoCache THEN NewCache ELSE w.kv, <<r>>), 1, Prefix(Text(r), saved[r]))
UnparkEnds(w, row, r) ==
  IF row.ok
  THEN /\ paged' = [w EXCEPT !.kv = row.kv, !.rows = <<Min(Slots)>>]
       /\ slots' = [slots EXCEPT ![Min(Slots)] = r]
       /\ phase' = "Decoding"
       /\ UNCHANGED <<gen, ended>>
  ELSE /\ paged' = w
       /\ gen' = Forget(gen, {r}) /\ ended' = ended \cup {r}
       /\ UNCHANGED <<slots, phase>>
Unpark(r, fails) ==
  LET ready == IF HasCache THEN Reclaim(paged, r :> saved[r]).w ELSE paged
  IN /\ r \in Parked /\ Running = {} /\ phase \in {"Idle", "Decoding"} /\ ~paged.lost
     /\ Faulty(fails, TRUE)
     /\ saved' = Unparked(r)
     /\ UnparkEnds(IF fails THEN paged ELSE ready,
                   IF fails THEN Failed(paged.kv) ELSE Readopted(ready, r), r)
     /\ UNCHANGED mid

-----------------------------------------------------------------------------
(* Memory pressure and the prefix store *)

(* Mutant: an empty pool is enough for the cache to go. *)
ReclaimedWhileActive(w, emergency) ==
  [w EXCEPT !.kv = IF emergency /\ IsEmpty(w) THEN NoCache ELSE @]

(* apply_process_memory_pressure at Soft, Hard or Emergency, which keep so many
   quarters of the pool.  The level read again afterwards may be Emergency: then
   an unused cache goes, if no block is left in it. *)
Reclaimed(w, emergency) ==
  LET drop == emergency /\ Running = {} /\ IsEmpty(w) /\ w.rows = <<>>
  IN [w EXCEPT !.kv = IF drop THEN NoCache ELSE @]
Pressure(quarters, emergency) ==
  /\ phase # "Admitting" /\ AtTurn /\ HasCache
  /\ paged' = Reclaimed(ReclaimTo(paged, (Cardinality(Entries(paged)) * quarters + 3) \div 4),
                        emergency)
  /\ UNCHANGED <<slots, gen, phase, mid, saved, ended, faults>>

(* retry_pending_immutable_prefix_stores when the scheduler is idle; the queue
   may push back after any of them. *)
RetryStores(tried) ==
  /\ phase = "Idle" /\ HasCache
  /\ tried \subseteq paged.pool.pending
  /\ paged' = [paged EXCEPT !.pool.pending = @ \ (tried \cap paged.disk),
                            !.queue = @ \cup (tried \ paged.disk)]
  /\ UNCHANGED <<slots, gen, phase, mid, saved, ended, faults>>

(* The store's worker: a block of the queue is saved, or its job fails. *)
StoreWorker(chain, succeeds) ==
  /\ chain \in paged.queue
  /\ paged' = [paged EXCEPT !.queue = @ \ {chain},
                            !.disk = IF succeeds THEN @ \cup {chain} ELSE @]
  /\ UNCHANGED <<slots, gen, phase, mid, saved, ended, faults>>

-----------------------------------------------------------------------------
Init ==
  /\ paged = [kv |-> NoCache, rows |-> <<>>, pool |-> EmptyPool, disk |-> {}, queue |-> {},
             lost |-> FALSE]
  /\ slots = [i \in Slots |-> NoRequest]
  /\ gen = [r \in Requests |-> <<>>]
  /\ phase = "Idle" /\ mid = NoMid
  /\ saved = <<>>
  /\ ended = {} /\ faults = 0

Next ==
  \/ \E r \in Requests : Admit(r)
  \/ \E readable \in Readable, room, fails \in BOOLEAN : Prefill(readable, room, fails)
  \/ \E fails \in BOOLEAN : Step(fails)
  \/ \E r \in Requests, readable \in Readable : MidBegin(r, readable)
  \/ \E n \in ChunkSizes, room, fails \in BOOLEAN : MidChunk(n, room, fails)
  \/ \E r \in Requests : HangUp(r)
  \/ \E r \in Requests : DiscardParked(r)
  \/ EvictAll
  \/ \E s, d \in Requests : Fork(s, d)
  \/ \E r \in Requests : Park(r)
  \/ \E r \in Requests, fails \in BOOLEAN : Unpark(r, fails)
  \/ \E quarters \in {0, 1, 3}, emergency \in BOOLEAN : Pressure(quarters, emergency)
  \/ \E tried \in SUBSET paged.pool.pending : RetryStores(tried)
  \/ \E chain \in paged.queue, succeeds \in BOOLEAN : StoreWorker(chain, succeeds)

Spec == Init /\ [][Next]_vars

-----------------------------------------------------------------------------
(* Properties *)

(* Types of the state: a cache of pages, rows that name slots, a pool of prompt
   prefixes, a phase. *)
TypeOK ==
  /\ HasCache =>
       /\ paged.kv.ref \in [Pages -> 0..(Cardinality(Requests) + 1)]
       /\ \A o \in Requests : paged.kv.table[o].blocks \in Seq(Pages)
                              /\ Blocks(paged.kv.table[o].offset) = Len(paged.kv.table[o].blocks)
       /\ \A i \in DOMAIN paged.kv.rows : paged.kv.rows[i].owner \in Requests \cup {NoRequest}
  /\ paged.rows \in Seq(Slots) /\ IsInjective(paged.rows)
  /\ paged.pool.pending \subseteq Entries(paged)
  /\ slots \in [Slots -> Requests \cup {NoRequest}]
  /\ phase \in {"Idle", "Admitting", "Decoding", "Finished"}
  /\ phase = "Idle" => paged.rows = <<>>

(* A request is in one place: it runs in one slot, its payload is parked, it has
   ended, or it has not begun and has no token.  A mid-batch admission has its slot
   as long as its handle exists, whatever is parked, forked, hung up or finished
   between its chunks, and has no token yet.  An Idle scheduler runs nothing. *)
OnePlace ==
  /\ \A i, j \in Slots : slots[i] = slots[j] /\ slots[i] # NoRequest => i = j
  /\ Running \cap (ended \cup Parked) = {} /\ ended \cap Parked = {}
  /\ \A r \in Requests : New(r) => gen[r] = <<>>
  /\ mid.req # NoRequest => mid.req \in Running /\ gen[mid.req] = <<>> /\ phase = "Decoding"
  /\ phase = "Idle" => Running = {}

(* Page references are counted exactly (validate_owner_invariants): each page has
   as many references as tables and pins that hold it, so none is freed under an
   owner and none leaks when forks, restores, publications and evictions meet.  No
   table names a page twice and no request has two rows. *)
PagesExact ==
  HasCache => CountsExact(paged.kv) /\ NoPageTwice(paged.kv) /\ OneRowEach(paged.kv)

(* A request reads its own K/V: whatever pages it shares with a fork, a prefix or
   a page's former owner, they hold its own tokens up to what it has cached, and
   a decodable row has cached all but its last token. *)
OwnTokens ==
  \A r \in Running :
    HasCache =>
      LET table == paged.kv.table[r]
      IN /\ Holds(paged.kv, table.blocks, Text(r), table.offset)
         /\ Decodable(SlotOf(r)) => table.offset = Len(Text(r)) - 1

(* The prefix pool is a forest pinned in the cache (validate_immutable_prefix_pool_
   invariants): a block's parent is there and counts it, its page is pinned and
   holds its tokens, and the pool keeps to max_blocks.  Without a cache it is empty,
   unless a rollback has lost the cache (see PoolHasCache). *)
PoolSound ==
  /\ Cardinality(Entries(paged)) <= MaxBlocks
  /\ ToSet(paged.pool.lru) = Entries(paged)
  /\ ~IsEmpty(paged) => HasCache \/ paged.lost
  /\ HasCache => DOMAIN paged.kv.pins = Entries(paged)
  /\ \A c \in Entries(paged) :
       /\ Len(c) > BlockSize => Parent(c) \in Entries(paged)
       /\ paged.pool.entries[c].child_count =
            Cardinality({d \in Entries(paged) : Len(d) > BlockSize /\ Parent(d) = c})
       /\ HasCache => /\ paged.kv.pins[c] = paged.pool.entries[c].page
                      /\ paged.kv.holds[paged.pool.entries[c].page] = c

(* What validate_immutable_prefix_pool_invariants is called with: a pool that has
   blocks has a physical cache (scheduler.rs 6632-6635). *)
PoolHasCache == ~IsEmpty(paged) => HasCache

(* The execution layout follows the batch: while the batch decodes every decodable
   row has a place in cache_rows, and the row there shows its request's table, unless
   a rollback has lost the cache. *)
RowsBound ==
  phase = "Decoding" /\ ~paged.lost =>
    \A i \in Slots : Decodable(i) =>
      \E n \in DOMAIN paged.rows :
        paged.rows[n] = i /\ paged.kv.rows[n] = RowFor(paged.kv, slots[i])

(* A request that is gone holds nothing: finished, failed, parked or hung up, it
   has no page, and no row is bound to it. *)
GoneHoldNothing ==
  HasCache => \A r \in Requests \ Running :
                 paged.kv.table[r] = EmptyTable /\ RowsOf(paged.kv, r) = {}

(* What a request has cached is never lost while it runs: no other request's
   admission, fork, eviction or failure, and no reclaim, sets it back.  The one
   exception is the rollback that loses the cache of all of them. *)
CacheKept ==
  [][\A r \in Running \cap Running' :
       HasCache /\ paged.kv.table[r].offset > 0 /\ r \notin Done(gen) =>
         \/ HasCache' /\ paged'.kv.table[r].offset >= paged.kv.table[r].offset
         \/ ~paged.lost /\ paged'.lost]_vars

=============================================================================
