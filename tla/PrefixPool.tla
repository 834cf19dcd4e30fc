----------------------------- MODULE PrefixPool -----------------------------
(***************************************************************************)
(* The pool of immutable prefix blocks (ImmutablePrefixBlockPool of        *)
(* core/scheduler.rs): full blocks of prompts, pinned in the paged cache,  *)
(* that later prompts start from, evicted when pages or places are short   *)
(* and saved to the prefix store in the background.                        *)
(*                                                                         *)
(* An operation takes and returns what the scheduler keeps together:       *)
(* [kv |-> the cache, rows |-> cache_rows, pool, disk, queue].  A block is *)
(* named by its chain, the tokens from the prompt's start to the block's   *)
(* end: ids are never reused and a parent outlives its children, so the    *)
(* two name the same.  `lru' orders the entries by last_access.            *)
(***************************************************************************)
EXTENDS PagedKV, FiniteSets

CONSTANTS MaxBlocks      \* max_blocks

EmptyPool == [entries |-> <<>>, lru |-> <<>>, pending |-> {}]

Parent(chain) == Prefix(chain, Len(chain) - BlockSize)
Entries(w) == DOMAIN w.pool.entries
IsEmpty(w) == Entries(w) = {}
Touch(lru, chain) == Append(SelectSeq(lru, LAMBDA c : c # chain), chain)

(* One child more, or fewer, for the parent of a chain. *)
CountChild(entries, chain, n) ==
  [c \in DOMAIN entries |->
     IF c = Parent(chain) THEN [entries[c] EXCEPT !.child_count = @ + n] ELSE entries[c]]

(* A block enters the pool, pinned by the cache already. *)
Insert(w, chain) ==
  [w EXCEPT !.pool.entries = (chain :> [page |-> w.kv.pins[chain], child_count |-> 0])
                                @@ CountChild(@, chain, 1),
            !.pool.lru = Touch(@, chain)]

Unpool(w, chain) ==
  [w EXCEPT !.kv = ReleasePin(@, chain),
            !.pool.entries = CountChild([c \in DOMAIN @ \ {chain} |-> @[c]], chain, -1),
            !.pool.lru = SelectSeq(@, LAMBDA c : c # chain),
            !.pool.pending = @ \ {chain}]

-----------------------------------------------------------------------------
(* Eviction *)

(* Mutant: a block whose children are still in the pool is a candidate. *)
CandidatesWithChildren(w, protected) ==
  SelectSeq(w.pool.lru, LAMBDA c : c \notin protected
                                   /\ w.kv.ref[w.pool.entries[c].page] <= 1)

(* Leaves no request uses, least recently used first *)
Candidates(w, protected) ==
  SelectSeq(w.pool.lru,
            LAMBDA c : /\ w.pool.entries[c].child_count = 0 /\ c \notin protected
                       /\ w.kv.ref[w.pool.entries[c].page] <= 1)

(* evict_one_idle_immutable_leaf *)
EvictLeaf(w, protected) ==
  LET idle == Candidates(w, protected)
  IN IF idle = <<>> THEN w ELSE Unpool(w, Head(idle))

PagesFree(w) == Cardinality(FreePages(w.kv))

(* Evict leaves while fewer pages than that are free, or more blocks than `places'
   are in the pool, and a leaf can go. *)
EvictUntil(w, pages, places, protected) ==
  FoldLeft(LAMBDA v, i : IF PagesFree(v) < pages \/ Cardinality(Entries(v)) > places
                         THEN EvictLeaf(v, protected) ELSE v,
           w, w.pool.lru)

(* reclaim_idle_immutable_blocks_for_targets; a target is the length[o] that owner
   o is about to reach.  It fails when the pages cannot be found. *)
PagesFor(kv, o, length) ==
  LET have == Blocks(kv.table[o].offset)
      need == Blocks(length)
  IN IF need > have THEN need - have ELSE 0
Enough(w, required) == [w |-> w, ok |-> PagesFree(w) >= required]
Reclaim(w, length) ==
  LET required == FoldSet(LAMBDA o, n : n + PagesFor(w.kv, o, length[o]), 0, DOMAIN length)
  IN Enough(EvictUntil(w, required, MaxBlocks, {}), required)

(* reclaim_idle_immutable_blocks_to *)
ReclaimTo(w, target) == EvictUntil(w, 0, target, {})

-----------------------------------------------------------------------------
(* The store behind the pool *)

(* queue_immutable_block_store, and what publishing does with `pending'.  There is
   room in the background queue, or it pushes back: then the prompt's later blocks
   are not even looked up. *)
Save(w, chain, room) ==
  LET known == w.disk \cup w.queue
      refused == /\ ~room
                 /\ \E k \in 1..(Len(chain) - 1) :
                      k % BlockSize = 0 /\ Prefix(chain, k) \notin known
  IN IF chain \in w.disk /\ ~refused THEN [w EXCEPT !.pool.pending = @ \ {chain}]
     ELSE [w EXCEPT !.pool.pending = @ \cup {chain},
                    !.queue = IF room THEN @ \cup {chain} ELSE @]

(* A block needs a place in the pool; its parent does not make room for it. *)
Full(w) == Cardinality(Entries(w)) >= MaxBlocks
Parents(chain) == {Parent(chain)} \ {<<>>}
Place(w, chain) == EvictUntil(w, 0, MaxBlocks - 1, Parents(chain))

(* try_load_immutable_block_from_store: a hit needs a place and a page. *)
Page(w, chain) ==
  IF Full(w) THEN w ELSE EvictUntil(w, 1, MaxBlocks, Parents(chain))
Load(w, chain) ==
  IF Full(w) \/ PagesFree(w) < 1 THEN w
  ELSE Insert([w EXCEPT !.kv = InstallBlock(@, chain, chain)], chain)
TryLoad(w, chain) == Load(Page(Place(w, chain), chain), chain)

-----------------------------------------------------------------------------
(* Prompts *)

Chains(text, n) == [k \in 1..n |-> Prefix(text, k * BlockSize)]

(* restore_immutable_prefix_blocks: request r starts with the longest run of
   blocks found in the pool or loaded.  `readable' is what the store returns. *)
Reusable(n) == IF MaxBlocks = 0 THEN 0 ELSE n \div BlockSize
Present(w, chain) == Len(chain) = 0 \/ chain \in Entries(w)
Find(w, chain, readable) ==
  IF chain \notin Entries(w) /\ chain \in readable /\ Present(w, Parent(chain))
  THEN TryLoad(w, chain) ELSE w
StartWith(w, r, chains) ==
  LET hits == Prefix(chains, Cardinality({k \in DOMAIN chains :
                                            \A j \in 1..k : chains[j] \in Entries(w)}))
  IN IF hits = <<>> THEN w
     ELSE [w EXCEPT !.kv = InstallPrefix(@, r, hits), !.pool.lru = FoldLeft(Touch, @, hits)]
Restore(w, r, prompt, readable) ==
  LET chains == Chains(prompt, Reusable(Len(prompt) - 1))
  IN StartWith(FoldLeft(LAMBDA v, chain : Find(v, chain, readable), w, chains), r, chains)

(* publish_immutable_prefix_blocks: the full blocks of `text' that r has cached.
   It stops at a block that finds no place in the pool. *)
Pin(w, r, chain, room) ==
  IF Full(w) THEN w
  ELSE Save(Insert([w EXCEPT !.kv = PinBlock(@, chain, r, Len(chain) \div BlockSize)], chain),
            chain, room)
Add(w, r, chain, room) ==
  CASE chain \in Entries(w) -> Save([w EXCEPT !.pool.lru = Touch(@, chain)], chain, room)
    [] chain \notin Entries(w) /\ Present(w, Parent(chain)) -> Pin(Place(w, chain), r, chain, room)
    [] OTHER -> w
Publish(w, r, text, room) ==
  LET cached == w.kv.table[r].offset
      length == IF Len(text) < cached THEN Len(text) ELSE cached
  IN FoldLeft(LAMBDA v, chain : Add(v, r, chain, room), w, Chains(text, Reusable(length)))

=============================================================================
