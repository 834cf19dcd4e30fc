------------------------------ MODULE PagedKV ------------------------------
(***************************************************************************)
(* The paged K/V cache of one full-attention layer (core/cache/paged_kv.rs *)
(* through KVCache of core/cache/kv_cache.rs): pages with reference        *)
(* counts, the block table of each owner, compact execution rows that are  *)
(* working copies of the tables, and pins of the shared prefix pool.       *)
(*                                                                         *)
(* A cache is a record, an operation an operator from cache to cache.  All *)
(* layers of a model go through the same calls, so one stands for all.     *)
(* The K/V of a position depend on every token up to it: a page holds the  *)
(* token prefix up to its last written position, and is forgotten when it  *)
(* is freed.  The free list is the set of pages with no reference; which   *)
(* one is taken, page generations, tensor growth, capacities and hot/cold  *)
(* tiering are left out.                                                   *)
(***************************************************************************)
EXTENDS Integers, Sequences, SequencesExt

CONSTANTS
  Requests,     \* each is the owner of a block table
  NoRequest,    \* the transient owner of a row whose own owner is gone
  Pages,        \* max_pages of them
  BlockSize     \* positions of a page

ASSUME KVAssumption ==
  /\ IsFiniteSet(Requests) /\ NoRequest \notin Requests
  /\ IsFiniteSet(Pages)
  /\ BlockSize \in Nat \ {0}

Blocks(n) == (n + BlockSize - 1) \div BlockSize
Prefix(text, n) == SubSeq(text, 1, n)

EmptyTable == [blocks |-> <<>>, offset |-> 0]
EmptyRow == [owner |-> NoRequest, blocks |-> <<>>, offset |-> 0]

(* A cache with no page in use and no row bound yet. *)
NewCache ==
  [ref   |-> [p \in Pages |-> 0],
   holds |-> [p \in Pages |-> <<>>],
   table |-> [o \in Requests |-> EmptyTable],
   rows  |-> <<>>,            \* execution_rows
   pins  |-> <<>>]            \* immutable_pins: no block is pinned

(* allocate_page takes any page without a reference. *)
FreePages(kv) == {p \in Pages : kv.ref[p] = 0}
Allocated(kv) == CHOOSE p \in FreePages(kv) : TRUE

(* release_page_ref for each page of a set *)
Unref(kv, pages) ==
  [kv EXCEPT !.ref = [p \in Pages |-> IF p \in pages THEN @[p] - 1 ELSE @[p]],
             !.holds = [p \in Pages |-> IF p \in pages /\ kv.ref[p] = 1 THEN <<>> ELSE @[p]]]

AddRef(kv, pages) ==
  [kv EXCEPT !.ref = [p \in Pages |-> IF p \in pages THEN @[p] + 1 ELSE @[p]]]

(* Rows bound to owner o: at most one. *)
RowsOf(kv, o) == {i \in DOMAIN kv.rows : kv.rows[i].owner = o}

(* commit_execution_rows: the rows' tables become their owners' tables. *)
Commit(kv) ==
  [kv EXCEPT !.table = [o \in Requests |->
     IF RowsOf(kv, o) = {} THEN @[o]
     ELSE LET i == CHOOSE j \in RowsOf(kv, o) : TRUE
          IN [blocks |-> kv.rows[i].blocks, offset |-> kv.rows[i].offset]]]

RowFor(kv, o) == [owner |-> o, blocks |-> kv.table[o].blocks, offset |-> kv.table[o].offset]

(* Rows of owner o show its table again. *)
Refresh(kv, o) ==
  [kv EXCEPT !.rows = [i \in DOMAIN @ |-> IF @[i].owner = o THEN RowFor(kv, o) ELSE @[i]]]

(* bind_execution_rows, also at the end of reuse_paged_storage_from *)
Bind(kv, owners) ==
  LET c == Commit(kv)
  IN [c EXCEPT !.rows = [i \in DOMAIN owners |-> RowFor(c, owners[i])]]

(* Mutant: the owner's pages go, its row keeps them. *)
ReleaseKeepsRow(kv, o) ==
  LET c == Commit(kv)
  IN [Unref(c, ToSet(c.table[o].blocks)) EXCEPT !.table[o] = EmptyTable]

(* release_owner of a request; a request without a table has nothing to release. *)
ReleaseOwner(kv, o) ==
  LET c == Commit(kv)
  IN [Unref(c, ToSet(c.table[o].blocks))
        EXCEPT !.table[o] = EmptyTable,
               !.rows = [i \in DOMAIN @ |-> IF @[i].owner = o THEN EmptyRow ELSE @[i]]]

(* Mutant: the shared pages are not counted again. *)
ForkUncounted(kv, source, destination) ==
  LET c == Commit(kv)
  IN Refresh([c EXCEPT !.table[destination] = c.table[source]], destination)

(* fork_owner: the destination, empty so far, shares every page. *)
ForkOwner(kv, source, destination) ==
  LET c == Commit(kv)
      f == [AddRef(c, ToSet(c.table[source].blocks))
              EXCEPT !.table[destination] = c.table[source]]
  IN Refresh(f, destination)

-----------------------------------------------------------------------------
(* Pins *)

WithPin(pins, id, page) ==
  [i \in DOMAIN pins \cup {id} |-> IF i = id THEN page ELSE pins[i]]

(* pin_immutable_block: the k-th block of `source', which it has filled *)
PinBlock(kv, id, source, k) ==
  LET page == kv.table[source].blocks[k]
  IN [AddRef(kv, {page}) EXCEPT !.pins = WithPin(@, id, page)]

(* install_immutable_block_from_prefix: a block read from the disk *)
InstallBlock(kv, id, text) ==
  LET page == Allocated(kv)
  IN [AddRef(kv, {page}) EXCEPT !.pins = WithPin(@, id, page), !.holds[page] = text]

(* release_owner of a pin *)
ReleasePin(kv, id) ==
  LET c == Commit(kv)
  IN [Unref(c, {c.pins[id]}) EXCEPT !.pins = [i \in DOMAIN @ \ {id} |-> @[i]]]

(* install_immutable_prefix: an empty owner starts with the pinned blocks. *)
InstallPrefix(kv, o, ids) ==
  LET c == Commit(kv)
      pages == [i \in DOMAIN ids |-> c.pins[ids[i]]]
      f == [AddRef(c, ToSet(pages))
              EXCEPT !.table[o] = [blocks |-> pages, offset |-> BlockSize * Len(ids)]]
  IN Refresh(f, o)

-----------------------------------------------------------------------------
(* Writes.  An attempt is a cache and whether every write so far found a page. *)

Attempt(kv) == [kv |-> kv, ok |-> TRUE]
Failed(kv) == [kv |-> kv, ok |-> FALSE]

(* Row i has `blocks' now; one page of them is counted `count' and holds `text'. *)
Store(kv, i, blocks, page, count, text) ==
  [kv EXCEPT !.ref[page] = count, !.rows[i].blocks = blocks, !.holds[page] = text]

(* Mutant: a shared page is written in place. *)
PutInPlace(kv, i, text) ==
  LET k == Blocks(Len(text))
      blocks == kv.rows[i].blocks
      page == blocks[k]
  IN CASE Len(blocks) >= k -> Attempt(Store(kv, i, blocks, page, kv.ref[page], text))
       [] Len(blocks) < k /\ FreePages(kv) = {} -> Failed(kv)
       [] OTHER -> Attempt(Store(kv, i, Append(blocks, Allocated(kv)), Allocated(kv), 1, text))

(* append_on, one position of row i: the last of `text'.  A page is allocated at
   a block boundary, and a shared one is cloned first and given up.  The earlier
   positions of the block are as they were: not this text's, and nothing is known. *)
Put(kv, i, text) ==
  LET k == Blocks(Len(text))
      blocks == kv.rows[i].blocks
      fresh == Len(blocks) < k
      shared == ~fresh /\ kv.ref[blocks[k]] > 1
      page == Allocated(kv)
      written == IF \/ (Len(text) - 1) % BlockSize = 0
                    \/ IsPrefix(Prefix(text, Len(text) - 1), kv.holds[blocks[k]])
                 THEN text ELSE <<>>
  IN CASE (fresh \/ shared) /\ FreePages(kv) = {} -> Failed(kv)
       [] fresh /\ FreePages(kv) # {} ->
            Attempt(Store(kv, i, Append(blocks, page), page, 1, written))
       [] shared /\ FreePages(kv) # {} ->
            Attempt(Store(Unref(kv, {blocks[k]}), i, [blocks EXCEPT ![k] = page], page, 1, written))
       [] OTHER -> Attempt(Store(kv, i, blocks, blocks[k], kv.ref[blocks[k]], written))

(* append_on for row i: `text' is what it has cached afterwards.  The offset moves
   once, when every position is written. *)
Advance(a, i, n) == IF a.ok THEN Attempt([a.kv EXCEPT !.rows[i].offset = n]) ELSE a
AppendRow(a, i, text) ==
  LET positions == [n \in 1..(Len(text) - a.kv.rows[i].offset) |-> a.kv.rows[i].offset + n]
      Write(b, n) == IF b.ok THEN Put(b.kv, i, Prefix(text, n)) ELSE b
  IN Advance(FoldLeft(Write, a, positions), i, Len(text))

(* Nothing is committed when a page is missing. *)
Committed(a) == IF a.ok THEN Attempt(Commit(a.kv)) ELSE a

(* append_on for all rows, in order *)
AppendRows(kv, texts) ==
  Committed(FoldLeft(LAMBDA a, i : AppendRow(a, i, texts[i]), Attempt(kv),
                     [i \in DOMAIN texts |-> i]))

(* release_row_pages, before a row is adopted *)
ClearRow(kv, i) ==
  [Unref(kv, ToSet(kv.rows[i].blocks)) EXCEPT !.rows[i].blocks = <<>>, !.rows[i].offset = 0]

(* adopt_row_from: row i copies a row of another cache that holds `text'. *)
AdoptRow(kv, i, text) == Committed(AppendRow(Attempt(ClearRow(kv, i)), i, text))

-----------------------------------------------------------------------------
(* What validate_owner_invariants checks.  It counts a page's references once more. *)
References(kv, p) ==
  Cardinality({o \in Requests : p \in ToSet(kv.table[o].blocks)})
    + Cardinality({id \in DOMAIN kv.pins : kv.pins[id] = p})

(* An owner's table, as its row has it when a row is bound to the owner *)
TableOf(kv, o) == Commit(kv).table[o]

(* The counts are exact, no table names a page twice, and no owner has two rows. *)
CountsExact(kv) == LET c == Commit(kv) IN \A p \in Pages : c.ref[p] = References(c, p)
NoPageTwice(kv) == \A o \in Requests : IsInjective(TableOf(kv, o).blocks)
OneRowEach(kv) ==
  \A i, j \in DOMAIN kv.rows :
    kv.rows[i].owner \in Requests /\ kv.rows[i].owner = kv.rows[j].owner => i = j

(* Pages that hold n positions of a text: each holds it up to its own last position. *)
Holds(kv, blocks, text, n) ==
  \A k \in 1..Blocks(n) :
    LET end == IF k * BlockSize < n THEN k * BlockSize ELSE n
    IN IsPrefix(Prefix(text, end), kv.holds[blocks[k]])

=============================================================================
