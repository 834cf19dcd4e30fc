----------------------------- MODULE PagedCache -----------------------------
(***************************************************************************)
(* The paged K/V cache by itself: its calls (core/cache/paged_kv.rs), in   *)
(* any order a caller may make them, for any number of requests, pages and *)
(* pinned blocks.  The scheduler's use of it (PagedScheduler) is one such  *)
(* order.                                                                  *)
(*                                                                         *)
(* append_on is modelled position by position, the way its loops run: it   *)
(* may stop at any position for want of a page, and then nothing is undone *)
(* and nothing committed.  Between two rows of one append_on other calls   *)
(* are allowed, which the code never makes.                                *)
(*                                                                         *)
(* A pinned block is known by the tokens it stands for, as the prefix pool *)
(* keys its entries by them.                                               *)
(***************************************************************************)
EXTENDS PagedKV

CONSTANTS
  Vocab,        \* of tokens 1..Vocab
  MaxText       \* bound: positions of a text

(* What a request may have cached *)
Texts == UNION {[1..n -> 1..Vocab] : n \in 1..MaxText}

(* A pin's id: the tokens up to the end of its block *)
PinIds == {text \in Texts : Len(text) % BlockSize = 0}
Chain(text) == [k \in 1..Blocks(Len(text)) |-> Prefix(text, k * BlockSize)]

VARIABLES
  kv,
  write,        \* the row append_on is writing, its text, and the positions it has
  cached        \* what each owner has cached, up to its offset

vars == <<kv, write, cached>>

NoWrite == [row |-> 0, text |-> <<>>, at |-> 0]
Returned == write = NoWrite /\ UNCHANGED write

(* Sequences of members of S, none of them twice *)
Selections(S) == {q \in UNION {[1..n -> S] : n \in 1..Cardinality(S)} : IsInjective(q)}

(* Rows whose owners' tables are committed *)
Synced(c) ==
  \A i \in DOMAIN c.rows : c.rows[i].owner \in Requests => c.rows[i] = RowFor(c, c.rows[i].owner)

-----------------------------------------------------------------------------
(* Owners *)

(* bind_execution_rows refuses an owner given twice. *)
BindRows ==
  /\ Returned /\ UNCHANGED cached
  /\ \E owners \in Selections(Requests) : kv' = Bind(kv, owners)

Release(o) ==
  /\ Returned
  /\ kv' = ReleaseOwner(kv, o)
  /\ cached' = [cached EXCEPT ![o] = <<>>]

(* fork_owner: two owners, and the destination is empty. *)
Fork(source, destination) ==
  /\ Returned
  /\ source # destination /\ TableOf(kv, destination) = EmptyTable
  /\ kv' = ForkOwner(kv, source, destination)
  /\ cached' = [cached EXCEPT ![destination] = cached[source]]

-----------------------------------------------------------------------------
(* Pins *)

(* validate_immutable_block_pin: the source has filled the block.  It reads the
   committed table; publishing follows a forward that has succeeded. *)
Pin(id, source) ==
  /\ Returned /\ Synced(kv) /\ UNCHANGED cached
  /\ id \notin DOMAIN kv.pins
  /\ Len(id) <= kv.table[source].offset /\ IsPrefix(id, cached[source])
  /\ kv' = PinBlock(kv, id, source, Blocks(Len(id)))

LoadBlock(id) ==
  /\ Returned /\ UNCHANGED cached
  /\ id \notin DOMAIN kv.pins /\ FreePages(kv) # {}
  /\ kv' = InstallBlock(kv, id, id)

Unpin(id) == Returned /\ UNCHANGED cached /\ kv' = ReleasePin(kv, id)

(* validate_immutable_prefix_install: the owner is empty. *)
StartWithPins(o, text) ==
  /\ Returned
  /\ TableOf(kv, o) = EmptyTable /\ ToSet(Chain(text)) \subseteq DOMAIN kv.pins
  /\ kv' = InstallPrefix(kv, o, Chain(text))
  /\ cached' = [cached EXCEPT ![o] = text]

-----------------------------------------------------------------------------
(* Rows *)

(* adopt_row_from starts with the row's pages; every caller has bound an owner
   that has nothing cached to the row. *)
BeginAdopt(i) ==
  /\ Returned /\ UNCHANGED cached
  /\ kv.rows[i].owner \in Requests /\ kv.rows[i].offset = 0
  /\ kv' = ClearRow(kv, i)

(* append_on for row i: `text' goes on where its owner is. *)
BeginRow(i, text) ==
  /\ write = NoWrite
  /\ kv.rows[i].owner \in Requests
  /\ kv.rows[i].offset < Len(text) /\ IsPrefix(cached[kv.rows[i].owner], text)
  /\ write' = [row |-> i, text |-> text, at |-> kv.rows[i].offset]
  /\ UNCHANGED <<kv, cached>>

WritePosition ==
  LET put == Put(kv, write.row, Prefix(write.text, write.at + 1))
  IN /\ write # NoWrite /\ write.at < Len(write.text)
     /\ kv' = put.kv
     /\ write' = IF put.ok THEN [write EXCEPT !.at = @ + 1] ELSE NoWrite
     /\ UNCHANGED cached

EndRow ==
  /\ write # NoWrite /\ write.at = Len(write.text)
  /\ kv' = Advance(Attempt(kv), write.row, write.at).kv
  /\ write' = NoWrite
  /\ cached' = [cached EXCEPT ![kv.rows[write.row].owner] = write.text]

(* commit_execution_rows, at the end of append_on *)
CommitRows == Returned /\ UNCHANGED cached /\ kv' = Commit(kv)

-----------------------------------------------------------------------------
Init ==
  /\ kv = NewCache /\ write = NoWrite
  /\ cached = [o \in Requests |-> <<>>]

Next ==
  \/ BindRows
  \/ \E o \in Requests : Release(o)
  \/ \E s, d \in Requests : Fork(s, d)
  \/ \E id \in PinIds, o \in Requests : Pin(id, o)
  \/ \E id \in PinIds : LoadBlock(id)
  \/ \E id \in DOMAIN kv.pins : Unpin(id)
  \/ \E o \in Requests, text \in PinIds : StartWithPins(o, text)
  \/ \E i \in DOMAIN kv.rows : BeginAdopt(i)
  \/ \E i \in DOMAIN kv.rows, text \in Texts : BeginRow(i, text)
  \/ WritePosition
  \/ EndRow
  \/ CommitRows

Spec == Init /\ [][Next]_vars

-----------------------------------------------------------------------------
(* Properties *)

(* Types of the cache and of what append_on keeps while it runs. *)
PinSets == {ids \in SUBSET PinIds : IsFiniteSet(ids)}
Tables == [blocks : Seq(Pages), offset : Nat]
Rows == [owner : Requests \cup {NoRequest}, blocks : Seq(Pages), offset : Nat]
Caches ==
  [ref   : [Pages -> Nat],
   holds : [Pages -> Seq(Nat)],
   table : [Requests -> Tables],
   rows  : Seq(Rows),
   pins  : UNION {[ids -> Pages] : ids \in PinSets}]
TypeOK ==
  /\ kv \in Caches
  /\ write \in [row : Nat, text : Seq(Nat), at : Nat]
  /\ cached \in [Requests -> Seq(Nat)]

(* A page is counted once for each table and each pin that has it, whichever calls
   shared, cloned, released or abandoned it, and an append that stopped half way
   included; so no page in use is ever handed out again, and none is lost. *)
PagesExact == CountsExact(kv) /\ NoPageTwice(kv) /\ OneRowEach(kv)

(* Every position an owner has cached lies in a page of its table or row, and a row
   whose owner is gone has no page. *)
Covered(t) == Blocks(t.offset) <= Len(t.blocks)
AllCovered(c) ==
  /\ \A o \in Requests : Covered(c.table[o])
  /\ \A i \in DOMAIN c.rows : Covered(c.rows[i])
  /\ \A i \in DOMAIN c.rows : c.rows[i].owner = NoRequest => c.rows[i] = EmptyRow
PositionsCovered == AllCovered(kv)

(* An owner reads its own K/V: whatever it shares with forks and pins, whoever wrote
   into the pages before, and whatever an append left behind that stopped half way,
   the pages of its table hold the tokens it has cached. *)
OwnTokens ==
  \A o \in Requests :
    LET table == TableOf(kv, o)
    IN Len(cached[o]) = table.offset /\ Holds(kv, table.blocks, cached[o], table.offset)

(* A pinned block holds the tokens it stands for, and nothing else. *)
PinsTrue == \A id \in DOMAIN kv.pins : kv.holds[kv.pins[id]] = id

(* What an owner reads: how far it has cached, and what its pages hold *)
Reads(c, o) ==
  [offset |-> TableOf(c, o).offset,
   pages  |-> [k \in DOMAIN TableOf(c, o).blocks |-> c.holds[TableOf(c, o).blocks[k]]]]

(* A call changes what one owner reads, and no other's, whatever pages they share:
   a write by one of them is never seen by another. *)
OwnersIsolated ==
  [][\A o, other \in Requests :
       o # other => \/ Reads(kv, o) = Reads(kv', o)
                    \/ Reads(kv, other) = Reads(kv', other)]_vars

(* A pinned block is immutable: as long as it is pinned it keeps its page, and
   nobody writes to it. *)
PinnedImmutable ==
  [][\A id \in DOMAIN kv.pins \cap DOMAIN kv'.pins :
       /\ kv'.pins[id] = kv.pins[id]
       /\ kv'.holds[kv.pins[id]] = kv.holds[kv.pins[id]]]_vars

=============================================================================
