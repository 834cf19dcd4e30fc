-------------------------- MODULE PagedCacheProofs --------------------------
(***************************************************************************)
(* Proofs about PagedCache: the counts of the pages are exact, every owner *)
(* reads what it has cached and none sees what another one writes, for any *)
(* number of requests, pages, pinned blocks and positions of a page.       *)
(*                                                                         *)
(* Everything is said of the tables as their rows have them (TableOf).  A  *)
(* call changes the table of one owner, or one pin, or neither, and with   *)
(* it the counts of the pages that come and go: OwnerCallKeeps and         *)
(* PinCallKeeps draw the conclusions, once for all calls.                  *)
(***************************************************************************)
EXTENDS PagedCache, FiniteSetTheorems, TLAPS

-----------------------------------------------------------------------------
(* Blocks *)

(* As many blocks as positions need: none for none, at most one more for one more,
   and never fewer for more. *)
LEMMA BlocksOfNone == Blocks(0) = 0
  BY KVAssumption DEF Blocks

LEMMA BlocksNat == ASSUME NEW n \in Nat PROVE Blocks(n) \in Nat
  BY KVAssumption DEF Blocks

LEMMA BlocksOfFull == ASSUME NEW n \in Nat PROVE Blocks(BlockSize * n) = n
  BY KVAssumption DEF Blocks

LEMMA BlocksNext ==
  ASSUME NEW n \in Nat
  PROVE  /\ Blocks(n + 1) \in {Blocks(n), Blocks(n) + 1}
         /\ Blocks(n + 1) >= 1
  BY KVAssumption DEF Blocks

LEMMA BlocksSealed ==
  ASSUME NEW n \in Nat, NEW k \in Nat, NEW end, end = k * BlockSize, end <= n
  PROVE  k <= Blocks(n)
  BY KVAssumption DEF Blocks

-----------------------------------------------------------------------------
(* Tables and rows *)

(* The types of a cache's parts *)
LEMMA CacheParts ==
  ASSUME NEW c \in Caches
  PROVE  /\ c.ref \in [Pages -> Nat] /\ c.holds \in [Pages -> Seq(Nat)]
         /\ c.table \in [Requests -> Tables] /\ c.rows \in Seq(Rows)
         /\ c.pins \in [DOMAIN c.pins -> Pages] /\ DOMAIN c.pins \in PinSets
         /\ \A i \in DOMAIN c.rows : c.rows[i] \in Rows
         /\ c = [ref |-> c.ref, holds |-> c.holds, table |-> c.table, rows |-> c.rows,
                 pins |-> c.pins]
<1>1. c.rows \in Seq(Rows)
  BY DEF Caches
<1>2. \A i \in DOMAIN c.rows : c.rows[i] \in Rows
  BY <1>1
<1> QED
  BY <1>1, <1>2 DEF Caches

(* What commit_execution_rows changes *)
LEMMA CommitFields ==
  ASSUME NEW c \in Caches, NEW t, t = Commit(c)
  PROVE  /\ t.ref = c.ref /\ t.holds = c.holds /\ t.rows = c.rows /\ t.pins = c.pins
         /\ t.table = [o \in Requests |-> TableOf(c, o)]
         /\ t = [ref |-> c.ref, holds |-> c.holds, table |-> t.table, rows |-> c.rows,
                 pins |-> c.pins]
<1> DEFINE T == [o \in Requests |->
                  IF RowsOf(c, o) = {} THEN c.table[o]
                  ELSE LET i == CHOOSE j \in RowsOf(c, o) : TRUE
                       IN [blocks |-> c.rows[i].blocks, offset |-> c.rows[i].offset]]
<1>1. t = [c EXCEPT !.table = T]
  BY DEF Commit
<1> HIDE DEF T
<1>2. /\ t.ref = c.ref /\ t.holds = c.holds /\ t.rows = c.rows /\ t.pins = c.pins
      /\ t.table = T
      /\ t = [ref |-> c.ref, holds |-> c.holds, table |-> T, rows |-> c.rows, pins |-> c.pins]
  BY <1>1 DEF Caches
<1>3. T = [o \in Requests |-> T[o]]
  BY DEF T
<1>4. \A o \in Requests : TableOf(c, o) = T[o]
  BY <1>2 DEF TableOf
<1> QED
  BY <1>2, <1>3, <1>4

(* The table of an owner with a row is the row's; of one without, its own. *)
LEMMA TableOfBound ==
  ASSUME NEW c \in Caches, OneRowEach(c), NEW i \in DOMAIN c.rows, NEW o \in Requests,
         c.rows[i].owner = o
  PROVE  TableOf(c, o) = [blocks |-> c.rows[i].blocks, offset |-> c.rows[i].offset]
<1>1. RowsOf(c, o) = {i}
  BY DEF RowsOf, OneRowEach
<1>2. (CHOOSE j \in RowsOf(c, o) : TRUE) = i
  BY <1>1
<1> QED
  BY <1>1, <1>2 DEF TableOf, Commit, Caches

LEMMA TableOfUnbound ==
  ASSUME NEW c \in Caches, NEW o \in Requests,
         \A i \in DOMAIN c.rows : c.rows[i].owner # o
  PROVE  TableOf(c, o) = c.table[o]
<1>1. RowsOf(c, o) = {}
  BY DEF RowsOf
<1> QED
  BY <1>1 DEF TableOf, Commit, Caches

(* Tables depend on nothing but tables and rows. *)
LEMMA SameTables ==
  ASSUME NEW c \in Caches, NEW h \in Caches, h.table = c.table, h.rows = c.rows
  PROVE  \A o \in Requests : TableOf(h, o) = TableOf(c, o)
<1> SUFFICES ASSUME NEW o \in Requests
             PROVE  TableOf(h, o) = TableOf(c, o)
  OBVIOUS
<1>1. RowsOf(h, o) = RowsOf(c, o)
  BY DEF RowsOf
<1>2. CASE RowsOf(c, o) = {}
  BY <1>1, <1>2, TableOfUnbound DEF RowsOf
<1>3. CASE RowsOf(c, o) # {}
  <2>1. PICK i : i = CHOOSE j \in RowsOf(c, o) : TRUE
    OBVIOUS
  <2>2. /\ TableOf(c, o) = [blocks |-> c.rows[i].blocks, offset |-> c.rows[i].offset]
        /\ TableOf(h, o) = [blocks |-> h.rows[i].blocks, offset |-> h.rows[i].offset]
    BY <1>1, <1>3, <2>1 DEF TableOf, Commit, Caches
  <2> QED
    BY <2>2
<1> QED
  BY <1>2, <1>3

(* In a cache whose rows are committed every table is its owner's own. *)
LEMMA TableOfSynced ==
  ASSUME NEW c \in Caches, Synced(c), NEW o \in Requests
  PROVE  TableOf(c, o) = c.table[o]
<1>1. CASE RowsOf(c, o) = {}
  BY <1>1, TableOfUnbound DEF RowsOf
<1>2. CASE RowsOf(c, o) # {}
  <2> DEFINE i == CHOOSE j \in RowsOf(c, o) : TRUE
  <2>1. i \in DOMAIN c.rows /\ c.rows[i].owner = o
    BY <1>2 DEF RowsOf
  <2>2. c.rows[i] = RowFor(c, o)
    BY <2>1 DEF Synced
  <2>3. TableOf(c, o) = [blocks |-> c.rows[i].blocks, offset |-> c.rows[i].offset]
    BY <1>2 DEF TableOf, Commit, Caches
  <2>4. c.table[o] \in Tables
    BY DEF Caches
  <2> QED
    BY <2>2, <2>3, <2>4 DEF RowFor, Tables
<1> QED
  BY <1>1, <1>2

(* Every table is a table. *)
LEMMA TableOfType ==
  ASSUME NEW c \in Caches, NEW o \in Requests
  PROVE  TableOf(c, o) \in Tables
<1>1. CASE RowsOf(c, o) = {}
  BY <1>1 DEF TableOf, Commit, Caches
<1>2. CASE RowsOf(c, o) # {}
  <2> DEFINE i == CHOOSE j \in RowsOf(c, o) : TRUE
  <2>1. i \in DOMAIN c.rows
    BY <1>2 DEF RowsOf
  <2>2. c.rows[i] \in Rows
    BY <2>1, CacheParts
  <2>3. TableOf(c, o) = [blocks |-> c.rows[i].blocks, offset |-> c.rows[i].offset]
    BY <1>2 DEF TableOf, Commit, Caches
  <2> HIDE DEF i
  <2>4. c.rows[i].blocks \in Seq(Pages) /\ c.rows[i].offset \in Nat
    BY <2>2 DEF Rows
  <2> QED
    BY <2>3, <2>4 DEF Tables
<1> QED
  BY <1>1, <1>2

(* Committing gives a cache whose tables are those the rows had, and whose rows are
   committed. *)
LEMMA Committing ==
  ASSUME NEW c \in Caches, OneRowEach(c), NEW t, t = Commit(c)
  PROVE  /\ t \in Caches /\ Synced(t) /\ OneRowEach(t)
         /\ t.ref = c.ref /\ t.holds = c.holds /\ t.rows = c.rows /\ t.pins = c.pins
         /\ \A o \in Requests : t.table[o] = TableOf(c, o) /\ TableOf(t, o) = TableOf(c, o)
<1>1. /\ t.ref = c.ref /\ t.holds = c.holds /\ t.rows = c.rows /\ t.pins = c.pins
      /\ t.table = [o \in Requests |-> TableOf(c, o)]
      /\ t = [ref |-> c.ref, holds |-> c.holds, table |-> t.table, rows |-> c.rows,
              pins |-> c.pins]
  BY CommitFields
<1>2. t.table \in [Requests -> Tables]
  BY <1>1, TableOfType
<1>3. t \in Caches
  BY <1>1, <1>2 DEF Caches
<1>4. Synced(t)
  <2> SUFFICES ASSUME NEW i \in DOMAIN t.rows, t.rows[i].owner \in Requests
               PROVE  t.rows[i] = RowFor(t, t.rows[i].owner)
    BY DEF Synced
  <2> DEFINE o == c.rows[i].owner
  <2>1. TableOf(c, o) = [blocks |-> c.rows[i].blocks, offset |-> c.rows[i].offset]
    BY <1>1, TableOfBound
  <2>2. c.rows[i] \in Rows
    BY <1>1, CacheParts
  <2>3. t.table[o] = TableOf(c, o)
    BY <1>1
  <2> QED
    BY <1>1, <2>1, <2>2, <2>3 DEF RowFor, Rows
<1>5. OneRowEach(t)
  BY <1>1 DEF OneRowEach
<1>6. \A o \in Requests : t.table[o] = TableOf(c, o)
  BY <1>1
<1> QED
  BY <1>1, <1>3, <1>4, <1>5, <1>6, TableOfSynced

-----------------------------------------------------------------------------
(* Counting *)

Owners(c, p) == {o \in Requests : p \in ToSet(TableOf(c, o).blocks)}
Pinned(c, p) == {id \in DOMAIN c.pins : c.pins[id] = p}
Counted(c) == \A p \in Pages : c.ref[p] = Cardinality(Owners(c, p)) + Cardinality(Pinned(c, p))
Once(p, blocks) == IF p \in ToSet(blocks) THEN 1 ELSE 0

LEMMA CountedExact ==
  ASSUME NEW c \in Caches
  PROVE  CountsExact(c) <=> Counted(c)
<1> DEFINE t == Commit(c)
<1>1. t.ref = c.ref /\ t.pins = c.pins
  BY CommitFields
<1>2. \A p : References(t, p) = Cardinality(Owners(c, p)) + Cardinality(Pinned(c, p))
  BY <1>1 DEF References, Owners, Pinned, TableOf
<1> QED
  BY <1>1, <1>2 DEF CountsExact, Counted

LEMMA HoldersFinite ==
  ASSUME NEW c \in Caches, NEW p
  PROVE  /\ IsFiniteSet(Owners(c, p)) /\ Cardinality(Owners(c, p)) \in Nat
         /\ IsFiniteSet(Pinned(c, p)) /\ Cardinality(Pinned(c, p)) \in Nat
<1>1. Owners(c, p) \subseteq Requests
  BY DEF Owners
<1>2. Pinned(c, p) \subseteq DOMAIN c.pins /\ IsFiniteSet(DOMAIN c.pins)
  BY CacheParts DEF Pinned, PinSets
<1> QED
  BY <1>1, <1>2, KVAssumption, FS_Subset, FS_CardinalityType

LEMMA TwoMembers ==
  ASSUME NEW S, IsFiniteSet(S), NEW a \in S, NEW b \in S, a # b
  PROVE  Cardinality(S) >= 2
<1>1. /\ Cardinality(S) \in Nat /\ IsFiniteSet(S \ {a})
      /\ Cardinality(S \ {a}) = Cardinality(S) - 1
  BY FS_CardinalityType, FS_RemoveElement
<1>2. Cardinality(S \ {a}) \in Nat /\ Cardinality(S \ {a}) # 0
  BY <1>1, FS_CardinalityType, FS_EmptySet
<1> QED
  BY <1>1, <1>2

(* A page that an owner or a pin has is counted; one that two of them have is
   counted twice. *)
LEMMA HeldIsCounted ==
  ASSUME NEW c \in Caches, Counted(c), NEW p \in Pages
  PROVE  /\ Owners(c, p) # {} => c.ref[p] >= 1
         /\ Pinned(c, p) # {} => c.ref[p] >= 1
         /\ Owners(c, p) # {} /\ Pinned(c, p) # {} => c.ref[p] >= 2
         /\ \A o, q \in Owners(c, p) : o # q => c.ref[p] >= 2
         /\ \A i, j \in Pinned(c, p) : i # j => c.ref[p] >= 2
<1>1. c.ref[p] = Cardinality(Owners(c, p)) + Cardinality(Pinned(c, p))
  BY DEF Counted
<1>2. Owners(c, p) # {} => Cardinality(Owners(c, p)) >= 1
  BY HoldersFinite, FS_EmptySet
<1>3. Pinned(c, p) # {} => Cardinality(Pinned(c, p)) >= 1
  BY HoldersFinite, FS_EmptySet
<1>4. \A o, q \in Owners(c, p) : o # q => Cardinality(Owners(c, p)) >= 2
  BY HoldersFinite, TwoMembers
<1>5. \A i, j \in Pinned(c, p) : i # j => Cardinality(Pinned(c, p)) >= 2
  BY HoldersFinite, TwoMembers
<1> QED
  BY <1>1, <1>2, <1>3, <1>4, <1>5, HoldersFinite

(* A call that gives one owner other pages counts exactly those that come and go. *)
LEMMA OwnerCounted ==
  ASSUME NEW c \in Caches, NEW h \in Caches, Counted(c), NEW o \in Requests,
         \A q \in Requests : q # o => TableOf(h, q) = TableOf(c, q),
         h.pins = c.pins,
         \A p \in Pages : h.ref[p] = (c.ref[p] - Once(p, TableOf(c, o).blocks))
                                       + Once(p, TableOf(h, o).blocks)
  PROVE  Counted(h)
<1> SUFFICES ASSUME NEW p \in Pages
             PROVE  h.ref[p] = Cardinality(Owners(h, p)) + Cardinality(Pinned(h, p))
  BY DEF Counted
<1> DEFINE old == p \in ToSet(TableOf(c, o).blocks)
           new == p \in ToSet(TableOf(h, o).blocks)
<1>1. Pinned(h, p) = Pinned(c, p)
  BY DEF Pinned
<1>2. c.ref[p] = Cardinality(Owners(c, p)) + Cardinality(Pinned(c, p))
  BY DEF Counted
<1>3. h.ref[p] = (c.ref[p] - (IF old THEN 1 ELSE 0)) + (IF new THEN 1 ELSE 0)
  BY DEF Once
<1>4. /\ (old <=> o \in Owners(c, p)) /\ (new <=> o \in Owners(h, p))
      /\ \A q \in Requests \ {o} : q \in Owners(h, p) <=> q \in Owners(c, p)
      /\ Owners(h, p) \subseteq Requests /\ Owners(c, p) \subseteq Requests
  BY DEF Owners
<1> HIDE DEF old, new
<1>5. CASE old <=> new
  <2>1. Owners(h, p) = Owners(c, p)
    BY <1>4, <1>5
  <2> QED
    BY <1>1, <1>2, <1>3, <1>5, <2>1, HoldersFinite
<1>6. CASE old /\ ~new
  <2>1. Owners(h, p) = Owners(c, p) \ {o} /\ o \in Owners(c, p)
    BY <1>4, <1>6
  <2>2. Cardinality(Owners(h, p)) = Cardinality(Owners(c, p)) - 1
    <3>1. PICK S, T : S = Owners(c, p) /\ T = Owners(h, p)
      OBVIOUS
    <3>2. T = S \ {o} /\ o \in S /\ IsFiniteSet(S)
      BY <2>1, <3>1, HoldersFinite
    <3>3. Cardinality(T) = Cardinality(S) - 1
      BY <3>2, FS_RemoveElement
    <3> QED
      BY <3>1, <3>3, Zenon
  <2> QED
    BY <1>1, <1>2, <1>3, <1>6, <2>2, HoldersFinite
<1>7. CASE ~old /\ new
  <2>1. Owners(h, p) = Owners(c, p) \cup {o} /\ o \notin Owners(c, p)
    BY <1>4, <1>7
  <2>2. Cardinality(Owners(h, p)) = Cardinality(Owners(c, p)) + 1
    <3>1. PICK S, T : S = Owners(c, p) /\ T = Owners(h, p)
      OBVIOUS
    <3>2. T = S \cup {o} /\ o \notin S /\ IsFiniteSet(S)
      BY <2>1, <3>1, HoldersFinite
    <3>3. Cardinality(T) = Cardinality(S) + 1
      BY <3>2, FS_AddElement
    <3> QED
      BY <3>1, <3>3, Zenon
  <2> QED
    BY <1>1, <1>2, <1>3, <1>7, <2>2, HoldersFinite
<1> QED
  BY <1>5, <1>6, <1>7

(* A page is pinned, or a pin given up; the other pins stay. *)
OnePinMore(c, h, id, page) ==
  /\ id \notin DOMAIN c.pins
  /\ DOMAIN h.pins = DOMAIN c.pins \cup {id} /\ h.pins[id] = page
  /\ \A i \in DOMAIN c.pins : h.pins[i] = c.pins[i]
  /\ \A p \in Pages : h.ref[p] = c.ref[p] + (IF p = page THEN 1 ELSE 0)
OnePinLess(c, h, id, page) ==
  /\ id \in DOMAIN c.pins /\ c.pins[id] = page
  /\ DOMAIN h.pins = DOMAIN c.pins \ {id}
  /\ \A i \in DOMAIN h.pins : h.pins[i] = c.pins[i]
  /\ \A p \in Pages : h.ref[p] = c.ref[p] - (IF p = page THEN 1 ELSE 0)

(* So does a call that pins a page or gives a pin up. *)
LEMMA PinCounted ==
  ASSUME NEW c \in Caches, NEW h \in Caches, Counted(c), NEW id, NEW page \in Pages,
         \A o \in Requests : TableOf(h, o) = TableOf(c, o),
         OnePinMore(c, h, id, page) \/ OnePinLess(c, h, id, page)
  PROVE  Counted(h)
<1> SUFFICES ASSUME NEW p \in Pages
             PROVE  h.ref[p] = Cardinality(Owners(h, p)) + Cardinality(Pinned(h, p))
  BY DEF Counted
<1>1. Owners(h, p) = Owners(c, p)
  BY DEF Owners
<1>2. c.ref[p] = Cardinality(Owners(c, p)) + Cardinality(Pinned(c, p))
  BY DEF Counted
<1>3. CASE p # page
  <2>1. Pinned(h, p) = Pinned(c, p)
    BY <1>3 DEF Pinned, OnePinMore, OnePinLess
  <2> QED
    BY <1>1, <1>2, <1>3, <2>1, HoldersFinite DEF OnePinMore, OnePinLess
<1>4. CASE p = page /\ id \notin DOMAIN c.pins
  <2>1. Pinned(h, p) = Pinned(c, p) \cup {id} /\ id \notin Pinned(c, p)
    BY <1>4 DEF Pinned, OnePinMore, OnePinLess
  <2>2. Cardinality(Pinned(h, p)) = Cardinality(Pinned(c, p)) + 1
    <3>1. PICK S, T : S = Pinned(c, p) /\ T = Pinned(h, p)
      OBVIOUS
    <3>2. T = S \cup {id} /\ id \notin S /\ IsFiniteSet(S)
      BY <2>1, <3>1, HoldersFinite
    <3>3. Cardinality(T) = Cardinality(S) + 1
      BY <3>2, FS_AddElement
    <3> QED
      BY <3>1, <3>3, Zenon
  <2> QED
    BY <1>1, <1>2, <1>4, <2>2, HoldersFinite DEF OnePinMore, OnePinLess
<1>5. CASE p = page /\ id \in DOMAIN c.pins
  <2>1. Pinned(h, p) = Pinned(c, p) \ {id} /\ id \in Pinned(c, p)
    BY <1>5 DEF Pinned, OnePinMore, OnePinLess
  <2>2. Cardinality(Pinned(h, p)) = Cardinality(Pinned(c, p)) - 1
    <3>1. PICK S, T : S = Pinned(c, p) /\ T = Pinned(h, p)
      OBVIOUS
    <3>2. T = S \ {id} /\ id \in S /\ IsFiniteSet(S)
      BY <2>1, <3>1, HoldersFinite
    <3>3. Cardinality(T) = Cardinality(S) - 1
      BY <3>2, FS_RemoveElement
    <3> QED
      BY <3>1, <3>3, Zenon
  <2>3. h.ref[p] = c.ref[p] - 1
    BY <1>5 DEF OnePinMore, OnePinLess
  <2>4. Cardinality(Owners(c, p)) \in Nat /\ Cardinality(Pinned(c, p)) \in Nat
    BY HoldersFinite
  <2> QED
    BY <1>1, <1>2, <2>2, <2>3, <2>4
<1> QED
  BY <1>3, <1>4, <1>5

-----------------------------------------------------------------------------
(* What holds of a cache between any two calls, and what a call that acts for one
   owner leaves to the others *)

Sound(c) ==
  /\ c \in Caches
  /\ OneRowEach(c) /\ NoPageTwice(c) /\ Counted(c)
  /\ AllCovered(c)

PinsKept(c, h) ==
  \A id \in DOMAIN c.pins \cap DOMAIN h.pins :
    h.pins[id] = c.pins[id] /\ h.holds[c.pins[id]] = c.holds[c.pins[id]]
OthersKept(c, h, o) == \A q \in Requests : q # o => Reads(h, q) = Reads(c, q)
AllKept(c, h) == \A q \in Requests : Reads(h, q) = Reads(c, q)

(* Contents change only in pages that nobody has, or one holder alone. *)
LEMMA ReadsKept ==
  ASSUME NEW c \in Caches, NEW h \in Caches, NEW q \in Requests, TableOf(h, q) = TableOf(c, q),
         \A p \in ToSet(TableOf(c, q).blocks) : h.holds[p] = c.holds[p]
  PROVE  Reads(h, q) = Reads(c, q)
<1> DEFINE blocks == TableOf(c, q).blocks
<1>1. \A k \in DOMAIN blocks : blocks[k] \in ToSet(blocks)
  BY DEF ToSet
<1> QED
  BY <1>1 DEF Reads


(* A call that changes no table and no pin changes nothing for anybody. *)
LEMMA NeutralCallKeeps ==
  ASSUME NEW c, Sound(c), NEW h \in Caches, OneRowEach(h), AllCovered(h),
         h.ref = c.ref, h.holds = c.holds, h.pins = c.pins,
         \A q \in Requests : TableOf(h, q) = TableOf(c, q)
  PROVE  Sound(h) /\ AllKept(c, h) /\ PinsKept(c, h)
<1>1. c \in Caches /\ Counted(c) /\ NoPageTwice(c)
  BY DEF Sound
<1>2. \A p \in Pages : Owners(h, p) = Owners(c, p) /\ Pinned(h, p) = Pinned(c, p)
  BY DEF Owners, Pinned
<1>3. Counted(h)
  BY <1>1, <1>2 DEF Counted
<1>4. NoPageTwice(h)
  BY <1>1 DEF NoPageTwice
<1>5. AllKept(c, h)
  BY <1>1, ReadsKept DEF AllKept
<1> QED
  BY <1>1, <1>3, <1>4, <1>5 DEF Sound, PinsKept

(* A call for owner o: its pages come and go, counted; contents change only in pages
   nobody has, or o alone. *)
LEMMA OwnerCallKeeps ==
  ASSUME NEW c, Sound(c), NEW h \in Caches, OneRowEach(h), AllCovered(h),
         NEW o \in Requests, IsInjective(TableOf(h, o).blocks),
         \A q \in Requests : q # o => TableOf(h, q) = TableOf(c, q),
         h.pins = c.pins,
         \A p \in Pages : h.ref[p] = (c.ref[p] - Once(p, TableOf(c, o).blocks))
                                       + Once(p, TableOf(h, o).blocks),
         \A p \in Pages : c.ref[p] > 1 \/ (c.ref[p] = 1 /\ p \notin ToSet(TableOf(c, o).blocks))
                            => h.holds[p] = c.holds[p]
  PROVE  Sound(h) /\ OthersKept(c, h, o) /\ PinsKept(c, h)
<1>1. c \in Caches /\ Counted(c) /\ NoPageTwice(c)
  BY DEF Sound
<1>2. Counted(h)
  BY <1>1, OwnerCounted
<1>3. NoPageTwice(h)
  BY <1>1 DEF NoPageTwice
<1>4. ASSUME NEW q \in Requests, q # o
      PROVE  Reads(h, q) = Reads(c, q)
  <2>1. ToSet(TableOf(c, q).blocks) \subseteq Pages
    BY <1>1, TableOfType DEF Tables, ToSet
  <2>2. ASSUME NEW p \in ToSet(TableOf(c, q).blocks)
        PROVE  h.holds[p] = c.holds[p]
    <3>1. p \in Pages /\ q \in Owners(c, p)
      BY <2>1 DEF Owners
    <3>2. c.ref[p] \in Nat /\ c.ref[p] >= 1
      BY <1>1, <3>1, HeldIsCounted, CacheParts
    <3>3. CASE p \in ToSet(TableOf(c, o).blocks)
      <4>1. o \in Owners(c, p)
        BY <3>3 DEF Owners
      <4>2. c.ref[p] >= 2
        BY <1>1, <1>4, <3>1, <4>1, HeldIsCounted
      <4> QED
        BY <3>1, <3>2, <4>2
    <3> QED
      BY <3>1, <3>2, <3>3
  <2> QED
    BY <1>1, <1>4, <2>2, ReadsKept
<1>5. ASSUME NEW id \in DOMAIN c.pins
      PROVE  h.holds[c.pins[id]] = c.holds[c.pins[id]]
  <2> DEFINE p == c.pins[id]
  <2>1. p \in Pages /\ id \in Pinned(c, p)
    BY <1>1, CacheParts DEF Pinned
  <2>2. c.ref[p] \in Nat /\ c.ref[p] >= 1
    BY <1>1, <2>1, HeldIsCounted, CacheParts
  <2>3. CASE p \in ToSet(TableOf(c, o).blocks)
    <3>1. o \in Owners(c, p)
      BY <2>3 DEF Owners
    <3>2. c.ref[p] >= 2
      BY <1>1, <2>1, <3>1, HeldIsCounted
    <3> QED
      BY <2>1, <2>2, <3>2
  <2> QED
    BY <2>1, <2>2, <2>3
<1> QED
  BY <1>1, <1>2, <1>3, <1>4, <1>5 DEF Sound, OthersKept, PinsKept

ContentsKept(c, h, id) ==
  \A p \in Pages : c.ref[p] > 1 \/ (c.ref[p] = 1 /\ (id \in DOMAIN c.pins => c.pins[id] # p))
                     => h.holds[p] = c.holds[p]

(* A call for pin id: one page is pinned or given up, counted; contents change only
   in pages nobody has, or this pin alone. *)
LEMMA PinCallKeeps ==
  ASSUME NEW c, Sound(c), NEW h \in Caches, OneRowEach(h), AllCovered(h),
         NEW id, NEW page \in Pages,
         \A q \in Requests : TableOf(h, q) = TableOf(c, q),
         OnePinMore(c, h, id, page) \/ OnePinLess(c, h, id, page),
         ContentsKept(c, h, id)
  PROVE  Sound(h) /\ AllKept(c, h) /\ PinsKept(c, h)
<1>1. c \in Caches /\ Counted(c) /\ NoPageTwice(c)
  BY DEF Sound
<1>2. Counted(h)
  BY <1>1, PinCounted
<1>3. NoPageTwice(h)
  BY <1>1 DEF NoPageTwice
<1>4. ASSUME NEW q \in Requests
      PROVE  Reads(h, q) = Reads(c, q)
  <2>1. ToSet(TableOf(c, q).blocks) \subseteq Pages
    BY <1>1, TableOfType DEF Tables, ToSet
  <2>2. ASSUME NEW p \in ToSet(TableOf(c, q).blocks)
        PROVE  h.holds[p] = c.holds[p]
    <3>1. p \in Pages /\ q \in Owners(c, p)
      BY <2>1 DEF Owners
    <3>2. c.ref[p] \in Nat /\ c.ref[p] >= 1
      BY <1>1, <3>1, HeldIsCounted, CacheParts
    <3>3. id \in DOMAIN c.pins /\ c.pins[id] = p => c.ref[p] >= 2
      BY <1>1, <3>1, HeldIsCounted DEF Pinned
    <3> QED
      BY <3>1, <3>2, <3>3 DEF ContentsKept
  <2> QED
    BY <1>1, <2>2, ReadsKept
<1>5. ASSUME NEW i \in DOMAIN c.pins \cap DOMAIN h.pins
      PROVE  h.holds[c.pins[i]] = c.holds[c.pins[i]]
  <2> DEFINE p == c.pins[i]
  <2>1. p \in Pages /\ i \in Pinned(c, p)
    BY <1>1, CacheParts DEF Pinned
  <2>2. c.ref[p] \in Nat /\ c.ref[p] >= 1
    BY <1>1, <2>1, HeldIsCounted, CacheParts
  <2>3. CASE id \in DOMAIN c.pins /\ c.pins[id] = p
    <3>1. i # id /\ id \in Pinned(c, p)
      BY <2>3 DEF Pinned, OnePinMore, OnePinLess
    <3>2. c.ref[p] >= 2
      BY <1>1, <2>1, <3>1, HeldIsCounted
    <3> QED
      BY <2>1, <2>2, <3>2 DEF ContentsKept
  <2> QED
    BY <2>1, <2>2, <2>3 DEF ContentsKept
<1>6. \A i \in DOMAIN c.pins \cap DOMAIN h.pins : h.pins[i] = c.pins[i]
  BY DEF OnePinMore, OnePinLess
<1> QED
  BY <1>1, <1>2, <1>3, <1>4, <1>5, <1>6 DEF Sound, AllKept, PinsKept


(* Keeping is transitive from one call to the next. *)
LEMMA KeptOn ==
  ASSUME NEW c, NEW t, NEW h, AllKept(c, t), t.pins = c.pins, t.holds = c.holds, PinsKept(t, h)
  PROVE  /\ PinsKept(c, h)
         /\ AllKept(t, h) => AllKept(c, h)
         /\ \A o : OthersKept(t, h, o) => OthersKept(c, h, o)
  BY DEF PinsKept, AllKept, OthersKept

-----------------------------------------------------------------------------
(* Calls on owners *)

LEMMA TableCovered ==
  ASSUME NEW c, Sound(c), NEW o \in Requests
  PROVE  Covered(TableOf(c, o))
<1>1. c \in Caches /\ AllCovered(c) /\ OneRowEach(c)
  BY DEF Sound
<1>2. CASE \A i \in DOMAIN c.rows : c.rows[i].owner # o
  BY <1>1, <1>2, TableOfUnbound DEF AllCovered
<1>3. ASSUME NEW i \in DOMAIN c.rows, c.rows[i].owner = o
      PROVE  Covered(TableOf(c, o))
  <2>1. TableOf(c, o) = [blocks |-> c.rows[i].blocks, offset |-> c.rows[i].offset]
    BY <1>1, <1>3, TableOfBound
  <2> QED
    BY <1>1, <2>1 DEF AllCovered, Covered
<1> QED
  BY <1>2, <1>3

(* commit_execution_rows, the first step of most calls *)
LEMMA CommitKeeps ==
  ASSUME NEW c, Sound(c), NEW t, t = Commit(c)
  PROVE  /\ t \in Caches /\ Sound(t) /\ Synced(t) /\ AllKept(c, t) /\ PinsKept(c, t)
         /\ t.ref = c.ref /\ t.holds = c.holds /\ t.rows = c.rows /\ t.pins = c.pins
         /\ \A o \in Requests : t.table[o] = TableOf(c, o) /\ TableOf(t, o) = TableOf(c, o)
<1>1. c \in Caches /\ AllCovered(c) /\ OneRowEach(c)
  BY DEF Sound
<1>2. /\ t \in Caches /\ Synced(t) /\ OneRowEach(t)
      /\ t.ref = c.ref /\ t.holds = c.holds /\ t.rows = c.rows /\ t.pins = c.pins
      /\ \A o \in Requests : t.table[o] = TableOf(c, o) /\ TableOf(t, o) = TableOf(c, o)
  BY <1>1, Committing
<1>3. AllCovered(t)
  BY <1>1, <1>2, TableCovered DEF AllCovered
<1> QED
  BY <1>2, <1>3, NeutralCallKeeps

(* A cache whose rows show their owners' tables is covered when the tables are. *)
LEMMA SyncedCovered ==
  ASSUME NEW h, Synced(h), \A o \in Requests : Covered(h.table[o]),
         \A i \in DOMAIN h.rows : \/ h.rows[i].owner \in Requests
                                  \/ h.rows[i] = EmptyRow
  PROVE  AllCovered(h)
<1>1. ASSUME NEW i \in DOMAIN h.rows
      PROVE  Covered(h.rows[i])
  <2>1. CASE h.rows[i].owner \in Requests
    <3>1. h.rows[i] = RowFor(h, h.rows[i].owner) /\ Covered(h.table[h.rows[i].owner])
      BY <2>1 DEF Synced
    <3>2. PICK o \in Requests : h.rows[i] = RowFor(h, o) /\ Covered(h.table[o])
      BY <2>1, <3>1
    <3> QED
      BY <3>2 DEF RowFor, Covered
  <2>2. CASE h.rows[i] = EmptyRow
    BY <2>2, BlocksOfNone DEF EmptyRow, Covered
  <2> QED
    BY <2>1, <2>2
<1>2. \A i \in DOMAIN h.rows : h.rows[i].owner = NoRequest => h.rows[i] = EmptyRow
  BY KVAssumption
<1> QED
  BY <1>1, <1>2 DEF AllCovered

(* bind_execution_rows *)
LEMMA BindKeeps ==
  ASSUME NEW c, Sound(c), NEW owners \in Seq(Requests), IsInjective(owners),
         NEW h, h = Bind(c, owners)
  PROVE  Sound(h) /\ AllKept(c, h) /\ PinsKept(c, h) /\ h.pins = c.pins
<1>1. PICK t : t = Commit(c)
  OBVIOUS
<1>2. /\ t \in Caches /\ Sound(t) /\ Synced(t) /\ AllKept(c, t)
      /\ t.pins = c.pins /\ t.holds = c.holds
      /\ \A o \in Requests : t.table[o] = TableOf(c, o) /\ TableOf(t, o) = TableOf(c, o)
  BY <1>1, CommitKeeps
<1> DEFINE rows == [i \in DOMAIN owners |-> RowFor(t, owners[i])]
<1>3. h = [t EXCEPT !.rows = rows]
  BY <1>1 DEF Bind
<1>4. \A o \in Requests : RowFor(t, o) \in Rows /\ RowFor(t, o).owner = o
  BY <1>2, CacheParts DEF RowFor, Rows, Tables
<1>5. rows \in Seq(Rows) /\ DOMAIN rows = DOMAIN owners
  BY <1>4
<1>6. \A i \in DOMAIN owners : rows[i] = RowFor(t, owners[i]) /\ owners[i] \in Requests
  OBVIOUS
<1> HIDE DEF rows
<1>7. /\ h.rows = rows /\ h.ref = t.ref /\ h.holds = t.holds /\ h.table = t.table
      /\ h.pins = t.pins /\ h \in Caches
  BY <1>2, <1>3, <1>5 DEF Caches
<1>8. Synced(h)
  BY <1>4, <1>5, <1>6, <1>7 DEF Synced, RowFor
<1>9. \A o \in Requests : TableOf(h, o) = TableOf(t, o)
  BY <1>2, <1>7, <1>8, TableOfSynced
<1>10. OneRowEach(h)
  BY <1>4, <1>5, <1>6, <1>7 DEF OneRowEach, IsInjective
<1>11. AllCovered(h)
  <2>1. \A o \in Requests : Covered(h.table[o])
    BY <1>2, <1>7, TableCovered
  <2>2. \A i \in DOMAIN h.rows : h.rows[i].owner \in Requests
    BY <1>4, <1>5, <1>6, <1>7
  <2> QED
    BY <1>8, <2>1, <2>2, SyncedCovered
<1>12. Sound(h) /\ AllKept(t, h) /\ PinsKept(t, h)
  BY <1>2, <1>7, <1>9, <1>10, <1>11, NeutralCallKeeps
<1> QED
  BY <1>2, <1>7, <1>12, KeptOn


(* A call on committed tables that gives owner o another one, which the rows show *)
LEMMA TableCallKeeps ==
  ASSUME NEW t, Sound(t), Synced(t), NEW o \in Requests, NEW b \in Tables,
         IsInjective(b.blocks), Covered(b),
         NEW h \in Caches, h.table = [t.table EXCEPT ![o] = b], h.pins = t.pins,
         Synced(h), DOMAIN h.rows = DOMAIN t.rows,
         \A i \in DOMAIN h.rows : \/ h.rows[i].owner \in Requests /\ h.rows[i].owner = t.rows[i].owner
                                  \/ h.rows[i] = EmptyRow,
         \A p \in Pages : h.ref[p] = (t.ref[p] - Once(p, t.table[o].blocks)) + Once(p, b.blocks),
         \A p \in Pages : t.ref[p] > 1 \/ (t.ref[p] = 1 /\ p \notin ToSet(t.table[o].blocks))
                            => h.holds[p] = t.holds[p]
  PROVE  Sound(h) /\ OthersKept(t, h, o) /\ PinsKept(t, h) /\ TableOf(h, o) = b
<1>1. t \in Caches /\ OneRowEach(t)
  BY DEF Sound
<1>2. /\ \A q \in Requests : TableOf(t, q) = t.table[q] /\ TableOf(h, q) = h.table[q]
      /\ t.table \in [Requests -> Tables]
  BY <1>1, TableOfSynced, CacheParts
<1>3. h.table[o] = b /\ \A q \in Requests : q # o => h.table[q] = t.table[q]
  BY <1>2
<1>4. OneRowEach(h)
  <2>1. EmptyRow.owner \notin Requests
    BY KVAssumption DEF EmptyRow
  <2> QED
    BY <1>1, <2>1 DEF OneRowEach
<1>5. AllCovered(h)
  <2>1. \A q \in Requests : Covered(h.table[q])
    BY <1>2, <1>3, TableCovered
  <2> QED
    BY <2>1, SyncedCovered
<1> QED
  BY <1>2, <1>3, <1>4, <1>5, OwnerCallKeeps

(* What release_page_ref and its opposite do to the counts and the contents *)
LEMMA UnrefFields ==
  ASSUME NEW c \in Caches, NEW S, NEW u, u = Unref(c, S)
  PROVE  /\ u.ref = [p \in Pages |-> IF p \in S THEN c.ref[p] - 1 ELSE c.ref[p]]
         /\ u.holds = [p \in Pages |-> IF p \in S /\ c.ref[p] = 1 THEN <<>> ELSE c.holds[p]]
         /\ u.table = c.table /\ u.rows = c.rows /\ u.pins = c.pins
         /\ u = [ref |-> u.ref, holds |-> u.holds, table |-> c.table, rows |-> c.rows,
                 pins |-> c.pins]
<1>1. c = [ref |-> c.ref, holds |-> c.holds, table |-> c.table, rows |-> c.rows,
           pins |-> c.pins]
  BY CacheParts
<1> QED
  BY <1>1 DEF Unref

LEMMA AddRefFields ==
  ASSUME NEW c \in Caches, NEW S, NEW u, u = AddRef(c, S)
  PROVE  /\ u.ref = [p \in Pages |-> IF p \in S THEN c.ref[p] + 1 ELSE c.ref[p]]
         /\ u.holds = c.holds /\ u.table = c.table /\ u.rows = c.rows /\ u.pins = c.pins
         /\ u = [ref |-> u.ref, holds |-> c.holds, table |-> c.table, rows |-> c.rows,
                 pins |-> c.pins]
<1>1. c = [ref |-> c.ref, holds |-> c.holds, table |-> c.table, rows |-> c.rows,
           pins |-> c.pins]
  BY CacheParts
<1> QED
  BY <1>1 DEF AddRef

LEMMA EmptyTableType ==
  /\ EmptyTable \in Tables /\ IsInjective(EmptyTable.blocks) /\ Covered(EmptyTable)
  /\ \A p : Once(p, EmptyTable.blocks) = 0
<1>1. EmptyTable.blocks = <<>> /\ EmptyTable.offset = 0 /\ EmptyTable \in Tables
  BY DEF EmptyTable, Tables
<1>2. IsInjective(<<>>) /\ ToSet(<<>>) = {}
  BY DEF IsInjective, ToSet
<1>3. Covered(EmptyTable)
  BY <1>1, BlocksOfNone DEF Covered
<1> QED
  BY <1>1, <1>2, <1>3 DEF Once

(* release_owner of a request *)
LEMMA ReleaseKeeps ==
  ASSUME NEW c, Sound(c), NEW o \in Requests, NEW h, h = ReleaseOwner(c, o)
  PROVE  /\ Sound(h) /\ OthersKept(c, h, o) /\ PinsKept(c, h)
         /\ h.pins = c.pins /\ TableOf(h, o) = EmptyTable
<1>1. PICK t : t = Commit(c)
  OBVIOUS
<1>2. /\ t \in Caches /\ Sound(t) /\ Synced(t) /\ AllKept(c, t)
      /\ t.pins = c.pins /\ t.holds = c.holds /\ Counted(t)
      /\ \A q \in Requests : TableOf(t, q) = t.table[q]
  BY <1>1, CommitKeeps, TableOfSynced DEF Sound
<1> DEFINE S == ToSet(t.table[o].blocks)
           rows == [i \in DOMAIN t.rows |-> IF t.rows[i].owner = o THEN EmptyRow ELSE t.rows[i]]
<1>3. PICK u : u = Unref(t, S)
  OBVIOUS
<1>4. h = [u EXCEPT !.table[o] = EmptyTable,
                    !.rows = [i \in DOMAIN @ |-> IF @[i].owner = o THEN EmptyRow ELSE @[i]]]
  BY <1>1, <1>3 DEF ReleaseOwner
<1>5. /\ u.ref = [p \in Pages |-> IF p \in S THEN t.ref[p] - 1 ELSE t.ref[p]]
      /\ u.holds = [p \in Pages |-> IF p \in S /\ t.ref[p] = 1 THEN <<>> ELSE t.holds[p]]
      /\ u = [ref |-> u.ref, holds |-> u.holds, table |-> t.table, rows |-> t.rows,
              pins |-> t.pins]
  BY <1>2, <1>3, UnrefFields
<1> HIDE DEF S
<1>6. \A p \in S : p \in Pages => t.ref[p] >= 1
  <2>1. \A p \in S : o \in Owners(t, p)
    BY <1>2 DEF S, Owners
  <2> QED
    BY <1>2, <2>1, HeldIsCounted
<1>7. u.ref \in [Pages -> Nat] /\ u.holds \in [Pages -> Seq(Nat)]
  BY <1>2, <1>5, <1>6, CacheParts
<1>8. rows \in Seq(Rows) /\ DOMAIN rows = DOMAIN t.rows
  <2>1. EmptyRow \in Rows
    BY DEF EmptyRow, Rows
  <2>2. t.rows \in Seq(Rows) /\ \A i \in DOMAIN t.rows : t.rows[i] \in Rows
    BY <1>2, CacheParts
  <2> QED
    BY <2>1, <2>2
<1>9. \A i \in DOMAIN t.rows : rows[i] = IF t.rows[i].owner = o THEN EmptyRow ELSE t.rows[i]
  OBVIOUS
<1>10. /\ h.ref = u.ref /\ h.holds = u.holds /\ h.table = [t.table EXCEPT ![o] = EmptyTable]
       /\ h.rows = rows /\ h.pins = t.pins
       /\ h = [ref |-> h.ref, holds |-> h.holds, table |-> h.table, rows |-> h.rows,
               pins |-> h.pins]
  <2>1. /\ u.table = t.table /\ u.rows = t.rows /\ u.pins = t.pins
        /\ DOMAIN u = {"ref", "holds", "table", "rows", "pins"}
    BY <1>5
  <2>2. PICK table : table = [t.table EXCEPT ![o] = EmptyTable]
    OBVIOUS
  <2>3. h = [u EXCEPT !.table = table, !.rows = rows]
    BY <1>4, <2>1, <2>2
  <2> HIDE DEF rows
  <2>4. u = [ref |-> u.ref, holds |-> u.holds, table |-> t.table, rows |-> t.rows,
             pins |-> t.pins]
    BY <1>5
  <2>5. h = [ref |-> u.ref, holds |-> u.holds, table |-> table, rows |-> rows,
             pins |-> t.pins]
    <3>1. PICK v : v = [u EXCEPT !.table = table]
      OBVIOUS
    <3>2. h = [v EXCEPT !.rows = rows]
      BY <2>3, <3>1, Zenon
    <3>3. v = [ref |-> u.ref, holds |-> u.holds, table |-> table, rows |-> t.rows,
               pins |-> t.pins]
      BY <2>4, <3>1
    <3> QED
      BY <3>2, <3>3
  <2>6. /\ h.ref = u.ref /\ h.holds = u.holds /\ h.table = table
        /\ h.rows = rows /\ h.pins = t.pins
        /\ h = [ref |-> h.ref, holds |-> h.holds, table |-> h.table, rows |-> h.rows,
                pins |-> h.pins]
    BY <2>5
  <2> QED
    BY <2>2, <2>6
<1> HIDE DEF rows
<1>11. h \in Caches
  <2>1. h.table \in [Requests -> Tables]
    BY <1>2, <1>10, EmptyTableType, CacheParts
  <2> QED
    BY <1>2, <1>7, <1>8, <1>10, <2>1 DEF Caches
<1>12. \A i \in DOMAIN h.rows : \/ /\ h.rows[i].owner \in Requests /\ h.rows[i].owner # o
                                   /\ h.rows[i] = t.rows[i]
                                \/ h.rows[i] = EmptyRow
  <2>1. \A i \in DOMAIN t.rows : t.rows[i].owner = NoRequest => t.rows[i] = EmptyRow
    BY <1>2 DEF Sound, AllCovered
  <2>2. \A i \in DOMAIN t.rows : t.rows[i].owner \in Requests \cup {NoRequest}
    BY <1>2, CacheParts DEF Rows
  <2> QED
    BY <1>8, <1>9, <1>10, <2>1, <2>2
<1>13. Synced(h)
  <2>1. EmptyRow.owner \notin Requests
    BY KVAssumption DEF EmptyRow
  <2>2. \A q \in Requests : q # o => RowFor(h, q) = RowFor(t, q)
    BY <1>2, <1>10, CacheParts DEF RowFor
  <2> QED
    BY <1>2, <1>8, <1>10, <1>12, <2>1, <2>2 DEF Synced
<1>14. \A p \in Pages :
         h.ref[p] = (t.ref[p] - Once(p, t.table[o].blocks)) + Once(p, EmptyTable.blocks)
  BY <1>2, <1>5, <1>10, CacheParts, EmptyTableType DEF Once, S
<1>15. \A p \in Pages : t.ref[p] > 1 \/ (t.ref[p] = 1 /\ p \notin ToSet(t.table[o].blocks))
                           => h.holds[p] = t.holds[p]
  BY <1>5, <1>10 DEF S
<1>16. \A i \in DOMAIN h.rows :
         \/ h.rows[i].owner \in Requests /\ h.rows[i].owner = t.rows[i].owner
         \/ h.rows[i] = EmptyRow
  BY <1>12
<1>17. Sound(h) /\ OthersKept(t, h, o) /\ PinsKept(t, h) /\ TableOf(h, o) = EmptyTable
  <2>1. DOMAIN h.rows = DOMAIN t.rows
    BY <1>8, <1>10
  <2>2. PICK b \in Tables : b = EmptyTable
    BY EmptyTableType
  <2>3. IsInjective(b.blocks) /\ Covered(b)
    BY <2>2, EmptyTableType
  <2> QED
    BY <1>2, <1>10, <1>11, <1>13, <1>14, <1>15, <1>16, <2>1, <2>2, <2>3, TableCallKeeps
<1> QED
  BY <1>2, <1>10, <1>17, KeptOn


(* An empty owner is given a table of pages that others have already. *)
LEMMA SharingKeeps ==
  ASSUME NEW t, Sound(t), Synced(t), NEW o \in Requests, t.table[o] = EmptyTable,
         NEW b \in Tables, IsInjective(b.blocks), Covered(b),
         NEW h, h = Refresh([AddRef(t, ToSet(b.blocks)) EXCEPT !.table[o] = b], o)
  PROVE  /\ Sound(h) /\ OthersKept(t, h, o) /\ PinsKept(t, h)
         /\ TableOf(h, o) = b /\ h.holds = t.holds /\ h.pins = t.pins
<1> DEFINE S == ToSet(b.blocks)
<1>1. t \in Caches /\ t.table \in [Requests -> Tables] /\ \A q \in Requests : TableOf(t, q) = t.table[q]
  BY TableOfSynced, CacheParts DEF Sound
<1>2. PICK u : u = AddRef(t, S)
  OBVIOUS
<1>3. PICK table : table = [t.table EXCEPT ![o] = b]
  OBVIOUS
<1>4. /\ u.ref = [p \in Pages |-> IF p \in S THEN t.ref[p] + 1 ELSE t.ref[p]]
      /\ u.holds = t.holds /\ u.table = t.table
      /\ u = [ref |-> u.ref, holds |-> t.holds, table |-> t.table, rows |-> t.rows,
              pins |-> t.pins]
  BY <1>1, <1>2, AddRefFields
<1>5. PICK f : f = [u EXCEPT !.table = table]
  OBVIOUS
<1>6. f = [ref |-> u.ref, holds |-> t.holds, table |-> table, rows |-> t.rows, pins |-> t.pins]
  BY <1>4, <1>5
<1>7. h = Refresh(f, o)
  <2>1. [u EXCEPT !.table[o] = b] = f
    BY <1>3, <1>4, <1>5, Zenon
  <2> QED
    BY <1>2, <2>1
<1> DEFINE rows == [i \in DOMAIN f.rows |->
                      IF f.rows[i].owner = o THEN RowFor(f, o) ELSE f.rows[i]]
<1>8. h = [f EXCEPT !.rows = rows]
  BY <1>7 DEF Refresh
<1>9. /\ \A i \in DOMAIN t.rows :
           rows[i] = IF t.rows[i].owner = o THEN RowFor(f, o) ELSE t.rows[i]
      /\ DOMAIN rows = DOMAIN t.rows
  <2>1. f.rows = t.rows
    BY <1>6, Zenon
  <2>2. /\ \A i \in DOMAIN f.rows :
             rows[i] = IF f.rows[i].owner = o THEN RowFor(f, o) ELSE f.rows[i]
        /\ DOMAIN rows = DOMAIN f.rows
    OBVIOUS
  <2> HIDE DEF rows
  <2> QED
    BY <2>1, <2>2
<1>10. table \in [Requests -> Tables] /\ table[o] = b
       /\ \A q \in Requests : q # o => table[q] = t.table[q]
  BY <1>1, <1>3
<1>11. RowFor(f, o) \in Rows /\ RowFor(f, o).owner = o
  BY <1>6, <1>10 DEF RowFor, Rows, Tables
<1>12. rows \in Seq(Rows)
  <2>1. t.rows \in Seq(Rows) /\ \A i \in DOMAIN t.rows : t.rows[i] \in Rows
    BY <1>1, CacheParts
  <2>2. f.rows = t.rows
    BY <1>6, Zenon
  <2> QED
    BY <1>11, <2>1, <2>2
<1> HIDE DEF rows, S
<1>13. /\ h.ref = u.ref /\ h.holds = t.holds /\ h.table = table /\ h.rows = rows
       /\ h.pins = t.pins
       /\ h = [ref |-> u.ref, holds |-> t.holds, table |-> table, rows |-> rows,
               pins |-> t.pins]
  BY <1>6, <1>8
<1>14. h \in Caches
  <2>1. u.ref \in [Pages -> Nat]
    BY <1>1, <1>4, CacheParts
  <2> QED
    BY <1>1, <1>10, <1>12, <1>13, <2>1 DEF Caches
<1>15. RowFor(f, o) = RowFor(h, o) /\ \A q \in Requests : q # o => RowFor(h, q) = RowFor(t, q)
  BY <1>6, <1>10, <1>13 DEF RowFor
<1>16. Synced(h)
  BY <1>9, <1>11, <1>13, <1>15 DEF Synced
<1>17. \A i \in DOMAIN h.rows :
         \/ h.rows[i].owner \in Requests /\ h.rows[i].owner = t.rows[i].owner
         \/ h.rows[i] = EmptyRow
  <2>1. \A i \in DOMAIN t.rows : t.rows[i].owner = NoRequest => t.rows[i] = EmptyRow
    BY DEF Sound, AllCovered
  <2>2. \A i \in DOMAIN t.rows : t.rows[i].owner \in Requests \cup {NoRequest}
    BY <1>1, CacheParts DEF Rows
  <2> QED
    BY <1>9, <1>11, <1>13, <2>1, <2>2
<1>18. \A p \in Pages : h.ref[p] = (t.ref[p] - Once(p, t.table[o].blocks)) + Once(p, b.blocks)
  BY <1>1, <1>4, <1>13, CacheParts, EmptyTableType DEF Once, S
<1>19. DOMAIN h.rows = DOMAIN t.rows /\ h.table = [t.table EXCEPT ![o] = b]
      /\ h.pins = t.pins /\ h.holds = t.holds
  BY <1>3, <1>9, <1>13, Zenon
<1>20. \A p \in Pages : t.ref[p] > 1 \/ (t.ref[p] = 1 /\ p \notin ToSet(t.table[o].blocks))
                           => h.holds[p] = t.holds[p]
  BY <1>19, Zenon
<1>21. Sound(h) /\ OthersKept(t, h, o) /\ PinsKept(t, h) /\ TableOf(h, o) = b
  BY <1>14, <1>16, <1>17, <1>18, <1>19, <1>20, TableCallKeeps
<1> QED
  BY <1>19, <1>21, Zenon

(* fork_owner *)
LEMMA ForkKeeps ==
  ASSUME NEW c, Sound(c), NEW s \in Requests, NEW d \in Requests, s # d,
         TableOf(c, d) = EmptyTable, NEW h, h = ForkOwner(c, s, d)
  PROVE  /\ Sound(h) /\ OthersKept(c, h, d) /\ PinsKept(c, h)
         /\ h.pins = c.pins /\ Reads(h, d) = Reads(c, s)
<1>1. PICK t : t = Commit(c)
  OBVIOUS
<1>2. /\ t \in Caches /\ Sound(t) /\ Synced(t) /\ AllKept(c, t)
      /\ t.pins = c.pins /\ t.holds = c.holds /\ t.table[d] = EmptyTable
      /\ TableOf(t, s) = t.table[s] /\ t.table \in [Requests -> Tables]
  BY <1>1, CommitKeeps, TableOfSynced, CacheParts
<1>3. PICK b \in Tables : b = t.table[s]
  BY <1>2
<1>4. Covered(b) /\ IsInjective(b.blocks)
  BY <1>2, <1>3, TableCovered DEF Sound, NoPageTwice
<1>5. h = Refresh([AddRef(t, ToSet(b.blocks)) EXCEPT !.table[d] = b], d)
  BY <1>1, <1>3 DEF ForkOwner
<1>6. /\ Sound(h) /\ OthersKept(t, h, d) /\ PinsKept(t, h)
      /\ TableOf(h, d) = b /\ h.holds = t.holds /\ h.pins = t.pins
  BY <1>2, <1>4, <1>5, SharingKeeps
<1>7. Reads(h, d) = Reads(t, s)
  BY <1>2, <1>3, <1>6 DEF Reads
<1>8. Reads(t, s) = Reads(c, s)
  BY <1>2 DEF AllKept
<1> QED
  BY <1>2, <1>6, <1>7, <1>8, KeptOn

(* install_immutable_prefix *)
LEMMA InstallPrefixKeeps ==
  ASSUME NEW c, Sound(c), NEW o \in Requests, TableOf(c, o) = EmptyTable,
         NEW ids \in Seq(DOMAIN c.pins),
         \A i, j \in DOMAIN ids : c.pins[ids[i]] = c.pins[ids[j]] => i = j,
         NEW h, h = InstallPrefix(c, o, ids)
  PROVE  /\ Sound(h) /\ OthersKept(c, h, o) /\ PinsKept(c, h)
         /\ h.pins = c.pins
         /\ Reads(h, o) = [offset |-> BlockSize * Len(ids),
                           pages  |-> [k \in DOMAIN ids |-> c.holds[c.pins[ids[k]]]]]
<1>1. PICK t : t = Commit(c)
  OBVIOUS
<1>2. /\ t \in Caches /\ Sound(t) /\ Synced(t) /\ AllKept(c, t)
      /\ t.pins = c.pins /\ t.holds = c.holds /\ t.table[o] = EmptyTable
      /\ t.pins \in [DOMAIN t.pins -> Pages]
  BY <1>1, CommitKeeps, CacheParts
<1> DEFINE pages == [i \in DOMAIN ids |-> t.pins[ids[i]]]
<1>3. pages \in Seq(Pages) /\ Len(pages) = Len(ids) /\ IsInjective(pages)
  BY <1>2 DEF IsInjective
<1>4. h = Refresh([AddRef(t, ToSet(pages))
                     EXCEPT !.table[o] = [blocks |-> pages, offset |-> BlockSize * Len(ids)]], o)
  BY <1>1 DEF InstallPrefix
<1> HIDE DEF pages
<1>5. PICK b : b = [blocks |-> pages, offset |-> BlockSize * Len(ids)]
  OBVIOUS
<1>6. b \in Tables /\ IsInjective(b.blocks) /\ b.blocks = pages
  BY <1>3, <1>5, KVAssumption DEF Tables
<1>7. Covered(b)
  BY <1>3, <1>5, BlocksOfFull DEF Covered
<1>8. /\ Sound(h) /\ OthersKept(t, h, o) /\ PinsKept(t, h)
      /\ TableOf(h, o) = b /\ h.holds = t.holds /\ h.pins = t.pins
  BY <1>2, <1>4, <1>5, <1>6, <1>7, SharingKeeps
<1>9. Reads(h, o) = [offset |-> BlockSize * Len(ids),
                     pages  |-> [k \in DOMAIN ids |-> c.holds[c.pins[ids[k]]]]]
  <2>1. DOMAIN pages = DOMAIN ids /\ \A k \in DOMAIN ids : pages[k] = c.pins[ids[k]]
    BY <1>2 DEF pages
  <2>2. b.blocks = pages /\ b.offset = BlockSize * Len(ids)
    BY <1>5
  <2>3. h.holds = c.holds
    BY <1>2, <1>8
  <2>4. [k \in DOMAIN pages |-> h.holds[pages[k]]] = [k \in DOMAIN ids |-> c.holds[c.pins[ids[k]]]]
    BY <2>1, <2>3
  <2> QED
    BY <1>8, <2>2, <2>4 DEF Reads
<1> QED
  BY <1>2, <1>8, <1>9, KeptOn


-----------------------------------------------------------------------------
(* Calls on pins *)

(* A call that pins one page: h has one pin more than c, and the same tables. *)
Pinning(c, h, id, page) ==
  /\ h = [ref |-> h.ref, holds |-> h.holds, table |-> c.table, rows |-> c.rows,
          pins |-> WithPin(c.pins, id, page)]
  /\ h.ref = [p \in Pages |-> IF p \in {page} THEN c.ref[p] + 1 ELSE c.ref[p]]
  /\ h.holds \in [Pages -> Seq(Nat)]
  /\ \A p \in Pages : c.ref[p] > 0 => h.holds[p] = c.holds[p]

LEMMA PinningKeeps ==
  ASSUME NEW c, Sound(c), NEW id \in PinIds, id \notin DOMAIN c.pins, NEW page \in Pages,
         NEW h, Pinning(c, h, id, page)
  PROVE  /\ Sound(h) /\ AllKept(c, h) /\ PinsKept(c, h)
         /\ DOMAIN h.pins = DOMAIN c.pins \cup {id} /\ h.pins[id] = page
<1>1. c \in Caches /\ OneRowEach(c) /\ AllCovered(c)
  BY DEF Sound
<1>2. PICK pins : pins = WithPin(c.pins, id, page)
  OBVIOUS
<1>3. /\ DOMAIN pins = DOMAIN c.pins \cup {id} /\ pins[id] = page
      /\ \A i \in DOMAIN c.pins : pins[i] = c.pins[i]
      /\ pins = [i \in DOMAIN pins |-> pins[i]]
  BY <1>2 DEF WithPin
<1>4. DOMAIN pins \in PinSets /\ pins \in [DOMAIN pins -> Pages]
  BY <1>1, <1>3, CacheParts, FS_AddElement DEF PinSets
<1>5. /\ h.table = c.table /\ h.rows = c.rows /\ h.pins = pins
      /\ h = [ref |-> h.ref, holds |-> h.holds, table |-> c.table, rows |-> c.rows,
              pins |-> pins]
  BY <1>2 DEF Pinning
<1>6. h \in Caches
  <2>1. h.ref \in [Pages -> Nat] /\ h.holds \in [Pages -> Seq(Nat)]
    BY <1>1, CacheParts DEF Pinning
  <2> QED
    BY <1>1, <1>4, <1>5, <2>1, CacheParts DEF Caches
<1>7. OneRowEach(h) /\ AllCovered(h)
  BY <1>1, <1>5 DEF OneRowEach, AllCovered
<1>8. \A q \in Requests : TableOf(h, q) = TableOf(c, q)
  BY <1>1, <1>5, <1>6, SameTables
<1>9. OnePinMore(c, h, id, page)
  <2>1. \A p \in Pages : h.ref[p] = c.ref[p] + (IF p = page THEN 1 ELSE 0)
    BY <1>1, CacheParts DEF Pinning
  <2> QED
    BY <1>3, <1>5, <2>1 DEF OnePinMore
<1>10. ContentsKept(c, h, id)
  BY <1>1, CacheParts DEF ContentsKept, Pinning
<1> QED
  BY <1>3, <1>5, <1>6, <1>7, <1>8, <1>9, <1>10, PinCallKeeps

(* pin_immutable_block *)
LEMMA PinKeeps ==
  ASSUME NEW c, Sound(c), Synced(c), NEW id \in PinIds, id \notin DOMAIN c.pins,
         NEW o \in Requests, NEW k \in Nat \ {0}, k * BlockSize <= c.table[o].offset,
         NEW h, h = PinBlock(c, id, o, k)
  PROVE  /\ Sound(h) /\ AllKept(c, h) /\ PinsKept(c, h)
         /\ DOMAIN h.pins = DOMAIN c.pins \cup {id}
         /\ k <= Len(c.table[o].blocks) /\ h.holds[h.pins[id]] = c.holds[c.table[o].blocks[k]]
<1>1. c \in Caches /\ AllCovered(c) /\ c.table[o] \in Tables
  BY CacheParts DEF Sound
<1>2. c.table[o].blocks \in Seq(Pages) /\ c.table[o].offset \in Nat
      /\ Blocks(c.table[o].offset) <= Len(c.table[o].blocks)
  BY <1>1 DEF Tables, AllCovered, Covered
<1>3. k <= Len(c.table[o].blocks)
  <2>1. PICK n \in Nat : n = c.table[o].offset
    BY <1>2
  <2>2. PICK end : end = k * BlockSize
    OBVIOUS
  <2>3. k <= Blocks(n) /\ Blocks(n) \in Nat
    BY <2>1, <2>2, BlocksSealed, BlocksNat
  <2> QED
    BY <1>2, <2>1, <2>3
<1>4. PICK page \in Pages : page = c.table[o].blocks[k]
  BY <1>2, <1>3
<1>5. PICK u : u = AddRef(c, {page})
  OBVIOUS
<1>6. /\ u.ref = [p \in Pages |-> IF p \in {page} THEN c.ref[p] + 1 ELSE c.ref[p]]
      /\ u = [ref |-> u.ref, holds |-> c.holds, table |-> c.table, rows |-> c.rows,
              pins |-> c.pins]
  BY <1>1, <1>5, AddRefFields
<1>7. h = [u EXCEPT !.pins = WithPin(c.pins, id, page)]
  <2>1. u.pins = c.pins
    BY <1>6
  <2> QED
    BY <1>4, <1>5, <2>1 DEF PinBlock
<1>8. Pinning(c, h, id, page) /\ h.holds = c.holds
  <2>1. PICK pins : pins = WithPin(c.pins, id, page)
    OBVIOUS
  <2>2. h = [u EXCEPT !.pins = pins]
    BY <1>7, <2>1
  <2>3. h = [ref |-> u.ref, holds |-> c.holds, table |-> c.table, rows |-> c.rows,
             pins |-> pins]
    BY <1>6, <2>2
  <2>4. /\ h.ref = u.ref /\ h.holds = c.holds
        /\ h = [ref |-> h.ref, holds |-> h.holds, table |-> c.table, rows |-> c.rows,
                pins |-> pins]
    BY <2>3
  <2>5. c.holds \in [Pages -> Seq(Nat)]
    BY <1>1, CacheParts
  <2> QED
    BY <1>6, <2>1, <2>4, <2>5 DEF Pinning
<1> QED
  BY <1>3, <1>4, <1>8, PinningKeeps


(* install_immutable_block_from_prefix *)
LEMMA AllocatedFree ==
  ASSUME NEW c, FreePages(c) # {}
  PROVE  Allocated(c) \in Pages /\ c.ref[Allocated(c)] = 0
<1>1. Allocated(c) \in FreePages(c)
  BY DEF Allocated
<1> QED
  BY <1>1 DEF FreePages

LEMMA InstallBlockKeeps ==
  ASSUME NEW c, Sound(c), NEW id \in PinIds, id \notin DOMAIN c.pins, FreePages(c) # {},
         NEW text \in Seq(Nat), NEW h, h = InstallBlock(c, id, text)
  PROVE  /\ Sound(h) /\ AllKept(c, h) /\ PinsKept(c, h)
         /\ DOMAIN h.pins = DOMAIN c.pins \cup {id} /\ h.holds[h.pins[id]] = text
<1>1. c \in Caches /\ c.holds \in [Pages -> Seq(Nat)]
  BY CacheParts DEF Sound
<1>2. PICK page \in Pages : page = Allocated(c) /\ c.ref[page] = 0
  BY AllocatedFree
<1>3. PICK u : u = AddRef(c, {page})
  OBVIOUS
<1>4. /\ u.ref = [p \in Pages |-> IF p \in {page} THEN c.ref[p] + 1 ELSE c.ref[p]]
      /\ u.holds = c.holds /\ u.pins = c.pins
      /\ u = [ref |-> u.ref, holds |-> c.holds, table |-> c.table, rows |-> c.rows,
              pins |-> c.pins]
  <2>1. PICK S : S = {page}
    OBVIOUS
  <2>2. u = AddRef(c, S)
    BY <1>3, <2>1
  <2>3. /\ u.ref = [p \in Pages |-> IF p \in S THEN c.ref[p] + 1 ELSE c.ref[p]]
        /\ u.holds = c.holds /\ u.pins = c.pins
        /\ u = [ref |-> u.ref, holds |-> c.holds, table |-> c.table, rows |-> c.rows,
                pins |-> c.pins]
    BY <1>1, <2>2, AddRefFields
  <2> QED
    BY <2>1, <2>3
<1>5. PICK pins : pins = WithPin(c.pins, id, page)
  OBVIOUS
<1>6. PICK holds : holds = [c.holds EXCEPT ![page] = text]
  OBVIOUS
<1>7. h = [u EXCEPT !.pins = pins, !.holds[page] = text]
  <2>1. h = [u EXCEPT !.pins = WithPin(@, id, page), !.holds[page] = text]
    BY <1>2, <1>3, Zenon DEF InstallBlock
  <2>2. WithPin(u.pins, id, page) = pins
    BY <1>4, <1>5
  <2> QED
    BY <2>1, <2>2, Zenon
<1>8. h = [ref |-> u.ref, holds |-> holds, table |-> c.table, rows |-> c.rows, pins |-> pins]
  <2>1. PICK v : v = [u EXCEPT !.pins = pins]
    OBVIOUS
  <2>2. h = [v EXCEPT !.holds[page] = text]
    BY <1>7, <2>1, Zenon
  <2>3. v = [ref |-> u.ref, holds |-> c.holds, table |-> c.table, rows |-> c.rows,
             pins |-> pins]
    <3>1. PICK a : a = u.ref
      OBVIOUS
    <3>2. u = [ref |-> a, holds |-> c.holds, table |-> c.table, rows |-> c.rows,
               pins |-> c.pins]
      BY <1>4, <3>1, Zenon
    <3>3. v = [ref |-> a, holds |-> c.holds, table |-> c.table, rows |-> c.rows,
               pins |-> pins]
      BY <2>1, <3>2
    <3> QED
      BY <3>1, <3>3, Zenon
  <2>4. h = [v EXCEPT !.holds = holds]
    BY <1>6, <2>2, <2>3
  <2> QED
    BY <2>3, <2>4
<1>9. /\ h.ref = u.ref /\ h.holds = holds
      /\ h = [ref |-> h.ref, holds |-> h.holds, table |-> c.table, rows |-> c.rows,
              pins |-> pins]
  BY <1>8
<1>10. /\ holds \in [Pages -> Seq(Nat)]
       /\ \A p \in Pages : c.ref[p] > 0 => holds[p] = c.holds[p]
  BY <1>1, <1>2, <1>6
<1>11. Pinning(c, h, id, page)
  BY <1>4, <1>5, <1>9, <1>10 DEF Pinning
<1>12. h.holds[page] = text
  BY <1>1, <1>6, <1>9
<1> QED
  BY <1>11, <1>12, PinningKeeps

(* release_owner of a pin *)
LEMMA ReleasePinKeeps ==
  ASSUME NEW c, Sound(c), NEW id \in DOMAIN c.pins, NEW h, h = ReleasePin(c, id)
  PROVE  /\ Sound(h) /\ AllKept(c, h) /\ PinsKept(c, h)
         /\ DOMAIN h.pins \subseteq DOMAIN c.pins
<1>1. PICK t : t = Commit(c)
  OBVIOUS
<1>2. /\ t \in Caches /\ Sound(t) /\ AllKept(c, t) /\ t.pins = c.pins /\ t.holds = c.holds
      /\ Counted(t) /\ OneRowEach(t) /\ AllCovered(t)
  BY <1>1, CommitKeeps DEF Sound
<1>3. PICK page \in Pages : page = t.pins[id]
  BY <1>2, CacheParts
<1>4. PICK u : u = Unref(t, {page})
  OBVIOUS
<1>5. /\ u.ref = [p \in Pages |-> IF p \in {page} THEN t.ref[p] - 1 ELSE t.ref[p]]
      /\ u.holds = [p \in Pages |-> IF p \in {page} /\ t.ref[p] = 1 THEN <<>> ELSE t.holds[p]]
      /\ u.pins = t.pins
      /\ u = [ref |-> u.ref, holds |-> u.holds, table |-> t.table, rows |-> t.rows,
              pins |-> t.pins]
  BY <1>2, <1>4, UnrefFields
<1>6. PICK pins : pins = [i \in DOMAIN t.pins \ {id} |-> t.pins[i]]
  OBVIOUS
<1>7. h = [u EXCEPT !.pins = pins]
  BY <1>1, <1>3, <1>4, <1>5, <1>6 DEF ReleasePin
<1>8. h = [ref |-> u.ref, holds |-> u.holds, table |-> t.table, rows |-> t.rows, pins |-> pins]
  BY <1>5, <1>7
<1>9. /\ h.ref = u.ref /\ h.holds = u.holds /\ h.table = t.table /\ h.rows = t.rows
      /\ h.pins = pins
  BY <1>8
<1>10. t.ref[page] >= 1
  <2>1. id \in Pinned(t, page)
    BY <1>2, <1>3 DEF Pinned
  <2> QED
    BY <1>2, <2>1, HeldIsCounted
<1>11. u.ref \in [Pages -> Nat] /\ u.holds \in [Pages -> Seq(Nat)]
  BY <1>2, <1>5, <1>10, CacheParts
<1>12. DOMAIN pins \in PinSets /\ pins \in [DOMAIN pins -> Pages]
  BY <1>2, <1>6, CacheParts, FS_Subset DEF PinSets
<1>13. h \in Caches
  BY <1>2, <1>8, <1>11, <1>12, CacheParts DEF Caches
<1>14. OneRowEach(h) /\ AllCovered(h)
  BY <1>2, <1>9 DEF OneRowEach, AllCovered
<1>15. \A q \in Requests : TableOf(h, q) = TableOf(t, q)
  BY <1>2, <1>9, <1>13, SameTables
<1>16. OnePinLess(t, h, id, page)
  <2>1. \A p \in Pages : h.ref[p] = t.ref[p] - (IF p = page THEN 1 ELSE 0)
    BY <1>2, <1>5, <1>9, CacheParts
  <2> QED
    BY <1>2, <1>3, <1>6, <1>9, <2>1 DEF OnePinLess
<1>17. ContentsKept(t, h, id)
  BY <1>2, <1>3, <1>5, <1>9 DEF ContentsKept
<1>18. Sound(h) /\ AllKept(t, h) /\ PinsKept(t, h)
  BY <1>2, <1>13, <1>14, <1>15, <1>16, <1>17, PinCallKeeps
<1>19. DOMAIN h.pins \subseteq DOMAIN c.pins
  BY <1>2, <1>6, <1>9
<1> QED
  BY <1>2, <1>18, <1>19, KeptOn


-----------------------------------------------------------------------------
(* Calls on rows *)

(* Row i shows r now, and nothing else is different in tables, rows and pins. *)
RowCall(c, h, i, r) ==
  /\ h.table = c.table /\ h.pins = c.pins
  /\ DOMAIN h.rows = DOMAIN c.rows /\ h.rows[i] = r
  /\ \A j \in DOMAIN c.rows : j # i => h.rows[j] = c.rows[j]

(* The owner's table is what row r shows. *)
TableIs(h, o, r) == TableOf(h, o) = [blocks |-> r.blocks, offset |-> r.offset]

(* A call on one row gives its owner other pages, counted. *)
LEMMA RowCallKeeps ==
  ASSUME NEW c, Sound(c), NEW h \in Caches, NEW i \in DOMAIN c.rows, NEW o \in Requests,
         c.rows[i].owner = o, NEW r \in Rows, r.owner = o, RowCall(c, h, i, r),
         IsInjective(r.blocks), Covered(r),
         \A p \in Pages : h.ref[p] = (c.ref[p] - Once(p, c.rows[i].blocks)) + Once(p, r.blocks),
         \A p \in Pages : c.ref[p] > 1 \/ (c.ref[p] = 1 /\ p \notin ToSet(c.rows[i].blocks))
                            => h.holds[p] = c.holds[p]
  PROVE  /\ Sound(h) /\ OthersKept(c, h, o) /\ PinsKept(c, h)
         /\ h.pins = c.pins /\ TableIs(h, o, r)
<1>1. c \in Caches /\ OneRowEach(c) /\ AllCovered(c)
  BY DEF Sound
<1>2. /\ h.table = c.table /\ h.pins = c.pins /\ DOMAIN h.rows = DOMAIN c.rows /\ h.rows[i] = r
      /\ \A j \in DOMAIN c.rows : j # i => h.rows[j] = c.rows[j]
  BY DEF RowCall
<1>3. \A j \in DOMAIN c.rows : h.rows[j].owner = c.rows[j].owner
  BY <1>2
<1>4. OneRowEach(h)
  BY <1>1, <1>2, <1>3 DEF OneRowEach
<1>5. AllCovered(h)
  BY <1>1, <1>2, KVAssumption DEF AllCovered
<1>6. TableOf(c, o).blocks = c.rows[i].blocks
  BY <1>1, TableOfBound
<1>7. /\ TableOf(h, o) = [blocks |-> r.blocks, offset |-> r.offset]
      /\ TableOf(h, o).blocks = r.blocks
  BY <1>2, <1>4, TableOfBound
<1>8. ASSUME NEW q \in Requests, q # o
      PROVE  TableOf(h, q) = TableOf(c, q)
  <2>1. CASE \A j \in DOMAIN c.rows : c.rows[j].owner # q
    <3>1. \A j \in DOMAIN h.rows : h.rows[j].owner # q
      BY <1>2, <1>3, <2>1
    <3>2. TableOf(h, q) = h.table[q] /\ TableOf(c, q) = c.table[q]
      BY <1>1, <2>1, <3>1, TableOfUnbound
    <3> QED
      BY <1>2, <3>2
  <2>2. ASSUME NEW j \in DOMAIN c.rows, c.rows[j].owner = q
        PROVE  TableOf(h, q) = TableOf(c, q)
    <3>1. j \in DOMAIN h.rows /\ h.rows[j] = c.rows[j] /\ h.rows[j].owner = q
      BY <1>2, <1>8, <2>2
    <3>2. TableOf(h, q) = [blocks |-> h.rows[j].blocks, offset |-> h.rows[j].offset]
      BY <1>4, <3>1, TableOfBound
    <3>3. TableOf(c, q) = [blocks |-> c.rows[j].blocks, offset |-> c.rows[j].offset]
      BY <1>1, <2>2, TableOfBound
    <3> QED
      BY <3>1, <3>2, <3>3
  <2> QED
    BY <2>1, <2>2
<1>9. h.pins = c.pins /\ IsInjective(TableOf(h, o).blocks)
  BY <1>2, <1>7
<1>10. \A p \in Pages : h.ref[p] = (c.ref[p] - Once(p, TableOf(c, o).blocks))
                                     + Once(p, TableOf(h, o).blocks)
  BY <1>6, <1>7
<1>11. \A p \in Pages : c.ref[p] > 1 \/ (c.ref[p] = 1 /\ p \notin ToSet(TableOf(c, o).blocks))
                          => h.holds[p] = c.holds[p]
  BY <1>6
<1> QED
  BY <1>2, <1>4, <1>5, <1>7, <1>8, <1>9, <1>10, <1>11, OwnerCallKeeps DEF TableIs

(* The rows of a sound cache: their pages are counted, and none is there twice. *)
LEMMA RowPages ==
  ASSUME NEW c, Sound(c), NEW i \in DOMAIN c.rows, c.rows[i].owner \in Requests
  PROVE  /\ c.rows[i] \in Rows /\ c.rows[i].blocks \in Seq(Pages) /\ c.rows[i].offset \in Nat
         /\ IsInjective(c.rows[i].blocks) /\ Covered(c.rows[i])
         /\ ToSet(c.rows[i].blocks) \subseteq Pages
         /\ \A p \in ToSet(c.rows[i].blocks) : c.ref[p] \in Nat /\ c.ref[p] >= 1
<1> DEFINE o == c.rows[i].owner
<1>1. c \in Caches /\ OneRowEach(c) /\ NoPageTwice(c) /\ Counted(c) /\ AllCovered(c)
  BY DEF Sound
<1>2. c.rows[i] \in Rows
  BY <1>1, CacheParts
<1>3. c.rows[i].blocks \in Seq(Pages) /\ c.rows[i].offset \in Nat
  BY <1>2 DEF Rows
<1>4. ToSet(c.rows[i].blocks) \subseteq Pages
  BY <1>3 DEF ToSet
<1>5. TableOf(c, o).blocks = c.rows[i].blocks
  BY <1>1, TableOfBound
<1>6. IsInjective(c.rows[i].blocks) /\ Covered(c.rows[i])
  BY <1>1, <1>5 DEF NoPageTwice, AllCovered
<1>7. ASSUME NEW p \in ToSet(c.rows[i].blocks)
      PROVE  c.ref[p] \in Nat /\ c.ref[p] >= 1
  <2>1. p \in Pages /\ o \in Owners(c, p)
    BY <1>4, <1>5 DEF Owners
  <2> QED
    BY <1>1, <2>1, HeldIsCounted, CacheParts
<1> QED
  BY <1>2, <1>3, <1>4, <1>6, <1>7


LEMMA RowChanged ==
  ASSUME NEW rows \in Seq(Rows), NEW i \in DOMAIN rows, NEW r \in Rows,
         NEW after, after = [rows EXCEPT ![i] = r]
  PROVE  /\ after \in Seq(Rows) /\ DOMAIN after = DOMAIN rows /\ after[i] = r
         /\ \A j \in DOMAIN rows : j # i => after[j] = rows[j]
  OBVIOUS

(* release_row_pages *)
LEMMA ClearRowKeeps ==
  ASSUME NEW c, Sound(c), NEW i \in DOMAIN c.rows, NEW o \in Requests, c.rows[i].owner = o,
         NEW h, h = ClearRow(c, i)
  PROVE  /\ Sound(h) /\ OthersKept(c, h, o) /\ PinsKept(c, h)
         /\ h.pins = c.pins /\ TableOf(h, o) = EmptyTable
<1>1. c \in Caches /\ c.rows \in Seq(Rows)
  BY CacheParts DEF Sound
<1>2. PICK S : S = ToSet(c.rows[i].blocks)
  OBVIOUS
<1>3. PICK u : u = Unref(c, S)
  OBVIOUS
<1>4. /\ u.ref = [p \in Pages |-> IF p \in S THEN c.ref[p] - 1 ELSE c.ref[p]]
      /\ u.holds = [p \in Pages |-> IF p \in S /\ c.ref[p] = 1 THEN <<>> ELSE c.holds[p]]
      /\ u.rows = c.rows
      /\ u = [ref |-> u.ref, holds |-> u.holds, table |-> c.table, rows |-> c.rows,
              pins |-> c.pins]
  BY <1>1, <1>3, UnrefFields
<1>5. PICK r : r = [owner |-> o, blocks |-> <<>>, offset |-> 0]
  OBVIOUS
<1>6. r \in Rows /\ r.owner = o /\ r.blocks = <<>> /\ r.offset = 0
  BY <1>5 DEF Rows
<1>7. PICK rows : rows = [c.rows EXCEPT ![i] = r]
  OBVIOUS
<1>8. /\ rows \in Seq(Rows) /\ DOMAIN rows = DOMAIN c.rows /\ rows[i] = r
      /\ \A j \in DOMAIN c.rows : j # i => rows[j] = c.rows[j]
  BY <1>1, <1>6, <1>7, RowChanged
<1>9. h = [u EXCEPT !.rows = rows]
  <2>1. h = [u EXCEPT !.rows[i].blocks = <<>>, !.rows[i].offset = 0]
    BY <1>2, <1>3 DEF ClearRow
  <2>2. PICK v : v = [u EXCEPT !.rows[i].blocks = <<>>]
    OBVIOUS
  <2>3. h = [v EXCEPT !.rows[i].offset = 0]
    BY <2>1, <2>2, Zenon
  <2>4. c.rows[i] \in Rows
    BY <1>1
  <2>5. PICK b : b = [owner |-> o, blocks |-> <<>>, offset |-> c.rows[i].offset]
    OBVIOUS
  <2>6. b = [c.rows[i] EXCEPT !.blocks = <<>>] /\ r = [b EXCEPT !.offset = 0]
    BY <1>5, <2>4, <2>5 DEF Rows
  <2>7. v = [u EXCEPT !.rows = [c.rows EXCEPT ![i] = b]]
    BY <1>4, <2>2, <2>6, Zenon
  <2>8. PICK mid : mid = [c.rows EXCEPT ![i] = b]
    OBVIOUS
  <2>9. mid[i] = b /\ [mid EXCEPT ![i] = r] = rows
    BY <1>1, <1>7, <2>8
  <2>10. v = [ref |-> u.ref, holds |-> u.holds, table |-> c.table, rows |-> mid, pins |-> c.pins]
    BY <1>4, <2>7, <2>8
  <2>11. h = [v EXCEPT !.rows = [mid EXCEPT ![i] = r]]
    BY <2>3, <2>6, <2>9, <2>10
  <2>12. h = [v EXCEPT !.rows = rows]
    BY <2>9, <2>11
  <2> QED
    BY <1>4, <2>10, <2>12
<1>10. h = [ref |-> u.ref, holds |-> u.holds, table |-> c.table, rows |-> rows, pins |-> c.pins]
  BY <1>4, <1>9
<1>11. /\ h.ref = u.ref /\ h.holds = u.holds /\ h.table = c.table /\ h.rows = rows
       /\ h.pins = c.pins
  BY <1>10
<1>12. h \in Caches
  <2>1. \A p \in S : c.ref[p] \in Nat /\ c.ref[p] >= 1
    BY <1>2, RowPages
  <2>2. u.ref \in [Pages -> Nat] /\ u.holds \in [Pages -> Seq(Nat)]
    BY <1>1, <1>4, <2>1, CacheParts
  <2> QED
    BY <1>1, <1>8, <1>10, <2>2, CacheParts DEF Caches
<1>13. RowCall(c, h, i, r)
  BY <1>8, <1>11 DEF RowCall
<1>14. IsInjective(r.blocks) /\ Covered(r) /\ \A p : Once(p, r.blocks) = 0
  BY <1>6, EmptyTableType DEF EmptyTable, Covered
<1>15. \A p \in Pages : h.ref[p] = (c.ref[p] - Once(p, c.rows[i].blocks)) + Once(p, r.blocks)
  BY <1>1, <1>2, <1>4, <1>11, <1>14, CacheParts DEF Once
<1>16. \A p \in Pages : c.ref[p] > 1 \/ (c.ref[p] = 1 /\ p \notin ToSet(c.rows[i].blocks))
                          => h.holds[p] = c.holds[p]
  BY <1>2, <1>4, <1>11
<1>17. [blocks |-> r.blocks, offset |-> r.offset] = EmptyTable
  BY <1>6 DEF EmptyTable
<1> QED
  BY <1>6, <1>12, <1>13, <1>14, <1>15, <1>16, <1>17, RowCallKeeps DEF TableIs

(* The offset of a row, when append_on has written all positions up to n *)
Advanced(c, h, i, n) == h = [c EXCEPT !.rows[i].offset = n]

LEMMA AdvanceKeeps ==
  ASSUME NEW c, Sound(c), NEW i \in DOMAIN c.rows, NEW o \in Requests, c.rows[i].owner = o,
         NEW n \in Nat, Blocks(n) <= Len(c.rows[i].blocks),
         NEW h, Advanced(c, h, i, n)
  PROVE  /\ Sound(h) /\ OthersKept(c, h, o) /\ PinsKept(c, h) /\ h.pins = c.pins
         /\ Reads(h, o).offset = n /\ Reads(h, o).pages = Reads(c, o).pages
<1>1. c \in Caches /\ c.rows \in Seq(Rows)
  BY CacheParts DEF Sound
<1>2. /\ c.rows[i] \in Rows /\ c.rows[i].blocks \in Seq(Pages)
      /\ IsInjective(c.rows[i].blocks)
  BY RowPages
<1>3. PICK r : r = [owner |-> o, blocks |-> c.rows[i].blocks, offset |-> n]
  OBVIOUS
<1>4. r \in Rows /\ r.owner = o /\ r.blocks = c.rows[i].blocks /\ r.offset = n
  BY <1>2, <1>3 DEF Rows
<1>5. r = [c.rows[i] EXCEPT !.offset = n]
  BY <1>2, <1>3 DEF Rows
<1>6. PICK rows : rows = [c.rows EXCEPT ![i] = r]
  OBVIOUS
<1>7. /\ rows \in Seq(Rows) /\ DOMAIN rows = DOMAIN c.rows /\ rows[i] = r
      /\ \A j \in DOMAIN c.rows : j # i => rows[j] = c.rows[j]
  BY <1>1, <1>4, <1>6, RowChanged
<1>8. h = [c EXCEPT !.rows = rows]
  BY <1>5, <1>6, Zenon DEF Advanced
<1>9. h = [ref |-> c.ref, holds |-> c.holds, table |-> c.table, rows |-> rows, pins |-> c.pins]
  BY <1>1, <1>8 DEF Caches
<1>10. /\ h.ref = c.ref /\ h.holds = c.holds /\ h.table = c.table /\ h.rows = rows
       /\ h.pins = c.pins
  BY <1>9
<1>11. h \in Caches
  BY <1>1, <1>7, <1>9, CacheParts DEF Caches
<1>12. RowCall(c, h, i, r)
  BY <1>7, <1>10 DEF RowCall
<1>13. Covered(r) /\ IsInjective(r.blocks)
  BY <1>2, <1>4 DEF Covered
<1>14. \A p \in Pages : h.ref[p] = (c.ref[p] - Once(p, c.rows[i].blocks)) + Once(p, r.blocks)
  BY <1>1, <1>4, <1>10, CacheParts DEF Once
<1>15. \A p \in Pages : h.holds[p] = c.holds[p]
  BY <1>10
<1>16. /\ Sound(h) /\ OthersKept(c, h, o) /\ PinsKept(c, h) /\ h.pins = c.pins
       /\ TableIs(h, o, r)
  BY <1>4, <1>11, <1>12, <1>13, <1>14, <1>15, RowCallKeeps
<1>17. TableOf(h, o).offset = n /\ TableOf(h, o).blocks = TableOf(c, o).blocks
  <2>1. TableOf(c, o) = [blocks |-> c.rows[i].blocks, offset |-> c.rows[i].offset]
    BY TableOfBound DEF Sound
  <2>2. TableOf(c, o).blocks = c.rows[i].blocks
    BY <2>1
  <2> QED
    BY <1>4, <1>16, <2>2 DEF TableIs
<1> QED
  BY <1>10, <1>16, <1>17 DEF Reads

RowWith(c, i, b) == [owner |-> c.rows[i].owner, blocks |-> b, offset |-> c.rows[i].offset]

(* What a write changes: one count, one row's pages, one page's contents. *)
Stored(c, h, i, b, page, count, text) ==
  /\ h \in Caches /\ RowWith(c, i, b) \in Rows /\ RowCall(c, h, i, RowWith(c, i, b))
  /\ \A p \in Pages : h.ref[p] = IF p = page THEN count ELSE c.ref[p]
  /\ \A p \in Pages : h.holds[p] = IF p = page THEN text ELSE c.holds[p]

LEMMA StoreFields ==
  ASSUME NEW c \in Caches, NEW i \in DOMAIN c.rows,
         NEW b \in Seq(Pages), NEW page \in Pages, NEW count \in Nat, NEW text \in Seq(Nat)
  PROVE  Stored(c, Store(c, i, b, page, count, text), i, b, page, count, text)
<1>h. PICK h : h = Store(c, i, b, page, count, text)
  OBVIOUS
<1>o. PICK o : o = c.rows[i].owner
  OBVIOUS
<1>r. PICK r : r = RowWith(c, i, b)
  OBVIOUS
<1>1. /\ c.rows \in Seq(Rows) /\ c.rows[i] \in Rows
      /\ c.ref \in [Pages -> Nat] /\ c.holds \in [Pages -> Seq(Nat)]
      /\ c = [ref |-> c.ref, holds |-> c.holds, table |-> c.table, rows |-> c.rows,
              pins |-> c.pins]
  BY CacheParts
<1>2. r \in Rows /\ r = [c.rows[i] EXCEPT !.blocks = b]
  <2>1. PICK old : old = c.rows[i]
    OBVIOUS
  <2>2. old = [owner |-> o, blocks |-> old.blocks, offset |-> old.offset] /\ old \in Rows
    BY <1>1, <1>o, <2>1 DEF Rows
  <2>3. r \in Rows
    BY <1>1, <1>o, <1>r, <2>1, <2>2 DEF Rows, RowWith
  <2>4. [old EXCEPT !.blocks = b] = [owner |-> o, blocks |-> b, offset |-> old.offset]
    BY <2>2
  <2> QED
    BY <1>o, <1>r, <2>1, <2>3, <2>4, Zenon DEF RowWith
<1>3. PICK ref : ref = [c.ref EXCEPT ![page] = count]
  OBVIOUS
<1>4. PICK rows : rows = [c.rows EXCEPT ![i] = r]
  OBVIOUS
<1>5. PICK holds : holds = [c.holds EXCEPT ![page] = text]
  OBVIOUS
<1>6. /\ rows \in Seq(Rows) /\ DOMAIN rows = DOMAIN c.rows /\ rows[i] = r
      /\ \A j \in DOMAIN c.rows : j # i => rows[j] = c.rows[j]
  BY <1>1, <1>2, <1>4, RowChanged
<1>7. ref \in [Pages -> Nat] /\ holds \in [Pages -> Seq(Nat)]
  BY <1>1, <1>3, <1>5
<1>8. h = [ref |-> ref, holds |-> holds, table |-> c.table, rows |-> rows, pins |-> c.pins]
  <2>1. h = [c EXCEPT !.ref[page] = count, !.rows[i].blocks = b, !.holds[page] = text]
    BY <1>h DEF Store
  <2>2. PICK u : u = [c EXCEPT !.ref[page] = count]
    OBVIOUS
  <2>3. PICK v : v = [u EXCEPT !.rows[i].blocks = b]
    OBVIOUS
  <2>4. h = [v EXCEPT !.holds[page] = text]
    BY <2>1, <2>2, <2>3, Zenon
  <2>5. u = [c EXCEPT !.ref = ref]
    BY <1>3, <2>2, Zenon
  <2>6. u = [ref |-> ref, holds |-> c.holds, table |-> c.table, rows |-> c.rows, pins |-> c.pins]
    BY <1>1, <2>5
  <2>7. u.rows = c.rows
    BY <2>6
  <2>8. v = [u EXCEPT !.rows = rows]
    BY <1>2, <1>4, <2>3, <2>7, Zenon
  <2>9. v = [ref |-> ref, holds |-> c.holds, table |-> c.table, rows |-> rows, pins |-> c.pins]
    BY <2>6, <2>8
  <2>10. v.holds = c.holds
    BY <2>9
  <2>11. h = [v EXCEPT !.holds = holds]
    BY <1>5, <2>4, <2>10, Zenon
  <2> QED
    BY <2>9, <2>11
<1>9. /\ h.ref = ref /\ h.holds = holds /\ h.table = c.table /\ h.rows = rows
      /\ h.pins = c.pins
  BY <1>8
<1>10. h \in Caches
  BY <1>6, <1>7, <1>8, CacheParts DEF Caches
<1>11. RowCall(c, h, i, r)
  BY <1>6, <1>9 DEF RowCall
<1>12. \A p \in Pages : h.ref[p] = IF p = page THEN count ELSE c.ref[p]
  BY <1>1, <1>3, <1>9
<1>13. \A p \in Pages : h.holds[p] = IF p = page THEN text ELSE c.holds[p]
  BY <1>1, <1>5, <1>9
<1>14. Stored(c, h, i, b, page, count, text)
  BY <1>2, <1>r, <1>10, <1>11, <1>12, <1>13 DEF Stored
<1> QED
  BY <1>h, <1>14

(* One position of row i is written: its k-th page holds w now. *)
Rewritten(v, u, k, w) ==
  /\ DOMAIN u = DOMAIN v \cup {k} /\ u[k] = w
  /\ \A j \in DOMAIN v : j # k => u[j] = v[j]
Written(c, h, i, o, k, w) ==
  /\ Sound(h) /\ OthersKept(c, h, o) /\ PinsKept(c, h) /\ h.pins = c.pins
  /\ DOMAIN h.rows = DOMAIN c.rows /\ h.rows[i].owner = o /\ h.rows[i].offset = c.rows[i].offset
  /\ k <= Len(h.rows[i].blocks)
  /\ Reads(h, o).offset = Reads(c, o).offset
  /\ Rewritten(Reads(c, o).pages, Reads(h, o).pages, k, w)

RowRewritten(c, h, i, r, k, w) ==
  /\ r.offset = c.rows[i].offset
  /\ DOMAIN r.blocks = DOMAIN c.rows[i].blocks \cup {k} /\ h.holds[r.blocks[k]] = w
  /\ \A j \in DOMAIN c.rows[i].blocks :
       j # k => /\ r.blocks[j] = c.rows[i].blocks[j]
                /\ h.holds[r.blocks[j]] = c.holds[c.rows[i].blocks[j]]

LEMMA PageRewritten ==
  ASSUME NEW c, Sound(c), NEW h, NEW i \in DOMAIN c.rows, NEW o \in Requests,
         c.rows[i].owner = o, NEW r,
         TableIs(h, o, r), NEW k, NEW w, RowRewritten(c, h, i, r, k, w)
  PROVE  /\ Reads(h, o).offset = Reads(c, o).offset
         /\ Rewritten(Reads(c, o).pages, Reads(h, o).pages, k, w)
<1>1. TableOf(c, o) = [blocks |-> c.rows[i].blocks, offset |-> c.rows[i].offset]
  BY TableOfBound DEF Sound
<1>2. PICK b, u : b = c.rows[i].blocks /\ u = r.blocks
  OBVIOUS
<1>3. /\ Reads(c, o).offset = c.rows[i].offset
      /\ Reads(c, o).pages = [j \in DOMAIN b |-> c.holds[b[j]]]
  BY <1>1, <1>2 DEF Reads
<1>4. /\ Reads(h, o).offset = r.offset
      /\ Reads(h, o).pages = [j \in DOMAIN u |-> h.holds[u[j]]]
  BY <1>2 DEF Reads, TableIs
<1>5. PICK v, z : v = Reads(c, o).pages /\ z = Reads(h, o).pages
  OBVIOUS
<1>6. /\ DOMAIN v = DOMAIN b /\ DOMAIN z = DOMAIN u
      /\ \A j \in DOMAIN b : v[j] = c.holds[b[j]]
      /\ \A j \in DOMAIN u : z[j] = h.holds[u[j]]
  BY <1>3, <1>4, <1>5
<1>7. /\ r.offset = c.rows[i].offset
      /\ DOMAIN u = DOMAIN b \cup {k} /\ h.holds[u[k]] = w
      /\ \A j \in DOMAIN b : j # k => u[j] = b[j] /\ h.holds[u[j]] = c.holds[b[j]]
  BY <1>2 DEF RowRewritten
<1>8. Rewritten(v, z, k, w)
  <2>1. DOMAIN z = DOMAIN v \cup {k} /\ z[k] = w
    BY <1>6, <1>7
  <2>2. ASSUME NEW j \in DOMAIN v, j # k PROVE z[j] = v[j]
    BY <1>6, <1>7, <2>2
  <2> QED
    BY <2>1, <2>2 DEF Rewritten
<1> QED
  BY <1>3, <1>4, <1>5, <1>7, <1>8, Zenon

Appended(b, page, longer) ==
  /\ longer \in Seq(Pages) /\ Len(longer) = Len(b) + 1 /\ IsInjective(longer)
  /\ ToSet(longer) = ToSet(b) \cup {page}
  /\ DOMAIN longer = DOMAIN b \cup {Len(b) + 1}
  /\ longer[Len(b) + 1] = page /\ \A j \in DOMAIN b : longer[j] = b[j]

LEMMA AppendOne ==
  ASSUME NEW b \in Seq(Pages), IsInjective(b), NEW page \in Pages, page \notin ToSet(b)
  PROVE  Appended(b, page, Append(b, page))
<1>0. PICK longer : longer = Append(b, page)
  OBVIOUS
<1>1. longer \in Seq(Pages) /\ Len(longer) = Len(b) + 1 /\ Len(b) \in Nat
  BY <1>0
<1>2. longer[Len(b) + 1] = page /\ \A n \in 1..Len(b) : longer[n] = b[n]
  BY <1>0
<1>3. DOMAIN longer = 1..(Len(b) + 1) /\ DOMAIN b = 1..Len(b)
  BY <1>1
<1>4. IsInjective(longer)
  BY <1>1, <1>2, <1>3 DEF IsInjective, ToSet
<1>5. ToSet(longer) = ToSet(b) \cup {page}
  BY <1>1, <1>2, <1>3 DEF ToSet
<1>6. Appended(b, page, longer)
  BY <1>1, <1>2, <1>3, <1>4, <1>5 DEF Appended
<1> QED
  BY <1>0, <1>6

Replaced(b, k, page, other) ==
  /\ other \in Seq(Pages) /\ Len(other) = Len(b) /\ IsInjective(other)
  /\ ToSet(other) = (ToSet(b) \ {b[k]}) \cup {page}
  /\ DOMAIN other = DOMAIN b
  /\ other[k] = page /\ \A j \in DOMAIN b : j # k => other[j] = b[j]

LEMMA ReplaceOne ==
  ASSUME NEW b \in Seq(Pages), IsInjective(b), NEW page \in Pages, page \notin ToSet(b),
         NEW k \in 1..Len(b)
  PROVE  Replaced(b, k, page, [b EXCEPT ![k] = page])
<1>0. PICK other : other = [b EXCEPT ![k] = page]
  OBVIOUS
<1>1. other \in Seq(Pages) /\ Len(other) = Len(b) /\ Len(b) \in Nat
  BY <1>0
<1>2. other[k] = page /\ \A n \in 1..Len(b) : n # k => other[n] = b[n]
  BY <1>0
<1>3. DOMAIN other = 1..Len(b) /\ DOMAIN b = 1..Len(b)
  BY <1>1
<1>4. IsInjective(other)
  BY <1>1, <1>2, <1>3 DEF IsInjective, ToSet
<1>5. ToSet(other) = (ToSet(b) \ {b[k]}) \cup {page}
  BY <1>1, <1>2, <1>3 DEF IsInjective, ToSet
<1>6. Replaced(b, k, page, other)
  BY <1>1, <1>2, <1>3, <1>4, <1>5 DEF Replaced
<1> QED
  BY <1>0, <1>6

(* A page is allocated for the position. *)
LEMMA WriteFresh ==
  ASSUME NEW c, Sound(c), NEW i \in DOMAIN c.rows, NEW o \in Requests, c.rows[i].owner = o,
         FreePages(c) # {}, NEW text \in Seq(Nat),
         NEW h, h = Store(c, i, Append(c.rows[i].blocks, Allocated(c)), Allocated(c), 1, text)
  PROVE  Written(c, h, i, o, Len(c.rows[i].blocks) + 1, text)
<1>1. c \in Caches /\ c.ref \in [Pages -> Nat]
  BY CacheParts DEF Sound
<1>2. PICK b : b = c.rows[i].blocks
  OBVIOUS
<1>3. /\ b \in Seq(Pages) /\ c.rows[i].offset \in Nat /\ IsInjective(b)
      /\ Blocks(c.rows[i].offset) <= Len(b) /\ ToSet(b) \subseteq Pages
      /\ \A p \in ToSet(b) : c.ref[p] >= 1
  BY <1>2, RowPages DEF Covered
<1>4. PICK page \in Pages : page = Allocated(c) /\ c.ref[page] = 0
  BY AllocatedFree
<1>5. page \notin ToSet(b)
  BY <1>3, <1>4
<1>6. PICK longer : longer = Append(b, page)
  OBVIOUS
<1>7. /\ longer \in Seq(Pages) /\ Len(longer) = Len(b) + 1 /\ IsInjective(longer)
      /\ ToSet(longer) = ToSet(b) \cup {page}
      /\ DOMAIN longer = DOMAIN b \cup {Len(b) + 1}
      /\ longer[Len(b) + 1] = page /\ \A j \in DOMAIN b : longer[j] = b[j]
  BY <1>3, <1>5, <1>6, AppendOne DEF Appended
<1>8. h = Store(c, i, longer, page, 1, text)
  BY <1>2, <1>4, <1>6, Zenon
<1>9. Stored(c, h, i, longer, page, 1, text)
  BY <1>1, <1>7, <1>8, StoreFields
<1>10. PICK r : r = RowWith(c, i, longer)
  OBVIOUS
<1>11. /\ h \in Caches /\ RowCall(c, h, i, r) /\ r \in Rows
       /\ r.owner = o /\ r.blocks = longer /\ r.offset = c.rows[i].offset
  BY <1>9, <1>10 DEF Stored, RowWith
<1>12. Covered(r) /\ IsInjective(r.blocks)
  <2>1. Blocks(c.rows[i].offset) \in Nat
    BY <1>3, BlocksNat
  <2> QED
    BY <1>3, <1>7, <1>11, <2>1 DEF Covered
<1>13. \A p \in Pages : h.ref[p] = (c.ref[p] - Once(p, c.rows[i].blocks)) + Once(p, r.blocks)
  <2>1. \A p \in Pages : h.ref[p] = IF p = page THEN 1 ELSE c.ref[p]
    BY <1>9 DEF Stored
  <2>2. \A p \in Pages : h.ref[p] = (c.ref[p] - Once(p, b)) + Once(p, longer)
    BY <1>1, <1>4, <1>5, <1>7, <2>1 DEF Once
  <2> QED
    BY <1>2, <1>11, <2>2
<1>14. \A p \in Pages : c.ref[p] > 1 \/ (c.ref[p] = 1 /\ p \notin ToSet(c.rows[i].blocks))
                          => h.holds[p] = c.holds[p]
  <2>1. \A p \in Pages : h.holds[p] = IF p = page THEN text ELSE c.holds[p]
    BY <1>9 DEF Stored
  <2> QED
    BY <1>1, <1>4, <2>1
<1>15. /\ Sound(h) /\ OthersKept(c, h, o) /\ PinsKept(c, h) /\ h.pins = c.pins
       /\ TableIs(h, o, r)
  BY <1>11, <1>12, <1>13, <1>14, RowCallKeeps
<1>16. DOMAIN h.rows = DOMAIN c.rows /\ h.rows[i] = r
  BY <1>11 DEF RowCall
<1>17. /\ h.holds[page] = text
       /\ \A j \in DOMAIN b : h.holds[b[j]] = c.holds[b[j]]
  <2>1. \A p \in Pages : h.holds[p] = IF p = page THEN text ELSE c.holds[p]
    BY <1>9 DEF Stored
  <2>2. \A j \in DOMAIN b : b[j] \in Pages /\ b[j] # page
    BY <1>3, <1>5 DEF ToSet
  <2> QED
    BY <2>1, <2>2
<1>18. /\ Reads(h, o).offset = Reads(c, o).offset
       /\ Rewritten(Reads(c, o).pages, Reads(h, o).pages, Len(b) + 1, text)
  <2>1. PICK k : k = Len(b) + 1
    OBVIOUS
  <2>2. DOMAIN r.blocks = DOMAIN b \cup {k} /\ h.holds[r.blocks[k]] = text
    BY <1>7, <1>11, <1>17, <2>1, Zenon
  <2>3. \A j \in DOMAIN b : r.blocks[j] = b[j] /\ h.holds[r.blocks[j]] = c.holds[b[j]]
    BY <1>7, <1>11, <1>17, Zenon
  <2>4. RowRewritten(c, h, i, r, k, text)
    BY <1>2, <1>11, <2>2, <2>3, Zenon DEF RowRewritten
  <2> QED
    BY <1>2, <1>11, <1>15, <2>1, <2>4, PageRewritten
<1>19. PICK k : k = Len(b) + 1
  OBVIOUS
<1>20. h.rows[i].owner = o /\ h.rows[i].offset = c.rows[i].offset
  BY <1>11, <1>16
<1>21. k <= Len(h.rows[i].blocks)
  <2>1. h.rows[i].blocks = longer
    BY <1>11, <1>16, Zenon
  <2>2. Len(b) \in Nat /\ Len(h.rows[i].blocks) = Len(b) + 1
    BY <1>3, <1>7, <2>1
  <2> QED
    BY <1>19, <2>2
<1>22. Written(c, h, i, o, k, text)
  BY <1>15, <1>16, <1>18, <1>19, <1>20, <1>21 DEF Written
<1> QED
  BY <1>2, <1>19, <1>22

(* A shared page is given up for a page of its own. *)
SharedWrite(c, h, i, k, text) ==
  h = Store(Unref(c, {c.rows[i].blocks[k]}), i,
            [c.rows[i].blocks EXCEPT ![k] = Allocated(c)], Allocated(c), 1, text)

LEMMA WriteShared ==
  ASSUME NEW c, Sound(c), NEW i \in DOMAIN c.rows, NEW o \in Requests, c.rows[i].owner = o,
         FreePages(c) # {}, NEW text \in Seq(Nat), NEW k \in 1..Len(c.rows[i].blocks),
         c.ref[c.rows[i].blocks[k]] > 1,
         NEW h, SharedWrite(c, h, i, k, text)
  PROVE  Written(c, h, i, o, k, text)
<1>1. c \in Caches /\ c.ref \in [Pages -> Nat]
  BY CacheParts DEF Sound
<1>2. PICK b : b = c.rows[i].blocks
  OBVIOUS
<1>3. /\ b \in Seq(Pages) /\ c.rows[i].offset \in Nat /\ IsInjective(b)
      /\ Blocks(c.rows[i].offset) <= Len(b) /\ ToSet(b) \subseteq Pages
      /\ \A p \in ToSet(b) : c.ref[p] >= 1
  BY <1>2, RowPages DEF Covered
<1>4. PICK page \in Pages : page = Allocated(c) /\ c.ref[page] = 0
  BY AllocatedFree
<1>5. page \notin ToSet(b) /\ k \in 1..Len(b)
  BY <1>2, <1>3, <1>4
<1>6. PICK old \in Pages : old = b[k] /\ c.ref[old] > 1
  BY <1>2, <1>3, <1>5
<1>7. old \in ToSet(b) /\ old # page
  BY <1>3, <1>4, <1>5, <1>6 DEF ToSet
<1>8. PICK other : other = [b EXCEPT ![k] = page]
  OBVIOUS
<1>9. /\ other \in Seq(Pages) /\ Len(other) = Len(b) /\ IsInjective(other)
      /\ ToSet(other) = (ToSet(b) \ {old}) \cup {page}
      /\ DOMAIN other = DOMAIN b
      /\ other[k] = page /\ \A j \in DOMAIN b : j # k => other[j] = b[j]
  <2>1. Replaced(b, k, page, other)
    BY <1>3, <1>5, <1>8, ReplaceOne
  <2> QED
    BY <1>6, <2>1 DEF Replaced
<1>10. PICK u : u = Unref(c, {old})
  OBVIOUS
<1>11. /\ u.ref = [p \in Pages |-> IF p = old THEN c.ref[p] - 1 ELSE c.ref[p]]
       /\ u.holds = c.holds /\ u.table = c.table /\ u.rows = c.rows /\ u.pins = c.pins
       /\ u \in Caches
  <2>1. PICK S : S = {old}
    OBVIOUS
  <2>2. u = Unref(c, S)
    BY <1>10, <2>1
  <2>3. /\ u.ref = [p \in Pages |-> IF p \in S THEN c.ref[p] - 1 ELSE c.ref[p]]
        /\ u.holds = [p \in Pages |-> IF p \in S /\ c.ref[p] = 1 THEN <<>> ELSE c.holds[p]]
        /\ u = [ref |-> u.ref, holds |-> u.holds, table |-> c.table, rows |-> c.rows,
                pins |-> c.pins]
    <3>1. c \in Caches
      BY <1>1, Zenon
    <3> QED
      BY <2>2, <3>1, UnrefFields
  <2>4. u.ref = [p \in Pages |-> IF p = old THEN c.ref[p] - 1 ELSE c.ref[p]]
    BY <2>1, <2>3
  <2>5. c.holds \in [Pages -> Seq(Nat)]
    BY <1>1, CacheParts
  <2>6. u.holds = c.holds
    BY <1>6, <2>1, <2>3, <2>5
  <2>7. u.ref \in [Pages -> Nat]
    BY <1>1, <1>6, <2>4
  <2>8. u.table = c.table /\ u.rows = c.rows /\ u.pins = c.pins
    BY <2>3
  <2>9. u \in Caches
    BY <1>1, <2>3, <2>5, <2>6, <2>7, CacheParts DEF Caches
  <2> QED
    BY <2>4, <2>6, <2>8, <2>9
<1>12. h = Store(u, i, other, page, 1, text)
  BY <1>2, <1>4, <1>6, <1>8, <1>10, Zenon DEF SharedWrite
<1>13. Stored(u, h, i, other, page, 1, text)
  <2>1. i \in DOMAIN u.rows
    BY <1>11
  <2> QED
    BY <1>9, <1>11, <1>12, <2>1, StoreFields
<1>14. PICK r : r = RowWith(u, i, other)
  OBVIOUS
<1>15. /\ h \in Caches /\ RowCall(c, h, i, r) /\ r \in Rows
       /\ r.owner = o /\ r.blocks = other /\ r.offset = c.rows[i].offset
  <2>1. h \in Caches /\ RowCall(u, h, i, r) /\ r \in Rows
    BY <1>13, <1>14 DEF Stored
  <2>2. r.owner = o /\ r.blocks = other /\ r.offset = c.rows[i].offset
    BY <1>11, <1>14 DEF RowWith
  <2>3. RowCall(c, h, i, r)
    BY <1>11, <2>1 DEF RowCall
  <2> QED
    BY <2>1, <2>2, <2>3
<1>16. Covered(r) /\ IsInjective(r.blocks)
  BY <1>3, <1>9, <1>15 DEF Covered
<1>17. \A p \in Pages : h.ref[p] = (c.ref[p] - Once(p, c.rows[i].blocks)) + Once(p, r.blocks)
  <2>1. \A p \in Pages : h.ref[p] = IF p = page THEN 1 ELSE u.ref[p]
    BY <1>13 DEF Stored
  <2>2. \A p \in Pages : h.ref[p] = (c.ref[p] - Once(p, b)) + Once(p, other)
    <3>1. /\ Once(page, b) = 0 /\ Once(page, other) = 1
          /\ Once(old, b) = 1 /\ Once(old, other) = 0
      BY <1>5, <1>7, <1>9 DEF Once
    <3>2. h.ref[page] = 1 /\ c.ref[page] = 0
      BY <1>4, <2>1
    <3>3. h.ref[old] = c.ref[old] - 1 /\ c.ref[old] \in Nat
      BY <1>1, <1>7, <1>11, <2>1
    <3>4. ASSUME NEW p \in Pages, p # page, p # old
          PROVE  /\ h.ref[p] = c.ref[p] /\ c.ref[p] \in Nat
                 /\ Once(p, b) = Once(p, other) /\ Once(p, b) \in Nat
      <4>1. h.ref[p] = c.ref[p] /\ c.ref[p] \in Nat
        BY <1>1, <1>11, <2>1, <3>4
      <4>2. p \in ToSet(b) <=> p \in ToSet(other)
        BY <1>9, <3>4
      <4> QED
        BY <4>1, <4>2 DEF Once
    <3>5. \A p \in Pages : p # page /\ p # old
                          => h.ref[p] = (c.ref[p] - Once(p, b)) + Once(p, other)
      BY <3>4
    <3> QED
      BY <3>1, <3>2, <3>3, <3>5
  <2> QED
    BY <1>2, <1>15, <2>2
<1>18. \A p \in Pages : c.ref[p] > 1 \/ (c.ref[p] = 1 /\ p \notin ToSet(c.rows[i].blocks))
                          => h.holds[p] = c.holds[p]
  <2>1. \A p \in Pages : h.holds[p] = IF p = page THEN text ELSE u.holds[p]
    BY <1>13 DEF Stored
  <2>2. \A p \in Pages : p # page => h.holds[p] = c.holds[p]
    BY <1>11, <2>1
  <2> QED
    BY <1>1, <1>4, <2>2
<1>19. /\ Sound(h) /\ OthersKept(c, h, o) /\ PinsKept(c, h) /\ h.pins = c.pins
       /\ TableIs(h, o, r)
  BY <1>15, <1>16, <1>17, <1>18, RowCallKeeps
<1>20. DOMAIN h.rows = DOMAIN c.rows /\ h.rows[i] = r
  BY <1>15 DEF RowCall
<1>21. /\ h.holds[page] = text
       /\ \A j \in DOMAIN b : h.holds[b[j]] = c.holds[b[j]]
  <2>1. \A p \in Pages : h.holds[p] = IF p = page THEN text ELSE u.holds[p]
    BY <1>13 DEF Stored
  <2>2. \A j \in DOMAIN b : b[j] \in Pages /\ b[j] # page
    BY <1>3, <1>5 DEF ToSet
  <2> QED
    BY <1>11, <2>1, <2>2
<1>22. /\ Reads(h, o).offset = Reads(c, o).offset
       /\ Rewritten(Reads(c, o).pages, Reads(h, o).pages, k, text)
  <2>1. DOMAIN r.blocks = DOMAIN b \cup {k} /\ h.holds[r.blocks[k]] = text
    <3>1. k \in DOMAIN b
      BY <1>3, <1>5
    <3>2. DOMAIN b = DOMAIN b \cup {k}
      BY <3>1, Zenon
    <3> QED
      BY <1>9, <1>15, <1>21, <3>2, Zenon
  <2>2. \A j \in DOMAIN b : j # k => r.blocks[j] = b[j] /\ h.holds[r.blocks[j]] = c.holds[b[j]]
    BY <1>9, <1>15, <1>21, Zenon
  <2>3. RowRewritten(c, h, i, r, k, text)
    BY <1>2, <1>15, <2>1, <2>2, Zenon DEF RowRewritten
  <2> QED
    BY <1>15, <1>19, <2>3, PageRewritten
<1> QED
  BY <1>2, <1>3, <1>9, <1>15, <1>19, <1>20, <1>22 DEF Written

(* A page of the row's own is written in place. *)
OwnWrite(c, h, i, k, text) ==
  h = Store(c, i, c.rows[i].blocks, c.rows[i].blocks[k], c.ref[c.rows[i].blocks[k]], text)

LEMMA WriteOwn ==
  ASSUME NEW c, Sound(c), NEW i \in DOMAIN c.rows, NEW o \in Requests, c.rows[i].owner = o,
         NEW text \in Seq(Nat), NEW k \in 1..Len(c.rows[i].blocks),
         ~(c.ref[c.rows[i].blocks[k]] > 1),
         NEW h, OwnWrite(c, h, i, k, text)
  PROVE  Written(c, h, i, o, k, text)
<1>1. c \in Caches /\ c.ref \in [Pages -> Nat]
  BY CacheParts DEF Sound
<1>2. PICK b : b = c.rows[i].blocks
  OBVIOUS
<1>3. /\ b \in Seq(Pages) /\ IsInjective(b) /\ Blocks(c.rows[i].offset) <= Len(b)
      /\ \A p \in ToSet(b) : c.ref[p] >= 1
  BY <1>2, RowPages DEF Covered
<1>4. PICK page \in Pages : page = b[k] /\ page \in ToSet(b)
  BY <1>2, <1>3 DEF ToSet
<1>5. PICK count \in Nat : count = c.ref[page] /\ count = 1
  <2>1. c.ref[page] \in Nat /\ c.ref[page] >= 1
    BY <1>1, <1>3, <1>4
  <2> QED
    BY <1>2, <1>4, <2>1
<1>6. h = Store(c, i, b, page, count, text)
  BY <1>2, <1>4, <1>5, Zenon DEF OwnWrite
<1>7. Stored(c, h, i, b, page, count, text)
  BY <1>1, <1>3, <1>6, StoreFields
<1>8. PICK r : r = RowWith(c, i, b)
  OBVIOUS
<1>9. /\ h \in Caches /\ RowCall(c, h, i, r) /\ r \in Rows
      /\ r.owner = o /\ r.blocks = b /\ r.offset = c.rows[i].offset
  BY <1>7, <1>8 DEF Stored, RowWith
<1>10. Covered(r) /\ IsInjective(r.blocks)
  BY <1>3, <1>9 DEF Covered
<1>11. \A p \in Pages : h.ref[p] = (c.ref[p] - Once(p, c.rows[i].blocks)) + Once(p, r.blocks)
  <2>1. \A p \in Pages : h.ref[p] = IF p = page THEN count ELSE c.ref[p]
    BY <1>7 DEF Stored
  <2> QED
    <3>1. \A p \in Pages : h.ref[p] = c.ref[p] /\ c.ref[p] \in Nat
      BY <1>1, <1>5, <2>1
    <3>2. \A p \in Pages : Once(p, b) \in Nat
      BY DEF Once
    <3> QED
      BY <1>2, <1>9, <3>1, <3>2
<1>12. \A p \in Pages : c.ref[p] > 1 \/ (c.ref[p] = 1 /\ p \notin ToSet(c.rows[i].blocks))
                          => h.holds[p] = c.holds[p]
  <2>1. \A p \in Pages : h.holds[p] = IF p = page THEN text ELSE c.holds[p]
    BY <1>7 DEF Stored
  <2> QED
    BY <1>2, <1>4, <1>5, <2>1
<1>13. /\ Sound(h) /\ OthersKept(c, h, o) /\ PinsKept(c, h) /\ h.pins = c.pins
       /\ TableIs(h, o, r)
  BY <1>9, <1>10, <1>11, <1>12, RowCallKeeps
<1>14. DOMAIN h.rows = DOMAIN c.rows /\ h.rows[i] = r
  BY <1>9 DEF RowCall
<1>15. /\ h.holds[page] = text
       /\ \A j \in DOMAIN b : j # k => h.holds[b[j]] = c.holds[b[j]]
  <2>1. \A p \in Pages : h.holds[p] = IF p = page THEN text ELSE c.holds[p]
    BY <1>7 DEF Stored
  <2>2. k \in DOMAIN b /\ \A j \in DOMAIN b : b[j] \in Pages
    BY <1>2, <1>3
  <2>3. \A j \in DOMAIN b : j # k => b[j] # page
    BY <1>3, <1>4, <2>2 DEF IsInjective
  <2> QED
    BY <2>1, <2>2, <2>3
<1>16. /\ Reads(h, o).offset = Reads(c, o).offset
       /\ Rewritten(Reads(c, o).pages, Reads(h, o).pages, k, text)
  <2>1. DOMAIN b = DOMAIN b \cup {k}
    BY <1>2, <1>3
  <2>2. RowRewritten(c, h, i, r, k, text)
    BY <1>2, <1>4, <1>9, <1>15, <2>1 DEF RowRewritten
  <2> QED
    BY <1>9, <1>13, <2>2, PageRewritten
<1> QED
  <2>1. k <= Len(b)
    BY <1>2, <1>3
  <2> QED
    BY <1>9, <1>13, <1>14, <1>16, <2>1 DEF Written


(* What the page of the last position of `text' holds when that is written *)
LastWritten(c, i, k, text) ==
  IF \/ (Len(text) - 1) % BlockSize = 0
     \/ IsPrefix(Prefix(text, Len(text) - 1), c.holds[c.rows[i].blocks[k]])
  THEN text ELSE <<>>

(* append_on, one position: it is refused for want of a page and changes nothing, or
   it is written and is the row's own. *)
LEMMA PutKeeps ==
  ASSUME NEW c, Sound(c), NEW i \in DOMAIN c.rows, NEW o \in Requests, c.rows[i].owner = o,
         NEW text \in Seq(Nat), NEW k \in Nat \ {0}, k = Blocks(Len(text)),
         k <= Len(c.rows[i].blocks) + 1,
         NEW put, put = Put(c, i, text)
  PROVE  \/ put.ok = FALSE /\ put.kv = c
         \/ put.ok = TRUE /\ Written(c, put.kv, i, o, k, LastWritten(c, i, k, text))
<1> DEFINE fresh == Len(c.rows[i].blocks) < k
           shared == ~fresh /\ c.ref[c.rows[i].blocks[k]] > 1
           full == FreePages(c) = {}
           w == LastWritten(c, i, k, text)
           A == Store(c, i, Append(c.rows[i].blocks, Allocated(c)), Allocated(c), 1, w)
           B == Store(Unref(c, {c.rows[i].blocks[k]}), i,
                      [c.rows[i].blocks EXCEPT ![k] = Allocated(c)], Allocated(c), 1, w)
           D == Store(c, i, c.rows[i].blocks, c.rows[i].blocks[k],
                      c.ref[c.rows[i].blocks[k]], w)
<1>1. put = CASE (fresh \/ shared) /\ full -> Failed(c)
              [] fresh /\ ~full -> Attempt(A)
              [] shared /\ ~full -> Attempt(B)
              [] OTHER -> Attempt(D)
  BY Zenon DEF Put, LastWritten
<1>2. c.rows[i].blocks \in Seq(Pages)
  BY RowPages
<1>3. w \in Seq(Nat)
  BY DEF LastWritten
<1>4. CASE fresh /\ ~full
  <2>1. PICK n : n = Len(c.rows[i].blocks) + 1
    OBVIOUS
  <2>2. n = k
    BY <1>2, <1>4, <2>1
  <2>3. PICK h : h = A
    OBVIOUS
  <2>4. PICK v \in Seq(Nat) : v = w
    BY <1>3
  <2>5. h = Store(c, i, Append(c.rows[i].blocks, Allocated(c)), Allocated(c), 1, v)
    BY <2>3, <2>4, Zenon
  <2> HIDE DEF A, B, D
  <2>6. Written(c, h, i, o, k, v)
    BY <1>4, <2>1, <2>2, <2>5, WriteFresh
  <2>7. put = Attempt(h)
    <3>1. ~shared
      BY <1>4
    <3> HIDE DEF fresh, shared, full
    <3> QED
      BY <1>1, <1>4, <2>3, <3>1
  <2> QED
    BY <2>4, <2>6, <2>7 DEF Attempt
<1>5. CASE shared /\ ~full
  <2>1. k \in 1..Len(c.rows[i].blocks) /\ c.ref[c.rows[i].blocks[k]] > 1
    BY <1>2, <1>5
  <2>2. PICK h : h = B
    OBVIOUS
  <2>3. PICK v \in Seq(Nat) : v = w
    BY <1>3
  <2>4. SharedWrite(c, h, i, k, v)
    BY <2>2, <2>3, Zenon DEF SharedWrite
  <2> HIDE DEF A, B, D
  <2>5. Written(c, h, i, o, k, v)
    BY <1>5, <2>1, <2>4, WriteShared
  <2>6. put = Attempt(h)
    <3>1. ~fresh
      BY <1>5
    <3> HIDE DEF fresh, shared, full
    <3> QED
      BY <1>1, <1>5, <2>2, <3>1
  <2> QED
    BY <2>3, <2>5, <2>6 DEF Attempt
<1>6. CASE ~fresh /\ ~shared
  <2>1. k \in 1..Len(c.rows[i].blocks) /\ ~(c.ref[c.rows[i].blocks[k]] > 1)
    BY <1>2, <1>6
  <2>2. PICK h : h = D
    OBVIOUS
  <2>3. PICK v \in Seq(Nat) : v = w
    BY <1>3
  <2>4. OwnWrite(c, h, i, k, v)
    BY <2>2, <2>3, Zenon DEF OwnWrite
  <2> HIDE DEF A, B, D
  <2>5. Written(c, h, i, o, k, v)
    BY <2>1, <2>4, WriteOwn
  <2>6. put = Attempt(h)
    <3> HIDE DEF fresh, shared, full
    <3> QED
      BY <1>1, <1>6, <2>2
  <2> QED
    BY <2>3, <2>5, <2>6 DEF Attempt
<1>7. CASE (fresh \/ shared) /\ full
  <2> HIDE DEF A, B, D, w, fresh, shared, full
  <2>1. put = Failed(c)
    BY <1>1, <1>7
  <2> QED
    BY <2>1 DEF Failed
<1> QED
  BY <1>4, <1>5, <1>6, <1>7

-----------------------------------------------------------------------------
(* What an owner's pages show *)

LEMMA TextType == Texts \subseteq Seq(Nat)
<1> SUFFICES ASSUME NEW t \in Texts PROVE t \in Seq(Nat)
  OBVIOUS
<1>1. PICK n \in 1..MaxText : t \in [1..n -> 1..Vocab]
  BY DEF Texts
<1>2. n \in Nat /\ t \in [1..n -> Nat]
  <2>1. n \in Nat /\ DOMAIN t = 1..n
    BY <1>1
  <2>2. \A m \in 1..n : t[m] \in 1..Vocab
    BY <1>1
  <2>3. 1..Vocab \subseteq Nat
    OBVIOUS
  <2> QED
    BY <1>1, <2>1, <2>2, <2>3
<1> QED
  BY <1>2

(* Where the n positions of a text end in its k-th page *)
EndOf(k, n) == IF k * BlockSize < n THEN k * BlockSize ELSE n

(* t agrees with the first n tokens of a text. *)
Agree(text, n, t) == n <= Len(t) /\ \A j \in 1..n : t[j] = text[j]

(* Pages, by what they hold: they show n positions of a text, and no page holds more
   than ends in it. *)
Shows(v, text, n) == \A k \in 1..Blocks(n) : k \in DOMAIN v /\ Agree(text, EndOf(k, n), v[k])
Fits(v) == \A k \in DOMAIN v : k \in Nat /\ v[k] \in Seq(Nat) /\ Len(v[k]) <= k * BlockSize

(* What is read is a text, and all of it. *)
ViewSound(r, text) ==
  Len(text) = r.offset /\ Shows(r.pages, text, r.offset) /\ Fits(r.pages)

LEMMA PrefixAgrees ==
  ASSUME NEW text \in Seq(Nat), NEW n \in Nat, n <= Len(text), NEW t \in Seq(Nat)
  PROVE  IsPrefix(Prefix(text, n), t) <=> Agree(text, n, t)
<1>1. PICK part : part = SubSeq(text, 1, n)
  OBVIOUS
<1>2. part \in Seq(Nat) /\ Len(part) = n /\ \A j \in 1..n : part[j] = text[j]
  BY <1>1
<1>3. SubSeq(part, 1, n) = part
  BY <1>2
<1>4. CASE n <= Len(t)
  <2>1. PICK u : u = SubSeq(t, 1, n)
    OBVIOUS
  <2>2. u \in Seq(Nat) /\ Len(u) = n /\ \A j \in 1..n : u[j] = t[j]
    <3>1. PICK m \in Nat : m = Len(t) /\ n <= m
      BY <1>4
    <3>2. u = [j \in 1..n |-> t[j]] /\ \A j \in 1..n : t[j] \in Nat
      BY <2>1, <3>1
    <3> QED
      BY <3>2
  <2>3. part = u <=> \A j \in 1..n : t[j] = text[j]
    <3>1. part = [j \in 1..n |-> part[j]] /\ u = [j \in 1..n |-> u[j]]
      BY <1>2, <2>2
    <3>2. part = u <=> \A j \in 1..n : part[j] = u[j]
      BY <3>1, Zenon
    <3> QED
      BY <1>2, <2>2, <3>2
  <2>4. IsPrefix(part, t) <=> part = u
    BY <1>2, <1>3, <1>4, <2>1 DEF IsPrefix
  <2>5. Agree(text, n, t) <=> part = u
    BY <1>4, <2>3 DEF Agree
  <2> QED
    BY <1>1, <2>4, <2>5 DEF Prefix
<1>5. CASE ~(n <= Len(t))
  BY <1>1, <1>2, <1>5 DEF IsPrefix, Prefix, Agree
<1> QED
  BY <1>4, <1>5

(* The block of position n + 1: the blocks before it are full, and it has positions
   before n + 1 unless n is a block boundary. *)
LEMMA LastBlock ==
  ASSUME NEW n \in Nat, NEW k, k = Blocks(n + 1)
  PROVE  /\ k \in Nat \ {0} /\ n + 1 <= k * BlockSize /\ (k - 1) * BlockSize <= n
         /\ n % BlockSize = 0 => Blocks(n) = k - 1
         /\ n % BlockSize # 0 => Blocks(n) = k
<1>1. PICK b \in Nat \ {0} : b = BlockSize
  BY KVAssumption
<1>2. PICK q, r : q = n \div b /\ r = n % b
  OBVIOUS
<1>3. q \in Nat /\ r \in 0..(b - 1) /\ n = b * q + r
  BY <1>1, <1>2
<1>4. k = q + 1
  <2>1. k = (n + b) \div b
    BY <1>1 DEF Blocks
  <2> QED
    BY <1>1, <1>2, <1>3, <2>1
<1>5. Blocks(n) = IF r = 0 THEN q ELSE q + 1
  <2>1. Blocks(n) = (n + b - 1) \div b
    BY <1>1 DEF Blocks
  <2> QED
    BY <1>1, <1>2, <1>3, <2>1
<1>6. k * b = b * q + b /\ (k - 1) * b = b * q
  BY <1>1, <1>3, <1>4
<1> QED
  BY <1>1, <1>2, <1>3, <1>4, <1>5, <1>6

LEMMA BlockEnds ==
  ASSUME NEW j \in Nat, NEW k \in Nat, j < k
  PROVE  j * BlockSize <= (k - 1) * BlockSize
<1>1. PICK d \in Nat : k - 1 = j + d
  BY KVAssumption
<1>2. (j + d) * BlockSize = j * BlockSize + d * BlockSize
  BY KVAssumption
<1>3. d * BlockSize \in Nat /\ j * BlockSize \in Nat
  BY KVAssumption
<1> QED
  BY <1>1, <1>2, <1>3

LEMMA EndOfType ==
  ASSUME NEW k \in Nat, NEW n \in Nat
  PROVE  EndOf(k, n) \in Nat /\ EndOf(k, n) <= n
<1>1. k * BlockSize \in Nat
  BY KVAssumption
<1> QED
  BY <1>1 DEF EndOf

LEMMA PrefixParts ==
  ASSUME NEW text \in Seq(Nat), NEW n \in Nat, n <= Len(text),
         NEW part, part = Prefix(text, n)
  PROVE  /\ part \in Seq(Nat) /\ Len(part) = n /\ \A j \in 1..n : part[j] = text[j]
         /\ \A m \in 0..n : Prefix(part, m) = Prefix(text, m)
<1>1. part \in Seq(Nat) /\ Len(part) = n /\ \A j \in 1..n : part[j] = text[j]
  BY DEF Prefix
<1>2. ASSUME NEW m \in 0..n PROVE Prefix(part, m) = Prefix(text, m)
  <2>1. m \in Nat /\ m <= n /\ 1..m \subseteq 1..n
    OBVIOUS
  <2>2. PICK s, t : s = SubSeq(part, 1, m) /\ t = SubSeq(text, 1, m)
    OBVIOUS
  <2>3. s = [j \in 1..m |-> part[j]] /\ t = [j \in 1..m |-> text[j]]
    BY <1>1, <2>1, <2>2
  <2>4. \A j \in 1..m : part[j] = text[j]
    BY <1>1, <2>1
  <2>5. s = t
    BY <2>3, <2>4
  <2> QED
    BY <2>2, <2>5 DEF Prefix
<1> QED
  BY <1>1, <1>2

(* The blocks before the one of position n + 1 end where they did. *)
LEMMA EarlierBlock ==
  ASSUME NEW n \in Nat, NEW k, k = Blocks(n + 1), NEW j \in 1..k, j # k
  PROVE  j \in 1..Blocks(n) /\ EndOf(j, n + 1) = EndOf(j, n)
<1>1. /\ k \in Nat \ {0} /\ n + 1 <= k * BlockSize /\ (k - 1) * BlockSize <= n
      /\ Blocks(n) = k - 1 \/ Blocks(n) = k
  BY LastBlock, KVAssumption
<1>2. j \in Nat /\ j < k /\ j >= 1
  BY <1>1
<1>3. PICK e \in Nat : e = j * BlockSize
  BY <1>2, KVAssumption
<1>4. PICK f \in Nat : f = (k - 1) * BlockSize
  <2>1. k - 1 \in Nat
    BY <1>1
  <2> QED
    BY <2>1, KVAssumption
<1>5. e <= n
  BY <1>1, <1>2, <1>3, <1>4, BlockEnds
<1> QED
  BY <1>1, <1>2, <1>3, <1>5 DEF EndOf

(* The next position of a text is written: one more is shown. *)
LEMMA ShowsNext ==
  ASSUME NEW text \in Seq(Nat), NEW n \in Nat, n + 1 <= Len(text), NEW v, NEW u,
         Shows(v, text, n), Fits(v),
         NEW k, k = Blocks(n + 1), Rewritten(v, u, k, Prefix(text, n + 1))
  PROVE  Shows(u, text, n + 1) /\ Fits(u)
<1>1. PICK w : w = Prefix(text, n + 1)
  OBVIOUS
<1>2. w \in Seq(Nat) /\ Len(w) = n + 1 /\ \A j \in 1..(n + 1) : w[j] = text[j]
  BY <1>1, PrefixParts
<1>3. k \in Nat \ {0} /\ n + 1 <= k * BlockSize
  BY LastBlock
<1>4. /\ DOMAIN u = DOMAIN v \cup {k} /\ u[k] = w
      /\ \A j \in DOMAIN v : j # k => u[j] = v[j]
  BY <1>1 DEF Rewritten
<1>5. ASSUME NEW j \in 1..k PROVE j \in DOMAIN u /\ Agree(text, EndOf(j, n + 1), u[j])
  <2>1. CASE j = k
    <3>1. PICK e \in Nat : e = k * BlockSize
      BY <1>3, KVAssumption
    <3>2. EndOf(k, n + 1) = n + 1
      BY <1>3, <3>1 DEF EndOf
    <3>3. Agree(text, n + 1, w)
      BY <1>2 DEF Agree
    <3> QED
      BY <1>4, <2>1, <3>2, <3>3
  <2>2. CASE j # k
    <3>1. j \in 1..Blocks(n) /\ EndOf(j, n + 1) = EndOf(j, n)
      BY <2>2, EarlierBlock
    <3>2. j \in DOMAIN v /\ Agree(text, EndOf(j, n), v[j])
      BY <3>1 DEF Shows
    <3> QED
      BY <1>4, <2>2, <3>1, <3>2
  <2> QED
    BY <2>1, <2>2
<1>6. Shows(u, text, n + 1)
  BY <1>5 DEF Shows
<1>7. Fits(u)
  BY <1>2, <1>3, <1>4 DEF Fits
<1> QED
  BY <1>6, <1>7

(* A position beyond what is cached is written: what is cached is shown still. *)
LEMMA ShowsStill ==
  ASSUME NEW text \in Seq(Nat), NEW n \in Nat, n + 1 <= Len(text), NEW v, NEW u,
         NEW k, k = Blocks(n + 1), Rewritten(v, u, k, Prefix(text, n + 1)),
         NEW known \in Seq(Nat), NEW m \in Nat, m <= n, Shows(v, known, m),
         Agree(known, m, text)
  PROVE  Shows(u, known, m)
<1>1. PICK w : w = Prefix(text, n + 1)
  OBVIOUS
<1>2. w \in Seq(Nat) /\ Len(w) = n + 1 /\ \A j \in 1..(n + 1) : w[j] = text[j]
  BY <1>1, PrefixParts
<1>3. /\ DOMAIN u = DOMAIN v \cup {k} /\ u[k] = w
      /\ \A j \in DOMAIN v : j # k => u[j] = v[j]
  BY <1>1 DEF Rewritten
<1> SUFFICES ASSUME NEW j \in 1..Blocks(m)
             PROVE  j \in DOMAIN u /\ Agree(known, EndOf(j, m), u[j])
  BY DEF Shows
<1>4. j \in DOMAIN v /\ Agree(known, EndOf(j, m), v[j])
  BY DEF Shows
<1>5. CASE j = k
  <2>1. Blocks(m) \in Nat
    BY BlocksNat
  <2>2. j \in Nat
    BY <2>1
  <2>3. PICK e \in Nat : e = EndOf(j, m) /\ e <= m
    BY <2>2, EndOfType
  <2>4. Agree(known, e, w)
    <3>1. \A i \in 1..e : i \in 1..m /\ i \in 1..(n + 1)
      BY <2>3
    <3>2. \A i \in 1..e : w[i] = known[i]
      BY <1>2, <3>1 DEF Agree
    <3>3. e <= Len(w)
      BY <1>2, <2>3
    <3> QED
      BY <3>2, <3>3, Zenon DEF Agree
  <2>5. u[j] = w /\ j \in DOMAIN u
    BY <1>3, <1>5, Zenon
  <2> QED
    BY <2>3, <2>4, <2>5, Zenon
<1>6. CASE j # k
  BY <1>3, <1>4, <1>6, Zenon
<1> QED
  BY <1>5, <1>6

(* The position goes on the page it falls in: it begins a page, or the page shows the
   earlier positions of its block. *)
GoesOnWith(part, k, v) ==
  \/ (Len(part) - 1) % BlockSize = 0
  \/ k \in DOMAIN v /\ IsPrefix(Prefix(part, Len(part) - 1), v[k])

(* Then what is written to the page is the text. *)
LEMMA LastWrittenIsText ==
  ASSUME NEW c, NEW i, NEW k, NEW part, NEW v, GoesOnWith(part, k, v),
         k \in DOMAIN v => c.holds[c.rows[i].blocks[k]] = v[k]
  PROVE  LastWritten(c, i, k, part) = part
<1>1. PICK t : t = c.holds[c.rows[i].blocks[k]]
  OBVIOUS
<1>2. \/ (Len(part) - 1) % BlockSize = 0
      \/ IsPrefix(Prefix(part, Len(part) - 1), t)
  BY <1>1, Zenon DEF GoesOnWith
<1> QED
  BY <1>1, <1>2, Zenon DEF LastWritten

LEMMA PositionGoesOn ==
  ASSUME NEW text \in Seq(Nat), NEW n \in Nat, NEW m \in Nat, m = n + 1, m <= Len(text),
         NEW part, part = Prefix(text, m), NEW k, k = Blocks(m),
         NEW v, Shows(v, text, n), Fits(v)
  PROVE  GoesOnWith(part, k, v)
<1>1. Len(part) = n + 1 /\ Prefix(part, n) = Prefix(text, n)
  BY PrefixParts
<1>2. CASE n % BlockSize = 0
  <2>1. (Len(part) - 1) % BlockSize = 0
    BY <1>1, <1>2
  <2> QED
    BY <2>1, Zenon DEF GoesOnWith
<1>3. CASE n % BlockSize # 0
  <2>1. k \in Nat \ {0} /\ Blocks(n) = k /\ n + 1 <= k * BlockSize
    BY <1>3, LastBlock
  <2>2. PICK t : t = v[k]
    OBVIOUS
  <2>3. k \in DOMAIN v /\ Agree(text, EndOf(k, n), t)
    BY <2>1, <2>2 DEF Shows
  <2>4. t \in Seq(Nat)
    BY <2>2, <2>3 DEF Fits
  <2>5. EndOf(k, n) = n
    <3>1. PICK e \in Nat : e = k * BlockSize
      BY <2>1, KVAssumption
    <3> QED
      BY <2>1, <3>1 DEF EndOf
  <2>6. IsPrefix(Prefix(text, n), t)
    <3>1. n <= Len(text)
      OBVIOUS
    <3>2. Agree(text, n, t)
      BY <2>3, <2>5
    <3> QED
      BY <2>4, <3>1, <3>2, PrefixAgrees
  <2>7. PICK s : s = Prefix(text, n)
    OBVIOUS
  <2>8. Prefix(part, Len(part) - 1) = s
    <3>1. Len(part) - 1 = n
      BY <1>1
    <3> QED
      BY <1>1, <2>7, <3>1
  <2>9. IsPrefix(Prefix(part, Len(part) - 1), v[k])
    BY <2>2, <2>6, <2>7, <2>8
  <2> QED
    BY <2>3, <2>9, Zenon DEF GoesOnWith
<1> QED
  BY <1>2, <1>3

(* Two texts with the same first tokens *)
LEMMA ShowsSame ==
  ASSUME NEW s \in Seq(Nat), NEW t \in Seq(Nat), NEW n \in Nat, NEW v,
         Shows(v, s, n), Agree(s, n, t)
  PROVE  Shows(v, t, n)
<1> SUFFICES ASSUME NEW k \in 1..Blocks(n)
             PROVE  k \in DOMAIN v /\ Agree(t, EndOf(k, n), v[k])
  BY DEF Shows
<1>1. k \in DOMAIN v /\ Agree(s, EndOf(k, n), v[k])
  BY DEF Shows
<1>2. k \in Nat
  BY BlocksNat
<1>3. PICK e \in Nat : e = EndOf(k, n) /\ e <= n
  BY <1>2, EndOfType
<1>4. \A j \in 1..e : j \in 1..n
  BY <1>3
<1> QED
  BY <1>1, <1>3, <1>4 DEF Agree

LEMMA PrefixIsAgreed ==
  ASSUME NEW s \in Seq(Nat), NEW t \in Seq(Nat), IsPrefix(s, t)
  PROVE  Agree(s, Len(s), t)
<1>1. PICK n \in Nat : n = Len(s) /\ n <= Len(t)
  BY DEF IsPrefix
<1>2. PICK p, q : p = SubSeq(s, 1, n) /\ q = SubSeq(t, 1, n)
  OBVIOUS
<1>3. p = q
  BY <1>1, <1>2 DEF IsPrefix
<1>4. \A j \in 1..n : p[j] = s[j] /\ q[j] = t[j]
  BY <1>1, <1>2
<1> QED
  BY <1>1, <1>3, <1>4 DEF Agree

(* A text of whole blocks *)
LEMMA WholeBlocks ==
  ASSUME NEW id \in PinIds
  PROVE  /\ Blocks(Len(id)) \in Nat \ {0} /\ Blocks(Len(id)) * BlockSize = Len(id)
         /\ id \in Seq(Nat) /\ Len(id) \in Nat \ {0}
<1>1. id \in Texts /\ Len(id) % BlockSize = 0
  BY DEF PinIds
<1>2. PICK n \in 1..MaxText : id \in [1..n -> 1..Vocab]
  BY <1>1 DEF Texts
<1>3. n \in Nat \ {0} /\ Len(id) = n /\ n % BlockSize = 0
  BY <1>1, <1>2
<1>4. PICK b \in Nat \ {0} : b = BlockSize
  BY KVAssumption
<1>5. PICK q : q = n \div b
  OBVIOUS
<1>6. q \in Nat /\ n = b * q
  BY <1>3, <1>4, <1>5
<1>7. Blocks(n) = q
  <2>1. Blocks(n) = (n + b - 1) \div b
    BY <1>4 DEF Blocks
  <2>2. PICK e : e = b * q + (b - 1)
    OBVIOUS
  <2>3. n + b - 1 = e
    BY <1>3, <1>4, <1>6, <2>2
  <2>4. e \div b = q
    BY <1>4, <1>6, <2>2
  <2> QED
    BY <2>1, <2>3, <2>4, Zenon
<1>8. q # 0 /\ q * b = n
  BY <1>3, <1>4, <1>6
<1> QED
  BY <1>1, <1>3, <1>4, <1>6, <1>7, <1>8, TextType

LEMMA LengthDomain == ASSUME NEW s \in Seq(Nat) PROVE DOMAIN s = 1..Len(s)
  OBVIOUS

(* A block that is filled with the tokens up to its end holds them, and no more. *)
LEMMA FilledBlock ==
  ASSUME NEW id \in PinIds, NEW text \in Seq(Nat), NEW n \in Nat, NEW v,
         Shows(v, text, n), Fits(v), Len(id) <= n, IsPrefix(id, text),
         NEW k, k = Blocks(Len(id))
  PROVE  v[k] = id
<1>1. /\ k \in Nat \ {0} /\ k * BlockSize = Len(id) /\ id \in Seq(Nat)
  BY WholeBlocks
<1>2. PICK e \in Nat : e = Len(id) /\ e = k * BlockSize /\ e <= n
  BY <1>1
<1>3. EndOf(k, n) = e
  BY <1>2 DEF EndOf
<1>4. k \in 1..Blocks(n)
  <2>1. k <= Blocks(n)
    BY <1>1, <1>2, BlocksSealed
  <2> QED
    BY <1>1, <2>1, BlocksNat
<1>5. PICK t : t = v[k]
  OBVIOUS
<1>6. k \in DOMAIN v /\ Agree(text, e, t)
  BY <1>3, <1>4, <1>5 DEF Shows
<1>7. t \in Seq(Nat) /\ Len(t) = e
  <2>1. t \in Seq(Nat) /\ Len(t) <= e
    BY <1>2, <1>5, <1>6 DEF Fits
  <2>2. e <= Len(t)
    BY <1>6 DEF Agree
  <2> QED
    BY <2>1, <2>2
<1>8. Agree(id, e, text)
  BY <1>1, <1>2, PrefixIsAgreed
<1>9. \A j \in 1..e : t[j] = id[j]
  BY <1>6, <1>8 DEF Agree
<1>10. id = [j \in 1..e |-> id[j]] /\ t = [j \in 1..e |-> t[j]]
  <2>1. DOMAIN id = 1..e
    BY <1>1, <1>2, LengthDomain
  <2>2. DOMAIN t = 1..e
    BY <1>7, LengthDomain
  <2> QED
    BY <1>1, <1>7, <2>1, <2>2
<1>11. t = id
  BY <1>9, <1>10
<1> QED
  BY <1>5, <1>11

(* The blocks of a text, each known by the tokens up to its end *)
LEMMA ChainParts ==
  ASSUME NEW text \in PinIds, NEW n, n = Blocks(Len(text)), NEW ids, ids = Chain(text)
  PROVE  /\ n \in Nat /\ DOMAIN ids = 1..n /\ Len(ids) = n /\ BlockSize * n = Len(text)
         /\ \A k \in 1..n : /\ ids[k] \in Seq(Nat) /\ Len(ids[k]) = k * BlockSize
                            /\ k * BlockSize \in Nat /\ k * BlockSize <= Len(text)
                            /\ Agree(text, k * BlockSize, ids[k])
<1>1. n \in Nat \ {0} /\ n * BlockSize = Len(text) /\ text \in Seq(Nat)
  BY WholeBlocks
<1>2. ids = [k \in 1..n |-> Prefix(text, k * BlockSize)]
  BY DEF Chain
<1>3. DOMAIN ids = 1..n /\ Len(ids) = n
  BY <1>1, <1>2
<1>4. ASSUME NEW k \in 1..n
      PROVE  /\ ids[k] \in Seq(Nat) /\ Len(ids[k]) = k * BlockSize
             /\ k * BlockSize \in Nat /\ k * BlockSize <= Len(text)
             /\ Agree(text, k * BlockSize, ids[k])
  <2>1. PICK e \in Nat : e = k * BlockSize
    BY KVAssumption
  <2>2. e <= Len(text)
    <3>1. k < n + 1 /\ k \in Nat /\ n + 1 \in Nat
      BY <1>1
    <3>2. k * BlockSize <= ((n + 1) - 1) * BlockSize
      BY <3>1, BlockEnds
    <3>3. (n + 1) - 1 = n
      BY <1>1
    <3> QED
      BY <1>1, <2>1, <3>2, <3>3
  <2>3. PICK part : part = Prefix(text, e)
    OBVIOUS
  <2>4. part \in Seq(Nat) /\ Len(part) = e /\ \A j \in 1..e : part[j] = text[j]
    <3>1. text \in Seq(Nat)
      BY <1>1
    <3> QED
      BY <2>2, <2>3, <3>1, PrefixParts
  <2>5. ids[k] = part
    BY <1>2, <2>1, <2>3
  <2>6. Agree(text, e, part)
    BY <2>4 DEF Agree
  <2> QED
    BY <2>1, <2>2, <2>4, <2>5, <2>6
<1>5. BlockSize * n = n * BlockSize
  BY <1>1, KVAssumption
<1> QED
  BY <1>1, <1>3, <1>4, <1>5

(* Pages that hold the blocks of a text show the text. *)
LEMMA ChainShown ==
  ASSUME NEW text \in PinIds, NEW ids, ids = Chain(text), NEW r,
         r.offset = BlockSize * Len(ids), DOMAIN r.pages = DOMAIN ids,
         \A k \in DOMAIN ids : r.pages[k] = ids[k]
  PROVE  ViewSound(r, text)
<1>1. PICK n : n = Blocks(Len(text))
  OBVIOUS
<1>2. /\ n \in Nat /\ DOMAIN ids = 1..n /\ Len(ids) = n /\ BlockSize * n = Len(text)
      /\ \A k \in 1..n : /\ ids[k] \in Seq(Nat) /\ Len(ids[k]) = k * BlockSize
                         /\ k * BlockSize \in Nat /\ k * BlockSize <= Len(text)
                         /\ Agree(text, k * BlockSize, ids[k])
  BY <1>1, ChainParts
<1>3. PICK m, v : m = r.offset /\ v = r.pages
  OBVIOUS
<1>4. m = Len(text) /\ m \in Nat
  BY <1>2, <1>3, WholeBlocks
<1>5. ASSUME NEW k \in 1..Blocks(m) PROVE k \in DOMAIN v /\ Agree(text, EndOf(k, m), v[k])
  <2>1. k \in 1..n /\ v[k] = ids[k]
    BY <1>1, <1>2, <1>3, <1>4
  <2>2. EndOf(k, m) = k * BlockSize
    BY <1>2, <1>4, <2>1 DEF EndOf
  <2> QED
    BY <1>2, <1>3, <2>1, <2>2
<1>6. Shows(v, text, m)
  BY <1>5 DEF Shows
<1>7. ASSUME NEW k \in DOMAIN v
      PROVE  k \in Nat /\ v[k] \in Seq(Nat) /\ Len(v[k]) <= k * BlockSize
  <2>1. k \in 1..n /\ v[k] = ids[k]
    BY <1>2, <1>3
  <2>2. PICK e : e = k * BlockSize
    OBVIOUS
  <2>3. e \in Nat /\ ids[k] \in Seq(Nat) /\ Len(ids[k]) = e
    BY <1>2, <2>1, <2>2
  <2> QED
    BY <1>2, <2>1, <2>2, <2>3
<1>8. Fits(v)
  BY <1>7 DEF Fits
<1> QED
  BY <1>3, <1>4, <1>6, <1>8 DEF ViewSound

-----------------------------------------------------------------------------
(* The specification's steps *)

(* The row that is being written is an owner's, and has the pages of its positions. *)
WriteSound(c, w) ==
  /\ w \in [row : Nat, text : Seq(Nat), at : Nat]
  /\ w # NoWrite =>
       /\ w.row \in DOMAIN c.rows /\ c.rows[w.row].owner \in Requests
       /\ w.at <= Len(w.text) /\ Blocks(w.at) <= Len(c.rows[w.row].blocks)

(* Every owner reads what it has cached, and every pin what it stands for. *)
Contents(c, known) ==
  known \in [Requests -> Seq(Nat)] /\ \A o \in Requests : ViewSound(Reads(c, o), known[o])
PinsHold(c) == \A id \in DOMAIN c.pins : c.holds[c.pins[id]] = id

(* The row that is being written goes on where its owner is, and shows its text as far
   as that is written. *)
RowShows(c, o, offset, known, w) ==
  /\ offset \in Nat /\ offset <= w.at /\ Agree(known[o], offset, w.text)
  /\ Shows(Reads(c, o).pages, w.text, w.at)
WriteShows(c, known, w) ==
  w # NoWrite => RowShows(c, c.rows[w.row].owner, c.rows[w.row].offset, known, w)

CacheInv ==
  /\ Sound(kv) /\ WriteSound(kv, write)
  /\ Contents(kv, cached) /\ PinsHold(kv) /\ WriteShows(kv, cached, write)

(* What one call does to what owners read and to pins *)
ForOneOwner(c, h) == AllKept(c, h) \/ \E o \in Requests : OthersKept(c, h, o)
GoodCall == CacheInv' /\ ForOneOwner(kv, kv') /\ PinsKept(kv, kv')

LEMMA NoWriteSound ==
  ASSUME NEW c, NEW known PROVE WriteSound(c, NoWrite) /\ WriteShows(c, known, NoWrite)
  BY DEF WriteSound, WriteShows, NoWrite

LEMMA CallReturned ==
  ASSUME Sound(kv'), write' = NoWrite, ForOneOwner(kv, kv'), PinsKept(kv, kv'),
         Contents(kv', cached'), PinsHold(kv')
  PROVE  GoodCall
<1>1. WriteSound(kv', write') /\ WriteShows(kv', cached', write')
  BY NoWriteSound
<1> QED
  BY <1>1 DEF GoodCall, CacheInv

(* A call after which all read what they did *)
LEMMA ContentsStill ==
  ASSUME NEW c, NEW h, NEW known, Contents(c, known), AllKept(c, h)
  PROVE  Contents(h, known)
  BY DEF Contents, AllKept

(* A call after which one owner reads something else *)
LEMMA ContentsChanged ==
  ASSUME NEW c, NEW h, NEW known, Contents(c, known), NEW o \in Requests, OthersKept(c, h, o),
         NEW text \in Seq(Nat), ViewSound(Reads(h, o), text)
  PROVE  Contents(h, [known EXCEPT ![o] = text])
<1>1. PICK now : now = [known EXCEPT ![o] = text]
  OBVIOUS
<1>2. /\ now \in [Requests -> Seq(Nat)] /\ now[o] = text
      /\ \A q \in Requests : q # o => now[q] = known[q]
  BY <1>1 DEF Contents
<1>3. ASSUME NEW q \in Requests PROVE ViewSound(Reads(h, q), now[q])
  <2>1. CASE q = o
    BY <1>2, <2>1
  <2>2. CASE q # o
    BY <1>2, <2>2 DEF Contents, OthersKept
  <2> QED
    BY <2>1, <2>2
<1>4. Contents(h, now)
  BY <1>2, <1>3 DEF Contents
<1> QED
  BY <1>1, <1>4

LEMMA EmptyShown ==
  ASSUME NEW c, NEW o, TableOf(c, o) = EmptyTable
  PROVE  ViewSound(Reads(c, o), <<>>)
<1>1. Reads(c, o).offset = 0 /\ DOMAIN Reads(c, o).pages = {}
  BY DEF Reads, EmptyTable
<1>2. Shows(Reads(c, o).pages, <<>>, 0)
  BY BlocksOfNone DEF Shows
<1>3. Fits(Reads(c, o).pages)
  BY <1>1 DEF Fits
<1> QED
  BY <1>1, <1>2, <1>3 DEF ViewSound

LEMMA PinsHoldStill ==
  ASSUME NEW c, NEW h, PinsHold(c), PinsKept(c, h), DOMAIN h.pins \subseteq DOMAIN c.pins
  PROVE  PinsHold(h)
  BY DEF PinsHold, PinsKept

LEMMA PinsHoldMore ==
  ASSUME NEW c, NEW h, NEW id, PinsHold(c), PinsKept(c, h),
         DOMAIN h.pins = DOMAIN c.pins \cup {id}, h.holds[h.pins[id]] = id
  PROVE  PinsHold(h)
<1> SUFFICES ASSUME NEW i \in DOMAIN h.pins PROVE h.holds[h.pins[i]] = i
  BY DEF PinsHold
<1>1. CASE i = id
  BY <1>1
<1>2. CASE i # id
  <2>1. i \in DOMAIN c.pins /\ c.holds[c.pins[i]] = i
    BY <1>2 DEF PinsHold
  <2> QED
    BY <2>1 DEF PinsKept
<1> QED
  BY <1>1, <1>2

LEMMA SelectionType ==
  ASSUME NEW S, NEW q \in Selections(S)
  PROVE  q \in Seq(S) /\ IsInjective(q)
<1>1. PICK n \in 1..Cardinality(S) : q \in [1..n -> S]
  BY DEF Selections
<1>2. n \in Nat
  BY <1>1
<1> QED
  BY <1>1, <1>2 DEF Selections

(* A cache without pages in use is sound. *)
LEMMA NewCacheSound ==
  /\ Sound(NewCache) /\ DOMAIN NewCache.pins = {}
  /\ \A o \in Requests : TableOf(NewCache, o) = EmptyTable
<1>1. PICK c : c = NewCache
  OBVIOUS
<1>2. /\ c.ref = [p \in Pages |-> 0] /\ c.holds = [p \in Pages |-> <<>>]
      /\ c.table = [o \in Requests |-> EmptyTable] /\ c.rows = <<>> /\ c.pins = <<>>
      /\ c = [ref |-> c.ref, holds |-> c.holds, table |-> c.table, rows |-> c.rows,
              pins |-> c.pins]
  BY <1>1 DEF NewCache
<1>3. EmptyTable \in Tables /\ Covered(EmptyTable) /\ IsInjective(EmptyTable.blocks)
      /\ ToSet(EmptyTable.blocks) = {}
  BY EmptyTableType, BlocksOfNone DEF EmptyTable, Tables, Covered, IsInjective, ToSet
<1>4. c.pins \in [{} -> Pages] /\ {} \in PinSets /\ DOMAIN c.pins = {}
  BY <1>2, FS_EmptySet DEF PinSets
<1>5. c \in Caches
  <2>1. c.ref \in [Pages -> Nat] /\ c.holds \in [Pages -> Seq(Nat)] /\ c.rows \in Seq(Rows)
    BY <1>2
  <2>2. c.table \in [Requests -> Tables]
    BY <1>2, <1>3
  <2>3. c.pins \in UNION {[ids -> Pages] : ids \in PinSets}
    BY <1>4
  <2> QED
    BY <1>2, <2>1, <2>2, <2>3 DEF Caches
<1>6. DOMAIN c.rows = {}
  BY <1>2
<1>7. OneRowEach(c) /\ AllCovered(c)
  BY <1>2, <1>3, <1>6 DEF OneRowEach, AllCovered
<1>8. \A o \in Requests : TableOf(c, o) = EmptyTable
  <2>1. \A o \in Requests : TableOf(c, o) = c.table[o]
    BY <1>5, <1>6, TableOfUnbound
  <2> QED
    BY <1>2, <2>1
<1>9. NoPageTwice(c)
  BY <1>3, <1>8 DEF NoPageTwice
<1>10. Counted(c)
  <2>1. \A p \in Pages : Owners(c, p) = {}
    BY <1>3, <1>8 DEF Owners
  <2>2. \A p \in Pages : Pinned(c, p) = {}
    BY <1>4 DEF Pinned
  <2>3. \A p \in Pages : c.ref[p] = 0
    BY <1>2
  <2> QED
    BY <2>1, <2>2, <2>3, FS_EmptySet DEF Counted
<1> QED
  BY <1>1, <1>4, <1>5, <1>7, <1>8, <1>9, <1>10 DEF Sound


LEMMA BindRowsGood == ASSUME CacheInv, BindRows PROVE GoodCall
<1>1. /\ Sound(kv) /\ write' = NoWrite /\ cached' = cached
      /\ Contents(kv, cached) /\ PinsHold(kv)
  BY DEF CacheInv, BindRows, Returned
<1>2. PICK owners \in Selections(Requests) : kv' = Bind(kv, owners)
  BY DEF BindRows
<1>3. owners \in Seq(Requests) /\ IsInjective(owners)
  BY <1>2, SelectionType
<1>4. Sound(kv') /\ AllKept(kv, kv') /\ PinsKept(kv, kv') /\ kv'.pins = kv.pins
  BY <1>1, <1>2, <1>3, BindKeeps
<1>5. Contents(kv', cached') /\ PinsHold(kv')
  BY <1>1, <1>4, ContentsStill, PinsHoldStill
<1> QED
  BY <1>1, <1>4, <1>5, CallReturned DEF ForOneOwner

LEMMA ReleaseGood == ASSUME CacheInv, NEW o \in Requests, Release(o) PROVE GoodCall
<1>1. /\ Sound(kv) /\ write' = NoWrite /\ kv' = ReleaseOwner(kv, o)
      /\ cached' = [cached EXCEPT ![o] = <<>>]
      /\ Contents(kv, cached) /\ PinsHold(kv)
  BY DEF CacheInv, Release, Returned
<1>2. /\ Sound(kv') /\ OthersKept(kv, kv', o) /\ PinsKept(kv, kv') /\ kv'.pins = kv.pins
      /\ TableOf(kv', o) = EmptyTable
  BY <1>1, ReleaseKeeps
<1>3. ViewSound(Reads(kv', o), <<>>) /\ <<>> \in Seq(Nat)
  BY <1>2, EmptyShown
<1>4. Contents(kv', cached') /\ PinsHold(kv')
  BY <1>1, <1>2, <1>3, ContentsChanged, PinsHoldStill
<1> QED
  BY <1>1, <1>2, <1>4, CallReturned DEF ForOneOwner

LEMMA ForkGood ==
  ASSUME CacheInv, NEW s \in Requests, NEW d \in Requests, Fork(s, d) PROVE GoodCall
<1>1. /\ Sound(kv) /\ write' = NoWrite /\ s # d
      /\ TableOf(kv, d) = EmptyTable /\ kv' = ForkOwner(kv, s, d)
      /\ cached' = [cached EXCEPT ![d] = cached[s]]
      /\ Contents(kv, cached) /\ PinsHold(kv)
  BY DEF CacheInv, Fork, Returned
<1>2. /\ Sound(kv') /\ OthersKept(kv, kv', d) /\ PinsKept(kv, kv') /\ kv'.pins = kv.pins
      /\ Reads(kv', d) = Reads(kv, s)
  BY <1>1, ForkKeeps
<1>3. ViewSound(Reads(kv', d), cached[s]) /\ cached[s] \in Seq(Nat)
  BY <1>1, <1>2 DEF Contents
<1>4. Contents(kv', cached') /\ PinsHold(kv')
  BY <1>1, <1>2, <1>3, ContentsChanged, PinsHoldStill
<1> QED
  BY <1>1, <1>2, <1>4, CallReturned DEF ForOneOwner

(* The pinned page holds the tokens of its id: the source has filled the block with
   them, and a page never holds more than ends in its block. *)
LEMMA PinGood ==
  ASSUME CacheInv, NEW id \in PinIds, NEW o \in Requests, Pin(id, o)
  PROVE  GoodCall
<1>1. PICK k : k = Blocks(Len(id))
  OBVIOUS
<1>2. /\ Sound(kv) /\ write' = NoWrite /\ Synced(kv) /\ id \notin DOMAIN kv.pins
      /\ Len(id) <= kv.table[o].offset /\ IsPrefix(id, cached[o])
      /\ kv' = PinBlock(kv, id, o, k) /\ cached' = cached
      /\ Contents(kv, cached) /\ PinsHold(kv)
  BY <1>1 DEF CacheInv, Pin, Returned
<1>3. k \in Nat \ {0} /\ k * BlockSize <= kv.table[o].offset
  BY <1>1, <1>2, WholeBlocks
<1>4. /\ Sound(kv') /\ AllKept(kv, kv') /\ PinsKept(kv, kv')
      /\ DOMAIN kv'.pins = DOMAIN kv.pins \cup {id}
      /\ k <= Len(kv.table[o].blocks)
      /\ kv'.holds[kv'.pins[id]] = kv.holds[kv.table[o].blocks[k]]
  BY <1>2, <1>3, PinKeeps
<1>5. PICK r : r = Reads(kv, o)
  OBVIOUS
<1>6. /\ TableOf(kv, o) = kv.table[o] /\ kv.table[o].blocks \in Seq(Pages)
      /\ kv.table[o].offset \in Nat
  BY <1>2, TableOfSynced, CacheParts DEF Sound, Tables
<1>7. r.offset = kv.table[o].offset /\ r.pages[k] = kv.holds[kv.table[o].blocks[k]]
  <2>1. k \in DOMAIN kv.table[o].blocks
    <3>1. PICK b \in Seq(Pages) : b = kv.table[o].blocks /\ k <= Len(b)
      BY <1>4, <1>6, Zenon
    <3> QED
      BY <1>3, <3>1
  <2> QED
    BY <1>5, <1>6, <2>1, Zenon DEF Reads
<1>8. /\ cached[o] \in Seq(Nat) /\ Shows(r.pages, cached[o], r.offset) /\ Fits(r.pages)
      /\ r.offset \in Nat
  BY <1>2, <1>5, <1>6, <1>7 DEF Contents, ViewSound
<1>9. r.pages[k] = id
  BY <1>1, <1>2, <1>7, <1>8, FilledBlock
<1>10. Contents(kv', cached') /\ PinsHold(kv')
  BY <1>2, <1>4, <1>7, <1>9, ContentsStill, PinsHoldMore
<1> QED
  BY <1>2, <1>4, <1>10, CallReturned DEF ForOneOwner

LEMMA LoadBlockGood == ASSUME CacheInv, NEW id \in PinIds, LoadBlock(id) PROVE GoodCall
<1>1. /\ Sound(kv) /\ write' = NoWrite /\ id \notin DOMAIN kv.pins
      /\ FreePages(kv) # {} /\ kv' = InstallBlock(kv, id, id) /\ cached' = cached
      /\ Contents(kv, cached) /\ PinsHold(kv)
  BY DEF CacheInv, LoadBlock, Returned
<1>2. id \in Seq(Nat)
  BY WholeBlocks
<1>3. /\ Sound(kv') /\ AllKept(kv, kv') /\ PinsKept(kv, kv')
      /\ DOMAIN kv'.pins = DOMAIN kv.pins \cup {id} /\ kv'.holds[kv'.pins[id]] = id
  BY <1>1, <1>2, InstallBlockKeeps
<1>4. Contents(kv', cached') /\ PinsHold(kv')
  BY <1>1, <1>3, ContentsStill, PinsHoldMore
<1> QED
  BY <1>1, <1>3, <1>4, CallReturned DEF ForOneOwner

LEMMA UnpinGood == ASSUME CacheInv, NEW id \in DOMAIN kv.pins, Unpin(id) PROVE GoodCall
<1>1. /\ Sound(kv) /\ write' = NoWrite /\ kv' = ReleasePin(kv, id) /\ cached' = cached
      /\ Contents(kv, cached) /\ PinsHold(kv)
  BY DEF CacheInv, Unpin, Returned
<1>2. /\ Sound(kv') /\ AllKept(kv, kv') /\ PinsKept(kv, kv')
      /\ DOMAIN kv'.pins \subseteq DOMAIN kv.pins
  BY <1>1, ReleasePinKeeps
<1>3. Contents(kv', cached') /\ PinsHold(kv')
  BY <1>1, <1>2, ContentsStill, PinsHoldStill
<1> QED
  BY <1>1, <1>2, <1>3, CallReturned DEF ForOneOwner

(* Blocks of a text end in different places: no two are the same pin, and no two pins
   of a text have the same page. *)
LEMMA ChainPinned ==
  ASSUME Sound(kv), PinsHold(kv), NEW text \in PinIds, NEW ids, ids = Chain(text),
         ToSet(ids) \subseteq DOMAIN kv.pins
  PROVE  /\ ids \in Seq(DOMAIN kv.pins)
         /\ \A k \in DOMAIN ids : kv.holds[kv.pins[ids[k]]] = ids[k]
         /\ \A i, j \in DOMAIN ids : kv.pins[ids[i]] = kv.pins[ids[j]] => i = j
<1>1. PICK n : n = Blocks(Len(text))
  OBVIOUS
<1>2. /\ n \in Nat /\ DOMAIN ids = 1..n
      /\ \A k \in 1..n : Len(ids[k]) = k * BlockSize
  BY <1>1, ChainParts
<1>3. \A k \in 1..n : ids[k] \in DOMAIN kv.pins
  BY <1>2 DEF ToSet
<1>4. ids = [k \in 1..n |-> ids[k]]
  BY <1>1 DEF Chain
<1>5. ids \in [1..n -> DOMAIN kv.pins]
  BY <1>3, <1>4
<1>6. ids \in Seq(DOMAIN kv.pins)
  BY <1>2, <1>5
<1>7. \A k \in DOMAIN ids : kv.holds[kv.pins[ids[k]]] = ids[k]
  BY <1>2, <1>3 DEF PinsHold
<1>8. ASSUME NEW i \in DOMAIN ids, NEW j \in DOMAIN ids, kv.pins[ids[i]] = kv.pins[ids[j]]
      PROVE  i = j
  <2>1. ids[i] = ids[j]
    BY <1>7, <1>8
  <2>2. i * BlockSize = j * BlockSize /\ i \in Nat /\ j \in Nat
    BY <1>2, <2>1
  <2> QED
    BY <2>2, KVAssumption
<1> QED
  BY <1>6, <1>7, <1>8

LEMMA StartWithPinsGood ==
  ASSUME CacheInv, NEW o \in Requests, NEW text \in PinIds, StartWithPins(o, text)
  PROVE  GoodCall
<1>1. PICK ids : ids = Chain(text)
  OBVIOUS
<1>2. /\ Sound(kv) /\ write' = NoWrite /\ TableOf(kv, o) = EmptyTable
      /\ ToSet(ids) \subseteq DOMAIN kv.pins
      /\ kv' = InstallPrefix(kv, o, ids) /\ cached' = [cached EXCEPT ![o] = text]
      /\ Contents(kv, cached) /\ PinsHold(kv)
  BY <1>1 DEF CacheInv, StartWithPins, Returned
<1>3. /\ ids \in Seq(DOMAIN kv.pins)
      /\ \A k \in DOMAIN ids : kv.holds[kv.pins[ids[k]]] = ids[k]
      /\ \A i, j \in DOMAIN ids : kv.pins[ids[i]] = kv.pins[ids[j]] => i = j
  BY <1>1, <1>2, ChainPinned
<1>4. /\ Sound(kv') /\ OthersKept(kv, kv', o) /\ PinsKept(kv, kv') /\ kv'.pins = kv.pins
      /\ Reads(kv', o) = [offset |-> BlockSize * Len(ids),
                          pages  |-> [k \in DOMAIN ids |-> kv.holds[kv.pins[ids[k]]]]]
  BY <1>2, <1>3, InstallPrefixKeeps
<1>5. ViewSound(Reads(kv', o), text) /\ text \in Seq(Nat)
  <2>1. PICK r : r = Reads(kv', o)
    OBVIOUS
  <2>2. /\ r.offset = BlockSize * Len(ids) /\ DOMAIN r.pages = DOMAIN ids
        /\ \A k \in DOMAIN ids : r.pages[k] = ids[k]
    BY <1>3, <1>4, <2>1
  <2> QED
    BY <1>1, <2>1, <2>2, ChainShown, WholeBlocks
<1>6. Contents(kv', cached') /\ PinsHold(kv')
  BY <1>2, <1>4, <1>5, ContentsChanged, PinsHoldStill
<1> QED
  BY <1>2, <1>4, <1>6, CallReturned DEF ForOneOwner

(* What an owner with a row reads is the row's. *)
LEMMA ReadsOfRow ==
  ASSUME NEW c, Sound(c), NEW i \in DOMAIN c.rows, NEW o \in Requests, c.rows[i].owner = o
  PROVE  /\ Reads(c, o).offset = c.rows[i].offset
         /\ DOMAIN Reads(c, o).pages = DOMAIN c.rows[i].blocks
         /\ \A k \in DOMAIN c.rows[i].blocks :
              Reads(c, o).pages[k] = c.holds[c.rows[i].blocks[k]]
<1>1. TableOf(c, o) = [blocks |-> c.rows[i].blocks, offset |-> c.rows[i].offset]
  BY TableOfBound DEF Sound
<1> QED
  BY <1>1 DEF Reads

(* An owner with nothing cached starts again with no page. *)
LEMMA BeginAdoptGood == ASSUME CacheInv, NEW i \in DOMAIN kv.rows, BeginAdopt(i) PROVE GoodCall
<1>1. PICK o \in Requests : kv.rows[i].owner = o
  BY DEF BeginAdopt
<1>2. /\ Sound(kv) /\ write' = NoWrite /\ kv.rows[i].offset = 0 /\ kv' = ClearRow(kv, i)
      /\ cached' = cached /\ Contents(kv, cached) /\ PinsHold(kv)
  BY DEF CacheInv, BeginAdopt, Returned
<1>3. /\ Sound(kv') /\ OthersKept(kv, kv', o) /\ PinsKept(kv, kv') /\ kv'.pins = kv.pins
      /\ TableOf(kv', o) = EmptyTable
  BY <1>1, <1>2, ClearRowKeeps
<1>4. cached = [cached EXCEPT ![o] = <<>>]
  <2>1. Reads(kv, o).offset = 0
    BY <1>1, <1>2, ReadsOfRow
  <2>2. cached[o] \in Seq(Nat) /\ Len(cached[o]) = 0
    BY <1>2, <2>1 DEF Contents, ViewSound
  <2>3. cached[o] = <<>>
    BY <2>2
  <2>4. cached \in [Requests -> Seq(Nat)]
    BY <1>2 DEF Contents
  <2> QED
    BY <2>3, <2>4
<1>5. ViewSound(Reads(kv', o), <<>>) /\ <<>> \in Seq(Nat)
  BY <1>3, EmptyShown
<1>6. Contents(kv', [cached EXCEPT ![o] = <<>>])
  BY <1>2, <1>3, <1>5, ContentsChanged
<1>7. Contents(kv', cached') /\ PinsHold(kv')
  BY <1>2, <1>3, <1>4, <1>6, PinsHoldStill
<1> QED
  BY <1>2, <1>3, <1>7, CallReturned DEF ForOneOwner

LEMMA CommitRowsGood == ASSUME CacheInv, CommitRows PROVE GoodCall
<1>1. /\ Sound(kv) /\ write' = NoWrite /\ kv' = Commit(kv) /\ cached' = cached
      /\ Contents(kv, cached) /\ PinsHold(kv)
  BY DEF CacheInv, CommitRows, Returned
<1>2. Sound(kv') /\ AllKept(kv, kv') /\ PinsKept(kv, kv') /\ kv'.pins = kv.pins
  BY <1>1, CommitKeeps
<1>3. Contents(kv', cached') /\ PinsHold(kv')
  BY <1>1, <1>2, ContentsStill, PinsHoldStill
<1> QED
  BY <1>1, <1>2, <1>3, CallReturned DEF ForOneOwner

LEMMA NothingChanges == ASSUME NEW h, h = kv PROVE AllKept(kv, h) /\ PinsKept(kv, h)
  BY DEF AllKept, PinsKept

LEMMA BeginRowGood ==
  ASSUME CacheInv, NEW i \in DOMAIN kv.rows, NEW text \in Texts, BeginRow(i, text)
  PROVE  GoodCall
<1>1. PICK o \in Requests : kv.rows[i].owner = o
  BY DEF BeginRow
<1>2. PICK n : n = kv.rows[i].offset
  OBVIOUS
<1>3. /\ Sound(kv) /\ Contents(kv, cached) /\ PinsHold(kv)
      /\ kv' = kv /\ cached' = cached /\ n < Len(text) /\ IsPrefix(cached[o], text)
      /\ write' = [row |-> i, text |-> text, at |-> n]
  BY <1>1, <1>2 DEF CacheInv, BeginRow
<1>4. text \in Seq(Nat) /\ Len(text) \in Nat
  BY TextType
<1>5. n \in Nat /\ Blocks(n) <= Len(kv.rows[i].blocks)
  BY <1>1, <1>2, <1>3, RowPages DEF Covered
<1>6. i \in Nat
  BY <1>3, CacheParts DEF Sound
<1>7. write'.row = i /\ write'.text = text /\ write'.at = n
      /\ write' \in [row : Nat, text : Seq(Nat), at : Nat]
  BY <1>3, <1>4, <1>5, <1>6
<1>8. WriteSound(kv', write')
  BY <1>1, <1>3, <1>4, <1>5, <1>7 DEF WriteSound
<1>9. RowShows(kv, o, n, cached, write')
  <2>1. Reads(kv, o).offset = n
    BY <1>1, <1>2, <1>3, ReadsOfRow
  <2>2. PICK known \in Seq(Nat) : known = cached[o]
    BY <1>3 DEF Contents
  <2>3. Len(known) = n /\ Shows(Reads(kv, o).pages, known, n)
    BY <1>3, <2>1, <2>2 DEF Contents, ViewSound
  <2>4. Agree(known, n, text)
    BY <1>3, <1>4, <2>2, <2>3, PrefixIsAgreed
  <2>5. Shows(Reads(kv, o).pages, text, n)
    BY <1>4, <1>5, <2>2, <2>3, <2>4, ShowsSame
  <2> QED
    BY <1>5, <1>7, <2>2, <2>4, <2>5 DEF RowShows
<1>10. WriteShows(kv', cached', write')
  <2>1. kv'.rows[write'.row].owner = o /\ kv'.rows[write'.row].offset = n
    BY <1>1, <1>2, <1>3, <1>7
  <2>2. RowShows(kv', o, n, cached', write')
    BY <1>3, <1>9, Zenon
  <2> QED
    BY <2>1, <2>2, Zenon DEF WriteShows
<1> QED
  BY <1>3, <1>8, <1>10, NothingChanges DEF GoodCall, CacheInv, ForOneOwner

(* The row that is being written *)
RowInHand(i, o, b, text, at) ==
  /\ Sound(kv) /\ Contents(kv, cached) /\ PinsHold(kv)
  /\ i \in DOMAIN kv.rows /\ i \in Nat /\ o \in Requests
  /\ text \in Seq(Nat) /\ at \in Nat /\ at <= Len(text)
  /\ b \in Seq(Pages) /\ Blocks(at) <= Len(b)
  /\ write = [row |-> i, text |-> text, at |-> at]
  /\ kv.rows[i].offset \in Nat /\ kv.rows[i].offset <= at
  /\ cached[o] \in Seq(Nat) /\ Len(cached[o]) = kv.rows[i].offset
  /\ Reads(kv, o).offset = kv.rows[i].offset
  /\ Agree(cached[o], kv.rows[i].offset, text)
  /\ Shows(Reads(kv, o).pages, text, at) /\ Fits(Reads(kv, o).pages)
  /\ Shows(Reads(kv, o).pages, cached[o], kv.rows[i].offset)

LEMMA Writing ==
  ASSUME CacheInv, write # NoWrite,
         NEW i, i = write.row, NEW o, o = kv.rows[i].owner, NEW b, b = kv.rows[i].blocks,
         NEW text, text = write.text, NEW at, at = write.at
  PROVE  RowInHand(i, o, b, text, at)
<1>1. /\ Sound(kv) /\ Contents(kv, cached) /\ PinsHold(kv)
      /\ i \in DOMAIN kv.rows /\ i \in Nat /\ o \in Requests
      /\ text \in Seq(Nat) /\ at \in Nat /\ at <= Len(text) /\ Blocks(at) <= Len(b)
      /\ write = [row |-> i, text |-> text, at |-> at]
  BY DEF CacheInv, WriteSound
<1>2. RowShows(kv, o, kv.rows[i].offset, cached, write)
  BY DEF CacheInv, WriteShows
<1>3. b \in Seq(Pages)
  BY <1>1, RowPages
<1>4. Reads(kv, o).offset = kv.rows[i].offset
  BY <1>1, ReadsOfRow
<1>5. /\ cached[o] \in Seq(Nat) /\ Len(cached[o]) = kv.rows[i].offset
      /\ Fits(Reads(kv, o).pages) /\ Shows(Reads(kv, o).pages, cached[o], kv.rows[i].offset)
  BY <1>1, <1>4 DEF Contents, ViewSound
<1>6. /\ kv.rows[i].offset \in Nat /\ kv.rows[i].offset <= at
      /\ Agree(cached[o], kv.rows[i].offset, text) /\ Shows(Reads(kv, o).pages, text, at)
  BY <1>2 DEF RowShows
<1> QED
  BY <1>1, <1>3, <1>4, <1>5, <1>6, Zenon DEF RowInHand

LEMMA SameContents ==
  ASSUME NEW c, NEW h, NEW known, Contents(c, known), NEW o \in Requests, OthersKept(c, h, o),
         ViewSound(Reads(h, o), known[o])
  PROVE  Contents(h, known)
  BY DEF Contents, OthersKept

(* A position of a text that is put into its row: no page is left, or the page it falls
   in holds the text up to it. *)
LEMMA PositionPut ==
  ASSUME NEW c, Sound(c), NEW i \in DOMAIN c.rows, NEW o \in Requests, c.rows[i].owner = o,
         NEW text \in Seq(Nat), NEW at \in Nat, NEW n \in Nat, n = at + 1, n <= Len(text),
         Blocks(at) <= Len(c.rows[i].blocks),
         Shows(Reads(c, o).pages, text, at), Fits(Reads(c, o).pages),
         NEW part, part = Prefix(text, n), NEW put, put = Put(c, i, part)
  PROVE  \/ put.ok = FALSE /\ put.kv = c
         \/ put.ok = TRUE /\ Written(c, put.kv, i, o, Blocks(n), part)
<1>1. part \in Seq(Nat) /\ Len(part) = n
  BY PrefixParts
<1>2. PICK l \in Nat : l = Len(c.rows[i].blocks)
  BY RowPages
<1>3. PICK k \in Nat \ {0} : k = Blocks(n) /\ k <= l + 1
  <2>1. PICK a \in Nat : a = Blocks(at) /\ a <= l
    BY <1>2, BlocksNat
  <2>2. PICK k : k = Blocks(n)
    OBVIOUS
  <2>3. k \in {a, a + 1} /\ k >= 1
    BY <2>1, <2>2, BlocksNext
  <2> QED
    BY <1>2, <2>1, <2>2, <2>3
<1>4. LastWritten(c, i, k, part) = part
  <2>1. PICK v : v = Reads(c, o).pages
    OBVIOUS
  <2>2. k \in DOMAIN v => c.holds[c.rows[i].blocks[k]] = v[k]
    BY <2>1, ReadsOfRow
  <2>3. Shows(v, text, at) /\ Fits(v)
    BY <2>1, Zenon
  <2>4. GoesOnWith(part, k, v)
    BY <1>3, <2>3, PositionGoesOn
  <2> QED
    BY <2>2, <2>4, LastWrittenIsText
<1>5. k = Blocks(Len(part)) /\ k <= Len(c.rows[i].blocks) + 1
  BY <1>1, <1>2, <1>3
<1>6. PICK w : w = LastWritten(c, i, k, part)
  OBVIOUS
<1>7. \/ put.ok = FALSE /\ put.kv = c
      \/ put.ok = TRUE /\ Written(c, put.kv, i, o, k, w)
  BY <1>1, <1>5, <1>6, PutKeeps
<1> QED
  BY <1>3, <1>4, <1>6, <1>7, Zenon

(* Its owner still reads what it had cached, and shows the text up to the position. *)
LEMMA PositionShown ==
  ASSUME NEW c, NEW h, NEW i, NEW o, NEW text \in Seq(Nat), NEW at \in Nat, NEW n \in Nat,
         n = at + 1, n <= Len(text),
         Shows(Reads(c, o).pages, text, at), Fits(Reads(c, o).pages),
         NEW known \in Seq(Nat), NEW m \in Nat, m <= at, Reads(c, o).offset = m,
         Len(known) = m, Shows(Reads(c, o).pages, known, m), Agree(known, m, text),
         Written(c, h, i, o, Blocks(n), Prefix(text, n))
  PROVE  ViewSound(Reads(h, o), known) /\ Shows(Reads(h, o).pages, text, n)
<1>1. PICK v, u, k : v = Reads(c, o).pages /\ u = Reads(h, o).pages /\ k = Blocks(n)
  OBVIOUS
<1>2. Rewritten(v, u, k, Prefix(text, at + 1)) /\ k = Blocks(at + 1) /\ at + 1 <= Len(text)
  BY <1>1 DEF Written
<1>3. Shows(v, text, at) /\ Fits(v) /\ Shows(v, known, m)
  BY <1>1, Zenon
<1>4. Shows(u, text, at + 1) /\ Fits(u)
  BY <1>2, <1>3, ShowsNext
<1>5. Shows(u, known, m)
  BY <1>2, <1>3, ShowsStill
<1>6. Reads(h, o).offset = m
  BY DEF Written
<1>7. Shows(u, text, n)
  BY <1>4
<1> QED
  BY <1>1, <1>4, <1>5, <1>6, <1>7 DEF ViewSound

(* A position that is written is the text's, and what the owner has cached already
   is where it was. *)
LEMMA WritePositionGood == ASSUME CacheInv, WritePosition PROVE GoodCall
<1>1. PICK put : put = Put(kv, write.row, Prefix(write.text, write.at + 1))
  OBVIOUS
<1>2. /\ write # NoWrite /\ write.at < Len(write.text) /\ kv' = put.kv /\ cached' = cached
      /\ write' = IF put.ok THEN [write EXCEPT !.at = write.at + 1] ELSE NoWrite
  BY <1>1 DEF WritePosition
<1>3. PICK c, i, o, text, at, b, known, m :
        /\ c = kv /\ i = write.row /\ o = c.rows[i].owner /\ text = write.text
        /\ at = write.at /\ b = c.rows[i].blocks /\ known = cached[o] /\ m = c.rows[i].offset
  OBVIOUS
<1>4. /\ Sound(kv) /\ Contents(kv, cached) /\ PinsHold(kv)
      /\ i \in DOMAIN kv.rows /\ i \in Nat /\ o \in Requests
      /\ text \in Seq(Nat) /\ at \in Nat /\ at <= Len(text)
      /\ b \in Seq(Pages) /\ Blocks(at) <= Len(b)
      /\ write = [row |-> i, text |-> text, at |-> at]
      /\ kv.rows[i].offset \in Nat /\ kv.rows[i].offset <= at
      /\ cached[o] \in Seq(Nat) /\ Len(cached[o]) = kv.rows[i].offset
      /\ Reads(kv, o).offset = kv.rows[i].offset
      /\ Agree(cached[o], kv.rows[i].offset, text)
      /\ Shows(Reads(kv, o).pages, text, at) /\ Fits(Reads(kv, o).pages)
      /\ Shows(Reads(kv, o).pages, cached[o], kv.rows[i].offset)
  <2>1. i = write.row /\ o = kv.rows[i].owner /\ b = kv.rows[i].blocks
    BY <1>3, Zenon
  <2>2. RowInHand(i, o, b, text, at)
    BY <1>2, <1>3, <2>1, Writing, Zenon
  <2> QED
    BY <2>2, Zenon DEF RowInHand
<1>5. Sound(c) /\ Contents(c, cached) /\ PinsHold(c) /\ i \in DOMAIN c.rows /\ i \in Nat
      /\ o \in Requests /\ c.rows[i].owner = o
  BY <1>3, <1>4, Zenon
<1>6. /\ text \in Seq(Nat) /\ at \in Nat /\ at <= Len(text) /\ Blocks(at) <= Len(b)
      /\ b = c.rows[i].blocks /\ write = [row |-> i, text |-> text, at |-> at]
  BY <1>3, <1>4, Zenon
<1>7. /\ m \in Nat /\ m <= at /\ known \in Seq(Nat) /\ Len(known) = m
      /\ m = c.rows[i].offset /\ known = cached[o]
      /\ Reads(c, o).offset = m /\ Agree(known, m, text)
  BY <1>3, <1>4, Zenon
<1>8. /\ Shows(Reads(c, o).pages, text, at) /\ Fits(Reads(c, o).pages)
      /\ Shows(Reads(c, o).pages, known, m)
  BY <1>3, <1>4, Zenon
<1>9. PICK n \in Nat : n = at + 1 /\ n <= Len(text)
  <2>1. at < Len(text)
    BY <1>2, <1>3, Zenon
  <2> QED
    BY <1>6, <2>1
<1>10. PICK part : part = Prefix(text, n) /\ put = Put(c, i, part)
  BY <1>1, <1>3, <1>9, Zenon
<1>11. \/ put.ok = FALSE /\ put.kv = c
       \/ put.ok = TRUE /\ Written(c, put.kv, i, o, Blocks(n), part)
  BY <1>5, <1>6, <1>8, <1>9, <1>10, PositionPut
<1>12. CASE put.ok = FALSE /\ put.kv = c
  <2>1. kv' = kv /\ write' = NoWrite /\ cached' = cached
    BY <1>2, <1>3, <1>12
  <2>2. AllKept(kv, kv') /\ PinsKept(kv, kv')
    BY <2>1, NothingChanges
  <2>3. Sound(kv') /\ Contents(kv', cached') /\ PinsHold(kv')
    BY <1>4, <2>1
  <2> QED
    BY <2>1, <2>2, <2>3, CallReturned DEF ForOneOwner
<1>13. CASE put.ok = TRUE /\ Written(c, put.kv, i, o, Blocks(n), part)
  <2>1. PICK h, w : h = put.kv /\ w = [row |-> i, text |-> text, at |-> n]
    OBVIOUS
  <2>2. Written(c, h, i, o, Blocks(n), Prefix(text, n))
    BY <1>10, <1>13, <2>1, Zenon
  <2>3. ViewSound(Reads(h, o), known) /\ Shows(Reads(h, o).pages, text, n)
    BY <1>6, <1>7, <1>8, <1>9, <2>2, PositionShown
  <2>4. /\ Sound(h) /\ OthersKept(c, h, o) /\ PinsKept(c, h) /\ h.pins = c.pins
        /\ i \in DOMAIN h.rows /\ h.rows[i].owner = o /\ h.rows[i].offset = m
        /\ Blocks(n) <= Len(h.rows[i].blocks)
    BY <1>5, <1>7, <2>2 DEF Written
  <2>5. w.row = i /\ w.text = text /\ w.at = n /\ w \in [row : Nat, text : Seq(Nat), at : Nat]
    BY <1>5, <1>6, <1>9, <2>1
  <2>6. WriteSound(h, w)
    <3>1. w.row \in DOMAIN h.rows /\ h.rows[w.row].owner \in Requests
      BY <1>5, <2>4, <2>5, Zenon
    <3>2. w.at <= Len(w.text) /\ Blocks(w.at) <= Len(h.rows[w.row].blocks)
      BY <1>9, <2>4, <2>5, Zenon
    <3> QED
      BY <2>5, <3>1, <3>2, Zenon DEF WriteSound
  <2>7. Contents(h, cached)
    <3>1. ViewSound(Reads(h, o), cached[o]) /\ Contents(c, cached) /\ OthersKept(c, h, o)
      BY <1>5, <1>7, <2>3, <2>4, Zenon
    <3> QED
      BY <1>5, <3>1, SameContents
  <2>8. PinsHold(h)
    <3>1. PinsHold(c) /\ PinsKept(c, h) /\ DOMAIN h.pins \subseteq DOMAIN c.pins
      BY <1>5, <2>4, Zenon
    <3> QED
      BY <3>1, Zenon DEF PinsHold, PinsKept
  <2>9. m <= n
    <3>1. m \in Nat /\ at \in Nat /\ m <= at /\ n = at + 1
      BY <1>6, <1>7, <1>9, Zenon
    <3> QED
      BY <3>1
  <2>10. RowShows(h, o, m, cached, w)
    BY <1>7, <2>3, <2>5, <2>9, Zenon DEF RowShows
  <2>11. WriteShows(h, cached, w)
    BY <2>4, <2>5, <2>10 DEF WriteShows
  <2>12. write' = [write EXCEPT !.at = at + 1]
    BY <1>2, <1>3, <1>13, Zenon
  <2>13. write' = w
    BY <1>6, <1>9, <2>1, <2>12
  <2>14. kv' = h /\ kv = c /\ cached' = cached
    BY <1>2, <1>3, <2>1, Zenon
  <2>15. CacheInv'
    BY <2>4, <2>6, <2>7, <2>8, <2>11, <2>13, <2>14 DEF CacheInv
  <2> QED
    BY <1>5, <2>4, <2>14, <2>15 DEF GoodCall, ForOneOwner
<1> QED
  BY <1>11, <1>12, <1>13

(* The row is written to its end: its owner has cached the text. *)
LEMMA EndRowGood == ASSUME CacheInv, EndRow PROVE GoodCall
<1>1. PICK i, o, text, n, b :
        /\ i = write.row /\ o = kv.rows[i].owner /\ text = write.text /\ n = write.at
        /\ b = kv.rows[i].blocks
  OBVIOUS
<1>2. /\ write # NoWrite /\ write' = NoWrite /\ n = Len(text)
      /\ kv' = Advance(Attempt(kv), i, n).kv /\ cached' = [cached EXCEPT ![o] = text]
  BY <1>1 DEF EndRow
<1>3. /\ Sound(kv) /\ Contents(kv, cached) /\ PinsHold(kv)
      /\ i \in DOMAIN kv.rows /\ o \in Requests
      /\ text \in Seq(Nat) /\ n \in Nat /\ Blocks(n) <= Len(b)
      /\ Shows(Reads(kv, o).pages, text, n) /\ Fits(Reads(kv, o).pages)
  <2>1. RowInHand(i, o, b, text, n)
    BY <1>1, <1>2, Writing, Zenon
  <2> QED
    BY <2>1, Zenon DEF RowInHand
<1>4. Advanced(kv, kv', i, n)
  <2>1. PICK c : c = kv
    OBVIOUS
  <2>2. PICK a : a = Attempt(c)
    OBVIOUS
  <2>3. a.ok = TRUE /\ a.kv = c
    BY <2>2 DEF Attempt
  <2>4. PICK h : h = [c EXCEPT !.rows[i].offset = n]
    OBVIOUS
  <2>5. Advance(a, i, n) = Attempt(h)
    BY <2>3, <2>4, Zenon DEF Advance
  <2>6. kv' = Attempt(h).kv
    BY <1>2, <2>1, <2>2, <2>5
  <2>7. kv' = h
    BY <2>6 DEF Attempt
  <2> QED
    BY <2>1, <2>4, <2>7, Zenon DEF Advanced
<1>5. /\ Sound(kv') /\ OthersKept(kv, kv', o) /\ PinsKept(kv, kv') /\ kv'.pins = kv.pins
      /\ Reads(kv', o).offset = n /\ Reads(kv', o).pages = Reads(kv, o).pages
  <2>1. kv.rows[i].owner = o /\ Blocks(n) <= Len(kv.rows[i].blocks)
    BY <1>1, <1>3
  <2> QED
    BY <1>3, <1>4, <2>1, AdvanceKeeps
<1>6. ViewSound(Reads(kv', o), text)
  BY <1>2, <1>3, <1>5 DEF ViewSound
<1>7. Contents(kv', cached') /\ PinsHold(kv')
  BY <1>2, <1>3, <1>5, <1>6, ContentsChanged, PinsHoldStill
<1> QED
  BY <1>2, <1>3, <1>5, <1>7, CallReturned DEF ForOneOwner

-----------------------------------------------------------------------------
(* Theorems *)

LEMMA InitSound == Init => CacheInv
<1> SUFFICES ASSUME Init PROVE CacheInv
  OBVIOUS
<1>1. kv = NewCache /\ write = NoWrite /\ cached = [o \in Requests |-> <<>>]
  BY DEF Init
<1>2. /\ Sound(kv) /\ DOMAIN kv.pins = {}
      /\ \A o \in Requests : TableOf(kv, o) = EmptyTable
  BY <1>1, NewCacheSound
<1>3. WriteSound(kv, write) /\ WriteShows(kv, cached, write)
  BY <1>1, NoWriteSound
<1>4. Contents(kv, cached)
  <2>1. \A o \in Requests : ViewSound(Reads(kv, o), <<>>)
    BY <1>2, EmptyShown
  <2>2. cached \in [Requests -> Seq(Nat)] /\ \A o \in Requests : cached[o] = <<>>
    BY <1>1
  <2> QED
    BY <2>1, <2>2 DEF Contents
<1>5. PinsHold(kv)
  BY <1>2 DEF PinsHold
<1> QED
  BY <1>2, <1>3, <1>4, <1>5 DEF CacheInv

(* Every call, refused or not, and every position of an append keeps the counts,
   acts for one owner, and leaves the pins alone. *)
LEMMA EveryCallGood == ASSUME CacheInv, [Next]_vars PROVE GoodCall
<1>1. CASE UNCHANGED vars
  <2>1. kv' = kv /\ write' = write /\ cached' = cached
    BY <1>1 DEF vars
  <2> QED
    BY <2>1, NothingChanges DEF GoodCall, CacheInv, ForOneOwner
<1>2. CASE BindRows
  BY <1>2, BindRowsGood
<1>3. CASE \E o \in Requests : Release(o)
  BY <1>3, ReleaseGood
<1>4. CASE \E s, d \in Requests : Fork(s, d)
  BY <1>4, ForkGood
<1>5. CASE \E id \in PinIds, o \in Requests : Pin(id, o)
  BY <1>5, PinGood
<1>6. CASE \E id \in PinIds : LoadBlock(id)
  BY <1>6, LoadBlockGood
<1>7. CASE \E id \in DOMAIN kv.pins : Unpin(id)
  BY <1>7, UnpinGood
<1>8. CASE \E o \in Requests, text \in PinIds : StartWithPins(o, text)
  BY <1>8, StartWithPinsGood
<1>9. CASE \E i \in DOMAIN kv.rows : BeginAdopt(i)
  BY <1>9, BeginAdoptGood
<1>10. CASE \E i \in DOMAIN kv.rows, text \in Texts : BeginRow(i, text)
  BY <1>10, BeginRowGood
<1>11. CASE WritePosition
  BY <1>11, WritePositionGood
<1>12. CASE EndRow
  BY <1>12, EndRowGood
<1>13. CASE CommitRows
  BY <1>13, CommitRowsGood
<1> QED
  BY <1>1, <1>2, <1>3, <1>4, <1>5, <1>6, <1>7, <1>8, <1>9, <1>10, <1>11, <1>12, <1>13
  DEF Next

(* The inductive invariant: the cache is sound; the row that append_on is writing has
   the pages of the positions written so far, and they show its text; every owner's
   pages show what it has cached, and every pin's page what the pin stands for. *)
THEOREM CacheStaysSound == Spec => []CacheInv
<1>1. Init => CacheInv
  BY InitSound
<1>2. CacheInv /\ [Next]_vars => CacheInv'
  BY EveryCallGood DEF GoodCall
<1> QED
  BY <1>1, <1>2, PTL DEF Spec

(* Every cache has the shape the calls expect. *)
THEOREM CacheTypeCorrect == Spec => []TypeOK
<1>1. CacheInv => TypeOK
  BY DEF CacheInv, Sound, WriteSound, Contents, TypeOK
<1> QED
  BY <1>1, CacheStaysSound, PTL

(* The counts of validate_owner_invariants are exact after every call and at every
   position of an append, the one included that stops for want of a page: a page is
   counted once for each table and each pin that has it, no table has a page twice,
   and no owner two rows. *)
THEOREM CacheCountsExact == Spec => []PagesExact
<1>1. CacheInv => PagesExact
  <2> SUFFICES ASSUME CacheInv PROVE PagesExact
    OBVIOUS
  <2>1. kv \in Caches /\ Counted(kv) /\ NoPageTwice(kv) /\ OneRowEach(kv)
    BY DEF CacheInv, Sound
  <2> QED
    BY <2>1, CountedExact DEF PagesExact
<1> QED
  BY <1>1, CacheStaysSound, PTL

(* No position that is cached lies outside the pages of its table or row. *)
THEOREM CachePositionsCovered == Spec => []PositionsCovered
<1>1. CacheInv => PositionsCovered
  BY DEF CacheInv, Sound, PositionsCovered
<1> QED
  BY <1>1, CacheStaysSound, PTL

(* An owner reads its own K/V: the pages of its table hold the tokens it has cached,
   whatever it shares with forks and pins and whatever was abandoned before. *)
THEOREM CacheOwnTokens == Spec => []OwnTokens
<1>1. CacheInv => OwnTokens
  <2> SUFFICES ASSUME CacheInv, NEW o \in Requests
               PROVE  /\ Len(cached[o]) = TableOf(kv, o).offset
                      /\ Holds(kv, TableOf(kv, o).blocks, cached[o], TableOf(kv, o).offset)
    BY DEF OwnTokens
  <2>1. /\ Sound(kv) /\ cached[o] \in Seq(Nat) /\ ViewSound(Reads(kv, o), cached[o])
    BY DEF CacheInv, Contents
  <2>2. PICK b, n, text :
          b = TableOf(kv, o).blocks /\ n = TableOf(kv, o).offset /\ text = cached[o]
    OBVIOUS
  <2>3. n \in Nat /\ text \in Seq(Nat)
    BY <2>1, <2>2, TableOfType DEF Sound, Tables
  <2>4. PICK v : v = Reads(kv, o).pages
    OBVIOUS
  <2>5. /\ Len(text) = n /\ Shows(v, text, n) /\ Fits(v)
        /\ DOMAIN v = DOMAIN b /\ \A k \in DOMAIN b : v[k] = kv.holds[b[k]]
    BY <2>1, <2>2, <2>4 DEF ViewSound, Reads
  <2>6. ASSUME NEW k \in 1..Blocks(n)
        PROVE  IsPrefix(Prefix(text, EndOf(k, n)), kv.holds[b[k]])
    <3>1. PICK t : t = v[k]
      OBVIOUS
    <3>2. k \in DOMAIN v /\ Agree(text, EndOf(k, n), t) /\ t \in Seq(Nat)
      BY <2>5, <3>1 DEF Shows, Fits
    <3>3. k \in Nat
      BY <2>3, BlocksNat
    <3>4. EndOf(k, n) \in Nat /\ EndOf(k, n) <= Len(text)
      BY <2>3, <2>5, <3>3, EndOfType
    <3>5. IsPrefix(Prefix(text, EndOf(k, n)), t)
      BY <2>3, <3>2, <3>4, PrefixAgrees
    <3> QED
      BY <2>5, <3>1, <3>2, <3>5
  <2>7. Holds(kv, b, text, n)
    BY <2>6 DEF Holds, EndOf
  <2> QED
    BY <2>2, <2>5, <2>7
<1> QED
  BY <1>1, CacheStaysSound, PTL

(* A pinned block holds the tokens it stands for, and nothing else. *)
THEOREM CachePinsTrue == Spec => []PinsTrue
<1>1. CacheInv => PinsTrue
  BY DEF CacheInv, PinsHold, PinsTrue
<1> QED
  BY <1>1, CacheStaysSound, PTL

(* No call for one owner is seen by another one, whatever pages they share. *)
THEOREM CacheOwnersIsolated == Spec => OwnersIsolated
<1> DEFINE Isolated ==
      \A o, other \in Requests :
        o # other => \/ Reads(kv, o) = Reads(kv', o)
                     \/ Reads(kv, other) = Reads(kv', other)
<1>1. CacheInv /\ [Next]_vars => Isolated
  <2> SUFFICES ASSUME CacheInv, [Next]_vars PROVE Isolated
    OBVIOUS
  <2>1. ForOneOwner(kv, kv')
    BY EveryCallGood DEF GoodCall
  <2> QED
    BY <2>1 DEF ForOneOwner, AllKept, OthersKept
<1>2. CacheInv /\ [Next]_vars => [Isolated]_vars
  BY <1>1
<1> HIDE DEF Isolated
<1>3. Spec => [][Isolated]_vars
  BY <1>2, CacheStaysSound, PTL DEF Spec
<1> QED
  BY <1>3, Zenon DEF OwnersIsolated, Isolated

(* A block that stays pinned keeps its page and what the page holds. *)
THEOREM CachePinsImmutable == Spec => PinnedImmutable
<1> DEFINE Immutable ==
      \A id \in DOMAIN kv.pins \cap DOMAIN kv'.pins :
        /\ kv'.pins[id] = kv.pins[id]
        /\ kv'.holds[kv.pins[id]] = kv.holds[kv.pins[id]]
<1>1. CacheInv /\ [Next]_vars => Immutable
  BY EveryCallGood DEF GoodCall, PinsKept
<1>2. CacheInv /\ [Next]_vars => [Immutable]_vars
  BY <1>1
<1> HIDE DEF Immutable
<1>3. Spec => [][Immutable]_vars
  BY <1>2, CacheStaysSound, PTL DEF Spec
<1> QED
  BY <1>3, Zenon DEF PinnedImmutable, Immutable


=============================================================================
