--------------------------- MODULE LinAllocProofs ---------------------------
(***************************************************************************)
(* Proofs about LinAlloc, for every first size, header size and set of     *)
(* sizes: its type invariant, that the pieces stay apart, that their       *)
(* headers tell the truth, that its blocks double, and that the arena      *)
(* implements Heap.                                                        *)
(***************************************************************************)
EXTENDS LinAlloc, TLAPS

-----------------------------------------------------------------------------
(* The inductive invariant *)

Cells == Nat \cup Values \cup {Junk}

Block == UNION {[size : {n}, used : Nat, mem : [Bytes(0, n) -> Cells]] : n \in Nat}

Places == {"idle", "room", "double", "carve", "copy", "destroyed"}

\* the arena, and the pieces in it
ArenaInv ==
  /\ next_block_size \in Nat \ {0}
  /\ blocks \in Seq(Block)
  /\ pc \in Places
  /\ pc # "destroyed" => Top > 0
  /\ DOMAIN live \subseteq Nat \X Nat
  /\ \A p \in DOMAIN live : p[1] \in DOMAIN blocks /\ live[p] \in Nat \ {0}

\* the size passed to linalloc_alloc covers what is wanted and the headers
CallInv ==
  /\ pc \in {"idle", "destroyed"} => from = NULL
  /\ pc \in {"room", "double", "carve", "copy"} =>
       /\ want \in Nat \ {0} /\ size \in Nat
       /\ \/ from = NULL /\ size = want + Header
          \/ from \in DOMAIN live /\ size = want + 2 * Header /\ want > live[from]
  /\ pc = "carve" => blocks[Top].used + size <= blocks[Top].size

\* what linalloc_alloc has cut off for linalloc_realloc lies behind every piece
CopyInv ==
  pc = "copy" =>
    /\ from # NULL
    /\ to \in Nat \X Nat /\ to[1] \in DOMAIN blocks /\ to[2] >= Header
    /\ to[2] + Header + want <= blocks[to[1]].used
    /\ \A q \in DOMAIN live : q[1] = to[1] => q[2] + live[q] <= to[2] - Header

PiecesInv == PiecesInBlocks /\ PiecesDisjoint /\ HeadersTrue

\* and so does the next one
DoubleInv == BlocksDouble /\ (Top > 0 => next_block_size >= 2 * blocks[Top].size)

IndInv == ArenaInv /\ CallInv /\ CopyInv /\ PiecesInv /\ DoubleInv

-----------------------------------------------------------------------------
(* Blocks *)

LEMMA BlockFields ==
  ASSUME NEW k
  PROVE  k \in Block <=> /\ k.size \in Nat /\ k.used \in Nat
                         /\ k.mem \in [Bytes(0, k.size) -> Cells]
                         /\ k = [size |-> k.size, used |-> k.used, mem |-> k.mem]
  BY DEF Block

\* the bytes of a block are those below its size
LEMMA Offsets == ASSUME NEW n \in Nat, NEW i PROVE i \in Bytes(0, n) <=> i \in Nat /\ i < n
  BY DEF Bytes

\* writing bytes into a block changes these bytes and nothing else
LEMMA Filled ==
  ASSUME NEW bs \in Seq(Block), NEW b \in DOMAIN bs, NEW f, \A i \in DOMAIN f : f[i] \in Cells
  PROVE  /\ Fill(bs, b, f) \in Seq(Block) /\ Len(Fill(bs, b, f)) = Len(bs)
         /\ DOMAIN Fill(bs, b, f) = DOMAIN bs
         /\ \A c \in DOMAIN bs : /\ Fill(bs, b, f)[c].size = bs[c].size
                                 /\ Fill(bs, b, f)[c].used = bs[c].used
                                 /\ \A i \in Bytes(0, bs[c].size) :
                                      Fill(bs, b, f)[c].mem[i] =
                                        IF c = b /\ i \in DOMAIN f THEN f[i] ELSE bs[c].mem[i]
<1> DEFINE m == [i \in DOMAIN bs[b].mem |-> IF i \in DOMAIN f THEN f[i] ELSE bs[b].mem[i]]
           k == [bs[b] EXCEPT !.mem = m]
<1>1. \A c \in DOMAIN bs : bs[c] \in Block
  OBVIOUS
<1>2. /\ bs[b].size \in Nat /\ bs[b].used \in Nat /\ bs[b].mem \in [Bytes(0, bs[b].size) -> Cells]
      /\ bs[b] = [size |-> bs[b].size, used |-> bs[b].used, mem |-> bs[b].mem]
  BY <1>1, BlockFields
<1>3. m \in [Bytes(0, bs[b].size) -> Cells]
  BY <1>2
<1>4. k = [size |-> bs[b].size, used |-> bs[b].used, mem |-> m]
  BY <1>2
<1>5. k \in Block
  <2> HIDE DEF m
  <2> QED BY <1>2, <1>3, <1>4 DEF Block
<1>6. Fill(bs, b, f) = [bs EXCEPT ![b] = k]
  BY DEF Fill
<1>7. Fill(bs, b, f) \in Seq(Block) /\ Len(Fill(bs, b, f)) = Len(bs) /\ DOMAIN Fill(bs, b, f) = DOMAIN bs
  <2> HIDE DEF k
  <2> QED BY <1>5, <1>6
<1>8. \A i \in Bytes(0, bs[b].size) : m[i] = IF i \in DOMAIN f THEN f[i] ELSE bs[b].mem[i]
  BY <1>2
<1>9. k.size = bs[b].size /\ k.used = bs[b].used /\ k.mem = m
  BY <1>4
<1> HIDE DEF m, k
<1>10. Fill(bs, b, f)[b] = k /\ \A c \in DOMAIN bs : c # b => Fill(bs, b, f)[c] = bs[c]
  BY <1>6
<1> QED
  BY <1>7, <1>8, <1>9, <1>10

\* new is bs but for the header of p, which holds n
HeaderOnly(bs, new, p, n) ==
  /\ new \in Seq(Block) /\ Len(new) = Len(bs) /\ DOMAIN new = DOMAIN bs
  /\ \A c \in DOMAIN bs :
       /\ new[c].size = bs[c].size /\ new[c].used = bs[c].used
       /\ \A i \in Bytes(0, bs[c].size) :
            new[c].mem[i] = IF c = p[1] /\ i \in HeaderCells(p) THEN n ELSE bs[c].mem[i]

LEMMA SizeSaved ==
  ASSUME NEW bs \in Seq(Block), NEW p \in Nat \X Nat, p[1] \in DOMAIN bs, NEW n \in Nat
  PROVE  HeaderOnly(bs, SaveSize(bs, p, n), p, n)
<1> DEFINE f == [i \in HeaderCells(p) |-> n]
<1>1. \A i \in DOMAIN f : f[i] \in Cells
  BY DEF Cells
<1>2. SaveSize(bs, p, n) = Fill(bs, p[1], f)
  BY DEF SaveSize
<1>3. DOMAIN f = HeaderCells(p) /\ \A i \in HeaderCells(p) : f[i] = n
  OBVIOUS
<1> HIDE DEF f
<1> QED
  BY <1>1, <1>2, <1>3, Filled DEF HeaderOnly

-----------------------------------------------------------------------------
(* Pieces *)

LEMMA BlockTypes ==
  ASSUME ArenaInv
  PROVE  \A b \in DOMAIN blocks : /\ blocks[b].size \in Nat /\ blocks[b].used \in Nat
                                  /\ blocks[b].mem \in [Bytes(0, blocks[b].size) -> Cells]
<1> SUFFICES ASSUME NEW b \in DOMAIN blocks PROVE blocks[b] \in Block
  BY BlockFields
<1> QED
  BY DEF ArenaInv

\* where a piece and its header lie
LEMMA PiecePlace ==
  ASSUME ArenaInv, PiecesInBlocks, NEW p \in DOMAIN live
  PROVE  /\ p[1] \in DOMAIN blocks /\ p[2] \in Nat /\ p \in Nat \X Nat /\ live[p] \in Nat \ {0}
         /\ p[2] - Header \in HeaderCells(p)
         /\ \A i \in HeaderCells(p) \cup Bytes(p[2], live[p]) :
              i \in Nat /\ i < blocks[p[1]].used /\ i \in Bytes(0, blocks[p[1]].size)
<1>1. p[1] \in DOMAIN blocks /\ p[2] \in Nat /\ p \in Nat \X Nat /\ live[p] \in Nat \ {0}
  BY DEF ArenaInv
<1>2. blocks[p[1]].size \in Nat /\ blocks[p[1]].used \in Nat
  BY <1>1, BlockTypes
<1>3. p[2] >= Header /\ p[2] + live[p] <= blocks[p[1]].used /\ blocks[p[1]].used <= blocks[p[1]].size
  BY <1>1 DEF PiecesInBlocks
<1> QED
  BY <1>1, <1>2, <1>3, SizesAssumption DEF HeaderCells, Bytes

\* the header of a piece is out of reach of another piece and of its header
LEMMA HeaderApart ==
  ASSUME ArenaInv, PiecesInBlocks, PiecesDisjoint,
         NEW p \in DOMAIN live, NEW q \in DOMAIN live, p # q, p[1] = q[1]
  PROVE  q[2] - Header \notin HeaderCells(p) \cup Bytes(p[2], live[p])
<1>1. p[2] \in Nat /\ q[2] \in Nat /\ live[p] \in Nat \ {0} /\ live[q] \in Nat \ {0}
  BY DEF ArenaInv
<1>2. p[2] >= Header /\ q[2] >= Header
  BY DEF PiecesInBlocks
<1>3. p[2] + live[p] <= q[2] - Header \/ q[2] + live[q] <= p[2] - Header
  BY DEF PiecesDisjoint
<1> QED
  BY <1>1, <1>2, <1>3, SizesAssumption DEF HeaderCells, Bytes

-----------------------------------------------------------------------------
(* The invariant holds *)

LEMMA FreshBlock ==
  ASSUME NEW n \in Nat
  PROVE  NewBlockOf(n) \in Block /\ NewBlockOf(n).size = n /\ NewBlockOf(n).used = 0
  BY DEF NewBlockOf, Block, Cells

LEMMA IndInit == Init => IndInv
<1> SUFFICES ASSUME Init PROVE IndInv
  OBVIOUS
<1>1. FirstSize \in Nat \ {0} /\ NewBlockOf(FirstSize) \in Block
  BY FreshBlock, SizesAssumption
<1>2. blocks \in Seq(Block) /\ Top = 1 /\ DOMAIN live = {} /\ next_block_size \in Nat \ {0}
  BY <1>1 DEF Init, Top
<1>3. ArenaInv
  BY <1>2 DEF Init, ArenaInv, Places
<1>4. CallInv /\ CopyInv
  BY DEF Init, CallInv, CopyInv
<1>5. \A b \in DOMAIN blocks : blocks[b].used <= blocks[b].size
  BY <1>1, FreshBlock DEF Init
<1>6. DoubleInv
  BY <1>1, <1>2, FreshBlock DEF Init, DoubleInv, BlocksDouble
<1> QED
  BY <1>2, <1>3, <1>4, <1>5, <1>6 DEF IndInv, PiecesInv, PiecesInBlocks, PiecesDisjoint, HeadersTrue

\* the sizes of the blocks stay, next_block_size does not become smaller
LEMMA SameSizes ==
  ASSUME ArenaInv, DoubleInv, blocks' \in Seq(Block), Len(blocks') = Len(blocks),
         \A b \in DOMAIN blocks : blocks'[b].size = blocks[b].size,
         next_block_size' \in Nat, next_block_size' >= next_block_size
  PROVE  DoubleInv'
<1>1. Top \in Nat /\ DOMAIN blocks = 1..Top /\ Top' = Top
  BY DEF ArenaInv, Top
<1>2. \A b \in 1..Top : blocks[b].size \in Nat
  BY <1>1, BlockTypes
<1>3. next_block_size \in Nat
  BY DEF ArenaInv
<1>4. ASSUME NEW b \in 1..(Top - 1) PROVE blocks'[b + 1].size >= 2 * blocks'[b].size
  <2>1. b \in 1..Top /\ b + 1 \in 1..Top
    BY <1>1
  <2>2. blocks[b + 1].size >= 2 * blocks[b].size
    BY DEF DoubleInv, BlocksDouble
  <2> QED
    BY <2>1, <2>2, <1>1
<1>5. Top > 0 => next_block_size' >= 2 * blocks'[Top].size
  <2> SUFFICES ASSUME Top > 0 PROVE next_block_size' >= 2 * blocks'[Top].size
    OBVIOUS
  <2>1. Top \in 1..Top
    BY <1>1
  <2> QED
    BY <2>1, <1>1, <1>2, <1>3 DEF DoubleInv
<1> QED
  BY <1>1, <1>4, <1>5 DEF DoubleInv, BlocksDouble

\* nothing but the call and next_block_size changes
LEMMA Unmoved ==
  ASSUME PiecesInv, UNCHANGED <<blocks, live>>
  PROVE  PiecesInv'
  BY DEF PiecesInv, PiecesInBlocks, PiecesDisjoint, HeadersTrue, StoredSize

\* a call that begins, or that looks for room
LEMMA IndSearch ==
  ASSUME IndInv,
         \/ \E n \in Sizes : Alloc(n)
         \/ \E p \in DOMAIN live, n \in Sizes : Realloc(p, n)
         \/ HasRoom \/ NoRoom \/ Double \/ NewBlockFails
  PROVE  IndInv'
<1> USE DEF IndInv
<1>1. UNCHANGED <<blocks, live>>
  BY DEF Alloc, Realloc, Enter, HasRoom, NoRoom, Double, NewBlockFails, call
<1>2. PiecesInv'
  BY <1>1, Unmoved
<1>3. next_block_size' \in Nat \ {0} /\ next_block_size' >= next_block_size
  BY DEF ArenaInv, Alloc, Realloc, Enter, HasRoom, NoRoom, Double, NewBlockFails
<1>4. ArenaInv' /\ pc' \notin {"copy", "destroyed"}
  BY <1>1, <1>3 DEF ArenaInv, Places, Alloc, Realloc, Enter, HasRoom, NoRoom, Double, NewBlockFails, Idle, Return, call, Top
<1>5. CallInv'
  <2>1. ASSUME NEW n \in Sizes, Alloc(n) PROVE CallInv'
    BY <2>1, SizesAssumption DEF CallInv, Alloc, Enter
  <2>2. ASSUME NEW p \in DOMAIN live, NEW n \in Sizes, Realloc(p, n) PROVE CallInv'
    <3>1. StoredSize(p) = live[p]
      BY DEF PiecesInv, HeadersTrue
    <3> QED
      BY <2>2, <3>1, SizesAssumption DEF CallInv, Realloc, Enter
  <2>3. CASE HasRoom
    BY <2>3, <1>1 DEF CallInv, HasRoom, Top
  <2>4. CASE NoRoom \/ Double
    BY <2>4, <1>1 DEF CallInv, NoRoom, Double, call
  <2>5. CASE NewBlockFails
    BY <2>5 DEF CallInv, NewBlockFails, Return, NoCall
  <2> QED
    BY <2>1, <2>2, <2>3, <2>4, <2>5
<1>6. DoubleInv'
  <2>1. blocks \in Seq(Block)
    BY DEF ArenaInv
  <2> QED
    BY <2>1, <1>1, <1>3, SameSizes
<1> QED
  BY <1>2, <1>4, <1>5, <1>6 DEF CopyInv

LEMMA IndNewBlock == ASSUME IndInv, NewBlock PROVE IndInv'
<1> USE DEF IndInv
<1> DEFINE k == NewBlockOf(next_block_size)
<1>1. k \in Block /\ k.size = next_block_size /\ k.used = 0 /\ next_block_size \in Nat \ {0}
  BY FreshBlock DEF ArenaInv
<1>2. blocks \in Seq(Block) /\ blocks' = Append(blocks, k) /\ UNCHANGED <<live, size, want, from, to>>
  BY DEF NewBlock, ArenaInv
<1> HIDE DEF k
<1>3. /\ blocks' \in Seq(Block) /\ Top' = Top + 1 /\ blocks'[Top'] = k /\ Top \in Nat
      /\ DOMAIN blocks' = 1..(Top + 1) /\ DOMAIN blocks = 1..Top
      /\ \A b \in DOMAIN blocks : b \in DOMAIN blocks' /\ blocks'[b] = blocks[b]
  BY <1>1, <1>2 DEF Top
<1>4. ArenaInv'
  BY <1>1, <1>2, <1>3 DEF ArenaInv, NewBlock, Places
<1>5. CallInv' /\ CopyInv'
  BY <1>1, <1>2, <1>3 DEF CallInv, CopyInv, NewBlock
<1>6. PiecesInBlocks'
  <2>1. \A b \in DOMAIN blocks' : b \in DOMAIN blocks \/ b = Top'
    BY <1>3
  <2>2. \A b \in DOMAIN blocks' : blocks'[b].used <= blocks'[b].size
    BY <2>1, <1>1, <1>3 DEF PiecesInv, PiecesInBlocks
  <2>3. \A p \in DOMAIN live : p[1] \in DOMAIN blocks
    BY DEF ArenaInv
  <2> QED
    BY <2>2, <2>3, <1>2, <1>3 DEF PiecesInv, PiecesInBlocks
<1>7. PiecesDisjoint' /\ HeadersTrue'
  <2>1. \A p \in DOMAIN live : p[1] \in DOMAIN blocks
    BY DEF ArenaInv
  <2> QED
    BY <2>1, <1>2, <1>3 DEF PiecesInv, PiecesDisjoint, HeadersTrue, StoredSize
<1>8. DoubleInv'
  <2>1. next_block_size' = 2 * next_block_size
    BY DEF NewBlock
  <2>2. \A b \in 1..Top : blocks[b].size \in Nat
    BY <1>3, BlockTypes
  <2>3. ASSUME NEW b \in 1..Top PROVE blocks'[b + 1].size >= 2 * blocks'[b].size
    <3>1. CASE b = Top
      BY <3>1, <1>1, <1>3 DEF DoubleInv
    <3>2. CASE b < Top
      <4>1. b \in 1..(Top - 1) /\ b + 1 \in DOMAIN blocks /\ b \in DOMAIN blocks
        BY <3>2, <1>3
      <4> QED
        BY <4>1, <1>3 DEF DoubleInv, BlocksDouble
    <3> QED
      BY <3>1, <3>2, <1>3
  <2> QED
    BY <2>1, <2>3, <1>1, <1>3 DEF DoubleInv, BlocksDouble
<1> QED
  BY <1>4, <1>5, <1>6, <1>7, <1>8 DEF PiecesInv

\* the arena after a step that keeps the shape of its blocks
LEMMA SameShape ==
  ASSUME ArenaInv, blocks' \in Seq(Block), Len(blocks') = Len(blocks)
  PROVE  Top' = Top /\ DOMAIN blocks' = DOMAIN blocks
  BY DEF ArenaInv, Top

LEMMA IndReallocInPlace ==
  ASSUME IndInv, NEW p \in DOMAIN live, NEW n \in Sizes, ReallocInPlace(p, n)
  PROVE  IndInv'
<1> USE DEF IndInv
<1>1. /\ n \in Nat \ {0} /\ n <= live[p] /\ pc = "idle" /\ pc' = "idle" /\ from' = from /\ from = NULL
      /\ blocks' = SaveSize(blocks, p, n) /\ live' = [live EXCEPT ![p] = n]
      /\ next_block_size' = next_block_size
  BY SizesAssumption DEF ReallocInPlace, PiecesInv, HeadersTrue, Idle, call, CallInv
<1>2. /\ p[1] \in DOMAIN blocks /\ p[2] \in Nat /\ p \in Nat \X Nat /\ live[p] \in Nat \ {0}
      /\ p[2] - Header \in HeaderCells(p)
  BY PiecePlace DEF PiecesInv
<1>3. HeaderOnly(blocks, blocks', p, n)
  <2>1. blocks \in Seq(Block) /\ n \in Nat
    BY <1>1 DEF ArenaInv
  <2> QED
    BY <2>1, <1>1, <1>2, SizeSaved
<1>4. DOMAIN live' = DOMAIN live /\ live'[p] = n /\ \A q \in DOMAIN live : q # p => live'[q] = live[q]
  BY <1>1
<1>5. ArenaInv'
  BY <1>1, <1>3, <1>4, SameShape DEF ArenaInv, HeaderOnly
<1>6. CallInv' /\ CopyInv'
  BY <1>1 DEF CallInv, CopyInv
<1>7. \A q \in DOMAIN live : live'[q] \in Nat /\ live'[q] <= live[q] /\ q[2] \in Nat /\ live[q] \in Nat
  BY <1>1, <1>4 DEF ArenaInv
<1>8. PiecesInBlocks'
  <2>1. \A q \in DOMAIN live : q[1] \in DOMAIN blocks /\ blocks[q[1]].used \in Nat
    BY BlockTypes DEF ArenaInv
  <2>2. \A q \in DOMAIN live : q[2] + live'[q] <= blocks[q[1]].used
    BY <2>1, <1>7 DEF PiecesInv, PiecesInBlocks
  <2> QED
    BY <2>1, <2>2, <1>3, <1>4 DEF PiecesInv, PiecesInBlocks, HeaderOnly
<1>9. PiecesDisjoint'
  <2> SUFFICES ASSUME NEW q \in DOMAIN live, NEW r \in DOMAIN live, q # r, q[1] = r[1]
               PROVE  q[2] + live'[q] <= r[2] - Header \/ r[2] + live'[r] <= q[2] - Header
    BY <1>4 DEF PiecesDisjoint
  <2>1. q[2] + live[q] <= r[2] - Header \/ r[2] + live[r] <= q[2] - Header
    BY DEF PiecesInv, PiecesDisjoint
  <2> QED
    BY <2>1, <1>7, SizesAssumption
<1>10. HeadersTrue'
  <2> SUFFICES ASSUME NEW q \in DOMAIN live
               PROVE  blocks'[q[1]].mem[q[2] - Header] = live'[q]
    BY <1>4 DEF HeadersTrue, StoredSize
  <2>1. q[1] \in DOMAIN blocks /\ q[2] - Header \in Bytes(0, blocks[q[1]].size)
    BY PiecePlace DEF PiecesInv
  <2>2. blocks[q[1]].mem[q[2] - Header] = live[q]
    BY DEF PiecesInv, HeadersTrue, StoredSize
  <2>3. CASE q = p
    BY <2>1, <2>3, <1>2, <1>3, <1>4 DEF HeaderOnly
  <2>4. CASE q # p
    <3>1. q[1] = p[1] => q[2] - Header \notin HeaderCells(p)
      BY <2>4, HeaderApart DEF PiecesInv
    <3> QED
      BY <2>1, <2>2, <2>4, <3>1, <1>3, <1>4 DEF HeaderOnly
  <2> QED
    BY <2>3, <2>4
<1>11. DoubleInv'
  <2>1. next_block_size' \in Nat /\ next_block_size' >= next_block_size
    BY <1>1 DEF ArenaInv
  <2> QED
    BY <2>1, <1>3, SameSizes DEF HeaderOnly
<1> QED
  BY <1>5, <1>6, <1>8, <1>9, <1>10, <1>11 DEF PiecesInv

\* the owners
LEMMA IndOwners ==
  ASSUME IndInv,
         \/ \E p \in DOMAIN live, v \in Values : Write(p, v)
         \/ \E p \in DOMAIN live : Free(p)
         \/ Destroy
  PROVE  IndInv'
<1> USE DEF IndInv
<1>1. ASSUME NEW p \in DOMAIN live, NEW v \in Values, Write(p, v) PROVE IndInv'
  <2> DEFINE f == [i \in Bytes(p[2], live[p]) |-> v]
  <2>1. /\ pc = "idle" /\ UNCHANGED <<next_block_size, live, call>> /\ blocks' = Fill(blocks, p[1], f)
        /\ DOMAIN f = Bytes(p[2], live[p]) /\ \A i \in DOMAIN f : f[i] \in Cells
    BY <1>1 DEF Write, Idle, Cells
  <2> HIDE DEF f
  <2>2. p[1] \in DOMAIN blocks /\ blocks \in Seq(Block)
    BY DEF ArenaInv
  <2>3. /\ blocks' \in Seq(Block) /\ Len(blocks') = Len(blocks) /\ DOMAIN blocks' = DOMAIN blocks
        /\ \A c \in DOMAIN blocks : /\ blocks'[c].size = blocks[c].size /\ blocks'[c].used = blocks[c].used
                                    /\ \A i \in Bytes(0, blocks[c].size) :
                                         blocks'[c].mem[i] = IF c = p[1] /\ i \in DOMAIN f THEN f[i]
                                                             ELSE blocks[c].mem[i]
    BY <2>1, <2>2, Filled
  <2>4. ArenaInv' /\ CallInv' /\ CopyInv'
    BY <2>1, <2>3, SameShape DEF ArenaInv, CallInv, CopyInv, call
  <2>5. PiecesInBlocks' /\ PiecesDisjoint'
    BY <2>1, <2>3 DEF PiecesInv, PiecesInBlocks, PiecesDisjoint, ArenaInv
  <2>6. HeadersTrue'
    <3> SUFFICES ASSUME NEW q \in DOMAIN live PROVE blocks'[q[1]].mem[q[2] - Header] = live[q]
      BY <2>1 DEF HeadersTrue, StoredSize
    <3>1. /\ q[1] \in DOMAIN blocks /\ q[2] - Header \in Bytes(0, blocks[q[1]].size)
          /\ q[2] \in Nat /\ live[q] \in Nat \ {0}
      BY PiecePlace DEF PiecesInv
    <3>2. blocks[q[1]].mem[q[2] - Header] = live[q]
      BY DEF PiecesInv, HeadersTrue, StoredSize
    <3>3. q[1] = p[1] => q[2] - Header \notin DOMAIN f
      <4>1. CASE q = p
        BY <4>1, <2>1, <3>1, SizesAssumption DEF Bytes
      <4>2. CASE q # p
        BY <4>2, <2>1, HeaderApart DEF PiecesInv
      <4> QED
        BY <4>1, <4>2
    <3> QED
      BY <3>1, <3>2, <3>3, <2>3
  <2>7. DoubleInv'
    <3>1. next_block_size' \in Nat /\ next_block_size' >= next_block_size
      BY <2>1 DEF ArenaInv
    <3> QED
      BY <3>1, <2>3, SameSizes
  <2> QED
    BY <2>4, <2>5, <2>6, <2>7 DEF PiecesInv
<1>2. ASSUME NEW p \in DOMAIN live, Free(p) PROVE IndInv'
  <2>1. /\ pc = "idle" /\ UNCHANGED <<next_block_size, blocks, call>> /\ DOMAIN live' = DOMAIN live \ {p}
        /\ \A q \in DOMAIN live' : q \in DOMAIN live /\ live'[q] = live[q]
    BY <1>2 DEF Free, Idle
  <2>2. ArenaInv' /\ CallInv' /\ CopyInv'
    BY <2>1 DEF ArenaInv, CallInv, CopyInv, call, Top
  <2>3. PiecesInBlocks' /\ PiecesDisjoint' /\ HeadersTrue'
    BY <2>1 DEF PiecesInv, PiecesInBlocks, PiecesDisjoint, HeadersTrue, StoredSize
  <2> QED
    BY <2>1, <2>2, <2>3 DEF PiecesInv, DoubleInv, BlocksDouble, Top
<1>3. CASE Destroy
  <2>1. /\ blocks' = <<>> /\ DOMAIN live' = {} /\ pc' = "destroyed" /\ from' = NULL
        /\ next_block_size' = next_block_size /\ blocks' \in Seq(Block)
    BY <1>3 DEF Destroy, Idle, CallInv
  <2>2. DOMAIN blocks' = {}
    BY <2>1
  <2>3. DoubleInv'
    BY <2>1 DEF DoubleInv, BlocksDouble, Top
  <2> QED
    BY <2>1, <2>2, <2>3 DEF ArenaInv, Places, CallInv, CopyInv, PiecesInv, PiecesInBlocks, PiecesDisjoint, HeadersTrue
<1> QED
  BY <1>1, <1>2, <1>3

\* the bytes of block b from offset n on may change, and more of it may be in use
TailOnly(bs, new, b, n) ==
  /\ new \in Seq(Block) /\ Len(new) = Len(bs) /\ DOMAIN new = DOMAIN bs
  /\ \A c \in DOMAIN bs :
       /\ new[c].size = bs[c].size
       /\ bs[c].used <= new[c].used /\ new[c].used <= new[c].size
       /\ \A i \in Bytes(0, bs[c].size) : c # b \/ i < n => new[c].mem[i] = bs[c].mem[i]

\* the pieces before the tail stay as they are
LEMMA OldPieces ==
  ASSUME ArenaInv, PiecesInv, NEW b, NEW n \in Nat, TailOnly(blocks, blocks', b, n),
         \A q \in DOMAIN live : q[1] = b => q[2] + live[q] <= n
  PROVE  \A q \in DOMAIN live : /\ q[2] >= Header /\ q[2] + live[q] <= blocks'[q[1]].used
                                /\ blocks'[q[1]].mem[q[2] - Header] = live[q]
<1> SUFFICES ASSUME NEW q \in DOMAIN live
             PROVE  /\ q[2] >= Header /\ q[2] + live[q] <= blocks'[q[1]].used
                    /\ blocks'[q[1]].mem[q[2] - Header] = live[q]
  OBVIOUS
<1>1. /\ q[1] \in DOMAIN blocks /\ q[2] \in Nat /\ live[q] \in Nat \ {0}
      /\ q[2] - Header \in Bytes(0, blocks[q[1]].size)
  BY PiecePlace DEF PiecesInv
<1>2. q[2] >= Header /\ q[2] + live[q] <= blocks[q[1]].used
  BY DEF PiecesInv, PiecesInBlocks
<1>3. blocks[q[1]].used \in Nat /\ blocks'[q[1]].used \in Nat
  <2>1. blocks'[q[1]] \in Block
    BY <1>1 DEF TailOnly
  <2> QED
    BY <2>1, <1>1, BlockTypes, BlockFields
<1>4. q[1] = b => q[2] - Header < n
  BY <1>1, SizesAssumption
<1>5. blocks[q[1]].mem[q[2] - Header] = live[q]
  BY DEF PiecesInv, HeadersTrue, StoredSize
<1> QED
  BY <1>1, <1>2, <1>3, <1>4, <1>5 DEF TailOnly

\* a piece cut from the tail keeps the pieces apart
LEMMA AddPiece ==
  ASSUME ArenaInv, PiecesInv, NEW n \in Nat, NEW p \in Nat \X Nat, NEW w \in Nat \ {0},
         TailOnly(blocks, blocks', p[1], n),
         \A q \in DOMAIN live : q[1] = p[1] => q[2] + live[q] <= n,
         NEW D \in SUBSET DOMAIN live,
         live' = [q \in D \cup {p} |-> IF q = p THEN w ELSE live[q]],
         p[1] \in DOMAIN blocks, p[2] - Header >= n, p[2] + w <= blocks'[p[1]].used,
         blocks'[p[1]].mem[p[2] - Header] = w
  PROVE  PiecesInv' /\ DOMAIN live' = D \cup {p} /\ live'[p] = w
<1>1. DOMAIN live' = D \cup {p} /\ live'[p] = w /\ \A q \in D : q # p => live'[q] = live[q]
  OBVIOUS
<1>2. \A q \in DOMAIN live : /\ q[2] >= Header /\ q[2] + live[q] <= blocks'[q[1]].used
                             /\ blocks'[q[1]].mem[q[2] - Header] = live[q]
  BY OldPieces
<1>3. p[2] >= Header
  BY SizesAssumption
<1>4. PiecesInBlocks'
  BY <1>1, <1>2, <1>3 DEF PiecesInBlocks, TailOnly
<1>5. HeadersTrue'
  BY <1>1, <1>2 DEF HeadersTrue, StoredSize
<1>6. ASSUME NEW q \in D, q # p, q[1] = p[1] PROVE q[2] + live'[q] <= p[2] - Header
  <2>1. q[2] \in Nat /\ live[q] \in Nat /\ q[2] + live[q] <= n
    BY <1>6 DEF ArenaInv
  <2> QED
    BY <2>1, <1>1, <1>6, SizesAssumption
<1>7. PiecesDisjoint'
  <2> SUFFICES ASSUME NEW q \in D \cup {p}, NEW r \in D \cup {p}, q # r, q[1] = r[1]
               PROVE  q[2] + live'[q] <= r[2] - Header \/ r[2] + live'[r] <= q[2] - Header
    BY <1>1 DEF PiecesDisjoint
  <2>1. CASE q = p \/ r = p
    BY <2>1, <1>6
  <2>2. CASE q # p /\ r # p
    BY <2>2, <1>1 DEF PiecesInv, PiecesDisjoint
  <2> QED
    BY <2>1, <2>2
<1> QED
  BY <1>1, <1>4, <1>5, <1>7 DEF PiecesInv

\* s more bytes of block t are in use
UsedMore(bs, new, t, s) ==
  /\ new \in Seq(Block) /\ Len(new) = Len(bs) /\ DOMAIN new = DOMAIN bs
  /\ new[t].used = bs[t].used + s
  /\ \A c \in DOMAIN bs : /\ new[c].size = bs[c].size /\ new[c].mem = bs[c].mem
                          /\ c # t => new[c].used = bs[c].used

LEMMA Cut ==
  ASSUME NEW bs \in Seq(Block), NEW t \in DOMAIN bs, NEW s \in Nat
  PROVE  UsedMore(bs, [bs EXCEPT ![t].used = @ + s], t, s)
<1> DEFINE k == [bs[t] EXCEPT !.used = bs[t].used + s]
<1>2. bs[t] \in Block
  OBVIOUS
<1>3. /\ bs[t].size \in Nat /\ bs[t].used \in Nat /\ bs[t].mem \in [Bytes(0, bs[t].size) -> Cells]
      /\ bs[t] = [size |-> bs[t].size, used |-> bs[t].used, mem |-> bs[t].mem]
  BY <1>2, BlockFields
<1>4. k = [size |-> bs[t].size, used |-> bs[t].used + s, mem |-> bs[t].mem]
  BY <1>3
<1>5. k \in Block /\ k.size = bs[t].size /\ k.used = bs[t].used + s /\ k.mem = bs[t].mem
  <2>1. bs[t].used + s \in Nat
    BY <1>3
  <2> HIDE DEF k
  <2> QED
    BY <1>3, <1>4, <2>1 DEF Block
<1>6. [bs EXCEPT ![t].used = @ + s] = [bs EXCEPT ![t] = k]
  OBVIOUS
<1> HIDE DEF k
<1>7. [bs EXCEPT ![t] = k] \in Seq(Block)
  BY <1>5
<1> QED
  BY <1>5, <1>6, <1>7 DEF UsedMore

\* what is cut off was not in use
LEMMA IndCarve ==
  ASSUME IndInv, Carve
  PROVE  IndInv' /\ TailOnly(blocks, blocks', Top, blocks[Top].used)
<1> USE DEF IndInv
<1> DEFINE u == blocks[Top].used
           p == <<Top, u + Header>>
           bs == [blocks EXCEPT ![Top].used = @ + size]
<1>1. /\ pc = "carve" /\ blocks' = SaveSize(bs, p, size - Header) /\ next_block_size' = next_block_size
      /\ IF from = NULL
         THEN live' = [q \in DOMAIN live \cup {p} |-> IF q = p THEN want ELSE live[q]] /\ Return
         ELSE pc' = "copy" /\ to' = p /\ UNCHANGED <<live, size, want, from>>
  BY DEF Carve
<1>2. /\ want \in Nat \ {0} /\ size \in Nat /\ u + size <= blocks[Top].size
      /\ \/ from = NULL /\ size = want + Header
         \/ from \in DOMAIN live /\ size = want + 2 * Header /\ want > live[from]
  BY <1>1 DEF CallInv
<1>3. blocks \in Seq(Block) /\ Top \in DOMAIN blocks /\ Top = Len(blocks) /\ Len(blocks) > 0 /\ Top \in Nat
  BY <1>1 DEF ArenaInv, Top
<1>4. u \in Nat /\ blocks[Top].size \in Nat
  BY <1>3, BlockTypes
<1>5. p \in Nat \X Nat /\ p[1] = Top /\ p[2] = u + Header /\ size - Header \in Nat /\ Header \in Nat \ {0}
  BY <1>2, <1>3, <1>4, SizesAssumption
<1>6. UsedMore(blocks, bs, Top, size)
  BY <1>2, <1>3, Cut
<1> HIDE DEF u, p, bs
<1>7. HeaderOnly(bs, blocks', p, size - Header)
  BY <1>1, <1>3, <1>5, <1>6, SizeSaved DEF UsedMore
<1>8. HeaderCells(p) = Bytes(u, Header)
  BY <1>4, <1>5 DEF HeaderCells
<1>9. TailOnly(blocks, blocks', p[1], u)
  <2>1. \A c \in DOMAIN blocks : blocks[c].used \in Nat /\ blocks[c].size \in Nat /\ blocks[c].used <= blocks[c].size
    BY BlockTypes DEF PiecesInv, PiecesInBlocks
  <2>2. \A c \in DOMAIN blocks : blocks[c].used <= bs[c].used /\ bs[c].used <= bs[c].size
    BY <2>1, <1>2, <1>4, <1>6 DEF u, UsedMore
  <2>3. \A i : i < u => i \notin HeaderCells(p) \/ i \notin Nat
    BY <1>4, <1>5, <1>8 DEF Bytes
  <2>4. \A n \in Nat : \A i \in Bytes(0, n) : i \in Nat
    BY DEF Bytes
  <2>5. \A c \in DOMAIN blocks : \A i \in Bytes(0, blocks[c].size) :
           c # p[1] \/ i < u => blocks'[c].mem[i] = blocks[c].mem[i]
    BY <2>1, <2>3, <2>4, <1>6, <1>7 DEF HeaderOnly, UsedMore
  <2> QED
    BY <2>2, <2>5, <1>6, <1>7 DEF TailOnly, HeaderOnly, UsedMore
<1>9a. TailOnly(blocks, blocks', Top, blocks[Top].used)
  BY <1>5, <1>9 DEF u
<1>10. blocks'[p[1]].used = u + size /\ p[1] \in DOMAIN blocks
  BY <1>3, <1>5, <1>6, <1>7 DEF HeaderOnly, UsedMore, u
<1>11. \A q \in DOMAIN live : q[1] = p[1] => q[2] + live[q] <= u
  BY <1>5 DEF PiecesInv, PiecesInBlocks, u
<1>12. blocks' \in Seq(Block) /\ Top' = Top /\ DOMAIN blocks' = DOMAIN blocks
  BY <1>9, SameShape DEF TailOnly
<1>13. DoubleInv'
  <2>1. next_block_size' \in Nat /\ next_block_size' >= next_block_size
    BY <1>1 DEF ArenaInv
  <2> QED
    BY <2>1, <1>9, SameSizes DEF TailOnly
<1>14. ASSUME from = NULL PROVE IndInv'
  <2>1. from \notin DOMAIN live
    BY <1>14, SizesAssumption DEF ArenaInv
  <2>2. size = want + Header
    BY <1>2, <2>1
  <2>3. /\ live' = [q \in DOMAIN live \cup {p} |-> IF q = p THEN want ELSE live[q]]
        /\ pc' = "idle" /\ from' = NULL
    BY <1>1, <1>14 DEF Return, NoCall
  <2>4. p[2] - Header >= u /\ p[2] + want <= blocks'[p[1]].used
    BY <2>2, <1>2, <1>4, <1>5, <1>10
  <2>5. blocks'[p[1]].mem[p[2] - Header] = want
    <3>1. p[2] - Header \in HeaderCells(p) /\ p[2] - Header \in Bytes(0, blocks[Top].size)
      BY <1>2, <1>4, <1>5, <1>8, <2>2 DEF Bytes
    <3>2. blocks'[p[1]].mem[p[2] - Header] = size - Header
      BY <3>1, <1>3, <1>5, <1>6, <1>7 DEF HeaderOnly, UsedMore
    <3> QED
      BY <3>2, <2>2, <1>2, <1>5
  <2>6. PiecesInv' /\ DOMAIN live' = DOMAIN live \cup {p} /\ live'[p] = want
    BY <2>3, <2>4, <2>5, <1>2, <1>4, <1>5, <1>9, <1>10, <1>11, AddPiece
  <2>7. \A q \in DOMAIN live : q # p => live'[q] = live[q]
    BY <2>3
  <2>8. ArenaInv'
    BY <2>3, <2>6, <2>7, <1>1, <1>2, <1>5, <1>10, <1>12 DEF ArenaInv, Places
  <2> QED
    BY <2>3, <2>6, <2>8, <1>13 DEF CallInv, CopyInv
<1>15. ASSUME from # NULL PROVE IndInv'
  <2>1. pc' = "copy" /\ to' = p /\ UNCHANGED <<live, size, want, from>> /\ size = want + 2 * Header
    BY <1>1, <1>2, <1>15
  <2>2. \A q \in DOMAIN live : /\ q[2] >= Header /\ q[2] + live[q] <= blocks'[q[1]].used
                               /\ blocks'[q[1]].mem[q[2] - Header] = live[q]
    BY <1>4, <1>9, <1>11, OldPieces
  <2>3. PiecesInv'
    BY <2>1, <2>2, <1>9 DEF PiecesInv, PiecesInBlocks, PiecesDisjoint, HeadersTrue, StoredSize, TailOnly
  <2>4. ArenaInv' /\ CallInv'
    BY <2>1, <1>1, <1>2, <1>12 DEF ArenaInv, CallInv, Places
  <2>5. CopyInv'
    <3>1. p[2] + Header + want <= blocks'[p[1]].used /\ p[2] - Header = u /\ p[2] >= Header
      BY <2>1, <1>2, <1>4, <1>5, <1>10
    <3> QED
      BY <3>1, <2>1, <1>5, <1>10, <1>11, <1>12, <1>15 DEF CopyInv
  <2> QED
    BY <2>3, <2>4, <2>5, <1>13
<1> QED
  BY <1>9a, <1>14, <1>15

\* the old bytes arrive behind the second header
LEMMA IndCopy ==
  ASSUME IndInv, Copy
  PROVE  /\ IndInv' /\ TailOnly(blocks, blocks', to[1], to[2])
         /\ \A i \in Bytes(0, live[from]) :
              blocks'[to[1]].mem[to[2] + Header + i] = blocks[from[1]].mem[from[2] + i]
<1> USE DEF IndInv
<1> DEFINE new == <<to[1], to[2] + Header>>
           old == [i \in Bytes(new[2], StoredSize(from)) |-> blocks[from[1]].mem[from[2] + i - new[2]]]
           bs == SaveSize(blocks, new, want)
<1>1. /\ pc = "copy" /\ blocks' = Fill(bs, new[1], old)
      /\ live' = [q \in (DOMAIN live \ {from}) \cup {new} |-> IF q = new THEN want ELSE live[q]]
      /\ pc' = "idle" /\ from' = NULL /\ next_block_size' = next_block_size
  BY DEF Copy, Moved, Return, NoCall
<1>2. /\ want \in Nat \ {0} /\ from \in DOMAIN live /\ want > live[from]
      /\ to \in Nat \X Nat /\ to[1] \in DOMAIN blocks /\ to[2] >= Header
      /\ to[2] + Header + want <= blocks[to[1]].used
      /\ \A q \in DOMAIN live : q[1] = to[1] => q[2] + live[q] <= to[2] - Header
  BY <1>1 DEF CallInv, CopyInv
<1>3. /\ new \in Nat \X Nat /\ new[1] = to[1] /\ new[2] = to[2] + Header /\ to[2] \in Nat
      /\ Header \in Nat \ {0} /\ blocks \in Seq(Block) /\ to[1] \in DOMAIN blocks
      /\ blocks[to[1]].used \in Nat /\ blocks[to[1]].size \in Nat
      /\ blocks[to[1]].used <= blocks[to[1]].size
  BY <1>2, SizesAssumption, BlockTypes DEF ArenaInv, PiecesInv, PiecesInBlocks
<1>4. /\ StoredSize(from) = live[from] /\ live[from] \in Nat \ {0} /\ from[2] \in Nat
      /\ from[1] \in DOMAIN blocks
      /\ \A i \in Bytes(from[2], live[from]) : i \in Bytes(0, blocks[from[1]].size)
      /\ blocks[from[1]].mem \in [Bytes(0, blocks[from[1]].size) -> Cells]
  BY <1>2, PiecePlace, BlockTypes DEF PiecesInv, HeadersTrue
<1>5. HeaderOnly(blocks, bs, new, want)
  BY <1>2, <1>3, SizeSaved
<1> HIDE DEF new, bs
<1>6. DOMAIN old = Bytes(new[2], live[from]) /\ \A i \in DOMAIN old : old[i] \in Cells
  <2>1. \A i \in Bytes(new[2], live[from]) : from[2] + i - new[2] \in Bytes(from[2], live[from])
    <3>1. new[2] \in Nat /\ from[2] \in Nat /\ live[from] \in Nat
      BY <1>3, <1>4
    <3> QED
      BY <3>1 DEF Bytes
  <2>2. \A i \in Bytes(new[2], live[from]) : blocks[from[1]].mem[from[2] + i - new[2]] \in Cells
    BY <2>1, <1>4
  <2> QED
    BY <2>2, <1>4
<1> HIDE DEF old
<1>7. /\ blocks' \in Seq(Block) /\ Len(blocks') = Len(blocks) /\ DOMAIN blocks' = DOMAIN blocks
      /\ \A c \in DOMAIN blocks :
           /\ blocks'[c].size = blocks[c].size /\ blocks'[c].used = blocks[c].used
           /\ \A i \in Bytes(0, blocks[c].size) :
                blocks'[c].mem[i] = IF c = to[1] /\ i \in DOMAIN old THEN old[i] ELSE bs[c].mem[i]
  <2>1. bs \in Seq(Block) /\ new[1] \in DOMAIN bs
    BY <1>3, <1>5 DEF HeaderOnly
  <2>2. /\ blocks' \in Seq(Block) /\ Len(blocks') = Len(bs) /\ DOMAIN blocks' = DOMAIN bs
        /\ \A c \in DOMAIN bs :
             /\ blocks'[c].size = bs[c].size /\ blocks'[c].used = bs[c].used
             /\ \A i \in Bytes(0, bs[c].size) :
                  blocks'[c].mem[i] = IF c = new[1] /\ i \in DOMAIN old THEN old[i] ELSE bs[c].mem[i]
    BY <2>1, <1>1, <1>6, Filled
  <2> QED
    BY <2>2, <1>3, <1>5 DEF HeaderOnly
<1>8. HeaderCells(new) = Bytes(to[2], Header)
  BY <1>3 DEF HeaderCells
<1> DEFINE first == to[2]
<1>8a. first \in Nat /\ new[2] \in Nat /\ new[2] = first + Header
  BY <1>3
<1>8b. \A i \in HeaderCells(new) : i \in Nat /\ first <= i
  BY <1>8, <1>8a, SizesAssumption DEF Bytes
<1>8c. \A i \in DOMAIN old : i \in Nat /\ first + Header <= i
  <2>1. \A i \in DOMAIN old : i \in Nat /\ new[2] <= i
    BY <1>4, <1>6, <1>8a DEF Bytes
  <2> QED
    BY <2>1, <1>8a
<1>9. TailOnly(blocks, blocks', new[1], to[2])
  <2>1. \A c \in DOMAIN blocks : blocks[c].used \in Nat /\ blocks[c].size \in Nat /\ blocks[c].used <= blocks[c].size
    BY BlockTypes DEF PiecesInv, PiecesInBlocks
  <2>2. \A i \in Nat : i < first => i \notin HeaderCells(new) /\ i \notin DOMAIN old
    BY <1>8a, <1>8b, <1>8c, SizesAssumption
  <2>3. \A n \in Nat : \A i \in Bytes(0, n) : i \in Nat
    BY DEF Bytes
  <2>4. \A c \in DOMAIN blocks : \A i \in Bytes(0, blocks[c].size) :
           c # new[1] \/ i < to[2] => blocks'[c].mem[i] = blocks[c].mem[i]
    BY <2>1, <2>2, <2>3, <1>3, <1>5, <1>7 DEF HeaderOnly
  <2> QED
    BY <2>1, <2>4, <1>7 DEF TailOnly
<1>10. \A q \in DOMAIN live : q[1] = new[1] => q[2] + live[q] <= to[2]
  <2> SUFFICES ASSUME NEW q \in DOMAIN live, q[1] = new[1] PROVE q[2] + live[q] <= to[2]
    OBVIOUS
  <2>1. q[2] \in Nat /\ live[q] \in Nat /\ q[2] + live[q] <= to[2] - Header
    BY <1>2, <1>3 DEF ArenaInv
  <2> QED
    BY <2>1, <1>8a, SizesAssumption
<1>11. blocks'[new[1]].mem[new[2] - Header] = want
  <2>1. new[2] - Header = to[2]
    BY <1>8a, SizesAssumption
  <2>2. to[2] \in HeaderCells(new) /\ to[2] \notin DOMAIN old
    <3>1. to[2] \in HeaderCells(new)
      BY <1>8, <1>8a, SizesAssumption DEF Bytes
    <3>2. to[2] \notin DOMAIN old
      BY <1>8a, <1>8c, SizesAssumption
    <3> QED
      BY <3>1, <3>2
  <2>3. to[2] \in Bytes(0, blocks[to[1]].size)
    BY <1>2, <1>3 DEF Bytes
  <2>4. bs[to[1]].mem[to[2]] = want
    BY <2>2, <2>3, <1>3, <1>5 DEF HeaderOnly
  <2> QED
    <3>1. blocks'[to[1]].mem[to[2]] = bs[to[1]].mem[to[2]]
      BY <2>2, <2>3, <1>3, <1>7
    <3> QED
      BY <3>1, <2>1, <2>4, <1>3
<1>12. new[2] - Header >= to[2] /\ new[2] + want <= blocks'[new[1]].used
  BY <1>2, <1>3, <1>7
<1>13. PiecesInv' /\ DOMAIN live' = (DOMAIN live \ {from}) \cup {new} /\ live'[new] = want
  <2>1. DOMAIN live \ {from} \in SUBSET DOMAIN live /\ new[1] \in DOMAIN blocks
    BY <1>3
  <2> QED
    BY <2>1, <1>1, <1>2, <1>3, <1>9, <1>10, <1>11, <1>12, AddPiece
<1>14. ArenaInv'
  <2>1. \A q \in DOMAIN live' : q = new \/ (q \in DOMAIN live /\ live'[q] = live[q])
    BY <1>1, <1>13
  <2>2. Top' = Top
    BY <1>7, SameShape
  <2> QED
    BY <2>1, <2>2, <1>1, <1>2, <1>3, <1>7, <1>13 DEF ArenaInv, Places
<1>15. CallInv' /\ CopyInv'
  BY <1>1 DEF CallInv, CopyInv
<1>16. DoubleInv'
  <2>1. next_block_size' \in Nat /\ next_block_size' >= next_block_size
    BY <1>1 DEF ArenaInv
  <2> QED
    BY <2>1, <1>9, SameSizes DEF TailOnly
<1>17. TailOnly(blocks, blocks', to[1], to[2])
  BY <1>3, <1>9
<1>18. ASSUME NEW i \in Bytes(0, live[from])
       PROVE  blocks'[to[1]].mem[to[2] + Header + i] = blocks[from[1]].mem[from[2] + i]
  <2>1. i \in Nat /\ i < live[from] /\ live[from] \in Nat /\ from[2] \in Nat
    BY <1>4 DEF Bytes
  <2>2. new[2] + i \in Bytes(new[2], live[from]) /\ from[2] + (new[2] + i) - new[2] = from[2] + i
    BY <1>8a, <2>1 DEF Bytes
  <2>3. new[2] + i \in Bytes(0, blocks[to[1]].size)
    <3>1. /\ live[from] < want /\ want \in Nat /\ new[2] + want <= blocks[to[1]].size
          /\ blocks[to[1]].size \in Nat
      BY <1>2, <1>3
    <3> HIDE DEF first
    <3> QED
      BY <1>8a, <2>1, <3>1 DEF Bytes
  <2>4. old[new[2] + i] = blocks[from[1]].mem[from[2] + i]
    BY <1>4, <2>2 DEF old
  <2>5. blocks'[to[1]].mem[new[2] + i] = old[new[2] + i]
    BY <1>3, <1>6, <1>7, <2>2, <2>3
  <2> QED
    BY <1>8a, <2>4, <2>5
<1> QED
  BY <1>13, <1>14, <1>15, <1>16, <1>17, <1>18

LEMMA IndStep == IndInv /\ [Next]_vars => IndInv'
<1> SUFFICES ASSUME IndInv, [Next]_vars PROVE IndInv'
  OBVIOUS
<1>1. CASE UNCHANGED vars
  BY <1>1, Unmoved DEF vars, call, IndInv, ArenaInv, CallInv, CopyInv, DoubleInv, BlocksDouble, Top
<1>2. CASE \/ \E n \in Sizes : Alloc(n)
           \/ \E p \in DOMAIN live, n \in Sizes : Realloc(p, n)
           \/ HasRoom \/ NoRoom \/ Double \/ NewBlockFails
  BY <1>2, IndSearch
<1>3. CASE \E p \in DOMAIN live, n \in Sizes : ReallocInPlace(p, n)
  BY <1>3, IndReallocInPlace
<1>4. CASE \/ \E p \in DOMAIN live, v \in Values : Write(p, v)
           \/ \E p \in DOMAIN live : Free(p)
           \/ Destroy
  BY <1>4, IndOwners
<1>5. CASE NewBlock
  BY <1>5, IndNewBlock
<1>6. CASE Carve
  BY <1>6, IndCarve
<1>7. CASE Copy
  BY <1>7, IndCopy
<1> QED
  BY <1>1, <1>2, <1>3, <1>4, <1>5, <1>6, <1>7 DEF Next, InCall

LEMMA Inductive == Spec => []IndInv
  BY IndInit, IndStep, PTL DEF Spec

-----------------------------------------------------------------------------
(* The theorems *)

\* Every field keeps its type, and a piece that is held lies in the arena.
THEOREM TypeCorrect == Spec => []TypeOK
<1>1. IndInv => TypeOK
  <2> SUFFICES ASSUME IndInv PROVE TypeOK
    OBVIOUS
  <2>1. from \in {NULL} \cup DOMAIN live
    BY DEF IndInv, ArenaInv, CallInv, Places
  <2>2. \A b \in DOMAIN blocks : blocks[b].used \in Nat /\ blocks[b].size \in Nat
    BY BlockTypes DEF IndInv
  <2> QED
    BY <2>1, <2>2 DEF IndInv, ArenaInv, TypeOK, Places, Addresses
<1> QED
  BY <1>1, Inductive, PTL

\* A piece and its header never leave the part of their block that is in use
\* (linalloc.c:57-68).
THEOREM PiecesStayInBlocks == Spec => []PiecesInBlocks
<1>1. IndInv => PiecesInBlocks
  BY DEF IndInv, PiecesInv
<1> QED
  BY <1>1, Inductive, PTL

\* No two pieces ever share a byte, of their own or of their headers, whatever is
\* allocated, grown and shrunk (linalloc.c:45-103).
THEOREM PiecesStayDisjoint == Spec => []PiecesDisjoint
<1>1. IndInv => PiecesDisjoint
  BY DEF IndInv, PiecesInv
<1> QED
  BY <1>1, Inductive, PTL

\* The header of a piece always holds the size its owner asked for: no write of an
\* owner, of linalloc_alloc or of memcpy reaches another header (linalloc.c:71-100).
THEOREM HeadersStayTrue == Spec => []HeadersTrue
<1>1. IndInv => HeadersTrue
  BY DEF IndInv, PiecesInv
<1> QED
  BY <1>1, Inductive, PTL

\* Every block is at least twice as large as the one before it, whatever malloc
\* refuses in between (linalloc.c:131-133).
THEOREM SizesDouble == Spec => []BlocksDouble
<1>1. IndInv => BlocksDouble
  BY DEF IndInv, DoubleInv
<1> QED
  BY <1>1, Inductive, PTL

-----------------------------------------------------------------------------
(* That the arena implements Heap: a call changes the bytes of no piece    *)
(* but the one it is about, and a piece that grows keeps its bytes.        *)

\* what a running call was asked for
WantInv == pc \in {"room", "double", "carve", "copy"} => want \in Sizes

HeapInv == IndInv /\ WantInv

LEMMA WantStep == WantInv /\ [Next]_vars => WantInv'
<1> SUFFICES ASSUME WantInv, [Next]_vars PROVE WantInv'
  OBVIOUS
<1>1. CASE UNCHANGED vars
  BY <1>1 DEF vars, call, WantInv
<1>2. CASE \/ \E n \in Sizes : Alloc(n)
           \/ \E p \in DOMAIN live, n \in Sizes : Realloc(p, n)
  BY <1>2 DEF Alloc, Realloc, Enter, WantInv
<1>3. CASE HasRoom \/ NoRoom \/ Double \/ NewBlock
  BY <1>3 DEF HasRoom, NoRoom, Double, NewBlock, call, WantInv
<1>4. CASE NewBlockFails \/ Carve \/ Copy
  BY <1>4 DEF NewBlockFails, Carve, Copy, Moved, Return, WantInv
<1>5. CASE \/ \E p \in DOMAIN live, n \in Sizes : ReallocInPlace(p, n)
           \/ \E p \in DOMAIN live, v \in Values : Write(p, v)
           \/ \E p \in DOMAIN live : Free(p)
  BY <1>5 DEF ReallocInPlace, Write, Free, Idle, call, WantInv
<1>6. CASE Destroy
  BY <1>6 DEF Destroy, WantInv
<1> QED
  BY <1>1, <1>2, <1>3, <1>4, <1>5, <1>6 DEF Next, InCall

LEMMA HeapAlways == Spec => []HeapInv
<1>1. Init => WantInv
  BY DEF Init, WantInv
<1>2. Spec => []WantInv
  BY <1>1, WantStep, PTL DEF Spec
<1> QED
  BY <1>2, Inductive, PTL DEF HeapInv

-----------------------------------------------------------------------------
(* The bytes of a piece *)

Objects == [p \in DOMAIN live |-> Contents(p)]

\* a piece keeps its contents when its bytes do
LEMMA SameBytes ==
  ASSUME ArenaInv, NEW q \in DOMAIN live, live'[q] = live[q],
         \A i \in Bytes(q[2], live[q]) : blocks'[q[1]].mem[i] = blocks[q[1]].mem[i]
  PROVE  Contents(q)' = Contents(q)
<1>1. q[2] \in Nat /\ live[q] \in Nat
  BY DEF ArenaInv
<1>2. \A i \in Bytes(0, live[q]) : q[2] + i \in Bytes(q[2], live[q])
  BY <1>1 DEF Bytes
<1> QED
  BY <1>2 DEF Contents

\* the pieces before the tail keep their contents
LEMMA OldContents ==
  ASSUME ArenaInv, PiecesInv, NEW b, NEW n \in Nat, TailOnly(blocks, blocks', b, n),
         \A q \in DOMAIN live : q[1] = b => q[2] + live[q] <= n,
         NEW q \in DOMAIN live, live'[q] = live[q]
  PROVE  Contents(q)' = Contents(q)
<1>1. /\ q[1] \in DOMAIN blocks /\ q[2] \in Nat /\ live[q] \in Nat
      /\ \A i \in Bytes(q[2], live[q]) : i \in Bytes(0, blocks[q[1]].size)
  BY PiecePlace DEF PiecesInv
<1>2. q[1] = b => \A i \in Bytes(q[2], live[q]) : i < n
  BY <1>1 DEF Bytes
<1>3. \A i \in Bytes(q[2], live[q]) : blocks'[q[1]].mem[i] = blocks[q[1]].mem[i]
  BY <1>1, <1>2 DEF TailOnly
<1> QED
  BY <1>3, SameBytes

\* a piece and the header of another share no byte
LEMMA BytesApart ==
  ASSUME ArenaInv, PiecesInv, NEW p \in DOMAIN live, NEW q \in DOMAIN live, p # q, p[1] = q[1]
  PROVE  \A i \in Bytes(q[2], live[q]) : i \notin HeaderCells(p) /\ i \notin Bytes(p[2], live[p])
<1>1. p[2] \in Nat /\ q[2] \in Nat /\ live[p] \in Nat /\ live[q] \in Nat /\ p[2] >= Header
  BY DEF ArenaInv, PiecesInv, PiecesInBlocks
<1>2. p[2] + live[p] <= q[2] - Header \/ q[2] + live[q] <= p[2] - Header
  BY DEF PiecesInv, PiecesDisjoint
<1> QED
  BY <1>1, <1>2, SizesAssumption DEF Bytes, HeaderCells

-----------------------------------------------------------------------------
(* Steps *)

\* what is held and its bytes stay
LEMMA Stutter ==
  ASSUME live' = live, \A q \in DOMAIN live : Contents(q)' = Contents(q)
  PROVE  Objects' = Objects
  BY DEF Objects

LEMMA NewBlockStep == ASSUME IndInv, NewBlock PROVE Objects' = Objects
<1>1. blocks \in Seq(Block) /\ blocks' = Append(blocks, NewBlockOf(next_block_size)) /\ live' = live
  BY DEF NewBlock, IndInv, ArenaInv
<1>2. \A c \in DOMAIN blocks : blocks'[c] = blocks[c]
  BY <1>1
<1>3. \A q \in DOMAIN live : q[1] \in DOMAIN blocks
  BY DEF IndInv, ArenaInv
<1>4. \A q \in DOMAIN live : Contents(q)' = Contents(q)
  BY <1>1, <1>2, <1>3, SameBytes DEF IndInv
<1> QED
  BY <1>1, <1>4, Stutter

LEMMA CarveStep ==
  ASSUME HeapInv, Carve
  PROVE  TheHeap!Next \/ Objects' = Objects
<1> DEFINE u == blocks[Top].used
           p == <<Top, u + Header>>
<1>1. /\ ArenaInv /\ PiecesInv /\ TailOnly(blocks, blocks', Top, u)
      /\ pc = "carve" /\ want \in Sizes /\ want \in Nat
  BY IndCarve, SizesAssumption DEF HeapInv, IndInv, WantInv, Carve
<1>2. Top \in DOMAIN blocks /\ u \in Nat
  <2>1. Top \in DOMAIN blocks
    BY <1>1 DEF ArenaInv, Top
  <2> QED
    BY <1>1, <2>1, BlockTypes
<1>3. \A q \in DOMAIN live : q[1] = Top => q[2] + live[q] <= u
  BY <1>1 DEF PiecesInv, PiecesInBlocks
<1>4. \A q \in DOMAIN live : live'[q] = live[q] => Contents(q)' = Contents(q)
  BY <1>1, <1>2, <1>3, OldContents
<1>5. CASE from # NULL
  <2>1. live' = live
    BY <1>5 DEF Carve
  <2> QED
    BY <1>4, <2>1, Stutter
<1>6. CASE from = NULL
  <2>1. live' = [q \in DOMAIN live \cup {p} |-> IF q = p THEN want ELSE live[q]]
    BY <1>6 DEF Carve
  <2>2. p \notin DOMAIN live
    <3> SUFFICES ASSUME p \in DOMAIN live PROVE FALSE
      OBVIOUS
    <3>1. p[2] + live[p] <= u /\ live[p] \in Nat /\ p[2] = u + Header
      BY <1>1, <1>3 DEF ArenaInv
    <3> QED
      BY <3>1, <1>2, SizesAssumption
  <2> HIDE DEF p, u
  <2>3. DOMAIN live' = DOMAIN live \cup {p} /\ live'[p] = want /\ \A q \in DOMAIN live : live'[q] = live[q]
    BY <2>1, <2>2
  <2>4. /\ DOMAIN Objects = DOMAIN live /\ DOMAIN Objects' = DOMAIN live \cup {p}
        /\ \A q \in DOMAIN live : Objects'[q] = Objects[q]
    BY <1>4, <2>3 DEF Objects
  <2>5. DOMAIN Objects'[p] = 0..(want - 1)
    BY <1>1, <2>3 DEF Objects, Contents, Bytes
  <2>6. TheHeap!Alloc(p, want)
    BY <2>2, <2>4, <2>5 DEF TheHeap!Alloc, Objects
  <2> QED
    BY <1>1, <2>4, <2>6 DEF TheHeap!Next, Objects
<1> QED
  BY <1>5, <1>6

LEMMA CopyStep == ASSUME HeapInv, Copy PROVE TheHeap!Next
<1> DEFINE new == <<to[1], to[2] + Header>>
<1>1. /\ ArenaInv /\ PiecesInv /\ TailOnly(blocks, blocks', to[1], to[2]) /\ want \in Sizes
      /\ \A i \in Bytes(0, live[from]) :
           blocks'[to[1]].mem[to[2] + Header + i] = blocks[from[1]].mem[from[2] + i]
  BY IndCopy DEF HeapInv, IndInv, WantInv, Copy
<1>2. /\ from \in DOMAIN live /\ want \in Nat /\ live[from] \in Nat /\ want > live[from]
      /\ to[2] \in Nat /\ \A q \in DOMAIN live : q[1] = to[1] => q[2] + live[q] <= to[2] - Header
  BY <1>1 DEF HeapInv, IndInv, CallInv, CopyInv, ArenaInv, Copy
<1>3. \A q \in DOMAIN live : q[1] = to[1] => q[2] \in Nat /\ live[q] \in Nat /\ q[2] + live[q] <= to[2]
  BY <1>1, <1>2, SizesAssumption DEF ArenaInv
<1>4. new \notin DOMAIN live
  <2> SUFFICES ASSUME new \in DOMAIN live PROVE FALSE
    OBVIOUS
  <2>1. new[2] + live[new] <= to[2] /\ live[new] \in Nat /\ new[2] = to[2] + Header
    BY <1>3
  <2> QED
    BY <2>1, <1>2, SizesAssumption
<1>5. live' = [q \in (DOMAIN live \ {from}) \cup {new} |-> IF q = new THEN want ELSE live[q]]
  BY DEF Copy, Moved
<1>6. Objects' = [q \in DOMAIN live' |-> [i \in Bytes(0, live'[q]) |-> blocks'[q[1]].mem[q[2] + i]]]
  BY DEF Objects, Contents
<1>6a. new[1] = to[1] /\ new[2] = to[2] + Header
  OBVIOUS
<1> HIDE DEF new
<1>7. /\ DOMAIN live' = (DOMAIN live \ {from}) \cup {new} /\ live'[new] = want
      /\ \A q \in DOMAIN live \ {from} : live'[q] = live[q]
  BY <1>4, <1>5
<1>8. \A q \in DOMAIN live \ {from} : Contents(q)' = Contents(q)
  BY <1>1, <1>2, <1>3, <1>7, OldContents
<1>9. /\ DOMAIN Objects = DOMAIN live /\ DOMAIN Objects' = (DOMAIN live \ {from}) \cup {new}
      /\ \A q \in DOMAIN live \ {from} : Objects'[q] = Objects[q]
      /\ Objects'[new] = [i \in Bytes(0, want) |-> blocks'[to[1]].mem[to[2] + Header + i]]
      /\ Objects[from] = [i \in Bytes(0, live[from]) |-> blocks[from[1]].mem[from[2] + i]]
  <2>1. /\ DOMAIN Objects = DOMAIN live /\ Objects' = [q \in DOMAIN live' |-> Contents(q)']
        /\ \A q \in DOMAIN live : Objects[q] = Contents(q)
    BY DEF Objects
  <2>2. Objects'[new] = [i \in Bytes(0, want) |-> blocks'[to[1]].mem[to[2] + Header + i]]
    <3>1. Objects'[new] = [i \in Bytes(0, live'[new]) |-> blocks'[new[1]].mem[new[2] + i]]
      BY <1>6, <1>7
    <3> QED
      BY <3>1, <1>6a, <1>7
  <2>3. Contents(from) = [i \in Bytes(0, live[from]) |-> blocks[from[1]].mem[from[2] + i]]
    BY DEF Contents
  <2>4. \A q \in DOMAIN live \ {from} : Objects'[q] = Objects[q]
    BY <1>7, <1>8, <2>1
  <2>5. DOMAIN Objects' = (DOMAIN live \ {from}) \cup {new}
    BY <1>7, <2>1
  <2>6. Objects[from] = [i \in Bytes(0, live[from]) |-> blocks[from[1]].mem[from[2] + i]]
    BY <1>2, <2>1, <2>3
  <2> QED
    BY <2>1, <2>2, <2>4, <2>5, <2>6
<1>10. Bytes(0, want) = 0..(want - 1) /\ Bytes(0, live[from]) \subseteq Bytes(0, want)
  BY <1>2 DEF Bytes
<1>11. /\ DOMAIN Objects'[new] = 0..(want - 1)
       /\ \A i \in DOMAIN Objects[from] \cap (0..(want - 1)) : Objects'[new][i] = Objects[from][i]
  BY <1>1, <1>9, <1>10
<1>12. TheHeap!Realloc(from, new, want)
  BY <1>4, <1>9, <1>11 DEF TheHeap!Realloc, Objects
<1> QED
  BY <1>1, <1>2, <1>9, <1>12 DEF TheHeap!Next, Objects

LEMMA ReallocInPlaceStep ==
  ASSUME HeapInv, NEW p \in DOMAIN live, NEW n \in Sizes, ReallocInPlace(p, n)
  PROVE  TheHeap!Next
<1>1. ArenaInv /\ PiecesInv /\ n \in Nat /\ n <= live[p] /\ StoredSize(p) = live[p]
  BY SizesAssumption DEF HeapInv, IndInv, PiecesInv, HeadersTrue, ReallocInPlace
<1>2. blocks' = SaveSize(blocks, p, n) /\ live' = [live EXCEPT ![p] = n]
  BY DEF ReallocInPlace
<1>3. HeaderOnly(blocks, blocks', p, n)
  BY <1>1, <1>2, SizeSaved DEF ArenaInv
<1>4. /\ DOMAIN live' = DOMAIN live /\ live'[p] = n
      /\ \A q \in DOMAIN live : q # p => live'[q] = live[q]
  BY <1>2
<1>5. ASSUME NEW q \in DOMAIN live, NEW i \in Bytes(q[2], live[q])
      PROVE  blocks'[q[1]].mem[i] = blocks[q[1]].mem[i]
  <2>1. q[1] \in DOMAIN blocks /\ i \in Bytes(0, blocks[q[1]].size) /\ q[2] \in Nat /\ live[q] \in Nat
    BY <1>1, PiecePlace DEF PiecesInv
  <2>2. q[1] = p[1] => i \notin HeaderCells(p)
    <3>1. CASE q = p
      BY <2>1, <3>1, SizesAssumption DEF Bytes, HeaderCells
    <3>2. CASE q # p
      BY <1>1, <3>2, BytesApart
    <3> QED
      BY <3>1, <3>2
  <2> QED
    BY <1>3, <2>1, <2>2 DEF HeaderOnly
<1>6. \A q \in DOMAIN live : q # p => Contents(q)' = Contents(q)
  BY <1>1, <1>4, <1>5, SameBytes
<1>7. p[2] \in Nat /\ live[p] \in Nat
  BY <1>1 DEF ArenaInv
<1>8. \A i \in Bytes(0, n) : i \in Bytes(0, live[p]) /\ p[2] + i \in Bytes(p[2], live[p])
  BY <1>1, <1>7 DEF Bytes
<1>9. /\ DOMAIN Objects = DOMAIN live /\ DOMAIN Objects' = DOMAIN live
      /\ \A q \in DOMAIN live \ {p} : Objects'[q] = Objects[q]
      /\ Objects'[p] = [i \in Bytes(0, n) |-> blocks'[p[1]].mem[p[2] + i]]
      /\ Objects[p] = [i \in Bytes(0, live[p]) |-> blocks[p[1]].mem[p[2] + i]]
  BY <1>4, <1>6 DEF Objects, Contents
<1>10. DOMAIN Objects'[p] = 0..(n - 1)
  BY <1>1, <1>9 DEF Bytes
<1>11. \A i \in DOMAIN Objects[p] \cap (0..(n - 1)) : Objects'[p][i] = Objects[p][i]
  <2>1. \A i \in Bytes(0, n) : blocks'[p[1]].mem[p[2] + i] = blocks[p[1]].mem[p[2] + i]
    BY <1>5, <1>8
  <2>2. \A i \in Bytes(0, n) : Objects'[p][i] = Objects[p][i]
    BY <1>8, <1>9, <2>1
  <2> QED
    BY <1>1, <2>2 DEF Bytes
<1>12. TheHeap!Realloc(p, p, n)
  BY <1>9, <1>10, <1>11 DEF TheHeap!Realloc, Objects
<1> QED
  BY <1>9, <1>12 DEF TheHeap!Next, Objects

LEMMA WriteStep ==
  ASSUME HeapInv, NEW p \in DOMAIN live, NEW v \in Values, Write(p, v)
  PROVE  TheHeap!Next
<1> DEFINE f == [i \in Bytes(p[2], live[p]) |-> v]
<1>1. ArenaInv /\ PiecesInv /\ live' = live /\ blocks' = Fill(blocks, p[1], f)
  BY DEF HeapInv, IndInv, Write
<1>2. DOMAIN f = Bytes(p[2], live[p]) /\ \A i \in DOMAIN f : f[i] = v /\ f[i] \in Cells
  BY DEF Cells
<1> HIDE DEF f
<1>3. \A c \in DOMAIN blocks : \A i \in Bytes(0, blocks[c].size) :
        blocks'[c].mem[i] = IF c = p[1] /\ i \in DOMAIN f THEN f[i] ELSE blocks[c].mem[i]
  BY <1>1, <1>2, Filled DEF ArenaInv
<1>4. \A q \in DOMAIN live : /\ q[1] \in DOMAIN blocks /\ q[2] \in Nat /\ live[q] \in Nat
                             /\ \A i \in Bytes(q[2], live[q]) : i \in Bytes(0, blocks[q[1]].size)
  BY <1>1, PiecePlace DEF PiecesInv
<1>5. ASSUME NEW q \in DOMAIN live, q # p PROVE Contents(q)' = Contents(q)
  <2>1. \A i \in Bytes(q[2], live[q]) : blocks'[q[1]].mem[i] = blocks[q[1]].mem[i]
    BY <1>1, <1>2, <1>3, <1>4, <1>5, BytesApart
  <2> QED
    BY <1>1, <2>1, SameBytes
<1>6. Contents(p)' = [i \in DOMAIN Contents(p) |-> v]
  <2>1. \A i \in Bytes(0, live[p]) : p[2] + i \in Bytes(p[2], live[p])
    BY <1>4 DEF Bytes
  <2>2. \A i \in Bytes(0, live[p]) : blocks'[p[1]].mem[p[2] + i] = v
    BY <1>2, <1>3, <1>4, <2>1
  <2> QED
    BY <1>1, <2>2 DEF Contents
<1>7. /\ DOMAIN Objects = DOMAIN live /\ Objects' = [q \in DOMAIN live |-> Contents(q)']
      /\ Objects[p] = Contents(p)
  BY <1>1 DEF Objects
<1>8. Objects' = [Objects EXCEPT ![p] = [i \in DOMAIN @ |-> v]]
  BY <1>5, <1>6, <1>7 DEF Objects
<1>9. TheHeap!Write(p, v)
  BY <1>8 DEF TheHeap!Write, Objects
<1> QED
  BY <1>7, <1>9 DEF TheHeap!Next, Objects

LEMMA FreeStep ==
  ASSUME HeapInv, NEW p \in DOMAIN live, Free(p)
  PROVE  TheHeap!Next
<1>1. blocks' = blocks /\ live' = [q \in DOMAIN live \ {p} |-> live[q]]
  BY DEF Free
<1>2. \A q \in DOMAIN live \ {p} : Contents(q)' = Contents(q)
  BY <1>1 DEF Contents
<1>3. Objects' = [q \in DOMAIN Objects \ {p} |-> Objects[q]]
  BY <1>1, <1>2 DEF Objects
<1>4. TheHeap!Free(p)
  BY <1>3 DEF TheHeap!Free, Objects
<1> QED
  BY <1>4 DEF TheHeap!Next, Objects

LEMMA HeapInit == Init => TheHeap!Init
<1> SUFFICES ASSUME Init PROVE Objects = <<>>
  BY DEF TheHeap!Init, Objects
<1>1. live = <<>>
  BY DEF Init
<1> QED
  BY <1>1 DEF Objects

LEMMA HeapStep == HeapInv /\ [Next]_vars => [TheHeap!Next]_Objects
<1> SUFFICES ASSUME HeapInv, [Next]_vars PROVE TheHeap!Next \/ Objects' = Objects
  OBVIOUS
<1>k. UNCHANGED <<blocks, live>> => Objects' = Objects
  BY DEF Objects, Contents
<1>1. CASE UNCHANGED vars
  BY <1>1, <1>k DEF vars
<1>2. CASE \/ \E n \in Sizes : Alloc(n)
           \/ \E p \in DOMAIN live, n \in Sizes : Realloc(p, n)
           \/ HasRoom \/ NoRoom \/ Double \/ NewBlockFails
  BY <1>2, <1>k DEF Alloc, Realloc, Enter, HasRoom, NoRoom, Double, NewBlockFails
<1>3. CASE \E p \in DOMAIN live, n \in Sizes : ReallocInPlace(p, n)
  BY <1>3, ReallocInPlaceStep
<1>4. CASE \E p \in DOMAIN live, v \in Values : Write(p, v)
  BY <1>4, WriteStep
<1>5. CASE \E p \in DOMAIN live : Free(p)
  BY <1>5, FreeStep
<1>6. CASE Destroy
  <2>1. live' = <<>>
    BY <1>6 DEF Destroy
  <2>2. Objects' = <<>>
    BY <2>1 DEF Objects
  <2> QED
    BY <2>2 DEF TheHeap!Next, TheHeap!Destroy, Objects
<1>7. CASE NewBlock
  BY <1>7, NewBlockStep DEF HeapInv
<1>8. CASE Carve
  BY <1>8, CarveStep
<1>9. CASE Copy
  BY <1>9, CopyStep
<1> QED
  BY <1>1, <1>2, <1>3, <1>4, <1>5, <1>6, <1>7, <1>8, <1>9 DEF Next, InCall

-----------------------------------------------------------------------------

\* The arena is the heap that allocator.h promises (linalloc.c:45-122): for any sizes and
\* sequence of calls, no call and no write changes a byte of another piece, and a piece
\* that linalloc_realloc moves or shrinks keeps the bytes both sizes have.
THEOREM ImplementsTheHeap == Spec => ImplementsHeap
<1>1. HeapInv /\ [Next]_vars => [TheHeap!Next]_Objects
  BY HeapStep
<1> QED
  BY <1>1, HeapInit, HeapAlways, PTL DEF Spec, ImplementsHeap, TheHeap!Spec, Objects

=============================================================================
