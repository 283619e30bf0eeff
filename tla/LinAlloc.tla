------------------------------ MODULE LinAlloc ------------------------------
(***************************************************************************)
(* src/data/linalloc.c: the arena behind the parser and coregen.  Memory   *)
(* is cut from the end of the newest block, each piece behind a header     *)
(* that holds its size; nothing is given back before linalloc_destroy.     *)
(*                                                                         *)
(* A pointer is a block and an offset in it.  A byte is Junk, a value of   *)
(* its owner, or part of a header (then it is the size).  A malloc that    *)
(* fails raises SIGINT: the compiler ends, or, where the signal is         *)
(* ignored, the call returns NULL and the arena is used on.  Sizes are far *)
(* below the range of size_t, so nothing wraps.                            *)
(***************************************************************************)
EXTENDS Naturals, Sequences, FiniteSets

CONSTANTS
  FirstSize,   \* LINALLOC_FIRST_SIZE
  Header,      \* sizeof(size_t)
  Sizes,       \* the sizes that are asked for
  Values,      \* what the owner of a piece may fill it with
  Junk,        \* what malloc leaves in a byte
  NULL,        \* no pointer
  MaxBlocks,   \* bound: blocks, when a call begins
  MaxNext,     \* bound: next_block_size, when a call begins
  MaxLive      \* bound: pieces the callers hold, when a call begins

ASSUME SizesAssumption ==
  /\ FirstSize \in Nat \ {0} /\ Header \in Nat \ {0}
  /\ Sizes \subseteq Nat \ {0}
  /\ NULL \notin Nat \X Nat
  /\ MaxBlocks \in Nat /\ MaxNext \in Nat /\ MaxLive \in Nat

VARIABLES
  blocks,           \* the stack of linalloc_block_t
  next_block_size,
  live,             \* the size of every piece a caller holds, by its address
  pc,               \* where the running call is
  size, want,       \* the argument of linalloc_alloc, and what the caller asked for
  from,             \* linalloc_realloc: the piece that is moved, or NULL
  to                \* what linalloc_alloc has returned

call == <<pc, size, want, from, to>>
vars == <<blocks, next_block_size, live, call>>

Top == Len(blocks)
Addresses == Nat \X Nat
Bytes(first, n) == first..(first + n - 1)

NewBlockOf(n) == [size |-> n, used |-> 0, mem |-> [i \in Bytes(0, n) |-> Junk]]

\* bs with the bytes of f written into block b
Fill(bs, b, f) ==
  [bs EXCEPT ![b].mem = [i \in DOMAIN @ |-> IF i \in DOMAIN f THEN f[i] ELSE @[i]]]

HeaderCells(p) == Bytes(p[2] - Header, Header)
StoredSize(p) == blocks[p[1]].mem[p[2] - Header]
SaveSize(bs, p, n) == Fill(bs, p[1], [i \in HeaderCells(p) |-> n])

Idle == pc = "idle"
NoCall == size' = 0 /\ want' = 0 /\ from' = NULL /\ to' = NULL
Return == pc' = "idle" /\ NoCall

\* mutant: next_block_size is not set
InitNextUnset ==
  /\ blocks = <<NewBlockOf(FirstSize)>> /\ next_block_size = 0
  /\ live = <<>>
  /\ pc = "idle" /\ size = 0 /\ want = 0 /\ from = NULL /\ to = NULL

\* after linalloc_init
Init ==
  /\ blocks = <<NewBlockOf(FirstSize)>> /\ next_block_size = 2 * FirstSize
  /\ live = <<>>
  /\ pc = "idle" /\ size = 0 /\ want = 0 /\ from = NULL /\ to = NULL

-----------------------------------------------------------------------------
(* linalloc_alloc *)

Bounded == Top <= MaxBlocks /\ next_block_size <= MaxNext /\ Cardinality(DOMAIN live) <= MaxLive

Enter(n, s, p) ==
  /\ pc' = "room" /\ size' = s + Header /\ want' = n /\ from' = p
  /\ UNCHANGED <<blocks, next_block_size, live, to>>

Alloc(n) == Idle /\ Bounded /\ Enter(n, n, NULL)

\* mutant: the header is left out of the comparison
HasRoomNoHeader ==
  /\ pc = "room" /\ blocks[Top].used + size - Header <= blocks[Top].size
  /\ pc' = "carve"
  /\ UNCHANGED <<blocks, next_block_size, live, size, want, from, to>>

HasRoom ==
  /\ pc = "room" /\ blocks[Top].used + size <= blocks[Top].size
  /\ pc' = "carve"
  /\ UNCHANGED <<blocks, next_block_size, live, size, want, from, to>>

NoRoom ==
  /\ pc = "room" /\ blocks[Top].used + size > blocks[Top].size
  /\ pc' = "double"
  /\ UNCHANGED <<blocks, next_block_size, live, size, want, from, to>>

\* mutant: the product is not assigned
DoubleLost ==
  /\ pc = "double" /\ size > next_block_size
  /\ UNCHANGED <<blocks, next_block_size, live, call>>

\* while (size > next_block_size) next_block_size *= 2
Double ==
  /\ pc = "double" /\ size > next_block_size
  /\ next_block_size' = 2 * next_block_size
  /\ UNCHANGED <<blocks, live, call>>

\* mutant: the next block is to be of the same size
NewBlockSameSize ==
  /\ pc = "double" /\ size <= next_block_size
  /\ blocks' = Append(blocks, NewBlockOf(next_block_size))
  /\ pc' = "carve"
  /\ UNCHANGED <<next_block_size, live, size, want, from, to>>

NewBlock ==
  /\ pc = "double" /\ size <= next_block_size
  /\ blocks' = Append(blocks, NewBlockOf(next_block_size))
  /\ next_block_size' = 2 * next_block_size
  /\ pc' = "carve"
  /\ UNCHANGED <<live, size, want, from, to>>

\* the size of the block that malloc refused is not asked for again
NewBlockFails ==
  /\ pc = "double" /\ size <= next_block_size
  /\ next_block_size' = 2 * next_block_size
  /\ Return
  /\ UNCHANGED <<blocks, live>>

\* mutant: the header is not counted as used
CarveNoHeader ==
  LET p == <<Top, blocks[Top].used + Header>>
  IN /\ pc = "carve"
     /\ blocks' = SaveSize([blocks EXCEPT ![Top].used = @ + size - Header], p, size - Header)
     /\ IF from = NULL
        THEN /\ live' = [q \in DOMAIN live \cup {p} |-> IF q = p THEN want ELSE live[q]]
             /\ Return
        ELSE /\ pc' = "copy" /\ to' = p
             /\ UNCHANGED <<live, size, want, from>>
     /\ UNCHANGED next_block_size

\* the piece is cut off and its header written; linalloc_realloc goes on
Carve ==
  LET p == <<Top, blocks[Top].used + Header>>
  IN /\ pc = "carve"
     /\ blocks' = SaveSize([blocks EXCEPT ![Top].used = @ + size], p, size - Header)
     /\ IF from = NULL
        THEN /\ live' = [q \in DOMAIN live \cup {p} |-> IF q = p THEN want ELSE live[q]]
             /\ Return
        ELSE /\ pc' = "copy" /\ to' = p
             /\ UNCHANGED <<live, size, want, from>>
     /\ UNCHANGED next_block_size

-----------------------------------------------------------------------------
(* linalloc_realloc *)

\* the header is added to the size here and again in linalloc_alloc
Realloc(p, n) ==
  /\ Idle /\ Bounded /\ n > StoredSize(p)
  /\ Enter(n, n + Header, p)

ReallocInPlace(p, n) ==
  /\ Idle /\ n <= StoredSize(p)
  /\ blocks' = SaveSize(blocks, p, n)
  /\ live' = [live EXCEPT ![p] = n]
  /\ UNCHANGED <<next_block_size, call>>

Moved(new) ==
  /\ live' = [q \in (DOMAIN live \ {from}) \cup {new} |-> IF q = new THEN want ELSE live[q]]
  /\ Return

\* mutant: only the header that linalloc_alloc wrote is kept
CopyNoHeader ==
  LET new == <<to[1], to[2] + Header>>
      old == [i \in Bytes(new[2], StoredSize(from)) |-> blocks[from[1]].mem[from[2] + i - new[2]]]
  IN /\ pc = "copy"
     /\ blocks' = Fill(blocks, new[1], old)
     /\ Moved(new)
     /\ UNCHANGED next_block_size

\* mutant: memcpy comes before the pointer is moved past the header
CopyTooEarly ==
  LET new == <<to[1], to[2] + Header>>
      old == [i \in Bytes(to[2], StoredSize(from)) |-> blocks[from[1]].mem[from[2] + i - to[2]]]
  IN /\ pc = "copy"
     /\ blocks' = SaveSize(Fill(blocks, to[1], old), new, want)
     /\ Moved(new)
     /\ UNCHANGED next_block_size

\* the first bytes of the new piece become a header of their own
Copy ==
  LET new == <<to[1], to[2] + Header>>
      old == [i \in Bytes(new[2], StoredSize(from)) |-> blocks[from[1]].mem[from[2] + i - new[2]]]
  IN /\ pc = "copy"
     /\ blocks' = Fill(SaveSize(blocks, new, want), new[1], old)
     /\ Moved(new)
     /\ UNCHANGED next_block_size

-----------------------------------------------------------------------------
(* The owners of the pieces; linalloc_destroy *)

\* linalloc_stralloc is an Alloc and this
Write(p, v) ==
  /\ Idle
  /\ blocks' = Fill(blocks, p[1], [i \in Bytes(p[2], live[p]) |-> v])
  /\ UNCHANGED <<next_block_size, live, call>>

\* free_noop: the owner forgets the piece, nothing else happens
Free(p) ==
  /\ Idle
  /\ live' = [q \in DOMAIN live \ {p} |-> live[q]]
  /\ UNCHANGED <<blocks, next_block_size, call>>

Destroy ==
  /\ Idle
  /\ blocks' = <<>> /\ live' = <<>> /\ pc' = "destroyed"
  /\ UNCHANGED <<next_block_size, size, want, from, to>>

InCall == HasRoom \/ NoRoom \/ Double \/ NewBlock \/ NewBlockFails \/ Carve \/ Copy

Next ==
  \/ \E n \in Sizes : Alloc(n)
  \/ \E p \in DOMAIN live, n \in Sizes : Realloc(p, n) \/ ReallocInPlace(p, n)
  \/ InCall
  \/ \E p \in DOMAIN live, v \in Values : Write(p, v)
  \/ \E p \in DOMAIN live : Free(p)
  \/ Destroy

Spec == Init /\ [][Next]_vars

\* a call that has begun runs on
FairSpec == Spec /\ WF_vars(InCall)

-----------------------------------------------------------------------------
(* Properties *)

\* Every field has its type; a piece that is held lies at an address of the arena.
TypeOK ==
  /\ next_block_size \in Nat \ {0}
  /\ \A b \in DOMAIN blocks : blocks[b].used \in Nat /\ blocks[b].size \in Nat
  /\ DOMAIN live \subseteq Addresses
  /\ \A p \in DOMAIN live : p[1] \in DOMAIN blocks /\ live[p] \in Nat \ {0}
  /\ pc \in {"idle", "room", "double", "carve", "copy", "destroyed"}
  /\ from \in {NULL} \cup DOMAIN live

\* A piece and its header lie in the part of their block that is in use, and
\* that part in the block: linalloc_alloc compares before it cuts (linalloc.c:57),
\* and a block made for a large piece is large enough (58-62).
PiecesInBlocks ==
  /\ \A b \in DOMAIN blocks : blocks[b].used <= blocks[b].size
  /\ \A p \in DOMAIN live : p[2] >= Header /\ p[2] + live[p] <= blocks[p[1]].used

\* Two pieces that are held share no byte, of their own or of their headers,
\* also after linalloc_realloc has moved or shrunk one (linalloc.c:76-103).
PiecesDisjoint ==
  \A p, q \in DOMAIN live : p # q /\ p[1] = q[1] =>
    p[2] + live[p] <= q[2] - Header \/ q[2] + live[q] <= p[2] - Header

\* The header before a piece holds the size its owner last asked for: the next
\* linalloc_realloc copies that many bytes (linalloc.c:82, 100).
HeadersTrue == \A p \in DOMAIN live : StoredSize(p) = live[p]

\* Every block is at least twice as large as the one before, even when malloc has
\* failed in between (linalloc.c:131-133): so few blocks are ever made that the
\* stack of blocks never grows.
BlocksDouble ==
  \A b \in 1..(Top - 1) : blocks[b + 1].size >= 2 * blocks[b].size

\* A call returns: the loop that doubles next_block_size ends (linalloc.c:58-60).
CallsReturn == pc \in {"room", "double", "carve", "copy"} ~> pc = "idle"

\* The arena is a heap: no call and no write changes the bytes of another piece,
\* and a piece that is grown keeps its bytes.
Contents(p) == [i \in Bytes(0, live[p]) |-> blocks[p[1]].mem[p[2] + i]]
TheHeap == INSTANCE Heap WITH objects <- [p \in DOMAIN live |-> Contents(p)]
ImplementsHeap == TheHeap!Spec

=============================================================================
