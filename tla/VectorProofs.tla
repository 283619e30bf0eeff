---------------------------- MODULE VectorProofs ----------------------------
(***************************************************************************)
(* The vector's invariants, and that it implements Buffer, for any         *)
(* elements, capacities and bound.                                         *)
(***************************************************************************)
EXTENDS Vector, SequenceTheorems, TLAPS

Cells == Elems \cup {Garbage}

\* A growth that was never refused leaves cap as large as the memory.
RoomIsCap == state = "whole" => DOMAIN mem = 0..(cap - 1)

IInv == TypeOK /\ RoomIsCap /\ ElementsInside /\ SlotIsElement

-----------------------------------------------------------------------------
(* Growing *)

LEMMA GrownIsRoom ==
  ASSUME TypeOK
  PROVE  Grown \in Nat /\ Grown > cap
  BY CapAssumption DEF TypeOK, Grown

\* The memory after room was made: cells on a segment of no more than Cap, which
\* agree with the old memory where there was any.
LEMMA MemoryType ==
  ASSUME TypeOK
  PROVE  /\ Cap \in Nat /\ Block \in Nat \ {0}
         /\ \E n \in 0..Cap : Memory \in [0..(n - 1) -> Cells]
         /\ \A i \in DOMAIN mem : i \in DOMAIN Memory /\ Memory[i] = mem[i]
  <1>1. PICK n \in 0..cap : mem \in [0..(n - 1) -> Cells]
    BY DEF TypeOK, Cells
  <1>2. CASE Full
    <2>1. Memory \in [0..(Grown - 1) -> Cells]
      BY <1>1, <1>2, GrownIsRoom DEF Memory, Loaded, Cells
    <2>2. ASSUME NEW i \in DOMAIN mem PROVE i \in DOMAIN Memory /\ Memory[i] = mem[i]
      <3>1. i \in 0..(n - 1) /\ i \in 0..(Grown - 1)
        BY <1>1, GrownIsRoom DEF TypeOK
      <3>2. Memory = [j \in 0..(Grown - 1) |-> Loaded(mem, j)]
        BY <1>2 DEF Memory
      <3>. QED
        BY <3>1, <3>2 DEF Loaded
    <2>3. Cap = Grown /\ Block = block + 1
      BY <1>2 DEF Cap, Block
    <2>4. Cap \in Nat /\ Block \in Nat \ {0} /\ Grown \in 0..Cap
      BY <2>3, GrownIsRoom DEF TypeOK
    <2>. QED
      BY <2>1, <2>2, <2>4
  <1>3. CASE ~Full
    BY <1>1, <1>3 DEF Memory, Cap, Block, TypeOK
  <1>. QED
    BY <1>2, <1>3

\* Without a refusal there is room for one more element.
LEMMA RoomForOne ==
  ASSUME IInv, state = "whole"
  PROVE  DOMAIN Memory = 0..(Cap - 1) /\ len \in DOMAIN Memory
  <1>1. len <= cap
    <2>1. CASE len = 0
      BY <2>1 DEF IInv, TypeOK
    <2>2. CASE len # 0
      <3>1. len - 1 \in 0..(len - 1)
        BY <2>2 DEF IInv, TypeOK
      <3>2. len - 1 \in 0..(cap - 1)
        BY <3>1 DEF IInv, RoomIsCap, ElementsInside, Inside
      <3>. QED
        BY <3>2 DEF IInv, TypeOK
    <2>. QED
      BY <2>1, <2>2
  <1>2. CASE Full
    BY <1>1, <1>2, GrownIsRoom DEF IInv, TypeOK, Memory, Cap, Full
  <1>3. CASE ~Full
    BY <1>3 DEF IInv, TypeOK, RoomIsCap, Memory, Cap, Full
  <1>. QED
    BY <1>2, <1>3

LEMMA ShorterSegment ==
  ASSUME NEW m \in Nat, NEW n \in Nat, m <= n
  PROVE  \A i \in 0..(m - 1) : i \in 0..(n - 1)
  OBVIOUS

LEMMA StoredType ==
  ASSUME NEW m, NEW n \in Int, m \in [0..(n - 1) -> Cells], NEW i, NEW x \in Cells
  PROVE  Stored(m, i, x) \in [0..(n - 1) -> Cells]
  BY DEF Stored

LEMMA LoadedType ==
  ASSUME NEW m, NEW n \in Int, m \in [0..(n - 1) -> Cells], NEW i
  PROVE  Loaded(m, i) \in Cells
  BY DEF Loaded, Cells

-----------------------------------------------------------------------------
(* The invariant *)

LEMMA InitInv == Init => IInv
  <1> SUFFICES ASSUME Init PROVE IInv
    OBVIOUS
  <1>1. cap \in Nat
    BY CapAssumption DEF Init
  <1>2. mem \in [0..(cap - 1) -> Cells]
    BY <1>1 DEF Init, Cells
  <1>3. TypeOK
    BY <1>1, <1>2, CapAssumption DEF Init, TypeOK, NoSlot, Cells
  <1>4. RoomIsCap
    BY <1>2 DEF Init, RoomIsCap
  <1>5. ElementsInside /\ SlotIsElement
    BY DEF Init, ElementsInside, SlotIsElement, Inside
  <1>. QED
    BY <1>3, <1>4, <1>5 DEF IInv

\* What the calls that add an element have in common.
LEMMA ExtendInv ==
  ASSUME IInv, Extend, NEW x \in Cells,
         mem' = Memory \/ mem' = Stored(Memory, len, x),
         slot' = [block |-> Block, index |-> len], got' \in Cells
  PROVE  IInv'
  <1>1. PICK n \in 0..Cap : Memory \in [0..(n - 1) -> Cells]
    BY MemoryType DEF IInv
  <1>2. mem' \in [0..(n - 1) -> Cells]
    BY <1>1, StoredType
  <1>3. cap' \in Nat /\ block' \in Nat \ {0} /\ n \in 0..cap'
    BY MemoryType DEF IInv, Extend
  <1>4. len' \in 0..MaxLen /\ len' = len + 1
    BY CapAssumption DEF Extend, IInv, TypeOK
  <1>5. TypeOK'
    <2>1. slot' \in [block : Nat, index : Nat]
      BY MemoryType DEF IInv, TypeOK
    <2>2. \E k \in 0..cap' : mem' \in [0..(k - 1) -> Elems \cup {Garbage}]
      BY <1>2, <1>3 DEF Cells
    <2>3. state' = state
      BY DEF Extend
    <2>. QED
      BY <1>3, <1>4, <2>1, <2>2, <2>3 DEF IInv, TypeOK, Cells
  <1>6. ASSUME state = "whole" PROVE RoomIsCap' /\ Inside'
    <2>1. DOMAIN mem' = 0..(cap' - 1)
      BY <1>1, <1>2, <1>6, RoomForOne DEF Extend
    <2>2. len \in DOMAIN mem' /\ \A i \in DOMAIN mem : i \in DOMAIN mem'
      BY <1>1, <1>2, <1>6, RoomForOne, MemoryType DEF IInv
    <2>3. Inside
      BY DEF Extend, Usable
    <2>4. ASSUME NEW i \in 0..(len' - 1) PROVE i \in DOMAIN mem'
      <3>1. i = len \/ i \in 0..(len - 1)
        BY <1>4 DEF IInv, TypeOK
      <3>. QED
        BY <2>2, <2>3, <3>1 DEF Inside
    <2>. QED
      BY <2>1, <2>4 DEF RoomIsCap, Inside
  <1>7. SlotIsElement'
    BY <1>4 DEF SlotIsElement, Extend, IInv, TypeOK
  <1>. QED
    BY <1>5, <1>6, <1>7 DEF IInv, Extend, RoomIsCap, ElementsInside

LEMMA NextInv == IInv /\ [Next]_vars => IInv'
  <1> SUFFICES ASSUME IInv, [Next]_vars PROVE IInv'
    OBVIOUS
  <1>a. PICK n \in 0..cap : mem \in [0..(n - 1) -> Cells]
    BY DEF IInv, TypeOK, Cells
  <1>1. CASE Refuse
    <2>1. TypeOK'
      <3>1. cap' \in Nat /\ n \in 0..cap'
        BY <1>1, GrownIsRoom DEF Refuse, IInv, TypeOK
      <3>. QED
        BY <1>1, <1>a, <3>1 DEF Refuse, IInv, TypeOK, NoSlot, Cells
    <2>. QED
      BY <1>1, <2>1 DEF Refuse, IInv, RoomIsCap, ElementsInside, SlotIsElement
  <1>2. CASE AllocElem
    <2>1. Loaded(Memory, len) \in Cells
      BY MemoryType, LoadedType DEF IInv
    <2>. QED
      BY <1>2, <2>1, ExtendInv DEF AllocElem
  <1>3. ASSUME NEW x \in Elems, PushBack(x) PROVE IInv'
    <2>1. x \in Cells
      BY DEF Cells
    <2>. QED
      BY <1>3, <2>1, ExtendInv DEF PushBack
  <1>4. ASSUME NEW x \in Elems, Fill(x) PROVE IInv'
    <2>1. mem' \in [0..(n - 1) -> Cells]
      BY <1>4, <1>a, StoredType DEF Fill, Cells
    <2>2. TypeOK'
      BY <1>4, <2>1 DEF Fill, IInv, TypeOK, Cells
    <2>3. DOMAIN mem' = DOMAIN mem
      BY <2>1, <1>a
    <2>. QED
      BY <1>4, <2>2, <2>3 DEF Fill, IInv, RoomIsCap, ElementsInside, SlotIsElement, Usable, Inside
  <1>5. ASSUME NEW i \in Nat, GetRef(i) PROVE IInv'
    <2>1. got' \in Cells \cup {Null} /\ slot' \in [block : Nat, index : Nat]
      <3>1. CASE i >= len
        BY <1>5, <3>1 DEF GetRef, NoSlot
      <3>2. CASE ~(i >= len)
        <4>1. i \in 0..(len - 1)
          BY <3>2 DEF IInv, TypeOK
        <4>2. i \in 0..(n - 1)
          BY <4>1, <1>5, <1>a DEF GetRef, Usable, Inside
        <4>. QED
          BY <1>5, <1>a, <3>2, <4>2 DEF GetRef, IInv, TypeOK
      <3>. QED
        BY <3>1, <3>2
    <2>2. TypeOK'
      BY <1>5, <2>1 DEF GetRef, IInv, TypeOK, Cells
    <2>3. SlotIsElement'
      BY <1>5 DEF GetRef, IInv, TypeOK, SlotIsElement, NoSlot
    <2>. QED
      BY <1>5, <2>2, <2>3 DEF GetRef, IInv, RoomIsCap, ElementsInside, Inside
  <1>6. CASE Peek
    <2>1. (IF len = 0 THEN 0 ELSE len - 1) \in Nat
      BY DEF IInv, TypeOK
    <2>. QED
      BY <1>5, <1>6, <2>1 DEF Peek
  <1>7. CASE Pop
    <2>1. got' \in Cells \cup {Null} /\ len' \in 0..MaxLen /\ len' <= len
      <3>1. CASE len = 0
        BY <1>7, <3>1 DEF Pop, IInv, TypeOK
      <3>2. CASE len # 0
        <4>1. len - 1 \in 0..(len - 1)
          BY <3>2 DEF IInv, TypeOK
        <4>2. len - 1 \in 0..(n - 1)
          BY <4>1, <1>7, <1>a DEF Pop, Usable, Inside
        <4>3. got' = mem[len - 1] /\ len' = len - 1
          BY <1>7, <3>2 DEF Pop
        <4>4. mem[len - 1] \in Cells
          BY <1>a, <4>2
        <4>5. len - 1 \in 0..MaxLen /\ len - 1 <= len
          BY <3>2, CapAssumption DEF IInv, TypeOK
        <4>. QED
          BY <4>3, <4>4, <4>5
      <3>. QED
        BY <3>1, <3>2
    <2>2. TypeOK'
      BY <1>7, <2>1 DEF Pop, IInv, TypeOK, NoSlot, Cells
    <2>3. Inside'
      <3>1. len \in Nat /\ len' \in Nat /\ len' <= len
        BY <2>1, CapAssumption DEF IInv, TypeOK
      <3>2. \A i \in 0..(len' - 1) : i \in 0..(len - 1)
        BY <3>1, ShorterSegment
      <3>. QED
        BY <1>7, <3>2 DEF Pop, Usable, Inside
    <2>. QED
      BY <1>7, <2>2, <2>3 DEF Pop, IInv, RoomIsCap, ElementsInside, SlotIsElement
  <1>8. CASE Destroy
    <2>1. TypeOK'
      BY <1>8 DEF Destroy, IInv, TypeOK, NoSlot
    <2>. QED
      BY <1>8, <2>1 DEF Destroy, IInv, RoomIsCap, ElementsInside, SlotIsElement, Usable
  <1>9. CASE UNCHANGED vars
    BY <1>9 DEF vars, IInv, TypeOK, RoomIsCap, ElementsInside, SlotIsElement, Usable, Inside
  <1>. QED
    BY <1>1, <1>2, <1>3, <1>4, <1>5, <1>6, <1>7, <1>8, <1>9 DEF Next

LEMMA Invariance == Spec => []IInv
  BY InitInv, NextInv, PTL DEF Spec

\* Every field of a vector stays in range, for every sequence of calls
\* (vector.c:33-124, stack.c:30-66).
THEOREM TypeCorrect == Spec => []TypeOK
  <1>1. IInv => TypeOK
    BY DEF IInv
  <1>. QED
    BY <1>1, Invariance, PTL

\* No element lies behind the memory unless a growth was refused (vector.c:94).
THEOREM ElementsStayInside == Spec => []ElementsInside
  <1>1. IInv => ElementsInside
    BY DEF IInv
  <1>. QED
    BY <1>1, Invariance, PTL

\* The pointer handed out last points to an element of the current block
\* (vector.c:94).
THEOREM SlotStaysElement == Spec => []SlotIsElement
  <1>1. IInv => SlotIsElement
    BY DEF IInv
  <1>. QED
    BY <1>1, Invariance, PTL

-----------------------------------------------------------------------------
(* The refinement *)

LEMMA FunctionIsSequence ==
  ASSUME NEW S, NEW n \in Nat, NEW f \in [1..n -> S]
  PROVE  f \in Seq(S) /\ Len(f) = n
  OBVIOUS

LEMMA AppendElement ==
  ASSUME NEW S, NEW n \in Nat, NEW f \in [1..n -> S], NEW x \in S
  PROVE  Append(f, x) = [i \in 1..(n + 1) |-> IF i = n + 1 THEN x ELSE f[i]]
  <1>1. f \in Seq(S) /\ Len(f) = n
    BY FunctionIsSequence
  <1>2. Append(f, x) \in Seq(S) /\ Len(Append(f, x)) = n + 1
    BY <1>1, AppendProperties
  <1>3. ASSUME NEW i \in 1..(n + 1)
        PROVE  Append(f, x)[i] = IF i = n + 1 THEN x ELSE f[i]
    <2>1. CASE i = n + 1
      BY <1>1, <2>1, AppendProperties
    <2>2. CASE i # n + 1
      <3>1. i \in 1..n
        BY <2>2
      <3>. QED
        BY <1>1, <2>2, <3>1, AppendProperties
    <2>. QED
      BY <2>1, <2>2
  <1>4. Append(f, x) \in [1..(n + 1) -> S]
    BY <1>2, LenProperties
  <1>. QED
    BY <1>3, <1>4

LEMMA DropElement ==
  ASSUME NEW S, NEW n \in Nat \ {0}, NEW f \in [1..n -> S]
  PROVE  SubSeq(f, 1, n - 1) = [i \in 1..(n - 1) |-> f[i]]
  BY FunctionIsSequence

\* What the sequence looks like: as long as the vector is usable, len elements.
LEMMA ContentsType ==
  ASSUME IInv, Usable
  PROVE  /\ len \in Nat /\ Contents \in [1..len -> Cells] /\ Len(Contents) = len
         /\ \A i \in 1..len : Contents[i] = mem[i - 1] /\ i - 1 \in DOMAIN mem
  <1>1. PICK n \in 0..cap : mem \in [0..(n - 1) -> Cells]
    BY DEF IInv, TypeOK, Cells
  <1>2. len \in Nat
    BY DEF IInv, TypeOK
  <1>3. ASSUME NEW i \in 1..len PROVE i - 1 \in DOMAIN mem /\ mem[i - 1] \in Cells
    <2>1. i - 1 \in 0..(len - 1)
      BY <1>2
    <2>2. i - 1 \in DOMAIN mem
      BY <2>1 DEF Usable, Inside
    <2>. QED
      BY <1>1, <2>2
  <1>4. Contents = [i \in 1..len |-> mem[i - 1]]
    BY DEF Contents
  <1>5. Contents \in [1..len -> Cells]
    BY <1>3, <1>4
  <1>. QED
    BY <1>2, <1>3, <1>4, <1>5, FunctionIsSequence

LEMMA ExtendStep ==
  ASSUME IInv, IInv', Extend, NEW x \in Cells,
         mem' = Stored(Memory, len, x) \/ (mem' = Memory /\ x = Loaded(Memory, len)),
         slot' = [block |-> Block, index |-> len], got' = x
  PROVE  B!Push(x) \/ B!Lose
  <1>1. Usable /\ len \in Nat /\ len' = len + 1 /\ state' = state /\ len' - 1 = len
    BY DEF Extend, IInv, TypeOK
  <1>2. PICK n \in 0..Cap : Memory \in [0..(n - 1) -> Cells]
    BY MemoryType DEF IInv
  <1>3. DOMAIN mem' = DOMAIN Memory
    BY <1>2 DEF Stored
  <1>4. ASSUME NEW i \in DOMAIN mem, i # len PROVE i \in DOMAIN mem' /\ mem'[i] = mem[i]
    <2>1. i \in DOMAIN Memory /\ Memory[i] = mem[i]
      BY MemoryType DEF IInv
    <2>. QED
      BY <1>4, <2>1 DEF Stored
  <1>5. CASE len \in DOMAIN Memory
    <2>1. mem'[len] = x
      BY <1>5 DEF Stored, Loaded
    <2>2. Inside'
      <3>1. ASSUME NEW i \in 0..(len' - 1) PROVE i \in DOMAIN mem'
        <4>1. CASE i = len
          BY <1>3, <1>5, <4>1
        <4>2. CASE i # len
          <5>1. i \in 0..(len - 1)
            BY <1>1, <4>2
          <5>. QED
            BY <1>1, <1>4, <4>2, <5>1 DEF Usable, Inside
        <4>. QED
          BY <4>1, <4>2
      <3>. QED
        BY <3>1 DEF Inside
    <2>3. Usable'
      BY <1>1, <2>2 DEF Usable
    <2>4. Contents' = [i \in 1..(len + 1) |-> mem'[i - 1]]
      BY <1>1, <2>3 DEF Contents
    <2>5. ASSUME NEW i \in 1..(len + 1)
          PROVE  mem'[i - 1] = IF i = len + 1 THEN x ELSE Contents[i]
      <3>1. CASE i = len + 1
        BY <1>1, <2>1, <3>1
      <3>2. CASE i # len + 1
        <4>1. i \in 1..len /\ i - 1 # len
          BY <1>1, <3>2
        <4>2. Contents[i] = mem[i - 1] /\ i - 1 \in DOMAIN mem
          BY <1>1, <4>1, ContentsType
        <4>. QED
          BY <1>4, <3>2, <4>1, <4>2
      <3>. QED
        BY <3>1, <3>2
    <2>6. Contents' = Append(Contents, x)
      <3>1. Contents \in [1..len -> Cells]
        BY <1>1, ContentsType
      <3>2. Append(Contents, x) = [i \in 1..(len + 1) |-> IF i = len + 1 THEN x ELSE Contents[i]]
        BY <1>1, <3>1, AppendElement
      <3>. QED
        BY <2>4, <2>5, <3>2
    <2>7. slot' # NoSlot /\ slot'.index + 1 = Len(Contents) + 1
      <3>1. Block # 0
        BY MemoryType DEF IInv
      <3>. QED
        BY <1>1, <3>1, ContentsType DEF NoSlot
    <2>8. B!Push(x)
      BY <1>1, <2>2, <2>3, <2>6, <2>7 DEF B!Push, B!Usable, Usable
    <2>. QED
      BY <2>8
  <1>6. CASE len \notin DOMAIN Memory
    <2>1. ~Inside'
      <3>1. len \in 0..(len' - 1)
        BY <1>1
      <3>. QED
        BY <1>3, <1>6, <3>1 DEF Inside
    <2>2. state # "whole"
      BY <1>1, <2>1 DEF IInv, ElementsInside
    <2>3. B!Lose
      BY <1>1, <2>1, <2>2 DEF B!Lose, Usable, Contents
    <2>. QED
      BY <2>3
  <1>. QED
    BY <1>5, <1>6

LEMMA GetStep ==
  ASSUME IInv, NEW i \in Nat, GetRef(i)
  PROVE  \E k \in 1..(Len(Contents) + 1) : B!Get(k)
  <1>1. Usable /\ Usable' /\ Inside /\ Inside' /\ Contents' = Contents /\ state' = state
    BY DEF GetRef, Usable, Inside, Contents
  <1>2. len \in Nat /\ Len(Contents) = len
    BY <1>1, ContentsType
  <1>3. CASE i >= len
    <2>1. slot' = NoSlot /\ got' = Null
      BY <1>3 DEF GetRef
    <2>2. B!Get(len + 1)
      BY <1>1, <1>2, <2>1 DEF B!Get, B!Usable, Usable
    <2>3. len + 1 \in 1..(Len(Contents) + 1)
      BY <1>2
    <2>. QED
      BY <2>2, <2>3
  <1>4. CASE ~(i >= len)
    <2>1. slot' = [block |-> block, index |-> i] /\ got' = mem[i]
      BY <1>4 DEF GetRef
    <2>2. i + 1 \in 1..len /\ (i + 1) - 1 = i
      BY <1>2, <1>4
    <2>3. slot' # NoSlot /\ slot'.index + 1 = i + 1
      BY <2>1 DEF NoSlot, IInv, TypeOK
    <2>4. Contents[i + 1] = mem[i]
      BY <1>1, <2>2, ContentsType
    <2>5. i + 1 \in 1..Len(Contents) /\ i + 1 \in 1..(Len(Contents) + 1)
      BY <1>2, <2>2
    <2>6. B!Get(i + 1)
      BY <1>1, <2>1, <2>3, <2>4, <2>5 DEF B!Get, B!Usable, Usable
    <2>. QED
      BY <2>5, <2>6
  <1>. QED
    BY <1>3, <1>4

LEMMA PopStep ==
  ASSUME IInv, Pop
  PROVE  B!Pop
  <1>1. Usable /\ slot' = NoSlot /\ mem' = mem /\ state' = state
    BY DEF Pop
  <1>2. len \in Nat /\ Len(Contents) = len /\ Contents \in [1..len -> Cells]
    BY <1>1, ContentsType
  <1>3. CASE len = 0
    <2>1. len' = len /\ got' = Null
      BY <1>3 DEF Pop
    <2>2. Usable' /\ Inside /\ Inside' /\ Contents' = Contents
      BY <1>1, <2>1 DEF Usable, Inside, Contents
    <2>3. Contents = <<>>
      BY <1>2, <1>3
    <2>. QED
      BY <1>1, <2>1, <2>2, <2>3 DEF B!Pop, B!Usable, Usable
  <1>4. CASE len # 0
    <2>1. len' = len - 1 /\ got' = mem[len - 1]
      BY <1>4 DEF Pop
    <2>2. len \in 1..len /\ len - 1 \in Nat /\ len - 1 <= len
      BY <1>2, <1>4
    <2>3. Inside /\ Inside' /\ Usable'
      <3>1. \A i \in 0..((len - 1) - 1) : i \in 0..(len - 1)
        BY <1>2, <2>2, ShorterSegment
      <3>. QED
        BY <1>1, <2>1, <3>1 DEF Usable, Inside
    <2>4. Contents # <<>> /\ Contents[Len(Contents)] = mem[len - 1]
      BY <1>1, <1>2, <1>4, <2>2, ContentsType
    <2>5. Contents' = SubSeq(Contents, 1, Len(Contents) - 1)
      <3>1. Contents' = [i \in 1..(len - 1) |-> mem[i - 1]]
        BY <1>1, <2>1, <2>3 DEF Contents
      <3>2. SubSeq(Contents, 1, len - 1) = [i \in 1..(len - 1) |-> Contents[i]]
        BY <1>2, <1>4, DropElement
      <3>3. \A i \in 1..(len - 1) : Contents[i] = mem[i - 1]
        BY <1>1, <1>2, ContentsType
      <3>. QED
        BY <1>2, <3>1, <3>2, <3>3
    <2>. QED
      BY <1>1, <2>1, <2>3, <2>4, <2>5 DEF B!Pop, B!Usable, Usable
  <1>. QED
    BY <1>3, <1>4

LEMMA FillStep ==
  ASSUME IInv, NEW x \in Elems, Fill(x)
  PROVE  B!Write(x)
  <1>1. Usable /\ slot # NoSlot /\ slot' = slot /\ len' = len /\ got' = got /\ state' = state
    BY DEF Fill
  <1>2. slot.block = block /\ slot.index \in 0..(len - 1)
    BY <1>1 DEF IInv, SlotIsElement
  <1>3. mem' = Stored(mem, slot.index, x)
    BY <1>2 DEF Fill
  <1>4. Inside /\ Inside' /\ Usable'
    BY <1>1, <1>3 DEF Usable, Inside, Stored
  <1>5. len \in Nat /\ Contents \in [1..len -> Cells]
    BY <1>1, ContentsType
  <1>6. Contents' = [Contents EXCEPT ![slot.index + 1] = x]
    <2>1. Contents' = [i \in 1..len |-> mem'[i - 1]]
      BY <1>1, <1>4 DEF Contents
    <2>2. ASSUME NEW i \in 1..len
          PROVE  mem'[i - 1] = IF i = slot.index + 1 THEN x ELSE Contents[i]
      <3>1. Contents[i] = mem[i - 1] /\ i - 1 \in DOMAIN mem
        BY <1>1, ContentsType
      <3>2. mem'[i - 1] = IF i - 1 = slot.index THEN x ELSE mem[i - 1]
        BY <1>3, <3>1 DEF Stored
      <3>3. i - 1 = slot.index <=> i = slot.index + 1
        BY <1>2, <1>5
      <3>. QED
        BY <3>1, <3>2, <3>3
    <2>. QED
      BY <1>5, <2>1, <2>2
  <1>7. slot.index + 1 # 0
    BY <1>2
  <1>. QED
    BY <1>1, <1>4, <1>6, <1>7 DEF B!Write, B!Usable, Usable

LEMMA StepRefines ==
  ASSUME IInv, IInv', [Next]_vars
  PROVE  [B!Next]_(B!vars)
  <1>1. CASE Refuse
    <2>1. Usable /\ Inside /\ Inside' /\ Usable' /\ Contents' = Contents
      BY <1>1 DEF Refuse, Usable, Inside, Contents
    <2>2. B!Refuse
      BY <1>1, <2>1 DEF Refuse, B!Refuse, B!Usable, Usable
    <2>. QED
      BY <2>2 DEF B!Next
  <1>2. CASE AllocElem
    <2>1. Loaded(Memory, len) \in Cells
      BY MemoryType, LoadedType DEF IInv
    <2>2. \E x \in Cells : B!Push(x) \/ B!Lose
      BY <1>2, <2>1, ExtendStep DEF AllocElem
    <2>. QED
      BY <2>2 DEF B!Next, Cells
  <1>3. ASSUME NEW x \in Elems, PushBack(x) PROVE B!Next
    <2>1. x \in Cells
      BY DEF Cells
    <2>2. B!Push(x) \/ B!Lose
      BY <1>3, <2>1, ExtendStep DEF PushBack
    <2>. QED
      BY <2>1, <2>2 DEF B!Next, Cells
  <1>4. ASSUME NEW x \in Elems, Fill(x) PROVE B!Next
    BY <1>4, FillStep DEF B!Next
  <1>5. ASSUME NEW i \in Nat, GetRef(i) PROVE B!Next
    BY <1>5, GetStep DEF B!Next
  <1>6. CASE Peek
    <2>1. (IF len = 0 THEN 0 ELSE len - 1) \in Nat
      BY DEF IInv, TypeOK
    <2>. QED
      BY <1>5, <1>6, <2>1 DEF Peek
  <1>7. CASE Pop
    BY <1>7, PopStep DEF B!Next
  <1>8. CASE Destroy
    <2>1. Usable /\ Inside /\ ~Usable' /\ Contents' = <<>>
      BY <1>8 DEF Destroy, Usable, Contents
    <2>2. B!Free
      BY <1>8, <2>1 DEF Destroy, B!Free, B!Usable, Usable
    <2>. QED
      BY <2>2 DEF B!Next
  <1>9. CASE UNCHANGED vars
    BY <1>9 DEF vars, B!vars, Contents, Usable, Inside
  <1>. QED
    BY <1>1, <1>2, <1>3, <1>4, <1>5, <1>6, <1>7, <1>8, <1>9 DEF Next

\* The vector is the sequence that vector.h and stack.h promise, for any elements,
\* starting capacities and sequence of calls, until a refused growth is ignored.
THEOREM ImplementsBuffer == Spec => IsBuffer
  <1>1. Init => B!Init
    <2> SUFFICES ASSUME Init PROVE B!Init
      OBVIOUS
    <2>1. Inside /\ Usable
      BY DEF Init, Inside, Usable
    <2>2. Contents = <<>>
      BY <2>1 DEF Init, Contents
    <2>. QED
      BY <2>1, <2>2 DEF Init, B!Init
  <1>. QED
    BY <1>1, StepRefines, Invariance, PTL DEF Spec, B!Spec, IsBuffer

=============================================================================
