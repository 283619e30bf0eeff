-------------------------- MODULE CorePrintProofs --------------------------
(***************************************************************************)
(* Proofs about CorePrint, for every finite graph.  That the expressions   *)
(* in seen are distinct and are those of the running calls is inductive    *)
(* with the types; the depth of the walk follows by counting.              *)
(***************************************************************************)
EXTENDS CorePrint, FiniteSetTheorems, SequenceTheorems, TLAPS

IndInv == graph \in Graphs /\ TypeOK /\ SeenIsWay

Frame == [expr : Exprs(graph), next : Nat \ {0}]

-----------------------------------------------------------------------------
(* Sequences *)

\* The elements of an extended sequence.
LEMMA Appended ==
  ASSUME NEW S, NEW s \in Seq(S), NEW x \in S
  PROVE  /\ Append(s, x) \in Seq(S)
         /\ Len(Append(s, x)) = Len(s) + 1
         /\ DOMAIN Append(s, x) = 1..(Len(s) + 1)
         /\ \A i \in 1..Len(s) : Append(s, x)[i] = s[i]
         /\ Append(s, x)[Len(s) + 1] = x
  OBVIOUS

\* The elements of a sequence without its last one.
LEMMA Shortened ==
  ASSUME NEW S, NEW s \in Seq(S), s # <<>>
  PROVE  /\ Front(s) \in Seq(S)
         /\ Len(Front(s)) = Len(s) - 1
         /\ DOMAIN Front(s) = 1..(Len(s) - 1)
         /\ \A i \in 1..(Len(s) - 1) : Front(s)[i] = s[i]
<1> DEFINE n == Len(s) - 1
<1>1. n \in Nat /\ n \in Int /\ Len(s) = n + 1
  BY LenProperties, EmptySeq
<1>2. \A i \in 1..n : s[i] \in S
  BY <1>1, ElementOfSeq
<1> HIDE DEF n
<1>3. /\ SubSeq(s, 1, n) \in Seq(S)
      /\ Len(SubSeq(s, 1, n)) = IF 1 <= n THEN n - 1 + 1 ELSE 0
      /\ \A i \in 1..(n - 1 + 1) : SubSeq(s, 1, n)[i] = s[1 + i - 1]
  BY <1>1, <1>2, SubSeqProperties
<1>4. Len(SubSeq(s, 1, n)) = n /\ DOMAIN SubSeq(s, 1, n) = 1..n
  BY <1>1, <1>3, LenProperties
<1>5. \A i \in 1..n : SubSeq(s, 1, n)[i] = s[i]
  BY <1>1, <1>3
<1> QED
  BY <1>3, <1>4, <1>5 DEF Front, n

-----------------------------------------------------------------------------
(* The invariant *)

\* It holds when core_print is entered.
LEMMA InitInv == Init => IndInv
<1> SUFFICES ASSUME Init PROVE IndInv
  OBVIOUS
<1> USE DEF Init
<1>1. graph.root \in Exprs(graph)
  BY GraphsAssumption
<1>2. TypeOK
  BY <1>1 DEF TypeOK
<1>3. SeenIsWay
  BY DEF SeenIsWay, Callee
<1> QED
  BY <1>2, <1>3 DEF IndInv

\* An early return (core.c:93-99) only drops the call.
LEMMA LoopInv == IndInv /\ Loop => IndInv'
<1> SUFFICES ASSUME IndInv, Loop PROVE IndInv'
  OBVIOUS
<1> USE DEF IndInv, Loop
<1>1. TypeOK'
  BY DEF TypeOK, Exprs
<1>2. SeenIsWay'
  BY DEF TypeOK, SeenIsWay, Callee
<1> QED
  BY <1>1, <1>2

\* An expression that is not in seen becomes its last entry.
LEMMA OpenInv == IndInv /\ Open => IndInv'
<1> SUFFICES ASSUME IndInv, Open PROVE IndInv'
  OBVIOUS
<1> DEFINE f == [expr |-> call, next |-> 1]
           n == Len(frames)
<1>1. /\ call \in Exprs(graph) /\ call # 0 /\ call' = 0 /\ graph' = graph
      /\ seen' = Append(seen, call) /\ frames' = Append(frames, f)
      /\ \A i \in DOMAIN seen : seen[i] # call
  BY DEF IndInv, Open, OnTheWay, TypeOK, Range
<1>2. /\ seen \in Seq(Exprs(graph)) /\ frames \in Seq(Frame) /\ f \in Frame
      /\ n \in Nat /\ Len(seen) = n /\ DOMAIN seen = 1..n /\ DOMAIN frames = 1..n
  BY <1>1 DEF IndInv, TypeOK, SeenIsWay, Frame
<1>3. /\ seen' \in Seq(Exprs(graph)) /\ Len(seen') = n + 1 /\ DOMAIN seen' = 1..(n + 1)
      /\ \A i \in 1..n : seen'[i] = seen[i]
      /\ seen'[n + 1] = call
  BY <1>1, <1>2, Appended
<1>4. /\ frames' \in Seq(Frame) /\ Len(frames') = n + 1 /\ DOMAIN frames' = 1..(n + 1)
      /\ \A i \in 1..n : frames'[i] = frames[i]
      /\ frames'[n + 1] = f
  BY <1>1, <1>2, Appended
<1>5. TypeOK'
  <2>1. Len(graph.kids[call]) \in Nat
    BY <1>1, GraphsAssumption DEF IndInv
  <2>2. \A i \in DOMAIN frames' : frames'[i].next <= Len(graph.kids[frames'[i].expr]) + 1
    <3> TAKE i \in DOMAIN frames'
    <3>1. CASE i \in 1..n
      BY <3>1, <1>2, <1>4 DEF IndInv, TypeOK
    <3>2. CASE i = n + 1
      BY <3>2, <1>4, <2>1
    <3> QED
      BY <3>1, <3>2, <1>2, <1>4
  <2> QED
    BY <1>1, <1>3, <1>4, <2>2 DEF TypeOK, Frame
<1>6. SeenIsWay'
  <2>1. \A i \in DOMAIN frames' : seen'[i] = frames'[i].expr
    <3>1. \A i \in 1..n : seen[i] = frames[i].expr
      BY <1>2 DEF IndInv, SeenIsWay
    <3> QED
      BY <3>1, <1>2, <1>3, <1>4
  <2>2. \A i, j \in DOMAIN seen' : seen'[i] = seen'[j] => i = j
    <3>1. \A i, j \in 1..n : seen[i] = seen[j] => i = j
      BY <1>2 DEF IndInv, SeenIsWay
    <3> QED
      BY <3>1, <1>1, <1>2, <1>3
  <2>3. ASSUME NEW i \in DOMAIN frames', Callee(i)' # 0
        PROVE  frames'[i].next > 1 /\ graph'.kids[frames'[i].expr][frames'[i].next - 1] = Callee(i)'
    <3>1. i \in 1..n
      BY <2>3, <1>1, <1>2, <1>4 DEF Callee
    <3>2. Callee(i)' = Callee(i)
      <4>1. CASE i < n
        BY <4>1, <3>1, <1>2, <1>4 DEF Callee
      <4>2. CASE i = n
        BY <4>2, <1>2, <1>4 DEF Callee
      <4> QED
        BY <4>1, <4>2, <3>1, <1>2
    <3> QED
      BY <2>3, <3>1, <3>2, <1>1, <1>2, <1>4 DEF IndInv, SeenIsWay
  <2>4. frames'[1].expr = graph.root
    <3>1. CASE n = 0
      BY <3>1, <1>1, <1>2, <1>4 DEF IndInv, SeenIsWay
    <3>2. CASE n > 0
      BY <3>2, <1>2, <1>4 DEF IndInv, SeenIsWay
    <3> QED
      BY <3>1, <3>2, <1>2
  <2> QED
    BY <1>1, <1>3, <1>4, <2>1, <2>2, <2>3, <2>4 DEF SeenIsWay
<1> QED
  BY <1>1, <1>5, <1>6 DEF IndInv

\* The next child becomes the call of the last activation.
LEMMA ChildInv == IndInv /\ Child => IndInv'
<1> SUFFICES ASSUME IndInv, Child PROVE IndInv'
  OBVIOUS
<1> DEFINE n == Len(frames)
           t == frames[n]
<1>1. /\ graph' = graph /\ seen' = seen /\ call = 0 /\ frames # <<>>
      /\ t.next <= Len(graph.kids[t.expr])
      /\ call' = graph.kids[t.expr][t.next]
      /\ frames' = [frames EXCEPT ![n].next = @ + 1]
  BY DEF Child, Running, MoreKids, Top, Last
<1>2. /\ frames \in Seq(Frame) /\ n \in Nat \ {0} /\ DOMAIN frames = 1..n /\ t \in Frame
      /\ Len(seen) = n
  <2>1. frames \in Seq(Frame) /\ Len(seen) = n
    BY DEF IndInv, TypeOK, SeenIsWay, Frame
  <2>2. n \in Nat \ {0} /\ DOMAIN frames = 1..n
    BY <1>1, <2>1
  <2> QED
    BY <2>1, <2>2
<1>3. /\ t.expr \in Exprs(graph) /\ t.next \in Nat \ {0}
      /\ graph.kids[t.expr] \in Seq(Exprs(graph)) /\ 0 \notin Exprs(graph)
  BY <1>2, GraphsAssumption DEF IndInv, Frame
<1>4. call' \in Exprs(graph) /\ call' # 0
  BY <1>1, <1>3
<1>5. /\ frames' \in Seq(Frame) /\ Len(frames') = n /\ DOMAIN frames' = 1..n
      /\ \A i \in 1..n : frames'[i].expr = frames[i].expr
      /\ \A i \in 1..(n - 1) : frames'[i] = frames[i]
      /\ frames'[n].next = t.next + 1
  <2>1. [t EXCEPT !.next = @ + 1] \in Frame
    BY <1>2, <1>3 DEF Frame
  <2>2. frames' = [frames EXCEPT ![n] = [t EXCEPT !.next = @ + 1]]
    BY <1>1, <1>2
  <2>3. /\ frames' \in Seq(Frame) /\ Len(frames') = n /\ DOMAIN frames' = 1..n
        /\ \A i \in 1..(n - 1) : frames'[i] = frames[i]
        /\ frames'[n] = [t EXCEPT !.next = @ + 1]
    BY <2>1, <2>2, <1>2
  <2>4. frames'[n].expr = t.expr /\ frames'[n].next = t.next + 1
    BY <2>3, <1>2 DEF Frame
  <2>5. ASSUME NEW i \in 1..n PROVE frames'[i].expr = frames[i].expr
    <3>1. CASE i = n
      BY <3>1, <2>4
    <3>2. CASE i \in 1..(n - 1)
      BY <3>2, <2>3
    <3> QED
      BY <3>1, <3>2, <1>2
  <2> QED
    BY <2>3, <2>4, <2>5
<1>6. TypeOK'
  <2>1. \A i \in DOMAIN frames' : frames'[i].next <= Len(graph.kids[frames'[i].expr]) + 1
    <3> TAKE i \in DOMAIN frames'
    <3>1. CASE i \in 1..(n - 1)
      BY <3>1, <1>2, <1>5 DEF IndInv, TypeOK
    <3>2. CASE i = n
      <4>1. frames'[i].next = t.next + 1 /\ frames'[i].expr = t.expr
        BY <3>2, <1>2, <1>5
      <4>2. Len(graph.kids[t.expr]) \in Nat
        BY <1>3, LenProperties
      <4> QED
        BY <4>1, <4>2, <1>1, <1>3
    <3> QED
      BY <3>1, <3>2, <1>2, <1>5
  <2> QED
    BY <1>1, <1>4, <1>5, <2>1 DEF TypeOK, IndInv, Frame
<1>7. SeenIsWay'
  <2>1. ASSUME NEW i \in DOMAIN frames', Callee(i)' # 0
        PROVE  frames'[i].next > 1 /\ graph'.kids[frames'[i].expr][frames'[i].next - 1] = Callee(i)'
    <3>1. CASE i < n
      <4>1. Callee(i)' = Callee(i) /\ frames'[i] = frames[i] /\ i \in DOMAIN frames
        BY <3>1, <1>2, <1>5 DEF Callee
      <4> QED
        BY <2>1, <4>1, <1>1 DEF IndInv, SeenIsWay
    <3>2. CASE i = n
      <4>1. Callee(i)' = call'
        BY <3>2, <1>2, <1>5 DEF Callee
      <4>2. frames'[i].next - 1 = t.next /\ frames'[i].next > 1 /\ frames'[i].expr = t.expr
        BY <3>2, <1>2, <1>3, <1>5
      <4> QED
        BY <4>1, <4>2, <1>1
    <3> QED
      BY <3>1, <3>2, <1>2, <1>5
  <2>2. /\ \A i \in DOMAIN frames' : seen'[i] = frames'[i].expr
        /\ frames'[1].expr = graph.root
        /\ \A i, j \in DOMAIN seen' : seen'[i] = seen'[j] => i = j
    BY <1>1, <1>2, <1>5 DEF IndInv, SeenIsWay
  <2>3. frames' # <<>> /\ Len(seen') = Len(frames')
    BY <1>1, <1>2, <1>5
  <2> QED
    BY <1>1, <2>1, <2>2, <2>3 DEF SeenIsWay
<1> QED
  BY <1>1, <1>6, <1>7 DEF IndInv

\* The last activation and the last entry go together.
LEMMA CloseInv == IndInv /\ Close => IndInv'
<1> SUFFICES ASSUME IndInv, Close PROVE IndInv'
  OBVIOUS
<1> DEFINE n == Len(frames)
<1>1. /\ graph' = graph /\ call = 0 /\ call' = 0 /\ frames # <<>>
      /\ seen' = Front(seen) /\ frames' = Front(frames)
  BY DEF Close, Running, Shrunk
<1>2. /\ frames \in Seq(Frame) /\ n \in Nat \ {0} /\ DOMAIN frames = 1..n
      /\ seen \in Seq(Exprs(graph)) /\ Len(seen) = n /\ DOMAIN seen = 1..n /\ seen # <<>>
  BY <1>1 DEF IndInv, TypeOK, SeenIsWay, Frame
<1>3. /\ frames' \in Seq(Frame) /\ Len(frames') = n - 1 /\ DOMAIN frames' = 1..(n - 1)
      /\ \A i \in 1..(n - 1) : frames'[i] = frames[i]
  BY <1>1, <1>2, Shortened
<1>4. /\ seen' \in Seq(Exprs(graph)) /\ Len(seen') = n - 1 /\ DOMAIN seen' = 1..(n - 1)
      /\ \A i \in 1..(n - 1) : seen'[i] = seen[i]
  BY <1>1, <1>2, Shortened
<1>5. TypeOK'
  <2>1. \A i \in DOMAIN frames' : frames'[i].next <= Len(graph.kids[frames'[i].expr]) + 1
    <3> TAKE i \in DOMAIN frames'
    <3>1. i \in DOMAIN frames /\ frames'[i] = frames[i]
      BY <1>2, <1>3
    <3> QED
      BY <3>1, <1>1 DEF IndInv, TypeOK
  <2> QED
    BY <1>1, <1>3, <1>4, <2>1 DEF TypeOK, Frame
<1>6. SeenIsWay'
  <2>1. ASSUME NEW i \in DOMAIN frames', Callee(i)' # 0
        PROVE  frames'[i].next > 1 /\ graph'.kids[frames'[i].expr][frames'[i].next - 1] = Callee(i)'
    <3>1. i < n - 1
      BY <2>1, <1>1, <1>2, <1>3 DEF Callee
    <3>2. Callee(i)' = Callee(i) /\ frames'[i] = frames[i] /\ i \in DOMAIN frames
      BY <3>1, <1>2, <1>3 DEF Callee
    <3> QED
      BY <2>1, <3>2, <1>1 DEF IndInv, SeenIsWay
  <2>2. \A i \in DOMAIN frames' : seen'[i] = frames'[i].expr
    BY <1>2, <1>3, <1>4 DEF IndInv, SeenIsWay
  <2>3. \A i, j \in DOMAIN seen' : seen'[i] = seen'[j] => i = j
    BY <1>2, <1>4 DEF IndInv, SeenIsWay
  <2>4. frames' # <<>> => frames'[1].expr = graph.root
    <3>1. frames' # <<>> => n - 1 > 0
      BY <1>2, <1>3
    <3> QED
      BY <3>1, <1>2, <1>3 DEF IndInv, SeenIsWay
  <2> QED
    BY <1>1, <1>3, <1>4, <2>1, <2>2, <2>3, <2>4 DEF SeenIsWay
<1> QED
  BY <1>1, <1>5, <1>6 DEF IndInv

\* Every step preserves the invariant.
LEMMA NextInv == IndInv /\ [Next]_vars => IndInv'
<1>1. IndInv /\ UNCHANGED vars => IndInv'
  BY DEF IndInv, TypeOK, SeenIsWay, Callee, Exprs, vars
<1> QED
  BY <1>1, LoopInv, OpenInv, ChildInv, CloseInv DEF Next

-----------------------------------------------------------------------------
(* Theorems *)

\* Every state of core_print satisfies the invariant.
THEOREM Invariant == Spec => []IndInv
  BY InitInv, NextInv, PTL DEF Spec

\* core_print_indent (core.c:81-203) is only called with expressions of the graph, and
\* seen holds nothing else.
THEOREM TypeCorrect == Spec => []TypeOK
<1>1. IndInv => TypeOK
  BY DEF IndInv
<1> QED
  BY <1>1, Invariant, PTL

\* seen is at all times the way from the root to the running call, without
\* repetition, so an early return happens exactly at a cycle (core.c:90-100).
THEOREM SeenStaysWay == Spec => []SeenIsWay
<1>1. IndInv => SeenIsWay
  BY DEF IndInv
<1> QED
  BY <1>1, Invariant, PTL

\* Distinct expressions of a finite graph cannot be more than it has.
LEMMA Depth == IndInv => DepthBounded
<1> SUFFICES ASSUME IndInv PROVE DepthBounded
  OBVIOUS
<1> DEFINE n == Len(frames)
<1>1. /\ n \in Nat /\ DOMAIN seen = 1..n /\ seen \in [1..n -> Exprs(graph)]
      /\ \A i, j \in 1..n : seen[i] = seen[j] => i = j
  BY DEF IndInv, TypeOK, SeenIsWay
<1>2. IsFiniteSet(Exprs(graph))
  BY GraphsAssumption DEF IndInv
<1>3. Cardinality(1..n) = n
  <2>1. Cardinality(1..n) = IF 1 > n THEN 0 ELSE n - 1 + 1
    BY <1>1, FS_Interval
  <2> QED
    BY <1>1, <2>1
<1>4. seen \in Injection(1..n, Exprs(graph))
  BY <1>1 DEF Injection, IsInjective
<1>5. Cardinality(1..n) <= Cardinality(Exprs(graph))
  BY <1>2, <1>4, FS_Injection
<1> QED
  BY <1>3, <1>5 DEF DepthBounded

\* core_print nests no deeper than the graph has expressions, however they are tied
\* together: the stack of core_print_indent (core.c:81) is bounded by the program.
THEOREM DepthStaysBounded == Spec => []DepthBounded
  BY Depth, Invariant, PTL

=============================================================================
