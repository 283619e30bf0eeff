--------------------------- MODULE CoregenProofs ---------------------------
(***************************************************************************)
(* Proofs about Coregen, for every program.  The inductive invariant says  *)
(* who owns each expression and each scope: the one place from which it    *)
(* will be destroyed.  A place is a child, a name of a scope, the scope of *)
(* a lambda's parameters, the scope above env, or a task.                  *)
(***************************************************************************)
EXTENDS Coregen, SequenceTheorems, WellFoundedInduction, TLAPS

-----------------------------------------------------------------------------
(* The types *)

Forms == {"UNSET", "NO_FORM", "PLACEHOLDER", "CONSTRUCTOR", "INDIR", "INTRINSIC",
          "APPL", "LAMBDA", "LITERAL", "COND"}

Exprs == [form : Forms, name : Texts, kids : Seq(Nat), target : Nat, args : Nat, at : Seq(Nat)]

Dicts == UNION {[names -> Nat] : names \in SUBSET Texts}
Scopes == [upper : Nat, dict : Dicts]

\* tasks that hold a scope or an expression, and tasks that hold nothing
Destroying == [fn : {"env"}, e : Nat, left : SUBSET Texts] \cup [fn : {"core"}, x : Nat, next : Nat]
Holding == Destroying \cup [fn : {"client", "endlet"}, e : Nat]
Generating == [fn : {"populate", "generate"}, node : Nodes, e : Nat, at : Seq(Nat)]
              \cup [fn : {"param"}, e : Nat, name : Texts, at : Seq(Nat)]
              \cup [fn : {"gen", "child"}, x : Nat, node : Nodes, e : Nat, at : Seq(Nat)]
Tasks == Holding \cup Generating

Memory == [exprs : Seq(Exprs), scopes : Seq(Scopes), frees : Seq({"expr", "scope"} \X Nat),
           todo : Seq(Tasks), failed : BOOLEAN]

-----------------------------------------------------------------------------
(* The owners *)

Freed(m, kind, o) == <<kind, o>> \in ToSet(m.frees)

KidPlace(m, x, i) ==
  /\ x \in DOMAIN m.exprs /\ ~Freed(m, "expr", x) /\ i \in DOMAIN m.exprs[x].kids
  /\ \A d \in DOMAIN m.todo : m.todo[d].fn = "core" /\ m.todo[d].x = x => m.todo[d].next <= i
KeyPlace(m, e, n) ==
  /\ e \in DOMAIN m.scopes /\ n \in DOMAIN m.scopes[e].dict
  /\ \A d \in DOMAIN m.todo : m.todo[d].fn = "env" /\ m.todo[d].e = e => n \in m.todo[d].left
CorePlace(m, d) == d \in DOMAIN m.todo /\ m.todo[d].fn = "core"

ArgsPlace(m, x) ==
  /\ x \in DOMAIN m.exprs /\ ~Freed(m, "expr", x) /\ m.exprs[x].form = "LAMBDA"
  /\ \A d \in DOMAIN m.todo :
       m.todo[d].fn = "core" /\ m.todo[d].x = x => m.todo[d].next <= Len(m.exprs[x].kids) + 1
UpperPlace(m) == m.scopes[Global].upper # 0
EnvPlace(m, d) == d \in DOMAIN m.todo /\ m.todo[d].fn \in {"client", "endlet", "env"}

\* the places that own an expression, those that own a scope, and what they own
ExprPlaces(m) ==
  {p \in {"kid"} \X Nat \X Nat : KidPlace(m, p[2], p[3])}
  \cup {p \in {"key"} \X Nat \X Texts : KeyPlace(m, p[2], p[3])}
  \cup {p \in {"task"} \X Nat \X {0} : CorePlace(m, p[2])}
ScopePlaces(m) ==
  {p \in {"args"} \X Nat : ArgsPlace(m, p[2])}
  \cup {p \in {"upper"} \X {Global} : UpperPlace(m)}
  \cup {p \in {"task"} \X Nat : EnvPlace(m, p[2])}

ExprAtPlace(m, p) ==
  IF p[1] = "kid" THEN m.exprs[p[2]].kids[p[3]]
  ELSE IF p[1] = "key" THEN m.scopes[p[2]].dict[p[3]]
  ELSE m.todo[p[2]].x
ScopeAtPlace(m, p) ==
  IF p[1] = "args" THEN m.exprs[p[2]].args
  ELSE IF p[1] = "upper" THEN m.scopes[p[2]].upper
  ELSE m.todo[p[2]].e

\* nothing has two owners, and nothing that has one has been freed
ExprsOwned(m) ==
  /\ \A p, q \in ExprPlaces(m) : ExprAtPlace(m, p) = ExprAtPlace(m, q) => p = q
  /\ \A p \in ExprPlaces(m) : ~Freed(m, "expr", ExprAtPlace(m, p))
ScopesOwned(m) ==
  /\ \A p, q \in ScopePlaces(m) : ScopeAtPlace(m, p) = ScopeAtPlace(m, q) => p = q
  /\ \A p \in ScopePlaces(m) : ~Freed(m, "scope", ScopeAtPlace(m, p))

\* what is destroyed is above what is generated on the stack, and only env is
\* destroyed with the scope above it
Ordered(m) ==
  \A c, d \in DOMAIN m.todo : c < d /\ m.todo[c].fn \in {"core", "env"} => m.todo[d].fn \in {"core", "env"}
Uppers(m) ==
  /\ Len(m.scopes) >= 2 /\ m.scopes[Global].upper \in {0, Intrinsic}
  /\ \A d \in DOMAIN m.todo :
       m.todo[d].fn = "env" =>
         /\ m.todo[d].left \subseteq DOMAIN m.scopes[m.todo[d].e].dict
         /\ m.todo[d].e # Global => m.scopes[m.todo[d].e].upper = 0

Good(m) ==
  /\ m \in Memory /\ InOnePiece(m) /\ IsInjective(m.frees)
  /\ ExprsOwned(m) /\ ScopesOwned(m) /\ Ordered(m) /\ Uppers(m)

\* what is to be done, by how far the client has come
Tasked ==
  /\ phase \in {"ready", "generated", "printing", "printed"} => mem.todo = <<Client>>
  /\ phase = "generating" =>
       Len(mem.todo) > 1 /\ mem.todo[1] = Client /\ \A d \in 2..Len(mem.todo) : mem.todo[d].fn # "client"
  /\ phase = "destroying" =>
       mem.todo # <<>> /\ \A d \in DOMAIN mem.todo : mem.todo[d].fn # "client"

IndInv == ast \in Programs /\ phase \in Phases /\ Good(mem) /\ Tasked

-----------------------------------------------------------------------------
(* Sequences *)

\* The elements of an extended sequence.
LEMMA Appended ==
  ASSUME NEW S, NEW s \in Seq(S), NEW x \in S
  PROVE  /\ Append(s, x) \in Seq(S) /\ Len(Append(s, x)) = Len(s) + 1
         /\ DOMAIN Append(s, x) = 1..(Len(s) + 1)
         /\ \A i \in 1..Len(s) : Append(s, x)[i] = s[i]
         /\ Append(s, x)[Len(s) + 1] = x
  OBVIOUS

\* The elements of a sequence without its last one.
LEMMA Shortened ==
  ASSUME NEW S, NEW s \in Seq(S), s # <<>>
  PROVE  /\ Front(s) \in Seq(S) /\ Len(Front(s)) = Len(s) - 1
         /\ DOMAIN Front(s) = 1..(Len(s) - 1)
         /\ \A i \in 1..(Len(s) - 1) : Front(s)[i] = s[i]
         /\ Last(s) \in S /\ Last(s) = s[Len(s)] /\ Len(s) \in Nat \ {0}
<1> DEFINE n == Len(s) - 1
<1>1. n \in Nat /\ n \in Int /\ Len(s) = n + 1
  BY LenProperties, EmptySeq
<1>2. \A i \in 1..n : s[i] \in S
  BY <1>1, ElementOfSeq
<1>3. Last(s) \in S /\ Last(s) = s[Len(s)]
  BY <1>1, ElementOfSeq DEF Last
<1> HIDE DEF n
<1>4. /\ SubSeq(s, 1, n) \in Seq(S)
      /\ Len(SubSeq(s, 1, n)) = IF 1 <= n THEN n - 1 + 1 ELSE 0
      /\ \A i \in 1..(n - 1 + 1) : SubSeq(s, 1, n)[i] = s[1 + i - 1]
  BY <1>1, <1>2, SubSeqProperties
<1>5. Len(SubSeq(s, 1, n)) = n /\ DOMAIN SubSeq(s, 1, n) = 1..n
  BY <1>1, <1>4, LenProperties
<1>6. \A i \in 1..n : SubSeq(s, 1, n)[i] = s[i]
  BY <1>1, <1>4
<1> QED
  BY <1>1, <1>3, <1>4, <1>5, <1>6 DEF Front, n

\* The elements of a reversed sequence.
LEMMA Reversed ==
  ASSUME NEW S, NEW s \in Seq(S)
  PROVE  /\ Reverse(s) \in Seq(S) /\ Len(Reverse(s)) = Len(s)
         /\ \A i \in 1..Len(s) : Reverse(s)[i] = s[(Len(s) - i) + 1] /\ (Len(s) - i) + 1 \in 1..Len(s)
<1>1. Len(s) \in Nat
  BY LenProperties
<1>2. \A i \in 1..Len(s) : (Len(s) - i) + 1 \in 1..Len(s) /\ s[(Len(s) - i) + 1] \in S
  BY <1>1, ElementOfSeq
<1> DEFINE r == [i \in 1..Len(s) |-> s[(Len(s) - i) + 1]]
<1>3. Reverse(s) = r
  BY DEF Reverse
<1>4. r \in Seq(S)
  BY <1>1, <1>2, SeqDef
<1>5. Len(r) = Len(s)
  BY <1>1, <1>4, LenProperties
<1> QED
  BY <1>2, <1>3, <1>4, <1>5

Stacked(s, t) == s \o Reverse(t)

\* The elements of a sequence with a reversed one behind it.
LEMMA StackedSeq ==
  ASSUME NEW S, NEW s \in Seq(S), NEW t \in Seq(S)
  PROVE  /\ Stacked(s, t) \in Seq(S) /\ Len(s) \in Nat /\ Len(t) \in Nat
         /\ Len(Stacked(s, t)) = Len(s) + Len(t) /\ DOMAIN Stacked(s, t) = 1..(Len(s) + Len(t))
         /\ \A d \in 1..Len(s) : Stacked(s, t)[d] = s[d]
         /\ \A d \in (Len(s) + 1)..(Len(s) + Len(t)) :
              /\ Stacked(s, t)[d] = t[Len(s) + Len(t) + 1 - d]
              /\ Len(s) + Len(t) + 1 - d \in 1..Len(t)
<1>1. PICK r : r = Reverse(t)
  OBVIOUS
<1>2. /\ r \in Seq(S) /\ Len(r) = Len(t)
      /\ \A i \in 1..Len(t) : r[i] = t[(Len(t) - i) + 1] /\ (Len(t) - i) + 1 \in 1..Len(t)
  BY <1>1, Reversed
<1>3. Len(s) \in Nat /\ Len(t) \in Nat
  BY LenProperties
<1>4. /\ s \o r \in Seq(S) /\ Len(s \o r) = Len(s) + Len(r)
      /\ \A i \in 1..(Len(s) + Len(r)) : (s \o r)[i] = IF i <= Len(s) THEN s[i] ELSE r[i - Len(s)]
  <2>1. Len(s \o r) = Len(s) + Len(r)
    BY <1>2, ConcatProperties, ZenonT(20)
  <2>2. s \o r \in Seq(S)
    BY <1>2, ConcatProperties, ZenonT(20)
  <2>3. \A i \in 1..(Len(s) + Len(r)) : (s \o r)[i] = IF i <= Len(s) THEN s[i] ELSE r[i - Len(s)]
    BY <1>2, ConcatProperties, ZenonT(20)
  <2> QED
    BY <2>1, <2>2, <2>3
<1>5. DOMAIN (s \o r) = 1..(Len(s) + Len(t))
  BY <1>2, <1>4, LenProperties
<1>6. \A d \in 1..Len(s) : (s \o r)[d] = s[d]
  BY <1>2, <1>3, <1>4
<1>7. ASSUME NEW d \in (Len(s) + 1)..(Len(s) + Len(t))
      PROVE  /\ (s \o r)[d] = t[Len(s) + Len(t) + 1 - d]
             /\ Len(s) + Len(t) + 1 - d \in 1..Len(t)
  <2>1. d - Len(s) \in 1..Len(t) /\ (Len(t) - (d - Len(s))) + 1 = Len(s) + Len(t) + 1 - d
    BY <1>3
  <2>2. (s \o r)[d] = r[d - Len(s)]
    BY <1>2, <1>3, <1>4
  <2> QED
    BY <1>2, <2>1, <2>2
<1> QED
  BY <1>1, <1>2, <1>3, <1>4, <1>5, <1>6, <1>7 DEF Stacked

-----------------------------------------------------------------------------
(* The stack of tasks *)

\* The stack without its next task; the rest of the memory is as it was.
LEMMA Popped ==
  ASSUME NEW m \in Memory, m.todo # <<>>
  PROVE  /\ Pop(m) \in Memory
         /\ Pop(m).exprs = m.exprs /\ Pop(m).scopes = m.scopes /\ Pop(m).frees = m.frees
         /\ Pop(m).failed = m.failed
         /\ DOMAIN Pop(m).todo = 1..(Len(m.todo) - 1) /\ Len(Pop(m).todo) = Len(m.todo) - 1
         /\ \A d \in 1..(Len(m.todo) - 1) : Pop(m).todo[d] = m.todo[d]
         /\ Last(m.todo) = m.todo[Len(m.todo)] /\ Last(m.todo) \in Tasks
         /\ Len(m.todo) \in Nat \ {0}
<1>1. m.todo \in Seq(Tasks)
  BY DEF Memory
<1> QED
  BY <1>1, Shortened DEF Memory, Pop

\* The stack with tasks on it, the first one last.
LEMMA Pushed ==
  ASSUME NEW m \in Memory, NEW tasks \in Seq(Tasks)
  PROVE  /\ Push(m, tasks) \in Memory
         /\ Push(m, tasks).exprs = m.exprs /\ Push(m, tasks).scopes = m.scopes
         /\ Push(m, tasks).frees = m.frees /\ Push(m, tasks).failed = m.failed
         /\ Len(m.todo) \in Nat /\ Len(tasks) \in Nat
         /\ DOMAIN Push(m, tasks).todo = 1..(Len(m.todo) + Len(tasks))
         /\ Len(Push(m, tasks).todo) = Len(m.todo) + Len(tasks)
         /\ \A d \in 1..Len(m.todo) : Push(m, tasks).todo[d] = m.todo[d]
         /\ \A d \in (Len(m.todo) + 1)..(Len(m.todo) + Len(tasks)) :
              /\ Push(m, tasks).todo[d] = tasks[Len(m.todo) + Len(tasks) + 1 - d]
              /\ Len(m.todo) + Len(tasks) + 1 - d \in 1..Len(tasks)
<1>1. ASSUME NEW s \in Seq(Tasks)
      PROVE  /\ Stacked(s, tasks) \in Seq(Tasks) /\ Len(s) \in Nat /\ Len(tasks) \in Nat
             /\ Len(Stacked(s, tasks)) = Len(s) + Len(tasks)
             /\ DOMAIN Stacked(s, tasks) = 1..(Len(s) + Len(tasks))
             /\ \A d \in 1..Len(s) : Stacked(s, tasks)[d] = s[d]
             /\ \A d \in (Len(s) + 1)..(Len(s) + Len(tasks)) :
                  /\ Stacked(s, tasks)[d] = tasks[Len(s) + Len(tasks) + 1 - d]
                  /\ Len(s) + Len(tasks) + 1 - d \in 1..Len(tasks)
  BY StackedSeq
<1>2. m.todo \in Seq(Tasks)
  BY DEF Memory
<1>3. /\ Stacked(m.todo, tasks) \in Seq(Tasks) /\ Len(m.todo) \in Nat /\ Len(tasks) \in Nat
      /\ Len(Stacked(m.todo, tasks)) = Len(m.todo) + Len(tasks)
      /\ DOMAIN Stacked(m.todo, tasks) = 1..(Len(m.todo) + Len(tasks))
      /\ \A d \in 1..Len(m.todo) : Stacked(m.todo, tasks)[d] = m.todo[d]
      /\ \A d \in (Len(m.todo) + 1)..(Len(m.todo) + Len(tasks)) :
           /\ Stacked(m.todo, tasks)[d] = tasks[Len(m.todo) + Len(tasks) + 1 - d]
           /\ Len(m.todo) + Len(tasks) + 1 - d \in 1..Len(tasks)
  BY <1>1, <1>2
<1>4. Push(m, tasks) = [m EXCEPT !.todo = Stacked(m.todo, tasks)]
  BY DEF Push, Stacked
<1>5. /\ Push(m, tasks) \in Memory /\ Push(m, tasks).todo = Stacked(m.todo, tasks)
      /\ Push(m, tasks).exprs = m.exprs /\ Push(m, tasks).scopes = m.scopes
      /\ Push(m, tasks).frees = m.frees /\ Push(m, tasks).failed = m.failed
  BY <1>3, <1>4 DEF Memory
<1> QED
  BY <1>3, <1>5

-----------------------------------------------------------------------------
(* The owners *)

\* What the places of expressions are and what they own.
LEMMA ExprPlace ==
  ASSUME NEW m, NEW p
  PROVE  p \in ExprPlaces(m) <=>
           \/ \E x, i \in Nat : /\ p = <<"kid", x, i>> /\ KidPlace(m, x, i)
                                /\ ExprAtPlace(m, p) = m.exprs[x].kids[i]
           \/ \E e \in Nat, n \in Texts : /\ p = <<"key", e, n>> /\ KeyPlace(m, e, n)
                                          /\ ExprAtPlace(m, p) = m.scopes[e].dict[n]
           \/ \E d \in Nat : /\ p = <<"task", d, 0>> /\ CorePlace(m, d)
                             /\ ExprAtPlace(m, p) = m.todo[d].x
BY DEF ExprPlaces, ExprAtPlace

\* What the places of scopes are and what they own.
LEMMA ScopePlace ==
  ASSUME NEW m, NEW p
  PROVE  p \in ScopePlaces(m) <=>
           \/ \E x \in Nat : p = <<"args", x>> /\ ArgsPlace(m, x) /\ ScopeAtPlace(m, p) = m.exprs[x].args
           \/ p = <<"upper", Global>> /\ UpperPlace(m) /\ ScopeAtPlace(m, p) = m.scopes[Global].upper
           \/ \E d \in Nat : p = <<"task", d>> /\ EnvPlace(m, d) /\ ScopeAtPlace(m, p) = m.todo[d].e
BY DEF ScopePlaces, ScopeAtPlace, Global

\* From m to n at most the place p is new, and what it owns is owned by no other
\* place.
ExprsMove(m, n, p) ==
  /\ \A x, i \in Nat : KidPlace(n, x, i) /\ <<"kid", x, i>> # p =>
       KidPlace(m, x, i) /\ n.exprs[x].kids[i] = m.exprs[x].kids[i]
  /\ \A e \in Nat, k \in Texts : KeyPlace(n, e, k) /\ <<"key", e, k>> # p =>
       KeyPlace(m, e, k) /\ n.scopes[e].dict[k] = m.scopes[e].dict[k]
  /\ \A d \in Nat : CorePlace(n, d) /\ <<"task", d, 0>> # p =>
       CorePlace(m, d) /\ n.todo[d].x = m.todo[d].x
  /\ \A q \in ExprPlaces(m) \ {p} : q \in ExprPlaces(n) =>
       /\ p \in ExprPlaces(n) => ExprAtPlace(m, q) # ExprAtPlace(n, p)
       /\ Freed(n, "expr", ExprAtPlace(m, q)) => Freed(m, "expr", ExprAtPlace(m, q))
  /\ p \in ExprPlaces(n) => ~Freed(n, "expr", ExprAtPlace(n, p))
ScopesMove(m, n, p) ==
  /\ \A x \in Nat : ArgsPlace(n, x) /\ <<"args", x>> # p =>
       ArgsPlace(m, x) /\ n.exprs[x].args = m.exprs[x].args
  /\ UpperPlace(n) /\ <<"upper", Global>> # p =>
       UpperPlace(m) /\ n.scopes[Global].upper = m.scopes[Global].upper
  /\ \A d \in Nat : EnvPlace(n, d) /\ <<"task", d>> # p =>
       EnvPlace(m, d) /\ n.todo[d].e = m.todo[d].e
  /\ \A q \in ScopePlaces(m) \ {p} : q \in ScopePlaces(n) =>
       /\ p \in ScopePlaces(n) => ScopeAtPlace(m, q) # ScopeAtPlace(n, p)
       /\ Freed(n, "scope", ScopeAtPlace(m, q)) => Freed(m, "scope", ScopeAtPlace(m, q))
  /\ p \in ScopePlaces(n) => ~Freed(n, "scope", ScopeAtPlace(n, p))

\* Then the expressions keep having one owner.
LEMMA ExprsMoved ==
  ASSUME NEW m, NEW n, NEW p, ExprsOwned(m), ExprsMove(m, n, p)
  PROVE  ExprsOwned(n)
<1> USE DEF ExprsMove
<1>1. \A q \in ExprPlaces(n) \ {p} : q \in ExprPlaces(m) /\ ExprAtPlace(n, q) = ExprAtPlace(m, q)
  <2> TAKE q \in ExprPlaces(n) \ {p}
  <2>1. ASSUME NEW x \in Nat, NEW i \in Nat, q = <<"kid", x, i>>, KidPlace(n, x, i)
        PROVE  q \in ExprPlaces(m) /\ ExprAtPlace(n, q) = ExprAtPlace(m, q)
    <3>1. KidPlace(m, x, i) /\ n.exprs[x].kids[i] = m.exprs[x].kids[i]
      BY <2>1
    <3>2. q \in ExprPlaces(m)
      BY <2>1, <3>1 DEF ExprPlaces
    <3> QED
      BY <2>1, <3>1, <3>2 DEF ExprAtPlace
  <2>2. ASSUME NEW e \in Nat, NEW k \in Texts, q = <<"key", e, k>>, KeyPlace(n, e, k)
        PROVE  q \in ExprPlaces(m) /\ ExprAtPlace(n, q) = ExprAtPlace(m, q)
    BY <2>2 DEF ExprPlaces, ExprAtPlace
  <2>3. ASSUME NEW d \in Nat, q = <<"task", d, 0>>, CorePlace(n, d)
        PROVE  q \in ExprPlaces(m) /\ ExprAtPlace(n, q) = ExprAtPlace(m, q)
    BY <2>3 DEF ExprPlaces, ExprAtPlace
  <2> QED
    BY <2>1, <2>2, <2>3, ExprPlace
<1>2. \A q \in ExprPlaces(n) : ~Freed(n, "expr", ExprAtPlace(n, q))
  BY <1>1 DEF ExprsOwned
<1>3. \A q, r \in ExprPlaces(n) : ExprAtPlace(n, q) = ExprAtPlace(n, r) => q = r
  BY <1>1 DEF ExprsOwned
<1> QED
  BY <1>2, <1>3 DEF ExprsOwned

\* So do the scopes.
LEMMA ScopesMoved ==
  ASSUME NEW m, NEW n, NEW p, ScopesOwned(m), ScopesMove(m, n, p)
  PROVE  ScopesOwned(n)
<1> USE DEF ScopesMove
<1>1. \A q \in ScopePlaces(n) \ {p} : q \in ScopePlaces(m) /\ ScopeAtPlace(n, q) = ScopeAtPlace(m, q)
  <2> TAKE q \in ScopePlaces(n) \ {p}
  <2>1. ASSUME NEW x \in Nat, q = <<"args", x>>, ArgsPlace(n, x)
        PROVE  q \in ScopePlaces(m) /\ ScopeAtPlace(n, q) = ScopeAtPlace(m, q)
    BY <2>1 DEF ScopePlaces, ScopeAtPlace
  <2>2. ASSUME q = <<"upper", Global>>, UpperPlace(n)
        PROVE  q \in ScopePlaces(m) /\ ScopeAtPlace(n, q) = ScopeAtPlace(m, q)
    BY <2>2 DEF ScopePlaces, ScopeAtPlace
  <2>3. ASSUME NEW d \in Nat, q = <<"task", d>>, EnvPlace(n, d)
        PROVE  q \in ScopePlaces(m) /\ ScopeAtPlace(n, q) = ScopeAtPlace(m, q)
    BY <2>3 DEF ScopePlaces, ScopeAtPlace
  <2> QED
    BY <2>1, <2>2, <2>3, ScopePlace
<1>2. \A q \in ScopePlaces(n) : ~Freed(n, "scope", ScopeAtPlace(n, q))
  BY <1>1 DEF ScopesOwned
<1>3. \A q, r \in ScopePlaces(n) : ScopeAtPlace(n, q) = ScopeAtPlace(n, r) => q = r
  BY <1>1 DEF ScopesOwned
<1> QED
  BY <1>2, <1>3 DEF ScopesOwned

\* What has an owner exists.
LEMMA OwnedExist ==
  ASSUME NEW m \in Memory, InOnePiece(m), Uppers(m)
  PROVE  /\ \A p \in ExprPlaces(m) : ExprAtPlace(m, p) \in DOMAIN m.exprs
         /\ \A p \in ScopePlaces(m) : ScopeAtPlace(m, p) \in DOMAIN m.scopes
<1>1. \A x, i \in Nat : KidPlace(m, x, i) => m.exprs[x].kids[i] \in DOMAIN m.exprs
  BY DEF KidPlace, InOnePiece, ToSet
<1>2. \A e \in Nat, n \in Texts : KeyPlace(m, e, n) => m.scopes[e].dict[n] \in DOMAIN m.exprs
  BY DEF KeyPlace, InOnePiece
<1>3. \A d \in Nat : CorePlace(m, d) => m.todo[d].x \in DOMAIN m.exprs
  BY DEF CorePlace, InOnePiece
<1>4. \A x \in Nat : ArgsPlace(m, x) => m.exprs[x].args \in DOMAIN m.scopes
  BY DEF ArgsPlace, InOnePiece
<1>5. UpperPlace(m) => m.scopes[Global].upper \in DOMAIN m.scopes
  <2>1. m.scopes \in Seq(Scopes)
    BY DEF Memory
  <2>2. DOMAIN m.scopes = 1..Len(m.scopes) /\ Len(m.scopes) \in Nat
    BY <2>1, LenProperties
  <2> QED
    BY <2>2 DEF UpperPlace, Uppers, Intrinsic
<1>6. \A d \in Nat : EnvPlace(m, d) => m.todo[d].e \in DOMAIN m.scopes
  BY DEF EnvPlace, InOnePiece
<1> QED
  BY <1>1, <1>2, <1>3, <1>4, <1>5, <1>6, ExprPlace, ScopePlace

\* There is no place like this one.
LEMMA NoPlace ==
  ASSUME NEW m
  PROVE  <<"none">> \notin ExprPlaces(m) /\ <<"none">> \notin ScopePlaces(m)
BY DEF ExprPlaces, ScopePlaces

\* The places that are kept, when there is no new one.
LEMMA ExprsKept ==
  ASSUME NEW m, NEW n, ExprsOwned(m),
         \A x, i \in Nat : KidPlace(n, x, i) => KidPlace(m, x, i) /\ n.exprs[x].kids[i] = m.exprs[x].kids[i],
         \A e \in Nat, k \in Texts : KeyPlace(n, e, k) =>
            KeyPlace(m, e, k) /\ n.scopes[e].dict[k] = m.scopes[e].dict[k],
         \A d \in Nat : CorePlace(n, d) => CorePlace(m, d) /\ n.todo[d].x = m.todo[d].x,
         \A q \in ExprPlaces(m) :
            q \in ExprPlaces(n) /\ Freed(n, "expr", ExprAtPlace(m, q)) => Freed(m, "expr", ExprAtPlace(m, q))
  PROVE  ExprsOwned(n)
<1>1. ExprsMove(m, n, <<"none">>)
  BY NoPlace DEF ExprsMove
<1> QED
  BY <1>1, ExprsMoved

\* So for scopes.
LEMMA ScopesKept ==
  ASSUME NEW m, NEW n, ScopesOwned(m),
         \A x \in Nat : ArgsPlace(n, x) => ArgsPlace(m, x) /\ n.exprs[x].args = m.exprs[x].args,
         UpperPlace(n) => UpperPlace(m) /\ n.scopes[Global].upper = m.scopes[Global].upper,
         \A d \in Nat : EnvPlace(n, d) => EnvPlace(m, d) /\ n.todo[d].e = m.todo[d].e,
         \A q \in ScopePlaces(m) :
            q \in ScopePlaces(n) /\ Freed(n, "scope", ScopeAtPlace(m, q)) => Freed(m, "scope", ScopeAtPlace(m, q))
  PROVE  ScopesOwned(n)
<1>1. ScopesMove(m, n, <<"none">>)
  BY NoPlace DEF ScopesMove
<1> QED
  BY <1>1, ScopesMoved

-----------------------------------------------------------------------------
(* The memory after the operators that generate *)

\* A new expression.
LEMMA NewMemory ==
  ASSUME NEW m \in Memory, NEW o \in Exprs
  PROVE  /\ New(m, o) \in Memory
         /\ New(m, o).scopes = m.scopes /\ New(m, o).frees = m.frees
         /\ New(m, o).todo = m.todo /\ New(m, o).failed = m.failed
         /\ Newest(m) + 1 \in Nat \ DOMAIN m.exprs
         /\ DOMAIN New(m, o).exprs = DOMAIN m.exprs \cup {Newest(m) + 1}
         /\ New(m, o).exprs[Newest(m) + 1] = o
         /\ \A z \in DOMAIN m.exprs : New(m, o).exprs[z] = m.exprs[z]
<1>1. ASSUME NEW s \in Seq(Exprs)
      PROVE  /\ Append(s, o) \in Seq(Exprs) /\ Len(s) + 1 \in Nat \ DOMAIN s
             /\ DOMAIN Append(s, o) = DOMAIN s \cup {Len(s) + 1}
             /\ Append(s, o)[Len(s) + 1] = o
             /\ \A z \in DOMAIN s : Append(s, o)[z] = s[z]
  <2>1. Len(s) \in Nat /\ DOMAIN s = 1..Len(s)
    BY LenProperties
  <2>2. Append(s, o) \in Seq(Exprs) /\ Append(s, o)[Len(s) + 1] = o
        /\ DOMAIN Append(s, o) = 1..(Len(s) + 1) /\ \A z \in 1..Len(s) : Append(s, o)[z] = s[z]
    BY Appended
  <2> QED
    BY <2>1, <2>2
<1>2. m.exprs \in Seq(Exprs)
  BY DEF Memory
<1>3. /\ Append(m.exprs, o) \in Seq(Exprs) /\ Len(m.exprs) + 1 \in Nat \ DOMAIN m.exprs
      /\ DOMAIN Append(m.exprs, o) = DOMAIN m.exprs \cup {Len(m.exprs) + 1}
      /\ Append(m.exprs, o)[Len(m.exprs) + 1] = o
      /\ \A z \in DOMAIN m.exprs : Append(m.exprs, o)[z] = m.exprs[z]
  BY <1>1, <1>2
<1>4. New(m, o) = [m EXCEPT !.exprs = Append(m.exprs, o)]
  BY DEF New
<1> QED
  BY <1>3, <1>4 DEF Memory, Newest

\* An expression is changed.
LEMMA ChangedMemory ==
  ASSUME NEW m \in Memory, NEW x \in DOMAIN m.exprs, NEW o \in Exprs,
         NEW n, n = [m EXCEPT !.exprs[x] = o]
  PROVE  /\ n \in Memory
         /\ n.scopes = m.scopes /\ n.frees = m.frees /\ n.todo = m.todo /\ n.failed = m.failed
         /\ DOMAIN n.exprs = DOMAIN m.exprs /\ n.exprs[x] = o
         /\ \A z \in DOMAIN m.exprs : z # x => n.exprs[z] = m.exprs[z]
<1>1. m.exprs \in Seq(Exprs)
  BY DEF Memory
<1>2. x \in 1..Len(m.exprs)
  BY <1>1, LenProperties
<1>3. [m.exprs EXCEPT ![x] = o] \in Seq(Exprs)
  BY <1>1, <1>2, ExceptSeq
<1>4. n = [m EXCEPT !.exprs = [m.exprs EXCEPT ![x] = o]]
  OBVIOUS
<1> QED
  BY <1>3, <1>4 DEF Memory

\* A new expression below x.
LEMMA NewChildMemory ==
  ASSUME NEW m \in Memory, NEW x \in DOMAIN m.exprs, NEW o \in Exprs,
         NEW y, y = Newest(m) + 1, NEW n, n = NewChild(m, x, o)
  PROVE  /\ n \in Memory
         /\ n.scopes = m.scopes /\ n.frees = m.frees /\ n.todo = m.todo /\ n.failed = m.failed
         /\ y \in Nat \ DOMAIN m.exprs
         /\ DOMAIN n.exprs = DOMAIN m.exprs \cup {y} /\ n.exprs[y] = o
         /\ \A z \in DOMAIN m.exprs : z # x => n.exprs[z] = m.exprs[z]
         /\ n.exprs[x].form = m.exprs[x].form /\ n.exprs[x].args = m.exprs[x].args
         /\ n.exprs[x].target = m.exprs[x].target
         /\ n.exprs[x].kids = Append(m.exprs[x].kids, y)
<1> DEFINE m1 == New(m, o)
           p == [m.exprs[x] EXCEPT !.kids = Append(@, y)]
<1>1. /\ m1 \in Memory
      /\ m1.scopes = m.scopes /\ m1.frees = m.frees /\ m1.todo = m.todo /\ m1.failed = m.failed
      /\ y \in Nat \ DOMAIN m.exprs /\ DOMAIN m1.exprs = DOMAIN m.exprs \cup {y}
      /\ m1.exprs[y] = o /\ \A z \in DOMAIN m.exprs : m1.exprs[z] = m.exprs[z]
  BY NewMemory
<1>2. m.exprs[x] \in Exprs
  <2>1. m.exprs \in Seq(Exprs)
    BY DEF Memory
  <2> QED
    BY <2>1
<1>3. Append(m.exprs[x].kids, y) \in Seq(Nat)
  BY <1>1, <1>2, AppendProperties DEF Exprs
<1>4. /\ p \in Exprs /\ p.form = m.exprs[x].form /\ p.args = m.exprs[x].args
      /\ p.target = m.exprs[x].target /\ p.kids = Append(m.exprs[x].kids, y)
  BY <1>2, <1>3 DEF Exprs
<1> HIDE DEF p
<1>5. n = [m1 EXCEPT !.exprs[x] = p]
  BY <1>1 DEF NewChild, p
<1> HIDE DEF m1
<1> QED
  BY <1>1, <1>4, <1>5, ChangedMemory

\* An expression used anew.
LEMMA BecomeMemory ==
  ASSUME NEW m \in Memory, NEW x \in DOMAIN m.exprs, NEW f \in Forms, NEW name \in Texts,
         NEW target \in Nat, NEW args \in Nat, NEW n, n = Become(m, x, f, name, target, args)
  PROVE  /\ n \in Memory
         /\ n.scopes = m.scopes /\ n.frees = m.frees /\ n.todo = m.todo /\ n.failed = m.failed
         /\ DOMAIN n.exprs = DOMAIN m.exprs
         /\ \A z \in DOMAIN m.exprs : z # x => n.exprs[z] = m.exprs[z]
         /\ n.exprs[x].form = f /\ n.exprs[x].kids = <<>>
         /\ n.exprs[x].target = target /\ n.exprs[x].args = args
<1> DEFINE p == [m.exprs[x] EXCEPT !.form = f, !.name = name, !.kids = <<>>,
                                   !.target = target, !.args = args]
<1>1. m.exprs[x] \in Exprs
  <2>1. m.exprs \in Seq(Exprs)
    BY DEF Memory
  <2> QED
    BY <2>1
<1>2. p \in Exprs /\ p.form = f /\ p.kids = <<>> /\ p.target = target /\ p.args = args
  BY <1>1, EmptySeq DEF Exprs
<1> HIDE DEF p
<1>3. n = [m EXCEPT !.exprs[x] = p]
  BY DEF Become, p
<1> QED
  BY <1>2, <1>3, ChangedMemory

\* A scope is changed.
LEMMA ChangedScopes ==
  ASSUME NEW m \in Memory, NEW e \in DOMAIN m.scopes, NEW o \in Scopes,
         NEW n, n = [m EXCEPT !.scopes[e] = o]
  PROVE  /\ n \in Memory
         /\ n.exprs = m.exprs /\ n.frees = m.frees /\ n.todo = m.todo /\ n.failed = m.failed
         /\ DOMAIN n.scopes = DOMAIN m.scopes /\ Len(n.scopes) = Len(m.scopes) /\ n.scopes[e] = o
         /\ \A z \in DOMAIN m.scopes : z # e => n.scopes[z] = m.scopes[z]
<1>1. m.scopes \in Seq(Scopes)
  BY DEF Memory
<1>2. e \in 1..Len(m.scopes)
  BY <1>1, LenProperties
<1>3. [m.scopes EXCEPT ![e] = o] \in Seq(Scopes) /\ Len([m.scopes EXCEPT ![e] = o]) = Len(m.scopes)
  BY <1>1, <1>2, ExceptSeq
<1>4. n = [m EXCEPT !.scopes = [m.scopes EXCEPT ![e] = o]]
  OBVIOUS
<1> QED
  BY <1>3, <1>4 DEF Memory

\* A new scope.
LEMMA NewScopeMemory ==
  ASSUME NEW m \in Memory, NEW e \in Nat, NEW a, a = NewestScope(m) + 1, NEW n, n = NewScope(m, e)
  PROVE  /\ n \in Memory
         /\ n.exprs = m.exprs /\ n.frees = m.frees /\ n.todo = m.todo /\ n.failed = m.failed
         /\ a \in Nat \ DOMAIN m.scopes /\ DOMAIN n.scopes = DOMAIN m.scopes \cup {a}
         /\ \A z \in DOMAIN m.scopes : z < a
         /\ Len(m.scopes) \in Nat /\ Len(n.scopes) \in Nat /\ Len(n.scopes) >= Len(m.scopes)
         /\ n.scopes[a].upper = e /\ DOMAIN n.scopes[a].dict = {}
         /\ \A z \in DOMAIN m.scopes : n.scopes[z] = m.scopes[z]
<1> DEFINE o == Scope(e)
<1>1. o \in Scopes /\ o.upper = e /\ DOMAIN o.dict = {}
  <2>1. <<>> \in [{} -> Nat] /\ {} \in SUBSET Texts
    OBVIOUS
  <2>2. <<>> \in Dicts
    BY <2>1 DEF Dicts
  <2> QED
    BY <2>2 DEF Scopes, Scope
<1> HIDE DEF o
<1>2. ASSUME NEW s \in Seq(Scopes)
      PROVE  /\ Append(s, o) \in Seq(Scopes) /\ Len(s) + 1 \in Nat \ DOMAIN s
             /\ DOMAIN Append(s, o) = DOMAIN s \cup {Len(s) + 1}
             /\ \A z \in DOMAIN s : z < Len(s) + 1
             /\ Len(s) \in Nat /\ Len(Append(s, o)) \in Nat /\ Len(Append(s, o)) >= Len(s)
             /\ Append(s, o)[Len(s) + 1] = o
             /\ \A z \in DOMAIN s : Append(s, o)[z] = s[z]
  <2>1. Len(s) \in Nat /\ DOMAIN s = 1..Len(s)
    BY LenProperties
  <2>2. Append(s, o) \in Seq(Scopes) /\ Append(s, o)[Len(s) + 1] = o /\ Len(Append(s, o)) = Len(s) + 1
        /\ DOMAIN Append(s, o) = 1..(Len(s) + 1) /\ \A z \in 1..Len(s) : Append(s, o)[z] = s[z]
    BY <1>1, Appended
  <2> QED
    BY <2>1, <2>2
<1>3. m.scopes \in Seq(Scopes)
  BY DEF Memory
<1>4. /\ Append(m.scopes, o) \in Seq(Scopes) /\ Len(m.scopes) + 1 \in Nat \ DOMAIN m.scopes
      /\ DOMAIN Append(m.scopes, o) = DOMAIN m.scopes \cup {Len(m.scopes) + 1}
      /\ \A z \in DOMAIN m.scopes : z < Len(m.scopes) + 1
      /\ Len(m.scopes) \in Nat /\ Len(Append(m.scopes, o)) \in Nat
      /\ Len(Append(m.scopes, o)) >= Len(m.scopes)
      /\ Append(m.scopes, o)[Len(m.scopes) + 1] = o
      /\ \A z \in DOMAIN m.scopes : Append(m.scopes, o)[z] = m.scopes[z]
  BY <1>2, <1>3
<1>5. n = [m EXCEPT !.scopes = Append(m.scopes, o)]
  BY DEF NewScope, o
<1> QED
  BY <1>1, <1>4, <1>5 DEF Memory, NewestScope

\* A name in a scope.
LEMMA PutExprMemory ==
  ASSUME NEW m \in Memory, NEW e \in DOMAIN m.scopes, NEW name \in Texts, NEW o \in Exprs,
         NEW y, y = Newest(m) + 1, NEW n, n = PutExpr(m, e, name, o)
  PROVE  /\ n \in Memory
         /\ n.frees = m.frees /\ n.todo = m.todo /\ n.failed = m.failed
         /\ y \in Nat \ DOMAIN m.exprs
         /\ DOMAIN n.exprs = DOMAIN m.exprs \cup {y} /\ n.exprs[y] = o
         /\ \A z \in DOMAIN m.exprs : n.exprs[z] = m.exprs[z]
         /\ DOMAIN n.scopes = DOMAIN m.scopes /\ Len(n.scopes) = Len(m.scopes)
         /\ \A z \in DOMAIN m.scopes : z # e => n.scopes[z] = m.scopes[z]
         /\ n.scopes[e].upper = m.scopes[e].upper
         /\ DOMAIN n.scopes[e].dict = DOMAIN m.scopes[e].dict \cup {name}
         /\ n.scopes[e].dict[name] = y
         /\ \A k \in DOMAIN m.scopes[e].dict : k # name => n.scopes[e].dict[k] = m.scopes[e].dict[k]
<1> DEFINE m1 == New(m, o)
           d == m.scopes[e].dict
           dict == [k \in DOMAIN d \cup {name} |-> IF k = name THEN y ELSE d[k]]
           p == [m.scopes[e] EXCEPT !.dict = dict]
<1>1. /\ m1 \in Memory
      /\ m1.scopes = m.scopes /\ m1.frees = m.frees /\ m1.todo = m.todo /\ m1.failed = m.failed
      /\ y \in Nat \ DOMAIN m.exprs /\ DOMAIN m1.exprs = DOMAIN m.exprs \cup {y}
      /\ m1.exprs[y] = o /\ \A z \in DOMAIN m.exprs : m1.exprs[z] = m.exprs[z]
  BY NewMemory
<1>2. m.scopes[e] \in Scopes
  <2>1. m.scopes \in Seq(Scopes)
    BY DEF Memory
  <2> QED
    BY <2>1
<1>3. PICK names \in SUBSET Texts : d \in [names -> Nat]
  BY <1>2 DEF Scopes, Dicts
<1>4. dict \in [names \cup {name} -> Nat] /\ names \cup {name} \in SUBSET Texts
  BY <1>1, <1>3
<1>5. dict \in Dicts
  BY <1>4 DEF Dicts
<1>6. /\ DOMAIN dict = DOMAIN m.scopes[e].dict \cup {name} /\ dict[name] = y
      /\ \A k \in DOMAIN m.scopes[e].dict : k # name => dict[k] = m.scopes[e].dict[k]
  OBVIOUS
<1> HIDE DEF dict, d
<1>7. p \in Scopes /\ p.upper = m.scopes[e].upper /\ p.dict = dict
  BY <1>2, <1>5 DEF Scopes
<1> HIDE DEF p
<1>8. n = [m1 EXCEPT !.scopes[e] = p]
  BY <1>1 DEF PutExpr, p, dict, d
<1> HIDE DEF m1
<1>9. /\ n \in Memory
      /\ n.exprs = m1.exprs /\ n.frees = m1.frees /\ n.todo = m1.todo /\ n.failed = m1.failed
      /\ DOMAIN n.scopes = DOMAIN m1.scopes /\ Len(n.scopes) = Len(m1.scopes) /\ n.scopes[e] = p
      /\ \A z \in DOMAIN m1.scopes : z # e => n.scopes[z] = m1.scopes[z]
  BY <1>1, <1>7, <1>8, ChangedScopes
<1> QED
  BY <1>1, <1>6, <1>7, <1>9

-----------------------------------------------------------------------------
(* Generating keeps every owner: nothing is destroyed meanwhile *)

Quiet(m) == \A d \in DOMAIN m.todo : m.todo[d].fn \notin {"core", "env"}
Calm(m) == Good(m) /\ Quiet(m)

\* n has what m has, and the same is to be done
Grown(m, n) ==
  /\ n.todo = m.todo /\ n.frees = m.frees
  /\ DOMAIN m.exprs \subseteq DOMAIN n.exprs /\ DOMAIN m.scopes \subseteq DOMAIN n.scopes

\* an expression that owns nothing
Plain(m, o) ==
  /\ o \in Exprs /\ o.kids = <<>> /\ o.args = 0 /\ o.form # "LAMBDA"
  /\ o.target \in DOMAIN m.exprs \cup {0} /\ (o.form = "INDIR" <=> o.target # 0)

\* What does not exist has not been freed.
LEMMA NewNotFreed ==
  ASSUME NEW m \in Memory, InOnePiece(m), NEW n, n.frees = m.frees
  PROVE  /\ \A x : x \notin DOMAIN m.exprs => ~Freed(n, "expr", x)
         /\ \A e : e \notin DOMAIN m.scopes => ~Freed(n, "scope", e)
BY DEF InOnePiece, Freed, Objects

\* A new expression below x is owned by x.
LEMMA CalmNewChild ==
  ASSUME NEW m, Calm(m), NEW x \in DOMAIN m.exprs, NEW o, Plain(m, o),
         NEW y, y = Newest(m) + 1, NEW n, n = NewChild(m, x, o)
  PROVE  /\ Calm(n) /\ Grown(m, n) /\ y \in DOMAIN n.exprs
         /\ n.scopes = m.scopes /\ DOMAIN n.exprs = DOMAIN m.exprs \cup {y}
<1>1. m \in Memory /\ o \in Exprs
  BY DEF Calm, Good, Plain
<1>2. /\ n \in Memory
      /\ n.scopes = m.scopes /\ n.frees = m.frees /\ n.todo = m.todo /\ n.failed = m.failed
      /\ y \in Nat \ DOMAIN m.exprs
      /\ DOMAIN n.exprs = DOMAIN m.exprs \cup {y} /\ n.exprs[y] = o
      /\ \A z \in DOMAIN m.exprs : z # x => n.exprs[z] = m.exprs[z]
      /\ n.exprs[x].form = m.exprs[x].form /\ n.exprs[x].args = m.exprs[x].args
      /\ n.exprs[x].target = m.exprs[x].target
      /\ n.exprs[x].kids = Append(m.exprs[x].kids, y)
  BY <1>1, NewChildMemory
<1>3. m.exprs[x].kids \in Seq(Nat) /\ x \in Nat
  <2>1. m.exprs \in Seq(Exprs)
    BY <1>1 DEF Memory
  <2>2. m.exprs[x] \in Exprs /\ x \in Nat
    BY <2>1
  <2> QED
    BY <2>2 DEF Exprs
<1>4. PICK k \in Nat : /\ k \notin DOMAIN m.exprs[x].kids
                       /\ DOMAIN n.exprs[x].kids = DOMAIN m.exprs[x].kids \cup {k}
                       /\ n.exprs[x].kids[k] = y
                       /\ \A i \in DOMAIN m.exprs[x].kids : n.exprs[x].kids[i] = m.exprs[x].kids[i]
  <2>1. ASSUME NEW s \in Seq(Nat)
        PROVE  /\ Len(s) + 1 \in Nat \ DOMAIN s
               /\ DOMAIN Append(s, y) = DOMAIN s \cup {Len(s) + 1}
               /\ Append(s, y)[Len(s) + 1] = y
               /\ \A i \in DOMAIN s : Append(s, y)[i] = s[i]
    BY <1>2
  <2>2. /\ Len(m.exprs[x].kids) + 1 \in Nat \ DOMAIN m.exprs[x].kids
        /\ DOMAIN n.exprs[x].kids = DOMAIN m.exprs[x].kids \cup {Len(m.exprs[x].kids) + 1}
        /\ n.exprs[x].kids[Len(m.exprs[x].kids) + 1] = y
        /\ \A i \in DOMAIN m.exprs[x].kids : n.exprs[x].kids[i] = m.exprs[x].kids[i]
    BY <1>2, <1>3, <2>1
  <2> QED
    BY <2>2
<1>5. /\ InOnePiece(m) /\ Uppers(m) /\ Ordered(m) /\ Quiet(m) /\ IsInjective(m.frees)
      /\ ExprsOwned(m) /\ ScopesOwned(m)
  BY DEF Calm, Good
<1>6. InOnePiece(n)
  <2>1. \A z \in DOMAIN m.exprs :
          /\ ToSet(m.exprs[z].kids) \subseteq DOMAIN m.exprs
          /\ m.exprs[z].target \in DOMAIN m.exprs \cup {0}
          /\ (m.exprs[z].form = "INDIR" <=> m.exprs[z].target # 0)
          /\ m.exprs[z].args \in DOMAIN m.scopes \cup {0}
          /\ (m.exprs[z].form = "LAMBDA" <=> m.exprs[z].args # 0)
    BY <1>5 DEF InOnePiece
  <2>2. ToSet(n.exprs[x].kids) \subseteq DOMAIN n.exprs
    <3>1. \A i \in DOMAIN m.exprs[x].kids : m.exprs[x].kids[i] \in DOMAIN m.exprs
      BY <2>1 DEF ToSet
    <3>2. \A i \in DOMAIN n.exprs[x].kids : n.exprs[x].kids[i] \in DOMAIN m.exprs \cup {y}
      BY <1>4, <3>1
    <3>3. ToSet(n.exprs[x].kids) \subseteq DOMAIN m.exprs \cup {y}
      BY <3>2 DEF ToSet
    <3> QED
      BY <1>2, <3>3
  <2>3. \A z \in DOMAIN n.exprs :
          /\ ToSet(n.exprs[z].kids) \subseteq DOMAIN n.exprs
          /\ n.exprs[z].target \in DOMAIN n.exprs \cup {0}
          /\ (n.exprs[z].form = "INDIR" <=> n.exprs[z].target # 0)
          /\ n.exprs[z].args \in DOMAIN n.scopes \cup {0}
          /\ (n.exprs[z].form = "LAMBDA" <=> n.exprs[z].args # 0)
    <3> TAKE z \in DOMAIN n.exprs
    <3>1. CASE z = y
      <4>1. ToSet(o.kids) = {}
        BY DEF Plain, ToSet
      <4> QED
        BY <1>2, <3>1, <4>1 DEF Plain
    <3>2. CASE z = x
      BY <1>2, <2>1, <2>2, <3>2
    <3>3. CASE z # x /\ z # y
      BY <1>2, <2>1, <3>3
    <3> QED
      BY <3>1, <3>2, <3>3
  <2>4. ToSet(n.frees) \subseteq Objects(n)
    BY <1>2, <1>5 DEF InOnePiece, Objects
  <2> QED
    BY <1>2, <1>5, <2>3, <2>4 DEF InOnePiece
<1>7. \A z : Freed(n, "expr", z) <=> Freed(m, "expr", z)
  BY <1>2 DEF Freed
<1>8. \A z : Freed(n, "scope", z) <=> Freed(m, "scope", z)
  BY <1>2 DEF Freed
<1>9. ExprsOwned(n)
  <2> DEFINE p == <<"kid", x, k>>
  <2>1. \A z, i \in Nat : KidPlace(n, z, i) /\ <<"kid", z, i>> # p =>
          KidPlace(m, z, i) /\ n.exprs[z].kids[i] = m.exprs[z].kids[i]
    <3> SUFFICES ASSUME NEW z \in Nat, NEW i \in Nat, KidPlace(n, z, i), z # x \/ i # k
                 PROVE  KidPlace(m, z, i) /\ n.exprs[z].kids[i] = m.exprs[z].kids[i]
      OBVIOUS
    <3>1. z # y
      BY <1>2 DEF KidPlace, Plain
    <3> QED
      BY <1>2, <1>4, <1>5, <1>7, <3>1 DEF KidPlace, Quiet
  <2>2. \A e \in Nat, q \in Texts : KeyPlace(n, e, q) => KeyPlace(m, e, q) /\ n.scopes[e].dict[q] = m.scopes[e].dict[q]
    BY <1>2 DEF KeyPlace
  <2>3. \A d \in Nat : CorePlace(n, d) => CorePlace(m, d) /\ n.todo[d].x = m.todo[d].x
    BY <1>2 DEF CorePlace
  <2>4. ExprAtPlace(n, p) = y
    BY <1>4 DEF ExprAtPlace
  <2>5. \A q \in ExprPlaces(m) : ExprAtPlace(m, q) # y
    BY <1>1, <1>2, <1>5, OwnedExist
  <2>6. ~Freed(n, "expr", y)
    BY <1>1, <1>2, <1>5, NewNotFreed
  <2> HIDE DEF p
  <2>7. ExprsMove(m, n, p)
    BY <1>7, <2>1, <2>2, <2>3, <2>4, <2>5, <2>6 DEF ExprsMove
  <2> QED
    BY <1>5, <2>7, ExprsMoved
<1>10. ScopesOwned(n)
  <2>1. \A z \in Nat : ArgsPlace(n, z) => ArgsPlace(m, z) /\ n.exprs[z].args = m.exprs[z].args
    <3> SUFFICES ASSUME NEW z \in Nat, ArgsPlace(n, z)
                 PROVE  ArgsPlace(m, z) /\ n.exprs[z].args = m.exprs[z].args
      OBVIOUS
    <3>1. z # y
      BY <1>2 DEF ArgsPlace, Plain
    <3> QED
      BY <1>2, <1>5, <1>7, <3>1 DEF ArgsPlace, Quiet
  <2>2. UpperPlace(n) => UpperPlace(m) /\ n.scopes[Global].upper = m.scopes[Global].upper
    BY <1>2 DEF UpperPlace
  <2>3. \A d \in Nat : EnvPlace(n, d) => EnvPlace(m, d) /\ n.todo[d].e = m.todo[d].e
    BY <1>2 DEF EnvPlace
  <2> QED
    BY <1>5, <1>8, <2>1, <2>2, <2>3, ScopesKept
<1>11. Uppers(n) /\ Ordered(n) /\ Quiet(n) /\ IsInjective(n.frees)
  BY <1>2, <1>5 DEF Uppers, Ordered, Quiet
<1> QED
  BY <1>2, <1>6, <1>9, <1>10, <1>11 DEF Calm, Good, Grown

\* a scope that nothing owns yet
Unowned(m, a) == ~Freed(m, "scope", a) /\ \A p \in ScopePlaces(m) : ScopeAtPlace(m, p) # a

\* An expression that is used anew owns no expression, and at most a scope that
\* nothing owns.
LEMMA CalmBecome ==
  ASSUME NEW m, Calm(m), NEW x \in DOMAIN m.exprs, NEW f \in Forms, NEW name \in Texts,
         NEW target \in DOMAIN m.exprs \cup {0}, f = "INDIR" <=> target # 0,
         NEW args \in DOMAIN m.scopes \cup {0}, f = "LAMBDA" <=> args # 0,
         args # 0 => Unowned(m, args),
         NEW n, n = Become(m, x, f, name, target, args)
  PROVE  /\ Calm(n) /\ Grown(m, n) /\ DOMAIN n.exprs = DOMAIN m.exprs /\ n.scopes = m.scopes
<1>1. /\ m \in Memory /\ InOnePiece(m) /\ Uppers(m) /\ Ordered(m) /\ Quiet(m)
      /\ IsInjective(m.frees) /\ ExprsOwned(m) /\ ScopesOwned(m)
  BY DEF Calm, Good
<1>2. target \in Nat /\ args \in Nat /\ x \in Nat
  <2>1. m.exprs \in Seq(Exprs) /\ m.scopes \in Seq(Scopes)
    BY <1>1 DEF Memory
  <2> QED
    BY <2>1, LenProperties
<1>3. /\ n \in Memory
      /\ n.scopes = m.scopes /\ n.frees = m.frees /\ n.todo = m.todo /\ n.failed = m.failed
      /\ DOMAIN n.exprs = DOMAIN m.exprs
      /\ \A z \in DOMAIN m.exprs : z # x => n.exprs[z] = m.exprs[z]
      /\ n.exprs[x].form = f /\ n.exprs[x].kids = <<>>
      /\ n.exprs[x].target = target /\ n.exprs[x].args = args
  BY <1>1, <1>2, BecomeMemory
<1>4. InOnePiece(n)
  <2>1. ToSet(n.exprs[x].kids) = {}
    BY <1>3 DEF ToSet
  <2>2. \A z \in DOMAIN n.exprs :
          /\ ToSet(n.exprs[z].kids) \subseteq DOMAIN n.exprs
          /\ n.exprs[z].target \in DOMAIN n.exprs \cup {0}
          /\ (n.exprs[z].form = "INDIR" <=> n.exprs[z].target # 0)
          /\ n.exprs[z].args \in DOMAIN n.scopes \cup {0}
          /\ (n.exprs[z].form = "LAMBDA" <=> n.exprs[z].args # 0)
    <3> TAKE z \in DOMAIN n.exprs
    <3>1. CASE z = x
      BY <1>3, <2>1, <3>1
    <3>2. CASE z # x
      BY <1>1, <1>3, <3>2 DEF InOnePiece
    <3> QED
      BY <3>1, <3>2
  <2>3. Objects(n) = Objects(m)
    BY <1>3 DEF Objects
  <2> QED
    BY <1>1, <1>3, <2>2, <2>3 DEF InOnePiece
<1>5. \A z : (Freed(n, "expr", z) <=> Freed(m, "expr", z)) /\ (Freed(n, "scope", z) <=> Freed(m, "scope", z))
  BY <1>3 DEF Freed
<1>6. ExprsOwned(n)
  <2>1. \A z, i \in Nat : KidPlace(n, z, i) =>
          KidPlace(m, z, i) /\ n.exprs[z].kids[i] = m.exprs[z].kids[i]
    <3> SUFFICES ASSUME NEW z \in Nat, NEW i \in Nat, KidPlace(n, z, i)
                 PROVE  KidPlace(m, z, i) /\ n.exprs[z].kids[i] = m.exprs[z].kids[i]
      OBVIOUS
    <3>1. z # x
      BY <1>3 DEF KidPlace
    <3> QED
      BY <1>3, <1>5, <3>1 DEF KidPlace
  <2>2. \A e \in Nat, q \in Texts : KeyPlace(n, e, q) => KeyPlace(m, e, q) /\ n.scopes[e].dict[q] = m.scopes[e].dict[q]
    BY <1>3 DEF KeyPlace
  <2>3. \A d \in Nat : CorePlace(n, d) => CorePlace(m, d) /\ n.todo[d].x = m.todo[d].x
    BY <1>3 DEF CorePlace
  <2> QED
    BY <1>1, <1>5, <2>1, <2>2, <2>3, ExprsKept
<1>7. ScopesOwned(n)
  <2> DEFINE p == <<"args", x>>
  <2>1. \A z \in Nat : ArgsPlace(n, z) /\ <<"args", z>> # p =>
          ArgsPlace(m, z) /\ n.exprs[z].args = m.exprs[z].args
    BY <1>3, <1>5 DEF ArgsPlace
  <2>2. UpperPlace(n) => UpperPlace(m) /\ n.scopes[Global].upper = m.scopes[Global].upper
    BY <1>3 DEF UpperPlace
  <2>3. \A d \in Nat : EnvPlace(n, d) => EnvPlace(m, d) /\ n.todo[d].e = m.todo[d].e
    BY <1>3 DEF EnvPlace
  <2>4. p \in ScopePlaces(n) => ScopeAtPlace(n, p) = args /\ args # 0
    BY <1>3 DEF ScopePlaces, ScopeAtPlace, ArgsPlace
  <2> HIDE DEF p
  <2>5. p \in ScopePlaces(n) => /\ ~Freed(n, "scope", ScopeAtPlace(n, p))
                                /\ \A q \in ScopePlaces(m) : ScopeAtPlace(m, q) # ScopeAtPlace(n, p)
    BY <1>5, <2>4 DEF Unowned
  <2>6. ScopesMove(m, n, p)
    BY <1>5, <2>1, <2>2, <2>3, <2>5 DEF ScopesMove
  <2> QED
    BY <1>1, <2>6, ScopesMoved
<1>8. Uppers(n) /\ Ordered(n) /\ Quiet(n) /\ IsInjective(n.frees)
  BY <1>1, <1>3 DEF Uppers, Ordered, Quiet
<1> QED
  BY <1>3, <1>4, <1>6, <1>7, <1>8 DEF Calm, Good, Grown

\* Nothing owns a new scope.
LEMMA CalmNewScope ==
  ASSUME NEW m, Calm(m), NEW e \in DOMAIN m.scopes, NEW a, a = NewestScope(m) + 1,
         NEW n, n = NewScope(m, e)
  PROVE  /\ Calm(n) /\ Grown(m, n) /\ Unowned(n, a) /\ n.exprs = m.exprs
         /\ DOMAIN n.scopes = DOMAIN m.scopes \cup {a} /\ a \in Nat \ {0}
<1>1. /\ m \in Memory /\ InOnePiece(m) /\ Uppers(m) /\ Ordered(m) /\ Quiet(m)
      /\ IsInjective(m.frees) /\ ExprsOwned(m) /\ ScopesOwned(m)
  BY DEF Calm, Good
<1>2. e \in Nat \ {0}
  <2>1. m.scopes \in Seq(Scopes)
    BY <1>1 DEF Memory
  <2> QED
    BY <2>1, LenProperties
<1>3. /\ n \in Memory
      /\ n.exprs = m.exprs /\ n.frees = m.frees /\ n.todo = m.todo /\ n.failed = m.failed
      /\ a \in Nat \ DOMAIN m.scopes /\ DOMAIN n.scopes = DOMAIN m.scopes \cup {a}
      /\ \A z \in DOMAIN m.scopes : z < a
      /\ Len(m.scopes) \in Nat /\ Len(n.scopes) \in Nat /\ Len(n.scopes) >= Len(m.scopes)
      /\ n.scopes[a].upper = e /\ DOMAIN n.scopes[a].dict = {}
      /\ \A z \in DOMAIN m.scopes : n.scopes[z] = m.scopes[z]
  <2>1. m \in Memory /\ e \in Nat
    BY <1>1, <1>2
  <2>2. n \in Memory
    BY <2>1, NewScopeMemory
  <2>7. n.exprs = m.exprs /\ n.frees = m.frees /\ n.todo = m.todo /\ n.failed = m.failed
    BY DEF NewScope
  <2>3. a \in Nat \ DOMAIN m.scopes /\ DOMAIN n.scopes = DOMAIN m.scopes \cup {a}
    BY <2>1, NewScopeMemory
  <2>4. /\ \A z \in DOMAIN m.scopes : z < a
        /\ Len(m.scopes) \in Nat /\ Len(n.scopes) \in Nat /\ Len(n.scopes) >= Len(m.scopes)
    BY <2>1, NewScopeMemory
  <2>5. n.scopes[a].upper = e /\ DOMAIN n.scopes[a].dict = {}
    BY <2>1, NewScopeMemory
  <2>6. \A z \in DOMAIN m.scopes : n.scopes[z] = m.scopes[z]
    BY <2>1, NewScopeMemory
  <2> QED
    BY <2>2, <2>3, <2>4, <2>5, <2>6, <2>7
<1>4. InOnePiece(n)
  <2>1. \A z \in DOMAIN n.scopes :
          /\ n.scopes[z].upper \in 0..(z - 1)
          /\ \A k \in DOMAIN n.scopes[z].dict : n.scopes[z].dict[k] \in DOMAIN n.exprs
    <3> TAKE z \in DOMAIN n.scopes
    <3>1. CASE z = a
      <4>1. e \in 0..(a - 1)
        BY <1>2, <1>3
      <4> QED
        BY <1>3, <3>1, <4>1
    <3>2. CASE z \in DOMAIN m.scopes
      BY <1>1, <1>3, <3>2 DEF InOnePiece
    <3> QED
      BY <1>3, <3>1, <3>2
  <2>2. \A z \in DOMAIN n.exprs :
          /\ ToSet(n.exprs[z].kids) \subseteq DOMAIN n.exprs
          /\ n.exprs[z].target \in DOMAIN n.exprs \cup {0}
          /\ (n.exprs[z].form = "INDIR" <=> n.exprs[z].target # 0)
          /\ n.exprs[z].args \in DOMAIN n.scopes \cup {0}
          /\ (n.exprs[z].form = "LAMBDA" <=> n.exprs[z].args # 0)
    BY <1>1, <1>3 DEF InOnePiece
  <2>3. ToSet(n.frees) \subseteq Objects(n)
    BY <1>1, <1>3 DEF InOnePiece, Objects
  <2> QED
    BY <1>1, <1>3, <2>1, <2>2, <2>3 DEF InOnePiece
<1>5. \A z : (Freed(n, "expr", z) <=> Freed(m, "expr", z)) /\ (Freed(n, "scope", z) <=> Freed(m, "scope", z))
  BY <1>3 DEF Freed
<1>6. ExprsOwned(n)
  <2>1. \A z, i \in Nat : KidPlace(n, z, i) =>
          KidPlace(m, z, i) /\ n.exprs[z].kids[i] = m.exprs[z].kids[i]
    BY <1>3, <1>5 DEF KidPlace
  <2>2. \A z \in Nat, q \in Texts : KeyPlace(n, z, q) => KeyPlace(m, z, q) /\ n.scopes[z].dict[q] = m.scopes[z].dict[q]
    BY <1>3 DEF KeyPlace
  <2>3. \A d \in Nat : CorePlace(n, d) => CorePlace(m, d) /\ n.todo[d].x = m.todo[d].x
    BY <1>3 DEF CorePlace
  <2> QED
    <3>1. \A q \in ExprPlaces(m) :
            q \in ExprPlaces(n) /\ Freed(n, "expr", ExprAtPlace(m, q)) => Freed(m, "expr", ExprAtPlace(m, q))
      BY <1>5
    <3>2. ExprsOwned(m)
      BY <1>1
    <3> QED
      BY <2>1, <2>2, <2>3, <3>1, <3>2, ExprsKept, ZenonT(30)
<1>7. /\ \A z \in Nat : ArgsPlace(n, z) <=> ArgsPlace(m, z)
      /\ UpperPlace(n) <=> UpperPlace(m)
      /\ \A d \in Nat : EnvPlace(n, d) <=> EnvPlace(m, d)
      /\ n.scopes[Global].upper = m.scopes[Global].upper
  <2>1. Global \in DOMAIN m.scopes
    <3>1. m.scopes \in Seq(Scopes)
      BY <1>1 DEF Memory
    <3>2. DOMAIN m.scopes = 1..Len(m.scopes)
      BY <3>1, LenProperties
    <3> QED
      BY <1>1, <1>3, <3>2 DEF Uppers, Global
  <2> QED
    BY <1>3, <1>5, <2>1 DEF ArgsPlace, UpperPlace, EnvPlace
<1>8. ScopePlaces(n) = ScopePlaces(m) /\ \A p \in ScopePlaces(m) : ScopeAtPlace(n, p) = ScopeAtPlace(m, p)
  <2>1. ScopePlaces(n) = ScopePlaces(m)
    BY <1>7 DEF ScopePlaces
  <2>2. \A p \in ScopePlaces(m) : ScopeAtPlace(n, p) = ScopeAtPlace(m, p)
    BY <1>3, <1>7 DEF ScopePlaces, ScopeAtPlace
  <2> QED
    BY <2>1, <2>2
<1>9. ScopesOwned(n)
  BY <1>1, <1>5, <1>8 DEF ScopesOwned
<1>10. Unowned(n, a)
  <2>1. ~Freed(n, "scope", a)
    BY <1>1, <1>3, NewNotFreed
  <2>2. \A p \in ScopePlaces(m) : ScopeAtPlace(m, p) # a
    BY <1>1, <1>3, OwnedExist
  <2> QED
    BY <1>8, <2>1, <2>2 DEF Unowned
<1>11. Uppers(n) /\ Ordered(n) /\ Quiet(n) /\ IsInjective(n.frees)
  <2>1. Len(n.scopes) >= 2
    BY <1>1, <1>3 DEF Uppers
  <2>2. n.scopes[Global].upper \in {0, Intrinsic}
    BY <1>1, <1>7 DEF Uppers
  <2> QED
    BY <1>1, <1>3, <2>1, <2>2 DEF Uppers, Ordered, Quiet
<1>12. a # 0
  BY <1>3
<1> QED
  BY <1>3, <1>4, <1>6, <1>9, <1>10, <1>11, <1>12 DEF Calm, Good, Grown

\* The expression of a name is owned by the scope.
LEMMA CalmPutExpr ==
  ASSUME NEW m, Calm(m), NEW e \in DOMAIN m.scopes, NEW name \in Texts, NEW o, Plain(m, o),
         NEW n, n = PutExpr(m, e, name, o)
  PROVE  Calm(n) /\ Grown(m, n)
<1> DEFINE y == Newest(m) + 1
<1>1. /\ m \in Memory /\ InOnePiece(m) /\ Uppers(m) /\ Ordered(m) /\ Quiet(m)
      /\ IsInjective(m.frees) /\ ExprsOwned(m) /\ ScopesOwned(m)
  BY DEF Calm, Good
<1>2. e \in Nat
  <2>1. m.scopes \in Seq(Scopes)
    BY <1>1 DEF Memory
  <2> QED
    BY <2>1, LenProperties
<1>3. o \in Exprs
  BY DEF Plain
<1> HIDE DEF y
<1>4. /\ n \in Memory
      /\ n.frees = m.frees /\ n.todo = m.todo /\ n.failed = m.failed
      /\ y \in Nat \ DOMAIN m.exprs
      /\ DOMAIN n.exprs = DOMAIN m.exprs \cup {y} /\ n.exprs[y] = o
      /\ \A z \in DOMAIN m.exprs : n.exprs[z] = m.exprs[z]
      /\ DOMAIN n.scopes = DOMAIN m.scopes /\ Len(n.scopes) = Len(m.scopes)
      /\ \A z \in DOMAIN m.scopes : z # e => n.scopes[z] = m.scopes[z]
      /\ n.scopes[e].upper = m.scopes[e].upper
      /\ DOMAIN n.scopes[e].dict = DOMAIN m.scopes[e].dict \cup {name}
      /\ n.scopes[e].dict[name] = y
      /\ \A k \in DOMAIN m.scopes[e].dict : k # name => n.scopes[e].dict[k] = m.scopes[e].dict[k]
  BY <1>1, <1>3, PutExprMemory DEF y
<1>5. InOnePiece(n)
  <2>1. \A z \in DOMAIN n.exprs :
          /\ ToSet(n.exprs[z].kids) \subseteq DOMAIN n.exprs
          /\ n.exprs[z].target \in DOMAIN n.exprs \cup {0}
          /\ (n.exprs[z].form = "INDIR" <=> n.exprs[z].target # 0)
          /\ n.exprs[z].args \in DOMAIN n.scopes \cup {0}
          /\ (n.exprs[z].form = "LAMBDA" <=> n.exprs[z].args # 0)
    <3> TAKE z \in DOMAIN n.exprs
    <3>1. CASE z = y
      <4>1. ToSet(o.kids) = {}
        BY DEF Plain, ToSet
      <4> QED
        BY <1>4, <3>1, <4>1 DEF Plain
    <3>2. CASE z \in DOMAIN m.exprs
      <4>1. /\ ToSet(m.exprs[z].kids) \subseteq DOMAIN m.exprs
            /\ m.exprs[z].target \in DOMAIN m.exprs \cup {0}
            /\ (m.exprs[z].form = "INDIR" <=> m.exprs[z].target # 0)
            /\ m.exprs[z].args \in DOMAIN m.scopes \cup {0}
            /\ (m.exprs[z].form = "LAMBDA" <=> m.exprs[z].args # 0)
        BY <1>1, <3>2 DEF InOnePiece
      <4> QED
        BY <1>4, <3>2, <4>1
    <3> QED
      BY <1>4, <3>1, <3>2
  <2>2. \A z \in DOMAIN n.scopes :
          /\ n.scopes[z].upper \in 0..(z - 1)
          /\ \A k \in DOMAIN n.scopes[z].dict : n.scopes[z].dict[k] \in DOMAIN n.exprs
    <3> TAKE z \in DOMAIN n.scopes
    <3>1. /\ m.scopes[z].upper \in 0..(z - 1)
          /\ \A k \in DOMAIN m.scopes[z].dict : m.scopes[z].dict[k] \in DOMAIN m.exprs
      BY <1>1, <1>4 DEF InOnePiece
    <3>2. CASE z = e
      BY <1>4, <3>1, <3>2
    <3>3. CASE z # e
      BY <1>4, <3>1, <3>3
    <3> QED
      BY <3>2, <3>3
  <2>3. ToSet(n.frees) \subseteq Objects(n)
    BY <1>1, <1>4 DEF InOnePiece, Objects
  <2>4. \A d \in DOMAIN n.todo :
          /\ n.todo[d].fn \in {"gen", "child", "core"} => n.todo[d].x \in DOMAIN n.exprs
          /\ n.todo[d].fn # "core" => n.todo[d].e \in DOMAIN n.scopes
    BY <1>1, <1>4 DEF InOnePiece
  <2> QED
    BY <2>1, <2>2, <2>3, <2>4 DEF InOnePiece
<1>6. \A z : (Freed(n, "expr", z) <=> Freed(m, "expr", z)) /\ (Freed(n, "scope", z) <=> Freed(m, "scope", z))
  BY <1>4 DEF Freed
<1>7. ExprsOwned(n)
  <2> DEFINE p == <<"key", e, name>>
  <2>1. \A z, i \in Nat : KidPlace(n, z, i) =>
          KidPlace(m, z, i) /\ n.exprs[z].kids[i] = m.exprs[z].kids[i]
    <3> SUFFICES ASSUME NEW z \in Nat, NEW i \in Nat, KidPlace(n, z, i)
                 PROVE  KidPlace(m, z, i) /\ n.exprs[z].kids[i] = m.exprs[z].kids[i]
      OBVIOUS
    <3>1. z # y
      BY <1>4 DEF KidPlace, Plain
    <3> QED
      BY <1>4, <1>6, <3>1 DEF KidPlace
  <2>2. \A z \in Nat, k \in Texts : KeyPlace(n, z, k) /\ <<"key", z, k>> # p =>
          KeyPlace(m, z, k) /\ n.scopes[z].dict[k] = m.scopes[z].dict[k]
    <3> SUFFICES ASSUME NEW z \in Nat, NEW k \in Texts, KeyPlace(n, z, k), z # e \/ k # name
                 PROVE  KeyPlace(m, z, k) /\ n.scopes[z].dict[k] = m.scopes[z].dict[k]
      OBVIOUS
    <3>1. z \in DOMAIN m.scopes /\ k \in DOMAIN n.scopes[z].dict
      BY <1>4 DEF KeyPlace
    <3>2. k \in DOMAIN m.scopes[z].dict /\ n.scopes[z].dict[k] = m.scopes[z].dict[k]
      <4>1. CASE z = e
        BY <1>4, <3>1, <4>1
      <4>2. CASE z # e
        BY <1>4, <3>1, <4>2
      <4> QED
        BY <4>1, <4>2
    <3> QED
      BY <1>4, <3>1, <3>2 DEF KeyPlace
  <2>3. \A d \in Nat : CorePlace(n, d) => CorePlace(m, d) /\ n.todo[d].x = m.todo[d].x
    BY <1>4 DEF CorePlace
  <2>4. ExprAtPlace(n, p) = y
    BY <1>4 DEF ExprAtPlace
  <2>5. \A q \in ExprPlaces(m) : ExprAtPlace(m, q) # y
    BY <1>1, <1>4, OwnedExist
  <2>6. ~Freed(n, "expr", y)
    BY <1>1, <1>4, NewNotFreed
  <2> HIDE DEF p
  <2>7. ExprsMove(m, n, p)
    BY <1>6, <2>1, <2>2, <2>3, <2>4, <2>5, <2>6 DEF ExprsMove
  <2> QED
    BY <1>1, <2>7, ExprsMoved
<1>8. n.scopes[Global].upper = m.scopes[Global].upper
  <2>1. Global \in DOMAIN m.scopes
    <3>1. m.scopes \in Seq(Scopes)
      BY <1>1 DEF Memory
    <3>2. DOMAIN m.scopes = 1..Len(m.scopes) /\ Len(m.scopes) \in Nat
      BY <3>1, LenProperties
    <3> QED
      BY <1>1, <3>2 DEF Uppers, Global
  <2> QED
    BY <1>4, <2>1
<1>9. ScopesOwned(n)
  <2>1. \A z \in Nat : ArgsPlace(n, z) => ArgsPlace(m, z) /\ n.exprs[z].args = m.exprs[z].args
    <3> SUFFICES ASSUME NEW z \in Nat, ArgsPlace(n, z)
                 PROVE  ArgsPlace(m, z) /\ n.exprs[z].args = m.exprs[z].args
      OBVIOUS
    <3>1. z # y
      BY <1>4 DEF ArgsPlace, Plain
    <3> QED
      BY <1>4, <1>6, <3>1 DEF ArgsPlace
  <2>2. UpperPlace(n) => UpperPlace(m) /\ n.scopes[Global].upper = m.scopes[Global].upper
    BY <1>8 DEF UpperPlace
  <2>3. \A d \in Nat : EnvPlace(n, d) => EnvPlace(m, d) /\ n.todo[d].e = m.todo[d].e
    BY <1>4 DEF EnvPlace
  <2> QED
    BY <1>1, <1>6, <2>1, <2>2, <2>3, ScopesKept
<1>10. Uppers(n) /\ Ordered(n) /\ Quiet(n) /\ IsInjective(n.frees)
  BY <1>1, <1>4, <1>8 DEF Uppers, Ordered, Quiet
<1> QED
  BY <1>4, <1>5, <1>7, <1>9, <1>10 DEF Calm, Good, Grown

\* the tasks of m are still to be done in n, and those that n has more are not the client
Stacks(m, n) ==
  \A d \in DOMAIN n.todo :
    /\ d \in DOMAIN m.todo => n.todo[d] = m.todo[d]
    /\ d \notin DOMAIN m.todo => n.todo[d].fn # "client"

StillThere(m, n) == DOMAIN m.todo \subseteq DOMAIN n.todo /\ Stacks(m, n)

\* A failure changes nothing else.
LEMMA CalmFail ==
  ASSUME NEW m, Calm(m)
  PROVE  Calm(Fail(m)) /\ StillThere(m, Fail(m))
<1> DEFINE n == Fail(m)
<1>1. /\ m \in Memory /\ InOnePiece(m) /\ Uppers(m) /\ Ordered(m) /\ Quiet(m)
      /\ IsInjective(m.frees) /\ ExprsOwned(m) /\ ScopesOwned(m)
  BY DEF Calm, Good
<1>2. /\ n \in Memory /\ n.exprs = m.exprs /\ n.scopes = m.scopes /\ n.frees = m.frees
      /\ n.todo = m.todo
  BY <1>1 DEF Fail, Memory
<1> HIDE DEF n
<1>3. InOnePiece(n) /\ Uppers(n) /\ Ordered(n) /\ Quiet(n) /\ IsInjective(n.frees)
  BY <1>1, <1>2 DEF InOnePiece, Objects, Uppers, Ordered, Quiet
<1>4. ExprsOwned(n)
  BY <1>1, <1>2, ExprsKept DEF KidPlace, KeyPlace, CorePlace, Freed
<1>5. ScopesOwned(n)
  BY <1>1, <1>2, ScopesKept DEF ArgsPlace, UpperPlace, EnvPlace, Freed
<1> QED
  BY <1>2, <1>3, <1>4, <1>5 DEF Calm, Good, StillThere, Stacks, n

\* If the next task does not destroy, none does.
LEMMA GoodQuiet ==
  ASSUME NEW m, Good(m), m.todo # <<>>, Last(m.todo).fn \notin {"core", "env"}
  PROVE  Calm(m)
<1>1. /\ m.todo \in Seq(Tasks) /\ Last(m.todo) = m.todo[Len(m.todo)] /\ Len(m.todo) \in Nat \ {0}
  BY Popped DEF Good, Memory
<1>2. DOMAIN m.todo = 1..Len(m.todo)
  BY <1>1, LenProperties
<1> QED
  BY <1>1, <1>2 DEF Good, Ordered, Quiet, Calm

\* Taking a task that does not destroy; what it held is owned by nothing then.
LEMMA CalmPop ==
  ASSUME NEW m, Calm(m), m.todo # <<>>
  PROVE  /\ Calm(Pop(m))
         /\ Pop(m).exprs = m.exprs /\ Pop(m).scopes = m.scopes
         /\ Last(m.todo) \in Tasks
         /\ Last(m.todo).fn \in {"gen", "child"} => Last(m.todo).x \in DOMAIN m.exprs
         /\ Last(m.todo).e \in DOMAIN m.scopes
         /\ Last(m.todo).fn = "endlet" => Unowned(Pop(m), Last(m.todo).e)
<1> DEFINE n == Pop(m)
           t == Last(m.todo)
           l == Len(m.todo)
<1>1. /\ m \in Memory /\ InOnePiece(m) /\ Uppers(m) /\ Ordered(m) /\ Quiet(m)
      /\ IsInjective(m.frees) /\ ExprsOwned(m) /\ ScopesOwned(m)
  BY DEF Calm, Good
<1>2. /\ n \in Memory
      /\ n.exprs = m.exprs /\ n.scopes = m.scopes /\ n.frees = m.frees
      /\ DOMAIN n.todo = 1..(l - 1)
      /\ \A d \in 1..(l - 1) : n.todo[d] = m.todo[d]
      /\ t = m.todo[l] /\ t \in Tasks /\ l \in Nat \ {0}
  BY <1>1, Popped
<1>3. DOMAIN m.todo = 1..l
  <2>1. m.todo \in Seq(Tasks)
    BY <1>1 DEF Memory
  <2> QED
    BY <2>1, LenProperties
<1>4. DOMAIN n.todo \subseteq DOMAIN m.todo /\ l \in DOMAIN m.todo /\ l \notin DOMAIN n.todo
      /\ \A d \in DOMAIN n.todo : n.todo[d] = m.todo[d]
  BY <1>2, <1>3
<1> HIDE DEF n, t, l
<1>5. InOnePiece(n)
  BY <1>1, <1>2, <1>4 DEF InOnePiece, Objects
<1>6. Uppers(n) /\ Quiet(n) /\ IsInjective(n.frees)
  BY <1>1, <1>2, <1>4 DEF Uppers, Quiet
<1>7. Ordered(n)
  BY <1>6 DEF Quiet, Ordered
<1>8. \A z : (Freed(n, "expr", z) <=> Freed(m, "expr", z)) /\ (Freed(n, "scope", z) <=> Freed(m, "scope", z))
  BY <1>2 DEF Freed
<1>9. ExprsOwned(n)
  <2>1. \A z, i \in Nat : KidPlace(n, z, i) =>
          KidPlace(m, z, i) /\ n.exprs[z].kids[i] = m.exprs[z].kids[i]
    BY <1>1, <1>2, <1>8 DEF KidPlace, Quiet
  <2>2. \A z \in Nat, k \in Texts : KeyPlace(n, z, k) =>
          KeyPlace(m, z, k) /\ n.scopes[z].dict[k] = m.scopes[z].dict[k]
    BY <1>1, <1>2 DEF KeyPlace, Quiet
  <2>3. \A d \in Nat : CorePlace(n, d) => CorePlace(m, d) /\ n.todo[d].x = m.todo[d].x
    BY <1>4 DEF CorePlace
  <2> QED
    BY <1>1, <1>8, <2>1, <2>2, <2>3, ExprsKept
<1>10. \A z \in Nat : ArgsPlace(n, z) => ArgsPlace(m, z) /\ n.exprs[z].args = m.exprs[z].args
  BY <1>1, <1>2, <1>8 DEF ArgsPlace, Quiet
<1>11. UpperPlace(n) => UpperPlace(m) /\ n.scopes[Global].upper = m.scopes[Global].upper
  BY <1>2 DEF UpperPlace
<1>12. \A d \in Nat : EnvPlace(n, d) => EnvPlace(m, d) /\ n.todo[d].e = m.todo[d].e /\ d # l
  BY <1>4 DEF EnvPlace
<1>13. ScopesOwned(n)
  BY <1>1, <1>8, <1>10, <1>11, <1>12, ScopesKept
<1>14. t.fn \in {"gen", "child"} => t.x \in DOMAIN m.exprs
  BY <1>1, <1>2, <1>4 DEF InOnePiece
<1>15. t.e \in DOMAIN m.scopes
  BY <1>1, <1>2, <1>4 DEF InOnePiece, Quiet
<1>16. ASSUME t.fn = "endlet" PROVE Unowned(n, t.e)
  <2> DEFINE p == <<"task", l>>
  <2>1. p \in ScopePlaces(m) /\ ScopeAtPlace(m, p) = t.e
    BY <1>2, <1>4, <1>16 DEF ScopePlaces, ScopeAtPlace, EnvPlace
  <2>2. ASSUME NEW q \in ScopePlaces(n)
        PROVE  q \in ScopePlaces(m) /\ ScopeAtPlace(m, q) = ScopeAtPlace(n, q) /\ q # p
    <3>1. ASSUME NEW x \in Nat, q = <<"args", x>>, ArgsPlace(n, x)
          PROVE  q \in ScopePlaces(m) /\ ScopeAtPlace(n, q) = ScopeAtPlace(m, q) /\ q # p
      BY <1>10, <3>1 DEF ScopePlaces, ScopeAtPlace
    <3>2. ASSUME q = <<"upper", Global>>, UpperPlace(n)
          PROVE  q \in ScopePlaces(m) /\ ScopeAtPlace(n, q) = ScopeAtPlace(m, q) /\ q # p
      BY <1>11, <3>2 DEF ScopePlaces, ScopeAtPlace
    <3>3. ASSUME NEW d \in Nat, q = <<"task", d>>, EnvPlace(n, d)
          PROVE  q \in ScopePlaces(m) /\ ScopeAtPlace(n, q) = ScopeAtPlace(m, q) /\ q # p
      BY <1>12, <3>3 DEF ScopePlaces, ScopeAtPlace
    <3> QED
      BY <3>1, <3>2, <3>3, ScopePlace
  <2> HIDE DEF p
  <2> QED
    BY <1>1, <1>8, <2>1, <2>2 DEF Unowned, ScopesOwned
<1> QED
  BY <1>2, <1>5, <1>6, <1>7, <1>9, <1>13, <1>14, <1>15, <1>16 DEF Calm, Good, n, t

\* what may be pushed: tasks that generate, and the end of one let
Pushable(m, tasks) ==
  /\ tasks \in Seq(Tasks)
  /\ \A i \in DOMAIN tasks :
       /\ tasks[i].fn \notin {"client", "core", "env"}
       /\ tasks[i].fn \in {"gen", "child"} => tasks[i].x \in DOMAIN m.exprs
       /\ tasks[i].e \in DOMAIN m.scopes
  /\ \A i, j \in DOMAIN tasks : tasks[i].fn = "endlet" /\ tasks[j].fn = "endlet" => i = j
  /\ \A i \in DOMAIN tasks : tasks[i].fn = "endlet" => Unowned(m, tasks[i].e)

\* Such tasks are pushed.
LEMMA CalmPush ==
  ASSUME NEW m, Calm(m), NEW tasks, Pushable(m, tasks)
  PROVE  Calm(Push(m, tasks)) /\ StillThere(m, Push(m, tasks))
<1> DEFINE n == Push(m, tasks)
<1>1. /\ m \in Memory /\ InOnePiece(m) /\ Uppers(m) /\ Ordered(m) /\ Quiet(m)
      /\ IsInjective(m.frees) /\ ExprsOwned(m) /\ ScopesOwned(m)
  BY DEF Calm, Good
<1>2. tasks \in Seq(Tasks)
  BY DEF Pushable
<1>3. /\ n \in Memory
      /\ n.exprs = m.exprs /\ n.scopes = m.scopes /\ n.frees = m.frees
      /\ Len(m.todo) \in Nat /\ Len(tasks) \in Nat
      /\ DOMAIN n.todo = 1..(Len(m.todo) + Len(tasks))
      /\ \A d \in 1..Len(m.todo) : n.todo[d] = m.todo[d]
      /\ \A d \in (Len(m.todo) + 1)..(Len(m.todo) + Len(tasks)) :
           /\ n.todo[d] = tasks[Len(m.todo) + Len(tasks) + 1 - d]
           /\ Len(m.todo) + Len(tasks) + 1 - d \in 1..Len(tasks)
  BY <1>1, <1>2, Pushed
<1>4. DOMAIN m.todo = 1..Len(m.todo) /\ DOMAIN tasks = 1..Len(tasks)
  <2>1. m.todo \in Seq(Tasks)
    BY <1>1 DEF Memory
  <2> QED
    BY <1>2, <2>1, LenProperties
<1> HIDE DEF n
<1>5. DOMAIN m.todo \subseteq DOMAIN n.todo /\ \A d \in DOMAIN m.todo : n.todo[d] = m.todo[d]
  BY <1>3, <1>4
<1>6. PICK k \in Int : k = Len(m.todo) + Len(tasks) + 1
  BY <1>3
<1>7. \A d \in DOMAIN n.todo \ DOMAIN m.todo : d \in Int /\ k - d \in DOMAIN tasks /\ n.todo[d] = tasks[k - d]
  <2> DEFINE l == Len(m.todo)
             r == Len(tasks)
  <2>1. l \in Nat /\ r \in Nat /\ DOMAIN m.todo = 1..l /\ DOMAIN n.todo = 1..(l + r) /\ k = l + r + 1
    BY <1>3, <1>4, <1>6
  <2>2. \A d \in (l + 1)..(l + r) : n.todo[d] = tasks[l + r + 1 - d] /\ l + r + 1 - d \in DOMAIN tasks
    BY <1>3, <1>4
  <2> HIDE DEF l, r
  <2>3. \A d \in DOMAIN n.todo \ DOMAIN m.todo : d \in Int /\ d \in (l + 1)..(l + r) /\ k - d = l + r + 1 - d
    BY <2>1
  <2> QED
    BY <2>2, <2>3
<1>8. \A d \in DOMAIN n.todo \ DOMAIN m.todo :
        /\ n.todo[d].fn \notin {"client", "core", "env"}
        /\ n.todo[d].fn \in {"gen", "child"} => n.todo[d].x \in DOMAIN m.exprs
        /\ n.todo[d].e \in DOMAIN m.scopes
        /\ n.todo[d].fn = "endlet" => Unowned(m, n.todo[d].e)
  BY <1>7 DEF Pushable
<1>9. \A c, d \in DOMAIN n.todo \ DOMAIN m.todo :
        n.todo[c].fn = "endlet" /\ n.todo[d].fn = "endlet" => c = d
  <2> SUFFICES ASSUME NEW c \in DOMAIN n.todo \ DOMAIN m.todo, NEW d \in DOMAIN n.todo \ DOMAIN m.todo,
                      n.todo[c].fn = "endlet", n.todo[d].fn = "endlet"
               PROVE  c = d
    OBVIOUS
  <2>1. k - c = k - d
    BY <1>7 DEF Pushable
  <2> QED
    BY <1>7, <2>1
<1>10. InOnePiece(n)
  <2>1. \A d \in DOMAIN n.todo :
          /\ n.todo[d].fn \in {"gen", "child", "core"} => n.todo[d].x \in DOMAIN n.exprs
          /\ n.todo[d].fn # "core" => n.todo[d].e \in DOMAIN n.scopes
    BY <1>1, <1>3, <1>5, <1>8 DEF InOnePiece
  <2> QED
    BY <1>1, <1>3, <2>1 DEF InOnePiece, Objects
<1>11. Quiet(n)
  BY <1>1, <1>5, <1>8 DEF Quiet
<1>12. Uppers(n) /\ Ordered(n) /\ IsInjective(n.frees)
  BY <1>1, <1>3, <1>11 DEF Uppers, Ordered, Quiet
<1>13. \A z : (Freed(n, "expr", z) <=> Freed(m, "expr", z)) /\ (Freed(n, "scope", z) <=> Freed(m, "scope", z))
  BY <1>3 DEF Freed
<1>14. ExprsOwned(n)
  <2>1. \A z, i \in Nat : KidPlace(n, z, i) =>
          KidPlace(m, z, i) /\ n.exprs[z].kids[i] = m.exprs[z].kids[i]
    BY <1>1, <1>3, <1>13 DEF KidPlace, Quiet
  <2>2. \A z \in Nat, q \in Texts : KeyPlace(n, z, q) =>
          KeyPlace(m, z, q) /\ n.scopes[z].dict[q] = m.scopes[z].dict[q]
    BY <1>1, <1>3 DEF KeyPlace, Quiet
  <2>3. \A d \in Nat : ~CorePlace(n, d)
    BY <1>11 DEF CorePlace, Quiet
  <2> QED
    BY <1>1, <1>13, <2>1, <2>2, <2>3, ExprsKept
<1>15. ScopesOwned(n)
  <2>1. \A z \in Nat : ArgsPlace(n, z) => ArgsPlace(m, z) /\ n.exprs[z].args = m.exprs[z].args
    BY <1>1, <1>3, <1>13 DEF ArgsPlace, Quiet
  <2>2. UpperPlace(n) => UpperPlace(m) /\ n.scopes[Global].upper = m.scopes[Global].upper
    BY <1>3 DEF UpperPlace
  <2>3. \A d \in Nat : EnvPlace(n, d) =>
          \/ EnvPlace(m, d) /\ n.todo[d].e = m.todo[d].e
          \/ d \in DOMAIN n.todo \ DOMAIN m.todo /\ n.todo[d].fn = "endlet"
    BY <1>5, <1>8 DEF EnvPlace
  <2>4. CASE \E d \in Nat : d \in DOMAIN n.todo \ DOMAIN m.todo /\ n.todo[d].fn = "endlet"
    <3>1. PICK d \in Nat : d \in DOMAIN n.todo \ DOMAIN m.todo /\ n.todo[d].fn = "endlet"
      BY <2>4
    <3> DEFINE p == <<"task", d>>
    <3>2. \A c \in Nat : EnvPlace(n, c) /\ <<"task", c>> # p =>
            EnvPlace(m, c) /\ n.todo[c].e = m.todo[c].e
      BY <1>9, <2>3, <3>1
    <3>3. ScopeAtPlace(n, p) = n.todo[d].e
      BY DEF ScopeAtPlace
    <3> HIDE DEF p
    <3>4. ScopesMove(m, n, p)
      BY <1>8, <1>13, <2>1, <2>2, <3>1, <3>2, <3>3 DEF ScopesMove, Unowned
    <3> QED
      BY <1>1, <3>4, ScopesMoved
  <2>5. CASE ~\E d \in Nat : d \in DOMAIN n.todo \ DOMAIN m.todo /\ n.todo[d].fn = "endlet"
    BY <1>1, <1>13, <2>1, <2>2, <2>3, <2>5, ScopesKept
  <2> QED
    BY <2>4, <2>5
<1> QED
  BY <1>3, <1>5, <1>8, <1>10, <1>11, <1>12, <1>14, <1>15 DEF Calm, Good, StillThere, Stacks, n

-----------------------------------------------------------------------------
(* env_get_expr *)

\* A set of naturals that is not empty has a least element.
LEMMA Least ==
  ASSUME NEW S \in SUBSET Nat, S # {}
  PROVE  \E n \in S : \A m \in S : n <= m
<1> DEFINE R == {ss \in Nat \X Nat : ss[1] < ss[2]}
<1>1. R = OpToRel(<, Nat)
  BY Zenon DEF OpToRel
<1>2. IsWellFoundedOn(R, Nat)
  BY <1>1, NatLessThanWellFounded, Zenon
<1>3. \E x \in S : \A y \in S : ~(<<y, x>> \in R)
  BY <1>2, WFMin
<1>4. \A x, y \in Nat : <<y, x>> \in R <=> y < x
  OBVIOUS
<1> HIDE DEF R
<1>5. PICK x \in S : \A y \in S : ~(<<y, x>> \in R)
  BY <1>3
<1>6. x \in Nat /\ \A y \in S : y \in Nat /\ ~(y < x)
  BY <1>4, <1>5
<1> QED
  BY <1>6

\* Induction up to a bound, for a set of numbers.
LEMMA UpTo ==
  ASSUME NEW l \in Nat, NEW P, 0 \in P, \A k \in 0..l : k \in P /\ k < l => k + 1 \in P
  PROVE  \A k \in 0..l : k \in P
<1> DEFINE Bad == (0..l) \ P
<1> SUFFICES ASSUME Bad # {} PROVE FALSE
  OBVIOUS
<1>1. PICK n \in Bad : \A k \in Bad : n <= k
  <2>1. Bad \in SUBSET Nat
    OBVIOUS
  <2> HIDE DEF Bad
  <2> QED
    BY <2>1, Least
<1>2. n # 0 /\ n - 1 \in 0..l /\ n - 1 < l
  BY <1>1
<1>3. n - 1 \in P
  BY <1>1, <1>2
<1>4. n \in P
  BY <1>1, <1>2, <1>3
<1> QED
  BY <1>1, <1>4

\* the expressions that have the name in some scope
Named(m, name) == {m.scopes[s].dict[name] : s \in {s \in DOMAIN m.scopes : name \in DOMAIN m.scopes[s].dict}}

\* What env_get_expr returns is an expression of a scope, or NULL; a name of the scope
\* itself is found there.
LEMMA GetExprNamed ==
  ASSUME NEW m \in Memory, InOnePiece(m), NEW e \in DOMAIN m.scopes, NEW name
  PROVE  /\ GetExpr(m, e, name) \in Named(m, name) \cup {0}
         /\ name \in DOMAIN m.scopes[e].dict => GetExpr(m, e, name) = m.scopes[e].dict[name]
<1> DEFINE l == Len(m.scopes)
           Value(g, s) == IF s = 0 THEN 0
                          ELSE IF name \in DOMAIN m.scopes[s].dict THEN m.scopes[s].dict[name]
                          ELSE g[m.scopes[s].upper]
           get == CHOOSE g : g = [s \in 0..l |-> Value(g, s)]
<1>1. l \in Nat /\ DOMAIN m.scopes = 1..l
  <2>1. m.scopes \in Seq(Scopes)
    BY DEF Memory
  <2> QED
    BY <2>1, LenProperties
<1>2. GetExpr(m, e, name) = get[e]
  BY DEF GetExpr
<1>3. \A s \in 1..l : m.scopes[s].upper \in 0..(s - 1)
  BY <1>1 DEF InOnePiece
<1>4. \A s \in 1..l : name \in DOMAIN m.scopes[s].dict => m.scopes[s].dict[name] \in Named(m, name)
  BY <1>1 DEF Named
<1> HIDE DEF l
<1>5. \E g : \A s \in 0..l : g[s] = Value(g, s)
  <2> DEFINE P == {k \in 0..l : \E g : \A s \in 0..k : g[s] = Value(g, s)}
  <2>1. 0 \in P
    <3> DEFINE g == [s \in 0..l |-> 0]
    <3>1. \A s \in 0..0 : g[s] = Value(g, s)
      BY <1>1
    <3> HIDE DEF g
    <3> QED
      BY <1>1, <3>1
  <2>2. ASSUME NEW k \in 0..l, k \in P, k < l PROVE k + 1 \in P
    <3>1. PICK g : \A s \in 0..k : g[s] = Value(g, s)
      BY <2>2
    <3> DEFINE h == [s \in 0..l |-> IF s = k + 1 THEN Value(g, k + 1) ELSE g[s]]
    <3>2. \A s \in 0..k : h[s] = g[s]
      BY <1>1
    <3>3. h[k + 1] = Value(g, k + 1)
      BY <1>1, <2>2
    <3> HIDE DEF h
    <3>4. \A s \in 0..(k + 1) : s = 0 \/ (s \in 1..l /\ m.scopes[s].upper \in 0..k)
      BY <1>1, <1>3, <2>2
    <3>5. \A s \in 0..(k + 1) : Value(h, s) = Value(g, s)
      BY <3>2, <3>4
    <3>6. \A s \in 0..(k + 1) : h[s] = Value(h, s)
      BY <1>1, <3>1, <3>2, <3>3, <3>5
    <3> HIDE DEF Value
    <3> QED
      BY <1>1, <2>2, <3>6
  <2> HIDE DEF P
  <2>3. \A k \in 0..l : k \in P
    BY <1>1, <2>1, <2>2, UpTo
  <2>4. l \in P
    BY <1>1, <2>3
  <2> HIDE DEF Value
  <2> QED
    BY <2>4 DEF P
<1>6. \E g : g = [s \in 0..l |-> Value(g, s)]
  <2>1. PICK g : \A s \in 0..l : g[s] = Value(g, s)
    BY <1>5
  <2> DEFINE h == [s \in 0..l |-> g[s]]
  <2>2. \A s \in 0..l : s = 0 \/ (s \in 1..l /\ m.scopes[s].upper \in 0..l)
    BY <1>1, <1>3
  <2>3. \A s \in 0..l : h[s] = g[s]
    OBVIOUS
  <2>4. h = [s \in 0..l |-> h[s]]
    OBVIOUS
  <2> HIDE DEF h
  <2>5. \A s \in 0..l : Value(h, s) = Value(g, s)
    BY <2>2, <2>3
  <2>6. \A s \in 0..l : h[s] = Value(h, s)
    BY <2>1, <2>3, <2>5
  <2> HIDE DEF Value
  <2>7. h = [s \in 0..l |-> Value(h, s)]
    BY <2>4, <2>6
  <2> QED
    BY <2>7
<1>7. \A s \in 0..l : get[s] = Value(get, s)
  <2>1. get = [s \in 0..l |-> Value(get, s)]
    BY <1>6
  <2> HIDE DEF Value, get
  <2> QED
    BY <2>1
<1> HIDE DEF get
<1>8. \A k \in 0..l : get[k] \in Named(m, name) \cup {0}
  <2> DEFINE P == {k \in 0..l : \A s \in 0..k : get[s] \in Named(m, name) \cup {0}}
  <2>1. 0 \in P
    BY <1>1, <1>7
  <2>2. ASSUME NEW k \in 0..l, k \in P, k < l PROVE k + 1 \in P
    <3>1. \A s \in 0..k : get[s] \in Named(m, name) \cup {0}
      BY <2>2
    <3>2. k + 1 \in 1..l /\ m.scopes[k + 1].upper \in 0..k
      BY <1>1, <1>3, <2>2
    <3>3. get[k + 1] \in Named(m, name) \cup {0}
      BY <1>1, <1>4, <1>7, <3>1, <3>2
    <3> QED
      BY <1>1, <2>2, <3>1, <3>3
  <2> HIDE DEF P
  <2>3. \A k \in 0..l : k \in P
    BY <1>1, <2>1, <2>2, UpTo
  <2> QED
    BY <1>1, <2>3 DEF P
<1>9. GetExpr(m, e, name) \in Named(m, name) \cup {0}
  BY <1>1, <1>2, <1>8
<1>10. name \in DOMAIN m.scopes[e].dict => GetExpr(m, e, name) = m.scopes[e].dict[name]
  BY <1>1, <1>2, <1>7
<1> QED
  BY <1>9, <1>10

\* It is an expression there is.
LEMMA GetExprFound ==
  ASSUME NEW m \in Memory, InOnePiece(m), NEW e \in DOMAIN m.scopes, NEW name
  PROVE  GetExpr(m, e, name) \in DOMAIN m.exprs \cup {0}
<1>1. Named(m, name) \subseteq DOMAIN m.exprs
  BY DEF Named, InOnePiece
<1> QED
  BY <1>1, GetExprNamed

-----------------------------------------------------------------------------
(* The tasks that generate *)

\* Programs are nodes, and so are children.
LEMMA NodesClosed == Programs \subseteq Nodes /\ {n.kids : n \in Nodes} \subseteq Seq(Nodes)
<1>1. Programs \subseteq Nodes
  BY ProgramsAssumption DEF Nodes
<1>2. ASSUME NEW n \in Nodes PROVE n.kids \in Seq(Nodes)
  <2>1. PICK p \in Programs : n \in NodesOf(p)
    BY DEF Nodes
  <2>2. n.kids \in Seq(NodesOf(p))
    BY <2>1, ProgramsAssumption
  <2>3. NodesOf(p) \subseteq Nodes
    BY DEF Nodes
  <2>4. ASSUME NEW S, NEW T, S \subseteq T, NEW s \in Seq(S) PROVE s \in Seq(T)
    BY <2>4, SeqDef
  <2> QED
    BY <2>2, <2>3, <2>4
<1> QED
  BY <1>1, <1>2

\* What coregen counts on in a node.
LEMMA NodeFields ==
  ASSUME NEW n \in Nodes
  PROVE  /\ n.kids \in Seq(Nodes) /\ n.names \in Seq(Texts)
         /\ n.rule \in {"MODULE", "LET", "NEG", "VAL_DECL", "FN_DECL", "OP_APPL"} =>
              n.kids # <<>> /\ n.kids[1] \in Nodes
         /\ n.rule = "OP_APPL" => n.kids[2] \in Nodes
         /\ n.rule \in {"VAL_DECL", "FN_DECL"} => n.names[1] \in Texts
<1>1. n.kids \in Seq(Nodes) /\ n.names \in Seq(Texts)
  BY NodesClosed, ProgramsAssumption
<1>2. /\ n.rule \in {"MODULE", "LET", "NEG", "VAL_DECL", "FN_DECL"} => Len(n.kids) >= 1
      /\ n.rule = "OP_APPL" => Len(n.kids) >= 2
      /\ n.rule \in {"VAL_DECL", "FN_DECL"} => Len(n.names) >= 1
  BY ProgramsAssumption
<1>3. ASSUME NEW s \in Seq(Nodes) PROVE /\ Len(s) >= 1 => s # <<>> /\ s[1] \in Nodes
                                        /\ Len(s) >= 2 => s # <<>> /\ s[1] \in Nodes /\ s[2] \in Nodes
  BY LenProperties, EmptySeq
<1>4. ASSUME NEW s \in Seq(Texts) PROVE Len(s) >= 1 => s[1] \in Texts
  BY LenProperties
<1>5. /\ Len(n.kids) >= 1 => n.kids # <<>> /\ n.kids[1] \in Nodes
      /\ Len(n.kids) >= 2 => n.kids # <<>> /\ n.kids[1] \in Nodes /\ n.kids[2] \in Nodes
  BY <1>1, <1>3
<1>6. Len(n.names) >= 1 => n.names[1] \in Texts
  BY <1>1, <1>4
<1> QED
  BY <1>1, <1>2, <1>5, <1>6

\* A new expression that owns nothing and points at nothing.
LEMMA PlainExpr ==
  ASSUME NEW m, NEW f \in Forms \ {"LAMBDA", "INDIR"}, NEW name \in Texts, NEW at \in Seq(Nat)
  PROVE  Plain(m, Expr(f, name, at))
BY EmptySeq DEF Plain, Expr, Exprs

\* NULL is the name of what has none.
LEMMA NullText == NULL \in Texts
BY DEF Texts

\* tasks that generate
Generates(m, tasks) ==
  /\ tasks \in Seq(Tasks)
  /\ \A i \in DOMAIN tasks :
       /\ tasks[i].fn \notin {"client", "endlet", "core", "env"}
       /\ tasks[i].fn \in {"gen", "child"} => tasks[i].x \in DOMAIN m.exprs
       /\ tasks[i].e \in DOMAIN m.scopes

\* They may be pushed.
LEMMA GeneratesPushable ==
  ASSUME NEW m, NEW tasks, Generates(m, tasks)
  PROVE  Pushable(m, tasks)
BY DEF Generates, Pushable

\* tasks that generate, given one by one
Listed(m, l, f) ==
  /\ l \in Nat /\ f \in [1..l -> Generating]
  /\ \A i \in 1..l : /\ f[i].fn \in {"gen", "child"} => f[i].x \in DOMAIN m.exprs
                    /\ f[i].e \in DOMAIN m.scopes

\* They are a sequence.
LEMMA GeneratesListed ==
  ASSUME NEW m, NEW l, NEW f, Listed(m, l, f)
  PROVE  Generates(m, f)
<1>1. l \in Nat /\ f \in [1..l -> Generating] /\ DOMAIN f = 1..l
  BY DEF Listed
<1>2. f \in [1..l -> Tasks]
  BY <1>1 DEF Tasks
<1>3. f \in Seq(Tasks)
  BY <1>1, <1>2, SeqDef
<1>4. ASSUME NEW t \in Generating PROVE t.fn \notin {"client", "endlet", "core", "env"}
  BY DEF Generating
<1>5. \A i \in 1..l : f[i].fn \notin {"client", "endlet", "core", "env"}
  BY <1>1, <1>4
<1> QED
  BY <1>1, <1>3, <1>5 DEF Generates, Listed

\* Two sequences of them, one behind the other.
LEMMA GeneratesConcat ==
  ASSUME NEW m, NEW s, NEW t, Generates(m, s), Generates(m, t)
  PROVE  Generates(m, s \o t)
<1>1. s \in Seq(Tasks) /\ t \in Seq(Tasks)
  BY DEF Generates
<1>2. /\ s \o t \in Seq(Tasks) /\ Len(s \o t) = Len(s) + Len(t)
      /\ \A i \in 1..(Len(s) + Len(t)) : (s \o t)[i] = IF i <= Len(s) THEN s[i] ELSE t[i - Len(s)]
  BY <1>1, ConcatProperties
<1>3. /\ DOMAIN s = 1..Len(s) /\ DOMAIN t = 1..Len(t) /\ DOMAIN (s \o t) = 1..(Len(s) + Len(t))
      /\ Len(s) \in Nat /\ Len(t) \in Nat
  BY <1>1, <1>2, LenProperties
<1>4. ASSUME NEW i \in DOMAIN (s \o t)
      PROVE  \/ i \in DOMAIN s /\ (s \o t)[i] = s[i]
             \/ i - Len(s) \in DOMAIN t /\ (s \o t)[i] = t[i - Len(s)]
  BY <1>2, <1>3
<1> QED
  BY <1>2, <1>4 DEF Generates

\* The two kinds of tasks of coregen_from_ast.
LEMMA GenTask ==
  ASSUME NEW x \in Nat, NEW node \in Nodes, NEW e \in Nat, NEW at \in Seq(Nat)
  PROVE  /\ Gen(x, node, e, at) \in Generating /\ Gen(x, node, e, at).fn = "gen"
         /\ Gen(x, node, e, at).x = x /\ Gen(x, node, e, at).e = e
         /\ Child(x, node, e, at) \in Generating /\ Child(x, node, e, at).fn = "child"
         /\ Child(x, node, e, at).x = x /\ Child(x, node, e, at).e = e
BY DEF Gen, Child, Generating

\* A place in the tree and the places below it.
LEMMA Below ==
  ASSUME NEW at \in Seq(Nat), NEW i \in Nat
  PROVE  Append(at, i) \in Seq(Nat) /\ at \o <<0, i>> \in Seq(Nat)
<1>1. <<0, i>> \in Seq(Nat)
  OBVIOUS
<1> QED
  BY <1>1, ConcatProperties, AppendProperties

\* The tasks of the two loops over declarations.
LEMMA DeclareGenerates ==
  ASSUME NEW m, NEW decls \in Seq(Nodes), NEW e \in DOMAIN m.scopes, e \in Nat, NEW at \in Seq(Nat)
  PROVE  Generates(m, Declare(decls, e, at))
<1> DEFINE p == [i \in DOMAIN decls |-> [fn |-> "populate", node |-> decls[i], e |-> e, at |-> Append(at, i)]]
           g == [i \in DOMAIN decls |-> [fn |-> "generate", node |-> decls[i], e |-> e, at |-> Append(at, i)]]
           l == Len(decls)
<1>1. l \in Nat /\ DOMAIN decls = 1..l /\ \A i \in 1..l : decls[i] \in Nodes
  BY LenProperties
<1> HIDE DEF l
<1>2. \A i \in 1..l : Append(at, i) \in Seq(Nat)
  BY Below
<1>3. p \in [1..l -> Generating] /\ \A i \in 1..l : p[i] \in Generating /\ p[i].fn = "populate" /\ p[i].e = e
  BY <1>1, <1>2 DEF Generating
<1>4. g \in [1..l -> Generating] /\ \A i \in 1..l : g[i] \in Generating /\ g[i].fn = "generate" /\ g[i].e = e
  BY <1>1, <1>2 DEF Generating
<1>5. Declare(decls, e, at) = p \o g
  BY DEF Declare
<1> HIDE DEF p, g
<1>6. Listed(m, l, p)
  BY <1>1, <1>3 DEF Listed
<1>7. Listed(m, l, g)
  BY <1>1, <1>4 DEF Listed
<1>8. Generates(m, p) /\ Generates(m, g)
  BY <1>6, <1>7, GeneratesListed
<1> QED
  BY <1>5, <1>8, GeneratesConcat

\* The tasks for the children of a node.
LEMMA ChildrenGenerates ==
  ASSUME NEW m, NEW x \in DOMAIN m.exprs, x \in Nat, NEW node \in Nodes,
         NEW e \in DOMAIN m.scopes, e \in Nat, NEW at \in Seq(Nat)
  PROVE  Generates(m, Children(x, node, e, at))
<1> DEFINE c == [i \in DOMAIN node.kids |-> Child(x, node.kids[i], e, Append(at, i))]
           l == Len(node.kids)
<1>1. l \in Nat /\ DOMAIN node.kids = 1..l /\ \A i \in 1..l : node.kids[i] \in Nodes
  <2>1. node.kids \in Seq(Nodes)
    BY NodeFields
  <2> QED
    BY <2>1, LenProperties
<1> HIDE DEF l
<1>2. \A i \in 1..l : Append(at, i) \in Seq(Nat)
  BY Below
<1>3. c = [i \in 1..l |-> c[i]] /\ \A i \in 1..l : c[i] = Child(x, node.kids[i], e, Append(at, i))
  BY <1>1
<1>4. Children(x, node, e, at) = c
  BY DEF Children
<1> HIDE DEF c
<1>5. ASSUME NEW i \in 1..l PROVE c[i] \in Generating /\ c[i].x = x /\ c[i].e = e
  <2>1. node.kids[i] \in Nodes /\ Append(at, i) \in Seq(Nat)
    BY <1>1, <1>2
  <2>2. /\ Child(x, node.kids[i], e, Append(at, i)) \in Generating
        /\ Child(x, node.kids[i], e, Append(at, i)).x = x
        /\ Child(x, node.kids[i], e, Append(at, i)).e = e
    <3>1. ASSUME NEW k \in Nodes, NEW b \in Seq(Nat)
          PROVE  Child(x, k, e, b) \in Generating /\ Child(x, k, e, b).x = x /\ Child(x, k, e, b).e = e
      BY GenTask, SMTT(20)
    <3> QED
      BY <2>1, <3>1
  <2>3. c[i] = Child(x, node.kids[i], e, Append(at, i))
    BY <1>3
  <2> QED
    BY <2>2, <2>3, Zenon
<1>6. c \in [1..l -> Generating]
  BY <1>3, <1>5
<1>7. ASSUME NEW i \in 1..l PROVE c[i].x \in DOMAIN m.exprs /\ c[i].e \in DOMAIN m.scopes
  BY <1>5
<1>8. Listed(m, l, c)
  BY <1>1, <1>6, <1>7 DEF Listed
<1> QED
  BY <1>4, <1>8, GeneratesListed

\* One task.
LEMMA TaskGenerates ==
  ASSUME NEW m, NEW s \in Generating, s.e \in DOMAIN m.scopes,
         s.fn \in {"gen", "child"} => s.x \in DOMAIN m.exprs
  PROVE  Generates(m, <<s>>)
<1>1. <<s>> \in Seq(Tasks) /\ DOMAIN <<s>> = {1}
  BY DEF Tasks
<1>2. s.fn \notin {"client", "endlet", "core", "env"}
  BY DEF Generating
<1> QED
  BY <1>1, <1>2 DEF Generates

\* A task behind others.
LEMMA AppendGenerates ==
  ASSUME NEW m, NEW tasks, Generates(m, tasks), NEW s, Generates(m, <<s>>)
  PROVE  Generates(m, Append(tasks, s))
<1>1. tasks \in Seq(Tasks) /\ s \in Tasks
  <2>1. <<s>>[1] \in Tasks
    BY DEF Generates
  <2> QED
    BY <2>1 DEF Generates
<1>2. Append(tasks, s) = tasks \o <<s>>
  BY <1>1
<1> QED
  BY <1>2, GeneratesConcat

\* Two tasks.
LEMMA TasksGenerate ==
  ASSUME NEW m, NEW s, NEW t, Generates(m, <<s>>), Generates(m, <<t>>)
  PROVE  Generates(m, <<s, t>>)
<1>1. ASSUME NEW r, Generates(m, <<r>>)
      PROVE  /\ r \in Tasks /\ r.fn \notin {"client", "endlet", "core", "env"}
             /\ r.fn \in {"gen", "child"} => r.x \in DOMAIN m.exprs
             /\ r.e \in DOMAIN m.scopes
  <2>1. 1 \in DOMAIN <<r>> /\ <<r>>[1] = r
    OBVIOUS
  <2>2. <<r>> \in Seq(Tasks)
    BY <1>1 DEF Generates
  <2>3. r \in Tasks
    BY <2>2
  <2> QED
    BY <1>1, <2>1, <2>3 DEF Generates
<1>2. s \in Tasks /\ t \in Tasks
  BY <1>1
<1>3. <<s, t>> \in Seq(Tasks)
  BY <1>2
<1>4. \A i \in DOMAIN <<s, t>> : <<s, t>>[i] = s \/ <<s, t>>[i] = t
  OBVIOUS
<1> QED
  BY <1>1, <1>3, <1>4 DEF Generates

-----------------------------------------------------------------------------
(* The functions that generate *)

\* From m to n nothing is undone.
LEMMA GrownThere ==
  ASSUME NEW m, NEW n, Grown(m, n)
  PROVE  /\ StillThere(m, n)
         /\ \A k : StillThere(n, k) => StillThere(m, k)
         /\ \A k : Grown(n, k) => Grown(m, k)
         /\ \A tasks : Generates(m, tasks) => Generates(n, tasks)
<1>1. n.todo = m.todo
  BY DEF Grown
<1>2. StillThere(m, n) /\ \A k : StillThere(n, k) => StillThere(m, k)
  BY <1>1 DEF StillThere, Stacks
<1>3. \A k : Grown(n, k) => Grown(m, k)
  BY DEF Grown
<1>4. \A tasks : Generates(m, tasks) => Generates(n, tasks)
  BY DEF Grown, Generates
<1> QED
  BY <1>2, <1>3, <1>4

\* Tasks that generate are pushed.
LEMMA CalmPushGenerating ==
  ASSUME NEW m, Calm(m), NEW tasks, Generates(m, tasks)
  PROVE  Calm(Push(m, tasks)) /\ StillThere(m, Push(m, tasks))
BY GeneratesPushable, CalmPush

\* What exists is a number, and so is the newest expression.
LEMMA Numbers ==
  ASSUME NEW m, Calm(m)
  PROVE  /\ DOMAIN m.exprs \subseteq Nat \ {0} /\ DOMAIN m.scopes \subseteq Nat \ {0}
         /\ DOMAIN m.exprs # {} => Newest(m) \in DOMAIN m.exprs
         /\ Global \in DOMAIN m.scopes
<1>1. m.exprs \in Seq(Exprs) /\ m.scopes \in Seq(Scopes) /\ Len(m.scopes) >= 2
  BY DEF Calm, Good, Memory, Uppers
<1>2. /\ Len(m.exprs) \in Nat /\ DOMAIN m.exprs = 1..Len(m.exprs)
      /\ Len(m.scopes) \in Nat /\ DOMAIN m.scopes = 1..Len(m.scopes)
  BY <1>1, LenProperties
<1> QED
  BY <1>1, <1>2 DEF Newest, Global

\* coregen_populate_env
LEMMA CalmPopulateEnv ==
  ASSUME NEW m, Calm(m), NEW t, t.node \in Nodes, t.e \in DOMAIN m.scopes, t.at \in Seq(Nat)
  PROVE  Calm(PopulateEnv(m, t)) /\ StillThere(m, PopulateEnv(m, t))
<1>1. CASE IsBinding(t.node)
  <2> DEFINE name == t.node.names[1]
             o == Expr("UNSET", name, t.at)
  <2>1. name \in Texts
    BY <1>1, NodeFields DEF IsBinding
  <2>2. Plain(m, o)
    BY <2>1, PlainExpr DEF Forms
  <2>3. PopulateEnv(m, t) = PutExpr(m, t.e, name, o)
    BY <1>1 DEF PopulateEnv
  <2> HIDE DEF o, name
  <2>4. Calm(PopulateEnv(m, t)) /\ Grown(m, PopulateEnv(m, t))
    BY <2>1, <2>2, <2>3, CalmPutExpr
  <2> QED
    BY <2>4, GrownThere
<1>2. CASE ~IsBinding(t.node)
  BY <1>2 DEF PopulateEnv, StillThere, Stacks
<1> QED
  BY <1>1, <1>2

\* The placeholder of a parameter.
LEMMA CalmPutParam ==
  ASSUME NEW m, Calm(m), NEW t, t.name \in Texts, t.e \in DOMAIN m.scopes, t.at \in Seq(Nat)
  PROVE  Calm(PutParam(m, t)) /\ StillThere(m, PutParam(m, t))
<1> DEFINE o == Expr("PLACEHOLDER", t.name, t.at)
<1>1. Plain(m, o)
  BY PlainExpr DEF Forms
<1>2. PutParam(m, t) = PutExpr(m, t.e, t.name, o)
  BY DEF PutParam
<1> HIDE DEF o
<1>3. Calm(PutParam(m, t)) /\ Grown(m, PutParam(m, t))
  BY <1>1, <1>2, CalmPutExpr
<1> QED
  BY <1>3, GrownThere

\* The task of a new child.
LEMMA ChildTask ==
  ASSUME NEW m, NEW x \in DOMAIN m.exprs, x \in Nat, NEW node \in Nodes,
         NEW e \in DOMAIN m.scopes, e \in Nat, NEW at \in Seq(Nat)
  PROVE  Generates(m, <<Child(x, node, e, at)>>) /\ Generates(m, <<Gen(x, node, e, at)>>)
<1>1. /\ Child(x, node, e, at) \in Generating /\ Gen(x, node, e, at) \in Generating
      /\ Child(x, node, e, at).x = x /\ Child(x, node, e, at).e = e
      /\ Gen(x, node, e, at).x = x /\ Gen(x, node, e, at).e = e
  BY GenTask
<1> QED
  BY <1>1, TaskGenerates

\* The lambda of a function.
LEMMA CalmGenLambda ==
  ASSUME NEW m, Calm(m), NEW x \in DOMAIN m.exprs, NEW decl \in Nodes, decl.rule = "FN_DECL",
         NEW e \in DOMAIN m.scopes, NEW at \in Seq(Nat)
  PROVE  Calm(GenLambda(m, x, decl, e, at)) /\ StillThere(m, GenLambda(m, x, decl, e, at))
<1> DEFINE a == NewestScope(m) + 1
           l == Len(decl.names) - 1
           m1 == NewScope(m, e)
           m2 == Become(m1, x, "LAMBDA", decl.names[1], 0, a)
           params == [i \in 1..l |->
                        [fn |-> "param", e |-> a, name |-> decl.names[i + 1], at |-> at \o <<0, i + 1>>]]
           body == Child(x, decl.kids[1], a, Append(at, 1))
<1>1. GenLambda(m, x, decl, e, at) = Push(m2, Append(params, body))
  BY DEF GenLambda, BodyScope
<1>2. decl.names \in Seq(Texts) /\ decl.names[1] \in Texts /\ decl.kids[1] \in Nodes
  BY NodeFields
<1>3. l \in Nat /\ \A i \in 1..l : decl.names[i + 1] \in Texts
  <2>1. Len(decl.names) >= 1
    BY ProgramsAssumption
  <2>2. ASSUME NEW s \in Seq(Texts), Len(s) >= 1
        PROVE  Len(s) - 1 \in Nat /\ \A i \in 1..(Len(s) - 1) : s[i + 1] \in Texts
    BY <2>2, LenProperties
  <2> QED
    BY <1>2, <2>1, <2>2
<1> HIDE DEF a, l
<1>4. /\ Calm(m1) /\ Grown(m, m1) /\ Unowned(m1, a) /\ m1.exprs = m.exprs
      /\ a \in DOMAIN m1.scopes /\ a \in Nat \ {0}
  BY CalmNewScope DEF a
<1> HIDE DEF m1
<1>5. Calm(m2) /\ Grown(m1, m2) /\ DOMAIN m2.exprs = DOMAIN m1.exprs /\ m2.scopes = m1.scopes
  BY <1>2, <1>4, CalmBecome DEF Forms
<1> HIDE DEF m2
<1>6. Generates(m2, params)
  <2>1. \A i \in 1..l : at \o <<0, i + 1>> \in Seq(Nat)
    BY <1>3, Below
  <2>2. params \in [1..l -> Generating] /\ \A i \in 1..l : params[i].fn = "param" /\ params[i].e = a
    BY <1>3, <1>4, <2>1 DEF Generating
  <2> HIDE DEF params
  <2>3. Listed(m2, l, params)
    BY <1>3, <1>4, <1>5, <2>2 DEF Listed
  <2> QED
    BY <2>3, GeneratesListed
<1>7. Generates(m2, <<body>>)
  <2>1. x \in Nat
    BY Numbers
  <2>2. Append(at, 1) \in Seq(Nat)
    BY Below
  <2> QED
    BY <1>2, <1>4, <1>5, <2>1, <2>2, ChildTask
<1> HIDE DEF params, body
<1>8. Generates(m2, Append(params, body))
  BY <1>6, <1>7, AppendGenerates
<1>9. Calm(GenLambda(m, x, decl, e, at)) /\ StillThere(m2, GenLambda(m, x, decl, e, at))
  BY <1>1, <1>5, <1>8, CalmPushGenerating
<1> QED
  BY <1>4, <1>5, <1>9, GrownThere

\* coregen_generate_env
LEMMA CalmGenerateEnv ==
  ASSUME NEW m, Calm(m), NEW t, t.node \in Nodes, t.e \in DOMAIN m.scopes, t.at \in Seq(Nat)
  PROVE  Calm(GenerateEnv(m, t)) /\ StillThere(m, GenerateEnv(m, t))
<1> DEFINE x == GetExpr(m, t.e, t.node.names[1])
<1>1. x \in DOMAIN m.exprs \cup {0}
  BY GetExprFound DEF Calm, Good
<1>2. CASE ~IsBinding(t.node)
  BY <1>2 DEF GenerateEnv, StillThere, Stacks
<1>3. CASE IsBinding(t.node) /\ x = 0
  <2>1. GenerateEnv(m, t) = Fail(m)
    BY <1>3 DEF GenerateEnv, Missing
  <2> QED
    BY <2>1, CalmFail
<1>4. CASE IsBinding(t.node) /\ x # 0 /\ t.node.rule = "FN_DECL"
  <2>1. GenerateEnv(m, t) = GenLambda(m, x, t.node, t.e, t.at)
    BY <1>4 DEF GenerateEnv, Missing
  <2> HIDE DEF x
  <2> QED
    BY <1>1, <1>4, <2>1, CalmGenLambda
<1>5. CASE IsBinding(t.node) /\ x # 0 /\ t.node.rule # "FN_DECL"
  <2>1. GenerateEnv(m, t) = Push(m, <<Gen(x, t.node.kids[1], t.e, Append(t.at, 1))>>)
    BY <1>5 DEF GenerateEnv, Missing
  <2>2. t.node.kids[1] \in Nodes
    BY <1>5, NodeFields DEF IsBinding
  <2>3. Append(t.at, 1) \in Seq(Nat)
    BY Below
  <2> HIDE DEF x
  <2>4. x \in DOMAIN m.exprs /\ x \in Nat /\ t.e \in Nat
    BY <1>1, <1>5, Numbers
  <2>5. Generates(m, <<Gen(x, t.node.kids[1], t.e, Append(t.at, 1))>>)
    BY <2>2, <2>3, <2>4, ChildTask
  <2> QED
    BY <2>1, <2>5, CalmPushGenerating
<1> QED
  BY <1>2, <1>3, <1>4, <1>5

\* The tasks of a let: tasks that generate, and the end of its scope.
LEMMA LetPushable ==
  ASSUME NEW m, NEW tasks, Generates(m, tasks), NEW g, Generates(m, <<g>>),
         NEW l \in DOMAIN m.scopes, l \in Nat, Unowned(m, l)
  PROVE  Pushable(m, tasks \o <<g, [fn |-> "endlet", e |-> l]>>)
<1> DEFINE z == [fn |-> "endlet", e |-> l]
           two == <<g, z>>
           k == Len(tasks)
           r == tasks \o two
<1>1. z \in Tasks /\ z.fn = "endlet" /\ z.e = l
  BY DEF Tasks, Holding
<1> HIDE DEF z
<1>2. /\ g \in Tasks /\ g.fn \notin {"client", "endlet", "core", "env"}
      /\ g.fn \in {"gen", "child"} => g.x \in DOMAIN m.exprs
      /\ g.e \in DOMAIN m.scopes
  <2>1. 1 \in DOMAIN <<g>> /\ <<g>>[1] = g
    OBVIOUS
  <2>2. <<g>> \in Seq(Tasks)
    BY DEF Generates
  <2>3. g \in Tasks
    BY <2>2
  <2> QED
    BY <2>1, <2>3 DEF Generates
<1>3. two \in Seq(Tasks) /\ Len(two) = 2 /\ two[1] = g /\ two[2] = z
  BY <1>1, <1>2
<1>4. tasks \in Seq(Tasks) /\ k \in Nat /\ DOMAIN tasks = 1..k
  <2>1. tasks \in Seq(Tasks)
    BY DEF Generates
  <2> QED
    BY <2>1, LenProperties
<1> HIDE DEF two
<1>5. /\ r \in Seq(Tasks) /\ Len(r) = k + 2
      /\ \A i \in 1..(k + 2) : r[i] = IF i <= k THEN tasks[i] ELSE two[i - k]
  <2>1. /\ tasks \o two \in Seq(Tasks) /\ Len(tasks \o two) = Len(tasks) + Len(two)
        /\ \A i \in 1..(Len(tasks) + Len(two)) :
             (tasks \o two)[i] = IF i <= Len(tasks) THEN tasks[i] ELSE two[i - Len(tasks)]
    BY <1>3, <1>4, ConcatProperties
  <2> QED
    BY <1>3, <2>1
<1>6. DOMAIN r = 1..(k + 2)
  BY <1>5, LenProperties
<1> HIDE DEF k, r
<1>7. ASSUME NEW i \in DOMAIN r
      PROVE  (i \in DOMAIN tasks /\ r[i] = tasks[i]) \/ r[i] = g \/ (i = k + 2 /\ r[i] = z)
  <2>1. CASE i <= k
    BY <1>4, <1>5, <1>6, <2>1
  <2>2. CASE i = k + 1
    BY <1>3, <1>4, <1>5, <1>6, <2>2
  <2>3. CASE i = k + 2
    BY <1>3, <1>4, <1>5, <1>6, <2>3
  <2> QED
    BY <1>4, <1>6, <2>1, <2>2, <2>3
<1>8. \A i \in DOMAIN r :
        /\ r[i].fn \notin {"client", "core", "env"}
        /\ r[i].fn \in {"gen", "child"} => r[i].x \in DOMAIN m.exprs
        /\ r[i].e \in DOMAIN m.scopes
        /\ r[i].fn = "endlet" => i = k + 2 /\ Unowned(m, r[i].e)
  BY <1>1, <1>2, <1>7 DEF Generates
<1>9. Pushable(m, r)
  BY <1>5, <1>8 DEF Pushable
<1> QED
  BY <1>9 DEF r, two, z

\* A let; the scope of its bindings is held by the task that destroys it.
LEMMA CalmGenLet ==
  ASSUME NEW m, Calm(m), NEW x \in DOMAIN m.exprs, NEW node \in Nodes, node.rule = "LET",
         NEW e \in DOMAIN m.scopes, NEW at \in Seq(Nat)
  PROVE  Calm(GenLet(m, x, node, e, at)) /\ StillThere(m, GenLet(m, x, node, e, at))
<1> DEFINE l == NewestScope(m) + 1
           m1 == NewScope(m, e)
           decls == Declare(Front(node.kids), l, at)
           body == Gen(x, Last(node.kids), l, Append(at, Len(node.kids)))
<1>1. GenLet(m, x, node, e, at) = Push(m1, decls \o <<body, [fn |-> "endlet", e |-> l]>>)
  BY DEF GenLet
<1>2. Front(node.kids) \in Seq(Nodes) /\ Last(node.kids) \in Nodes /\ Len(node.kids) \in Nat
  <2>1. node.kids \in Seq(Nodes) /\ node.kids # <<>>
    BY NodeFields
  <2> QED
    BY <2>1, Shortened
<1> HIDE DEF l
<1>3. /\ Calm(m1) /\ Grown(m, m1) /\ Unowned(m1, l) /\ m1.exprs = m.exprs
      /\ l \in DOMAIN m1.scopes /\ l \in Nat
  BY CalmNewScope DEF l
<1> HIDE DEF m1
<1>4. Generates(m1, decls)
  BY <1>2, <1>3, DeclareGenerates
<1>5. Generates(m1, <<body>>)
  <2>1. x \in Nat
    BY Numbers
  <2>2. Append(at, Len(node.kids)) \in Seq(Nat)
    BY <1>2, Below
  <2> QED
    BY <1>2, <1>3, <2>1, <2>2, ChildTask
<1> HIDE DEF decls, body
<1>6. Pushable(m1, decls \o <<body, [fn |-> "endlet", e |-> l]>>)
  BY <1>3, <1>4, <1>5, LetPushable
<1>7. Calm(GenLet(m, x, node, e, at)) /\ StillThere(m1, GenLet(m, x, node, e, at))
  BY <1>1, <1>3, <1>6, CalmPush
<1> QED
  BY <1>3, <1>7, GrownThere

\* An expression that is used anew and owns nothing.
LEMMA CalmIs ==
  ASSUME NEW m, Calm(m), NEW x \in DOMAIN m.exprs, NEW f \in Forms \ {"LAMBDA", "INDIR"}, NEW n,
         n = Become(m, x, f, NULL, 0, 0)
  PROVE  Calm(n) /\ Grown(m, n) /\ DOMAIN n.exprs = DOMAIN m.exprs /\ n.scopes = m.scopes
BY CalmBecome, NullText, SMTT(20)

\* A new expression below x that points at another.
LEMMA CalmIndirChild ==
  ASSUME NEW m, Calm(m), NEW x \in DOMAIN m.exprs, NEW target \in DOMAIN m.exprs, NEW at \in Seq(Nat)
  PROVE  Calm(IndirChild(m, x, target, at)) /\ Grown(m, IndirChild(m, x, target, at))
<1> DEFINE o == [Expr("INDIR", NULL, at) EXCEPT !.target = target]
<1>1. target \in Nat /\ target # 0
  BY Numbers
<1>2. Plain(m, o)
  <2>1. /\ o.form = "INDIR" /\ o.name = NULL /\ o.kids = <<>> /\ o.target = target /\ o.args = 0
        /\ o.at = at
    BY DEF Expr
  <2>2. o \in Exprs
    BY <1>1, NullText, EmptySeq DEF Expr, Exprs, Forms
  <2> HIDE DEF o
  <2> QED
    BY <1>1, <2>1, <2>2 DEF Plain
<1>3. IndirChild(m, x, target, at) = NewChild(m, x, o)
  BY DEF IndirChild
<1> HIDE DEF o
<1> QED
  BY <1>2, <1>3, CalmNewChild

\* An operator applied to two operands.
LEMMA CalmGenOpAppl ==
  ASSUME NEW m, Calm(m), NEW x \in DOMAIN m.exprs, NEW node \in Nodes, node.rule = "OP_APPL",
         NEW op \in DOMAIN m.exprs, NEW e \in DOMAIN m.scopes, NEW at \in Seq(Nat)
  PROVE  Calm(GenOpAppl(m, x, node, op, e, at)) /\ StillThere(m, GenOpAppl(m, x, node, op, e, at))
<1> DEFINE m0 == Become(m, x, "APPL", NULL, 0, 0)
           o == Expr("APPL", NULL, Append(at, 0))
           m1 == NewChild(m0, x, o)
           fn == Newest(m1)
           m2 == IndirChild(m1, fn, op, Append(at, 0))
           left == Child(fn, node.kids[1], e, Append(at, 1))
           right == Child(x, node.kids[2], e, Append(at, 2))
<1>1. GenOpAppl(m, x, node, op, e, at) = Push(m2, <<left, right>>)
  BY DEF GenOpAppl
<1>2. node.kids[1] \in Nodes /\ node.kids[2] \in Nodes
  BY NodeFields
<1>3. Append(at, 0) \in Seq(Nat) /\ Append(at, 1) \in Seq(Nat) /\ Append(at, 2) \in Seq(Nat)
  BY Below
<1>4. Calm(m0) /\ Grown(m, m0) /\ DOMAIN m0.exprs = DOMAIN m.exprs /\ m0.scopes = m.scopes
  BY CalmIs DEF Forms
<1>5. Plain(m0, o)
  BY <1>3, NullText, PlainExpr DEF Forms
<1> HIDE DEF m0, o
<1>6. Calm(m1) /\ Grown(m0, m1) /\ DOMAIN m0.exprs \subseteq DOMAIN m1.exprs
  BY <1>4, <1>5, CalmNewChild DEF Grown
<1> HIDE DEF m1
<1>7. fn \in DOMAIN m1.exprs
  BY <1>4, <1>6, Numbers
<1> HIDE DEF fn
<1>8. Calm(m2) /\ Grown(m1, m2)
  BY <1>3, <1>4, <1>6, <1>7, CalmIndirChild
<1> HIDE DEF m2
<1>9. Grown(m, m2)
  BY <1>4, <1>6, <1>8, GrownThere
<1>10. x \in DOMAIN m2.exprs /\ fn \in DOMAIN m2.exprs /\ e \in DOMAIN m2.scopes
  BY <1>7, <1>8, <1>9 DEF Grown
<1>11. x \in Nat /\ fn \in Nat /\ e \in Nat
  BY <1>8, <1>10, Numbers
<1>12. Generates(m2, <<left>>) /\ Generates(m2, <<right>>)
  BY <1>2, <1>3, <1>10, <1>11, ChildTask
<1> HIDE DEF left, right
<1>13. Calm(GenOpAppl(m, x, node, op, e, at)) /\ StillThere(m2, GenOpAppl(m, x, node, op, e, at))
  BY <1>1, <1>8, <1>12, TasksGenerate, CalmPushGenerating
<1> QED
  BY <1>9, <1>13, GrownThere

\* A negation.
LEMMA CalmGenNeg ==
  ASSUME NEW m, Calm(m), NEW x \in DOMAIN m.exprs, NEW node \in Nodes, node.rule = "NEG",
         NEW e \in DOMAIN m.scopes, NEW at \in Seq(Nat)
  PROVE  Calm(GenNeg(m, x, node, e, at)) /\ StillThere(m, GenNeg(m, x, node, e, at))
<1> DEFINE m0 == Become(m, x, "APPL", NULL, 0, 0)
           o == Expr("INTRINSIC", NULL, Append(at, 0))
           m1 == NewChild(m0, x, o)
           operand == Child(x, node.kids[1], e, Append(at, 1))
<1>1. GenNeg(m, x, node, e, at) = Push(m1, <<operand>>)
  BY DEF GenNeg
<1>2. node.kids[1] \in Nodes
  BY NodeFields
<1>3. Append(at, 0) \in Seq(Nat) /\ Append(at, 1) \in Seq(Nat)
  BY Below
<1>4. Calm(m0) /\ Grown(m, m0) /\ DOMAIN m0.exprs = DOMAIN m.exprs /\ m0.scopes = m.scopes
  BY CalmIs DEF Forms
<1>5. Plain(m0, o)
  BY <1>3, NullText, PlainExpr DEF Forms
<1> HIDE DEF m0, o
<1>6. Calm(m1) /\ Grown(m0, m1)
  BY <1>4, <1>5, CalmNewChild
<1> HIDE DEF m1
<1>7. Grown(m, m1)
  BY <1>4, <1>6, GrownThere
<1>8. x \in DOMAIN m1.exprs /\ e \in DOMAIN m1.scopes
  BY <1>7 DEF Grown
<1>9. x \in Nat /\ e \in Nat
  BY <1>6, <1>8, Numbers
<1>10. Generates(m1, <<operand>>)
  BY <1>2, <1>3, <1>8, <1>9, ChildTask
<1> HIDE DEF operand
<1>11. Calm(GenNeg(m, x, node, e, at)) /\ StillThere(m1, GenNeg(m, x, node, e, at))
  BY <1>1, <1>6, <1>10, CalmPushGenerating
<1> QED
  BY <1>7, <1>11, GrownThere

\* coregen_from_ast
LEMMA CalmFromAst ==
  ASSUME NEW m, Calm(m), NEW x \in DOMAIN m.exprs, NEW node \in Nodes,
         NEW e \in DOMAIN m.scopes, NEW at \in Seq(Nat)
  PROVE  Calm(FromAst(m, x, node, e, at)) /\ StillThere(m, FromAst(m, x, node, e, at))
<1> DEFINE n == FromAst(m, x, node, e, at)
           target == GetExpr(m, e, node.names[1])
<1>1. target \in DOMAIN m.exprs \cup {0}
  BY GetExprFound DEF Calm, Good
<1>2. ASSUME NEW f \in Forms \ {"LAMBDA", "INDIR"}
      PROVE  /\ Calm(Become(m, x, f, NULL, 0, 0)) /\ Grown(m, Become(m, x, f, NULL, 0, 0))
             /\ DOMAIN Become(m, x, f, NULL, 0, 0).exprs = DOMAIN m.exprs
             /\ Become(m, x, f, NULL, 0, 0).scopes = m.scopes
             /\ StillThere(m, Become(m, x, f, NULL, 0, 0))
  BY CalmIs, GrownThere
<1>3. ASSUME NEW f \in Forms \ {"LAMBDA", "INDIR"}, NEW k,
             k = Push(Become(m, x, f, NULL, 0, 0), Children(x, node, e, at))
      PROVE  Calm(k) /\ StillThere(m, k)
  <2> DEFINE m0 == Become(m, x, f, NULL, 0, 0)
  <2>1. Calm(m0) /\ Grown(m, m0) /\ DOMAIN m0.exprs = DOMAIN m.exprs /\ m0.scopes = m.scopes
    BY <1>2
  <2>2. k = Push(m0, Children(x, node, e, at))
    BY <1>3
  <2> HIDE DEF m0
  <2>3. x \in Nat /\ e \in Nat
    BY Numbers
  <2>4. Generates(m0, Children(x, node, e, at))
    BY <2>1, <2>3, ChildrenGenerates
  <2>5. Calm(k) /\ StillThere(m0, k)
    BY <2>1, <2>2, <2>4, CalmPushGenerating
  <2> QED
    BY <2>1, <2>5, GrownThere
<1>4. CASE node.rule \in {"CON", "INT", "DO"}
  <2>1. \E f \in {"CONSTRUCTOR", "LITERAL", "NO_FORM"} : n = Become(m, x, f, NULL, 0, 0)
    BY <1>4 DEF FromAst
  <2> HIDE DEF n
  <2>2. Calm(n) /\ StillThere(m, n)
    BY <1>2, <2>1 DEF Forms
  <2> QED
    BY <2>2 DEF n
<1>5. CASE node.rule \in {"FN_APPL", "IF"}
  <2>1. \E f \in {"APPL", "COND"} : n = Push(Become(m, x, f, NULL, 0, 0), Children(x, node, e, at))
    BY <1>5 DEF FromAst
  <2> HIDE DEF n
  <2>2. Calm(n) /\ StillThere(m, n)
    BY <1>3, <2>1 DEF Forms
  <2> QED
    BY <2>2 DEF n
<1>6. CASE node.rule = "VAR" /\ target # 0
  <2>1. n = Become(m, x, "INDIR", NULL, target, 0)
    BY <1>6 DEF FromAst, Missing
  <2> HIDE DEF n, target
  <2>2. Calm(n) /\ Grown(m, n)
    BY <1>1, <1>6, <2>1, NullText, CalmBecome DEF Forms
  <2> QED
    BY <2>2, GrownThere DEF n
<1>7. CASE node.rule = "OP_APPL" /\ target # 0
  <2>1. n = GenOpAppl(m, x, node, target, e, at)
    BY <1>7 DEF FromAst, Missing
  <2> HIDE DEF n, target
  <2>2. Calm(n) /\ StillThere(m, n)
    BY <1>1, <1>7, <2>1, CalmGenOpAppl
  <2> QED
    BY <2>2 DEF n
<1>8. CASE node.rule \in {"VAR", "OP_APPL"} /\ target = 0
  <2>1. n = Fail(m)
    BY <1>8 DEF FromAst, Missing
  <2> QED
    BY <2>1, CalmFail
<1>9. CASE node.rule = "LET"
  <2> DEFINE m0 == Become(m, x, "NO_FORM", NULL, 0, 0)
  <2>1. n = GenLet(m0, x, node, e, at)
    BY <1>9 DEF FromAst
  <2>2. Calm(m0) /\ Grown(m, m0) /\ DOMAIN m0.exprs = DOMAIN m.exprs /\ m0.scopes = m.scopes
    BY <1>2 DEF Forms
  <2> HIDE DEF n, m0
  <2>3. Calm(n) /\ StillThere(m0, n)
    BY <1>9, <2>1, <2>2, CalmGenLet
  <2>4. Calm(n) /\ StillThere(m, n)
    BY <2>2, <2>3, GrownThere
  <2> QED
    BY <2>4 DEF n
<1>10. CASE node.rule = "NEG"
  <2>1. n = GenNeg(m, x, node, e, at)
    BY <1>10 DEF FromAst
  <2> QED
    BY <1>10, <2>1, CalmGenNeg
<1>11. CASE node.rule \notin {"CON", "INT", "DO", "FN_APPL", "IF", "VAR", "OP_APPL", "LET", "NEG"}
  <2>1. n = Fail(m)
    BY <1>11 DEF FromAst
  <2> QED
    BY <2>1, CalmFail
<1> QED
  BY <1>4, <1>5, <1>6, <1>7, <1>8, <1>9, <1>10, <1>11

\* coregen_from_ast into a new expression below x
LEMMA CalmFromAstChild ==
  ASSUME NEW m, Calm(m), NEW t, t.x \in DOMAIN m.exprs, t.node \in Nodes,
         t.e \in DOMAIN m.scopes, t.at \in Seq(Nat)
  PROVE  Calm(FromAstChild(m, t)) /\ StillThere(m, FromAstChild(m, t))
<1> DEFINE o == Expr("UNSET", NULL, t.at)
           y == Newest(m) + 1
           m1 == NewChild(m, t.x, o)
<1>1. FromAstChild(m, t) = FromAst(m1, y, t.node, t.e, t.at)
  BY DEF FromAstChild
<1>2. Plain(m, o)
  BY NullText, PlainExpr DEF Forms
<1> HIDE DEF o, y
<1>3. Calm(m1) /\ Grown(m, m1) /\ y \in DOMAIN m1.exprs /\ m1.scopes = m.scopes
  BY <1>2, CalmNewChild DEF y
<1> HIDE DEF m1
<1>4. Calm(FromAstChild(m, t)) /\ StillThere(m1, FromAstChild(m, t))
  BY <1>1, <1>3, CalmFromAst
<1> QED
  BY <1>3, <1>4, GrownThere

\* coregen_from_module_ast
LEMMA CalmFromModuleAst ==
  ASSUME NEW m, Calm(m), NEW root \in Nodes
  PROVE  Calm(FromModuleAst(m, root)) /\ StillThere(m, FromModuleAst(m, root))
<1>1. CASE root.rule = "MODULE"
  <2> DEFINE decls == Last(root.kids).kids
  <2>1. root.kids \in Seq(Nodes) /\ root.kids # <<>>
    BY <1>1, NodeFields
  <2>2. Last(root.kids) \in Nodes
    BY <2>1, Shortened
  <2>3. decls \in Seq(Nodes)
    BY <2>2, NodeFields
  <2>4. FromModuleAst(m, root) = Push(m, Declare(decls, Global, <<>>))
    BY <1>1 DEF FromModuleAst
  <2>5. <<>> \in Seq(Nat)
    BY EmptySeq
  <2> HIDE DEF decls
  <2>6. Global \in DOMAIN m.scopes /\ Global \in Nat
    BY Numbers
  <2>7. Generates(m, Declare(decls, Global, <<>>))
    BY <2>3, <2>5, <2>6, DeclareGenerates
  <2> QED
    BY <2>4, <2>7, CalmPushGenerating
<1>2. CASE root.rule # "MODULE"
  BY <1>2, CalmFail DEF FromModuleAst
<1> QED
  BY <1>1, <1>2

-----------------------------------------------------------------------------
(* Destroying *)

\* an expression that nothing owns
UnownedExpr(m, y) == ~Freed(m, "expr", y) /\ \A p \in ExprPlaces(m) : ExprAtPlace(m, p) # y

\* the number of the next task
Top(m) == Len(m.todo)

\* A task is pushed.
LEMMA PushedOne ==
  ASSUME NEW m \in Memory, NEW t \in Tasks
  PROVE  /\ Push(m, <<t>>) \in Memory
         /\ Push(m, <<t>>).exprs = m.exprs /\ Push(m, <<t>>).scopes = m.scopes
         /\ Push(m, <<t>>).frees = m.frees /\ Push(m, <<t>>).failed = m.failed
         /\ Top(Push(m, <<t>>)) \in Nat \ DOMAIN m.todo
         /\ DOMAIN Push(m, <<t>>).todo = DOMAIN m.todo \cup {Top(Push(m, <<t>>))}
         /\ Push(m, <<t>>).todo[Top(Push(m, <<t>>))] = t
         /\ \A d \in DOMAIN m.todo : Push(m, <<t>>).todo[d] = m.todo[d] /\ d < Top(Push(m, <<t>>))
         /\ Top(m) \in Nat /\ Top(Push(m, <<t>>)) = Top(m) + 1
<1> DEFINE n == Push(m, <<t>>)
<1>1. <<t>> \in Seq(Tasks) /\ Len(<<t>>) = 1 /\ <<t>>[1] = t
  OBVIOUS
<1>2. /\ n \in Memory
      /\ n.exprs = m.exprs /\ n.scopes = m.scopes /\ n.frees = m.frees /\ n.failed = m.failed
      /\ Len(m.todo) \in Nat
      /\ DOMAIN n.todo = 1..(Len(m.todo) + Len(<<t>>)) /\ Len(n.todo) = Len(m.todo) + Len(<<t>>)
      /\ \A d \in 1..Len(m.todo) : n.todo[d] = m.todo[d]
      /\ \A d \in (Len(m.todo) + 1)..(Len(m.todo) + Len(<<t>>)) :
           n.todo[d] = <<t>>[Len(m.todo) + Len(<<t>>) + 1 - d]
  BY <1>1, Pushed
<1> HIDE DEF n
<1>3. DOMAIN m.todo = 1..Len(m.todo)
  <2>1. m.todo \in Seq(Tasks)
    BY DEF Memory
  <2> QED
    BY <2>1, LenProperties
<1> DEFINE l == Len(m.todo) + 1
<1>4. n.todo[l] = t
  <2>1. /\ l \in (Len(m.todo) + 1)..(Len(m.todo) + Len(<<t>>))
        /\ Len(m.todo) + Len(<<t>>) + 1 - l = 1
    BY <1>1, <1>2
  <2>2. n.todo[l] = <<t>>[Len(m.todo) + Len(<<t>>) + 1 - l]
    BY <1>2, <2>1
  <2> QED
    BY <1>1, <2>1, <2>2
<1>5. DOMAIN n.todo = 1..l
  BY <1>1, <1>2
<1>6. /\ l \in Nat /\ l \notin DOMAIN m.todo /\ DOMAIN n.todo = DOMAIN m.todo \cup {l}
      /\ \A d \in DOMAIN m.todo : n.todo[d] = m.todo[d] /\ d < l
  BY <1>2, <1>3, <1>5
<1>7. Top(n) = l
  BY <1>1, <1>2 DEF Top
<1>8. /\ n \in Memory
      /\ n.exprs = m.exprs /\ n.scopes = m.scopes /\ n.frees = m.frees /\ n.failed = m.failed
      /\ Top(n) \in Nat \ DOMAIN m.todo /\ DOMAIN n.todo = DOMAIN m.todo \cup {Top(n)}
      /\ n.todo[Top(n)] = t
      /\ \A d \in DOMAIN m.todo : n.todo[d] = m.todo[d] /\ d < Top(n)
      /\ Top(m) \in Nat /\ Top(n) = Top(m) + 1
  BY <1>2, <1>4, <1>6, <1>7 DEF Top
<1> QED
  BY <1>8 DEF n

\* The next task is taken.
LEMMA PoppedOne ==
  ASSUME NEW m \in Memory, m.todo # <<>>, NEW n, n = Pop(m)
  PROVE  /\ n \in Memory
         /\ n.exprs = m.exprs /\ n.scopes = m.scopes /\ n.frees = m.frees /\ n.failed = m.failed
         /\ Top(m) \in DOMAIN m.todo /\ Top(m) \in Nat
         /\ DOMAIN n.todo = DOMAIN m.todo \ {Top(m)} /\ Top(n) = Top(m) - 1
         /\ m.todo[Top(m)] = Last(m.todo) /\ Last(m.todo) \in Tasks
         /\ \A d \in DOMAIN m.todo : d \in Nat /\ (d # Top(m) => n.todo[d] = m.todo[d] /\ d < Top(m))
<1>1. /\ n \in Memory
      /\ n.exprs = m.exprs /\ n.scopes = m.scopes /\ n.frees = m.frees /\ n.failed = m.failed
      /\ DOMAIN n.todo = 1..(Len(m.todo) - 1) /\ Len(n.todo) = Len(m.todo) - 1
      /\ \A d \in 1..(Len(m.todo) - 1) : n.todo[d] = m.todo[d]
      /\ Last(m.todo) = m.todo[Len(m.todo)] /\ Last(m.todo) \in Tasks
      /\ Len(m.todo) \in Nat \ {0}
  BY Popped
<1>2. DOMAIN m.todo = 1..Len(m.todo)
  <2>1. m.todo \in Seq(Tasks)
    BY DEF Memory
  <2> QED
    BY <2>1, LenProperties
<1> QED
  BY <1>1, <1>2 DEF Top

\* The next task is done later in another form.
LEMMA Turned ==
  ASSUME NEW m \in Memory, m.todo # <<>>, NEW t \in Tasks, NEW n, n = Push(Pop(m), <<t>>)
  PROVE  /\ n \in Memory
         /\ n.exprs = m.exprs /\ n.scopes = m.scopes /\ n.frees = m.frees /\ n.failed = m.failed
         /\ DOMAIN n.todo = DOMAIN m.todo /\ n.todo[Top(m)] = t
         /\ \A d \in DOMAIN m.todo : d # Top(m) => n.todo[d] = m.todo[d]
<1> DEFINE k == Pop(m)
<1>1. /\ k \in Memory
      /\ k.exprs = m.exprs /\ k.scopes = m.scopes /\ k.frees = m.frees /\ k.failed = m.failed
      /\ Top(m) \in DOMAIN m.todo /\ Top(m) \in Nat
      /\ DOMAIN k.todo = DOMAIN m.todo \ {Top(m)} /\ Top(k) = Top(m) - 1
      /\ \A d \in DOMAIN m.todo : d # Top(m) => k.todo[d] = m.todo[d]
  BY PoppedOne
<1>2. n = Push(k, <<t>>)
  OBVIOUS
<1> HIDE DEF k
<1>3. n \in Memory
  BY <1>1, <1>2, PushedOne
<1>4. n.exprs = k.exprs /\ n.scopes = k.scopes /\ n.frees = k.frees /\ n.failed = k.failed
  BY <1>1, <1>2, PushedOne
<1>5. DOMAIN n.todo = DOMAIN k.todo \cup {Top(n)}
  BY <1>1, <1>2, PushedOne
<1>6. n.todo[Top(n)] = t
  BY <1>1, <1>2, PushedOne
<1>7. \A d \in DOMAIN k.todo : n.todo[d] = k.todo[d]
  BY <1>1, <1>2, PushedOne
<1>8. Top(n) = Top(k) + 1
  BY <1>1, <1>2, PushedOne
<1>9. Top(n) = Top(m)
  BY <1>1, <1>8
<1> QED
  BY <1>1, <1>3, <1>4, <1>5, <1>6, <1>7, <1>9

\* core_destroy of an expression that nothing owns is to be done.
LEMMA GoodPushCore ==
  ASSUME NEW m, Good(m), NEW y \in DOMAIN m.exprs, UnownedExpr(m, y),
         NEW n, n = Push(m, <<DestroyExpr(y)>>)
  PROVE  Good(n) /\ StillThere(m, n)
<1>1. /\ m \in Memory /\ InOnePiece(m) /\ Uppers(m) /\ Ordered(m)
      /\ IsInjective(m.frees) /\ ExprsOwned(m) /\ ScopesOwned(m)
  BY DEF Good
<1> DEFINE t == DestroyExpr(y)
<1>2. t.fn = "core" /\ t.x = y /\ t.next = 1
  BY DEF DestroyExpr
<1>0. n = Push(m, <<t>>)
  OBVIOUS
<1>3. y \in Nat
  <2>1. m.exprs \in Seq(Exprs)
    BY <1>1 DEF Memory
  <2> QED
    BY <2>1, LenProperties
<1>4. t \in Tasks
  BY <1>3 DEF DestroyExpr, Tasks, Holding, Destroying
<1> HIDE DEF t
<1>5. /\ n \in Memory
      /\ n.exprs = m.exprs /\ n.scopes = m.scopes /\ n.frees = m.frees
      /\ Top(n) \in Nat \ DOMAIN m.todo /\ DOMAIN n.todo = DOMAIN m.todo \cup {Top(n)}
      /\ n.todo[Top(n)] = t
      /\ \A d \in DOMAIN m.todo : n.todo[d] = m.todo[d] /\ d < Top(n)
  <2>1. m \in Memory
    BY <1>1
  <2> DEFINE q == Push(m, <<t>>)
  <2>2. /\ q \in Memory
        /\ q.exprs = m.exprs /\ q.scopes = m.scopes /\ q.frees = m.frees
        /\ Top(q) \in Nat \ DOMAIN m.todo /\ DOMAIN q.todo = DOMAIN m.todo \cup {Top(q)}
        /\ q.todo[Top(q)] = t
        /\ \A d \in DOMAIN m.todo : q.todo[d] = m.todo[d] /\ d < Top(q)
    BY <1>4, <2>1, PushedOne
  <2> HIDE DEF q
  <2>3. n = q
    BY <1>0 DEF q
  <2> QED
    BY <2>2, <2>3
<1> DEFINE l == Top(n)
<1>6. /\ l \in Nat \ DOMAIN m.todo /\ DOMAIN n.todo = DOMAIN m.todo \cup {l}
      /\ n.todo[l] = t
      /\ \A d \in DOMAIN m.todo : n.todo[d] = m.todo[d] /\ d < l
  BY <1>5
<1> HIDE DEF l
<1>7. InOnePiece(n)
  BY <1>1, <1>2, <1>5, <1>6 DEF InOnePiece, Objects
<1>8. Uppers(n) /\ IsInjective(n.frees)
  BY <1>1, <1>2, <1>5, <1>6 DEF Uppers
<1>9. Ordered(n)
  <2> SUFFICES ASSUME NEW c \in DOMAIN n.todo, NEW d \in DOMAIN n.todo, c < d,
                      n.todo[c].fn \in {"core", "env"}
               PROVE  n.todo[d].fn \in {"core", "env"}
    BY DEF Ordered
  <2>1. CASE d = l
    BY <1>2, <1>6, <2>1
  <2>2. CASE d # l
    <3>1. d \in DOMAIN m.todo /\ c \in DOMAIN m.todo
      <4>1. m.todo \in Seq(Tasks)
        BY <1>1 DEF Memory
      <4>2. d \in DOMAIN m.todo /\ d \in Int
        BY <1>6, <2>2, <4>1, LenProperties
      <4> QED
        BY <1>6, <4>2
    <3> QED
      BY <1>1, <1>6, <3>1 DEF Ordered
  <2> QED
    BY <2>1, <2>2
<1>10. /\ \A z : Freed(n, "expr", z) <=> Freed(m, "expr", z)
       /\ \A z : Freed(n, "scope", z) <=> Freed(m, "scope", z)
  BY <1>5 DEF Freed
<1>11. ExprsOwned(n)
  <2> DEFINE p == <<"task", l, 0>>
  <2>1. \A z, i \in Nat : KidPlace(n, z, i) => KidPlace(m, z, i) /\ n.exprs[z].kids[i] = m.exprs[z].kids[i]
    BY <1>5, <1>6, <1>10 DEF KidPlace
  <2>2. \A e \in Nat, q \in Texts : KeyPlace(n, e, q) => KeyPlace(m, e, q) /\ n.scopes[e].dict[q] = m.scopes[e].dict[q]
    BY <1>5, <1>6 DEF KeyPlace
  <2>3. \A d \in Nat : CorePlace(n, d) /\ <<"task", d, 0>> # p => CorePlace(m, d) /\ n.todo[d].x = m.todo[d].x
    BY <1>6 DEF CorePlace
  <2>4. ExprAtPlace(n, p) = y
    BY <1>2, <1>6 DEF ExprAtPlace
  <2> HIDE DEF p
  <2>5. ExprsMove(m, n, p)
    BY <1>10, <2>1, <2>2, <2>3, <2>4 DEF ExprsMove, UnownedExpr
  <2> QED
    BY <1>1, <2>5, ExprsMoved
<1>12. ScopesOwned(n)
  <2>1. \A z \in Nat : ArgsPlace(n, z) => ArgsPlace(m, z) /\ n.exprs[z].args = m.exprs[z].args
    BY <1>5, <1>6, <1>10 DEF ArgsPlace
  <2>2. UpperPlace(n) => UpperPlace(m) /\ n.scopes[Global].upper = m.scopes[Global].upper
    BY <1>5 DEF UpperPlace
  <2>3. \A d \in Nat : EnvPlace(n, d) => EnvPlace(m, d) /\ n.todo[d].e = m.todo[d].e
    BY <1>2, <1>6 DEF EnvPlace
  <2> QED
    BY <1>1, <1>10, <2>1, <2>2, <2>3, ScopesKept
<1>13. StillThere(m, n)
  BY <1>2, <1>6 DEF StillThere, Stacks
<1> QED
  BY <1>5, <1>7, <1>8, <1>9, <1>11, <1>12, <1>13 DEF Good

\* env_destroy of a scope that nothing owns, and that has none above, is to be done.
LEMMA GoodPushEnv ==
  ASSUME NEW m, Good(m), NEW e \in DOMAIN m.scopes, Unowned(m, e), m.scopes[e].upper = 0,
         NEW n, n = Push(m, <<EnvDestroy(e, m.scopes[e].dict)>>)
  PROVE  Good(n) /\ StillThere(m, n)
<1>1. /\ m \in Memory /\ InOnePiece(m) /\ Uppers(m) /\ Ordered(m)
      /\ IsInjective(m.frees) /\ ExprsOwned(m) /\ ScopesOwned(m)
  BY DEF Good
<1> DEFINE t == EnvDestroy(e, m.scopes[e].dict)
<1>2. t.fn = "env" /\ t.e = e /\ t.left = DOMAIN m.scopes[e].dict
  BY DEF EnvDestroy
<1>0. n = Push(m, <<t>>)
  OBVIOUS
<1>3. e \in Nat /\ DOMAIN m.scopes[e].dict \subseteq Texts
  <2>1. m.scopes \in Seq(Scopes)
    BY <1>1 DEF Memory
  <2>2. m.scopes[e] \in Scopes /\ e \in Nat
    BY <2>1, LenProperties
  <2>3. m.scopes[e].dict \in Dicts
    BY <2>2 DEF Scopes
  <2> QED
    BY <2>2, <2>3 DEF Dicts
<1>4. t \in Tasks
  BY <1>3 DEF EnvDestroy, Tasks, Holding, Destroying
<1> HIDE DEF t
<1>5. /\ n \in Memory
      /\ n.exprs = m.exprs /\ n.scopes = m.scopes /\ n.frees = m.frees
      /\ Top(n) \in Nat \ DOMAIN m.todo /\ DOMAIN n.todo = DOMAIN m.todo \cup {Top(n)}
      /\ n.todo[Top(n)] = t
      /\ \A d \in DOMAIN m.todo : n.todo[d] = m.todo[d] /\ d < Top(n)
  <2>1. m \in Memory
    BY <1>1
  <2> DEFINE q == Push(m, <<t>>)
  <2>2. /\ q \in Memory
        /\ q.exprs = m.exprs /\ q.scopes = m.scopes /\ q.frees = m.frees
        /\ Top(q) \in Nat \ DOMAIN m.todo /\ DOMAIN q.todo = DOMAIN m.todo \cup {Top(q)}
        /\ q.todo[Top(q)] = t
        /\ \A d \in DOMAIN m.todo : q.todo[d] = m.todo[d] /\ d < Top(q)
    BY <1>4, <2>1, PushedOne
  <2> HIDE DEF q
  <2>3. n = q
    BY <1>0 DEF q
  <2> QED
    BY <2>2, <2>3
<1> DEFINE l == Top(n)
<1>6. /\ l \in Nat \ DOMAIN m.todo /\ DOMAIN n.todo = DOMAIN m.todo \cup {l}
      /\ n.todo[l] = t
      /\ \A d \in DOMAIN m.todo : n.todo[d] = m.todo[d] /\ d < l
  BY <1>5
<1> HIDE DEF l
<1>7. InOnePiece(n)
  <2>1. \A d \in DOMAIN n.todo :
          /\ n.todo[d].fn \in {"gen", "child", "core"} => n.todo[d].x \in DOMAIN n.exprs
          /\ n.todo[d].fn # "core" => n.todo[d].e \in DOMAIN n.scopes
    BY <1>1, <1>2, <1>5, <1>6 DEF InOnePiece
  <2>2. \A z \in DOMAIN m.exprs :
          /\ ToSet(m.exprs[z].kids) \subseteq DOMAIN m.exprs
          /\ m.exprs[z].target \in DOMAIN m.exprs \cup {0}
          /\ (m.exprs[z].form = "INDIR" <=> m.exprs[z].target # 0)
          /\ m.exprs[z].args \in DOMAIN m.scopes \cup {0}
          /\ (m.exprs[z].form = "LAMBDA" <=> m.exprs[z].args # 0)
    BY <1>1 DEF InOnePiece
  <2>3. \A z \in DOMAIN m.scopes :
          /\ m.scopes[z].upper \in 0..(z - 1)
          /\ \A k \in DOMAIN m.scopes[z].dict : m.scopes[z].dict[k] \in DOMAIN m.exprs
    BY <1>1 DEF InOnePiece
  <2>4. ToSet(n.frees) \subseteq Objects(n)
    BY <1>1, <1>5 DEF InOnePiece, Objects
  <2> QED
    <3>1. \A z \in DOMAIN n.exprs :
            /\ ToSet(n.exprs[z].kids) \subseteq DOMAIN n.exprs
            /\ n.exprs[z].target \in DOMAIN n.exprs \cup {0}
            /\ (n.exprs[z].form = "INDIR" <=> n.exprs[z].target # 0)
            /\ n.exprs[z].args \in DOMAIN n.scopes \cup {0}
            /\ (n.exprs[z].form = "LAMBDA" <=> n.exprs[z].args # 0)
      BY <1>5, <2>2
    <3>2. \A z \in DOMAIN n.scopes :
            /\ n.scopes[z].upper \in 0..(z - 1)
            /\ \A k \in DOMAIN n.scopes[z].dict : n.scopes[z].dict[k] \in DOMAIN n.exprs
      BY <1>5, <2>3
    <3> QED
      BY <2>1, <2>4, <3>1, <3>2, ZenonT(20) DEF InOnePiece
<1>8. Uppers(n) /\ IsInjective(n.frees)
  <2>1. ASSUME NEW d \in DOMAIN n.todo, n.todo[d].fn = "env"
        PROVE  /\ n.todo[d].left \subseteq DOMAIN n.scopes[n.todo[d].e].dict
               /\ n.todo[d].e # Global => n.scopes[n.todo[d].e].upper = 0
    <3>1. CASE d = l
      BY <1>2, <1>5, <1>6, <3>1
    <3>2. CASE d \in DOMAIN m.todo
      BY <1>1, <1>5, <1>6, <2>1, <3>2 DEF Uppers
    <3> QED
      BY <1>6, <3>1, <3>2
  <2> QED
    BY <1>1, <1>5, <2>1 DEF Uppers
<1>9. Ordered(n)
  <2> SUFFICES ASSUME NEW c \in DOMAIN n.todo, NEW d \in DOMAIN n.todo, c < d,
                      n.todo[c].fn \in {"core", "env"}
               PROVE  n.todo[d].fn \in {"core", "env"}
    BY DEF Ordered
  <2>1. CASE d = l
    BY <1>2, <1>6, <2>1
  <2>2. CASE d # l
    <3>1. d \in DOMAIN m.todo /\ c \in DOMAIN m.todo
      <4>1. m.todo \in Seq(Tasks)
        BY <1>1 DEF Memory
      <4>2. d \in DOMAIN m.todo /\ d \in Int
        BY <1>6, <2>2, <4>1, LenProperties
      <4> QED
        BY <1>6, <4>2
    <3> QED
      BY <1>1, <1>6, <3>1 DEF Ordered
  <2> QED
    BY <2>1, <2>2
<1>10. /\ \A z : Freed(n, "expr", z) <=> Freed(m, "expr", z)
       /\ \A z : Freed(n, "scope", z) <=> Freed(m, "scope", z)
  BY <1>5 DEF Freed
<1>11. ExprsOwned(n)
  <2>1. \A z, i \in Nat : KidPlace(n, z, i) => KidPlace(m, z, i) /\ n.exprs[z].kids[i] = m.exprs[z].kids[i]
    BY <1>5, <1>6, <1>10 DEF KidPlace
  <2>2. \A z \in Nat, q \in Texts : KeyPlace(n, z, q) => KeyPlace(m, z, q) /\ n.scopes[z].dict[q] = m.scopes[z].dict[q]
    BY <1>5, <1>6 DEF KeyPlace
  <2>3. \A d \in Nat : CorePlace(n, d) => CorePlace(m, d) /\ n.todo[d].x = m.todo[d].x
    BY <1>2, <1>6 DEF CorePlace
  <2> QED
    BY <1>1, <1>10, <2>1, <2>2, <2>3, ExprsKept
<1>12. ScopesOwned(n)
  <2> DEFINE p == <<"task", l>>
  <2>1. \A z \in Nat : ArgsPlace(n, z) => ArgsPlace(m, z) /\ n.exprs[z].args = m.exprs[z].args
    BY <1>5, <1>6, <1>10 DEF ArgsPlace
  <2>2. UpperPlace(n) => UpperPlace(m) /\ n.scopes[Global].upper = m.scopes[Global].upper
    BY <1>5 DEF UpperPlace
  <2>3. \A d \in Nat : EnvPlace(n, d) /\ <<"task", d>> # p => EnvPlace(m, d) /\ n.todo[d].e = m.todo[d].e
    BY <1>6 DEF EnvPlace
  <2>4. ScopeAtPlace(n, p) = e
    BY <1>2, <1>6 DEF ScopeAtPlace
  <2> HIDE DEF p
  <2>5. ScopesMove(m, n, p)
    BY <1>10, <2>1, <2>2, <2>3, <2>4 DEF ScopesMove, Unowned
  <2> QED
    BY <1>1, <2>5, ScopesMoved
<1>13. StillThere(m, n)
  BY <1>2, <1>6 DEF StillThere, Stacks
<1> QED
  BY <1>5, <1>7, <1>8, <1>9, <1>11, <1>12, <1>13 DEF Good

\* In n there is no place that is not in m, and what is owned stays the same.
ExprsStay(m, n) ==
  /\ \A x, i \in Nat : KidPlace(n, x, i) => KidPlace(m, x, i) /\ n.exprs[x].kids[i] = m.exprs[x].kids[i]
  /\ \A e \in Nat, k \in Texts : KeyPlace(n, e, k) =>
       KeyPlace(m, e, k) /\ n.scopes[e].dict[k] = m.scopes[e].dict[k]
  /\ \A d \in Nat : CorePlace(n, d) => CorePlace(m, d) /\ n.todo[d].x = m.todo[d].x
ScopesStay(m, n) ==
  /\ \A x \in Nat : ArgsPlace(n, x) => ArgsPlace(m, x) /\ n.exprs[x].args = m.exprs[x].args
  /\ UpperPlace(n) => UpperPlace(m) /\ n.scopes[Global].upper = m.scopes[Global].upper
  /\ \A d \in Nat : EnvPlace(n, d) => EnvPlace(m, d) /\ n.todo[d].e = m.todo[d].e

\* The same of the sets of places.
LEMMA ScopePlacesStay ==
  ASSUME NEW m, NEW n, ScopesStay(m, n)
  PROVE  \A q \in ScopePlaces(n) : q \in ScopePlaces(m) /\ ScopeAtPlace(n, q) = ScopeAtPlace(m, q)
<1> SUFFICES ASSUME NEW q \in ScopePlaces(n)
             PROVE  q \in ScopePlaces(m) /\ ScopeAtPlace(n, q) = ScopeAtPlace(m, q)
  OBVIOUS
<1>1. ASSUME NEW x \in Nat, q = <<"args", x>>, ArgsPlace(n, x)
      PROVE  q \in ScopePlaces(m) /\ ScopeAtPlace(n, q) = ScopeAtPlace(m, q)
  BY <1>1 DEF ScopesStay, ScopePlaces, ScopeAtPlace
<1>2. ASSUME q = <<"upper", Global>>, UpperPlace(n)
      PROVE  q \in ScopePlaces(m) /\ ScopeAtPlace(n, q) = ScopeAtPlace(m, q)
  BY <1>2 DEF ScopesStay, ScopePlaces, ScopeAtPlace
<1>3. ASSUME NEW d \in Nat, q = <<"task", d>>, EnvPlace(n, d)
      PROVE  q \in ScopePlaces(m) /\ ScopeAtPlace(n, q) = ScopeAtPlace(m, q)
  BY <1>3 DEF ScopesStay, ScopePlaces, ScopeAtPlace
<1> QED
  BY <1>1, <1>2, <1>3, ScopePlace

\* So for expressions.
LEMMA ExprPlacesStay ==
  ASSUME NEW m, NEW n, ExprsStay(m, n)
  PROVE  \A q \in ExprPlaces(n) : q \in ExprPlaces(m) /\ ExprAtPlace(n, q) = ExprAtPlace(m, q)
<1> SUFFICES ASSUME NEW q \in ExprPlaces(n)
             PROVE  q \in ExprPlaces(m) /\ ExprAtPlace(n, q) = ExprAtPlace(m, q)
  OBVIOUS
<1>1. ASSUME NEW x \in Nat, NEW i \in Nat, q = <<"kid", x, i>>, KidPlace(n, x, i)
      PROVE  q \in ExprPlaces(m) /\ ExprAtPlace(n, q) = ExprAtPlace(m, q)
  BY <1>1 DEF ExprsStay, ExprPlaces, ExprAtPlace
<1>2. ASSUME NEW e \in Nat, NEW k \in Texts, q = <<"key", e, k>>, KeyPlace(n, e, k)
      PROVE  q \in ExprPlaces(m) /\ ExprAtPlace(n, q) = ExprAtPlace(m, q)
  BY <1>2 DEF ExprsStay, ExprPlaces, ExprAtPlace
<1>3. ASSUME NEW d \in Nat, q = <<"task", d, 0>>, CorePlace(n, d)
      PROVE  q \in ExprPlaces(m) /\ ExprAtPlace(n, q) = ExprAtPlace(m, q)
  BY <1>3 DEF ExprsStay, ExprPlaces, ExprAtPlace
<1> QED
  BY <1>1, <1>2, <1>3, ExprPlace

\* Then what is owned has one owner still.
LEMMA ExprsOwnedStay ==
  ASSUME NEW m, NEW n, ExprsOwned(m), ExprsStay(m, n), n.frees = m.frees
  PROVE  ExprsOwned(n)
<1>1. \A z : Freed(n, "expr", z) <=> Freed(m, "expr", z)
  BY DEF Freed
<1>2. \A q \in ExprPlaces(n) : q \in ExprPlaces(m) /\ ExprAtPlace(n, q) = ExprAtPlace(m, q)
  BY ExprPlacesStay
<1> QED
  BY <1>1, <1>2 DEF ExprsOwned

\* So for scopes.
LEMMA ScopesOwnedStay ==
  ASSUME NEW m, NEW n, ScopesOwned(m), ScopesStay(m, n), n.frees = m.frees
  PROVE  ScopesOwned(n)
<1>1. \A z : Freed(n, "scope", z) <=> Freed(m, "scope", z)
  BY DEF Freed
<1>2. \A q \in ScopePlaces(n) : q \in ScopePlaces(m) /\ ScopeAtPlace(n, q) = ScopeAtPlace(m, q)
  BY ScopePlacesStay
<1> QED
  BY <1>1, <1>2 DEF ScopesOwned

\* The kinds of tasks there still are, in the same order.
LEMMA OrderedSame ==
  ASSUME NEW m, Ordered(m), NEW n, DOMAIN n.todo \subseteq DOMAIN m.todo,
         \A d \in DOMAIN n.todo : n.todo[d].fn = m.todo[d].fn
  PROVE  Ordered(n)
BY DEF Ordered

\* Only what is to be done changes.
LEMMA InOnePieceSame ==
  ASSUME NEW m, InOnePiece(m), NEW n, n.exprs = m.exprs, n.scopes = m.scopes, n.frees = m.frees,
         \A d \in DOMAIN n.todo :
           /\ n.todo[d].fn \in {"gen", "child", "core"} => n.todo[d].x \in DOMAIN n.exprs
           /\ n.todo[d].fn # "core" => n.todo[d].e \in DOMAIN n.scopes
  PROVE  InOnePiece(n)
<1>1. \A z \in DOMAIN n.exprs :
        /\ ToSet(n.exprs[z].kids) \subseteq DOMAIN n.exprs
        /\ n.exprs[z].target \in DOMAIN n.exprs \cup {0}
        /\ (n.exprs[z].form = "INDIR" <=> n.exprs[z].target # 0)
        /\ n.exprs[z].args \in DOMAIN n.scopes \cup {0}
        /\ (n.exprs[z].form = "LAMBDA" <=> n.exprs[z].args # 0)
  BY DEF InOnePiece
<1>2. \A z \in DOMAIN n.scopes :
        /\ n.scopes[z].upper \in 0..(z - 1)
        /\ \A k \in DOMAIN n.scopes[z].dict : n.scopes[z].dict[k] \in DOMAIN n.exprs
  BY DEF InOnePiece
<1>3. ToSet(n.frees) \subseteq Objects(n)
  BY DEF InOnePiece, Objects
<1> QED
  BY <1>1, <1>2, <1>3 DEF InOnePiece

\* env_destroy of a scope that nothing owns, alone, is to be done.
LEMMA GoodDestroyAlone ==
  ASSUME NEW m, Good(m), NEW e \in DOMAIN m.scopes, Unowned(m, e)
  PROVE  Good(DestroyAlone(m, e)) /\ StillThere(m, DestroyAlone(m, e))
<1> DEFINE o == [m.scopes[e] EXCEPT !.upper = 0]
           n == [m EXCEPT !.scopes[e] = o]
<1>1. /\ m \in Memory /\ InOnePiece(m) /\ Uppers(m) /\ Ordered(m)
      /\ IsInjective(m.frees) /\ ExprsOwned(m) /\ ScopesOwned(m)
  BY DEF Good
<1>2. o \in Scopes /\ o.upper = 0 /\ o.dict = m.scopes[e].dict
  <2>1. m.scopes \in Seq(Scopes)
    BY <1>1 DEF Memory
  <2>2. m.scopes[e] \in Scopes
    BY <2>1, LenProperties
  <2> QED
    BY <2>2 DEF Scopes
<1>3. DestroyAlone(m, e) = Push(n, <<EnvDestroy(e, m.scopes[e].dict)>>)
  BY <1>1 DEF DestroyAlone, Memory
<1> HIDE DEF o
<1>4. /\ n \in Memory
      /\ n.exprs = m.exprs /\ n.frees = m.frees /\ n.todo = m.todo
      /\ DOMAIN n.scopes = DOMAIN m.scopes /\ Len(n.scopes) = Len(m.scopes)
      /\ n.scopes[e].upper = 0 /\ n.scopes[e].dict = m.scopes[e].dict
      /\ \A z \in DOMAIN m.scopes : z # e => n.scopes[z] = m.scopes[z]
  BY <1>1, <1>2, ChangedScopes
<1> HIDE DEF n
<1>5. InOnePiece(n)
  <2>1. \A z \in DOMAIN n.scopes :
          /\ n.scopes[z].upper \in 0..(z - 1)
          /\ \A k \in DOMAIN n.scopes[z].dict : n.scopes[z].dict[k] \in DOMAIN n.exprs
    <3> TAKE z \in DOMAIN n.scopes
    <3>1. /\ m.scopes[z].upper \in 0..(z - 1)
          /\ \A k \in DOMAIN m.scopes[z].dict : m.scopes[z].dict[k] \in DOMAIN m.exprs
      BY <1>1, <1>4 DEF InOnePiece
    <3>2. CASE z = e
      <4>1. 0 \in 0..(z - 1)
        <5>1. m.scopes \in Seq(Scopes)
          BY <1>1 DEF Memory
        <5>2. z \in Nat \ {0}
          BY <1>4, <5>1, LenProperties
        <5> QED
          BY <5>2
      <4> QED
        BY <1>4, <3>1, <3>2, <4>1
    <3>3. CASE z # e
      BY <1>4, <3>1, <3>3
    <3> QED
      BY <3>2, <3>3
  <2>2. \A z \in DOMAIN m.exprs :
          /\ ToSet(m.exprs[z].kids) \subseteq DOMAIN m.exprs
          /\ m.exprs[z].target \in DOMAIN m.exprs \cup {0}
          /\ (m.exprs[z].form = "INDIR" <=> m.exprs[z].target # 0)
          /\ m.exprs[z].args \in DOMAIN m.scopes \cup {0}
          /\ (m.exprs[z].form = "LAMBDA" <=> m.exprs[z].args # 0)
    BY <1>1 DEF InOnePiece
  <2>3. ToSet(n.frees) \subseteq Objects(n)
    BY <1>1, <1>4 DEF InOnePiece, Objects
  <2>4. \A d \in DOMAIN n.todo :
          /\ n.todo[d].fn \in {"gen", "child", "core"} => n.todo[d].x \in DOMAIN n.exprs
          /\ n.todo[d].fn # "core" => n.todo[d].e \in DOMAIN n.scopes
    BY <1>1, <1>4 DEF InOnePiece
  <2> QED
    BY <1>4, <2>1, <2>2, <2>3, <2>4 DEF InOnePiece
<1>6. Global \in DOMAIN m.scopes
  <2>1. m.scopes \in Seq(Scopes)
    BY <1>1 DEF Memory
  <2>2. DOMAIN m.scopes = 1..Len(m.scopes) /\ Len(m.scopes) \in Nat
    BY <2>1, LenProperties
  <2> QED
    BY <1>1, <2>2 DEF Uppers, Global
<1>7. Uppers(n)
  <2>1. n.scopes[Global].upper \in {0, Intrinsic}
    BY <1>1, <1>4, <1>6 DEF Uppers
  <2>2. ASSUME NEW d \in DOMAIN n.todo, n.todo[d].fn = "env"
        PROVE  /\ n.todo[d].left \subseteq DOMAIN n.scopes[n.todo[d].e].dict
               /\ n.todo[d].e # Global => n.scopes[n.todo[d].e].upper = 0
    <3>1. n.todo[d].e \in DOMAIN m.scopes
      BY <1>1, <1>4, <2>2 DEF InOnePiece
    <3>2. /\ n.todo[d].left \subseteq DOMAIN m.scopes[n.todo[d].e].dict
          /\ n.todo[d].e # Global => m.scopes[n.todo[d].e].upper = 0
      BY <1>1, <1>4, <2>2 DEF Uppers
    <3> QED
      BY <1>4, <3>1, <3>2
  <2> QED
    BY <1>1, <1>4, <2>1, <2>2 DEF Uppers
<1>8. Ordered(n) /\ IsInjective(n.frees)
  BY <1>1, <1>4 DEF Ordered
<1>9. /\ \A z : Freed(n, "expr", z) <=> Freed(m, "expr", z)
      /\ \A z : Freed(n, "scope", z) <=> Freed(m, "scope", z)
  BY <1>4 DEF Freed
<1>10. ExprsOwned(n)
  <2>1. \A z, i \in Nat : KidPlace(n, z, i) => KidPlace(m, z, i) /\ n.exprs[z].kids[i] = m.exprs[z].kids[i]
    BY <1>4, <1>9 DEF KidPlace
  <2>2. \A z \in Nat, q \in Texts : KeyPlace(n, z, q) => KeyPlace(m, z, q) /\ n.scopes[z].dict[q] = m.scopes[z].dict[q]
    BY <1>4 DEF KeyPlace
  <2>3. \A d \in Nat : CorePlace(n, d) => CorePlace(m, d) /\ n.todo[d].x = m.todo[d].x
    BY <1>4 DEF CorePlace
  <2> QED
    BY <1>1, <1>9, <2>1, <2>2, <2>3, ExprsKept
<1>11. /\ \A z \in Nat : ArgsPlace(n, z) => ArgsPlace(m, z) /\ n.exprs[z].args = m.exprs[z].args
       /\ UpperPlace(n) => UpperPlace(m) /\ n.scopes[Global].upper = m.scopes[Global].upper
       /\ \A d \in Nat : EnvPlace(n, d) => EnvPlace(m, d) /\ n.todo[d].e = m.todo[d].e
  <2>1. \A z \in Nat : ArgsPlace(n, z) => ArgsPlace(m, z) /\ n.exprs[z].args = m.exprs[z].args
    BY <1>4, <1>9 DEF ArgsPlace
  <2>2. UpperPlace(n) => UpperPlace(m) /\ n.scopes[Global].upper = m.scopes[Global].upper
    BY <1>4, <1>6 DEF UpperPlace
  <2>3. \A d \in Nat : EnvPlace(n, d) => EnvPlace(m, d) /\ n.todo[d].e = m.todo[d].e
    BY <1>4 DEF EnvPlace
  <2> QED
    BY <2>1, <2>2, <2>3
<1>12. ScopesOwned(n)
  BY <1>1, <1>9, <1>11, ScopesKept
<1>13. \A q \in ScopePlaces(n) : q \in ScopePlaces(m) /\ ScopeAtPlace(n, q) = ScopeAtPlace(m, q)
  <2>1. ScopesStay(m, n)
    BY <1>11 DEF ScopesStay
  <2> QED
    BY <2>1, ScopePlacesStay
<1>14. Unowned(n, e)
  BY <1>9, <1>13 DEF Unowned
<1>15. Good(n)
  BY <1>4, <1>5, <1>7, <1>8, <1>10, <1>12 DEF Good
<1>16. Good(DestroyAlone(m, e)) /\ StillThere(n, DestroyAlone(m, e))
  BY <1>3, <1>4, <1>14, <1>15, GoodPushEnv
<1> QED
  BY <1>4, <1>16 DEF StillThere, Stacks

\* core_destroy of an expression goes on with what is next: what comes now is owned
\* by nothing then.
LEMMA GoodLaterCore ==
  ASSUME NEW m, Good(m), m.todo # <<>>, NEW t, t = Last(m.todo), t.fn = "core",
         NEW n, n = Push(Pop(m), <<[t EXCEPT !.next = @ + 1]>>)
  PROVE  /\ Good(n) /\ StillThere(Pop(m), n)
         /\ n.exprs = m.exprs /\ n.scopes = m.scopes /\ t.x \in DOMAIN m.exprs
         /\ t.next \in DOMAIN m.exprs[t.x].kids =>
              /\ m.exprs[t.x].kids[t.next] \in DOMAIN m.exprs
              /\ UnownedExpr(n, m.exprs[t.x].kids[t.next])
         /\ m.exprs[t.x].form = "LAMBDA" /\ t.next = Len(m.exprs[t.x].kids) + 1 =>
              m.exprs[t.x].args \in DOMAIN m.scopes /\ Unowned(n, m.exprs[t.x].args)
<1> DEFINE l == Top(m)
           u == [t EXCEPT !.next = @ + 1]
<1>1. /\ m \in Memory /\ InOnePiece(m) /\ Uppers(m) /\ Ordered(m)
      /\ IsInjective(m.frees) /\ ExprsOwned(m) /\ ScopesOwned(m)
  BY DEF Good
<1>2. /\ l \in DOMAIN m.todo /\ l \in Nat /\ m.todo[l] = t /\ t \in Tasks
      /\ DOMAIN Pop(m).todo = DOMAIN m.todo \ {l}
      /\ \A d \in DOMAIN m.todo : d # l => Pop(m).todo[d] = m.todo[d]
      /\ DOMAIN m.todo \subseteq Nat
  BY <1>1, PoppedOne
<1>3. t \in [fn : {"core"}, x : Nat, next : Nat]
  BY <1>2 DEF Tasks, Holding, Destroying, Generating
<1>4. u \in Tasks /\ u.fn = "core" /\ u.x = t.x /\ u.next = t.next + 1
  BY <1>3 DEF Tasks, Holding, Destroying
<1> HIDE DEF u, l
<1>5. /\ n \in Memory
      /\ n.exprs = m.exprs /\ n.scopes = m.scopes /\ n.frees = m.frees
      /\ DOMAIN n.todo = DOMAIN m.todo /\ n.todo[l] = u
      /\ \A d \in DOMAIN m.todo : d # l => n.todo[d] = m.todo[d]
  BY <1>1, <1>4, Turned DEF u, l
<1>6. \A d \in DOMAIN m.todo : n.todo[d].fn = m.todo[d].fn
  BY <1>2, <1>4, <1>5
<1>7. t.x \in DOMAIN m.exprs /\ t.x \in Nat /\ t.next \in Nat
  BY <1>1, <1>2, <1>3 DEF InOnePiece
<1>8. InOnePiece(n)
  <2>1. \A d \in DOMAIN n.todo :
          /\ n.todo[d].fn \in {"gen", "child", "core"} => n.todo[d].x \in DOMAIN n.exprs
          /\ n.todo[d].fn # "core" => n.todo[d].e \in DOMAIN n.scopes
    BY <1>1, <1>4, <1>5, <1>7 DEF InOnePiece
  <2> QED
    BY <1>1, <1>5, <2>1, InOnePieceSame
<1>9. Ordered(n)
  BY <1>1, <1>5, <1>6, OrderedSame
<1>10. Uppers(n) /\ IsInjective(n.frees)
  <2>1. ASSUME NEW d \in DOMAIN n.todo, n.todo[d].fn = "env"
        PROVE  /\ n.todo[d].left \subseteq DOMAIN n.scopes[n.todo[d].e].dict
               /\ n.todo[d].e # Global => n.scopes[n.todo[d].e].upper = 0
    <3>1. d \in DOMAIN m.todo /\ n.todo[d] = m.todo[d] /\ m.todo[d].fn = "env"
      BY <1>4, <1>5, <2>1
    <3> QED
      BY <1>1, <1>5, <3>1 DEF Uppers
  <2> QED
    BY <1>1, <1>5, <2>1 DEF Uppers
<1>11. /\ \A z : Freed(n, "expr", z) <=> Freed(m, "expr", z)
       /\ \A z : Freed(n, "scope", z) <=> Freed(m, "scope", z)
  BY <1>5 DEF Freed
<1>12. ASSUME NEW z, NEW i \in Nat,
              \A d \in DOMAIN n.todo : n.todo[d].fn = "core" /\ n.todo[d].x = z => n.todo[d].next <= i
       PROVE  /\ \A d \in DOMAIN m.todo : m.todo[d].fn = "core" /\ m.todo[d].x = z => m.todo[d].next <= i
              /\ z = t.x => t.next < i
  <2>1. z = t.x => t.next + 1 <= i
    BY <1>2, <1>4, <1>5, <1>12
  <2>2. z = t.x => t.next < i /\ t.next <= i
    BY <1>7, <2>1
  <2> QED
    BY <1>2, <1>5, <1>12, <2>2
<1>13. /\ \A z, i \in Nat : KidPlace(n, z, i) =>
            KidPlace(m, z, i) /\ n.exprs[z].kids[i] = m.exprs[z].kids[i] /\ (z = t.x => t.next < i)
       /\ \A z \in Nat, q \in Texts : KeyPlace(n, z, q) =>
            KeyPlace(m, z, q) /\ n.scopes[z].dict[q] = m.scopes[z].dict[q]
       /\ \A d \in Nat : CorePlace(n, d) => CorePlace(m, d) /\ n.todo[d].x = m.todo[d].x
  <2>1. \A z, i \in Nat : KidPlace(n, z, i) =>
          KidPlace(m, z, i) /\ n.exprs[z].kids[i] = m.exprs[z].kids[i] /\ (z = t.x => t.next < i)
    <3> SUFFICES ASSUME NEW z \in Nat, NEW i \in Nat, KidPlace(n, z, i)
                 PROVE  KidPlace(m, z, i) /\ n.exprs[z].kids[i] = m.exprs[z].kids[i] /\ (z = t.x => t.next < i)
      OBVIOUS
    <3>1. /\ z \in DOMAIN m.exprs /\ ~Freed(m, "expr", z) /\ i \in DOMAIN m.exprs[z].kids
          /\ \A d \in DOMAIN n.todo : n.todo[d].fn = "core" /\ n.todo[d].x = z => n.todo[d].next <= i
      BY <1>5, <1>11 DEF KidPlace
    <3>2. /\ \A d \in DOMAIN m.todo : m.todo[d].fn = "core" /\ m.todo[d].x = z => m.todo[d].next <= i
          /\ z = t.x => t.next < i
      BY <1>12, <3>1
    <3> QED
      BY <1>5, <3>1, <3>2 DEF KidPlace
  <2>2. \A z \in Nat, q \in Texts : KeyPlace(n, z, q) =>
          KeyPlace(m, z, q) /\ n.scopes[z].dict[q] = m.scopes[z].dict[q]
    BY <1>2, <1>5, <1>6 DEF KeyPlace
  <2>3. \A d \in Nat : CorePlace(n, d) => CorePlace(m, d) /\ n.todo[d].x = m.todo[d].x
    BY <1>2, <1>4, <1>5, <1>6 DEF CorePlace
  <2> QED
    BY <2>1, <2>2, <2>3
<1>14. ExprsOwned(n)
  BY <1>1, <1>11, <1>13, ExprsKept
<1>15. /\ \A z \in Nat : ArgsPlace(n, z) =>
            /\ ArgsPlace(m, z) /\ n.exprs[z].args = m.exprs[z].args
            /\ z = t.x => t.next < Len(m.exprs[z].kids) + 1
       /\ UpperPlace(n) => UpperPlace(m) /\ n.scopes[Global].upper = m.scopes[Global].upper
       /\ \A d \in Nat : EnvPlace(n, d) => EnvPlace(m, d) /\ n.todo[d].e = m.todo[d].e
  <2>1. \A z \in DOMAIN m.exprs : Len(m.exprs[z].kids) + 1 \in Nat
    <3>1. m.exprs \in Seq(Exprs)
      BY <1>1 DEF Memory
    <3>2. ASSUME NEW z \in DOMAIN m.exprs PROVE m.exprs[z].kids \in Seq(Nat)
      <4>1. m.exprs[z] \in Exprs
        BY <3>1
      <4> QED
        BY <4>1 DEF Exprs
    <3> QED
      BY <3>2, LenProperties
  <2>2. ASSUME NEW z \in Nat, ArgsPlace(n, z)
        PROVE  /\ ArgsPlace(m, z) /\ n.exprs[z].args = m.exprs[z].args
               /\ z = t.x => t.next < Len(m.exprs[z].kids) + 1
    <3>1. /\ z \in DOMAIN m.exprs /\ ~Freed(m, "expr", z) /\ m.exprs[z].form = "LAMBDA"
          /\ \A d \in DOMAIN n.todo :
               n.todo[d].fn = "core" /\ n.todo[d].x = z => n.todo[d].next <= Len(m.exprs[z].kids) + 1
      BY <1>5, <1>11, <2>2 DEF ArgsPlace
    <3>2. Len(m.exprs[z].kids) + 1 \in Nat
      BY <2>1, <3>1
    <3>3. /\ \A d \in DOMAIN m.todo :
               m.todo[d].fn = "core" /\ m.todo[d].x = z => m.todo[d].next <= Len(m.exprs[z].kids) + 1
          /\ z = t.x => t.next < Len(m.exprs[z].kids) + 1
      BY <1>12, <3>1, <3>2
    <3> QED
      BY <1>5, <3>1, <3>3 DEF ArgsPlace
  <2>3. UpperPlace(n) => UpperPlace(m) /\ n.scopes[Global].upper = m.scopes[Global].upper
    BY <1>5 DEF UpperPlace
  <2>4. \A d \in Nat : EnvPlace(n, d) => EnvPlace(m, d) /\ n.todo[d].e = m.todo[d].e
    BY <1>2, <1>4, <1>5, <1>6 DEF EnvPlace
  <2> QED
    BY <2>2, <2>3, <2>4
<1>16. ScopesOwned(n)
  BY <1>1, <1>11, <1>15, ScopesKept
<1>17. ~Freed(m, "expr", t.x) /\ \A d \in DOMAIN m.todo : m.todo[d].fn = "core" /\ m.todo[d].x = t.x => d = l
  <2>1. ASSUME NEW d \in DOMAIN m.todo, m.todo[d].fn = "core"
        PROVE  <<"task", d, 0>> \in ExprPlaces(m) /\ ExprAtPlace(m, <<"task", d, 0>>) = m.todo[d].x
    BY <1>2, <2>1 DEF ExprPlaces, ExprAtPlace, CorePlace
  <2>2. <<"task", l, 0>> \in ExprPlaces(m) /\ ExprAtPlace(m, <<"task", l, 0>>) = t.x
    BY <1>2, <2>1
  <2>3. ASSUME NEW d \in DOMAIN m.todo, m.todo[d].fn = "core", m.todo[d].x = t.x PROVE d = l
    <3>1. <<"task", d, 0>> = <<"task", l, 0>>
      BY <1>1, <2>1, <2>2, <2>3 DEF ExprsOwned
    <3> QED
      BY <3>1
  <2> QED
    BY <1>1, <2>2, <2>3 DEF ExprsOwned
<1>18. ASSUME t.next \in DOMAIN m.exprs[t.x].kids
       PROVE  /\ m.exprs[t.x].kids[t.next] \in DOMAIN m.exprs
              /\ UnownedExpr(n, m.exprs[t.x].kids[t.next])
  <2> DEFINE p == <<"kid", t.x, t.next>>
             y == m.exprs[t.x].kids[t.next]
  <2>1. p \in ExprPlaces(m) /\ ExprAtPlace(m, p) = y
    <3>1. KidPlace(m, t.x, t.next)
      BY <1>2, <1>7, <1>17, <1>18 DEF KidPlace
    <3> QED
      BY <1>7, <3>1 DEF ExprPlaces, ExprAtPlace
  <2>2. y \in DOMAIN m.exprs
    <3>1. ToSet(m.exprs[t.x].kids) \subseteq DOMAIN m.exprs
      BY <1>1, <1>7 DEF InOnePiece
    <3> QED
      BY <1>18, <3>1 DEF ToSet
  <2>3. p \notin ExprPlaces(n)
    <3>1. ~KidPlace(n, t.x, t.next)
      BY <1>7, <1>13
    <3> QED
      BY <3>1 DEF ExprPlaces
  <2>4. \A q \in ExprPlaces(n) : q \in ExprPlaces(m) /\ ExprAtPlace(n, q) = ExprAtPlace(m, q)
    <3>1. ExprsStay(m, n)
      BY <1>13 DEF ExprsStay
    <3> QED
      BY <3>1, ExprPlacesStay
  <2> HIDE DEF p, y
  <2>5. UnownedExpr(n, y)
    BY <1>1, <1>11, <2>1, <2>3, <2>4 DEF ExprsOwned, UnownedExpr
  <2> QED
    BY <2>2, <2>5 DEF y
<1>19. ASSUME m.exprs[t.x].form = "LAMBDA", t.next = Len(m.exprs[t.x].kids) + 1
       PROVE  m.exprs[t.x].args \in DOMAIN m.scopes /\ Unowned(n, m.exprs[t.x].args)
  <2> DEFINE p == <<"args", t.x>>
             a == m.exprs[t.x].args
  <2>1. p \in ScopePlaces(m) /\ ScopeAtPlace(m, p) = a
    <3>1. ArgsPlace(m, t.x)
      BY <1>2, <1>7, <1>17, <1>19 DEF ArgsPlace
    <3> QED
      BY <1>7, <3>1 DEF ScopePlaces, ScopeAtPlace
  <2>2. a \in DOMAIN m.scopes
    BY <1>1, <1>7, <1>19 DEF InOnePiece
  <2>3. p \notin ScopePlaces(n)
    <3>1. ~ArgsPlace(n, t.x)
      <4> SUFFICES ASSUME ArgsPlace(n, t.x) PROVE FALSE
        OBVIOUS
      <4>1. t.next < Len(m.exprs[t.x].kids) + 1
        BY <1>7, <1>15
      <4>2. t.next < t.next
        BY <1>19, <4>1
      <4> QED
        BY <1>7, <4>2
    <3> QED
      BY <3>1 DEF ScopePlaces
  <2>4. \A q \in ScopePlaces(n) : q \in ScopePlaces(m) /\ ScopeAtPlace(n, q) = ScopeAtPlace(m, q)
    <3>1. ScopesStay(m, n)
      BY <1>15 DEF ScopesStay
    <3> QED
      BY <3>1, ScopePlacesStay
  <2> HIDE DEF p, a
  <2>5. Unowned(n, a)
    BY <1>1, <1>11, <2>1, <2>3, <2>4 DEF ScopesOwned, Unowned
  <2> QED
    BY <2>2, <2>5 DEF a
<1>20. StillThere(Pop(m), n)
  BY <1>2, <1>4, <1>5 DEF StillThere, Stacks
<1>21. Good(n)
  BY <1>5, <1>8, <1>9, <1>10, <1>14, <1>16 DEF Good
<1> QED
  BY <1>5, <1>7, <1>18, <1>19, <1>20, <1>21

\* env_destroy of a scope goes on with the names that are left: the expression of
\* the one taken is owned by nothing then.
LEMMA GoodLaterEnv ==
  ASSUME NEW m, Good(m), m.todo # <<>>, NEW t, t = Last(m.todo), t.fn = "env", NEW name \in t.left,
         NEW u \in Tasks, u.fn = "env", u.e = t.e, u.left = t.left \ {name},
         NEW n, n = Push(Pop(m), <<u>>)
  PROVE  /\ Good(n) /\ StillThere(Pop(m), n)
         /\ n.exprs = m.exprs /\ n.scopes = m.scopes
         /\ m.scopes[t.e].dict[name] \in DOMAIN m.exprs
         /\ UnownedExpr(n, m.scopes[t.e].dict[name])
<1> DEFINE l == Top(m)
<1>1. /\ m \in Memory /\ InOnePiece(m) /\ Uppers(m) /\ Ordered(m)
      /\ IsInjective(m.frees) /\ ExprsOwned(m) /\ ScopesOwned(m)
  BY DEF Good
<1>2. /\ l \in DOMAIN m.todo /\ l \in Nat /\ m.todo[l] = t /\ t \in Tasks
      /\ DOMAIN Pop(m).todo = DOMAIN m.todo \ {l}
      /\ \A d \in DOMAIN m.todo : d # l => Pop(m).todo[d] = m.todo[d]
      /\ DOMAIN m.todo \subseteq Nat
  BY <1>1, PoppedOne
<1>3. t \in [fn : {"env"}, e : Nat, left : SUBSET Texts]
  BY <1>2 DEF Tasks, Holding, Destroying, Generating
<1> HIDE DEF l
<1>4. n \in Memory /\ n.exprs = m.exprs /\ n.scopes = m.scopes /\ n.frees = m.frees
  BY <1>1, Turned
<1>5. /\ DOMAIN n.todo = DOMAIN m.todo /\ n.todo[l] = u
      /\ \A d \in DOMAIN m.todo : d # l => n.todo[d] = m.todo[d]
  <2>1. DOMAIN n.todo = DOMAIN m.todo
    BY <1>1, Turned
  <2>2. n.todo[Top(m)] = u
    BY <1>1, Turned
  <2>3. \A d \in DOMAIN m.todo : d # Top(m) => n.todo[d] = m.todo[d]
    BY <1>1, Turned
  <2> QED
    BY <2>1, <2>2, <2>3 DEF l
<1>6. \A d \in DOMAIN m.todo : n.todo[d].fn = m.todo[d].fn
  BY <1>2, <1>5
<1>7. /\ t.e \in DOMAIN m.scopes /\ t.e \in Nat /\ name \in Texts
      /\ t.left \subseteq DOMAIN m.scopes[t.e].dict
      /\ t.e # Global => m.scopes[t.e].upper = 0
  <2>1. t.e \in DOMAIN m.scopes
    BY <1>1, <1>2 DEF InOnePiece
  <2>2. t.left \subseteq DOMAIN m.scopes[t.e].dict /\ (t.e # Global => m.scopes[t.e].upper = 0)
    BY <1>1, <1>2 DEF Uppers
  <2> QED
    BY <1>3, <2>1, <2>2
<1>8. InOnePiece(n)
  <2>1. \A d \in DOMAIN n.todo :
          /\ n.todo[d].fn \in {"gen", "child", "core"} => n.todo[d].x \in DOMAIN n.exprs
          /\ n.todo[d].fn # "core" => n.todo[d].e \in DOMAIN n.scopes
    <3> TAKE d \in DOMAIN n.todo
    <3>1. CASE d = l
      BY <1>4, <1>5, <1>7, <3>1
    <3>2. CASE d # l
      BY <1>1, <1>4, <1>5, <3>2 DEF InOnePiece
    <3> QED
      BY <3>1, <3>2
  <2> QED
    BY <1>1, <1>4, <2>1, InOnePieceSame
<1>9. Ordered(n)
  BY <1>1, <1>5, <1>6, OrderedSame
<1>10. Uppers(n) /\ IsInjective(n.frees)
  <2>1. ASSUME NEW d \in DOMAIN n.todo, n.todo[d].fn = "env"
        PROVE  /\ n.todo[d].left \subseteq DOMAIN n.scopes[n.todo[d].e].dict
               /\ n.todo[d].e # Global => n.scopes[n.todo[d].e].upper = 0
    <3>1. CASE d = l
      BY <1>4, <1>5, <1>7, <3>1
    <3>2. CASE d # l
      <4>1. d \in DOMAIN m.todo /\ n.todo[d] = m.todo[d] /\ m.todo[d].fn = "env"
        BY <1>4, <1>5, <2>1, <3>2
      <4> QED
        BY <1>1, <1>4, <1>5, <4>1 DEF Uppers
    <3> QED
      BY <3>1, <3>2
  <2> QED
    BY <1>1, <1>4, <1>5, <2>1 DEF Uppers
<1>11. /\ \A z : Freed(n, "expr", z) <=> Freed(m, "expr", z)
       /\ \A z : Freed(n, "scope", z) <=> Freed(m, "scope", z)
  BY <1>4, <1>5 DEF Freed
<1>12. ExprsStay(m, n) /\ ~KeyPlace(n, t.e, name)
  <2>1. \A z, i \in Nat : KidPlace(n, z, i) => KidPlace(m, z, i) /\ n.exprs[z].kids[i] = m.exprs[z].kids[i]
    <3> SUFFICES ASSUME NEW z \in Nat, NEW i \in Nat, KidPlace(n, z, i)
                 PROVE  KidPlace(m, z, i) /\ n.exprs[z].kids[i] = m.exprs[z].kids[i]
      OBVIOUS
    <3>1. \A d \in DOMAIN m.todo : m.todo[d].fn = "core" => n.todo[d] = m.todo[d]
      BY <1>3, <1>2, <1>4, <1>5
    <3> QED
      BY <1>4, <1>5, <1>11, <3>1 DEF KidPlace
  <2>2. \A z \in Nat, q \in Texts : KeyPlace(n, z, q) => KeyPlace(m, z, q) /\ n.scopes[z].dict[q] = m.scopes[z].dict[q]
    <3> SUFFICES ASSUME NEW z \in Nat, NEW q \in Texts, KeyPlace(n, z, q)
                 PROVE  KeyPlace(m, z, q) /\ n.scopes[z].dict[q] = m.scopes[z].dict[q]
      OBVIOUS
    <3>1. ASSUME NEW d \in DOMAIN m.todo, m.todo[d].fn = "env", m.todo[d].e = z PROVE q \in m.todo[d].left
      <4>1. CASE d = l
        BY <1>2, <1>4, <1>5, <3>1, <4>1 DEF KeyPlace
      <4>2. CASE d # l
        BY <1>4, <1>5, <3>1, <4>2 DEF KeyPlace
      <4> QED
        BY <4>1, <4>2
    <3> QED
      BY <1>4, <1>5, <3>1 DEF KeyPlace
  <2>3. \A d \in Nat : CorePlace(n, d) => CorePlace(m, d) /\ n.todo[d].x = m.todo[d].x
    <3>1. \A d \in DOMAIN m.todo : m.todo[d].fn = "core" => n.todo[d] = m.todo[d]
      BY <1>3, <1>2, <1>4, <1>5
    <3> QED
      BY <1>4, <1>5, <1>6, <3>1 DEF CorePlace
  <2>4. ~KeyPlace(n, t.e, name)
    BY <1>2, <1>4, <1>5 DEF KeyPlace
  <2> QED
    BY <2>1, <2>2, <2>3, <2>4 DEF ExprsStay
<1>13. ScopesStay(m, n)
  <2>1. \A z \in Nat : ArgsPlace(n, z) => ArgsPlace(m, z) /\ n.exprs[z].args = m.exprs[z].args
    <3> SUFFICES ASSUME NEW z \in Nat, ArgsPlace(n, z)
                 PROVE  ArgsPlace(m, z) /\ n.exprs[z].args = m.exprs[z].args
      OBVIOUS
    <3>1. \A d \in DOMAIN m.todo : m.todo[d].fn = "core" => n.todo[d] = m.todo[d]
      BY <1>3, <1>2, <1>4, <1>5
    <3> QED
      BY <1>4, <1>5, <1>11, <3>1 DEF ArgsPlace
  <2>2. UpperPlace(n) => UpperPlace(m) /\ n.scopes[Global].upper = m.scopes[Global].upper
    BY <1>4, <1>5 DEF UpperPlace
  <2>3. \A d \in Nat : EnvPlace(n, d) => EnvPlace(m, d) /\ n.todo[d].e = m.todo[d].e
    BY <1>2, <1>4, <1>5, <1>6 DEF EnvPlace
  <2> QED
    BY <2>1, <2>2, <2>3 DEF ScopesStay
<1>14. ExprsOwned(n)
  BY <1>1, <1>4, <1>12, ExprsOwnedStay
<1>15. ScopesOwned(n)
  BY <1>1, <1>4, <1>13, ScopesOwnedStay
<1>16. \A d \in DOMAIN m.todo : m.todo[d].fn = "env" /\ m.todo[d].e = t.e => d = l
  <2>1. ASSUME NEW d \in DOMAIN m.todo, m.todo[d].fn = "env"
        PROVE  <<"task", d>> \in ScopePlaces(m) /\ ScopeAtPlace(m, <<"task", d>>) = m.todo[d].e
    BY <1>2, <2>1 DEF ScopePlaces, ScopeAtPlace, EnvPlace
  <2>2. <<"task", l>> \in ScopePlaces(m) /\ ScopeAtPlace(m, <<"task", l>>) = t.e
    BY <1>2, <2>1
  <2>3. ASSUME NEW d \in DOMAIN m.todo, m.todo[d].fn = "env", m.todo[d].e = t.e PROVE d = l
    <3>1. <<"task", d>> = <<"task", l>>
      BY <1>1, <2>1, <2>2, <2>3 DEF ScopesOwned
    <3> QED
      BY <3>1
  <2> QED
    BY <2>3
<1>17. /\ m.scopes[t.e].dict[name] \in DOMAIN m.exprs
       /\ UnownedExpr(n, m.scopes[t.e].dict[name])
  <2> DEFINE p == <<"key", t.e, name>>
             y == m.scopes[t.e].dict[name]
  <2>1. p \in ExprPlaces(m) /\ ExprAtPlace(m, p) = y
    <3>1. KeyPlace(m, t.e, name)
      BY <1>2, <1>7, <1>16 DEF KeyPlace
    <3> QED
      BY <1>7, <3>1 DEF ExprPlaces, ExprAtPlace
  <2>2. y \in DOMAIN m.exprs
    BY <1>1, <1>7 DEF InOnePiece
  <2>3. p \notin ExprPlaces(n)
    BY <1>12 DEF ExprPlaces
  <2>4. \A q \in ExprPlaces(n) : q \in ExprPlaces(m) /\ ExprAtPlace(n, q) = ExprAtPlace(m, q)
    BY <1>12, ExprPlacesStay
  <2> HIDE DEF p, y
  <2>5. UnownedExpr(n, y)
    BY <1>1, <1>11, <2>1, <2>3, <2>4 DEF ExprsOwned, UnownedExpr
  <2> QED
    BY <2>2, <2>5 DEF y
<1>18. StillThere(Pop(m), n)
  BY <1>2, <1>4, <1>5 DEF StillThere, Stacks
<1>19. Good(n)
  BY <1>4, <1>5, <1>8, <1>9, <1>10, <1>14, <1>15 DEF Good
<1> QED
  BY <1>4, <1>5, <1>17, <1>18, <1>19

\* Something is freed.
LEMMA FreeMemory ==
  ASSUME NEW m \in Memory, NEW f \in {"expr", "scope"} \X Nat
  PROVE  /\ Free(m, f) \in Memory /\ Free(m, f).frees = Append(m.frees, f)
         /\ Free(m, f).exprs = m.exprs /\ Free(m, f).scopes = m.scopes
         /\ Free(m, f).todo = m.todo /\ Free(m, f).failed = m.failed
<1>1. m.frees \in Seq({"expr", "scope"} \X Nat)
  BY DEF Memory
<1>2. Append(m.frees, f) \in Seq({"expr", "scope"} \X Nat)
  BY <1>1, AppendProperties
<1> QED
  BY <1>2 DEF Free, Memory

\* What is freed once more is f, which was not freed before.
LEMMA OnceMore ==
  ASSUME NEW m \in Memory, IsInjective(m.frees), NEW f \in {"expr", "scope"} \X Nat,
         f \notin ToSet(m.frees)
  PROVE  /\ IsInjective(Append(m.frees, f))
         /\ ToSet(Append(m.frees, f)) = ToSet(m.frees) \cup {f}
<1> DEFINE S == {"expr", "scope"} \X Nat
<1>1. ASSUME NEW s \in Seq(S), IsInjective(s), f \notin ToSet(s)
      PROVE  IsInjective(Append(s, f)) /\ ToSet(Append(s, f)) = ToSet(s) \cup {f}
  <2> DEFINE k == Len(s) + 1
             r == Append(s, f)
  <2>1. /\ DOMAIN r = DOMAIN s \cup {k} /\ k \notin DOMAIN s
        /\ \A i \in DOMAIN s : r[i] = s[i]
        /\ r[k] = f
    <3>1. f \in S
      OBVIOUS
    <3> HIDE DEF S
    <3>2. /\ Len(s) \in Nat /\ DOMAIN s = 1..Len(s)
      BY LenProperties
    <3>3. /\ DOMAIN r = 1..(Len(s) + 1) /\ \A i \in 1..Len(s) : r[i] = s[i]
          /\ r[Len(s) + 1] = f
      BY <3>1, Appended
    <3> QED
      BY <3>2, <3>3
  <2> HIDE DEF k, r, S
  <2>2. \A i, j \in DOMAIN s : s[i] = s[j] => i = j
    BY <1>1 DEF IsInjective
  <2>3. \A i \in DOMAIN s : s[i] # f
    BY <1>1 DEF ToSet
  <2>4. \A i, j \in DOMAIN r : r[i] = r[j] => i = j
    BY <2>1, <2>2, <2>3
  <2>5. IsInjective(r)
    BY <2>4 DEF IsInjective
  <2>6. ToSet(r) = ToSet(s) \cup {f}
    BY <2>1 DEF ToSet
  <2> QED
    BY <2>5, <2>6 DEF r
<1>2. m.frees \in Seq(S)
  BY DEF Memory
<1> HIDE DEF S
<1> QED
  BY <1>1, <1>2

\* What owns x destroys it at last: it is freed.
LEMMA GoodFreeExpr ==
  ASSUME NEW m, Good(m), m.todo # <<>>, NEW t, t = Last(m.todo), t.fn = "core",
         NEW n, n = Free(Pop(m), <<"expr", t.x>>)
  PROVE  Good(n) /\ StillThere(Pop(m), n)
<1> DEFINE l == Top(m)
           f == <<"expr", t.x>>
<1>1. /\ m \in Memory /\ InOnePiece(m) /\ Uppers(m) /\ Ordered(m)
      /\ IsInjective(m.frees) /\ ExprsOwned(m) /\ ScopesOwned(m)
  BY DEF Good
<1>2. /\ Pop(m) \in Memory
      /\ Pop(m).exprs = m.exprs /\ Pop(m).scopes = m.scopes /\ Pop(m).frees = m.frees
      /\ l \in DOMAIN m.todo /\ l \in Nat /\ m.todo[l] = t /\ t \in Tasks
      /\ DOMAIN Pop(m).todo = DOMAIN m.todo \ {l}
      /\ \A d \in DOMAIN m.todo : d # l => Pop(m).todo[d] = m.todo[d]
      /\ DOMAIN m.todo \subseteq Nat
  BY <1>1, PoppedOne
<1>3. t.x \in DOMAIN m.exprs /\ t.x \in Nat
  <2>1. t \in [fn : {"core"}, x : Nat, next : Nat]
    BY <1>2 DEF Tasks, Holding, Destroying, Generating
  <2> QED
    BY <1>1, <1>2, <2>1 DEF InOnePiece
<1>4. f \in {"expr", "scope"} \X Nat
  BY <1>3
<1>5. n = Free(Pop(m), f)
  OBVIOUS
<1> HIDE DEF f, l
<1>6. /\ n.frees = Append(m.frees, f) /\ n \in Memory
      /\ n.exprs = m.exprs /\ n.scopes = m.scopes /\ n.todo = Pop(m).todo
  <2>1. n \in Memory
    BY <1>2, <1>4, <1>5, FreeMemory
  <2>2. n.exprs = m.exprs /\ n.scopes = m.scopes /\ n.todo = Pop(m).todo
    BY <1>2, <1>4, <1>5, FreeMemory
  <2>3. n.frees = Append(Pop(m).frees, f)
    BY <1>2, <1>5 DEF Free, Memory
  <2> QED
    BY <1>2, <2>1, <2>2, <2>3
<1>7. DOMAIN n.todo = DOMAIN m.todo \ {l} /\ \A d \in DOMAIN n.todo : n.todo[d] = m.todo[d]
  BY <1>2, <1>6
<1>8. f \notin ToSet(m.frees)
  <2>1. <<"task", l, 0>> \in ExprPlaces(m) /\ ExprAtPlace(m, <<"task", l, 0>>) = t.x
    BY <1>2 DEF ExprPlaces, ExprAtPlace, CorePlace
  <2> QED
    BY <1>1, <2>1 DEF ExprsOwned, Freed, f
<1>9. IsInjective(n.frees) /\ ToSet(n.frees) = ToSet(m.frees) \cup {f}
  BY <1>1, <1>4, <1>6, <1>8, OnceMore
<1>10. /\ \A z : Freed(n, "expr", z) <=> Freed(m, "expr", z) \/ z = t.x
       /\ \A z : Freed(n, "scope", z) <=> Freed(m, "scope", z)
  BY <1>9 DEF Freed, f
<1>11. InOnePiece(n)
  <2>1. \A z \in DOMAIN n.exprs :
          /\ ToSet(n.exprs[z].kids) \subseteq DOMAIN n.exprs
          /\ n.exprs[z].target \in DOMAIN n.exprs \cup {0}
          /\ (n.exprs[z].form = "INDIR" <=> n.exprs[z].target # 0)
          /\ n.exprs[z].args \in DOMAIN n.scopes \cup {0}
          /\ (n.exprs[z].form = "LAMBDA" <=> n.exprs[z].args # 0)
    BY <1>1, <1>6 DEF InOnePiece
  <2>2. \A z \in DOMAIN n.scopes :
          /\ n.scopes[z].upper \in 0..(z - 1)
          /\ \A k \in DOMAIN n.scopes[z].dict : n.scopes[z].dict[k] \in DOMAIN n.exprs
    BY <1>1, <1>6 DEF InOnePiece
  <2>3. \A d \in DOMAIN n.todo :
          /\ n.todo[d].fn \in {"gen", "child", "core"} => n.todo[d].x \in DOMAIN n.exprs
          /\ n.todo[d].fn # "core" => n.todo[d].e \in DOMAIN n.scopes
    BY <1>1, <1>6, <1>7 DEF InOnePiece
  <2>4. ToSet(n.frees) \subseteq Objects(n)
    BY <1>1, <1>3, <1>6, <1>9, SMTT(20) DEF InOnePiece, Objects, f
  <2> QED
    BY <2>1, <2>2, <2>3, <2>4, Zenon DEF InOnePiece
<1>12. Ordered(n)
  BY <1>1, <1>7, OrderedSame
<1>13. Uppers(n)
  <2>1. ASSUME NEW d \in DOMAIN n.todo, n.todo[d].fn = "env"
        PROVE  /\ n.todo[d].left \subseteq DOMAIN n.scopes[n.todo[d].e].dict
               /\ n.todo[d].e # Global => n.scopes[n.todo[d].e].upper = 0
    BY <1>1, <1>6, <1>7, <2>1 DEF Uppers
  <2> QED
    BY <1>1, <1>6, <2>1 DEF Uppers
<1>14. ExprsStay(m, n)
  <2>1. \A z, i \in Nat : KidPlace(n, z, i) => KidPlace(m, z, i) /\ n.exprs[z].kids[i] = m.exprs[z].kids[i]
    <3> SUFFICES ASSUME NEW z \in Nat, NEW i \in Nat, KidPlace(n, z, i)
                 PROVE  KidPlace(m, z, i) /\ n.exprs[z].kids[i] = m.exprs[z].kids[i]
      OBVIOUS
    <3>1. z # t.x
      BY <1>10 DEF KidPlace
    <3>2. \A d \in DOMAIN m.todo : m.todo[d].fn = "core" /\ m.todo[d].x = z => d \in DOMAIN n.todo
      BY <1>2, <1>7, <3>1
    <3> QED
      BY <1>6, <1>7, <1>10, <3>2 DEF KidPlace
  <2>2. \A z \in Nat, q \in Texts : KeyPlace(n, z, q) => KeyPlace(m, z, q) /\ n.scopes[z].dict[q] = m.scopes[z].dict[q]
    <3>1. \A d \in DOMAIN m.todo : m.todo[d].fn = "env" => d \in DOMAIN n.todo
      BY <1>2, <1>7
    <3> QED
      BY <1>6, <1>7, <3>1 DEF KeyPlace
  <2>3. \A d \in Nat : CorePlace(n, d) => CorePlace(m, d) /\ n.todo[d].x = m.todo[d].x
    BY <1>7 DEF CorePlace
  <2> QED
    BY <2>1, <2>2, <2>3 DEF ExprsStay
<1>15. \A q \in ExprPlaces(n) : /\ q \in ExprPlaces(m) /\ ExprAtPlace(n, q) = ExprAtPlace(m, q)
                                /\ ExprAtPlace(n, q) # t.x
  <2>1. <<"task", l, 0>> \in ExprPlaces(m) /\ ExprAtPlace(m, <<"task", l, 0>>) = t.x
    BY <1>2 DEF ExprPlaces, ExprAtPlace, CorePlace
  <2>2. <<"task", l, 0>> \notin ExprPlaces(n)
    BY <1>7 DEF ExprPlaces, CorePlace
  <2>3. \A q \in ExprPlaces(n) : q \in ExprPlaces(m) /\ ExprAtPlace(n, q) = ExprAtPlace(m, q)
    BY <1>14, ExprPlacesStay
  <2> QED
    BY <1>1, <2>1, <2>2, <2>3 DEF ExprsOwned
<1>16. ExprsOwned(n)
  BY <1>1, <1>10, <1>15 DEF ExprsOwned
<1>17. ScopesStay(m, n)
  <2>1. \A z \in Nat : ArgsPlace(n, z) => ArgsPlace(m, z) /\ n.exprs[z].args = m.exprs[z].args
    <3> SUFFICES ASSUME NEW z \in Nat, ArgsPlace(n, z)
                 PROVE  ArgsPlace(m, z) /\ n.exprs[z].args = m.exprs[z].args
      OBVIOUS
    <3>1. z # t.x
      BY <1>10 DEF ArgsPlace
    <3>2. \A d \in DOMAIN m.todo : m.todo[d].fn = "core" /\ m.todo[d].x = z => d \in DOMAIN n.todo
      BY <1>2, <1>7, <3>1
    <3> QED
      BY <1>6, <1>7, <1>10, <3>2 DEF ArgsPlace
  <2>2. UpperPlace(n) => UpperPlace(m) /\ n.scopes[Global].upper = m.scopes[Global].upper
    BY <1>6 DEF UpperPlace
  <2>3. \A d \in Nat : EnvPlace(n, d) => EnvPlace(m, d) /\ n.todo[d].e = m.todo[d].e
    BY <1>7 DEF EnvPlace
  <2> QED
    BY <2>1, <2>2, <2>3 DEF ScopesStay
<1>18. ScopesOwned(n)
  <2>1. \A q \in ScopePlaces(n) : q \in ScopePlaces(m) /\ ScopeAtPlace(n, q) = ScopeAtPlace(m, q)
    BY <1>17, ScopePlacesStay
  <2> QED
    BY <1>1, <1>10, <2>1 DEF ScopesOwned
<1>19. StillThere(Pop(m), n)
  BY <1>6 DEF StillThere, Stacks
<1> QED
  BY <1>6, <1>9, <1>11, <1>12, <1>13, <1>16, <1>18, <1>19, Zenon DEF Good

\* The table of a scope is freed, and the scope above it is owned by nothing then.
LEMMA GoodFreeScope ==
  ASSUME NEW m, Good(m), m.todo # <<>>, NEW t, t = Last(m.todo), t.fn = "env",
         NEW n, n = Free([Pop(m) EXCEPT !.scopes[t.e] = Scope(0)], <<"scope", t.e>>)
  PROVE  /\ Good(n) /\ StillThere(Pop(m), n) /\ t.e \in DOMAIN m.scopes
         /\ m.scopes[t.e].upper # 0 =>
              /\ m.scopes[t.e].upper \in DOMAIN n.scopes /\ Unowned(n, m.scopes[t.e].upper)
              /\ n.scopes[m.scopes[t.e].upper].upper = 0
<1> DEFINE l == Top(m)
           f == <<"scope", t.e>>
           k == [Pop(m) EXCEPT !.scopes[t.e] = Scope(0)]
<1>1. /\ m \in Memory /\ InOnePiece(m) /\ Uppers(m) /\ Ordered(m)
      /\ IsInjective(m.frees) /\ ExprsOwned(m) /\ ScopesOwned(m)
  BY DEF Good
<1>2. /\ Pop(m) \in Memory
      /\ Pop(m).exprs = m.exprs /\ Pop(m).scopes = m.scopes /\ Pop(m).frees = m.frees
      /\ l \in DOMAIN m.todo /\ l \in Nat /\ m.todo[l] = t /\ t \in Tasks
      /\ DOMAIN Pop(m).todo = DOMAIN m.todo \ {l}
      /\ \A d \in DOMAIN m.todo : d # l => Pop(m).todo[d] = m.todo[d]
      /\ DOMAIN m.todo \subseteq Nat
  BY <1>1, PoppedOne
<1>3. /\ t.e \in DOMAIN m.scopes /\ t.e \in Nat
      /\ t.e # Global => m.scopes[t.e].upper = 0
  <2>1. t \in [fn : {"env"}, e : Nat, left : SUBSET Texts]
    BY <1>2 DEF Tasks, Holding, Destroying, Generating
  <2>2. t.e \in DOMAIN m.scopes
    BY <1>1, <1>2 DEF InOnePiece
  <2>3. t.e # Global => m.scopes[t.e].upper = 0
    BY <1>1, <1>2 DEF Uppers
  <2> QED
    BY <2>1, <2>2, <2>3
<1>4. f \in {"expr", "scope"} \X Nat
  BY <1>3
<1>5. n = Free(k, f)
  OBVIOUS
<1>6. Scope(0) \in Scopes /\ Scope(0).upper = 0 /\ DOMAIN Scope(0).dict = {}
  <2>1. <<>> \in [{} -> Nat]
    OBVIOUS
  <2>2. {} \in SUBSET Texts
    OBVIOUS
  <2>3. <<>> \in Dicts
    BY <2>1, <2>2 DEF Dicts
  <2> QED
    BY <2>3 DEF Scope, Scopes
<1>7. /\ k \in Memory
      /\ k.exprs = m.exprs /\ k.frees = m.frees /\ k.todo = Pop(m).todo
      /\ DOMAIN k.scopes = DOMAIN m.scopes /\ Len(k.scopes) = Len(m.scopes) /\ k.scopes[t.e] = Scope(0)
      /\ \A z \in DOMAIN m.scopes : z # t.e => k.scopes[z] = m.scopes[z]
  BY <1>2, <1>3, <1>6, ChangedScopes
<1> HIDE DEF f, l, k
<1>8. /\ n.frees = Append(m.frees, f) /\ n \in Memory
      /\ n.exprs = m.exprs /\ n.scopes = k.scopes /\ n.todo = Pop(m).todo
  <2>1. n \in Memory
    BY <1>4, <1>5, <1>7, FreeMemory
  <2>2. n.exprs = k.exprs /\ n.scopes = k.scopes /\ n.todo = k.todo
    BY <1>4, <1>5, <1>7, FreeMemory
  <2>3. n.frees = Append(k.frees, f)
    BY <1>5, <1>7 DEF Free, Memory
  <2> QED
    BY <1>7, <2>1, <2>2, <2>3
<1>9. DOMAIN n.todo = DOMAIN m.todo \ {l} /\ \A d \in DOMAIN n.todo : n.todo[d] = m.todo[d]
  BY <1>2, <1>8
<1>10. <<"task", l>> \in ScopePlaces(m) /\ ScopeAtPlace(m, <<"task", l>>) = t.e
  BY <1>2 DEF ScopePlaces, ScopeAtPlace, EnvPlace
<1>11. f \notin ToSet(m.frees)
  BY <1>1, <1>10 DEF ScopesOwned, Freed, f
<1>12. IsInjective(n.frees) /\ ToSet(n.frees) = ToSet(m.frees) \cup {f}
  BY <1>1, <1>4, <1>8, <1>11, OnceMore, ZenonT(20)
<1>13. /\ \A z : Freed(n, "expr", z) <=> Freed(m, "expr", z)
       /\ \A z : Freed(n, "scope", z) <=> Freed(m, "scope", z) \/ z = t.e
  BY <1>12 DEF Freed, f
<1>14. /\ DOMAIN n.scopes = DOMAIN m.scopes /\ Len(n.scopes) = Len(m.scopes)
       /\ n.scopes[t.e].upper = 0 /\ DOMAIN n.scopes[t.e].dict = {}
       /\ \A z \in DOMAIN m.scopes : z # t.e => n.scopes[z] = m.scopes[z]
  BY <1>6, <1>7, <1>8
<1>15. InOnePiece(n)
  <2>1. \A z \in DOMAIN n.exprs :
          /\ ToSet(n.exprs[z].kids) \subseteq DOMAIN n.exprs
          /\ n.exprs[z].target \in DOMAIN n.exprs \cup {0}
          /\ (n.exprs[z].form = "INDIR" <=> n.exprs[z].target # 0)
          /\ n.exprs[z].args \in DOMAIN n.scopes \cup {0}
          /\ (n.exprs[z].form = "LAMBDA" <=> n.exprs[z].args # 0)
    <3>1. \A z \in DOMAIN m.exprs :
            /\ ToSet(m.exprs[z].kids) \subseteq DOMAIN m.exprs
            /\ m.exprs[z].target \in DOMAIN m.exprs \cup {0}
            /\ (m.exprs[z].form = "INDIR" <=> m.exprs[z].target # 0)
            /\ m.exprs[z].args \in DOMAIN m.scopes \cup {0}
            /\ (m.exprs[z].form = "LAMBDA" <=> m.exprs[z].args # 0)
      BY <1>1 DEF InOnePiece
    <3>2. n.exprs = m.exprs /\ DOMAIN n.scopes = DOMAIN m.scopes
      BY <1>8, <1>14
    <3> QED
      BY <3>1, <3>2
  <2>2. \A z \in DOMAIN n.scopes :
          /\ n.scopes[z].upper \in 0..(z - 1)
          /\ \A q \in DOMAIN n.scopes[z].dict : n.scopes[z].dict[q] \in DOMAIN n.exprs
    <3> TAKE z \in DOMAIN n.scopes
    <3>1. /\ m.scopes[z].upper \in 0..(z - 1)
          /\ \A q \in DOMAIN m.scopes[z].dict : m.scopes[z].dict[q] \in DOMAIN m.exprs
      BY <1>1, <1>14 DEF InOnePiece
    <3>2. CASE z = t.e
      <4>1. 0 \in 0..(z - 1)
        BY <1>3, <3>1, <3>2
      <4> QED
        BY <1>14, <3>2, <4>1
    <3>3. CASE z # t.e
      BY <1>8, <1>14, <3>1, <3>3, ZenonT(20)
    <3> QED
      BY <3>2, <3>3
  <2>3. \A d \in DOMAIN n.todo :
          /\ n.todo[d].fn \in {"gen", "child", "core"} => n.todo[d].x \in DOMAIN n.exprs
          /\ n.todo[d].fn # "core" => n.todo[d].e \in DOMAIN n.scopes
    <3> TAKE d \in DOMAIN n.todo
    <3>1. /\ m.todo[d].fn \in {"gen", "child", "core"} => m.todo[d].x \in DOMAIN m.exprs
          /\ m.todo[d].fn # "core" => m.todo[d].e \in DOMAIN m.scopes
      BY <1>1, <1>9 DEF InOnePiece
    <3>2. n.exprs = m.exprs /\ DOMAIN n.scopes = DOMAIN m.scopes /\ n.todo[d] = m.todo[d]
      BY <1>8, <1>9, <1>14
    <3> QED
      BY <3>1, <3>2
  <2>4. ToSet(n.frees) \subseteq Objects(n)
    <3>1. Objects(n) = Objects(m) /\ f \in Objects(m)
      BY <1>3, <1>8, <1>14 DEF Objects, f
    <3> QED
      BY <1>1, <1>12, <3>1 DEF InOnePiece
  <2> QED
    BY <2>1, <2>2, <2>3, <2>4, ZenonT(30) DEF InOnePiece
<1>16. Ordered(n)
  BY <1>1, <1>9, OrderedSame
<1>17. Global \in DOMAIN m.scopes /\ Intrinsic \in DOMAIN m.scopes
  <2>1. m.scopes \in Seq(Scopes)
    BY <1>1 DEF Memory
  <2>2. DOMAIN m.scopes = 1..Len(m.scopes) /\ Len(m.scopes) \in Nat
    BY <2>1, LenProperties
  <2> QED
    BY <1>1, <2>2 DEF Uppers, Global, Intrinsic
<1>18. Uppers(n)
  <2>1. n.scopes[Global].upper \in {0, Intrinsic}
    BY <1>1, <1>14, <1>17 DEF Uppers
  <2>2. ASSUME NEW d \in DOMAIN n.todo, n.todo[d].fn = "env"
        PROVE  /\ n.todo[d].left \subseteq DOMAIN n.scopes[n.todo[d].e].dict
               /\ n.todo[d].e # Global => n.scopes[n.todo[d].e].upper = 0
    <3>1. d \in DOMAIN m.todo /\ d # l /\ n.todo[d] = m.todo[d] /\ m.todo[d].fn = "env"
      BY <1>9, <2>2
    <3>2. m.todo[d].e # t.e
      <4>1. <<"task", d>> \in ScopePlaces(m) /\ ScopeAtPlace(m, <<"task", d>>) = m.todo[d].e
        BY <1>2, <3>1 DEF ScopePlaces, ScopeAtPlace, EnvPlace
      <4>2. <<"task", d>> # <<"task", l>>
        BY <3>1
      <4> QED
        BY <1>1, <1>10, <4>1, <4>2 DEF ScopesOwned
    <3>3. m.todo[d].e \in DOMAIN m.scopes
      BY <1>1, <3>1 DEF InOnePiece
    <3>4. n.scopes[n.todo[d].e] = m.scopes[m.todo[d].e]
      BY <1>14, <3>1, <3>2, <3>3
    <3> QED
      BY <1>1, <3>1, <3>4 DEF Uppers
  <2> QED
    BY <1>1, <1>14, <2>1, <2>2 DEF Uppers
<1>19. ExprsStay(m, n)
  <2>1. \A z, i \in Nat : KidPlace(n, z, i) => KidPlace(m, z, i) /\ n.exprs[z].kids[i] = m.exprs[z].kids[i]
    <3>1. \A d \in DOMAIN m.todo : m.todo[d].fn = "core" => d \in DOMAIN n.todo
      BY <1>2, <1>9
    <3> QED
      BY <1>8, <1>9, <1>13, <3>1 DEF KidPlace
  <2>2. \A z \in Nat, q \in Texts : KeyPlace(n, z, q) => KeyPlace(m, z, q) /\ n.scopes[z].dict[q] = m.scopes[z].dict[q]
    <3> SUFFICES ASSUME NEW z \in Nat, NEW q \in Texts, KeyPlace(n, z, q)
                 PROVE  KeyPlace(m, z, q) /\ n.scopes[z].dict[q] = m.scopes[z].dict[q]
      OBVIOUS
    <3>1. z \in DOMAIN n.scopes /\ q \in DOMAIN n.scopes[z].dict
      BY DEF KeyPlace
    <3>2. z # t.e /\ n.scopes[z] = m.scopes[z]
      BY <1>14, <3>1
    <3>3. \A d \in DOMAIN m.todo : m.todo[d].fn = "env" /\ m.todo[d].e = z => d \in DOMAIN n.todo
      BY <1>2, <1>9, <3>2
    <3>4. \A d \in DOMAIN n.todo : n.todo[d].fn = "env" /\ n.todo[d].e = z => q \in n.todo[d].left
      BY DEF KeyPlace
    <3>5. \A d \in DOMAIN m.todo : m.todo[d].fn = "env" /\ m.todo[d].e = z => q \in m.todo[d].left
      BY <1>9, <3>3, <3>4
    <3>6. z \in DOMAIN m.scopes /\ q \in DOMAIN m.scopes[z].dict
      BY <1>14, <3>1, <3>2
    <3>7. KeyPlace(m, z, q)
      BY <3>5, <3>6 DEF KeyPlace
    <3> QED
      BY <3>2, <3>7
  <2>3. \A d \in Nat : CorePlace(n, d) => CorePlace(m, d) /\ n.todo[d].x = m.todo[d].x
    BY <1>9 DEF CorePlace
  <2> QED
    BY <2>1, <2>2, <2>3 DEF ExprsStay
<1>20. ExprsOwned(n)
  <2>1. \A q \in ExprPlaces(n) : q \in ExprPlaces(m) /\ ExprAtPlace(n, q) = ExprAtPlace(m, q)
    BY <1>19, ExprPlacesStay
  <2> QED
    BY <1>1, <1>13, <2>1 DEF ExprsOwned
<1>21. ScopesStay(m, n) /\ ~EnvPlace(n, l) /\ (t.e = Global => ~UpperPlace(n))
  <2>1. \A z \in Nat : ArgsPlace(n, z) => ArgsPlace(m, z) /\ n.exprs[z].args = m.exprs[z].args
    <3>1. \A d \in DOMAIN m.todo : m.todo[d].fn = "core" => d \in DOMAIN n.todo
      BY <1>2, <1>9
    <3> QED
      BY <1>8, <1>9, <1>13, <3>1, ZenonT(20) DEF ArgsPlace
  <2>2. UpperPlace(n) => UpperPlace(m) /\ n.scopes[Global].upper = m.scopes[Global].upper
    BY <1>14, <1>17 DEF UpperPlace
  <2>3. \A d \in Nat : EnvPlace(n, d) => EnvPlace(m, d) /\ n.todo[d].e = m.todo[d].e
    BY <1>9 DEF EnvPlace
  <2>4. ~EnvPlace(n, l) /\ (t.e = Global => ~UpperPlace(n))
    BY <1>9, <1>14 DEF EnvPlace, UpperPlace
  <2> QED
    BY <2>1, <2>2, <2>3, <2>4 DEF ScopesStay
<1>22. \A q \in ScopePlaces(n) : /\ q \in ScopePlaces(m) /\ ScopeAtPlace(n, q) = ScopeAtPlace(m, q)
                                 /\ ScopeAtPlace(n, q) # t.e
  <2>1. <<"task", l>> \notin ScopePlaces(n)
    BY <1>21 DEF ScopePlaces
  <2>2. \A q \in ScopePlaces(n) : q \in ScopePlaces(m) /\ ScopeAtPlace(n, q) = ScopeAtPlace(m, q)
    BY <1>21, ScopePlacesStay
  <2> QED
    BY <1>1, <1>10, <2>1, <2>2 DEF ScopesOwned
<1>23. ScopesOwned(n)
  BY <1>1, <1>13, <1>22 DEF ScopesOwned
<1>24. ASSUME m.scopes[t.e].upper # 0
       PROVE  /\ m.scopes[t.e].upper \in DOMAIN n.scopes /\ Unowned(n, m.scopes[t.e].upper)
              /\ n.scopes[m.scopes[t.e].upper].upper = 0
  <2>1. t.e = Global /\ m.scopes[t.e].upper = Intrinsic /\ Intrinsic # Global
    BY <1>1, <1>3, <1>24 DEF Uppers, Global, Intrinsic
  <2>2. n.scopes[Intrinsic].upper = 0
    <3>1. m.scopes[Intrinsic].upper \in 0..(1 - 1)
      BY <1>1, <1>17 DEF InOnePiece, Intrinsic
    <3>2. m.scopes[Intrinsic].upper = 0
      BY <3>1
    <3> QED
      BY <1>14, <1>17, <2>1, <3>2
  <2>3. <<"upper", Global>> \in ScopePlaces(m) /\ ScopeAtPlace(m, <<"upper", Global>>) = Intrinsic
    BY <1>24, <2>1 DEF ScopePlaces, ScopeAtPlace, UpperPlace
  <2>4. <<"upper", Global>> \notin ScopePlaces(n)
    BY <1>21, <2>1 DEF ScopePlaces
  <2>5. \A q \in ScopePlaces(n) : ScopeAtPlace(n, q) # Intrinsic
    BY <1>1, <1>22, <2>3, <2>4 DEF ScopesOwned
  <2>6. ~Freed(n, "scope", Intrinsic)
    BY <1>1, <1>13, <2>1, <2>3 DEF ScopesOwned
  <2> QED
    BY <1>14, <1>17, <2>1, <2>2, <2>5, <2>6 DEF Unowned
<1>25. StillThere(Pop(m), n)
  BY <1>8 DEF StillThere, Stacks
<1>26. Good(n)
  BY <1>8, <1>12, <1>15, <1>16, <1>18, <1>20, <1>23, Zenon DEF Good
<1> QED
  BY <1>3, <1>24, <1>25, <1>26

\* What is still there is there later.
LEMMA StillThereLater ==
  ASSUME NEW m, NEW n, NEW k, StillThere(m, n), StillThere(n, k)
  PROVE  StillThere(m, k)
BY DEF StillThere, Stacks

\* A step of core_destroy.
LEMMA GoodCoreDestroy ==
  ASSUME NEW m, Good(m), m.todo # <<>>, NEW t, t = Last(m.todo), t.fn = "core"
  PROVE  Good(CoreDestroy(Pop(m), t)) /\ StillThere(Pop(m), CoreDestroy(Pop(m), t))
<1> DEFINE n == Push(Pop(m), <<[t EXCEPT !.next = @ + 1]>>)
           freed == Free(Pop(m), <<"expr", t.x>>)
           o == m.exprs[t.x]
<1>1. m \in Memory
  BY DEF Good
<1>2. Pop(m).exprs = m.exprs
  BY <1>1, PoppedOne
<1>3. /\ Good(n) /\ StillThere(Pop(m), n)
      /\ n.exprs = m.exprs /\ n.scopes = m.scopes
      /\ t.next \in DOMAIN o.kids => o.kids[t.next] \in DOMAIN m.exprs /\ UnownedExpr(n, o.kids[t.next])
      /\ o.form = "LAMBDA" /\ t.next = Len(o.kids) + 1 => o.args \in DOMAIN m.scopes /\ Unowned(n, o.args)
  BY GoodLaterCore
<1>4. Good(freed) /\ StillThere(Pop(m), freed)
  BY GoodFreeExpr
<1>5. CoreDestroy(Pop(m), t) =
        IF t.next \in DOMAIN o.kids THEN Push(n, <<DestroyExpr(o.kids[t.next])>>)
        ELSE IF o.form = "LAMBDA" /\ t.next = Len(o.kids) + 1 THEN DestroyAlone(n, o.args)
        ELSE freed
  BY <1>2 DEF CoreDestroy
<1> HIDE DEF n, freed, o
<1>6. CASE t.next \in DOMAIN o.kids
  <2>1. CoreDestroy(Pop(m), t) = Push(n, <<DestroyExpr(o.kids[t.next])>>)
    BY <1>5, <1>6
  <2>2. o.kids[t.next] \in DOMAIN n.exprs /\ UnownedExpr(n, o.kids[t.next])
    BY <1>3, <1>6
  <2>3. Good(CoreDestroy(Pop(m), t)) /\ StillThere(n, CoreDestroy(Pop(m), t))
    BY <1>3, <2>1, <2>2, GoodPushCore
  <2> QED
    BY <1>3, <2>3, StillThereLater
<1>7. CASE t.next \notin DOMAIN o.kids /\ o.form = "LAMBDA" /\ t.next = Len(o.kids) + 1
  <2>1. CoreDestroy(Pop(m), t) = DestroyAlone(n, o.args)
    BY <1>5, <1>7
  <2>2. o.args \in DOMAIN n.scopes /\ Unowned(n, o.args)
    BY <1>3, <1>7
  <2>3. Good(CoreDestroy(Pop(m), t)) /\ StillThere(n, CoreDestroy(Pop(m), t))
    BY <1>3, <2>1, <2>2, GoodDestroyAlone
  <2> QED
    BY <1>3, <2>3, StillThereLater
<1>8. CASE t.next \notin DOMAIN o.kids /\ ~(o.form = "LAMBDA" /\ t.next = Len(o.kids) + 1)
  <2>1. CoreDestroy(Pop(m), t) = freed
    BY <1>5, <1>8
  <2> QED
    BY <1>4, <2>1
<1> QED
  BY <1>6, <1>7, <1>8

\* A step of env_destroy.
LEMMA GoodEnvDestroyStep ==
  ASSUME NEW m, Good(m), m.todo # <<>>, NEW t, t = Last(m.todo), t.fn = "env"
  PROVE  Good(EnvDestroyStep(Pop(m), t)) /\ StillThere(Pop(m), EnvDestroyStep(Pop(m), t))
<1> DEFINE name == CHOOSE q \in t.left : TRUE
           u == [t EXCEPT !.left = @ \ {name}]
           n == Push(Pop(m), <<u>>)
           freed == Free([Pop(m) EXCEPT !.scopes[t.e] = Scope(0)], <<"scope", t.e>>)
           up == m.scopes[t.e].upper
           x == m.scopes[t.e].dict[name]
<1>1. m \in Memory
  BY DEF Good
<1>2. Pop(m).scopes = m.scopes /\ t \in Tasks
  BY <1>1, PoppedOne
<1>3. EnvDestroyStep(Pop(m), t) =
        IF t.left # {} THEN Push(n, <<DestroyExpr(x)>>)
        ELSE IF up # 0 THEN Push(freed, <<EnvDestroy(up, freed.scopes[up].dict)>>)
        ELSE freed
  BY <1>2 DEF EnvDestroyStep
<1>4. t \in [fn : {"env"}, e : Nat, left : SUBSET Texts]
  BY <1>2 DEF Tasks, Holding, Destroying, Generating
<1>5. u \in [fn : {"env"}, e : Nat, left : SUBSET Texts] /\ u.e = t.e /\ u.left = t.left \ {name}
  BY <1>4
<1>6. u \in Tasks /\ u.fn = "env"
  BY <1>5 DEF Tasks, Holding, Destroying
<1>7. /\ Good(freed) /\ StillThere(Pop(m), freed)
      /\ up # 0 => /\ up \in DOMAIN freed.scopes /\ Unowned(freed, up)
                   /\ freed.scopes[up].upper = 0
  BY GoodFreeScope
<1> HIDE DEF u, freed
<1>8. ASSUME name \in t.left
      PROVE  /\ Good(n) /\ StillThere(Pop(m), n) /\ n.exprs = m.exprs
             /\ x \in DOMAIN m.exprs /\ UnownedExpr(n, x)
  <2> DEFINE q == name
             k == n
  <2>1. q \in t.left /\ u.left = t.left \ {q} /\ k = Push(Pop(m), <<u>>)
    BY <1>5, <1>8
  <2>2. x = m.scopes[t.e].dict[q]
    OBVIOUS
  <2> HIDE DEF q, k
  <2>3. Good(k) /\ StillThere(Pop(m), k) /\ k.exprs = m.exprs /\ k.scopes = m.scopes
    BY <1>5, <1>6, <2>1, GoodLaterEnv
  <2>4. m.scopes[t.e].dict[q] \in DOMAIN m.exprs
    BY <1>5, <1>6, <2>1, GoodLaterEnv
  <2>5. UnownedExpr(k, m.scopes[t.e].dict[q])
    BY <1>5, <1>6, <2>1, GoodLaterEnv
  <2> HIDE DEF x, name
  <2> QED
    BY <2>2, <2>3, <2>4, <2>5 DEF k
<1> HIDE DEF n, x, up
<1>9. CASE t.left # {}
  <2>1. name \in t.left
    BY <1>9
  <2> HIDE DEF name
  <2>2. Good(n) /\ StillThere(Pop(m), n) /\ x \in DOMAIN n.exprs /\ UnownedExpr(n, x)
    BY <1>8, <2>1
  <2>3. EnvDestroyStep(Pop(m), t) = Push(n, <<DestroyExpr(x)>>)
    BY <1>3, <1>9
  <2>4. Good(EnvDestroyStep(Pop(m), t)) /\ StillThere(n, EnvDestroyStep(Pop(m), t))
    BY <2>2, <2>3, GoodPushCore
  <2> QED
    BY <2>2, <2>4, StillThereLater
<1>10. CASE t.left = {} /\ up # 0
  <2>1. EnvDestroyStep(Pop(m), t) = Push(freed, <<EnvDestroy(up, freed.scopes[up].dict)>>)
    BY <1>3, <1>10
  <2>2. Good(EnvDestroyStep(Pop(m), t)) /\ StillThere(freed, EnvDestroyStep(Pop(m), t))
    BY <1>7, <1>10, <2>1, GoodPushEnv
  <2> QED
    BY <1>7, <2>2, StillThereLater
<1>11. CASE t.left = {} /\ up = 0
  <2>1. EnvDestroyStep(Pop(m), t) = freed
    BY <1>3, <1>11
  <2> QED
    BY <1>7, <2>1
<1> QED
  BY <1>9, <1>10, <1>11

\* The end of a let: its scope is destroyed alone.
LEMMA GoodEndLet ==
  ASSUME NEW m, Good(m), m.todo # <<>>, NEW t, t = Last(m.todo), t.fn = "endlet"
  PROVE  Good(DestroyAlone(Pop(m), t.e)) /\ StillThere(Pop(m), DestroyAlone(Pop(m), t.e))
<1>1. Calm(m)
  BY GoodQuiet
<1>2. /\ Calm(Pop(m)) /\ Pop(m).scopes = m.scopes
      /\ t.e \in DOMAIN m.scopes /\ Unowned(Pop(m), t.e)
  BY <1>1, CalmPop
<1> QED
  BY <1>2, GoodDestroyAlone DEF Calm

\* A step of what is to be done, but for the client.
LEMMA GoodStep ==
  ASSUME NEW m, Good(m), m.todo # <<>>, Last(m.todo).fn # "client"
  PROVE  Good(Step(m)) /\ StillThere(Pop(m), Step(m))
<1> DEFINE t == Last(m.todo)
           k == Pop(m)
<1>1. t \in Tasks
  BY Popped DEF Good
<1>2. CASE t.fn = "env"
  <2>1. Step(m) = EnvDestroyStep(k, t)
    BY <1>2 DEF Step
  <2> QED
    BY <1>2, <2>1, GoodEnvDestroyStep
<1>3. CASE t.fn = "core"
  <2>1. Step(m) = CoreDestroy(k, t)
    BY <1>3 DEF Step
  <2> QED
    BY <1>3, <2>1, GoodCoreDestroy
<1>4. CASE t.fn = "endlet"
  <2>1. Step(m) = DestroyAlone(k, t.e)
    BY <1>4 DEF Step
  <2> QED
    BY <1>4, <2>1, GoodEndLet
<1>5. CASE t.fn \in {"populate", "param", "generate", "gen", "child"}
  <2>1. Calm(m)
    BY <1>5, GoodQuiet
  <2>2. /\ Calm(k) /\ t.e \in DOMAIN k.scopes
        /\ t.fn \in {"gen", "child"} => t.x \in DOMAIN k.exprs
    BY <2>1, CalmPop
  <2>3. /\ t.fn # "param" => t.node \in Nodes
        /\ t.fn = "param" => t.name \in Texts
        /\ t.at \in Seq(Nat)
    BY <1>1, <1>5 DEF Tasks, Holding, Destroying, Generating
  <2> HIDE DEF k, t
  <2>4. CASE t.fn = "populate"
    <3>1. Step(m) = PopulateEnv(k, t)
      BY <2>4 DEF Step, k, t
    <3> QED
      BY <2>2, <2>3, <2>4, <3>1, CalmPopulateEnv DEF Calm, k
  <2>5. CASE t.fn = "param"
    <3>1. Step(m) = PutParam(k, t)
      BY <2>5 DEF Step, k, t
    <3> QED
      BY <2>2, <2>3, <2>5, <3>1, CalmPutParam DEF Calm, k
  <2>6. CASE t.fn = "generate"
    <3>1. Step(m) = GenerateEnv(k, t)
      BY <2>6 DEF Step, k, t
    <3> QED
      BY <2>2, <2>3, <2>6, <3>1, CalmGenerateEnv DEF Calm, k
  <2>7. CASE t.fn = "gen"
    <3>1. Step(m) = FromAst(k, t.x, t.node, t.e, t.at)
      BY <2>7 DEF Step, k, t
    <3> QED
      BY <2>2, <2>3, <2>7, <3>1, CalmFromAst DEF Calm, k
  <2>8. CASE t.fn = "child"
    <3>1. Step(m) = FromAstChild(k, t)
      BY <2>8 DEF Step, k, t
    <3> QED
      BY <2>2, <2>3, <2>8, <3>1, CalmFromAstChild DEF Calm, k
  <2> QED
    BY <1>5, <2>4, <2>5, <2>6, <2>7, <2>8
<1> QED
  BY <1>1, <1>2, <1>3, <1>4, <1>5 DEF Tasks, Holding, Destroying, Generating

-----------------------------------------------------------------------------
(* The clients *)

\* env_destroy begins with env, which the client had.
LEMMA GoodDestroyBegins ==
  ASSUME NEW m, Good(m), m.todo = <<Client>>,
         NEW u, u = EnvDestroy(Global, m.scopes[Global].dict),
         NEW n, n = [m EXCEPT !.todo = <<u>>]
  PROVE  Good(n) /\ n.todo = <<u>> /\ u.fn = "env"
<1>1. /\ m \in Memory /\ InOnePiece(m) /\ Uppers(m) /\ Ordered(m)
      /\ IsInjective(m.frees) /\ ExprsOwned(m) /\ ScopesOwned(m)
  BY DEF Good
<1>2. u.fn = "env" /\ u.e = Global /\ u.left = DOMAIN m.scopes[Global].dict
  BY DEF EnvDestroy
<1>3. Global \in DOMAIN m.scopes /\ m.scopes[Global].dict \in Dicts
  <2>1. m.scopes \in Seq(Scopes)
    BY <1>1 DEF Memory
  <2>2. Global \in DOMAIN m.scopes
    BY <1>1, <2>1, LenProperties DEF Uppers, Global
  <2>3. m.scopes[Global] \in Scopes
    BY <2>1, <2>2, LenProperties
  <2> QED
    BY <2>2, <2>3 DEF Scopes
<1>4. u \in Tasks
  BY <1>3 DEF EnvDestroy, Tasks, Holding, Destroying, Dicts, Global
<1>5. <<u>> \in Seq(Tasks) /\ DOMAIN <<u>> = {1} /\ <<u>>[1] = u
  BY <1>4
<1>6. /\ n \in Memory
      /\ n.exprs = m.exprs /\ n.scopes = m.scopes /\ n.frees = m.frees /\ n.todo = <<u>>
  BY <1>1, <1>5 DEF Memory
<1>7. DOMAIN m.todo = {1} /\ m.todo[1].fn = "client" /\ m.todo[1].e = Global
  BY DEF Client
<1>8. DOMAIN n.todo = {1} /\ n.todo[1] = u
  BY <1>5, <1>6
<1>9. InOnePiece(n)
  <2>1. \A d \in DOMAIN n.todo :
          /\ n.todo[d].fn \in {"gen", "child", "core"} => n.todo[d].x \in DOMAIN n.exprs
          /\ n.todo[d].fn # "core" => n.todo[d].e \in DOMAIN n.scopes
    BY <1>2, <1>3, <1>6, <1>8
  <2> QED
    BY <1>1, <1>6, <2>1, InOnePieceSame
<1>10. Ordered(n)
  BY <1>2, <1>8 DEF Ordered
<1>11. Uppers(n)
  BY <1>1, <1>2, <1>6, <1>8 DEF Uppers
<1>12. /\ \A z : Freed(n, "expr", z) <=> Freed(m, "expr", z)
       /\ \A z : Freed(n, "scope", z) <=> Freed(m, "scope", z)
  BY <1>6 DEF Freed
<1>13. ExprsStay(m, n)
  <2>1. \A z, i \in Nat : KidPlace(n, z, i) => KidPlace(m, z, i) /\ n.exprs[z].kids[i] = m.exprs[z].kids[i]
    BY <1>6, <1>7, <1>12 DEF KidPlace
  <2>2. \A z \in Nat, q \in Texts : KeyPlace(n, z, q) => KeyPlace(m, z, q) /\ n.scopes[z].dict[q] = m.scopes[z].dict[q]
    BY <1>6, <1>7 DEF KeyPlace
  <2>3. \A d \in Nat : CorePlace(n, d) => CorePlace(m, d) /\ n.todo[d].x = m.todo[d].x
    BY <1>2, <1>8 DEF CorePlace
  <2> QED
    BY <2>1, <2>2, <2>3 DEF ExprsStay
<1>14. ScopesStay(m, n)
  <2>1. \A z \in Nat : ArgsPlace(n, z) => ArgsPlace(m, z) /\ n.exprs[z].args = m.exprs[z].args
    BY <1>6, <1>7, <1>12 DEF ArgsPlace
  <2>2. UpperPlace(n) => UpperPlace(m) /\ n.scopes[Global].upper = m.scopes[Global].upper
    BY <1>6 DEF UpperPlace
  <2>3. \A d \in Nat : EnvPlace(n, d) => EnvPlace(m, d) /\ n.todo[d].e = m.todo[d].e
    BY <1>2, <1>7, <1>8 DEF EnvPlace
  <2> QED
    BY <2>1, <2>2, <2>3 DEF ScopesStay
<1>15. ExprsOwned(n) /\ ScopesOwned(n)
  BY <1>1, <1>6, <1>13, <1>14, ExprsOwnedStay, ScopesOwnedStay
<1>16. IsInjective(n.frees)
  BY <1>1, <1>6
<1> QED
  BY <1>2, <1>6, <1>9, <1>10, <1>11, <1>15, <1>16, Zenon DEF Good

\* At first env has the intrinsics above it.
LEMMA GoodLoaded == Good(Loaded) /\ Loaded.todo = <<Client>>
<1> DEFINE m == Loaded
           I == Intrinsics
           dict == [n \in ToSet(I) |-> CHOOSE i \in DOMAIN I : I[i] = n]
           exprs == [i \in DOMAIN I |-> Expr("INTRINSIC", I[i], <<0, i>>)]
           scopes == <<[upper |-> 0, dict |-> dict], Scope(Intrinsic)>>
<1>1. /\ m = [exprs |-> exprs, scopes |-> scopes, frees |-> <<>>, todo |-> <<Client>>, failed |-> FALSE]
  BY DEF Loaded
<1>2. I \in Seq(ToSet(I)) /\ DOMAIN I = 1..Len(I) /\ Len(I) \in Nat
  BY IntrinsicsAssumption, LenProperties
<1>3. ToSet(I) \subseteq Texts /\ \A i \in DOMAIN I : I[i] \in ToSet(I)
  BY DEF Texts, ToSet
<1>4. \A i \in DOMAIN I : exprs[i] \in Exprs /\ exprs[i].form = "INTRINSIC" /\ exprs[i].kids = <<>>
                          /\ exprs[i].target = 0 /\ exprs[i].args = 0
  <2> SUFFICES ASSUME NEW i \in DOMAIN I
               PROVE  /\ exprs[i] \in Exprs /\ exprs[i].form = "INTRINSIC" /\ exprs[i].kids = <<>>
                      /\ exprs[i].target = 0 /\ exprs[i].args = 0
    OBVIOUS
  <2> DEFINE at == <<0, i>>
  <2>1. at \in Seq(Nat) /\ I[i] \in Texts
    BY <1>2, <1>3
  <2>2. exprs[i] = Expr("INTRINSIC", I[i], at)
    OBVIOUS
  <2> HIDE DEF at
  <2>3. <<>> \in Seq(Nat)
    BY EmptySeq
  <2> QED
    BY <2>1, <2>2, <2>3 DEF Expr, Exprs, Forms
<1>5. exprs \in Seq(Exprs) /\ DOMAIN exprs = DOMAIN I
  <2>1. exprs \in [1..Len(I) -> Exprs]
    BY <1>2, <1>4
  <2> QED
    BY <1>2, <2>1, SeqDef
<1>6. \A n \in ToSet(I) : dict[n] \in DOMAIN I /\ I[dict[n]] = n
  BY DEF ToSet
<1>7. dict \in Dicts /\ DOMAIN dict = ToSet(I)
  <2>1. dict \in [ToSet(I) -> Nat]
    BY <1>2, <1>6
  <2> QED
    BY <1>3, <2>1 DEF Dicts
<1> DEFINE first == [upper |-> 0, dict |-> dict]
           second == Scope(Intrinsic)
<1>8. first \in Scopes /\ first.upper = 0 /\ first.dict = dict
  BY <1>7 DEF Scopes
<1>9. second \in Scopes /\ second.upper = 1 /\ DOMAIN second.dict = {}
  <2>1. <<>> \in [{} -> Nat] /\ {} \in SUBSET Texts
    OBVIOUS
  <2>2. <<>> \in Dicts
    BY <2>1 DEF Dicts
  <2> QED
    BY <2>2 DEF Scope, Scopes, Intrinsic
<1>10. scopes = <<first, second>>
  OBVIOUS
<1> HIDE DEF first, second, exprs, dict, m
<1>11. /\ scopes \in Seq(Scopes) /\ DOMAIN scopes = 1..2 /\ Len(scopes) = 2
       /\ scopes[1] = first /\ scopes[2] = second
  BY <1>8, <1>9, <1>10
<1> HIDE DEF scopes
<1>12. /\ m.exprs = exprs /\ m.scopes = scopes /\ m.frees = <<>> /\ m.todo = <<Client>>
       /\ m.failed = FALSE
  BY <1>1
<1>13. Client \in Tasks /\ Client.fn = "client" /\ Client.e = 2
  BY DEF Client, Tasks, Holding, Global
<1>14. <<Client>> \in Seq(Tasks) /\ DOMAIN <<Client>> = {1} /\ <<Client>>[1] = Client
  BY <1>13
<1>15. m \in Memory
  BY <1>1, <1>5, <1>11, <1>14 DEF Memory
<1>16. DOMAIN m.todo = {1} /\ m.todo[1].fn = "client" /\ m.todo[1].e = 2
  BY <1>12, <1>13, <1>14
<1>17. InOnePiece(m)
  <2>1. \A z \in DOMAIN m.exprs :
          /\ ToSet(m.exprs[z].kids) \subseteq DOMAIN m.exprs
          /\ m.exprs[z].target \in DOMAIN m.exprs \cup {0}
          /\ (m.exprs[z].form = "INDIR" <=> m.exprs[z].target # 0)
          /\ m.exprs[z].args \in DOMAIN m.scopes \cup {0}
          /\ (m.exprs[z].form = "LAMBDA" <=> m.exprs[z].args # 0)
    BY <1>4, <1>5, <1>12 DEF ToSet
  <2>2. \A z \in DOMAIN m.scopes :
          /\ m.scopes[z].upper \in 0..(z - 1)
          /\ \A q \in DOMAIN m.scopes[z].dict : m.scopes[z].dict[q] \in DOMAIN m.exprs
    BY <1>5, <1>6, <1>7, <1>8, <1>9, <1>11, <1>12
  <2>3. \A d \in DOMAIN m.todo :
          /\ m.todo[d].fn \in {"gen", "child", "core"} => m.todo[d].x \in DOMAIN m.exprs
          /\ m.todo[d].fn # "core" => m.todo[d].e \in DOMAIN m.scopes
    BY <1>11, <1>12, <1>16
  <2>4. ToSet(m.frees) \subseteq Objects(m)
    BY <1>12 DEF ToSet
  <2> QED
    BY <2>1, <2>2, <2>3, <2>4, Zenon DEF InOnePiece
<1>18. IsInjective(m.frees)
  BY <1>12 DEF IsInjective
<1>19. Ordered(m)
  BY <1>16 DEF Ordered
<1>20. Uppers(m)
  <2>1. Len(m.scopes) = 2 /\ m.scopes[2].upper = 1
    BY <1>9, <1>11, <1>12
  <2>2. \A d \in DOMAIN m.todo : m.todo[d].fn # "env"
    BY <1>16
  <2> QED
    BY <2>1, <2>2 DEF Uppers, Global, Intrinsic
<1>21. \A z : ~Freed(m, "expr", z) /\ ~Freed(m, "scope", z)
  BY <1>12 DEF Freed, ToSet
<1>22. ExprsOwned(m)
  <2>1. \A p \in ExprPlaces(m) : \E q \in ToSet(I) : p = <<"key", 1, q>> /\ ExprAtPlace(m, p) = dict[q]
    <3> TAKE p \in ExprPlaces(m)
    <3>1. \A z, i \in Nat : ~KidPlace(m, z, i)
      BY <1>4, <1>5, <1>12 DEF KidPlace
    <3>2. \A d \in Nat : ~CorePlace(m, d)
      BY <1>16 DEF CorePlace
    <3>3. \A e \in Nat, q \in Texts : KeyPlace(m, e, q) => e = 1 /\ q \in ToSet(I) /\ m.scopes[e].dict[q] = dict[q]
      BY <1>7, <1>8, <1>9, <1>11, <1>12 DEF KeyPlace
    <3>4. \E e \in Nat, q \in Texts : /\ p = <<"key", e, q>> /\ KeyPlace(m, e, q)
                                      /\ ExprAtPlace(m, p) = m.scopes[e].dict[q]
      BY <3>1, <3>2, ExprPlace
    <3> QED
      BY <3>3, <3>4
  <2>2. \A q, r \in ToSet(I) : dict[q] = dict[r] => q = r
    BY <1>6
  <2> QED
    BY <1>21, <2>1, <2>2 DEF ExprsOwned
<1>23. ScopesOwned(m)
  <2>1. \A p \in ScopePlaces(m) : \/ p = <<"upper", Global>> /\ ScopeAtPlace(m, p) = 1
                                  \/ p = <<"task", 1>> /\ ScopeAtPlace(m, p) = 2
    <3> TAKE p \in ScopePlaces(m)
    <3>1. \A z \in Nat : ~ArgsPlace(m, z)
      BY <1>4, <1>5, <1>12 DEF ArgsPlace
    <3>2. m.scopes[Global].upper = 1
      BY <1>9, <1>11, <1>12 DEF Global
    <3>3. \A d \in Nat : EnvPlace(m, d) => d = 1
      BY <1>16 DEF EnvPlace
    <3> QED
      BY <1>16, <3>1, <3>2, <3>3, ScopePlace
  <2> QED
    BY <1>21, <2>1 DEF ScopesOwned
<1>24. Good(m)
  BY <1>15, <1>17, <1>18, <1>19, <1>20, <1>22, <1>23, Zenon DEF Good
<1> QED
  BY <1>12, <1>24 DEF m

-----------------------------------------------------------------------------
(* The invariant *)

\* The memory that there is at first has one owner for each object.
LEMMA InitIndInv == Init => IndInv
<1> SUFFICES ASSUME Init PROVE IndInv
  OBVIOUS
<1>1. ast \in Programs /\ mem = Loaded /\ phase = "ready"
  BY DEF Init
<1>2. Good(mem) /\ mem.todo = <<Client>>
  BY <1>1, GoodLoaded
<1>3. Tasked
  BY <1>1, <1>2 DEF Tasked
<1> QED
  BY <1>1, <1>2, <1>3 DEF IndInv, Phases

\* A sequence of one element.
LEMMA OneElement ==
  ASSUME NEW S, NEW s \in Seq(S), Len(s) = 1, NEW y, s[1] = y
  PROVE  s = <<y>>
<1> DEFINE t == <<y>>
<1>1. y \in S
  BY LenProperties
<1>2. t \in Seq(S) /\ Len(t) = 1 /\ t[1] = y
  BY <1>1
<1> HIDE DEF t
<1>3. s = t
  BY <1>2, SeqEqual
<1> QED
  BY <1>3 DEF t

\* What is still to be done when coregen goes on, fails or returns.
LEMMA CoregenTasked ==
  ASSUME NEW m, NEW n, m.todo \in Seq(Tasks), n.todo \in Seq(Tasks),
         m.todo # <<>>, m.todo[1] = Client, \A d \in 2..Len(m.todo) : m.todo[d].fn # "client",
         StillThere(m, n)
  PROVE  /\ Busy(n) => /\ Len(n.todo) > 1 /\ n.todo[1] = Client
                       /\ \A d \in 2..Len(n.todo) : n.todo[d].fn # "client"
         /\ ~Busy(n) => n.todo = <<Client>>
<1>1. /\ DOMAIN m.todo = 1..Len(m.todo) /\ Len(m.todo) \in Nat
      /\ DOMAIN n.todo = 1..Len(n.todo) /\ Len(n.todo) \in Nat
  BY LenProperties
<1>2. Len(m.todo) # 0
  BY EmptySeq
<1>3. 1 \in DOMAIN m.todo
  BY <1>1, <1>2
<1>4. 1 \in DOMAIN n.todo /\ n.todo[1] = Client
  BY <1>3 DEF StillThere, Stacks
<1>5. \A d \in 2..Len(n.todo) : n.todo[d].fn # "client"
  <2> TAKE d \in 2..Len(n.todo)
  <2>1. d \in DOMAIN n.todo
    BY <1>1
  <2>2. CASE d \in DOMAIN m.todo
    <3>1. n.todo[d] = m.todo[d] /\ d \in 2..Len(m.todo)
      BY <1>1, <2>1, <2>2 DEF StillThere, Stacks
    <3> QED
      BY <3>1
  <2>3. CASE d \notin DOMAIN m.todo
    BY <2>1, <2>3 DEF StillThere, Stacks
  <2> QED
    BY <2>2, <2>3
<1>6. ~Busy(n) => n.todo = <<Client>>
  <2> SUFFICES ASSUME ~Busy(n) PROVE n.todo = <<Client>>
    OBVIOUS
  <2>1. Len(n.todo) = 1
    <3>1. ~(Len(n.todo) > 1)
      BY DEF Busy
    <3> DEFINE l == Len(n.todo)
    <3>2. 1 \in 1..l /\ l \in Nat
      BY <1>1, <1>4
    <3> HIDE DEF l
    <3>3. 1 <= l
      BY <3>2
    <3>4. ~(l > 1)
      BY <3>1 DEF l
    <3>5. l = 1
      BY <3>2, <3>3, <3>4
    <3> QED
      BY <3>5 DEF l
  <2>2. n.todo \in Seq(Tasks) /\ n.todo[1] = Client
    BY <1>4
  <2> QED
    BY <2>1, <2>2, OneElement, Zenon
<1> QED
  BY <1>4, <1>5, <1>6 DEF Busy

\* A step of coregen.
LEMMA CoregenIndInv == IndInv /\ Coregen => IndInv'
<1> SUFFICES ASSUME IndInv, Coregen PROVE IndInv'
  OBVIOUS
<1>1. ast \in Programs /\ Good(mem) /\ Tasked /\ phase \in {"ready", "generating"}
  BY DEF IndInv, Coregen
<1>2. ast' = ast /\ phase' \in {"error", "generating", "generated"}
  BY DEF Coregen
<1>3. mem.todo \in Seq(Tasks)
  BY <1>1 DEF Good, Memory
<1>4. Good(mem') /\ (Busy(mem') => /\ Len(mem'.todo) > 1 /\ mem'.todo[1] = Client
                                   /\ \A d \in 2..Len(mem'.todo) : mem'.todo[d].fn # "client")
                 /\ (~Busy(mem') => mem'.todo = <<Client>>)
  <2>1. CASE phase = "ready"
    <3>1. mem.todo = <<Client>> /\ mem' = FromModuleAst(mem, ast)
      BY <1>1, <2>1 DEF Tasked, Coregen
    <3>2. /\ mem.todo # <<>> /\ Last(mem.todo) = Client /\ mem.todo[1] = Client
          /\ \A d \in 2..Len(mem.todo) : mem.todo[d].fn # "client"
      BY <3>1 DEF Last
    <3>3. Calm(mem)
      BY <1>1, <3>2, GoodQuiet DEF Client
    <3>4. ast \in Nodes
      BY <1>1, NodesClosed
    <3>5. Good(mem') /\ StillThere(mem, mem')
      BY <3>1, <3>3, <3>4, CalmFromModuleAst DEF Calm
    <3>6. mem'.todo \in Seq(Tasks)
      BY <3>5 DEF Good, Memory
    <3> QED
      BY <1>3, <3>2, <3>5, <3>6, CoregenTasked
  <2>2. CASE phase = "generating"
    <3>1. /\ Len(mem.todo) > 1 /\ mem.todo[1] = Client
          /\ \A d \in 2..Len(mem.todo) : mem.todo[d].fn # "client"
      BY <1>1, <2>2 DEF Tasked
    <3>2. mem' = Step(mem)
      BY <2>2 DEF Coregen
    <3>3. mem.todo # <<>>
      BY <1>3, <3>1, EmptySeq
    <3>4. /\ Pop(mem).todo \in Seq(Tasks) /\ DOMAIN Pop(mem).todo = 1..(Len(mem.todo) - 1)
          /\ Len(Pop(mem).todo) = Len(mem.todo) - 1
          /\ \A d \in 1..(Len(mem.todo) - 1) : Pop(mem).todo[d] = mem.todo[d]
          /\ Last(mem.todo) = mem.todo[Len(mem.todo)] /\ Len(mem.todo) \in Nat
      BY <1>1, <3>3, Popped DEF Good, Memory
    <3>5. Last(mem.todo).fn # "client"
      BY <3>1, <3>4
    <3>6. Good(mem') /\ StillThere(Pop(mem), mem')
      BY <1>1, <3>2, <3>3, <3>5, GoodStep
    <3>7. mem'.todo \in Seq(Tasks)
      BY <3>6 DEF Good, Memory
    <3>8. /\ Pop(mem).todo # <<>> /\ Pop(mem).todo[1] = Client
          /\ \A d \in 2..Len(Pop(mem).todo) : Pop(mem).todo[d].fn # "client"
      <4>1. Len(Pop(mem).todo) >= 1
        BY <3>1, <3>4
      <4>2. Pop(mem).todo # <<>>
        BY <3>4, <4>1, EmptySeq
      <4> QED
        <5> DEFINE w == Len(Pop(mem).todo)
                   v == Len(mem.todo)
        <5>1. w = v - 1 /\ v \in Nat /\ w >= 1
          BY <3>4, <4>1
        <5>2. /\ Pop(mem).todo[1] = mem.todo[1]
              /\ \A d \in 2..w : Pop(mem).todo[d] = mem.todo[d]
          BY <3>4, <5>1
        <5>3. \A d \in 2..v : mem.todo[d].fn # "client"
          BY <3>1
        <5> HIDE DEF v
        <5>4. \A d \in 2..w : d \in 2..v
          BY <5>1
        <5>5. \A d \in 2..w : Pop(mem).todo[d].fn # "client"
          BY <5>2, <5>3, <5>4
        <5> QED
          BY <3>1, <4>2, <5>2, <5>5
    <3> QED
      BY <3>4, <3>6, <3>7, <3>8, CoregenTasked
  <2> QED
    BY <1>1, <2>1, <2>2
<1>5. Tasked'
  <2>1. phase' = "generating" => Busy(mem')
    BY DEF Coregen
  <2>2. phase' = "generated" => ~Busy(mem')
    BY DEF Coregen
  <2> QED
    BY <1>2, <1>4, <2>1, <2>2 DEF Tasked
<1> QED
  BY <1>1, <1>2, <1>4, <1>5 DEF IndInv, Phases

\* A step of env_destroy.
LEMMA DestroyIndInv == IndInv /\ Destroy => IndInv'
<1> SUFFICES ASSUME IndInv, Destroy PROVE IndInv'
  OBVIOUS
<1>1. ast \in Programs /\ Good(mem) /\ Tasked /\ phase \in {"printed", "destroying"}
  BY DEF IndInv, Destroy
<1>2. /\ ast' = ast /\ phase' \in {"destroying", "done", "destroyed"}
      /\ phase' = "destroying" => mem'.todo # <<>>
  BY DEF Destroy
<1>3. Good(mem') /\ \A d \in DOMAIN mem'.todo : mem'.todo[d].fn # "client"
  <2>1. CASE phase = "printed"
    <3> DEFINE u == EnvDestroy(Global, mem.scopes[Global].dict)
    <3>1. mem.todo = <<Client>> /\ mem' = [mem EXCEPT !.todo = <<u>>]
      BY <1>1, <2>1 DEF Tasked, Destroy
    <3>2. Good(mem') /\ mem'.todo = <<u>> /\ u.fn = "env"
      BY <1>1, <3>1, GoodDestroyBegins
    <3> HIDE DEF u
    <3> QED
      BY <3>2
  <2>2. CASE phase = "destroying"
    <3>1. mem.todo # <<>> /\ \A d \in DOMAIN mem.todo : mem.todo[d].fn # "client"
      BY <1>1, <2>2 DEF Tasked
    <3>2. mem' = Step(mem)
      BY <2>2 DEF Destroy
    <3>3. /\ Top(mem) \in DOMAIN mem.todo /\ mem.todo[Top(mem)] = Last(mem.todo)
          /\ DOMAIN Pop(mem).todo \subseteq DOMAIN mem.todo
          /\ \A d \in DOMAIN Pop(mem).todo : Pop(mem).todo[d] = mem.todo[d]
      BY <1>1, <3>1, PoppedOne DEF Good
    <3>4. Last(mem.todo).fn # "client"
      BY <3>1, <3>3
    <3>5. Good(mem') /\ StillThere(Pop(mem), mem')
      BY <1>1, <3>1, <3>2, <3>4, GoodStep
    <3>6. \A d \in DOMAIN mem'.todo : mem'.todo[d].fn # "client"
      BY <3>1, <3>3, <3>5 DEF StillThere, Stacks
    <3> QED
      BY <3>5, <3>6
  <2> QED
    BY <1>1, <2>1, <2>2
<1>4. Tasked'
  BY <1>2, <1>3 DEF Tasked
<1> QED
  BY <1>1, <1>2, <1>3, <1>4 DEF IndInv, Phases

\* Every step keeps one owner for each object.
LEMMA NextIndInv == IndInv /\ [Next]_vars => IndInv'
<1> SUFFICES ASSUME IndInv, [Next]_vars PROVE IndInv'
  OBVIOUS
<1>1. CASE Coregen
  BY <1>1, CoregenIndInv
<1>2. CASE AstDestroy
  BY <1>2 DEF AstDestroy, IndInv, Tasked, Phases
<1>3. CASE CorePrint
  BY <1>3 DEF CorePrint, IndInv, Tasked, Phases
<1>4. CASE Destroy
  BY <1>4, DestroyIndInv
<1>5. CASE UNCHANGED vars
  BY <1>5 DEF vars, IndInv, Tasked
<1> QED
  BY <1>1, <1>2, <1>3, <1>4, <1>5 DEF Next

\* The inductive invariant holds of every run.
THEOREM Owned == Spec => []IndInv
BY InitIndInv, NextIndInv, PTL DEF Spec

\* coregen and env_destroy keep the graph in one piece: for every program, children,
\* targets, scopes and what is to be done refer to what exists (coregen.c, env.c).
THEOREM TypeCorrect == Spec => []TypeOK
<1>1. IndInv => TypeOK
  BY DEF IndInv, Good, TypeOK
<1> QED
  BY <1>1, Owned, PTL

\* No expression and no table is freed twice, for every program: not by env_destroy
\* at the end of a let (coregen.c), of the parameters of a lambda (core.c) or of env,
\* though indirections share expressions and the clients destroy all of env.
THEOREM NothingFreedTwice == Spec => []FreedOnce
<1>1. IndInv => FreedOnce
  BY DEF IndInv, Good, FreedOnce
<1> QED
  BY <1>1, Owned, PTL

\* What is to be destroyed has not been freed, for every program: core_destroy and
\* env_destroy read nothing that was given back.
THEOREM NothingFreedIsDestroyed == Spec => []DestroysLive
<1>1. ASSUME NEW m, Good(m), NEW d \in DOMAIN m.todo
      PROVE  /\ m.todo[d].fn = "core" => <<"expr", m.todo[d].x>> \notin ToSet(m.frees)
             /\ m.todo[d].fn \in {"client", "endlet", "env"} =>
                  <<"scope", m.todo[d].e>> \notin ToSet(m.frees)
  <2>1. ExprsOwned(m) /\ ScopesOwned(m) /\ m.todo \in Seq(Tasks)
    BY <1>1 DEF Good, Memory
  <2>2. d \in Nat
    BY <2>1, LenProperties
  <2>3. m.todo[d].fn = "core" =>
          <<"task", d, 0>> \in ExprPlaces(m) /\ ExprAtPlace(m, <<"task", d, 0>>) = m.todo[d].x
    BY <2>2 DEF ExprPlaces, ExprAtPlace, CorePlace
  <2>4. m.todo[d].fn \in {"client", "endlet", "env"} =>
          <<"task", d>> \in ScopePlaces(m) /\ ScopeAtPlace(m, <<"task", d>>) = m.todo[d].e
    BY <2>2 DEF ScopePlaces, ScopeAtPlace, EnvPlace
  <2> QED
    BY <2>1, <2>3, <2>4 DEF ExprsOwned, ScopesOwned, Freed
<1>2. IndInv => DestroysLive
  BY <1>1 DEF IndInv, DestroysLive
<1> QED
  BY <1>2, Owned, PTL
=============================================================================
