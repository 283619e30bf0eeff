---------------------------- MODULE CoregenLive ----------------------------
(***************************************************************************)
(* coregen never goes on with what has been given back, for every program. *)
(* While a let is destroyed, its callers are still on the stack.  What is  *)
(* destroyed is kept apart from what each caller goes on with by the order *)
(* of allocation: there are an expression and a scope such that the caller *)
(* works with older ones, and what is destroyed above it on the stack is   *)
(* younger and leads only to what is younger.                              *)
(***************************************************************************)
EXTENDS CoregenProofs

\* the tasks that generate
Writing == {"populate", "param", "generate", "gen", "child"}

\* every child is younger than its parent
Younger(m) == \A z \in DOMAIN m.exprs : \A i \in DOMAIN m.exprs[z].kids : z < m.exprs[z].kids[i]

\* what a task that generates works with: its expression, its scope and those above
LiveExpr(m, x) == x \in DOMAIN m.exprs /\ ~Freed(m, "expr", x)
LiveScope(m, e) ==
  /\ e \in DOMAIN m.scopes
  /\ \E A \in SUBSET (1..e) :
       e \in A /\ \A s \in A : ~Freed(m, "scope", s) /\ m.scopes[s].upper \in A \cup {0}
Live(m, t) == LiveScope(m, t.e) /\ (t.fn \in {"gen", "child"} => LiveExpr(m, t.x))

\* expressions after x lead to no scope before l, and scopes from l on to no expression up to x
Apart(m, x, l) ==
  /\ \A z \in DOMAIN m.exprs : z > x /\ m.exprs[z].form = "LAMBDA" => m.exprs[z].args >= l
  /\ \A s \in DOMAIN m.scopes : s >= l =>
       \A n \in DOMAIN m.scopes[s].dict : m.scopes[s].dict[n] > x

\* a task that works with what is older, and one that destroys what is younger
Within(t, x, l) == t.e < l /\ (t.fn \in {"gen", "child"} => t.x <= x)
Beyond(t, x, l) == (t.fn = "core" => t.x > x) /\ (t.fn \in {"endlet", "env"} => t.e >= l)

\* the bounds there may be
Bounds(m) == (0..Newest(m)) \X ((Global + 1)..(NewestScope(m) + 1))

Spared(m, c) ==
  \E b \in Bounds(m) :
    /\ Apart(m, b[1], b[2]) /\ Within(m.todo[c], b[1], b[2])
    /\ \A d \in DOMAIN m.todo : d > c => Beyond(m.todo[d], b[1], b[2])

Safe(m) ==
  /\ Younger(m)
  /\ \A c \in DOMAIN m.todo : m.todo[c].fn \in Writing => Live(m, m.todo[c]) /\ Spared(m, c)

SafeInv == IndInv /\ Safe(mem) /\ (phase = "ready" => mem.frees = <<>>)

-----------------------------------------------------------------------------
(* What generating reads *)

\* No scope that env_get_expr searches from a live one has been freed.
LEMMA ChainLive ==
  ASSUME NEW m \in Memory, InOnePiece(m), NEW e, LiveScope(m, e)
  PROVE  \A s \in Chain(m, e) : ~Freed(m, "scope", s)
<1> DEFINE l == Len(m.scopes)
           Value(g, s) == IF s = 0 THEN {} ELSE {s} \cup g[m.scopes[s].upper]
           up == CHOOSE g : g = [s \in 0..l |-> Value(g, s)]
<1>1. l \in Nat /\ DOMAIN m.scopes = 1..l
  <2>1. m.scopes \in Seq(Scopes)
    BY DEF Memory
  <2> QED
    BY <2>1, LenProperties
<1>2. Chain(m, e) = up[e]
  BY DEF Chain
<1>3. \A s \in 1..l : m.scopes[s].upper \in 0..(s - 1)
  BY <1>1 DEF InOnePiece
<1>4. PICK A \in SUBSET (1..e) :
        e \in A /\ \A s \in A : ~Freed(m, "scope", s) /\ m.scopes[s].upper \in A \cup {0}
  BY DEF LiveScope
<1>5. e \in 1..l
  BY <1>1 DEF LiveScope
<1> HIDE DEF l
<1>6. \E g : \A s \in 0..l : g[s] = Value(g, s)
  <2> DEFINE P == {k \in 0..l : \E g : \A s \in 0..k : g[s] = Value(g, s)}
  <2>1. 0 \in P
    <3> DEFINE g == [s \in 0..l |-> {}]
    <3>1. \A s \in 0..0 : g[s] = Value(g, s)
      BY <1>1
    <3> HIDE DEF g
    <3> QED
      BY <1>1, <3>1
  <2>2. ASSUME NEW k \in 0..l, k \in P, k < l PROVE k + 1 \in P
    <3>1. PICK g : \A s \in 0..k : g[s] = Value(g, s)
      BY <2>2
    <3> DEFINE h == [s \in 0..l |-> IF s = k + 1 THEN Value(g, k + 1) ELSE g[s]]
    <3>2. \A s \in 0..k : h[s] = g[s]
      BY <1>1
    <3>3. h[k + 1] = Value(g, k + 1)
      BY <1>1, <2>2
    <3> HIDE DEF h
    <3>4. \A s \in 0..(k + 1) : s = 0 \/ (s \in 1..l /\ m.scopes[s].upper \in 0..k)
      BY <1>1, <1>3, <2>2
    <3>5. \A s \in 0..(k + 1) : Value(h, s) = Value(g, s)
      BY <3>2, <3>4
    <3> HIDE DEF Value
    <3>6. \A s \in 0..(k + 1) : h[s] = Value(h, s)
      BY <1>1, <3>1, <3>2, <3>3, <3>5
    <3> QED
      BY <1>1, <2>2, <3>6
  <2> HIDE DEF P
  <2>3. \A k \in 0..l : k \in P
    BY <1>1, <2>1, <2>2, UpTo
  <2>4. l \in P
    BY <1>1, <2>3
  <2> HIDE DEF Value
  <2> QED
    BY <2>4 DEF P
<1>7. \E g : g = [s \in 0..l |-> Value(g, s)]
  <2>1. PICK g : \A s \in 0..l : g[s] = Value(g, s)
    BY <1>6
  <2> DEFINE h == [s \in 0..l |-> g[s]]
  <2>2. \A s \in 0..l : s = 0 \/ (s \in 1..l /\ m.scopes[s].upper \in 0..l)
    BY <1>1, <1>3
  <2>3. \A s \in 0..l : h[s] = g[s]
    OBVIOUS
  <2>4. h = [s \in 0..l |-> h[s]]
    OBVIOUS
  <2> HIDE DEF h
  <2>5. \A s \in 0..l : Value(h, s) = Value(g, s)
    BY <2>2, <2>3
  <2>6. \A s \in 0..l : h[s] = Value(h, s)
    BY <2>1, <2>3, <2>5
  <2> HIDE DEF Value
  <2>7. h = [s \in 0..l |-> Value(h, s)]
    BY <2>4, <2>6
  <2> QED
    BY <2>7
<1>8. \A s \in 0..l : up[s] = Value(up, s)
  <2>1. up = [s \in 0..l |-> Value(up, s)]
    BY <1>7
  <2> HIDE DEF Value, up
  <2> QED
    BY <2>1
<1> HIDE DEF up
<1>9. up[0] = {}
  <2>1. 0 \in 0..l
    BY <1>1
  <2>2. up[0] = Value(up, 0)
    BY <1>8, <2>1
  <2> QED
    BY <2>2
<1>10. \A s \in 1..l : up[s] = {s} \cup up[m.scopes[s].upper]
  <2> TAKE s \in 1..l
  <2>1. s \in 0..l /\ s # 0
    BY <1>1
  <2>2. up[s] = Value(up, s)
    BY <1>8, <2>1
  <2> QED
    BY <2>1, <2>2
<1> HIDE DEF Value
<1>11. \A k \in 0..l : k \in A \cup {0} => up[k] \subseteq A
  <2> DEFINE P == {k \in 0..l : \A s \in 0..k : s \in A \cup {0} => up[s] \subseteq A}
  <2>1. 0 \in P
    BY <1>1, <1>9
  <2>2. ASSUME NEW k \in 0..l, k \in P, k < l PROVE k + 1 \in P
    <3>1. \A s \in 0..k : s \in A \cup {0} => up[s] \subseteq A
      BY <2>2
    <3>2. k + 1 \in 1..l /\ m.scopes[k + 1].upper \in 0..k
      BY <1>1, <1>3, <2>2
    <3>3. ASSUME k + 1 \in A PROVE up[k + 1] \subseteq A
      <4>1. up[k + 1] = {k + 1} \cup up[m.scopes[k + 1].upper]
        BY <1>10, <3>2
      <4>2. m.scopes[k + 1].upper \in A \cup {0}
        BY <1>4, <3>3
      <4> QED
        BY <3>1, <3>2, <3>3, <4>1, <4>2
    <3> QED
      BY <1>1, <2>2, <3>1, <3>3
  <2> HIDE DEF P
  <2>3. \A k \in 0..l : k \in P
    BY <1>1, <2>1, <2>2, UpTo
  <2> QED
    BY <1>1, <2>3 DEF P
<1>12. up[e] \subseteq A
  BY <1>1, <1>4, <1>5, <1>11
<1> QED
  BY <1>2, <1>4, <1>12

\* While nothing is destroyed, what env_get_expr returns has not been freed.
LEMMA GetExprLive ==
  ASSUME NEW m, Calm(m), NEW e \in DOMAIN m.scopes, NEW name \in Texts
  PROVE  GetExpr(m, e, name) = 0 \/ LiveExpr(m, GetExpr(m, e, name))
<1>1. m \in Memory /\ InOnePiece(m) /\ ExprsOwned(m) /\ Quiet(m)
  BY DEF Calm, Good
<1>2. GetExpr(m, e, name) \in Named(m, name) \cup {0}
  BY <1>1, GetExprNamed
<1>3. ASSUME NEW s \in DOMAIN m.scopes, name \in DOMAIN m.scopes[s].dict
      PROVE  LiveExpr(m, m.scopes[s].dict[name])
  <2>1. s \in Nat
    BY Numbers
  <2>2. KeyPlace(m, s, name)
    BY <1>1, <1>3 DEF KeyPlace, Quiet
  <2>3. <<"key", s, name>> \in ExprPlaces(m)
    BY <2>1, <2>2 DEF ExprPlaces
  <2>4. ExprAtPlace(m, <<"key", s, name>>) = m.scopes[s].dict[name]
    BY DEF ExprAtPlace
  <2>5. m.scopes[s].dict[name] \in DOMAIN m.exprs
    BY <1>1, <1>3 DEF InOnePiece
  <2> QED
    BY <1>1, <2>3, <2>4, <2>5 DEF ExprsOwned, LiveExpr
<1> QED
  BY <1>2, <1>3 DEF Named

-----------------------------------------------------------------------------
(* Generating goes on with what is live *)

\* From m to n nothing is freed or destroyed, and what is new is younger.
Later(m, n) ==
  /\ n \in Memory /\ n.todo = m.todo /\ n.frees = m.frees
  /\ DOMAIN m.exprs \subseteq DOMAIN n.exprs /\ DOMAIN m.scopes \subseteq DOMAIN n.scopes
  /\ Bounds(m) \subseteq Bounds(n)
  /\ \A s \in DOMAIN m.scopes : n.scopes[s].upper = m.scopes[s].upper
  /\ Younger(m) => Younger(n)
  /\ \A b \in Bounds(m) : Apart(m, b[1], b[2]) => Apart(n, b[1], b[2])

\* Scopes and expressions are numbered from 1.
LEMMA Domains ==
  ASSUME NEW m \in Memory
  PROVE  /\ Newest(m) \in Nat /\ NewestScope(m) \in Nat
         /\ DOMAIN m.exprs = 1..Newest(m) /\ DOMAIN m.scopes = 1..NewestScope(m)
         /\ DOMAIN m.todo = 1..Top(m) /\ Top(m) \in Nat
<1>1. m.exprs \in Seq(Exprs) /\ m.scopes \in Seq(Scopes) /\ m.todo \in Seq(Tasks)
  BY DEF Memory
<1> QED
  BY <1>1, LenProperties DEF Newest, NewestScope, Top

\* The bounds there may be grow with what there is.
LEMMA MoreBounds ==
  ASSUME NEW m \in Memory, NEW n \in Memory,
         DOMAIN m.exprs \subseteq DOMAIN n.exprs, DOMAIN m.scopes \subseteq DOMAIN n.scopes
  PROVE  Bounds(m) \subseteq Bounds(n)
<1>1. /\ Newest(m) \in Nat /\ Newest(n) \in Nat /\ NewestScope(m) \in Nat /\ NewestScope(n) \in Nat
      /\ 1..Newest(m) \subseteq 1..Newest(n) /\ 1..NewestScope(m) \subseteq 1..NewestScope(n)
  BY Domains
<1>2. ASSUME NEW i \in Nat, NEW j \in Nat, 1..i \subseteq 1..j PROVE i <= j
  <2>1. CASE i = 0
    BY <2>1
  <2>2. CASE i # 0
    <3>1. i \in 1..j
      BY <1>2, <2>2
    <3> QED
      BY <3>1
  <2> QED
    BY <2>1, <2>2
<1>3. Newest(m) <= Newest(n) /\ NewestScope(m) <= NewestScope(n)
  BY <1>1, <1>2
<1>4. /\ 0..Newest(m) \subseteq 0..Newest(n)
      /\ (Global + 1)..(NewestScope(m) + 1) \subseteq (Global + 1)..(NewestScope(n) + 1)
  BY <1>1, <1>3 DEF Global
<1> QED
  BY <1>4, Zenon DEF Bounds

\* What is live stays live.
LEMMA LaterLive ==
  ASSUME NEW m \in Memory, NEW n, Later(m, n)
  PROVE  /\ \A x : LiveExpr(m, x) => LiveExpr(n, x)
         /\ \A e : LiveScope(m, e) => LiveScope(n, e)
         /\ \A t : Live(m, t) => Live(n, t)
<1>1. \A x : LiveExpr(m, x) => LiveExpr(n, x)
  BY DEF Later, LiveExpr, Freed
<1>2. ASSUME NEW e, LiveScope(m, e) PROVE LiveScope(n, e)
  <2>1. PICK A \in SUBSET (1..e) :
          e \in A /\ \A s \in A : ~Freed(m, "scope", s) /\ m.scopes[s].upper \in A \cup {0}
    BY <1>2 DEF LiveScope
  <2>2. e \in DOMAIN m.scopes
    BY <1>2 DEF LiveScope
  <2>3. \A s \in A : s \in DOMAIN m.scopes
    <3>1. NewestScope(m) \in Nat /\ DOMAIN m.scopes = 1..NewestScope(m)
      BY Domains
    <3>2. e \in 1..NewestScope(m)
      BY <2>2, <3>1
    <3>3. 1..e \subseteq 1..NewestScope(m)
      BY <3>1, <3>2
    <3> QED
      BY <3>1, <3>3
  <2>4. \A s \in A : ~Freed(n, "scope", s) /\ n.scopes[s].upper \in A \cup {0}
    BY <2>1, <2>3 DEF Later, Freed
  <2> QED
    BY <2>1, <2>2, <2>4 DEF LiveScope, Later
<1> QED
  BY <1>1, <1>2 DEF Live

\* What is spared stays spared.
LEMMA LaterSafe ==
  ASSUME NEW m \in Memory, Safe(m), NEW n, Later(m, n)
  PROVE  Safe(n)
<1>1. ASSUME NEW c \in DOMAIN n.todo, n.todo[c].fn \in Writing
      PROVE  Live(n, n.todo[c]) /\ Spared(n, c)
  <2>1. c \in DOMAIN m.todo /\ n.todo = m.todo /\ m.todo[c].fn \in Writing
    BY <1>1 DEF Later
  <2>2. Live(m, m.todo[c]) /\ Spared(m, c)
    BY <2>1 DEF Safe
  <2>3. Live(n, n.todo[c])
    BY <2>1, <2>2, LaterLive
  <2>4. Spared(n, c)
    BY <2>1, <2>2 DEF Spared, Later
  <2> QED
    BY <2>3, <2>4
<1> QED
  BY <1>1 DEF Safe, Later

\* From m to k to n generating goes on.
LEMMA LaterStill ==
  ASSUME NEW m, NEW n, NEW k, Later(m, n), Later(n, k)
  PROVE  Later(m, k)
BY DEF Later

\* A new expression, and one that exists and has not been freed.
LEMMA LaterNew ==
  ASSUME NEW m, Calm(m), NEW n, Later(m, n)
  PROVE  /\ \A y \in DOMAIN n.exprs : y \notin DOMAIN m.exprs => LiveExpr(n, y)
         /\ \A e \in DOMAIN n.scopes : e \notin DOMAIN m.scopes => ~Freed(n, "scope", e)
BY NewNotFreed DEF Calm, Good, Later, LiveExpr

\* A new expression below x.
LEMMA LaterNewChild ==
  ASSUME NEW m \in Memory, NEW x \in DOMAIN m.exprs, NEW o, Plain(m, o), NEW n, n = NewChild(m, x, o)
  PROVE  Later(m, n)
<1> DEFINE y == Newest(m) + 1
<1>1. o \in Exprs /\ o.kids = <<>> /\ o.form # "LAMBDA"
  BY DEF Plain
<1>2. Newest(m) \in Nat /\ DOMAIN m.exprs = 1..Newest(m)
  BY Domains
<1>3. /\ n \in Memory
      /\ n.scopes = m.scopes /\ n.frees = m.frees /\ n.todo = m.todo
      /\ DOMAIN n.exprs = DOMAIN m.exprs \cup {y} /\ n.exprs[y] = o
      /\ \A z \in DOMAIN m.exprs : z # x => n.exprs[z] = m.exprs[z]
      /\ n.exprs[x].form = m.exprs[x].form /\ n.exprs[x].args = m.exprs[x].args
      /\ n.exprs[x].kids = Append(m.exprs[x].kids, y)
  BY <1>1, NewChildMemory
<1>4. m.exprs[x].kids \in Seq(Nat)
  <2>1. m.exprs \in Seq(Exprs)
    BY DEF Memory
  <2>2. m.exprs[x] \in Exprs
    BY <2>1
  <2> QED
    BY <2>2 DEF Exprs
<1>5. y \in Nat /\ y > x /\ y # x
  BY <1>2
<1> HIDE DEF y
<1>6. \A i \in DOMAIN n.exprs[x].kids :
        n.exprs[x].kids[i] = y \/ (i \in DOMAIN m.exprs[x].kids /\ n.exprs[x].kids[i] = m.exprs[x].kids[i])
  <2>1. ASSUME NEW s \in Seq(Nat), NEW i \in DOMAIN Append(s, y)
        PROVE  Append(s, y)[i] = y \/ (i \in DOMAIN s /\ Append(s, y)[i] = s[i])
    <3>1. DOMAIN s = 1..Len(s) /\ Len(s) \in Nat
      BY LenProperties
    <3>2. DOMAIN Append(s, y) = 1..(Len(s) + 1) /\ \A j \in 1..Len(s) : Append(s, y)[j] = s[j]
          /\ Append(s, y)[Len(s) + 1] = y
      BY <1>5, Appended
    <3> QED
      BY <3>1, <3>2
  <2> QED
    BY <1>3, <1>4, <2>1
<1>7. Younger(m) => Younger(n)
  <2> SUFFICES ASSUME Younger(m), NEW z \in DOMAIN n.exprs, NEW i \in DOMAIN n.exprs[z].kids
               PROVE  z < n.exprs[z].kids[i]
    BY DEF Younger
  <2>1. CASE z = y
    BY <1>1, <1>3, <2>1, EmptySeq
  <2>2. CASE z = x
    BY <1>5, <1>6, <2>2 DEF Younger
  <2>3. CASE z # y /\ z # x
    BY <1>3, <2>3 DEF Younger
  <2> QED
    BY <2>1, <2>2, <2>3
<1>8. ASSUME NEW w, NEW l, Apart(m, w, l) PROVE Apart(n, w, l)
  <2>1. \A z \in DOMAIN n.exprs : z > w /\ n.exprs[z].form = "LAMBDA" => n.exprs[z].args >= l
    <3> TAKE z \in DOMAIN n.exprs
    <3>1. z = y \/ (z \in DOMAIN m.exprs /\ n.exprs[z].form = m.exprs[z].form
                                         /\ n.exprs[z].args = m.exprs[z].args)
      BY <1>3
    <3> QED
      BY <1>1, <1>3, <1>8, <3>1 DEF Apart
  <2> QED
    BY <1>3, <1>8, <2>1 DEF Apart
<1>9. Bounds(m) \subseteq Bounds(n)
  BY <1>3, MoreBounds
<1> QED
  BY <1>3, <1>7, <1>8, <1>9 DEF Later

\* An expression that is used anew, but not for a lambda.
LEMMA LaterBecome ==
  ASSUME NEW m \in Memory, NEW x \in DOMAIN m.exprs, NEW f \in Forms \ {"LAMBDA"}, NEW name \in Texts,
         NEW target \in Nat, NEW n, n = Become(m, x, f, name, target, 0)
  PROVE  Later(m, n)
<1>1. /\ n \in Memory
      /\ n.scopes = m.scopes /\ n.frees = m.frees /\ n.todo = m.todo
      /\ DOMAIN n.exprs = DOMAIN m.exprs
      /\ \A z \in DOMAIN m.exprs : z # x => n.exprs[z] = m.exprs[z]
      /\ n.exprs[x].form = f /\ n.exprs[x].kids = <<>>
  <2>1. 0 \in Nat
    OBVIOUS
  <2> QED
    BY <2>1, BecomeMemory
<1>2. Younger(m) => Younger(n)
  BY <1>1 DEF Younger
<1>3. \A w, l : Apart(m, w, l) => Apart(n, w, l)
  BY <1>1 DEF Apart
<1>4. Bounds(m) \subseteq Bounds(n)
  BY <1>1, MoreBounds
<1> QED
  BY <1>1, <1>2, <1>3, <1>4 DEF Later

\* A name in a scope.
LEMMA LaterPutExpr ==
  ASSUME NEW m \in Memory, NEW e \in DOMAIN m.scopes, NEW name \in Texts, NEW o, Plain(m, o),
         NEW n, n = PutExpr(m, e, name, o)
  PROVE  Later(m, n)
<1> DEFINE y == Newest(m) + 1
<1>1. o \in Exprs /\ o.kids = <<>> /\ o.form # "LAMBDA"
  BY DEF Plain
<1>2. Newest(m) \in Nat /\ DOMAIN m.exprs = 1..Newest(m)
  BY Domains
<1>3. /\ n \in Memory /\ n.frees = m.frees /\ n.todo = m.todo
      /\ DOMAIN n.exprs = DOMAIN m.exprs \cup {y} /\ n.exprs[y] = o
      /\ \A z \in DOMAIN m.exprs : n.exprs[z] = m.exprs[z]
      /\ DOMAIN n.scopes = DOMAIN m.scopes
      /\ \A z \in DOMAIN m.scopes : z # e => n.scopes[z] = m.scopes[z]
      /\ n.scopes[e].upper = m.scopes[e].upper
      /\ DOMAIN n.scopes[e].dict = DOMAIN m.scopes[e].dict \cup {name}
      /\ n.scopes[e].dict[name] = y
      /\ \A k \in DOMAIN m.scopes[e].dict : k # name => n.scopes[e].dict[k] = m.scopes[e].dict[k]
  BY <1>1, PutExprMemory
<1>4. Younger(m) => Younger(n)
  <2> SUFFICES ASSUME Younger(m), NEW z \in DOMAIN n.exprs, NEW i \in DOMAIN n.exprs[z].kids
               PROVE  z < n.exprs[z].kids[i]
    BY DEF Younger
  <2>1. CASE z = y
    BY <1>1, <1>3, <2>1, EmptySeq
  <2>2. CASE z # y
    BY <1>3, <2>2 DEF Younger
  <2> QED
    BY <2>1, <2>2
<1>5. ASSUME NEW b \in Bounds(m), Apart(m, b[1], b[2]) PROVE Apart(n, b[1], b[2])
  <2> DEFINE w == b[1]
             l == b[2]
  <2>1. w \in 0..Newest(m)
    BY <1>5 DEF Bounds
  <2>2. y > w
    BY <1>2, <2>1
  <2>3. Apart(m, w, l)
    BY <1>5
  <2> HIDE DEF w, l, y
  <2>4. \A z \in DOMAIN n.exprs : z > w /\ n.exprs[z].form = "LAMBDA" => n.exprs[z].args >= l
    BY <1>1, <1>3, <2>3 DEF Apart
  <2>5. \A s \in DOMAIN n.scopes : s >= l => \A k \in DOMAIN n.scopes[s].dict : n.scopes[s].dict[k] > w
    <3> SUFFICES ASSUME NEW s \in DOMAIN n.scopes, s >= l, NEW k \in DOMAIN n.scopes[s].dict
                 PROVE  n.scopes[s].dict[k] > w
      OBVIOUS
    <3>1. CASE s = e /\ k = name
      BY <1>3, <2>2, <3>1
    <3>2. CASE s = e /\ k # name
      BY <1>3, <2>3, <3>2 DEF Apart
    <3>3. CASE s # e
      BY <1>3, <2>3, <3>3 DEF Apart
    <3> QED
      BY <3>1, <3>2, <3>3
  <2> QED
    BY <2>4, <2>5 DEF Apart, w, l
<1>6. Bounds(m) \subseteq Bounds(n)
  BY <1>3, MoreBounds
<1>7. \A s \in DOMAIN m.scopes : n.scopes[s].upper = m.scopes[s].upper
  BY <1>3
<1> QED
  BY <1>3, <1>4, <1>5, <1>6, <1>7 DEF Later

\* A new scope, whose uppers are live.
LEMMA LaterNewScope ==
  ASSUME NEW m, Calm(m), NEW e, LiveScope(m, e), NEW a, a = NewestScope(m) + 1, NEW n, n = NewScope(m, e)
  PROVE  Later(m, n) /\ LiveScope(n, a) /\ a \in Nat
<1>1. m \in Memory /\ e \in DOMAIN m.scopes
  BY DEF Calm, Good, LiveScope
<1>2. e \in Nat /\ a \in Nat /\ e < a
  BY <1>1, Domains
<1>3. /\ n \in Memory
      /\ n.exprs = m.exprs /\ n.frees = m.frees /\ n.todo = m.todo
      /\ a \notin DOMAIN m.scopes /\ DOMAIN n.scopes = DOMAIN m.scopes \cup {a}
      /\ n.scopes[a].upper = e /\ DOMAIN n.scopes[a].dict = {}
      /\ \A z \in DOMAIN m.scopes : n.scopes[z] = m.scopes[z]
  BY <1>1, <1>2, NewScopeMemory
<1>4. Bounds(m) \subseteq Bounds(n)
  BY <1>1, <1>3, MoreBounds
<1>5. Younger(m) => Younger(n)
  BY <1>3 DEF Younger
<1>6. \A w, l : Apart(m, w, l) => Apart(n, w, l)
  BY <1>3 DEF Apart
<1>7. Later(m, n)
  BY <1>3, <1>4, <1>5, <1>6 DEF Later
<1>8. LiveScope(n, e)
  BY <1>1, <1>7, LaterLive
<1>9. PICK A \in SUBSET (1..e) :
        e \in A /\ \A s \in A : ~Freed(n, "scope", s) /\ n.scopes[s].upper \in A \cup {0}
  BY <1>8 DEF LiveScope
<1>10. A \cup {a} \in SUBSET (1..a)
  <2>1. 1..e \subseteq 1..a /\ a \in 1..a
    BY <1>2
  <2> QED
    BY <2>1
<1>11. ~Freed(n, "scope", a)
  BY <1>3, <1>7, LaterNew
<1>12. LiveScope(n, a)
  <2> DEFINE B == A \cup {a}
  <2>1. B \in SUBSET (1..a) /\ a \in B
    BY <1>10
  <2>2. \A s \in B : ~Freed(n, "scope", s) /\ n.scopes[s].upper \in B \cup {0}
    BY <1>3, <1>9, <1>11
  <2> HIDE DEF B
  <2>3. a \in DOMAIN n.scopes
    BY <1>3
  <2> QED
    BY <2>1, <2>2, <2>3 DEF LiveScope
<1> QED
  BY <1>2, <1>7, <1>12

\* An expression that becomes a lambda with a new scope.
LEMMA LaterLambda ==
  ASSUME NEW m, Calm(m), NEW x \in DOMAIN m.exprs, NEW e, LiveScope(m, e), NEW name \in Texts,
         NEW a, a = NewestScope(m) + 1, NEW n, n = Become(NewScope(m, e), x, "LAMBDA", name, 0, a)
  PROVE  Later(m, n) /\ LiveScope(n, a)
<1> DEFINE k == NewScope(m, e)
<1>1. m \in Memory /\ e \in DOMAIN m.scopes
  BY DEF Calm, Good, LiveScope
<1>2. Later(m, k) /\ LiveScope(k, a) /\ a \in Nat
  BY LaterNewScope
<1>3. k \in Memory /\ k.exprs = m.exprs
  BY <1>2 DEF Later, NewScope
<1>4. n = Become(k, x, "LAMBDA", name, 0, a)
  OBVIOUS
<1> HIDE DEF k
<1>5. /\ n \in Memory
      /\ n.scopes = k.scopes /\ n.frees = k.frees /\ n.todo = k.todo
      /\ DOMAIN n.exprs = DOMAIN k.exprs
      /\ \A z \in DOMAIN k.exprs : z # x => n.exprs[z] = k.exprs[z]
      /\ n.exprs[x].kids = <<>> /\ n.exprs[x].args = a
  <2>1. "LAMBDA" \in Forms /\ 0 \in Nat /\ x \in DOMAIN k.exprs
    BY <1>3 DEF Forms
  <2> QED
    BY <1>2, <1>3, <1>4, <2>1, BecomeMemory
<1>6. Younger(m) => Younger(n)
  BY <1>3, <1>5 DEF Younger
<1>7. ASSUME NEW b \in Bounds(m), Apart(m, b[1], b[2]) PROVE Apart(n, b[1], b[2])
  <2> DEFINE w == b[1]
             l == b[2]
  <2>1. l \in (Global + 1)..(NewestScope(m) + 1)
    BY <1>7 DEF Bounds
  <2>2. a >= l
    BY <1>1, <2>1, Domains DEF Global
  <2>3. Apart(k, w, l)
    BY <1>2, <1>7 DEF Later
  <2> HIDE DEF w, l
  <2>4. Apart(n, w, l)
    BY <1>5, <2>2, <2>3 DEF Apart
  <2> QED
    BY <2>4 DEF w, l
<1>8. Bounds(m) \subseteq Bounds(n)
  <2>1. DOMAIN m.exprs \subseteq DOMAIN n.exprs /\ DOMAIN m.scopes \subseteq DOMAIN n.scopes
    BY <1>2, <1>5 DEF Later
  <2> QED
    BY <1>1, <1>5, <2>1, MoreBounds
<1>9. Later(m, n)
  BY <1>2, <1>5, <1>6, <1>7, <1>8 DEF Later
<1>10. LiveScope(n, a)
  BY <1>2, <1>5 DEF LiveScope, Freed
<1> QED
  BY <1>9, <1>10

\* A failure changes nothing else.
LEMMA LaterFail ==
  ASSUME NEW m \in Memory
  PROVE  Later(m, Fail(m)) /\ Later(m, m)
<1> DEFINE n == Fail(m)
<1>1. /\ n \in Memory /\ n.exprs = m.exprs /\ n.scopes = m.scopes
      /\ n.todo = m.todo /\ n.frees = m.frees
  BY DEF Fail, Memory
<1> HIDE DEF n
<1>2. /\ Younger(m) => Younger(n)
      /\ \A w, l : Apart(m, w, l) => Apart(n, w, l)
      /\ Bounds(m) = Bounds(n)
  BY <1>1 DEF Younger, Apart, Bounds, Newest, NewestScope
<1>3. Later(m, n) /\ Later(m, m)
  BY <1>1, <1>2 DEF Later
<1> QED
  BY <1>3 DEF n

-----------------------------------------------------------------------------
(* What is pushed *)

\* Tasks are pushed on a memory that is later than m: they work with what is live, or
\* destroy last a scope that m does not have.
LEMMA SafePush ==
  ASSUME NEW m, Calm(m), Safe(m), NEW k, Later(m, k), NEW tasks \in Seq(Tasks),
         \A i \in DOMAIN tasks :
           \/ tasks[i].fn \in Writing /\ Live(k, tasks[i])
           \/ tasks[i].fn = "endlet" /\ tasks[i].e > NewestScope(m) /\ i = Len(tasks)
  PROVE  Safe(Push(k, tasks))
<1> DEFINE n == Push(k, tasks)
           u == Len(k.todo)
           v == Len(tasks)
<1>1. m \in Memory /\ k \in Memory /\ k.todo = m.todo /\ Uppers(m)
  BY DEF Calm, Good, Later
<1>2. /\ n \in Memory /\ n.exprs = k.exprs /\ n.scopes = k.scopes /\ n.frees = k.frees
      /\ u \in Nat /\ v \in Nat /\ DOMAIN n.todo = 1..(u + v)
      /\ \A d \in 1..u : n.todo[d] = k.todo[d]
      /\ \A d \in (u + 1)..(u + v) : n.todo[d] = tasks[u + v + 1 - d] /\ u + v + 1 - d \in 1..v
  BY <1>1, Pushed
<1>3. DOMAIN k.todo = 1..u /\ DOMAIN tasks = 1..v
  BY <1>1, LenProperties DEF Memory
<1> HIDE DEF n, u, v
<1>4. /\ \A t : Live(k, t) => Live(n, t)
      /\ \A w, l : Apart(k, w, l) => Apart(n, w, l)
      /\ Bounds(k) = Bounds(n) /\ Newest(n) = Newest(k) /\ NewestScope(n) = NewestScope(k)
  BY <1>2 DEF Live, LiveScope, LiveExpr, Freed, Apart, Bounds, Newest, NewestScope
<1>5. Safe(k)
  BY <1>1, LaterSafe
<1>6. Younger(n)
  BY <1>2, <1>5 DEF Safe, Younger
<1>7. ASSUME NEW c \in 1..u, n.todo[c].fn \in Writing
      PROVE  Live(n, n.todo[c]) /\ Spared(n, c)
  <2>1. c \in DOMAIN m.todo /\ n.todo[c] = m.todo[c] /\ n.todo[c] = k.todo[c]
    BY <1>1, <1>2, <1>3
  <2>2. Live(k, n.todo[c]) /\ Spared(m, c)
    BY <1>1, <1>3, <1>5, <1>7, <2>1 DEF Safe
  <2>3. PICK b \in Bounds(m) :
          /\ Apart(m, b[1], b[2]) /\ Within(m.todo[c], b[1], b[2])
          /\ \A d \in DOMAIN m.todo : d > c => Beyond(m.todo[d], b[1], b[2])
    BY <2>2 DEF Spared
  <2>4. b \in Bounds(n) /\ Apart(n, b[1], b[2]) /\ Within(n.todo[c], b[1], b[2])
    BY <1>4, <2>1, <2>3 DEF Later
  <2>5. b[2] <= NewestScope(m) + 1 /\ b[2] \in Nat /\ NewestScope(m) \in Nat
    BY <1>1, <2>3, Domains DEF Bounds, Global
  <2>6. ASSUME NEW d \in DOMAIN n.todo, d > c PROVE Beyond(n.todo[d], b[1], b[2])
    <3>1. CASE d \in 1..u
      <4>1. d \in DOMAIN m.todo /\ n.todo[d] = m.todo[d]
        BY <1>1, <1>2, <1>3, <3>1
      <4> QED
        BY <2>3, <2>6, <4>1
    <3>2. CASE d \in (u + 1)..(u + v)
      <4> DEFINE i == u + v + 1 - d
      <4>1. i \in DOMAIN tasks /\ n.todo[d] = tasks[i]
        BY <1>2, <1>3, <3>2
      <4> HIDE DEF i
      <4>2. CASE tasks[i].fn \in Writing
        BY <4>1, <4>2 DEF Writing, Beyond
      <4>3. CASE tasks[i].fn = "endlet" /\ tasks[i].e > NewestScope(m)
        <5>1. tasks[i] \in Tasks
          BY <4>1
        <5>2. tasks[i].e \in Nat
          BY <4>3, <5>1 DEF Tasks, Holding, Destroying, Generating
        <5>3. tasks[i].e >= b[2]
          BY <2>5, <4>3, <5>2
        <5> QED
          BY <4>1, <4>3, <5>3 DEF Beyond
      <4> QED
        BY <4>1, <4>2, <4>3
    <3>3. d \in 1..u \/ d \in (u + 1)..(u + v)
      BY <1>2
    <3> QED
      BY <3>1, <3>2, <3>3
  <2>7. Spared(n, c)
    BY <2>4, <2>6 DEF Spared
  <2> QED
    BY <1>4, <2>2, <2>7
<1>8. ASSUME NEW c \in (u + 1)..(u + v), n.todo[c].fn \in Writing
      PROVE  Live(n, n.todo[c]) /\ Spared(n, c)
  <2> DEFINE i == u + v + 1 - c
             b == <<Newest(n), NewestScope(n) + 1>>
  <2>1. i \in DOMAIN tasks /\ n.todo[c] = tasks[i]
    BY <1>2, <1>3
  <2>2. Live(n, n.todo[c])
    BY <1>4, <1>8, <2>1 DEF Writing
  <2>3. /\ Newest(n) \in Nat /\ DOMAIN n.exprs = 1..Newest(n)
        /\ NewestScope(n) \in Nat /\ DOMAIN n.scopes = 1..NewestScope(n)
    BY <1>2, Domains
  <2>4. Global \in DOMAIN n.scopes
    <3>1. Global \in DOMAIN m.scopes
      BY Numbers
    <3> QED
      BY <1>2, <3>1 DEF Later
  <2>5. b \in Bounds(n)
    BY <2>3, <2>4 DEF Bounds, Global
  <2>6. b[1] = Newest(n) /\ b[2] = NewestScope(n) + 1
    OBVIOUS
  <2> HIDE DEF b
  <2>7. Apart(n, b[1], b[2])
    BY <2>3, <2>6 DEF Apart
  <2>8. Within(n.todo[c], b[1], b[2])
    BY <2>2, <2>3, <2>6 DEF Within, Live, LiveScope, LiveExpr
  <2>9. ASSUME NEW d \in DOMAIN n.todo, d > c PROVE Beyond(n.todo[d], b[1], b[2])
    <3> DEFINE j == u + v + 1 - d
    <3>1. d \in (u + 1)..(u + v) /\ j # v
      BY <1>2, <2>9
    <3>2. j \in DOMAIN tasks /\ n.todo[d] = tasks[j]
      BY <1>2, <1>3, <3>1
    <3> HIDE DEF j
    <3>3. n.todo[d].fn \in Writing
      BY <3>1, <3>2 DEF v
    <3> QED
      BY <3>3 DEF Writing, Beyond
  <2>10. Spared(n, c)
    BY <2>5, <2>7, <2>8, <2>9 DEF Spared
  <2> QED
    BY <2>2, <2>10
<1>9. \A c \in DOMAIN n.todo : c \in 1..u \/ c \in (u + 1)..(u + v)
  BY <1>2
<1>10. Safe(n)
  BY <1>6, <1>7, <1>8, <1>9 DEF Safe
<1> QED
  BY <1>10 DEF n

\* what is live of a memory: tasks that generate there work with what is live
Living(m) ==
  [exprs |-> [x \in {x \in DOMAIN m.exprs : LiveExpr(m, x)} |-> m.exprs[x]],
   scopes |-> [e \in {e \in DOMAIN m.scopes : LiveScope(m, e)} |-> m.scopes[e]]]

\* What is live is what there is of it.
LEMMA LivingDomains ==
  ASSUME NEW m
  PROVE  /\ \A x : x \in DOMAIN Living(m).exprs <=> LiveExpr(m, x)
         /\ \A e : e \in DOMAIN Living(m).scopes <=> LiveScope(m, e)
BY DEF Living, LiveExpr, LiveScope

\* Tasks that generate with what is live are pushed.
LEMMA SafePushGenerating ==
  ASSUME NEW m, Calm(m), Safe(m), NEW k, Later(m, k), NEW tasks, Generates(Living(k), tasks)
  PROVE  Safe(Push(k, tasks))
<1>1. tasks \in Seq(Tasks)
  BY DEF Generates
<1>2. ASSUME NEW i \in DOMAIN tasks PROVE tasks[i].fn \in Writing /\ Live(k, tasks[i])
  <2>1. tasks[i] \in Tasks
    BY <1>1
  <2>2. /\ tasks[i].fn \notin {"client", "endlet", "core", "env"}
        /\ tasks[i].fn \in {"gen", "child"} => LiveExpr(k, tasks[i].x)
        /\ LiveScope(k, tasks[i].e)
    BY LivingDomains DEF Generates
  <2>3. tasks[i].fn \in Writing
    BY <2>1, <2>2 DEF Tasks, Holding, Destroying, Generating, Writing
  <2> QED
    BY <2>2, <2>3 DEF Live
<1> QED
  BY <1>1, <1>2, SafePush

-----------------------------------------------------------------------------
(* The functions that generate *)

\* The task of a new child, and that of an expression there is.
LEMMA ChildLiving ==
  ASSUME NEW m, Calm(m), NEW x, LiveExpr(m, x), NEW node \in Nodes, NEW e, LiveScope(m, e),
         NEW at \in Seq(Nat)
  PROVE  /\ Generates(Living(m), <<Child(x, node, e, at)>>)
         /\ Generates(Living(m), <<Gen(x, node, e, at)>>)
         /\ x \in DOMAIN Living(m).exprs /\ x \in Nat
         /\ e \in DOMAIN Living(m).scopes /\ e \in Nat
<1>1. x \in DOMAIN Living(m).exprs /\ e \in DOMAIN Living(m).scopes
  BY LivingDomains
<1>2. x \in Nat /\ e \in Nat
  BY Numbers DEF LiveExpr, LiveScope
<1> QED
  BY <1>1, <1>2, ChildTask

\* coregen_populate_env
LEMMA SafePopulateEnv ==
  ASSUME NEW m, Calm(m), Safe(m), NEW t, t.node \in Nodes, t.e \in DOMAIN m.scopes, t.at \in Seq(Nat)
  PROVE  Safe(PopulateEnv(m, t))
<1>1. CASE IsBinding(t.node)
  <2> DEFINE name == t.node.names[1]
             o == Expr("UNSET", name, t.at)
  <2>1. name \in Texts
    BY <1>1, NodeFields DEF IsBinding
  <2>2. Plain(m, o)
    BY <2>1, PlainExpr DEF Forms
  <2>3. PopulateEnv(m, t) = PutExpr(m, t.e, name, o)
    BY <1>1 DEF PopulateEnv
  <2> HIDE DEF o, name
  <2>4. m \in Memory
    BY DEF Calm, Good
  <2>5. Later(m, PopulateEnv(m, t))
    BY <2>1, <2>2, <2>3, <2>4, LaterPutExpr
  <2> QED
    BY <2>4, <2>5, LaterSafe
<1>2. CASE ~IsBinding(t.node)
  BY <1>2 DEF PopulateEnv
<1> QED
  BY <1>1, <1>2

\* The placeholder of a parameter.
LEMMA SafePutParam ==
  ASSUME NEW m, Calm(m), Safe(m), NEW t, t.name \in Texts, t.e \in DOMAIN m.scopes, t.at \in Seq(Nat)
  PROVE  Safe(PutParam(m, t))
<1> DEFINE o == Expr("PLACEHOLDER", t.name, t.at)
<1>1. Plain(m, o)
  BY PlainExpr DEF Forms
<1>2. PutParam(m, t) = PutExpr(m, t.e, t.name, o)
  BY DEF PutParam
<1> HIDE DEF o
<1>3. m \in Memory
  BY DEF Calm, Good
<1>4. Later(m, PutParam(m, t))
  BY <1>1, <1>2, <1>3, LaterPutExpr
<1> QED
  BY <1>3, <1>4, LaterSafe

\* The lambda of a function.
LEMMA SafeGenLambda ==
  ASSUME NEW m, Calm(m), Safe(m), NEW x, LiveExpr(m, x), NEW decl \in Nodes, decl.rule = "FN_DECL",
         NEW e, LiveScope(m, e), NEW at \in Seq(Nat)
  PROVE  Safe(GenLambda(m, x, decl, e, at))
<1> DEFINE a == NewestScope(m) + 1
           l == Len(decl.names) - 1
           m1 == NewScope(m, e)
           m2 == Become(m1, x, "LAMBDA", decl.names[1], 0, a)
           params == [i \in 1..l |->
                        [fn |-> "param", e |-> a, name |-> decl.names[i + 1], at |-> at \o <<0, i + 1>>]]
           body == Child(x, decl.kids[1], a, Append(at, 1))
<1>1. GenLambda(m, x, decl, e, at) = Push(m2, Append(params, body))
  BY DEF GenLambda, BodyScope
<1>2. decl.names \in Seq(Texts) /\ decl.names[1] \in Texts /\ decl.kids[1] \in Nodes
  BY NodeFields
<1>3. l \in Nat /\ \A i \in 1..l : decl.names[i + 1] \in Texts
  <2>1. Len(decl.names) >= 1
    BY ProgramsAssumption
  <2>2. ASSUME NEW s \in Seq(Texts), Len(s) >= 1
        PROVE  Len(s) - 1 \in Nat /\ \A i \in 1..(Len(s) - 1) : s[i + 1] \in Texts
    BY <2>2, LenProperties
  <2> QED
    BY <1>2, <2>1, <2>2
<1>4. x \in DOMAIN m.exprs /\ x \in Nat /\ m \in Memory
  BY Numbers DEF LiveExpr, Calm, Good
<1> HIDE DEF l
<1>5. Later(m, m2) /\ LiveScope(m2, a)
  BY <1>2, <1>4, LaterLambda
<1>6. a \in Nat
  BY <1>4, Domains
<1> HIDE DEF a, m2
<1>7. LiveExpr(m2, x)
  BY <1>4, <1>5, LaterLive
<1>8. x \in DOMAIN Living(m2).exprs /\ a \in DOMAIN Living(m2).scopes
  BY <1>5, <1>7, LivingDomains
<1>9. Generates(Living(m2), params)
  <2>1. \A i \in 1..l : at \o <<0, i + 1>> \in Seq(Nat)
    BY <1>3, Below
  <2>2. params \in [1..l -> Generating] /\ \A i \in 1..l : params[i].fn = "param" /\ params[i].e = a
    BY <1>3, <1>6, <2>1 DEF Generating
  <2> HIDE DEF params
  <2>3. Listed(Living(m2), l, params)
    BY <1>3, <1>8, <2>2 DEF Listed
  <2> QED
    BY <2>3, GeneratesListed
<1>10. Generates(Living(m2), <<body>>)
  <2>1. Append(at, 1) \in Seq(Nat)
    BY Below
  <2> QED
    BY <1>2, <1>4, <1>6, <1>8, <2>1, ChildTask
<1> HIDE DEF params, body
<1>11. Generates(Living(m2), Append(params, body))
  BY <1>9, <1>10, AppendGenerates
<1> QED
  BY <1>1, <1>5, <1>11, SafePushGenerating

\* coregen_generate_env
LEMMA SafeGenerateEnv ==
  ASSUME NEW m, Calm(m), Safe(m), NEW t, t.node \in Nodes, LiveScope(m, t.e), t.at \in Seq(Nat)
  PROVE  Safe(GenerateEnv(m, t))
<1> DEFINE x == GetExpr(m, t.e, t.node.names[1])
<1>1. m \in Memory /\ t.e \in DOMAIN m.scopes
  BY DEF Calm, Good, LiveScope
<1>2. IsBinding(t.node) => x = 0 \/ LiveExpr(m, x)
  <2>1. IsBinding(t.node) => t.node.names[1] \in Texts
    BY NodeFields DEF IsBinding
  <2> QED
    BY <1>1, <2>1, GetExprLive
<1>3. CASE ~IsBinding(t.node)
  BY <1>3 DEF GenerateEnv
<1>4. CASE IsBinding(t.node) /\ x = 0
  <2>1. GenerateEnv(m, t) = Fail(m)
    BY <1>4 DEF GenerateEnv, Missing
  <2> QED
    BY <1>1, <2>1, LaterFail, LaterSafe
<1>5. CASE IsBinding(t.node) /\ x # 0 /\ t.node.rule = "FN_DECL"
  <2>1. GenerateEnv(m, t) = GenLambda(m, x, t.node, t.e, t.at)
    BY <1>5 DEF GenerateEnv, Missing
  <2> HIDE DEF x
  <2> QED
    BY <1>2, <1>5, <2>1, SafeGenLambda
<1>6. CASE IsBinding(t.node) /\ x # 0 /\ t.node.rule # "FN_DECL"
  <2>1. GenerateEnv(m, t) = Push(m, <<Gen(x, t.node.kids[1], t.e, Append(t.at, 1))>>)
    BY <1>6 DEF GenerateEnv, Missing
  <2>2. t.node.kids[1] \in Nodes
    BY <1>6, NodeFields DEF IsBinding
  <2>3. Append(t.at, 1) \in Seq(Nat)
    BY Below
  <2> HIDE DEF x
  <2>4. Generates(Living(m), <<Gen(x, t.node.kids[1], t.e, Append(t.at, 1))>>)
    BY <1>2, <1>6, <2>2, <2>3, ChildLiving
  <2>5. Later(m, m)
    BY <1>1, LaterFail
  <2> QED
    BY <2>1, <2>4, <2>5, SafePushGenerating
<1> QED
  BY <1>3, <1>4, <1>5, <1>6

\* A let; its scope, which no caller works with, is destroyed last.
LEMMA SafeGenLet ==
  ASSUME NEW m, Calm(m), Safe(m), NEW x, LiveExpr(m, x), NEW node \in Nodes, node.rule = "LET",
         NEW e, LiveScope(m, e), NEW at \in Seq(Nat)
  PROVE  Safe(GenLet(m, x, node, e, at))
<1> DEFINE l == NewestScope(m) + 1
           m1 == NewScope(m, e)
           decls == Declare(Front(node.kids), l, at)
           body == Gen(x, Last(node.kids), l, Append(at, Len(node.kids)))
           end == [fn |-> "endlet", e |-> l]
           tasks == decls \o <<body, end>>
<1>1. GenLet(m, x, node, e, at) = Push(m1, tasks)
  BY DEF GenLet
<1>2. Front(node.kids) \in Seq(Nodes) /\ Last(node.kids) \in Nodes /\ Len(node.kids) \in Nat
  <2>1. node.kids \in Seq(Nodes) /\ node.kids # <<>>
    BY NodeFields
  <2> QED
    BY <2>1, Shortened
<1>3. Later(m, m1) /\ LiveScope(m1, l) /\ l \in Nat
  BY LaterNewScope
<1>4. l > NewestScope(m)
  <2>1. m \in Memory
    BY DEF Calm, Good
  <2> QED
    BY <2>1, Domains
<1> HIDE DEF l, m1
<1>5. LiveExpr(m1, x) /\ x \in Nat
  <2>1. m \in Memory
    BY DEF Calm, Good
  <2> QED
    BY <1>3, <2>1, LaterLive, Numbers DEF LiveExpr
<1>6. x \in DOMAIN Living(m1).exprs /\ l \in DOMAIN Living(m1).scopes
  BY <1>3, <1>5, LivingDomains
<1>7. Generates(Living(m1), decls)
  BY <1>2, <1>3, <1>6, DeclareGenerates
<1>8. Generates(Living(m1), <<body>>)
  <2>1. Append(at, Len(node.kids)) \in Seq(Nat)
    BY <1>2, Below
  <2> QED
    BY <1>2, <1>3, <1>5, <1>6, <2>1, ChildTask
<1> HIDE DEF decls, body
<1>9. Generates(Living(m1), Append(decls, body))
  BY <1>7, <1>8, AppendGenerates
<1>10. end \in Tasks /\ end.fn = "endlet" /\ end.e = l
  BY <1>3 DEF Tasks, Holding
<1> HIDE DEF end
<1>11. decls \in Seq(Tasks) /\ body \in Tasks
  <2>1. <<body>>[1] \in Tasks
    BY <1>8 DEF Generates
  <2> QED
    BY <1>7, <2>1 DEF Generates
<1>12. tasks = Append(Append(decls, body), end)
  BY <1>10, <1>11
<1> DEFINE first == Append(decls, body)
           k == Len(first)
<1>13. first \in Seq(Tasks) /\ k \in Nat /\ DOMAIN first = 1..k
  BY <1>9, LenProperties DEF Generates
<1> HIDE DEF first, tasks
<1>14. /\ tasks \in Seq(Tasks) /\ Len(tasks) = k + 1 /\ DOMAIN tasks = 1..(k + 1)
       /\ \A i \in 1..k : tasks[i] = first[i]
       /\ tasks[k + 1] = end
  BY <1>10, <1>12, <1>13, Appended DEF first
<1>15. ASSUME NEW i \in DOMAIN first PROVE first[i].fn \in Writing /\ Live(m1, first[i])
  <2>1. Generates(Living(m1), first)
    BY <1>9 DEF first
  <2>2. first[i] \in Tasks
    BY <1>13
  <2>3. /\ first[i].fn \notin {"client", "endlet", "core", "env"}
        /\ first[i].fn \in {"gen", "child"} => LiveExpr(m1, first[i].x)
        /\ LiveScope(m1, first[i].e)
    BY <2>1, LivingDomains DEF Generates
  <2>4. first[i].fn \in Writing
    BY <2>2, <2>3 DEF Tasks, Holding, Destroying, Generating, Writing
  <2> QED
    BY <2>3, <2>4 DEF Live
<1> HIDE DEF k
<1>16. ASSUME NEW i \in DOMAIN tasks
       PROVE  \/ tasks[i].fn \in Writing /\ Live(m1, tasks[i])
              \/ tasks[i].fn = "endlet" /\ tasks[i].e > NewestScope(m) /\ i = Len(tasks)
  <2>1. CASE i \in 1..k
    BY <1>13, <1>14, <1>15, <2>1
  <2>2. CASE i = k + 1
    BY <1>4, <1>10, <1>14, <2>2
  <2> QED
    BY <1>13, <1>14, <2>1, <2>2
<1>17. Safe(Push(m1, tasks))
  BY <1>3, <1>14, <1>16, SafePush
<1> QED
  BY <1>1, <1>17

\* An expression that is used anew and owns nothing.
LEMMA LaterIs ==
  ASSUME NEW m, Calm(m), NEW x \in DOMAIN m.exprs, NEW f \in Forms \ {"LAMBDA", "INDIR"}, NEW n,
         n = Become(m, x, f, NULL, 0, 0)
  PROVE  Later(m, n) /\ Calm(n) /\ x \in DOMAIN n.exprs
<1>1. m \in Memory /\ NULL \in Texts /\ 0 \in Nat /\ f \in Forms \ {"LAMBDA"}
  BY NullText DEF Calm, Good
<1>2. Later(m, n)
  BY <1>1, LaterBecome
<1>3. Calm(n) /\ DOMAIN n.exprs = DOMAIN m.exprs
  BY CalmIs
<1> QED
  BY <1>2, <1>3

\* A new expression below x that points at another.
LEMMA LaterIndirChild ==
  ASSUME NEW m, Calm(m), NEW x \in DOMAIN m.exprs, NEW target \in DOMAIN m.exprs, NEW at \in Seq(Nat)
  PROVE  Later(m, IndirChild(m, x, target, at))
<1> DEFINE o == [Expr("INDIR", NULL, at) EXCEPT !.target = target]
<1>1. target \in Nat /\ target # 0 /\ m \in Memory
  BY Numbers DEF Calm, Good
<1>2. Plain(m, o)
  <2>1. /\ o.form = "INDIR" /\ o.name = NULL /\ o.kids = <<>> /\ o.target = target /\ o.args = 0
        /\ o.at = at
    BY DEF Expr
  <2>2. o \in Exprs
    BY <1>1, NullText, EmptySeq DEF Expr, Exprs, Forms
  <2> HIDE DEF o
  <2> QED
    BY <1>1, <2>1, <2>2 DEF Plain
<1>3. IndirChild(m, x, target, at) = NewChild(m, x, o)
  BY DEF IndirChild
<1> HIDE DEF o
<1> QED
  BY <1>1, <1>2, <1>3, LaterNewChild

\* An operator applied to two operands.
LEMMA SafeGenOpAppl ==
  ASSUME NEW m, Calm(m), Safe(m), NEW x, LiveExpr(m, x), NEW node \in Nodes, node.rule = "OP_APPL",
         NEW op \in DOMAIN m.exprs, NEW e, LiveScope(m, e), NEW at \in Seq(Nat)
  PROVE  Safe(GenOpAppl(m, x, node, op, e, at))
<1> DEFINE m0 == Become(m, x, "APPL", NULL, 0, 0)
           o == Expr("APPL", NULL, Append(at, 0))
           m1 == NewChild(m0, x, o)
           fn == Newest(m1)
           m2 == IndirChild(m1, fn, op, Append(at, 0))
           left == Child(fn, node.kids[1], e, Append(at, 1))
           right == Child(x, node.kids[2], e, Append(at, 2))
<1>1. GenOpAppl(m, x, node, op, e, at) = Push(m2, <<left, right>>)
  BY DEF GenOpAppl
<1>2. node.kids[1] \in Nodes /\ node.kids[2] \in Nodes
  BY NodeFields
<1>3. Append(at, 0) \in Seq(Nat) /\ Append(at, 1) \in Seq(Nat) /\ Append(at, 2) \in Seq(Nat)
  BY Below
<1>4. x \in DOMAIN m.exprs
  BY DEF LiveExpr
<1>5. Later(m, m0) /\ Calm(m0) /\ x \in DOMAIN m0.exprs /\ m0 \in Memory
  <2>1. "APPL" \in Forms \ {"LAMBDA", "INDIR"}
    BY DEF Forms
  <2>2. Later(m, m0) /\ Calm(m0) /\ x \in DOMAIN m0.exprs
    BY <1>4, <2>1, LaterIs
  <2> QED
    BY <2>2 DEF Later
<1>6. Plain(m0, o)
  BY <1>3, NullText, PlainExpr DEF Forms
<1> HIDE DEF m0, o
<1>7. Calm(m1) /\ Later(m0, m1) /\ DOMAIN m1.exprs = DOMAIN m0.exprs \cup {Newest(m0) + 1}
  BY <1>5, <1>6, CalmNewChild, LaterNewChild
<1>8. fn \in DOMAIN m1.exprs /\ fn \notin DOMAIN m0.exprs
  <2>1. /\ Newest(m0) \in Nat /\ DOMAIN m0.exprs = 1..Newest(m0)
        /\ Newest(m1) \in Nat /\ DOMAIN m1.exprs = 1..Newest(m1)
    BY <1>5, <1>7, Domains DEF Later
  <2>2. Newest(m0) + 1 \in 1..Newest(m1) /\ Newest(m1) \in 1..Newest(m1)
    BY <1>7, <2>1
  <2> QED
    BY <2>1, <2>2
<1>9. LiveExpr(m1, fn)
  BY <1>5, <1>7, <1>8, LaterNew
<1> HIDE DEF m1, fn
<1>10. op \in DOMAIN m1.exprs
  BY <1>5, <1>7 DEF Later
<1>11. Later(m1, m2) /\ Calm(m2)
  BY <1>3, <1>7, <1>8, <1>10, LaterIndirChild, CalmIndirChild
<1> HIDE DEF m2
<1>12. Later(m, m2)
  BY <1>5, <1>7, <1>11, LaterStill
<1>13. LiveExpr(m2, x) /\ LiveScope(m2, e) /\ LiveExpr(m2, fn)
  <2>1. m \in Memory /\ m1 \in Memory
    BY <1>7 DEF Calm, Good
  <2> QED
    BY <1>9, <1>11, <1>12, <2>1, LaterLive
<1>14. Generates(Living(m2), <<left>>) /\ Generates(Living(m2), <<right>>)
  BY <1>2, <1>3, <1>11, <1>13, ChildLiving
<1> HIDE DEF left, right
<1>15. Generates(Living(m2), <<left, right>>)
  BY <1>14, TasksGenerate
<1> QED
  BY <1>1, <1>12, <1>15, SafePushGenerating

\* A negation.
LEMMA SafeGenNeg ==
  ASSUME NEW m, Calm(m), Safe(m), NEW x, LiveExpr(m, x), NEW node \in Nodes, node.rule = "NEG",
         NEW e, LiveScope(m, e), NEW at \in Seq(Nat)
  PROVE  Safe(GenNeg(m, x, node, e, at))
<1> DEFINE m0 == Become(m, x, "APPL", NULL, 0, 0)
           o == Expr("INTRINSIC", NULL, Append(at, 0))
           m1 == NewChild(m0, x, o)
           operand == Child(x, node.kids[1], e, Append(at, 1))
<1>1. GenNeg(m, x, node, e, at) = Push(m1, <<operand>>)
  BY DEF GenNeg
<1>2. node.kids[1] \in Nodes
  BY NodeFields
<1>3. Append(at, 0) \in Seq(Nat) /\ Append(at, 1) \in Seq(Nat)
  BY Below
<1>4. x \in DOMAIN m.exprs /\ m \in Memory
  BY DEF LiveExpr, Calm, Good
<1>5. Later(m, m0) /\ Calm(m0) /\ x \in DOMAIN m0.exprs /\ m0 \in Memory
  <2>1. "APPL" \in Forms \ {"LAMBDA", "INDIR"}
    BY DEF Forms
  <2>2. Later(m, m0) /\ Calm(m0) /\ x \in DOMAIN m0.exprs
    BY <1>4, <2>1, LaterIs
  <2> QED
    BY <2>2 DEF Later
<1>6. Plain(m0, o)
  BY <1>3, NullText, PlainExpr DEF Forms
<1> HIDE DEF m0, o
<1>7. Calm(m1) /\ Later(m0, m1)
  BY <1>5, <1>6, CalmNewChild, LaterNewChild
<1> HIDE DEF m1
<1>8. Later(m, m1)
  BY <1>5, <1>7, LaterStill
<1>9. LiveExpr(m1, x) /\ LiveScope(m1, e)
  BY <1>4, <1>8, LaterLive
<1>10. Generates(Living(m1), <<operand>>)
  BY <1>2, <1>3, <1>7, <1>9, ChildLiving
<1> HIDE DEF operand
<1> QED
  BY <1>1, <1>8, <1>10, SafePushGenerating

\* coregen_from_ast
LEMMA SafeFromAst ==
  ASSUME NEW m, Calm(m), Safe(m), NEW x, LiveExpr(m, x), NEW node \in Nodes,
         NEW e, LiveScope(m, e), NEW at \in Seq(Nat)
  PROVE  Safe(FromAst(m, x, node, e, at))
<1> DEFINE n == FromAst(m, x, node, e, at)
           target == GetExpr(m, e, node.names[1])
<1>1. m \in Memory /\ InOnePiece(m) /\ e \in DOMAIN m.scopes /\ x \in DOMAIN m.exprs
  BY DEF Calm, Good, LiveScope, LiveExpr
<1>2. target \in DOMAIN m.exprs \cup {0}
  BY <1>1, GetExprFound
<1>3. ASSUME NEW f \in Forms \ {"LAMBDA", "INDIR"}, NEW k, k = Become(m, x, f, NULL, 0, 0)
      PROVE  /\ Later(m, k) /\ Calm(k) /\ Safe(k)
             /\ LiveExpr(k, x) /\ LiveScope(k, e)
  <2>1. Later(m, k) /\ Calm(k)
    BY <1>1, <1>3, LaterIs
  <2> QED
    BY <1>1, <2>1, LaterSafe, LaterLive
<1>4. ASSUME NEW f \in Forms \ {"LAMBDA", "INDIR"}, NEW k,
             k = Push(Become(m, x, f, NULL, 0, 0), Children(x, node, e, at))
      PROVE  Safe(k)
  <2> DEFINE m0 == Become(m, x, f, NULL, 0, 0)
  <2>1. Later(m, m0) /\ Calm(m0) /\ LiveExpr(m0, x) /\ LiveScope(m0, e)
    BY <1>3
  <2>2. k = Push(m0, Children(x, node, e, at))
    BY <1>4
  <2> HIDE DEF m0
  <2>3. x \in Nat /\ e \in Nat /\ x \in DOMAIN Living(m0).exprs /\ e \in DOMAIN Living(m0).scopes
    BY <1>1, <2>1, Numbers, LivingDomains
  <2>4. Generates(Living(m0), Children(x, node, e, at))
    BY <2>3, ChildrenGenerates
  <2> QED
    BY <2>1, <2>2, <2>4, SafePushGenerating
<1>5. Safe(Fail(m))
  BY <1>1, LaterFail, LaterSafe
<1>6. CASE node.rule \in {"CON", "INT", "DO"}
  <2>1. \E f \in {"CONSTRUCTOR", "LITERAL", "NO_FORM"} : n = Become(m, x, f, NULL, 0, 0)
    BY <1>6 DEF FromAst
  <2> HIDE DEF n
  <2>2. Safe(n)
    BY <1>3, <2>1 DEF Forms
  <2> QED
    BY <2>2 DEF n
<1>7. CASE node.rule \in {"FN_APPL", "IF"}
  <2>1. \E f \in {"APPL", "COND"} : n = Push(Become(m, x, f, NULL, 0, 0), Children(x, node, e, at))
    BY <1>7 DEF FromAst
  <2> HIDE DEF n
  <2>2. Safe(n)
    BY <1>4, <2>1 DEF Forms
  <2> QED
    BY <2>2 DEF n
<1>8. CASE node.rule = "VAR" /\ target # 0
  <2>1. n = Become(m, x, "INDIR", NULL, target, 0)
    BY <1>8 DEF FromAst, Missing
  <2> HIDE DEF n, target
  <2>2. target \in Nat /\ NULL \in Texts /\ "INDIR" \in Forms \ {"LAMBDA"}
    BY <1>2, Numbers, NullText DEF Forms
  <2>3. Later(m, n)
    BY <1>1, <2>1, <2>2, LaterBecome
  <2>4. Safe(n)
    BY <1>1, <2>3, LaterSafe
  <2> QED
    BY <2>4 DEF n
<1>9. CASE node.rule = "OP_APPL" /\ target # 0
  <2>1. n = GenOpAppl(m, x, node, target, e, at)
    BY <1>9 DEF FromAst, Missing
  <2> HIDE DEF n, target
  <2>2. Safe(n)
    BY <1>2, <1>9, <2>1, SafeGenOpAppl
  <2> QED
    BY <2>2 DEF n
<1>10. CASE node.rule \in {"VAR", "OP_APPL"} /\ target = 0
  <2>1. n = Fail(m)
    BY <1>10 DEF FromAst, Missing
  <2> QED
    BY <1>5, <2>1
<1>11. CASE node.rule = "LET"
  <2> DEFINE m0 == Become(m, x, "NO_FORM", NULL, 0, 0)
  <2>1. n = GenLet(m0, x, node, e, at)
    BY <1>11 DEF FromAst
  <2>2. Calm(m0) /\ Safe(m0) /\ LiveExpr(m0, x) /\ LiveScope(m0, e)
    BY <1>3 DEF Forms
  <2> HIDE DEF n, m0
  <2>3. Safe(n)
    BY <1>11, <2>1, <2>2, SafeGenLet
  <2> QED
    BY <2>3 DEF n
<1>12. CASE node.rule = "NEG"
  <2>1. n = GenNeg(m, x, node, e, at)
    BY <1>12 DEF FromAst
  <2> QED
    BY <1>12, <2>1, SafeGenNeg
<1>13. CASE node.rule \notin {"CON", "INT", "DO", "FN_APPL", "IF", "VAR", "OP_APPL", "LET", "NEG"}
  <2>1. n = Fail(m)
    BY <1>13 DEF FromAst
  <2> QED
    BY <1>5, <2>1
<1> QED
  BY <1>6, <1>7, <1>8, <1>9, <1>10, <1>11, <1>12, <1>13

\* coregen_from_ast into a new expression below x
LEMMA SafeFromAstChild ==
  ASSUME NEW m, Calm(m), Safe(m), NEW t, LiveExpr(m, t.x), t.node \in Nodes,
         LiveScope(m, t.e), t.at \in Seq(Nat)
  PROVE  Safe(FromAstChild(m, t))
<1> DEFINE o == Expr("UNSET", NULL, t.at)
           y == Newest(m) + 1
           m1 == NewChild(m, t.x, o)
<1>1. FromAstChild(m, t) = FromAst(m1, y, t.node, t.e, t.at)
  BY DEF FromAstChild
<1>2. Plain(m, o)
  BY NullText, PlainExpr DEF Forms
<1>3. m \in Memory /\ t.x \in DOMAIN m.exprs
  BY DEF Calm, Good, LiveExpr
<1>4. y \notin DOMAIN m.exprs
  BY <1>3, Domains
<1> HIDE DEF o
<1>5. Calm(m1) /\ y \in DOMAIN m1.exprs
  BY <1>2, <1>3, CalmNewChild
<1>6. Later(m, m1)
  BY <1>2, <1>3, LaterNewChild
<1> HIDE DEF m1, y
<1>7. Safe(m1) /\ LiveScope(m1, t.e)
  BY <1>3, <1>6, LaterSafe, LaterLive
<1>8. LiveExpr(m1, y)
  BY <1>4, <1>5, <1>6, LaterNew
<1> QED
  BY <1>1, <1>5, <1>7, <1>8, SafeFromAst

\* coregen_from_module_ast
LEMMA SafeFromModuleAst ==
  ASSUME NEW m, Calm(m), Safe(m), LiveScope(m, Global), NEW root \in Nodes
  PROVE  Safe(FromModuleAst(m, root))
<1>1. m \in Memory
  BY DEF Calm, Good
<1>2. CASE root.rule = "MODULE"
  <2> DEFINE decls == Last(root.kids).kids
  <2>1. root.kids \in Seq(Nodes) /\ root.kids # <<>>
    BY <1>2, NodeFields
  <2>2. Last(root.kids) \in Nodes
    BY <2>1, Shortened
  <2>3. decls \in Seq(Nodes)
    BY <2>2, NodeFields
  <2>4. FromModuleAst(m, root) = Push(m, Declare(decls, Global, <<>>))
    BY <1>2 DEF FromModuleAst
  <2>5. <<>> \in Seq(Nat)
    BY EmptySeq
  <2> HIDE DEF decls
  <2>6. Global \in DOMAIN Living(m).scopes /\ Global \in Nat
    BY LivingDomains, Numbers
  <2>7. Generates(Living(m), Declare(decls, Global, <<>>))
    BY <2>3, <2>5, <2>6, DeclareGenerates
  <2>8. Later(m, m)
    BY <1>1, LaterFail
  <2> QED
    BY <2>4, <2>7, <2>8, SafePushGenerating
<1>3. CASE root.rule # "MODULE"
  BY <1>1, <1>3, LaterFail, LaterSafe DEF FromModuleAst
<1> QED
  BY <1>2, <1>3

-----------------------------------------------------------------------------
(* Destroying leaves alone what is older *)

\* From k to n what is at most x, or before l, is left as it is, and what more is to
\* be done then destroys what is beyond.
Leaves(k, n, x, l) ==
  /\ n \in Memory /\ n.exprs = k.exprs /\ DOMAIN n.scopes = DOMAIN k.scopes
  /\ Apart(n, x, l)
  /\ \A s \in DOMAIN k.scopes : ~(s >= l) => n.scopes[s].upper = k.scopes[s].upper
  /\ \A y : Freed(n, "expr", y) => Freed(k, "expr", y) \/ y > x
  /\ \A s : Freed(n, "scope", s) => Freed(k, "scope", s) \/ s >= l
  /\ DOMAIN k.todo \subseteq DOMAIN n.todo
  /\ \A d \in DOMAIN n.todo :
       IF d \in DOMAIN k.todo THEN n.todo[d] = k.todo[d]
       ELSE n.todo[d].fn \notin Writing /\ Beyond(n.todo[d], x, l)

\* Nothing has been done yet.
LEMMA LeavesSame ==
  ASSUME NEW k \in Memory, NEW x, NEW l, Apart(k, x, l)
  PROVE  Leaves(k, k, x, l)
BY DEF Leaves

\* Something beyond is to be destroyed.
LEMMA LeavesPush ==
  ASSUME NEW k, NEW n, NEW x, NEW l, Leaves(k, n, x, l),
         NEW u \in Tasks, u.fn \notin Writing, Beyond(u, x, l)
  PROVE  Leaves(k, Push(n, <<u>>), x, l)
<1> DEFINE q == Push(n, <<u>>)
           top == Top(q)
<1>1. n \in Memory
  BY DEF Leaves
<1>2. /\ q \in Memory /\ q.exprs = n.exprs /\ q.scopes = n.scopes /\ q.frees = n.frees
      /\ DOMAIN q.todo = DOMAIN n.todo \cup {top} /\ top \notin DOMAIN n.todo /\ q.todo[top] = u
      /\ \A d \in DOMAIN n.todo : q.todo[d] = n.todo[d]
  BY <1>1, PushedOne
<1> HIDE DEF q, top
<1>3. Apart(q, x, l)
  BY <1>2 DEF Leaves, Apart
<1>4. \A d \in DOMAIN q.todo :
        IF d \in DOMAIN k.todo THEN q.todo[d] = k.todo[d]
        ELSE q.todo[d].fn \notin Writing /\ Beyond(q.todo[d], x, l)
  <2> TAKE d \in DOMAIN q.todo
  <2>1. CASE d = top
    <3>1. d \notin DOMAIN k.todo
      BY <1>2, <2>1 DEF Leaves
    <3> QED
      BY <1>2, <2>1, <3>1
  <2>2. CASE d # top
    BY <1>2, <2>2 DEF Leaves
  <2> QED
    BY <2>1, <2>2
<1>5. Leaves(k, q, x, l)
  BY <1>2, <1>3, <1>4 DEF Leaves, Freed
<1> QED
  BY <1>5 DEF q

\* The names of a scope.
LEMMA EnvTask ==
  ASSUME NEW m \in Memory, NEW e \in DOMAIN m.scopes
  PROVE  /\ EnvDestroy(e, m.scopes[e].dict) \in Tasks
         /\ EnvDestroy(e, m.scopes[e].dict).fn = "env" /\ EnvDestroy(e, m.scopes[e].dict).e = e
<1>1. m.scopes \in Seq(Scopes)
  BY DEF Memory
<1>2. m.scopes[e] \in Scopes /\ e \in Nat
  BY <1>1
<1>3. DOMAIN m.scopes[e].dict \in SUBSET Texts
  BY <1>2 DEF Scopes, Dicts
<1> QED
  BY <1>2, <1>3 DEF EnvDestroy, Tasks, Holding, Destroying

\* A scope is changed that is beyond, and has no more names than before.
LEMMA LeavesScope ==
  ASSUME NEW k, NEW n, NEW x, NEW l, Leaves(k, n, x, l), NEW e \in DOMAIN n.scopes, e >= l,
         NEW o \in Scopes, o.dict = n.scopes[e].dict \/ DOMAIN o.dict = {},
         NEW q, q = [n EXCEPT !.scopes[e] = o]
  PROVE  Leaves(k, q, x, l)
<1>1. n \in Memory
  BY DEF Leaves
<1>2. /\ q \in Memory
      /\ q.exprs = n.exprs /\ q.frees = n.frees /\ q.todo = n.todo
      /\ DOMAIN q.scopes = DOMAIN n.scopes /\ q.scopes[e] = o
      /\ \A z \in DOMAIN n.scopes : z # e => q.scopes[z] = n.scopes[z]
  BY <1>1, ChangedScopes
<1>3. Apart(q, x, l)
  <2>1. Apart(n, x, l)
    BY DEF Leaves
  <2>2. \A s \in DOMAIN q.scopes : s >= l =>
          \A name \in DOMAIN q.scopes[s].dict : q.scopes[s].dict[name] > x
    <3> SUFFICES ASSUME NEW s \in DOMAIN q.scopes, s >= l, NEW name \in DOMAIN q.scopes[s].dict
                 PROVE  q.scopes[s].dict[name] > x
      OBVIOUS
    <3>1. q.scopes[s].dict = n.scopes[s].dict
      BY <1>2
    <3> QED
      BY <1>2, <2>1, <3>1 DEF Apart
  <2> QED
    BY <1>2, <2>1, <2>2 DEF Apart
<1>4. \A s \in DOMAIN k.scopes : ~(s >= l) => q.scopes[s].upper = k.scopes[s].upper
  BY <1>2 DEF Leaves
<1> QED
  BY <1>2, <1>3, <1>4 DEF Leaves, Freed

\* A scope beyond is to be destroyed alone.
LEMMA LeavesAlone ==
  ASSUME NEW k, NEW n, NEW x, NEW l, Leaves(k, n, x, l), NEW e \in DOMAIN n.scopes, e >= l
  PROVE  Leaves(k, DestroyAlone(n, e), x, l)
<1> DEFINE o == [n.scopes[e] EXCEPT !.upper = 0]
           q == [n EXCEPT !.scopes[e] = o]
           u == EnvDestroy(e, n.scopes[e].dict)
<1>1. n \in Memory
  BY DEF Leaves
<1>2. o \in Scopes /\ o.dict = n.scopes[e].dict
  <2>1. n.scopes \in Seq(Scopes)
    BY <1>1 DEF Memory
  <2>2. n.scopes[e] \in Scopes
    BY <2>1, LenProperties
  <2> QED
    BY <2>2 DEF Scopes
<1>3. DestroyAlone(n, e) = Push(q, <<u>>)
  BY <1>1 DEF DestroyAlone, Memory
<1> HIDE DEF o
<1>4. Leaves(k, q, x, l)
  BY <1>2, LeavesScope
<1>5. u \in Tasks /\ u.fn = "env" /\ u.e = e
  BY <1>1, EnvTask
<1> HIDE DEF q, u
<1>6. u.fn \notin Writing /\ Beyond(u, x, l)
  BY <1>5 DEF Writing, Beyond
<1> QED
  BY <1>3, <1>4, <1>5, <1>6, LeavesPush

\* Something beyond is freed.
LEMMA LeavesFree ==
  ASSUME NEW k, NEW n, NEW x, NEW l, Leaves(k, n, x, l), NEW f \in {"expr", "scope"} \X Nat,
         f[1] = "expr" => f[2] > x, f[1] = "scope" => f[2] >= l
  PROVE  Leaves(k, Free(n, f), x, l)
<1> DEFINE q == Free(n, f)
<1>1. n \in Memory
  BY DEF Leaves
<1>2. /\ q \in Memory /\ q.frees = Append(n.frees, f)
      /\ q.exprs = n.exprs /\ q.scopes = n.scopes /\ q.todo = n.todo
  BY <1>1, FreeMemory
<1> HIDE DEF q
<1>3. ToSet(Append(n.frees, f)) \subseteq ToSet(n.frees) \cup {f}
  <2>1. n.frees \in Seq({"expr", "scope"} \X Nat)
    BY <1>1 DEF Memory
  <2>2. ASSUME NEW S, NEW s \in Seq(S), NEW y \in S
        PROVE  ToSet(Append(s, y)) \subseteq ToSet(s) \cup {y}
    <3>1. DOMAIN Append(s, y) = 1..(Len(s) + 1) /\ Append(s, y)[Len(s) + 1] = y
          /\ \A i \in 1..Len(s) : Append(s, y)[i] = s[i]
      BY Appended
    <3>2. DOMAIN s = 1..Len(s) /\ Len(s) \in Nat
      BY LenProperties
    <3>3. \A i \in DOMAIN Append(s, y) : i = Len(s) + 1 \/ i \in 1..Len(s)
      BY <3>1, <3>2
    <3> QED
      BY <3>1, <3>2, <3>3 DEF ToSet
  <2> QED
    BY <2>1, <2>2
<1>4. \A kind, y : Freed(q, kind, y) => Freed(n, kind, y) \/ <<kind, y>> = f
  BY <1>2, <1>3 DEF Freed
<1>5. \A y : Freed(q, "expr", y) => Freed(k, "expr", y) \/ y > x
  <2> SUFFICES ASSUME NEW y, Freed(q, "expr", y) PROVE Freed(k, "expr", y) \/ y > x
    OBVIOUS
  <2>1. CASE Freed(n, "expr", y)
    BY <2>1 DEF Leaves
  <2>2. CASE <<"expr", y>> = f
    BY <2>2
  <2> QED
    BY <1>4, <2>1, <2>2
<1>6. \A s : Freed(q, "scope", s) => Freed(k, "scope", s) \/ s >= l
  <2> SUFFICES ASSUME NEW s, Freed(q, "scope", s) PROVE Freed(k, "scope", s) \/ s >= l
    OBVIOUS
  <2>1. CASE Freed(n, "scope", s)
    BY <2>1 DEF Leaves
  <2>2. CASE <<"scope", s>> = f
    BY <2>2
  <2> QED
    BY <1>4, <2>1, <2>2
<1>7. Apart(q, x, l)
  BY <1>2 DEF Leaves, Apart
<1>8. Leaves(k, q, x, l)
  BY <1>2, <1>5, <1>6, <1>7 DEF Leaves
<1> QED
  BY <1>8 DEF q

\* A step of core_destroy: what an expression leads to is beyond, if it is.
LEMMA LeavesCoreDestroy ==
  ASSUME NEW m, Good(m), Younger(m), m.todo # <<>>, NEW t, t = Last(m.todo), t.fn = "core",
         NEW x \in Nat, NEW l \in Nat, Apart(m, x, l), t.x > x
  PROVE  Leaves(Pop(m), CoreDestroy(Pop(m), t), x, l)
<1> DEFINE k == Pop(m)
           u == [t EXCEPT !.next = @ + 1]
           n == Push(k, <<u>>)
           o == m.exprs[t.x]
<1>1. /\ m \in Memory /\ InOnePiece(m) /\ k \in Memory /\ k.exprs = m.exprs /\ k.scopes = m.scopes
      /\ t \in Tasks /\ t = m.todo[Top(m)] /\ Top(m) \in DOMAIN m.todo
  BY PoppedOne DEF Good
<1>2. t \in [fn : {"core"}, x : Nat, next : Nat]
  BY <1>1 DEF Tasks, Holding, Destroying, Generating
<1>3. u \in [fn : {"core"}, x : Nat, next : Nat] /\ u.x = t.x
  BY <1>2
<1>4. u \in Tasks /\ u.fn = "core"
  BY <1>3 DEF Tasks, Holding, Destroying
<1>5. CoreDestroy(k, t) =
        IF t.next \in DOMAIN o.kids THEN Push(n, <<DestroyExpr(o.kids[t.next])>>)
        ELSE IF o.form = "LAMBDA" /\ t.next = Len(o.kids) + 1 THEN DestroyAlone(n, o.args)
        ELSE Free(k, <<"expr", t.x>>)
  BY <1>1 DEF CoreDestroy
<1>6. t.x \in DOMAIN m.exprs
  BY <1>1 DEF InOnePiece
<1> HIDE DEF k, u
<1>7. Leaves(k, k, x, l)
  BY <1>1, LeavesSame DEF Apart
<1>8. Leaves(k, n, x, l)
  BY <1>3, <1>4, <1>7, LeavesPush DEF Writing, Beyond
<1>9. n.exprs = m.exprs /\ DOMAIN n.scopes = DOMAIN m.scopes
  BY <1>1, <1>8 DEF Leaves
<1> HIDE DEF n, o
<1>10. CASE t.next \in DOMAIN o.kids
  <2> DEFINE y == o.kids[t.next]
             v == DestroyExpr(y)
  <2>1. y \in Nat
    <3>1. m.exprs \in Seq(Exprs)
      BY <1>1 DEF Memory
    <3>2. o \in Exprs
      BY <1>6, <3>1 DEF o
    <3>3. o.kids \in Seq(Nat)
      BY <3>2 DEF Exprs
    <3> QED
      BY <1>10, <3>3
  <2>2. y > x
    <3>1. t.x < y
      BY <1>6, <1>10 DEF Younger, o
    <3> QED
      BY <1>2, <2>1, <3>1
  <2> HIDE DEF y
  <2>3. v \in Tasks /\ v.fn = "core" /\ v.x = y
    BY <2>1 DEF DestroyExpr, Tasks, Holding, Destroying
  <2> HIDE DEF v
  <2>4. Leaves(k, Push(n, <<v>>), x, l)
    BY <1>8, <2>2, <2>3, LeavesPush DEF Writing, Beyond
  <2> QED
    BY <1>5, <1>10, <2>4 DEF k, v, y
<1>11. CASE t.next \notin DOMAIN o.kids /\ o.form = "LAMBDA" /\ t.next = Len(o.kids) + 1
  <2>1. o.args \in DOMAIN m.scopes \cup {0} /\ o.args # 0
    BY <1>1, <1>6, <1>11 DEF InOnePiece, o
  <2>2. o.args >= l
    BY <1>6, <1>11 DEF Apart, o
  <2>3. Leaves(k, DestroyAlone(n, o.args), x, l)
    BY <1>8, <1>9, <2>1, <2>2, LeavesAlone
  <2> QED
    BY <1>5, <1>11, <2>3 DEF k
<1>12. CASE t.next \notin DOMAIN o.kids /\ ~(o.form = "LAMBDA" /\ t.next = Len(o.kids) + 1)
  <2> DEFINE f == <<"expr", t.x>>
  <2>1. f \in {"expr", "scope"} \X Nat /\ f[1] = "expr" /\ f[2] > x
    BY <1>2
  <2> HIDE DEF f
  <2>2. Leaves(k, Free(k, f), x, l)
    BY <1>7, <2>1, LeavesFree
  <2> QED
    BY <1>5, <1>12, <2>2 DEF k, f
<1> QED
  BY <1>10, <1>11, <1>12

\* A step of env_destroy: so does a scope, if the one above it is not destroyed too, or
\* is beyond.
LEMMA LeavesEnvDestroy ==
  ASSUME NEW m, Good(m), m.todo # <<>>, NEW t, t = Last(m.todo), t.fn = "env",
         NEW x \in Nat, NEW l \in Nat, Apart(m, x, l), t.e >= l,
         m.scopes[t.e].upper # 0 => m.scopes[t.e].upper >= l
  PROVE  Leaves(Pop(m), EnvDestroyStep(Pop(m), t), x, l)
<1> DEFINE k == Pop(m)
           name == CHOOSE q \in t.left : TRUE
           u == [t EXCEPT !.left = @ \ {name}]
           n == Push(k, <<u>>)
           bare == [k EXCEPT !.scopes[t.e] = Scope(0)]
           f == <<"scope", t.e>>
           freed == Free(bare, f)
           up == m.scopes[t.e].upper
           y == m.scopes[t.e].dict[name]
           v == DestroyExpr(y)
           w == EnvDestroy(up, freed.scopes[up].dict)
<1>1. /\ m \in Memory /\ InOnePiece(m) /\ k \in Memory /\ k.exprs = m.exprs /\ k.scopes = m.scopes
      /\ t \in Tasks /\ t = m.todo[Top(m)] /\ Top(m) \in DOMAIN m.todo /\ Uppers(m)
  BY PoppedOne DEF Good
<1>2. EnvDestroyStep(k, t) =
        IF t.left # {} THEN Push(n, <<v>>) ELSE IF up # 0 THEN Push(freed, <<w>>) ELSE freed
  BY <1>1 DEF EnvDestroyStep
<1>3. t \in [fn : {"env"}, e : Nat, left : SUBSET Texts]
  BY <1>1 DEF Tasks, Holding, Destroying, Generating
<1>4. u \in [fn : {"env"}, e : Nat, left : SUBSET Texts] /\ u.e = t.e
  BY <1>3
<1>5. u \in Tasks /\ u.fn = "env"
  BY <1>4 DEF Tasks, Holding, Destroying
<1>6. t.e \in DOMAIN m.scopes /\ t.left \subseteq DOMAIN m.scopes[t.e].dict
  BY <1>1 DEF InOnePiece, Uppers
<1> HIDE DEF k, u
<1>7. Leaves(k, k, x, l)
  BY <1>1, LeavesSame DEF Apart
<1>8. CASE t.left # {}
  <2>1. Leaves(k, n, x, l)
    BY <1>4, <1>5, <1>7, LeavesPush DEF Writing, Beyond
  <2>2. name \in t.left
    BY <1>8
  <2> HIDE DEF n, name
  <2>3. y \in Nat
    <3>1. y \in DOMAIN m.exprs
      BY <1>1, <1>6, <2>2 DEF InOnePiece
    <3> QED
      BY <1>1, <3>1, Domains
  <2>4. y > x
    BY <1>6, <2>2 DEF Apart
  <2> HIDE DEF y
  <2>5. v \in Tasks /\ v.fn = "core" /\ v.x = y
    BY <2>3 DEF DestroyExpr, Tasks, Holding, Destroying
  <2> HIDE DEF v
  <2>6. Leaves(k, Push(n, <<v>>), x, l)
    BY <2>1, <2>4, <2>5, LeavesPush DEF Writing, Beyond
  <2> QED
    BY <1>2, <1>8, <2>6 DEF k
<1> HIDE DEF n, v
<1>9. Leaves(k, freed, x, l)
  <2> DEFINE o == Scope(0)
  <2>1. o \in Scopes /\ DOMAIN o.dict = {}
    <3>1. <<>> \in [{} -> Nat] /\ {} \in SUBSET Texts
      OBVIOUS
    <3>2. <<>> \in Dicts
      BY <3>1 DEF Dicts
    <3> QED
      BY <3>2 DEF Scopes, Scope
  <2> HIDE DEF o
  <2>2. t.e \in DOMAIN k.scopes
    BY <1>1, <1>6
  <2>3. bare = [k EXCEPT !.scopes[t.e] = o]
    BY DEF o
  <2> HIDE DEF bare
  <2>4. Leaves(k, bare, x, l)
    BY <1>7, <2>1, <2>2, <2>3, LeavesScope
  <2>5. f \in {"expr", "scope"} \X Nat /\ f[1] = "scope" /\ f[2] >= l
    BY <1>3
  <2> HIDE DEF f
  <2> QED
    BY <2>4, <2>5, LeavesFree
<1> HIDE DEF freed
<1>10. CASE t.left = {} /\ up # 0
  <2>1. up \in DOMAIN m.scopes
    <3> DEFINE a == NewestScope(m)
    <3>1. a \in Nat /\ DOMAIN m.scopes = 1..a
      BY <1>1, Domains
    <3>2. up \in 0..(t.e - 1) /\ t.e \in 1..a
      BY <1>1, <1>6, <3>1 DEF InOnePiece
    <3> HIDE DEF a, up
    <3>3. up \in 1..a
      BY <1>10, <3>1, <3>2
    <3> QED
      BY <3>1, <3>3
  <2>2. up >= l
    BY <1>10
  <2> HIDE DEF up
  <2>3. freed \in Memory /\ up \in DOMAIN freed.scopes
    BY <1>1, <1>9, <2>1 DEF Leaves
  <2>4. w \in Tasks /\ w.fn = "env" /\ w.e = up
    BY <2>3, EnvTask
  <2> HIDE DEF w
  <2>5. Leaves(k, Push(freed, <<w>>), x, l)
    BY <1>9, <2>2, <2>4, LeavesPush DEF Writing, Beyond
  <2> QED
    BY <1>2, <1>10, <2>5 DEF k
<1>11. CASE t.left = {} /\ up = 0
  BY <1>2, <1>9, <1>11 DEF k
<1> QED
  BY <1>8, <1>10, <1>11

\* The end of a let.
LEMMA LeavesEndLet ==
  ASSUME NEW m, Good(m), m.todo # <<>>, NEW t, t = Last(m.todo), t.fn = "endlet",
         NEW x \in Nat, NEW l \in Nat, Apart(m, x, l), t.e >= l
  PROVE  Leaves(Pop(m), DestroyAlone(Pop(m), t.e), x, l)
<1> DEFINE k == Pop(m)
<1>1. /\ m \in Memory /\ InOnePiece(m) /\ k \in Memory /\ k.exprs = m.exprs /\ k.scopes = m.scopes
      /\ t = m.todo[Top(m)] /\ Top(m) \in DOMAIN m.todo
  BY PoppedOne DEF Good
<1>2. t.e \in DOMAIN k.scopes
  BY <1>1 DEF InOnePiece
<1> HIDE DEF k
<1>3. Leaves(k, k, x, l)
  BY <1>1, LeavesSame DEF Apart
<1>4. Leaves(k, DestroyAlone(k, t.e), x, l)
  BY <1>2, <1>3, LeavesAlone
<1> QED
  BY <1>4 DEF k

\* Whatever the next task destroys, it leaves alone what is older.
LEMMA LeavesStep ==
  ASSUME NEW m, Good(m), Younger(m), m.todo # <<>>, NEW t, t = Last(m.todo),
         t.fn \in {"endlet", "core", "env"},
         NEW x \in Nat, NEW l \in Nat, Apart(m, x, l), Beyond(t, x, l),
         t.fn = "env" /\ m.scopes[t.e].upper # 0 => m.scopes[t.e].upper >= l
  PROVE  Leaves(Pop(m), Step(m), x, l)
<1>1. CASE t.fn = "core"
  <2>1. Step(m) = CoreDestroy(Pop(m), t)
    BY <1>1 DEF Step
  <2>2. t.x > x
    BY <1>1 DEF Beyond
  <2> QED
    BY <1>1, <2>1, <2>2, LeavesCoreDestroy
<1>2. CASE t.fn = "env"
  <2>1. Step(m) = EnvDestroyStep(Pop(m), t)
    BY <1>2 DEF Step
  <2>2. t.e >= l
    BY <1>2 DEF Beyond
  <2> QED
    BY <1>2, <2>1, <2>2, LeavesEnvDestroy
<1>3. CASE t.fn = "endlet"
  <2>1. Step(m) = DestroyAlone(Pop(m), t.e)
    BY <1>3 DEF Step
  <2>2. t.e >= l
    BY <1>3 DEF Beyond
  <2> QED
    BY <1>3, <2>1, <2>2, LeavesEndLet
<1> QED
  BY <1>1, <1>2, <1>3

-----------------------------------------------------------------------------
(* The invariant *)

\* What the next task destroys is beyond what every caller goes on with.
LEMMA SafeDestroys ==
  ASSUME NEW m, Good(m), Safe(m), m.todo # <<>>, NEW t, t = Last(m.todo),
         t.fn \in {"endlet", "core", "env"}
  PROVE  Safe(Step(m))
<1> DEFINE k == Pop(m)
           n == Step(m)
<1>1. m \in Memory /\ InOnePiece(m) /\ Uppers(m) /\ Younger(m)
  BY DEF Good, Safe
<1>2. /\ k \in Memory /\ k.exprs = m.exprs /\ k.scopes = m.scopes /\ k.frees = m.frees
      /\ DOMAIN k.todo = DOMAIN m.todo \ {Top(m)}
      /\ Top(m) \in DOMAIN m.todo /\ m.todo[Top(m)] = t
      /\ \A d \in DOMAIN m.todo : d \in Nat /\ (d # Top(m) => k.todo[d] = m.todo[d] /\ d < Top(m))
  BY <1>1, PoppedOne
<1>3. ASSUME NEW x \in Nat, NEW l \in Nat, Apart(m, x, l), Beyond(t, x, l),
             t.fn = "env" /\ m.scopes[t.e].upper # 0 => m.scopes[t.e].upper >= l
      PROVE  Leaves(k, n, x, l)
  BY <1>1, <1>3, LeavesStep
<1> HIDE DEF k, n
<1>4. /\ Newest(m) \in Nat /\ NewestScope(m) \in Nat
      /\ DOMAIN m.exprs = 1..Newest(m) /\ DOMAIN m.scopes = 1..NewestScope(m)
  BY <1>1, Domains
<1>5. /\ t.fn = "core" => t.x \in DOMAIN m.exprs
      /\ t.fn \in {"endlet", "env"} => t.e \in DOMAIN m.scopes
  BY <1>1, <1>2 DEF InOnePiece
<1>6. Leaves(k, n, 0, 1)
  <2>1. Apart(m, 0, 1)
    <3>1. \A z \in DOMAIN m.exprs : m.exprs[z].form = "LAMBDA" => m.exprs[z].args \in DOMAIN m.scopes
      BY <1>1 DEF InOnePiece
    <3>2. \A s \in DOMAIN m.scopes : \A name \in DOMAIN m.scopes[s].dict :
            m.scopes[s].dict[name] \in DOMAIN m.exprs
      BY <1>1 DEF InOnePiece
    <3> QED
      BY <1>4, <3>1, <3>2 DEF Apart
  <2>2. Beyond(t, 0, 1)
    BY <1>4, <1>5 DEF Beyond
  <2>3. t.fn = "env" /\ m.scopes[t.e].upper # 0 => m.scopes[t.e].upper >= 1
    <3>1. \A e \in 1..NewestScope(m) : m.scopes[e].upper \in 0..(e - 1)
      BY <1>1, <1>4 DEF InOnePiece
    <3> QED
      BY <1>4, <1>5, <3>1
  <2>4. 0 \in Nat /\ 1 \in Nat
    OBVIOUS
  <2> QED
    BY <1>3, <2>1, <2>2, <2>3, <2>4
<1>7. /\ n \in Memory /\ n.exprs = m.exprs /\ DOMAIN n.scopes = DOMAIN m.scopes
      /\ \A d \in DOMAIN n.todo : n.todo[d].fn \in Writing => d \in DOMAIN k.todo /\ n.todo[d] = k.todo[d]
  BY <1>2, <1>6 DEF Leaves
<1>8. Younger(n)
  BY <1>1, <1>7 DEF Younger
<1>9. Bounds(m) \subseteq Bounds(n)
  BY <1>1, <1>7, MoreBounds
<1>10. ASSUME NEW c \in DOMAIN n.todo, n.todo[c].fn \in Writing
       PROVE  Live(n, n.todo[c]) /\ Spared(n, c)
  <2> DEFINE r == m.todo[c]
  <2>1. c \in DOMAIN m.todo /\ n.todo[c] = r /\ r.fn \in Writing /\ c < Top(m)
    BY <1>2, <1>7, <1>10
  <2>2. Live(m, r) /\ Spared(m, c)
    BY <2>1 DEF Safe
  <2>3. PICK b \in Bounds(m) :
          /\ Apart(m, b[1], b[2]) /\ Within(r, b[1], b[2])
          /\ \A d \in DOMAIN m.todo : d > c => Beyond(m.todo[d], b[1], b[2])
    BY <2>2 DEF Spared
  <2> HIDE DEF r
  <2> DEFINE x == b[1]
             l == b[2]
  <2>4. x \in Nat /\ l \in Nat /\ l > Global
    BY <1>4, <2>3 DEF Bounds, Global
  <2>5. Apart(m, x, l) /\ Within(r, x, l) /\ Beyond(t, x, l)
    <3>1. Top(m) > c
      BY <1>2, <2>1
    <3> QED
      BY <1>2, <2>3, <3>1
  <2>6. t.fn = "env" => m.scopes[t.e].upper = 0
    <3>1. t.fn = "env" => t.e # Global
      BY <1>4, <1>5, <2>4, <2>5 DEF Beyond, Global
    <3> QED
      BY <1>1, <1>2, <3>1 DEF Uppers
  <2> HIDE DEF x, l
  <2>7. Leaves(k, n, x, l)
    BY <1>3, <2>4, <2>5, <2>6
  <2>8. r.e \in DOMAIN m.scopes /\ r.e < l /\ r.e \in Nat
    BY <1>4, <2>2, <2>5 DEF Live, LiveScope, Within
  <2>9. LiveScope(n, r.e)
    <3>1. PICK A \in SUBSET (1..r.e) :
            r.e \in A /\ \A s \in A : ~Freed(m, "scope", s) /\ m.scopes[s].upper \in A \cup {0}
      BY <2>2 DEF Live, LiveScope
    <3>2. ASSUME NEW s \in A PROVE s \in DOMAIN m.scopes /\ ~(s >= l)
      <4>1. s \in 1..r.e
        BY <3>1
      <4>2. r.e \in 1..NewestScope(m)
        BY <1>4, <2>8
      <4> QED
        BY <1>4, <2>4, <2>8, <4>1, <4>2
    <3>3. ASSUME NEW s \in A PROVE ~Freed(n, "scope", s) /\ n.scopes[s].upper \in A \cup {0}
      <4>1. ~Freed(k, "scope", s) /\ k.scopes[s].upper \in A \cup {0}
        BY <1>2, <3>1 DEF Freed
      <4>2. s \in DOMAIN k.scopes /\ ~(s >= l)
        BY <1>2, <3>2
      <4> QED
        BY <2>7, <4>1, <4>2 DEF Leaves
    <3> QED
      BY <1>7, <2>8, <3>1, <3>3 DEF LiveScope
  <2>10. r.fn \in {"gen", "child"} => LiveExpr(n, r.x)
    <3> SUFFICES ASSUME r.fn \in {"gen", "child"} PROVE LiveExpr(n, r.x)
      OBVIOUS
    <3>1. r.x \in DOMAIN m.exprs /\ ~Freed(m, "expr", r.x) /\ r.x <= x
      BY <2>2, <2>5 DEF Live, LiveExpr, Within
    <3>2. ~(r.x > x)
      BY <1>4, <2>4, <3>1
    <3>3. ~Freed(k, "expr", r.x)
      BY <1>2, <3>1 DEF Freed
    <3> QED
      BY <1>7, <2>7, <3>1, <3>2, <3>3 DEF Leaves, LiveExpr
  <2>11. Live(n, n.todo[c])
    BY <2>1, <2>9, <2>10 DEF Live
  <2>12. ASSUME NEW d \in DOMAIN n.todo, d > c PROVE Beyond(n.todo[d], x, l)
    <3>1. CASE d \in DOMAIN k.todo
      <4>1. d \in DOMAIN m.todo /\ n.todo[d] = m.todo[d]
        BY <1>2, <2>7, <3>1 DEF Leaves
      <4> QED
        BY <2>3, <2>12, <4>1 DEF x, l
    <3>2. CASE d \notin DOMAIN k.todo
      BY <2>7, <3>2 DEF Leaves
    <3> QED
      BY <3>1, <3>2
  <2>13. Apart(n, x, l) /\ Within(n.todo[c], x, l)
    BY <2>1, <2>5, <2>7 DEF Leaves
  <2>14. Spared(n, c)
    BY <1>9, <2>3, <2>12, <2>13 DEF Spared, x, l
  <2> QED
    BY <2>11, <2>14
<1>11. Safe(n)
  BY <1>8, <1>10 DEF Safe
<1> QED
  BY <1>11 DEF n

\* The next task is taken.
LEMMA SafePop ==
  ASSUME NEW m \in Memory, Safe(m), m.todo # <<>>
  PROVE  /\ Safe(Pop(m))
         /\ Last(m.todo).fn \in Writing => Live(Pop(m), Last(m.todo))
<1> DEFINE k == Pop(m)
<1>1. /\ k \in Memory /\ k.exprs = m.exprs /\ k.scopes = m.scopes /\ k.frees = m.frees
      /\ DOMAIN k.todo = DOMAIN m.todo \ {Top(m)}
      /\ Top(m) \in DOMAIN m.todo /\ m.todo[Top(m)] = Last(m.todo)
      /\ \A d \in DOMAIN m.todo : d # Top(m) => k.todo[d] = m.todo[d]
  BY PoppedOne
<1> HIDE DEF k
<1>2. /\ \A t : Live(m, t) => Live(k, t)
      /\ \A x, l : Apart(m, x, l) => Apart(k, x, l)
      /\ Bounds(k) = Bounds(m)
  BY <1>1 DEF Live, LiveScope, LiveExpr, Freed, Apart, Bounds, Newest, NewestScope
<1>3. Younger(k)
  BY <1>1 DEF Safe, Younger
<1>4. ASSUME NEW c \in DOMAIN k.todo, k.todo[c].fn \in Writing
      PROVE  Live(k, k.todo[c]) /\ Spared(k, c)
  <2>1. c \in DOMAIN m.todo /\ k.todo[c] = m.todo[c]
    BY <1>1
  <2>2. Live(m, m.todo[c]) /\ Spared(m, c)
    BY <1>4, <2>1 DEF Safe
  <2>3. PICK b \in Bounds(m) :
          /\ Apart(m, b[1], b[2]) /\ Within(m.todo[c], b[1], b[2])
          /\ \A d \in DOMAIN m.todo : d > c => Beyond(m.todo[d], b[1], b[2])
    BY <2>2 DEF Spared
  <2>4. \A d \in DOMAIN k.todo : d > c => Beyond(k.todo[d], b[1], b[2])
    BY <1>1, <2>3
  <2>5. Spared(k, c)
    BY <1>2, <2>1, <2>3, <2>4 DEF Spared
  <2> QED
    BY <1>2, <2>1, <2>2, <2>5
<1>5. Safe(k)
  BY <1>3, <1>4 DEF Safe
<1>6. Last(m.todo).fn \in Writing => Live(k, Last(m.todo))
  BY <1>1, <1>2 DEF Safe
<1> QED
  BY <1>5, <1>6 DEF k

\* A step of what is to be done, but for the client.
LEMMA SafeStep ==
  ASSUME NEW m, Good(m), Safe(m), m.todo # <<>>, Last(m.todo).fn # "client"
  PROVE  Safe(Step(m))
<1> DEFINE t == Last(m.todo)
           k == Pop(m)
<1>1. m \in Memory
  BY DEF Good
<1>2. t \in Tasks
  BY <1>1, Popped
<1>3. CASE t.fn \in {"endlet", "core", "env"}
  BY <1>3, SafeDestroys
<1>4. CASE t.fn \in Writing
  <2>1. Calm(m)
    BY <1>4, GoodQuiet DEF Writing
  <2>2. Calm(k)
    BY <2>1, CalmPop
  <2>3. Safe(k) /\ Live(k, t)
    BY <1>1, <1>4, SafePop
  <2>4. /\ t.fn # "param" => t.node \in Nodes
        /\ t.fn = "param" => t.name \in Texts
        /\ t.at \in Seq(Nat)
    BY <1>2, <1>4 DEF Tasks, Holding, Destroying, Generating, Writing
  <2> HIDE DEF k, t
  <2>5. LiveScope(k, t.e) /\ t.e \in DOMAIN k.scopes
    BY <2>3 DEF Live, LiveScope
  <2>6. CASE t.fn = "populate"
    <3>1. Step(m) = PopulateEnv(k, t)
      BY <2>6 DEF Step, k, t
    <3> QED
      BY <2>2, <2>3, <2>4, <2>5, <2>6, <3>1, SafePopulateEnv
  <2>7. CASE t.fn = "param"
    <3>1. Step(m) = PutParam(k, t)
      BY <2>7 DEF Step, k, t
    <3> QED
      BY <2>2, <2>3, <2>4, <2>5, <2>7, <3>1, SafePutParam
  <2>8. CASE t.fn = "generate"
    <3>1. Step(m) = GenerateEnv(k, t)
      BY <2>8 DEF Step, k, t
    <3> QED
      BY <2>2, <2>3, <2>4, <2>5, <2>8, <3>1, SafeGenerateEnv
  <2>9. CASE t.fn = "gen"
    <3>1. Step(m) = FromAst(k, t.x, t.node, t.e, t.at)
      BY <2>9 DEF Step, k, t
    <3>2. LiveExpr(k, t.x)
      BY <2>3, <2>9 DEF Live
    <3> QED
      BY <2>2, <2>3, <2>4, <2>5, <2>9, <3>1, <3>2, SafeFromAst
  <2>10. CASE t.fn = "child"
    <3>1. Step(m) = FromAstChild(k, t)
      BY <2>10 DEF Step, k, t
    <3>2. LiveExpr(k, t.x)
      BY <2>3, <2>10 DEF Live
    <3> QED
      BY <2>2, <2>3, <2>4, <2>5, <2>10, <3>1, <3>2, SafeFromAstChild
  <2> QED
    BY <1>4, <2>6, <2>7, <2>8, <2>9, <2>10 DEF Writing
<1> QED
  BY <1>2, <1>3, <1>4 DEF Tasks, Holding, Destroying, Generating, Writing

\* Nothing generates before the module is handed over.
LEMMA InitSafeInv == Init => SafeInv
<1> SUFFICES ASSUME Init PROVE SafeInv
  OBVIOUS
<1>1. IndInv /\ mem = Loaded
  BY InitIndInv DEF Init
<1>2. \A i \in DOMAIN Loaded.exprs : Loaded.exprs[i].kids = <<>>
  BY DEF Loaded, Expr
<1>3. Younger(Loaded)
  BY <1>2, EmptySeq DEF Younger
<1>4. Loaded.todo = <<Client>> /\ Loaded.frees = <<>>
  BY DEF Loaded
<1>5. \A c \in DOMAIN Loaded.todo : Loaded.todo[c].fn \notin Writing
  BY <1>4 DEF Client, Writing
<1>6. Safe(Loaded)
  BY <1>3, <1>5 DEF Safe
<1> QED
  BY <1>1, <1>4, <1>6 DEF SafeInv

\* Every step leaves callers what they go on with.
LEMMA NextSafeInv == SafeInv /\ [Next]_vars => SafeInv'
<1> SUFFICES ASSUME SafeInv, [Next]_vars PROVE SafeInv'
  OBVIOUS
<1>1. /\ IndInv /\ Safe(mem) /\ IndInv' /\ Good(mem) /\ Tasked /\ mem \in Memory /\ ast \in Programs
  BY NextIndInv DEF SafeInv, IndInv, Good
<1>2. CASE Coregen
  <2>1. phase' # "ready"
    BY <1>2 DEF Coregen
  <2>2. CASE phase = "ready"
    <3>1. mem.todo = <<Client>> /\ mem.frees = <<>> /\ mem' = FromModuleAst(mem, ast)
      BY <1>1, <1>2, <2>2 DEF Tasked, Coregen, SafeInv
    <3>2. Calm(mem)
      <4>1. mem.todo # <<>> /\ Last(mem.todo) = Client
        BY <3>1 DEF Last
      <4> QED
        BY <1>1, <4>1, GoodQuiet DEF Client
    <3>3. LiveScope(mem, Global)
      <4>1. Global \in DOMAIN mem.scopes /\ DOMAIN mem.scopes \subseteq Nat
        BY <3>2, Numbers
      <4>2. \A s \in 1..Global : s \in DOMAIN mem.scopes
        BY <1>1, <4>1, Domains DEF Global
      <4>3. \A s \in 1..Global : mem.scopes[s].upper \in (1..Global) \cup {0}
        BY <1>1, <4>2 DEF Good, InOnePiece, Global
      <4>4. \A s : ~Freed(mem, "scope", s)
        BY <3>1 DEF Freed, ToSet
      <4>5. Global \in 1..Global
        BY DEF Global
      <4> QED
        BY <4>1, <4>3, <4>4, <4>5 DEF LiveScope
    <3>4. ast \in Nodes
      BY <1>1, NodesClosed
    <3>5. Safe(mem')
      BY <1>1, <3>1, <3>2, <3>3, <3>4, SafeFromModuleAst
    <3> QED
      BY <1>1, <2>1, <3>5 DEF SafeInv
  <2>3. CASE phase = "generating"
    <3>1. Len(mem.todo) > 1 /\ \A d \in 2..Len(mem.todo) : mem.todo[d].fn # "client"
      BY <1>1, <2>3 DEF Tasked
    <3>2. mem' = Step(mem)
      BY <1>2, <2>3 DEF Coregen
    <3>3. mem.todo \in Seq(Tasks) /\ Len(mem.todo) \in Nat
      BY <1>1, LenProperties DEF Memory
    <3>4. mem.todo # <<>>
      BY <3>1, EmptySeq
    <3>5. Last(mem.todo) = mem.todo[Len(mem.todo)] /\ Len(mem.todo) \in 2..Len(mem.todo)
      BY <1>1, <3>1, <3>3, <3>4, Popped
    <3>6. Last(mem.todo).fn # "client"
      BY <3>1, <3>5
    <3>7. Safe(mem')
      BY <1>1, <3>2, <3>4, <3>6, SafeStep
    <3> QED
      BY <1>1, <2>1, <3>7 DEF SafeInv
  <2> QED
    BY <1>2, <2>2, <2>3 DEF Coregen
<1>3. CASE Destroy
  <2>1. phase' # "ready"
    BY <1>3 DEF Destroy
  <2>2. CASE phase = "printed"
    <3> DEFINE u == EnvDestroy(Global, mem.scopes[Global].dict)
    <3>1. mem.todo = <<Client>> /\ mem' = [mem EXCEPT !.todo = <<u>>]
      BY <1>1, <1>3, <2>2 DEF Tasked, Destroy
    <3>2. mem'.todo = <<u>> /\ u.fn = "env"
      BY <1>1, <3>1, GoodDestroyBegins
    <3>3. mem'.exprs = mem.exprs
      BY <1>1, <3>1 DEF Memory
    <3> HIDE DEF u
    <3>4. Younger(mem')
      BY <1>1, <3>3 DEF Safe, Younger
    <3>5. \A c \in DOMAIN mem'.todo : mem'.todo[c].fn \notin Writing
      BY <3>2 DEF Writing
    <3>6. Safe(mem')
      BY <3>4, <3>5 DEF Safe
    <3> QED
      BY <1>1, <2>1, <3>6 DEF SafeInv
  <2>3. CASE phase = "destroying"
    <3>1. mem.todo # <<>> /\ \A d \in DOMAIN mem.todo : mem.todo[d].fn # "client"
      BY <1>1, <2>3 DEF Tasked
    <3>2. mem' = Step(mem)
      BY <1>3, <2>3 DEF Destroy
    <3>3. Top(mem) \in DOMAIN mem.todo /\ mem.todo[Top(mem)] = Last(mem.todo)
      BY <1>1, <3>1, PoppedOne
    <3>4. Safe(mem')
      BY <1>1, <3>1, <3>2, <3>3, SafeStep
    <3> QED
      BY <1>1, <2>1, <3>4 DEF SafeInv
  <2> QED
    BY <1>3, <2>2, <2>3 DEF Destroy
<1>4. CASE AstDestroy
  BY <1>1, <1>4 DEF AstDestroy, SafeInv
<1>5. CASE CorePrint
  BY <1>1, <1>5 DEF CorePrint, SafeInv
<1>6. CASE UNCHANGED vars
  BY <1>1, <1>6 DEF vars, SafeInv
<1> QED
  BY <1>2, <1>3, <1>4, <1>5, <1>6 DEF Next

\* It holds of every run.
THEOREM Spares == Spec => []SafeInv
BY InitSafeInv, NextSafeInv, PTL DEF Spec

\* coregen never writes an expression, and never searches a scope, that has been given
\* back, for every program: at the end of a let, what env_destroy frees (coregen.c:278-279)
\* is younger than all that the callers still on the stack go on with.
THEOREM NothingFreedIsUsed == Spec => []GeneratesLive
<1>1. ASSUME SafeInv, NEW d \in DOMAIN mem.todo
      PROVE  /\ mem.todo[d].fn \in {"gen", "child"} => <<"expr", mem.todo[d].x>> \notin ToSet(mem.frees)
             /\ mem.todo[d].fn \in {"populate", "param", "generate", "gen", "child"} =>
                  \A e \in Chain(mem, mem.todo[d].e) : <<"scope", e>> \notin ToSet(mem.frees)
  <2>1. mem \in Memory /\ InOnePiece(mem)
    BY <1>1 DEF SafeInv, IndInv, Good
  <2>2. mem.todo[d].fn \in Writing => Live(mem, mem.todo[d])
    BY <1>1 DEF SafeInv, Safe
  <2>3. mem.todo[d].fn \in {"gen", "child"} => ~Freed(mem, "expr", mem.todo[d].x)
    BY <2>2 DEF Writing, Live, LiveExpr
  <2>4. mem.todo[d].fn \in Writing => LiveScope(mem, mem.todo[d].e)
    BY <2>2 DEF Live
  <2>5. mem.todo[d].fn \in Writing =>
          \A e \in Chain(mem, mem.todo[d].e) : ~Freed(mem, "scope", e)
    BY <2>1, <2>4, ChainLive
  <2> QED
    BY <2>3, <2>5 DEF Writing, Freed
<1>2. SafeInv => GeneratesLive
  BY <1>1 DEF GeneratesLive
<1> QED
  BY <1>2, Spares, PTL

=============================================================================
