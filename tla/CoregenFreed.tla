---------------------------- MODULE CoregenFreed ----------------------------
(***************************************************************************)
(* In the end everything has been freed, for every program that binds no   *)
(* name twice in a scope.  The converse of CoregenProofs: what has not     *)
(* been freed is owned from some place, so that when nothing is to be done *)
(* any more, whatever is left has an older owner that is left too.  An     *)
(* owner is lost if its name is bound anew, or if an expression that owns  *)
(* something is generated again; neither happens, because every name is    *)
(* bound once and every expression generated once.                         *)
(***************************************************************************)
EXTENDS CoregenLive

-----------------------------------------------------------------------------
(* Everything has an owner *)

HeldExpr(m, x) ==
  \/ Freed(m, "expr", x)
  \/ \E z \in DOMAIN m.exprs : \E i \in DOMAIN m.exprs[z].kids : KidPlace(m, z, i) /\ m.exprs[z].kids[i] = x
  \/ \E e \in DOMAIN m.scopes : \E k \in DOMAIN m.scopes[e].dict :
       KeyPlace(m, e, k) /\ m.scopes[e].dict[k] = x
  \/ \E d \in DOMAIN m.todo : CorePlace(m, d) /\ m.todo[d].x = x
HeldScope(m, e) ==
  \/ Freed(m, "scope", e)
  \/ \E x \in DOMAIN m.exprs : ArgsPlace(m, x) /\ m.exprs[x].args = e
  \/ UpperPlace(m) /\ m.scopes[Global].upper = e
  \/ \E d \in DOMAIN m.todo : EnvPlace(m, d) /\ m.todo[d].e = e

\* everything, but for these expressions and these scopes
HeldBut(m, X, E) ==
  /\ \A x \in DOMAIN m.exprs : x \in X \/ HeldExpr(m, x)
  /\ \A e \in DOMAIN m.scopes : e \in E \/ HeldScope(m, e)

\* a freed scope has nothing left, a lambda is older than its parameters, a loop over
\* children begins with the first, and env is not the scope of a let
Tidy(m) ==
  /\ \A e \in DOMAIN m.scopes : Freed(m, "scope", e) => m.scopes[e].upper = 0 /\ DOMAIN m.scopes[e].dict = {}
  /\ \A x \in DOMAIN m.exprs :
       LET a == m.exprs[x].args
       IN m.exprs[x].form = "LAMBDA" =>
            a > Global /\ \A k \in DOMAIN m.scopes[a].dict : m.scopes[a].dict[k] > x
  /\ \A d \in DOMAIN m.todo :
       (m.todo[d].fn = "core" => m.todo[d].next >= 1) /\ (m.todo[d].fn = "endlet" => m.todo[d].e > Global)

-----------------------------------------------------------------------------
(* Every name is bound once, and every expression generated once *)

\* tasks that bind a name, and tasks that generate what a name is bound to
Binder(t) == t.fn = "param" \/ (t.fn = "populate" /\ IsBinding(t.node))
Definer(t) == t.fn = "generate" /\ IsBinding(t.node)

NameOf(t) == IF t.fn = "param" THEN t.name ELSE t.node.names[1]
Same(s, t) == s.e = t.e /\ NameOf(s) = NameOf(t)

\* a task that generates into an expression there is, and that expression
Writer(m, t) == t.fn = "gen" \/ (Definer(t) /\ NameOf(t) \in DOMAIN m.scopes[t.e].dict)
Target(m, t) == IF t.fn = "gen" THEN t.x ELSE m.scopes[t.e].dict[NameOf(t)]

\* an expression is generated when it has one of these forms; children come after that
FreshForms == {"UNSET", "NO_FORM", "PLACEHOLDER"}
Blank(m, x) == x \in DOMAIN m.exprs /\ m.exprs[x].kids = <<>> /\ m.exprs[x].form \in FreshForms
Settled(m, x) == x \in DOMAIN m.exprs /\ m.exprs[x].form \notin FreshForms

\* what task t will do has not been done: its name is free, its expression is blank
Clear(m, t, nodes) ==
  /\ t.fn \in {"populate", "generate", "gen", "child"} => t.node \in nodes
  /\ Binder(t) => NameOf(t) \notin DOMAIN m.scopes[t.e].dict
  /\ Writer(m, t) => Blank(m, Target(m, t))
  /\ t.fn = "child" => Settled(m, t.x)

\* two tasks that would do the same once more
Clash(m, s, t) ==
  \/ Binder(s) /\ Binder(t) /\ Same(s, t)
  \/ Definer(s) /\ Definer(t) /\ Same(s, t)
  \/ Writer(m, s) /\ Writer(m, t) /\ Target(m, s) = Target(m, t)

\* what is to be generated has its name, or gets it before
Ready(m, d) ==
  LET t == m.todo[d]
  IN Definer(t) =>
       \/ NameOf(t) \in DOMAIN m.scopes[t.e].dict
       \/ \E c \in DOMAIN m.todo : c > d /\ Binder(m.todo[c]) /\ Same(m.todo[c], t)

\* What is to be done has not been done, and will be done once.
Once(m, nodes) ==
  /\ \A d \in DOMAIN m.todo : Clear(m, m.todo[d], nodes) /\ Ready(m, d)
  /\ \A c, d \in DOMAIN m.todo : c # d => ~Clash(m, m.todo[c], m.todo[d])

\* what every step keeps; E are scopes whose owner is about to be written
Kept(m, E, nodes) == Tidy(m) /\ HeldBut(m, {}, E) /\ Once(m, nodes)

\* The inductive invariant.
FreedInv ==
  /\ SafeInv
  /\ phase = "ready" => mem = Loaded
  /\ phase = "destroyed" => mem.todo = <<>>
  /\ NoDuplicates => Kept(mem, {}, NodesOf(ast))

-----------------------------------------------------------------------------
(* What is kept while nothing is destroyed *)

\* no call will write x from its beginning
Unclaimed(m, x) == \A d \in DOMAIN m.todo : Writer(m, m.todo[d]) => Target(m, m.todo[d]) # x

\* From m to n no owner is lost, and no name is bound.
Keeps(m, n) ==
  /\ n.todo = m.todo /\ n.frees = m.frees
  /\ DOMAIN m.exprs \subseteq DOMAIN n.exprs /\ DOMAIN m.scopes \subseteq DOMAIN n.scopes
  /\ \A z \in DOMAIN m.exprs : \A i \in DOMAIN m.exprs[z].kids :
       i \in DOMAIN n.exprs[z].kids /\ n.exprs[z].kids[i] = m.exprs[z].kids[i]
  /\ \A z \in DOMAIN m.exprs :
       m.exprs[z].form = "LAMBDA" => n.exprs[z].form = "LAMBDA" /\ n.exprs[z].args = m.exprs[z].args
  /\ \A e \in DOMAIN m.scopes : n.scopes[e].upper = m.scopes[e].upper
  /\ \A e \in DOMAIN m.scopes : \A k \in DOMAIN m.scopes[e].dict :
       k \in DOMAIN n.scopes[e].dict /\ n.scopes[e].dict[k] = m.scopes[e].dict[k]

\* What was held is held.
LEMMA KeepsHeld ==
  ASSUME NEW m, Quiet(m), Global \in DOMAIN m.scopes, NEW n, Keeps(m, n)
  PROVE  /\ \A x : HeldExpr(m, x) => HeldExpr(n, x)
         /\ \A e : HeldScope(m, e) => HeldScope(n, e)
<1>1. Quiet(n) /\ \A z : (Freed(n, "expr", z) <=> Freed(m, "expr", z)) /\ (Freed(n, "scope", z) <=> Freed(m, "scope", z))
  BY DEF Quiet, Keeps, Freed
<1>2. ASSUME NEW z \in DOMAIN m.exprs, NEW i \in DOMAIN m.exprs[z].kids, KidPlace(m, z, i)
      PROVE  z \in DOMAIN n.exprs /\ i \in DOMAIN n.exprs[z].kids /\ KidPlace(n, z, i)
  BY <1>1, <1>2 DEF Keeps, KidPlace, Quiet
<1>3. ASSUME NEW e \in DOMAIN m.scopes, NEW k \in DOMAIN m.scopes[e].dict
      PROVE  e \in DOMAIN n.scopes /\ k \in DOMAIN n.scopes[e].dict /\ KeyPlace(n, e, k)
  BY <1>1 DEF Keeps, KeyPlace, Quiet
<1>4. ASSUME NEW x \in DOMAIN m.exprs, ArgsPlace(m, x)
      PROVE  x \in DOMAIN n.exprs /\ ArgsPlace(n, x) /\ n.exprs[x].args = m.exprs[x].args
  BY <1>1, <1>4 DEF Keeps, ArgsPlace, Quiet
<1>5. \A d \in DOMAIN m.todo : EnvPlace(m, d) => EnvPlace(n, d)
  BY DEF Keeps, EnvPlace
<1>6. ASSUME NEW x, HeldExpr(m, x) PROVE HeldExpr(n, x)
  <2>1. CASE Freed(m, "expr", x)
    BY <1>1, <2>1 DEF HeldExpr
  <2>2. CASE \E z \in DOMAIN m.exprs : \E i \in DOMAIN m.exprs[z].kids :
          KidPlace(m, z, i) /\ m.exprs[z].kids[i] = x
    BY <1>2, <2>2 DEF HeldExpr, Keeps
  <2>3. CASE \E e \in DOMAIN m.scopes : \E k \in DOMAIN m.scopes[e].dict :
               KeyPlace(m, e, k) /\ m.scopes[e].dict[k] = x
    BY <1>3, <2>3 DEF HeldExpr, Keeps
  <2>4. CASE \E d \in DOMAIN m.todo : CorePlace(m, d) /\ m.todo[d].x = x
    BY <2>4 DEF CorePlace, Quiet
  <2> QED
    BY <1>6, <2>1, <2>2, <2>3, <2>4 DEF HeldExpr
<1>7. ASSUME NEW e, HeldScope(m, e) PROVE HeldScope(n, e)
  <2>1. CASE Freed(m, "scope", e)
    BY <1>1, <2>1 DEF HeldScope
  <2>2. CASE \E x \in DOMAIN m.exprs : ArgsPlace(m, x) /\ m.exprs[x].args = e
    BY <1>4, <2>2 DEF HeldScope
  <2>3. CASE UpperPlace(m) /\ m.scopes[Global].upper = e
    BY <2>3 DEF HeldScope, UpperPlace, Keeps
  <2>4. CASE \E d \in DOMAIN m.todo : EnvPlace(m, d) /\ m.todo[d].e = e
    BY <1>5, <2>4 DEF HeldScope, Keeps
  <2> QED
    BY <1>7, <2>1, <2>2, <2>3, <2>4 DEF HeldScope
<1> QED
  BY <1>6, <1>7

\* no task generates in the scope, or binds a name of it
Vacant(m, e) ==
  e \in DOMAIN m.scopes /\ DOMAIN m.scopes[e].dict = {}
  /\ \A d \in DOMAIN m.todo : m.todo[d].fn \in Writing => m.todo[d].e # e

\* From m to n no name is bound and no task added, and of what is yet to be generated
\* at most x changes.
Spaces(m, n, x) ==
  /\ n.todo = m.todo
  /\ \A d \in DOMAIN m.todo : m.todo[d].fn \in Writing => n.scopes[m.todo[d].e].dict = m.scopes[m.todo[d].e].dict
  /\ \A z : Settled(m, z) => Settled(n, z)
  /\ \A z : z # x /\ Blank(m, z) => Blank(n, z)

\* What is generated once still is.
LEMMA SpacesOnce ==
  ASSUME NEW m, NEW nodes, Once(m, nodes), NEW x, Unclaimed(m, x), NEW n, Spaces(m, n, x)
  PROVE  Once(n, nodes) /\ \A y : Unclaimed(m, y) => Unclaimed(n, y)
<1>1. \A d \in DOMAIN m.todo :
        LET t == m.todo[d]
        IN /\ Binder(t) \/ Definer(t) => n.scopes[t.e].dict = m.scopes[t.e].dict
           /\ (Writer(n, t) <=> Writer(m, t)) /\ (Writer(m, t) => Target(n, t) = Target(m, t))
  BY DEF Spaces, Binder, Definer, Writer, Target, Writing
<1>2. ASSUME NEW d \in DOMAIN m.todo PROVE Clear(n, m.todo[d], nodes) /\ Ready(n, d)
  <2>1. Clear(m, m.todo[d], nodes) /\ Ready(m, d)
    BY DEF Once
  <2>2. Writer(m, m.todo[d]) => Blank(n, Target(n, m.todo[d]))
    BY <1>1, <2>1 DEF Clear, Unclaimed, Spaces
  <2>3. Clear(n, m.todo[d], nodes)
    BY <1>1, <2>1, <2>2 DEF Clear, Spaces
  <2>4. Ready(n, d)
    BY <1>1, <2>1 DEF Ready, Spaces
  <2> QED
    BY <2>3, <2>4
<1>3. ASSUME NEW c \in DOMAIN m.todo, NEW d \in DOMAIN m.todo, c # d
      PROVE  ~Clash(n, m.todo[c], m.todo[d])
  <2>1. ~Clash(m, m.todo[c], m.todo[d])
    BY <1>3 DEF Once
  <2> QED
    BY <1>1, <2>1 DEF Clash
<1>4. Once(n, nodes)
  BY <1>2, <1>3 DEF Once, Spaces
<1>5. \A y : Unclaimed(m, y) => Unclaimed(n, y)
  BY <1>1 DEF Unclaimed, Spaces
<1> QED
  BY <1>4, <1>5

\* An expression with a new child below it.
LEMMA KeptNewChild ==
  ASSUME NEW m, Calm(m), NEW E, NEW nodes, Kept(m, E, nodes), NEW x, Settled(m, x), ~Freed(m, "expr", x),
         NEW o, Plain(m, o), NEW y, y = Newest(m) + 1, NEW n, n = NewChild(m, x, o)
  PROVE  /\ Kept(n, E, nodes) /\ (\A z : Settled(m, z) => Settled(n, z)) /\ Unclaimed(n, y)
         /\ y \in DOMAIN n.exprs /\ n.exprs[y] = o /\ ~Freed(n, "expr", y)
         /\ n.todo = m.todo /\ n.scopes = m.scopes /\ n.frees = m.frees
<1>1. m \in Memory /\ InOnePiece(m) /\ Quiet(m) /\ x \in DOMAIN m.exprs /\ o \in Exprs /\ o.kids = <<>>
      /\ o.form # "LAMBDA"
  BY DEF Calm, Good, Settled, Plain
<1>2. /\ n \in Memory
      /\ n.scopes = m.scopes /\ n.frees = m.frees /\ n.todo = m.todo
      /\ y \in Nat \ DOMAIN m.exprs
      /\ DOMAIN n.exprs = DOMAIN m.exprs \cup {y} /\ n.exprs[y] = o
      /\ \A z \in DOMAIN m.exprs : z # x => n.exprs[z] = m.exprs[z]
      /\ n.exprs[x].form = m.exprs[x].form /\ n.exprs[x].args = m.exprs[x].args
      /\ n.exprs[x].kids = Append(m.exprs[x].kids, y)
  BY <1>1, NewChildMemory
<1>3. PICK j : /\ j \in DOMAIN n.exprs[x].kids /\ n.exprs[x].kids[j] = y
               /\ \A i \in DOMAIN m.exprs[x].kids :
                    i \in DOMAIN n.exprs[x].kids /\ n.exprs[x].kids[i] = m.exprs[x].kids[i]
  <2>1. m.exprs \in Seq(Exprs)
    BY <1>1 DEF Memory
  <2>2. m.exprs[x] \in Exprs
    BY <1>1, <2>1
  <2>3. ASSUME NEW s \in Seq(Nat)
        PROVE  /\ Len(s) + 1 \in DOMAIN Append(s, y) /\ Append(s, y)[Len(s) + 1] = y
               /\ \A i \in DOMAIN s : i \in DOMAIN Append(s, y) /\ Append(s, y)[i] = s[i]
    BY <1>2
  <2>4. m.exprs[x].kids \in Seq(Nat)
    BY <2>2 DEF Exprs
  <2>5. /\ Len(m.exprs[x].kids) + 1 \in DOMAIN n.exprs[x].kids
        /\ n.exprs[x].kids[Len(m.exprs[x].kids) + 1] = y
        /\ \A i \in DOMAIN m.exprs[x].kids :
             i \in DOMAIN n.exprs[x].kids /\ n.exprs[x].kids[i] = m.exprs[x].kids[i]
    BY <1>2, <2>3, <2>4, SMTT(30)
  <2> QED
    BY <2>5
<1>4. Keeps(m, n)
  BY <1>1, <1>2, <1>3, ZenonT(30) DEF Keeps
<1>5. \A z : HeldExpr(m, z) => HeldExpr(n, z)
  BY <1>1, <1>4, KeepsHeld, Numbers
<1>6. \A z : HeldScope(m, z) => HeldScope(n, z)
  BY <1>1, <1>4, KeepsHeld, Numbers
<1>7. HeldExpr(n, y)
  <2>1. KidPlace(n, x, j)
    BY <1>1, <1>2, <1>3 DEF KidPlace, Quiet, Freed
  <2> QED
    BY <1>1, <1>2, <1>3, <2>1 DEF HeldExpr
<1>8. Spaces(m, n, x)
  BY <1>1, <1>2 DEF Spaces, Settled, Blank
<1>9. Unclaimed(m, x) /\ Unclaimed(m, y)
  <2>1. \A d \in DOMAIN m.todo : Writer(m, m.todo[d]) => Blank(m, Target(m, m.todo[d]))
    BY DEF Kept, Once, Clear
  <2> QED
    BY <1>2, <2>1 DEF Unclaimed, Blank, Settled
<1>10. Once(n, nodes) /\ Unclaimed(n, y)
  BY <1>8, <1>9, SpacesOnce DEF Kept
<1>11. Tidy(n)
  <2>1. \A z \in DOMAIN n.exprs :
          LET a == n.exprs[z].args
          IN n.exprs[z].form = "LAMBDA" =>
               a > Global /\ \A k \in DOMAIN n.scopes[a].dict : n.scopes[a].dict[k] > z
    <3> TAKE z \in DOMAIN n.exprs
    <3>1. CASE z = y
      BY <1>1, <1>2, <3>1
    <3>2. CASE z # y
      <4>1. z \in DOMAIN m.exprs /\ n.exprs[z].form = m.exprs[z].form /\ n.exprs[z].args = m.exprs[z].args
        BY <1>1, <1>2, <3>2
      <4>2. LET a == m.exprs[z].args
            IN m.exprs[z].form = "LAMBDA" =>
                 a > Global /\ \A k \in DOMAIN m.scopes[a].dict : m.scopes[a].dict[k] > z
        BY <4>1 DEF Kept, Tidy
      <4>3. n.scopes = m.scopes
        BY <1>2
      <4> QED
        BY <4>1, <4>2, <4>3
    <3> QED
      BY <3>1, <3>2
  <2> QED
    BY <1>2, <2>1, ZenonT(30) DEF Kept, Tidy, Freed
<1>12. ~Freed(n, "expr", y)
  BY <1>1, <1>2, NewNotFreed
<1>13. HeldBut(n, {}, E)
  BY <1>2, <1>5, <1>6, <1>7 DEF Kept, HeldBut
<1>14. \A z : Settled(m, z) => Settled(n, z)
  BY <1>8 DEF Spaces
<1> QED
  BY <1>1, <1>2, <1>10, <1>11, <1>12, <1>13, <1>14 DEF Kept

\* the memory of x can be used for an expression, if a lambda in a new scope
Renewable(m, E, nodes, x, f, name, target, args) ==
  /\ Calm(m) /\ Kept(m, E, nodes) /\ Blank(m, x) /\ Unclaimed(m, x)
  /\ f \in Forms /\ name \in Texts /\ target \in Nat /\ args \in Nat
  /\ f = "LAMBDA" => args > Global /\ DOMAIN m.scopes[args].dict = {} /\ ~Freed(m, "expr", x)
\* the scope of its parameters has an owner then
Still(E, f, args) == IF f = "LAMBDA" THEN E \ {args} ELSE E

\* An expression that is generated, for the first time; a lambda gets its scope.
LEMMA KeptBecome ==
  ASSUME NEW m, NEW E, NEW nodes, NEW x, NEW f, NEW name, NEW target, NEW args,
         Renewable(m, E, nodes, x, f, name, target, args), NEW n, n = Become(m, x, f, name, target, args)
  PROVE  /\ Kept(n, Still(E, f, args), nodes)
         /\ x \in DOMAIN n.exprs /\ n.exprs[x].form = f /\ n.exprs[x].kids = <<>>
         /\ n.todo = m.todo /\ n.scopes = m.scopes
         /\ \A y : Unclaimed(m, y) => Unclaimed(n, y)
<1>1. m \in Memory /\ InOnePiece(m) /\ Quiet(m) /\ x \in DOMAIN m.exprs /\ m.exprs[x].kids = <<>>
      /\ m.exprs[x].form # "LAMBDA"
  BY DEF Renewable, Calm, Good, Blank, FreshForms
<1>2. /\ n \in Memory
      /\ n.scopes = m.scopes /\ n.frees = m.frees /\ n.todo = m.todo
      /\ DOMAIN n.exprs = DOMAIN m.exprs
      /\ \A z \in DOMAIN m.exprs : z # x => n.exprs[z] = m.exprs[z]
      /\ n.exprs[x].form = f /\ n.exprs[x].kids = <<>> /\ n.exprs[x].args = args
  BY <1>1, BecomeMemory DEF Renewable
<1>3. Keeps(m, n)
  BY <1>1, <1>2 DEF Keeps
<1>4. \A z : HeldExpr(m, z) => HeldExpr(n, z)
  BY <1>1, <1>3, KeepsHeld, Numbers DEF Renewable
<1>5. \A z : HeldScope(m, z) => HeldScope(n, z)
  BY <1>1, <1>3, KeepsHeld, Numbers DEF Renewable
<1>6. f = "LAMBDA" => HeldScope(n, args)
  BY <1>1, <1>2 DEF HeldScope, ArgsPlace, Quiet, Freed, Renewable
<1>7. Spaces(m, n, x)
  BY <1>1, <1>2 DEF Spaces, Settled, Blank, Renewable
<1>8. Once(n, nodes) /\ \A y : Unclaimed(m, y) => Unclaimed(n, y)
  BY <1>7, SpacesOnce DEF Kept, Renewable
<1>9. Tidy(n)
  <2>1. \A z \in DOMAIN n.exprs :
          LET a == n.exprs[z].args
          IN n.exprs[z].form = "LAMBDA" =>
               a > Global /\ \A k \in DOMAIN n.scopes[a].dict : n.scopes[a].dict[k] > z
    <3> TAKE z \in DOMAIN n.exprs
    <3>1. CASE z = x
      BY <1>2, <3>1 DEF Renewable
    <3>2. CASE z # x
      BY <1>2, <3>2 DEF Kept, Tidy, Renewable
    <3> QED
      BY <3>1, <3>2
  <2> QED
    BY <1>2, <2>1 DEF Kept, Tidy, Freed, Renewable
<1>10. HeldBut(n, {}, Still(E, f, args))
  BY <1>2, <1>4, <1>5, <1>6 DEF Kept, HeldBut, Renewable, Still
<1> QED
  BY <1>1, <1>2, <1>8, <1>9, <1>10 DEF Kept

\* A new scope, which has no owner yet.
LEMMA KeptNewScope ==
  ASSUME NEW m, Calm(m), NEW nodes, Kept(m, {}, nodes), NEW e \in DOMAIN m.scopes,
         NEW a, a = NewestScope(m) + 1, NEW n, n = NewScope(m, e)
  PROVE  /\ Kept(n, {a}, nodes) /\ Vacant(n, a) /\ a > Global /\ a \in Nat
         /\ n.exprs = m.exprs /\ n.todo = m.todo /\ n.frees = m.frees
         /\ \A y : Unclaimed(m, y) => Unclaimed(n, y)
<1>1. m \in Memory /\ InOnePiece(m) /\ Quiet(m) /\ Global \in DOMAIN m.scopes /\ e \in Nat
  BY Numbers DEF Calm, Good
<1>2. /\ n \in Memory
      /\ n.exprs = m.exprs /\ n.frees = m.frees /\ n.todo = m.todo
      /\ a \in Nat \ DOMAIN m.scopes /\ DOMAIN n.scopes = DOMAIN m.scopes \cup {a}
      /\ \A z \in DOMAIN m.scopes : z < a
      /\ DOMAIN n.scopes[a].dict = {}
      /\ \A z \in DOMAIN m.scopes : n.scopes[z] = m.scopes[z]
  BY <1>1, NewScopeMemory
<1>3. \A d \in DOMAIN m.todo : m.todo[d].e \in DOMAIN m.scopes
  BY <1>1 DEF InOnePiece, Quiet
<1>4. Keeps(m, n)
  BY <1>1, <1>2 DEF Keeps
<1>5. \A z : HeldExpr(m, z) => HeldExpr(n, z)
  BY <1>1, <1>4, KeepsHeld
<1>6. \A z : HeldScope(m, z) => HeldScope(n, z)
  BY <1>1, <1>4, KeepsHeld
<1>7. PICK x : x \notin DOMAIN m.exprs
  <2>1. DOMAIN m.exprs \subseteq Nat \ {0}
    BY Numbers
  <2> QED
    BY <2>1
<1>8. Unclaimed(m, x)
  BY <1>7 DEF Kept, Once, Clear, Unclaimed, Blank
<1>9. Spaces(m, n, x)
  BY <1>2, <1>3 DEF Spaces, Settled, Blank
<1>10. Once(n, nodes) /\ \A y : Unclaimed(m, y) => Unclaimed(n, y)
  BY <1>8, <1>9, SpacesOnce DEF Kept
<1>11. Tidy(n)
  <2>1. ~Freed(n, "scope", a)
    BY <1>1, <1>2, NewNotFreed
  <2>2. \A z \in DOMAIN m.exprs : m.exprs[z].form = "LAMBDA" => m.exprs[z].args \in DOMAIN m.scopes
    BY <1>1 DEF InOnePiece
  <2>3. \A s \in DOMAIN n.scopes : Freed(n, "scope", s) => n.scopes[s].upper = 0 /\ DOMAIN n.scopes[s].dict = {}
    BY <1>2, <2>1 DEF Kept, Tidy, Freed
  <2> QED
    BY <1>2, <2>2, <2>3 DEF Kept, Tidy
<1>12. Vacant(n, a)
  BY <1>2, <1>3 DEF Vacant
<1>13. HeldBut(n, {}, {a})
  BY <1>2, <1>5, <1>6 DEF Kept, HeldBut
<1> QED
  BY <1>1, <1>2, <1>10, <1>11, <1>12, <1>13 DEF Kept

\* Nothing changes when coregen fails.
LEMMA KeptFail ==
  ASSUME NEW m, Calm(m), NEW E, NEW nodes, Kept(m, E, nodes)
  PROVE  Kept(Fail(m), E, nodes)
<1>1. LET n == Fail(m)
      IN n.exprs = m.exprs /\ n.scopes = m.scopes /\ n.frees = m.frees /\ n.todo = m.todo
  BY DEF Fail, Calm, Good, Memory
<1> DEFINE n == Fail(m)
<1> HIDE DEF n
<1>2. n.exprs = m.exprs /\ n.scopes = m.scopes /\ n.frees = m.frees /\ n.todo = m.todo
  BY <1>1 DEF n
<1>3. Keeps(m, n)
  BY <1>2 DEF Keeps
<1>4. HeldBut(n, {}, E)
  <2>1. Quiet(m) /\ Global \in DOMAIN m.scopes
    BY Numbers DEF Calm
  <2>2. \A z : HeldExpr(m, z) => HeldExpr(n, z)
    BY <1>3, <2>1, KeepsHeld
  <2>3. \A z : HeldScope(m, z) => HeldScope(n, z)
    BY <1>3, <2>1, KeepsHeld
  <2> QED
    BY <1>2, <2>2, <2>3 DEF Kept, HeldBut
<1>5. Tidy(n)
  BY <1>2 DEF Kept, Tidy, Freed
<1>6. Once(n, nodes)
  <2>1. PICK x : x \notin DOMAIN m.exprs
    <3>1. DOMAIN m.exprs \subseteq Nat \ {0}
      BY Numbers
    <3> QED
      BY <3>1
  <2>2. Unclaimed(m, x)
    BY <2>1 DEF Kept, Once, Clear, Unclaimed, Blank
  <2>3. Spaces(m, n, x)
    BY <1>2 DEF Spaces, Settled, Blank
  <2> QED
    BY <2>2, <2>3, SpacesOnce DEF Kept
<1>7. Kept(n, E, nodes)
  BY <1>4, <1>5, <1>6 DEF Kept
<1> QED
  BY <1>7 DEF n

-----------------------------------------------------------------------------
(* The stack while nothing is destroyed *)

\* Without its next task: only the scope of a let loses its owner.
LEMMA HeldPop ==
  ASSUME NEW m, Calm(m), Tidy(m), HeldBut(m, {}, {}), m.todo # <<>>,
         NEW t, t = Last(m.todo), t.fn # "client", NEW n, n = Pop(m)
  PROVE  Tidy(n) /\ HeldBut(n, {}, IF t.fn = "endlet" THEN {t.e} ELSE {})
<1>1. m \in Memory /\ Quiet(m)
  BY DEF Calm, Good
<1>2. /\ n.exprs = m.exprs /\ n.scopes = m.scopes /\ n.frees = m.frees
      /\ Top(m) \in DOMAIN m.todo /\ m.todo[Top(m)] = t
      /\ DOMAIN n.todo = DOMAIN m.todo \ {Top(m)}
      /\ \A d \in DOMAIN m.todo : d # Top(m) => n.todo[d] = m.todo[d]
  BY <1>1, PoppedOne
<1>3. Tidy(n)
  BY <1>2 DEF Tidy, Freed
<1>4. \A x, i : KidPlace(m, x, i) => KidPlace(n, x, i)
  BY <1>2 DEF KidPlace, Freed
<1>5. \A e, k : KeyPlace(m, e, k) => KeyPlace(n, e, k)
  BY <1>2 DEF KeyPlace
<1>6. \A x : ArgsPlace(m, x) => ArgsPlace(n, x)
  BY <1>2 DEF ArgsPlace, Freed
<1>7. \A x : HeldExpr(m, x) => HeldExpr(n, x)
  BY <1>1, <1>2, <1>4, <1>5 DEF HeldExpr, Freed, CorePlace, Quiet
<1>8. ASSUME NEW e, HeldScope(m, e), ~(t.fn = "endlet" /\ e = t.e) PROVE HeldScope(n, e)
  <2>1. \A d \in DOMAIN m.todo : EnvPlace(m, d) /\ m.todo[d].e = e => d # Top(m)
    BY <1>1, <1>2, <1>8 DEF EnvPlace, Quiet
  <2>2. \A d \in DOMAIN m.todo : EnvPlace(m, d) /\ d # Top(m) => EnvPlace(n, d) /\ n.todo[d].e = m.todo[d].e
    BY <1>2 DEF EnvPlace
  <2> QED
    BY <1>2, <1>6, <1>8, <2>1, <2>2 DEF HeldScope, Freed, UpperPlace
<1> QED
  BY <1>2, <1>3, <1>7, <1>8 DEF HeldBut

\* What the task that is done next may count on.
LEMMA KeptPop ==
  ASSUME NEW m, Calm(m), NEW nodes, Kept(m, {}, nodes), m.todo # <<>>,
         NEW t, t = Last(m.todo), t.fn # "client", ~Binder(t), NEW n, n = Pop(m)
  PROVE  /\ Kept(n, IF t.fn = "endlet" THEN {t.e} ELSE {}, nodes)
         /\ t.fn \in {"generate", "gen", "child"} => t.node \in nodes
         /\ t.fn = "gen" => Blank(n, t.x) /\ Unclaimed(n, t.x)
         /\ Definer(t) => /\ NameOf(t) \in DOMAIN n.scopes[t.e].dict
                          /\ Blank(n, n.scopes[t.e].dict[NameOf(t)])
                          /\ Unclaimed(n, n.scopes[t.e].dict[NameOf(t)])
         /\ t.fn = "child" => Settled(n, t.x)
         /\ t.fn = "endlet" => t.e > Global
<1>1. m \in Memory /\ Tidy(m) /\ Once(m, nodes) /\ HeldBut(m, {}, {})
  BY DEF Calm, Good, Kept
<1>2. /\ n.exprs = m.exprs /\ n.scopes = m.scopes
      /\ Top(m) \in DOMAIN m.todo /\ m.todo[Top(m)] = t
      /\ DOMAIN n.todo = DOMAIN m.todo \ {Top(m)}
      /\ \A d \in DOMAIN m.todo : d \in Nat /\ (d # Top(m) => n.todo[d] = m.todo[d] /\ d < Top(m))
  BY <1>1, PoppedOne
<1>3. Tidy(n) /\ HeldBut(n, {}, IF t.fn = "endlet" THEN {t.e} ELSE {})
  BY <1>1, HeldPop
<1>4. /\ \A u : (Writer(n, u) <=> Writer(m, u)) /\ Target(n, u) = Target(m, u)
      /\ \A u : Clear(n, u, nodes) <=> Clear(m, u, nodes)
      /\ \A x : (Blank(n, x) <=> Blank(m, x)) /\ (Settled(n, x) <=> Settled(m, x))
      /\ \A s, u : Clash(n, s, u) <=> Clash(m, s, u)
  BY <1>2 DEF Writer, Target, Clear, Blank, Settled, Clash
<1>5. ASSUME NEW d \in DOMAIN n.todo PROVE Ready(n, d)
  <2>1. Ready(m, d) /\ n.todo[d] = m.todo[d]
    BY <1>1, <1>2 DEF Once
  <2>2. \A c \in DOMAIN m.todo : Binder(m.todo[c]) => c \in DOMAIN n.todo /\ n.todo[c] = m.todo[c]
    BY <1>2
  <2> QED
    BY <1>2, <2>1, <2>2 DEF Ready
<1>6. Once(n, nodes)
  BY <1>1, <1>2, <1>4, <1>5 DEF Once
<1>7. Clear(m, t, nodes) /\ Ready(m, Top(m))
  BY <1>1, <1>2 DEF Once
<1>8. ~(\E c \in DOMAIN m.todo : c > Top(m))
  BY <1>2
<1>9. Definer(t) => NameOf(t) \in DOMAIN m.scopes[t.e].dict
  BY <1>2, <1>7, <1>8 DEF Ready
<1>10. Writer(m, t) => Blank(n, Target(m, t)) /\ Unclaimed(n, Target(m, t))
  <2>1. \A d \in DOMAIN n.todo : ~Clash(m, m.todo[d], t) /\ n.todo[d] = m.todo[d]
    BY <1>1, <1>2 DEF Once
  <2> QED
    BY <1>4, <1>7, <2>1 DEF Clear, Unclaimed, Clash
<1>11. t.fn = "gen" => Blank(n, t.x) /\ Unclaimed(n, t.x)
  BY <1>10 DEF Writer, Target
<1>12. Definer(t) => /\ NameOf(t) \in DOMAIN n.scopes[t.e].dict
                     /\ Blank(n, n.scopes[t.e].dict[NameOf(t)])
                     /\ Unclaimed(n, n.scopes[t.e].dict[NameOf(t)])
  BY <1>2, <1>9, <1>10 DEF Writer, Target, Definer
<1>13. (t.fn \in {"generate", "gen", "child"} => t.node \in nodes) /\ (t.fn = "child" => Settled(n, t.x))
  BY <1>4, <1>7 DEF Clear
<1>14. t.fn = "endlet" => t.e > Global
  BY <1>1, <1>2 DEF Tidy
<1> QED
  BY <1>3, <1>6, <1>11, <1>12, <1>13, <1>14 DEF Kept

\* A name is bound, for the first time; an expression to be generated is there now.
LEMMA KeptBind ==
  ASSUME NEW m, Calm(m), NEW nodes, Kept(m, {}, nodes), m.todo # <<>>,
         NEW t, t = Last(m.todo), Binder(t), t.e \in DOMAIN m.scopes, ~Freed(m, "scope", t.e),
         NameOf(t) \in Texts, NEW o, Plain(m, o), o.form \in FreshForms,
         NEW n, n = PutExpr(Pop(m), t.e, NameOf(t), o)
  PROVE  Kept(n, {}, nodes)
<1> DEFINE k == Pop(m)
           y == Newest(k) + 1
           name == NameOf(t)
<1>1. m \in Memory /\ Tidy(m) /\ Once(m, nodes) /\ HeldBut(m, {}, {}) /\ o \in Exprs /\ o.kids = <<>>
  BY DEF Calm, Good, Kept, Plain
<1>2. /\ k \in Memory /\ k.exprs = m.exprs /\ k.scopes = m.scopes /\ k.frees = m.frees
      /\ Top(m) \in DOMAIN m.todo /\ m.todo[Top(m)] = t
      /\ DOMAIN k.todo = DOMAIN m.todo \ {Top(m)}
      /\ \A d \in DOMAIN m.todo : d # Top(m) => k.todo[d] = m.todo[d]
  BY <1>1, PoppedOne
<1>3. Calm(k)
  BY CalmPop
<1>4. Tidy(k) /\ HeldBut(k, {}, {})
  BY <1>1, HeldPop DEF Binder
<1>5. n = PutExpr(k, t.e, name, o)
  OBVIOUS
<1> HIDE DEF k
<1>6. /\ n \in Memory
      /\ n.frees = k.frees /\ n.todo = k.todo
      /\ y \in Nat \ DOMAIN k.exprs
      /\ DOMAIN n.exprs = DOMAIN k.exprs \cup {y} /\ n.exprs[y] = o
      /\ \A z \in DOMAIN k.exprs : n.exprs[z] = k.exprs[z]
      /\ DOMAIN n.scopes = DOMAIN k.scopes
      /\ \A z \in DOMAIN k.scopes : z # t.e => n.scopes[z] = k.scopes[z]
      /\ n.scopes[t.e].upper = k.scopes[t.e].upper
      /\ DOMAIN n.scopes[t.e].dict = DOMAIN k.scopes[t.e].dict \cup {name}
      /\ n.scopes[t.e].dict[name] = y
      /\ \A q \in DOMAIN k.scopes[t.e].dict : q # name => n.scopes[t.e].dict[q] = k.scopes[t.e].dict[q]
  BY <1>1, <1>2, <1>5, PutExprMemory, SMTT(30)
<1>7. Clear(m, t, nodes) /\ name \notin DOMAIN m.scopes[t.e].dict
  BY <1>1, <1>2 DEF Once, Clear
<1>8. \A z \in DOMAIN k.exprs : z < y /\ z \in Nat
  BY <1>2, Domains
<1> HIDE DEF y, name
<1>9. /\ n.frees = m.frees /\ n.todo = k.todo /\ DOMAIN n.scopes = DOMAIN m.scopes
       /\ \A z \in DOMAIN m.scopes : z # t.e => n.scopes[z] = m.scopes[z]
  BY <1>2, <1>6
<1>10. ASSUME NEW s \in DOMAIN m.scopes, NEW q
       PROVE  /\ q \in DOMAIN n.scopes[s].dict <=> q \in DOMAIN m.scopes[s].dict \/ (s = t.e /\ q = name)
              /\ q \in DOMAIN m.scopes[s].dict => n.scopes[s].dict[q] = m.scopes[s].dict[q]
              /\ s = t.e /\ q = name => q \notin DOMAIN m.scopes[s].dict /\ n.scopes[s].dict[q] = y
  <2>1. CASE s = t.e
    BY <1>2, <1>6, <1>7, <2>1
  <2>2. CASE s # t.e
    BY <1>9, <2>2
  <2> QED
    BY <2>1, <2>2
<1>11. Keeps(k, n)
  BY <1>2, <1>6, <1>7 DEF Keeps
<1>12. Quiet(k) /\ Global \in DOMAIN k.scopes
  BY <1>3, Numbers DEF Calm
<1>13. \A z : HeldExpr(k, z) => HeldExpr(n, z)
  BY <1>11, <1>12, KeepsHeld
<1>14. \A z : HeldScope(k, z) => HeldScope(n, z)
  BY <1>11, <1>12, KeepsHeld
<1>15. HeldExpr(n, y)
  <2>1. KeyPlace(n, t.e, name)
    BY <1>2, <1>6, <1>12 DEF KeyPlace, Quiet
  <2> QED
    BY <1>2, <1>6, <2>1 DEF HeldExpr
<1>16. HeldBut(n, {}, {})
  BY <1>4, <1>6, <1>13, <1>14, <1>15 DEF HeldBut
<1>17. Tidy(n)
  <2>1. ASSUME NEW e \in DOMAIN n.scopes, Freed(n, "scope", e)
        PROVE  n.scopes[e].upper = 0 /\ DOMAIN n.scopes[e].dict = {}
    <3>1. e \in DOMAIN m.scopes /\ Freed(m, "scope", e)
      BY <1>9, <2>1 DEF Freed
    <3>2. e # t.e
      BY <3>1
    <3> QED
      BY <1>1, <1>9, <3>1, <3>2 DEF Tidy
  <2>2. \A d \in DOMAIN n.todo :
          (n.todo[d].fn = "core" => n.todo[d].next >= 1) /\ (n.todo[d].fn = "endlet" => n.todo[d].e > Global)
    BY <1>4, <1>9 DEF Tidy
  <2>3. ASSUME NEW x \in DOMAIN n.exprs, n.exprs[x].form = "LAMBDA"
        PROVE  /\ n.exprs[x].args > Global
               /\ \A q \in DOMAIN n.scopes[n.exprs[x].args].dict : n.scopes[n.exprs[x].args].dict[q] > x
    <3>1. n.exprs[y].form # "LAMBDA"
      BY <1>6 DEF Plain
    <3>2. x \in DOMAIN k.exprs /\ n.exprs[x] = k.exprs[x]
      BY <1>6, <2>3, <3>1
    <3>3. k.exprs[x].args > Global /\ \A q \in DOMAIN k.scopes[k.exprs[x].args].dict : k.scopes[k.exprs[x].args].dict[q] > x
      BY <1>4, <2>3, <3>2 DEF Tidy
    <3>4. k.exprs[x].args \in DOMAIN k.scopes
      BY <1>3, <2>3, <3>2 DEF Calm, Good, InOnePiece
    <3>5. ASSUME NEW q \in DOMAIN n.scopes[n.exprs[x].args].dict
          PROVE  n.scopes[n.exprs[x].args].dict[q] > x
      <4>1. CASE n.exprs[x].args = t.e /\ q = name
        BY <1>6, <1>8, <3>2, <4>1
      <4>2. CASE ~(n.exprs[x].args = t.e /\ q = name)
        <5>1. /\ q \in DOMAIN k.scopes[k.exprs[x].args].dict
              /\ n.scopes[n.exprs[x].args].dict[q] = k.scopes[k.exprs[x].args].dict[q]
          BY <1>2, <1>10, <3>2, <3>4, <3>5, <4>2
        <5> QED
          BY <3>3, <5>1
      <4> QED
        BY <4>1, <4>2
    <3> QED
      BY <3>2, <3>5, <3>3
  <2> QED
    BY <2>1, <2>3, <2>2 DEF Tidy
<1>18. \A d \in DOMAIN n.todo :
         d \in DOMAIN m.todo /\ d # Top(m) /\ n.todo[d] = m.todo[d] /\ ~Clash(m, m.todo[d], t)
  <2>1. \A c, d \in DOMAIN m.todo : c # d => ~Clash(m, m.todo[c], m.todo[d])
    BY <1>1 DEF Once
  <2>2. \A d \in DOMAIN n.todo : d \in DOMAIN m.todo /\ d # Top(m) /\ n.todo[d] = m.todo[d]
    BY <1>2, <1>6, ZenonT(30)
  <2> QED
    BY <1>2, <2>1, <2>2
<1>19. ASSUME NEW d \in DOMAIN n.todo, NEW u, u = n.todo[d], Binder(u) \/ Definer(u)
       PROVE  IF Same(u, t)
              THEN /\ NameOf(u) \notin DOMAIN m.scopes[u.e].dict
                   /\ NameOf(u) \in DOMAIN n.scopes[u.e].dict /\ n.scopes[u.e].dict[NameOf(u)] = y
              ELSE /\ NameOf(u) \in DOMAIN n.scopes[u.e].dict <=> NameOf(u) \in DOMAIN m.scopes[u.e].dict
                   /\ NameOf(u) \in DOMAIN m.scopes[u.e].dict =>
                        n.scopes[u.e].dict[NameOf(u)] = m.scopes[u.e].dict[NameOf(u)]
  <2>1. u.e \in DOMAIN m.scopes
    BY <1>2, <1>3, <1>6, <1>19 DEF Calm, Good, InOnePiece, Binder, Definer
  <2> QED
    BY <1>10, <2>1 DEF Same, name
<1>20. ASSUME NEW d \in DOMAIN n.todo, NEW u, u = n.todo[d]
       PROVE  /\ Writer(n, u) <=> Writer(m, u) \/ (Definer(u) /\ Same(u, t))
              /\ Writer(m, u) => Target(n, u) = Target(m, u) /\ ~(Definer(u) /\ Same(u, t)) /\ Target(n, u) # y
              /\ Definer(u) /\ Same(u, t) => Target(n, u) = y
  <2>1. Writer(m, u) => Target(m, u) # y
    <3>1. Clear(m, u, nodes)
      BY <1>1, <1>18, <1>20 DEF Once
    <3> QED
      BY <1>2, <1>6, <3>1 DEF Clear, Blank
  <2>2. CASE u.fn = "gen"
    BY <2>1, <2>2 DEF Writer, Target, Definer
  <2>3. CASE u.fn # "gen" /\ Definer(u)
    BY <1>19, <1>20, <2>1, <2>3 DEF Writer, Target
  <2>4. CASE u.fn # "gen" /\ ~Definer(u)
    BY <2>4 DEF Writer
  <2> QED
    BY <2>2, <2>3, <2>4
<1>21. \A z : (Blank(m, z) => Blank(n, z)) /\ (Settled(m, z) => Settled(n, z))
  <2>1. \A z \in DOMAIN m.exprs : z \in DOMAIN n.exprs /\ n.exprs[z] = m.exprs[z]
    BY <1>2, <1>6
  <2> QED
    BY <2>1 DEF Blank, Settled
<1>22. Blank(n, y)
  BY <1>1, <1>6 DEF Blank
<1>23. ASSUME NEW d \in DOMAIN n.todo PROVE Clear(n, n.todo[d], nodes)
  <2>1. Clear(m, n.todo[d], nodes)
    BY <1>1, <1>18 DEF Once
  <2>2. Binder(n.todo[d]) => ~Same(n.todo[d], t)
    BY <1>18 DEF Clash
  <2>3. Binder(n.todo[d]) => NameOf(n.todo[d]) \notin DOMAIN n.scopes[n.todo[d].e].dict
    BY <1>19, <2>1, <2>2 DEF Clear
  <2>4. Writer(n, n.todo[d]) => Blank(n, Target(n, n.todo[d]))
    BY <1>20, <1>21, <1>22, <2>1 DEF Clear
  <2> QED
    BY <1>21, <2>1, <2>3, <2>4 DEF Clear
<1>24. ASSUME NEW d \in DOMAIN n.todo PROVE Ready(n, d)
  <2> SUFFICES ASSUME Definer(n.todo[d]), ~Same(n.todo[d], t), NameOf(n.todo[d]) \notin DOMAIN m.scopes[n.todo[d].e].dict
               PROVE  \E c \in DOMAIN n.todo : c > d /\ Binder(n.todo[c]) /\ Same(n.todo[c], n.todo[d])
    BY <1>19 DEF Ready
  <2>1. Ready(m, d)
    BY <1>1, <1>18 DEF Once
  <2>2. PICK c \in DOMAIN m.todo : c > d /\ Binder(m.todo[c]) /\ Same(m.todo[c], n.todo[d])
    BY <1>18, <2>1 DEF Ready
  <2>3. c # Top(m)
    BY <1>2, <2>2 DEF Same
  <2> QED
    BY <1>2, <1>6, <2>2, <2>3
<1>25. ASSUME NEW c \in DOMAIN n.todo, NEW d \in DOMAIN n.todo, c # d
       PROVE  ~Clash(n, n.todo[c], n.todo[d])
  <2>1. ~Clash(m, n.todo[c], n.todo[d])
    BY <1>1, <1>18, <1>25 DEF Once
  <2>2. Definer(n.todo[c]) /\ Same(n.todo[c], t) => ~(Definer(n.todo[d]) /\ Same(n.todo[d], t))
    BY <2>1 DEF Clash, Same
  <2>3. Writer(n, n.todo[c]) /\ Writer(n, n.todo[d]) => Target(n, n.todo[c]) # Target(n, n.todo[d])
    BY <1>20, <2>1, <2>2 DEF Clash
  <2> QED
    BY <2>1, <2>3 DEF Clash
<1> QED
  BY <1>16, <1>17, <1>23, <1>24, <1>25 DEF Kept, Once

\* tasks that may be pushed: what they do has not been done and is done once
Fits(m, tasks, nodes) ==
  /\ \A i \in DOMAIN tasks : Clear(m, tasks[i], nodes)
  /\ \A i \in DOMAIN tasks : Definer(tasks[i]) =>
       \E j \in DOMAIN tasks : j < i /\ Binder(tasks[j]) /\ Same(tasks[j], tasks[i])
  /\ \A i, j \in DOMAIN tasks : i # j => ~Clash(m, tasks[i], tasks[j])
  /\ \A i \in DOMAIN tasks : \A d \in DOMAIN m.todo : ~Clash(m, m.todo[d], tasks[i])

\* Two tasks clash whichever is named first.
LEMMA ClashBoth ==
  ASSUME NEW m, NEW s, NEW t
  PROVE  Clash(m, s, t) <=> Clash(m, t, s)
BY DEF Clash, Same

\* The stack with tasks on it; one of them is the owner of a new scope.
LEMMA KeptPush ==
  ASSUME NEW m, Calm(m), NEW E, NEW nodes, Kept(m, E, nodes), NEW tasks, Pushable(m, tasks),
         Fits(m, tasks, nodes),
         \A i \in DOMAIN tasks : tasks[i].fn = "endlet" => tasks[i].e > Global,
         \A e \in E : \E i \in DOMAIN tasks : tasks[i].fn = "endlet" /\ tasks[i].e = e
  PROVE  Kept(Push(m, tasks), {}, nodes)
<1> DEFINE n == Push(m, tasks)
           l == Len(m.todo)
           r == Len(tasks)
<1>1. m \in Memory /\ Tidy(m) /\ Once(m, nodes) /\ HeldBut(m, {}, E) /\ tasks \in Seq(Tasks) /\ Quiet(m)
  BY DEF Calm, Good, Kept, Pushable
<1>2. /\ n.exprs = m.exprs /\ n.scopes = m.scopes /\ n.frees = m.frees
      /\ l \in Nat /\ r \in Nat
      /\ DOMAIN n.todo = 1..(l + r)
      /\ \A d \in 1..l : n.todo[d] = m.todo[d]
      /\ \A d \in (l + 1)..(l + r) : n.todo[d] = tasks[l + r + 1 - d] /\ l + r + 1 - d \in 1..r
  BY <1>1, Pushed
<1>3. DOMAIN m.todo = 1..l /\ DOMAIN tasks = 1..r
  <2>1. m.todo \in Seq(Tasks)
    BY <1>1 DEF Memory
  <2> QED
    BY <1>1, <2>1, LenProperties
<1> HIDE DEF n, l, r
<1>4. \A d \in DOMAIN n.todo :
        \/ d \in DOMAIN m.todo /\ n.todo[d] = m.todo[d]
        \/ d > l /\ l + r + 1 - d \in DOMAIN tasks /\ n.todo[d] = tasks[l + r + 1 - d]
  BY <1>2, <1>3
<1>5. \A i \in DOMAIN tasks : l + r + 1 - i \in DOMAIN n.todo /\ l + r + 1 - i > l /\ n.todo[l + r + 1 - i] = tasks[i]
  <2> TAKE i \in DOMAIN tasks
  <2>1. l + r + 1 - i \in (l + 1)..(l + r) /\ l + r + 1 - (l + r + 1 - i) = i
    BY <1>2, <1>3
  <2> QED
    BY <1>2, <2>1
<1>6. /\ \A u : (Writer(n, u) <=> Writer(m, u)) /\ Target(n, u) = Target(m, u)
      /\ \A x : (Blank(n, x) <=> Blank(m, x)) /\ (Settled(n, x) <=> Settled(m, x))
  BY <1>2 DEF Writer, Target, Blank, Settled
<1>7. /\ \A u : Clear(n, u, nodes) <=> Clear(m, u, nodes)
      /\ \A s, u : Clash(n, s, u) <=> Clash(m, s, u)
  BY <1>2, <1>6 DEF Clear, Clash
<1>8. ASSUME NEW d \in DOMAIN n.todo PROVE Clear(n, n.todo[d], nodes) /\ Ready(n, d)
  <2>1. CASE d \in DOMAIN m.todo /\ n.todo[d] = m.todo[d]
    <3>1. Clear(m, m.todo[d], nodes) /\ Ready(m, d)
      BY <1>1, <2>1 DEF Once
    <3>2. \A c \in DOMAIN m.todo : c \in DOMAIN n.todo /\ n.todo[c] = m.todo[c]
      BY <1>2, <1>3
    <3> QED
      BY <1>2, <1>7, <2>1, <3>1, <3>2 DEF Ready
  <2>2. CASE d > l /\ l + r + 1 - d \in DOMAIN tasks /\ n.todo[d] = tasks[l + r + 1 - d]
    <3> DEFINE i == l + r + 1 - d
    <3>1. Clear(n, n.todo[d], nodes)
      BY <1>7, <2>2 DEF Fits
    <3>2. i \in DOMAIN tasks /\ n.todo[d] = tasks[i] /\ d = l + r + 1 - i
      BY <1>2, <2>2
    <3>3. \A j \in DOMAIN tasks : j < i => l + r + 1 - j > d
      BY <1>2, <1>3
    <3> HIDE DEF i
    <3>4. Definer(tasks[i]) => \E j \in DOMAIN tasks : j < i /\ Binder(tasks[j]) /\ Same(tasks[j], tasks[i])
      BY <3>2 DEF Fits
    <3>5. Ready(n, d)
      BY <1>5, <3>2, <3>3, <3>4 DEF Ready
    <3> QED
      BY <3>1, <3>5
  <2> QED
    BY <1>4, <2>1, <2>2
<1>9. ASSUME NEW c \in DOMAIN n.todo, NEW d \in DOMAIN n.todo, c # d
      PROVE  ~Clash(n, n.todo[c], n.todo[d])
  <2>1. CASE c \in DOMAIN m.todo /\ n.todo[c] = m.todo[c] /\ d \in DOMAIN m.todo /\ n.todo[d] = m.todo[d]
    BY <1>1, <1>7, <1>9, <2>1 DEF Once
  <2>2. CASE c \in DOMAIN m.todo /\ n.todo[c] = m.todo[c]
             /\ l + r + 1 - d \in DOMAIN tasks /\ n.todo[d] = tasks[l + r + 1 - d]
    BY <1>7, <2>2 DEF Fits
  <2>3. CASE l + r + 1 - c \in DOMAIN tasks /\ n.todo[c] = tasks[l + r + 1 - c]
             /\ d \in DOMAIN m.todo /\ n.todo[d] = m.todo[d]
    <3>1. ~Clash(n, n.todo[d], n.todo[c])
      BY <1>7, <2>3 DEF Fits
    <3> QED
      BY <3>1, ClashBoth
  <2>4. CASE /\ l + r + 1 - c \in DOMAIN tasks /\ n.todo[c] = tasks[l + r + 1 - c]
             /\ l + r + 1 - d \in DOMAIN tasks /\ n.todo[d] = tasks[l + r + 1 - d]
    <3>1. l + r + 1 - c # l + r + 1 - d
      BY <1>2, <1>9
    <3> QED
      BY <1>7, <2>4, <3>1 DEF Fits
  <2> QED
    BY <1>4, <2>1, <2>2, <2>3, <2>4
<1>10. Once(n, nodes)
  BY <1>8, <1>9 DEF Once
<1>11. Tidy(n)
  <2>1. \A d \in DOMAIN n.todo :
          (n.todo[d].fn = "core" => n.todo[d].next >= 1) /\ (n.todo[d].fn = "endlet" => n.todo[d].e > Global)
    BY <1>1, <1>4 DEF Tidy, Pushable
  <2> QED
    BY <1>1, <1>2, <2>1 DEF Tidy, Freed
<1>12. Quiet(n)
  BY <1>1, <1>4 DEF Quiet, Pushable
<1>13. \A x : HeldExpr(m, x) => HeldExpr(n, x)
  <2>1. \A z, i : KidPlace(m, z, i) => KidPlace(n, z, i)
    BY <1>1, <1>2, <1>12 DEF KidPlace, Quiet, Freed
  <2>2. \A e, k : KeyPlace(m, e, k) => KeyPlace(n, e, k)
    BY <1>1, <1>2, <1>12 DEF KeyPlace, Quiet
  <2>3. \A d : ~CorePlace(m, d)
    BY <1>1 DEF CorePlace, Quiet
  <2> QED
    BY <1>2, <2>1, <2>2, <2>3 DEF HeldExpr, Freed
<1>14. \A e : HeldScope(m, e) => HeldScope(n, e)
  <2>1. \A d \in DOMAIN m.todo : EnvPlace(m, d) => d \in DOMAIN n.todo /\ EnvPlace(n, d) /\ n.todo[d].e = m.todo[d].e
    BY <1>2, <1>3 DEF EnvPlace
  <2>2. \A x : ArgsPlace(m, x) => ArgsPlace(n, x)
    BY <1>1, <1>2, <1>12 DEF ArgsPlace, Quiet, Freed
  <2> QED
    BY <1>2, <2>1, <2>2 DEF HeldScope, Freed, UpperPlace
<1>15. \A e \in E : HeldScope(n, e)
  <2>1. ASSUME NEW i \in DOMAIN tasks, tasks[i].fn = "endlet" PROVE HeldScope(n, tasks[i].e)
    <3>1. EnvPlace(n, l + r + 1 - i)
      BY <1>5, <2>1 DEF EnvPlace
    <3> QED
      BY <1>5, <3>1 DEF HeldScope
  <2> QED
    BY <2>1
<1>16. HeldBut(n, {}, {})
  BY <1>1, <1>2, <1>13, <1>14, <1>15 DEF HeldBut
<1> QED
  BY <1>10, <1>11, <1>16 DEF Kept, n

-----------------------------------------------------------------------------
(* What is pushed fits *)

\* nodes of which no scope binds a name twice
Simple(nodes) ==
  /\ nodes \subseteq Nodes /\ {n.kids : n \in nodes} \subseteq Seq(nodes)
  /\ \A n \in nodes :
       /\ n.rule = "LET" => BindOnce(Front(n.kids))
       /\ n.rule = "FN_DECL" => IsInjective(Tail(n.names))

\* The children of such a node, as far as coregen takes them one by one.
LEMMA SimpleKids ==
  ASSUME NEW nodes, Simple(nodes), NEW n \in nodes
  PROVE  /\ n \in Nodes /\ n.kids \in Seq(nodes)
         /\ n.rule \in {"LET", "NEG", "VAL_DECL", "FN_DECL", "OP_APPL"} => n.kids # <<>> /\ n.kids[1] \in nodes
         /\ n.rule = "OP_APPL" => n.kids[2] \in nodes
<1>1. n \in Nodes /\ n.kids \in Seq(nodes)
  BY DEF Simple
<1>2. n.rule \in {"LET", "NEG", "VAL_DECL", "FN_DECL", "OP_APPL"} => n.kids # <<>>
  BY <1>1, NodeFields
<1>3. n.rule = "OP_APPL" => Len(n.kids) >= 2
  BY <1>1, ProgramsAssumption
<1>4. \A s \in Seq(nodes) : (s # <<>> => s[1] \in nodes) /\ (Len(s) >= 2 => s[2] \in nodes)
  <2> TAKE s \in Seq(nodes)
  <2>1. Len(s) \in Nat /\ (s # <<>> => Len(s) # 0)
    BY LenProperties, EmptySeq
  <2> QED
    BY <2>1, ElementOfSeq
<1> QED
  BY <1>1, <1>2, <1>3, <1>4

\* No tasks.
LEMMA FitsNone ==
  ASSUME NEW m, NEW nodes
  PROVE  Fits(m, <<>>, nodes)
BY DEF Fits

\* One more task, which binds nothing.
LEMMA FitsMore ==
  ASSUME NEW m, NEW nodes, NEW tasks \in Seq(Tasks), Fits(m, tasks, nodes),
         NEW u \in Tasks, Clear(m, u, nodes), ~Definer(u),
         \A i \in DOMAIN tasks : ~Clash(m, tasks[i], u),
         \A d \in DOMAIN m.todo : ~Clash(m, m.todo[d], u)
  PROVE  Fits(m, Append(tasks, u), nodes)
<1> DEFINE q == Append(tasks, u)
           l == Len(tasks)
<1>1. /\ l \in Nat /\ DOMAIN tasks = 1..l /\ DOMAIN q = 1..(l + 1)
      /\ \A i \in 1..l : q[i] = tasks[i]
      /\ q[l + 1] = u
  BY Appended, LenProperties
<1> HIDE DEF q, l
<1>2. \A i \in DOMAIN q : (i \in DOMAIN tasks /\ q[i] = tasks[i]) \/ (i = l + 1 /\ q[i] = u)
  BY <1>1
<1>3. \A i \in DOMAIN tasks : i \in DOMAIN q /\ q[i] = tasks[i]
  BY <1>1
<1>4. \A i \in DOMAIN q : Clear(m, q[i], nodes)
  BY <1>2 DEF Fits
<1>5. ASSUME NEW i \in DOMAIN q, Definer(q[i])
      PROVE  \E j \in DOMAIN q : j < i /\ Binder(q[j]) /\ Same(q[j], q[i])
  <2>1. i \in DOMAIN tasks /\ q[i] = tasks[i]
    BY <1>2, <1>5
  <2>2. PICK j \in DOMAIN tasks : j < i /\ Binder(tasks[j]) /\ Same(tasks[j], tasks[i])
    BY <1>5, <2>1 DEF Fits
  <2> QED
    BY <1>3, <2>1, <2>2
<1>6. \A i, j \in DOMAIN q : i # j => ~Clash(m, q[i], q[j])
  <2> SUFFICES ASSUME NEW i \in DOMAIN q, NEW j \in DOMAIN q, i # j
               PROVE  ~Clash(m, q[i], q[j])
    OBVIOUS
  <2>1. CASE i \in DOMAIN tasks /\ q[i] = tasks[i] /\ j \in DOMAIN tasks /\ q[j] = tasks[j]
    BY <2>1 DEF Fits
  <2>2. CASE i \in DOMAIN tasks /\ q[i] = tasks[i] /\ q[j] = u
    BY <2>2
  <2>3. CASE q[i] = u /\ j \in DOMAIN tasks /\ q[j] = tasks[j]
    BY <2>3, ClashBoth
  <2> QED
    BY <1>2, <2>1, <2>2, <2>3
<1>7. \A i \in DOMAIN q : \A d \in DOMAIN m.todo : ~Clash(m, m.todo[d], q[i])
  BY <1>2 DEF Fits
<1> QED
  BY <1>4, <1>5, <1>6, <1>7 DEF Fits, q

\* A child of an expression that has its form; the end of a let.
LEMMA FitsChild ==
  ASSUME NEW m, NEW nodes, NEW tasks \in Seq(Tasks), Fits(m, tasks, nodes),
         NEW u \in Tasks, \/ u.fn = "child" /\ u.node \in nodes /\ Settled(m, u.x)
                          \/ u.fn = "endlet"
  PROVE  Fits(m, Append(tasks, u), nodes)
<1>1. ~Definer(u) /\ ~Binder(u) /\ ~Writer(m, u)
  BY DEF Definer, Binder, Writer
<1>2. Clear(m, u, nodes) /\ \A s : ~Clash(m, s, u)
  BY <1>1 DEF Clear, Clash
<1> QED
  BY <1>1, <1>2, FitsMore

\* An expression that nothing else will write.
LEMMA FitsGen ==
  ASSUME NEW m, NEW nodes, NEW tasks \in Seq(Tasks), Fits(m, tasks, nodes),
         \A i \in DOMAIN tasks : ~Writer(m, tasks[i]),
         NEW u \in Tasks, u.fn = "gen", u.node \in nodes, Blank(m, u.x), Unclaimed(m, u.x)
  PROVE  Fits(m, Append(tasks, u), nodes)
<1>1. ~Definer(u) /\ ~Binder(u) /\ Target(m, u) = u.x
  BY DEF Definer, Binder, Target
<1>2. Clear(m, u, nodes)
  BY <1>1 DEF Clear
<1>3. /\ \A i \in DOMAIN tasks : ~Clash(m, tasks[i], u)
      /\ \A d \in DOMAIN m.todo : ~Clash(m, m.todo[d], u)
  BY <1>1 DEF Clash, Unclaimed
<1> QED
  BY <1>1, <1>2, <1>3, FitsMore

\* The children of an expression.
LEMMA FitsChildren ==
  ASSUME NEW m, NEW nodes, Simple(nodes), NEW x, Settled(m, x), NEW node \in nodes, NEW e, NEW at
  PROVE  Fits(m, Children(x, node, e, at), nodes)
<1> DEFINE c == [i \in DOMAIN node.kids |-> Child(x, node.kids[i], e, Append(at, i))]
<1>1. Children(x, node, e, at) = c
  BY DEF Children
<1>2. \A i \in DOMAIN node.kids : node.kids[i] \in nodes
  <2>1. node.kids \in Seq(nodes)
    BY SimpleKids
  <2> QED
    BY <2>1, LenProperties, ElementOfSeq
<1>3. \A i \in DOMAIN c : c[i].fn = "child" /\ c[i].node \in nodes /\ c[i].x = x
  BY <1>2 DEF Child
<1> HIDE DEF c
<1>4. \A i \in DOMAIN c : ~Definer(c[i]) /\ ~Binder(c[i]) /\ ~Writer(m, c[i])
  BY <1>3 DEF Definer, Binder, Writer
<1> QED
  BY <1>1, <1>3, <1>4 DEF Fits, Clear, Clash

\* The parameters of a function.
LEMMA FitsParams ==
  ASSUME NEW m, NEW nodes, NEW a, Vacant(m, a), NEW f,
         \A i \in DOMAIN f : f[i].fn = "param" /\ f[i].e = a,
         \A i, j \in DOMAIN f : f[i].name = f[j].name => i = j
  PROVE  Fits(m, f, nodes) /\ \A i \in DOMAIN f : ~Writer(m, f[i])
<1>1. \A i \in DOMAIN f : ~Definer(f[i]) /\ ~Writer(m, f[i]) /\ NameOf(f[i]) = f[i].name
  BY DEF Definer, Writer, NameOf
<1>2. \A i \in DOMAIN f : Clear(m, f[i], nodes)
  BY <1>1 DEF Clear, Vacant
<1>3. \A i, j \in DOMAIN f : i # j => ~Clash(m, f[i], f[j])
  BY <1>1 DEF Clash, Same
<1>4. \A i \in DOMAIN f : \A d \in DOMAIN m.todo : ~Clash(m, m.todo[d], f[i])
  <2> SUFFICES ASSUME NEW i \in DOMAIN f, NEW d \in DOMAIN m.todo, Binder(m.todo[d]), Same(m.todo[d], f[i])
               PROVE  FALSE
    BY <1>1 DEF Clash
  <2> QED
    BY DEF Vacant, Same, Binder, Writing
<1> QED
  BY <1>1, <1>2, <1>3, <1>4 DEF Fits

\* The declarations of a scope in which there is nothing yet.
LEMMA FitsDeclare ==
  ASSUME NEW m, NEW nodes, nodes \subseteq Nodes, NEW decls \in Seq(nodes), BindOnce(decls),
         NEW e, Vacant(m, e), e \in Nat, NEW at \in Seq(Nat)
  PROVE  /\ Fits(m, Declare(decls, e, at), nodes)
         /\ \A i \in DOMAIN Declare(decls, e, at) : ~Writer(m, Declare(decls, e, at)[i])
<1> DEFINE p == [i \in DOMAIN decls |-> [fn |-> "populate", node |-> decls[i], e |-> e, at |-> Append(at, i)]]
           g == [i \in DOMAIN decls |-> [fn |-> "generate", node |-> decls[i], e |-> e, at |-> Append(at, i)]]
           l == Len(decls)
           q == Declare(decls, e, at)
<1>1. l \in Nat /\ DOMAIN decls = 1..l /\ \A i \in 1..l : decls[i] \in nodes /\ decls[i] \in Nodes
  BY LenProperties
<1> HIDE DEF l
<1>2. \A i \in 1..l : Append(at, i) \in Seq(Nat)
  BY Below
<1>3. p \in [1..l -> Generating]
      /\ \A i \in 1..l : p[i].fn = "populate" /\ p[i].node = decls[i] /\ p[i].e = e
  BY <1>1, <1>2 DEF Generating
<1>4. g \in [1..l -> Generating]
      /\ \A i \in 1..l : g[i].fn = "generate" /\ g[i].node = decls[i] /\ g[i].e = e
  BY <1>1, <1>2 DEF Generating
<1>5. q = p \o g
  BY DEF Declare
<1> HIDE DEF p, g, q
<1>6. p \in Seq(Generating) /\ g \in Seq(Generating)
  BY <1>1, <1>3, <1>4, SeqDef
<1>7. Len(p) = l /\ Len(g) = l
  BY <1>1, <1>3, <1>4, <1>6, LenProperties
<1>8. /\ q \in Seq(Generating) /\ Len(q) = l + l
      /\ \A i \in 1..(l + l) : q[i] = IF i <= l THEN p[i] ELSE g[i - l]
  <2>1. /\ p \o g \in Seq(Generating) /\ Len(p \o g) = Len(p) + Len(g)
        /\ \A i \in 1..(Len(p) + Len(g)) : (p \o g)[i] = IF i <= Len(p) THEN p[i] ELSE g[i - Len(p)]
    BY <1>6, ConcatProperties, ZenonT(20)
  <2> QED
    BY <1>5, <1>7, <2>1, ZenonT(20)
<1>9. DOMAIN q = 1..(l + l)
  BY <1>8, LenProperties
<1>10. ASSUME NEW i \in DOMAIN q
       PROVE  /\ q[i].e = e
              /\ \/ i \in 1..l /\ q[i].fn = "populate" /\ q[i].node = decls[i]
                 \/ i - l \in 1..l /\ i \in Nat /\ q[i].fn = "generate" /\ q[i].node = decls[i - l]
  <2>1. CASE i \in 1..l
    <3>1. q[i] = p[i]
      BY <1>1, <1>8, <1>9, <2>1
    <3> QED
      BY <1>3, <2>1, <3>1
  <2>2. CASE i \notin 1..l
    <3>1. q[i] = g[i - l] /\ i - l \in 1..l /\ i \in Nat
      BY <1>1, <1>8, <1>9, <2>2
    <3> QED
      BY <1>4, <3>1
  <2> QED
    BY <2>1, <2>2
<1>11. \A i \in 1..l : i \in DOMAIN q /\ q[i].fn = "populate" /\ q[i].node = decls[i]
  BY <1>1, <1>3, <1>8, <1>9
<1>12. \A i \in DOMAIN q : ~Writer(m, q[i])
  BY <1>10 DEF Writer, Vacant
<1>13. \A i \in DOMAIN q : Clear(m, q[i], nodes)
  <2> TAKE i \in DOMAIN q
  <2>1. q[i].node \in nodes /\ q[i].fn # "child"
    BY <1>1, <1>10
  <2> QED
    BY <1>10, <1>12, <2>1 DEF Clear, Vacant
<1>14. ASSUME NEW i \in DOMAIN q, Definer(q[i])
       PROVE  \E j \in DOMAIN q : j < i /\ Binder(q[j]) /\ Same(q[j], q[i])
  <2>1. i - l \in 1..l /\ i \in Nat /\ q[i].node = decls[i - l] /\ q[i].fn = "generate" /\ q[i].e = e
    BY <1>10, <1>14 DEF Definer
  <2>2. PICK j \in 1..l : j = i - l
    BY <2>1
  <2>3. j \in DOMAIN q /\ q[j].fn = "populate" /\ q[j].node = decls[j] /\ q[j].e = e
    BY <1>10, <1>11
  <2>4. j < i
    BY <1>1, <2>1, <2>2
  <2>5. Binder(q[j])
    BY <1>14, <2>1, <2>2, <2>3 DEF Definer, Binder
  <2>6. Same(q[j], q[i])
    BY <2>1, <2>2, <2>3 DEF Same, NameOf
  <2> QED
    BY <2>3, <2>4, <2>5, <2>6
<1>15. \A i, j \in DOMAIN q : i # j => ~Clash(m, q[i], q[j])
  <2> SUFFICES ASSUME NEW i \in DOMAIN q, NEW j \in DOMAIN q, i # j, Clash(m, q[i], q[j])
               PROVE  FALSE
    OBVIOUS
  <2>1. CASE Binder(q[i]) /\ Binder(q[j]) /\ Same(q[i], q[j])
    <3>1. /\ i \in 1..l /\ q[i].node = decls[i] /\ q[i].fn = "populate"
          /\ j \in 1..l /\ q[j].node = decls[j] /\ q[j].fn = "populate"
      BY <1>10, <2>1 DEF Binder
    <3> QED
      BY <1>1, <2>1, <3>1 DEF Binder, Same, NameOf, BindOnce
  <2>2. CASE Definer(q[i]) /\ Definer(q[j]) /\ Same(q[i], q[j])
    <3>1. /\ i - l \in 1..l /\ i \in Nat /\ q[i].node = decls[i - l] /\ q[i].fn = "generate"
          /\ j - l \in 1..l /\ j \in Nat /\ q[j].node = decls[j - l] /\ q[j].fn = "generate"
      BY <1>10, <2>2 DEF Definer
    <3>2. i - l = j - l
      BY <1>1, <2>2, <3>1 DEF Definer, Same, NameOf, BindOnce
    <3> QED
      BY <1>1, <3>1, <3>2
  <2> QED
    BY <1>12, <2>1, <2>2 DEF Clash
<1>16. \A i \in DOMAIN q : \A d \in DOMAIN m.todo : ~Clash(m, m.todo[d], q[i])
  <2> SUFFICES ASSUME NEW i \in DOMAIN q, NEW d \in DOMAIN m.todo,
                      Binder(m.todo[d]) \/ Definer(m.todo[d]), Same(m.todo[d], q[i])
               PROVE  FALSE
    BY <1>12 DEF Clash
  <2> QED
    BY <1>10 DEF Vacant, Same, Binder, Definer, Writing
<1> QED
  BY <1>12, <1>13, <1>14, <1>15, <1>16 DEF Fits, q

-----------------------------------------------------------------------------
(* The functions that generate *)

\* Tasks that generate are pushed.
LEMMA KeptPushGenerating ==
  ASSUME NEW m, Calm(m), NEW nodes, Kept(m, {}, nodes), NEW tasks, Generates(m, tasks), Fits(m, tasks, nodes)
  PROVE  Kept(Push(m, tasks), {}, nodes)
<1>1. Pushable(m, tasks)
  BY GeneratesPushable
<1>2. \A i \in DOMAIN tasks : tasks[i].fn # "endlet"
  BY DEF Generates
<1> QED
  BY <1>1, <1>2, KeptPush

\* One or two children of expressions that have their form.
LEMMA KeptPushChildren ==
  ASSUME NEW m, Calm(m), NEW nodes, Simple(nodes), Kept(m, {}, nodes),
         NEW x, Settled(m, x), NEW node \in nodes, NEW y, Settled(m, y), NEW other \in nodes,
         NEW e \in DOMAIN m.scopes, NEW at \in Seq(Nat), NEW bt \in Seq(Nat)
  PROVE  /\ Kept(Push(m, <<Child(x, node, e, at)>>), {}, nodes)
         /\ Kept(Push(m, <<Child(x, node, e, at), Child(y, other, e, bt)>>), {}, nodes)
<1> DEFINE s == Child(x, node, e, at)
           t == Child(y, other, e, bt)
<1>1. x \in DOMAIN m.exprs /\ y \in DOMAIN m.exprs /\ x \in Nat /\ y \in Nat /\ e \in Nat
  BY Numbers DEF Settled
<1>2. node \in Nodes /\ other \in Nodes
  BY DEF Simple
<1>3. Generates(m, <<s>>) /\ Generates(m, <<t>>)
  BY <1>1, <1>2, ChildTask
<1>4. /\ s.fn = "child" /\ s.node = node /\ s.x = x
      /\ t.fn = "child" /\ t.node = other /\ t.x = y
  BY DEF Child
<1> HIDE DEF s, t
<1>5. Generates(m, <<s, t>>)
  BY <1>3, TasksGenerate
<1>6. s \in Tasks /\ t \in Tasks
  <2>1. <<s>>[1] \in Tasks /\ <<t>>[1] \in Tasks
    BY <1>3 DEF Generates
  <2> QED
    BY <2>1
<1>7. <<>> \in Seq(Tasks) /\ Append(<<>>, s) = <<s>> /\ <<s>> \in Seq(Tasks) /\ Append(<<s>>, t) = <<s, t>>
  <2>1. ASSUME NEW b \in Tasks, NEW c \in Tasks
        PROVE  /\ <<>> \in Seq(Tasks)
               /\ Append(<<>>, b) = <<b>>
               /\ <<b>> \in Seq(Tasks)
               /\ Append(<<b>>, c) = <<b, c>>
    <3>1. <<>> \in Seq(Tasks)
      OBVIOUS
    <3>2. Append(<<>>, b) = <<b>>
      OBVIOUS
    <3>3. <<b>> \in Seq(Tasks)
      OBVIOUS
    <3>4. Append(<<b>>, c) = <<b, c>>
      <4>1. Len(Append(<<b>>, c)) = 2 /\ Append(<<b>>, c)[1] = b /\ Append(<<b>>, c)[2] = c
        BY <3>3, Appended
      <4>2. Append(<<b>>, c) \in Seq(Tasks) /\ <<b, c>> \in Seq(Tasks)
        BY <3>3, Appended
      <4>3. Len(<<b, c>>) = 2 /\ <<b, c>>[1] = b /\ <<b, c>>[2] = c
        OBVIOUS
      <4>4. \A i \in 1..2 : Append(<<b>>, c)[i] = <<b, c>>[i]
        BY <4>1, <4>3
      <4> QED
        BY <4>1, <4>2, <4>3, <4>4, SeqEqual
    <3> QED
      BY <3>1, <3>2, <3>3, <3>4
  <2> QED
    BY <1>6, <2>1
<1>8. Fits(m, <<s>>, nodes)
  BY <1>4, <1>6, <1>7, FitsNone, FitsChild
<1>9. Fits(m, <<s, t>>, nodes)
  BY <1>4, <1>6, <1>7, <1>8, FitsChild
<1>10. Kept(Push(m, <<s>>), {}, nodes)
  BY <1>3, <1>8, KeptPushGenerating
<1>11. Kept(Push(m, <<s, t>>), {}, nodes)
  BY <1>5, <1>9, KeptPushGenerating
<1> QED
  BY <1>10, <1>11 DEF s, t

\* the tasks for the parameters of a function
Params(decl, a, at) ==
  [i \in 1..(Len(decl.names) - 1) |->
     [fn |-> "param", e |-> a, name |-> decl.names[i + 1], at |-> at \o <<0, i + 1>>]]

\* The tasks for the parameters and the body of a function.
LEMMA LambdaTasks ==
  ASSUME NEW m, NEW x \in DOMAIN m.exprs, x \in Nat, NEW decl \in Nodes, decl.rule = "FN_DECL",
         NEW a \in DOMAIN m.scopes, a \in Nat, NEW at \in Seq(Nat),
         NEW params, params = Params(decl, a, at)
  PROVE  /\ Generates(m, params) /\ Generates(m, <<Child(x, decl.kids[1], a, Append(at, 1))>>)
         /\ Len(decl.names) - 1 \in Nat /\ DOMAIN params = 1..(Len(decl.names) - 1)
         /\ \A i \in DOMAIN params : params[i].fn = "param" /\ params[i].e = a /\ params[i].name = decl.names[i + 1]
<1> DEFINE l == Len(decl.names) - 1
<1>1. decl.names \in Seq(Texts) /\ decl.kids[1] \in Nodes
  BY NodeFields
<1>2. l \in Nat /\ \A i \in 1..l : decl.names[i + 1] \in Texts
  <2>1. Len(decl.names) >= 1
    BY ProgramsAssumption
  <2>2. ASSUME NEW s \in Seq(Texts), Len(s) >= 1
        PROVE  Len(s) - 1 \in Nat /\ \A i \in 1..(Len(s) - 1) : s[i + 1] \in Texts
    BY <2>2, LenProperties
  <2> QED
    BY <1>1, <2>1, <2>2
<1> HIDE DEF l
<1>3. params = [i \in 1..l |->
                  [fn |-> "param", e |-> a, name |-> decl.names[i + 1], at |-> at \o <<0, i + 1>>]]
  BY DEF l, Params
<1>4. \A i \in 1..l : at \o <<0, i + 1>> \in Seq(Nat)
  BY <1>2, Below
<1>5. params \in [1..l -> Generating] /\ DOMAIN params = 1..l
      /\ \A i \in 1..l : params[i].fn = "param" /\ params[i].e = a /\ params[i].name = decl.names[i + 1]
  BY <1>2, <1>3, <1>4 DEF Generating
<1>6. Listed(m, l, params)
  BY <1>2, <1>5 DEF Listed
<1>7. Append(at, 1) \in Seq(Nat)
  BY Below
<1>8. Generates(m, <<Child(x, decl.kids[1], a, Append(at, 1))>>)
  BY <1>1, <1>7, ChildTask
<1> QED
  BY <1>2, <1>5, <1>6, <1>8, GeneratesListed DEF l

\* The function coregen_generate_env, for a function.
LEMMA KeptGenLambda ==
  ASSUME NEW m, Calm(m), NEW nodes, Simple(nodes), Kept(m, {}, nodes),
         NEW x, Blank(m, x), Unclaimed(m, x), ~Freed(m, "expr", x),
         NEW decl \in nodes, decl.rule = "FN_DECL", NEW e \in DOMAIN m.scopes, NEW at \in Seq(Nat)
  PROVE  Kept(GenLambda(m, x, decl, e, at), {}, nodes)
<1> DEFINE a == NewestScope(m) + 1
           m1 == NewScope(m, e)
           m2 == Become(m1, x, "LAMBDA", decl.names[1], 0, a)
           params == Params(decl, a, at)
           body == Child(x, decl.kids[1], a, Append(at, 1))
<1>1. GenLambda(m, x, decl, e, at) = Push(m2, Append(params, body))
  BY DEF GenLambda, BodyScope, Params
<1>2. decl \in Nodes /\ decl.names \in Seq(Texts) /\ decl.names[1] \in Texts /\ decl.kids[1] \in nodes
  BY NodeFields, SimpleKids
<1>3. x \in DOMAIN m.exprs /\ x \in Nat
  BY Numbers DEF Blank
<1>4. /\ Calm(m1) /\ Unowned(m1, a) /\ m1.exprs = m.exprs
      /\ a \in DOMAIN m1.scopes /\ a \in Nat \ {0}
  BY CalmNewScope
<1>5. /\ Kept(m1, {a}, nodes) /\ Vacant(m1, a) /\ a > Global /\ m1.frees = m.frees /\ Unclaimed(m1, x)
  BY KeptNewScope, ZenonT(30)
<1> HIDE DEF a, m1
<1>6. Blank(m1, x) /\ ~Freed(m1, "expr", x)
  BY <1>4, <1>5 DEF Blank, Freed
<1>7. DOMAIN m1.scopes[a].dict = {} /\ a # 0
  BY <1>4, <1>5 DEF Vacant
<1>8. Calm(m2) /\ DOMAIN m2.exprs = DOMAIN m1.exprs /\ m2.scopes = m1.scopes
  BY <1>2, <1>3, <1>4, CalmBecome DEF Forms
<1>9. /\ Kept(m2, {a} \ {a}, nodes) /\ x \in DOMAIN m2.exprs /\ m2.exprs[x].form = "LAMBDA"
      /\ m2.todo = m1.todo
  <2> DEFINE name == decl.names[1]
             f == "LAMBDA"
             E == {a}
  <2>1. f \in Forms /\ 0 \in Nat /\ a \in Nat /\ Kept(m1, E, nodes)
    BY <1>4, <1>5 DEF Forms
  <2>2. name \in Texts /\ m2 = Become(m1, x, f, name, 0, a)
    BY <1>2
  <2>3. Calm(m1) /\ Blank(m1, x) /\ Unclaimed(m1, x)
    BY <1>4, <1>5, <1>6
  <2>4. Renewable(m1, E, nodes, x, f, name, 0, a)
    BY <1>5, <1>6, <1>7, <2>1, <2>2, <2>3 DEF Renewable
  <2> HIDE DEF name, f, E, m2
  <2>5. /\ Kept(m2, Still(E, f, a), nodes)
        /\ x \in DOMAIN m2.exprs /\ m2.exprs[x].form = f
        /\ m2.todo = m1.todo
    BY <2>2, <2>4, KeptBecome
  <2> QED
    BY <2>5 DEF f, E, Still
<1> HIDE DEF m2
<1>10. Kept(m2, {}, nodes) /\ Settled(m2, x) /\ Vacant(m2, a)
  <2>1. {a} \ {a} = {}
    OBVIOUS
  <2> QED
    BY <1>5, <1>8, <1>9, <2>1 DEF Settled, FreshForms, Vacant
<1>11. /\ Generates(m2, params) /\ Generates(m2, <<body>>)
       /\ Len(decl.names) - 1 \in Nat /\ DOMAIN params = 1..(Len(decl.names) - 1)
       /\ \A i \in DOMAIN params : params[i].fn = "param" /\ params[i].e = a /\ params[i].name = decl.names[i + 1]
  <2>1. a \in DOMAIN m2.scopes /\ a \in Nat /\ x \in DOMAIN m2.exprs
    BY <1>4, <1>8, <1>9
  <2> QED
    BY <1>2, <1>3, <2>1, LambdaTasks
<1>12. body.fn = "child" /\ body.x = x /\ body.node = decl.kids[1]
  BY DEF Child
<1> HIDE DEF params, body
<1>13. \A i, j \in DOMAIN params : params[i].name = params[j].name => i = j
  <2>1. IsInjective(Tail(decl.names))
    BY DEF Simple
  <2>2. ASSUME NEW s \in Seq(Texts), IsInjective(Tail(s)), Len(s) - 1 \in Nat,
               NEW i \in 1..(Len(s) - 1), NEW j \in 1..(Len(s) - 1), s[i + 1] = s[j + 1]
        PROVE  i = j
    <3>1. s # <<>>
      BY <2>2, LenProperties
    <3>2. Tail(s) \in Seq(Texts) /\ Len(Tail(s)) = Len(s) - 1
          /\ \A k \in 1..Len(Tail(s)) : Tail(s)[k] = s[k + 1]
      BY <3>1, HeadTailProperties
    <3>3. DOMAIN Tail(s) = 1..(Len(s) - 1)
      BY <3>2, LenProperties
    <3> QED
      BY <2>2, <3>2, <3>3 DEF IsInjective
  <2> QED
    BY <1>2, <1>11, <2>1, <2>2
<1>14. params \in Seq(Tasks) /\ body \in Tasks
  <2>1. <<body>>[1] \in Tasks
    BY <1>11 DEF Generates
  <2> QED
    BY <1>11, <2>1 DEF Generates
<1>15. Fits(m2, params, nodes)
  BY <1>10, <1>11, <1>13, FitsParams
<1>16. Fits(m2, Append(params, body), nodes)
  BY <1>2, <1>10, <1>12, <1>14, <1>15, FitsChild
<1>17. Generates(m2, Append(params, body))
  BY <1>11, AppendGenerates
<1> QED
  BY <1>1, <1>8, <1>10, <1>16, <1>17, KeptPushGenerating

\* coregen_generate_env.
LEMMA KeptGenerateEnv ==
  ASSUME NEW m, Calm(m), NEW nodes, Simple(nodes), Kept(m, {}, nodes),
         NEW t, t.fn = "generate", t.node \in nodes, t.e \in DOMAIN m.scopes, t.at \in Seq(Nat),
         Definer(t) => /\ NameOf(t) \in DOMAIN m.scopes[t.e].dict
                       /\ Blank(m, m.scopes[t.e].dict[NameOf(t)])
                       /\ Unclaimed(m, m.scopes[t.e].dict[NameOf(t)])
  PROVE  Kept(GenerateEnv(m, t), {}, nodes)
<1> DEFINE x == GetExpr(m, t.e, t.node.names[1])
<1>1. CASE ~IsBinding(t.node)
  BY <1>1 DEF GenerateEnv
<1>2. CASE IsBinding(t.node)
  <2>1. Definer(t) /\ NameOf(t) = t.node.names[1]
    BY <1>2 DEF Definer, NameOf
  <2>2. t.node \in Nodes /\ t.node.names[1] \in Texts /\ t.node.kids[1] \in nodes
    BY <1>2, SimpleKids, NodeFields DEF IsBinding
  <2>3. x = m.scopes[t.e].dict[t.node.names[1]]
    BY <2>1, GetExprNamed DEF Calm, Good
  <2>4. x = 0 \/ LiveExpr(m, x)
    BY <2>2, GetExprLive
  <2> HIDE DEF x
  <2>5. Blank(m, x) /\ Unclaimed(m, x)
    BY <2>1, <2>3
  <2>6. x # 0 /\ ~Freed(m, "expr", x) /\ x \in Nat
    BY <2>4, <2>5, Numbers DEF Blank, LiveExpr
  <2>7. CASE t.node.rule = "FN_DECL"
    <3>1. GenerateEnv(m, t) = GenLambda(m, x, t.node, t.e, t.at)
      BY <1>2, <2>6, <2>7 DEF GenerateEnv, Missing, x
    <3> QED
      BY <2>5, <2>6, <2>7, <3>1, KeptGenLambda
  <2>8. CASE t.node.rule # "FN_DECL"
    <3> DEFINE u == Gen(x, t.node.kids[1], t.e, Append(t.at, 1))
    <3>1. GenerateEnv(m, t) = Push(m, <<u>>)
      BY <1>2, <2>6, <2>8 DEF GenerateEnv, Missing, x
    <3>2. Generates(m, <<u>>)
      <4>1. Append(t.at, 1) \in Seq(Nat)
        BY Below
      <4>2. x \in DOMAIN m.exprs /\ t.node.kids[1] \in Nodes /\ t.e \in Nat
        BY <2>2, <2>5, Numbers DEF Blank, Simple
      <4> QED
        BY <2>6, <4>1, <4>2, ChildTask
    <3>3. u.fn = "gen" /\ u.node = t.node.kids[1] /\ u.x = x
      BY DEF Gen
    <3> HIDE DEF u
    <3>4. u \in Tasks
      <4>1. <<u>>[1] \in Tasks
        BY <3>2 DEF Generates
      <4> QED
        BY <4>1
    <3>5. <<>> \in Seq(Tasks) /\ Append(<<>>, u) = <<u>> /\ DOMAIN <<>> = {}
      OBVIOUS
    <3>6. Fits(m, <<u>>, nodes)
      BY <2>2, <2>5, <3>3, <3>4, <3>5, FitsNone, FitsGen
    <3> QED
      BY <3>1, <3>2, <3>6, KeptPushGenerating
  <2> QED
    BY <2>7, <2>8
<1> QED
  BY <1>1, <1>2

\* A let: its scope is held by the task that ends it.
LEMMA KeptGenLet ==
  ASSUME NEW m, Calm(m), NEW nodes, Simple(nodes), Kept(m, {}, nodes),
         NEW x, Blank(m, x), Unclaimed(m, x),
         NEW node \in nodes, node.rule = "LET", NEW e \in DOMAIN m.scopes, NEW at \in Seq(Nat)
  PROVE  Kept(GenLet(m, x, node, e, at), {}, nodes)
<1> DEFINE l == NewestScope(m) + 1
           m1 == NewScope(m, e)
           decls == Declare(Front(node.kids), l, at)
           body == Gen(x, Last(node.kids), l, Append(at, Len(node.kids)))
           end == [fn |-> "endlet", e |-> l]
           tasks == decls \o <<body, end>>
<1>1. GenLet(m, x, node, e, at) = Push(m1, tasks)
  BY DEF GenLet
<1>2. /\ Front(node.kids) \in Seq(nodes) /\ Last(node.kids) \in nodes /\ Len(node.kids) \in Nat
      /\ BindOnce(Front(node.kids))
  <2>1. node.kids \in Seq(nodes) /\ node.kids # <<>>
    BY SimpleKids
  <2>2. BindOnce(Front(node.kids))
    BY DEF Simple
  <2> QED
    BY <2>1, <2>2, Shortened
<1>3. /\ Calm(m1) /\ Unowned(m1, l) /\ m1.exprs = m.exprs /\ l \in DOMAIN m1.scopes
  BY CalmNewScope
<1>4. /\ Kept(m1, {l}, nodes) /\ Vacant(m1, l) /\ l > Global /\ l \in Nat /\ Unclaimed(m1, x)
  BY KeptNewScope
<1> HIDE DEF l, m1
<1>5. Blank(m1, x) /\ x \in DOMAIN m1.exprs /\ x \in Nat
  BY <1>3, Numbers DEF Blank
<1>6. nodes \subseteq Nodes
  BY DEF Simple
<1>7. Fits(m1, decls, nodes) /\ \A i \in DOMAIN decls : ~Writer(m1, decls[i])
  BY <1>2, <1>4, <1>6, FitsDeclare
<1>8. Generates(m1, decls)
  <2>1. Front(node.kids) \in Seq(Nodes)
    BY <1>2, <1>6
  <2> QED
    BY <1>3, <1>4, <2>1, DeclareGenerates
<1>9. Generates(m1, <<body>>)
  <2>1. Append(at, Len(node.kids)) \in Seq(Nat)
    BY <1>2, Below
  <2> QED
    BY <1>2, <1>3, <1>4, <1>5, <1>6, <2>1, ChildTask
<1>10. body.fn = "gen" /\ body.node = Last(node.kids) /\ body.x = x
  BY DEF Gen
<1>11. Pushable(m1, tasks)
  BY <1>3, <1>4, <1>8, <1>9, LetPushable
<1> HIDE DEF decls, body
<1>12. end \in Tasks /\ end.fn = "endlet" /\ end.e = l
  BY <1>4 DEF Tasks, Holding
<1> HIDE DEF end
<1>13. decls \in Seq(Tasks) /\ body \in Tasks
  <2>1. <<body>>[1] \in Tasks
    BY <1>9 DEF Generates
  <2> QED
    BY <1>8, <2>1 DEF Generates
<1>14. tasks = Append(Append(decls, body), end)
  BY <1>12, <1>13
<1> HIDE DEF tasks
<1>15. Fits(m1, Append(decls, body), nodes)
  BY <1>2, <1>4, <1>5, <1>7, <1>10, <1>13, FitsGen
<1>16. Append(decls, body) \in Seq(Tasks) /\ Generates(m1, Append(decls, body))
  BY <1>8, <1>9, <1>13, AppendGenerates
<1>17. Fits(m1, tasks, nodes)
  BY <1>12, <1>14, <1>15, <1>16, FitsChild
<1>18. /\ \A i \in DOMAIN tasks : tasks[i].fn = "endlet" => tasks[i].e = l
       /\ \E i \in DOMAIN tasks : tasks[i].fn = "endlet" /\ tasks[i].e = l
  <2>1. ASSUME NEW s \in Seq(Tasks), Generates(m1, s), NEW r, r = Append(s, end)
        PROVE  /\ \A i \in DOMAIN r : r[i].fn = "endlet" => r[i].e = l
               /\ \E i \in DOMAIN r : r[i].fn = "endlet" /\ r[i].e = l
    <3>1. /\ Len(s) \in Nat /\ DOMAIN s = 1..Len(s) /\ DOMAIN r = 1..(Len(s) + 1)
          /\ (\A i \in 1..Len(s) : r[i] = s[i]) /\ r[Len(s) + 1] = end
      BY <1>12, <2>1, Appended, LenProperties
    <3>2. \A i \in 1..Len(s) : r[i].fn # "endlet"
      BY <2>1, <3>1 DEF Generates
    <3>3. Len(s) + 1 \in DOMAIN r
      BY <3>1
    <3>4. \A i \in DOMAIN r : i \in 1..Len(s) \/ i = Len(s) + 1
      BY <3>1
    <3> QED
      BY <1>12, <3>1, <3>2, <3>3, <3>4
  <2> QED
    BY <1>14, <1>16, <2>1
<1>19. /\ \A i \in DOMAIN tasks : tasks[i].fn = "endlet" => tasks[i].e > Global
       /\ \A s \in {l} : \E i \in DOMAIN tasks : tasks[i].fn = "endlet" /\ tasks[i].e = s
  BY <1>4, <1>18
<1> QED
  BY <1>1, <1>3, <1>4, <1>11, <1>17, <1>19, KeptPush

\* An expression that is used anew and owns nothing.
LEMMA KeptIs ==
  ASSUME NEW m, Calm(m), NEW nodes, Kept(m, {}, nodes), NEW x, Blank(m, x), Unclaimed(m, x),
         NEW f \in Forms \ {"LAMBDA", "INDIR"}, NEW n, n = Become(m, x, f, NULL, 0, 0)
  PROVE  /\ Kept(n, {}, nodes) /\ x \in DOMAIN n.exprs /\ n.exprs[x].form = f /\ n.exprs[x].kids = <<>>
         /\ n.scopes = m.scopes /\ n.frees = m.frees /\ Unclaimed(n, x)
<1> DEFINE E == {}
<1>1. NULL \in Texts
  BY NullText
<1>2. Renewable(m, E, nodes, x, f, NULL, 0, 0)
  BY <1>1 DEF Renewable
<1>3. Still(E, f, 0) = {}
  BY DEF Still
<1> HIDE DEF E
<1>4. /\ Kept(n, Still(E, f, 0), nodes)
      /\ x \in DOMAIN n.exprs /\ n.exprs[x].form = f /\ n.exprs[x].kids = <<>>
      /\ n.scopes = m.scopes
      /\ \A y : Unclaimed(m, y) => Unclaimed(n, y)
  BY <1>2, KeptBecome
<1>5. n.frees = m.frees
  <2>1. m \in Memory /\ x \in DOMAIN m.exprs
    BY DEF Calm, Good, Blank
  <2> QED
    BY <2>1 DEF Become, Memory
<1> QED
  BY <1>3, <1>4, <1>5

\* What a new expression is, and one that points at another.
LEMMA PlainIndir ==
  ASSUME NEW m, Calm(m), NEW target \in DOMAIN m.exprs, NEW at \in Seq(Nat),
         NEW o, o = [Expr("INDIR", NULL, at) EXCEPT !.target = target]
  PROVE  Plain(m, o) /\ o.form = "INDIR"
<1>1. target \in Nat /\ target # 0
  BY Numbers
<1>2. /\ o.form = "INDIR" /\ o.name = NULL /\ o.kids = <<>> /\ o.target = target /\ o.args = 0
      /\ o.at = at
  BY DEF Expr
<1>3. o \in Exprs
  BY <1>1, NullText, EmptySeq DEF Expr, Exprs, Forms
<1> QED
  BY <1>1, <1>2, <1>3 DEF Plain

\* An operator applied to two operands.
LEMMA KeptGenOpAppl ==
  ASSUME NEW m, Calm(m), NEW nodes, Simple(nodes), Kept(m, {}, nodes),
         NEW x, Blank(m, x), Unclaimed(m, x), ~Freed(m, "expr", x),
         NEW node \in nodes, node.rule = "OP_APPL",
         NEW op \in DOMAIN m.exprs, NEW e \in DOMAIN m.scopes, NEW at \in Seq(Nat)
  PROVE  Kept(GenOpAppl(m, x, node, op, e, at), {}, nodes)
<1> DEFINE m0 == Become(m, x, "APPL", NULL, 0, 0)
           o == Expr("APPL", NULL, Append(at, 0))
           m1 == NewChild(m0, x, o)
           fn == Newest(m0) + 1
           i == [Expr("INDIR", NULL, Append(at, 0)) EXCEPT !.target = op]
           m2 == NewChild(m1, fn, i)
           left == Child(fn, node.kids[1], e, Append(at, 1))
           right == Child(x, node.kids[2], e, Append(at, 2))
<1>1. node.kids[1] \in nodes /\ node.kids[2] \in nodes
  BY SimpleKids
<1>2. Append(at, 0) \in Seq(Nat) /\ Append(at, 1) \in Seq(Nat) /\ Append(at, 2) \in Seq(Nat)
  BY Below
<1>3. x \in DOMAIN m.exprs
  BY DEF Blank
<1>4. Calm(m0) /\ DOMAIN m0.exprs = DOMAIN m.exprs /\ m0.scopes = m.scopes
  BY <1>3, CalmIs DEF Forms
<1>5. /\ Kept(m0, {}, nodes) /\ x \in DOMAIN m0.exprs /\ m0.exprs[x].form = "APPL"
      /\ m0.frees = m.frees
  BY KeptIs DEF Forms
<1>6. Plain(m0, o)
  BY <1>2, NullText, PlainExpr DEF Forms
<1>7. o.form = "APPL"
  BY DEF Expr
<1>8. Newest(m1) = fn
  <2>1. m0 \in Memory /\ o \in Exprs
    BY <1>4, <1>6 DEF Calm, Good, Plain
  <2> HIDE DEF m0, o
  <2>2. Len(m0.exprs) \in Nat /\ m0.exprs \in Seq(Exprs)
    BY <2>1, LenProperties DEF Memory
  <2>3. NewChild(m0, x, o) \in Memory /\ DOMAIN NewChild(m0, x, o).exprs = DOMAIN m0.exprs \cup {fn}
    BY <1>5, <2>1, NewChildMemory
  <2>4. DOMAIN m0.exprs = 1..Newest(m0) /\ DOMAIN m1.exprs = 1..Newest(m1) /\ Newest(m1) \in Nat
    BY <2>1, <2>3, LenProperties DEF Memory, Newest
  <2>5. ASSUME NEW k \in Nat, NEW l \in Nat, 1..k = (1..l) \cup {l + 1}
        PROVE  k = l + 1
    <3>1. l + 1 \in 1..k
      BY <2>5
    <3>2. k \in 1..k
      BY <3>1
    <3>3. k \in (1..l) \cup {l + 1}
      BY <2>5, <3>2
    <3> QED
      BY <3>1, <3>3
  <2> HIDE DEF m1
  <2>6. 1..Newest(m1) = (1..Newest(m0)) \cup {Newest(m0) + 1}
    BY <2>3, <2>4 DEF m1
  <2> QED
    BY <2>2, <2>4, <2>5, <2>6 DEF Newest
<1>9. GenOpAppl(m, x, node, op, e, at) = Push(m2, <<left, right>>)
  BY <1>8 DEF GenOpAppl, IndirChild
<1> HIDE DEF m0, o
<1>10. Settled(m0, x) /\ ~Freed(m0, "expr", x)
  BY <1>5 DEF Settled, FreshForms, Freed
<1>11. Calm(m1)
  BY <1>4, <1>5, <1>6, CalmNewChild
<1>12. /\ Kept(m1, {}, nodes) /\ Settled(m1, x)
       /\ fn \in DOMAIN m1.exprs /\ m1.exprs[fn] = o /\ ~Freed(m1, "expr", fn)
       /\ m1.scopes = m0.scopes
  BY <1>4, <1>5, <1>6, <1>10, KeptNewChild
<1>13. DOMAIN m1.exprs = DOMAIN m.exprs \cup {fn}
  BY <1>4, <1>5, <1>6, CalmNewChild
<1> HIDE DEF m1, fn
<1>14. Settled(m1, fn)
  BY <1>7, <1>12 DEF Settled, FreshForms
<1>15. Plain(m1, i)
  BY <1>2, <1>11, <1>13, PlainIndir
<1> HIDE DEF i
<1>16. Calm(m2)
  BY <1>11, <1>12, <1>15, CalmNewChild
<1>17. Kept(m2, {}, nodes) /\ Settled(m2, x) /\ Settled(m2, fn) /\ m2.scopes = m1.scopes
  BY <1>11, <1>12, <1>14, <1>15, KeptNewChild
<1> HIDE DEF m2
<1>18. e \in DOMAIN m2.scopes
  BY <1>4, <1>12, <1>17
<1>19. Kept(Push(m2, <<left, right>>), {}, nodes)
  BY <1>1, <1>2, <1>16, <1>17, <1>18, KeptPushChildren
<1> QED
  BY <1>9, <1>19

\* A negation.
LEMMA KeptGenNeg ==
  ASSUME NEW m, Calm(m), NEW nodes, Simple(nodes), Kept(m, {}, nodes),
         NEW x, Blank(m, x), Unclaimed(m, x), ~Freed(m, "expr", x),
         NEW node \in nodes, node.rule = "NEG", NEW e \in DOMAIN m.scopes, NEW at \in Seq(Nat)
  PROVE  Kept(GenNeg(m, x, node, e, at), {}, nodes)
<1> DEFINE m0 == Become(m, x, "APPL", NULL, 0, 0)
           o == Expr("INTRINSIC", NULL, Append(at, 0))
           m1 == NewChild(m0, x, o)
           operand == Child(x, node.kids[1], e, Append(at, 1))
<1>1. GenNeg(m, x, node, e, at) = Push(m1, <<operand>>)
  BY DEF GenNeg
<1>2. node.kids[1] \in nodes
  BY SimpleKids
<1>3. Append(at, 0) \in Seq(Nat) /\ Append(at, 1) \in Seq(Nat)
  BY Below
<1>4. x \in DOMAIN m.exprs
  BY DEF Blank
<1>5. Calm(m0) /\ m0.scopes = m.scopes
  BY <1>4, CalmIs DEF Forms
<1>6. /\ Kept(m0, {}, nodes) /\ x \in DOMAIN m0.exprs /\ m0.exprs[x].form = "APPL"
      /\ m0.frees = m.frees
  BY KeptIs DEF Forms
<1>7. Plain(m0, o)
  BY <1>3, NullText, PlainExpr DEF Forms
<1> HIDE DEF m0, o
<1>8. Settled(m0, x) /\ ~Freed(m0, "expr", x)
  BY <1>6 DEF Settled, FreshForms, Freed
<1>9. Calm(m1)
  BY <1>5, <1>6, <1>7, CalmNewChild
<1>10. Kept(m1, {}, nodes) /\ Settled(m1, x) /\ m1.scopes = m0.scopes
  <2> DEFINE y == Newest(m0) + 1
  <2> HIDE DEF y
  <2> QED
    BY <1>5, <1>7, <1>6, <1>8, KeptNewChild
<1> HIDE DEF m1
<1>11. e \in DOMAIN m1.scopes
  BY <1>5, <1>10
<1>12. Kept(Push(m1, <<operand>>), {}, nodes)
  BY <1>2, <1>3, <1>9, <1>10, <1>11, KeptPushChildren
<1> QED
  BY <1>1, <1>12

\* coregen_from_ast
LEMMA KeptFromAst ==
  ASSUME NEW m, Calm(m), NEW nodes, Simple(nodes), Kept(m, {}, nodes),
         NEW x, Blank(m, x), Unclaimed(m, x), ~Freed(m, "expr", x),
         NEW node \in nodes, NEW e \in DOMAIN m.scopes, NEW at \in Seq(Nat)
  PROVE  Kept(FromAst(m, x, node, e, at), {}, nodes)
<1> DEFINE n == FromAst(m, x, node, e, at)
           target == GetExpr(m, e, node.names[1])
<1>1. target \in DOMAIN m.exprs \cup {0}
  BY GetExprFound DEF Calm, Good
<1>2. x \in DOMAIN m.exprs /\ Kept(Fail(m), {}, nodes)
  BY KeptFail DEF Blank
<1>3. ASSUME NEW f \in {"CONSTRUCTOR", "LITERAL", "NO_FORM", "APPL", "COND"}, NEW m0, m0 = Become(m, x, f, NULL, 0, 0)
      PROVE  /\ f \in Forms \ {"LAMBDA", "INDIR"}
             /\ Calm(m0) /\ DOMAIN m0.exprs = DOMAIN m.exprs /\ m0.scopes = m.scopes
             /\ Kept(m0, {}, nodes) /\ x \in DOMAIN m0.exprs /\ m0.exprs[x].form = f /\ m0.exprs[x].kids = <<>>
             /\ m0.scopes = m.scopes /\ m0.frees = m.frees /\ Unclaimed(m0, x)
  <2>1. f \in Forms \ {"LAMBDA", "INDIR"}
    BY <1>3 DEF Forms
  <2>2. Calm(m0) /\ DOMAIN m0.exprs = DOMAIN m.exprs /\ m0.scopes = m.scopes
    BY <1>2, <1>3, <2>1, CalmIs
  <2> QED
    BY <1>3, <2>1, <2>2, KeptIs
<1>4. CASE node.rule \in {"CON", "INT", "DO"}
  <2>1. \E f \in {"CONSTRUCTOR", "LITERAL", "NO_FORM"} : n = Become(m, x, f, NULL, 0, 0)
    BY <1>4 DEF FromAst
  <2> HIDE DEF n
  <2>2. Kept(n, {}, nodes)
    BY <1>3, <2>1
  <2> QED
    BY <2>2 DEF n
<1>5. CASE node.rule \in {"FN_APPL", "IF"}
  <2>1. \E f \in {"APPL", "COND"} : n = Push(Become(m, x, f, NULL, 0, 0), Children(x, node, e, at))
    BY <1>5 DEF FromAst
  <2>2. PICK f \in {"APPL", "COND"} : n = Push(Become(m, x, f, NULL, 0, 0), Children(x, node, e, at))
    BY <2>1
  <2> DEFINE m0 == Become(m, x, f, NULL, 0, 0)
  <2>3. /\ Calm(m0) /\ Kept(m0, {}, nodes) /\ x \in DOMAIN m0.exprs /\ m0.exprs[x].form = f
        /\ m0.scopes = m.scopes
    BY <1>3
  <2>4. n = Push(m0, Children(x, node, e, at))
    BY <2>2
  <2> HIDE DEF n, m0
  <2>5. Settled(m0, x)
    BY <2>2, <2>3 DEF Settled, FreshForms
  <2>6. Fits(m0, Children(x, node, e, at), nodes)
    BY <2>5, FitsChildren
  <2>7. x \in Nat /\ e \in Nat /\ node \in Nodes /\ e \in DOMAIN m0.scopes
    BY <1>2, <2>3, Numbers DEF Simple
  <2>8. Generates(m0, Children(x, node, e, at))
    BY <2>3, <2>7, ChildrenGenerates
  <2>9. Kept(n, {}, nodes)
    BY <2>3, <2>4, <2>6, <2>8, KeptPushGenerating
  <2> QED
    BY <2>9 DEF n
<1>6. CASE node.rule = "VAR" /\ target # 0
  <2> DEFINE f == "INDIR"
             E == {}
             a == 0
             name == NULL
  <2>1. n = Become(m, x, f, name, target, a)
    BY <1>6 DEF FromAst, Missing
  <2> HIDE DEF n, target
  <2>2. target \in Nat /\ NULL \in Texts
    BY <1>1, Numbers, NullText
  <2>3. Renewable(m, E, nodes, x, f, name, target, a)
    BY <2>2 DEF Renewable, Forms
  <2>4. Still(E, f, a) = {}
    BY DEF Still
  <2> HIDE DEF E, f, a, name
  <2>5. Kept(n, Still(E, f, a), nodes)
    BY <2>1, <2>3, KeptBecome
  <2> QED
    BY <2>4, <2>5 DEF n
<1>7. CASE node.rule = "OP_APPL" /\ target # 0
  <2>1. n = GenOpAppl(m, x, node, target, e, at)
    BY <1>7 DEF FromAst, Missing
  <2> HIDE DEF n, target
  <2>2. Kept(n, {}, nodes)
    BY <1>1, <1>7, <2>1, KeptGenOpAppl
  <2> QED
    BY <2>2 DEF n
<1>8. CASE node.rule \in {"VAR", "OP_APPL"} /\ target = 0
  <2>1. n = Fail(m)
    BY <1>8 DEF FromAst, Missing
  <2> QED
    BY <1>2, <2>1
<1>9. CASE node.rule = "LET"
  <2> DEFINE m0 == Become(m, x, "NO_FORM", NULL, 0, 0)
  <2>1. n = GenLet(m0, x, node, e, at)
    BY <1>9 DEF FromAst
  <2>2. /\ Calm(m0) /\ Kept(m0, {}, nodes) /\ x \in DOMAIN m0.exprs /\ m0.exprs[x].form = "NO_FORM"
        /\ m0.exprs[x].kids = <<>> /\ m0.scopes = m.scopes /\ Unclaimed(m0, x)
    BY <1>3
  <2> HIDE DEF n, m0
  <2>3. Blank(m0, x)
    BY <2>2 DEF Blank, FreshForms
  <2>4. Kept(n, {}, nodes)
    BY <1>9, <2>1, <2>2, <2>3, KeptGenLet
  <2> QED
    BY <2>4 DEF n
<1>10. CASE node.rule = "NEG"
  <2>1. n = GenNeg(m, x, node, e, at)
    BY <1>10 DEF FromAst
  <2> QED
    BY <1>10, <2>1, KeptGenNeg
<1>11. CASE node.rule \notin {"CON", "INT", "DO", "FN_APPL", "IF", "VAR", "OP_APPL", "LET", "NEG"}
  <2>1. n = Fail(m)
    BY <1>11 DEF FromAst
  <2> QED
    BY <1>2, <2>1
<1> QED
  BY <1>4, <1>5, <1>6, <1>7, <1>8, <1>9, <1>10, <1>11

\* coregen_from_ast into a new expression below x
LEMMA KeptFromAstChild ==
  ASSUME NEW m, Calm(m), NEW nodes, Simple(nodes), Kept(m, {}, nodes),
         NEW t, Settled(m, t.x), ~Freed(m, "expr", t.x), t.node \in nodes,
         t.e \in DOMAIN m.scopes, t.at \in Seq(Nat)
  PROVE  Kept(FromAstChild(m, t), {}, nodes)
<1> DEFINE o == Expr("UNSET", NULL, t.at)
           y == Newest(m) + 1
           x == t.x
           m1 == NewChild(m, x, o)
<1>1. FromAstChild(m, t) = FromAst(m1, y, t.node, t.e, t.at)
  BY DEF FromAstChild
<1>2. Plain(m, o)
  BY NullText, PlainExpr DEF Forms
<1>3. o.form = "UNSET" /\ o.kids = <<>>
  BY DEF Expr
<1>4. Settled(m, x) /\ ~Freed(m, "expr", x) /\ x \in DOMAIN m.exprs
  BY DEF Settled
<1> HIDE DEF o, y, x
<1>5. Calm(m1)
  BY <1>2, <1>4, CalmNewChild
<1>6. /\ Kept(m1, {}, nodes) /\ Unclaimed(m1, y)
      /\ y \in DOMAIN m1.exprs /\ m1.exprs[y] = o /\ ~Freed(m1, "expr", y)
      /\ m1.scopes = m.scopes
  BY <1>2, <1>4, KeptNewChild DEF y
<1> HIDE DEF m1
<1>7. Blank(m1, y)
  BY <1>3, <1>6 DEF Blank, FreshForms
<1>8. t.e \in DOMAIN m1.scopes
  BY <1>6
<1> QED
  BY <1>1, <1>5, <1>6, <1>7, <1>8, KeptFromAst

\* The tasks that generate.
LEMMA KeptWrites ==
  ASSUME NEW m, Good(m), Safe(m), NEW nodes, Simple(nodes), Kept(m, {}, nodes),
         m.todo # <<>>, NEW t, t = Last(m.todo), t.fn \in Writing
  PROVE  Kept(Step(m), {}, nodes)
<1> DEFINE k == Pop(m)
<1>1. m \in Memory /\ t \in Tasks
  BY Popped DEF Good
<1>2. Calm(m)
  BY GoodQuiet DEF Writing
<1>3. Calm(k) /\ k.scopes = m.scopes /\ k.frees = m.frees
  BY <1>1, <1>2, CalmPop, Popped
<1>4. Live(k, t)
  BY <1>1, SafePop
<1>5. t.fn # "client" /\ t.fn # "endlet"
  BY DEF Writing
<1>6. ~Binder(t) => Kept(k, {}, nodes)
  <2>1. \A E : E = (IF t.fn = "endlet" THEN {t.e} ELSE {}) => E = {}
    BY <1>5
  <2> HIDE DEF k
  <2>2. ~Binder(t) => Kept(k, IF t.fn = "endlet" THEN {t.e} ELSE {}, nodes)
    BY <1>2, <1>5, KeptPop DEF k
  <2> QED
    BY <2>1, <2>2
<1>7. /\ t.fn \in {"generate", "gen", "child"} => t.node \in nodes
      /\ t.fn = "gen" => Blank(k, t.x) /\ Unclaimed(k, t.x)
      /\ Definer(t) => /\ NameOf(t) \in DOMAIN k.scopes[t.e].dict
                       /\ Blank(k, k.scopes[t.e].dict[NameOf(t)])
                       /\ Unclaimed(k, k.scopes[t.e].dict[NameOf(t)])
      /\ t.fn = "child" => Settled(k, t.x)
  <2>1. t.fn \in {"generate", "gen", "child"} \/ Definer(t) => ~Binder(t)
    BY DEF Binder, Definer
  <2> HIDE DEF k
  <2> QED
    BY <1>2, <1>5, <2>1, KeptPop DEF k
<1>8. /\ t.fn # "param" => t.node \in Nodes
      /\ t.fn = "param" => t.name \in Texts
      /\ t.at \in Seq(Nat)
  BY <1>1 DEF Tasks, Holding, Destroying, Generating, Writing
<1>9. LiveScope(k, t.e) /\ t.e \in DOMAIN k.scopes /\ t.e \in DOMAIN m.scopes /\ ~Freed(m, "scope", t.e)
  BY <1>3, <1>4 DEF Live, LiveScope, Freed
<1>10. t.fn \in {"gen", "child"} => LiveExpr(k, t.x)
  BY <1>4 DEF Live
<1> HIDE DEF k
<1>11. CASE t.fn = "populate"
  <2>1. Step(m) = PopulateEnv(k, t)
    BY <1>11 DEF Step, k
  <2>2. CASE IsBinding(t.node)
    <3> DEFINE o == Expr("UNSET", t.node.names[1], t.at)
    <3>1. Binder(t) /\ NameOf(t) = t.node.names[1]
      BY <1>11, <2>2 DEF Binder, NameOf
    <3>2. t.node.names[1] \in Texts
      BY <1>8, <1>11, <2>2, NodeFields DEF IsBinding
    <3>3. Plain(m, o)
      BY <1>8, <3>2, PlainExpr DEF Forms
    <3>4. o.form \in FreshForms
      BY DEF Expr, FreshForms
    <3>5. Step(m) = PutExpr(Pop(m), t.e, NameOf(t), o)
      BY <2>1, <2>2, <3>1 DEF PopulateEnv, k
    <3> HIDE DEF o
    <3> QED
      BY <1>2, <1>9, <3>1, <3>2, <3>3, <3>4, <3>5, KeptBind
  <2>3. CASE ~IsBinding(t.node)
    BY <1>6, <1>11, <2>1, <2>3 DEF PopulateEnv, Binder
  <2> QED
    BY <2>2, <2>3
<1>12. CASE t.fn = "param"
  <2> DEFINE o == Expr("PLACEHOLDER", t.name, t.at)
  <2>1. Binder(t) /\ NameOf(t) = t.name
    BY <1>12 DEF Binder, NameOf
  <2>2. Plain(m, o)
    BY <1>8, <1>12, PlainExpr DEF Forms
  <2>3. o.form \in FreshForms
    BY DEF Expr, FreshForms
  <2>4. Step(m) = PutExpr(Pop(m), t.e, NameOf(t), o)
    BY <1>12, <2>1 DEF Step, PutParam
  <2>5. NameOf(t) \in Texts
    BY <1>8, <1>12, <2>1
  <2> HIDE DEF o
  <2> QED
    BY <1>2, <1>9, <2>1, <2>2, <2>3, <2>4, <2>5, KeptBind
<1>13. CASE t.fn = "generate"
  <2>1. Step(m) = GenerateEnv(k, t)
    BY <1>13 DEF Step, k
  <2>2. Kept(k, {}, nodes) /\ t.node \in nodes
    BY <1>6, <1>7, <1>13 DEF Binder
  <2> QED
    BY <1>3, <1>7, <1>8, <1>9, <1>13, <2>1, <2>2, KeptGenerateEnv
<1>14. CASE t.fn = "gen"
  <2>1. Step(m) = FromAst(k, t.x, t.node, t.e, t.at)
    BY <1>14 DEF Step, k
  <2>2. Kept(k, {}, nodes) /\ t.node \in nodes
    BY <1>6, <1>7, <1>14 DEF Binder
  <2>3. Blank(k, t.x) /\ Unclaimed(k, t.x) /\ ~Freed(k, "expr", t.x)
    BY <1>7, <1>10, <1>14 DEF LiveExpr
  <2> QED
    BY <1>3, <1>8, <1>9, <2>1, <2>2, <2>3, KeptFromAst
<1>15. CASE t.fn = "child"
  <2>1. Step(m) = FromAstChild(k, t)
    BY <1>15 DEF Step, k
  <2>2. Kept(k, {}, nodes) /\ t.node \in nodes
    BY <1>6, <1>7, <1>15 DEF Binder
  <2>3. Settled(k, t.x) /\ ~Freed(k, "expr", t.x)
    BY <1>7, <1>10, <1>15 DEF LiveExpr
  <2> QED
    BY <1>3, <1>8, <1>9, <2>1, <2>2, <2>3, KeptFromAstChild
<1> QED
  BY <1>11, <1>12, <1>13, <1>14, <1>15 DEF Writing

-----------------------------------------------------------------------------
(* How it begins *)

\* env has the intrinsics above it, and intrinsics_env has every expression.
LEMMA LoadedParts ==
  /\ Calm(Loaded) /\ Loaded.todo = <<Client>> /\ DOMAIN Loaded.todo = {1} /\ Loaded.todo[1] = Client
  /\ DOMAIN Loaded.exprs = DOMAIN Intrinsics /\ \A i \in DOMAIN Intrinsics : Loaded.exprs[i].form = "INTRINSIC"
  /\ DOMAIN Loaded.scopes = 1..2 /\ Loaded.scopes[2].upper = 1 /\ DOMAIN Loaded.scopes[2].dict = {}
  /\ \A i \in DOMAIN Intrinsics : \E n \in DOMAIN Loaded.scopes[1].dict : Loaded.scopes[1].dict[n] = i
  /\ \A x : ~Freed(Loaded, "expr", x) /\ ~Freed(Loaded, "scope", x)
<1> DEFINE I == Intrinsics
           dict == [n \in ToSet(I) |-> CHOOSE i \in DOMAIN I : I[i] = n]
           exprs == [i \in DOMAIN I |-> Expr("INTRINSIC", I[i], <<0, i>>)]
           first == [upper |-> 0, dict |-> dict]
           second == Scope(Intrinsic)
           scopes == <<first, second>>
<1>1. Loaded = [exprs |-> exprs, scopes |-> scopes, frees |-> <<>>, todo |-> <<Client>>, failed |-> FALSE]
  BY DEF Loaded
<1>2. DOMAIN exprs = DOMAIN I /\ \A i \in DOMAIN I : exprs[i].form = "INTRINSIC"
  BY DEF Expr
<1>3. DOMAIN dict = ToSet(I) /\ \A i \in DOMAIN I : I[i] \in ToSet(I) /\ dict[I[i]] = i
  BY IntrinsicsAssumption DEF ToSet, IsInjective
<1>4. DOMAIN scopes = 1..2 /\ scopes[1].dict = dict /\ scopes[2].upper = 1 /\ DOMAIN scopes[2].dict = {}
  <2>1. first.dict = dict
    OBVIOUS
  <2>2. second.upper = 1 /\ DOMAIN second.dict = {}
    BY DEF Scope, Intrinsic
  <2> HIDE DEF first, second, dict
  <2>3. DOMAIN scopes = 1..2 /\ scopes[1] = first /\ scopes[2] = second
    OBVIOUS
  <2> QED
    BY <2>1, <2>2, <2>3
<1> HIDE DEF exprs, dict, scopes
<1>5. Loaded.exprs = exprs /\ Loaded.scopes = scopes /\ Loaded.frees = <<>> /\ Loaded.todo = <<Client>>
  BY <1>1
<1>6. DOMAIN Loaded.todo = {1} /\ Loaded.todo[1] = Client
  BY <1>5
<1>7. \A x : ~Freed(Loaded, "expr", x) /\ ~Freed(Loaded, "scope", x)
  BY <1>5 DEF Freed, ToSet
<1>8. Calm(Loaded)
  BY <1>6, GoodLoaded DEF Calm, Quiet, Client
<1> QED
  BY <1>2, <1>3, <1>4, <1>5, <1>6, <1>7, <1>8

\* Everything has an owner then, and nothing is generated yet.
LEMMA KeptLoaded ==
  ASSUME NEW nodes
  PROVE  Kept(Loaded, {}, nodes)
<1> DEFINE m == Loaded
<1>1. Client.fn = "client" /\ Client.e = 2
  BY DEF Client, Global
<1>2. Tidy(m)
  BY <1>1, LoadedParts DEF Tidy
<1>3. ASSUME NEW x \in DOMAIN m.exprs PROVE HeldExpr(m, x)
  <2>1. PICK n \in DOMAIN m.scopes[1].dict : m.scopes[1].dict[n] = x
    BY <1>3, LoadedParts
  <2>2. 1 \in DOMAIN m.scopes
    BY LoadedParts
  <2>3. KeyPlace(m, 1, n)
    BY <1>1, <2>2, LoadedParts DEF KeyPlace
  <2> QED
    BY <2>1, <2>2, <2>3 DEF HeldExpr
<1>4. ASSUME NEW e \in DOMAIN m.scopes PROVE HeldScope(m, e)
  <2>1. e = 1 \/ e = 2
    BY LoadedParts
  <2>2. HeldScope(m, 1)
    BY LoadedParts DEF HeldScope, UpperPlace, Global
  <2>3. HeldScope(m, 2)
    BY <1>1, LoadedParts DEF HeldScope, EnvPlace
  <2> QED
    BY <2>1, <2>2, <2>3
<1>5. Once(m, nodes)
  <2>1. ~Binder(Client) /\ ~Definer(Client) /\ ~Writer(m, Client)
    BY <1>1 DEF Binder, Definer, Writer
  <2>2. \A d \in DOMAIN m.todo : m.todo[d] = Client
    BY LoadedParts
  <2>3. \A c, d \in DOMAIN m.todo : c = d
    BY LoadedParts
  <2> QED
    BY <1>1, <2>1, <2>2, <2>3 DEF Once, Clear, Ready
<1> QED
  BY <1>2, <1>3, <1>4, <1>5 DEF Kept, HeldBut

\* coregen_from_module_ast
LEMMA KeptFromModuleAst ==
  ASSUME NEW nodes, Simple(nodes), NEW root \in nodes,
         root.rule = "MODULE" => BindOnce(Last(root.kids).kids)
  PROVE  Kept(FromModuleAst(Loaded, root), {}, nodes)
<1> DEFINE m == Loaded
<1>1. Calm(m) /\ Kept(m, {}, nodes)
  BY LoadedParts, KeptLoaded
<1>2. CASE root.rule = "MODULE"
  <2> DEFINE decls == Last(root.kids).kids
  <2>1. root.kids # <<>>
    BY <1>2, NodeFields DEF Simple
  <2>2. Last(root.kids) \in nodes
    BY <2>1, SimpleKids, Shortened
  <2>3. decls \in Seq(nodes) /\ BindOnce(decls)
    BY <1>2, <2>2, SimpleKids
  <2>4. FromModuleAst(m, root) = Push(m, Declare(decls, Global, <<>>))
    BY <1>2 DEF FromModuleAst
  <2>5. <<>> \in Seq(Nat)
    BY EmptySeq
  <2> HIDE DEF decls
  <2>6. nodes \subseteq Nodes
    BY DEF Simple
  <2>7. Global \in DOMAIN m.scopes /\ Global \in Nat
    BY LoadedParts DEF Global
  <2>8. Vacant(m, Global)
    BY <2>7, LoadedParts DEF Vacant, Global, Client, Writing
  <2> HIDE DEF m
  <2>9. Generates(m, Declare(decls, Global, <<>>))
    <3>1. decls \in Seq(Nodes)
      BY <2>3, <2>6
    <3> QED
      BY <2>5, <2>7, <3>1, DeclareGenerates
  <2>10. Fits(m, Declare(decls, Global, <<>>), nodes)
    BY <2>3, <2>5, <2>6, <2>7, <2>8, FitsDeclare
  <2>11. Kept(Push(m, Declare(decls, Global, <<>>)), {}, nodes)
    BY <1>1, <2>9, <2>10, KeptPushGenerating
  <2> QED
    BY <2>4, <2>11 DEF m
<1>3. CASE root.rule # "MODULE"
  BY <1>1, <1>3, KeptFail DEF FromModuleAst
<1> QED
  BY <1>2, <1>3

-----------------------------------------------------------------------------
(* While something is destroyed *)

\* expressions stay as they are, and names are lost with their scope only
Stands(m, n) ==
  /\ n.exprs = m.exprs /\ DOMAIN n.scopes = DOMAIN m.scopes
  /\ \A x : Freed(m, "expr", x) => Freed(n, "expr", x)
  /\ \A e : Freed(m, "scope", e) => Freed(n, "scope", e)
  /\ \A e \in DOMAIN m.scopes : n.scopes[e].dict = m.scopes[e].dict \/ Freed(n, "scope", e)

\* The children of an expression are numbered from one.
LEMMA KidsNumbered ==
  ASSUME NEW m \in Memory, NEW x \in DOMAIN m.exprs
  PROVE  /\ m.exprs[x].kids \in Seq(Nat) /\ Len(m.exprs[x].kids) \in Nat
         /\ DOMAIN m.exprs[x].kids = 1..Len(m.exprs[x].kids)
         /\ Len(m.exprs[x].kids) + 1 \notin DOMAIN m.exprs[x].kids
<1>1. m.exprs \in Seq(Exprs)
  BY DEF Memory
<1>2. m.exprs[x] \in Exprs
  BY <1>1
<1>3. m.exprs[x].kids \in Seq(Nat)
  BY <1>2 DEF Exprs
<1> DEFINE s == m.exprs[x].kids
<1>4. Len(s) \in Nat /\ DOMAIN s = 1..Len(s)
  BY <1>3, LenProperties
<1> HIDE DEF s
<1>5. Len(s) + 1 \notin DOMAIN s
  BY <1>4
<1> QED
  BY <1>3, <1>4, <1>5 DEF s

\* The graph stays tidy when only names are lost.
LEMMA TidyStays ==
  ASSUME NEW m, Tidy(m), InOnePiece(m), NEW n, n.exprs = m.exprs, DOMAIN n.scopes = DOMAIN m.scopes,
         \A e \in DOMAIN m.scopes : n.scopes[e].dict = m.scopes[e].dict \/ DOMAIN n.scopes[e].dict = {},
         \A e \in DOMAIN m.scopes :
           Freed(n, "scope", e) => n.scopes[e].upper = 0 /\ DOMAIN n.scopes[e].dict = {},
         \A d \in DOMAIN n.todo :
           (n.todo[d].fn = "core" => n.todo[d].next >= 1) /\ (n.todo[d].fn = "endlet" => n.todo[d].e > Global)
  PROVE  Tidy(n)
<1>1. ASSUME NEW x \in DOMAIN m.exprs, m.exprs[x].form = "LAMBDA"
      PROVE  /\ m.exprs[x].args > Global
             /\ \A k \in DOMAIN n.scopes[m.exprs[x].args].dict : n.scopes[m.exprs[x].args].dict[k] > x
  <2> DEFINE a == m.exprs[x].args
  <2>1. a > Global /\ \A k \in DOMAIN m.scopes[a].dict : m.scopes[a].dict[k] > x
    BY <1>1 DEF Tidy
  <2>2. a \in DOMAIN m.scopes
    BY <1>1 DEF InOnePiece
  <2> HIDE DEF a
  <2>3. n.scopes[a].dict = m.scopes[a].dict \/ DOMAIN n.scopes[a].dict = {}
    BY <2>2
  <2>4. \A k \in DOMAIN n.scopes[a].dict : n.scopes[a].dict[k] > x
    BY <2>1, <2>3
  <2> QED
    BY <2>1, <2>4 DEF a
<1>2. \A x \in DOMAIN n.exprs :
        LET a == n.exprs[x].args
        IN n.exprs[x].form = "LAMBDA" =>
             a > Global /\ \A k \in DOMAIN n.scopes[a].dict : n.scopes[a].dict[k] > x
  BY <1>1
<1>3. \A e \in DOMAIN n.scopes : Freed(n, "scope", e) => n.scopes[e].upper = 0 /\ DOMAIN n.scopes[e].dict = {}
  OBVIOUS
<1> QED
  BY <1>2, <1>3, Zenon DEF Tidy

\* core_destroy goes on: the child it destroys next, or the scope of the parameters, has
\* no owner then.
LEMMA HeldLaterCore ==
  ASSUME NEW m, Good(m), Tidy(m), HeldBut(m, {}, {}), m.todo # <<>>, NEW t, t = Last(m.todo), t.fn = "core",
         NEW n, n = Push(Pop(m), <<[t EXCEPT !.next = @ + 1]>>)
  PROVE  /\ Tidy(n) /\ Stands(m, n)
         /\ t.next \in DOMAIN m.exprs[t.x].kids => HeldBut(n, {m.exprs[t.x].kids[t.next]}, {})
         /\ m.exprs[t.x].form = "LAMBDA" /\ t.next = Len(m.exprs[t.x].kids) + 1 =>
              HeldBut(n, {}, {m.exprs[t.x].args})
<1> DEFINE l == Top(m)
           u == [t EXCEPT !.next = @ + 1]
<1>1. m \in Memory /\ InOnePiece(m)
  BY DEF Good
<1>2. /\ l \in DOMAIN m.todo /\ m.todo[l] = t /\ t \in Tasks
      /\ DOMAIN m.todo \subseteq Nat
  BY <1>1, PoppedOne
<1>3. t \in [fn : {"core"}, x : Nat, next : Nat]
  BY <1>2 DEF Tasks, Holding, Destroying, Generating
<1>4. u \in Tasks /\ u.fn = "core" /\ u.x = t.x /\ u.next = t.next + 1 /\ t.next \in Nat
  BY <1>3 DEF Tasks, Holding, Destroying
<1> HIDE DEF u, l
<1>5. /\ n.exprs = m.exprs /\ n.scopes = m.scopes /\ n.frees = m.frees
      /\ DOMAIN n.todo = DOMAIN m.todo /\ n.todo[l] = u
      /\ \A d \in DOMAIN m.todo : d # l => n.todo[d] = m.todo[d]
  BY <1>1, <1>4, Turned DEF u, l
<1>6. t.x \in DOMAIN m.exprs
  BY <1>1, <1>2 DEF InOnePiece
<1>7. /\ \A z : Freed(n, "expr", z) <=> Freed(m, "expr", z)
      /\ \A z : Freed(n, "scope", z) <=> Freed(m, "scope", z)
  BY <1>5 DEF Freed
<1>8. ASSUME NEW z, NEW i \in Nat,
             \A d \in DOMAIN m.todo : m.todo[d].fn = "core" /\ m.todo[d].x = z => m.todo[d].next <= i
      PROVE  \/ z = t.x /\ i = t.next
             \/ \A d \in DOMAIN n.todo : n.todo[d].fn = "core" /\ n.todo[d].x = z => n.todo[d].next <= i
  <2>1. z = t.x => t.next <= i
    BY <1>2, <1>3, <1>8
  <2>2. z = t.x /\ i # t.next => t.next + 1 <= i
    BY <1>4, <2>1
  <2> QED
    BY <1>2, <1>4, <1>5, <1>8, <2>2
<1>9. ASSUME NEW z \in DOMAIN m.exprs, NEW i \in DOMAIN m.exprs[z].kids, KidPlace(m, z, i)
      PROVE  (z = t.x /\ i = t.next) \/ KidPlace(n, z, i)
  <2>1. i \in Nat
    BY <1>1, KidsNumbered
  <2> QED
    BY <1>5, <1>7, <1>8, <1>9, <2>1, SMTT(30) DEF KidPlace
<1>10. ASSUME NEW z \in DOMAIN m.exprs, ArgsPlace(m, z)
       PROVE  (z = t.x /\ t.next = Len(m.exprs[z].kids) + 1) \/ ArgsPlace(n, z)
  <2>1. Len(m.exprs[z].kids) + 1 \in Nat
    BY <1>1, KidsNumbered
  <2> DEFINE i == Len(m.exprs[z].kids) + 1
  <2>2. \A d \in DOMAIN m.todo : m.todo[d].fn = "core" /\ m.todo[d].x = z => m.todo[d].next <= i
    BY <1>10 DEF ArgsPlace
  <2>3. n.exprs[z] = m.exprs[z]
    BY <1>5
  <2>4. i \in Nat
    BY <2>1
  <2> HIDE DEF i
  <2>5. \/ z = t.x /\ i = t.next
        \/ \A d \in DOMAIN n.todo : n.todo[d].fn = "core" /\ n.todo[d].x = z => n.todo[d].next <= i
    <3>1. z = t.x => t.next <= i
      BY <1>2, <1>3, <2>2
    <3>2. z = t.x /\ i # t.next => t.next + 1 <= i
      BY <1>4, <2>4, <3>1
    <3> QED
      BY <1>2, <1>4, <1>5, <2>2, <3>2
  <2> QED
    BY <1>5, <1>7, <1>10, <2>3, <2>5 DEF ArgsPlace, i
<1>11. \A e, k : KeyPlace(m, e, k) => KeyPlace(n, e, k)
  BY <1>2, <1>4, <1>5 DEF KeyPlace
<1>12. /\ \A d : CorePlace(m, d) => CorePlace(n, d) /\ n.todo[d].x = m.todo[d].x
       /\ \A d : EnvPlace(m, d) => EnvPlace(n, d) /\ n.todo[d].e = m.todo[d].e
  BY <1>2, <1>4, <1>5 DEF CorePlace, EnvPlace
<1>13. ASSUME NEW x, HeldExpr(m, x)
       PROVE  HeldExpr(n, x) \/ (t.next \in DOMAIN m.exprs[t.x].kids /\ x = m.exprs[t.x].kids[t.next])
  <2>1. CASE Freed(m, "expr", x)
    BY <1>7, <2>1 DEF HeldExpr
  <2>2. CASE \E z \in DOMAIN m.exprs : \E i \in DOMAIN m.exprs[z].kids :
          KidPlace(m, z, i) /\ m.exprs[z].kids[i] = x
    BY <1>5, <1>9, <2>2 DEF HeldExpr
  <2>3. CASE \E e \in DOMAIN m.scopes : \E k \in DOMAIN m.scopes[e].dict :
               KeyPlace(m, e, k) /\ m.scopes[e].dict[k] = x
    BY <1>5, <1>11, <2>3 DEF HeldExpr
  <2>4. CASE \E d \in DOMAIN m.todo : CorePlace(m, d) /\ m.todo[d].x = x
    BY <1>5, <1>12, <2>4 DEF HeldExpr
  <2> QED
    BY <1>13, <2>1, <2>2, <2>3, <2>4 DEF HeldExpr
<1>14. ASSUME NEW e, HeldScope(m, e)
       PROVE  \/ HeldScope(n, e)
              \/ t.next = Len(m.exprs[t.x].kids) + 1 /\ e = m.exprs[t.x].args
  <2>1. CASE Freed(m, "scope", e)
    BY <1>7, <2>1 DEF HeldScope
  <2>2. CASE \E x \in DOMAIN m.exprs : ArgsPlace(m, x) /\ m.exprs[x].args = e
    BY <1>5, <1>10, <2>2 DEF HeldScope
  <2>3. CASE UpperPlace(m) /\ m.scopes[Global].upper = e
    BY <1>5, <2>3 DEF HeldScope, UpperPlace
  <2>4. CASE \E d \in DOMAIN m.todo : EnvPlace(m, d) /\ m.todo[d].e = e
    BY <1>5, <1>12, <2>4 DEF HeldScope
  <2> QED
    BY <1>14, <2>1, <2>2, <2>3, <2>4 DEF HeldScope
<1>15. Len(m.exprs[t.x].kids) + 1 \notin DOMAIN m.exprs[t.x].kids
  BY <1>1, <1>6, KidsNumbered
<1>16. Tidy(n)
  <2>1. \A d \in DOMAIN n.todo :
          (n.todo[d].fn = "core" => n.todo[d].next >= 1) /\ (n.todo[d].fn = "endlet" => n.todo[d].e > Global)
    <3> TAKE d \in DOMAIN n.todo
    <3>1. CASE d = l
      BY <1>4, <1>5, <3>1
    <3>2. CASE d # l
      BY <1>5, <3>2 DEF Tidy
    <3> QED
      BY <3>1, <3>2
  <2>2. \A e \in DOMAIN m.scopes :
          Freed(n, "scope", e) => n.scopes[e].upper = 0 /\ DOMAIN n.scopes[e].dict = {}
    BY <1>5, <1>7 DEF Tidy
  <2> QED
    BY <1>1, <1>5, <2>1, <2>2, TidyStays
<1>17. Stands(m, n)
  BY <1>5, <1>7 DEF Stands
<1>18. ASSUME t.next \in DOMAIN m.exprs[t.x].kids PROVE HeldBut(n, {m.exprs[t.x].kids[t.next]}, {})
  <2>1. t.next # Len(m.exprs[t.x].kids) + 1
    BY <1>15, <1>18
  <2> QED
    BY <1>5, <1>13, <1>14, <2>1 DEF HeldBut
<1>19. ASSUME t.next = Len(m.exprs[t.x].kids) + 1 PROVE HeldBut(n, {}, {m.exprs[t.x].args})
  <2>1. t.next \notin DOMAIN m.exprs[t.x].kids
    BY <1>15, <1>19
  <2> QED
    BY <1>5, <1>13, <1>14, <2>1 DEF HeldBut
<1> QED
  BY <1>16, <1>17, <1>18, <1>19

\* The memory of an expression is given back when nothing is left that it owns.
LEMMA HeldFreeExpr ==
  ASSUME NEW m, Good(m), Tidy(m), HeldBut(m, {}, {}), m.todo # <<>>, NEW t, t = Last(m.todo), t.fn = "core",
         t.next \notin DOMAIN m.exprs[t.x].kids,
         ~(m.exprs[t.x].form = "LAMBDA" /\ t.next = Len(m.exprs[t.x].kids) + 1),
         NEW n, n = Free(Pop(m), <<"expr", t.x>>)
  PROVE  Tidy(n) /\ Stands(m, n) /\ HeldBut(n, {}, {})
<1> DEFINE l == Top(m)
           k == Pop(m)
<1>1. m \in Memory /\ InOnePiece(m)
  BY DEF Good
<1>2. /\ l \in DOMAIN m.todo /\ l \in Nat /\ m.todo[l] = t /\ t \in Tasks
      /\ k \in Memory /\ k.exprs = m.exprs /\ k.scopes = m.scopes /\ k.frees = m.frees
      /\ DOMAIN k.todo = DOMAIN m.todo \ {l}
      /\ \A d \in DOMAIN m.todo : d # l => k.todo[d] = m.todo[d]
  BY <1>1, PoppedOne
<1>3. t \in [fn : {"core"}, x : Nat, next : Nat]
  BY <1>2 DEF Tasks, Holding, Destroying, Generating
<1>4. /\ t.x \in Nat /\ t.next \in Nat /\ t.x \in DOMAIN m.exprs /\ t.next >= 1
  BY <1>1, <1>2, <1>3 DEF InOnePiece, Tidy
<1>5. n = Free(k, <<"expr", t.x>>) /\ IsInjective(m.frees)
  BY DEF Good
<1>6. ~Freed(m, "expr", t.x)
  <2>1. CorePlace(m, l) /\ l \in Nat
    BY <1>2 DEF CorePlace
  <2>2. <<"task", l, 0>> \in ExprPlaces(m) /\ ExprAtPlace(m, <<"task", l, 0>>) = t.x
    BY <1>2, <2>1 DEF ExprPlaces, ExprAtPlace
  <2> QED
    BY <2>2 DEF Good, ExprsOwned
<1> HIDE DEF k, l
<1>7. /\ n.exprs = m.exprs /\ n.scopes = m.scopes /\ n.todo = k.todo
      /\ n.frees = Append(m.frees, <<"expr", t.x>>)
  <2> DEFINE f == <<"expr", t.x>>
  <2>1. f \in {"expr", "scope"} \X Nat /\ n = Free(k, f)
    BY <1>5, <1>4
  <2> HIDE DEF f
  <2> DEFINE r == Free(k, f)
  <2>2. k \in Memory
    BY <1>2
  <2>3. r.exprs = k.exprs /\ r.scopes = k.scopes /\ r.todo = k.todo /\ r.frees = Append(k.frees, f)
    BY <2>1, <2>2, FreeMemory
  <2>4. n = r
    BY <2>1
  <2> HIDE DEF r
  <2>5. n.exprs = k.exprs /\ n.scopes = k.scopes /\ n.todo = k.todo /\ n.frees = Append(k.frees, f)
    BY <2>3, <2>4
  <2> QED
    BY <1>2, <2>5 DEF f
<1>8. /\ \A z : Freed(n, "expr", z) <=> Freed(m, "expr", z) \/ z = t.x
      /\ \A z : Freed(n, "scope", z) <=> Freed(m, "scope", z)
  <2> DEFINE f == <<"expr", t.x>>
  <2>1. f \in {"expr", "scope"} \X Nat /\ f \notin ToSet(m.frees) /\ n.frees = Append(m.frees, f)
    BY <1>4, <1>7, <1>6 DEF Freed
  <2> HIDE DEF f
  <2>2. ToSet(n.frees) = ToSet(m.frees) \cup {f}
    BY <1>5, <1>1, <2>1, OnceMore
  <2>3. ToSet(n.frees) = ToSet(m.frees) \cup {<<"expr", t.x>>}
    BY <2>2 DEF f
  <2> QED
    BY <2>3 DEF Freed
<1>9. DOMAIN m.exprs[t.x].kids = 1..Len(m.exprs[t.x].kids) /\ Len(m.exprs[t.x].kids) \in Nat
  BY <1>1, <1>4, KidsNumbered
<1>10. t.next > Len(m.exprs[t.x].kids)
  BY <1>4, <1>9
<1>11. \A i \in DOMAIN m.exprs[t.x].kids : ~KidPlace(m, t.x, i)
  BY <1>2, <1>3, <1>4, <1>9, <1>10 DEF KidPlace
<1>12. ~ArgsPlace(m, t.x)
  <2>1. m.exprs[t.x].form = "LAMBDA" => t.next > Len(m.exprs[t.x].kids) + 1
    BY <1>4, <1>9, <1>10, SMTT(30)
  <2> QED
    BY <1>2, <1>3, <1>4, <1>9, <2>1 DEF ArgsPlace
<1>13. ASSUME NEW z \in DOMAIN m.exprs, NEW i \in DOMAIN m.exprs[z].kids, KidPlace(m, z, i)
       PROVE  KidPlace(n, z, i)
  <2>1. z # t.x
    BY <1>11, <1>13
  <2>2. ~Freed(n, "expr", z)
    BY <1>8, <1>13, <2>1 DEF KidPlace
  <2>3. \A d \in DOMAIN n.todo : d \in DOMAIN m.todo /\ n.todo[d] = m.todo[d]
    BY <1>2, <1>7
  <2>4. n.exprs = m.exprs
    BY <1>7
  <2> QED
    BY <1>13, <2>2, <2>3, <2>4 DEF KidPlace
<1>14. ASSUME NEW z \in DOMAIN m.exprs, ArgsPlace(m, z) PROVE ArgsPlace(n, z)
  <2>1. z # t.x
    BY <1>12, <1>14
  <2>2. /\ z \in DOMAIN n.exprs /\ n.exprs[z] = m.exprs[z] /\ ~Freed(m, "expr", z)
        /\ m.exprs[z].form = "LAMBDA"
    BY <1>7, <1>14 DEF ArgsPlace
  <2>3. ~Freed(n, "expr", z)
    BY <1>8, <2>1, <2>2
  <2> DEFINE i == Len(m.exprs[z].kids) + 1
  <2>4. \A d \in DOMAIN m.todo : m.todo[d].fn = "core" /\ m.todo[d].x = z => m.todo[d].next <= i
    BY <1>14 DEF ArgsPlace
  <2> HIDE DEF i
  <2>5. \A d \in DOMAIN n.todo : n.todo[d].fn = "core" /\ n.todo[d].x = z => n.todo[d].next <= i
    BY <1>2, <1>7, <2>4
  <2> QED
    BY <2>2, <2>3, <2>5 DEF ArgsPlace, i
<1>15. \A e, q : KeyPlace(m, e, q) => KeyPlace(n, e, q)
  <2>1. n.scopes = m.scopes
    BY <1>2, <1>7
  <2>2. \A d \in DOMAIN n.todo : d \in DOMAIN m.todo /\ n.todo[d] = m.todo[d]
    BY <1>2, <1>7
  <2> QED
    BY <2>1, <2>2 DEF KeyPlace
<1>16. \A d : CorePlace(m, d) => d = l \/ (CorePlace(n, d) /\ n.todo[d].x = m.todo[d].x)
  BY <1>2, <1>7 DEF CorePlace
<1>17. \A d : EnvPlace(m, d) => EnvPlace(n, d) /\ n.todo[d].e = m.todo[d].e
  BY <1>2, <1>7 DEF EnvPlace
<1>18. ASSUME NEW x, HeldExpr(m, x) PROVE HeldExpr(n, x)
  <2>1. CASE Freed(m, "expr", x)
    BY <1>8, <2>1 DEF HeldExpr
  <2>2. CASE \E z \in DOMAIN m.exprs : \E i \in DOMAIN m.exprs[z].kids :
          KidPlace(m, z, i) /\ m.exprs[z].kids[i] = x
    BY <1>7, <1>13, <2>2 DEF HeldExpr
  <2>3. CASE \E e \in DOMAIN m.scopes : \E q \in DOMAIN m.scopes[e].dict :
               KeyPlace(m, e, q) /\ m.scopes[e].dict[q] = x
    BY <1>7, <1>15, <2>3 DEF HeldExpr
  <2>4. CASE \E d \in DOMAIN m.todo : CorePlace(m, d) /\ m.todo[d].x = x
    <3>1. PICK d \in DOMAIN m.todo : CorePlace(m, d) /\ m.todo[d].x = x
      BY <2>4
    <3>2. d = l => Freed(n, "expr", x)
      BY <1>2, <1>8, <3>1
    <3>3. d # l => d \in DOMAIN n.todo /\ CorePlace(n, d) /\ n.todo[d].x = x
      BY <1>2, <1>7, <1>16, <3>1
    <3> QED
      BY <3>2, <3>3 DEF HeldExpr
  <2> QED
    BY <1>18, <2>1, <2>2, <2>3, <2>4 DEF HeldExpr
<1>19. ASSUME NEW e, HeldScope(m, e) PROVE HeldScope(n, e)
  <2>1. CASE Freed(m, "scope", e)
    BY <1>8, <2>1 DEF HeldScope
  <2>2. CASE \E x \in DOMAIN m.exprs : ArgsPlace(m, x) /\ m.exprs[x].args = e
    BY <1>7, <1>14, <2>2 DEF HeldScope
  <2>3. CASE UpperPlace(m) /\ m.scopes[Global].upper = e
    BY <1>7, <2>3 DEF HeldScope, UpperPlace
  <2>4. CASE \E d \in DOMAIN m.todo : EnvPlace(m, d) /\ m.todo[d].e = e
    <3>1. PICK d \in DOMAIN m.todo : EnvPlace(m, d) /\ m.todo[d].e = e
      BY <2>4
    <3>2. d # l
      BY <1>2, <3>1 DEF EnvPlace
    <3> QED
      BY <1>2, <1>7, <1>17, <3>1, <3>2 DEF HeldScope
  <2> QED
    BY <1>19, <2>1, <2>2, <2>3, <2>4 DEF HeldScope
<1>20. Tidy(n)
  <2>1. \A d \in DOMAIN n.todo : d \in DOMAIN m.todo /\ n.todo[d] = m.todo[d]
    BY <1>2, <1>7
  <2>2. \A d \in DOMAIN n.todo :
          (n.todo[d].fn = "core" => n.todo[d].next >= 1) /\ (n.todo[d].fn = "endlet" => n.todo[d].e > Global)
    BY <2>1 DEF Tidy
  <2>3. \A e \in DOMAIN m.scopes :
          Freed(n, "scope", e) => n.scopes[e].upper = 0 /\ DOMAIN n.scopes[e].dict = {}
    BY <1>7, <1>8 DEF Tidy
  <2> QED
    BY <1>1, <1>7, <2>2, <2>3, TidyStays
<1>21. Stands(m, n)
  BY <1>7, <1>8 DEF Stands
<1> QED
  BY <1>7, <1>18, <1>19, <1>20, <1>21 DEF HeldBut

\* core_destroy of an expression without an owner is to be done: it has one.
LEMMA HeldPushCore ==
  ASSUME NEW m, Good(m), Tidy(m), NEW y \in DOMAIN m.exprs, HeldBut(m, {y}, {}),
         NEW n, n = Push(m, <<DestroyExpr(y)>>)
  PROVE  Tidy(n) /\ Stands(m, n) /\ HeldBut(n, {}, {})
<1> DEFINE u == DestroyExpr(y)
           l == Top(n)
<1>1. m \in Memory /\ InOnePiece(m)
  BY DEF Good
<1>2. y \in Nat
  BY <1>1, Domains
<1>3. u \in Tasks /\ u.fn = "core" /\ u.x = y /\ u.next = 1 /\ n = Push(m, <<u>>)
  BY <1>2 DEF DestroyExpr, Tasks, Holding, Destroying
<1> HIDE DEF u, l
<1>4. /\ n.exprs = m.exprs /\ n.scopes = m.scopes /\ n.frees = m.frees
      /\ l \notin DOMAIN m.todo /\ DOMAIN n.todo = DOMAIN m.todo \cup {l} /\ n.todo[l] = u
      /\ \A d \in DOMAIN m.todo : n.todo[d] = m.todo[d]
  <2>1. n.exprs = m.exprs /\ n.scopes = m.scopes /\ n.frees = m.frees
    BY <1>1, <1>3, PushedOne
  <2>2. Top(n) \notin DOMAIN m.todo
    BY <1>1, <1>3, PushedOne
  <2>3. DOMAIN n.todo = DOMAIN m.todo \cup {Top(n)}
    BY <1>1, <1>3, PushedOne
  <2>4. n.todo[Top(n)] = u
    BY <1>1, <1>3, PushedOne
  <2>5. \A d \in DOMAIN m.todo : n.todo[d] = m.todo[d]
    BY <1>1, <1>3, PushedOne
  <2> QED
    BY <2>1, <2>2, <2>3, <2>4, <2>5 DEF l
<1>5. /\ \A z : Freed(n, "expr", z) <=> Freed(m, "expr", z)
      /\ \A z : Freed(n, "scope", z) <=> Freed(m, "scope", z)
  BY <1>4 DEF Freed
<1>6. \A z \in DOMAIN m.exprs :
        /\ DOMAIN m.exprs[z].kids \subseteq Nat \ {0}
        /\ Len(m.exprs[z].kids) \in Nat
  BY <1>1, KidsNumbered
<1>7. ASSUME NEW z \in DOMAIN m.exprs, NEW i \in DOMAIN m.exprs[z].kids, KidPlace(m, z, i)
      PROVE  KidPlace(n, z, i)
  <2>1. i \in Nat \ {0}
    BY <1>6
  <2>2. u.next <= i
    BY <1>3, <2>1
  <2> QED
    BY <1>3, <1>4, <1>5, <1>7, <2>2 DEF KidPlace
<1>8. ASSUME NEW z \in DOMAIN m.exprs, ArgsPlace(m, z) PROVE ArgsPlace(n, z)
  <2> DEFINE i == Len(m.exprs[z].kids) + 1
  <2>1. u.next <= i
    BY <1>3, <1>6
  <2>2. \A d \in DOMAIN m.todo : m.todo[d].fn = "core" /\ m.todo[d].x = z => m.todo[d].next <= i
    BY <1>8 DEF ArgsPlace
  <2>3. /\ z \in DOMAIN n.exprs /\ n.exprs[z] = m.exprs[z] /\ ~Freed(n, "expr", z)
        /\ m.exprs[z].form = "LAMBDA"
    BY <1>4, <1>5, <1>8 DEF ArgsPlace
  <2> HIDE DEF i
  <2>4. \A d \in DOMAIN n.todo : n.todo[d].fn = "core" /\ n.todo[d].x = z => n.todo[d].next <= i
    BY <1>3, <1>4, <2>1, <2>2
  <2> QED
    BY <2>3, <2>4 DEF ArgsPlace, i
<1>9. \A e, q : KeyPlace(m, e, q) => KeyPlace(n, e, q)
  BY <1>3, <1>4 DEF KeyPlace
<1>10. \A d : CorePlace(m, d) => CorePlace(n, d) /\ n.todo[d].x = m.todo[d].x
  BY <1>4 DEF CorePlace
<1>11. \A d : EnvPlace(m, d) => EnvPlace(n, d) /\ n.todo[d].e = m.todo[d].e
  BY <1>4 DEF EnvPlace
<1>12. ASSUME NEW x, HeldExpr(m, x) PROVE HeldExpr(n, x)
  <2>1. CASE Freed(m, "expr", x)
    BY <1>5, <2>1 DEF HeldExpr
  <2>2. CASE \E z \in DOMAIN m.exprs : \E i \in DOMAIN m.exprs[z].kids :
          KidPlace(m, z, i) /\ m.exprs[z].kids[i] = x
    BY <1>4, <1>7, <2>2 DEF HeldExpr
  <2>3. CASE \E e \in DOMAIN m.scopes : \E q \in DOMAIN m.scopes[e].dict :
               KeyPlace(m, e, q) /\ m.scopes[e].dict[q] = x
    BY <1>4, <1>9, <2>3 DEF HeldExpr
  <2>4. CASE \E d \in DOMAIN m.todo : CorePlace(m, d) /\ m.todo[d].x = x
    BY <1>4, <1>10, <2>4 DEF HeldExpr
  <2> QED
    BY <1>12, <2>1, <2>2, <2>3, <2>4 DEF HeldExpr
<1>13. HeldExpr(n, y)
  BY <1>3, <1>4 DEF HeldExpr, CorePlace
<1>14. ASSUME NEW e, HeldScope(m, e) PROVE HeldScope(n, e)
  <2>1. CASE Freed(m, "scope", e)
    BY <1>5, <2>1 DEF HeldScope
  <2>2. CASE \E x \in DOMAIN m.exprs : ArgsPlace(m, x) /\ m.exprs[x].args = e
    BY <1>4, <1>8, <2>2 DEF HeldScope
  <2>3. CASE UpperPlace(m) /\ m.scopes[Global].upper = e
    BY <1>4, <2>3 DEF HeldScope, UpperPlace
  <2>4. CASE \E d \in DOMAIN m.todo : EnvPlace(m, d) /\ m.todo[d].e = e
    BY <1>4, <1>11, <2>4 DEF HeldScope
  <2> QED
    BY <1>14, <2>1, <2>2, <2>3, <2>4 DEF HeldScope
<1>15. Tidy(n)
  <2>1. \A d \in DOMAIN n.todo :
          (n.todo[d].fn = "core" => n.todo[d].next >= 1) /\ (n.todo[d].fn = "endlet" => n.todo[d].e > Global)
    <3> TAKE d \in DOMAIN n.todo
    <3>1. CASE d = l
      BY <1>3, <1>4, <3>1
    <3>2. CASE d # l
      BY <1>4, <3>2 DEF Tidy
    <3> QED
      BY <3>1, <3>2
  <2>2. \A e \in DOMAIN m.scopes :
          Freed(n, "scope", e) => n.scopes[e].upper = 0 /\ DOMAIN n.scopes[e].dict = {}
    BY <1>4, <1>5 DEF Tidy
  <2> QED
    BY <1>1, <1>4, <2>1, <2>2, TidyStays
<1>16. Stands(m, n)
  BY <1>4, <1>5 DEF Stands
<1> QED
  BY <1>4, <1>12, <1>13, <1>14, <1>15, <1>16 DEF HeldBut

\* In n, env_destroy of e is to be done too.
EnvNext(m, n, e) ==
  /\ n.exprs = m.exprs /\ n.frees = m.frees /\ DOMAIN n.scopes = DOMAIN m.scopes
  /\ \A s \in DOMAIN m.scopes :
       n.scopes[s].dict = m.scopes[s].dict /\ n.scopes[s].upper \in {m.scopes[s].upper, 0}
  /\ n.scopes[Global].upper = m.scopes[Global].upper
  /\ \E l : /\ l \notin DOMAIN m.todo /\ DOMAIN n.todo = DOMAIN m.todo \cup {l}
            /\ n.todo[l] = EnvDestroy(e, m.scopes[e].dict)
            /\ \A d \in DOMAIN m.todo : n.todo[d] = m.todo[d]

\* env_destroy of a scope without an owner is to be done: it has one.
LEMMA HeldPushEnv ==
  ASSUME NEW m, m \in Memory, InOnePiece(m), Tidy(m), NEW e \in DOMAIN m.scopes, HeldBut(m, {}, {e}),
         NEW n, EnvNext(m, n, e)
  PROVE  Tidy(n) /\ Stands(m, n) /\ HeldBut(n, {}, {})
<1> DEFINE u == EnvDestroy(e, m.scopes[e].dict)
<1>1. PICK l : /\ l \notin DOMAIN m.todo /\ DOMAIN n.todo = DOMAIN m.todo \cup {l}
               /\ n.todo[l] = u
               /\ \A d \in DOMAIN m.todo : n.todo[d] = m.todo[d]
  BY DEF EnvNext
<1>2. u.fn = "env" /\ u.e = e /\ u.left = DOMAIN m.scopes[e].dict
  BY DEF EnvDestroy
<1> HIDE DEF u
<1>3. /\ n.exprs = m.exprs /\ n.frees = m.frees /\ DOMAIN n.scopes = DOMAIN m.scopes
       /\ \A s \in DOMAIN m.scopes :
            n.scopes[s].dict = m.scopes[s].dict /\ n.scopes[s].upper \in {m.scopes[s].upper, 0}
       /\ n.scopes[Global].upper = m.scopes[Global].upper
  BY DEF EnvNext
<1>4. /\ \A z : Freed(n, "expr", z) <=> Freed(m, "expr", z)
      /\ \A z : Freed(n, "scope", z) <=> Freed(m, "scope", z)
  BY <1>1, <1>3 DEF Freed
<1>5. ASSUME NEW z \in DOMAIN m.exprs, NEW i \in DOMAIN m.exprs[z].kids, KidPlace(m, z, i)
      PROVE  KidPlace(n, z, i)
  BY <1>1, <1>3, <1>2, <1>4, <1>5 DEF KidPlace
<1>6. ASSUME NEW z \in DOMAIN m.exprs, ArgsPlace(m, z) PROVE ArgsPlace(n, z)
  BY <1>1, <1>3, <1>2, <1>4, <1>6 DEF ArgsPlace
<1>7. ASSUME NEW s \in DOMAIN m.scopes, NEW q \in DOMAIN m.scopes[s].dict, KeyPlace(m, s, q)
      PROVE  KeyPlace(n, s, q)
  BY <1>1, <1>3, <1>2, <1>7 DEF KeyPlace
<1>8. \A d : CorePlace(m, d) => CorePlace(n, d) /\ n.todo[d].x = m.todo[d].x
  BY <1>1, <1>3 DEF CorePlace
<1>9. \A d : EnvPlace(m, d) => EnvPlace(n, d) /\ n.todo[d].e = m.todo[d].e
  BY <1>1, <1>3 DEF EnvPlace
<1>10. ASSUME NEW x, HeldExpr(m, x) PROVE HeldExpr(n, x)
  <2>1. CASE Freed(m, "expr", x)
    BY <1>1, <1>3, <1>4, <2>1 DEF HeldExpr
  <2>2. CASE \E z \in DOMAIN m.exprs : \E i \in DOMAIN m.exprs[z].kids :
          KidPlace(m, z, i) /\ m.exprs[z].kids[i] = x
    BY <1>1, <1>3, <1>5, <2>2 DEF HeldExpr
  <2>3. CASE \E s \in DOMAIN m.scopes : \E q \in DOMAIN m.scopes[s].dict :
               KeyPlace(m, s, q) /\ m.scopes[s].dict[q] = x
    BY <1>1, <1>3, <1>7, <2>3 DEF HeldExpr
  <2>4. CASE \E d \in DOMAIN m.todo : CorePlace(m, d) /\ m.todo[d].x = x
    BY <1>1, <1>3, <1>8, <2>4 DEF HeldExpr
  <2> QED
    BY <1>1, <1>3, <1>10, <2>1, <2>2, <2>3, <2>4 DEF HeldExpr
<1>11. HeldScope(n, e)
  BY <1>1, <1>3, <1>2 DEF HeldScope, EnvPlace
<1>12. ASSUME NEW s, HeldScope(m, s) PROVE HeldScope(n, s)
  <2>1. CASE Freed(m, "scope", s)
    BY <1>1, <1>3, <1>4, <2>1 DEF HeldScope
  <2>2. CASE \E x \in DOMAIN m.exprs : ArgsPlace(m, x) /\ m.exprs[x].args = s
    BY <1>1, <1>3, <1>6, <2>2 DEF HeldScope
  <2>3. CASE UpperPlace(m) /\ m.scopes[Global].upper = s
    BY <1>1, <1>3, <2>3 DEF HeldScope, UpperPlace
  <2>4. CASE \E d \in DOMAIN m.todo : EnvPlace(m, d) /\ m.todo[d].e = s
    BY <1>1, <1>3, <1>9, <2>4 DEF HeldScope
  <2> QED
    BY <1>1, <1>3, <1>12, <2>1, <2>2, <2>3, <2>4 DEF HeldScope
<1>13. Tidy(n)
  <2>1. \A d \in DOMAIN n.todo :
          (n.todo[d].fn = "core" => n.todo[d].next >= 1) /\ (n.todo[d].fn = "endlet" => n.todo[d].e > Global)
    <3> TAKE d \in DOMAIN n.todo
    <3>1. CASE d = l
      BY <1>1, <1>3, <1>2, <3>1
    <3>2. CASE d # l
      BY <1>1, <1>3, <3>2 DEF Tidy
    <3> QED
      BY <1>1, <1>3, <3>1, <3>2
  <2>2. \A s \in DOMAIN m.scopes :
          Freed(n, "scope", s) => n.scopes[s].upper = 0 /\ DOMAIN n.scopes[s].dict = {}
    BY <1>1, <1>3, <1>4 DEF Tidy
  <2> QED
    BY <1>1, <1>3, <2>1, <2>2, TidyStays
<1>14. Stands(m, n)
  BY <1>1, <1>3, <1>4 DEF Stands
<1> QED
  BY <1>1, <1>3, <1>10, <1>11, <1>12, <1>13, <1>14 DEF HeldBut

\* So for a scope that is destroyed without the one above it.
LEMMA HeldAlone ==
  ASSUME NEW m, m \in Memory, InOnePiece(m), Tidy(m), NEW e \in DOMAIN m.scopes, e > Global,
         HeldBut(m, {}, {e}), NEW n, n = DestroyAlone(m, e)
  PROVE  Tidy(n) /\ Stands(m, n) /\ HeldBut(n, {}, {})
<1> DEFINE o == [m.scopes[e] EXCEPT !.upper = 0]
           k == [m EXCEPT !.scopes[e] = o]
           u == EnvDestroy(e, m.scopes[e].dict)
           l == Top(n)
<1>1. o \in Scopes /\ o.dict = m.scopes[e].dict /\ o.upper = 0
  <2>1. m.scopes \in Seq(Scopes)
    BY DEF Memory
  <2>2. m.scopes[e] \in Scopes
    BY <2>1, LenProperties
  <2> QED
    BY <2>2 DEF Scopes
<1>2. n = Push(k, <<u>>)
  BY DEF DestroyAlone, Memory
<1>3. u \in Tasks
  BY EnvTask
<1> HIDE DEF o
<1>4. /\ k \in Memory /\ k.exprs = m.exprs /\ k.frees = m.frees /\ k.todo = m.todo
      /\ DOMAIN k.scopes = DOMAIN m.scopes /\ k.scopes[e] = o
      /\ \A z \in DOMAIN m.scopes : z # e => k.scopes[z] = m.scopes[z]
  BY <1>1, ChangedScopes
<1> HIDE DEF k, u, l
<1>5. /\ n.exprs = k.exprs /\ n.scopes = k.scopes /\ n.frees = k.frees
      /\ l \notin DOMAIN k.todo /\ DOMAIN n.todo = DOMAIN k.todo \cup {l} /\ n.todo[l] = u
      /\ \A d \in DOMAIN k.todo : n.todo[d] = k.todo[d]
  BY <1>2, <1>3, <1>4, PushedOne, SMTT(30) DEF l
<1>6. \A s \in DOMAIN m.scopes :
        n.scopes[s].dict = m.scopes[s].dict /\ n.scopes[s].upper \in {m.scopes[s].upper, 0}
  BY <1>1, <1>4, <1>5
<1>7. n.scopes[Global].upper = m.scopes[Global].upper
  <2>1. Global # e /\ Global \in DOMAIN m.scopes
    BY Domains DEF Global
  <2> QED
    BY <1>4, <1>5, <2>1
<1>8. n.exprs = m.exprs /\ n.frees = m.frees /\ DOMAIN n.scopes = DOMAIN m.scopes
      /\ l \notin DOMAIN m.todo /\ DOMAIN n.todo = DOMAIN m.todo \cup {l} /\ n.todo[l] = u
      /\ \A d \in DOMAIN m.todo : n.todo[d] = m.todo[d]
  BY <1>4, <1>5
<1>9. EnvNext(m, n, e)
  BY <1>6, <1>7, <1>8 DEF EnvNext, u
<1> QED
  BY <1>9, HeldPushEnv


\* env_destroy goes on: the expression that it destroys next has no owner then.
LEMMA HeldTurnEnv ==
  ASSUME NEW m, Good(m), Tidy(m), HeldBut(m, {}, {}), m.todo # <<>>, NEW t, t = Last(m.todo), t.fn = "env",
         NEW name, name \in t.left,
         NEW u \in Tasks, u.fn = "env", u.e = t.e, u.left = t.left \ {name},
         NEW n, n = Push(Pop(m), <<u>>)
  PROVE  Tidy(n) /\ Stands(m, n) /\ HeldBut(n, {m.scopes[t.e].dict[name]}, {})
<1> DEFINE l == Top(m)
<1>1. m \in Memory /\ InOnePiece(m)
  BY DEF Good
<1>2. l \in DOMAIN m.todo /\ m.todo[l] = t
  BY <1>1, PoppedOne
<1>3. /\ n.exprs = m.exprs /\ n.scopes = m.scopes /\ n.frees = m.frees
      /\ DOMAIN n.todo = DOMAIN m.todo /\ n.todo[l] = u
      /\ \A d \in DOMAIN m.todo : d # l => n.todo[d] = m.todo[d]
  BY <1>1, Turned
<1> HIDE DEF l
<1>4. /\ \A z : Freed(n, "expr", z) <=> Freed(m, "expr", z)
      /\ \A z : Freed(n, "scope", z) <=> Freed(m, "scope", z)
  BY <1>3 DEF Freed
<1>5. ASSUME NEW z \in DOMAIN m.exprs, NEW i \in DOMAIN m.exprs[z].kids, KidPlace(m, z, i)
      PROVE  KidPlace(n, z, i)
  BY <1>2, <1>3, <1>4, <1>5 DEF KidPlace
<1>6. ASSUME NEW z \in DOMAIN m.exprs, ArgsPlace(m, z) PROVE ArgsPlace(n, z)
  BY <1>2, <1>3, <1>4, <1>6 DEF ArgsPlace
<1>7. ASSUME NEW s \in DOMAIN m.scopes, NEW q \in DOMAIN m.scopes[s].dict, KeyPlace(m, s, q)
      PROVE  (s = t.e /\ q = name) \/ KeyPlace(n, s, q)
  <2>1. s = t.e => q \in t.left
    BY <1>2, <1>7 DEF KeyPlace
  <2>2. s = t.e /\ q # name => q \in u.left
    BY <2>1
  <2> QED
    BY <1>2, <1>3, <1>7, <2>2 DEF KeyPlace
<1>8. \A d : CorePlace(m, d) => CorePlace(n, d) /\ n.todo[d].x = m.todo[d].x
  BY <1>2, <1>3 DEF CorePlace
<1>9. \A d : EnvPlace(m, d) => EnvPlace(n, d) /\ n.todo[d].e = m.todo[d].e
  BY <1>2, <1>3 DEF EnvPlace
<1>10. ASSUME NEW x, HeldExpr(m, x) PROVE x = m.scopes[t.e].dict[name] \/ HeldExpr(n, x)
  <2>1. CASE Freed(m, "expr", x)
    BY <1>4, <2>1 DEF HeldExpr
  <2>2. CASE \E z \in DOMAIN m.exprs : \E i \in DOMAIN m.exprs[z].kids :
          KidPlace(m, z, i) /\ m.exprs[z].kids[i] = x
    BY <1>3, <1>5, <2>2 DEF HeldExpr
  <2>3. CASE \E e \in DOMAIN m.scopes : \E q \in DOMAIN m.scopes[e].dict :
               KeyPlace(m, e, q) /\ m.scopes[e].dict[q] = x
    BY <1>3, <1>7, <2>3 DEF HeldExpr
  <2>4. CASE \E d \in DOMAIN m.todo : CorePlace(m, d) /\ m.todo[d].x = x
    BY <1>3, <1>8, <2>4 DEF HeldExpr
  <2> QED
    BY <1>10, <2>1, <2>2, <2>3, <2>4 DEF HeldExpr
<1>11. ASSUME NEW e, HeldScope(m, e) PROVE HeldScope(n, e)
  <2>1. CASE Freed(m, "scope", e)
    BY <1>4, <2>1 DEF HeldScope
  <2>2. CASE \E x \in DOMAIN m.exprs : ArgsPlace(m, x) /\ m.exprs[x].args = e
    BY <1>3, <1>6, <2>2 DEF HeldScope
  <2>3. CASE UpperPlace(m) /\ m.scopes[Global].upper = e
    BY <1>3, <2>3 DEF HeldScope, UpperPlace
  <2>4. CASE \E d \in DOMAIN m.todo : EnvPlace(m, d) /\ m.todo[d].e = e
    BY <1>3, <1>9, <2>4 DEF HeldScope
  <2> QED
    BY <1>11, <2>1, <2>2, <2>3, <2>4 DEF HeldScope
<1>12. Tidy(n)
  <2>1. \A d \in DOMAIN n.todo :
          (n.todo[d].fn = "core" => n.todo[d].next >= 1) /\ (n.todo[d].fn = "endlet" => n.todo[d].e > Global)
    <3> TAKE d \in DOMAIN n.todo
    <3>1. CASE d = l
      BY <1>3, <3>1
    <3>2. CASE d # l
      BY <1>3, <3>2 DEF Tidy
    <3> QED
      BY <3>1, <3>2
  <2>2. \A e \in DOMAIN m.scopes :
          Freed(n, "scope", e) => n.scopes[e].upper = 0 /\ DOMAIN n.scopes[e].dict = {}
    BY <1>3, <1>4 DEF Tidy
  <2> QED
    BY <1>1, <1>3, <2>1, <2>2, TidyStays
<1>13. Stands(m, n)
  BY <1>3, <1>4 DEF Stands
<1> QED
  BY <1>3, <1>10, <1>11, <1>12, <1>13 DEF HeldBut

\* The table of a scope is given back when nothing is left that it owns; the scope above
\* has no owner then.
LEMMA HeldFreeScope ==
  ASSUME NEW m, Good(m), Tidy(m), HeldBut(m, {}, {}), m.todo # <<>>, NEW t, t = Last(m.todo), t.fn = "env",
         t.left = {}, NEW n, n = Free([Pop(m) EXCEPT !.scopes[t.e] = Scope(0)], <<"scope", t.e>>)
  PROVE  Tidy(n) /\ Stands(m, n) /\ HeldBut(n, {}, {m.scopes[t.e].upper})
<1> DEFINE l == Top(m)
           f == <<"scope", t.e>>
           k == [Pop(m) EXCEPT !.scopes[t.e] = Scope(0)]
<1>1. m \in Memory /\ InOnePiece(m) /\ IsInjective(m.frees) /\ ScopesOwned(m)
  BY DEF Good
<1>2. /\ Pop(m) \in Memory
      /\ Pop(m).exprs = m.exprs /\ Pop(m).scopes = m.scopes /\ Pop(m).frees = m.frees
      /\ l \in DOMAIN m.todo /\ l \in Nat /\ m.todo[l] = t /\ t \in Tasks
      /\ DOMAIN Pop(m).todo = DOMAIN m.todo \ {l}
      /\ \A d \in DOMAIN m.todo : d # l => Pop(m).todo[d] = m.todo[d]
  BY <1>1, PoppedOne
<1>3. t.e \in DOMAIN m.scopes /\ t.e \in Nat
  BY <1>1, <1>2, Domains DEF InOnePiece
<1>4. f \in {"expr", "scope"} \X Nat /\ n = Free(k, f)
  BY <1>3
<1>5. Scope(0) \in Scopes /\ Scope(0).upper = 0 /\ DOMAIN Scope(0).dict = {}
  <2>1. <<>> \in [{} -> Nat]
    OBVIOUS
  <2>2. <<>> \in Dicts
    BY <2>1 DEF Dicts
  <2> QED
    BY <2>2 DEF Scope, Scopes
<1>6. /\ k \in Memory
      /\ k.exprs = m.exprs /\ k.frees = m.frees /\ k.todo = Pop(m).todo
      /\ DOMAIN k.scopes = DOMAIN m.scopes /\ k.scopes[t.e] = Scope(0)
      /\ \A z \in DOMAIN m.scopes : z # t.e => k.scopes[z] = m.scopes[z]
  BY <1>2, <1>3, <1>5, ChangedScopes
<1>7. f \notin ToSet(m.frees)
  <2>1. <<"task", l>> \in ScopePlaces(m) /\ ScopeAtPlace(m, <<"task", l>>) = t.e
    BY <1>2 DEF ScopePlaces, ScopeAtPlace, EnvPlace
  <2> QED
    BY <1>1, <2>1 DEF ScopesOwned, Freed, f
<1> HIDE DEF f, k, l
<1>8. n.exprs = k.exprs /\ n.scopes = k.scopes /\ n.todo = k.todo /\ n.frees = Append(k.frees, f)
  <2> DEFINE r == Free(k, f)
  <2>1. k \in Memory /\ f \in {"expr", "scope"} \X Nat
    BY <1>4, <1>6
  <2>2. r.exprs = k.exprs /\ r.scopes = k.scopes /\ r.todo = k.todo /\ r.frees = Append(k.frees, f)
    BY <2>1, FreeMemory
  <2>3. n = r
    BY <1>4
  <2> HIDE DEF r
  <2> QED
    BY <2>2, <2>3
<1>9. ToSet(n.frees) = ToSet(m.frees) \cup {f}
  BY <1>1, <1>4, <1>6, <1>7, <1>8, OnceMore, ZenonT(20)
<1>10. /\ \A z : Freed(n, "expr", z) <=> Freed(m, "expr", z)
       /\ \A z : Freed(n, "scope", z) <=> Freed(m, "scope", z) \/ z = t.e
  BY <1>9 DEF Freed, f
<1>11. /\ n.exprs = m.exprs /\ DOMAIN n.scopes = DOMAIN m.scopes
       /\ n.scopes[t.e].upper = 0 /\ DOMAIN n.scopes[t.e].dict = {}
       /\ \A z \in DOMAIN m.scopes : z # t.e => n.scopes[z] = m.scopes[z]
       /\ DOMAIN n.todo = DOMAIN m.todo \ {l} /\ \A d \in DOMAIN n.todo : n.todo[d] = m.todo[d]
  <2>1. n.exprs = m.exprs /\ n.scopes = k.scopes /\ n.todo = Pop(m).todo
    BY <1>6, <1>8
  <2>2. DOMAIN n.scopes = DOMAIN m.scopes /\ \A z \in DOMAIN m.scopes : z # t.e => n.scopes[z] = m.scopes[z]
    BY <1>6, <2>1
  <2>3. n.scopes[t.e].upper = 0 /\ DOMAIN n.scopes[t.e].dict = {}
    BY <1>5, <1>6, <2>1
  <2>4. DOMAIN n.todo = DOMAIN m.todo \ {l} /\ \A d \in DOMAIN n.todo : n.todo[d] = m.todo[d]
    BY <1>2, <2>1
  <2> QED
    BY <2>1, <2>2, <2>3, <2>4
<1>12. n.exprs = m.exprs
  BY <1>11
<1>13. ASSUME NEW z \in DOMAIN m.exprs, NEW i \in DOMAIN m.exprs[z].kids, KidPlace(m, z, i)
       PROVE  KidPlace(n, z, i)
  <2>1. ~Freed(n, "expr", z)
    BY <1>10, <1>13 DEF KidPlace
  <2>2. \A d \in DOMAIN n.todo : d \in DOMAIN m.todo /\ n.todo[d] = m.todo[d]
    BY <1>11
  <2>3. n.exprs = m.exprs
    BY <1>11
  <2> QED
    BY <1>13, <2>1, <2>2, <2>3 DEF KidPlace
<1>14. ASSUME NEW z \in DOMAIN m.exprs, ArgsPlace(m, z) PROVE ArgsPlace(n, z)
  <2> DEFINE i == Len(m.exprs[z].kids) + 1
  <2>1. /\ z \in DOMAIN n.exprs /\ n.exprs[z] = m.exprs[z] /\ ~Freed(n, "expr", z)
        /\ m.exprs[z].form = "LAMBDA"
    BY <1>10, <1>14, <1>12 DEF ArgsPlace
  <2>2. \A d \in DOMAIN m.todo : m.todo[d].fn = "core" /\ m.todo[d].x = z => m.todo[d].next <= i
    BY <1>14 DEF ArgsPlace
  <2> HIDE DEF i
  <2>3. \A d \in DOMAIN n.todo : n.todo[d].fn = "core" /\ n.todo[d].x = z => n.todo[d].next <= i
    BY <1>11, <2>2
  <2> QED
    BY <2>1, <2>3 DEF ArgsPlace, i
<1>15. ASSUME NEW s \in DOMAIN m.scopes, NEW q \in DOMAIN m.scopes[s].dict, KeyPlace(m, s, q)
       PROVE  s \in DOMAIN n.scopes /\ q \in DOMAIN n.scopes[s].dict
              /\ KeyPlace(n, s, q) /\ n.scopes[s].dict[q] = m.scopes[s].dict[q]
  <2>1. s # t.e
    BY <1>2, <1>15 DEF KeyPlace
  <2> QED
    BY <1>11, <1>15, <2>1, SMTT(30) DEF KeyPlace
<1>16. ASSUME NEW d \in DOMAIN m.todo, CorePlace(m, d)
       PROVE  d \in DOMAIN n.todo /\ CorePlace(n, d) /\ n.todo[d].x = m.todo[d].x
  BY <1>2, <1>11, <1>16 DEF CorePlace
<1>17. ASSUME NEW d \in DOMAIN m.todo, EnvPlace(m, d), d # l
       PROVE  d \in DOMAIN n.todo /\ EnvPlace(n, d) /\ n.todo[d].e = m.todo[d].e
  BY <1>2, <1>11, <1>17 DEF EnvPlace
<1>18. ASSUME NEW x, HeldExpr(m, x) PROVE HeldExpr(n, x)
  <2>1. CASE Freed(m, "expr", x)
    BY <1>10, <2>1 DEF HeldExpr
  <2>2. CASE \E z \in DOMAIN m.exprs : \E i \in DOMAIN m.exprs[z].kids :
          KidPlace(m, z, i) /\ m.exprs[z].kids[i] = x
    <3>1. \E z \in DOMAIN n.exprs : \E i \in DOMAIN n.exprs[z].kids :
            KidPlace(n, z, i) /\ n.exprs[z].kids[i] = x
      BY <1>13, <1>12, <2>2
    <3> QED
      BY <3>1 DEF HeldExpr
  <2>3. CASE \E e \in DOMAIN m.scopes : \E q \in DOMAIN m.scopes[e].dict :
               KeyPlace(m, e, q) /\ m.scopes[e].dict[q] = x
    <3>1. PICK e \in DOMAIN m.scopes : \E q \in DOMAIN m.scopes[e].dict :
            KeyPlace(m, e, q) /\ m.scopes[e].dict[q] = x
      BY <2>3
    <3>2. PICK q \in DOMAIN m.scopes[e].dict : KeyPlace(m, e, q) /\ m.scopes[e].dict[q] = x
      BY <3>1
    <3>3. e \in DOMAIN n.scopes /\ q \in DOMAIN n.scopes[e].dict /\ KeyPlace(n, e, q) /\ n.scopes[e].dict[q] = x
      BY <1>15, <3>2
    <3> QED
      BY <3>3 DEF HeldExpr
  <2>4. CASE \E d \in DOMAIN m.todo : CorePlace(m, d) /\ m.todo[d].x = x
    BY <1>16, <2>4 DEF HeldExpr
  <2> QED
    BY <1>18, <2>1, <2>2, <2>3, <2>4 DEF HeldExpr
<1>19. ASSUME NEW e, HeldScope(m, e) PROVE e = m.scopes[t.e].upper \/ HeldScope(n, e)
  <2>1. CASE Freed(m, "scope", e)
    BY <1>10, <2>1 DEF HeldScope
  <2>2. CASE \E x \in DOMAIN m.exprs : ArgsPlace(m, x) /\ m.exprs[x].args = e
    BY <1>11, <1>14, <2>2, SMTT(30) DEF HeldScope
  <2>3. CASE UpperPlace(m) /\ m.scopes[Global].upper = e
    <3>1. Global \in DOMAIN m.scopes
      <4>1. DOMAIN m.scopes = 1..NewestScope(m) /\ NewestScope(m) \in Nat
        BY <1>1, Domains
      <4>2. NewestScope(m) >= 2
        BY DEF Good, Uppers, NewestScope
      <4> QED
        BY <4>1, <4>2 DEF Global
    <3>2. CASE t.e = Global
      BY <2>3, <3>2
    <3>3. CASE t.e # Global
      BY <1>11, <2>3, <3>1, <3>3 DEF HeldScope, UpperPlace
    <3> QED
      BY <3>2, <3>3
  <2>4. CASE \E d \in DOMAIN m.todo : EnvPlace(m, d) /\ m.todo[d].e = e
    <3>1. PICK d \in DOMAIN m.todo : EnvPlace(m, d) /\ m.todo[d].e = e
      BY <2>4
    <3>2. CASE d = l
      BY <1>2, <1>10, <3>1, <3>2 DEF HeldScope
    <3>3. CASE d # l
      BY <1>17, <3>1, <3>3 DEF HeldScope
    <3> QED
      BY <3>2, <3>3
  <2> QED
    BY <1>19, <2>1, <2>2, <2>3, <2>4 DEF HeldScope
<1>20. Tidy(n)
  <2>1. \A d \in DOMAIN n.todo :
          (n.todo[d].fn = "core" => n.todo[d].next >= 1) /\ (n.todo[d].fn = "endlet" => n.todo[d].e > Global)
    BY <1>11 DEF Tidy
  <2>2. \A e \in DOMAIN m.scopes :
          Freed(n, "scope", e) => n.scopes[e].upper = 0 /\ DOMAIN n.scopes[e].dict = {}
    <3> TAKE e \in DOMAIN m.scopes
    <3>1. CASE e = t.e
      BY <1>11, <3>1
    <3>2. CASE e # t.e
      BY <1>10, <1>11, <3>2, SMTT(30) DEF Tidy
    <3> QED
      BY <3>1, <3>2
  <2>3. \A e \in DOMAIN m.scopes : n.scopes[e].dict = m.scopes[e].dict \/ DOMAIN n.scopes[e].dict = {}
    BY <1>11
  <2>4. n.exprs = m.exprs /\ DOMAIN n.scopes = DOMAIN m.scopes
    BY <1>11
  <2> QED
    BY <1>1, <2>1, <2>2, <2>3, <2>4, TidyStays, SMTT(30)
<1>21. Stands(m, n)
  BY <1>10, <1>11 DEF Stands
<1> QED
  BY <1>11, <1>18, <1>19, <1>20, <1>21 DEF HeldBut

\* Names are lost with their scopes only, all along.
LEMMA StandsOn ==
  ASSUME NEW m, NEW k, NEW n, Stands(m, k), Stands(k, n)
  PROVE  Stands(m, n)
<1>1. /\ k.exprs = m.exprs /\ DOMAIN k.scopes = DOMAIN m.scopes
      /\ n.exprs = k.exprs /\ DOMAIN n.scopes = DOMAIN k.scopes
      /\ \A x : Freed(m, "expr", x) => Freed(k, "expr", x)
      /\ \A x : Freed(k, "expr", x) => Freed(n, "expr", x)
      /\ \A e : Freed(m, "scope", e) => Freed(k, "scope", e)
      /\ \A e : Freed(k, "scope", e) => Freed(n, "scope", e)
  BY DEF Stands
<1>2. \A e \in DOMAIN m.scopes : n.scopes[e].dict = m.scopes[e].dict \/ Freed(n, "scope", e)
  <2> TAKE e \in DOMAIN m.scopes
  <2>1. k.scopes[e].dict = m.scopes[e].dict \/ Freed(k, "scope", e)
    BY DEF Stands
  <2>2. n.scopes[e].dict = k.scopes[e].dict \/ Freed(n, "scope", e)
    BY <1>1 DEF Stands
  <2> QED
    BY <1>1, <2>1, <2>2
<1> QED
  BY <1>1, <1>2 DEF Stands

\* A step of core_destroy.
LEMMA HeldCoreDestroy ==
  ASSUME NEW m, Good(m), Tidy(m), HeldBut(m, {}, {}), m.todo # <<>>, NEW t, t = Last(m.todo), t.fn = "core",
         NEW q, q = CoreDestroy(Pop(m), t)
  PROVE  Tidy(q) /\ Stands(m, q) /\ HeldBut(q, {}, {})
<1> DEFINE n == Push(Pop(m), <<[t EXCEPT !.next = @ + 1]>>)
           freed == Free(Pop(m), <<"expr", t.x>>)
           o == m.exprs[t.x]
<1>1. m \in Memory
  BY DEF Good
<1>2. Pop(m).exprs = m.exprs
  BY <1>1, PoppedOne
<1>3. /\ Good(n) /\ n.exprs = m.exprs /\ n.scopes = m.scopes
      /\ t.next \in DOMAIN o.kids => o.kids[t.next] \in DOMAIN m.exprs
      /\ o.form = "LAMBDA" /\ t.next = Len(o.kids) + 1 => o.args \in DOMAIN m.scopes
  BY GoodLaterCore
<1>4. /\ Tidy(n) /\ Stands(m, n)
      /\ t.next \in DOMAIN o.kids => HeldBut(n, {o.kids[t.next]}, {})
      /\ o.form = "LAMBDA" /\ t.next = Len(o.kids) + 1 => HeldBut(n, {}, {o.args})
  BY HeldLaterCore
<1>5. q = IF t.next \in DOMAIN o.kids THEN Push(n, <<DestroyExpr(o.kids[t.next])>>)
          ELSE IF o.form = "LAMBDA" /\ t.next = Len(o.kids) + 1 THEN DestroyAlone(n, o.args)
          ELSE freed
  BY <1>2 DEF CoreDestroy
<1>6. o.form = "LAMBDA" => o.args > Global
  <2>1. Last(m.todo) = m.todo[Top(m)] /\ Top(m) \in DOMAIN m.todo
    BY <1>1, PoppedOne
  <2>2. t.x \in DOMAIN m.exprs
    BY <2>1 DEF Good, InOnePiece
  <2> QED
    BY <2>2 DEF Tidy
<1>7. CASE t.next \notin DOMAIN o.kids /\ ~(o.form = "LAMBDA" /\ t.next = Len(o.kids) + 1)
  <2>1. q = freed
    BY <1>5, <1>7
  <2> QED
    BY <1>7, <2>1, HeldFreeExpr
<1> HIDE DEF n, freed, o
<1>8. CASE t.next \in DOMAIN o.kids
  <2> DEFINE y == o.kids[t.next]
  <2>1. q = Push(n, <<DestroyExpr(y)>>) /\ y \in DOMAIN n.exprs /\ HeldBut(n, {y}, {})
    BY <1>3, <1>4, <1>5, <1>8
  <2> HIDE DEF y
  <2>2. Tidy(q) /\ Stands(n, q) /\ HeldBut(q, {}, {})
    BY <1>3, <1>4, <2>1, HeldPushCore
  <2> QED
    BY <1>4, <2>2, StandsOn
<1>9. CASE t.next \notin DOMAIN o.kids /\ o.form = "LAMBDA" /\ t.next = Len(o.kids) + 1
  <2> DEFINE e == o.args
  <2>1. q = DestroyAlone(n, e) /\ e \in DOMAIN n.scopes /\ e > Global /\ HeldBut(n, {}, {e})
    BY <1>3, <1>4, <1>5, <1>6, <1>9
  <2> HIDE DEF e
  <2>2. n \in Memory /\ InOnePiece(n)
    BY <1>3 DEF Good
  <2>3. Tidy(q) /\ Stands(n, q) /\ HeldBut(q, {}, {})
    BY <1>4, <2>1, <2>2, HeldAlone
  <2> QED
    BY <1>4, <2>3, StandsOn
<1> QED
  BY <1>7, <1>8, <1>9

\* A step of env_destroy.
LEMMA HeldEnvDestroyStep ==
  ASSUME NEW m, Good(m), Tidy(m), HeldBut(m, {}, {}), m.todo # <<>>, NEW t, t = Last(m.todo), t.fn = "env"
  PROVE  /\ Tidy(EnvDestroyStep(Pop(m), t)) /\ Stands(m, EnvDestroyStep(Pop(m), t))
         /\ HeldBut(EnvDestroyStep(Pop(m), t), {}, {})
<1> DEFINE name == CHOOSE w \in t.left : TRUE
           u == [t EXCEPT !.left = @ \ {name}]
           n == Push(Pop(m), <<u>>)
           freed == Free([Pop(m) EXCEPT !.scopes[t.e] = Scope(0)], <<"scope", t.e>>)
           up == m.scopes[t.e].upper
           x == m.scopes[t.e].dict[name]
           q == EnvDestroyStep(Pop(m), t)
<1> SUFFICES Tidy(q) /\ Stands(m, q) /\ HeldBut(q, {}, {})
  OBVIOUS
<1>1. m \in Memory
  BY DEF Good
<1>2. Pop(m).scopes = m.scopes /\ t \in Tasks
  BY <1>1, PoppedOne
<1>3. EnvDestroyStep(Pop(m), t) =
        IF t.left # {} THEN Push(n, <<DestroyExpr(x)>>)
        ELSE IF up # 0 THEN Push(freed, <<EnvDestroy(up, freed.scopes[up].dict)>>)
        ELSE freed
  BY <1>2 DEF EnvDestroyStep
<1>4. q = IF t.left # {} THEN Push(n, <<DestroyExpr(x)>>)
          ELSE IF up # 0 THEN Push(freed, <<EnvDestroy(up, freed.scopes[up].dict)>>)
          ELSE freed
  BY <1>3
<1>5. t \in [fn : {"env"}, e : Nat, left : SUBSET Texts]
  BY <1>2 DEF Tasks, Holding, Destroying, Generating
<1>6. u \in [fn : {"env"}, e : Nat, left : SUBSET Texts] /\ u.e = t.e /\ u.left = t.left \ {name}
  BY <1>5
<1>7. u \in Tasks /\ u.fn = "env"
  BY <1>6 DEF Tasks, Holding, Destroying
<1>8. t.left = {} => /\ Good(freed) /\ (up # 0 => up \in DOMAIN freed.scopes)
                     /\ Tidy(freed) /\ Stands(m, freed) /\ HeldBut(freed, {}, {up})
  BY GoodFreeScope, HeldFreeScope
<1> HIDE DEF u, freed, n, x, name, q
<1>9. CASE t.left # {}
  <2>1. name \in t.left
    BY <1>9 DEF name
  <2>2. n = Push(Pop(m), <<u>>) /\ x = m.scopes[t.e].dict[name]
    BY DEF n, x
  <2> HIDE DEF up
  <2>3. Good(n) /\ n.exprs = m.exprs
    BY <1>6, <1>7, <2>1, <2>2, GoodLaterEnv, SMTT(30)
  <2>4. m.scopes[t.e].dict[name] \in DOMAIN m.exprs
    BY <1>6, <1>7, <2>1, <2>2, GoodLaterEnv
  <2>5. Tidy(n) /\ Stands(m, n) /\ HeldBut(n, {m.scopes[t.e].dict[name]}, {})
    BY <1>6, <1>7, <2>1, <2>2, HeldTurnEnv
  <2>6. x \in DOMAIN n.exprs /\ HeldBut(n, {x}, {}) /\ q = Push(n, <<DestroyExpr(x)>>)
    BY <1>4, <1>9, <2>2, <2>3, <2>5, <2>4
  <2>7. Tidy(q) /\ Stands(n, q) /\ HeldBut(q, {}, {})
    BY <2>3, <2>5, <2>6, HeldPushCore
  <2> QED
    BY <2>5, <2>7, StandsOn
<1>10. CASE t.left = {} /\ up # 0
  <2> DEFINE w == EnvDestroy(up, freed.scopes[up].dict)
             l == Top(q)
  <2>1. /\ freed \in Memory /\ InOnePiece(freed) /\ Tidy(freed) /\ up \in DOMAIN freed.scopes
        /\ HeldBut(freed, {}, {up}) /\ q = Push(freed, <<w>>)
    BY <1>4, <1>8, <1>10 DEF Good
  <2> HIDE DEF up
  <2>2. w \in Tasks
    BY <2>1, EnvTask
  <2> HIDE DEF w, l
  <2>3. /\ q.exprs = freed.exprs /\ q.scopes = freed.scopes /\ q.frees = freed.frees
        /\ l \notin DOMAIN freed.todo /\ DOMAIN q.todo = DOMAIN freed.todo \cup {l} /\ q.todo[l] = w
        /\ \A d \in DOMAIN freed.todo : q.todo[d] = freed.todo[d]
    <3>1. q.exprs = freed.exprs /\ q.scopes = freed.scopes /\ q.frees = freed.frees
      BY <2>1, <2>2, PushedOne
    <3>2. Top(q) \notin DOMAIN freed.todo /\ DOMAIN q.todo = DOMAIN freed.todo \cup {Top(q)}
      BY <2>1, <2>2, PushedOne
    <3>3. q.todo[Top(q)] = w /\ \A d \in DOMAIN freed.todo : q.todo[d] = freed.todo[d]
      BY <2>1, <2>2, PushedOne
    <3> QED
      BY <3>1, <3>2, <3>3 DEF l
  <2>4. EnvNext(freed, q, up)
    BY <2>3 DEF EnvNext, w
  <2>5. Tidy(q) /\ Stands(freed, q) /\ HeldBut(q, {}, {})
    BY <2>1, <2>4, HeldPushEnv
  <2> QED
    BY <1>8, <1>10, <2>5, StandsOn
<1>11. CASE t.left = {} /\ up = 0
  <2>1. q = freed /\ Tidy(q) /\ Stands(m, q) /\ HeldBut(q, {}, {0})
    BY <1>4, <1>8, <1>11
  <2>2. 0 \notin DOMAIN q.scopes
    <3>1. q \in Memory
      BY <1>8, <1>11, <2>1 DEF Good
    <3> QED
      BY <3>1, Domains
  <2>3. HeldBut(q, {}, {})
    BY <2>1, <2>2 DEF HeldBut
  <2> QED
    BY <2>1, <2>3
<1> QED
  BY <1>9, <1>10, <1>11

\* The end of a let.
LEMMA HeldEndLet ==
  ASSUME NEW m, Good(m), Tidy(m), HeldBut(m, {}, {}), m.todo # <<>>, NEW t, t = Last(m.todo), t.fn = "endlet",
         NEW q, q = DestroyAlone(Pop(m), t.e)
  PROVE  Tidy(q) /\ Stands(m, q) /\ HeldBut(q, {}, {})
<1> DEFINE k == Pop(m)
<1>1. m \in Memory /\ Calm(m)
  BY GoodQuiet DEF Good
<1>2. /\ Calm(k) /\ k.exprs = m.exprs /\ k.scopes = m.scopes /\ k.frees = m.frees /\ t.e \in DOMAIN m.scopes
      /\ Top(m) \in DOMAIN m.todo /\ m.todo[Top(m)] = t
  BY <1>1, CalmPop, PoppedOne
<1>3. Tidy(k) /\ HeldBut(k, {}, IF t.fn = "endlet" THEN {t.e} ELSE {})
  BY <1>1, HeldPop
<1>4. t.e > Global
  BY <1>2 DEF Tidy
<1>5. q = DestroyAlone(k, t.e)
  OBVIOUS
<1> HIDE DEF k
<1>6. k \in Memory /\ InOnePiece(k) /\ HeldBut(k, {}, {t.e})
  BY <1>2, <1>3 DEF Calm, Good
<1>7. Tidy(q) /\ Stands(k, q) /\ HeldBut(q, {}, {})
  <2> DEFINE e == t.e
  <2>1. e \in DOMAIN k.scopes /\ e > Global /\ HeldBut(k, {}, {e}) /\ q = DestroyAlone(k, e)
    BY <1>2, <1>4, <1>5, <1>6
  <2> HIDE DEF e
  <2> QED
    BY <1>3, <1>6, <2>1, HeldAlone
<1>8. Stands(m, k)
  BY <1>2 DEF Stands, Freed
<1> QED
  BY <1>7, <1>8, StandsOn

\* Whatever is destroyed, the callers that generate go on with their scopes and names.
LEMMA OnceDestroys ==
  ASSUME NEW m, Good(m), Safe(m), NEW nodes, Once(m, nodes), m.todo # <<>>, NEW t, t = Last(m.todo),
         t.fn \in {"endlet", "core", "env"}, NEW n, n = Step(m), Stands(m, n)
  PROVE  Once(n, nodes)
<1> DEFINE k == Pop(m)
<1>1. m \in Memory /\ InOnePiece(m) /\ Uppers(m) /\ Younger(m) /\ Safe(n)
  BY SafeDestroys DEF Good, Safe
<1>2. /\ DOMAIN k.todo = DOMAIN m.todo \ {Top(m)}
      /\ Top(m) \in DOMAIN m.todo /\ m.todo[Top(m)] = t
      /\ \A d \in DOMAIN m.todo : d \in Nat /\ (d # Top(m) => k.todo[d] = m.todo[d])
  BY <1>1, PoppedOne
<1>3. /\ Newest(m) \in Nat /\ NewestScope(m) \in Nat
      /\ DOMAIN m.exprs = 1..Newest(m) /\ DOMAIN m.scopes = 1..NewestScope(m)
  BY <1>1, Domains
<1>4. /\ t.fn = "core" => t.x \in DOMAIN m.exprs
      /\ t.fn \in {"endlet", "env"} => t.e \in DOMAIN m.scopes
  BY <1>1, <1>2 DEF InOnePiece
<1>5. Leaves(k, n, 0, 1)
  <2>1. Apart(m, 0, 1)
    <3>1. \A z \in DOMAIN m.exprs : m.exprs[z].form = "LAMBDA" => m.exprs[z].args \in DOMAIN m.scopes
      BY <1>1 DEF InOnePiece
    <3>2. \A s \in DOMAIN m.scopes : \A name \in DOMAIN m.scopes[s].dict :
            m.scopes[s].dict[name] \in DOMAIN m.exprs
      BY <1>1 DEF InOnePiece
    <3> QED
      BY <1>3, <3>1, <3>2 DEF Apart
  <2>2. Beyond(t, 0, 1)
    BY <1>3, <1>4 DEF Beyond
  <2>3. t.fn = "env" /\ m.scopes[t.e].upper # 0 => m.scopes[t.e].upper >= 1
    <3>1. \A e \in 1..NewestScope(m) : m.scopes[e].upper \in 0..(e - 1)
      BY <1>1, <1>3 DEF InOnePiece
    <3> QED
      BY <1>3, <1>4, <3>1
  <2>4. 0 \in Nat /\ 1 \in Nat
    OBVIOUS
  <2> QED
    BY <1>1, <2>1, <2>2, <2>3, <2>4, LeavesStep
<1> HIDE DEF k
<1>6. /\ \A d \in DOMAIN n.todo : n.todo[d].fn \in Writing => d \in DOMAIN m.todo /\ n.todo[d] = m.todo[d]
      /\ \A d \in DOMAIN m.todo : m.todo[d].fn \in Writing => d \in DOMAIN n.todo /\ n.todo[d] = m.todo[d]
  <2>1. t.fn \notin Writing
    BY DEF Writing
  <2>2. \A d \in DOMAIN k.todo : d \in DOMAIN n.todo /\ n.todo[d] = k.todo[d]
    BY <1>5 DEF Leaves
  <2>3. \A d \in DOMAIN n.todo : n.todo[d].fn \in Writing => d \in DOMAIN k.todo
    BY <1>5 DEF Leaves
  <2> QED
    BY <1>2, <2>1, <2>2, <2>3
<1>7. \A s : Binder(s) \/ Definer(s) \/ s.fn \in {"gen", "child"} => s.fn \in Writing
  BY DEF Binder, Definer, Writing
<1>8. n.exprs = m.exprs
  BY DEF Stands
<1>9. ASSUME NEW d \in DOMAIN n.todo, n.todo[d].fn \in Writing
      PROVE  n.scopes[n.todo[d].e].dict = m.scopes[n.todo[d].e].dict
  <2>1. Live(n, n.todo[d])
    BY <1>1, <1>9 DEF Safe
  <2>2. n.todo[d].e \in DOMAIN n.scopes /\ ~Freed(n, "scope", n.todo[d].e)
    BY <2>1 DEF Live, LiveScope
  <2> QED
    BY <2>2 DEF Stands
<1>10. ASSUME NEW d \in DOMAIN n.todo, n.todo[d].fn \in Writing
       PROVE  /\ Writer(n, n.todo[d]) <=> Writer(m, n.todo[d])
              /\ Target(n, n.todo[d]) = Target(m, n.todo[d])
  BY <1>9, <1>10 DEF Writer, Target
<1>11. \A x : (Blank(m, x) => Blank(n, x)) /\ (Settled(m, x) => Settled(n, x))
  BY <1>8 DEF Blank, Settled
<1>12. \A d \in DOMAIN n.todo : Writer(n, n.todo[d]) => n.todo[d].fn \in Writing
  BY <1>7 DEF Writer
<1>13. ASSUME NEW d \in DOMAIN n.todo PROVE Clear(n, n.todo[d], nodes)
  <2>1. CASE n.todo[d].fn \in Writing
    <3>1. Clear(m, n.todo[d], nodes)
      BY <1>6, <2>1 DEF Once
    <3> QED
      BY <1>9, <1>10, <1>11, <2>1, <3>1 DEF Clear
  <2>2. CASE n.todo[d].fn \notin Writing
    BY <1>7, <1>12, <2>2 DEF Clear, Writing
  <2> QED
    BY <2>1, <2>2
<1>14. ASSUME NEW d \in DOMAIN n.todo, Definer(n.todo[d])
       PROVE  \/ NameOf(n.todo[d]) \in DOMAIN n.scopes[n.todo[d].e].dict
              \/ \E c \in DOMAIN n.todo : c > d /\ Binder(n.todo[c]) /\ Same(n.todo[c], n.todo[d])
  <2>1. d \in DOMAIN m.todo /\ n.todo[d] = m.todo[d] /\ n.todo[d].fn \in Writing
    BY <1>6, <1>7, <1>14
  <2>2. \/ NameOf(m.todo[d]) \in DOMAIN m.scopes[m.todo[d].e].dict
        \/ \E c \in DOMAIN m.todo : c > d /\ Binder(m.todo[c]) /\ Same(m.todo[c], m.todo[d])
    BY <1>14, <2>1 DEF Once, Ready
  <2>3. CASE NameOf(m.todo[d]) \in DOMAIN m.scopes[m.todo[d].e].dict
    BY <1>9, <2>1, <2>3
  <2>4. CASE \E c \in DOMAIN m.todo : c > d /\ Binder(m.todo[c]) /\ Same(m.todo[c], m.todo[d])
    BY <1>6, <1>7, <2>1, <2>4
  <2> QED
    BY <2>2, <2>3, <2>4
<1>15. \A d \in DOMAIN n.todo : Ready(n, d)
  BY <1>14 DEF Ready
<1>16. ASSUME NEW c \in DOMAIN n.todo, NEW d \in DOMAIN n.todo, c # d, Clash(n, n.todo[c], n.todo[d])
       PROVE  FALSE
  <2>1. n.todo[c].fn \in Writing /\ n.todo[d].fn \in Writing
    BY <1>7, <1>12, <1>16 DEF Clash
  <2>2. /\ c \in DOMAIN m.todo /\ n.todo[c] = m.todo[c]
        /\ d \in DOMAIN m.todo /\ n.todo[d] = m.todo[d]
    BY <1>6, <2>1
  <2>3. Clash(m, m.todo[c], m.todo[d])
    BY <1>10, <1>16, <2>1, <2>2 DEF Clash
  <2> QED
    BY <1>16, <2>2, <2>3 DEF Once
<1> QED
  BY <1>13, <1>15, <1>16 DEF Once

\* The tasks that destroy.
LEMMA KeptDestroys ==
  ASSUME NEW m, Good(m), Safe(m), NEW nodes, Kept(m, {}, nodes), m.todo # <<>>, NEW t, t = Last(m.todo),
         t.fn \in {"endlet", "core", "env"}
  PROVE  Kept(Step(m), {}, nodes)
<1> DEFINE n == Step(m)
<1>1. Tidy(m) /\ HeldBut(m, {}, {}) /\ Once(m, nodes)
  BY DEF Kept
<1>2. /\ t.fn = "core" => n = CoreDestroy(Pop(m), t)
      /\ t.fn = "env" => n = EnvDestroyStep(Pop(m), t)
      /\ t.fn = "endlet" => n = DestroyAlone(Pop(m), t.e)
  BY DEF Step
<1>3. n = Step(m)
  OBVIOUS
<1> HIDE DEF n
<1>4. Tidy(n) /\ Stands(m, n) /\ HeldBut(n, {}, {})
  <2>1. CASE t.fn = "core"
    BY <1>1, <1>2, <2>1, HeldCoreDestroy
  <2>2. CASE t.fn = "env"
    BY <1>1, <1>2, <2>2, HeldEnvDestroyStep
  <2>3. CASE t.fn = "endlet"
    BY <1>1, <1>2, <2>3, HeldEndLet
  <2> QED
    BY <2>1, <2>2, <2>3
<1>5. Once(n, nodes)
  BY <1>1, <1>3, <1>4, OnceDestroys
<1> QED
  BY <1>4, <1>5 DEF Kept, n

\* A step of what is to be done, but for the client.
LEMMA KeptStep ==
  ASSUME NEW m, Good(m), Safe(m), NEW nodes, Simple(nodes), Kept(m, {}, nodes),
         m.todo # <<>>, Last(m.todo).fn # "client"
  PROVE  Kept(Step(m), {}, nodes)
<1>1. Last(m.todo) \in Tasks
  BY Popped DEF Good
<1>2. Last(m.todo).fn \in Writing \/ Last(m.todo).fn \in {"endlet", "core", "env"}
  BY <1>1 DEF Tasks, Holding, Destroying, Generating, Writing
<1> QED
  BY <1>2, KeptWrites, KeptDestroys

-----------------------------------------------------------------------------
(* The invariant *)

\* env_destroy of env begins.
LEMMA KeptDestroyBegins ==
  ASSUME NEW m, Good(m), NEW nodes, Kept(m, {}, nodes), m.todo = <<Client>>,
         NEW u, u = EnvDestroy(Global, m.scopes[Global].dict),
         NEW n, n = [m EXCEPT !.todo = <<u>>]
  PROVE  Kept(n, {}, nodes)
<1>1. m \in Memory /\ Tidy(m) /\ HeldBut(m, {}, {})
  BY DEF Good, Kept
<1>2. u.fn = "env" /\ u.e = Global /\ u.left = DOMAIN m.scopes[Global].dict
  BY DEF EnvDestroy
<1>3. /\ n.exprs = m.exprs /\ n.scopes = m.scopes /\ n.frees = m.frees
      /\ DOMAIN n.todo = {1} /\ n.todo[1] = u
  BY <1>1 DEF Memory
<1>4. DOMAIN m.todo = {1} /\ m.todo[1].fn = "client" /\ m.todo[1].e = Global
  BY DEF Client
<1>5. /\ \A z : Freed(n, "expr", z) <=> Freed(m, "expr", z)
      /\ \A z : Freed(n, "scope", z) <=> Freed(m, "scope", z)
  BY <1>3 DEF Freed
<1>6. \A z, i : KidPlace(m, z, i) => KidPlace(n, z, i)
  BY <1>2, <1>3, <1>5 DEF KidPlace
<1>7. ASSUME NEW z, ArgsPlace(m, z) PROVE ArgsPlace(n, z)
  BY <1>2, <1>3, <1>5, <1>7 DEF ArgsPlace
<1>8. \A e, k : KeyPlace(m, e, k) => KeyPlace(n, e, k)
  BY <1>2, <1>3 DEF KeyPlace
<1>9. \A d : ~CorePlace(m, d)
  BY <1>4 DEF CorePlace
<1>10. ASSUME NEW x, HeldExpr(m, x) PROVE HeldExpr(n, x)
  BY <1>3, <1>5, <1>6, <1>8, <1>9, <1>10 DEF HeldExpr
<1>11. ASSUME NEW e, HeldScope(m, e) PROVE HeldScope(n, e)
  <2>1. CASE Freed(m, "scope", e)
    BY <1>5, <2>1 DEF HeldScope
  <2>2. CASE \E x \in DOMAIN m.exprs : ArgsPlace(m, x) /\ m.exprs[x].args = e
    BY <1>3, <1>7, <2>2 DEF HeldScope
  <2>3. CASE UpperPlace(m) /\ m.scopes[Global].upper = e
    BY <1>3, <2>3 DEF HeldScope, UpperPlace
  <2>4. CASE \E d \in DOMAIN m.todo : EnvPlace(m, d) /\ m.todo[d].e = e
    BY <1>2, <1>3, <1>4, <2>4 DEF HeldScope, EnvPlace
  <2> QED
    BY <1>11, <2>1, <2>2, <2>3, <2>4 DEF HeldScope
<1>12. HeldBut(n, {}, {})
  BY <1>1, <1>3, <1>10, <1>11 DEF HeldBut
<1>13. Tidy(n)
  <2>1. \A d \in DOMAIN n.todo :
          (n.todo[d].fn = "core" => n.todo[d].next >= 1) /\ (n.todo[d].fn = "endlet" => n.todo[d].e > Global)
    BY <1>2, <1>3
  <2>2. \A e \in DOMAIN m.scopes :
          Freed(n, "scope", e) => n.scopes[e].upper = 0 /\ DOMAIN n.scopes[e].dict = {}
    BY <1>1, <1>3, <1>5 DEF Tidy
  <2> QED
    BY <1>1, <1>3, <2>1, <2>2, TidyStays DEF Good
<1>14. Once(n, nodes)
  <2>1. ~Binder(u) /\ ~Definer(u) /\ ~Writer(n, u) /\ u.fn # "child"
    BY <1>2 DEF Binder, Definer, Writer
  <2>2. Clear(n, u, nodes)
    BY <1>2, <2>1 DEF Clear
  <2>3. Ready(n, 1)
    BY <1>3, <2>1 DEF Ready
  <2> QED
    BY <1>3, <2>2, <2>3 DEF Once
<1> QED
  BY <1>12, <1>13, <1>14 DEF Kept

\* At first the intrinsics are in their scope.
LEMMA InitFreedInv == Init => FreedInv
<1> SUFFICES ASSUME Init PROVE FreedInv
  OBVIOUS
<1>1. SafeInv /\ mem = Loaded /\ phase = "ready"
  BY InitSafeInv DEF Init
<1>2. Kept(mem, {}, NodesOf(ast))
  BY <1>1, KeptLoaded
<1> QED
  BY <1>1, <1>2 DEF FreedInv

\* The nodes of a program that binds no name twice in a scope.
LEMMA SimpleProgram ==
  ASSUME ast \in Programs, NoDuplicates
  PROVE  /\ Simple(NodesOf(ast)) /\ ast \in NodesOf(ast)
         /\ ast.rule = "MODULE" => BindOnce(Last(ast.kids).kids)
<1>1. ast \in NodesOf(ast) /\ {n.kids : n \in NodesOf(ast)} \subseteq Seq(NodesOf(ast))
  BY ProgramsAssumption
<1>2. NodesOf(ast) \subseteq Nodes
  BY DEF Nodes
<1> QED
  BY <1>1, <1>2 DEF NoDuplicates, Simple

\* Every step keeps what is not freed owned.
LEMMA NextFreedInv == FreedInv /\ [Next]_vars => FreedInv'
<1> SUFFICES ASSUME FreedInv, [Next]_vars PROVE FreedInv'
  OBVIOUS
<1>1. /\ SafeInv /\ SafeInv' /\ IndInv /\ Good(mem) /\ Safe(mem) /\ Tasked /\ mem \in Memory /\ ast \in Programs
      /\ NoDuplicates => Kept(mem, {}, NodesOf(ast))
  BY NextSafeInv DEF FreedInv, SafeInv, IndInv, Good
<1>2. ast' = ast
  BY DEF Next, Coregen, AstDestroy, CorePrint, Destroy, vars
<1>3. NoDuplicates' <=> NoDuplicates
  BY <1>2 DEF NoDuplicates
<1>4. NoDuplicates => /\ Simple(NodesOf(ast)) /\ ast \in NodesOf(ast)
                      /\ ast.rule = "MODULE" => BindOnce(Last(ast.kids).kids)
  BY <1>1, SimpleProgram
<1>5. CASE Coregen
  <2>1. phase' # "ready" /\ phase' # "destroyed"
    BY <1>5 DEF Coregen
  <2>2. CASE phase = "ready"
    <3>1. mem = Loaded /\ mem' = FromModuleAst(Loaded, ast)
      BY <1>5, <2>2 DEF Coregen, FreedInv
    <3>2. NoDuplicates => Kept(mem', {}, NodesOf(ast))
      BY <1>4, <3>1, KeptFromModuleAst
    <3> QED
      BY <1>1, <1>2, <1>3, <2>1, <3>2 DEF FreedInv
  <2>3. CASE phase = "generating"
    <3>1. Len(mem.todo) > 1 /\ \A d \in 2..Len(mem.todo) : mem.todo[d].fn # "client"
      BY <1>1, <2>3 DEF Tasked
    <3>2. mem' = Step(mem)
      BY <1>5, <2>3 DEF Coregen
    <3>3. mem.todo \in Seq(Tasks) /\ Len(mem.todo) \in Nat
      BY <1>1, LenProperties DEF Memory
    <3>4. mem.todo # <<>>
      BY <3>1, EmptySeq
    <3>5. Last(mem.todo) = mem.todo[Len(mem.todo)] /\ Len(mem.todo) \in 2..Len(mem.todo)
      BY <1>1, <3>1, <3>3, <3>4, Popped
    <3>6. Last(mem.todo).fn # "client"
      BY <3>1, <3>5
    <3>7. NoDuplicates => Kept(mem', {}, NodesOf(ast))
      BY <1>1, <1>4, <3>2, <3>4, <3>6, KeptStep
    <3> QED
      BY <1>1, <1>2, <1>3, <2>1, <3>7 DEF FreedInv
  <2> QED
    BY <1>5, <2>2, <2>3 DEF Coregen
<1>6. CASE Destroy
  <2>1. phase' # "ready" /\ (phase' = "destroyed" => mem'.todo = <<>>)
    BY <1>6 DEF Destroy
  <2>2. CASE phase = "printed"
    <3> DEFINE u == EnvDestroy(Global, mem.scopes[Global].dict)
    <3>1. mem.todo = <<Client>> /\ mem' = [mem EXCEPT !.todo = <<u>>]
      BY <1>1, <1>6, <2>2 DEF Tasked, Destroy
    <3>2. NoDuplicates => Kept(mem', {}, NodesOf(ast))
      BY <1>1, <3>1, KeptDestroyBegins
    <3> QED
      BY <1>1, <1>2, <1>3, <2>1, <3>2 DEF FreedInv
  <2>3. CASE phase = "destroying"
    <3>1. mem.todo # <<>> /\ \A d \in DOMAIN mem.todo : mem.todo[d].fn # "client"
      BY <1>1, <2>3 DEF Tasked
    <3>2. mem' = Step(mem)
      BY <1>6, <2>3 DEF Destroy
    <3>3. Top(mem) \in DOMAIN mem.todo /\ mem.todo[Top(mem)] = Last(mem.todo)
      BY <1>1, <3>1, PoppedOne
    <3>4. NoDuplicates => Kept(mem', {}, NodesOf(ast))
      BY <1>1, <1>4, <3>1, <3>2, <3>3, KeptStep
    <3> QED
      BY <1>1, <1>2, <1>3, <2>1, <3>4 DEF FreedInv
  <2> QED
    BY <1>6, <2>2, <2>3 DEF Destroy
<1>7. CASE AstDestroy
  BY <1>1, <1>3, <1>7 DEF AstDestroy, FreedInv
<1>8. CASE CorePrint
  BY <1>1, <1>3, <1>8 DEF CorePrint, FreedInv
<1>9. CASE UNCHANGED vars
  BY <1>1, <1>3, <1>9 DEF vars, FreedInv
<1> QED
  BY <1>5, <1>6, <1>7, <1>8, <1>9 DEF Next

\* When nothing is to be done, the oldest expression that is left would have an older
\* owner that is left.
LEMMA NothingLeft ==
  ASSUME NEW m, Good(m), Younger(m), Tidy(m), HeldBut(m, {}, {}), m.todo = <<>>
  PROVE  ToSet(m.frees) = Objects(m)
<1>1. m \in Memory /\ InOnePiece(m) /\ Uppers(m)
  BY DEF Good
<1>2. /\ DOMAIN m.exprs = 1..Newest(m) /\ Newest(m) \in Nat
      /\ DOMAIN m.scopes = 1..NewestScope(m) /\ NewestScope(m) \in Nat
  BY <1>1, Domains
<1>3. DOMAIN m.todo = {}
  OBVIOUS
<1>4. Freed(m, "scope", Global)
  <2>1. Global \in DOMAIN m.scopes
    BY <1>1, <1>2 DEF Uppers, NewestScope, Global
  <2>2. HeldScope(m, Global)
    BY <2>1 DEF HeldBut
  <2>3. \A x \in DOMAIN m.exprs : ArgsPlace(m, x) => m.exprs[x].args > Global
    BY DEF ArgsPlace, Tidy
  <2>4. \A x \in DOMAIN m.exprs : ~(ArgsPlace(m, x) /\ m.exprs[x].args = Global)
    BY <2>3 DEF Global
  <2>5. m.scopes[Global].upper # Global
    BY <1>1 DEF Uppers, Global, Intrinsic
  <2> QED
    BY <1>3, <2>2, <2>4, <2>5 DEF HeldScope
<1>5. ~UpperPlace(m)
  <2>1. Global \in DOMAIN m.scopes
    BY <1>1, <1>2 DEF Uppers, NewestScope, Global
  <2> QED
    BY <1>4, <2>1 DEF Tidy, UpperPlace
<1>6. ASSUME NEW e \in DOMAIN m.scopes, ~Freed(m, "scope", e)
      PROVE  \E x \in DOMAIN m.exprs : ArgsPlace(m, x) /\ m.exprs[x].args = e
  <2>1. HeldScope(m, e)
    BY DEF HeldBut
  <2> QED
    BY <1>3, <1>5, <1>6, <2>1 DEF HeldScope
<1>7. ASSUME NEW y \in DOMAIN m.exprs, ~Freed(m, "expr", y)
      PROVE  \E z \in DOMAIN m.exprs : z < y /\ ~Freed(m, "expr", z)
  <2>1. HeldExpr(m, y)
    BY DEF HeldBut
  <2>2. CASE \E z \in DOMAIN m.exprs : \E i \in DOMAIN m.exprs[z].kids :
          KidPlace(m, z, i) /\ m.exprs[z].kids[i] = y
    BY <2>2 DEF Younger, KidPlace
  <2>3. CASE \E e \in DOMAIN m.scopes : \E k \in DOMAIN m.scopes[e].dict :
               KeyPlace(m, e, k) /\ m.scopes[e].dict[k] = y
    <3>1. PICK e \in DOMAIN m.scopes : \E k \in DOMAIN m.scopes[e].dict : m.scopes[e].dict[k] = y
      BY <2>3
    <3>2. PICK k \in DOMAIN m.scopes[e].dict : m.scopes[e].dict[k] = y
      BY <3>1
    <3>3. ~Freed(m, "scope", e)
      BY <3>2 DEF Tidy
    <3>4. PICK x \in DOMAIN m.exprs : ArgsPlace(m, x) /\ m.exprs[x].args = e
      BY <1>6, <3>3
    <3>5. ~Freed(m, "expr", x) /\ m.exprs[x].form = "LAMBDA"
      BY <3>4 DEF ArgsPlace
    <3>6. \A q \in DOMAIN m.scopes[e].dict : m.scopes[e].dict[q] > x
      BY <3>4, <3>5 DEF Tidy
    <3>7. y > x /\ x \in Nat /\ y \in Nat
      BY <1>2, <3>2, <3>6
    <3> QED
      BY <3>5, <3>7
  <2> QED
    BY <1>3, <1>7, <2>1, <2>2, <2>3 DEF HeldExpr
<1>8. \A x \in DOMAIN m.exprs : Freed(m, "expr", x)
  <2> DEFINE U == {x \in DOMAIN m.exprs : ~Freed(m, "expr", x)}
  <2> SUFFICES ASSUME U # {} PROVE FALSE
    OBVIOUS
  <2>1. U \in SUBSET Nat
    BY <1>2
  <2>2. \A y \in U : \E z \in U : z < y
    BY <1>7
  <2> HIDE DEF U
  <2>3. PICK y \in U : \A z \in U : y <= z
    BY <2>1, Least
  <2>4. PICK z \in U : z < y
    BY <2>2
  <2> QED
    BY <2>1, <2>3, <2>4
<1>9. \A e \in DOMAIN m.scopes : Freed(m, "scope", e)
  BY <1>6, <1>8 DEF ArgsPlace
<1>10. ToSet(m.frees) \subseteq Objects(m)
  BY <1>1 DEF InOnePiece
<1>11. Objects(m) \subseteq ToSet(m.frees)
  BY <1>8, <1>9 DEF Objects, Freed
<1> QED
  BY <1>10, <1>11

\* It holds of every run.
THEOREM KeepsOwners == Spec => []FreedInv
BY InitFreedInv, NextFreedInv, PTL DEF Spec

\* When env_destroy of env is done, every expression and the table of every scope has been
\* given back, for every program that binds no name twice in a scope: those of lets and of
\* parameters, and the intrinsics, too.
THEOREM EverythingFreed == Spec => []AllFreed
<1>1. FreedInv => AllFreed
  <2> SUFFICES ASSUME FreedInv, phase = "destroyed", NoDuplicates PROVE ToSet(mem.frees) = Objects(mem)
    BY DEF AllFreed
  <2>1. Good(mem) /\ Younger(mem) /\ mem.todo = <<>> /\ Tidy(mem) /\ HeldBut(mem, {}, {})
    BY DEF FreedInv, SafeInv, IndInv, Safe, Kept
  <2> QED
    BY <2>1, NothingLeft
<1> QED
  BY <1>1, KeepsOwners, PTL

=============================================================================
