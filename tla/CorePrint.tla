----------------------------- MODULE CorePrint -----------------------------
(***************************************************************************)
(* core_print of src/core.c: the walk over a graph of core expressions,    *)
(* which has cycles, with the vector `seen' of the expressions on the way  *)
(* down.  An activation of core_print_indent is a frame.  Indentation,     *)
(* labels and numbers are left out of what is printed; an expression's     *)
(* children are those core_print_indent goes into: the target of an        *)
(* indirection and the body of a lambda are only children.                 *)
(***************************************************************************)
EXTENDS Ast, Integers, Sequences, FiniteSets, SequencesExt

CONSTANTS
  Graphs    \* what is printed: expressions with form, name and kids, and the root

Exprs(g) == DOMAIN g.kids

\* What core.h allows: every child is an expression of the graph, and every graph is finite.
ASSUME GraphsAssumption ==
  \A g \in Graphs :
    /\ IsFiniteSet(Exprs(g)) /\ 0 \notin Exprs(g)
    /\ g.root \in Exprs(g)
    /\ \A x \in Exprs(g) : g.kids[x] \in Seq(Exprs(g))

VARIABLES
  graph,    \* the graph
  frames,   \* the activations: the expression, and its next child
  seen,     \* the vector of expressions
  call,     \* the expression a call is being made with, or 0
  out       \* what has been printed

vars == <<graph, frames, seen, call, out>>

Init ==
  /\ graph \in Graphs
  /\ frames = <<>> /\ seen = <<>> /\ out = <<>>
  /\ call = graph.root

-----------------------------------------------------------------------------
(* What is printed *)

Named(g, x, mark) == IF g.name[x] = NULL THEN <<>> ELSE <<g.name[x], mark>>
Opening(g, x) == IF g.form[x] = "INDIR" THEN <<>> ELSE <<g.form[x]>>
Closing(g, x) == IF g.form[x] \in {"APPL", "LAMBDA", "COND"} THEN <<"}">> ELSE <<>>

-----------------------------------------------------------------------------
(* core_print_indent *)

\* mutant: only expressions with a name are looked for
OnTheWayNamed(x) == graph.name[x] # NULL /\ x \in Range(seen)

OnTheWay(x) == x \in Range(seen)

\* the expression is being printed already: nothing is pushed
Loop ==
  /\ call # 0 /\ OnTheWay(call)
  /\ out' = out \o Named(graph, call, "<loop>")
  /\ call' = 0
  /\ UNCHANGED <<graph, frames, seen>>

\* mutant: an indirection is followed at once, without an entry in seen
OpenFollows ==
  /\ call # 0 /\ ~OnTheWay(call)
  /\ IF graph.form[call] = "INDIR"
     THEN call' = graph.kids[call][1] /\ UNCHANGED <<graph, frames, seen, out>>
     ELSE /\ seen' = Append(seen, call)
          /\ frames' = Append(frames, [expr |-> call, next |-> 1])
          /\ out' = out \o Named(graph, call, ":=") \o Opening(graph, call)
          /\ call' = 0
          /\ UNCHANGED graph

Open ==
  /\ call # 0 /\ ~OnTheWay(call)
  /\ seen' = Append(seen, call)
  /\ frames' = Append(frames, [expr |-> call, next |-> 1])
  /\ out' = out \o Named(graph, call, ":=") \o Opening(graph, call)
  /\ call' = 0
  /\ UNCHANGED graph

Running == call = 0 /\ frames # <<>>
Top == Last(frames)
MoreKids == Top.next <= Len(graph.kids[Top.expr])

Child ==
  /\ Running /\ MoreKids
  /\ call' = graph.kids[Top.expr][Top.next]
  /\ frames' = [frames EXCEPT ![Len(frames)].next = @ + 1]
  /\ UNCHANGED <<graph, seen, out>>

\* mutant: an expression without a closing brace stays in the vector
ShrunkIfClosed(s) == IF Closing(graph, Top.expr) = <<>> THEN s ELSE Front(s)

\* mutant: the first expression is dropped
ShrunkAtFront(s) == Tail(s)

\* seen->len--
Shrunk(s) == Front(s)

Close ==
  /\ Running /\ ~MoreKids
  /\ out' = out \o Closing(graph, Top.expr)
  /\ seen' = Shrunk(seen)
  /\ frames' = Front(frames)
  /\ UNCHANGED <<graph, call>>

Done == call = 0 /\ frames = <<>>

Next == Loop \/ Open \/ Child \/ Close

Spec == Init /\ [][Next]_vars
FairSpec == Spec /\ WF_vars(Next)

-----------------------------------------------------------------------------
(* Properties *)

\* Calls are made with expressions of the graph, and an activation has gone into a
\* prefix of its children.
TypeOK ==
  /\ call \in Exprs(graph) \cup {0}
  /\ seen \in Seq(Exprs(graph))
  /\ frames \in Seq([expr : Exprs(graph), next : Nat \ {0}])
  /\ \A i \in DOMAIN frames : frames[i].next <= Len(graph.kids[frames[i].expr]) + 1

\* the expression whose call activation i is in
Callee(i) == IF i < Len(frames) THEN frames[i + 1].expr ELSE call

\* seen is the way from the root to where core_print is: one entry per activation,
\* each a child of the one before it, and none twice, whatever early returns
\* (core.c:98, before the push) and seen->len-- (core.c:200) came in between.
SeenIsWay ==
  /\ Len(seen) = Len(frames)
  /\ \A i \in DOMAIN frames : seen[i] = frames[i].expr
  /\ \A i, j \in DOMAIN seen : seen[i] = seen[j] => i = j
  /\ \A i \in DOMAIN frames :
       LET f == frames[i]
       IN Callee(i) # 0 => f.next > 1 /\ graph.kids[f.expr][f.next - 1] = Callee(i)
  /\ frames # <<>> => frames[1].expr = graph.root
  /\ frames = <<>> => call \in {0, graph.root}

\* However the graph is tied together, core_print nests no deeper than the graph has
\* expressions, so neither the C stack nor seen grows with the length of the walk.
DepthBounded == Len(frames) <= Cardinality(Exprs(graph))

\* core_print comes back, though the graphs of recursive functions are cyclic and
\* nothing else bounds the walk.
Returns == <>Done

=============================================================================
