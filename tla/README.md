# Verification of schc, the Simple C Haskell Compiler

TLA+ models of the compiler in `src/`, the TLC runs that check them on small
instances, and proofs that hold for every value of the constants. Paths and
lines are those of the repository (`hashmap.c` is `src/src/data/hashmap.c`, and
so on). `PROJECT.json` maps every definition to its lines.

## 1. The system

schc is one sequential program. `main` (`schc.c`) runs a pipeline:

    flex lexer -> parser -> syntax tree -> coregen -> graph of core expressions
                                                      -> core_print -> destroys

There are no threads and there is no persistence. What makes the code hard is
memory: who owns a text, an expression or a scope, in which order the stages
give it back, and what still points to it; then the layout rule of the parser,
and two data structures with subtle loops (the hash table and the arena).
Failures end the program: the `TRY`, `TRYCR` and `TRYNEG` macros (`util.h`)
raise SIGINT before they return -1.

### Inventory

| Part | State | Operations | Interaction | What is hard; what makes it correct |
|---|---|---|---|---|
| Hash map `data/hashmap.c` | table of key pointers and elements, `len`, `cap`, vector of keys | init, put, get, grow with rehash, keys, destroy | one per scope (`env.c`), allocates through an allocator | put calls grow, which calls put again; keys replaced while probing wraps. A finite map; every string has one owner; probes end |
| Arena `data/linalloc.c` | stack of blocks, `next_block_size`, size headers in memory | init, alloc, realloc, stralloc, free (no-op), destroy | behind the allocator interface, under parser and coregen | headers inside the memory they describe, refused `malloc`. Pieces are disjoint, keep their bytes; calls end |
| Lexer `gen_lexer.l`, `lexer.c` | `yytext`, `yycolumn`, `yylineno`, a start condition for block comments | `yylex` | globals read by the parser | columns decide the layout, and every lexeme adds to them. A program means the same with comments |
| Parser `parser.c` | lookahead, `ptext`, two flags, stack of columns | `parser_parse`, `parser_destroy`, one function per rule | pulls tokens, copies their texts, builds the tree | flags and columns shared by nested blocks; 0 / -1 / token as results combined by `\|\|`; who owns the copy of a text. The tree is what was written; loops end; every text has one owner |
| Syntax tree `ast.c` | the tree and its texts | print, destroy | built by the parser, read by coregen, destroyed by `main` | every node has its rule set; printing and destroying reach every text |
| Coregen `coregen.c` | none of its own | `coregen_from_module_ast` | tree in, graph in scopes out | names used before they are bound, shadowing, cycles. The graph means the program; fails exactly for unbound names |
| Environments `env.c` | chain of scopes, each a hash map | init, put, get, list, print, destroy | owns its expressions; lambdas own one | destroy goes up the chain unless it was cut. Every expression has one owner |
| Core expressions `core.c` | the graph | print, destroy | indirections cross scopes | print must stop at cycles and only there, with one vector pushed and popped for all ways; destroy must not follow what it does not own |
| Intrinsics | none | `intrinsics_load` | outermost scope | - |
| Vector, stack `data/vector.c`, `data/stack.c` | `mem`, `len`, `cap` | init, push, get, pop, grow, destroy | under everything | pointers into memory that growth moves; growth that fails half way. A sequence |
| Allocator interface `data/allocator.c` | three function pointers | alloc, realloc, free, stralloc | default (`malloc`) or arena | whether free really gives memory back |
| Driver `schc.c` | the two arenas, tree, scopes | `main` | calls everything | the order in which stages give memory back |
| Types, utilities, tests | - | - | - | - |

`PROJECT.json` says for every part how far it is modelled, and lists the hazards
of the code at their lines, with the properties that cover them.

## 2. Modules

| Module | Models |
|---|---|
| `KVMap` | abstract: a finite map with the last answer of get |
| `HashMap` | `hashmap.c`, one step per probe; `HashFn`: the hash on words of a few bits; `MCHashMap`: instance |
| `HashMapProofs`, `HashMapOwnership` | theorems about `HashMap`: searching; load, strings, and that it implements `KVMap` |
| `Heap` | abstract: objects whose bytes only their owner changes |
| `LinAlloc` | `linalloc.c`, one step per loop iteration and per `malloc`; `MCLinAlloc`: instance |
| `LinAllocProofs` | theorems about `LinAlloc`: its pieces; that it implements `Heap` |
| `Buffer` | abstract: a sequence, with a pointer to one of its items |
| `Vector` | `vector.c`, `stack.c`, one step per call; `MCVector`: instance |
| `VectorProofs` | theorems about `Vector` |
| `Ast` | the syntax tree (`ast.h`); `Trees`: trees written shortly, for instances |
| `Lexer` | `gen_lexer.l`: from lexemes to tokens with columns |
| `Parser` | `parser.c`, `ast.c`: rules, texts, printing and destroying the tree; `MCParser`: instances and the reference writer of trees |
| `Coregen` | `coregen.c`, `env.c`, `core_destroy`, and the calls of `main` and `tests/core.c`, one step per call and loop iteration |
| `Meaning` | what a program means, and the two properties of `Coregen` that compare with it; `MCCoregen`: instances |
| `CoregenProofs`, `CoregenLive`, `CoregenFreed` | theorems about `Coregen`: its types and who owns what; that nothing freed is gone on with; that in the end everything is freed |
| `CorePrint` | `core_print`, one step per call, return and loop iteration; `MCCorePrint`: all small graphs, and the graphs `Coregen` makes of programs |
| `CorePrintProofs` | theorems about `CorePrint` |

Modules meet in four places. `MCParser` sends programs through `Lexer` into
`Parser`. `MCCorePrint` instantiates `Meaning`, runs the steps of `Coregen` to their end and prints
the graphs they make.
The scopes of `Coregen` are the abstract map of `KVMap`, which `HashMap`
implements; the lists of `Parser` and `seen` of `CorePrint` are sequences, which
is what `Vector` implements (`Buffer`).

Operators commented "mutant:" are plausible bugs. None is used by the model;
for every property, replacing one definition by its mutant makes the property
fail, which shows that the run would notice.

### HashMap

The fields of `hashmap_t` are variables of the same names. A key is an owned
string, numbered in the order in which `hashmap_put` copies it; `text` gives its
content and `freed` the strings handed to FREE, so that comparing pointers and
comparing texts are different things. `pc` and `ctx` say which call is running:
`hashmap_put_no_alloc` runs for a caller or for the rehash loop of
`hashmap_grow`, which keeps the old table in `old`, `oldData` and its counter in
`scan`. Every iteration of the probe loops of put (120-131) and get (158-165)
and of the rehash loop (198-206) is a step. `malloc` may fail in put and grow;
the map is then not used again (`pc = "failed"`), as no caller in `src/` goes on.

`keys` is the vector of listed keys: its items, its `cap`, and how many items its
memory has room for. `PushKey` is `vector_push_back` with the growth in it. When
that growth is refused, `vector_grow` has doubled `cap` already, and
`hashmap_put_no_alloc` ignores the NULL (133-135): the key is stored and not listed,
and the map goes on. The next key to be listed, by a put or by a rehash, is written
behind the memory of the vector (`PutOverruns`); what the program does then is
undefined, and the behaviour ends there (`pc = "overrun"`).

The refinement `ImplementsMap` maps the table, plus the locations of the old
table that are not yet moved, to `KVMap`'s `dict`: growing is a stutter.

### LinAlloc

A pointer is a block and an offset; a block has the bytes the code puts there,
headers included. `live` is what the callers hold (a history variable): its
sizes are what the owners asked for, and `HeadersTrue` relates them to the
headers in memory. `linalloc_realloc` calls `linalloc_alloc` with the header
already added, which adds it again (81-94), and this is in the model. A refused
`malloc` makes a call return NULL with `next_block_size` already doubled.
Sizes are far below 2^64: no sum wraps.

### Vector

`mem`, `len` and `cap` are the fields of `vector_t`; a pointer is a number of a
block and an index, and a `realloc` that succeeds makes a new block, so that a
pointer from before is stale. `slot` is the pointer handed out last, through
which `Fill` lets the caller write, as `identable` and the arena do; the pointers of
earlier calls are not kept, as no caller keeps one over a growth. `Refuse` is
a `realloc` that returns NULL: `cap` has then been doubled already
(`vector.c:110-124`), and the four callers that ignore the refusal may go on.
`stack.c` is a vector used from its end (`Peek`, `Pop`).

The refinement `IsBuffer` maps the vector to the sequence of its elements. In
`Buffer` a refused growth is the step `Refuse`, after which a push may `Lose` the
sequence: it then has an element outside of the memory.

### Lexer

Flex cuts the source into lexemes; which rule matches which text is its work, and
so a lexeme is an input, with the rule, text and length it has. What the actions
do with it is the model: `YY_USER_ACTION` adds its length to `yycolumn`, a newline
sets it back, comments and blanks are silent, and the others deliver tokens.

### Parser

A recursive-descent parser without concurrency: each rule is an operator from
the parser's state to its result, the new state and the node it leaves. The
return codes (a token, 0, -1), the macros `TRYP`, `soft`, `hard` and `maybe` and
the C `||` are operators (`Try`, `Soft`, `Hard`, `Maybe`, `Or`), because much of
the parser's behaviour lies in how they combine: `||` turns -1 into 1. A token is
its kind, text and start column. A node whose `rule` was never assigned is
`Unset`. The rules of the grammar call each other through `Rule`, by the name of
their C function.

Texts are owned. `accept` copies the text of each token, and the copy has the
number of its token; the copy that `parser_parse` makes before the first token
(102) is 0, and the one that `con` makes of `()` (737-741) has the negative
number. `ptext` holds the copy that nobody has taken, `freed` the copies handed to
the allocator, and a tree holds numbers. The actions are the calls of a client:
`ParserParse`, `ParserDestroy`, `AstPrint` (which texts are written, in order; the
labels and the indentation are layout) and `AstDestroy` (which texts are freed).

### Coregen

`coregen.c` with `env.c` on a memory of numbered expressions and scopes; the hash
map of a scope is its abstract map, which is what `ImplementsMap` justifies. Every
expression remembers the place in the tree it came from (`at`, read by
properties only), so that the graph can be compared with the program.

The functions of these files call each other and themselves. `mem.todo` is the C
stack: a task is a call or an iteration of a loop that is still to come, the next
one last, and one step takes it and does it, which may push others. So a run
passes through every state between two calls, and a property can be asked of all
of them. `populate` and `generate` are the iterations of `coregen_populate_env`
and `coregen_generate_env`, `param` the loop over parameters, `gen` and `child` the calls of
`coregen_from_ast`, `endlet` the end of a let (278-280), `env` and `core` the loops
of `env_destroy` and `core_destroy` with how far they have come, and `client` the
caller. The order in which `env_destroy` finds its keys is left open by `CHOOSE`: no
property depends on it.

`Coregen`, `AstDestroy`, `CorePrint` and `Destroy` are the steps of a client:
with `Arena = TRUE` in the order of `main`, where FREE does nothing, with
`Arena = FALSE` in the order of `tests/core.c`, where FREE is `free`. `mem.frees` is the
sequence of what was handed to FREE, expressions and the tables of scopes.

What is compared with a recursive definition is apart, in `Meaning`, so that the
prover can read `Coregen`. For the same reason the nodes of a program are a constant
operator, `NodesOf`: `ProgramsAssumption` says that it has the tree and is closed under
children, and `MCCoregen` gives it its recursive definition.

### CorePrint

`core_print_indent` (`core.c:81-203`) with its stack made explicit: a frame is an
activation with the child it goes into next, `seen` is the vector that all of them
share. What is printed is the sequence of names, forms and closing braces. A graph
is any finite one; the constant `Graphs` says which.

## 3. Runs

| Run | Instance | Shows |
|---|---|---|
| `hashmap` | 4 keys, 3 with the same hash, tables of 2 to 16 locations, 4 puts | the table stays searchable, owns its strings, implements `KVMap`; every call returns |
| `hashmap_listed_keys` | same | **violated**: a listed key is a freed string |
| `linalloc` | first block 5 bytes, header 2, pieces of 1, 3, 9 bytes, 2 held when a call begins | pieces stay apart and in their blocks, headers are true, `Heap` is implemented; every call returns |
| `vector` | 2 elements, starting capacities 0, 1, 2 and 4, up to 5 elements | pointers and elements stay inside, `Buffer` is implemented |
| `core_print` | all graphs of 4 expressions in which only indirections share; the graphs of 1640 programs | printing ends, is the unfolding of the graph cut at its cycles, and shows what the program means |
| `parser` | 1000 trees in 8 styles, the small ones through the lexer with and without comments; 16400 sequences of tokens: all up to length 3, 4 or 5 over alphabets for layout (at two or three columns), braces, terms, conditions and the head of a module | parsing what was written gives back the tree, printing and destroying it reach every text; also on the sequences the parser ends, builds a tree of the tokens in their order, and every text has one owner |
| `parser_trailing_input`, `parser_destroy` | token sequences with braces | **violated**, see below |
| `parser_unset_nodes` | token sequences that begin with `{` | **violated**, see below |
| `coregen` | 7600 programs of two bindings, step by step | the graph means the program, fails exactly for unbound names, is freed once and completely, and nothing is used that was freed |
| `coregen_print_after_let`, `coregen_names_after_tree` | 1400 programs of one binding | **violated**, see below |

### What the properties say

*Hash map.* `ChainUnbroken`: no empty location between the home of a key and its
place, in the half-rehashed table too. `UniqueKeys`, `MissIsTrue`: a key is
stored once, and a probe that gives up is right. `StringsOwned`:
one owner per string (so a freed one leaves the table, `FreedLeavesTable`, which is only
proved). `LoadBelowHalf`, `CallsReturn`: the
probe loop of put has no bound and ends because the table is never full. A call also
ends where it writes behind `keys`.
`GrowNeverNests`: the put inside grow does not grow. `KeysComplete`: between calls the
vector of keys lists only names of the table, and leaves one out only after a growth of
the vector was refused, and then only one: before a second could be missing, a put
or a rehash writes behind the vector.

*Arena.* `PiecesInBlocks`, `PiecesDisjoint`, `HeadersTrue`, `BlocksDouble`,
`ImplementsHeap`, `CallsReturn`, as named.

*Parser.* `RoundTrip`: a program written down from a tree, with braces or layout,
tight or wide, with `where` or `let`, is parsed into that tree. The writer in
`MCParser` is independent of the parser. `ElementsConsume`: whatever the
indentation, an accepted element has taken a token; the loop over the lines of a
block ends for no other reason. `TreeFollowsSource`: also on input that is no program,
every text in the tree is that of a token of the right kind, in source order, used
once. `TextsOwned`: likewise, a copy is in the tree once, or in `ptext`, or freed once,
and never two of these. `PrintShowsProgram`: what is printed has
every text of a program, once. `AllTextsFreed`: after `ast_destroy` and
`parser_destroy` every copy has been freed, which the arena of `schc.c` hides.

*Vector.* `ElementsInside`: no element behind the memory. `SlotIsElement`: the
pointer handed out is one into the memory of now. `IsBuffer`: the refinement.

*Printing.* `SeenIsWay`: `seen` is at all times the way from the root to the
running call, without repetition. `DepthBounded`: the C stack is bounded by the
size of the graph. `PrintsUnfolding`: the output is the graph as a tree, cut where
a way meets itself and nowhere else. `PrintsProgram`: of a graph that coregen made,
the output is what `Meaning` says of the program. `Returns`: the walk ends.

*Coregen.* `GraphMeansProgram` compares every binding's expression, read back
from the graph, with `Meaning`, a definition of lexical scoping on the tree.
`FailIffUnbound` does the same for failure. `FreedOnce` and `AllFreed`: every
expression and every table of a scope is freed once. `DestroysLive`: what
`core_destroy` and `env_destroy` work on, and will come back to, has not been freed.
`GeneratesLive`: the same of the expressions and the chains of scopes that the calls of
`coregen_from_ast` still hold, though a let destroys its scope while its callers go on. A name bound twice in one scope loses its first expression
(`env.c:83-86`): `AllFreed` asks that no program does that.

### Bounds, and why they are enough

*Hash map*: with tables of 2, 4, 8 and 16 locations, four puts force up to three
rehashes; three keys collide at every capacity and their chain wraps round the
end of the table onto the home of the fourth, so inserting, replacing and
missing in and behind a chain all occur, during a rehash too. The table of 1024
the code starts with has the same steps. The word size of `HashFn` is 4 bits.
*Arena*: `Sizes` has a piece that fits, one that fits only without its header,
and one larger than a doubled block; three blocks can exist. Bounds are tested
only when a call begins, so that every call that has begun goes on.
*Vector*: from 0, 1 and 2 a vector grows more than once, from 4 it meets the
default; five elements are pushed, popped and read in every order. *Parser*: three
or four tokens behind a head reach blocks in blocks and every way in which one ends; each
kind of token a rule asks for (of the operators `OP`, `=` and `::`) is in one of the
alphabets or in the trees, and the trees nest
every form in every form. *Printing*: four expressions make cycles of every
length up to four, cycles that share a part, and an expression reached on two
ways; larger ones come from programs. *Coregen*: two names that may
both be parameters, bindings of a let or of the module, and the intrinsic
`show`; let in let, function in let in function.

### Fairness

`HashMap!FairSpec` and `LinAlloc!FairSpec` assume weak fairness of the steps
inside a call, and of nothing else; `CorePrint!FairSpec` assumes it of `Next`, all of
which is one call of `core_print`. The code is sequential: once entered, a call
runs on, and nothing can disable its next step. No caller is forced to make a
call. Deadlock is not checked, since callers may stop and the program ends.

### Disagreements between the code and what the repository says of it

Each is a run that TLC refutes, with the quotation in `PROJECT.json`.

1. `hashmap_listed_keys`: a put of an existing key frees the old string
   (`hashmap.c:122`), but the vector of keys still points to it, and
   `tests/core.c:71-74` reads it.
2. `parser_trailing_input`: what follows a declaration that cannot be parsed is
   dropped and `parser_parse` reports success; `schc.c:50-52` promises an error.
3. `parser_unset_nodes`: on `{` alone or `{ =`, a braced body without the declaration
   that must stand there, `declaration` returns 0 (its first `accept` is soft), which
   goes up through `identable`, `body` and `module`; `parser_parse` tests for -1 only
   (`parser.c:108-112`) and reports success with a root nobody has written, which
   `schc.c:50-52` takes for a tree, prints (62) and compiles (78).
4. `parser_destroy`: a source that ends with `)`, and the empty one, leave a text in
   `ptext`, and `parser_destroy` frees it through an allocator that is NULL by then.
5. `coregen_print_after_let`: the bindings of a let are freed at its end
   (`coregen.c:279`) while the graph points at them and `core_print` follows.
   Visible with the default allocator of `tests/core.c`, hidden by the arena.
6. `coregen_names_after_tree`: names of functions are texts of the tree, and
   `main` gives the tree and its arena back before it prints (`schc.c:84-85, 98`).

## 4. Proofs

`HashMapProofs` proves of `Spec`, for all keys, values, hash functions and
capacities that double (`ConstantsAssumption`: `Home` yields a location of the
table; which one does not matter):

- `TypeCorrect`: `TypeOK`, every index is inside the table it indexes;
- `ChainNeverBroken`, `KeysStayUnique`, `NoFalseMiss`.

None of the last three is inductive. `IndInv` adds what the running call knows:
`PutInv` and `GetInv` (the locations probed so far hold other keys, and get's
count of probes left agrees with how far it is), `UnmovedInv` (no location of
the old table still to be moved holds a key that is in the new one) and
`PhaseInv`. The argument rests on arithmetic of the circular distance (`Dist`,
`Probed`): a store at the first empty location closes no gap and opens none.
`Miss` derives from `ChainUnbroken` that an empty location ends a search
rightly, and this is what makes a put that inserts keep `UniqueKeys`.

`HashMapOwnership` builds on `IndInv`. `LoadInv` counts: the occupied locations of
the new table and those still to be moved together are as many as made the old
one full, and the new one has twice its locations; so the puts of a rehash never
reach half of it. From this follow `LoadStaysBelowHalf` and `GrowNeverReenters`.
`OwnedInv` (the string of a running put is in no location yet) gives
`StringsStayOwned` and `FreedStringsLeaveTable`, and `KeysInv` `KeysStayComplete`.
`KeysInv` must hold during calls too, where the names are those of the table and of
the locations still to be moved (`LivingKeys`), and it says why only one is missing:
once `cap` promises more than there is room for, the memory is full, so that the next
listing is `PutOverruns`. How the strings of the table and of those locations change is
stated once for the proofs about ownership and about names (`ReplaceStrings`,
`InsertStrings`, `GrowStrings`, `RehashStrings`).

Its last part proves `ImplementsKVMap`. `Binds` says which value the table
and the locations still to be moved give a key; `Binding` shows that it is one
value, the one `Contents` chooses. Every step is then a put or a get of `KVMap`,
or binds every key as before; `ElemInv` ties the element of a running put to the
location it was read from.

`LinAllocProofs` proves, for all first sizes, header sizes and sets of sizes
(`SizesAssumption`): `TypeCorrect`, `PiecesStayInBlocks`, `PiecesStayDisjoint`,
`HeadersStayTrue`, `SizesDouble`. The invariant has five parts: `ArenaInv`
(types), `CallInv` (what the size passed down covers, and that there is room
when the piece is cut), `CopyInv` (the piece just cut for realloc lies behind
every other), `PiecesInv` (the three properties), `DoubleInv` (the next block
will also be twice the newest). They need each other: headers stay true only
because pieces are disjoint, and pieces stay disjoint only because new ones are
cut behind the used part.

Its last part proves `ImplementsTheHeap` from the same invariant and `WantInv` (the
size a running call was asked for is one of `Sizes`). `TailOnly` is the main fact:
cutting and copying write only behind every piece that is held. A header that is
rewritten lies in no piece (`BytesApart`).

`VectorProofs` proves, for all elements, starting capacities and bounds:
`TypeCorrect`, `ElementsStayInside`, `SlotStaysElement`, and `ImplementsBuffer`, the
refinement of `Buffer`.

`CorePrintProofs` proves, for every set of finite graphs (`GraphsAssumption`):
`TypeCorrect`, `SeenStaysWay` and `DepthStaysBounded`. `SeenIsWay` is inductive with
the types; no expression is twice in `seen`, and a sequence without repetition over
a finite set is no longer than the set has members, which bounds the depth.

`CoregenProofs` proves, for every set of trees (`ProgramsAssumption`: what the structs
of `ast.h` hold, as far as coregen counts on it), every list of intrinsics without
repetition and both clients: `Owned` (`IndInv` is invariant), `TypeCorrect`,
`NothingFreedTwice` (`FreedOnce`) and `NothingFreedIsDestroyed` (`DestroysLive`). That no
object is freed twice depends on all that any function does with it, so the invariant
is about ownership. A *place* owns an expression or a scope:

| Place | Owns |
|---|---|
| `KidPlace` | a child that `core_destroy` has not yet come to |
| `KeyPlace` | the expression of a name that `env_destroy` has not yet come to |
| `CorePlace` | the expression that a call of `core_destroy` works on |
| `ArgsPlace` | the scope of a lambda's parameters that is not yet destroyed |
| `EnvPlace` | the scope that a call of `env_destroy`, or the end of a let, or the client, holds |
| `UpperPlace` | `intrinsics_env`, above `env`: the only scope that one above another owns |

`ExprsOwned` and `ScopesOwned`: two places never own the same object, and no place
owns one that has been freed. What makes this inductive: `Ordered` (destroying
is above generating on the stack, so nothing is generated while something is being
destroyed), `Uppers` (a scope that is being destroyed has no scope above it, except
`env`) and `Tasked` (what the phase says of the stack). An indirection owns
nothing, which is why `core_destroy` must not follow it; `let_env->upper_scope = NULL`
(`coregen.c:278`) is what makes `Uppers` hold, without it the end of a let would
destroy the scopes of its callers. That the lookup through the chain of scopes is a
function with values among the expressions is proved from a least counterexample
(every scope is younger than the one above it).

`CoregenLive` proves, under the same assumption, `NothingFreedIsUsed`
(`GeneratesLive`). At the end of a let its scope is destroyed, and with it all that its
bindings own, while the calls that generate the module around it are still on the
stack. `IndInv` says that no destroy meets what was freed; it does not say that what is
destroyed is not what a caller will write next. `SafeInv` adds why, and why is the order
of allocation:

- `Younger`: every child is younger than its parent.
- `Live`: a call that generates has an expression and a scope that were not freed, and
  the scopes above that one were not freed either, up to the outermost.
- `Spared`: for every such call there are an expression `x` and a scope `l` such that the
  call works with `x` or older and with a scope before `l` (`Within`); whatever is above
  it on the stack destroys only what is younger than `x` or not before `l` (`Beyond`);
  and from there no way leads back (`Apart`): an expression after `x` owns no scope before
  `l`, and a scope from `l` on no expression up to `x`.

`x` and `l` are the newest expression and the next scope at the moment the let begins;
they are not kept in the state, so `Spared` says that such a pair exists for each call
(`SafeGenLet` gives it). Generating keeps it because what is new is younger
(`LaterSafe`); destroying keeps it because what a step of `core_destroy` or `env_destroy`
pushes is beyond the same pair (`LeavesCoreDestroy`, `LeavesEnvDestroy`). The cut at
`coregen.c:278` is used a second time: without it the end of a let goes up into `env`,
which is before `l`.

`CoregenFreed` proves, under the same assumptions, `EverythingFreed` (`AllFreed`): of a
program that binds no name twice in a scope, nothing is left when the client is done.
`IndInv` says that an object has at most one owner; this needs that it has one. `FreedInv`
adds to `SafeInv`:

- `HeldBut`: every expression was freed or is held from a `KidPlace`, `KeyPlace` or
  `CorePlace`, and every scope was freed or is held from an `ArgsPlace`, `UpperPlace` or
  `EnvPlace`. Destroying keeps this because a step of `core_destroy` or `env_destroy`
  that moves on from a place pushes the task that takes over what it held.
- `Tidy`: a freed scope has no names and no scope above it, and the parameters of a
  lambda are younger than the lambda.
- `Once`: of what is still to be done no two tasks bind the same name in the same scope or
  generate into the same expression (`Clash`); a name still to be bound is not in its
  scope, and an expression still to be generated has no children and no form that owns
  something (`Clear`); and a binding is generated after its name is there (`Ready`).

`Once` is where the property could fail: `env_put_expr` copies over an expression that a
name has (`env.c:83-86`), and `coregen_from_ast` writes form, children and arguments of its
target without looking at what is there, so that either would lose owned expressions if it
happened twice. `Fits` asks of a call that what it leaves to be done
clashes neither with itself, where the scope is new or `BindOnce` is used, nor with the
rest of the stack. `NoDuplicates` is needed: without it `AllFreed` is false.

The end is `NothingLeft`. With an empty stack only children and names hold expressions,
`env` and its upper scope have been freed, so only lambdas hold scopes. An expression that
is left therefore has an older one that is left: the parent whose child it is, or the
lambda whose parameter it is. There is no oldest, so none is left; nor is a scope.

What TLC checks and the proofs do not: liveness (`CallsReturn`, `Returns`); everything
about `Parser`, `Lexer` and `Ast`, whose RECURSIVE operators (one per recursive C
function) the prover cannot use; and `GraphMeansProgram`, `FailIffUnbound`,
`PrintsUnfolding` and `PrintsProgram`, which compare with recursive definitions and would
need induction over them.

## 5. Not modelled

What flex generates (which rule matches which text) and the names of tokens in
`lexer.c`; a lexeme is an input. The labels, indentation and line breaks of
`ast_print` and `core_print`, and the text of `env_print_scope`; `env_list_scope` copies
the listed names for it and changes no scope. Numbers and texts of literals are
opaque. `core_type_t` has no user, `util.h` is macros, and the
tests are used as a reference of how calls are ordered. Failing allocations are
modelled in the hash map, the arena and the vector, the ignored growth of the vector
of keys (`hashmap.c:134`) included. The parser ignores a refused growth at
three places (`parser.c:189`, `203` and `412`: two pushes of a column and one of a
parameter's name); that is not modelled in `Parser`, whose allocations succeed.
Elsewhere SIGINT ends the program. Alignment of the arena's pieces is not modelled (the
targets tolerate it), nor sizes near 2^64.

## 6. Plan

Done: `HashMap` against `KVMap`, `LinAlloc` against `Heap` and `Vector` against
`Buffer`, each with its refinement proved; `Lexer`, `Parser` with the texts it
owns, and the round trip; `Coregen` with its environments and ownership;
`CorePrint` with its proofs and over the graphs of `Coregen`; the proofs about ownership,
about what is gone on with and about what is freed in the end in `Coregen`.

Left, in the order of importance:

1. `Pipeline`: `main` as one composition from lexemes to printed text, with both
   arenas and a failure of every stage. Its halves are checked: `parser` goes from
   lexemes to the tree, `core_print` from the tree to the output, and `coregen` has
   the order in which `main` and `tests/core.c` give things back.
2. `Parser` as a machine of tasks like `Coregen`, so that `TextsOwned` can be proved.

## 7. Running

    tlc -workers 2 -config HashMap.cfg MCHashMap
    tlapm HashMapProofs.tla

and likewise for the other configurations named in `PROJECT.json`. Every run
ends within five minutes on two cores.
