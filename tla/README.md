# Limit: a TLA+ verification project

The repository is the compiler and the run time of the Limit language. This
directory holds TLA+ models of its core logic, the TLC configurations that check
them, and proofs that TLAPS checks. Paths below are relative to the repository;
the implementation is under `src/`.

## 1. The system

One run of the compiler (`src/limitly.cpp`, `Compiler::executeFile`) is a pipeline:

    scanner -> parser -> ModuleManager::resolve_all -> type checker -> memory checker
            -> type checker again -> LIR generator -> register VM (or the Fyra backend)

| Part | State it keeps | Operations | Made correct by |
|---|---|---|---|
| Driver (`limitly.cpp`) | the stage reached | the stages and their early exits | no stage runs after an error of an earlier one |
| Debugger (`error/`) | one static flag `hadError`, the list of reported errors | `error`, `resetError`, `hasError` | an error once reported is not forgotten |
| Scanner, parser (`frontend/scanner*`, `frontend/parser*`) | position, block stack, error count | one method per construct, recovery, giving up after too many errors | recovery makes progress and ends |
| Module manager (`frontend/module_manager*`) | map of loaded modules, a mutex; per call a worklist, a set of started paths, futures | `resolve_all`, `load_module`, `clear`, the two graph searches | exactly the reachable modules are loaded, each once; cycles are found; initialisation follows dependencies |
| Type checker (`frontend/type_checker*`) | scopes, function table, linear types, errors | `check_program`, which starts further checkers for modules; one method per construct | every module is checked; no error is lost |
| Memory checker (`frontend/memory_checker*`) | moved and initialised variables, regions, generations | `check_program` and one method per construct | no use after move |
| LIR generator (`lir/generator/`) | the function's control-flow graph and its current block, loop stack, scope stack, registers, the error-handler flag | one `emit_*` per construct; `finish_cfg_build`: clean-up, validation, flattening | the instruction vector does what the source says |
| Register VM (`backend/vm/`) | registers, globals, channels, program counter | one case per opcode | jumps, calls and channel operations do what the LIR means |
| Channels, fibers, scheduler (`backend/*.hh`) | buffer, waiting fibers, ready queue | send, receive, offer, poll, close; add, suspend, resume, tick | no value lost or duplicated, no fiber left asleep |
| Memory library (`memory/`) | regions, generations, free lists | allocate, release, move, dereference | no stale reference is dereferenced |
| Run-time library (`runtime/`) | lists, dicts, tuples, strings, boxed values | the C functions the VM and the backend call | the containers are what their names say |

Parts interact by calls in one thread, with one exception: `resolve_all` starts a
thread per module (`std::async`). They share two process-wide singletons, the
module manager and the Debugger's static flag.

What is hard here, in order of weight:

1. *Recursion over shared state in the generator.* Each `emit_*` creates blocks
   before it lowers nested statements and comes back to them afterwards; in between
   anything may have changed the current block, the loop stack or the handler flag.
2. *Layout.* Blocks without terminator rely on what the reverse post-order puts next,
   blocks are dropped by recorded edges and not by jumps.
3. *Concurrent module loading,* with a lookup and a store in separate critical sections.
4. *Nested type checkers over cyclic imports,* which reset and read one shared flag.
5. *Names as keys in the type checker:* scopes are a chain, but memory states, linear
   types and references are maps keyed by name that outlive the scopes.
6. *Expressions in the generator:* operands and arguments are lowered in many places, some
   twice, and a variable's register is used in place.
7. *Three hand-written relations on types* (conversion, common type, compatibility) and the
   rules that rest on them; patterns, error types and captures.
8. *A parser that reports errors without throwing:* every method goes on with what it has.
9. *Passes that rewrite in place* (the two optimizers), with facts computed before.
10. *Integers in three representations,* dicts whose keys collide, blocks of memory that
   wander between four kinds of lists.
11. *Channels* without a scheduler that would run the suspended side.

The list of hazards in `PROJECT.json` gives each one at its line.

Parts of the source that no running program reaches: the optimizer of syntax trees (no
caller), the LIR optimizer (both call sites are switched off), the value half of
`backend/types.hh`, the library in `memory/` (nothing outside it calls it), the
scheduler (constructed by the VM, never asked to run anything), and fibers, which stay
in state CREATED.

## 2. Modules

| Module | Models | Uses |
|---|---|---|
| `LirCfg` | the graph under construction and every lowering that creates blocks | |
| `LirFlatten` | clean-up, validation, layout and jump resolution; how the VM follows jumps; the meaning of the source | extends `LirCfg` |
| `MCLirFlatten` | the programs that TLC considers | extends `LirFlatten` |
| `NaturalLemmas` | lemmas on naturals: least elements, maxima, functions by iteration | |
| `LirCfgProofs` | proofs about `LirCfg` | extends `LirCfg` |
| `ModuleLoading` | what `resolve_all` promises: one step that loads what is reachable | |
| `ModuleManager` | `resolve_all` and `load_module` with their threads | refines `ModuleLoading` |
| `MCModuleManager`, `ModuleManagerProofs` | its instance and its proofs | extend `ModuleManager` |
| `Compile` | the driver, the nested type checkers, the Debugger's flag, initialisation order | extends `ModuleLoading` |
| `MCCompile`, `CompileProofs` | its instance and its proofs | extend `Compile` |
| `TypeChecker` | scopes, memory regions, linear types, references and return types over the bodies of a program | |
| `MemoryChecker` | the pass that follows, over the same program | extends `TypeChecker` |
| `MCTypeChecker`, `TypeCheckerProofs`, `NameProofs` | the programs that TLC considers; proofs about the type checker; about its names and the memory checker | extend `MemoryChecker` |
| `Scanner` | `scanTokens`: a text becomes tokens and trivia | |
| `Grammar` | the methods of the parser as programs of checks, matches, consumes and calls | |
| `Parser` | the machine that executes them: position, errors, context stacks | extends `Grammar` |
| `ParserProofs` | its proofs | extends `Parser` |
| `MCParser` | the token streams that TLC considers | extends `Parser` |
| `TypeSystem` | types, aliases, conversion, common type, and the passes that declare them | |
| `TypedValues` | the values of `types.hh`: creation, conversion, ok, error and option | extends `TypeSystem` |
| `Typing` | the checker's rules for a function: expressions, calls, lambdas, patterns, error types | extends `TypeSystem` |
| `MCTypeSystem` | a program and the functions and values that TLC considers | extends the last two |
| `ExpressionLowering` | `emit_expr` and what it calls, the machine that runs the code, the meaning of an expression | |
| `MCExpressionLowering` | the expressions that TLC considers | extends `ExpressionLowering` |
| `AstOptimizer`, `LirOptimizer` | the two optimizers, with an interpreter each for what they must keep | |
| `MCPasses` | texts, programs and functions that TLC considers | extends `Scanner` and the two |
| `RuntimeValue` | tagged words, boxed integers, arithmetic, tuples and lists | |
| `Channel` | a channel as the VM uses it | |
| `RegisterVM` | the register machine | extends `RuntimeValue`, `Channel` |
| `Map` | what a dict promises | |
| `Containers` | dict and tuple of the run-time library | extends `RuntimeValue`, refines `Map` |
| `ExecutionProofs` | proofs about the machine and the containers | extends `RegisterVM`, `Containers` |
| `MemoryManager` | allocator, manager, region and handles of `memory/` | |
| `MCExecution` | programs, keys and bounds for the run time | extends the machine, the containers and the memory library |

`Compile` uses `resolve_all` as the single step of `ModuleLoading`; that the threads of
`ModuleManager` implement this step is checked by TLC and proved.

### LirCfg

State: `cfg` is `current_function_->cfg` with `cfg_context_.current_block`; `loops` is
`loop_stack_`; `in_else` is `else_context_.in_else_block`; `open` is the C++ call stack,
one frame for each `emit_*` call that waits for a nested statement. A statement with a
body is two actions, the code before the body and the code after it (an `if` has a
third between its branches, a `match` one per case). The helpers have the names they
have in `core.cpp`.

The source program is not an input: `src` records the tokens as the generator meets
them, and every sequence of actions that can be finished is a program. The constant
operator `Allowed` bounds the programs; the proofs assume nothing about it. Straight-line
code is one instruction `Op` labelled with its statement. Registers, types and the
deinitialisation calls of `exit_scope` are left out; so are the `_linear` variants, which
only task bodies use.

### LirFlatten

`flatten_cfg_to_instructions` is translated step by step (reverse post-order with
successors last to first, positions, targets). `FlatFaithful` compares the result with
the meaning of the source, which `SrcAt` and `SrcNext` read off the tokens: for each
instruction with a meaning and each value of its condition, the next such instruction
must be the one the source wants. `imm_target` is where the generator puts a target,
`vm_target` where `RegisterVM::execute_control_flow` reads it.

### ModuleLoading, ModuleManager

The disk (which files exist, which the parser gives up on, who imports what) is chosen in
the initial state. `main` is the program counter of the thread in `resolve_all`; each
element of `futures` is a task with its own program counter. `load_module` is a lookup
under the lock, then parsing, then a store under the lock. A task that throws keeps its
exception until `get`; `resolve_all` is then left once the destructors of the other
futures have waited for their tasks.

### Compile

`stage` is the place in `executeFile`. `stack` holds the type checkers at work: each
`check_program` resets `hadError`, looks for cycles, starts a checker for every module
not yet marked, then checks its own imports and bodies. The recursive search along the
imports, which finds cycles and sorts the modules, is written out as the steps it takes:
`Search` looks at the next import of the module at the end of the path, or at the next
module of the map when the path is empty, and `Searched` is the state after the steps that
a search can take at most. `init_calls` are the loaded modules of the order. The order in
which a checker meets modules is that of a hash map, so any order. What is in a file is its fault: none,
a syntax error the parser recovers from, a type error, or a memory error (root only,
because the memory checker looks at nothing else).

### TypeChecker, MemoryChecker

`tc` is the state of one `TypeChecker` in PASS 3 of `check_program`: the chain of scopes,
`variable_memory_info`, the region stack with its counters, `linear_types`, `references`,
`current_return_type`, and the errors by the token they were reported at. `core.cpp` and
`memory.cpp` define the same methods; the linker takes those of `core.cpp`, and so does the
model. As in `LirCfg` the walk over the AST is a behaviour, a statement with a body is two
actions, and `src` records the tokens. Types are tags (`Int` for those that are copied,
`List` for those that are moved, `Function`, `Channel`, `Any`, `String`, and the null
pointer); an expression is a literal, a variable or an assignment. An error message that
asks a null type for its text ends the compiler (`phase = "crashed"`).

`mc` is the state of the `MemoryChecker`, which starts when the first pass has reported
nothing and walks the recorded tokens with `pc`. It has no case for functions, methods and
concurrent blocks, whose bodies it therefore skips.

What the source means is read off the tokens alone: `Visible` is the declaration that the
nesting makes visible, `Moves` a declaration initialized from a variable that is not
copied, `UseAfterMove` a later use of that same declaration.

### Scanner

One step is one turn of the loop of `scanTokens`; a token is scanned whole. Characters are
strings of one character from an alphabet that has every class the code distinguishes, and
an escape in a string is one symbol. Both modes are modelled, LEGACY, which drops
whitespace and comments, and CST, which keeps them as trivia. `inStringInterpolation` is
never set in the code; `scanAllTokens` and `scanTokenCST` are not called. What a caller is given
are the tokens with their `leadingTrivia`: the buffer of trivia is private, and `scanTokens` drops
what it holds at the end.

### Grammar, Parser

Each method of the parser is a sequence of the operations it performs (`Grammar`), and the
machine executes the sequence on top of its stack `todo`, which is the C++ call stack. The
stream of tokens is chosen as it is read, so a run covers all streams of a shape. Every
construct keeps its checks, matches, consumes, errors, pushes and pops; of the trees only
operators and match cases are recorded. `error` counts and goes on; after `MAX_ERRORS` the
parser gives up. `synchronize` is dead code and left out, as is the cap of 100 elements
in a pattern.

### TypeSystem, TypedValues, Typing

`TypeSystem` declares the types of a program in the passes of `check_program` (names first,
then aliases, enums, frames and traits), in any order of the declarations, and looks them
up; `canConvert`, `getCommonType` and `is_type_compatible` are operators over types of any
nesting. `TypedValues` keeps of a value the fields that creation, conversion and unwrapping
read and write, with widths given by `Bits`. `Typing` is the check of one function as one
action; `Eval` in it is the reference, an evaluation that collects the types of the values a
function may compute, and says what a match leaves uncovered and a lambda reads.

### ExpressionLowering

`emit_expr` and the methods it calls are operators from a generator (next register, types of
registers, code) to a generator and a result register. There are two maps of types,
`register_types_` and `register_language_types_`, as in the code: which of them a method fills in
decides what the next one emits. The action `Lower` lowers one
expression; the others execute its code on registers and a heap. `Agrees` compares value,
calls in order, variables and objects with a direct left-to-right evaluation. Decimals, error
and ok expressions and the transfer of ownership in assignments are left out.

### AstOptimizer, LirOptimizer

`AstOptimizer` takes one top-level statement a step, at most `MAX_ITERATIONS` times over the
program; `LirOptimizer` one pass a step, in rounds of four. Both carry an interpreter for
programs before and after. Numbers of syntax trees are fractions, because the optimizer folds
7/2 to 3.5 where the machine divides whole numbers. The interpreter of syntax trees follows the
lowering of `src/lir` where a rewriting could show: the operands of a sum are computed twice
unless one is known as a string, a sum of strings that are not known as such means nothing, and
only the types Int64, Bool and String have constants. `context.flaws` records where the optimizer
did one of the things it is known to do wrong.

### RuntimeValue, Channel, RegisterVM, Map, Containers

A value is a tagged word or a pointer to an object of the heap; the widths of small and
boxed integers are the constants `I64_BITS` and `I128_BITS`, and arithmetic wraps at them as
in C. A program grows one instruction a step out of one family and is executed as it
grows. The instructions the VM has no case for do nothing, as in the code. Each action
requires operands of the kind the type checker guarantees. `Containers` has the dict with
its buckets and the tuple with its array and iterator; `MapOf` maps the dict to `Map`.

### MemoryManager

A block of memory is a number. Blocks are in the free list of a pool, in a reuse pool of the
region, with the system, or under an object. `create`, `destroy`, `move`, `copy`,
`enterScope`, `exitScope`, `collectGarbage` and the destructor of the region are the actions;
clients keep the discipline of C++ locals (`CLIENTS = "raii"`). Constructors may throw;
destructors and malloc may not. Clients are sequential: `MemoryPool::allocate` expands a pool
outside its spinlock, which would matter with two threads, but nothing uses it so.

## 3. Runs

| Run | Result | Distinct states |
|---|---|---|
| `lir_lowering` | passes | 243,654 |
| `modules_resolve` | passes | 159,813 |
| `compile` | passes | 214,968 |
| `checkers` | passes | 263,978 |
| `parsing` | passes | 635,299 |
| `types` | passes | 23,594 |
| `expressions` | passes | 190,344 |
| `passes` | passes | 1,532,854 |
| `execution` | passes | 1,342,817 |
| `bad_vm_jump`, `bad_use_after_move`, `bad_fallible` | violated, see below | |

`passes` and `execution` check several components that do not interact; a behaviour belongs
to one of them (the variable `subject`), so their state spaces add up.

**lir_lowering.** Programs of up to three statement tokens with every kind of statement
and condition, and longer ones of one profile: branches and while loops (5 tokens),
for and range iteration (5), conditions with and/or/`?` (3), collections and channels (4),
match with two cases (6), `?` and handlers (4, twice). Three tokens are enough for a
statement in a statement in a statement; five for a loop with a branch, a jump and code
after it, the shapes where the current block, the loop stack and the layout interact.
Checked: `TypeOK`; `EdgesSymmetric`
(edges are recorded at both ends at each step); `ReservedFresh` (a block reserved for later is
untouched when its turn comes); `LoopStackMatches`; `TerminatedKept`; and for the finished
function `FlatFaithful`, `FallThroughPlaced`, `CfgVerdict`. `validate_cfg` is modelled with all its
checks, and `CfgVerdict` says from the source what it answers, in both directions: it accepts a
function whose loops and handlers have plain tests and bodies without branches, and refuses one
as soon as a path reaches the end of a loop's or handler's body that branches, a short-circuit or
`?` in a loop's test, or, in `main`, a `?` just before or in the test of an `if` (check 4 looks for
a terminator in every block with an Unwrap). Two shapes known to be wrong
(`continue` in an iteration over a collection, a handler in a handler; see below) are left
out of `FlatFaithful` by `Sound` in `MCLirFlatten`. A finished function has no next step, hence no deadlock
check.

**modules_resolve.** Three paths, a root that imports two of them (one twice), every
import graph with up to two imports per file, self-imports and cycles included, every
combination of missing and unparseable files, every interleaving. `LoadedOnce`,
`ImplementsLoading` (the refinement) and `Resolves`. Two imports per file are what a diamond
and a cycle with a way out need. Fairness: weak fairness of the calling thread and of the
tasks; `std::launch::async` gives every task a thread, and none blocks for ever (the
lock is held only for a map access).

**compile.** Three modules, two imported by the root, every import graph; faults of
every kind where files have at most one import. `CheckedOnce`, `ErrorsStop`,
`InitializedInOrder`, and `Advances`: every step moves a bounded measure forward and, as
deadlock is checked, the compilation ends.

**checkers.** Two variables and one function. Every program with up to two statements of
any kind, and longer ones of one profile (`Profiles`): moves and blocks (5), assignments and
blocks (5), loops and branches (3), assignments in functions (3), annotations (3), all
statements with a body (3), functions and returns (4). A move needs a declaration, the move
and the use; a block around or between them makes five tokens. `RegionsMatch` (scopes,
regions, counters and the return type follow the nesting), `LexicalLookup` (the chain of
scopes finds what the nesting makes visible), `MovesReported`, `LinearMovesReported` and
`ReturnsChecked` (what is reported, with the conditions under which the code's maps keep
their record), and `MovesRemembered` for the second pass. The
conditions are sharp: what they exclude is the subject of `bad_use_after_move` and of the
hazards. The variables are symmetric. A program may end anywhere, hence no deadlock check.

**parsing.** 26 shapes of token streams, in each of which several tokens stand at every
position; together they reach every method, with wrong tokens in each part.
`ContextsBalanced`: between declarations no block is open and no concurrent block assumed,
whatever errors came before. `PrecedenceKept`: chains of operators become the tree that
their precedence gives. `EndsUnlessAtCloser` (liveness): the parser ends unless a closing token
that opens nothing stands at the start of a statement. Fairness: the parser is one thread
that never blocks. Three errors are enough to recover, recover again and give up.

**types.** One program with two enums, an alias, frames and traits, one of them met by structure
alone, and a block with an enum, more than 2,000 functions over every kind of expression, pattern, lambda and return type,
and values of 2 to 4 operations. `ConversionPreorder` (conversion is reflexive and, outside
the exceptions listed in it, transitive), `CommonIsUpperBound`, `ContentsKept` (a value wrapped,
converted and unwrapped is the same, apart from integers and digits the target has no room for:
a conversion between floats goes through `std::to_string`, which writes six decimals, and a
Float32 rounds; `DECIMAL` and `Precision` stand for the two), `TypesPredict` (an accepted function returns only values
of the type it declares), `MatchesCovered` (an accepted match on a fallible value has a case
for every outcome), `CapturesComplete` (a lambda captures what it reads).

**expressions.** 9,944 well-typed expressions of up to three levels, inside and outside a
task, over variables of ten types and two frames. `LoweringCorrect` holds for those free of the
ten things the generator gets wrong. Each is an operator of the module and a conjunct of `Sound`,
and without any one of them TLC finds an expression that is computed wrongly:

| Exception | What the code does |
|---|---|
| `NothingRepeated` | operands of a non-string `+`, and the argument of `append` and `send`, are lowered twice |
| `NoAlias` | the register of a variable is an operand as it is, so an assignment next to it is seen |
| `OperatorKept` | a compound assignment to a field or an element stores the right operand |
| `MarksAreOurs` | an interpolation takes the marker in a text for its own |
| `CastsKeep` | a cast is a Mov |
| `LiteralsKept` | `compiler_value_to_backend_value` gives nil for floats, unsigned and small integers; a text that looks like a number is parsed and printed again |
| `OperandsKnown` | results of calls and of string operations have no entry in `register_types_`: `f(x)/2` casts one operand to F64, `("a"+s)+1` is an Add |
| `ObjectsKnown` | a tuple or dict written in place is indexed with ListIndex |
| `PayloadsKept` | a variant without argument, named through its enum, gets register 0 as payload |
| `CallsMade` | a call whose value is a frame emits no call |

**passes.** `TextKept`: all texts of up to five characters over eleven alphabets, each with
what one kind of token needs, of six over that of interpolations after a line break, and of up to
six over that of comments. In CST mode every position up to the last token lies in one token or
one trivia, and trivia stand right before their token; what follows the last token (a comment at
the end of a file, say) is in none, and neither is what stands before an unexpected character at
the end. `OutputKept`: `x` is declared and up to three of twenty-six statements follow; eight
kinds of flaw are excepted where they arise, each reached by some program and each changing what
one prints. `PassesPreserve`: eleven families of opcodes with three or four instructions and a
return, in all rounds. What the LIR optimizer gets wrong is stated in the property: a removal that
does not adjust jumps, and liveness that follows none, are why only straight code in which a
temporary is read once is preserved by all passes. Texts and functions end, hence no deadlock
check.

**execution.** Small integers of 6 and boxed ones of 8 bits; constants that reach both limits
in two steps; twelve families of opcodes with programs of four or five instructions on two
registers; two buckets with five keys, three of which collide or share a hash; tuples of up
to four elements; objects of three sizes, two from pools and one from the system, five
client steps, two scopes. `NumbersExact` (a register holds the number the program computed,
modulo 2^128), `ChannelFifo` (of the values stored; what a full channel turns away is lost, see
`SendsBlock` below), `DictIsMap` (the refinement), `TupleKeeps`, `BlocksOnce`. The
variables that hold handles are symmetric. Programs end, hence no deadlock check.

**Disagreements.** Each of three runs shows one thing that the repository says and the code
does not do.

| Run | Says | Does |
|---|---|---|
| `bad_vm_jump` | `lir.hh:262`: imm holds "constants or jump targets" | the VM jumps to operand a or b (`control_flow.cpp:11`), which the generator leaves 0 or uses for the condition |
| `bad_use_after_move` | `docs/guide.md:1301`: "Ownership and borrowing are verified at compile time" | leaving a block erases the memory state of the variables around it (`type_checker/core.cpp:584`), and the memory checker restores its set of moved variables (`memory_checker.cpp:224`): a move inside a block is forgotten after it |
| `bad_fallible` | `docs/guide.md:1158`: `fn divide(a: int, b: int): int?DivisionByZero {` | the annotation resolves to `int`, and a function that declares errors is rejected because `int` is no error union (`type_checker/types.cpp:494`) |

The modules state further ones, which TLC refutes when the property is put in the cfg
named:

| Property, cfg | Says | Does |
|---|---|---|
| `FlatFaithful` without `Sound`, `lir_lowering` | `docs/guide.md:266`: "`continue` to skip to the next iteration" | over lists, tuples, dicts and channels the continue label is 0, the entry block: the function starts again (`statements.cpp:1342`) |
| same | `statements.cpp:977`: "Inside an else block - store the value in the result register instead of returning" | an inner handler clears the flag for the rest of the outer one (`expressions.cpp:2700`) |
| `ReportedErrorsStop`, `compile` | `debugger.hh:93`: hasError checks "if any errors have been reported" | a syntax error in an imported module is reported, reset by the type checker, and the program runs |
| `Terminates`, `parsing` | `parser.cpp:49`: "Advance to ensure progress and avoid infinite loops" | a stray `}`, `)` or `]` at the start of a statement is never consumed |
| `CasesKept`, `parsing` | `tests/types/strict_mandates.lm:9` ends its cases with a comma | the last case before `, }` is dropped (`parser/statements.cpp:877`) |
| `AliasMeansType`, `types` | `docs/guide.md:1003`: "You can create an alias for an existing type" | the name is already declared as Any (`type_checker/core.cpp:68`) and hides the alias |
| `LoweringCorrect` without `OperatorKept`, `expressions` | `activities.md:65`: compound assignment operators are done | `obj.f += v` outside a task stores `v` (`generator/expressions.cpp:2084`) |
| `ReturnsValue`, `execution` | `docs/guide.md:552`: "Functions can return a value using the `return` keyword" | Return leaves register 0 alone (`register.cpp:215`) |
| `SendsBlock`, `execution` | `lir.hh:164`: ChannelSend "Blocks sender if channel is full" | the value is dropped (`channel.hh:59`) |
| `ValidRefsAlive`, `execution` with `CLIENTS = "refs outlive"` | `docs/architecture.md:16`: generations "prevent dangling references" | a reused block of the same generation makes an old Ref valid again (`memory.hh:603`) |
| `TokensDisjoint`, `passes` | `scanner.cpp`: "process the identifier separately" | an unknown `@foo` becomes AT_SIGN and IDENTIFIER, both with the whole text |
| `TextKept` for every position, `passes` | `cst.hh:132`: "CST preserves ALL source elements in order"; `cst.hh:169`: "Rebuild original source with all trivia" | `scanTokens` pushes the end-of-file token without the trivia it has collected (`scanner.cpp:58`), and no accessor gives them |
| `OnlyConstantsPropagated`, `passes` | the comment in `propagateConstants` | popScope forgets which variables the pre-analysis marked |

Every property of a passing run has a mutant of the code (the operators marked
"Mutant" in the modules) that violates it.

## 4. Proofs

`LirCfgProofs` proves for every program, of any length and nesting (no assumption on
`Allowed`; `MaxCases` is a natural number):

- `TypeCorrect`, `GraphWellFormed`, `ReservedBlocksFresh`: `TypeOK`, `EdgesSymmetric`,
  `JumpTargetsExist`, `TerminatorLast` and `ReservedFresh` are invariants.
- `TerminatedBlocksKept`: the action property `TerminatedKept`.
- `LoopsMatched`: `LoopStackMatches`, which is inductive together with the types: a loop is pushed
  on both stacks, or popped from both, by the same step.

The inductive invariant of the graph is the conjunction of those five. They need one another: that a
lowering comes back to an empty block (`ReservedFresh`) is what keeps terminators last, the
typing of frames and loop labels is what keeps jump targets in the graph, and a
`set_current_block` needs its block to exist. The proof is in three layers: lemmas on graph
operators (what a new block, an instruction, an edge or a mark preserves), stated with
the predicate "a good graph that leaves a set R of blocks alone"; lemmas on the
emission patterns, composed from those; and one lemma per action.

`ModuleManagerProofs` proves for every set of paths, every root and every import graph:

- `ManagerTypeCorrect`, `NoModuleLoadedTwice`: `ManagerTypeOK` and `LoadedOnce`.
- `ResolveAllIsAtomic`: `ManagerSpec` implements `ModuleLoading!LoadingSpec`.

The invariant adds to typing that tasks, worklists and started paths are reachable
(*nothing else*), that an import of a loaded module is loaded, started, missing or still
in a list (*nothing forgotten*), that a started path is accounted for by its task or by
its file, and that a failed call has met a file that aborts. On return the lists are
empty, so the started paths are closed under import and contain everything reachable.

`CompileProofs` proves for every finite set of modules, every import graph and every
assignment of faults (`RootAssumption`, `FaultsAssumption`: the root's imports are modules,
the faults are those the model knows):

- `ModulesCheckedOnce`, `ErrorsStopped`: `CheckedOnce` and `ErrorsStop`.
- `CompileAdvances`: the action property `Advances`. Its measure needs that a nested checker
  is only started for a module that is loaded and not yet marked.
- `InitializationOrdered`: `InitializedInOrder`. What it rests on are facts about the search:
  it ends within the steps `Searched` takes (each name is visited once and each import looked
  at once), it fails exactly where there is a cycle, and otherwise its order lists each
  module after its imports.

The inductive invariant `CompileInv` has five parts: types, the loaded modules are what
`resolve_all` promises, the stack of checkers names marked modules, errors are kept by
some checker of the stack or by the flag, and the second round repeats the first on the
same loaded set. The difficult part is the flag, which each nested checker resets: an error
is not lost because the checker that ends hands its result to the one around it, and no
checker starts once one has ended (the first begins all of the others).

`TypeCheckerProofs` proves for every set of names (`NamesAssumption`: names are not the
strings that stand for types) and every program:

- `RegionsMatched`: `RegionsMatch`, from the inductive invariant `StructureInv`: types, each open statement
  is an opener that no `end` has closed, its `up` is the one around it, and depth, region
  stack and counters are those of the open statements.
- `ReturnTypesChecked`: `ReturnsChecked`, from an invariant that connects the return type set
  with the innermost function that is open. The condition of the property (no function has
  ended inside this one) is what the code's single `current_return_type` needs.

`NameProofs` proves about the same programs:

- `ScopesLexical`: `LexicalLookup`. The invariant says that the scopes are layered on the
  statements that are open (`Layers`), and that each scope holds for each name its last
  declaration among the tokens that belong to it (`Held`); a lookup from the innermost scope
  then finds the last declaration in scope. `Visible` is a recursive function of positions:
  two functions that satisfy its equation agree, because they agree at the least position
  where they could differ, and a token more extends it.
- `LinearMovesKnown`: `LinearMovesReported`. The invariant relates the linear types to the
  assignments of the program: a variable that an assignment declared is linear, and marked as
  moved from the assignment that gave it away until it is assigned again. Every other step
  leaves linear types alone, and each reading of a name is checked against them (`Reads`).
- `MovesKnownReported`: `MovesReported`. A variable keeps the record of memory that its
  declaration made, with the region it was declared in, until its name is declared anew or a
  statement of that region ends (`MemoryAt`); a declaration that takes the value leaves the
  record moved. The invariant, `MovesKnown`, needs two facts about the program alone: the type
  checker's region counter is the number of regions that are open in the source, functions
  counted twice (`RegionsNow`), and the region of a variable in scope is one of these
  (`RegionBound`), so that the end of an inner statement cannot reach the record.
  `MemoryStep` says what each action does to a record; each action has its lemma.
- `MovesStayKnown`: `MovesRemembered`. The memory checker is inside exactly the statements that
  have not ended, its saved sets are those with which it entered them, and a name moved before
  a statement is in the set saved for it; a statement that is skipped has one end.

`ExecutionProofs` proves of the run-time library `TupleElementsKept` (`TupleKeeps`) and `DictImplementsMap` (a dict
implements `Map`, for every hash function, number of buckets and set of keys with an equality;
`KeysAssumption`). Each bucket is a list without two equal keys, all keys of a bucket hash to it.

`ExecutionProofs` proves of the register machine `VmInvariant`, `ChannelsInOrder` (`ChannelFifo`) and `NumbersStand`
(`NumbersExact`) for all widths of tagged and boxed integers (`WidthAssumption`), all programs
(`MachineAssumption`) and all channel capacities. The bitwise operations are a constant
operator, because no installed prover knows `Bitwise`. `VmInv` says that every word in a
register, on the heap, in a channel or in a container is well-formed, and that the numbers of the
history are those the words stand for.

`ParserProofs` proves `ContextsKept` (`ContextsBalanced`) for every token stream, both modes, any
depth of nesting and any number of errors (no assumption but those of `Parser`). The methods are
data, so the proof has two halves:

- A judgement `Ok(p, a, c)`, a Hoare triple: the program `p`, begun at the mark `a`, ends at the
  mark `c`. A mark says how many blocks are open, how many CST nodes are at least still to be
  popped, and what the place may count on: that the end of a loop, or of the method, is ahead.
  Programs are nested data, and triples are not defined by induction over them but
  coinductively, by sets of triples that are closed under the rules (`OpOk`): a set that holds a
  loop's triple may use it for the loop's body. `ProceduresKept` shows that each of the 51
  methods ends at the mark at which it began.
- `ParserInv`: the rest of the program, `todo`, is Ok from a mark that is what the stacks show.
  One lemma per action shows that a step keeps this. `break`, `continue` and `return` drop what is
  ahead up to the place they look for; `StopAhead` shows that the place is there and that no
  context opened inside is still open at it.

Recursive functions of naturals (`Searched`, `Visible`) are reached by `NaturalLemmas`: every
set of naturals has a least element, which replaces induction, and a function given by
iteration exists and has the values its equation says. The library's induction theorems take
an operator as a parameter and cannot be instantiated.

Only model-checked, and why:

- the liveness properties `Resolves` and `EndsUnlessAtCloser`;
- what rests on RECURSIVE operators: `FlatFaithful`, `FallThroughPlaced` and `CfgVerdict`
  (the flattening of a graph), and everything over trees of any depth (`Typing`,
  `TypeSystem`, `TypedValues`, `ExpressionLowering`, `AstOptimizer`, `LirOptimizer`,
  `Scanner`);
- `PrecedenceKept`: its reference, `Postfix`, is a recursive function of two arguments, which
  the provers cannot unfold;
- `BlocksOnce`, which counts the places of a block with `MapThenSumSet` and whose model frees
  sequences with `FoldLeft` and filters them with `SelectSeq`: facts about a fold take an
  operator as a parameter, which no installed prover can instantiate.

## 5. Not modelled, and the plan

`PROJECT.json` lists every part with its status. Left out:

- the Fyra backend, which translates to a library that is not in the repository;
- fibers, tasks, scheduler and shared cells: no code starts a fiber, the VM has no case for
  their instructions, and the lowering of tasks produces functions that nothing calls;
- scopes and `deinit` calls in the generator, name mangling, registration, serialisation;
- printers, CST utilities, the formatter and the language server, which have no state;
- `BigInt`, the interpreter's environment and symbol table, which the register VM replaced;
- contracts, imported symbols (`filter_symbols`) and the generics of traits in the type checker.

Behaviour that the models have and that a reader may not expect, without a document that
says otherwise:

- *Parser.* `a * b ** c` is a syntax error (the right operand of `*` is a unary); a nested
  concurrent block clears the flag of the outer one; in CST mode `parse` leaves a freed node
  on the context stack.
- *Types.* Decimals convert only to their own scale; Any gives way in a common type; the
  common type of an int and a float is Float64 although an int does not convert to it; enum
  matches are never checked for exhaustiveness; guards are ignored; `?` is accepted in
  functions that cannot fail; an unqualified variant means the enum declared last.
- *Generator.* `validate_cfg` reports loops and handlers whose bodies branch, and a `?` before an
  `if` in `main`, although their code is right: the back edge is recorded from the block the body
  began in (`statements.cpp:775`). The errors go to `errors_`, which `executeFile` never reads.
- *Expressions.* The ten exceptions of the run `expressions`; besides, index assignment is always
  DictSet, named arguments of ordinary calls are ignored, and `**` calls pow without arguments.
- *VM.* Float constants load as nil; a cast of a float to an integer gives 0; receiving from
  an empty channel gives 0; equal strings at different addresses compare unequal;
  Mod, ListIndex, the Dict instructions, ConstructError, IsError and Unwrap do nothing.
- *Containers.* The number of buckets never changes; `contains` is false for a key stored with
  nil; shrinking a tuple and growing it again shows the old elements.
- *AST optimizer.* The eight flaws of `OutputKept`: a variable with assignments is taken for a
  constant, after a block has cleared the marks or when the assignment is in a kind of statement
  the pre-analysis does not visit; the variable of a `for` without block outlives the loop as a
  constant; a ternary with a constant condition becomes a null pointer; `x * 0` drops the effects
  of `x`; a negated literal is typed UInt64 (`stoull` accepts `-1`), folds no further and lowers to
  nil; 7/2 becomes the integer literal 3.5; `"{x}{y}"` of two integers becomes their sum; texts
  joined to `1-1` or `01` are read as numbers.

Next to model: scopes with their `deinit` calls in the generator, and the parsers of
concurrent tasks on the static members of `Debugger`.
