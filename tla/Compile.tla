------------------------------- MODULE Compile -------------------------------
(***************************************************************************)
(* One run of Compiler::executeFile (limitly.cpp) over a root program and   *)
(* the modules it imports: parse, load the modules, type check, memory      *)
(* check, type check again, generate LIR, run.                              *)
(*                                                                          *)
(* The type checker checks modules from inside PASS 0 of check_program: for *)
(* each module not yet marked it starts a new checker, whose check_program  *)
(* does the same before it looks at its own imports and bodies.  All of     *)
(* them share the Debugger's hadError flag, which every check_program       *)
(* resets when it starts and reads when it ends.                            *)
(*                                                                          *)
(* What is in a file is abstracted to its fault, if any: a syntax error the *)
(* parser recovers from, a type error, or (root only) a memory error.       *)
(* resolve_all is the one-step action that ModuleManager implements.        *)
(***************************************************************************)
EXTENDS ModuleLoading, FiniteSets, SequencesExt

CONSTANTS
    Faults,     \* the faults a module may have
    RootFaults  \* the faults the root program may have

\* "root" stands for the root program, which no path names.
ASSUME FaultsAssumption ==
    /\ IsFiniteSet(Names) /\ "root" \notin Names
    /\ {"none"} \subseteq Faults /\ Faults \subseteq {"none", "syntax", "type"}
    /\ RootFaults \subseteq {"none", "syntax", "type", "memory"}

VARIABLES
    faults,      \* the fault of each module
    rootFault,   \* the fault of the root program
    stage,       \* where executeFile is
    round,       \* how many type checks of the program have begun
    hadError,    \* Debugger::hadError
    reported,    \* history: the Debugger has reported some error
    checked,     \* the modules with is_checked
    stack,       \* the type checkers at work, the innermost last
    checks,      \* history: checks of each module that ended in this round
    inits        \* the modules whose __init__ the top-level code calls, in order

input == <<files, imports, faults, rootFault>>
manager == <<loaded, outcome>>
debugger == <<hadError, reported>>
checker == <<checked, stack, checks>>
compileVars == <<input, manager, stage, round, debugger, checker, inits>>

CompileInit ==
    /\ LoadingInit
    /\ faults \in [Names -> Faults]
    /\ \A n \in Names : files[n] # "parsed" => faults[n] = "none"
    /\ rootFault \in RootFaults
    /\ stage = "parse" /\ round = 0
    /\ hadError = FALSE /\ reported = FALSE
    /\ checked = {} /\ stack = <<>>
    /\ checks = [n \in Names |-> 0]
    /\ inits = <<>>

\* Debugger::error, when some condition holds
error(cond) == hadError' = (hadError \/ cond) /\ reported' = (reported \/ cond)

(***************************************************************************)
(* The depth-first search that get_topological_order and                    *)
(* has_circular_dependencies have in common, the recursion written out:     *)
(* path holds the names whose visit has begun and not ended, next the place *)
(* each visit has reached among the dependencies.  State 1 is on the path,  *)
(* 2 is done; a name on the path that is met again makes every visit return *)
(* at once and ok FALSE.  Every name of seq that is not met before starts a *)
(* visit of its own; from is the place of the next.                         *)
(***************************************************************************)
Dependencies(n) == IF n \in loaded THEN imports[n] ELSE <<>>

Unvisited == [state |-> [n \in Names |-> 0], next |-> [n \in Names |-> 1],
              path |-> <<>>, order |-> <<>>, ok |-> TRUE, from |-> 1]

visit(s, name) ==
    CASE s.state[name] = 0 -> [s EXCEPT !.state[name] = 1, !.path = Append(@, name)]
      [] s.state[name] = 1 -> [s EXCEPT !.ok = FALSE, !.path = <<>>]
      [] s.state[name] = 2 -> s

\* Mutant: a module comes before the modules it imports.
visited_first(s, name) ==
    [s EXCEPT !.state[name] = 2, !.order = <<name>> \o @, !.path = Front(@)]

visited(s, name) ==
    [s EXCEPT !.state[name] = 2, !.order = Append(@, name), !.path = Front(@)]

\* the next step of the innermost visit, or of the loop over seq
Search(s, seq) ==
    IF s.path # <<>>
    THEN LET name == Last(s.path)
             i == s.next[name]
         IN  IF i <= Len(Dependencies(name))
             THEN visit([s EXCEPT !.next[name] = i + 1], Dependencies(name)[i])
             ELSE visited(s, name)
    ELSE IF s.from <= Len(seq)
         THEN LET t == [s EXCEPT !.from = @ + 1]
              IN  IF s.state[seq[s.from]] = 0 THEN visit(t, seq[s.from]) ELSE t
         ELSE s

\* Every name is visited at most once, and each visit takes at most MaxImports + 2 steps.
Steps(seq) == Cardinality(Names) * (MaxImports + 2) + Len(seq)

Searched(seq) ==
    LET after[k \in Nat] == IF k = 0 THEN Unvisited ELSE Search(after[k - 1], seq)
    IN  after[Steps(seq)]

get_topological_order(seq) == Searched(seq).order

\* Mutant: a path back to the module it came from goes unnoticed.
has_circular_dependencies_direct(seq) ==
    \E n \in Range(seq) : n \in Range(Dependencies(n))

\* The search returns at the first path that is met again.
has_circular_dependencies(seq) == ~Searched(seq).ok

(***************************************************************************)
(* The stages of executeFile.                                               *)
(***************************************************************************)
\* The root program is parsed; an error ends the compilation.
parse ==
    /\ stage = "parse"
    /\ error(rootFault = "syntax")
    /\ stage' = IF rootFault = "syntax" THEN "exit" ELSE "resolve"
    /\ UNCHANGED <<input, manager, round, checker, inits>>

\* resolve_all: load_module parses each file and does not look at the parser's
\* errors, which the Debugger reports
resolve_modules ==
    /\ stage \in {"resolve", "check"}
    /\ Resolve
    /\ error(\E n \in loaded' : faults[n] = "syntax")
    /\ stage' = IF outcome' = "failed" THEN "exit"
                ELSE IF stage = "resolve" THEN "clear" ELSE "checker"
    /\ UNCHANGED <<faults, rootFault, round, checker, inits>>

\* Mutants: the modules of the last check stay; the second check is taken for
\* the first.
factory_check_program_keeping ==
    /\ stage = "clear"
    /\ stage' = "checker"
    /\ round' = round + 1
    /\ checks' = [n \in Names |-> 0]
    /\ UNCHANGED <<input, manager, debugger, checked, stack, inits>>

factory_check_program_first ==
    /\ stage = "clear"
    /\ stage' = "check"
    /\ round' = 1
    /\ loaded' = {} /\ outcome' = "pending"
    /\ checked' = {} /\ checks' = [n \in Names |-> 0]
    /\ UNCHANGED <<input, debugger, stack, inits>>

\* TypeCheckerFactory::check_program: the manager forgets its modules, and with
\* them which were checked, and loads them again
factory_check_program ==
    /\ stage = "clear"
    /\ stage' = "check"
    /\ round' = round + 1
    /\ loaded' = {} /\ outcome' = "pending"
    /\ checked' = {} /\ checks' = [n \in Names |-> 0]
    /\ UNCHANGED <<input, debugger, stack, inits>>

\* TypeChecker::check_program up to PASS 0: the flag is reset, then a cycle is an
\* error of this checker.  The modules are searched in the map's order, any order.
start_checker(who) ==
    \E circular \in {has_circular_dependencies(seq) : seq \in SetToSeqs(loaded)} :
        /\ stack' = Append(stack, [who |-> who, errors |-> circular])
        /\ hadError' = circular
        /\ reported' = (reported \/ circular)

check_root ==
    /\ stage = "checker"
    /\ start_checker("root")
    /\ stage' = "checking"
    /\ UNCHANGED <<input, manager, round, checked, checks, inits>>

\* PASS 0 of the innermost checker: an unmarked module is marked and checked
check_module ==
    /\ stage = "checking"
    /\ \E m \in loaded \ checked :
        /\ checked' = checked \cup {m}
        /\ start_checker(m)
    /\ UNCHANGED <<input, manager, stage, round, checks, inits>>

ImportsOf(who) == IF who = "root" THEN Root ELSE imports[who]
FaultOf(who) == IF who = "root" THEN rootFault ELSE faults[who]

\* Errors of the rest of check_program: an import that cannot be loaded, a type
\* error of the program itself, and perhaps one of a module it imports, whose
\* declarations are checked again with the program's own.
OwnErrors(who) ==
    LET certain == \/ \E n \in Range(ImportsOf(who)) : n \notin loaded
                   \/ FaultOf(who) = "type"
        possible == \E n \in Range(ImportsOf(who)) \cap loaded : faults[n] = "type"
    IN  {e \in BOOLEAN : (certain => e) /\ (e => certain \/ possible)}

\* The innermost checker, with every module marked, goes on to its own imports
\* and bodies and returns ~hadError; a failure is an error of the checker around
\* it, or ends the compilation if there is none.
finish_checker ==
    /\ stage = "checking" /\ loaded \subseteq checked
    /\ LET me == Last(stack)
           outer == Front(stack)
       IN  \E own \in OwnErrors(me.who) :
            /\ error(own)
            /\ stack' = [i \in DOMAIN outer |->
                            IF i = Len(outer) THEN [outer[i] EXCEPT !.errors = @ \/ hadError']
                                              ELSE outer[i]]
            /\ stage' = IF outer # <<>> THEN stage
                        ELSE IF hadError' \/ me.errors \/ own THEN "exit"
                        ELSE IF round = 1 THEN "memory" ELSE "generate"
            /\ checks' = IF me.who = "root" THEN checks ELSE [checks EXCEPT ![me.who] = @ + 1]
    /\ UNCHANGED <<input, manager, round, checked, inits>>

\* MemoryChecker::check_program looks at the root program only
memory_check ==
    /\ stage = "memory"
    /\ error(rootFault = "memory")
    /\ stage' = IF hadError' THEN "exit" ELSE "clear"
    /\ UNCHANGED <<input, manager, round, checker, inits>>

\* generate_program: the modules of the order that have an __init__, the loaded ones
init_calls(order) ==
    LET calls[i \in Nat] == IF i = 0 THEN <<>>
                            ELSE IF order[i] \in loaded THEN Append(calls[i - 1], order[i])
                                                        ELSE calls[i - 1]
    IN  calls[Len(order)]

generate_program ==
    /\ stage = "generate"
    /\ \E seq \in SetToSeqs(loaded) : inits' = init_calls(get_topological_order(seq))
    /\ stage' = "run"
    /\ UNCHANGED <<input, manager, round, debugger, checker>>

\* executeFile has returned, or the program runs
finished ==
    /\ stage \in {"run", "exit"}
    /\ UNCHANGED compileVars

CompileNext ==
    \/ parse
    \/ resolve_modules
    \/ factory_check_program
    \/ check_root
    \/ check_module
    \/ finish_checker
    \/ memory_check
    \/ generate_program
    \/ finished

CompileSpec == CompileInit /\ [][CompileNext]_compileVars

(***************************************************************************)
(* Properties.                                                              *)
(***************************************************************************)
\* In each of the two type checks every module that was loaded is checked, once,
\* although checkers start one another and the order is that of a hash map.
CheckedOnce ==
    stage \in {"memory", "generate", "run"} => checks = [n \in Names |-> IF n \in loaded THEN 1 ELSE 0]

Acyclic == \A S \in SUBSET loaded :
    S # {} => \E n \in S : Range(imports[n]) \cap S = {}

\* Although every check resets the shared flag, no type error is lost: a program
\* that runs has no type or memory error of its own, no module with a type error,
\* no import that is missing and no cycle of imports.
ErrorsStop ==
    stage = "run" =>
        /\ rootFault = "none"
        /\ \A n \in loaded : faults[n] # "type"
        /\ loaded = Reachable
        /\ Acyclic

\* The code before the root program calls the __init__ of every loaded module
\* exactly once, and after those of the modules it imports.
InitializedInOrder ==
    stage = "run" =>
        /\ IsInjective(inits) /\ Range(inits) = loaded
        /\ \A i \in DOMAIN inits :
              \A n \in Range(imports[inits[i]]) : \E j \in 1..(i - 1) : inits[j] = n

\* the stages of one round, in order
Rank == [parse |-> 0, resolve |-> 1, check |-> 2, checker |-> 3, checking |-> 4,
         memory |-> 5, generate |-> 6, clear |-> 7, run |-> 8, exit |-> 9]

\* checks begun and checks ended
Work == 2 * Cardinality(checked) - Len(stack)

\* Every step goes forward: to a later round, to a later stage of the round or,
\* in the checkers, to a check more begun or ended.  All three are bounded, so
\* the compilation ends, on cyclic imports too, and checkers that start one
\* another cannot go on forever.
Advances ==
    [][\/ round' > round
       \/ /\ round' = round
          /\ \/ Rank[stage'] > Rank[stage]
             \/ stage' = stage /\ Work' > Work]_compileVars

\* A program runs only if no error was reported: hasError says so of the errors
\* of all stages.
ReportedErrorsStop == stage = "run" => ~reported
=============================================================================
