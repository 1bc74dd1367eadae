---------------------------- MODULE TypeChecker ----------------------------
(***************************************************************************)
(* The names, scopes, memory regions and moves of the type checker:         *)
(* frontend/type_checker/core.cpp, statements.cpp, declarations.cpp and the *)
(* variable and assignment rules of expressions.cpp.                        *)
(*                                                                          *)
(* core.cpp and memory.cpp define the same methods.  Both are members of    *)
(* libLimitly.a, core.cpp first, so the linker takes those of core.cpp,     *)
(* which are the ones modelled.                                             *)
(*                                                                          *)
(* PASS 3 of check_program walks the AST.  As in LirCfg the walk is a       *)
(* behaviour, one action per statement and two for a statement with a body, *)
(* and any sequence of actions that can be finished is a program.  Types    *)
(* are their tags; expressions are literals, variables and assignments.     *)
(***************************************************************************)
EXTENDS Integers, Sequences, FiniteSetsExt

CONSTANTS
    Vars,           \* names of variables and parameters
    Fns,            \* names of functions
    Allowed(_, _)   \* bound: the programs considered.  Allowed(s, t): source s may
                    \* go on with token t

VARIABLES
    tc,       \* the state of the TypeChecker
    open,     \* the active check_* calls: the tokens they began with, innermost last
    globals,  \* variable_types after PASS 2: the functions of the program
    src,      \* the program met so far, with the types the checker has put on it
    phase     \* where the compiler is

vars == <<tc, open, globals, src, phase>>

Names == Vars \cup Fns

\* Type tags.  Null is the null TypePtr, Absent a name the scope does not hold.
Null == "null"
Absent == "absent"
NoName == "-"
Types == {"Int", "List", "Function", "Channel", "Any", "String"}
Literals == {"Int", "List"}

ASSUME NamesAssumption ==
    /\ Vars \cap Fns = {}
    /\ Names \cap ({NoName, Null} \cup Literals) = {}

\* is_type_compatible, on these tags
is_type_compatible(expected, actual) ==
    /\ Null \notin {expected, actual}
    /\ expected = actual \/ "Any" \in {expected, actual}

\* the types that check_variable_use and check_variable_move pass over
Unmoved == {"Function", "Int", "String"}

\* the types check_var_declaration copies: "is_copyable"
Copyable == {"Function", "Int", "String", "Any"}

(***************************************************************************)
(* Tokens: the name n that is declared or assigned, its annotation a, the   *)
(* value v.  ty is the inferred_type of the variable that v names; f and    *)
(* ret are the name and the return type of a function; up is the position   *)
(* of the innermost statement that is open, 0 at top level.                 *)
(***************************************************************************)
Token(k, n, a, v) ==
    [k |-> k, n |-> n, a |-> a, v |-> v, ty |-> Null, f |-> NoName, ret |-> Null,
     up |-> IF open = <<>> THEN 0 ELSE open[Len(open)]]

Binders == {"for", "concurrent", "task", "worker", "method"}
Openers == Binders \cup {"block", "if", "while", "parallel", "fn"}

(***************************************************************************)
(* Scope, add_error, lookup_variable                                        *)
(***************************************************************************)
NoInfo == [state |-> "none", region |-> 0]
NotLinear == [is |-> FALSE, moved |-> FALSE, generation |-> 0, references |-> {}]
Linear(generation) == [NotLinear EXCEPT !.is = TRUE, !.generation = generation]
NoReference == [is |-> FALSE, target |-> NoName, valid |-> FALSE, generation |-> 0]

EmptyScope == [n \in Names |-> Absent]

add_error(t, what) == [t EXCEPT !.errors = @ \cup {[at |-> Len(src) + 1, what |-> what]}]

lookup_variable(t, n) ==
    LET holding == {i \in DOMAIN t.scopes : t.scopes[i][n] # Absent}
        found   == IF holding = {} THEN Null ELSE t.scopes[Max(holding)][n]
    IN  IF found = Null /\ n \in globals THEN "Function" ELSE found

\* Mutant: the body's names stay.
exit_scope_leaky(t) == [t EXCEPT !.level = @ - 1]

enter_scope(t) == [t EXCEPT !.level = @ + 1, !.scopes = Append(@, EmptyScope)]

exit_scope(t) ==
    [t EXCEPT !.level = @ - 1, !.scopes = IF Len(@) > 1 THEN SubSeq(@, 1, Len(@) - 1) ELSE @]

(***************************************************************************)
(* Memory regions                                                           *)
(***************************************************************************)
declare_variable_memory(t, n) ==
    [t EXCEPT !.memory[n] = [state |-> "uninitialized", region |-> t.region]]

mark_variable_initialized(t, n) ==
    IF t.memory[n].state = "uninitialized"
    THEN [t EXCEPT !.memory[n].state = "owned"] ELSE t

declare_variable(t, n, type) ==
    LET s == IF type = "Function"
             THEN mark_variable_initialized(declare_variable_memory(t, n), n) ELSE t
    IN  [s EXCEPT !.scopes[Len(s.scopes)][n] = type]

enter_memory_region(t) ==
    [t EXCEPT !.region_stack = Append(@, t.region), !.generation = @ + 1, !.region = @ + 1]

\* Mutant: the region is left, its number stays.
exit_memory_region_numbered(t) ==
    [t EXCEPT !.region_stack = SubSeq(@, 1, Len(@) - 1), !.generation = @ - 1]

\* The entries that go are those of the region that is returned to.
exit_memory_region(t) ==
    LET depth == Len(t.region_stack)
        s == IF depth = 0 THEN t
             ELSE [t EXCEPT !.region = t.region_stack[depth],
                            !.region_stack = SubSeq(@, 1, depth - 1),
                            !.generation = IF @ > 0 THEN @ - 1 ELSE 0]
    IN  [s EXCEPT !.memory = [n \in Names |->
            IF s.memory[n].region = s.region THEN NoInfo ELSE s.memory[n]]]

check_variable_use(t, n) ==
    LET state == IF lookup_variable(t, n) \in Unmoved THEN "none" ELSE t.memory[n].state
    IN  CASE state = "moved" -> add_error(t, "use after move")
          [] state = "uninitialized" -> add_error(t, "use before initialization")
          [] OTHER -> t

\* Mutant: a move leaves no trace.
check_variable_move_unmarked(t, n) == t

check_variable_move(t, n) ==
    LET state == IF lookup_variable(t, n) \in Unmoved THEN "none" ELSE t.memory[n].state
    IN  CASE state = "none" -> t
          [] state = "moved" -> add_error(t, "double move")
          [] OTHER -> [t EXCEPT !.memory[n].state = "moved"]

(***************************************************************************)
(* Linear types and references                                              *)
(***************************************************************************)
check_linear_type_access(t, n) ==
    IF t.linear[n].moved THEN add_error(t, "use of moved linear type") ELSE t

create_reference(t, m, n) ==
    CASE ~t.linear[m].is -> t
      [] t.linear[m].is /\ t.linear[m].moved -> add_error(t, "reference to moved linear type")
      [] OTHER -> [t EXCEPT !.references[n] = [is |-> TRUE, target |-> m, valid |-> TRUE,
                                               generation |-> t.linear[m].generation],
                            !.linear[m].references = @ \cup {n}]

\* Mutant: only the generation tells of the move.
move_linear_type_unmarked(t, m) ==
    IF t.linear[m].moved THEN add_error(t, "double move")
    ELSE [t EXCEPT !.linear[m] = [@ EXCEPT !.generation = @ + 1, !.references = {}]]

move_linear_type(t, m) ==
    IF t.linear[m].moved THEN add_error(t, "double move")
    ELSE LET next  == t.linear[m].generation + 1
             stale == {r \in t.linear[m].references : t.references[r].is
                                                      /\ t.references[r].generation # next}
             s == IF stale = {} THEN t ELSE add_error(t, "reference invalidated")
         IN  [s EXCEPT !.linear[m] = [is |-> TRUE, moved |-> TRUE, generation |-> next,
                                      references |-> {}],
                       !.references = [r \in Names |->
                            IF r \in stale THEN [s.references[r] EXCEPT !.valid = FALSE]
                            ELSE s.references[r]]]

check_reference_validity(t, n) ==
    LET ref == t.references[n]
        to  == t.linear[ref.target]
    IN  IF ~ref.valid THEN add_error(t, "use of invalid reference")
        ELSE IF to.is /\ ref.generation # to.generation THEN add_error(t, "use of stale reference")
        ELSE IF to.is /\ to.moved THEN add_error(t, "reference to moved linear type")
        ELSE t

(***************************************************************************)
(* Expressions.  The result is the state after the check and the type.      *)
(***************************************************************************)
Checked(t, type) == [t |-> t, type |-> type]

check_variable_expr(t, n) ==
    LET s  == IF t.references[n].is THEN check_reference_validity(t, n) ELSE t
        to == IF t.references[n].is THEN lookup_variable(t, t.references[n].target) ELSE Null
        u  == check_linear_type_access(s, n)
        type == lookup_variable(t, n)
    IN  CASE to # Null -> Checked(s, to)
          [] to = Null /\ type = Null -> Checked(add_error(u, "undefined"), Null)
          [] OTHER -> Checked(check_variable_use(u, n), type)

check_expression(t, v) ==
    IF v \in Literals THEN Checked(t, v) ELSE check_variable_expr(t, v)

\* add_type_error is given the text of both types: it needs them not to be null
Crashes(expected, actual) ==
    actual = Null /\ expected # Null /\ ~is_type_compatible(expected, actual)

\* the assignment to n, declared with type "expected", of the checked value r
assign_declared(r, expected, n, v) ==
    LET s == IF is_type_compatible(expected, r.type) THEN r.t ELSE add_error(r.t, "type mismatch")
    IN  IF v \in Literals THEN s
        ELSE IF lookup_variable(s, v) # "Function" /\ s.linear[v].is
        THEN LET moved == move_linear_type(s, v)
             IN  [moved EXCEPT !.linear[n] = Linear(moved.linear[v].generation)]
        ELSE create_reference(s, v, n)

\* the assignment that declares n
assign_undeclared(r, n) ==
    LET s == declare_variable_memory(declare_variable(r.t, n, r.type), n)
    IN  [s EXCEPT !.linear[n] = Linear(0)]

\* a simple variable assignment n = v
check_assign_expr(t, n, v) ==
    LET r == check_expression(t, v)
        expected == lookup_variable(r.t, n)
    IN  IF expected = Null THEN assign_undeclared(r, n)
        ELSE assign_declared(r, expected, n, v)

(***************************************************************************)
(* check_var_declaration: a is the annotation, v the initializer.           *)
(***************************************************************************)
var_type(a, type) ==
    CASE a # Null -> a
      [] a = Null /\ type # Null -> type
      [] OTHER -> "String"

\* the initializer, checked, and the move out of the variable it names
check_initializer(t, v) ==
    LET r == IF v = Null THEN Checked(t, Null) ELSE check_expression(t, v)
    IN  IF v \in Names /\ lookup_variable(r.t, v) \notin Copyable
        THEN Checked(check_variable_move(r.t, v), r.type) ELSE r

declare_var(t, n, a, v) ==
    LET r == check_initializer(t, v)
        s == CASE a # Null /\ r.type # Null /\ ~is_type_compatible(a, r.type) ->
                    add_error(r.t, "type mismatch")
               [] a = Null /\ r.type = Null -> add_error(r.t, "no type or initializer")
               [] OTHER -> r.t
        u == declare_variable_memory(declare_variable(s, n, var_type(a, r.type)), n)
    IN  IF v # Null THEN mark_variable_initialized(u, n) ELSE u

(***************************************************************************)
(* The walk                                                                 *)
(***************************************************************************)
Fresh ==
    [scopes |-> <<[n \in Names |-> IF n \in globals THEN "Function" ELSE Absent]>>,
     level |-> 0,
     memory |-> [n \in Names |-> IF n \in globals THEN [state |-> "owned", region |-> 0]
                                 ELSE NoInfo],
     region |-> 0, region_stack |-> <<>>, generation |-> 0,
     linear |-> [n \in Names |-> NotLinear],
     references |-> [n \in Names |-> NoReference],
     return_type |-> Null, errors |-> {}]

\* After PASS 2: the functions of the program are declared.
Init ==
    /\ globals \in SUBSET Fns
    /\ tc = Fresh
    /\ open = <<>> /\ src = <<>> /\ phase = "types"

\* the token, with the type its variable has, joins the program
Meets(token) ==
    /\ phase = "types"
    /\ Allowed(src, token)
    /\ src' = Append(src, [token EXCEPT !.ty = IF token.v \in Names
                                               THEN check_variable_expr(tc, token.v).type
                                               ELSE Null])
    /\ UNCHANGED globals

Goes == phase' = phase

check_var_declaration ==
    \E n \in Vars, a \in Literals \cup {Null}, v \in Literals \cup Names \cup {Null} :
        /\ Meets(Token("var", n, a, v))
        /\ tc' = declare_var(tc, n, a, v)
        /\ Goes /\ UNCHANGED open

\* an expression statement, or print, with a variable in it
check_expr_statement ==
    \E k \in {"expr", "print"}, v \in Names :
        /\ Meets(Token(k, NoName, Null, v))
        /\ tc' = check_variable_expr(tc, v).t
        /\ Goes /\ UNCHANGED open

check_assign_statement ==
    \E n \in Vars, v \in Literals \cup Names :
        /\ Meets(Token("assign", n, Null, v))
        /\ LET r == check_expression(tc, v)
           IN  IF Crashes(lookup_variable(r.t, n), r.type)
               THEN tc' = r.t /\ phase' = "crashed"
               ELSE tc' = check_assign_expr(tc, n, v) /\ Goes
        /\ UNCHANGED open

\* Mutant: any value may be returned.
check_return_statement_lax ==
    \E v \in Literals \cup Names :
        /\ Meets(Token("return", NoName, Null, v))
        /\ tc' = check_expression(tc, v).t
        /\ Goes /\ UNCHANGED open

\* current_return_type is null outside functions and the value is then not
\* compared with anything
check_return_statement ==
    \E v \in Literals \cup Names :
        /\ Meets(Token("return", NoName, Null, v))
        /\ LET r == check_expression(tc, v)
               mismatch == tc.return_type # Null /\ ~is_type_compatible(tc.return_type, r.type)
           IN  IF Crashes(tc.return_type, r.type)
               THEN tc' = r.t /\ phase' = "crashed"
               ELSE tc' = (IF mismatch THEN add_error(r.t, "type mismatch") ELSE r.t) /\ Goes
        /\ UNCHANGED open

begin_block(t) == enter_memory_region(enter_scope(t))
end_block(t) == exit_memory_region(exit_scope(t))

\* Statements whose body is a block: the block, if, else, while, and the
\* statements that put a scope around it.
Opens(token) == Meets(token) /\ open' = Append(open, Len(src) + 1) /\ Goes

check_block_statement ==
    \E k \in {"block", "if", "while"} :
        /\ Opens(Token(k, NoName, Null, Null))
        /\ tc' = begin_block(tc)

check_parallel_statement ==
    /\ Opens(Token("parallel", NoName, Null, Null))
    /\ tc' = begin_block(enter_scope(tc))

check_for_statement ==
    \E n \in Vars, v \in Literals \cup Names :
        /\ Opens(Token("for", n, Null, v))
        /\ tc' = begin_block(declare_var(enter_scope(tc), n, Null, v))

\* what a statement binds without a record of its memory
binds(t, n, type) == begin_block(declare_variable(enter_scope(t), n, type))

check_concurrent_statement ==
    \E n \in Vars :
        /\ Opens(Token("concurrent", n, Null, Null))
        /\ tc' = binds(tc, n, "Channel")

\* task and worker are keywords in the block of a concurrent or parallel
\* statement, until another one ends in it
InConcurrentBlock ==
    /\ open # <<>>
    /\ src[open[Len(open)]].k \in {"concurrent", "parallel"}
    /\ \A q \in (open[Len(open)] + 1)..Len(src) : src[q].k \notin {"concurrent", "parallel"}

check_task_statement ==
    /\ InConcurrentBlock
    /\ \E n \in Vars :
        /\ Opens(Token("task", n, Null, Null))
        /\ tc' = binds(tc, n, "Int")

check_worker_statement ==
    /\ InConcurrentBlock
    /\ \E n \in Vars :
        /\ Opens(Token("worker", n, Null, Null))
        /\ tc' = binds(tc, n, "Any")

\* A method of a frame, with one parameter.  The return type is not set.
check_frame_method ==
    \E n \in Vars, a \in Literals :
        /\ open = <<>>
        /\ Opens(Token("method", n, a, Null))
        /\ tc' = binds(tc, n, a)

\* A function with one parameter n of type a and the return type ret: Any
\* stands for none.
check_function_declaration ==
    \E f \in Fns, n \in Vars, a \in {"Any", "List"}, ret \in {"Any", "Int"} :
        /\ open = <<>> => f \in globals
        /\ Opens([Token("fn", n, a, Null) EXCEPT !.f = f, !.ret = ret])
        /\ LET t == declare_variable(enter_memory_region(tc), f, "Function")
               s == [enter_scope(t) EXCEPT !.return_type = ret]
               u == declare_variable_memory(declare_variable(s, n, a), n)
           IN  tc' = begin_block(mark_variable_initialized(u, n))

\* The end of the innermost statement that is open.
end_statement ==
    /\ phase = "types"
    /\ open # <<>>
    /\ LET p == open[Len(open)]
           k == src[p].k
           t == end_block(tc)
       IN  /\ tc' = CASE k \in {"block", "if", "while"} -> t
                      [] k = "fn" -> [exit_memory_region(exit_scope(t)) EXCEPT
                                        !.return_type = Null]
                      [] OTHER -> exit_scope(t)
           /\ src' = Append(src, [Token("end", NoName, Null, Null) EXCEPT !.up = p])
    /\ open' = SubSeq(open, 1, Len(open) - 1)
    /\ UNCHANGED <<globals, phase>>

\* The program ends once every function that PASS 2 declared has been met.
Complete ==
    open = <<>> /\ \A f \in globals : \E p \in DOMAIN src :
                        src[p].k = "fn" /\ src[p].up = 0 /\ src[p].f = f

finish_types ==
    /\ phase = "types"
    /\ Complete
    /\ phase' = IF tc.errors = {} THEN "memory" ELSE "rejected"
    /\ UNCHANGED <<tc, open, globals, src>>

TypesNext ==
    \/ check_var_declaration \/ check_expr_statement \/ check_assign_statement
    \/ check_return_statement \/ check_block_statement \/ check_parallel_statement
    \/ check_for_statement \/ check_concurrent_statement \/ check_task_statement
    \/ check_worker_statement \/ check_frame_method \/ check_function_declaration
    \/ end_statement \/ finish_types

TypesSpec == Init /\ [][TypesNext]_vars

(***************************************************************************)
(* What the source says, read off the tokens.                               *)
(***************************************************************************)
Positions == DOMAIN src

\* the statement begun at p has ended by token q
EndedBy(p, q) == \E e \in 1..q : src[e].k = "end" /\ src[e].up = p

\* the statement whose body is the scope of the name n that token p declares
Home(p, n) == IF src[p].n = n /\ src[p].k \in Openers THEN p ELSE src[p].up

InScope(p, n, q) == Home(p, n) = 0 \/ ~EndedBy(Home(p, n), q)

\* the type of n by its declaration at p
DeclaredType(p, n) ==
    LET t == src[p]
        value == IF t.v \in Literals THEN t.v ELSE t.ty
    IN  IF t.f = n THEN "Function"
        ELSE CASE t.k \in {"var", "for"} -> var_type(t.a, value)
          [] t.k = "assign" -> value
          [] t.k = "concurrent" -> "Channel"
          [] t.k = "task" -> "Int"
          [] t.k = "worker" -> "Any"
          [] OTHER -> t.a

\* the declaration of n that token q + 1 sees: 0 when there is none.  An
\* assignment declares its variable when that has no type yet.
Visible[q \in 0..Len(src)] == [n \in Names |->
    LET TypeBefore(p) == LET d == Visible[p - 1][n]
                         IN  IF d = 0 THEN Null ELSE DeclaredType(d, n)
        Declares(p) == \/ src[p].f = n
                       \/ src[p].n = n /\ src[p].k \in Binders \cup {"var", "fn"}
                       \/ src[p].n = n /\ src[p].k = "assign" /\ TypeBefore(p) = Null
        seen == {p \in 1..q : Declares(p) /\ InScope(p, n, q)}
    IN  IF seen = {} THEN 0 ELSE Max(seen)]

VisibleType(n) ==
    LET d == Visible[Len(src)][n]
        type == IF d = 0 THEN Null ELSE DeclaredType(d, n)
    IN  IF type = Null /\ n \in globals THEN "Function" ELSE type

\* token r moves the value out of n: a declaration initialized from a variable
\* whose type is not copied
Moves(r, n) ==
    src[r].k \in {"var", "for"} /\ src[r].v = n /\ src[r].ty \notin Copyable \cup {Null}

\* token q uses the variable n declared at p, which r has emptied since, and
\* nothing has been assigned to n after that
UseAfterMove(p, r, q, n) ==
    /\ src[q].v = n
    /\ p < r /\ r < q
    /\ Moves(r, n)
    /\ Visible[r - 1][n] = p /\ Visible[q - 1][n] = p
    /\ \A i \in (r + 1)..(q - 1) : ~(src[i].k = "assign" /\ src[i].n = n)

\* the memory regions that are open after q tokens
RegionsOpen(q) ==
    LET opened == {p \in 1..q : src[p].k \in Openers /\ ~EndedBy(p, q)}
    IN  Cardinality(opened) + Cardinality({p \in opened : src[p].k = "fn"})

\* the region of the variable declared at p
RegionOf(p) == IF src[p].k = "fn" THEN RegionsOpen(p) - 1 ELSE RegionsOpen(p - 1)

\* the token that has just been met
Newest == IF phase = "types" THEN Positions \cap {Len(src)} ELSE {}

ReportedAt(q) == \E e \in tc.errors : e.at = q

(***************************************************************************)
(* Properties                                                               *)
(***************************************************************************)
TokenKinds == Openers \cup {"var", "expr", "print", "assign", "return", "end"}

\* Every path through the walk leaves as many scopes and regions as it entered:
\* the depth of both is that of the statements that are open, the numbers of
\* the regions on the stack are their depths, and a return type is set only
\* inside a function.
RegionsMatch ==
    LET Opened(kinds) == Cardinality({i \in DOMAIN open : src[open[i]].k \in kinds})
    IN  /\ tc.level = Len(tc.scopes) - 1
        /\ tc.level = Len(open) + Opened(Binders \cup {"parallel", "fn"})
        /\ Len(tc.region_stack) = Len(open) + Opened({"fn"})
        /\ \A i \in DOMAIN tc.region_stack : tc.region_stack[i] = i - 1
        /\ tc.region = Len(tc.region_stack) /\ tc.generation = tc.region
        /\ tc.return_type # Null => Opened({"fn"}) > 0

\* lookup_variable finds, through the chain of scopes, the declaration that the
\* nesting of the source makes visible, whatever was shadowed, implicitly
\* declared or closed before.
LexicalLookup == \A n \in Names : lookup_variable(tc, n) = VisibleType(n)

\* A use after a move is reported as long as no statement of the variable's own
\* region has closed since its declaration, its name was not declared anew
\* and is not that of a reference.
MovesReported ==
    \A q \in Newest, n \in Vars, p, r \in Positions :
        /\ src[p].k \in {"var", "for", "assign", "fn"}
        /\ UseAfterMove(p, r, q, n)
        /\ \A e \in (p + 1)..(q - 1) :
              /\ src[e].k = "end" => RegionsOpen(e) # RegionOf(p)
              /\ Visible[e][n] = p
        /\ ~tc.references[n].is
        => ReportedAt(q)

\* The variable that an assignment declared is linear: once it has been assigned
\* to another variable, every use of it is reported until it is assigned to
\* again, through all blocks that open, close or shadow it in between, unless
\* its name is that of a reference.
LinearMovesReported ==
    \A q \in Newest, n \in Vars, p, r \in Positions :
        /\ src[q].v = n
        /\ p < r /\ r < q
        /\ src[r].k = "assign" /\ src[r].v = n /\ src[r].n # n
        /\ src[p].k = "assign" /\ src[p].n = n /\ Visible[p][n] = p
        /\ src[r].ty \notin {"Function", Null} /\ Visible[r][src[r].n] # r
        /\ Visible[r - 1][n] = p /\ Visible[q - 1][n] = p
        /\ \A i \in (r + 1)..(q - 1) : ~(src[i].k = "assign" /\ src[i].n = n)
        /\ ~tc.references[n].is
        => ReportedAt(q)

\* the function around token q: 0 when there is none
FunctionOf(q) == Max({0} \cup {p \in 1..(q - 1) : src[p].k = "fn" /\ ~EndedBy(p, q)})

\* A return is compared with the type of its own function, whatever functions
\* were met before, as long as none has ended inside this one.
ReturnsChecked ==
    \A q \in Newest :
        LET f == FunctionOf(q)
            type == IF src[q].v \in Literals THEN src[q].v ELSE src[q].ty
        IN  /\ src[q].k = "return" /\ f # 0 /\ type # Null
            /\ ~is_type_compatible(src[f].ret, type)
            /\ \A e \in f..q : ~(src[e].k = "end" /\ src[src[e].up].k = "fn")
            => ReportedAt(q)
=============================================================================
