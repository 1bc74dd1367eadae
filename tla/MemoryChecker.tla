--------------------------- MODULE MemoryChecker ---------------------------
(***************************************************************************)
(* frontend/memory_checker.cpp: the pass over the root program that follows *)
(* a type check without errors.  It walks the same program, with the types  *)
(* that the type checker has put on it, and keeps the names that have been  *)
(* initialized and moved.                                                   *)
(*                                                                          *)
(* The regions recorded for variables and statements are read by nothing    *)
(* and are left out; so is check_assignment, which no statement reaches: an *)
(* assignment is an expression, and check_expression has no case for it.    *)
(***************************************************************************)
EXTENDS TypeChecker

VARIABLES
    mc,   \* the state of the MemoryChecker
    pc    \* the token it is at

memoryVars == <<mc, pc>>

\* check_program: the functions of the program and its imports are initialized
MemoryInit ==
    /\ Init
    /\ mc = [moved |-> {}, initialized |-> globals, saved |-> <<>>, errors |-> {},
             region |-> 1, generation |-> 1]
    /\ pc = 1

add_memory_error(m, what) == [m EXCEPT !.errors = @ \cup {[at |-> pc, what |-> what]}]

check_variable_access(m, n) ==
    CASE n \in m.moved -> add_memory_error(m, "use after move")
      [] n \notin m.moved \cup m.initialized -> add_memory_error(m, "use before init")
      [] OTHER -> m

mark_variable_moved(m, n) == [m EXCEPT !.moved = @ \cup {n}]

\* Mutant: the source of the move is not checked.
check_var_unread(m, t) ==
    LET s == IF t.v = Null THEN m ELSE [m EXCEPT !.initialized = @ \cup {t.n}]
    IN  IF t.v \in Names /\ t.ty # "Function" THEN mark_variable_moved(s, t.v) ELSE s

\* check_var_declaration, for the declaration in token t
check_var(m, t) ==
    LET read == IF t.v \in Names THEN check_variable_access(m, t.v) ELSE m
        s == IF t.v = Null THEN read ELSE [read EXCEPT !.initialized = @ \cup {t.n}]
    IN  IF t.v \notin Names THEN s
        ELSE IF t.v \in s.moved THEN add_memory_error(s, "use after move")
        ELSE IF t.ty = "Function" THEN s
        ELSE mark_variable_moved(s, t.v)

\* check_block_statement, before and after the statements
enter_block(m) ==
    [m EXCEPT !.saved = Append(@, [moved |-> m.moved, initialized |-> m.initialized]),
              !.region = @ + 1, !.generation = @ + 1]

leave_block(m) ==
    LET d == Len(m.saved)
    IN  [m EXCEPT !.moved = m.saved[d].moved, !.initialized = m.saved[d].initialized,
                  !.saved = SubSeq(@, 1, d - 1), !.generation = @ + 1]

\* statements that check_statement has no case for: their bodies are not seen
Unseen == {"fn", "method", "parallel", "concurrent", "task", "worker"}

EndOf(p) == CHOOSE q \in Positions : src[q].k = "end" /\ src[q].up = p

At(kinds) ==
    /\ phase = "memory" /\ pc <= Len(src) /\ src[pc].k \in kinds
    /\ UNCHANGED vars

memory_var == At({"var"}) /\ mc' = check_var(mc, src[pc]) /\ pc' = pc + 1

memory_expr ==
    At({"expr"}) /\ mc' = check_variable_access(mc, src[pc].v) /\ pc' = pc + 1

\* print, return, and the assignment in an expression statement
memory_nothing == At({"print", "return", "assign"}) /\ pc' = pc + 1 /\ UNCHANGED mc

memory_unseen == At(Unseen) /\ pc' = EndOf(pc) + 1 /\ UNCHANGED mc

memory_block == At({"block", "if", "while"}) /\ mc' = enter_block(mc) /\ pc' = pc + 1

memory_for ==
    At({"for"}) /\ mc' = enter_block(check_var(mc, src[pc])) /\ pc' = pc + 1

memory_end == At({"end"}) /\ mc' = leave_block(mc) /\ pc' = pc + 1

memory_done ==
    /\ phase = "memory" /\ pc = Len(src) + 1
    /\ phase' = IF mc.errors = {} THEN "accepted" ELSE "rejected"
    /\ UNCHANGED <<tc, open, globals, src, memoryVars>>

MemoryNext ==
    \/ TypesNext /\ UNCHANGED memoryVars
    \/ memory_var \/ memory_expr \/ memory_nothing \/ memory_unseen
    \/ memory_block \/ memory_for \/ memory_end \/ memory_done

MemorySpec == MemoryInit /\ [][MemoryNext]_<<vars, memoryVars>>

(***************************************************************************)
(* Properties                                                               *)
(***************************************************************************)
\* the statements around q are ones the pass looks into
Seen(q) == \A p \in 1..(q - 1) : src[p].k \in Unseen => EndedBy(p, q)

\* An access to a name that was moved out of, directly or inside a block that
\* is still open, is reported, also when the name has been declared anew.
MovesRemembered ==
    \A q \in 1..(pc - 1), r \in Positions :
        /\ r < q
        /\ src[q].k \in {"var", "for", "expr"} /\ src[q].v \in Names
        /\ src[r].k \in {"var", "for"} /\ src[r].v = src[q].v /\ src[r].ty # "Function"
        /\ Seen(r) /\ Seen(q)
        /\ src[r].up = 0 \/ ~EndedBy(src[r].up, q)
        => \E e \in mc.errors : e.at = q

(***************************************************************************)
(* A statement of the repository that the code does not meet.               *)
(***************************************************************************)
\* No program that both passes accept uses a variable after it was moved.
NoUseAfterMove ==
    phase = "accepted" =>
        \A n \in Vars, p, r, q \in Positions : ~UseAfterMove(p, r, q, n)
=============================================================================
