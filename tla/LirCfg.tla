------------------------------- MODULE LirCfg -------------------------------
(***************************************************************************)
(* The control-flow-graph half of the LIR generator: lir/generator/core.cpp *)
(* (blocks, edges, emission, loop labels) and the statement lowerings of    *)
(* lir/generator/statements.cpp and expressions.cpp that create blocks.     *)
(*                                                                          *)
(* The generator walks the AST recursively.  Here the walk is a behaviour:  *)
(* one action per statement it meets, and for a statement with a body one   *)
(* action for the code before the body and one for the code after it.  The  *)
(* C++ call stack is the variable "open".  The program being compiled is    *)
(* not fixed in advance: any sequence of actions that can be finished is a  *)
(* program, so Spec ranges over every program that Allowed admits.          *)
(*                                                                          *)
(* Data is abstracted: the straight-line instructions of one statement are  *)
(* one instruction "Op" labelled with the statement; registers and types    *)
(* are left out, except that the condition register of a branch stands in   *)
(* operand a, where LIR_Inst keeps it.                                      *)
(***************************************************************************)
EXTENDS Integers, Sequences, FiniteSets

CONSTANTS
    Allowed(_, _, _), \* bound: the programs considered.  Allowed(s, k, c): source s may
                      \* go on with a statement of kind k and form c
    MaxCases          \* bound: cases of one match statement

ASSUME BoundsAssumption == MaxCases \in Nat

VARIABLES
    cfg,      \* current_function_->cfg and cfg_context_.current_block
    loops,    \* loop_stack_: break and continue labels, innermost last
    open,     \* the active emit_* calls, innermost last
    in_else,  \* else_context_.in_else_block
    src,      \* the tokens of the program met so far (the source, not state
              \* of the generator: the reference semantics reads it)
    phase     \* "build" until finish_cfg_build

vars == <<cfg, loops, open, in_else, src, phase>>

(***************************************************************************)
(* Instructions (LIR_Inst).  ev names what the instruction does at source   *)
(* level: token and part; Jumps and the implicit return are silent.         *)
(***************************************************************************)
Silent == <<0, "silent">>

Inst(op, a, imm, ev) == [op |-> op, a |-> a, b |-> 0, imm |-> imm, ev |-> ev]

Op(ev)                == Inst("Op", 0, 0, ev)
Jump(t)               == Inst("Jump", 0, t, Silent)
JumpIfFalse(r, t, ev) == Inst("JumpIfFalse", r, t, ev)
JumpIf(r, t, ev)      == Inst("JumpIf", r, t, ev)
Return(ev)            == Inst("Return", 0, 0, ev)

Opcodes == {"Op", "Jump", "JumpIf", "JumpIfFalse", "Return"}
Branches == {"Jump", "JumpIf", "JumpIfFalse"}
Terminators == {"Jump", "Return"}

(***************************************************************************)
(* Basic blocks (LIR_BasicBlock) and the graph (LIR_CFG).  Block ids count  *)
(* from 0: the entry block is 0, the exit block 1.                          *)
(***************************************************************************)
NewBlock == [ins |-> <<>>, succ |-> <<>>, pred |-> <<>>, terminated |-> FALSE]

Graph(n, blocks, cur) == [n |-> n, blocks |-> blocks, cur |-> cur]

\* create_basic_block, k times: the new ids are g.n, ..., g.n + k - 1
create_blocks(g, k) ==
    Graph(g.n + k,
          [b \in 0..(g.n + k - 1) |-> IF b < g.n THEN g.blocks[b] ELSE NewBlock],
          g.cur)

set_current_block(g, b) == Graph(g.n, g.blocks, b)

set_block(g, b, block) == Graph(g.n, [g.blocks EXCEPT ![b] = block], g.cur)

\* the last instruction is Jump or Return: a conditional jump is not counted
has_terminator(g, b) ==
    \/ g.blocks[b].terminated
    \/ /\ g.blocks[b].ins # <<>>
       /\ g.blocks[b].ins[Len(g.blocks[b].ins)].op \in Terminators

add_instruction(g, i) ==
    set_block(g, g.cur, [g.blocks[g.cur] EXCEPT !.ins = Append(@, i)])

\* Mutant: only the flag is tested.
emit_instruction_flag(g, i) ==
    IF g.blocks[g.cur].terminated
    THEN add_instruction(set_current_block(create_blocks(g, 1), g.n), i)
    ELSE add_instruction(g, i)

\* A terminated block takes no more code: what follows it goes to a new block
\* "unreachable", which becomes the current block.
emit_instruction(g, i) ==
    IF has_terminator(g, g.cur)
    THEN add_instruction(set_current_block(create_blocks(g, 1), g.n), i)
    ELSE add_instruction(g, i)

add_successor(g, b, to) == set_block(g, b, [g.blocks[b] EXCEPT !.succ = Append(@, to)])

add_predecessor(g, b, from) ==
    set_block(g, b, [g.blocks[b] EXCEPT !.pred = Append(@, from)])

\* Mutant: the predecessor is forgotten.
add_block_edge_forward(g, from, to) == add_successor(g, from, to)

add_block_edge(g, from, to) == add_predecessor(add_successor(g, from, to), to, from)

mark_terminated(g, b) == set_block(g, b, [g.blocks[b] EXCEPT !.terminated = TRUE])

\* "Don't mark end_block as terminated": only if it has a terminator already
mark_if_terminated(g, b) ==
    IF has_terminator(g, b) THEN mark_terminated(g, b) ELSE g

(***************************************************************************)
(* Emission patterns shared by the lowerings.                               *)
(***************************************************************************)
\* a jump to t and its edge, from the block the jump was emitted into
jump_to(g, t) ==
    LET h == emit_instruction(g, Jump(t)) IN add_block_edge(h, h.cur, t)

\* the same, unless the current block already ends in a terminator
jump_unless_terminated(g, t) ==
    IF has_terminator(g, g.cur) THEN g ELSE jump_to(g, t)

\* a jump to t whose edge is recorded from block "from" instead
jump_edge_from(g, from, t) ==
    add_block_edge(emit_instruction(g, Jump(t)), from, t)

\* emit_unary_expr for "?": p is the statement it belongs to
emit_question(g, p) ==
    LET g1 == emit_instruction(g, Op(<<p, "call">>))
        error   == g1.n
        success == g1.n + 1
        g2 == emit_instruction(create_blocks(g1, 2), JumpIf(p, error, <<p, "try">>))
        g3 == emit_instruction(g2, Jump(success))
        g4 == add_block_edge(add_block_edge(g3, g3.cur, error), g3.cur, success)
        g5 == emit_instruction(set_current_block(g4, success), Op(<<p, "unwrap">>))
        g6 == emit_instruction(set_current_block(g5, error), Return(<<p, "propagate">>))
    IN  set_current_block(mark_terminated(g6, error), success)

\* emit_binary_expr for "and" / "or": the right operand has a block of its own
emit_short_circuit(g, p, c) ==
    LET right == g.n
        end   == g.n + 1
        g1 == emit_instruction(create_blocks(g, 2),
                               IF c = "and" THEN JumpIfFalse(p, end, <<p, "left">>)
                                            ELSE JumpIf(p, end, <<p, "left">>))
        g2 == add_block_edge(add_block_edge(g1, g1.cur, right), g1.cur, end)
        g3 == emit_instruction(set_current_block(g2, right), Op(<<p, "right">>))
    IN  set_current_block(jump_unless_terminated(g3, end), end)

\* a condition: a plain one is evaluated by the branch that tests it
emit_condition(g, p, c) ==
    CASE c = "plain" -> g
      [] c = "try" -> emit_question(g, p)
      [] OTHER -> emit_short_circuit(g, p, c)

\* condition, conditional exit and the two edges of a loop header
emit_loop_test(g, p, c, header, body, exit) ==
    LET g1 == emit_condition(set_current_block(g, header), p, c)
        g2 == emit_instruction(g1, JumpIfFalse(p, exit, <<p, "cond">>))
        g3 == add_block_edge(add_block_edge(g2, header, body), header, exit)
    IN  set_current_block(g3, body)

(***************************************************************************)
(* Tokens of the source and frames of the recursion.                        *)
(***************************************************************************)
Here == Len(src) + 1

\* m: the token this one closes or is a part of; c: its form
Token(k, m, c) == [k |-> k, m |-> m, c |-> c]

\* head, body, incr, exit: the blocks the rest of the lowering refers to;
\* cnt, idx: arms of an if or cases of a match, in all and begun
Frame(k, head, body, incr, exit, cnt) ==
    [k |-> k, tok |-> Here, head |-> head, body |-> body, incr |-> incr,
     exit |-> exit, cnt |-> cnt, idx |-> 0]

Conds == {"plain", "and", "or", "try"}
LoopKinds == {"while", "for", "iter", "index", "chan"}
FrameKinds == LoopKinds \cup {"if", "match", "pattern", "fallible"}

Top == open[Len(open)]
IsOpen(k) == open # <<>> /\ Top.k = k
\* Before the first case of a match and in a pattern there are no statements.
InBody == ~(IsOpen("match") /\ Top.idx = 0) /\ ~IsOpen("pattern")
Loop == loops[Len(loops)]
Pop(s) == SubSeq(s, 1, Len(s) - 1)

\* a statement of kind k and form c may be emitted next
May(k, c) == phase = "build" /\ InBody /\ Allowed(src, k, c)

InHandler == \E i \in 1..Len(open) : open[i].k = "fallible"

Statement(t, g) ==
    /\ src' = Append(src, t)
    /\ cfg' = g

Enter(frame, t, g) ==
    /\ Statement(t, g)
    /\ open' = Append(open, frame)

Leave(g) ==
    /\ Statement(Token("end", Top.tok, Top.k), g)
    /\ open' = Pop(open)

INVALID_LOOP_LABEL == -1   \* UINT32_MAX: no block has this id

\* Mutant: set_loop_labels is not given the continue label.
enter_loop_unset(end, continue) ==
    loops' = Append(loops, [end |-> end, continue |-> INVALID_LOOP_LABEL])

enter_loop(end, continue) ==
    loops' = Append(loops, [end |-> end, continue |-> continue])

exit_loop == loops' = Pop(loops)

(***************************************************************************)
(* Initial state: start_cfg_build.                                          *)
(***************************************************************************)
Init ==
    /\ cfg = Graph(2, [b \in 0..1 |-> NewBlock], 0)
    /\ loops = <<>>
    /\ open = <<>>
    /\ in_else = FALSE
    /\ src = <<>>
    /\ phase = "build"

(***************************************************************************)
(* Statements without a body.                                               *)
(***************************************************************************)
\* expression, print, variable and destructuring statements
emit_simple_stmt ==
    /\ May("stmt", "plain")
    /\ Statement(Token("stmt", 0, "plain"),
                 emit_instruction(cfg, Op(<<Here, "stmt">>)))
    /\ UNCHANGED <<loops, open, in_else, phase>>

\* a jump out of the body, to the label; marks its block as terminated
leave_body(g, label) ==
    LET h == jump_to(g, label) IN mark_terminated(h, h.cur)

emit_break_stmt ==
    /\ May("break", "plain")
    /\ loops # <<>>
    /\ Statement(Token("break", 0, "plain"), leave_body(cfg, Loop.end))
    /\ UNCHANGED <<loops, open, in_else, phase>>

emit_continue_stmt ==
    /\ May("continue", "plain")
    /\ loops # <<>>
    /\ Statement(Token("continue", 0, "plain"), leave_body(cfg, Loop.continue))
    /\ UNCHANGED <<loops, open, in_else, phase>>

\* Inside an else handler the value is moved to the result register instead.
emit_return_stmt ==
    /\ May("return", "plain")
    /\ Statement(Token("return", 0, IF InHandler THEN "handler" ELSE "function"),
                 emit_instruction(cfg, IF in_else THEN Op(<<Here, "return">>)
                                                  ELSE Return(<<Here, "return">>)))
    /\ UNCHANGED <<loops, open, in_else, phase>>

(***************************************************************************)
(* If.                                                                      *)
(***************************************************************************)
begin_if(c, arms) ==
    /\ May("if", c)
    /\ LET then == cfg.n
           end  == cfg.n + arms          \* with an else block in between
           else == IF arms = 2 THEN cfg.n + 1 ELSE end
           g1 == emit_condition(create_blocks(cfg, arms + 1), Here, c)
           g2 == emit_instruction(g1, JumpIfFalse(Here, else, <<Here, "cond">>))
           g3 == add_block_edge(add_block_edge(g2, g2.cur, then), g2.cur, else)
       IN  Enter(Frame("if", else, then, end, end, arms), Token("if", 0, c),
                 set_current_block(g3, then))
    /\ UNCHANGED <<loops, in_else, phase>>

emit_if_stmt == \E c \in Conds, arms \in {1, 2} : begin_if(c, arms)

\* Mutant: the else branch is emitted into the block after the if.
emit_else_into_end ==
    /\ phase = "build" /\ IsOpen("if") /\ Top.cnt = 2 /\ Top.idx = 0
    /\ Statement(Token("else", Top.tok, "plain"),
                 set_current_block(jump_unless_terminated(cfg, Top.exit), Top.exit))
    /\ open' = [open EXCEPT ![Len(open)].idx = 1]
    /\ UNCHANGED <<loops, in_else, phase>>

\* the end of the then branch, with an else branch to follow
emit_else ==
    /\ phase = "build" /\ IsOpen("if") /\ Top.cnt = 2 /\ Top.idx = 0
    /\ Statement(Token("else", Top.tok, "plain"),
                 set_current_block(jump_unless_terminated(cfg, Top.exit), Top.head))
    /\ open' = [open EXCEPT ![Len(open)].idx = 1]
    /\ UNCHANGED <<loops, in_else, phase>>

end_if ==
    /\ phase = "build" /\ IsOpen("if") /\ Top.idx = Top.cnt - 1
    /\ Leave(LET g == set_current_block(jump_unless_terminated(cfg, Top.exit), Top.exit)
             IN  mark_if_terminated(g, Top.exit))
    /\ UNCHANGED <<loops, in_else, phase>>

(***************************************************************************)
(* Loops.                                                                   *)
(***************************************************************************)
\* The edge to the header is recorded before the jump is emitted.
begin_while(c) ==
    /\ May("while", c)
    /\ LET header == cfg.n
           body   == cfg.n + 1
           end    == cfg.n + 2
           g1 == add_block_edge(create_blocks(cfg, 3), cfg.cur, header)
           g2 == emit_instruction(g1, Jump(header))
       IN  /\ Enter(Frame("while", header, body, header, end, 0), Token("while", 0, c),
                    emit_loop_test(g2, Here, c, header, body, end))
           /\ enter_loop(end, header)
    /\ UNCHANGED <<in_else, phase>>

emit_while_stmt == \E c \in Conds : begin_while(c)

\* The jump back is emitted into the current block; its edge starts at the
\* body block, whichever block the body ended in.
back_edge(g, from, to) ==
    IF has_terminator(g, g.cur) THEN g ELSE jump_edge_from(g, from, to)

\* Mutant: exit_loop is forgotten.
end_while_inside ==
    /\ phase = "build" /\ IsOpen("while")
    /\ Leave(LET g == set_current_block(back_edge(cfg, Top.body, Top.head), Top.exit)
             IN  mark_if_terminated(g, Top.exit))
    /\ UNCHANGED <<loops, in_else, phase>>

end_while ==
    /\ phase = "build" /\ IsOpen("while")
    /\ Leave(LET g == set_current_block(back_edge(cfg, Top.body, Top.head), Top.exit)
             IN  mark_if_terminated(g, Top.exit))
    /\ exit_loop
    /\ UNCHANGED <<in_else, phase>>

\* Mutant: continue goes to the header and skips the increment.
begin_for_skipping(c) ==
    /\ May("for", c)
    /\ LET init   == cfg.n
           header == cfg.n + 1
           body   == cfg.n + 2
           incr   == cfg.n + 3
           end    == cfg.n + 4
           g1 == add_block_edge(create_blocks(cfg, 5), cfg.cur, init)
           g2 == set_current_block(emit_instruction(g1, Jump(init)), init)
           g3 == emit_instruction(g2, Op(<<Here, "init">>))
           g4 == jump_edge_from(g3, init, header)
       IN  /\ Enter(Frame("for", header, body, incr, end, 0), Token("for", 0, c),
                    emit_loop_test(g4, Here, c, header, body, end))
           /\ enter_loop(end, header)
    /\ UNCHANGED <<in_else, phase>>

begin_for(c) ==
    /\ May("for", c)
    /\ LET init   == cfg.n
           header == cfg.n + 1
           body   == cfg.n + 2
           incr   == cfg.n + 3
           end    == cfg.n + 4
           g1 == add_block_edge(create_blocks(cfg, 5), cfg.cur, init)
           g2 == set_current_block(emit_instruction(g1, Jump(init)), init)
           g3 == emit_instruction(g2, Op(<<Here, "init">>))
           g4 == jump_edge_from(g3, init, header)
       IN  /\ Enter(Frame("for", header, body, incr, end, 0), Token("for", 0, c),
                    emit_loop_test(g4, Here, c, header, body, end))
           /\ enter_loop(end, incr)
    /\ UNCHANGED <<in_else, phase>>

emit_for_stmt == \E c \in Conds : begin_for(c)

end_for ==
    /\ phase = "build" /\ IsOpen("for")
    /\ Leave(LET g1 == set_current_block(back_edge(cfg, Top.body, Top.incr), Top.incr)
                 g2 == emit_instruction(g1, Op(<<Top.tok, "incr">>))
                 g3 == set_current_block(back_edge(g2, Top.incr, Top.head), Top.exit)
             IN  mark_if_terminated(g3, Top.exit))
    /\ exit_loop
    /\ UNCHANGED <<in_else, phase>>

\* iter over a range
emit_iter_stmt ==
    /\ May("iter", "plain")
    /\ LET header == cfg.n
           body   == cfg.n + 1
           incr   == cfg.n + 2
           exit   == cfg.n + 3
           g1 == emit_instruction(create_blocks(cfg, 4), Op(<<Here, "init">>))
           g2 == jump_to(g1, header)
       IN  /\ Enter(Frame("iter", header, body, incr, exit, 0), Token("iter", 0, "plain"),
                    emit_loop_test(g2, Here, "plain", header, body, exit))
           /\ enter_loop(exit, incr)
    /\ UNCHANGED <<in_else, phase>>

\* No test for a terminator here: after a break the jump goes to a new block.
end_iter ==
    /\ phase = "build" /\ IsOpen("iter")
    /\ Leave(LET g1 == set_current_block(jump_edge_from(cfg, Top.body, Top.incr), Top.incr)
                 g2 == emit_instruction(g1, Op(<<Top.tok, "incr">>))
             IN  set_current_block(jump_edge_from(g2, Top.incr, Top.head), Top.exit))
    /\ exit_loop
    /\ UNCHANGED <<in_else, phase>>

\* iter over a list, tuple or dict, literal or variable: an index runs from 0,
\* it is advanced at the end of the body, and the continue label is 0
emit_index_iter_stmt ==
    /\ May("index", "plain")
    /\ LET header == cfg.n
           body   == cfg.n + 1
           exit   == cfg.n + 2
           g1 == emit_instruction(create_blocks(cfg, 3), Op(<<Here, "init">>))
           g2 == emit_loop_test(jump_to(g1, header), Here, "plain", header, body, exit)
       IN  /\ Enter(Frame("index", header, body, header, exit, 0),
                    Token("index", 0, "plain"),
                    emit_instruction(g2, Op(<<Here, "elem">>)))
           /\ enter_loop(exit, 0)
    /\ UNCHANGED <<in_else, phase>>

end_index_iter ==
    /\ phase = "build" /\ IsOpen("index")
    /\ Leave(LET g == emit_instruction(cfg, Op(<<Top.tok, "incr">>))
             IN  set_current_block(jump_edge_from(g, Top.body, Top.head), Top.exit))
    /\ exit_loop
    /\ UNCHANGED <<in_else, phase>>

\* iter over a channel variable: poll, leave the loop on nil
emit_channel_iter_stmt ==
    /\ May("chan", "plain")
    /\ LET header == cfg.n
           body   == cfg.n + 1
           exit   == cfg.n + 2
           g1 == set_current_block(jump_to(create_blocks(cfg, 3), header), header)
           g2 == emit_instruction(g1, JumpIf(Here, exit, <<Here, "cond">>))
           g3 == add_block_edge(add_block_edge(g2, header, body), header, exit)
           g4 == emit_instruction(set_current_block(g3, body), Op(<<Here, "elem">>))
       IN  /\ Enter(Frame("chan", header, body, header, exit, 0),
                    Token("chan", 0, "plain"), g4)
           /\ enter_loop(exit, 0)
    /\ UNCHANGED <<in_else, phase>>

end_channel_iter ==
    /\ phase = "build" /\ IsOpen("chan")
    /\ Leave(set_current_block(jump_edge_from(cfg, Top.body, Top.head), Top.exit))
    /\ exit_loop
    /\ UNCHANGED <<in_else, phase>>

(***************************************************************************)
(* Match.  Pattern block i is head + 2(i-1), its body block the next one.   *)
(***************************************************************************)
\* A value that is a variable ("bare") takes no instruction; the jump to the
\* first pattern is then omitted if the current block is terminated.
begin_match(value, cases) ==
    /\ May("match", value)
    /\ LET g1 == IF value = "bare" THEN cfg ELSE emit_instruction(cfg, Op(<<Here, "match">>))
           exit == g1.n
           g2 == create_blocks(g1, 1 + 2 * cases)
       IN  Enter(Frame("match", exit + 1, exit + 2, exit, exit, cases),
                 Token("match", 0, value), jump_unless_terminated(g2, exit + 1))
    /\ UNCHANGED <<loops, in_else, phase>>

emit_match_stmt == \E value \in {"plain", "bare"}, cases \in 1..MaxCases :
                       begin_match(value, cases)

\* The end of the previous case's body, if there is one; then the pattern of
\* the next case begins.
emit_match_case ==
    /\ phase = "build" /\ IsOpen("match") /\ Top.idx < Top.cnt
    /\ LET pat  == Top.head + 2 * Top.idx
           next == IF Top.idx + 1 < Top.cnt THEN pat + 2 ELSE Top.exit
           g == IF Top.idx = 0 THEN cfg ELSE jump_unless_terminated(cfg, Top.exit)
       IN  /\ Statement(Token("case", Top.tok, "plain"), set_current_block(g, pat))
           /\ open' = Append([open EXCEPT ![Len(open)].idx = Top.idx + 1],
                             Frame("pattern", pat, pat + 1, next, next, 0))
    /\ UNCHANGED <<loops, in_else, phase>>

\* One call of emit_pattern_match, which calls itself for nested patterns:
\* "test" compares and leaves for the next case on a mismatch, "never" is a
\* variant name that does not resolve.  A name or "_" emits nothing.
emit_pattern(form) ==
    /\ phase = "build" /\ IsOpen("pattern") /\ Allowed(src, "part", form)
    /\ Statement(Token("part", Top.tok, form),
                 IF form = "never" THEN jump_to(cfg, Top.exit)
                 ELSE LET g == emit_instruction(cfg, JumpIfFalse(Here, Top.exit,
                                                                 <<Here, "pattern">>))
                      IN  add_block_edge(g, g.cur, Top.exit))
    /\ UNCHANGED <<loops, open, in_else, phase>>

emit_pattern_match == \E form \in {"test", "never"} : emit_pattern(form)

\* Mutant: the edge to the next case is forgotten.
emit_guard_one_edge(g, p, body, next) ==
    LET h == emit_instruction(g, JumpIfFalse(p, next, <<p, "guard">>))
    IN  add_block_edge(h, h.cur, body)

emit_guard(g, p, body, next) ==
    LET h == emit_instruction(g, JumpIfFalse(p, next, <<p, "guard">>))
    IN  add_block_edge(add_block_edge(h, h.cur, body), h.cur, next)

\* The guard, left out where the pattern can never match, and the body block.
emit_case(guard) ==
    /\ phase = "build" /\ IsOpen("pattern")
    /\ LET guarded == guard = "guard" /\ ~has_terminator(cfg, cfg.cur)
           g == IF guarded THEN emit_guard(cfg, Here, Top.body, Top.exit) ELSE cfg
       IN  Statement(Token("body", Top.tok, guard),
                     set_current_block(jump_unless_terminated(g, Top.body), Top.body))
    /\ open' = Pop(open)
    /\ UNCHANGED <<loops, in_else, phase>>

emit_case_body == \E guard \in {"guard", "plain"} : emit_case(guard)

end_match ==
    /\ phase = "build" /\ IsOpen("match") /\ Top.idx = Top.cnt
    /\ Leave(set_current_block(jump_unless_terminated(cfg, Top.exit), Top.exit))
    /\ UNCHANGED <<loops, in_else, phase>>

(***************************************************************************)
(* Errors: the "?" operator and "? else".                                   *)
(***************************************************************************)
emit_question_expr ==
    /\ May("question", "plain")
    /\ Statement(Token("question", 0, "plain"), emit_question(cfg, Here))
    /\ UNCHANGED <<loops, open, in_else, phase>>

\* emit_fallible_expr up to the error block
begin_fallible(g, p) ==
    LET g1 == emit_instruction(g, Op(<<p, "call">>))
        error   == g1.n
        success == g1.n + 1
        cont    == g1.n + 2
        g2 == emit_instruction(create_blocks(g1, 3), JumpIf(p, error, <<p, "try">>))
        g3 == emit_instruction(g2, Jump(success))
        g4 == add_block_edge(add_block_edge(g3, g3.cur, error), g3.cur, success)
        g5 == emit_instruction(set_current_block(g4, success), Op(<<p, "unwrap">>))
    IN  set_current_block(jump_edge_from(g5, success, cont), error)

\* without a handler the error is returned
emit_propagate_expr ==
    /\ May("propagate", "plain")
    /\ LET g1 == begin_fallible(cfg, Here)
           g2 == emit_instruction(g1, Return(<<Here, "propagate">>))
       IN  Statement(Token("propagate", 0, "plain"), set_current_block(g2, g1.cur + 2))
    /\ UNCHANGED <<loops, open, in_else, phase>>

\* with a handler: its statements are emitted with in_else_block set
emit_fallible_else ==
    /\ May("fallible", "plain")
    /\ LET g1 == begin_fallible(cfg, Here)
       IN  Enter(Frame("fallible", g1.cur, g1.cur, g1.cur + 2, g1.cur + 2, 0),
                 Token("fallible", 0, "plain"), g1)
    /\ in_else' = TRUE
    /\ UNCHANGED <<loops, phase>>

end_fallible_else ==
    /\ phase = "build" /\ IsOpen("fallible")
    /\ Leave(LET g == emit_instruction(cfg, Op(<<Top.tok, "default">>))
             IN  set_current_block(jump_edge_from(g, Top.head, Top.exit), Top.exit))
    /\ in_else' = FALSE
    /\ UNCHANGED <<loops, phase>>

(***************************************************************************)
(* The end of the function: implicit return and finish_cfg_build.  The      *)
(* current block has a terminator by then, so the jump to the exit block    *)
(* that finish_cfg_build would add is never emitted.                        *)
(***************************************************************************)
finish_cfg_build ==
    /\ phase = "build"
    /\ open = <<>>
    /\ cfg' = IF has_terminator(cfg, cfg.cur) THEN cfg
              ELSE emit_instruction(cfg, Return(Silent))
    /\ phase' = "done"
    /\ UNCHANGED <<loops, open, in_else, src>>

Next ==
    \/ emit_simple_stmt \/ emit_break_stmt \/ emit_continue_stmt \/ emit_return_stmt
    \/ emit_if_stmt \/ emit_else \/ end_if
    \/ emit_while_stmt \/ end_while
    \/ emit_for_stmt \/ end_for
    \/ emit_iter_stmt \/ end_iter
    \/ emit_index_iter_stmt \/ end_index_iter
    \/ emit_channel_iter_stmt \/ end_channel_iter
    \/ emit_match_stmt \/ emit_match_case \/ emit_pattern_match \/ emit_case_body
    \/ end_match
    \/ emit_question_expr \/ emit_propagate_expr
    \/ emit_fallible_else \/ end_fallible_else
    \/ finish_cfg_build

Spec == Init /\ [][Next]_vars

(***************************************************************************)
(* Properties.                                                              *)
(***************************************************************************)
TokenKinds == {"stmt", "break", "continue", "return", "else", "case", "part", "body",
               "question", "propagate", "end"} \cup (FrameKinds \ {"pattern"})

\* what an instruction does for its statement
Parts == {"silent", "stmt", "return", "left", "right", "cond", "init", "incr", "elem",
          "match", "pattern", "guard", "call", "try", "unwrap", "propagate", "default"}

Forms == Conds \cup FrameKinds \cup {"plain", "handler", "function", "bare", "test",
                                    "never", "guard"}

TokenType == [k : TokenKinds, m : Nat, c : Forms]

BlockIds(g) == 0..(g.n - 1)

InstType == [op : Opcodes, a : Nat, b : Nat, imm : Nat, ev : Nat \X Parts]

BlockType == [ins : Seq(InstType), succ : Seq(Nat), pred : Seq(Nat), terminated : BOOLEAN]

CfgType(g) ==
    /\ g.n \in Nat
    /\ g.blocks \in [BlockIds(g) -> BlockType]
    /\ g.cur \in BlockIds(g)

FrameType == [k : FrameKinds, tok : Nat, head : Nat, body : Nat, incr : Nat, exit : Nat,
              cnt : Nat, idx : Nat]

FrameOK(g, f) ==
    /\ {f.head, f.body, f.incr, f.exit} \subseteq BlockIds(g)
    /\ f.idx <= f.cnt
    /\ f.k = "match" => f.exit < f.head
    /\ f.k = "if" /\ f.cnt = 2 => f.head # f.exit

FramesType(g, s) == s \in Seq(FrameType) /\ \A i \in DOMAIN s : FrameOK(g, s[i])

LoopsType(g, s) ==
    /\ s \in Seq([end : Nat, continue : Nat])
    /\ \A i \in DOMAIN s : s[i].end \in BlockIds(g) /\ s[i].continue \in BlockIds(g)

\* The generator's state is well typed; every block an open statement refers to
\* exists; and the labels of every open loop are
\* ids of blocks of the function (never INVALID_LOOP_LABEL): get_break_label and
\* get_continue_label find them set.
TypeOK ==
    /\ CfgType(cfg)
    /\ LoopsType(cfg, loops)
    /\ FramesType(cfg, open)
    /\ in_else \in BOOLEAN
    /\ src \in Seq(TokenType)
    /\ phase \in {"build", "done"}

In(x, s) == \E i \in DOMAIN s : s[i] = x

Symmetric(g) ==
    \A a, b \in BlockIds(g) : In(b, g.blocks[a].succ) <=> In(a, g.blocks[b].pred)

\* A block is a successor of another exactly if that one is its predecessor, as
\* validate_cfg requires of every edge, however blocks and edges were added.
EdgesSymmetric == Symmetric(cfg)

TargetsExist(g) ==
    \A b \in BlockIds(g) :
        /\ \A i \in DOMAIN g.blocks[b].ins :
              g.blocks[b].ins[i].op \in Branches => g.blocks[b].ins[i].imm \in BlockIds(g)
        /\ \A i \in DOMAIN g.blocks[b].succ : g.blocks[b].succ[i] \in BlockIds(g)
        /\ \A i \in DOMAIN g.blocks[b].pred : g.blocks[b].pred[i] \in BlockIds(g)

\* Every jump and every edge of the graph under construction, forward ones
\* included, names a block that exists already.
JumpTargetsExist == TargetsExist(cfg)

EndsBlocks(g) ==
    \A b \in BlockIds(g) : \A i \in DOMAIN g.blocks[b].ins :
        g.blocks[b].ins[i].op \in Terminators => i = Len(g.blocks[b].ins)

\* Jump and Return stand only at the end of a block: code after a break,
\* continue, return or jump never lands behind it in the same block.
TerminatorLast == EndsBlocks(cfg)

\* the blocks a lowering has created and still has to fill
Reserved(f) ==
    CASE f.k = "if" -> IF f.cnt = 2 /\ f.idx = 0 THEN {f.head, f.exit} ELSE {f.exit}
      [] f.k \in {"for", "iter"} -> {f.incr, f.exit}
      [] f.k = "match" -> {f.exit} \cup ((f.head + 2 * f.idx)..(f.head + 2 * f.cnt - 1))
      [] f.k = "pattern" -> {f.body}
      [] OTHER -> {f.exit}

ReservedBy(s) == UNION {Reserved(s[i]) : i \in DOMAIN s}

Disjoint(s) ==
    \A i, j \in DOMAIN s : i # j => Reserved(s[i]) \cap Reserved(s[j]) = {}

Fresh(g, B) ==
    /\ B \subseteq BlockIds(g) \ {g.cur}
    /\ \A b \in B : g.blocks[b].ins = <<>> /\ ~g.blocks[b].terminated

\* The block where the else branch, the next case, the increment or the code
\* after a statement will go is still empty, unterminated and not current
\* when its turn comes, whatever the nested statements did; and no two open
\* statements share one.  So set_current_block always enters a fresh block and
\* the tests "if (end_block->has_terminator())" never succeed.
ReservedFresh ==
    /\ Fresh(cfg, ReservedBy(open))
    /\ Disjoint(open)

\* how many of the first i statements of the stack s are loops
LoopDepth(s, i) == Cardinality({j \in 1..i : s[j].k \in LoopKinds})

\* The loop stack holds one entry for each loop statement being lowered, in
\* their order, with that loop's exit as its break label: a break deep inside
\* ifs, matches and error handlers leaves the innermost loop around it and no
\* other.
LoopStackMatches ==
    /\ Len(loops) = LoopDepth(open, Len(open))
    /\ \A i \in DOMAIN open : open[i].k \in LoopKinds =>
          loops[LoopDepth(open, i)].end = open[i].exit

Kept(g, h) ==
    /\ BlockIds(g) \subseteq BlockIds(h)
    /\ \A b \in BlockIds(g) :
          has_terminator(g, b) => /\ h.blocks[b].ins = g.blocks[b].ins
                                  /\ has_terminator(h, b)

\* No step adds code to a block that has its terminator, and no step removes a
\* block or makes a terminated block open again.
TerminatedKept == [][Kept(cfg, cfg')]_cfg
=============================================================================
