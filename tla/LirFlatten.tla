----------------------------- MODULE LirFlatten -----------------------------
(***************************************************************************)
(* The second half of Generator::finish_cfg_build: unreachable blocks are   *)
(* dropped, the graph is checked, the blocks are laid out in reverse post-  *)
(* order, and jump targets become instruction positions.  The result is the *)
(* instruction vector of the function, which RegisterVM runs from position  *)
(* 0.  Against it stands the meaning of the source program, read off the    *)
(* tokens of src.                                                           *)
(***************************************************************************)
EXTENDS LirCfg, SequencesExt

(***************************************************************************)
(* remove_unreachable_blocks                                                *)
(***************************************************************************)
Successors(g, B) == UNION {ToSet(g.blocks[b].succ) : b \in B}

RECURSIVE reachable_from(_, _)
reachable_from(g, B) ==
    LET C == B \cup Successors(g, B) IN IF C = B THEN B ELSE reachable_from(g, C)

reachable_blocks(g) == reachable_from(g, {0})

(***************************************************************************)
(* validate_cfg, on the blocks that are left; name is the function's.       *)
(***************************************************************************)
\* Check 2: a block has a terminator or a successor.  Spared are the labels
\* "success_unwrap" and "..._end": the block in which the short-circuit or "?"
\* condition of a loop header ends ("logic_end", "success_unwrap") is the only
\* one with neither, as FallThroughPlaced shows.
ends_somewhere(g, b) ==
    \/ has_terminator(g, b)
    \/ g.blocks[b].succ # <<>>
    \/ g.blocks[b].ins # <<>> /\ Last(g.blocks[b].ins).ev[2] = "cond"

targets_have_edges(g, b, kept) ==
    \A i \in ToSet(g.blocks[b].ins) : i.op \in Branches =>
        i.imm \in kept /\ i.imm \in ToSet(g.blocks[b].succ)

successors_symmetric(g, b, kept) ==
    \A c \in ToSet(g.blocks[b].succ) : c \in kept /\ b \in ToSet(g.blocks[c].pred)

\* the blocks labelled "error_propagation": where emit_question goes on an error
error_propagation(g) ==
    {i.imm : i \in {j \in UNION {ToSet(g.blocks[b].ins) : b \in BlockIds(g)} :
                       j.ev[2] = "try" /\ src[j.ev[1]].k \notin {"fallible", "propagate"}}}

\* Check 3
ends_in_return(g, b) ==
    /\ has_terminator(g, b)
    /\ g.blocks[b].ins # <<>> => Last(g.blocks[b].ins).op = "Return"

\* Check 4: a Return after each Unwrap of the block, or the block terminated
unwrap_terminated(g, b) ==
    \A k \in DOMAIN g.blocks[b].ins : g.blocks[b].ins[k].ev[2] = "unwrap" =>
        \/ has_terminator(g, b)
        \/ \E l \in (k + 1)..Len(g.blocks[b].ins) : g.blocks[b].ins[l].op = "Return"

validate_cfg(g, name) ==
    LET kept == reachable_blocks(g)
    IN  \A b \in kept :
           /\ ends_somewhere(g, b)
           /\ targets_have_edges(g, b, kept)
           /\ successors_symmetric(g, b, kept)
           /\ b \in error_propagation(g) => ends_in_return(g, b)
           /\ name = "main" => unwrap_terminated(g, b)

(***************************************************************************)
(* flatten_cfg_to_instructions                                              *)
(***************************************************************************)
\* Mutant: successors in the order they were added.
RECURSIVE visit_forward(_, _, _)
visit_forward(g, acc, b) ==
    IF b \in acc.visited THEN acc
    ELSE LET inner == FoldLeft(LAMBDA a, s : visit_forward(g, a, s),
                               [acc EXCEPT !.visited = @ \cup {b}],
                               g.blocks[b].succ)
         IN  [inner EXCEPT !.order = Append(@, b)]

\* The lambda "visit": successors last to first, then the block itself.  acc is
\* [visited, order].
RECURSIVE visit(_, _, _)
visit(g, acc, b) ==
    IF b \in acc.visited THEN acc
    ELSE LET inner == FoldLeft(LAMBDA a, s : visit(g, a, s),
                               [acc EXCEPT !.visited = @ \cup {b}],
                               Reverse(g.blocks[b].succ))
         IN  [inner EXCEPT !.order = Append(@, b)]

\* Every block reachable from the entry is visited from it, and the others are
\* gone, so the "referenced blocks" pass that follows finds nothing to add.
sorted_blocks(g) == Reverse(visit(g, [visited |-> {}, order |-> <<>>], 0).order)

\* instructions of the blocks before the i-th: the position of its first one
block_position(g, order, i) ==
    FoldLeft(LAMBDA n, b : n + Len(g.blocks[b].ins), 0, SubSeq(order, 1, i - 1))

\* A target that is not laid out keeps its block id ("Warning: Jump target
\* block ... not found").
resolve(g, order, i) ==
    IF i.op \in Branches /\ \E k \in DOMAIN order : order[k] = i.imm
    THEN [i EXCEPT !.imm = block_position(g, order, CHOOSE k \in DOMAIN order :
                                                        order[k] = i.imm)]
    ELSE i

flatten_cfg_to_instructions(g) ==
    LET order == sorted_blocks(g)
        all   == FoldLeft(LAMBDA s, b : s \o g.blocks[b].ins, <<>>, order)
    IN  [k \in DOMAIN all |-> resolve(g, order, all[k])]

(***************************************************************************)
(* Running the instructions.  A program counter counts from 0.  The fate of *)
(* a run is told by the next instruction that means something in the        *)
(* source: Jumps are passed over, at most Len(code) of them.                *)
(***************************************************************************)
End == <<0, "end">>
Stuck == <<0, "stuck">>

\* Where a jump goes: flatten_cfg_to_instructions puts the target in imm, while
\* RegisterVM::execute_control_flow looks for it among the operands.
imm_target(i) == i.imm
vm_target(i) == IF i.op = "Jump" THEN i.a ELSE i.b
target(reader, i) == IF reader = "vm" THEN vm_target(i) ELSE imm_target(i)

RECURSIVE run_from(_, _, _, _)
run_from(code, reader, pc, fuel) ==
    IF fuel = 0 THEN Stuck
    ELSE IF pc >= Len(code) THEN End
    ELSE LET i == code[pc + 1]
         IN  IF i.op = "Jump" THEN run_from(code, reader, target(reader, i), fuel - 1)
             ELSE IF i.ev = Silent THEN End ELSE i.ev

\* The pc after the instruction at pc, whose condition register holds v.
step(code, reader, pc, v) ==
    LET i == code[pc + 1]
    IN  IF \/ i.op = "JumpIf" /\ v
           \/ i.op = "JumpIfFalse" /\ ~v
        THEN target(reader, i) ELSE pc + 1

next_event(code, reader, pc, v) ==
    IF code[pc + 1].op = "Return" THEN End
    ELSE run_from(code, reader, step(code, reader, pc, v), Len(code) + 1)

(***************************************************************************)
(* The meaning of the source.  SrcAt[q, "run"] is the first event when      *)
(* control reaches token q; SrcAt[q, "test"] when the test of a match case  *)
(* goes on at q.  The end of a loop's or handler's body is a stop, <<q,      *)
(* "bottom">>, that Bottom passes.  SrcStep(e, v) is the stop after e when e *)
(* yields v, and SrcNext(e, v) the event.                                    *)
(***************************************************************************)
Close(p) == CHOOSE q \in DOMAIN src : src[q].k = "end" /\ src[q].m = p

ElseOf(p) == {q \in DOMAIN src : src[q].k = "else" /\ src[q].m = p}

CasesAfter(q) ==
    {r \in DOMAIN src : src[r].k = "case" /\ src[r].m = src[q].m /\ r > q}

\* the loop around token q
LoopOf(q) ==
    Max({p \in 1..(q - 1) : src[p].k \in LoopKinds /\ Close(p) > q})

\* the first event of an evaluation of p's condition
FirstTest(p) == CASE src[p].c = "plain" -> <<p, "cond">>
                  [] src[p].c = "try" -> <<p, "call">>
                  [] OTHER -> <<p, "left">>

\* the event that begins the next iteration of loop p
NextIteration(p) == IF src[p].k \in {"for", "iter", "index"}
                    THEN <<p, "incr">> ELSE FirstTest(p)

SrcAt[q \in 1..(Len(src) + 1), mode \in {"run", "test"}] ==
    IF q > Len(src) THEN End ELSE
    LET t == src[q]
        Fail == IF CasesAfter(t.m) # {} THEN SrcAt[Min(CasesAfter(t.m)), "test"]
                ELSE SrcAt[Close(src[t.m].m) + 1, "run"]
    IN  CASE t.k \in {"stmt", "return"} -> <<q, t.k>>
          [] t.k \in {"question", "propagate", "fallible"} -> <<q, "call">>
          [] t.k \in {"if", "while", "chan"} -> FirstTest(q)
          [] t.k \in {"for", "iter", "index"} -> <<q, "init">>
          [] t.k = "match" -> IF t.c = "bare" THEN SrcAt[q + 1, "test"] ELSE <<q, "match">>
          [] t.k = "case" /\ mode = "test" -> SrcAt[q + 1, "test"]
          [] t.k = "part" -> IF t.c = "test" THEN <<q, "pattern">> ELSE Fail
          [] t.k = "body" -> IF t.c = "guard" THEN <<q, "guard">> ELSE SrcAt[q + 1, "run"]
          [] t.k = "else" \/ (t.k = "case" /\ mode = "run") -> SrcAt[Close(t.m) + 1, "run"]
          [] t.k = "break" -> SrcAt[Close(LoopOf(q)) + 1, "run"]
          [] t.k = "continue" -> NextIteration(LoopOf(q))
          [] t.k = "end" /\ t.c \in LoopKinds \cup {"fallible"} -> <<q, "bottom">>
          [] OTHER -> SrcAt[q + 1, "run"]

Bottom(e) == IF e[2] # "bottom" THEN e
             ELSE IF src[e[1]].c = "fallible" THEN <<src[e[1]].m, "default">>
             ELSE NextIteration(src[e[1]].m)

Follow(p) == SrcAt[p + 1, "run"]
FollowEnd(p) == SrcAt[Close(p) + 1, "run"]
GoOn(p) == SrcAt[p + 1, "test"]

\* the test of the case at token r has failed
NextCase(r) == IF CasesAfter(r) = {} THEN FollowEnd(src[r].m)
               ELSE SrcAt[Min(CasesAfter(r)), "test"]

SrcCond(p, v) ==
    CASE src[p].k = "if" -> IF v THEN Follow(p)
                            ELSE IF ElseOf(p) # {} THEN Follow(Min(ElseOf(p)))
                            ELSE FollowEnd(p)
      [] src[p].k = "chan" -> IF v THEN FollowEnd(p) ELSE <<p, "elem">>
      [] src[p].k = "index" -> IF v THEN <<p, "elem">> ELSE FollowEnd(p)
      [] OTHER -> IF v THEN Follow(p) ELSE FollowEnd(p)

SrcStep(e, v) ==
    LET p == e[1]
        t == src[p]
    IN  CASE e[2] \in {"stmt", "elem"} -> Follow(p)
          [] e[2] = "return" -> IF t.c = "handler" THEN Follow(p) ELSE End
          [] e[2] = "left" -> IF v = (t.c = "and") THEN <<p, "right">> ELSE <<p, "cond">>
          [] e[2] = "right" -> <<p, "cond">>
          [] e[2] = "cond" -> SrcCond(p, v)
          [] e[2] \in {"init", "incr"} -> FirstTest(p)
          [] e[2] = "match" -> GoOn(p)
          [] e[2] = "pattern" -> IF v THEN GoOn(p) ELSE NextCase(t.m)
          [] e[2] = "guard" -> IF v THEN Follow(p) ELSE NextCase(t.m)
          [] e[2] = "call" -> <<p, "try">>
          [] e[2] = "try" -> IF ~v THEN <<p, "unwrap">>
                             ELSE IF t.k = "fallible" THEN Follow(p)
                             ELSE <<p, "propagate">>
          [] e[2] = "unwrap" -> IF t.k = "fallible" THEN FollowEnd(p)
                                ELSE IF t.c = "try" THEN <<p, "cond">> ELSE Follow(p)
          [] e[2] = "default" -> FollowEnd(p)
          [] e[2] = "bottom" -> Bottom(e)
          [] OTHER -> End

SrcNext(e, v) == Bottom(SrcStep(e, v))

\* the stops that some run of the program comes to
RECURSIVE ReachedFrom(_)
ReachedFrom(S) ==
    LET T == S \cup {SrcStep(e, v) : e \in S \ {End}, v \in BOOLEAN}
    IN  IF T = S THEN S ELSE ReachedFrom(T)

Reached == ReachedFrom({SrcAt[1, "run"]})

(***************************************************************************)
(* Properties of the finished function.                                     *)
(***************************************************************************)
Agrees(code, reader) ==
    /\ run_from(code, reader, 0, Len(code) + 1) = Bottom(SrcAt[1, "run"])
    /\ \A k \in DOMAIN code : code[k].ev # Silent =>
          \A v \in BOOLEAN :
             next_event(code, reader, k - 1, v) = SrcNext(code[k].ev, v)

\* The instruction vector that finish_cfg_build leaves behind does, from its
\* first instruction on and after every instruction and either value of its
\* condition, what the source program does next: every statement, condition,
\* case, handler, break, continue and return is followed by the right one, over
\* all layouts of blocks, fall-throughs, dropped blocks and resolved targets.
FlatFaithful ==
    phase = "done" => Agrees(flatten_cfg_to_instructions(cfg), "generator")

\* A block that does not end in Jump or Return is followed, in the layout, by
\* its fall-through: it never runs into a block it has no edge to, except at
\* the merge of a short-circuit condition, whose two edges are recorded at
\* the loop header.  In particular the last block of the layout never falls off
\* the end of the vector.
FallThroughPlaced ==
    phase = "done" =>
        LET order == sorted_blocks(cfg)
        IN  \A k \in DOMAIN order :
               \/ has_terminator(cfg, order[k])
               \/ /\ k < Len(order)
                  /\ \/ order[k + 1] \in ToSet(cfg.blocks[order[k]].succ)
                     \/ /\ cfg.blocks[order[k]].succ = <<>>
                        /\ Last(cfg.blocks[order[k]].ins).ev[2] = "cond"

BlockSplitting == FrameKinds \cup {"question", "propagate"}

Bodies == LoopKinds \cup {"fallible"}

\* the body of loop or handler p does not stay in its block
Splits(p) == \E q \in (p + 1)..(Close(p) - 1) : src[q].k \in BlockSplitting

\* the condition of p is evaluated in blocks of its own
SplitTest(p) == src[p].k \in LoopKinds /\ src[p].c # "plain"

\* Straight-line code, a "return" of a handler included, leads from a "?" to the
\* if at q: the block with the Unwrap ends in the conditional jump.
UnwrapsInto(q) ==
    /\ src[q].k = "if"
    /\ \/ src[q].c = "try"
       \/ \E p \in 1..(q - 1) :
             /\ src[p].k = "question"
             /\ \A r \in (p + 1)..(q - 1) :
                   src[r].k = "stmt" \/ (src[r].k = "return" /\ src[r].c = "handler")

\* the places of the source at which the check finds fault, and those of them
\* that some run comes to
Faults(name) ==
    {p \in DOMAIN src : \/ src[p].k \in Bodies /\ (Splits(p) \/ SplitTest(p))
                        \/ name = "main" /\ UnwrapsInto(p)}

FaultReached(p) ==
    \/ \E e \in Reached : e[1] = p /\ (SplitTest(p) \/ UnwrapsInto(p))
    \/ \E e \in Reached : e[2] = "bottom" /\ src[e[1]].m = p /\ Splits(p)

\* What finish_cfg_build's own check says of a function, "main" or another, is
\* told by its source.  A function is accepted when its loops and handlers have
\* plain tests and bodies without branches of their own, whatever ifs, matches
\* and "?" surround them, and when main has no "?" just before or in the test
\* of an if.  It is refused as soon as a run can come to a "?", "and" or "or"
\* in a loop's test, to the end of a loop's or handler's body with a branch
\* inside (the back edge was recorded from the block the body began in), or,
\* in main, to such an if: the errors are reported for correct code, which
\* FlatFaithful covers all the same.
CfgVerdict ==
    phase = "done" =>
        \A name \in {"main", "other"} :
            /\ Faults(name) = {} => validate_cfg(cfg, name)
            /\ (\E p \in Faults(name) : FaultReached(p)) => ~validate_cfg(cfg, name)

(***************************************************************************)
(* A statement of the repository that the code does not meet.               *)
(***************************************************************************)
\* FlatFaithful, with jumps taken where RegisterVM takes them.
VmFaithful ==
    phase = "done" => Agrees(flatten_cfg_to_instructions(cfg), "vm")
=============================================================================
