------------------------------ MODULE LirOptimizer ------------------------------
(***************************************************************************)
(* The optimizer of LIR functions (src/lir/optimizer.cpp).  The generator  *)
(* emits a function, then optimize runs its four passes in rounds.         *)
(*                                                                         *)
(* An instruction is a record with the fields of LIR_Inst the optimizer    *)
(* reads.  An operand an opcode does not use is register 0, as in the      *)
(* constructors of LIR_Inst; register 0 holds the parameter of the         *)
(* function.  Jump targets are positions, counted from 0.                  *)
(***************************************************************************)
EXTENDS Integers, FiniteSets, SequencesExt
LOCAL INSTANCE Bitwise

CONSTANTS Literals,        \* the integers of LoadConst
          Length,          \* a function from the sets of opcodes a function may use to its length
          PARAMETER,       \* what register 0 holds on entry
          MAX_PASSES,
          FUEL             \* the instructions a run of the function executes at most

VARIABLES emitted,         \* the function as the generator emitted it
          instructions,    \* the function as it is now
          opcodes, pass, pass_count, pass_changed

lirVars == << emitted, instructions, opcodes, pass, pass_count, pass_changed >>

None == -1                 \* UINT32_MAX

Num(n)  == [k |-> "int", n |-> n]
Bool(b) == [k |-> "bool", n |-> IF b THEN 1 ELSE 0]
Nil     == [k |-> "nil", n |-> 0]
IS_INT(v) == v.k = "int"

Inst(op, dst, a, b, imm, v) == [op |-> op, dst |-> dst, a |-> a, b |-> b, imm |-> imm, const_val |-> v]

Jumps   == {"Jump", "JumpIf", "JumpIfFalse"}
Returns == {"Return", "Ret"}
Arithmetic  == {"Add", "Sub", "Mul", "Div", "Mod"}
Comparisons == {"CmpEQ", "CmpNEQ", "CmpLT", "CmpLE", "CmpGT", "CmpGE"}

Without(s, i)  == RemoveAt(s, i)
------------------------------------------------------------------------------
\* The registers that hold a value the rest of the function may read before instruction i: one
\* backward sweep in the order of the list, which follows no jump.
Uses(inst) ==
  ({inst.a, inst.b} \cup (IF inst.op \in Returns \cup {"JumpIf", "JumpIfFalse"} THEN {inst.dst} ELSE {})) \ {None}
Defines(inst) == IF inst.op \in Returns \cup Jumps THEN {} ELSE {inst.dst}

analyze(s) ==
  FoldRight(LAMBDA inst, live :
              LET after == IF live = <<>> THEN {} ELSE Head(live).before
              IN << [at |-> after \cup Uses(inst), before |-> (after \cup Uses(inst)) \ Defines(inst)] >> \o live,
            s, <<>>)

has_instruction_side_effects(inst) ==
  inst.op \in Returns \cup Jumps \cup
    {"Call", "CallVoid", "CallIndirect", "CallBuiltin", "CallVariadic", "AsyncCall", "Await", "Label", "Store",
     "PrintInt", "PrintUint", "PrintFloat", "PrintBool", "PrintString", "ChannelSend", "ChannelRecv", "ChannelClose"}

\* The targets of jumps are not changed.
dead_code_elimination(s) ==
  LET live_at == analyze(s)
      Dead(i) == /\ ~has_instruction_side_effects(s[i]) /\ s[i].dst # None
                 /\ ~(i < Len(s) /\ s[i].dst \in live_at[i + 1].at)
  IN [i \in 1 .. Len(s) |-> [inst |-> s[i], dead |-> Dead(i)]]

Compact(marked) == LET kept == SelectSeq(marked, LAMBDA m : ~m.dead) IN [i \in DOMAIN kept |-> kept[i].inst]

------------------------------------------------------------------------------
Successors(s, i) ==
  LET all == CASE s[i].op = "Jump" -> {s[i].imm + 1}
               [] s[i].op \in {"JumpIf", "JumpIfFalse"} -> {s[i].imm + 1, i + 1}
               [] s[i].op \in Returns -> {}
               [] OTHER -> {i + 1}
  IN all \cap DOMAIN s

\* The worklist of the traversal, level by level.
RECURSIVE Reachable(_, _)
Reachable(s, found) ==
  LET more == found \cup UNION {Successors(s, i) : i \in found}
  IN IF more = found THEN found ELSE Reachable(s, more)

\* Mutant: the jump keeps its old target.
Retarget_kept(inst, imm) == inst

Retarget(inst, imm) == [inst EXCEPT !.imm = imm]

remove_unreachable_code(s) ==
  LET reachable == Reachable(s, {1} \cap DOMAIN s)
      remap(i) == Len(SelectSeq([j \in 1 .. i |-> j], LAMBDA j : j \in reachable)) - 1
      Moved(inst) == IF inst.op \in Jumps /\ inst.imm + 1 \in reachable
                     THEN Retarget(inst, remap(inst.imm + 1)) ELSE inst
  IN Compact([i \in DOMAIN s |-> [inst |-> Moved(s[i]), dead |-> i \notin reachable]])

------------------------------------------------------------------------------
\* C division of 64 bit integers.
Quotient(a, b) == LET q == (IF a < 0 THEN -a ELSE a) \div (IF b < 0 THEN -b ELSE b)
                  IN IF (a < 0) # (b < 0) THEN -q ELSE q

Calculate(op, a, b) ==
  CASE op = "Add" -> a + b
    [] op = "Sub" -> a - b
    [] op = "Mul" -> a * b
    [] op = "Div" -> Quotient(a, b)
    [] op = "Mod" -> a - b * Quotient(a, b)

\* One sweep in the order of the list: st.known maps the registers with a known constant to it.
\* A division by 0 and an operation on constants that are no integers leave st.known alone.
FoldInst(st, inst) ==
  LET known == st.known
      Learn(r, v) == [q \in DOMAIN known \cup {r} |-> IF q = r THEN v ELSE known[q]]
      Forget(r)   == [q \in DOMAIN known \ {r} |-> known[q]]
      Keep(k)     == [known |-> k, out |-> Append(st.out, inst)]
      both == {inst.a, inst.b} \subseteq DOMAIN known
  IN CASE inst.op = "LoadConst" -> Keep(Learn(inst.dst, inst.const_val))
       [] inst.op = "Mov" -> Keep(IF inst.a \in DOMAIN known THEN Learn(inst.dst, known[inst.a]) ELSE Forget(inst.dst))
       [] inst.op \in {"Add", "Sub", "Mul", "Div"} /\ both ->
            IF IS_INT(known[inst.a]) /\ IS_INT(known[inst.b]) /\ (inst.op = "Div" => known[inst.b].n # 0)
            THEN LET v == Num(Calculate(inst.op, known[inst.a].n, known[inst.b].n))
                 IN [known |-> Learn(inst.dst, v),
                     out |-> Append(st.out, [inst EXCEPT !.op = "LoadConst", !.const_val = v])]
            ELSE Keep(known)
       [] OTHER -> Keep(Forget(inst.dst))

constant_folding(s) == FoldLeft(FoldInst, [known |-> [r \in {} |-> Nil], out |-> <<>>], s).out

------------------------------------------------------------------------------
\* The peephole rules, by their numbers in the source, at position i of s: the new list and the
\* position to go on from.  The first rule that applies is taken.
ConstantBefore(s, i, n) ==
  i > 1 /\ s[i - 1].op = "LoadConst" /\ s[i - 1].dst = s[i].b /\ s[i - 1].const_val = Num(n)

NextIs(s, i, ops) == i < Len(s) /\ s[i + 1].op \in ops

Put(s, i, inst) == [s |-> [s EXCEPT ![i] = inst], i |-> i + 1]
Drop(s, i)      == [s |-> Without(s, i), i |-> i]              \* erase, and look at position i again
Merge(s, i, inst) == [s |-> Without([s EXCEPT ![i + 1] = inst], i), i |-> i]

ToMov(inst)      == [inst EXCEPT !.op = "Mov", !.b = None]
ToConst(inst, v) == [inst EXCEPT !.op = "LoadConst", !.a = None, !.b = None, !.const_val = v]

Rule(s, i) ==
  LET x == s[i]
      next == s[i + 1]
      same == x.a = x.b
      real == x.a # None /\ same
  IN CASE x.op = "Mov" /\ x.dst = x.a -> Drop(s, i)                                                              \* 1
       [] x.op = "Mov" /\ x.dst # x.a /\ NextIs(s, i, {"Mov"}) /\ next.a = x.dst -> Merge(s, i, [next EXCEPT !.a = x.a])  \* 2
       [] x.op = "LoadConst" /\ NextIs(s, i, {"LoadConst"}) /\ next.dst = x.dst /\ next.const_val = x.const_val ->
            [s |-> Without(s, i + 1), i |-> i + 1]                                                                 \* 3
       [] x.op = "Add" /\ ConstantBefore(s, i, 0) -> Put(s, i, ToMov(x))                                           \* 4
       [] x.op = "Mul" /\ ConstantBefore(s, i, 1) -> Put(s, i, ToMov(x))                                           \* 5
       [] x.op = "Mul" /\ ConstantBefore(s, i, 2) -> Put(s, i, [x EXCEPT !.op = "Add", !.b = x.a])                 \* 6
       [] x.op \in {"CmpEQ", "CmpLE", "CmpGE"} /\ real -> Put(s, i, ToConst(x, Bool(TRUE)))                        \* 7
       [] x.op \in {"CmpNEQ", "CmpLT", "CmpGT"} /\ real -> Put(s, i, ToConst(x, Bool(FALSE)))                      \* 8
       [] x.op \in {"And", "Or"} /\ same -> Put(s, i, ToMov(x))                                                    \* 9, 10
       [] x.op = "Xor" /\ real -> Put(s, i, ToConst(x, Bool(FALSE)))                                               \* 11
       [] x.op = "Neg" /\ NextIs(s, i, {"Neg"}) /\ next.a = x.dst -> Merge(s, i, [next EXCEPT !.op = "Mov", !.a = x.a])  \* 12
       [] x.op = "Jump" /\ NextIs(s, i, {"Label"}) /\ next.imm = x.imm -> Drop(s, i)                               \* 13
       [] x.op = "LoadConst" /\ NextIs(s, i, {"Mov"}) /\ next.a = x.dst ->
            [s |-> Without([s EXCEPT ![i].dst = next.dst], i + 1), i |-> i + 1]                                    \* 14
       [] x.op = "Mov" /\ x.dst # x.a /\ NextIs(s, i, Returns) /\ next.dst = x.dst -> Merge(s, i, [next EXCEPT !.dst = x.a])      \* 15
       [] x.op = "Sub" /\ ConstantBefore(s, i, 0) -> Put(s, i, ToMov(x))                                           \* 16
       [] x.op = "Div" /\ ConstantBefore(s, i, 1) -> Put(s, i, ToMov(x))                                           \* 17
       [] x.op = "Mod" /\ ConstantBefore(s, i, 1) -> Put(s, i, ToConst(x, Num(0)))                                 \* 18
       [] OTHER -> [s |-> s, i |-> i + 1]

RECURSIVE Peephole(_, _)
Peephole(s, i) == IF i > Len(s) THEN s ELSE LET r == Rule(s, i) IN Peephole(r.s, r.i)

peephole_optimize(s) == Peephole(s, 1)

------------------------------------------------------------------------------
\* The generator gives every temporary a register of its own, starting after the parameter's.
Temporaries == {emitted[i].dst : i \in {j \in DOMAIN emitted : Defines(emitted[j]) # {} /\ emitted[j].op # "PrintInt"}} \cup {0}
Fresh == Cardinality(Temporaries)

LirInit ==
  /\ emitted = <<>> /\ instructions = <<>> /\ opcodes \in DOMAIN Length
  /\ pass = "emit" /\ pass_count = 0 /\ pass_changed = FALSE

Emit(inst) ==
  /\ pass = "emit" /\ inst.op \in opcodes /\ Len(emitted) < Length[opcodes]
  /\ emitted' = Append(emitted, inst) /\ instructions' = emitted'
  /\ UNCHANGED << opcodes, pass, pass_count, pass_changed >>

EmitAny ==
  \/ \E n \in Literals : Emit(Inst("LoadConst", Fresh, 0, 0, 0, Num(n)))
  \/ \E op \in opcodes \cap {"Mov", "Neg"}, a \in Temporaries : Emit(Inst(op, Fresh, a, 0, 0, Nil))
  \/ \E op \in opcodes \cap (Arithmetic \cup Comparisons \cup {"And", "Or", "Xor"}), a, b \in Temporaries :
       Emit(Inst(op, Fresh, a, b, 0, Nil))
  \/ \E op \in opcodes \cap {"PrintInt", "Return"}, a \in Temporaries : Emit(Inst(op, 0, a, 0, 0, Nil))
  \/ \E op \in opcodes \cap Jumps, a \in Temporaries, to \in 0 .. Length[opcodes] : Emit(Inst(op, 0, a, 0, to, Nil))
  \/ \E l \in 0 .. Length[opcodes] : Emit(Inst("Label", 0, 0, 0, l, Nil))

\* Every function ends with a return; then optimize starts.
EmitReturn ==
  /\ pass = "emit"
  /\ \E a \in Temporaries : emitted' = Append(emitted, Inst("Return", 0, a, 0, 0, Nil))
  /\ instructions' = emitted' /\ pass' = "unreachable" /\ pass_count' = 1
  /\ UNCHANGED << opcodes, pass_changed >>

\* A pass over the whole function.
Run_(from, to, result) ==
  /\ pass = from /\ pass' = to /\ instructions' = result
  /\ pass_changed' = (pass_changed \/ result # instructions)
  /\ UNCHANGED << emitted, opcodes, pass_count >>

NextRound ==
  /\ pass = "end" /\ pass_changed /\ pass_count < MAX_PASSES
  /\ pass' = "unreachable" /\ pass_changed' = FALSE /\ pass_count' = pass_count + 1
  /\ UNCHANGED << emitted, instructions, opcodes >>

Unreachable == Run_("unreachable", "fold", remove_unreachable_code(instructions))
Fold        == Run_("fold", "peephole", constant_folding(instructions))
PeepholePass == Run_("peephole", "dead", peephole_optimize(instructions))
DeadCode    == Run_("dead", "end", Compact(dead_code_elimination(instructions)))

LirNext == EmitAny \/ EmitReturn \/ NextRound \/ Unreachable \/ Fold \/ PeepholePass \/ DeadCode

------------------------------------------------------------------------------
\* What an instruction computes from its operands; a Boolean counts as 0 or 1, as it prints.
Value(inst, x, y) ==
  LET B(p) == IF p THEN 1 ELSE 0
  IN CASE inst.op = "LoadConst" -> inst.const_val.n
       [] inst.op = "Mov" -> x
       [] inst.op = "Neg" -> -x
       [] inst.op \in Arithmetic -> IF inst.op \in {"Div", "Mod"} /\ y = 0 THEN 0 ELSE Calculate(inst.op, x, y)
       [] inst.op = "CmpEQ" -> B(x = y)
       [] inst.op = "CmpNEQ" -> B(x # y)
       [] inst.op = "CmpLT" -> B(x < y)
       [] inst.op = "CmpLE" -> B(x <= y)
       [] inst.op = "CmpGT" -> B(x > y)
       [] inst.op = "CmpGE" -> B(x >= y)
       [] inst.op = "And" -> x & y
       [] inst.op = "Or"  -> x | y
       [] inst.op = "Xor" -> x ^^ y

\* What a run of the function prints, with the value it returns at the end.
RECURSIVE Behaviour(_, _, _, _, _)
Behaviour(s, pc, regs, out, fuel) ==
  IF fuel = 0 \/ pc > Len(s) THEN out
  ELSE LET x == s[pc]
           goto == IF \/ x.op = "Jump"
                      \/ x.op = "JumpIf" /\ regs[x.a] # 0
                      \/ x.op = "JumpIfFalse" /\ regs[x.a] = 0
                   THEN x.imm + 1 ELSE pc + 1
       IN CASE x.op \in Returns -> Append(out, regs[x.a])
            [] x.op \in Jumps \cup {"Label"} -> Behaviour(s, goto, regs, out, fuel - 1)
            [] x.op = "PrintInt" -> Behaviour(s, goto, regs, Append(out, regs[x.a]), fuel - 1)
            [] OTHER -> Behaviour(s, goto, [regs EXCEPT ![x.dst] = Value(x, regs[x.a], regs[x.b])], out, fuel - 1)

Observed(s) ==
  Behaviour(s, 1, [r \in None .. Length[opcodes] + 1 |-> IF r = 0 THEN PARAMETER ELSE 0], <<>>, FUEL)

\* The functions all passes are safe for: no jumps, and at most one instruction reads a temporary.
ReadBy(r) == {i \in DOMAIN emitted : r \in {emitted[i].a, emitted[i].b}}
SingleUse ==
  /\ \A i \in DOMAIN emitted : emitted[i].op \notin Jumps
  /\ \A r \in Temporaries \ {0} : Cardinality(ReadBy(r)) <= 1

\* No pass changes what a function prints and returns: the removal of unreachable code, for any
\* jumps; and every pass, in every round, for straight code that reads no temporary twice.
PassesPreserve ==
  [][pass # "emit" /\ (pass = "unreachable" \/ SingleUse) => Observed(instructions') = Observed(instructions)]_lirVars
==============================================================================
