------------------------------ MODULE RegisterVM ------------------------------
(***************************************************************************)
(* The register machine (src/backend/vm): one action for each execute_*    *)
(* function.  The machine runs any sequence of instructions with opcodes   *)
(* of one of the programs, up to the length given for it; the jumps that   *)
(* choose the next instruction are in LirFlatten.  A callee runs another   *)
(* such sequence.                                                          *)
(*                                                                         *)
(* An instruction that reads an object of one type as another has no       *)
(* meaning in C; the type checker is trusted to rule it out (Of).          *)
(***************************************************************************)
EXTENDS RuntimeValue, Channel

CONSTANTS Reg,              \* the registers, 0 .. n
          Length,           \* a function from sets of opcodes (the programs) to a bound on the instructions run
          Constants,        \* the values of LoadConst: numbers, strings, Booleans
          FunctionNames, GlobalNames,
          CAPACITY,         \* of the channels the generator allocates
          MAX_OBJECTS,
          Bitwise(_, _, _)  \* what the instructions And, Or and Xor do to two words

\* A constant is what its kind says.  The last line is arithmetic: one bit more doubles a power of 2.
ASSUME MachineAssumption ==
  /\ 0 \in Reg /\ Reg \subseteq Nat
  /\ \A c \in Constants : /\ c.k = "int" => c.n \in Int /\ c = BOX_INT(c.n)
                          /\ c.k = "bool" => c.b \in BOOLEAN /\ c = VAL_BOOL(c.b)
  /\ CAPACITY \in Nat
  /\ 2^(I128_BITS - 1) \in Nat \ {0} /\ 2^I128_BITS = 2 * 2^(I128_BITS - 1)

VARIABLES registers, globals_, heap,
          calls,            \* the suspended callers: their registers and the destination
          ops,              \* the opcodes of the program that runs
          instruction_count, halted,
          output,           \* the last line printed
          returned,         \* history: the operand of the last Return and the value it left behind
          exact             \* history: the number or Boolean each register stands for, nil when unknown

vmVars == << registers, globals_, heap, calls, ops, instruction_count, halted, output, returned, exact >>

\* get_current_fiber: the one fiber of the machine was never started.
dummy_fiber == [f \in {0} |-> "CREATED"]

VmInit ==
  /\ registers = [r \in Reg |-> VAL_NIL] /\ exact = [r \in Reg |-> VAL_NIL]
  /\ globals_ = [g \in {} |-> VAL_NIL]
  /\ heap = <<>> /\ calls = <<>> /\ instruction_count = 0 /\ halted = FALSE /\ output = ""
  /\ returned = << VAL_NIL, VAL_NIL >>
  /\ ops \in DOMAIN Length

\* The next instruction of the loop has opcode op.
Fetch(op) ==
  /\ ~halted /\ op \in ops /\ instruction_count < Length[ops] /\ Len(heap) < MAX_OBJECTS
  /\ instruction_count' = instruction_count + 1
  /\ UNCHANGED << ops, halted, returned >>

Local == UNCHANGED << globals_, calls, output >>

\* dst becomes hv.v, which stands for the number e.
Write(dst, hv, e) ==
  /\ registers' = [registers EXCEPT ![dst] = hv.v]
  /\ heap' = hv.h
  /\ exact' = [exact EXCEPT ![dst] = e]

\* Register a holds a pointer to an object of the type, or no pointer.
Of(a, type) == IS_PTR(registers[a]) => registers[a].at \in DOMAIN heap /\ type_id(heap, registers[a]) = type
Number(a)   == IS_PTR(registers[a]) => type_id(heap, registers[a]) \in {"I64", "I128", "FLOAT", "BOX_STRING"}

Object(a) == heap[registers[a].at]
Store(at, o) == heap' = [heap EXCEPT ![at] = o] /\ UNCHANGED << registers, exact >>
Skip == UNCHANGED << registers, heap, exact >>

\* The generator builds constants with compiler_value_to_backend_value: integers of 64 bits,
\* strings and Booleans; every other constant is nil.
LoadConst(dst, c) ==
  /\ Fetch("LoadConst") /\ Local
  /\ CASE c.k = "int"    -> Write(dst, make_i64(heap, c.n), c)
       [] c.k = "bool"   -> Write(dst, Same(heap, c), c)
       [] c.k = "string" -> Write(dst, lm_box_string(heap, c.s), VAL_NIL)
       [] OTHER          -> Write(dst, Same(heap, VAL_NIL), VAL_NIL)

Mov(dst, a) == Fetch("Mov") /\ Local /\ Write(dst, Same(heap, registers[a]), exact[a])

------------------------------------------------------------------------------
\* What the source program means by an operation on two integers, nil when it overflows.
Meaning(op, a, b) ==
  LET n == CASE op \in {"Add", "DecAdd"} -> exact[a].n + exact[b].n
             [] op \in {"Sub", "DecSub"} -> exact[a].n - exact[b].n
             [] op \in {"Mul", "DecMul"} -> exact[a].n * exact[b].n
             [] op \in {"Div", "DecDiv"} ->
                  LET s == IF exact[b].n < 0 THEN -1 ELSE 1
                  IN IF exact[b].n = 0 THEN 2^I128_BITS ELSE Truncated(<< s * exact[a].n, s * exact[b].n >>)
             [] op \in {"Neg", "DecNeg"} -> -exact[a].n
             [] OTHER -> 2^I128_BITS
  IN IF exact[a].k = "int" /\ exact[b].k = "int"
     THEN IF n \in Signed(I128_BITS) THEN BOX_INT(n) ELSE VAL_NIL
     ELSE VAL_NIL

\* Mod has no case and leaves the destination alone.
execute_arithmetic(op, dst, a, b) ==
  LET x == registers[a]  y == registers[b]
  IN /\ Fetch(op) /\ Local /\ Number(a) /\ Number(b)
     /\ CASE op \in {"Add", "DecAdd"} -> Write(dst, lm_add(heap, x, y), Meaning(op, a, b))
          [] op \in {"Sub", "DecSub"} -> Write(dst, lm_sub(heap, x, y), Meaning(op, a, b))
          [] op \in {"Mul", "DecMul"} -> Write(dst, lm_mul(heap, x, y), Meaning(op, a, b))
          [] op \in {"Div", "DecDiv"} -> Write(dst, lm_div(heap, x, y), Meaning(op, a, b))
          [] op \in {"Neg", "DecNeg"} -> Write(dst, lm_sub(heap, BOX_INT(0), x), Meaning(op, a, a))
          [] op = "DecMod"            -> Write(dst, Same(heap, VAL_NIL), VAL_NIL)
          [] op = "DecRescale"        -> Write(dst, Same(heap, x), exact[a])
          [] op = "Mod"               -> Skip

Compared(op, less, equal) ==
  CASE op = "CmpEQ" -> equal
    [] op = "CmpNEQ" -> ~equal
    [] op = "CmpLT" -> less
    [] op = "CmpLE" -> less \/ equal
    [] op = "CmpGT" -> ~less /\ ~equal
    [] op = "CmpGE" -> ~less

execute_comparison(op, dst, a, b) ==
  LET cmp == numeric_compare(heap, registers[a], registers[b])
      known == exact[a].k = "int" /\ exact[b].k = "int"
  IN /\ Fetch(op) /\ Local /\ Number(a) /\ Number(b)
     /\ Write(dst, Same(heap, VAL_BOOL(Compared(op, cmp < 0, cmp = 0))),
              IF known THEN VAL_BOOL(Compared(op, exact[a].n < exact[b].n, exact[a].n = exact[b].n)) ELSE VAL_NIL)

\* The operands are cut to 64 bits.
execute_bitwise(op, dst, a, b) ==
  LET x == as_i64(heap, registers[a]) % (2^I64_BITS)
      y == as_i64(heap, registers[b]) % (2^I64_BITS)
  IN /\ Fetch(op) /\ Local /\ Number(a) /\ Number(b)
     /\ Write(dst, make_i64(heap, Wrap(Bitwise(op, x, y), I64_BITS)), VAL_NIL)

execute_cast(type, dst, a) ==
  LET v == registers[a]
  IN /\ Fetch("Cast") /\ Local /\ Number(a)
     /\ CASE type = "I64"  -> Write(dst, make_i64(heap, as_i64(heap, v)), VAL_NIL)
          [] type = "F64"  -> Write(dst, make_float(heap, as_float(heap, v)), VAL_NIL)
          [] type = "Bool" -> Write(dst, Same(heap, VAL_BOOL(to_bool(heap, v))),
                                    IF exact[a].k = "int" THEN VAL_BOOL(exact[a].n # 0) ELSE exact[a])
          [] OTHER -> Skip

\* Strings are pairs of texts; what concatenation does is put them one after the other.
execute_strings(op, dst, a, b) ==
  LET s == format_value(heap, registers[a])  t == format_value(heap, registers[b])
  IN /\ Fetch(op) /\ Local
     /\ Write(dst, lm_box_string(heap, IF op = "ToString" THEN s ELSE s \o t), VAL_NIL)

execute_io(op, a) ==
  LET v == registers[a]
  IN /\ Fetch(op) /\ Skip /\ UNCHANGED << globals_, calls >>
     /\ output' = CASE op \in {"PrintInt", "PrintUint"} -> ToString(as_i64(heap, v))
                    [] op = "PrintFloat"  -> ToString(as_float(heap, v))
                    [] op = "PrintBool"   -> ToString(to_bool(heap, v))
                    [] op = "PrintString" -> format_value(heap, v)

------------------------------------------------------------------------------
\* ListIndex, the operations on dicts and TupleLen have no case.
execute_collections(op, dst, a, b) ==
  /\ Fetch(op) /\ Local
  /\ CASE op = "ListCreate" -> Write(dst, Alloc(heap, [type |-> "LIST", data |-> <<>>]), VAL_NIL)
       [] op = "ListAppend" -> /\ Of(a, "LIST")
                               /\ IF IS_PTR(registers[a])
                                  THEN Store(registers[a].at, lm_list_append(Object(a), registers[b])) ELSE Skip
       [] op = "ListLen"    -> /\ Of(a, "LIST")
                               /\ IF IS_PTR(registers[a])
                                  THEN Write(dst, make_i64(heap, Len(Object(a).data)), BOX_INT(Len(Object(a).data))) ELSE Skip
       [] op = "TupleCreate" -> Write(dst, Alloc(heap, lm_tuple_new(a)), VAL_NIL)
       [] op = "TupleSet"   -> /\ Of(dst, "TUPLE")
                               /\ IF IS_PTR(registers[dst])
                                  THEN Store(registers[dst].at, lm_tuple_set(Object(dst), a, registers[b])) ELSE Skip
       [] op = "TupleGet"   -> /\ Of(a, "TUPLE")
                               /\ IF IS_PTR(registers[a])
                                  THEN Write(dst, Same(heap, lm_tuple_get(Object(a), b)), VAL_NIL) ELSE Skip
       [] OTHER -> Skip

\* The machine has one thread, so the mutex of the atomic forms is free.  ConstructError,
\* ConstructOk, IsError and Unwrap come here too, and have no case.
execute_frames(op, dst, a, b) ==
  /\ Fetch(op) /\ Local
  /\ CASE op = "NewFrame" -> Write(dst, Alloc(heap, lm_frame_alloc("Frame", a)), VAL_NIL)
       [] op \in {"FrameGetField", "FrameGetFieldAtomic"} ->
            /\ Of(a, "FRAME")
            /\ IF IS_PTR(registers[a]) THEN Write(dst, Same(heap, lm_frame_get_field(Object(a), b)), VAL_NIL) ELSE Skip
       [] op \in {"FrameSetField", "FrameSetFieldAtomic"} ->
            /\ Of(dst, "FRAME")
            /\ IF IS_PTR(registers[dst]) THEN Store(registers[dst].at, lm_frame_set_field(Object(dst), a, registers[b])) ELSE Skip
       [] OTHER -> Skip

\* An enum is a frame of a tag and a payload.
execute_objects(op, dst, a, b) ==
  /\ Fetch(op) /\ Local
  /\ CASE op = "MakeEnum" ->
            Write(dst, Alloc(heap, [lm_frame_alloc("__lir_internal_enum__", 2)
                                      EXCEPT !.fields = << BOX_INT(a), registers[b] >>]), VAL_NIL)
       [] op = "GetTag" ->
            /\ Of(a, "FRAME")
            /\ IF IS_PTR(registers[a]) THEN Write(dst, Same(heap, lm_frame_get_field(Object(a), 0)), VAL_NIL) ELSE Skip
       [] op = "GetPayload" ->
            /\ Of(a, "FRAME")
            /\ IF IS_PTR(registers[a]) THEN Write(dst, Same(heap, lm_frame_get_field(Object(a), 1)), VAL_NIL) ELSE Skip

\* The globals, with global g set to v.
WithGlobal(g, v) == [x \in DOMAIN globals_ \cup {g} |-> IF x = g THEN v ELSE globals_[x]]

\* A global that was never stored is created by the load, as the word 0.
LoadGlobal(dst, g) ==
  LET v == IF g \in DOMAIN globals_ THEN globals_[g] ELSE VAL_ZERO
  IN /\ Fetch("LoadGlobal") /\ Write(dst, Same(heap, v), VAL_NIL)
     /\ globals_' = WithGlobal(g, v) /\ UNCHANGED << calls, output >>

StoreGlobal(g, a) ==
  /\ Fetch("StoreGlobal") /\ Skip
  /\ globals_' = WithGlobal(g, registers[a]) /\ UNCHANGED << calls, output >>

------------------------------------------------------------------------------
\* ChannelOffer and ChannelPoll have no case.
execute_concurrency(op, dst, a, b) ==
  /\ Fetch(op) /\ Local
  /\ CASE op = "ChannelAlloc" -> Write(dst, Alloc(heap, NewChannel(CAPACITY)), VAL_NIL)
       [] op = "ChannelSend" ->
            /\ Of(a, "CHANNEL")
            /\ IF IS_PTR(registers[a])
               THEN Store(registers[a].at, send(Object(a), dummy_fiber, registers[b], 0).c) ELSE Skip
       [] op = "ChannelRecv" ->
            /\ Of(a, "CHANNEL")
            /\ IF IS_PTR(registers[a])
               THEN LET r == recv(Object(a), dummy_fiber, 0)
                    IN Write(dst, [h |-> [heap EXCEPT ![registers[a].at] = r.c],
                                   v |-> IF r.ok THEN Head(Object(a).buffer) ELSE VAL_ZERO], VAL_NIL)
               ELSE Skip
       [] op = "ChannelClose" ->
            /\ Of(a, "CHANNEL")
            /\ IF IS_PTR(registers[a]) THEN Store(registers[a].at, close(Object(a), dummy_fiber).c) ELSE Skip
       [] op = "ChannelHasData" ->
            /\ Of(a, "CHANNEL")
            /\ IF IS_PTR(registers[a]) THEN Write(dst, Same(heap, VAL_BOOL(has_data(Object(a)))), VAL_NIL) ELSE Skip
       [] OTHER -> Skip

------------------------------------------------------------------------------
\* The callee starts with the arguments in the first registers and nil in all the others.
Enter(dst, args) ==
  LET First(f) == [r \in Reg |-> IF r < Len(args) THEN f[args[r + 1]] ELSE VAL_NIL]
  IN /\ calls' = Append(calls, [registers |-> registers, exact |-> exact, dst |-> dst])
     /\ registers' = First(registers) /\ exact' = First(exact)
     /\ UNCHANGED << globals_, heap, output >>

\* A name that is no function is skipped; assert only prints.
Call(dst, f, args) ==
  /\ Fetch("Call")
  /\ IF f \in FunctionNames THEN Enter(dst, args) ELSE Skip /\ Local

CallIndirect(dst, a, args) ==
  /\ Fetch("CallIndirect")
  /\ IF type_id(heap, registers[a]) = "BOX_STRING" /\ Object(a).x \in FunctionNames
     THEN Enter(dst, args) ELSE Skip /\ Local

\* CallVoid and CallBuiltin have no case, and neither have the opcodes that the loop does not list.
NoCase(op) == Fetch(op) /\ Local /\ Skip

\* The callee ends with value v, known to be e, in register 0: execute_calls goes on.
Leave(v, e) ==
  IF calls = <<>>
  THEN /\ halted' = TRUE /\ registers' = [registers EXCEPT ![0] = v] /\ exact' = [exact EXCEPT ![0] = e]
       /\ UNCHANGED calls
  ELSE LET c == calls[Len(calls)]
       IN /\ registers' = [c.registers EXCEPT ![c.dst] = v]
          /\ exact' = [c.exact EXCEPT ![c.dst] = e]
          /\ calls' = SubSeq(calls, 1, Len(calls) - 1)
          /\ UNCHANGED halted

\* Ret moves its operand to register 0, Return does not.
Return(op, a) ==
  /\ ~halted /\ op \in ops /\ instruction_count < Length[ops]
  /\ instruction_count' = instruction_count + 1
  /\ IF op = "Ret" THEN Leave(registers[a], exact[a]) ELSE Leave(registers[0], exact[0])
  /\ returned' = << registers[a], IF op = "Ret" THEN registers[a] ELSE registers[0] >>
  /\ UNCHANGED << globals_, heap, ops, output >>

\* A function falls off its end.  The loop also stops at MAX_INSTRUCTIONS, and then every caller
\* stops in the same way before its next instruction.
EndOfFunction ==
  /\ ~halted /\ Leave(registers[0], exact[0])
  /\ UNCHANGED << globals_, heap, ops, output, returned, instruction_count >>

------------------------------------------------------------------------------
ArithmeticOps == {"Add", "Sub", "Mul", "Div", "Mod", "Neg", "DecAdd", "DecSub", "DecMul", "DecDiv", "DecMod", "DecNeg", "DecRescale"}
Comparisons == {"CmpEQ", "CmpNEQ", "CmpLT", "CmpLE", "CmpGT", "CmpGE"}
Collections == {"ListCreate", "ListAppend", "ListLen", "ListIndex", "DictCreate", "DictSet", "DictGet", "DictHas", "DictLen",
                "TupleCreate", "TupleSet", "TupleGet", "TupleLen"}
Frames      == {"NewFrame", "ConstructError", "ConstructOk", "IsError", "Unwrap",
                "FrameGetField", "FrameSetField", "FrameGetFieldAtomic", "FrameSetFieldAtomic"}
ChannelOps  == {"ChannelAlloc", "ChannelSend", "ChannelOffer", "ChannelRecv", "ChannelPoll", "ChannelClose", "ChannelHasData"}

VmNext ==
  \/ \E dst \in Reg, c \in Constants : LoadConst(dst, c)
  \/ \E dst, a \in Reg : Mov(dst, a)
  \/ \E op \in ops \cap ArithmeticOps, dst, a, b \in Reg : execute_arithmetic(op, dst, a, b)
  \/ \E op \in ops \cap Comparisons, dst, a, b \in Reg : execute_comparison(op, dst, a, b)
  \/ \E op \in ops \cap {"And", "Or", "Xor"}, dst, a, b \in Reg : execute_bitwise(op, dst, a, b)
  \/ \E type \in {"I64", "F64", "Bool", "Ptr"}, dst, a \in Reg : execute_cast(type, dst, a)
  \/ \E op \in ops \cap {"ToString", "STR_CONCAT"}, dst, a, b \in Reg : execute_strings(op, dst, a, b)
  \/ \E op \in ops \cap {"PrintInt", "PrintUint", "PrintFloat", "PrintBool", "PrintString"}, a \in Reg : execute_io(op, a)
  \/ \E op \in ops \cap Collections, dst, a, b \in Reg : execute_collections(op, dst, a, b)
  \/ \E op \in ops \cap Frames, dst, a, b \in Reg : execute_frames(op, dst, a, b)
  \/ \E op \in ops \cap {"MakeEnum", "GetTag", "GetPayload"}, dst, a, b \in Reg : execute_objects(op, dst, a, b)
  \/ \E dst \in Reg, g \in GlobalNames : LoadGlobal(dst, g) \/ StoreGlobal(g, dst)
  \/ \E op \in ops \cap ChannelOps, dst, a, b \in Reg : execute_concurrency(op, dst, a, b)
  \/ \E dst \in Reg, f \in FunctionNames \cup {"assert"}, args \in {<<>>} \cup Reg \X Reg : Call(dst, f, args)
  \/ \E dst, a \in Reg, args \in {<<>>} \cup Reg \X Reg : CallIndirect(dst, a, args)
  \/ \E op \in ops \cap {"CallVoid", "CallBuiltin", "STR_FORMAT", "SchedulerInit"} : NoCase(op)
  \/ \E op \in ops \cap {"Return", "Ret"}, a \in Reg : Return(op, a)
  \/ EndOfFunction

VmSpec == VmInit /\ [][VmNext]_vmVars

------------------------------------------------------------------------------
\* Every register holds what the source program computed: an integer, however it is boxed, a
\* Boolean of a comparison of integers, or the result of a call, across calls and returns.  A
\* value is lost (nil) only when it does not fit in 128 bits.
NumbersExact ==
  \A r \in Reg :
    /\ exact[r].k = "int" => is_integer(heap, registers[r]) /\ as_i128(heap, registers[r]) = exact[r].n
    /\ exact[r].k = "bool" => registers[r] = exact[r]

\* Channels deliver the values they stored once each and in order, and never hold more than
\* their capacity, through every mix of send, recv and close.
ChannelFifo ==
  \A p \in DOMAIN heap : heap[p].type = "CHANNEL" =>
    /\ heap[p].stored = heap[p].taken \o heap[p].buffer
    /\ Len(heap[p].buffer) <= heap[p].capacity

\* A send on a full channel waits for room (lir.hh, "Blocks sender if channel is full"): of the
\* values given to an open channel at most the one of the blocked sender is not stored.
SendsBlock ==
  \A p \in DOMAIN heap : heap[p].type = "CHANNEL" => heap[p].given <= Len(heap[p].stored) + 1

\* A call delivers the value of the callee's return expression (guide.md, "Functions can return a
\* value using the `return` keyword").
ReturnsValue == returned[1] = returned[2]
==============================================================================
