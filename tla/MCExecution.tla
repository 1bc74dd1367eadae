------------------------------ MODULE MCExecution ------------------------------
(***************************************************************************)
(* Bounds for the run time: programs of a few opcodes each for the         *)
(* register machine, calls on one dict and on one tuple, clients of the    *)
(* memory library.  A behaviour is one of one of the four.                 *)
(***************************************************************************)
EXTENDS RegisterVM, Containers, MemoryManager

LOCAL INSTANCE Bitwise

VARIABLE subject

BitwiseDef(op, x, y) == CASE op = "And" -> x & y
                          [] op = "Or"  -> x | y
                          [] op = "Xor" -> x ^^ y

ProgramsDef == {
  {"LoadConst", "Add", "Mul", "Neg", "Sub", "CmpLT"},
  {"LoadConst", "Add", "Mul"},
  {"LoadConst", "Mul", "Div", "DecMod", "DecRescale", "Mod", "CmpEQ", "CmpLE"},
  {"LoadConst", "DecAdd", "DecSub", "DecMul", "DecDiv", "DecNeg", "CmpNEQ", "CmpGT", "CmpGE"},
  {"LoadConst", "Mul", "And", "Or", "Xor", "Cast", "PrintInt", "PrintFloat", "PrintBool"},
  {"LoadConst", "Mov", "Add", "Call", "Ret", "Return"},
  {"LoadConst", "CallIndirect", "Ret", "CallVoid", "LoadGlobal", "StoreGlobal", "ToString", "STR_CONCAT", "PrintString"},
  {"LoadConst", "ChannelAlloc", "ChannelSend", "ChannelRecv", "ChannelClose", "ChannelHasData"},
  {"ChannelAlloc", "ChannelSend", "ChannelRecv", "ChannelOffer", "ChannelPoll"},
  {"LoadConst", "ListCreate", "ListAppend", "ListLen", "ListIndex", "PrintString"},
  {"LoadConst", "TupleCreate", "TupleSet", "TupleGet", "MakeEnum", "GetTag", "GetPayload"},
  {"LoadConst", "NewFrame", "FrameGetField", "FrameSetField", "FrameGetFieldAtomic", "FrameSetFieldAtomic", "IsError"}}

Long == {p \in ProgramsDef : p \cap {"ChannelPoll", "Add"} # {} /\ Cardinality(p) < 6}
LengthDef == [p \in ProgramsDef |-> IF p \in Long THEN 5 ELSE 4]
ConstantsDef == {BOX_INT(3), BOX_INT(-32), BOX_INT(4), VAL_BOOL(TRUE), [k |-> "string", s |-> "f"]}
StringHashDef == [s \in {"f", "g"} |-> IF s = "f" THEN 38 ELSE 22]

\* Keys that share a bucket or a hash: 0 with TRUE, and a string (at two addresses) with an
\* integer of 128 bits.
ObjectsDef    == << Obj("BOX_STRING", "f"), Obj("BOX_STRING", "f"), Obj("I128", 70) >>
DictKeysDef   == {BOX_INT(0), VAL_BOOL(TRUE)} \cup {BOX_PTR(p) : p \in DOMAIN ObjectsDef}
DictValuesDef == {VAL_NIL, BOX_INT(1)}

\* The variables that hold handles are interchangeable.
Symmetry == Permutations(Slots)

Init == /\ VmInit /\ ContainersInit /\ MemoryInit
        /\ subject \in {"machine", "dict", "tuple", "memory"}
        /\ subject # "machine" => ops = CHOOSE p \in ProgramsDef : TRUE
        /\ subject # "memory" => auditMode
Next == \/ subject = "machine" /\ VmNext /\ UNCHANGED << containerVars, memoryVars, subject >>
        \/ subject = "dict" /\ DictNext /\ UNCHANGED << vmVars, memoryVars, subject >>
        \/ subject = "tuple" /\ TupleNext /\ UNCHANGED << vmVars, memoryVars, subject >>
        \/ subject = "memory" /\ MemoryNext /\ UNCHANGED << vmVars, containerVars, subject >>
Spec == Init /\ [][Next]_<< vmVars, containerVars, memoryVars, subject >>
==============================================================================
