--------------------------- MODULE ExpressionLowering ---------------------------
(***************************************************************************)
(* The lowering of expressions to LIR (src/lir/generator/expressions.cpp): *)
(* emit_expr turns a typed expression into instructions, which are then    *)
(* executed, next to a direct evaluation of the expression.                *)
(*                                                                         *)
(* Expressions and values are tuples that start with their kind.  A string *)
(* is a sequence of characters; a float is a whole number with a tag.  The *)
(* basic blocks of the code are already in the order of                    *)
(* flatten_cfg_to_instructions.  Expressions are well typed, decimals,     *)
(* powers and the error operators are left out.  An instruction does what  *)
(* lir.hh says of it, and yields nil for operands it is not made for.      *)
(***************************************************************************)
EXTENDS Integers, FiniteSetsExt, SequencesExt

CONSTANTS Expressions,       \* the expressions to lower
          VarTypes,          \* the variables in scope: a function from names to types
          VarOrder,          \* their order, which is the order of their registers
          Start,             \* their values
          Heap0,             \* the objects the values refer to
          Frames             \* a function from the names of frames to their declarations

VARIABLES expr,              \* the expression
          concurrent,        \* is_in_concurrency_context()
          code, result,      \* the instructions, and the register of the result
          pc, regs, heap, pending,
          trace              \* the calls made, with the values of their arguments

vars == << expr, concurrent, code, result, pc, regs, heap, pending, trace >>

Nil     == << "nil", 0 >>
Num(n)  == << "int", n >>
Bool(p) == << "bool", p >>
Text(s) == << "str", s >>
Ref(a)  == << "ref", a >>
MARK    == "%s"              \* the marker of STR_FORMAT

Compound == {"+=", "-=", "*=", "/=", "%="}
OpOf(op) == CASE op = "+=" -> "Add" [] op = "-=" -> "Sub" [] op = "*=" -> "Mul" [] op = "/=" -> "Div" [] op = "%=" -> "Mod"
BinaryOp(op) ==
  CASE op = "+" -> "Add" [] op = "-" -> "Sub" [] op = "*" -> "Mul" [] op = "/" -> "Div" [] op = "%" -> "Mod"
    [] op = "==" -> "CmpEQ" [] op = "!=" -> "CmpNEQ" [] op = "<" -> "CmpLT" [] op = "<=" -> "CmpLE"
    [] op = ">" -> "CmpGT" [] op = ">=" -> "CmpGE" [] op = "^" -> "Xor"
Arithmetic  == {"+", "-", "*", "/", "%"}
Comparisons == {"==", "!=", "<", "<=", ">", ">="}

\* The type the type checker inferred (inferred_type).
RECURSIVE InferredType(_)
InferredType(e) ==
  CASE e[1] = "lit" -> e[3]
    [] e[1] = "var" -> IF e[2] \in DOMAIN VarTypes THEN VarTypes[e[2]] ELSE "Function"
    [] e[1] = "new" -> e[2]
    [] e[1] = "interp" -> "String"
    [] e[1] = "group" -> InferredType(e[2])
    [] e[1] = "un" -> InferredType(e[3])
    [] e[1] = "cast" -> e[3]
    [] e[1] = "call" -> e[4]
    [] e[1] = "assign" -> VarTypes[e[3]]
    [] e[1] = "bin" /\ e[2] \in Arithmetic ->
         LET ts == {InferredType(e[3]), InferredType(e[4])}
         IN IF "String" \in ts THEN "String" ELSE IF "Float64" \in ts THEN "Float64" ELSE "Int64"
    [] e[1] = "bin" /\ e[2] \notin Arithmetic -> "Bool"
    [] e[1] = "index" -> IF InferredType(e[2]) = "String" THEN "String" ELSE "Int64"
    [] e[1] = "member" -> "Int64"
    [] OTHER -> "Any"
IsFrame(t) == t \in DOMAIN Frames

------------------------------------------------------------------------------
\* What the generator keeps: the code, the next register, and two maps with what it knows of the types
\* of registers, register_types_ and register_language_types_.  Declarations and reads of a variable
\* fill in both.
Generator ==
  LET types == [r \in 0 .. Len(VarOrder) - 1 |-> VarTypes[VarOrder[r + 1]]]
  IN [code |-> <<>>, next |-> Len(VarOrder), type |-> types, lang |-> types, conc |-> concurrent]

R(g, r) == [g |-> g, r |-> r]
RegOf(name) == CHOOSE i \in 0 .. Len(VarOrder) - 1 : VarOrder[i + 1] = name

NoRegister == -1             \* UINT32_MAX
Inst(op, dst, a, b)     == [op |-> op, dst |-> dst, a |-> a, b |-> b, v |-> Nil, imm |-> 0, args |-> <<>>, name |-> ""]
LoadConst(dst, v)       == [Inst("LoadConst", dst, 0, 0) EXCEPT !.v = v]
JumpTo(op, a, imm)      == [Inst(op, 0, a, 0) EXCEPT !.imm = imm]
CallTo(dst, name, args) == [Inst("Call", dst, 0, 0) EXCEPT !.name = name, !.args = args]
Sized(op, dst, n)       == [Inst(op, dst, 0, 0) EXCEPT !.imm = n]

emit_instruction(g, inst) == [g EXCEPT !.code = Append(@, inst)]
EmitAll(g, insts)         == [g EXCEPT !.code = @ \o insts]

Null == "Null"
set_register_type(g, r, t)          == [g EXCEPT !.type = (r :> t) @@ @]
get_register_type(g, r)             == IF r \in DOMAIN g.type THEN g.type[r] ELSE Null
set_register_language_type(g, r, t) == [g EXCEPT !.lang = (r :> t) @@ @]
get_register_language_type(g, r)    == IF r \in DOMAIN g.lang THEN g.lang[r] ELSE Null

\* allocate_register and an instruction with that register; then the maps that learn its type.
Define(g, I(_)) == R(emit_instruction([g EXCEPT !.next = @ + 1], I(g.next)), g.next)
Typed(x, t)  == R(set_register_type(x.g, x.r, t), x.r)
Spoken(x, t) == R(set_register_language_type(x.g, x.r, t), x.r)
Both(x, t)   == Spoken(Typed(x, t), t)

get_type_rank(t) == CASE t = "Int32" -> 3 [] t \in {"Int", "Int64", "UInt64"} -> 4 [] t = "Float64" -> 7 [] t = "String" -> 8 [] OTHER -> 0
is_signed_integer_type(t) == t \in {"Int", "Int32", "Int64"}
get_unsigned_version(t) == IF t = "Int32" THEN "UInt32" ELSE "UInt64"
IsInt(t) == is_signed_integer_type(t) \/ t \in {"UInt32", "UInt64"}

get_promoted_numeric_type(a, b) ==
  LET higher == IF get_type_rank(a) > get_type_rank(b) THEN a ELSE b
      lower  == IF get_type_rank(a) > get_type_rank(b) THEN b ELSE a
      signed == is_signed_integer_type(higher)
  IN CASE Null \in {a, b} -> "Int64"
       [] Null \notin {a, b} /\ "String" \in {a, b} -> "String"
       [] {Null, "String"} \cap {a, b} = {} /\ "Float64" \in {a, b} -> "Float64"
       [] OTHER -> IF get_type_rank(a) = get_type_rank(b) THEN (IF is_signed_integer_type(a) THEN b ELSE a)
                   ELSE IF signed /\ ~is_signed_integer_type(lower) THEN get_unsigned_version(higher) ELSE higher

RECURSIVE emit_expr(_, _)

EmitArgs_reversed(g, es) ==
  FoldRight(LAMBDA e, st : LET x == emit_expr(st.g, e) IN [g |-> x.g, rs |-> << x.r >> \o st.rs], es, [g |-> g, rs |-> <<>>])

\* Expressions from left to right: the generator and the registers.
EmitArgs(g, es) ==
  FoldLeft(LAMBDA st, e : LET x == emit_expr(st.g, e) IN [g |-> x.g, rs |-> Append(st.rs, x.r)], [g |-> g, rs |-> <<>>], es)

\* The text of a string that looks like a number is parsed as one (stoll, stoull, stold) and printed
\* again: "07" becomes "7", "1-2" becomes "1"; a fraction is printed with 17 digits and an exponent,
\* SCIENTIFIC before the text here, unless it had a signed exponent.
SCIENTIFIC == "%e"
DecimalDigits == {"0", "1", "2", "3", "4", "5", "6", "7", "8", "9"}
LooksNumeric(s) ==
  /\ s # <<>>
  /\ s[1] \in DecimalDigits \cup {"+", "-", "."}
  /\ ToSet(s) \subseteq DecimalDigits \cup {"+", "-", ".", "e", "E", "u", "U", "l", "L", "f", "F"}
WithoutSign(s) == IF s[1] \in {"+", "-"} THEN Tail(s) ELSE s
IntegerText(s) ==
  LET t == WithoutSign(s)
      n == Max({0} \cup {i \in DOMAIN t : ToSet(SubSeq(t, 1, i)) \subseteq DecimalDigits})
      from == Max({i \in 1 .. n : \A j \in 1 .. i - 1 : t[j] = "0"})
      sign == IF s[1] = "-" /\ t[from] # "0" THEN << "-" >> ELSE <<>>
  IN IF n = 0 THEN s ELSE sign \o SubSeq(t, from, n)
FloatText(s) ==
  LET t == WithoutSign(s)
      signed == \E i \in 1 .. Len(s) - 1 : s[i] \in {"e", "E"} /\ s[i + 1] \in {"+", "-"}
      number == t # <<>> /\ (t[1] \in DecimalDigits \/ (Len(t) > 1 /\ t[1] = "." /\ t[2] \in DecimalDigits))
  IN IF number /\ ~signed THEN << SCIENTIFIC >> \o s ELSE s
Reparsed(s) ==
  IF ~LooksNumeric(s) THEN s ELSE IF ToSet(s) \cap {".", "e", "E"} # {} THEN FloatText(s) ELSE IntegerText(s)

\* Only these types have constants at run time.
compiler_value_to_backend_value(v, t) ==
  CASE t \in {"Int", "Int64", "Bool"} -> v
    [] t = "String" -> Text(Reparsed(v[2]))
    [] OTHER -> Nil

emit_literal_expr(g, e) == Both(Define(g, LAMBDA r : LoadConst(r, compiler_value_to_backend_value(e[2], e[3]))), e[3])

\* A variable is its own register, no copy of it; in a task body a shared one is loaded from its
\* cell; the name of a function is a constant.
emit_variable_expr(g, e) ==
  CASE e[2] \notin DOMAIN VarTypes -> Spoken(Define(g, LAMBDA r : LoadConst(r, << "fn", e[2] >>)), "Function")
    [] e[2] \in DOMAIN VarTypes /\ g.conc /\ VarTypes[e[2]] = "Shared" -> Both(Define(g, LAMBDA r : Inst("SharedCellLoad", r, RegOf(e[2]), 0)), "Int64")
    [] OTHER -> Both(R(g, RegOf(e[2])), VarTypes[e[2]])

\* A format with one marker for each expression; one STR_FORMAT after the other fills them in.
emit_interpolated_string_expr(g, parts) ==
  LET IsText(p) == p[1] = "text"
      exprs == SelectSeq(parts, LAMBDA p : ~IsText(p))
      format == FlattenSeq([i \in DOMAIN parts |-> IF IsText(parts[i]) THEN parts[i][2] ELSE << MARK >>])
      args == EmitArgs(g, exprs)
      res == args.g.next
      fmt == res + 1
      n == Len(exprs)
      Chain == << LoadConst(fmt, Text(format)), Inst("STR_FORMAT", res, fmt, args.rs[1]) >>
               \o [i \in 1 .. n - 1 |-> Inst("STR_FORMAT", fmt + i, IF i = 1 THEN res ELSE fmt + i - 1, args.rs[i + 1])]
               \o (IF n > 1 THEN << Inst("Mov", res, fmt + n - 1, 0) >> ELSE <<>>)
  IN IF exprs = <<>> THEN Spoken(Define(g, LAMBDA r : LoadConst(r, Text(format))), "String")
     ELSE Spoken(R([EmitAll(args.g, Chain) EXCEPT !.next = fmt + n], res), "String")

emit_logical(g, e) ==
  LET res == g.next
      left == emit_expr([g EXCEPT !.next = @ + 1], e[3])
      jump == Len(left.g.code) + 2
      right == emit_expr(EmitAll(left.g, << Inst("Mov", res, left.r, 0), JumpTo("Jump?", left.r, 0) >>), e[4])
      end == EmitAll(right.g, << Inst("Mov", res, right.r, 0), JumpTo("Jump", 0, Len(right.g.code) + 3) >>)
      op == IF e[2] = "and" THEN "JumpIfFalse" ELSE "JumpIf"
  IN Spoken(R([end EXCEPT !.code[jump] = JumpTo(op, left.r, Len(end.code) + 1)], res), "Bool")

\* The operand as a string, as far as register_types_ knows.
AsString(x) ==
  IF get_register_type(x.g, x.r) = "String" THEN x ELSE Spoken(Define(x.g, LAMBDA r : Inst("ToString", r, x.r, 0)), "String")

\* A literal of a lower rank than the other operand is emitted again for the other's type; of two with
\* the same rank, in arithmetic the unsigned one, in comparisons the signed one.
Matched(g, lx, rx, l, r, op) ==
  LET lt == get_register_type(g, l)
      rt == get_register_type(g, r)
      applies == Null \notin {lt, rt} /\ (op \in Arithmetic \/ (op \in Comparisons /\ lt # rt))
      Yields(t, u) == \/ get_type_rank(t) < get_type_rank(u)
                      \/ /\ get_type_rank(t) = get_type_rank(u)
                         /\ is_signed_integer_type(t) = (op \in Comparisons)
                         /\ is_signed_integer_type(u) = (op \in Arithmetic)
  IN CASE applies /\ Yields(lt, rt) /\ lx[1] = "lit" -> LET x == emit_literal_expr(g, lx) IN [g |-> x.g, l |-> x.r, r |-> r]
       [] applies /\ Yields(rt, lt) /\ rx[1] = "lit" -> LET x == emit_literal_expr(g, rx) IN [g |-> x.g, l |-> l, r |-> x.r]
       [] OTHER -> [g |-> g, l |-> l, r |-> r]

\* A division is one of integers only if both operands are known to be; else the known ones are cast.
Casted(g, r, other) ==
  IF IsInt(get_register_type(g, r)) /\ ~IsInt(other) THEN Define(g, LAMBDA d : Inst("Cast", d, r, 0)) ELSE R(g, r)

\* The operands of + are emitted to learn their types, and once more unless one is known as a string.
emit_binary_expr(g0, e) ==
  LET op == e[2]
      l1 == emit_expr(g0, e[3])
      r1 == emit_expr(l1.g, e[4])
      strings == op = "+" /\ "String" \in {get_register_type(r1.g, l1.r), get_register_type(r1.g, r1.r)}
      sl == AsString(R(r1.g, l1.r))
      sr == AsString(R(sl.g, r1.r))
      g1 == IF op = "+" THEN r1.g ELSE g0
      l2 == emit_expr(g1, e[3])
      r2 == emit_expr(l2.g, e[4])
      dst == r2.g.next
      gd == [r2.g EXCEPT !.next = @ + 1]
      lt == get_register_type(gd, l2.r)
      rt == get_register_type(gd, r2.r)
      lc == IF op = "/" THEN Casted(gd, l2.r, rt) ELSE R(gd, l2.r)
      rc == IF op = "/" THEN Casted(lc.g, r2.r, lt) ELSE R(lc.g, r2.r)
      clt == get_register_type(rc.g, lc.r)
      crt == get_register_type(rc.g, rc.r)
      m == Matched(rc.g, e[3], e[4], lc.r, rc.r, op)
      t == IF op \in Comparisons THEN "Bool"
           ELSE IF op \in Arithmetic /\ "Float64" \in {clt, crt} THEN "Float64"
           ELSE get_promoted_numeric_type(clt, crt)
  IN CASE op \in {"and", "or"} -> emit_logical(g0, e)
       [] op \notin {"and", "or"} /\ strings -> Spoken(Define(sr.g, LAMBDA r : Inst("STR_CONCAT", r, sl.r, sr.r)), "String")
       [] OTHER -> Typed(R(emit_instruction(m.g, Inst(BinaryOp(op), dst, m.l, m.r)), dst), t)

emit_unary_expr(g, e) ==
  LET x == emit_expr(g, e[3])
      dst == x.g.next
      With(v, op) == R([EmitAll(x.g, << LoadConst(dst + 1, v), Inst(op, dst, x.r, dst + 1) >>) EXCEPT !.next = @ + 2], dst)
      t == get_register_type(x.g, x.r)
  IN CASE e[2] = "-" -> Typed(Define(x.g, LAMBDA r : Inst("Neg", r, x.r, 0)), t)
       [] e[2] = "+" -> Typed(Define(x.g, LAMBDA r : Inst("Mov", r, x.r, 0)), t)
       [] e[2] = "!" -> Typed(With(Bool(TRUE), "CmpNEQ"), "Bool")
       [] e[2] = "~" -> Typed(With(Num(-1), "Xor"), "Int")

------------------------------------------------------------------------------
\* The value first; then the cell of a shared variable, or the register of the variable.
emit_assign_variable(g, e) ==
  LET op == e[2]
      x == emit_expr(g, e[4])
      dst == RegOf(e[3])
      shared == g.conc /\ VarTypes[e[3]] = "Shared"
      cur == x.g.next
      Into(inst, t) == R(set_register_type(emit_instruction(x.g, inst), dst, t), dst)
  IN CASE shared /\ op = "=" -> R(emit_instruction(x.g, Inst("SharedCellStore", 0, dst, x.r)), x.r)
       [] shared /\ op # "=" ->
            R([EmitAll(x.g, << Inst("SharedCellLoad", cur, dst, 0), Inst(OpOf(op), cur + 1, cur, x.r),
                               Inst("SharedCellStore", 0, dst, cur + 1) >>) EXCEPT !.next = @ + 2], cur + 1)
       [] ~shared /\ op = "=" -> Into(Inst("Mov", dst, x.r, 0), get_register_type(x.g, x.r))
       [] ~shared /\ op = "+=" /\ get_register_type(x.g, dst) = "String" -> Into(Inst("STR_CONCAT", dst, dst, x.r), "String")
       [] OTHER -> R(emit_instruction(x.g, Inst(OpOf(op), dst, dst, x.r)), dst)

\* An offset in the declaration of a frame; without a type, in that of any frame that has the field.
FieldOffset(t, name) ==
  LET f == IF IsFrame(t) THEN t ELSE CHOOSE f \in DOMAIN Frames : name \in ToSet(Frames[f].fields)
  IN (CHOOSE i \in DOMAIN Frames[f].fields : Frames[f].fields[i] = name) - 1

\* Only in a concurrency context does the operator of the assignment make a difference.
emit_assign_field(g, e) ==
  LET x == emit_expr(g, e[5])
      o == emit_expr(x.g, e[3])
      t == InferredType(e[3])
      set == CASE g.conc /\ IsFrame(t) /\ e[2] = "="  -> "FrameSetFieldAtomic"
               [] g.conc /\ IsFrame(t) /\ e[2] = "+=" -> "FrameFieldAtomicAdd"
               [] g.conc /\ IsFrame(t) /\ e[2] = "-=" -> "FrameFieldAtomicSub"
               [] OTHER -> "FrameSetField"
  IN R(emit_instruction(o.g, Inst(set, o.r, FieldOffset(t, e[4]), x.r)), x.r)

emit_assign_index(g, e) ==
  LET x == emit_expr(g, e[5])
      o == emit_expr(x.g, e[3])
      k == emit_expr(o.g, e[4])
  IN R([emit_instruction(k.g, Inst("DictSet", o.r, k.r, x.r)) EXCEPT !.next = @ + 1], x.r)

------------------------------------------------------------------------------
TupleFrom(g, dst, rs) ==
  [EmitAll(g, FlattenSeq([i \in DOMAIN rs |-> << LoadConst(g.next + i - 1, Num(i - 1)), Inst("TupleSet", dst, g.next + i - 1, rs[i]) >>]))
     EXCEPT !.next = @ + Len(rs)]

\* Elements are evaluated between the stores of a tuple, a list and a dict.
Element(dst, g, i, e) == LET x == emit_expr(g, e)
                         IN [EmitAll(x.g, << LoadConst(x.g.next, Num(i - 1)), Inst("TupleSet", dst, x.g.next, x.r) >>) EXCEPT !.next = @ + 1]
Elements(g, dst, es) == FoldLeft(LAMBDA h, i : Element(dst, h, i, es[i]), g, [i \in DOMAIN es |-> i])

emit_tuple_expr(g, es) ==
  LET t == Typed(Define(g, LAMBDA r : Sized("TupleCreate", r, Len(es))), "Tuple")
  IN R(Elements(t.g, t.r, es), t.r)

Appended(g, list, e) == LET x == emit_expr(g, e) IN Define(x.g, LAMBDA r : Inst("ListAppend", r, list, x.r)).g

emit_list_expr(g, es) ==
  LET l == Typed(Define(g, LAMBDA r : Inst("ListCreate", r, 0, 0)), "List")
  IN R(FoldLeft(LAMBDA h, e : Appended(h, l.r, e), l.g, es), l.r)

emit_dict_expr(g, entries) ==
  LET d == Typed(Define(g, LAMBDA r : Inst("DictCreate", r, 0, 0)), "Dict")
      Entry(h, en) == LET k == emit_expr(h, en[1])
                          v == emit_expr(k.g, en[2])
                      IN emit_instruction(v.g, Inst("DictSet", d.r, k.r, v.r))
  IN R(FoldLeft(Entry, d.g, entries), d.r)

\* The operation goes by the language type of the object's register.
emit_index_expr(g, e) ==
  LET o == emit_expr(g, e[2])
      k == emit_expr(o.g, e[3])
      t == get_register_language_type(k.g, o.r)
      get == CASE t = "Tuple" -> "TupleGet" [] t = "Dict" -> "DictGet" [] t = "String" -> "StringIndex" [] OTHER -> "ListIndex"
      x == Typed(Define(k.g, LAMBDA r : Inst(get, r, o.r, k.r)), InferredType(e))
  IN IF t = "Tuple" THEN x ELSE Spoken(x, InferredType(e))

emit_member_expr(g, e) ==
  LET o == emit_expr(g, e[2])
      get == IF g.conc /\ IsFrame(InferredType(e[2])) THEN "FrameGetFieldAtomic" ELSE "FrameGetField"
      slot == IF e[3] = "key" THEN 0 ELSE 1
      idx == Typed(Define(o.g, LAMBDA r : LoadConst(r, Num(slot))), "Int64")
  IN IF get_register_language_type(o.g, o.r) = "Tuple" /\ e[3] \in {"key", "value"}
     THEN Typed(Define(idx.g, LAMBDA r : Inst("TupleGet", r, o.r, idx.r)), IF slot = 0 THEN "String" ELSE "Int64")
     ELSE Spoken(Define(o.g, LAMBDA r : Inst(get, r, o.r, FieldOffset(InferredType(e[2]), e[3]))), "Int64")

\* A closure is a tuple of the function's name and the captured values, or just the name.
emit_lambda_expr(g, e) ==
  LET func == g.next
      name == Define([g EXCEPT !.next = @ + 1], LAMBDA r : LoadConst(r, << "fn", e[2] >>))
      t == Define(name.g, LAMBDA r : Sized("TupleCreate", r, Len(e[3]) + 1))
      all == TupleFrom(t.g, t.r, << name.r >> \o [i \in DOMAIN e[3] |-> RegOf(e[3][i])])
  IN Spoken(R(IF e[3] = <<>> THEN emit_instruction(name.g, Inst("Mov", func, name.r, 0))
              ELSE emit_instruction(all, Inst("Mov", func, t.r, 0)), func), "Function")

------------------------------------------------------------------------------
\* The arguments of a constructor: positional ones, then named ones, then defaults, then nil.
InitArgs(d, args, named) ==
  LET np == Len(d.params)
      Find(n) == LET at == {i \in DOMAIN named : named[i][1] = n} IN IF at = {} THEN <<>> ELSE << named[Min(at)][2] >>
      Required(i) == IF i <= Len(args) THEN args[i]
                     ELSE IF Find(d.params[i]) # <<>> THEN Find(d.params[i])[1] ELSE << "lit", Nil, "Nil" >>
      NamedBefore(i) == Cardinality({j \in 1 .. i - 1 : Find(d.optional[j][1]) # <<>>})
      extra(i) == np + i - NamedBefore(i)
      Optional(i) == IF Find(d.optional[i][1]) # <<>> THEN Find(d.optional[i][1])[1]
                     ELSE IF extra(i) <= Len(args) THEN args[extra(i)] ELSE d.optional[i][2]
  IN [i \in 1 .. np |-> Required(i)] \o [i \in DOMAIN d.optional |-> Optional(i)]

Consumed(d, args, named) ==
  {named[i][1] : i \in {j \in DOMAIN named : \/ named[j][1] \in {d.optional[k][1] : k \in DOMAIN d.optional}
                                           \/ \E k \in DOMAIN d.params : k > Len(args) /\ d.params[k] = named[j][1]}}

\* A frame: the defaults of all fields, the named arguments that are fields, the constructor, and
\* once more the named arguments the constructor did not take.
emit_frame_instantiation(g, e) ==
  LET d == Frames[e[2]]
      frame == Spoken(Define(g, LAMBDA r : [Sized("NewFrame", r, Len(d.fields)) EXCEPT !.name = e[2]]), e[2])
      Store(h, i, x) == LET v == emit_expr(h, x) IN emit_instruction(v.g, Inst("FrameSetField", frame.r, i - 1, v.r))
      fields == [i \in DOMAIN d.fields |-> i]
      defaults == FoldLeft(LAMBDA h, i : Store(h, i, d.defaults[i]), frame.g, fields)
      IsField(n) == n \in ToSet(d.fields)
      Overwrite(h, named) == FoldLeft(LAMBDA k, p : Store(k, FieldOffset(e[2], p[1]) + 1, p[2]), h, SelectSeq(named, LAMBDA p : IsField(p[1])))
      named == Overwrite(defaults, e[4])
      args == EmitArgs(named, InitArgs(d, e[3], e[4]))
      call == Define(args.g, LAMBDA r : CallTo(r, << e[2], "init" >>, << frame.r >> \o args.rs)).g
      rest == SelectSeq(e[4], LAMBDA p : p[1] \notin Consumed(d, e[3], e[4]))
  IN R(IF d.init THEN Overwrite(call, rest) ELSE named, frame.r)

\* A variable that holds a function: the arguments are passed one by one.
emit_call_closure_expr(g, e) ==
  LET c == emit_variable_expr(g, << "var", e[2] >>)
      args == EmitArgs(c.g, e[3])
      params == EmitAll(args.g, [i \in DOMAIN args.rs |-> Inst("Param", 0, args.rs[i], 0)])
  IN Typed(Define(params, LAMBDA r : Inst("CallIndirect", r, c.r, 0)), e[4])

\* A call whose type is a frame becomes an instantiation of that frame, whatever is called.
emit_call_expr(g, e) ==
  LET args == EmitArgs(g, e[3])
  IN CASE IsFrame(e[4]) -> emit_frame_instantiation(g, << "new", e[4], e[3], <<>> >>)
       [] ~IsFrame(e[4]) /\ e[2] \notin DOMAIN VarTypes -> Spoken(Define(args.g, LAMBDA r : CallTo(r, << e[2] >>, args.rs)), e[4])
       [] OTHER -> emit_call_closure_expr(g, e)

MakeEnum(r, tag, payload) == [Inst("MakeEnum", r, payload, 0) EXCEPT !.imm = tag]

\* A variant by its name alone.
emit_enum_call(g, tag, args) ==
  LET one == emit_expr(g, args[1])
      tuple == Define(g, LAMBDA r : Sized("TupleCreate", r, Len(args)))
      payload == CASE Len(args) = 0 -> R(g, NoRegister)
                   [] Len(args) = 1 -> one
                   [] OTHER -> R(Elements(tuple.g, tuple.r, args), tuple.r)
  IN Spoken(Define(payload.g, LAMBDA r : MakeEnum(r, tag, payload.r)), "Enum")

\* A variant through its enum: register 0 is the payload if there are no arguments.
emit_enum_member(g, tag, args) ==
  LET result_ == g.next
      rs == EmitArgs([g EXCEPT !.next = @ + 1], args)
      tuple == Define(rs.g, LAMBDA r : Sized("TupleCreate", r, Len(args)))
      payload == CASE Len(args) = 0 -> R(rs.g, 0)
                   [] Len(args) = 1 -> R(rs.g, rs.rs[1])
                   [] OTHER -> R(TupleFrom(tuple.g, tuple.r, rs.rs), tuple.r)
  IN Spoken(R(emit_instruction(payload.g, MakeEnum(result_, tag, payload.r)), result_), "Enum")

\* A method of lists or channels: its argument is emitted once more.
emit_builtin_method(g, e, object) ==
  LET again == emit_expr(g, e[4][1])
      Op(op, h, b, t) == Typed(Define(h, LAMBDA r : Inst(op, r, object, b)), t)
  IN CASE e[3] = "append" -> Op("ListAppend", again.g, again.r, "Nil")
       [] e[3] = "send"   -> Op("ChannelSend", again.g, again.r, "Nil")
       [] e[3] = "recv"   -> Op("ChannelRecv", g, 0, "Any")
       [] e[3] = "len"    -> Op("ListLen", g, 0, "Int")

\* A method of the object's frame; if its type is no frame, of any frame that has one of that name.
emit_method_call(g, e) ==
  LET o == emit_expr(g, e[2])
      args == EmitArgs(o.g, e[4])
      t == InferredType(e[2])
      having == {f \in IF IsFrame(t) THEN {t} ELSE DOMAIN Frames : e[3] \in Frames[f].methods}
  IN IF having # {} THEN Spoken(Define(args.g, LAMBDA r : CallTo(r, << CHOOSE f \in having : TRUE, e[3] >>, << o.r >> \o args.rs)), "Int64")
     ELSE emit_builtin_method(args.g, e, o.r)

emit_cast_expr(g, e) == LET x == emit_expr(g, e[2]) IN Both(Define(x.g, LAMBDA r : Inst("Mov", r, x.r, 0)), e[3])

\* The value before the channel.
emit_channel_send_expr(g, e) ==
  LET v == emit_expr(g, e[3])
      c == emit_expr(v.g, e[2])
  IN Typed(Define(c.g, LAMBDA r : Inst("ChannelSend", r, c.r, v.r)), "Nil")

emit_expr(g, e) ==
  CASE e[1] = "lit" -> emit_literal_expr(g, e)
    [] e[1] = "var" -> emit_variable_expr(g, e)
    [] e[1] = "interp" -> emit_interpolated_string_expr(g, e[2])
    [] e[1] = "bin" -> emit_binary_expr(g, e)
    [] e[1] = "un" -> emit_unary_expr(g, e)
    [] e[1] = "group" -> emit_expr(g, e[2])
    [] e[1] = "assign" -> emit_assign_variable(g, e)
    [] e[1] = "setfield" -> emit_assign_field(g, e)
    [] e[1] = "setindex" -> emit_assign_index(g, e)
    [] e[1] = "call" -> emit_call_expr(g, e)
    [] e[1] = "method" -> emit_method_call(g, e)
    [] e[1] = "variant" -> emit_enum_call(g, e[2], e[3])
    [] e[1] = "enum" -> emit_enum_member(g, e[2], e[3])
    [] e[1] = "new" -> emit_frame_instantiation(g, e)
    [] e[1] = "list" -> emit_list_expr(g, e[2])
    [] e[1] = "tuple" -> emit_tuple_expr(g, e[2])
    [] e[1] = "dict" -> emit_dict_expr(g, e[2])
    [] e[1] = "index" -> emit_index_expr(g, e)
    [] e[1] = "member" -> emit_member_expr(g, e)
    [] e[1] = "lambda" -> emit_lambda_expr(g, e)
    [] e[1] = "cast" -> emit_cast_expr(g, e)
    [] e[1] = "send" -> emit_channel_send_expr(g, e)

------------------------------------------------------------------------------
\* Values, objects and calls, for the machine and for the direct evaluation.

\* A value with the contents of the objects it refers to.
RECURSIVE Shown(_, _)
Shown(h, v) ==
  LET All(vs) == [i \in DOMAIN vs |-> Shown(h, vs[i])] IN
  CASE v[1] = "enum" -> << "enum", v[2], Shown(h, v[3]) >>
    [] v[1] = "ref" /\ h[v[2]][1] = "dict" -> << "dict", [i \in DOMAIN h[v[2]][2] |-> All(h[v[2]][2][i])] >>
    [] v[1] = "ref" /\ h[v[2]][1] # "dict" -> << h[v[2]][1], All(h[v[2]][2]) >>
    [] OTHER -> v

Str(v) == CASE v[1] = "str" -> v[2]
            [] v[1] = "bool" -> << IF v[2] THEN "true" ELSE "false" >>
            [] v[1] = "float" -> << ToString(v[2]) \o ".0" >>
            [] OTHER -> << ToString(v[2]) >>

Calculate(op, x, y) ==
  LET t == IF "float" \in {x[1], y[1]} THEN "float" ELSE "int"
      numbers == {x[1], y[1]} \subseteq {"int", "float"}
      n == x[2]
      m == y[2]
      Ordered(p) == Bool(numbers /\ p)
  IN CASE op = "CmpEQ" -> Bool(IF numbers THEN n = m ELSE x = y)
       [] op = "CmpNEQ" -> Bool(~(IF numbers THEN n = m ELSE x = y))
       [] op = "CmpLT" -> Ordered(n < m) [] op = "CmpLE" -> Ordered(n <= m)
       [] op = "CmpGT" -> Ordered(n > m) [] op = "CmpGE" -> Ordered(n >= m)
       [] op \in {"Add", "Sub", "Mul", "Div", "Mod", "Xor"} /\ ~numbers -> Nil
       [] op = "Add" /\ numbers -> << t, n + m >>
       [] op = "Sub" /\ numbers -> << t, n - m >>
       [] op = "Mul" /\ numbers -> << t, n * m >>
       [] op = "Div" /\ numbers -> << t, IF m = 0 THEN 0 ELSE n \div m >>
       [] op = "Mod" /\ numbers -> << t, IF m <= 0 THEN 0 ELSE n % m >>
       [] op = "Xor" /\ numbers -> Num(-1 - n)        \* the other operand is -1

New(h, o) == Append(h, o)
PutKey(pairs, k, v) ==
  IF \E i \in DOMAIN pairs : pairs[i][1] = k
  THEN [i \in DOMAIN pairs |-> IF pairs[i][1] = k THEN << k, v >> ELSE pairs[i]]
  ELSE Append(pairs, << k, v >>)
GetKey(pairs, k) == LET at == {i \in DOMAIN pairs : pairs[i][1] = k} IN IF at = {} THEN Nil ELSE pairs[Min(at)][2]
At(o, k) == IF o[1] = "dict" THEN GetKey(o[2], k) ELSE o[2][k[2] + 1]
Indexed(h, v, k) == IF v[1] = "str" THEN Text(<< v[2][k[2] + 1] >>) ELSE At(h[v[2]], k)
SetAt(h, a, i, v) == [h EXCEPT ![a][2][i] = v]

\* A function returns its first argument, a constructor stores its arguments in the first fields,
\* a method returns the first field of its object.
Called(h, name, args) ==
  CASE Len(name) = 1 -> [h |-> h, v |-> IF args = <<>> THEN Nil ELSE args[1]]
    [] Len(name) = 2 /\ name[2] = "init" ->
         [h |-> [h EXCEPT ![args[1][2]][2] = [i \in DOMAIN @ |-> IF i < Len(args) THEN args[i + 1] ELSE @[i]]], v |-> Nil]
    [] OTHER -> [h |-> h, v |-> h[args[1][2]][2][1]]
Entry(h, name, args) == << name, [i \in DOMAIN args |-> Shown(h, args[i])] >>

------------------------------------------------------------------------------
\* The parts of an expression.
Operands(e) ==
  CASE e[1] = "bin" -> << e[3], e[4] >>
    [] e[1] = "un" -> << e[3] >>
    [] e[1] \in {"group", "cast", "member"} -> << e[2] >>
    [] e[1] = "assign" -> << e[4] >>
    [] e[1] = "setfield" -> << e[5], e[3] >>
    [] e[1] = "setindex" -> << e[5], e[3], e[4] >>
    [] e[1] \in {"call", "variant", "enum"} -> e[3]
    [] e[1] = "method" -> << e[2] >> \o e[4]
    [] e[1] = "new" -> e[3] \o [i \in DOMAIN e[4] |-> e[4][i][2]]
    [] e[1] \in {"list", "tuple"} -> e[2]
    [] e[1] = "dict" -> FlattenSeq(e[2])
    [] e[1] \in {"index", "send"} -> << e[2], e[3] >>
    [] e[1] = "interp" -> SelectSeq(e[2], LAMBDA p : p[1] # "text")
    [] OTHER -> <<>>

RECURSIVE Parts(_)
Parts(e) == << e >> \o FlattenSeq([i \in DOMAIN Operands(e) |-> Parts(Operands(e)[i])])
PartSet(e) == ToSet(Parts(e))
Mentions(p, name) == \/ p[1] = "assign" /\ p[3] = name
                     \/ p[1] \in {"var", "call"} /\ p[2] = name
                     \/ p[1] = "lambda" /\ name \in ToSet(p[3])

------------------------------------------------------------------------------
\* The machine.  Shared variables are in scope in a task only.
Init == /\ expr \in Expressions
        /\ concurrent \in BOOLEAN
        /\ concurrent \/ ~\E p \in PartSet(expr) : \E name \in DOMAIN VarTypes : VarTypes[name] = "Shared" /\ Mentions(p, name)
        /\ code = <<>> /\ result = 0 /\ pc = 0
        /\ regs = [r \in 0 .. Len(VarOrder) - 1 |-> Start[VarOrder[r + 1]]]
        /\ heap = Heap0 /\ pending = <<>> /\ trace = <<>>

Lower == /\ pc = 0
         /\ LET x == emit_expr(Generator, expr) IN code' = x.g.code /\ result' = x.r
         /\ pc' = 1
         /\ UNCHANGED << expr, concurrent, regs, heap, pending, trace >>

Running == pc \in DOMAIN code
I == code[pc]
IsOp(ops) == Running /\ I.op \in ops
Val(r) == regs[r]
Obj(r) == heap[regs[r][2]]
Addr(r) == regs[r][2]
Into(v) == regs' = [r \in DOMAIN regs \cup {I.dst} |-> IF r = I.dst THEN v ELSE regs[r]]
Continue == pc' = pc + 1 /\ UNCHANGED << expr, concurrent, code, result >>
Quiet == UNCHANGED << heap, pending, trace >>

\* STR_FORMAT replaces the first marker of the text.
Formatted(fmt, s) ==
  LET at == {i \in DOMAIN fmt : fmt[i] = MARK}
  IN IF at = {} THEN fmt ELSE SubSeq(fmt, 1, Min(at) - 1) \o s \o SubSeq(fmt, Min(at) + 1, Len(fmt))

Arith == {"Add", "Sub", "Mul", "Div", "Mod", "Xor", "CmpEQ", "CmpNEQ", "CmpLT", "CmpLE", "CmpGT", "CmpGE"}
Compute == /\ IsOp(Arith \cup {"LoadConst", "Mov", "Neg", "Cast", "ToString", "STR_CONCAT", "STR_FORMAT", "MakeEnum"})
           /\ Into(CASE I.op = "LoadConst" -> I.v
                     [] I.op = "Mov" -> Val(I.a)
                     [] I.op = "Neg" -> << Val(I.a)[1], -Val(I.a)[2] >>
                     [] I.op = "Cast" -> << "float", Val(I.a)[2] >>
                     [] I.op = "ToString" -> Text(Str(Val(I.a)))
                     [] I.op = "STR_CONCAT" -> Text(Str(Val(I.a)) \o Str(Val(I.b)))
                     [] I.op = "STR_FORMAT" -> Text(Formatted(Val(I.a)[2], Str(Val(I.b))))
                     [] I.op = "MakeEnum" -> << "enum", I.imm, IF I.a = NoRegister THEN Nil ELSE Val(I.a) >>
                     [] OTHER -> Calculate(I.op, Val(I.a), Val(I.b)))
           /\ Continue /\ Quiet

Branch == /\ IsOp({"Jump", "JumpIf", "JumpIfFalse"})
          /\ pc' = IF I.op = "Jump" \/ Val(I.a)[2] = (I.op = "JumpIf") THEN I.imm ELSE pc + 1
          /\ UNCHANGED << expr, concurrent, code, result, regs, heap, pending, trace >>

Create == /\ IsOp({"TupleCreate", "ListCreate", "DictCreate", "NewFrame"})
          /\ heap' = New(heap, << CASE I.op = "TupleCreate" -> "tuple" [] I.op = "ListCreate" -> "list"
                                    [] I.op = "DictCreate" -> "dict" [] OTHER -> "frame",
                                  [i \in 1 .. I.imm |-> Nil] >>)
          /\ Into(Ref(Len(heap) + 1))
          /\ Continue /\ UNCHANGED << pending, trace >>

\* An element of an object of another kind is nil.
ObjectKind(op) == CASE op = "TupleGet" -> "tuple" [] op = "ListIndex" -> "list" [] op = "DictGet" -> "dict" [] OTHER -> "none"
IsKind(v, kind) == v[1] = "ref" /\ heap[v[2]][1] = kind
Read == /\ IsOp({"TupleGet", "ListIndex", "DictGet", "StringIndex", "FrameGetField", "FrameGetFieldAtomic", "SharedCellLoad", "ListLen"})
        /\ Into(CASE I.op \in {"FrameGetField", "FrameGetFieldAtomic"} -> Obj(I.a)[2][I.b + 1]
                  [] I.op = "SharedCellLoad" -> Obj(I.a)[2][1]
                  [] I.op = "ListLen" -> Num(Len(Obj(I.a)[2]))
                  [] OTHER -> IF I.op = "StringIndex" \/ IsKind(Val(I.a), ObjectKind(I.op))
                              THEN Indexed(heap, Val(I.a), Val(I.b)) ELSE Nil)
        /\ Continue /\ Quiet

\* The object is in the register dst.
Write == /\ IsOp({"TupleSet", "DictSet", "FrameSetField", "FrameSetFieldAtomic", "FrameFieldAtomicAdd", "FrameFieldAtomicSub"})
         /\ heap' = CASE I.op = "TupleSet" -> SetAt(heap, Addr(I.dst), Val(I.a)[2] + 1, Val(I.b))
                      [] I.op = "DictSet" -> [heap EXCEPT ![Addr(I.dst)][2] = PutKey(@, Val(I.a), Val(I.b))]
                      [] I.op = "FrameFieldAtomicAdd" -> [heap EXCEPT ![Addr(I.dst)][2][I.a + 1] = Calculate("Add", @, Val(I.b))]
                      [] I.op = "FrameFieldAtomicSub" -> [heap EXCEPT ![Addr(I.dst)][2][I.a + 1] = Calculate("Sub", @, Val(I.b))]
                      [] OTHER -> SetAt(heap, Addr(I.dst), I.a + 1, Val(I.b))
         /\ Continue /\ UNCHANGED << regs, pending, trace >>

StoreCell == /\ IsOp({"SharedCellStore"})
             /\ heap' = SetAt(heap, Addr(I.a), 1, Val(I.b))
             /\ Continue /\ UNCHANGED << regs, pending, trace >>

Enqueue == /\ IsOp({"ListAppend", "ChannelSend"})
           /\ heap' = [heap EXCEPT ![Addr(I.a)][2] = Append(@, Val(I.b))]
           /\ Into(Nil)
           /\ Continue /\ UNCHANGED << pending, trace >>

Receive == /\ IsOp({"ChannelRecv"})
           /\ LET q == Obj(I.a)[2]
              IN /\ Into(IF q = <<>> THEN Nil ELSE q[1])
                 /\ heap' = [heap EXCEPT ![Addr(I.a)][2] = IF q = <<>> THEN q ELSE Tail(q)]
           /\ Continue /\ UNCHANGED << pending, trace >>

Call == /\ IsOp({"Call", "CallIndirect"})
        /\ LET name == IF I.op = "Call" THEN I.name ELSE << Val(I.a)[2] >>
               args == IF I.op = "Call" THEN [i \in DOMAIN I.args |-> Val(I.args[i])] ELSE pending
               x == Called(heap, name, args)
           IN /\ trace' = Append(trace, Entry(heap, name, args))
              /\ heap' = x.h
              /\ Into(x.v)
        /\ pending' = <<>>
        /\ Continue

Param == /\ IsOp({"Param"})
         /\ pending' = Append(pending, Val(I.a))
         /\ Continue /\ UNCHANGED << regs, heap, trace >>

Done == pc > Len(code)
Finished == pc > 0 /\ Done /\ UNCHANGED vars

Next == Lower \/ Compute \/ Branch \/ Create \/ Read \/ Write \/ StoreCell \/ Enqueue \/ Receive \/ Call \/ Param \/ Finished

Spec == Init /\ [][Next]_vars

------------------------------------------------------------------------------
\* The meaning of an expression: every operand once, from left to right; the value of an assignment
\* before its target.
RECURSIVE Eval(_, _)

Start_ == [env |-> Start, h |-> Heap0, tr |-> <<>>]
V(s, v) == [s |-> s, v |-> v]
EvalAll(s, es) == FoldLeft(LAMBDA st, e : LET x == Eval(st.s, e) IN [s |-> x.s, vs |-> Append(st.vs, x.v)], [s |-> s, vs |-> <<>>], es)
Alloc(s, o) == V([s EXCEPT !.h = Append(@, o)], Ref(Len(s.h) + 1))
DoCall(s, name, args) == LET x == Called(s.h, name, args) IN V([s EXCEPT !.h = x.h, !.tr = Append(@, Entry(s.h, name, args))], x.v)
Lit(v) == << "lit", v, "Any" >>

EvalVar(s, name) == CASE name \notin DOMAIN VarTypes -> << "fn", name >>
                      [] name \in DOMAIN VarTypes /\ VarTypes[name] = "Shared" -> s.h[s.env[name][2]][2][1]
                      [] OTHER -> s.env[name]
StoreVar(s, name, v) == IF VarTypes[name] = "Shared" THEN [s EXCEPT !.h[s.env[name][2]][2][1] = v] ELSE [s EXCEPT !.env[name] = v]
Combine(op, old, v) == CASE op = "=" -> v
                         [] op = "+=" /\ old[1] = "str" -> Text(Str(old) \o Str(v))
                         [] OTHER -> Calculate(OpOf(op), old, v)
EvalBinary(s, e) ==
  LET x == Eval(s, e[3])
      y == Eval(x.s, e[4])
  IN CASE e[2] \in {"and", "or"} -> IF x.v[2] = (e[2] = "or") THEN x ELSE y
       [] e[2] = "+" /\ "str" \in {x.v[1], y.v[1]} -> V(y.s, Text(Str(x.v) \o Str(y.v)))
       [] OTHER -> V(y.s, Calculate(BinaryOp(e[2]), x.v, y.v))
EvalUnary(s, e) ==
  LET x == Eval(s, e[3])
  IN V(x.s, CASE e[2] = "-" -> << x.v[1], -x.v[2] >> [] e[2] = "+" -> x.v [] e[2] = "!" -> Bool(~x.v[2]) [] e[2] = "~" -> Num(-1 - x.v[2]))
EvalNew(s, e) ==
  LET d == Frames[e[2]]
      named == EvalAll(s, [i \in DOMAIN e[4] |-> e[4][i][2]])
      args == EvalAll(named.s, e[3])
      defaults == EvalAll(args.s, d.defaults)
      given == [i \in DOMAIN e[4] |-> << e[4][i][1], Lit(named.vs[i]) >>]
      Fields(vs, ps) == [i \in DOMAIN vs |-> FoldLeft(LAMBDA v, p : IF p[1] = d.fields[i] THEN p[2][2] ELSE v, vs[i], ps)]
      o == Alloc(defaults.s, << "frame", Fields(defaults.vs, given) >>)
      init == EvalAll(o.s, InitArgs(d, [i \in DOMAIN args.vs |-> Lit(args.vs[i])], given))
      called == DoCall(init.s, << e[2], "init" >>, << o.v >> \o init.vs).s
      rest == SelectSeq(given, LAMBDA p : p[1] \notin Consumed(d, e[3], e[4]))
  IN V(IF d.init THEN [called EXCEPT !.h[o.v[2]][2] = Fields(@, rest)] ELSE o.s, o.v)
EvalMethod(s, e) ==
  LET o == Eval(s, e[2])
      args == EvalAll(o.s, e[4])
      a == o.v[2]
      q == args.s.h[a][2]
  IN IF IsFrame(InferredType(e[2])) THEN DoCall(args.s, << InferredType(e[2]), e[3] >>, << o.v >> \o args.vs)
     ELSE CASE e[3] \in {"append", "send"} -> V([args.s EXCEPT !.h[a][2] = Append(@, args.vs[1])], Nil)
       [] e[3] = "recv" -> IF q = <<>> THEN V(args.s, Nil) ELSE V([args.s EXCEPT !.h[a][2] = Tail(@)], q[1])
       [] e[3] = "len" -> V(args.s, Num(Len(q)))

EvalAssign(s, e) ==
  LET x == Eval(s, e[Len(e)])
      o == Eval(x.s, e[3])
      k == Eval(o.s, e[4])
      i == FieldOffset(InferredType(e[3]), e[4]) + 1
      v == CASE e[1] = "assign" -> Combine(e[2], EvalVar(x.s, e[3]), x.v)
             [] e[1] = "setfield" -> Combine(e[2], o.s.h[o.v[2]][2][i], x.v)
             [] OTHER -> IF e[2] = "=" THEN x.v ELSE Combine(e[2], At(k.s.h[o.v[2]], k.v), x.v)
  IN CASE e[1] = "assign" -> V(StoreVar(x.s, e[3], v), v)
       [] e[1] = "setfield" -> V([o.s EXCEPT !.h[o.v[2]][2][i] = v], x.v)
       [] e[1] = "setindex" -> V([k.s EXCEPT !.h[o.v[2]][2] = PutKey(@, k.v, v)], x.v)

Eval(s, e) ==
  LET one == Eval(s, e[2])
      all == EvalAll(s, e[2])
      args == EvalAll(s, e[3])
      exprs == EvalAll(s, SelectSeq(e[2], LAMBDA p : p[1] # "text"))
      PartsBefore(i) == Cardinality({j \in 1 .. i : e[2][j][1] # "text"})
  IN
  CASE e[1] = "lit" -> V(s, e[2])
    [] e[1] = "var" -> V(s, EvalVar(s, e[2]))
    [] e[1] = "interp" ->
         V(exprs.s, Text(FlattenSeq([i \in DOMAIN e[2] |-> IF e[2][i][1] = "text" THEN e[2][i][2] ELSE Str(exprs.vs[PartsBefore(i)])])))
    [] e[1] = "bin" -> EvalBinary(s, e)
    [] e[1] = "un" -> EvalUnary(s, e)
    [] e[1] = "group" -> one
    [] e[1] = "cast" -> V(one.s, IF e[3] = "Int64" THEN Num(one.v[2]) ELSE << "float", one.v[2] >>)
    [] e[1] \in {"assign", "setfield", "setindex"} -> EvalAssign(s, e)
    [] e[1] = "call" -> DoCall(args.s, << IF e[2] \in DOMAIN VarTypes THEN s.env[e[2]][2] ELSE e[2] >>, args.vs)
    [] e[1] = "method" -> EvalMethod(s, e)
    [] e[1] = "new" -> EvalNew(s, e)
    [] e[1] \in {"variant", "enum"} -> LET t == Alloc(args.s, << "tuple", args.vs >>)
                        IN CASE Len(e[3]) = 0 -> V(s, << "enum", e[2], Nil >>)
                             [] Len(e[3]) = 1 -> V(args.s, << "enum", e[2], args.vs[1] >>)
                             [] OTHER -> V(t.s, << "enum", e[2], t.v >>)
    [] e[1] \in {"list", "tuple"} -> Alloc(all.s, << e[1], all.vs >>)
    [] e[1] = "dict" -> LET x == EvalAll(s, FlattenSeq(e[2]))
                        IN Alloc(x.s, << "dict", FoldLeft(LAMBDA ps, i : PutKey(ps, x.vs[2 * i - 1], x.vs[2 * i]), <<>>, [i \in DOMAIN e[2] |-> i]) >>)
    [] e[1] = "index" -> LET k == Eval(one.s, e[3]) IN V(k.s, Indexed(k.s.h, one.v, k.v))
    [] e[1] = "member" -> V(one.s, one.s.h[one.v[2]][2][FieldOffset(InferredType(e[2]), e[3]) + 1])
    [] e[1] = "lambda" -> IF e[3] = <<>> THEN V(s, << "fn", e[2] >>)
                          ELSE Alloc(s, << "tuple", << << "fn", e[2] >> >> \o [i \in DOMAIN e[3] |-> s.env[e[3][i]]] >>)
    [] e[1] = "send" -> LET v == Eval(s, e[3])
                            c == Eval(v.s, e[2])
                        IN V([c.s EXCEPT !.h[c.v[2]][2] = Append(@, v.v)], Nil)

------------------------------------------------------------------------------
\* The expressions the lowering is right about.
Effect(e) == e[1] \in {"call", "assign", "setfield", "setindex", "method", "send"} \/ (e[1] = "new" /\ Frames[e[2]].init)
Pure(e) == \A p \in PartSet(e) : ~Effect(p)

\* The generator knows no type of the register of the value: calls, methods, fields, texts put together.
RECURSIVE Untyped(_)
Untyped(e) ==
  CASE e[1] = "call" -> e[2] \notin DOMAIN VarTypes
    [] e[1] = "bin" -> e[2] \in {"and", "or"} \/ InferredType(e) = "String"
    [] e[1] = "un" -> e[2] \in {"+", "-"} /\ Untyped(e[3])
    [] e[1] = "group" -> Untyped(e[2])
    [] e[1] = "assign" -> IF e[2] = "=" THEN Untyped(e[4]) ELSE VarTypes[e[3]] = "Shared"
    [] e[1] \in {"setfield", "setindex"} -> Untyped(e[5])
    [] OTHER -> e[1] \in {"interp", "method", "member", "new", "enum", "variant", "lambda"}
KnownString(e) == InferredType(e) = "String" /\ ~Untyped(e)

\* The operands that are emitted twice.
Repeated(e) ==
  CASE e[1] = "bin" /\ e[2] = "+" /\ ~KnownString(e[3]) /\ ~KnownString(e[4]) -> {e[3], e[4]}
    [] e[1] = "method" /\ e[3] \in {"append", "send"} -> ToSet(e[4])
    [] e[1] = "new" /\ Frames[e[2]].init -> {e[4][i][2] : i \in DOMAIN e[4]}
    [] OTHER -> {}
NothingRepeated(e) == \A p \in PartSet(e) : \A q \in Repeated(p) : Pure(q)

\* No variable is read or assigned next to an assignment to it; the target of the whole is no such place.
NoAlias(e) ==
  LET body == IF e[1] = "assign" THEN e[4] ELSE e
      assigned == {p[3] : p \in {q \in PartSet(body) : q[1] = "assign"}}
  IN \A name \in assigned : Cardinality({i \in DOMAIN Parts(e) : Mentions(Parts(e)[i], name)}) = 1

\* The operator of an assignment to a field or an element counts.
OperatorKept(e) ==
  \A p \in PartSet(e) :
    /\ p[1] = "setfield" => p[2] = "=" \/ (concurrent /\ IsFrame(InferredType(p[3])) /\ p[2] \in {"+=", "-="})
    /\ p[1] = "setindex" => p[2] = "="

\* No text holds the marker.
HoldsMark(p) ==
  \/ p[1] = "text" /\ MARK \in ToSet(p[2])
  \/ p[1] = "lit" /\ p[3] = "String" /\ MARK \in ToSet(p[2][2])
  \/ p[1] = "var" /\ p[2] \in DOMAIN Start /\ Start[p[2]][1] = "str" /\ MARK \in ToSet(Start[p[2]][2])
MarksAreOurs(e) ==
  \A p \in PartSet(e) : p[1] = "interp" =>
    \A i \in DOMAIN p[2] : (\E q \in ToSet(IF p[2][i][1] = "text" THEN << p[2][i] >> ELSE Parts(p[2][i])) : HoldsMark(q))
                             => ~\E j \in i + 1 .. Len(p[2]) : p[2][j][1] # "text"

\* A cast is a copy.
CastsKeep(e) == \A p \in PartSet(e) : p[1] = "cast" => InferredType(p[2]) = p[3]

\* Only integers, truth values and texts have constants, and a text that looks like a number changes.
LiteralsKept(e) ==
  \A p \in PartSet(e) :
    p[1] = "lit" => p[3] \in {"Int64", "Bool"} \/ (p[3] = "String" /\ Reparsed(p[2][2]) = p[2][2])

\* Texts are put together if one operand is known as a text; a division is one of integers if both
\* operands, or none, are known to be integers.
OperandsKnown(e) ==
  \A p \in PartSet(e) : p[1] = "bin" =>
    /\ p[2] = "+" /\ InferredType(p) = "String" => KnownString(p[3]) \/ KnownString(p[4])
    /\ p[2] = "/" => Untyped(p[3]) = Untyped(p[4]) \/ InferredType(p) = "Float64"

\* A tuple or a dict written in place is taken for a list.
RECURSIVE Inner(_)
Inner(e) == IF e[1] = "group" THEN Inner(e[2]) ELSE e
ObjectsKnown(e) == \A p \in PartSet(e) : p[1] = "index" => Inner(p[2])[1] \notin {"tuple", "dict"}

\* The payload of a variant without arguments, named through its enum, is the register 0; a call whose
\* value is a frame calls nothing.
PayloadsKept(e) == \A p \in PartSet(e) : p[1] = "enum" => p[3] # <<>>
CallsMade(e)    == \A p \in PartSet(e) : p[1] = "call" => ~IsFrame(p[4])

Sound(e) == /\ NothingRepeated(e) /\ NoAlias(e) /\ OperatorKept(e) /\ MarksAreOurs(e) /\ CastsKeep(e)
            /\ LiteralsKept(e) /\ OperandsKnown(e) /\ ObjectsKnown(e) /\ PayloadsKept(e) /\ CallsMade(e)

Agrees ==
  LET x == Eval(Start_, expr)
  IN /\ trace = x.s.tr
     /\ Shown(heap, regs[result]) = Shown(x.s.h, x.v)
     /\ \A name \in DOMAIN Start : Shown(heap, regs[RegOf(name)]) = Shown(x.s.h, x.s.env[name])

\* The code of an expression (emit_expr and its cases) computes the expression's value, makes the same
\* calls with the same arguments in the same order, and leaves the same variables and objects, unless one
\* of ten things is in it: an operand with an effect that is emitted twice; a variable used next to an
\* assignment to it; a compound assignment to a field outside a task or to an element; a text with the
\* marker in an interpolation; a cast that converts; a literal without a constant at run time; a sum
\* of texts or a division with an operand of unknown type; an index into a tuple or dict written in
\* place; a variant without arguments named through its enum; a call whose value is a frame.
LoweringCorrect == (pc > 0 /\ Done /\ Sound(expr)) => Agrees
==============================================================================
