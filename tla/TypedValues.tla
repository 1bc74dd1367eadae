------------------------------ MODULE TypedValues ------------------------------
(***************************************************************************)
(* Values with a type (Value of src/frontend/value.hh) and what TypeSystem *)
(* does with them: default values, checks, conversions, ok and error       *)
(* values, options.  One value goes through a sequence of operations.      *)
(*                                                                         *)
(* A number stands for the digits a value stores, an empty text for nil;   *)
(* a character is what storing a bool in a std::string leaves there.       *)
(* The numbers of floats count steps that are finer than the sixth decimal *)
(* and are rounded to the bits of the type and to the text that is stored. *)
(***************************************************************************)
EXTENDS TypeSystem

CONSTANTS Bits,              \* the widths of the integer types
          Precision,         \* the bits a float of a type keeps
          DECIMAL,           \* the sixth decimal, in the steps of floats
          Numbers, Floats,   \* the numbers to start from
          Targets,           \* the types to convert to
          MAX_OPS            \* bound: operations on the value

VARIABLES val,               \* the value, or Failed after an exception
          ops,
          original, kept     \* history: the first contents; no operation so far may lose them

valueVars == << val, ops, original, kept >>

None   == << "none" >>
Failed == [type |-> Thrown, data |-> << "text", "" >>, complex |-> None, variant |-> 0]
Signed == {"Int8", "Int16", "Int32", "Int64"}
Unsigned == {"UInt8", "UInt16", "UInt32", "UInt64"}
Value(t, data, complex) == [type |-> t, data |-> data, complex |-> complex, variant |-> 0]
NumData(n) == << "num", n >>
NoText  == << "text", "" >>

Wrap(n, bits) == n % (2 ^ bits)
AsSigned(n, bits) == LET m == Wrap(n, bits) IN IF m >= 2 ^ (bits - 1) THEN m - 2 ^ bits ELSE m

\* The multiple of u next to n, the even one of two; the distance of floats
\* of a size, when those below a limit are exact.
Nearest(n, u) == LET q == n \div u
                     r == n % u
                 IN u * (IF 2 * r > u \/ (2 * r = u /\ q % 2 = 1) THEN q + 1 ELSE q)
Abs(n) == IF n < 0 THEN -n ELSE n
RECURSIVE Spacing(_, _)
Spacing(size, exact) == IF size < exact THEN 1 ELSE 2 * Spacing(size \div 2, exact)

\* static_cast, and std::to_string of a float.
Cast(n, tag) == CASE tag \in Signed -> AsSigned(n, Bits[tag])
                  [] tag \in Unsigned -> Wrap(n, Bits[tag])
                  [] tag \in FloatTags -> Nearest(n, Spacing(Abs(n), 2 ^ Precision[tag]))
Fits(n, tag) == Cast(n, tag) = n
to_string(n, tag) == IF tag \in FloatTags THEN Nearest(n, DECIMAL) ELSE n

\* from_chars to a signed 64-bit integer or a double; 0 if there is no number or it is out of range.
toDouble(data) == IF data[1] = "num" THEN Cast(data[2], "Float64") ELSE 0
toInt64(data) == IF data[1] = "num" /\ Fits(data[2], "Int64") THEN data[2] ELSE 0
toBool(data) == data # NoText /\ data # << "text", "0" >> /\ data # << "text", "false" >>
BoolData(p) == << "char", IF p THEN 1 ELSE 0 >>

RECURSIVE createValue(_)
createValue(t) ==
  CASE t[1] \in {"Nil", "String", "Any"} -> Value(t, NoText, None)
    [] t[1] = "Bool" -> Value(t, BoolData(FALSE), None)
    [] isNumericType(t) -> Value(t, NumData(0), None)
    [] t[1] \in {"List", "Dict"} -> Value(t, NoText, << "elements", <<>> >>)
    [] t[1] = "Tuple" -> LET es == [i \in DOMAIN t[2] |-> createValue(t[2][i])]
                         IN IF Failed \in ToSet(es) THEN Failed ELSE Value(t, NoText, << "elements", es >>)
    [] t[1] = "Enum" -> Value(t, NoText, << "enum", 1 >>)
    [] t[1] = "Union" -> [createValue(t[2][1]) EXCEPT !.type = t]
    [] t[1] = "ErrorUnion" -> [createValue(t[2]) EXCEPT !.type = t]
    [] OTHER -> Failed

\* Only values of the same tag; unions, errors, frames and traits never pass.
RECURSIVE checkType(_, _)
checkType(v, t) ==
  LET Elements == IF v.complex[1] = "elements" THEN v.complex[2] ELSE <<>> IN
  /\ v.type[1] = t[1]
  /\ CASE t[1] = "List" -> \A i \in DOMAIN Elements : Len(t) = 1 \/ checkType(Elements[i], t[2])
       [] t[1] = "Tuple" -> Len(Elements) = Len(t[2]) /\ \A i \in DOMAIN Elements : checkType(Elements[i], t[2][i])
       [] t[1] \in {"Enum", "Union", "ErrorUnion", "UserDefined", "Frame", "Trait"} -> FALSE
       [] OTHER -> TRUE

\* The number, by the tag of the target; every other target is an exception.
convertNumber(n, t) ==
  IF t[1] \in Signed \cup Unsigned \cup FloatTags THEN Value(t, NumData(to_string(Cast(n, t[1]), t[1])), None) ELSE Failed

convert(v, t) ==
  CASE ~canConvert(v.type, t) -> Failed
    [] canConvert(v.type, t) /\ v.type[1] \in Signed \cup Unsigned -> convertNumber(toInt64(v.data), t)
    [] canConvert(v.type, t) /\ v.type[1] \in FloatTags -> convertNumber(toDouble(v.data), t)
    [] canConvert(v.type, t) /\ v.type[1] \in {"String", "Nil"} -> IF v.type[1] = t[1] THEN Value(t, v.data, None) ELSE Failed
    [] canConvert(v.type, t) /\ v.type[1] = "Bool" -> IF t[1] = "Bool" THEN Value(t, BoolData(toBool(v.data)), None) ELSE Failed
    [] OTHER -> Value(t, NoText, v.complex)

createOkValue(t, v) == IF canConvert(v.type, t) THEN Value(createFallibleType(t), v.data, v.complex) ELSE Failed
createErrValue(t) == Value(createFallibleType(t), NoText, << "error", "DefaultError" >>)
isFallibleType(t) == t[1] = "ErrorUnion"
isOk(v)  == isFallibleType(v.type) /\ v.complex[1] # "error"
isErr(v) == isFallibleType(v.type) /\ v.complex[1] = "error"
unwrapOk_plain(v) == IF isOk(v) THEN Value(v.type[2], v.data, None) ELSE Failed
unwrapOk(v) == IF isOk(v) THEN Value(v.type[2], v.data, v.complex) ELSE Failed

createOptionType(t) == createUnionType(<< t, NilType >>)
isOptionType(t) == t[1] = "Union" /\ Len(t[2]) = 2 /\ Cardinality({i \in 1 .. 2 : t[2][i] = NilType}) = 1
getOptionValueType(t) == t[2][CHOOSE i \in 1 .. 2 : t[2][i] # NilType]

\* The data of the variant, not what a complex value holds.
createUnionValue(t, i, v) == IF canConvert(v.type, t[2][i + 1]) THEN [Value(t, v.data, None) EXCEPT !.variant = i] ELSE Failed
createSome(t, v) == IF canConvert(v.type, t) THEN createUnionValue(createOptionType(t), 0, v) ELSE Failed
createNone(t) == createUnionValue(createOptionType(t), 1, Value(NilType, NoText, None))

\* The tag of an option is Union, so every option is Some.
isSome(v) == isOptionType(v.type) /\ v.type[1] # "Nil"
unwrapSome(v) == IF isSome(v) THEN Value(getOptionValueType(v.type), v.data, None) ELSE Failed

------------------------------------------------------------------------------
Contents(v) == << v.data, v.complex >>
Keeps(v, k) == val' = v /\ kept' = (kept /\ k) /\ ops' = ops + 1 /\ UNCHANGED original

NoValue == [Failed EXCEPT !.type = None]
VInit == /\ \/ val = NoValue
            \/ \E t \in {Atom(x) : x \in Signed \cup Unsigned} :
                 \E n \in Numbers : Fits(n, t[1]) /\ val = Value(t, NumData(n), None)
            \/ \E t \in {Atom(x) : x \in FloatTags} : \E n \in Floats : val = Value(t, NumData(n), None)
         /\ ops = 0 /\ original = Contents(val) /\ kept = TRUE

Active == ops < MAX_OPS /\ val \notin {Failed, NoValue}

\* A default value starts a new history.
CreateValue(t) == /\ Active /\ createValue(t) # Failed
                  /\ val' = createValue(t) /\ original' = Contents(createValue(t)) /\ kept' = TRUE
                  /\ ops' = ops + 1

\* A float with no more than six decimals, at less than half a sixth decimal from one of the type.
HeldAsFloat(n, tag) == n % DECIMAL = 0 /\ 2 * Abs(n - Cast(n, tag)) < DECIMAL

\* What convert keeps: integers the target can hold, those above the signed range excepted, floats whose
\* digits survive the type and the text, and nothing else.
Convert(t) == /\ Active
              /\ LET v == val IN
                 Keeps(convert(v, t), /\ v.data[1] = "num"
                                      /\ \/ /\ v.type[1] \in Signed \cup Unsigned
                                            /\ t[1] \in Signed \cup Unsigned
                                            /\ Fits(v.data[2], t[1]) /\ Fits(v.data[2], "Int64")
                                         \/ /\ v.type[1] \in FloatTags
                                            /\ t[1] \in FloatTags
                                            /\ HeldAsFloat(v.data[2], t[1]) /\ HeldAsFloat(v.data[2], "Float64"))
MakeOk(t)  == Active /\ Keeps(createOkValue(t, val), TRUE)
MakeErr    == Active /\ Keeps(createErrValue(val.type), FALSE)
UnwrapOk   == Active /\ Keeps(unwrapOk(val), TRUE)
MakeSome   == Active /\ ~isOptionType(val.type) /\ Keeps(createSome(val.type, val), val.complex = None)
MakeNone   == Active /\ Keeps(createNone(val.type), FALSE)
UnwrapSome == Active /\ Keeps(unwrapSome(val), TRUE)

\* checkType writes the first value of the type into an enum.
CheckType == /\ Active /\ val.type[1] = "Enum"
             /\ Keeps([val EXCEPT !.complex = << "enum", 1 >>], val.complex = << "enum", 1 >>)

ValueNext == \/ \E t \in Targets : CreateValue(t) \/ Convert(t) \/ MakeOk(t)
             \/ MakeErr \/ UnwrapOk \/ MakeSome \/ MakeNone \/ UnwrapSome \/ CheckType

\* No value of the compiler goes through these operations: a behaviour checks a program or works on
\* a value.
Done == val # NoValue /\ ~Active /\ UNCHANGED << tsVars, valueVars >>
TypesInit == Init /\ VInit
TypesNext == \/ val = NoValue /\ Next /\ UNCHANGED valueVars
             \/ ValueNext /\ UNCHANGED tsVars
             \/ Done
Spec == TypesInit /\ [][TypesNext]_<< tsVars, valueVars >>

NeverPass == {"Enum", "Union", "ErrorUnion"}

\* A value keeps its contents through conversions to types that can hold it, ok values, options and
\* their unwrapping (convert, createOkValue, unwrapOk, createSome, unwrapSome): nothing but the named
\* losses (an integer the target cannot hold, a seventh decimal, more digits than a float of the target
\* has) changes it, what was an ok value is never taken for an error, and the value passes the check
\* (checkType) of the type it has.
ContentsKept ==
  (kept /\ val \notin {Failed, NoValue}) =>
    /\ Contents(val) = original /\ ~isErr(val)
    /\ val.type[1] \notin NeverPass => checkType(val, val.type)
==============================================================================
