------------------------------- MODULE TypeSystem -------------------------------
(***************************************************************************)
(* The types of the compiler (src/backend/types.hh) and their use by the   *)
(* type checker: the registries of names and the order in which getType    *)
(* reads them, the resolution of annotations, and the conversions.         *)
(*                                                                         *)
(* A type is a tuple that starts with its tag.  The types of the constants *)
(* of TypeSystem (INT64_TYPE, ...) are one object each, so for them the    *)
(* comparison of pointers is equality; all others are compared by what     *)
(* they hold, as two copies of them are.  A frame type has the one object  *)
(* createFrameType makes, whose traits are kept in cached.                 *)
(***************************************************************************)
EXTENDS Integers, FiniteSetsExt, SequencesExt, TLC

CONSTANTS Decls,             \* names to declarations: enum, type, frame, trait, and local: a type in a block
          MAX_LOOKUPS        \* bound: lookups of types by the statements

VARIABLES pass,              \* of check_program: -1 discovery, 1 names, 2 signatures, 3 declarations, 4 a function
          todo,              \* the names the pass has not come to
          scopeStack,        \* its outermost scope: nothing registers a type in an inner one
          userDefinedTypes, typeAliases, frameRegistry, traitRegistry,
          cached,            \* the traits in the objects of frame types
          variable_types,    \* of variants: << variant >> and << enum, variant >> to types
          variant_owners,    \* variants to their enums, in the order of discovery
          lookups            \* the lookups made

registries == << userDefinedTypes, typeAliases, frameRegistry, traitRegistry, cached, variable_types, variant_owners >>
tsVars == << pass, todo, scopeStack, registries, lookups >>

Atom(tag) == << tag >>
AnyType   == Atom("Any")
NilType   == Atom("Nil")
IntTags   == {"Int8", "Int16", "Int32", "Int64", "Int128", "UInt8", "UInt16", "UInt32", "UInt64", "UInt128"}
FloatTags == {"Float32", "Float64"}
DecimalTags == {"Decimal2", "Decimal4", "Decimal6"}
isIntegerType(t) == t[1] \in IntTags
isFloatType(t)   == t[1] \in FloatTags
isDecimalType(t) == t[1] \in DecimalTags
isNumericType(t) == isIntegerType(t) \/ isFloatType(t) \/ isDecimalType(t)
Thrown == Atom("thrown")     \* an exception

Put(f, k, v) == [x \in DOMAIN f \cup {k} |-> IF x = k THEN v ELSE f[x]]
Empty == [x \in {} |-> NilType]

------------------------------------------------------------------------------
\* Conversions.
RECURSIVE canConvert(_, _)

implements(name) == (IF name \in DOMAIN cached THEN cached[name] ELSE {})
                    \cup (IF name \in DOMAIN frameRegistry THEN frameRegistry[name].implements ELSE {})
FieldsOf(t) == CASE t[1] = "Structural" -> t[2]
                 [] t[1] = "Frame" -> IF t[2] \in DOMAIN frameRegistry THEN frameRegistry[t[2]].fields ELSE <<>>

\* Every field of the target is a field of the source.
HasFields(from, to) ==
  \A i \in DOMAIN to[2] :
    LET at == {j \in DOMAIN FieldsOf(from) : FieldsOf(from)[j][1] = to[2][i][1]}
    IN at # {} /\ canConvert(FieldsOf(from)[Min(at)][2], to[2][i][2])

\* Lists, dictionaries and tuples element by element; without element types they are generic.
convertContainers(from, to) ==
  \/ Len(from) = 1 \/ Len(to) = 1
  \/ from[1] = "List" /\ canConvert(from[2], to[2])
  \/ from[1] = "Dict" /\ canConvert(from[2], to[2]) /\ canConvert(from[3], to[3])
  \/ from[1] = "Tuple" /\ Len(from[2]) = Len(to[2]) /\ \A i \in DOMAIN from[2] : canConvert(from[2][i], to[2][i])

convertErrorUnions_generic(from, to) == canConvert(from[2], to[2]) /\ (to[4] \/ from[4] \/ from[3] \subseteq to[3])

\* << "ErrorUnion", success, errors, generic >>
convertErrorUnions(from, to) ==
  /\ canConvert(from[2], to[2])
  /\ to[4] \/ (~from[4] /\ from[3] \subseteq to[3])

\* << "Function", parameters, result >>: parameters the other way round.
convertFunctions(from, to) ==
  \/ Len(from) = 1 \/ Len(to) = 1
  \/ /\ Len(from[2]) = Len(to[2])
     /\ \A i \in DOMAIN from[2] : canConvert(to[2][i], from[2][i])
     /\ canConvert(from[3], to[3])

convertStructure(from, to) ==
  IF from[1] = to[1] /\ from[1] \in {"List", "Dict", "Tuple"} THEN convertContainers(from, to)
  ELSE IF from[1] = "Union" THEN \A i \in DOMAIN from[2] : canConvert(from[2][i], to)
  ELSE IF to[1] = "Union" THEN \E i \in DOMAIN to[2] : canConvert(from, to[2][i])
  ELSE IF from[1] = "ErrorUnion" /\ to[1] = "ErrorUnion" THEN convertErrorUnions(from, to)
  ELSE IF to[1] = "ErrorUnion" THEN canConvert(from, to[2])
  ELSE from[1] = "Function" /\ to[1] = "Function" /\ convertFunctions(from, to)

\* The constants, and the type of a trait that check_trait_declaration registered.
OneObject(t) == Len(t) = 1 \/ t[1] = "Trait"

\* The rules in their order: each is final for the types it is about.
canConvert(from, to) ==
  IF (from = to /\ OneObject(from)) \/ to = AnyType THEN TRUE
  ELSE IF isDecimalType(from) \/ isDecimalType(to) THEN from[1] = to[1]
  ELSE IF from[1] = "Frame" /\ to[1] = "Trait" /\ to[2] \in implements(from[2]) THEN TRUE
  ELSE IF from[1] = to[1] /\ from[1] \in {"Frame", "Enum"} THEN from[2] = to[2]
  ELSE IF from[1] = "Refined" THEN canConvert(from[2], to)
  ELSE IF to[1] = "Refined" THEN canConvert(from, to[2])
  ELSE IF to[1] = "Structural" /\ from[1] \in {"Structural", "Frame"} THEN HasFields(from, to)
  ELSE IF (isIntegerType(from) /\ isIntegerType(to)) \/ (isFloatType(from) /\ isFloatType(to)) THEN TRUE
  ELSE convertStructure(from, to)

Scale(t) == CASE t[1] = "Decimal2" -> 2 [] t[1] = "Decimal4" -> 4 [] t[1] = "Decimal6" -> 6 [] OTHER -> 0

\* The type of both operands, or an exception.
RECURSIVE getCommonType(_, _)
Unified(tag, parts) == IF Thrown \in ToSet(parts) THEN Thrown ELSE << tag >> \o parts
Mixed(a, b) == isFloatType(a) \/ isFloatType(b)
ByConversion_narrow(a, b) == IF canConvert(a, b) THEN a ELSE IF canConvert(b, a) THEN b ELSE Thrown
ByConversion(a, b) == IF canConvert(a, b) THEN b ELSE IF canConvert(b, a) THEN a ELSE Thrown
getCommonType(a, b) ==
  IF a = AnyType THEN b
  ELSE IF b = AnyType THEN a
  ELSE IF a[1] = b[1] /\ a[1] \in {"List", "Dict"} /\ Len(a) > 1 /\ Len(b) > 1
       THEN Unified(a[1], [i \in 1 .. Len(a) - 1 |-> getCommonType(a[i + 1], b[i + 1])])
  ELSE IF isDecimalType(a) \/ isDecimalType(b) THEN IF Scale(a) >= Scale(b) THEN a ELSE b
  ELSE IF Mixed(a, b) /\ {a[1], b[1]} \subseteq IntTags \cup FloatTags THEN Atom("Float64")
  ELSE ByConversion(a, b)

\* Frames are known from PASS 2 on, traits when they were checked in PASS 3; a frame passes for a trait
\* that it names, or all of whose methods it has.
trait_declarations == {n \in DOMAIN userDefinedTypes : userDefinedTypes[n] = << "Trait", n >>}
check_methods(f, t) ==
  /\ f \in DOMAIN frameRegistry /\ t \in trait_declarations
  /\ t \in Decls[f].implements \/ Decls[t].methods \subseteq Decls[f].methods

\* The type checker's own question, which looks through refinements: any type with Any, numbers with
\* numbers, frames with traits.
RECURSIVE unwrapRefined(_)
unwrapRefined(t) == IF t[1] = "Refined" THEN unwrapRefined(t[2]) ELSE t
CompatibleBases(expected, actual) ==
  IF AnyType \in {expected, actual} THEN TRUE
  ELSE IF isNumericType(expected) /\ isNumericType(actual)
       THEN (isDecimalType(expected) \/ isDecimalType(actual)) => expected[1] = actual[1]
  ELSE \/ actual[1] = "Frame" /\ expected[1] = "Trait" /\ check_methods(actual[2], expected[2])
       \/ actual[1] = "Trait" /\ expected[1] = "Trait" /\ actual[2] = expected[2]
       \/ canConvert(actual, expected)
is_type_compatible(expected, actual) == CompatibleBases(unwrapRefined(expected), unwrapRefined(actual))

------------------------------------------------------------------------------
\* Names.
Builtins == [int |-> Atom("Int64"), str |-> Atom("String"), list |-> Atom("List")]

\* getType: the scope, user-defined types, frames, traits, built-in types, aliases, nil.
getType(n) ==
  IF n \in DOMAIN scopeStack THEN scopeStack[n]
  ELSE IF n \in DOMAIN userDefinedTypes THEN userDefinedTypes[n]
  ELSE IF n \in DOMAIN frameRegistry THEN << "Frame", n >>
  ELSE IF n \in traitRegistry THEN << "Trait", n >>
  ELSE IF n \in DOMAIN Builtins THEN Builtins[n]
  ELSE IF n \in DOMAIN typeAliases THEN typeAliases[n]
  ELSE NilType

createUnionType(ts) == IF Len(ts) = 0 THEN NilType ELSE IF Len(ts) = 1 THEN ts[1] ELSE << "Union", ts >>
createFallibleType(t) == << "ErrorUnion", t, {}, TRUE >>

\* An annotation is << "name", n >>, or a tuple like that of the type it denotes.
RECURSIVE resolve_type_annotation(_)
resolve_type_annotation(a) ==
  LET All(as) == [i \in DOMAIN as |-> resolve_type_annotation(as[i])] IN
  CASE a[1] = "name"     -> getType(a[2])
    [] a[1] = "Structural" -> << "Structural", [i \in DOMAIN a[2] |-> << a[2][i][1], resolve_type_annotation(a[2][i][2]) >>] >>
    [] a[1] = "Union"    -> createUnionType(All(a[2]))
    [] a[1] = "List"     -> << "List", resolve_type_annotation(a[2]) >>
    [] a[1] = "Dict"     -> << "Dict", resolve_type_annotation(a[2]), resolve_type_annotation(a[3]) >>
    [] a[1] = "Tuple"    -> << "Tuple", All(a[2]) >>
    [] a[1] = "Function" -> << "Function", All(a[2]), resolve_type_annotation(a[3]) >>
    [] a[1] = "Refined"  -> << "Refined", resolve_type_annotation(a[2]) >>
    [] a[1] = "Optional" -> createFallibleType(resolve_type_annotation(a[2]))
    [] a[1] = "Fallible" -> resolve_type_annotation(a[2])   \* T?E: the errors are not looked at

------------------------------------------------------------------------------
\* The passes of check_program.
Names == DOMAIN Decls
Kind(n) == Decls[n].kind
Variants(n) == DOMAIN Decls[n].variants

Init == /\ pass = -1 /\ todo = Names
        /\ scopeStack = Empty
        /\ userDefinedTypes = Empty /\ typeAliases = Empty
        /\ frameRegistry = [x \in {} |-> [implements |-> {}, fields |-> <<>>]] /\ traitRegistry = {}
        /\ cached = [x \in {} |-> {}]
        /\ variable_types = Empty /\ variant_owners = [v \in {} |-> <<>>]
        /\ lookups = 0

\* createFrameType(n): the object that is registered, or a new one with the traits known so far.
createFrameType(n) ==
  IF n \in DOMAIN userDefinedTypes THEN UNCHANGED << userDefinedTypes, cached >>
  ELSE /\ userDefinedTypes' = Put(userDefinedTypes, n, << "Frame", n >>)
       /\ cached' = Put(cached, n, IF n \in DOMAIN frameRegistry THEN frameRegistry[n].implements ELSE {})

addUserDefinedType(n, t) == userDefinedTypes' = Put(userDefinedTypes, n, t)

\* A variant without values has the type of its enum, one with values is a function to it.
VariantType(n, params) == IF params = <<>> THEN << "Enum", n >> ELSE << "Function", params, << "Enum", n >> >>
AnyOf(as) == [i \in DOMAIN as |-> AnyType]
Resolved(as) == [i \in DOMAIN as |-> resolve_type_annotation(as[i])]

Visit(p, n) == pass = p /\ n \in todo /\ todo' = todo \ {n} /\ UNCHANGED << pass, lookups >>

\* PASS -1: enums with their type and the qualified names of their variants, aliases with Any, frames with an object.
register_custom_type(n) ==
  /\ Visit(-1, n)
  /\ CASE Kind(n) = "enum" -> addUserDefinedType(n, << "Enum", n >>) /\ UNCHANGED cached
       [] Kind(n) = "type" -> addUserDefinedType(n, AnyType) /\ UNCHANGED cached
       [] Kind(n) = "frame" -> createFrameType(n)
       [] OTHER -> UNCHANGED << userDefinedTypes, cached >>
  /\ variable_types' = [k \in {<< n, v >> : v \in Variants(n)} |-> VariantType(n, AnyOf(Decls[n].variants[k[2]]))] @@ variable_types
  /\ variant_owners' = [v \in DOMAIN variant_owners \cup Variants(n) |->
                          (IF v \in DOMAIN variant_owners THEN variant_owners[v] ELSE <<>>)
                          \o (IF v \in Variants(n) THEN << n >> ELSE <<>>)]
  /\ UNCHANGED << scopeStack, typeAliases, frameRegistry, traitRegistry >>

\* PASS 1: traits get a type without a name.
register_name(n) ==
  /\ Visit(1, n)
  /\ CASE Kind(n) = "frame" -> createFrameType(n)
       [] Kind(n) = "trait" -> addUserDefinedType(n, << "Trait", "" >>) /\ UNCHANGED cached
       [] OTHER -> UNCHANGED << userDefinedTypes, cached >>
  /\ UNCHANGED << scopeStack, typeAliases, frameRegistry, traitRegistry, variable_types, variant_owners >>

\* PASS 2: registerFrame also updates the object, registerTrait.
collect_signature(n) ==
  /\ Visit(2, n) /\ Kind(n) \in {"frame", "trait", "type", "local"}
  /\ frameRegistry' = IF Kind(n) = "frame"
                      THEN (n :> [implements |-> Decls[n].implements,
                                  fields |-> [i \in DOMAIN Decls[n].fields |->
                                                << Decls[n].fields[i][1], resolve_type_annotation(Decls[n].fields[i][2]) >>]]) @@ frameRegistry
                      ELSE frameRegistry
  /\ cached' = IF Kind(n) = "frame" /\ n \in DOMAIN userDefinedTypes THEN Put(cached, n, Decls[n].implements) ELSE cached
  /\ traitRegistry' = traitRegistry \cup (IF Kind(n) = "trait" THEN {n} ELSE {})
  /\ UNCHANGED << scopeStack, userDefinedTypes, typeAliases, variable_types, variant_owners >>

\* PASS 2: the variants of an enum once more, now with the types of their values and without the
\* name of the enum too; a constructor of one value also becomes a type.
check_enum_declaration(n) ==
  /\ Visit(2, n) /\ Kind(n) = "enum"
  /\ variable_types' = [k \in {<< n, v >> : v \in Variants(n)} \cup {<< v >> : v \in Variants(n)} |->
                          VariantType(n, Resolved(Decls[n].variants[k[Len(k)]]))] @@ variable_types
  /\ scopeStack' = [v \in {w \in Variants(n) : Len(Decls[n].variants[w]) = 1} |->
                      VariantType(n, Resolved(Decls[n].variants[v]))] @@ scopeStack
  /\ UNCHANGED << userDefinedTypes, typeAliases, frameRegistry, traitRegistry, cached, variant_owners >>

NextPass == /\ todo = {} /\ pass < 3
            /\ pass' = CASE pass = -1 -> 1 [] OTHER -> pass + 1
            /\ todo' = Names
            /\ UNCHANGED << scopeStack, registries, lookups >>

\* PASS 3: check_type_declaration registers an alias, in a block too, and check_trait_declaration a
\* type with a name; check_statement passes over enums, those in blocks included.
check_declaration(n) ==
  /\ Visit(3, n)
  /\ typeAliases' = IF Kind(n) \in {"type", "local"} THEN Put(typeAliases, n, resolve_type_annotation(Decls[n].type)) ELSE typeAliases
  /\ userDefinedTypes' = IF Kind(n) = "trait" THEN Put(userDefinedTypes, n, << "Trait", n >>) ELSE userDefinedTypes
  /\ UNCHANGED << scopeStack, frameRegistry, traitRegistry, cached, variable_types, variant_owners >>

\* getType creates the object of a frame that is known by the registry only.
LookUp(n) == /\ pass = 3 /\ lookups < MAX_LOOKUPS /\ lookups' = lookups + 1
             /\ IF n \notin DOMAIN scopeStack /\ n \in DOMAIN frameRegistry THEN createFrameType(n) ELSE UNCHANGED << userDefinedTypes, cached >>
             /\ UNCHANGED << pass, todo, scopeStack, typeAliases, frameRegistry, traitRegistry, variable_types, variant_owners >>

Terminated == pass = 3 /\ todo = {} /\ UNCHANGED tsVars

Next == \/ \E n \in Names : \/ register_custom_type(n) \/ register_name(n) \/ collect_signature(n)
                            \/ check_enum_declaration(n) \/ check_declaration(n) \/ LookUp(n)
        \/ NextPass \/ Terminated

------------------------------------------------------------------------------
CONSTANT Universe            \* types with all their parts, no decimals, no fallible Any

Asking == pass = 3 /\ todo \in {Names, {}}
Converts == {p \in Universe \X Universe : canConvert(p[1], p[2])}
HoldsAny(t) == t = AnyType \/ (t[1] \in {"List", "Dict"} /\ \E i \in 2 .. Len(t) : t[i] = AnyType)

\* Conversions (canConvert) of types that have all their parts do not depend on the way: every type
\* converts to a copy of itself, and what converts in two steps converts in one.
\* Statements ask in the last pass: here before its declarations and after them.
ConversionPreorder == Asking =>
  LET C == Converts IN
  /\ \A t \in Universe : << t, t >> \in C
  /\ \A p, q \in C : p[2] = q[1] => << p[1], q[2] >> \in C

\* The common type of two operands (getCommonType) is one both convert to, and does not depend on their
\* order, unless one is or holds Any, which gives way to the other, or an integer meets a float.
CommonIsUpperBound == Asking =>
  \A a, b \in {t \in Universe : ~HoldsAny(t)} :
    LET c == getCommonType(a, b)
        d == getCommonType(b, a)
    IN ~Mixed(a, b) => /\ c = Thrown <=> d = Thrown
                       /\ c # Thrown => canConvert(a, c) /\ canConvert(b, c) /\ canConvert(c, d)

\* The name of an alias means the type it was declared for.
AliasMeansType == \A n \in DOMAIN typeAliases : getType(n) = typeAliases[n]
==============================================================================
