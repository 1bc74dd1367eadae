--------------------------------- MODULE Typing ---------------------------------
(***************************************************************************)
(* How the type checker types a function: expressions, calls, lambdas and  *)
(* their captures, fallible values, match statements and their patterns,   *)
(* and the errors a function declares (src/frontend/type_checker).         *)
(*                                                                         *)
(* Expressions, statements and patterns are tuples that start with their   *)
(* kind; a name is a sequence, << variant >> or << enum, variant >>.  Each *)
(* check takes and returns a context and also returns a type, Null for a   *)
(* null pointer; using one is the error "crash".  Moves, references and    *)
(* memory regions are those of TypeChecker; frames, imports and the        *)
(* literals beyond 64 bits are left out.                                   *)
(***************************************************************************)
EXTENDS TypeSystem

CONSTANTS Functions,         \* the functions to check
          Helpers            \* names to the signatures of functions declared elsewhere

VARIABLES fn,                \* the function that is checked, or NoFunction
          checked            \* what its check reported and recorded

typingVars == << fn, checked >>

Null == Atom("null")
Absent == << "none" >>
BoolType == Atom("Bool")
IntType  == Atom("Int64")
StringType == Atom("String")

\* scopes: names to types; ret: current_return_type; captures and markers: a stack each, of the
\* lambdas being checked; lax: history, why the type of something may say too little.
Context == [scopes |-> <<>>, sigs |-> Empty, ret |-> Null, errors |-> {}, undefined |-> {},
            captures |-> <<>>, markers |-> <<>>, lambdas |-> {}, lax |-> {}]
NoFunction == [params |-> <<>>, optional |-> 0, returns |-> Absent, body |-> <<>>]

add_error(c, p, what) == IF p THEN [c EXCEPT !.errors = @ \cup {what}] ELSE c
Lax(c, p, why) == IF p THEN [c EXCEPT !.lax = @ \cup {why}] ELSE c
enter_scope(c) == [c EXCEPT !.scopes = Append(@, Empty)]
exit_scope(c)  == [c EXCEPT !.scopes = Front(@)]
declare_variable(c, n, t) == [c EXCEPT !.scopes[Len(c.scopes)] = (n :> t) @@ @]
Defining(c, n) == Max({0} \cup {i \in DOMAIN c.scopes : n \in DOMAIN c.scopes[i]})
lookup_variable(c, n) == IF Defining(c, n) # 0 THEN c.scopes[Defining(c, n)][n]
                         ELSE IF n \in DOMAIN variable_types THEN variable_types[n] ELSE Null

Compatible(expected, actual) == Null \notin {expected, actual} /\ is_type_compatible(expected, actual)
is_boolean_type(t) == t[1] \in {"Bool", "Union", "ErrorUnion"}
RECURSIVE MentionsAny(_)
MentionsAny(t) == \/ t = AnyType
                  \/ t[1] \in {"List", "ErrorUnion"} /\ MentionsAny(t[2])
                  \/ t[1] = "Dict" /\ (MentionsAny(t[2]) \/ MentionsAny(t[3]))
                  \/ t[1] \in {"Tuple", "Function"} /\ \E i \in DOMAIN t[2] : MentionsAny(t[2][i])
                  \/ t[1] = "Function" /\ MentionsAny(t[3])

\* Names and literals.
check_literal_expr(tag, expected) == IF tag \in {"Int64", "Float64"} /\ isDecimalType(expected) THEN expected ELSE Atom(tag)
check_literal_expr_with_expected_type(tag, expected) ==
  IF (tag = "Int64" /\ isIntegerType(expected)) \/ (tag = "Float64" /\ isFloatType(expected)) THEN expected
  ELSE check_literal_expr(tag, expected)

should_capture_variable_enclosing(c, n) == c.markers # <<>> /\ Defining(c, n) # 0 /\ Defining(c, n) + 2 < Last(c.markers)

\* Defined outside the innermost lambda, and in some scope.
should_capture_variable(c, n) == c.markers # <<>> /\ Defining(c, n) # 0 /\ Defining(c, n) < Last(c.markers)

\* The enums that have a variant.
Owners(n) == IF Len(n) = 1 /\ n[1] \in DOMAIN variant_owners THEN variant_owners[n[1]] ELSE <<>>
EnumContext(c, expected) == IF expected # Null THEN expected ELSE c.ret
check_variable_expr(c, n, expected) ==
  LET enum == EnumContext(c, expected)
      own  == IF enum[1] = "Enum" THEN lookup_variable(c, << enum[2] >> \o n) ELSE Null
      any  == IF own # Null THEN own ELSE lookup_variable(c, n)
      name == IF any = Null /\ Len(n) = 1 /\ getType(n[1]) # NilType THEN getType(n[1]) ELSE any
      d    == [c EXCEPT !.captures = IF should_capture_variable(c, n) THEN [@ EXCEPT ![Len(@)] = @ \cup {n}] ELSE @]
  IN IF name = Null THEN << Null, [add_error(c, TRUE, "undefined") EXCEPT !.undefined = @ \cup {n}] >>
     ELSE << name, Lax(d, Len(Owners(n)) > 1, "shared variant") >>

------------------------------------------------------------------------------
\* Operators.
NumericResult(c, a, b) ==
  IF isDecimalType(a) \/ isDecimalType(b) THEN << Atom("Decimal4"), add_error(c, TRUE, "mixed decimals") >>
  ELSE << getCommonType(a, b), c >>

check_arithmetic(c, op, a, b) ==
  IF AnyType \in {a, b} THEN << AnyType, c >>
  ELSE IF isDecimalType(a) /\ isDecimalType(b) THEN << IF Scale(a) >= Scale(b) THEN a ELSE b, c >>
  ELSE IF isNumericType(a) /\ isNumericType(b) THEN NumericResult(c, a, b)
  ELSE IF op = "+" /\ StringType \in {a, b} THEN << StringType, c >>
  ELSE << IntType, add_error(c, TRUE, "operands") >>

check_modulus(c, op, a, b) ==
  IF AnyType \in {a, b} THEN << AnyType, c >>
  ELSE IF op = "%" /\ (isDecimalType(a) \/ isDecimalType(b)) THEN << a, add_error(c, a # b, "scales") >>
  ELSE IF isNumericType(a) /\ isNumericType(b) THEN NumericResult(c, a, b)
  ELSE << IntType, add_error(c, TRUE, "operands") >>

\* The operands' own types, then the result.
Operands(op, left, expected) ==
  << IF op \in {"+", "-", "*", "/", "%"} THEN expected ELSE IF op \in {"and", "or"} THEN BoolType ELSE Null,
     IF op \in {"and", "or"} THEN BoolType ELSE left >>

check_binary_types(c, op, left, right) ==
  LET a == unwrapRefined(left)
      b == unwrapRefined(right)
  IN IF Null \in {left, right} THEN << AnyType, add_error(c, TRUE, "crash") >>
     ELSE CASE op \in {"+", "-", "*", "/"} -> check_arithmetic(c, op, a, b)
       [] op \in {"%", "**"} -> check_modulus(c, op, a, b)
       [] op \in {"==", "<"} -> << BoolType, add_error(c, (isDecimalType(a) \/ isDecimalType(b)) /\ a[1] # b[1], "scales") >>
       [] op \in {"and", "or"} -> << BoolType, add_error(c, ~(is_boolean_type(left) /\ is_boolean_type(right)), "not boolean") >>

check_unary_types(c, op, t) ==
  IF t = Null THEN << AnyType, add_error(c, TRUE, "crash") >>
  ELSE CASE op = "!" -> << BoolType, add_error(c, ~is_boolean_type(t), "not boolean") >>
    [] op \in {"-", "+"} -> << IF isDecimalType(unwrapRefined(t)) THEN unwrapRefined(t) ELSE t,
                      add_error(c, ~isNumericType(unwrapRefined(t)), "not numeric") >>

\* The type of all the elements, or Any.
Consistent(ts)  == Cardinality(ToSet(ts)) = 1 /\ Null \notin ToSet(ts)
Homogeneous(ts) == IF Consistent(ts) THEN ts[1] ELSE AnyType
check_dict_types(c, ks, vs) ==
  IF ks = <<>> THEN << << "Dict", NilType, AnyType >>, c >>
  ELSE IF Consistent(ks) THEN << << "Dict", ks[1], Homogeneous(vs) >>, c >>
  ELSE << << "Dict", NilType, AnyType >>, add_error(c, TRUE, "keys") >>

\* A character of a string has the type nil, an element of a tuple any type.
check_index_types(c, object, index) ==
  LET d == add_error(c, object[1] \in {"List", "String", "Tuple"} /\ index[1] # "Int64", "index") IN
  IF Null \in {object, index} THEN << AnyType, add_error(c, TRUE, "crash") >>
  ELSE CASE object[1] = "List" /\ Len(object) > 1 -> << object[2], d >>
    [] object[1] = "Dict" /\ Len(object) > 1 -> << object[3], add_error(c, ~Compatible(object[2], index), "key") >>
    [] object[1] = "String" -> << NilType, Lax(d, TRUE, "character") >>
    [] object[1] = "Tuple" -> << AnyType, d >>
    [] OTHER -> << AnyType, add_error(c, TRUE, "cannot index") >>

check_cast_types(c, source, target) ==
  << target, Lax(add_error(c, (isDecimalType(source) \/ isDecimalType(target)) /\ ~isNumericType(source), "cast"), TRUE, "cast") >>

\* err(...): the type of the function that returns it.
check_error_construct_expr(c) == << IF c.ret[1] = "ErrorUnion" THEN c.ret ELSE createFallibleType(NilType), c >>
check_ok_types(c, t) ==
  IF t = Null THEN << Null, add_error(c, TRUE, "ok") >>
  ELSE IF c.ret[1] # "ErrorUnion" THEN << createFallibleType(t), c >>
  ELSE IF Compatible(c.ret[2], t) THEN << c.ret, c >>
  ELSE << createFallibleType(t), add_error(c, TRUE, "ok") >>
\* e?: of any function, also of one that cannot fail.
check_fallible_types(c, t) ==
  IF t[1] = "ErrorUnion" THEN << t[2], Lax(c, c.ret[1] # "ErrorUnion", "propagation") >>
  ELSE << Null, add_error(c, TRUE, "not fallible") >>

------------------------------------------------------------------------------
validate_argument_types_first(c, expected, actual, name) ==
  LET fits == actual = <<>> \/ Compatible(expected[1], actual[1])
  IN IF Len(actual) > Len(expected) THEN << FALSE, c >>
     ELSE << fits, add_error(c, ~fits, "argument") >>

\* Calls.  The number of arguments a function declared in the program takes depends on its optional
\* parameters; all others take exactly their parameters.
validate_argument_types(c, expected, actual, name) ==
  LET known == name \in DOMAIN c.sigs
      fits  == \A i \in DOMAIN actual : Compatible(expected[i], actual[i])
  IN IF Len(actual) > Len(expected) THEN << FALSE, c >>
     ELSE IF ~known THEN << Len(actual) = Len(expected) /\ fits, c >>
     ELSE IF Len(actual) < Len(expected) - c.sigs[name].optional THEN << FALSE, add_error(c, TRUE, "arguments") >>
     ELSE << fits, add_error(c, ~fits, "argument") >>

\* << succeeded, type, context >>: as a value of function type, then by its signature.
BySignature(t, w) == << w[1], t, w[2] >>
ByValue(c, name, actual, t, v) ==
  IF v[1] THEN << TRUE, t, v[2] >>
  ELSE IF name \notin DOMAIN c.sigs THEN << FALSE, Null, [add_error(v[2], TRUE, "undefined") EXCEPT !.undefined = @ \cup {name}] >>
  ELSE BySignature(c.sigs[name].returns, validate_argument_types(v[2], c.sigs[name].params, actual, name))
check_function_call(c, name, actual) ==
  LET callee == lookup_variable(c, name)
  IN ByValue(c, name, actual, Last(callee), IF callee[1] = "Function" THEN validate_argument_types(c, callee[2], actual, name) ELSE << FALSE, c >>)

\* A variant of the enum that is expected, or of the only enum that has it.
CallTarget(c, n, expected) ==
  LET enum == EnumContext(c, expected) IN
  IF enum[1] = "Enum" /\ (<< enum[2] >> \o n) \in DOMAIN c.sigs THEN << enum[2] >> \o n
  ELSE IF Len(Owners(n)) = 1 THEN << Owners(n)[1] >> \o n ELSE n

\* enum.variant(...): of the result only the errors it reports count, so surplus arguments pass.
check_qualified_call(c, n, actual) ==
  IF n \notin DOMAIN c.sigs THEN << NilType, add_error(c, TRUE, "undefined") >>
  ELSE << c.sigs[n].returns,
          Lax(validate_argument_types(c, c.sigs[n].params, actual, n)[2], Len(actual) > Len(c.sigs[n].params), "surplus arguments") >>

\* A value that is not the name of a known function.
ValueCalled(t, c, actual) ==
  LET wrong == ~(Len(actual) = Len(t[2]) /\ \A i \in DOMAIN actual : Compatible(t[2][i], actual[i]))
  IN IF t[1] = "Function" THEN << t[3], add_error(c, wrong, "arguments") >> ELSE << NilType, add_error(c, TRUE, "no function") >>
check_callee(c, n, actual) ==
  LET r == check_variable_expr(c, n, Null)
  IN IF n \in c.undefined THEN << NilType, c >> ELSE ValueCalled(r[1], r[2], actual)

NameCalled(c, n, actual, r) ==
  IF r[1] THEN << r[2], Lax(r[3], should_capture_variable(c, n), "called, not captured") >> ELSE check_callee(r[3], n, actual)
check_call_types(c, n, actual, expected) ==
  LET target == CallTarget(c, n, expected)
  IN IF Len(n) = 2 THEN check_qualified_call(c, n, actual)
     ELSE IF target = n /\ Len(Owners(n)) > 1 THEN << Null, add_error(c, TRUE, "ambiguous") >>
     ELSE NameCalled(c, n, actual, check_function_call(c, target, actual))

ParamExpected(c, n, i) == IF n \in DOMAIN c.sigs /\ Len(n) = 1 /\ i <= Len(c.sigs[n].params) THEN c.sigs[n].params[i] ELSE Null

------------------------------------------------------------------------------
\* Patterns declare the variables they bind.  A variant is looked up by its name alone first, which
\* finds the enum declared last; the attempts after that are for names no enum has.
RECURSIVE validate_pattern_compatibility(_, _, _)
ValidateAll(c, ps, ts) ==
  FoldLeft(LAMBDA d, i : validate_pattern_compatibility(d, ps[i], ts[i]), c, [i \in DOMAIN ps |-> i])
EachOf(ps, t) == [i \in DOMAIN ps |-> t]

validate_variant_pattern(c, name, ps, t) ==
  LET ctor == lookup_variable(c, name)
      d == Lax(c, Len(name) = 1 /\ Len(Owners(name)) > 1, "shared variant")
  IN CASE ctor[1] = "Function" -> IF Len(ps) = Len(ctor[2]) THEN ValidateAll(d, ps, ctor[2]) ELSE add_error(d, TRUE, "pattern values")
       [] ctor[1] = "Enum" -> add_error(d, ps # <<>>, "pattern values")
       [] OTHER -> IF t = AnyType THEN ValidateAll(d, ps, EachOf(ps, AnyType)) ELSE add_error(d, TRUE, "unknown pattern")

validate_list_pattern(c, ps, rest, t) ==
  LET d == CASE t[1] = "List" /\ Len(t) > 1 -> ValidateAll(c, ps, EachOf(ps, t[2]))
             [] t = AnyType -> ValidateAll(c, ps, EachOf(ps, t))
             [] OTHER -> add_error(c, t[1] # "List", "list pattern")
  IN IF rest # <<>> /\ ((t[1] = "List" /\ Len(t) > 1) \/ t = AnyType) THEN declare_variable(d, rest, t) ELSE d

validate_tuple_pattern(c, ps, t) ==
  CASE t[1] = "Tuple" /\ Len(t) > 1 -> IF Len(ps) = Len(t[2]) THEN ValidateAll(c, ps, t[2]) ELSE add_error(c, TRUE, "tuple pattern")
    [] t = AnyType -> ValidateAll(c, ps, EachOf(ps, t))
    [] OTHER -> add_error(c, t[1] # "Tuple", "tuple pattern")

\* The rest of a dictionary is bound when its type is not known, and only then.
validate_dict_pattern(c, ps, rest, t) ==
  LET d == ValidateAll(c, ps, EachOf(ps, IF t[1] = "Dict" /\ Len(t) > 1 THEN t[3] ELSE AnyType))
  IN IF rest # <<>> /\ t = AnyType THEN declare_variable(d, rest, AnyType) ELSE d

\* The error that err binds has the type nil.
validate_fallible_pattern(c, p, t) ==
  IF t[1] # "ErrorUnion" /\ t # AnyType THEN add_error(c, TRUE, "not an error union")
  ELSE CASE p[1] = "val" -> declare_variable(c, p[2], IF t = AnyType THEN AnyType ELSE t[2])
         [] p[1] = "err" -> declare_variable(Lax(c, TRUE, "error value"), p[2], NilType)
         [] p[1] = "error type" -> FoldLeft(LAMBDA d, n : declare_variable(d, n, AnyType), Lax(c, p[3] # <<>>, "error value"), p[3])

validate_pattern_compatibility(c, p, type) ==
  LET t == IF type = Null THEN AnyType ELSE type IN
  CASE p[1] = "variant" -> validate_variant_pattern(c, p[2], p[3], t)
    [] p[1] = "list" -> validate_list_pattern(c, p[2], p[3], t)
    [] p[1] = "tuple" -> validate_tuple_pattern(c, p[2], t)
    [] p[1] = "dict" -> validate_dict_pattern(c, p[2], p[3], t)
    [] p[1] \in {"val", "err", "error type"} -> validate_fallible_pattern(c, p, t)
    [] p[1] = "type" -> add_error(c, ~Compatible(resolve_type_annotation(p[2]), t), "type pattern")
    [] p[1] = "variable" -> declare_variable(c, p[2], t)
    [] p[1] \in {"_", "literal"} -> c

is_exhaustive_error_match_named(t, ps) ==
  LET other == \E p \in ps : p[1] \notin {"val", "err", "variant"}
  IN other \/ {"val", "err"} \subseteq {p[1] : p \in ps}

\* Only err(...) without a type covers the errors, of a union that names none; guards do not count,
\* and every other pattern is taken to cover everything.
is_exhaustive_error_match(t, ps) ==
  LET other == \E p \in ps : p[1] \notin {"val", "err", "variant"}
      success == other \/ \E p \in ps : p[1] = "val"
      generic == other \/ \E p \in ps : p[1] = "err" /\ p[3] = ""
      named == {p[3] : p \in {q \in ps : q[1] = "err"}}
  IN success /\ (generic \/ (~t[4] /\ t[3] \subseteq named))

------------------------------------------------------------------------------
\* Expressions.
RECURSIVE check_expression(_, _, _), check_statement(_, _)
Collected(acc, r) == << Append(acc[1], r[1]), r[2] >>
CheckAll(c, es, expected) ==
  FoldLeft(LAMBDA acc, i : Collected(acc, check_expression(acc[2], es[i], expected[i])), << <<>>, c >>, [i \in DOMAIN es |-> i])
Unexpected(es) == [i \in DOMAIN es |-> Null]
Left(r) == << r[1], exit_scope(r[2]) >>
CheckBlock(c, ss) == Left(FoldLeft(LAMBDA acc, s : check_statement(acc[2], s), << Null, enter_scope(c) >>, ss))

\* From the return statements at the top of the body, which all have a value, before any variable of the body is declared.
CommonReturn(r) ==
  LET Common(a, b) == IF Thrown \in {a, b} THEN Thrown ELSE getCommonType(a, b)
      t == IF Null \in ToSet(r[1]) THEN Thrown ELSE FoldLeft(Common, AnyType, r[1])
  IN << IF r[1] = <<>> THEN NilType ELSE IF t = Thrown THEN AnyType ELSE t, r[2] >>
infer_lambda_return_type(c, body) ==
  LET returns == SelectSeq(body, LAMBDA s : s[1] = "return")
  IN CommonReturn(CheckAll(c, [i \in DOMAIN returns |-> returns[i][2]], Unexpected(returns)))

\* The lambda's scope with its parameters, the body with the return type r[1], and what is left after it.
LambdaParams(e) == [i \in DOMAIN e[2] |-> IF e[2][i][2] = Absent THEN AnyType ELSE resolve_type_annotation(e[2][i][2])]
LambdaScope(c, e, ps) ==
  FoldLeft(LAMBDA x, i : declare_variable(x, e[2][i][1], ps[i]),
           [enter_scope(c) EXCEPT !.captures = Append(@, {}), !.markers = Append(@, Len(c.scopes) + 1)], [i \in DOMAIN ps |-> i])
LambdaLeft(c, e, ps, t, b) ==
  LET f == Lax(b, c.markers # <<>> /\ \E n \in Last(b.captures) : should_capture_variable(c, n), "captured by the inner lambda only")
  IN << << "Function", ps, t >>,
        [exit_scope(f) EXCEPT !.ret = c.ret, !.captures = Front(@), !.markers = Front(@),
                              !.lambdas = @ \cup {<< e, Last(b.captures), Len(c.captures) >>}] >>
LambdaBody(c, e, ps, r) == LambdaLeft(c, e, ps, r[1], CheckBlock([r[2] EXCEPT !.ret = r[1]], e[4])[2])
check_lambda_expr(c, e) ==
  LET d == LambdaScope(c, e, LambdaParams(e))
  IN LambdaBody(c, e, LambdaParams(e), IF e[3] = Absent THEN infer_lambda_return_type(d, e[4]) ELSE << resolve_type_annotation(e[3]), d >>)

Typed(r) == << r[1], Lax(r[2], MentionsAny(r[1]), "any") >>
With(r, K(_, _)) == K(r[2], r[1])
check_expression(c, e, expected) ==
  LET One == check_expression(c, Last(e), Null)
  IN Typed(CASE e[1] = "literal" -> << check_literal_expr(e[2], expected), c >>
             [] e[1] = "variable" -> check_variable_expr(c, e[2], expected)
             [] e[1] = "grouping" -> check_expression(c, e[2], expected)
             [] e[1] = "binary" -> With(check_expression(c, e[3], Operands(e[2], Null, expected)[1]), LAMBDA d, a :
                                     With(check_expression(d, e[4], Operands(e[2], a, expected)[2]), LAMBDA f, b :
                                       check_binary_types(f, e[2], a, b)))
             [] e[1] = "unary" -> With(check_expression(c, e[3], expected), LAMBDA d, a : check_unary_types(d, e[2], a))
             [] e[1] = "call" -> With(CheckAll(c, e[3], [i \in DOMAIN e[3] |-> ParamExpected(c, e[2], i)]), LAMBDA d, ts :
                                   check_call_types(d, e[2], ts, expected))
             [] e[1] = "list" -> With(CheckAll(c, e[2], Unexpected(e[2])), LAMBDA d, ts : << << "List", Homogeneous(ts) >>, d >>)
             [] e[1] = "tuple" -> With(CheckAll(c, e[2], Unexpected(e[2])), LAMBDA d, ts : << << "Tuple", ts >>, d >>)
             [] e[1] = "dict" -> With(CheckAll(c, e[2], Unexpected(e[2])), LAMBDA d, ks :
                                   With(CheckAll(d, e[3], Unexpected(e[3])), LAMBDA f, vs : check_dict_types(f, ks, vs)))
             [] e[1] = "index" -> With(CheckAll(c, << e[2], e[3] >>, << Null, Null >>), LAMBDA d, ts : check_index_types(d, ts[1], ts[2]))
             [] e[1] = "interpolated" -> << StringType, CheckAll(c, e[2], Unexpected(e[2]))[2] >>
             [] e[1] = "lambda" -> check_lambda_expr(c, e)
             [] e[1] = "err" -> check_error_construct_expr(c)
             [] e[1] = "ok" -> With(One, LAMBDA d, t : check_ok_types(d, t))
             [] e[1] = "fallible" -> With(One, LAMBDA d, t : check_fallible_types(d, t))
             [] e[1] = "cast" -> With(One, LAMBDA d, t : check_cast_types(d, t, resolve_type_annotation(e[2]))))

------------------------------------------------------------------------------
\* Statements.
\* A declared type gives a literal its width; it reaches the operands of the operators by check_expression.
check_expression_with_expected_type(c, e, expected) ==
  IF e[1] = "literal" THEN << check_literal_expr_with_expected_type(e[2], expected), c >>
  ELSE check_expression(c, e, IF e[1] \in {"call", "variable", "binary", "unary", "grouping"} THEN expected ELSE Null)

VarDeclared(name, declared, r) ==
  LET t == IF declared # Null THEN declared ELSE IF r[1] # Null THEN r[1] ELSE StringType
      d == add_error(add_error(r[2], Null \notin {declared, r[1]} /\ ~Compatible(declared, r[1]), "declared type"),
                     declared = Null /\ r[1] = Null, "no type")
  IN << t, declare_variable(d, name, t) >>
check_var_declaration(c, s) ==
  LET declared == IF s[3] = Absent THEN Null ELSE resolve_type_annotation(s[3])
  IN VarDeclared(s[2], declared, IF s[4] = Absent THEN << Null, c >> ELSE check_expression_with_expected_type(c, s[4], declared))

Destructured(names, t, c) ==
  LET DeclareAll(d, ts) == FoldLeft(LAMBDA x, i : declare_variable(x, names[i], ts[i]), d, [i \in 1 .. Min({Len(names), Len(ts)}) |-> i])
  IN CASE t = Null -> << Null, add_error(c, TRUE, "no type") >>
       [] t[1] = "Tuple" -> << t, DeclareAll(add_error(c, Len(names) # Len(t[2]), "size"), t[2]) >>
       [] t[1] = "List" /\ Len(t) > 1 -> << t, DeclareAll(c, EachOf(names, t[2])) >>
       [] OTHER -> << t, add_error(c, t[1] # "List", "no tuple") >>
check_destructuring_declaration(c, names, e) ==
  LET r == check_expression(c, e, Null) IN Destructured(names, r[1], r[2])

\* A value a fallible function returns is wrapped in ok(...), unless it is written as err or ok.
Returned(c, e, r) ==
  LET wrap == c.ret[1] = "ErrorUnion" /\ e[1] \notin {"err", "ok", "none"}
      t == IF wrap /\ Compatible(c.ret[2], r[1]) THEN c.ret ELSE r[1]
  IN << t, add_error(add_error(r[2], wrap /\ ~Compatible(c.ret[2], r[1]), "success type"),
                     c.ret # Null /\ ~Compatible(c.ret, t), "return type") >>
check_return_statement(c, e) == Returned(c, e, IF e = Absent THEN << NilType, c >> ELSE check_expression(c, e, Null))

Condition(r) == add_error(r[2], ~is_boolean_type(r[1]), "not boolean")
check_condition(c, e) == Condition(check_expression(c, e, Null))

check_else(c, s) == << NilType, IF s = Absent THEN c ELSE check_statement(c, s)[2] >>
check_if_statement(c, s) == check_else(check_statement(check_condition(c, s[2]), s[3])[2], s[4])
check_while_statement(c, s) == << NilType, check_statement(check_condition(c, s[2]), s[3])[2] >>

\* One case: << the type of the branches so far, context >>.
Guard(g) == add_error(Lax(g[2], TRUE, "guard"), ~is_boolean_type(g[1]) /\ g[1] # AnyType, "guard")
check_guard(c, e) == IF e = Absent THEN c ELSE Guard(check_expression(c, e, Null))
Branch(t, b) ==
  LET u == IF t = Null THEN b[1] ELSE IF b[1] = Null THEN t ELSE getCommonType(t, b[1])
  IN << IF u = Thrown THEN t ELSE u, exit_scope(add_error(b[2], u = Thrown, "branch types")) >>
check_match_case(acc, case, t) ==
  Branch(acc[1], check_statement(check_guard(validate_pattern_compatibility(enter_scope(acc[2]), case[1], t), case[2]), case[3]))

\* Error unions only: unions have no variant names to look for, and an option is a union.
Matched(t, ps, b) ==
  << IF b[1] = Null THEN NilType ELSE b[1],
     add_error(Lax(b[2], \E p \in ps : p[1] \notin {"val", "err", "variable", "_"}, "partial pattern"),
               t[1] = "ErrorUnion" /\ ~is_exhaustive_error_match(t, ps), "not exhaustive") >>
MatchCases(cases, r) ==
  Matched(r[1], {cases[i][1] : i \in DOMAIN cases},
          FoldLeft(LAMBDA acc, case : check_match_case(acc, case, r[1]), << Null, r[2] >>, cases))
check_match_statement(c, s) == MatchCases(s[3], check_expression(c, s[2], Null))

check_statement(c, s) ==
  CASE s[1] = "expr" -> check_expression(c, s[2], Null)
    [] s[1] = "return" -> check_return_statement(c, s[2])
    [] s[1] = "var" -> check_var_declaration(c, s)
    [] s[1] = "destructure" -> check_destructuring_declaration(c, s[2], s[3])
    [] s[1] = "if" -> check_if_statement(c, s)
    [] s[1] = "while" -> check_while_statement(c, s)
    [] s[1] = "block" -> CheckBlock(c, s[2])
    [] s[1] = "match" -> check_match_statement(c, s)

------------------------------------------------------------------------------
\* Functions and the errors they declare.  A declaration is a record: params and their annotations, how
\* many of them are optional, returns and body; it can fail when it returns T?E.
declaredErrorTypes(f) == IF f.returns[1] = "Fallible" THEN f.returns[3] ELSE {}
SigOf(f) == [params |-> [i \in DOMAIN f.params |-> resolve_type_annotation(f.params[i][2])], optional |-> f.optional,
             returns |-> IF f.returns = Absent THEN NilType ELSE resolve_type_annotation(f.returns), errors |-> declaredErrorTypes(f)]
ConstructorSig(t) == [params |-> IF t[1] = "Function" THEN t[2] ELSE <<>>, optional |-> 0,
                      returns |-> IF t[1] = "Function" THEN t[3] ELSE t, errors |-> {}]

\* function_signatures after the second pass: functions, and variants under their qualified names.
function_signatures == [n \in {<< h >> : h \in DOMAIN Helpers} |-> SigOf(Helpers[n[1]])]
                       @@ [n \in {k \in DOMAIN variable_types : Len(k) = 2} |-> ConstructorSig(variable_types[n])]
\* PASS 2.5 declares them all.
GlobalContext == LET sigs == function_signatures IN
  [Context EXCEPT !.sigs = sigs,
                  !.scopes = << [n \in DOMAIN sigs |-> IF n \in DOMAIN variable_types THEN variable_types[n]
                                                        ELSE << "Function", sigs[n].params, sigs[n].returns >>] >>]

RECURSIVE infer_expression_error_types(_, _), infer_function_error_types(_, _)
infer_expression_error_types(c, e) ==
  CASE e[1] = "err" -> {e[2]}
    [] e[1] = "fallible" -> infer_expression_error_types(c, e[2])
    [] e[1] = "call" -> IF e[2] \in DOMAIN c.sigs /\ Len(e[2]) = 1 THEN c.sigs[e[2]].errors ELSE {}
    [] e[1] = "binary" -> (IF e[2] = "/" THEN {"DivisionByZero"} ELSE {})
                          \cup infer_expression_error_types(c, e[3]) \cup infer_expression_error_types(c, e[4])
    [] e[1] = "index" -> {"IndexOutOfBounds"} \cup infer_expression_error_types(c, e[2]) \cup infer_expression_error_types(c, e[3])
    [] OTHER -> {}

\* Blocks, returns, ifs and expressions; not matches, loops and initializers.
infer_function_error_types(c, s) ==
  CASE s[1] = "block" -> UNION {infer_function_error_types(c, s[2][i]) : i \in DOMAIN s[2]}
    [] s[1] \in {"return", "expr"} -> infer_expression_error_types(c, s[2])
    [] s[1] = "if" -> infer_function_error_types(c, s[3]) \cup infer_function_error_types(c, s[4])
    [] OTHER -> {}

\* The errors an error union names have to be the declared ones, and the function has to return an error union.
validate_function_error_types(c, f, t) ==
  LET mismatch == t[1] = "ErrorUnion" /\ ~t[4] /\ t[3] # declaredErrorTypes(f)
  IN add_error(c, declaredErrorTypes(f) # {} /\ (f.returns = Absent \/ t[1] # "ErrorUnion" \/ mismatch), "declared errors")

validate_function_body_error_types(c, f) ==
  LET inferred == infer_function_error_types(c, << "block", f.body >>)
  IN add_error(c, declaredErrorTypes(f) \notin {{}, inferred}, "undeclared errors")

\* << return type, context >>; the function's own name is known to the second pass.
check_function_declaration(c, f) ==
  LET ret == IF f.returns = Absent THEN AnyType ELSE resolve_type_annotation(f.returns)
      d   == enter_scope([validate_function_error_types(c, f, ret) EXCEPT !.ret = ret])
      e   == FoldLeft(LAMBDA x, p : declare_variable(x, p[1], resolve_type_annotation(p[2])), d, f.params)
  IN With(CheckBlock(e, f.body), LAMBDA g, t :
       << IF f.returns = Absent /\ t # Null THEN t ELSE ret,
          [exit_scope(validate_function_body_error_types(g, f)) EXCEPT !.ret = Null] >>)

\* Each function is checked after the passes over the declarations.
Report(c) == [errors |-> c.errors, lambdas |-> c.lambdas, lax |-> c.lax]
TypingInit == fn = NoFunction /\ checked = Report(Context)
check_function(f) ==
  /\ pass = 3 /\ todo = {} /\ fn = NoFunction
  /\ pass' = 4 /\ UNCHANGED << todo, scopeStack, registries, lookups >>
  /\ fn' = f /\ checked' = Report(check_function_declaration(GlobalContext, f)[2])
TypingDone == fn # NoFunction /\ UNCHANGED << tsVars, typingVars >>

------------------------------------------------------------------------------
\* What the language means by a function: the outcomes of running it on arguments of its parameter types.
\* A value is a tuple: its kind, then its parts; all numbers are one kind, a value that is no ok or err
\* stands for its ok, conditions take any value, a variable without initializer is set before it is read
\* (TypeChecker), and an error the run time raises ends the run.
Num == << "num" >>
Str == << "str" >>
NilV == << "nil" >>
Bool == << "bool" >>
Stuck(why) == {<< "stuck", why >>}
Then(outs, K(_)) == UNION {IF o[1] = "val" THEN K(o[2]) ELSE {o} : o \in outs}
One(v) == {<< "val", v >>}
Unwrapped(v) == IF v[1] = "ok" THEN v[2] ELSE v
Products(sets) == FoldLeft(LAMBDA acc, S : {Append(p, v) : p \in acc, v \in S}, {<<>>}, sets)

RECURSIVE ValuesOf(_)
\* Some values of a type, of every kind it has.
ValuesOf(t) ==
  LET All(ts) == Products([i \in DOMAIN ts |-> ValuesOf(ts[i])]) IN
  CASE isNumericType(t) -> {Num}
    [] t[1] = "String" -> {Str}
    [] t[1] = "Bool" -> {Bool}
    [] t[1] = "Nil" -> {NilV}
    [] t[1] = "Any" -> {Num, Str, NilV}
    [] t[1] = "List" -> {<< "list", <<>> >>} \cup {<< "list", << v >> >> : v \in IF Len(t) > 1 THEN ValuesOf(t[2]) ELSE {Num}}
    [] t[1] = "Tuple" -> {<< "tuple", vs >> : vs \in All(t[2])}
    [] t[1] = "Dict" -> {<< "dict", <<>>, <<>> >>} \cup {<< "dict", << k >>, << v >> >> : k \in ValuesOf(t[2]), v \in ValuesOf(t[3])}
    [] t[1] = "Union" -> UNION {ValuesOf(t[2][i]) : i \in DOMAIN t[2]}
    [] t[1] = "ErrorUnion" -> {<< "ok", v >> : v \in ValuesOf(t[2])} \cup {<< "err", x >> : x \in IF t[4] THEN {"any"} ELSE t[3]}
    [] t[1] = "Refined" -> ValuesOf(t[2])
    [] t[1] = "Enum" -> UNION {{<< "enum", t[2], v, vs >> : vs \in All(Resolved(Decls[t[2]].variants[v]))} : v \in Variants(t[2])}
    [] t[1] = "Function" -> {<< "fun", t >>}
    [] t[1] = "Frame" -> {<< "frame", t[2] >>}
    [] t[1] = "Trait" -> {<< "frame", f >> : f \in {n \in Names : Kind(n) = "frame" /\ Decls[t[2]].methods \subseteq Decls[n].methods}}

RECURSIVE HasType(_, _), Eval(_, _), EvalAll(_, _), Exec(_, _), ExecAll(_, _), Apply(_, _)
HasTypes(vs, ts) == Len(vs) = Len(ts) /\ \A i \in DOMAIN vs : HasType(vs[i], ts[i])

\* A function has a type if it takes every argument of that type and gives results of that type.
HasType(v, t) ==
  CASE t = AnyType -> TRUE
    [] t[1] = "Refined" -> HasType(v, t[2])
    [] t[1] = "Union" -> \E i \in DOMAIN t[2] : HasType(v, t[2][i])
    [] t[1] = "ErrorUnion" -> IF v[1] = "err" THEN t[4] \/ v[2] \in t[3] ELSE HasType(Unwrapped(v), t[2])
    [] t[1] = "List" -> v[1] = "list" /\ \A i \in DOMAIN v[2] : Len(t) = 1 \/ HasType(v[2][i], t[2])
    [] t[1] = "Tuple" -> v[1] = "tuple" /\ HasTypes(v[2], t[2])
    [] t[1] = "Dict" -> v[1] = "dict" /\ \A i \in DOMAIN v[2] : HasType(v[2][i], t[2]) /\ HasType(v[3][i], t[3])
    [] t[1] = "Enum" -> v[1] = "enum" /\ v[2] = t[2] /\ HasTypes(v[4], Resolved(Decls[v[2]].variants[v[3]]))
    [] t[1] = "Function" -> /\ v[1] \in {"fun", "closure"}
                            /\ \A vs \in Products([i \in DOMAIN t[2] |-> ValuesOf(t[2][i])]) :
                                 \A o \in Apply(v, vs) : o[1] = "val" /\ HasType(o[2], t[3])
    [] OTHER -> v \in ValuesOf(t)

\* A closure has the variables the checker recorded for its lambda, and no others.
CapturesOf(e) == UNION {l[2] : l \in {m \in checked.lambdas : m[1] = e}}
Restricted(env, S) == [n \in DOMAIN env \cap S |-> env[n]]
Apply(v, vs) ==
  CASE v[1] = "fun" -> IF HasTypes(vs, v[2][2]) THEN {<< "val", r >> : r \in ValuesOf(v[2][3])} ELSE Stuck("argument")
    [] v[1] = "closure" ->
         LET ps == v[2][2]
             env == [n \in {ps[i][1] : i \in DOMAIN ps} |-> vs[CHOOSE i \in DOMAIN ps : ps[i][1] = n]] @@ v[3]
         IN IF Len(vs) # Len(ps) THEN Stuck("arguments")
            ELSE {CASE o[1] = "return" -> << "val", o[2] >> [] o[1] = "next" -> << "val", NilV >> [] OTHER -> o : o \in ExecAll(env, v[2][4])}
    [] OTHER -> Stuck("call")

\* Of a function called with fewer arguments than it has, the others are its defaults.
Construct(n, vs) ==
  LET v == Last(n)
      fits == {e \in IF Len(n) = 2 THEN {n[1]} ELSE ToSet(Owners(n)) : HasTypes(vs, Resolved(Decls[e].variants[v]))}
  IN IF fits = {} THEN Stuck("payload") ELSE {<< "val", << "enum", e, v, vs >> >> : e \in fits}
IsVariant(n) == Len(n) = 2 \/ Owners(n) # <<>>
CallNamed(env, n, vs) ==
  IF n \in DOMAIN env THEN Apply(env[n], vs)
  ELSE IF IsVariant(n) THEN Construct(n, vs)
  ELSE IF n[1] \in DOMAIN Helpers
       THEN LET s == SigOf(Helpers[n[1]])
            IN IF Len(vs) < Len(s.params) - s.optional \/ Len(vs) > Len(s.params) THEN Stuck("arguments")
               ELSE Apply(<< "fun", << "Function", SubSeq(s.params, 1, Len(vs)), s.returns >> >>, vs)
  ELSE Stuck("unbound")
Lookup(env, n) ==
  IF n \in DOMAIN env THEN One(env[n])
  ELSE IF IsVariant(n) THEN Construct(n, <<>>)
  ELSE IF n[1] \in DOMAIN Helpers THEN One(<< "fun", << "Function", SigOf(Helpers[n[1]]).params, SigOf(Helpers[n[1]]).returns >> >>)
  ELSE Stuck("unbound")

Operate(op, a, b) ==
  CASE op = "+" /\ Str \in {a, b} -> One(Str)
    [] op \in {"==", "<", "and", "or"} -> One(Bool)
    [] OTHER -> IF a = Num /\ b = Num THEN One(Num) ELSE Stuck("operands")
IndexOf(v, i) ==
  CASE v[1] \in {"list", "tuple"} /\ i = Num -> {<< "val", x >> : x \in ToSet(v[2])}
    [] v[1] = "dict" -> {<< "val", x >> : x \in ToSet(v[3])}
    [] v[1] = "str" /\ i = Num -> One(Str)
    [] OTHER -> Stuck("index")
Cast_(v, t) == IF HasType(v, t) THEN One(v) ELSE {<< "val", x >> : x \in ValuesOf(t)}

EvalAll(env, es) ==
  FoldLeft(LAMBDA outs, e : Then(outs, LAMBDA vs : Then(Eval(env, e), LAMBDA v : One(Append(vs, v)))), One(<<>>), es)

PartsOf(e) ==
  CASE e[1] \in {"grouping", "ok", "fallible"} -> << e[2] >>
    [] e[1] \in {"unary", "cast"} -> << e[3] >>
    [] e[1] = "binary" -> << e[3], e[4] >>
    [] e[1] = "index" -> << e[2], e[3] >>
    [] e[1] = "call" -> e[3]
    [] e[1] \in {"list", "tuple", "interpolated"} -> e[2]
    [] e[1] = "dict" -> e[2] \o e[3]
    [] OTHER -> <<>>
Result(env, e, vs) ==
  CASE e[1] = "literal" -> {<< "val", v >> : v \in ValuesOf(Atom(e[2]))}
    [] e[1] = "variable" -> Lookup(env, e[2])
    [] e[1] = "grouping" -> One(vs[1])
    [] e[1] = "binary" -> Operate(e[2], vs[1], vs[2])
    [] e[1] = "unary" -> IF e[2] = "!" THEN One(Bool) ELSE Operate("-", vs[1], vs[1])
    [] e[1] = "call" -> CallNamed(env, e[2], vs)
    [] e[1] \in {"list", "tuple"} -> One(<< e[1], vs >>)
    [] e[1] = "dict" -> LET n == Len(e[2]) IN One(<< "dict", SubSeq(vs, 1, n), SubSeq(vs, n + 1, Len(vs)) >>)
    [] e[1] = "index" -> IndexOf(vs[1], vs[2])
    [] e[1] = "interpolated" -> One(Str)
    [] e[1] = "lambda" -> One(<< "closure", e, Restricted(env, CapturesOf(e)) >>)
    [] e[1] = "err" -> One(<< "err", e[2] >>)
    [] e[1] = "ok" -> One(<< "ok", vs[1] >>)
    [] e[1] = "fallible" -> IF vs[1][1] = "err" THEN {<< "return", vs[1] >>} ELSE One(Unwrapped(vs[1]))
    [] e[1] = "cast" -> Cast_(vs[1], resolve_type_annotation(e[2]))
Eval(env, e) == Then(EvalAll(env, PartsOf(e)), LAMBDA vs : Result(env, e, vs))

\* The variables a pattern binds, << FALSE, ... >> if it does not match.
NoMatch == << FALSE, Empty >>
RECURSIVE Match(_, _)
MatchAll(vs, ps) ==
  LET ms == [i \in DOMAIN ps |-> Match(vs[i], ps[i])]
  IN IF \A i \in DOMAIN ms : ms[i][1] THEN << TRUE, FoldLeft(LAMBDA acc, m : m[2] @@ acc, Empty, ms) >> ELSE NoMatch
Binds(x, v) == << TRUE, x :> v >>
WithRest(m, rest, v) == IF m[1] /\ rest # <<>> THEN << TRUE, (rest :> v) @@ m[2] >> ELSE m
Match(v, p) ==
  CASE p[1] = "_" -> << TRUE, Empty >>
    [] p[1] = "variable" -> Binds(p[2], v)
    [] p[1] = "val" -> IF v[1] = "err" THEN NoMatch ELSE Binds(p[2], Unwrapped(v))
    [] p[1] = "err" -> IF v[1] = "err" /\ p[3] \in {"", v[2]} THEN Binds(p[2], v) ELSE NoMatch
    [] p[1] = "error type" -> IF v = << "err", p[2] >> THEN << TRUE, [n \in ToSet(p[3]) |-> v] >> ELSE NoMatch
    [] p[1] = "variant" -> IF v[1] = "enum" /\ v[3] = Last(p[2]) /\ Len(v[4]) = Len(p[3]) THEN MatchAll(v[4], p[3]) ELSE NoMatch
    [] p[1] = "tuple" -> IF v[1] = "tuple" /\ Len(v[2]) = Len(p[2]) THEN MatchAll(v[2], p[2]) ELSE NoMatch
    [] p[1] = "list" -> IF v[1] = "list" /\ Len(v[2]) >= Len(p[2]) /\ (p[3] # <<>> \/ Len(v[2]) = Len(p[2]))
                        THEN WithRest(MatchAll(v[2], p[2]), p[3], << "list", SubSeq(v[2], Len(p[2]) + 1, Len(v[2])) >>) ELSE NoMatch
    [] p[1] = "dict" -> IF v[1] = "dict" /\ Len(v[3]) >= Len(p[2])
                        THEN WithRest(MatchAll(v[3], p[2]), p[3], << "dict", <<>>, <<>> >>) ELSE NoMatch
    [] p[1] = "type" -> IF HasType(v, resolve_type_annotation(p[2])) THEN << TRUE, Empty >> ELSE NoMatch
    [] p[1] = "literal" -> << v \in ValuesOf(Atom(p[2])), Empty >>

\* Outcomes of statements: << "next", variables >> or << "return", value >>.
RECURSIVE ExecCases(_, _, _)
ExecCases(env, v, cases) ==
  IF cases = <<>> THEN IF v[1] \in {"ok", "err"} THEN Stuck("unmatched") ELSE {<< "next", env >>}
  ELSE LET m == Match(v, cases[1][1])
           body == Exec(m[2] @@ env, cases[1][3])
           guarded == Then(Eval(m[2] @@ env, cases[1][2]), LAMBDA g : body \cup ExecCases(env, v, Tail(cases)))
       IN IF ~m[1] THEN ExecCases(env, v, Tail(cases)) ELSE IF cases[1][2] = Absent THEN body ELSE guarded
InScope(outs, env) == {IF o[1] = "next" THEN << "next", env >> ELSE o : o \in outs}
ExecAll(env, ss) ==
  FoldLeft(LAMBDA outs, s : UNION {IF o[1] = "next" THEN Exec(o[2], s) ELSE {o} : o \in outs}, {<< "next", env >>}, ss)
Components(v) == IF v[1] \in {"tuple", "list"} THEN v[2] ELSE <<>>
Exec(env, s) ==
  CASE s[1] = "expr" -> Then(Eval(env, s[2]), LAMBDA v : {<< "next", env >>})
    [] s[1] = "return" -> IF s[2] = Absent THEN {<< "return", NilV >>} ELSE Then(Eval(env, s[2]), LAMBDA v : {<< "return", v >>})
    [] s[1] = "var" -> Then(IF s[4] = Absent THEN {<< "val", v >> : v \in ValuesOf(resolve_type_annotation(s[3]))} ELSE Eval(env, s[4]), LAMBDA v : {<< "next", (s[2] :> v) @@ env >>})
    [] s[1] = "destructure" ->
         Then(Eval(env, s[3]), LAMBDA v : IF Len(Components(v)) < Len(s[2]) THEN {}
                                          ELSE {<< "next", [n \in ToSet(s[2]) |-> Components(v)[CHOOSE i \in DOMAIN s[2] : s[2][i] = n]] @@ env >>})
    [] s[1] = "if" -> Then(Eval(env, s[2]), LAMBDA v : InScope(Exec(env, s[3]) \cup (IF s[4] = Absent THEN {<< "next", env >>} ELSE Exec(env, s[4])), env))
    [] s[1] = "while" -> Then(Eval(env, s[2]), LAMBDA v : {<< "next", env >>} \cup InScope(Exec(env, s[3]), env))
    [] s[1] = "block" -> InScope(ExecAll(env, s[2]), env)
    [] s[1] = "match" -> Then(Eval(env, s[2]), LAMBDA v : InScope(ExecCases(env, v, s[3]), env))

Outcomes(f) ==
  LET ts == SigOf(f).params
      Env(vs) == [n \in {f.params[i][1] : i \in DOMAIN ts} |-> vs[CHOOSE i \in DOMAIN ts : f.params[i][1] = n]]
  IN UNION {ExecAll(Env(vs), f.body) : vs \in Products([i \in DOMAIN ts |-> ValuesOf(ts[i])])}

Accepted == fn # NoFunction /\ checked.errors = {}
NotCaptured == {"called, not captured", "captured by the inner lambda only"}
Strict == Accepted /\ checked.lax = {}

\* A function the checker accepts computes only what its types say: no operator, call, index or constructor
\* meets a value it does not take, and every value it returns has the declared return type, except where
\* a type says too little (lax).
TypesPredict == Strict =>
  \A o \in Outcomes(fn) : /\ o[1] = "stuck" => o[2] \in {"unbound", "unmatched"}
                          /\ o[1] = "return" /\ fn.returns # Absent => HasType(o[2], resolve_type_annotation(fn.returns))

\* In a function the checker accepts, a match over a fallible value has a case for every value
\* (is_exhaustive_error_match), when it has no guards and no patterns but val, err and variables.
MatchesCovered == (Accepted /\ checked.lax \subseteq {"error value"}) => << "stuck", "unmatched" >> \notin Outcomes(fn)

\* A lambda captures every variable of the enclosing functions it reads (should_capture_variable), but for
\* the ones it only calls and the ones only a lambda inside it reads.
CapturesComplete == (Accepted /\ checked.lax \cap NotCaptured = {}) => << "stuck", "unbound" >> \notin Outcomes(fn)

\* A function that returns a fallible value and declares exactly the errors its body can produce is accepted.
ExactErrorsAccepted ==
  fn # NoFunction /\ declaredErrorTypes(fn) # {} /\ declaredErrorTypes(fn) = infer_function_error_types(GlobalContext, << "block", fn.body >>)
    => "declared errors" \notin checked.errors
==============================================================================
