------------------------------ MODULE MCTypeSystem ------------------------------
(***************************************************************************)
(* A program with an enum, an alias, a frame and its trait, a block with   *)
(* an enum of its own, and types of every kind.                            *)
(***************************************************************************)
EXTENDS TypedValues, Typing

IntName == << "name", "int" >>
NoVariants == [v \in {} |-> <<>>]
Decl(kind) == [kind |-> kind, implements |-> {}, fields |-> <<>>, methods |-> {}, type |-> IntName, variants |-> NoVariants]
DeclsDef == [E |-> [Decl("enum") EXCEPT !.variants = [V |-> << IntName >>, U |-> <<>>, S |-> << << "name", "str" >> >>]],
             G |-> [Decl("enum") EXCEPT !.variants = [S |-> << IntName, IntName >>, W |-> << IntName, << "name", "str" >> >>]],
             A |-> Decl("type"), L |-> Decl("local"), T |-> Decl("trait"),
             M |-> [Decl("trait") EXCEPT !.methods = {"m", "n"}], H |-> [Decl("frame") EXCEPT !.methods = {"m"}],
             F |-> [Decl("frame") EXCEPT !.implements = {"T"}, !.methods = {"m", "n"}, !.fields = << << "a", IntName >>, << "b", << "Optional", << "List", << "name", "A" >> >> >> >> >>]]

I64 == Atom("Int64")
Str_ == Atom("String")
UniverseDef ==
  {I64, Atom("Int8"), Atom("Float64"), Atom("Float32"), Str_, NilType, AnyType, Atom("Bool"), << "List", I64 >>, << "List", AnyType >>,
   << "Dict", Str_, I64 >>, << "Dict", Str_, AnyType >>, << "Tuple", << I64, Str_ >> >>, << "Tuple", << I64 >> >>,
   << "Union", << I64, NilType >> >>, << "Union", << I64, Str_, NilType >> >>, << "ErrorUnion", I64, {}, TRUE >>,
   << "ErrorUnion", I64, {"e"}, FALSE >>, << "ErrorUnion", I64, {"e", "f"}, FALSE >>, << "Function", << I64 >>, I64 >>,
   << "Function", << AnyType >>, I64 >>, << "Function", << I64 >>, << "Union", << I64, NilType >> >> >>, << "Frame", "F" >>, << "Trait", "T" >>, << "Enum", "E" >>,
   << "Refined", I64 >>, << "List", << "Refined", I64 >> >>, << "Structural", << << "a", I64 >> >> >>, << "Structural", << << "a", AnyType >> >> >>}

FloatsDef == {-10, -9, 0, 1, 9, 10, 24, 45, 48, 99}
PrecisionDef == [Float32 |-> 3, Float64 |-> 5]
NumbersDef == {-16, -2, 0, 1, 3, 7, 15, 16, 31}
BitsDef == [Int8 |-> 2, Int16 |-> 3, Int32 |-> 4, Int64 |-> 5, UInt8 |-> 2, UInt16 |-> 3, UInt32 |-> 4, UInt64 |-> 5]
TargetsDef == {Atom(x) : x \in Signed \cup Unsigned \cup FloatTags \cup {"String", "Nil", "Bool"}}
              \cup {<< "List", I64 >>, << "Tuple", << I64, Str_ >> >>, << "Enum", "E" >>, << "ErrorUnion", I64, {}, TRUE >>}

\* Functions: every one of Expressions, returned at every one of the return types, and statements.
N(n) == << "name", n >>
StrName == N("str")
V(n) == << "variable", << n >> >>
Call(n, es) == << "call", << n >>, es >>
Plus(a, b) == << "binary", "+", a, b >>
Lit(t) == << "literal", t >>
Maybe(t) == << "Optional", t >>
P(n, t) == << << n >>, t >>
IntFun == << "Function", << IntName >>, IntName >>
HelpersDef == [half |-> [params |-> << << << "a" >>, IntName >> >>, optional |-> 0, returns |-> Maybe(IntName), body |-> <<>>],
               show |-> [params |-> << << << "a" >>, StrName >>, << << "b" >>, IntName >> >>, optional |-> 1, returns |-> StrName, body |-> <<>>],
               name |-> [params |-> << << << "a" >>, N("E") >> >>, optional |-> 0, returns |-> StrName, body |-> <<>>]]

PlainParams == << P("x", IntName), P("s", StrName), P("o", Maybe(IntName)), P("f", IntFun), P("u", << "Union", << IntName, StrName >> >>) >>
Containers == << P("x", IntName), P("s", StrName), P("l", << "List", IntName >>), P("t", << "Tuple", << IntName, StrName >> >>),
                 P("d", << "Dict", StrName, IntName >>), P("e", N("E")) >>
Function(ps, t, ss) == [params |-> ps, optional |-> 0, returns |-> t, body |-> ss]
Return(e) == << "return", e >>
Lambda(ps, t, e) == << "lambda", ps, t, << Return(e) >> >>

Lambdas == {Lambda(<< P("y", IntName) >>, r, b) : r \in {IntName, StrName, Absent}, b \in {V("y"), V("x"), Plus(V("x"), V("y")), V("s"), Call("f", << V("y") >>)}}
           \cup {Lambda(<<>>, Absent, Lambda(<< P("y", IntName) >>, Absent, Plus(V("y"), V("x")))),
                 Lambda(<< P("x", StrName) >>, Absent, V("x"))}
Expressions ==
  {V(n) : n \in {"x", "s", "o", "f", "u", "U", "z", "half"}}
  \cup {<< "binary", op, a, b >> : op \in {"+", "*", "/", "%", "==", "<", "and"}, a \in {V("x"), V("s"), V("o")}, b \in {V("x"), V("u"), Lit("Bool"), Lit("Float64")}}
  \cup {<< "unary", op, V(n) >> : op \in {"-", "!"}, n \in {"x", "s", "o"}}
  \cup {<< "grouping", V("o") >>, << "interpolated", << V("x"), V("s") >> >>, << "cast", StrName, V("x") >>}
  \cup {Call("half", << V(n) >>) : n \in {"x", "s", "o"}} \cup {Call("half", <<>>), Call("half", << V("x"), V("x") >>)}
  \cup {Call("show", << V("s") >>), Call("show", << V("s"), V("x") >>), Call("show", << V("s"), V("s") >>)}
  \cup {Call("name", << V("U") >>), Call("name", << Call("V", << V("x") >>) >>), Call("name", << Call("W", << V("x"), V("s") >>) >>)}
  \cup {Call("f", << V(n) >>) : n \in {"x", "s"}} \cup {Call("x", <<>>), Call("z", <<>>)}
  \cup {<< "err", "Bad" >>, << "ok", V("x") >>, << "ok", V("s") >>}
  \cup {<< "fallible", V(n) >> : n \in {"o", "x"}} \cup {<< "fallible", Call("half", << V("x") >>) >>}
  \cup Lambdas

ContainerExpressions ==
  {V(n) : n \in {"l", "t", "d", "e"}}
  \cup {<< "call", << "E", "V" >>, es >> : es \in {<< V("x") >>, << V("s") >>, << V("x"), V("x") >>}}
  \cup {Call("S", << V("s") >>), Call("W", << V("x"), V("s") >>), Call("W", << V("s"), V("x") >>)}
  \cup {<< "list", es >> : es \in {<<>>, << V("x") >>, << V("x"), Lit("Int64") >>, << V("x"), V("s") >>}}
  \cup {<< "tuple", << V("x"), V("s") >> >>, << "tuple", << V("s"), V("x") >> >>}
  \cup {<< "dict", << V("s") >>, << v >> >> : v \in {V("x"), V("s")}}
  \cup {<< "dict", <<>>, <<>> >>, << "dict", << V("s"), V("x") >>, << V("x"), V("x") >> >>}
  \cup {<< "index", V(a), V(i) >> : a \in {"l", "t", "d", "s", "x"}, i \in {"x", "s"}}

ReturnTypes == {IntName, StrName, Maybe(IntName), << "List", IntName >>, << "Tuple", << IntName, StrName >> >>, << "Dict", StrName, IntName >>,
                N("E"), IntFun, << "Union", << IntName, StrName >> >>, N("A"), << "Refined", IntName >>, << "Optional", << "List", IntName >> >>, Absent}

Case(p, e) == << p, Absent, Return(e) >>
Guarded(p, g, e) == << p, g, Return(e) >>
Pv(n) == << "variable", << n >> >>
Matches ==
  {<< "match", V("o"), cs >> : cs \in
     {<< Case(p, V("x")) >> : p \in {<< "val", << "v" >> >>, << "err", << "v" >>, "" >>, << "err", << "v" >>, "Bad" >>, Pv("v"), << "_" >>}}
     \cup {<< Case(<< "val", << "v" >> >>, V("v")), Case(p, V("x")) >> : p \in {<< "val", << "v" >> >>, << "err", << "v" >>, "" >>, << "err", << "v" >>, "Bad" >>,
                                                                            << "_" >>, << "error type", "Bad", <<>> >>, << "variant", << "U" >>, <<>> >>}}
     \cup {<< Guarded(<< "val", << "v" >> >>, << "binary", "==", V("v"), V("x") >>, V("v")), Case(<< "err", << "v" >>, "" >>, V("x")) >>,
           << Case(<< "err", << "v" >>, "" >>, V("v")), Case(<< "val", << "w" >> >>, V("w")) >>}}
  \cup {<< "match", V("u"), << Case(<< "type", StrName >>, V("s")), Case(<< "literal", "Int64" >>, V("x")) >> >>}
  \cup {<< "match", V("o"), << << << "val", << "v" >> >>, Absent, << "expr", V("v") >> >>, << << "err", << "w" >>, "" >>, Absent, << "expr", V("s") >> >> >> >>}
ContainerMatches ==
  {<< "match", V("e"), << Case(p, r) >> >> :
          p \in {<< "variant", << "V" >>, << Pv("v") >> >>, << "variant", << "E", "V" >>, << Pv("v") >> >>, << "variant", << "S" >>, << Pv("v") >> >>,
                 << "variant", << "E", "S" >>, << Pv("v") >> >>, << "variant", << "V" >>, << Pv("v"), Pv("w") >> >>, << "variant", << "U" >>, <<>> >>},
          r \in {V("v"), V("x")}}
  \cup {<< "match", V("t"), << Case(<< "tuple", ps >>, V("v")) >> >> : ps \in {<< Pv("v"), << "_" >> >>, << << "_" >>, Pv("v") >>, << Pv("v") >>}}
  \cup {<< "match", V("l"), << Case(<< "list", << Pv("v") >>, rest >>, r) >> >> : rest \in {<<>>, << "w" >>}, r \in {V("v"), V("w")}}
  \cup {<< "match", V("d"), << Case(<< "dict", << Pv("v") >>, rest >>, r) >> >> : rest \in {<<>>, << "w" >>}, r \in {V("v"), V("w")}}

Statements ==
  {<< << "var", << "y" >>, t, e >>, Return(V("y")) >> : t \in {Absent, IntName, StrName, Maybe(IntName)}, e \in {V("x"), V("o"), V("s"), Lit("Int64"), Absent}}
  \cup {<< << "destructure", << << "y" >>, << "z" >> >>, e >>, Return(V("z")) >> : e \in {<< "tuple", << V("x"), V("s") >> >>, << "list", << V("s"), V("s") >> >>, V("x")}}
  \cup {<< << "if", V(n), << "block", << << "var", << "x" >>, Absent, V("s") >>, Return(V("x")) >> >>, s >>, Return(V("x")) >> :
          n \in {"o", "x"}, s \in {Absent, Return(V("s"))}}
  \cup {<< << "while", << "binary", "==", V("x"), V("x") >>, Return(V(n)) >>, Return(V("x")) >> : n \in {"x", "s"}}
  \cup {<< << "var", << "g" >>, Absent, f >>, Return(Call("g", << V("x") >>)) >> : f \in Lambdas}
  \cup {<< << "expr", << "fallible", V("o") >> >>, Return(V("x")) >>, << Return(Absent) >>}
  \cup {<< m, Return(V("x")) >> : m \in Matches}

Failing == {<< "Fallible", IntName, {"Bad"} >>, << "Fallible", IntName, {"Bad", "DivisionByZero"} >>}
FunctionsDef ==
  {Function(PlainParams, t, << Return(e) >>) : t \in ReturnTypes, e \in Expressions}
  \cup {Function(<< P("p", N("F")), P("q", N("H")), P("r", N("M")) >>, N(t), << Return(V(n)) >>) : t \in {"F", "T", "M"}, n \in {"p", "q", "r"}}
  \cup {Function(Containers, t, << Return(e) >>) : t \in ReturnTypes, e \in ContainerExpressions}
  \cup {Function(Containers, t, << m, Return(V("x")) >>) : t \in {IntName, StrName, << "List", IntName >>, Absent}, m \in ContainerMatches}
  \cup {Function(PlainParams, t, ss) : t \in {IntName, StrName, Maybe(IntName), Absent}, ss \in Statements}
  \cup {Function(PlainParams, t, << << "if", V("o"), Return(<< "err", "Bad" >>), Absent >>, Return(e) >>) : t \in Failing, e \in {V("x"), << "binary", "/", V("x"), V("x") >>}}

\* A behaviour looks up names or checks a function.
TypesAndTypingInit == TypesInit /\ TypingInit
TypesAndTypingNext ==
  \/ fn = NoFunction /\ TypesNext /\ UNCHANGED typingVars
  \/ val = NoValue /\ lookups = 0 /\ (TypingDone \/ (fn = NoFunction /\ todo = {} /\ \E f \in Functions : check_function(f))) /\ UNCHANGED valueVars
TypesAndTyping == TypesAndTypingInit /\ [][TypesAndTypingNext]_<< tsVars, valueVars, typingVars >>
==============================================================================
