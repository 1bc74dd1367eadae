------------------------------- MODULE Grammar -------------------------------
(***************************************************************************)
(* The recursive-descent methods of LM::Frontend::Parser as data: each     *)
(* method is the sequence of things it does with the token stream and with *)
(* the parser's context stacks.  Module Parser runs them.                  *)
(*                                                                         *)
(* What a method stores in the AST node it builds is left out, except for  *)
(* the nodes of expressions (Emit) and the cases of a match statement.     *)
(* The tokens are those of Scanner::scanTokens in LEGACY mode, the only    *)
(* mode the parser is ever given: there is no trivia, so skipTrivia and    *)
(* the attachTrivia methods do nothing.                                    *)
(***************************************************************************)
EXTENDS Integers, Sequences

(***************************************************************************)
(* Tokens.  A string stands for a TokenType; the strings in Identifiers    *)
(* are lexemes of one TokenType, IDENTIFIER, which the parser tells apart. *)
(***************************************************************************)
EOF == "EOF"

KnownTypeName == {"tuple"}          \* isKnownTypeName, of an IDENTIFIER
ErrorName     == {"IOError"}        \* isErrorType
ParamName     == {"ch"}             \* the parameters parseConcurrencyParams knows
TimeUnit      == {"ms"}
ReservedName  == {"string_name"}    \* !isValidParameterName, of an IDENTIFIER
Identifiers   == {"id", "task", "worker", "init", "deinit"}
                   \cup KnownTypeName \cup ErrorName \cup ParamName \cup TimeUnit \cup ReservedName

Number        == {"1", "1.5"}       \* INT_LITERAL; FLOAT_LITERAL, SCIENTIFIC_LITERAL
PrimitiveType == {"int"}            \* isPrimitiveType: INT_TYPE ... NIL_TYPE
OtherType     == {"list"}           \* LIST_TYPE, DICT_TYPE, OPTION_TYPE, ..., UNION_TYPE
AssignOp      == {"=", "+="}        \* EQUAL and the compound assignments
Visibility    == {"pub"}            \* PUB, PROT, PUBLIC, PRIVATE, PROTECTED, CONST
Modifier      == Visibility \cup {"static"}    \* and STATIC, ABSTRACT, FINAL, DATA

(***************************************************************************)
(* What a method can do.  A program is a sequence of these.                *)
(***************************************************************************)
Consume(K)        == [op |-> "consume", K |-> K]      \* consume(K, message)
Advance           == [op |-> "advance"]               \* advance()
Error             == [op |-> "error"]                 \* error(message)
Call(m)           == [op |-> "call", m |-> m]
Check(K, p, q)    == [op |-> "check", K |-> K, then |-> p, else |-> q]
Match(K, p, q)    == [op |-> "match", K |-> K, then |-> p, else |-> q]
Ahead(s, p, q)    == [op |-> "ahead", next |-> s, then |-> p, else |-> q]  \* the next Len(s) tokens
Switch(chain, q)  == [op |-> "switch", chain |-> chain, else |-> q]     \* if (match ...) ... else ...
WhileMatch(K, p)  == [op |-> "while", K |-> K, body |-> p]
\* while (!check(K) && !isAtEnd()); at is where the iteration under way started.
Until(K, p)       == [op |-> "until", K |-> K, body |-> p, at |-> -1]
Break             == [op |-> "break"]
Continue          == [op |-> "continue"]
Return            == [op |-> "return"]
End               == [op |-> "end"]                   \* where Return of a method goes
Binary(K, m)      == [op |-> "binary", K |-> K, m |-> m]  \* while (match(K)) { m(); node }
Assign            == [op |-> "assign"]
Assigned(t, k)    == [op |-> "assigned", target |-> t, tok |-> k]
Emit(n)           == [op |-> "emit", node |-> n]      \* the node of an expression
Fresh             == [op |-> "fresh"]                 \* a statement's expression begins
CaseKept          == [op |-> "case"]                  \* stmt->cases.push_back
Node(kind)        == [op |-> "node", kind |-> kind]   \* createNodeWithContext
PushCst(kind)     == [op |-> "push_cst", kind |-> kind]
PopCst            == [op |-> "pop_cst"]
PushBlock(kind)   == [op |-> "push_block", kind |-> kind]
PopBlock          == [op |-> "pop_block"]
Concurrent(b)     == [op |-> "concurrent", to |-> b]  \* in_concurrent_block = b
IfConcurrent(p, q) == [op |-> "if_concurrent", then |-> p, else |-> q]

Opt(K, p)   == Match(K, p, <<>>)
SepBy(K, p) == p \o << WhileMatch(K, p) >>            \* do p while (match(K))
\* if (!check(close)) do p while (match(COMMA)); consume(close)
Listed(close, p) == << Check({close}, <<>>, SepBy({","}, p)), Consume({close}) >>
Braced(p)        == << Until({"}"}, p), Consume({"}"}) >>

Ident      == Consume(Identifiers)
Expr       == Call("expression")
Type       == Call("parseTypeAnnotation")
BasicType  == Call("parseBasicType")
Pattern    == Call("parsePattern")
Block      == Call("block")

------------------------------------------------------------------------------
\* Statements and declarations: parser/statements.cpp

declaration ==
  << WhileMatch(Visibility, <<>>),                    \* collectAnnotations
     WhileMatch(Modifier, <<>>),
     Switch(<< <<{"frame"},     << Call("frameDeclaration") >> >>,
               <<{"fn"},        << Call("function") >> >>,
               <<{"var"},       << Call("varDeclaration") >> >>,
               <<{"enum"},      << Call("enumDeclaration") >> >>,
               <<{"import"},    << Call("importStatement") >> >>,
               <<{"type"},      << Call("typeDeclaration") >> >>,
               <<{"trait"},     << Call("traitDeclaration") >> >>,
               <<{"interface"}, << Call("interfaceDeclaration") >> >>,
               <<{"module"},    << Call("moduleDeclaration") >> >> >>,
            << Call("statement") >>) >>

TypeAndDefault == << Opt({":"}, << Type >>), Opt({"="}, << Expr >>) >>

varDeclaration ==
  << Match({"("},
       << Ident, WhileMatch({","}, << Ident >>), Consume({")"}), Consume({"="}), Expr >>,
       << Node("VAR_DECLARATION"), Ident >> \o TypeAndDefault),
     Consume({";"}) >>

\* At a closing brace or at the end the empty statement consumes nothing.
statement ==
  << Switch(<< <<{";"}, <<>> >> >>,
       << Check({"}", EOF}, <<>>,
          << Switch(<< <<{"print"},      << Call("printStatement") >> >>,
                       <<{"if"},         << Call("ifStatement") >> >>,
                       <<{"for"},        << Call("forStatement") >> >>,
                       <<{"while"},      << Call("whileStatement") >> >>,
                       <<{"break", "continue"}, << Consume({";"}) >> >>,
                       <<{"iter"},       << Call("iterStatement") >> >>,
                       <<{"{"},          << Block >> >>,
                       <<{"return"},     << Call("returnStatement") >> >>,
                       <<{"parallel"},   << Call("parallelStatement") >> >>,
                       <<{"concurrent"}, << Call("concurrentStatement") >> >>,
                       <<{"match"},      << Call("matchStatement") >> >>,
                       <<{"unsafe"},     << Consume({"{"}), Block >> >>,
                       <<{"contract"},   << Call("contractStatement") >> >>,
                       <<{"comptime"},   << Call("declaration") >> >> >>,
                    << Call("expressionStatement") >>) >>) >>) >>

expressionStatement == << Node("EXPRESSION_STATEMENT"), Fresh, Expr, Opt({";"}, <<>>) >>

printStatement == << Node("PRINT_STATEMENT"), Consume({"("}) >> \o Listed(")", << Expr >>)
                    \o << Opt({";"}, <<>>) >>

Condition == << Consume({"("}), Expr, Consume({")"}) >>

\* Mutant: the block's context is not popped.
Nested_unpopped(kind) == << Check({"{"}, << PushBlock(kind) >>, <<>>), Call("statement") >>

\* parseStatementWithContext
Nested(kind) == << Check({"{"}, << PushBlock(kind), Call("statement"), PopBlock >>,
                                << Call("statement") >>) >>

ifStatement ==
  << Node("IF_STATEMENT") >> \o Condition \o Nested("if")
    \o << WhileMatch({"elif"}, << Node("IF_STATEMENT") >> \o Condition \o Nested("elif") \o << PopCst >>),
          Opt({"else"}, Nested("else")),
          PopCst >>

\* The block's node is pushed twice, by createNodeWithContext and here, and popped once.
block ==
  << Node("BLOCK_STATEMENT"), PushCst("BLOCK_STATEMENT") >>
    \o Braced(<< IfConcurrent(
                   << Switch(<< <<{"task"},   << Call("taskStatement") >> >>,
                                <<{"worker"}, << Call("workerStatement") >> >> >>,
                             << Call("declaration") >>) >>,
                   << Call("declaration") >>) >>)
    \o << PopCst >>

forStatement ==
  << Node("FOR_STATEMENT"), Consume({"("}),
     Switch(<< <<{";"}, <<>> >>,
               <<{"var"}, << Ident >> \o TypeAndDefault \o << Consume({";"}) >> >> >>,
            << Call("expressionStatement") >>),
     Check({";"}, <<>>, << Expr >>), Consume({";"}),
     Check({")"}, <<>>, << Expr >>), Consume({")"}) >> \o Nested("for") \o << PopCst >>

whileStatement == << Node("WHILE_STATEMENT") >> \o Condition \o Nested("while") \o << PopCst >>

iterStatement ==
  LET In == << Consume({"in"}), Expr >>
  IN << Node("ITER_STATEMENT"), Consume({"("}),
        Switch(<< <<{"var"}, << Ident, Opt({","}, << Ident >>) >> \o In >>,
                  <<Identifiers,
                    << Switch(<< <<{","}, << Ident >> \o In >>, <<{"in"}, << Expr >> >> >>,
                              << Error >>) >> >> >>,
               << Error >>),
        Consume({")"}) >> \o Nested("iter") \o << PopCst >>

Parameter == << Ident >> \o TypeAndDefault

function ==
  << Node("FUNCTION_DECLARATION"), Ident,
     Opt({"["}, SepBy({","}, << Ident >>) \o << Consume({"]"}) >>),
     Consume({"("}) >> \o Listed(")", Parameter)
    \o << Opt({":"}, << Type >>),
          Match({";"}, <<>>, << Consume({"{"}), PushBlock("function"), Block, PopBlock >>),
          PopCst >>

returnStatement == << Check({";", "}"}, <<>>, << Expr >>), Opt({";"}, <<>>) >>

\* A parameter the method does not know is an error, once its value has been read.
parseConcurrencyParams ==
  LET Separator     == Match({","}, <<>>, << Check({")"}, <<>>, << Error, Break >>) >>)
      Value         == Switch(<< <<{"string"}, <<>> >>,
                                 <<Number, << Opt(TimeUnit, <<>>) >> >>,
                                 <<Identifiers, <<>> >> >>,
                              << Error, Break >>)
      Rest(unknown) == << Switch(<< <<{":"}, << Ident, Separator, Continue >> >>,
                                    <<{"="}, << Value >> \o unknown \o << Separator >> >> >>,
                                 << Error, Break >>) >>
      Bare(unknown) == << Opt({"="}, << Opt(Identifiers, unknown) >>) >>
  IN << Match({"("},
          << Until({")"}, << Check(ParamName, << Advance >> \o Rest(<<>>),
                                              << Ident >> \o Rest(<< Error >>)) >>),
             Consume({")"}) >>,
          << Check(ParamName, << Advance >> \o Bare(<<>>),
                              << Opt(Identifiers, Bare(<< Error >>)) >>) >>) >>

TypedParameter == << Ident, Consume({":"}), Type, Opt({"="}, << Expr >>) >>

FrameField == << Consume({":"}), Type, Opt({"="}, << Expr >>), Consume({";"}) >>

frameDeclaration ==
  LET Method(ret) == << Consume({"("}) >> \o Listed(")", TypedParameter) \o ret
                       \o << Consume({"{"}), Block >>
      Returning   == << Opt({":"}, << Type >>) >>
  IN << Node("CLASS_DECLARATION"), Ident,
        Opt({":"}, SepBy({","}, << Ident >>)),
        Consume({"{"}), PushBlock("frame"),
        Until({"}"},
          << WhileMatch(Visibility, <<>>),
             Switch(<< <<{"init"},   Method(Returning) >>,
                       <<{"deinit"}, << Consume({"("}), Check({")"}, <<>>, << Error >>),
                                        Consume({")"}), Consume({"{"}), Block >> >>,
                       <<{"fn"},     << Ident >> \o Method(Returning) >>,
                       <<{"var"},    << Ident >> \o FrameField >>,
                       <<Identifiers, << Check({":"}, FrameField, << Error, Break >>) >> >> >>,
                    << Error, Break >>) >>),
        Consume({"}"}), PopBlock, PopCst >>

ConcurrentBody == << Call("parseConcurrencyParams"), Consume({"{"}),
                     Concurrent(TRUE), Block, Concurrent(FALSE), PopCst >>

parallelStatement   == << Node("PARALLEL_STATEMENT") >> \o ConcurrentBody
concurrentStatement == << Node("CONCURRENT_STATEMENT") >> \o ConcurrentBody

taskStatement ==
  << Consume({"("}), Opt(Identifiers, << Consume({"in"}) >>), Expr,
     Consume({")"}), Consume({"{"}), Block >>

workerStatement ==
  << Consume({"("}), Opt(Identifiers, << Opt({"in", "from"}, << Expr >>) >>),
     Consume({")"}), Consume({"{"}), Block >>

importStatement ==
  LET Name == Switch(<< <<Identifiers \cup {"module"}, <<>> >> >>, << Error, Return >>)
  IN << Switch(<< <<Identifiers \cup {"module"}, << WhileMatch({"."}, << Name >>) >> >>,
                  <<{"("}, << Consume({"string"}), Consume({")"}) >> >> >>,
               << Error, Return >>),
        Opt({"as"}, << Ident >>),
        Opt({"show", "hide"}, SepBy({","}, << Name >>)),
        Opt({";"}, <<>>),
        End >>

enumDeclaration ==
  << Ident, Consume({"{"}) >>
    \o Listed("}", << Ident, Opt({"("}, Listed(")", << Type >>)) >>)

\* A comma before the closing brace leaves the loop before the case is kept.
matchStatement ==
  << Node("MATCH_STATEMENT") >> \o Condition \o
  << Consume({"{"}), PushBlock("match"),
     Until({"}"},
       << Pattern, Opt({"where"}, << Expr >>), Consume({"=>"}),
          Match({"{"}, << Block >>, << Expr >>),
          Opt({","}, << Check({"}"}, << Break >>, <<>>) >>),
          CaseKept >>),
     PopBlock, Consume({"}"}), PopCst >>

traitDeclaration ==
  << Opt({"open"}, <<>>), Ident, Opt({":"}, SepBy({","}, << Ident >>)), Consume({"{"}) >>
    \o Braced(<< Match({"fn"},
                   << Ident, Consume({"("}) >>
                     \o Listed(")", << Ident, Consume({":"}), Type >>)
                     \o << Opt({":"}, << Type >>),
                           Match({";"}, <<>>, << Consume({"{"}), Block >>) >>,
                   << Error, Break >>) >>)

interfaceDeclaration ==
  << Opt({"@"}, << Ident >>), Ident, Consume({"{"}) >>
    \o Braced(<< Match({"fn"}, << Call("function") >>, << Error, Break >>) >>)

moduleDeclaration ==
  << Ident, Consume({"{"}) >> \o Braced(<< Opt({"@"}, << Ident >>), Call("declaration") >>)

contractStatement ==
  << Node("CONTRACT_STATEMENT"), Consume({"("}), Expr,
     Opt({","}, << Match({"string"}, <<>>, << Expr >>) >>), Consume({")"}), Consume({";"}) >>

TypeStart == Identifiers \cup PrimitiveType

\* The fields of a structural type; onBadField is what follows the error for a bad name.
StructFields(fieldType, onBadField) ==
  << Until({"}"},
       << Opt({"..."}, << Opt(Identifiers, <<>>),
                          Match({","}, << Continue >>, << Check({"}"}, << Break >>, << Error >>) >>) >>),
          Match(Identifiers \cup {"string"}, <<>>, << Error, onBadField >>),
          Consume({":"}), fieldType,
          Check({"}"}, <<>>, << Opt({","}, <<>>) >>) >>),
     Consume({"}"}) >>

typeDeclaration ==
  << Ident, Consume({"="}),
     Switch(<< <<{"["}, << Check({"]"}, <<>>, << Type >>), Consume({"]"}) >> >>,
               <<{"{"}, << Ahead(<< PrimitiveType \cup KnownTypeName, {":"}, TypeStart \cup {"[", "{"} >>,
                             << Advance, Consume({":"}), Type, Consume({"}"}) >>,
                             StructFields(Type, Return)) >> >> >>,
            << Check(TypeStart,
                 << Type, Switch(<< <<{"|"}, SepBy({"|"}, << Type >>) >>,
                                    <<{"and"}, SepBy({"and"}, << Type >>) >>,
                                    <<{"where"}, << Expr >> >> >>, <<>>) >>,
                 << Match({"nil"}, <<>>, << Error >>) >>) >>),
     Consume({";"}),
     End >>

------------------------------------------------------------------------------
\* Expressions: parser/expressions.cpp.  A method that begins with a call begins with its body.

objectLiteral == Listed("}", << Ident, Consume({":"}), Expr >>) \o << Emit("object") >>

dictionary == Listed("}", << Ahead(<< Identifiers, {":"} >>, << Advance >>, << Expr >>),
                             Consume({":"}), Expr >>) \o << Emit("dict") >>

interpolation ==
  LET Part == << Expr, Consume({"interp_end"}) >>
  IN Part \o << WhileMatch({"interp_start"}, Part), Opt({"string"}, <<>>), Emit("string") >>

parenthesized ==
  << Match({")"}, << Emit("tuple") >>,
       << Expr, Match({","}, SepBy({","}, << Check({")"}, << Break >>, << Expr >>) >>)
                               \o << Consume({")"}), Emit("tuple") >>,
                             << Consume({")"}), Emit("grouping") >>) >>) >>

errorConstruct ==
  << Consume({"("}),
     Match({")"}, <<>>, << Ident, Opt({"("}, Listed(")", << Expr >>)), Consume({")"}) >>),
     Emit("err") >>

\* Mutant: a comma does not start an expression either.
noExpression_at_comma ==
  << Check({EOF, ";", "}", ")", "]", ","}, <<>>, << Error, Advance >>), Emit("error") >>

\* With nothing to start an expression at a closer or a semicolon, no token is consumed and
\* no error is reported.
noExpression == << Check({EOF, ";", "}", ")", "]"}, <<>>, << Error, Advance >>), Emit("error") >>

primary ==
  << Switch(<< <<{"true", "nil", "string"} \cup Number, << Emit("literal") >> >>,
               <<{"interp_start"}, interpolation >>,
               <<{"this", "self"}, << Emit("this") >> >>,
               <<{"print", "sleep"}, << Emit("var") >> >>,
               <<Identifiers, << Match({"{"}, objectLiteral, << Emit("var") >>) >> >>,
               <<{"err"}, errorConstruct >>,
               <<{"ok"}, << Consume({"("}), Expr, Consume({")"}), Emit("ok") >> >>,
               <<{"fn"}, << Call("lambdaExpression") >> >>,
               <<{"("}, parenthesized >>,
               <<{"["}, Listed("]", << Expr >>) \o << Emit("list") >> >>,
               <<{"{"}, dictionary >>,
               <<{"super"}, << Emit("super") >> >> >>,
            noExpression) >>

call ==
  primary \o
  << Until({EOF},
       << Switch(<< <<{"("}, << Call("finishCall") >> >>,
                    <<{"."}, << Switch(<< <<{"1"}, << Emit("index") >> >>,
                                          <<{"1.5"}, << Error, Emit("index") >> >> >>,
                                       << Ident, Emit("member") >>) >> >>,
                    <<{"["}, << Expr, Consume({"]"}), Emit("index") >> >>,
                    <<{"?"}, << Opt({"else"}, << Opt(Identifiers, <<>>), Call("statement") >>),
                                Emit("fallible") >> >> >>,
                 << Break >>) >>) >>

finishCall ==
  Listed(")", << Ahead(<< Identifiers, {"="} >>, << Advance, Advance, Expr >>, << Expr >>) >>)
    \o << Emit("call") >>

unary  == << Match({"!", "-", "+"}, << Call("unary"), Emit("unary") >>, call) >>
power  == unary \o << Binary({"**"}, "power") >>

\* Mutant: the right operand may be a product.
factor_right == power \o << Binary({"*"}, "factor") >>

\* The right operand is a unary expression: it cannot be a power.
factor == power \o << Binary({"*"}, "unary") >>

term   == factor \o << Binary({"+", "-"}, "factor") >>

\* A range is not followed by a comparison; a cast takes a type.
comparison ==
  term \o
  << Match({".."}, << Call("term"), Emit("..") >>,
       << Until({EOF}, << Switch(<< <<{"<"}, << Call("term"), Emit("<") >> >>,
                                    <<{"as"}, << Type, Emit("as") >> >> >>,
                                 << Break >>) >>) >>) >>

equality   == comparison \o << Binary({"=="}, "comparison") >>
logicalAnd == equality \o << Binary({"and"}, "equality") >>
logicalOr  == logicalAnd \o << Binary({"or"}, "logicalAnd") >>
assignment == logicalOr \o << Assign >>

lambdaExpression ==
  << Consume({"("}) >> \o Listed(")", << Ident, Opt({":"}, << Type >>) >>)
    \o << Opt({":"}, << Type >>), Consume({"{"}) >> \o Braced(<< Call("declaration") >>)
    \o << Emit("lambda") >>

------------------------------------------------------------------------------
\* Types: parser/types.cpp.  An unknown token is neither consumed nor reported.

parseBasicType ==
  << Switch(<<
       <<{"["}, << Check({"]"}, <<>>, << BasicType >>), Consume({"]"}) >> >>,
       <<{"("}, Listed(")", << BasicType >>) >>,
       <<{"{"}, << Call("parseBraceType") >> >>,
       <<{"fn"}, << Call("parseFunctionTypeAnnotation") >> >>,
       <<{"function"}, << Call("parseLegacyFunctionType") >> >> >>,
     << Switch(<< <<(Identifiers \ KnownTypeName) \cup PrimitiveType \cup OtherType \cup {"nil", "string"},
                    <<>> >> >>, <<>>),
        Opt({"?"}, << Opt(Identifiers, << WhileMatch({","}, << Ident >>) >>) >>) >>) >>

parseTypeAnnotation ==
  parseBasicType \o
  << Check({"|"}, << WhileMatch({"|"}, << BasicType >>) >>,
       << Check({"and"}, << WhileMatch({"and"}, << BasicType >>) >>,
            << Opt({"where"}, << Expr >>) >>) >>) >>

parseBraceType ==
  << Check(PrimitiveType \cup KnownTypeName,
       << BasicType, Consume({":"}), BasicType, Consume({"}"}) >>,
       StructFields(BasicType, Break)) >>

parseFunctionTypeAnnotation ==
  << Consume({"("}) >> \o Listed(")", << Call("parseFunctionParameter") >>)
    \o << Opt({":"}, << Type >>) >>

parseLegacyFunctionType ==
  << Opt({"("}, Listed(")", << Match(Identifiers, << Opt({":"}, << BasicType >>) >>, << BasicType >>) >>)
                  \o << Opt({":"}, << BasicType >>) >>) >>

\* A name that is not followed by '?' or ':' is the type itself (current--).
parseFunctionParameter ==
  LET Named(colon) == << Check(ReservedName, << Advance, Advance >> \o colon \o << Error >>,
                                             << Advance, Advance >> \o colon), Type >>
  IN << Ahead(<< Identifiers, {"?"} >>, Named(<< Consume({":"}) >>),
          << Ahead(<< Identifiers, {":"} >>, Named(<<>>), << Type >>) >>) >>

------------------------------------------------------------------------------
\* Patterns: parser/patterns.cpp.  The caps of 100 elements are left out.

parsePattern ==
  << Switch(<< <<{"_"}, <<>> >>,
               <<{"val"}, << Ident >> >>,
               <<{"err"}, << Ident, Opt({":"}, << Ident >>) >> >>,
               <<PrimitiveType \cup OtherType \cup {"function"}, <<>> >>,
               <<{"["}, << Call("parseListPattern") >> >>,
               <<{"{"}, << Call("parseDictPattern") >> >>,
               <<{"("}, Listed(")", << Pattern >>) >> >>,
       << Check(ErrorName, << Call("parseErrorTypePattern") >>,
            << Ahead(<< Identifiers, {".", "("} >>, << Call("parseBindingPattern") >>,
                 << Match(Identifiers, <<>>, << Expr >>) >>) >>) >>) >>

parseBindingPattern ==
  << Ident, WhileMatch({"."}, << Ident >>), Opt({"("}, Listed(")", << Pattern >>)) >>

Rest == Match({"..."}, << Opt(Identifiers, <<>>), Break >>, <<>>)

parseListPattern == Listed("]", << Rest, Pattern >>)
parseDictPattern == Listed("}", << Rest, Ident, Opt({":"}, << Pattern >>) >>)

parseErrorTypePattern == << Ident, Opt({"("}, Listed(")", << Ident >>)) >>

------------------------------------------------------------------------------
Procedures ==
  [declaration |-> declaration, varDeclaration |-> varDeclaration, statement |-> statement,
   expressionStatement |-> expressionStatement, printStatement |-> printStatement,
   ifStatement |-> ifStatement, block |-> block, forStatement |-> forStatement,
   whileStatement |-> whileStatement, iterStatement |-> iterStatement, function |-> function,
   returnStatement |-> returnStatement, parseConcurrencyParams |-> parseConcurrencyParams,
   frameDeclaration |-> frameDeclaration, parallelStatement |-> parallelStatement,
   concurrentStatement |-> concurrentStatement, taskStatement |-> taskStatement,
   workerStatement |-> workerStatement, importStatement |-> importStatement,
   enumDeclaration |-> enumDeclaration, matchStatement |-> matchStatement,
   traitDeclaration |-> traitDeclaration, interfaceDeclaration |-> interfaceDeclaration,
   moduleDeclaration |-> moduleDeclaration, contractStatement |-> contractStatement,
   typeDeclaration |-> typeDeclaration, expression |-> assignment, assignment |-> assignment,
   logicalOr |-> logicalOr, logicalAnd |-> logicalAnd, equality |-> equality,
   comparison |-> comparison, term |-> term, factor |-> factor, power |-> power,
   unary |-> unary, call |-> call, finishCall |-> finishCall, primary |-> primary,
   lambdaExpression |-> lambdaExpression, parseTypeAnnotation |-> parseTypeAnnotation,
   parseBasicType |-> parseBasicType, parseBraceType |-> parseBraceType,
   parseFunctionTypeAnnotation |-> parseFunctionTypeAnnotation,
   parseLegacyFunctionType |-> parseLegacyFunctionType,
   parseFunctionParameter |-> parseFunctionParameter, parsePattern |-> parsePattern,
   parseBindingPattern |-> parseBindingPattern, parseListPattern |-> parseListPattern,
   parseDictPattern |-> parseDictPattern, parseErrorTypePattern |-> parseErrorTypePattern]
==============================================================================
