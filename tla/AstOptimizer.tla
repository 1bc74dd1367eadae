------------------------------ MODULE AstOptimizer ------------------------------
(***************************************************************************)
(* The optimizer of syntax trees (src/frontend/ast/optimizer.cpp), one     *)
(* top-level statement a step, at most three times over the program.       *)
(*                                                                         *)
(* A node is a tuple that starts with its kind; Null is a null pointer.    *)
(* The value of a literal is a sequence of pieces: << "n", q >> the text   *)
(* of a number q, << "s", t >> another text, << "b", p >> a bool; a        *)
(* literal of the source has tag "unset" until it is visited.  A number is *)
(* a fraction in lowest terms: whole in the source, and a folded quotient  *)
(* is kept exactly where the code writes 17 digits of it.  flaws is        *)
(* history: where the optimizer is known to change a program.              *)
(***************************************************************************)
EXTENDS Integers, FiniteSetsExt, SequencesExt

CONSTANTS Programs,          \* the programs to optimize
          MAX_ITERATIONS,    \* 3 in the code
          LOOP_FUEL               \* bound: loop iterations of the reference interpreter

VARIABLES statements, index, iterations, changed, context,
          expected           \* history: what the program prints

astVars == << statements, index, iterations, changed, context, expected >>

Null == << "null" >>
Number(q) == << << "n", q >> >>
Whole(k) == Number(<< k, 1 >>)
Truth(p) == << << "b", p >> >>
Literal(tag, v) == << "literal", tag, v >>
isLiteralConstant(e) == e[1] = "literal"
IsNumber(v) == Len(v) = 1 /\ v[1][1] = "n"
IsBool(v) == Len(v) = 1 /\ v[1][1] = "b"
createBoolLiteral(p) == Literal("Bool", Truth(p))
createStringLiteral(v) == Literal("String", v)
\* stoull reads -1 as the largest UInt64: every negative number gets that type.
createNumericLiteral(k) == Literal(IF k < 0 THEN "UInt64" ELSE "Int64", Whole(k))
inferLiteralType(v) == CASE IsNumber(v) -> "Int64" [] IsBool(v) -> "Bool" [] OTHER -> "String"
optimizeLiteralExpr(e) == IF e[2] = "unset" THEN Literal(inferLiteralType(e[3]), e[3]) ELSE e
Text(v) == IF IsBool(v) THEN << << "s", IF v[1][2] THEN "true" ELSE "false" >> >> ELSE v

------------------------------------------------------------------------------
\* The context.
NoConstants == [x \in {} |-> Null]
setConstant(c, x, e) == [c EXCEPT !.constants = (x :> e) @@ @,
                                  !.flaws = @ \cup (IF x \in c.assigned \ c.reassigned THEN {"reassigned"} ELSE {})]
markReassigned(c, x) == [c EXCEPT !.reassigned = @ \cup {x}]

\* The stacks hold every name since the last popScope, so nothing remains.
popScope(c) == [c EXCEPT !.constants = NoConstants, !.reassigned = {}]
isConstant(c, x) == x \in DOMAIN c.constants /\ x \notin c.reassigned

\* The expressions in an expression, in the order of the code.
Parts(e) ==
  CASE e[1] = "binary" -> << e[3], e[4] >>
    [] e[1] \in {"unary", "assign"} -> << e[3] >>
    [] e[1] = "grouping" -> << e[2] >>
    [] e[1] \in {"interpolated", "call"} -> e[2]
    [] e[1] = "ternary" -> Tail(e)
    [] OTHER -> <<>>

\* The names an expression or a statement assigns, to be marked before the first pass.  A kind of
\* statement the analysis does not know has none (iter stands for them).
RECURSIVE preAnalyzeExpression(_)
preAnalyzeExpression(e) ==
  (IF e[1] = "assign" THEN {e[2]} ELSE {}) \cup UNION {preAnalyzeExpression(Parts(e)[i]) : i \in DOMAIN Parts(e)}

RECURSIVE preAnalyzeStatement(_)
preAnalyzeStatement(s) ==
  CASE s[1] = "var" -> preAnalyzeExpression(s[3])
    [] s[1] = "block" -> UNION {preAnalyzeStatement(s[2][i]) : i \in DOMAIN s[2]}
    [] s[1] = "if" -> preAnalyzeExpression(s[2]) \cup preAnalyzeStatement(s[3]) \cup preAnalyzeStatement(s[4])
    [] s[1] = "while" -> preAnalyzeExpression(s[2]) \cup preAnalyzeStatement(s[3])
    [] s[1] = "for" -> preAnalyzeStatement(s[2]) \cup preAnalyzeExpression(s[3]) \cup preAnalyzeExpression(s[4]) \cup preAnalyzeStatement(s[5])
    [] s[1] \in {"return", "print", "expr"} -> preAnalyzeExpression(s[2])
    [] OTHER -> {}
preAnalyzeReassignments(p) == UNION {preAnalyzeStatement(p[i]) : i \in DOMAIN p}

------------------------------------------------------------------------------
\* Folding.
Ratio(p, d) ==
  LET m == IF d < 0 THEN -d ELSE d
      g == Max({k \in 1 .. m : p % k = 0 /\ m % k = 0})
  IN << (IF d < 0 THEN -p ELSE p) \div g, m \div g >>
Truncated(q) == IF q[1] < 0 THEN -((-q[1]) \div q[2]) ELSE q[1] \div q[2]
IsWhole(q) == q[2] = 1

Divided(a, b) == Ratio(a[1] * b[2], a[2] * b[1])
Calculation(op, a, b) ==
  CASE op = "+" -> Ratio(a[1] * b[2] + b[1] * a[2], a[2] * b[2])
    [] op = "-" -> Ratio(a[1] * b[2] - b[1] * a[2], a[2] * b[2])
    [] op = "*" -> Ratio(a[1] * b[1], a[2] * b[2])
    [] op = "/" -> Divided(a, b)
    [] op = "%" -> Ratio(a[1] * b[2] - Truncated(Divided(a, b)) * b[1] * a[2], a[2] * b[2])
Compare(op, a, b) ==
  LET x == a[1] * b[2]
      y == b[1] * a[2]
  IN CASE op = "<" -> x < y [] op = "<=" -> x <= y [] op = ">" -> x > y [] op = ">=" -> x >= y [] op = "==" -> x = y [] op = "!=" -> x # y
evaluateBinaryOp(op, l, r) ==
  IF ~(isLiteralConstant(l) /\ isLiteralConstant(r)) THEN Null
  ELSE IF l[2] = "Int64" /\ r[2] = "Int64" /\ IsNumber(l[3]) /\ IsNumber(r[3])
       THEN LET a == l[3][1][2]
                b == r[3][1][2]
            IN CASE op \in {"+", "-", "*"} -> Literal(l[2], Number(Calculation(op, a, b)))
                 [] op \in {"/", "%"} -> IF b[1] = 0 THEN Null ELSE Literal(l[2], Number(Calculation(op, a, b)))
                 [] op \in {"<", "<=", ">", ">=", "==", "!="} -> createBoolLiteral(Compare(op, a, b))
                 [] OTHER -> Null
  ELSE IF l[2] = "Bool" /\ r[2] = "Bool"
       THEN CASE op = "and" -> createBoolLiteral(l[3][1][2] /\ r[3][1][2])
              [] op = "or" -> createBoolLiteral(l[3][1][2] \/ r[3][1][2])
              [] OTHER -> Null
  ELSE Null

evaluateUnaryOp(op, r) ==
  CASE op = "!" /\ IsBool(r[3]) -> createBoolLiteral(~r[3][1][2])
    [] op = "-" /\ IsNumber(r[3]) -> createNumericLiteral(-Truncated(r[3][1][2]))
    [] op = "+" -> r
    [] OTHER -> Null

\* Two literals of which one is a string; a bool is not merged.
canonicalizeStrings(op, l, r) ==
  IF op = "+" /\ isLiteralConstant(l) /\ isLiteralConstant(r) /\ "String" \in {l[2], r[2]} /\ ~IsBool(l[3]) /\ ~IsBool(r[3])
  THEN createStringLiteral(l[3] \o r[3]) ELSE Null

\* x + 0, x * 1, x * 0.
simplifyAlgebraic(op, l, r) ==
  CASE isLiteralConstant(r) /\ r[3] = Whole(0) /\ op = "+" -> l
    [] isLiteralConstant(r) /\ r[3] = Whole(1) /\ op = "*" -> l
    [] isLiteralConstant(r) /\ r[3] = Whole(0) /\ op = "*" -> r
    [] OTHER -> << "binary", op, l, r >>

FirstOf(a, b) == IF a # Null THEN a ELSE b
foldBinary(op, l, r) == FirstOf(canonicalizeStrings(op, l, r), FirstOf(evaluateBinaryOp(op, l, r), simplifyAlgebraic(op, l, r)))

\* One literal if every part is one, else a chain of sums without the empty texts.
lowerInterpolation(parts) ==
  LET Chain(acc, e) == IF e = Null \/ (isLiteralConstant(e) /\ e[3] = <<>>) THEN acc
                       ELSE IF acc = Null THEN e ELSE << "binary", "+", acc, e >>
  IN IF \A i \in DOMAIN parts : isLiteralConstant(parts[i])
     THEN createStringLiteral(FlattenSeq([i \in DOMAIN parts |-> Text(parts[i][3])]))
     ELSE FirstOf(FoldLeft(Chain, Null, parts), << "interpolated", parts >>)

isCompileTimeTrue(e)  == isLiteralConstant(e) /\ (e[3] = Truth(TRUE) \/ e[3] = << << "s", "true" >> >>)
isCompileTimeFalse(e) == isLiteralConstant(e) /\ (e[3] \in {Truth(FALSE), Whole(0), <<>>} \/ e[3] = << << "s", "false" >> >>)

\* << "variable", name, tag >>: the literal takes the type of the variable, if that is known.
propagateConstants_all(c, e) ==
  IF ~c.in_loop /\ e[2] \in DOMAIN c.constants THEN c.constants[e[2]] ELSE e
propagateConstants(c, e) ==
  IF ~c.in_loop /\ isConstant(c, e[2])
  THEN LET k == c.constants[e[2]] IN Literal(IF e[3] # "unset" THEN e[3] ELSE k[2], k[3])
  ELSE e

\* The branch of a ternary, cast back to a ternary.
simplifyBranches(e) == LET b == IF isCompileTimeTrue(e[2]) THEN e[3] ELSE IF isCompileTimeFalse(e[2]) THEN e[4] ELSE e
                       IN IF b[1] = "ternary" THEN b ELSE Null

\* The known flaws, at the step where they come in.
Flaw(c, p, name) == IF p THEN [c EXCEPT !.flaws = @ \cup {name}] ELSE c
KnownAsString(e) == (isLiteralConstant(e) /\ e[2] = "String") \/ (e[1] = "variable" /\ e[3] = "String")
ReadAsNumber(e) ==
  /\ isLiteralConstant(e) /\ e[2] = "String" /\ Len(e[3]) > 1 /\ \A i \in DOMAIN e[3] : e[3][i][1] = "n"
  /\ e[3][1][2][1] = 0 \/ \E i \in 2 .. Len(e[3]) : e[3][i][2][1] < 0

\* Of the sums an interpolation becomes, each must have an operand the generator knows as a string.
SumOfStrings(parts) ==
  LET shown == SelectSeq(parts, LAMBDA e : e # Null /\ ~(isLiteralConstant(e) /\ e[3] = <<>>))
  IN /\ \E i \in 1 .. Min({2, Len(shown)}) : KnownAsString(shown[i])
     /\ \A i \in 3 .. Len(shown) : KnownAsString(shown[i])

BinaryFlaws(c, op, l, r, f) ==
  LET Fraction == isLiteralConstant(f) /\ IsNumber(f[3]) /\ ~IsWhole(f[3][1][2])
      simplified == (op = "*" /\ f = r) \/ (op = "+" /\ f = l)
      dropped == simplified /\ (l[1] \notin {"literal", "variable"} \/ (op = "+" /\ r[2] = "String"))
  IN Flaw(Flaw(Flaw(c, dropped, "operand dropped"), Fraction, "fraction"), ReadAsNumber(f), "text of numbers")

------------------------------------------------------------------------------
\* Expressions and statements, each with the context it leaves.
RECURSIVE optimizeExpression(_, _)
optimizeAll(c, es) ==
  FoldLeft(LAMBDA acc, e : LET o == optimizeExpression(acc[2], e) IN << Append(acc[1], o[1]), o[2] >>, << <<>>, c >>, es)

\* From the parts, optimized, and the context they leave.
Optimized(e, x, c) ==
  CASE e[1] = "binary" -> LET f == foldBinary(e[2], x[1], x[2]) IN << f, BinaryFlaws(c, e[2], x[1], x[2], f) >>
    [] e[1] = "unary" -> LET f == IF isLiteralConstant(x[1]) THEN evaluateUnaryOp(e[2], x[1]) ELSE Null
                         IN << FirstOf(f, << "unary", e[2], x[1] >>), Flaw(c, f # Null /\ f[2] = "UInt64", "negative") >>
    [] e[1] = "interpolated" -> LET f == lowerInterpolation(x)
                                IN << f, Flaw(Flaw(c, ~isLiteralConstant(f) /\ ~SumOfStrings(x), "sum of others"),
                                              ReadAsNumber(f), "text of numbers") >>
    [] e[1] = "literal" -> << optimizeLiteralExpr(e), c >>
    [] e[1] = "variable" -> << propagateConstants(c, e), c >>
    [] e[1] = "grouping" -> << IF isLiteralConstant(x[1]) THEN x[1] ELSE << "grouping", x[1] >>, c >>
    [] e[1] = "ternary" -> LET t == simplifyBranches(<< "ternary" >> \o x) IN << t, Flaw(c, t = Null, "ternary lost") >>
    [] e[1] = "assign" -> << << "assign", e[2], x[1] >>, markReassigned(c, e[2]) >>
    [] OTHER -> << e, c >>

\* A call is left as it is: nothing calls optimizeCallExpr.
With(o, K(_, _)) == K(o[1], o[2])
optimizeExpression(c, e) == With(optimizeAll(c, IF e[1] = "call" THEN <<>> ELSE Parts(e)), LAMBDA x, d : Optimized(e, x, d))

\* << "var", name, initializer >>
optimizeVarDeclaration(c, s) ==
  LET Declared(e, d) == << << "var", s[2], e >>, IF isLiteralConstant(e) THEN setConstant(d, s[2], e) ELSE d >>
  IN IF s[3] = Null THEN << s, c >>
     ELSE With(optimizeExpression(c, s[3]), LAMBDA e, d : Declared(FirstOf(e, createStringLiteral(<<>>)), d))

RECURSIVE optimizeStatement(_, _)
optimizeBlockStatement(c, s) ==
  With(FoldLeft(LAMBDA acc, t : With(optimizeStatement(acc[2], t), LAMBDA r, d : << Append(acc[1], r), d >>), << <<>>, c >>, s[2]),
       LAMBDA all, d : << << "block", SelectSeq(all, LAMBDA t : t # Null) >>, popScope(d) >>)

optimizeIfStatement(c, s) ==
  With(optimizeExpression(c, s[2]), LAMBDA cond, d :
    With(optimizeStatement(d, s[3]), LAMBDA then, f :
      With(optimizeStatement(f, s[4]), LAMBDA else, g :
        << IF isCompileTimeTrue(cond) THEN then ELSE IF isCompileTimeFalse(cond) THEN else ELSE << "if", cond, then, else >>, g >>)))

\* The end of an inner loop ends in_loop for the outer one too.
optimizeWhileStatement(c, s) ==
  With(optimizeStatement([c EXCEPT !.in_loop = TRUE], s[3]), LAMBDA body, d :
    With(optimizeExpression(d, s[2]), LAMBDA cond, f :
      << IF isCompileTimeFalse(cond) THEN Null ELSE << "while", cond, body >>, [f EXCEPT !.in_loop = FALSE] >>))

optimizeForStatement(c, s) ==
  With(optimizeStatement(Flaw(c, s[2][1] = "var" /\ s[2][2] \notin c.assigned, "loop constant"), s[2]), LAMBDA init, d :
    With(optimizeStatement([d EXCEPT !.in_loop = TRUE], s[5]), LAMBDA body, f :
      With(optimizeExpression(f, s[4]), LAMBDA incr, g :
        With(optimizeExpression(g, s[3]), LAMBDA cond, h :
          << << "for", init, cond, incr, body >>, [h EXCEPT !.in_loop = FALSE] >>))))

\* An expression statement is not optimized.
optimizeStatement(c, s) ==
  CASE s[1] = "var" -> optimizeVarDeclaration(c, s)
    [] s[1] = "block" -> optimizeBlockStatement(c, s)
    [] s[1] = "if" -> optimizeIfStatement(c, s)
    [] s[1] = "while" -> optimizeWhileStatement(c, s)
    [] s[1] = "for" -> optimizeForStatement(c, s)
    [] s[1] \in {"return", "print"} -> With(optimizeExpression(c, s[2]), LAMBDA e, d : << << s[1], e >>, d >>)
    [] OTHER -> << s, c >>

------------------------------------------------------------------------------
\* The reference: what a program prints, by the lowering of src/lir.  A value is << tag, pieces >>:
\* "Text" is a string that register_types_ does not know as one.  Of "garbage" the model says nothing:
\* a sum of such a string, an operation on nil, a literal without a constant at run time.
Err == << "error", <<>> >>
Garbage == << "garbage", <<>> >>
Stops(v) == v[1] \in {"error", "garbage"}
Innermost(env, x) == Max({0} \cup {i \in DOMAIN env : x \in DOMAIN env[i]})
Bind(env, i, x, v) == [env EXCEPT ![i] = (x :> IF v[1] = "Text" THEN << "String", v[2] >> ELSE v) @@ @]
Nothing == [x \in {} |-> Err]

Constant(e) ==
  LET tag == IF e[2] = "unset" THEN inferLiteralType(e[3]) ELSE e[2]
  IN IF tag \notin {"Int64", "Bool", "String"} \/ ReadAsNumber(e) \/ (IsNumber(e[3]) /\ ~IsWhole(e[3][1][2]))
     THEN Garbage ELSE << tag, e[3] >>

Concatenates(op, a, b) == op = "+" /\ "String" \in {a[1], b[1]} /\ "Nil" \notin {a[1], b[1]}

\* A division is one of whole numbers.
Operate(op, a, b) ==
  IF Stops(a) \/ Stops(b) THEN (IF Stops(a) THEN a ELSE b)
  ELSE IF Concatenates(op, a, b) THEN << "Text", Text(a[2]) \o Text(b[2]) >>
  ELSE IF a[1] # "Int64" \/ b[1] # "Int64" THEN Garbage
  ELSE LET x == a[2][1][2]
           y == b[2][1][2]
       IN CASE op \in {"+", "-", "*"} -> << "Int64", Number(Calculation(op, x, y)) >>
            [] op \in {"/", "%"} -> IF y[1] = 0 THEN Err ELSE << "Int64", Whole(Truncated(Calculation(op, x, y))) >>
            [] OTHER -> << "Bool", Truth(Compare(op, x, y)) >>

RECURSIVE Eval(_, _)
EvalAll(env, es) == FoldLeft(LAMBDA acc, e : LET r == Eval(acc[2], e) IN << Append(acc[1], r[1]), r[2] >>, << <<>>, env >>, es)
IsLogical(e) == e[1] = "binary" /\ e[2] \in {"and", "or"}

\* First the operands, but of and, or and a ternary only the first; then what its value asks for.  The
\* operands of a sum are computed twice, unless one is known as a string.
Operands(e) == IF IsLogical(e) \/ e[1] = "ternary" THEN << Parts(e)[1] >> ELSE Parts(e)
Further(e, vs) ==
  CASE IsLogical(e) /\ vs[1][1] = "Bool" -> IF vs[1][2] = Truth(e[2] = "or") THEN <<>> ELSE << e[4] >>
    [] e[1] = "binary" /\ e[2] = "+" -> IF Concatenates("+", vs[1], vs[2]) THEN <<>> ELSE Parts(e)
    [] e[1] = "ternary" /\ ~Stops(vs[1]) -> << IF vs[1][2] = Truth(TRUE) THEN e[3] ELSE e[4] >>
    [] OTHER -> <<>>

\* From the first values of the operands and the last.
ValueOf(env, e, first, last) ==
  CASE e[1] = "literal" -> Constant(e)
    [] e[1] = "variable" -> LET i == Innermost(env, e[2]) IN IF i = 0 THEN Err ELSE env[i][e[2]]
    [] IsLogical(e) -> IF Stops(first[1]) \/ first[1][1] = "Bool" THEN last[1] ELSE Garbage
    [] e[1] = "binary" /\ ~IsLogical(e) -> Operate(e[2], last[1], last[2])
    [] e[1] = "unary" -> CASE Stops(last[1]) \/ e[2] = "+" -> last[1]
                           [] last[1][1] = "Bool" /\ e[2] = "!" -> << "Bool", Truth(~last[1][2][1][2]) >>
                           [] last[1][1] = "Int64" /\ e[2] = "-" -> << "Int64", Number(Calculation("-", << 0, 1 >>, last[1][2][1][2])) >>
                           [] OTHER -> Garbage
    [] e[1] = "interpolated" -> IF \E i \in DOMAIN last : Stops(last[i]) THEN SelectSeq(last, Stops)[1]
                                ELSE << "Text", FlattenSeq([i \in DOMAIN last |-> Text(last[i][2])]) >>
    [] e[1] = "assign" -> IF Innermost(env, e[2]) = 0 /\ ~Stops(last[1]) THEN Err ELSE last[1]
    [] e[1] \in {"grouping", "call", "ternary"} -> last[1]
    [] OTHER -> Err

Outcome(e, env, v) == << v, IF e[1] = "assign" /\ ~Stops(v) THEN Bind(env, Innermost(env, e[2]), e[2], v) ELSE env >>
Computed(e, first, last) == Outcome(e, last[2], ValueOf(last[2], e, first[1], last[1]))
Completed(e, first, more) == Computed(e, first, IF more = <<>> THEN first ELSE EvalAll(first[2], more))
Continued(e, first) == Completed(e, first, Further(e, first[1]))
Eval(env, e) == Continued(e, EvalAll(env, Operands(e)))

\* A state of the interpreter: todo is what it has left to do, on is "run", "returned", "error" or
\* "garbage".  << "loop", condition, statements >> and << "leave", environments >> are its own.
Expression(s) == IF s[1] \in {"expr", "print", "return", "if", "loop"} \/ (s[1] = "var" /\ s[3] # Null)
                 THEN s[IF s[1] = "var" THEN 3 ELSE 2] ELSE Literal("unset", << << "s", "nil" >> >>)
Before(st, now) == [st EXCEPT !.todo = now \o @]
Leave(st) == << << "leave", Len(st.env) >> >>
Exec(st, s, v) ==
  CASE s[1] = "var" -> [st EXCEPT !.env = Bind(@, Len(@), s[2], IF s[3] = Null THEN << "Nil", v[2] >> ELSE v)]
    [] s[1] = "print" -> [st EXCEPT !.out = Append(@, Text(v[2]))]
    [] s[1] = "return" -> [st EXCEPT !.on = "returned"]
    [] s[1] = "block" -> [Before(st, s[2] \o Leave(st)) EXCEPT !.env = Append(@, Nothing)]
    [] s[1] = "if" -> Before(st, << IF v[2] = Truth(TRUE) THEN s[3] ELSE s[4] >>)
    [] s[1] = "while" -> Before(st, << << "loop", s[2], << s[3] >> >> >>)
    [] s[1] = "for" -> [Before(st, << s[2], << "loop", s[3], << s[5], << "expr", s[4] >> >> >> >> \o Leave(st))
                        EXCEPT !.env = Append(@, Nothing)]
    [] s[1] = "iter" -> Before(st, [i \in 1 .. s[2] |-> s[3]])
    [] s[1] = "loop" -> IF st.fuel = 0 THEN [st EXCEPT !.on = "error"]
                        ELSE IF v[2] = Truth(TRUE) THEN [Before(st, s[3] \o << s >>) EXCEPT !.fuel = @ - 1] ELSE st
    [] s[1] = "leave" -> [st EXCEPT !.env = SubSeq(@, 1, s[2])]
    [] OTHER -> st

Step(st, s, r) == IF Stops(r[1]) THEN [st EXCEPT !.on = r[1][1]] ELSE Exec([st EXCEPT !.todo = Tail(@), !.env = r[2]], s, r[1])

RECURSIVE Run(_)
Run(st) ==
  IF st.todo = <<>> \/ st.on # "run" THEN st
  ELSE Run(Step(st, Head(st.todo), Eval(st.env, Expression(Head(st.todo)))))

Output(p) ==
  LET r == Run([todo |-> p, env |-> << Nothing >>, out |-> <<>>, fuel |-> LOOP_FUEL, on |-> "run"])
  IN << r.out, r.on >>

------------------------------------------------------------------------------
\* optimizeProgram.
AstInit ==
  /\ statements \in Programs
  /\ index = 1 /\ iterations = 1 /\ changed = FALSE
  /\ LET marked == preAnalyzeReassignments(statements)
         missed == UNION {preAnalyzeStatement(statements[i][3]) : i \in {j \in DOMAIN statements : statements[j][1] = "iter"}}
     IN context = [constants |-> NoConstants, reassigned |-> marked, in_loop |-> FALSE, assigned |-> marked \cup missed, flaws |-> {}]
  /\ expected = Output(statements)

\* A statement is another object afterwards if a branch or a loop was removed.
OptimizeNext ==
  /\ index <= Len(statements)
  /\ LET o == optimizeStatement(context, statements[index]) IN
     /\ statements' = [statements EXCEPT ![index] = o[1]]
     /\ context' = o[2]
     /\ changed' = (changed \/ o[1][1] # statements[index][1])
  /\ index' = index + 1
  /\ UNCHANGED << iterations, expected >>

Again == /\ index > Len(statements) /\ changed /\ iterations < MAX_ITERATIONS
         /\ index' = 1 /\ iterations' = iterations + 1 /\ changed' = FALSE
         /\ UNCHANGED << statements, context, expected >>

Finished == /\ index > Len(statements) /\ ~(changed /\ iterations < MAX_ITERATIONS)
            /\ UNCHANGED astVars

AstNext == OptimizeNext \/ Again \/ Finished

\* The program the optimizer has reached prints what the original one does, unless it met a known flaw:
\*   reassigned       a variable with assignments was taken for a constant: popScope had forgotten the
\*                    mark, or the assignment is in a kind of statement the pre-analysis does not know;
\*   loop constant    the variable of a for loop, not assigned in it, outlives the loop as a constant;
\*   ternary lost     a ternary with a constant condition became a null pointer (optimizeTernaryExpr);
\*   operand dropped  x * 0 or x + 0 where computing x can fail or has an effect, or s + "0"
\*                    (simplifyAlgebraic);
\*   negative         a negated literal is typed UInt64 (createNumericLiteral): it folds no further, and
\*                    has no constant at run time;
\*   fraction         7/2 folds to the Int64 literal 3.5 (evaluateBinaryOp);
\*   sum of others    an interpolation became a sum of operands of which the generator knows none as a
\*                    string, "{x}{y}" as x + y (lowerInterpolation);
\*   text of numbers  constants joined to the text 1-1 or 01, which is lowered as a number.
OutputKept == context.flaws = {} /\ expected[2] # "garbage" => Output(statements) = expected
==============================================================================
