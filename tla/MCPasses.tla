---------------------------- MODULE MCPasses ----------------------------
(***************************************************************************)
(* Bounds for the passes that must keep what they are given: source texts  *)
(* over a few alphabets, each for one kind of token, for the scanner;      *)
(* programs of up to three statements after the declaration of x for the   *)
(* optimizer of syntax trees; families of functions (the opcodes one may   *)
(* use, and how many it has) for that of LIR.  A behaviour is one of one   *)
(* of the three.                                                           *)
(***************************************************************************)
EXTENDS Scanner, AstOptimizer, LirOptimizer

CONSTANTS MAX_LENGTH,   \* bound: characters of a text
          MAX_COMMENT   \* bound: of a text with comments of several lines and a token after them

VARIABLE subject

N(k) == Literal("unset", Whole(k))
V(x) == << "variable", x, "unset" >>
Bin(op, l, r) == << "binary", op, l, r >>
Set(x, e) == << "expr", << "assign", x, e >> >>
Show(e) == << "print", e >>
Block(s) == << "block", s >>
Str(t) == Literal("unset", << << "s", t >> >>)

Join(parts) == Show(<< "interpolated", parts >>)
LessThan(k) == Bin("<", V("x"), N(k))

Statements ==
  {<< "var", "y", Bin("+", V("x"), N(0)) >>,
   << "var", "y", Bin("/", Bin("*", << "variable", "x", "Int64" >>, N(4)), N(2)) >>,
   << "var", "z", Null >>,
   Set("x", N(2)),
   Set("x", Bin("+", V("x"), N(1))),
   << "iter", 2, Block(<< Set("x", Bin("*", V("x"), N(3))) >>) >>,
   Join(<< Str("a"), V("x"), Literal("unset", <<>>), LessThan(2) >>),
   Join(<< V("x"), Str("b") >>),
   Join(<< V("x"), V("x") >>),
   Join(<< V("x"), Bin("-", V("x"), N(2)) >>),
   Show(Bin("-", << "unary", "-", V("x") >>, << "grouping", V("y") >>)),
   Show(Bin("-", N(1), Bin("+", V("x"), N(1)))),
   Show(Bin("+", << "assign", "x", N(4) >>, V("x"))),
   Show(Bin("*", V("x"), N(0))),
   Show(Bin("*", << "assign", "x", N(5) >>, N(0))),
   Show(Bin("*", Bin("/", N(7), Bin("%", V("x"), N(3))), N(2))),
   Show(Bin("*", Bin("/", N(7), Bin("+", V("x"), N(1))), N(2))),
   Show(<< "ternary", LessThan(2), V("x"), Str("b") >>),
   Show(<< "call", << Bin("*", V("x"), N(1)) >> >>),
   << "if", LessThan(2), Block(<< Show(V("x")), << "var", "x", N(7) >>, Show(V("x")) >>), Block(<< Show(Str("c")) >>) >>,
   << "if", << "unary", "!", Bin("and", Bin("==", V("x"), N(1)), Literal("unset", Truth(TRUE))) >>, Block(<< Set("x", N(3)) >>), Null >>,
   << "while", LessThan(3), Block(<< Show(V("x")), Set("x", Bin("+", V("x"), N(1))) >>) >>,
   << "while", Bin(">", V("x"), N(3)), Block(<< Set("x", N(0)) >>) >>,
   << "for", << "var", "i", N(0) >>, Bin("<", V("i"), N(2)), << "assign", "i", Bin("+", V("i"), N(1)) >>,
      Block(<< Show(Bin("+", V("i"), V("x"))) >>) >>,
   << "for", << "var", "x", N(7) >>, Bin("<", V("y"), N(2)), << "assign", "y", N(2) >>, Show(V("x")) >>,
   << "return", Bin("/", V("x"), N(0)) >>}
ProgramsDef == {<< << "var", "x", N(1) >> >> \o s : s \in UNION {[1 .. n -> Statements] : n \in 1 .. 3}}

Four  == {{"LoadConst", "Mov", "Neg"}, {"LoadConst", "Mov", "PrintInt"}, {"Jump", "JumpIf", "PrintInt", "Return"}}
Three == {{"LoadConst", "Add", "Mul", "PrintInt"}, {"LoadConst", "Sub", "Div"}, {"LoadConst", "Mod", "PrintInt"},
          {"CmpEQ", "CmpNEQ", "Mov", "PrintInt"}, {"CmpLT", "CmpGE"}, {"CmpLE", "CmpGT", "PrintInt"},
          {"And", "Or", "Xor"}, {"LoadConst", "Jump", "JumpIfFalse", "Label"}}

LengthDef == [s \in Three \cup Four |-> IF s \in Three THEN 3 ELSE 4]

Comments == {"/", "*", LF, "a"}

Interpolations == {"\"", "{", "}", "a", LF}

Alphabets == {
  {"1", ".", "e", "-", "+"}, {"1", "m", "s", "n", " "}, {"a", "_", "1", "@", "#"}, {"@", "f", "t", " "},
  {"/", CR, LF, "a"}, {".", "=", ">", "-", "<"}, {"(", "}", "+", " ", "TAB"},
  Interpolations, {"\"", "{", "}", "1", ","}, {"'", "\\", "n", LF, "{"}, {"\"", "'", "/", "{", "}"}}

TextsDef == UNION {UNION {[1 .. n -> A] : n \in 0 .. MAX_LENGTH} : A \in Alphabets}
            \cup UNION {[1 .. n -> Comments] : n \in 0 .. MAX_COMMENT}
            \cup {<< LF >> \o t : t \in [1 .. MAX_LENGTH -> Interpolations]}
KeywordsDef == [t \in {<< "f", "n" >>, << "i", "n" >>, << "f" >>} |-> IF t = << "f", "n" >> THEN "FN" ELSE "IN"]

NoText     == file = <<>> /\ mode = "LEGACY" /\ ScannerInit
NoProgram  == statements = << << "var", "x", N(1) >>, Set("x", N(2)) >> /\ AstInit
NoFunction == opcodes = (CHOOSE s \in Three : TRUE) /\ LirInit

Init == \/ subject = "scanner" /\ NoProgram /\ NoFunction /\ ScannerInit
        \/ subject = "ast" /\ NoText /\ NoFunction /\ AstInit
        \/ subject = "lir" /\ NoText /\ NoProgram /\ LirInit
Next == \/ subject = "scanner" /\ ScannerNext /\ UNCHANGED << astVars, lirVars, subject >>
        \/ subject = "ast" /\ AstNext /\ UNCHANGED << scannerVars, lirVars, subject >>
        \/ subject = "lir" /\ LirNext /\ UNCHANGED << scannerVars, astVars, subject >>
Spec == Init /\ [][Next]_<< scannerVars, astVars, lirVars, subject >>
=============================================================================
