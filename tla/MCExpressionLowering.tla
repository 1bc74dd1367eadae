------------------------- MODULE MCExpressionLowering -------------------------
(***************************************************************************)
(* The variables in scope, one frame with a constructor and one without,   *)
(* and well-typed expressions of up to three levels.                       *)
(***************************************************************************)
EXTENDS ExpressionLowering

VarOrderDef == << "x", "b", "s", "l", "t", "d", "o", "ch", "k", "c", "y" >>
VarTypesDef == ("x" :> "Int64") @@ ("b" :> "Bool") @@ ("s" :> "String") @@ ("l" :> "List") @@ ("t" :> "Tuple")
               @@ ("d" :> "Dict") @@ ("o" :> "P") @@ ("ch" :> "Channel") @@ ("k" :> "Function") @@ ("c" :> "Shared") @@ ("y" :> "Float64")
Heap0Def == << << "list", << Num(5), Num(6) >> >>, << "tuple", << Num(7), Num(8) >> >>, << "dict", << << Num(1), Num(9) >> >> >>,
               << "frame", << Num(3), Num(4) >> >>, << "chan", <<>> >>, << "cell", << Num(2) >> >> >>
StartDef == ("x" :> Num(4)) @@ ("b" :> Bool(FALSE)) @@ ("s" :> Text(<< MARK >>)) @@ ("l" :> Ref(1)) @@ ("t" :> Ref(2))
            @@ ("d" :> Ref(3)) @@ ("o" :> Ref(4)) @@ ("ch" :> Ref(5)) @@ ("k" :> << "fn", "f" >>) @@ ("c" :> Ref(6)) @@ ("y" :> << "float", 2 >>)

One == << "lit", Num(1), "Int64" >>
Zero == << "lit", Num(0), "Int64" >>
Half == << "lit", << "float", 2 >>, "Float64" >>
Var(n) == << "var", n >>
F(e) == << "call", "f", << e >>, "Int64" >>
Two == << "lit", Num(2), "UInt64" >>
G(e) == << "call", "g", << e >>, "String" >>
FramesDef == ("P" :> [fields |-> << "u", "v" >>, defaults |-> << Zero, Zero >>, params |-> << "p" >>, optional |-> << << "q", One >> >>,
                      init |-> TRUE, methods |-> {"m"}])
             @@ ("Q" :> [fields |-> << "u" >>, defaults |-> << One >>, params |-> <<>>, optional |-> <<>>, init |-> FALSE, methods |-> {}])

IntAtoms == {One, Var("x"), F(One), << "assign", "=", "x", One >>}
BoolAtoms == {<< "lit", Bool(TRUE), "Bool" >>, Var("b"), << "call", "f", << Var("b") >>, "Bool" >>}
StrAtoms == {<< "lit", Text(<< "a" >>), "String" >>, Var("s")}
Numerals == {<< "lit", Text(n), "String" >> : n \in {<< "7" >>, << "0", "7" >>, << "1", ".", "5" >>, << "1", "-", "2" >>, << "-" >>}}

Ints == IntAtoms
  \cup {<< "bin", op, l, r >> : op \in {"+", "-", "/"}, l \in IntAtoms, r \in IntAtoms \cup {Half, Two, Var("y")}}
  \cup {<< "bin", "/", Var("y"), e >> : e \in IntAtoms}
  \cup {<< "un", op, e >> : op \in {"-", "+", "~"}, e \in IntAtoms}
  \cup {<< "assign", op, "x", e >> : op \in {"=", "+=", "*="}, e \in IntAtoms}
  \cup {<< "group", << "member", Var("o"), n >> >> : n \in {"u", "v"}}
  \cup {<< "index", Var(n), e >> : n \in {"l", "t", "d"}, e \in {One, F(One)}}
  \cup {<< "call", n, << e >>, "Int64" >> : n \in {"f", "k"}, e \in IntAtoms}
  \cup {<< "method", Var("o"), "m", << e >> >> : e \in IntAtoms}
  \cup {<< "method", Var("l"), "len", <<>> >>, << "method", Var("ch"), "recv", <<>> >>}
  \cup {<< "cast", e, t >> : e \in {Half, Var("y"), F(One)}, t \in {"Int64", "Float64"}}
Bools == BoolAtoms \cup {<< "bin", op, l, r >> : op \in {"<", "==", "!=", ">="}, l \in IntAtoms, r \in IntAtoms \cup {Half, Two, Var("y")}}
  \cup {<< "bin", op, l, r >> : op \in {"and", "or"}, l \in BoolAtoms, r \in BoolAtoms}
  \cup {<< "un", "!", e >> : e \in BoolAtoms}
Strs == StrAtoms \cup Numerals \cup {G(e) : e \in StrAtoms \cup Numerals}
  \cup {<< "bin", "+", l, r >> : l \in StrAtoms \cup {G(Var("s"))}, r \in StrAtoms \cup IntAtoms \cup Numerals \cup {G(Var("s")), Var("y")}}
  \cup {<< "interp", << p, q, << "text", << "b" >> >>, r >> >> : p \in {<< "text", << "a" >> >>, << "text", << MARK >> >>}, q \in StrAtoms \cup IntAtoms, r \in {One, F(Zero)}}
  \cup {<< "assign", "+=", "s", e >> : e \in StrAtoms \cup {G(Var("s"))}}
Objects_ == UNION {{<< "list", << e, One >> >>, << "tuple", << One, e >> >>, << "dict", << << One, e >>, << e, One >> >> >>,
                   << "enum", 1, << e >> >>, << "enum", 2, << e, One >> >>, << "enum", 0, <<>> >>,
                   << "variant", 1, << e >> >>, << "variant", 2, << e, One >> >>, << "variant", 0, <<>> >>,
                   << "new", "P", << e >>, <<>> >>, << "new", "P", <<>>, << << "p", e >>, << "v", One >> >> >>,
                   << "new", "P", << F(Zero), e >>, <<>> >>, << "new", "P", << One >>, << << "q", e >> >> >>,
                   << "new", "Q", <<>>, << << "u", e >> >> >>} : e \in Ints}
  \cup {<< "lambda", "g", c >> : c \in {<<>>, << "x", "l" >>}}
  \cup {<< "call", "f", << Var("o") >>, "P" >>}
Stores == UNION {{<< "setfield", op, Var("o"), "v", e >>, << "setindex", op, Var("d"), One, e >>} : op \in {"=", "+=", "-="}, e \in Ints}
  \cup UNION {{<< "method", Var("l"), "append", << e >> >>, << "method", Var("ch"), "send", << e >> >>, << "send", Var("ch"), e >>} : e \in Ints}
Cells == {Var("c")} \cup {<< "assign", op, "c", e >> : op \in {"=", "+=", "-="}, e \in IntAtoms \cup {Var("c")}}
Pairs(S, T) == (S \X T) \cup (T \X S)
Deep == {<< "bin", op, p[1], p[2] >> : op \in {"+", "-", "<"}, p \in Pairs(Ints, IntAtoms)}
  \cup {<< "bin", op, p[1], p[2] >> : op \in {"and", "or"}, p \in Pairs(Bools, BoolAtoms)}
  \cup {<< "bin", "+", p[1], p[2] >> : p \in Pairs(Strs, StrAtoms \cup {One})}
  \cup {<< "index", e, Zero >> : e \in Strs}
  \cup {<< "index", << n, << l, r >> >>, One >> : n \in {"list", "tuple"}, l \in Ints, r \in IntAtoms}
  \cup {<< "index", << "group", << "dict", << << One, e >> >> >> >>, One >> : e \in IntAtoms}
ExpressionsDef == Ints \cup Bools \cup Strs \cup Objects_ \cup Stores \cup Cells \cup Deep
==============================================================================
