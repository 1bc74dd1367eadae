--------------------------- MODULE MCTypeChecker ---------------------------
(***************************************************************************)
(* TypeChecker and MemoryChecker for TLC: the programs that the runs        *)
(* consider.  Each belongs to a profile, a group of statements and values   *)
(* that interact.                                                           *)
(***************************************************************************)
EXTENDS MemoryChecker, TLC

\* vals and lits are values; those in lits only the first statement may have.
\* max: tokens of a program after which no statement is added
Profile(kinds, anns, vals, lits, max) ==
    [kinds |-> kinds, anns |-> anns, vals |-> vals, lits |-> lits, max |-> max]

Everything == Literals \cup Names \cup {Null}

Moving == Profile({"var", "expr", "block"}, {Null}, Vars, {"List"}, 5)

Profiles ==
    {Profile(TokenKinds, {Null, "List", "Int", "Any"}, Everything, {}, 2),
     Moving,
     Profile({"var", "print", "if", "for"}, {Null}, Vars \cup {"List"}, {}, 3),
     Profile({"assign", "expr", "block"}, {Null}, Vars, Literals, 5),
     Profile({"assign", "expr", "fn"}, {Null, "Any"}, Names, {}, 3),
     Profile({"var", "assign", "expr"}, {Null, "Int"}, Vars \cup Literals, {}, 3),
     Profile(Openers \cup {"expr"}, {Null, "List", "Any"}, {Null, "List"} \cup Vars, {}, 3),
     Profile({"fn", "block", "return"}, {Null, "List"}, {"Int", "List", Null} \cup Vars, {}, 4)}

Fits(t, len, p) ==
    /\ len < p.max
    /\ t.k \in p.kinds
    /\ t.a \in p.anns
    /\ \/ t.v \in p.vals
       \/ len = 0 /\ t.v \in p.lits
       \/ t.k \in Openers /\ t.v = Null

Within(s, t, p) ==
    /\ Fits(t, Len(s), p)
    /\ \A i \in DOMAIN s : s[i].k = "end" \/ Fits(s[i], i - 1, p)

Considered(s, t) == ~ \A p \in Profiles : ~Within(s, t, p)

OnlyMoves(s, t) == Within(s, t, Moving)

Symmetry == Permutations(Vars)
=============================================================================
