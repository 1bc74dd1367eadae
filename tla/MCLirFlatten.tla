---------------------------- MODULE MCLirFlatten ----------------------------
(***************************************************************************)
(* LirFlatten for TLC: the programs that the runs consider.  Short ones may *)
(* use every kind of statement, longer ones those of one profile, a group   *)
(* of statements that interact.                                             *)
(***************************************************************************)
EXTENDS LirFlatten

CONSTANTS
    Kinds,     \* the statements of the short programs
    MaxSrc,    \* bound: tokens of a short program after which no statement is added
    Profiles   \* the profiles of the longer ones

AllKinds == {"stmt", "break", "continue", "return", "if", "while", "for", "iter", "index",
             "chan", "match", "question", "propagate", "fallible"}

\* max: as MaxSrc
Profile(kinds, conds, max) == [kinds |-> kinds, conds |-> conds, max |-> max]

NoProfiles == {}

MCProfiles ==
    {Profile({"stmt", "break", "continue", "return", "if", "while"}, {"plain"}, 5),
     Profile({"stmt", "if", "while", "for", "break"}, {"and", "or", "try"}, 3),
     Profile({"stmt", "for", "iter", "break", "continue"}, {"plain"}, 5),
     Profile({"stmt", "if", "index", "chan", "break", "return"}, {"plain"}, 4),
     Profile({"stmt", "match", "return"}, {"plain", "bare", "test", "never"}, 6),
     Profile({"stmt", "if", "while", "break", "question", "propagate", "fallible"},
             {"plain"}, 4),
     Profile({"stmt", "if", "return", "fallible"}, {"plain"}, 4)}

\* token p of s is a statement that has not ended
OpenIn(s, p) ==
    /\ s[p].k \in FrameKinds
    /\ \A q \in DOMAIN s : ~(s[q].k = "end" /\ s[q].m = p)

OpenOf(s, kinds) == {p \in DOMAIN s : s[p].k \in kinds /\ OpenIn(s, p)}

Fits(k, c, len, p) ==
    /\ len < p.max
    /\ k \in p.kinds \cup {"part"}
    /\ k \in {"if", "while", "for", "match", "part"} => c \in p.conds

\* tokens that belong to a statement met before
Inner == {"end", "else", "case", "body"}

Within(s, k, c, p) ==
    /\ Fits(k, c, Len(s), p)
    /\ \A i \in DOMAIN s : s[i].k \in Inner \/ Fits(s[i].k, s[i].c, i - 1, p)

Short(s, k, c) == Len(s) < MaxSrc /\ k \in Kinds \cup {"part"}

\* continue in a loop that gives it label 0 and a handler inside a handler are
\* the subject of runs of their own
Sound(s, k) ==
    /\ k = "continue" /\ OpenOf(s, LoopKinds) # {} =>
          s[Max(OpenOf(s, LoopKinds))].k \notin {"index", "chan"}
    /\ k = "fallible" => OpenOf(s, {"fallible"}) = {}

Considered(s, k, c) ==
    /\ Sound(s, k)
    /\ Short(s, k, c) \/ \E p \in Profiles : Within(s, k, c, p)
=============================================================================
