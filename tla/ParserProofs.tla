---------------------------- MODULE ParserProofs ----------------------------
(***************************************************************************)
(* Proofs about Parser, which runs the methods of Grammar: every method    *)
(* leaves the context stacks as it found them, on every token stream and   *)
(* whatever the errors on the way (ContextsBalanced).                      *)
(*                                                                         *)
(* The methods are data, so the argument has two halves.  A judgement on   *)
(* programs, Ok(p, a, c), is a Hoare triple: p, begun at the mark a, ends  *)
(* at the mark c.  Its rules give one lemma for each of the 51 methods.    *)
(* The other half shows that one step of the parser takes a program that   *)
(* is Ok from where the contexts stand to another one.                     *)
(***************************************************************************)
EXTENDS Parser, NaturalLemmas, SequenceTheorems

\* A program: a sequence of operations, of no particular set.
IsSeq(p) == \E S : p \in Seq(S)

\* What is known at a place of a program: how many blocks are open, how many CST nodes are at
\* least still to be popped, and what the place may assume: that in_concurrent_block may be set,
\* that a loop to break out of is ahead, that the place a return goes to is ahead.
Marks == [block : Nat, cst : Nat, holds : SUBSET {"concurrent", "loop", "end"}]

\* b opens no more than a and allows what a allows: a jump may go from a to b.
Same(a, b) ==
  /\ b.block = a.block /\ b.cst <= a.cst
  /\ "concurrent" \in a.holds => "concurrent" \in b.holds

\* A program may go on at b as if it were at a.
Follows(a, b) == b.block = a.block /\ b.cst <= a.cst /\ a.holds \subseteq b.holds

IsLoop(o) == o.op \in {"while", "until"} /\ {"op", "body"} \subseteq DOMAIN o

\* What leaves the contexts alone and jumps nowhere.
Leaf(o) ==
  \/ o.op \in {"consume", "advance", "error", "assign", "assigned", "emit", "fresh", "case"}
  \/ o.op \in {"call", "binary"} /\ o.m \in DOMAIN Procedures

\* P has a triple for p from a, after which the program goes on at b.
Goes(p, a, b, P) == \E d \in Marks : << p, a, d >> \in P /\ Follows(d, b)

\* o, done at a, goes on at b; what it branches to is in P.  What a place claims is still claimed
\* after each operation but the one the claim is about.
OpOk(o, a, b, P) ==
  /\ "loop" \in a.holds /\ ~IsLoop(o) => Same(a, b) /\ "loop" \in b.holds
  /\ "end" \in a.holds /\ o.op # "end" => Same(a, b) /\ "end" \in b.holds
  /\ Leaf(o) => Follows(a, b)
  /\ o.op \in {"call", "binary"} => Leaf(o)
  /\ o.op \in {"break", "continue"} => "loop" \in a.holds
  /\ o.op = "return" => "end" \in a.holds
  /\ o.op = "end" => Same(a, b)
  /\ o.op \in {"check", "match", "ahead", "if_concurrent"} => Goes(o.then, a, b, P)
  /\ o.op \in {"check", "match", "ahead", "if_concurrent", "switch"} => Goes(o.else, a, b, P)
  /\ o.op = "switch" => Len(o.chain) \in Nat /\ \A i \in 1..Len(o.chain) : Goes(o.chain[i][2], a, b, P)
  /\ o.op \in {"while", "until"} => IsLoop(o)
  /\ IsLoop(o) => Same(a, b) /\ \E d \in Marks : Same(a, d) /\ Goes(o.body, d, a, P)
  /\ o.op = "push_block" => b.block = a.block + 1 /\ b.cst <= a.cst
  /\ o.op = "pop_block" => a.block >= 1 /\ b.block = a.block - 1 /\ b.cst <= a.cst
  /\ o.op = "node" => b.block = a.block /\ b.cst <= IF isContainerNode(o.kind) THEN a.cst + 1 ELSE a.cst
  /\ o.op = "push_cst" => b.block = a.block /\ b.cst <= a.cst + 1
  /\ o.op = "pop_cst" => b.block = a.block /\ a.cst >= 1 /\ b.cst <= a.cst - 1
  /\ o.op = "concurrent" => b.block = a.block /\ b.cst <= a.cst /\ (o.to => "concurrent" \in b.holds)
  /\ o.op \in {"push_block", "pop_block", "node", "push_cst", "pop_cst"}
       => ("concurrent" \in a.holds => "concurrent" \in b.holds)

\* Marks for the places of p, the branches in P.
Run(p, a, c, P) ==
  /\ IsSeq(p)
  /\ \E M \in [1..(Len(p) + 1) -> Marks] :
        /\ Follows(a, M[1])
        /\ \A i \in 1..Len(p) : OpOk(p[i], M[i], M[i + 1], P)
        /\ Follows(M[Len(p) + 1], c)

\* Every triple of P rests on P alone: a coinductive set of judgements.
Closed(P) == \A t \in P : t[2] \in Marks /\ t[3] \in Marks /\ Run(t[1], t[2], t[3], P)

\* p, begun at a, ends at c.
Ok(p, a, c) == a \in Marks /\ c \in Marks /\ \E P : Closed(P) /\ Run(p, a, c, P)

------------------------------------------------------------------------------
\* Both relations between marks are reflexive and transitive, and Follows is the stronger.
LEMMA FollowsTransitive ==
    ASSUME NEW a \in Marks, NEW b \in Marks, NEW c \in Marks, Follows(a, b), Follows(b, c)
    PROVE  Follows(a, c)
  BY DEF Follows, Marks

\* A jump, and then going on.
LEMMA SameFollows ==
    ASSUME NEW a \in Marks, NEW b \in Marks, NEW c \in Marks, Same(a, b), Follows(b, c)
    PROVE  Same(a, c)
  BY DEF Follows, Same, Marks

\* Where a program may go on a jump may go.
LEMMA FollowsSame ==
    ASSUME NEW a \in Marks, NEW b \in Marks, Follows(a, b)
    PROVE  Same(a, b)
  BY DEF Follows, Same, Marks

\* A jump from where a jump went.
LEMMA SameTransitive ==
    ASSUME NEW a \in Marks, NEW b \in Marks, NEW c \in Marks, Same(a, b), Same(b, c)
    PROVE  Same(a, c)
  BY DEF Same, Marks

\* Every mark follows itself.
LEMMA FollowsItself == \A a \in Marks : Follows(a, a) /\ Same(a, a)
  BY DEF Follows, Same, Marks

\* Head and tail of a program.
LEMMA IsSeqFacts ==
    ASSUME NEW p, IsSeq(p)
    PROVE  /\ Len(p) \in Nat /\ DOMAIN p = 1..Len(p)
           /\ p # <<>> => IsSeq(Tail(p)) /\ Len(p) >= 1 /\ p[1] = Head(p) /\ Len(Tail(p)) = Len(p) - 1
                          /\ \A i \in 1..(Len(p) - 1) : Tail(p)[i] = p[i + 1]
           /\ Len(p) = 0 => p = <<>>
<1>1. PICK S : p \in Seq(S)
  BY DEF IsSeq
<1> QED
  BY <1>1 DEF IsSeq

\* The empty program and the ones of one operation.
LEMMA IsSeqTuples ==
    /\ IsSeq(<<>>) /\ Len(<<>>) = 0
    /\ \A x : IsSeq(<< x >>) /\ Len(<< x >>) = 1 /\ << x >>[1] = x
<1>1. IsSeq(<<>>)
  BY DEF IsSeq
<1>2. ASSUME NEW x PROVE << x >> \in Seq({x}) /\ Len(<< x >>) = 1 /\ << x >>[1] = x
  OBVIOUS
<1> QED
  BY <1>1, <1>2 DEF IsSeq

\* One program after another.
LEMMA IsSeqConcat ==
    ASSUME NEW p, NEW q, IsSeq(p), IsSeq(q)
    PROVE  /\ IsSeq(p \o q) /\ Len(p \o q) = Len(p) + Len(q)
           /\ \A i \in 1..(Len(p) + Len(q)) : (p \o q)[i] = IF i <= Len(p) THEN p[i] ELSE q[i - Len(p)]
           /\ Len(p) \in Nat /\ Len(q) \in Nat
<1>1. PICK S : p \in Seq(S)
  BY DEF IsSeq
<1>2. PICK T : q \in Seq(T)
  BY DEF IsSeq
<1> DEFINE U == S \cup T
<1>3. p \in Seq(U) /\ q \in Seq(U)
  BY <1>1, <1>2, SeqMonotonic
<1> HIDE DEF U
<1>4. p \o q \in Seq(U)
  BY <1>3
<1> QED
  BY <1>3, <1>4 DEF IsSeq

\* More triples do no harm.
LEMMA OpMonotonic ==
    ASSUME NEW o, NEW a \in Marks, NEW b \in Marks, NEW P, NEW Q, P \subseteq Q, OpOk(o, a, b, P)
    PROVE  OpOk(o, a, b, Q)
<1>1. \A p, d, e : Goes(p, d, e, P) => Goes(p, d, e, Q)
  BY DEF Goes
<1> QED
  BY <1>1 DEF OpOk

\* More triples do a program no harm.
LEMMA RunMonotonic ==
    ASSUME NEW p, NEW a, NEW c, NEW P, NEW Q, P \subseteq Q, Run(p, a, c, P)
    PROVE  Run(p, a, c, Q)
<1>1. PICK M \in [1..(Len(p) + 1) -> Marks] :
        /\ Follows(a, M[1])
        /\ \A i \in 1..Len(p) : OpOk(p[i], M[i], M[i + 1], P)
        /\ Follows(M[Len(p) + 1], c)
  BY DEF Run
<1>2. Len(p) \in Nat
  BY IsSeqFacts DEF Run
<1>3. \A i \in 1..Len(p) : M[i] \in Marks /\ M[i + 1] \in Marks
  BY <1>2
<1>4. \A i \in 1..Len(p) : OpOk(p[i], M[i], M[i + 1], Q)
  BY <1>1, <1>3, OpMonotonic
<1> QED
  BY <1>1, <1>4 DEF Run

\* Two sets of judgements that rest on themselves are one.
LEMMA ClosedUnion ==
    ASSUME NEW P, NEW Q, Closed(P), Closed(Q)
    PROVE  Closed(P \cup Q)
<1>1. \A p, a, c : Run(p, a, c, P) \/ Run(p, a, c, Q) => Run(p, a, c, P \cup Q)
  <2>1. P \subseteq P \cup Q /\ Q \subseteq P \cup Q
    OBVIOUS
  <2> QED
    BY <2>1, RunMonotonic
<1> QED
  BY <1>1 DEF Closed

\* A judgement that rests on the others joins them.
LEMMA ClosedAdd ==
    ASSUME NEW P, NEW p, NEW a \in Marks, NEW c \in Marks, Closed(P), Run(p, a, c, P)
    PROVE  Closed(P \cup {<< p, a, c >>})
<1> DEFINE Q == P \cup {<< p, a, c >>}
<1>1. \A q, d, e : Run(q, d, e, P) => Run(q, d, e, Q)
  <2>1. P \subseteq Q
    OBVIOUS
  <2> QED
    BY <2>1, RunMonotonic
<1>2. ASSUME NEW t \in Q PROVE t[2] \in Marks /\ t[3] \in Marks /\ Run(t[1], t[2], t[3], Q)
  <2>1. CASE t \in P
    BY <1>1, <2>1 DEF Closed
  <2>2. CASE t = << p, a, c >>
    BY <1>1, <2>2
  <2> QED
    BY <2>1, <2>2
<1> QED
  BY <1>2 DEF Closed

------------------------------------------------------------------------------
\* A program of one operation.
LEMMA OkOne ==
    ASSUME NEW o, NEW a \in Marks, NEW b \in Marks, NEW P, Closed(P), OpOk(o, a, b, P)
    PROVE  Ok(<< o >>, a, b)
<1> DEFINE M == [i \in 1..2 |-> IF i = 1 THEN a ELSE b]
<1>1. IsSeq(<< o >>) /\ Len(<< o >>) = 1 /\ << o >>[1] = o
  BY IsSeqTuples
<1>2. M \in [1..2 -> Marks] /\ M[1] = a /\ M[2] = b
  OBVIOUS
<1> HIDE DEF M
<1>3. Run(<< o >>, a, b, P)
  BY <1>1, <1>2, FollowsItself DEF Run
<1> QED
  BY <1>3 DEF Ok

\* The empty set of judgements.
LEMMA ClosedNothing == Closed({})
  BY DEF Closed

\* The empty program goes on where it is.
LEMMA OkEmpty ==
    ASSUME NEW a \in Marks, NEW b \in Marks, Follows(a, b)
    PROVE  Ok(<<>>, a, b)
<1> DEFINE M == [i \in 1..1 |-> a]
<1>1. IsSeq(<<>>) /\ Len(<<>>) = 0
  BY IsSeqTuples
<1>2. M \in [1..1 -> Marks] /\ M[1] = a
  OBVIOUS
<1> HIDE DEF M
<1>3. Run(<<>>, a, b, {})
  BY <1>1, <1>2, FollowsItself DEF Run
<1> QED
  BY <1>3, ClosedNothing DEF Ok

\* After an operation the program may go on at whatever follows.
LEMMA OpFollows ==
    ASSUME NEW o, NEW a \in Marks, NEW b \in Marks, NEW c \in Marks, NEW P,
           OpOk(o, a, b, P), Follows(b, c)
    PROVE  OpOk(o, a, c, P)
<1>1. \A p, d : Goes(p, d, b, P) => Goes(p, d, c, P)
  BY FollowsTransitive DEF Goes
<1>2. Same(a, b) => Same(a, c)
  BY SameFollows
<1>3. Follows(a, b) => Follows(a, c)
  BY FollowsTransitive
<1>4. /\ c.block = b.block /\ c.cst <= b.cst /\ b.holds \subseteq c.holds
      /\ a.cst \in Nat /\ b.cst \in Nat /\ c.cst \in Nat
  BY DEF Follows, Marks
<1> QED
  BY <1>1, <1>2, <1>3, <1>4 DEF OpOk

\* Composition: the marks of p and then those of q; the claims of p meet those of q in between.
LEMMA OkConcat ==
    ASSUME NEW p, NEW q, NEW a, NEW b, NEW c, Ok(p, a, b), Ok(q, b, c)
    PROVE  Ok(p \o q, a, c)
<1>0. a \in Marks /\ b \in Marks /\ c \in Marks /\ IsSeq(p) /\ IsSeq(q)
  BY DEF Ok, Run
<1>1. PICK P : Closed(P) /\ Run(p, a, b, P)
  BY DEF Ok
<1>2. PICK Q : Closed(Q) /\ Run(q, b, c, Q)
  BY DEF Ok
<1> DEFINE R == P \cup Q
<1>3. Closed(R) /\ Run(p, a, b, R) /\ Run(q, b, c, R)
  <2>1. P \subseteq R /\ Q \subseteq R
    OBVIOUS
  <2> QED
    BY <1>1, <1>2, <2>1, ClosedUnion, RunMonotonic
<1> HIDE DEF R
<1> DEFINE m == Len(p)
           n == Len(q)
<1>4. /\ m \in Nat /\ n \in Nat /\ IsSeq(p \o q) /\ Len(p \o q) = m + n
      /\ \A i \in 1..(m + n) : (p \o q)[i] = IF i <= m THEN p[i] ELSE q[i - m]
  BY <1>0, IsSeqConcat
<1>5. PICK M \in [1..(m + 1) -> Marks] :
        /\ Follows(a, M[1])
        /\ \A i \in 1..m : OpOk(p[i], M[i], M[i + 1], R)
        /\ Follows(M[m + 1], b)
  BY <1>3 DEF Run
<1>6. PICK N \in [1..(n + 1) -> Marks] :
        /\ Follows(b, N[1])
        /\ \A i \in 1..n : OpOk(q[i], N[i], N[i + 1], R)
        /\ Follows(N[n + 1], c)
  BY <1>3 DEF Run
<1> HIDE DEF m, n
<1> DEFINE L == [i \in 1..(m + n + 1) |-> IF i <= m THEN M[i] ELSE N[i - m]]
<1>7. /\ L \in [1..(m + n + 1) -> Marks]
      /\ \A i \in 1..m : L[i] = M[i]
      /\ \A i \in 1..(n + 1) : L[m + i] = N[i]
  BY <1>4
<1> HIDE DEF L
<1>8. Follows(M[m + 1], N[1])
  <2>1. M[m + 1] \in Marks /\ N[1] \in Marks
    BY <1>4
  <2> QED
    BY <1>0, <1>5, <1>6, <2>1, FollowsTransitive
<1>9. Follows(a, L[1])
  <2>1. CASE m = 0
    <3>1. L[1] = N[1] /\ M[1] \in Marks /\ N[1] \in Marks
      BY <1>4, <1>7, <2>1
    <3>2. Follows(M[1], N[1])
      BY <1>8, <2>1
    <3> QED
      BY <1>0, <1>5, <3>1, <3>2, FollowsTransitive
  <2>2. CASE m # 0
    BY <1>4, <1>5, <1>7, <2>2
  <2> QED
    BY <2>1, <2>2
<1>10. ASSUME NEW i \in 1..(m + n)
       PROVE  OpOk((p \o q)[i], L[i], L[i + 1], R)
  <2>1. CASE i < m
    <3>1. i \in 1..m /\ i + 1 \in 1..m
      BY <1>4, <2>1
    <3> QED
      BY <1>4, <1>5, <1>7, <3>1
  <2>2. CASE i = m
    <3>1. i \in 1..m /\ L[i] = M[i] /\ L[i + 1] = N[1] /\ (p \o q)[i] = p[i]
      BY <1>4, <1>7, <2>2
    <3>2. OpOk(p[i], M[i], M[i + 1], R) /\ M[i] \in Marks /\ M[i + 1] \in Marks /\ N[1] \in Marks
      BY <1>4, <1>5, <3>1
    <3>3. Follows(M[i + 1], N[1])
      BY <1>8, <2>2
    <3> QED
      BY <3>1, <3>2, <3>3, OpFollows
  <2>3. CASE i > m
    <3>1. /\ i - m \in 1..n /\ i - m \in 1..(n + 1) /\ i - m + 1 \in 1..(n + 1)
          /\ m + (i - m) = i /\ m + (i - m + 1) = i + 1
      BY <1>4, <2>3
    <3>2. L[i] = N[i - m] /\ L[i + 1] = N[i - m + 1]
      BY <1>7, <3>1
    <3>3. OpOk(q[i - m], N[i - m], N[i - m + 1], R)
      BY <1>6, <3>1
    <3>4. (p \o q)[i] = q[i - m]
      BY <1>4, <2>3
    <3> QED
      BY <3>2, <3>3, <3>4
  <2> QED
    BY <1>4, <2>1, <2>2, <2>3
<1>11. Follows(L[m + n + 1], c)
  <2>1. n + 1 \in 1..(n + 1) /\ m + (n + 1) = m + n + 1
    BY <1>4
  <2> QED
    BY <1>6, <1>7, <2>1
<1>12. Run(p \o q, a, c, R)
  BY <1>4, <1>7, <1>9, <1>10, <1>11 DEF Run
<1> QED
  BY <1>0, <1>3, <1>12 DEF Ok

\* Consequence: a judgement may begin and end with what follows.
LEMMA OkFollows ==
    ASSUME NEW p, NEW a, NEW b, NEW c, NEW d, a \in Marks, d \in Marks,
           Follows(a, b), Ok(p, b, c), Follows(c, d)
    PROVE  Ok(p, a, d)
<1>0. b \in Marks /\ c \in Marks /\ IsSeq(p)
  BY DEF Ok, Run
<1>1. PICK P : Closed(P) /\ Run(p, b, c, P)
  BY DEF Ok
<1>2. PICK M \in [1..(Len(p) + 1) -> Marks] :
        /\ Follows(b, M[1])
        /\ \A i \in 1..Len(p) : OpOk(p[i], M[i], M[i + 1], P)
        /\ Follows(M[Len(p) + 1], c)
  BY <1>1 DEF Run
<1>3. M[1] \in Marks /\ M[Len(p) + 1] \in Marks
  BY <1>0, IsSeqFacts
<1>4. Follows(a, M[1]) /\ Follows(M[Len(p) + 1], d)
  BY <1>0, <1>2, <1>3, FollowsTransitive
<1>5. Run(p, a, d, P)
  BY <1>0, <1>2, <1>4 DEF Run
<1> QED
  BY <1>1, <1>5 DEF Ok

\* What a branch goes to is a judgement.
LEMMA OkGoes ==
    ASSUME NEW P, Closed(P), NEW p, NEW a, NEW b \in Marks, Goes(p, a, b, P)
    PROVE  Ok(p, a, b)
<1>1. PICK d \in Marks : << p, a, d >> \in P /\ Follows(d, b)
  BY DEF Goes
<1>2. a \in Marks /\ Run(p, a, d, P)
  BY <1>1 DEF Closed
<1>3. Ok(p, a, d)
  BY <1>2 DEF Ok
<1> QED
  BY <1>1, <1>2, <1>3, OkFollows, FollowsItself

\* Several judgements rest on one set of triples.
LEMMA GoesOk ==
    ASSUME NEW P, Closed(P), NEW p, NEW a, NEW b, Ok(p, a, b)
    PROVE  \E Q : P \subseteq Q /\ Closed(Q) /\ Goes(p, a, b, Q)
<1>0. a \in Marks /\ b \in Marks
  BY DEF Ok
<1>1. PICK R : Closed(R) /\ Run(p, a, b, R)
  BY DEF Ok
<1> DEFINE S == P \cup R
           Q == S \cup {<< p, a, b >>}
<1>2. Closed(S)
  BY <1>1, ClosedUnion
<1>3. Run(p, a, b, S)
  BY <1>1, RunMonotonic
<1> HIDE DEF S
<1>4. Closed(Q)
  BY <1>0, <1>2, <1>3, ClosedAdd
<1>5. << p, a, b >> \in Q /\ P \subseteq Q
  BY DEF S
<1> HIDE DEF Q
<1>6. Goes(p, a, b, Q)
  BY <1>0, <1>5, FollowsItself DEF Goes
<1> QED
  BY <1>4, <1>5, <1>6

\* More triples do a branch no harm.
LEMMA GoesMonotonic ==
    ASSUME NEW P, NEW Q, P \subseteq Q, NEW p, NEW a, NEW b, Goes(p, a, b, P)
    PROVE  Goes(p, a, b, Q)
  BY DEF Goes

------------------------------------------------------------------------------
\* p keeps every mark of A.
Keeps(p, A) == IsSeq(p) /\ \A a \in A : Ok(p, a, a)

\* Marks that claim all of C; those a method is called with; those in a loop's body, in a method
\* with returns, and in a loop of such a method.
Claims(C) == {a \in Marks : C \subseteq a.holds}
Plain     == {a \in Marks : a.holds \subseteq {"concurrent"}}
InLoop    == Claims({"loop"})
InMethod  == Claims({"end"})
LoopOfMethod == Claims({"loop", "end"})

\* One operation that keeps A.
LEMMA KeepsOne ==
    ASSUME NEW o, NEW A \in SUBSET Marks,
           \A a \in A : \E P : Closed(P) /\ OpOk(o, a, a, P)
    PROVE  Keeps(<< o >>, A)
<1>1. \A a \in A : Ok(<< o >>, a, a)
  BY OkOne
<1> QED
  BY <1>1, IsSeqTuples DEF Keeps

\* A leaf keeps everything.
LEMMA KeepsLeaf ==
    ASSUME NEW o, NEW A \in SUBSET Marks, Leaf(o)
    PROVE  Keeps(<< o >>, A)
<1>1. ASSUME NEW a \in A PROVE OpOk(o, a, a, {})
  <2>1. Follows(a, a) /\ Same(a, a)
    BY FollowsItself
  <2> QED
    BY <2>1 DEF OpOk, Leaf, IsLoop
<1> QED
  BY <1>1, ClosedNothing, KeepsOne

\* So does the empty program.
LEMMA KeepsEmpty ==
    ASSUME NEW A \in SUBSET Marks
    PROVE  Keeps(<<>>, A)
  BY OkEmpty, FollowsItself, IsSeqTuples DEF Keeps

\* One after another.
LEMMA KeepsConcat ==
    ASSUME NEW A, NEW p, NEW q, Keeps(p, A), Keeps(q, A)
    PROVE  Keeps(p \o q, A)
  BY OkConcat, IsSeqConcat DEF Keeps

\* if (...) p else q.
KeepsBoth(p, q, A) == Keeps(p, A) /\ Keeps(q, A)

\* Both branches keep A.
LEMMA KeepsBranches ==
    ASSUME NEW o, NEW A \in SUBSET Marks,
           o.op \in {"check", "match", "ahead", "if_concurrent"}, KeepsBoth(o.then, o.else, A)
    PROVE  Keeps(<< o >>, A)
<1>1. ASSUME NEW a \in A PROVE \E P : Closed(P) /\ OpOk(o, a, a, P)
  <2>1. Follows(a, a) /\ Same(a, a) /\ Ok(o.then, a, a) /\ Ok(o.else, a, a)
    BY FollowsItself DEF Keeps, KeepsBoth
  <2>2. PICK P : Closed(P) /\ Goes(o.then, a, a, P)
    BY <2>1, ClosedNothing, GoesOk
  <2>3. PICK Q : P \subseteq Q /\ Closed(Q) /\ Goes(o.else, a, a, Q)
    BY <2>1, <2>2, GoesOk
  <2>4. Goes(o.then, a, a, Q)
    BY <2>2, <2>3, GoesMonotonic
  <2>5. OpOk(o, a, a, Q)
    BY <2>1, <2>3, <2>4 DEF OpOk, Leaf, IsLoop
  <2> QED
    BY <2>3, <2>5
<1> QED
  BY <1>1, KeepsOne

\* Every case of a chain, and its else.
KeepsCases(chain, q, A) == Keeps(q, A) /\ Len(chain) \in Nat /\ \A i \in 1..Len(chain) : Keeps(chain[i][2], A)

\* All the cases keep A: the judgements of the cases are put together.
LEMMA KeepsSwitch ==
    ASSUME NEW o, NEW A \in SUBSET Marks, o.op = "switch", KeepsCases(o.chain, o.else, A)
    PROVE  Keeps(<< o >>, A)
<1>1. ASSUME NEW a \in A PROVE \E P : Closed(P) /\ OpOk(o, a, a, P)
  <2>1. /\ Follows(a, a) /\ Same(a, a) /\ Ok(o.else, a, a)
        /\ \A i \in 1..Len(o.chain) : Ok(o.chain[i][2], a, a)
    BY FollowsItself DEF Keeps, KeepsCases
  <2> DEFINE Rests(i, P) == Closed(P) /\ Goes(o.chain[i][2], a, a, P)
             R(i) == CHOOSE P : Rests(i, P)
             C == UNION {R(i) : i \in 1..Len(o.chain)}
  <2>2. ASSUME NEW i \in 1..Len(o.chain) PROVE Closed(R(i)) /\ Goes(o.chain[i][2], a, a, R(i))
    <3>1. \E P : Rests(i, P)
      BY <2>1, ClosedNothing, GoesOk
    <3> QED
      BY <3>1
  <2> HIDE DEF R
  <2>3. \A i \in 1..Len(o.chain) : R(i) \subseteq C
    OBVIOUS
  <2>4. Closed(C)
    <3> SUFFICES ASSUME NEW t \in C
                 PROVE  t[2] \in Marks /\ t[3] \in Marks /\ Run(t[1], t[2], t[3], C)
      BY DEF Closed
    <3>1. PICK i \in 1..Len(o.chain) : t \in R(i)
      OBVIOUS
    <3>2. t[2] \in Marks /\ t[3] \in Marks /\ Run(t[1], t[2], t[3], R(i))
      BY <2>2, <3>1 DEF Closed
    <3> QED
      BY <2>3, <3>2, RunMonotonic
  <2> HIDE DEF C
  <2>5. PICK Q : C \subseteq Q /\ Closed(Q) /\ Goes(o.else, a, a, Q)
    BY <2>1, <2>4, GoesOk
  <2>6. \A i \in 1..Len(o.chain) : Goes(o.chain[i][2], a, a, Q)
    BY <2>2, <2>3, <2>5, GoesMonotonic
  <2>7. OpOk(o, a, a, Q)
    BY <2>1, <2>5, <2>6 DEF OpOk, Leaf, IsLoop
  <2> QED
    BY <2>5, <2>7
<1> QED
  BY <1>1, KeepsOne

\* The mark of a loop's body, where a break is possible.
Looping(a) == [a EXCEPT !.holds = @ \cup {"loop"}]

\* A mark and the one of a loop's body there.
LEMMA LoopingFacts ==
    ASSUME NEW a \in Marks
    PROVE  /\ Looping(a) \in InLoop /\ Looping(a) \in Marks /\ Follows(a, Looping(a)) /\ Same(a, Looping(a))
           /\ Same(Looping(a), a) /\ Same(Looping(a), Looping(a))
           /\ a \in InMethod => Looping(a) \in LoopOfMethod
           /\ "end" \in Looping(a).holds <=> "end" \in a.holds
           /\ a \in LoopOfMethod => a \in InMethod
  BY DEF Looping, InLoop, InMethod, LoopOfMethod, Claims, Marks, Follows, Same

\* A loop whose body goes round.
LEMMA OkLoop ==
    ASSUME NEW o, NEW a \in Marks, IsLoop(o), Ok(o.body, Looping(a), Looping(a))
    PROVE  Ok(<< o >>, Looping(a), a) /\ Ok(<< o >>, a, a)
<1>1. PICK P : Closed(P) /\ Goes(o.body, Looping(a), Looping(a), P)
  BY ClosedNothing, GoesOk
<1>2. OpOk(o, Looping(a), a, P)
  BY <1>1, LoopingFacts DEF OpOk, IsLoop, Leaf
<1>3. Ok(<< o >>, Looping(a), a)
  BY <1>1, <1>2, LoopingFacts, OkOne
<1> QED
  BY <1>3, LoopingFacts, FollowsItself, OkFollows

\* A loop whose body may break, and one that keeps A with no break in it.
LEMMA KeepsLoop ==
    ASSUME NEW o, NEW A \in SUBSET Marks, IsLoop(o), Keeps(o.body, InLoop)
    PROVE  Keeps(<< o >>, A)
<1>1. ASSUME NEW a \in A PROVE Ok(<< o >>, a, a)
  <2>1. Ok(o.body, Looping(a), Looping(a))
    BY LoopingFacts DEF Keeps
  <2> QED
    BY <2>1, OkLoop
<1> QED
  BY <1>1, IsSeqTuples DEF Keeps

\* A loop with breaks and returns, in a method with returns.
LEMMA KeepsLoopOfMethod ==
    ASSUME NEW o, IsLoop(o), Keeps(o.body, LoopOfMethod)
    PROVE  Keeps(<< o >>, InMethod)
<1>1. ASSUME NEW a \in InMethod PROVE Ok(<< o >>, a, a)
  <2>0. a \in Marks
    BY DEF InMethod, Claims
  <2>1. Ok(o.body, Looping(a), Looping(a))
    BY <2>0, LoopingFacts DEF Keeps
  <2> QED
    BY <2>0, <2>1, OkLoop
<1> QED
  BY <1>1, IsSeqTuples DEF Keeps

\* A loop with no break of its own.
LEMMA KeepsRounds ==
    ASSUME NEW o, NEW A \in SUBSET Marks, IsLoop(o), Keeps(o.body, A)
    PROVE  Keeps(<< o >>, A)
<1>1. ASSUME NEW a \in A PROVE \E P : Closed(P) /\ OpOk(o, a, a, P)
  <2>1. Ok(o.body, a, a) /\ Same(a, a)
    BY FollowsItself DEF Keeps
  <2>2. PICK P : Closed(P) /\ Goes(o.body, a, a, P)
    BY <2>1, ClosedNothing, GoesOk
  <2>3. OpOk(o, a, a, P)
    BY <2>1, <2>2 DEF OpOk, IsLoop, Leaf
  <2> QED
    BY <2>2, <2>3
<1> QED
  BY <1>1, KeepsOne

\* do p while (match(K)): the first p is in front of the loop, and may break to its end.
LEMMA KeepsSepBy ==
    ASSUME NEW K, NEW p, NEW A \in SUBSET Marks, Keeps(p, InLoop)
    PROVE  Keeps(SepBy(K, p), A)
<1> DEFINE o == WhileMatch(K, p)
<1>1. IsLoop(o) /\ o.body = p
  BY DEF WhileMatch, IsLoop
<1>2. SepBy(K, p) = p \o << o >>
  BY DEF SepBy
<1> HIDE DEF o
<1>3. ASSUME NEW a \in A PROVE Ok(p \o << o >>, a, a)
  <2>1. Ok(p, Looping(a), Looping(a))
    BY LoopingFacts DEF Keeps
  <2>2. Ok(<< o >>, Looping(a), a)
    BY <1>1, <2>1, OkLoop
  <2>3. Ok(p, a, Looping(a))
    BY <2>1, LoopingFacts, FollowsItself, OkFollows
  <2> QED
    BY <2>2, <2>3, OkConcat
<1>4. IsSeq(p \o << o >>)
  BY IsSeqTuples, IsSeqConcat DEF Keeps
<1> QED
  BY <1>2, <1>3, <1>4 DEF Keeps

\* What keeps more marks keeps fewer.
LEMMA KeepsFewer ==
    ASSUME NEW p, NEW A, NEW B, A \subseteq B, Keeps(p, B)
    PROVE  Keeps(p, A)
  BY DEF Keeps

\* How the sets of marks lie.
LEMMA Marked == Plain \subseteq Marks /\ InLoop \subseteq Marks /\ InMethod \subseteq Marks
                /\ LoopOfMethod \subseteq Marks /\ LoopOfMethod \subseteq InLoop /\ LoopOfMethod \subseteq InMethod
  BY DEF Plain, InLoop, InMethod, LoopOfMethod, Claims

\* The rules by the shape of the program: operations without parts, tuples, branches, loops, calls.
Simple(A) ==
  /\ Keeps(<<>>, A)
  /\ \A K : Keeps(<< Consume(K) >>, A)
  /\ Keeps(<< Advance >>, A)
  /\ Keeps(<< Error >>, A)
  /\ \A n : Keeps(<< Emit(n) >>, A)
  /\ Keeps(<< Fresh >>, A) /\ Keeps(<< CaseKept >>, A) /\ Keeps(<< Assign >>, A)
  /\ \A k : Keeps(<< Node(k) >>, A) /\ Keeps(<< PushCst(k) >>, A)

\* Operations without parts.
LEMMA SimpleKept == \A A \in SUBSET Marks : Simple(A)
<1> TAKE A \in SUBSET Marks
<1>1. ASSUME NEW K PROVE Keeps(<< Consume(K) >>, A)
  BY KeepsLeaf DEF Consume, Leaf
<1>2. Keeps(<< Advance >>, A) /\ Keeps(<< Error >>, A)
  BY KeepsLeaf DEF Advance, Error, Leaf
<1>3. ASSUME NEW n PROVE Keeps(<< Emit(n) >>, A)
  BY KeepsLeaf DEF Emit, Leaf
<1>4. Keeps(<< Fresh >>, A) /\ Keeps(<< CaseKept >>, A) /\ Keeps(<< Assign >>, A)
  BY KeepsLeaf DEF Fresh, CaseKept, Assign, Leaf
<1>5. ASSUME NEW k PROVE Keeps(<< Node(k) >>, A) /\ Keeps(<< PushCst(k) >>, A)
  <2>1. ASSUME NEW a \in A
        PROVE  OpOk(Node(k), a, a, {}) /\ OpOk(PushCst(k), a, a, {})
    <3>1. Same(a, a) /\ a.cst \in Nat
      BY FollowsItself DEF Marks
    <3> QED
      BY <3>1 DEF OpOk, Leaf, IsLoop, Node, PushCst
  <2> QED
    BY <2>1, ClosedNothing, KeepsOne
<1> QED
  BY <1>1, <1>2, <1>3, <1>4, <1>5, KeepsEmpty DEF Simple

Tuples(A) ==
  /\ \A p, q : Keeps(p, A) /\ Keeps(q, A) => Keeps(p \o q, A)
  /\ \A x, y : Keeps(<< x >>, A) /\ Keeps(<< y >>, A) => Keeps(<< x, y >>, A)
  /\ \A x, y, z : Keeps(<< x >>, A) /\ Keeps(<< y >>, A) /\ Keeps(<< z >>, A) => Keeps(<< x, y, z >>, A)
  /\ \A x, y, z, t : Keeps(<< x >>, A) /\ Keeps(<< y >>, A) /\ Keeps(<< z >>, A) /\ Keeps(<< t >>, A)
       => Keeps(<< x, y, z, t >>, A)
  /\ \A x, y, z, t, u : /\ Keeps(<< x >>, A) /\ Keeps(<< y >>, A) /\ Keeps(<< z >>, A) /\ Keeps(<< t >>, A)
                        /\ Keeps(<< u >>, A)
       => Keeps(<< x, y, z, t, u >>, A)
  /\ \A x, y, z, t, u, v : /\ Keeps(<< x >>, A) /\ Keeps(<< y >>, A) /\ Keeps(<< z >>, A)
                           /\ Keeps(<< t >>, A) /\ Keeps(<< u >>, A) /\ Keeps(<< v >>, A)
       => Keeps(<< x, y, z, t, u, v >>, A)

\* Programs written as tuples.
LEMMA TuplesKept == \A A : Tuples(A)
<1> TAKE A
<1>1. ASSUME NEW x, NEW y, Keeps(<< x >>, A), Keeps(<< y >>, A) PROVE Keeps(<< x, y >>, A)
  <2>1. << x >> \in Seq({x, y}) /\ << y >> \in Seq({x, y}) /\ Len(<< x >>) = 1 /\ Len(<< y >>) = 1
    OBVIOUS
  <2> DEFINE p == << x >> \o << y >>
             q == << x, y >>
  <2>2. p \in Seq({x, y}) /\ Len(p) = 2 /\ p[1] = x /\ p[2] = y
    BY <2>1
  <2>3. q \in Seq({x, y}) /\ Len(q) = 2 /\ q[1] = x /\ q[2] = y
    OBVIOUS
  <2> HIDE DEF p, q
  <2>4. q = p
    BY <2>2, <2>3, SeqEqual
  <2> QED
    BY <1>1, <2>4, KeepsConcat DEF p, q
<1>2. ASSUME NEW x, NEW y, NEW z, Keeps(<< x, y >>, A), Keeps(<< z >>, A) PROVE Keeps(<< x, y, z >>, A)
  <2>1. << x, y, z >> = << x, y >> \o << z >>
    OBVIOUS
  <2> QED
    BY <1>2, <2>1, KeepsConcat
<1>3. ASSUME NEW x, NEW y, NEW z, NEW t, Keeps(<< x, y, z >>, A), Keeps(<< t >>, A)
      PROVE  Keeps(<< x, y, z, t >>, A)
  <2>1. << x, y, z, t >> = << x, y, z >> \o << t >>
    OBVIOUS
  <2> QED
    BY <1>3, <2>1, KeepsConcat
<1>4. ASSUME NEW x, NEW y, NEW z, NEW t, NEW u, Keeps(<< x, y, z, t >>, A), Keeps(<< u >>, A)
      PROVE  Keeps(<< x, y, z, t, u >>, A)
  <2>1. << x, y, z, t, u >> = << x, y, z, t >> \o << u >>
    OBVIOUS
  <2> QED
    BY <1>4, <2>1, KeepsConcat
<1>5. ASSUME NEW x, NEW y, NEW z, NEW t, NEW u, NEW v, Keeps(<< x, y, z, t, u >>, A), Keeps(<< v >>, A)
      PROVE  Keeps(<< x, y, z, t, u, v >>, A)
  <2>1. << x, y, z, t, u, v >> = << x, y, z, t, u >> \o << v >>
    OBVIOUS
  <2> QED
    BY <1>5, <2>1, KeepsConcat
<1> QED
  BY <1>1, <1>2, <1>3, <1>4, <1>5, KeepsConcat DEF Tuples

Branching(A) ==
  /\ \A K, p, q : Keeps(p, A) /\ Keeps(q, A)
       => Keeps(<< Check(K, p, q) >>, A) /\ Keeps(<< Match(K, p, q) >>, A) /\ Keeps(<< Ahead(K, p, q) >>, A)
  /\ \A p, q : Keeps(p, A) /\ Keeps(q, A) => Keeps(<< IfConcurrent(p, q) >>, A)
  /\ \A K, p : Keeps(p, A) => Keeps(<< Opt(K, p) >>, A)
  /\ \A chain, q : KeepsCases(chain, q, A) => Keeps(<< Switch(chain, q) >>, A)

\* if, match, a chain of cases.
LEMMA BranchingKept == \A A \in SUBSET Marks : Branching(A)
<1> TAKE A \in SUBSET Marks
<1>1. ASSUME NEW K, NEW p, NEW q, Keeps(p, A), Keeps(q, A)
      PROVE  Keeps(<< Check(K, p, q) >>, A) /\ Keeps(<< Match(K, p, q) >>, A) /\ Keeps(<< Ahead(K, p, q) >>, A)
  <2>1. KeepsBoth(p, q, A)
    BY <1>1 DEF KeepsBoth
  <2>2. Keeps(<< Check(K, p, q) >>, A)
    BY <2>1, KeepsBranches DEF Check
  <2>3. Keeps(<< Match(K, p, q) >>, A)
    BY <2>1, KeepsBranches DEF Match
  <2>4. Keeps(<< Ahead(K, p, q) >>, A)
    BY <2>1, KeepsBranches DEF Ahead
  <2> QED
    BY <2>2, <2>3, <2>4
<1>2. ASSUME NEW p, NEW q, Keeps(p, A), Keeps(q, A) PROVE Keeps(<< IfConcurrent(p, q) >>, A)
  <2>1. KeepsBoth(p, q, A)
    BY <1>2 DEF KeepsBoth
  <2> QED
    BY <2>1, KeepsBranches DEF IfConcurrent
<1>3. ASSUME NEW K, NEW p, Keeps(p, A) PROVE Keeps(<< Opt(K, p) >>, A)
  BY <1>1, <1>3, KeepsEmpty DEF Opt
<1>4. ASSUME NEW chain, NEW q, KeepsCases(chain, q, A) PROVE Keeps(<< Switch(chain, q) >>, A)
  BY <1>4, KeepsSwitch DEF Switch
<1> QED
  BY <1>1, <1>2, <1>3, <1>4 DEF Branching

Looped(A) ==
  /\ \A K, p : Keeps(p, InLoop)
       => Keeps(<< WhileMatch(K, p) >>, A) /\ Keeps(<< Until(K, p) >>, A)
          /\ Keeps(SepBy(K, p), A) /\ Keeps(<< Check(K, <<>>, SepBy({","}, p)) >>, A)
  /\ \A close, p : Keeps(p, InLoop) => Keeps(Listed(close, p), A)
  /\ \A p : Keeps(p, InLoop) => Keeps(Braced(p), A)

\* Loops, and the lists and braces written with them.
LEMMA LoopedKept == \A A \in SUBSET Marks : Looped(A)
<1> TAKE A \in SUBSET Marks
<1>1. ASSUME NEW K, NEW p, Keeps(p, InLoop)
      PROVE  /\ Keeps(<< WhileMatch(K, p) >>, A) /\ Keeps(<< Until(K, p) >>, A)
             /\ Keeps(SepBy(K, p), A) /\ Keeps(<< Check(K, <<>>, SepBy({","}, p)) >>, A)
  <2>1. Keeps(<< WhileMatch(K, p) >>, A)
    BY <1>1, KeepsLoop DEF WhileMatch, IsLoop
  <2>2. Keeps(<< Until(K, p) >>, A)
    BY <1>1, KeepsLoop DEF Until, IsLoop
  <2>3. Keeps(SepBy(K, p), A) /\ Keeps(SepBy({","}, p), A)
    BY <1>1, KeepsSepBy
  <2>4. Keeps(<< Check(K, <<>>, SepBy({","}, p)) >>, A)
    BY <2>3, KeepsEmpty, BranchingKept DEF Branching
  <2> QED
    BY <2>1, <2>2, <2>3, <2>4
<1>2. ASSUME NEW close, NEW p, Keeps(p, InLoop) PROVE Keeps(Listed(close, p), A)
  <2>1. Keeps(<< Check({close}, <<>>, SepBy({","}, p)) >>, A) /\ Keeps(<< Consume({close}) >>, A)
    BY <1>1, <1>2, SimpleKept DEF Simple
  <2> QED
    BY <2>1, TuplesKept DEF Listed, Tuples
<1>3. ASSUME NEW p, Keeps(p, InLoop) PROVE Keeps(Braced(p), A)
  <2>1. Keeps(<< Until({"}"}, p) >>, A) /\ Keeps(<< Consume({"}"}) >>, A)
    BY <1>1, <1>3, SimpleKept DEF Simple
  <2> QED
    BY <2>1, TuplesKept DEF Braced, Tuples
<1> QED
  BY <1>1, <1>2, <1>3 DEF Looped

\* break and continue in a loop's body, return in a method with an end.
LEMMA JumpsKept ==
    /\ Keeps(<< Break >>, InLoop) /\ Keeps(<< Continue >>, InLoop)
    /\ Keeps(<< Return >>, InMethod)
<1>1. ASSUME NEW a \in InLoop PROVE OpOk(Break, a, a, {}) /\ OpOk(Continue, a, a, {})
  <2>1. Same(a, a) /\ "loop" \in a.holds
    BY <1>1, Marked, FollowsItself DEF InLoop, Claims
  <2> QED
    BY <2>1 DEF OpOk, Leaf, IsLoop, Break, Continue
<1>2. ASSUME NEW a \in InMethod PROVE OpOk(Return, a, a, {})
  <2>1. Same(a, a) /\ "end" \in a.holds
    BY <1>2, Marked, FollowsItself DEF InMethod, Claims
  <2> QED
    BY <2>1 DEF OpOk, Leaf, IsLoop, Return
<1>3. Keeps(<< Break >>, InLoop) /\ Keeps(<< Continue >>, InLoop)
  BY <1>1, ClosedNothing, KeepsOne, Marked
<1>4. Keeps(<< Return >>, InMethod)
  BY <1>2, ClosedNothing, KeepsOne, Marked
<1> QED
  BY <1>3, <1>4

\* The names of the methods.
Methods ==
  {"declaration", "varDeclaration", "statement", "expressionStatement", "printStatement",
   "ifStatement", "block", "forStatement", "whileStatement", "iterStatement", "function",
   "returnStatement", "parseConcurrencyParams", "frameDeclaration", "parallelStatement",
   "concurrentStatement", "taskStatement", "workerStatement", "importStatement",
   "enumDeclaration", "matchStatement", "traitDeclaration", "interfaceDeclaration",
   "moduleDeclaration", "contractStatement", "typeDeclaration", "expression", "assignment",
   "logicalOr", "logicalAnd", "equality", "comparison", "term", "factor", "power", "unary",
   "call", "finishCall", "primary", "lambdaExpression", "parseTypeAnnotation",
   "parseBasicType", "parseBraceType", "parseFunctionTypeAnnotation",
   "parseLegacyFunctionType", "parseFunctionParameter", "parsePattern",
   "parseBindingPattern", "parseListPattern", "parseDictPattern", "parseErrorTypePattern"}

\* They are the domain of Procedures.
LEMMA MethodNames == DOMAIN Procedures = Methods
  BY DEF Procedures, Methods

\* A call leaves the contexts as they are: this is what the lemma of the callee is for.
LEMMA CallsKept ==
    ASSUME NEW A \in SUBSET Marks, NEW m \in Methods
    PROVE  /\ Keeps(<< Call(m) >>, A)
           /\ \A K : Keeps(<< Binary(K, m) >>, A)
<1> HIDE DEF Methods
<1>1. Leaf(Call(m)) /\ \A K : Leaf(Binary(K, m))
  BY MethodNames DEF Leaf, Call, Binary
<1> QED
  BY <1>1, KeepsLeaf

\* One case of a chain, and the chains of n cases.
Case(c, A) == Keeps(c[2], A)

Chain1(A) ==
  \A c1, q :
    Case(c1, A) /\ Keeps(q, A)
    => KeepsCases(<< c1 >>, q, A)
Chain2(A) ==
  \A c1, c2, q :
    Case(c1, A) /\ Case(c2, A) /\ Keeps(q, A)
    => KeepsCases(<< c1, c2 >>, q, A)
Chain3(A) ==
  \A c1, c2, c3, q :
    Case(c1, A) /\ Case(c2, A) /\ Case(c3, A) /\ Keeps(q, A)
    => KeepsCases(<< c1, c2, c3 >>, q, A)
Chain4(A) ==
  \A c1, c2, c3, c4, q :
    Case(c1, A) /\ Case(c2, A) /\ Case(c3, A) /\ Case(c4, A) /\ Keeps(q, A)
    => KeepsCases(<< c1, c2, c3, c4 >>, q, A)
Chain5(A) ==
  \A c1, c2, c3, c4, c5, q :
      /\ Case(c1, A) /\ Case(c2, A) /\ Case(c3, A) /\ Case(c4, A) /\ Case(c5, A)
      /\ Keeps(q, A)
    => KeepsCases(<< c1, c2, c3, c4, c5 >>, q, A)
Chain7(A) ==
  \A c1, c2, c3, c4, c5, c6, c7, q :
      /\ Case(c1, A) /\ Case(c2, A) /\ Case(c3, A) /\ Case(c4, A) /\ Case(c5, A)
      /\ Case(c6, A) /\ Case(c7, A) /\ Keeps(q, A)
    => KeepsCases(<< c1, c2, c3, c4, c5, c6, c7 >>, q, A)
Chain9(A) ==
  \A c1, c2, c3, c4, c5, c6, c7, c8, c9, q :
      /\ Case(c1, A) /\ Case(c2, A) /\ Case(c3, A) /\ Case(c4, A) /\ Case(c5, A)
      /\ Case(c6, A) /\ Case(c7, A) /\ Case(c8, A) /\ Case(c9, A) /\ Keeps(q, A)
    => KeepsCases(<< c1, c2, c3, c4, c5, c6, c7, c8, c9 >>, q, A)
Chain12(A) ==
  \A c1, c2, c3, c4, c5, c6, c7, c8, c9, c10, c11, c12, q :
      /\ Case(c1, A) /\ Case(c2, A) /\ Case(c3, A) /\ Case(c4, A) /\ Case(c5, A)
      /\ Case(c6, A) /\ Case(c7, A) /\ Case(c8, A) /\ Case(c9, A) /\ Case(c10, A)
      /\ Case(c11, A) /\ Case(c12, A) /\ Keeps(q, A)
    => KeepsCases(<< c1, c2, c3, c4, c5, c6, c7, c8, c9, c10, c11, c12 >>, q, A)
Chain14(A) ==
  \A c1, c2, c3, c4, c5, c6, c7, c8, c9, c10, c11, c12, c13, c14, q :
      /\ Case(c1, A) /\ Case(c2, A) /\ Case(c3, A) /\ Case(c4, A) /\ Case(c5, A)
      /\ Case(c6, A) /\ Case(c7, A) /\ Case(c8, A) /\ Case(c9, A) /\ Case(c10, A)
      /\ Case(c11, A) /\ Case(c12, A) /\ Case(c13, A) /\ Case(c14, A) /\ Keeps(q, A)
    => KeepsCases(<< c1, c2, c3, c4, c5, c6, c7, c8, c9, c10, c11, c12, c13, c14 >>, q, A)

Chains(A) ==
  /\ \A K, p : Keeps(p, A) => Case(<< K, p >>, A)
  /\ Chain1(A) /\ Chain2(A) /\ Chain3(A) /\ Chain4(A) /\ Chain5(A)
  /\ Chain7(A) /\ Chain9(A) /\ Chain12(A) /\ Chain14(A)

\* The cases of a chain, one by one.
LEMMA ChainsKept == \A A : Chains(A)
<1> TAKE A
<1>0. \A K, p : Keeps(p, A) => Case(<< K, p >>, A)
  BY DEF Case
<1>1. Chain1(A)
  BY DEF Chain1, KeepsCases, Case
<1>2. Chain2(A)
  BY DEF Chain2, KeepsCases, Case
<1>3. Chain3(A)
  BY DEF Chain3, KeepsCases, Case
<1>4. Chain4(A)
  BY DEF Chain4, KeepsCases, Case
<1>5. Chain5(A)
  BY DEF Chain5, KeepsCases, Case
<1>6. Chain7(A)
  BY DEF Chain7, KeepsCases, Case
<1>7. Chain9(A)
  BY DEF Chain9, KeepsCases, Case
<1>8. Chain12(A)
  BY DEF Chain12, KeepsCases, Case
<1>9. Chain14(A)
  BY DEF Chain14, KeepsCases, Case
<1> QED
  BY <1>0, <1>1, <1>2, <1>3, <1>4, <1>5, <1>6, <1>7, <1>8, <1>9 DEF Chains

Called(A) == \A m \in Methods : Keeps(<< Call(m) >>, A) /\ \A K : Keeps(<< Binary(K, m) >>, A)

Rules(A) == Simple(A) /\ Tuples(A) /\ Branching(A) /\ Chains(A) /\ Looped(A) /\ Called(A)

\* All the rules, for the sets of marks that the methods need.
LEMMA RulesKept == Rules(Marks) /\ Rules(InLoop) /\ Rules(InMethod) /\ Rules(LoopOfMethod) /\ Rules(Plain)
<1>1. \A A \in SUBSET Marks : Called(A)
  BY CallsKept DEF Called
<1>2. \A A \in SUBSET Marks : Rules(A)
  BY <1>1, SimpleKept, TuplesKept, BranchingKept, ChainsKept, LoopedKept DEF Rules
<1> QED
  BY <1>2, Marked

------------------------------------------------------------------------------
\* The methods that open nothing, each by the rules of its shape: expressions, declarations and
\* statements, types and patterns, in the order of Grammar.

LEMMA InterpolationKept == Keeps(interpolation, Marks)
  BY RulesKept
  DEF Rules, Simple, Tuples, Branching, Looped, Called, Methods, interpolation, Expr

LEMMA ObjectLiteralKept == Keeps(objectLiteral, Marks)
  BY RulesKept
  DEF Rules, Simple, Tuples, Branching, Looped, Called, Methods, objectLiteral, Ident, Expr

LEMMA DictionaryKept == Keeps(dictionary, Marks)
  BY RulesKept
  DEF Rules, Simple, Tuples, Branching, Looped, Called, Methods, dictionary, Expr

LEMMA ParenthesizedKept == Keeps(parenthesized, Marks)
  BY RulesKept, JumpsKept
  DEF Rules, Simple, Tuples, Branching, Looped, Called, Methods, parenthesized, Expr

LEMMA ErrorConstructKept == Keeps(errorConstruct, Marks)
  BY RulesKept
  DEF Rules, Simple, Tuples, Branching, Looped, Called, Methods, errorConstruct, Ident, Expr

LEMMA NoExpressionKept == Keeps(noExpression, Marks)
  BY RulesKept
  DEF Rules, Simple, Tuples, Branching, Looped, Called, Methods, noExpression

LEMMA PrimaryKept == Keeps(primary, Marks)
  BY RulesKept, ParenthesizedKept, NoExpressionKept, InterpolationKept, ObjectLiteralKept, ErrorConstructKept, DictionaryKept
  DEF Rules, Simple, Tuples, Branching, Chains, Chain12, Looped, Called, Methods, primary, Expr

LEMMA CallKept == Keeps(call, Marks)
  BY RulesKept, JumpsKept, PrimaryKept
  DEF Rules, Simple, Tuples, Branching, Chains, Chain2, Chain4, Looped, Called, Methods, call, Ident, Expr

LEMMA UnaryKept == Keeps(unary, Marks)
  BY RulesKept, CallKept
  DEF Rules, Simple, Tuples, Branching, Looped, Called, Methods, unary

LEMMA PowerKept == Keeps(power, Marks)
  BY RulesKept, UnaryKept
  DEF Rules, Simple, Tuples, Branching, Looped, Called, Methods, power

LEMMA FactorKept == Keeps(factor, Marks)
  BY RulesKept, PowerKept
  DEF Rules, Simple, Tuples, Branching, Looped, Called, Methods, factor

LEMMA TermKept == Keeps(term, Marks)
  BY RulesKept, FactorKept
  DEF Rules, Simple, Tuples, Branching, Looped, Called, Methods, term

LEMMA ComparisonKept == Keeps(comparison, Marks)
  BY RulesKept, JumpsKept, TermKept
  DEF Rules, Simple, Tuples, Branching, Chains, Chain2, Looped, Called, Methods, comparison, Type

LEMMA EqualityKept == Keeps(equality, Marks)
  BY RulesKept, ComparisonKept
  DEF Rules, Simple, Tuples, Branching, Looped, Called, Methods, equality

LEMMA LogicalAndKept == Keeps(logicalAnd, Marks)
  BY RulesKept, EqualityKept
  DEF Rules, Simple, Tuples, Branching, Looped, Called, Methods, logicalAnd

LEMMA LogicalOrKept == Keeps(logicalOr, Marks)
  BY RulesKept, LogicalAndKept
  DEF Rules, Simple, Tuples, Branching, Looped, Called, Methods, logicalOr

LEMMA AssignmentKept == Keeps(assignment, Marks)
  BY RulesKept, LogicalOrKept
  DEF Rules, Simple, Tuples, Branching, Looped, Called, Methods, assignment

LEMMA DeclarationKept == Keeps(declaration, Marks)
  BY RulesKept
  DEF Rules, Simple, Tuples, Branching, Chains, Chain9, Looped, Called, Methods, declaration

LEMMA VarDeclarationKept == Keeps(varDeclaration, Marks)
  BY RulesKept
  DEF Rules, Simple, Tuples, Branching, Looped, Called, Methods, varDeclaration, Ident, Expr, TypeAndDefault, Type

LEMMA StatementKept == Keeps(statement, Marks)
<1> DEFINE chain == << <<{"print"},      << Call("printStatement") >> >>,
                       <<{"if"},         << Call("ifStatement") >> >>,
                       <<{"for"},        << Call("forStatement") >> >>,
                       <<{"while"},      << Call("whileStatement") >> >>,
                       <<{"break", "continue"}, << Consume({";"}) >> >>,
                       <<{"iter"},       << Call("iterStatement") >> >>,
                       <<{"{"},          << Block >> >>,
                       <<{"return"},     << Call("returnStatement") >> >>,
                       <<{"parallel"},   << Call("parallelStatement") >> >>,
                       <<{"concurrent"}, << Call("concurrentStatement") >> >>,
                       <<{"match"},      << Call("matchStatement") >> >>,
                       <<{"unsafe"},     << Consume({"{"}), Block >> >>,
                       <<{"contract"},   << Call("contractStatement") >> >>,
                       <<{"comptime"},   << Call("declaration") >> >> >>
<1>1. KeepsCases(chain, << Call("expressionStatement") >>, Marks)
  BY RulesKept DEF Rules, Simple, Tuples, Chains, Chain14, Called, Methods, Block
<1>2. statement = << Switch(<< <<{";"}, <<>> >> >>,
                       << Check({"}", EOF}, <<>>, << Switch(chain, << Call("expressionStatement") >>) >>) >>) >>
  BY DEF statement
<1> HIDE DEF chain
<1> QED
  BY <1>1, <1>2, RulesKept DEF Rules, Simple, Branching, Chains, Chain1

LEMMA ExpressionStatementKept == Keeps(expressionStatement, Marks)
  BY RulesKept
  DEF Rules, Simple, Tuples, Branching, Looped, Called, Methods, expressionStatement, Expr

LEMMA PrintStatementKept == Keeps(printStatement, Marks)
  BY RulesKept
  DEF Rules, Simple, Tuples, Branching, Looped, Called, Methods, printStatement, Expr

LEMMA ReturnStatementKept == Keeps(returnStatement, Marks)
  BY RulesKept
  DEF Rules, Simple, Tuples, Branching, Looped, Called, Methods, returnStatement, Expr

LEMMA ParseConcurrencyParamsKept == Keeps(parseConcurrencyParams, Marks)
<1> DEFINE Separator     == Match({","}, <<>>, << Check({")"}, <<>>, << Error, Break >>) >>)
           Value         == Switch(<< <<{"string"}, <<>> >>,
                                      <<Number, << Opt(TimeUnit, <<>>) >> >>,
                                      <<Identifiers, <<>> >> >>,
                                   << Error, Break >>)
           Later(unknown) == << Switch(<< <<{":"}, << Ident, Separator, Continue >> >>,
                                          <<{"="}, << Value >> \o unknown \o << Separator >> >> >>,
                                       << Error, Break >>) >>
           Bare(unknown) == << Opt({"="}, << Opt(Identifiers, unknown) >>) >>
           known         == << Advance >> \o Later(<<>>)
           unknown       == << Ident >> \o Later(<< Error >>)
<1>1. Keeps(<< Separator >>, InLoop)
  BY RulesKept, JumpsKept DEF Rules, Simple, Tuples, Branching
<1>2. Keeps(<< Value >>, InLoop)
  BY RulesKept, JumpsKept DEF Rules, Simple, Tuples, Branching, Chains, Chain3
<1> HIDE DEF Separator, Value
<1>3. Keeps(Later(<<>>), InLoop) /\ Keeps(Later(<< Error >>), InLoop)
  BY <1>1, <1>2, RulesKept, JumpsKept DEF Rules, Simple, Tuples, Branching, Chains, Chain2, Ident
<1> HIDE DEF Later
<1>4. Keeps(known, InLoop) /\ Keeps(unknown, InLoop)
  BY <1>3, RulesKept DEF Rules, Simple, Tuples, Ident
<1>5. Keeps(Bare(<<>>), Marks) /\ Keeps(Bare(<< Error >>), Marks)
  BY RulesKept DEF Rules, Simple, Tuples, Branching
<1>6. parseConcurrencyParams =
        << Match({"("}, << Until({")"}, << Check(ParamName, known, unknown) >>), Consume({")"}) >>,
             << Check(ParamName, << Advance >> \o Bare(<<>>), << Opt(Identifiers, Bare(<< Error >>)) >>) >>) >>
  BY DEF parseConcurrencyParams, Separator, Value, Later
<1> HIDE DEF known, unknown, Bare
<1> QED
  BY <1>4, <1>5, <1>6, RulesKept DEF Rules, Simple, Tuples, Branching, Looped

LEMMA TaskStatementKept == Keeps(taskStatement, Marks)
  BY RulesKept
  DEF Rules, Simple, Tuples, Branching, Looped, Called, Methods, taskStatement, Expr, Block

LEMMA WorkerStatementKept == Keeps(workerStatement, Marks)
  BY RulesKept
  DEF Rules, Simple, Tuples, Branching, Looped, Called, Methods, workerStatement, Expr, Block

LEMMA EnumDeclarationKept == Keeps(enumDeclaration, Marks)
  BY RulesKept
  DEF Rules, Simple, Tuples, Branching, Looped, Called, Methods, enumDeclaration, Ident, Type

LEMMA TraitDeclarationKept == Keeps(traitDeclaration, Marks)
  BY RulesKept, JumpsKept
  DEF Rules, Simple, Tuples, Branching, Looped, Called, Methods, traitDeclaration, Ident, Type, Block

LEMMA InterfaceDeclarationKept == Keeps(interfaceDeclaration, Marks)
  BY RulesKept, JumpsKept
  DEF Rules, Simple, Tuples, Branching, Looped, Called, Methods, interfaceDeclaration, Ident

LEMMA ModuleDeclarationKept == Keeps(moduleDeclaration, Marks)
  BY RulesKept
  DEF Rules, Simple, Tuples, Branching, Looped, Called, Methods, moduleDeclaration, Ident

LEMMA ContractStatementKept == Keeps(contractStatement, Marks)
  BY RulesKept
  DEF Rules, Simple, Tuples, Branching, Looped, Called, Methods, contractStatement, Expr

LEMMA FinishCallKept == Keeps(finishCall, Marks)
  BY RulesKept
  DEF Rules, Simple, Tuples, Branching, Looped, Called, Methods, finishCall, Expr

LEMMA LambdaExpressionKept == Keeps(lambdaExpression, Marks)
  BY RulesKept
  DEF Rules, Simple, Tuples, Branching, Looped, Called, Methods, lambdaExpression, Ident, Type

LEMMA ParseBasicTypeKept == Keeps(parseBasicType, Marks)
  BY RulesKept
  DEF Rules, Simple, Tuples, Branching, Chains, Chain1, Chain5, Looped, Called, Methods, parseBasicType, Ident, BasicType

LEMMA ParseTypeAnnotationKept == Keeps(parseTypeAnnotation, Marks)
  BY RulesKept, ParseBasicTypeKept
  DEF Rules, Simple, Tuples, Branching, Looped, Called, Methods, parseTypeAnnotation, Expr, BasicType

LEMMA ParseBraceTypeKept == Keeps(parseBraceType, Marks)
  BY RulesKept, JumpsKept
  DEF Rules, Simple, Tuples, Branching, Looped, Called, Methods, parseBraceType, BasicType, StructFields

LEMMA ParseFunctionTypeAnnotationKept == Keeps(parseFunctionTypeAnnotation, Marks)
  BY RulesKept
  DEF Rules, Simple, Tuples, Branching, Looped, Called, Methods, parseFunctionTypeAnnotation, Type

LEMMA ParseLegacyFunctionTypeKept == Keeps(parseLegacyFunctionType, Marks)
  BY RulesKept
  DEF Rules, Simple, Tuples, Branching, Looped, Called, Methods, parseLegacyFunctionType, BasicType

LEMMA ParseFunctionParameterKept == Keeps(parseFunctionParameter, Marks)
  BY RulesKept
  DEF Rules, Simple, Tuples, Branching, Looped, Called, Methods, parseFunctionParameter, Type

LEMMA ParsePatternKept == Keeps(parsePattern, Marks)
  BY RulesKept
  DEF Rules, Simple, Tuples, Branching, Chains, Chain7, Looped, Called, Methods, parsePattern, Ident, Expr, Pattern

LEMMA ParseBindingPatternKept == Keeps(parseBindingPattern, Marks)
  BY RulesKept
  DEF Rules, Simple, Tuples, Branching, Looped, Called, Methods, parseBindingPattern, Ident, Pattern

LEMMA ParseListPatternKept == Keeps(parseListPattern, Marks)
  BY RulesKept, JumpsKept
  DEF Rules, Simple, Tuples, Branching, Looped, Called, Methods, parseListPattern, Pattern, Rest

LEMMA ParseDictPatternKept == Keeps(parseDictPattern, Marks)
  BY RulesKept, JumpsKept
  DEF Rules, Simple, Tuples, Branching, Looped, Called, Methods, parseDictPattern, Ident, Pattern, Rest

LEMMA ParseErrorTypePatternKept == Keeps(parseErrorTypePattern, Marks)
  BY RulesKept
  DEF Rules, Simple, Tuples, Branching, Looped, Called, Methods, parseErrorTypePattern, Ident

------------------------------------------------------------------------------
\* One more node, one more block, a concurrent block.
Deeper  == [a \in Plain |-> [a EXCEPT !.cst = a.cst + 1]]
Inner   == [a \in Plain |-> [a EXCEPT !.block = a.block + 1]]
Parallel == [a \in Plain |-> [a EXCEPT !.holds = a.holds \cup {"concurrent"}]]

Opens(p, U)  == IsSeq(p) /\ \A a \in Plain : Ok(p, a, U[a])
Closes(p, U) == IsSeq(p) /\ \A a \in Plain : Ok(p, U[a], a)

Bracketing(U) ==
  /\ \A p, q : Opens(p, U) /\ Keeps(q, Plain) => Opens(p \o q, U)
  /\ \A p, q : Keeps(p, Plain) /\ Opens(q, U) => Opens(p \o q, U)
  /\ \A p, q : Keeps(p, Plain) /\ Closes(q, U) => Closes(p \o q, U)
  /\ \A p, q : Opens(p, U) /\ Closes(q, U) => Keeps(p \o q, Plain)

\* A bracket with anything in it that keeps the mark.
LEMMA BracketingKept == \A U \in [Plain -> Plain] : Bracketing(U)
<1> TAKE U \in [Plain -> Plain]
<1>1. ASSUME NEW p, NEW q, Opens(p, U), Keeps(q, Plain) PROVE Opens(p \o q, U)
  <2>1. ASSUME NEW a \in Plain PROVE Ok(p \o q, a, U[a])
    <3>1. Ok(p, a, U[a]) /\ Ok(q, U[a], U[a])
      BY <1>1 DEF Opens, Keeps
    <3> QED
      BY <3>1, OkConcat
  <2> QED
    BY <1>1, <2>1, IsSeqConcat DEF Opens, Keeps
<1>2. ASSUME NEW p, NEW q, Keeps(p, Plain), Opens(q, U) PROVE Opens(p \o q, U)
  <2>1. ASSUME NEW a \in Plain PROVE Ok(p \o q, a, U[a])
    <3>1. Ok(p, a, a) /\ Ok(q, a, U[a])
      BY <1>2 DEF Opens, Keeps
    <3> QED
      BY <3>1, OkConcat
  <2> QED
    BY <1>2, <2>1, IsSeqConcat DEF Opens, Keeps
<1>3. ASSUME NEW p, NEW q, Keeps(p, Plain), Closes(q, U) PROVE Closes(p \o q, U)
  <2>1. ASSUME NEW a \in Plain PROVE Ok(p \o q, U[a], a)
    <3>1. Ok(p, U[a], U[a]) /\ Ok(q, U[a], a)
      BY <1>3 DEF Closes, Keeps
    <3> QED
      BY <3>1, OkConcat
  <2> QED
    BY <1>3, <2>1, IsSeqConcat DEF Closes, Keeps
<1>4. ASSUME NEW p, NEW q, Opens(p, U), Closes(q, U) PROVE Keeps(p \o q, Plain)
  <2>1. ASSUME NEW a \in Plain PROVE Ok(p \o q, a, a)
    <3>1. Ok(p, a, U[a]) /\ Ok(q, U[a], a)
      BY <1>4 DEF Closes, Opens
    <3> QED
      BY <3>1, OkConcat
  <2> QED
    BY <1>4, <2>1, IsSeqConcat DEF Opens, Closes, Keeps
<1> QED
  BY <1>1, <1>2, <1>3, <1>4 DEF Bracketing

\* Which operations open and close which bracket.
LEMMA Brackets ==
  /\ Deeper \in [Plain -> Plain] /\ Inner \in [Plain -> Plain] /\ Parallel \in [Plain -> Plain]
  /\ \A k : isContainerNode(k) => Opens(<< Node(k) >>, Deeper)
  /\ Closes(<< PopCst >>, Deeper)
  /\ \A k : Opens(<< PushBlock(k) >>, Inner)
  /\ Closes(<< PopBlock >>, Inner)
  /\ Opens(<< Concurrent(TRUE) >>, Parallel)
  /\ Closes(<< Concurrent(FALSE) >>, Parallel)
<1>1. ASSUME NEW a \in Plain
      PROVE  /\ Deeper[a] \in Plain /\ Inner[a] \in Plain /\ Parallel[a] \in Plain
             /\ a \in Marks /\ Deeper[a] \in Marks /\ Inner[a] \in Marks /\ Parallel[a] \in Marks
             /\ Deeper[a].block = a.block /\ Deeper[a].cst = a.cst + 1 /\ Deeper[a].holds = a.holds
             /\ Inner[a].block = a.block + 1 /\ Inner[a].cst = a.cst /\ Inner[a].holds = a.holds
             /\ Parallel[a].block = a.block /\ Parallel[a].cst = a.cst
             /\ Parallel[a].holds = a.holds \cup {"concurrent"}
             /\ a.block \in Nat /\ a.cst \in Nat /\ a.holds \subseteq {"concurrent"}
  BY DEF Deeper, Inner, Parallel, Plain, Marks
<1>2. Deeper \in [Plain -> Plain] /\ Inner \in [Plain -> Plain] /\ Parallel \in [Plain -> Plain]
  BY <1>1 DEF Deeper, Inner, Parallel
<1>3. ASSUME NEW k, isContainerNode(k), NEW a \in Plain PROVE Ok(<< Node(k) >>, a, Deeper[a])
  <2>1. OpOk(Node(k), a, Deeper[a], {})
    BY <1>1, <1>3 DEF OpOk, Leaf, IsLoop, Node
  <2> QED
    BY <1>1, <2>1, ClosedNothing, OkOne
<1>4. ASSUME NEW a \in Plain PROVE Ok(<< PopCst >>, Deeper[a], a)
  <2>1. OpOk(PopCst, Deeper[a], a, {})
    BY <1>1 DEF OpOk, Leaf, IsLoop, PopCst
  <2> QED
    BY <1>1, <2>1, ClosedNothing, OkOne
<1>5. ASSUME NEW k, NEW a \in Plain PROVE Ok(<< PushBlock(k) >>, a, Inner[a])
  <2>1. OpOk(PushBlock(k), a, Inner[a], {})
    BY <1>1 DEF OpOk, Leaf, IsLoop, PushBlock
  <2> QED
    BY <1>1, <2>1, ClosedNothing, OkOne
<1>6. ASSUME NEW a \in Plain PROVE Ok(<< PopBlock >>, Inner[a], a)
  <2>0. Inner[a].block >= 1 /\ a.block = Inner[a].block - 1
    <3>1. \A n \in Nat : \A m : m = n + 1 => m >= 1 /\ n = m - 1
      OBVIOUS
    <3>2. a.block \in Nat /\ Inner[a].block = a.block + 1
      BY <1>1
    <3> QED
      BY <3>1, <3>2
  <2>1. OpOk(PopBlock, Inner[a], a, {})
    BY <1>1, <2>0 DEF OpOk, Leaf, IsLoop, PopBlock
  <2> QED
    BY <1>1, <2>1, ClosedNothing, OkOne
<1>7. ASSUME NEW a \in Plain PROVE Ok(<< Concurrent(TRUE) >>, a, Parallel[a])
  <2>1. OpOk(Concurrent(TRUE), a, Parallel[a], {})
    BY <1>1 DEF OpOk, Leaf, IsLoop, Concurrent
  <2> QED
    BY <1>1, <2>1, ClosedNothing, OkOne
<1>8. ASSUME NEW a \in Plain PROVE Ok(<< Concurrent(FALSE) >>, Parallel[a], a)
  <2>1. OpOk(Concurrent(FALSE), Parallel[a], a, {})
    BY <1>1 DEF OpOk, Leaf, IsLoop, Concurrent
  <2> QED
    BY <1>1, <2>1, ClosedNothing, OkOne
<1> QED
  BY <1>2, <1>3, <1>4, <1>5, <1>6, <1>7, <1>8, IsSeqTuples DEF Opens, Closes

\* A tuple is one of its parts after another.
LEMMA TupleParts ==
  /\ \A x, y : << x, y >> = << x >> \o << y >>
  /\ \A x, y, z : << x, y, z >> = << x, y >> \o << z >>
  /\ \A x, y, z, t : << x, y, z, t >> = << x, y, z >> \o << t >>
  /\ \A x, y, z, t, u : << x, y, z, t, u >> = << x, y, z >> \o << t, u >>
  /\ \A x, y, z, t, u, v : << x, y, z, t, u, v >> = << x, y, z, t >> \o << u, v >>
  /\ \A x, y, z, t, u, v, w : << x, y, z, t, u, v, w >> = << x, y >> \o << z, t, u, v, w >>
  /\ \A x, y, z, t, u, v, w, r, s :
       << x, y, z, t, u, v, w, r, s >> = << x, y, z, t >> \o << u, v, w, r, s >>
<1>1. ASSUME NEW x, NEW y PROVE << x, y >> = << x >> \o << y >>
  <2>1. << x >> \in Seq({x, y}) /\ << y >> \in Seq({x, y}) /\ Len(<< x >>) = 1 /\ Len(<< y >>) = 1
    OBVIOUS
  <2> DEFINE p == << x >> \o << y >>
             q == << x, y >>
  <2>2. p \in Seq({x, y}) /\ Len(p) = 2 /\ p[1] = x /\ p[2] = y
    BY <2>1
  <2>3. q \in Seq({x, y}) /\ Len(q) = 2 /\ q[1] = x /\ q[2] = y
    OBVIOUS
  <2> HIDE DEF p, q
  <2>4. q = p
    BY <2>2, <2>3, SeqEqual
  <2> QED
    BY <2>4 DEF p, q
<1>2. ASSUME NEW x, NEW y, NEW z PROVE << x, y, z >> = << x, y >> \o << z >>
  OBVIOUS
<1>3. ASSUME NEW x, NEW y, NEW z, NEW t PROVE << x, y, z, t >> = << x, y, z >> \o << t >>
  OBVIOUS
<1>4. ASSUME NEW x, NEW y, NEW z, NEW t, NEW u PROVE << x, y, z, t, u >> = << x, y, z >> \o << t, u >>
  OBVIOUS
<1>5. ASSUME NEW x, NEW y, NEW z, NEW t, NEW u, NEW v
      PROVE  << x, y, z, t, u, v >> = << x, y, z, t >> \o << u, v >>
  OBVIOUS
<1>7. ASSUME NEW x, NEW y, NEW z, NEW t, NEW u, NEW v, NEW w
      PROVE  << x, y, z, t, u, v, w >> = << x, y >> \o << z, t, u, v, w >>
  OBVIOUS
<1>6. ASSUME NEW x, NEW y, NEW z, NEW t, NEW u, NEW v, NEW w, NEW r, NEW s
      PROVE  << x, y, z, t, u, v, w, r, s >> = << x, y, z, t >> \o << u, v, w, r, s >>
  OBVIOUS
<1> QED
  BY <1>1, <1>2, <1>3, <1>4, <1>5, <1>6, <1>7

\* The rules for what opens and closes a bracket, for the three kinds of bracket.
LEMMA BracketRules == Bracketing(Deeper) /\ Bracketing(Inner) /\ Bracketing(Parallel)
  BY Brackets, BracketingKept

\* In a block of its own: the pushed context is popped.
LEMMA KeepsInner ==
    ASSUME NEW kind, NEW o, Keeps(<< o >>, Plain)
    PROVE  Keeps(<< PushBlock(kind), o, PopBlock >>, Plain)
<1>1. Opens(<< PushBlock(kind) >>, Inner) /\ Closes(<< PopBlock >>, Inner)
  BY Brackets
<1>2. Opens(<< PushBlock(kind) >> \o << o >>, Inner)
  BY <1>1, BracketRules DEF Bracketing
<1>5. Opens(<< PushBlock(kind), o >>, Inner)
  BY <1>2, TupleParts
<1>3. Keeps(<< PushBlock(kind), o >> \o << PopBlock >>, Plain)
  BY <1>1, <1>5, BracketRules DEF Bracketing
<1>4. << PushBlock(kind), o, PopBlock >> = << PushBlock(kind), o >> \o << PopBlock >>
  OBVIOUS
<1> QED
  BY <1>3, <1>4, Zenon

\* parseStatementWithContext: the context of a block is popped after it.
LEMMA NestedKept == \A kind : Keeps(Nested(kind), Plain)
<1> TAKE kind
<1>1. Keeps(<< Call("statement") >>, Plain)
  BY RulesKept DEF Rules, Called, Methods
<1>2. Keeps(<< PushBlock(kind), Call("statement"), PopBlock >>, Plain)
  BY <1>1, KeepsInner
<1>3. Keeps(<< Check({"{"}, << PushBlock(kind), Call("statement"), PopBlock >>, << Call("statement") >>) >>, Plain)
  BY <1>1, <1>2, RulesKept DEF Rules, Branching
<1> QED
  BY <1>3 DEF Nested

\* A condition in parentheses.
LEMMA ConditionKept == Keeps(Condition, Plain)
  BY RulesKept DEF Rules, Simple, Tuples, Called, Methods, Condition, Expr

\* The node of the if and those of its elifs are popped.
LEMMA IfStatementKept == Keeps(ifStatement, Plain)
<1> DEFINE Elif == << Node("IF_STATEMENT") >> \o Condition \o Nested("elif") \o << PopCst >>
           o == WhileMatch({"elif"}, Elif)
           e == Opt({"else"}, Nested("else"))
<1>1. Opens(<< Node("IF_STATEMENT") >>, Deeper) /\ Closes(<< PopCst >>, Deeper)
  BY Brackets DEF isContainerNode
<1>2. /\ Opens(<< Node("IF_STATEMENT") >> \o Condition \o Nested("elif"), Deeper)
      /\ Opens(<< Node("IF_STATEMENT") >> \o Condition \o Nested("if"), Deeper)
  BY <1>1, ConditionKept, NestedKept, BracketRules DEF Bracketing
<1>3. Keeps(Elif, Plain)
  BY <1>1, <1>2, BracketRules DEF Bracketing
<1>4. Keeps(<< o >>, Plain)
  <2>1. IsLoop(o) /\ o.body = Elif
    BY DEF WhileMatch, IsLoop
  <2> HIDE DEF o
  <2> QED
    BY <1>3, <2>1, KeepsRounds, Marked
<1>5. Keeps(<< e >>, Plain)
  BY NestedKept, RulesKept DEF Rules, Branching
<1>6. ifStatement = (<< Node("IF_STATEMENT") >> \o Condition \o Nested("if")) \o << o, e, PopCst >>
  BY DEF ifStatement
<1> HIDE DEF o, e
<1>7. Closes(<< o, e, PopCst >>, Deeper)
  <2>1. Keeps(<< o, e >>, Plain)
    BY <1>4, <1>5, RulesKept DEF Rules, Tuples
  <2>2. Closes(<< o, e >> \o << PopCst >>, Deeper)
    BY <1>1, <2>1, BracketRules DEF Bracketing
  <2>3. << o, e, PopCst >> = << o, e >> \o << PopCst >>
    OBVIOUS
  <2> QED
    BY <2>2, <2>3, Zenon
<1> QED
  BY <1>2, <1>6, <1>7, BracketRules DEF Bracketing

\* The node of the while is popped.
LEMMA WhileStatementKept == Keeps(whileStatement, Plain)
<1>1. Opens(<< Node("WHILE_STATEMENT") >>, Deeper) /\ Closes(<< PopCst >>, Deeper)
  BY Brackets DEF isContainerNode
<1>2. Opens(<< Node("WHILE_STATEMENT") >> \o Condition \o Nested("while"), Deeper)
  BY <1>1, ConditionKept, NestedKept, BracketRules DEF Bracketing
<1> QED
  BY <1>1, <1>2, BracketRules DEF Bracketing, whileStatement

\* One of the two nodes of a block is popped: the mark only bounds from below what is left.
LEMMA BlockKept == Keeps(block, Plain)
<1> DEFINE p == << IfConcurrent(
                   << Switch(<< <<{"task"},   << Call("taskStatement") >> >>,
                                <<{"worker"}, << Call("workerStatement") >> >> >>,
                             << Call("declaration") >>) >>,
                   << Call("declaration") >>) >>
           first == << Node("BLOCK_STATEMENT"), PushCst("BLOCK_STATEMENT") >>
<1>1. Keeps(p, Marks)
  BY RulesKept DEF Rules, Branching, Chains, Chain2, Called, Methods
<1> HIDE DEF p
<1>2. Keeps(p, InLoop)
  BY <1>1, KeepsFewer, Marked
<1>3. Opens(first, Deeper)
  <2>1. Opens(<< Node("BLOCK_STATEMENT") >>, Deeper) /\ Keeps(<< PushCst("BLOCK_STATEMENT") >>, Plain)
    BY Brackets, RulesKept DEF isContainerNode, Rules, Simple
  <2>2. Opens(<< Node("BLOCK_STATEMENT") >> \o << PushCst("BLOCK_STATEMENT") >>, Deeper)
    BY <2>1, BracketRules DEF Bracketing
  <2> QED
    BY <2>2, TupleParts
<1>4. block = (first \o Braced(p)) \o << PopCst >>
  BY DEF block, p
<1> HIDE DEF first
<1>5. Keeps(Braced(p), Plain)
  BY <1>2, RulesKept DEF Rules, Looped
<1>6. Opens(first \o Braced(p), Deeper) /\ Closes(<< PopCst >>, Deeper)
  BY <1>3, <1>5, Brackets, BracketRules DEF Bracketing
<1> QED
  BY <1>4, <1>6, BracketRules DEF Bracketing

\* The node of the for is popped.
LEMMA ForStatementKept == Keeps(forStatement, Plain)
<1> DEFINE s == Switch(<< <<{";"}, <<>> >>,
               <<{"var"}, << Ident >> \o TypeAndDefault \o << Consume({";"}) >> >> >>,
            << Call("expressionStatement") >>)
           c == Check({";"}, <<>>, << Expr >>)
           d == Check({")"}, <<>>, << Expr >>)
           last == << s, c, Consume({";"}), d, Consume({")"}) >>
           p == << Node("FOR_STATEMENT"), Consume({"("}), s, c, Consume({";"}), d, Consume({")"}) >>
<1>1. Keeps(<< s >>, Plain) /\ Keeps(<< c >>, Plain) /\ Keeps(<< d >>, Plain)
  BY RulesKept
  DEF Rules, Simple, Tuples, Branching, Chains, Chain2, Called, Methods, Ident, TypeAndDefault, Expr, Type
<1>2. forStatement = (p \o Nested("for")) \o << PopCst >>
  BY DEF forStatement
<1> HIDE DEF s, c, d
<1>3. Keeps(last, Plain)
  BY <1>1, RulesKept DEF Rules, Simple, Tuples
<1>4. p = << Node("FOR_STATEMENT"), Consume({"("}) >> \o last
  <2> DEFINE n  == Node("FOR_STATEMENT")
             c1 == Consume({"("})
             c2 == Consume({";"})
             c3 == Consume({")"})
  <2>1. p = << n, c1, s, c, c2, d, c3 >> /\ last = << s, c, c2, d, c3 >>
    OBVIOUS
  <2> HIDE DEF n, c1, c2, c3, p, last
  <2>2. p = << n, c1 >> \o last
    BY <2>1
  <2> QED
    BY <2>2 DEF n, c1
<1>5. Opens(<< Node("FOR_STATEMENT"), Consume({"("}) >>, Deeper) /\ Closes(<< PopCst >>, Deeper)
  <2>1. Opens(<< Node("FOR_STATEMENT") >>, Deeper) /\ Keeps(<< Consume({"("}) >>, Plain)
    BY Brackets, RulesKept DEF isContainerNode, Rules, Simple
  <2>2. Opens(<< Node("FOR_STATEMENT") >> \o << Consume({"("}) >>, Deeper)
    BY <2>1, BracketRules DEF Bracketing
  <2> QED
    BY <2>2, TupleParts, Brackets
<1> HIDE DEF p, last
<1>6. Opens(p \o Nested("for"), Deeper)
  <2>1. Opens(p, Deeper)
    BY <1>3, <1>4, <1>5, BracketRules DEF Bracketing
  <2> QED
    BY <2>1, NestedKept, BracketRules DEF Bracketing
<1> QED
  BY <1>2, <1>5, <1>6, BracketRules DEF Bracketing

\* Tuples in which one part opens or closes a bracket and the others keep it.
LEMMA OpensTuple ==
    ASSUME NEW U \in [Plain -> Plain], NEW x, NEW y, NEW z, NEW t, Opens(<< x >>, U),
           Keeps(<< y >>, Plain), Keeps(<< z >>, Plain), Keeps(<< t >>, Plain)
    PROVE  Opens(<< x, y >>, U) /\ Opens(<< x, y, z >>, U) /\ Opens(<< x, y, z, t >>, U)
<1>1. Opens(<< x, y >>, U)
  <2>1. Opens(<< x >> \o << y >>, U)
    BY BracketingKept DEF Bracketing
  <2> QED
    BY <2>1, TupleParts
<1>2. Opens(<< x, y, z >>, U)
  <2>1. Opens(<< x, y >> \o << z >>, U)
    BY <1>1, BracketingKept DEF Bracketing
  <2>2. << x, y, z >> = << x, y >> \o << z >>
    OBVIOUS
  <2> QED
    BY <2>1, <2>2, Zenon
<1>3. Opens(<< x, y, z, t >>, U)
  <2>1. Opens(<< x, y, z >> \o << t >>, U)
    BY <1>2, BracketingKept DEF Bracketing
  <2>2. << x, y, z, t >> = << x, y, z >> \o << t >>
    OBVIOUS
  <2> QED
    BY <2>1, <2>2, Zenon
<1> QED
  BY <1>1, <1>2, <1>3

\* Two operations in front of what closes a bracket.
LEMMA ClosesTuple ==
    ASSUME NEW U \in [Plain -> Plain], NEW x, NEW y, NEW z, Closes(<< x >>, U),
           Keeps(<< y >>, Plain), Keeps(<< z >>, Plain)
    PROVE  Closes(<< y, x >>, U) /\ Closes(<< y, z, x >>, U)
<1>1. Closes(<< y, x >>, U)
  <2>1. Closes(<< y >> \o << x >>, U)
    BY BracketingKept DEF Bracketing
  <2> QED
    BY <2>1, TupleParts
<1>2. Closes(<< y, z, x >>, U)
  <2>1. Keeps(<< y, z >>, Plain)
    BY TuplesKept DEF Tuples
  <2>2. Closes(<< y, z >> \o << x >>, U)
    BY <2>1, BracketingKept DEF Bracketing
  <2>3. << y, z, x >> = << y, z >> \o << x >>
    OBVIOUS
  <2> QED
    BY <2>2, <2>3, Zenon
<1> QED
  BY <1>1, <1>2

\* A bracket of one or two operations, with up to two in front.
LEMMA BracketTuple ==
    ASSUME NEW U \in [Plain -> Plain], NEW x, NEW y, NEW z, NEW t, NEW v, NEW w,
           Opens(<< x >>, U), Closes(<< v >>, U),
           Keeps(<< y >>, Plain), Keeps(<< z >>, Plain), Keeps(<< t >>, Plain), Keeps(<< w >>, Plain)
    PROVE  /\ Keeps(<< x, y, v >>, Plain) /\ Keeps(<< x, y, z, v >>, Plain)
           /\ Keeps(<< t, x, y, v >>, Plain) /\ Keeps(<< t, w, x, y, v >>, Plain)
<1>1. Keeps(<< x, y, v >>, Plain)
  <2>1. Keeps(<< x, y >> \o << v >>, Plain)
    BY OpensTuple, BracketingKept DEF Bracketing
  <2>2. << x, y, v >> = << x, y >> \o << v >>
    OBVIOUS
  <2> QED
    BY <2>1, <2>2, Zenon
<1>2. Keeps(<< x, y, z, v >>, Plain)
  <2>1. Keeps(<< x, y, z >> \o << v >>, Plain)
    BY OpensTuple, BracketingKept DEF Bracketing
  <2>2. << x, y, z, v >> = << x, y, z >> \o << v >>
    OBVIOUS
  <2> QED
    BY <2>1, <2>2, Zenon
<1>3. Keeps(<< t, x, y, v >>, Plain)
  <2>1. Keeps(<< t >> \o << x, y, v >>, Plain)
    BY <1>1, KeepsConcat
  <2>2. << t, x, y, v >> = << t >> \o << x, y, v >>
    OBVIOUS
  <2> QED
    BY <2>1, <2>2, Zenon
<1>4. Keeps(<< t, w, x, y, v >>, Plain)
  <2>1. Keeps(<< t, w >>, Plain)
    BY TuplesKept DEF Tuples
  <2>2. Keeps(<< t, w >> \o << x, y, v >>, Plain)
    BY <1>1, <2>1, KeepsConcat
  <2>3. << t, w, x, y, v >> = << t, w >> \o << x, y, v >>
    OBVIOUS
  <2> QED
    BY <2>2, <2>3, Zenon
<1> QED
  BY <1>1, <1>2, <1>3, <1>4

\* The node of the iter is popped.
LEMMA IterStatementKept == Keeps(iterStatement, Plain)
<1> DEFINE s == Switch(<< <<{"var"}, << Ident, Opt({","}, << Ident >>) >> \o << Consume({"in"}), Expr >> >>,
                  <<Identifiers,
                    << Switch(<< <<{","}, << Ident >> \o << Consume({"in"}), Expr >> >>, <<{"in"}, << Expr >> >> >>,
                              << Error >>) >> >> >>,
               << Error >>)
           p == << Node("ITER_STATEMENT"), Consume({"("}), s, Consume({")"}) >>
<1>1. Keeps(<< s >>, Plain)
  BY RulesKept DEF Rules, Simple, Tuples, Branching, Chains, Chain2, Called, Methods, Ident, Expr
<1>2. iterStatement = (p \o Nested("iter")) \o << PopCst >>
  BY DEF iterStatement
<1> HIDE DEF s
<1>3. Opens(p, Deeper)
  <2>1. Opens(<< Node("ITER_STATEMENT") >>, Deeper) /\ Deeper \in [Plain -> Plain]
    BY Brackets DEF isContainerNode
  <2>2. Keeps(<< Consume({"("}) >>, Plain) /\ Keeps(<< Consume({")"}) >>, Plain)
    BY RulesKept DEF Rules, Simple
  <2> QED
    BY <1>1, <2>1, <2>2, OpensTuple
<1> HIDE DEF p
<1>4. Opens(p \o Nested("iter"), Deeper)
  BY <1>3, NestedKept, BracketRules DEF Bracketing
<1> QED
  BY <1>2, <1>4, Brackets, BracketRules DEF Bracketing

\* The node of the function and the block of its body are popped.
LEMMA FunctionKept == Keeps(function, Plain)
<1> DEFINE g == Opt({"["}, SepBy({","}, << Ident >>) \o << Consume({"]"}) >>)
           p == << Node("FUNCTION_DECLARATION"), Ident, g, Consume({"("}) >>
           r == Opt({":"}, << Type >>)
           b == << Consume({"{"}), PushBlock("function"), Block, PopBlock >>
           m == Match({";"}, <<>>, b)
           q == << r, m, PopCst >>
<1>1. Keeps(<< g >>, Plain) /\ Keeps(<< r >>, Plain)
  BY RulesKept DEF Rules, Simple, Tuples, Branching, Looped, Called, Methods, Ident, Type
<1>2. Keeps(Listed(")", Parameter), Plain)
  BY RulesKept
  DEF Rules, Simple, Tuples, Branching, Looped, Called, Methods, Ident, Type, Parameter, TypeAndDefault, Expr
<1>3. Keeps(<< Ident >>, Plain) /\ Keeps(<< Consume({"("}) >>, Plain) /\ Keeps(<< Consume({"{"}) >>, Plain)
      /\ Keeps(<< Block >>, Plain)
  BY RulesKept DEF Rules, Simple, Called, Methods, Ident, Block
<1>4. function = (p \o Listed(")", Parameter)) \o q
  BY DEF function
<1>5. Keeps(b, Plain)
  <2>1. Opens(<< PushBlock("function") >>, Inner) /\ Closes(<< PopBlock >>, Inner) /\ Inner \in [Plain -> Plain]
    BY Brackets
  <2> QED
    BY <1>3, <2>1, BracketTuple
<1> HIDE DEF b, g, r
<1>6. Keeps(<< m >>, Plain)
  BY <1>5, RulesKept DEF Rules, Simple, Branching
<1>7. Opens(<< Node("FUNCTION_DECLARATION") >>, Deeper) /\ Closes(<< PopCst >>, Deeper) /\ Deeper \in [Plain -> Plain]
  BY Brackets DEF isContainerNode
<1> HIDE DEF m
<1>8. Opens(p, Deeper)
  BY <1>1, <1>3, <1>7, OpensTuple
<1>9. Closes(q, Deeper)
  BY <1>1, <1>6, <1>7, ClosesTuple
<1> HIDE DEF p, q
<1>10. Opens(p \o Listed(")", Parameter), Deeper)
  BY <1>2, <1>8, BracketRules DEF Bracketing
<1> QED
  BY <1>4, <1>9, <1>10, BracketRules DEF Bracketing

\* Two parts of a method in one.
LEMMA TupleJoins ==
  /\ \A x, y, z, t, u : << x, y >> \o << z, t, u >> = << x, y, z, t, u >>
  /\ \A x, y, z, t, u, v, w, r :
       << x, y, z, t >> \o << u, v, w, r >> = << x, y, z, t, u, v, w, r >>
  /\ \A x, y, z, t, u : << x, y, z, t, u >> = << x, y, z, t >> \o << u >>
<1>1. ASSUME NEW x, NEW y, NEW z, NEW t, NEW u PROVE << x, y >> \o << z, t, u >> = << x, y, z, t, u >>
  <2> DEFINE S == {x, y, z, t, u}
             p == << x, y >>
             q == << z, t, u >>
             s == << x, y, z, t, u >>
  <2>1. p \in Seq(S) /\ Len(p) = 2 /\ p[1] = x /\ p[2] = y
    OBVIOUS
  <2>2. q \in Seq(S) /\ Len(q) = 3 /\ q[1] = z /\ q[2] = t /\ q[3] = u
    OBVIOUS
  <2>3. s \in Seq(S) /\ Len(s) = 5 /\ s[1] = x /\ s[2] = y /\ s[3] = z /\ s[4] = t /\ s[5] = u
    OBVIOUS
  <2> HIDE DEF S, p, q, s
  <2>4. p \o q \in Seq(S) /\ Len(p \o q) = 5 /\ \A i \in 1..5 : (p \o q)[i] = s[i]
    <3>0. p \in Seq(S) /\ q \in Seq(S) /\ Len(p) = 2 /\ Len(q) = 3
      BY <2>1, <2>2
    <3>1. /\ p \o q \in Seq(S) /\ Len(p \o q) = 5
          /\ \A i \in 1..5 : (p \o q)[i] = IF i <= 2 THEN p[i] ELSE q[i - 2]
      <4>1. /\ Len(p \o q) = Len(p) + Len(q)
            /\ \A i \in 1..(Len(p) + Len(q)) : (p \o q)[i] = IF i <= Len(p) THEN p[i] ELSE q[i - Len(p)]
        BY <3>0, IsSeqConcat DEF IsSeq
      <4>2. p \o q \in Seq(S)
        BY <3>0
      <4> QED
        BY <3>0, <4>1, <4>2
    <3>2. \A i \in 1..5 : i <= 2 => s[i] = p[i]
      BY <2>1, <2>3
    <3>3. \A i \in 1..5 : ~(i <= 2) => s[i] = q[i - 2]
      BY <2>2, <2>3
    <3> QED
      BY <3>1, <3>2, <3>3
  <2>5. p \o q = s
    BY <2>3, <2>4, SeqEqual
  <2> QED
    BY <2>5 DEF p, q, s
<1>2. ASSUME NEW x, NEW y, NEW z, NEW t, NEW u, NEW v, NEW w, NEW r
      PROVE  << x, y, z, t >> \o << u, v, w, r >> = << x, y, z, t, u, v, w, r >>
  <2> DEFINE S == {x, y, z, t, u, v, w, r}
             p == << x, y, z, t >>
             q == << u, v, w, r >>
             s == << x, y, z, t, u, v, w, r >>
  <2>1. p \in Seq(S) /\ Len(p) = 4 /\ p[1] = x /\ p[2] = y /\ p[3] = z /\ p[4] = t
    OBVIOUS
  <2>2. q \in Seq(S) /\ Len(q) = 4 /\ q[1] = u /\ q[2] = v /\ q[3] = w /\ q[4] = r
    OBVIOUS
  <2>3. /\ s \in Seq(S) /\ Len(s) = 8 /\ s[1] = x /\ s[2] = y /\ s[3] = z /\ s[4] = t /\ s[5] = u
        /\ s[6] = v /\ s[7] = w /\ s[8] = r
    OBVIOUS
  <2> HIDE DEF S, p, q, s
  <2>4. p \o q \in Seq(S) /\ Len(p \o q) = 8 /\ \A i \in 1..8 : (p \o q)[i] = s[i]
    <3>0. p \in Seq(S) /\ q \in Seq(S) /\ Len(p) = 4 /\ Len(q) = 4
      BY <2>1, <2>2
    <3>1. /\ p \o q \in Seq(S) /\ Len(p \o q) = 8
          /\ \A i \in 1..8 : (p \o q)[i] = IF i <= 4 THEN p[i] ELSE q[i - 4]
      <4>1. /\ Len(p \o q) = Len(p) + Len(q)
            /\ \A i \in 1..(Len(p) + Len(q)) : (p \o q)[i] = IF i <= Len(p) THEN p[i] ELSE q[i - Len(p)]
        BY <3>0, IsSeqConcat DEF IsSeq
      <4>2. p \o q \in Seq(S)
        BY <3>0
      <4> QED
        BY <3>0, <4>1, <4>2
    <3>2. \A i \in 1..8 : i <= 4 => s[i] = p[i]
      BY <2>1, <2>3
    <3>3. \A i \in 1..8 : ~(i <= 4) => s[i] = q[i - 4]
      BY <2>2, <2>3
    <3> QED
      BY <3>1, <3>2, <3>3
  <2>5. p \o q = s
    BY <2>3, <2>4, SeqEqual
  <2> QED
    BY <2>5 DEF p, q, s
<1>3. ASSUME NEW x, NEW y, NEW z, NEW t, NEW u PROVE << x, y, z, t, u >> = << x, y, z, t >> \o << u >>
  OBVIOUS
<1> QED
  BY <1>1, <1>2, <1>3

\* The node of the frame and its block are popped, also after a bad member broke the loop.
LEMMA FrameDeclarationKept == Keeps(frameDeclaration, Plain)
<1> DEFINE Method(ret) == << Consume({"("}) >> \o Listed(")", TypedParameter) \o ret
                          \o << Consume({"{"}), Block >>
           Returning   == << Opt({":"}, << Type >>) >>
           init   == Method(Returning)
           deinit == << Consume({"("}), Check({")"}, <<>>, << Error >>), Consume({")"}), Consume({"{"}), Block >>
           fn     == << Ident >> \o Method(Returning)
           var    == << Ident >> \o FrameField
           bare   == << Check({":"}, FrameField, << Error, Break >>) >>
           member == Switch(<< <<{"init"}, init >>, <<{"deinit"}, deinit >>, <<{"fn"}, fn >>,
                               <<{"var"}, var >>, <<Identifiers, bare >> >>, << Error, Break >>)
           body   == << WhileMatch(Visibility, <<>>), member >>
           i      == Opt({":"}, SepBy({","}, << Ident >>))
           u      == Until({"}"}, body)
           p      == << Node("CLASS_DECLARATION"), Ident, i, Consume({"{"}) >>
           q      == << PushBlock("frame"), u, Consume({"}"}), PopBlock >>
<1>1. Keeps(init, Marks) /\ Keeps(deinit, Marks) /\ Keeps(fn, Marks) /\ Keeps(var, Marks) /\ Keeps(FrameField, Marks)
  <2>1. Keeps(Method(Returning), Marks)
    BY RulesKept
    DEF Rules, Simple, Tuples, Branching, Looped, Called, Methods, Block, TypedParameter, Ident, Type, Expr
  <2>2. Keeps(deinit, Marks)
    BY RulesKept DEF Rules, Simple, Tuples, Branching, Called, Methods, Block
  <2>3. Keeps(FrameField, Marks)
    BY RulesKept DEF Rules, Simple, Tuples, Branching, Called, Methods, FrameField, Type, Expr
  <2> HIDE DEF Method, deinit
  <2>4. Keeps(<< Ident >>, Marks)
    BY RulesKept DEF Rules, Simple, Ident
  <2> QED
    BY <2>1, <2>2, <2>3, <2>4, RulesKept DEF Rules, Tuples
<1>2. Keeps(<< i >>, Plain)
  BY RulesKept DEF Rules, Simple, Tuples, Branching, Looped, Ident
<1>3. frameDeclaration = << Node("CLASS_DECLARATION"), Ident, i, Consume({"{"}), PushBlock("frame"), u,
                            Consume({"}"}), PopBlock, PopCst >>
  BY DEF frameDeclaration
<1> HIDE DEF init, deinit, fn, var
<1>4. Keeps(bare, InLoop)
  <2>1. Keeps(FrameField, InLoop)
    BY <1>1, KeepsFewer, Marked
  <2> QED
    BY <2>1, RulesKept, JumpsKept DEF Rules, Simple, Tuples, Branching
<1> HIDE DEF bare
<1>5. Keeps(body, InLoop)
  <2>1. Keeps(init, InLoop) /\ Keeps(deinit, InLoop) /\ Keeps(fn, InLoop) /\ Keeps(var, InLoop)
    BY <1>1, KeepsFewer, Marked
  <2>2. Keeps(<< member >>, InLoop)
    BY <1>4, <2>1, RulesKept, JumpsKept DEF Rules, Simple, Tuples, Branching, Chains, Chain5
  <2> HIDE DEF member
  <2> QED
    BY <2>2, RulesKept DEF Rules, Simple, Tuples, Looped
<1> HIDE DEF body, i
<1>6. /\ Keeps(<< u >>, Plain) /\ Keeps(<< Ident >>, Plain)
      /\ Keeps(<< Consume({"{"}) >>, Plain) /\ Keeps(<< Consume({"}"}) >>, Plain)
  BY <1>5, RulesKept DEF Rules, Simple, Looped, Ident
<1>7. Opens(p, Deeper)
  <2>1. Opens(<< Node("CLASS_DECLARATION") >>, Deeper) /\ Deeper \in [Plain -> Plain]
    BY Brackets DEF isContainerNode
  <2> HIDE DEF u
  <2> QED
    BY <1>2, <1>6, <2>1, OpensTuple
<1>8. Keeps(q, Plain)
  <2>1. Opens(<< PushBlock("frame") >>, Inner) /\ Closes(<< PopBlock >>, Inner) /\ Inner \in [Plain -> Plain]
    BY Brackets
  <2> HIDE DEF u
  <2> QED
    BY <1>6, <2>1, BracketTuple
<1>9. frameDeclaration = (p \o q) \o << PopCst >>
  <2> DEFINE c0 == Node("CLASS_DECLARATION")
             c1 == Ident
             c2 == Consume({"{"})
             c3 == PushBlock("frame")
             c4 == Consume({"}"})
             c5 == PopBlock
             c6 == PopCst
  <2>1. /\ p = << c0, c1, i, c2 >> /\ q = << c3, u, c4, c5 >>
        /\ frameDeclaration = << c0, c1, i, c2, c3, u, c4, c5, c6 >>
    BY <1>3
  <2> HIDE DEF c0, c1, c2, c3, c4, c5, c6, p, q, u
  <2>2. p \o q = << c0, c1, i, c2, c3, u, c4, c5 >>
    BY <2>1, TupleJoins
  <2>3. frameDeclaration = << c0, c1, i, c2, c3, u, c4, c5 >> \o << c6 >>
    BY <2>1
  <2>4. frameDeclaration = (p \o q) \o << c6 >>
    BY <2>2, <2>3, Zenon
  <2> QED
    BY <2>4 DEF c6
<1> HIDE DEF p, q
<1> QED
  <2>1. Opens(p \o q, Deeper)
    BY <1>7, <1>8, BracketRules DEF Bracketing
  <2> QED
    BY <1>9, <2>1, Brackets, BracketRules DEF Bracketing

\* in_concurrent_block is reset, and the node popped.
LEMMA ConcurrentBodyKept == Closes(ConcurrentBody, Deeper)
<1> DEFINE p == << Call("parseConcurrencyParams"), Consume({"{"}) >>
           q == << Concurrent(TRUE), Block, Concurrent(FALSE) >>
<1>1. Keeps(p, Plain) /\ Keeps(<< Block >>, Plain)
  BY RulesKept DEF Rules, Simple, Tuples, Called, Methods, Block
<1>2. Keeps(q, Plain)
  <2>1. /\ Opens(<< Concurrent(TRUE) >>, Parallel) /\ Closes(<< Concurrent(FALSE) >>, Parallel)
        /\ Parallel \in [Plain -> Plain]
    BY Brackets
  <2> QED
    BY <1>1, <2>1, BracketTuple
<1>3. ConcurrentBody = (p \o q) \o << PopCst >>
  <2> DEFINE c0 == Call("parseConcurrencyParams")
             c1 == Consume({"{"})
             c2 == Concurrent(TRUE)
             c3 == Block
             c4 == Concurrent(FALSE)
             c5 == PopCst
  <2>1. p = << c0, c1 >> /\ q = << c2, c3, c4 >> /\ ConcurrentBody = << c0, c1, c2, c3, c4, c5 >>
    BY DEF ConcurrentBody
  <2> HIDE DEF c0, c1, c2, c3, c4, c5, p, q
  <2>2. p \o q = << c0, c1, c2, c3, c4 >>
    BY <2>1, TupleJoins
  <2>3. ConcurrentBody = << c0, c1, c2, c3, c4 >> \o << c5 >>
    BY <2>1
  <2>4. ConcurrentBody = (p \o q) \o << c5 >>
    BY <2>2, <2>3, Zenon
  <2> QED
    BY <2>4 DEF c5
<1> HIDE DEF p, q
<1>4. Keeps(p \o q, Plain)
  BY <1>1, <1>2, KeepsConcat
<1> QED
  BY <1>3, <1>4, Brackets, BracketRules DEF Bracketing

\* Both kinds of concurrent statement.
LEMMA ParallelStatementsKept == Keeps(parallelStatement, Plain) /\ Keeps(concurrentStatement, Plain)
<1>1. Opens(<< Node("PARALLEL_STATEMENT") >>, Deeper) /\ Opens(<< Node("CONCURRENT_STATEMENT") >>, Deeper)
  BY Brackets DEF isContainerNode
<1> QED
  BY <1>1, ConcurrentBodyKept, BracketRules DEF Bracketing, parallelStatement, concurrentStatement

\* The block and the node of the match are popped, also after a break from the loop over its cases.
LEMMA MatchStatementKept == Keeps(matchStatement, Plain)
<1> DEFINE body == << Pattern, Opt({"where"}, << Expr >>), Consume({"=>"}),
                      Match({"{"}, << Block >>, << Expr >>),
                      Opt({","}, << Check({"}"}, << Break >>, <<>>) >>),
                      CaseKept >>
           u == Until({"}"}, body)
           p == << Node("MATCH_STATEMENT") >> \o Condition
           q == << Consume({"{"}), PushBlock("match"), u, PopBlock >>
           r == << Consume({"}"}), PopCst >>
           qr == << Consume({"{"}), PushBlock("match"), u, PopBlock, Consume({"}"}), PopCst >>
<1>1. Keeps(body, InLoop)
  BY RulesKept, JumpsKept
  DEF Rules, Simple, Tuples, Branching, Called, Methods, Pattern, Expr, Block
<1>2. matchStatement = p \o qr
  BY DEF matchStatement
<1> HIDE DEF body
<1>3. /\ Keeps(<< u >>, Plain) /\ Keeps(<< Consume({"{"}) >>, Plain) /\ Keeps(<< Consume({"}"}) >>, Plain)
  BY <1>1, RulesKept DEF Rules, Simple, Looped
<1> HIDE DEF u
<1>4. Keeps(q, Plain)
  <2>1. Opens(<< PushBlock("match") >>, Inner) /\ Closes(<< PopBlock >>, Inner) /\ Inner \in [Plain -> Plain]
    BY Brackets
  <2> QED
    BY <1>3, <2>1, BracketTuple
<1>5. Closes(r, Deeper)
  <2>1. Closes(<< PopCst >>, Deeper) /\ Deeper \in [Plain -> Plain]
    BY Brackets
  <2> QED
    BY <1>3, <2>1, ClosesTuple
<1>6. qr = q \o r
  <2> DEFINE c0 == Consume({"{"})
             c1 == PushBlock("match")
             c2 == PopBlock
             c3 == Consume({"}"})
             c4 == PopCst
  <2>1. q = << c0, c1, u, c2 >> /\ r = << c3, c4 >> /\ qr = << c0, c1, u, c2, c3, c4 >>
    OBVIOUS
  <2> HIDE DEF c0, c1, c2, c3, c4, q, r, qr
  <2> QED
    BY <2>1
<1>7. Opens(p, Deeper)
  <2>1. Opens(<< Node("MATCH_STATEMENT") >>, Deeper)
    BY Brackets DEF isContainerNode
  <2> QED
    BY <2>1, ConditionKept, BracketRules DEF Bracketing
<1> HIDE DEF p, q, r, qr
<1>8. Closes(qr, Deeper)
  BY <1>4, <1>5, <1>6, BracketRules DEF Bracketing
<1> QED
  BY <1>2, <1>7, <1>8, BracketRules DEF Bracketing

\* A method with a place that its returns go to.
Returning(a) == [a EXCEPT !.holds = @ \cup {"end"}]

\* A method with returns, and the place they go to.
LEMMA KeepsReturning ==
    ASSUME NEW p, Keeps(p, InMethod)
    PROVE  Keeps(p \o << End >>, Marks)
<1>1. ASSUME NEW a \in Marks PROVE Ok(p \o << End >>, a, a)
  <2> DEFINE b == Returning(a)
  <2>1. b \in Marks /\ b \in InMethod /\ Follows(a, b) /\ Same(b, a) /\ ("loop" \in b.holds => "loop" \in a.holds)
    BY DEF Returning, InMethod, Claims, Marks, Follows, Same
  <2> HIDE DEF b
  <2>2. Ok(p, a, b)
    BY <2>1, FollowsItself, OkFollows DEF Keeps
  <2>3. OpOk(End, b, a, {})
    BY <2>1 DEF OpOk, Leaf, IsLoop, End
  <2>4. Ok(<< End >>, b, a)
    BY <2>1, <2>3, ClosedNothing, OkOne
  <2> QED
    BY <2>2, <2>4, OkConcat
<1>2. IsSeq(p \o << End >>)
  BY IsSeqTuples, IsSeqConcat DEF Keeps
<1> QED
  BY <1>1, <1>2 DEF Keeps

\* A bad name returns from the middle of the method.
LEMMA ImportStatementKept == Keeps(importStatement, Marks)
<1> DEFINE Name == Switch(<< <<Identifiers \cup {"module"}, <<>> >> >>, << Error, Return >>)
           w == WhileMatch({"."}, << Name >>)
           s == Switch(<< <<Identifiers \cup {"module"}, << w >> >>,
                  <<{"("}, << Consume({"string"}), Consume({")"}) >> >> >>,
               << Error, Return >>)
           alias == Opt({"as"}, << Ident >>)
           l  == SepBy({","}, << Name >>)
           o  == Opt({"show", "hide"}, l)
           e  == Opt({";"}, <<>>)
           p  == << s, alias, o, e >>
<1>1. Keeps(<< Error, Return >>, InMethod)
  BY RulesKept, JumpsKept DEF Rules, Simple, Tuples
<1>2. Keeps(<< Name >>, InMethod)
  BY <1>1, RulesKept DEF Rules, Simple, Branching, Chains, Chain1
<1> HIDE DEF Name
<1>3. Keeps(<< w >>, InMethod) /\ Keeps(l, InMethod)
  <2>1. \A K : IsLoop(WhileMatch(K, << Name >>)) /\ WhileMatch(K, << Name >>).body = << Name >>
    BY DEF WhileMatch, IsLoop
  <2>2. \A K : Keeps(<< WhileMatch(K, << Name >>) >>, InMethod)
    BY <1>2, <2>1, KeepsRounds, Marked
  <2> QED
    BY <1>2, <2>2, KeepsConcat DEF SepBy
<1> HIDE DEF w, l
<1>4. Keeps(<< s >>, InMethod)
  BY <1>1, <1>3, RulesKept DEF Rules, Simple, Tuples, Branching, Chains, Chain2
<1>5. Keeps(<< alias >>, InMethod) /\ Keeps(<< o >>, InMethod) /\ Keeps(<< e >>, InMethod)
  BY <1>3, RulesKept DEF Rules, Simple, Branching, Ident
<1>6. importStatement = << s, alias, o, e, End >>
  BY DEF importStatement, s, w, l, Name
<1> HIDE DEF s, alias, o, e
<1>7. Keeps(p, InMethod)
  BY <1>4, <1>5, RulesKept DEF Rules, Tuples
<1>8. importStatement = p \o << End >>
  <2> DEFINE c == End
  <2>1. importStatement = << s, alias, o, e, c >> /\ p = << s, alias, o, e >>
    BY <1>6
  <2> HIDE DEF c, p
  <2>2. << s, alias, o, e, c >> = << s, alias, o, e >> \o << c >>
    BY TupleJoins
  <2>3. importStatement = p \o << c >>
    BY <2>1, <2>2, Zenon
  <2> QED
    BY <2>3 DEF c
<1> HIDE DEF p
<1> QED
  BY <1>7, <1>8, KeepsReturning

\* A bad field of a structural type returns from the loop over the fields.
LEMMA StructFieldsKept == Keeps(StructFields(Type, Return), InMethod)
<1> DEFINE more == << Opt(Identifiers, <<>>),
                      Match({","}, << Continue >>, << Check({"}"}, << Break >>, << Error >>) >>) >>
           body == << Opt({"..."}, more),
          Match(Identifiers \cup {"string"}, <<>>, << Error, Return >>),
          Consume({":"}), Type,
          Check({"}"}, <<>>, << Opt({","}, <<>>) >>) >>
           u == Until({"}"}, body)
<1>1. /\ Keeps(<< Break >>, LoopOfMethod) /\ Keeps(<< Continue >>, LoopOfMethod)
      /\ Keeps(<< Return >>, LoopOfMethod)
  BY JumpsKept, KeepsFewer, Marked
<1>2. Keeps(more, LoopOfMethod)
  BY <1>1, RulesKept DEF Rules, Simple, Tuples, Branching
<1>3. Keeps(<< Error, Return >>, LoopOfMethod)
  BY <1>1, RulesKept DEF Rules, Simple, Tuples
<1> HIDE DEF more
<1>4. Keeps(body, LoopOfMethod)
  BY <1>2, <1>3, RulesKept DEF Rules, Simple, Tuples, Branching, Called, Methods, Type
<1>5. StructFields(Type, Return) = << u, Consume({"}"}) >>
  BY DEF StructFields, more
<1> HIDE DEF body
<1>6. Keeps(<< u >>, InMethod)
  <2>1. IsLoop(u) /\ u.body = body
    BY DEF Until, IsLoop
  <2> HIDE DEF u
  <2> QED
    BY <1>4, <2>1, KeepsLoopOfMethod
<1> HIDE DEF u
<1> QED
  BY <1>5, <1>6, RulesKept DEF Rules, Simple, Tuples

\* The type of a declaration, with such fields.
LEMMA TypeDeclarationKept == Keeps(typeDeclaration, Marks)
<1> DEFINE fields == StructFields(Type, Return)
           brace == << Ahead(<< PrimitiveType \cup KnownTypeName, {":"}, TypeStart \cup {"[", "{"} >>,
                             << Advance, Consume({":"}), Type, Consume({"}"}) >>,
                             fields) >>
           list == << Check({"]"}, <<>>, << Type >>), Consume({"]"}) >>
           alts == SepBy({"|"}, << Type >>)
           ands == SepBy({"and"}, << Type >>)
           plain == << Check(TypeStart,
                 << Type, Switch(<< <<{"|"}, alts >>,
                                    <<{"and"}, ands >>,
                                    <<{"where"}, << Expr >> >> >>, <<>>) >>,
                 << Match({"nil"}, <<>>, << Error >>) >>) >>
           s == Switch(<< <<{"["}, list >>, <<{"{"}, brace >> >>, plain)
           c == Consume({"="})
           d == Consume({";"})
           p == << Ident, c, s, d >>
<1>1. Keeps(list, InMethod)
  BY RulesKept DEF Rules, Simple, Tuples, Branching, Called, Methods, Type
<1>2. Keeps(alts, InMethod) /\ Keeps(ands, InMethod)
  BY RulesKept DEF Rules, Looped, Called, Methods, Type
<1>3. typeDeclaration = << Ident, c, s, d, End >>
  BY DEF typeDeclaration
<1> HIDE DEF fields, list, alts, ands
<1>4. Keeps(brace, InMethod)
  BY StructFieldsKept, RulesKept DEF Rules, Simple, Tuples, Branching, Called, Methods, Type, fields
<1>5. Keeps(plain, InMethod)
  BY <1>2, RulesKept
  DEF Rules, Simple, Tuples, Branching, Chains, Chain3, Called, Methods, Type, Expr
<1> HIDE DEF brace, plain
<1>6. Keeps(<< s >>, InMethod)
  BY <1>1, <1>4, <1>5, RulesKept DEF Rules, Branching, Chains, Chain2
<1>7. Keeps(<< Ident >>, InMethod) /\ Keeps(<< c >>, InMethod) /\ Keeps(<< d >>, InMethod)
  BY RulesKept DEF Rules, Simple, Ident
<1> HIDE DEF s, c, d
<1>8. Keeps(p, InMethod)
  BY <1>6, <1>7, RulesKept DEF Rules, Tuples
<1>9. typeDeclaration = p \o << End >>
  <2> DEFINE b == Ident
             e == End
  <2>1. typeDeclaration = << b, c, s, d, e >> /\ p = << b, c, s, d >>
    BY <1>3
  <2> HIDE DEF b, e, p
  <2>2. << b, c, s, d, e >> = << b, c, s, d >> \o << e >>
    OBVIOUS
  <2>3. typeDeclaration = p \o << e >>
    BY <2>1, <2>2, Zenon
  <2> QED
    BY <2>3 DEF e
<1> HIDE DEF p
<1> QED
  BY <1>8, <1>9, KeepsReturning

\* Every method keeps what it is called with.
LEMMA ProceduresKept == \A m \in Methods : Keeps(Procedures[m], Plain)
<1>1. Keeps(Procedures["declaration"], Plain)
  BY DeclarationKept, KeepsFewer, Marked DEF Procedures
<1>2. Keeps(Procedures["varDeclaration"], Plain)
  BY VarDeclarationKept, KeepsFewer, Marked DEF Procedures
<1>3. Keeps(Procedures["statement"], Plain)
  BY StatementKept, KeepsFewer, Marked DEF Procedures
<1>4. Keeps(Procedures["expressionStatement"], Plain)
  BY ExpressionStatementKept, KeepsFewer, Marked DEF Procedures
<1>5. Keeps(Procedures["printStatement"], Plain)
  BY PrintStatementKept, KeepsFewer, Marked DEF Procedures
<1>6. Keeps(Procedures["ifStatement"], Plain)
  BY IfStatementKept DEF Procedures
<1>7. Keeps(Procedures["block"], Plain)
  BY BlockKept DEF Procedures
<1>8. Keeps(Procedures["forStatement"], Plain)
  BY ForStatementKept DEF Procedures
<1>9. Keeps(Procedures["whileStatement"], Plain)
  BY WhileStatementKept DEF Procedures
<1>10. Keeps(Procedures["iterStatement"], Plain)
  BY IterStatementKept DEF Procedures
<1>11. Keeps(Procedures["function"], Plain)
  BY FunctionKept DEF Procedures
<1>12. Keeps(Procedures["returnStatement"], Plain)
  BY ReturnStatementKept, KeepsFewer, Marked DEF Procedures
<1>13. Keeps(Procedures["parseConcurrencyParams"], Plain)
  BY ParseConcurrencyParamsKept, KeepsFewer, Marked DEF Procedures
<1>14. Keeps(Procedures["frameDeclaration"], Plain)
  BY FrameDeclarationKept DEF Procedures
<1>15. Keeps(Procedures["parallelStatement"], Plain)
  BY ParallelStatementsKept DEF Procedures
<1>16. Keeps(Procedures["concurrentStatement"], Plain)
  BY ParallelStatementsKept DEF Procedures
<1>17. Keeps(Procedures["taskStatement"], Plain)
  BY TaskStatementKept, KeepsFewer, Marked DEF Procedures
<1>18. Keeps(Procedures["workerStatement"], Plain)
  BY WorkerStatementKept, KeepsFewer, Marked DEF Procedures
<1>19. Keeps(Procedures["importStatement"], Plain)
  BY ImportStatementKept, KeepsFewer, Marked DEF Procedures
<1>20. Keeps(Procedures["enumDeclaration"], Plain)
  BY EnumDeclarationKept, KeepsFewer, Marked DEF Procedures
<1>21. Keeps(Procedures["matchStatement"], Plain)
  BY MatchStatementKept DEF Procedures
<1>22. Keeps(Procedures["traitDeclaration"], Plain)
  BY TraitDeclarationKept, KeepsFewer, Marked DEF Procedures
<1>23. Keeps(Procedures["interfaceDeclaration"], Plain)
  BY InterfaceDeclarationKept, KeepsFewer, Marked DEF Procedures
<1>24. Keeps(Procedures["moduleDeclaration"], Plain)
  BY ModuleDeclarationKept, KeepsFewer, Marked DEF Procedures
<1>25. Keeps(Procedures["contractStatement"], Plain)
  BY ContractStatementKept, KeepsFewer, Marked DEF Procedures
<1>26. Keeps(Procedures["typeDeclaration"], Plain)
  BY TypeDeclarationKept, KeepsFewer, Marked DEF Procedures
<1>27. Keeps(Procedures["expression"], Plain)
  BY AssignmentKept, KeepsFewer, Marked DEF Procedures
<1>28. Keeps(Procedures["assignment"], Plain)
  BY AssignmentKept, KeepsFewer, Marked DEF Procedures
<1>29. Keeps(Procedures["logicalOr"], Plain)
  BY LogicalOrKept, KeepsFewer, Marked DEF Procedures
<1>30. Keeps(Procedures["logicalAnd"], Plain)
  BY LogicalAndKept, KeepsFewer, Marked DEF Procedures
<1>31. Keeps(Procedures["equality"], Plain)
  BY EqualityKept, KeepsFewer, Marked DEF Procedures
<1>32. Keeps(Procedures["comparison"], Plain)
  BY ComparisonKept, KeepsFewer, Marked DEF Procedures
<1>33. Keeps(Procedures["term"], Plain)
  BY TermKept, KeepsFewer, Marked DEF Procedures
<1>34. Keeps(Procedures["factor"], Plain)
  BY FactorKept, KeepsFewer, Marked DEF Procedures
<1>35. Keeps(Procedures["power"], Plain)
  BY PowerKept, KeepsFewer, Marked DEF Procedures
<1>36. Keeps(Procedures["unary"], Plain)
  BY UnaryKept, KeepsFewer, Marked DEF Procedures
<1>37. Keeps(Procedures["call"], Plain)
  BY CallKept, KeepsFewer, Marked DEF Procedures
<1>38. Keeps(Procedures["finishCall"], Plain)
  BY FinishCallKept, KeepsFewer, Marked DEF Procedures
<1>39. Keeps(Procedures["primary"], Plain)
  BY PrimaryKept, KeepsFewer, Marked DEF Procedures
<1>40. Keeps(Procedures["lambdaExpression"], Plain)
  BY LambdaExpressionKept, KeepsFewer, Marked DEF Procedures
<1>41. Keeps(Procedures["parseTypeAnnotation"], Plain)
  BY ParseTypeAnnotationKept, KeepsFewer, Marked DEF Procedures
<1>42. Keeps(Procedures["parseBasicType"], Plain)
  BY ParseBasicTypeKept, KeepsFewer, Marked DEF Procedures
<1>43. Keeps(Procedures["parseBraceType"], Plain)
  BY ParseBraceTypeKept, KeepsFewer, Marked DEF Procedures
<1>44. Keeps(Procedures["parseFunctionTypeAnnotation"], Plain)
  BY ParseFunctionTypeAnnotationKept, KeepsFewer, Marked DEF Procedures
<1>45. Keeps(Procedures["parseLegacyFunctionType"], Plain)
  BY ParseLegacyFunctionTypeKept, KeepsFewer, Marked DEF Procedures
<1>46. Keeps(Procedures["parseFunctionParameter"], Plain)
  BY ParseFunctionParameterKept, KeepsFewer, Marked DEF Procedures
<1>47. Keeps(Procedures["parsePattern"], Plain)
  BY ParsePatternKept, KeepsFewer, Marked DEF Procedures
<1>48. Keeps(Procedures["parseBindingPattern"], Plain)
  BY ParseBindingPatternKept, KeepsFewer, Marked DEF Procedures
<1>49. Keeps(Procedures["parseListPattern"], Plain)
  BY ParseListPatternKept, KeepsFewer, Marked DEF Procedures
<1>50. Keeps(Procedures["parseDictPattern"], Plain)
  BY ParseDictPatternKept, KeepsFewer, Marked DEF Procedures
<1>51. Keeps(Procedures["parseErrorTypePattern"], Plain)
  BY ParseErrorTypePatternKept, KeepsFewer, Marked DEF Procedures
<1> QED
  BY <1>1, <1>2, <1>3, <1>4, <1>5, <1>6, <1>7, <1>8, <1>9, <1>10, <1>11, <1>12, <1>13, <1>14, <1>15,
  <1>16, <1>17, <1>18, <1>19, <1>20, <1>21, <1>22, <1>23, <1>24, <1>25, <1>26, <1>27, <1>28, <1>29,
  <1>30, <1>31, <1>32, <1>33, <1>34, <1>35, <1>36, <1>37, <1>38, <1>39, <1>40, <1>41, <1>42, <1>43,
  <1>44, <1>45, <1>46, <1>47, <1>48, <1>49, <1>50, <1>51
  DEF Methods

------------------------------------------------------------------------------
\* The program in front of the parser, and the contexts it has open.

\* Between two declarations of the program: nothing is open.
Ground == [block |-> 0, cst |-> 0, holds |-> {}]

\* The contexts bs, cs, ic, cm are what the mark a says of them.
Fits(a, bs, cs, ic, cm) ==
  /\ a.block = Len(bs)
  /\ ic => "concurrent" \in a.holds
  /\ cm => a.cst + 2 <= Len(cs)

Rooted(cs, cm) == cm => Len(cs) >= 2 /\ cs[1] = Dead /\ cs[2] = Root

Framed(bs, cs, cm) == IsSeq(bs) /\ IsSeq(cs) /\ Rooted(cs, cm)

\* The loop over the declarations is at the bottom.
Bottomed(p) == IsSeq(p) /\ (p # <<>> => IsLoop(p[Len(p)]))

Well(p, bs, cs, ic, cm) ==
  /\ Framed(bs, cs, cm)
  /\ Bottomed(p)
  /\ p # <<>> => \E a \in Marks : Ok(p, a, Ground) /\ Fits(a, bs, cs, ic, cm)

ParserInv == Well(todo, blockStack, cstStack, in_concurrent_block, cstMode)

\* M marks the places of p.
Marking(p, M, c, P) ==
  /\ IsSeq(p) /\ Closed(P) /\ c \in Marks
  /\ M \in [1..(Len(p) + 1) -> Marks]
  /\ \A i \in 1..Len(p) : OpOk(p[i], M[i], M[i + 1], P)
  /\ Follows(M[Len(p) + 1], c)

\* o is to be done next, at b, and r after it, at d.
Stands(o, r, b, d, P) ==
  /\ b \in Marks /\ d \in Marks /\ Closed(P) /\ OpOk(o, b, d, P)
  /\ Ok(r, d, Ground) /\ Bottomed(r) /\ (r = <<>> => IsLoop(o))

\* What ends the search for the place a break or a return goes to.
Stops(o, claim) == (claim = "loop" /\ IsLoop(o)) \/ (claim = "end" /\ o.op = "end")

\* The least of a set of numbers.
LEMMA MinLeast ==
    ASSUME NEW S \in SUBSET Nat, S # {}
    PROVE  Min(S) \in S /\ \A y \in S : Min(S) <= y
<1>1. \E x \in S : \A y \in S : x <= y
  BY LeastElement
<1> QED
  BY <1>1 DEF Min

\* Ground is a mark.
LEMMA GroundMark == Ground \in Marks /\ Ground \in Plain
  BY DEF Ground, Marks, Plain

\* A judgement gives marks for the places of its program.
LEMMA OkMarking ==
    ASSUME NEW p, NEW a, NEW c, Ok(p, a, c)
    PROVE  \E P, M : Marking(p, M, c, P) /\ Follows(a, M[1])
<1>1. PICK P : Closed(P) /\ Run(p, a, c, P)
  BY DEF Ok
<1> QED
  BY <1>1 DEF Ok, Run, Marking

\* What is left of a program from one place on.
LEMMA SubSeqFrom ==
    ASSUME NEW p, IsSeq(p), NEW i \in 1..(Len(p) + 1)
    PROVE  /\ IsSeq(SubSeq(p, i, Len(p))) /\ Len(SubSeq(p, i, Len(p))) = Len(p) - i + 1
           /\ \A k \in 1..(Len(p) - i + 1) : SubSeq(p, i, Len(p))[k] = p[i + k - 1]
<1>1. PICK S : p \in Seq(S)
  BY DEF IsSeq
<1>2. \A k \in i..Len(p) : p[k] \in S
  BY <1>1
<1>3. SubSeq(p, i, Len(p)) \in Seq(S)
  BY <1>1, <1>2
<1>4. /\ Len(SubSeq(p, i, Len(p))) = Len(p) - i + 1
      /\ \A k \in 1..(Len(p) - i + 1) : SubSeq(p, i, Len(p))[k] = p[i + k - 1]
  BY <1>1
<1> QED
  BY <1>3, <1>4 DEF IsSeq

\* What is left of a program keeps its marks.
LEMMA OkFrom ==
    ASSUME NEW p, NEW M, NEW c, NEW P, Marking(p, M, c, P), NEW i \in 1..(Len(p) + 1)
    PROVE  Ok(SubSeq(p, i, Len(p)), M[i], c)
<1> DEFINE q == SubSeq(p, i, Len(p))
           n == Len(p)
           N == [k \in 1..(n - i + 2) |-> M[i + k - 1]]
<1>1. n \in Nat /\ IsSeq(p)
  BY IsSeqFacts DEF Marking
<1>2. IsSeq(q) /\ Len(q) = n - i + 1 /\ \A k \in 1..(n - i + 1) : q[k] = p[i + k - 1]
  BY <1>1, SubSeqFrom
<1> HIDE DEF q
<1>3. /\ M \in [1..(n + 1) -> Marks] /\ Follows(M[n + 1], c) /\ Closed(P) /\ c \in Marks
      /\ \A j \in 1..n : OpOk(p[j], M[j], M[j + 1], P)
  BY DEF Marking
<1> HIDE DEF n
<1>4. N \in [1..(Len(q) + 1) -> Marks] /\ N[1] = M[i] /\ N[Len(q) + 1] = M[n + 1]
  <2>1. Len(q) + 1 = n - i + 2 /\ i \in 1..(n + 1)
    BY <1>1, <1>2 DEF n
  <2>2. \A k \in 1..(n - i + 2) : i + k - 1 \in 1..(n + 1)
    BY <1>1, <2>1
  <2>3. 1 \in 1..(n - i + 2) /\ i + 1 - 1 = i /\ n - i + 2 \in 1..(n - i + 2) /\ i + (n - i + 2) - 1 = n + 1
    BY <1>1, <2>1
  <2> QED
    BY <1>3, <2>1, <2>2, <2>3
<1>5. ASSUME NEW k \in 1..Len(q) PROVE OpOk(q[k], N[k], N[k + 1], P)
  <2>1. /\ i + k - 1 \in 1..n /\ k \in 1..(n - i + 1) /\ k \in 1..(n - i + 2) /\ k + 1 \in 1..(n - i + 2)
        /\ i + (k + 1) - 1 = (i + k - 1) + 1
    BY <1>1, <1>2 DEF n
  <2>2. N[k] = M[i + k - 1] /\ N[k + 1] = M[(i + k - 1) + 1]
    BY <2>1
  <2> QED
    BY <1>2, <1>3, <2>1, <2>2
<1> HIDE DEF N
<1>6. M[i] \in Marks
  BY <1>1, <1>3 DEF n
<1>7. Run(q, M[i], c, P)
  BY <1>2, <1>3, <1>4, <1>5, <1>6, FollowsItself DEF Run
<1> QED
  BY <1>3, <1>6, <1>7 DEF Ok, q

\* The operation in front and the rest of the program.
LEMMA OkTail ==
    ASSUME NEW p, NEW M, NEW c, NEW P, Marking(p, M, c, P), p # <<>>
    PROVE  /\ M[1] \in Marks /\ M[2] \in Marks
           /\ OpOk(Head(p), M[1], M[2], P) /\ Ok(Tail(p), M[2], c)
<1>1. IsSeq(p) /\ Len(p) \in Nat /\ Len(p) >= 1 /\ p[1] = Head(p)
  BY IsSeqFacts DEF Marking
<1>2. M \in [1..(Len(p) + 1) -> Marks] /\ \A i \in 1..Len(p) : OpOk(p[i], M[i], M[i + 1], P)
  BY DEF Marking
<1>3. 1 \in 1..Len(p) /\ 1 \in 1..(Len(p) + 1) /\ 2 \in 1..(Len(p) + 1) /\ 1 + 1 = 2
  BY <1>1
<1>4. Tail(p) = SubSeq(p, 2, Len(p))
  <2>1. PICK S : p \in Seq(S)
    BY <1>1 DEF IsSeq
  <2>2. \A k \in 2..Len(p) : p[k] \in S
    BY <2>1
  <2>3. SubSeq(p, 2, Len(p)) \in Seq(S) /\ Tail(p) \in Seq(S)
    BY <1>1, <2>1, <2>2
  <2>4. Len(Tail(p)) = Len(SubSeq(p, 2, Len(p)))
    <3>1. Len(SubSeq(p, 2, Len(p))) = Len(p) - 2 + 1
      BY <1>1, <1>3, SubSeqFrom
    <3> QED
      BY <1>1, <2>1, <3>1
  <2>5. \A k \in 1..Len(Tail(p)) : Tail(p)[k] = SubSeq(p, 2, Len(p))[k]
    BY <1>1, <2>1
  <2> QED
    BY <2>3, <2>4, <2>5, SeqEqual
<1>5. Ok(SubSeq(p, 2, Len(p)), M[2], c)
  BY <1>3, OkFrom
<1> QED
  BY <1>1, <1>2, <1>3, <1>4, <1>5

\* A mark that claims a place to go to has it ahead, and nothing is opened or closed before it.
LEMMA StopAhead ==
    ASSUME NEW p, NEW M, NEW c, NEW P, Marking(p, M, c, P),
           NEW claim \in {"loop", "end"}, claim \in M[1].holds, claim \notin c.holds
    PROVE  \E i \in 1..Len(p) : /\ Stops(p[i], claim) /\ Same(M[1], M[i])
                                /\ \A k \in 1..Len(p) : Stops(p[k], claim) => i <= k
<1> DEFINE n == Len(p)
           Held(k) == Same(M[1], M[k]) /\ claim \in M[k].holds
<1>1. n \in Nat /\ IsSeq(p)
  BY IsSeqFacts DEF Marking
<1>2. /\ M \in [1..(n + 1) -> Marks] /\ Follows(M[n + 1], c) /\ c \in Marks
      /\ \A j \in 1..n : OpOk(p[j], M[j], M[j + 1], P)
  BY DEF Marking
<1> HIDE DEF n
<1>3. Held(1)
  <2>1. M[1] \in Marks
    BY <1>1, <1>2
  <2> QED
    BY <2>1, FollowsItself
<1>4. ASSUME NEW j \in 1..n, Held(j), ~Stops(p[j], claim) PROVE Held(j + 1)
  <2>1. M[1] \in Marks /\ M[j] \in Marks /\ M[j + 1] \in Marks
    BY <1>1, <1>2
  <2>2. OpOk(p[j], M[j], M[j + 1], P)
    BY <1>2
  <2>3. Same(M[j], M[j + 1]) /\ claim \in M[j + 1].holds
    BY <1>4, <2>2 DEF OpOk, Stops
  <2> QED
    BY <1>4, <2>1, <2>3, SameTransitive
<1> DEFINE Reached(j) == \A k \in 1..j : k < j => ~Stops(p[k], claim)
<1>5. \A j \in 1..(n + 1) : Reached(j) => Held(j)
  <2> DEFINE T == {j \in 1..(n + 1) : Reached(j) /\ ~Held(j)}
  <2> SUFFICES ASSUME T # {} PROVE FALSE
    OBVIOUS
  <2>1. T \in SUBSET Nat
    BY <1>1
  <2>2. PICK j \in T : \A k \in T : j <= k
    BY <2>1, LeastElement
  <2>3. j \in 1..(n + 1) /\ Reached(j) /\ ~Held(j)
    BY <2>2
  <2> HIDE DEF Held
  <2>4. j # 1 /\ j - 1 \in 1..(n + 1) /\ j - 1 \in 1..n /\ (j - 1) + 1 = j /\ j - 1 < j /\ j - 1 \in 1..j
    BY <1>1, <1>3, <2>3
  <2>5. ~Stops(p[j - 1], claim) /\ Reached(j - 1)
    BY <1>1, <2>3, <2>4
  <2> HIDE DEF Reached
  <2>6. Held(j - 1)
    <3>1. j - 1 \notin T
      BY <1>1, <2>2, <2>4
    <3> QED
      BY <2>4, <2>5, <3>1
  <2>7. Held((j - 1) + 1)
    BY <1>4, <2>4, <2>5, <2>6
  <2> QED
    BY <2>3, <2>4, <2>7
<1> DEFINE U == {k \in 1..n : Stops(p[k], claim)}
<1>6. U # {}
  <2> SUFFICES ASSUME U = {} PROVE FALSE
    OBVIOUS
  <2>1. Reached(n + 1) /\ n + 1 \in 1..(n + 1)
    BY <1>1
  <2>2. Held(n + 1)
    BY <1>5, <2>1
  <2> QED
    BY <1>2, <2>2 DEF Follows
<1>7. U \in SUBSET Nat
  BY <1>1
<1>8. PICK i \in U : \A k \in U : i <= k
  BY <1>6, <1>7, LeastElement
<1>9. i \in 1..n /\ i \in 1..(n + 1) /\ Stops(p[i], claim) /\ Reached(i)
      /\ \A k \in 1..n : Stops(p[k], claim) => i <= k
  BY <1>1, <1>8
<1>10. Held(i)
  BY <1>5, <1>9
<1> QED
  BY <1>9, <1>10 DEF n

\* Contexts that fit a mark fit what follows it and where it may jump.
LEMMA FitsSame ==
    ASSUME NEW a \in Marks, NEW b \in Marks, NEW bs, NEW cs, NEW ic, NEW cm, IsSeq(cs),
           Fits(a, bs, cs, ic, cm), Same(a, b) \/ Follows(a, b)
    PROVE  Fits(b, bs, cs, ic, cm)
<1>1. Same(a, b)
  BY FollowsSame
<1>2. Len(cs) \in Nat /\ a.cst \in Nat /\ b.cst \in Nat
  BY IsSeqFacts DEF Marks
<1> QED
  BY <1>1, <1>2 DEF Fits, Same

\* The bottom stays where it is.
LEMMA BottomedConcat ==
    ASSUME NEW q, NEW r, IsSeq(q), Bottomed(r), r = <<>> => Bottomed(q)
    PROVE  Bottomed(q \o r)
<1>1. IsSeq(r) /\ IsSeq(q \o r) /\ Len(q \o r) = Len(q) + Len(r) /\ Len(q) \in Nat /\ Len(r) \in Nat
      /\ \A i \in 1..(Len(q) + Len(r)) : (q \o r)[i] = IF i <= Len(q) THEN q[i] ELSE r[i - Len(q)]
  BY IsSeqConcat DEF Bottomed
<1>2. CASE r # <<>>
  <2>1. Len(r) >= 1 /\ IsLoop(r[Len(r)])
    BY <1>1, <1>2, IsSeqFacts DEF Bottomed
  <2>2. (q \o r)[Len(q) + Len(r)] = r[Len(r)]
    <3>1. Len(q) + Len(r) \in 1..(Len(q) + Len(r)) /\ ~(Len(q) + Len(r) <= Len(q))
          /\ Len(q) + Len(r) - Len(q) = Len(r)
      BY <1>1, <2>1
    <3> QED
      BY <1>1, <3>1
  <2> QED
    BY <1>1, <2>1, <2>2 DEF Bottomed
<1>3. CASE r = <<>>
  <2>1. q \o r = q
    <3>1. PICK S : q \in Seq(S)
      BY DEF IsSeq
    <3> QED
      BY <1>3, <3>1
  <2> QED
    BY <1>3, <2>1
<1> QED
  BY <1>2, <1>3

\* The rest of the program is empty only after the loop at the bottom.
LEMMA BottomedTail ==
    ASSUME NEW p, Bottomed(p), p # <<>>
    PROVE  Bottomed(Tail(p)) /\ (Tail(p) = <<>> => IsLoop(Head(p)))
<1>1. /\ Len(p) \in Nat /\ IsSeq(Tail(p)) /\ Len(p) >= 1 /\ p[1] = Head(p) /\ Len(Tail(p)) = Len(p) - 1
      /\ \A i \in 1..(Len(p) - 1) : Tail(p)[i] = p[i + 1]
  BY IsSeqFacts DEF Bottomed
<1>2. CASE Tail(p) = <<>>
  <2>1. Len(p) = 1
    <3>1. Len(Tail(p)) = 0
      BY <1>2, IsSeqTuples, Zenon
    <3>2. Len(p) - 1 = 0 /\ Len(p) \in Nat
      BY <1>1, <3>1
    <3> QED
      BY <3>2
  <2> QED
    BY <1>1, <1>2, <2>1 DEF Bottomed
<1>3. CASE Tail(p) # <<>>
  <2>1. Len(Tail(p)) >= 1
    BY <1>1, <1>3, IsSeqFacts
  <2>2. Tail(p)[Len(p) - 1] = p[(Len(p) - 1) + 1]
    BY <1>1, <2>1
  <2>3. (Len(p) - 1) + 1 = Len(p)
    BY <1>1
  <2> QED
    BY <1>1, <1>3, <2>2, <2>3 DEF Bottomed
<1> QED
  BY <1>2, <1>3

\* What is left after a program went on to its i-th operation.
LEMMA BottomedFrom ==
    ASSUME NEW p, Bottomed(p), NEW i \in 1..(Len(p) + 1)
    PROVE  Bottomed(SubSeq(p, i, Len(p)))
<1> DEFINE q == SubSeq(p, i, Len(p))
<1>1. /\ IsSeq(q) /\ Len(q) = Len(p) - i + 1 /\ Len(p) \in Nat
      /\ \A k \in 1..(Len(p) - i + 1) : q[k] = p[i + k - 1]
  BY SubSeqFrom, IsSeqFacts DEF Bottomed
<1> HIDE DEF q
<1>2. ASSUME q # <<>> PROVE IsLoop(q[Len(q)])
  <2>1. Len(q) >= 1
    BY <1>1, <1>2, IsSeqFacts
  <2>2. Len(q) \in 1..(Len(p) - i + 1) /\ i + Len(q) - 1 = Len(p) /\ Len(p) >= 1
    BY <1>1, <2>1
  <2>3. q[Len(q)] = p[Len(p)] /\ p # <<>>
    BY <1>1, <2>2, IsSeqTuples
  <2> QED
    BY <2>3 DEF Bottomed
<1> QED
  BY <1>1, <1>2 DEF Bottomed, q

\* A mark as a method sees it that is called there: what its caller claims is out of reach.
Calling(b) == [b EXCEPT !.holds = @ \cap {"concurrent"}]

\* The mark of a method that is called at b, and going on at b after it.
LEMMA CallingFacts ==
    ASSUME NEW b \in Marks
    PROVE  Calling(b) \in Plain /\ Calling(b) \in Marks /\ Same(b, Calling(b)) /\ Follows(Calling(b), b)
  BY DEF Calling, Plain, Marks, Same, Follows

\* A call in front is entered.
LEMMA EnteredWell ==
    ASSUME ParserInv, todo # <<>>
    PROVE  entered # <<>> /\ Well(entered, blockStack, cstStack, in_concurrent_block, cstMode)
<1>1. /\ Framed(blockStack, cstStack, cstMode) /\ Bottomed(todo) /\ IsSeq(todo)
      /\ \E a \in Marks : Ok(todo, a, Ground) /\ Fits(a, blockStack, cstStack, in_concurrent_block, cstMode)
  BY DEF ParserInv, Well, Bottomed
<1>2. CASE ~(Head(todo).op = "call")
  BY <1>2 DEF entered, ParserInv
<1>3. CASE Head(todo).op = "call"
  <2> DEFINE p == Procedures[Head(todo).m]
             r == Tail(todo)
  <2>1. entered = p \o r
    BY <1>3 DEF entered
  <2>2. PICK a \in Marks : Ok(todo, a, Ground) /\ Fits(a, blockStack, cstStack, in_concurrent_block, cstMode)
    BY <1>1
  <2>3. PICK P, M : Marking(todo, M, Ground, P) /\ Follows(a, M[1])
    BY <2>2, OkMarking
  <2> DEFINE b == M[1]
             d == M[2]
             e == Calling(b)
  <2>4. b \in Marks /\ d \in Marks /\ OpOk(Head(todo), b, d, P) /\ Ok(r, d, Ground)
    BY <2>3, OkTail
  <2>5. Fits(b, blockStack, cstStack, in_concurrent_block, cstMode)
    BY <1>1, <2>2, <2>3, <2>4, FitsSame DEF Framed
  <2> HIDE DEF b, d
  <2>6. Leaf(Head(todo)) /\ Head(todo).m \in Methods /\ Follows(b, d) /\ ~IsLoop(Head(todo))
    BY <1>3, <2>4, MethodNames DEF OpOk, Leaf, IsLoop
  <2>7. Ok(p, e, e) /\ IsSeq(p) /\ e \in Marks
    BY <2>4, <2>6, ProceduresKept, CallingFacts DEF Keeps
  <2>8. Fits(e, blockStack, cstStack, in_concurrent_block, cstMode) /\ Follows(e, d)
    BY <1>1, <2>4, <2>5, <2>6, CallingFacts, FitsSame, FollowsTransitive DEF Framed
  <2>9. Bottomed(r) /\ r # <<>>
    BY <1>1, <2>6, BottomedTail
  <2> HIDE DEF p, r, e
  <2>10. Ok(p \o r, e, Ground)
    BY <2>4, <2>7, <2>8, OkFollows, FollowsItself, OkConcat
  <2>11. Bottomed(p \o r) /\ p \o r # <<>>
    <3>1. Bottomed(p \o r)
      BY <2>7, <2>9, BottomedConcat
    <3>2. Len(p \o r) = Len(p) + Len(r) /\ Len(p) \in Nat /\ Len(r) \in Nat /\ Len(r) >= 1
      BY <2>7, <2>9, IsSeqConcat, IsSeqFacts DEF Bottomed
    <3> QED
      BY <3>1, <3>2, IsSeqTuples
  <2> QED
    BY <1>1, <2>1, <2>7, <2>8, <2>10, <2>11 DEF Well
<1> QED
  BY <1>2, <1>3

\* The operation in front, and the rest.
LEMMA FirstStands ==
    ASSUME NEW p, NEW bs, NEW cs, NEW ic, NEW cm, Well(p, bs, cs, ic, cm), p # <<>>
    PROVE  \E P, M : /\ Marking(p, M, Ground, P) /\ Fits(M[1], bs, cs, ic, cm)
                     /\ Stands(Head(p), Tail(p), M[1], M[2], P)
<1>1. PICK a \in Marks : Ok(p, a, Ground) /\ Fits(a, bs, cs, ic, cm)
  BY DEF Well
<1>2. PICK P, M : Marking(p, M, Ground, P) /\ Follows(a, M[1])
  BY <1>1, OkMarking
<1>3. /\ M[1] \in Marks /\ M[2] \in Marks
      /\ OpOk(Head(p), M[1], M[2], P) /\ Ok(Tail(p), M[2], Ground)
  BY <1>2, OkTail
<1>4. Bottomed(Tail(p)) /\ (Tail(p) = <<>> => IsLoop(Head(p)))
  BY BottomedTail DEF Well
<1>5. Fits(M[1], bs, cs, ic, cm)
  BY <1>1, <1>2, <1>3, FitsSame DEF Well, Framed
<1> QED
  BY <1>2, <1>3, <1>4, <1>5 DEF Stands, Marking

\* The rest is done next.
LEMMA Onward ==
    ASSUME NEW o, NEW r, NEW b, NEW d, NEW P, Stands(o, r, b, d, P),
           NEW bs, NEW cs, NEW ic, NEW cm, Framed(bs, cs, cm), Fits(d, bs, cs, ic, cm)
    PROVE  Well(r, bs, cs, ic, cm)
  BY DEF Stands, Well

\* First q, then the rest.
LEMMA Into ==
    ASSUME NEW o, NEW r, NEW b, NEW d, NEW P, Stands(o, r, b, d, P),
           NEW bs, NEW cs, NEW ic, NEW cm, Framed(bs, cs, cm),
           NEW q, NEW e, Ok(q, e, d), Fits(e, bs, cs, ic, cm), r = <<>> => Bottomed(q)
    PROVE  Well(q \o r, bs, cs, ic, cm)
<1>1. e \in Marks /\ IsSeq(q) /\ Ok(r, d, Ground) /\ Bottomed(r)
  BY DEF Stands, Ok, Run
<1>2. Ok(q \o r, e, Ground) /\ Bottomed(q \o r)
  BY <1>1, OkConcat, BottomedConcat
<1> QED
  BY <1>1, <1>2 DEF Well

------------------------------------------------------------------------------
\* The steps of the parser.

\* op is about to be done, at b, and rest after it, at d.
At(op, rest, b, d, P) ==
  /\ Stands(op, rest, b, d, P)
  /\ Framed(blockStack, cstStack, cstMode)
  /\ Fits(b, blockStack, cstStack, in_concurrent_block, cstMode)

SameContext == UNCHANGED << blockStack, cstStack, in_concurrent_block, cstMode >>

\* A step that goes on with the rest, with the contexts unchanged.
LEMMA RestKept ==
    ASSUME NEW op, NEW rest, NEW b, NEW d, NEW P, At(op, rest, b, d, P),
           Same(b, d) \/ Follows(b, d), todo' = rest, SameContext
    PROVE  ParserInv'
<1>1. Fits(d, blockStack, cstStack, in_concurrent_block, cstMode)
  BY FitsSame DEF At, Stands, Framed
<1>2. Well(rest, blockStack, cstStack, in_concurrent_block, cstMode)
  BY <1>1, Onward DEF At
<1> QED
  BY <1>2 DEF ParserInv, SameContext

\* A step that goes on with q and then the rest, with the contexts unchanged.
LEMMA InsteadKept ==
    ASSUME NEW op, NEW rest, NEW b, NEW d, NEW P, At(op, rest, b, d, P), NEW q, NEW e,
           Ok(q, e, d), Same(b, e), rest = <<>> => Bottomed(q), todo' = q \o rest, SameContext
    PROVE  ParserInv'
<1>1. Fits(e, blockStack, cstStack, in_concurrent_block, cstMode)
  BY FitsSame DEF At, Stands, Framed, Ok
<1>2. Well(q \o rest, blockStack, cstStack, in_concurrent_block, cstMode)
  BY <1>1, Into DEF At
<1> QED
  BY <1>2 DEF ParserInv, SameContext

\* A step of a leaf.
LEMMA LeafKept ==
    ASSUME NEW op, NEW rest, NEW b, NEW d, NEW P, At(op, rest, b, d, P),
           Leaf(op), todo' = rest, SameContext
    PROVE  ParserInv'
<1>1. Follows(b, d)
  BY DEF At, Stands, OpOk
<1> QED
  BY <1>1, RestKept

\* consume(): whether the token is the expected one, an error, or the last error.
LEMMA ConsumeKept ==
    ASSUME NEW op, NEW rest, NEW b, NEW d, NEW P, At(op, rest, b, d, P), consume(op, rest)
    PROVE  ParserInv'
  BY LeafKept DEF consume, Leaf, SameContext, context

\* advance().
LEMMA AdvanceKept ==
    ASSUME NEW op, NEW rest, NEW b, NEW d, NEW P, At(op, rest, b, d, P), advance(op, rest)
    PROVE  ParserInv'
  BY LeafKept DEF advance, Continues, Leaf, SameContext, context

\* error().
LEMMA ErrorKept ==
    ASSUME NEW op, NEW rest, NEW b, NEW d, NEW P, At(op, rest, b, d, P), error(op, rest)
    PROVE  ParserInv'
  BY LeafKept DEF error, Leaf, SameContext, context

\* The target of an assignment is looked at.
LEMMA AssignedKept ==
    ASSUME NEW op, NEW rest, NEW b, NEW d, NEW P, At(op, rest, b, d, P), assigned(op, rest)
    PROVE  ParserInv'
  BY LeafKept DEF assigned, Leaf, SameContext, context

\* A node of an expression or a case is kept.
LEMMA BuildKept ==
    ASSUME NEW op, NEW rest, NEW b, NEW d, NEW P, At(op, rest, b, d, P), build(op, rest)
    PROVE  ParserInv'
<1>1. todo' = rest /\ SameContext /\ Leaf(op)
  BY DEF build, Continues, Leaf, SameContext, context
<1> QED
  BY <1>1, LeafKept

\* One of the two branches, or one case of a chain.
LEMMA BranchKept ==
    ASSUME NEW op, NEW rest, NEW b, NEW d, NEW P, At(op, rest, b, d, P), ~IsLoop(op),
           NEW q, Goes(q, b, d, P), todo' = q \o rest, SameContext
    PROVE  ParserInv'
<1>1. Ok(q, b, d)
  BY OkGoes DEF At, Stands
<1>2. Same(b, b) /\ rest # <<>>
  BY FollowsItself DEF At, Stands
<1> QED
  BY <1>1, <1>2, InsteadKept

\* if (check(...)).
LEMMA CheckKept ==
    ASSUME NEW op, NEW rest, NEW b, NEW d, NEW P, At(op, rest, b, d, P), check(op, rest)
    PROVE  ParserInv'
<1>1. Goes(op.then, b, d, P) /\ Goes(op.else, b, d, P) /\ ~IsLoop(op)
  BY DEF check, At, Stands, OpOk, IsLoop
<1>2. SameContext /\ (todo' = op.then \o rest \/ todo' = op.else \o rest)
  BY DEF check, Continues, SameContext, context
<1> QED
  BY <1>1, <1>2, BranchKept

\* if (match(...)).
LEMMA MatchKept ==
    ASSUME NEW op, NEW rest, NEW b, NEW d, NEW P, At(op, rest, b, d, P), match(op, rest)
    PROVE  ParserInv'
<1>1. Goes(op.then, b, d, P) /\ Goes(op.else, b, d, P) /\ ~IsLoop(op)
  BY DEF match, At, Stands, OpOk, IsLoop
<1>2. SameContext /\ (todo' = op.then \o rest \/ todo' = op.else \o rest)
  BY DEF match, Continues, SameContext, context
<1> QED
  BY <1>1, <1>2, BranchKept

\* A look at the tokens ahead.
LEMMA AheadKept ==
    ASSUME NEW op, NEW rest, NEW b, NEW d, NEW P, At(op, rest, b, d, P), ahead(op, rest)
    PROVE  ParserInv'
<1>1. Goes(op.then, b, d, P) /\ Goes(op.else, b, d, P) /\ ~IsLoop(op)
  BY DEF ahead, At, Stands, OpOk, IsLoop
<1>2. SameContext /\ (todo' = op.then \o rest \/ todo' = op.else \o rest)
  BY DEF ahead, Continues, SameContext, context
<1> QED
  BY <1>1, <1>2, BranchKept

\* The first case of the chain that has the token, or the else.
LEMMA SwitchKept ==
    ASSUME NEW op, NEW rest, NEW b, NEW d, NEW P, At(op, rest, b, d, P), switch(op, rest)
    PROVE  ParserInv'
<1> DEFINE I == {k \in 1..Len(op.chain) : peek \in op.chain[k][1]}
<1>1. /\ Len(op.chain) \in Nat /\ \A k \in 1..Len(op.chain) : Goes(op.chain[k][2], b, d, P)
      /\ Goes(op.else, b, d, P) /\ ~IsLoop(op)
  BY DEF switch, At, Stands, OpOk, IsLoop
<1>2. SameContext
  BY DEF switch, Continues, SameContext, context
<1>3. todo' = op.else \o rest \/ (I # {} /\ todo' = op.chain[Min(I)][2] \o rest)
  BY DEF switch, Continues, SelectInSeq
<1>4. I # {} => Min(I) \in 1..Len(op.chain)
  <2>1. I \in SUBSET Nat /\ I \subseteq 1..Len(op.chain)
    BY <1>1
  <2> HIDE DEF I
  <2> QED
    BY <2>1, MinLeast
<1> HIDE DEF I
<1> QED
  BY <1>1, <1>2, <1>3, <1>4, BranchKept

\* A loop goes round: its body from a mark that may claim the loop, and the loop again.
LEMMA RoundKept ==
    ASSUME NEW op, NEW rest, NEW b, NEW d, NEW P, At(op, rest, b, d, P), IsLoop(op),
           NEW o, IsLoop(o), o.op = op.op, o.body = op.body,
           todo' = (op.body \o << o >>) \o rest, SameContext
    PROVE  ParserInv'
<1>1. b \in Marks /\ d \in Marks /\ Closed(P) /\ OpOk(op, b, d, P)
  BY DEF At, Stands
<1>2. PICK e \in Marks : Same(b, e) /\ Goes(op.body, e, b, P)
  BY <1>1 DEF OpOk
<1>3. Ok(op.body, e, b)
  BY <1>1, <1>2, OkGoes
<1>4. OpOk(o, b, d, P)
  <2>1. Same(b, d) /\ o.op \in {"while", "until"} /\ ~Leaf(o)
    BY <1>1 DEF OpOk, IsLoop, Leaf
  <2>2. "end" \in b.holds => "end" \in d.holds
    BY <1>1, <2>1 DEF OpOk
  <2>3. \E x \in Marks : Same(b, x) /\ Goes(o.body, x, b, P)
    BY <1>2
  <2> QED
    BY <2>1, <2>2, <2>3 DEF OpOk
<1>5. Ok(<< o >>, b, d)
  BY <1>1, <1>4, OkOne
<1>6. Ok(op.body \o << o >>, e, d)
  BY <1>3, <1>5, OkConcat
<1>7. Bottomed(op.body \o << o >>)
  <2>1. Bottomed(<< o >>) /\ << o >> # <<>>
    BY IsSeqTuples DEF Bottomed
  <2> QED
    BY <1>3, <2>1, BottomedConcat DEF Ok, Run
<1> QED
  BY <1>2, <1>6, <1>7, InsteadKept

\* while (match(...)) goes round or ends.
LEMMA WhileKept ==
    ASSUME NEW op, NEW rest, NEW b, NEW d, NEW P, At(op, rest, b, d, P), while(op, rest)
    PROVE  ParserInv'
<1>1. IsLoop(op) /\ Same(b, d)
  BY DEF while, At, Stands, OpOk
<1>2. SameContext /\ (todo' = (op.body \o << op >>) \o rest \/ todo' = rest)
  BY DEF while, Continues, SameContext, context
<1> QED
  BY <1>1, <1>2, RoundKept, RestKept

\* while (!check(...) && !isAtEnd()) goes round or ends.
LEMMA UntilKept ==
    ASSUME NEW op, NEW rest, NEW b, NEW d, NEW P, At(op, rest, b, d, P), until(op, rest)
    PROVE  ParserInv'
<1> DEFINE o == [op EXCEPT !.at = current]
<1>1. IsLoop(op) /\ Same(b, d)
  BY DEF until, At, Stands, OpOk
<1>2. IsLoop(o) /\ o.op = op.op /\ o.body = op.body
  BY <1>1 DEF IsLoop
<1>3. SameContext /\ (todo' = (op.body \o << o >>) \o rest \/ todo' = rest)
  BY DEF until, Continues, SameContext, context
<1> HIDE DEF o
<1> QED
  BY <1>1, <1>2, <1>3, RoundKept, RestKept

\* Where a break, a continue or a return goes: the nearest place there is.
LEMMA StopFound ==
    ASSUME NEW p, NEW M, NEW P, Marking(p, M, Ground, P),
           NEW claim \in {"loop", "end"}, claim \in M[1].holds,
           NEW I, I = {k \in 1..Len(p) : Stops(p[k], claim)}
    PROVE  /\ I # {} /\ Min(I) \in 1..Len(p) /\ Stops(p[Min(I)], claim)
           /\ Same(M[1], M[Min(I)]) /\ Same(M[1], M[Min(I) + 1])
<1>1. PICK i \in 1..Len(p) : /\ Stops(p[i], claim) /\ Same(M[1], M[i])
                             /\ \A k \in 1..Len(p) : Stops(p[k], claim) => i <= k
  BY StopAhead DEF Ground
<1>2. Len(p) \in Nat
  BY IsSeqFacts DEF Marking
<1>3. I \in SUBSET Nat /\ I # {} /\ i \in I /\ \A k \in I : i <= k
  BY <1>1, <1>2
<1>4. Min(I) = i
  <2>1. Min(I) \in I /\ Min(I) <= i
    BY <1>3, MinLeast
  <2> QED
    BY <1>3, <2>1
<1>5. M[1] \in Marks /\ M[i] \in Marks /\ M[i + 1] \in Marks /\ OpOk(p[i], M[i], M[i + 1], P)
  BY <1>2 DEF Marking
<1>6. Same(M[i], M[i + 1])
  BY <1>1, <1>5 DEF OpOk, Stops
<1>7. Same(M[1], M[i + 1])
  BY <1>1, <1>5, <1>6, SameTransitive
<1> QED
  BY <1>1, <1>3, <1>4, <1>7

\* What is left from the i-th operation on is done next.
LEMMA FromKept ==
    ASSUME NEW p, NEW M, NEW P, Marking(p, M, Ground, P), Bottomed(p),
           Framed(blockStack, cstStack, cstMode),
           Fits(M[1], blockStack, cstStack, in_concurrent_block, cstMode),
           NEW i \in 1..(Len(p) + 1), Same(M[1], M[i]), todo' = SubSeq(p, i, Len(p)), SameContext
    PROVE  ParserInv'
<1>1. M[1] \in Marks /\ M[i] \in Marks
  BY IsSeqFacts DEF Marking
<1>2. Ok(SubSeq(p, i, Len(p)), M[i], Ground) /\ Bottomed(SubSeq(p, i, Len(p)))
  BY OkFrom, BottomedFrom
<1>3. Fits(M[i], blockStack, cstStack, in_concurrent_block, cstMode)
  BY <1>1, FitsSame DEF Framed
<1>4. Well(SubSeq(p, i, Len(p)), blockStack, cstStack, in_concurrent_block, cstMode)
  BY <1>1, <1>2, <1>3 DEF Well
<1> QED
  BY <1>4 DEF ParserInv, SameContext

\* break, continue and return drop operations, and with them nothing that pops what is open.
LEMMA LeaveKept ==
    ASSUME NEW op, NEW rest, NEW M, NEW P, At(op, rest, M[1], M[2], P),
           Marking(entered, M, Ground, P), Bottomed(entered), leave(op, rest)
    PROVE  ParserInv'
<1> DEFINE Loops == {k \in 1..Len(entered) : entered[k].op \in {"while", "until"}}
           Ends  == {k \in 1..Len(entered) : entered[k].op = "end"}
<1>0. SameContext /\ OpOk(op, M[1], M[2], P) /\ op.op \in {"break", "continue", "return", "end"}
  BY DEF leave, Continues, SameContext, context, At, Stands
<1>1. /\ Loops = {k \in 1..Len(entered) : Stops(entered[k], "loop")}
      /\ Ends = {k \in 1..Len(entered) : Stops(entered[k], "end")}
  <2>1. \A k \in 1..Len(entered) : entered[k].op \in {"while", "until"} <=> IsLoop(entered[k])
    BY DEF Marking, OpOk, IsLoop
  <2> QED
    BY <2>1 DEF Stops
<1>2. Len(entered) \in Nat
  BY IsSeqFacts DEF Marking
<1> DEFINE L == Min(Loops)
           E == Min(Ends)
<1>3. CASE op.op = "end"
  <2>1. todo' = rest /\ Same(M[1], M[2])
    BY <1>0, <1>3 DEF leave, Continues, OpOk
  <2> QED
    BY <1>0, <2>1, RestKept
<1>4. CASE op.op = "return"
  <2>1. "end" \in M[1].holds
    BY <1>0, <1>4 DEF OpOk
  <2>2. Ends # {} /\ E \in 1..Len(entered) /\ Same(M[1], M[E + 1])
    BY <1>1, <2>1, StopFound
  <2>3. todo' = SubSeq(entered, E + 1, Len(entered))
    BY <1>4, <2>2 DEF leave, Continues, SelectInSeq
  <2> HIDE DEF E
  <2>4. E + 1 \in 1..(Len(entered) + 1)
    BY <1>2, <2>2
  <2> QED
    BY <1>0, <2>2, <2>3, <2>4, FromKept DEF At
<1>5. CASE op.op \in {"break", "continue"}
  <2>1. "loop" \in M[1].holds
    BY <1>0, <1>5 DEF OpOk
  <2>2. Loops # {} /\ L \in 1..Len(entered) /\ Same(M[1], M[L]) /\ Same(M[1], M[L + 1])
    BY <1>1, <2>1, StopFound
  <2>3. todo' = SubSeq(entered, L, Len(entered)) \/ todo' = SubSeq(entered, L + 1, Len(entered))
    <3>1. CASE op.op = "continue"
      BY <2>2, <3>1 DEF leave, Continues, SelectInSeq
    <3>2. CASE op.op = "break"
      BY <2>2, <3>2 DEF leave, Continues, SelectInSeq
    <3> QED
      BY <1>5, <3>1, <3>2
  <2> HIDE DEF L
  <2>4. L \in 1..(Len(entered) + 1) /\ L + 1 \in 1..(Len(entered) + 1)
    BY <1>2, <2>2
  <2> QED
    BY <1>0, <2>2, <2>3, <2>4, FromKept DEF At
<1> QED
  BY <1>0, <1>3, <1>4, <1>5

\* while (match(K)) { operand } goes round or ends.
LEMMA BinaryKept ==
    ASSUME NEW op, NEW rest, NEW b, NEW d, NEW P, At(op, rest, b, d, P), binary(op, rest)
    PROVE  ParserInv'
<1>1. /\ b \in Marks /\ d \in Marks /\ Closed(P) /\ OpOk(op, b, d, P) /\ ~IsLoop(op)
      /\ Leaf(op) /\ op.m \in Methods /\ Follows(b, d) /\ rest # <<>>
  BY MethodNames DEF binary, At, Stands, OpOk, IsLoop, Leaf
<1> DEFINE c == Call(op.m)
           n == Emit(peek)
           q == << c, n, op >>
<1>2. Ok(q, b, d)
  <2>1. Keeps(<< c >>, Marks) /\ Keeps(<< n >>, Marks)
    BY <1>1, RulesKept DEF Rules, Called, Simple
  <2> HIDE DEF c, n
  <2>2. Ok(<< c, n >>, b, b)
    BY <1>1, <2>1, TuplesKept DEF Tuples, Keeps
  <2>3. Ok(<< op >>, b, d)
    BY <1>1, OkOne
  <2>4. Ok(<< c, n >> \o << op >>, b, d)
    BY <2>2, <2>3, OkConcat
  <2>5. << c, n, op >> = << c, n >> \o << op >>
    BY TupleParts
  <2> QED
    BY <2>4, <2>5, Zenon
<1>3. SameContext /\ (todo' = q \o rest \/ todo' = rest)
  BY DEF binary, Continues, SameContext, context
<1> HIDE DEF q
<1> QED
  BY <1>1, <1>2, <1>3, InsteadKept, RestKept, FollowsItself

\* assignment() parses the value, or ends.
LEMMA AssignKept ==
    ASSUME NEW op, NEW rest, NEW b, NEW d, NEW P, At(op, rest, b, d, P), assign(op, rest)
    PROVE  ParserInv'
<1>1. /\ b \in Marks /\ d \in Marks /\ ~IsLoop(op) /\ Follows(b, d) /\ rest # <<>>
  BY DEF assign, At, Stands, OpOk, IsLoop, Leaf
<1> DEFINE c == Call("assignment")
           n == Assigned(Last(nodes), peek)
           q == << c, n >>
<1>2. Ok(q, b, d)
  <2>1. Keeps(<< c >>, Marks)
    BY RulesKept DEF Rules, Called, Methods
  <2>2. Keeps(<< n >>, Marks)
    BY KeepsLeaf DEF Assigned, Leaf
  <2> HIDE DEF c, n
  <2>3. Ok(q, b, b)
    BY <1>1, <2>1, <2>2, TuplesKept DEF Tuples, Keeps
  <2> QED
    BY <1>1, <2>3, FollowsItself, OkFollows
<1>3. SameContext /\ (todo' = q \o rest \/ todo' = rest)
  BY DEF assign, Continues, SameContext, context
<1> HIDE DEF q
<1> QED
  BY <1>1, <1>2, <1>3, InsteadKept, RestKept, FollowsItself

\* What is on a stack after a push and after a pop.
LEMMA PushedPopped ==
    ASSUME NEW s, IsSeq(s)
    PROVE  /\ \A x : /\ IsSeq(Append(s, x)) /\ Len(Append(s, x)) = Len(s) + 1
                     /\ \A i \in 1..Len(s) : Append(s, x)[i] = s[i]
           /\ Len(s) >= 1 => /\ s # <<>> /\ IsSeq(Front(s)) /\ Len(Front(s)) = Len(s) - 1
                             /\ \A i \in 1..(Len(s) - 1) : Front(s)[i] = s[i]
<1>1. PICK S : s \in Seq(S)
  BY DEF IsSeq
<1>2. ASSUME NEW x
      PROVE  /\ IsSeq(Append(s, x)) /\ Len(Append(s, x)) = Len(s) + 1
             /\ \A i \in 1..Len(s) : Append(s, x)[i] = s[i]
  <2> DEFINE T == S \cup {x}
  <2>1. s \in Seq(T) /\ x \in T
    BY <1>1, SeqMonotonic
  <2> HIDE DEF T
  <2>2. Append(s, x) \in Seq(T)
    BY <2>1
  <2> QED
    BY <2>1, <2>2 DEF IsSeq
<1>3. ASSUME Len(s) >= 1
      PROVE  /\ s # <<>> /\ IsSeq(Front(s)) /\ Len(Front(s)) = Len(s) - 1
             /\ \A i \in 1..(Len(s) - 1) : Front(s)[i] = s[i]
  <2>1. Len(s) \in Nat /\ \A i \in 1..(Len(s) - 1) : s[i] \in S
    BY <1>1
  <2>2. Front(s) \in Seq(S)
    BY <1>1, <1>3, <2>1 DEF Front
  <2>3. Len(Front(s)) = Len(s) - 1 /\ \A i \in 1..(Len(s) - 1) : Front(s)[i] = s[i]
    <3>1. PICK n \in Nat : n = Len(s) - 1
      <4>1. Len(s) - 1 \in Nat
        BY <1>3, <2>1
      <4> QED
        BY <4>1
    <3>2. Len(SubSeq(s, 1, n)) = n /\ \A i \in 1..n : SubSeq(s, 1, n)[i] = s[i]
      BY <1>1, <2>1, <3>1
    <3>3. Front(s) = SubSeq(s, 1, n)
      BY <3>1 DEF Front
    <3> HIDE DEF Front
    <3> QED
      BY <3>1, <3>2, <3>3
  <2>4. s # <<>>
    BY <1>3, IsSeqTuples
  <2> QED
    BY <2>2, <2>3, <2>4 DEF IsSeq
<1> QED
  BY <1>2, <1>3

\* createNodeWithContext, pushCSTContext and popCSTContext: the root stays where it is.
LEMMA CstKept ==
    ASSUME NEW op, NEW rest, NEW b, NEW d, NEW P, At(op, rest, b, d, P), cst(op, rest)
    PROVE  ParserInv'
<1>1. /\ b \in Marks /\ d \in Marks /\ OpOk(op, b, d, P)
      /\ IsSeq(blockStack) /\ IsSeq(cstStack) /\ Rooted(cstStack, cstMode)
      /\ Fits(b, blockStack, cstStack, in_concurrent_block, cstMode)
  BY DEF At, Stands, Framed
<1>2. /\ todo' = rest /\ blockStack' = blockStack /\ in_concurrent_block' = in_concurrent_block
      /\ cstMode' = cstMode /\ op.op \in {"node", "push_cst", "pop_cst"}
      /\ cstStack' = IF ~cstMode \/ (op.op = "node" /\ ~isContainerNode(op.kind)) THEN cstStack
                     ELSE IF op.op # "pop_cst" THEN Append(cstStack, op.kind)
                     ELSE IF cstStack = <<>> THEN cstStack ELSE Front(cstStack)
  BY DEF cst, Continues
<1>3. /\ d.block = b.block /\ ("concurrent" \in b.holds => "concurrent" \in d.holds)
      /\ b.cst \in Nat /\ d.cst \in Nat /\ Len(cstStack) \in Nat
  BY <1>1, <1>2, IsSeqFacts DEF OpOk, Marks
<1>4. Framed(blockStack, cstStack', cstMode) /\ Fits(d, blockStack, cstStack', in_concurrent_block, cstMode)
  <2>1. CASE ~cstMode
    BY <1>1, <1>2, <1>3, <2>1 DEF Framed, Fits, Rooted
  <2>2. CASE cstMode /\ op.op = "node" /\ ~isContainerNode(op.kind)
    <3>1. cstStack' = cstStack /\ d.cst <= b.cst
      BY <1>1, <1>2, <2>2 DEF OpOk
    <3> QED
      BY <1>1, <1>3, <3>1 DEF Framed, Fits
  <2>3. CASE cstMode /\ (op.op = "push_cst" \/ (op.op = "node" /\ isContainerNode(op.kind)))
    <3>1. cstStack' = Append(cstStack, op.kind)
      BY <1>2, <2>3
    <3>2. d.cst <= b.cst + 1
      BY <1>1, <2>3 DEF OpOk
    <3>3. /\ IsSeq(cstStack') /\ Len(cstStack') = Len(cstStack) + 1
          /\ \A i \in 1..Len(cstStack) : cstStack'[i] = cstStack[i]
      BY <1>1, <3>1, PushedPopped
    <3>4. Rooted(cstStack', cstMode)
      BY <1>1, <1>3, <2>3, <3>3 DEF Rooted
    <3>5. b.cst + 2 <= Len(cstStack)
      BY <1>1, <2>3 DEF Fits
    <3> QED
      BY <1>1, <1>3, <3>2, <3>3, <3>4, <3>5 DEF Framed, Fits
  <2>4. CASE cstMode /\ op.op = "pop_cst"
    <3>1. b.cst >= 1 /\ d.cst <= b.cst - 1 /\ b.cst + 2 <= Len(cstStack)
      BY <1>1, <2>4 DEF OpOk, Fits
    <3>2. Len(cstStack) >= 3
      BY <1>3, <3>1
    <3>3. /\ cstStack # <<>> /\ IsSeq(Front(cstStack)) /\ Len(Front(cstStack)) = Len(cstStack) - 1
          /\ \A i \in 1..(Len(cstStack) - 1) : Front(cstStack)[i] = cstStack[i]
      BY <1>1, <1>3, <3>2, PushedPopped
    <3>4. cstStack' = Front(cstStack)
      BY <1>2, <2>4, <3>3
    <3>5. Rooted(cstStack', cstMode)
      BY <1>1, <1>3, <2>4, <3>2, <3>3, <3>4 DEF Rooted
    <3> QED
      BY <1>1, <1>3, <3>1, <3>3, <3>4, <3>5 DEF Framed, Fits
  <2> QED
    BY <1>2, <2>1, <2>2, <2>3, <2>4
<1>5. Well(rest, blockStack, cstStack', in_concurrent_block, cstMode)
  BY <1>4, Onward DEF At
<1> QED
  BY <1>2, <1>5 DEF ParserInv

\* pushBlockContext and popBlockContext.
LEMMA BlockContextKept ==
    ASSUME NEW op, NEW rest, NEW b, NEW d, NEW P, At(op, rest, b, d, P), blockContext(op, rest)
    PROVE  ParserInv'
<1>1. /\ b \in Marks /\ d \in Marks /\ OpOk(op, b, d, P)
      /\ IsSeq(blockStack) /\ IsSeq(cstStack) /\ Rooted(cstStack, cstMode)
      /\ Fits(b, blockStack, cstStack, in_concurrent_block, cstMode)
  BY DEF At, Stands, Framed
<1>2. /\ todo' = rest /\ cstStack' = cstStack /\ in_concurrent_block' = in_concurrent_block
      /\ cstMode' = cstMode /\ op.op \in {"push_block", "pop_block"}
      /\ blockStack' = IF op.op = "push_block" THEN Append(blockStack, op.kind)
                       ELSE IF blockStack = <<>> THEN blockStack ELSE Front(blockStack)
  BY DEF blockContext, Continues
<1>3. /\ d.cst <= b.cst /\ ("concurrent" \in b.holds => "concurrent" \in d.holds)
      /\ b.cst \in Nat /\ d.cst \in Nat /\ Len(cstStack) \in Nat /\ Len(blockStack) \in Nat
      /\ b.block = Len(blockStack)
  BY <1>1, <1>2, IsSeqFacts DEF OpOk, Marks, Fits
<1>4. IsSeq(blockStack') /\ d.block = Len(blockStack')
  <2>1. CASE op.op = "push_block"
    <3>1. d.block = b.block + 1
      BY <1>1, <2>1 DEF OpOk
    <3> QED
      BY <1>1, <1>2, <1>3, <2>1, <3>1, PushedPopped
  <2>2. CASE op.op = "pop_block"
    <3>1. b.block >= 1 /\ d.block = b.block - 1
      BY <1>1, <2>2 DEF OpOk
    <3>2. blockStack # <<>> /\ IsSeq(Front(blockStack)) /\ Len(Front(blockStack)) = Len(blockStack) - 1
      BY <1>1, <1>3, <3>1, PushedPopped
    <3> QED
      BY <1>2, <1>3, <2>2, <3>1, <3>2
  <2> QED
    BY <1>2, <2>1, <2>2
<1>5. Framed(blockStack', cstStack, cstMode) /\ Fits(d, blockStack', cstStack, in_concurrent_block, cstMode)
  BY <1>1, <1>3, <1>4 DEF Framed, Fits
<1>6. Well(rest, blockStack', cstStack, in_concurrent_block, cstMode)
  BY <1>5, Onward DEF At
<1> QED
  BY <1>2, <1>6 DEF ParserInv

\* in_concurrent_block is set, reset or tested.
LEMMA ConcurrentKept ==
    ASSUME NEW op, NEW rest, NEW b, NEW d, NEW P, At(op, rest, b, d, P), concurrent(op, rest)
    PROVE  ParserInv'
<1>1. /\ b \in Marks /\ d \in Marks /\ OpOk(op, b, d, P)
      /\ Framed(blockStack, cstStack, cstMode) /\ IsSeq(cstStack)
      /\ Fits(b, blockStack, cstStack, in_concurrent_block, cstMode)
  BY DEF At, Stands, Framed
<1>2. blockStack' = blockStack /\ cstStack' = cstStack /\ cstMode' = cstMode
  BY DEF concurrent, Continues
<1>3. CASE op.op = "concurrent"
  <2>1. todo' = rest /\ in_concurrent_block' = op.to
    BY <1>3 DEF concurrent, Continues
  <2>2. d.block = b.block /\ d.cst <= b.cst /\ (op.to => "concurrent" \in d.holds)
    BY <1>1, <1>3 DEF OpOk
  <2>3. Fits(d, blockStack, cstStack, op.to, cstMode)
    BY <1>1, <2>2, IsSeqFacts DEF Fits, Marks
  <2>4. Well(rest, blockStack, cstStack, op.to, cstMode)
    BY <1>1, <2>3, Onward DEF At
  <2> QED
    BY <1>2, <2>1, <2>4 DEF ParserInv
<1>4. CASE op.op = "if_concurrent"
  <2>1. Goes(op.then, b, d, P) /\ Goes(op.else, b, d, P) /\ ~IsLoop(op)
    BY <1>1, <1>4 DEF OpOk, IsLoop
  <2>2. SameContext /\ (todo' = op.then \o rest \/ todo' = op.else \o rest)
    BY <1>2, <1>4 DEF concurrent, Continues, SameContext
  <2> QED
    BY <2>1, <2>2, BranchKept
<1> QED
  BY <1>3, <1>4 DEF concurrent

\* Every step keeps the invariant.
LEMMA StepKept == ParserInv /\ Step => ParserInv'
<1> SUFFICES ASSUME ParserInv, Step PROVE ParserInv'
  OBVIOUS
<1>1. todo # <<>>
  BY DEF Step
<1>2. entered # <<>> /\ Well(entered, blockStack, cstStack, in_concurrent_block, cstMode)
  BY <1>1, EnteredWell
<1>3. PICK P, M : /\ Marking(entered, M, Ground, P)
                  /\ Fits(M[1], blockStack, cstStack, in_concurrent_block, cstMode)
                  /\ Stands(Head(entered), Tail(entered), M[1], M[2], P)
  BY <1>2, FirstStands
<1> DEFINE op   == Head(entered)
           rest == Tail(entered)
<1>4. At(op, rest, M[1], M[2], P) /\ Marking(entered, M, Ground, P) /\ Bottomed(entered)
  BY <1>2, <1>3 DEF At, Well
<1>5. \/ consume(op, rest) \/ advance(op, rest) \/ error(op, rest)
      \/ check(op, rest) \/ match(op, rest) \/ switch(op, rest) \/ ahead(op, rest)
      \/ while(op, rest) \/ until(op, rest) \/ leave(op, rest)
      \/ binary(op, rest) \/ assign(op, rest) \/ assigned(op, rest) \/ build(op, rest)
      \/ cst(op, rest) \/ blockContext(op, rest) \/ concurrent(op, rest)
  BY DEF Step
<1> HIDE DEF op, rest
<1>6. CASE consume(op, rest) \/ advance(op, rest) \/ error(op, rest) \/ assigned(op, rest) \/ build(op, rest)
  BY <1>4, <1>6, ConsumeKept, AdvanceKept, ErrorKept, AssignedKept, BuildKept
<1>7. CASE check(op, rest) \/ match(op, rest) \/ switch(op, rest) \/ ahead(op, rest)
  BY <1>4, <1>7, CheckKept, MatchKept, SwitchKept, AheadKept
<1>8. CASE while(op, rest) \/ until(op, rest) \/ leave(op, rest)
  BY <1>4, <1>8, WhileKept, UntilKept, LeaveKept
<1>9. CASE binary(op, rest) \/ assign(op, rest)
  BY <1>4, <1>9, BinaryKept, AssignKept
<1>10. CASE cst(op, rest) \/ blockContext(op, rest) \/ concurrent(op, rest)
  BY <1>4, <1>10, CstKept, BlockContextKept, ConcurrentKept
<1> QED
  BY <1>5, <1>6, <1>7, <1>8, <1>9, <1>10

\* The parser begins at the loop over the declarations, with nothing open.
LEMMA InitWell == Init => ParserInv
<1> SUFFICES ASSUME Init PROVE ParserInv
  OBVIOUS
<1> DEFINE o == Until({}, << Call("declaration") >>)
<1>1. todo = << o >> /\ blockStack = <<>> /\ ~in_concurrent_block
  BY DEF Init, parse
<1>2. IsLoop(o) /\ Keeps(<< o >>, Marks)
  <2>1. IsLoop(o)
    BY DEF Until, IsLoop
  <2>2. Keeps(<< o >>, Marks)
    BY RulesKept DEF Rules, Looped, Called, Methods
  <2> QED
    BY <2>1, <2>2
<1> HIDE DEF o
<1>3. Ok(<< o >>, Ground, Ground)
  BY <1>2, GroundMark DEF Keeps
<1>4. Bottomed(<< o >>)
  BY <1>2, IsSeqTuples DEF Bottomed
<1>5. Framed(blockStack, cstStack, cstMode) /\ (cstMode => Len(cstStack) = 2)
  <2>1. CASE cstMode
    <3>1. cstStack = << Dead, Root >>
      BY <2>1 DEF Init
    <3>2. IsSeq(<< Dead, Root >>) /\ Len(<< Dead, Root >>) = 2
      <4>1. << Dead, Root >> \in Seq({Dead, Root})
        OBVIOUS
      <4> QED
        BY <4>1 DEF IsSeq
    <3> QED
      BY <1>1, <2>1, <3>1, <3>2, IsSeqTuples DEF Framed, Rooted
  <2>2. CASE ~cstMode
    BY <1>1, <2>2, IsSeqTuples DEF Init, Framed, Rooted
  <2> QED
    BY <2>1, <2>2
<1>6. Fits(Ground, blockStack, cstStack, in_concurrent_block, cstMode)
  BY <1>1, <1>5, IsSeqTuples DEF Fits, Ground
<1> QED
  BY <1>1, <1>3, <1>4, <1>5, <1>6, GroundMark DEF ParserInv, Well

\* The invariant is inductive: the tokens that are read and the end of parse() change nothing of
\* it.
LEMMA NextKept == ParserInv /\ [Next]_vars => ParserInv'
<1> SUFFICES ASSUME ParserInv, [Next]_vars PROVE ParserInv'
  OBVIOUS
<1>1. CASE Step
  BY <1>1, StepKept
<1>2. CASE Scan \/ finish \/ UNCHANGED vars
  <2>1. todo' = todo /\ SameContext
    BY <1>2 DEF Scan, finish, vars, context, SameContext
  <2> QED
    BY <2>1 DEF ParserInv, SameContext
<1> QED
  BY <1>1, <1>2 DEF Next

\* With only the loop over the declarations left, its mark is Ground.
LEMMA InvBalanced == ParserInv => ContextsBalanced
<1> SUFFICES ASSUME ParserInv PROVE ContextsBalanced
  OBVIOUS
<1>1. ASSUME todo # <<>>, Tail(todo) = <<>> PROVE blockStack = <<>> /\ ~in_concurrent_block
  <2>1. /\ Well(todo, blockStack, cstStack, in_concurrent_block, cstMode)
        /\ IsSeq(blockStack) /\ IsSeq(cstStack) /\ Bottomed(todo) /\ IsSeq(todo)
    BY DEF ParserInv, Well, Framed, Bottomed
  <2>2. PICK P, M : /\ Marking(todo, M, Ground, P)
                    /\ Fits(M[1], blockStack, cstStack, in_concurrent_block, cstMode)
                    /\ Stands(Head(todo), Tail(todo), M[1], M[2], P)
    BY <1>1, <2>1, FirstStands
  <2>3. IsLoop(Head(todo)) /\ OpOk(Head(todo), M[1], M[2], P) /\ M[1] \in Marks /\ M[2] \in Marks
    BY <1>1, <2>2 DEF Stands
  <2>4. Same(M[1], M[2])
    BY <2>3 DEF OpOk
  <2>5. Follows(M[2], Ground)
    <3>1. Len(todo) = 1
      <4>1. /\ Len(todo) \in Nat /\ Len(Tail(todo)) = Len(todo) - 1
        BY <1>1, <2>1, IsSeqFacts
      <4>2. Len(Tail(todo)) = 0
        BY <1>1, IsSeqTuples, Zenon
      <4> QED
        BY <4>1, <4>2
    <3> QED
      BY <2>2, <3>1 DEF Marking
  <2>6. M[1].block = 0 /\ "concurrent" \notin M[1].holds
    BY <2>4, <2>5 DEF Same, Follows, Ground
  <2>7. Len(blockStack) = 0 /\ ~in_concurrent_block
    BY <2>2, <2>6 DEF Fits
  <2> QED
    BY <2>1, <2>7, IsSeqFacts
<1>2. ASSUME cstMode PROVE SubSeq(cstStack, 1, 2) = << Dead, Root >>
  <2>1. IsSeq(cstStack) /\ Len(cstStack) >= 2 /\ cstStack[1] = Dead /\ cstStack[2] = Root
    BY <1>2 DEF ParserInv, Well, Framed, Rooted
  <2>2. PICK S : cstStack \in Seq(S)
    BY <2>1 DEF IsSeq
  <2> DEFINE q == SubSeq(cstStack, 1, 2)
             r == << Dead, Root >>
  <2>3. Dead \in S /\ Root \in S
    BY <2>1, <2>2
  <2>4. q \in Seq(S) /\ Len(q) = 2 /\ q[1] = Dead /\ q[2] = Root
    BY <2>1, <2>2
  <2>5. r \in Seq(S) /\ Len(r) = 2 /\ r[1] = Dead /\ r[2] = Root
    BY <2>3
  <2> HIDE DEF q, r
  <2>6. q = r
    BY <2>4, <2>5, SeqEqual
  <2> QED
    BY <2>6 DEF q, r
<1> QED
  BY <1>1, <1>2 DEF ContextsBalanced

(***************************************************************************)
(* Whatever the tokens and the errors: between two declarations of the     *)
(* program no block is open and no concurrent block is assumed, and in CST *)
(* mode the root and the dangling node below it stay at the bottom of      *)
(* cstContextStack, so popCSTContext never pops more than was pushed.      *)
(***************************************************************************)
THEOREM ContextsKept == Spec => []ContextsBalanced
<1> QED
  BY InitWell, NextKept, InvBalanced, PTL DEF Spec
=============================================================================
