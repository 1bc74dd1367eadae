----------------------------- MODULE NameProofs -------------------------------
(***************************************************************************)
(* What the checkers know of a name, for programs of any size over any set  *)
(* of names.  The chain of scopes of the type checker finds what the        *)
(* nesting of the source makes visible.  Linear types, the records of       *)
(* memory of the type checker, and the memory checker remember the names    *)
(* that a value was moved out of.                                           *)
(***************************************************************************)
EXTENDS TypeCheckerProofs

(***************************************************************************)
(* Visible, of the program s.                                               *)
(***************************************************************************)
SHome(s, p, n) == IF s[p].n = n /\ s[p].k \in Openers THEN p ELSE s[p].up

SDeclaredType(s, p, n) ==
    LET t == s[p]
        value == IF t.v \in Literals THEN t.v ELSE t.ty
    IN  IF t.f = n THEN "Function"
        ELSE CASE t.k \in {"var", "for"} -> var_type(t.a, value)
          [] t.k = "assign" -> value
          [] t.k = "concurrent" -> "Channel"
          [] t.k = "task" -> "Int"
          [] t.k = "worker" -> "Any"
          [] OTHER -> t.a

\* the type of n by the declaration d, 0 for none
TypeBy(s, d, n) == IF d = 0 THEN Null ELSE SDeclaredType(s, d, n)

\* token p declares n, when v gives the declarations that are visible before
DeclaresBy(s, v, p, n) ==
    \/ s[p].f = n
    \/ s[p].n = n /\ s[p].k \in Binders \cup {"var", "fn"}
    \/ s[p].n = n /\ s[p].k = "assign" /\ TypeBy(s, v[p - 1][n], n) = Null

InScopeOf(s, p, n, q) == SHome(s, p, n) = 0 \/ ~Ended(s, SHome(s, p, n), q)

SeenBy(s, v, q, n) == {p \in 1..q : DeclaresBy(s, v, p, n) /\ InScopeOf(s, p, n, q)}

LastOf(T) == IF T = {} THEN 0 ELSE Max(T)

VisibleBody(s, v) == [q \in 0..Len(s) |-> [n \in Names |-> LastOf(SeenBy(s, v, q, n))]]

LEMMA VisibleUnfolds == Visible = CHOOSE v : v = VisibleBody(src, v)
  BY DEF Visible, VisibleBody, LastOf, SeenBy, InScopeOf, DeclaresBy, TypeBy, SHome, SDeclaredType,
     Ended, InScope, Home, EndedBy, DeclaredType

\* v is Visible, of the program s.
VisibleIs(s, v) == v = VisibleBody(s, v)

LEMMA SeenRange ==
    ASSUME NEW s, NEW v, NEW q \in Nat, NEW n
    PROVE  /\ SeenBy(s, v, q, n) \in SUBSET (1..q)
           /\ LastOf(SeenBy(s, v, q, n)) \in 0..q
           /\ \A p \in SeenBy(s, v, q, n) : p <= LastOf(SeenBy(s, v, q, n))
           /\ SeenBy(s, v, q, n) # {} => LastOf(SeenBy(s, v, q, n)) \in SeenBy(s, v, q, n)
<1> DEFINE T == SeenBy(s, v, q, n)
<1>1. T \in SUBSET (1..q)
  BY DEF SeenBy
<1> HIDE DEF T
<1>2. CASE T = {}
  BY <1>2 DEF LastOf, T
<1>3. CASE T # {}
  <2>1. T \in SUBSET Nat /\ \A p \in T : p <= q
    BY <1>1
  <2>2. Max(T) \in T /\ \A p \in T : p <= Max(T)
    BY <1>3, <2>1, MaxBounded
  <2>3. LastOf(T) = Max(T)
    BY <1>3 DEF LastOf
  <2>4. LastOf(T) \in T /\ \A p \in T : p <= LastOf(T)
    BY <2>2, <2>3
  <2>5. LastOf(T) \in 1..q
    BY <1>1, <2>4
  <2> QED
    BY <1>1, <1>3, <2>4, <2>5 DEF T
<1> QED
  BY <1>2, <1>3

LEMMA VisibleAt ==
    ASSUME NEW s \in Seq(TokenType), NEW v, VisibleIs(s, v)
    PROVE  \A q \in 0..Len(s), n \in Names :
              v[q][n] = LastOf(SeenBy(s, v, q, n)) /\ v[q][n] \in 0..q
<1> TAKE q \in 0..Len(s), n \in Names
<1>1. Len(s) \in Nat /\ q \in Nat
  OBVIOUS
<1>2. v[q] = VisibleBody(s, v)[q]
  BY DEF VisibleIs
<1>3. VisibleBody(s, v)[q] = [x \in Names |-> LastOf(SeenBy(s, v, q, x))]
  BY DEF VisibleBody
<1>4. v[q][n] = LastOf(SeenBy(s, v, q, n))
  BY <1>2, <1>3
<1> QED
  BY <1>1, <1>4, SeenRange

\* Programs that agree on the first q tokens, with the declarations of n visible before.
Agree(s, v, r, w, q, n) ==
    \A p \in 1..q : r[p] = s[p] /\ w[p - 1][n] = v[p - 1][n] /\ v[p - 1][n] \in 0..(p - 1)

LEMMA SeenSame ==
    ASSUME NEW s, NEW v, NEW r, NEW w, NEW q \in Nat, NEW n, Agree(s, v, r, w, q, n)
    PROVE  \A p \in 1..q : /\ DeclaresBy(r, w, p, n) <=> DeclaresBy(s, v, p, n)
                           /\ SHome(r, p, n) = SHome(s, p, n)
                           /\ SDeclaredType(r, p, n) = SDeclaredType(s, p, n)
                           /\ InScopeOf(r, p, n, q) <=> InScopeOf(s, p, n, q)
<1>0. \A p \in 1..q : r[p] = s[p] /\ w[p - 1][n] = v[p - 1][n] /\ v[p - 1][n] \in 0..(p - 1)
  BY DEF Agree
<1>1. \A h : Ended(r, h, q) <=> Ended(s, h, q)
  BY <1>0 DEF Ended
<1>2. \A p \in 1..q : /\ SHome(r, p, n) = SHome(s, p, n)
                      /\ SDeclaredType(r, p, n) = SDeclaredType(s, p, n)
  BY <1>0 DEF SHome, SDeclaredType
<1>3. \A p \in 1..q : TypeBy(r, w[p - 1][n], n) = TypeBy(s, v[p - 1][n], n)
  <2> TAKE p \in 1..q
  <2> DEFINE d == v[p - 1][n]
  <2>0. d \in 0..(p - 1) /\ w[p - 1][n] = d
    BY <1>0
  <2> HIDE DEF d
  <2>1. w[p - 1][n] = v[p - 1][n] /\ (v[p - 1][n] = 0 \/ v[p - 1][n] \in 1..q)
    BY <2>0 DEF d
  <2> QED
    BY <1>2, <2>1 DEF TypeBy
<1>4. \A p \in 1..q : /\ DeclaresBy(r, w, p, n) <=> DeclaresBy(s, v, p, n)
                      /\ InScopeOf(r, p, n, q) <=> InScopeOf(s, p, n, q)
  BY <1>0, <1>1, <1>2, <1>3 DEF DeclaresBy, InScopeOf
<1> QED
  BY <1>2, <1>4

LEMMA SeenAgrees ==
    ASSUME NEW s, NEW v, NEW r, NEW w, NEW q \in Nat, NEW n, Agree(s, v, r, w, q, n)
    PROVE  SeenBy(r, w, q, n) = SeenBy(s, v, q, n)
<1>1. \A p \in 1..q : (DeclaresBy(r, w, p, n) /\ InScopeOf(r, p, n, q)) <=>
                        (DeclaresBy(s, v, p, n) /\ InScopeOf(s, p, n, q))
  BY SeenSame
<1> QED
  BY <1>1 DEF SeenBy

\* There is only one such function.
LEMMA VisibleOnce ==
    ASSUME NEW s \in Seq(TokenType), NEW v, VisibleIs(s, v), NEW w, VisibleIs(s, w)
    PROVE  \A q \in 0..Len(s), n \in Names : w[q][n] = v[q][n]
<1> DEFINE T == {q \in 0..Len(s) : \E n \in Names : w[q][n] # v[q][n]}
<1>0. Len(s) \in Nat
  OBVIOUS
<1> SUFFICES ASSUME T # {} PROVE FALSE
  OBVIOUS
<1>a. T \in SUBSET Nat
  BY <1>0
<1>1. PICK q \in T : \A x \in T : q <= x
  <2> HIDE DEF T
  <2> QED
    BY <1>a, LeastElement
<1>2. PICK n \in Names : w[q][n] # v[q][n]
  BY <1>1
<1>3. q \in Nat /\ q \in 0..Len(s)
  BY <1>0, <1>1
<1>4. \A p \in 1..q : w[p - 1][n] = v[p - 1][n] /\ v[p - 1][n] \in 0..(p - 1)
  <2> TAKE p \in 1..q
  <2>1. p - 1 \in 0..Len(s) /\ p - 1 < q
    BY <1>0, <1>3
  <2>2. p - 1 \notin T
    BY <1>1, <1>3, <2>1
  <2> QED
    BY <1>2, <2>1, <2>2, VisibleAt
<1>5. SeenBy(s, w, q, n) = SeenBy(s, v, q, n)
  <2>1. Agree(s, v, s, w, q, n)
    BY <1>4 DEF Agree
  <2> QED
    BY <1>3, <2>1, SeenAgrees
<1> QED
  BY <1>2, <1>3, <1>5, VisibleAt

\* A token more.
LEMMA VisibleExtends ==
    ASSUME NEW s \in Seq(TokenType), NEW v, VisibleIs(s, v), NEW t
    PROVE  \E w : VisibleIs(Append(s, t), w) /\ \A q \in 0..Len(s) : w[q] = v[q]
<1> DEFINE r == Append(s, t)
           m == Len(s)
           x == [n \in Names |-> LastOf(SeenBy(r, v, m + 1, n))]
           w == [q \in 0..(m + 1) |-> IF q = m + 1 THEN x ELSE v[q]]
<1>1. m \in Nat /\ Len(r) = m + 1 /\ \A p \in 1..m : r[p] = s[p]
  OBVIOUS
<1> HIDE DEF r, m, x
<1>2. \A q \in 0..m : w[q] = v[q]
  BY <1>1
<1>3. w[m + 1] = x
  BY <1>1
<1> HIDE DEF w
<1>4. \A q \in 0..m, n \in Names :
         v[q][n] \in 0..q /\ w[q][n] = v[q][n] /\ v[q][n] = LastOf(SeenBy(s, v, q, n))
  BY <1>2, VisibleAt DEF m
<1>5. \A q \in 0..m, n \in Names : SeenBy(r, w, q, n) = SeenBy(s, v, q, n)
  <2> TAKE q \in 0..m, n \in Names
  <2>1. q \in Nat /\ \A p \in 1..q : p - 1 \in 0..m /\ p \in 1..m
    BY <1>1
  <2>2. Agree(s, v, r, w, q, n)
    BY <1>1, <1>4, <2>1 DEF Agree
  <2> QED
    BY <2>1, <2>2, SeenAgrees
<1>6. \A n \in Names : SeenBy(r, w, m + 1, n) = SeenBy(r, v, m + 1, n)
  <2> TAKE n \in Names
  <2>1. m + 1 \in Nat /\ \A p \in 1..(m + 1) : p - 1 \in 0..m
    BY <1>1
  <2>2. Agree(r, v, r, w, m + 1, n)
    BY <1>4, <2>1 DEF Agree
  <2> QED
    BY <2>1, <2>2, SeenAgrees
<1>7. \A q \in 0..m : v[q] = [n \in Names |-> LastOf(SeenBy(s, v, q, n))]
  <2> TAKE q \in 0..m
  <2>1. v[q] = VisibleBody(s, v)[q]
    BY DEF VisibleIs
  <2> QED
    BY <2>1 DEF VisibleBody, m
<1>8. \A q \in 0..(m + 1) : w[q] = [n \in Names |-> LastOf(SeenBy(r, w, q, n))]
  <2> TAKE q \in 0..(m + 1)
  <2>1. CASE q = m + 1
    BY <1>3, <1>6, <2>1 DEF x
  <2>2. CASE q # m + 1
    <3>1. q \in 0..m
      BY <1>1, <2>2
    <3> QED
      BY <1>2, <1>5, <1>7, <3>1
  <2> QED
    BY <2>1, <2>2
<1>9. w = VisibleBody(r, w)
  <2>1. w = [q \in 0..(m + 1) |-> w[q]]
    BY DEF w
  <2>2. VisibleBody(r, w) = [q \in 0..(m + 1) |-> [n \in Names |-> LastOf(SeenBy(r, w, q, n))]]
    BY <1>1 DEF VisibleBody
  <2> QED
    BY <1>8, <2>1, <2>2
<1> QED
  BY <1>2, <1>9 DEF VisibleIs, r, m

(***************************************************************************)
(* The scopes belong to the statements that are open.                       *)
(***************************************************************************)
\* H gives to each of L scopes the statement that entered it, 0 to the outermost
\* one; B is the number of scopes up to and with those of an open statement.
Layers(L, o, s, H, B) ==
    /\ L \in Nat /\ H \in [1..L -> Nat] /\ B \in [0..Len(o) -> Nat]
    /\ B[0] = 1 /\ B[Len(o)] = L /\ (L >= 1 => H[1] = 0)
    /\ \A j \in 1..Len(o) : B[j] = B[j - 1] + Levels(s[o[j]].k)
    /\ \A j \in 0..Len(o) : B[j] >= 1
    /\ \A j \in 1..Len(o), i \in 1..L : H[i] = o[j] <=> (B[j - 1] < i /\ i <= B[j])
    /\ \A i \in 2..L : \E j \in 1..Len(o) : H[i] = o[j]

LEMMA LevelsNat == ASSUME NEW k PROVE Levels(k) \in {1, 2}
  BY DEF Levels

\* The innermost scope is that of the innermost statement, and no scope is
\* that of a statement that has ended.
LEMMA LayerFacts ==
    ASSUME NEW o \in Seq(Nat), NEW s \in Seq(TokenType), WellNested(o, s),
           NEW L, NEW H, NEW B, Layers(L, o, s, H, B)
    PROVE  /\ L \in Nat \ {0} /\ H[L] = Inner(o) /\ H[1] = 0
           /\ \A i \in 1..L : H[i] \in 0..Len(s) /\ (H[i] # 0 => ~Ended(s, H[i], Len(s)))
<1>1. Len(o) \in Nat /\ Len(s) \in Nat /\ DOMAIN o = 1..Len(o) /\ DOMAIN s = 1..Len(s)
      /\ (o = <<>> <=> Len(o) = 0)
  OBVIOUS
<1>2. Len(o) \in 0..Len(o)
  BY <1>1
<1>3. L \in Nat /\ L >= 1 /\ H[1] = 0
  BY <1>2 DEF Layers
<1>4. H[L] = Inner(o)
  <2>1. CASE o = <<>>
    BY <1>1, <1>3, <2>1 DEF Layers, Inner
  <2>2. CASE o # <<>>
    <3> DEFINE m == Len(o)
    <3>1. m \in 1..Len(o) /\ m - 1 \in 0..Len(o) /\ L \in 1..L
      BY <1>1, <1>3, <2>2
    <3> HIDE DEF m
    <3>2. Levels(s[o[m]].k) \in {1, 2} /\ B[m - 1] \in Nat /\ B[m] = B[m - 1] + Levels(s[o[m]].k)
      BY <3>1, LevelsNat DEF Layers
    <3>3. B[m] = L
      BY DEF Layers, m
    <3>4. B[m - 1] < L /\ L <= B[m]
      BY <1>3, <3>2, <3>3
    <3>5. H[L] = o[m]
      BY <3>1, <3>4 DEF Layers
    <3> QED
      BY <2>2, <3>5 DEF Inner, m
  <2> QED
    BY <2>1, <2>2
<1>5. ASSUME NEW i \in 1..L PROVE H[i] \in 0..Len(s) /\ (H[i] # 0 => ~Ended(s, H[i], Len(s)))
  <2>1. CASE i = 1
    BY <1>1, <1>3, <2>1
  <2>2. CASE i # 1
    <3>1. PICK j \in 1..Len(o) : H[i] = o[j]
      <4>1. i \in 2..L
        BY <1>3, <2>2
      <4> QED
        BY <4>1 DEF Layers
    <3>2. o[j] \in DOMAIN s /\ ~Ended(s, o[j], Len(s))
      BY <1>1, <3>1 DEF WellNested
    <3> QED
      BY <1>1, <3>1, <3>2
  <2> QED
    BY <2>1, <2>2
<1> QED
  BY <1>3, <1>4, <1>5

\* A token without a body.
LEMMA LayersPlain ==
    ASSUME NEW o \in Seq(Nat), NEW s \in Seq(TokenType), WellNested(o, s), NEW t,
           NEW L, NEW H, NEW B, Layers(L, o, s, H, B)
    PROVE  Layers(L, o, Append(s, t), H, B)
<1> DEFINE r == Append(s, t)
<1>1. \A p \in DOMAIN s : r[p] = s[p]
  OBVIOUS
<1>2. DOMAIN o = 1..Len(o)
  OBVIOUS
<1> HIDE DEF r
<1>3. \A j \in 1..Len(o) : r[o[j]] = s[o[j]]
  BY <1>1, <1>2 DEF WellNested
<1> QED
  BY <1>3 DEF Layers, r

\* A statement is entered.
EnteredLayers(H, L, K, p) == [i \in 1..K |-> IF i <= L THEN H[i] ELSE p]

LEMMA LayersOpen ==
    ASSUME NEW o \in Seq(Nat), NEW s \in Seq(TokenType), WellNested(o, s),
           NEW t, NEW K, NEW L, NEW H, NEW B, Layers(L, o, s, H, B),
           K = L + Levels(t.k)
    PROVE  \E C : Layers(K, Append(o, Len(s) + 1), Append(s, t),
                         EnteredLayers(H, L, K, Len(s) + 1), C)
<1> DEFINE r == Append(s, t)
           m == Len(o)
           p == Len(s) + 1
           w == Append(o, p)
           G == EnteredLayers(H, L, K, p)
           C == [j \in 0..(m + 1) |-> IF j = m + 1 THEN K ELSE B[j]]
<1>1. /\ m \in Nat /\ p \in Nat \ {0} /\ Len(w) = m + 1 /\ w[m + 1] = p
      /\ \A j \in 1..m : w[j] = o[j] /\ o[j] \in Nat
  OBVIOUS
<1>2. /\ DOMAIN o = 1..m /\ DOMAIN s = 1..(p - 1) /\ r[p] = t /\ \A q \in 1..(p - 1) : r[q] = s[q]
  OBVIOUS
<1>3. L \in Nat \ {0} /\ (\A i \in 1..L : H[i] \in 0..(p - 1)) /\ H[1] = 0
  BY LayerFacts
<1>4. K \in Nat /\ Levels(t.k) \in {1, 2} /\ K > L
  BY <1>3, LevelsNat
<1> HIDE DEF r, m, p, w
<1>5. \A j \in 1..m : o[j] \in 1..(p - 1) /\ r[o[j]] = s[o[j]]
  BY <1>2 DEF WellNested
<1>6. /\ H \in [1..L -> Nat] /\ B \in [0..m -> Nat] /\ B[0] = 1 /\ B[m] = L
      /\ \A j \in 1..m : B[j] = B[j - 1] + Levels(s[o[j]].k)
      /\ \A j \in 0..m : B[j] >= 1
      /\ \A j \in 1..m, i \in 1..L : H[i] = o[j] <=> (B[j - 1] < i /\ i <= B[j])
      /\ \A i \in 2..L : \E j \in 1..m : H[i] = o[j]
  BY DEF Layers, m
<1>7. G \in [1..K -> Nat] /\ (\A i \in 1..L : G[i] = H[i]) /\ \A i \in (L + 1)..K : G[i] = p
  <2>1. \A i \in 1..K : i <= L => i \in 1..L
    BY <1>3
  <2>2. \A i \in 1..L : i \in 1..K /\ i <= L
    BY <1>3, <1>4
  <2>3. \A i \in (L + 1)..K : i \in 1..K /\ ~(i <= L)
    BY <1>3, <1>4
  <2> QED
    BY <1>1, <1>6, <2>1, <2>2, <2>3 DEF EnteredLayers
<1>8. C \in [0..(m + 1) -> Nat] /\ C[m + 1] = K /\ \A j \in 0..m : C[j] = B[j]
  <2>1. \A j \in 0..(m + 1) : j # m + 1 => j \in 0..m
    BY <1>1
  <2>2. m + 1 \in 0..(m + 1) /\ \A j \in 0..m : j \in 0..(m + 1) /\ j # m + 1
    BY <1>1
  <2> QED
    BY <1>4, <1>6, <2>1, <2>2
<1> HIDE DEF G, C
<1>9. \A j \in 1..(m + 1) : C[j] = C[j - 1] + Levels(r[w[j]].k)
  <2> TAKE j \in 1..(m + 1)
  <2>1. CASE j = m + 1
    <3>1. C[j - 1] = L
      <4>1. j - 1 = m /\ m \in 0..m
        BY <1>1, <2>1
      <4> QED
        BY <1>6, <1>8, <4>1
    <3>2. C[j] = K /\ r[w[j]] = t
      BY <1>1, <1>2, <1>8, <2>1
    <3>3. K = L + Levels(r[w[j]].k)
      BY <3>2
    <3> QED
      BY <3>1, <3>2, <3>3
  <2>2. CASE j # m + 1
    <3>1. j \in 1..m /\ j \in 0..m /\ j - 1 \in 0..m
      BY <1>1, <2>2
    <3>2. C[j] = B[j] /\ C[j - 1] = B[j - 1] /\ r[w[j]] = s[o[j]]
      BY <1>1, <1>5, <1>8, <3>1
    <3>3. B[j] = B[j - 1] + Levels(s[o[j]].k)
      BY <1>6, <3>1
    <3> QED
      BY <3>2, <3>3
  <2> QED
    BY <2>1, <2>2
<1>10. \A j \in 0..(m + 1) : C[j] >= 1
  <2> TAKE j \in 0..(m + 1)
  <2>1. j = m + 1 \/ j \in 0..m
    BY <1>1
  <2> QED
    BY <1>3, <1>4, <1>6, <1>8, <2>1
<1>11. \A j \in 1..m : C[j] <= L
  <2> DEFINE T == {j \in 0..m : B[m - j] > L}
  <2>a. \A j \in 1..m : j \in 0..m /\ C[j] \in Nat
    <3>1. \A j \in 1..m : j \in 0..m
      BY <1>1
    <3> QED
      BY <1>6, <1>8, <3>1
  <2>b. L \in Nat
    BY <1>3
  <2> HIDE DEF T
  <2> SUFFICES ASSUME NEW j \in 1..m, C[j] > L PROVE FALSE
    BY <2>a, <2>b
  <2> USE DEF T
  <2>1. m - j \in T
    <3>1. m - j \in 0..m /\ m - (m - j) = j /\ j \in 0..m
      BY <1>1
    <3> QED
      BY <1>8, <3>1
  <2>2. T \in SUBSET Nat
    BY <1>1
  <2> HIDE DEF T
  <2>3. PICK x \in T : \A y \in T : x <= y
    BY <2>1, <2>2, LeastElement
  <2>4. x \in 0..m /\ B[m - x] > L
    BY <2>3 DEF T
  <2>5. x # 0
    BY <1>1, <1>3, <1>6, <2>4
  <2>6. x - 1 \in 0..m /\ x - 1 \notin T
    BY <1>1, <2>3, <2>4, <2>5
  <2>7. ~(B[m - (x - 1)] > L)
    BY <2>6 DEF T
  <2> DEFINE y == m - (x - 1)
  <2>8. y \in 1..m /\ y - 1 = m - x /\ y - 1 \in 0..m /\ y \in 0..m
    BY <1>1, <2>4, <2>5
  <2>9. B[y] = B[y - 1] + Levels(s[o[y]].k) /\ Levels(s[o[y]].k) \in {1, 2}
    BY <1>6, <2>8, LevelsNat
  <2>10. B[y - 1] > L /\ ~(B[y] > L) /\ B[y] \in Nat /\ B[y - 1] \in Nat
    BY <1>6, <2>4, <2>7, <2>8
  <2> HIDE DEF y
  <2> QED
    BY <1>3, <2>9, <2>10
<1>12. \A j \in 1..(m + 1), i \in 1..K : G[i] = w[j] <=> (C[j - 1] < i /\ i <= C[j])
  <2> TAKE j \in 1..(m + 1), i \in 1..K
  <2>0. i \in 1..L \/ i \in (L + 1)..K
    BY <1>3, <1>4
  <2>1. CASE j = m + 1
    <3>1. w[j] = p /\ C[j] = K
      BY <1>1, <1>8, <2>1
    <3>2. C[j - 1] = L
      <4>1. j - 1 = m /\ m \in 0..m
        BY <1>1, <2>1
      <4> QED
        BY <1>6, <1>8, <4>1
    <3>3. CASE i \in 1..L
      <4>0. G[i] = H[i] /\ H[i] \in 0..(p - 1)
        BY <1>3, <1>7, <3>3
      <4>a. ~(L < i)
        BY <1>3, <3>3
      <4>1. G[i] \in 0..(p - 1) /\ ~(L < i)
        BY <4>0, <4>a
      <4> QED
        BY <1>1, <3>1, <3>2, <4>1
    <3>4. CASE i \in (L + 1)..K
      <4>1. G[i] = p /\ L < i /\ i <= K
        BY <1>3, <1>4, <1>7, <3>4
      <4> QED
        BY <3>1, <3>2, <4>1
    <3> QED
      BY <2>0, <3>3, <3>4
  <2>2. CASE j # m + 1
    <3>1. j \in 1..m /\ j \in 0..m /\ j - 1 \in 0..m
      BY <1>1, <2>2
    <3>2. w[j] = o[j] /\ C[j] = B[j] /\ C[j - 1] = B[j - 1] /\ C[j] <= L /\ o[j] \in 1..(p - 1)
      BY <1>1, <1>5, <1>8, <1>11, <3>1
    <3>3. CASE i \in 1..L
      <4>1. G[i] = H[i]
        BY <1>7, <3>3
      <4> QED
        BY <1>6, <3>1, <3>2, <3>3, <4>1
    <3>4. CASE i \in (L + 1)..K
      <4>1. G[i] = p /\ B[j] \in Nat
        BY <1>6, <1>7, <3>1, <3>4
      <4>2. ~(i <= C[j])
        BY <1>3, <3>2, <3>4, <4>1
      <4> QED
        BY <1>1, <3>2, <4>1, <4>2
    <3> QED
      BY <2>0, <3>3, <3>4
  <2> QED
    BY <2>1, <2>2
<1>13. \A i \in 2..K : \E j \in 1..(m + 1) : G[i] = w[j]
  <2> TAKE i \in 2..K
  <2>1. CASE i \in 2..L
    <3>1. PICK j \in 1..m : H[i] = o[j]
      BY <1>6, <2>1
    <3>2. j \in 1..(m + 1) /\ w[j] = o[j] /\ i \in 1..L
      BY <1>1, <1>3, <2>1
    <3> QED
      BY <1>7, <3>1, <3>2
  <2>2. CASE i \notin 2..L
    <3>1. i \in (L + 1)..K /\ m + 1 \in 1..(m + 1)
      BY <1>1, <1>3, <1>4, <2>2
    <3> QED
      BY <1>1, <1>7, <3>1
  <2> QED
    BY <2>1, <2>2
<1>14. G[1] = 0 /\ C[0] = 1
  <2>1. 1 \in 1..L /\ 0 \in 0..m
    BY <1>1, <1>3
  <2> QED
    BY <1>3, <1>6, <1>7, <1>8, <2>1
<1>15. Layers(K, w, r, G, C)
  <2>1. Len(w) = m + 1 /\ K \in Nat /\ G \in [1..K -> Nat] /\ C \in [0..(m + 1) -> Nat]
        /\ C[m + 1] = K
    BY <1>1, <1>4, <1>7, <1>8
  <2> QED
    BY ONLY <2>1, <1>9, <1>10, <1>12, <1>13, <1>14 DEF Layers
<1> QED
  BY <1>15 DEF w, r, G, p

\* The innermost statement ends.
LEMMA LayersEnd ==
    ASSUME NEW o \in Seq(Nat), NEW s \in Seq(TokenType), WellNested(o, s), o # <<>>,
           NEW t, NEW K, NEW L, NEW H, NEW B, Layers(L, o, s, H, B),
           K = L - Levels(s[Inner(o)].k)
    PROVE  /\ K \in Nat /\ K < L
           /\ \A i \in 1..L : H[i] = Inner(o) <=> i > K
           /\ \E C : Layers(K, SubSeq(o, 1, Len(o) - 1), Append(s, t), [i \in 1..K |-> H[i]], C)
<1> DEFINE r == Append(s, t)
           m == Len(o)
           w == SubSeq(o, 1, m - 1)
           G == [i \in 1..K |-> H[i]]
           C == [j \in 0..(m - 1) |-> B[j]]
<1>1. /\ m \in Nat \ {0} /\ Len(w) = m - 1 /\ DOMAIN o = 1..m
      /\ \A j \in 1..(m - 1) : w[j] = o[j]
  <2>1. m \in Nat \ {0} /\ DOMAIN o = 1..m /\ 1 \in 1..m
    OBVIOUS
  <2> QED
    BY <2>1, Popped
<1>2. \A p \in DOMAIN s : r[p] = s[p]
  OBVIOUS
<1> HIDE DEF r, m, w
<1>3. \A j \in 1..m : r[o[j]] = s[o[j]]
  BY <1>1, <1>2 DEF WellNested
<1>4. Inner(o) = o[m]
  BY DEF Inner, m
<1>5. /\ L \in Nat /\ H \in [1..L -> Nat] /\ B \in [0..m -> Nat] /\ B[0] = 1 /\ B[m] = L
      /\ L >= 1 => H[1] = 0
      /\ \A j \in 1..m : B[j] = B[j - 1] + Levels(s[o[j]].k)
      /\ \A j \in 0..m : B[j] >= 1
      /\ \A j \in 1..m, i \in 1..L : H[i] = o[j] <=> (B[j - 1] < i /\ i <= B[j])
      /\ \A i \in 2..L : \E j \in 1..m : H[i] = o[j]
  BY DEF Layers, m
<1>6. m \in 1..m /\ m - 1 \in 0..m
  BY <1>1
<1> DEFINE lv == Levels(s[o[m]].k)
<1>7. lv \in {1, 2} /\ B[m - 1] \in Nat /\ B[m - 1] >= 1
  BY <1>5, <1>6, LevelsNat
<1>7a. B[m] = B[m - 1] + lv /\ B[m] = L /\ K = L - lv
  BY <1>4, <1>5, <1>6
<1> HIDE DEF lv
<1>8. B[m - 1] = K /\ K \in Nat /\ K < L /\ K >= 1
  BY <1>7, <1>7a
<1>9. \A i \in 1..L : H[i] = Inner(o) <=> i > K
  <2> TAKE i \in 1..L
  <2>1. H[i] = o[m] <=> (K < i /\ i <= L)
    BY <1>5, <1>6, <1>8
  <2> QED
    BY <1>4, <1>8, <2>1
<1>10. G \in [1..K -> Nat] /\ \A i \in 1..K : i \in 1..L /\ G[i] = H[i]
  BY <1>5, <1>8
<1>11. C \in [0..(m - 1) -> Nat] /\ \A j \in 0..(m - 1) : j \in 0..m /\ C[j] = B[j]
  BY <1>1, <1>5
<1> HIDE DEF G, C
<1>12. \A j \in 1..(m - 1) : j \in 1..m /\ C[j] = B[j] /\ C[j - 1] = B[j - 1] /\ w[j] = o[j]
  <2> TAKE j \in 1..(m - 1)
  <2>1. j \in 0..(m - 1) /\ j - 1 \in 0..(m - 1) /\ j \in 1..m
    BY <1>1
  <2> QED
    BY <1>1, <1>11, <2>1
<1>13. C[0] = 1 /\ C[m - 1] = K
  <2>1. 0 \in 0..(m - 1) /\ m - 1 \in 0..(m - 1)
    BY <1>1
  <2> QED
    BY <1>5, <1>8, <1>11, <2>1
<1>14. \A i \in 2..K : \E j \in 1..(m - 1) : G[i] = w[j]
  <2> TAKE i \in 2..K
  <2>0. K \in Nat /\ L \in Nat /\ K < L
    BY <1>5, <1>8
  <2>1. i \in 2..L /\ i \in 1..K /\ i \in 1..L /\ ~(i > K)
    BY <2>0
  <2>2. PICK j \in 1..m : H[i] = o[j]
    BY <1>5, <2>1
  <2>3. j # m
    BY <1>4, <1>9, <2>1, <2>2
  <2>4. j \in 1..(m - 1)
    BY <1>1, <2>3
  <2> QED
    BY <1>10, <1>12, <2>1, <2>2, <2>4
<1>15. Layers(K, w, r, G, C)
  <2>1. \A j \in 1..(m - 1) : C[j] = C[j - 1] + Levels(r[w[j]].k)
    <3> TAKE j \in 1..(m - 1)
    <3>1. j \in 1..m /\ C[j] = B[j] /\ C[j - 1] = B[j - 1] /\ r[w[j]] = s[o[j]]
      BY <1>3, <1>12
    <3>2. B[j] = B[j - 1] + Levels(s[o[j]].k)
      BY <1>5, <3>1
    <3> QED
      BY <3>1, <3>2
  <2>2. \A j \in 0..(m - 1) : C[j] >= 1
    BY <1>5, <1>11
  <2>3. \A j \in 1..(m - 1), i \in 1..K : G[i] = w[j] <=> (C[j - 1] < i /\ i <= C[j])
    <3> TAKE j \in 1..(m - 1), i \in 1..K
    <3>1. j \in 1..m /\ C[j] = B[j] /\ C[j - 1] = B[j - 1] /\ w[j] = o[j]
      BY <1>12
    <3>2. i \in 1..L /\ G[i] = H[i]
      BY <1>10
    <3> QED
      BY <1>5, <3>1, <3>2
  <2>4. K >= 1 => G[1] = 0
    <3>1. 1 \in 1..K
      BY <1>8
    <3> QED
      BY <1>5, <1>8, <1>10, <3>1
  <2> QED
    BY <1>1, <1>8, <1>10, <1>11, <1>13, <1>14, <2>1, <2>2, <2>3, <2>4 DEF Layers
<1> QED
  BY <1>8, <1>9, <1>15 DEF w, r, G, m

(***************************************************************************)
(* What the scopes hold.                                                    *)
(***************************************************************************)
\* d gives, for each of the scopes S, the declaration of n that it holds, 0 for
\* none: PASS 2 has put the functions G into the outermost scope.  Inner scopes
\* hold later declarations, and every declaration in scope is held by the scope
\* of its statement, or a later one is.
Held(S, H, s, G, v, d, n) ==
    /\ d \in [1..Len(S) -> 0..Len(s)]
    /\ \A i \in 1..Len(S) : d[i] = 0 =>
          S[i][n] = Absent \/ (i = 1 /\ n \in G /\ S[i][n] = "Function")
    /\ \A i \in 1..Len(S) : d[i] # 0 =>
          /\ DeclaresBy(s, v, d[i], n) /\ SHome(s, d[i], n) = H[i]
          /\ S[i][n] = SDeclaredType(s, d[i], n) /\ S[i][n] # Absent
    /\ \A i, j \in 1..Len(S) : i < j /\ d[i] # 0 /\ d[j] # 0 => d[i] < d[j]
    /\ \A p \in 1..Len(s) : DeclaresBy(s, v, p, n) /\ InScopeOf(s, p, n, Len(s)) =>
          \E i \in 1..Len(S) : H[i] = SHome(s, p, n) /\ p <= d[i]

\* w continues v by one token.
Continues(s, v, t, w) ==
    VisibleIs(s, v) /\ VisibleIs(Append(s, t), w) /\ \A q \in 0..Len(s) : w[q] = v[q]

LEMMA Continued ==
    ASSUME NEW s \in Seq(TokenType), NEW v, VisibleIs(s, v), NEW t
    PROVE  \E w : Continues(s, v, t, w) /\ VisibleIs(Append(s, t), w)
<1>1. PICK w : VisibleIs(Append(s, t), w) /\ \A q \in 0..Len(s) : w[q] = v[q]
  BY VisibleExtends
<1> QED
  BY <1>1 DEF Continues

\* What was said of the tokens before still holds.
LEMMA EarlierTokens ==
    ASSUME NEW s \in Seq(TokenType), NEW v, NEW t, NEW w, Continues(s, v, t, w), NEW n \in Names
    PROVE  \A p \in 1..Len(s) :
              /\ DeclaresBy(Append(s, t), w, p, n) <=> DeclaresBy(s, v, p, n)
              /\ SHome(Append(s, t), p, n) = SHome(s, p, n)
              /\ SDeclaredType(Append(s, t), p, n) = SDeclaredType(s, p, n)
              /\ InScopeOf(Append(s, t), p, n, Len(s) + 1) <=>
                    /\ InScopeOf(s, p, n, Len(s))
                    /\ SHome(s, p, n) = 0 \/ ~(t.k = "end" /\ t.up = SHome(s, p, n))
<1> DEFINE r == Append(s, t)
           m == Len(s)
<1>1. m \in Nat /\ \A p \in 1..m : r[p] = s[p]
  OBVIOUS
<1>2. \A h : Ended(r, h, m + 1) <=> Ended(s, h, m) \/ (t.k = "end" /\ t.up = h)
  BY EndedAppend
<1> HIDE DEF r, m
<1>3. Agree(s, v, r, w, m, n)
  <2> SUFFICES ASSUME NEW p \in 1..m
               PROVE  w[p - 1][n] = v[p - 1][n] /\ v[p - 1][n] \in 0..(p - 1)
    BY <1>1 DEF Agree
  <2>1. p - 1 \in 0..m
    BY <1>1
  <2> QED
    BY <2>1, VisibleAt DEF Continues, m
<1>4. \A p \in 1..m : /\ DeclaresBy(r, w, p, n) <=> DeclaresBy(s, v, p, n)
                      /\ SHome(r, p, n) = SHome(s, p, n)
                      /\ SDeclaredType(r, p, n) = SDeclaredType(s, p, n)
  BY <1>1, <1>3, SeenSame
<1>5. \A p \in 1..m : InScopeOf(r, p, n, m + 1) <=>
                    /\ InScopeOf(s, p, n, m)
                    /\ SHome(s, p, n) = 0 \/ ~(t.k = "end" /\ t.up = SHome(s, p, n))
  BY <1>2, <1>4 DEF InScopeOf
<1> QED
  BY <1>4, <1>5 DEF r, m

\* n is declared in scope x of T, 0 for none; the scopes S are the outer ones.
Column(S, T, n, x, type) ==
    /\ x \in 0..Len(T) /\ (x # 0 => x >= Len(S) /\ T[x][n] = type)
    /\ \A i \in 1..Len(T) : i # x => T[i][n] = IF i <= Len(S) THEN S[i][n] ELSE Absent

\* A token that ends nothing.
LEMMA HeldGrows ==
    ASSUME NEW s \in Seq(TokenType), NEW v, NEW t, NEW w, Continues(s, v, t, w), NEW n \in Names,
           t.k # "end",
           NEW S, Len(S) \in Nat, NEW H, NEW G, NEW d, Held(S, H, s, G, v, d, n),
           NEW T, Len(T) \in Nat, Len(T) >= Len(S), NEW J, \A i \in 1..Len(S) : J[i] = H[i],
           NEW x, NEW type, Column(S, T, n, x, type),
           DeclaresBy(Append(s, t), w, Len(s) + 1, n) <=> x # 0,
           x # 0 => /\ type = SDeclaredType(Append(s, t), Len(s) + 1, n) /\ type # Absent
                    /\ J[x] = SHome(Append(s, t), Len(s) + 1, n)
    PROVE  \E e : Held(T, J, Append(s, t), G, w, e, n)
<1> DEFINE r == Append(s, t)
           m == Len(s)
           e == [i \in 1..Len(T) |-> IF i = x THEN m + 1 ELSE IF i <= Len(S) THEN d[i] ELSE 0]
<1>1. m \in Nat /\ Len(r) = m + 1
  OBVIOUS
<1> HIDE DEF r, m
<1>2. \A p \in 1..m :
              /\ DeclaresBy(r, w, p, n) <=> DeclaresBy(s, v, p, n)
              /\ SHome(r, p, n) = SHome(s, p, n)
              /\ SDeclaredType(r, p, n) = SDeclaredType(s, p, n)
              /\ InScopeOf(r, p, n, m + 1) => InScopeOf(s, p, n, m)
  BY EarlierTokens DEF r, m
<1>3. x \in Nat /\ x <= Len(T) /\ (x # 0 => x >= Len(S))
  BY DEF Column
<1>4. /\ d \in [1..Len(S) -> 0..m]
      /\ \A i \in 1..Len(S) : d[i] = 0 =>
            S[i][n] = Absent \/ (i = 1 /\ n \in G /\ S[i][n] = "Function")
      /\ \A i \in 1..Len(S) : d[i] # 0 =>
            /\ DeclaresBy(s, v, d[i], n) /\ SHome(s, d[i], n) = H[i]
            /\ S[i][n] = SDeclaredType(s, d[i], n) /\ S[i][n] # Absent
      /\ \A i, j \in 1..Len(S) : i < j /\ d[i] # 0 /\ d[j] # 0 => d[i] < d[j]
      /\ \A p \in 1..m : DeclaresBy(s, v, p, n) /\ InScopeOf(s, p, n, m) =>
            \E i \in 1..Len(S) : H[i] = SHome(s, p, n) /\ p <= d[i]
  BY DEF Held, m
<1>5. \A i \in 1..Len(T) : /\ i = x => e[i] = m + 1
                           /\ i # x /\ i <= Len(S) =>
                                 e[i] = d[i] /\ i \in 1..Len(S) /\ d[i] \in 0..m
                           /\ i # x /\ ~(i <= Len(S)) => e[i] = 0
  BY <1>4
<1>6. e \in [1..Len(T) -> 0..(m + 1)]
  <2>1. \A i \in 1..Len(T) : e[i] \in 0..(m + 1)
    BY <1>1, <1>5
  <2>2. e = [i \in 1..Len(T) |-> e[i]]
    OBVIOUS
  <2> HIDE DEF e
  <2> QED
    BY <2>1, <2>2
<1> HIDE DEF e
<1>7. \A i \in 1..Len(T) : i # x => T[i][n] = IF i <= Len(S) THEN S[i][n] ELSE Absent
  BY DEF Column
<1>8. ASSUME NEW i \in 1..Len(T), e[i] = 0
      PROVE  T[i][n] = Absent \/ (i = 1 /\ n \in G /\ T[i][n] = "Function")
  <2>1. i # x
    BY <1>1, <1>5, <1>8
  <2>2. CASE i <= Len(S)
    BY <1>4, <1>5, <1>7, <1>8, <2>1, <2>2
  <2>3. CASE ~(i <= Len(S))
    BY <1>7, <2>1, <2>3
  <2> QED
    BY <2>2, <2>3
<1>9. ASSUME NEW i \in 1..Len(T), e[i] # 0
      PROVE  /\ DeclaresBy(r, w, e[i], n) /\ SHome(r, e[i], n) = J[i]
             /\ T[i][n] = SDeclaredType(r, e[i], n) /\ T[i][n] # Absent
  <2>1. CASE i = x
    <3>1. x # 0 /\ e[i] = m + 1
      BY <1>5, <2>1
    <3>2. T[x][n] = type
      BY <3>1 DEF Column
    <3> QED
      BY <2>1, <3>1, <3>2 DEF r, m
  <2>2. CASE i # x
    <3>1. i <= Len(S)
      BY <1>5, <1>9, <2>2
    <3>2. e[i] = d[i] /\ i \in 1..Len(S) /\ d[i] \in 0..m /\ T[i][n] = S[i][n]
      BY <1>5, <1>7, <2>2, <3>1
    <3>3. d[i] \in 1..m /\ d[i] # 0
      BY <1>1, <1>9, <3>2
    <3> QED
      BY <1>2, <1>4, <3>2, <3>3
  <2> QED
    BY <2>1, <2>2
<1>10. ASSUME NEW i \in 1..Len(T), NEW j \in 1..Len(T), i < j, e[i] # 0, e[j] # 0
       PROVE  e[i] < e[j]
  <2>1. i # x
    <3> SUFFICES ASSUME i = x PROVE FALSE
      OBVIOUS
    <3>1. x >= Len(S) /\ j # x
      BY <1>3, <1>10
    <3>2. ~(j <= Len(S))
      BY <1>3, <1>10, <3>1
    <3> QED
      BY <1>5, <1>10, <3>1, <3>2
  <2>2. i <= Len(S) /\ e[i] = d[i] /\ i \in 1..Len(S) /\ d[i] \in 0..m
    BY <1>5, <1>10, <2>1
  <2>3. CASE j = x
    BY <1>1, <1>5, <2>2, <2>3
  <2>4. CASE j # x
    <3>1. j <= Len(S) /\ e[j] = d[j] /\ j \in 1..Len(S)
      BY <1>5, <1>10, <2>4
    <3> QED
      BY <1>4, <1>10, <2>2, <3>1
  <2> QED
    BY <2>3, <2>4
<1>11. ASSUME NEW p \in 1..(m + 1), DeclaresBy(r, w, p, n), InScopeOf(r, p, n, m + 1)
       PROVE  \E i \in 1..Len(T) : J[i] = SHome(r, p, n) /\ p <= e[i]
  <2>1. CASE p = m + 1
    <3>1. x # 0 /\ J[x] = SHome(r, p, n)
      BY <1>11, <2>1 DEF r, m
    <3>2. x \in 1..Len(T) /\ e[x] = m + 1
      BY <1>3, <1>5, <3>1
    <3> QED
      BY <1>1, <2>1, <3>1, <3>2
  <2>2. CASE p # m + 1
    <3>1. p \in 1..m
      BY <1>1, <2>2
    <3>2. PICK i \in 1..Len(S) : H[i] = SHome(s, p, n) /\ p <= d[i]
      BY <1>2, <1>4, <1>11, <3>1
    <3>3. i \in 1..Len(T) /\ i <= Len(S) /\ J[i] = SHome(r, p, n) /\ d[i] \in 0..m
      BY <1>2, <1>4, <3>1, <3>2
    <3>4. p <= e[i]
      BY <1>1, <1>5, <3>1, <3>2, <3>3
    <3> QED
      BY <3>3, <3>4
  <2> QED
    BY <2>1, <2>2
<1>12. Held(T, J, r, G, w, e, n)
  BY <1>1, <1>6, <1>8, <1>9, <1>10, <1>11 DEF Held
<1> QED
  BY <1>12 DEF r

\* The scopes S become T, without those of the statement that t ends.
Leaves(S, H, t, T, J) ==
    /\ t.k = "end" /\ t.up # 0 /\ Len(T) \in Nat /\ Len(T) < Len(S)
    /\ \A i \in 1..Len(T) : T[i] = S[i] /\ J[i] = H[i]
    /\ \A i \in 1..Len(S) : H[i] = t.up <=> i > Len(T)

\* The innermost statement ends.
LEMMA HeldEnds ==
    ASSUME NEW s \in Seq(TokenType), NEW v, NEW t, NEW w, Continues(s, v, t, w), NEW n \in Names,
           NEW S, Len(S) \in Nat, NEW H, NEW G, NEW d, Held(S, H, s, G, v, d, n),
           NEW T, NEW J, Leaves(S, H, t, T, J),
           ~DeclaresBy(Append(s, t), w, Len(s) + 1, n)
    PROVE  \E e : Held(T, J, Append(s, t), G, w, e, n)
<1> DEFINE r == Append(s, t)
           m == Len(s)
           e == [i \in 1..Len(T) |-> d[i]]
<1>0. /\ t.k = "end" /\ t.up # 0 /\ Len(T) \in Nat /\ Len(T) < Len(S)
      /\ \A i \in 1..Len(T) : T[i] = S[i] /\ J[i] = H[i]
      /\ \A i \in 1..Len(S) : H[i] = t.up <=> i > Len(T)
  BY DEF Leaves
<1>1. m \in Nat /\ Len(r) = m + 1
  OBVIOUS
<1> HIDE DEF r, m
<1>2. \A p \in 1..m :
              /\ DeclaresBy(r, w, p, n) <=> DeclaresBy(s, v, p, n)
              /\ SHome(r, p, n) = SHome(s, p, n)
              /\ SDeclaredType(r, p, n) = SDeclaredType(s, p, n)
              /\ InScopeOf(r, p, n, m + 1) => InScopeOf(s, p, n, m) /\ SHome(s, p, n) # t.up
  BY <1>0, EarlierTokens DEF r, m
<1>4. /\ d \in [1..Len(S) -> 0..m]
      /\ \A i \in 1..Len(S) : d[i] = 0 =>
            S[i][n] = Absent \/ (i = 1 /\ n \in G /\ S[i][n] = "Function")
      /\ \A i \in 1..Len(S) : d[i] # 0 =>
            /\ DeclaresBy(s, v, d[i], n) /\ SHome(s, d[i], n) = H[i]
            /\ S[i][n] = SDeclaredType(s, d[i], n) /\ S[i][n] # Absent
      /\ \A i, j \in 1..Len(S) : i < j /\ d[i] # 0 /\ d[j] # 0 => d[i] < d[j]
      /\ \A p \in 1..m : DeclaresBy(s, v, p, n) /\ InScopeOf(s, p, n, m) =>
            \E i \in 1..Len(S) : H[i] = SHome(s, p, n) /\ p <= d[i]
  BY DEF Held, m
<1>5. \A i \in 1..Len(T) : /\ i \in 1..Len(S) /\ e[i] = d[i] /\ J[i] = H[i] /\ T[i] = S[i]
                           /\ d[i] \in 0..m
  <2> TAKE i \in 1..Len(T)
  <2>1. i \in 1..Len(S)
    BY <1>0
  <2>2. e[i] = d[i]
    OBVIOUS
  <2>3. d[i] \in 0..m
    BY <1>4, <2>1
  <2> QED
    BY <1>0, <2>1, <2>2, <2>3
<1>6. e \in [1..Len(T) -> 0..(m + 1)]
  <2>1. \A i \in 1..Len(T) : d[i] \in 0..(m + 1)
    BY <1>1, <1>5
  <2> QED
    BY <2>1
<1> HIDE DEF e
<1>7. ASSUME NEW i \in 1..Len(T), e[i] # 0
      PROVE  /\ DeclaresBy(r, w, e[i], n) /\ SHome(r, e[i], n) = J[i]
             /\ T[i][n] = SDeclaredType(r, e[i], n) /\ T[i][n] # Absent
  <2>1. e[i] = d[i] /\ d[i] # 0 /\ i \in 1..Len(S) /\ T[i] = S[i] /\ J[i] = H[i]
    BY <1>5, <1>7
  <2>2. d[i] \in 1..m
    BY <1>1, <1>5, <2>1
  <2> QED
    BY <1>2, <1>4, <2>1, <2>2
<1>8. ASSUME NEW p \in 1..(m + 1), DeclaresBy(r, w, p, n), InScopeOf(r, p, n, m + 1)
      PROVE  \E i \in 1..Len(T) : J[i] = SHome(r, p, n) /\ p <= e[i]
  <2>1. p \in 1..m
    <3>1. p # m + 1
      BY <1>8 DEF r, m
    <3> QED
      BY <1>1, <3>1
  <2>2. PICK i \in 1..Len(S) : H[i] = SHome(s, p, n) /\ p <= d[i]
    BY <1>2, <1>4, <1>8, <2>1
  <2>3. H[i] # t.up
    BY <1>2, <1>8, <2>1, <2>2
  <2>4. i \in 1..Len(T)
    BY <1>0, <2>3
  <2> QED
    BY <1>2, <1>5, <2>1, <2>2, <2>4
<1>9. Held(T, J, r, G, w, e, n)
  <2>1. \A i, j \in 1..Len(T) : i < j /\ e[i] # 0 /\ e[j] # 0 => e[i] < e[j]
    BY <1>4, <1>5
  <2>2. \A i \in 1..Len(T) : e[i] = 0 =>
          T[i][n] = Absent \/ (i = 1 /\ n \in G /\ T[i][n] = "Function")
    BY <1>4, <1>5
  <2> QED
    BY <1>1, <1>6, <1>7, <1>8, <2>1, <2>2 DEF Held
<1> QED
  BY <1>9 DEF r

(***************************************************************************)
(* lookup_variable returns the type of the declaration that is visible.     *)
(***************************************************************************)
LookupAt(S, o, s, G, v) ==
    /\ VisibleIs(s, v)
    /\ \E H, B : /\ Layers(Len(S), o, s, H, B)
                 /\ \A n \in Names : \E d : Held(S, H, s, G, v, d, n)

LEMMA Found ==
    ASSUME StructureInv, NEW v, LookupAt(tc.scopes, open, src, globals, v), NEW n \in Names
    PROVE  LET type == TypeBy(src, v[Len(src)][n], n)
           IN  lookup_variable(tc, n) = IF type = Null /\ n \in globals THEN "Function" ELSE type
<1> DEFINE S == tc.scopes
           L == Len(S)
           m == Len(src)
           holding == {i \in DOMAIN S : S[i][n] # Absent}
           seen == SeenBy(src, v, m, n)
           type == TypeBy(src, v[m][n], n)
<1>1. /\ m \in Nat /\ L \in Nat /\ DOMAIN S = 1..L /\ src \in Seq(TokenType) /\ open \in Seq(Nat)
      /\ WellNested(open, src)
  <2>1. S \in Seq(Scopes)
    BY StructureFacts
  <2> QED
    BY <2>1, StructureFacts
<1>2. PICK H, B : /\ Layers(L, open, src, H, B)
                  /\ \A x \in Names : \E d : Held(S, H, src, globals, v, d, x)
  BY DEF LookupAt
<1>3. PICK d : Held(S, H, src, globals, v, d, n)
  BY <1>2
<1>4. L \in Nat \ {0} /\ \A i \in 1..L : H[i] # 0 => ~Ended(src, H[i], m)
  BY <1>1, <1>2, LayerFacts
<1>5. v[m][n] = LastOf(seen)
  <2>1. m \in 0..m /\ VisibleIs(src, v)
    BY <1>1 DEF LookupAt
  <2> QED
    BY <1>1, <2>1, VisibleAt
<1>6. lookup_variable(tc, n) =
         LET found == IF holding = {} THEN Null ELSE S[Max(holding)][n]
         IN  IF found = Null /\ n \in globals THEN "Function" ELSE found
  BY DEF lookup_variable
<1>7. /\ seen \in SUBSET (1..m)
      /\ \A p \in seen : p <= LastOf(seen)
      /\ seen # {} => LastOf(seen) \in seen
  BY <1>1, SeenRange
<1>8. holding \in SUBSET Nat /\ \A i : i \in holding <=> i \in 1..L /\ S[i][n] # Absent
  BY <1>1
<1>9. /\ d \in [1..L -> 0..m]
      /\ \A i \in 1..L : d[i] = 0 =>
            S[i][n] = Absent \/ (i = 1 /\ n \in globals /\ S[i][n] = "Function")
      /\ \A i \in 1..L : d[i] # 0 =>
            /\ DeclaresBy(src, v, d[i], n) /\ SHome(src, d[i], n) = H[i]
            /\ S[i][n] = SDeclaredType(src, d[i], n) /\ S[i][n] # Absent
      /\ \A i, j \in 1..L : i < j /\ d[i] # 0 /\ d[j] # 0 => d[i] < d[j]
      /\ \A p \in 1..m : DeclaresBy(src, v, p, n) /\ InScopeOf(src, p, n, m) =>
            \E i \in 1..L : H[i] = SHome(src, p, n) /\ p <= d[i]
  BY <1>3 DEF Held
<1> HIDE DEF S, L, m, holding
<1>10. ASSUME NEW p \in seen
       PROVE  p \in 1..m /\ \E i \in 1..L : p <= d[i]
  <2>1. p \in 1..m /\ DeclaresBy(src, v, p, n) /\ InScopeOf(src, p, n, m)
    BY DEF SeenBy
  <2> QED
    BY <1>9, <2>1
<1>11. CASE \E i \in 1..L : d[i] # 0
  <2> DEFINE I == {i \in 1..L : d[i] # 0}
  <2>1. I \in SUBSET Nat /\ I # {} /\ L \in Nat /\ \A i \in I : i <= L
    BY <1>4, <1>11
  <2>2. PICK k \in I : \A i \in I : i <= k
    <3> HIDE DEF I
    <3> QED
      BY <2>1, MaxBounded
  <2>3. k \in 1..L /\ d[k] # 0 /\ d[k] \in 1..m
    BY <1>1, <1>9, <2>2
  <2>4. d[k] \in seen
    <3>1. DeclaresBy(src, v, d[k], n) /\ SHome(src, d[k], n) = H[k]
      BY <1>9, <2>3
    <3>2. InScopeOf(src, d[k], n, m)
      BY <1>4, <2>3, <3>1 DEF InScopeOf
    <3> QED
      BY <2>3, <3>1, <3>2 DEF SeenBy
  <2>5. \A p \in seen : p <= d[k]
    <3> TAKE p \in seen
    <3>1. PICK i \in 1..L : p <= d[i]
      BY <1>10
    <3>2. p \in 1..m /\ d[i] \in 0..m /\ d[k] \in 0..m
      BY <1>9, <1>10, <2>3
    <3>3. d[i] # 0
      BY <1>1, <3>1, <3>2
    <3>4. i \in I /\ i <= k
      BY <2>2, <3>3
    <3>5. i = k \/ i < k
      BY <1>4, <2>3, <3>4
    <3>6. d[i] <= d[k]
      BY <1>1, <1>9, <2>3, <3>2, <3>3, <3>5
    <3> QED
      BY <1>1, <3>1, <3>2, <3>6
  <2> HIDE DEF seen, I
  <2>6. LastOf(seen) = d[k]
    <3>1. LastOf(seen) \in seen /\ d[k] <= LastOf(seen) /\ LastOf(seen) <= d[k]
      BY <1>7, <2>4, <2>5
    <3>2. LastOf(seen) \in 1..m
      BY <1>7, <3>1
    <3> QED
      BY <1>1, <2>3, <3>1, <3>2
  <2>7. type = S[k][n] /\ S[k][n] # Absent
    BY <1>5, <1>9, <2>3, <2>6 DEF TypeBy, seen
  <2>8. \A i \in holding : i <= k
    <3> TAKE i \in holding
    <3>1. i \in 1..L /\ S[i][n] # Absent
      BY <1>8
    <3>2. CASE d[i] # 0
      BY <2>2, <3>1, <3>2 DEF I
    <3>3. CASE d[i] = 0
      <4>1. i = 1
        BY <1>9, <3>1, <3>3
      <4> QED
        BY <1>4, <2>3, <4>1
    <3> QED
      BY <3>2, <3>3
  <2>9. k \in holding
    BY <1>8, <2>3, <2>7
  <2>10. Max(holding) = k /\ holding # {}
    BY <1>8, <2>8, <2>9, MaxUnique
  <2> QED
    BY <1>6, <2>7, <2>10 DEF m, S
<1>12. CASE ~\E i \in 1..L : d[i] # 0
  <2>1. seen = {}
    <3> SUFFICES ASSUME NEW p \in seen PROVE FALSE
      OBVIOUS
    <3>1. PICK i \in 1..L : p <= d[i]
      BY <1>10
    <3>2. d[i] = 0 /\ p \in 1..m
      BY <1>10, <1>12
    <3> QED
      BY <1>1, <3>1, <3>2
  <2>2. type = Null
    BY <1>5, <2>1 DEF LastOf, TypeBy
  <2>3. \A i \in holding : i = 1 /\ n \in globals /\ S[i][n] = "Function"
    BY <1>8, <1>9, <1>12
  <2>4. CASE holding = {}
    BY <1>6, <2>2, <2>4 DEF m
  <2>5. CASE holding # {}
    <3>1. 1 \in holding /\ \A i \in holding : i <= 1
      BY <2>3, <2>5
    <3>2. Max(holding) = 1
      BY <1>8, <3>1, MaxUnique
    <3>3. S[Max(holding)][n] = "Function" /\ n \in globals
      BY <2>3, <3>1, <3>2
    <3> QED
      BY <1>6, <2>2, <2>5, <3>3 DEF m, Null
  <2> QED
    BY <2>4, <2>5
<1> QED
  BY <1>11, <1>12

(***************************************************************************)
(* What each step does to the scopes.                                       *)
(***************************************************************************)
\* the newest token t declares n, which had the type "before"; the statement
\* whose scope n is in, when t is token p; and the type of n
NewDeclares(t, n, before) ==
    \/ t.f = n
    \/ t.n = n /\ t.k \in Binders \cup {"var", "fn"}
    \/ t.n = n /\ t.k = "assign" /\ before = Null

TokenHome(t, p, n) == IF t.n = n /\ t.k \in Openers THEN p ELSE t.up

NewType(t, n) ==
    LET value == IF t.v \in Literals THEN t.v ELSE t.ty
    IN  IF t.f = n THEN "Function"
        ELSE CASE t.k \in {"var", "for"} -> var_type(t.a, value)
          [] t.k = "assign" -> value
          [] t.k = "concurrent" -> "Channel"
          [] t.k = "task" -> "Int"
          [] t.k = "worker" -> "Any"
          [] OTHER -> t.a

LEMMA NewToken ==
    ASSUME NEW s \in Seq(TokenType), NEW v, NEW t, NEW w, Continues(s, v, t, w), NEW n \in Names
    PROVE  /\ DeclaresBy(Append(s, t), w, Len(s) + 1, n) <=>
                 NewDeclares(t, n, TypeBy(s, v[Len(s)][n], n))
           /\ SHome(Append(s, t), Len(s) + 1, n) = TokenHome(t, Len(s) + 1, n)
           /\ SDeclaredType(Append(s, t), Len(s) + 1, n) = NewType(t, n)
<1> DEFINE r == Append(s, t)
           m == Len(s)
           d == v[m][n]
<1>1. m \in Nat /\ r[m + 1] = t /\ (m + 1) - 1 = m /\ \A p \in 1..m : r[p] = s[p]
  OBVIOUS
<1>2. w[m] = v[m] /\ d \in 0..m
  <2>1. m \in 0..m
    BY <1>1
  <2> QED
    BY <2>1, VisibleAt DEF Continues
<1>3. w[(m + 1) - 1][n] = d
  BY <1>1, <1>2
<1> HIDE DEF r, m, d
<1>4. TypeBy(r, d, n) = TypeBy(s, d, n)
  <2>1. d = 0 \/ d \in 1..m
    BY <1>1, <1>2
  <2>2. d \in 1..m => SDeclaredType(r, d, n) = SDeclaredType(s, d, n)
    BY <1>1 DEF SDeclaredType
  <2> QED
    BY <2>1, <2>2 DEF TypeBy
<1>5. DeclaresBy(r, w, m + 1, n) <=> NewDeclares(t, n, TypeBy(s, d, n))
  BY <1>1, <1>3, <1>4 DEF DeclaresBy, NewDeclares
<1>6. SHome(r, m + 1, n) = TokenHome(t, m + 1, n)
  BY <1>1 DEF SHome, TokenHome
<1>7. SDeclaredType(r, m + 1, n) = NewType(t, n)
  BY <1>1 DEF SDeclaredType, NewType
<1> QED
  BY <1>5, <1>6, <1>7 DEF r, m, d

\* The scopes become T with the token t: every name that t declares is put into
\* the scope it belongs to, and the other entries stay.
Grows(S, s, v, t, T) ==
    \A n \in Names : \E x, type :
        /\ Column(S, T, n, x, type)
        /\ NewDeclares(t, n, TypeBy(s, v[Len(s)][n], n)) <=> x # 0
        /\ x # 0 => /\ type = NewType(t, n) /\ type # Absent
                    /\ x = IF t.n = n /\ t.k \in Openers THEN Len(S) + 1 ELSE Len(S)

\* J are the layers after it.
LEMMA GrownHeld ==
    ASSUME NEW s \in Seq(TokenType), NEW v, NEW t, NEW w, Continues(s, v, t, w), t.k # "end",
           NEW S, Len(S) \in Nat \ {0}, NEW H, NEW G, H[Len(S)] = t.up,
           \A n \in Names : \E d : Held(S, H, s, G, v, d, n),
           NEW T, Len(T) \in Nat, Len(T) >= Len(S), Grows(S, s, v, t, T),
           NEW J, \A i \in 1..Len(S) : J[i] = H[i],
           t.k \in Openers => J[Len(S) + 1] = Len(s) + 1
    PROVE  \A n \in Names : \E e : Held(T, J, Append(s, t), G, w, e, n)
<1> TAKE n \in Names
<1>1. PICK d : Held(S, H, s, G, v, d, n)
  OBVIOUS
<1>2. PICK x, type :
        /\ Column(S, T, n, x, type)
        /\ NewDeclares(t, n, TypeBy(s, v[Len(s)][n], n)) <=> x # 0
        /\ x # 0 => /\ type = NewType(t, n) /\ type # Absent
                    /\ x = IF t.n = n /\ t.k \in Openers THEN Len(S) + 1 ELSE Len(S)
  BY DEF Grows
<1>3. DeclaresBy(Append(s, t), w, Len(s) + 1, n) <=> x # 0
  BY <1>2, NewToken
<1>4. x # 0 => type = SDeclaredType(Append(s, t), Len(s) + 1, n) /\ type # Absent
  BY <1>2, NewToken
<1>5. x # 0 => J[x] = SHome(Append(s, t), Len(s) + 1, n)
  <2>1. SHome(Append(s, t), Len(s) + 1, n) = TokenHome(t, Len(s) + 1, n)
    BY NewToken
  <2>2. J[Len(S)] = t.up
    <3>1. Len(S) \in 1..Len(S)
      OBVIOUS
    <3> QED
      BY <3>1
  <2> QED
    BY <1>2, <2>1, <2>2 DEF TokenHome
<1> QED
  BY <1>1, <1>2, <1>3, <1>4, <1>5, HeldGrows

LEMMA GrownPlain ==
    ASSUME NEW o \in Seq(Nat), NEW s \in Seq(TokenType), WellNested(o, s), NEW S, Len(S) \in Nat,
           NEW G, NEW v, LookupAt(S, o, s, G, v), NEW t, t.k \notin Openers \cup {"end"},
           t.up = Inner(o), NEW T, Len(T) = Len(S), Grows(S, s, v, t, T)
    PROVE  \E w : LookupAt(T, o, Append(s, t), G, w)
<1>1. VisibleIs(s, v)
  BY DEF LookupAt
<1>2. PICK H, B : /\ Layers(Len(S), o, s, H, B)
                  /\ \A n \in Names : \E d : Held(S, H, s, G, v, d, n)
  BY DEF LookupAt
<1>3. PICK w : Continues(s, v, t, w) /\ VisibleIs(Append(s, t), w)
  BY <1>1, Continued
<1>4. Continues(s, v, t, w)
  BY <1>3
<1>5. Len(S) \in Nat \ {0} /\ H[Len(S)] = t.up
  BY <1>2, LayerFacts
<1>6. Layers(Len(T), o, Append(s, t), H, B)
  BY <1>2, LayersPlain
<1>7. t.k # "end" /\ t.k \notin Openers /\ Len(T) \in Nat /\ Len(T) >= Len(S)
  OBVIOUS
<1>8. \A n \in Names : \E e : Held(T, H, Append(s, t), G, w, e, n)
  BY <1>2, <1>4, <1>5, <1>7, GrownHeld
<1> QED
  BY <1>3, <1>6, <1>8 DEF LookupAt

LEMMA GrownOpen ==
    ASSUME NEW o \in Seq(Nat), NEW s \in Seq(TokenType), WellNested(o, s), NEW S, Len(S) \in Nat,
           NEW G, NEW v, LookupAt(S, o, s, G, v), NEW t, t.k # "end",
           t.up = Inner(o), NEW T, Len(T) = Len(S) + Levels(t.k), Grows(S, s, v, t, T)
    PROVE  \E w : LookupAt(T, Append(o, Len(s) + 1), Append(s, t), G, w)
<1>1. VisibleIs(s, v)
  BY DEF LookupAt
<1>2. PICK H, B : /\ Layers(Len(S), o, s, H, B)
                  /\ \A n \in Names : \E d : Held(S, H, s, G, v, d, n)
  BY DEF LookupAt
<1>3. PICK w : Continues(s, v, t, w) /\ VisibleIs(Append(s, t), w)
  BY <1>1, Continued
<1>4. Continues(s, v, t, w)
  BY <1>3
<1>5. Len(S) \in Nat \ {0} /\ H[Len(S)] = t.up
  BY <1>2, LayerFacts
<1> DEFINE L == Len(S)
           K == Len(T)
           J == EnteredLayers(H, L, K, Len(s) + 1)
<1>6. \E C : Layers(K, Append(o, Len(s) + 1), Append(s, t), J, C)
  BY <1>2, LayersOpen
<1>7. L \in Nat \ {0} /\ K \in Nat /\ K > L /\ K >= L
  BY <1>5, LevelsNat
<1>8. (\A i \in 1..L : J[i] = H[i]) /\ J[L + 1] = Len(s) + 1
  <2> HIDE DEF K, L
  <2>1. (\A i \in 1..L : i \in 1..K /\ i <= L) /\ L + 1 \in 1..K /\ ~(L + 1 <= L)
    BY <1>7
  <2> QED
    BY <2>1 DEF EnteredLayers
<1> HIDE DEF J
<1>9. \A n \in Names : \E e : Held(T, J, Append(s, t), G, w, e, n)
  BY <1>2, <1>4, <1>5, <1>7, <1>8, GrownHeld
<1> QED
  BY <1>3, <1>6, <1>9 DEF LookupAt

LEMMA Shrunk ==
    ASSUME NEW o \in Seq(Nat), NEW s \in Seq(TokenType), WellNested(o, s), o # <<>>,
           NEW S, Len(S) \in Nat, NEW G, NEW v, LookupAt(S, o, s, G, v),
           NEW t, t.k = "end", t.n = NoName, t.f = NoName, t.up = Inner(o), Inner(o) # 0,
           NEW T, Len(T) = Len(S) - Levels(s[Inner(o)].k), \A i \in 1..Len(T) : T[i] = S[i]
    PROVE  \E w : LookupAt(T, SubSeq(o, 1, Len(o) - 1), Append(s, t), G, w)
<1>1. VisibleIs(s, v)
  BY DEF LookupAt
<1>2. PICK H, B : /\ Layers(Len(S), o, s, H, B)
                  /\ \A n \in Names : \E d : Held(S, H, s, G, v, d, n)
  BY DEF LookupAt
<1>3. PICK w : Continues(s, v, t, w) /\ VisibleIs(Append(s, t), w)
  BY <1>1, Continued
<1>4. Continues(s, v, t, w)
  BY <1>3
<1> DEFINE J == [i \in 1..Len(T) |-> H[i]]
<1>5. /\ Len(T) \in Nat /\ Len(T) < Len(S)
      /\ \A i \in 1..Len(S) : H[i] = Inner(o) <=> i > Len(T)
      /\ \E C : Layers(Len(T), SubSeq(o, 1, Len(o) - 1), Append(s, t), J, C)
  BY <1>2, LayersEnd
<1>6. \A n \in Names : \E e : Held(T, J, Append(s, t), G, w, e, n)
  <2> TAKE n \in Names
  <2>1. PICK d : Held(S, H, s, G, v, d, n)
    BY <1>2
  <2>2. ~NewDeclares(t, n, TypeBy(s, v[Len(s)][n], n))
    BY NamesAssumption DEF NewDeclares
  <2>3. ~DeclaresBy(Append(s, t), w, Len(s) + 1, n)
    BY <1>4, <2>2, NewToken
  <2>4. Leaves(S, H, t, T, J)
    <3>1. \A i \in 1..Len(T) : J[i] = H[i]
      OBVIOUS
    <3> HIDE DEF J
    <3> QED
      BY <1>5, <3>1 DEF Leaves
  <2> HIDE DEF J
  <2> QED
    BY <1>4, <2>1, <2>3, <2>4, HeldEnds
<1> HIDE DEF J
<1> QED
  BY <1>3, <1>5, <1>6 DEF LookupAt

(***************************************************************************)
(* The scopes after each kind of statement.                                 *)
(***************************************************************************)
LEMMA SameColumn ==
    ASSUME NEW S, Len(S) \in Nat, NEW n
    PROVE  Column(S, S, n, 0, Null)
  BY DEF Column

\* a scope is put in front
LEMMA EmptyColumn ==
    ASSUME NEW S \in Seq(Scopes), NEW n \in Names
    PROVE  Column(S, Append(S, EmptyScope), n, 0, Null)
<1> DEFINE T == Append(S, EmptyScope)
           L == Len(S)
<1>1. EmptyScope \in Scopes /\ EmptyScope[n] = Absent
  BY DEF EmptyScope, Scopes
<1> HIDE DEF EmptyScope
<1>2. L \in Nat /\ Len(T) = L + 1 /\ T[L + 1] = EmptyScope /\ \A i \in 1..L : T[i] = S[i]
  BY <1>1
<1> HIDE DEF T, L
<1>3. ASSUME NEW i \in 1..Len(T)
      PROVE  T[i][n] = IF i <= L THEN S[i][n] ELSE Absent
  <2>1. (i \in 1..L /\ i <= L) \/ (i = L + 1 /\ ~(i <= L))
    BY <1>2
  <2> QED
    BY <1>1, <1>2, <2>1
<1> QED
  BY <1>2, <1>3 DEF Column, T, L

LEMMA EmptyColumns ==
    ASSUME NEW S \in Seq(Scopes), NEW n \in Names
    PROVE  Column(S, Append(Append(S, EmptyScope), EmptyScope), n, 0, Null)
<1> DEFINE U == Append(S, EmptyScope)
           T == Append(U, EmptyScope)
           L == Len(S)
<1>1. EmptyScope \in Scopes /\ EmptyScope[n] = Absent
  BY DEF EmptyScope, Scopes
<1> HIDE DEF EmptyScope
<1>2. L \in Nat /\ Len(U) = L + 1 /\ U \in Seq(Scopes)
  BY <1>1
<1>3. Column(S, U, n, 0, Null)
  BY EmptyColumn
<1> HIDE DEF U, L
<1>4. Column(U, T, n, 0, Null) /\ Len(T) = L + 2
  <2>1. Column(U, T, n, 0, Null)
    BY <1>2, EmptyColumn
  <2>2. Len(T) = L + 2
    BY <1>1, <1>2
  <2> QED
    BY <2>1, <2>2
<1> HIDE DEF T
<1>5. ASSUME NEW i \in 1..Len(T)
      PROVE  T[i][n] = IF i <= L THEN S[i][n] ELSE Absent
  <2>0. i \in Nat /\ i >= 1
    OBVIOUS
  <2>1. T[i][n] = IF i <= L + 1 THEN U[i][n] ELSE Absent
    BY <1>2, <1>4, <2>0 DEF Column
  <2>2. i <= L + 1 => U[i][n] = IF i <= L THEN S[i][n] ELSE Absent
    <3>1. i <= L + 1 => i \in 1..Len(U)
      BY <1>2, <2>0
    <3> QED
      BY <1>3, <2>0, <3>1 DEF Column, L
  <2> QED
    BY <1>2, <2>0, <2>1, <2>2
<1>6. 0 \in 0..Len(T)
  BY <1>2, <1>4
<1> QED
  BY <1>5, <1>6 DEF Column, T, U, L

LEMMA PutAt ==
    ASSUME NEW scope, NEW D, D = DOMAIN scope, NEW x \in D, NEW type
    PROVE  /\ Put(scope, x, type)[x] = type
           /\ \A n \in D : n # x => Put(scope, x, type)[n] = scope[n]
  BY DEF Put

LEMMA BindColumn ==
    ASSUME NEW S \in Seq(Scopes), S # <<>>, NEW x \in Names, NEW type, NEW n \in Names
    PROVE  Column(S, Bind(S, x, type), n, IF n = x THEN Len(S) ELSE 0, type)
<1> DEFINE T == Bind(S, x, type)
           L == Len(S)
           put == Put(S[L], x, type)
<1>1. L \in Nat \ {0} /\ L \in 1..L /\ S[L] \in Scopes
  OBVIOUS
<1>2. Len(T) = L /\ T[L] = put /\ \A i \in 1..(L - 1) : T[i] = S[i]
  <2>1. Len(Bind(S, x, type)) = Len(S)
    BY BindLen
  <2>2. /\ \A i \in 1..(Len(S) - 1) : Bind(S, x, type)[i] = S[i]
        /\ Bind(S, x, type)[Len(S)] = Put(S[Len(S)], x, type)
    BY BindEntries
  <2> QED
    BY <2>1, <2>2
<1>3. put[x] = type /\ \A m \in Names : m # x => put[m] = S[L][m]
  <2>1. DOMAIN S[L] = Names
    BY <1>1 DEF Scopes
  <2> HIDE DEF L
  <2> QED
    BY <2>1, PutAt
<1> HIDE DEF T, L, put
<1>4. ASSUME NEW i \in 1..Len(T), i # L \/ n # x
      PROVE  T[i][n] = S[i][n] /\ i <= L
  <2>1. i \in 1..(L - 1) \/ i = L
    BY <1>1, <1>2
  <2>2. i <= L
    BY <1>2
  <2> QED
    BY <1>2, <1>3, <1>4, <2>1, <2>2
<1>5. CASE n = x
  <2>1. Column(S, T, n, L, type)
    BY <1>1, <1>2, <1>3, <1>4, <1>5 DEF Column, L
  <2> QED
    BY <1>5, <2>1 DEF T, L
<1>6. CASE n # x
  <2>1. Column(S, T, n, 0, type)
    BY <1>1, <1>2, <1>4, <1>6 DEF Column, L
  <2> QED
    BY <1>6, <2>1 DEF T, L
<1> QED
  BY <1>5, <1>6

LEMMA BoundColumn ==
    ASSUME NEW U, NEW S \in Seq(U), NEW x \in Names, NEW type, NEW n \in Names
    PROVE  Column(S, Bound(S, x, type), n, IF n = x THEN Len(S) + 1 ELSE 0, type)
<1> DEFINE T == Bound(S, x, type)
           L == Len(S)
           put == Put(EmptyScope, x, type)
<1>1. L \in Nat
  OBVIOUS
<1>2. /\ Len(T) = L + 2 /\ T[L + 1] = put /\ T[L + 2] = EmptyScope
      /\ \A i \in 1..L : T[i] = S[i]
  BY BoundFacts
<1>3. /\ put[x] = type /\ \A m \in Names : m # x => put[m] = Absent
      /\ \A m \in Names : EmptyScope[m] = Absent
  <2>1. DOMAIN EmptyScope = Names /\ \A m \in Names : EmptyScope[m] = Absent
    BY DEF EmptyScope
  <2> HIDE DEF EmptyScope
  <2> QED
    BY <2>1, PutAt
<1> HIDE DEF T, L, put
<1>4. ASSUME NEW i \in 1..Len(T), i # L + 1 \/ n # x
      PROVE  T[i][n] = IF i <= L THEN S[i][n] ELSE Absent
  <2>1. (i \in 1..L /\ i <= L) \/ (i = L + 1 /\ ~(i <= L)) \/ (i = L + 2 /\ ~(i <= L))
    BY <1>1, <1>2
  <2> QED
    BY <1>2, <1>3, <1>4, <2>1
<1>5. CASE n = x
  <2>1. Column(S, T, n, L + 1, type)
    BY <1>1, <1>2, <1>3, <1>4, <1>5 DEF Column, L
  <2> QED
    BY <1>5, <2>1 DEF T, L
<1>6. CASE n # x
  <2>1. Column(S, T, n, 0, type)
    BY <1>1, <1>2, <1>4, <1>6 DEF Column, L
  <2> QED
    BY <1>6, <2>1 DEF T, L
<1> QED
  BY <1>5, <1>6

LEMMA ColumnTrans ==
    ASSUME NEW S, NEW B, NEW T, Len(S) \in Nat \ {0}, Len(B) = Len(S), NEW n,
           NEW x, NEW type, Column(S, B, n, x, type), NEW y, NEW after, Column(B, T, n, y, after),
           Len(T) \in Nat, Len(T) >= Len(S), x = 0 \/ y = 0
    PROVE  Column(S, T, n, IF y = 0 THEN x ELSE y, IF y = 0 THEN type ELSE after)
<1>1. /\ x \in 0..Len(S) /\ (x # 0 => x >= Len(S) /\ B[x][n] = type)
      /\ \A i \in 1..Len(S) : i # x => B[i][n] = S[i][n]
  BY DEF Column
<1>2. /\ y \in 0..Len(T) /\ (y # 0 => y >= Len(S) /\ T[y][n] = after)
      /\ \A i \in 1..Len(T) : i # y => T[i][n] = IF i <= Len(S) THEN B[i][n] ELSE Absent
  BY DEF Column
<1>3. CASE y = 0
  <2>1. x # 0 => T[x][n] = type /\ x >= Len(S)
    BY <1>1, <1>2, <1>3
  <2>2. \A i \in 1..Len(T) : i # x => T[i][n] = IF i <= Len(S) THEN S[i][n] ELSE Absent
    BY <1>1, <1>2, <1>3
  <2>3. x \in 0..Len(T)
    BY <1>1
  <2>4. Column(S, T, n, x, type)
    BY <2>1, <2>2, <2>3 DEF Column
  <2> QED
    BY <1>3, <2>4
<1>4. CASE y # 0
  <2>1. x = 0
    BY <1>4
  <2>2. \A i \in 1..Len(T) : i # y => T[i][n] = IF i <= Len(S) THEN S[i][n] ELSE Absent
    BY <1>1, <1>2, <2>1
  <2>3. Column(S, T, n, y, after)
    BY <1>2, <1>4, <2>2 DEF Column
  <2> QED
    BY <1>4, <2>3
<1> QED
  BY <1>3, <1>4

\* Tokens that declare nothing.
LEMMA NothingDeclared ==
    ASSUME NEW t, t.n = NoName, t.f = NoName, NEW n \in Names, NEW before
    PROVE  ~NewDeclares(t, n, before)
  BY NamesAssumption DEF NewDeclares

\* The function f is put into the scope around it, its parameter n into its own.
LEMMA FunctionGrows ==
    ASSUME NEW S \in Seq(Scopes), S # <<>>, NEW f \in Fns, NEW n \in Vars, NEW a, a # Absent,
           NEW t, t.k = "fn", t.n = n, t.f = f, t.a = a, NEW s, NEW v
    PROVE  Grows(S, s, v, t, Bound(Bind(S, f, "Function"), n, a))
<1> DEFINE B == Bind(S, f, "Function")
           T == Bound(B, n, a)
           U == Scopes \cup {Put(S[Len(S)], f, "Function")}
<1>1. Len(S) \in Nat \ {0} /\ f \in Names /\ n \in Names /\ f # n
  BY NamesAssumption DEF Names
<1>2. B \in Seq(U) /\ Len(B) = Len(S)
  BY BindLen
<1> HIDE DEF U
<1>3. \A m \in Names : Column(S, B, m, IF m = f THEN Len(S) ELSE 0, "Function")
  BY <1>1, BindColumn
<1> HIDE DEF B
<1>4. \A m \in Names : Column(B, T, m, IF m = n THEN Len(B) + 1 ELSE 0, a)
  BY <1>1, <1>2, BoundColumn
<1>5. Len(T) = Len(S) + 2
  <2>1. Len(Bound(B, n, a)) = Len(B) + 2
    BY <1>2, BoundFacts
  <2> QED
    BY <1>2, <2>1
<1> HIDE DEF T
<1>6. ASSUME NEW m \in Names
      PROVE  \E x, type :
                /\ Column(S, T, m, x, type)
                /\ NewDeclares(t, m, TypeBy(s, v[Len(s)][m], m)) <=> x # 0
                /\ x # 0 => /\ type = NewType(t, m) /\ type # Absent
                            /\ x = IF t.n = m /\ t.k \in Openers THEN Len(S) + 1 ELSE Len(S)
  <2> DEFINE x == IF m = f THEN Len(S) ELSE 0
             y == IF m = n THEN Len(S) + 1 ELSE 0
             z == IF y = 0 THEN x ELSE y
             type == IF y = 0 THEN "Function" ELSE a
  <2>1. Column(S, T, m, z, type)
    <3>1. Column(S, B, m, x, "Function") /\ Column(B, T, m, y, a)
      BY <1>2, <1>3, <1>4
    <3>2. Len(T) \in Nat /\ Len(T) >= Len(S) /\ (x = 0 \/ y = 0)
      BY <1>1, <1>5
    <3> HIDE DEF x, y
    <3> QED
      BY <1>1, <1>2, <3>1, <3>2, ColumnTrans
  <2>2. CASE m = f
    <3>1. z = Len(S) /\ type = "Function" /\ z # 0 /\ t.n # m
      BY <1>1, <2>2
    <3>2. NewDeclares(t, m, TypeBy(s, v[Len(s)][m], m)) /\ NewType(t, m) = "Function"
      BY <2>2 DEF NewDeclares, NewType
    <3> HIDE DEF z, type
    <3> QED
      BY <2>1, <3>1, <3>2 DEF Absent
  <2>3. CASE m = n
    <3>1. z = Len(S) + 1 /\ type = a /\ z # 0 /\ t.n = m /\ t.f # m
      BY <1>1, <2>3
    <3>2. NewDeclares(t, m, TypeBy(s, v[Len(s)][m], m)) /\ NewType(t, m) = a /\ t.k \in Openers
      BY <2>3, <3>1 DEF NewDeclares, NewType, Openers
    <3> HIDE DEF z, type
    <3> QED
      BY <2>1, <3>1, <3>2
  <2>4. CASE m # f /\ m # n
    <3>1. z = 0
      BY <1>1, <2>4
    <3>2. ~NewDeclares(t, m, TypeBy(s, v[Len(s)][m], m))
      BY <2>4 DEF NewDeclares
    <3> HIDE DEF z, type
    <3> QED
      BY <2>1, <3>1, <3>2
  <2> QED
    BY <2>2, <2>3, <2>4
<1> QED
  BY <1>6 DEF Grows, T, B

\* One name is put into its scope.
LEMMA NameGrows ==
    ASSUME NEW S \in Seq(Scopes), S # <<>>, NEW x \in Names, NEW type, type # Absent,
           NEW t, t.n = x, t.f = NoName, NEW s, NEW v, NewType(t, x) = type,
           NewDeclares(t, x, TypeBy(s, v[Len(s)][x], x))
    PROVE  /\ t.k \notin Openers => Grows(S, s, v, t, Bind(S, x, type))
           /\ t.k \in Openers => Grows(S, s, v, t, Bound(S, x, type))
<1>1. Len(S) \in Nat \ {0} /\ NoName \notin Names
  BY NamesAssumption
<1>2. \A n \in Names : n # x => ~NewDeclares(t, n, TypeBy(s, v[Len(s)][n], n))
  BY <1>1 DEF NewDeclares
<1>3. \A n \in Names : /\ Column(S, Bind(S, x, type), n, IF n = x THEN Len(S) ELSE 0, type)
                       /\ Column(S, Bound(S, x, type), n, IF n = x THEN Len(S) + 1 ELSE 0, type)
  BY BindColumn, BoundColumn
<1> DEFINE T == IF t.k \in Openers THEN Bound(S, x, type) ELSE Bind(S, x, type)
           y(n) == IF n # x THEN 0 ELSE IF t.k \in Openers THEN Len(S) + 1 ELSE Len(S)
<1>4. ASSUME NEW n \in Names
      PROVE  /\ Column(S, T, n, y(n), type)
             /\ NewDeclares(t, n, TypeBy(s, v[Len(s)][n], n)) <=> y(n) # 0
             /\ y(n) # 0 => /\ type = NewType(t, n) /\ type # Absent
                            /\ y(n) = IF t.n = n /\ t.k \in Openers THEN Len(S) + 1 ELSE Len(S)
  <2>1. Column(S, T, n, y(n), type)
    BY <1>3
  <2>2. NewDeclares(t, n, TypeBy(s, v[Len(s)][n], n)) <=> y(n) # 0
    BY <1>1, <1>2
  <2> QED
    BY <2>1, <2>2
<1>5. Grows(S, s, v, t, T)
  <2> HIDE DEF T, y
  <2> QED
    BY <1>4 DEF Grows
<1> QED
  BY <1>5

\* No name is put anywhere.
LEMMA NothingGrows ==
    ASSUME NEW S \in Seq(Scopes), NEW t, NEW s, NEW v,
           \A n \in Names : ~NewDeclares(t, n, TypeBy(s, v[Len(s)][n], n))
    PROVE  /\ Grows(S, s, v, t, S)
           /\ Grows(S, s, v, t, Append(S, EmptyScope))
           /\ Grows(S, s, v, t, Append(Append(S, EmptyScope), EmptyScope))
<1>1. ASSUME NEW n \in Names
      PROVE  /\ Column(S, S, n, 0, Null)
             /\ Column(S, Append(S, EmptyScope), n, 0, Null)
             /\ Column(S, Append(Append(S, EmptyScope), EmptyScope), n, 0, Null)
  <2>1. Len(S) \in Nat
    OBVIOUS
  <2> QED
    BY <2>1, SameColumn, EmptyColumn, EmptyColumns
<1>2. ASSUME NEW T, \A n \in Names : Column(S, T, n, 0, Null)
      PROVE  Grows(S, s, v, t, T)
  BY <1>2 DEF Grows
<1> QED
  BY <1>1, <1>2

(***************************************************************************)
(* Every step keeps scopes and nesting in step.                             *)
(***************************************************************************)
\* after PASS 3 has met the program, the scopes hold what is visible
Looked(v) == LookupAt(tc.scopes, open, src, globals, v)

StillLooked == \E w : LookupAt(tc'.scopes, open', src', globals', w)

LEMMA PlainLookup ==
    ASSUME StructureInv, NEW v, Looked(v), NEW t, NEW s, Plain(t, s), Len(s) = Len(tc.scopes),
           Grows(tc.scopes, src, v, t, s)
    PROVE  StillLooked
<1>1. /\ t.k \notin Openers \cup {"end"} /\ t.up = Inner(open)
      /\ src' = Append(src, t) /\ open' = open /\ globals' = globals /\ tc'.scopes = s
  BY StructureFacts DEF Plain
<1>2. LookupAt(tc.scopes, open, src, globals, v)
  BY DEF Looked
<1>3. \E w : LookupAt(s, open, Append(src, t), globals, w)
  BY <1>1, <1>2, GrownPlain, StructureFacts
<1> QED
  BY <1>1, <1>3 DEF StillLooked

LEMMA OpenLookup ==
    ASSUME StructureInv, NEW v, Looked(v), NEW t, NEW s, NEW levels, NEW regions, NEW ret,
           Opened(t, s, levels, regions, ret), Len(s) = Len(tc.scopes) + Levels(t.k),
           Grows(tc.scopes, src, v, t, s)
    PROVE  StillLooked
<1>1. /\ t.k # "end" /\ t.up = Inner(open)
      /\ src' = Append(src, t) /\ open' = Append(open, Len(src) + 1) /\ globals' = globals
      /\ tc'.scopes = s
  BY StructureFacts DEF Opened, Deeper, Openers, Binders
<1>2. LookupAt(tc.scopes, open, src, globals, v)
  BY DEF Looked
<1>3. \E w : LookupAt(s, Append(open, Len(src) + 1), Append(src, t), globals, w)
  BY <1>1, <1>2, GrownOpen, StructureFacts
<1> QED
  BY <1>1, <1>3 DEF StillLooked

LEMMA EndLookup ==
    ASSUME StructureInv, NEW v, Looked(v), end_statement
    PROVE  StillLooked
<1> DEFINE t == [Met("end", NoName, Null, Null, NoName, Null) EXCEPT !.up = Innermost]
           k == src[Innermost].k
           T == SubSeq(tc.scopes, 1, Len(tc.scopes) - Levels(k))
<1>1. k \in Openers /\ Closed(k, Levels(k), RegionCount(k)) /\ StructureInv'
  BY EndStructure
<1>2. /\ src' = Append(src, t) /\ t.k = "end" /\ t.up = Innermost /\ t.n = NoName /\ t.f = NoName
      /\ open # <<>> /\ open' = SubSeq(open, 1, Len(open) - 1) /\ globals' = globals
      /\ tc'.scopes = T
  BY <1>1 DEF Closed, Deeper, Met
<1> HIDE DEF t
<1>3. Innermost = Inner(open) /\ Innermost # 0
  <2>1. Len(open) \in DOMAIN open /\ Innermost = open[Len(open)]
    BY <1>2, StructureFacts DEF Innermost
  <2>2. Innermost \in DOMAIN src
    BY <2>1, StructureFacts DEF WellNested
  <2> QED
    BY <2>2, StructureFacts
<1>4. Len(T) = Len(tc.scopes) - Levels(k) /\ \A i \in 1..Len(T) : T[i] = tc.scopes[i]
  <2>1. tc'.scopes # <<>> /\ tc'.scopes \in Seq(Scopes) /\ Levels(k) \in {1, 2}
    BY <1>1, LevelsNat DEF StructureInv, TypesOK, Checkers
  <2>2. Len(T) # 0 /\ Len(T) \in Nat
    BY <1>2, <2>1
  <2>3. Len(tc.scopes) - Levels(k) >= 1
    BY <2>1, <2>2, StructureFacts
  <2>4. Levels(k) \in 1..Len(tc.scopes)
    BY <2>1, <2>3, StructureFacts
  <2> HIDE DEF k
  <2> QED
    BY <2>4, StructureFacts, Popped
<1>5. LookupAt(tc.scopes, open, src, globals, v)
  BY DEF Looked
<1> HIDE DEF T
<1>6. \E w : LookupAt(T, SubSeq(open, 1, Len(open) - 1), Append(src, t), globals, w)
  <2>1. /\ open \in Seq(Nat) /\ src \in Seq(TokenType) /\ WellNested(open, src)
        /\ Len(tc.scopes) \in Nat /\ open # <<>>
    BY <1>2, StructureFacts
  <2>2. t.k = "end" /\ t.n = NoName /\ t.f = NoName /\ t.up = Inner(open) /\ Inner(open) # 0
    BY <1>2, <1>3
  <2>3. /\ Len(T) = Len(tc.scopes) - Levels(src[Inner(open)].k)
        /\ \A i \in 1..Len(T) : T[i] = tc.scopes[i]
    BY <1>3, <1>4
  <2> QED
    BY ONLY <1>5, <2>1, <2>2, <2>3, Shrunk
<1> QED
  BY <1>2, <1>6 DEF StillLooked

\* The type of a value, and of the token it is in.
LEMMA ValueTypes ==
    ASSUME StructureInv, NEW v \in Literals \cup Names \cup {Null}
    PROVE  /\ ValueType(tc, v) \in TypeOrNull /\ ValueType(tc, v) # Absent
           /\ \A a \in Literals \cup {Null} : var_type(a, ValueType(tc, v)) # Absent
           /\ \A k, n, a, f, ret :
                 LET t == Met(k, n, a, v, f, ret)
                 IN  ValueType(tc, v) = IF t.v \in Literals THEN t.v ELSE t.ty
<1>1. Null \notin Names /\ Null \notin Literals /\ Names \cap Literals = {}
  BY NamesAssumption DEF Null, Literals
<1>2. v \in Names => check_variable_expr(tc, v).type \in TypeOrNull
  BY TypesFacts, VariableKeeps DEF StructureInv, TypesOK
<1>3. Literals \subseteq TypeOrNull /\ Null \in TypeOrNull /\ Absent \notin TypeOrNull
      /\ "String" \in TypeOrNull
  BY DEF Literals, TypeOrNull, Types, Null, Absent
<1>4. ValueType(tc, v) \in TypeOrNull
  BY <1>1, <1>2, <1>3 DEF ValueType
<1>5. \A a \in Literals \cup {Null} : var_type(a, ValueType(tc, v)) \in TypeOrNull
  <2> TAKE a \in Literals \cup {Null}
  <2> DEFINE type == ValueType(tc, v)
  <2> HIDE DEF type
  <2>1. var_type(a, type) \in {a, type, "String"}
    <3>1. CASE a # Null
      BY <3>1 DEF var_type
    <3>2. CASE a = Null /\ type # Null
      BY <3>2 DEF var_type
    <3>3. CASE a = Null /\ type = Null
      BY <3>3 DEF var_type
    <3> QED
      BY <3>1, <3>2, <3>3
  <2> QED
    BY <1>3, <1>4, <2>1 DEF type
<1>6. ASSUME NEW k, NEW n, NEW a, NEW f, NEW ret
      PROVE  LET t == Met(k, n, a, v, f, ret)
             IN  ValueType(tc, v) = IF t.v \in Literals THEN t.v ELSE t.ty
  BY <1>1 DEF ValueType, Met
<1> QED
  BY <1>3, <1>4, <1>5, <1>6

LEMMA VarLookup ==
    ASSUME StructureInv, NEW v, Looked(v), check_var_declaration
    PROVE  StillLooked
<1>1. PICK n \in Vars, a \in Literals \cup {Null}, x \in Literals \cup Names \cup {Null} :
         Plain(Met("var", n, a, x, NoName, Null),
               Bind(tc.scopes, n, var_type(a, ValueType(tc, x))))
  BY VarEffect DEF StructureInv
<1> DEFINE t == Met("var", n, a, x, NoName, Null)
           type == var_type(a, ValueType(tc, x))
<1>2. n \in Names /\ tc.scopes \in Seq(Scopes) /\ tc.scopes # <<>>
  BY StructureFacts DEF Names, StructureInv, TypesOK
<1>3. type # Absent /\ ValueType(tc, x) = IF t.v \in Literals THEN t.v ELSE t.ty
  BY ValueTypes
<1>4. t.k = "var" /\ t.n = n /\ t.f = NoName /\ t.a = a /\ NoName # n /\ t.k \notin Openers
  BY <1>2, NamesAssumption DEF Met, Openers, Binders
<1> HIDE DEF t
<1>5. NewType(t, n) = type
  BY <1>3, <1>4 DEF NewType
<1>6. NewDeclares(t, n, TypeBy(src, v[Len(src)][n], n))
  BY <1>4 DEF NewDeclares
<1> HIDE DEF type
<1>7. Grows(tc.scopes, src, v, t, Bind(tc.scopes, n, type))
  BY <1>2, <1>3, <1>4, <1>5, <1>6, NameGrows
<1>8. Len(Bind(tc.scopes, n, type)) = Len(tc.scopes)
  BY <1>2, BindLen
<1>9. Plain(t, Bind(tc.scopes, n, type))
  BY <1>1 DEF t, type
<1> QED
  BY <1>7, <1>8, <1>9, PlainLookup

\* an assignment declares its variable when that has no type
LEMMA AssignLookup ==
    ASSUME StructureInv, NEW v, Looked(v), check_assign_statement
    PROVE  StillLooked
<1>1. PICK n \in Vars, x \in Literals \cup Names :
         Plain(Met("assign", n, Null, x, NoName, Null),
               IF lookup_variable(tc, n) = Null THEN Bind(tc.scopes, n, ValueType(tc, x))
               ELSE tc.scopes)
  BY AssignEffect DEF StructureInv
<1> DEFINE t == Met("assign", n, Null, x, NoName, Null)
           type == ValueType(tc, x)
           before == TypeBy(src, v[Len(src)][n], n)
<1>2. n \in Names /\ n \notin globals /\ tc.scopes \in Seq(Scopes) /\ tc.scopes # <<>>
  BY StructureFacts, NamesAssumption DEF Names, StructureInv, TypesOK
<1>3. type # Absent /\ type = IF t.v \in Literals THEN t.v ELSE t.ty
  BY ValueTypes
<1>4. t.k = "assign" /\ t.n = n /\ t.f = NoName /\ NoName \notin Names /\ t.k \notin Openers
  BY <1>2, NamesAssumption DEF Met, Openers, Binders
<1> HIDE DEF t
<1>5. NewType(t, n) = type
  BY <1>2, <1>3, <1>4 DEF NewType
<1> HIDE DEF type
<1>6. lookup_variable(tc, n) = before
  <2>1. LookupAt(tc.scopes, open, src, globals, v)
    BY DEF Looked
  <2>2. LET y == TypeBy(src, v[Len(src)][n], n)
        IN  lookup_variable(tc, n) = IF y = Null /\ n \in globals THEN "Function" ELSE y
    BY <1>2, <2>1, Found
  <2> QED
    BY <1>2, <2>2
<1> HIDE DEF before
<1>7. CASE before = Null
  <2>1. NewDeclares(t, n, before)
    BY <1>4, <1>7 DEF NewDeclares
  <2>2. Grows(tc.scopes, src, v, t, Bind(tc.scopes, n, type))
    BY <1>2, <1>3, <1>4, <1>5, <2>1, NameGrows DEF before
  <2>3. Len(Bind(tc.scopes, n, type)) = Len(tc.scopes)
    BY <1>2, BindLen
  <2>4. Plain(t, Bind(tc.scopes, n, type))
    BY <1>1, <1>6, <1>7 DEF t, type
  <2> QED
    BY <2>2, <2>3, <2>4, PlainLookup
<1>8. CASE before # Null
  <2>1. \A y \in Names : ~NewDeclares(t, y, TypeBy(src, v[Len(src)][y], y))
    BY <1>4, <1>8 DEF NewDeclares, Binders, before
  <2>2. Grows(tc.scopes, src, v, t, tc.scopes)
    BY <1>2, <2>1, NothingGrows
  <2>3. Plain(t, tc.scopes)
    BY <1>1, <1>6, <1>8 DEF t
  <2> QED
    BY <2>2, <2>3, PlainLookup
<1> QED
  BY <1>7, <1>8

\* expressions, print and return statements
LEMMA ReadLookup ==
    ASSUME StructureInv, NEW v, Looked(v), check_expr_statement \/ check_return_statement
    PROVE  StillLooked
<1>1. PICK k \in {"expr", "print", "return"}, x \in Literals \cup Names :
         Plain(Met(k, NoName, Null, x, NoName, Null), tc.scopes)
  BY ExprEffect, ReturnEffect DEF StructureInv
<1> DEFINE t == Met(k, NoName, Null, x, NoName, Null)
<1>2. t.n = NoName /\ t.f = NoName
  BY DEF Met
<1> HIDE DEF t
<1>3. \A n \in Names : ~NewDeclares(t, n, TypeBy(src, v[Len(src)][n], n))
  BY <1>2, NothingDeclared
<1>4. Grows(tc.scopes, src, v, t, tc.scopes)
  BY <1>3, NothingGrows, StructureFacts
<1>5. Plain(t, tc.scopes)
  BY <1>1 DEF t
<1> QED
  BY <1>4, <1>5, PlainLookup

\* blocks, if, while and parallel statements
LEMMA BlockLookup ==
    ASSUME StructureInv, NEW v, Looked(v), check_block_statement \/ check_parallel_statement
    PROVE  StillLooked
<1> DEFINE E == Append(tc.scopes, EmptyScope)
           F == Append(E, EmptyScope)
<1>1. PICK k \in {"block", "if", "while", "parallel"} :
         Opened(Met(k, NoName, Null, Null, NoName, Null), IF k = "parallel" THEN F ELSE E,
                IF k = "parallel" THEN 2 ELSE 1, 1, tc.return_type)
  <2>1. CASE check_block_statement
    BY <2>1, BlockEffect DEF StructureInv
  <2>2. CASE check_parallel_statement
    BY <2>2, ParallelEffect DEF StructureInv
  <2> QED
    BY <2>1, <2>2
<1> DEFINE t == Met(k, NoName, Null, Null, NoName, Null)
           T == IF k = "parallel" THEN F ELSE E
<1>2. t.n = NoName /\ t.f = NoName /\ t.k = k
  BY DEF Met
<1> HIDE DEF t
<1>3. \A n \in Names : ~NewDeclares(t, n, TypeBy(src, v[Len(src)][n], n))
  BY <1>2, NothingDeclared
<1>4. Grows(tc.scopes, src, v, t, E) /\ Grows(tc.scopes, src, v, t, F)
  BY <1>3, NothingGrows, StructureFacts
<1>5. Len(E) = Len(tc.scopes) + 1 /\ Len(F) = Len(tc.scopes) + 2
  <2>1. EmptyScope \in Scopes /\ tc.scopes \in Seq(Scopes)
    BY StructureFacts DEF EmptyScope, Scopes
  <2> HIDE DEF EmptyScope
  <2> QED
    BY <2>1
<1>6. Levels(t.k) = IF k = "parallel" THEN 2 ELSE 1
  BY <1>2 DEF Levels, Wide, Binders
<1> HIDE DEF E, F
<1>7. Grows(tc.scopes, src, v, t, T) /\ Len(T) = Len(tc.scopes) + Levels(t.k)
  BY <1>4, <1>5, <1>6
<1>8. Opened(t, T, IF k = "parallel" THEN 2 ELSE 1, 1, tc.return_type)
  BY <1>1 DEF t
<1> HIDE DEF T
<1> QED
  BY <1>7, <1>8, OpenLookup

\* for statements, and those that bind a name without a record of its memory
LEMMA BoundLookup ==
    ASSUME StructureInv, NEW v, Looked(v), NEW t, NEW n \in Vars, NEW type, NEW regions, NEW ret,
           t.k \in Binders, t.n = n, t.f = NoName, type # Absent, NewType(t, n) = type,
           Opened(t, Bound(tc.scopes, n, type), 2, regions, ret)
    PROVE  StillLooked
<1>1. n \in Names /\ tc.scopes \in Seq(Scopes) /\ tc.scopes # <<>>
  BY StructureFacts DEF Names, StructureInv, TypesOK
<1>2. t.k \in Openers /\ Levels(t.k) = 2
  BY DEF Openers, Levels, Wide
<1>3. NewDeclares(t, n, TypeBy(src, v[Len(src)][n], n))
  BY DEF NewDeclares
<1>4. Grows(tc.scopes, src, v, t, Bound(tc.scopes, n, type))
  BY <1>1, <1>2, <1>3, NameGrows
<1>5. Len(Bound(tc.scopes, n, type)) = Len(tc.scopes) + Levels(t.k)
  BY <1>1, <1>2, BoundFacts
<1> QED
  BY <1>4, <1>5, OpenLookup

LEMMA ForLookup ==
    ASSUME StructureInv, NEW v, Looked(v), check_for_statement
    PROVE  StillLooked
<1>1. PICK n \in Vars, x \in Literals \cup Names :
         Opened(Met("for", n, Null, x, NoName, Null),
                Bound(tc.scopes, n, var_type(Null, ValueType(tc, x))), 2, 1, tc.return_type)
  BY ForEffect DEF StructureInv
<1> DEFINE t == Met("for", n, Null, x, NoName, Null)
           type == var_type(Null, ValueType(tc, x))
<1>2. type # Absent /\ ValueType(tc, x) = IF t.v \in Literals THEN t.v ELSE t.ty
  BY ValueTypes
<1>3. t.k = "for" /\ t.n = n /\ t.f = NoName /\ t.a = Null /\ n # NoName /\ t.k \in Binders
  BY NamesAssumption DEF Met, Binders, Names
<1> HIDE DEF t
<1>4. NewType(t, n) = type
  BY <1>2, <1>3 DEF NewType
<1> HIDE DEF type
<1>5. Opened(t, Bound(tc.scopes, n, type), 2, 1, tc.return_type)
  BY <1>1 DEF t, type
<1> QED
  BY <1>2, <1>3, <1>4, <1>5, BoundLookup

LEMMA BinderLookup ==
    ASSUME StructureInv, NEW v, Looked(v),
           check_concurrent_statement \/ check_task_statement \/ check_worker_statement
           \/ check_frame_method
    PROVE  StillLooked
<1>1. PICK k \in {"concurrent", "task", "worker", "method"}, n \in Vars,
           a \in Literals \cup {Null} :
         /\ Opened(Met(k, n, a, Null, NoName, Null), Bound(tc.scopes, n, BoundType(k, a)),
                   2, 1, tc.return_type)
         /\ BoundType(k, a) \in TypeOrNull
  BY BinderEffect DEF StructureInv
<1> DEFINE t == Met(k, n, a, Null, NoName, Null)
           type == BoundType(k, a)
<1>2. type # Absent
  BY <1>1 DEF TypeOrNull, Types, Null, Absent
<1>3. t.k = k /\ t.n = n /\ t.f = NoName /\ t.a = a /\ n # NoName /\ t.k \in Binders
  BY NamesAssumption DEF Met, Binders, Names
<1> HIDE DEF t
<1>4. NewType(t, n) = type
  BY <1>3 DEF NewType, BoundType
<1> HIDE DEF type
<1>5. Opened(t, Bound(tc.scopes, n, type), 2, 1, tc.return_type)
  BY <1>1 DEF t, type
<1> QED
  BY <1>2, <1>3, <1>4, <1>5, BoundLookup

LEMMA FunctionLookup ==
    ASSUME StructureInv, NEW v, Looked(v), check_function_declaration
    PROVE  StillLooked
<1>1. PICK f \in Fns, n \in Vars, a \in {"Any", "List"}, ret \in {"Any", "Int"} :
         Opened(Met("fn", n, a, Null, f, ret),
                Bound(Bind(tc.scopes, f, "Function"), n, a), 2, 2, ret)
  BY FunctionEffect DEF StructureInv
<1> DEFINE t == Met("fn", n, a, Null, f, ret)
           B == Bind(tc.scopes, f, "Function")
           U == Scopes \cup {Put(tc.scopes[Len(tc.scopes)], f, "Function")}
<1>2. tc.scopes \in Seq(Scopes) /\ tc.scopes # <<>>
  BY StructureFacts DEF StructureInv, TypesOK
<1>3. t.k = "fn" /\ t.n = n /\ t.f = f /\ t.a = a /\ a # Absent
  BY DEF Met, Absent
<1>4. Opened(t, Bound(B, n, a), 2, 2, ret)
  BY <1>1
<1> HIDE DEF t
<1>5. Grows(tc.scopes, src, v, t, Bound(B, n, a))
  BY <1>2, <1>3, FunctionGrows
<1>6. B \in Seq(U) /\ Len(B) = Len(tc.scopes)
  BY <1>2, BindLen
<1> HIDE DEF B, U
<1>7. Len(Bound(B, n, a)) = Len(tc.scopes) + Levels(t.k)
  <2>1. Levels(t.k) = 2
    BY <1>3 DEF Levels, Wide
  <2>2. Len(Bound(B, n, a)) = Len(B) + 2
    BY <1>6, BoundFacts
  <2> QED
    BY <1>6, <2>1, <2>2
<1> QED
  BY <1>4, <1>5, <1>7, OpenLookup

LEMMA TypesLookup ==
    ASSUME StructureInv, NEW v, Looked(v), TypesNext
    PROVE  StillLooked
<1>1. CASE finish_types
  BY <1>1 DEF finish_types, StillLooked, Looked
<1>2. CASE check_var_declaration
  BY <1>2, VarLookup
<1>3. CASE check_expr_statement \/ check_return_statement
  BY <1>3, ReadLookup
<1>4. CASE check_assign_statement
  BY <1>4, AssignLookup
<1>5. CASE check_block_statement \/ check_parallel_statement
  BY <1>5, BlockLookup
<1>6. CASE check_for_statement
  BY <1>6, ForLookup
<1>7. CASE check_concurrent_statement \/ check_task_statement \/ check_worker_statement
           \/ check_frame_method
  BY <1>7, BinderLookup
<1>8. CASE check_function_declaration
  BY <1>8, FunctionLookup
<1>9. CASE end_statement
  BY <1>9, EndLookup
<1> QED
  BY <1>1, <1>2, <1>3, <1>4, <1>5, <1>6, <1>7, <1>8, <1>9 DEF TypesNext

\* Before the first token the outermost scope holds the functions of PASS 2.
LEMMA InitLookup == Init => \E v : Looked(v)
<1> SUFFICES ASSUME Init PROVE \E v : Looked(v)
  OBVIOUS
<1> DEFINE scope == [n \in Names |-> IF n \in globals THEN "Function" ELSE Absent]
           S == <<scope>>
           v == [q \in 0..0 |-> [n \in Names |-> 0]]
           H == [i \in 1..1 |-> 0]
           B == [j \in 0..0 |-> 1]
           d == [i \in 1..1 |-> 0]
<1>1. open = <<>> /\ src = <<>> /\ tc.scopes = S /\ Len(S) = 1 /\ S[1] = scope
  BY DEF Init, Fresh
<1>2. Len(src) = 0 /\ Len(open) = 0
  BY <1>1
<1>3. VisibleIs(src, v)
  <2>1. \A q \in 0..0, n \in Names : SeenBy(src, v, q, n) = {}
    BY DEF SeenBy
  <2>2. \A q \in 0..0, n \in Names : LastOf(SeenBy(src, v, q, n)) = 0
    BY <2>1 DEF LastOf
  <2>3. VisibleBody(src, v) = [q \in 0..0 |-> [n \in Names |-> LastOf(SeenBy(src, v, q, n))]]
    BY <1>2 DEF VisibleBody
  <2>4. VisibleBody(src, v) = [q \in 0..0 |-> [n \in Names |-> 0]]
    BY <2>2, <2>3
  <2> QED
    BY <2>4 DEF VisibleIs
<1>4. Layers(Len(S), open, src, H, B)
  <2>1. H \in [1..1 -> Nat] /\ B \in [0..0 -> Nat] /\ B[0] = 1 /\ H[1] = 0
    OBVIOUS
  <2> HIDE DEF H, B, S
  <2> QED
    BY <1>1, <1>2, <2>1 DEF Layers
<1>5. ASSUME NEW n \in Names PROVE Held(S, H, src, globals, v, d, n)
  <2>1. d \in [1..1 -> 0..0] /\ \A i \in 1..1 : d[i] = 0 /\ i = 1
    OBVIOUS
  <2>2. scope[n] = Absent \/ (n \in globals /\ scope[n] = "Function")
    OBVIOUS
  <2> HIDE DEF d, scope, S, H, v
  <2> QED
    BY <1>1, <1>2, <2>1, <2>2 DEF Held
<1> HIDE DEF S, v, H, B, d
<1>6. \A n \in Names : \E e : Held(S, H, src, globals, v, e, n)
  BY <1>5
<1> QED
  BY <1>1, <1>3, <1>4, <1>6 DEF Looked, LookupAt

\* lookup_variable finds what the program makes visible.
LEMMA LookedLexical ==
    ASSUME StructureInv, NEW v, Looked(v)
    PROVE  LexicalLookup
<1> DEFINE u == Visible
           m == Len(src)
<1>1. VisibleIs(src, v) /\ LookupAt(tc.scopes, open, src, globals, v)
  BY DEF Looked, LookupAt
<1>2. VisibleIs(src, u)
  <2>1. v = VisibleBody(src, v)
    BY <1>1 DEF VisibleIs
  <2>2. (CHOOSE w : w = VisibleBody(src, w)) = VisibleBody(src, CHOOSE w : w = VisibleBody(src, w))
    BY <2>1
  <2> QED
    BY <2>2, VisibleUnfolds DEF VisibleIs
<1>3. m \in 0..m /\ src \in Seq(TokenType)
  BY StructureFacts
<1> HIDE DEF u, m
<1>4. ASSUME NEW n \in Names PROVE lookup_variable(tc, n) = VisibleType(n)
  <2>1. u[m][n] = v[m][n]
    BY <1>1, <1>2, <1>3, VisibleOnce DEF m
  <2>2. LET type == TypeBy(src, v[m][n], n)
        IN  lookup_variable(tc, n) = IF type = Null /\ n \in globals THEN "Function" ELSE type
    BY <1>1, Found DEF m
  <2>3. \A p : DeclaredType(p, n) = SDeclaredType(src, p, n)
    BY DEF DeclaredType, SDeclaredType
  <2>4. VisibleType(n) = LET type == TypeBy(src, u[m][n], n)
                         IN  IF type = Null /\ n \in globals THEN "Function" ELSE type
    BY <2>3 DEF VisibleType, TypeBy, u, m
  <2> QED
    BY <2>1, <2>2, <2>4
<1> QED
  BY <1>4 DEF LexicalLookup

\* lookup_variable finds, through the chain of scopes, the declaration that the
\* nesting of the source makes visible, whatever was shadowed, implicitly
\* declared or closed before (declare_variable, enter_scope and exit_scope, as
\* the statements call them, and the second chance that lookup_variable gives to
\* the functions of the program).
THEOREM ScopesLexical == MemorySpec => []LexicalLookup
<1> DEFINE LI == \E v : Looked(v)
<1>1. MemoryInit => LI
  BY InitLookup DEF MemoryInit
<1>2. StructureInv /\ LI /\ [MemoryNext]_<<vars, memoryVars>> => LI'
  <2> SUFFICES ASSUME StructureInv, NEW v, Looked(v), [MemoryNext]_<<vars, memoryVars>> PROVE LI'
    OBVIOUS
  <2>1. CASE TypesNext
    BY <2>1, TypesLookup DEF StillLooked, Looked
  <2>2. CASE UNCHANGED <<tc, open, globals, src>>
    BY <2>2 DEF Looked
  <2> QED
    BY <2>1, <2>2, MemoryReads
<1>3. StructureInv /\ LI => LexicalLookup
  BY LookedLexical
<1> HIDE DEF LI
<1> QED
  BY <1>1, <1>2, <1>3, StructureInvariant, PTL DEF MemorySpec

(***************************************************************************)
(* The memory checker.  It meets the statements of the program in their     *)
(* order, without those inside of statements that it has no case for.       *)
(***************************************************************************)
\* every token stands in the innermost statement that is open before it
Around(s) ==
    \A r \in DOMAIN s :
        /\ s[r].up # 0 => /\ s[r].up \in 1..(r - 1) /\ s[s[r].up].k \in Openers
                          /\ ~Ended(s, s[r].up, r - 1)
        /\ \A p \in 1..(r - 1) : s[p].k \in Openers /\ p > s[r].up => Ended(s, p, r - 1)

LEMMA EndedMono ==
    ASSUME NEW s, NEW p, NEW q \in Int, NEW x \in Int, q <= x, Ended(s, p, q)
    PROVE  Ended(s, p, x)
<1>1. PICK e \in 1..q : s[e].k = "end" /\ s[e].up = p
  BY DEF Ended
<1>2. e \in 1..x
  OBVIOUS
<1> QED
  BY <1>1, <1>2 DEF Ended

LEMMA EndedStep ==
    ASSUME NEW s, NEW p, NEW k \in Nat \ {0}
    PROVE  Ended(s, p, k) <=> Ended(s, p, k - 1) \/ (s[k].k = "end" /\ s[k].up = p)
<1>1. \A e \in 1..k : e \in 1..(k - 1) \/ e = k
  OBVIOUS
<1>2. k \in 1..k /\ \A e \in 1..(k - 1) : e \in 1..k
  OBVIOUS
<1> QED
  BY <1>1, <1>2 DEF Ended

LEMMA AroundAppend ==
    ASSUME NEW o \in Seq(Nat), NEW s \in Seq(TokenType), WellNested(o, s), Around(s),
           NEW t, t.up = Inner(o)
    PROVE  Around(Append(s, t))
<1> DEFINE w == Append(s, t)
           m == Len(s)
<1>1. /\ m \in Nat /\ DOMAIN w = 1..(m + 1) /\ DOMAIN s = 1..m /\ w[m + 1] = t
      /\ \A p \in 1..m : w[p] = s[p]
  OBVIOUS
<1>2. \A p : \A q \in 0..m : Ended(w, p, q) <=> Ended(s, p, q)
  BY EndedAppend
<1> HIDE DEF w, m
<1>3. ASSUME NEW r \in 1..m
      PROVE  /\ w[r].up # 0 => /\ w[r].up \in 1..(r - 1) /\ w[w[r].up].k \in Openers
                               /\ ~Ended(w, w[r].up, r - 1)
             /\ \A p \in 1..(r - 1) : w[p].k \in Openers /\ p > w[r].up => Ended(w, p, r - 1)
  <2>1. w[r] = s[r] /\ r - 1 \in 0..m
    BY <1>1
  <2>3. ASSUME NEW p \in 1..(r - 1) PROVE w[p] = s[p]
    <3>1. p \in 1..m
      BY <1>1
    <3> QED
      BY <1>1, <3>1
  <2>2. /\ s[r].up # 0 => /\ s[r].up \in 1..(r - 1) /\ s[s[r].up].k \in Openers
                          /\ ~Ended(s, s[r].up, r - 1)
        /\ \A p \in 1..(r - 1) : s[p].k \in Openers /\ p > s[r].up => Ended(s, p, r - 1)
    BY <1>1 DEF Around
  <2> QED
    BY <1>2, <2>1, <2>2, <2>3
<1>4. /\ t.up # 0 => t.up \in 1..m /\ s[t.up].k \in Openers /\ ~Ended(s, t.up, m)
      /\ \A p \in 1..m : s[p].k \in Openers /\ p > t.up => Ended(s, p, m)
  <2>1. CASE o = <<>>
    <3>1. t.up = 0 /\ DOMAIN o = {}
      BY <2>1 DEF Inner
    <3> QED
      BY <1>1, <3>1 DEF WellNested, m
  <2>2. CASE o # <<>>
    <3>1. Len(o) \in DOMAIN o /\ t.up = o[Len(o)] /\ DOMAIN o = 1..Len(o) /\ Len(o) \in Nat
      BY <2>2 DEF Inner
    <3>2. t.up \in 1..m /\ s[t.up].k \in Openers /\ ~Ended(s, t.up, m)
      BY <1>1, <3>1 DEF WellNested, m
    <3>3. ASSUME NEW p \in 1..m, s[p].k \in Openers, p > t.up PROVE Ended(s, p, m)
      <4> SUFFICES ASSUME ~Ended(s, p, m) PROVE FALSE
        OBVIOUS
      <4>1. PICK i \in DOMAIN o : o[i] = p
        BY <1>1, <3>3 DEF WellNested, m
      <4>2. i = Len(o) \/ o[i] < o[Len(o)]
        <5>1. i \in 1..Len(o) /\ (i = Len(o) \/ i < Len(o))
          BY <3>1
        <5>2. \A x, y \in DOMAIN o : x < y => o[x] < o[y]
          BY DEF WellNested
        <5> QED
          BY <3>1, <5>1, <5>2
      <4> QED
        BY <1>1, <3>1, <3>2, <3>3, <4>1, <4>2
    <3> QED
      BY <3>2, <3>3
  <2> QED
    BY <2>1, <2>2
<1>5. /\ w[m + 1].up # 0 => /\ w[m + 1].up \in 1..m /\ w[w[m + 1].up].k \in Openers
                            /\ ~Ended(w, w[m + 1].up, m)
      /\ \A p \in 1..m : w[p].k \in Openers /\ p > w[m + 1].up => Ended(w, p, m)
  <2>1. m \in 0..m
    BY <1>1
  <2> QED
    BY <1>1, <1>2, <1>4, <2>1
<1>6. \A r \in 1..(m + 1) : r \in 1..m \/ (r = m + 1 /\ r - 1 = m)
  BY <1>1
<1>7. Around(w)
  BY <1>1, <1>3, <1>5, <1>6 DEF Around
<1> QED
  BY <1>7 DEF w

\* Every step of the type checker but its last one adds a token.
LEMMA SourceGrows ==
    ASSUME StructureInv, TypesNext
    PROVE  /\ phase = "types"
           /\ \/ \E t : src' = Append(src, t) /\ t.up = Inner(open) /\ phase' \in {"types", "crashed"}
              \/ src' = src /\ open' = open /\ phase' # "types" /\ (phase' = "memory" => open = <<>>)
<1>0. TypesOK /\ Inner(open) = Innermost
  BY StructureFacts DEF StructureInv
<1>1. ASSUME NEW t, NEW s, Plain(t, s)
      PROVE phase = "types" /\ src' = Append(src, t) /\ t.up = Inner(open) /\ phase' \in {"types", "crashed"}
  BY <1>0, <1>1 DEF Plain
<1>2. ASSUME NEW t, NEW s, NEW l, NEW x, NEW ret, Opened(t, s, l, x, ret)
      PROVE phase = "types" /\ src' = Append(src, t) /\ t.up = Inner(open) /\ phase' \in {"types", "crashed"}
  BY <1>0, <1>2 DEF Opened
<1>3. CASE check_var_declaration
  BY <1>0, <1>1, <1>3, VarEffect
<1>4. CASE check_expr_statement
  BY <1>0, <1>1, <1>4, ExprEffect
<1>5. CASE check_assign_statement
  BY <1>0, <1>1, <1>5, AssignEffect
<1>6. CASE check_return_statement
  BY <1>0, <1>1, <1>6, ReturnEffect
<1>7. CASE check_block_statement
  BY <1>0, <1>2, <1>7, BlockEffect
<1>8. CASE check_parallel_statement
  BY <1>0, <1>2, <1>8, ParallelEffect
<1>9. CASE check_for_statement
  BY <1>0, <1>2, <1>9, ForEffect
<1>10. CASE check_concurrent_statement \/ check_task_statement \/ check_worker_statement
            \/ check_frame_method
  BY <1>0, <1>2, <1>10, BinderEffect
<1>11. CASE check_function_declaration
  BY <1>0, <1>2, <1>11, FunctionEffect
<1>12. CASE end_statement
  <2> DEFINE t == [Met("end", NoName, Null, Null, NoName, Null) EXCEPT !.up = Innermost]
  <2>1. src' = Append(src, t)
    BY <1>12, EndStructure DEF Closed
  <2>2. t.up = Innermost
    BY DEF Met
  <2>3. phase = "types" /\ phase' = "types"
    BY <1>12 DEF end_statement
  <2> QED
    BY <1>0, <2>1, <2>2, <2>3
<1>13. CASE finish_types
  BY <1>13 DEF finish_types, Complete
<1> QED
  BY <1>3, <1>4, <1>5, <1>6, <1>7, <1>8, <1>9, <1>10, <1>11, <1>12, <1>13 DEF TypesNext

\* what check_block_statement saves, and the state of the memory checker
Saved == [moved : SUBSET Names, initialized : SUBSET (Names \cup {NoName})]

MemoryCheckers ==
    [moved : SUBSET Names, initialized : SUBSET (Names \cup {NoName}), saved : Seq(Saved),
     errors : SUBSET [at : Nat, what : {"use after move", "use before init"}],
     region : Nat, generation : Nat]

\* the statement of the declaration in r is one the pass looks into
Looks(s, q) == \A p \in 1..(q - 1) : s[p].k \in Unseen => Ended(s, p, q)

\* token r moves a name, and the statement around it has not ended by q
MovedAt(s, r, q) ==
    /\ s[r].k \in {"var", "for"} /\ s[r].v \in Names /\ s[r].ty # "Function"
    /\ Looks(s, r)
    /\ s[r].up = 0 \/ ~Ended(s, s[r].up, q)

\* The pass is before token k.  P gives the statements whose bodies it is in: those that have not
\* ended.  The names moved so far are known, and those moved before each P[i] are saved.
Walk(s, m, k, P) ==
    /\ P \in [1..Len(m.saved) -> Nat]
    /\ \A i \in 1..Len(m.saved) :
          P[i] \in 1..(k - 1) /\ s[P[i]].k \in Openers /\ ~Ended(s, P[i], k - 1)
    /\ \A i, j \in 1..Len(m.saved) : i < j => P[i] < P[j]
    /\ \A p \in 1..(k - 1) : s[p].k \in Openers =>
          Ended(s, p, k - 1) \/ (s[p].k \notin Unseen /\ \E i \in 1..Len(m.saved) : P[i] = p)
    /\ \A r \in 1..(k - 1) : MovedAt(s, r, k - 1) => s[r].v \in m.moved
    /\ \A i \in 1..Len(m.saved) : \A r \in 1..P[i] :
          MovedAt(s, r, P[i]) => s[r].v \in m.saved[i].moved

Remembered(s, m, k) ==
    \A q \in 1..(k - 1), r \in DOMAIN s :
        /\ r < q
        /\ s[q].k \in {"var", "for", "expr"} /\ s[q].v \in Names
        /\ s[r].v = s[q].v /\ MovedAt(s, r, q) /\ Looks(s, q)
        => \E e \in m.errors : e.at = q

LEMMA RememberedIs == MovesRemembered <=> Remembered(src, mc, pc)
BY DEF MovesRemembered, Remembered, MovedAt, Looks, Seen, Positions, EndedBy, Ended

LEMMA MovedEarlier ==
    ASSUME NEW s, NEW r, NEW q \in Int, NEW x \in Int, q <= x, MovedAt(s, r, x)
    PROVE  MovedAt(s, r, q)
BY EndedMono DEF MovedAt

\* check_variable_access
LEMMA AccessFacts ==
    ASSUME pc \in Nat, NEW m \in MemoryCheckers, NEW n
    PROVE  LET x == check_variable_access(m, n)
           IN  /\ x \in MemoryCheckers /\ x.moved = m.moved /\ x.saved = m.saved
               /\ m.errors \subseteq x.errors
               /\ n \in m.moved => \E e \in x.errors : e.at = pc
<1>1. ASSUME NEW what \in {"use after move", "use before init"}
      PROVE  /\ add_memory_error(m, what) \in MemoryCheckers
             /\ add_memory_error(m, what).moved = m.moved
             /\ add_memory_error(m, what).saved = m.saved
             /\ m.errors \subseteq add_memory_error(m, what).errors
             /\ \E e \in add_memory_error(m, what).errors : e.at = pc
  <2> DEFINE Errors == SUBSET [at : Nat, what : {"use after move", "use before init"}]
             E == m.errors \cup {[at |-> pc, what |-> what]}
  <2>1. E \in Errors /\ m.errors \subseteq E /\ \E e \in E : e.at = pc
    <3>1. [at |-> pc, what |-> what] \in [at : Nat, what : {"use after move", "use before init"}]
      OBVIOUS
    <3>2. m.errors \in Errors
      BY DEF MemoryCheckers
    <3>3. E \in Errors /\ m.errors \subseteq E
      BY <3>1, <3>2
    <3>4. [at |-> pc, what |-> what] \in E /\ [at |-> pc, what |-> what].at = pc
      OBVIOUS
    <3> HIDE DEF E, Errors
    <3> QED
      BY <3>3, <3>4
  <2>2. add_memory_error(m, what) = [m EXCEPT !.errors = E]
    BY DEF add_memory_error
  <2> HIDE DEF E
  <2>3. [m EXCEPT !.errors = E] \in MemoryCheckers
    BY <2>1 DEF MemoryCheckers
  <2>4. /\ [m EXCEPT !.errors = E].errors = E /\ [m EXCEPT !.errors = E].moved = m.moved
        /\ [m EXCEPT !.errors = E].saved = m.saved
    BY DEF MemoryCheckers
  <2> QED
    BY <2>1, <2>2, <2>3, <2>4
<1>2. check_variable_access(m, n) = IF n \in m.moved THEN add_memory_error(m, "use after move")
                                    ELSE IF n \notin m.moved \cup m.initialized
                                         THEN add_memory_error(m, "use before init") ELSE m
  BY DEF check_variable_access
<1> QED
  BY <1>1, <1>2

\* check_var_declaration
LEMMA VarFacts ==
    ASSUME pc \in Nat, NEW m \in MemoryCheckers, NEW t \in TokenType
    PROVE  LET x == check_var(m, t)
           IN  /\ x \in MemoryCheckers /\ x.saved = m.saved /\ m.errors \subseteq x.errors
               /\ m.moved \subseteq x.moved
               /\ t.v \in Names /\ t.ty # "Function" => t.v \in x.moved
               /\ t.v \in m.moved => \E e \in x.errors : e.at = pc
<1> DEFINE read == IF t.v \in Names THEN check_variable_access(m, t.v) ELSE m
           s == IF t.v = Null THEN read ELSE [read EXCEPT !.initialized = @ \cup {t.n}]
           x == IF t.v \notin Names THEN s
                ELSE IF t.v \in s.moved THEN add_memory_error(s, "use after move")
                ELSE IF t.ty = "Function" THEN s
                ELSE mark_variable_moved(s, t.v)
<1>1. check_var(m, t) = x
  BY DEF check_var
<1>2. /\ read \in MemoryCheckers /\ read.saved = m.saved /\ m.errors \subseteq read.errors
      /\ read.moved = m.moved
      /\ t.v \in m.moved => \E e \in read.errors : e.at = pc
  <2>1. m.moved \subseteq Names
    BY DEF MemoryCheckers
  <2> QED
    BY <2>1, AccessFacts
<1> HIDE DEF read
<1>3. /\ s \in MemoryCheckers /\ s.saved = m.saved /\ s.errors = read.errors
      /\ s.moved = m.moved
  <2> DEFINE I == read.initialized \cup {t.n}
  <2>1. I \in SUBSET (Names \cup {NoName})
    <3>1. t.n \in Names \cup {NoName} /\ read.initialized \in SUBSET (Names \cup {NoName})
      BY <1>2 DEF TokenType, MemoryCheckers, Names
    <3> QED
      BY <3>1
  <2>2. s = IF t.v = Null THEN read ELSE [read EXCEPT !.initialized = I]
    OBVIOUS
  <2> HIDE DEF I
  <2> QED
    BY <1>2, <2>1, <2>2 DEF MemoryCheckers
<1> HIDE DEF s
<1>4. CASE t.v \in Names /\ t.v \in s.moved
  <2> DEFINE E == s.errors \cup {[at |-> pc, what |-> "use after move"]}
  <2>1. /\ E \in SUBSET [at : Nat, what : {"use after move", "use before init"}]
        /\ s.errors \subseteq E
    <3>1. [at |-> pc, what |-> "use after move"] \in
             [at : Nat, what : {"use after move", "use before init"}]
      OBVIOUS
    <3>2. s.errors \in SUBSET [at : Nat, what : {"use after move", "use before init"}]
      BY <1>3 DEF MemoryCheckers
    <3> QED
      BY <3>1, <3>2
  <2>2. x = [s EXCEPT !.errors = E]
    BY <1>4 DEF add_memory_error
  <2> HIDE DEF E, x
  <2>3. x \in MemoryCheckers /\ x.saved = s.saved /\ x.errors = E /\ x.moved = s.moved
    BY <1>3, <2>1, <2>2 DEF MemoryCheckers
  <2> QED
    BY <1>1, <1>2, <1>3, <1>4, <2>1, <2>3
<1>5. CASE t.v \in Names /\ t.v \notin s.moved /\ t.ty # "Function"
  <2> DEFINE V == s.moved \cup {t.v}
  <2>1. V \in SUBSET Names
    BY <1>3, <1>5 DEF MemoryCheckers
  <2>2. x = [s EXCEPT !.moved = V]
    BY <1>5 DEF mark_variable_moved
  <2>3. t.v \in V /\ s.moved \subseteq V
    OBVIOUS
  <2> HIDE DEF V, x
  <2>4. x \in MemoryCheckers /\ x.saved = s.saved /\ x.errors = s.errors /\ x.moved = V
    BY <1>3, <2>1, <2>2 DEF MemoryCheckers
  <2> QED
    BY <1>1, <1>2, <1>3, <2>3, <2>4
<1>6. CASE t.v \notin Names \/ (t.v \notin s.moved /\ t.ty = "Function")
  <2>1. x = s
    BY <1>6
  <2>2. m.moved \subseteq Names
    BY DEF MemoryCheckers
  <2> HIDE DEF x
  <2> QED
    BY <1>1, <1>2, <1>3, <1>6, <2>1, <2>2
<1> QED
  BY <1>4, <1>5, <1>6

\* check_block_statement
LEMMA EnterFacts ==
    ASSUME NEW m \in MemoryCheckers
    PROVE  LET x == enter_block(m)
               n == Len(m.saved)
           IN  /\ x \in MemoryCheckers /\ x.errors = m.errors /\ x.moved = m.moved
               /\ n \in Nat /\ Len(x.saved) = n + 1 /\ x.saved[n + 1].moved = m.moved
               /\ \A i \in 1..n : x.saved[i] = m.saved[i]
<1> DEFINE top == [moved |-> m.moved, initialized |-> m.initialized]
           S == Append(m.saved, top)
           n == Len(m.saved)
           x == enter_block(m)
<1>1. top \in Saved /\ m.saved \in Seq(Saved) /\ top.moved = m.moved
  BY DEF MemoryCheckers, Saved
<1> HIDE DEF top
<1>2. n \in Nat /\ S \in Seq(Saved) /\ Len(S) = n + 1 /\ S[n + 1] = top
      /\ \A i \in 1..n : S[i] = m.saved[i]
  BY <1>1
<1> DEFINE R == m.region + 1
           G == m.generation + 1
<1>3. x = [m EXCEPT !.saved = S, !.region = R, !.generation = G]
  BY DEF enter_block, top
<1>4. R \in Nat /\ G \in Nat
  <2>1. m.region \in Nat /\ m.generation \in Nat
    BY DEF MemoryCheckers
  <2> QED
    BY <2>1
<1> HIDE DEF S, x, R, G
<1>5. x \in MemoryCheckers /\ x.saved = S /\ x.errors = m.errors /\ x.moved = m.moved
  BY <1>2, <1>3, <1>4 DEF MemoryCheckers
<1> QED
  BY <1>1, <1>2, <1>5 DEF x, n

LEMMA LeaveFacts ==
    ASSUME NEW m \in MemoryCheckers, m.saved # <<>>
    PROVE  LET x == leave_block(m)
               n == Len(m.saved)
           IN  /\ x \in MemoryCheckers /\ x.errors = m.errors /\ x.moved = m.saved[n].moved
               /\ n \in Nat \ {0} /\ Len(x.saved) = n - 1
               /\ \A i \in 1..(n - 1) : x.saved[i] = m.saved[i]
<1> DEFINE n == Len(m.saved)
           S == SubSeq(m.saved, 1, n - 1)
           x == leave_block(m)
<1>1. m.saved \in Seq(Saved) /\ n \in Nat \ {0} /\ 1 \in 1..n
  <2>1. m.saved \in Seq(Saved)
    BY DEF MemoryCheckers
  <2> QED
    BY <2>1
<1>2. m.saved[n] \in Saved
  BY <1>1
<1>3. S \in Seq(Saved) /\ Len(S) = n - 1 /\ \A i \in 1..(n - 1) : S[i] = m.saved[i]
  BY <1>1, Popped
<1> DEFINE M == m.saved[n].moved
           I == m.saved[n].initialized
           G == m.generation + 1
<1>4. x = [m EXCEPT !.moved = M, !.initialized = I, !.saved = S, !.generation = G]
  BY DEF leave_block
<1>5. G \in Nat
  <2>1. m.generation \in Nat
    BY DEF MemoryCheckers
  <2> QED
    BY <2>1
<1>6. M \in SUBSET Names /\ I \in SUBSET (Names \cup {NoName})
  BY <1>2 DEF Saved
<1> HIDE DEF S, x, M, I, G
<1>7. x \in MemoryCheckers /\ x.saved = S /\ x.errors = m.errors /\ x.moved = M
  BY <1>3, <1>4, <1>5, <1>6 DEF MemoryCheckers
<1> QED
  BY <1>1, <1>3, <1>7 DEF x, n, M

\* A token without a body of its own.
LEMMA WalkPlain ==
    ASSUME NEW s, NEW m, NEW x, NEW k \in Nat \ {0}, NEW P, Walk(s, m, k, P),
           x.saved = m.saved, m.moved \subseteq x.moved, s[k].k \notin Openers \cup {"end"},
           MovedAt(s, k, k) => s[k].v \in x.moved
    PROVE  Walk(s, x, k + 1, P)
<1> DEFINE n == Len(m.saved)
<1>1. k + 1 - 1 = k /\ k - 1 \in Int /\ k \in Int /\ k - 1 <= k
  OBVIOUS
<1>2. \A p : Ended(s, p, k) <=> Ended(s, p, k - 1)
  BY EndedStep
<1>3. /\ P \in [1..n -> Nat]
      /\ \A i \in 1..n : P[i] \in 1..(k - 1) /\ s[P[i]].k \in Openers /\ ~Ended(s, P[i], k - 1)
      /\ \A i, j \in 1..n : i < j => P[i] < P[j]
      /\ \A p \in 1..(k - 1) : s[p].k \in Openers =>
            Ended(s, p, k - 1) \/ (s[p].k \notin Unseen /\ \E i \in 1..n : P[i] = p)
      /\ \A r \in 1..(k - 1) : MovedAt(s, r, k - 1) => s[r].v \in m.moved
      /\ \A i \in 1..n : \A r \in 1..P[i] : MovedAt(s, r, P[i]) => s[r].v \in m.saved[i].moved
  BY DEF Walk
<1>4. \A p \in 1..k : p \in 1..(k - 1) \/ p = k
  OBVIOUS
<1> HIDE DEF n
<1>5. \A i \in 1..n : P[i] \in 1..k /\ s[P[i]].k \in Openers /\ ~Ended(s, P[i], k)
  <2> TAKE i \in 1..n
  <2>1. P[i] \in 1..(k - 1) /\ s[P[i]].k \in Openers /\ ~Ended(s, P[i], k - 1)
    BY <1>3
  <2>2. P[i] \in 1..k
    BY <2>1
  <2> QED
    BY ONLY <1>2, <2>1, <2>2
<1>6. \A p \in 1..k : s[p].k \in Openers =>
            Ended(s, p, k) \/ (s[p].k \notin Unseen /\ \E i \in 1..n : P[i] = p)
  BY ONLY <1>2, <1>3, <1>4, s[k].k \notin Openers \cup {"end"}
<1>7. ASSUME NEW r \in 1..k, MovedAt(s, r, k) PROVE s[r].v \in x.moved
  <2>1. MovedAt(s, r, k - 1)
    BY <1>1, <1>7, MovedEarlier
  <2> QED
    BY <1>3, <1>4, <1>7, <2>1
<1> QED
  BY <1>1, <1>3, <1>5, <1>6, <1>7 DEF Walk, n

\* A statement that the pass looks into.
LEMMA WalkEnter ==
    ASSUME NEW s \in Seq(TokenType), Around(s), NEW m, NEW x, NEW k \in 1..Len(s), NEW P,
           Walk(s, m, k, P), Len(m.saved) \in Nat, Len(x.saved) = Len(m.saved) + 1,
           \A i \in 1..Len(m.saved) : x.saved[i] = m.saved[i],
           x.saved[Len(m.saved) + 1].moved = x.moved,
           m.moved \subseteq x.moved, s[k].k \in Openers \ Unseen,
           MovedAt(s, k, k) => s[k].v \in x.moved
    PROVE  \E Q : Walk(s, x, k + 1, Q)
<1> DEFINE n == Len(m.saved)
           Q == [i \in 1..(n + 1) |-> IF i = n + 1 THEN k ELSE P[i]]
<1>1. k \in Nat \ {0} /\ k + 1 - 1 = k /\ k - 1 \in Int /\ k \in Int /\ k - 1 <= k
  OBVIOUS
<1>2. \A p : Ended(s, p, k) <=> Ended(s, p, k - 1)
  <2>1. s[k].k # "end"
    BY DEF Openers, Binders
  <2> QED
    BY <1>1, <2>1, EndedStep
<1>3. /\ P \in [1..n -> Nat]
      /\ \A i \in 1..n : P[i] \in 1..(k - 1) /\ s[P[i]].k \in Openers /\ ~Ended(s, P[i], k - 1)
      /\ \A i, j \in 1..n : i < j => P[i] < P[j]
      /\ \A p \in 1..(k - 1) : s[p].k \in Openers =>
            Ended(s, p, k - 1) \/ (s[p].k \notin Unseen /\ \E i \in 1..n : P[i] = p)
      /\ \A r \in 1..(k - 1) : MovedAt(s, r, k - 1) => s[r].v \in m.moved
      /\ \A i \in 1..n : \A r \in 1..P[i] : MovedAt(s, r, P[i]) => s[r].v \in m.saved[i].moved
  BY DEF Walk
<1>4. \A p \in 1..k : p \in 1..(k - 1) \/ p = k
  OBVIOUS
<1>a. \A i \in 1..(n + 1) : i \in 1..n \/ i = n + 1
  OBVIOUS
<1>b. Q \in [1..(n + 1) -> Nat] /\ Q[n + 1] = k /\ \A i \in 1..n : Q[i] = P[i] /\ i \in 1..(n + 1)
  <2>1. n + 1 \in 1..(n + 1) /\ \A i \in 1..n : i \in 1..(n + 1) /\ i # n + 1
    OBVIOUS
  <2>2. \A i \in 1..(n + 1) : i # n + 1 => P[i] \in Nat
    BY <1>3, <1>a
  <2> QED
    BY <1>3, <2>1, <2>2
<1>c. ~Ended(s, k, k)
  <2>1. ASSUME NEW e \in 1..k, s[e].up = k PROVE FALSE
    <3>1. e \in DOMAIN s
      OBVIOUS
    <3>2. s[e].up # 0 => s[e].up \in 1..(e - 1)
      BY <3>1 DEF Around
    <3> QED
      BY <2>1, <3>2
  <2> QED
    BY <2>1 DEF Ended
<1> HIDE DEF Q
<1>5. \A i \in 1..(n + 1) : Q[i] \in 1..k /\ s[Q[i]].k \in Openers /\ ~Ended(s, Q[i], k)
  <2>1. k \in 1..k /\ \A p \in 1..(k - 1) : p \in 1..k
    OBVIOUS
  <2> QED
    BY <1>2, <1>3, <1>a, <1>b, <1>c, <2>1
<1>6. \A i, j \in 1..(n + 1) : i < j => Q[i] < Q[j]
  <2> SUFFICES ASSUME NEW i \in 1..(n + 1), NEW j \in 1..(n + 1), i < j PROVE Q[i] < Q[j]
    OBVIOUS
  <2>1. i \in 1..n /\ Q[i] = P[i] /\ P[i] \in 1..(k - 1)
    <3>1. i \in 1..n
      OBVIOUS
    <3> QED
      BY <1>3, <1>b, <3>1
  <2>2. CASE j = n + 1
    BY <1>b, <2>1, <2>2
  <2>3. CASE j \in 1..n
    BY <1>3, <1>b, <2>1, <2>3
  <2> QED
    BY <1>a, <2>2, <2>3
<1>7. \A p \in 1..k : s[p].k \in Openers =>
            Ended(s, p, k) \/ (s[p].k \notin Unseen /\ \E i \in 1..(n + 1) : Q[i] = p)
  <2>1. n + 1 \in 1..(n + 1)
    OBVIOUS
  <2> QED
    BY <1>2, <1>3, <1>4, <1>b, <2>1
<1>8. ASSUME NEW r \in 1..k, MovedAt(s, r, k) PROVE s[r].v \in x.moved
  <2>1. MovedAt(s, r, k - 1)
    BY <1>1, <1>8, MovedEarlier
  <2> QED
    BY <1>3, <1>4, <1>8, <2>1
<1>9. \A i \in 1..(n + 1) : \A r \in 1..Q[i] :
          MovedAt(s, r, Q[i]) => s[r].v \in x.saved[i].moved
  <2>1. ASSUME NEW i \in 1..n, NEW r \in 1..Q[i], MovedAt(s, r, Q[i])
        PROVE s[r].v \in x.saved[i].moved
    <3>1. Q[i] = P[i] /\ x.saved[i] = m.saved[i]
      BY <1>b
    <3> QED
      BY <1>3, <2>1, <3>1
  <2>2. ASSUME NEW r \in 1..Q[n + 1], MovedAt(s, r, Q[n + 1])
        PROVE s[r].v \in x.saved[n + 1].moved
    BY <1>8, <1>b, <2>2
  <2> QED
    BY <1>a, <2>1, <2>2
<1>10. Len(x.saved) = n + 1
  OBVIOUS
<1> HIDE DEF n
<1>11. Walk(s, x, k + 1, Q)
  BY <1>1, <1>b, <1>5, <1>6, <1>7, <1>8, <1>9, <1>10 DEF Walk
<1> QED
  BY <1>11

\* The end of a statement: it is the innermost one that the pass is in.
LEMMA WalkLeave ==
    ASSUME NEW s \in Seq(TokenType), Around(s), NEW m, NEW x, NEW k \in 1..Len(s), NEW P,
           Walk(s, m, k, P), Len(m.saved) \in Nat, s[k].k = "end", s[k].up # 0,
           m.saved # <<>> =>
               /\ Len(x.saved) = Len(m.saved) - 1 /\ x.moved = m.saved[Len(m.saved)].moved
               /\ \A i \in 1..(Len(m.saved) - 1) : x.saved[i] = m.saved[i],
           m.saved = <<>> => Len(m.saved) = 0,
           Len(m.saved) # 0 => m.saved # <<>>
    PROVE  m.saved # <<>> /\ \E Q : Walk(s, x, k + 1, Q)
<1> DEFINE n == Len(m.saved)
           u == s[k].up
           Q == [i \in 1..(n - 1) |-> P[i]]
<1>1. /\ k \in Nat \ {0} /\ k + 1 - 1 = k /\ k - 1 \in Int /\ k \in Int /\ k - 1 <= k
      /\ DOMAIN s = 1..Len(s) /\ k \in DOMAIN s
  OBVIOUS
<1>2. \A p : p # u => (Ended(s, p, k) <=> Ended(s, p, k - 1))
  BY <1>1, EndedStep
<1>3. /\ P \in [1..n -> Nat]
      /\ \A i \in 1..n : P[i] \in 1..(k - 1) /\ s[P[i]].k \in Openers /\ ~Ended(s, P[i], k - 1)
      /\ \A i, j \in 1..n : i < j => P[i] < P[j]
      /\ \A p \in 1..(k - 1) : s[p].k \in Openers =>
            Ended(s, p, k - 1) \/ (s[p].k \notin Unseen /\ \E i \in 1..n : P[i] = p)
      /\ \A i \in 1..n : \A r \in 1..P[i] : MovedAt(s, r, P[i]) => s[r].v \in m.saved[i].moved
  BY DEF Walk
<1>4. /\ u \in 1..(k - 1) /\ s[u].k \in Openers /\ ~Ended(s, u, k - 1)
      /\ \A p \in 1..(k - 1) : s[p].k \in Openers /\ p > u => Ended(s, p, k - 1)
  BY <1>1 DEF Around
<1>5. PICK d \in 1..n : P[d] = u
  BY <1>3, <1>4
<1>6. d = n
  <2> SUFFICES ASSUME d # n PROVE FALSE
    OBVIOUS
  <2>1. n \in 1..n /\ d < n
    BY <1>5
  <2>2. u < P[n] /\ P[n] \in 1..(k - 1) /\ s[P[n]].k \in Openers /\ ~Ended(s, P[n], k - 1)
    BY <1>3, <1>5, <2>1
  <2> QED
    BY <1>4, <2>2
<1>7. n # 0 /\ m.saved # <<>>
  BY <1>5
<1>8. Len(x.saved) = n - 1 /\ x.moved = m.saved[n].moved /\ \A i \in 1..(n - 1) : x.saved[i] = m.saved[i]
  BY <1>7
<1>a. \A i \in 1..(n - 1) : i \in 1..n /\ i < n
  OBVIOUS
<1>b. Q \in [1..(n - 1) -> Nat] /\ \A i \in 1..(n - 1) : Q[i] = P[i]
  BY <1>3, <1>a
<1>c. Ended(s, u, k)
  BY <1>1, EndedStep
<1>d. \A p \in 1..k : p \in 1..(k - 1) \/ p = k
  OBVIOUS
<1>e. n \in 1..n /\ P[n] = u
  BY <1>5, <1>6
<1>f. \A i \in 1..n : i # n => i \in 1..(n - 1)
  OBVIOUS
<1> HIDE DEF Q
<1>9. \A i \in 1..(n - 1) : Q[i] \in 1..k /\ s[Q[i]].k \in Openers /\ ~Ended(s, Q[i], k)
  <2> SUFFICES ASSUME NEW i \in 1..(n - 1)
               PROVE Q[i] \in 1..k /\ s[Q[i]].k \in Openers /\ ~Ended(s, Q[i], k)
    OBVIOUS
  <2>1. Q[i] = P[i] /\ P[i] < P[n] /\ P[i] \in 1..(k - 1)
    BY <1>3, <1>a, <1>b, <1>e
  <2>2. Q[i] # u /\ Q[i] \in 1..k
    BY <1>e, <2>1
  <2> QED
    BY <1>2, <1>3, <1>a, <2>1, <2>2
<1>10. \A i, j \in 1..(n - 1) : i < j => Q[i] < Q[j]
  BY <1>3, <1>a, <1>b
<1>11. ASSUME NEW p \in 1..k, s[p].k \in Openers
       PROVE Ended(s, p, k) \/ (s[p].k \notin Unseen /\ \E i \in 1..(n - 1) : Q[i] = p)
  <2>1. p \in 1..(k - 1)
    BY <1>d, <1>11 DEF Openers, Binders
  <2>2. CASE p = u
    BY <1>c, <2>2
  <2>3. CASE p # u
    <3>1. Ended(s, p, k - 1) \/ (s[p].k \notin Unseen /\ \E i \in 1..n : P[i] = p)
      BY <1>3, <1>11, <2>1
    <3>2. ASSUME NEW i \in 1..n, P[i] = p PROVE i \in 1..(n - 1) /\ Q[i] = p
      BY <1>b, <1>e, <1>f, <2>3, <3>2
    <3> QED
      BY <1>2, <2>3, <3>1, <3>2
  <2> QED
    BY <2>2, <2>3
<1>12. ASSUME NEW r \in 1..k, MovedAt(s, r, k) PROVE s[r].v \in x.moved
  <2>1. r \in 1..(k - 1) /\ r # k
    BY <1>12, <1>d DEF MovedAt
  <2>2. r \in 1..u
    <3> SUFFICES ASSUME r > u PROVE FALSE
      BY <1>4, <2>1
    <3>1. r \in DOMAIN s /\ u \in 1..(r - 1) /\ r - 1 \in Int /\ r - 1 <= k - 1 /\ k - 1 \in Int
      BY <1>1, <1>4, <2>1
    <3>2. /\ s[r].up # 0 => s[r].up \in 1..(r - 1) /\ s[s[r].up].k \in Openers
          /\ u > s[r].up => Ended(s, u, r - 1)
      BY <1>4, <3>1 DEF Around
    <3>3. ~Ended(s, u, r - 1)
      BY <1>4, <3>1, EndedMono
    <3>4. s[r].up # 0
      BY <1>4, <3>2, <3>3
    <3>5. s[r].up # u
      BY <1>c, <1>12, <3>4 DEF MovedAt
    <3>6. s[r].up > u /\ s[r].up \in 1..(k - 1)
      BY <1>4, <2>1, <3>2, <3>3, <3>4, <3>5
    <3>7. Ended(s, s[r].up, k - 1)
      BY <1>4, <3>2, <3>4, <3>6
    <3> QED
      BY <1>2, <1>12, <3>4, <3>5, <3>7 DEF MovedAt
  <2>3. MovedAt(s, r, u)
    <3>1. u \in Int /\ u <= k
      BY <1>4
    <3> QED
      BY <1>1, <1>12, <3>1, MovedEarlier
  <2> QED
    BY <1>3, <1>8, <1>e, <2>2, <2>3
<1>13. \A i \in 1..(n - 1) : \A r \in 1..Q[i] :
          MovedAt(s, r, Q[i]) => s[r].v \in x.saved[i].moved
  BY <1>3, <1>8, <1>a, <1>b
<1> HIDE DEF n
<1>14. Walk(s, x, k + 1, Q)
  BY <1>1, <1>8, <1>b, <1>9, <1>10, <1>11, <1>12, <1>13 DEF Walk
<1> QED
  BY <1>7, <1>14

\* A statement that the pass goes over: the only token that ends it is e.
LEMMA SkipFacts ==
    ASSUME NEW s \in Seq(TokenType), Around(s), NEW k \in 1..Len(s), NEW e \in 1..Len(s),
           s[k].k \in Unseen, s[e].k = "end", s[e].up = k
    PROVE  /\ k < e
           /\ \A x \in 1..e : s[x].k = "end" /\ s[x].up = k => x = e
           /\ \A x \in (k + 1)..e : s[x].k = "end" => s[x].up >= k
<1>1. DOMAIN s = 1..Len(s) /\ k \in Nat /\ e \in Nat /\ s[k].k \in Openers
  BY DEF Unseen, Openers, Binders
<1>2. k < e
  <2>1. s[e].up # 0 => s[e].up \in 1..(e - 1)
    BY <1>1 DEF Around
  <2> QED
    BY <2>1
<1>3. ASSUME NEW x \in 1..e, s[x].k = "end", s[x].up = k PROVE x = e
  <2> SUFFICES ASSUME x # e PROVE FALSE
    OBVIOUS
  <2>1. x \in 1..(e - 1)
    OBVIOUS
  <2>2. Ended(s, k, e - 1)
    BY <1>3, <2>1 DEF Ended
  <2>3. ~Ended(s, k, e - 1)
    BY <1>1 DEF Around
  <2> QED
    BY <2>2, <2>3
<1>4. ASSUME NEW x \in (k + 1)..e, s[x].k = "end" PROVE s[x].up >= k
  <2> SUFFICES ASSUME ~(s[x].up >= k) PROVE FALSE
    OBVIOUS
  <2>0. x \in DOMAIN s /\ x \in 1..e
    BY <1>1
  <2>1. s[x].up \in Nat
    BY <2>0, TokenFields
  <2>2. k \in 1..(x - 1) /\ k > s[x].up
    BY <2>1
  <2>3. Ended(s, k, x - 1)
    BY <1>1, <2>0, <2>2 DEF Around
  <2>4. PICK y \in 1..(x - 1) : s[y].k = "end" /\ s[y].up = k
    BY <2>3 DEF Ended
  <2>5. y \in 1..e /\ y # e
    OBVIOUS
  <2> QED
    BY <1>3, <2>4, <2>5
<1> QED
  BY <1>2, <1>3, <1>4

LEMMA WalkSkip ==
    ASSUME NEW s \in Seq(TokenType), Around(s), NEW m, NEW k \in 1..Len(s), NEW P,
           Walk(s, m, k, P), NEW e \in 1..Len(s),
           s[k].k \in Unseen, s[e].k = "end", s[e].up = k
    PROVE  Walk(s, m, e + 1, P)
<1> DEFINE n == Len(m.saved)
<1>1. /\ e + 1 - 1 = e /\ k - 1 \in Int /\ e \in Int /\ e \in Nat /\ k - 1 <= e /\ k < e
      /\ DOMAIN s = 1..Len(s) /\ s[k].k \notin {"end", "var"}
  BY SkipFacts DEF Unseen
<1>2. /\ \A x \in 1..e : s[x].k = "end" /\ s[x].up = k => x = e
      /\ \A x \in (k + 1)..e : s[x].k = "end" => s[x].up >= k
  BY SkipFacts
<1>3. /\ P \in [1..n -> Nat]
      /\ \A i \in 1..n : P[i] \in 1..(k - 1) /\ s[P[i]].k \in Openers /\ ~Ended(s, P[i], k - 1)
      /\ \A i, j \in 1..n : i < j => P[i] < P[j]
      /\ \A p \in 1..(k - 1) : s[p].k \in Openers =>
            Ended(s, p, k - 1) \/ (s[p].k \notin Unseen /\ \E i \in 1..n : P[i] = p)
      /\ \A r \in 1..(k - 1) : MovedAt(s, r, k - 1) => s[r].v \in m.moved
      /\ \A i \in 1..n : \A r \in 1..P[i] : MovedAt(s, r, P[i]) => s[r].v \in m.saved[i].moved
  BY DEF Walk
<1>4. \A x \in 1..e : x \in 1..(k - 1) \/ x = k \/ x \in (k + 1)..e
  OBVIOUS
<1>5. ASSUME NEW i \in 1..n PROVE P[i] \in 1..e /\ s[P[i]].k \in Openers /\ ~Ended(s, P[i], e)
  <2>1. P[i] \in 1..(k - 1) /\ s[P[i]].k \in Openers /\ ~Ended(s, P[i], k - 1)
    BY <1>3
  <2>2. P[i] \in 1..e /\ P[i] < k
    BY <1>1, <2>1
  <2>3. ASSUME NEW x \in 1..e, s[x].k = "end", s[x].up = P[i] PROVE FALSE
    <3>1. x \notin 1..(k - 1)
      BY <2>1, <2>3 DEF Ended
    <3>2. x # k
      BY <1>1, <2>3
    <3>3. x \notin (k + 1)..e
      BY <1>2, <2>2, <2>3
    <3> QED
      BY <1>4, <3>1, <3>2, <3>3
  <2> QED
    BY <2>1, <2>2, <2>3 DEF Ended
<1>6. ASSUME NEW p \in 1..e, s[p].k \in Openers
      PROVE Ended(s, p, e) \/ (s[p].k \notin Unseen /\ \E i \in 1..n : P[i] = p)
  <2>1. CASE p \in 1..(k - 1)
    <3>1. Ended(s, p, k - 1) => Ended(s, p, e)
      BY <1>1, EndedMono
    <3> QED
      BY <1>3, <1>6, <2>1, <3>1
  <2>2. CASE p = k
    BY <1>1, <2>2 DEF Ended
  <2>3. CASE p \in (k + 1)..e
    <3>1. p # e
      BY <1>6 DEF Openers, Binders
    <3>2. p \in 1..(e - 1) /\ p > k /\ e \in DOMAIN s
      BY <1>1, <2>3, <3>1
    <3>3. Ended(s, p, e - 1)
      BY <1>6, <3>2 DEF Around
    <3>4. e - 1 \in Int /\ e - 1 <= e
      BY <1>1
    <3> QED
      BY <1>1, <3>3, <3>4, EndedMono
  <2> QED
    BY <1>4, <2>1, <2>2, <2>3
<1>7. ASSUME NEW r \in 1..e, MovedAt(s, r, e) PROVE s[r].v \in m.moved
  <2>1. CASE r \in 1..(k - 1)
    BY <1>1, <1>3, <1>7, <2>1, MovedEarlier
  <2>2. CASE r = k
    BY <1>7, <2>2 DEF MovedAt, Unseen
  <2>3. CASE r \in (k + 1)..e
    <3>1. k \in 1..(r - 1) /\ r # e
      BY <1>7, <2>3 DEF MovedAt
    <3>2. Ended(s, k, r)
      BY <1>7, <3>1 DEF MovedAt, Looks
    <3>3. PICK x \in 1..r : s[x].k = "end" /\ s[x].up = k
      BY <3>2 DEF Ended
    <3>4. x \in 1..e /\ x # e
      BY <3>1
    <3> QED
      BY <1>2, <3>3, <3>4
  <2> QED
    BY <1>4, <2>1, <2>2, <2>3
<1> HIDE DEF n
<1> QED
  BY <1>1, <1>3, <1>5, <1>6, <1>7 DEF Walk, n

\* What a step has to add to the errors.
LEMMA RememberedNext ==
    ASSUME NEW s \in Seq(TokenType), NEW m, NEW x, NEW k \in Nat \ {0}, NEW P, Walk(s, m, k, P),
           Remembered(s, m, k), m.errors \subseteq x.errors,
           s[k].k \in {"var", "for", "expr"} /\ s[k].v \in m.moved => \E e \in x.errors : e.at = k
    PROVE  Remembered(s, x, k + 1)
<1>1. k + 1 - 1 = k /\ k - 1 \in Int /\ k \in Int /\ k - 1 <= k
  OBVIOUS
<1> SUFFICES ASSUME NEW q \in 1..k, NEW r \in DOMAIN s,
                    r < q, s[q].k \in {"var", "for", "expr"}, s[q].v \in Names,
                    s[r].v = s[q].v, MovedAt(s, r, q), Looks(s, q)
             PROVE  \E e \in x.errors : e.at = q
  BY <1>1 DEF Remembered
<1>2. CASE q \in 1..(k - 1)
  BY <1>2 DEF Remembered
<1>3. CASE q = k
  <2>1. MovedAt(s, r, k - 1) /\ r \in 1..(k - 1)
    BY <1>1, <1>3, MovedEarlier
  <2>2. s[r].v \in m.moved
    BY <1>3, <2>1 DEF Walk
  <2> QED
    BY <1>3, <2>2
<1>4. q \in 1..(k - 1) \/ q = k
  OBVIOUS
<1> QED
  BY <1>2, <1>3, <1>4

LEMMA RememberedSkip ==
    ASSUME NEW s \in Seq(TokenType), Around(s), NEW m, NEW k \in 1..Len(s), NEW e \in 1..Len(s),
           Remembered(s, m, k), s[k].k \in Unseen, s[e].k = "end", s[e].up = k
    PROVE  Remembered(s, m, e + 1)
<1>1. /\ e + 1 - 1 = e /\ k < e
      /\ \A x \in 1..e : s[x].k = "end" /\ s[x].up = k => x = e
  BY SkipFacts
<1> SUFFICES ASSUME NEW q \in 1..e, NEW r \in DOMAIN s,
                    r < q, s[q].k \in {"var", "for", "expr"}, s[q].v \in Names,
                    s[r].v = s[q].v, MovedAt(s, r, q), Looks(s, q)
             PROVE  \E y \in m.errors : y.at = q
  BY <1>1 DEF Remembered
<1>2. CASE q \in 1..(k - 1)
  BY <1>2 DEF Remembered
<1>3. q # k
  BY DEF Unseen
<1>4. CASE q \in (k + 1)..e
  <2>1. q # e /\ k \in 1..(q - 1)
    BY <1>4
  <2>2. Ended(s, k, q)
    BY <2>1 DEF Looks
  <2>3. PICK x \in 1..q : s[x].k = "end" /\ s[x].up = k
    BY <2>2 DEF Ended
  <2>4. x \in 1..e /\ x # e
    BY <1>4, <2>1
  <2> QED
    BY <1>1, <2>3, <2>4
<1>5. q \in 1..(k - 1) \/ q = k \/ q \in (k + 1)..e
  OBVIOUS
<1> QED
  BY <1>2, <1>3, <1>4, <1>5

(***************************************************************************)
(* The inductive invariant of the pass.                                     *)
(***************************************************************************)
MemoryInv ==
    /\ Around(src)
    /\ mc \in MemoryCheckers
    /\ pc \in 1..(Len(src) + 1)
    /\ phase = "types" => pc = 1
    /\ phase = "memory" => open = <<>>
    /\ Remembered(src, mc, pc)
    /\ \E P : Walk(src, mc, pc, P)

LEMMA MemoryBegins == MemoryInit => MemoryInv
<1> SUFFICES ASSUME MemoryInit PROVE MemoryInv
  OBVIOUS
<1>1. src = <<>> /\ open = <<>> /\ pc = 1 /\ globals \in SUBSET Fns /\ DOMAIN src = {} /\ Len(src) = 0
  BY DEF MemoryInit, Init
<1>2. /\ mc.moved = {} /\ mc.saved = <<>> /\ mc.errors = {} /\ Len(mc.saved) = 0
      /\ mc \in MemoryCheckers
  <2>1. <<>> \in Seq(Saved) /\ globals \in SUBSET (Names \cup {NoName})
    BY <1>1 DEF Names
  <2> QED
    BY <2>1 DEF MemoryInit, MemoryCheckers
<1>3. Around(src)
  BY <1>1 DEF Around
<1>4. Remembered(src, mc, pc)
  BY <1>1 DEF Remembered
<1>5. Walk(src, mc, pc, <<>>)
  <2>1. <<>> \in [1..0 -> Nat] /\ 1..0 = {} /\ 1 - 1 = 0
    OBVIOUS
  <2> QED
    BY <1>1, <1>2, <2>1 DEF Walk
<1> QED
  BY <1>1, <1>2, <1>3, <1>4, <1>5 DEF MemoryInv

\* While the types are checked the pass has not begun.
LEMMA TypesMemory ==
    ASSUME StructureInv, MemoryInv, TypesNext, UNCHANGED memoryVars
    PROVE  MemoryInv'
<1>1. phase = "types" /\ pc = 1 /\ mc' = mc /\ pc' = pc
  BY SourceGrows DEF memoryVars, MemoryInv
<1>2. CASE \E t : src' = Append(src, t) /\ t.up = Inner(open) /\ phase' \in {"types", "crashed"}
  <2>1. PICK t : src' = Append(src, t) /\ t.up = Inner(open)
    BY <1>2
  <2>2. src \in Seq(TokenType) /\ open \in Seq(Nat) /\ WellNested(open, src)
    BY StructureFacts
  <2>3. Around(src')
    BY <2>1, <2>2, AroundAppend DEF MemoryInv
  <2>4. Len(src') = Len(src) + 1
    BY <2>1, <2>2
  <2>5. PICK P : Walk(src, mc, 1, P)
    BY <1>1 DEF MemoryInv
  <2>6. 1 - 1 = 0 /\ 1..0 = {}
    OBVIOUS
  <2>7. P \in [1..Len(mc.saved) -> Nat] /\ 1..Len(mc.saved) = {}
    BY <2>5, <2>6 DEF Walk
  <2>8. Walk(src', mc, 1, P)
    BY <2>6, <2>7 DEF Walk
  <2>9. Remembered(src', mc, 1)
    BY <2>6 DEF Remembered
  <2>10. pc' \in 1..(Len(src') + 1)
    BY <1>1, <2>2, <2>4
  <2> QED
    BY <1>1, <1>2, <2>3, <2>8, <2>9, <2>10 DEF MemoryInv
<1>3. CASE src' = src /\ open' = open /\ phase' # "types" /\ (phase' = "memory" => open = <<>>)
  BY <1>1, <1>3 DEF MemoryInv
<1> QED
  BY <1>2, <1>3, SourceGrows

\* A step of the pass: what At says of it.
LEMMA AtFacts ==
    ASSUME StructureInv, MemoryInv, NEW kinds, At(kinds)
    PROVE  /\ src \in Seq(TokenType) /\ Around(src) /\ pc \in 1..Len(src) /\ pc \in Nat \ {0}
           /\ src[pc].k \in kinds /\ src[pc] \in TokenType /\ pc \in Nat
           /\ phase = "memory" /\ open = <<>> /\ mc \in MemoryCheckers
           /\ src' = src /\ open' = open /\ phase' = phase
<1>1. src \in Seq(TokenType) /\ Len(src) \in Nat
  BY StructureFacts
<1>2. pc \in 1..Len(src) /\ phase = "memory" /\ src[pc].k \in kinds
  BY <1>1 DEF At, MemoryInv
<1>3. src' = src /\ open' = open /\ phase' = phase
  BY DEF At, vars
<1> QED
  BY <1>1, <1>2, <1>3 DEF MemoryInv

LEMMA AtKeeps ==
    ASSUME StructureInv, MemoryInv, NEW kinds, At(kinds), NEW k \in 1..Len(src), pc' = k + 1,
           mc' \in MemoryCheckers, Remembered(src, mc', k + 1), \E P : Walk(src, mc', k + 1, P)
    PROVE  MemoryInv'
<1>1. k + 1 \in 1..(Len(src) + 1) /\ phase = "memory" /\ open = <<>> /\ Around(src)
  BY StructureFacts, AtFacts
<1>2. src' = src /\ open' = open /\ phase' = phase
  BY AtFacts
<1> QED
  BY <1>1, <1>2 DEF MemoryInv

LEMMA MemoryVar ==
    ASSUME StructureInv, MemoryInv, memory_var
    PROVE  MemoryInv'
<1> DEFINE t == src[pc]
           x == check_var(mc, t)
<1>1. At({"var"}) /\ mc' = x /\ pc' = pc + 1
  BY DEF memory_var
<1>2. /\ src \in Seq(TokenType) /\ Around(src) /\ pc \in 1..Len(src) /\ pc \in Nat \ {0} /\ pc \in Nat
      /\ t.k = "var" /\ t \in TokenType /\ mc \in MemoryCheckers
  BY <1>1, AtFacts
<1>3. /\ x \in MemoryCheckers /\ x.saved = mc.saved /\ mc.errors \subseteq x.errors
      /\ mc.moved \subseteq x.moved
      /\ t.v \in Names /\ t.ty # "Function" => t.v \in x.moved
      /\ t.v \in mc.moved => \E e \in x.errors : e.at = pc
  BY <1>2, VarFacts
<1> HIDE DEF x
<1>4. PICK P : Walk(src, mc, pc, P)
  BY DEF MemoryInv
<1>5. Walk(src, x, pc + 1, P)
  BY <1>2, <1>3, <1>4, WalkPlain DEF MovedAt, Openers, Binders
<1>6. Remembered(src, x, pc + 1)
  BY <1>2, <1>3, <1>4, RememberedNext DEF MemoryInv
<1> QED
  BY <1>1, <1>2, <1>3, <1>5, <1>6, AtKeeps

LEMMA MemoryExpr ==
    ASSUME StructureInv, MemoryInv, memory_expr
    PROVE  MemoryInv'
<1> DEFINE t == src[pc]
           x == check_variable_access(mc, t.v)
<1>1. At({"expr"}) /\ mc' = x /\ pc' = pc + 1
  BY DEF memory_expr
<1>2. /\ src \in Seq(TokenType) /\ Around(src) /\ pc \in 1..Len(src) /\ pc \in Nat \ {0} /\ pc \in Nat
      /\ t.k = "expr" /\ t \in TokenType /\ mc \in MemoryCheckers
  BY <1>1, AtFacts
<1>3. /\ x \in MemoryCheckers /\ x.saved = mc.saved /\ mc.errors \subseteq x.errors
      /\ x.moved = mc.moved
      /\ t.v \in mc.moved => \E e \in x.errors : e.at = pc
  BY <1>2, AccessFacts
<1> HIDE DEF x
<1>4. PICK P : Walk(src, mc, pc, P)
  BY DEF MemoryInv
<1>5. Walk(src, x, pc + 1, P)
  BY <1>2, <1>3, <1>4, WalkPlain DEF MovedAt, Openers, Binders
<1>6. Remembered(src, x, pc + 1)
  BY <1>2, <1>3, <1>4, RememberedNext DEF MemoryInv
<1> QED
  BY <1>1, <1>2, <1>3, <1>5, <1>6, AtKeeps

LEMMA MemoryNothing ==
    ASSUME StructureInv, MemoryInv, memory_nothing
    PROVE  MemoryInv'
<1> DEFINE t == src[pc]
<1>1. At({"print", "return", "assign"}) /\ mc' = mc /\ pc' = pc + 1
  BY DEF memory_nothing
<1>2. /\ src \in Seq(TokenType) /\ Around(src) /\ pc \in 1..Len(src) /\ pc \in Nat \ {0} /\ pc \in Nat
      /\ t.k \in {"print", "return", "assign"} /\ t \in TokenType /\ mc \in MemoryCheckers
  BY <1>1, AtFacts
<1>4. PICK P : Walk(src, mc, pc, P)
  BY DEF MemoryInv
<1>5. Walk(src, mc, pc + 1, P)
  BY <1>2, <1>4, WalkPlain DEF MovedAt, Openers, Binders
<1>6. Remembered(src, mc, pc + 1)
  BY <1>2, <1>4, RememberedNext DEF MemoryInv
<1> QED
  BY <1>1, <1>2, <1>5, <1>6, AtKeeps

\* check_block_statement after the check c of the statement's own token
LEMMA Entering ==
    ASSUME StructureInv, MemoryInv, NEW kinds, At(kinds), kinds \subseteq Openers \ Unseen,
           NEW c \in MemoryCheckers, mc' = enter_block(c), pc' = pc + 1,
           c.saved = mc.saved, mc.errors \subseteq c.errors, mc.moved \subseteq c.moved,
           MovedAt(src, pc, pc) => src[pc].v \in c.moved,
           src[pc].k \in {"var", "for", "expr"} /\ src[pc].v \in mc.moved =>
               \E e \in c.errors : e.at = pc
    PROVE  MemoryInv'
<1> DEFINE x == enter_block(c)
           n == Len(mc.saved)
<1>1. /\ src \in Seq(TokenType) /\ Around(src) /\ pc \in 1..Len(src) /\ pc \in Nat \ {0}
      /\ src[pc].k \in Openers \ Unseen
  BY AtFacts
<1>2. /\ x \in MemoryCheckers /\ x.errors = c.errors /\ x.moved = c.moved
      /\ n \in Nat /\ Len(x.saved) = n + 1 /\ x.saved[n + 1].moved = x.moved
      /\ \A i \in 1..n : x.saved[i] = mc.saved[i]
  BY EnterFacts
<1>3. mc' = x
  OBVIOUS
<1> HIDE DEF x
<1>4. PICK P : Walk(src, mc, pc, P)
  BY DEF MemoryInv
<1>5. \E Q : Walk(src, x, pc + 1, Q)
  BY <1>1, <1>2, <1>4, WalkEnter
<1>6. Remembered(src, x, pc + 1)
  BY <1>1, <1>2, <1>4, RememberedNext DEF MemoryInv
<1> QED
  BY <1>1, <1>2, <1>3, <1>5, <1>6, AtKeeps

LEMMA MemoryBlock ==
    ASSUME StructureInv, MemoryInv, memory_block
    PROVE  MemoryInv'
<1>1. At({"block", "if", "while"}) /\ mc' = enter_block(mc) /\ pc' = pc + 1
  BY DEF memory_block
<1>2. src[pc].k \in {"block", "if", "while"} /\ mc \in MemoryCheckers
  BY <1>1, AtFacts
<1>3. {"block", "if", "while"} \subseteq Openers \ Unseen
  BY DEF Openers, Unseen
<1> QED
  BY <1>1, <1>2, <1>3, Entering DEF MovedAt

LEMMA MemoryFor ==
    ASSUME StructureInv, MemoryInv, memory_for
    PROVE  MemoryInv'
<1> DEFINE c == check_var(mc, src[pc])
<1>1. At({"for"}) /\ mc' = enter_block(c) /\ pc' = pc + 1
  BY DEF memory_for
<1>2. pc \in Nat /\ src[pc] \in TokenType /\ mc \in MemoryCheckers
  BY <1>1, AtFacts
<1>3. /\ c \in MemoryCheckers /\ c.saved = mc.saved /\ mc.errors \subseteq c.errors
      /\ mc.moved \subseteq c.moved
      /\ src[pc].v \in Names /\ src[pc].ty # "Function" => src[pc].v \in c.moved
      /\ src[pc].v \in mc.moved => \E e \in c.errors : e.at = pc
  BY <1>2, VarFacts
<1> HIDE DEF c
<1>4. {"for"} \subseteq Openers \ Unseen
  BY DEF Openers, Binders, Unseen
<1> QED
  BY <1>1, <1>3, <1>4, Entering DEF MovedAt

LEMMA MemoryEnd ==
    ASSUME StructureInv, MemoryInv, memory_end
    PROVE  MemoryInv'
<1> DEFINE x == leave_block(mc)
           n == Len(mc.saved)
<1>1. At({"end"}) /\ mc' = x /\ pc' = pc + 1
  BY DEF memory_end
<1>2. /\ src \in Seq(TokenType) /\ Around(src) /\ pc \in 1..Len(src) /\ pc \in Nat \ {0}
      /\ src[pc].k = "end" /\ mc \in MemoryCheckers
  BY <1>1, AtFacts
<1>3. src[pc].up # 0
  <2>1. WellNested(open, src) /\ pc \in DOMAIN src
    BY <1>2, StructureFacts
  <2> QED
    BY <1>2, <2>1 DEF WellNested
<1>4. mc.saved # <<>> =>
        /\ x \in MemoryCheckers /\ x.errors = mc.errors /\ x.moved = mc.saved[n].moved
        /\ n \in Nat \ {0} /\ Len(x.saved) = n - 1
        /\ \A i \in 1..(n - 1) : x.saved[i] = mc.saved[i]
  BY <1>2, LeaveFacts
<1>5. n \in Nat /\ (mc.saved = <<>> <=> n = 0)
  <2>1. mc.saved \in Seq(Saved)
    BY <1>2 DEF MemoryCheckers
  <2> QED
    BY <2>1
<1> HIDE DEF x
<1>6. PICK P : Walk(src, mc, pc, P)
  BY DEF MemoryInv
<1>7. mc.saved # <<>> /\ \E Q : Walk(src, x, pc + 1, Q)
  BY <1>2, <1>3, <1>4, <1>5, <1>6, WalkLeave
<1>8. Remembered(src, x, pc + 1)
  BY <1>2, <1>4, <1>6, <1>7, RememberedNext DEF MemoryInv
<1> QED
  BY <1>1, <1>2, <1>4, <1>7, <1>8, AtKeeps

LEMMA MemoryUnseen ==
    ASSUME StructureInv, MemoryInv, memory_unseen
    PROVE  MemoryInv'
<1> DEFINE e == EndOf(pc)
<1>1. At(Unseen) /\ mc' = mc /\ pc' = e + 1
  BY DEF memory_unseen
<1>2. /\ src \in Seq(TokenType) /\ Around(src) /\ pc \in 1..Len(src)
      /\ src[pc].k \in Unseen /\ mc \in MemoryCheckers /\ open = <<>>
  BY <1>1, AtFacts
<1>3. e \in 1..Len(src) /\ src[e].k = "end" /\ src[e].up = pc
  <2>1. WellNested(open, src) /\ pc \in DOMAIN src /\ DOMAIN open = {} /\ DOMAIN src = 1..Len(src)
    BY <1>2, StructureFacts
  <2>2. src[pc].k \in Openers
    BY <1>2 DEF Unseen, Openers, Binders
  <2>3. Ended(src, pc, Len(src))
    BY <2>1, <2>2 DEF WellNested
  <2>4. \E q \in Positions : src[q].k = "end" /\ src[q].up = pc
    BY <2>1, <2>3 DEF Ended, Positions
  <2> QED
    BY <2>1, <2>4 DEF EndOf, Positions
<1> HIDE DEF e
<1>4. PICK P : Walk(src, mc, pc, P)
  BY DEF MemoryInv
<1>5. Walk(src, mc, e + 1, P)
  BY <1>2, <1>3, <1>4, WalkSkip
<1>6. Remembered(src, mc, e + 1)
  BY <1>2, <1>3, RememberedSkip DEF MemoryInv
<1> QED
  BY <1>1, <1>2, <1>3, <1>5, <1>6, AtKeeps

LEMMA MemoryProceeds ==
    ASSUME StructureInv, MemoryInv, [MemoryNext]_<<vars, memoryVars>>
    PROVE  MemoryInv'
<1>1. CASE TypesNext /\ UNCHANGED memoryVars
  BY <1>1, TypesMemory
<1>2. CASE memory_done
  BY <1>2 DEF memory_done, memoryVars, MemoryInv
<1>3. CASE UNCHANGED <<vars, memoryVars>>
  BY <1>3 DEF vars, memoryVars, MemoryInv
<1> QED
  BY <1>1, <1>2, <1>3, MemoryVar, MemoryExpr, MemoryNothing, MemoryUnseen, MemoryBlock, MemoryFor,
     MemoryEnd DEF MemoryNext

\* A name that a declaration has moved out of is reported by the memory checker at
\* every later access of the statements around the move, for every program that
\* the type checker lets through: leaving a block restores the names that had been
\* moved before it and no others, and a declaration of the name does not make the
\* move forgotten (check_variable_access, check_var_declaration and
\* check_block_statement).
THEOREM MovesStayKnown == MemorySpec => []MovesRemembered
<1>1. MemoryInit => MemoryInv
  BY MemoryBegins
<1>2. StructureInv /\ MemoryInv /\ [MemoryNext]_<<vars, memoryVars>> => MemoryInv'
  BY MemoryProceeds
<1>3. MemoryInv => MovesRemembered
  BY RememberedIs DEF MemoryInv
<1> QED
  BY <1>1, <1>2, <1>3, StructureInvariant, PTL DEF MemorySpec

(***************************************************************************)
(* Linear types.  Only assignments change them; every reading of a name is  *)
(* checked against them.                                                    *)
(***************************************************************************)
\* a state of the type checker, as far as it matters here
Shaped(t) == {"linear", "references", "errors"} \subseteq DOMAIN t

\* what is not an assignment
SameLinear(t, u) ==
    /\ DOMAIN u = DOMAIN t /\ t.errors \subseteq u.errors
    /\ u.linear = t.linear /\ u.references = t.references

LEMMA SameLinearTrans ==
    ASSUME NEW t, NEW u, NEW w, SameLinear(t, u), SameLinear(u, w)
    PROVE  SameLinear(t, w)
  BY DEF SameLinear

LEMMA ShapedStays ==
    ASSUME NEW t, NEW u, Shaped(t), SameLinear(t, u)
    PROVE  Shaped(u)
  BY DEF SameLinear, Shaped

LEMMA CheckersShaped == ASSUME NEW t \in Checkers PROVE Shaped(t)
  BY DEF Checkers, Shaped

\* Updates of what is neither linear nor a reference.
LEMMA SameLinearUpdates ==
    ASSUME NEW t, Shaped(t)
    PROVE  /\ \A x : SameLinear(t, [t EXCEPT !.memory = x])
           /\ \A x : SameLinear(t, [t EXCEPT !.scopes = x])
           /\ \A x : SameLinear(t, [t EXCEPT !.return_type = x])
           /\ \A x, y : SameLinear(t, [t EXCEPT !.level = x, !.scopes = y])
           /\ \A x, y, z : SameLinear(t, [t EXCEPT !.region_stack = x, !.generation = y, !.region = z])
           /\ \A x, y, z : SameLinear(t, [t EXCEPT !.region = x, !.region_stack = y, !.generation = z])
  BY DEF SameLinear, Shaped

LEMMA SameLinearError ==
    ASSUME NEW t, Shaped(t), NEW what
    PROVE  /\ SameLinear(t, add_error(t, what))
           /\ \E e \in add_error(t, what).errors : e.at = Len(src) + 1
<1> DEFINE e == [at |-> Len(src) + 1, what |-> what]
           E == t.errors \cup {e}
<1>1. e.at = Len(src) + 1 /\ e \in E /\ t.errors \subseteq E
  OBVIOUS
<1>2. add_error(t, what) = [t EXCEPT !.errors = E]
  BY DEF add_error
<1> HIDE DEF e, E
<1>3. /\ [t EXCEPT !.errors = E].errors = E /\ [t EXCEPT !.errors = E].linear = t.linear
      /\ [t EXCEPT !.errors = E].references = t.references
      /\ DOMAIN [t EXCEPT !.errors = E] = DOMAIN t
  BY DEF Shaped
<1> QED
  BY <1>1, <1>2, <1>3 DEF SameLinear

LEMMA SameLinearMemory ==
    ASSUME NEW t, Shaped(t), NEW n
    PROVE  /\ SameLinear(t, declare_variable_memory(t, n))
           /\ SameLinear(t, mark_variable_initialized(t, n))
           /\ SameLinear(t, check_variable_use(t, n))
           /\ SameLinear(t, check_variable_move(t, n))
           /\ SameLinear(t, check_reference_validity(t, n))
           /\ SameLinear(t, check_linear_type_access(t, n))
           /\ SameLinear(t, t)
<1>1. \A m : SameLinear(t, [t EXCEPT !.memory = m])
  BY SameLinearUpdates
<1>2. SameLinear(t, t) /\ \A what : SameLinear(t, add_error(t, what))
  BY SameLinearError DEF SameLinear
<1>3. \A x : SameLinear(t, [t EXCEPT !.memory[n].state = x])
  BY <1>1
<1>4. SameLinear(t, declare_variable_memory(t, n))
  BY <1>1 DEF declare_variable_memory
<1> QED
  BY <1>2, <1>3, <1>4 DEF mark_variable_initialized, check_variable_use, check_variable_move,
     check_reference_validity, check_linear_type_access

LEMMA SameLinearDeclare ==
    ASSUME NEW t, Shaped(t), NEW n, NEW type
    PROVE  SameLinear(t, declare_variable(t, n, type))
<1> DEFINE u == declare_variable_memory(t, n)
           s == IF type = "Function" THEN mark_variable_initialized(u, n) ELSE t
           S == [s.scopes EXCEPT ![Len(s.scopes)] = [@ EXCEPT ![n] = type]]
<1>1. Shaped(u) /\ SameLinear(t, u) /\ SameLinear(t, t)
  BY SameLinearMemory, ShapedStays
<1>2. declare_variable(t, n, type) = [s EXCEPT !.scopes = S]
  BY DEF declare_variable
<1> HIDE DEF u
<1>3. SameLinear(u, mark_variable_initialized(u, n))
  BY <1>1, SameLinearMemory
<1>4. Shaped(s) /\ SameLinear(t, s)
  BY <1>1, <1>3, ShapedStays, SameLinearTrans
<1> HIDE DEF s, S
<1>5. SameLinear(s, [s EXCEPT !.scopes = S])
  BY <1>4, SameLinearUpdates
<1> QED
  BY <1>2, <1>4, <1>5, SameLinearTrans

LEMMA SameLinearNesting ==
    ASSUME NEW t, Shaped(t)
    PROVE  /\ SameLinear(t, enter_scope(t)) /\ SameLinear(t, exit_scope(t))
           /\ SameLinear(t, enter_memory_region(t)) /\ SameLinear(t, exit_memory_region(t))
<1>1. SameLinear(t, enter_scope(t))
  BY SameLinearUpdates DEF enter_scope
<1>2. SameLinear(t, exit_scope(t))
  BY SameLinearUpdates DEF exit_scope
<1>3. SameLinear(t, enter_memory_region(t))
  BY SameLinearUpdates DEF enter_memory_region
<1>4. SameLinear(t, exit_memory_region(t))
  <2> DEFINE depth == Len(t.region_stack)
             w == [t EXCEPT !.region = t.region_stack[depth],
                            !.region_stack = SubSeq(@, 1, depth - 1),
                            !.generation = IF @ > 0 THEN @ - 1 ELSE 0]
             s == IF depth = 0 THEN t ELSE w
             M == [n \in Names |-> IF s.memory[n].region = s.region THEN NoInfo ELSE s.memory[n]]
  <2>1. SameLinear(t, w) /\ SameLinear(t, t)
    BY SameLinearUpdates, SameLinearMemory
  <2>2. exit_memory_region(t) = [s EXCEPT !.memory = M]
    BY DEF exit_memory_region
  <2> HIDE DEF w
  <2>3. SameLinear(t, s)
    BY <2>1
  <2> HIDE DEF s, M
  <2>4. SameLinear(s, [s EXCEPT !.memory = M])
    BY <2>3, ShapedStays, SameLinearUpdates
  <2> QED
    BY <2>2, <2>3, <2>4, SameLinearTrans
<1> QED
  BY <1>1, <1>2, <1>3, <1>4

LEMMA SameLinearBlocks ==
    ASSUME NEW t, Shaped(t)
    PROVE  /\ SameLinear(t, begin_block(t)) /\ SameLinear(t, end_block(t))
           /\ \A n, type : SameLinear(t, binds(t, n, type))
<1> DEFINE u == enter_scope(t)
           x == exit_scope(t)
<1>1. SameLinear(t, u) /\ SameLinear(t, x) /\ Shaped(u) /\ Shaped(x)
  BY SameLinearNesting, ShapedStays
<1>2. begin_block(t) = enter_memory_region(u) /\ end_block(t) = exit_memory_region(x)
  BY DEF begin_block, end_block
<1>3. ASSUME NEW n, NEW type PROVE SameLinear(t, binds(t, n, type))
  <2> DEFINE d == declare_variable(u, n, type)
             e == enter_scope(d)
  <2>0. binds(t, n, type) = enter_memory_region(e)
    BY DEF binds, begin_block
  <2> HIDE DEF u
  <2>1. SameLinear(u, d) /\ Shaped(d)
    BY <1>1, SameLinearDeclare, ShapedStays
  <2> HIDE DEF d
  <2>2. SameLinear(d, e) /\ Shaped(e)
    BY <2>1, SameLinearNesting, ShapedStays
  <2> HIDE DEF e
  <2>3. SameLinear(e, enter_memory_region(e))
    BY <2>2, SameLinearNesting
  <2> QED
    BY <1>1, <2>0, <2>1, <2>2, <2>3, SameLinearTrans
<1> HIDE DEF u, x
<1> QED
  BY <1>1, <1>2, <1>3, SameLinearNesting, SameLinearTrans

\* n was read on the way from t to u
Reads(t, u, n) ==
    ~t.references[n].is /\ t.linear[n].moved => \E e \in u.errors : e.at = Len(src) + 1

LEMMA ReadsLater ==
    ASSUME NEW t, NEW u, NEW w, NEW n, Reads(t, u, n), SameLinear(u, w)
    PROVE  Reads(t, w, n)
  BY DEF Reads, SameLinear

\* check_variable_expr
LEMMA VariableReads ==
    ASSUME NEW t, Shaped(t), NEW n
    PROVE  LET r == check_variable_expr(t, n)
           IN  /\ SameLinear(t, r.t) /\ Reads(t, r.t, n)
               /\ ~t.references[n].is => r.type = lookup_variable(t, n)
<1> DEFINE s == IF t.references[n].is THEN check_reference_validity(t, n) ELSE t
           to == IF t.references[n].is THEN lookup_variable(t, t.references[n].target) ELSE Null
           u == check_linear_type_access(s, n)
           type == lookup_variable(t, n)
           r == check_variable_expr(t, n)
<1>1. Shaped(s) /\ SameLinear(t, s)
  <2>1. SameLinear(t, s)
    BY SameLinearMemory
  <2> HIDE DEF s
  <2> QED
    BY <2>1, ShapedStays
<1>2. Shaped(u) /\ SameLinear(t, u)
  <2> HIDE DEF s
  <2>1. SameLinear(s, u)
    BY <1>1, SameLinearMemory
  <2> HIDE DEF u
  <2> QED
    BY <1>1, <2>1, ShapedStays, SameLinearTrans
<1>3. ASSUME ~t.references[n].is, t.linear[n].moved
      PROVE  \E e \in u.errors : e.at = Len(src) + 1
  <2>1. u = add_error(t, "use of moved linear type")
    BY <1>3 DEF check_linear_type_access
  <2> HIDE DEF u
  <2> QED
    BY <2>1, SameLinearError
<1>4. Reads(t, u, n)
  BY <1>3 DEF Reads
<1>5. ~t.references[n].is => to = Null
  OBVIOUS
<1>6. r = CASE to # Null -> Checked(s, to)
            [] to = Null /\ type = Null -> Checked(add_error(u, "undefined"), Null)
            [] OTHER -> Checked(check_variable_use(u, n), type)
  BY DEF check_variable_expr
<1>a. SameLinear(u, add_error(u, "undefined")) /\ SameLinear(u, check_variable_use(u, n))
  <2> HIDE DEF u
  <2> QED
    BY <1>2, SameLinearError, SameLinearMemory
<1> HIDE DEF s, u, type, to, r
<1>7. CASE to # Null
  <2>1. r.t = s
    BY <1>6, <1>7 DEF Checked
  <2>2. t.references[n].is
    BY <1>5, <1>7
  <2> QED
    BY <1>1, <2>1, <2>2 DEF Reads, r
<1>8. CASE to = Null /\ type = Null
  <2>1. r.t = add_error(u, "undefined") /\ r.type = type
    BY <1>6, <1>8 DEF Checked
  <2>2. SameLinear(u, r.t)
    BY <1>a, <2>1
  <2> QED
    BY <1>2, <1>4, <2>1, <2>2, SameLinearTrans, ReadsLater DEF r, type
<1>9. CASE to = Null /\ type # Null
  <2>1. r.t = check_variable_use(u, n) /\ r.type = type
    BY <1>6, <1>9 DEF Checked
  <2>2. SameLinear(u, r.t)
    BY <1>a, <2>1
  <2> QED
    BY <1>2, <1>4, <2>1, <2>2, SameLinearTrans, ReadsLater DEF r, type
<1> QED
  BY <1>7, <1>8, <1>9

LEMMA ExpressionReads ==
    ASSUME NEW t, Shaped(t), NEW v \in Literals \cup Names
    PROVE  LET r == check_expression(t, v)
           IN  SameLinear(t, r.t) /\ (v \in Names => Reads(t, r.t, v))
<1>1. v \in Names => v \notin Literals
  BY NamesAssumption
<1>2. CASE v \in Literals
  BY <1>1, <1>2, NamesAssumption DEF check_expression, Checked, SameLinear
<1>3. CASE v \in Names
  BY <1>1, <1>3, VariableReads DEF check_expression
<1> QED
  BY <1>2, <1>3

\* check_var_declaration
LEMMA VarReads ==
    ASSUME NEW t, Shaped(t), NEW n, NEW a, NEW v \in Literals \cup Names \cup {Null}
    PROVE  LET u == declare_var(t, n, a, v)
           IN  SameLinear(t, u) /\ (v \in Names => Reads(t, u, v))
<1> DEFINE e == IF v = Null THEN Checked(t, Null) ELSE check_expression(t, v)
           r == check_initializer(t, v)
           s == CASE a # Null /\ r.type # Null /\ ~is_type_compatible(a, r.type) ->
                       add_error(r.t, "type mismatch")
                  [] a = Null /\ r.type = Null -> add_error(r.t, "no type or initializer")
                  [] OTHER -> r.t
           d == declare_variable(s, n, var_type(a, r.type))
           m == declare_variable_memory(d, n)
           u == IF v # Null THEN mark_variable_initialized(m, n) ELSE m
<1>0. Null \notin Names /\ Null \notin Literals
  BY NamesAssumption DEF Null, Literals
<1>1. Shaped(e.t) /\ SameLinear(t, e.t) /\ (v \in Names => Reads(t, e.t, v))
  <2>1. SameLinear(t, e.t) /\ (v \in Names => Reads(t, e.t, v))
    <3>1. CASE v = Null
      BY <1>0, <3>1, SameLinearMemory DEF Checked
    <3>2. CASE v # Null
      BY <3>2, ExpressionReads
    <3> QED
      BY <3>1, <3>2
  <2> HIDE DEF e
  <2> QED
    BY <2>1, ShapedStays
<1>2. r = IF v \in Names /\ lookup_variable(e.t, v) \notin Copyable
          THEN Checked(check_variable_move(e.t, v), e.type) ELSE e
  BY DEF check_initializer
<1>5. declare_var(t, n, a, v) = u
  BY DEF declare_var
<1> HIDE DEF e, r
<1>3. Shaped(r.t) /\ SameLinear(e.t, r.t)
  <2>1. SameLinear(e.t, e.t) /\ SameLinear(e.t, check_variable_move(e.t, v))
    BY <1>1, SameLinearMemory
  <2>2. SameLinear(e.t, r.t)
    BY <1>2, <2>1 DEF Checked
  <2> QED
    BY <1>1, <2>2, ShapedStays
<1>4. Shaped(s) /\ SameLinear(r.t, s)
  <2>1. SameLinear(r.t, r.t) /\ \A what : SameLinear(r.t, add_error(r.t, what))
    BY <1>3, SameLinearMemory, SameLinearError
  <2>2. SameLinear(r.t, s)
    BY <2>1
  <2> HIDE DEF s
  <2> QED
    BY <1>3, <2>2, ShapedStays
<1> HIDE DEF s
<1>7. SameLinear(s, d) /\ Shaped(d)
  BY <1>4, SameLinearDeclare, ShapedStays
<1> HIDE DEF d
<1>8. SameLinear(d, m) /\ Shaped(m)
  BY <1>7, SameLinearMemory, ShapedStays
<1> HIDE DEF m
<1>9. SameLinear(m, u)
  BY <1>8, SameLinearMemory
<1> HIDE DEF u
<1>10. SameLinear(e.t, u)
  BY <1>3, <1>4, <1>7, <1>8, <1>9, SameLinearTrans
<1>11. SameLinear(t, u)
  BY <1>1, <1>10, SameLinearTrans
<1>12. v \in Names => Reads(t, u, v)
  BY <1>1, <1>10, ReadsLater
<1> QED
  BY <1>5, <1>11, <1>12

(***************************************************************************)
(* What each step of the type checker does to linear types.  Token t joins  *)
(* the program.                                                             *)
(***************************************************************************)
Reported == \E e \in tc'.errors : e.at = Len(src) + 1

LinearStep(t) ==
    /\ src' = Append(src, t) /\ t \in TokenType
    /\ \A x \in Names :
          /\ tc.linear[x].is => tc'.linear[x].is
          /\ tc.references[x].is => tc'.references[x].is
          /\ tc.linear[x].moved /\ ~(t.k = "assign" /\ t.n = x) => tc'.linear[x].moved
    /\ t.v \in Names => Reads(tc, tc', t.v)
    /\ t.k = "assign" =>
          /\ t.up = Inner(open) /\ t.f = NoName /\ t.n \in Vars
          /\ lookup_variable(tc, t.n) = Null => tc'.linear[t.n].is
          /\ /\ t.v \in Names /\ t.v # t.n /\ t.ty \notin {"Function", Null}
             /\ lookup_variable(tc, t.n) # Null
             /\ ~tc'.references[t.v].is /\ tc.linear[t.v].is
             => tc'.linear[t.v].moved

\* no assignment
LEMMA QuietStep ==
    ASSUME NEW t \in TokenType, src' = Append(src, t), t.k # "assign", SameLinear(tc, tc'),
           t.v \in Names => Reads(tc, tc', t.v)
    PROVE  LinearStep(t)
  BY DEF LinearStep, SameLinear

LEMMA QuietSteps ==
    ASSUME StructureInv, TypesNext, ~check_assign_statement, ~finish_types
    PROVE  \E t : LinearStep(t)
<1>0. TypesOK /\ tc \in Checkers /\ Shaped(tc) /\ Null \notin Names
  BY StructureFacts, CheckersShaped, NamesAssumption DEF StructureInv
<1>1. CASE check_var_declaration
  <2>1. PICK n \in Vars, a \in Literals \cup {Null}, v \in Literals \cup Names \cup {Null} :
           Meets(Token("var", n, a, v)) /\ tc' = declare_var(tc, n, a, v)
    BY <1>1 DEF check_var_declaration
  <2> DEFINE t == Met("var", n, a, v, NoName, Null)
  <2>2. t \in TokenType /\ src' = Append(src, t)
    BY <1>0, <2>1, Tokens DEF TokenKinds, TypeOrNull
  <2>3. t.k # "assign" /\ t.v = v
    BY DEF Met
  <2>4. SameLinear(tc, tc') /\ (v \in Names => Reads(tc, tc', v))
    BY <1>0, <2>1, VarReads
  <2> HIDE DEF t
  <2> QED
    BY <2>2, <2>3, <2>4, QuietStep
<1>2. CASE check_expr_statement
  <2>1. PICK k \in {"expr", "print"}, v \in Names :
           Meets(Token(k, NoName, Null, v)) /\ tc' = check_variable_expr(tc, v).t
    BY <1>2 DEF check_expr_statement
  <2> DEFINE t == Met(k, NoName, Null, v, NoName, Null)
  <2>2. t \in TokenType /\ src' = Append(src, t)
    BY <1>0, <2>1, Tokens DEF TokenKinds, TypeOrNull
  <2>3. t.k # "assign" /\ t.v = v
    BY DEF Met
  <2>4. SameLinear(tc, tc') /\ (v \in Names => Reads(tc, tc', v))
    BY <1>0, <2>1, VariableReads
  <2> HIDE DEF t
  <2> QED
    BY <2>2, <2>3, <2>4, QuietStep
<1>3. CASE check_return_statement
  <2>1. PICK v \in Literals \cup Names :
           /\ Meets(Token("return", NoName, Null, v))
           /\ LET r == check_expression(tc, v)
              IN  tc' \in {r.t, add_error(r.t, "type mismatch")}
    BY <1>3 DEF check_return_statement
  <2> DEFINE t == Met("return", NoName, Null, v, NoName, Null)
             r == check_expression(tc, v)
  <2>2. t \in TokenType /\ src' = Append(src, t)
    BY <1>0, <2>1, Tokens DEF TokenKinds, TypeOrNull
  <2>3. t.k # "assign" /\ t.v = v
    BY DEF Met
  <2>4. SameLinear(tc, r.t) /\ (v \in Names => Reads(tc, r.t, v))
    BY <1>0, ExpressionReads
  <2>5. tc' \in {r.t, add_error(r.t, "type mismatch")}
    BY <2>1
  <2> HIDE DEF r
  <2>6. SameLinear(r.t, tc')
    <3>1. Shaped(r.t)
      BY <1>0, <2>4, ShapedStays
    <3> QED
      BY <2>5, <3>1, SameLinearError, SameLinearMemory
  <2>7. SameLinear(tc, tc') /\ (v \in Names => Reads(tc, tc', v))
    BY <2>4, <2>6, SameLinearTrans, ReadsLater
  <2> HIDE DEF t
  <2> QED
    BY <2>2, <2>3, <2>7, QuietStep
<1>4. CASE check_block_statement \/ check_parallel_statement
  <2>1. PICK k \in {"block", "if", "while", "parallel"} :
           Opens(Token(k, NoName, Null, Null)) /\ tc' \in {begin_block(tc), begin_block(enter_scope(tc))}
    BY <1>4 DEF check_block_statement, check_parallel_statement
  <2> DEFINE t == Met(k, NoName, Null, Null, NoName, Null)
             u == enter_scope(tc)
  <2>2. t \in TokenType /\ src' = Append(src, t)
    BY <1>0, <2>1, Tokens DEF TokenKinds, TypeOrNull, Opens, Openers
  <2>3. t.k # "assign" /\ t.v = Null
    BY DEF Met
  <2>4. SameLinear(tc, u) /\ Shaped(u) /\ SameLinear(tc, begin_block(tc))
    BY <1>0, SameLinearNesting, SameLinearBlocks, ShapedStays
  <2>5. tc' \in {begin_block(tc), begin_block(u)}
    BY <2>1
  <2> HIDE DEF t, u
  <2>6. SameLinear(u, begin_block(u))
    BY <2>4, SameLinearBlocks
  <2>7. SameLinear(tc, tc')
    BY <2>4, <2>5, <2>6, SameLinearTrans
  <2> QED
    BY <1>0, <2>2, <2>3, <2>7, QuietStep
<1>5. CASE check_for_statement
  <2>1. PICK n \in Vars, v \in Literals \cup Names :
           /\ Opens(Token("for", n, Null, v))
           /\ tc' = begin_block(declare_var(enter_scope(tc), n, Null, v))
    BY <1>5 DEF check_for_statement
  <2> DEFINE t == Met("for", n, Null, v, NoName, Null)
             u == enter_scope(tc)
             d == declare_var(u, n, Null, v)
  <2>2. t \in TokenType /\ src' = Append(src, t)
    BY <1>0, <2>1, Tokens DEF TokenKinds, TypeOrNull, Opens, Openers, Binders
  <2>3. t.k # "assign" /\ t.v = v
    BY DEF Met
  <2>4. SameLinear(tc, u) /\ Shaped(u)
    BY <1>0, SameLinearNesting, ShapedStays
  <2>5. tc' = begin_block(d)
    BY <2>1
  <2> HIDE DEF t, u
  <2>6. SameLinear(u, d) /\ (v \in Names => Reads(u, d, v)) /\ Shaped(d)
    BY <2>4, VarReads, ShapedStays
  <2> HIDE DEF d
  <2>7. SameLinear(d, tc')
    BY <2>5, <2>6, SameLinearBlocks
  <2>8. SameLinear(tc, tc')
    BY <2>4, <2>6, <2>7, SameLinearTrans
  <2>9. v \in Names => Reads(tc, tc', v)
    <3>1. v \in Names => Reads(u, tc', v)
      BY <2>6, <2>7, ReadsLater
    <3> QED
      BY <2>4, <3>1 DEF Reads, SameLinear
  <2> QED
    BY <2>2, <2>3, <2>8, <2>9, QuietStep
<1>6. CASE check_concurrent_statement \/ check_task_statement \/ check_worker_statement
           \/ check_frame_method
  <2>1. PICK k \in {"concurrent", "task", "worker", "method"}, n \in Vars,
             a \in Literals \cup {Null}, type \in {"Channel", "Int", "Any"} \cup Literals :
           Opens(Token(k, n, a, Null)) /\ tc' = binds(tc, n, type)
    BY <1>6 DEF check_concurrent_statement, check_task_statement, check_worker_statement,
       check_frame_method
  <2> DEFINE t == Met(k, n, a, Null, NoName, Null)
  <2>2. t \in TokenType /\ src' = Append(src, t)
    BY <1>0, <2>1, Tokens DEF TokenKinds, TypeOrNull, Opens, Openers, Binders
  <2>3. t.k # "assign" /\ t.v = Null
    BY DEF Met
  <2>4. SameLinear(tc, tc')
    BY <1>0, <2>1, SameLinearBlocks
  <2> HIDE DEF t
  <2> QED
    BY <1>0, <2>2, <2>3, <2>4, QuietStep
<1>7. CASE check_function_declaration
  <2>1. PICK f \in Fns, n \in Vars, a \in {"Any", "List"}, ret \in {"Any", "Int"} :
          /\ Opens([Token("fn", n, a, Null) EXCEPT !.f = f, !.ret = ret])
          /\ LET t == declare_variable(enter_memory_region(tc), f, "Function")
                 s == [enter_scope(t) EXCEPT !.return_type = ret]
                 u == declare_variable_memory(declare_variable(s, n, a), n)
             IN  tc' = begin_block(mark_variable_initialized(u, n))
    BY <1>7 DEF check_function_declaration
  <2> DEFINE m == enter_memory_region(tc)
             t == declare_variable(m, f, "Function")
             e == enter_scope(t)
             s == [e EXCEPT !.return_type = ret]
             d == declare_variable(s, n, a)
             u == declare_variable_memory(d, n)
             w == mark_variable_initialized(u, n)
             x == Met("fn", n, a, Null, f, ret)
  <2>2. x \in TokenType /\ src' = Append(src, x)
    <3>1. a \in Literals \cup {Null, "Any"} /\ ret \in TypeOrNull /\ "fn" \in TokenKinds
      BY DEF Literals, TypeOrNull, Types, TokenKinds, Openers
    <3> QED
      BY <1>0, <2>1, <3>1, Tokens DEF Opens
  <2>3. x.k # "assign" /\ x.v = Null
    BY DEF Met
  <2>4. tc' = begin_block(w)
    BY <2>1
  <2> HIDE DEF x
  <2>5. SameLinear(tc, m) /\ Shaped(m)
    BY <1>0, SameLinearNesting, ShapedStays
  <2> HIDE DEF m
  <2>6. SameLinear(m, t) /\ Shaped(t)
    BY <2>5, SameLinearDeclare, ShapedStays
  <2> HIDE DEF t
  <2>7. SameLinear(t, e) /\ Shaped(e)
    BY <2>6, SameLinearNesting, ShapedStays
  <2> HIDE DEF e
  <2>8. SameLinear(e, s) /\ Shaped(s)
    BY <2>7, SameLinearUpdates, ShapedStays
  <2> HIDE DEF s
  <2>9. SameLinear(s, d) /\ Shaped(d)
    BY <2>8, SameLinearDeclare, ShapedStays
  <2> HIDE DEF d
  <2>10. SameLinear(d, u) /\ Shaped(u)
    BY <2>9, SameLinearMemory, ShapedStays
  <2> HIDE DEF u
  <2>11. SameLinear(u, w) /\ Shaped(w)
    BY <2>10, SameLinearMemory, ShapedStays
  <2> HIDE DEF w
  <2>12. SameLinear(w, tc')
    BY <2>4, <2>11, SameLinearBlocks
  <2>13. SameLinear(t, u)
    BY <2>7, <2>8, <2>9, <2>10, SameLinearTrans
  <2>14. SameLinear(tc, tc')
    BY <2>5, <2>6, <2>11, <2>12, <2>13, SameLinearTrans
  <2> QED
    BY <1>0, <2>2, <2>3, <2>14, QuietStep
<1>8. CASE end_statement
  <2> DEFINE t == [Met("end", NoName, Null, Null, NoName, Null) EXCEPT !.up = Innermost]
             b == end_block(tc)
             x == exit_scope(b)
             m == exit_memory_region(x)
  <2>1. src' = Append(src, t)
    BY <1>8, EndStructure DEF Closed
  <2>2. t \in TokenType /\ t.k # "assign" /\ t.v = Null
    <3>1. Met("end", NoName, Null, Null, NoName, Null) \in TokenType
      BY <1>0, Tokens DEF TokenKinds, TypeOrNull
    <3>2. Innermost \in Nat
      BY <1>0, TypesFacts
    <3> QED
      BY <3>1, <3>2 DEF Met, TokenType
  <2>3. tc' = IF src[open[Len(open)]].k \in {"block", "if", "while"} THEN b
              ELSE IF src[open[Len(open)]].k = "fn" THEN [m EXCEPT !.return_type = Null] ELSE x
    BY <1>8 DEF end_statement
  <2> HIDE DEF t
  <2>4. SameLinear(tc, b) /\ Shaped(b)
    BY <1>0, SameLinearBlocks, ShapedStays
  <2> HIDE DEF b
  <2>5. SameLinear(b, x) /\ Shaped(x)
    BY <2>4, SameLinearNesting, ShapedStays
  <2> HIDE DEF x
  <2>6. SameLinear(x, m) /\ Shaped(m)
    BY <2>5, SameLinearNesting, ShapedStays
  <2> HIDE DEF m
  <2>7. SameLinear(m, [m EXCEPT !.return_type = Null])
    BY <2>6, SameLinearUpdates
  <2>8. SameLinear(tc, tc')
    BY <2>3, <2>4, <2>5, <2>6, <2>7, SameLinearTrans
  <2> QED
    BY <1>0, <2>1, <2>2, <2>8, QuietStep
<1> QED
  BY <1>1, <1>2, <1>3, <1>4, <1>5, <1>6, <1>7, <1>8 DEF TypesNext

\* move_linear_type and create_reference, in an assignment to n of the variable m
LEMMA MoveMarks ==
    ASSUME NEW t \in Checkers, NEW m \in Names, Len(src) \in Nat
    PROVE  LET u == move_linear_type(t, m)
           IN  /\ u \in Checkers /\ t.errors \subseteq u.errors /\ u.linear[m].moved
               /\ t.linear[m].is => u.linear[m].is
               /\ \A x \in Names : x # m => u.linear[x] = t.linear[x]
               /\ \A x \in Names : u.references[x].is = t.references[x].is
<1> DEFINE u == move_linear_type(t, m)
           next == t.linear[m].generation + 1
           stale == {r \in t.linear[m].references : t.references[r].is
                                                    /\ t.references[r].generation # next}
           s == IF stale = {} THEN t ELSE add_error(t, "reference invalidated")
           l == [is |-> TRUE, moved |-> TRUE, generation |-> next, references |-> {}]
           R == [r \in Names |-> IF r \in stale THEN [s.references[r] EXCEPT !.valid = FALSE]
                                 ELSE s.references[r]]
<1>1. u \in Checkers /\ t.errors \subseteq u.errors
  BY LinearKeeps DEF Keeps, SameRegions
<1>2. Shaped(t)
  BY CheckersShaped
<1>3. CASE t.linear[m].moved
  <2>1. u = add_error(t, "double move")
    BY <1>3 DEF move_linear_type
  <2>2. SameLinear(t, u)
    BY <1>2, <2>1, SameLinearError
  <2> HIDE DEF u
  <2> QED
    BY <1>1, <1>3, <2>2 DEF SameLinear, u
<1>4. CASE ~t.linear[m].moved
  <2>1. u = [s EXCEPT !.linear[m] = l, !.references = R]
    BY <1>4 DEF move_linear_type
  <2>2. SameLinear(t, s) /\ s \in Checkers
    <3>1. SameLinear(t, t) /\ SameLinear(t, add_error(t, "reference invalidated"))
      BY <1>2, SameLinearError, SameLinearMemory
    <3>2. add_error(t, "reference invalidated") \in Checkers
      BY ErrorKeeps DEF Keeps, Messages
    <3> QED
      BY <3>1, <3>2
  <2>3. l.is /\ l.moved
    OBVIOUS
  <2> HIDE DEF s, l, next
  <2>4. /\ s.linear \in [Names -> LinearInfos] /\ s.references \in [Names -> ReferenceInfos]
        /\ s.linear = t.linear /\ s.references = t.references
    BY <2>2 DEF Checkers, SameLinear
  <2>5. \A x \in Names : R[x].is = t.references[x].is
    <3>1. \A x \in Names : [s.references[x] EXCEPT !.valid = FALSE].is = s.references[x].is
      BY <2>4 DEF ReferenceInfos
    <3> QED
      BY <2>4, <3>1
  <2> HIDE DEF stale, R
  <2>6. /\ u.references = R /\ u.linear = [s.linear EXCEPT ![m] = l]
    BY <2>1, <2>2 DEF Checkers
  <2>7. u.linear[m] = l /\ \A x \in Names : x # m => u.linear[x] = t.linear[x]
    BY <2>4, <2>6
  <2> HIDE DEF u
  <2> QED
    BY <1>1, <2>3, <2>5, <2>6, <2>7 DEF u
<1> QED
  BY <1>3, <1>4

LEMMA ReferenceMarks ==
    ASSUME NEW t \in Checkers, NEW m \in Names, NEW n \in Names, Len(src) \in Nat
    PROVE  LET u == create_reference(t, m, n)
           IN  /\ t.errors \subseteq u.errors
               /\ \A x \in Names : /\ u.linear[x].is = t.linear[x].is
                                   /\ u.linear[x].moved = t.linear[x].moved
                                   /\ t.references[x].is => u.references[x].is
<1> DEFINE u == create_reference(t, m, n)
           r == [is |-> TRUE, target |-> m, valid |-> TRUE, generation |-> t.linear[m].generation]
           l == [t.linear[m] EXCEPT !.references = @ \cup {n}]
<1>1. t.errors \subseteq u.errors
  BY LinearKeeps DEF Keeps, SameRegions
<1>2. /\ t.linear \in [Names -> LinearInfos] /\ t.references \in [Names -> ReferenceInfos]
      /\ Shaped(t)
  BY CheckersShaped DEF Checkers
<1>3. CASE ~t.linear[m].is
  BY <1>3 DEF create_reference
<1>4. CASE t.linear[m].is /\ t.linear[m].moved
  <2>1. u = add_error(t, "reference to moved linear type")
    BY <1>4 DEF create_reference
  <2>2. SameLinear(t, u)
    BY <1>2, <2>1, SameLinearError
  <2> HIDE DEF u
  <2> QED
    BY <1>1, <2>2 DEF SameLinear, u
<1>5. CASE t.linear[m].is /\ ~t.linear[m].moved
  <2>1. u = [t EXCEPT !.references[n] = r, !.linear[m] = l]
    BY <1>5 DEF create_reference
  <2>2. r.is /\ l.is = t.linear[m].is /\ l.moved = t.linear[m].moved
    BY <1>2 DEF LinearInfos
  <2> HIDE DEF r, l
  <2>3. u.references = [t.references EXCEPT ![n] = r] /\ u.linear = [t.linear EXCEPT ![m] = l]
    BY <2>1 DEF Checkers
  <2> HIDE DEF u
  <2>4. ASSUME NEW x \in Names
        PROVE  /\ u.linear[x].is = t.linear[x].is /\ u.linear[x].moved = t.linear[x].moved
               /\ t.references[x].is => u.references[x].is
    BY <1>2, <2>2, <2>3
  <2> QED
    BY <1>1, <2>4 DEF u
<1> QED
  BY <1>3, <1>4, <1>5

\* the assignment to a variable that is declared
LEMMA DeclaredMarks ==
    ASSUME NEW r, r.t \in Checkers, NEW expected, NEW n \in Names, NEW v \in Literals \cup Names,
           Len(src) \in Nat
    PROVE  LET u == assign_declared(r, expected, n, v)
           IN  /\ r.t.errors \subseteq u.errors
               /\ \A x \in Names :
                     /\ r.t.linear[x].is => u.linear[x].is
                     /\ r.t.references[x].is => u.references[x].is
                     /\ r.t.linear[x].moved /\ x # n => u.linear[x].moved
               /\ v \in Names /\ v # n /\ lookup_variable(r.t, v) # "Function" /\ r.t.linear[v].is
                  => u.linear[v].moved
<1> DEFINE s == IF is_type_compatible(expected, r.type) THEN r.t ELSE add_error(r.t, "type mismatch")
           u == assign_declared(r, expected, n, v)
           m == move_linear_type(s, v)
           g == Linear(m.linear[v].generation)
<1>1. s \in Checkers /\ SameLinear(r.t, s) /\ s.scopes = r.t.scopes
  <2>1. SameLinear(r.t, r.t) /\ SameLinear(r.t, add_error(r.t, "type mismatch"))
    BY CheckersShaped, SameLinearError, SameLinearMemory
  <2>2. /\ add_error(r.t, "type mismatch") \in Checkers
        /\ add_error(r.t, "type mismatch").scopes = r.t.scopes
    BY ErrorKeeps DEF Keeps, Messages
  <2> QED
    BY <2>1, <2>2
<1>2. u = IF v \in Literals THEN s
          ELSE IF lookup_variable(s, v) # "Function" /\ s.linear[v].is
               THEN [m EXCEPT !.linear[n] = g]
               ELSE create_reference(s, v, n)
  BY DEF assign_declared
<1>3. v \in Names => v \notin Literals /\ lookup_variable(s, v) = lookup_variable(r.t, v)
  BY <1>1, LookupFacts, NamesAssumption
<1>4. v \in Names =>
        /\ m \in Checkers /\ s.errors \subseteq m.errors /\ m.linear[v].moved
        /\ s.linear[v].is => m.linear[v].is
        /\ \A x \in Names : x # v => m.linear[x] = s.linear[x]
        /\ \A x \in Names : m.references[x].is = s.references[x].is
  <2>1. s \in Checkers
    BY <1>1
  <2> HIDE DEF s
  <2>2. ASSUME v \in Names
        PROVE  LET w == move_linear_type(s, v)
               IN  /\ w \in Checkers /\ s.errors \subseteq w.errors /\ w.linear[v].moved
                   /\ s.linear[v].is => w.linear[v].is
                   /\ \A x \in Names : x # v => w.linear[x] = s.linear[x]
                   /\ \A x \in Names : w.references[x].is = s.references[x].is
    BY <2>1, <2>2, MoveMarks
  <2> QED
    BY <2>2
<1>5. s.linear = r.t.linear /\ s.references = r.t.references /\ r.t.errors \subseteq s.errors
  BY <1>1 DEF SameLinear
<1>6. g.is
  BY DEF Linear, NotLinear
<1>7. v \in Names =>
        LET c == create_reference(s, v, n)
        IN  /\ s.errors \subseteq c.errors
            /\ \A x \in Names : /\ c.linear[x].is = s.linear[x].is
                                /\ c.linear[x].moved = s.linear[x].moved
                                /\ s.references[x].is => c.references[x].is
  <2>1. s \in Checkers
    BY <1>1
  <2> HIDE DEF s
  <2> QED
    BY <2>1, ReferenceMarks
<1> HIDE DEF s, m, g, u
<1>8. CASE v \in Literals
  <2>1. u = s /\ v \notin Names
    BY <1>2, <1>3, <1>8
  <2> QED
    BY <1>5, <2>1 DEF u
<1>9. CASE v \in Names /\ lookup_variable(s, v) # "Function" /\ s.linear[v].is
  <2>1. u = [m EXCEPT !.linear[n] = g]
    BY <1>2, <1>3, <1>9
  <2>2. m.linear \in [Names -> LinearInfos]
    BY <1>4, <1>9 DEF Checkers
  <2>3. /\ u.errors = m.errors /\ u.references = m.references
        /\ u.linear = [m.linear EXCEPT ![n] = g]
    BY <1>4, <1>9, <2>1 DEF Checkers
  <2>4. u.linear[n] = g /\ \A x \in Names : x # n => u.linear[x] = m.linear[x]
    BY <2>2, <2>3
  <2>5. ASSUME NEW x \in Names
        PROVE  /\ r.t.linear[x].is => u.linear[x].is
               /\ r.t.references[x].is => u.references[x].is
               /\ r.t.linear[x].moved /\ x # n => u.linear[x].moved
    BY <1>4, <1>5, <1>6, <1>9, <2>3, <2>4
  <2>6. v # n => u.linear[v].moved
    BY <1>4, <1>9, <2>4
  <2> QED
    BY <1>4, <1>5, <1>9, <2>3, <2>5, <2>6 DEF u
<1>10. CASE v \in Names /\ ~(lookup_variable(s, v) # "Function" /\ s.linear[v].is)
  <2>1. u = create_reference(s, v, n)
    BY <1>2, <1>3, <1>10
  <2> QED
    BY <1>3, <1>5, <1>7, <1>10, <2>1 DEF u
<1> QED
  BY <1>8, <1>9, <1>10

\* the assignment that declares its variable
LEMMA UndeclaredMarks ==
    ASSUME NEW r, r.t \in Checkers, NEW n \in Names
    PROVE  LET u == assign_undeclared(r, n)
           IN  /\ r.t.errors \subseteq u.errors /\ u.references = r.t.references
               /\ u.linear[n].is
               /\ \A x \in Names : x # n => u.linear[x] = r.t.linear[x]
<1> DEFINE d == declare_variable(r.t, n, r.type)
           s == declare_variable_memory(d, n)
           u == assign_undeclared(r, n)
<1>1. u = [s EXCEPT !.linear[n] = Linear(0)]
  BY DEF assign_undeclared
<1>2. SameLinear(r.t, d) /\ Shaped(d)
  BY CheckersShaped, SameLinearDeclare, ShapedStays
<1> HIDE DEF d
<1>3. SameLinear(d, s) /\ Shaped(s)
  BY <1>2, SameLinearMemory, ShapedStays
<1> HIDE DEF s
<1>4. SameLinear(r.t, s)
  BY <1>2, <1>3, SameLinearTrans
<1>5. s.linear \in [Names -> LinearInfos]
  BY <1>4 DEF SameLinear, Checkers
<1>6. Linear(0).is
  BY DEF Linear, NotLinear
<1>7. /\ u.errors = s.errors /\ u.references = s.references
      /\ u.linear = [s.linear EXCEPT ![n] = Linear(0)]
  BY <1>1, <1>3 DEF Shaped
<1> HIDE DEF u
<1> QED
  BY <1>4, <1>5, <1>6, <1>7 DEF u, SameLinear

LEMMA AssignStep ==
    ASSUME StructureInv, check_assign_statement
    PROVE  \E t : LinearStep(t)
<1>0. TypesOK /\ tc \in Checkers /\ Shaped(tc) /\ Len(src) \in Nat /\ Inner(open) = Innermost
  BY StructureFacts, CheckersShaped DEF StructureInv
<1>1. PICK n \in Vars, v \in Literals \cup Names :
         /\ Meets(Token("assign", n, Null, v))
         /\ LET r == check_expression(tc, v)
            IN  IF Crashes(lookup_variable(r.t, n), r.type)
                THEN tc' = r.t /\ phase' = "crashed"
                ELSE tc' = check_assign_expr(tc, n, v) /\ Goes
  BY DEF check_assign_statement
<1> DEFINE t == Met("assign", n, Null, v, NoName, Null)
           r == check_expression(tc, v)
           expected == lookup_variable(tc, n)
<1>2. t \in TokenType /\ src' = Append(src, t)
  BY <1>0, <1>1, Tokens DEF TokenKinds, TypeOrNull
<1>3. /\ t.k = "assign" /\ t.n = n /\ t.v = v /\ t.f = NoName /\ t.up = Inner(open) /\ n \in Names
      /\ v \in Names => t.ty = check_variable_expr(tc, v).type
  BY <1>0 DEF Met, Names
<1>4. Keeps(tc, r.t) /\ r.type = IF v \in Literals THEN v ELSE check_variable_expr(tc, v).type
  BY <1>0, ExpressionKeeps
<1>5. SameLinear(tc, r.t) /\ (v \in Names => Reads(tc, r.t, v))
  BY <1>0, ExpressionReads
<1>6. r.t \in Checkers /\ r.t.scopes = tc.scopes /\ \A x \in Names : lookup_variable(r.t, x) = lookup_variable(tc, x)
  <2>1. r.t \in Checkers /\ r.t.scopes = tc.scopes
    BY <1>4 DEF Keeps
  <2> HIDE DEF r
  <2> QED
    BY <1>0, <2>1, LookupFacts
<1>7. v \in Names =>
         v \notin Literals /\ (~tc.references[v].is => t.ty = lookup_variable(tc, v))
  <2>1. v \in Names => v \notin Literals
    BY NamesAssumption
  <2> QED
    BY <1>0, <1>3, <2>1, VariableReads
<1>8. v \in Names => Reads(tc, r.t, v)
  BY <1>5
<1> HIDE DEF t, r
<1>9. /\ r.t.linear = tc.linear /\ r.t.references = tc.references /\ tc.errors \subseteq r.t.errors
  BY <1>5 DEF SameLinear
<1>10. CASE Crashes(lookup_variable(r.t, n), r.type)
  <2>1. tc' = r.t /\ expected # Null /\ r.type = Null
    BY <1>1, <1>3, <1>6, <1>10 DEF Crashes, r
  <2>2. v \in Names => t.ty = Null
    BY <1>3, <1>4, <1>7, <2>1
  <2> HIDE DEF expected
  <2>3. LinearStep(t)
    BY <1>1, <1>2, <1>3, <1>8, <1>9, <2>1, <2>2 DEF LinearStep, expected
  <2> QED
    BY <2>3
<1>11. CASE ~Crashes(lookup_variable(r.t, n), r.type) /\ expected = Null
  <2>1. tc' = assign_undeclared(r, n)
    BY <1>1, <1>3, <1>6, <1>11 DEF check_assign_expr, r
  <2>2. /\ r.t.errors \subseteq tc'.errors /\ tc'.references = r.t.references
        /\ tc'.linear[n].is
        /\ \A x \in Names : x # n => tc'.linear[x] = r.t.linear[x]
    BY <1>3, <1>6, <2>1, UndeclaredMarks
  <2>3. v \in Names => Reads(tc, tc', v)
    BY <1>8, <2>2 DEF Reads
  <2>4. LinearStep(t)
    BY <1>1, <1>2, <1>3, <1>9, <1>11, <2>2, <2>3 DEF LinearStep
  <2> QED
    BY <2>4
<1>12. CASE ~Crashes(lookup_variable(r.t, n), r.type) /\ expected # Null
  <2>1. tc' = assign_declared(r, expected, n, v)
    BY <1>1, <1>3, <1>6, <1>12 DEF check_assign_expr, r
  <2> HIDE DEF expected
  <2>2. /\ r.t.errors \subseteq tc'.errors
        /\ \A x \in Names :
              /\ r.t.linear[x].is => tc'.linear[x].is
              /\ r.t.references[x].is => tc'.references[x].is
              /\ r.t.linear[x].moved /\ x # n => tc'.linear[x].moved
        /\ v \in Names /\ v # n /\ lookup_variable(r.t, v) # "Function" /\ r.t.linear[v].is
           => tc'.linear[v].moved
    BY <1>0, <1>3, <1>6, <2>1, DeclaredMarks
  <2>3. v \in Names => Reads(tc, tc', v)
    BY <1>8, <2>2 DEF Reads
  <2>4. ASSUME v \in Names, v # n, t.ty # "Function", ~tc'.references[v].is, tc.linear[v].is
        PROVE  tc'.linear[v].moved
    <3>1. ~tc.references[v].is
      BY <1>9, <2>2, <2>4
    <3>2. lookup_variable(r.t, v) = t.ty
      BY <1>6, <1>7, <2>4, <3>1
    <3> QED
      BY <1>9, <2>2, <2>4, <3>2
  <2>5. ASSUME NEW x \in Names
        PROVE  /\ tc.linear[x].is => tc'.linear[x].is
               /\ tc.references[x].is => tc'.references[x].is
               /\ tc.linear[x].moved /\ ~(t.k = "assign" /\ t.n = x) => tc'.linear[x].moved
    BY <1>3, <1>9, <2>2
  <2>6. LinearStep(t)
    BY <1>1, <1>2, <1>3, <1>12, <2>3, <2>4, <2>5 DEF LinearStep, expected
  <2> QED
    BY <2>6
<1> QED
  BY <1>10, <1>11, <1>12

\* The step keeps what is visible before the token t, and t declares its name
\* when that has no type.
Onward(v, t, w) ==
    /\ VisibleIs(src', w)
    /\ \A q \in 0..Len(src), n \in Names : w[q][n] = v[q][n]
    /\ t.k = "assign" => (w[Len(src) + 1][t.n] = Len(src) + 1 <=> lookup_variable(tc, t.n) = Null)

LEMMA AssignVisible ==
    ASSUME StructureInv, NEW v, Looked(v), NEW t, NEW w, Continues(src, v, t, w),
           VisibleIs(Append(src, t), w), t \in TokenType,
           t.k = "assign", t.up = Inner(open), t.f = NoName, t.n \in Vars
    PROVE  w[Len(src) + 1][t.n] = Len(src) + 1 <=> lookup_variable(tc, t.n) = Null
<1> DEFINE m == Len(src)
           r == Append(src, t)
           n == t.n
           type == TypeBy(src, v[m][n], n)
           seen == SeenBy(r, w, m + 1, n)
<1>1. /\ n \in Names /\ n \notin globals /\ n # NoName /\ m \in Nat /\ src \in Seq(TokenType)
      /\ open \in Seq(Nat)
  BY StructureFacts, NamesAssumption DEF Names, StructureInv, TypesOK
<1>2. lookup_variable(tc, n) = type
  <2>1. LookupAt(tc.scopes, open, src, globals, v)
    BY DEF Looked
  <2>2. LET y == TypeBy(src, v[Len(src)][n], n)
        IN  lookup_variable(tc, n) = IF y = Null /\ n \in globals THEN "Function" ELSE y
    BY <1>1, <2>1, Found
  <2> QED
    BY <1>1, <2>2
<1>3. /\ DeclaresBy(r, w, m + 1, n) <=> NewDeclares(t, n, type)
      /\ SHome(r, m + 1, n) = TokenHome(t, m + 1, n)
  BY <1>1, NewToken
<1>4. NewDeclares(t, n, type) <=> type = Null
  BY <1>1 DEF NewDeclares, Binders
<1>5. InScopeOf(r, m + 1, n, m + 1)
  <2>1. SHome(r, m + 1, n) = Inner(open)
    BY <1>3 DEF TokenHome, Openers, Binders
  <2>2. Inner(open) = 0 \/ ~Ended(src, Inner(open), m)
    <3>1. CASE open = <<>>
      BY <3>1 DEF Inner
    <3>2. CASE open # <<>>
      <4>1. Len(open) \in DOMAIN open /\ Inner(open) = open[Len(open)]
        BY <1>1, <3>2 DEF Inner
      <4> QED
        BY <4>1, StructureFacts DEF WellNested
    <3> QED
      BY <3>1, <3>2
  <2>3. Ended(r, Inner(open), m + 1) <=> Ended(src, Inner(open), m)
    BY <1>1, EndedAppend
  <2> QED
    BY <2>1, <2>2, <2>3 DEF InScopeOf
<1>6. m + 1 \in Nat /\ r \in Seq(TokenType) /\ Len(r) = m + 1 /\ m + 1 \in 0..(m + 1)
  BY <1>1
<1>7. w[m + 1][n] = LastOf(seen)
  <2> HIDE DEF m, r, n
  <2> QED
    BY <1>1, <1>6, VisibleAt DEF r
<1> HIDE DEF m, r, n, type
<1>8. /\ seen \in SUBSET (1..(m + 1)) /\ LastOf(seen) \in 0..(m + 1)
      /\ \A p \in seen : p <= LastOf(seen)
      /\ seen # {} => LastOf(seen) \in seen
  BY <1>6, SeenRange
<1>9. m + 1 \in seen <=> DeclaresBy(r, w, m + 1, n)
  BY <1>1, <1>5 DEF SeenBy
<1> HIDE DEF seen
<1>10. LastOf(seen) = m + 1 <=> m + 1 \in seen
  <2>1. ASSUME LastOf(seen) = m + 1 PROVE m + 1 \in seen
    <3>1. seen = {} => LastOf(seen) = 0
      BY DEF LastOf
    <3> QED
      BY <1>1, <1>8, <2>1, <3>1
  <2>2. ASSUME m + 1 \in seen PROVE LastOf(seen) = m + 1
    BY <1>1, <1>8, <2>2
  <2> QED
    BY <2>1, <2>2
<1> QED
  BY <1>2, <1>3, <1>4, <1>7, <1>9, <1>10 DEF m, r, n, type, seen

LEMMA GoesOnward ==
    ASSUME StructureInv, NEW v, Looked(v), TypesNext, NEW t, LinearStep(t)
    PROVE  \E w : LookupAt(tc'.scopes, open', src', globals', w) /\ Onward(v, t, w)
<1>1. PICK w : LookupAt(tc'.scopes, open', src', globals', w)
  BY TypesLookup DEF StillLooked
<1>2. /\ src' = Append(src, t) /\ t \in TokenType /\ src \in Seq(TokenType)
      /\ VisibleIs(src, v) /\ VisibleIs(src', w) /\ Len(src) \in Nat
  BY <1>1, StructureFacts DEF LinearStep, Looked, LookupAt
<1>3. PICK x : Continues(src, v, t, x) /\ VisibleIs(Append(src, t), x)
  BY <1>2, Continued
<1>4. src' \in Seq(TokenType) /\ Len(src') = Len(src) + 1
  BY <1>2
<1>5. \A q \in 0..(Len(src) + 1), n \in Names : w[q][n] = x[q][n]
  <2>1. VisibleIs(src', w) /\ VisibleIs(src', x)
    BY <1>2, <1>3
  <2>2. \A q \in 0..Len(src'), n \in Names : w[q][n] = x[q][n]
    BY ONLY <1>4, <2>1, VisibleOnce
  <2> QED
    BY <1>4, <2>2
<1>6. \A q \in 0..Len(src), n \in Names : w[q][n] = v[q][n]
  <2> TAKE q \in 0..Len(src), n \in Names
  <2>1. q \in 0..(Len(src) + 1)
    BY <1>2
  <2> QED
    BY <1>3, <1>5, <2>1 DEF Continues
<1>7. ASSUME t.k = "assign"
      PROVE  w[Len(src) + 1][t.n] = Len(src) + 1 <=> lookup_variable(tc, t.n) = Null
  <2>1. t.up = Inner(open) /\ t.f = NoName /\ t.n \in Vars /\ t.n \in Names
    BY <1>7 DEF LinearStep, Names
  <2>2. Len(src) + 1 \in 0..(Len(src) + 1)
    BY <1>2
  <2>3. x[Len(src) + 1][t.n] = Len(src) + 1 <=> lookup_variable(tc, t.n) = Null
    BY <1>2, <1>3, <1>7, <2>1, AssignVisible
  <2> QED
    BY <1>5, <2>1, <2>2, <2>3
<1> QED
  BY <1>1, <1>2, <1>6, <1>7 DEF Onward

(***************************************************************************)
(* What the program says of a linear variable n, and the checker's state c. *)
(***************************************************************************)
\* the assignment p declared n
AssignedAt(s, v, p, n) == s[p].k = "assign" /\ s[p].n = n /\ v[p][n] = p

\* the assignment r gave it to another variable
GivenAt(s, v, r, n) ==
    /\ s[r].k = "assign" /\ s[r].v = n /\ s[r].n # n
    /\ s[r].ty \notin {"Function", Null} /\ v[r][s[r].n] # r

Unassigned(s, r, n, m) == \A i \in (r + 1)..m : ~(s[i].k = "assign" /\ s[i].n = n)

LinearAt(c, s, v) ==
    /\ \A r \in 1..Len(s) : s[r].k = "assign" => s[r].n \in Vars
    /\ \A n \in Vars, p \in 1..Len(s) : AssignedAt(s, v, p, n) =>
          /\ c.linear[n].is
          /\ \A r \in 1..Len(s) :
                p < r /\ GivenAt(s, v, r, n) /\ Unassigned(s, r, n, Len(s)) /\ ~c.references[n].is
                => c.linear[n].moved

\* the newest token
LinearRead(c, s, v) ==
    \A n \in Vars, p, r \in 1..Len(s) :
        /\ s[Len(s)].v = n /\ p < r /\ r < Len(s)
        /\ AssignedAt(s, v, p, n) /\ GivenAt(s, v, r, n)
        /\ Unassigned(s, r, n, Len(s) - 1) /\ ~c.references[n].is
        => \E e \in c.errors : e.at = Len(s)

\* the tokens before the newest
LEMMA LinearEarlier ==
    ASSUME StructureInv, NEW v, LinearAt(tc, src, v), NEW t, src' = Append(src, t),
           NEW w, Onward(v, t, w)
    PROVE  \A n \in Vars, p \in 1..Len(src) :
              /\ src'[p] = src[p]
              /\ AssignedAt(src', w, p, n) <=> AssignedAt(src, v, p, n)
              /\ GivenAt(src', w, p, n) <=> GivenAt(src, v, p, n)
              /\ Unassigned(src', p, n, Len(src)) <=> Unassigned(src, p, n, Len(src))
<1> TAKE n \in Vars, p \in 1..Len(src)
<1>1. Len(src) \in Nat /\ \A i \in 1..Len(src) : src'[i] = src[i]
  BY StructureFacts
<1>2. p \in 0..Len(src) /\ n \in Names /\ (src[p].k = "assign" => src[p].n \in Names)
  BY <1>1 DEF Names, LinearAt
<1>3. w[p][n] = v[p][n] /\ (src[p].k = "assign" => w[p][src[p].n] = v[p][src[p].n])
  BY <1>2 DEF Onward
<1>4. \A i \in (p + 1)..Len(src) : src'[i] = src[i]
  BY <1>1
<1> QED
  BY <1>1, <1>3, <1>4 DEF AssignedAt, GivenAt, Unassigned

LEMMA LinearKept ==
    ASSUME StructureInv, NEW v, Looked(v), LinearAt(tc, src, v), NEW t, LinearStep(t),
           NEW w, Onward(v, t, w)
    PROVE  LinearAt(tc', src', w) /\ LinearRead(tc', src', w)
<1> DEFINE m == Len(src)
<1>1. m \in Nat /\ src' = Append(src, t) /\ Len(src') = m + 1 /\ src'[m + 1] = t
  BY StructureFacts DEF LinearStep
<1>2. \A n \in Vars, p \in 1..m :
         /\ src'[p] = src[p]
         /\ AssignedAt(src', w, p, n) <=> AssignedAt(src, v, p, n)
         /\ GivenAt(src', w, p, n) <=> GivenAt(src, v, p, n)
         /\ Unassigned(src', p, n, m) <=> Unassigned(src, p, n, m)
  BY <1>1, LinearEarlier
<1>3. /\ \A x \in Vars :
            /\ tc.linear[x].is => tc'.linear[x].is
            /\ tc.references[x].is => tc'.references[x].is
            /\ tc.linear[x].moved /\ ~(t.k = "assign" /\ t.n = x) => tc'.linear[x].moved
      /\ t.v \in Vars => Reads(tc, tc', t.v)
  BY DEF LinearStep, Names
<1>4. \A n \in Vars, p \in 1..m : AssignedAt(src, v, p, n) =>
          /\ tc.linear[n].is
          /\ \A r \in 1..m :
                p < r /\ GivenAt(src, v, r, n) /\ Unassigned(src, r, n, m) /\ ~tc.references[n].is
                => tc.linear[n].moved
  BY DEF LinearAt
<1>5. \A r \in 1..(m + 1) : r \in 1..m \/ r = m + 1
  BY <1>1
<1>6. \A r \in 1..(m + 1) : src'[r].k = "assign" => src'[r].n \in Vars
  <2> TAKE r \in 1..(m + 1)
  <2>1. CASE r \in 1..m
    <3>1. src'[r] = src[r]
      BY <1>1, <2>1, StructureFacts
    <3> QED
      BY <2>1, <3>1 DEF LinearAt
  <2>2. CASE r = m + 1
    BY <1>1, <2>2 DEF LinearStep
  <2> QED
    BY <1>5, <2>1, <2>2
<1>7. ASSUME NEW n \in Vars, NEW p \in 1..(m + 1), AssignedAt(src', w, p, n)
      PROVE  tc'.linear[n].is
  <2>1. CASE p \in 1..m
    BY <1>2, <1>3, <1>4, <1>7, <2>1
  <2>2. CASE p = m + 1
    <3>1. t.k = "assign" /\ t.n = n /\ w[m + 1][t.n] = m + 1
      BY <1>1, <1>7, <2>2 DEF AssignedAt
    <3>2. lookup_variable(tc, t.n) = Null
      BY <3>1 DEF Onward
    <3> QED
      BY <3>1, <3>2 DEF LinearStep
  <2> QED
    BY <1>5, <2>1, <2>2
<1>8. ASSUME NEW n \in Vars, NEW p \in 1..(m + 1), AssignedAt(src', w, p, n),
             NEW r \in 1..(m + 1), p < r, GivenAt(src', w, r, n),
             Unassigned(src', r, n, m + 1), ~tc'.references[n].is
      PROVE  tc'.linear[n].moved
  <2>0. p \in 1..m /\ AssignedAt(src, v, p, n) /\ ~tc.references[n].is
    <3>1. p \in 1..m
      BY <1>1, <1>8
    <3> QED
      BY <1>2, <1>3, <1>8, <3>1
  <2>1. CASE r \in 1..m
    <3>1. Unassigned(src', r, n, m) /\ ~(t.k = "assign" /\ t.n = n)
      <4>1. m + 1 \in (r + 1)..(m + 1) /\ \A i \in (r + 1)..m : i \in (r + 1)..(m + 1)
        BY <1>1, <2>1
      <4> QED
        BY <1>1, <1>8, <4>1 DEF Unassigned
    <3>2. tc.linear[n].moved
      BY <1>2, <1>4, <1>8, <2>0, <2>1, <3>1
    <3> QED
      BY <1>3, <3>1, <3>2
  <2>2. CASE r = m + 1
    <3>1. /\ t.k = "assign" /\ t.v = n /\ t.n # n /\ t.ty \notin {"Function", Null}
          /\ w[m + 1][t.n] # m + 1
      BY <1>1, <1>8, <2>2 DEF GivenAt
    <3>2. lookup_variable(tc, t.n) # Null
      BY <3>1 DEF Onward
    <3>3. tc.linear[n].is /\ n \in Names
      BY <1>4, <2>0 DEF Names
    <3> QED
      BY <1>8, <3>1, <3>2, <3>3 DEF LinearStep
  <2> QED
    BY <1>5, <2>1, <2>2
<1>9. ASSUME NEW n \in Vars, NEW p \in 1..(m + 1), NEW r \in 1..(m + 1),
             t.v = n, p < r, r < m + 1, AssignedAt(src', w, p, n), GivenAt(src', w, r, n),
             Unassigned(src', r, n, m), ~tc'.references[n].is
      PROVE  \E e \in tc'.errors : e.at = m + 1
  <2>1. p \in 1..m /\ r \in 1..m
    BY <1>1, <1>9
  <2>2. tc.linear[n].moved /\ ~tc.references[n].is
    BY <1>2, <1>3, <1>4, <1>9, <2>1
  <2> QED
    BY <1>3, <1>9, <2>2 DEF Reads
<1>10. LinearAt(tc', src', w)
  BY <1>1, <1>6, <1>7, <1>8 DEF LinearAt
<1>11. LinearRead(tc', src', w)
  <2>1. Len(src') - 1 = m /\ src'[Len(src')] = t
    BY <1>1
  <2> HIDE DEF m
  <2> QED
    BY <1>1, <1>9, <2>1 DEF LinearRead
<1> QED
  BY <1>10, <1>11

\* v is Visible.
LinearKnown(v) == Looked(v) /\ LinearAt(tc, src, v) /\ LinearRead(tc, src, v)

LEMMA LinearProceeds ==
    ASSUME StructureInv, NEW v, LinearKnown(v), TypesNext
    PROVE  (\E w : LinearKnown(w))'
<1>0. Looked(v) /\ LinearAt(tc, src, v) /\ LinearRead(tc, src, v)
  BY DEF LinearKnown
<1>1. CASE finish_types
  <2>1. tc' = tc /\ src' = src /\ open' = open /\ globals' = globals
    BY <1>1 DEF finish_types
  <2> QED
    BY <1>0, <2>1 DEF LinearKnown, Looked
<1>2. CASE ~finish_types
  <2>1. PICK t : LinearStep(t)
    BY <1>2, QuietSteps, AssignStep
  <2>2. PICK w : LookupAt(tc'.scopes, open', src', globals', w) /\ Onward(v, t, w)
    BY <1>0, <2>1, GoesOnward
  <2>3. LinearAt(tc', src', w) /\ LinearRead(tc', src', w)
    BY <1>0, <2>1, <2>2, LinearKept
  <2> QED
    BY <2>2, <2>3 DEF LinearKnown, Looked
<1> QED
  BY <1>1, <1>2

LEMMA LinearReported ==
    ASSUME StructureInv, NEW v, LinearKnown(v)
    PROVE  LinearMovesReported
<1> DEFINE u == Visible
           m == Len(src)
<1>1. VisibleIs(src, v) /\ src \in Seq(TokenType) /\ m \in Nat
  BY StructureFacts DEF LinearKnown, Looked, LookupAt
<1>2. VisibleIs(src, u)
  <2>1. v = VisibleBody(src, v)
    BY <1>1 DEF VisibleIs
  <2>2. (CHOOSE w : w = VisibleBody(src, w)) = VisibleBody(src, CHOOSE w : w = VisibleBody(src, w))
    BY <2>1
  <2> QED
    BY <2>2, VisibleUnfolds DEF VisibleIs
<1> HIDE DEF u
<1>3. \A q \in 0..m, n \in Names : u[q][n] = v[q][n]
  BY <1>1, <1>2, VisibleOnce
<1> SUFFICES ASSUME NEW q \in Newest, NEW n \in Vars, NEW p \in Positions, NEW r \in Positions,
                    src[q].v = n, p < r, r < q,
                    src[r].k = "assign", src[r].v = n, src[r].n # n,
                    src[p].k = "assign", src[p].n = n, u[p][n] = p,
                    src[r].ty \notin {"Function", Null}, u[r][src[r].n] # r,
                    \A i \in (r + 1)..(q - 1) : ~(src[i].k = "assign" /\ src[i].n = n),
                    ~tc.references[n].is
             PROVE  ReportedAt(q)
  BY DEF LinearMovesReported, u
<1>4. q = m /\ p \in 1..m /\ r \in 1..m
  BY <1>1 DEF Newest, Positions
<1>5. p \in 0..m /\ r \in 0..m /\ n \in Names /\ src[r].n \in Names
  <2>1. src[r].n \in Vars
    BY <1>4 DEF LinearKnown, LinearAt
  <2> QED
    BY <1>1, <1>4, <2>1 DEF Names
<1>6. v[p][n] = p /\ v[r][src[r].n] # r
  BY <1>3, <1>5
<1>7. AssignedAt(src, v, p, n) /\ GivenAt(src, v, r, n) /\ Unassigned(src, r, n, m - 1)
  BY <1>4, <1>6 DEF AssignedAt, GivenAt, Unassigned
<1> QED
  BY <1>4, <1>7 DEF LinearKnown, LinearRead, ReportedAt

\* The variable that an assignment declared is linear: once it has been assigned
\* to another variable, every use of it is reported until it is assigned to
\* again (check_assign_expr, move_linear_type and check_linear_type_access in the
\* type checker), through all blocks that open, close or shadow it in between,
\* unless its name is that of a reference.
THEOREM LinearMovesKnown == MemorySpec => []LinearMovesReported
<1> DEFINE LI == \E v : LinearKnown(v)
<1>1. MemoryInit => LI
  <2> SUFFICES ASSUME MemoryInit PROVE LI
    OBVIOUS
  <2>1. PICK v : Looked(v)
    BY InitLookup DEF MemoryInit
  <2>2. src = <<>>
    BY DEF MemoryInit, Init
  <2>3. LinearAt(tc, src, v) /\ LinearRead(tc, src, v)
    BY <2>2 DEF LinearAt, LinearRead
  <2> QED
    BY <2>1, <2>3 DEF LinearKnown
<1>2. StructureInv /\ LI /\ [MemoryNext]_<<vars, memoryVars>> => LI'
  <2> SUFFICES ASSUME StructureInv, NEW v, LinearKnown(v), [MemoryNext]_<<vars, memoryVars>>
               PROVE  LI'
    OBVIOUS
  <2>1. CASE TypesNext
    BY <2>1, LinearProceeds
  <2>2. CASE UNCHANGED <<tc, open, globals, src>>
    BY <2>2 DEF LinearKnown, Looked
  <2> QED
    BY <2>1, <2>2, MemoryReads
<1>3. StructureInv /\ LI => LinearMovesReported
  BY LinearReported
<1> HIDE DEF LI
<1> QED
  BY <1>1, <1>2, <1>3, StructureInvariant, PTL DEF MemorySpec

(***************************************************************************)
(* Moves.  The records of memory: a variable keeps its own, with the region *)
(* it was declared in, until its name is declared anew or a region ends in  *)
(* that one.                                                                *)
(***************************************************************************)
MemoryKept(t, u, x) ==
    /\ u.memory[x].region = t.memory[x].region
    /\ t.memory[x].state # "none" => u.memory[x].state # "none"
    /\ t.memory[x].state = "moved" => u.memory[x].state = "moved"

LEMMA MemoryKeptTrans ==
    ASSUME NEW t, NEW u, NEW w, NEW x, MemoryKept(t, u, x), MemoryKept(u, w, x)
    PROVE  MemoryKept(t, w, x)
  BY DEF MemoryKept

LEMMA MemoryKeptSame ==
    ASSUME NEW t, NEW u, NEW x, u.memory[x] = t.memory[x]
    PROVE  MemoryKept(t, u, x)
  BY DEF MemoryKept

LEMMA CheckersMemory ==
    ASSUME NEW t \in Checkers, NEW x \in Names
    PROVE  /\ DOMAIN t.memory = Names /\ "memory" \in DOMAIN t
           /\ DOMAIN t.memory[x] = {"state", "region"} /\ t.memory[x].region \in Nat
<1>1. t.memory \in [Names -> Infos] /\ "memory" \in DOMAIN t
  BY DEF Checkers
<1>2. t.memory[x] \in Infos
  BY <1>1
<1> QED
  BY <1>1, <1>2 DEF Infos

\* Checks that only report.
LEMMA SameMemory ==
    ASSUME NEW t \in Checkers, NEW n \in Names
    PROVE  /\ \A what : add_error(t, what).memory = t.memory
           /\ check_variable_use(t, n).memory = t.memory
           /\ check_linear_type_access(t, n).memory = t.memory
           /\ check_reference_validity(t, n).memory = t.memory
<1>1. \A what : add_error(t, what).memory = t.memory
  BY DEF add_error, Checkers
<1>2. check_variable_use(t, n).memory = t.memory
  <2> DEFINE state == IF lookup_variable(t, n) \in Unmoved THEN "none" ELSE t.memory[n].state
             u == check_variable_use(t, n)
  <2>1. u = CASE state = "moved" -> add_error(t, "use after move")
              [] state = "uninitialized" -> add_error(t, "use before initialization")
              [] OTHER -> t
    BY DEF check_variable_use
  <2> HIDE DEF state, u
  <2> DEFINE x == add_error(t, "use after move")
             y == add_error(t, "use before initialization")
  <2>2. x.memory = t.memory /\ y.memory = t.memory
    BY <1>1
  <2>3. u = CASE state = "moved" -> x [] state = "uninitialized" -> y [] OTHER -> t
    BY <2>1
  <2> HIDE DEF x, y
  <2>4. u.memory = t.memory
    BY <2>2, <2>3
  <2> QED
    BY <2>4 DEF u
<1> QED
  BY <1>1, <1>2 DEF check_linear_type_access, check_reference_validity

\* A variable that was moved is read.
UseFound(t, u, n) ==
    /\ ~t.references[n].is /\ t.memory[n].state = "moved" /\ lookup_variable(t, n) \notin Unmoved
    => \E e \in u.errors : e.at = Len(src) + 1

LEMMA UseFoundLater ==
    ASSUME NEW t, NEW u, NEW w, NEW n, UseFound(t, u, n), u.errors \subseteq w.errors
    PROVE  UseFound(t, w, n)
  BY DEF UseFound

LEMMA VariableMemory ==
    ASSUME NEW t \in Checkers, NEW n \in Names, Len(src) \in Nat
    PROVE  LET u == check_variable_expr(t, n).t
           IN  u.memory = t.memory /\ UseFound(t, u, n)
<1> DEFINE s == IF t.references[n].is THEN check_reference_validity(t, n) ELSE t
           to == IF t.references[n].is THEN lookup_variable(t, t.references[n].target) ELSE Null
           u == check_linear_type_access(s, n)
           type == lookup_variable(t, n)
           r == check_variable_expr(t, n)
<1>1. s \in Checkers /\ s.scopes = t.scopes /\ s.memory = t.memory
  BY LinearKeeps, SameMemory DEF Keeps
<1>2. ~t.references[n].is => to = Null
  OBVIOUS
<1>3. r = CASE to # Null -> Checked(s, to)
            [] to = Null /\ type = Null -> Checked(add_error(u, "undefined"), Null)
            [] OTHER -> Checked(check_variable_use(u, n), type)
  BY DEF check_variable_expr
<1> HIDE DEF s
<1>4. u \in Checkers /\ u.scopes = t.scopes /\ u.memory = t.memory
  BY <1>1, LinearKeeps, SameMemory DEF Keeps
<1>5. lookup_variable(u, n) = type
  <2> HIDE DEF u
  <2> QED
    BY <1>4, LookupFacts
<1>6. "undefined" \in Messages /\ "use after move" \in Messages
  BY DEF Messages
<1> HIDE DEF u, type, to, r
<1>7. CASE to # Null
  <2>1. r.t = s /\ t.references[n].is
    BY <1>2, <1>3, <1>7 DEF Checked
  <2> QED
    BY <1>1, <2>1 DEF UseFound, r
<1>8. CASE to = Null /\ type = Null
  <2>1. r.t = add_error(u, "undefined")
    BY <1>3, <1>8 DEF Checked
  <2>2. /\ add_error(u, "undefined").memory = u.memory
        /\ \E e \in add_error(u, "undefined").errors : e.at = Len(src) + 1
    BY <1>4, <1>6, ErrorKeeps, SameMemory
  <2>3. r.t.memory = t.memory
    BY <1>4, <2>1, <2>2
  <2> QED
    BY <2>1, <2>2, <2>3 DEF UseFound, r
<1>9. CASE to = Null /\ type # Null
  <2>1. r.t = check_variable_use(u, n)
    BY <1>3, <1>9 DEF Checked
  <2>2. r.t.memory = t.memory
    BY <1>4, <2>1, SameMemory
  <2>3. ASSUME t.memory[n].state = "moved", type \notin Unmoved
        PROVE  \E e \in r.t.errors : e.at = Len(src) + 1
    <3>1. r.t = add_error(u, "use after move")
      BY <1>4, <1>5, <2>1, <2>3 DEF check_variable_use
    <3> QED
      BY <1>4, <1>6, <3>1, ErrorKeeps
  <2> QED
    BY <2>2, <2>3 DEF UseFound, r, type
<1> QED
  BY <1>7, <1>8, <1>9

LEMMA ExpressionMemory ==
    ASSUME NEW t \in Checkers, NEW v \in Literals \cup Names, Len(src) \in Nat
    PROVE  LET u == check_expression(t, v).t
           IN  u.memory = t.memory /\ (v \in Names => UseFound(t, u, v))
<1>1. v \in Names => v \notin Literals
  BY NamesAssumption
<1>2. CASE v \in Literals
  BY <1>1, <1>2 DEF check_expression, Checked
<1>3. CASE v \in Names
  BY <1>1, <1>3, VariableMemory DEF check_expression
<1> QED
  BY <1>2, <1>3

LEMMA MoveMemory ==
    ASSUME NEW t \in Checkers, NEW n \in Names, NEW x \in Names
    PROVE  LET u == check_variable_move(t, n)
           IN  /\ MemoryKept(t, u, x)
               /\ lookup_variable(t, n) \notin Unmoved /\ t.memory[n].state # "none"
                  => u.memory[n].state = "moved"
<1> DEFINE u == check_variable_move(t, n)
           state == IF lookup_variable(t, n) \in Unmoved THEN "none" ELSE t.memory[n].state
           m == [t EXCEPT !.memory[n].state = "moved"]
<1>1. u = CASE state = "none" -> t
            [] state = "moved" -> add_error(t, "double move")
            [] OTHER -> m
  BY DEF check_variable_move
<1>2. m.memory[n].state = "moved" /\ MemoryKept(t, m, x)
  BY CheckersMemory DEF MemoryKept
<1>3. add_error(t, "double move").memory = t.memory
  BY SameMemory
<1> HIDE DEF m, u
<1>4. CASE state = "none"
  BY <1>1, <1>4, MemoryKeptSame DEF u
<1>5. CASE state = "moved"
  <2>1. u.memory = t.memory /\ t.memory[n].state = "moved"
    BY <1>1, <1>3, <1>5
  <2> QED
    BY <2>1, MemoryKeptSame DEF u
<1>6. CASE state \notin {"none", "moved"}
  BY <1>1, <1>2, <1>6 DEF u
<1> QED
  BY <1>4, <1>5, <1>6

LEMMA RecordMemory ==
    ASSUME NEW t \in Checkers, NEW n \in Names, NEW x \in Names
    PROVE  /\ LET u == declare_variable_memory(t, n)
              IN  /\ u.memory[n].state # "none" /\ u.memory[n].region = t.region
                  /\ x # n => u.memory[x] = t.memory[x]
           /\ MemoryKept(t, mark_variable_initialized(t, n), x)
           /\ x # n => mark_variable_initialized(t, n).memory[x] = t.memory[x]
<1>1. LET u == declare_variable_memory(t, n)
      IN  /\ u.memory[n].state # "none" /\ u.memory[n].region = t.region
          /\ x # n => u.memory[x] = t.memory[x]
  BY CheckersMemory DEF declare_variable_memory
<1>2. CASE t.memory[n].state = "uninitialized"
  <2>1. mark_variable_initialized(t, n) = [t EXCEPT !.memory[n].state = "owned"]
    BY <1>2 DEF mark_variable_initialized
  <2> QED
    BY <1>1, <1>2, <2>1, CheckersMemory DEF MemoryKept
<1>3. CASE t.memory[n].state # "uninitialized"
  BY <1>1, <1>3 DEF mark_variable_initialized, MemoryKept
<1> QED
  BY <1>2, <1>3

LEMMA NameMemory ==
    ASSUME NEW t \in Checkers, NEW n \in Names, NEW type, NEW x \in Names, Len(src) \in Nat,
           x # n \/ type # "Function"
    PROVE  declare_variable(t, n, type).memory[x] = t.memory[x]
<1> DEFINE u == declare_variable_memory(t, n)
           s == IF type = "Function" THEN mark_variable_initialized(u, n) ELSE t
           S == [s.scopes EXCEPT ![Len(s.scopes)] = [@ EXCEPT ![n] = type]]
<1>1. declare_variable(t, n, type) = [s EXCEPT !.scopes = S]
  BY DEF declare_variable
<1>2. u \in Checkers
  BY MemoryKeeps DEF Keeps
<1>3. x # n => u.memory[x] = t.memory[x]
  BY RecordMemory
<1> HIDE DEF u
<1>4. s \in Checkers /\ s.memory[x] = t.memory[x]
  BY <1>2, <1>3, MemoryKeeps, RecordMemory DEF Keeps
<1> HIDE DEF s, S
<1>5. [s EXCEPT !.scopes = S].memory = s.memory
  BY <1>4 DEF Checkers
<1> QED
  BY <1>1, <1>4, <1>5

\* check_var_declaration
LEMMA VarMemory ==
    ASSUME NEW t \in Checkers, t.scopes # <<>>, NEW n \in Names, NEW a \in Literals \cup {Null},
           NEW v \in Literals \cup Names \cup {Null}, NEW x \in Names, Len(src) \in Nat
    PROVE  LET u == declare_var(t, n, a, v)
           IN  /\ u.memory[n].state # "none" /\ u.memory[n].region = t.region
               /\ x # n => MemoryKept(t, u, x)
               /\ x # n /\ v = x /\ lookup_variable(t, x) \notin Copyable
                  /\ t.memory[x].state # "none" => u.memory[x].state = "moved"
               /\ v = x => UseFound(t, u, x)
<1> DEFINE e == IF v = Null THEN Checked(t, Null) ELSE check_expression(t, v)
           r == check_initializer(t, v)
           s == CASE a # Null /\ r.type # Null /\ ~is_type_compatible(a, r.type) ->
                       add_error(r.t, "type mismatch")
                  [] a = Null /\ r.type = Null -> add_error(r.t, "no type or initializer")
                  [] OTHER -> r.t
           type == var_type(a, r.type)
           d == declare_variable(s, n, type)
           m == declare_variable_memory(d, n)
           u == IF v # Null THEN mark_variable_initialized(m, n) ELSE m
<1>0. Null \notin Names /\ Null \notin Literals
  BY NamesAssumption DEF Null, Literals
<1>1. /\ e.t \in Checkers /\ e.t.memory = t.memory /\ e.t.scopes = t.scopes
      /\ e.t.region = t.region /\ (v = x => UseFound(t, e.t, x))
  <2>1. CASE v = Null
    BY <1>0, <2>1 DEF Checked
  <2>2. CASE v # Null
    BY <2>2, ExpressionKeeps, ExpressionMemory DEF Keeps, SameRegions
  <2> QED
    BY <2>1, <2>2
<1>2. r = IF v \in Names /\ lookup_variable(e.t, v) \notin Copyable
          THEN Checked(check_variable_move(e.t, v), e.type) ELSE e
  BY DEF check_initializer
<1>3. declare_var(t, n, a, v) = u
  BY DEF declare_var
<1>4. r.type \in TypeOrNull
  BY InitializerKeeps
<1> HIDE DEF e, r
<1>5. /\ Keeps(e.t, r.t) /\ MemoryKept(e.t, r.t, x)
      /\ v = x /\ lookup_variable(e.t, x) \notin Copyable /\ e.t.memory[x].state # "none"
         => r.t.memory[x].state = "moved"
  <2>1. CASE v \in Names /\ lookup_variable(e.t, v) \notin Copyable
    <3>1. r.t = check_variable_move(e.t, v)
      BY <1>2, <2>1 DEF Checked
    <3>2. lookup_variable(e.t, v) \notin Unmoved
      BY <2>1 DEF Unmoved, Copyable
    <3> QED
      BY <1>1, <2>1, <3>1, <3>2, MemoryKeeps, MoveMemory
  <2>2. CASE ~(v \in Names /\ lookup_variable(e.t, v) \notin Copyable)
    BY <1>1, <1>2, <2>2, KeepsSelf, MemoryKeptSame
  <2> QED
    BY <2>1, <2>2
<1>6. /\ r.t \in Checkers /\ r.t.scopes # <<>> /\ r.t.region = t.region
      /\ e.t.errors \subseteq r.t.errors
  BY <1>1, <1>5 DEF Keeps, SameRegions
<1>7. lookup_variable(e.t, x) = lookup_variable(t, x)
  BY <1>1, LookupFacts
<1>8. Keeps(r.t, s) /\ s.memory = r.t.memory
  <2>1. "type mismatch" \in Messages /\ "no type or initializer" \in Messages
    BY DEF Messages
  <2>2. /\ \A what \in Messages : Keeps(r.t, add_error(r.t, what))
        /\ \A what : add_error(r.t, what).memory = r.t.memory /\ Keeps(r.t, r.t)
    BY <1>6, ErrorKeeps, SameMemory, KeepsSelf
  <2> QED
    BY <2>1, <2>2
<1>9. type \in TypeOrNull
  BY <1>4 DEF var_type, TypeOrNull, Types, Literals
<1> HIDE DEF s, type
<1>10. /\ s \in Checkers /\ s.scopes # <<>> /\ s.region = t.region /\ e.t.errors \subseteq s.errors
  BY <1>6, <1>8 DEF Keeps, SameRegions
<1>11. Binds(s, d, n, type) /\ (x # n => d.memory[x] = s.memory[x])
  BY <1>9, <1>10, DeclareBinds, NameMemory
<1> HIDE DEF d
<1>12. d \in Checkers /\ d.region = t.region /\ e.t.errors \subseteq d.errors
  BY <1>10, <1>11 DEF Binds, SameRegions
<1>13. /\ Keeps(d, m) /\ m.memory[n].state # "none" /\ m.memory[n].region = t.region
       /\ x # n => m.memory[x] = d.memory[x]
  BY <1>12, MemoryKeeps, RecordMemory
<1> HIDE DEF m
<1>14. m \in Checkers /\ e.t.errors \subseteq m.errors
  BY <1>12, <1>13 DEF Keeps, SameRegions
<1>15. /\ MemoryKept(m, u, x) /\ MemoryKept(m, u, n) /\ m.errors \subseteq u.errors
  <2>1. MemoryKept(m, m, x) /\ MemoryKept(m, m, n)
    BY MemoryKeptSame
  <2>2. /\ MemoryKept(m, mark_variable_initialized(m, n), x)
        /\ MemoryKept(m, mark_variable_initialized(m, n), n)
        /\ m.errors \subseteq mark_variable_initialized(m, n).errors
    BY <1>14, RecordMemory, MemoryKeeps DEF Keeps, SameRegions
  <2> QED
    BY <2>1, <2>2
<1> HIDE DEF u
<1>16. u.memory[n].state # "none" /\ u.memory[n].region = t.region
  BY <1>13, <1>15 DEF MemoryKept
<1>17. ASSUME x # n PROVE MemoryKept(r.t, u, x)
  <2>1. m.memory[x] = r.t.memory[x]
    BY <1>8, <1>11, <1>13, <1>17
  <2> QED
    BY <1>15, <2>1, MemoryKeptSame, MemoryKeptTrans
<1>18. x # n => MemoryKept(t, u, x)
  BY <1>1, <1>5, <1>17, MemoryKeptSame, MemoryKeptTrans
<1>19. x # n /\ v = x /\ lookup_variable(t, x) \notin Copyable /\ t.memory[x].state # "none"
       => u.memory[x].state = "moved"
  BY <1>1, <1>5, <1>7, <1>17 DEF MemoryKept
<1>20. v = x => UseFound(t, u, x)
  BY <1>1, <1>14, <1>15, UseFoundLater
<1> QED
  BY <1>3, <1>16, <1>18, <1>19, <1>20

\* Scopes and regions that open.
LEMMA OpenMemory ==
    ASSUME NEW t \in Checkers
    PROVE  /\ enter_scope(t).memory = t.memory
           /\ enter_memory_region(t).memory = t.memory
           /\ begin_block(t).memory = t.memory
<1> DEFINE u == enter_scope(t)
<1>1. u \in Checkers /\ u.memory = t.memory
  BY ScopeNests DEF Nested
<1>2. \A w \in Checkers : enter_memory_region(w).memory = w.memory
  BY DEF enter_memory_region, Checkers
<1>3. begin_block(t) = enter_memory_region(u)
  BY DEF begin_block
<1> HIDE DEF u
<1> QED
  BY <1>1, <1>2, <1>3 DEF u

\* A region that closes keeps what belongs to the regions around the one it
\* returns to.
LEMMA CloseMemory ==
    ASSUME NEW t \in Checkers, Numbered(t), t.region > 0
    PROVE  LET u == exit_memory_region(t)
           IN  /\ u \in Checkers /\ Numbered(u) /\ u.region = t.region - 1 /\ u.scopes = t.scopes
               /\ \A x \in Names : t.memory[x].region # u.region => u.memory[x] = t.memory[x]
<1> DEFINE depth == Len(t.region_stack)
           w == [t EXCEPT !.region = t.region_stack[depth],
                          !.region_stack = SubSeq(@, 1, depth - 1),
                          !.generation = IF @ > 0 THEN @ - 1 ELSE 0]
           s == IF depth = 0 THEN t ELSE w
           M == [n \in Names |-> IF s.memory[n].region = s.region THEN NoInfo ELSE s.memory[n]]
           u == exit_memory_region(t)
<1>1. Deeper(t, u, t.scopes, 0, -1, t.return_type) /\ t.region \in Nat
  BY RegionDeeper DEF Checkers
<1>2. u = [s EXCEPT !.memory = M]
  BY DEF exit_memory_region
<1> HIDE DEF u
<1>3. w.memory = t.memory /\ DOMAIN w = DOMAIN t
  BY DEF Checkers
<1> HIDE DEF w
<1>4. s.memory = t.memory /\ DOMAIN s = DOMAIN t
  BY <1>3
<1> HIDE DEF s
<1>5. u.memory = M /\ u.region = s.region
  BY <1>2, <1>4 DEF Checkers
<1>6. \A x \in Names : t.memory[x].region # u.region => u.memory[x] = t.memory[x]
  BY <1>4, <1>5
<1>7. u \in Checkers /\ Numbered(u) /\ u.region = t.region - 1 /\ u.scopes = t.scopes
  BY <1>1 DEF Deeper
<1> QED
  BY <1>6, <1>7 DEF u

(***************************************************************************)
(* What each step of the type checker does to the record of the variable x. *)
(***************************************************************************)
\* token t declares x and records it
Records(t, x) ==
    t.n = x /\ (t.k \in {"var", "for", "fn"} \/ (t.k = "assign" /\ lookup_variable(tc, x) = Null))

MemoryStep(t) ==
    /\ src' = Append(src, t) /\ t.up = Inner(open) /\ t.f \notin Vars
    /\ \A x \in Vars :
          /\ Records(t, x) =>
                /\ tc'.memory[x].state # "none"
                /\ tc'.memory[x].region = IF t.k = "fn" THEN tc'.region - 1 ELSE tc.region
          /\ ~Records(t, x) /\ (t.k = "end" => tc.memory[x].region < tc'.region)
             => MemoryKept(tc, tc', x)
          /\ t.v = x /\ ~tc.references[x].is => t.ty = lookup_variable(tc, x)
          /\ t.v = x => UseFound(tc, tc', x)
          /\ /\ t.k \in {"var", "for"} /\ t.v = x /\ t.n # x
             /\ lookup_variable(tc, x) \notin Copyable /\ tc.memory[x].state # "none"
             => tc'.memory[x].state = "moved"

\* What Met says.
LEMMA MetToken ==
    ASSUME TypesOK, NEW k, NEW n, NEW a, NEW v \in Literals \cup Names \cup {Null},
           NEW f \in Fns \cup {NoName}, NEW ret
    PROVE  LET t == Met(k, n, a, v, f, ret)
           IN  /\ t.k = k /\ t.n = n /\ t.v = v /\ t.up = Inner(open) /\ t.f = f /\ t.f \notin Vars
               /\ \A x \in Vars : /\ x \in Names /\ x # NoName /\ x # Null
                                  /\ t.v = x /\ ~tc.references[x].is => t.ty = lookup_variable(tc, x)
<1> DEFINE t == Met(k, n, a, v, f, ret)
<1>1. /\ t.k = k /\ t.n = n /\ t.v = v /\ t.up = Inner(open) /\ t.f = f
      /\ v \in Names => t.ty = check_variable_expr(tc, v).type
  BY DEF Met, Inner, Innermost
<1>2. f \notin Vars /\ \A x \in Vars : x \in Names /\ x # NoName /\ x # Null
  BY NamesAssumption DEF Names
<1>3. Shaped(tc)
  BY CheckersShaped DEF TypesOK
<1> HIDE DEF t
<1> QED
  BY <1>1, <1>2, <1>3, VariableReads DEF t

\* a step that records nothing and moves nothing
LEMMA IdleStep ==
    ASSUME NEW t, src' = Append(src, t), t.up = Inner(open), t.f \notin Vars,
           t.k \notin {"var", "for", "fn", "end"},
           \A x \in Vars : t.v = x /\ ~tc.references[x].is => t.ty = lookup_variable(tc, x),
           \A x \in Vars : t.k = "assign" /\ t.n = x => lookup_variable(tc, x) # Null,
           \A x \in Vars : tc'.memory[x] = tc.memory[x],
           \A x \in Vars : t.v = x => UseFound(tc, tc', x)
    PROVE  MemoryStep(t)
  BY MemoryKeptSame DEF MemoryStep, Records

LEMMA VarMemoryStep ==
    ASSUME StructureInv, check_var_declaration
    PROVE  \E t : MemoryStep(t)
<1>0. TypesOK /\ tc \in Checkers /\ Len(src) \in Nat /\ tc.scopes # <<>>
  BY StructureFacts DEF StructureInv, TypesOK
<1>1. PICK n \in Vars, a \in Literals \cup {Null}, v \in Literals \cup Names \cup {Null} :
         Meets(Token("var", n, a, v)) /\ tc' = declare_var(tc, n, a, v)
  BY DEF check_var_declaration
<1> DEFINE t == Met("var", n, a, v, NoName, Null)
<1>2. src' = Append(src, t)
  BY <1>0, <1>1, Tokens DEF TokenKinds, TypeOrNull
<1>3. /\ t.k = "var" /\ t.n = n /\ t.v = v /\ t.up = Inner(open) /\ t.f \notin Vars
      /\ \A x \in Vars : /\ x \in Names
                         /\ t.v = x /\ ~tc.references[x].is => t.ty = lookup_variable(tc, x)
  BY <1>0, MetToken
<1> HIDE DEF t
<1>4. \A x \in Vars :
         /\ tc'.memory[n].state # "none" /\ tc'.memory[n].region = tc.region
         /\ x # n => MemoryKept(tc, tc', x)
         /\ x # n /\ v = x /\ lookup_variable(tc, x) \notin Copyable
            /\ tc.memory[x].state # "none" => tc'.memory[x].state = "moved"
         /\ v = x => UseFound(tc, tc', x)
  <2>1. n \in Names
    BY DEF Names
  <2> TAKE x \in Vars
  <2>2. x \in Names
    BY DEF Names
  <2>3. tc' = declare_var(tc, n, a, v)
    BY <1>1
  <2> QED
    BY <1>0, <2>1, <2>2, <2>3, VarMemory
<1>5. MemoryStep(t)
  BY <1>2, <1>3, <1>4 DEF MemoryStep, Records
<1> QED
  BY <1>5

LEMMA ForMemoryStep ==
    ASSUME StructureInv, check_for_statement
    PROVE  \E t : MemoryStep(t)
<1>0. TypesOK /\ tc \in Checkers /\ Len(src) \in Nat
  BY StructureFacts DEF StructureInv, TypesOK
<1>1. PICK n \in Vars, v \in Literals \cup Names :
         /\ Opens(Token("for", n, Null, v))
         /\ tc' = begin_block(declare_var(enter_scope(tc), n, Null, v))
  BY DEF check_for_statement
<1> DEFINE t == Met("for", n, Null, v, NoName, Null)
           u == enter_scope(tc)
           d == declare_var(u, n, Null, v)
<1>2. src' = Append(src, t)
  BY <1>0, <1>1, Tokens DEF TokenKinds, TypeOrNull, Opens, Openers, Binders
<1>3. /\ t.k = "for" /\ t.n = n /\ t.v = v /\ t.up = Inner(open) /\ t.f \notin Vars
      /\ n \in Names
      /\ \A x \in Vars : /\ x \in Names
                         /\ t.v = x /\ ~tc.references[x].is => t.ty = lookup_variable(tc, x)
  BY <1>0, MetToken DEF Names
<1> HIDE DEF t
<1>4. /\ u \in Checkers /\ u.memory = tc.memory /\ u.region = tc.region
      /\ u.references = tc.references /\ u.scopes = Append(tc.scopes, EmptyScope)
  BY <1>0, ScopeNests DEF Nested
<1>5. u.scopes # <<>> /\ \A x \in Names : lookup_variable(u, x) = lookup_variable(tc, x)
  <2>1. tc.scopes \in Seq(Scopes) /\ EmptyScope \in Scopes
    BY <1>0 DEF Checkers, EmptyScope, Scopes
  <2> HIDE DEF u, EmptyScope
  <2> QED
    BY <1>0, <1>4, <2>1, LookupEmpty
<1> HIDE DEF u
<1>6. \A x \in Vars :
         /\ d.memory[n].state # "none" /\ d.memory[n].region = u.region
         /\ x # n => MemoryKept(u, d, x)
         /\ x # n /\ v = x /\ lookup_variable(u, x) \notin Copyable
            /\ u.memory[x].state # "none" => d.memory[x].state = "moved"
         /\ v = x => UseFound(u, d, x)
  <2> TAKE x \in Vars
  <2>1. x \in Names /\ Null \in Literals \cup {Null} /\ v \in Literals \cup Names \cup {Null}
    BY DEF Names
  <2>2. u \in Checkers /\ u.scopes # <<>> /\ n \in Names /\ Len(src) \in Nat
    BY <1>0, <1>3, <1>4, <1>5
  <2> QED
    BY <2>1, <2>2, VarMemory
<1>7. d \in Checkers
  <2>1. Binds(u, d, n, var_type(Null, ValueType(u, v)))
    BY <1>0, <1>3, <1>4, <1>5, VarBinds
  <2> QED
    BY <2>1 DEF Binds
<1>8. tc' = begin_block(d)
  BY <1>1 DEF u
<1> HIDE DEF d
<1>9. tc'.memory = d.memory /\ d.errors \subseteq tc'.errors
  BY <1>7, <1>8, OpenMemory, BlockDeeper DEF Deeper
<1>10. \A x \in Vars :
         /\ tc'.memory[n].state # "none" /\ tc'.memory[n].region = tc.region
         /\ x # n => MemoryKept(tc, tc', x)
         /\ x # n /\ v = x /\ lookup_variable(tc, x) \notin Copyable
            /\ tc.memory[x].state # "none" => tc'.memory[x].state = "moved"
  BY <1>3, <1>4, <1>5, <1>6, <1>9 DEF MemoryKept
<1>11. \A x \in Vars : v = x => UseFound(tc, tc', x)
  BY <1>3, <1>4, <1>5, <1>6, <1>9 DEF UseFound
<1>12. MemoryStep(t)
  BY <1>2, <1>3, <1>10, <1>11 DEF MemoryStep, Records
<1> QED
  BY <1>12

\* assign_declared changes no record of memory.
LEMMA DeclaredMemory ==
    ASSUME NEW r, r.t \in Checkers, NEW expected, NEW n \in Names, NEW v \in Literals \cup Names,
           Len(src) \in Nat
    PROVE  LET u == assign_declared(r, expected, n, v)
           IN  u.memory = r.t.memory /\ r.t.errors \subseteq u.errors
<1> DEFINE s == IF is_type_compatible(expected, r.type) THEN r.t ELSE add_error(r.t, "type mismatch")
           moved == move_linear_type(s, v)
           u == assign_declared(r, expected, n, v)
<1>1. s \in Checkers /\ s.memory = r.t.memory
  <2>1. "type mismatch" \in Messages
    BY DEF Messages
  <2> QED
    BY <2>1, ErrorKeeps, SameMemory DEF Keeps
<1>2. u = IF v \in Literals THEN s
          ELSE IF lookup_variable(s, v) # "Function" /\ s.linear[v].is
          THEN [moved EXCEPT !.linear[n] = Linear(moved.linear[v].generation)]
          ELSE create_reference(s, v, n)
  BY DEF assign_declared
<1>3. r.t.errors \subseteq u.errors
  <2>1. Keeps(r.t, r.t)
    BY KeepsSelf
  <2> QED
    BY <2>1, AssignKeeps DEF Keeps, SameRegions
<1> HIDE DEF s, u
<1>4. CASE v \in Literals
  BY <1>1, <1>2, <1>3, <1>4 DEF u
<1>5. CASE v \in Names
  <2>0. v \notin Literals
    BY <1>5, NamesAssumption
  <2>1. moved.memory = s.memory /\ moved \in Checkers
    <3> DEFINE next == s.linear[v].generation + 1
               stale == {y \in s.linear[v].references : s.references[y].is
                                                      /\ s.references[y].generation # next}
               e == IF stale = {} THEN s ELSE add_error(s, "reference invalidated")
               L == [is |-> TRUE, moved |-> TRUE, generation |-> next, references |-> {}]
               R == [y \in Names |-> IF y \in stale THEN [e.references[y] EXCEPT !.valid = FALSE]
                                     ELSE e.references[y]]
    <3>1. moved = IF s.linear[v].moved THEN add_error(s, "double move")
                  ELSE [e EXCEPT !.linear[v] = L, !.references = R]
      BY DEF move_linear_type
    <3>2. e \in Checkers /\ e.memory = s.memory
      <4>1. "reference invalidated" \in Messages
        BY DEF Messages
      <4> HIDE DEF stale
      <4> QED
        BY <1>1, <4>1, ErrorKeeps, SameMemory DEF Keeps
    <3> HIDE DEF e, L, R
    <3>3. [e EXCEPT !.linear[v] = L, !.references = R].memory = e.memory
      BY <3>2 DEF Checkers
    <3> DEFINE y == add_error(s, "double move")
               z == [e EXCEPT !.linear[v] = L, !.references = R]
    <3>4. moved.memory = s.memory
      <4>1. y.memory = s.memory
        BY <1>1, <1>5, SameMemory
      <4>2. moved = IF s.linear[v].moved THEN y ELSE z
        BY <3>1
      <4>3. z.memory = s.memory
        BY <3>2, <3>3
      <4> HIDE DEF y, z, moved
      <4> QED
        BY <4>1, <4>2, <4>3
    <3>5. moved \in Checkers
      BY <1>1, <1>5, LinearKeeps DEF Keeps
    <3> QED
      BY <3>4, <3>5
  <2>2. create_reference(s, v, n).memory = s.memory
    <3> DEFINE R == [is |-> TRUE, target |-> v, valid |-> TRUE, generation |-> s.linear[v].generation]
               w == [s EXCEPT !.references[n] = R, !.linear[v].references = @ \cup {n}]
    <3>1. create_reference(s, v, n) =
             CASE ~s.linear[v].is -> s
               [] s.linear[v].is /\ s.linear[v].moved -> add_error(s, "reference to moved linear type")
               [] OTHER -> w
      BY DEF create_reference
    <3>2. w.memory = s.memory
      BY <1>1 DEF Checkers
    <3>3. add_error(s, "reference to moved linear type").memory = s.memory
      BY <1>1, SameMemory
    <3> HIDE DEF w
    <3>4. CASE ~s.linear[v].is
      BY <3>1, <3>4
    <3>5. CASE s.linear[v].is /\ s.linear[v].moved
      BY <3>1, <3>3, <3>5
    <3>6. CASE s.linear[v].is /\ ~s.linear[v].moved
      BY <3>1, <3>2, <3>6
    <3> QED
      BY <3>4, <3>5, <3>6
  <2> DEFINE g == Linear(moved.linear[v].generation)
  <2> HIDE DEF moved, g
  <2>3. [moved EXCEPT !.linear[n] = g].memory = moved.memory
    BY <2>1 DEF Checkers
  <2> QED
    BY <1>1, <1>2, <1>3, <2>0, <2>1, <2>2, <2>3 DEF u, g
<1> QED
  BY <1>4, <1>5

LEMMA AssignMemoryStep ==
    ASSUME StructureInv, check_assign_statement
    PROVE  \E t : MemoryStep(t)
<1>0. TypesOK /\ tc \in Checkers /\ Len(src) \in Nat /\ tc.scopes # <<>>
  BY StructureFacts DEF StructureInv, TypesOK
<1>1. PICK n \in Vars, v \in Literals \cup Names :
         /\ Meets(Token("assign", n, Null, v))
         /\ LET r == check_expression(tc, v)
            IN  IF Crashes(lookup_variable(r.t, n), r.type)
                THEN tc' = r.t /\ phase' = "crashed"
                ELSE tc' = check_assign_expr(tc, n, v) /\ Goes
  BY DEF check_assign_statement
<1> DEFINE t == Met("assign", n, Null, v, NoName, Null)
           r == check_expression(tc, v)
<1>2. src' = Append(src, t)
  BY <1>0, <1>1, Tokens DEF TokenKinds, TypeOrNull
<1>3. /\ t.k = "assign" /\ t.n = n /\ t.v = v /\ t.up = Inner(open) /\ t.f \notin Vars
      /\ n \in Names
      /\ \A x \in Vars : /\ x \in Names
                         /\ t.v = x /\ ~tc.references[x].is => t.ty = lookup_variable(tc, x)
  BY <1>0, MetToken DEF Names
<1>4. Keeps(tc, r.t) /\ r.type \in TypeOrNull
  BY <1>0, ExpressionKeeps
<1>5. r.t.memory = tc.memory /\ \A x \in Vars : v = x => UseFound(tc, r.t, x)
  BY <1>0, <1>3, ExpressionMemory
<1> HIDE DEF t, r
<1>6. r.t \in Checkers /\ r.t.region = tc.region /\ lookup_variable(r.t, n) = lookup_variable(tc, n)
  <2>1. r.t \in Checkers /\ r.t.scopes = tc.scopes /\ r.t.region = tc.region
    BY <1>4 DEF Keeps, SameRegions
  <2> QED
    BY <1>0, <1>3, <2>1, LookupFacts
<1>7. CASE Crashes(lookup_variable(r.t, n), r.type)
  <2>1. tc' = r.t /\ lookup_variable(tc, n) # Null
    BY <1>1, <1>6, <1>7 DEF Crashes, r
  <2>2. MemoryStep(t)
    BY <1>2, <1>3, <1>5, <2>1, IdleStep
  <2> QED
    BY <2>2
<1>8. CASE ~Crashes(lookup_variable(r.t, n), r.type) /\ lookup_variable(tc, n) # Null
  <2>1. tc' = assign_declared(r, lookup_variable(r.t, n), n, v)
    BY <1>1, <1>6, <1>8 DEF check_assign_expr, r
  <2>2. tc'.memory = tc.memory /\ r.t.errors \subseteq tc'.errors
    BY <1>0, <1>3, <1>5, <1>6, <2>1, DeclaredMemory
  <2>3. \A x \in Vars : v = x => UseFound(tc, tc', x)
    BY <1>5, <2>2, UseFoundLater
  <2>4. MemoryStep(t)
    BY <1>2, <1>3, <1>8, <2>2, <2>3, IdleStep
  <2> QED
    BY <2>4
<1>9. CASE ~Crashes(lookup_variable(r.t, n), r.type) /\ lookup_variable(tc, n) = Null
  <2> DEFINE d == declare_variable(r.t, n, r.type)
             s == declare_variable_memory(d, n)
  <2>1. tc' = [s EXCEPT !.linear[n] = Linear(0)]
    BY <1>1, <1>6, <1>9 DEF check_assign_expr, assign_undeclared, r
  <2>2. Binds(r.t, d, n, r.type) /\ \A x \in Names : x # n => d.memory[x] = r.t.memory[x]
    <3>1. r.t.scopes # <<>>
      BY <1>0, <1>4 DEF Keeps
    <3> QED
      BY <1>0, <1>3, <1>4, <1>6, <3>1, DeclareBinds, NameMemory
  <2> HIDE DEF d
  <2>3. d \in Checkers /\ d.region = tc.region /\ r.t.errors \subseteq d.errors
    BY <1>6, <2>2 DEF Binds, SameRegions
  <2>4. /\ s \in Checkers /\ s.memory[n].state # "none" /\ s.memory[n].region = tc.region
        /\ r.t.errors \subseteq s.errors
        /\ \A x \in Names : x # n => s.memory[x] = d.memory[x]
    <3>1. Keeps(d, s)
      BY <1>3, <2>3, MemoryKeeps
    <3>2. /\ s.memory[n].state # "none" /\ s.memory[n].region = d.region
          /\ \A x \in Names : x # n => s.memory[x] = d.memory[x]
      BY <1>3, <2>3, RecordMemory
    <3> HIDE DEF s
    <3> QED
      BY <2>3, <3>1, <3>2 DEF Keeps, SameRegions
  <2> DEFINE g == Linear(0)
  <2> HIDE DEF s, g
  <2>5. tc'.memory = s.memory /\ tc'.errors = s.errors
    <3>1. tc' = [s EXCEPT !.linear[n] = g]
      BY <2>1 DEF g
    <3> QED
      BY <2>4, <3>1 DEF Checkers
  <2>6. \A x \in Vars : x # n => MemoryKept(tc, tc', x)
    BY <1>3, <1>5, <2>2, <2>4, <2>5, MemoryKeptSame
  <2>7. \A x \in Vars : v = x => UseFound(tc, tc', x)
    BY <1>5, <2>4, <2>5, UseFoundLater
  <2>8. MemoryStep(t)
    BY <1>2, <1>3, <1>9, <2>4, <2>5, <2>6, <2>7 DEF MemoryStep, Records
  <2> QED
    BY <2>8
<1> QED
  BY <1>7, <1>8, <1>9

\* Statements that read a variable.
LEMMA ExprMemoryStep ==
    ASSUME StructureInv, check_expr_statement \/ check_return_statement
    PROVE  \E t : MemoryStep(t)
<1>0. TypesOK /\ tc \in Checkers /\ Len(src) \in Nat
  BY StructureFacts DEF StructureInv
<1>1. PICK k \in {"expr", "print", "return"}, v \in Literals \cup Names :
         /\ Meets(Token(k, NoName, Null, v))
         /\ LET r == check_expression(tc, v)
            IN  tc' \in {r.t, add_error(r.t, "type mismatch")}
  <2>1. CASE check_expr_statement
    <3>1. PICK k \in {"expr", "print"}, v \in Names :
             Meets(Token(k, NoName, Null, v)) /\ tc' = check_variable_expr(tc, v).t
      BY <2>1 DEF check_expr_statement
    <3>2. v \notin Literals
      BY NamesAssumption
    <3>3. tc' = check_expression(tc, v).t
      BY <3>1, <3>2 DEF check_expression
    <3> QED
      BY <3>1, <3>3
  <2>2. CASE check_return_statement
    BY <2>2 DEF check_return_statement
  <2> QED
    BY <2>1, <2>2
<1> DEFINE t == Met(k, NoName, Null, v, NoName, Null)
           r == check_expression(tc, v)
<1>2. src' = Append(src, t)
  BY <1>0, <1>1, Tokens DEF TokenKinds, TypeOrNull
<1>3. /\ t.k = k /\ t.v = v /\ t.up = Inner(open) /\ t.f \notin Vars
      /\ \A x \in Vars : /\ x \in Names
                         /\ t.v = x /\ ~tc.references[x].is => t.ty = lookup_variable(tc, x)
  BY <1>0, MetToken
<1>4. r.t.memory = tc.memory /\ \A x \in Vars : v = x => UseFound(tc, r.t, x)
  BY <1>0, <1>3, ExpressionMemory
<1>5. r.t \in Checkers
  BY <1>0, ExpressionKeeps DEF Keeps
<1>6. tc' \in {r.t, add_error(r.t, "type mismatch")}
  BY <1>1
<1> HIDE DEF t, r
<1>7. tc'.memory = r.t.memory /\ r.t.errors \subseteq tc'.errors
  <2>1. "type mismatch" \in Messages
    BY DEF Messages
  <2>2. /\ add_error(r.t, "type mismatch").memory = r.t.memory
        /\ r.t.errors \subseteq add_error(r.t, "type mismatch").errors
    <3>1. Keeps(r.t, add_error(r.t, "type mismatch"))
      BY <1>0, <1>5, <2>1, ErrorKeeps
    <3>2. add_error(r.t, "type mismatch").memory = r.t.memory
      BY <1>5 DEF add_error, Checkers
    <3> QED
      BY <3>1, <3>2 DEF Keeps, SameRegions
  <2> QED
    BY <1>6, <2>2
<1>8. \A x \in Vars : v = x => UseFound(tc, tc', x)
  BY <1>4, <1>7, UseFoundLater
<1>9. MemoryStep(t)
  BY <1>2, <1>3, <1>4, <1>7, <1>8, IdleStep
<1> QED
  BY <1>9

\* Statements with a body that record nothing.
LEMMA OpenMemoryStep ==
    ASSUME StructureInv,
           check_block_statement \/ check_parallel_statement \/ check_concurrent_statement
           \/ check_task_statement \/ check_worker_statement \/ check_frame_method
    PROVE  \E t : MemoryStep(t)
<1>0. TypesOK /\ tc \in Checkers /\ Len(src) \in Nat
  BY StructureFacts DEF StructureInv
<1> DEFINE e == enter_scope(tc)
<1>1. e \in Checkers /\ e.memory = tc.memory /\ e.scopes = Append(tc.scopes, EmptyScope)
  BY <1>0, ScopeNests DEF Nested
<1>2. e.scopes # <<>>
  <2>1. tc.scopes \in Seq(Scopes) /\ EmptyScope \in Scopes
    BY <1>0 DEF Checkers, EmptyScope, Scopes
  <2> HIDE DEF e, EmptyScope
  <2> QED
    BY <1>1, <2>1
<1>3. PICK k \in Openers \ {"for", "fn"}, n \in Vars \cup {NoName}, a \in Literals \cup {Null},
          type \in {"Channel", "Int", "Any"} \cup Literals :
         /\ Opens(Token(k, n, a, Null))
         /\ \/ tc' = begin_block(tc) \/ tc' = begin_block(e)
            \/ n \in Vars /\ tc' = begin_block(declare_variable(e, n, type))
  <2>1. CASE check_block_statement \/ check_parallel_statement
    <3>1. PICK k \in {"block", "if", "while", "parallel"} :
             Opens(Token(k, NoName, Null, Null)) /\ tc' \in {begin_block(tc), begin_block(e)}
      BY <2>1 DEF check_block_statement, check_parallel_statement
    <3> HIDE DEF e
    <3> QED
      BY <3>1 DEF Openers
  <2>2. CASE check_concurrent_statement \/ check_task_statement \/ check_worker_statement
             \/ check_frame_method
    <3>1. PICK k \in {"concurrent", "task", "worker", "method"}, n \in Vars,
               a \in Literals \cup {Null}, type \in {"Channel", "Int", "Any"} \cup Literals :
             Opens(Token(k, n, a, Null)) /\ tc' = binds(tc, n, type)
      BY <2>2 DEF check_concurrent_statement, check_task_statement, check_worker_statement,
         check_frame_method
    <3>2. tc' = begin_block(declare_variable(e, n, type))
      BY <3>1 DEF binds
    <3> HIDE DEF e
    <3> QED
      BY <3>1, <3>2 DEF Openers, Binders
  <2> QED
    BY <2>1, <2>2
<1> DEFINE t == Met(k, n, a, Null, NoName, Null)
           d == declare_variable(e, n, type)
<1>4. src' = Append(src, t)
  BY <1>0, <1>3, Tokens DEF TokenKinds, TypeOrNull, Opens
<1>5. /\ t.k = k /\ t.v = Null /\ t.up = Inner(open) /\ t.f \notin Vars
      /\ \A x \in Vars : x \in Names /\ x # Null
  BY <1>0, MetToken
<1> HIDE DEF t, e
<1>6. n \in Vars => d \in Checkers /\ \A x \in Names : d.memory[x] = tc.memory[x]
  <2>1. type \in TypeOrNull /\ type # "Function"
    BY DEF TypeOrNull, Types, Literals
  <2>2. n \in Vars => n \in Names
    BY DEF Names
  <2>3. n \in Vars => d \in Checkers
    BY <1>0, <1>1, <1>2, <2>1, <2>2, DeclareBinds DEF Binds
  <2>4. n \in Vars => \A x \in Names : d.memory[x] = e.memory[x]
    BY <1>0, <1>1, <2>1, <2>2, NameMemory
  <2> QED
    BY <1>1, <2>3, <2>4
<1> HIDE DEF d
<1>7. \A x \in Vars : tc'.memory[x] = tc.memory[x]
  <2>1. CASE tc' = begin_block(tc) \/ tc' = begin_block(e)
    BY <1>0, <1>1, <2>1, OpenMemory
  <2>2. CASE n \in Vars /\ tc' = begin_block(d)
    BY <1>5, <1>6, <2>2, OpenMemory
  <2> QED
    BY <1>3, <2>1, <2>2 DEF d
<1>8. t.k \notin {"var", "for", "fn", "end", "assign"}
  BY <1>5 DEF Openers, Binders
<1>9. MemoryStep(t)
  BY <1>4, <1>5, <1>7, <1>8, IdleStep
<1> QED
  BY <1>9

\* The parameter of a function lives in the region around its block.
LEMMA FunctionMemoryStep ==
    ASSUME StructureInv, check_function_declaration
    PROVE  \E t : MemoryStep(t)
<1>0. TypesOK /\ tc \in Checkers /\ Len(src) \in Nat /\ tc.scopes # <<>> /\ Numbered(tc)
  BY StructureFacts DEF StructureInv, TypesOK, Balanced
<1>1. PICK f \in Fns, n \in Vars, a \in {"Any", "List"}, ret \in {"Any", "Int"} :
        /\ Opens([Token("fn", n, a, Null) EXCEPT !.f = f, !.ret = ret])
        /\ LET t == declare_variable(enter_memory_region(tc), f, "Function")
               s == [enter_scope(t) EXCEPT !.return_type = ret]
               u == declare_variable_memory(declare_variable(s, n, a), n)
           IN  tc' = begin_block(mark_variable_initialized(u, n))
  BY DEF check_function_declaration
<1> DEFINE m == enter_memory_region(tc)
           b == declare_variable(m, f, "Function")
           e == enter_scope(b)
           s == [e EXCEPT !.return_type = ret]
           d == declare_variable(s, n, a)
           u == declare_variable_memory(d, n)
           w == mark_variable_initialized(u, n)
           t == Met("fn", n, a, Null, f, ret)
<1>2. src' = Append(src, t)
  <2>1. a \in Literals \cup {Null, "Any"} /\ ret \in TypeOrNull /\ "fn" \in TokenKinds
    BY DEF Literals, TypeOrNull, Types, TokenKinds, Openers
  <2> QED
    BY <1>0, <1>1, <2>1, Tokens DEF Opens
<1>3. /\ t.k = "fn" /\ t.n = n /\ t.v = Null /\ t.up = Inner(open) /\ t.f \notin Vars
      /\ \A x \in Vars : x \in Names /\ x # Null
  BY <1>0, MetToken
<1>4. tc' = begin_block(w)
  BY <1>1
<1>5. /\ "Function" \in TypeOrNull /\ a \in TypeOrNull /\ a # "Function" /\ ret \in TypeOrNull
      /\ f \in Names /\ n \in Names /\ \A x \in Vars : x # f
  BY NamesAssumption DEF TypeOrNull, Types, Names
<1> HIDE DEF t
<1>6. m \in Checkers /\ m.scopes = tc.scopes /\ m.memory = tc.memory /\ m.region = tc.region + 1
  BY <1>0, RegionDeeper, OpenMemory DEF Deeper
<1> HIDE DEF m
<1>7. b \in Checkers /\ b.region = m.region /\ b.scopes # <<>>
  <2>1. Binds(m, b, f, "Function")
    BY <1>0, <1>5, <1>6, DeclareBinds
  <2>2. Len(b.scopes) = Len(m.scopes) /\ tc.scopes \in Seq(Scopes)
    BY <1>0, <2>1 DEF Binds, Bind, Checkers
  <2> QED
    BY <1>0, <1>6, <2>1, <2>2 DEF Binds, SameRegions
<1>8. \A x \in Vars : b.memory[x] = m.memory[x]
  BY <1>0, <1>3, <1>5, <1>6, NameMemory
<1> HIDE DEF b
<1>9. e \in Checkers /\ e.region = b.region /\ e.memory = b.memory
      /\ e.scopes = Append(b.scopes, EmptyScope)
  BY <1>7, ScopeNests DEF Nested
<1>10. e.scopes # <<>>
  <2>1. b.scopes \in Seq(Scopes) /\ EmptyScope \in Scopes
    BY <1>7 DEF Checkers, EmptyScope, Scopes
  <2> HIDE DEF e, EmptyScope
  <2> QED
    BY <1>9, <2>1
<1> HIDE DEF e
<1>11. s \in Checkers /\ s.region = e.region /\ s.memory = e.memory /\ s.scopes = e.scopes
  BY <1>5, <1>9 DEF Checkers
<1> HIDE DEF s
<1>12. d \in Checkers /\ d.region = s.region
  BY <1>0, <1>5, <1>10, <1>11, DeclareBinds DEF Binds, SameRegions
<1>13. \A x \in Names : d.memory[x] = s.memory[x]
  BY <1>0, <1>5, <1>11, NameMemory
<1> HIDE DEF d
<1>14. u \in Checkers /\ u.region = d.region
  BY <1>0, <1>5, <1>12, MemoryKeeps DEF Keeps, SameRegions
<1>15. /\ u.memory[n].state # "none" /\ u.memory[n].region = d.region
       /\ \A x \in Names : x # n => u.memory[x] = d.memory[x]
  BY <1>5, <1>12, RecordMemory
<1> HIDE DEF u
<1>16. w \in Checkers /\ w.region = u.region
  BY <1>0, <1>5, <1>14, MemoryKeeps DEF Keeps, SameRegions
<1>17. /\ w.memory[n].state # "none" /\ w.memory[n].region = tc.region + 1
       /\ \A x \in Names : x # n => w.memory[x] = u.memory[x]
  <2>1. MemoryKept(u, w, n)
    BY <1>5, <1>14, RecordMemory
  <2>2. \A x \in Names : x # n => w.memory[x] = u.memory[x]
    BY <1>5, <1>14, RecordMemory
  <2> QED
    BY <1>6, <1>7, <1>9, <1>11, <1>12, <1>15, <2>1, <2>2 DEF MemoryKept
<1> HIDE DEF w
<1>18. tc'.memory = w.memory
  BY <1>4, <1>16, OpenMemory
<1>19. tc'.region = tc.region + 2
  <2>1. PICK f2 \in Fns, n2 \in Vars, a2 \in {"Any", "List"}, ret2 \in {"Any", "Int"} :
           Opened(Met("fn", n2, a2, Null, f2, ret2),
                  Bound(Bind(tc.scopes, f2, "Function"), n2, a2), 2, 2, ret2)
    BY <1>0, FunctionEffect
  <2> QED
    BY <1>0, <2>1 DEF Opened, Deeper
<1>20. /\ tc'.memory[n].state # "none"
       /\ tc'.memory[n].region = tc'.region - 1
  <2>1. tc.region \in Nat
    BY <1>0 DEF Checkers
  <2> QED
    BY <1>17, <1>18, <1>19, <2>1
<1>21. \A x \in Vars : x # n => MemoryKept(tc, tc', x)
  <2> TAKE x \in Vars
  <2> HAVE x # n
  <2>1. tc'.memory[x] = tc.memory[x]
    BY <1>3, <1>6, <1>8, <1>9, <1>11, <1>13, <1>15, <1>17, <1>18
  <2> QED
    BY <2>1, MemoryKeptSame
<1>22. MemoryStep(t)
  BY <1>2, <1>3, <1>20, <1>21 DEF MemoryStep, Records
<1> QED
  BY <1>22

\* The end of a statement: the regions that close are wiped out of the one they
\* return to.
LEMMA EndMemoryStep ==
    ASSUME StructureInv, end_statement
    PROVE  \E t : MemoryStep(t)
<1> DEFINE k == src[Innermost].k
           t == [Met("end", NoName, Null, Null, NoName, Null) EXCEPT !.up = Innermost]
           x == exit_scope(tc)
           b == end_block(tc)
           y == exit_scope(b)
           m == exit_memory_region(y)
<1>0. /\ tc \in Checkers /\ Numbered(tc) /\ tc.region \in Nat /\ Inner(open) = Innermost
      /\ TypesOK
  BY StructureFacts DEF StructureInv, Balanced
<1>1. /\ k \in Openers /\ Closed(k, Levels(k), RegionCount(k)) /\ src' = Append(src, t)
  BY EndStructure DEF Closed
<1>2. t.k = "end" /\ t.v = Null /\ t.up = Inner(open) /\ t.f = NoName /\ t.n = NoName
  BY <1>0 DEF Met
<1>3. \A z \in Vars : z \in Names /\ z # NoName /\ z # Null
  BY NamesAssumption DEF Names
<1>4. tc' = CASE k \in {"block", "if", "while"} -> b
              [] k = "fn" -> [m EXCEPT !.return_type = Null]
              [] OTHER -> y
  BY DEF end_statement, Innermost
<1> HIDE DEF t, k
<1>5. tc'.region = tc.region - RegionCount(k) /\ RegionCount(k) \in {1, 2} /\ tc'.region \in Nat
  <2>1. tc'.region = tc.region + (-RegionCount(k)) /\ tc' \in Checkers
    BY <1>0, <1>1 DEF Closed, Deeper
  <2> QED
    BY <1>0, <2>1 DEF RegionCount, Checkers
<1>6. x \in Checkers /\ Numbered(x) /\ x.region = tc.region /\ x.memory = tc.memory
  <2>1. Len(tc.scopes) > 1 \/ x = [tc EXCEPT !.level = tc.level - 1, !.scopes = tc.scopes]
    BY <1>0 DEF exit_scope, Checkers
  <2>2. CASE Len(tc.scopes) > 1
    BY <1>0, <2>2, ScopeNests DEF Nested, Numbered
  <2>3. CASE x = [tc EXCEPT !.level = tc.level - 1, !.scopes = tc.scopes]
    <3> HIDE DEF x
    <3>1. tc.level - 1 \in Int
      BY <1>0 DEF Checkers
    <3> QED
      BY <1>0, <2>3, <3>1 DEF Checkers, Numbered
  <2> QED
    BY <2>1, <2>2, <2>3
<1>7. b = exit_memory_region(x)
  BY DEF end_block
<1> HIDE DEF x, b
<1>8. /\ b \in Checkers /\ Numbered(b) /\ b.region = tc.region - 1
      /\ \A z \in Names : tc.memory[z].region # b.region => b.memory[z] = tc.memory[z]
  <2>1. x.region > 0
    BY <1>0, <1>5, <1>6
  <2> QED
    BY <1>6, <1>7, <2>1, CloseMemory
<1>9. y \in Checkers /\ Numbered(y) /\ y.region = b.region /\ y.memory = b.memory
  <2>1. Len(b.scopes) > 1 \/ y = [b EXCEPT !.level = b.level - 1, !.scopes = b.scopes]
    BY <1>8 DEF exit_scope, Checkers
  <2>2. CASE Len(b.scopes) > 1
    <3>1. b \in Checkers /\ Numbered(b)
      BY <1>8
    <3>2. Nested(b, y, SubSeq(b.scopes, 1, Len(b.scopes) - 1), -1)
      BY <2>2, <3>1, ScopeNests
    <3> HIDE DEF y
    <3> QED
      BY <3>1, <3>2 DEF Nested, Numbered
  <2>3. CASE y = [b EXCEPT !.level = b.level - 1, !.scopes = b.scopes]
    <3> HIDE DEF y
    <3>1. b.level - 1 \in Int
      BY <1>8 DEF Checkers
    <3> QED
      BY <1>8, <2>3, <3>1 DEF Checkers, Numbered
  <2> QED
    BY <2>1, <2>2, <2>3
<1> HIDE DEF y
<1>10. ASSUME NEW z \in Vars, tc.memory[z].region < tc'.region
       PROVE  tc'.memory[z] = tc.memory[z]
  <2>0. z \in Names /\ tc.memory[z].region \in Nat
    BY <1>0, <1>3, CheckersMemory
  <2>1. y.memory[z] = tc.memory[z]
    BY <1>0, <1>5, <1>8, <1>9, <1>10, <2>0
  <2>2. CASE k \in {"block", "if", "while"}
    BY <1>4, <1>9, <2>1, <2>2
  <2>3. CASE k = "fn"
    <3>1. RegionCount(k) = 2
      BY <2>3 DEF RegionCount
    <3>2. y.region > 0
      BY <1>0, <1>5, <1>8, <1>9, <3>1
    <3>3. /\ m \in Checkers /\ m.region = y.region - 1
          /\ y.memory[z].region # m.region => m.memory[z] = y.memory[z]
      BY <1>9, <2>0, <3>2, CloseMemory
    <3> HIDE DEF m
    <3>4. tc' = [m EXCEPT !.return_type = Null]
      BY <1>4, <2>3
    <3>5. tc'.memory = m.memory
      BY <3>3, <3>4 DEF Checkers
    <3>6. y.memory[z].region # m.region
      BY <1>0, <1>5, <1>8, <1>9, <1>10, <2>0, <2>1, <3>1, <3>3
    <3> QED
      BY <2>1, <3>3, <3>5, <3>6
  <2>4. CASE k \notin {"block", "if", "while", "fn"}
    BY <1>4, <2>1, <2>4
  <2> QED
    BY <2>2, <2>3, <2>4
<1>11. \A z \in Vars : tc.memory[z].region < tc'.region => MemoryKept(tc, tc', z)
  BY <1>10, MemoryKeptSame
<1>12. t.f \notin Vars
  BY <1>2, <1>3
<1>13. MemoryStep(t)
  BY <1>1, <1>2, <1>3, <1>11, <1>12 DEF MemoryStep, Records
<1> QED
  BY <1>13

LEMMA MemorySteps ==
    ASSUME StructureInv, TypesNext, ~finish_types
    PROVE  \E t : MemoryStep(t)
  BY VarMemoryStep, ForMemoryStep, AssignMemoryStep, ExprMemoryStep, OpenMemoryStep,
     FunctionMemoryStep, EndMemoryStep DEF TypesNext

(***************************************************************************)
(* RegionsOpen and RegionOf, of the program s.                              *)
(***************************************************************************)
OpenedAt(s, q) == {p \in 1..q : s[p].k \in Openers /\ ~Ended(s, p, q)}

FnsAt(s, q) == {p \in OpenedAt(s, q) : s[p].k = "fn"}

SRegions(s, q) == Cardinality(OpenedAt(s, q)) + Cardinality(FnsAt(s, q))

SRegionOf(s, p) == IF s[p].k = "fn" THEN SRegions(s, p) - 1 ELSE SRegions(s, p - 1)

LEMMA RegionsUnfold ==
    /\ \A q : RegionsOpen(q) = SRegions(src, q)
    /\ \A p : RegionOf(p) = SRegionOf(src, p)
<1>1. \A q : RegionsOpen(q) = SRegions(src, q)
  BY DEF RegionsOpen, SRegions, OpenedAt, FnsAt, EndedBy, Ended
<1> QED
  BY <1>1 DEF RegionOf, SRegionOf

LEMMA OpenedFinite ==
    ASSUME NEW s, NEW q \in Nat
    PROVE  /\ IsFiniteSet(OpenedAt(s, q)) /\ IsFiniteSet(FnsAt(s, q))
           /\ Cardinality(OpenedAt(s, q)) \in Nat /\ Cardinality(FnsAt(s, q)) \in Nat
           /\ SRegions(s, q) \in Nat
<1>1. IsFiniteSet(1..q) /\ OpenedAt(s, q) \in SUBSET (1..q)
  BY FS_Interval DEF OpenedAt
<1>2. IsFiniteSet(OpenedAt(s, q)) /\ FnsAt(s, q) \in SUBSET OpenedAt(s, q)
  BY <1>1, FS_Subset DEF FnsAt
<1>3. IsFiniteSet(FnsAt(s, q))
  BY <1>2, FS_Subset
<1>4. Cardinality(OpenedAt(s, q)) \in Nat /\ Cardinality(FnsAt(s, q)) \in Nat
  BY <1>2, <1>3, FS_CardinalityType
<1> QED
  BY <1>2, <1>3, <1>4 DEF SRegions

LEMMA RegionsGrow ==
    ASSUME NEW s, NEW p \in Nat, NEW q \in Nat, OpenedAt(s, p) \subseteq OpenedAt(s, q)
    PROVE  SRegions(s, p) <= SRegions(s, q)
<1>1. FnsAt(s, p) \in SUBSET FnsAt(s, q) /\ OpenedAt(s, p) \in SUBSET OpenedAt(s, q)
  BY DEF FnsAt
<1>2. /\ Cardinality(OpenedAt(s, p)) <= Cardinality(OpenedAt(s, q))
      /\ Cardinality(FnsAt(s, p)) <= Cardinality(FnsAt(s, q))
  BY <1>1, OpenedFinite, FS_Subset
<1> QED
  BY <1>2, OpenedFinite DEF SRegions

\* Later tokens do not change them.
LEMMA RegionsEarlier ==
    ASSUME NEW s \in Seq(TokenType), NEW t
    PROVE  /\ \A q \in 0..Len(s) : SRegions(Append(s, t), q) = SRegions(s, q)
           /\ \A p \in 1..Len(s) : SRegionOf(Append(s, t), p) = SRegionOf(s, p)
<1> DEFINE r == Append(s, t)
           m == Len(s)
<1>1. m \in Nat /\ \A p \in 1..m : r[p] = s[p]
  OBVIOUS
<1>2. \A q \in 0..m : \A p : Ended(r, p, q) <=> Ended(s, p, q)
  BY EndedAppend
<1> HIDE DEF r, m
<1>3. ASSUME NEW q \in 0..m PROVE SRegions(r, q) = SRegions(s, q)
  <2>1. \A p \in 1..q : p \in 1..m
    BY <1>1
  <2>2. OpenedAt(r, q) = OpenedAt(s, q)
    BY <1>1, <1>2, <2>1 DEF OpenedAt
  <2>3. FnsAt(r, q) = FnsAt(s, q)
    <3>1. \A p \in OpenedAt(s, q) : r[p] = s[p]
      BY <1>1, <2>1 DEF OpenedAt
    <3> QED
      BY <2>2, <3>1 DEF FnsAt
  <2> QED
    BY <2>2, <2>3 DEF SRegions
<1>4. ASSUME NEW p \in 1..m PROVE SRegionOf(r, p) = SRegionOf(s, p)
  <2>1. p \in 0..m /\ p - 1 \in 0..m
    BY <1>1
  <2> QED
    BY <1>1, <1>3, <2>1 DEF SRegionOf
<1> QED
  BY <1>3, <1>4 DEF r, m

\* As many elements as indexes.
LEMMA Indexed ==
    ASSUME NEW o \in Seq(Nat), \A i, j \in DOMAIN o : i < j => o[i] < o[j],
           NEW I \in SUBSET DOMAIN o, NEW P, P = {o[i] : i \in I}
    PROVE  Cardinality(P) = Cardinality(I)
<1> DEFINE f == [i \in I |-> o[i]]
<1>1. DOMAIN o = 1..Len(o) /\ Len(o) \in Nat /\ \A i \in DOMAIN o : o[i] \in Nat
  OBVIOUS
<1>2. IsFiniteSet(I)
  <2>1. IsFiniteSet(1..Len(o))
    BY <1>1, FS_Interval
  <2> QED
    BY <1>1, <2>1, FS_Subset
<1>3. ASSUME NEW i \in I, NEW j \in I, o[i] = o[j] PROVE i = j
  <2>1. i \in Nat /\ j \in Nat /\ i \in DOMAIN o /\ j \in DOMAIN o
    BY <1>1
  <2>2. CASE i < j
    <3>1. o[i] < o[j]
      BY <2>1, <2>2
    <3> QED
      BY <1>1, <1>3, <2>1, <3>1
  <2>3. CASE j < i
    <3>1. o[j] < o[i]
      BY <2>1, <2>3
    <3> QED
      BY <1>1, <1>3, <2>1, <3>1
  <2> QED
    BY <2>1, <2>2, <2>3
<1>4. f \in Bijection(I, P)
  BY <1>3 DEF Bijection, Injection, Surjection, IsInjective
<1>5. ExistsBijection(I, P)
  BY <1>4 DEF ExistsBijection
<1> QED
  BY <1>2, <1>5, FS_Bijection

\* The regions that are open are those of the type checker.
LEMMA RegionsNow ==
    ASSUME StructureInv
    PROVE  SRegions(src, Len(src)) = tc.region
<1> DEFINE m == Len(src)
           I == DOMAIN open
           F == {i \in DOMAIN open : src[open[i]].k \in {"fn"}}
<1>1. /\ m \in Nat /\ DOMAIN src = 1..m /\ WellNested(open, src) /\ open \in Seq(Nat)
      /\ Len(open) \in Nat /\ DOMAIN open = 1..Len(open)
  BY StructureFacts
<1>2. tc.region = Len(open) + Cardinality(F)
  BY DEF StructureInv, Balanced, Count
<1>3. OpenedAt(src, m) = {open[i] : i \in I}
  <2>1. ASSUME NEW p \in OpenedAt(src, m) PROVE p \in {open[i] : i \in I}
    BY <1>1 DEF OpenedAt, WellNested
  <2>2. ASSUME NEW i \in I PROVE open[i] \in OpenedAt(src, m)
    BY <1>1 DEF OpenedAt, WellNested
  <2> QED
    BY <2>1, <2>2
<1>4. FnsAt(src, m) = {open[i] : i \in F}
  BY <1>3 DEF FnsAt
<1>5. \A i, j \in DOMAIN open : i < j => open[i] < open[j]
  BY <1>1 DEF WellNested
<1> HIDE DEF m
<1>6. Cardinality(OpenedAt(src, m)) = Cardinality(I)
  <2>1. I \in SUBSET DOMAIN open
    OBVIOUS
  <2>2. open \in Seq(Nat)
    BY <1>1
  <2> HIDE DEF I
  <2> QED
    BY ONLY <1>3, <1>5, <2>1, <2>2, Indexed
<1>7. Cardinality(FnsAt(src, m)) = Cardinality(F)
  <2>1. F \in SUBSET DOMAIN open
    OBVIOUS
  <2>2. open \in Seq(Nat)
    BY <1>1
  <2> HIDE DEF F
  <2> QED
    BY ONLY <1>4, <1>5, <2>1, <2>2, Indexed
<1>8. Cardinality(I) = Len(open)
  <2>1. \A d \in Nat : Cardinality(1..d) = d
    BY FS_Interval
  <2> QED
    BY <1>1, <2>1
<1> QED
  BY <1>2, <1>6, <1>7, <1>8 DEF SRegions, m

\* A variable lives in a region that is open as long as it is in scope.
LEMMA RegionBound ==
    ASSUME NEW s \in Seq(TokenType), Around(s), NEW p \in 1..Len(s), NEW q \in p..Len(s),
           s[p].k \in {"var", "for", "assign", "fn"}, InScopeOf(s, p, s[p].n, q)
    PROVE  SRegionOf(s, p) <= SRegions(s, q)
<1> DEFINE h == IF s[p].k \in {"for", "fn"} THEN p ELSE s[p].up
<1>1. Len(s) \in Nat /\ DOMAIN s = 1..Len(s) /\ p \in Nat /\ q \in Nat /\ p <= q /\ q <= Len(s)
  OBVIOUS
<1>2. h = 0 \/ ~Ended(s, h, q)
  BY DEF InScopeOf, SHome, Openers, Binders
<1>3. ASSUME NEW e \in 1..Len(s), NEW x \in 1..Len(s), x < e, s[x].k \in Openers, s[e].up # 0,
             x > s[e].up
      PROVE  Ended(s, x, e - 1)
  <2>1. x \in 1..(e - 1)
    BY <1>1, <1>3
  <2> QED
    BY <1>1, <1>3, <2>1 DEF Around
<1>4. \A e \in 1..Len(s) : s[e].up # 0 => s[e].up \in 1..(e - 1) /\ s[s[e].up].k \in Openers
  BY <1>1 DEF Around
<1>5. ASSUME NEW x \in 1..(p - 1), s[x].k \in Openers, ~Ended(s, x, p - 1)
      PROVE  ~Ended(s, x, q)
  <2>1. s[p].up \in 1..(p - 1) /\ x <= s[p].up /\ s[s[p].up].k \in Openers
    <3>1. ~(x > s[p].up)
      BY <1>1, <1>5 DEF Around
    <3>2. s[p].up \in Nat
      BY <1>1, TokenFields
    <3>3. s[p].up # 0 /\ x <= s[p].up
      BY <1>1, <3>1, <3>2
    <3> QED
      BY <1>4, <3>3
  <2>2. h \in 1..Len(s) /\ s[h].k \in Openers /\ x <= h /\ ~Ended(s, h, q) /\ h <= p
        /\ (h = p => s[p].k # "end")
    BY <1>1, <1>2, <2>1 DEF Openers, Binders
  <2> HIDE DEF h
  <2> SUFFICES ASSUME Ended(s, x, q) PROVE FALSE
    OBVIOUS
  <2>3. PICK e \in 1..q : s[e].k = "end" /\ s[e].up = x
    BY DEF Ended
  <2>4. e >= p
    <3> SUFFICES ASSUME e < p PROVE FALSE
      BY <1>1
    <3>1. e \in 1..(p - 1)
      BY <1>1
    <3> QED
      BY <1>5, <2>3, <3>1 DEF Ended
  <2>5. h < e /\ e \in 1..Len(s)
    BY <1>1, <2>2, <2>3, <2>4
  <2>6. x < h
    BY <1>1, <2>2, <2>3 DEF Ended
  <2>7. Ended(s, h, e - 1)
    BY <1>1, <1>3, <2>2, <2>3, <2>5, <2>6
  <2>8. Ended(s, h, q)
    <3>1. e - 1 \in Int /\ q \in Int /\ e - 1 <= q
      BY <1>1
    <3> QED
      BY <2>7, <3>1, EndedMono
  <2> QED
    BY <2>2, <2>8
<1>6. CASE s[p].k = "fn"
  <2>1. OpenedAt(s, p) \subseteq OpenedAt(s, q)
    <3> SUFFICES ASSUME NEW x \in OpenedAt(s, p) PROVE x \in OpenedAt(s, q)
      OBVIOUS
    <3>1. x \in 1..p /\ s[x].k \in Openers /\ ~Ended(s, x, p) /\ x \in 1..q
      BY <1>1 DEF OpenedAt
    <3>2. CASE x = p
      BY <1>1, <1>2, <1>6, <3>1, <3>2 DEF OpenedAt
    <3>3. CASE x # p
      <4>1. x \in 1..(p - 1) /\ p - 1 \in Int /\ p \in Int /\ p - 1 <= p
        BY <1>1, <3>1, <3>3
      <4>2. ~Ended(s, x, p - 1)
        BY <3>1, <4>1, EndedMono
      <4> QED
        BY <1>5, <3>1, <4>1, <4>2 DEF OpenedAt
    <3> QED
      BY <3>2, <3>3
  <2>2. SRegions(s, p) <= SRegions(s, q) /\ SRegions(s, p) \in Nat /\ SRegions(s, q) \in Nat
    BY <1>1, <2>1, RegionsGrow, OpenedFinite
  <2> QED
    BY <1>6, <2>2 DEF SRegionOf
<1>7. CASE s[p].k # "fn"
  <2>1. OpenedAt(s, p - 1) \subseteq OpenedAt(s, q)
    <3>1. \A x \in 1..(p - 1) : x \in 1..q
      BY <1>1
    <3> QED
      BY <1>5, <3>1 DEF OpenedAt
  <2>2. p - 1 \in Nat
    BY <1>1
  <2> QED
    BY <1>1, <1>7, <2>1, <2>2, RegionsGrow DEF SRegionOf
<1> QED
  BY <1>6, <1>7

(***************************************************************************)
(* Declarations that are visible.                                           *)
(***************************************************************************)
\* what is visible was declared, is in scope, and was visible at once
LEMMA VisibleFirst ==
    ASSUME NEW s \in Seq(TokenType), NEW v, VisibleIs(s, v), NEW n \in Names,
           NEW q \in 0..Len(s), NEW p \in 1..Len(s), v[q][n] = p
    PROVE  p <= q /\ DeclaresBy(s, v, p, n) /\ InScopeOf(s, p, n, q) /\ v[p][n] = p
<1>1. Len(s) \in Nat /\ q \in Nat /\ p \in Nat /\ p # 0 /\ p \in 0..Len(s)
  OBVIOUS
<1>2. p = LastOf(SeenBy(s, v, q, n)) /\ v[p][n] = LastOf(SeenBy(s, v, p, n))
  BY <1>1, VisibleAt
<1>3. p \in SeenBy(s, v, q, n)
  <2>1. SeenBy(s, v, q, n) # {}
    BY <1>1, <1>2 DEF LastOf
  <2> QED
    BY <1>1, <1>2, <2>1, SeenRange
<1>4. p <= q /\ DeclaresBy(s, v, p, n) /\ InScopeOf(s, p, n, q)
  BY <1>1, <1>3 DEF SeenBy
<1>5. InScopeOf(s, p, n, p)
  BY <1>1, <1>4, EndedMono DEF InScopeOf
<1>6. p \in SeenBy(s, v, p, n)
  BY <1>1, <1>4, <1>5 DEF SeenBy
<1>7. LastOf(SeenBy(s, v, p, n)) = p
  <2>1. LastOf(SeenBy(s, v, p, n)) \in 0..p /\ p <= LastOf(SeenBy(s, v, p, n))
    BY <1>1, <1>6, SeenRange
  <2> QED
    BY <1>1, <2>1
<1> QED
  BY <1>2, <1>4, <1>7

\* A declaration hides the ones before it.
LEMMA VisibleNew ==
    ASSUME NEW s \in Seq(TokenType), NEW v, VisibleIs(s, v), Around(s), NEW n \in Names,
           NEW p \in 1..Len(s), s[p].n = n, s[p].k \in {"var", "for", "fn"}
    PROVE  v[p][n] = p
<1>1. Len(s) \in Nat /\ p \in Nat /\ p \in 0..Len(s) /\ DOMAIN s = 1..Len(s)
  OBVIOUS
<1>2. DeclaresBy(s, v, p, n)
  BY DEF DeclaresBy, Binders
<1>3. \A e \in 1..p : s[e].k = "end" => e < p
  BY <1>1
<1>4. SHome(s, p, n) = IF s[p].k = "var" THEN s[p].up ELSE p
  BY DEF SHome, Openers, Binders
<1>5. ~Ended(s, p, p)
  <2> SUFFICES ASSUME NEW e \in 1..p, s[e].up = p PROVE FALSE
    BY DEF Ended
  <2>1. e \in DOMAIN s /\ s[e].up # 0
    BY <1>1
  <2>2. s[e].up \in 1..(e - 1)
    BY <2>1 DEF Around
  <2> QED
    BY <1>1, <2>2
<1>6. s[p].up # 0 => ~Ended(s, s[p].up, p)
  <2> SUFFICES ASSUME s[p].up # 0 PROVE ~Ended(s, s[p].up, p)
    OBVIOUS
  <2>1. ~Ended(s, s[p].up, p - 1)
    BY <1>1 DEF Around
  <2>2. p \in Nat \ {0} /\ s[p].k # "end"
    BY <1>1
  <2> QED
    BY <2>1, <2>2, EndedStep
<1>7. InScopeOf(s, p, n, p)
  BY <1>4, <1>5, <1>6 DEF InScopeOf
<1>8. p \in SeenBy(s, v, p, n)
  BY <1>1, <1>2, <1>7 DEF SeenBy
<1>9. LastOf(SeenBy(s, v, p, n)) \in 0..p /\ p <= LastOf(SeenBy(s, v, p, n))
  BY <1>1, <1>8, SeenRange
<1>10. v[p][n] = LastOf(SeenBy(s, v, p, n))
  BY <1>1, VisibleAt
<1> QED
  BY <1>1, <1>9, <1>10

(***************************************************************************)
(* What the program says of a variable n, and the checker's record of it.   *)
(***************************************************************************)
\* from its declaration p on, up to token m, n was not declared anew and no
\* statement ended in the region of p
KeptAt(s, v, p, n, m) ==
    /\ s[p].k \in {"var", "for", "assign", "fn"}
    /\ \A e \in p..m : v[e][n] = p
    /\ \A e \in (p + 1)..m : s[e].k = "end" => SRegions(s, e) # SRegionOf(s, p)

MovedBy(s, r, n) ==
    s[r].k \in {"var", "for"} /\ s[r].v = n /\ s[r].ty \notin Copyable \cup {Null}

MemoryAt(c, s, v) ==
    /\ \A p \in 1..Len(s) : s[p].f \notin Vars
    /\ \A n \in Vars, p \in 1..Len(s) : KeptAt(s, v, p, n, Len(s)) =>
          /\ c.memory[n].state # "none" /\ c.memory[n].region = SRegionOf(s, p)
          /\ \A r \in (p + 1)..Len(s) : MovedBy(s, r, n) /\ ~c.references[n].is =>
                c.memory[n].state = "moved" /\ SDeclaredType(s, p, n) \notin Unmoved

\* the newest token
MemoryRead(c, s, v) ==
    \A n \in Vars, p, r \in 1..Len(s) :
        /\ s[Len(s)].v = n /\ p < r /\ r < Len(s)
        /\ KeptAt(s, v, p, n, Len(s) - 1) /\ MovedBy(s, r, n) /\ ~c.references[n].is
        => \E e \in c.errors : e.at = Len(s)

\* the tokens before the newest
LEMMA KeptEarlier ==
    ASSUME StructureInv, NEW v, NEW t, src' = Append(src, t), NEW w, Onward(v, t, w)
    PROVE  \A n \in Vars, p \in 1..Len(src) :
              /\ src'[p] = src[p] /\ SRegionOf(src', p) = SRegionOf(src, p)
              /\ KeptAt(src', w, p, n, Len(src)) <=> KeptAt(src, v, p, n, Len(src))
              /\ KeptAt(src', w, p, n, Len(src) + 1) =>
                    /\ KeptAt(src', w, p, n, Len(src)) /\ w[Len(src) + 1][n] = p
                    /\ t.k = "end" => SRegions(src', Len(src) + 1) # SRegionOf(src', p)
              /\ MovedBy(src', p, n) <=> MovedBy(src, p, n)
              /\ SDeclaredType(src', p, n) = SDeclaredType(src, p, n)
<1> TAKE n \in Vars, p \in 1..Len(src)
<1> DEFINE m == Len(src)
<1>1. m \in Nat /\ src'[m + 1] = t /\ \A i \in 1..m : src'[i] = src[i]
  BY StructureFacts
<1>2. n \in Names /\ \A q \in 0..m : w[q][n] = v[q][n]
  BY DEF Onward, Names
<1>3. src \in Seq(TokenType)
  BY StructureFacts
<1>4. /\ \A q \in 0..m : SRegions(src', q) = SRegions(src, q)
      /\ SRegionOf(src', p) = SRegionOf(src, p)
  BY <1>3, RegionsEarlier
<1> HIDE DEF m
<1>5. p \in 1..m /\ \A e \in p..m : e \in 0..m /\ e \in 1..m
  BY <1>1 DEF m
<1>6. \A e \in (p + 1)..m : e \in 0..m /\ e \in 1..m
  BY <1>1, <1>5
<1>7. KeptAt(src', w, p, n, m) <=> KeptAt(src, v, p, n, m)
  BY <1>1, <1>2, <1>4, <1>5, <1>6 DEF KeptAt
<1>8. KeptAt(src', w, p, n, m + 1) =>
         /\ KeptAt(src', w, p, n, m) /\ w[m + 1][n] = p
         /\ t.k = "end" => SRegions(src', m + 1) # SRegionOf(src', p)
  <2>1. /\ m + 1 \in p..(m + 1) /\ m + 1 \in (p + 1)..(m + 1)
        /\ \A e \in p..m : e \in p..(m + 1)
        /\ \A e \in (p + 1)..m : e \in (p + 1)..(m + 1)
    BY <1>1, <1>5
  <2> QED
    BY <1>1, <2>1 DEF KeptAt
<1>9. MovedBy(src', p, n) <=> MovedBy(src, p, n)
  BY <1>1, <1>5 DEF MovedBy
<1>10. SDeclaredType(src', p, n) = SDeclaredType(src, p, n)
  BY <1>1, <1>5 DEF SDeclaredType
<1> QED
  BY <1>1, <1>4, <1>5, <1>7, <1>8, <1>9, <1>10 DEF m

\* The type of the variable.
LEMMA KeptType ==
    ASSUME StructureInv, NEW v, Looked(v), NEW n \in Vars, NEW p \in 1..Len(src),
           v[Len(src)][n] = p
    PROVE  lookup_variable(tc, n) = SDeclaredType(src, p, n)
<1>1. n \in Names /\ n \notin globals /\ Len(src) \in Nat /\ p # 0
  BY StructureFacts, NamesAssumption DEF Names, StructureInv, TypesOK
<1>2. LookupAt(tc.scopes, open, src, globals, v)
  BY DEF Looked
<1>3. LET type == TypeBy(src, v[Len(src)][n], n)
      IN  lookup_variable(tc, n) = IF type = Null /\ n \in globals THEN "Function" ELSE type
  BY <1>1, <1>2, Found
<1> QED
  BY <1>1, <1>3 DEF TypeBy

LEMMA MemoryStays ==
    ASSUME StructureInv, StructureInv', Around(src), NEW v, Looked(v), MemoryAt(tc, src, v),
           NEW t, MemoryStep(t), LinearStep(t), NEW w, Onward(v, t, w)
    PROVE  MemoryAt(tc', src', w) /\ MemoryRead(tc', src', w)
<1> DEFINE m == Len(src)
<1>1. /\ m \in Nat /\ src' = Append(src, t) /\ Len(src') = m + 1 /\ src'[m + 1] = t
      /\ src \in Seq(TokenType) /\ src' \in Seq(TokenType)
  BY StructureFacts DEF LinearStep
<1>2. \A n \in Vars, p \in 1..m :
         /\ src'[p] = src[p] /\ SRegionOf(src', p) = SRegionOf(src, p)
         /\ KeptAt(src', w, p, n, m) <=> KeptAt(src, v, p, n, m)
         /\ KeptAt(src', w, p, n, m + 1) =>
               /\ KeptAt(src', w, p, n, m) /\ w[m + 1][n] = p
               /\ t.k = "end" => SRegions(src', m + 1) # SRegionOf(src', p)
         /\ MovedBy(src', p, n) <=> MovedBy(src, p, n)
         /\ SDeclaredType(src', p, n) = SDeclaredType(src, p, n)
  BY <1>1, KeptEarlier
<1>3. \A n \in Vars : n \in Names /\ (tc.references[n].is => tc'.references[n].is)
  BY DEF LinearStep, Names
<1>4. SRegions(src', m + 1) = tc'.region /\ tc'.region \in Nat
  <2>1. (SRegions(src, Len(src)) = tc.region)'
    BY RegionsNow, StructureInv', PTL
  <2>2. (tc.region \in Nat)'
    BY StructureFacts, StructureInv', PTL
  <2> QED
    BY <1>1, <2>1, <2>2
<1>5. SRegions(src', m) = tc.region /\ tc.region \in Nat
  <2>1. m \in 0..m
    BY <1>1
  <2> QED
    BY <1>1, <2>1, RegionsNow, RegionsEarlier, StructureFacts
<1>6. Around(src') /\ VisibleIs(src', w)
  <2>1. t.up = Inner(open)
    BY DEF MemoryStep
  <2> QED
    BY <1>1, <2>1, AroundAppend, StructureFacts DEF Onward
<1>7. \A r \in 1..(m + 1) : r \in 1..m \/ r = m + 1
  BY <1>1
<1>8. \A n \in Vars, p \in 1..m : KeptAt(src, v, p, n, m) =>
          /\ v[m][n] = p
          /\ tc.memory[n].state # "none" /\ tc.memory[n].region = SRegionOf(src, p)
          /\ \A r \in (p + 1)..m : MovedBy(src, r, n) /\ ~tc.references[n].is =>
                tc.memory[n].state = "moved" /\ SDeclaredType(src, p, n) \notin Unmoved
  <2> TAKE n \in Vars, p \in 1..m
  <2>1. m \in p..m
    BY <1>1
  <2> QED
    BY <2>1 DEF KeptAt, MemoryAt
<1>9. \A p \in 1..(m + 1) : src'[p].f \notin Vars
  <2> TAKE p \in 1..(m + 1)
  <2>1. CASE p \in 1..m
    <3>1. src'[p] = src[p]
      BY <1>1, <2>1
    <3> QED
      BY <2>1, <3>1 DEF MemoryAt
  <2>2. CASE p = m + 1
    BY <1>1, <2>2 DEF MemoryStep
  <2> QED
    BY <1>7, <2>1, <2>2
\* the variable is declared
<1>10. ASSUME NEW n \in Vars, KeptAt(src', w, m + 1, n, m + 1)
       PROVE  tc'.memory[n].state # "none" /\ tc'.memory[n].region = SRegionOf(src', m + 1)
  <2>1. t.k \in {"var", "for", "assign", "fn"} /\ w[m + 1][n] = m + 1
    <3>1. m + 1 \in (m + 1)..(m + 1)
      BY <1>1
    <3> QED
      BY <1>1, <1>10, <3>1 DEF KeptAt
  <2>2. DeclaresBy(src', w, m + 1, n)
    <3>1. m + 1 \in 0..Len(src') /\ m + 1 \in 1..Len(src')
      BY <1>1
    <3> QED
      BY <1>1, <1>3, <1>6, <2>1, <3>1, VisibleFirst
  <2>3. t.n = n
    <3>1. t.f \notin Vars
      BY DEF MemoryStep
    <3> QED
      BY <1>1, <2>2, <3>1 DEF DeclaresBy
  <2>4. t.k = "assign" => lookup_variable(tc, n) = Null
    BY <2>1, <2>3 DEF Onward
  <2>5. Records(t, n)
    BY <2>1, <2>3, <2>4 DEF Records
  <2>6. /\ tc'.memory[n].state # "none"
        /\ tc'.memory[n].region = IF t.k = "fn" THEN tc'.region - 1 ELSE tc.region
    BY <2>5 DEF MemoryStep
  <2>7. (m + 1) - 1 = m
    BY <1>1
  <2> QED
    BY <1>1, <1>4, <1>5, <2>6, <2>7 DEF SRegionOf
\* it was declared before
<1>11. ASSUME NEW n \in Vars, NEW p \in 1..m, KeptAt(src', w, p, n, m + 1)
       PROVE  /\ KeptAt(src, v, p, n, m) /\ ~Records(t, n) /\ MemoryKept(tc, tc', n)
  <2>1. KeptAt(src, v, p, n, m) /\ w[m + 1][n] = p /\ p # m + 1
        /\ (t.k = "end" => SRegions(src', m + 1) # SRegionOf(src', p))
    BY <1>1, <1>2, <1>11
  <2>2. ~Records(t, n)
    <3> SUFFICES ASSUME Records(t, n) PROVE FALSE
      OBVIOUS
    <3>1. CASE t.k = "assign"
      <4>1. t.n = n /\ lookup_variable(tc, n) = Null
        BY <3>1 DEF Records
      <4>2. w[m + 1][n] = m + 1
        BY <3>1, <4>1 DEF Onward
      <4> QED
        BY <2>1, <4>2
    <3>2. CASE t.k \in {"var", "for", "fn"}
      <4>1. t.n = n
        BY DEF Records
      <4>2. m + 1 \in 1..Len(src') /\ n \in Names
        BY <1>1, <1>3
      <4>3. src'[m + 1].n = n /\ src'[m + 1].k \in {"var", "for", "fn"}
        BY <1>1, <3>2, <4>1
      <4>4. w[m + 1][n] = m + 1
        <5> DEFINE x == m + 1
        <5>1. src' \in Seq(TokenType) /\ x \in 1..Len(src') /\ n \in Names
          BY <1>1, <4>2
        <5>2. src'[x].n = n /\ src'[x].k \in {"var", "for", "fn"}
          BY <4>3
        <5> HIDE DEF x
        <5>3. w[x][n] = x
          BY ONLY <1>6, <5>1, <5>2, VisibleNew
        <5> QED
          BY <5>3 DEF x
      <4> QED
        BY <2>1, <4>4
    <3> QED
      BY <3>1, <3>2 DEF Records
  <2>3. t.k = "end" => tc.memory[n].region < tc'.region
    <3> SUFFICES ASSUME t.k = "end" PROVE tc.memory[n].region < tc'.region
      OBVIOUS
    <3>1. tc.memory[n].region = SRegionOf(src', p)
      BY <1>2, <1>8, <2>1
    <3>2. tc.memory[n].region \in Nat
      BY <1>3, CheckersMemory, StructureFacts
    <3>3. /\ m + 1 \in 0..Len(src') /\ p \in 1..Len(src') /\ m + 1 \in p..Len(src')
          /\ src'[p].k \in {"var", "for", "assign", "fn"}
      BY <1>1, <1>11 DEF KeptAt
    <3>4. DeclaresBy(src', w, p, n) /\ InScopeOf(src', p, n, m + 1)
      BY <1>1, <1>3, <1>6, <2>1, <3>3, VisibleFirst
    <3>5. src'[p].n = n
      BY <1>9, <3>3, <3>4, <1>1 DEF DeclaresBy
    <3>6. SRegionOf(src', p) <= SRegions(src', m + 1)
      BY <1>1, <1>6, <3>3, <3>4, <3>5, RegionBound
    <3> QED
      BY <1>4, <2>1, <3>1, <3>2, <3>6
  <2> QED
    BY <2>1, <2>2, <2>3 DEF MemoryStep
\* the moves
<1>12. ASSUME NEW n \in Vars, NEW p \in 1..m, KeptAt(src', w, p, n, m + 1),
              NEW r \in (p + 1)..(m + 1), MovedBy(src', r, n), ~tc'.references[n].is
       PROVE  tc'.memory[n].state = "moved" /\ SDeclaredType(src', p, n) \notin Unmoved
  <2>1. KeptAt(src, v, p, n, m) /\ ~Records(t, n) /\ MemoryKept(tc, tc', n)
    BY <1>11, <1>12
  <2>2. ~tc.references[n].is /\ SDeclaredType(src', p, n) = SDeclaredType(src, p, n)
    BY <1>2, <1>3, <1>12
  <2>3. CASE r \in 1..m
    <3>1. MovedBy(src, r, n) /\ r \in (p + 1)..m
      BY <1>1, <1>2, <1>12, <2>3
    <3>2. tc.memory[n].state = "moved" /\ SDeclaredType(src, p, n) \notin Unmoved
      BY <1>8, <2>1, <2>2, <3>1
    <3> QED
      BY <2>1, <2>2, <3>2 DEF MemoryKept
  <2>4. CASE r = m + 1
    <3>1. t.k \in {"var", "for"} /\ t.v = n /\ t.ty \notin Copyable
      BY <1>1, <1>12, <2>4 DEF MovedBy
    <3>2. t.n # n
      BY <2>1, <3>1 DEF Records
    <3>3. t.ty = lookup_variable(tc, n)
      BY <2>2, <3>1 DEF MemoryStep
    <3>4. lookup_variable(tc, n) = SDeclaredType(src, p, n)
      BY <1>8, <2>1, KeptType
    <3>5. tc'.memory[n].state = "moved"
      BY <1>8, <2>1, <3>1, <3>2, <3>3 DEF MemoryStep
    <3> QED
      BY <2>2, <3>1, <3>3, <3>4, <3>5 DEF Unmoved, Copyable
  <2>5. r \in 1..(m + 1)
    BY <1>1
  <2> QED
    BY <1>7, <2>3, <2>4, <2>5
<1>13. MemoryAt(tc', src', w)
  <2>1. ASSUME NEW n \in Vars, NEW p \in 1..(m + 1), KeptAt(src', w, p, n, m + 1)
        PROVE  /\ tc'.memory[n].state # "none" /\ tc'.memory[n].region = SRegionOf(src', p)
               /\ \A r \in (p + 1)..(m + 1) : MovedBy(src', r, n) /\ ~tc'.references[n].is =>
                     tc'.memory[n].state = "moved" /\ SDeclaredType(src', p, n) \notin Unmoved
    <3>1. CASE p = m + 1
      <4>1. (p + 1)..(m + 1) = {}
        BY <1>1, <3>1
      <4> QED
        BY <1>10, <2>1, <3>1, <4>1
    <3>2. CASE p \in 1..m
      <4>1. /\ tc'.memory[n].state # "none"
            /\ tc'.memory[n].region = SRegionOf(src', p)
        BY <1>2, <1>8, <1>11, <2>1, <3>2 DEF MemoryKept
      <4> QED
        BY <1>12, <2>1, <3>2, <4>1
    <3> QED
      BY <1>7, <3>1, <3>2
  <2> HIDE DEF m
  <2> QED
    BY <1>1, <1>9, <2>1 DEF MemoryAt
<1>14. ASSUME NEW n \in Vars, NEW p \in 1..(m + 1), NEW r \in 1..(m + 1), t.v = n,
              p < r, r < m + 1, KeptAt(src', w, p, n, m), MovedBy(src', r, n),
              ~tc'.references[n].is
       PROVE  \E e \in tc'.errors : e.at = m + 1
  <2>1. p \in 1..m /\ r \in 1..m /\ r \in (p + 1)..m
    BY <1>1, <1>14
  <2>2. KeptAt(src, v, p, n, m) /\ MovedBy(src, r, n) /\ ~tc.references[n].is
    BY <1>2, <1>3, <1>14, <2>1
  <2>3. tc.memory[n].state = "moved" /\ SDeclaredType(src, p, n) \notin Unmoved /\ v[m][n] = p
    BY <1>8, <2>1, <2>2
  <2>4. lookup_variable(tc, n) \notin Unmoved
    BY <2>1, <2>3, KeptType
  <2>5. UseFound(tc, tc', n)
    BY <1>14 DEF MemoryStep
  <2> QED
    BY <2>2, <2>3, <2>4, <2>5 DEF UseFound
<1>15. MemoryRead(tc', src', w)
  <2>1. Len(src') - 1 = m /\ src'[Len(src')] = t
    BY <1>1
  <2> HIDE DEF m
  <2> QED
    BY <1>1, <1>14, <2>1 DEF MemoryRead
<1> QED
  BY <1>13, <1>15

MovesKnown(v) ==
    Looked(v) /\ Around(src) /\ MemoryAt(tc, src, v) /\ MemoryRead(tc, src, v)

LEMMA AppendOnce ==
    ASSUME NEW s \in Seq(TokenType), NEW t, NEW u, Append(s, t) = Append(s, u)
    PROVE  u = t
<1>1. Append(s, t)[Len(s) + 1] = t /\ Append(s, u)[Len(s) + 1] = u
  OBVIOUS
<1> QED
  BY <1>1

LEMMA MovesProceed ==
    ASSUME StructureInv, NEW v, MovesKnown(v), TypesNext
    PROVE  (\E w : MovesKnown(w))'
<1>0. Looked(v) /\ Around(src) /\ MemoryAt(tc, src, v) /\ MemoryRead(tc, src, v)
  BY DEF MovesKnown
<1>1. CASE finish_types
  <2>1. tc' = tc /\ src' = src /\ open' = open /\ globals' = globals
    BY <1>1 DEF finish_types
  <2> QED
    BY <1>0, <2>1 DEF MovesKnown, Looked
<1>2. CASE ~finish_types
  <2>1. PICK t : LinearStep(t)
    BY <1>2, QuietSteps, AssignStep
  <2>2. PICK u : MemoryStep(u)
    BY <1>2, MemorySteps
  <2>3. u = t
    <3>1. src' = Append(src, t) /\ src' = Append(src, u) /\ src \in Seq(TokenType)
      BY <2>1, <2>2, StructureFacts DEF LinearStep, MemoryStep
    <3> QED
      BY <3>1, AppendOnce
  <2>4. PICK w : LookupAt(tc'.scopes, open', src', globals', w) /\ Onward(v, t, w)
    BY <1>0, <2>1, GoesOnward
  <2>5. MemoryAt(tc', src', w) /\ MemoryRead(tc', src', w)
    BY <1>0, <2>1, <2>2, <2>3, <2>4, TypesStructure, MemoryStays
  <2>6. Around(src')
    <3>1. src' = Append(src, u) /\ u.up = Inner(open)
      BY <2>2 DEF MemoryStep
    <3> QED
      BY <1>0, <3>1, AroundAppend, StructureFacts
  <2> QED
    BY <2>4, <2>5, <2>6 DEF MovesKnown, Looked
<1> QED
  BY <1>1, <1>2

LEMMA MovedReported ==
    ASSUME StructureInv, NEW v, MovesKnown(v)
    PROVE  MovesReported
<1> DEFINE u == Visible
           m == Len(src)
<1>1. VisibleIs(src, v) /\ src \in Seq(TokenType) /\ m \in Nat
  BY StructureFacts DEF MovesKnown, Looked, LookupAt
<1>2. VisibleIs(src, u)
  <2>1. v = VisibleBody(src, v)
    BY <1>1 DEF VisibleIs
  <2>2. (CHOOSE w : w = VisibleBody(src, w)) = VisibleBody(src, CHOOSE w : w = VisibleBody(src, w))
    BY <2>1
  <2> QED
    BY <2>2, VisibleUnfolds DEF VisibleIs
<1> HIDE DEF u
<1>3. \A q \in 0..m, n \in Names : u[q][n] = v[q][n]
  BY <1>1, <1>2, VisibleOnce
<1> SUFFICES ASSUME NEW q \in Newest, NEW n \in Vars, NEW p \in Positions, NEW r \in Positions,
                    src[p].k \in {"var", "for", "assign", "fn"},
                    src[q].v = n, p < r, r < q, Moves(r, n), u[q - 1][n] = p,
                    \A e \in (p + 1)..(q - 1) :
                       /\ src[e].k = "end" => RegionsOpen(e) # RegionOf(p)
                       /\ u[e][n] = p,
                    ~tc.references[n].is
             PROVE  ReportedAt(q)
  BY DEF MovesReported, UseAfterMove, u
<1>4. q = m /\ p \in 1..m /\ r \in 1..m /\ m - 1 \in 0..m
  BY <1>1 DEF Newest, Positions
<1>5. n \in Names
  BY DEF Names
<1>6. v[m - 1][n] = p /\ v[p][n] = p
  <2>1. v[m - 1][n] = p
    BY <1>3, <1>4, <1>5
  <2> QED
    BY <1>1, <1>4, <1>5, <2>1, VisibleFirst
<1>7. \A e \in (p + 1)..(m - 1) : e \in 0..m
  BY <1>1, <1>4
<1>8. \A e \in p..(m - 1) : v[e][n] = p
  <2> TAKE e \in p..(m - 1)
  <2>1. e = p \/ e \in (p + 1)..(m - 1)
    BY <1>1, <1>4
  <2> QED
    BY <1>3, <1>4, <1>5, <1>6, <1>7, <2>1
<1>9. KeptAt(src, v, p, n, m - 1)
  BY <1>4, <1>8, RegionsUnfold DEF KeptAt
<1>10. MovedBy(src, r, n)
  BY DEF Moves, MovedBy
<1> QED
  BY <1>4, <1>9, <1>10 DEF MovesKnown, MemoryRead, ReportedAt

\* A use of a variable whose value a declaration has taken (check_var_declaration,
\* check_variable_move and check_variable_use in the type checker) is reported,
\* whatever opens, closes, shadows or is declared in between, as long as no
\* statement of the variable's own region has closed since its declaration, its
\* name was not declared anew and is not that of a reference.
THEOREM MovesKnownReported == MemorySpec => []MovesReported
<1> DEFINE MI == \E v : MovesKnown(v)
<1>1. MemoryInit => MI
  <2> SUFFICES ASSUME MemoryInit PROVE MI
    OBVIOUS
  <2>1. PICK v : Looked(v)
    BY InitLookup DEF MemoryInit
  <2>2. src = <<>> /\ Len(src) = 0 /\ DOMAIN src = {}
    BY DEF MemoryInit, Init
  <2>3. Around(src) /\ MemoryAt(tc, src, v) /\ MemoryRead(tc, src, v)
    BY <2>2 DEF Around, MemoryAt, MemoryRead
  <2> QED
    BY <2>1, <2>3 DEF MovesKnown
<1>2. StructureInv /\ MI /\ [MemoryNext]_<<vars, memoryVars>> => MI'
  <2> SUFFICES ASSUME StructureInv, NEW v, MovesKnown(v), [MemoryNext]_<<vars, memoryVars>>
               PROVE  MI'
    OBVIOUS
  <2>1. CASE TypesNext
    BY <2>1, MovesProceed
  <2>2. CASE UNCHANGED <<tc, open, globals, src>>
    BY <2>2 DEF MovesKnown, Looked
  <2> QED
    BY <2>1, <2>2, MemoryReads
<1>3. StructureInv /\ MI => MovesReported
  BY MovedReported
<1> HIDE DEF MI
<1> QED
  BY <1>1, <1>2, <1>3, StructureInvariant, PTL DEF MemorySpec

=============================================================================
