--------------------------- MODULE ExecutionProofs ---------------------------
(***************************************************************************)
(* What is proved of the register machine, for every program, every number *)
(* of registers, every width of the integers and every capacity (channels  *)
(* are queues, and the registers hold the numbers the program computed),   *)
(* and of the dicts and tuples of the run-time library, for every set of   *)
(* keys and values, every heap and every hash function.                    *)
(***************************************************************************)
EXTENDS RegisterVM, Containers, FiniteSetTheorems, SequenceTheorems, TLAPS

(***************************************************************************)
(* The register machine.                                                   *)
(*                                                                         *)
(* The inductive invariant is that of the heap, that channels in it are in *)
(* order, with that of the registers, those of the suspended callers too:  *)
(* what they stand for is read from a heap in which numbers never change.  *)
(***************************************************************************)
NumberTypes == {"I64", "U64", "I128", "U128", "BOX_INT"}

Channels(S) == [type : {"CHANNEL"}, buffer : Seq(S), capacity : Nat, closed : BOOLEAN,
                waiting_senders : Seq({0}), waiting_receivers : Seq({0}),
                given : Nat, stored : Seq(S), taken : Seq(S)]

\* A channel whose values come out as they went in.
InOrder(c) ==
    /\ \E S : c \in Channels(S)
    /\ c.stored = c.taken \o c.buffer
    /\ Len(c.buffer) <= c.capacity

GoodObject(o) ==
    /\ "type" \in DOMAIN o
    /\ o.type = "CHANNEL" => InOrder(o)
    /\ o.type = "LIST" => \E S : o.data \in Seq(S)

GoodHeap(h) == (\E S : h \in Seq(S)) /\ \A p \in 1..Len(h) : GoodObject(h[p])

\* Heap g has what heap h had, and the same numbers.
Grows(h, g) ==
    /\ Len(h) <= Len(g)
    /\ \A p \in 1..Len(h) : h[p].type \in NumberTypes => g[p] = h[p]

\* In heap h, the word v is the number or the Boolean e.
Stands(h, v, e) ==
    /\ e.k = "int" => /\ is_integer(h, v) /\ as_i128(h, v) = e.n /\ e.n \in Int
                      /\ IS_PTR(v) => v.at \in 1..Len(h)
    /\ e.k = "bool" => v = e /\ e = VAL_BOOL(e.b)

AllStand(h, regs, ex) ==
    /\ DOMAIN regs = Reg /\ DOMAIN ex = Reg
    /\ regs = [r \in Reg |-> regs[r]] /\ ex = [r \in Reg |-> ex[r]]
    /\ \A r \in Reg : Stands(h, regs[r], ex[r])

Caller(h, c) == c.dst \in Reg /\ AllStand(h, c.registers, c.exact)

VmInv ==
    /\ GoodHeap(heap)
    /\ AllStand(heap, registers, exact)
    /\ \E S : calls \in Seq(S)
    /\ \A i \in 1..Len(calls) : Caller(heap, calls[i])

(***************************************************************************)
(* The heap.                                                                *)
(***************************************************************************)
LEMMA HeapLen == ASSUME NEW h, GoodHeap(h) PROVE Len(h) \in Nat /\ DOMAIN h = 1..Len(h)
  BY DEF GoodHeap

LEMMA GrowsSelf == ASSUME NEW h, GoodHeap(h) PROVE Grows(h, h)
  BY HeapLen DEF Grows

\* A new object leaves the others alone.
LEMMA Allocated ==
    ASSUME NEW h, GoodHeap(h), NEW o, GoodObject(o)
    PROVE  /\ GoodHeap(Append(h, o)) /\ Grows(h, Append(h, o))
           /\ Len(Append(h, o)) = Len(h) + 1 /\ Append(h, o)[Len(h) + 1] = o
<1>1. PICK S : h \in Seq(S)
  BY DEF GoodHeap
<1> DEFINE T == S \cup {o}
<1>2. h \in Seq(T) /\ o \in T
  BY <1>1
<1> HIDE DEF T
<1>3. /\ Append(h, o) \in Seq(T) /\ Len(Append(h, o)) = Len(h) + 1
      /\ Append(h, o)[Len(h) + 1] = o
      /\ \A p \in 1..Len(h) : Append(h, o)[p] = h[p]
      /\ Len(h) \in Nat
  BY <1>2
<1>4. \A p \in 1..Len(Append(h, o)) : GoodObject(Append(h, o)[p])
  BY <1>3 DEF GoodHeap
<1> QED
  BY <1>3, <1>4 DEF GoodHeap, Grows

\* An object that is no number may change.
LEMMA Stored ==
    ASSUME NEW h, GoodHeap(h), NEW at, NEW o,
           at \in 1..Len(h) => GoodObject(o) /\ h[at].type \notin NumberTypes
    PROVE  /\ GoodHeap([h EXCEPT ![at] = o]) /\ Grows(h, [h EXCEPT ![at] = o])
           /\ Len([h EXCEPT ![at] = o]) = Len(h)
<1>1. PICK S : h \in Seq(S)
  BY DEF GoodHeap
<1> DEFINE T == S \cup {o}
           g == [h EXCEPT ![at] = o]
<1>2. h \in Seq(T) /\ o \in T
  BY <1>1
<1> HIDE DEF T
<1>3. /\ g \in Seq(T) /\ Len(g) = Len(h) /\ Len(h) \in Nat
      /\ \A p \in 1..Len(h) : g[p] = IF p = at THEN o ELSE h[p]
  <2>1. CASE at \in 1..Len(h)
    BY <1>2, <2>1
  <2>2. CASE at \notin 1..Len(h)
    <3>1. DOMAIN h = 1..Len(h) /\ Len(h) \in Nat
      BY <1>1
    <3>2. \A p \in 1..Len(h) : p # at
      BY <2>2
    <3>3. h = [p \in 1..Len(h) |-> h[p]]
      BY <1>1
    <3>4. g = h
      <4>1. g = [p \in 1..Len(h) |-> IF p = at THEN o ELSE h[p]]
        BY <3>1
      <4> HIDE DEF g
      <4> QED
        BY <3>2, <3>3, <4>1
    <3> HIDE DEF g
    <3> QED
      BY <1>2, <3>1, <3>2, <3>4
  <2> QED
    BY <2>1, <2>2
<1> HIDE DEF g
<1>4. \A p \in 1..Len(g) : GoodObject(g[p])
  BY <1>3 DEF GoodHeap
<1>5. GoodHeap(g) /\ Grows(h, g)
  BY <1>3, <1>4 DEF GoodHeap, Grows
<1> QED
  BY <1>3, <1>5 DEF g

LEMMA PlainObject ==
    ASSUME NEW type, NEW x, type # "CHANNEL", type # "LIST"
    PROVE  GoodObject(Obj(type, x)) /\ Obj(type, x).type = type /\ Obj(type, x).x = x
  BY DEF GoodObject, Obj

LEMMA NilStands == ASSUME NEW h, NEW v PROVE Stands(h, v, VAL_NIL)
  BY DEF Stands, VAL_NIL

\* A word stands for the same in a heap that has grown.
LEMMA StandsLater ==
    ASSUME NEW h, NEW g, GoodHeap(h), GoodHeap(g), Grows(h, g), NEW v, NEW e, Stands(h, v, e)
    PROVE  Stands(g, v, e)
<1>1. CASE e.k # "int"
  BY <1>1 DEF Stands
<1>2. CASE e.k = "int" /\ v.k = "int"
  <2>1. is_integer(g, v) /\ as_i128(g, v) = as_i128(h, v) /\ ~IS_PTR(v)
    BY <1>2 DEF is_integer, as_i128, IS_PTR
  <2> QED
    BY <1>2, <2>1 DEF Stands
<1>3. CASE e.k = "int" /\ v.k # "int"
  <2>1. is_integer(h, v) /\ (IS_PTR(v) => v.at \in 1..Len(h)) /\ as_i128(h, v) = e.n
    BY <1>3 DEF Stands
  <2>2. type_id(h, v) \in NumberTypes
    BY <1>3, <2>1 DEF is_integer, NumberTypes
  <2>3. IS_PTR(v) /\ h[v.at].type \in NumberTypes
    BY <2>2 DEF type_id, NumberTypes
  <2>4. g[v.at] = h[v.at] /\ v.at \in 1..Len(g)
    BY <2>1, <2>3, HeapLen DEF Grows
  <2>5. type_id(g, v) = type_id(h, v)
    BY <2>3, <2>4 DEF type_id
  <2>6. is_integer(g, v) /\ as_i128(g, v) = as_i128(h, v)
    BY <2>1, <2>4, <2>5 DEF is_integer, as_i128
  <2> QED
    BY <1>3, <2>1, <2>4, <2>6 DEF Stands
<1> QED
  BY <1>1, <1>2, <1>3

LEMMA AllStandLater ==
    ASSUME NEW h, NEW g, GoodHeap(h), GoodHeap(g), Grows(h, g), NEW regs, NEW ex,
           AllStand(h, regs, ex)
    PROVE  AllStand(g, regs, ex)
  BY StandsLater DEF AllStand

LEMMA CallersLater ==
    ASSUME VmInv, NEW g, GoodHeap(g), Grows(heap, g)
    PROVE  \A i \in 1..Len(calls) : Caller(g, calls[i])
  BY AllStandLater DEF VmInv, Caller

(***************************************************************************)
(* What the three ways an instruction ends do to the invariant.             *)
(***************************************************************************)
LEMMA WriteKeeps ==
    ASSUME VmInv, NEW dst \in Reg, NEW hv, NEW e, Write(dst, hv, e), calls' = calls,
           GoodHeap(hv.h), Grows(heap, hv.h), Stands(hv.h, hv.v, e)
    PROVE  VmInv'
<1>1. heap' = hv.h /\ registers' = [registers EXCEPT ![dst] = hv.v] /\ exact' = [exact EXCEPT ![dst] = e]
  BY DEF Write
<1>2. GoodHeap(heap) /\ AllStand(heap, registers, exact)
  BY DEF VmInv
<1>3. AllStand(hv.h, registers, exact)
  BY <1>2, AllStandLater
<1>4. AllStand(heap', registers', exact')
  BY <1>1, <1>3 DEF AllStand
<1>5. \A i \in 1..Len(calls') : Caller(heap', calls'[i])
  BY <1>1, CallersLater
<1> QED
  BY <1>1, <1>4, <1>5 DEF VmInv

LEMMA StoreKeeps ==
    ASSUME VmInv, NEW at, NEW o, Store(at, o), calls' = calls,
           at \in 1..Len(heap) => GoodObject(o) /\ heap[at].type \notin NumberTypes
    PROVE  VmInv'
<1>1. heap' = [heap EXCEPT ![at] = o] /\ registers' = registers /\ exact' = exact
  BY DEF Store
<1>2. GoodHeap(heap) /\ AllStand(heap, registers, exact)
  BY DEF VmInv
<1> DEFINE g == [heap EXCEPT ![at] = o]
<1>3. GoodHeap(g) /\ Grows(heap, g)
  BY <1>2, Stored
<1> HIDE DEF g
<1>4. AllStand(g, registers, exact) /\ \A i \in 1..Len(calls) : Caller(g, calls[i])
  BY <1>2, <1>3, AllStandLater, CallersLater
<1>5. heap' = g
  BY <1>1 DEF g
<1> QED
  BY <1>1, <1>3, <1>4, <1>5 DEF VmInv

LEMMA SkipKeeps == ASSUME VmInv, Skip, calls' = calls PROVE VmInv'
  BY DEF VmInv, Skip

(***************************************************************************)
(* Numbers.                                                                 *)
(***************************************************************************)
LEMMA SmallStands ==
    ASSUME NEW h, NEW n \in Int
    PROVE  Stands(h, BOX_INT(n), BOX_INT(n))
<1>1. BOX_INT(n).k = "int" /\ BOX_INT(n).n = n
  BY DEF BOX_INT
<1>2. is_integer(h, BOX_INT(n)) /\ as_i128(h, BOX_INT(n)) = n /\ ~IS_PTR(BOX_INT(n))
  BY <1>1 DEF is_integer, as_i128, IS_PTR
<1> QED
  BY <1>1, <1>2 DEF Stands

\* A number that is allocated stands for itself.
LEMMA AllocStands ==
    ASSUME NEW h, GoodHeap(h), NEW type \in {"I64", "I128"}, NEW n
    PROVE  LET m == Alloc(h, Obj(type, n))
           IN  GoodHeap(m.h) /\ Grows(h, m.h) /\ (n \in Int => Stands(m.h, m.v, BOX_INT(n)))
<1> DEFINE o == Obj(type, n)
           g == Append(h, o)
           v == BOX_PTR(Len(h) + 1)
<1>1. GoodObject(o) /\ o.type = type /\ o.x = n
  BY PlainObject
<1> HIDE DEF o
<1>2. GoodHeap(g) /\ Grows(h, g) /\ Len(g) = Len(h) + 1 /\ g[Len(h) + 1] = o /\ Len(h) \in Nat
  BY <1>1, Allocated, HeapLen
<1>3. Alloc(h, o).h = g /\ Alloc(h, o).v = v
  BY DEF Alloc
<1>4. v.k = "ptr" /\ v.at = Len(h) + 1
  BY DEF BOX_PTR
<1> HIDE DEF g, v
<1>5. IS_PTR(v) /\ type_id(g, v) = type
  BY <1>1, <1>2, <1>4 DEF IS_PTR, type_id
<1>6. is_integer(g, v)
  BY <1>5 DEF is_integer
<1>7. as_i128(g, v) = n
  BY <1>1, <1>2, <1>4, <1>5 DEF as_i128
<1>8. BOX_INT(n).k = "int" /\ BOX_INT(n).n = n
  BY DEF BOX_INT
<1>9. n \in Int => Stands(g, v, BOX_INT(n))
  BY <1>2, <1>4, <1>6, <1>7, <1>8 DEF Stands
<1> QED
  BY <1>2, <1>3, <1>9 DEF o

LEMMA SameStands ==
    ASSUME NEW h, NEW v
    PROVE  Same(h, v).h = h /\ Same(h, v).v = v
  BY DEF Same

\* However an integer is boxed, the word stands for it.
LEMMA Made128 ==
    ASSUME NEW h, GoodHeap(h), NEW n
    PROVE  LET m == make_i128(h, n)
           IN  GoodHeap(m.h) /\ Grows(h, m.h) /\ (n \in Int => Stands(m.h, m.v, BOX_INT(n)))
<1>1. CASE n \in Signed(SMI_BITS)
  <2>1. make_i128(h, n) = Same(h, BOX_INT(n))
    BY <1>1 DEF make_i128
  <2> QED
    BY <2>1, SameStands, SmallStands, GrowsSelf
<1>2. CASE n \notin Signed(SMI_BITS) /\ n \in Signed(I64_BITS)
  <2>1. make_i128(h, n) = Alloc(h, Obj("I64", n))
    BY <1>2 DEF make_i128
  <2> QED
    BY <2>1, AllocStands
<1>3. CASE n \notin Signed(SMI_BITS) /\ n \notin Signed(I64_BITS)
  <2>1. make_i128(h, n) = Alloc(h, Obj("I128", n))
    BY <1>3 DEF make_i128
  <2> QED
    BY <2>1, AllocStands
<1> QED
  BY <1>1, <1>2, <1>3

LEMMA Made64 ==
    ASSUME NEW h, GoodHeap(h), NEW n
    PROVE  LET m == make_i64(h, n)
           IN  GoodHeap(m.h) /\ Grows(h, m.h) /\ (n \in Int => Stands(m.h, m.v, BOX_INT(n)))
<1>1. CASE n \in Signed(SMI_BITS)
  <2>1. make_i64(h, n) = Same(h, BOX_INT(n))
    BY <1>1 DEF make_i64
  <2> QED
    BY <2>1, SameStands, SmallStands, GrowsSelf
<1>2. CASE n \notin Signed(SMI_BITS)
  <2>1. make_i64(h, n) = Alloc(h, Obj("I64", n))
    BY <1>2 DEF make_i64
  <2> QED
    BY <2>1, AllocStands
<1> QED
  BY <1>1, <1>2

LEMMA AllocKeeps ==
    ASSUME NEW h, GoodHeap(h), NEW o, GoodObject(o)
    PROVE  GoodHeap(Alloc(h, o).h) /\ Grows(h, Alloc(h, o).h)
  BY Allocated DEF Alloc

LEMMA FloatKeeps ==
    ASSUME NEW h, GoodHeap(h), NEW q
    PROVE  GoodHeap(make_float(h, q).h) /\ Grows(h, make_float(h, q).h)
  BY AllocKeeps, PlainObject DEF make_float

LEMMA StringKeeps ==
    ASSUME NEW h, GoodHeap(h), NEW q
    PROVE  GoodHeap(lm_box_string(h, q).h) /\ Grows(h, lm_box_string(h, q).h)
  BY AllocKeeps, PlainObject DEF lm_box_string

\* The sum, the difference, the product: the number if it fits, else nil.
Fitting(n) == IF n \in Signed(I128_BITS) THEN BOX_INT(n) ELSE VAL_NIL

LEMMA ArithmeticKeeps ==
    ASSUME NEW h, GoodHeap(h), NEW a, NEW b, NEW n, NEW q
    PROVE  LET m == Arithmetic(h, a, b, n, q)
           IN  /\ GoodHeap(m.h) /\ Grows(h, m.h)
               /\ is_integer(h, a) /\ is_integer(h, b) /\ n \in Int =>
                     Stands(m.h, m.v, Fitting(n))
<1> DEFINE m == Arithmetic(h, a, b, n, q)
<1>0. Same(h, VAL_NIL).h = h /\ Grows(h, h)
  BY SameStands, GrowsSelf
<1>1. CASE is_integer(h, a) /\ is_integer(h, b)
  <2>1. CASE n \in Signed(I128_BITS)
    <3>1. m = make_i128(h, n)
      BY <1>1, <2>1 DEF Arithmetic
    <3> HIDE DEF m
    <3>2. GoodHeap(m.h) /\ Grows(h, m.h) /\ (n \in Int => Stands(m.h, m.v, BOX_INT(n)))
      BY <3>1, Made128
    <3>3. Fitting(n) = BOX_INT(n)
      BY <2>1 DEF Fitting
    <3> QED
      BY <3>2, <3>3 DEF m
  <2>2. CASE n \notin Signed(I128_BITS)
    <3>1. m = Same(h, VAL_NIL)
      BY <1>1, <2>2 DEF Arithmetic
    <3>2. Fitting(n) = VAL_NIL
      BY <2>2 DEF Fitting
    <3> HIDE DEF m
    <3>3. GoodHeap(m.h) /\ Grows(h, m.h) /\ Stands(m.h, m.v, Fitting(n))
      BY <1>0, <3>1, <3>2, NilStands
    <3> QED
      BY <3>3 DEF m
  <2> QED
    BY <2>1, <2>2
<1>2. CASE ~(is_integer(h, a) /\ is_integer(h, b))
  <2>1. m = make_float(h, q) \/ m = Same(h, VAL_NIL)
    BY <1>2 DEF Arithmetic
  <2> HIDE DEF m
  <2>2. GoodHeap(m.h) /\ Grows(h, m.h)
    BY <1>0, <2>1, FloatKeeps
  <2> QED
    BY <1>2, <2>2 DEF m
<1> QED
  BY <1>1, <1>2

\* The numbers of 128 bits, by the arithmetic of MachineAssumption.
LEMMA Wide ==
    /\ Signed(I128_BITS) \subseteq Int
    /\ 2^I128_BITS \notin Signed(I128_BITS)
    /\ \A n \in Signed(I128_BITS) : Wrap(n, I128_BITS) = n
<1> DEFINE P == 2^(I128_BITS - 1)
           Q == 2^I128_BITS
<1>1. P \in Nat \ {0} /\ Q = 2 * P
  BY MachineAssumption
<1>2. Signed(I128_BITS) = (-P) .. (P - 1) /\ \A n : Wrap(n, I128_BITS) = ((n + P) % Q) - P
  BY DEF Signed, Wrap
<1> HIDE DEF P, Q
<1>3. Signed(I128_BITS) \subseteq Int /\ Q \notin Signed(I128_BITS)
  BY <1>1, <1>2
<1>4. ASSUME NEW n \in Signed(I128_BITS) PROVE Wrap(n, I128_BITS) = n
  <2>1. n \in Int /\ 0 <= n + P /\ n + P < Q
    BY <1>1, <1>2
  <2>2. (n + P) % Q = n + P
    BY <1>1, <2>1
  <2>3. Wrap(n, I128_BITS) = ((n + P) % Q) - P
    BY <1>2, Zenon
  <2>4. (n + P) - P = n
    BY <1>1, <2>1
  <2> QED
    BY <2>2, <2>3, <2>4
<1> QED
  BY <1>3, <1>4 DEF Q

\* What is known of a register.
LEMMA KnownRegister ==
    ASSUME VmInv, NEW a \in Reg
    PROVE  /\ exact[a].k = "int" => /\ is_integer(heap, registers[a])
                                    /\ as_i128(heap, registers[a]) = exact[a].n /\ exact[a].n \in Int
           /\ exact[a].k = "bool" => registers[a] = exact[a] /\ exact[a] = VAL_BOOL(exact[a].b)
           /\ Stands(heap, registers[a], exact[a])
  BY DEF VmInv, AllStand, Stands

Sums == {"Add", "DecAdd"}
Differences == {"Sub", "DecSub"}
Products == {"Mul", "DecMul"}
Quotients == {"Div", "DecDiv"}
Negations == {"Neg", "DecNeg"}

LEMMA Meanings ==
    ASSUME NEW op, NEW a, NEW b
    PROVE  /\ ~(exact[a].k = "int" /\ exact[b].k = "int") => Meaning(op, a, b) = VAL_NIL
           /\ exact[a].k = "int" /\ exact[b].k = "int" =>
                 /\ op \in Sums => Meaning(op, a, b) = Fitting(exact[a].n + exact[b].n)
                 /\ op \in Differences => Meaning(op, a, b) = Fitting(exact[a].n - exact[b].n)
                 /\ op \in Products => Meaning(op, a, b) = Fitting(exact[a].n * exact[b].n)
                 /\ op \in Negations => Meaning(op, a, b) = Fitting(-exact[a].n)
  BY DEF Meaning, Fitting, Sums, Differences, Products, Negations

LEMMA QuotientMeaning ==
    ASSUME NEW op \in Quotients, NEW a, NEW b, exact[a].k = "int", exact[b].k = "int",
           exact[a].n \in Int, exact[b].n \in Int
    PROVE  Meaning(op, a, b) = IF exact[b].n = 0 THEN VAL_NIL
                               ELSE Fitting(Truncated(IF exact[b].n < 0 THEN << -exact[a].n, -exact[b].n >>
                                                      ELSE << exact[a].n, exact[b].n >>))
<1> DEFINE i == exact[a].n
           j == exact[b].n
           s == IF j < 0 THEN -1 ELSE 1
           n == IF j = 0 THEN 2^I128_BITS ELSE Truncated(<< s * i, s * j >>)
<1>1. Meaning(op, a, b) = Fitting(n)
  BY DEF Meaning, Fitting, Quotients
<1>2. << s * i, s * j >> = IF j < 0 THEN << -i, -j >> ELSE << i, j >>
  <2>1. CASE j < 0
    <3>1. s * i = -i /\ s * j = -j
      BY <2>1
    <3> QED
      BY <2>1, <3>1
  <2>2. CASE ~(j < 0)
    <3>1. s * i = i /\ s * j = j
      BY <2>2
    <3> QED
      BY <2>2, <3>1
  <2> QED
    BY <2>1, <2>2
<1>3. CASE j = 0
  BY <1>1, <1>3, Wide DEF Fitting
<1>4. CASE j # 0
  BY <1>1, <1>2, <1>4
<1> QED
  BY <1>3, <1>4

\* The machine's division: the quotient wraps, but one that fits is the number.
LEMMA DivisionKeeps ==
    ASSUME VmInv, NEW op \in Quotients, NEW a \in Reg, NEW b \in Reg
    PROVE  LET m == lm_div(heap, registers[a], registers[b])
           IN  GoodHeap(m.h) /\ Grows(heap, m.h) /\ Stands(m.h, m.v, Meaning(op, a, b))
<1> DEFINE x == registers[a]
           y == registers[b]
           i == as_i128(heap, x)
           j == as_i128(heap, y)
           m == lm_div(heap, x, y)
           nil == Same(heap, VAL_NIL)
           both == exact[a].k = "int" /\ exact[b].k = "int"
<1>0. GoodHeap(heap) /\ Grows(heap, heap) /\ nil.h = heap /\ nil.v = VAL_NIL
  BY GrowsSelf, SameStands DEF VmInv
<1>1. m = nil \/ m = make_i128(heap, Quotient(i, j)) \/ \E q : m = make_float(heap, q)
  BY DEF lm_div
<1>2. both => is_integer(heap, x) /\ is_integer(heap, y) /\ i = exact[a].n /\ j = exact[b].n
               /\ i \in Int /\ j \in Int
  BY KnownRegister
<1>3. both /\ j = 0 => m = nil
  BY <1>2 DEF lm_div
<1>4. both /\ j # 0 => m = make_i128(heap, Quotient(i, j))
  BY <1>2 DEF lm_div
<1>5. ~both => Meaning(op, a, b) = VAL_NIL
  BY Meanings
<1>6. Quotient(i, j) = Wrap(Truncated(IF j < 0 THEN << -i, -j >> ELSE << i, j >>), I128_BITS)
  BY DEF Quotient
<1> DEFINE t == Truncated(IF j < 0 THEN << -i, -j >> ELSE << i, j >>)
<1>7. both => Meaning(op, a, b) = IF j = 0 THEN VAL_NIL ELSE Fitting(t)
  BY <1>2, QuotientMeaning
<1> HIDE DEF m, nil, both, t
<1>8. GoodHeap(m.h) /\ Grows(heap, m.h)
  BY <1>0, <1>1, Made128, FloatKeeps
<1>9. Stands(m.h, m.v, Meaning(op, a, b))
  <2>1. CASE ~both \/ (both /\ j = 0) \/ t \notin Signed(I128_BITS)
    <3>1. Meaning(op, a, b) = VAL_NIL
      BY <1>5, <1>7, <2>1 DEF Fitting
    <3> QED
      BY <3>1, NilStands
  <2>2. CASE both /\ j # 0 /\ t \in Signed(I128_BITS)
    <3>1. t \in Int /\ Quotient(i, j) = t
      BY <1>6, <2>2, Wide DEF t
    <3>2. m = make_i128(heap, t)
      BY <1>4, <2>2, <3>1
    <3>3. Meaning(op, a, b) = BOX_INT(t)
      BY <1>7, <2>2 DEF Fitting
    <3> QED
      BY <1>0, <3>1, <3>2, <3>3, Made128
  <2> QED
    BY <2>1, <2>2
<1> QED
  BY <1>8, <1>9 DEF m

(***************************************************************************)
(* The instructions.                                                        *)
(***************************************************************************)
LEMMA FetchLocal == ASSUME Local PROVE calls' = calls
  BY DEF Local

LEMMA LoadConstKeeps ==
    ASSUME VmInv, NEW dst \in Reg, NEW c \in Constants, LoadConst(dst, c)
    PROVE  VmInv'
<1>0. calls' = calls /\ GoodHeap(heap) /\ Grows(heap, heap)
  BY GrowsSelf DEF LoadConst, Local, VmInv
<1>1. CASE c.k = "int"
  <2>1. Write(dst, make_i64(heap, c.n), c) /\ c.n \in Int /\ c = BOX_INT(c.n)
    BY <1>1, MachineAssumption DEF LoadConst
  <2>2. LET m == make_i64(heap, c.n)
        IN  GoodHeap(m.h) /\ Grows(heap, m.h) /\ Stands(m.h, m.v, c)
    BY <1>0, <2>1, Made64
  <2> QED
    BY <1>0, <2>1, <2>2, WriteKeeps
<1>2. CASE c.k = "bool"
  <2>1. Write(dst, Same(heap, c), c) /\ c = VAL_BOOL(c.b)
    BY <1>2, MachineAssumption DEF LoadConst
  <2>2. Stands(heap, c, c)
    BY <1>2, <2>1 DEF Stands
  <2> QED
    BY <1>0, <2>1, <2>2, SameStands, WriteKeeps
<1>3. CASE c.k = "string"
  <2>1. Write(dst, lm_box_string(heap, c.s), VAL_NIL)
    BY <1>3 DEF LoadConst
  <2> QED
    BY <1>0, <2>1, StringKeeps, NilStands, WriteKeeps
<1>4. CASE c.k \notin {"int", "bool", "string"}
  <2>1. Write(dst, Same(heap, VAL_NIL), VAL_NIL)
    BY <1>4 DEF LoadConst
  <2> QED
    BY <1>0, <2>1, SameStands, NilStands, WriteKeeps
<1> QED
  BY <1>1, <1>2, <1>3, <1>4

LEMMA MovKeeps ==
    ASSUME VmInv, NEW dst \in Reg, NEW a \in Reg, Mov(dst, a)
    PROVE  VmInv'
<1>1. calls' = calls /\ GoodHeap(heap) /\ Grows(heap, heap)
      /\ Write(dst, Same(heap, registers[a]), exact[a])
  BY GrowsSelf DEF Mov, Local, VmInv
<1> QED
  BY <1>1, KnownRegister, SameStands, WriteKeeps

LEMMA ArithmeticStep ==
    ASSUME VmInv, NEW op, NEW dst \in Reg, NEW a \in Reg, NEW b \in Reg, Local,
           NEW n, NEW q, Write(dst, Arithmetic(heap, registers[a], registers[b], n, q), Meaning(op, a, b)),
           exact[a].k = "int" /\ exact[b].k = "int" => n \in Int /\ Meaning(op, a, b) = Fitting(n)
    PROVE  VmInv'
<1>1. calls' = calls /\ GoodHeap(heap)
  BY DEF Local, VmInv
<1> DEFINE m == Arithmetic(heap, registers[a], registers[b], n, q)
<1>2. /\ GoodHeap(m.h) /\ Grows(heap, m.h)
      /\ is_integer(heap, registers[a]) /\ is_integer(heap, registers[b]) /\ n \in Int =>
            Stands(m.h, m.v, Fitting(n))
  BY <1>1, ArithmeticKeeps
<1> HIDE DEF m
<1>3. Stands(m.h, m.v, Meaning(op, a, b))
  <2>1. CASE exact[a].k = "int" /\ exact[b].k = "int"
    BY <1>2, <2>1, KnownRegister
  <2>2. CASE ~(exact[a].k = "int" /\ exact[b].k = "int")
    BY <2>2, Meanings, NilStands
  <2> QED
    BY <2>1, <2>2
<1> QED
  BY <1>1, <1>2, <1>3, WriteKeeps DEF m

LEMMA ArithmeticOpKeeps ==
    ASSUME VmInv, NEW op \in ArithmeticOps, NEW dst \in Reg, NEW a \in Reg, NEW b \in Reg,
           execute_arithmetic(op, dst, a, b)
    PROVE  VmInv'
<1> DEFINE x == registers[a]
           y == registers[b]
           i == as_i128(heap, x)
           j == as_i128(heap, y)
<1>0. Local /\ calls' = calls /\ GoodHeap(heap) /\ Grows(heap, heap)
  BY GrowsSelf DEF execute_arithmetic, Local, VmInv
<1>1. /\ exact[a].k = "int" => i = exact[a].n /\ i \in Int
      /\ exact[b].k = "int" => j = exact[b].n /\ j \in Int
  BY KnownRegister
<1>2. CASE op \in Sums
  <2>1. Write(dst, lm_add(heap, x, y), Meaning(op, a, b))
    BY <1>2 DEF execute_arithmetic, Sums
  <2>2. PICK q : lm_add(heap, x, y) = Arithmetic(heap, x, y, i + j, q)
    BY DEF lm_add
  <2>3. exact[a].k = "int" /\ exact[b].k = "int" => i + j \in Int /\ Meaning(op, a, b) = Fitting(i + j)
    BY <1>1, <1>2, Meanings
  <2> QED
    BY <1>0, <2>1, <2>2, <2>3, ArithmeticStep
<1>3. CASE op \in Differences
  <2>1. Write(dst, lm_sub(heap, x, y), Meaning(op, a, b))
    BY <1>3 DEF execute_arithmetic, Differences
  <2>2. PICK q : lm_sub(heap, x, y) = Arithmetic(heap, x, y, i - j, q)
    BY DEF lm_sub
  <2>3. exact[a].k = "int" /\ exact[b].k = "int" => i - j \in Int /\ Meaning(op, a, b) = Fitting(i - j)
    BY <1>1, <1>3, Meanings
  <2> QED
    BY <1>0, <2>1, <2>2, <2>3, ArithmeticStep
<1>4. CASE op \in Products
  <2>1. Write(dst, lm_mul(heap, x, y), Meaning(op, a, b))
    BY <1>4 DEF execute_arithmetic, Products
  <2>2. PICK q : lm_mul(heap, x, y) = Arithmetic(heap, x, y, i * j, q)
    BY DEF lm_mul
  <2>3. exact[a].k = "int" /\ exact[b].k = "int" => i * j \in Int /\ Meaning(op, a, b) = Fitting(i * j)
    BY <1>1, <1>4, Meanings
  <2> QED
    BY <1>0, <2>1, <2>2, <2>3, ArithmeticStep
<1>5. CASE op \in Quotients
  <2>1. Write(dst, lm_div(heap, x, y), Meaning(op, a, b))
    BY <1>5 DEF execute_arithmetic, Quotients
  <2> QED
    BY <1>0, <1>5, <2>1, DivisionKeeps, WriteKeeps
<1>6. CASE op \in Negations
  <2> DEFINE zero == BOX_INT(0)
             m == lm_sub(heap, zero, x)
  <2>1. Write(dst, m, Meaning(op, a, a))
    BY <1>6 DEF execute_arithmetic, Negations
  <2>2. is_integer(heap, zero) /\ as_i128(heap, zero) = 0
    BY SmallStands DEF Stands, BOX_INT
  <2>3. PICK q : m = Arithmetic(heap, zero, x, 0 - i, q)
    BY <2>2 DEF lm_sub
  <2> HIDE DEF m, zero
  <2>4. /\ GoodHeap(m.h) /\ Grows(heap, m.h)
        /\ is_integer(heap, zero) /\ is_integer(heap, x) /\ 0 - i \in Int =>
              Stands(m.h, m.v, Fitting(0 - i))
    BY <1>0, <2>3, ArithmeticKeeps
  <2>5. Stands(m.h, m.v, Meaning(op, a, a))
    <3>1. CASE exact[a].k = "int"
      <4>1. 0 - i \in Int /\ 0 - i = -exact[a].n /\ is_integer(heap, x)
        BY <1>1, <3>1, KnownRegister
      <4>2. Meaning(op, a, a) = Fitting(-exact[a].n)
        BY <1>6, <3>1, Meanings
      <4> QED
        BY <2>2, <2>4, <4>1, <4>2
    <3>2. CASE exact[a].k # "int"
      BY <3>2, Meanings, NilStands
    <3> QED
      BY <3>1, <3>2
  <2> QED
    BY <1>0, <2>1, <2>4, <2>5, WriteKeeps
<1>7. CASE op = "DecMod"
  <2>1. Write(dst, Same(heap, VAL_NIL), VAL_NIL)
    BY <1>7 DEF execute_arithmetic
  <2> QED
    BY <1>0, <2>1, SameStands, NilStands, WriteKeeps
<1>8. CASE op = "DecRescale"
  <2>1. Write(dst, Same(heap, x), exact[a])
    BY <1>8 DEF execute_arithmetic
  <2> QED
    BY <1>0, <2>1, SameStands, KnownRegister, WriteKeeps
<1>9. CASE op = "Mod"
  BY <1>0, <1>9, SkipKeeps DEF execute_arithmetic
<1> QED
  BY <1>2, <1>3, <1>4, <1>5, <1>6, <1>7, <1>8, <1>9
  DEF ArithmeticOps, Sums, Differences, Products, Quotients, Negations

\* Two integers are compared as numbers, however they are boxed.
LEMMA IntegersCompare ==
    ASSUME NEW h, NEW v, NEW w, is_integer(h, v), is_integer(h, w),
           as_i128(h, v) \in Int, as_i128(h, w) \in Int
    PROVE  LET c == numeric_compare(h, v, w)
           IN  /\ as_i128(h, v) < as_i128(h, w) => c = -1
               /\ as_i128(h, v) = as_i128(h, w) => c = 0
               /\ as_i128(h, v) > as_i128(h, w) => c = 1
<1> DEFINE i == as_i128(h, v)
           j == as_i128(h, w)
<1>1. ~is_float(h, v) /\ ~is_float(h, w)
  BY DEF is_integer, is_float, type_id, IS_PTR
<1>2. is_numeric(h, v) /\ is_numeric(h, w)
  BY DEF is_numeric
<1>3. CASE v = w
  <2>1. numeric_compare(h, v, w) = 0
    BY <1>3 DEF numeric_compare
  <2> QED
    BY <1>3, <2>1
<1>4. CASE v # w
  <2>1. numeric_compare(h, v, w) = IF i < j THEN -1 ELSE IF i > j THEN 1 ELSE 0
    BY <1>1, <1>2, <1>4 DEF numeric_compare
  <2> HIDE DEF i, j
  <2>2. i \in Int /\ j \in Int
    BY DEF i, j
  <2>3. /\ i < j => numeric_compare(h, v, w) = -1
        /\ i = j => numeric_compare(h, v, w) = 0
        /\ i > j => numeric_compare(h, v, w) = 1
    BY <2>1, <2>2
  <2> QED
    BY <2>3 DEF i, j
<1> QED
  BY <1>3, <1>4

LEMMA ComparisonKeeps ==
    ASSUME VmInv, NEW op \in Comparisons, NEW dst \in Reg, NEW a \in Reg, NEW b \in Reg,
           execute_comparison(op, dst, a, b)
    PROVE  VmInv'
<1> DEFINE cmp == numeric_compare(heap, registers[a], registers[b])
           both == exact[a].k = "int" /\ exact[b].k = "int"
           v == VAL_BOOL(Compared(op, cmp < 0, cmp = 0))
           e == IF both THEN VAL_BOOL(Compared(op, exact[a].n < exact[b].n, exact[a].n = exact[b].n))
                ELSE VAL_NIL
<1>0. calls' = calls /\ GoodHeap(heap) /\ Grows(heap, heap) /\ Write(dst, Same(heap, v), e)
  BY GrowsSelf DEF execute_comparison, Local, VmInv
<1>1. Stands(heap, v, e)
  <2>1. CASE both
    <3> DEFINE i == exact[a].n
               j == exact[b].n
    <3>1. /\ is_integer(heap, registers[a]) /\ as_i128(heap, registers[a]) = i /\ i \in Int
          /\ is_integer(heap, registers[b]) /\ as_i128(heap, registers[b]) = j /\ j \in Int
      BY <2>1, KnownRegister
    <3>2. (i < j => cmp = -1) /\ (i = j => cmp = 0) /\ (i > j => cmp = 1)
      BY <3>1, IntegersCompare
    <3> HIDE DEF i, j, cmp
    <3>3. (cmp < 0) = (i < j) /\ (cmp = 0) = (i = j)
      BY <3>1, <3>2
    <3>4. v = e
      BY <2>1, <3>3, Zenon DEF i, j
    <3>5. e.k = "bool" /\ e = VAL_BOOL(e.b)
      BY <2>1 DEF VAL_BOOL
    <3> QED
      BY <3>4, <3>5 DEF Stands
  <2>2. CASE ~both
    BY <2>2, NilStands
  <2> QED
    BY <2>1, <2>2
<1> HIDE DEF v, e
<1> QED
  BY <1>0, <1>1, SameStands, WriteKeeps

LEMMA BitwiseKeeps ==
    ASSUME VmInv, NEW op, NEW dst \in Reg, NEW a \in Reg, NEW b \in Reg,
           execute_bitwise(op, dst, a, b)
    PROVE  VmInv'
<1>1. calls' = calls /\ GoodHeap(heap)
  BY DEF execute_bitwise, Local, VmInv
<1>2. PICK n : Write(dst, make_i64(heap, n), VAL_NIL)
  BY DEF execute_bitwise
<1> QED
  BY <1>1, <1>2, Made64, NilStands, WriteKeeps

LEMMA CastKeeps ==
    ASSUME VmInv, NEW type, NEW dst \in Reg, NEW a \in Reg, execute_cast(type, dst, a)
    PROVE  VmInv'
<1> DEFINE v == registers[a]
<1>0. calls' = calls /\ GoodHeap(heap) /\ Grows(heap, heap)
  BY GrowsSelf DEF execute_cast, Local, VmInv
<1>1. CASE type = "I64"
  <2>1. Write(dst, make_i64(heap, as_i64(heap, v)), VAL_NIL)
    BY <1>1 DEF execute_cast
  <2> QED
    BY <1>0, <2>1, Made64, NilStands, WriteKeeps
<1>2. CASE type = "F64"
  <2>1. Write(dst, make_float(heap, as_float(heap, v)), VAL_NIL)
    BY <1>2 DEF execute_cast
  <2> QED
    BY <1>0, <2>1, FloatKeeps, NilStands, WriteKeeps
<1>3. CASE type = "Bool"
  <2> DEFINE w == VAL_BOOL(to_bool(heap, v))
             e == IF exact[a].k = "int" THEN VAL_BOOL(exact[a].n # 0) ELSE exact[a]
  <2>1. Write(dst, Same(heap, w), e)
    BY <1>3 DEF execute_cast
  <2>2. Stands(heap, w, e)
    <3>1. CASE exact[a].k = "int"
      <4>1. is_integer(heap, v) /\ as_i128(heap, v) = exact[a].n
        BY <3>1, KnownRegister
      <4>2. /\ v.k # "bool" /\ v.k # "nil"
            /\ type_id(heap, v) # "FLOAT" /\ type_id(heap, v) # "BOX_STRING"
        BY <4>1 DEF is_integer, type_id, IS_PTR
      <4>3. to_bool(heap, v) = (exact[a].n # 0)
        BY <4>1, <4>2 DEF to_bool
      <4>4. w = e /\ e = VAL_BOOL(exact[a].n # 0)
        BY <3>1, <4>3
      <4>5. e.k = "bool" /\ e.b = (exact[a].n # 0)
        BY <4>4 DEF VAL_BOOL
      <4> HIDE DEF w, e
      <4> QED
        BY <4>4, <4>5 DEF Stands
    <3>2. CASE exact[a].k = "bool"
      <4>1. v = exact[a] /\ v = VAL_BOOL(v.b) /\ v.k = "bool"
        BY <3>2, KnownRegister
      <4>2. v.k # "nil" /\ ~is_integer(heap, v) /\ type_id(heap, v) = ""
        BY <4>1 DEF is_integer, type_id, IS_PTR
      <4>4. to_bool(heap, v) = v.b
        BY <4>1, <4>2 DEF to_bool
      <4>3. w = e /\ e = v
        BY <3>2, <4>1, <4>4
      <4> HIDE DEF w, e
      <4> QED
        BY <3>2, <4>1, <4>3 DEF Stands
    <3>3. CASE exact[a].k # "int" /\ exact[a].k # "bool"
      BY <3>3 DEF Stands
    <3> QED
      BY <3>1, <3>2, <3>3
  <2> HIDE DEF w, e
  <2> QED
    BY <1>0, <2>1, <2>2, SameStands, WriteKeeps
<1>4. CASE type \notin {"I64", "F64", "Bool"}
  BY <1>0, <1>4, SkipKeeps DEF execute_cast
<1> QED
  BY <1>1, <1>2, <1>3, <1>4

LEMMA StringsKeep ==
    ASSUME VmInv, NEW op, NEW dst \in Reg, NEW a \in Reg, NEW b \in Reg,
           execute_strings(op, dst, a, b)
    PROVE  VmInv'
<1>1. calls' = calls /\ GoodHeap(heap)
  BY DEF execute_strings, Local, VmInv
<1>2. PICK s : Write(dst, lm_box_string(heap, s), VAL_NIL)
  BY DEF execute_strings
<1> QED
  BY <1>1, <1>2, StringKeeps, NilStands, WriteKeeps

LEMMA IoKeeps == ASSUME VmInv, NEW op, NEW a \in Reg, execute_io(op, a) PROVE VmInv'
  BY SkipKeeps DEF execute_io

LEMMA GlobalsKeep ==
    ASSUME VmInv, NEW dst \in Reg, NEW g, LoadGlobal(dst, g) \/ StoreGlobal(g, dst)
    PROVE  VmInv'
<1>0. GoodHeap(heap) /\ Grows(heap, heap)
  BY GrowsSelf DEF VmInv
<1>1. CASE LoadGlobal(dst, g)
  <2>1. PICK v : Write(dst, Same(heap, v), VAL_NIL) /\ calls' = calls
    BY <1>1 DEF LoadGlobal
  <2> QED
    BY <1>0, <2>1, SameStands, NilStands, WriteKeeps
<1>2. CASE StoreGlobal(g, dst)
  BY <1>2, SkipKeeps DEF StoreGlobal
<1> QED
  BY <1>1, <1>2

(***************************************************************************)
(* Objects.                                                                 *)
(***************************************************************************)
\* A change to a field leaves the type of an object alone.
LEMMA FieldChange ==
    ASSUME NEW o, "type" \in DOMAIN o, NEW f, f # "type", NEW v
    PROVE  "type" \in DOMAIN [o EXCEPT ![f] = v] /\ [o EXCEPT ![f] = v].type = o.type
  OBVIOUS

\* The object a register of type "type" points to.
LEMMA Pointed ==
    ASSUME VmInv, NEW a \in Reg, NEW type, Of(a, type), IS_PTR(registers[a]),
           registers[a].at \in 1..Len(heap)
    PROVE  Object(a) = heap[registers[a].at] /\ Object(a).type = type /\ GoodObject(Object(a))
  BY DEF Of, type_id, Object, VmInv, GoodHeap

\* A list, tuple or frame is replaced by one of the same type.
LEMMA ReplaceKeeps ==
    ASSUME VmInv, NEW a \in Reg, NEW type \in {"LIST", "TUPLE", "FRAME"}, Of(a, type),
           IS_PTR(registers[a]), NEW o, Store(registers[a].at, o), calls' = calls,
           Object(a).type = type /\ GoodObject(Object(a)) => GoodObject(o)
    PROVE  VmInv'
<1>1. ASSUME registers[a].at \in 1..Len(heap)
      PROVE  GoodObject(o) /\ heap[registers[a].at].type \notin NumberTypes
  <2>1. Object(a) = heap[registers[a].at] /\ Object(a).type = type /\ GoodObject(Object(a))
    BY <1>1, Pointed
  <2> QED
    BY <2>1 DEF GoodObject, NumberTypes
<1> QED
  BY <1>1, StoreKeeps

LEMMA NewObject ==
    ASSUME VmInv, NEW dst \in Reg, NEW o, GoodObject(o),
           Write(dst, Alloc(heap, o), VAL_NIL), calls' = calls
    PROVE  VmInv'
<1>1. GoodHeap(heap)
  BY DEF VmInv
<1> QED
  BY <1>1, AllocKeeps, NilStands, WriteKeeps

\* A value of which nothing is known is read.
LEMMA ReadKeeps ==
    ASSUME VmInv, NEW dst \in Reg, NEW v, Write(dst, Same(heap, v), VAL_NIL), calls' = calls
    PROVE  VmInv'
<1>1. GoodHeap(heap) /\ Grows(heap, heap)
  BY GrowsSelf DEF VmInv
<1> QED
  BY <1>1, SameStands, NilStands, WriteKeeps

LEMMA TupleType ==
    ASSUME NEW o, "type" \in DOMAIN o, NEW i, NEW v
    PROVE  "type" \in DOMAIN lm_tuple_set(o, i, v) /\ lm_tuple_set(o, i, v).type = o.type
<1>1. CASE i >= Len(o.elements)
  BY <1>1 DEF lm_tuple_set
<1>2. CASE ~(i >= Len(o.elements))
  <2> DEFINE p == [o EXCEPT !.elements[i + 1] = v]
             q == [p EXCEPT !.size = IF i >= o.size THEN i + 1 ELSE o.size]
  <2>1. p = [o EXCEPT !.elements = [o.elements EXCEPT ![i + 1] = v]]
    OBVIOUS
  <2>2. "type" \in DOMAIN p /\ p.type = o.type /\ p.size = o.size
    BY <2>1
  <2>3. "type" \in DOMAIN q /\ q.type = p.type
    BY <2>2
  <2>4. lm_tuple_set(o, i, v) = q
    BY <1>2, <2>2 DEF lm_tuple_set
  <2> QED
    BY <2>2, <2>3, <2>4
<1> QED
  BY <1>1, <1>2

LEMMA FrameType ==
    ASSUME NEW o, "type" \in DOMAIN o, NEW i, NEW v
    PROVE  "type" \in DOMAIN lm_frame_set_field(o, i, v) /\ lm_frame_set_field(o, i, v).type = o.type
  BY DEF lm_frame_set_field

LEMMA AppendGood ==
    ASSUME NEW o, GoodObject(o), o.type = "LIST", NEW v
    PROVE  GoodObject(lm_list_append(o, v))
<1>1. PICK S : o.data \in Seq(S)
  BY DEF GoodObject
<1> DEFINE T == S \cup {v}
           d == Append(o.data, v)
           q == [o EXCEPT !.data = d]
<1>2. d \in Seq(T)
  <2>1. o.data \in Seq(T) /\ v \in T
    BY <1>1
  <2> HIDE DEF T
  <2> QED
    BY <2>1
<1>3. lm_list_append(o, v) = q
  BY DEF lm_list_append
<1> HIDE DEF T, d
<1>4. "type" \in DOMAIN q /\ q.type = "LIST" /\ (q.data = d \/ q.data = o.data)
  BY DEF GoodObject
<1> HIDE DEF q
<1> QED
  BY <1>1, <1>2, <1>3, <1>4 DEF GoodObject

LEMMA CollectionsKeep ==
    ASSUME VmInv, NEW op, NEW dst \in Reg, NEW a \in Reg, NEW b \in Reg,
           execute_collections(op, dst, a, b)
    PROVE  VmInv'
<1>0. calls' = calls
  BY DEF execute_collections, Local
<1>1. CASE op = "ListCreate"
  <2> DEFINE o == [type |-> "LIST", data |-> <<>>]
  <2>1. Write(dst, Alloc(heap, o), VAL_NIL)
    BY <1>1 DEF execute_collections
  <2>2. GoodObject(o)
    <3>1. <<>> \in Seq({})
      OBVIOUS
    <3>2. "type" \in DOMAIN o /\ o.type = "LIST" /\ o.data = <<>>
      OBVIOUS
    <3> HIDE DEF o
    <3> QED
      BY <3>1, <3>2 DEF GoodObject
  <2> HIDE DEF o
  <2> QED
    BY <1>0, <2>1, <2>2, NewObject
<1>2. CASE op = "ListAppend"
  <2> DEFINE o == lm_list_append(Object(a), registers[b])
  <2>1. Of(a, "LIST") /\ IF IS_PTR(registers[a]) THEN Store(registers[a].at, o) ELSE Skip
    BY <1>2 DEF execute_collections
  <2>2. Object(a).type = "LIST" /\ GoodObject(Object(a)) => GoodObject(o)
    BY AppendGood
  <2> HIDE DEF o
  <2> QED
    BY <1>0, <2>1, <2>2, ReplaceKeeps, SkipKeeps
<1>3. CASE op = "ListLen"
  <2> DEFINE n == Len(Object(a).data)
  <2>1. Of(a, "LIST") /\ IF IS_PTR(registers[a]) THEN Write(dst, make_i64(heap, n), BOX_INT(n)) ELSE Skip
    BY <1>3 DEF execute_collections
  <2>2. CASE IS_PTR(registers[a])
    <3>1. registers[a].at \in 1..Len(heap) /\ GoodHeap(heap)
      BY <2>1, <2>2, HeapLen DEF Of, VmInv
    <3>2. Object(a).type = "LIST" /\ GoodObject(Object(a))
      BY <2>1, <2>2, <3>1, Pointed
    <3>3. n \in Nat
      BY <3>2 DEF GoodObject
    <3> HIDE DEF n
    <3> QED
      BY <1>0, <2>1, <2>2, <3>1, <3>3, Made64, WriteKeeps
  <2>3. CASE ~IS_PTR(registers[a])
    BY <1>0, <2>1, <2>3, SkipKeeps
  <2> QED
    BY <2>2, <2>3
<1>4. CASE op = "TupleCreate"
  <2> DEFINE o == lm_tuple_new(a)
  <2>1. Write(dst, Alloc(heap, o), VAL_NIL)
    BY <1>4 DEF execute_collections
  <2>2. GoodObject(o)
    BY DEF GoodObject, lm_tuple_new
  <2> HIDE DEF o
  <2> QED
    BY <1>0, <2>1, <2>2, NewObject
<1>5. CASE op = "TupleSet"
  <2> DEFINE o == lm_tuple_set(Object(dst), a, registers[b])
  <2>1. Of(dst, "TUPLE") /\ IF IS_PTR(registers[dst]) THEN Store(registers[dst].at, o) ELSE Skip
    BY <1>5 DEF execute_collections
  <2>2. Object(dst).type = "TUPLE" /\ GoodObject(Object(dst)) => GoodObject(o)
    BY TupleType DEF GoodObject
  <2> HIDE DEF o
  <2> QED
    BY <1>0, <2>1, <2>2, ReplaceKeeps, SkipKeeps
<1>6. CASE op = "TupleGet"
  <2>1. IF IS_PTR(registers[a])
        THEN Write(dst, Same(heap, lm_tuple_get(Object(a), b)), VAL_NIL) ELSE Skip
    BY <1>6 DEF execute_collections
  <2> QED
    BY <1>0, <2>1, ReadKeeps, SkipKeeps
<1>7. CASE op \notin {"ListCreate", "ListAppend", "ListLen", "TupleCreate", "TupleSet", "TupleGet"}
  BY <1>0, <1>7, SkipKeeps DEF execute_collections
<1> QED
  BY <1>1, <1>2, <1>3, <1>4, <1>5, <1>6, <1>7

LEMMA FramesKeep ==
    ASSUME VmInv, NEW op, NEW dst \in Reg, NEW a \in Reg, NEW b \in Reg,
           execute_frames(op, dst, a, b)
    PROVE  VmInv'
<1>0. calls' = calls
  BY DEF execute_frames, Local
<1>1. CASE op = "NewFrame"
  <2> DEFINE o == lm_frame_alloc("Frame", a)
  <2>1. Write(dst, Alloc(heap, o), VAL_NIL)
    BY <1>1 DEF execute_frames
  <2>2. GoodObject(o)
    BY DEF GoodObject, lm_frame_alloc
  <2> HIDE DEF o
  <2> QED
    BY <1>0, <2>1, <2>2, NewObject
<1>2. CASE op \in {"FrameGetField", "FrameGetFieldAtomic"}
  <2>1. IF IS_PTR(registers[a])
        THEN Write(dst, Same(heap, lm_frame_get_field(Object(a), b)), VAL_NIL) ELSE Skip
    BY <1>2 DEF execute_frames
  <2> QED
    BY <1>0, <2>1, ReadKeeps, SkipKeeps
<1>3. CASE op \in {"FrameSetField", "FrameSetFieldAtomic"}
  <2> DEFINE o == lm_frame_set_field(Object(dst), a, registers[b])
  <2>1. Of(dst, "FRAME") /\ IF IS_PTR(registers[dst]) THEN Store(registers[dst].at, o) ELSE Skip
    BY <1>3 DEF execute_frames
  <2>2. Object(dst).type = "FRAME" /\ GoodObject(Object(dst)) => GoodObject(o)
    BY FrameType DEF GoodObject
  <2> HIDE DEF o
  <2> QED
    BY <1>0, <2>1, <2>2, ReplaceKeeps, SkipKeeps
<1>4. CASE op \notin {"NewFrame", "FrameGetField", "FrameGetFieldAtomic", "FrameSetField",
                      "FrameSetFieldAtomic"}
  BY <1>0, <1>4, SkipKeeps DEF execute_frames
<1> QED
  BY <1>1, <1>2, <1>3, <1>4

LEMMA ObjectsKeep ==
    ASSUME VmInv, NEW op \in {"MakeEnum", "GetTag", "GetPayload"},
           NEW dst \in Reg, NEW a \in Reg, NEW b \in Reg, execute_objects(op, dst, a, b)
    PROVE  VmInv'
<1>0. calls' = calls
  BY DEF execute_objects, Local
<1>1. CASE op = "MakeEnum"
  <2> DEFINE o == [lm_frame_alloc("__lir_internal_enum__", 2)
                     EXCEPT !.fields = << BOX_INT(a), registers[b] >>]
  <2>1. Write(dst, Alloc(heap, o), VAL_NIL)
    BY <1>1 DEF execute_objects
  <2>2. GoodObject(o)
    BY DEF GoodObject, lm_frame_alloc
  <2> HIDE DEF o
  <2> QED
    BY <1>0, <2>1, <2>2, NewObject
<1>2. ASSUME NEW i \in {0, 1}, op = IF i = 0 THEN "GetTag" ELSE "GetPayload" PROVE VmInv'
  <2>1. IF IS_PTR(registers[a])
        THEN Write(dst, Same(heap, lm_frame_get_field(Object(a), i)), VAL_NIL) ELSE Skip
    BY <1>2 DEF execute_objects
  <2> QED
    BY <1>0, <2>1, ReadKeeps, SkipKeeps
<1> QED
  BY <1>1, <1>2

(***************************************************************************)
(* Channels.  The fibers fs and the fiber 0 are those of the machine.       *)
(***************************************************************************)
LEMMA NewInOrder ==
    ASSUME NEW cap \in Nat
    PROVE  NewChannel(cap).type = "CHANNEL" /\ GoodObject(NewChannel(cap))
<1> DEFINE c == NewChannel(cap)
<1>1. c \in Channels({}) /\ c.stored = <<>> /\ c.taken = <<>> /\ c.buffer = <<>> /\ c.capacity = cap
  BY DEF NewChannel, Channels
<1>2. "type" \in DOMAIN c /\ c.type = "CHANNEL"
  BY DEF NewChannel
<1>3. <<>> = <<>> \o <<>> /\ Len(<<>>) = 0
  OBVIOUS
<1> HIDE DEF c
<1>4. InOrder(c)
  BY <1>1, <1>3 DEF InOrder
<1> QED
  BY <1>2, <1>4 DEF GoodObject, c

LEMMA IsGood ==
    ASSUME NEW S, NEW c \in Channels(S), c.stored = c.taken \o c.buffer, Len(c.buffer) <= c.capacity
    PROVE  GoodObject(c) /\ c.type = "CHANNEL"
  BY DEF GoodObject, InOrder, Channels

LEMMA RestWaits == ASSUME NEW w \in Seq({0}) PROVE Rest(w) \in Seq({0})
<1>1. CASE w = <<>>
  BY <1>1 DEF Rest
<1>2. CASE w # <<>>
  BY <1>2 DEF Rest
<1> QED
  BY <1>1, <1>2

LEMMA HeadMoves ==
    ASSUME NEW S, NEW s \in Seq(S), NEW t \in Seq(S), t # <<>>
    PROVE  Append(s, Head(t)) \o Tail(t) = s \o t
<1>1. Head(t) \in S /\ << Head(t) >> \in Seq(S) /\ Tail(t) \in Seq(S)
  OBVIOUS
<1>2. Append(s, Head(t)) = s \o << Head(t) >>
  BY <1>1, AppendIsConcat
<1>3. << Head(t) >> \o Tail(t) = t
  <2> DEFINE u == << Head(t) >> \o Tail(t)
  <2>1. u \in Seq(S) /\ Len(u) = Len(t) /\ \A i \in 1..Len(t) : u[i] = t[i]
    BY <1>1
  <2> HIDE DEF u
  <2>2. u = t
    BY <2>1, SeqEqual
  <2> QED
    BY <2>2 DEF u
<1> QED
  BY <1>1, <1>2, <1>3, ConcatAssociative

\* send puts the value behind those in the buffer, if there is room.
LEMMA SendKeeps ==
    ASSUME NEW c, GoodObject(c), c.type = "CHANNEL", NEW fs, NEW v
    PROVE  GoodObject(send(c, fs, v, 0).c)
<1>1. PICK S : c \in Channels(S)
  BY DEF GoodObject, InOrder
<1> DEFINE T == S \cup {v}
<1>2. c \in Channels(T) /\ v \in T
  BY <1>1 DEF Channels
<1>3. c.stored = c.taken \o c.buffer /\ Len(c.buffer) <= c.capacity
  BY DEF GoodObject, InOrder
<1> HIDE DEF T
<1>4. /\ c.buffer \in Seq(T) /\ c.stored \in Seq(T) /\ c.taken \in Seq(T) /\ c.capacity \in Nat
      /\ c.given \in Nat /\ c.waiting_senders \in Seq({0}) /\ c.waiting_receivers \in Seq({0})
  BY <1>2 DEF Channels
<1>5. CASE c.closed
  BY <1>5 DEF send
<1>6. CASE ~c.closed /\ Full(c)
  <2> DEFINE w == Append(c.waiting_senders, 0)
             n == c.given + 1
             d == [c EXCEPT !.waiting_senders = w, !.given = n]
  <2>1. send(c, fs, v, 0).c = d
    BY <1>6 DEF send
  <2>2. w \in Seq({0}) /\ n \in Nat
    BY <1>4
  <2> HIDE DEF w, n
  <2>3. d \in Channels(T) /\ d.stored = c.stored /\ d.taken = c.taken /\ d.buffer = c.buffer
        /\ d.capacity = c.capacity
    BY <1>2, <1>4, <2>2 DEF Channels
  <2> HIDE DEF d
  <2>4. GoodObject(d)
    BY <1>3, <2>3, IsGood
  <2> QED
    BY <2>1, <2>4
<1>7. CASE ~c.closed /\ ~Full(c)
  <2> DEFINE b == Append(c.buffer, v)
             s == Append(c.stored, v)
             w == Rest(c.waiting_receivers)
             n == c.given + 1
             g == [c EXCEPT !.given = n]
             d == [g EXCEPT !.buffer = b, !.waiting_receivers = w, !.stored = s]
  <2>0. n \in Nat
    BY <1>4
  <2> HIDE DEF n
  <2>1. g \in Channels(T) /\ g.buffer = c.buffer /\ g.waiting_receivers = c.waiting_receivers
        /\ g.stored = c.stored /\ g.taken = c.taken /\ g.capacity = c.capacity
    BY <1>2, <2>0 DEF Channels
  <2> HIDE DEF g
  <2>2. send(c, fs, v, 0).c = d
    <3>1. send(c, fs, v, 0) = Push(g, fs, v)
      BY <1>7 DEF send, g, n
    <3> QED
      BY <2>1, <3>1 DEF Push
  <2>3. b \in Seq(T) /\ s \in Seq(T) /\ w \in Seq({0}) /\ Len(b) = Len(c.buffer) + 1
    BY <1>2, <1>4, RestWaits
  <2>4. s = c.taken \o b
    <3> DEFINE p == c.taken
               q == c.buffer
               r == c.stored
    <3>1. p \in Seq(T) /\ q \in Seq(T) /\ v \in T /\ r = p \o q /\ b = Append(q, v)
      BY <1>2, <1>3, <1>4
    <3> HIDE DEF p, q, r, b
    <3>2. << v >> \in Seq(T) /\ r \in Seq(T)
      BY <3>1
    <3>3. Append(r, v) = (p \o q) \o << v >> /\ b = q \o << v >>
      BY <3>1, <3>2, AppendIsConcat
    <3>4. Append(r, v) = p \o b
      BY <3>1, <3>2, <3>3, ConcatAssociative
    <3> QED
      BY <3>4 DEF p, r
  <2>5. Len(b) <= c.capacity
    BY <1>4, <1>7, <2>3 DEF Full
  <2> HIDE DEF b, s, w
  <2>6. d \in Channels(T) /\ d.stored = s /\ d.taken = c.taken /\ d.buffer = b
        /\ d.capacity = c.capacity
    BY <2>1, <2>3 DEF Channels
  <2> HIDE DEF d
  <2>7. GoodObject(d)
    BY <2>4, <2>5, <2>6, IsGood
  <2> QED
    BY <2>2, <2>7
<1> QED
  BY <1>5, <1>6, <1>7

\* recv takes the value at the front.
LEMMA RecvKeeps ==
    ASSUME NEW c, GoodObject(c), c.type = "CHANNEL", NEW fs
    PROVE  GoodObject(recv(c, fs, 0).c)
<1>1. PICK S : c \in Channels(S)
  BY DEF GoodObject, InOrder
<1>3. c.stored = c.taken \o c.buffer /\ Len(c.buffer) <= c.capacity
  BY DEF GoodObject, InOrder
<1>4. /\ c.buffer \in Seq(S) /\ c.stored \in Seq(S) /\ c.taken \in Seq(S) /\ c.capacity \in Nat
      /\ c.waiting_senders \in Seq({0}) /\ c.waiting_receivers \in Seq({0})
  BY <1>1 DEF Channels
<1>5. CASE c.buffer = <<>> /\ ~c.closed
  <2> DEFINE w == Append(c.waiting_receivers, 0)
             d == [c EXCEPT !.waiting_receivers = w]
  <2>1. recv(c, fs, 0).c = d
    BY <1>5 DEF recv
  <2>2. w \in Seq({0})
    BY <1>4
  <2> HIDE DEF w
  <2>3. d \in Channels(S) /\ d.stored = c.stored /\ d.taken = c.taken /\ d.buffer = c.buffer
        /\ d.capacity = c.capacity
    BY <1>1, <2>2 DEF Channels
  <2> HIDE DEF d
  <2>4. GoodObject(d)
    BY <1>3, <2>3, IsGood
  <2> QED
    BY <2>1, <2>4
<1>6. CASE c.buffer = <<>> /\ c.closed
  BY <1>6 DEF recv
<1>7. CASE c.buffer # <<>>
  <2> DEFINE b == Tail(c.buffer)
             t == Append(c.taken, Head(c.buffer))
             w == Rest(c.waiting_senders)
             d == [c EXCEPT !.buffer = b, !.waiting_senders = w, !.taken = t]
  <2>2. recv(c, fs, 0).c = d
    BY <1>7 DEF recv, Pop
  <2>3. b \in Seq(S) /\ t \in Seq(S) /\ w \in Seq({0}) /\ Len(b) = Len(c.buffer) - 1
    BY <1>4, <1>7, RestWaits
  <2>4. c.taken \o c.buffer = t \o b
    BY <1>4, <1>7, HeadMoves
  <2>5. Len(b) <= c.capacity
    BY <1>3, <1>4, <2>3
  <2> HIDE DEF b, t, w
  <2>6. d \in Channels(S) /\ d.stored = c.stored /\ d.taken = t /\ d.buffer = b
        /\ d.capacity = c.capacity
    BY <1>1, <2>3 DEF Channels
  <2> HIDE DEF d
  <2>7. GoodObject(d)
    BY <1>3, <2>4, <2>5, <2>6, IsGood
  <2> QED
    BY <2>2, <2>7
<1> QED
  BY <1>5, <1>6, <1>7

LEMMA CloseKeeps ==
    ASSUME NEW c, GoodObject(c), c.type = "CHANNEL", NEW fs
    PROVE  GoodObject(close(c, fs).c)
<1>1. PICK S : c \in Channels(S)
  BY DEF GoodObject, InOrder
<1>2. c.stored = c.taken \o c.buffer /\ Len(c.buffer) <= c.capacity
  BY DEF GoodObject, InOrder
<1> DEFINE none == <<>>
           d == [c EXCEPT !.closed = TRUE, !.waiting_receivers = none, !.waiting_senders = none]
<1>3. close(c, fs).c = d
  BY DEF close
<1>6. none \in Seq({0})
  OBVIOUS
<1> HIDE DEF none
<1>4. d \in Channels(S) /\ d.stored = c.stored /\ d.taken = c.taken /\ d.buffer = c.buffer
      /\ d.capacity = c.capacity
  BY <1>1, <1>6 DEF Channels
<1> HIDE DEF d
<1>5. GoodObject(d)
  BY <1>2, <1>4, IsGood
<1> QED
  BY <1>3, <1>5

\* The channel a register points to is replaced.
LEMMA ChannelStored ==
    ASSUME VmInv, NEW a \in Reg, Of(a, "CHANNEL"), IS_PTR(registers[a]), NEW o,
           GoodObject(Object(a)) /\ Object(a).type = "CHANNEL" => GoodObject(o)
    PROVE  registers[a].at \in 1..Len(heap) =>
               GoodObject(o) /\ heap[registers[a].at].type \notin NumberTypes
<1> SUFFICES ASSUME registers[a].at \in 1..Len(heap)
             PROVE  GoodObject(o) /\ heap[registers[a].at].type \notin NumberTypes
  OBVIOUS
<1>1. Object(a) = heap[registers[a].at] /\ Object(a).type = "CHANNEL" /\ GoodObject(Object(a))
  BY Pointed
<1> QED
  BY <1>1 DEF NumberTypes

LEMMA ConcurrencyKeeps ==
    ASSUME VmInv, NEW op, NEW dst \in Reg, NEW a \in Reg, NEW b \in Reg,
           execute_concurrency(op, dst, a, b)
    PROVE  VmInv'
<1>0. calls' = calls /\ GoodHeap(heap)
  BY DEF execute_concurrency, Local, VmInv
<1>1. CASE op = "ChannelAlloc"
  <2>1. Write(dst, Alloc(heap, NewChannel(CAPACITY)), VAL_NIL)
    BY <1>1 DEF execute_concurrency
  <2> QED
    BY <1>0, <2>1, NewInOrder, NewObject, MachineAssumption
<1>2. CASE op = "ChannelSend"
  <2> DEFINE o == send(Object(a), dummy_fiber, registers[b], 0).c
  <2>1. Of(a, "CHANNEL") /\ IF IS_PTR(registers[a]) THEN Store(registers[a].at, o) ELSE Skip
    BY <1>2 DEF execute_concurrency
  <2>2. GoodObject(Object(a)) /\ Object(a).type = "CHANNEL" => GoodObject(o)
    BY SendKeeps
  <2> HIDE DEF o
  <2> QED
    BY <1>0, <2>1, <2>2, ChannelStored, StoreKeeps, SkipKeeps
<1>3. CASE op = "ChannelRecv"
  <2> DEFINE r == recv(Object(a), dummy_fiber, 0)
             g == [heap EXCEPT ![registers[a].at] = r.c]
  <2>1. Of(a, "CHANNEL")
    BY <1>3 DEF execute_concurrency
  <2>2. CASE IS_PTR(registers[a])
    <3>1. PICK v : Write(dst, [h |-> g, v |-> v], VAL_NIL)
      BY <1>3, <2>2 DEF execute_concurrency
    <3>2. GoodObject(Object(a)) /\ Object(a).type = "CHANNEL" => GoodObject(r.c)
      BY RecvKeeps
    <3> HIDE DEF r
    <3>3. GoodHeap(g) /\ Grows(heap, g)
      BY <1>0, <2>1, <2>2, <3>2, ChannelStored, Stored
    <3>4. [h |-> g, v |-> v].h = g
      OBVIOUS
    <3> HIDE DEF g
    <3> QED
      BY <1>0, <3>1, <3>3, <3>4, NilStands, WriteKeeps
  <2>3. CASE ~IS_PTR(registers[a])
    BY <1>0, <1>3, <2>3, SkipKeeps DEF execute_concurrency
  <2> QED
    BY <2>2, <2>3
<1>4. CASE op = "ChannelClose"
  <2> DEFINE o == close(Object(a), dummy_fiber).c
  <2>1. Of(a, "CHANNEL") /\ IF IS_PTR(registers[a]) THEN Store(registers[a].at, o) ELSE Skip
    BY <1>4 DEF execute_concurrency
  <2>2. GoodObject(Object(a)) /\ Object(a).type = "CHANNEL" => GoodObject(o)
    BY CloseKeeps
  <2> HIDE DEF o
  <2> QED
    BY <1>0, <2>1, <2>2, ChannelStored, StoreKeeps, SkipKeeps
<1>5. CASE op = "ChannelHasData"
  <2>1. IF IS_PTR(registers[a])
        THEN Write(dst, Same(heap, VAL_BOOL(has_data(Object(a)))), VAL_NIL) ELSE Skip
    BY <1>5 DEF execute_concurrency
  <2> QED
    BY <1>0, <2>1, ReadKeeps, SkipKeeps
<1>6. CASE op \notin {"ChannelAlloc", "ChannelSend", "ChannelRecv", "ChannelClose", "ChannelHasData"}
  BY <1>0, <1>6, SkipKeeps DEF execute_concurrency
<1> QED
  BY <1>1, <1>2, <1>3, <1>4, <1>5, <1>6

(***************************************************************************)
(* Calls.                                                                   *)
(***************************************************************************)
\* The callee's registers stand for what the arguments stand for; the caller's are kept.
LEMMA EnterKeeps ==
    ASSUME VmInv, NEW dst \in Reg, NEW args \in {<<>>} \cup Reg \X Reg, Enter(dst, args)
    PROVE  VmInv'
<1> DEFINE First(f) == [r \in Reg |-> IF r < Len(args) THEN f[args[r + 1]] ELSE VAL_NIL]
           frame == [registers |-> registers, exact |-> exact, dst |-> dst]
<1>1. /\ calls' = Append(calls, frame) /\ heap' = heap
      /\ registers' = First(registers) /\ exact' = First(exact)
  BY DEF Enter
<1>2. GoodHeap(heap) /\ AllStand(heap, registers, exact) /\ \A i \in 1..Len(calls) : Caller(heap, calls[i])
  BY DEF VmInv
<1>3. Caller(heap, frame)
  BY <1>2 DEF Caller
<1>4. \A r \in Reg : r < Len(args) => args[r + 1] \in Reg
  <2>1. CASE args = <<>>
    BY <2>1, MachineAssumption
  <2>2. CASE args \in Reg \X Reg
    <3>1. Len(args) = 2 /\ args[1] \in Reg /\ args[2] \in Reg
      BY <2>2
    <3> QED
      BY <3>1, MachineAssumption
  <2> QED
    BY <2>1, <2>2
<1>5. AllStand(heap, First(registers), First(exact))
  <2>1. ASSUME NEW r \in Reg PROVE Stands(heap, First(registers)[r], First(exact)[r])
    <3>1. CASE r < Len(args)
      BY <1>2, <1>4, <3>1 DEF AllStand
    <3>2. CASE ~(r < Len(args))
      BY <3>2, NilStands
    <3> QED
      BY <3>1, <3>2
  <2> QED
    BY <2>1 DEF AllStand
<1> HIDE DEF First, frame
<1>6. /\ \E S : Append(calls, frame) \in Seq(S)
      /\ \A i \in 1..Len(Append(calls, frame)) : Caller(heap, Append(calls, frame)[i])
  <2>1. PICK S : calls \in Seq(S)
    BY DEF VmInv
  <2> DEFINE T == S \cup {frame}
  <2>2. calls \in Seq(T) /\ frame \in T
    BY <2>1
  <2> HIDE DEF T
  <2>3. /\ Append(calls, frame) \in Seq(T) /\ Len(Append(calls, frame)) = Len(calls) + 1
        /\ Len(calls) \in Nat /\ Append(calls, frame)[Len(calls) + 1] = frame
        /\ \A i \in 1..Len(calls) : Append(calls, frame)[i] = calls[i]
    BY <2>2
  <2>4. \A i \in 1..Len(Append(calls, frame)) : Caller(heap, Append(calls, frame)[i])
    BY <1>2, <1>3, <2>3
  <2> QED
    BY <2>3, <2>4
<1> QED
  BY <1>1, <1>2, <1>5, <1>6 DEF VmInv

LEMMA CallKeeps ==
    ASSUME VmInv, NEW dst \in Reg, NEW f, NEW args \in {<<>>} \cup Reg \X Reg, Call(dst, f, args)
    PROVE  VmInv'
<1>1. CASE f \in FunctionNames
  BY <1>1, EnterKeeps DEF Call
<1>2. CASE f \notin FunctionNames
  BY <1>2, SkipKeeps DEF Call, Local
<1> QED
  BY <1>1, <1>2

LEMMA CallIndirectKeeps ==
    ASSUME VmInv, NEW dst \in Reg, NEW a \in Reg, NEW args \in {<<>>} \cup Reg \X Reg,
           CallIndirect(dst, a, args)
    PROVE  VmInv'
<1>1. CASE Enter(dst, args)
  BY <1>1, EnterKeeps
<1>2. CASE ~Enter(dst, args)
  BY <1>2, SkipKeeps DEF CallIndirect, Local
<1> QED
  BY <1>1, <1>2

\* The caller's registers stand for what they stood for: numbers do not change while it waits.
LEMMA LeaveKeeps ==
    ASSUME VmInv, NEW v, NEW e, Leave(v, e), heap' = heap, Stands(heap, v, e)
    PROVE  VmInv'
<1>1. GoodHeap(heap) /\ AllStand(heap, registers, exact) /\ \A i \in 1..Len(calls) : Caller(heap, calls[i])
  BY DEF VmInv
<1>2. CASE calls = <<>>
  <2>1. /\ registers' = [registers EXCEPT ![0] = v] /\ exact' = [exact EXCEPT ![0] = e]
        /\ calls' = calls
    BY <1>2 DEF Leave
  <2>2. AllStand(heap', registers', exact')
    BY <1>1, <2>1, MachineAssumption DEF AllStand
  <2> QED
    BY <1>1, <2>1, <2>2 DEF VmInv
<1>3. CASE calls # <<>>
  <2> DEFINE c == calls[Len(calls)]
             rest == SubSeq(calls, 1, Len(calls) - 1)
  <2>1. /\ registers' = [c.registers EXCEPT ![c.dst] = v] /\ exact' = [c.exact EXCEPT ![c.dst] = e]
        /\ calls' = rest
    BY <1>3 DEF Leave
  <2>2. PICK S : calls \in Seq(S)
    BY DEF VmInv
  <2>3. /\ Len(calls) \in Nat \ {0} /\ rest \in Seq(S) /\ Len(rest) = Len(calls) - 1
        /\ \A i \in 1..Len(rest) : rest[i] = calls[i]
    <3>1. Len(calls) \in Nat \ {0}
      BY <1>3, <2>2
    <3> DEFINE n == Len(calls) - 1
    <3>2. n \in 1-1..Len(calls)
      BY <3>1
    <3> HIDE DEF n
    <3>3. /\ SubSeq(calls, 1, n) \in Seq(S)
          /\ Len(SubSeq(calls, 1, n)) = IF 1 <= n THEN n - 1 + 1 ELSE 0
          /\ \A i \in 1 .. n - 1 + 1 : SubSeq(calls, 1, n)[i] = calls[1 + i - 1]
      BY <2>2, <3>1, <3>2, SubSeqProperties
    <3>4. Len(SubSeq(calls, 1, n)) = n /\ \A i \in 1..n : SubSeq(calls, 1, n)[i] = calls[i]
      BY <3>2, <3>3
    <3> QED
      BY <3>1, <3>3, <3>4 DEF n
  <2>4. Caller(heap, c)
    BY <1>1, <2>3
  <2> HIDE DEF c, rest
  <2>5. AllStand(heap', registers', exact')
    <3>1. c.dst \in Reg /\ AllStand(heap, c.registers, c.exact)
      BY <2>4 DEF Caller
    <3> QED
      BY <2>1, <3>1 DEF AllStand
  <2>6. \A i \in 1..Len(calls') : Caller(heap', calls'[i])
    BY <1>1, <2>1, <2>3
  <2> QED
    BY <1>1, <2>1, <2>3, <2>5, <2>6 DEF VmInv
<1> QED
  BY <1>2, <1>3

LEMMA ReturnKeeps ==
    ASSUME VmInv, NEW op, NEW a \in Reg, Return(op, a)
    PROVE  VmInv'
<1>1. \A r \in Reg : Stands(heap, registers[r], exact[r])
  BY DEF VmInv, AllStand
<1>2. heap' = heap /\ \E r \in Reg : Leave(registers[r], exact[r])
  BY MachineAssumption DEF Return
<1> QED
  BY <1>1, <1>2, LeaveKeeps

LEMMA EndKeeps == ASSUME VmInv, EndOfFunction PROVE VmInv'
<1>1. Stands(heap, registers[0], exact[0])
  BY MachineAssumption DEF VmInv, AllStand
<1> QED
  BY <1>1, LeaveKeeps DEF EndOfFunction

(***************************************************************************)
(* The theorems.                                                            *)
(***************************************************************************)
LEMMA VmStart == ASSUME VmInit PROVE VmInv
<1>1. GoodHeap(heap)
  <2>1. heap = <<>> /\ <<>> \in Seq({})
    BY EmptySeq DEF VmInit
  <2>2. Len(heap) = 0
    BY <2>1
  <2> QED
    BY <2>1, <2>2 DEF GoodHeap
<1>2. AllStand(heap, registers, exact)
  <2>1. registers = [r \in Reg |-> VAL_NIL] /\ exact = [r \in Reg |-> VAL_NIL]
    BY DEF VmInit
  <2> QED
    BY <2>1, NilStands DEF AllStand
<1>3. (\E S : calls \in Seq(S)) /\ \A i \in 1..Len(calls) : Caller(heap, calls[i])
  <2>1. calls = <<>> /\ <<>> \in Seq({})
    BY EmptySeq DEF VmInit
  <2>2. Len(calls) = 0
    BY <2>1
  <2> QED
    BY <2>1, <2>2
<1> QED
  BY <1>1, <1>2, <1>3 DEF VmInv

LEMMA VmStep == ASSUME VmInv, [VmNext]_vmVars PROVE VmInv'
<1>1. ASSUME NEW dst \in Reg, NEW c \in Constants, LoadConst(dst, c) PROVE VmInv'
  BY <1>1, LoadConstKeeps
<1>2. ASSUME NEW dst \in Reg, NEW a \in Reg, Mov(dst, a) PROVE VmInv'
  BY <1>2, MovKeeps
<1>3. ASSUME NEW op \in ops \cap ArithmeticOps, NEW dst \in Reg, NEW a \in Reg, NEW b \in Reg,
             execute_arithmetic(op, dst, a, b)
      PROVE  VmInv'
  BY <1>3, ArithmeticOpKeeps
<1>4. ASSUME NEW op \in ops \cap Comparisons, NEW dst \in Reg, NEW a \in Reg, NEW b \in Reg,
             execute_comparison(op, dst, a, b)
      PROVE  VmInv'
  BY <1>4, ComparisonKeeps
<1>5. ASSUME NEW op \in ops \cap {"And", "Or", "Xor"}, NEW dst \in Reg, NEW a \in Reg, NEW b \in Reg,
             execute_bitwise(op, dst, a, b)
      PROVE  VmInv'
  BY <1>5, BitwiseKeeps
<1>6. ASSUME NEW type \in {"I64", "F64", "Bool", "Ptr"}, NEW dst \in Reg, NEW a \in Reg,
             execute_cast(type, dst, a)
      PROVE  VmInv'
  BY <1>6, CastKeeps
<1>7. ASSUME NEW op \in ops \cap {"ToString", "STR_CONCAT"}, NEW dst \in Reg, NEW a \in Reg, NEW b \in Reg,
             execute_strings(op, dst, a, b)
      PROVE  VmInv'
  BY <1>7, StringsKeep
<1>8. ASSUME NEW op \in ops \cap {"PrintInt", "PrintUint", "PrintFloat", "PrintBool", "PrintString"},
             NEW a \in Reg, execute_io(op, a)
      PROVE  VmInv'
  BY <1>8, IoKeeps
<1>9. ASSUME NEW op \in ops \cap Collections, NEW dst \in Reg, NEW a \in Reg, NEW b \in Reg,
             execute_collections(op, dst, a, b)
      PROVE  VmInv'
  BY <1>9, CollectionsKeep
<1>10. ASSUME NEW op \in ops \cap Frames, NEW dst \in Reg, NEW a \in Reg, NEW b \in Reg,
              execute_frames(op, dst, a, b)
       PROVE  VmInv'
  BY <1>10, FramesKeep
<1>11. ASSUME NEW op \in ops \cap {"MakeEnum", "GetTag", "GetPayload"}, NEW dst \in Reg, NEW a \in Reg,
              NEW b \in Reg, execute_objects(op, dst, a, b)
       PROVE  VmInv'
  BY <1>11, ObjectsKeep
<1>12. ASSUME NEW dst \in Reg, NEW g \in GlobalNames, LoadGlobal(dst, g) \/ StoreGlobal(g, dst)
       PROVE  VmInv'
  BY <1>12, GlobalsKeep
<1>13. ASSUME NEW op \in ops \cap ChannelOps, NEW dst \in Reg, NEW a \in Reg, NEW b \in Reg,
              execute_concurrency(op, dst, a, b)
       PROVE  VmInv'
  BY <1>13, ConcurrencyKeeps
<1>14. ASSUME NEW dst \in Reg, NEW f \in FunctionNames \cup {"assert"},
              NEW args \in {<<>>} \cup Reg \X Reg, Call(dst, f, args)
       PROVE  VmInv'
  BY <1>14, CallKeeps
<1>15. ASSUME NEW dst \in Reg, NEW a \in Reg, NEW args \in {<<>>} \cup Reg \X Reg,
              CallIndirect(dst, a, args)
       PROVE  VmInv'
  BY <1>15, CallIndirectKeeps
<1>16. ASSUME NEW op, NoCase(op) PROVE VmInv'
  BY <1>16, SkipKeeps DEF NoCase, Local
<1>17. ASSUME NEW op, NEW a \in Reg, Return(op, a) PROVE VmInv'
  BY <1>17, ReturnKeeps
<1>18. CASE EndOfFunction
  BY <1>18, EndKeeps
<1>19. CASE UNCHANGED vmVars
  BY <1>19 DEF VmInv, vmVars
<1> QED
  BY <1>1, <1>2, <1>3, <1>4, <1>5, <1>6, <1>7, <1>8, <1>9, <1>10, <1>11, <1>12, <1>13, <1>14, <1>15,
     <1>16, <1>17, <1>18, <1>19 DEF VmNext

\* The heap, the registers and the suspended callers keep their invariant, whatever the program.
THEOREM VmInvariant == VmSpec => []VmInv
<1>1. VmInit => VmInv
  BY VmStart
<1>2. VmInv /\ [VmNext]_vmVars => VmInv'
  BY VmStep
<1> QED
  BY <1>1, <1>2, PTL DEF VmSpec

\* Channels are queues: what was taken from one, followed by what is in its buffer, is what was
\* stored in it, and the buffer is never above its capacity, through any mix of send, recv and close
\* on any number of channels, whatever their capacity.
THEOREM ChannelsInOrder == VmSpec => []ChannelFifo
<1>1. VmInv => ChannelFifo
  <2> SUFFICES ASSUME VmInv PROVE ChannelFifo
    OBVIOUS
  <2>1. DOMAIN heap = 1..Len(heap) /\ \A p \in 1..Len(heap) : GoodObject(heap[p])
    BY HeapLen DEF VmInv, GoodHeap
  <2> QED
    BY <2>1 DEF ChannelFifo, GoodObject, InOrder
<1> QED
  BY <1>1, VmInvariant, PTL

\* The registers hold what the program computed: an integer is the number the operations of the
\* source mean, in whichever of the three boxes it is, through arithmetic, moves, comparisons,
\* calls and returns.
THEOREM NumbersStand == VmSpec => []NumbersExact
<1>1. VmInv => NumbersExact
  <2> SUFFICES ASSUME VmInv, NEW r \in Reg
               PROVE  /\ exact[r].k = "int" =>
                             is_integer(heap, registers[r]) /\ as_i128(heap, registers[r]) = exact[r].n
                      /\ exact[r].k = "bool" => registers[r] = exact[r]
    BY DEF NumbersExact
  <2>1. Stands(heap, registers[r], exact[r])
    BY DEF VmInv, AllStand
  <2> QED
    BY <2>1 DEF Stands
<1> QED
  BY <1>1, VmInvariant, PTL

------------------------------------------------------------------------------
(***************************************************************************)
(* Dicts and tuples: a tuple keeps its elements, and a dict implements the *)
(* map of module Map.                                                      *)
(***************************************************************************)

(***************************************************************************)
(* Tuples.                                                                  *)
(***************************************************************************)
Words == DictValues \cup {VAL_NIL}

\* The inductive invariant: what is known of the tuple covers the elements it
\* shows, which fit in its array.
TupleInv ==
    /\ tuple \in [type : {"TUPLE"}, elements : Seq(Words), size : Nat]
    /\ known \in Seq(Words \cup {unknown}) /\ Len(known) = tuple.size
    /\ tuple.size <= Len(tuple.elements)
    /\ \A i \in 1..tuple.size : known[i] = unknown \/ tuple.elements[i] = known[i]

\* A function on 1..n is a sequence of its values.
LEMMA IsSequence ==
    ASSUME NEW S, NEW n \in Nat, NEW f, f = [i \in 1..n |-> f[i]], \A i \in 1..n : f[i] \in S
    PROVE  f \in Seq(S) /\ Len(f) = n
  OBVIOUS

LEMMA SequenceUpdate ==
    ASSUME NEW S, NEW f \in Seq(S), NEW i \in 1..Len(f), NEW v \in S
    PROVE  LET g == [f EXCEPT ![i] = v]
           IN  /\ g \in Seq(S) /\ Len(g) = Len(f)
               /\ \A j \in 1..Len(f) : g[j] = IF j = i THEN v ELSE f[j]
  OBVIOUS

LEMMA NewTuple ==
    ASSUME NEW n \in Nat
    PROVE  /\ lm_tuple_new(n) \in [type : {"TUPLE"}, elements : Seq(Words), size : Nat]
           /\ lm_tuple_new(n).size = n
           /\ lm_tuple_new(n).elements = [i \in 1..n |-> VAL_NIL]
           /\ Len(lm_tuple_new(n).elements) = n
  BY DEF lm_tuple_new, Words

\* Room for more elements keeps those there are.
LEMMA ResizeKeeps ==
    ASSUME NEW o \in [type : {"TUPLE"}, elements : Seq(Words), size : Nat], NEW n \in Nat,
           o.size <= Len(o.elements)
    PROVE  LET r == lm_tuple_resize(o, n)
           IN  /\ r \in [type : {"TUPLE"}, elements : Seq(Words), size : Nat]
               /\ Len(r.elements) >= Len(o.elements) /\ Len(r.elements) >= n
               /\ r.size = IF n < o.size THEN n ELSE o.size
               /\ \A i \in 1..Len(o.elements) : r.elements[i] = o.elements[i]
<1> DEFINE more == [i \in 1 .. n - Len(o.elements) |-> VAL_NIL]
           room == o.elements \o more
<1>1. more \in Seq(Words) /\ n - Len(o.elements) <= Len(more)
  <2>0. n - Len(o.elements) \in Int
    OBVIOUS
  <2>1. CASE n - Len(o.elements) \in Nat
    <3>1. more = [i \in 1 .. n - Len(o.elements) |-> more[i]]
          /\ \A i \in 1 .. n - Len(o.elements) : more[i] \in Words
      BY DEF Words
    <3> HIDE DEF more
    <3> QED
      BY <2>1, <3>1, IsSequence
  <2>2. CASE n - Len(o.elements) < 0
    <3>1. 1 .. n - Len(o.elements) = 1 .. 0
      BY <2>0, <2>2
    <3>2. more = [i \in 1..0 |-> more[i]] /\ \A i \in 1..0 : more[i] \in Words
      <4>1. more = [i \in 1..0 |-> VAL_NIL]
        BY <3>1, Zenon
      <4>2. \A f : f = [i \in 1..0 |-> VAL_NIL] =>
                f = [i \in 1..0 |-> f[i]] /\ \A i \in 1..0 : f[i] \in Words
        OBVIOUS
      <4> HIDE DEF more
      <4> QED
        BY <4>1, <4>2
    <3> HIDE DEF more
    <3>3. more \in Seq(Words) /\ Len(more) = 0
      BY <3>2, IsSequence
    <3> QED
      BY <2>0, <2>2, <3>3
  <2> HIDE DEF more
  <2> QED
    BY <2>0, <2>1, <2>2
<1>2. room \in Seq(Words) /\ Len(room) = Len(o.elements) + Len(more)
  <2> HIDE DEF more
  <2>1. o.elements \in Seq(Words)
    OBVIOUS
  <2> QED
    BY <1>1, <2>1
<1>3. \A i \in 1..Len(o.elements) : room[i] = o.elements[i]
  BY <1>1
<1>4. lm_tuple_resize(o, n) = [o EXCEPT !.elements = room, !.size = IF n < @ THEN n ELSE @]
  BY DEF lm_tuple_resize
<1> HIDE DEF room, more
<1>5. Len(room) >= Len(o.elements) /\ Len(room) >= n
  BY <1>1, <1>2
<1> QED
  BY <1>2, <1>3, <1>4, <1>5

\* Every step on the tuple keeps the invariant.
LEMMA TupleStep == TupleInv /\ TupleNext => TupleInv'
<1> SUFFICES ASSUME TupleInv, TupleNext PROVE TupleInv'
  OBVIOUS
<1> DEFINE T == [type : {"TUPLE"}, elements : Seq(Words), size : Nat]
<1>1. ASSUME NEW index \in 0 .. MAX_SIZE - 1, NEW value \in DictValues, TupleSet(index, value)
      PROVE  TupleInv'
  <2>0. index \in Nat /\ value \in Words
    BY KeysAssumption DEF Words
  <2>1. tuple' = lm_tuple_set(tuple, index, value)
    BY <1>1 DEF TupleSet
  <2>2. known' = [i \in 1..tuple'.size |-> IF i = index + 1 THEN value ELSE Known(tuple'.size)[i]]
    BY <1>1 DEF TupleSet
  <2>3. CASE index >= Len(tuple.elements)
    <3>1. tuple' = tuple
      BY <2>1, <2>3 DEF lm_tuple_set
    <3>2. \A i \in 1..tuple.size : known'[i] = known[i]
      BY <2>0, <2>2, <2>3, <3>1 DEF TupleInv, Known
    <3>3. known' \in Seq(Words \cup {unknown}) /\ Len(known') = tuple.size
      BY <2>0, <2>2, <2>3, <3>1, <3>2 DEF TupleInv
    <3> QED
      BY <3>1, <3>2, <3>3 DEF TupleInv
  <2>4. CASE index < Len(tuple.elements)
    <3> DEFINE n == IF index >= tuple.size THEN index + 1 ELSE tuple.size
    <3>1. tuple' = [tuple EXCEPT !.elements[index + 1] = value, !.size = n]
      BY <2>0, <2>1, <2>4 DEF lm_tuple_set, TupleInv
    <3>2. n \in Nat /\ n <= Len(tuple.elements) /\ index + 1 <= n
      BY <2>0, <2>4 DEF TupleInv
    <3> HIDE DEF n
    <3> DEFINE e == [tuple.elements EXCEPT ![index + 1] = value]
    <3>3. tuple' \in T /\ tuple'.size = n /\ Len(tuple'.elements) = Len(tuple.elements)
          /\ \A i \in 1..Len(tuple.elements) :
                tuple'.elements[i] = IF i = index + 1 THEN value ELSE tuple.elements[i]
      <4>1. tuple.elements \in Seq(Words) /\ index + 1 \in 1..Len(tuple.elements)
        BY <2>0, <2>4 DEF TupleInv
      <4>2. e \in Seq(Words) /\ Len(e) = Len(tuple.elements)
            /\ \A i \in 1..Len(tuple.elements) :
                  e[i] = IF i = index + 1 THEN value ELSE tuple.elements[i]
        BY <2>0, <4>1, SequenceUpdate
      <4>3. tuple' = [tuple EXCEPT !.elements = e, !.size = n]
        BY <3>1
      <4> HIDE DEF e
      <4> QED
        BY <3>2, <4>2, <4>3 DEF TupleInv
    <3>4. \A i \in 1..n : known'[i] = IF i = index + 1 THEN value
                                      ELSE IF i <= tuple.size THEN known[i] ELSE unknown
      BY <2>2, <3>2, <3>3 DEF Known, TupleInv
    <3>5. known' \in Seq(Words \cup {unknown}) /\ Len(known') = n
      <4>1. \A i \in 1..n : known'[i] \in Words \cup {unknown}
        BY <2>0, <3>4 DEF TupleInv
      <4>2. known' = [i \in 1..n |-> known'[i]]
        BY <2>2, <3>3
      <4> QED
        BY <4>1, <4>2, <3>2
    <3> QED
      BY <3>2, <3>3, <3>4, <3>5 DEF TupleInv
  <2> QED
    BY <2>0, <2>3, <2>4 DEF TupleInv
<1>2. ASSUME NEW value \in DictValues, TupleAppend(value) PROVE TupleInv'
  <2> DEFINE more == IF Len(tuple.elements) = 0 THEN 8 ELSE 2 * Len(tuple.elements)
             room == IF tuple.size < Len(tuple.elements) THEN tuple
                     ELSE lm_tuple_resize(tuple, more)
  <2>0. value \in Words /\ more \in Nat /\ more > Len(tuple.elements)
    BY DEF Words, TupleInv
  <2>1. /\ room \in T /\ room.size = tuple.size /\ room.size < Len(room.elements)
        /\ \A i \in 1..tuple.size : room.elements[i] = tuple.elements[i]
    <3> HIDE DEF more
    <3>1. CASE tuple.size < Len(tuple.elements)
      BY <3>1 DEF TupleInv
    <3>2. CASE ~(tuple.size < Len(tuple.elements))
      <4>1. tuple \in T /\ tuple.size <= Len(tuple.elements)
        BY DEF TupleInv
      <4>2. room = lm_tuple_resize(tuple, more)
        BY <3>2
      <4> HIDE DEF room
      <4> QED
        BY <2>0, <4>1, <4>2, ResizeKeeps
    <3> QED
      BY <3>1, <3>2
  <2>2. tuple' = [room EXCEPT !.elements[room.size + 1] = value, !.size = @ + 1]
    BY <1>2 DEF TupleAppend, lm_tuple_append
  <2>3. known' = Append(known, value)
    BY <1>2 DEF TupleAppend
  <2> HIDE DEF room, more
  <2>4. tuple' \in T /\ tuple'.size = tuple.size + 1 /\ Len(tuple'.elements) = Len(room.elements)
        /\ \A i \in 1..Len(room.elements) :
              tuple'.elements[i] = IF i = tuple.size + 1 THEN value ELSE room.elements[i]
    <3> DEFINE e == [room.elements EXCEPT ![room.size + 1] = value]
    <3>1. room.elements \in Seq(Words) /\ room.size + 1 \in 1..Len(room.elements)
      BY <2>1 DEF TupleInv
    <3>2. e \in Seq(Words) /\ Len(e) = Len(room.elements)
          /\ \A i \in 1..Len(room.elements) :
                e[i] = IF i = room.size + 1 THEN value ELSE room.elements[i]
      BY <2>0, <3>1, SequenceUpdate
    <3>3. tuple' = [room EXCEPT !.elements = e, !.size = room.size + 1]
      BY <2>2
    <3> HIDE DEF e
    <3>4. room.size + 1 \in Nat /\ e \in Seq(Words)
      BY <2>1, <3>2
    <3>5. tuple'.elements = e /\ tuple'.size = room.size + 1 /\ tuple' \in T
      BY <2>1, <3>3, <3>4
    <3> QED
      BY <2>1, <3>2, <3>5
  <2>5. known' \in Seq(Words \cup {unknown}) /\ Len(known') = tuple.size + 1
        /\ \A i \in 1..tuple.size + 1 : known'[i] = IF i = tuple.size + 1 THEN value ELSE known[i]
    BY <2>0, <2>3 DEF TupleInv
  <2>6. \A i \in 1..tuple'.size : known'[i] = unknown \/ tuple'.elements[i] = known'[i]
    <3> SUFFICES ASSUME NEW i \in 1..tuple'.size
                 PROVE  known'[i] = unknown \/ tuple'.elements[i] = known'[i]
      OBVIOUS
    <3>0. i \in 1..Len(room.elements) /\ i \in 1..tuple.size + 1 /\ tuple.size \in Nat
      BY <2>1, <2>4 DEF TupleInv
    <3>1. CASE i = tuple.size + 1
      BY <2>4, <2>5, <3>0, <3>1
    <3>2. CASE i \in 1..tuple.size
      <4>1. i # tuple.size + 1
        BY <3>0, <3>2
      <4>2. known'[i] = known[i] /\ tuple'.elements[i] = room.elements[i]
        BY <2>4, <2>5, <3>0, <4>1
      <4> QED
        BY <2>1, <3>2, <4>2 DEF TupleInv
    <3> QED
      BY <2>4, <3>1, <3>2 DEF TupleInv
  <2>7. tuple'.size <= Len(tuple'.elements)
    BY <2>1, <2>4 DEF TupleInv
  <2> QED
    BY <2>4, <2>5, <2>6, <2>7 DEF TupleInv
<1>3. ASSUME NEW n \in 0 .. MAX_SIZE, TupleResize(n) PROVE TupleInv'
  <2> DEFINE r == lm_tuple_resize(tuple, n)
  <2>0. n \in Nat /\ tuple \in T /\ tuple.size <= Len(tuple.elements)
    BY KeysAssumption DEF TupleInv
  <2>1. /\ r \in T
        /\ Len(r.elements) >= Len(tuple.elements)
        /\ r.size = IF n < tuple.size THEN n ELSE tuple.size
        /\ \A i \in 1..Len(tuple.elements) : r.elements[i] = tuple.elements[i]
    BY <2>0, ResizeKeeps
  <2>2. tuple' = r /\ known' = Known(r.size)
    BY <1>3 DEF TupleResize
  <2> HIDE DEF r
  <2>3. r.size <= tuple.size /\ r.size \in Nat
    BY <2>0, <2>1
  <2>4. known' = [i \in 1..r.size |-> known[i]]
    BY <2>2, <2>3 DEF Known, TupleInv
  <2>5. known' \in Seq(Words \cup {unknown}) /\ Len(known') = r.size
        /\ \A i \in 1..r.size : known'[i] = known[i]
    <3>1. \A i \in 1..r.size : known'[i] = known[i] /\ known[i] \in Words \cup {unknown}
      BY <2>3, <2>4 DEF TupleInv
    <3>2. known' = [i \in 1..r.size |-> known'[i]]
      BY <2>4
    <3> QED
      BY <2>3, <3>1, <3>2, IsSequence
  <2>6. \A i \in 1..tuple'.size : known'[i] = unknown \/ tuple'.elements[i] = known'[i]
    <3> SUFFICES ASSUME NEW i \in 1..r.size
                 PROVE  known'[i] = unknown \/ tuple'.elements[i] = known'[i]
      BY <2>2
    <3>1. i \in 1..tuple.size /\ i \in 1..Len(tuple.elements)
      BY <2>0, <2>3
    <3> QED
      BY <2>1, <2>2, <2>5, <3>1 DEF TupleInv
  <2>7. tuple' \in T /\ tuple'.size <= Len(tuple'.elements)
    BY <2>0, <2>1, <2>2, <2>3
  <2> QED
    BY <2>2, <2>5, <2>6, <2>7 DEF TupleInv
<1>4. CASE TupleClear
  <2>1. tuple' = [tuple EXCEPT !.elements = [i \in DOMAIN tuple.elements |->
                       IF i <= tuple.size THEN VAL_NIL ELSE tuple.elements[i]], !.size = 0]
        /\ known' = <<>>
    BY <1>4 DEF TupleClear, lm_tuple_clear
  <2>2. tuple'.elements \in Seq(Words)
    <3> DEFINE e == [i \in 1..Len(tuple.elements) |->
                        IF i <= tuple.size THEN VAL_NIL ELSE tuple.elements[i]]
    <3>1. tuple \in T /\ tuple.elements \in Seq(Words)
      BY DEF TupleInv
    <3>2. tuple'.elements = e
      BY <2>1, <3>1
    <3>3. e = [i \in 1..Len(tuple.elements) |-> e[i]]
          /\ \A i \in 1..Len(tuple.elements) : e[i] \in Words
      BY <3>1 DEF Words
    <3> HIDE DEF e
    <3> QED
      BY <3>1, <3>2, <3>3, IsSequence
  <2>3. tuple' \in T /\ tuple'.size = 0
    BY <2>1, <2>2 DEF TupleInv
  <2> QED
    BY <2>1, <2>3 DEF TupleInv
<1>5. CASE lm_tuple_iterator_next
  BY <1>5 DEF lm_tuple_iterator_next, TupleInv
<1>6. ASSUME NEW n \in 0..2, TupleFree(n) PROVE TupleInv'
  <2>1. tuple' = lm_tuple_new(n) /\ known' = [i \in 1..n |-> VAL_NIL] /\ n \in Nat
    BY <1>6 DEF TupleFree
  <2>2. known' \in Seq(Words \cup {unknown}) /\ Len(known') = n
    BY <2>1 DEF Words
  <2> QED
    BY <2>1, <2>2, NewTuple DEF TupleInv
<1> QED
  BY <1>1, <1>2, <1>3, <1>4, <1>5, <1>6 DEF TupleNext

\* What append and set stored in a tuple is still there after any growth, and
\* the elements it shows fit in its array.
THEOREM TupleElementsKept == TupleSpec => []TupleKeeps
<1>1. ContainersInit => TupleInv
  <2>1. lm_tuple_new(0) \in [type : {"TUPLE"}, elements : Seq(Words), size : Nat]
        /\ lm_tuple_new(0).size = 0 /\ Len(lm_tuple_new(0).elements) = 0
    BY NewTuple
  <2> QED
    BY <2>1 DEF ContainersInit, TupleInv
<1>2. TupleInv /\ [TupleNext]_containerVars => TupleInv'
  BY TupleStep DEF TupleInv, containerVars
<1>3. TupleInv => TupleKeeps
  BY DEF TupleInv, TupleKeeps, lm_tuple_get
<1> QED
  BY <1>1, <1>2, <1>3, PTL DEF TupleSpec

(***************************************************************************)
(* Dicts.  Two words are one key when their identities are equal.           *)
(***************************************************************************)
\* Equal hashes and a comparison that gives 0 are what makes two words one key,
\* however the numbers and strings are boxed.
LEMMA SameKey ==
    ASSUME NEW a \in DictKeys, NEW b \in DictKeys
    PROVE  (/\ hash_boxed_value(Objects, a) = hash_boxed_value(Objects, b)
            /\ cmp_boxed_value(Objects, a, b) = 0) <=> Identity(a) = Identity(b)
<1> DEFINE ia == is_integer(Objects, a)
           ib == is_integer(Objects, b)
           sa == type_id(Objects, a) = "BOX_STRING"
           sb == type_id(Objects, b) = "BOX_STRING"
<1>1. (cmp_boxed_value(Objects, a, b) = 0) <=> lm_value_eq(Objects, a, b)
  BY DEF cmp_boxed_value
<1>2. (ia => ~sa) /\ (ib => ~sb) /\ (sa => IS_PTR(a)) /\ (sb => IS_PTR(b))
  BY DEF is_integer, type_id, IS_PTR
<1>3. /\ ia <=> is_numeric(Objects, a)
      /\ ib <=> is_numeric(Objects, b)
      /\ ~is_float(Objects, a) /\ ~is_float(Objects, b)
  BY KeysAssumption DEF is_numeric
<1>4. lm_value_eq(Objects, a, b) <=>
         \/ a = b
         \/ sa /\ sb /\ Objects[a.at].x = Objects[b.at].x
         \/ ia /\ ib /\ as_i128(Objects, a) = as_i128(Objects, b)
  BY <1>3 DEF lm_value_eq
<1>5. /\ ia => Identity(a) = [k |-> "int", n |-> as_i128(Objects, a)]
      /\ ~ia /\ sa => Identity(a) = [k |-> "string", s |-> Objects[a.at].x]
      /\ ~ia /\ ~sa => Identity(a) = a /\ a.k # "int" /\ a.k # "string"
  BY KeysAssumption DEF Identity, BOX_INT, is_integer
<1>6. /\ ib => Identity(b) = [k |-> "int", n |-> as_i128(Objects, b)]
      /\ ~ib /\ sb => Identity(b) = [k |-> "string", s |-> Objects[b.at].x]
      /\ ~ib /\ ~sb => Identity(b) = b /\ b.k # "int" /\ b.k # "string"
  BY KeysAssumption DEF Identity, BOX_INT, is_integer
<1>7. ia /\ ib /\ as_i128(Objects, a) = as_i128(Objects, b) =>
         hash_boxed_value(Objects, a) = hash_boxed_value(Objects, b)
  <2>1. ia => hash_boxed_value(Objects, a) = lm_hash_int(Objects, a)
    <3>1. ia => a.k # "nil" /\ ~sa
      BY <1>2 DEF is_integer, type_id, IS_PTR
    <3> QED
      BY <3>1 DEF hash_boxed_value
  <2>2. ib => hash_boxed_value(Objects, b) = lm_hash_int(Objects, b)
    <3>1. ib => b.k # "nil" /\ ~sb
      BY <1>2 DEF is_integer, type_id, IS_PTR
    <3> QED
      BY <3>1 DEF hash_boxed_value
  <2>3. as_i128(Objects, a) = as_i128(Objects, b) => lm_hash_int(Objects, a) = lm_hash_int(Objects, b)
    BY DEF lm_hash_int, as_i64
  <2> QED
    BY <2>1, <2>2, <2>3
<1>8. sa /\ sb /\ Objects[a.at].x = Objects[b.at].x =>
         hash_boxed_value(Objects, a) = hash_boxed_value(Objects, b)
  <2>1. sa => hash_boxed_value(Objects, a) = lm_hash_string(Objects[a.at].x)
    BY <1>2 DEF hash_boxed_value, IS_PTR
  <2>2. sb => hash_boxed_value(Objects, b) = lm_hash_string(Objects[b.at].x)
    BY <1>2 DEF hash_boxed_value, IS_PTR
  <2> QED
    BY <2>1, <2>2
<1> HIDE DEF ia, ib, sa, sb
<1>9. lm_value_eq(Objects, a, b) => Identity(a) = Identity(b)
  BY <1>2, <1>4, <1>5, <1>6
<1>10. Identity(a) = Identity(b) =>
          lm_value_eq(Objects, a, b) /\ hash_boxed_value(Objects, a) = hash_boxed_value(Objects, b)
  <2>1. CASE ia /\ ib
    BY <1>4, <1>5, <1>6, <1>7, <2>1
  <2>2. CASE ~ia /\ ~ib /\ sa /\ sb
    <3>1. Identity(a) = [k |-> "string", s |-> Objects[a.at].x]
          /\ Identity(b) = [k |-> "string", s |-> Objects[b.at].x]
      BY <1>5, <1>6, <2>2
    <3>2. Identity(a).s = Objects[a.at].x /\ Identity(b).s = Objects[b.at].x
      BY <3>1
    <3>3. Identity(a) = Identity(b) => Objects[a.at].x = Objects[b.at].x
      BY <3>2
    <3>4. Objects[a.at].x = Objects[b.at].x => lm_value_eq(Objects, a, b)
      BY <1>4, <2>2, Zenon
    <3>5. Objects[a.at].x = Objects[b.at].x =>
             hash_boxed_value(Objects, a) = hash_boxed_value(Objects, b)
      BY <1>8, <2>2, Zenon
    <3> QED
      BY <3>3, <3>4, <3>5, Zenon
  <2>3. CASE ~ia /\ ~sa /\ ~ib /\ ~sb
    BY <1>4, <1>5, <1>6, <2>3
  <2>4. CASE (ia /\ ~ib) \/ (~ia /\ ib) \/ (~ia /\ ~ib /\ ((sa /\ ~sb) \/ (~sa /\ sb)))
    <3>1. [k |-> "int", n |-> as_i128(Objects, a)].k = "int"
          /\ [k |-> "int", n |-> as_i128(Objects, b)].k = "int"
          /\ [k |-> "string", s |-> Objects[a.at].x].k = "string"
          /\ [k |-> "string", s |-> Objects[b.at].x].k = "string"
      OBVIOUS
    <3>2. (ia => Identity(a).k = "int") /\ (~ia => Identity(a).k # "int")
          /\ (ib => Identity(b).k = "int") /\ (~ib => Identity(b).k # "int")
      BY <1>5, <1>6, <3>1
    <3>3. (~ia /\ sa => Identity(a).k = "string") /\ (~ia /\ ~sa => Identity(a).k # "string")
          /\ (~ib /\ sb => Identity(b).k = "string") /\ (~ib /\ ~sb => Identity(b).k # "string")
      BY <1>5, <1>6, <3>1
    <3> QED
      BY <2>4, <3>2, <3>3
  <2> QED
    BY <2>1, <2>2, <2>3, <2>4
<1> QED
  BY <1>1, <1>9, <1>10

(***************************************************************************)
(* A set of entries as a map.                                               *)
(***************************************************************************)
KeysOf(E) == {Identity(e.key) : e \in E}
MapBy(E) == [k \in KeysOf(E) |-> (CHOOSE e \in E : Identity(e.key) = k).value]
KeyOnce(E) == \A e, f \in E : Identity(e.key) = Identity(f.key) => e = f

LEMMA MapByValue ==
    ASSUME NEW E, KeyOnce(E), NEW e \in E
    PROVE  Identity(e.key) \in KeysOf(E) /\ MapBy(E)[Identity(e.key)] = e.value
<1>1. Identity(e.key) \in KeysOf(E)
  BY DEF KeysOf
<1>2. (CHOOSE f \in E : Identity(f.key) = Identity(e.key)) = e
  BY DEF KeyOnce
<1> QED
  BY <1>1, <1>2 DEF MapBy

\* Entering e, in place of the entry of its key if there is one, sets its key.
LEMMA EnterSets ==
    ASSUME NEW E, NEW F, KeyOnce(E), NEW e \in F,
           \A f : f \in F <=> f = e \/ (f \in E /\ Identity(f.key) # Identity(e.key))
    PROVE  /\ KeyOnce(F)
           /\ KeysOf(F) = KeysOf(E) \cup {Identity(e.key)}
           /\ MapBy(F) = [x \in DOMAIN MapBy(E) \cup {Identity(e.key)} |->
                             IF x = Identity(e.key) THEN e.value ELSE MapBy(E)[x]]
<1> DEFINE k == Identity(e.key)
           G == [x \in DOMAIN MapBy(E) \cup {k} |-> IF x = k THEN e.value ELSE MapBy(E)[x]]
<1>1. KeyOnce(F)
  BY DEF KeyOnce
<1>2. KeysOf(F) = KeysOf(E) \cup {k}
  BY DEF KeysOf
<1>3. DOMAIN MapBy(E) = KeysOf(E) /\ DOMAIN MapBy(F) = KeysOf(F)
  BY DEF MapBy
<1>4. ASSUME NEW x \in KeysOf(F) PROVE MapBy(F)[x] = G[x]
  <2>1. PICK f \in F : x = Identity(f.key)
    BY DEF KeysOf
  <2>2. MapBy(F)[x] = f.value
    BY <1>1, <2>1, MapByValue
  <2>3. x \in DOMAIN MapBy(E) \cup {k}
    BY <1>2, <1>3
  <2>4. CASE f = e
    BY <2>1, <2>2, <2>3, <2>4
  <2>5. CASE f # e
    <3>1. f \in E /\ x # k
      BY <2>1, <2>5
    <3>2. MapBy(E)[x] = f.value
      BY <2>1, <3>1, MapByValue
    <3> QED
      BY <2>2, <2>3, <3>1, <3>2
  <2> QED
    BY <2>4, <2>5
<1>5. MapBy(F) = [x \in KeysOf(F) |-> MapBy(F)[x]] /\ G = [x \in KeysOf(F) |-> G[x]]
  <2>1. DOMAIN G = KeysOf(F)
    BY <1>2, <1>3
  <2>2. MapBy(F) = [x \in KeysOf(F) |-> MapBy(F)[x]]
    BY DEF MapBy
  <2> QED
    BY <1>2, <1>3, <2>2
<1> HIDE DEF G
<1>6. MapBy(F) = G
  BY <1>4, <1>5
<1> QED
  BY <1>1, <1>2, <1>6 DEF G

(***************************************************************************)
(* The buckets.                                                             *)
(***************************************************************************)
B == 0 .. INITIAL_BUCKET_COUNT - 1
Entry == [key : DictKeys, value : DictValues, hash : Nat]

\* The entry at place i of bucket b is where the hash of its key puts it.
Placed(bs, b, i) ==
    LET e == bs[b][i]
    IN  e \in Entry /\ e.hash = hash_boxed_value(Objects, e.key) /\ Bucket(e.key) = b

EntriesOf(bs) == UNION {Range(bs[b]) : b \in DOMAIN bs}

\* The inductive invariant: every entry is in the bucket of its key, no key is
\* entered twice and the size counts the keys.
DictInv ==
    /\ buckets = [b \in B |-> buckets[b]] /\ \A b \in B : buckets[b] \in Seq(Entry)
    /\ \A b \in B : \A i \in 1..Len(buckets[b]) : Placed(buckets, b, i)
    /\ KeyOnce(Entries)
    /\ \A b \in B : \A i, j \in 1..Len(buckets[b]) : buckets[b][i] = buckets[b][j] => i = j
    /\ IsFiniteSet(KeysOf(Entries)) /\ size = Cardinality(KeysOf(Entries))

LEMMA EntryPlaces ==
    ASSUME NEW bs, bs = [b \in B |-> bs[b]], \A b \in B : bs[b] \in Seq(Entry), NEW e
    PROVE  e \in EntriesOf(bs) <=> \E b \in B : \E i \in 1..Len(bs[b]) : e = bs[b][i]
<1>1. DOMAIN bs = B
  OBVIOUS
<1>2. \A b \in B : DOMAIN bs[b] = 1..Len(bs[b])
  OBVIOUS
<1> QED
  BY <1>1, <1>2 DEF EntriesOf, Range

LEMMA BucketIn == ASSUME NEW key \in DictKeys PROVE Bucket(key) \in B /\ Bucket(key) \in Nat
  BY KeysAssumption DEF Bucket, B

\* The places where a key is found are those of entries of its identity, and
\* there is one at most.
LEMMA HitsFound ==
    ASSUME DictInv, NEW key \in DictKeys
    PROVE  /\ \A e \in Entries : Identity(e.key) = Identity(key) =>
                 \E i \in Hits(key) : e = buckets[Bucket(key)][i]
           /\ \A i \in Hits(key) :
                 /\ i \in 1..Len(buckets[Bucket(key)])
                 /\ buckets[Bucket(key)][i] \in Entries
                 /\ Identity(buckets[Bucket(key)][i].key) = Identity(key)
           /\ \A i, j \in Hits(key) : i = j
<1> DEFINE c == Bucket(key)
<1>1. c \in B /\ buckets[c] \in Seq(Entry) /\ DOMAIN buckets[c] = 1..Len(buckets[c])
  BY BucketIn DEF DictInv
<1>2. Entries = EntriesOf(buckets)
  BY DEF Entries, EntriesOf
<1>3. \A i \in Hits(key) : /\ i \in 1..Len(buckets[c])
                           /\ buckets[c][i].hash = hash_boxed_value(Objects, key)
                           /\ cmp_boxed_value(Objects, buckets[c][i].key, key) = 0
  BY <1>1 DEF Hits
<1>4. \A i \in 1..Len(buckets[c]) :
         /\ buckets[c][i].hash = hash_boxed_value(Objects, key)
         /\ cmp_boxed_value(Objects, buckets[c][i].key, key) = 0
         => i \in Hits(key)
  BY <1>1 DEF Hits
<1>5. ASSUME NEW e \in Entries, Identity(e.key) = Identity(key)
      PROVE  \E i \in Hits(key) : e = buckets[c][i]
  <2>0. PICK b \in B : \E i \in 1..Len(buckets[b]) : e = buckets[b][i]
    BY <1>2, EntryPlaces DEF DictInv
  <2>1. PICK i \in 1..Len(buckets[b]) : e = buckets[b][i]
    BY <2>0
  <2>2. e.key \in DictKeys /\ e.hash = hash_boxed_value(Objects, e.key) /\ Bucket(e.key) = b
    BY <2>1 DEF DictInv, Placed, Entry
  <2>3. /\ hash_boxed_value(Objects, e.key) = hash_boxed_value(Objects, key)
        /\ cmp_boxed_value(Objects, e.key, key) = 0
    BY <1>5, <2>2, SameKey
  <2>4. b = c
    BY <2>2, <2>3 DEF Bucket
  <2> QED
    BY <1>4, <2>1, <2>2, <2>3, <2>4
<1>6. ASSUME NEW i \in Hits(key)
      PROVE  buckets[c][i] \in Entries /\ Identity(buckets[c][i].key) = Identity(key)
  <2>1. buckets[c][i] \in Entries
    BY <1>1, <1>2, <1>3, EntryPlaces DEF DictInv
  <2>2. buckets[c][i].key \in DictKeys
        /\ buckets[c][i].hash = hash_boxed_value(Objects, buckets[c][i].key)
    BY <1>1, <1>3 DEF DictInv, Placed, Entry
  <2> QED
    BY <1>3, <2>1, <2>2, SameKey
<1>7. \A i, j \in Hits(key) : i = j
  <2> SUFFICES ASSUME NEW i \in Hits(key), NEW j \in Hits(key) PROVE i = j
    OBVIOUS
  <2>1. buckets[c][i] = buckets[c][j]
    BY <1>6 DEF DictInv, KeyOnce
  <2> QED
    BY <1>1, <1>3, <2>1 DEF DictInv
<1> QED
  BY <1>3, <1>5, <1>6, <1>7

LEMMA FirstHit ==
    ASSUME DictInv, NEW key \in DictKeys, Hits(key) # {}
    PROVE  FirstOf(Hits(key)) \in Hits(key)
<1>1. PICK i \in Hits(key) : TRUE
  OBVIOUS
<1>2. i \in Nat /\ \A j \in Hits(key) : j = i
  BY HitsFound
<1>3. \A j \in Hits(key) : i <= j
  BY <1>2
<1> QED
  BY <1>3 DEF FirstOf

LEMMA MapOfEntries == MapOf = MapBy(Entries) /\ DOMAIN MapOf = KeysOf(Entries)
  BY DEF MapOf, MapBy, KeysOf

\* What get finds is what the map holds.
LEMMA FoundIsLookup ==
    ASSUME DictInv, NEW key \in DictKeys
    PROVE  Found(key) = IF Identity(key) \in DOMAIN MapOf THEN MapOf[Identity(key)] ELSE VAL_NIL
<1>1. CASE Hits(key) = {}
  <2>1. Identity(key) \notin KeysOf(Entries)
    BY <1>1, HitsFound DEF KeysOf
  <2> QED
    BY <1>1, <2>1, MapOfEntries DEF Found
<1>2. CASE Hits(key) # {}
  <2> DEFINE e == buckets[Bucket(key)][FirstOf(Hits(key))]
  <2>1. e \in Entries /\ Identity(e.key) = Identity(key)
    BY <1>2, FirstHit, HitsFound
  <2>2. Found(key) = e.value
    BY <1>2 DEF Found
  <2>3. KeyOnce(Entries)
    BY DEF DictInv
  <2> HIDE DEF e
  <2>4. Identity(e.key) \in KeysOf(Entries) /\ MapBy(Entries)[Identity(e.key)] = e.value
    BY <2>1, <2>3, MapByValue
  <2> QED
    BY <2>1, <2>2, <2>4, MapOfEntries
<1> QED
  BY <1>1, <1>2

\* What a set that enters e does to the map, whichever place e takes.
LEMMA EnteredEntry ==
    ASSUME DictInv, NEW e \in Entries',
           \A f : f \in Entries' <=> f = e \/ (f \in Entries /\ Identity(f.key) # Identity(e.key))
    PROVE  /\ KeyOnce(Entries')
           /\ KeysOf(Entries') = KeysOf(Entries) \cup {Identity(e.key)}
           /\ MapOf' = [x \in DOMAIN MapOf \cup {Identity(e.key)} |->
                           IF x = Identity(e.key) THEN e.value ELSE MapOf[x]]
<1> DEFINE E == Entries
           F == Entries'
<1>1. KeyOnce(E)
  BY DEF DictInv
<1>2. e \in F /\ \A f : f \in F <=> f = e \/ (f \in E /\ Identity(f.key) # Identity(e.key))
  OBVIOUS
<1>3. MapOf = MapBy(E) /\ MapOf' = MapBy(F)
  BY DEF MapOf, MapBy, KeysOf
<1> HIDE DEF E, F
<1>4. /\ KeyOnce(F)
      /\ KeysOf(F) = KeysOf(E) \cup {Identity(e.key)}
      /\ MapBy(F) = [x \in DOMAIN MapBy(E) \cup {Identity(e.key)} |->
                        IF x = Identity(e.key) THEN e.value ELSE MapBy(E)[x]]
  BY <1>1, <1>2, EnterSets
<1> QED
  BY <1>3, <1>4 DEF E, F

\* A set of a key that is there replaces its value.
LEMMA HitReplaces ==
    ASSUME DictInv, NEW key \in DictKeys, NEW value \in DictValues, lm_dict_set(key, value),
           Hits(key) # {}
    PROVE  /\ DictInv'
           /\ MapOf' = [x \in DOMAIN MapOf \cup {Identity(key)} |->
                           IF x = Identity(key) THEN value ELSE MapOf[x]]
<1> DEFINE c == Bucket(key)
           p == FirstOf(Hits(key))
           old == buckets[c][p]
           new == [old EXCEPT !.value = value]
           chain == [buckets[c] EXCEPT ![p] = new]
<1>1. c \in B /\ c \in Nat
  BY BucketIn
<1>2. p \in 1..Len(buckets[c]) /\ old \in Entries /\ Identity(old.key) = Identity(key)
  BY FirstHit, HitsFound
<1>3. old \in Entry /\ old.hash = hash_boxed_value(Objects, old.key) /\ Bucket(old.key) = c
  BY <1>1, <1>2 DEF DictInv, Placed
<1>4. buckets' = [buckets EXCEPT ![c] = chain] /\ size' = size
  BY DEF lm_dict_set
<1>5. new \in Entry /\ new.key = old.key /\ new.hash = old.hash /\ new.value = value
  BY <1>3 DEF Entry
<1>6. buckets[c] \in Seq(Entry) /\ buckets = [b \in B |-> buckets[b]]
      /\ \A b \in B : buckets[b] \in Seq(Entry)
  BY <1>1 DEF DictInv
<1> HIDE DEF c, p, new
<1>7. chain \in Seq(Entry) /\ Len(chain) = Len(buckets[c])
      /\ \A i \in 1..Len(buckets[c]) : chain[i] = IF i = p THEN new ELSE buckets[c][i]
  <2>1. p \in 1..Len(buckets[c])
    BY <1>2 DEF p, c
  <2> QED
    BY <1>5, <1>6, <2>1, SequenceUpdate
<1> HIDE DEF chain
<1>8. /\ buckets' = [b \in B |-> buckets'[b]] /\ \A b \in B : buckets'[b] \in Seq(Entry)
      /\ \A b \in B : Len(buckets'[b]) = Len(buckets[b])
      /\ \A b \in B : \A i \in 1..Len(buckets[b]) :
            buckets'[b][i] = IF b = c /\ i = p THEN new ELSE buckets[b][i]
  <2>1. /\ buckets' = [b \in B |-> buckets'[b]]
        /\ \A b \in B : buckets'[b] = IF b = c THEN chain ELSE buckets[b]
    BY <1>1, <1>4, <1>6
  <2> QED
    BY <1>1, <1>6, <1>7, <2>1
<1>9. Entries = EntriesOf(buckets) /\ Entries' = EntriesOf(buckets')
  BY DEF Entries, EntriesOf
<1>10. \A f : f \in Entries <=> \E b \in B : \E i \in 1..Len(buckets[b]) : f = buckets[b][i]
  BY <1>6, <1>9, EntryPlaces
<1>11. \A f : f \in Entries' <=> \E b \in B : \E i \in 1..Len(buckets[b]) : f = buckets'[b][i]
  <2>1. \A f : f \in Entries' <=> \E b \in B : \E i \in 1..Len(buckets'[b]) : f = buckets'[b][i]
    BY <1>8, <1>9, EntryPlaces
  <2> QED
    BY <1>8, <2>1
<1>12. p \in 1..Len(buckets[c]) /\ buckets[c][p] = old /\ old \in Entries
       /\ Identity(old.key) = Identity(key)
  BY <1>2 DEF c, p
<1> HIDE DEF old
\* the place of the key is the only one with its identity
<1>13. ASSUME NEW b \in B, NEW i \in 1..Len(buckets[b]), Identity(buckets[b][i].key) = Identity(key)
       PROVE  b = c /\ i = p
  <2>1. buckets[b][i] \in Entries
    BY <1>10
  <2>2. buckets[b][i] = old
    BY <1>12, <1>13, <2>1 DEF DictInv, KeyOnce
  <2>3. Bucket(buckets[b][i].key) = b
    BY DEF DictInv, Placed
  <2>4. b = c
    BY <1>3, <2>2, <2>3 DEF old, c, p
  <2> QED
    BY <1>12, <2>2, <2>4 DEF DictInv
<1>14. Identity(new.key) = Identity(key)
  BY <1>5, <1>12
<1>15. new \in Entries'
  BY <1>1, <1>8, <1>11, <1>12
<1>16. ASSUME NEW f PROVE f \in Entries' <=> f = new \/ (f \in Entries /\ Identity(f.key) # Identity(new.key))
  <2>1. ASSUME f \in Entries', f # new PROVE f \in Entries /\ Identity(f.key) # Identity(new.key)
    <3>1. PICK b \in B : \E i \in 1..Len(buckets[b]) : f = buckets'[b][i]
      BY <1>11, <2>1
    <3>2. PICK i \in 1..Len(buckets[b]) : f = buckets'[b][i]
      BY <3>1
    <3>3. f = buckets[b][i] /\ ~(b = c /\ i = p)
      BY <1>8, <2>1, <3>2
    <3> QED
      BY <1>10, <1>13, <1>14, <3>3
  <2>2. ASSUME f \in Entries, Identity(f.key) # Identity(new.key) PROVE f \in Entries'
    <3>1. PICK b \in B : \E i \in 1..Len(buckets[b]) : f = buckets[b][i]
      BY <1>10, <2>2
    <3>2. PICK i \in 1..Len(buckets[b]) : f = buckets[b][i]
      BY <3>1
    <3>3. ~(b = c /\ i = p)
      BY <1>12, <1>14, <2>2, <3>2
    <3>4. f = buckets'[b][i]
      BY <1>8, <3>2, <3>3
    <3> QED
      BY <1>11, <3>4
  <2> QED
    BY <1>15, <2>1, <2>2
<1>17. /\ KeyOnce(Entries')
       /\ KeysOf(Entries') = KeysOf(Entries) \cup {Identity(new.key)}
       /\ MapOf' = [x \in DOMAIN MapOf \cup {Identity(new.key)} |->
                       IF x = Identity(new.key) THEN new.value ELSE MapOf[x]]
  BY <1>15, <1>16, EnteredEntry
<1>18. KeysOf(Entries') = KeysOf(Entries)
  BY <1>12, <1>14, <1>17 DEF KeysOf
<1>19. ASSUME NEW b \in B, NEW i \in 1..Len(buckets'[b]) PROVE Placed(buckets', b, i)
  <2>1. CASE b = c /\ i = p
    BY <1>1, <1>3, <1>5, <1>8, <1>12, <2>1 DEF Placed, old, c, p
  <2>2. CASE ~(b = c /\ i = p)
    <3>1. Placed(buckets, b, i) /\ buckets'[b][i] = buckets[b][i]
      BY <1>8, <2>2 DEF DictInv
    <3> QED
      BY <3>1 DEF Placed
  <2> QED
    BY <2>1, <2>2
<1>20. ASSUME NEW b \in B, NEW i \in 1..Len(buckets'[b]), NEW j \in 1..Len(buckets'[b]),
              buckets'[b][i] = buckets'[b][j]
       PROVE  i = j
  <2>0. i \in 1..Len(buckets[b]) /\ j \in 1..Len(buckets[b])
    BY <1>8
  <2>1. CASE b = c /\ i = p
    <3>1. Identity(buckets'[b][j].key) = Identity(key)
      BY <1>8, <1>14, <1>20, <2>0, <2>1
    <3>2. CASE j = p
      BY <2>1, <3>2
    <3>3. CASE j # p
      BY <1>8, <1>13, <2>0, <3>1, <3>3
    <3> QED
      BY <3>2, <3>3
  <2>2. CASE b = c /\ j = p
    <3>1. Identity(buckets'[b][i].key) = Identity(key)
      BY <1>8, <1>14, <1>20, <2>0, <2>2
    <3>2. CASE i = p
      BY <2>2, <3>2
    <3>3. CASE i # p
      BY <1>8, <1>13, <2>0, <3>1, <3>3
    <3> QED
      BY <3>2, <3>3
  <2>3. CASE ~(b = c /\ i = p) /\ ~(b = c /\ j = p)
    <3>1. buckets[b][i] = buckets[b][j]
      BY <1>8, <1>20, <2>0, <2>3
    <3> QED
      BY <2>0, <3>1 DEF DictInv
  <2> QED
    BY <2>1, <2>2, <2>3
<1>21. IsFiniteSet(KeysOf(Entries)) /\ size = Cardinality(KeysOf(Entries))
  BY DEF DictInv
<1>22. IsFiniteSet(KeysOf(Entries')) /\ size' = Cardinality(KeysOf(Entries'))
  BY <1>4, <1>18, <1>21
<1>23. DictInv'
  BY <1>8, <1>17, <1>19, <1>20, <1>22 DEF DictInv
<1> QED
  BY <1>5, <1>14, <1>17, <1>23

\* A set of a new key enters it, at the front of its chain.
LEMMA MissEnters ==
    ASSUME DictInv, NEW key \in DictKeys, NEW value \in DictValues, lm_dict_set(key, value),
           Hits(key) = {}
    PROVE  /\ DictInv'
           /\ MapOf' = [x \in DOMAIN MapOf \cup {Identity(key)} |->
                           IF x = Identity(key) THEN value ELSE MapOf[x]]
<1> DEFINE c == Bucket(key)
           new == [key |-> key, value |-> value, hash |-> hash_boxed_value(Objects, key)]
           chain == << new >> \o buckets[c]
<1>1. c \in B /\ c \in Nat
  BY BucketIn
<1>2. buckets' = [buckets EXCEPT ![c] = chain] /\ size' = size + 1
  BY DEF lm_dict_set
<1>3. /\ new \in Entry /\ new.key = key /\ new.value = value
      /\ new.hash = hash_boxed_value(Objects, key) /\ Bucket(new.key) = c
  BY KeysAssumption DEF Entry
<1>4. buckets[c] \in Seq(Entry) /\ buckets = [b \in B |-> buckets[b]]
      /\ \A b \in B : buckets[b] \in Seq(Entry)
  BY <1>1 DEF DictInv
<1>5. \A e \in Entries : Identity(e.key) # Identity(key)
  BY HitsFound
<1> HIDE DEF c, new
<1>6. chain \in Seq(Entry) /\ Len(chain) = Len(buckets[c]) + 1 /\ chain[1] = new
      /\ \A i \in 1..Len(buckets[c]) : chain[i + 1] = buckets[c][i]
  BY <1>3, <1>4
<1> HIDE DEF chain
<1>7. /\ buckets' = [b \in B |-> buckets'[b]] /\ \A b \in B : buckets'[b] \in Seq(Entry)
      /\ \A b \in B : b # c => buckets'[b] = buckets[b]
      /\ buckets'[c] = chain
  BY <1>1, <1>2, <1>4, <1>6
<1>8. Entries = EntriesOf(buckets) /\ Entries' = EntriesOf(buckets')
  BY DEF Entries, EntriesOf
<1>9. \A f : f \in Entries <=> \E b \in B : \E i \in 1..Len(buckets[b]) : f = buckets[b][i]
  BY <1>4, <1>8, EntryPlaces
<1>10. \A f : f \in Entries' <=> \E b \in B : \E i \in 1..Len(buckets'[b]) : f = buckets'[b][i]
  BY <1>7, <1>8, EntryPlaces
\* an entry is the new one or where it was
<1>11. ASSUME NEW b \in B, NEW i \in 1..Len(buckets'[b])
       PROVE  \/ b = c /\ i = 1 /\ buckets'[b][i] = new
              \/ b # c /\ i \in 1..Len(buckets[b]) /\ buckets'[b][i] = buckets[b][i]
              \/ b = c /\ i - 1 \in 1..Len(buckets[b]) /\ buckets'[b][i] = buckets[b][i - 1]
  <2>1. CASE b # c
    BY <1>7, <2>1
  <2>2. CASE b = c /\ i = 1
    BY <1>6, <1>7, <2>2
  <2>3. CASE b = c /\ i # 1
    <3>1. i - 1 \in 1..Len(buckets[c]) /\ (i - 1) + 1 = i
      BY <1>4, <1>6, <1>7, <2>3
    <3>2. chain[i] = buckets[c][i - 1]
      BY <1>6, <3>1
    <3> QED
      BY <1>7, <2>3, <3>1, <3>2
  <2> QED
    BY <2>1, <2>2, <2>3
<1>12. new \in Entries'
  <2>1. 1 \in 1..Len(buckets'[c]) /\ buckets'[c][1] = new
    BY <1>4, <1>6, <1>7
  <2> QED
    BY <1>1, <1>10, <2>1
<1>13. ASSUME NEW f PROVE f \in Entries' <=> f = new \/ (f \in Entries /\ Identity(f.key) # Identity(new.key))
  <2>1. ASSUME f \in Entries', f # new PROVE f \in Entries /\ Identity(f.key) # Identity(new.key)
    <3>1. PICK b \in B : \E i \in 1..Len(buckets'[b]) : f = buckets'[b][i]
      BY <1>10, <2>1
    <3>2. PICK i \in 1..Len(buckets'[b]) : f = buckets'[b][i]
      BY <3>1
    <3>3. f \in Entries
      BY <1>9, <1>11, <2>1, <3>2
    <3> QED
      BY <1>3, <1>5, <3>3
  <2>2. ASSUME f \in Entries PROVE f \in Entries'
    <3>1. PICK b \in B : \E i \in 1..Len(buckets[b]) : f = buckets[b][i]
      BY <1>9, <2>2
    <3>2. PICK i \in 1..Len(buckets[b]) : f = buckets[b][i]
      BY <3>1
    <3>3. CASE b = c
      <4>1. i + 1 \in 1..Len(buckets'[c]) /\ buckets'[c][i + 1] = f
        BY <1>4, <1>6, <1>7, <3>2, <3>3
      <4> QED
        BY <1>1, <1>10, <4>1
    <3>4. CASE b # c
      BY <1>7, <1>10, <3>2, <3>4
    <3> QED
      BY <3>3, <3>4
  <2> QED
    BY <1>12, <2>1, <2>2
<1>14. /\ KeyOnce(Entries')
       /\ KeysOf(Entries') = KeysOf(Entries) \cup {Identity(new.key)}
       /\ MapOf' = [x \in DOMAIN MapOf \cup {Identity(new.key)} |->
                       IF x = Identity(new.key) THEN new.value ELSE MapOf[x]]
  BY <1>12, <1>13, EnteredEntry
<1>15. Identity(key) \notin KeysOf(Entries)
  BY <1>5 DEF KeysOf
<1>16. IsFiniteSet(KeysOf(Entries)) /\ size = Cardinality(KeysOf(Entries))
  BY DEF DictInv
<1>17. IsFiniteSet(KeysOf(Entries')) /\ size' = Cardinality(KeysOf(Entries'))
  BY <1>2, <1>3, <1>14, <1>15, <1>16, FS_AddElement
<1>18. ASSUME NEW b \in B, NEW i \in 1..Len(buckets'[b]) PROVE Placed(buckets', b, i)
  <2>1. CASE b = c /\ i = 1 /\ buckets'[b][i] = new
    BY <1>3, <2>1 DEF Placed
  <2>2. CASE b # c /\ i \in 1..Len(buckets[b]) /\ buckets'[b][i] = buckets[b][i]
    <3>1. Placed(buckets, b, i)
      BY <2>2 DEF DictInv
    <3> QED
      BY <2>2, <3>1 DEF Placed
  <2>3. CASE b = c /\ i - 1 \in 1..Len(buckets[b]) /\ buckets'[b][i] = buckets[b][i - 1]
    <3>1. Placed(buckets, b, i - 1)
      BY <2>3 DEF DictInv
    <3> QED
      BY <2>3, <3>1 DEF Placed
  <2> QED
    BY <1>11, <2>1, <2>2, <2>3
<1>19. ASSUME NEW b \in B, NEW i \in 1..Len(buckets'[b]), NEW j \in 1..Len(buckets'[b]),
              buckets'[b][i] = buckets'[b][j]
       PROVE  i = j
  <2>0. \A k \in 1..Len(buckets[b]) : buckets[b][k] # new
    <3>1. \A k \in 1..Len(buckets[b]) : buckets[b][k] \in Entries
      BY <1>9
    <3> QED
      BY <1>3, <1>5, <3>1
  <2>1. CASE b # c
    BY <1>7, <1>19, <2>1 DEF DictInv
  <2>2. CASE b = c
    <3>1. CASE i = 1 /\ j = 1
      BY <3>1
    <3>2. CASE i = 1 /\ j # 1
      <4>1. j - 1 \in 1..Len(buckets[b]) /\ buckets'[b][j] = buckets[b][j - 1]
        BY <1>11, <2>2, <3>2
      <4>2. buckets'[b][i] = new
        BY <1>6, <1>7, <2>2, <3>2
      <4> QED
        BY <1>19, <2>0, <4>1, <4>2
    <3>3. CASE i # 1 /\ j = 1
      <4>1. i - 1 \in 1..Len(buckets[b]) /\ buckets'[b][i] = buckets[b][i - 1]
        BY <1>11, <2>2, <3>3
      <4>2. buckets'[b][j] = new
        BY <1>6, <1>7, <2>2, <3>3
      <4> QED
        BY <1>19, <2>0, <4>1, <4>2
    <3>4. CASE i # 1 /\ j # 1
      <4>1. i - 1 \in 1..Len(buckets[b]) /\ buckets'[b][i] = buckets[b][i - 1]
        BY <1>11, <2>2, <3>4
      <4>2. j - 1 \in 1..Len(buckets[b]) /\ buckets'[b][j] = buckets[b][j - 1]
        BY <1>11, <2>2, <3>4
      <4>3. i - 1 = j - 1
        BY <1>19, <4>1, <4>2 DEF DictInv
      <4> QED
        BY <4>3
    <3> QED
      BY <3>1, <3>2, <3>3, <3>4
  <2> QED
    BY <2>1, <2>2
<1>20. DictInv'
  BY <1>7, <1>14, <1>17, <1>18, <1>19 DEF DictInv
<1> QED
  BY <1>3, <1>14, <1>20

(***************************************************************************)
(* The empty dict.                                                          *)
(***************************************************************************)
LEMMA NewDict == buckets = jit_dict_new /\ size = 0 => DictInv /\ MapOf = [k \in {} |-> VAL_NIL]
<1> SUFFICES ASSUME buckets = jit_dict_new, size = 0
             PROVE  DictInv /\ MapOf = [k \in {} |-> VAL_NIL]
  OBVIOUS
<1>1. buckets = [b \in B |-> <<>>]
  BY DEF jit_dict_new, B
<1>2. Entries = {}
  BY <1>1 DEF Entries, Range
<1>3. KeysOf(Entries) = {}
  BY <1>2 DEF KeysOf
<1>4. IsFiniteSet(KeysOf(Entries)) /\ Cardinality(KeysOf(Entries)) = 0
  BY <1>3, FS_EmptySet
<1>5. DictInv
  BY <1>1, <1>2, <1>4 DEF DictInv, KeyOnce
<1>6. MapOf = [k \in {} |-> VAL_NIL]
  BY <1>2 DEF MapOf
<1> QED
  BY <1>5, <1>6

LEMMA DictSame ==
    ASSUME DictInv, UNCHANGED << buckets, size >>
    PROVE  DictInv' /\ MapOf' = MapOf
<1>1. Entries' = Entries
  BY DEF Entries
<1> QED
  BY <1>1 DEF DictInv, MapOf, Placed

(***************************************************************************)
(* Each call does what the map does.                                        *)
(***************************************************************************)
LEMMA DictStep ==
    ASSUME DictInv, DictNext
    PROVE  DictInv' /\ AbstractDict!Next
<1> DEFINE K == {Identity(key) : key \in DictKeys}
<1>1. ASSUME NEW key \in DictKeys, NEW value \in DictValues, lm_dict_set(key, value)
      PROVE  DictInv' /\ AbstractDict!Next
  <2>1. DictInv' /\ MapOf' = [x \in DOMAIN MapOf \cup {Identity(key)} |->
                                 IF x = Identity(key) THEN value ELSE MapOf[x]]
    BY <1>1, HitReplaces, MissEnters
  <2>2. answer' = << "none" >>
    BY <1>1 DEF lm_dict_set
  <2>3. AbstractDict!Set(Identity(key), value)
    BY <2>1, <2>2 DEF AbstractDict!Set
  <2> QED
    BY <2>1, <2>3 DEF AbstractDict!Next
<1>2. ASSUME NEW key \in DictKeys, lm_dict_get(key) PROVE DictInv' /\ AbstractDict!Next
  <2>1. DictInv' /\ MapOf' = MapOf
    BY <1>2, DictSame DEF lm_dict_get
  <2>2. AbstractDict!Get(Identity(key))
    BY <1>2, <2>1, FoundIsLookup DEF lm_dict_get, AbstractDict!Get, AbstractDict!Lookup
  <2> QED
    BY <2>1, <2>2 DEF AbstractDict!Next
<1>3. ASSUME NEW key \in DictKeys, lm_dict_contains(key) PROVE DictInv' /\ AbstractDict!Next
  <2>1. DictInv' /\ MapOf' = MapOf
    BY <1>3, DictSame DEF lm_dict_contains
  <2>2. AbstractDict!Contains(Identity(key))
    BY <1>3, <2>1, FoundIsLookup DEF lm_dict_contains, AbstractDict!Contains, AbstractDict!Lookup
  <2> QED
    BY <2>1, <2>2 DEF AbstractDict!Next
<1>4. ASSUME lm_dict_items PROVE DictInv' /\ AbstractDict!Next
  <2>1. DictInv' /\ MapOf' = MapOf
    BY <1>4, DictSame DEF lm_dict_items
  <2>2. DOMAIN MapOf = KeysOf(Entries) /\ size = Cardinality(KeysOf(Entries))
    BY MapOfEntries DEF DictInv
  <2>3. \A e \in Entries : Identity(e.key) \in KeysOf(Entries) /\ MapOf[Identity(e.key)] = e.value
    BY MapByValue, MapOfEntries DEF DictInv
  <2>4. { << Identity(e.key), e.value >> : e \in Entries } = { << k, MapOf[k] >> : k \in DOMAIN MapOf }
    <3>1. ASSUME NEW e \in Entries
          PROVE  \E k \in DOMAIN MapOf : << Identity(e.key), e.value >> = << k, MapOf[k] >>
      BY <2>2, <2>3
    <3>2. ASSUME NEW k \in DOMAIN MapOf
          PROVE  \E e \in Entries : << Identity(e.key), e.value >> = << k, MapOf[k] >>
      <4>1. PICK e \in Entries : k = Identity(e.key)
        BY <2>2 DEF KeysOf
      <4> QED
        BY <2>3, <4>1
    <3> QED
      BY <3>1, <3>2
  <2>5. AbstractDict!Items
    <3>1. Cardinality(DOMAIN MapOf) = AbstractDict!Cardinality(DOMAIN MapOf)
      BY DEF Cardinality, AbstractDict!Cardinality, IsFiniteSet, AbstractDict!IsFiniteSet
    <3> QED
      BY <1>4, <2>1, <2>2, <2>4, <3>1 DEF lm_dict_items, AbstractDict!Items
  <2> QED
    BY <2>1, <2>5 DEF AbstractDict!Next
<1>5. ASSUME lm_dict_free PROVE DictInv' /\ AbstractDict!Next
  <2>1. (buckets = jit_dict_new /\ size = 0 => DictInv /\ MapOf = [k \in {} |-> VAL_NIL])'
    BY NewDict, PTL
  <2>2. DictInv' /\ MapOf' = [k \in {} |-> VAL_NIL] /\ answer' = << "none" >>
    BY <1>5, <2>1 DEF lm_dict_free, jit_dict_new
  <2>3. AbstractDict!Free
    BY <2>2 DEF AbstractDict!Free
  <2> QED
    BY <2>2, <2>3 DEF AbstractDict!Next
<1> QED
  BY <1>1, <1>2, <1>3, <1>4, <1>5 DEF DictNext

\* However the keys are boxed, collide in a bucket or share a hash, a dict
\* answers as the map of its last sets does (runtime_dict.c).
THEOREM DictImplementsMap == DictSpec => DictIsMap
<1>1. ContainersInit => DictInv /\ AbstractDict!Init
  BY NewDict DEF ContainersInit, AbstractDict!Init
<1>2. DictInv /\ [DictNext]_containerVars => DictInv' /\ [AbstractDict!Next]_<< MapOf, answer >>
  <2>1. ASSUME DictInv, UNCHANGED containerVars PROVE DictInv' /\ UNCHANGED << MapOf, answer >>
    BY <2>1, DictSame DEF containerVars
  <2> QED
    BY <2>1, DictStep
<1> QED
  BY <1>1, <1>2, PTL DEF DictSpec, DictIsMap, AbstractDict!Spec
==============================================================================
