----------------------------- MODULE RuntimeValue -----------------------------
(***************************************************************************)
(* The values of the run-time library (src/runtime): a word that holds a   *)
(* small integer, nil, a Boolean, a pointer to an object or zero.          *)
(* h is the heap, a sequence of objects; the address of an object is its   *)
(* place in it.  Objects are never moved and malloc does not fail.  The    *)
(* functions that allocate return the heap and the value.                  *)
(*                                                                         *)
(* Machine integers have the widths I64_BITS and I128_BITS; three bits of  *)
(* a word are the tag.  A double is a fraction <<n, d>> with d > 0: no     *)
(* rounding.                                                               *)
(***************************************************************************)
EXTENDS Integers, Sequences, Functions, TLC

CONSTANTS I64_BITS, I128_BITS,
          StringHash     \* a function from the strings in use to 64-bit numbers

ASSUME WidthAssumption == /\ I64_BITS \in Nat /\ I128_BITS \in Nat
                          /\ 4 < I64_BITS /\ I64_BITS < I128_BITS
                          /\ \A s \in DOMAIN StringHash : StringHash[s] \in 0 .. 2^I64_BITS - 1

SMI_BITS  == I64_BITS - 3
Signed(w) == -(2^(w - 1)) .. 2^(w - 1) - 1
Wrap(n, w) == ((n + 2^(w - 1)) % (2^w)) - 2^(w - 1)

VAL_NIL    == [k |-> "nil"]
VAL_BOOL(b) == [k |-> "bool", b |-> b]
BOX_INT(n) == [k |-> "int", n |-> n]
BOX_PTR(p) == [k |-> "ptr", at |-> p]
VAL_ZERO   == [k |-> "zero"]   \* RegisterValue(): the word 0, which is neither nil nor a pointer
IS_PTR(v)  == v.k = "ptr"

\* The word as an unsigned number.
Bits(v) == CASE v.k = "int"  -> (8 * v.n + 1) % 2^I64_BITS
             [] v.k = "nil"  -> 2
             [] v.k = "bool" -> IF v.b THEN 18 ELSE 10
             [] v.k = "ptr"  -> 8 * v.at
             [] v.k = "zero" -> 0

\* A fresh object: ObjI64, ..., LmBox (one type for each kind of box), with its contents x.
Obj(type, x) == [type |-> type, x |-> x]
Alloc(h, o)  == [h |-> Append(h, o), v |-> BOX_PTR(Len(h) + 1)]
Same(h, v)   == [h |-> h, v |-> v]

type_id(h, v) == IF IS_PTR(v) THEN h[v.at].type ELSE ""

------------------------------------------------------------------------------
make_i64(h, n) == IF n \in Signed(SMI_BITS) THEN Same(h, BOX_INT(n)) ELSE Alloc(h, Obj("I64", n))

\* Mutant: the bound of the small integers is off by one.
make_i128_wide(h, n) ==
  IF n \in Signed(SMI_BITS) \/ n = 2^(SMI_BITS - 1) THEN Same(h, BOX_INT(Wrap(n, SMI_BITS)))
  ELSE IF n \in Signed(I64_BITS) THEN Alloc(h, Obj("I64", n)) ELSE Alloc(h, Obj("I128", n))

make_i128(h, n) ==
  IF n \in Signed(SMI_BITS) THEN Same(h, BOX_INT(n))
  ELSE IF n \in Signed(I64_BITS) THEN Alloc(h, Obj("I64", n)) ELSE Alloc(h, Obj("I128", n))

make_float(h, q) == Alloc(h, Obj("FLOAT", q))

lm_box_string(h, s) == Alloc(h, Obj("BOX_STRING", s))

is_integer(h, v) == v.k = "int" \/ type_id(h, v) \in {"I64", "U64", "I128", "U128", "BOX_INT"}
is_float(h, v)   == type_id(h, v) \in {"FLOAT", "BOX_FLOAT"}
is_numeric(h, v) == is_integer(h, v) \/ is_float(h, v)

Truncated(q) == IF q[1] >= 0 THEN q[1] \div q[2] ELSE -((-q[1]) \div q[2])

\* Only a boxed float is converted: a FLOAT object counts as 0.
as_i128(h, v) ==
  IF v.k = "int" THEN v.n
  ELSE CASE type_id(h, v) \in {"I64", "U64", "I128", "BOX_INT"} -> h[v.at].x
         [] type_id(h, v) = "U128"      -> Wrap(h[v.at].x, I128_BITS)
         [] type_id(h, v) = "BOX_FLOAT" -> Truncated(h[v.at].x)
         [] OTHER -> 0

as_i64(h, v) == Wrap(as_i128(h, v), I64_BITS)

\* An integer of 128 bits goes through 64.
as_float(h, v) == CASE is_float(h, v)   -> h[v.at].x
                    [] is_integer(h, v) -> << as_i64(h, v), 1 >>
                    [] OTHER -> << 0, 1 >>

Less(p, q) == p[1] * q[2] < q[1] * p[2]

\* Negative, zero or positive; what is not a number is compared by its word.
numeric_compare(h, a, b) ==
  LET Sign(less, more) == IF less THEN -1 ELSE IF more THEN 1 ELSE 0
  IN IF a = b THEN 0
     ELSE IF is_numeric(h, a) /\ is_numeric(h, b)
     THEN IF is_float(h, a) \/ is_float(h, b)
          THEN Sign(Less(as_float(h, a), as_float(h, b)), Less(as_float(h, b), as_float(h, a)))
          ELSE Sign(as_i128(h, a) < as_i128(h, b), as_i128(h, a) > as_i128(h, b))
     ELSE IF Bits(a) < Bits(b) THEN -1 ELSE 1

lm_value_eq(h, a, b) ==
  \/ a = b
  \/ /\ type_id(h, a) = "BOX_STRING" /\ type_id(h, b) = "BOX_STRING"
     /\ h[a.at].x = h[b.at].x
  \/ /\ is_numeric(h, a) /\ is_numeric(h, b)
     /\ IF is_float(h, a) \/ is_float(h, b)
        THEN ~Less(as_float(h, a), as_float(h, b)) /\ ~Less(as_float(h, b), as_float(h, a))
        ELSE as_i128(h, a) = as_i128(h, b)

\* Overflow of 128 bits gives nil, and so does everything that is not a number.
Arithmetic(h, a, b, n, q) ==
  IF is_integer(h, a) /\ is_integer(h, b)
  THEN IF n \in Signed(I128_BITS) THEN make_i128(h, n) ELSE Same(h, VAL_NIL)
  ELSE IF is_numeric(h, a) /\ is_numeric(h, b) THEN make_float(h, q) ELSE Same(h, VAL_NIL)

lm_add(h, a, b) ==
  LET i == as_i128(h, a)  j == as_i128(h, b)  p == as_float(h, a)  q == as_float(h, b)
  IN Arithmetic(h, a, b, i + j, << p[1] * q[2] + q[1] * p[2], p[2] * q[2] >>)

lm_sub(h, a, b) ==
  LET i == as_i128(h, a)  j == as_i128(h, b)  p == as_float(h, a)  q == as_float(h, b)
  IN Arithmetic(h, a, b, i - j, << p[1] * q[2] - q[1] * p[2], p[2] * q[2] >>)

lm_mul(h, a, b) ==
  LET i == as_i128(h, a)  j == as_i128(h, b)  p == as_float(h, a)  q == as_float(h, b)
  IN Arithmetic(h, a, b, i * j, << p[1] * q[1], p[2] * q[2] >>)

\* C's division truncates.  The least integer divided by -1 overflows; the library routine wraps.
Quotient(i, j) == Wrap(Truncated(IF j < 0 THEN << -i, -j >> ELSE << i, j >>), I128_BITS)

lm_div(h, a, b) ==
  LET i == as_i128(h, a)  j == as_i128(h, b)  p == as_float(h, a)  q == as_float(h, b)
      s == IF q[1] < 0 THEN -1 ELSE 1
  IN IF is_integer(h, a) /\ is_integer(h, b)
     THEN IF j = 0 THEN Same(h, VAL_NIL) ELSE make_i128(h, Quotient(i, j))
     ELSE IF is_numeric(h, a) /\ is_numeric(h, b) /\ q[1] # 0
     THEN make_float(h, << s * p[1] * q[2], s * p[2] * q[1] >>)
     ELSE Same(h, VAL_NIL)

\* RegisterVM::to_bool
to_bool(h, v) ==
  CASE v.k = "bool" -> v.b
    [] v.k = "nil"  -> FALSE
    [] is_integer(h, v) -> as_i128(h, v) # 0
    [] type_id(h, v) = "FLOAT" -> h[v.at].x[1] # 0
    [] type_id(h, v) = "BOX_STRING" -> h[v.at].x # ""
    [] OTHER -> TRUE

\* int128_to_str negates first: of the least integer only the sign is printed.
int128_to_str(n) == IF n = -(2^(I128_BITS - 1)) THEN "-" ELSE ToString(n)

\* lm_value_to_string and format_list; a tuple or a dict shows nothing.  A list that holds
\* itself has no text (the code does not return), so nested lists stop at MAX_DEPTH.
MAX_DEPTH == 2

format_value(h, value) ==
  LET Text[depth \in 0..MAX_DEPTH] == [v \in {value} \cup UNION {Range(h[p].data) : p \in {p \in DOMAIN h : h[p].type = "LIST"}} |->
        CASE v.k = "int"  -> ToString(v.n)
          [] v.k = "nil"  -> "nil"
          [] v.k = "bool" -> ToString(v.b)
          [] type_id(h, v) \in {"I64", "U64", "U128", "FLOAT", "BOX_INT", "BOX_FLOAT"} -> ToString(h[v.at].x)
          [] type_id(h, v) = "I128"       -> int128_to_str(h[v.at].x)
          [] type_id(h, v) = "BOX_STRING" -> h[v.at].x
          [] type_id(h, v) = "FRAME"      -> h[v.at].name
          [] type_id(h, v) = "LIST" /\ depth > 0 ->
               LET d == h[v.at].data
                   Joined[i \in 0..Len(d)] ==
                     IF i = 0 THEN "" ELSE Joined[i - 1] \o (IF i > 1 THEN ", " ELSE "") \o Text[depth - 1][d[i]]
               IN "[" \o Joined[Len(d)] \o "]"
          [] OTHER -> "<unknown>"]
  IN Text[MAX_DEPTH][value]

------------------------------------------------------------------------------
\* runtime_dict.c: hashing and comparing keys.

\* The multiplier is 2654435761; 31153 are its low 16 bits, enough for every I64_BITS <= 16.
lm_hash_int(h, v) == (as_i64(h, v) * (31153 % 2^I64_BITS)) % 2^I64_BITS

\* The hash of a string is a number computed from its characters.
lm_hash_string(s) == StringHash[s]

hash_boxed_value(h, v) ==
  CASE is_integer(h, v) \/ v.k = "bool" -> lm_hash_int(h, v)
    [] v.k = "nil" -> 0
    [] type_id(h, v) = "BOX_STRING" -> lm_hash_string(h[v.at].x)
    [] OTHER -> Bits(v)

cmp_boxed_value(h, a, b) == IF lm_value_eq(h, a, b) THEN 0 ELSE IF Bits(a) > Bits(b) THEN 1 ELSE -1

------------------------------------------------------------------------------
\* A list doubles its capacity when it is full; its elements are what a reader can see of it.
lm_list_append(o, v) == [o EXCEPT !.data = Append(@, v)]

\* A tuple has room for capacity elements, of which it shows the first size.
lm_tuple_new(n)       == [type |-> "TUPLE", elements |-> [i \in 1..n |-> VAL_NIL], size |-> n]
lm_tuple_set(o, i, v) == IF i >= Len(o.elements) THEN o
                         ELSE [o EXCEPT !.elements[i + 1] = v, !.size = IF i >= @ THEN i + 1 ELSE @]
lm_tuple_get(o, i)    == IF i >= o.size THEN VAL_NIL ELSE o.elements[i + 1]

\* Mutant: the elements are not carried over to the new room.
lm_tuple_resize_fresh(o, n) ==
  [o EXCEPT !.elements = IF n > Len(@) THEN [i \in 1..n |-> VAL_NIL] ELSE @, !.size = IF n < @ THEN n ELSE @]

\* Room for n elements, the new ones nil; of more than n the first n are shown, and the others
\* stay where they are.
lm_tuple_resize(o, n) ==
  [o EXCEPT !.elements = @ \o [i \in 1 .. n - Len(@) |-> VAL_NIL], !.size = IF n < @ THEN n ELSE @]

\* The capacity doubles when there is no room, from 8 when there was none.
lm_tuple_append(o, v) ==
  LET room == IF o.size < Len(o.elements) THEN o
              ELSE lm_tuple_resize(o, IF Len(o.elements) = 0 THEN 8 ELSE 2 * Len(o.elements))
  IN [room EXCEPT !.elements[room.size + 1] = v, !.size = @ + 1]

lm_tuple_clear(o) == [o EXCEPT !.elements = [i \in DOMAIN @ |-> IF i <= o.size THEN VAL_NIL ELSE @[i]], !.size = 0]

lm_frame_alloc(name, n)     == [type |-> "FRAME", name |-> name, fields |-> [i \in 1..n |-> VAL_NIL]]
lm_frame_get_field(o, i)    == IF i \in 0 .. Len(o.fields) - 1 THEN o.fields[i + 1] ELSE VAL_NIL
lm_frame_set_field(o, i, v) == IF i \in 0 .. Len(o.fields) - 1 THEN [o EXCEPT !.fields[i + 1] = v] ELSE o
==============================================================================
