------------------------- MODULE TypeCheckerProofs -------------------------
(***************************************************************************)
(* The scopes, regions and names of the type checker, for programs of any   *)
(* size over any set of names.                                              *)
(***************************************************************************)
EXTENDS MemoryChecker, NaturalLemmas, FiniteSetTheorems

(***************************************************************************)
(* Types.                                                                   *)
(***************************************************************************)
TypeOrNull == Types \cup {Null}
Scopes == [Names -> TypeOrNull \cup {Absent}]

Infos == [state : {"none", "uninitialized", "owned", "moved"}, region : Nat]
LinearInfos == [is : BOOLEAN, moved : BOOLEAN, generation : Nat, references : SUBSET Names]
ReferenceInfos ==
    {r \in [is : BOOLEAN, target : Names \cup {NoName}, valid : BOOLEAN, generation : Nat] :
        r.is => r.target \in Names}

Messages ==
    {"use after move", "use before initialization", "double move", "use of moved linear type",
     "reference to moved linear type", "reference invalidated", "use of invalid reference",
     "use of stale reference", "undefined", "type mismatch", "no type or initializer"}

Checkers ==
    [scopes : Seq(Scopes), level : Int, memory : [Names -> Infos], region : Nat,
     region_stack : Seq(Nat), generation : Nat, linear : [Names -> LinearInfos],
     references : [Names -> ReferenceInfos], return_type : TypeOrNull,
     errors : SUBSET [at : Nat, what : Messages]]

TokenType ==
    [k : TokenKinds, n : Vars \cup {NoName}, a : Literals \cup {Null, "Any"},
     v : Literals \cup Names \cup {Null}, ty : TypeOrNull, f : Fns \cup {NoName},
     ret : TypeOrNull, up : Nat]

(***************************************************************************)
(* What a check of a statement without a body leaves alone.                 *)
(***************************************************************************)
\* all but the scopes
SameRegions(t, u) ==
    /\ u.level = t.level /\ u.region = t.region /\ u.region_stack = t.region_stack
    /\ u.generation = t.generation /\ u.return_type = t.return_type
    /\ t.errors \subseteq u.errors

Keeps(t, u) == u \in Checkers /\ u.scopes = t.scopes /\ SameRegions(t, u)

\* Updates of one field.
LEMMA Updates ==
    ASSUME NEW t \in Checkers
    PROVE  /\ \A m \in [Names -> Infos] : Keeps(t, [t EXCEPT !.memory = m])
           /\ \A m \in [Names -> LinearInfos] : Keeps(t, [t EXCEPT !.linear = m])
           /\ \A m \in [Names -> ReferenceInfos] : Keeps(t, [t EXCEPT !.references = m])
           /\ \A e \in [at : Nat, what : Messages] : Keeps(t, [t EXCEPT !.errors = @ \cup {e}])
  BY DEF Checkers, Keeps, SameRegions

\* Keeping is transitive.
LEMMA KeepsTrans ==
    ASSUME NEW t, NEW u, NEW w, Keeps(t, u), Keeps(u, w)
    PROVE  Keeps(t, w)
  BY DEF Keeps, SameRegions

LEMMA KeepsSelf == ASSUME NEW t \in Checkers PROVE Keeps(t, t)
  BY DEF Keeps, SameRegions

\* What lookup_variable finds.
LEMMA LookupFacts ==
    ASSUME NEW t \in Checkers, NEW n \in Names
    PROVE  /\ lookup_variable(t, n) \in TypeOrNull
           /\ \A u \in Checkers : u.scopes = t.scopes =>
                 lookup_variable(u, n) = lookup_variable(t, n)
<1> DEFINE holding == {i \in DOMAIN t.scopes : t.scopes[i][n] # Absent}
           found == IF holding = {} THEN Null ELSE t.scopes[Max(holding)][n]
<1>1. t.scopes \in Seq(Scopes)
  BY DEF Checkers
<1>2. found \in TypeOrNull
  <2>1. CASE holding # {}
    <3>1. holding \in SUBSET Nat /\ Len(t.scopes) \in Nat /\ \A i \in holding : i <= Len(t.scopes)
      BY <1>1
    <3>2. Max(holding) \in holding
      BY <2>1, <3>1, MaxBounded
    <3> DEFINE m == Max(holding)
    <3> HIDE DEF m
    <3>3. m \in DOMAIN t.scopes /\ t.scopes[m][n] # Absent
      BY <3>2 DEF m
    <3>4. t.scopes[m] \in Scopes
      BY <1>1, <3>3
    <3> QED
      BY <2>1, <3>3, <3>4 DEF Scopes, m
  <2> QED
    BY <2>1 DEF TypeOrNull
<1>3. lookup_variable(t, n) \in TypeOrNull
  BY <1>2 DEF lookup_variable, TypeOrNull, Types
<1>4. \A u : u.scopes = t.scopes => lookup_variable(u, n) = lookup_variable(t, n)
  BY DEF lookup_variable
<1> QED
  BY <1>3, <1>4

\* An error is recorded at the token that is being checked.
LEMMA ErrorKeeps ==
    ASSUME NEW t \in Checkers, NEW what \in Messages, Len(src) \in Nat
    PROVE  /\ Keeps(t, add_error(t, what))
           /\ \E e \in add_error(t, what).errors : e.at = Len(src) + 1
<1> DEFINE e == [at |-> Len(src) + 1, what |-> what]
<1>1. e \in [at : Nat, what : Messages]
  OBVIOUS
<1>2. add_error(t, what) = [t EXCEPT !.errors = @ \cup {e}]
  BY DEF add_error
<1>3. e \in add_error(t, what).errors
  BY <1>2 DEF Checkers
<1> QED
  BY <1>1, <1>2, <1>3, Updates

\* The records of memory.
LEMMA MemoryKeeps ==
    ASSUME NEW t \in Checkers, NEW n \in Names, Len(src) \in Nat
    PROVE  /\ Keeps(t, declare_variable_memory(t, n))
           /\ Keeps(t, mark_variable_initialized(t, n))
           /\ Keeps(t, check_variable_use(t, n))
           /\ Keeps(t, check_variable_move(t, n))
<1>0. t.memory \in [Names -> Infos] /\ t.region \in Nat
  BY DEF Checkers
<1>1. Keeps(t, declare_variable_memory(t, n))
  <2> DEFINE m == [t.memory EXCEPT ![n] = [state |-> "uninitialized", region |-> t.region]]
  <2>1. m \in [Names -> Infos]
    BY <1>0 DEF Infos
  <2>2. declare_variable_memory(t, n) = [t EXCEPT !.memory = m]
    BY DEF declare_variable_memory, Checkers
  <2> QED
    BY <2>1, <2>2, Updates
<1>2. ASSUME NEW x \in {"owned", "moved"} PROVE Keeps(t, [t EXCEPT !.memory[n].state = x])
  <2> DEFINE i == [t.memory[n] EXCEPT !.state = x]
             m == [t.memory EXCEPT ![n] = i]
  <2>1. i \in Infos
    BY <1>0 DEF Infos
  <2>2. m \in [Names -> Infos]
    BY <1>0, <2>1
  <2>3. [t EXCEPT !.memory[n].state = x] = [t EXCEPT !.memory = m]
    BY <1>0 DEF Checkers
  <2> QED
    BY <2>2, <2>3, Updates
<1>3. Keeps(t, mark_variable_initialized(t, n))
  BY <1>2, KeepsSelf DEF mark_variable_initialized
<1>a. \A what \in Messages : Keeps(t, add_error(t, what))
  BY ErrorKeeps
<1>b. Keeps(t, t)
  BY KeepsSelf
<1>4. Keeps(t, check_variable_use(t, n))
  BY <1>a, <1>b DEF check_variable_use, Messages
<1>5. Keeps(t, check_variable_move(t, n))
  BY <1>2, <1>a, <1>b DEF check_variable_move, Messages
<1> QED
  BY <1>1, <1>3, <1>4, <1>5

\* Linear types and references.
LEMMA LinearKeeps ==
    ASSUME NEW t \in Checkers, NEW m \in Names, NEW n \in Names, Len(src) \in Nat
    PROVE  /\ Keeps(t, check_linear_type_access(t, n))
           /\ Keeps(t, create_reference(t, m, n))
           /\ Keeps(t, move_linear_type(t, m))
           /\ Keeps(t, check_reference_validity(t, n))
           /\ \A g \in Nat : Keeps(t, [t EXCEPT !.linear[n] = Linear(g)])
<1>0. t.linear \in [Names -> LinearInfos] /\ t.references \in [Names -> ReferenceInfos]
  BY DEF Checkers
<1>a. \A what \in Messages : Keeps(t, add_error(t, what))
  BY ErrorKeeps
<1>b. Keeps(t, t)
  BY KeepsSelf
<1>1. Keeps(t, check_linear_type_access(t, n))
  BY <1>a, <1>b DEF check_linear_type_access, Messages
<1>2. Keeps(t, create_reference(t, m, n))
  <2> DEFINE r == [is |-> TRUE, target |-> m, valid |-> TRUE, generation |-> t.linear[m].generation]
             R == [t.references EXCEPT ![n] = r]
             l == [t.linear[m] EXCEPT !.references = @ \cup {n}]
             L == [t.linear EXCEPT ![m] = l]
             u == [t EXCEPT !.references = R]
             w == [u EXCEPT !.linear = L]
  <2>0. t.linear[m] \in LinearInfos
    BY <1>0
  <2>1a. r \in ReferenceInfos
    BY <2>0 DEF ReferenceInfos, LinearInfos
  <2>1b. l \in LinearInfos
    BY <2>0 DEF LinearInfos
  <2>2. R \in [Names -> ReferenceInfos] /\ L \in [Names -> LinearInfos]
    BY <1>0, <2>1a, <2>1b
  <2>3. Keeps(t, u)
    BY <2>2, Updates
  <2>4. Keeps(u, w)
    BY <2>2, <2>3, Updates DEF Keeps
  <2>5. w = [t EXCEPT !.references[n] = r, !.linear[m].references = @ \cup {n}]
    BY <1>0 DEF Checkers
  <2>6. Keeps(t, w)
    BY <2>3, <2>4, KeepsTrans
  <2> HIDE DEF w
  <2> QED
    BY <1>a, <1>b, <2>5, <2>6 DEF create_reference, Messages
<1>3. Keeps(t, move_linear_type(t, m))
  <2> DEFINE next == t.linear[m].generation + 1
             stale == {r \in t.linear[m].references :
                          t.references[r].is /\ t.references[r].generation # next}
             s == IF stale = {} THEN t ELSE add_error(t, "reference invalidated")
             l == [is |-> TRUE, moved |-> TRUE, generation |-> next, references |-> {}]
             L == [s.linear EXCEPT ![m] = l]
             R == [r \in Names |-> IF r \in stale THEN [s.references[r] EXCEPT !.valid = FALSE]
                                   ELSE s.references[r]]
             u == [s EXCEPT !.linear = L]
             w == [u EXCEPT !.references = R]
  <2>1. Keeps(t, s)
    BY <1>a, <1>b DEF Messages
  <2> HIDE DEF s
  <2>2. s \in Checkers /\ s.linear \in [Names -> LinearInfos]
        /\ s.references \in [Names -> ReferenceInfos]
    BY <2>1 DEF Keeps, Checkers
  <2>3. l \in LinearInfos
    <3>1. t.linear[m] \in LinearInfos
      BY <1>0
    <3>2. next \in Nat
      BY <3>1 DEF LinearInfos
    <3> QED
      BY <3>2 DEF LinearInfos
  <2> HIDE DEF stale, next
  <2>4. R \in [Names -> ReferenceInfos]
    <3>1. ASSUME NEW r \in Names PROVE [s.references[r] EXCEPT !.valid = FALSE] \in ReferenceInfos
      <4>1. s.references[r] \in ReferenceInfos
        BY <2>2
      <4> QED
        BY <4>1 DEF ReferenceInfos
    <3> QED
      BY <2>2, <3>1
  <2>5. L \in [Names -> LinearInfos]
    BY <2>2, <2>3
  <2> HIDE DEF R, l
  <2>6. Keeps(s, u)
    BY <2>2, <2>5, Updates
  <2>7. Keeps(u, w)
    <3>1. u \in Checkers
      BY <2>6 DEF Keeps
    <3> HIDE DEF u
    <3> QED
      BY <2>4, <3>1, Updates
  <2>8. Keeps(t, w)
    BY <2>1, <2>6, <2>7, KeepsTrans
  <2>9. w = [s EXCEPT !.linear[m] = l, !.references = R]
    BY <2>2 DEF Checkers
  <2> HIDE DEF w
  <2> QED
    BY <1>a, <2>8, <2>9 DEF move_linear_type, Messages, R, l, s, stale, next
<1>4. Keeps(t, check_reference_validity(t, n))
  BY <1>a, <1>b DEF check_reference_validity, Messages
<1>5. ASSUME NEW g \in Nat PROVE Keeps(t, [t EXCEPT !.linear[n] = Linear(g)])
  <2> DEFINE L == [t.linear EXCEPT ![n] = Linear(g)]
  <2>1. Linear(g) \in LinearInfos
    BY DEF Linear, NotLinear, LinearInfos
  <2>2. L \in [Names -> LinearInfos]
    BY <1>0, <2>1
  <2>3. [t EXCEPT !.linear[n] = Linear(g)] = [t EXCEPT !.linear = L]
    BY DEF Checkers
  <2> QED
    BY <2>2, <2>3, Updates
<1> QED
  BY <1>1, <1>2, <1>3, <1>4, <1>5

\* A variable is read: only errors are added.
LEMMA VariableKeeps ==
    ASSUME NEW t \in Checkers, NEW n \in Names, Len(src) \in Nat
    PROVE  /\ Keeps(t, check_variable_expr(t, n).t)
           /\ check_variable_expr(t, n).type \in TypeOrNull
<1> DEFINE s == IF t.references[n].is THEN check_reference_validity(t, n) ELSE t
           to == IF t.references[n].is THEN lookup_variable(t, t.references[n].target) ELSE Null
           u == check_linear_type_access(s, n)
           type == lookup_variable(t, n)
<1>1. Keeps(t, s) /\ s \in Checkers
  BY KeepsSelf, LinearKeeps DEF Keeps
<1>2. to \in TypeOrNull
  <2>1. t.references[n] \in ReferenceInfos
    BY DEF Checkers
  <2>2. t.references[n].is => t.references[n].target \in Names
    BY <2>1 DEF ReferenceInfos
  <2> QED
    BY <2>2, LookupFacts DEF TypeOrNull
<1>3. type \in TypeOrNull
  BY LookupFacts
<1> HIDE DEF s, to, type
<1>4. Keeps(t, u) /\ u \in Checkers
  BY <1>1, LinearKeeps, KeepsTrans DEF Keeps
<1> HIDE DEF u
<1>5. Keeps(t, add_error(u, "undefined"))
  <2>1. "undefined" \in Messages
    BY DEF Messages
  <2> QED
    BY <1>4, <2>1, ErrorKeeps, KeepsTrans
<1>6. Keeps(t, check_variable_use(u, n))
  BY <1>4, MemoryKeeps, KeepsTrans
<1>7. check_variable_expr(t, n) =
        CASE to # Null -> Checked(s, to)
          [] to = Null /\ type = Null -> Checked(add_error(u, "undefined"), Null)
          [] OTHER -> Checked(check_variable_use(u, n), type)
  BY DEF check_variable_expr, s, to, u, type
<1>8. CASE to # Null
  <2>1. check_variable_expr(t, n) = Checked(s, to)
    BY <1>7, <1>8
  <2> QED
    BY <1>1, <1>2, <2>1 DEF Checked
<1>9. CASE to = Null /\ type = Null
  <2>1. check_variable_expr(t, n) = Checked(add_error(u, "undefined"), Null)
    BY <1>7, <1>9
  <2> QED
    BY <1>5, <2>1 DEF Checked, TypeOrNull
<1>10. CASE to = Null /\ type # Null
  BY <1>3, <1>6, <1>7, <1>10 DEF Checked
<1> QED
  BY <1>8, <1>9, <1>10

LEMMA ExpressionKeeps ==
    ASSUME NEW t \in Checkers, NEW v \in Literals \cup Names, Len(src) \in Nat
    PROVE  /\ Keeps(t, check_expression(t, v).t)
           /\ check_expression(t, v).type \in TypeOrNull
           /\ check_expression(t, v).type =
                 IF v \in Literals THEN v ELSE check_variable_expr(t, v).type
<1>1. CASE v \in Literals
  BY <1>1, KeepsSelf DEF check_expression, Checked, Literals, TypeOrNull, Types
<1>2. CASE v \notin Literals
  BY <1>2, VariableKeeps DEF check_expression
<1> QED
  BY <1>1, <1>2

\* The assignment to a variable that is declared.
LEMMA AssignKeeps ==
    ASSUME NEW t \in Checkers, NEW r, Keeps(t, r.t), NEW expected, NEW n \in Names,
           NEW v \in Literals \cup Names, Len(src) \in Nat
    PROVE  Keeps(t, assign_declared(r, expected, n, v))
<1> DEFINE s == IF is_type_compatible(expected, r.type) THEN r.t ELSE add_error(r.t, "type mismatch")
<1>1. r.t \in Checkers
  BY DEF Keeps
<1>2. Keeps(t, s) /\ s \in Checkers
  <2>1. "type mismatch" \in Messages
    BY DEF Messages
  <2> QED
    BY <1>1, <2>1, ErrorKeeps, KeepsTrans DEF Keeps
<1> HIDE DEF s
<1> DEFINE moved == move_linear_type(s, v)
           u == [moved EXCEPT !.linear[n] = Linear(moved.linear[v].generation)]
<1>3. ASSUME v \in Names PROVE Keeps(t, u)
  <2>1. Keeps(t, moved) /\ moved \in Checkers
    BY <1>2, <1>3, LinearKeeps, KeepsTrans DEF Keeps
  <2> HIDE DEF moved
  <2>2. moved.linear[v] \in LinearInfos
    BY <1>3, <2>1 DEF Checkers
  <2>3. moved.linear[v].generation \in Nat
    BY <2>2 DEF LinearInfos
  <2>4. Keeps(moved, u)
    BY <2>1, <2>3, LinearKeeps
  <2> QED
    BY <2>1, <2>4, KeepsTrans
<1>4. ASSUME v \in Names PROVE Keeps(t, create_reference(s, v, n))
  BY <1>2, <1>4, LinearKeeps, KeepsTrans
<1>5. assign_declared(r, expected, n, v) =
        IF v \in Literals THEN s
        ELSE IF lookup_variable(s, v) # "Function" /\ s.linear[v].is THEN u
        ELSE create_reference(s, v, n)
  BY DEF assign_declared, s
<1> HIDE DEF u
<1>6. CASE v \in Literals
  BY <1>2, <1>5, <1>6
<1>7. CASE v \notin Literals
  <2>1. v \in Names /\ Keeps(t, u) /\ Keeps(t, create_reference(s, v, n))
    BY <1>3, <1>4, <1>7
  <2>2. CASE lookup_variable(s, v) # "Function" /\ s.linear[v].is
    <3>1. assign_declared(r, expected, n, v) = u
      BY <1>5, <1>7, <2>2
    <3> QED
      BY <2>1, <3>1
  <2>3. CASE ~(lookup_variable(s, v) # "Function" /\ s.linear[v].is)
    <3>1. assign_declared(r, expected, n, v) = create_reference(s, v, n)
      BY <1>5, <1>7, <2>3
    <3> QED
      BY <2>1, <3>1
  <2> QED
    BY <2>2, <2>3
<1> QED
  BY <1>6, <1>7

\* The initializer of a declaration, and the type that it gives.
LEMMA InitializerKeeps ==
    ASSUME NEW t \in Checkers, NEW v \in Literals \cup Names \cup {Null}, Len(src) \in Nat
    PROVE  /\ Keeps(t, check_initializer(t, v).t)
           /\ check_initializer(t, v).type \in TypeOrNull
           /\ check_initializer(t, v).type =
                 IF v = Null THEN Null ELSE IF v \in Literals THEN v
                 ELSE check_variable_expr(t, v).type
<1> DEFINE r == IF v = Null THEN Checked(t, Null) ELSE check_expression(t, v)
<1>1. /\ Keeps(t, r.t) /\ r.type \in TypeOrNull /\ r.t \in Checkers
      /\ r.type = IF v = Null THEN Null ELSE IF v \in Literals THEN v
                  ELSE check_variable_expr(t, v).type
  <2>1. CASE v = Null
    BY <2>1, KeepsSelf DEF Checked, TypeOrNull
  <2>2. CASE v # Null
    BY <2>2, ExpressionKeeps DEF Keeps
  <2> QED
    BY <2>1, <2>2
<1> HIDE DEF r
<1>2. v \in Names => Keeps(t, check_variable_move(r.t, v))
  BY <1>1, MemoryKeeps, KeepsTrans
<1>3. check_initializer(t, v) =
        IF v \in Names /\ lookup_variable(r.t, v) \notin Copyable
        THEN Checked(check_variable_move(r.t, v), r.type) ELSE r
  BY DEF check_initializer, r
<1>4. CASE v \in Names /\ lookup_variable(r.t, v) \notin Copyable
  BY <1>1, <1>2, <1>3, <1>4 DEF Checked
<1>5. CASE ~(v \in Names /\ lookup_variable(r.t, v) \notin Copyable)
  BY <1>1, <1>3, <1>5
<1> QED
  BY <1>4, <1>5

(***************************************************************************)
(* Declarations: the innermost scope holds one more name.                   *)
(***************************************************************************)
Bind(s, n, type) == [s EXCEPT ![Len(s)] = [s[Len(s)] EXCEPT ![n] = type]]

Binds(t, u, n, type) ==
    u \in Checkers /\ u.scopes = Bind(t.scopes, n, type) /\ SameRegions(t, u)

\* Checks before and after a declaration do not matter.
LEMMA BindsKeeps ==
    ASSUME NEW t, NEW u, NEW w, NEW n, NEW type
    PROVE  /\ Keeps(t, u) /\ Binds(u, w, n, type) => Binds(t, w, n, type)
           /\ Binds(t, u, n, type) /\ Keeps(u, w) => Binds(t, w, n, type)
  BY DEF Binds, Keeps, SameRegions

LEMMA DeclareBinds ==
    ASSUME NEW t \in Checkers, t.scopes # <<>>, NEW n \in Names, NEW type \in TypeOrNull,
           Len(src) \in Nat
    PROVE  Binds(t, declare_variable(t, n, type), n, type)
<1> DEFINE s == IF type = "Function"
                THEN mark_variable_initialized(declare_variable_memory(t, n), n) ELSE t
           d == Len(s.scopes)
           scope == [s.scopes[d] EXCEPT ![n] = type]
           S == [s.scopes EXCEPT ![d] = scope]
           u == [s EXCEPT !.scopes = S]
<1>1. Keeps(t, s)
  <2>1. Keeps(t, declare_variable_memory(t, n)) /\ declare_variable_memory(t, n) \in Checkers
    BY MemoryKeeps DEF Keeps
  <2> QED
    BY <2>1, MemoryKeeps, KeepsTrans, KeepsSelf
<1> HIDE DEF s
<1>2. s \in Checkers /\ s.scopes = t.scopes
  BY <1>1 DEF Keeps
<1>3. s.scopes \in Seq(Scopes) /\ d \in DOMAIN s.scopes
  BY <1>2 DEF Checkers
<1>4. scope \in Scopes
  <2>1. s.scopes[d] \in Scopes
    BY <1>3
  <2> QED
    BY <2>1 DEF Scopes
<1>5. S \in Seq(Scopes)
  BY <1>3, <1>4
<1>6. u \in Checkers /\ u.scopes = S /\ SameRegions(s, u)
  <2> HIDE DEF S
  <2> QED
    BY <1>2, <1>5 DEF Checkers, SameRegions
<1>7. declare_variable(t, n, type) = u
  BY <1>2, <1>3 DEF declare_variable, s, Checkers
<1>8. S = Bind(t.scopes, n, type)
  BY <1>2 DEF Bind
<1> QED
  BY <1>1, <1>6, <1>7, <1>8 DEF Binds, Keeps, SameRegions

\* the value v of a variable, as its declaration sees it
ValueType(t, v) ==
    IF v = Null THEN Null ELSE IF v \in Literals THEN v ELSE check_variable_expr(t, v).type

LEMMA VarBinds ==
    ASSUME NEW t \in Checkers, t.scopes # <<>>, NEW n \in Names, NEW a \in Literals \cup {Null},
           NEW v \in Literals \cup Names \cup {Null}, Len(src) \in Nat
    PROVE  /\ Binds(t, declare_var(t, n, a, v), n, var_type(a, ValueType(t, v)))
           /\ var_type(a, ValueType(t, v)) \in TypeOrNull
<1> DEFINE r == check_initializer(t, v)
           s == CASE a # Null /\ r.type # Null /\ ~is_type_compatible(a, r.type) ->
                       add_error(r.t, "type mismatch")
                  [] a = Null /\ r.type = Null -> add_error(r.t, "no type or initializer")
                  [] OTHER -> r.t
           type == var_type(a, r.type)
           d == declare_variable(s, n, type)
           u == declare_variable_memory(d, n)
<1>1. Keeps(t, r.t) /\ r.t \in Checkers /\ r.type \in TypeOrNull /\ r.type = ValueType(t, v)
  BY InitializerKeeps DEF ValueType, Keeps
<1> HIDE DEF r
<1>2. type \in TypeOrNull
  BY <1>1 DEF var_type, TypeOrNull, Types, Literals
<1>3. Keeps(t, s)
  <2>1. "type mismatch" \in Messages /\ "no type or initializer" \in Messages
    BY DEF Messages
  <2>2. Keeps(t, add_error(r.t, "type mismatch")) /\ Keeps(t, add_error(r.t, "no type or initializer"))
    BY <1>1, <2>1, ErrorKeeps, KeepsTrans
  <2> QED
    BY <1>1, <2>2
<1> HIDE DEF s, type
<1>4. s \in Checkers /\ s.scopes # <<>>
  BY <1>3 DEF Keeps
<1>5. Binds(s, d, n, type)
  BY <1>2, <1>4, DeclareBinds
<1> HIDE DEF d
<1>6. Keeps(d, u)
  BY <1>5, MemoryKeeps DEF Binds
<1>7. Keeps(d, mark_variable_initialized(u, n))
  BY <1>6, MemoryKeeps, KeepsTrans DEF Keeps
<1>8. Binds(t, d, n, type)
  BY <1>3, <1>5, BindsKeeps
<1>9. Binds(t, u, n, type) /\ Binds(t, mark_variable_initialized(u, n), n, type)
  BY <1>6, <1>7, <1>8, BindsKeeps
<1>10. declare_var(t, n, a, v) = IF v # Null THEN mark_variable_initialized(u, n) ELSE u
  BY DEF declare_var, u, d, type, s, r
<1> HIDE DEF u
<1>11. Binds(t, declare_var(t, n, a, v), n, type)
  BY <1>9, <1>10
<1> QED
  BY <1>1, <1>2, <1>11 DEF type

LEMMA UndeclaredBinds ==
    ASSUME NEW t \in Checkers, t.scopes # <<>>, NEW r, Keeps(t, r.t), r.type \in TypeOrNull,
           NEW n \in Names, Len(src) \in Nat
    PROVE  Binds(t, assign_undeclared(r, n), n, r.type)
<1> DEFINE d == declare_variable(r.t, n, r.type)
           s == declare_variable_memory(d, n)
<1>1. r.t \in Checkers /\ r.t.scopes # <<>>
  BY DEF Keeps
<1>2. Binds(r.t, d, n, r.type)
  BY <1>1, DeclareBinds
<1> HIDE DEF d
<1>3. Keeps(d, s) /\ s \in Checkers
  BY <1>2, MemoryKeeps DEF Binds, Keeps
<1> HIDE DEF s
<1>4. Keeps(s, [s EXCEPT !.linear[n] = Linear(0)])
  BY <1>3, LinearKeeps
<1>5. assign_undeclared(r, n) = [s EXCEPT !.linear[n] = Linear(0)]
  BY DEF assign_undeclared, s, d
<1> QED
  BY <1>2, <1>3, <1>4, <1>5, BindsKeeps

(***************************************************************************)
(* Scopes and regions.                                                      *)
(***************************************************************************)

\* the scopes are s, as many levels deep
Nested(t, u, s, levels) ==
    /\ u \in Checkers /\ u.scopes = s /\ u.level = t.level + levels
    /\ u.region = t.region /\ u.region_stack = t.region_stack /\ u.generation = t.generation
    /\ u.return_type = t.return_type /\ t.errors \subseteq u.errors
    /\ u.memory = t.memory /\ u.linear = t.linear /\ u.references = t.references

LEMMA ScopeNests ==
    ASSUME NEW t \in Checkers
    PROVE  /\ Nested(t, enter_scope(t), Append(t.scopes, EmptyScope), 1)
           /\ Len(t.scopes) > 1 =>
                 Nested(t, exit_scope(t), SubSeq(t.scopes, 1, Len(t.scopes) - 1), -1)
<1>1. EmptyScope \in Scopes
  BY DEF EmptyScope, Scopes
<1> HIDE DEF EmptyScope
<1>2. t.scopes \in Seq(Scopes) /\ t.level \in Int /\ Len(t.scopes) \in Nat
  BY DEF Checkers
<1>3. Append(t.scopes, EmptyScope) \in Seq(Scopes) /\ t.level + 1 \in Int
  BY <1>1, <1>2
<1>4. Len(t.scopes) > 1 => SubSeq(t.scopes, 1, Len(t.scopes) - 1) \in Seq(Scopes)
  BY <1>2
<1>5. Nested(t, enter_scope(t), Append(t.scopes, EmptyScope), 1)
  <2> DEFINE S == Append(t.scopes, EmptyScope)
             l == t.level + 1
             u == [t EXCEPT !.level = l, !.scopes = S]
  <2>1. S \in Seq(Scopes) /\ l \in Int
    BY <1>3
  <2>2. enter_scope(t) = u
    BY DEF enter_scope
  <2> HIDE DEF S, l
  <2>3. Nested(t, u, S, 1) \/ l # t.level + 1
    BY <2>1 DEF Nested, Checkers
  <2> QED
    BY <2>2, <2>3 DEF S, l
<1>6. ASSUME Len(t.scopes) > 1
      PROVE  Nested(t, exit_scope(t), SubSeq(t.scopes, 1, Len(t.scopes) - 1), -1)
  <2> DEFINE S == SubSeq(t.scopes, 1, Len(t.scopes) - 1)
             l == t.level - 1
             u == [t EXCEPT !.level = l, !.scopes = S]
  <2>1. S \in Seq(Scopes) /\ l \in Int /\ l = t.level + (-1)
    BY <1>2, <1>4, <1>6
  <2>2. exit_scope(t) = u
    BY <1>6 DEF exit_scope
  <2> HIDE DEF S, l
  <2>3. Nested(t, u, S, -1)
    BY <2>1 DEF Nested, Checkers
  <2> QED
    BY <2>2, <2>3 DEF S
<1> QED
  BY <1>5, <1>6

\* one more memory region, or one less
Regions(t, u, stack, region, generation) ==
    /\ u \in Checkers /\ u.region_stack = stack /\ u.region = region
    /\ u.generation = generation /\ u.scopes = t.scopes /\ u.level = t.level
    /\ u.return_type = t.return_type /\ t.errors \subseteq u.errors

LEMMA RegionNests ==
    ASSUME NEW t \in Checkers
    PROVE  /\ Regions(t, enter_memory_region(t), Append(t.region_stack, t.region),
                      t.region + 1, t.generation + 1)
           /\ t.region_stack # <<>> /\ t.generation > 0 =>
                 Regions(t, exit_memory_region(t),
                         SubSeq(t.region_stack, 1, Len(t.region_stack) - 1),
                         t.region_stack[Len(t.region_stack)], t.generation - 1)
<1>1. /\ t.region_stack \in Seq(Nat) /\ t.region \in Nat /\ t.generation \in Nat
      /\ Len(t.region_stack) \in Nat /\ t.memory \in [Names -> Infos]
  BY DEF Checkers
<1>2. Regions(t, enter_memory_region(t), Append(t.region_stack, t.region),
              t.region + 1, t.generation + 1)
  <2> DEFINE S == Append(t.region_stack, t.region)
             g == t.generation + 1
             x == t.region + 1
             u == [t EXCEPT !.region_stack = S, !.generation = g, !.region = x]
  <2>1. S \in Seq(Nat) /\ g \in Nat /\ x \in Nat
    BY <1>1
  <2>2. enter_memory_region(t) = u
    BY DEF enter_memory_region
  <2> HIDE DEF S, g, x
  <2>3. Regions(t, u, S, x, g)
    BY <2>1 DEF Regions, Checkers
  <2> QED
    BY <2>2, <2>3 DEF S, g, x
<1>3. ASSUME t.region_stack # <<>>, t.generation > 0
      PROVE  Regions(t, exit_memory_region(t),
                     SubSeq(t.region_stack, 1, Len(t.region_stack) - 1),
                     t.region_stack[Len(t.region_stack)], t.generation - 1)
  <2> DEFINE depth == Len(t.region_stack)
             S == SubSeq(t.region_stack, 1, depth - 1)
             g == t.generation - 1
             x == t.region_stack[depth]
             s == [t EXCEPT !.region = x, !.region_stack = S, !.generation = g]
             M == [n \in Names |-> IF s.memory[n].region = s.region THEN NoInfo ELSE s.memory[n]]
             u == [s EXCEPT !.memory = M]
  <2>0. depth \in Nat \ {0}
    BY <1>1, <1>3
  <2>1. S \in Seq(Nat) /\ g \in Nat /\ x \in Nat
    BY <1>1, <1>3, <2>0
  <2>2. exit_memory_region(t) = u
    BY <1>3, <2>0 DEF exit_memory_region, Checkers
  <2> HIDE DEF S, g, x
  <2>3. Regions(t, s, S, x, g)
    BY <2>1 DEF Regions, Checkers
  <2> HIDE DEF s
  <2>4. M \in [Names -> Infos]
    <3>1. s.memory \in [Names -> Infos] /\ NoInfo \in Infos
      BY <2>3 DEF Regions, Checkers, NoInfo, Infos
    <3> QED
      BY <3>1
  <2>5. Keeps(s, u)
    BY <2>3, <2>4, Updates DEF Regions
  <2>6. Regions(t, u, S, x, g)
    BY <2>3, <2>5 DEF Regions, Keeps, SameRegions
  <2> QED
    BY <2>2, <2>6 DEF S, g, x
<1> QED
  BY <1>2, <1>3

(***************************************************************************)
(* An empty scope changes nothing that is visible.                          *)
(***************************************************************************)
LEMMA LookupEmpty ==
    ASSUME NEW t \in Checkers, NEW u \in Checkers, u.scopes = Append(t.scopes, EmptyScope),
           NEW n \in Names
    PROVE  lookup_variable(u, n) = lookup_variable(t, n)
<1> DEFINE held(s) == {i \in DOMAIN s : s[i][n] # Absent}
           d == Len(t.scopes)
<1>1. t.scopes \in Seq(Scopes) /\ d \in Nat
  BY DEF Checkers
<1>2. EmptyScope[n] = Absent
  BY DEF EmptyScope
<1>2a. EmptyScope \in Scopes
  BY DEF EmptyScope, Scopes
<1> HIDE DEF EmptyScope
<1>3. /\ DOMAIN t.scopes = 1..d /\ DOMAIN u.scopes = 1..(d + 1)
      /\ (\A i \in 1..d : u.scopes[i] = t.scopes[i]) /\ u.scopes[d + 1] = EmptyScope
  BY <1>1, <1>2a
<1>4. held(u.scopes) = held(t.scopes)
  BY <1>1, <1>2, <1>3
<1>5. CASE held(t.scopes) = {}
  BY <1>4, <1>5 DEF lookup_variable
<1>6. CASE held(t.scopes) # {}
  <2>0. held(t.scopes) \in SUBSET Nat /\ \A i \in held(t.scopes) : i <= d
    BY <1>1, <1>3
  <2>1. Max(held(t.scopes)) \in held(t.scopes)
    BY <1>1, <1>6, <2>0, MaxBounded
  <2>2. u.scopes[Max(held(t.scopes))] = t.scopes[Max(held(t.scopes))]
    <3> DEFINE m == Max(held(t.scopes))
    <3> HIDE DEF m
    <3>1. m \in 1..d
      BY <1>3, <2>1 DEF m
    <3> QED
      BY <1>3, <3>1 DEF m
  <2> QED
    BY <1>4, <2>2 DEF lookup_variable
<1> QED
  BY <1>5, <1>6

\* The value of a for statement is seen as from outside of it.
LEMMA ValueEmpty ==
    ASSUME NEW t \in Checkers, NEW v \in Literals \cup Names \cup {Null}
    PROVE  ValueType(enter_scope(t), v) = ValueType(t, v)
<1> DEFINE u == enter_scope(t)
<1>1. u \in Checkers /\ u.scopes = Append(t.scopes, EmptyScope) /\ u.references = t.references
  BY ScopeNests DEF Nested
<1> HIDE DEF u
<1>2. ASSUME v \in Names PROVE check_variable_expr(u, v).type = check_variable_expr(t, v).type
  <2> DEFINE to(x) == IF x.references[v].is THEN lookup_variable(x, x.references[v].target) ELSE Null
             type(x) == lookup_variable(x, v)
  <2>1. type(u) = type(t)
    BY <1>1, <1>2, LookupEmpty
  <2>2. to(u) = to(t)
    <3>1. t.references[v] \in ReferenceInfos
      BY <1>2 DEF Checkers
    <3>2. t.references[v].is => t.references[v].target \in Names
      BY <3>1 DEF ReferenceInfos
    <3> QED
      BY <1>1, <3>2, LookupEmpty
  <2>3. \A x : check_variable_expr(x, v).type =
                  CASE to(x) # Null -> to(x)
                    [] to(x) = Null /\ type(x) = Null -> Null
                    [] OTHER -> type(x)
    <3> TAKE x
    <3>1. CASE to(x) # Null
      BY <3>1 DEF check_variable_expr, Checked
    <3>2. CASE to(x) = Null /\ type(x) = Null
      BY <3>2 DEF check_variable_expr, Checked
    <3>3. CASE to(x) = Null /\ type(x) # Null
      BY <3>3 DEF check_variable_expr, Checked
    <3> QED
      BY <3>1, <3>2, <3>3
  <2> HIDE DEF to, type
  <2> QED
    BY <2>1, <2>2, <2>3
<1> QED
  BY <1>2 DEF ValueType, u

(***************************************************************************)
(* What each action does to the scopes, the regions and the tokens.         *)
(***************************************************************************)
Innermost == IF open = <<>> THEN 0 ELSE open[Len(open)]

\* the token that joins the program
Met(k, n, a, v, f, ret) ==
    [k |-> k, n |-> n, a |-> a, v |-> v,
     ty |-> IF v \in Names THEN check_variable_expr(tc, v).type ELSE Null,
     f |-> f, ret |-> ret, up |-> Innermost]

Phases == {"types", "memory", "crashed", "accepted", "rejected"}

TypesOK ==
    /\ tc \in Checkers /\ tc.scopes # <<>>
    /\ src \in Seq(TokenType) /\ open \in Seq(Nat)
    /\ globals \in SUBSET Fns /\ phase \in Phases

LEMMA TypesFacts ==
    ASSUME TypesOK
    PROVE  Len(src) \in Nat /\ Len(open) \in Nat /\ Innermost \in Nat
<1>1. src \in Seq(TokenType) /\ open \in Seq(Nat)
  BY DEF TypesOK
<1> QED
  BY <1>1 DEF Innermost

\* The tokens are well typed.
LEMMA Tokens ==
    ASSUME TypesOK, NEW k \in TokenKinds, NEW n \in Vars \cup {NoName},
           NEW a \in Literals \cup {Null, "Any"}, NEW v \in Literals \cup Names \cup {Null},
           NEW f \in Fns \cup {NoName}, NEW ret \in TypeOrNull
    PROVE  /\ Met(k, n, a, v, f, ret) \in TokenType
           /\ Meets([Token(k, n, a, v) EXCEPT !.f = f, !.ret = ret]) =>
                 src' = Append(src, Met(k, n, a, v, f, ret))
           /\ Meets(Token(k, n, a, v)) => src' = Append(src, Met(k, n, a, v, NoName, Null))
<1> DEFINE ty == IF v \in Names THEN check_variable_expr(tc, v).type ELSE Null
<1>1. ty \in TypeOrNull
  BY TypesFacts, VariableKeeps DEF TypesOK, TypeOrNull
<1>2. Met(k, n, a, v, f, ret) \in TokenType
  BY <1>1, TypesFacts DEF Met, TokenType
<1>3. Meets([Token(k, n, a, v) EXCEPT !.f = f, !.ret = ret]) =>
         src' = Append(src, Met(k, n, a, v, f, ret))
  <2> DEFINE t == [k |-> k, n |-> n, a |-> a, v |-> v, ty |-> Null, f |-> f, ret |-> ret,
                   up |-> Innermost]
  <2>1. [Token(k, n, a, v) EXCEPT !.f = f, !.ret = ret] = t
    <3>1. Token(k, n, a, v) = [k |-> k, n |-> n, a |-> a, v |-> v, ty |-> Null, f |-> NoName,
                               ret |-> Null, up |-> Innermost]
      BY DEF Token, Innermost
    <3> DEFINE T == Token(k, n, a, v)
    <3>2. [T EXCEPT !.f = f, !.ret = ret] = [[T EXCEPT !.f = f] EXCEPT !.ret = ret]
      BY <3>1
    <3> DEFINE r == [k |-> k, n |-> n, a |-> a, v |-> v, ty |-> Null, f |-> f, ret |-> Null,
                     up |-> Innermost]
    <3>3. [T EXCEPT !.f = f] = r
      BY <3>1
    <3>4. [r EXCEPT !.ret = ret] = t
      OBVIOUS
    <3> QED
      BY <3>2, <3>3, <3>4
  <2>2. [t EXCEPT !.ty = IF t.v \in Names THEN check_variable_expr(tc, t.v).type ELSE Null]
          = Met(k, n, a, v, f, ret)
    BY DEF Met
  <2> HIDE DEF t
  <2> QED
    BY <2>1, <2>2 DEF Meets
<1>4. Meets(Token(k, n, a, v)) => src' = Append(src, Met(k, n, a, v, NoName, Null))
  BY DEF Meets, Token, Met, Innermost
<1> QED
  BY <1>2, <1>3, <1>4

\* a statement without a body; its scopes are s afterwards
Plain(t, s) ==
    /\ phase = "types" /\ phase' \in {"types", "crashed"}
    /\ t \in TokenType /\ t.k \notin Openers \cup {"end"} /\ t.up = Innermost /\ t.f = NoName
    /\ src' = Append(src, t) /\ open' = open /\ globals' = globals
    /\ tc' \in Checkers /\ tc'.scopes = s /\ SameRegions(tc, tc')

LEMMA VarEffect ==
    ASSUME TypesOK, check_var_declaration
    PROVE  \E n \in Vars, a \in Literals \cup {Null}, v \in Literals \cup Names \cup {Null} :
              Plain(Met("var", n, a, v, NoName, Null),
                    Bind(tc.scopes, n, var_type(a, ValueType(tc, v))))
<1>1. PICK n \in Vars, a \in Literals \cup {Null}, v \in Literals \cup Names \cup {Null} :
         /\ Meets(Token("var", n, a, v))
         /\ tc' = declare_var(tc, n, a, v)
         /\ Goes /\ UNCHANGED open
  BY DEF check_var_declaration
<1>2. /\ Met("var", n, a, v, NoName, Null) \in TokenType
      /\ src' = Append(src, Met("var", n, a, v, NoName, Null))
  BY <1>1, Tokens DEF TokenKinds, TypeOrNull
<1>3. Binds(tc, tc', n, var_type(a, ValueType(tc, v)))
  BY <1>1, VarBinds, TypesFacts DEF TypesOK, Names
<1> QED
  BY <1>1, <1>2, <1>3 DEF Plain, Meets, Goes, Met, Openers, Binders, Binds

LEMMA ExprEffect ==
    ASSUME TypesOK, check_expr_statement
    PROVE  \E k \in {"expr", "print"}, v \in Names :
              Plain(Met(k, NoName, Null, v, NoName, Null), tc.scopes)
<1>1. PICK k \in {"expr", "print"}, v \in Names :
         /\ Meets(Token(k, NoName, Null, v))
         /\ tc' = check_variable_expr(tc, v).t
         /\ Goes /\ UNCHANGED open
  BY DEF check_expr_statement
<1>2. /\ Met(k, NoName, Null, v, NoName, Null) \in TokenType
      /\ src' = Append(src, Met(k, NoName, Null, v, NoName, Null))
  BY <1>1, Tokens DEF TokenKinds, TypeOrNull
<1>3. Keeps(tc, tc')
  BY <1>1, VariableKeeps, TypesFacts DEF TypesOK
<1> QED
  BY <1>1, <1>2, <1>3 DEF Plain, Meets, Goes, Met, Openers, Binders, Keeps

\* an assignment declares its variable when that has no type
LEMMA AssignEffect ==
    ASSUME TypesOK, check_assign_statement
    PROVE  \E n \in Vars, v \in Literals \cup Names :
              Plain(Met("assign", n, Null, v, NoName, Null),
                    IF lookup_variable(tc, n) = Null THEN Bind(tc.scopes, n, ValueType(tc, v))
                    ELSE tc.scopes)
<1>1. PICK n \in Vars, v \in Literals \cup Names :
         /\ Meets(Token("assign", n, Null, v))
         /\ LET r == check_expression(tc, v)
            IN  IF Crashes(lookup_variable(r.t, n), r.type)
                THEN tc' = r.t /\ phase' = "crashed"
                ELSE tc' = check_assign_expr(tc, n, v) /\ Goes
         /\ UNCHANGED open
  BY DEF check_assign_statement
<1> DEFINE t == Met("assign", n, Null, v, NoName, Null)
           r == check_expression(tc, v)
           expected == lookup_variable(tc, n)
           s == IF expected = Null THEN Bind(tc.scopes, n, ValueType(tc, v)) ELSE tc.scopes
<1>2. t \in TokenType /\ src' = Append(src, t)
  BY <1>1, Tokens DEF TokenKinds, TypeOrNull
<1>3. /\ Keeps(tc, r.t) /\ r.type \in TypeOrNull /\ r.t \in Checkers
      /\ r.type = ValueType(tc, v)
      /\ lookup_variable(r.t, n) = expected
  <2>1. /\ Keeps(tc, r.t) /\ r.type \in TypeOrNull
        /\ r.type = IF v \in Literals THEN v ELSE check_variable_expr(tc, v).type
    BY TypesFacts, ExpressionKeeps DEF TypesOK
  <2>2. v # Null
    BY NamesAssumption DEF Literals, Null
  <2>3. n \in Names /\ r.t \in Checkers /\ r.t.scopes = tc.scopes
    BY <2>1 DEF Names, Keeps
  <2>4. lookup_variable(r.t, n) = expected
    BY <2>3, LookupFacts DEF TypesOK
  <2> QED
    BY <2>1, <2>2, <2>3, <2>4 DEF ValueType
<1> HIDE DEF r, expected
<1>4. CASE Crashes(expected, r.type)
  <2>1. expected # Null /\ tc' = r.t /\ phase' = "crashed"
    BY <1>1, <1>3, <1>4 DEF Crashes, r
  <2>2. Keeps(tc, tc')
    BY <1>3, <2>1
  <2> QED
    BY <1>1, <1>2, <2>1, <2>2 DEF Plain, Meets, Met, Openers, Binders, Keeps, expected
<1>5. CASE ~Crashes(expected, r.type)
  <2>1. /\ tc' = IF expected = Null THEN assign_undeclared(r, n)
                 ELSE assign_declared(r, expected, n, v)
        /\ Goes
    BY <1>1, <1>3, <1>5 DEF check_assign_expr, r
  <2>2. CASE expected = Null
    <3>1. Binds(tc, tc', n, r.type)
      BY <1>3, <2>1, <2>2, UndeclaredBinds, TypesFacts DEF TypesOK, Names
    <3> QED
      BY <1>1, <1>2, <1>3, <2>1, <2>2, <3>1 DEF Plain, Meets, Goes, Met, Openers, Binders, Binds,
         expected
  <2>3. CASE expected # Null
    <3>1. Keeps(tc, tc')
      BY <1>3, <2>1, <2>3, AssignKeeps, TypesFacts DEF TypesOK, Names
    <3> QED
      BY <1>1, <1>2, <2>1, <2>3, <3>1 DEF Plain, Meets, Goes, Met, Openers, Binders, Keeps, expected
  <2> QED
    BY <2>2, <2>3
<1> QED
  BY <1>4, <1>5

\* a return whose value does not fit is reported, unless its type is not known
LEMMA ReturnEffect ==
    ASSUME TypesOK, check_return_statement
    PROVE  \E v \in Literals \cup Names :
              /\ Plain(Met("return", NoName, Null, v, NoName, Null), tc.scopes)
              /\ tc.return_type # Null /\ ValueType(tc, v) # Null
                    /\ ~is_type_compatible(tc.return_type, ValueType(tc, v)) =>
                 \E e \in tc'.errors : e.at = Len(src) + 1
<1>1. PICK v \in Literals \cup Names :
         /\ Meets(Token("return", NoName, Null, v))
         /\ LET r == check_expression(tc, v)
                mismatch == tc.return_type # Null /\ ~is_type_compatible(tc.return_type, r.type)
            IN  IF Crashes(tc.return_type, r.type)
                THEN tc' = r.t /\ phase' = "crashed"
                ELSE tc' = (IF mismatch THEN add_error(r.t, "type mismatch") ELSE r.t) /\ Goes
         /\ UNCHANGED open
  BY DEF check_return_statement
<1> DEFINE t == Met("return", NoName, Null, v, NoName, Null)
           r == check_expression(tc, v)
           u == add_error(r.t, "type mismatch")
<1>2. t \in TokenType /\ src' = Append(src, t)
  BY <1>1, Tokens DEF TokenKinds, TypeOrNull
<1>3. Keeps(tc, r.t) /\ r.type = ValueType(tc, v)
  <2>1. /\ Keeps(tc, r.t)
        /\ r.type = IF v \in Literals THEN v ELSE check_variable_expr(tc, v).type
    BY TypesFacts, ExpressionKeeps DEF TypesOK
  <2>2. v # Null
    BY NamesAssumption DEF Literals, Null
  <2> QED
    BY <2>1, <2>2 DEF ValueType
<1>4. Keeps(tc, u) /\ \E e \in u.errors : e.at = Len(src) + 1
  <2>1. r.t \in Checkers /\ "type mismatch" \in Messages
    BY <1>3 DEF Keeps, Messages
  <2> QED
    BY <1>3, <2>1, ErrorKeeps, KeepsTrans, TypesFacts
<1>5. (tc' = r.t \/ tc' = u) /\ phase' \in {phase, "crashed"}
  BY <1>1 DEF Goes
<1>6. Plain(t, tc.scopes)
  <2>1. Keeps(tc, tc')
    BY <1>3, <1>4, <1>5
  <2> QED
    BY <1>1, <1>2, <1>5, <2>1 DEF Plain, Meets, Met, Openers, Binders, Keeps
<1>7. ASSUME tc.return_type # Null, r.type # Null, ~is_type_compatible(tc.return_type, r.type)
      PROVE  tc' = u
  BY <1>1, <1>7 DEF Crashes
<1> QED
  BY <1>3, <1>4, <1>6, <1>7

(***************************************************************************)
(* Statements with a body.                                                  *)
(***************************************************************************)
\* the numbers of the regions are their depths
Numbered(t) ==
    /\ t.generation = t.region /\ t.region = Len(t.region_stack)
    /\ \A i \in DOMAIN t.region_stack : t.region_stack[i] = i - 1

\* u is t with the scopes s, so many levels and regions deeper
Deeper(t, u, s, levels, regions, ret) ==
    /\ u \in Checkers /\ u.scopes = s /\ u.level = t.level + levels
    /\ Numbered(t) => Numbered(u) /\ u.region = t.region + regions
    /\ u.return_type = ret /\ t.errors \subseteq u.errors

LEMMA DeeperTrans ==
    ASSUME NEW t \in Checkers, NEW u, NEW w, NEW s, NEW s2, NEW l \in Int, NEW l2 \in Int,
           NEW r \in Int, NEW r2 \in Int, NEW x, NEW y,
           Deeper(t, u, s, l, r, x), Deeper(u, w, s2, l2, r2, y)
    PROVE  Deeper(t, w, s2, l + l2, r + r2, y)
<1>1. t.level \in Int /\ t.region \in Int
  BY DEF Checkers
<1> QED
  BY <1>1 DEF Deeper

LEMMA SameDeeper ==
    ASSUME NEW t \in Checkers, NEW u \in Checkers, SameRegions(t, u)
    PROVE  Deeper(t, u, u.scopes, 0, 0, t.return_type)
<1>1. t.level \in Int /\ t.region \in Int
  BY DEF Checkers
<1> QED
  BY <1>1 DEF Deeper, SameRegions, Numbered

LEMMA ScopeDeeper ==
    ASSUME NEW t \in Checkers
    PROVE  /\ Deeper(t, enter_scope(t), Append(t.scopes, EmptyScope), 1, 0, t.return_type)
           /\ Len(t.scopes) > 1 =>
                 Deeper(t, exit_scope(t), SubSeq(t.scopes, 1, Len(t.scopes) - 1), -1, 0,
                        t.return_type)
<1>1. t.region \in Int
  BY DEF Checkers
<1> QED
  BY <1>1, ScopeNests DEF Nested, Deeper, Numbered

LEMMA RegionDeeper ==
    ASSUME NEW t \in Checkers
    PROVE  /\ Deeper(t, enter_memory_region(t), t.scopes, 0, 1, t.return_type)
           /\ Numbered(t) /\ t.region > 0 =>
                 Deeper(t, exit_memory_region(t), t.scopes, 0, -1, t.return_type)
<1> DEFINE R == t.region_stack
           u == enter_memory_region(t)
           w == exit_memory_region(t)
<1>1. R \in Seq(Nat) /\ t.region \in Nat /\ Len(R) \in Nat /\ t.level \in Int /\ DOMAIN R = 1..Len(R)
  BY DEF Checkers
<1>2. Deeper(t, u, t.scopes, 0, 1, t.return_type)
  <2>1. Regions(t, u, Append(R, t.region), t.region + 1, t.generation + 1)
    BY RegionNests
  <2> HIDE DEF u
  <2>2. /\ Len(Append(R, t.region)) = Len(R) + 1
        /\ DOMAIN Append(R, t.region) = 1..(Len(R) + 1)
        /\ \A i \in 1..Len(R) : Append(R, t.region)[i] = R[i]
        /\ Append(R, t.region)[Len(R) + 1] = t.region
    BY <1>1
  <2>3. Numbered(t) => Numbered(u) /\ u.region = t.region + 1
    BY <1>1, <2>1, <2>2 DEF Numbered, Regions
  <2> QED
    BY <1>1, <2>1, <2>3 DEF Deeper, Regions
<1>3. ASSUME Numbered(t), t.region > 0
      PROVE  Deeper(t, w, t.scopes, 0, -1, t.return_type)
  <2>0. Len(R) > 0 /\ R # <<>> /\ t.generation > 0 /\ t.region = Len(R) /\ t.generation = t.region
    BY <1>1, <1>3 DEF Numbered
  <2>1. Regions(t, w, SubSeq(R, 1, Len(R) - 1), R[Len(R)], t.generation - 1)
    BY <2>0, RegionNests
  <2> HIDE DEF w
  <2>2. /\ Len(SubSeq(R, 1, Len(R) - 1)) = Len(R) - 1
        /\ DOMAIN SubSeq(R, 1, Len(R) - 1) = 1..(Len(R) - 1)
        /\ \A i \in 1..(Len(R) - 1) : SubSeq(R, 1, Len(R) - 1)[i] = R[i]
    BY <1>1, <2>0
  <2>3. R[Len(R)] = Len(R) - 1 /\ \A i \in 1..(Len(R) - 1) : R[i] = i - 1
    <3>1. \A i \in 1..Len(R) : R[i] = i - 1
      BY <1>1, <1>3 DEF Numbered
    <3>2. Len(R) \in 1..Len(R)
      BY <1>1, <2>0
    <3> HIDE DEF R
    <3> QED
      BY <1>1, <3>1, <3>2
  <2>4. Numbered(w) /\ w.region = t.region + (-1)
    BY <1>1, <2>0, <2>1, <2>2, <2>3 DEF Numbered, Regions
  <2> QED
    BY <1>1, <2>1, <2>4 DEF Deeper, Regions
<1> QED
  BY <1>2, <1>3

\* The block of a statement.
LEMMA BlockDeeper ==
    ASSUME NEW t \in Checkers
    PROVE  /\ Deeper(t, begin_block(t), Append(t.scopes, EmptyScope), 1, 1, t.return_type)
           /\ Numbered(t) /\ t.region > 0 /\ Len(t.scopes) > 1 =>
                 Deeper(t, end_block(t), SubSeq(t.scopes, 1, Len(t.scopes) - 1), -1, -1,
                        t.return_type)
<1>1. Deeper(t, begin_block(t), Append(t.scopes, EmptyScope), 1, 1, t.return_type)
  <2> DEFINE u == enter_scope(t)
  <2>1. Deeper(t, u, Append(t.scopes, EmptyScope), 1, 0, t.return_type)
    BY ScopeDeeper
  <2> HIDE DEF u
  <2>2. u \in Checkers /\ u.scopes = Append(t.scopes, EmptyScope) /\ u.return_type = t.return_type
    BY <2>1 DEF Deeper
  <2>3. Deeper(u, enter_memory_region(u), u.scopes, 0, 1, u.return_type)
    BY <2>2, RegionDeeper
  <2>4. begin_block(t) = enter_memory_region(u)
    BY DEF begin_block, u
  <2>5. Deeper(t, enter_memory_region(u), u.scopes, 1 + 0, 0 + 1, u.return_type)
    BY <2>1, <2>3, DeeperTrans
  <2> QED
    BY <2>2, <2>4, <2>5
<1>2. ASSUME Numbered(t), t.region > 0, Len(t.scopes) > 1
      PROVE  Deeper(t, end_block(t), SubSeq(t.scopes, 1, Len(t.scopes) - 1), -1, -1, t.return_type)
  <2> DEFINE u == exit_scope(t)
             S == SubSeq(t.scopes, 1, Len(t.scopes) - 1)
  <2>1. Deeper(t, u, S, -1, 0, t.return_type)
    BY <1>2, ScopeDeeper
  <2> HIDE DEF u, S
  <2>2. /\ u \in Checkers /\ u.scopes = S /\ u.return_type = t.return_type
        /\ Numbered(u) /\ u.region = t.region + 0
    BY <1>2, <2>1 DEF Deeper
  <2>2a. u.region > 0
    BY <1>2, <2>2 DEF Checkers
  <2>3. Deeper(u, exit_memory_region(u), u.scopes, 0, -1, u.return_type)
    BY <2>2, <2>2a, RegionDeeper
  <2>4. end_block(t) = exit_memory_region(u)
    BY DEF end_block, u
  <2>5. Deeper(t, exit_memory_region(u), u.scopes, -1 + 0, 0 + (-1), u.return_type)
    BY <2>1, <2>3, DeeperTrans
  <2> QED
    BY <2>2, <2>4, <2>5 DEF S
<1> QED
  BY <1>1, <1>2

Wide == Binders \cup {"parallel", "fn"}

\* A statement that puts a scope around its block, in which s is bound.
LEMMA WideDeeper ==
    ASSUME NEW t \in Checkers, NEW u, NEW s, Deeper(enter_scope(t), u, s, 0, 0, t.return_type)
    PROVE  Deeper(t, begin_block(u), Append(s, EmptyScope), 2, 1, t.return_type)
<1>1. Deeper(t, enter_scope(t), Append(t.scopes, EmptyScope), 1, 0, t.return_type)
  BY ScopeDeeper
<1>2. Deeper(t, u, s, 1 + 0, 0 + 0, t.return_type)
  BY <1>1, DeeperTrans
<1>3. u \in Checkers /\ u.scopes = s /\ u.return_type = t.return_type
  BY <1>2 DEF Deeper
<1>4. Deeper(u, begin_block(u), Append(s, EmptyScope), 1, 1, t.return_type)
  BY <1>3, BlockDeeper
<1>5. Deeper(t, begin_block(u), Append(s, EmptyScope), (1 + 0) + 1, (0 + 0) + 1, t.return_type)
  BY <1>2, <1>4, DeeperTrans
<1> QED
  BY <1>5

\* the scopes around the block of a statement that binds n
Bound(s, n, type) == Append(Bind(Append(s, EmptyScope), n, type), EmptyScope)

\* a statement with a body
Opened(t, s, levels, regions, ret) ==
    /\ phase = "types" /\ phase' = "types"
    /\ t \in TokenType /\ t.k \in Openers /\ t.up = Innermost
    /\ src' = Append(src, t) /\ open' = Append(open, Len(src) + 1) /\ globals' = globals
    /\ Deeper(tc, tc', s, levels, regions, ret)

LEMMA BlockEffect ==
    ASSUME TypesOK, check_block_statement
    PROVE  \E k \in {"block", "if", "while"} :
              Opened(Met(k, NoName, Null, Null, NoName, Null), Append(tc.scopes, EmptyScope),
                     1, 1, tc.return_type)
<1>1. PICK k \in {"block", "if", "while"} :
         Opens(Token(k, NoName, Null, Null)) /\ tc' = begin_block(tc)
  BY DEF check_block_statement
<1>2. /\ Met(k, NoName, Null, Null, NoName, Null) \in TokenType
      /\ src' = Append(src, Met(k, NoName, Null, Null, NoName, Null))
  BY <1>1, Tokens DEF TokenKinds, TypeOrNull, Opens, Openers
<1>3. Deeper(tc, tc', Append(tc.scopes, EmptyScope), 1, 1, tc.return_type)
  BY <1>1, BlockDeeper DEF TypesOK
<1> QED
  BY <1>1, <1>2, <1>3 DEF Opened, Opens, Meets, Goes, Met, Openers

LEMMA ParallelEffect ==
    ASSUME TypesOK, check_parallel_statement
    PROVE  Opened(Met("parallel", NoName, Null, Null, NoName, Null),
                  Append(Append(tc.scopes, EmptyScope), EmptyScope), 2, 1, tc.return_type)
<1> DEFINE u == enter_scope(tc)
<1>1. Opens(Token("parallel", NoName, Null, Null)) /\ tc' = begin_block(u)
  BY DEF check_parallel_statement
<1>2. /\ Met("parallel", NoName, Null, Null, NoName, Null) \in TokenType
      /\ src' = Append(src, Met("parallel", NoName, Null, Null, NoName, Null))
  BY <1>1, Tokens DEF TokenKinds, TypeOrNull, Opens, Openers
<1>3. Deeper(tc, tc', Append(Append(tc.scopes, EmptyScope), EmptyScope), 2, 1, tc.return_type)
  <2>1. u \in Checkers /\ u.scopes = Append(tc.scopes, EmptyScope) /\ u.return_type = tc.return_type
    BY ScopeDeeper DEF TypesOK, Deeper
  <2>2. Deeper(u, u, Append(tc.scopes, EmptyScope), 0, 0, tc.return_type)
    BY <2>1, SameDeeper DEF SameRegions
  <2> QED
    BY <1>1, <2>2, WideDeeper DEF TypesOK
<1> QED
  BY <1>1, <1>2, <1>3 DEF Opened, Opens, Meets, Goes, Met, Openers

\* a binding in a scope of its own, then the block
LEMMA BoundDeeper ==
    ASSUME NEW t \in Checkers, NEW u, NEW n \in Names, NEW type,
           Binds(enter_scope(t), u, n, type)
    PROVE  Deeper(t, begin_block(u), Bound(t.scopes, n, type), 2, 1, t.return_type)
<1> DEFINE e == enter_scope(t)
<1>1. e \in Checkers /\ e.scopes = Append(t.scopes, EmptyScope) /\ e.return_type = t.return_type
  BY ScopeDeeper DEF Deeper
<1> HIDE DEF e
<1>2. Deeper(e, u, u.scopes, 0, 0, t.return_type)
  BY <1>1, SameDeeper DEF Binds, e
<1>3. u.scopes = Bind(Append(t.scopes, EmptyScope), n, type)
  BY <1>1 DEF Binds, e
<1> QED
  BY <1>2, <1>3, WideDeeper DEF Bound, e

LEMMA ForEffect ==
    ASSUME TypesOK, check_for_statement
    PROVE  \E n \in Vars, v \in Literals \cup Names :
              Opened(Met("for", n, Null, v, NoName, Null),
                     Bound(tc.scopes, n, var_type(Null, ValueType(tc, v))), 2, 1, tc.return_type)
<1>1. PICK n \in Vars, v \in Literals \cup Names :
         /\ Opens(Token("for", n, Null, v))
         /\ tc' = begin_block(declare_var(enter_scope(tc), n, Null, v))
  BY DEF check_for_statement
<1>2. /\ Met("for", n, Null, v, NoName, Null) \in TokenType
      /\ src' = Append(src, Met("for", n, Null, v, NoName, Null))
  BY <1>1, Tokens DEF TokenKinds, TypeOrNull, Opens, Openers, Binders
<1> DEFINE e == enter_scope(tc)
<1>3. e \in Checkers /\ e.scopes = Append(tc.scopes, EmptyScope) /\ e.scopes # <<>>
  <2>1. e \in Checkers /\ e.scopes = Append(tc.scopes, EmptyScope)
    BY ScopeDeeper DEF TypesOK, Deeper
  <2>2. tc.scopes \in Seq(Scopes) /\ EmptyScope \in Scopes
    BY DEF TypesOK, Checkers, EmptyScope, Scopes
  <2> HIDE DEF e
  <2>3. Append(tc.scopes, EmptyScope) # <<>>
    BY <2>2
  <2> QED
    BY <2>1, <2>3
<1>4. ValueType(e, v) = ValueType(tc, v)
  BY ValueEmpty DEF TypesOK
<1> HIDE DEF e
<1>5. Binds(e, declare_var(e, n, Null, v), n, var_type(Null, ValueType(tc, v)))
  BY <1>3, <1>4, VarBinds, TypesFacts DEF Names
<1>6. Deeper(tc, tc', Bound(tc.scopes, n, var_type(Null, ValueType(tc, v))), 2, 1, tc.return_type)
  BY <1>1, <1>5, BoundDeeper DEF TypesOK, Names, e
<1> QED
  BY <1>1, <1>2, <1>6 DEF Opened, Opens, Meets, Goes, Met, Openers, Binders

\* concurrent, task and worker statements, and methods
LEMMA BindsDeeper ==
    ASSUME TypesOK, NEW n \in Vars, NEW type \in TypeOrNull
    PROVE  Deeper(tc, binds(tc, n, type), Bound(tc.scopes, n, type), 2, 1, tc.return_type)
<1> DEFINE e == enter_scope(tc)
<1>3. e \in Checkers /\ e.scopes = Append(tc.scopes, EmptyScope) /\ e.scopes # <<>>
  <2>1. e \in Checkers /\ e.scopes = Append(tc.scopes, EmptyScope)
    BY ScopeDeeper DEF TypesOK, Deeper
  <2>2. tc.scopes \in Seq(Scopes) /\ EmptyScope \in Scopes
    BY DEF TypesOK, Checkers, EmptyScope, Scopes
  <2> HIDE DEF e
  <2>3. Append(tc.scopes, EmptyScope) # <<>>
    BY <2>2
  <2> QED
    BY <2>1, <2>3
<1> HIDE DEF e
<1>5. Binds(e, declare_variable(e, n, type), n, type)
  BY <1>3, DeclareBinds, TypesFacts DEF Names
<1> QED
  BY <1>5, BoundDeeper DEF TypesOK, Names, e, binds

\* the type that each of them gives to its name
BoundType(k, a) ==
    CASE k = "concurrent" -> "Channel"
      [] k = "task" -> "Int"
      [] k = "worker" -> "Any"
      [] OTHER -> a

LEMMA BinderEffect ==
    ASSUME TypesOK,
           check_concurrent_statement \/ check_task_statement \/ check_worker_statement
           \/ check_frame_method
    PROVE  \E k \in {"concurrent", "task", "worker", "method"}, n \in Vars,
              a \in Literals \cup {Null} :
              Opened(Met(k, n, a, Null, NoName, Null), Bound(tc.scopes, n, BoundType(k, a)),
                     2, 1, tc.return_type) /\ BoundType(k, a) \in TypeOrNull
<1>1. PICK k \in {"concurrent", "task", "worker", "method"}, n \in Vars,
            a \in Literals \cup {Null} :
         /\ Opens(Token(k, n, a, Null)) /\ tc' = binds(tc, n, BoundType(k, a))
         /\ BoundType(k, a) \in TypeOrNull
  <2>1. CASE check_concurrent_statement
    <3>1. BoundType("concurrent", Null) = "Channel" /\ "Channel" \in TypeOrNull
      BY DEF BoundType, TypeOrNull, Types
    <3> QED
      BY <2>1, <3>1 DEF check_concurrent_statement
  <2>2. CASE check_task_statement
    <3>1. BoundType("task", Null) = "Int" /\ "Int" \in TypeOrNull
      BY DEF BoundType, TypeOrNull, Types
    <3> QED
      BY <2>2, <3>1 DEF check_task_statement
  <2>3. CASE check_worker_statement
    <3>1. BoundType("worker", Null) = "Any" /\ "Any" \in TypeOrNull
      BY DEF BoundType, TypeOrNull, Types
    <3> QED
      BY <2>3, <3>1 DEF check_worker_statement
  <2>4. CASE check_frame_method
    <3>1. \A a \in Literals : BoundType("method", a) = a /\ a \in TypeOrNull
      BY DEF BoundType, TypeOrNull, Types, Literals
    <3> QED
      BY <2>4, <3>1 DEF check_frame_method
  <2> QED
    BY <2>1, <2>2, <2>3, <2>4
<1>2. /\ Met(k, n, a, Null, NoName, Null) \in TokenType
      /\ src' = Append(src, Met(k, n, a, Null, NoName, Null))
  BY <1>1, Tokens DEF TokenKinds, TypeOrNull, Opens, Openers, Binders
<1>3. Deeper(tc, tc', Bound(tc.scopes, n, BoundType(k, a)), 2, 1, tc.return_type)
  BY <1>1, BindsDeeper
<1>4. Opened(Met(k, n, a, Null, NoName, Null), Bound(tc.scopes, n, BoundType(k, a)),
             2, 1, tc.return_type)
  BY <1>1, <1>2, <1>3 DEF Opened, Opens, Meets, Goes, Met, Openers, Binders
<1> QED
  BY <1>1, <1>4

\* The function is bound in the scope around it, its parameter in its own.
LEMMA FunctionEffect ==
    ASSUME TypesOK, check_function_declaration
    PROVE  \E f \in Fns, n \in Vars, a \in {"Any", "List"}, ret \in {"Any", "Int"} :
              /\ open = <<>> => f \in globals
              /\ Opened(Met("fn", n, a, Null, f, ret),
                        Bound(Bind(tc.scopes, f, "Function"), n, a), 2, 2, ret)
<1>1. PICK f \in Fns, n \in Vars, a \in {"Any", "List"}, ret \in {"Any", "Int"} :
        /\ open = <<>> => f \in globals
        /\ Opens([Token("fn", n, a, Null) EXCEPT !.f = f, !.ret = ret])
        /\ LET t == declare_variable(enter_memory_region(tc), f, "Function")
               s == [enter_scope(t) EXCEPT !.return_type = ret]
               u == declare_variable_memory(declare_variable(s, n, a), n)
           IN  tc' = begin_block(mark_variable_initialized(u, n))
  BY DEF check_function_declaration
<1> DEFINE m == enter_memory_region(tc)
           t == declare_variable(m, f, "Function")
           e == enter_scope(t)
           s == [e EXCEPT !.return_type = ret]
           d == declare_variable(s, n, a)
           u == declare_variable_memory(d, n)
           w == mark_variable_initialized(u, n)
           F == Bind(tc.scopes, f, "Function")
           E == Append(F, EmptyScope)
           B == Bind(E, n, a)
<1>2. /\ Met("fn", n, a, Null, f, ret) \in TokenType
      /\ src' = Append(src, Met("fn", n, a, Null, f, ret))
  <2>1. a \in Literals \cup {Null, "Any"} /\ ret \in TypeOrNull /\ "fn" \in TokenKinds
    BY DEF Literals, TypeOrNull, Types, TokenKinds, Openers
  <2> QED
    BY <1>1, <2>1, Tokens DEF Opens
<1>3. tc' = begin_block(w)
  BY <1>1
<1>4. /\ "Function" \in TypeOrNull /\ a \in TypeOrNull /\ ret \in TypeOrNull
      /\ f \in Names /\ n \in Names /\ Len(src) \in Nat
      /\ tc \in Checkers /\ tc.scopes \in Seq(Scopes) /\ tc.scopes # <<>>
  BY TypesFacts DEF TypesOK, Checkers, TypeOrNull, Types, Names
<1>5. Deeper(tc, m, tc.scopes, 0, 1, tc.return_type)
  BY <1>4, RegionDeeper
<1> HIDE DEF m
<1>6. m \in Checkers /\ m.scopes = tc.scopes /\ m.return_type = tc.return_type
  BY <1>5 DEF Deeper
<1>7. Binds(m, t, f, "Function")
  BY <1>4, <1>6, DeclareBinds
<1> HIDE DEF t
<1>8. t \in Checkers /\ t.scopes = F /\ t.return_type = tc.return_type /\ SameRegions(m, t)
  BY <1>6, <1>7 DEF Binds, SameRegions
<1>9. F \in Seq(Scopes) /\ F # <<>>
  <2>1. t.scopes \in Seq(Scopes)
    BY <1>8 DEF Checkers
  <2>2. Len(F) = Len(tc.scopes) /\ Len(tc.scopes) # 0
    BY <1>4 DEF Bind
  <2> QED
    BY <1>8, <2>1, <2>2
<1> HIDE DEF F
<1>10. Deeper(m, t, F, 0, 0, tc.return_type)
  BY <1>6, <1>8, SameDeeper
<1>11. Deeper(tc, t, F, 0 + 0, 1 + 0, tc.return_type)
  BY <1>4, <1>5, <1>10, DeeperTrans
<1>12. Deeper(t, e, E, 1, 0, tc.return_type)
  BY <1>8, ScopeDeeper
<1> HIDE DEF e
<1>13. e \in Checkers /\ e.scopes = E
  BY <1>12 DEF Deeper
<1>14. E \in Seq(Scopes) /\ E # <<>>
  <2>1. EmptyScope \in Scopes
    BY DEF EmptyScope, Scopes
  <2> QED
    BY <1>9, <2>1
<1> HIDE DEF E
<1>15. Deeper(e, s, E, 0, 0, ret)
  <2>1. s \in Checkers /\ s.level = e.level /\ s.region = e.region
    BY <1>4, <1>13 DEF Checkers
  <2>1a. e.level \in Int /\ e.region \in Int
    BY <1>13 DEF Checkers
  <2>2. /\ s.generation = e.generation /\ s.region_stack = e.region_stack /\ s.scopes = e.scopes
        /\ s.errors = e.errors /\ s.return_type = ret
    BY <1>13 DEF Checkers
  <2> QED
    BY <1>13, <2>1, <2>1a, <2>2 DEF Deeper, Numbered
<1> HIDE DEF s
<1>16. s \in Checkers /\ s.scopes = E /\ s.return_type = ret
  BY <1>15 DEF Deeper
<1>17. Binds(s, d, n, a)
  BY <1>4, <1>14, <1>16, DeclareBinds
<1> HIDE DEF d
<1>18. Keeps(d, u) /\ u \in Checkers
  BY <1>4, <1>17, MemoryKeeps DEF Binds, Keeps
<1> HIDE DEF u
<1>19. Keeps(u, w)
  BY <1>4, <1>18, MemoryKeeps
<1> HIDE DEF w
<1>20. Binds(s, w, n, a)
  BY <1>17, <1>18, <1>19, BindsKeeps
<1>21. w \in Checkers /\ w.scopes = B /\ w.return_type = ret /\ SameRegions(s, w)
  BY <1>16, <1>20 DEF Binds, SameRegions
<1> HIDE DEF B
<1>22. Deeper(s, w, B, 0, 0, ret)
  BY <1>16, <1>21, SameDeeper
<1>23. Deeper(w, begin_block(w), Append(B, EmptyScope), 1, 1, ret)
  BY <1>21, BlockDeeper
<1>24. Deeper(tc, e, E, (0 + 0) + 1, (1 + 0) + 0, tc.return_type)
  BY <1>4, <1>11, <1>12, DeeperTrans
<1>25. Deeper(tc, s, E, ((0 + 0) + 1) + 0, ((1 + 0) + 0) + 0, ret)
  BY <1>4, <1>15, <1>24, DeeperTrans
<1>26. Deeper(tc, w, B, (((0 + 0) + 1) + 0) + 0, (((1 + 0) + 0) + 0) + 0, ret)
  BY <1>4, <1>22, <1>25, DeeperTrans
<1>27. Deeper(tc, begin_block(w), Append(B, EmptyScope),
              ((((0 + 0) + 1) + 0) + 0) + 1, ((((1 + 0) + 0) + 0) + 0) + 1, ret)
  BY <1>4, <1>23, <1>26, DeeperTrans
<1>28. Deeper(tc, tc', Append(B, EmptyScope), 2, 2, ret)
  BY <1>3, <1>27
<1>29. Append(B, EmptyScope) = Bound(Bind(tc.scopes, f, "Function"), n, a)
  BY DEF Bound, B, E, F
<1>30. Opened(Met("fn", n, a, Null, f, ret), Bound(Bind(tc.scopes, f, "Function"), n, a), 2, 2, ret)
  BY <1>1, <1>2, <1>28, <1>29 DEF Opened, Opens, Meets, Goes, Met, Openers
<1> QED
  BY <1>1, <1>30

\* what the end of a statement of kind k takes away
Closed(k, levels, regions) ==
    LET p == Innermost
    IN  /\ phase = "types" /\ phase' = "types" /\ open # <<>>
        /\ src' = Append(src, [Met("end", NoName, Null, Null, NoName, Null) EXCEPT !.up = p])
        /\ open' = SubSeq(open, 1, Len(open) - 1) /\ globals' = globals
        /\ Deeper(tc, tc', SubSeq(tc.scopes, 1, Len(tc.scopes) - levels), -levels, -regions,
                  IF k = "fn" THEN Null ELSE tc.return_type)

Levels(k) == IF k \in Wide THEN 2 ELSE 1
RegionCount(k) == IF k = "fn" THEN 2 ELSE 1

LEMMA EndEffect ==
    ASSUME TypesOK, end_statement, Numbered(tc), NEW k \in Openers, k = src[Innermost].k,
           Len(tc.scopes) > Levels(k), tc.region >= RegionCount(k)
    PROVE  Closed(k, Levels(k), RegionCount(k))
<1> DEFINE t == end_block(tc)
           x == exit_scope(t)
           m == exit_memory_region(x)
           s == [m EXCEPT !.return_type = Null]
           S == tc.scopes
           S1 == SubSeq(S, 1, Len(S) - 1)
           S2 == SubSeq(S, 1, Len(S) - 2)
<1>1. /\ phase = "types" /\ phase' = "types" /\ open # <<>> /\ globals' = globals
      /\ open' = SubSeq(open, 1, Len(open) - 1)
      /\ Innermost = open[Len(open)]
      /\ src' = Append(src, [Token("end", NoName, Null, Null) EXCEPT !.up = Innermost])
      /\ tc' = CASE k \in {"block", "if", "while"} -> t
                 [] k = "fn" -> s
                 [] OTHER -> x
  BY DEF end_statement, Innermost
<1>2. Token("end", NoName, Null, Null) = Met("end", NoName, Null, Null, NoName, Null)
  <2>1. Null \notin Names
    BY NamesAssumption
  <2> QED
    BY <2>1 DEF Token, Met, Innermost
<1>3. tc \in Checkers /\ S \in Seq(Scopes) /\ Len(S) \in Nat /\ tc.region \in Nat
  BY DEF TypesOK, Checkers
<1>4. Levels(k) \in {1, 2} /\ RegionCount(k) \in {1, 2} /\ (Levels(k) = 1 => k # "fn")
      /\ (k \in {"block", "if", "while"} => Levels(k) = 1 /\ RegionCount(k) = 1)
      /\ (k \notin {"block", "if", "while"} => Levels(k) = 2)
  BY DEF Levels, RegionCount, Wide, Openers, Binders
<1>5. Len(S) > 1 /\ tc.region > 0
  BY <1>3, <1>4
<1>6. Deeper(tc, t, S1, -1, -1, tc.return_type)
  BY <1>3, <1>5, BlockDeeper
<1> HIDE DEF t
<1>7. t \in Checkers /\ t.scopes = S1 /\ t.return_type = tc.return_type /\ Numbered(t)
      /\ t.region = tc.region + (-1)
  BY <1>6 DEF Deeper
<1>8. CASE k \in {"block", "if", "while"}
  <2>1. tc' = t
    BY <1>1, <1>8
  <2>2. k # "fn" /\ Levels(k) = 1 /\ RegionCount(k) = 1
    BY <1>4, <1>8
  <2> QED
    BY <1>1, <1>2, <1>6, <2>1, <2>2 DEF Closed
<1>9. CASE k \notin {"block", "if", "while"}
  <2>1. Levels(k) = 2 /\ Len(S) > 2
    BY <1>3, <1>4, <1>9
  <2>2. Len(S1) = Len(S) - 1 /\ Len(S1) > 1 /\ SubSeq(S1, 1, Len(S1) - 1) = S2
    BY <1>3, <2>1
  <2>3. Deeper(t, x, S2, -1, 0, tc.return_type)
    BY <1>7, <2>2, ScopeDeeper
  <2> HIDE DEF x
  <2>4. Deeper(tc, x, S2, (-1) + (-1), (-1) + 0, tc.return_type)
    BY <1>3, <1>6, <2>3, DeeperTrans
  <2>5. x \in Checkers /\ x.scopes = S2 /\ x.return_type = tc.return_type /\ Numbered(x)
        /\ x.region = t.region + 0
    BY <1>7, <2>3 DEF Deeper
  <2>6. CASE k # "fn"
    <3>1. tc' = x /\ RegionCount(k) = 1
      BY <1>1, <1>9, <2>6 DEF RegionCount
    <3>2. Deeper(tc, tc', S2, -2, -1, tc.return_type)
      BY <2>4, <3>1
    <3> QED
      BY <1>1, <1>2, <2>1, <2>6, <3>1, <3>2 DEF Closed
  <2>7. CASE k = "fn"
    <3>1. tc' = s /\ RegionCount(k) = 2
      BY <1>1, <2>7 DEF RegionCount
    <3>2. x.region > 0
      BY <1>3, <1>7, <2>5, <3>1
    <3>3. Deeper(x, m, S2, 0, -1, tc.return_type)
      BY <2>5, <3>2, RegionDeeper
    <3> HIDE DEF m
    <3>4. Deeper(tc, m, S2, ((-1) + (-1)) + 0, ((-1) + 0) + (-1), tc.return_type)
      BY <1>3, <2>4, <3>3, DeeperTrans
    <3>5. m \in Checkers
      BY <3>3 DEF Deeper
    <3>6. /\ s \in Checkers /\ s.level = m.level /\ s.region = m.region /\ s.errors = m.errors
          /\ s.generation = m.generation /\ s.region_stack = m.region_stack
          /\ s.scopes = m.scopes /\ s.return_type = Null
      BY <3>5 DEF Checkers, TypeOrNull
    <3>7. Deeper(tc, s, S2, -2, -2, Null)
      BY <3>4, <3>6 DEF Deeper, Numbered
    <3> QED
      BY <1>1, <1>2, <2>1, <2>7, <3>1, <3>7 DEF Closed
  <2> QED
    BY <2>6, <2>7
<1> QED
  BY <1>8, <1>9

(***************************************************************************)
(* The statements that are open.                                            *)
(***************************************************************************)
\* EndedBy, in the program s
Ended(s, p, q) == \E e \in 1..q : s[e].k = "end" /\ s[e].up = p

\* the innermost of the statements o
Inner(o) == IF o = <<>> THEN 0 ELSE o[Len(o)]

\* o are the statements of s that have not ended, outermost first, and every
\* token stands in the innermost statement that was open before it
WellNested(o, s) ==
    /\ \A i \in DOMAIN o : o[i] \in DOMAIN s /\ s[o[i]].k \in Openers /\ ~Ended(s, o[i], Len(s))
    /\ \A i, j \in DOMAIN o : i < j => o[i] < o[j]
    /\ \A p \in DOMAIN s : s[p].k \in Openers => Ended(s, p, Len(s)) \/ \E i \in DOMAIN o : o[i] = p
    /\ \A p \in DOMAIN s : s[p].up < p /\ (s[p].up # 0 => s[s[p].up].k \in Openers)
                                      /\ (s[p].k = "end" => s[p].up # 0)
    /\ \A i \in DOMAIN o, p \in DOMAIN s : o[i] < p /\ s[p].k # "end" => o[i] <= s[p].up

\* The types of the tokens, one by one.
LEMMA TokenFields ==
    ASSUME NEW s \in Seq(TokenType)
    PROVE  \A p \in DOMAIN s : s[p] \in TokenType /\ s[p].up \in Nat
<1>1. \A p \in DOMAIN s : s[p] \in TokenType
  OBVIOUS
<1> QED
  BY <1>1 DEF TokenType

\* Ends after token q do not matter up to it.
LEMMA EndedAppend ==
    ASSUME NEW s \in Seq(TokenType), NEW t, NEW p
    PROVE  /\ \A q \in 0..Len(s) : Ended(Append(s, t), p, q) <=> Ended(s, p, q)
           /\ Ended(Append(s, t), p, Len(s) + 1) <=>
                 Ended(s, p, Len(s)) \/ (t.k = "end" /\ t.up = p)
<1>1. /\ Len(s) \in Nat /\ Append(s, t)[Len(s) + 1] = t
      /\ \A e \in 1..Len(s) : Append(s, t)[e] = s[e]
  OBVIOUS
<1>2. \A q \in 0..Len(s) : \A e \in 1..q : e \in 1..Len(s)
  BY <1>1
<1>3. \A e \in 1..(Len(s) + 1) : e \in 1..Len(s) \/ e = Len(s) + 1
  BY <1>1
<1>4. Len(s) + 1 \in 1..(Len(s) + 1) /\ \A e \in 1..Len(s) : e \in 1..(Len(s) + 1)
  BY <1>1
<1> DEFINE r == Append(s, t)
<1> HIDE DEF r
<1>5. /\ r[Len(s) + 1] = t /\ \A e \in 1..Len(s) : r[e] = s[e]
      /\ r = Append(s, t)
  BY <1>1 DEF r
<1> QED
  BY <1>2, <1>3, <1>4, <1>5 DEF Ended

\* A statement without a body.
LEMMA NestPlain ==
    ASSUME NEW o \in Seq(Nat), NEW s \in Seq(TokenType), WellNested(o, s),
           NEW t \in TokenType, t.k \notin Openers \cup {"end"}, t.up = Inner(o)
    PROVE  WellNested(o, Append(s, t))
<1> DEFINE r == Append(s, t)
           n == Len(s)
<1>1. /\ n \in Nat /\ DOMAIN s = 1..n /\ DOMAIN r = 1..(n + 1) /\ Len(r) = n + 1
      /\ r[n + 1] = t /\ \A e \in 1..n : r[e] = s[e]
  OBVIOUS
<1>2. \A p : Ended(r, p, n + 1) <=> Ended(s, p, n)
  BY <1>1, EndedAppend
<1>3. /\ Len(o) \in Nat /\ DOMAIN o = 1..Len(o) /\ (o = <<>> <=> Len(o) = 0)
      /\ \A i \in DOMAIN o : o[i] \in Nat
  OBVIOUS
<1>4. Inner(o) = 0 \/ (o # <<>> /\ Inner(o) = o[Len(o)] /\ Len(o) \in DOMAIN o)
  BY <1>3 DEF Inner
<1> HIDE DEF r, n
<1>5. \A i \in DOMAIN o : o[i] \in 1..n /\ s[o[i]].k \in Openers /\ o[i] <= Inner(o)
  <2> TAKE i \in DOMAIN o
  <2>1. o[i] \in 1..n /\ s[o[i]].k \in Openers
    BY <1>1 DEF WellNested
  <2>2. o # <<>> /\ Len(o) \in DOMAIN o /\ Inner(o) = o[Len(o)]
    BY <1>3, <1>4 DEF Inner
  <2>3. i = Len(o) \/ i < Len(o)
    BY <1>3
  <2> QED
    BY <1>3, <2>1, <2>2, <2>3 DEF WellNested
<1>6. Inner(o) \in 0..n /\ (Inner(o) # 0 => s[Inner(o)].k \in Openers)
  BY <1>1, <1>4, <1>5
<1>7. \A i \in DOMAIN o : o[i] \in DOMAIN r /\ r[o[i]].k \in Openers /\ ~Ended(r, o[i], Len(r))
  BY <1>1, <1>2, <1>5 DEF WellNested, n
<1>8. \A p \in DOMAIN r : r[p].k \in Openers => Ended(r, p, Len(r)) \/ \E i \in DOMAIN o : o[i] = p
  <2> SUFFICES ASSUME NEW p \in DOMAIN r, r[p].k \in Openers
               PROVE  Ended(r, p, Len(r)) \/ \E i \in DOMAIN o : o[i] = p
    OBVIOUS
  <2>1. p \in 1..n
    BY <1>1
  <2> QED
    BY <1>1, <1>2, <2>1 DEF WellNested, n
<1>9. \A p \in DOMAIN r : r[p].up < p /\ (r[p].up # 0 => r[r[p].up].k \in Openers)
                                  /\ (r[p].k = "end" => r[p].up # 0)
  <2> TAKE p \in DOMAIN r
  <2>1. CASE p \in 1..n
    <3>1. s[p] \in TokenType /\ s[p].up \in Nat
      BY <1>1, <2>1, TokenFields
    <3>2. s[p].up < p /\ (s[p].up # 0 => s[s[p].up].k \in Openers)
          /\ (s[p].k = "end" => s[p].up # 0)
      BY <1>1, <2>1 DEF WellNested
    <3>3. s[p].up # 0 => s[p].up \in 1..n
      BY <1>1, <2>1, <3>1, <3>2
    <3> QED
      BY <1>1, <2>1, <3>2, <3>3
  <2>2. CASE p = n + 1
    <3>1. r[p].up = Inner(o)
      BY <1>1, <2>2
    <3>2. Inner(o) # 0 => Inner(o) \in 1..n
      BY <1>1, <1>6
    <3> QED
      BY <1>1, <1>6, <2>2, <3>1, <3>2
  <2> QED
    BY <1>1, <2>1, <2>2
<1>10. \A i \in DOMAIN o, p \in DOMAIN r : o[i] < p /\ r[p].k # "end" => o[i] <= r[p].up
  <2> TAKE i \in DOMAIN o, p \in DOMAIN r
  <2>1. CASE p \in 1..n
    BY <1>1, <2>1 DEF WellNested
  <2>2. CASE p = n + 1
    BY <1>1, <1>5, <2>2
  <2> QED
    BY <1>1, <2>1, <2>2
<1>11. \A i, j \in DOMAIN o : i < j => o[i] < o[j]
  BY DEF WellNested
<1> QED
  BY <1>7, <1>8, <1>9, <1>10, <1>11 DEF WellNested, r

\* A statement with a body.
LEMMA NestOpen ==
    ASSUME NEW o \in Seq(Nat), NEW s \in Seq(TokenType), WellNested(o, s),
           NEW t \in TokenType, t.k \in Openers, t.up = Inner(o)
    PROVE  WellNested(Append(o, Len(s) + 1), Append(s, t))
<1> DEFINE r == Append(s, t)
           n == Len(s)
           w == Append(o, n + 1)
           d == Len(o)
<1>1. /\ n \in Nat /\ DOMAIN s = 1..n /\ DOMAIN r = 1..(n + 1) /\ Len(r) = n + 1
      /\ r[n + 1] = t /\ \A e \in 1..n : r[e] = s[e]
  OBVIOUS
<1>2. \A p : Ended(r, p, n + 1) <=> Ended(s, p, n)
  <2>1. t.k # "end"
    BY DEF Openers, Binders
  <2> QED
    BY <1>1, <2>1, EndedAppend
<1>3. /\ d \in Nat /\ DOMAIN o = 1..d /\ (o = <<>> <=> d = 0) /\ DOMAIN w = 1..(d + 1)
      /\ (\A i \in DOMAIN o : o[i] \in Nat) /\ w[d + 1] = n + 1 /\ \A i \in 1..d : w[i] = o[i]
  OBVIOUS
<1>4. Inner(o) = 0 \/ (o # <<>> /\ Inner(o) = o[d] /\ d \in DOMAIN o)
  BY <1>3 DEF Inner
<1> HIDE DEF r, n, d, w
<1>5. \A i \in DOMAIN o : o[i] \in 1..n /\ s[o[i]].k \in Openers /\ o[i] <= Inner(o)
  <2> TAKE i \in DOMAIN o
  <2>1. o[i] \in 1..n /\ s[o[i]].k \in Openers
    BY <1>1 DEF WellNested
  <2>2. o # <<>> /\ d \in DOMAIN o /\ Inner(o) = o[d]
    BY <1>3, <1>4 DEF Inner, d
  <2>3. i = d \/ i < d
    BY <1>3
  <2> QED
    BY <1>3, <2>1, <2>2, <2>3 DEF WellNested
<1>6. Inner(o) \in 0..n /\ (Inner(o) # 0 => s[Inner(o)].k \in Openers)
  BY <1>1, <1>4, <1>5
<1>e. ~Ended(s, n + 1, n)
  <2>1. \A e \in 1..n : s[e] \in TokenType /\ s[e].up \in Nat /\ s[e].up < e
    BY <1>1, TokenFields DEF WellNested
  <2>2. \A e \in 1..n : s[e].up # n + 1
    BY <1>1, <2>1
  <2> QED
    BY <2>2 DEF Ended
<1>7. \A i \in DOMAIN w : w[i] \in DOMAIN r /\ r[w[i]].k \in Openers /\ ~Ended(r, w[i], Len(r))
  <2> TAKE i \in DOMAIN w
  <2>1. CASE i \in 1..d
    BY <1>1, <1>2, <1>3, <1>5, <2>1 DEF WellNested, n
  <2>2. CASE i = d + 1
    BY <1>1, <1>2, <1>3, <1>e, <2>2
  <2> QED
    BY <1>3, <2>1, <2>2
<1>8. \A p \in DOMAIN r : r[p].k \in Openers => Ended(r, p, Len(r)) \/ \E i \in DOMAIN w : w[i] = p
  <2> SUFFICES ASSUME NEW p \in DOMAIN r, r[p].k \in Openers
               PROVE  Ended(r, p, Len(r)) \/ \E i \in DOMAIN w : w[i] = p
    OBVIOUS
  <2>1. CASE p \in 1..n
    <3>1. Ended(s, p, n) \/ \E i \in DOMAIN o : o[i] = p
      BY <1>1, <2>1 DEF WellNested, n
    <3>2. ASSUME NEW i \in DOMAIN o, o[i] = p PROVE i \in DOMAIN w /\ w[i] = p
      BY <1>3, <3>2
    <3> QED
      BY <1>1, <1>2, <3>1, <3>2
  <2>2. CASE p = n + 1
    <3>1. d + 1 \in DOMAIN w /\ w[d + 1] = p
      BY <1>3, <2>2
    <3> QED
      BY <3>1
  <2> QED
    BY <1>1, <2>1, <2>2
<1>9. \A p \in DOMAIN r : r[p].up < p /\ (r[p].up # 0 => r[r[p].up].k \in Openers)
                                  /\ (r[p].k = "end" => r[p].up # 0)
  <2> TAKE p \in DOMAIN r
  <2>1. CASE p \in 1..n
    <3>1. s[p] \in TokenType /\ s[p].up \in Nat
      BY <1>1, <2>1, TokenFields
    <3>2. s[p].up < p /\ (s[p].up # 0 => s[s[p].up].k \in Openers)
          /\ (s[p].k = "end" => s[p].up # 0)
      BY <1>1, <2>1 DEF WellNested
    <3>3. s[p].up # 0 => s[p].up \in 1..n
      BY <1>1, <2>1, <3>1, <3>2
    <3> QED
      BY <1>1, <2>1, <3>2, <3>3
  <2>2. CASE p = n + 1
    <3>1. r[p].up = Inner(o)
      BY <1>1, <2>2
    <3>2. Inner(o) # 0 => Inner(o) \in 1..n
      BY <1>1, <1>6
    <3> QED
      BY <1>1, <1>6, <2>2, <3>1, <3>2 DEF Openers, Binders
  <2> QED
    BY <1>1, <2>1, <2>2
<1>10. \A i \in DOMAIN w, p \in DOMAIN r : w[i] < p /\ r[p].k # "end" => w[i] <= r[p].up
  <2> TAKE i \in DOMAIN w, p \in DOMAIN r
  <2>1. CASE i \in 1..d /\ p \in 1..n
    BY <1>1, <1>3, <2>1 DEF WellNested
  <2>2. CASE i \in 1..d /\ p = n + 1
    BY <1>1, <1>3, <1>5, <2>2
  <2>3. CASE i = d + 1
    BY <1>1, <1>3, <2>3
  <2> QED
    BY <1>1, <1>3, <2>1, <2>2, <2>3
<1>11. \A i, j \in DOMAIN w : i < j => w[i] < w[j]
  <2> TAKE i, j \in DOMAIN w
  <2>1. CASE j \in 1..d
    BY <1>3, <2>1 DEF WellNested
  <2>2. CASE j = d + 1 /\ i \in 1..d
    BY <1>1, <1>3, <1>5, <2>2
  <2> QED
    BY <1>3, <2>1, <2>2
<1> QED
  BY <1>7, <1>8, <1>9, <1>10, <1>11 DEF WellNested, r, w, n

\* The end of the innermost statement.
LEMMA NestEnd ==
    ASSUME NEW o \in Seq(Nat), NEW s \in Seq(TokenType), WellNested(o, s), o # <<>>,
           NEW t \in TokenType, t.k = "end", t.up = Inner(o)
    PROVE  WellNested(SubSeq(o, 1, Len(o) - 1), Append(s, t))
<1> DEFINE r == Append(s, t)
           n == Len(s)
           d == Len(o)
           w == SubSeq(o, 1, d - 1)
<1>1. /\ n \in Nat /\ DOMAIN s = 1..n /\ DOMAIN r = 1..(n + 1) /\ Len(r) = n + 1
      /\ r[n + 1] = t /\ \A e \in 1..n : r[e] = s[e]
  OBVIOUS
<1>2. \A p : Ended(r, p, n + 1) <=> Ended(s, p, n) \/ p = o[d]
  BY <1>1, EndedAppend DEF Inner
<1>3. /\ d \in Nat \ {0} /\ DOMAIN o = 1..d /\ DOMAIN w = 1..(d - 1) /\ d \in DOMAIN o
      /\ (\A i \in DOMAIN o : o[i] \in Nat) /\ \A i \in 1..(d - 1) : w[i] = o[i]
  OBVIOUS
<1>4. Inner(o) = o[d]
  BY DEF Inner
<1> HIDE DEF r, n, d, w
<1>5. \A i \in DOMAIN o : o[i] \in 1..n /\ s[o[i]].k \in Openers
  BY <1>1 DEF WellNested
<1>5a. \A i \in 1..(d - 1) : i \in DOMAIN o /\ o[i] < o[d]
  <2> TAKE i \in 1..(d - 1)
  <2>1. i \in DOMAIN o /\ i < d
    BY <1>3
  <2> QED
    BY <1>3, <2>1 DEF WellNested
<1>7. \A i \in DOMAIN w : w[i] \in DOMAIN r /\ r[w[i]].k \in Openers /\ ~Ended(r, w[i], Len(r))
  <2> TAKE i \in DOMAIN w
  <2>1. i \in DOMAIN o /\ w[i] = o[i] /\ o[i] < o[d] /\ o[i] # o[d] /\ o[i] \in 1..n
    BY <1>3, <1>5, <1>5a
  <2>2. ~Ended(s, o[i], n)
    BY <2>1 DEF WellNested, n
  <2> QED
    BY <1>1, <1>2, <1>5, <2>1, <2>2
<1>8. \A p \in DOMAIN r : r[p].k \in Openers => Ended(r, p, Len(r)) \/ \E i \in DOMAIN w : w[i] = p
  <2> SUFFICES ASSUME NEW p \in DOMAIN r, r[p].k \in Openers
               PROVE  Ended(r, p, Len(r)) \/ \E i \in DOMAIN w : w[i] = p
    OBVIOUS
  <2>1. p \in 1..n
    BY <1>1 DEF Openers, Binders
  <2>2. Ended(s, p, n) \/ \E i \in DOMAIN o : o[i] = p
    BY <1>1, <2>1 DEF WellNested, n
  <2>3. ASSUME NEW i \in DOMAIN o, o[i] = p PROVE p = o[d] \/ (i \in DOMAIN w /\ w[i] = p)
    BY <1>3, <2>3
  <2> QED
    BY <1>1, <1>2, <2>2, <2>3
<1>9. \A p \in DOMAIN r : r[p].up < p /\ (r[p].up # 0 => r[r[p].up].k \in Openers)
                                  /\ (r[p].k = "end" => r[p].up # 0)
  <2> TAKE p \in DOMAIN r
  <2>1. CASE p \in 1..n
    <3>1. s[p] \in TokenType /\ s[p].up \in Nat
      BY <1>1, <2>1, TokenFields
    <3>2. s[p].up < p /\ (s[p].up # 0 => s[s[p].up].k \in Openers)
          /\ (s[p].k = "end" => s[p].up # 0)
      BY <1>1, <2>1 DEF WellNested
    <3>3. s[p].up # 0 => s[p].up \in 1..n
      BY <1>1, <2>1, <3>1, <3>2
    <3> QED
      BY <1>1, <2>1, <3>2, <3>3
  <2>2. CASE p = n + 1
    BY <1>1, <1>3, <1>4, <1>5, <2>2
  <2> QED
    BY <1>1, <2>1, <2>2
<1>10. \A i \in DOMAIN w, p \in DOMAIN r : w[i] < p /\ r[p].k # "end" => w[i] <= r[p].up
  <2> TAKE i \in DOMAIN w, p \in DOMAIN r
  <2>1. CASE p \in 1..n
    BY <1>1, <1>3, <1>5a, <2>1 DEF WellNested
  <2>2. CASE p = n + 1
    BY <1>1, <2>2
  <2> QED
    BY <1>1, <2>1, <2>2
<1>11. \A i, j \in DOMAIN w : i < j => w[i] < w[j]
  BY <1>3, <1>5a DEF WellNested
<1> QED
  BY <1>7, <1>8, <1>9, <1>10, <1>11 DEF WellNested, r, w, n, d

(***************************************************************************)
(* Depths.                                                                  *)
(***************************************************************************)
\* the statements of some kinds that are open
Count(o, s, kinds) == Cardinality({i \in DOMAIN o : s[o[i]].k \in kinds})

Step(k, kinds) == IF k \in kinds THEN 1 ELSE 0

LEMMA CountFacts ==
    ASSUME NEW o \in Seq(Nat), NEW s \in Seq(TokenType), WellNested(o, s), NEW t, NEW kinds
    PROVE  Count(o, s, kinds) \in Nat /\ Count(o, Append(s, t), kinds) = Count(o, s, kinds)
<1> DEFINE D == {i \in DOMAIN o : s[o[i]].k \in kinds}
           n == Len(s)
           d == Len(o)
           r == Append(s, t)
<1>1. /\ n \in Nat /\ d \in Nat /\ DOMAIN o = 1..d /\ DOMAIN s = 1..n /\ r[n + 1] = t
      /\ \A e \in 1..n : r[e] = s[e]
  OBVIOUS
<1> HIDE DEF r, n, d
<1>4. \A i \in 1..d : o[i] \in 1..n /\ r[o[i]] = s[o[i]]
  BY <1>1 DEF WellNested
<1>c. Count(o, s, kinds) = Cardinality(D)
  BY DEF Count
<1>5. IsFiniteSet(D) /\ Cardinality(D) \in Nat
  <2>1. IsFiniteSet(1..d) /\ D \in SUBSET (1..d)
    BY <1>1, FS_Interval
  <2> QED
    BY <2>1, FS_Subset, FS_CardinalityType
<1>6. {i \in DOMAIN o : r[o[i]].k \in kinds} = D
  BY <1>1, <1>4
<1> QED
  BY <1>5, <1>6 DEF Count, r, n, d

LEMMA CountAdded ==
    ASSUME NEW o \in Seq(Nat), NEW s \in Seq(TokenType), WellNested(o, s), NEW t, NEW kinds
    PROVE  Count(Append(o, Len(s) + 1), Append(s, t), kinds) =
              Count(o, s, kinds) + Step(t.k, kinds)
<1> DEFINE D == {i \in DOMAIN o : s[o[i]].k \in kinds}
           n == Len(s)
           d == Len(o)
           r == Append(s, t)
           w == Append(o, n + 1)
<1>1. /\ n \in Nat /\ d \in Nat /\ DOMAIN o = 1..d /\ DOMAIN s = 1..n /\ r[n + 1] = t
      /\ \A e \in 1..n : r[e] = s[e]
  OBVIOUS
<1>2. DOMAIN w = 1..(d + 1) /\ w[d + 1] = n + 1 /\ \A i \in 1..d : w[i] = o[i]
  OBVIOUS
<1> HIDE DEF r, w, n, d
<1>4. \A i \in 1..d : o[i] \in 1..n /\ r[o[i]] = s[o[i]]
  BY <1>1 DEF WellNested
<1>c. Count(o, s, kinds) = Cardinality(D)
  BY DEF Count
<1>5. IsFiniteSet(D) /\ Cardinality(D) \in Nat
  <2>1. IsFiniteSet(1..d) /\ D \in SUBSET (1..d)
    BY <1>1, FS_Interval
  <2> QED
    BY <2>1, FS_Subset, FS_CardinalityType
<1>7. Count(w, r, kinds) = Count(o, s, kinds) + Step(t.k, kinds)
  <2> DEFINE E == {i \in DOMAIN w : r[w[i]].k \in kinds}
  <2>0. Count(w, r, kinds) = Cardinality(E)
    BY DEF Count
  <2>1. CASE t.k \in kinds
    <3>1. E = D \cup {d + 1} /\ d + 1 \notin D
      BY <1>1, <1>2, <1>4, <2>1
    <3> HIDE DEF D, E
    <3>2. Cardinality(E) = Cardinality(D) + 1
      BY <1>5, <3>1, FS_AddElement
    <3> QED
      BY <1>c, <2>0, <2>1, <3>2 DEF Step
  <2>2. CASE t.k \notin kinds
    <3>1. E = D
      BY <1>1, <1>2, <1>4, <2>2
    <3> HIDE DEF D, E
    <3> QED
      BY <1>c, <1>5, <2>0, <2>2, <3>1 DEF Step
  <2> QED
    BY <2>1, <2>2
<1> QED
  BY <1>7 DEF r, w, n, d

LEMMA CountRemoved ==
    ASSUME NEW o \in Seq(Nat), NEW s \in Seq(TokenType), WellNested(o, s), o # <<>>, NEW t, NEW kinds
    PROVE  Count(SubSeq(o, 1, Len(o) - 1), Append(s, t), kinds) =
              Count(o, s, kinds) - Step(s[Inner(o)].k, kinds)
<1> DEFINE D == {i \in DOMAIN o : s[o[i]].k \in kinds}
           n == Len(s)
           d == Len(o)
           r == Append(s, t)
           x == SubSeq(o, 1, d - 1)
<1>1. /\ n \in Nat /\ d \in Nat /\ DOMAIN o = 1..d /\ DOMAIN s = 1..n /\ r[n + 1] = t
      /\ \A e \in 1..n : r[e] = s[e]
  OBVIOUS
<1>3. d > 0 /\ DOMAIN x = 1..(d - 1) /\ Inner(o) = o[d]
      /\ \A i \in 1..(d - 1) : x[i] = o[i]
  BY DEF Inner
<1> HIDE DEF r, x, n, d
<1>4. \A i \in 1..d : o[i] \in 1..n /\ r[o[i]] = s[o[i]]
  BY <1>1 DEF WellNested
<1>c. Count(o, s, kinds) = Cardinality(D)
  BY DEF Count
<1>5. IsFiniteSet(D) /\ Cardinality(D) \in Nat
  <2>1. IsFiniteSet(1..d) /\ D \in SUBSET (1..d)
    BY <1>1, FS_Interval
  <2> QED
    BY <2>1, FS_Subset, FS_CardinalityType
<1>6. Count(x, r, kinds) = Count(o, s, kinds) - Step(s[Inner(o)].k, kinds)
  <2> DEFINE E == {i \in DOMAIN x : r[x[i]].k \in kinds}
  <2>0. Count(x, r, kinds) = Cardinality(E)
    BY DEF Count
  <2>1. /\ d > 0 /\ DOMAIN x = 1..(d - 1) /\ Inner(o) = o[d] /\ \A i \in 1..(d - 1) : x[i] = o[i]
        /\ \A i \in 1..(d - 1) : i \in 1..d
    BY <1>1, <1>3
  <2>2. IsFiniteSet(E)
    <3>1. IsFiniteSet(1..(d - 1)) /\ E \in SUBSET (1..(d - 1))
      BY <1>1, <2>1, FS_Interval
    <3> QED
      BY <3>1, FS_Subset
  <2>3. CASE s[Inner(o)].k \in kinds
    <3>1. D = E \cup {d} /\ d \notin E
      BY <1>1, <1>4, <2>1, <2>3
    <3> HIDE DEF D, E
    <3>2. Cardinality(D) = Cardinality(E) + 1 /\ Cardinality(E) \in Nat
      BY <2>2, <3>1, FS_AddElement, FS_CardinalityType
    <3> QED
      BY <1>c, <2>0, <2>3, <3>2 DEF Step
  <2>4. CASE s[Inner(o)].k \notin kinds
    <3>1. D = E
      BY <1>1, <1>4, <2>1, <2>4
    <3> HIDE DEF D, E
    <3> QED
      BY <1>c, <1>5, <2>0, <2>4, <3>1 DEF Step
  <2> QED
    BY <2>3, <2>4
<1> QED
  BY <1>6 DEF r, x, n, d

\* The scopes after a declaration.
Put(f, n, x) == [f EXCEPT ![n] = x]

LEMMA BindLen ==
    ASSUME NEW S, NEW s \in Seq(S), s # <<>>, NEW n, NEW type
    PROVE  /\ Len(Bind(s, n, type)) = Len(s)
           /\ Bind(s, n, type) \in Seq(S \cup {Put(s[Len(s)], n, type)})
<1> DEFINE d == Len(s)
           x == Put(s[d], n, type)
           T == S \cup {x}
           b == [s EXCEPT ![d] = x]
<1>1. d \in Nat \ {0} /\ DOMAIN s = 1..d /\ s \in Seq(T) /\ x \in T
  OBVIOUS
<1>1a. Len(s) = d
  OBVIOUS
<1> HIDE DEF x, T, d
<1>2. b \in Seq(T) /\ Len(b) = d /\ b[d] = x /\ \A i \in 1..(d - 1) : b[i] = s[i]
  BY <1>1, <1>1a
<1> QED
  BY <1>2 DEF Bind, Put, x, T, d

LEMMA BindEntries ==
    ASSUME NEW S, NEW s \in Seq(S), s # <<>>, NEW n, NEW type
    PROVE  /\ \A i \in 1..(Len(s) - 1) : Bind(s, n, type)[i] = s[i]
           /\ Bind(s, n, type)[Len(s)] = Put(s[Len(s)], n, type)
<1> DEFINE d == Len(s)
           x == Put(s[d], n, type)
           T == S \cup {x}
           b == [s EXCEPT ![d] = x]
<1>1. d \in Nat \ {0} /\ DOMAIN s = 1..d /\ s \in Seq(T) /\ x \in T
  OBVIOUS
<1>1a. Len(s) = d
  OBVIOUS
<1> HIDE DEF x, T, d
<1>2. b \in Seq(T) /\ Len(b) = d /\ b[d] = x /\ \A i \in 1..(d - 1) : b[i] = s[i]
  BY <1>1, <1>1a
<1> QED
  BY <1>2 DEF Bind, Put, x, T, d

\* The scopes around the block of a statement that binds a name.
LEMMA BoundFacts ==
    ASSUME NEW S, NEW s \in Seq(S), NEW n, NEW type
    PROVE  LET b == Bound(s, n, type)
           IN  /\ Len(b) = Len(s) + 2
               /\ \A i \in 1..Len(s) : b[i] = s[i]
               /\ b[Len(s) + 1] = Put(EmptyScope, n, type)
               /\ b[Len(s) + 2] = EmptyScope
<1> DEFINE T == S \cup {EmptyScope}
           x == Put(EmptyScope, n, type)
           e == Append(s, EmptyScope)
           b == Bind(e, n, type)
           d == Len(s)
<1> HIDE DEF x
<1>1. EmptyScope \in T /\ s \in Seq(T) /\ d \in Nat
  OBVIOUS
<1> HIDE DEF EmptyScope, T
<1>2. e \in Seq(T) /\ Len(e) = d + 1 /\ e # <<>> /\ e[d + 1] = EmptyScope
      /\ \A i \in 1..d : e[i] = s[i]
  BY <1>1
<1> HIDE DEF e
<1>3. /\ Len(b) = d + 1 /\ b \in Seq(T \cup {x}) /\ b[d + 1] = x
      /\ \A i \in 1..((d + 1) - 1) : b[i] = e[i]
  <2>1. Put(e[d + 1], n, type) = x /\ b = [e EXCEPT ![d + 1] = x]
    BY <1>2 DEF x, Bind, Put
  <2> DEFINE c == [e EXCEPT ![d + 1] = x]
             U == T \cup {x}
  <2>2. e \in Seq(U) /\ x \in U /\ DOMAIN e = 1..(d + 1)
    BY <1>2
  <2> HIDE DEF U, d
  <2>3. c \in Seq(U) /\ Len(c) = d + 1 /\ c[d + 1] = x /\ \A i \in 1..((d + 1) - 1) : c[i] = e[i]
    BY <1>1, <2>2
  <2> QED
    BY <2>1, <2>3 DEF U
<1> HIDE DEF b
<1>4. b \in Seq(T \cup {x}) /\ EmptyScope \in T \cup {x} /\ Bound(s, n, type) = Append(b, EmptyScope)
  BY <1>1, <1>3 DEF Bound, b, e
<1>5. /\ Len(Append(b, EmptyScope)) = d + 2 /\ Append(b, EmptyScope)[d + 2] = EmptyScope
      /\ \A i \in 1..(d + 1) : Append(b, EmptyScope)[i] = b[i]
  BY <1>1, <1>3, <1>4
<1>6. d + 1 \in 1..(d + 1) /\ \A i \in 1..d : i \in 1..(d + 1) /\ i \in 1..((d + 1) - 1)
  BY <1>1
<1> QED
  BY <1>2, <1>3, <1>4, <1>5, <1>6 DEF x

\* As many scopes and regions as the open statements o of the program s call
\* for, numbered by their depths.
Balanced(t, o, s) ==
    /\ t.level = Len(t.scopes) - 1 /\ t.level = Len(o) + Count(o, s, Wide)
    /\ t.region = Len(o) + Count(o, s, {"fn"}) /\ Numbered(t)
    /\ t.return_type # Null => Count(o, s, {"fn"}) > 0

StructureInv == TypesOK /\ WellNested(open, src) /\ Balanced(tc, open, src)

(***************************************************************************)
(* Every step keeps scopes, regions and open statements in step.            *)
(***************************************************************************)
LEMMA StructureFacts ==
    ASSUME StructureInv
    PROVE  /\ open \in Seq(Nat) /\ src \in Seq(TokenType) /\ tc \in Checkers
           /\ Len(open) \in Nat /\ Len(src) \in Nat /\ tc.scopes \in Seq(Scopes)
           /\ Len(tc.scopes) \in Nat /\ tc.level \in Int /\ tc.region \in Nat
           /\ WellNested(open, src) /\ Inner(open) = Innermost
<1>1. open \in Seq(Nat) /\ src \in Seq(TokenType) /\ tc \in Checkers /\ WellNested(open, src)
  BY DEF StructureInv, TypesOK
<1>2. tc.scopes \in Seq(Scopes) /\ tc.level \in Int /\ tc.region \in Nat
  BY <1>1 DEF Checkers
<1>3. Len(open) \in Nat /\ Len(src) \in Nat /\ Len(tc.scopes) \in Nat
  BY <1>1, <1>2
<1> QED
  BY <1>1, <1>2, <1>3 DEF Inner, Innermost

LEMMA CountNat == ASSUME StructureInv, NEW kinds PROVE Count(open, src, kinds) \in Nat
  BY CountFacts, StructureFacts

\* The same facts one by one.
LEMMA CountPush ==
    ASSUME StructureInv, NEW t, NEW kinds
    PROVE  Count(Append(open, Len(src) + 1), Append(src, t), kinds) =
              Count(open, src, kinds) + Step(t.k, kinds)
<1>1. open \in Seq(Nat) /\ src \in Seq(TokenType) /\ WellNested(open, src)
  BY StructureFacts
<1> QED
  BY ONLY <1>1, CountAdded

LEMMA CountPop ==
    ASSUME StructureInv, open # <<>>, NEW t, NEW kinds
    PROVE  Count(SubSeq(open, 1, Len(open) - 1), Append(src, t), kinds) =
              Count(open, src, kinds) - Step(src[Innermost].k, kinds)
<1>1. open \in Seq(Nat) /\ src \in Seq(TokenType) /\ WellNested(open, src)
  BY StructureFacts
<1>2. Count(SubSeq(open, 1, Len(open) - 1), Append(src, t), kinds) =
              Count(open, src, kinds) - Step(src[Inner(open)].k, kinds)
  BY ONLY <1>1, open # <<>>, CountRemoved
<1> QED
  BY <1>2, StructureFacts

LEMMA StepNat == ASSUME NEW k, NEW kinds PROVE Step(k, kinds) \in {0, 1}
  BY DEF Step

\* A sequence without its last element.
LEMMA Popped ==
    ASSUME NEW S, NEW s \in Seq(S), NEW i \in 1..Len(s)
    PROVE  /\ SubSeq(s, 1, Len(s) - i) \in Seq(S)
           /\ Len(SubSeq(s, 1, Len(s) - i)) = Len(s) - i
           /\ \A j \in 1..(Len(s) - i) : SubSeq(s, 1, Len(s) - i)[j] = s[j]
  OBVIOUS

LEMMA PlainStructure ==
    ASSUME StructureInv, NEW t, NEW s, Plain(t, s), Len(s) = Len(tc.scopes)
    PROVE  StructureInv'
<1>1. /\ t \in TokenType /\ t.k \notin Openers \cup {"end"} /\ t.up = Inner(open)
      /\ src' = Append(src, t) /\ open' = open /\ globals' = globals
      /\ tc' \in Checkers /\ tc'.scopes = s /\ SameRegions(tc, tc') /\ phase' \in Phases
  BY StructureFacts DEF Plain, Phases
<1>2. src' \in Seq(TokenType) /\ s \in Seq(Scopes) /\ s # <<>>
  <2>1. s \in Seq(Scopes) /\ Len(tc.scopes) # 0
    BY <1>1, StructureFacts DEF Checkers, StructureInv, TypesOK
  <2> QED
    BY <1>1, <2>1, StructureFacts
<1>3. TypesOK'
  BY <1>1, <1>2 DEF StructureInv, TypesOK
<1>4. WellNested(open', src')
  BY <1>1, NestPlain, StructureFacts
<1>5. \A kinds : Count(open', src', kinds) = Count(open, src, kinds)
  BY <1>1, CountFacts, StructureFacts
<1>6. Numbered(tc')
  BY <1>1 DEF StructureInv, Balanced, SameRegions, Numbered
<1>7. Balanced(tc', open', src')
  BY <1>1, <1>5, <1>6 DEF StructureInv, Balanced, SameRegions
<1> QED
  BY <1>3, <1>4, <1>7 DEF StructureInv

LEMMA OpenStructure ==
    ASSUME StructureInv, NEW t, NEW s, NEW levels, NEW regions, NEW ret,
           Opened(t, s, levels, regions, ret),
           levels = Levels(t.k), regions = RegionCount(t.k), Len(s) = Len(tc.scopes) + levels,
           t.k = "fn" \/ ret = tc.return_type
    PROVE  StructureInv'
<1>1. /\ t \in TokenType /\ t.k \in Openers /\ t.up = Inner(open)
      /\ src' = Append(src, t) /\ open' = Append(open, Len(src) + 1) /\ globals' = globals
      /\ Deeper(tc, tc', s, levels, regions, ret) /\ phase' \in Phases
  BY StructureFacts DEF Opened, Phases
<1>2. /\ tc' \in Checkers /\ tc'.scopes = s /\ tc'.level = tc.level + levels
      /\ Numbered(tc') /\ tc'.region = tc.region + regions /\ tc'.return_type = ret
  BY <1>1 DEF Deeper, StructureInv, Balanced
<1>3. levels = 1 + Step(t.k, Wide) /\ regions = 1 + Step(t.k, {"fn"})
  BY DEF Levels, RegionCount, Step
<1>4. /\ src' \in Seq(TokenType) /\ open' \in Seq(Nat) /\ s \in Seq(Scopes) /\ s # <<>>
      /\ Len(open') = Len(open) + 1
  <2>1. s \in Seq(Scopes) /\ Len(tc.scopes) # 0 /\ Len(tc.scopes) \in Nat
    BY <1>2, StructureFacts DEF Checkers, StructureInv, TypesOK
  <2>1a. levels \in {1, 2}
    BY <1>3 DEF Step
  <2>2. s # <<>>
    BY <2>1, <2>1a
  <2>3. Append(open, Len(src) + 1) \in Seq(Nat) /\ Len(Append(open, Len(src) + 1)) = Len(open) + 1
    BY StructureFacts
  <2>4. Append(src, t) \in Seq(TokenType)
    BY <1>1, StructureFacts
  <2> QED
    BY <1>1, <2>1, <2>2, <2>3, <2>4
<1>5. TypesOK'
  BY <1>1, <1>2, <1>4 DEF StructureInv, TypesOK
<1>6. WellNested(open', src')
  BY <1>1, NestOpen, StructureFacts
<1>7. \A kinds : Count(open', src', kinds) = Count(open, src, kinds) + Step(t.k, kinds)
  BY <1>1, CountPush
<1>8. /\ Count(open', src', Wide) = Count(open, src, Wide) + Step(t.k, Wide)
      /\ Count(open', src', {"fn"}) = Count(open, src, {"fn"}) + Step(t.k, {"fn"})
      /\ Count(open, src, Wide) \in Nat /\ Count(open, src, {"fn"}) \in Nat
  BY <1>7, CountNat
<1>9. Balanced(tc', open', src')
  <2>1. /\ tc.level = Len(tc.scopes) - 1 /\ tc.level = Len(open) + Count(open, src, Wide)
        /\ tc.region = Len(open) + Count(open, src, {"fn"})
        /\ tc.return_type # Null => Count(open, src, {"fn"}) > 0
    BY DEF StructureInv, Balanced
  <2>2. /\ tc'.level = Len(tc'.scopes) - 1 /\ tc'.level = Len(open') + Count(open', src', Wide)
        /\ tc'.region = Len(open') + Count(open', src', {"fn"})
    <3>1. Step(t.k, Wide) \in Nat /\ Step(t.k, {"fn"}) \in Nat
      BY StepNat
    <3>2. Len(open) \in Nat /\ Len(tc.scopes) \in Nat
      BY StructureFacts
    <3>3. Len(tc'.scopes) = Len(tc.scopes) + levels
      BY <1>2
    <3>4. tc'.level = Len(tc'.scopes) - 1
      BY <1>2, <1>3, <2>1, <3>1, <3>2, <3>3
    <3>5. tc'.level = Len(open') + Count(open', src', Wide)
      BY <1>2, <1>3, <1>4, <1>8, <2>1, <3>1, <3>2
    <3>6. tc'.region = Len(open') + Count(open', src', {"fn"})
      BY <1>2, <1>3, <1>4, <1>8, <2>1, <3>1, <3>2
    <3> QED
      BY <3>4, <3>5, <3>6
  <2>3. tc'.return_type # Null => Count(open', src', {"fn"}) > 0
    BY <1>2, <1>8, <2>1 DEF Step
  <2> QED
    BY <1>2, <2>2, <2>3 DEF Balanced
<1> QED
  BY <1>5, <1>6, <1>9 DEF StructureInv

LEMMA EndStructure ==
    ASSUME StructureInv, end_statement
    PROVE  /\ src[Innermost].k \in Openers
           /\ Closed(src[Innermost].k, Levels(src[Innermost].k), RegionCount(src[Innermost].k))
           /\ StructureInv'
<1> DEFINE k == src[Innermost].k
           t == [Met("end", NoName, Null, Null, NoName, Null) EXCEPT !.up = Innermost]
           d == Len(open)
<1>1. open # <<>> /\ d \in Nat \ {0} /\ Innermost = open[d] /\ d \in DOMAIN open
  <2>1. open # <<>>
    BY DEF end_statement
  <2> QED
    BY <2>1, StructureFacts DEF Innermost
<1>2. Innermost \in DOMAIN src /\ k \in Openers
  BY <1>1, StructureFacts DEF WellNested
<1> HIDE DEF k
<1>3. Levels(k) = 1 + Step(k, Wide) /\ RegionCount(k) = 1 + Step(k, {"fn"})
  BY DEF Levels, RegionCount, Step
<1>4. /\ tc.level = Len(tc.scopes) - 1 /\ tc.level = d + Count(open, src, Wide)
      /\ tc.region = d + Count(open, src, {"fn"}) /\ Numbered(tc)
      /\ tc.return_type # Null => Count(open, src, {"fn"}) > 0
  BY DEF StructureInv, Balanced
<1>5. \A kinds : Count(SubSeq(open, 1, d - 1), Append(src, t), kinds) =
                    Count(open, src, kinds) - Step(k, kinds)
  <2> HIDE DEF t
  <2> QED
    BY <1>1, CountPop DEF k
<1>6. \A kinds : Count(SubSeq(open, 1, d - 1), Append(src, t), kinds) \in Nat
  <2>1. t \in TokenType /\ t.k = "end" /\ t.up = Inner(open)
    <3>1. t = Met("end", NoName, Null, Null, NoName, Null)
      BY DEF Met
    <3>2. Met("end", NoName, Null, Null, NoName, Null) \in TokenType
      BY Tokens DEF StructureInv, TokenKinds, TypeOrNull
    <3> QED
      BY <3>1, <3>2, StructureFacts DEF Met
  <2> HIDE DEF t
  <2>2. WellNested(SubSeq(open, 1, d - 1), Append(src, t))
    BY <1>1, <2>1, NestEnd, StructureFacts
  <2>3. SubSeq(open, 1, d - 1) \in Seq(Nat) /\ Append(src, t) \in Seq(TokenType)
    BY <1>1, <2>1, StructureFacts
  <2> QED
    BY <2>2, <2>3, CountFacts
<1>7. /\ Count(open, src, Wide) >= Step(k, Wide) /\ Count(open, src, {"fn"}) >= Step(k, {"fn"})
      /\ Count(open, src, Wide) \in Nat /\ Count(open, src, {"fn"}) \in Nat
  <2> DEFINE c(kinds) == Count(SubSeq(open, 1, d - 1), Append(src, t), kinds)
  <2>1. /\ c(Wide) = Count(open, src, Wide) - Step(k, Wide) /\ c(Wide) \in Nat
        /\ c({"fn"}) = Count(open, src, {"fn"}) - Step(k, {"fn"}) /\ c({"fn"}) \in Nat
        /\ Count(open, src, Wide) \in Nat /\ Count(open, src, {"fn"}) \in Nat
    BY <1>5, <1>6, CountNat
  <2> HIDE DEF c
  <2> QED
    BY <2>1 DEF Step
<1>8. Len(tc.scopes) > Levels(k) /\ tc.region >= RegionCount(k)
  <2>1. Step(k, Wide) \in {0, 1} /\ Step(k, {"fn"}) \in {0, 1}
    BY StepNat
  <2>2. Len(tc.scopes) \in Nat
    BY StructureFacts
  <2> HIDE DEF d
  <2> QED
    BY <1>1, <1>3, <1>4, <1>7, <2>1, <2>2
<1>9. Closed(k, Levels(k), RegionCount(k))
  BY <1>2, <1>4, <1>8, EndEffect DEF StructureInv, k
<1>10. /\ src' = Append(src, t) /\ open' = SubSeq(open, 1, d - 1) /\ globals' = globals
       /\ phase' \in Phases
       /\ Deeper(tc, tc', SubSeq(tc.scopes, 1, Len(tc.scopes) - Levels(k)), -Levels(k),
                 -RegionCount(k), IF k = "fn" THEN Null ELSE tc.return_type)
  BY <1>9 DEF Closed, Phases
<1>11. /\ tc' \in Checkers /\ tc'.scopes = SubSeq(tc.scopes, 1, Len(tc.scopes) - Levels(k))
       /\ tc'.level = tc.level + (-Levels(k)) /\ Numbered(tc')
       /\ tc'.region = tc.region + (-RegionCount(k))
       /\ tc'.return_type = IF k = "fn" THEN Null ELSE tc.return_type
  BY <1>4, <1>10 DEF Deeper
<1>12. t \in TokenType /\ t.k = "end" /\ t.up = Inner(open)
  <2>1. t = Met("end", NoName, Null, Null, NoName, Null)
    BY DEF Met
  <2>2. Met("end", NoName, Null, Null, NoName, Null) \in TokenType
    BY Tokens DEF StructureInv, TokenKinds, TypeOrNull
  <2> QED
    BY <2>1, <2>2, StructureFacts DEF Met
<1> HIDE DEF t
<1>13. /\ src' \in Seq(TokenType) /\ open' \in Seq(Nat) /\ Len(open') = d - 1
       /\ Len(tc'.scopes) = Len(tc.scopes) - Levels(k) /\ tc'.scopes # <<>>
  <2>1. Append(src, t) \in Seq(TokenType)
    BY <1>12, StructureFacts
  <2>2. SubSeq(open, 1, d - 1) \in Seq(Nat) /\ Len(SubSeq(open, 1, d - 1)) = d - 1
    <3>1. 1 \in 1..Len(open)
      BY <1>1
    <3> QED
      BY <3>1, StructureFacts, Popped
  <2>3. Levels(k) \in {1, 2}
    BY DEF Levels
  <2>4. /\ Len(SubSeq(tc.scopes, 1, Len(tc.scopes) - Levels(k))) = Len(tc.scopes) - Levels(k)
        /\ SubSeq(tc.scopes, 1, Len(tc.scopes) - Levels(k)) # <<>>
    BY <1>8, <2>3, StructureFacts
  <2> QED
    BY <1>10, <1>11, <2>1, <2>2, <2>4
<1>14. TypesOK'
  BY <1>10, <1>11, <1>13 DEF StructureInv, TypesOK
<1>15. WellNested(open', src')
  BY <1>1, <1>10, <1>12, NestEnd, StructureFacts
<1>16. Balanced(tc', open', src')
  <2>1. /\ Count(open', src', Wide) = Count(open, src, Wide) - Step(k, Wide)
        /\ Count(open', src', {"fn"}) = Count(open, src, {"fn"}) - Step(k, {"fn"})
    BY <1>5, <1>10
  <2>2. /\ tc'.level = Len(tc'.scopes) - 1 /\ tc'.level = Len(open') + Count(open', src', Wide)
        /\ tc'.region = Len(open') + Count(open', src', {"fn"})
    <3>1. Step(k, Wide) \in Nat /\ Step(k, {"fn"}) \in Nat
      BY StepNat
    <3>2. Len(tc.scopes) \in Nat /\ Levels(k) \in Nat
      BY <1>3, <3>1, StructureFacts
    <3>3. d \in Nat /\ tc.level \in Int /\ tc.region \in Nat
      BY <1>1, StructureFacts
    <3> DEFINE wide == Count(open, src, Wide)
               fns == Count(open, src, {"fn"})
               x == Step(k, Wide)
               y == Step(k, {"fn"})
    <3>a. /\ wide \in Nat /\ fns \in Nat /\ x \in Nat /\ y \in Nat
          /\ Count(open', src', Wide) = wide - x /\ Count(open', src', {"fn"}) = fns - y
      BY <1>7, <2>1, <3>1
    <3>b. tc.level = d + wide /\ tc'.level = tc.level - Levels(k) /\ Levels(k) = 1 + x
      BY <1>3, <1>4, <1>11, <3>2, <3>3
    <3>c. tc.region = d + fns /\ tc'.region = tc.region - RegionCount(k) /\ RegionCount(k) = 1 + y
      BY <1>3, <1>4, <1>11, <3>1, <3>3
    <3>d. Len(open') = d - 1
      BY <1>13
    <3> DEFINE l == Levels(k)
               scopes == Len(tc.scopes)
               left == Len(tc'.scopes)
    <3>e. scopes \in Nat /\ l \in Nat /\ left = scopes - l /\ tc.level = scopes - 1
      BY <1>4, <1>13, <3>2
    <3>f. tc'.level = tc.level - l
      BY <3>b
    <3> HIDE DEF d, wide, fns, x, y, k, l, scopes, left
    <3>g. tc'.level = left - 1
      BY <3>e, <3>f
    <3>4. tc'.level = Len(tc'.scopes) - 1
      BY <3>g DEF left
    <3>5. tc'.level = Len(open') + Count(open', src', Wide)
      BY <3>3, <3>a, <3>b, <3>d
    <3>6. tc'.region = Len(open') + Count(open', src', {"fn"})
      BY <3>3, <3>a, <3>c, <3>d
    <3> QED
      BY <3>4, <3>5, <3>6
  <2>3. tc'.return_type # Null => Count(open', src', {"fn"}) > 0
    BY <1>4, <1>7, <1>11, <2>1 DEF Step
  <2> QED
    BY <1>11, <2>2, <2>3 DEF Balanced
<1> QED
  BY <1>2, <1>9, <1>14, <1>15, <1>16 DEF StructureInv, k

\* The number of scopes each action leaves.
LEMMA TypesStructure ==
    ASSUME StructureInv, TypesNext
    PROVE  StructureInv'
<1>0. TypesOK /\ tc.scopes \in Seq(Scopes) /\ tc.scopes # <<>> /\ Len(tc.scopes) \in Nat
  BY StructureFacts DEF StructureInv, TypesOK
<1>1. \A n, type : Len(Bind(tc.scopes, n, type)) = Len(tc.scopes)
  BY <1>0, BindLen
<1>2. \A n, type : Len(Bound(tc.scopes, n, type)) = Len(tc.scopes) + 2
  BY <1>0, BoundFacts
<1>3. CASE check_var_declaration
  <2>1. PICK n \in Vars, a \in Literals \cup {Null}, v \in Literals \cup Names \cup {Null} :
           Plain(Met("var", n, a, v, NoName, Null),
                 Bind(tc.scopes, n, var_type(a, ValueType(tc, v))))
    BY <1>0, <1>3, VarEffect
  <2> QED
    BY <1>1, <2>1, PlainStructure
<1>4. CASE check_expr_statement
  BY <1>0, <1>4, ExprEffect, PlainStructure
<1>5. CASE check_assign_statement
  <2>1. PICK n \in Vars, v \in Literals \cup Names :
           Plain(Met("assign", n, Null, v, NoName, Null),
                 IF lookup_variable(tc, n) = Null THEN Bind(tc.scopes, n, ValueType(tc, v))
                 ELSE tc.scopes)
    BY <1>0, <1>5, AssignEffect
  <2> QED
    BY <1>1, <2>1, PlainStructure
<1>6. CASE check_return_statement
  BY <1>0, <1>6, ReturnEffect, PlainStructure
<1>7. CASE check_block_statement
  <2>1. PICK k \in {"block", "if", "while"} :
           Opened(Met(k, NoName, Null, Null, NoName, Null), Append(tc.scopes, EmptyScope),
                  1, 1, tc.return_type)
    BY <1>0, <1>7, BlockEffect
  <2>2. Levels(k) = 1 /\ RegionCount(k) = 1
    BY DEF Levels, RegionCount, Wide, Binders
  <2>3. Len(Append(tc.scopes, EmptyScope)) = Len(tc.scopes) + 1
    BY <1>0
  <2> QED
    BY <2>1, <2>2, <2>3, OpenStructure DEF Met
<1>8. CASE check_parallel_statement
  <2>1. Opened(Met("parallel", NoName, Null, Null, NoName, Null),
               Append(Append(tc.scopes, EmptyScope), EmptyScope), 2, 1, tc.return_type)
    BY <1>0, <1>8, ParallelEffect
  <2>2. Levels("parallel") = 2 /\ RegionCount("parallel") = 1
    BY DEF Levels, RegionCount, Wide
  <2>3. Len(Append(Append(tc.scopes, EmptyScope), EmptyScope)) = Len(tc.scopes) + 2
    <3>1. EmptyScope \in Scopes
      BY DEF EmptyScope, Scopes
    <3> HIDE DEF EmptyScope
    <3> QED
      BY <1>0, <3>1
  <2> QED
    BY <2>1, <2>2, <2>3, OpenStructure DEF Met
<1>9. CASE check_for_statement
  <2>1. PICK n \in Vars, v \in Literals \cup Names :
           Opened(Met("for", n, Null, v, NoName, Null),
                  Bound(tc.scopes, n, var_type(Null, ValueType(tc, v))), 2, 1, tc.return_type)
    BY <1>0, <1>9, ForEffect
  <2>2. Levels("for") = 2 /\ RegionCount("for") = 1
    BY DEF Levels, RegionCount, Wide, Binders
  <2> QED
    BY <1>2, <2>1, <2>2, OpenStructure DEF Met
<1>10. CASE check_concurrent_statement \/ check_task_statement \/ check_worker_statement
            \/ check_frame_method
  <2>1. PICK k \in {"concurrent", "task", "worker", "method"}, n \in Vars,
              a \in Literals \cup {Null} :
           Opened(Met(k, n, a, Null, NoName, Null), Bound(tc.scopes, n, BoundType(k, a)),
                  2, 1, tc.return_type)
    BY <1>0, <1>10, BinderEffect
  <2>2. Levels(k) = 2 /\ RegionCount(k) = 1
    BY DEF Levels, RegionCount, Wide, Binders
  <2> QED
    BY <1>2, <2>1, <2>2, OpenStructure DEF Met
<1>11. CASE check_function_declaration
  <2>1. PICK f \in Fns, n \in Vars, a \in {"Any", "List"}, ret \in {"Any", "Int"} :
           Opened(Met("fn", n, a, Null, f, ret),
                  Bound(Bind(tc.scopes, f, "Function"), n, a), 2, 2, ret)
    BY <1>0, <1>11, FunctionEffect
  <2>2. Levels("fn") = 2 /\ RegionCount("fn") = 2
    BY DEF Levels, RegionCount, Wide, Binders
  <2> DEFINE b == Bind(tc.scopes, f, "Function")
             S == Scopes \cup {Put(tc.scopes[Len(tc.scopes)], f, "Function")}
  <2>3. b \in Seq(S) /\ Len(b) = Len(tc.scopes)
    BY <1>0, BindLen
  <2> HIDE DEF b, S
  <2>4. Len(Bound(b, n, a)) = Len(b) + 2
    BY <2>3, BoundFacts
  <2> QED
    BY <2>1, <2>2, <2>3, <2>4, OpenStructure DEF Met, b
<1>12. CASE end_statement
  BY <1>12, EndStructure
<1>13. CASE finish_types
  BY <1>13 DEF finish_types, StructureInv, TypesOK, WellNested, Balanced, Phases, Numbered, Count,
     Ended
<1> QED
  BY <1>3, <1>4, <1>5, <1>6, <1>7, <1>8, <1>9, <1>10, <1>11, <1>12, <1>13 DEF TypesNext

\* The memory checker reads the program.
LEMMA MemoryReads ==
    ASSUME [MemoryNext]_<<vars, memoryVars>>
    PROVE  TypesNext \/ (UNCHANGED <<tc, open, globals, src>> /\ phase' \in {phase, "accepted", "rejected"})
  BY DEF MemoryNext, vars, memory_var, memory_expr, memory_nothing, memory_unseen, memory_block,
     memory_for, memory_end, memory_done, At

LEMMA InitStructure == Init => StructureInv
<1> SUFFICES ASSUME Init PROVE StructureInv
  OBVIOUS
<1> DEFINE scope == [n \in Names |-> IF n \in globals THEN "Function" ELSE Absent]
<1>1. /\ globals \in SUBSET Fns /\ open = <<>> /\ src = <<>> /\ phase = "types" /\ tc = Fresh
  BY DEF Init
<1>2. scope \in Scopes
  BY DEF Scopes, TypeOrNull, Types
<1>3. /\ Fresh.scopes = <<scope>> /\ Fresh.level = 0 /\ Fresh.region = 0
      /\ Fresh.region_stack = <<>> /\ Fresh.generation = 0 /\ Fresh.return_type = Null
      /\ Fresh.errors = {}
  BY DEF Fresh
<1>4. Fresh \in Checkers
  <2>1. <<scope>> \in Seq(Scopes)
    BY <1>2
  <2>2. [n \in Names |-> IF n \in globals THEN [state |-> "owned", region |-> 0] ELSE NoInfo]
          \in [Names -> Infos]
    BY DEF Infos, NoInfo
  <2>3. [n \in Names |-> NotLinear] \in [Names -> LinearInfos]
    BY DEF NotLinear, LinearInfos
  <2>4. [n \in Names |-> NoReference] \in [Names -> ReferenceInfos]
    BY DEF NoReference, ReferenceInfos
  <2>5. Null \in TypeOrNull
    BY DEF TypeOrNull
  <2> HIDE DEF scope
  <2> QED
    BY <2>1, <2>2, <2>3, <2>4, <2>5 DEF Fresh, Checkers, scope
<1> HIDE DEF scope
<1>5. TypesOK
  BY <1>1, <1>3, <1>4 DEF TypesOK, Phases
<1>6. WellNested(open, src)
  BY <1>1 DEF WellNested
<1>7. \A kinds : Count(open, src, kinds) = 0
  <2> TAKE kinds
  <2>1. {i \in DOMAIN open : src[open[i]].k \in kinds} = {}
    BY <1>1
  <2> QED
    BY <2>1, FS_EmptySet DEF Count
<1>8. Balanced(tc, open, src)
  <2>1. Len(tc.scopes) = 1 /\ Len(open) = 0
    BY <1>1, <1>3
  <2> QED
    BY <1>1, <1>3, <1>7, <2>1 DEF Balanced, Numbered
<1> QED
  BY <1>5, <1>6, <1>8 DEF StructureInv

\* Scopes, regions and statements are in step in every state that the two
\* checkers reach.
THEOREM StructureInvariant == MemorySpec => []StructureInv
<1>1. MemoryInit => StructureInv
  BY InitStructure DEF MemoryInit
<1>2. StructureInv /\ [MemoryNext]_<<vars, memoryVars>> => StructureInv'
  <2> SUFFICES ASSUME StructureInv, [MemoryNext]_<<vars, memoryVars>> PROVE StructureInv'
    OBVIOUS
  <2>1. CASE TypesNext
    BY <2>1, TypesStructure
  <2>2. CASE UNCHANGED <<tc, open, globals, src>> /\ phase' \in {phase, "accepted", "rejected"}
    BY <2>2 DEF StructureInv, TypesOK, WellNested, Balanced, Phases, Numbered, Count, Ended
  <2> QED
    BY <2>1, <2>2, MemoryReads
<1> QED
  BY <1>1, <1>2, PTL DEF MemorySpec

\* Every path through the walk leaves as many scopes and memory regions as it
\* entered, the numbers of the regions are their depths, and a return type is
\* set only inside a function (enter_scope, exit_scope, enter_memory_region and
\* exit_memory_region, as the statements of statements.cpp call them).
THEOREM RegionsMatched == MemorySpec => []RegionsMatch
<1>1. StructureInv => RegionsMatch
  <2> SUFFICES ASSUME StructureInv PROVE RegionsMatch
    OBVIOUS
  <2>1. Balanced(tc, open, src)
    BY DEF StructureInv
  <2>2. \A kinds : Cardinality({i \in DOMAIN open : src[open[i]].k \in kinds}) = Count(open, src, kinds)
    BY DEF Count
  <2>3. tc.region = Len(tc.region_stack)
    BY <2>1 DEF Balanced, Numbered
  <2> QED
    BY <2>1, <2>2, <2>3 DEF RegionsMatch, Balanced, Numbered, Wide
<1> QED
  BY <1>1, StructureInvariant, PTL

(***************************************************************************)
(* Returns.                                                                 *)
(***************************************************************************)
\* token e ends a function
EndsFn(s, e) == s[e].k = "end" /\ s[s[e].up].k = "fn"

\* f is the last function of s, and none has ended since
LastFn(s, f) ==
    /\ s[f].k = "fn"
    /\ \A g \in DOMAIN s : g > f => s[g].k # "fn"
    /\ \A e \in DOMAIN s : e >= f => ~EndsFn(s, e)

Returning(s, type) ==
    /\ \A f \in DOMAIN s : s[f].k = "fn" => s[f].ret # Null
    /\ \A f \in DOMAIN s : LastFn(s, f) => type = s[f].ret

\* a token that is neither a function nor the end of one
LEMMA ReturningSame ==
    ASSUME NEW o, NEW s \in Seq(TokenType), WellNested(o, s), NEW type, Returning(s, type), NEW t,
           t.k # "fn", t.k # "end"
    PROVE  Returning(Append(s, t), type)
<1> DEFINE r == Append(s, t)
           n == Len(s)
<1>1. /\ n \in Nat /\ DOMAIN s = 1..n /\ DOMAIN r = 1..(n + 1) /\ r[n + 1] = t
      /\ \A e \in 1..n : r[e] = s[e]
  OBVIOUS
<1>1a. \A e \in 1..n : s[e].up \in Nat /\ s[e].up < e /\ (s[e].k = "end" => s[e].up # 0)
  BY <1>1, TokenFields DEF WellNested
<1> HIDE DEF r, n
<1>2. \A f \in 1..n : LastFn(r, f) => LastFn(s, f)
  <2> SUFFICES ASSUME NEW f \in 1..n, LastFn(r, f) PROVE LastFn(s, f)
    OBVIOUS
  <2>1. s[f].k = "fn"
    BY <1>1 DEF LastFn
  <2>2. ASSUME NEW g \in DOMAIN s, g > f PROVE s[g].k # "fn"
    BY <1>1, <2>2 DEF LastFn
  <2>3. ASSUME NEW e \in DOMAIN s, e >= f, EndsFn(s, e) PROVE FALSE
    <3>1. e \in 1..n /\ e \in DOMAIN r /\ s[e].up \in 1..n
      BY <1>1, <1>1a, <2>3 DEF EndsFn
    <3>2. EndsFn(r, e)
      BY <1>1, <2>3, <3>1 DEF EndsFn
    <3> QED
      BY <2>3, <3>1, <3>2 DEF LastFn
  <2> QED
    BY <2>1, <2>2, <2>3 DEF LastFn
<1> QED
  BY <1>1, <1>2 DEF Returning, LastFn, r

\* a function, or the end of a statement
LEMMA ReturningFn ==
    ASSUME NEW s \in Seq(TokenType), NEW type, NEW type2, Returning(s, type), NEW t, t.k = "fn",
           t.ret = type2, type2 # Null
    PROVE  Returning(Append(s, t), type2)
<1> DEFINE r == Append(s, t)
           n == Len(s)
<1>1. /\ n \in Nat /\ DOMAIN s = 1..n /\ DOMAIN r = 1..(n + 1) /\ r[n + 1] = t
      /\ \A e \in 1..n : r[e] = s[e]
  OBVIOUS
<1> HIDE DEF r, n
<1>2. \A f \in 1..n : ~LastFn(r, f)
  BY <1>1 DEF LastFn
<1> QED
  BY <1>1, <1>2 DEF Returning, r

LEMMA ReturningEnd ==
    ASSUME NEW o, NEW s \in Seq(TokenType), WellNested(o, s), NEW type, Returning(s, type), NEW t,
           t.k = "end", t.up \in DOMAIN s
    PROVE  Returning(Append(s, t), IF s[t.up].k = "fn" THEN Null ELSE type)
<1> DEFINE r == Append(s, t)
           n == Len(s)
<1>1. /\ n \in Nat /\ DOMAIN s = 1..n /\ DOMAIN r = 1..(n + 1) /\ r[n + 1] = t
      /\ \A e \in 1..n : r[e] = s[e]
  OBVIOUS
<1>1a. \A e \in 1..n : s[e].up \in Nat /\ s[e].up < e /\ (s[e].k = "end" => s[e].up # 0)
  BY <1>1, TokenFields DEF WellNested
<1> HIDE DEF r, n
<1>2. CASE s[t.up].k = "fn"
  <2>1. EndsFn(r, n + 1)
    BY <1>1, <1>2 DEF EndsFn
  <2>2. \A f \in DOMAIN r : ~LastFn(r, f)
    BY <1>1, <2>1 DEF LastFn
  <2>3. \A f \in DOMAIN r : r[f].k = "fn" => r[f].ret # Null
    BY <1>1 DEF Returning
  <2> QED
    BY <2>2, <2>3 DEF Returning, r
<1>3. CASE s[t.up].k # "fn"
  <2>1. \A f \in 1..n : LastFn(r, f) => LastFn(s, f)
    <3> SUFFICES ASSUME NEW f \in 1..n, LastFn(r, f) PROVE LastFn(s, f)
      OBVIOUS
    <3>1. s[f].k = "fn"
      BY <1>1 DEF LastFn
    <3>2. ASSUME NEW g \in DOMAIN s, g > f PROVE s[g].k # "fn"
      BY <1>1, <3>2 DEF LastFn
    <3>3. ASSUME NEW e \in DOMAIN s, e >= f, EndsFn(s, e) PROVE FALSE
      <4>1. e \in 1..n /\ e \in DOMAIN r /\ s[e].up \in 1..n
        BY <1>1, <1>1a, <3>3 DEF EndsFn
      <4>2. EndsFn(r, e)
        BY <1>1, <3>3, <4>1 DEF EndsFn
      <4> QED
        BY <3>3, <4>1, <4>2 DEF LastFn
    <3> QED
      BY <3>1, <3>2, <3>3 DEF LastFn
  <2>2. \A f \in DOMAIN r : LastFn(r, f) => f \in 1..n
    BY <1>1 DEF LastFn
  <2>3. \A f \in DOMAIN r : r[f].k = "fn" => r[f].ret # Null
    BY <1>1 DEF Returning
  <2>4. \A f \in DOMAIN r : LastFn(r, f) => type = r[f].ret
    BY <1>1, <2>1, <2>2 DEF Returning
  <2> QED
    BY <1>3, <2>3, <2>4 DEF Returning, r
<1> QED
  BY <1>2, <1>3

\* The functions around a return, as ReturnsChecked looks for them.
LEMMA FunctionAround ==
    ASSUME NEW o, NEW s \in Seq(TokenType), WellNested(o, s), NEW q \in DOMAIN s, NEW m,
           m = Max({0} \cup {p \in 1..(q - 1) : s[p].k = "fn" /\ ~Ended(s, p, q)}),
           m # 0, \A e \in m..q : ~EndsFn(s, e)
    PROVE  /\ m \in 1..(q - 1) /\ s[m].k = "fn"
           /\ \A g \in 1..(q - 1) : g > m => s[g].k # "fn"
<1> DEFINE F == {0} \cup {p \in 1..(q - 1) : s[p].k = "fn" /\ ~Ended(s, p, q)}
<1>1. q \in Nat /\ q <= Len(s) /\ Len(s) \in Nat /\ DOMAIN s = 1..Len(s)
  OBVIOUS
<1>2. m \in F /\ \A y \in F : y <= m
  <2>1. F \in SUBSET Nat /\ F # {} /\ \A y \in F : y <= q
    BY <1>1
  <2>2. m = Max(F)
    OBVIOUS
  <2> HIDE DEF F
  <2> QED
    BY <1>1, <2>1, <2>2, MaxBounded
<1>3. m \in 1..(q - 1) /\ s[m].k = "fn"
  BY <1>2
<1>4. ASSUME NEW g \in 1..(q - 1), g > m, s[g].k = "fn" PROVE FALSE
  <2>1. g \notin F
    BY <1>1, <1>2, <1>3, <1>4
  <2>2. PICK e \in 1..q : s[e].k = "end" /\ s[e].up = g
    BY <1>4, <2>1 DEF Ended
  <2>3. g < e
    <3>1. e \in DOMAIN s
      BY <1>1, <2>2
    <3> QED
      BY <2>2, <3>1 DEF WellNested
  <2>4. e \in m..q
    BY <1>1, <1>3, <1>4, <2>3
  <2> QED
    BY <1>4, <2>2, <2>4 DEF EndsFn
<1> QED
  BY <1>3, <1>4

\* ReturnsChecked, of the token q of the program s
ReturnChecked(s, errors, q) ==
    LET f == Max({0} \cup {p \in 1..(q - 1) : s[p].k = "fn" /\ ~Ended(s, p, q)})
        type == IF s[q].v \in Literals THEN s[q].v ELSE s[q].ty
    IN  /\ s[q].k = "return" /\ f # 0 /\ type # Null
        /\ ~is_type_compatible(s[f].ret, type)
        /\ \A e \in f..q : ~EndsFn(s, e)
        => \E e \in errors : e.at = q

ReturnInv == StructureInv /\ Returning(src, tc.return_type) /\ ReturnsChecked

\* Only the newest token is looked at.
LEMMA NoReturn ==
    ASSUME StructureInv, NEW t \in TokenType, src' = Append(src, t), t.k # "return"
    PROVE  ReturnsChecked'
<1>1. Len(src') = Len(src) + 1 /\ src'[Len(src')] = t
  BY StructureFacts
<1>2. \A q \in Newest' : q = Len(src')
  BY DEF Newest
<1> QED
  BY <1>1, <1>2 DEF ReturnsChecked

LEMMA MetKind ==
    \A k, n, a, v, f, ret : Met(k, n, a, v, f, ret).k = k /\ Met(k, n, a, v, f, ret).ret = ret
  BY DEF Met

LEMMA PlainReturning ==
    ASSUME ReturnInv, NEW t, NEW s, Plain(t, s), t.k # "return"
    PROVE  Returning(src', tc'.return_type) /\ ReturnsChecked'
<1>1. /\ t \in TokenType /\ t.k \notin {"fn", "end"} /\ src' = Append(src, t)
      /\ tc'.return_type = tc.return_type
  BY DEF Plain, SameRegions, Openers
<1>2. Returning(Append(src, t), tc.return_type)
  BY <1>1, ReturningSame, StructureFacts DEF ReturnInv
<1> QED
  BY <1>1, <1>2, NoReturn DEF ReturnInv

LEMMA OpenReturning ==
    ASSUME ReturnInv, NEW t, NEW s, NEW levels, NEW regions, NEW ret,
           Opened(t, s, levels, regions, ret), t.k # "fn" => ret = tc.return_type,
           t.k = "fn" => ret = t.ret /\ ret # Null
    PROVE  Returning(src', tc'.return_type) /\ ReturnsChecked'
<1>1. /\ t \in TokenType /\ t.k \notin {"end", "return"} /\ src' = Append(src, t)
      /\ tc'.return_type = ret
  BY DEF Opened, Deeper, Openers, Binders
<1>2. CASE t.k = "fn"
  BY <1>1, <1>2, ReturningFn, NoReturn, StructureFacts DEF ReturnInv
<1>3. CASE t.k # "fn"
  BY <1>1, <1>3, ReturningSame, NoReturn, StructureFacts DEF ReturnInv
<1> QED
  BY <1>2, <1>3

LEMMA EndReturning ==
    ASSUME ReturnInv, end_statement
    PROVE  Returning(src', tc'.return_type) /\ ReturnsChecked'
<1> DEFINE t == [Met("end", NoName, Null, Null, NoName, Null) EXCEPT !.up = Innermost]
           k == src[Innermost].k
<1>1. k \in Openers /\ Closed(k, Levels(k), RegionCount(k)) /\ StructureInv'
  BY EndStructure DEF ReturnInv
<1>2. /\ src' = Append(src, t) /\ t.k = "end" /\ t.up = Innermost /\ open # <<>>
      /\ tc'.return_type = IF k = "fn" THEN Null ELSE tc.return_type
  BY <1>1 DEF Closed, Deeper, Met
<1> HIDE DEF t
<1>3. Innermost \in DOMAIN src
  <2>1. Len(open) \in DOMAIN open /\ Innermost = open[Len(open)]
    BY <1>2, StructureFacts DEF ReturnInv, Innermost
  <2> QED
    BY <2>1, StructureFacts DEF ReturnInv, WellNested
<1>4. Returning(Append(src, t), IF src[t.up].k = "fn" THEN Null ELSE tc.return_type)
  BY <1>2, <1>3, ReturningEnd, StructureFacts DEF ReturnInv
<1>5. ReturnsChecked'
  <2>1. t \in TokenType
    <3>1. src' \in Seq(TokenType) /\ Len(src') = Len(src) + 1 /\ src'[Len(src) + 1] = t
          /\ Len(src) \in Nat
      BY <1>1, <1>2, StructureFacts DEF ReturnInv, StructureInv, TypesOK
    <3> QED
      BY <3>1
  <2> QED
    BY <1>2, <2>1, NoReturn DEF ReturnInv
<1> QED
  BY <1>2, <1>4, <1>5

LEMMA ReturnReturning ==
    ASSUME ReturnInv, StructureInv', check_return_statement
    PROVE  Returning(src', tc'.return_type) /\ ReturnsChecked'
<1>1. PICK v \in Literals \cup Names :
         /\ Plain(Met("return", NoName, Null, v, NoName, Null), tc.scopes)
         /\ tc.return_type # Null /\ ValueType(tc, v) # Null
               /\ ~is_type_compatible(tc.return_type, ValueType(tc, v)) =>
            \E e \in tc'.errors : e.at = Len(src) + 1
  BY ReturnEffect DEF ReturnInv, StructureInv
<1> DEFINE t == Met("return", NoName, Null, v, NoName, Null)
           r == Append(src, t)
           n == Len(src)
<1>2. /\ t \in TokenType /\ src' = r /\ tc'.return_type = tc.return_type
      /\ src \in Seq(TokenType) /\ WellNested(open, src)
  BY <1>1, StructureFacts DEF Plain, SameRegions, ReturnInv
<1>3. /\ t.k = "return" /\ t.v = v
      /\ t.ty = IF v \in Names THEN check_variable_expr(tc, v).type ELSE Null
  BY DEF Met
<1>4. Returning(src', tc'.return_type)
  BY <1>2, <1>3, ReturningSame DEF ReturnInv
<1>5. /\ n \in Nat /\ DOMAIN src = 1..n /\ DOMAIN src' = 1..(n + 1) /\ Len(src') = n + 1
      /\ src'[n + 1] = t /\ \A e \in 1..n : src'[e] = src[e]
  BY <1>2
<1> HIDE DEF t, r, n
<1>6. (IF v \in Literals THEN v ELSE t.ty) = ValueType(tc, v)
  <2>1. v # Null
    BY NamesAssumption DEF Literals, Null
  <2> QED
    BY <1>3, <2>1 DEF ValueType
<1>7. ReturnsChecked'
  <2> DEFINE q == n + 1
             f == Max({0} \cup {p \in 1..(q - 1) : src'[p].k = "fn" /\ ~Ended(src', p, q)})
  <2>a. (\A x \in Newest' : x = q) /\ src'[q].k = "return" /\ src'[q].v = v /\ src'[q].ty = t.ty
    BY <1>3, <1>5 DEF Newest
  <2>b. ReturnsChecked' <=> \A x \in Newest' : ReturnChecked(src', tc'.errors, x)
    BY DEF ReturnsChecked, ReturnChecked, ReportedAt, EndsFn, FunctionOf, EndedBy, Ended
  <2> SUFFICES ASSUME f # 0, ValueType(tc, v) # Null,
                      ~is_type_compatible(src'[f].ret, ValueType(tc, v)),
                      \A e \in f..q : ~EndsFn(src', e)
               PROVE  \E e \in tc'.errors : e.at = q
    <3>1. ReturnChecked(src', tc'.errors, q)
      BY <1>6, <2>a DEF ReturnChecked
    <3> QED
      BY <2>a, <2>b, <3>1
  <2>1. f \in 1..(q - 1) /\ src'[f].k = "fn" /\ \A g \in 1..(q - 1) : g > f => src'[g].k # "fn"
    <3>1. q \in DOMAIN src' /\ src' \in Seq(TokenType) /\ WellNested(open', src')
      BY <1>5 DEF StructureInv, TypesOK
    <3>2. f = Max({0} \cup {p \in 1..(q - 1) : src'[p].k = "fn" /\ ~Ended(src', p, q)})
      OBVIOUS
    <3>3. f # 0 /\ \A e \in f..q : ~EndsFn(src', e)
      OBVIOUS
    <3> HIDE DEF f, q
    <3>4. f \in 1..(q - 1)
      BY ONLY <3>1, <3>2, <3>3, FunctionAround
    <3>5. src'[f].k = "fn"
      BY ONLY <3>1, <3>2, <3>3, FunctionAround
    <3>6. \A g \in 1..(q - 1) : g > f => src'[g].k # "fn"
      BY ONLY <3>1, <3>2, <3>3, FunctionAround
    <3> QED
      BY <3>4, <3>5, <3>6
  <2> HIDE DEF f
  <2>2. f \in 1..n /\ src[f].k = "fn" /\ src'[f] = src[f] /\ \A g \in 1..n : g > f => src[g].k # "fn"
    BY <1>5, <2>1
  <2>3. ASSUME NEW e \in DOMAIN src, e >= f, EndsFn(src, e) PROVE FALSE
    <3>1. src[e].up \in 1..n
      <4>1. src[e].up \in Nat /\ src[e].up < e /\ src[e].up # 0
        BY <1>2, <2>3, TokenFields DEF WellNested, EndsFn
      <4> QED
        BY <1>5, <4>1
    <3>2. EndsFn(src', e) /\ e \in f..q
      BY <1>5, <2>2, <2>3, <3>1 DEF EndsFn
    <3> QED
      BY <3>2
  <2>4. LastFn(src, f)
    BY <1>5, <2>2, <2>3 DEF LastFn
  <2>5. tc.return_type = src[f].ret /\ src[f].ret # Null
    BY <1>5, <2>2, <2>4 DEF ReturnInv, Returning
  <2> QED
    BY <1>1, <2>2, <2>5 DEF n
<1> QED
  BY <1>4, <1>7

LEMMA TypesReturning ==
    ASSUME ReturnInv, TypesNext, StructureInv'
    PROVE  Returning(src', tc'.return_type) /\ ReturnsChecked'
<1>0. TypesOK
  BY DEF ReturnInv, StructureInv
<1>3. CASE check_var_declaration
  BY <1>0, <1>3, VarEffect, PlainReturning, MetKind
<1>4. CASE check_expr_statement
  BY <1>0, <1>4, ExprEffect, PlainReturning, MetKind
<1>5. CASE check_assign_statement
  BY <1>0, <1>5, AssignEffect, PlainReturning, MetKind
<1>6. CASE check_return_statement
  BY <1>6, ReturnReturning
<1>7. CASE check_block_statement
  BY <1>0, <1>7, BlockEffect, OpenReturning, MetKind
<1>8. CASE check_parallel_statement
  BY <1>0, <1>8, ParallelEffect, OpenReturning, MetKind
<1>9. CASE check_for_statement
  BY <1>0, <1>9, ForEffect, OpenReturning, MetKind
<1>10. CASE check_concurrent_statement \/ check_task_statement \/ check_worker_statement
            \/ check_frame_method
  BY <1>0, <1>10, BinderEffect, OpenReturning, MetKind
<1>11. CASE check_function_declaration
  BY <1>0, <1>11, FunctionEffect, OpenReturning, MetKind DEF Null
<1>12. CASE end_statement
  BY <1>12, EndReturning
<1>13. CASE finish_types
  <2>1. UNCHANGED <<tc, open, globals, src>> /\ phase' \in {"memory", "rejected"}
    BY <1>13 DEF finish_types
  <2>2. Newest' = {}
    BY <2>1 DEF Newest
  <2> QED
    BY <2>1, <2>2 DEF ReturnInv, ReturnsChecked
<1> QED
  BY <1>3, <1>4, <1>5, <1>6, <1>7, <1>8, <1>9, <1>10, <1>11, <1>12, <1>13 DEF TypesNext

\* A return is compared with the return type of its own function, whatever
\* functions were met before, as long as none has ended inside this one
\* (check_function_declaration saves no outer type: current_return_type is null
\* once the inner function has ended).
THEOREM ReturnTypesChecked == MemorySpec => []ReturnsChecked
<1>1. MemoryInit => Returning(src, tc.return_type) /\ ReturnsChecked
  BY DEF MemoryInit, Init, Returning, ReturnsChecked, Newest, Positions
<1>2. ReturnInv /\ StructureInv' /\ [MemoryNext]_<<vars, memoryVars>> =>
         Returning(src', tc'.return_type) /\ ReturnsChecked'
  <2> SUFFICES ASSUME ReturnInv, StructureInv', [MemoryNext]_<<vars, memoryVars>>
               PROVE  Returning(src', tc'.return_type) /\ ReturnsChecked'
    OBVIOUS
  <2>1. CASE TypesNext
    BY <2>1, TypesReturning
  <2>2. CASE UNCHANGED <<tc, open, globals, src>> /\ phase' \in {phase, "accepted", "rejected"}
    <3>1. Newest' = Newest \/ Newest' = {}
      BY <2>2 DEF Newest, Positions
    <3> QED
      BY <2>2, <3>1 DEF ReturnInv, ReturnsChecked, FunctionOf, EndedBy, ReportedAt
  <2> QED
    BY <2>1, <2>2, MemoryReads
<1>3. (Returning(src, tc.return_type))' <=> Returning(src', tc'.return_type)
  OBVIOUS
<1> QED
  BY <1>1, <1>2, <1>3, StructureInvariant, PTL DEF MemorySpec, ReturnInv
=============================================================================
