------------------------------ MODULE Containers ------------------------------
(***************************************************************************)
(* The dicts and tuples of the run-time library (src/runtime/              *)
(* runtime_dict.c, runtime_tuple.c), called by compiled code in any order. *)
(* Allocation does not fail.                                               *)
(***************************************************************************)
EXTENDS RuntimeValue, FiniteSets

CONSTANTS INITIAL_BUCKET_COUNT,
          Objects,                  \* the heap the keys point into
          DictKeys, DictValues,     \* words used as keys and values; floats are not keys
          MAX_SIZE                  \* bound on the elements of a tuple

\* The keys are words, and no floats; their hashes are unsigned.
ASSUME KeysAssumption ==
  /\ INITIAL_BUCKET_COUNT \in Nat \ {0} /\ MAX_SIZE \in Nat
  /\ \A key \in DictKeys : /\ key.k \in {"int", "nil", "bool", "ptr", "zero"}
                           /\ ~is_float(Objects, key)
                           /\ hash_boxed_value(Objects, key) \in Nat

VARIABLES buckets, size,            \* of the dict
          answer,                   \* what the last call on the dict returned
          tuple,
          current_index,            \* of the tuple's iterator
          known                     \* history: what the calls put at each place, "unknown" after a shrink

containerVars == << buckets, size, answer, tuple, current_index, known >>

jit_dict_new == [b \in 0 .. INITIAL_BUCKET_COUNT - 1 |-> <<>>]

Bucket(key) == hash_boxed_value(Objects, key) % INITIAL_BUCKET_COUNT

\* Mutant: only the first entry of a chain is compared.
Hits_head(key) == LET chain == buckets[Bucket(key)]
                  IN {i \in DOMAIN chain \cap {1} : /\ chain[i].hash = hash_boxed_value(Objects, key)
                                                    /\ cmp_boxed_value(Objects, chain[i].key, key) = 0}

\* The places in the chain of the key's bucket that hold the key.
Hits(key) == LET chain == buckets[Bucket(key)]
             IN {i \in DOMAIN chain : /\ chain[i].hash = hash_boxed_value(Objects, key)
                                      /\ cmp_boxed_value(Objects, chain[i].key, key) = 0}
FirstOf(S) == CHOOSE i \in S : \A j \in S : i <= j

\* The value of a known key is replaced; a new key goes to the front of its chain.  The number of
\* buckets never changes.
lm_dict_set(key, value) ==
  /\ IF Hits(key) # {}
     THEN buckets' = [buckets EXCEPT ![Bucket(key)][FirstOf(Hits(key))].value = value] /\ UNCHANGED size
     ELSE /\ buckets' = [buckets EXCEPT ![Bucket(key)] =
                           << [key |-> key, value |-> value, hash |-> hash_boxed_value(Objects, key)] >> \o @]
          /\ size' = size + 1
  /\ answer' = << "none" >> /\ UNCHANGED << tuple, current_index, known >>

Found(key) == IF Hits(key) = {} THEN VAL_NIL ELSE buckets[Bucket(key)][FirstOf(Hits(key))].value

lm_dict_get(key) == answer' = << "value", Found(key) >> /\ UNCHANGED << buckets, size, tuple, current_index, known >>

\* A key whose value is nil counts as absent.
lm_dict_contains(key) == answer' = << "truth", Found(key) # VAL_NIL >> /\ UNCHANGED << buckets, size, tuple, current_index, known >>

\* The number or the text that a word stands for: two words are one key exactly when this is equal.
Identity(key) == IF is_integer(Objects, key) THEN BOX_INT(as_i128(Objects, key))
                 ELSE IF type_id(Objects, key) = "BOX_STRING" THEN [k |-> "string", s |-> Objects[key.at].x]
                 ELSE key

Entries == UNION {Range(buckets[b]) : b \in DOMAIN buckets}

\* The entries in the order of the buckets; the order is left out.
lm_dict_items ==
  /\ answer' = << "items", { << Identity(e.key), e.value >> : e \in Entries }, size >>
  /\ UNCHANGED << buckets, size, tuple, current_index, known >>

\* Free, and a new dict.
lm_dict_free == buckets' = jit_dict_new /\ size' = 0 /\ answer' = << "none" >> /\ UNCHANGED << tuple, current_index, known >>

------------------------------------------------------------------------------
unknown == [k |-> "unknown"]

\* What is known of the places of a tuple that shows n elements.
Known(n) == [i \in 1..n |-> IF i <= Len(known) THEN known[i] ELSE unknown]

TupleSet(index, value) ==
  /\ tuple' = lm_tuple_set(tuple, index, value)
  /\ known' = [i \in 1..tuple'.size |-> IF i = index + 1 THEN value ELSE Known(tuple'.size)[i]]
  /\ UNCHANGED << buckets, size, answer, current_index >>

TupleResize(n) ==
  /\ tuple' = lm_tuple_resize(tuple, n)
  /\ known' = Known(tuple'.size)
  /\ UNCHANGED << buckets, size, answer, current_index >>

TupleAppend(value) ==
  /\ tuple.size < MAX_SIZE
  /\ tuple' = lm_tuple_append(tuple, value)
  /\ known' = Append(known, value)
  /\ UNCHANGED << buckets, size, answer, current_index >>

TupleClear ==
  /\ tuple' = lm_tuple_clear(tuple) /\ known' = <<>>
  /\ UNCHANGED << buckets, size, answer, current_index >>

\* The iterator gives the element under it and moves on, to the end as it is at the time.
lm_tuple_iterator_next ==
  /\ current_index < tuple.size
  /\ current_index' = current_index + 1
  /\ UNCHANGED << buckets, size, answer, tuple, known >>

\* Free, and a new tuple of n elements with an iterator of its own.
TupleFree(n) ==
  /\ tuple' = lm_tuple_new(n) /\ current_index' = 0 /\ known' = [i \in 1..n |-> VAL_NIL]
  /\ UNCHANGED << buckets, size, answer >>

------------------------------------------------------------------------------
ContainersInit ==
  /\ buckets = jit_dict_new /\ size = 0 /\ answer = << "none" >>
  /\ tuple = lm_tuple_new(0) /\ current_index = 0 /\ known = <<>>

DictNext == \/ \E key \in DictKeys, value \in DictValues : lm_dict_set(key, value)
            \/ \E key \in DictKeys : lm_dict_get(key) \/ lm_dict_contains(key)
            \/ lm_dict_items
            \/ lm_dict_free

TupleNext == \/ \E index \in 0 .. MAX_SIZE - 1, value \in DictValues : TupleSet(index, value)
             \/ \E value \in DictValues : TupleAppend(value)
             \/ \E n \in 0 .. MAX_SIZE : TupleResize(n)
             \/ TupleClear
             \/ lm_tuple_iterator_next
             \/ \E n \in 0..2 : TupleFree(n)

DictSpec  == ContainersInit /\ [][DictNext]_containerVars
TupleSpec == ContainersInit /\ [][TupleNext]_containerVars

\* The map a dict stands for.
MapOf == LET Of(k) == (CHOOSE e \in Entries : Identity(e.key) = k).value
         IN [k \in {Identity(e.key) : e \in Entries} |-> Of(k)]

AbstractDict == INSTANCE Map WITH map <- MapOf, answer <- answer,
                  Keys <- {Identity(key) : key \in DictKeys}, Values <- DictValues, Nil <- VAL_NIL

\* A dict is a map: however the keys are boxed, collide in a bucket or share a hash, every get,
\* contains and items answers what the last set of each key says, and no key is entered twice.
DictIsMap == AbstractDict!Spec

\* A tuple keeps its elements: what append and set stored is still there after any growth, and
\* the elements fit in the array.
TupleKeeps ==
  /\ tuple.size <= Len(tuple.elements)
  /\ \A i \in 1..tuple.size : known[i] = unknown \/ lm_tuple_get(tuple, i - 1) = known[i]
==============================================================================
