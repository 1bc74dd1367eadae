--------------------------------- MODULE Map ----------------------------------
(***************************************************************************)
(* What a dict promises: it is a map from keys to values.                  *)
(***************************************************************************)
EXTENDS FiniteSets

CONSTANTS Keys, Values, Nil
VARIABLES map, answer

Init == map = [k \in {} |-> Nil] /\ answer = << "none" >>

Lookup(k) == IF k \in DOMAIN map THEN map[k] ELSE Nil

Set(k, v)   == map' = [x \in DOMAIN map \cup {k} |-> IF x = k THEN v ELSE map[x]] /\ answer' = << "none" >>
Get(k)      == answer' = << "value", Lookup(k) >> /\ UNCHANGED map
Contains(k) == answer' = << "truth", Lookup(k) # Nil >> /\ UNCHANGED map
Items       == answer' = << "items", { << k, map[k] >> : k \in DOMAIN map }, Cardinality(DOMAIN map) >> /\ UNCHANGED map
Free        == map' = [k \in {} |-> Nil] /\ answer' = << "none" >>

Next == \/ Free
        \/ Items
        \/ \E k \in Keys : Get(k) \/ Contains(k)
        \/ \E k \in Keys, v \in Values : Set(k, v)

Spec == Init /\ [][Next]_<< map, answer >>
==============================================================================
