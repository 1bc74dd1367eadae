----------------------------- MODULE CompileProofs -----------------------------
(***************************************************************************)
(* What is proved of a compilation, for any number of modules, any imports  *)
(* and any faults in them.                                                  *)
(*                                                                          *)
(* First the depth-first search over the imports: it ends, it fails exactly *)
(* where there is a cycle, and if it does not, the order it returns has     *)
(* every name once and after the names it depends on.  Then the calls of    *)
(* __init__ that are taken from the order, the invariant of the             *)
(* compilation, and the theorems.                                           *)
(***************************************************************************)
EXTENDS Compile, NaturalLemmas, FiniteSetTheorems, SequenceTheorems

(***************************************************************************)
(* The search.                                                              *)
(***************************************************************************)
\* What the disk says of the dependencies.
DependenciesOK ==
    \A n \in Names : Dependencies(n) \in Seq(Names) /\ Len(Dependencies(n)) <= MaxImports

Searches == [state : [Names -> 0..2], next : [Names -> Nat], path : Seq(Names),
             order : Seq(Names), ok : BOOLEAN, from : Nat]

\* No name has two places.
Distinct(q) == \A i, j \in 1..Len(q) : q[i] = q[j] => i = j

\* Every name has a place behind those of its dependencies.
Ordered(q) ==
    \A i \in 1..Len(q) : \A k \in 1..Len(Dependencies(q[i])) :
        \E j \in 1..(i - 1) : q[j] = Dependencies(q[i])[k]

\* What every search keeps, one that has failed too.
PlacesOK(s, seq) ==
    /\ s \in Searches
    /\ \A n \in Names : s.next[n] \in 1..(Len(Dependencies(n)) + 1)
    /\ \A n \in Names : s.state[n] = 0 => s.next[n] = 1
    /\ s.from \in 1..(Len(seq) + 1)
    /\ \A p \in 1..Len(s.path) : s.state[s.path[p]] = 1
    /\ Distinct(s.path)

\* What a search keeps that has not failed, in which the visit of name is still to begin, or of
\* no name: the dependencies before the place of a visit are done, but for the one it is at.
Sound(s, seq, name) ==
    /\ \A n \in Names : s.state[n] = 1 => \E p \in 1..Len(s.path) : s.path[p] = n
    /\ \A n \in Names : s.state[n] = 2 <=> \E i \in 1..Len(s.order) : s.order[i] = n
    /\ Distinct(s.order) /\ Ordered(s.order)
    /\ \A p \in 1..Len(s.path) : \A k \in 1..(s.next[s.path[p]] - 1) :
          LET d == Dependencies(s.path[p])[k]
          IN  \/ s.state[d] = 2
              \/ p < Len(s.path) /\ s.path[p + 1] = d
              \/ p = Len(s.path) /\ d = name
    /\ \A i \in 1..(s.from - 1) : s.state[seq[i]] # 0 \/ seq[i] = name

SearchInv(s, seq) == PlacesOK(s, seq) /\ (s.ok => Sound(s, seq, "root"))

\* The search s, with parts of it replaced.
LEMMA SearchParts ==
    ASSUME NEW s \in Searches
    PROVE  /\ s.state \in [Names -> 0..2] /\ s.next \in [Names -> Nat] /\ s.path \in Seq(Names)
           /\ s.order \in Seq(Names) /\ s.ok \in BOOLEAN /\ s.from \in Nat
  BY DEF Searches

\* What the places of a sequence with one more element are.
LEMMA Longer ==
    ASSUME NEW S, NEW q \in Seq(S), NEW x \in S
    PROVE  /\ Append(q, x) \in Seq(S) /\ Len(Append(q, x)) = Len(q) + 1 /\ Len(q) \in Nat
           /\ Append(q, x)[Len(q) + 1] = x
           /\ \A i \in 1..Len(q) : Append(q, x)[i] = q[i]
  OBVIOUS

LEMMA Shorter ==
    ASSUME NEW S, NEW q \in Seq(S), q # <<>>
    PROVE  /\ Front(q) \in Seq(S) /\ Len(Front(q)) = Len(q) - 1 /\ Len(q) \in Nat \ {0}
           /\ \A i \in 1..(Len(q) - 1) : Front(q)[i] = q[i]
           /\ Last(q) = q[Len(q)] /\ Last(q) \in S
<1>1. Len(q) \in Nat \ {0} /\ \A i \in 1..Len(q) : q[i] \in S
  OBVIOUS
<1> DEFINE n == Len(q) - 1
<1>2. n \in Nat /\ n + 1 = Len(q)
  BY <1>1
<1> HIDE DEF n
<1>3. /\ SubSeq(q, 1, n) \in Seq(S)
      /\ Len(SubSeq(q, 1, n)) = IF 1 <= n THEN n - 1 + 1 ELSE 0
      /\ \A i \in 1 .. n - 1 + 1 : SubSeq(q, 1, n)[i] = q[1 + i - 1]
  BY <1>1, <1>2, SubSeqProperties
<1>4. Len(SubSeq(q, 1, n)) = n /\ \A i \in 1..n : SubSeq(q, 1, n)[i] = q[i]
  BY <1>2, <1>3
<1>5. Front(q) = SubSeq(q, 1, n)
  BY DEF Front, n
<1> QED
  BY <1>1, <1>2, <1>3, <1>4, <1>5 DEF Last, n

\* The search in which the visit of name begins.
Begun(s, name) == [s EXCEPT !.state[name] = 1, !.path = Append(@, name)]

LEMMA BegunParts ==
    ASSUME NEW s \in Searches, NEW name \in Names
    PROVE  LET t == Begun(s, name)
           IN  /\ t \in Searches
               /\ t.state = [s.state EXCEPT ![name] = 1] /\ t.path = Append(s.path, name)
               /\ t.next = s.next /\ t.order = s.order /\ t.ok = s.ok /\ t.from = s.from
<1> DEFINE f == [s.state EXCEPT ![name] = 1]
           q == Append(s.path, name)
           t == [s EXCEPT !.state = f, !.path = q]
<1>1. Begun(s, name) = t
  BY DEF Begun, Searches
<1>2. f \in [Names -> 0..2] /\ q \in Seq(Names)
  BY SearchParts
<1> HIDE DEF f, q
<1>3. /\ t \in Searches /\ t.state = f /\ t.path = q
      /\ t.next = s.next /\ t.order = s.order /\ t.ok = s.ok /\ t.from = s.from
  BY <1>2 DEF Searches
<1> HIDE DEF t
<1> QED
  BY <1>1, <1>3 DEF f, q

LEMMA BegunPlaces ==
    ASSUME NEW seq \in Seq(Names), NEW s, PlacesOK(s, seq), NEW name \in Names, s.state[name] = 0
    PROVE  PlacesOK(Begun(s, name), seq)
<1> DEFINE t == Begun(s, name)
<1>1. s \in Searches
  BY DEF PlacesOK
<1>2. /\ t \in Searches
      /\ t.state = [s.state EXCEPT ![name] = 1] /\ t.path = Append(s.path, name)
      /\ t.next = s.next /\ t.from = s.from
  BY <1>1, BegunParts
<1> HIDE DEF t
<1>3. s.path \in Seq(Names) /\ s.state \in [Names -> 0..2]
  BY <1>1, SearchParts
<1>4. /\ Len(t.path) = Len(s.path) + 1 /\ Len(s.path) \in Nat
      /\ t.path[Len(s.path) + 1] = name
      /\ \A i \in 1..Len(s.path) : t.path[i] = s.path[i] /\ s.path[i] \in Names
  BY <1>2, <1>3, Longer
<1>5. \A n \in Names : t.state[n] = IF n = name THEN 1 ELSE s.state[n]
  BY <1>2, <1>3
<1>6. \A i \in 1..Len(s.path) : s.state[s.path[i]] = 1 /\ s.path[i] # name
  BY DEF PlacesOK
<1>7. \A p \in 1..Len(t.path) : t.state[t.path[p]] = 1
  BY <1>4, <1>5, <1>6
<1>8. Distinct(t.path)
  <2> SUFFICES ASSUME NEW i \in 1..Len(t.path), NEW j \in 1..Len(t.path), t.path[i] = t.path[j]
               PROVE  i = j
    BY DEF Distinct
  <2>1. CASE i \in 1..Len(s.path) /\ j \in 1..Len(s.path)
    BY <1>4, <2>1 DEF PlacesOK, Distinct
  <2>2. \A m \in 1..Len(t.path) : t.path[m] = name => m = Len(s.path) + 1
    <3> TAKE m \in 1..Len(t.path)
    <3>1. m \in 1..Len(s.path) \/ m = Len(s.path) + 1
      BY <1>4
    <3> QED
      BY <1>4, <1>6, <3>1
  <2>3. CASE i = Len(s.path) + 1
    BY <1>4, <2>2, <2>3
  <2>4. CASE j = Len(s.path) + 1
    BY <1>4, <2>2, <2>4
  <2> QED
    BY <1>4, <2>1, <2>3, <2>4
<1> QED
  BY <1>2, <1>5, <1>7, <1>8 DEF PlacesOK, t

LEMMA BegunSound ==
    ASSUME DependenciesOK, NEW seq \in Seq(Names), NEW s, PlacesOK(s, seq), NEW name \in Names,
           Sound(s, seq, name), s.state[name] = 0
    PROVE  Sound(Begun(s, name), seq, "root")
<1> DEFINE t == Begun(s, name)
<1>1. s \in Searches
  BY DEF PlacesOK
<1>2. /\ t.state = [s.state EXCEPT ![name] = 1] /\ t.path = Append(s.path, name)
      /\ t.next = s.next /\ t.from = s.from /\ t.order = s.order
  BY <1>1, BegunParts
<1> HIDE DEF t
<1>3. s.path \in Seq(Names) /\ s.state \in [Names -> 0..2] /\ s.from \in Nat
  BY <1>1, SearchParts
<1>4. /\ Len(t.path) = Len(s.path) + 1 /\ Len(s.path) \in Nat
      /\ t.path[Len(s.path) + 1] = name
      /\ \A i \in 1..Len(s.path) : t.path[i] = s.path[i] /\ s.path[i] \in Names
  BY <1>2, <1>3, Longer
<1>5. \A n \in Names : t.state[n] = IF n = name THEN 1 ELSE s.state[n]
  BY <1>2, <1>3
<1>6. \A n \in Names : t.state[n] = 1 => \E p \in 1..Len(t.path) : t.path[p] = n
  <2> TAKE n \in Names
  <2>1. CASE n = name
    BY <1>4, <2>1
  <2>2. CASE n # name /\ t.state[n] = 1
    <3>1. PICK p \in 1..Len(s.path) : s.path[p] = n
      BY <1>5, <2>2 DEF Sound
    <3> QED
      BY <1>4, <3>1
  <2> QED
    BY <2>1, <2>2
<1>7. \A n \in Names : t.state[n] = 2 <=> \E i \in 1..Len(t.order) : t.order[i] = n
  <2>1. \A n \in Names : t.state[n] = 2 <=> s.state[n] = 2
    BY <1>5
  <2> QED
    BY <1>2, <2>1 DEF Sound
<1>8. ASSUME NEW p \in 1..Len(t.path), NEW k \in 1..(t.next[t.path[p]] - 1)
      PROVE  LET d == Dependencies(t.path[p])[k]
             IN  t.state[d] = 2 \/ (p < Len(t.path) /\ t.path[p + 1] = d) \/ (p = Len(t.path) /\ d = "root")
  <2>1. CASE p \in 1..Len(s.path)
    <3> DEFINE n == s.path[p]
               d == Dependencies(n)[k]
    <3>1. n \in Names /\ t.path[p] = n /\ k \in 1..(s.next[n] - 1)
      BY <1>2, <1>4, <1>8, <2>1
    <3>2. d \in Names
      <4>1. Dependencies(n) \in Seq(Names) /\ s.next[n] \in 1..(Len(Dependencies(n)) + 1)
        BY <3>1 DEF DependenciesOK, PlacesOK
      <4> QED
        BY <3>1, <4>1
    <3>3. s.state[d] = 2 \/ (p < Len(s.path) /\ s.path[p + 1] = d) \/ (p = Len(s.path) /\ d = name)
      BY <2>1, <3>1 DEF Sound
    <3> HIDE DEF n, d
    <3>4. s.state[d] = 2 => t.state[d] = 2
      BY <1>5, <3>2
    <3>5. p < Len(s.path) => t.path[p + 1] = s.path[p + 1] /\ p < Len(t.path)
      BY <1>4, <2>1
    <3>6. p = Len(s.path) => t.path[p + 1] = name /\ p < Len(t.path)
      BY <1>4, <2>1
    <3>7. t.state[d] = 2 \/ (p < Len(t.path) /\ t.path[p + 1] = d)
      BY <3>3, <3>4, <3>5, <3>6
    <3> QED
      BY <3>1, <3>7 DEF d, n
  <2>2. CASE p = Len(s.path) + 1
    <3>1. t.path[p] = name /\ s.next[name] = 1
      BY <1>4, <2>2 DEF PlacesOK
    <3> QED
      BY <1>2, <1>8, <3>1
  <2> QED
    BY <1>4, <2>1, <2>2
<1>9. \A i \in 1..(t.from - 1) : t.state[seq[i]] # 0
  <2> TAKE i \in 1..(t.from - 1)
  <2>1. i \in 1..(s.from - 1) /\ seq[i] \in Names
    BY <1>2, <1>3 DEF PlacesOK
  <2>2. s.state[seq[i]] # 0 \/ seq[i] = name
    BY <2>1 DEF Sound
  <2> QED
    BY <1>5, <2>1, <2>2
<1>10. Distinct(t.order) /\ Ordered(t.order)
  BY <1>2 DEF Sound
<1> HIDE DEF Sound
<1> QED
  <2>1. Sound(t, seq, "root")
    BY <1>6, <1>7, <1>8, <1>9, <1>10 DEF Sound
  <2> QED
    BY <2>1 DEF t

\* A visit begins, or is not needed, or finds that its name is on the path.
LEMMA VisitKeeps ==
    ASSUME DependenciesOK, NEW seq \in Seq(Names), NEW s, PlacesOK(s, seq), NEW name \in Names,
           s.ok => Sound(s, seq, name)
    PROVE  SearchInv(visit(s, name), seq)
<1>0. s \in Searches
  BY DEF PlacesOK
<1>1. s.state[name] \in {0, 1, 2}
  BY <1>0, SearchParts
<1>2. CASE s.state[name] = 0
  <2>1. visit(s, name) = Begun(s, name)
    BY <1>2 DEF visit, Begun
  <2>2. PlacesOK(Begun(s, name), seq)
    BY <1>2, BegunPlaces
  <2>3. Begun(s, name).ok = s.ok
    BY <1>0, BegunParts
  <2>4. s.ok => Sound(Begun(s, name), seq, "root")
    BY <1>2, BegunSound
  <2> QED
    BY <2>1, <2>2, <2>3, <2>4 DEF SearchInv
<1>3. CASE s.state[name] = 1
  <2> DEFINE none == <<>>
             t == [s EXCEPT !.ok = FALSE, !.path = none]
  <2>1. visit(s, name) = t
    BY <1>3 DEF visit
  <2>2. none \in Seq(Names) /\ Len(none) = 0
    OBVIOUS
  <2> HIDE DEF none
  <2>3. /\ t \in Searches /\ t.state = s.state /\ t.next = s.next /\ t.from = s.from
        /\ t.path = none /\ t.ok = FALSE
    BY <1>0, <2>2 DEF Searches
  <2> HIDE DEF t
  <2>4. PlacesOK(t, seq)
    BY <2>2, <2>3 DEF PlacesOK, Distinct
  <2> QED
    BY <2>1, <2>3, <2>4 DEF SearchInv
<1>4. CASE s.state[name] = 2
  <2>1. visit(s, name) = s
    BY <1>4 DEF visit
  <2>2. ASSUME s.ok PROVE Sound(s, seq, "root")
    <3>1. Sound(s, seq, name)
      BY <2>2
    <3>2. \A p \in 1..Len(s.path) : \A k \in 1..(s.next[s.path[p]] - 1) :
             LET d == Dependencies(s.path[p])[k]
             IN  s.state[d] = 2 \/ (p < Len(s.path) /\ s.path[p + 1] = d) \/ (p = Len(s.path) /\ d = "root")
      BY <1>4, <3>1 DEF Sound
    <3>3. \A i \in 1..(s.from - 1) : s.state[seq[i]] # 0
      BY <1>4, <3>1 DEF Sound
    <3> QED
      BY <3>1, <3>2, <3>3 DEF Sound
  <2> QED
    BY <2>1, <2>2 DEF SearchInv
<1> QED
  BY <1>1, <1>2, <1>3, <1>4

\* The innermost visit comes to its next dependency.
LEMMA NextKeeps ==
    ASSUME DependenciesOK, NEW seq \in Seq(Names), NEW s, SearchInv(s, seq), s.path # <<>>,
           NEW name, name = Last(s.path), NEW i, i = s.next[name], i <= Len(Dependencies(name))
    PROVE  LET t == [s EXCEPT !.next[name] = i + 1]
           IN  /\ PlacesOK(t, seq) /\ (t.ok => Sound(t, seq, Dependencies(name)[i]))
               /\ t.state = s.state /\ t.next = [s.next EXCEPT ![name] = i + 1]
               /\ Dependencies(name)[i] \in Names /\ s.state[name] = 1 /\ name \in Names /\ t.from = s.from
<1> DEFINE f == [s.next EXCEPT ![name] = i + 1]
           t == [s EXCEPT !.next = f]
           d == Dependencies(name)[i]
<1>1. s \in Searches /\ PlacesOK(s, seq)
  BY DEF SearchInv, PlacesOK
<1>2. s.path \in Seq(Names) /\ s.state \in [Names -> 0..2] /\ s.from \in Nat /\ s.next \in [Names -> Nat]
  BY <1>1, SearchParts
<1>3. Len(s.path) \in Nat \ {0} /\ name = s.path[Len(s.path)] /\ name \in Names
  BY <1>2, Shorter
<1>4. /\ Dependencies(name) \in Seq(Names) /\ i \in 1..Len(Dependencies(name)) /\ d \in Names
      /\ i \in Nat /\ i + 1 \in Nat /\ i + 1 \in 1..(Len(Dependencies(name)) + 1)
  <2>1. i \in 1..(Len(Dependencies(name)) + 1) /\ Dependencies(name) \in Seq(Names)
    BY <1>1, <1>3 DEF PlacesOK, DependenciesOK
  <2>2. i \in 1..Len(Dependencies(name))
    BY <2>1
  <2> QED
    BY <2>1, <2>2
<1>5. f \in [Names -> Nat]
  BY <1>2, <1>4
<1>6. \A n \in Names : f[n] = IF n = name THEN i + 1 ELSE s.next[n]
  BY <1>2
<1>7. [s EXCEPT !.next[name] = i + 1] = t
  BY <1>1 DEF Searches
<1> HIDE DEF f
<1>8. /\ t \in Searches /\ t.state = s.state /\ t.next = f /\ t.path = s.path
      /\ t.order = s.order /\ t.ok = s.ok /\ t.from = s.from
  BY <1>1, <1>5 DEF Searches
<1> HIDE DEF t
<1>9. s.state[name] = 1
  <2>1. Len(s.path) \in 1..Len(s.path)
    BY <1>3
  <2> QED
    BY <1>1, <1>3, <2>1 DEF PlacesOK
<1>10. PlacesOK(t, seq)
  <2>1. \A n \in Names : t.next[n] \in 1..(Len(Dependencies(n)) + 1)
    <3> TAKE n \in Names
    <3>1. CASE n = name
      BY <1>4, <1>6, <1>8, <3>1
    <3>2. CASE n # name
      BY <1>1, <1>6, <1>8, <3>2 DEF PlacesOK
    <3> QED
      BY <3>1, <3>2
  <2>2. \A n \in Names : t.state[n] = 0 => t.next[n] = 1
    BY <1>1, <1>6, <1>8, <1>9 DEF PlacesOK
  <2> QED
    BY <1>1, <1>8, <2>1, <2>2 DEF PlacesOK
<1> HIDE DEF d
<1>11. ASSUME s.ok PROVE Sound(t, seq, d)
  <2>1. Sound(s, seq, "root")
    BY <1>11 DEF SearchInv
  <2>2. ASSUME NEW p \in 1..Len(t.path), NEW k \in 1..(t.next[t.path[p]] - 1)
        PROVE  LET e == Dependencies(t.path[p])[k]
               IN  t.state[e] = 2 \/ (p < Len(t.path) /\ t.path[p + 1] = e) \/ (p = Len(t.path) /\ e = d)
    <3> DEFINE n == s.path[p]
               e == Dependencies(n)[k]
    <3>1. p \in 1..Len(s.path) /\ t.path[p] = n /\ n \in Names
      BY <1>2, <1>8, <2>2
    <3>2. CASE k \in 1..(s.next[n] - 1)
      <4>1. Dependencies(n) \in Seq(Names) /\ s.next[n] \in 1..(Len(Dependencies(n)) + 1)
        BY <1>1, <3>1 DEF DependenciesOK, PlacesOK
      <4>2. e \in Names
        BY <3>2, <4>1
      <4>3. e # "root"
        BY <4>2, FaultsAssumption
      <4>4. s.state[e] = 2 \/ (p < Len(s.path) /\ s.path[p + 1] = e)
        BY <2>1, <3>1, <3>2, <4>3 DEF Sound
      <4> QED
        BY <1>8, <3>1, <4>4
    <3>3. CASE k \notin 1..(s.next[n] - 1)
      <4>1. n = name /\ k = i
        BY <1>6, <1>8, <2>2, <3>1, <3>3, <1>2
      <4>2. p = Len(s.path)
        <5>1. Len(s.path) \in 1..Len(s.path) /\ s.path[p] = s.path[Len(s.path)]
          BY <1>3, <3>1, <4>1
        <5> QED
          BY <1>1, <3>1, <5>1 DEF PlacesOK, Distinct
      <4> QED
        BY <1>8, <3>1, <4>1, <4>2 DEF d
    <3> QED
      BY <3>2, <3>3
  <2>3. \A j \in 1..(t.from - 1) : t.state[seq[j]] # 0
    <3> TAKE j \in 1..(t.from - 1)
    <3>1. j \in 1..(s.from - 1) /\ seq[j] \in Names
      BY <1>1, <1>2, <1>8 DEF PlacesOK
    <3>2. seq[j] # "root"
      BY <3>1, FaultsAssumption
    <3> QED
      BY <1>8, <2>1, <3>1, <3>2 DEF Sound
  <2> QED
    BY <1>8, <2>1, <2>2, <2>3 DEF Sound
<1> QED
  BY <1>3, <1>4, <1>7, <1>8, <1>9, <1>10, <1>11 DEF d, f

\* The innermost visit ends.
LEMMA VisitedParts ==
    ASSUME NEW s \in Searches, s.path # <<>>, NEW name \in Names
    PROVE  LET t == visited(s, name)
           IN  /\ t \in Searches
               /\ t.state = [s.state EXCEPT ![name] = 2] /\ t.path = Front(s.path)
               /\ t.order = Append(s.order, name)
               /\ t.next = s.next /\ t.ok = s.ok /\ t.from = s.from
<1> DEFINE f == [s.state EXCEPT ![name] = 2]
           q == Front(s.path)
           r == Append(s.order, name)
           t == [s EXCEPT !.state = f, !.order = r, !.path = q]
<1>1. visited(s, name) = t
  BY DEF visited, Searches
<1>2. f \in [Names -> 0..2] /\ q \in Seq(Names) /\ r \in Seq(Names)
  <2>1. s.path \in Seq(Names) /\ s.state \in [Names -> 0..2] /\ s.order \in Seq(Names)
    BY SearchParts
  <2>2. q \in Seq(Names)
    BY <2>1, Shorter
  <2> QED
    BY <2>1, <2>2
<1> HIDE DEF f, q, r
<1>3. /\ t \in Searches /\ t.state = f /\ t.path = q /\ t.order = r
      /\ t.next = s.next /\ t.ok = s.ok /\ t.from = s.from
  BY <1>2 DEF Searches
<1> HIDE DEF t
<1> QED
  BY <1>1, <1>3 DEF f, q, r

LEMMA VisitedKeeps ==
    ASSUME DependenciesOK, NEW seq \in Seq(Names), NEW s, SearchInv(s, seq), s.path # <<>>,
           NEW name, name = Last(s.path), ~(s.next[name] <= Len(Dependencies(name)))
    PROVE  SearchInv(visited(s, name), seq) /\ s.state[name] = 1 /\ name \in Names
<1> DEFINE t == visited(s, name)
           n == Len(s.path)
<1>1. s \in Searches /\ PlacesOK(s, seq)
  BY DEF SearchInv, PlacesOK
<1>2. /\ s.path \in Seq(Names) /\ s.state \in [Names -> 0..2] /\ s.from \in Nat /\ s.order \in Seq(Names)
      /\ s.next \in [Names -> Nat]
  BY <1>1, SearchParts
<1>3. /\ n \in Nat \ {0} /\ name = s.path[n] /\ name \in Names /\ n \in 1..n
      /\ Len(Front(s.path)) = n - 1 /\ \A p \in 1..(n - 1) : Front(s.path)[p] = s.path[p]
      /\ \A p \in 1..n : s.path[p] \in Names
  <2> DEFINE q == s.path
  <2>1. q \in Seq(Names) /\ q # <<>> /\ name = Last(q)
    BY <1>2
  <2> HIDE DEF q
  <2>2. /\ Len(q) \in Nat \ {0} /\ name = q[Len(q)] /\ name \in Names
        /\ Len(Front(q)) = Len(q) - 1 /\ \A p \in 1..(Len(q) - 1) : Front(q)[p] = q[p]
    BY <2>1, Shorter
  <2>3. \A p \in 1..Len(q) : q[p] \in Names
    BY <2>1
  <2>4. Len(q) \in 1..Len(q)
    BY <2>2
  <2> QED
    BY <2>2, <2>3, <2>4 DEF q
<1>4. /\ t.state = [s.state EXCEPT ![name] = 2] /\ t.path = Front(s.path)
      /\ t.order = Append(s.order, name) /\ t \in Searches
      /\ t.next = s.next /\ t.ok = s.ok /\ t.from = s.from
  BY <1>1, <1>3, VisitedParts
<1> HIDE DEF t
<1>5. \A m \in Names : t.state[m] = IF m = name THEN 2 ELSE s.state[m]
  BY <1>2, <1>4
<1>6. s.state[name] = 1
  BY <1>1, <1>3 DEF PlacesOK
<1> HIDE DEF n
<1>7. \A p \in 1..(n - 1) : s.path[p] # name
  <2> SUFFICES ASSUME NEW p \in 1..(n - 1), s.path[p] = name PROVE FALSE
    OBVIOUS
  <2>1. p \in 1..n /\ p # n /\ s.path[p] = s.path[n]
    BY <1>3
  <2> QED
    BY <1>1, <1>3, <2>1 DEF PlacesOK, Distinct, n
<1>8. Len(t.path) = n - 1 /\ \A p \in 1..(n - 1) : t.path[p] = s.path[p]
  BY <1>3, <1>4
<1>9. PlacesOK(t, seq)
  <2>1. \A p \in 1..Len(t.path) : t.state[t.path[p]] = 1
    <3> TAKE p \in 1..Len(t.path)
    <3>1. p \in 1..(n - 1) /\ p \in 1..n /\ t.path[p] = s.path[p] /\ s.path[p] \in Names
      BY <1>3, <1>8
    <3>2. s.state[s.path[p]] = 1
      BY <1>1, <3>1 DEF PlacesOK, n
    <3> QED
      BY <1>5, <1>7, <3>1, <3>2
  <2>2. Distinct(t.path)
    <3> SUFFICES ASSUME NEW i \in 1..(n - 1), NEW j \in 1..(n - 1), t.path[i] = t.path[j] PROVE i = j
      BY <1>8 DEF Distinct
    <3>1. i \in 1..n /\ j \in 1..n /\ s.path[i] = s.path[j]
      BY <1>3, <1>8
    <3> QED
      BY <1>1, <3>1 DEF PlacesOK, Distinct, n
  <2>3. \A m \in Names : t.state[m] = 0 => t.next[m] = 1
    BY <1>1, <1>4, <1>5 DEF PlacesOK
  <2> QED
    BY <1>1, <1>4, <2>1, <2>2, <2>3 DEF PlacesOK
<1>10. /\ Len(t.order) = Len(s.order) + 1 /\ Len(s.order) \in Nat
       /\ t.order[Len(s.order) + 1] = name
       /\ \A i \in 1..Len(s.order) : t.order[i] = s.order[i] /\ s.order[i] \in Names
  BY <1>2, <1>3, <1>4, Longer
<1>11. ASSUME s.ok PROVE Sound(t, seq, "root")
  <2>1. Sound(s, seq, "root")
    BY <1>11 DEF SearchInv
  <2>2. \A m \in Names : t.state[m] = 1 => \E p \in 1..Len(t.path) : t.path[p] = m
    <3> SUFFICES ASSUME NEW m \in Names, t.state[m] = 1 PROVE \E p \in 1..Len(t.path) : t.path[p] = m
      OBVIOUS
    <3>1. m # name /\ s.state[m] = 1
      BY <1>5
    <3>2. PICK p \in 1..n : s.path[p] = m
      BY <2>1, <3>1 DEF Sound, n
    <3>3. p \in 1..(n - 1)
      BY <1>3, <3>1, <3>2
    <3> QED
      BY <1>8, <3>2, <3>3
  <2>3. \A m \in Names : t.state[m] = 2 <=> \E i \in 1..Len(t.order) : t.order[i] = m
    <3> TAKE m \in Names
    <3>1. (\E i \in 1..Len(t.order) : t.order[i] = m)
              <=> m = name \/ \E i \in 1..Len(s.order) : s.order[i] = m
      <4> DEFINE l == Len(s.order)
      <4>1. 1..Len(t.order) = 1..l \cup {l + 1} /\ t.order[l + 1] = name
            /\ \A i \in 1..l : t.order[i] = s.order[i]
        BY <1>10
      <4> HIDE DEF l
      <4> QED
        BY <4>1 DEF l
    <3>2. s.state[m] = 2 <=> \E i \in 1..Len(s.order) : s.order[i] = m
      BY <2>1 DEF Sound
    <3> QED
      BY <1>5, <3>1, <3>2
  <2>4. \A i \in 1..Len(s.order) : s.order[i] # name
    BY <1>3, <1>6, <2>1 DEF Sound
  <2>5. Distinct(t.order)
    <3> SUFFICES ASSUME NEW i \in 1..Len(t.order), NEW j \in 1..Len(t.order), t.order[i] = t.order[j]
                 PROVE  i = j
      BY DEF Distinct
    <3>1. CASE i \in 1..Len(s.order) /\ j \in 1..Len(s.order)
      BY <1>10, <2>1, <3>1 DEF Sound, Distinct
    <3>2. \A m \in 1..Len(t.order) : t.order[m] = name => m = Len(s.order) + 1
      <4> TAKE m \in 1..Len(t.order)
      <4>1. m \in 1..Len(s.order) \/ m = Len(s.order) + 1
        BY <1>10
      <4> QED
        BY <1>10, <2>4, <4>1
    <3>3. CASE i = Len(s.order) + 1
      BY <1>10, <3>2, <3>3
    <3>4. CASE j = Len(s.order) + 1
      BY <1>10, <3>2, <3>4
    <3> QED
      BY <1>10, <3>1, <3>3, <3>4
  <2>6. ASSUME NEW k \in 1..Len(Dependencies(name))
        PROVE  \E j \in 1..Len(s.order) : s.order[j] = Dependencies(name)[k]
    <3> DEFINE d == Dependencies(name)[k]
    <3>1. Dependencies(name) \in Seq(Names) /\ s.next[name] \in 1..(Len(Dependencies(name)) + 1)
      BY <1>1, <1>3 DEF DependenciesOK, PlacesOK
    <3>2. d \in Names /\ k \in 1..(s.next[name] - 1)
      BY <3>1
    <3>3. d # "root"
      BY <3>2, FaultsAssumption
    <3>4. s.state[d] = 2
      <4>1. k \in 1..(s.next[s.path[n]] - 1) /\ n \in 1..Len(s.path) /\ n = Len(s.path)
        BY <1>3, <3>2 DEF n
      <4>2. LET e == Dependencies(s.path[n])[k]
            IN  s.state[e] = 2 \/ (n < Len(s.path) /\ s.path[n + 1] = e) \/ (n = Len(s.path) /\ e = "root")
        BY <2>1, <4>1 DEF Sound
      <4> QED
        BY <1>3, <3>3, <4>1, <4>2
    <3> QED
      BY <2>1, <3>2, <3>4 DEF Sound
  <2>7. Ordered(t.order)
    <3> SUFFICES ASSUME NEW i \in 1..Len(t.order), NEW k \in 1..Len(Dependencies(t.order[i]))
                 PROVE  \E j \in 1..(i - 1) : t.order[j] = Dependencies(t.order[i])[k]
      BY DEF Ordered
    <3>1. CASE i \in 1..Len(s.order)
      <4>1. t.order[i] = s.order[i]
        BY <1>10, <3>1
      <4>2. PICK j \in 1..(i - 1) : s.order[j] = Dependencies(s.order[i])[k]
        BY <2>1, <3>1, <4>1 DEF Sound, Ordered
      <4>3. t.order[j] = s.order[j]
        <5>1. j \in 1..Len(s.order)
          BY <1>10, <3>1
        <5> QED
          BY <1>10, <5>1
      <4> QED
        BY <4>1, <4>2, <4>3
    <3>2. CASE i = Len(s.order) + 1
      <4>1. t.order[i] = name /\ i - 1 = Len(s.order)
        BY <1>10, <3>2
      <4>2. PICK j \in 1..Len(s.order) : s.order[j] = Dependencies(name)[k]
        BY <2>6, <4>1
      <4> QED
        BY <1>10, <4>1, <4>2
    <3> QED
      BY <1>10, <3>1, <3>2
  <2>8. ASSUME NEW p \in 1..Len(t.path), NEW k \in 1..(t.next[t.path[p]] - 1)
        PROVE  LET d == Dependencies(t.path[p])[k]
               IN  t.state[d] = 2 \/ (p < Len(t.path) /\ t.path[p + 1] = d) \/ (p = Len(t.path) /\ d = "root")
    <3> DEFINE m == s.path[p]
               d == Dependencies(m)[k]
    <3>1. p \in 1..(n - 1) /\ p \in 1..n /\ t.path[p] = m /\ m \in Names /\ k \in 1..(s.next[m] - 1)
      BY <1>3, <1>4, <1>8, <2>8
    <3>2. Dependencies(m) \in Seq(Names) /\ s.next[m] \in 1..(Len(Dependencies(m)) + 1)
      BY <1>1, <3>1 DEF DependenciesOK, PlacesOK
    <3>3. d \in Names
      BY <3>1, <3>2
    <3>4. d # "root"
      BY <3>3, FaultsAssumption
    <3>5. s.state[d] = 2 \/ (p < Len(s.path) /\ s.path[p + 1] = d)
      BY <2>1, <3>1, <3>4 DEF Sound, n
    <3> HIDE DEF d, m
    <3>6. CASE s.state[d] = 2
      <4>1. t.state[d] = 2
        BY <1>5, <3>3, <3>6
      <4> QED
        BY <3>1, <4>1 DEF d
    <3>7. CASE s.path[p + 1] = d /\ p = n - 1
      <4>1. d = name
        BY <1>3, <3>7
      <4>2. t.state[d] = 2
        BY <1>5, <3>3, <4>1
      <4> QED
        BY <3>1, <4>2 DEF d
    <3>8. CASE s.path[p + 1] = d /\ p # n - 1
      <4>1. p + 1 \in 1..(n - 1) /\ p < Len(t.path)
        BY <1>3, <1>8, <3>1, <3>8
      <4>2. t.path[p + 1] = d
        BY <1>8, <3>8, <4>1
      <4> QED
        BY <3>1, <4>1, <4>2 DEF d
    <3> QED
      BY <3>5, <3>6, <3>7, <3>8
  <2>9. \A i \in 1..(t.from - 1) : t.state[seq[i]] # 0
    <3> TAKE i \in 1..(t.from - 1)
    <3>1. i \in 1..(s.from - 1) /\ seq[i] \in Names
      BY <1>1, <1>2, <1>4 DEF PlacesOK
    <3>2. seq[i] # "root"
      BY <3>1, FaultsAssumption
    <3>3. s.state[seq[i]] # 0
      BY <2>1, <3>1, <3>2 DEF Sound
    <3> QED
      BY <1>5, <3>1, <3>3
  <2> QED
    BY <2>2, <2>3, <2>5, <2>7, <2>8, <2>9 DEF Sound
<1> QED
  BY <1>3, <1>4, <1>6, <1>9, <1>11 DEF SearchInv, t

\* A step of the search, or none when it has ended.
Over(s, seq) == s.path = <<>> /\ s.from = Len(seq) + 1

LEMMA FromParts ==
    ASSUME NEW s \in Searches
    PROVE  LET t == [s EXCEPT !.from = @ + 1]
           IN  /\ t \in Searches /\ t.from = s.from + 1 /\ t.state = s.state /\ t.path = s.path
               /\ t.order = s.order /\ t.next = s.next /\ t.ok = s.ok
<1> DEFINE n == s.from + 1
           t == [s EXCEPT !.from = n]
<1>1. n \in Nat
  BY SearchParts
<1> HIDE DEF n
<1>2. /\ t \in Searches /\ t.from = n /\ t.state = s.state /\ t.path = s.path
      /\ t.order = s.order /\ t.next = s.next /\ t.ok = s.ok
  BY <1>1 DEF Searches
<1> QED
  BY <1>2 DEF n

\* The loop over seq comes to its next name.
LEMMA FromKeeps ==
    ASSUME NEW seq \in Seq(Names), NEW s, SearchInv(s, seq), s.path = <<>>, s.from <= Len(seq)
    PROVE  LET t == [s EXCEPT !.from = @ + 1]
           IN  /\ PlacesOK(t, seq) /\ (t.ok => Sound(t, seq, seq[s.from])) /\ seq[s.from] \in Names
               /\ s.state[seq[s.from]] # 0 => SearchInv(t, seq)
<1> DEFINE t == [s EXCEPT !.from = @ + 1]
           name == seq[s.from]
<1>1. s \in Searches /\ PlacesOK(s, seq) /\ Len(seq) \in Nat
  BY DEF SearchInv, PlacesOK
<1>2. /\ t \in Searches /\ t.from = s.from + 1 /\ t.state = s.state /\ t.path = s.path
      /\ t.order = s.order /\ t.next = s.next /\ t.ok = s.ok
  BY <1>1, FromParts
<1>3. s.from \in 1..Len(seq) /\ s.from \in Nat /\ name \in Names
  <2>1. s.from \in 1..Len(seq)
    BY <1>1 DEF PlacesOK
  <2> QED
    BY <2>1
<1> HIDE DEF t
<1>4. PlacesOK(t, seq)
  <2>1. t.from \in 1..(Len(seq) + 1)
    BY <1>1, <1>2, <1>3
  <2> QED
    BY <1>1, <1>2, <2>1 DEF PlacesOK
<1>5. Len(s.path) = 0
  OBVIOUS
<1> HIDE DEF name
<1>6. ASSUME s.ok PROVE Sound(t, seq, name) /\ (s.state[name] # 0 => Sound(t, seq, "root"))
  <2>1. Sound(s, seq, "root")
    BY <1>6 DEF SearchInv
  <2>2. \A i \in 1..(t.from - 1) : t.state[seq[i]] # 0 \/ seq[i] = name
    <3> TAKE i \in 1..(t.from - 1)
    <3>1. CASE i = s.from
      BY <3>1 DEF name
    <3>2. CASE i # s.from
      <4>1. i \in 1..(s.from - 1) /\ seq[i] \in Names
        BY <1>2, <1>3, <3>2
      <4>2. seq[i] # "root"
        BY <4>1, FaultsAssumption
      <4> QED
        BY <1>2, <2>1, <4>1, <4>2 DEF Sound
    <3> QED
      BY <3>1, <3>2
  <2>3. ASSUME NEW e, \A i \in 1..(t.from - 1) : t.state[seq[i]] # 0 \/ seq[i] = e
        PROVE  Sound(t, seq, e)
    <3>1. \A p \in 1..Len(t.path) : FALSE
      BY <1>2, <1>5
    <3> QED
      BY <1>2, <2>1, <2>3, <3>1 DEF Sound
  <2>4. s.state[name] # 0 => \A i \in 1..(t.from - 1) : t.state[seq[i]] # 0 \/ seq[i] = "root"
    BY <1>2, <2>2
  <2> QED
    BY <2>2, <2>3, <2>4
<1> QED
  BY <1>2, <1>3, <1>4, <1>6 DEF SearchInv, t, name

LEMMA SearchKeeps ==
    ASSUME DependenciesOK, NEW seq \in Seq(Names), NEW s, SearchInv(s, seq)
    PROVE  SearchInv(Search(s, seq), seq)
<1> DEFINE name == Last(s.path)
           i == s.next[name]
           d == Dependencies(name)[i]
           u == [s EXCEPT !.next[name] = i + 1]
           t == [s EXCEPT !.from = @ + 1]
<1>1. CASE s.path # <<>> /\ i <= Len(Dependencies(name))
  <2>1. Search(s, seq) = visit(u, d)
    BY <1>1 DEF Search
  <2>2. PlacesOK(u, seq) /\ (u.ok => Sound(u, seq, d)) /\ d \in Names
    BY <1>1, NextKeeps
  <2> HIDE DEF u, d
  <2> QED
    BY <2>1, <2>2, VisitKeeps
<1>2. CASE s.path # <<>> /\ ~(i <= Len(Dependencies(name)))
  <2>1. Search(s, seq) = visited(s, name)
    BY <1>2 DEF Search
  <2> QED
    BY <1>2, <2>1, VisitedKeeps
<1>3. CASE s.path = <<>> /\ s.from <= Len(seq)
  <2> DEFINE n == seq[s.from]
  <2>1. Search(s, seq) = IF s.state[n] = 0 THEN visit(t, n) ELSE t
    BY <1>3 DEF Search
  <2>2. PlacesOK(t, seq) /\ (t.ok => Sound(t, seq, n)) /\ n \in Names
        /\ (s.state[n] # 0 => SearchInv(t, seq))
    BY <1>3, FromKeeps
  <2> HIDE DEF t, n
  <2> QED
    BY <2>1, <2>2, VisitKeeps
<1>4. CASE s.path = <<>> /\ ~(s.from <= Len(seq))
  BY <1>4 DEF Search
<1> QED
  BY <1>1, <1>2, <1>3, <1>4

LEMMA UnvisitedInv ==
    ASSUME DependenciesOK, NEW seq \in Seq(Names)
    PROVE  SearchInv(Unvisited, seq) /\ Unvisited \in Searches
<1> DEFINE f == [n \in Names |-> 0]
           g == [n \in Names |-> 1]
           none == <<>>
           s == [state |-> f, next |-> g, path |-> none, order |-> none, ok |-> TRUE, from |-> 1]
<1>1. f \in [Names -> 0..2] /\ g \in [Names -> Nat] /\ none \in Seq(Names) /\ Len(none) = 0
  OBVIOUS
<1>2. \A n \in Names : f[n] = 0 /\ g[n] = 1
  OBVIOUS
<1>3. Unvisited = s
  BY DEF Unvisited
<1> HIDE DEF f, g, none
<1>4. /\ s \in Searches /\ s.state = f /\ s.next = g /\ s.path = none /\ s.order = none
      /\ s.ok = TRUE /\ s.from = 1
  BY <1>1 DEF Searches
<1> HIDE DEF s
<1>5. PlacesOK(s, seq)
  <2>1. \A n \in Names : s.next[n] \in 1..(Len(Dependencies(n)) + 1)
    BY <1>2, <1>4 DEF DependenciesOK
  <2> QED
    BY <1>1, <1>2, <1>4, <2>1 DEF PlacesOK, Distinct
<1>6. Sound(s, seq, "root")
  BY <1>1, <1>2, <1>4 DEF Sound, Distinct, Ordered
<1> QED
  BY <1>3, <1>4, <1>5, <1>6 DEF SearchInv

\* The search as the sequence of its steps.
LEMMA SearchedUnfolds ==
    ASSUME DependenciesOK, NEW seq \in Seq(Names)
    PROVE  \E f : /\ f[0] = Unvisited
                  /\ \A k \in Nat : SearchInv(f[k], seq) /\ f[k + 1] = Search(f[k], seq)
                  /\ Searched(seq) = f[Steps(seq)]
<1> DEFINE S == {s \in Searches : SearchInv(s, seq)}
           g == [p \in Nat \X S |-> Search(p[2], seq)]
           Body(f) == [k \in Nat |-> IF k = 0 THEN Unvisited ELSE Search(f[k - 1], seq)]
           h == CHOOSE f : f = Body(f)
<1>1. Searched(seq) = h[Steps(seq)]
  BY DEF Searched
<1>2. \A s \in S : Search(s, seq) \in S
  BY SearchKeeps DEF SearchInv, PlacesOK
<1>3. Unvisited \in S
  BY UnvisitedInv
<1>4. g \in [Nat \X S -> S] /\ \A k \in Nat, s \in S : g[<<k, s>>] = Search(s, seq)
  BY <1>2
<1> HIDE DEF g, S
<1>5. PICK f : IteratedAlways(S, Unvisited, g, f)
  BY <1>3, <1>4, IterationExists
<1>6. f = Body(f)
  <2>1. \A k \in Nat : f[k] = IF k = 0 THEN Unvisited ELSE Search(f[k - 1], seq)
    <3> TAKE k \in Nat
    <3>1. k # 0 => k - 1 \in Nat /\ f[k - 1] \in S
      BY <1>5 DEF IteratedAlways
    <3> QED
      BY <1>4, <1>5, <3>1 DEF IteratedAlways
  <2>2. f = [k \in Nat |-> f[k]]
    BY <1>5 DEF IteratedAlways
  <2> QED
    BY <2>1, <2>2
<1>7. h = Body(h)
  BY <1>6
<1> HIDE DEF h
<1>8. h[0] = Unvisited /\ \A k \in Nat : h[k + 1] = Search(h[k], seq)
  <2>1. \A k \in Nat : h[k] = IF k = 0 THEN Unvisited ELSE Search(h[k - 1], seq)
    BY <1>7
  <2> QED
    BY <2>1
<1>9. \A k \in Nat : SearchInv(h[k], seq)
  <2> DEFINE T == {k \in Nat : ~SearchInv(h[k], seq)}
  <2> SUFFICES ASSUME T # {} PROVE FALSE
    OBVIOUS
  <2>1. PICK k \in T : \A i \in T : k <= i
    BY LeastElement
  <2>2. k # 0
    BY <1>8, UnvisitedInv
  <2>3. k - 1 \in Nat /\ k - 1 \notin T
    BY <2>1, <2>2
  <2>4. SearchInv(h[k - 1], seq) /\ h[k] = Search(h[k - 1], seq)
    BY <1>8, <2>3
  <2> QED
    BY <2>4, SearchKeeps
<1> QED
  BY <1>1, <1>8, <1>9

(***************************************************************************)
(* The search ends: every step adds a place to those its visits have been   *)
(* at, or comes to the next name of seq.                                    *)
(***************************************************************************)
Places == Names \X (1..(MaxImports + 2))

Been(s) == {x \in Places : s.state[x[1]] = 2 \/ (s.state[x[1]] = 1 /\ x[2] <= s.next[x[1]])}

Progress(s) == Cardinality(Been(s)) + s.from

LEMMA PlacesFinite ==
    /\ IsFiniteSet(Places) /\ Cardinality(Places) = Cardinality(Names) * (MaxImports + 2)
    /\ Cardinality(Names) \in Nat
<1>1. IsFiniteSet(Names) /\ MaxImports + 2 \in Nat /\ 1 \in Int /\ MaxImports + 2 \in Int
  BY FaultsAssumption, RootAssumption
<1> DEFINE b == MaxImports + 2
<1>5. b \in Int /\ b \in Nat /\ 1 <= b
  BY RootAssumption
<1> HIDE DEF b
<1>2. IsFiniteSet(1..b) /\ Cardinality(1..b) = b
  <2>2. IsFiniteSet(1..b) /\ Cardinality(1..b) = IF 1 > b THEN 0 ELSE b - 1 + 1
    BY <1>5, FS_Interval
  <2> QED
    BY <1>5, <2>2
<1>3. Cardinality(Names) \in Nat
  BY <1>1, FS_CardinalityType
<1>4. IsFiniteSet(Names \X (1..b)) /\ Cardinality(Names \X (1..b)) = Cardinality(Names) * Cardinality(1..b)
  BY <1>1, <1>2, FS_Product
<1> QED
  BY <1>2, <1>3, <1>4 DEF Places, b

LEMMA BeenFinite ==
    ASSUME NEW s
    PROVE  /\ IsFiniteSet(Been(s)) /\ Cardinality(Been(s)) \in Nat
           /\ Cardinality(Been(s)) <= Cardinality(Places)
<1>1. Been(s) \in SUBSET Places
  BY DEF Been
<1> QED
  BY <1>1, PlacesFinite, FS_Subset, FS_CardinalityType

\* A search in which nothing is less far than in another has been at the places of the other.
LEMMA BeenGrows ==
    ASSUME NEW s \in Searches, NEW t \in Searches,
           \A n \in Names : s.state[n] <= t.state[n] /\ s.next[n] <= t.next[n]
    PROVE  Been(s) \subseteq Been(t)
<1> SUFFICES ASSUME NEW x \in Been(s) PROVE x \in Been(t)
  OBVIOUS
<1>1. x \in Places /\ x[1] \in Names /\ x[2] \in Nat
  BY RootAssumption DEF Been, Places
<1> DEFINE n == x[1]
<1>2. /\ s.state[n] \in 0..2 /\ t.state[n] \in 0..2 /\ s.next[n] \in Nat /\ t.next[n] \in Nat
      /\ s.state[n] <= t.state[n] /\ s.next[n] <= t.next[n]
  BY <1>1, SearchParts
<1>3. s.state[n] = 2 \/ (s.state[n] = 1 /\ x[2] <= s.next[n])
  BY DEF Been
<1>4. t.state[n] = 2 \/ (t.state[n] = 1 /\ x[2] <= t.next[n])
  BY <1>1, <1>2, <1>3
<1> QED
  BY <1>1, <1>4 DEF Been

LEMMA StrictProgress ==
    ASSUME NEW s \in Searches, NEW t \in Searches, s.from <= t.from,
           \A n \in Names : s.state[n] <= t.state[n] /\ s.next[n] <= t.next[n],
           s.from < t.from \/ \E x \in Been(t) : x \notin Been(s)
    PROVE  Progress(s) + 1 <= Progress(t) /\ Progress(s) \in Nat /\ Progress(t) \in Nat
<1>1. Been(s) \subseteq Been(t)
  BY BeenGrows
<1>2. /\ IsFiniteSet(Been(t)) /\ Cardinality(Been(t)) \in Nat
      /\ IsFiniteSet(Been(s)) /\ Cardinality(Been(s)) \in Nat
  BY BeenFinite
<1>3. Cardinality(Been(s)) <= Cardinality(Been(t))
  BY <1>1, <1>2, FS_Subset
<1>4. Been(s) # Been(t) => Cardinality(Been(s)) < Cardinality(Been(t))
  BY <1>1, <1>2, FS_Subset
<1>5. s.from \in Nat /\ t.from \in Nat
  BY SearchParts
<1> QED
  BY <1>2, <1>3, <1>4, <1>5 DEF Progress

LEMMA VisitParts ==
    ASSUME NEW s \in Searches, NEW name \in Names
    PROVE  LET t == visit(s, name)
           IN  /\ t \in Searches /\ t.next = s.next /\ t.from = s.from
               /\ \A n \in Names : s.state[n] <= t.state[n]
<1>1. s.state \in [Names -> 0..2] /\ s.state[name] \in {0, 1, 2}
  BY SearchParts
<1>2. CASE s.state[name] = 0
  <2> DEFINE t == Begun(s, name)
  <2>1. visit(s, name) = t
    BY <1>2 DEF visit, Begun
  <2>2. /\ t \in Searches /\ t.next = s.next /\ t.from = s.from
        /\ t.state = [s.state EXCEPT ![name] = 1]
    BY BegunParts
  <2> HIDE DEF t
  <2>3. \A n \in Names : s.state[n] <= t.state[n]
    BY <1>1, <1>2, <2>2
  <2> QED
    BY <2>1, <2>2, <2>3
<1>3. CASE s.state[name] = 1
  <2> DEFINE none == <<>>
             t == [s EXCEPT !.ok = FALSE, !.path = none]
  <2>1. visit(s, name) = t
    BY <1>3 DEF visit
  <2>2. none \in Seq(Names)
    OBVIOUS
  <2> HIDE DEF none
  <2>3. t \in Searches /\ t.state = s.state /\ t.next = s.next /\ t.from = s.from
    BY <2>2 DEF Searches
  <2> HIDE DEF t
  <2> QED
    BY <1>1, <2>1, <2>3
<1>4. CASE s.state[name] = 2
  BY <1>1, <1>4 DEF visit
<1> QED
  BY <1>1, <1>2, <1>3, <1>4

LEMMA SearchProgresses ==
    ASSUME DependenciesOK, NEW seq \in Seq(Names), NEW s, SearchInv(s, seq), ~Over(s, seq)
    PROVE  LET t == Search(s, seq)
           IN  Progress(s) + 1 <= Progress(t) /\ Progress(s) \in Nat /\ Progress(t) \in Nat
<1> DEFINE name == Last(s.path)
           i == s.next[name]
           d == Dependencies(name)[i]
           u == [s EXCEPT !.next[name] = i + 1]
<1>1. s \in Searches /\ PlacesOK(s, seq)
  BY DEF SearchInv, PlacesOK
<1>2. s.state \in [Names -> 0..2] /\ s.next \in [Names -> Nat] /\ s.from \in Nat /\ MaxImports \in Nat
  BY <1>1, SearchParts, RootAssumption
<1>3. CASE s.path # <<>> /\ i <= Len(Dependencies(name))
  <2> DEFINE t == visit(u, d)
  <2>1. Search(s, seq) = t
    BY <1>3 DEF Search
  <2>2. /\ PlacesOK(u, seq) /\ d \in Names /\ u.state = s.state /\ u.next = [s.next EXCEPT ![name] = i + 1]
        /\ s.state[name] = 1 /\ name \in Names /\ u.from = s.from
    BY <1>3, NextKeeps
  <2>3. u \in Searches
    BY <2>2 DEF PlacesOK
  <2>7. i \in Nat /\ i <= Len(Dependencies(name)) /\ Len(Dependencies(name)) <= MaxImports
        /\ Len(Dependencies(name)) \in Nat
    BY <1>2, <1>3, <2>2 DEF DependenciesOK
  <2> HIDE DEF u, d, name, i
  <2>4. /\ t \in Searches /\ t.next = u.next /\ t.from = u.from
        /\ \A n \in Names : u.state[n] <= t.state[n]
    BY <2>2, <2>3, VisitParts
  <2> HIDE DEF t
  <2>5. t.state \in [Names -> 0..2]
    BY <2>4, SearchParts
  <2>6. \A n \in Names : s.state[n] <= t.state[n] /\ s.next[n] <= t.next[n]
    BY <1>2, <2>2, <2>4, <2>7 DEF i
  <2> DEFINE x == <<name, i + 1>>
  <2>8. x \in Places /\ x[1] = name /\ x[2] = i + 1
    BY <1>2, <2>2, <2>7 DEF Places
  <2>9. t.state[name] \in {1, 2} /\ t.next[name] = i + 1 /\ s.next[name] = i
    BY <1>2, <2>2, <2>4, <2>5 DEF i
  <2> HIDE DEF x
  <2>10. x \in Been(t) /\ x \notin Been(s)
    BY <2>2, <2>7, <2>8, <2>9 DEF Been
  <2>11. s.from <= t.from
    BY <1>2, <2>2, <2>4
  <2> QED
    BY <1>1, <2>1, <2>4, <2>6, <2>10, <2>11, StrictProgress
<1>4. CASE s.path # <<>> /\ ~(i <= Len(Dependencies(name)))
  <2> DEFINE t == visited(s, name)
  <2>1. Search(s, seq) = t
    BY <1>4 DEF Search
  <2>2. s.state[name] = 1 /\ name \in Names
    BY <1>4, VisitedKeeps
  <2>3. /\ t \in Searches /\ t.state = [s.state EXCEPT ![name] = 2]
        /\ t.next = s.next /\ t.from = s.from
    BY <1>1, <1>4, <2>2, VisitedParts
  <2>4. s.next[name] \in 1..(Len(Dependencies(name)) + 1) /\ Len(Dependencies(name)) <= MaxImports
        /\ Len(Dependencies(name)) \in Nat
    BY <1>1, <2>2 DEF PlacesOK, DependenciesOK
  <2> HIDE DEF t, name
  <2>5. \A n \in Names : s.state[n] <= t.state[n] /\ s.next[n] <= t.next[n]
    <3> TAKE n \in Names
    <3>1. s.state[n] \in 0..2 /\ s.next[n] \in Nat
      BY <1>2
    <3>2. t.state[n] = IF n = name THEN 2 ELSE s.state[n]
      BY <1>2, <2>3
    <3> QED
      BY <2>3, <3>1, <3>2
  <2> DEFINE x == <<name, MaxImports + 2>>
  <2>6. x \in Places /\ x[1] = name /\ x[2] = MaxImports + 2
    BY <1>2, <2>2 DEF Places
  <2>7. t.state[name] = 2
    BY <1>2, <2>2, <2>3
  <2> HIDE DEF x
  <2>8. x \in Been(t) /\ x \notin Been(s)
    BY <1>2, <2>2, <2>4, <2>6, <2>7 DEF Been
  <2>9. s.from <= t.from
    BY <1>2, <2>3
  <2> QED
    BY <1>1, <2>1, <2>3, <2>5, <2>8, <2>9, StrictProgress
<1>5. CASE s.path = <<>>
  <2> DEFINE n == seq[s.from]
             r == [s EXCEPT !.from = @ + 1]
             t == IF s.state[n] = 0 THEN visit(r, n) ELSE r
  <2>1. s.from <= Len(seq)
    BY <1>1, <1>2, <1>5 DEF Over, PlacesOK
  <2>2. Search(s, seq) = t
    BY <1>5, <2>1 DEF Search
  <2>3. r \in Searches /\ r.from = s.from + 1 /\ r.state = s.state /\ r.next = s.next
    BY <1>1, FromParts
  <2>4. n \in Names
    BY <1>5, <2>1, FromKeeps
  <2> HIDE DEF r, n
  <2>5. /\ t \in Searches /\ t.from = s.from + 1 /\ t.next = s.next
        /\ \A m \in Names : s.state[m] <= t.state[m]
    <3>1. CASE s.state[n] = 0
      <4> DEFINE v == visit(r, n)
      <4>1. t = v
        BY <3>1
      <4>2. /\ v \in Searches /\ v.next = r.next /\ v.from = r.from
            /\ \A m \in Names : r.state[m] <= v.state[m]
        BY <2>3, <2>4, VisitParts
      <4> HIDE DEF t, v
      <4> QED
        BY <2>3, <4>1, <4>2
    <3>2. CASE s.state[n] # 0
      <4>1. \A m \in Names : s.state[m] \in 0..2 /\ s.state[m] <= s.state[m]
        BY <1>2
      <4>2. t = r
        BY <3>2
      <4> HIDE DEF t
      <4> QED
        BY <2>3, <4>1, <4>2
    <3> QED
      BY <3>1, <3>2
  <2> HIDE DEF t
  <2>6. s.from < t.from /\ s.from <= t.from
    BY <1>2, <2>5
  <2>7. \A m \in Names : s.state[m] <= t.state[m] /\ s.next[m] <= t.next[m]
    BY <1>2, <2>5
  <2> QED
    BY <1>1, <2>2, <2>5, <2>6, <2>7, StrictProgress
<1> QED
  BY <1>3, <1>4, <1>5

\* The search has ended after Steps(seq) steps.
LEMMA SearchEnds ==
    ASSUME DependenciesOK, NEW seq \in Seq(Names)
    PROVE  SearchInv(Searched(seq), seq) /\ Over(Searched(seq), seq)
<1>1. PICK f : /\ f[0] = Unvisited
               /\ \A k \in Nat : SearchInv(f[k], seq) /\ f[k + 1] = Search(f[k], seq)
               /\ Searched(seq) = f[Steps(seq)]
  BY SearchedUnfolds
<1> DEFINE n == Steps(seq)
<1>2. n \in Nat /\ Cardinality(Places) + Len(seq) = n /\ Cardinality(Places) \in Nat /\ Len(seq) \in Nat
  BY PlacesFinite, RootAssumption, FS_CardinalityType DEF Steps
<1> HIDE DEF n
<1>3. \A k \in Nat : f[k] \in Searches /\ Progress(f[k]) \in Nat /\ Progress(f[k]) <= n + 1
  <2> TAKE k \in Nat
  <2> DEFINE s == f[k]
  <2>1. s \in Searches /\ s.from \in 1..(Len(seq) + 1)
    BY <1>1 DEF SearchInv, PlacesOK
  <2>2. Cardinality(Been(s)) \in Nat /\ Cardinality(Been(s)) <= Cardinality(Places)
    BY BeenFinite
  <2> HIDE DEF s
  <2>3. Progress(s) \in Nat /\ Progress(s) <= n + 1
    BY <1>2, <2>1, <2>2 DEF Progress
  <2> QED
    BY <2>1, <2>3 DEF s
<1>4. \A k \in Nat : Over(f[k], seq) \/ k + 1 <= Progress(f[k])
  <2> DEFINE T == {k \in Nat : ~(Over(f[k], seq) \/ k + 1 <= Progress(f[k]))}
  <2> SUFFICES ASSUME T # {} PROVE FALSE
    OBVIOUS
  <2>1. PICK k \in T : \A i \in T : k <= i
    BY LeastElement
  <2>2. CASE k = 0
    <3>1. f[0].from = 1
      BY <1>1 DEF Unvisited
    <3>2. Cardinality(Been(f[0])) \in Nat
      BY BeenFinite
    <3> QED
      BY <2>2, <3>1, <3>2 DEF Progress
  <2>3. CASE k # 0
    <3> DEFINE j == k - 1
    <3>1. j \in Nat /\ j \notin T /\ j + 1 = k
      BY <2>1, <2>3
    <3>2. Over(f[j], seq) \/ j + 1 <= Progress(f[j])
      BY <3>1
    <3> HIDE DEF j
    <3>3. SearchInv(f[j], seq) /\ f[k] = Search(f[j], seq)
      BY <1>1, <3>1
    <3>4. CASE Over(f[j], seq)
      <4>1. Search(f[j], seq) = f[j]
        BY <1>2, <3>4 DEF Search, Over
      <4> QED
        BY <3>3, <3>4, <4>1
    <3>5. CASE ~Over(f[j], seq)
      <4>1. Progress(f[j]) + 1 <= Progress(f[k])
        BY <3>3, <3>5, SearchProgresses
      <4>2. Progress(f[j]) \in Nat /\ Progress(f[k]) \in Nat
        BY <1>3, <3>1
      <4> QED
        BY <3>1, <3>2, <3>5, <4>1, <4>2
    <3> QED
      BY <3>4, <3>5
  <2> QED
    BY <2>2, <2>3
<1>5. Over(f[n], seq)
  <2> SUFFICES ASSUME ~Over(f[n], seq) PROVE FALSE
    OBVIOUS
  <2>1. n + 1 <= Progress(f[n])
    BY <1>2, <1>4
  <2>2. Progress(f[n]) + 1 <= Progress(f[n + 1])
    BY <1>1, <1>2, SearchProgresses
  <2>3. Progress(f[n + 1]) <= n + 1 /\ Progress(f[n]) \in Nat /\ Progress(f[n + 1]) \in Nat
    BY <1>2, <1>3
  <2> QED
    BY <1>2, <2>1, <2>2, <2>3
<1> QED
  BY <1>1, <1>2, <1>5 DEF n

\* What a search that did not fail has found.
LEMMA SearchFinds ==
    ASSUME DependenciesOK, NEW seq \in Seq(Names), Searched(seq).ok
    PROVE  LET q == Searched(seq).order
           IN  /\ q \in Seq(Names) /\ Distinct(q) /\ Ordered(q)
               /\ \A i \in 1..Len(seq) : \E j \in 1..Len(q) : q[j] = seq[i]
<1> DEFINE s == Searched(seq)
<1>1. s \in Searches /\ Sound(s, seq, "root") /\ s.path = <<>> /\ s.from = Len(seq) + 1
  BY SearchEnds DEF SearchInv, PlacesOK, Over
<1> HIDE DEF s
<1>2. s.state \in [Names -> 0..2] /\ s.order \in Seq(Names) /\ Len(seq) \in Nat /\ Len(s.path) = 0
  BY <1>1, SearchParts
<1>3. ASSUME NEW i \in 1..Len(seq) PROVE \E j \in 1..Len(s.order) : s.order[j] = seq[i]
  <2>1. seq[i] \in Names /\ i \in 1..(s.from - 1)
    BY <1>1, <1>2
  <2>2. seq[i] # "root"
    BY <2>1, FaultsAssumption
  <2>3. s.state[seq[i]] # 0
    BY <1>1, <2>1, <2>2 DEF Sound
  <2>4. s.state[seq[i]] # 1
    BY <1>1, <1>2, <2>1 DEF Sound
  <2>5. s.state[seq[i]] = 2
    BY <1>2, <2>1, <2>3, <2>4
  <2> QED
    BY <1>1, <2>1, <2>5 DEF Sound
<1> QED
  BY <1>1, <1>2, <1>3 DEF Sound, s

(***************************************************************************)
(* The order and the imports.                                               *)
(***************************************************************************)
DiskOK == files \in [Names -> FileKinds] /\ imports \in [Names -> ImportLists] /\ loaded \in SUBSET Names

LEMMA Imported ==
    ASSUME DiskOK
    PROVE  /\ \A n \in Names : imports[n] \in Seq(Names) /\ Len(imports[n]) <= MaxImports
           /\ DependenciesOK
<1>1. \A q \in ImportLists : q \in Seq(Names) /\ Len(q) <= MaxImports
  BY RootAssumption DEF ImportLists
<1>2. \A n \in Names : imports[n] \in ImportLists
  BY DEF DiskOK
<1>3. <<>> \in Seq(Names) /\ Len(<<>>) = 0 /\ 0 <= MaxImports
  BY EmptySeq, RootAssumption
<1> QED
  BY <1>1, <1>2, <1>3 DEF DependenciesOK, Dependencies

\* Every sequence of the loaded modules has all of them.
LEMMA AllLoaded ==
    ASSUME DiskOK, NEW seq \in SetToSeqs(loaded)
    PROVE  seq \in Seq(Names) /\ \A n \in loaded : \E i \in 1..Len(seq) : seq[i] = n
<1> DEFINE m == Cardinality(loaded)
           D == 1..m
<1>1. IsFiniteSet(loaded) /\ m \in Nat
  BY FaultsAssumption, FS_Subset, FS_CardinalityType DEF DiskOK
<1>2. seq \in [D -> loaded] /\ \A i, j \in D : i # j => seq[i] # seq[j]
  BY DEF SetToSeqs
<1> HIDE DEF m
<1>3. seq \in Seq(Names) /\ Len(seq) = m
  BY <1>1, <1>2 DEF DiskOK
<1>4. IsFiniteSet(D) /\ Cardinality(D) = m
  BY <1>1, FS_Interval
<1> HIDE DEF D
<1>5. seq \in Injection(D, loaded)
  BY <1>2 DEF Injection, IsInjective
<1>6. Cardinality(loaded) = m
  BY DEF m
<1>7. seq \in Surjection(D, loaded)
  BY <1>1, <1>4, <1>5, <1>6, FS_Injection
<1>8. \A n \in loaded : \E i \in D : seq[i] = n
  BY <1>7 DEF Surjection
<1> QED
  BY <1>3, <1>8 DEF D

\* An order of all modules behind their imports leaves no cycle.
LEMMA OrderAcyclic ==
    ASSUME DiskOK, NEW q \in Seq(Names), Ordered(q), \A n \in loaded : \E i \in 1..Len(q) : q[i] = n
    PROVE  Acyclic
<1> SUFFICES ASSUME NEW S \in SUBSET loaded, S # {} PROVE \E n \in S : Range(imports[n]) \cap S = {}
  BY DEF Acyclic
<1> DEFINE T == {i \in 1..Len(q) : q[i] \in S}
<1>1. T \in SUBSET Nat /\ T # {}
  OBVIOUS
<1>2. PICK i \in T : \A j \in T : i <= j
  BY <1>1, LeastElement
<1> DEFINE n == q[i]
<1>3. i \in 1..Len(q) /\ n \in S /\ n \in loaded /\ n \in Names
  BY <1>2 DEF DiskOK
<1>4. imports[n] \in Seq(Names) /\ Dependencies(n) = imports[n]
  BY <1>3, Imported DEF Dependencies
<1>5. ASSUME NEW x \in Range(imports[n]), x \in S PROVE FALSE
  <2>1. PICK k \in 1..Len(imports[n]) : x = imports[n][k]
    BY <1>4, <1>5 DEF Range
  <2>2. PICK j \in 1..(i - 1) : q[j] = x
    BY <1>3, <1>4, <2>1 DEF Ordered
  <2>3. j \in T
    BY <1>3, <1>5, <2>2
  <2> QED
    BY <1>2, <1>3, <2>2, <2>3
<1> QED
  BY <1>3, <1>5

\* Where no cycle is found there is none.
LEMMA NoneFound ==
    ASSUME DiskOK, NEW seq \in SetToSeqs(loaded), ~has_circular_dependencies(seq)
    PROVE  Acyclic
<1> DEFINE q == Searched(seq).order
<1>1. DependenciesOK /\ seq \in Seq(Names) /\ Searched(seq).ok
  BY Imported, AllLoaded DEF has_circular_dependencies
<1>2. /\ q \in Seq(Names) /\ Ordered(q)
      /\ \A i \in 1..Len(seq) : \E j \in 1..Len(q) : q[j] = seq[i]
  BY <1>1, SearchFinds
<1> HIDE DEF q
<1>3. \A n \in loaded : \E i \in 1..Len(q) : q[i] = n
  <2> TAKE n \in loaded
  <2>1. PICK i \in 1..Len(seq) : seq[i] = n
    BY AllLoaded
  <2> QED
    BY <1>2, <2>1
<1> QED
  BY <1>2, <1>3, OrderAcyclic

(***************************************************************************)
(* The search fails only where there is a cycle.                            *)
(***************************************************************************)
Imports(n, d) == \E k \in 1..Len(Dependencies(n)) : Dependencies(n)[k] = d

\* Every name of the path imports the next, and a search that has failed has met a cycle.
Chained(s) ==
    /\ \A p \in 1..(Len(s.path) - 1) : Imports(s.path[p], s.path[p + 1])
    /\ ~s.ok => ~Acyclic

\* A path that comes back to one of its names.
LEMMA CycleFound ==
    ASSUME DiskOK, NEW q \in Seq(Names), NEW name, NEW b \in 1..Len(q), q[b] = name,
           \A p \in 1..(Len(q) - 1) : Imports(q[p], q[p + 1]), Imports(q[Len(q)], name)
    PROVE  ~Acyclic
<1> DEFINE S == {q[p] : p \in b..Len(q)}
<1>1. Len(q) \in Nat /\ b \in Nat /\ 1 <= b /\ b <= Len(q)
  OBVIOUS
<1>2. \A p \in b..Len(q) : \E e \in b..Len(q) : Imports(q[p], q[e])
  <2> TAKE p \in b..Len(q)
  <2>1. CASE p = Len(q)
    BY <1>1, <2>1
  <2>2. CASE p # Len(q)
    <3>1. p \in 1..(Len(q) - 1) /\ p + 1 \in b..Len(q)
      BY <1>1, <2>2
    <3> QED
      BY <3>1
  <2> QED
    BY <2>1, <2>2
<1>3. \A n, d \in Names : Imports(n, d) => n \in loaded /\ d \in Range(imports[n])
  <2> TAKE n, d \in Names
  <2> HAVE Imports(n, d)
  <2>1. PICK k \in 1..Len(Dependencies(n)) : Dependencies(n)[k] = d
    BY DEF Imports
  <2>2. n \in loaded
    <3>1. CASE n \notin loaded
      <4>1. Dependencies(n) = <<>> /\ Len(<<>>) = 0
        BY <3>1 DEF Dependencies
      <4> QED
        BY <2>1, <4>1
    <3> QED
      BY <3>1
  <2>3. Dependencies(n) = imports[n] /\ imports[n] \in Seq(Names)
    BY <2>2, Imported DEF Dependencies
  <2> QED
    BY <2>1, <2>2, <2>3 DEF Range
<1>4. \A p \in b..Len(q) : q[p] \in Names
  BY <1>1
<1>5. \A n \in S : n \in loaded /\ Range(imports[n]) \cap S # {}
  <2> TAKE n \in S
  <2>1. PICK p \in b..Len(q) : q[p] = n
    OBVIOUS
  <2>2. PICK e \in b..Len(q) : Imports(q[p], q[e])
    BY <1>2
  <2>3. n \in loaded /\ q[e] \in Range(imports[n]) /\ q[e] \in S
    BY <1>3, <1>4, <2>1, <2>2
  <2> QED
    BY <2>3
<1>6. name \in S
  BY <1>1
<1> HIDE DEF S
<1> QED
  BY <1>5, <1>6 DEF Acyclic

LEMMA VisitChains ==
    ASSUME DiskOK, NEW seq \in Seq(Names), NEW s, PlacesOK(s, seq), NEW name \in Names,
           s.ok => Sound(s, seq, name), Chained(s), s.path = <<>> \/ Imports(Last(s.path), name)
    PROVE  Chained(visit(s, name))
<1>0. s \in Searches
  BY DEF PlacesOK
<1>1. s.state[name] \in {0, 1, 2} /\ s.path \in Seq(Names) /\ s.ok \in BOOLEAN
  BY <1>0, SearchParts
<1>2. CASE s.state[name] = 0
  <2> DEFINE t == Begun(s, name)
  <2>1. visit(s, name) = t
    BY <1>2 DEF visit, Begun
  <2>2. t.path = Append(s.path, name) /\ t.ok = s.ok
    BY <1>0, BegunParts
  <2> HIDE DEF t
  <2>3. /\ Len(t.path) = Len(s.path) + 1 /\ Len(s.path) \in Nat
        /\ t.path[Len(s.path) + 1] = name
        /\ \A i \in 1..Len(s.path) : t.path[i] = s.path[i]
    BY <1>1, <2>2, Longer
  <2>4. ASSUME NEW p \in 1..(Len(t.path) - 1) PROVE Imports(t.path[p], t.path[p + 1])
    <3>1. CASE p = Len(s.path)
      <4>1. s.path # <<>> /\ Last(s.path) = s.path[p]
        BY <2>3, <2>4, <3>1 DEF Last
      <4>2. t.path[p] = s.path[p] /\ t.path[p + 1] = name
        BY <2>3, <2>4, <3>1
      <4> QED
        BY <4>1, <4>2
    <3>2. CASE p # Len(s.path)
      <4>1. p \in 1..(Len(s.path) - 1) /\ p \in 1..Len(s.path) /\ p + 1 \in 1..Len(s.path)
        BY <2>3, <2>4, <3>2
      <4> QED
        BY <2>3, <4>1 DEF Chained
    <3> QED
      BY <3>1, <3>2
  <2> QED
    BY <2>1, <2>2, <2>4 DEF Chained
<1>3. CASE s.state[name] = 1
  <2>1. ~Acyclic
    <3>1. CASE s.ok
      <4>1. PICK b \in 1..Len(s.path) : s.path[b] = name
        BY <1>3, <3>1 DEF Sound
      <4>2. s.path # <<>>
        BY <4>1
      <4>3. Last(s.path) = s.path[Len(s.path)]
        BY <1>1 DEF Last
      <4>4. \A p \in 1..(Len(s.path) - 1) : Imports(s.path[p], s.path[p + 1])
        BY DEF Chained
      <4> QED
        BY <1>1, <4>1, <4>2, <4>3, <4>4, CycleFound
    <3> QED
      BY <1>1, <3>1 DEF Chained
  <2> DEFINE none == <<>>
             t == [s EXCEPT !.ok = FALSE, !.path = none]
  <2>2. visit(s, name) = t
    BY <1>3 DEF visit
  <2>3. none \in Seq(Names) /\ Len(none) = 0
    OBVIOUS
  <2> HIDE DEF none
  <2>4. t.path = none
    BY <1>0, <2>3 DEF Searches
  <2> HIDE DEF t
  <2>5. \A p \in 1..(Len(t.path) - 1) : FALSE
    BY <2>3, <2>4
  <2> QED
    BY <2>1, <2>2, <2>5 DEF Chained
<1>4. CASE s.state[name] = 2
  BY <1>4 DEF visit
<1> QED
  BY <1>1, <1>2, <1>3, <1>4

LEMMA SearchChains ==
    ASSUME DiskOK, NEW seq \in Seq(Names), NEW s, SearchInv(s, seq), Chained(s)
    PROVE  Chained(Search(s, seq))
<1> DEFINE name == Last(s.path)
           i == s.next[name]
           d == Dependencies(name)[i]
           u == [s EXCEPT !.next[name] = i + 1]
           t == [s EXCEPT !.from = @ + 1]
<1>0. s \in Searches /\ PlacesOK(s, seq) /\ DependenciesOK
  BY Imported DEF SearchInv, PlacesOK
<1>00. s.path \in Seq(Names)
  BY <1>0, SearchParts
<1>1. CASE s.path # <<>> /\ i <= Len(Dependencies(name))
  <2>1. Search(s, seq) = visit(u, d)
    BY <1>1 DEF Search
  <2>2. PlacesOK(u, seq) /\ (u.ok => Sound(u, seq, d)) /\ d \in Names
    BY <1>0, <1>1, NextKeeps
  <2>3. u.path = s.path /\ u.ok = s.ok
    BY <1>0 DEF Searches
  <2>4. Imports(name, d)
    <3>1. name \in Names
      BY <1>00, <1>1, Shorter
    <3>2. i \in 1..Len(Dependencies(name))
      BY <1>0, <1>1, <3>1 DEF PlacesOK, DependenciesOK
    <3> QED
      BY <3>2 DEF Imports
  <2>5. Chained(u)
    BY <2>3 DEF Chained
  <2>6. Imports(Last(u.path), d)
    BY <2>3, <2>4
  <2> HIDE DEF u, d
  <2> QED
    BY <2>1, <2>2, <2>5, <2>6, VisitChains
<1>2. CASE s.path # <<>> /\ ~(i <= Len(Dependencies(name)))
  <2>1. Search(s, seq) = visited(s, name)
    BY <1>2 DEF Search
  <2>2. name \in Names
    BY <1>00, <1>2, Shorter
  <2>3. visited(s, name).path = Front(s.path) /\ visited(s, name).ok = s.ok
    BY <1>0, <1>2, <2>2, VisitedParts
  <2>4. /\ Len(Front(s.path)) = Len(s.path) - 1 /\ Len(s.path) \in Nat
        /\ \A p \in 1..(Len(s.path) - 1) : Front(s.path)[p] = s.path[p]
    BY <1>00, <1>2, Shorter
  <2>5. \A p \in 1..(Len(s.path) - 1 - 1) : Imports(Front(s.path)[p], Front(s.path)[p + 1])
    <3> TAKE p \in 1..(Len(s.path) - 1 - 1)
    <3>1. p \in 1..(Len(s.path) - 1) /\ p + 1 \in 1..(Len(s.path) - 1)
      BY <2>4
    <3> QED
      BY <2>4, <3>1 DEF Chained
  <2> QED
    BY <2>1, <2>3, <2>4, <2>5 DEF Chained
<1>3. CASE s.path = <<>> /\ s.from <= Len(seq)
  <2> DEFINE n == seq[s.from]
  <2>1. Search(s, seq) = IF s.state[n] = 0 THEN visit(t, n) ELSE t
    BY <1>3 DEF Search
  <2>2. PlacesOK(t, seq) /\ (t.ok => Sound(t, seq, n)) /\ n \in Names
    BY <1>3, FromKeeps
  <2>3. t.path = s.path /\ t.ok = s.ok
    BY <1>0, FromParts
  <2>4. Chained(t)
    BY <2>3 DEF Chained
  <2>5. t.path = <<>>
    BY <1>3, <2>3
  <2> HIDE DEF t, n
  <2> QED
    BY <2>1, <2>2, <2>4, <2>5, VisitChains
<1>4. CASE s.path = <<>> /\ ~(s.from <= Len(seq))
  BY <1>4 DEF Search
<1> QED
  BY <1>1, <1>2, <1>3, <1>4

\* Where there is no cycle none is found.
LEMMA NoneMissed ==
    ASSUME DiskOK, NEW seq \in Seq(Names), Acyclic
    PROVE  Searched(seq).ok
<1>1. PICK f : /\ f[0] = Unvisited
               /\ \A k \in Nat : SearchInv(f[k], seq) /\ f[k + 1] = Search(f[k], seq)
               /\ Searched(seq) = f[Steps(seq)]
  BY Imported, SearchedUnfolds
<1>2. Steps(seq) \in Nat
  BY PlacesFinite, FaultsAssumption, RootAssumption, FS_CardinalityType DEF Steps
<1>3. \A k \in Nat : Chained(f[k])
  <2> DEFINE T == {k \in Nat : ~Chained(f[k])}
  <2> SUFFICES ASSUME T # {} PROVE FALSE
    OBVIOUS
  <2>1. PICK k \in T : \A i \in T : k <= i
    BY LeastElement
  <2>2. CASE k = 0
    <3>1. Unvisited.path = <<>> /\ Unvisited.ok
      BY DEF Unvisited
    <3>2. \A p \in 1..(Len(Unvisited.path) - 1) : FALSE
      BY <3>1
    <3>3. Chained(Unvisited)
      BY <3>1, <3>2 DEF Chained
    <3> QED
      BY <1>1, <2>1, <2>2, <3>3
  <2>3. CASE k # 0
    <3>1. k - 1 \in Nat /\ k - 1 \notin T
      BY <2>1, <2>3
    <3>2. Chained(f[k - 1]) /\ SearchInv(f[k - 1], seq) /\ f[k] = Search(f[k - 1], seq)
      BY <1>1, <3>1
    <3> QED
      BY <2>1, <3>2, SearchChains
  <2> QED
    BY <2>2, <2>3
<1> QED
  BY <1>1, <1>2, <1>3 DEF Chained

(***************************************************************************)
(* The calls of __init__, taken from the order.                             *)
(***************************************************************************)
\* The calls for the first k names of the order.
CallsFor(c, order, k) ==
    /\ c \in Seq(loaded) /\ Distinct(c)
    /\ \A n \in loaded : (\E i \in 1..Len(c) : c[i] = n) <=> \E j \in 1..k : order[j] = n
    /\ \A i \in 1..Len(c) : \A d \in Range(imports[c[i]]) \cap loaded : \E j \in 1..(i - 1) : c[j] = d

LEMMA CallsGrow ==
    ASSUME DiskOK, NEW order \in Seq(Names), Distinct(order), Ordered(order),
           NEW k \in Nat, k + 1 \in 1..Len(order), NEW c, CallsFor(c, order, k)
    PROVE  CallsFor(IF order[k + 1] \in loaded THEN Append(c, order[k + 1]) ELSE c, order, k + 1)
<1> DEFINE x == order[k + 1]
           m == Len(c)
<1>1. /\ c \in Seq(loaded) /\ m \in Nat /\ Distinct(c) /\ x \in Names
      /\ \A i \in 1..m : c[i] \in loaded
  BY DEF CallsFor
<1>2. \A n : (\E j \in 1..(k + 1) : order[j] = n) <=> (n = x \/ \E j \in 1..k : order[j] = n)
  <2>1. \A j : j \in 1..(k + 1) <=> (j = k + 1 \/ j \in 1..k)
    OBVIOUS
  <2> QED
    BY <2>1
<1>3. CASE x \notin loaded
  <2>1. \A n \in loaded : (\E i \in 1..m : c[i] = n) <=> \E j \in 1..(k + 1) : order[j] = n
    BY <1>2, <1>3 DEF CallsFor
  <2> QED
    BY <1>3, <2>1 DEF CallsFor
<1>4. CASE x \in loaded
  <2> DEFINE e == Append(c, x)
  <2>1. /\ e \in Seq(loaded) /\ Len(e) = m + 1 /\ e[m + 1] = x
        /\ \A i \in 1..m : e[i] = c[i]
    BY <1>1, <1>4, Longer
  <2>2. \A i : i \in 1..(m + 1) <=> (i = m + 1 \/ i \in 1..m)
    BY <1>1
  <2>3. \A j \in 1..k : order[j] # x
    <3> TAKE j \in 1..k
    <3>1. j \in 1..Len(order) /\ j # k + 1
      OBVIOUS
    <3> QED
      BY <3>1 DEF Distinct
  <2>4. \A i \in 1..m : c[i] # x
    BY <1>4, <2>3 DEF CallsFor
  <2> HIDE DEF e, m
  <2>5. Distinct(e)
    <3> SUFFICES ASSUME NEW i \in 1..Len(e), NEW j \in 1..Len(e), e[i] = e[j] PROVE i = j
      BY DEF Distinct
    <3>1. CASE i \in 1..m /\ j \in 1..m
      BY <1>1, <2>1, <3>1 DEF Distinct, m
    <3>2. CASE i = m + 1 \/ j = m + 1
      BY <2>1, <2>2, <2>4, <3>2
    <3> QED
      BY <2>1, <2>2, <3>1, <3>2
  <2>6. \A n \in loaded : (\E i \in 1..Len(e) : e[i] = n) <=> \E j \in 1..(k + 1) : order[j] = n
    <3> TAKE n \in loaded
    <3>1. (\E i \in 1..Len(e) : e[i] = n) <=> (n = x \/ \E i \in 1..m : c[i] = n)
      BY <2>1, <2>2
    <3>2. (\E i \in 1..m : c[i] = n) <=> \E j \in 1..k : order[j] = n
      BY DEF CallsFor, m
    <3> QED
      BY <1>2, <3>1, <3>2
  <2>7. ASSUME NEW i \in 1..Len(e), NEW d \in Range(imports[e[i]]) \cap loaded
        PROVE  \E j \in 1..(i - 1) : e[j] = d
    <3>1. CASE i \in 1..m
      <4>1. PICK j \in 1..(i - 1) : c[j] = d
        BY <2>1, <2>7, <3>1 DEF CallsFor, m
      <4>2. j \in 1..m
        BY <1>1, <3>1
      <4> QED
        BY <2>1, <4>1, <4>2
    <3>2. CASE i = m + 1
      <4>1. d \in Range(imports[x])
        BY <2>1, <2>7, <3>2
      <4>2. imports[x] \in Seq(Names) /\ Dependencies(x) = imports[x]
        BY <1>1, <1>4, Imported DEF Dependencies
      <4>3. PICK p \in 1..Len(Dependencies(x)) : Dependencies(x)[p] = d
        BY <4>1, <4>2 DEF Range
      <4>4. PICK j \in 1..(k + 1 - 1) : order[j] = d
        BY <4>3 DEF Ordered
      <4>5. PICK a \in 1..m : c[a] = d
        BY <2>7, <4>4 DEF CallsFor, m
      <4>6. a \in 1..(i - 1)
        BY <1>1, <3>2
      <4> QED
        BY <2>1, <4>5, <4>6
    <3> QED
      BY <2>1, <2>2, <3>1, <3>2
  <2>8. CallsFor(e, order, k + 1)
    BY <2>1, <2>5, <2>6, <2>7 DEF CallsFor
  <2> QED
    BY <1>4, <2>8 DEF e
<1> QED
  BY <1>3, <1>4

LEMMA CallsMade ==
    ASSUME DiskOK, NEW order \in Seq(Names), Distinct(order), Ordered(order)
    PROVE  CallsFor(init_calls(order), order, Len(order))
<1> DEFINE S == Seq(loaded)
           next(k, c) == IF order[k] \in loaded THEN Append(c, order[k]) ELSE c
           g == [p \in Nat \X S |-> next(p[1], p[2])]
           Body(f) == [k \in Nat |-> IF k = 0 THEN <<>>
                                     ELSE IF order[k] \in loaded THEN Append(f[k - 1], order[k])
                                                                 ELSE f[k - 1]]
           h == CHOOSE f : f = Body(f)
<1>1. init_calls(order) = h[Len(order)]
  BY DEF init_calls
<1>2. g \in [Nat \X S -> S] /\ \A k \in Nat, c \in S : g[<<k, c>>] = next(k, c)
  <2>1. \A k \in Nat, c \in S : next(k, c) \in S
    OBVIOUS
  <2> HIDE DEF next, S
  <2> QED
    BY <2>1
<1>3. <<>> \in S
  BY EmptySeq
<1> HIDE DEF g, S
<1>4. PICK f : IteratedAlways(S, <<>>, g, f)
  BY <1>2, <1>3, IterationExists
<1>5. f = Body(f)
  <2>1. \A k \in Nat : f[k] = IF k = 0 THEN <<>> ELSE next(k, f[k - 1])
    <3> TAKE k \in Nat
    <3>1. k # 0 => k - 1 \in Nat /\ f[k - 1] \in S
      BY <1>4 DEF IteratedAlways
    <3> HIDE DEF next
    <3> QED
      BY <1>2, <1>4, <3>1 DEF IteratedAlways
  <2>2. f = [k \in Nat |-> f[k]]
    BY <1>4 DEF IteratedAlways
  <2> QED
    BY <2>1, <2>2
<1>6. h = Body(h)
  BY <1>5
<1> HIDE DEF h
<1>7. h[0] = <<>> /\ \A k \in Nat : h[k + 1] = next(k + 1, h[k])
  <2>1. \A k \in Nat : h[k] = IF k = 0 THEN <<>>
                              ELSE IF order[k] \in loaded THEN Append(h[k - 1], order[k]) ELSE h[k - 1]
    BY <1>6
  <2> QED
    BY <2>1
<1>8. \A k \in Nat : k <= Len(order) => CallsFor(h[k], order, k)
  <2> DEFINE T == {k \in Nat : k <= Len(order) /\ ~CallsFor(h[k], order, k)}
  <2> SUFFICES ASSUME T # {} PROVE FALSE
    OBVIOUS
  <2>1. PICK k \in T : \A i \in T : k <= i
    BY LeastElement
  <2>2. CASE k = 0
    <3> DEFINE none == <<>>
    <3>1. none \in Seq(loaded) /\ Len(none) = 0
      BY EmptySeq
    <3> HIDE DEF none
    <3>2. CallsFor(none, order, 0)
      BY <3>1 DEF CallsFor, Distinct
    <3> QED
      BY <1>7, <2>1, <2>2, <3>2 DEF none
  <2>3. CASE k # 0
    <3> DEFINE j == k - 1
    <3>1. j \in Nat /\ j + 1 = k /\ j \notin T /\ j <= Len(order) /\ j + 1 \in 1..Len(order)
      BY <2>1, <2>3
    <3> HIDE DEF j
    <3>2. CallsFor(h[j], order, j) /\ h[j + 1] = next(j + 1, h[j])
      BY <1>7, <3>1
    <3>3. CallsFor(h[j + 1], order, j + 1)
      BY <3>1, <3>2, CallsGrow
    <3> QED
      BY <2>1, <3>1, <3>3
  <2> QED
    BY <2>2, <2>3
<1> QED
  BY <1>1, <1>8

\* The order of a program without cycles, all of whose imports are there.
LEMMA CallsInOrder ==
    ASSUME DiskOK, Acyclic, \A n \in loaded : Range(imports[n]) \subseteq loaded,
           NEW seq \in SetToSeqs(loaded)
    PROVE  LET c == init_calls(get_topological_order(seq))
           IN  /\ IsInjective(c) /\ Range(c) = loaded
               /\ \A i \in DOMAIN c : \A n \in Range(imports[c[i]]) : \E j \in 1..(i - 1) : c[j] = n
<1> DEFINE q == Searched(seq).order
           c == init_calls(q)
<1>1. DependenciesOK /\ seq \in Seq(Names) /\ \A n \in loaded : \E i \in 1..Len(seq) : seq[i] = n
  BY Imported, AllLoaded
<1>2. Searched(seq).ok
  BY <1>1, NoneMissed
<1>3. /\ q \in Seq(Names) /\ Distinct(q) /\ Ordered(q)
      /\ \A i \in 1..Len(seq) : \E j \in 1..Len(q) : q[j] = seq[i]
  BY <1>1, <1>2, SearchFinds
<1>4. get_topological_order(seq) = q
  BY DEF get_topological_order
<1> HIDE DEF q
<1>5. CallsFor(c, q, Len(q))
  BY <1>3, CallsMade
<1> HIDE DEF c
<1>6. c \in Seq(loaded) /\ DOMAIN c = 1..Len(c) /\ \A i \in 1..Len(c) : c[i] \in loaded
  BY <1>5 DEF CallsFor
<1>7. IsInjective(c)
  BY <1>5, <1>6 DEF CallsFor, Distinct, IsInjective
<1>8. Range(c) = loaded
  <2>1. \A n \in loaded : \E i \in 1..Len(c) : c[i] = n
    <3> TAKE n \in loaded
    <3>1. \E j \in 1..Len(q) : q[j] = n
      BY <1>1, <1>3
    <3> QED
      BY <1>5, <3>1 DEF CallsFor
  <2> QED
    BY <1>6, <2>1 DEF Range
<1>9. \A i \in 1..Len(c) : \A n \in Range(imports[c[i]]) : \E j \in 1..(i - 1) : c[j] = n
  BY <1>5, <1>6 DEF CallsFor
<1> QED
  BY <1>4, <1>6, <1>7, <1>8, <1>9 DEF c

(***************************************************************************)
(* The invariant of a compilation.                                          *)
(***************************************************************************)
Stages == {"parse", "resolve", "clear", "check", "checker", "checking", "memory", "generate",
           "run", "exit"}

Checkers == [who : Names \cup {"root"}, errors : BOOLEAN]

CompileTypeOK ==
    /\ DiskOK
    /\ faults \in [Names -> Faults] /\ rootFault \in RootFaults
    /\ stage \in Stages /\ round \in Nat /\ hadError \in BOOLEAN
    /\ checked \in SUBSET loaded /\ stack \in Seq(Checkers) /\ checks \in [Names -> Nat]

\* Which modules there are, and which of them are checked.
LoadedOK ==
    /\ stage \in {"parse", "resolve", "check"} => loaded = {}
    /\ stage \in {"checker", "checking", "memory", "generate", "run"} => loaded = Resolved
    /\ stage = "checker" => checked = {}
    /\ stage \in {"memory", "generate", "run"} => loaded \subseteq checked

AtWork == {stack[i].who : i \in 1..Len(stack)}

Ended == checked \ AtWork

\* The checker of the root program has begun those of the modules, each of which is at work,
\* ended, or still to begin.
StackOK ==
    /\ stage = "checking" => stack # <<>> /\ stack[1].who = "root"
    /\ stage # "checking" => stack = <<>>
    /\ \A i, j \in 1..Len(stack) : stack[i].who = stack[j].who => i = j
    /\ \A i \in 2..Len(stack) : stack[i].who \in checked
    /\ \A n \in Names : checks[n] = IF n \in Ended THEN 1 ELSE 0

\* The program itself has no error that its checker reports.
Clean(who) == FaultOf(who) # "type" /\ Range(ImportsOf(who)) \subseteq loaded

\* The outermost checker remembers a cycle.  A checker ends only when all have begun, so no reset
\* of the flag comes after it, and the flag remembers the errors of all that have ended.
ErrorsKept ==
    /\ stage = "checking" /\ ~Acyclic => stack[1].errors
    /\ Ended # {} => loaded \subseteq checked
    /\ stage = "checking" /\ ~hadError => \A n \in Ended : Clean(n)
    /\ stage \in {"memory", "generate", "run"} =>
          Acyclic /\ Clean("root") /\ \A n \in loaded : Clean(n)

\* What the stages before have found of the root program.
RoundOK ==
    /\ stage \notin {"parse", "exit"} => rootFault # "syntax"
    /\ stage \in {"parse", "resolve"} => round = 0
    /\ stage \in {"check", "checker", "checking", "memory"} => round >= 1
    /\ stage \in {"generate", "run"} => round >= 2
    /\ stage \notin {"clear", "exit"} /\ round >= 2 => rootFault # "memory"
    /\ stage = "clear" /\ round >= 1 => rootFault # "memory"

CompileInv == CompileTypeOK /\ LoadedOK /\ StackOK /\ ErrorsKept /\ RoundOK

LEMMA InitOK == CompileInit => CompileInv
<1> SUFFICES ASSUME CompileInit PROVE CompileInv
  OBVIOUS
<1>1. stack = <<>> /\ stack \in Seq(Checkers) /\ Len(stack) = 0
  BY EmptySeq DEF CompileInit
<1>2. CompileTypeOK
  BY <1>1 DEF CompileInit, LoadingInit, DiskInit, CompileTypeOK, DiskOK, Stages
<1>3. StackOK
  BY <1>1 DEF CompileInit, StackOK, Ended
<1>4. LoadedOK /\ ErrorsKept /\ RoundOK
  BY DEF CompileInit, LoadingInit, LoadedOK, ErrorsKept, RoundOK, Ended
<1> QED
  BY <1>2, <1>3, <1>4 DEF CompileInv

\* What the files say stays the same.
LEMMA InputKept ==
    UNCHANGED <<files, imports>> =>
        /\ Resolved' = Resolved
        /\ loaded' = loaded => (Acyclic' <=> Acyclic)
        /\ loaded' = loaded /\ UNCHANGED <<faults, rootFault>> => \A n : Clean(n)' <=> Clean(n)
  BY DEF Resolved, Reachable, Closed, Acyclic, Clean, FaultOf, ImportsOf

LEMMA ResolvedNames == Resolved \in SUBSET Names
  BY DEF Resolved, Reachable

LEMMA AfterResolve ==
    resolve_modules => \/ stage' = "exit"
                       \/ stage = "resolve" /\ stage' = "clear"
                       \/ stage = "check" /\ stage' = "checker" /\ loaded' = Resolved
  BY DEF resolve_modules, Resolve

\* The steps that start or end no checker of a module.
LEMMA StagesKeep ==
    ASSUME CompileInv,
           parse \/ resolve_modules \/ factory_check_program \/ memory_check \/ generate_program
    PROVE  CompileInv'
<1> USE DEF CompileInv
<1>0. UNCHANGED <<files, imports, faults, rootFault, stack>>
  BY DEF parse, resolve_modules, Resolve, factory_check_program, memory_check, generate_program,
         input, checker
<1>1. stage # "checking" /\ stack = <<>> /\ Len(stack) = 0
  BY DEF parse, resolve_modules, factory_check_program, memory_check, generate_program, StackOK
<1>2. stage' # "checking"
  BY DEF parse, resolve_modules, factory_check_program, memory_check, generate_program
<1>3. CompileTypeOK'
  <2>1. DiskOK'
    BY <1>0, ResolvedNames DEF DiskOK, CompileTypeOK, parse, resolve_modules, Resolve, factory_check_program,
         memory_check, generate_program, manager
  <2>2. stage' \in Stages /\ round' \in Nat
    <3>1. CASE resolve_modules
      BY <3>1, AfterResolve DEF CompileTypeOK, Stages, resolve_modules
    <3>2. CASE parse \/ factory_check_program \/ memory_check \/ generate_program
      BY <3>2 DEF CompileTypeOK, Stages, parse, factory_check_program, memory_check, generate_program
    <3> QED
      BY <3>1, <3>2
  <2>3. checked' \in SUBSET loaded'
    BY DEF CompileTypeOK, LoadedOK, parse, resolve_modules, factory_check_program,
           memory_check, generate_program, checker, manager
  <2>4. hadError' \in BOOLEAN
    BY DEF CompileTypeOK, parse, resolve_modules, factory_check_program,
           memory_check, generate_program, error, debugger
  <2>5. checks' \in [Names -> Nat]
    <3>1. CASE factory_check_program
      BY <3>1 DEF factory_check_program
    <3>2. CASE parse \/ resolve_modules \/ memory_check \/ generate_program
      BY <3>2 DEF CompileTypeOK, parse, resolve_modules, memory_check, generate_program, checker
    <3> QED
      BY <3>1, <3>2
  <2> QED
    BY <1>0, <2>1, <2>2, <2>3, <2>4, <2>5 DEF CompileTypeOK
<1>4. LoadedOK'
  <2>1. Resolved' = Resolved
    BY <1>0, InputKept
  <2>2. CASE resolve_modules
    BY <2>1, <2>2 DEF LoadedOK, resolve_modules, Resolve, CompileTypeOK, checker
  <2>3. CASE parse \/ factory_check_program \/ memory_check \/ generate_program
    BY <2>1, <2>3 DEF LoadedOK, parse, factory_check_program, memory_check, generate_program,
                      manager, checker
  <2> QED
    BY <2>2, <2>3
<1>5. StackOK'
  <2>1. \A n \in Names : checks'[n] = IF n \in Ended' THEN 1 ELSE 0
    <3>1. CASE factory_check_program
      BY <3>1 DEF factory_check_program, Ended
    <3>2. CASE parse \/ resolve_modules \/ memory_check \/ generate_program
      <4>1. Ended' = Ended /\ checks' = checks
        BY <3>2 DEF Ended, AtWork, parse, resolve_modules, memory_check, generate_program, checker
      <4> QED
        BY <4>1 DEF StackOK
    <3> QED
      BY <3>1, <3>2
  <2> QED
    BY <1>0, <1>1, <1>2, <2>1 DEF StackOK
<1>6. ErrorsKept'
  <2>1. CASE parse \/ memory_check \/ generate_program
    <3>1. loaded' = loaded /\ Ended' = Ended /\ checked' = checked
      BY <2>1 DEF Ended, AtWork, parse, memory_check, generate_program, manager, checker
    <3>2. (Acyclic' <=> Acyclic) /\ \A n : Clean(n)' <=> Clean(n)
      BY <1>0, <3>1, InputKept
    <3>3. stage' \in {"memory", "generate", "run"} => stage \in {"memory", "generate", "run"}
      BY <2>1 DEF parse, memory_check, generate_program
    <3> QED
      BY <1>2, <3>1, <3>2, <3>3 DEF ErrorsKept
  <2>2. CASE resolve_modules \/ factory_check_program
    <3>1. Ended' = {}
      BY <2>2 DEF Ended, resolve_modules, factory_check_program, checker, LoadedOK, CompileTypeOK
    <3>2. stage' \notin {"memory", "generate", "run"}
      BY <2>2 DEF resolve_modules, factory_check_program
    <3> QED
      BY <1>2, <3>1, <3>2 DEF ErrorsKept
  <2> QED
    BY <2>1, <2>2
<1>7. RoundOK'
  <2>1. CASE resolve_modules
    BY <1>0, <2>1, AfterResolve DEF RoundOK, resolve_modules
  <2>2. CASE parse \/ generate_program
    BY <1>0, <2>2 DEF RoundOK, parse, generate_program
  <2>3. CASE factory_check_program
    BY <1>0, <2>3 DEF RoundOK, CompileTypeOK, factory_check_program
  <2>4. CASE memory_check
    BY <1>0, <2>4 DEF RoundOK, memory_check, error
  <2> QED
    BY <2>1, <2>2, <2>3, <2>4
<1> QED
  BY <1>3, <1>4, <1>5, <1>6, <1>7

\* A checker begins: it knows of the cycle if there is one.
LEMMA Started ==
    ASSUME CompileInv, NEW who \in Names \cup {"root"}, start_checker(who)
    PROVE  \E c \in Checkers : /\ c.who = who /\ stack' = Append(stack, c) /\ hadError' = c.errors
                               /\ ~c.errors => Acyclic
<1>1. PICK circular \in {has_circular_dependencies(seq) : seq \in SetToSeqs(loaded)} :
          stack' = Append(stack, [who |-> who, errors |-> circular]) /\ hadError' = circular
  BY DEF start_checker
<1>2. PICK seq \in SetToSeqs(loaded) : circular = has_circular_dependencies(seq)
  BY <1>1
<1>3. circular \in BOOLEAN
  BY <1>2 DEF has_circular_dependencies
<1>4. ~circular => Acyclic
  BY <1>2, NoneFound DEF CompileInv, CompileTypeOK
<1>5. [who |-> who, errors |-> circular] \in Checkers
  BY <1>3 DEF Checkers
<1> QED
  BY <1>1, <1>4, <1>5

LEMMA CheckersStart ==
    ASSUME CompileInv, check_root \/ check_module
    PROVE  CompileInv'
<1> USE DEF CompileInv
<1>1. UNCHANGED <<files, imports, faults, rootFault, loaded, round, checks>> /\ stage' = "checking"
  BY DEF check_root, check_module, input, manager
<1>2. /\ Resolved' = Resolved /\ (Acyclic' <=> Acyclic)
  BY <1>1, InputKept
<1>3. /\ stack \in Seq(Checkers) /\ Len(stack) \in Nat /\ \A i \in 1..Len(stack) : stack[i] \in Checkers
      /\ checked \in SUBSET Names /\ "root" \notin Names
  BY FaultsAssumption DEF CompileTypeOK, DiskOK
<1>4. PICK who \in Names \cup {"root"} :
          /\ start_checker(who)
          /\ \/ who = "root" /\ check_root /\ checked' = checked
             \/ who \in loaded \ checked /\ check_module /\ checked' = checked \cup {who}
  BY DEF check_root, check_module, CompileTypeOK, DiskOK
<1>5. PICK c \in Checkers : /\ c.who = who /\ stack' = Append(stack, c) /\ hadError' = c.errors
                            /\ ~c.errors => Acyclic
  BY <1>4, Started
<1> DEFINE n == Len(stack)
<1>6. /\ stack' \in Seq(Checkers) /\ Len(stack') = n + 1 /\ stack'[n + 1] = c
      /\ \A i \in 1..n : stack'[i] = stack[i]
  BY <1>3, <1>5, Longer
<1>7. \A i \in 1..n : stack[i].who \in checked \cup {"root"}
  BY DEF StackOK
<1>8. who \notin AtWork /\ who \notin checked
  <2>1. CASE who = "root" /\ check_root
    BY <1>3, <2>1 DEF check_root, StackOK, AtWork
  <2>2. CASE who \in loaded \ checked
    BY <1>3, <1>7, <2>2 DEF AtWork, CompileTypeOK, DiskOK
  <2> QED
    BY <1>4, <2>1, <2>2
<1>9. AtWork' = AtWork \cup {who}
  <2>1. \A x : x \in AtWork' <=> \E i \in 1..(n + 1) : x = stack'[i].who
    BY <1>6 DEF AtWork
  <2>2. \A x : x \in AtWork <=> \E i \in 1..n : x = stack[i].who
    BY DEF AtWork
  <2>3. \A i \in 1..(n + 1) : i = n + 1 \/ i \in 1..n
    BY <1>3
  <2>4. n + 1 \in 1..(n + 1) /\ \A i \in 1..n : i \in 1..(n + 1)
    BY <1>3
  <2> HIDE DEF n
  <2> QED
    BY <1>5, <1>6, <2>1, <2>2, <2>3, <2>4
<1>10. Ended' = {} /\ Ended = {}
  <2>1. Ended = {}
    <3>1. CASE who = "root" /\ check_root
      BY <3>1 DEF check_root, LoadedOK, Ended
    <3>2. CASE who \in loaded \ checked
      BY <3>2 DEF ErrorsKept
    <3> QED
      BY <1>4, <3>1, <3>2
  <2> QED
    BY <1>4, <1>9, <2>1 DEF Ended
<1>11. CompileTypeOK'
  BY <1>1, <1>4, <1>5, <1>6 DEF CompileTypeOK, DiskOK, Stages, Checkers
<1>12. LoadedOK'
  <2>1. stage \in {"checker", "checking"}
    BY DEF check_root, check_module
  <2> QED
    BY <1>1, <1>2, <2>1 DEF LoadedOK
<1>13. StackOK'
  <2>1. stack' # <<>> /\ stack'[1].who = "root"
    <3>1. stack' # <<>>
      BY <1>3, <1>6
    <3>2. CASE who = "root" /\ check_root
      BY <1>5, <1>6, <3>2 DEF check_root, StackOK
    <3>3. CASE check_module
      BY <1>3, <1>6, <3>3 DEF check_module, StackOK
    <3> QED
      BY <1>4, <3>1, <3>2, <3>3
  <2>2. ASSUME NEW i \in 1..Len(stack'), NEW j \in 1..Len(stack'), stack'[i].who = stack'[j].who
        PROVE  i = j
    <3>1. \A k \in 1..n : stack'[k].who # who
      BY <1>6, <1>8 DEF AtWork
    <3>2. CASE i \in 1..n /\ j \in 1..n
      BY <1>6, <2>2, <3>2 DEF StackOK
    <3> QED
      BY <1>3, <1>5, <1>6, <2>2, <3>1, <3>2
  <2>3. ASSUME NEW i \in 2..Len(stack') PROVE stack'[i].who \in checked'
    <3>1. CASE i \in 2..n
      BY <1>4, <1>6, <3>1 DEF StackOK
    <3>2. CASE i = n + 1
      <4>1. check_module
        BY <1>3, <1>4, <2>3, <3>2 DEF check_root, StackOK
      <4>2. who # "root"
        <5>1. ~check_root /\ loaded \subseteq Names
          BY <4>1 DEF check_module, check_root, CompileTypeOK, DiskOK
        <5> QED
          BY <1>3, <1>4, <5>1
      <4> QED
        BY <1>4, <1>5, <1>6, <3>2, <4>2
    <3> QED
      BY <1>3, <1>6, <3>1, <3>2
  <2>4. \A x \in Names : checks'[x] = IF x \in Ended' THEN 1 ELSE 0
    BY <1>1, <1>10 DEF StackOK
  <2> QED
    BY <1>1, <2>1, <2>2, <2>3, <2>4 DEF StackOK
<1>14. ErrorsKept'
  <2>1. ASSUME ~Acyclic PROVE stack'[1].errors
    <3>1. CASE who = "root" /\ check_root
      BY <1>5, <1>6, <2>1, <3>1 DEF check_root, StackOK
    <3>2. CASE check_module
      BY <1>3, <1>6, <2>1, <3>2 DEF check_module, StackOK, ErrorsKept
    <3> QED
      BY <1>4, <3>1, <3>2
  <2> QED
    BY <1>1, <1>2, <1>10, <2>1 DEF ErrorsKept
<1>15. RoundOK'
  BY <1>1 DEF RoundOK, check_root, check_module
<1> QED
  BY <1>11, <1>12, <1>13, <1>14, <1>15

\* The innermost checker ends, and reports the errors of its program.
LEMMA Finished ==
    ASSUME CompileInv, finish_checker
    PROVE  LET me == Last(stack)
               n == Len(stack) - 1
           IN  /\ n \in Nat /\ me = stack[n + 1] /\ me \in Checkers
               /\ stack' \in Seq(Checkers) /\ Len(stack') = n
               /\ \A i \in 1..n : stack'[i].who = stack[i].who /\ (stack[i].errors => stack'[i].errors)
               /\ hadError' \in BOOLEAN /\ (hadError => hadError') /\ (~hadError' => Clean(me.who))
               /\ stage' = IF n # 0 THEN "checking"
                           ELSE IF hadError' \/ me.errors THEN "exit"
                           ELSE IF round = 1 THEN "memory" ELSE "generate"
               /\ checks' = IF me.who = "root" THEN checks ELSE [checks EXCEPT ![me.who] = @ + 1]
<1> DEFINE me == Last(stack)
           outer == Front(stack)
           n == Len(stack) - 1
<1>1. stage = "checking" /\ stack \in Seq(Checkers) /\ stack # <<>> /\ hadError \in BOOLEAN
  BY DEF finish_checker, CompileInv, CompileTypeOK, StackOK
<1>2. /\ outer \in Seq(Checkers) /\ Len(outer) = n /\ Len(stack) \in Nat \ {0}
      /\ \A i \in 1..n : outer[i] = stack[i]
      /\ me = stack[Len(stack)] /\ me \in Checkers
  BY <1>1, Shorter
<1>3. n \in Nat /\ n + 1 = Len(stack)
  BY <1>2
<1>4. PICK own \in OwnErrors(me.who) :
          /\ error(own)
          /\ stack' = [i \in DOMAIN outer |->
                          IF i = Len(outer) THEN [outer[i] EXCEPT !.errors = @ \/ hadError'] ELSE outer[i]]
          /\ stage' = IF outer # <<>> THEN stage
                      ELSE IF hadError' \/ me.errors \/ own THEN "exit"
                      ELSE IF round = 1 THEN "memory" ELSE "generate"
          /\ checks' = IF me.who = "root" THEN checks ELSE [checks EXCEPT ![me.who] = @ + 1]
  BY DEF finish_checker
<1>5. own \in BOOLEAN /\ (~own => Clean(me.who))
  <2>1. own \in BOOLEAN
    BY <1>4 DEF OwnErrors
  <2>2. ASSUME ~own PROVE Clean(me.who)
    <3>1. /\ ~\E x \in Range(ImportsOf(me.who)) : x \notin loaded
          /\ FaultOf(me.who) # "type"
      BY <1>4, <2>2 DEF OwnErrors
    <3> QED
      BY <3>1 DEF Clean
  <2> QED
    BY <2>1, <2>2
<1>6. hadError' = (hadError \/ own)
  BY <1>4 DEF error
<1>7. hadError' \in BOOLEAN /\ (hadError => hadError') /\ (~hadError' => Clean(me.who))
  BY <1>1, <1>5, <1>6
<1>8. outer # <<>> <=> n # 0
  BY <1>2
<1>9. stage' = IF n # 0 THEN "checking"
               ELSE IF hadError' \/ me.errors THEN "exit"
               ELSE IF round = 1 THEN "memory" ELSE "generate"
  BY <1>1, <1>4, <1>6, <1>8
<1> HIDE DEF outer, me, n
<1>10. /\ stack' \in Seq(Checkers) /\ Len(stack') = n
       /\ \A i \in 1..n : stack'[i].who = stack[i].who /\ (stack[i].errors => stack'[i].errors)
  <2> DEFINE at(i) == IF i = n THEN [outer[i] EXCEPT !.errors = @ \/ hadError'] ELSE outer[i]
  <2>1. stack' = [i \in 1..n |-> at(i)]
    BY <1>2, <1>4
  <2>2. ASSUME NEW i \in 1..n
        PROVE  at(i) \in Checkers /\ at(i).who = stack[i].who /\ (stack[i].errors => at(i).errors)
    <3>1. outer[i] \in Checkers /\ outer[i] = stack[i]
      BY <1>2, <2>2
    <3>2. [outer[i] EXCEPT !.errors = @ \/ hadError'] \in Checkers
      BY <1>7, <3>1 DEF Checkers
    <3>3. CASE i = n
      BY <3>1, <3>2, <3>3 DEF Checkers
    <3>4. CASE i # n
      BY <3>1, <3>4
    <3> QED
      BY <3>3, <3>4
  <2> HIDE DEF at
  <2> QED
    BY <1>3, <2>1, <2>2
<1> QED
  BY <1>2, <1>3, <1>4, <1>7, <1>9, <1>10 DEF me, n

LEMMA CheckersEnd ==
    ASSUME CompileInv, finish_checker
    PROVE  CompileInv'
<1> USE DEF CompileInv
<1> DEFINE n == Len(stack) - 1
<1>1. PICK me \in Checkers :
          /\ n \in Nat /\ me = stack[n + 1]
          /\ stack' \in Seq(Checkers) /\ Len(stack') = n
          /\ \A i \in 1..n : stack'[i].who = stack[i].who /\ (stack[i].errors => stack'[i].errors)
          /\ hadError' \in BOOLEAN /\ (hadError => hadError') /\ (~hadError' => Clean(me.who))
          /\ stage' = IF n # 0 THEN "checking"
                      ELSE IF hadError' \/ me.errors THEN "exit"
                      ELSE IF round = 1 THEN "memory" ELSE "generate"
          /\ checks' = IF me.who = "root" THEN checks ELSE [checks EXCEPT ![me.who] = @ + 1]
  BY Finished
<1>2. /\ UNCHANGED <<files, imports, faults, rootFault, loaded, checked, round>>
      /\ stage = "checking" /\ loaded \subseteq checked
  BY DEF finish_checker, input, manager
<1>3. Resolved' = Resolved /\ (Acyclic' <=> Acyclic) /\ \A x : Clean(x)' <=> Clean(x)
  BY <1>2, InputKept
<1>4. /\ Len(stack) = n + 1 /\ stack # <<>> /\ stack[1].who = "root"
      /\ checked \in SUBSET Names /\ "root" \notin Names /\ loaded \in SUBSET Names
  BY <1>1, <1>2, FaultsAssumption DEF StackOK, CompileTypeOK, DiskOK
<1> HIDE DEF n
<1>5. me.who = "root" <=> n = 0
  <2>1. n = 0 => me.who = "root"
    BY <1>1, <1>4
  <2>2. n # 0 => me.who # "root"
    BY <1>1, <1>4 DEF StackOK
  <2> QED
    BY <2>1, <2>2
<1>6. n # 0 => me.who \in checked
  BY <1>1, <1>4 DEF StackOK
<1>7. AtWork' = AtWork \ {me.who}
  <2>1. \A x : x \in AtWork' <=> \E i \in 1..n : x = stack'[i].who
    BY <1>1 DEF AtWork
  <2>2. \A x : x \in AtWork <=> \E i \in 1..(n + 1) : x = stack[i].who
    BY <1>4 DEF AtWork
  <2>3. \A i \in 1..n : stack[i].who # me.who
    <3> TAKE i \in 1..n
    <3>1. i \in 1..Len(stack) /\ n + 1 \in 1..Len(stack) /\ i # n + 1
      BY <1>1, <1>4
    <3> QED
      BY <1>1, <3>1 DEF StackOK
  <2>4. (\A i \in 1..(n + 1) : i = n + 1 \/ i \in 1..n) /\ \A i \in 1..n : i \in 1..(n + 1)
    BY <1>1
  <2> HIDE DEF n
  <2> QED
    BY <1>1, <2>1, <2>2, <2>3, <2>4
<1>8. Ended' = IF n = 0 THEN Ended ELSE Ended \cup {me.who}
  <2>1. CASE n = 0
    BY <1>2, <1>4, <1>5, <1>7, <2>1 DEF Ended
  <2>2. CASE n # 0
    BY <1>2, <1>6, <1>7, <2>2 DEF Ended
  <2> QED
    BY <2>1, <2>2
<1>9. n # 0 => me.who \notin Ended
  BY <1>1, <1>4 DEF Ended, AtWork
<1>10. CompileTypeOK'
  <2>1. stage' \in Stages
    BY <1>1 DEF Stages
  <2>2. checks' \in [Names -> Nat]
    BY <1>1, <1>4, <1>5, <1>6 DEF CompileTypeOK
  <2> QED
    BY <1>1, <1>2, <2>1, <2>2 DEF CompileTypeOK, DiskOK
<1>11. LoadedOK'
  <2>1. stage' \in {"checking", "exit", "memory", "generate"}
    BY <1>1
  <2> QED
    BY <1>2, <1>3, <2>1 DEF LoadedOK
<1>12. StackOK'
  <2>1. \A x \in Names : checks'[x] = IF x \in Ended' THEN 1 ELSE 0
    <3>1. CASE n = 0
      BY <1>1, <1>5, <1>8, <3>1 DEF StackOK
    <3>2. CASE n # 0
      <4> DEFINE m == me.who
      <4>1. checks' = [checks EXCEPT ![m] = @ + 1] /\ m \in Names /\ checks[m] = 0
        BY <1>1, <1>4, <1>5, <1>6, <1>9, <3>2 DEF StackOK
      <4>2. Ended' = Ended \cup {m}
        BY <1>8, <3>2
      <4> HIDE DEF m
      <4> QED
        BY <4>1, <4>2 DEF StackOK, CompileTypeOK
    <3> QED
      BY <3>1, <3>2
  <2>2. \A i, j \in 1..Len(stack') : stack'[i].who = stack'[j].who => i = j
    BY <1>1, <1>4 DEF StackOK
  <2>3. \A i \in 2..Len(stack') : stack'[i].who \in checked'
    BY <1>1, <1>2, <1>4 DEF StackOK
  <2>4. stage' = "checking" => stack' # <<>> /\ stack'[1].who = "root"
    BY <1>1, <1>4
  <2>5. stage' # "checking" => stack' = <<>>
    BY <1>1
  <2> QED
    BY <2>1, <2>2, <2>3, <2>4, <2>5 DEF StackOK
<1>13. ErrorsKept'
  <2>1. stage' = "checking" /\ ~Acyclic => stack'[1].errors
    BY <1>1, <1>2 DEF ErrorsKept
  <2>2. ASSUME ~hadError' PROVE \A x \in Ended' : Clean(x)
    BY <1>1, <1>2, <1>8, <2>2 DEF ErrorsKept, CompileTypeOK
  <2>3. ASSUME stage' \in {"memory", "generate", "run"}
        PROVE  Acyclic /\ Clean("root") /\ \A x \in loaded : Clean(x)
    <3>1. n = 0 /\ ~hadError' /\ ~me.errors
      BY <1>1, <2>3
    <3>2. Acyclic
      BY <1>1, <1>2, <3>1 DEF ErrorsKept
    <3>3. Clean("root")
      BY <1>1, <1>5, <3>1
    <3>4. AtWork' = {}
      <4>1. 1..Len(stack') = {}
        BY <1>1, <3>1
      <4> QED
        BY <4>1 DEF AtWork
    <3>5. Ended' = checked
      BY <1>2, <3>4 DEF Ended
    <3> QED
      BY <1>2, <2>2, <3>1, <3>2, <3>3, <3>5
  <2> QED
    BY <1>2, <1>3, <2>1, <2>2, <2>3 DEF ErrorsKept
<1>14. RoundOK'
  BY <1>1, <1>2 DEF RoundOK, CompileTypeOK
<1> QED
  BY <1>10, <1>11, <1>12, <1>13, <1>14

LEMMA CompileStep == CompileInv /\ [CompileNext]_compileVars => CompileInv'
<1> SUFFICES ASSUME CompileInv, [CompileNext]_compileVars PROVE CompileInv'
  OBVIOUS
<1>1. CASE parse \/ resolve_modules \/ factory_check_program \/ memory_check \/ generate_program
  BY <1>1, StagesKeep
<1>2. CASE check_root \/ check_module
  BY <1>2, CheckersStart
<1>3. CASE finish_checker
  BY <1>3, CheckersEnd
<1>4. CASE finished \/ UNCHANGED compileVars
  <2>1. UNCHANGED compileVars
    BY <1>4 DEF finished
  <2>2. /\ UNCHANGED <<files, imports, faults, rootFault, loaded, stage, round, hadError>>
        /\ UNCHANGED <<checked, stack, checks>>
    BY <2>1 DEF compileVars, input, manager, debugger, checker
  <2>3. Resolved' = Resolved /\ (Acyclic' <=> Acyclic) /\ \A x : Clean(x)' <=> Clean(x)
    BY <2>2, InputKept
  <2>4. Ended' = Ended
    BY <2>2 DEF Ended, AtWork
  <2>5. CompileTypeOK'
    BY <2>2 DEF CompileInv, CompileTypeOK, DiskOK
  <2>6. LoadedOK' /\ StackOK' /\ RoundOK'
    BY <2>2, <2>3, <2>4 DEF CompileInv, LoadedOK, StackOK, RoundOK
  <2>7. ErrorsKept'
    BY <2>2, <2>3, <2>4 DEF CompileInv, ErrorsKept
  <2> QED
    BY <2>5, <2>6, <2>7 DEF CompileInv
<1> QED
  BY <1>1, <1>2, <1>3, <1>4 DEF CompileNext

LEMMA CompileInvariant == CompileSpec => []CompileInv
<1>1. CompileInit => CompileInv
  BY InitOK
<1>2. CompileInv /\ [CompileNext]_compileVars => CompileInv'
  BY CompileStep
<1> QED
  BY <1>1, <1>2, PTL DEF CompileSpec

(***************************************************************************)
(* The theorems.                                                            *)
(***************************************************************************)
\* factory_check_program, check_program: when a round of checks is over, every loaded module has
\* been checked, once.
THEOREM ModulesCheckedOnce == CompileSpec => []CheckedOnce
<1>1. CompileInv => CheckedOnce
  <2> SUFFICES ASSUME CompileInv, stage \in {"memory", "generate", "run"}
               PROVE  checks = [n \in Names |-> IF n \in loaded THEN 1 ELSE 0]
    BY DEF CheckedOnce
  <2>1. stack = <<>> /\ checked = loaded /\ checks \in [Names -> Nat]
    BY DEF CompileInv, CompileTypeOK, LoadedOK, StackOK
  <2>2. AtWork = {}
    <3>1. 1..Len(stack) = {}
      BY <2>1
    <3> QED
      BY <3>1 DEF AtWork
  <2>3. Ended = loaded
    BY <2>1, <2>2 DEF Ended
  <2>4. \A n \in Names : checks[n] = IF n \in loaded THEN 1 ELSE 0
    BY <2>3 DEF CompileInv, StackOK
  <2> QED
    BY <2>1, <2>4
<1> QED
  BY <1>1, CompileInvariant, PTL

LEMMA RunsWithoutErrors == CompileInv => ErrorsStop
<1> SUFFICES ASSUME CompileInv, stage = "run"
             PROVE  /\ rootFault = "none"
                    /\ \A n \in loaded : faults[n] # "type"
                    /\ loaded = Reachable
                    /\ Acyclic
  BY DEF ErrorsStop
<1>1. Acyclic /\ Clean("root") /\ \A n \in loaded : Clean(n)
  BY DEF CompileInv, ErrorsKept
<1>2. loaded \in SUBSET Names /\ "root" \notin Names /\ loaded = Resolved
  BY FaultsAssumption DEF CompileInv, CompileTypeOK, DiskOK, LoadedOK
<1>3. rootFault = "none"
  <2>1. rootFault \in {"none", "syntax", "type", "memory"}
    BY FaultsAssumption DEF CompileInv, CompileTypeOK
  <2>2. rootFault # "type"
    BY <1>1 DEF Clean, FaultOf
  <2> QED
    BY <2>1, <2>2 DEF CompileInv, RoundOK, CompileTypeOK
<1>4. \A n \in loaded : faults[n] # "type"
  BY <1>1, <1>2 DEF Clean, FaultOf
<1>5. loaded = Reachable
  <2>1. Closed(loaded)
    BY <1>1, <1>2 DEF Closed, Clean, ImportsOf
  <2>2. Reachable \subseteq loaded
    BY <1>2, <2>1 DEF Reachable
  <2> QED
    BY <1>2, <2>2 DEF Resolved
<1> QED
  BY <1>1, <1>3, <1>4, <1>5

\* Every check resets the Debugger's flag, and yet no program runs that has a type error, an
\* import that is missing or a cycle of imports, in whatever module.
THEOREM ErrorsStopped == CompileSpec => []ErrorsStop
  BY CompileInvariant, RunsWithoutErrors, PTL

\* Every step of a compilation goes forward, in the nested checks too.
THEOREM CompileAdvances == CompileSpec => Advances
<1> DEFINE Forward == \/ round' > round
                      \/ /\ round' = round
                         /\ \/ Rank[stage'] > Rank[stage]
                            \/ stage' = stage /\ Work' > Work
<1>1. CompileInv /\ [CompileNext]_compileVars => [Forward]_compileVars
  <2> SUFFICES ASSUME CompileInv, CompileNext, ~UNCHANGED compileVars PROVE Forward
    OBVIOUS
  <2>1. stage \in Stages /\ round \in Nat
    BY DEF CompileInv, CompileTypeOK
  <2>2. CASE parse \/ memory_check \/ generate_program \/ check_root
    BY <2>2 DEF parse, memory_check, generate_program, check_root, Rank
  <2>3. CASE resolve_modules
    <3>1. round' = round /\ stage \in {"resolve", "check"}
      BY <2>3 DEF resolve_modules
    <3> QED
      BY <2>3, <3>1, AfterResolve DEF Rank
  <2>4. CASE factory_check_program
    BY <2>1, <2>4 DEF factory_check_program
  <2>5. checked \in SUBSET Names /\ IsFiniteSet(checked) /\ Cardinality(checked) \in Nat
    BY FaultsAssumption, FS_Subset, FS_CardinalityType DEF CompileInv, CompileTypeOK, DiskOK
  <2>6. CASE check_module
    <3>1. PICK m \in loaded \ checked : checked' = checked \cup {m} /\ start_checker(m)
      BY <2>6 DEF check_module
    <3>2. m \in Names \cup {"root"}
      BY DEF CompileInv, CompileTypeOK, DiskOK
    <3>3. \E c \in Checkers : stack' = Append(stack, c)
      BY <3>1, <3>2, Started
    <3>4. Len(stack') = Len(stack) + 1 /\ Len(stack) \in Nat
      BY <3>3 DEF CompileInv, CompileTypeOK
    <3>5. Cardinality(checked') = Cardinality(checked) + 1
      BY <2>5, <3>1, FS_AddElement
    <3>6. Work' > Work
      BY <2>5, <3>4, <3>5 DEF Work
    <3> QED
      BY <2>6, <3>6 DEF check_module
  <2>7. CASE finish_checker
    <3>1. /\ Len(stack') = Len(stack) - 1 /\ Len(stack) - 1 \in Nat
          /\ stage' \in {"checking", "exit", "memory", "generate"}
      BY <2>7, Finished
    <3>2. UNCHANGED <<round, checked>> /\ stage = "checking"
      BY <2>7 DEF finish_checker
    <3>3. stage' = stage => Work' > Work
      <4>1. Len(stack) \in Nat
        BY DEF CompileInv, CompileTypeOK
      <4> QED
        BY <2>5, <3>1, <3>2, <4>1 DEF Work
    <3> QED
      BY <3>1, <3>2, <3>3 DEF Rank
  <2>8. ~finished
    BY DEF finished
  <2> QED
    BY <2>2, <2>3, <2>4, <2>6, <2>7, <2>8 DEF CompileNext
<1> QED
  BY <1>1, CompileInvariant, PTL DEF CompileSpec, Advances

\* generate_program: at the start of a program every loaded module has been initialized, once, and
\* after the modules it imports.
THEOREM InitializationOrdered == CompileSpec => []InitializedInOrder
<1>1. CompileInit => InitializedInOrder
  BY DEF CompileInit, InitializedInOrder
<1>2. CompileInv /\ InitializedInOrder /\ [CompileNext]_compileVars => InitializedInOrder'
  <2> SUFFICES ASSUME CompileInv, InitializedInOrder, [CompileNext]_compileVars
               PROVE  InitializedInOrder'
    OBVIOUS
  <2>1. CASE generate_program
    <3>1. DiskOK /\ Acyclic /\ \A n \in loaded : Clean(n)
      BY <2>1 DEF generate_program, CompileInv, CompileTypeOK, ErrorsKept
    <3>2. \A n \in loaded : Range(imports[n]) \subseteq loaded
      <4>1. \A n \in loaded : n # "root"
        BY <3>1, FaultsAssumption DEF DiskOK
      <4> QED
        BY <3>1, <4>1 DEF Clean, ImportsOf
    <3>3. PICK seq \in SetToSeqs(loaded) : inits' = init_calls(get_topological_order(seq))
      BY <2>1 DEF generate_program
    <3>4. UNCHANGED <<loaded, imports>>
      BY <2>1 DEF generate_program, input, manager
    <3> DEFINE c == init_calls(get_topological_order(seq))
    <3>5. /\ IsInjective(c) /\ Range(c) = loaded
          /\ \A i \in DOMAIN c : \A n \in Range(imports[c[i]]) : \E j \in 1..(i - 1) : c[j] = n
      BY <3>1, <3>2, CallsInOrder
    <3> HIDE DEF c
    <3>6. inits' = c
      BY <3>3 DEF c
    <3> QED
      BY <3>4, <3>5, <3>6 DEF InitializedInOrder
  <2>2. CASE finished \/ UNCHANGED compileVars
    <3>1. UNCHANGED <<stage, inits, loaded, imports>>
      BY <2>2 DEF finished, compileVars, input, manager
    <3> QED
      BY <3>1 DEF InitializedInOrder
  <2>3. CASE resolve_modules
    BY <2>3, AfterResolve DEF InitializedInOrder
  <2>4. CASE finish_checker
    <3>1. stage' \in {"checking", "exit", "memory", "generate"}
      BY <2>4, Finished
    <3> QED
      BY <3>1 DEF InitializedInOrder
  <2>5. CASE parse \/ factory_check_program \/ check_root \/ memory_check
    BY <2>5 DEF parse, factory_check_program, check_root, memory_check, InitializedInOrder
  <2>6. CASE check_module
    BY <2>6 DEF check_module, InitializedInOrder
  <2> QED
    BY <2>1, <2>2, <2>3, <2>4, <2>5, <2>6 DEF CompileNext
<1> QED
  BY <1>1, <1>2, CompileInvariant, PTL DEF CompileSpec
=============================================================================
