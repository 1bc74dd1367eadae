------------------------- MODULE ModuleManagerProofs -------------------------
(***************************************************************************)
(* resolve_all, with any number of module paths, root imports and tasks,    *)
(* implements its one-step specification ModuleLoading.                     *)
(***************************************************************************)
EXTENDS ModuleManager, TLAPS

(***************************************************************************)
(* The inductive invariant: what the worklists, the set of started paths    *)
(* and the tasks still waited for hold between them.                        *)
(***************************************************************************)
FuturePaths == {futures[i].path : i \in DOMAIN futures}

Listed == Range(worklist) \cup Range(next_worklist)

Reached == processing \cup Listed

\* main is outside the loop, or in the part of it where its locals are in use
LocalsOK ==
    /\ main = "called" => worklist = <<>> /\ processing = {}
    /\ main \in {"called", "returned", "failed"} => futures = <<>>
    /\ main \in {"wait", "returned"} => worklist = <<>>

\* nothing is started or listed that the root program does not reach
NothingElse == Reached \subseteq Loading!Reachable

\* nothing that the root program or a finished module imports is forgotten
NothingForgotten ==
    main \notin {"called", "failed"} =>
        /\ Range(Root) \subseteq Reached
        /\ \A n \in processing \ FuturePaths : Range(imports[n]) \subseteq Reached

\* the state of a task agrees with the file it loads
TasksOK ==
    \A i \in DOMAIN futures :
        /\ futures[i].path \in processing
        /\ futures[i].at = "ended" =>
              /\ files[futures[i].path] # "aborts"
              /\ futures[i].found <=> files[futures[i].path] = "parsed"
        /\ futures[i].at = "thrown" => files[futures[i].path] = "aborts"

\* the modules stored are those whose task has parsed a file
ModulesOK ==
    /\ \A n \in modules : n \in processing /\ files[n] = "parsed"
    /\ \A n \in processing : files[n] = "parsed" =>
          n \in modules \/ \E i \in DOMAIN futures :
                              futures[i].path = n /\ futures[i].at \in {"lookup", "reading"}

\* a file the parser gives up on stays waited for until the call fails
AbortsOK ==
    /\ \A n \in processing : files[n] = "aborts" /\ main # "failed" => n \in FuturePaths
    /\ main = "failed" => \E n \in processing : files[n] = "aborts"

\* a file that did not parse has no imports
DiskOK == \A n \in Names : files[n] # "parsed" => imports[n] = <<>>

IInv ==
    /\ ManagerTypeOK /\ LoadedOnce
    /\ LocalsOK /\ NothingElse /\ NothingForgotten
    /\ TasksOK /\ ModulesOK /\ AbortsOK /\ DiskOK

(***************************************************************************)
(* Sequences.                                                               *)
(***************************************************************************)
\* what the empty sequence, Append, Tail and \o do to the set of elements
LEMMA RangeEmpty == Range(<<>>) = {}
  BY DEF Range

\* The first element and the rest.
LEMMA RangeTail ==
  ASSUME NEW S, NEW s \in Seq(S), s # <<>>
  PROVE  /\ Tail(s) \in Seq(S) /\ Head(s) \in S
         /\ Range(s) = {Head(s)} \cup Range(Tail(s))
<1>1. /\ Len(s) \in Nat \ {0} /\ DOMAIN s = 1..Len(s) /\ Head(s) = s[1] /\ s[1] \in S
      /\ Tail(s) \in Seq(S) /\ DOMAIN Tail(s) = 1..(Len(s) - 1)
      /\ \A i \in 1..(Len(s) - 1) : Tail(s)[i] = s[i + 1]
  OBVIOUS
<1>2. ASSUME NEW x \in Range(s) PROVE x \in {Head(s)} \cup Range(Tail(s))
  <2>1. PICK i \in 1..Len(s) : x = s[i]
    BY <1>1, <1>2 DEF Range
  <2>2. CASE i = 1
    BY <1>1, <2>1, <2>2
  <2>3. CASE i # 1
    <3>1. i - 1 \in 1..(Len(s) - 1) /\ Tail(s)[i - 1] = s[i]
      BY <1>1, <2>3
    <3> QED BY <1>1, <2>1, <3>1 DEF Range
  <2> QED BY <2>2, <2>3
<1>3. ASSUME NEW x \in {Head(s)} \cup Range(Tail(s)) PROVE x \in Range(s)
  <2>1. CASE x = Head(s)
    BY <1>1, <2>1 DEF Range
  <2>2. CASE x \in Range(Tail(s))
    <3>1. PICK i \in 1..(Len(s) - 1) : x = Tail(s)[i]
      BY <1>1, <2>2 DEF Range
    <3>2. i + 1 \in 1..Len(s) /\ x = s[i + 1]
      BY <1>1, <3>1
    <3> QED BY <1>1, <3>2 DEF Range
  <2> QED BY <1>3, <2>1, <2>2
<1> QED BY <1>1, <1>2, <1>3

\* The elements of a concatenation.
LEMMA RangeConcat ==
  ASSUME NEW S, NEW s \in Seq(S), NEW t \in Seq(S)
  PROVE  s \o t \in Seq(S) /\ Range(s \o t) = Range(s) \cup Range(t)
<1>1. /\ Len(s) \in Nat /\ Len(t) \in Nat /\ DOMAIN s = 1..Len(s) /\ DOMAIN t = 1..Len(t)
      /\ s \o t \in Seq(S) /\ DOMAIN (s \o t) = 1..(Len(s) + Len(t))
      /\ \A i \in 1..(Len(s) + Len(t)) :
            (s \o t)[i] = IF i <= Len(s) THEN s[i] ELSE t[i - Len(s)]
  OBVIOUS
<1>2. ASSUME NEW x \in Range(s \o t) PROVE x \in Range(s) \cup Range(t)
  <2>1. PICK i \in 1..(Len(s) + Len(t)) : x = (s \o t)[i]
    BY <1>1, <1>2 DEF Range
  <2>2. CASE i <= Len(s)
    BY <1>1, <2>1, <2>2 DEF Range
  <2>3. CASE ~(i <= Len(s))
    <3>1. i - Len(s) \in 1..Len(t) /\ x = t[i - Len(s)]
      BY <1>1, <2>1, <2>3
    <3> QED BY <1>1, <3>1 DEF Range
  <2> QED BY <2>2, <2>3
<1>3. ASSUME NEW x \in Range(s) PROVE x \in Range(s \o t)
  <2>1. PICK i \in 1..Len(s) : x = s[i]
    BY <1>1, <1>3 DEF Range
  <2>2. i \in 1..(Len(s) + Len(t)) /\ (s \o t)[i] = x
    BY <1>1, <2>1
  <2> QED BY <1>1, <2>2 DEF Range
<1>4. ASSUME NEW x \in Range(t) PROVE x \in Range(s \o t)
  <2>1. PICK i \in 1..Len(t) : x = t[i]
    BY <1>1, <1>4 DEF Range
  <2>2. i + Len(s) \in 1..(Len(s) + Len(t)) /\ (s \o t)[i + Len(s)] = x
    BY <1>1, <2>1
  <2> QED BY <1>1, <2>2 DEF Range
<1> QED BY <1>1, <1>2, <1>3, <1>4

(***************************************************************************)
(* Reachability.                                                            *)
(***************************************************************************)
\* what it is to be closed under imports
LEMMA ClosedIs ==
  ASSUME NEW S
  PROVE  Loading!Closed(S) <=> /\ Range(Root) \subseteq S
                               /\ \A n \in S : Range(imports[n]) \subseteq S
  BY DEF Loading!Closed, Loading!Range, Range

\* the reachable paths are the least set with the root's imports that is
\* closed under the imports of its members
LEMMA ReachableLeast ==
  ASSUME NEW S \in SUBSET Names, Range(Root) \subseteq S,
         \A n \in S : Range(imports[n]) \subseteq S
  PROVE  Loading!Reachable \subseteq S
  BY ClosedIs DEF Loading!Reachable

\* The reachable paths are closed under imports.
LEMMA ReachableClosed ==
  ASSUME ManagerTypeOK
  PROVE  /\ Loading!Reachable \subseteq Names
         /\ Range(Root) \subseteq Loading!Reachable
         /\ \A n \in Loading!Reachable : Range(imports[n]) \subseteq Loading!Reachable
<1>1. Range(Root) \subseteq Names
  BY ManagerAssumption DEF Range
<1>2. \A n \in Names : Range(imports[n]) \subseteq Names
  BY DEF ManagerTypeOK, Range
<1>3. Loading!Reachable \subseteq Names
  BY DEF Loading!Reachable
<1>4. Range(Root) \subseteq Loading!Reachable
  BY <1>1, ClosedIs DEF Loading!Reachable
<1>5. ASSUME NEW n \in Loading!Reachable, NEW x \in Range(imports[n])
      PROVE  x \in Loading!Reachable
  <2>1. x \in Names
    BY <1>2, <1>3, <1>5
  <2>2. ASSUME NEW S \in SUBSET Names, Loading!Closed(S) PROVE x \in S
    <3>1. n \in S
      BY <1>5, <2>2 DEF Loading!Reachable
    <3> QED BY <1>5, <2>2, <3>1, ClosedIs
  <2> QED BY <2>1, <2>2 DEF Loading!Reachable
<1> QED BY <1>3, <1>4, <1>5

\* the disk, and with it what is reachable, does not change
LEMMA DiskFixed ==
  ASSUME ManagerNext
  PROVE  /\ UNCHANGED disk
         /\ Loading!Reachable' = Loading!Reachable
         /\ Loading!Resolved' = Loading!Resolved
         /\ Loading!Aborted' = Loading!Aborted
<1>1. UNCHANGED disk
  BY DEF ManagerNext, main_thread, load_module, resolve_all, dispatch, start_waiting, get,
         get_rethrows, next_round, load_lookup, load_publish, load_missing, load_throws
<1>2. files' = files /\ imports' = imports
  BY <1>1 DEF disk
<1> QED BY <1>1, <1>2 DEF Loading!Reachable, Loading!Closed, Loading!Resolved, Loading!Aborted

(***************************************************************************)
(* The invariant holds initially and is kept by every step.                 *)
(***************************************************************************)
\* resolve_all has not begun: no list, no task, no module
LEMMA InitHolds == ManagerInit => IInv
<1> SUFFICES ASSUME ManagerInit PROVE IInv
  OBVIOUS
<1>1. imports \in [Names -> Seq(Names)]
  BY DEF ManagerInit, Loading!DiskInit, Loading!ImportLists
<1>2. /\ files \in [Names -> Loading!FileKinds] /\ modules = {} /\ main = "called"
      /\ worklist = <<>> /\ next_worklist = <<>> /\ processing = {} /\ futures = <<>>
      /\ DiskOK
  BY DEF ManagerInit, Loading!DiskInit, DiskOK
<1>3. ManagerTypeOK /\ LoadedOnce
  BY <1>1, <1>2 DEF ManagerTypeOK, LoadedOnce
<1>4. Reached = {}
  BY <1>2, RangeEmpty DEF Reached, Listed
<1> QED BY <1>2, <1>3, <1>4 DEF IInv, LocalsOK, NothingElse, NothingForgotten, TasksOK,
           ModulesOK, AbortsOK

\* the first worklist holds the imports of the root program
LEMMA ResolveAllKeeps == ASSUME IInv, resolve_all PROVE IInv'
<1> USE DEF IInv
<1>1. /\ main = "called" /\ worklist' = Root /\ UNCHANGED <<files, imports, modules, next_worklist, processing, futures>>
      /\ main' = IF Root = <<>> THEN "returned" ELSE "dispatch"
      /\ processing = {} /\ futures = <<>> /\ next_worklist = <<>> /\ modules = {}
  BY DEF resolve_all, disk, LocalsOK, ManagerTypeOK, ModulesOK
<1>2. ManagerTypeOK' /\ LoadedOnce'
  BY <1>1, ManagerAssumption DEF ManagerTypeOK, LoadedOnce, Loading!FileKinds
<1>3. Reached' = Range(Root)
  BY <1>1, RangeEmpty DEF Reached, Listed
<1>4. NothingElse'
  BY <1>3, ReachableClosed, DiskFixed DEF NothingElse, ManagerNext, main_thread
<1> QED BY <1>1, <1>2, <1>3, <1>4 DEF LocalsOK, NothingForgotten, TasksOK, ModulesOK, AbortsOK, DiskOK

\* start_waiting moves main only
LEMMA StartWaitingKeeps == ASSUME IInv, start_waiting PROVE IInv'
<1> USE DEF IInv
<1>1. /\ main = "dispatch" /\ worklist = <<>> /\ main' = "wait"
      /\ UNCHANGED <<files, imports, modules, worklist, next_worklist, processing, futures>>
  BY DEF start_waiting, disk
<1>2. ManagerTypeOK' /\ LoadedOnce'
  BY <1>1 DEF ManagerTypeOK, LoadedOnce, TaskType, Loading!FileKinds
<1>3. Reached' = Reached /\ FuturePaths' = FuturePaths /\ Loading!Reachable' = Loading!Reachable
  BY <1>1, DiskFixed DEF Reached, Listed, FuturePaths, ManagerNext, main_thread
<1> QED BY <1>1, <1>2, <1>3 DEF LocalsOK, NothingElse, NothingForgotten, TasksOK, ModulesOK, AbortsOK, DiskOK

\* the next worklist replaces the one that is used up
LEMMA NextRoundKeeps == ASSUME IInv, next_round PROVE IInv'
<1> USE DEF IInv
<1>1. /\ main = "wait" /\ worklist = <<>> /\ futures = <<>> /\ next_worklist' = <<>>
      /\ worklist' = next_worklist /\ main' = IF next_worklist = <<>> THEN "returned" ELSE "dispatch"
      /\ UNCHANGED <<files, imports, modules, processing, futures>>
  BY DEF next_round, disk, LocalsOK
<1>2. ManagerTypeOK' /\ LoadedOnce'
  BY <1>1 DEF ManagerTypeOK, LoadedOnce, TaskType, Loading!FileKinds
<1>3. Reached' = Reached /\ FuturePaths' = FuturePaths /\ Loading!Reachable' = Loading!Reachable
  BY <1>1, DiskFixed DEF Reached, Listed, FuturePaths, ManagerNext, main_thread
<1> QED BY <1>1, <1>2, <1>3 DEF LocalsOK, NothingElse, NothingForgotten, TasksOK, ModulesOK, AbortsOK, DiskOK

\* dispatch: a path it skips is one that was started
LEMMA DispatchKeeps == ASSUME IInv, dispatch PROVE IInv'
<1> USE DEF IInv
<1> DEFINE path == Head(worklist)
<1>1. /\ main = "dispatch" /\ worklist # <<>> /\ worklist' = Tail(worklist)
      /\ UNCHANGED <<files, imports, modules, main, next_worklist>>
      /\ IF path \in modules \/ path \in processing
         THEN UNCHANGED <<processing, futures>>
         ELSE /\ processing' = processing \cup {path}
              /\ futures' = Append(futures, Task(path, "lookup", FALSE))
  BY DEF dispatch, disk
<1>2. /\ Tail(worklist) \in Seq(Names) /\ path \in Names
      /\ Range(worklist) = {path} \cup Range(Tail(worklist))
  BY <1>1, RangeTail DEF ManagerTypeOK
<1>3. Loading!Reachable' = Loading!Reachable
  BY DiskFixed DEF ManagerNext, main_thread
<1>4. CASE path \in modules \/ path \in processing
  <2>1. path \in processing
    BY <1>4 DEF ModulesOK
  <2>2. UNCHANGED <<processing, futures>>
    BY <1>1, <1>4
  <2>3. Reached' = Reached /\ FuturePaths' = FuturePaths
    BY <1>1, <1>2, <2>1, <2>2 DEF Reached, Listed, FuturePaths
  <2>4. ManagerTypeOK' /\ LoadedOnce'
    BY <1>1, <1>2, <2>2 DEF ManagerTypeOK, LoadedOnce, TaskType, Loading!FileKinds
  <2> QED BY <1>1, <1>3, <2>2, <2>3, <2>4
          DEF LocalsOK, NothingElse, NothingForgotten, TasksOK, ModulesOK, AbortsOK, DiskOK
<1>5. CASE path \notin modules /\ path \notin processing
  <2>1. processing' = processing \cup {path} /\ futures' = Append(futures, Task(path, "lookup", FALSE))
    BY <1>1, <1>5
  <2> DEFINE n == Len(futures) + 1
  <2>2. /\ n \in Nat /\ DOMAIN futures = 1..(n - 1) /\ DOMAIN futures' = DOMAIN futures \cup {n}
        /\ n \notin DOMAIN futures
        /\ futures'[n] = Task(path, "lookup", FALSE)
        /\ \A i \in DOMAIN futures : futures'[i] = futures[i]
        /\ Task(path, "lookup", FALSE) \in TaskType /\ futures' \in Seq(TaskType)
    BY <1>2, <2>1 DEF ManagerTypeOK, TaskType, Task
  <2>3. Task(path, "lookup", FALSE).path = path /\ Task(path, "lookup", FALSE).at = "lookup"
    BY DEF Task
  <2> HIDE DEF n, path
  <2>4. FuturePaths' = FuturePaths \cup {path}
    BY <2>2, <2>3 DEF FuturePaths
  <2>5. Reached' = Reached
    BY <1>1, <1>2, <2>1 DEF Reached, Listed
  <2>6. ManagerTypeOK'
    BY <1>1, <1>2, <2>1, <2>2 DEF ManagerTypeOK, Loading!FileKinds
  <2>7. \A i \in DOMAIN futures : futures[i].path # path
    BY <1>5 DEF TasksOK
  <2>8. LoadedOnce'
    BY <1>1, <2>2, <2>3, <2>7 DEF LoadedOnce
  <2>9. TasksOK'
    <3>1. files' = files /\ processing \subseteq processing' /\ path \in processing'
      BY <1>1, <2>1
    <3> SUFFICES ASSUME NEW i \in DOMAIN futures'
                 PROVE  /\ futures'[i].path \in processing'
                        /\ futures'[i].at = "ended" =>
                              /\ files[futures'[i].path] # "aborts"
                              /\ futures'[i].found <=> files[futures'[i].path] = "parsed"
                        /\ futures'[i].at = "thrown" => files[futures'[i].path] = "aborts"
      BY <3>1 DEF TasksOK
    <3>2. CASE i = n
      BY <2>2, <2>3, <3>1, <3>2
    <3>3. CASE i \in DOMAIN futures
      BY <2>2, <3>1, <3>3 DEF TasksOK
    <3> QED BY <2>2, <3>2, <3>3
  <2>10. ModulesOK'
    <3>1. \A m \in modules' : m \in processing' /\ files'[m] = "parsed"
      BY <1>1, <2>1 DEF ModulesOK
    <3>2. ASSUME NEW m \in processing', files'[m] = "parsed"
          PROVE  m \in modules' \/ \E i \in DOMAIN futures' :
                    futures'[i].path = m /\ futures'[i].at \in {"lookup", "reading"}
      <4>1. CASE m = path
        BY <2>2, <2>3, <4>1
      <4>2. CASE m # path
        <5>1. m \in processing /\ files[m] = "parsed" /\ modules' = modules
          BY <1>1, <2>1, <3>2, <4>2
        <5>2. m \in modules \/ \E i \in DOMAIN futures :
                 futures[i].path = m /\ futures[i].at \in {"lookup", "reading"}
          BY <5>1 DEF ModulesOK
        <5> QED BY <2>2, <5>1, <5>2
      <4> QED BY <4>1, <4>2
    <3> QED BY <3>1, <3>2 DEF ModulesOK
  <2>11. AbortsOK' /\ NothingForgotten'
    BY <1>1, <2>1, <2>4, <2>5 DEF AbortsOK, NothingForgotten
  <2> QED BY <1>1, <1>3, <2>5, <2>6, <2>8, <2>9, <2>10, <2>11 DEF LocalsOK, NothingElse, DiskOK
<1> QED BY <1>4, <1>5

\* the first task leaves the list and its imports join the next worklist
LEMMA GetKeeps == ASSUME IInv, get PROVE IInv'
<1> USE DEF IInv
<1> DEFINE t == Head(futures)
           new == IF t.found THEN imports[t.path] ELSE <<>>
<1>1. /\ main = "wait" /\ futures # <<>> /\ t.at = "ended" /\ futures' = Tail(futures)
      /\ next_worklist' = next_worklist \o new
      /\ UNCHANGED <<files, imports, modules, main, worklist, processing>>
  BY DEF get, disk
<1>2. /\ Len(futures) \in Nat \ {0} /\ DOMAIN futures = 1..Len(futures) /\ t = futures[1]
      /\ futures' \in Seq(TaskType) /\ DOMAIN futures' = 1..(Len(futures) - 1)
      /\ \A i \in DOMAIN futures' : futures'[i] = futures[i + 1] /\ i + 1 \in DOMAIN futures
      /\ \A i \in DOMAIN futures : i # 1 => i - 1 \in DOMAIN futures' /\ futures'[i - 1] = futures[i]
      /\ t \in TaskType
  BY <1>1 DEF ManagerTypeOK
<1>3. /\ t.path \in Names /\ t.path \in processing
      /\ files[t.path] # "aborts" /\ (t.found <=> files[t.path] = "parsed")
  BY <1>1, <1>2 DEF TasksOK, TaskType
<1>4. new = imports[t.path] /\ new \in Seq(Names)
  BY <1>3 DEF DiskOK, ManagerTypeOK
<1> HIDE DEF t, new
<1>5. next_worklist' \in Seq(Names) /\ Range(next_worklist') = Range(next_worklist) \cup Range(new)
  BY <1>1, <1>4, RangeConcat DEF ManagerTypeOK
<1>6. FuturePaths = FuturePaths' \cup {t.path}
  BY <1>2 DEF FuturePaths
<1>7. Reached' = Reached \cup Range(imports[t.path])
  BY <1>1, <1>4, <1>5 DEF Reached, Listed
<1>8. Loading!Reachable' = Loading!Reachable
  BY DiskFixed DEF ManagerNext, main_thread
<1>9. ManagerTypeOK'
  BY <1>1, <1>2, <1>5 DEF ManagerTypeOK, Loading!FileKinds
<1>10. LoadedOnce'
  <2>1. ASSUME NEW i \in DOMAIN futures', NEW j \in DOMAIN futures',
               futures'[i].path = futures'[j].path
        PROVE  i = j
    <3>1. i + 1 = j + 1
      BY <1>2, <2>1 DEF LoadedOnce
    <3> QED BY <1>2, <3>1
  <2> QED BY <1>1, <1>2, <2>1 DEF LoadedOnce
<1>11. TasksOK'
  BY <1>1, <1>2 DEF TasksOK
<1>12. NothingElse'
  BY <1>3, <1>7, <1>8, ReachableClosed DEF NothingElse, Reached
<1>13. NothingForgotten'
  BY <1>1, <1>6, <1>7 DEF NothingForgotten
<1>14. ModulesOK'
  <2>1. ASSUME NEW m \in processing, files[m] = "parsed", m \notin modules
        PROVE  \E i \in DOMAIN futures' :
                  futures'[i].path = m /\ futures'[i].at \in {"lookup", "reading"}
    <3>1. PICK i \in DOMAIN futures : futures[i].path = m /\ futures[i].at \in {"lookup", "reading"}
      BY <2>1 DEF ModulesOK
    <3>2. i # 1
      BY <1>1, <1>2, <3>1
    <3> QED BY <1>2, <3>1, <3>2
  <2> QED BY <1>1, <2>1 DEF ModulesOK
<1>15. AbortsOK'
  BY <1>1, <1>3, <1>6 DEF AbortsOK
<1> QED BY <1>1, <1>9, <1>10, <1>11, <1>12, <1>13, <1>14, <1>15 DEF LocalsOK, DiskOK

\* the call fails over a file that the parser gave up on
LEMMA GetRethrowsKeeps == ASSUME IInv, get_rethrows PROVE IInv'
<1> USE DEF IInv
<1>1. /\ main = "wait" /\ futures # <<>> /\ Head(futures).at = "thrown"
      /\ main' = "failed" /\ futures' = <<>> /\ next_worklist' = <<>>
      /\ UNCHANGED <<files, imports, modules, worklist, processing>>
      /\ \A i \in DOMAIN futures : futures[i].at \in {"ended", "thrown"}
  BY DEF get_rethrows, disk
<1>2. 1 \in DOMAIN futures /\ Head(futures) = futures[1]
  BY <1>1 DEF ManagerTypeOK
<1>3. \E n \in processing : files[n] = "aborts"
  BY <1>1, <1>2 DEF TasksOK
<1>4. worklist = <<>>
  BY <1>1 DEF LocalsOK
<1>5. ManagerTypeOK' /\ LoadedOnce'
  BY <1>1 DEF ManagerTypeOK, LoadedOnce, Loading!FileKinds
<1>6. Reached' \subseteq Reached /\ Loading!Reachable' = Loading!Reachable
  BY <1>1, RangeEmpty, DiskFixed DEF Reached, Listed, ManagerNext, main_thread
<1> QED BY <1>1, <1>3, <1>4, <1>5, <1>6 DEF LocalsOK, NothingElse, NothingForgotten, TasksOK,
           ModulesOK, AbortsOK, DiskOK

\* what a step of task i does to the list of tasks: it moves that task only
LEMMA TaskStep ==
  ASSUME ManagerTypeOK, NEW i \in DOMAIN futures,
         NEW at \in {"lookup", "reading", "ended", "thrown"}, NEW found \in BOOLEAN,
         futures' = [futures EXCEPT ![i] = Task(futures[i].path, at, found)]
  PROVE  /\ DOMAIN futures' = DOMAIN futures /\ futures' \in Seq(TaskType)
         /\ \A j \in DOMAIN futures : futures'[j].path = futures[j].path
         /\ futures'[i].at = at /\ futures'[i].found = found
         /\ \A j \in DOMAIN futures : j # i => futures'[j] = futures[j]
         /\ FuturePaths' = FuturePaths
         /\ futures[i].path \in Names
<1> DEFINE t == Task(futures[i].path, at, found)
<1>1. futures[i] \in TaskType
  BY DEF ManagerTypeOK
<1>2. /\ futures[i].path \in Names
      /\ t.path = futures[i].path /\ t.at = at /\ t.found = found
  BY <1>1 DEF TaskType, Task
<1>3. t \in TaskType
  BY <1>2 DEF TaskType, Task
<1> HIDE DEF t
<1>4. /\ DOMAIN futures' = DOMAIN futures /\ futures' \in Seq(TaskType)
      /\ futures'[i] = t
      /\ \A j \in DOMAIN futures : j # i => futures'[j] = futures[j]
  <2>1. futures' = [futures EXCEPT ![i] = t] /\ futures \in Seq(TaskType)
    BY DEF t, ManagerTypeOK
  <2> QED BY <1>3, <2>1
<1>5. \A j \in DOMAIN futures : futures'[j].path = futures[j].path
  BY <1>2, <1>4
<1>6. FuturePaths' = FuturePaths
  BY <1>4, <1>5 DEF FuturePaths
<1> QED BY <1>2, <1>4, <1>5, <1>6

\* a step of one task keeps all that is about the main thread and the lists
LEMMA TaskStepKeeps ==
  ASSUME IInv, UNCHANGED <<files, imports, main, worklist, next_worklist, processing>>,
         futures' \in Seq(TaskType), FuturePaths' = FuturePaths, futures # <<>>,
         modules' \subseteq Names
  PROVE  ManagerTypeOK' /\ LocalsOK' /\ NothingElse' /\ NothingForgotten' /\ AbortsOK' /\ DiskOK'
<1> USE DEF IInv
<1>1. ManagerTypeOK'
  BY DEF ManagerTypeOK, Loading!FileKinds
<1>2. Reached' = Reached
  BY DEF Reached, Listed
<1>3. Loading!Reachable' = Loading!Reachable
  BY DEF Loading!Reachable, Loading!Closed
<1> QED BY <1>1, <1>2, <1>3 DEF LocalsOK, NothingElse, NothingForgotten, AbortsOK, DiskOK


\* the step that ends task i, or takes it to its file, keeps the invariant if
\* its new state agrees with the file and the modules do
LEMMA TaskMovesKeeps ==
  ASSUME IInv, NEW i \in DOMAIN futures,
         NEW at \in {"lookup", "reading", "ended", "thrown"}, NEW found \in BOOLEAN,
         futures' = [futures EXCEPT ![i] = Task(futures[i].path, at, found)],
         UNCHANGED <<files, imports, main, worklist, next_worklist, processing>>,
         modules' = modules \cup (IF at = "ended" /\ found THEN {futures[i].path} ELSE {}),
         at = "reading" => futures[i].path \notin modules,
         at = "ended" => /\ files[futures[i].path] # "aborts"
                         /\ found <=> files[futures[i].path] = "parsed",
         at = "thrown" => files[futures[i].path] = "aborts"
  PROVE  IInv'
<1> USE DEF IInv
<1> DEFINE path == futures[i].path
<1>1. /\ DOMAIN futures' = DOMAIN futures /\ futures' \in Seq(TaskType)
      /\ \A j \in DOMAIN futures : futures'[j].path = futures[j].path
      /\ futures'[i].at = at /\ futures'[i].found = found
      /\ \A j \in DOMAIN futures : j # i => futures'[j] = futures[j]
      /\ FuturePaths' = FuturePaths /\ path \in Names
  BY TaskStep
<1>2. path \in processing /\ \A j \in DOMAIN futures : j # i => futures[j].path # path
  BY DEF TasksOK, LoadedOnce
<1>3. /\ modules \subseteq modules' /\ modules' \subseteq modules \cup {path}
      /\ at = "ended" /\ files[path] = "parsed" => path \in modules'
      /\ path \in modules' => path \in modules \/ (at = "ended" /\ files[path] = "parsed")
  OBVIOUS
<1>4. futures # <<>> /\ modules' \subseteq Names
  BY <1>1, <1>3 DEF ManagerTypeOK
<1>5. ManagerTypeOK' /\ LocalsOK' /\ NothingElse' /\ NothingForgotten' /\ AbortsOK' /\ DiskOK'
  BY <1>1, <1>4, TaskStepKeeps
<1>6. LoadedOnce'
  <2>1. ASSUME NEW j \in DOMAIN futures', futures'[j].at = "reading"
        PROVE  futures'[j].path \notin modules'
    <3>1. CASE j = i
      BY <1>1, <1>3, <2>1, <3>1
    <3>2. CASE j # i
      BY <1>1, <1>2, <1>3, <2>1, <3>2 DEF LoadedOnce
    <3> QED BY <3>1, <3>2
  <2>2. \A j, k \in DOMAIN futures' : futures'[j].path = futures'[k].path => j = k
    BY <1>1 DEF LoadedOnce
  <2> QED BY <2>1, <2>2 DEF LoadedOnce
<1>7. TasksOK'
  <2> SUFFICES ASSUME NEW j \in DOMAIN futures
               PROVE  /\ futures'[j].path \in processing
                      /\ futures'[j].at = "ended" =>
                            /\ files[futures'[j].path] # "aborts"
                            /\ futures'[j].found <=> files[futures'[j].path] = "parsed"
                      /\ futures'[j].at = "thrown" => files[futures'[j].path] = "aborts"
    BY <1>1 DEF TasksOK
  <2>1. CASE j = i
    BY <1>1, <1>2, <2>1
  <2>2. CASE j # i
    BY <1>1, <2>2 DEF TasksOK
  <2> QED BY <2>1, <2>2
<1>8. ModulesOK'
  <2>1. \A m \in modules' : m \in processing /\ files[m] = "parsed"
    BY <1>2, <1>3 DEF ModulesOK
  <2>2. ASSUME NEW m \in processing, files[m] = "parsed", m \notin modules'
        PROVE  \E j \in DOMAIN futures' :
                  futures'[j].path = m /\ futures'[j].at \in {"lookup", "reading"}
    <3>1. PICK j \in DOMAIN futures : futures[j].path = m /\ futures[j].at \in {"lookup", "reading"}
      BY <1>3, <2>2 DEF ModulesOK
    <3>2. CASE j = i
      <4>1. at # "ended" /\ at # "thrown"
        BY <1>3, <2>2, <3>1, <3>2
      <4> QED BY <1>1, <3>1, <3>2, <4>1
    <3>3. CASE j # i
      BY <1>1, <3>1, <3>3
    <3> QED BY <3>2, <3>3
  <2> QED BY <2>1, <2>2 DEF ModulesOK
<1> QED BY <1>5, <1>6, <1>7, <1>8

\* each step of a task is such a step
LEMMA LoadModuleKeeps ==
  ASSUME IInv, NEW i \in DOMAIN futures,
         load_lookup(i) \/ load_publish(i) \/ load_missing(i) \/ load_throws(i)
  PROVE  IInv'
<1>1. UNCHANGED <<files, imports, main, worklist, next_worklist, processing>>
  BY DEF load_lookup, load_publish, load_missing, load_throws, disk, locals
<1>2. CASE load_lookup(i) /\ futures[i].path \in modules
  <2>1. /\ futures' = [futures EXCEPT ![i] = Task(futures[i].path, "ended", TRUE)]
        /\ modules' = modules \cup {futures[i].path}
    BY <1>2 DEF load_lookup
  <2>2. files[futures[i].path] = "parsed"
    BY <1>2 DEF IInv, ModulesOK
  <2> QED BY <1>1, <2>1, <2>2, TaskMovesKeeps
<1>3. CASE load_lookup(i) /\ futures[i].path \notin modules
  <2>1. /\ futures' = [futures EXCEPT ![i] = Task(futures[i].path, "reading", FALSE)]
        /\ modules' = modules
    BY <1>3 DEF load_lookup
  <2> QED BY <1>1, <1>3, <2>1, TaskMovesKeeps
<1>4. CASE load_publish(i)
  <2>1. /\ futures' = [futures EXCEPT ![i] = Task(futures[i].path, "ended", TRUE)]
        /\ modules' = modules \cup {futures[i].path} /\ files[futures[i].path] = "parsed"
    BY <1>4 DEF load_publish
  <2> QED BY <1>1, <2>1, TaskMovesKeeps
<1>5. CASE load_missing(i)
  <2>1. /\ futures' = [futures EXCEPT ![i] = Task(futures[i].path, "ended", FALSE)]
        /\ modules' = modules /\ files[futures[i].path] = "missing"
    BY <1>5 DEF load_missing
  <2> QED BY <1>1, <2>1, TaskMovesKeeps
<1>6. CASE load_throws(i)
  <2>1. /\ futures' = [futures EXCEPT ![i] = Task(futures[i].path, "thrown", FALSE)]
        /\ modules' = modules /\ files[futures[i].path] = "aborts"
    BY <1>6 DEF load_throws
  <2> QED BY <1>1, <2>1, TaskMovesKeeps
<1> QED BY <1>2, <1>3, <1>4, <1>5, <1>6

\* every step keeps the invariant
LEMMA NextKeeps == IInv /\ [ManagerNext]_managerVars => IInv'
<1> SUFFICES ASSUME IInv, [ManagerNext]_managerVars PROVE IInv'
  OBVIOUS
<1>1. CASE main_thread
  BY <1>1, ResolveAllKeeps, DispatchKeeps, StartWaitingKeeps, GetKeeps, GetRethrowsKeeps,
     NextRoundKeeps DEF main_thread
<1>2. CASE load_module
  BY <1>2, LoadModuleKeeps DEF load_module
<1>3. CASE UNCHANGED managerVars
  <2>1. UNCHANGED <<files, imports, modules, main, worklist, next_worklist, processing, futures>>
    BY <1>3 DEF managerVars, disk, locals
  <2>2. /\ Loading!Reachable' = Loading!Reachable
        /\ Reached' = Reached /\ FuturePaths' = FuturePaths
    BY <2>1 DEF Loading!Reachable, Loading!Closed, Reached, Listed, FuturePaths
  <2> QED BY <2>1, <2>2 DEF IInv, ManagerTypeOK, LoadedOnce, LocalsOK, NothingElse, NothingForgotten,
             TasksOK, ModulesOK, AbortsOK, DiskOK, TaskType, Loading!FileKinds
<1> QED BY <1>1, <1>2, <1>3 DEF ManagerNext

\* when resolve_all returns, the paths it started are the reachable ones
LEMMA AtReturn ==
  IInv /\ main = "returned" => modules = Loading!Resolved /\ ~Loading!Aborted
<1> SUFFICES ASSUME IInv, main = "returned" PROVE modules = Loading!Resolved /\ ~Loading!Aborted
  OBVIOUS
<1>1. worklist = <<>> /\ next_worklist = <<>> /\ futures = <<>>
  BY DEF IInv, LocalsOK, ManagerTypeOK
<1>2. Reached = processing /\ FuturePaths = {}
  BY <1>1, RangeEmpty DEF Reached, Listed, FuturePaths
<1>3. processing \in SUBSET Names
  BY DEF IInv, ManagerTypeOK
<1>4. /\ Range(Root) \subseteq processing
      /\ \A n \in processing : Range(imports[n]) \subseteq processing
  BY <1>2 DEF IInv, NothingForgotten
<1>5. processing = Loading!Reachable
  BY <1>2, <1>3, <1>4, ReachableLeast DEF IInv, NothingElse
<1>6. modules = Loading!Resolved
  BY <1>1, <1>5 DEF IInv, ModulesOK, Loading!Resolved
<1>7. ~Loading!Aborted
  BY <1>2, <1>5 DEF IInv, AbortsOK, Loading!Aborted
<1> QED BY <1>6, <1>7

\* it fails only over a reachable file
LEMMA AtFailure == IInv /\ main = "failed" => Loading!Aborted
  BY DEF IInv, AbortsOK, NothingElse, Reached, Loading!Aborted

\* and so after a step
LEMMA AfterStep ==
  /\ IInv' /\ main' = "returned" => modules' = Loading!Resolved' /\ ~Loading!Aborted'
  /\ IInv' /\ main' = "failed" => Loading!Aborted'
<1>1. (IInv /\ main = "returned" => modules = Loading!Resolved /\ ~Loading!Aborted)'
  BY AtReturn, PTL
<1>2. (IInv /\ main = "failed" => Loading!Aborted)'
  BY AtFailure, PTL
<1> QED BY <1>1, <1>2

\* the step on which resolve_all returns or fails is the abstract one, and no
\* other is seen
LEMMA StepRefines ==
  ASSUME IInv, IInv', [ManagerNext]_managerVars
  PROVE  [Loading!Resolve]_(Loading!loadingVars)
<1> DEFINE Over == {"returned", "failed"}
<1>1. CASE UNCHANGED managerVars
  BY <1>1 DEF managerVars, disk, locals, Loading!loadingVars
<1>2. CASE ManagerNext /\ main \notin Over /\ main' \notin Over
  <2>1. files' = files /\ imports' = imports
    BY <1>2, DiskFixed DEF disk
  <2> QED BY <1>2, <2>1 DEF Loading!loadingVars
<1>3. CASE ManagerNext /\ main \in Over
  <2>1. futures = <<>>
    BY <1>3 DEF IInv, LocalsOK
  <2>2. DOMAIN futures = {}
    BY <2>1
  <2> QED BY <1>3, <2>2 DEF ManagerNext, main_thread, load_module, resolve_all, dispatch,
             start_waiting, get, get_rethrows, next_round
<1>4. CASE ManagerNext /\ main \notin Over /\ main' \in Over
  <2>1. /\ UNCHANGED disk /\ Loading!Resolved' = Loading!Resolved
        /\ Loading!Aborted' = Loading!Aborted
    BY <1>4, DiskFixed
  <2>2. CASE main' = "returned"
    <3>1. modules' = Loading!Resolved' /\ ~Loading!Aborted'
      BY <2>2, AfterStep
    <3> QED BY <1>4, <2>1, <2>2, <3>1 DEF Loading!Resolve, disk
  <2>3. CASE main' = "failed"
    <3>1. Loading!Aborted'
      BY <2>3, AfterStep
    <3> QED BY <1>4, <2>1, <2>3, <3>1 DEF Loading!Resolve, disk
  <2> QED BY <1>4, <2>2, <2>3
<1> QED BY <1>1, <1>2, <1>3, <1>4

(***************************************************************************)
(* Theorems.                                                                *)
(***************************************************************************)
\* The invariant holds throughout every call of resolve_all.
THEOREM ManagerInvariant == ManagerSpec => []IInv
  BY InitHolds, NextKeeps, PTL DEF ManagerSpec

\* The state of resolve_all and its tasks stays well typed.
THEOREM ManagerTypeCorrect == ManagerSpec => []ManagerTypeOK
<1>1. IInv => ManagerTypeOK
  BY DEF IInv
<1> QED BY <1>1, ManagerInvariant, PTL

\* No path is loaded by two tasks and no module is stored over another, although
\* load_module drops the lock between lookup and store.
THEOREM NoModuleLoadedTwice == ManagerSpec => []LoadedOnce
<1>1. IInv => LoadedOnce
  BY DEF IInv
<1> QED BY <1>1, ManagerInvariant, PTL

\* resolve_all, with its tasks in any order, implements the one-step load of
\* exactly the modules that the root program reaches.
THEOREM ResolveAllIsAtomic == ManagerSpec => ImplementsLoading
<1>1. ManagerInit => Loading!LoadingInit
  BY DEF ManagerInit, Loading!LoadingInit
<1>2. IInv /\ IInv' /\ [ManagerNext]_managerVars => [Loading!Resolve]_(Loading!loadingVars)
  BY StepRefines
<1> QED BY <1>1, <1>2, ManagerInvariant, PTL DEF ManagerSpec, ImplementsLoading, Loading!LoadingSpec
=============================================================================
