---------------------------- MODULE ModuleManager ----------------------------
(***************************************************************************)
(* Module loading: ModuleManager::resolve_all and load_module               *)
(* (frontend/module_manager.cpp).  resolve_all walks the import graph       *)
(* breadth first.  Each round starts one std::async task per new path,      *)
(* waits for their futures in order and goes on with the imports of the     *)
(* modules they returned.  A task looks its path up under the lock,         *)
(* releases the lock, reads and parses the file, and takes the lock again   *)
(* to publish the module.                                                   *)
(*                                                                          *)
(* A parsed module is abstracted to its name; its dependency list is the    *)
(* list of imports in its file (extract_metadata).  Reading and parsing     *)
(* touch no state of the manager, so they are part of the publishing step.  *)
(***************************************************************************)
EXTENDS Integers, Sequences, Functions

CONSTANTS
    Names,       \* module paths
    Root,        \* the imports of the root program, in order
    MaxImports   \* bound: imports of one file

VARIABLES
    files, imports, \* the disk, as in ModuleLoading
    modules,        \* modules_: the names published so far
    main,           \* where the thread running resolve_all is
    worklist, next_worklist, processing,   \* locals of resolve_all
    futures         \* the tasks of this round not yet waited for

\* resolve_all as its callers see it: its modules count from its return on
Loading == INSTANCE ModuleLoading WITH
    loaded <- IF main = "returned" THEN modules ELSE {},
    outcome <- IF main \in {"returned", "failed"} THEN main ELSE "pending"

ASSUME ManagerAssumption == Root \in Seq(Names) /\ MaxImports \in Nat

disk == <<files, imports>>
locals == <<main, worklist, next_worklist, processing>>
managerVars == <<disk, modules, locals, futures>>

Task(path, at, found) == [path |-> path, at |-> at, found |-> found]

ManagerInit ==
    /\ Loading!DiskInit
    /\ modules = {}
    /\ main = "called"
    /\ worklist = <<>>
    /\ next_worklist = <<>>
    /\ processing = {}
    /\ futures = <<>>

\* The imports of the root program become the first worklist.
resolve_all ==
    /\ main = "called"
    /\ worklist' = Root
    /\ main' = IF Root = <<>> THEN "returned" ELSE "dispatch"
    /\ UNCHANGED <<disk, modules, next_worklist, processing, futures>>

\* Mutant: the paths of this call are not remembered.
dispatch_forgetting ==
    /\ main = "dispatch" /\ worklist # <<>>
    /\ worklist' = Tail(worklist)
    /\ LET path == Head(worklist)
       IN  IF path \in modules
           THEN UNCHANGED <<processing, futures>>
           ELSE /\ processing' = processing \cup {path}
                /\ futures' = Append(futures, Task(path, "lookup", FALSE))
    /\ UNCHANGED <<disk, modules, main, next_worklist>>

\* A path that is loaded, or was started by this call, is skipped; any other
\* gets a task of its own, which runs from now on.
dispatch ==
    /\ main = "dispatch" /\ worklist # <<>>
    /\ worklist' = Tail(worklist)
    /\ LET path == Head(worklist)
       IN  IF path \in modules \/ path \in processing
           THEN UNCHANGED <<processing, futures>>
           ELSE /\ processing' = processing \cup {path}
                /\ futures' = Append(futures, Task(path, "lookup", FALSE))
    /\ UNCHANGED <<disk, modules, main, next_worklist>>

start_waiting ==
    /\ main = "dispatch" /\ worklist = <<>>
    /\ main' = "wait"
    /\ UNCHANGED <<disk, modules, worklist, next_worklist, processing, futures>>

\* f.get(): blocks until the first remaining task has ended
get ==
    /\ main = "wait" /\ futures # <<>> /\ Head(futures).at = "ended"
    /\ futures' = Tail(futures)
    /\ next_worklist' = next_worklist \o (IF Head(futures).found
                                          THEN imports[Head(futures).path] ELSE <<>>)
    /\ UNCHANGED <<disk, modules, main, worklist, processing>>

\* f.get() of a task that threw: the exception leaves resolve_all once the
\* destructors of the other futures have waited for their tasks
get_rethrows ==
    /\ main = "wait" /\ futures # <<>> /\ Head(futures).at = "thrown"
    /\ \A i \in DOMAIN futures : futures[i].at \in {"ended", "thrown"}
    /\ main' = "failed"
    /\ futures' = <<>>
    /\ next_worklist' = <<>>
    /\ UNCHANGED <<disk, modules, worklist, processing>>

\* Mutant: the list of the last round is kept.
next_round_keeping ==
    /\ main = "wait" /\ futures = <<>>
    /\ worklist' = next_worklist
    /\ main' = IF next_worklist = <<>> THEN "returned" ELSE "dispatch"
    /\ UNCHANGED <<disk, modules, next_worklist, processing, futures>>

next_round ==
    /\ main = "wait" /\ futures = <<>>
    /\ worklist' = next_worklist
    /\ next_worklist' = <<>>
    /\ main' = IF next_worklist = <<>> THEN "returned" ELSE "dispatch"
    /\ UNCHANGED <<disk, modules, processing, futures>>

\* load_module, first critical section: a module that is there is returned
load_lookup(i) ==
    /\ futures[i].at = "lookup"
    /\ futures' = [futures EXCEPT ![i] =
                      IF @.path \in modules THEN Task(@.path, "ended", TRUE)
                                            ELSE Task(@.path, "reading", FALSE)]
    /\ UNCHANGED <<disk, modules, locals>>

\* Mutant: the module is returned but not stored.
load_publish_unstored(i) ==
    /\ futures[i].at = "reading" /\ files[futures[i].path] = "parsed"
    /\ futures' = [futures EXCEPT ![i] = Task(@.path, "ended", TRUE)]
    /\ UNCHANGED <<disk, modules, locals>>

\* load_module, second critical section, after the file was parsed: the module
\* is stored, over any other of that name
load_publish(i) ==
    /\ futures[i].at = "reading" /\ files[futures[i].path] = "parsed"
    /\ futures' = [futures EXCEPT ![i] = Task(@.path, "ended", TRUE)]
    /\ modules' = modules \cup {futures[i].path}
    /\ UNCHANGED <<disk, locals>>

\* load_module returns nullptr: the file cannot be opened
load_missing(i) ==
    /\ futures[i].at = "reading" /\ files[futures[i].path] = "missing"
    /\ futures' = [futures EXCEPT ![i] = Task(@.path, "ended", FALSE)]
    /\ UNCHANGED <<disk, modules, locals>>

\* Mutant: the exception is not handed to the future.
load_throws_lost(i) ==
    /\ futures[i].at = "reading" /\ files[futures[i].path] = "aborts"
    /\ UNCHANGED managerVars

\* load_module is left by the exception of a parse that gave up
load_throws(i) ==
    /\ futures[i].at = "reading" /\ files[futures[i].path] = "aborts"
    /\ futures' = [futures EXCEPT ![i] = Task(@.path, "thrown", FALSE)]
    /\ UNCHANGED <<disk, modules, locals>>

main_thread ==
    resolve_all \/ dispatch \/ start_waiting \/ get \/ get_rethrows \/ next_round

load_module ==
    \E i \in DOMAIN futures :
        load_lookup(i) \/ load_publish(i) \/ load_missing(i) \/ load_throws(i)

ManagerNext == main_thread \/ load_module

ManagerSpec == ManagerInit /\ [][ManagerNext]_managerVars

\* std::launch::async: every task has a thread of its own, and threads run
FairManagerSpec ==
    /\ ManagerSpec
    /\ WF_managerVars(main_thread)
    /\ WF_managerVars(load_module)

(***************************************************************************)
(* Properties.                                                              *)
(***************************************************************************)
TaskType ==
    [path : Names, at : {"lookup", "reading", "ended", "thrown"}, found : BOOLEAN]

\* The state of resolve_all and of its tasks is well typed.  next_worklist is a
\* local of the loop: empty until the round waits for its tasks.
ManagerTypeOK ==
    /\ files \in [Names -> Loading!FileKinds]
    /\ imports \in [Names -> Seq(Names)]
    /\ modules \subseteq Names
    /\ main \in {"called", "dispatch", "wait", "returned", "failed"}
    /\ worklist \in Seq(Names)
    /\ next_worklist \in Seq(Names) /\ (main # "wait" => next_worklist = <<>>)
    /\ processing \subseteq Names
    /\ futures \in Seq(TaskType)

\* Although load_module drops the lock between its lookup and its store, no two
\* tasks load the same path, and a task never stores a module over one that is
\* there: every Module handed out stays the one in the map.
LoadedOnce ==
    /\ \A i, j \in DOMAIN futures : futures[i].path = futures[j].path => i = j
    /\ \A i \in DOMAIN futures : futures[i].at = "reading" => futures[i].path \notin modules

\* Whatever the order in which the tasks run, resolve_all loads exactly the
\* modules that the root program reaches, on cyclic imports and missing files
\* too, and throws exactly when the parser gives up on one of them.
ImplementsLoading == Loading!LoadingSpec

\* resolve_all returns or throws, on cyclic imports too.
Resolves == <>(main \in {"returned", "failed"})
=============================================================================
