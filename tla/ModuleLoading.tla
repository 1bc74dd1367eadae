---------------------------- MODULE ModuleLoading ----------------------------
(***************************************************************************)
(* What ModuleManager::resolve_all promises its callers, whatever the       *)
(* threads it starts do: seen from the thread that calls it, all the        *)
(* modules that the root program needs, directly or not, are loaded in one  *)
(* step, and no others.  A file that cannot be opened is left out and a     *)
(* file whose parse gives up ("Too many syntax errors") makes the call      *)
(* throw.                                                                   *)
(*                                                                          *)
(* The disk is fixed during a run: Init chooses which files exist, which of *)
(* them the parser gives up on, and the imports of the others.              *)
(***************************************************************************)
EXTENDS Integers, Sequences, Functions

CONSTANTS
    Names,       \* module paths
    Root,        \* the imports of the root program, in order
    MaxImports   \* bound: imports of one file

ASSUME RootAssumption == Root \in Seq(Names) /\ MaxImports \in Nat

VARIABLES
    files,     \* "parsed", "missing" or "aborts", for each path
    imports,   \* the imports of each file, in order
    loaded,    \* the modules there when resolve_all returns
    outcome    \* of the call: "pending", "returned" or "failed"

loadingVars == <<files, imports, loaded, outcome>>

FileKinds == {"parsed", "missing", "aborts"}

ImportLists == UNION {[1..n -> Names] : n \in 0..MaxImports}

DiskInit ==
    /\ files \in [Names -> FileKinds]
    /\ imports \in [Names -> ImportLists]
    /\ \A n \in Names : files[n] # "parsed" => imports[n] = <<>>

Closed(S) ==
    /\ Range(Root) \subseteq S
    /\ \A n \in S : Range(imports[n]) \subseteq S

\* the paths that the root program imports, directly or not
Reachable == {n \in Names : \A S \in SUBSET Names : Closed(S) => n \in S}

Resolved == {n \in Reachable : files[n] = "parsed"}

Aborted == \E n \in Reachable : files[n] = "aborts"

LoadingInit ==
    /\ DiskInit
    /\ loaded = {}
    /\ outcome = "pending"

Resolve ==
    /\ outcome = "pending"
    /\ outcome' = IF Aborted THEN "failed" ELSE "returned"
    /\ loaded' = IF Aborted THEN {} ELSE Resolved
    /\ UNCHANGED <<files, imports>>

LoadingSpec == LoadingInit /\ [][Resolve]_loadingVars
=============================================================================
