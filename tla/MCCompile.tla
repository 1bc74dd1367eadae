------------------------------- MODULE MCCompile -------------------------------
(* Compile for TLC: three module paths, two of them imported by the root.     *)
EXTENDS Compile

CONSTANTS a, b, c

MCNames == {a, b, c}
MCRoot == <<a, b>>

\* Where a file has a fault, every file has at most one import.
MCInit ==
    /\ CompileInit
    /\ \/ rootFault = "none" /\ \A n \in Names : faults[n] = "none"
       \/ \A n \in Names : Len(imports[n]) <= 1

MCSpec == MCInit /\ [][CompileNext]_compileVars
=============================================================================
