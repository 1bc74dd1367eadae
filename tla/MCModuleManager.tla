--------------------------- MODULE MCModuleManager ---------------------------
(* ModuleManager for TLC: three module paths and a root program that imports *)
(* two of them, one twice.                                                    *)
EXTENDS ModuleManager

CONSTANTS a, b, c

MCNames == {a, b, c}
MCRoot == <<a, b, a>>
=============================================================================
