----------------------------- MODULE MCCommandLine -----------------------------
(* A letter in either case.                                                *)
EXTENDS CommandLine

Lowered == [c \in {"a", "A"} |-> "a"]
================================================================================
