----------------------------- MODULE MCExecution -----------------------------
(* Small instances of Execution for TLC. *)
EXTENDS Execution, TLC

CONSTANTS a, b, p1, p2

ChainUp    == (a :> {}) @@ (b :> {a})
ChainLevel == (a :> 0) @@ (b :> 1)
PairUp     == (a :> {}) @@ (b :> {})
PairLevel  == (a :> 0) @@ (b :> 0)
SingleUp    == a :> {}
SingleLevel == a :> 0
OneNode    == {{a}}
BothNodes  == {{a, b}}

Processes == Permutations(Procs)
==============================================================================
