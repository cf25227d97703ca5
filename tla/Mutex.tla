-------------------------------- MODULE Mutex --------------------------------
(***************************************************************************)
(* What the graph lock promises ("serializes terragraph                    *)
(* plan/apply/destroy across machines", internal/graphlock/graphlock.go):  *)
(* at any moment at most one process executes the graph.                   *)
(***************************************************************************)
CONSTANT Procs
VARIABLE inside   \* the processes executing the graph

Init == inside = {}
Enter(p) == inside = {} /\ inside' = {p}
Leave(p) == p \in inside /\ inside' = inside \ {p}
Next == \E p \in Procs : Enter(p) \/ Leave(p)
Spec == Init /\ [][Next]_inside
==============================================================================
