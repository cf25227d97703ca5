------------------------------- MODULE MCLocks -------------------------------
(* Small instances of Locks for TLC: two processes in one checkout, one and  *)
(* the operator in another, the first and the third of one user.             *)
EXTENDS Locks, TLC

CONSTANTS p1, p2, p3, op, c1, c2, u1, u2

Home == (p1 :> c1) @@ (p2 :> c1) @@ (p3 :> c2) @@ (op :> c2)
User == (p1 :> u1) @@ (p2 :> u2) @@ (p3 :> u1) @@ (op :> u2)
==============================================================================
