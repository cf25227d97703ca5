----------------------------- MODULE MCScheduler -----------------------------
(* Small instances of Scheduler for TLC: a -> c -> d, b -> e and a lone f,   *)
(* with c also depending on a node u that is not selected.                   *)
EXTENDS Scheduler, TLC

CONSTANTS a, b, c, d, e, f, u

Preds  == (a :> {}) @@ (b :> {}) @@ (c :> {a, u}) @@ (d :> {c}) @@ (e :> {b}) @@ (f :> {}) @@ (u :> {})
Layers == << <<a, b, f>>, <<c, e>>, <<d>> >>
==============================================================================
