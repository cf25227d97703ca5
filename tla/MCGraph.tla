------------------------------- MODULE MCGraph -------------------------------
(* Small instances of Graph for TLC.  The algorithms use the edge lists of a *)
(* node only sorted or as sets, so one order of the same edges is enough.    *)
EXTENDS Graph

InOrder ==
  \A i, j \in DOMAIN edges : i < j =>
    \/ edges[i].from < edges[j].from
    \/ edges[i].from = edges[j].from /\ edges[i].to <= edges[j].to
==============================================================================
