----------------------------- MODULE MCConsole ------------------------------
(***************************************************************************)
(* The console's constants for TLC: one cluster replaced by another, and   *)
(* both.                                                                   *)
(***************************************************************************)
EXTENDS Console

CONSTANTS c1, c2   \* model values

MCClusters == {c1, c2}
(* One page of each kind that a run of a few events can tell apart.        *)
MCPages    == {NodePage, PodPage, LogsPage, ApmPage, TopologyPage}
MCLists    == {<< >>, <<c1>>, <<c2>>, <<c1, c2>>}
=============================================================================
