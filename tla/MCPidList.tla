------------------------------ MODULE MCPidList ------------------------------
(***************************************************************************)
(* The list of processes with three nodes for four pids.                   *)
(***************************************************************************)
EXTENDS PidList, TLC

CONSTANTS p1, p2, p3, p4, c1

Symmetry == Permutations({p1, p2, p3, p4})
=============================================================================
