------------------------------- MODULE MCStorm -------------------------------
(* Small storms for TLC: a process with a worker and others with none. *)
EXTENDS Storm
CONSTANTS a, b, c, w1
Few == [p \in Processes |-> IF p = a THEN {{w1}} ELSE {{}}]
=============================================================================
