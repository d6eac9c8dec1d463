------------------------------ MODULE MCScripts ------------------------------
(* All programs, with a few processes each. *)
EXTENDS Scripts
CONSTANTS a, b, c, d, e
=============================================================================
