------------------------------- MODULE MCGossip ------------------------------
(* A small family. *)
EXTENDS Gossip
CONSTANTS a, b, c
=============================================================================
