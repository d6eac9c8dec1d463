------------------------------ MODULE MCMailbox ------------------------------
(***************************************************************************)
(* Small instances of one mailbox with arbitrary callers: threads of the   *)
(* owning process (o1 is the leader), senders of other processes, a        *)
(* deletion kthread, Messages.                                             *)
(***************************************************************************)
EXTENDS Mailbox, TLC

CONSTANTS o1, o2, s1, s2, d1, m1, m2, m3

(* Messages are interchangeable, and so are the senders that own nothing. *)
Symmetry == Permutations({m1, m2, m3}) \cup Permutations({s1, s2})
=============================================================================
