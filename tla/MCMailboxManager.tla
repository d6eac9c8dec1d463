-------------------------- MODULE MCMailboxManager ---------------------------
(***************************************************************************)
(* Instances of the mailbox manager: processes p and q, a second thread of *)
(* p, and the pid of nobody; all keys fall into the second of two buckets. *)
(***************************************************************************)
EXTENDS MailboxManager

CONSTANTS p, p2, q, nobody, m1, m2, m3, k1, k2

Collide == [x \in Pids |-> 1]
Process == [t \in Tasks |-> IF t = p2 THEN p ELSE t]
=============================================================================
