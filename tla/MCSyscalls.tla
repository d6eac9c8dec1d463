----------------------------- MODULE MCSyscalls ------------------------------
(***************************************************************************)
(* Small instances of the system calls: threads of the owning process (o1  *)
(* is the leader), senders of other processes, deletion kthreads, Messages.*)
(***************************************************************************)
EXTENDS Syscalls, TLC

CONSTANTS o1, o2, s1, s2, s3, d1, m1, m2, m3

(* Messages are interchangeable, and so are senders of other processes. *)
LostWakeUp == Permutations({m1, m2, m3}) \cup Permutations({s1, s2, s3})

(* Only sends, receives and stops: no signal and no exit. *)
CallsOnly == SInit /\ [][\E t \in Tasks : enter(t) \/ Proceed(t)]_svars
=============================================================================
