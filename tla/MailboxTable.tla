---------------------------- MODULE MailboxTable -----------------------------
(***************************************************************************)
(* What the mailbox manager's table promises: a dictionary from pids to    *)
(* Mailboxes.  A pid gets a mailbox that belongs to nobody else, or loses  *)
(* its mailbox; no operation on one pid disturbs another pid's entry.      *)
(***************************************************************************)
CONSTANTS Pids, Mailboxes, NULL

VARIABLE entry   \* the mailbox filed under each pid, or NULL

TInit == entry = [p \in Pids |-> NULL]

Put(p, m) ==
  /\ \A q \in Pids : entry[q] # m
  /\ entry' = [entry EXCEPT ![p] = m]
Remove(p) == entry' = [entry EXCEPT ![p] = NULL]

TNext == \E p \in Pids : Remove(p) \/ \E m \in Mailboxes : entry[p] = NULL /\ Put(p, m)

TSpec == TInit /\ [][TNext]_entry
=============================================================================
