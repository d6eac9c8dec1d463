--------------------------- MODULE MailboxService ----------------------------
(***************************************************************************)
(* The message facility as programs see it: every process has a mailbox,   *)
(* every call takes effect in one step.  BoundedFifo.tla says the same of  *)
(* one mailbox, and Mailbox.tla is shown to implement that.                *)
(*                                                                         *)
(* Exiting takes a while.  A call that looked the mailbox up before the    *)
(* exit call marked it is refused with MAILBOX_STOPPED, one that comes     *)
(* later with MAILBOX_INVALID; if the process never had a mailbox the exit *)
(* call marks nothing and sends can still make one, which is lost.  A      *)
(* process whose main thread has ended before the others is leaderless:    *)
(* is_process_valid looks at the main thread, so every call on its mailbox *)
(* is refused, the calls of its own threads too.                           *)
(*                                                                         *)
(* The first call on a mailbox makes it and a send makes a message; either *)
(* allocation may fail, and the call returns MAILBOX_ERROR.                *)
(***************************************************************************)
EXTENDS Naturals, Sequences

CONSTANTS
  Processes,   \* the processes a program may create
  Capacity,    \* message_max
  MaxFailures  \* bound: allocations that may fail

ASSUME ServiceAssumption == Capacity \in Nat /\ MaxFailures \in Nat

VARIABLES
  life,        \* "unborn", "running", "leaderless", "exiting" or "dead"
  box,         \* the messages in each process's mailbox
  stopped,     \* processes whose mailbox is stopped
  made,        \* processes whose mailbox has been made
  failures     \* allocations that have failed

service == <<life, box, stopped, made, failures>>
memory  == <<made, failures>>

ServiceInit ==
  /\ box = [p \in Processes |-> <<>>]
  /\ stopped = {}
  /\ made = {}
  /\ failures = 0

NoMemory == IF failures < MaxFailures THEN {"MAILBOX_ERROR"} ELSE {}

(* What a send to that process may return, without waiting for room. *)
send_never_full(p) ==
  CASE life[p] \in {"unborn", "leaderless", "dead"} -> {"MAILBOX_INVALID"}
    [] life[p] = "exiting" -> {"MAILBOX_INVALID", "MAILBOX_STOPPED", "OK"}
    [] life[p] = "running" /\ p \in stopped    -> {"MAILBOX_STOPPED"} \cup NoMemory
    [] life[p] = "running" /\ p \notin stopped -> {"OK"} \cup NoMemory
__send_message(p) ==
  CASE life[p] \in {"unborn", "leaderless", "dead"} -> {"MAILBOX_INVALID"}
    [] life[p] = "exiting" ->
         (IF p \in made THEN {"MAILBOX_INVALID", "MAILBOX_STOPPED"}
          ELSE {"MAILBOX_INVALID", "MAILBOX_FULL", "OK"}) \cup NoMemory
    [] life[p] = "running" /\ p \in stopped -> {"MAILBOX_STOPPED"} \cup NoMemory
    [] life[p] = "running" /\ p \notin stopped ->
         (IF Len(box[p]) >= Capacity THEN {"MAILBOX_FULL"} ELSE {"OK"}) \cup NoMemory

(* What a receive by that process may return, without waiting for a        *)
(* message.                                                                *)
receive_code_of_stopped(p) ==
  IF life[p] = "leaderless" THEN {"MAILBOX_INVALID"}
  ELSE IF p \in stopped THEN {"MAILBOX_STOPPED"}
  ELSE IF box[p] # <<>> THEN {"OK"} ELSE {"MAILBOX_EMPTY"}
__recieve_message(p) ==
  IF life[p] = "leaderless" THEN {"MAILBOX_INVALID"}
  ELSE IF box[p] # <<>> THEN {"OK"}
  ELSE IF p \in stopped THEN {"MAILBOX_STOPPED"}
  ELSE IF p \in made THEN {"MAILBOX_EMPTY"} ELSE {"MAILBOX_EMPTY"} \cup NoMemory

(* What __manage_mailbox of that process may return. *)
__manage_mailbox(p) ==
  IF life[p] = "leaderless" THEN {"MAILBOX_INVALID"}
  ELSE IF p \in made THEN {"OK"} ELSE {"OK"} \cup NoMemory

(* The lookup that begins every call: a mailbox that was there, is made, or*)
(* could not be made.  A send whose message could not be made may have     *)
(* made the mailbox.                                                       *)
get_mailbox_for_pid(p, code) ==
  /\ failures' = IF code = "MAILBOX_ERROR" THEN failures + 1 ELSE failures
  /\ made' = IF life[p] = "running" /\ code # "MAILBOX_ERROR" THEN made \cup {p} ELSE made
(* The effect of a send and of a receive that returned that code, and of   *)
(* __manage_mailbox, which can stop and not restart.                       *)
deliver(p, m, code) ==
  /\ box' = IF code = "OK" /\ life[p] = "running" THEN [box EXCEPT ![p] = Append(@, m)] ELSE box
  /\ \/ get_mailbox_for_pid(p, code)
     \/ /\ code = "MAILBOX_ERROR" /\ life[p] = "running" /\ p \notin made
        /\ failures' = failures + 1
        /\ made' = made \cup {p}
take(p, code) ==
  /\ box' = IF code = "OK" THEN [box EXCEPT ![p] = Tail(@)] ELSE box
  /\ get_mailbox_for_pid(p, code)
manage(p, stop, code) ==
  /\ stopped' = IF stop /\ code = "OK" THEN stopped \cup {p} ELSE stopped
  /\ get_mailbox_for_pid(p, code)

(* exit_group: the mailbox is marked, the process dies later and with it   *)
(* go the messages.                                                        *)
exit_call(p) == life' = [life EXCEPT ![p] = "exiting"]
exited(p) ==
  /\ life[p] = "exiting"
  /\ life' = [life EXCEPT ![p] = "dead"]
  /\ box' = [box EXCEPT ![p] = <<>>]
  /\ stopped' = stopped \ {p}
  /\ made' = made \ {p}
  /\ UNCHANGED failures
=============================================================================
