------------------------------ MODULE Syscalls -------------------------------
(***************************************************************************)
(* The system calls module.c installs, with message.c, made by the threads *)
(* of one process and by the senders of other processes on that process's  *)
(* mailbox.  Mailbox.tla lets a task that holds a claim call anything;     *)
(* here each task follows the code: look the mailbox up, use it, give the  *)
(* claim back, return.                                                     *)
(*                                                                         *)
(* What a task does between two locked sections touches only its own       *)
(* variables or a fresh Message, so it is made part of the next section:   *)
(* message_create of mailbox_add_message, message_destroy of the           *)
(* unclaim_mailbox before it.                                              *)
(***************************************************************************)
EXTENDS Mailbox

VARIABLES
  call,       \* where each task is in the functions of module.c
  block,      \* the block argument of its call
  slab,       \* the Messages allocated from message_cache
  group_exit  \* why the process's remaining threads are being killed, if they are

locals == <<call, block, slab, group_exit>>
svars  == <<vars, locals>>

at(t, where) == call' = [call EXCEPT ![t] = where]

(* Only its own threads receive from a mailbox and manage it. *)
Enters(t) == {"send"} \cup IF t \in Owners THEN {"receive", "manage"} ELSE {}

(* The mailbox is created by the first call that looks it up. *)
SInit ==
  /\ Init
  /\ \E first \in Tasks : \E c \in Enters(first), b \in BOOLEAN :
        /\ pc[first] = "in"
        /\ call = [t \in Tasks |-> IF t = first THEN c ELSE "none"]
        /\ block = [t \in Tasks |-> t = first /\ b]
  /\ slab = {}
  /\ group_exit = "no"

(* A task enters a call and finds the destination process valid; the call  *)
(* returns MAILBOX_INVALID at once when it is not.                         *)
enter(t) ==
  /\ call[t] = "none"
  /\ group_exit # "no" => t \notin Owners
  /\ check_process(t)
  /\ \E c \in Enters(t), b \in BOOLEAN :
        /\ at(t, c)
        /\ block' = [block EXCEPT ![t] = b]
  /\ UNCHANGED <<slab, group_exit>>

lookup_error_ignored(t) ==
  /\ get_mailbox_for_pid(t)
  /\ UNCHANGED locals
lookup(t) ==
  /\ get_mailbox_for_pid(t)
  /\ at(t, IF pc'[t] = "in" THEN call[t] ELSE "none")
  /\ UNCHANGED <<block, slab, group_exit>>

(* The end of every call that got the mailbox. *)
finish(t) ==
  /\ unclaim_mailbox(t)
  /\ at(t, "none")
  /\ block' = [block EXCEPT ![t] = FALSE]
  /\ UNCHANGED group_exit

-----------------------------------------------------------------------------
(* __send_message *)

(* A Message is allocated, or freed, from message_cache. *)
message_create(m) ==
  /\ m \in Messages \ slab
  /\ slab' = slab \cup {m}
message_destroy(ms) == slab' = slab \ ms

(* message_create fails: bad length, no memory or unreadable user memory.  *)
(* What it had allocated it has freed again.                               *)
message_create_fails_keeps_claim(t) ==
  /\ call[t] = "send" /\ pc[t] = "in"
  /\ at(t, "none")
  /\ block' = [block EXCEPT ![t] = FALSE]
  /\ pc' = [pc EXCEPT ![t] = "user"]
  /\ UNCHANGED <<list, stopped, waiting, modify_queue, claims, hand, ret, signalled, dpc,
                 slab, group_exit>>
message_create_fails(t) ==
  /\ call[t] = "send" /\ pc[t] = "in"
  /\ finish(t)
  /\ UNCHANGED slab

__send_message(t) ==
  /\ call[t] = "send" /\ pc[t] = "in"
  /\ \E m \in Messages :
        /\ message_create(m)
        /\ mailbox_add_message(t, m, block[t], FALSE)
  /\ at(t, "sent")
  /\ UNCHANGED <<block, group_exit>>

(* Nothing destroys a Message that was not added. *)
send_return(t) ==
  /\ call[t] = "sent" /\ pc[t] = "in"
  /\ finish(t)
  /\ UNCHANGED slab

-----------------------------------------------------------------------------
(* __recieve_message *)

__recieve_message(t) ==
  /\ call[t] = "receive" /\ pc[t] = "in"
  /\ mailbox_remove_message(t, block[t])
  /\ at(t, "copying")
  /\ UNCHANGED <<block, slab, group_exit>>

(* mailbox_remove_message failed, or the three copy_to_user succeeded:     *)
(* unclaim, and message_destroy in the second case.                        *)
receive_return(t) ==
  /\ call[t] = "copying" /\ pc[t] = "in"
  /\ finish(t)
  /\ message_destroy({hand[t]})

(* A copy_to_user failed: back to the head of the list, waiting for room.  *)
put_back_at_tail(t) ==
  /\ call[t] = "copying" /\ pc[t] = "in" /\ ret[t] = "OK"
  /\ mailbox_add_message(t, hand[t], TRUE, FALSE)
  /\ at(t, "put_back")
  /\ UNCHANGED <<block, slab, group_exit>>
put_back_without_waiting(t) ==
  /\ call[t] = "copying" /\ pc[t] = "in" /\ ret[t] = "OK"
  /\ mailbox_add_message(t, hand[t], FALSE, TRUE)
  /\ at(t, "put_back")
  /\ UNCHANGED <<block, slab, group_exit>>
put_back(t) ==
  /\ call[t] = "copying" /\ pc[t] = "in" /\ ret[t] = "OK"
  /\ mailbox_add_message(t, hand[t], TRUE, TRUE)
  /\ at(t, "put_back")
  /\ UNCHANGED <<block, slab, group_exit>>

(* The put-back's own error is ignored. *)
put_back_return(t) ==
  /\ call[t] = "put_back" /\ pc[t] = "in"
  /\ finish(t)
  /\ UNCHANGED slab

-----------------------------------------------------------------------------
(* __manage_mailbox *)

(* Copying message_count out failed, or the mailbox is not to be stopped,  *)
(* or it has been.                                                         *)
manage_return(t) ==
  /\ call[t] \in {"manage", "stopped"} /\ pc[t] = "in"
  /\ finish(t)
  /\ UNCHANGED slab

__manage_mailbox(t) ==
  /\ call[t] = "manage" /\ pc[t] = "in"
  /\ mailbox_stop(t)
  /\ at(t, "stopped")
  /\ UNCHANGED <<block, slab, group_exit>>

-----------------------------------------------------------------------------
(* Exit *)

(* current->signal->live: the threads that have not gone through do_exit. *)
live == Cardinality({t \in Owners : pc[t] # "exited"})

(* remove_mailbox_for_pid for a caller of an exit call; MAILBOX_INVALID    *)
(* when the mailbox is not in the table, which the caller ignores.         *)
remove_if_linked(t) ==
  \/ \E d \in Destroyers : remove_mailbox_for_pid(t, d)
  \/ pc[t] = "user" /\ ~linked /\ UNCHANGED vars

(* Only the last live thread removes the mailbox; `live' is read before    *)
(* this thread is counted out.                                             *)
__new_sys_exit(t) ==
  /\ call[t] = "none" /\ pc[t] = "user"
  /\ IF live = 1 THEN remove_if_linked(t) ELSE UNCHANGED vars
  /\ at(t, "exit")
  /\ UNCHANGED <<block, slab, group_exit>>

__new_sys_exit_group(t) ==
  /\ call[t] = "none"
  /\ remove_if_linked(t)
  /\ at(t, "exit_group")
  /\ UNCHANGED <<block, slab, group_exit>>

(* The kernel's own exit (external): a thread that called exit, or whose   *)
(* process is being killed, ends; exit_group kills the process.            *)
thread_exit(t) ==
  /\ call[t] \in {"exit", "exit_group"} \/ (call[t] = "none" /\ group_exit # "no")
  /\ do_exit(t)
  /\ at(t, "none")
  /\ group_exit' = IF call[t] = "exit_group" /\ group_exit = "no"
                   THEN "called" ELSE group_exit
  /\ UNCHANGED <<block, slab>>

(* A fatal signal kills the process without any exit call (external). *)
fatal_signal ==
  /\ group_exit = "no"
  /\ \E t \in Owners : pc[t] # "exited"
  /\ group_exit' = "signal"
  /\ UNCHANGED <<vars, call, block, slab>>

-----------------------------------------------------------------------------
(* mailbox_destroy calls message_destroy on what it takes off the list. *)
flush_messages(d) ==
  /\ mailbox_flush(d)
  /\ message_destroy(IF dpc'[d] = "flushed"
                     THEN {messages[i] : i \in DOMAIN messages} ELSE {})
  /\ UNCHANGED <<call, block, group_exit>>

(* The steps a task takes by itself once it has entered a call. *)
Return(t) ==
  \/ message_create_fails(t)
  \/ send_return(t)
  \/ receive_return(t)
  \/ put_back_return(t)
  \/ manage_return(t)
Resume(t) ==
  /\ add_message_resume(t) \/ remove_message_resume(t)
  /\ UNCHANGED locals
Proceed(t) ==
  \/ lookup(t)
  \/ __send_message(t)
  \/ __recieve_message(t)
  \/ put_back(t)
  \/ __manage_mailbox(t)
  \/ Return(t)
  \/ Resume(t)

Delete(d) ==
  \/ flush_messages(d)
  \/ /\ \/ deletion_thread_unlink(d)
        \/ mailbox_destroy(d)
        \/ wait_until_mailbox_unclaimed(d)
     /\ UNCHANGED locals

SNext ==
  \/ \E t \in Tasks :
        \/ enter(t)
        \/ Proceed(t)
        \/ signal(t) /\ UNCHANGED locals
  \/ \E t \in Owners :
        \/ __new_sys_exit(t)
        \/ __new_sys_exit_group(t)
        \/ thread_exit(t)
  \/ fatal_signal
  \/ \E d \in Destroyers : Delete(d)

SyscallSpec == SInit /\ [][SNext]_svars

(* Runnable tasks and kthreads get the processor, and a spinlock in the    *)
(* end.  Entering a call, being signalled and calling exit are up to the   *)
(* tasks; a thread on its way out does not stop there.                     *)
FairSyscallSpec ==
  /\ SyscallSpec
  /\ \A t \in Tasks : WF_svars(Proceed(t))
  /\ \A t \in Owners : WF_svars(thread_exit(t))
  /\ \A d \in Destroyers : WF_svars(Delete(d))

-----------------------------------------------------------------------------
(* Properties *)

(* The types, and that a task's place in module.c and its place in the     *)
(* mailbox agree: it is past the lookup exactly when it holds a claim, and *)
(* blocked only inside the function it called.                             *)
STypeOK ==
  /\ call \in [Tasks -> {"none", "send", "receive", "manage", "sent", "copying",
                         "put_back", "stopped", "exit", "exit_group"}]
  /\ block \in [Tasks -> BOOLEAN]
  /\ slab \subseteq Messages
  /\ group_exit \in {"no", "called", "signal"}
  /\ \A t \in Tasks :
        CASE call[t] = "none"                -> pc[t] \in {"user", "exited"}
          [] call[t] \in {"exit", "exit_group"} -> pc[t] \in {"user", "exiting"}
          [] call[t] \in {"send", "receive", "manage"} -> pc[t] \in {"checked", "in"}
          [] call[t] = "sent"                -> pc[t] \in {"in", "adding"}
          [] call[t] = "copying"             -> pc[t] \in {"in", "removing"}
          [] call[t] = "put_back"            -> pc[t] \in {"in", "readding"}
          [] call[t] = "stopped"             -> pc[t] = "in"

(* module.c calls the functions of mailbox.c only in ways Mailbox.tla      *)
(* allows: the Message it passes is nobody else's, only the owner's        *)
(* threads receive, and only a Message that was received is put back.      *)
(* What is true of that module's mailbox is then true of this one.         *)
ImplementsMailbox == Spec

(* "It's impossible for a Message struct to be used by more than one       *)
(* process at a time": a Message is on the list once or in the hands of    *)
(* one task, never both, and it is not freed while it is in either place.  *)
MessagesOwnedOnce ==
  /\ \A i, j \in DOMAIN messages : messages[i] = messages[j] => i = j
  /\ \A i \in DOMAIN messages :
        messages[i] \in slab /\ \A t \in Tasks : hand[t] # messages[i]
  /\ \A t \in Tasks : hand[t] \in Messages =>
        hand[t] \in slab /\ \A u \in Tasks \ {t} : hand[u] # hand[t]

(* A Message that could not be copied to the user is in the mailbox again  *)
(* when the put-back has ended.                                            *)
PutBackKeepsMessage ==
  \A t \in Tasks : call[t] = "put_back" /\ pc[t] = "in" => hand[t] = NoMessage

(* The same, where it holds: a put-back that finds its place taken by a    *)
(* sender waits for room, and gives the Message up only when the mailbox   *)
(* has been stopped or the caller is signalled.                            *)
PutBackWaitsForRoom ==
  \A t \in Tasks : call[t] = "put_back" /\ pc[t] = "in" /\ hand[t] # NoMessage
     => \/ ret[t] = "MAILBOX_STOPPED" /\ stopped # {}
        \/ ret[t] = "MAILBOX_ERROR" /\ t \in signalled

(* When the mailbox is gone and nobody is in a call, every Message has     *)
(* been given back to message_cache.                                       *)
MessagesFreed == freed /\ Holders = {} => slab = {}

(* A call made with block = false never waits. *)
NonBlockingNeverWaits == \A t \in Waiters : block[t]

(* "The mailbox is not deleted until the last thread exits"                *)
(* (testmailbox6.c): a mailbox the deletion kthread has unlinked belongs   *)
(* to a process without threads.                                           *)
DeletedAfterLastThread == ~linked => \A t \in Owners : pc[t] = "exited"

(* When all threads have left through exit or exit_group the mailbox is    *)
(* deleted.                                                                *)
ExitDeletesMailbox ==
  (\A t \in Owners : pc[t] = "exited") /\ group_exit # "signal" ~> freed
=============================================================================
