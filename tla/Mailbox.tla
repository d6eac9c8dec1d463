------------------------------- MODULE Mailbox -------------------------------
(***************************************************************************)
(* One Mailbox object of Message_LKM, from the moment it is linked into    *)
(* the manager's table until kmem_cache_free: mailbox.c with the parts of  *)
(* mailbox_manager.c that hand out, release and delete this object.        *)
(*                                                                         *)
(* Callers are left as general as the interface allows: a task that holds  *)
(* a claim may call the functions in any order, any number of times; only  *)
(* the owner's threads remove, put back and stop.  Syscalls.tla adds the   *)
(* order in which module.c really calls them.                              *)
(*                                                                         *)
(* Granularity: a section under modify_queue.lock, dereference_queue.lock  *)
(* or mailbox_hash_table_lock is one step.  A blocking call is two: up to  *)
(* the schedule() inside wait_event, and from the lock's re-acquisition.   *)
(*                                                                         *)
(* A definition named after the one below it and a slip (such as           *)
(* mailbox_full_off_by_one) is that one with a bug planted in it.  The     *)
(* specification does not use it; it takes the other's place to show that  *)
(* a property notices.                                                     *)
(***************************************************************************)
EXTENDS Naturals, Sequences, FiniteSets, WaitQueue

CONSTANTS
  Tasks,         \* tasks that may use the mailbox
  Owners,        \* the threads of the process that owns it
  Leader,        \* the thread whose pid names the process
  Destroyers,    \* deletion kthreads, one per exit call that finds the mailbox
  Messages,      \* Message structs
  NoMessage,     \* a caller holds no Message
  BogusMessage,  \* list_entry() of an empty list: the list head taken for a Message
  MessageMax     \* message_max (32 in the code)

ASSUME MailboxAssumption ==
  /\ IsFiniteSet(Tasks) /\ IsFiniteSet(Destroyers)
  /\ Tasks \cap Destroyers = {}
  /\ Owners \subseteq Tasks
  /\ Leader \in Owners
  /\ NoMessage \notin Messages /\ BogusMessage \notin Messages
  /\ NoMessage # BogusMessage
  /\ MessageMax \in Nat \ {0}

VARIABLES
  linked,             \* hash_table_entry is in the manager's table
  messages,           \* the list of queued Messages, oldest first
  message_count,
  stopped,            \* the flag bits set in mailbox->stopped
  waiting,            \* tasks inside a blocking wait
  modify_queue,       \* wait queue of blocked senders, receivers, destroyers
  dereferences,       \* claims handed out
  dereference_queue,  \* wait queue of destroyers waiting for claims to end
  freed,              \* kmem_cache_free has been called on the object
  pc,                 \* where each task is
  hand,               \* the Message each task passed or was given
  ret,                \* what each task's last call returned
  signalled,          \* tasks in a call with a signal pending
  dpc                 \* where each deletion kthread is

list   == <<messages, message_count>>
claims == <<linked, dereferences, dereference_queue, freed>>
vars   == <<list, stopped, waiting, modify_queue, claims,
            pc, hand, ret, signalled, dpc>>

Waits   == {"adding", "readding", "removing"}
Calling == {"in"} \cup Waits

(* The tasks that sleep, or are about to run again, inside wait_event. *)
Waiters == {t \in Tasks : pc[t] \in Waits}
(* mailbox_destroy is past its flush. *)
Flushed == \E d \in Destroyers : dpc[d] \in {"flushed", "unclaiming", "done"}
(* The tasks that hold a claimed pointer to the mailbox. *)
Holders == {t \in Tasks : pc[t] \in Calling}

-----------------------------------------------------------------------------
(* mailbox_create, __hashtable_put and claim_mailbox by the first task     *)
(* that asked for the mailbox, one section under the table's lock.         *)
Init ==
  /\ linked = TRUE
  /\ messages = <<>>
  /\ message_count = 0
  /\ stopped = {}
  /\ waiting = 0
  /\ modify_queue = EmptyQueue
  /\ dereferences = 1
  /\ dereference_queue = EmptyQueue
  /\ freed = FALSE
  /\ \E first \in Tasks : pc = [t \in Tasks |-> IF t = first THEN "in" ELSE "user"]
  /\ hand = [t \in Tasks |-> NoMessage]
  /\ ret = [t \in Tasks |-> "OK"]
  /\ signalled = {}
  /\ dpc = [d \in Destroyers |-> "none"]

-----------------------------------------------------------------------------
(* Steps shared by the functions of mailbox.c. *)

mailbox_full_off_by_one == message_count > MessageMax
mailbox_full == message_count >= MessageMax

(* Senders and receivers wait exclusively, deletion kthreads do not. *)
wake_up(q) == WakeUpLocked(q, Tasks)

return(t, code) ==
  /\ pc' = [pc EXCEPT ![t] = "in"]
  /\ ret' = [ret EXCEPT ![t] = code]

(* atomic_inc(waiting) and wait_event up to schedule().  A signal that is  *)
(* already pending ends the wait before it begins.                         *)
start_waiting(t, where) ==
  \/ /\ t \notin signalled
     /\ waiting' = waiting + 1
     /\ modify_queue' = Sleep(modify_queue, t)
     /\ pc' = [pc EXCEPT ![t] = where]
     /\ UNCHANGED ret
  \/ /\ t \in signalled
     /\ modify_queue' = wake_up(modify_queue)
     /\ return(t, "MAILBOX_ERROR")
     /\ UNCHANGED waiting

(* Leaving wait_event, atomic_dec(waiting) and the wake_up_locked that     *)
(* passes the wake-up on to the next waiter.                               *)
queue_after_wait(t) == wake_up(Leave(modify_queue, t))

stop_waiting(t) ==
  /\ waiting' = waiting - 1
  /\ modify_queue' = queue_after_wait(t)

(* The condition was false: wait_event goes back to sleep. *)
wait_again(t) ==
  /\ t \notin signalled
  /\ modify_queue' = Sleep(modify_queue, t)
  /\ UNCHANGED <<list, waiting, pc, hand, ret>>

(* The condition was false and a signal is pending. *)
interrupted(t) ==
  /\ t \in signalled
  /\ stop_waiting(t)
  /\ return(t, "MAILBOX_ERROR")
  /\ UNCHANGED <<list, hand>>

-----------------------------------------------------------------------------
(* mailbox_add_message *)

list_insert_always_head(m, head) == <<m>> \o messages
list_insert(m, head) == IF head THEN <<m>> \o messages ELSE Append(messages, m)

insert(t, m, head) ==
  /\ messages' = list_insert(m, head)
  /\ message_count' = message_count + 1
  /\ hand' = [hand EXCEPT ![t] = NoMessage]
  /\ return(t, "OK")

(* An early return: the Message stays with the caller. *)
refuse(t, m, code) ==
  /\ hand' = [hand EXCEPT ![t] = m]
  /\ return(t, code)
  /\ UNCHANGED <<list, waiting, modify_queue>>

mailbox_add_message(t, m, block, head) ==
  /\ pc[t] = "in"
  /\ hand[t] \in {NoMessage, m}
  /\ \/ /\ stopped # {}
        /\ refuse(t, m, "MAILBOX_STOPPED")
     \/ /\ stopped = {} /\ mailbox_full /\ ~block
        /\ refuse(t, m, "MAILBOX_FULL")
     \/ /\ stopped = {} /\ mailbox_full /\ block
        /\ start_waiting(t, IF head THEN "readding" ELSE "adding")
        /\ hand' = [hand EXCEPT ![t] = m]
        /\ UNCHANGED list
     \/ /\ stopped = {} /\ ~mailbox_full
        /\ insert(t, m, head)
        /\ modify_queue' = wake_up(modify_queue)
        /\ UNCHANGED waiting
  /\ UNCHANGED <<stopped, claims, signalled, dpc>>

(* The rest of mailbox_add_message, once the blocked task runs again and   *)
(* has taken modify_queue.lock.                                            *)
add_message_resume(t) ==
  /\ pc[t] \in {"adding", "readding"}
  /\ t \notin modify_queue.asleep
  /\ \/ /\ stopped # {}
        /\ stop_waiting(t)
        /\ return(t, "MAILBOX_STOPPED")
        /\ UNCHANGED <<list, hand>>
     \/ /\ stopped = {} /\ ~mailbox_full
        /\ waiting' = waiting - 1
        /\ insert(t, hand[t], pc[t] = "readding")
        /\ modify_queue' = wake_up(queue_after_wait(t))
     \/ /\ stopped = {} /\ mailbox_full
        /\ wait_again(t) \/ interrupted(t)
  /\ UNCHANGED <<stopped, claims, signalled, dpc>>

-----------------------------------------------------------------------------
(* mailbox_remove_message *)

(* list_entry(messages.next), list_del_init and message_count--.  It goes  *)
(* by message_count: when the list is empty all the same, list_entry gives *)
(* the list head itself and the list stays empty.                          *)
take_first_keeps_count(t) ==
  /\ hand' = [hand EXCEPT ![t] =
                IF messages = <<>> THEN BogusMessage ELSE Head(messages)]
  /\ messages' = IF messages = <<>> THEN <<>> ELSE Tail(messages)
  /\ return(t, "OK")
  /\ UNCHANGED message_count
take_first_keeps_message(t) ==
  /\ hand' = [hand EXCEPT ![t] =
                IF messages = <<>> THEN BogusMessage ELSE Head(messages)]
  /\ message_count' = message_count - 1
  /\ return(t, "OK")
  /\ UNCHANGED messages
take_first(t) ==
  /\ hand' = [hand EXCEPT ![t] =
                IF messages = <<>> THEN BogusMessage ELSE Head(messages)]
  /\ messages' = IF messages = <<>> THEN <<>> ELSE Tail(messages)
  /\ message_count' = message_count - 1
  /\ return(t, "OK")

mailbox_remove_message_wakes_nobody(t, block) ==
  /\ pc[t] = "in"
  /\ hand[t] = NoMessage
  /\ \/ /\ stopped # {} /\ message_count = 0
        /\ refuse(t, NoMessage, "MAILBOX_STOPPED")
     \/ /\ stopped = {} /\ message_count = 0 /\ ~block
        /\ refuse(t, NoMessage, "MAILBOX_EMPTY")
     \/ /\ stopped = {} /\ message_count = 0 /\ block
        /\ start_waiting(t, "removing")
        /\ UNCHANGED <<list, hand>>
     \/ /\ message_count # 0
        /\ take_first(t)
        /\ UNCHANGED <<modify_queue, waiting>>
  /\ UNCHANGED <<stopped, claims, signalled, dpc>>
mailbox_remove_message(t, block) ==
  /\ pc[t] = "in"
  /\ hand[t] = NoMessage
  /\ \/ /\ stopped # {} /\ message_count = 0
        /\ refuse(t, NoMessage, "MAILBOX_STOPPED")
     \/ /\ stopped = {} /\ message_count = 0 /\ ~block
        /\ refuse(t, NoMessage, "MAILBOX_EMPTY")
     \/ /\ stopped = {} /\ message_count = 0 /\ block
        /\ start_waiting(t, "removing")
        /\ UNCHANGED <<list, hand>>
     \/ /\ message_count # 0
        /\ take_first(t)
        /\ modify_queue' = wake_up(modify_queue)
        /\ UNCHANGED waiting
  /\ UNCHANGED <<stopped, claims, signalled, dpc>>

remove_message_resume(t) ==
  /\ pc[t] = "removing"
  /\ t \notin modify_queue.asleep
  /\ \/ /\ stopped # {} /\ message_count = 0
        /\ stop_waiting(t)
        /\ return(t, "MAILBOX_STOPPED")
        /\ UNCHANGED <<list, hand>>
     \/ /\ message_count # 0
        /\ waiting' = waiting - 1
        /\ take_first(t)
        /\ modify_queue' = wake_up(queue_after_wait(t))
     \/ /\ stopped = {} /\ message_count = 0
        /\ wait_again(t) \/ interrupted(t)
  /\ UNCHANGED <<stopped, claims, signalled, dpc>>

-----------------------------------------------------------------------------
(* __mailbox_stop overwrites the flags, whatever they were. *)
mailbox_stop_wakes_nobody(status) ==
  /\ stopped' = status
  /\ UNCHANGED modify_queue
__mailbox_stop(status) ==
  /\ stopped' = status
  /\ modify_queue' = wake_up(modify_queue)

mailbox_exiting == __mailbox_stop({"STOPPED", "EXITING"})

mailbox_stop(t) ==
  /\ pc[t] = "in"
  /\ hand[t] = NoMessage
  /\ __mailbox_stop({"STOPPED"})
  /\ return(t, "OK")
  /\ UNCHANGED <<list, waiting, claims, hand, signalled, dpc>>

-----------------------------------------------------------------------------
(* Claims: get_mailbox_for_pid, claim_mailbox, unclaim_mailbox. *)

(* The process is named by its leader's pid; it stops being valid when the *)
(* leader is flagged PF_EXITING.                                           *)
is_process_valid == pc[Leader] # "exited"

(* The test made before the table's lock is taken. *)
check_process(t) ==
  /\ pc[t] = "user"
  /\ is_process_valid
  /\ pc' = [pc EXCEPT ![t] = "checked"]
  /\ UNCHANGED <<list, stopped, waiting, modify_queue, claims, hand, ret, signalled, dpc>>

claim_mailbox == dereferences' = dereferences + 1

(* Under the table's lock: find and claim the mailbox.  One that is        *)
(* EXITING is not handed out; its claim is taken and released again, which *)
(* wakes nobody, since no destroyer waits for claims on a linked mailbox.  *)
(* When it is no longer linked the caller goes on with a new Mailbox,      *)
(* which is another object.                                                *)
get_mailbox_for_pid(t) ==
  /\ pc[t] = "checked"
  /\ \/ /\ linked /\ "EXITING" \notin stopped
        /\ claim_mailbox
        /\ pc' = [pc EXCEPT ![t] = "in"]
     \/ /\ ~(linked /\ "EXITING" \notin stopped)
        /\ pc' = [pc EXCEPT ![t] = "user"]
        /\ UNCHANGED dereferences
  /\ UNCHANGED <<list, stopped, waiting, modify_queue, linked,
                 dereference_queue, freed, hand, ret, signalled, dpc>>

(* The last claim released wakes a destroyer waiting for it; destroyers    *)
(* wait exclusively on this queue.                                         *)
wake_destroyer_tested_too_early ==
  IF dereferences = 0 THEN WakeUpLocked(dereference_queue, Destroyers)
                      ELSE dereference_queue
wake_destroyer ==
  IF dereferences = 1 THEN WakeUpLocked(dereference_queue, Destroyers)
                      ELSE dereference_queue

(* unclaim_mailbox, and the return from the system call that follows it:   *)
(* signals are delivered, the call's variables are gone.                   *)
unclaim_mailbox(t) ==
  /\ pc[t] = "in"
  /\ dereferences' = dereferences - 1
  /\ dereference_queue' = wake_destroyer
  /\ pc' = [pc EXCEPT ![t] = "user"]
  /\ hand' = [hand EXCEPT ![t] = NoMessage]
  /\ ret' = [ret EXCEPT ![t] = "OK"]
  /\ signalled' = signalled \ {t}
  /\ UNCHANGED <<list, stopped, waiting, modify_queue, linked, freed, dpc>>

(* A signal arrives for a task inside a system call (external). *)
signal(t) ==
  /\ pc[t] \in Calling
  /\ t \notin signalled
  /\ signalled' = signalled \cup {t}
  /\ modify_queue' = Interrupt(modify_queue, t)
  /\ UNCHANGED <<list, stopped, waiting, claims, pc, hand, ret, dpc>>

-----------------------------------------------------------------------------
(* Exit and deletion. *)

(* remove_mailbox_for_pid, called by the exit system calls: a linked       *)
(* mailbox is marked EXITING under the table's lock and a deletion kthread *)
(* is started for it, without asking whether one was started before.       *)
remove_mailbox_for_pid(t, d) ==
  /\ pc[t] = "user"
  /\ linked
  /\ dpc[d] = "none"
  /\ mailbox_exiting
  /\ pc' = [pc EXCEPT ![t] = "exiting"]
  /\ dpc' = [dpc EXCEPT ![d] = "poll"]
  /\ UNCHANGED <<list, waiting, claims, hand, ret, signalled>>

(* do_exit sets PF_EXITING: at the end of an exit call, and also for a     *)
(* thread that exits while others live on or that a signal kills, which    *)
(* never called remove_mailbox_for_pid (external).                         *)
do_exit(t) ==
  /\ pc[t] \in {"user", "exiting"}
  /\ pc' = [pc EXCEPT ![t] = "exited"]
  /\ UNCHANGED <<list, stopped, waiting, modify_queue, claims, hand, ret, signalled, dpc>>

goto(d, where) == dpc' = [dpc EXCEPT ![d] = where]

(* The kthread polls until the process is invalid, then unlinks. *)
deletion_thread_keeps_link(d) ==
  /\ dpc[d] = "poll"
  /\ ~is_process_valid
  /\ goto(d, "unlinked")
  /\ UNCHANGED <<list, stopped, waiting, modify_queue, claims,
                 pc, hand, ret, signalled>>
deletion_thread_unlink(d) ==
  /\ dpc[d] = "poll"
  /\ ~is_process_valid
  /\ linked' = FALSE
  /\ goto(d, "unlinked")
  /\ UNCHANGED <<list, stopped, waiting, modify_queue, dereferences,
                 dereference_queue, freed, pc, hand, ret, signalled>>

(* mailbox_destroy: stop first ... *)
mailbox_destroy(d) ==
  /\ dpc[d] = "unlinked"
  /\ mailbox_exiting
  /\ goto(d, "stopping")
  /\ UNCHANGED <<list, waiting, claims, pc, hand, ret, signalled>>

(* ... then, under modify_queue.lock, wait until no task waits and flush.  *)
(* The flush empties the list and leaves message_count as it is.           *)
mailbox_flush_without_waiting(d) ==
  /\ dpc[d] = "stopping"
  /\ messages' = <<>>
  /\ goto(d, "flushed")
  /\ UNCHANGED <<message_count, stopped, waiting, modify_queue, claims,
                 pc, hand, ret, signalled>>
mailbox_flush(d) ==
  /\ dpc[d] = "stopping" \/ (dpc[d] = "draining" /\ d \notin modify_queue.asleep)
  /\ \/ /\ waiting = 0
        /\ modify_queue' = Leave(modify_queue, d)
        /\ messages' = <<>>
        /\ goto(d, "flushed")
     \/ /\ waiting # 0
        /\ modify_queue' = Sleep(modify_queue, d)
        /\ goto(d, "draining")
        /\ UNCHANGED messages
  /\ UNCHANGED <<message_count, stopped, waiting, claims, pc, hand, ret, signalled>>

(* wait_until_mailbox_unclaimed and kmem_cache_free. *)
wait_until_mailbox_unclaimed(d) ==
  /\ dpc[d] = "flushed" \/ (dpc[d] = "unclaiming" /\ d \notin dereference_queue.asleep)
  /\ \/ /\ dereferences = 0
        /\ dereference_queue' = Leave(dereference_queue, d)
        /\ freed' = TRUE
        /\ goto(d, "done")
     \/ /\ dereferences # 0
        /\ dereference_queue' = Sleep(dereference_queue, d)
        /\ goto(d, "unclaiming")
        /\ UNCHANGED freed
  /\ UNCHANGED <<list, stopped, waiting, modify_queue, linked, dereferences,
                 pc, hand, ret, signalled>>

-----------------------------------------------------------------------------
(* A Message that is in no list and in no task's hands. *)
unused(m) == m \notin {messages[i] : i \in DOMAIN messages} /\ \A t \in Tasks : hand[t] # m

Send(t) ==
  \E m \in Messages, block \in BOOLEAN :
     unused(m) /\ mailbox_add_message(t, m, block, FALSE)
PutBack(t) == hand[t] # NoMessage /\ mailbox_add_message(t, hand[t], TRUE, TRUE)
Remove(t) == \E block \in BOOLEAN : mailbox_remove_message(t, block)

Deletion(d) ==
  \/ deletion_thread_unlink(d)
  \/ mailbox_destroy(d)
  \/ mailbox_flush(d)
  \/ wait_until_mailbox_unclaimed(d)

Next ==
  \/ \E t \in Tasks :
        \/ check_process(t)
        \/ get_mailbox_for_pid(t)
        \/ Send(t)
        \/ add_message_resume(t)
        \/ unclaim_mailbox(t)
        \/ signal(t)
  \/ \E t \in Owners :
        \/ Remove(t)
        \/ PutBack(t)
        \/ remove_message_resume(t)
        \/ mailbox_stop(t)
        \/ do_exit(t)
        \/ \E d \in Destroyers : remove_mailbox_for_pid(t, d)
  \/ \E d \in Destroyers : Deletion(d)

Spec == Init /\ [][Next]_vars

-----------------------------------------------------------------------------
(* Properties *)

(* The types; the list never outgrows the mailbox's size, the counters     *)
(* never drop below zero, and both wait queues are well formed.            *)
TypeOK ==
  /\ linked \in BOOLEAN
  /\ messages \in Seq(Messages)
  /\ message_count \in 0..MessageMax
  /\ stopped \in SUBSET {"STOPPED", "EXITING"}
  /\ waiting \in Nat
  /\ IsWaitQueue(modify_queue, Tasks \cup Destroyers)
  /\ dereferences \in Nat
  /\ IsWaitQueue(dereference_queue, Destroyers)
  /\ freed \in BOOLEAN
  /\ pc \in [Tasks -> {"user", "checked", "exiting", "exited"} \cup Calling]
  /\ hand \in [Tasks -> Messages \cup {NoMessage, BogusMessage}]
  /\ ret \in [Tasks -> {"OK", "MAILBOX_FULL", "MAILBOX_EMPTY", "MAILBOX_STOPPED", "MAILBOX_ERROR"}]
  /\ signalled \subseteq Tasks
  /\ dpc \in [Destroyers -> {"none", "poll", "unlinked", "stopping", "draining",
                             "flushed", "unclaiming", "done"}]

(* __mailbox_stop wakes one exclusive waiter, not all of them; the others  *)
(* are reached because each released waiter wakes the next one.  While a   *)
(* task still sleeps on a stopped mailbox, some other waiter is awake and  *)
(* has not yet passed the wake-up on.                                      *)
StopReachesEveryone ==
  stopped # {} /\ Tasks \cap modify_queue.asleep # {}
     => Waiters \ modify_queue.asleep # {}

(* A deletion kthread never sleeps through the event it waits for: asleep  *)
(* on modify_queue only while some task waits, asleep on dereference_queue *)
(* only while a claim is held.                                             *)
DestroyerNotForgotten ==
  /\ Destroyers \cap modify_queue.asleep # {} => waiting # 0
  /\ dereference_queue.asleep # {} => dereferences # 0

(* mailbox_destroy flushes only when nobody is inside a blocking call, and *)
(* nobody enters one afterwards.                                           *)
FlushedMeansDrained == Flushed => Waiters = {} /\ messages = <<>>

(* Once the object is freed it is out of the table, no task holds its      *)
(* pointer and no deletion kthread is going to touch it: the pointer       *)
(* handed out just before the deletion has come back first.                *)
NoUseAfterFree ==
  freed => /\ ~linked
           /\ Holders = {}
           /\ \A d \in Destroyers : dpc[d] \in {"none", "done"}

(* message_count is the length of the list until the mailbox is flushed.   *)
CountBeforeFlush == ~Flushed => message_count = Len(messages)

(* The mailbox implements the bounded queue it is meant to be: FIFO        *)
(* order, also of the senders and the put-backs that had to wait for room, *)
(* capacity, the truth of each answer when it is given and closing for     *)
(* good, under every interleaving of callers, signals and deletion.        *)
WaitingEnd ==
  [t \in Tasks |-> IF pc[t] = "adding" THEN "tail" ELSE IF pc[t] = "readding" THEN "head" ELSE "none"]
Fifo == INSTANCE BoundedFifo WITH
  Callers <- Tasks, Items <- Messages, Nothing <- NoMessage,
  Garbage <- BogusMessage, Capacity <- MessageMax,
  queue <- messages, closed <- (stopped # {}), discarded <- Flushed,
  held <- hand, place <- WaitingEnd, answer <- ret

ImplementsFifo == Fifo!FSpec

(* Senders and receivers share one queue that wakes one task at a time.  A *)
(* wake-up is not lost on a task that cannot use it: while a sender sleeps *)
(* although there is room, or a receiver although there is a message, some *)
(* waiter is awake and will look at the mailbox.                           *)
NoLostWakeUp ==
  (\E t \in modify_queue.asleep \cap Waiters :
      IF pc[t] = "removing" THEN message_count # 0 ELSE ~mailbox_full)
     => Waiters \ modify_queue.asleep # {}

(* The same, where it holds: a wake-up can be lost on a waiter of the      *)
(* other kind only.  While all waiters want to receive, or all want to     *)
(* add, each of them that could go on has an awake one before it, whatever *)
(* kinds have waited before.                                               *)
OneKindNeverForgotten ==
  (\A t, u \in Waiters : pc[t] = "removing" <=> pc[u] = "removing") => NoLostWakeUp

(* Once a mailbox is marked EXITING it stays so. *)
ExitingIsFinal == [][ "EXITING" \in stopped => "EXITING" \in stopped' ]_vars

(* message_count is the number of messages in the mailbox, always. *)
CountIsLength == message_count = Len(messages)

(* Every task blocked in a call leaves it once the mailbox is stopped. *)
StopReleasesWaiters == stopped # {} ~> Waiters = {}

(* The deletion that an exit call started is carried out: when the owner   *)
(* has exited the object is freed.                                         *)
DeletionCompletes ==
  pc[Leader] = "exited" /\ (\E d \in Destroyers : dpc[d] # "none") ~> freed
=============================================================================
