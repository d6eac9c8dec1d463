------------------------------ MODULE WaitQueue ------------------------------
(***************************************************************************)
(* The kernel's wait queues (linux/wait.h, kernel 3.x), as mailbox.c and   *)
(* mailbox_manager.c use them through wait_event_interruptible_locked_irq, *)
(* its exclusive variant and wake_up_locked.  External code: modelled from *)
(* the calls made to it.                                                   *)
(*                                                                         *)
(* A wait_queue_head_t is a record.  The domain of `ahead' is the set of   *)
(* tasks whose entry is linked into the queue, and ahead[t] is the set of  *)
(* tasks in front of t: the queue's FIFO order as a strict order, rather   *)
(* than as a sequence, so that entries can leave from the middle.  `asleep'*)
(* is the set of tasks suspended on this queue (TASK_INTERRUPTIBLE, in     *)
(* schedule()).  A queued task that a signal made runnable stays linked    *)
(* until it has taken the queue's lock again.                              *)
(*                                                                         *)
(* Every operator is used with the queue's lock held.                      *)
(***************************************************************************)

(* init_waitqueue_head *)
EmptyQueue == [ahead |-> [t \in {} |-> {}], asleep |-> {}]

(* The waiting loop's body up to schedule(): link the entry at the tail    *)
(* unless it is still linked, and suspend.                                 *)
Sleep(q, t) ==
  [ahead  |-> [u \in DOMAIN q.ahead \cup {t} |->
                 IF u \in DOMAIN q.ahead THEN q.ahead[u] ELSE DOMAIN q.ahead],
   asleep |-> q.asleep \cup {t}]

(* Unlinking the entries of a set of tasks. *)
Unlink(q, W) ==
  [ahead  |-> [u \in DOMAIN q.ahead \ W |-> q.ahead[u] \ W],
   asleep |-> q.asleep \ W]

(* __remove_wait_queue, when the waiting loop is left. *)
Leave(q, t) == Unlink(q, {t})

(* The entries __wake_up_common(q, mode, nr_exclusive = 1) wakes.  It goes *)
(* from the head and wakes every sleeping task it meets up to and          *)
(* including the first exclusive one; tasks that already run (a signal     *)
(* came first) are passed over and do not count.                           *)
Woken(q, exclusive) ==
  {t \in DOMAIN q.ahead \cap q.asleep :
       q.ahead[t] \cap q.asleep \cap exclusive = {}}

(* wake_up_locked: autoremove_wake_function unlinks each entry it wakes.   *)
WakeUpLocked(q, exclusive) == Unlink(q, Woken(q, exclusive))

(* A signal makes a sleeping task runnable and leaves its entry linked.    *)
Interrupt(q, t) == [q EXCEPT !.asleep = @ \ {t}]

(* What every value of a wait queue satisfies: the tasks ahead of an entry *)
(* are linked entries, and being ahead is a strict order; only linked      *)
(* tasks sleep.                                                            *)
IsWaitQueue(q, Tasks) ==
  /\ q = [ahead |-> q.ahead, asleep |-> q.asleep]
  /\ DOMAIN q.ahead \subseteq Tasks
  /\ q.ahead \in [DOMAIN q.ahead -> SUBSET DOMAIN q.ahead]
  /\ q.asleep \subseteq DOMAIN q.ahead
  /\ \A t \in DOMAIN q.ahead :
        /\ t \notin q.ahead[t]
        /\ \A u \in q.ahead[t] : q.ahead[u] \subseteq q.ahead[t]
=============================================================================
