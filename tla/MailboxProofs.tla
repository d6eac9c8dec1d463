---------------------------- MODULE MailboxProofs ----------------------------
(***************************************************************************)
(* Proofs of the safety properties of Mailbox.tla for any number of tasks, *)
(* messages and deletion kthreads and any capacity, and that it implements *)
(* BoundedFifo.tla.  The inductive invariant is built in layers; each      *)
(* layer is proved from the ones before it.                                *)
(***************************************************************************)
EXTENDS Mailbox, FiniteSetTheorems, SequenceTheorems, WellFoundedInduction, TLAPS

-----------------------------------------------------------------------------
(* Wait queues of any length: each operator keeps a wait queue well        *)
(* formed, and a wake-up reaches somebody whenever there is somebody to    *)
(* reach.                                                                  *)

(* A new queue is well formed and nobody sleeps on it. *)
LEMMA EmptyQueueOK ==
  ASSUME NEW S
  PROVE  /\ IsWaitQueue(EmptyQueue, S)
         /\ DOMAIN EmptyQueue.ahead = {}
         /\ EmptyQueue.asleep = {}
  BY DEF IsWaitQueue, EmptyQueue

(* A signal makes its target runnable and moves nobody. *)
LEMMA InterruptOK ==
  ASSUME NEW S, NEW q, NEW t, IsWaitQueue(q, S)
  PROVE  /\ IsWaitQueue(Interrupt(q, t), S)
         /\ DOMAIN Interrupt(q, t).ahead = DOMAIN q.ahead
         /\ Interrupt(q, t).asleep = q.asleep \ {t}
  <1>1. Interrupt(q, t) = [ahead |-> q.ahead, asleep |-> q.asleep \ {t}]
    BY DEF IsWaitQueue, Interrupt
  <1> QED
    BY <1>1 DEF IsWaitQueue

(* Of the exclusive sleepers one is in front of all the others. *)
LEMMA FirstExclusive ==
  ASSUME NEW S, IsFiniteSet(S), NEW q, IsWaitQueue(q, S), NEW X,
         X \cap q.asleep # {}
  PROVE  \E t \in X \cap q.asleep : q.ahead[t] \cap q.asleep \cap X = {}
  <1> DEFINE D == DOMAIN q.ahead
             E == X \cap q.asleep
             T == {q.ahead[t] : t \in E}
  <1>1. D \subseteq S /\ E \subseteq D /\ E # {}
    BY DEF IsWaitQueue
  <1>2. T \subseteq SUBSET D /\ T # {}
    BY <1>1 DEF IsWaitQueue
  <1>3. IsFiniteSet(D)
    BY <1>1, FS_Subset
  <1>4. IsWellFoundedOn(StrictSubsetOrdering(D), SUBSET D)
    BY <1>3, FS_StrictSubsetOrderingWellFounded, FS_FiniteSubsetsOfFinite
  <1>5. PICK x \in T : \A y \in T : ~ (<<y, x>> \in StrictSubsetOrdering(D))
    BY <1>2, <1>4, WFMin
  <1>6. PICK t \in E : x = q.ahead[t]
    BY <1>5
  <1>7. ASSUME NEW u \in q.ahead[t] \cap q.asleep \cap X
        PROVE  FALSE
    <2>1. u \in E /\ q.ahead[u] \in T
      OBVIOUS
    <2>2. q.ahead[u] \subseteq q.ahead[t] /\ q.ahead[u] # q.ahead[t]
      BY <1>1, <2>1 DEF IsWaitQueue
    <2>3. <<q.ahead[u], x>> \in StrictSubsetOrdering(D)
      BY <1>1, <1>2, <1>6, <2>1, <2>2 DEF StrictSubsetOrdering
    <2> QED
      BY <1>5, <2>1, <2>3
  <1> QED
    BY <1>6, <1>7

(* A wake-up keeps the queue well formed, and what it removes from the     *)
(* sleepers it also removes from the queue.                                *)
LEMMA WakeUpOK ==
  ASSUME NEW S, NEW q, NEW X, IsWaitQueue(q, S)
  PROVE  /\ IsWaitQueue(WakeUpLocked(q, X), S)
         /\ DOMAIN WakeUpLocked(q, X).ahead = DOMAIN q.ahead \ Woken(q, X)
         /\ WakeUpLocked(q, X).asleep = q.asleep \ Woken(q, X)
         /\ Woken(q, X) \subseteq q.asleep
  <1> DEFINE W == Woken(q, X)
  <1>1. W \subseteq q.asleep
    BY DEF Woken
  <1> HIDE DEF W
  <1>2. /\ IsWaitQueue(Unlink(q, W), S)
        /\ DOMAIN Unlink(q, W).ahead = DOMAIN q.ahead \ W
        /\ Unlink(q, W).asleep = q.asleep \ W
    BY DEF IsWaitQueue, Unlink
  <1> QED
    BY <1>1, <1>2 DEF WakeUpLocked, W

(* With exclusive sleepers on the queue, a wake-up reaches one of them. *)
LEMMA WakeUpReachesExclusive ==
  ASSUME NEW S, IsFiniteSet(S), NEW q, IsWaitQueue(q, S), NEW X,
         X \cap q.asleep # {}
  PROVE  X \cap Woken(q, X) # {}
  BY FirstExclusive DEF Woken, IsWaitQueue

(* With no exclusive sleeper in the way, a wake-up reaches everybody. *)
LEMMA WakeUpReachesAll ==
  ASSUME NEW S, NEW q, IsWaitQueue(q, S), NEW X,
         X \cap q.asleep = {}
  PROVE  WakeUpLocked(q, X).asleep = {}
  <1>1. Woken(q, X) = q.asleep
    BY DEF Woken, IsWaitQueue
  <1>2. WakeUpLocked(q, X).asleep = q.asleep \ Woken(q, X)
    BY DEF WakeUpLocked, Unlink
  <1> QED
    BY <1>1, <1>2

-----------------------------------------------------------------------------
(* The inductive invariant. *)

(* The list and what callers hold.  A task about to add holds a real       *)
(* Message; the bogus one is seen only after the flush, when nothing is    *)
(* added any more.                                                         *)
ListInv ==
  /\ messages \in Seq(Messages)
  /\ message_count \in 0..MessageMax
  /\ stopped \in SUBSET {"STOPPED", "EXITING"}
  /\ pc \in [Tasks -> {"user", "checked", "exiting", "exited"} \cup Calling]
  /\ hand \in [Tasks -> Messages \cup {NoMessage, BogusMessage}]
  /\ dpc \in [Destroyers -> {"none", "poll", "unlinked", "stopping", "draining",
                             "flushed", "unclaiming", "done"}]
  /\ signalled \subseteq Tasks
  /\ ret \in [Tasks -> {"OK", "MAILBOX_FULL", "MAILBOX_EMPTY", "MAILBOX_STOPPED", "MAILBOX_ERROR"}]
  /\ CountBeforeFlush
  /\ \A t \in Tasks : /\ pc[t] \in {"adding", "readding"} => hand[t] \in Messages
                      /\ pc[t] = "removing" => hand[t] = NoMessage
                      /\ hand[t] = BogusMessage => Flushed
  /\ \A d \in Destroyers : dpc[d] # "none" => stopped # {}

(* The two counters count what they are meant to count. *)
CountersInv ==
  /\ waiting = Cardinality(Waiters)
  /\ dereferences = Cardinality(Holders)

(* Nobody waits on a flushed mailbox, and nothing is left in it. *)
DrainInv == FlushedMeansDrained

Draining   == {d \in Destroyers : dpc[d] = "draining"}
Unclaiming == {d \in Destroyers : dpc[d] = "unclaiming"}

(* A well-formed queue with tasks of W and kthreads of D on it. *)
OnQueue(q, W, D) ==
  /\ IsWaitQueue(q, Tasks \cup Destroyers)
  /\ DOMAIN q.ahead \subseteq W \cup D

(* Who is on which queue, and who may sleep there. *)
ModifyInv ==
  /\ OnQueue(modify_queue, Waiters, Draining)
  /\ StopReachesEveryone
  /\ Destroyers \cap modify_queue.asleep # {} => Waiters # {}

DereferenceInv ==
  /\ IsWaitQueue(dereference_queue, Destroyers)
  /\ DOMAIN dereference_queue.ahead \subseteq Unclaiming

QueueInv == ModifyInv /\ DereferenceInv

(* The object is in the table or not, freed or not. *)
FlagInv == linked \in BOOLEAN /\ freed \in BOOLEAN

(* At most one deletion kthread is started for the mailbox. *)
SingleDeletion == \A d, e \in Destroyers : d = e

(* The life of the object, when one deletion kthread is started for it. *)
LifeInv ==
  /\ \A d \in Destroyers : dpc[d] \notin {"none", "poll"} => ~linked
  /\ dereference_queue.asleep # {} => Holders # {}
  /\ NoUseAfterFree

(* The invariant, and its extension for a single deletion. *)
Inv     == ListInv /\ CountersInv /\ DrainInv /\ QueueInv /\ FlagInv
FullInv == Inv /\ LifeInv

-----------------------------------------------------------------------------
(* Layer 1: the list and what callers hold. *)

(* A new mailbox is empty and nobody holds a Message. *)
LEMMA ListInit == Init => ListInv
  BY MailboxAssumption
  DEF Init, ListInv, CountBeforeFlush, Flushed, Calling, Waits

(* Adding a Message, at either end. *)
LEMMA InsertList ==
  ASSUME ListInv, NEW m \in Messages, NEW h \in BOOLEAN
  PROVE  /\ list_insert(m, h) \in Seq(Messages)
         /\ Len(list_insert(m, h)) = Len(messages) + 1
  BY DEF ListInv, list_insert

(* What a task does on its way out of a call of mailbox.c, with the list   *)
(* untouched and in its hands what it had before or a Message it was       *)
(* passed.                                                                 *)
LEMMA ReturnList ==
  ASSUME ListInv, NEW t \in Tasks, UNCHANGED <<list, stopped, signalled, dpc>>,
         NEW m \in Messages \cup {NoMessage, BogusMessage},
         m = BogusMessage => Flushed,
         hand' = [hand EXCEPT ![t] = m],
         NEW code \in {"OK", "MAILBOX_FULL", "MAILBOX_EMPTY", "MAILBOX_STOPPED", "MAILBOX_ERROR"},
         return(t, code)
  PROVE  ListInv'
  BY DEF return, ListInv, CountBeforeFlush, Flushed, Calling, Waits, list, claims

(* Inserting a Message that the task holds or was passed. *)
LEMMA InsertStep ==
  ASSUME ListInv, NEW t \in Tasks, UNCHANGED <<stopped, signalled, dpc>>,
         NEW m \in Messages, NEW h \in BOOLEAN,
         stopped = {}, ~mailbox_full, insert(t, m, h)
  PROVE  ListInv'
  <1>1. ~Flushed /\ ~Flushed'
    BY DEF ListInv, Flushed
  <1>2. messages' \in Seq(Messages) /\ Len(messages') = Len(messages) + 1
    BY InsertList DEF insert
  <1>3. message_count' \in 0..MessageMax /\ message_count' = message_count + 1
    BY MailboxAssumption DEF ListInv, insert, mailbox_full
  <1> QED
    BY <1>1, <1>2, <1>3, MailboxAssumption DEF insert, return, ListInv, CountBeforeFlush, Calling, Waits

(* Taking the first Message, or the list head in its place. *)
LEMMA TakeStep ==
  ASSUME ListInv, NEW t \in Tasks, UNCHANGED <<stopped, signalled, dpc>>,
         message_count # 0, take_first(t)
  PROVE  ListInv'
  <1>1. Flushed' = Flushed
    BY DEF Flushed
  <1>2. messages = <<>> => Flushed
    BY DEF ListInv, CountBeforeFlush
  <1>3. /\ messages' \in Seq(Messages)
        /\ messages # <<>> => Len(messages') = Len(messages) - 1 /\ Head(messages) \in Messages
    BY DEF ListInv, take_first
  <1>4. message_count' \in 0..MessageMax /\ message_count' = message_count - 1
    BY MailboxAssumption DEF ListInv, take_first
  <1>5. hand' \in [Tasks -> Messages \cup {NoMessage, BogusMessage}]
    BY <1>3 DEF ListInv, take_first
  <1>6. \A u \in Tasks : hand'[u] = BogusMessage => Flushed'
    BY <1>1, <1>2, <1>3, MailboxAssumption DEF ListInv, take_first
  <1>7. CountBeforeFlush'
    BY <1>1, <1>2, <1>3, <1>4 DEF ListInv, CountBeforeFlush
  <1> QED
    BY <1>3, <1>4, <1>5, <1>6, <1>7 DEF take_first, return, ListInv, Calling, Waits

(* Every step keeps the list, its counter and what callers hold consistent *)
(* until the flush, and never hands the list head to be added again.       *)
LEMMA ListStep == ListInv /\ [Next]_vars => ListInv'
  <1> SUFFICES ASSUME ListInv, [Next]_vars PROVE ListInv'
    OBVIOUS
  <1> USE MailboxAssumption
  <1>1. ASSUME NEW t \in Tasks, check_process(t) PROVE ListInv'
    BY <1>1 DEF check_process, ListInv, CountBeforeFlush, Flushed, Calling, Waits, list, claims
  <1>2. ASSUME NEW t \in Tasks, get_mailbox_for_pid(t) PROVE ListInv'
    BY <1>2 DEF get_mailbox_for_pid, claim_mailbox, ListInv, CountBeforeFlush, Flushed, Calling, Waits, list, claims
  <1>3. ASSUME NEW t \in Tasks, NEW m \in Messages \cup {BogusMessage},
               NEW b \in BOOLEAN, NEW h \in BOOLEAN,
               m = BogusMessage => hand[t] = BogusMessage,
               mailbox_add_message(t, m, b, h)
        PROVE  ListInv'
    <2>0. m = BogusMessage => Flushed
      BY <1>3 DEF ListInv
    <2>1. UNCHANGED <<stopped, signalled, dpc>>
      BY <1>3 DEF mailbox_add_message
    <2>2. CASE stopped # {} /\ refuse(t, m, "MAILBOX_STOPPED")
      BY <2>0, <2>1, <2>2, ReturnList DEF refuse
    <2>3. CASE stopped = {} /\ mailbox_full /\ refuse(t, m, "MAILBOX_FULL")
      BY <2>0, <2>1, <2>3, ReturnList DEF refuse
    <2>4. CASE /\ stopped = {} /\ mailbox_full
               /\ start_waiting(t, IF h THEN "readding" ELSE "adding")
               /\ hand' = [hand EXCEPT ![t] = m]
               /\ UNCHANGED list
      <3>1. m \in Messages
        BY <2>0, <2>4 DEF ListInv, Flushed
      <3>2. CASE return(t, "MAILBOX_ERROR")
        BY <2>0, <2>1, <2>4, <3>2, ReturnList
      <3>3. CASE /\ pc' = [pc EXCEPT ![t] = IF h THEN "readding" ELSE "adding"]
                 /\ UNCHANGED ret
        BY <2>1, <2>4, <3>1, <3>3 DEF ListInv, CountBeforeFlush, Flushed, Calling, Waits, list, claims
      <3> QED
        BY <2>4, <3>2, <3>3 DEF start_waiting
    <2>5. CASE stopped = {} /\ ~mailbox_full /\ insert(t, m, h)
      <3>1. m \in Messages
        BY <2>0, <2>5 DEF ListInv, Flushed
      <3> QED
        BY <2>1, <2>5, <3>1, InsertStep
    <2> QED
      BY <1>3, <2>2, <2>3, <2>4, <2>5 DEF mailbox_add_message
  <1>4. ASSUME NEW t \in Tasks, wait_again(t), UNCHANGED <<stopped, signalled, dpc>>
        PROVE  ListInv'
    BY <1>4 DEF wait_again, ListInv, CountBeforeFlush, Flushed, Calling, Waits, list, claims
  <1>5. ASSUME NEW t \in Tasks, pc[t] \in Waits,
               NEW code \in {"MAILBOX_STOPPED", "MAILBOX_ERROR"},
               return(t, code), UNCHANGED <<list, hand, stopped, signalled, dpc>>
        PROVE  ListInv'
    BY <1>5 DEF return, ListInv, CountBeforeFlush, Flushed, Calling, Waits, list, claims
  <1>6. ASSUME NEW t \in Tasks, add_message_resume(t) PROVE ListInv'
    <2>1. UNCHANGED <<stopped, signalled, dpc>> /\ hand[t] \in Messages /\ pc[t] \in Waits
      BY <1>6 DEF add_message_resume, ListInv, Waits
    <2>2. CASE return(t, "MAILBOX_STOPPED") /\ UNCHANGED <<list, hand>>
      BY <1>5, <2>1, <2>2
    <2>3. CASE stopped = {} /\ ~mailbox_full /\ insert(t, hand[t], pc[t] = "readding")
      BY <2>1, <2>3, InsertStep
    <2>4. CASE wait_again(t)
      BY <1>4, <2>1, <2>4
    <2>5. CASE interrupted(t)
      BY <1>5, <2>1, <2>5 DEF interrupted
    <2> QED
      BY <1>6, <2>2, <2>3, <2>4, <2>5 DEF add_message_resume
  <1>7. ASSUME NEW t \in Tasks, NEW b \in BOOLEAN, mailbox_remove_message(t, b)
        PROVE  ListInv'
    <2>1. UNCHANGED <<stopped, signalled, dpc>> /\ hand[t] = NoMessage
      BY <1>7 DEF mailbox_remove_message
    <2>2. CASE refuse(t, NoMessage, "MAILBOX_STOPPED") \/ refuse(t, NoMessage, "MAILBOX_EMPTY")
      BY <2>1, <2>2, ReturnList DEF refuse
    <2>3. CASE start_waiting(t, "removing") /\ UNCHANGED <<list, hand>>
      <3>1. CASE return(t, "MAILBOX_ERROR")
        BY <2>1, <2>3, <3>1 DEF return, ListInv, CountBeforeFlush, Flushed, Calling, Waits, list, claims
      <3>2. CASE pc' = [pc EXCEPT ![t] = "removing"] /\ UNCHANGED ret
        BY <2>1, <2>3, <3>2 DEF ListInv, CountBeforeFlush, Flushed, Calling, Waits, list, claims
      <3> QED
        BY <2>3, <3>1, <3>2 DEF start_waiting
    <2>4. CASE message_count # 0 /\ take_first(t)
      BY <2>1, <2>4, TakeStep
    <2> QED
      BY <1>7, <2>2, <2>3, <2>4 DEF mailbox_remove_message
  <1>8. ASSUME NEW t \in Tasks, remove_message_resume(t) PROVE ListInv'
    <2>1. UNCHANGED <<stopped, signalled, dpc>> /\ pc[t] \in Waits
      BY <1>8 DEF remove_message_resume, Waits
    <2>2. CASE return(t, "MAILBOX_STOPPED") /\ UNCHANGED <<list, hand>>
      BY <1>5, <2>1, <2>2
    <2>3. CASE message_count # 0 /\ take_first(t)
      BY <2>1, <2>3, TakeStep
    <2>4. CASE wait_again(t)
      BY <1>4, <2>1, <2>4
    <2>5. CASE interrupted(t)
      BY <1>5, <2>1, <2>5 DEF interrupted
    <2> QED
      BY <1>8, <2>2, <2>3, <2>4, <2>5 DEF remove_message_resume
  <1>9. ASSUME NEW t \in Tasks, mailbox_stop(t) PROVE ListInv'
    BY <1>9 DEF mailbox_stop, __mailbox_stop, return, ListInv, CountBeforeFlush, Flushed, Calling, Waits, list, claims
  <1>10. ASSUME NEW t \in Tasks, unclaim_mailbox(t) PROVE ListInv'
    BY <1>10 DEF unclaim_mailbox, ListInv, CountBeforeFlush, Flushed, Calling, Waits, list, claims
  <1>11. ASSUME NEW t \in Tasks, signal(t) PROVE ListInv'
    BY <1>11 DEF signal, ListInv, CountBeforeFlush, Flushed, Calling, Waits, list, claims
  <1>12. ASSUME NEW t \in Tasks, NEW d \in Destroyers, remove_mailbox_for_pid(t, d)
         PROVE  ListInv'
    BY <1>12 DEF remove_mailbox_for_pid, mailbox_exiting, __mailbox_stop, ListInv, CountBeforeFlush, Flushed, Calling, Waits, list, claims
  <1>13. ASSUME NEW t \in Tasks, do_exit(t) PROVE ListInv'
    BY <1>13 DEF do_exit, ListInv, CountBeforeFlush, Flushed, Calling, Waits, list, claims
  <1>14. ASSUME NEW d \in Destroyers, deletion_thread_unlink(d) PROVE ListInv'
    BY <1>14 DEF deletion_thread_unlink, goto, ListInv, CountBeforeFlush, Flushed, Calling, Waits, list, claims
  <1>15. ASSUME NEW d \in Destroyers, mailbox_destroy(d) PROVE ListInv'
    BY <1>15 DEF mailbox_destroy, mailbox_exiting, __mailbox_stop, goto, ListInv, CountBeforeFlush, Flushed, Calling, Waits, list, claims
  <1>16. ASSUME NEW d \in Destroyers, mailbox_flush(d) PROVE ListInv'
    <2>1. CASE messages' = <<>> /\ goto(d, "flushed")
      BY <1>16, <2>1 DEF mailbox_flush, goto, ListInv, CountBeforeFlush, Flushed, Calling, Waits, list, claims
    <2>2. CASE goto(d, "draining") /\ UNCHANGED messages
      <3>1. dpc[d] \in {"stopping", "draining"}
        BY <1>16 DEF mailbox_flush
      <3>2. Flushed' = Flushed
        BY <2>2, <3>1 DEF goto, Flushed, ListInv
      <3> QED
        BY <1>16, <2>2, <3>1, <3>2 DEF mailbox_flush, goto, ListInv, CountBeforeFlush, Calling, Waits, claims
    <2> QED
      BY <1>16, <2>1, <2>2 DEF mailbox_flush
  <1>17. ASSUME NEW d \in Destroyers, wait_until_mailbox_unclaimed(d) PROVE ListInv'
    BY <1>17 DEF wait_until_mailbox_unclaimed, goto, ListInv, CountBeforeFlush, Flushed, Calling, Waits, list, claims
  <1>18. CASE UNCHANGED vars
    BY <1>18 DEF vars, ListInv, CountBeforeFlush, Flushed, Calling, Waits, list, claims
  <1> QED
    <2>1. ASSUME NEW t \in Tasks, Send(t) PROVE ListInv'
      BY <1>3, <2>1 DEF Send
    <2>2. ASSUME NEW t \in Tasks, PutBack(t) PROVE ListInv'
      BY <1>3, <2>2 DEF PutBack, ListInv
    <2>3. ASSUME NEW t \in Tasks, Remove(t) PROVE ListInv'
      BY <1>7, <2>3 DEF Remove
    <2> QED
      BY <2>1, <2>2, <2>3, <1>1, <1>2, <1>6, <1>8, <1>9, <1>10, <1>11, <1>12, <1>13,
         <1>14, <1>15, <1>16, <1>17, <1>18 DEF Next, Deletion

-----------------------------------------------------------------------------
(* Layer 2: `waiting' counts the tasks inside wait_event, `dereferences'   *)
(* the tasks that hold the pointer.                                        *)

one(c) == IF c THEN 1 ELSE 0

(* Waiters and holders are finitely many, so the counters can count them. *)
LEMMA FiniteTasks ==
  /\ IsFiniteSet(Waiters) /\ Cardinality(Waiters) \in Nat
  /\ IsFiniteSet(Holders) /\ Cardinality(Holders) \in Nat
  /\ Cardinality(Waiters) = 0 <=> Waiters = {}
  /\ Cardinality(Holders) = 0 <=> Holders = {}
  <1>1. Waiters \in SUBSET Tasks /\ Holders \in SUBSET Tasks
    BY DEF Waiters, Holders
  <1> QED
    BY <1>1, MailboxAssumption, FS_Subset, FS_CardinalityType, FS_EmptySet

(* One task moves: the sets of waiters and holders change by that task. *)
LEMMA MoveTask ==
  ASSUME ListInv, NEW t \in Tasks, NEW x, pc' = [pc EXCEPT ![t] = x]
  PROVE  /\ Waiters' = IF x \in Waits THEN Waiters \cup {t} ELSE Waiters \ {t}
         /\ Holders' = IF x \in Calling THEN Holders \cup {t} ELSE Holders \ {t}
         /\ t \in Waiters <=> pc[t] \in Waits
         /\ t \in Holders <=> pc[t] \in Calling
  BY DEF ListInv, Waiters, Holders

(* One task moves: the two counts change by what the step adds to the      *)
(* counters.                                                               *)
LEMMA CountMove ==
  ASSUME ListInv, NEW t \in Tasks, NEW x, pc' = [pc EXCEPT ![t] = x]
  PROVE  /\ Cardinality(Waiters') = Cardinality(Waiters) + one(x \in Waits) - one(pc[t] \in Waits)
         /\ Cardinality(Holders') = Cardinality(Holders) + one(x \in Calling) - one(pc[t] \in Calling)
  <1>1. /\ Cardinality(Waiters \cup {t}) = IF t \in Waiters THEN Cardinality(Waiters) ELSE Cardinality(Waiters) + 1
        /\ Cardinality(Holders \cup {t}) = IF t \in Holders THEN Cardinality(Holders) ELSE Cardinality(Holders) + 1
    BY FiniteTasks, FS_AddElement
  <1>2. /\ Cardinality(Waiters \ {t}) = IF t \in Waiters THEN Cardinality(Waiters) - 1 ELSE Cardinality(Waiters)
        /\ Cardinality(Holders \ {t}) = IF t \in Holders THEN Cardinality(Holders) - 1 ELSE Cardinality(Holders)
    BY FiniteTasks, FS_RemoveElement
  <1>3. /\ Waiters' = IF x \in Waits THEN Waiters \cup {t} ELSE Waiters \ {t}
        /\ Holders' = IF x \in Calling THEN Holders \cup {t} ELSE Holders \ {t}
        /\ t \in Waiters <=> pc[t] \in Waits
        /\ t \in Holders <=> pc[t] \in Calling
    BY MoveTask
  <1>4. Cardinality(Waiters') = Cardinality(Waiters) + one(x \in Waits) - one(pc[t] \in Waits)
    BY <1>1, <1>2, <1>3, FiniteTasks DEF one
  <1>5. Cardinality(Holders') = Cardinality(Holders) + one(x \in Calling) - one(pc[t] \in Calling)
    BY <1>1, <1>2, <1>3, FiniteTasks DEF one
  <1> QED
    BY <1>4, <1>5

(* mailbox_create with its first claim: one holder, no waiter. *)
LEMMA CountersInit == Init => CountersInv
  <1> SUFFICES ASSUME Init PROVE CountersInv
    OBVIOUS
  <1>1. Waiters = {}
    BY DEF Init, Waiters, Waits
  <1>2. \E t \in Tasks : Holders = {t}
    BY DEF Init, Holders, Calling, Waits
  <1> QED
    BY <1>1, <1>2, FS_EmptySet, FS_Singleton DEF Init, CountersInv

(* Each atomic_inc(waiting) and claim_mailbox is matched by its opposite   *)
(* on every way out, early returns and signals included.                   *)
LEMMA CountersStep == ListInv /\ CountersInv /\ [Next]_vars => CountersInv'
  <1> SUFFICES ASSUME ListInv, CountersInv, [Next]_vars PROVE CountersInv'
    OBVIOUS
  <1> USE FiniteTasks DEF CountersInv
  (* A task moves and the counters follow it. *)
  <1>1. ASSUME NEW t \in Tasks, NEW x, pc' = [pc EXCEPT ![t] = x],
               waiting' = waiting + one(x \in Waits) - one(pc[t] \in Waits),
               dereferences' = dereferences + one(x \in Calling) - one(pc[t] \in Calling)
        PROVE  CountersInv'
    BY <1>1, CountMove
  <1>2. ASSUME UNCHANGED <<pc, waiting, dereferences>> PROVE CountersInv'
    BY <1>2 DEF Waiters, Holders
  <1>3. ASSUME NEW t \in Tasks, check_process(t) PROVE CountersInv'
    <2>1. /\ pc' = [pc EXCEPT ![t] = "checked"]
          /\ waiting' = waiting + one("checked" \in Waits) - one(pc[t] \in Waits)
          /\ dereferences' = dereferences + one("checked" \in Calling) - one(pc[t] \in Calling)
      BY <1>3 DEF check_process, one, Calling, Waits, list, claims
    <2> QED
      BY <1>1, <2>1
  <1>4. ASSUME NEW t \in Tasks, get_mailbox_for_pid(t) PROVE CountersInv'
    <2>1. ASSUME NEW x \in {"in", "user"}, pc' = [pc EXCEPT ![t] = x],
                 dereferences' = IF x = "in" THEN dereferences + 1 ELSE dereferences
          PROVE  CountersInv'
      <3>1. /\ waiting' = waiting + one(x \in Waits) - one(pc[t] \in Waits)
            /\ dereferences' = dereferences + one(x \in Calling) - one(pc[t] \in Calling)
        BY <1>4, <2>1 DEF get_mailbox_for_pid, claim_mailbox, one, Calling, Waits
      <3> QED
        BY <1>1, <2>1, <3>1
    <2> QED
      BY <1>4, <2>1 DEF get_mailbox_for_pid, claim_mailbox
  <1>5. ASSUME NEW t \in Tasks, pc[t] = "in", NEW where \in Waits, start_waiting(t, where),
               UNCHANGED dereferences
        PROVE  CountersInv'
    <2>1. CASE pc' = [pc EXCEPT ![t] = where] /\ waiting' = waiting + 1
      <3>1. /\ waiting' = waiting + one(where \in Waits) - one(pc[t] \in Waits)
            /\ dereferences' = dereferences + one(where \in Calling) - one(pc[t] \in Calling)
        BY <1>5, <2>1 DEF one, Calling, Waits
      <3> QED
        BY <1>1, <2>1, <3>1
    <2>2. CASE pc' = [pc EXCEPT ![t] = "in"] /\ UNCHANGED waiting
      <3>1. /\ waiting' = waiting + one("in" \in Waits) - one(pc[t] \in Waits)
            /\ dereferences' = dereferences + one("in" \in Calling) - one(pc[t] \in Calling)
        BY <1>5, <2>2 DEF one, Calling, Waits
      <3> QED
        BY <1>1, <2>2, <3>1
    <2> QED
      BY <1>5, <2>1, <2>2 DEF start_waiting, return
  <1>6. ASSUME NEW t \in Tasks, pc[t] = "in", NEW code, return(t, code),
               UNCHANGED <<waiting, dereferences>>
        PROVE  CountersInv'
    <2>1. /\ pc' = [pc EXCEPT ![t] = "in"]
          /\ waiting' = waiting + one("in" \in Waits) - one(pc[t] \in Waits)
          /\ dereferences' = dereferences + one("in" \in Calling) - one(pc[t] \in Calling)
      BY <1>6 DEF return, one, Calling, Waits, list, claims
    <2> QED
      BY <1>1, <2>1
  <1>7. ASSUME NEW t \in Tasks, pc[t] \in Waits, NEW code, return(t, code),
               waiting' = waiting - 1, UNCHANGED dereferences
        PROVE  CountersInv'
    <2>1. /\ pc' = [pc EXCEPT ![t] = "in"]
          /\ waiting' = waiting + one("in" \in Waits) - one(pc[t] \in Waits)
          /\ dereferences' = dereferences + one("in" \in Calling) - one(pc[t] \in Calling)
      BY <1>7 DEF return, one, Calling, Waits, list, claims
    <2> QED
      BY <1>1, <2>1
  <1>8. ASSUME NEW t \in Tasks, NEW m, NEW b \in BOOLEAN, NEW h \in BOOLEAN,
               mailbox_add_message(t, m, b, h)
        PROVE  CountersInv'
    <2>1. CASE start_waiting(t, IF h THEN "readding" ELSE "adding")
      BY <1>5, <1>8, <2>1 DEF mailbox_add_message, claims, Waits
    <2> QED
      BY <1>6, <1>8, <2>1 DEF mailbox_add_message, refuse, insert, claims
  <1>9. ASSUME NEW t \in Tasks, add_message_resume(t) PROVE CountersInv'
    BY <1>2, <1>7, <1>9 DEF add_message_resume, stop_waiting, insert, wait_again, interrupted, Waits, claims
  <1>10. ASSUME NEW t \in Tasks, NEW b \in BOOLEAN, mailbox_remove_message(t, b)
         PROVE  CountersInv'
    BY <1>5, <1>6, <1>10 DEF mailbox_remove_message, refuse, take_first, Waits, claims
  <1>11. ASSUME NEW t \in Tasks, remove_message_resume(t) PROVE CountersInv'
    BY <1>2, <1>7, <1>11 DEF remove_message_resume, stop_waiting, take_first, wait_again, interrupted, Waits, claims
  <1>12. ASSUME NEW t \in Tasks, mailbox_stop(t) PROVE CountersInv'
    BY <1>6, <1>12 DEF mailbox_stop, claims
  <1>13. ASSUME NEW t \in Tasks, unclaim_mailbox(t) PROVE CountersInv'
    <2>1. /\ pc' = [pc EXCEPT ![t] = "user"]
          /\ waiting' = waiting + one("user" \in Waits) - one(pc[t] \in Waits)
          /\ dereferences' = dereferences + one("user" \in Calling) - one(pc[t] \in Calling)
      BY <1>13 DEF unclaim_mailbox, one, Calling, Waits, list, claims
    <2> QED
      BY <1>1, <2>1
  <1>14. ASSUME NEW t \in Tasks, signal(t) PROVE CountersInv'
    BY <1>2, <1>14 DEF signal, claims
  <1>15. ASSUME NEW t \in Tasks, NEW d \in Destroyers, remove_mailbox_for_pid(t, d)
         PROVE  CountersInv'
    <2>1. /\ pc' = [pc EXCEPT ![t] = "exiting"]
          /\ waiting' = waiting + one("exiting" \in Waits) - one(pc[t] \in Waits)
          /\ dereferences' = dereferences + one("exiting" \in Calling) - one(pc[t] \in Calling)
      BY <1>15 DEF remove_mailbox_for_pid, one, Calling, Waits, list, claims
    <2> QED
      BY <1>1, <2>1
  <1>16. ASSUME NEW t \in Tasks, do_exit(t) PROVE CountersInv'
    <2>1. /\ pc' = [pc EXCEPT ![t] = "exited"]
          /\ waiting' = waiting + one("exited" \in Waits) - one(pc[t] \in Waits)
          /\ dereferences' = dereferences + one("exited" \in Calling) - one(pc[t] \in Calling)
      BY <1>16 DEF do_exit, one, Calling, Waits, list, claims
    <2> QED
      BY <1>1, <2>1
  <1>17. ASSUME NEW d \in Destroyers, Deletion(d) PROVE CountersInv'
    BY <1>2, <1>17 DEF Deletion, deletion_thread_unlink, mailbox_destroy,
                       mailbox_flush, wait_until_mailbox_unclaimed, claims
  <1>18. CASE UNCHANGED vars
    BY <1>2, <1>18 DEF vars, claims
  <1> QED
    BY <1>3, <1>4, <1>8, <1>9, <1>10, <1>11, <1>12, <1>13, <1>14, <1>15, <1>16,
       <1>17, <1>18, MailboxAssumption DEF Next, Send, PutBack, Remove

-----------------------------------------------------------------------------
(* Layer 3: after the flush nobody waits and the list stays empty. *)

(* mailbox_destroy flushes with nobody waiting; afterwards the flag keeps  *)
(* callers from waiting and from adding.                                   *)
LEMMA DrainStep ==
  ListInv /\ CountersInv /\ DrainInv /\ [Next]_vars => DrainInv'
  <1> SUFFICES ASSUME ListInv, CountersInv, DrainInv, [Next]_vars, Flushed'
               PROVE  Waiters' = {} /\ messages' = <<>>
    BY DEF DrainInv, FlushedMeansDrained
  <1>1. ASSUME NEW d \in Destroyers, ~Flushed, mailbox_flush(d)
        PROVE  Waiters' = {} /\ messages' = <<>>
    <2>1. CASE waiting = 0 /\ messages' = <<>>
      BY <1>1, <2>1, FiniteTasks DEF mailbox_flush, CountersInv, Waiters
    <2>2. CASE goto(d, "draining")
      BY <2>2, <1>1 DEF goto, Flushed, ListInv
    <2> QED
      BY <1>1, <2>1, <2>2 DEF mailbox_flush
  <1>2. CASE Flushed
    <2>1. stopped # {} /\ Waiters = {} /\ messages = <<>>
      BY <1>2 DEF ListInv, Flushed, DrainInv, FlushedMeansDrained
    <2>2. ASSUME NEW t \in Tasks, NEW x, x \notin Waits, pc' = [pc EXCEPT ![t] = x]
          PROVE  Waiters' = {}
      BY <2>1, <2>2, MoveTask
    <2>3. UNCHANGED pc => Waiters' = {}
      BY <2>1 DEF Waiters
    <2>4. ASSUME NEW t \in Tasks, pc[t] \in Waits PROVE FALSE
      BY <2>1, <2>4 DEF Waiters
    <2>5. ASSUME NEW t \in Tasks, check_process(t) PROVE Waiters' = {} /\ messages' = <<>>
      BY <2>1, <2>2, <2>5 DEF check_process, list, Waits
    <2>6. ASSUME NEW t \in Tasks, get_mailbox_for_pid(t) PROVE Waiters' = {} /\ messages' = <<>>
      BY <2>1, <2>2, <2>6 DEF get_mailbox_for_pid, claim_mailbox, list, Waits
    <2>7. ASSUME NEW t \in Tasks, NEW m, NEW b \in BOOLEAN, NEW h \in BOOLEAN,
                 mailbox_add_message(t, m, b, h)
          PROVE  Waiters' = {} /\ messages' = <<>>
      BY <2>1, <2>2, <2>7 DEF mailbox_add_message, refuse, return, list, Waits
    <2>8. ASSUME NEW t \in Tasks, NEW b \in BOOLEAN, mailbox_remove_message(t, b)
          PROVE  Waiters' = {} /\ messages' = <<>>
      BY <2>1, <2>2, <2>8 DEF mailbox_remove_message, refuse, take_first, return, list, Waits
    <2>9. ASSUME NEW t \in Tasks, add_message_resume(t) \/ remove_message_resume(t) PROVE FALSE
      BY <2>4, <2>9 DEF add_message_resume, remove_message_resume, Waits
    <2>10. ASSUME NEW t \in Tasks, mailbox_stop(t) PROVE Waiters' = {} /\ messages' = <<>>
      BY <2>1, <2>2, <2>10 DEF mailbox_stop, return, list, Waits
    <2>11. ASSUME NEW t \in Tasks, unclaim_mailbox(t) PROVE Waiters' = {} /\ messages' = <<>>
      BY <2>1, <2>2, <2>11 DEF unclaim_mailbox, list, Waits
    <2>12. ASSUME NEW t \in Tasks, signal(t) PROVE Waiters' = {} /\ messages' = <<>>
      BY <2>1, <2>3, <2>12 DEF signal, list
    <2>13. ASSUME NEW t \in Tasks, NEW d \in Destroyers, remove_mailbox_for_pid(t, d)
           PROVE  Waiters' = {} /\ messages' = <<>>
      BY <2>1, <2>2, <2>13 DEF remove_mailbox_for_pid, list, Waits
    <2>14. ASSUME NEW t \in Tasks, do_exit(t) PROVE Waiters' = {} /\ messages' = <<>>
      BY <2>1, <2>2, <2>14 DEF do_exit, list, Waits
    <2>15. ASSUME NEW d \in Destroyers, Deletion(d) PROVE Waiters' = {} /\ messages' = <<>>
      BY <2>1, <2>3, <2>15 DEF Deletion, deletion_thread_unlink, mailbox_destroy,
                               mailbox_flush, wait_until_mailbox_unclaimed, list
    <2>16. CASE UNCHANGED vars
      BY <2>1, <2>3, <2>16 DEF vars, list
    <2> QED
      BY <2>5, <2>6, <2>7, <2>8, <2>9, <2>10, <2>11, <2>12, <2>13, <2>14, <2>15, <2>16,
         MailboxAssumption DEF Next, Send, PutBack, Remove
  <1>3. CASE ~Flushed /\ UNCHANGED dpc
    BY <1>3 DEF Flushed
  <1>4. ASSUME ~Flushed, NEW t \in Tasks, NEW d \in Destroyers, remove_mailbox_for_pid(t, d)
        PROVE  FALSE
    BY <1>4 DEF remove_mailbox_for_pid, Flushed, ListInv
  <1>5. ASSUME ~Flushed, NEW d \in Destroyers, Deletion(d), ~mailbox_flush(d)
        PROVE  FALSE
    BY <1>5 DEF Deletion, deletion_thread_unlink, mailbox_destroy, goto,
                wait_until_mailbox_unclaimed, Flushed, ListInv
  <1>6. [Next]_vars => \/ UNCHANGED dpc
                       \/ \E t \in Tasks, d \in Destroyers : remove_mailbox_for_pid(t, d)
                       \/ \E d \in Destroyers : Deletion(d)
    BY MailboxAssumption
    DEF Next, vars, check_process, get_mailbox_for_pid, claim_mailbox, Send, PutBack, Remove, mailbox_add_message,
        add_message_resume, unclaim_mailbox, signal, mailbox_remove_message,
        remove_message_resume, mailbox_stop, do_exit
  <1> QED
    BY <1>1, <1>2, <1>3, <1>4, <1>5, <1>6

-----------------------------------------------------------------------------
(* Layer 4: the wait queues. *)

(* After a wake-up somebody of W is awake if a task still sleeps, and with *)
(* W empty no kthread sleeps on.                                           *)
LEMMA WakeUpQueue ==
  ASSUME NEW W \in SUBSET Tasks, NEW D \in SUBSET Destroyers, NEW q, OnQueue(q, W, D)
  PROVE  /\ OnQueue(wake_up(q), W, D)
         /\ Tasks \cap wake_up(q).asleep # {} => W \ wake_up(q).asleep # {}
         /\ W = {} => wake_up(q).asleep = {}
  <1> DEFINE r == wake_up(q)
             S == Tasks \cup Destroyers
  <1>1. IsWaitQueue(q, S) /\ DOMAIN q.ahead \subseteq W \cup D
    BY DEF OnQueue
  <1>2. IsFiniteSet(S)
    BY MailboxAssumption, FS_Union
  <1> HIDE DEF S
  <1>3. /\ IsWaitQueue(r, S)
        /\ DOMAIN r.ahead = DOMAIN q.ahead \ Woken(q, Tasks)
        /\ r.asleep = q.asleep \ Woken(q, Tasks)
    BY <1>1, WakeUpOK, ZenonT(60) DEF wake_up
  <1>4. q.asleep \subseteq W \cup D /\ W \subseteq Tasks /\ D \cap Tasks = {}
    BY <1>1, MailboxAssumption DEF IsWaitQueue
  <1>5. ASSUME Tasks \cap r.asleep # {} PROVE W \ r.asleep # {}
    <2>1. Tasks \cap q.asleep # {}
      BY <1>3, <1>5
    <2>2. Tasks \cap Woken(q, Tasks) # {}
      BY <1>1, <1>2, <2>1, WakeUpReachesExclusive
    <2> QED
      BY <2>2, <1>3, <1>4 DEF Woken
  <1>6. ASSUME W = {} PROVE r.asleep = {}
    <2>1. Tasks \cap q.asleep = {}
      BY <1>4, <1>6
    <2> QED
      BY <1>1, <2>1, WakeUpReachesAll DEF wake_up
  <1> QED
    BY <1>1, <1>3, <1>5, <1>6 DEF OnQueue, S

(* Sleeping, leaving and being signalled keep a queue well formed and move *)
(* the one task only.                                                      *)
LEMMA MoveOnQueue ==
  ASSUME NEW W \in SUBSET Tasks, NEW D \in SUBSET Destroyers, NEW q, OnQueue(q, W, D)
  PROVE  /\ \A t \in Tasks : /\ OnQueue(Leave(q, t), W \ {t}, D)
                             /\ OnQueue(Sleep(q, t), W \cup {t}, D)
                             /\ OnQueue(Interrupt(q, t), W, D)
         /\ \A d \in Destroyers : /\ OnQueue(Leave(q, d), W, D \ {d})
                                  /\ OnQueue(Sleep(q, d), W, D \cup {d})
  <1> DEFINE S == Tasks \cup Destroyers
  <1>1. IsWaitQueue(q, S) /\ DOMAIN q.ahead \subseteq W \cup D /\ Tasks \cap Destroyers = {}
    BY MailboxAssumption DEF OnQueue
  <1> HIDE DEF S
  <1>2. ASSUME NEW t \in S
        PROVE  /\ IsWaitQueue(Leave(q, t), S)
               /\ DOMAIN Leave(q, t).ahead = DOMAIN q.ahead \ {t}
               /\ Leave(q, t).asleep = q.asleep \ {t}
    BY <1>1 DEF IsWaitQueue, Leave, Unlink
  <1>3. ASSUME NEW t \in S
        PROVE  /\ IsWaitQueue(Sleep(q, t), S)
               /\ DOMAIN Sleep(q, t).ahead = DOMAIN q.ahead \cup {t}
               /\ Sleep(q, t).asleep = q.asleep \cup {t}
    BY <1>1 DEF IsWaitQueue, Sleep
  <1>4. ASSUME NEW t \in S
        PROVE  /\ IsWaitQueue(Interrupt(q, t), S)
               /\ DOMAIN Interrupt(q, t).ahead = DOMAIN q.ahead
               /\ Interrupt(q, t).asleep = q.asleep \ {t}
    BY <1>1, InterruptOK, ZenonT(60)
  <1> QED
    BY <1>1, <1>2, <1>3, <1>4 DEF OnQueue, S

(* init_waitqueue_head: both queues start empty. *)
LEMMA QueueInit == Init => QueueInv
  <1> SUFFICES ASSUME Init PROVE QueueInv
    OBVIOUS
  <1>1. modify_queue = EmptyQueue /\ dereference_queue = EmptyQueue
    BY DEF Init
  <1> QED
    BY <1>1, EmptyQueueOK DEF QueueInv, ModifyInv, DereferenceInv, OnQueue, StopReachesEveryone

(* The steps that go through modify_queue. *)
LEMMA ModifyStep ==
  ListInv /\ CountersInv /\ ModifyInv /\ [Next]_vars => ModifyInv'
  <1> SUFFICES ASSUME ListInv, CountersInv, ModifyInv, [Next]_vars PROVE ModifyInv'
    OBVIOUS
  <1>1. /\ Waiters \in SUBSET Tasks /\ Waiters' \in SUBSET Tasks
        /\ Draining \in SUBSET Destroyers /\ Draining' \in SUBSET Destroyers
        /\ OnQueue(modify_queue, Waiters, Draining)
        /\ Tasks \cap Destroyers = {}
    BY MailboxAssumption DEF Waiters, Draining, ModifyInv
  (* Whoever is on the queue, a wake-up makes the invariant true. *)
  <1>2. ASSUME NEW q, OnQueue(q, Waiters', Draining'), modify_queue' = wake_up(q)
        PROVE  ModifyInv'
    <2>1. /\ OnQueue(modify_queue', Waiters', Draining')
          /\ Tasks \cap modify_queue'.asleep # {} => Waiters' \ modify_queue'.asleep # {}
          /\ Waiters' = {} => modify_queue'.asleep = {}
      BY <1>1, <1>2, WakeUpQueue
    <2> QED
      BY <2>1 DEF ModifyInv, StopReachesEveryone, OnQueue
  <1>3. ASSUME UNCHANGED <<modify_queue, stopped>>, Waiters' = Waiters, Draining' = Draining
        PROVE  ModifyInv'
    BY <1>3 DEF ModifyInv, StopReachesEveryone, OnQueue
  (* A task goes to sleep on a mailbox that is not stopped. *)
  <1>4. ASSUME NEW t \in Tasks, stopped' = {}, modify_queue' = Sleep(modify_queue, t),
               Waiters' = Waiters \cup {t}, Draining' = Draining
        PROVE  ModifyInv'
    <2>1. OnQueue(Sleep(modify_queue, t), Waiters \cup {t}, Draining)
      BY <1>1, MoveOnQueue
    <2> QED
      BY <1>4, <2>1 DEF ModifyInv, StopReachesEveryone, OnQueue
  (* A waiting task leaves and passes the wake-up on, once or twice. *)
  <1>5. ASSUME NEW t \in Tasks, NEW code, return(t, code), UNCHANGED dpc,
               modify_queue' \in {queue_after_wait(t), wake_up(queue_after_wait(t))}
        PROVE  ModifyInv'
    <2>1. Waiters' = Waiters \ {t} /\ Draining' = Draining
      BY <1>5 DEF return, Waits, Waiters, Draining, ListInv
    <2>2. OnQueue(Leave(modify_queue, t), Waiters', Draining')
      BY <1>1, <2>1, MoveOnQueue
    <2>3. OnQueue(queue_after_wait(t), Waiters', Draining')
      BY <1>1, <2>2, WakeUpQueue DEF queue_after_wait
    <2> QED
      BY <1>2, <1>5, <2>2, <2>3 DEF queue_after_wait
  (* A task that does not wait moves, and wakes somebody or nobody. *)
  <1>6. ASSUME NEW t \in Tasks, NEW x, x \notin Waits, pc[t] \notin Waits,
               pc' = [pc EXCEPT ![t] = x], UNCHANGED dpc,
               \/ modify_queue' = wake_up(modify_queue)
               \/ UNCHANGED <<modify_queue, stopped>>
        PROVE  ModifyInv'
    <2>1. Waiters' = Waiters /\ Draining' = Draining
      BY <1>6 DEF Waiters, Draining, ListInv
    <2> QED
      BY <1>1, <1>2, <1>3, <1>6, <2>1
  <1>7. ASSUME NEW t \in Tasks, pc[t] = "in", stopped = {}, NEW where \in Waits,
               start_waiting(t, where), UNCHANGED <<stopped, dpc>>
        PROVE  ModifyInv'
    <2>1. CASE pc' = [pc EXCEPT ![t] = where] /\ modify_queue' = Sleep(modify_queue, t)
      <3>1. Waiters' = Waiters \cup {t} /\ Draining' = Draining
        BY <1>7, <2>1, MoveTask DEF Draining
      <3> QED
        BY <1>4, <1>7, <2>1, <3>1
    <2>2. CASE modify_queue' = wake_up(modify_queue) /\ return(t, "MAILBOX_ERROR")
      BY <1>6, <1>7, <2>2 DEF return, Waits
    <2> QED
      BY <1>7, <2>1, <2>2 DEF start_waiting
  <1>8. ASSUME NEW t \in Tasks, pc[t] \in Waits, stopped = {}, wait_again(t),
               UNCHANGED <<stopped, dpc>>
        PROVE  ModifyInv'
    <2>1. Waiters' = Waiters \cup {t} /\ Draining' = Draining
      BY <1>8 DEF wait_again, Waiters, Draining
    <2> QED
      BY <1>4, <1>8, <2>1 DEF wait_again
  <1>9. ASSUME NEW t \in Tasks, NEW m, NEW b \in BOOLEAN, NEW h \in BOOLEAN,
               mailbox_add_message(t, m, b, h)
        PROVE  ModifyInv'
    <2>1. pc[t] = "in" /\ UNCHANGED <<stopped, dpc>>
      BY <1>9 DEF mailbox_add_message
    <2>2. CASE stopped = {} /\ start_waiting(t, IF h THEN "readding" ELSE "adding")
      BY <1>7, <2>1, <2>2 DEF Waits
    <2>3. CASE \E code : refuse(t, m, code)
      BY <1>6, <2>1, <2>3 DEF refuse, return, Waits
    <2>4. CASE insert(t, m, h) /\ modify_queue' = wake_up(modify_queue)
      BY <1>6, <2>1, <2>4 DEF insert, return, Waits
    <2> QED
      BY <1>9, <2>2, <2>3, <2>4 DEF mailbox_add_message
  <1>10. ASSUME NEW t \in Tasks, add_message_resume(t) PROVE ModifyInv'
    <2>1. pc[t] \in Waits /\ UNCHANGED <<stopped, dpc>>
      BY <1>10 DEF add_message_resume, Waits
    <2> QED
      BY <1>5, <1>8, <1>10, <2>1 DEF add_message_resume, stop_waiting, insert, interrupted
  <1>11. ASSUME NEW t \in Tasks, NEW b \in BOOLEAN, mailbox_remove_message(t, b)
         PROVE  ModifyInv'
    <2>1. pc[t] = "in" /\ UNCHANGED <<stopped, dpc>>
      BY <1>11 DEF mailbox_remove_message
    <2>2. CASE stopped = {} /\ start_waiting(t, "removing")
      BY <1>7, <2>1, <2>2 DEF Waits
    <2>3. CASE \E code : refuse(t, NoMessage, code)
      BY <1>6, <2>1, <2>3 DEF refuse, return, Waits
    <2>4. CASE take_first(t) /\ modify_queue' = wake_up(modify_queue)
      BY <1>6, <2>1, <2>4 DEF take_first, return, Waits
    <2> QED
      BY <1>11, <2>2, <2>3, <2>4 DEF mailbox_remove_message
  <1>12. ASSUME NEW t \in Tasks, remove_message_resume(t) PROVE ModifyInv'
    <2>1. pc[t] \in Waits /\ UNCHANGED <<stopped, dpc>>
      BY <1>12 DEF remove_message_resume, Waits
    <2> QED
      BY <1>5, <1>8, <1>12, <2>1 DEF remove_message_resume, stop_waiting, take_first, interrupted
  <1>13. ASSUME NEW t \in Tasks,
                \/ check_process(t) \/ get_mailbox_for_pid(t) \/ mailbox_stop(t)
                \/ unclaim_mailbox(t) \/ do_exit(t)
         PROVE  ModifyInv'
    BY <1>6, <1>13 DEF check_process, get_mailbox_for_pid, claim_mailbox, mailbox_stop, __mailbox_stop,
                       unclaim_mailbox, do_exit, return, Waits
  <1>14. ASSUME NEW t \in Tasks, signal(t) PROVE ModifyInv'
    <2>1. /\ modify_queue' = Interrupt(modify_queue, t)
          /\ UNCHANGED stopped /\ Waiters' = Waiters /\ Draining' = Draining
      BY <1>14 DEF signal, Waiters, Draining
    <2>2. OnQueue(Interrupt(modify_queue, t), Waiters, Draining)
      BY <1>1, MoveOnQueue
    <2>3. Interrupt(modify_queue, t).asleep = modify_queue.asleep \ {t}
      BY <1>1 DEF OnQueue, IsWaitQueue, Interrupt
    <2> QED
      BY <2>1, <2>2, <2>3 DEF ModifyInv, StopReachesEveryone, OnQueue
  <1>15. ASSUME NEW t \in Tasks, NEW d \in Destroyers, remove_mailbox_for_pid(t, d)
         PROVE  ModifyInv'
    <2>1. Waiters' = Waiters /\ Draining' = Draining
      BY <1>15 DEF remove_mailbox_for_pid, Waits, Waiters, Draining, ListInv
    <2> QED
      BY <1>1, <1>2, <1>15, <2>1 DEF remove_mailbox_for_pid, mailbox_exiting, __mailbox_stop
  <1>16. ASSUME NEW d \in Destroyers, mailbox_destroy(d) PROVE ModifyInv'
    <2>1. Waiters' = Waiters /\ Draining' = Draining
      BY <1>16 DEF mailbox_destroy, goto, Waiters, Draining, ListInv
    <2> QED
      BY <1>1, <1>2, <1>16, <2>1 DEF mailbox_destroy, mailbox_exiting, __mailbox_stop
  <1>17. ASSUME NEW d \in Destroyers, deletion_thread_unlink(d) \/ wait_until_mailbox_unclaimed(d)
         PROVE  ModifyInv'
    <2>1. Waiters' = Waiters /\ Draining' = Draining
      BY <1>17 DEF deletion_thread_unlink, wait_until_mailbox_unclaimed, goto, Waiters, Draining, ListInv
    <2> QED
      BY <1>3, <1>17, <2>1 DEF deletion_thread_unlink, wait_until_mailbox_unclaimed
  (* Flushing with nobody waiting, or going to sleep until then. *)
  <1>18. ASSUME NEW d \in Destroyers, mailbox_flush(d) PROVE ModifyInv'
    <2>1. Waiters' = Waiters /\ UNCHANGED stopped
      BY <1>18 DEF mailbox_flush, Waiters
    <2>2. CASE modify_queue' = Leave(modify_queue, d) /\ waiting = 0 /\ goto(d, "flushed")
      <3>1. Draining' = Draining \ {d} /\ Waiters = {}
        BY <2>2, FiniteTasks DEF goto, Draining, ListInv, CountersInv
      <3>2. OnQueue(Leave(modify_queue, d), Waiters, Draining \ {d})
        BY <1>1, MoveOnQueue
      <3>3. Leave(modify_queue, d).asleep = modify_queue.asleep \ {d}
        BY DEF Leave, Unlink
      <3> QED
        BY <2>1, <2>2, <3>1, <3>2, <3>3 DEF ModifyInv, StopReachesEveryone, OnQueue
    <2>3. CASE modify_queue' = Sleep(modify_queue, d) /\ waiting # 0 /\ goto(d, "draining")
      <3>1. Draining' = Draining \cup {d} /\ Waiters # {}
        BY <2>3, FiniteTasks DEF goto, Draining, ListInv, CountersInv
      <3>2. OnQueue(Sleep(modify_queue, d), Waiters, Draining \cup {d})
        BY <1>1, MoveOnQueue
      <3>3. Sleep(modify_queue, d).asleep = modify_queue.asleep \cup {d}
        BY DEF Sleep
      <3> QED
        BY <1>1, <2>1, <2>3, <3>1, <3>2, <3>3 DEF ModifyInv, StopReachesEveryone, OnQueue
    <2> QED
      BY <1>18, <2>2, <2>3 DEF mailbox_flush
  <1>19. CASE UNCHANGED vars
    BY <1>3, <1>19 DEF vars, Waiters, Draining
  <1> QED
    BY <1>9, <1>10, <1>11, <1>12, <1>13, <1>14, <1>15, <1>16, <1>17, <1>18, <1>19,
       MailboxAssumption DEF Next, Send, PutBack, Remove, Deletion

(* Every change wakes a sleeper if there is one, and a task that goes to   *)
(* sleep without waking anybody does so because its kind cannot go on: no  *)
(* step forgets a waiter among waiters of its own kind.                    *)
LEMMA KindStep ==
  ListInv /\ CountersInv /\ ModifyInv /\ OneKindNeverForgotten /\ [Next]_vars
    => OneKindNeverForgotten'
  <1> SUFFICES ASSUME ListInv, CountersInv, ModifyInv, OneKindNeverForgotten, [Next]_vars
               PROVE  OneKindNeverForgotten'
    OBVIOUS
  <1>1. /\ Waiters \in SUBSET Tasks /\ Waiters' \in SUBSET Tasks
        /\ Draining \in SUBSET Destroyers /\ Draining' \in SUBSET Destroyers
        /\ OnQueue(modify_queue, Waiters, Draining)
        /\ Tasks \cap Destroyers = {}
    BY MailboxAssumption DEF Waiters, Draining, ModifyInv
  (* After a wake-up somebody is awake. *)
  <1>2. ASSUME NEW q, OnQueue(q, Waiters', Draining'), modify_queue' = wake_up(q)
        PROVE  OneKindNeverForgotten'
    <2>1. Tasks \cap modify_queue'.asleep # {} => Waiters' \ modify_queue'.asleep # {}
      BY <1>1, <1>2, WakeUpQueue
    <2> QED
      BY <1>1, <2>1 DEF OneKindNeverForgotten, NoLostWakeUp
  (* The same waiters, none of them newly asleep. *)
  <1>3. ASSUME UNCHANGED message_count, Waiters' = Waiters, \A t \in Waiters : pc'[t] = pc[t],
               modify_queue'.asleep \cap Waiters = modify_queue.asleep \cap Waiters
        PROVE  OneKindNeverForgotten'
    BY <1>3 DEF OneKindNeverForgotten, NoLostWakeUp, mailbox_full
  (* A task that sleeps because it cannot go on. *)
  <1>4. ASSUME NEW t \in Tasks, UNCHANGED message_count, t \in Waiters',
               IF pc'[t] = "removing" THEN message_count = 0 ELSE mailbox_full
        PROVE  OneKindNeverForgotten'
    BY <1>4 DEF OneKindNeverForgotten, NoLostWakeUp, mailbox_full
  (* A waiting task leaves and passes the wake-up on, once or twice. *)
  <1>5. ASSUME NEW t \in Tasks, NEW code, return(t, code), UNCHANGED dpc,
               modify_queue' \in {queue_after_wait(t), wake_up(queue_after_wait(t))}
        PROVE  OneKindNeverForgotten'
    <2>1. Waiters' = Waiters \ {t} /\ Draining' = Draining
      BY <1>5 DEF return, Waits, Waiters, Draining, ListInv
    <2>2. OnQueue(Leave(modify_queue, t), Waiters', Draining')
      BY <1>1, <2>1, MoveOnQueue
    <2>3. OnQueue(queue_after_wait(t), Waiters', Draining')
      BY <1>1, <2>2, WakeUpQueue DEF queue_after_wait
    <2> QED
      BY <1>2, <1>5, <2>2, <2>3 DEF queue_after_wait
  (* A task that does not wait moves, and wakes somebody or changes nothing. *)
  <1>6. ASSUME NEW t \in Tasks, NEW x, x \notin Waits, pc[t] \notin Waits,
               pc' = [pc EXCEPT ![t] = x], UNCHANGED dpc,
               \/ modify_queue' = wake_up(modify_queue)
               \/ UNCHANGED <<modify_queue, message_count>>
        PROVE  OneKindNeverForgotten'
    <2>1. Waiters' = Waiters /\ Draining' = Draining /\ \A u \in Waiters : pc'[u] = pc[u]
      BY <1>6 DEF Waiters, Draining, ListInv
    <2> QED
      BY <1>1, <1>2, <1>3, <1>6, <2>1
  <1>7. ASSUME NEW t \in Tasks, pc[t] = "in", NEW where \in Waits,
               IF where = "removing" THEN message_count = 0 ELSE mailbox_full,
               start_waiting(t, where), UNCHANGED <<message_count, dpc>>
        PROVE  OneKindNeverForgotten'
    <2>1. CASE pc' = [pc EXCEPT ![t] = where]
      <3>1. t \in Waiters' /\ pc'[t] = where
        BY <1>7, <2>1 DEF Waiters, ListInv
      <3> QED
        BY <1>4, <1>7, <3>1
    <2>2. CASE modify_queue' = wake_up(modify_queue) /\ return(t, "MAILBOX_ERROR")
      BY <1>6, <1>7, <2>2 DEF return, Waits
    <2> QED
      BY <1>7, <2>1, <2>2 DEF start_waiting
  <1>8. ASSUME NEW t \in Tasks, pc[t] \in Waits, wait_again(t), UNCHANGED dpc,
               IF pc[t] = "removing" THEN message_count = 0 ELSE mailbox_full
        PROVE  OneKindNeverForgotten'
    <2>1. t \in Waiters' /\ pc'[t] = pc[t] /\ UNCHANGED message_count
      BY <1>8 DEF wait_again, Waiters, list
    <2> QED
      BY <1>4, <1>8, <2>1
  <1>9. ASSUME NEW t \in Tasks, NEW m, NEW b \in BOOLEAN, NEW h \in BOOLEAN,
               mailbox_add_message(t, m, b, h)
        PROVE  OneKindNeverForgotten'
    <2>1. pc[t] = "in" /\ UNCHANGED dpc
      BY <1>9 DEF mailbox_add_message
    <2>2. CASE /\ mailbox_full /\ start_waiting(t, IF h THEN "readding" ELSE "adding")
               /\ UNCHANGED list
      BY <1>7, <2>1, <2>2 DEF Waits, list
    <2>3. CASE \E code : refuse(t, m, code)
      BY <1>6, <2>1, <2>3 DEF refuse, return, Waits, list
    <2>4. CASE insert(t, m, h) /\ modify_queue' = wake_up(modify_queue)
      BY <1>6, <2>1, <2>4 DEF insert, return, Waits
    <2> QED
      BY <1>9, <2>2, <2>3, <2>4 DEF mailbox_add_message
  <1>10. ASSUME NEW t \in Tasks, add_message_resume(t) PROVE OneKindNeverForgotten'
    <2>1. pc[t] \in {"adding", "readding"} /\ UNCHANGED dpc
      BY <1>10 DEF add_message_resume
    <2>2. CASE mailbox_full /\ wait_again(t)
      BY <1>8, <2>1, <2>2 DEF Waits
    <2> QED
      BY <1>5, <1>10, <2>1, <2>2 DEF add_message_resume, stop_waiting, insert, interrupted
  <1>11. ASSUME NEW t \in Tasks, NEW b \in BOOLEAN, mailbox_remove_message(t, b)
         PROVE  OneKindNeverForgotten'
    <2>1. pc[t] = "in" /\ UNCHANGED dpc
      BY <1>11 DEF mailbox_remove_message
    <2>2. CASE message_count = 0 /\ start_waiting(t, "removing") /\ UNCHANGED list
      BY <1>7, <2>1, <2>2 DEF Waits, list
    <2>3. CASE \E code : refuse(t, NoMessage, code)
      BY <1>6, <2>1, <2>3 DEF refuse, return, Waits, list
    <2>4. CASE take_first(t) /\ modify_queue' = wake_up(modify_queue)
      BY <1>6, <2>1, <2>4 DEF take_first, return, Waits
    <2> QED
      BY <1>11, <2>2, <2>3, <2>4 DEF mailbox_remove_message
  <1>12. ASSUME NEW t \in Tasks, remove_message_resume(t) PROVE OneKindNeverForgotten'
    <2>1. pc[t] = "removing" /\ UNCHANGED dpc
      BY <1>12 DEF remove_message_resume
    <2>2. CASE message_count = 0 /\ wait_again(t)
      BY <1>8, <2>1, <2>2 DEF Waits
    <2> QED
      BY <1>5, <1>12, <2>1, <2>2 DEF remove_message_resume, stop_waiting, take_first, interrupted
  <1>13. ASSUME NEW t \in Tasks,
                \/ check_process(t) \/ get_mailbox_for_pid(t) \/ mailbox_stop(t)
                \/ unclaim_mailbox(t) \/ do_exit(t)
         PROVE  OneKindNeverForgotten'
    BY <1>6, <1>13 DEF check_process, get_mailbox_for_pid, claim_mailbox, mailbox_stop, __mailbox_stop,
                       unclaim_mailbox, do_exit, return, Waits, list
  (* A signal puts nobody to sleep; a waiter it reaches is awake. *)
  <1>14. ASSUME NEW t \in Tasks, signal(t) PROVE OneKindNeverForgotten'
    <2>1. Waiters' = Waiters /\ UNCHANGED <<pc, message_count>>
      BY <1>14 DEF signal, Waiters, list
    <2>2. modify_queue'.asleep = modify_queue.asleep \ {t}
      BY <1>1, <1>14 DEF signal, OnQueue, IsWaitQueue, Interrupt
    <2>3. CASE t \in Waiters
      BY <2>1, <2>2, <2>3 DEF OneKindNeverForgotten, NoLostWakeUp
    <2>4. CASE t \notin Waiters
      BY <1>3, <2>1, <2>2, <2>4
    <2> QED
      BY <2>3, <2>4
  <1>15. ASSUME NEW t \in Tasks, NEW d \in Destroyers, remove_mailbox_for_pid(t, d)
         PROVE  OneKindNeverForgotten'
    <2>1. Waiters' = Waiters /\ Draining' = Draining
      BY <1>15 DEF remove_mailbox_for_pid, Waits, Waiters, Draining, ListInv
    <2> QED
      BY <1>1, <1>2, <1>15, <2>1 DEF remove_mailbox_for_pid, mailbox_exiting, __mailbox_stop
  <1>16. ASSUME NEW d \in Destroyers, mailbox_destroy(d) PROVE OneKindNeverForgotten'
    <2>1. Waiters' = Waiters /\ Draining' = Draining
      BY <1>16 DEF mailbox_destroy, goto, Waiters, Draining, ListInv
    <2> QED
      BY <1>1, <1>2, <1>16, <2>1 DEF mailbox_destroy, mailbox_exiting, __mailbox_stop
  <1>17. ASSUME NEW d \in Destroyers,
                deletion_thread_unlink(d) \/ mailbox_flush(d) \/ wait_until_mailbox_unclaimed(d)
         PROVE  OneKindNeverForgotten'
    <2>1. Waiters' = Waiters /\ UNCHANGED <<pc, message_count>>
      BY <1>17 DEF deletion_thread_unlink, mailbox_flush, wait_until_mailbox_unclaimed, Waiters, list
    <2>2. modify_queue' \in {modify_queue, Leave(modify_queue, d), Sleep(modify_queue, d)}
      BY <1>17 DEF deletion_thread_unlink, mailbox_flush, wait_until_mailbox_unclaimed
    <2>3. modify_queue'.asleep \cap Waiters = modify_queue.asleep \cap Waiters
      BY <1>1, <2>2 DEF Leave, Unlink, Sleep
    <2> QED
      BY <1>3, <2>1, <2>3
  <1>18. CASE UNCHANGED vars
    BY <1>3, <1>18 DEF vars, list, Waiters
  <1> QED
    BY <1>9, <1>10, <1>11, <1>12, <1>13, <1>14, <1>15, <1>16, <1>17, <1>18,
       MailboxAssumption DEF Next, Send, PutBack, Remove, Deletion

(* The steps that go through dereference_queue. *)
LEMMA DereferenceStep ==
  ListInv /\ DereferenceInv /\ [Next]_vars => DereferenceInv'
  <1> SUFFICES ASSUME ListInv, DereferenceInv, [Next]_vars PROVE DereferenceInv'
    OBVIOUS
  <1> USE DEF DereferenceInv
  <1>1. ASSUME UNCHANGED <<dereference_queue, dpc>> PROVE DereferenceInv'
    BY <1>1 DEF Unclaiming
  <1>2. ASSUME NEW d \in Destroyers, NEW x, dpc[d] # "unclaiming",
               dpc' = [dpc EXCEPT ![d] = x], UNCHANGED dereference_queue
        PROVE  DereferenceInv'
    BY <1>2 DEF Unclaiming, ListInv
  <1>3. ASSUME NEW t \in Tasks, unclaim_mailbox(t) PROVE DereferenceInv'
    <2>1. CASE dereference_queue' = dereference_queue
      BY <1>1, <1>3, <2>1 DEF unclaim_mailbox
    <2>2. CASE dereference_queue' = WakeUpLocked(dereference_queue, Destroyers)
      <3>1. /\ IsWaitQueue(WakeUpLocked(dereference_queue, Destroyers), Destroyers)
            /\ DOMAIN WakeUpLocked(dereference_queue, Destroyers).ahead
                 = DOMAIN dereference_queue.ahead \ Woken(dereference_queue, Destroyers)
        BY WakeUpOK, ZenonT(60)
      <3> QED
        BY <1>3, <2>2, <3>1 DEF unclaim_mailbox, Unclaiming
    <2> QED
      BY <1>3, <2>1, <2>2 DEF unclaim_mailbox, wake_destroyer
  <1>4. ASSUME NEW d \in Destroyers, wait_until_mailbox_unclaimed(d) PROVE DereferenceInv'
    <2>1. CASE goto(d, "done") /\ dereference_queue' = Leave(dereference_queue, d)
      <3>1. Unclaiming' = Unclaiming \ {d}
        BY <2>1 DEF goto, Unclaiming, ListInv
      <3>2. /\ IsWaitQueue(Leave(dereference_queue, d), Destroyers)
            /\ DOMAIN Leave(dereference_queue, d).ahead = DOMAIN dereference_queue.ahead \ {d}
        BY DEF IsWaitQueue, Leave, Unlink
      <3> QED
        BY <2>1, <3>1, <3>2
    <2>2. CASE goto(d, "unclaiming") /\ dereference_queue' = Sleep(dereference_queue, d)
      <3>1. Unclaiming' = Unclaiming \cup {d}
        BY <2>2 DEF goto, Unclaiming, ListInv
      <3>2. /\ IsWaitQueue(Sleep(dereference_queue, d), Destroyers)
            /\ DOMAIN Sleep(dereference_queue, d).ahead = DOMAIN dereference_queue.ahead \cup {d}
        BY DEF IsWaitQueue, Sleep
      <3> QED
        BY <2>2, <3>1, <3>2
    <2> QED
      BY <1>4, <2>1, <2>2 DEF wait_until_mailbox_unclaimed
  <1>5. ASSUME NEW t \in Tasks, NEW d \in Destroyers, remove_mailbox_for_pid(t, d)
        PROVE  DereferenceInv'
    BY <1>2, <1>5 DEF remove_mailbox_for_pid, claims
  <1>6. ASSUME NEW d \in Destroyers,
               deletion_thread_unlink(d) \/ mailbox_destroy(d) \/ mailbox_flush(d)
        PROVE  DereferenceInv'
    BY <1>2, <1>6 DEF deletion_thread_unlink, mailbox_destroy, mailbox_flush, goto, claims
  <1>7. \/ UNCHANGED <<dereference_queue, dpc>>
        \/ \E t \in Tasks : unclaim_mailbox(t)
        \/ \E t \in Tasks, d \in Destroyers : remove_mailbox_for_pid(t, d)
        \/ \E d \in Destroyers : Deletion(d)
    BY MailboxAssumption
    DEF Next, vars, claims, check_process, get_mailbox_for_pid, claim_mailbox, Send, PutBack, Remove,
        mailbox_add_message, add_message_resume, signal, mailbox_remove_message,
        remove_message_resume, mailbox_stop, do_exit
  <1> QED
    BY <1>1, <1>3, <1>4, <1>5, <1>6, <1>7 DEF Deletion

-----------------------------------------------------------------------------
(* Layer 5: the life of the object. *)

(* A new mailbox is linked and nobody deletes it. *)
LEMMA LifeInit == Init => LifeInv
  BY EmptyQueueOK DEF Init, LifeInv, NoUseAfterFree, EmptyQueue

(* With one deletion kthread: the object is unlinked before it is          *)
(* destroyed, nobody claims it then, and it is freed when the last claim   *)
(* has ended.                                                              *)
LEMMA LifeStep ==
  ASSUME SingleDeletion
  PROVE  ListInv /\ CountersInv /\ DereferenceInv /\ LifeInv /\ [Next]_vars => LifeInv'
  <1> SUFFICES ASSUME ListInv, CountersInv, DereferenceInv, LifeInv, [Next]_vars
               PROVE  LifeInv'
    OBVIOUS
  (* Nobody new gets the pointer, and the object's state is left alone. *)
  <1>1. ASSUME UNCHANGED <<linked, freed, dereference_queue, dpc>>, Holders' = Holders
        PROVE  LifeInv'
    BY <1>1 DEF LifeInv, NoUseAfterFree
  <1>2. ASSUME NEW t \in Tasks, NEW x, pc' = [pc EXCEPT ![t] = x],
               x \in Calling <=> pc[t] \in Calling,
               UNCHANGED <<linked, freed, dereference_queue, dpc>>
        PROVE  LifeInv'
    <2>1. Holders' = Holders
      BY <1>2 DEF Holders, ListInv
    <2> QED
      BY <1>1, <1>2, <2>1
  <1>3. ASSUME NEW t \in Tasks, get_mailbox_for_pid(t) PROVE LifeInv'
    <2>1. CASE linked /\ pc' = [pc EXCEPT ![t] = "in"]
      <3>1. Holders' = Holders \cup {t}
        BY <2>1, MoveTask DEF Calling
      <3> QED
        BY <1>3, <2>1, <3>1 DEF get_mailbox_for_pid, claim_mailbox, LifeInv, NoUseAfterFree
    <2>2. CASE pc' = [pc EXCEPT ![t] = "user"]
      BY <1>2, <1>3, <2>2 DEF get_mailbox_for_pid, claim_mailbox, Calling, Waits
    <2> QED
      BY <1>3, <2>1, <2>2 DEF get_mailbox_for_pid, claim_mailbox
  <1>4. ASSUME NEW t \in Tasks, unclaim_mailbox(t) PROVE LifeInv'
    <2>1. /\ pc' = [pc EXCEPT ![t] = "user"] /\ pc[t] = "in"
          /\ UNCHANGED <<linked, freed, dpc>>
      BY <1>4 DEF unclaim_mailbox
    <2>2. Holders' = Holders \ {t} /\ t \in Holders
      BY <2>1 DEF Holders, Calling, Waits, ListInv
    <2>3. dereference_queue'.asleep # {} => Holders' # {}
      <3>1. CASE dereferences = 1
        <4>1. IsFiniteSet(Destroyers) /\ IsWaitQueue(dereference_queue, Destroyers)
          BY MailboxAssumption DEF DereferenceInv
        <4>2. Destroyers \cap dereference_queue.asleep # {} =>
                Destroyers \cap Woken(dereference_queue, Destroyers) # {}
          BY <4>1, WakeUpReachesExclusive
        <4>3. dereference_queue.asleep \subseteq Destroyers
          BY <4>1 DEF IsWaitQueue
        <4>4. dereference_queue.asleep \ Woken(dereference_queue, Destroyers) = {}
          BY <4>2, <4>3, SingleDeletion DEF SingleDeletion, Woken
        <4>5. dereference_queue'.asleep = dereference_queue.asleep \ Woken(dereference_queue, Destroyers)
          BY <1>4, <3>1 DEF unclaim_mailbox, wake_destroyer, WakeUpLocked, Unlink
        <4> QED
          BY <4>4, <4>5
      <3>2. CASE dereferences # 1
        <4>1. Cardinality(Holders) \in Nat /\ Cardinality(Holders) # 1 /\ IsFiniteSet(Holders)
          BY <3>2, FiniteTasks DEF CountersInv
        <4>2. Holders # {t}
          BY <4>1, FS_Singleton
        <4> QED
          BY <2>2, <4>2
      <3> QED
        BY <3>1, <3>2
    <2> QED
      BY <2>1, <2>2, <2>3 DEF LifeInv, NoUseAfterFree
  <1>5. ASSUME NEW t \in Tasks, NEW d \in Destroyers, remove_mailbox_for_pid(t, d)
        PROVE  LifeInv'
    <2>1. Holders' = Holders
      BY <1>5 DEF remove_mailbox_for_pid, Holders, Calling, Waits, ListInv
    <2> QED
      BY <1>5, <2>1 DEF remove_mailbox_for_pid, claims, LifeInv, NoUseAfterFree, ListInv
  <1>6. ASSUME NEW d \in Destroyers, deletion_thread_unlink(d) PROVE LifeInv'
    <2>1. Holders' = Holders
      BY <1>6 DEF deletion_thread_unlink, Holders
    <2> QED
      BY <1>6, <2>1 DEF deletion_thread_unlink, goto, LifeInv, NoUseAfterFree, ListInv
  <1>7. ASSUME NEW d \in Destroyers, mailbox_destroy(d) \/ mailbox_flush(d) PROVE LifeInv'
    <2>1. Holders' = Holders
      BY <1>7 DEF mailbox_destroy, mailbox_flush, Holders
    <2> QED
      BY <1>7, <2>1 DEF mailbox_destroy, mailbox_flush, claims, goto, LifeInv, NoUseAfterFree, ListInv
  <1>8. ASSUME NEW d \in Destroyers, wait_until_mailbox_unclaimed(d) PROVE LifeInv'
    <2>1. Holders' = Holders /\ ~linked /\ UNCHANGED linked
      BY <1>8 DEF wait_until_mailbox_unclaimed, Holders, LifeInv
    <2>2. CASE dereferences = 0 /\ freed' = TRUE /\ goto(d, "done")
               /\ dereference_queue' = Leave(dereference_queue, d)
      <3>1. Holders = {}
        BY <2>2, FiniteTasks DEF CountersInv
      <3>2. \A e \in Destroyers : dpc'[e] = "done"
        BY <2>2, SingleDeletion DEF SingleDeletion, goto, ListInv
      <3>3. dereference_queue'.asleep = {}
        BY <2>2, <3>1 DEF LifeInv, Leave, Unlink
      <3> QED
        BY <2>1, <2>2, <3>1, <3>2, <3>3 DEF LifeInv, NoUseAfterFree
    <2>3. CASE dereferences # 0 /\ goto(d, "unclaiming") /\ UNCHANGED freed
      <3>1. Holders # {}
        BY <2>3, FiniteTasks DEF CountersInv
      <3> QED
        BY <2>1, <2>3, <3>1 DEF LifeInv, NoUseAfterFree, goto, ListInv
    <2> QED
      BY <1>8, <2>2, <2>3 DEF wait_until_mailbox_unclaimed
  <1>9. ASSUME NEW t \in Tasks, check_process(t) \/ do_exit(t) PROVE LifeInv'
    BY <1>2, <1>9 DEF check_process, do_exit, claims, Calling, Waits
  <1>10. ASSUME NEW t \in Tasks, NEW m, NEW b \in BOOLEAN, NEW h \in BOOLEAN,
                mailbox_add_message(t, m, b, h)
         PROVE  LifeInv'
    BY <1>2, <1>10 DEF mailbox_add_message, refuse, start_waiting, insert, return, claims, Calling, Waits
  <1>11. ASSUME NEW t \in Tasks, NEW b \in BOOLEAN, mailbox_remove_message(t, b)
         PROVE  LifeInv'
    BY <1>2, <1>11 DEF mailbox_remove_message, refuse, start_waiting, take_first, return, claims, Calling, Waits
  <1>12. ASSUME NEW t \in Tasks, add_message_resume(t) \/ remove_message_resume(t)
         PROVE  LifeInv'
    <2>1. CASE wait_again(t)
      BY <1>1, <1>12, <2>1 DEF wait_again, Holders, add_message_resume, remove_message_resume, claims
    <2>2. CASE \E code : return(t, code)
      BY <1>2, <1>12, <2>2 DEF return, add_message_resume, remove_message_resume, claims, Calling, Waits
    <2> QED
      BY <1>12, <2>1, <2>2 DEF add_message_resume, remove_message_resume, insert, take_first, interrupted
  <1>13. ASSUME NEW t \in Tasks, mailbox_stop(t) PROVE LifeInv'
    BY <1>2, <1>13 DEF mailbox_stop, return, claims, Calling, Waits
  <1>14. ASSUME NEW t \in Tasks, signal(t) PROVE LifeInv'
    BY <1>1, <1>14 DEF signal, claims, Holders
  <1>15. CASE UNCHANGED vars
    BY <1>1, <1>15 DEF vars, claims, Holders
  <1> QED
    BY <1>3, <1>4, <1>5, <1>6, <1>7, <1>8, <1>9, <1>10, <1>11, <1>12, <1>13, <1>14, <1>15,
       MailboxAssumption DEF Next, Send, PutBack, Remove, Deletion

-----------------------------------------------------------------------------
(* The theorems *)

(* `linked' and `freed' are only ever set to a truth value. *)
LEMMA FlagStep == FlagInv /\ [Next]_vars => FlagInv'
  <1> SUFFICES ASSUME FlagInv, [Next]_vars PROVE FlagInv'
    OBVIOUS
  <1> USE DEF FlagInv
  <1>1. CASE UNCHANGED <<linked, freed>>
    BY <1>1
  <1>2. ASSUME NEW d \in Destroyers, Deletion(d) PROVE FlagInv'
    BY <1>2 DEF Deletion, deletion_thread_unlink, mailbox_destroy, mailbox_flush,
                wait_until_mailbox_unclaimed, claims
  <1>3. \/ UNCHANGED <<linked, freed>>
        \/ \E d \in Destroyers : Deletion(d)
    BY DEF Next, vars, claims, check_process, get_mailbox_for_pid, claim_mailbox, Send, PutBack, Remove,
           mailbox_add_message, add_message_resume, signal, mailbox_remove_message,
           remove_message_resume, mailbox_stop, do_exit, unclaim_mailbox, remove_mailbox_for_pid
  <1> QED
    BY <1>1, <1>2, <1>3

(* The layers together: a new mailbox satisfies them ... *)
LEMMA InvInit == Init => Inv
  <1>1. Init => DrainInv /\ FlagInv
    BY DEF Init, DrainInv, FlushedMeansDrained, Flushed, FlagInv
  <1> QED
    BY <1>1, ListInit, CountersInit, QueueInit DEF Inv

(* ... and every step preserves them. *)
LEMMA InvStep == Inv /\ [Next]_vars => Inv'
  BY ListStep, CountersStep, DrainStep, ModifyStep, DereferenceStep, FlagStep
  DEF Inv, QueueInv

(* Inv is an inductive invariant of the mailbox, whatever the number of    *)
(* tasks and deletion kthreads.                                            *)
THEOREM InvariantTheorem == Spec => []Inv
  BY InvInit, InvStep, PTL DEF Spec

(* Every variable keeps its type; the list holds real Messages only, and   *)
(* neither counter goes below zero.                                        *)
THEOREM TypeTheorem == Spec => []TypeOK
  <1>1. Inv => TypeOK
    BY FiniteTasks
    DEF Inv, ListInv, CountersInv, QueueInv, ModifyInv, DereferenceInv, OnQueue, FlagInv, TypeOK
  <1> QED
    BY <1>1, InvariantTheorem, PTL

(* A stop or an exit reaches every blocked caller although it wakes one:   *)
(* as long as a task sleeps on a stopped mailbox, a waiter is awake that   *)
(* will pass the wake-up on.                                               *)
THEOREM StopTheorem == Spec => []StopReachesEveryone
  <1>1. Inv => StopReachesEveryone
    BY DEF Inv, QueueInv, ModifyInv
  <1> QED
    BY <1>1, InvariantTheorem, PTL

(* Senders and receivers share a queue that wakes one task, and a wake-up  *)
(* can be lost on a task of the other kind; on one of its own kind it is   *)
(* not, however many wait and whoever is signalled or leaves.              *)
THEOREM OneKindTheorem == Spec => []OneKindNeverForgotten
  <1>1. Init => OneKindNeverForgotten
    BY DEF Init, OneKindNeverForgotten, NoLostWakeUp, EmptyQueue
  <1>2. Inv /\ OneKindNeverForgotten /\ [Next]_vars => OneKindNeverForgotten'
    BY KindStep DEF Inv, QueueInv
  <1> QED
    BY <1>1, <1>2, InvariantTheorem, PTL DEF Spec

(* The flush of mailbox_destroy happens when nobody is inside a blocking   *)
(* call, and nobody enters one or adds a Message afterwards.               *)
THEOREM DrainTheorem == Spec => []FlushedMeansDrained
  <1>1. Inv => FlushedMeansDrained
    BY DEF Inv, DrainInv
  <1> QED
    BY <1>1, InvariantTheorem, PTL

(* message_count is the length of the list until the flush. *)
THEOREM CountTheorem == Spec => []CountBeforeFlush
  <1>1. Inv => CountBeforeFlush
    BY DEF Inv, ListInv
  <1> QED
    BY <1>1, InvariantTheorem, PTL

(* With one deletion kthread, the extended invariant is inductive. *)
THEOREM FullInvariantTheorem ==
  ASSUME SingleDeletion
  PROVE  Spec => []FullInv
  <1>1. Init => LifeInv
    BY LifeInit
  <1>2. Inv /\ LifeInv /\ [Next]_vars => LifeInv'
    BY SingleDeletion, LifeStep DEF Inv, QueueInv
  <1> QED
    BY <1>1, <1>2, InvariantTheorem, PTL DEF Spec, FullInv

(* With one deletion kthread, kmem_cache_free comes after the last use: no *)
(* task holds the pointer and the object is out of the table.              *)
THEOREM NoUseAfterFreeTheorem ==
  ASSUME SingleDeletion
  PROVE  Spec => []NoUseAfterFree
  <1>1. FullInv => NoUseAfterFree
    BY DEF FullInv, LifeInv
  <1> QED
    BY <1>1, SingleDeletion, FullInvariantTheorem, PTL

(* With one deletion kthread, it never sleeps through the event it waits   *)
(* for.                                                                    *)
THEOREM DestroyerTheorem ==
  ASSUME SingleDeletion
  PROVE  Spec => []DestroyerNotForgotten
  <1>1. FullInv => DestroyerNotForgotten
    BY FiniteTasks DEF FullInv, LifeInv, Inv, QueueInv, ModifyInv, CountersInv, DestroyerNotForgotten
  <1> QED
    BY <1>1, SingleDeletion, FullInvariantTheorem, PTL

-----------------------------------------------------------------------------
(* The refinement: each step of a mailbox is a step of the bounded queue   *)
(* under the mapping Fifo, or leaves it alone.                             *)

(* A new mailbox is an empty, open queue. *)
LEMMA RefineInit == Init => Fifo!FInit
  BY DEF Init, Fifo!FInit, Flushed, WaitingEnd

(* Where the items of the waiting callers go, as one of them moves. *)
LEMMA WaitingEndSteps ==
  ASSUME ListInv
  PROVE  /\ UNCHANGED pc => WaitingEnd' = WaitingEnd
         /\ \A t \in Tasks : pc' = [pc EXCEPT ![t] = "adding"] => WaitingEnd' = [WaitingEnd EXCEPT ![t] = "tail"]
         /\ \A t \in Tasks : pc' = [pc EXCEPT ![t] = "readding"] => WaitingEnd' = [WaitingEnd EXCEPT ![t] = "head"]
         /\ \A t \in Tasks : \A x : x \notin {"adding", "readding"} /\ pc' = [pc EXCEPT ![t] = x]
               => WaitingEnd' = [WaitingEnd EXCEPT ![t] = "none"]
         /\ \A t \in Tasks : \A x : x \notin {"adding", "readding"} /\ pc' = [pc EXCEPT ![t] = x]
               /\ pc[t] \notin {"adding", "readding"} => WaitingEnd' = WaitingEnd
  <1> DEFINE P(x) == IF x = "adding" THEN "tail" ELSE IF x = "readding" THEN "head" ELSE "none"
  <1>1. WaitingEnd = [t \in Tasks |-> P(pc[t])] /\ WaitingEnd' = [t \in Tasks |-> P(pc'[t])]
    BY DEF WaitingEnd
  <1>2. pc \in [Tasks -> {"user", "checked", "exiting", "exited"} \cup Calling]
    BY DEF ListInv
  <1>3. ASSUME NEW t \in Tasks, NEW x, pc' = [pc EXCEPT ![t] = x]
        PROVE  WaitingEnd' = [WaitingEnd EXCEPT ![t] = P(x)]
    <2>1. \A u \in Tasks : pc'[u] = IF u = t THEN x ELSE pc[u]
      BY <1>2, <1>3
    <2> HIDE DEF P
    <2> QED
      BY <1>1, <2>1
  <1>4. \A t \in Tasks : pc[t] \notin {"adding", "readding"} => WaitingEnd = [WaitingEnd EXCEPT ![t] = "none"]
    BY <1>1
  <1>5. UNCHANGED pc => WaitingEnd' = WaitingEnd
    BY DEF WaitingEnd
  <1> QED
    BY <1>3, <1>4, <1>5

(* Leaving the list, the flags and the callers alone is a stutter. *)
LEMMA Stutter ==
  ASSUME UNCHANGED <<messages, stopped, hand, ret>>, Flushed' = Flushed, WaitingEnd' = WaitingEnd
  PROVE  UNCHANGED Fifo!fvars
  BY DEF Fifo!fvars

(* Every locked section of mailbox.c, and every step of the manager, is a  *)
(* step of the queue or invisible to its callers.                          *)
LEMMA RefineStep == Inv /\ [Next]_vars => [Fifo!FNext]_(Fifo!fvars)
  <1> SUFFICES ASSUME Inv, [Next]_vars PROVE Fifo!FNext \/ UNCHANGED Fifo!fvars
    OBVIOUS
  <1>1. ListInv /\ DrainInv
    BY DEF Inv
  (* While the mailbox is not flushed its counter tells the truth. *)
  <1>2. stopped = {} => ~Flushed
    BY <1>1 DEF ListInv, Flushed
  <1>3. ~Flushed => (mailbox_full <=> Fifo!full)
    BY <1>1 DEF ListInv, CountBeforeFlush, mailbox_full, Fifo!full
  <1>4. ~Flushed => (message_count = 0 <=> messages = <<>>)
    BY <1>1 DEF ListInv, CountBeforeFlush
  <1>5. UNCHANGED dpc => Flushed' = Flushed
    BY DEF Flushed
  <1>6. hand \in [Tasks -> Messages \cup {NoMessage, BogusMessage}]
    BY <1>1 DEF ListInv
  (* The ways out of a call that leave the list alone. *)
  <1>7. ASSUME NEW t \in Tasks, NEW m \in Messages \cup {NoMessage, BogusMessage}, NEW code,
               hand[t] \in {NoMessage, m}, UNCHANGED <<messages, stopped, dpc>>,
               hand' = [hand EXCEPT ![t] = m], return(t, code),
               \/ /\ stopped = {} /\ mailbox_full /\ m # NoMessage
                  /\ code \in {"MAILBOX_FULL", "MAILBOX_ERROR"}
               \/ /\ stopped = {} /\ message_count = 0 /\ m = NoMessage
                  /\ code \in {"MAILBOX_EMPTY", "MAILBOX_ERROR"}
               \/ /\ stopped # {} /\ (m = NoMessage => messages = <<>>)
                  /\ code = "MAILBOX_STOPPED"
        PROVE  Fifo!FNext
    <2>1. Fifo!Refuse(t, m)
      BY <1>1, <1>2, <1>3, <1>4, <1>5, <1>7, WaitingEndSteps DEF Fifo!Refuse, Fifo!give, return
    <2> QED
      BY <2>1 DEF Fifo!FNext
  <1>8. ASSUME NEW t \in Tasks, NEW m \in Messages \cup {BogusMessage}, NEW h \in BOOLEAN,
               hand[t] \in {NoMessage, m}, h <=> Fifo!end(t, m) = "head", UNCHANGED <<stopped, dpc>>,
               stopped = {}, ~mailbox_full, insert(t, m, h)
        PROVE  Fifo!FNext
    <2>1. Fifo!Accept(t, m)
      BY <1>1, <1>2, <1>3, <1>5, <1>8, WaitingEndSteps DEF Fifo!Accept, Fifo!give, insert, return, list_insert
    <2> QED
      BY <2>1 DEF Fifo!FNext
  <1>9. ASSUME NEW t \in Tasks, hand[t] = NoMessage, UNCHANGED <<stopped, dpc>>,
               message_count # 0, take_first(t)
        PROVE  Fifo!FNext
    <2>1. CASE messages # <<>>
      <3>1. Fifo!Deliver(t)
        BY <1>1, <1>5, <1>9, <2>1, WaitingEndSteps DEF Fifo!Deliver, Fifo!give, take_first, return
      <3> QED
        BY <3>1 DEF Fifo!FNext
    <2>2. CASE messages = <<>>
      <3>1. Fifo!Undefined(t)
        BY <1>1, <1>4, <1>5, <1>9, <2>2, WaitingEndSteps DEF Fifo!Undefined, Fifo!give, take_first, return
      <3> QED
        BY <3>1 DEF Fifo!FNext
    <2> QED
      BY <2>1, <2>2
  <1>10. ASSUME NEW t \in Tasks, NEW m \in Messages \cup {BogusMessage},
                NEW b \in BOOLEAN, NEW h \in BOOLEAN, h <=> hand[t] = m,
                mailbox_add_message(t, m, b, h)
         PROVE  Fifo!FNext
    <2>1. /\ hand[t] \in {NoMessage, m} /\ UNCHANGED <<stopped, dpc>> /\ m # NoMessage
          /\ pc[t] = "in"
      BY <1>10, MailboxAssumption DEF mailbox_add_message
    <2>0. Fifo!end(t, m) = IF h THEN "head" ELSE "tail"
      BY <1>10, <2>1 DEF Fifo!end, WaitingEnd
    <2>2. CASE \/ stopped # {} /\ refuse(t, m, "MAILBOX_STOPPED")
               \/ stopped = {} /\ mailbox_full /\ refuse(t, m, "MAILBOX_FULL")
      BY <1>7, <2>1, <2>2 DEF refuse, list
    <2>3. CASE /\ stopped = {} /\ mailbox_full
               /\ start_waiting(t, IF h THEN "readding" ELSE "adding")
               /\ hand' = [hand EXCEPT ![t] = m]
               /\ UNCHANGED list
      <3>1. CASE return(t, "MAILBOX_ERROR")
        <4>1. Fifo!Refuse(t, m)
          BY <1>1, <1>2, <1>3, <1>5, <2>1, <2>3, <3>1, WaitingEndSteps DEF Fifo!Refuse, Fifo!give, return, list
        <4> QED
          BY <4>1 DEF Fifo!FNext
      <3>2. CASE UNCHANGED ret /\ pc' = [pc EXCEPT ![t] = IF h THEN "readding" ELSE "adding"]
        <4>1. WaitingEnd' = [WaitingEnd EXCEPT ![t] = Fifo!end(t, m)]
          BY <1>1, <2>0, <3>2, WaitingEndSteps
        <4>2. Fifo!Offer(t, m)
          BY <1>2, <1>3, <1>5, <2>1, <2>3, <3>2, <4>1 DEF Fifo!Offer, list
        <4> QED
          BY <4>2 DEF Fifo!FNext
      <3> QED
        BY <2>3, <3>1, <3>2 DEF start_waiting
    <2>4. CASE stopped = {} /\ ~mailbox_full /\ insert(t, m, h)
      BY <1>8, <2>0, <2>1, <2>4
    <2> QED
      BY <1>10, <2>2, <2>3, <2>4 DEF mailbox_add_message
  <1>11. ASSUME NEW t \in Tasks, wait_again(t), UNCHANGED <<stopped, dpc>>
         PROVE  UNCHANGED Fifo!fvars
    BY <1>1, <1>5, <1>11, Stutter, WaitingEndSteps DEF wait_again, list
  <1>12. ASSUME NEW t \in Tasks, add_message_resume(t) PROVE Fifo!FNext \/ UNCHANGED Fifo!fvars
    <2>1. /\ UNCHANGED <<stopped, dpc>> /\ hand[t] \in Messages /\ hand[t] # NoMessage
          /\ hand = [hand EXCEPT ![t] = hand[t]] /\ pc[t] \in {"adding", "readding"}
      BY <1>1, <1>12, MailboxAssumption DEF add_message_resume, ListInv
    <2>2. CASE stopped # {} /\ return(t, "MAILBOX_STOPPED") /\ UNCHANGED <<list, hand>>
      BY <1>7, <2>1, <2>2 DEF list
    <2>3. CASE stopped = {} /\ ~mailbox_full /\ insert(t, hand[t], pc[t] = "readding")
      <3>1. (pc[t] = "readding") <=> Fifo!end(t, hand[t]) = "head"
        BY <2>1 DEF Fifo!end, WaitingEnd
      <3> QED
        BY <1>8, <2>1, <2>3, <3>1
    <2>4. CASE stopped = {} /\ mailbox_full /\ interrupted(t)
      BY <1>7, <2>1, <2>4 DEF interrupted, list
    <2> QED
      BY <1>11, <1>12, <2>1, <2>2, <2>3, <2>4 DEF add_message_resume
  <1>13. ASSUME NEW t \in Tasks, stopped # {}, message_count = 0 PROVE messages = <<>>
    BY <1>1, <1>4, <1>13 DEF DrainInv, FlushedMeansDrained
  <1>14. ASSUME NEW t \in Tasks, NEW b \in BOOLEAN, mailbox_remove_message(t, b)
         PROVE  Fifo!FNext \/ UNCHANGED Fifo!fvars
    <2>1. /\ UNCHANGED <<stopped, dpc>> /\ hand[t] = NoMessage
          /\ hand = [hand EXCEPT ![t] = NoMessage] /\ pc[t] = "in"
      BY <1>6, <1>14 DEF mailbox_remove_message
    <2>2. CASE \/ stopped # {} /\ message_count = 0 /\ refuse(t, NoMessage, "MAILBOX_STOPPED")
               \/ stopped = {} /\ message_count = 0 /\ refuse(t, NoMessage, "MAILBOX_EMPTY")
      <3>1. UNCHANGED messages /\ hand' = [hand EXCEPT ![t] = NoMessage]
        BY <2>2 DEF refuse, list
      <3>2. CASE stopped # {} /\ message_count = 0 /\ return(t, "MAILBOX_STOPPED")
        <4>1. messages = <<>>
          BY <1>13, <3>2
        <4>2. Fifo!Refuse(t, NoMessage)
          BY <1>1, <1>5, <2>1, <3>1, <3>2, <4>1, WaitingEndSteps DEF Fifo!Refuse, Fifo!give, return
        <4> QED
          BY <4>2 DEF Fifo!FNext
      <3>3. CASE stopped = {} /\ message_count = 0 /\ return(t, "MAILBOX_EMPTY")
        <4>1. Fifo!Refuse(t, NoMessage)
          BY <1>1, <1>2, <1>4, <1>5, <2>1, <3>1, <3>3, WaitingEndSteps DEF Fifo!Refuse, Fifo!give, return
        <4> QED
          BY <4>1 DEF Fifo!FNext
      <3> QED
        BY <2>2, <3>2, <3>3 DEF refuse
    <2>3. CASE /\ stopped = {} /\ message_count = 0
               /\ start_waiting(t, "removing")
               /\ UNCHANGED <<list, hand>>
      <3>1. CASE return(t, "MAILBOX_ERROR")
        BY <1>7, <2>1, <2>3, <3>1 DEF list
      <3>2. CASE UNCHANGED ret /\ pc' = [pc EXCEPT ![t] = "removing"]
        BY <1>1, <1>5, <2>1, <2>3, <3>2, Stutter, WaitingEndSteps DEF list
      <3> QED
        BY <2>3, <3>1, <3>2 DEF start_waiting
    <2>4. CASE message_count # 0 /\ take_first(t)
      BY <1>9, <2>1, <2>4
    <2> QED
      BY <1>14, <2>2, <2>3, <2>4 DEF mailbox_remove_message
  <1>15. ASSUME NEW t \in Tasks, remove_message_resume(t) PROVE Fifo!FNext \/ UNCHANGED Fifo!fvars
    <2>1. /\ UNCHANGED <<stopped, dpc>> /\ hand[t] = NoMessage
          /\ hand = [hand EXCEPT ![t] = NoMessage]
      BY <1>1, <1>6, <1>15 DEF remove_message_resume, ListInv
    <2>2. CASE /\ stopped # {} /\ message_count = 0
               /\ return(t, "MAILBOX_STOPPED") /\ UNCHANGED <<list, hand>>
      BY <1>7, <1>13, <2>1, <2>2 DEF list
    <2>3. CASE message_count # 0 /\ take_first(t)
      BY <1>9, <2>1, <2>3
    <2>4. CASE stopped = {} /\ message_count = 0 /\ interrupted(t)
      BY <1>7, <2>1, <2>4 DEF interrupted, list
    <2> QED
      BY <1>11, <1>15, <2>1, <2>2, <2>3, <2>4 DEF remove_message_resume
  <1>16. ASSUME NEW t \in Tasks, mailbox_stop(t) PROVE Fifo!FNext
    <2>1. Fifo!Close
      BY <1>1, <1>5, <1>16, WaitingEndSteps DEF mailbox_stop, __mailbox_stop, return, Fifo!Close, list
    <2> QED
      BY <2>1 DEF Fifo!FNext
  <1>17. ASSUME NEW t \in Tasks, unclaim_mailbox(t) PROVE Fifo!FNext
    <2>1. Fifo!Finish(t)
      BY <1>1, <1>5, <1>17, WaitingEndSteps DEF unclaim_mailbox, Fifo!Finish, Fifo!give, list
    <2> QED
      BY <2>1 DEF Fifo!FNext
  <1>18. ASSUME NEW t \in Tasks,
                check_process(t) \/ get_mailbox_for_pid(t) \/ signal(t) \/ do_exit(t)
         PROVE  UNCHANGED Fifo!fvars
    BY <1>1, <1>5, <1>18, Stutter, WaitingEndSteps DEF check_process, get_mailbox_for_pid, claim_mailbox, signal, do_exit, list
  (* Marking the mailbox EXITING closes the queue. *)
  <1>19. ASSUME mailbox_exiting, UNCHANGED <<messages, hand, ret>>, Flushed' = Flushed, WaitingEnd' = WaitingEnd
         PROVE  Fifo!FNext
    <2>1. Fifo!Close
      BY <1>19 DEF mailbox_exiting, __mailbox_stop, Fifo!Close
    <2> QED
      BY <2>1 DEF Fifo!FNext
  <1>20. ASSUME NEW t \in Tasks, NEW d \in Destroyers, remove_mailbox_for_pid(t, d)
         PROVE  Fifo!FNext
    <2>1. Flushed' = Flushed
      BY <1>1, <1>20 DEF remove_mailbox_for_pid, Flushed, ListInv
    <2>2. WaitingEnd' = WaitingEnd
      BY <1>1, <1>20, WaitingEndSteps DEF remove_mailbox_for_pid
    <2> QED
      BY <1>19, <1>20, <2>1, <2>2 DEF remove_mailbox_for_pid, list
  <1>21. ASSUME NEW d \in Destroyers, mailbox_destroy(d) PROVE Fifo!FNext
    <2>1. Flushed' = Flushed
      BY <1>1, <1>21 DEF mailbox_destroy, goto, Flushed, ListInv
    <2> QED
      BY <1>1, <1>19, <1>21, <2>1, WaitingEndSteps DEF mailbox_destroy, list
  <1>22. ASSUME NEW d \in Destroyers, mailbox_flush(d) PROVE Fifo!FNext \/ UNCHANGED Fifo!fvars
    <2>1. stopped # {} /\ UNCHANGED <<stopped, hand, ret>> /\ WaitingEnd' = WaitingEnd
      BY <1>1, <1>22, WaitingEndSteps DEF mailbox_flush, ListInv
    <2>2. CASE messages' = <<>> /\ goto(d, "flushed")
      <3>1. Flushed'
        BY <1>1, <2>2 DEF goto, Flushed, ListInv
      <3>2. Fifo!Discard
        BY <2>1, <2>2, <3>1 DEF Fifo!Discard
      <3> QED
        BY <3>2 DEF Fifo!FNext
    <2>3. CASE UNCHANGED messages /\ goto(d, "draining")
      <3>1. Flushed' = Flushed
        BY <1>1, <1>22, <2>3 DEF mailbox_flush, goto, Flushed, ListInv
      <3> QED
        BY <2>1, <2>3, <3>1, Stutter
    <2> QED
      BY <1>22, <2>2, <2>3 DEF mailbox_flush
  <1>23. ASSUME NEW d \in Destroyers, deletion_thread_unlink(d) \/ wait_until_mailbox_unclaimed(d)
         PROVE  UNCHANGED Fifo!fvars
    <2>1. Flushed' = Flushed
      BY <1>1, <1>23 DEF deletion_thread_unlink, wait_until_mailbox_unclaimed, goto, Flushed, ListInv
    <2> QED
      BY <1>1, <1>23, <2>1, Stutter, WaitingEndSteps DEF deletion_thread_unlink, wait_until_mailbox_unclaimed, list
  <1>24. CASE UNCHANGED vars
    BY <1>1, <1>5, <1>24, Stutter, WaitingEndSteps DEF vars, list
  <1> QED
    <2>1. ASSUME NEW t \in Tasks, Send(t) PROVE Fifo!FNext
      <3>1. PICK m \in Messages, block \in BOOLEAN : unused(m) /\ mailbox_add_message(t, m, block, FALSE)
        BY <2>1 DEF Send
      <3>2. hand[t] # m
        BY <3>1 DEF unused
      <3> QED
        BY <1>10, <3>1, <3>2
    <2>2. ASSUME NEW t \in Tasks, PutBack(t) PROVE Fifo!FNext
      BY <1>6, <1>10, <2>2 DEF PutBack
    <2>3. ASSUME NEW t \in Tasks, Remove(t) PROVE Fifo!FNext \/ UNCHANGED Fifo!fvars
      BY <1>14, <2>3 DEF Remove
    <2> QED
      BY <2>1, <2>2, <2>3, <1>12, <1>15, <1>16, <1>17, <1>18, <1>20, <1>21, <1>22, <1>23, <1>24,
         MailboxAssumption DEF Next, Deletion

(* A mailbox is a bounded queue that is closed and then discarded: every   *)
(* behaviour of Mailbox.tla, with any number of callers, signals and       *)
(* deletions, is one of BoundedFifo.tla.                                   *)
THEOREM RefinementTheorem == Spec => ImplementsFifo
  BY RefineInit, RefineStep, InvariantTheorem, PTL DEF Spec, ImplementsFifo, Fifo!FSpec
=============================================================================
