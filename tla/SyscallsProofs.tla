--------------------------- MODULE SyscallsProofs ----------------------------
(***************************************************************************)
(* Proofs about Syscalls.tla for any number of tasks, threads, Messages    *)
(* and deletion kthreads and any capacity.  The system calls are first     *)
(* shown to use the mailbox as Mailbox.tla expects, which makes its        *)
(* invariant theirs.  The last part is about SendOrder.tla: a mailbox read *)
(* by one thread is FIFO through failed copies and put-backs.              *)
(***************************************************************************)
EXTENDS SendOrder, MailboxProofs

(* Where a task is in module.c, in mailbox.c, and what it then holds.      *)
Place(t) ==
  /\ call[t] = "none" => pc[t] \in {"user", "exited"}
  /\ call[t] \in {"exit", "exit_group"} => pc[t] \in {"user", "exiting"}
  /\ call[t] \in {"send", "receive", "manage"} => pc[t] \in {"checked", "in"}
  /\ call[t] = "sent" => pc[t] \in {"in", "adding"}
  /\ call[t] = "copying" => pc[t] \in {"in", "removing"}
  /\ call[t] = "put_back" => pc[t] \in {"in", "readding"}
  /\ call[t] = "stopped" => pc[t] = "in"
  /\ call[t] \notin {"none", "send", "sent"} => t \in Owners
  /\ hand[t] # NoMessage => call[t] \in {"sent", "copying", "put_back"}
  /\ call[t] = "copying" /\ pc[t] = "in" /\ ret[t] = "OK" => hand[t] # NoMessage

PlaceInv ==
  /\ call \in [Tasks -> {"none", "send", "receive", "manage", "sent", "copying",
                         "put_back", "stopped", "exit", "exit_group"}]
  /\ block \in [Tasks -> BOOLEAN]
  /\ slab \subseteq Messages
  /\ group_exit \in {"no", "called", "signal"}
  /\ \A t \in Tasks : Place(t)

SInv == Inv /\ PlaceInv /\ MessagesOwnedOnce /\ PutBackWaitsForRoom

-----------------------------------------------------------------------------
(* The system calls use the mailbox as it expects. *)

(* A step of a system call is a step of Mailbox.tla or leaves the mailbox  *)
(* alone.                                                                  *)
LEMMA CallsAreMailboxSteps ==
  ListInv /\ PlaceInv /\ MessagesOwnedOnce /\ [SNext]_svars => [Next]_vars
  <1> SUFFICES ASSUME ListInv, PlaceInv, MessagesOwnedOnce, [SNext]_svars
               PROVE  Next \/ UNCHANGED vars
    OBVIOUS
  <1> USE MailboxAssumption
  <1>1. ASSUME NEW t \in Tasks, unclaim_mailbox(t) PROVE Next
    BY <1>1 DEF Next
  <1>2. ASSUME NEW t \in Tasks, Return(t) PROVE Next
    BY <1>1, <1>2 DEF Return, message_create_fails, send_return, receive_return,
                      put_back_return, manage_return, finish
  <1>3. ASSUME NEW t \in Tasks, __send_message(t) PROVE Next
    <2>1. PICK m \in Messages : m \notin slab /\ mailbox_add_message(t, m, block[t], FALSE)
      BY <1>3 DEF __send_message, message_create
    <2>2. unused(m)
      BY <2>1 DEF unused, MessagesOwnedOnce
    <2>3. block[t] \in BOOLEAN
      BY DEF PlaceInv
    <2>4. Send(t)
      BY <2>1, <2>2, <2>3 DEF Send
    <2> QED
      BY <2>4 DEF Next
  <1>4. ASSUME NEW t \in Tasks, __recieve_message(t) PROVE Next
    <2>1. t \in Owners /\ block[t] \in BOOLEAN /\ mailbox_remove_message(t, block[t])
      BY <1>4 DEF __recieve_message, PlaceInv, Place
    <2>2. Remove(t)
      BY <2>1 DEF Remove
    <2> QED
      BY <2>1, <2>2 DEF Next
  <1>5. ASSUME NEW t \in Tasks, put_back(t) PROVE Next
    <2>1. t \in Owners /\ PutBack(t)
      BY <1>5 DEF put_back, PlaceInv, Place, PutBack
    <2> QED
      BY <2>1 DEF Next
  <1>6. ASSUME NEW t \in Tasks, __manage_mailbox(t) PROVE Next
    <2>1. t \in Owners /\ mailbox_stop(t)
      BY <1>6 DEF __manage_mailbox, PlaceInv, Place
    <2> QED
      BY <2>1 DEF Next
  <1>7. ASSUME NEW t \in Tasks, Resume(t) PROVE Next
    <2>1. CASE add_message_resume(t)
      BY <2>1 DEF Next
    <2>2. CASE remove_message_resume(t)
      <3>1. pc[t] = "removing"
        BY <2>2 DEF remove_message_resume
      <3>2. t \in Owners
        BY <3>1 DEF PlaceInv, Place
      <3> QED
        BY <2>2, <3>2 DEF Next
    <2> QED
      BY <1>7, <2>1, <2>2 DEF Resume
  <1>8. ASSUME NEW t \in Tasks, enter(t) \/ lookup(t) \/ signal(t) PROVE Next
    BY <1>8 DEF enter, lookup, Next
  <1>9. ASSUME NEW t \in Owners, remove_if_linked(t) PROVE Next \/ UNCHANGED vars
    BY <1>9 DEF remove_if_linked, Next
  <1>10. ASSUME NEW t \in Owners, __new_sys_exit(t) \/ __new_sys_exit_group(t)
         PROVE  Next \/ UNCHANGED vars
    BY <1>9, <1>10 DEF __new_sys_exit, __new_sys_exit_group
  <1>11. ASSUME NEW t \in Owners, thread_exit(t) PROVE Next
    BY <1>11 DEF thread_exit, Next
  <1>12. ASSUME NEW d \in Destroyers, Delete(d) PROVE Next
    <2>1. Deletion(d)
      BY <1>12 DEF Delete, flush_messages, Deletion
    <2> QED
      BY <2>1 DEF Next
  <1>13. CASE fatal_signal \/ UNCHANGED svars
    BY <1>13 DEF fatal_signal, svars
  <1> QED
    BY <1>2, <1>3, <1>4, <1>5, <1>6, <1>7, <1>8, <1>10, <1>11, <1>12, <1>13
    DEF SNext, Proceed

-----------------------------------------------------------------------------
(* Where tasks are and what they hold. *)

(* The first call has looked the mailbox up, and nobody holds anything. *)
LEMMA PlaceInit == SInit => PlaceInv
  BY MailboxAssumption DEF SInit, Init, Enters, PlaceInv, Place

(* A task moves in its call; the others stay where they are with what they *)
(* hold.                                                                   *)
LEMMA MovePlace ==
  ASSUME ListInv, PlaceInv, NEW t \in Tasks,
         NEW p, NEW h, NEW r, NEW c \in {"none", "send", "receive", "manage", "sent", "copying",
                                         "put_back", "stopped", "exit", "exit_group"},
         pc' = [pc EXCEPT ![t] = p], hand' = [hand EXCEPT ![t] = h],
         ret' = [ret EXCEPT ![t] = r], call' = [call EXCEPT ![t] = c],
         block' \in [Tasks -> BOOLEAN], slab' \subseteq Messages,
         group_exit' \in {"no", "called", "signal"},
         Place(t)'
  PROVE  PlaceInv'
  <1>1. ASSUME NEW u \in Tasks, u # t PROVE Place(u)'
    <2>1. pc'[u] = pc[u] /\ hand'[u] = hand[u] /\ ret'[u] = ret[u] /\ call'[u] = call[u]
      BY <1>1 DEF ListInv, PlaceInv
    <2>2. Place(u)
      BY DEF PlaceInv
    <2> QED
      BY <2>1, <2>2 DEF Place
  <1>2. call' \in [Tasks -> {"none", "send", "receive", "manage", "sent", "copying",
                             "put_back", "stopped", "exit", "exit_group"}]
    BY DEF PlaceInv
  <1> QED
    BY <1>1, <1>2 DEF PlaceInv

(* What mailbox.c answers, and what a caller may then have. *)
Codes   == {"OK", "MAILBOX_FULL", "MAILBOX_EMPTY", "MAILBOX_STOPPED", "MAILBOX_ERROR"}
Holding == Messages \cup {NoMessage, BogusMessage}

(* The caller's variables after a step of its call. *)
moved(t, p, k, r) ==
  /\ pc' = [pc EXCEPT ![t] = p]
  /\ hand' = [hand EXCEPT ![t] = k]
  /\ ret' = [ret EXCEPT ![t] = r]

(* What adding a Message does: the caller waits, or the Message is on the  *)
(* list, or the caller has it back for a reason.                           *)
Added(t, m, head, wait, where) ==
  \E p \in {"in", where}, k \in {m, NoMessage}, r \in Codes :
     /\ moved(t, p, k, r)
     /\ messages' = IF k = NoMessage THEN list_insert(m, head) ELSE messages
     /\ k = NoMessage => stopped = {}
     /\ k # NoMessage /\ p = "in" =>
          \/ r = "MAILBOX_STOPPED" /\ stopped # {}
          \/ r = "MAILBOX_ERROR" /\ t \in signalled
          \/ r = "MAILBOX_FULL" /\ ~wait
     /\ UNCHANGED <<stopped, signalled>>

(* What removing one does: it says OK when it has a Message to give, or    *)
(* the list head.                                                          *)
Removed(t) ==
  \E p \in {"in", "removing"}, k \in Holding, r \in Codes :
     /\ moved(t, p, k, r)
     /\ p = "in" /\ r = "OK" => k # NoMessage
     /\ \/ k = NoMessage /\ UNCHANGED messages
        \/ k = BogusMessage /\ messages = <<>> /\ messages' = <<>>
        \/ messages # <<>> /\ k = Head(messages) /\ messages' = Tail(messages)

(* mailbox_add_message does what Added says ... *)
LEMMA AddMoves ==
  ASSUME ListInv, NEW t \in Tasks, NEW m, m # NoMessage, NEW b \in BOOLEAN, NEW h \in BOOLEAN,
         mailbox_add_message(t, m, b, h)
  PROVE  Added(t, m, h, b, IF h THEN "readding" ELSE "adding")
  <1>1. pc = [pc EXCEPT ![t] = pc[t]] /\ ret = [ret EXCEPT ![t] = ret[t]] /\ ret[t] \in Codes
    BY DEF ListInv, Codes
  <1>2. pc[t] = "in" /\ UNCHANGED <<stopped, signalled>>
    BY DEF mailbox_add_message
  <1>3. CASE stopped # {} /\ refuse(t, m, "MAILBOX_STOPPED")
    BY <1>2, <1>3 DEF refuse, return, moved, Added, list, Codes
  <1>4. CASE ~b /\ refuse(t, m, "MAILBOX_FULL")
    BY <1>2, <1>4 DEF refuse, return, moved, Added, list, Codes
  <1>5. CASE /\ start_waiting(t, IF h THEN "readding" ELSE "adding")
             /\ hand' = [hand EXCEPT ![t] = m]
             /\ UNCHANGED list
    BY <1>1, <1>2, <1>5 DEF start_waiting, return, moved, Added, list, Codes
  <1>6. CASE stopped = {} /\ insert(t, m, h)
    BY <1>2, <1>6 DEF insert, return, moved, Added, Codes
  <1> QED
    BY <1>3, <1>4, <1>5, <1>6 DEF mailbox_add_message

(* ... and so does the rest of it, for a caller that was blocked. *)
LEMMA ResumeMoves ==
  ASSUME ListInv, NEW t \in Tasks, add_message_resume(t)
  PROVE  Added(t, hand[t], pc[t] = "readding", TRUE, pc[t])
  <1> DEFINE m == hand[t]
             h == pc[t] = "readding"
  <1>1. /\ pc = [pc EXCEPT ![t] = pc[t]] /\ hand = [hand EXCEPT ![t] = m]
        /\ ret = [ret EXCEPT ![t] = ret[t]] /\ ret[t] \in Codes
    BY DEF ListInv, Codes
  <1>2. UNCHANGED <<stopped, signalled>> /\ pc[t] # "in" /\ m # NoMessage
    BY MailboxAssumption DEF add_message_resume, ListInv
  <1>3. CASE wait_again(t)
    BY <1>1, <1>2, <1>3 DEF wait_again, moved, Added, list, Codes
  <1>4. CASE stopped # {} /\ return(t, "MAILBOX_STOPPED") /\ UNCHANGED <<list, hand>>
    BY <1>1, <1>2, <1>4 DEF return, moved, Added, list, Codes
  <1>5. CASE t \in signalled /\ return(t, "MAILBOX_ERROR") /\ UNCHANGED <<list, hand>>
    BY <1>1, <1>2, <1>5 DEF return, moved, Added, list, Codes
  <1>6. CASE stopped = {} /\ insert(t, m, h)
    BY <1>1, <1>2, <1>6 DEF insert, return, moved, Added, Codes
  <1> QED
    BY <1>3, <1>4, <1>5, <1>6 DEF add_message_resume, interrupted

(* mailbox_remove_message and the rest of it do what Removed says. *)
LEMMA RemoveMoves ==
  ASSUME ListInv, NEW t \in Tasks, NEW b \in BOOLEAN,
         mailbox_remove_message(t, b) \/ remove_message_resume(t)
  PROVE  Removed(t)
  <1>1. /\ pc = [pc EXCEPT ![t] = pc[t]] /\ hand = [hand EXCEPT ![t] = hand[t]]
        /\ ret = [ret EXCEPT ![t] = ret[t]] /\ ret[t] \in Codes /\ hand[t] = NoMessage
    BY DEF ListInv, Codes, mailbox_remove_message, remove_message_resume
  <1>2. ASSUME take_first(t) PROVE Removed(t)
    <2>1. CASE messages = <<>>
      <3>1. moved(t, "in", BogusMessage, "OK") /\ messages' = <<>> /\ BogusMessage # NoMessage
        BY <1>2, <2>1, MailboxAssumption DEF take_first, return, moved
      <3> QED
        BY <2>1, <3>1 DEF Removed, Codes, Holding
    <2>2. CASE messages # <<>>
      <3>1. moved(t, "in", Head(messages), "OK") /\ messages' = Tail(messages)
        BY <1>2, <2>2 DEF take_first, return, moved
      <3>2. Head(messages) # NoMessage /\ Head(messages) \in Messages
        BY <2>2, MailboxAssumption DEF ListInv
      <3> QED
        BY <2>2, <3>1, <3>2 DEF Removed, Codes, Holding
    <2> QED
      BY <2>1, <2>2
  <1>3. CASE mailbox_remove_message(t, b)
    <2>1. CASE \E c \in {"MAILBOX_STOPPED", "MAILBOX_EMPTY"} : refuse(t, NoMessage, c)
      BY <2>1 DEF refuse, return, moved, Removed, list, Codes, Holding
    <2>2. CASE start_waiting(t, "removing") /\ UNCHANGED <<list, hand>>
      BY <1>1, <2>2 DEF start_waiting, return, moved, Removed, list, Codes, Holding
    <2>3. CASE take_first(t)
      BY <1>2, <2>3
    <2> QED
      BY <1>3, <2>1, <2>2, <2>3 DEF mailbox_remove_message
  <1>4. CASE remove_message_resume(t)
    <2>1. CASE wait_again(t)
      BY <1>1, <1>4, <2>1 DEF wait_again, remove_message_resume, moved, Removed, list, Codes, Holding
    <2>2. CASE /\ \E code \in {"MAILBOX_STOPPED", "MAILBOX_ERROR"} : return(t, code)
               /\ UNCHANGED <<list, hand>>
      BY <1>1, <2>2 DEF return, moved, Removed, list, Codes, Holding
    <2>3. CASE take_first(t)
      BY <1>2, <2>3
    <2> QED
      BY <1>4, <2>1, <2>2, <2>3 DEF remove_message_resume, interrupted
  <1> QED
    BY <1>3, <1>4

(* Every step leaves every task at a place where it may be. *)
LEMMA PlaceStep == ListInv /\ PlaceInv /\ [SNext]_svars => PlaceInv'
  <1> SUFFICES ASSUME ListInv, PlaceInv, [SNext]_svars PROVE PlaceInv'
    OBVIOUS
  <1> USE MailboxAssumption
  <1>1. \A t \in Tasks : /\ pc = [pc EXCEPT ![t] = pc[t]] /\ hand = [hand EXCEPT ![t] = hand[t]]
                         /\ ret = [ret EXCEPT ![t] = ret[t]] /\ call = [call EXCEPT ![t] = call[t]]
    BY DEF ListInv, PlaceInv
  <1>2. ASSUME UNCHANGED <<pc, hand, ret, call, block>>, slab' \subseteq slab,
               group_exit' \in {"no", "called", "signal"}
        PROVE  PlaceInv'
    BY <1>2 DEF PlaceInv, Place
  <1>3. ASSUME NEW t \in Tasks, enter(t) PROVE PlaceInv'
    <2>1. /\ call[t] = "none" /\ pc' = [pc EXCEPT ![t] = "checked"]
          /\ UNCHANGED <<hand, ret, slab, group_exit>>
      BY <1>3 DEF enter, check_process
    <2>2. PICK c \in Enters(t), b \in BOOLEAN :
            call' = [call EXCEPT ![t] = c] /\ block' = [block EXCEPT ![t] = b]
      BY <1>3 DEF enter, at
    <2>3. c \in {"send", "receive", "manage"} /\ (c # "send" => t \in Owners)
      BY <2>2 DEF Enters
    <2>4. Place(t)'
      BY <2>1, <2>2, <2>3 DEF ListInv, PlaceInv, Place
    <2> QED
      BY <1>1, <2>1, <2>2, <2>3, <2>4, MovePlace DEF PlaceInv
  <1>4. ASSUME NEW t \in Tasks, lookup(t) PROVE PlaceInv'
    <2>1. /\ pc[t] = "checked" /\ UNCHANGED <<hand, ret, block, slab, group_exit>>
          /\ call[t] \in {"send", "receive", "manage"}
      BY <1>4 DEF lookup, get_mailbox_for_pid, PlaceInv, Place
    <2>2. PICK p \in {"in", "user"} :
            /\ pc' = [pc EXCEPT ![t] = p]
            /\ call' = [call EXCEPT ![t] = IF p = "in" THEN call[t] ELSE "none"]
      BY <1>4 DEF lookup, get_mailbox_for_pid, at, ListInv
    <2>3. Place(t)'
      BY <2>1, <2>2 DEF ListInv, PlaceInv, Place
    <2> QED
      BY <1>1, <2>1, <2>2, <2>3, MovePlace DEF PlaceInv
  <1>5. ASSUME NEW t \in Tasks, finish(t), slab' \subseteq slab PROVE PlaceInv'
    <2>1. /\ pc' = [pc EXCEPT ![t] = "user"] /\ hand' = [hand EXCEPT ![t] = NoMessage]
          /\ ret' = [ret EXCEPT ![t] = "OK"] /\ call' = [call EXCEPT ![t] = "none"]
          /\ block' = [block EXCEPT ![t] = FALSE] /\ UNCHANGED group_exit
      BY <1>5 DEF finish, unclaim_mailbox, at
    <2>2. Place(t)'
      BY <2>1 DEF ListInv, PlaceInv, Place
    <2> QED
      BY <1>5, <2>1, <2>2, MovePlace DEF PlaceInv
  <1>6. ASSUME NEW t \in Tasks, Return(t) PROVE PlaceInv'
    BY <1>5, <1>6 DEF Return, message_create_fails, send_return, receive_return,
                      put_back_return, manage_return, message_destroy
  <1>7. ASSUME NEW t \in Tasks, __send_message(t) PROVE PlaceInv'
    <2>1. PICK m \in Messages : /\ slab' = slab \cup {m}
                                /\ mailbox_add_message(t, m, block[t], FALSE)
      BY <1>7 DEF __send_message, message_create
    <2>2. m # NoMessage /\ block[t] \in BOOLEAN
      BY DEF PlaceInv
    <2>3. PICK p \in {"in", "adding"}, k \in {m, NoMessage}, r \in Codes : moved(t, p, k, r)
      <3>1. Added(t, m, FALSE, block[t], IF FALSE THEN "readding" ELSE "adding")
        BY <2>1, <2>2, AddMoves
      <3> QED
        BY <3>1 DEF Added
    <2>4. call' = [call EXCEPT ![t] = "sent"] /\ UNCHANGED <<block, group_exit>>
      BY <1>7 DEF __send_message, at
    <2>5. Place(t)'
      BY <2>3, <2>4 DEF moved, ListInv, PlaceInv, Place
    <2> QED
      BY <2>1, <2>3, <2>4, <2>5, MovePlace DEF moved, PlaceInv
  <1>8. ASSUME NEW t \in Tasks, __recieve_message(t) PROVE PlaceInv'
    <2>1. mailbox_remove_message(t, block[t]) /\ t \in Owners /\ block[t] \in BOOLEAN
      BY <1>8 DEF __recieve_message, PlaceInv, Place
    <2>2. PICK p \in {"in", "removing"}, k \in Holding, r \in Codes :
            moved(t, p, k, r) /\ (p = "in" /\ r = "OK" => k # NoMessage)
      BY <2>1, RemoveMoves DEF Removed
    <2>3. call' = [call EXCEPT ![t] = "copying"] /\ UNCHANGED <<block, slab, group_exit>>
      BY <1>8 DEF __recieve_message, at
    <2>4. Place(t)'
      BY <2>1, <2>2, <2>3 DEF moved, ListInv, PlaceInv, Place
    <2> QED
      BY <2>2, <2>3, <2>4, MovePlace DEF moved, PlaceInv
  <1>9. ASSUME NEW t \in Tasks, put_back(t) PROVE PlaceInv'
    <2>1. mailbox_add_message(t, hand[t], TRUE, TRUE) /\ t \in Owners /\ hand[t] # NoMessage
      BY <1>9 DEF put_back, PlaceInv, Place
    <2>2. PICK p \in {"in", "readding"}, k \in {hand[t], NoMessage}, r \in Codes : moved(t, p, k, r)
      <3>1. Added(t, hand[t], TRUE, TRUE, IF TRUE THEN "readding" ELSE "adding")
        BY <2>1, AddMoves
      <3> QED
        BY <3>1 DEF Added
    <2>3. call' = [call EXCEPT ![t] = "put_back"] /\ UNCHANGED <<block, slab, group_exit>>
      BY <1>9 DEF put_back, at
    <2>4. Place(t)'
      BY <2>1, <2>2, <2>3 DEF moved, ListInv, PlaceInv, Place
    <2> QED
      BY <2>2, <2>3, <2>4, MovePlace DEF moved, PlaceInv
  <1>10. ASSUME NEW t \in Tasks, __manage_mailbox(t) PROVE PlaceInv'
    <2>1. /\ call[t] = "manage" /\ pc' = [pc EXCEPT ![t] = "in"] /\ UNCHANGED hand
          /\ ret' = [ret EXCEPT ![t] = "OK"] /\ call' = [call EXCEPT ![t] = "stopped"]
          /\ UNCHANGED <<block, slab, group_exit>>
      BY <1>10 DEF __manage_mailbox, mailbox_stop, return, at
    <2>2. Place(t)'
      BY <2>1 DEF ListInv, PlaceInv, Place
    <2> QED
      BY <1>1, <2>1, <2>2, MovePlace DEF PlaceInv
  <1>11. ASSUME NEW t \in Tasks, Resume(t) PROVE PlaceInv'
    <2>1. UNCHANGED <<call, block, slab, group_exit>> /\ Place(t)
      BY <1>11 DEF Resume, locals, PlaceInv
    <2>2. CASE add_message_resume(t)
      <3>1. hand[t] # NoMessage /\ pc[t] \in {"adding", "readding"}
        BY <2>2 DEF add_message_resume, ListInv
      <3>2. PICK p \in {"in", pc[t]}, k \in {hand[t], NoMessage}, r \in Codes : moved(t, p, k, r)
        BY <2>2, ResumeMoves DEF Added
      <3>3. call[t] \in {"sent", "put_back"}
        BY <2>1, <3>1 DEF Place, PlaceInv
      <3>4. Place(t)'
        BY <2>1, <3>1, <3>2, <3>3 DEF moved, ListInv, PlaceInv, Place
      <3> QED
        BY <1>1, <2>1, <3>2, <3>4, MovePlace DEF moved, PlaceInv
    <2>3. CASE remove_message_resume(t)
      <3>1. pc[t] = "removing"
        BY <2>3 DEF remove_message_resume
      <3>2. PICK p \in {"in", "removing"}, k \in Holding, r \in Codes :
              moved(t, p, k, r) /\ (p = "in" /\ r = "OK" => k # NoMessage)
        BY <2>3, RemoveMoves DEF Removed
      <3>3. call[t] = "copying"
        BY <2>1, <3>1 DEF Place, PlaceInv
      <3>4. Place(t)'
        BY <2>1, <3>2, <3>3 DEF moved, ListInv, PlaceInv, Place
      <3> QED
        BY <1>1, <2>1, <3>2, <3>4, MovePlace DEF moved, PlaceInv
    <2> QED
      BY <1>11, <2>2, <2>3 DEF Resume
  <1>12. ASSUME NEW t \in Owners, __new_sys_exit(t) \/ __new_sys_exit_group(t) PROVE PlaceInv'
    <2> t \in Tasks
      OBVIOUS
    <2>1. PICK p \in {"user", "exiting"}, c \in {"exit", "exit_group"} :
            /\ pc' = [pc EXCEPT ![t] = p] /\ call' = [call EXCEPT ![t] = c]
            /\ UNCHANGED <<hand, ret, block, slab, group_exit>> /\ call[t] = "none"
      BY <1>1, <1>12 DEF __new_sys_exit, __new_sys_exit_group, remove_if_linked,
                         remove_mailbox_for_pid, at, vars
    <2>2. Place(t)'
      BY <2>1 DEF ListInv, PlaceInv, Place
    <2> QED
      BY <1>1, <2>1, <2>2, MovePlace DEF PlaceInv
  <1>13. ASSUME NEW t \in Owners, thread_exit(t) PROVE PlaceInv'
    <2> t \in Tasks
      OBVIOUS
    <2>1. /\ UNCHANGED <<hand, ret, block, slab>> /\ group_exit' \in {"no", "called", "signal"}
          /\ pc' = [pc EXCEPT ![t] = "exited"] /\ call' = [call EXCEPT ![t] = "none"]
          /\ pc[t] \in {"user", "exiting"}
      BY <1>13 DEF thread_exit, do_exit, at, PlaceInv
    <2>2. Place(t)'
      BY <1>13, <2>1 DEF thread_exit, ListInv, PlaceInv, Place
    <2> QED
      BY <1>1, <2>1, <2>2, MovePlace DEF PlaceInv
  <1>14. ASSUME NEW d \in Destroyers, Delete(d) PROVE PlaceInv'
    BY <1>2, <1>14 DEF Delete, flush_messages, message_destroy, mailbox_flush, deletion_thread_unlink,
                       mailbox_destroy, wait_until_mailbox_unclaimed, locals, PlaceInv
  <1>15. ASSUME NEW t \in Tasks, signal(t), UNCHANGED locals PROVE PlaceInv'
    BY <1>2, <1>15 DEF signal, locals, PlaceInv
  <1>16. CASE fatal_signal \/ UNCHANGED svars
    BY <1>2, <1>16 DEF fatal_signal, svars, vars, locals, PlaceInv
  <1> QED
    BY <1>3, <1>4, <1>6, <1>7, <1>8, <1>9, <1>10, <1>11, <1>12, <1>13, <1>14, <1>15, <1>16
    DEF SNext, Proceed

-----------------------------------------------------------------------------
(* Every Message in one place. *)

(* What is on the list when a new Message is: the others, still once. *)
LEMMA InsertedOnce ==
  ASSUME ListInv, NEW m \in Messages, NEW h \in BOOLEAN,
         \A i \in DOMAIN messages : messages[i] # m,
         \A i, j \in DOMAIN messages : messages[i] = messages[j] => i = j
  PROVE  /\ \A i \in DOMAIN list_insert(m, h) :
                list_insert(m, h)[i] = m \/ \E j \in DOMAIN messages : list_insert(m, h)[i] = messages[j]
         /\ \A i, j \in DOMAIN list_insert(m, h) :
                list_insert(m, h)[i] = list_insert(m, h)[j] => i = j
  <1> DEFINE s == list_insert(m, h)
             n == Len(messages)
  <1>1. messages \in Seq(Messages) /\ n \in Nat /\ DOMAIN messages = 1 .. n
    BY DEF ListInv
  <1>2. CASE h
    <2>1. DOMAIN s = 1 .. (n + 1) /\ \A i \in 1 .. (n + 1) : s[i] = IF i = 1 THEN m ELSE messages[i - 1]
      BY <1>1, <1>2 DEF list_insert
    <2>2. \A i \in 1 .. (n + 1) : i # 1 => i - 1 \in 1 .. n
      BY <1>1
    <2> HIDE DEF s, n
    <2>3. \A i \in DOMAIN s : s[i] = m \/ \E j \in DOMAIN messages : s[i] = messages[j]
      BY <1>1, <2>1, <2>2
    <2>4. \A i, j \in DOMAIN s : s[i] = s[j] => i = j
      <3> SUFFICES ASSUME NEW i \in 1 .. (n + 1), NEW j \in 1 .. (n + 1), s[i] = s[j], i # j
                   PROVE  FALSE
        BY <2>1
      <3>1. ASSUME NEW x \in 1 .. (n + 1), x # 1 PROVE s[x] # m
        <4>1. x - 1 \in DOMAIN messages /\ s[x] = messages[x - 1]
          BY <1>1, <2>1, <2>2, <3>1
        <4> QED
          BY <4>1
      <3>2. i # 1 /\ j # 1
        <4>1. i = 1 => s[i] = m
          BY <2>1
        <4>2. j = 1 => s[j] = m
          BY <2>1
        <4> QED
          BY <3>1, <4>1, <4>2
      <3>3. i - 1 = j - 1
        BY <1>1, <2>1, <2>2, <3>2
      <3> QED
        BY <1>1, <3>3 DEF n
    <2> QED
      BY <2>3, <2>4 DEF s
  <1>3. CASE ~h
    <2>1. DOMAIN s = 1 .. (n + 1) /\ \A i \in 1 .. (n + 1) : s[i] = IF i = n + 1 THEN m ELSE messages[i]
      BY <1>1, <1>3 DEF list_insert
    <2>2. \A i \in 1 .. (n + 1) : i # n + 1 => i \in 1 .. n
      BY <1>1
    <2> HIDE DEF s, n
    <2>3. \A i \in DOMAIN s : s[i] = m \/ \E j \in DOMAIN messages : s[i] = messages[j]
      BY <1>1, <2>1, <2>2
    <2>4. \A i, j \in DOMAIN s : s[i] = s[j] => i = j
      BY <1>1, <2>1, <2>2
    <2> QED
      BY <2>3, <2>4 DEF s
  <1> QED
    BY <1>2, <1>3

(* A Message that only the caller has is added, or stays with the caller. *)
LEMMA OwnedAdd ==
  ASSUME ListInv, MessagesOwnedOnce, NEW t \in Tasks, NEW m \in Messages \cup {BogusMessage},
         NEW h \in BOOLEAN, NEW b, NEW w, Added(t, m, h, b, w),
         \A i \in DOMAIN messages : messages[i] # m,
         \A u \in Tasks \ {t} : m \in Messages => hand[u] # m,
         m = BogusMessage => stopped # {},
         slab \subseteq slab', m \in Messages => m \in slab'
  PROVE  MessagesOwnedOnce'
  <1> USE MailboxAssumption
  <1>1. PICK p \in {"in", w}, k \in {m, NoMessage}, r \in Codes :
          /\ moved(t, p, k, r)
          /\ messages' = IF k = NoMessage THEN list_insert(m, h) ELSE messages
          /\ k = NoMessage => stopped = {}
    BY DEF Added
  <1>2. hand \in [Tasks -> Messages \cup {NoMessage, BogusMessage}] /\ messages \in Seq(Messages)
    BY DEF ListInv
  <1>3. hand'[t] = k /\ \A u \in Tasks \ {t} : hand'[u] = hand[u]
    BY <1>1, <1>2 DEF moved
  <1>4. CASE k = m
    <2>1. messages' = messages
      BY <1>1, <1>4
    <2> QED
      BY <1>3, <1>4, <2>1 DEF MessagesOwnedOnce
  <1>5. CASE k = NoMessage
    <2>1. messages' = list_insert(m, h) /\ m \in Messages
      BY <1>1, <1>5
    <2>2. /\ \A i \in DOMAIN messages' :
                messages'[i] = m \/ \E j \in DOMAIN messages : messages'[i] = messages[j]
          /\ \A i, j \in DOMAIN messages' : messages'[i] = messages'[j] => i = j
      BY <2>1, InsertedOnce DEF MessagesOwnedOnce
    <2>3. \A j \in DOMAIN messages : messages[j] \in Messages
      BY <1>2
    <2> QED
      BY <1>3, <1>5, <2>1, <2>2, <2>3 DEF MessagesOwnedOnce
  <1> QED
    BY <1>4, <1>5

(* The first Message of the list goes to the caller. *)
LEMMA OwnedRemove ==
  ASSUME ListInv, MessagesOwnedOnce, NEW t \in Tasks, Removed(t), UNCHANGED slab
  PROVE  MessagesOwnedOnce'
  <1> USE MailboxAssumption
  <1>1. PICK p, k, r :
          /\ moved(t, p, k, r)
          /\ \/ k = NoMessage /\ UNCHANGED messages
             \/ k = BogusMessage /\ messages = <<>> /\ messages' = <<>>
             \/ messages # <<>> /\ k = Head(messages) /\ messages' = Tail(messages)
    BY DEF Removed
  <1>2. hand \in [Tasks -> Messages \cup {NoMessage, BogusMessage}] /\ messages \in Seq(Messages)
    BY DEF ListInv
  <1>3. hand'[t] = k /\ \A u \in Tasks \ {t} : hand'[u] = hand[u]
    BY <1>1, <1>2 DEF moved
  <1>4. CASE k \in {NoMessage, BogusMessage} /\ UNCHANGED messages
    <2>1. \A i \in DOMAIN messages : messages[i] \in Messages
      BY <1>2
    <2> QED
      BY <1>3, <1>4, <2>1 DEF MessagesOwnedOnce
  <1>5. CASE messages # <<>> /\ k = Head(messages) /\ messages' = Tail(messages)
    <2>1. /\ 1 \in DOMAIN messages /\ k = messages[1]
          /\ \A i \in DOMAIN messages' : i + 1 \in DOMAIN messages /\ i + 1 # 1
                                        /\ messages'[i] = messages[i + 1]
          /\ \A i, j \in DOMAIN messages' : i + 1 = j + 1 => i = j
      BY <1>2, <1>5
    <2> QED
      BY <1>3, <2>1 DEF MessagesOwnedOnce
  <1> QED
    BY <1>1, <1>4, <1>5

(* A Message in the hands of a task is somebody's: nobody else has it, and *)
(* on a mailbox that lost its list the caller has the list head.           *)
LEMMA OwnedInHand ==
  ASSUME ListInv, MessagesOwnedOnce, NEW t \in Tasks, hand[t] # NoMessage
  PROVE  /\ hand[t] \in Messages \cup {BogusMessage}
         /\ \A i \in DOMAIN messages : messages[i] # hand[t]
         /\ \A u \in Tasks \ {t} : hand[t] \in Messages => hand[u] # hand[t]
         /\ hand[t] = BogusMessage => stopped # {}
         /\ hand[t] \in Messages => hand[t] \in slab
  <1>1. hand[t] = BogusMessage => stopped # {}
    BY DEF ListInv, Flushed
  <1> QED
    BY <1>1, MailboxAssumption DEF ListInv, MessagesOwnedOnce

(* Every step leaves every Message where one task or the list has it. *)
LEMMA OwnedStep ==
  ListInv /\ PlaceInv /\ MessagesOwnedOnce /\ [SNext]_svars => MessagesOwnedOnce'
  <1> SUFFICES ASSUME ListInv, PlaceInv, MessagesOwnedOnce, [SNext]_svars
               PROVE  MessagesOwnedOnce'
    OBVIOUS
  <1> USE MailboxAssumption
  <1>1. ASSUME UNCHANGED <<messages, hand, slab>> PROVE MessagesOwnedOnce'
    BY <1>1 DEF MessagesOwnedOnce
  <1>2. ASSUME NEW t \in Tasks, enter(t) \/ lookup(t) \/ __manage_mailbox(t) PROVE MessagesOwnedOnce'
    BY <1>1, <1>2 DEF enter, check_process, lookup, get_mailbox_for_pid, __manage_mailbox,
                      mailbox_stop, list
  <1>3. ASSUME NEW t \in Tasks, Return(t) PROVE MessagesOwnedOnce'
    <2>1. /\ slab' = slab \/ slab' = slab \ {hand[t]}
          /\ hand' = [hand EXCEPT ![t] = NoMessage] /\ UNCHANGED messages
      BY <1>3 DEF Return, message_create_fails, send_return, receive_return, put_back_return,
                  manage_return, message_destroy, finish, unclaim_mailbox, list
    <2>2. hand'[t] = NoMessage /\ \A u \in Tasks \ {t} : hand'[u] = hand[u]
      BY <2>1 DEF ListInv
    <2>3. \A u \in Tasks \ {t} : hand[u] \in Messages => hand[u] \in slab'
      BY <2>1 DEF MessagesOwnedOnce
    <2>4. \A i \in DOMAIN messages : messages[i] \in slab'
      BY <2>1 DEF MessagesOwnedOnce
    <2>5. \A i \in DOMAIN messages : messages[i] \in Messages
      BY DEF ListInv
    <2> QED
      BY <2>1, <2>2, <2>3, <2>4, <2>5 DEF MessagesOwnedOnce
  <1>4. ASSUME NEW t \in Tasks, __send_message(t) PROVE MessagesOwnedOnce'
    <2>1. PICK m \in Messages : m \notin slab /\ slab' = slab \cup {m}
                                /\ mailbox_add_message(t, m, block[t], FALSE)
      BY <1>4 DEF __send_message, message_create
    <2>2. m # NoMessage /\ m # BogusMessage /\ block[t] \in BOOLEAN
      BY DEF PlaceInv
    <2>3. Added(t, m, FALSE, block[t], IF FALSE THEN "readding" ELSE "adding")
      BY <2>1, <2>2, AddMoves
    <2>4. (\A i \in DOMAIN messages : messages[i] # m) /\ \A u \in Tasks : hand[u] # m
      BY <2>1 DEF MessagesOwnedOnce
    <2> QED
      BY <2>1, <2>2, <2>3, <2>4, OwnedAdd
  <1>5. ASSUME NEW t \in Tasks, put_back(t) PROVE MessagesOwnedOnce'
    <2>1. mailbox_add_message(t, hand[t], TRUE, TRUE) /\ hand[t] # NoMessage /\ UNCHANGED slab
      BY <1>5 DEF put_back, PlaceInv, Place
    <2>2. Added(t, hand[t], TRUE, TRUE, IF TRUE THEN "readding" ELSE "adding")
      BY <2>1, AddMoves
    <2> QED
      BY <2>1, <2>2, OwnedInHand, OwnedAdd
  <1>6. ASSUME NEW t \in Tasks, __recieve_message(t) PROVE MessagesOwnedOnce'
    <2>1. mailbox_remove_message(t, block[t]) /\ block[t] \in BOOLEAN /\ UNCHANGED slab
      BY <1>6 DEF __recieve_message, PlaceInv
    <2> QED
      BY <2>1, RemoveMoves, OwnedRemove
  <1>7. ASSUME NEW t \in Tasks, Resume(t) PROVE MessagesOwnedOnce'
    <2>1. UNCHANGED slab
      BY <1>7 DEF Resume, locals
    <2>2. CASE add_message_resume(t)
      <3>1. hand[t] # NoMessage
        BY <2>2 DEF add_message_resume, ListInv
      <3>2. Added(t, hand[t], TRUE, TRUE, pc[t]) \/ Added(t, hand[t], FALSE, TRUE, pc[t])
        BY <2>2, ResumeMoves
      <3>3. /\ hand[t] \in Messages \cup {BogusMessage}
            /\ \A i \in DOMAIN messages : messages[i] # hand[t]
            /\ \A u \in Tasks \ {t} : hand[t] \in Messages => hand[u] # hand[t]
            /\ hand[t] = BogusMessage => stopped # {}
            /\ hand[t] \in Messages => hand[t] \in slab
        BY <3>1, OwnedInHand
      <3> QED
        BY <2>1, <3>2, <3>3, OwnedAdd
    <2>3. CASE remove_message_resume(t)
      BY <2>1, <2>3, RemoveMoves, OwnedRemove
    <2> QED
      BY <1>7, <2>2, <2>3 DEF Resume
  <1>8. ASSUME NEW t \in Owners, __new_sys_exit(t) \/ __new_sys_exit_group(t) \/ thread_exit(t)
        PROVE  MessagesOwnedOnce'
    BY <1>1, <1>8 DEF __new_sys_exit, __new_sys_exit_group, remove_if_linked, remove_mailbox_for_pid,
                      thread_exit, do_exit, vars, list
  <1>9. ASSUME NEW d \in Destroyers, flush_messages(d) PROVE MessagesOwnedOnce'
    <2>1. UNCHANGED hand
      BY <1>9 DEF flush_messages, mailbox_flush
    <2>2. CASE dpc'[d] = "flushed"
      <3>1. messages' = <<>> /\ slab' = slab \ {messages[i] : i \in DOMAIN messages}
        BY <1>9, <2>2 DEF flush_messages, mailbox_flush, message_destroy, goto, ListInv
      <3> QED
        BY <2>1, <3>1 DEF MessagesOwnedOnce
    <2>3. CASE dpc'[d] # "flushed"
      <3>1. UNCHANGED <<messages, slab>>
        BY <1>9, <2>3 DEF flush_messages, mailbox_flush, message_destroy, goto, ListInv
      <3> QED
        BY <1>1, <2>1, <3>1
    <2> QED
      BY <2>2, <2>3
  <1>10. ASSUME NEW d \in Destroyers, Delete(d) PROVE MessagesOwnedOnce'
    BY <1>1, <1>9, <1>10 DEF Delete, deletion_thread_unlink, mailbox_destroy,
                             wait_until_mailbox_unclaimed, locals, list
  <1>11. ASSUME NEW t \in Tasks, signal(t), UNCHANGED locals PROVE MessagesOwnedOnce'
    BY <1>1, <1>11 DEF signal, locals, list
  <1>12. CASE fatal_signal \/ UNCHANGED svars
    BY <1>1, <1>12 DEF fatal_signal, svars, vars, locals, list
  <1> QED
    BY <1>2, <1>3, <1>4, <1>5, <1>6, <1>7, <1>8, <1>10, <1>11, <1>12
    DEF SNext, Proceed

-----------------------------------------------------------------------------
(* The put-back after a failed copy. *)

(* What excuses a put-back that gave its Message up. *)
Excused(t, code) ==
  \/ code = "MAILBOX_STOPPED" /\ stopped # {}
  \/ code = "MAILBOX_ERROR" /\ t \in signalled

(* A task moves in its call: the excuses of the others still stand. *)
LEMMA MovePutBack ==
  ASSUME ListInv, PlaceInv, PutBackWaitsForRoom, NEW t \in Tasks, NEW p, NEW k, NEW r, NEW c,
         moved(t, p, k, r), call' = [call EXCEPT ![t] = c],
         stopped # {} => stopped' # {}, signalled \ {t} \subseteq signalled',
         c = "put_back" /\ p = "in" /\ k # NoMessage => Excused(t, r)'
  PROVE  PutBackWaitsForRoom'
  <1>1. ASSUME NEW u \in Tasks, u # t, call'[u] = "put_back", pc'[u] = "in", hand'[u] # NoMessage
        PROVE  Excused(u, ret[u])'
    <2>1. pc'[u] = pc[u] /\ hand'[u] = hand[u] /\ ret'[u] = ret[u] /\ call'[u] = call[u]
      BY <1>1 DEF moved, ListInv, PlaceInv
    <2> QED
      BY <1>1, <2>1 DEF PutBackWaitsForRoom, Excused
  <1>2. pc'[t] = p /\ hand'[t] = k /\ ret'[t] = r /\ call'[t] = c
    BY DEF moved, ListInv, PlaceInv
  <1> QED
    BY <1>1, <1>2 DEF PutBackWaitsForRoom, Excused

(* Adding with block = TRUE fails only with an excuse. *)
LEMMA AddExcused ==
  ASSUME ListInv, PlaceInv, PutBackWaitsForRoom, NEW t \in Tasks, NEW m, NEW h, NEW w, w # "in",
         Added(t, m, h, TRUE, w), call' = [call EXCEPT ![t] = "put_back"]
  PROVE  PutBackWaitsForRoom'
  <1>1. PICK p \in {"in", w}, k \in {m, NoMessage}, r \in Codes :
          /\ moved(t, p, k, r) /\ UNCHANGED <<stopped, signalled>>
          /\ k # NoMessage /\ p = "in" => Excused(t, r)
    BY DEF Added, Excused
  <1>2. Excused(t, r) => Excused(t, r)'
    BY <1>1 DEF Excused
  <1> QED
    BY <1>1, <1>2, MovePutBack

(* Every step leaves every put-back that gave up with its excuse. *)
LEMMA PutBackStep ==
  ListInv /\ PlaceInv /\ PutBackWaitsForRoom /\ [SNext]_svars => PutBackWaitsForRoom'
  <1> SUFFICES ASSUME ListInv, PlaceInv, PutBackWaitsForRoom, [SNext]_svars
               PROVE  PutBackWaitsForRoom'
    OBVIOUS
  <1> USE MailboxAssumption
  <1>1. \A t \in Tasks : /\ pc = [pc EXCEPT ![t] = pc[t]] /\ hand = [hand EXCEPT ![t] = hand[t]]
                         /\ ret = [ret EXCEPT ![t] = ret[t]] /\ call = [call EXCEPT ![t] = call[t]]
    BY DEF ListInv, PlaceInv
  <1>2. ASSUME UNCHANGED <<pc, hand, ret, call>>, stopped # {} => stopped' # {},
               signalled \subseteq signalled'
        PROVE  PutBackWaitsForRoom'
    BY <1>2 DEF PutBackWaitsForRoom
  <1>3. ASSUME NEW t \in Tasks, enter(t) PROVE PutBackWaitsForRoom'
    <2>1. PICK c \in {"send", "receive", "manage"} : call' = [call EXCEPT ![t] = c]
      BY <1>3 DEF enter, at, Enters
    <2>2. moved(t, "checked", hand[t], ret[t]) /\ UNCHANGED <<stopped, signalled>>
      BY <1>1, <1>3 DEF enter, check_process, moved
    <2> QED
      BY <2>1, <2>2, MovePutBack
  <1>4. ASSUME NEW t \in Tasks, lookup(t) PROVE PutBackWaitsForRoom'
    <2>1. pc[t] = "checked" /\ call[t] # "put_back"
      BY <1>4 DEF lookup, get_mailbox_for_pid, PlaceInv, Place
    <2>2. PICK p, c : /\ call' = [call EXCEPT ![t] = c] /\ c # "put_back"
                      /\ moved(t, p, hand[t], ret[t]) /\ UNCHANGED <<stopped, signalled>>
      BY <1>1, <1>4, <2>1 DEF lookup, get_mailbox_for_pid, at, moved
    <2> QED
      BY <2>2, MovePutBack
  <1>5. ASSUME NEW t \in Tasks, Return(t) PROVE PutBackWaitsForRoom'
    <2>1. /\ moved(t, "user", NoMessage, "OK") /\ call' = [call EXCEPT ![t] = "none"]
          /\ UNCHANGED stopped /\ signalled' = signalled \ {t}
      BY <1>5 DEF Return, message_create_fails, send_return, receive_return, put_back_return,
                  manage_return, finish, unclaim_mailbox, at, moved
    <2> QED
      BY <2>1, MovePutBack
  <1>6. ASSUME NEW t \in Tasks, __send_message(t) PROVE PutBackWaitsForRoom'
    <2>1. PICK m \in Messages : mailbox_add_message(t, m, block[t], FALSE)
      BY <1>6 DEF __send_message
    <2>2. m # NoMessage /\ block[t] \in BOOLEAN
      BY DEF PlaceInv
    <2>3. Added(t, m, FALSE, block[t], IF FALSE THEN "readding" ELSE "adding")
      BY <2>1, <2>2, AddMoves
    <2>4. PICK p, k, r : moved(t, p, k, r) /\ UNCHANGED <<stopped, signalled>>
      BY <2>3 DEF Added
    <2>5. call' = [call EXCEPT ![t] = "sent"]
      BY <1>6 DEF __send_message, at
    <2> QED
      BY <2>4, <2>5, MovePutBack
  <1>7. ASSUME NEW t \in Tasks, __recieve_message(t) PROVE PutBackWaitsForRoom'
    <2>1. mailbox_remove_message(t, block[t]) /\ block[t] \in BOOLEAN
          /\ call' = [call EXCEPT ![t] = "copying"]
      BY <1>7 DEF __recieve_message, at, PlaceInv
    <2>2. PICK p, k, r : moved(t, p, k, r)
      BY <2>1, RemoveMoves DEF Removed
    <2>3. UNCHANGED <<stopped, signalled>>
      BY <2>1 DEF mailbox_remove_message
    <2> QED
      BY <2>1, <2>2, <2>3, MovePutBack
  <1>8. ASSUME NEW t \in Tasks, put_back(t) PROVE PutBackWaitsForRoom'
    <2>1. /\ mailbox_add_message(t, hand[t], TRUE, TRUE) /\ hand[t] # NoMessage
          /\ call' = [call EXCEPT ![t] = "put_back"]
      BY <1>8 DEF put_back, at, PlaceInv, Place
    <2>2. Added(t, hand[t], TRUE, TRUE, IF TRUE THEN "readding" ELSE "adding")
      BY <2>1, AddMoves
    <2> QED
      BY <2>1, <2>2, AddExcused
  <1>9. ASSUME NEW t \in Tasks, __manage_mailbox(t) PROVE PutBackWaitsForRoom'
    <2>1. /\ moved(t, "in", hand[t], "OK") /\ call' = [call EXCEPT ![t] = "stopped"]
          /\ stopped' # {} /\ UNCHANGED signalled
      BY <1>1, <1>9 DEF __manage_mailbox, mailbox_stop, __mailbox_stop, return, at, moved
    <2> QED
      BY <2>1, MovePutBack
  <1>10. ASSUME NEW t \in Tasks, Resume(t) PROVE PutBackWaitsForRoom'
    <2>1. call' = [call EXCEPT ![t] = call[t]]
      BY <1>1, <1>10 DEF Resume, locals
    <2>2. CASE add_message_resume(t)
      <3>1. Added(t, hand[t], pc[t] = "readding", TRUE, pc[t]) /\ pc[t] # "in"
        BY <2>2, ResumeMoves DEF add_message_resume
      <3>2. CASE call[t] = "put_back"
        BY <2>1, <3>1, <3>2, AddExcused
      <3>3. CASE call[t] # "put_back"
        <4>1. PICK p, k, r : moved(t, p, k, r) /\ UNCHANGED <<stopped, signalled>>
          BY <3>1 DEF Added
        <4> QED
          BY <2>1, <3>3, <4>1, MovePutBack
      <3> QED
        BY <3>2, <3>3
    <2>3. CASE remove_message_resume(t)
      <3>1. call[t] = "copying" /\ UNCHANGED <<stopped, signalled>>
        BY <2>3 DEF remove_message_resume, PlaceInv, Place
      <3>2. PICK p, k, r : moved(t, p, k, r)
        BY <2>3, RemoveMoves DEF Removed
      <3> QED
        BY <2>1, <3>1, <3>2, MovePutBack
    <2> QED
      BY <1>10, <2>2, <2>3 DEF Resume
  <1>11. ASSUME NEW t \in Owners, __new_sys_exit(t) \/ __new_sys_exit_group(t) \/ thread_exit(t)
         PROVE  PutBackWaitsForRoom'
    <2> t \in Tasks
      OBVIOUS
    <2>1. PICK p, c : /\ moved(t, p, hand[t], ret[t]) /\ call' = [call EXCEPT ![t] = c]
                      /\ c # "put_back" /\ UNCHANGED signalled
                      /\ stopped # {} => stopped' # {}
      BY <1>1, <1>11 DEF __new_sys_exit, __new_sys_exit_group, remove_if_linked,
                         remove_mailbox_for_pid, mailbox_exiting, __mailbox_stop, thread_exit,
                         do_exit, at, moved, vars
    <2> QED
      BY <2>1, MovePutBack
  <1>12. ASSUME NEW d \in Destroyers, Delete(d) PROVE PutBackWaitsForRoom'
    BY <1>2, <1>12 DEF Delete, flush_messages, mailbox_flush, deletion_thread_unlink, mailbox_destroy,
                       mailbox_exiting, __mailbox_stop, wait_until_mailbox_unclaimed, locals
  <1>13. ASSUME NEW t \in Tasks, signal(t), UNCHANGED locals PROVE PutBackWaitsForRoom'
    BY <1>2, <1>13 DEF signal, locals
  <1>14. CASE fatal_signal \/ UNCHANGED svars
    BY <1>2, <1>14 DEF fatal_signal, svars, vars, locals
  <1> QED
    BY <1>3, <1>4, <1>5, <1>6, <1>7, <1>8, <1>9, <1>10, <1>11, <1>12, <1>13, <1>14
    DEF SNext, Proceed

-----------------------------------------------------------------------------
(* Theorems *)

(* The invariant of Mailbox.tla is the system calls' own, together with    *)
(* the tasks' places and the Messages': each half needs the other.         *)
THEOREM SyscallInvariant == SyscallSpec => []SInv
  <1>1. SInit => SInv
    <2> SUFFICES ASSUME SInit PROVE SInv
      OBVIOUS
    <2>1. Init
      BY DEF SInit
    <2>2. Inv
      BY <2>1, InvInit
    <2>3. MessagesOwnedOnce /\ PutBackWaitsForRoom
      BY <2>1, MailboxAssumption DEF Init, MessagesOwnedOnce, PutBackWaitsForRoom
    <2> QED
      BY <2>2, <2>3, PlaceInit DEF SInv
  <1>2. SInv /\ [SNext]_svars => SInv'
    <2> SUFFICES ASSUME SInv, [SNext]_svars PROVE SInv'
      OBVIOUS
    <2>1. ListInv /\ PlaceInv /\ MessagesOwnedOnce /\ PutBackWaitsForRoom
      BY DEF SInv, Inv
    <2>2. [Next]_vars
      BY <2>1, CallsAreMailboxSteps
    <2> QED
      BY <2>1, <2>2, InvStep, PlaceStep, OwnedStep, PutBackStep DEF SInv
  <1> QED
    BY <1>1, <1>2, PTL DEF SyscallSpec

(* module.c calls mailbox.c only in ways Mailbox.tla allows, so that what  *)
(* is proved of that module's mailbox holds of the one behind the system   *)
(* calls.                                                                  *)
THEOREM ImplementsMailboxTheorem == SyscallSpec => ImplementsMailbox
  <1>1. SInit => Init
    BY DEF SInit
  <1>2. SInv /\ [SNext]_svars => [Next]_vars
    BY CallsAreMailboxSteps DEF SInv, Inv
  <1> QED
    BY <1>1, <1>2, SyscallInvariant, PTL DEF SyscallSpec, Spec, ImplementsMailbox

(* A task's place in module.c and its place in mailbox.c always agree. *)
THEOREM SyscallTypeTheorem == SyscallSpec => []STypeOK
  <1>1. SInv => STypeOK
    BY DEF SInv, PlaceInv, Place, STypeOK
  <1> QED
    BY <1>1, SyscallInvariant, PTL

(* No Message is ever used by two, on the list twice or freed in use,      *)
(* through failed copies, signals, stops and the flush.                    *)
THEOREM MessagesOwnedOnceTheorem == SyscallSpec => []MessagesOwnedOnce
  <1>1. SInv => MessagesOwnedOnce
    BY DEF SInv
  <1> QED
    BY <1>1, SyscallInvariant, PTL

(* A received Message that could not be copied is dropped only on a        *)
(* stopped mailbox or by a caller that has a signal pending.               *)
THEOREM PutBackTheorem == SyscallSpec => []PutBackWaitsForRoom
  <1>1. SInv => PutBackWaitsForRoom
    BY DEF SInv
  <1> QED
    BY <1>1, SyscallInvariant, PTL

-----------------------------------------------------------------------------
(* The order of messages. *)

(* Only one thread of the process receives. *)
SingleReceiver == \A t, u \in Owners : t = u

(* The history is about the Messages that are allocated ... *)
HistoryInv ==
  /\ OnList \subseteq arrived /\ arrived \subseteq slab
  /\ \A m, n : <<m, n>> \in earlier => m \in arrived /\ n \in arrived /\ m # n

(* ... a Message on its way in has not arrived, and one that was taken off *)
(* the list is not later than any that is still there.                     *)
InHand(t) ==
  hand[t] \in Messages =>
     IF call[t] = "sent" THEN hand[t] \notin arrived
     ELSE hand[t] \in arrived /\ \A m \in OnList : <<m, hand[t]>> \notin earlier

OrderInv == HistoryInv /\ FifoEvenIfErrors /\ \A t \in Tasks : InHand(t)

-----------------------------------------------------------------------------
(* What Record does, element by element. *)
LEMMA Recorded ==
  ASSUME Record
  PROVE  /\ \A m : m \in arrived' <=> (m \in arrived \/ m \in OnList') /\ m \in slab'
         /\ \A m, n : <<m, n>> \in earlier' <=>
               /\ <<m, n>> \in earlier \/ (m \in arrived /\ n \in OnList' /\ n \notin arrived)
               /\ m \in slab' /\ n \in slab'
  BY DEF Record

(* Nothing is added: the list is as it was or has been flushed, and a task *)
(* keeps what it had or has a Message to add.                              *)
LEMMA StillOrder ==
  ASSUME OrderInv, Record, messages' \in {messages, <<>>}, OnList' \subseteq slab',
         \A u \in Tasks : hand'[u] \in Messages =>
            \/ call'[u] = "sent" /\ hand'[u] \notin arrived
            \/ /\ call'[u] # "sent" /\ call[u] # "sent"
               /\ hand'[u] = hand[u] /\ hand[u] \in slab'
  PROVE  OrderInv'
  <1>1. OnList' \subseteq OnList /\ OnList' \subseteq arrived
    BY DEF OnList, OrderInv, HistoryInv
  <1>2. /\ \A m : m \in arrived' <=> m \in arrived /\ m \in slab'
        /\ \A m, n : <<m, n>> \in earlier' => <<m, n>> \in earlier /\ m \in slab' /\ n \in slab'
    BY <1>1, Recorded
  <1>3. HistoryInv'
    BY <1>1, <1>2 DEF OrderInv, HistoryInv
  <1>4. FifoEvenIfErrors'
    BY <1>2 DEF OrderInv, FifoEvenIfErrors
  <1>5. ASSUME NEW u \in Tasks PROVE InHand(u)'
    BY <1>1, <1>2 DEF OrderInv, InHand
  <1> QED
    BY <1>3, <1>4, <1>5 DEF OrderInv

(* The first Message goes to the caller, who is not sending. *)
LEMMA TakeOrder ==
  ASSUME ListInv, OrderInv, Record, NEW t \in Tasks, messages # <<>>, messages' = Tail(messages),
         hand' = [hand EXCEPT ![t] = Head(messages)], UNCHANGED slab,
         call'[t] # "sent", \A u \in Tasks \ {t} : call'[u] = call[u]
  PROVE  OrderInv'
  <1>1. /\ 1 \in DOMAIN messages /\ Head(messages) = messages[1] /\ messages[1] \in Messages
        /\ \A i \in DOMAIN messages' : /\ i \in Nat /\ i + 1 \in DOMAIN messages /\ ~(i + 1 < 1)
                                       /\ messages'[i] = messages[i + 1]
    BY DEF ListInv
  <1>2. OnList' \subseteq OnList /\ OnList' \subseteq arrived
    BY <1>1 DEF OnList, OrderInv, HistoryInv
  <1>3. /\ \A m : m \in arrived' <=> m \in arrived
        /\ \A m, n : <<m, n>> \in earlier' <=> <<m, n>> \in earlier
    BY <1>2, Recorded DEF OrderInv, HistoryInv
  <1>4. HistoryInv'
    BY <1>2, <1>3 DEF OrderInv, HistoryInv
  <1>5. FifoEvenIfErrors'
    <2> SUFFICES ASSUME NEW i \in DOMAIN messages', NEW j \in DOMAIN messages',
                        <<messages'[i], messages'[j]>> \in earlier'
                 PROVE  i < j
      BY DEF FifoEvenIfErrors
    <2>1. i + 1 < j + 1 /\ i \in Nat /\ j \in Nat
      BY <1>1, <1>3 DEF OrderInv, FifoEvenIfErrors
    <2> QED
      BY <2>1
  <1>6. \A m \in OnList' : <<m, messages[1]>> \notin earlier
    BY <1>1 DEF OnList, OrderInv, FifoEvenIfErrors
  <1>7. messages[1] \in arrived
    BY <1>1 DEF OnList, OrderInv, HistoryInv
  <1>8. ASSUME NEW u \in Tasks PROVE InHand(u)'
    <2>1. hand'[u] = IF u = t THEN messages[1] ELSE hand[u]
      BY <1>1 DEF ListInv
    <2> QED
      BY <1>2, <1>3, <1>6, <1>7, <2>1 DEF OrderInv, InHand
  <1> QED
    BY <1>4, <1>5, <1>8 DEF OrderInv

(* A Message that had not arrived is added at the tail. *)
LEMMA TailOrder ==
  ASSUME ListInv, MessagesOwnedOnce, OrderInv, Record, NEW t \in Tasks, NEW m \in Messages,
         m \notin arrived, \A u \in Tasks \ {t} : hand[u] # m,
         messages' = list_insert(m, FALSE), hand' = [hand EXCEPT ![t] = NoMessage],
         slab \subseteq slab', m \in slab', \A u \in Tasks \ {t} : call'[u] = call[u]
  PROVE  OrderInv'
  <1> DEFINE n == Len(messages)
  <1>1. /\ n \in Nat /\ DOMAIN messages = 1 .. n /\ DOMAIN messages' = 1 .. (n + 1)
        /\ messages'[n + 1] = m /\ \A i \in 1 .. n : messages'[i] = messages[i]
        /\ n + 1 \in 1 .. (n + 1)
        /\ \A i \in 1 .. (n + 1) : i = n + 1 \/ i \in 1 .. n
        /\ \A i \in 1 .. n : i \in 1 .. (n + 1) /\ i < n + 1
    BY DEF ListInv, list_insert
  <1> HIDE DEF n
  <1>2. OnList' = OnList \cup {m}
    BY <1>1 DEF OnList
  <1>3. /\ \A x : x \in arrived' <=> x \in arrived \/ x = m
        /\ \A x, y : <<x, y>> \in earlier' <=> <<x, y>> \in earlier \/ (x \in arrived /\ y = m)
    BY <1>2, Recorded DEF OrderInv, HistoryInv
  <1>4. HistoryInv'
    BY <1>2, <1>3 DEF OrderInv, HistoryInv
  <1>5. FifoEvenIfErrors'
    <2> SUFFICES ASSUME NEW i \in 1 .. (n + 1), NEW j \in 1 .. (n + 1),
                        <<messages'[i], messages'[j]>> \in earlier'
                 PROVE  i < j
      BY <1>1 DEF FifoEvenIfErrors
    <2>1. messages'[i] # m
      BY <1>3 DEF OrderInv, HistoryInv
    <2>2. i \in 1 .. n
      BY <1>1, <2>1
    <2>3. CASE j = n + 1
      BY <1>1, <2>2, <2>3
    <2>4. CASE j # n + 1
      <3>1. j \in 1 .. n
        BY <1>1, <2>4
      <3>2. messages'[i] = messages[i] /\ messages'[j] = messages[j]
        BY <1>1, <2>2, <3>1
      <3>3. messages[j] # m
        BY <1>1, <3>1 DEF OnList, OrderInv, HistoryInv
      <3> QED
        BY <1>1, <1>3, <2>2, <3>1, <3>2, <3>3 DEF OrderInv, FifoEvenIfErrors
    <2> QED
      BY <2>3, <2>4
  <1>6. ASSUME NEW u \in Tasks PROVE InHand(u)'
    <2>1. hand'[u] = IF u = t THEN NoMessage ELSE hand[u]
      BY DEF ListInv
    <2> QED
      BY <1>2, <1>3, <2>1, MailboxAssumption DEF OrderInv, HistoryInv, InHand
  <1> QED
    BY <1>4, <1>5, <1>6 DEF OrderInv

(* The only receiver puts its Message back at the head. *)
LEMMA HeadOrder ==
  ASSUME ListInv, OrderInv, Record, NEW t \in Tasks, hand[t] \in Messages, call[t] # "sent",
         messages' = list_insert(hand[t], TRUE), hand' = [hand EXCEPT ![t] = NoMessage],
         UNCHANGED slab, \A u \in Tasks \ {t} : call'[u] = call[u],
         \A u \in Tasks \ {t} : hand[u] \in Messages => call[u] = "sent"
  PROVE  OrderInv'
  <1> DEFINE n == Len(messages)
             m == hand[t]
  <1>1. /\ n \in Nat /\ DOMAIN messages = 1 .. n /\ DOMAIN messages' = 1 .. (n + 1)
        /\ messages'[1] = m
        /\ \A i \in 1 .. (n + 1) : i # 1 => i - 1 \in 1 .. n /\ messages'[i] = messages[i - 1]
    BY DEF ListInv, list_insert
  <1>2. m \in arrived /\ \A x \in OnList : <<x, m>> \notin earlier
    BY DEF OrderInv, InHand
  <1> HIDE DEF n, m
  <1>3. OnList' \subseteq OnList \cup {m} /\ OnList' \subseteq arrived
    <2>1. ASSUME NEW i \in DOMAIN messages' PROVE messages'[i] \in OnList \cup {m}
      BY <1>1 DEF OnList
    <2>2. OnList' \subseteq OnList \cup {m}
      BY <2>1 DEF OnList
    <2> QED
      BY <1>2, <2>2 DEF OrderInv, HistoryInv
  <1>4. /\ \A x : x \in arrived' <=> x \in arrived
        /\ \A x, y : <<x, y>> \in earlier' <=> <<x, y>> \in earlier
    BY <1>3, Recorded DEF OrderInv, HistoryInv
  <1>5. HistoryInv'
    BY <1>3, <1>4 DEF OrderInv, HistoryInv
  <1>6. FifoEvenIfErrors'
    <2> SUFFICES ASSUME NEW i \in 1 .. (n + 1), NEW j \in 1 .. (n + 1),
                        <<messages'[i], messages'[j]>> \in earlier
                 PROVE  i < j
      BY <1>1, <1>4 DEF FifoEvenIfErrors
    <2>1. messages'[i] \in OnList \cup {m}
      BY <1>1, <1>3 DEF OnList
    <2>2. j # 1
      BY <1>1, <1>2, <2>1 DEF OrderInv, HistoryInv
    <2>3. CASE i = 1
      BY <1>1, <2>2, <2>3
    <2>4. CASE i # 1
      <3>1. /\ i - 1 \in DOMAIN messages /\ j - 1 \in DOMAIN messages
            /\ messages'[i] = messages[i - 1] /\ messages'[j] = messages[j - 1]
        BY <1>1, <2>2, <2>4
      <3>2. i - 1 < j - 1
        BY <3>1 DEF OrderInv, FifoEvenIfErrors
      <3> QED
        BY <1>1, <3>2
    <2> QED
      BY <2>3, <2>4
  <1>7. ASSUME NEW u \in Tasks PROVE InHand(u)'
    <2>1. hand'[u] = IF u = t THEN NoMessage ELSE hand[u]
      BY DEF ListInv
    <2> QED
      BY <1>4, <2>1, MailboxAssumption DEF OrderInv, InHand
  <1> QED
    BY <1>5, <1>6, <1>7 DEF OrderInv

(* One of these happens in every step of the system calls. *)
LEMMA OrderStep ==
  ASSUME SingleReceiver, SInv, OrderInv, ONext
  PROVE  OrderInv'
  <1> USE MailboxAssumption
  <1>1. SNext /\ Record /\ ListInv /\ PlaceInv /\ MessagesOwnedOnce
    BY DEF ONext, SInv, Inv
  <1>2. OnList \subseteq slab /\ OnList \subseteq Messages
    BY <1>1 DEF OnList, MessagesOwnedOnce, ListInv
  <1>3. \A u \in Tasks : hand[u] \in Messages =>
           /\ hand[u] \in slab /\ hand[u] \notin OnList
           /\ call[u] = "sent" => hand[u] \notin arrived
    BY <1>1 DEF OnList, MessagesOwnedOnce, OrderInv, InHand
  (* The list and what the tasks hold are as they were. *)
  <1>4. ASSUME UNCHANGED <<messages, hand, call, slab>> PROVE OrderInv'
    BY <1>1, <1>2, <1>3, <1>4, StillOrder DEF OnList
  (* One task's call moves on with empty hands. *)
  <1>5. ASSUME NEW t \in Tasks, UNCHANGED messages, slab' \in {slab, slab \ {hand[t]}},
               hand' = [hand EXCEPT ![t] = NoMessage],
               \A u \in Tasks \ {t} : call'[u] = call[u]
        PROVE  OrderInv'
    <2>1. OnList' \subseteq slab' /\ messages' = messages
      <3>1. hand[t] \notin OnList
        BY <1>2, <1>3
      <3> QED
        BY <1>2, <1>5, <3>1 DEF OnList
    <2>2. ASSUME NEW u \in Tasks, hand'[u] \in Messages
          PROVE  \/ call'[u] = "sent" /\ hand'[u] \notin arrived
                 \/ /\ call'[u] # "sent" /\ call[u] # "sent"
                    /\ hand'[u] = hand[u] /\ hand[u] \in slab'
      <3>1. u # t /\ hand'[u] = hand[u] /\ call'[u] = call[u]
        BY <1>1, <1>5, <2>2 DEF ListInv
      <3>2. hand[u] # hand[t] /\ hand[u] \in slab
        BY <1>1, <2>2, <3>1 DEF MessagesOwnedOnce
      <3> QED
        BY <1>3, <1>5, <2>2, <3>1, <3>2
    <2> QED
      BY <1>1, <2>1, <2>2, StillOrder
  (* A task has, or keeps, a Message that has not arrived, or one it took. *)
  <1>6. ASSUME NEW t \in Tasks, NEW m, UNCHANGED messages, slab \subseteq slab',
               hand' = [hand EXCEPT ![t] = m], \A u \in Tasks \ {t} : call'[u] = call[u],
               m \in Messages => \/ call'[t] = "sent" /\ m \notin arrived
                                 \/ call'[t] # "sent" /\ call[t] # "sent" /\ m = hand[t]
        PROVE  OrderInv'
    <2>1. OnList' \subseteq slab' /\ messages' = messages
      BY <1>2, <1>6 DEF OnList
    <2>2. hand'[t] = m /\ \A u \in Tasks \ {t} : hand'[u] = hand[u]
      BY <1>1, <1>6 DEF ListInv
    <2> QED
      BY <1>1, <1>3, <1>6, <2>1, <2>2, StillOrder
  (* Adding, at the tail and at the head, and taking. *)
  <1>7. ASSUME NEW t \in Tasks, NEW m \in Messages, NEW b, NEW w, Added(t, m, FALSE, b, w),
               m \notin arrived, \A u \in Tasks \ {t} : hand[u] # m,
               slab \subseteq slab', m \in slab', call'[t] = "sent",
               \A u \in Tasks \ {t} : call'[u] = call[u]
        PROVE  OrderInv'
    <2>1. PICK k \in {m, NoMessage} :
            /\ hand' = [hand EXCEPT ![t] = k]
            /\ messages' = IF k = NoMessage THEN list_insert(m, FALSE) ELSE messages
      BY <1>7 DEF Added, moved
    <2>2. CASE k = NoMessage
      BY <1>1, <1>7, <2>1, <2>2, TailOrder
    <2>3. CASE k = m
      <3>1. UNCHANGED messages /\ hand' = [hand EXCEPT ![t] = m]
        BY <2>1, <2>3
      <3> QED
        BY <1>6, <1>7, <3>1
    <2> QED
      BY <2>2, <2>3
  <1>8. ASSUME NEW t \in Tasks, t \in Owners, hand[t] # NoMessage,
               NEW b, NEW w, Added(t, hand[t], TRUE, b, w), UNCHANGED slab,
               call[t] # "sent", call'[t] # "sent", \A u \in Tasks \ {t} : call'[u] = call[u]
        PROVE  OrderInv'
    <2>1. PICK k \in {hand[t], NoMessage} :
            /\ hand' = [hand EXCEPT ![t] = k]
            /\ messages' = IF k = NoMessage THEN list_insert(hand[t], TRUE) ELSE messages
            /\ k = NoMessage => stopped = {}
      BY <1>8 DEF Added, moved
    <2>2. CASE k = NoMessage
      <3>1. hand[t] \in Messages
        BY <1>1, <1>8, <2>1, <2>2, OwnedInHand
      <3>2. ASSUME NEW u \in Tasks \ {t}, hand[u] \in Messages PROVE call[u] = "sent"
        <4>1. u \notin Owners
          BY <1>8, <3>2 DEF SingleReceiver
        <4> QED
          BY <1>1, <3>2, <4>1 DEF PlaceInv, Place
      <3> QED
        BY <1>1, <1>8, <2>1, <2>2, <3>1, <3>2, HeadOrder
    <2>3. CASE k = hand[t]
      <3>1. UNCHANGED messages /\ hand' = [hand EXCEPT ![t] = hand[t]]
        BY <1>8, <2>1, <2>3
      <3> QED
        BY <1>6, <1>8, <3>1
    <2> QED
      BY <2>2, <2>3
  <1>9. ASSUME NEW t \in Tasks, Removed(t), UNCHANGED slab, call'[t] # "sent",
               \A u \in Tasks \ {t} : call'[u] = call[u]
        PROVE  OrderInv'
    <2>1. PICK k : /\ hand' = [hand EXCEPT ![t] = k]
                   /\ \/ k = NoMessage /\ UNCHANGED messages
                      \/ k = BogusMessage /\ messages = <<>> /\ messages' = <<>>
                      \/ messages # <<>> /\ k = Head(messages) /\ messages' = Tail(messages)
      BY <1>9 DEF Removed, moved
    <2>2. CASE k \in {NoMessage, BogusMessage} /\ UNCHANGED messages
      BY <1>6, <1>9, <2>1, <2>2
    <2>3. CASE messages # <<>> /\ k = Head(messages) /\ messages' = Tail(messages)
      BY <1>1, <1>9, <2>1, <2>3, TakeOrder
    <2> QED
      BY <2>1, <2>2, <2>3
  <1>10. ASSUME NEW t \in Tasks, enter(t) \/ lookup(t) \/ __manage_mailbox(t) PROVE OrderInv'
    <2>1. /\ UNCHANGED <<messages, slab>> /\ hand' = [hand EXCEPT ![t] = NoMessage]
          /\ \A u \in Tasks \ {t} : call'[u] = call[u]
      <3>1. hand[t] = NoMessage
        BY <1>1, <1>10 DEF enter, lookup, get_mailbox_for_pid, __manage_mailbox, PlaceInv, Place
      <3>2. UNCHANGED <<messages, hand, slab>> /\ \E c : call' = [call EXCEPT ![t] = c]
        BY <1>10 DEF enter, check_process, lookup, get_mailbox_for_pid, __manage_mailbox,
                     mailbox_stop, at, list
      <3> QED
        BY <1>1, <3>1, <3>2 DEF ListInv, PlaceInv
    <2> QED
      BY <1>5, <2>1
  <1>11. ASSUME NEW t \in Tasks, Return(t) PROVE OrderInv'
    <2>1. /\ UNCHANGED messages /\ slab' \in {slab, slab \ {hand[t]}}
          /\ hand' = [hand EXCEPT ![t] = NoMessage] /\ call' = [call EXCEPT ![t] = "none"]
      BY <1>11 DEF Return, message_create_fails, send_return, receive_return, put_back_return,
                   manage_return, message_destroy, finish, unclaim_mailbox, at, list
    <2> QED
      BY <1>1, <1>5, <2>1 DEF PlaceInv
  <1>12. ASSUME NEW t \in Tasks, __send_message(t) PROVE OrderInv'
    <2>1. PICK m \in Messages : m \notin slab /\ slab' = slab \cup {m}
                                /\ mailbox_add_message(t, m, block[t], FALSE)
      BY <1>12 DEF __send_message, message_create
    <2>2. m # NoMessage /\ block[t] \in BOOLEAN
      BY <1>1 DEF PlaceInv
    <2>3. Added(t, m, FALSE, block[t], IF FALSE THEN "readding" ELSE "adding")
      BY <1>1, <2>1, <2>2, AddMoves
    <2>4. m \notin arrived /\ \A u \in Tasks : hand[u] # m
      BY <1>1, <2>1 DEF OrderInv, HistoryInv, MessagesOwnedOnce
    <2>5. call'[t] = "sent" /\ \A u \in Tasks \ {t} : call'[u] = call[u]
      BY <1>1, <1>12 DEF __send_message, at, PlaceInv
    <2> QED
      BY <1>7, <2>1, <2>3, <2>4, <2>5
  <1>13. ASSUME NEW t \in Tasks, put_back(t) PROVE OrderInv'
    <2>1. /\ mailbox_add_message(t, hand[t], TRUE, TRUE) /\ hand[t] # NoMessage /\ UNCHANGED slab
          /\ t \in Owners /\ call[t] = "copying" /\ call' = [call EXCEPT ![t] = "put_back"]
      BY <1>1, <1>13 DEF put_back, at, PlaceInv, Place
    <2>2. Added(t, hand[t], TRUE, TRUE, IF TRUE THEN "readding" ELSE "adding")
      BY <1>1, <2>1, AddMoves
    <2>3. call'[t] = "put_back" /\ \A u \in Tasks \ {t} : call'[u] = call[u]
      BY <1>1, <2>1 DEF PlaceInv
    <2> QED
      BY <1>8, <2>1, <2>2, <2>3
  <1>14. ASSUME NEW t \in Tasks, __recieve_message(t) PROVE OrderInv'
    <2>1. /\ mailbox_remove_message(t, block[t]) /\ block[t] \in BOOLEAN /\ UNCHANGED slab
          /\ call'[t] = "copying" /\ \A u \in Tasks \ {t} : call'[u] = call[u]
      BY <1>1, <1>14 DEF __recieve_message, at, PlaceInv
    <2>2. Removed(t)
      BY <1>1, <2>1, RemoveMoves
    <2> QED
      BY <1>9, <2>1, <2>2
  <1>15. ASSUME NEW t \in Tasks, Resume(t) PROVE OrderInv'
    <2>1. UNCHANGED <<call, slab>>
      BY <1>15 DEF Resume, locals
    <2>2. CASE add_message_resume(t)
      <3>1. hand[t] \in Messages /\ pc[t] \in {"adding", "readding"}
        BY <1>1, <2>2 DEF add_message_resume, ListInv
      <3>2. Added(t, hand[t], pc[t] = "readding", TRUE, pc[t])
        BY <1>1, <2>2, ResumeMoves
      <3>3. CASE pc[t] = "adding"
        <4>1. Added(t, hand[t], FALSE, TRUE, pc[t])
          BY <3>2, <3>3
        <4>2. call[t] = "sent"
          BY <1>1, <3>3 DEF PlaceInv, Place
        <4>3. hand[t] \in slab /\ hand[t] \notin arrived /\ \A u \in Tasks \ {t} : hand[u] # hand[t]
          BY <1>1, <1>3, <3>1, <4>2 DEF MessagesOwnedOnce
        <4> QED
          BY <1>7, <2>1, <3>1, <4>1, <4>2, <4>3
      <3>4. CASE pc[t] = "readding"
        <4>1. Added(t, hand[t], TRUE, TRUE, pc[t])
          BY <3>2, <3>4
        <4>2. call[t] = "put_back" /\ t \in Owners /\ hand[t] # NoMessage
          BY <1>1, <3>1, <3>4 DEF PlaceInv, Place
        <4> QED
          BY <1>8, <2>1, <4>1, <4>2
      <3> QED
        BY <3>1, <3>3, <3>4
    <2>3. CASE remove_message_resume(t)
      <3>1. Removed(t) /\ call[t] = "copying"
        BY <1>1, <2>3, RemoveMoves DEF remove_message_resume, PlaceInv, Place
      <3> QED
        BY <1>9, <2>1, <3>1
    <2> QED
      BY <1>15, <2>2, <2>3 DEF Resume
  <1>16. ASSUME NEW t \in Owners, __new_sys_exit(t) \/ __new_sys_exit_group(t) \/ thread_exit(t)
         PROVE  OrderInv'
    <2> t \in Tasks
      OBVIOUS
    <2>1. hand[t] = NoMessage
      BY <1>1, <1>16 DEF __new_sys_exit, __new_sys_exit_group, thread_exit, PlaceInv, Place
    <2>2. UNCHANGED <<messages, hand, slab>> /\ \E c : call' = [call EXCEPT ![t] = c]
      BY <1>16 DEF __new_sys_exit, __new_sys_exit_group, remove_if_linked, remove_mailbox_for_pid,
                   thread_exit, do_exit, at, vars, list
    <2>3. hand' = [hand EXCEPT ![t] = NoMessage] /\ \A u \in Tasks \ {t} : call'[u] = call[u]
      BY <1>1, <2>1, <2>2 DEF ListInv, PlaceInv
    <2> QED
      BY <1>5, <2>2, <2>3
  <1>17. ASSUME NEW d \in Destroyers, flush_messages(d) PROVE OrderInv'
    <2>1. UNCHANGED <<hand, call>>
      BY <1>17 DEF flush_messages, mailbox_flush
    <2>2. CASE dpc'[d] = "flushed"
      <3>1. messages' = <<>> /\ slab' = slab \ OnList
        BY <1>1, <1>17, <2>2 DEF flush_messages, mailbox_flush, message_destroy, goto, ListInv, OnList
      <3>2. OnList' = {}
        BY <3>1 DEF OnList
      <3> QED
        BY <1>1, <1>3, <2>1, <3>1, <3>2, StillOrder
    <2>3. CASE dpc'[d] # "flushed"
      <3>1. UNCHANGED <<messages, slab>>
        BY <1>1, <1>17, <2>3 DEF flush_messages, mailbox_flush, message_destroy, goto, ListInv
      <3> QED
        BY <1>4, <2>1, <3>1
    <2> QED
      BY <2>2, <2>3
  <1>18. ASSUME NEW d \in Destroyers, Delete(d) PROVE OrderInv'
    BY <1>4, <1>17, <1>18 DEF Delete, deletion_thread_unlink, mailbox_destroy,
                              wait_until_mailbox_unclaimed, locals, list
  <1>19. ASSUME NEW t \in Tasks, signal(t), UNCHANGED locals PROVE OrderInv'
    BY <1>4, <1>19 DEF signal, locals, list
  <1>20. CASE fatal_signal
    BY <1>4, <1>20 DEF fatal_signal, vars, list
  <1> QED
    BY <1>1, <1>10, <1>11, <1>12, <1>13, <1>14, <1>15, <1>16, <1>18, <1>19, <1>20
    DEF SNext, Proceed

-----------------------------------------------------------------------------
(* A mailbox from which one thread receives is FIFO: through every failed  *)
(* copy, put-back, signal, stop and exit, the Messages on the list are in  *)
(* the order in which they were sent.                                      *)
THEOREM FifoTheorem ==
  ASSUME SingleReceiver
  PROVE  OSpec => []FifoEvenIfErrors
  <1>1. OInit => OrderInv
    BY MailboxAssumption DEF OInit, SInit, Init, OrderInv, HistoryInv, FifoEvenIfErrors, InHand, OnList
  <1>2. SInv /\ OrderInv /\ [ONext]_<<svars, history>> => OrderInv'
    <2>1. ASSUME OrderInv, UNCHANGED <<svars, history>> PROVE OrderInv'
      BY <2>1 DEF OrderInv, HistoryInv, FifoEvenIfErrors, InHand, OnList, svars, vars, locals, list, history
    <2> QED
      BY <2>1, SingleReceiver, OrderStep
  <1>3. OSpec => SyscallSpec
    <2>1. [ONext]_<<svars, history>> => [SNext]_svars
      BY DEF ONext
    <2> QED
      BY <2>1, PTL DEF OSpec, OInit, SyscallSpec
  <1>4. OrderInv => FifoEvenIfErrors
    BY DEF OrderInv
  <1> QED
    BY <1>1, <1>2, <1>3, <1>4, SyscallInvariant, PTL DEF OSpec
=============================================================================
