-------------------------------- MODULE Storm --------------------------------
(***************************************************************************)
(* The mailbox storms test6.c, test7.c and test8.c: a parent forks         *)
(* processes, each with several threads that send to processes drawn from  *)
(* the shared list of pids and receive what others sent to them, until     *)
(* their time is up.  test7 and test8 replace processes that end; test8    *)
(* adds a thread per process that stops the mailbox and wants to restart   *)
(* it.                                                                     *)
(*                                                                         *)
(* The list is PidSet.tla's, as a set, with its semaphore; the other       *)
(* semaphore (PLOCK) keeps printed lines apart.  A holder is a thread, and *)
(* a thread that vanishes with its process keeps what it holds.  Time is   *)
(* nondeterminism.  fork, pthread_create and shm_open do not fail here, a  *)
(* pid is not used again, and when one runs out the parent's time is up.   *)
(***************************************************************************)
EXTENDS UserLibrary, FiniteSets

CONSTANTS
  Workers,   \* the threads a process may have besides its main thread
  Crews,     \* the sets of workers each process may be given
  Programs,  \* the programs to run, of "test6", "test7" and "test8"
  MAX_PIDS,  \* room in the list
  max_processes,  \* processes the parent forks to begin with
  Kernels,   \* the kernels to run them on: FALSE is Message_LKM, TRUE one
             \* that returns its codes negated, as the library expects
  NoOne      \* holder of a free semaphore

Threads == {"main", "stopper"} \cup Workers
Tasks   == Processes \X Threads

ASSUME StormAssumption ==
  /\ IsFiniteSet(Processes)
  /\ NoOne \notin Processes /\ NoOne \notin Tasks
  /\ Workers \cap {"main", "stopper"} = {}
  /\ Crews \in [Processes -> SUBSET SUBSET Workers]
  /\ MAX_PIDS \in Nat
  /\ Kernels \subseteq BOOLEAN

VARIABLES
  program,   \* the program that runs
  negative,  \* the kernel it runs on
  list,      \* the pids in the shared list
  pc,        \* where each thread is
  dest,      \* the pid each thread is going to send to
  llock,     \* holder of the list's semaphore
  plock,     \* holder of the printing semaphore
  main,      \* where the parent is
  child,     \* the process it forked last
  reaped,    \* the processes it has waited for
  failed     \* what ended processes early: the thread, the code the kernel
             \* gave it and the process it sent to, NoOne for another call

svars == <<service, program, negative, list, pc, dest, llock, plock, main, child, reaped, failed>>
locks == <<llock, plock>>
parent == <<program, negative, main, child, reaped>>
rest  == <<parent, failed>>

at(t, where) == pc[t] = where /\ life[t[1]] = "running"
goto(t, where) == pc' = [pc EXCEPT ![t] = where]

StormInit ==
  /\ program \in Programs
  /\ negative \in Kernels
  /\ life = [p \in Processes |-> "unborn"]
  /\ ServiceInit
  /\ list = {}
  /\ pc = [t \in Tasks |-> "none"]
  /\ dest = [t \in Tasks |-> NoOne]
  /\ llock = NoOne
  /\ plock = NoOne
  /\ main = "fork"
  /\ child = NoOne
  /\ reaped = {}
  /\ failed = {}

-----------------------------------------------------------------------------
(* The loop all three programs have. *)

(* pidlist_get_random: take the semaphore, draw, give it back. *)
lock_list(t) ==
  /\ at(t, "loop")
  /\ llock = NoOne
  /\ llock' = t
  /\ goto(t, "choose")
  /\ UNCHANGED <<service, list, dest, plock, rest>>
choose(t) ==
  /\ at(t, "choose")
  /\ IF list = {} THEN dest' = [dest EXCEPT ![t] = NoOne]
     ELSE \E p \in list : dest' = [dest EXCEPT ![t] = p]
  /\ llock' = NoOne
  /\ goto(t, "send")
  /\ UNCHANGED <<service, list, plock, rest>>

(* FAILURE_EXIT, or exit(-1): the whole process ends where it stands. *)
failure_exit(t, code, to) ==
  /\ failed' = failed \cup {<<t, code, to>>}
  /\ exit_call(t[1])
  /\ UNCHANGED pc

(* A send; pid -1 is invalid.  A code the program does not tolerate ends   *)
(* the process.                                                            *)
send(t, tolerated) ==
  /\ at(t, "send")
  /\ \E code \in IF dest[t] = NoOne THEN {"MAILBOX_INVALID"} ELSE __send_message(dest[t]) :
        /\ IF dest[t] = NoOne THEN UNCHANGED <<box, memory>> ELSE deliver(dest[t], "m", code)
        /\ IF foltan_SendMsg(negative, code) \in tolerated
           THEN goto(t, "recv") /\ UNCHANGED <<life, failed>>
           ELSE failure_exit(t, code, dest[t])
  /\ dest' = [dest EXCEPT ![t] = NoOne]
  /\ UNCHANGED <<stopped, list, locks, parent>>

(* A receive, then once more round the loop or the end of the time. *)
recv(t, tolerated, next) ==
  /\ at(t, "recv")
  /\ \E code \in __recieve_message(t[1]) :
        /\ take(t[1], code)
        /\ IF foltan_RcvMsg(negative, code) \in tolerated
           THEN (goto(t, "loop") \/ goto(t, next)) /\ UNCHANGED <<life, failed>>
           ELSE failure_exit(t, code, NoOne)
  /\ UNCHANGED <<stopped, list, dest, locks, parent>>

(* PLOCK, printf, PUNLOCK. *)
lock_print(t) ==
  /\ at(t, "print")
  /\ plock = NoOne
  /\ plock' = t
  /\ goto(t, "printing")
  /\ UNCHANGED <<service, list, dest, llock, rest>>
unlock_print(t, next) ==
  /\ at(t, "printing")
  /\ plock' = NoOne
  /\ goto(t, next)
  /\ UNCHANGED <<service, list, dest, llock, rest>>

AnyReceive == {"OK", "MAILBOX_EMPTY", "MAILBOX_STOPPED"}

(* do_mailbox_test of each program: which codes of a send it tolerates. *)
test6_do_mailbox_test(t) ==
  \/ lock_list(t) \/ choose(t)
  \/ send(t, {"OK", "MAILBOX_FULL", "MAILBOX_INVALID"})
  \/ recv(t, AnyReceive, "done")
test7_do_mailbox_test(t) ==
  \/ lock_list(t) \/ choose(t)
  \/ send(t, {"OK", "MAILBOX_FULL", "MAILBOX_INVALID"})
  \/ recv(t, AnyReceive, "print")
  \/ lock_print(t)
test8_do_mailbox_test_fatal_stop(t) ==
  \/ lock_list(t) \/ choose(t)
  \/ send(t, {"OK", "MAILBOX_FULL", "MAILBOX_INVALID"})
  \/ recv(t, AnyReceive, "print")
  \/ lock_print(t)
test8_do_mailbox_test(t) ==
  \/ lock_list(t) \/ choose(t)
  \/ send(t, {"OK", "MAILBOX_FULL", "MAILBOX_STOPPED", "MAILBOX_INVALID"})
  \/ recv(t, AnyReceive, "print")
  \/ lock_print(t)

(* do_thread_processing: the loop, and the statistics under PLOCK (its two *)
(* PLOCK sections in a row are taken as one).                              *)
test7_do_thread_processing(t) == test7_do_mailbox_test(t) \/ unlock_print(t, "done")
test8_do_thread_processing(t) == test8_do_mailbox_test(t) \/ unlock_print(t, "done")

(* do_stopper_processing: stop, drain_queue, restart, for as long as the   *)
(* time lasts.  draining another message is a step of its own.             *)
drain_queue_until_empty(t) ==
  /\ at(t, "drain")
  /\ \E code \in __recieve_message(t[1]) :
        /\ take(t[1], code)
        /\ goto(t, IF foltan_RcvMsg(negative, code) = "MAILBOX_EMPTY" THEN "restart" ELSE "drain")
  /\ UNCHANGED <<life, stopped, list, dest, locks, rest>>
drain_queue(t) ==
  /\ at(t, "drain")
  /\ \E code \in __recieve_message(t[1]) :
        LET rc == foltan_RcvMsg(negative, code)
        IN  /\ take(t[1], code)
            /\ IF rc \in {"OK", "MAILBOX_EMPTY", "MAILBOX_STOPPED"}
               THEN goto(t, IF rc = "OK" THEN "drain" ELSE "restart") /\ UNCHANGED <<life, failed>>
               ELSE failure_exit(t, code, NoOne)
  /\ UNCHANGED <<stopped, list, dest, locks, parent>>
stopper_manages(t, stop, next) ==
  \E code \in __manage_mailbox(t[1]) :
     /\ manage(t[1], stop, code)
     /\ IF foltan_ManageMailbox(negative, code) = "OK"
        THEN (\E where \in next : goto(t, where)) /\ UNCHANGED <<life, failed>>
        ELSE failure_exit(t, code, NoOne)
     /\ UNCHANGED <<box, list, dest, locks, parent>>
test8_do_stopper_processing(t) ==
  \/ at(t, "stop") /\ stopper_manages(t, TRUE, {"drain"})
  \/ drain_queue(t)
  \/ at(t, "restart") /\ stopper_manages(t, FALSE, {"stop", "print"})
  \/ lock_print(t)
  \/ unlock_print(t, "done")

-----------------------------------------------------------------------------
(* The end of a child's main thread: pidlist_remove_pid(getpid()), inside  *)
(* PLOCK in test7 and test8, and exit(0).                                  *)
lock_to_remove(t) ==
  /\ llock = NoOne
  /\ llock' = t
  /\ goto(t, "removing")
  /\ UNCHANGED <<service, list, dest, plock, rest>>
remove_and_exit_keeps_lock(t) ==
  /\ at(t, "removing")
  /\ list' = list \ {t[1]}
  /\ goto(t, "exited")
  /\ exit_call(t[1])
  /\ UNCHANGED <<box, stopped, memory, dest, locks, rest>>
remove_and_exit(t) ==
  /\ at(t, "removing")
  /\ list' = list \ {t[1]}
  /\ llock' = NoOne
  /\ plock' = IF plock = t THEN NoOne ELSE plock
  /\ goto(t, "exited")
  /\ exit_call(t[1])
  /\ UNCHANGED <<box, stopped, memory, dest, rest>>

(* pthread_join of every thread the main one started. *)
joined(p) == \A w \in Workers \cup {"stopper"} : pc[<<p, w>>] \in {"none", "done"}
leave_with_plock(t) ==
  \/ /\ at(t, "done") /\ joined(t[1])
     /\ plock = NoOne
     /\ plock' = t
     /\ goto(t, "remove")
     /\ UNCHANGED <<service, list, dest, llock, rest>>
  \/ at(t, "remove") /\ lock_to_remove(t)
  \/ remove_and_exit(t)

(* fork: the child begins with its main thread; the parent goes on to add  *)
(* it to the list.                                                         *)
fork(p, first) ==
  /\ main = "fork"
  /\ life[p] = "unborn"
  /\ life' = [life EXCEPT ![p] = "running"]
  /\ goto(<<p, "main">>, first)
  /\ child' = p
  /\ main' = "add"
  /\ UNCHANGED <<box, stopped, memory, program, negative, list, dest, locks, reaped, failed>>

(* "Starting Process" under PLOCK, then the threads. *)
start(t, crew, places) ==
  /\ at(t, "start")
  /\ plock = NoOne
  /\ pc' = [u \in Tasks |-> IF u[1] = t[1] /\ u[2] \in {"main"} \cup crew
                            THEN places[u[2]] ELSE pc[u]]
  /\ UNCHANGED <<service, list, dest, locks, rest>>
Working == [x \in Threads |-> IF x = "stopper" THEN "stop" ELSE "loop"]

(* pidlist_add_pid, with llock taken and given back in one step; that the  *)
(* list is full is only reported.                                          *)
add_child(p) ==
  /\ main = "add" /\ child = p
  /\ llock = NoOne
  /\ list' = IF Cardinality(list) < MAX_PIDS THEN list \cup {p} ELSE list
  /\ child' = NoOne
  /\ main' = "added"
  /\ UNCHANGED <<service, program, negative, pc, dest, locks, reaped, failed>>

(* new_process of each program.  With no threads at all the child of test7 *)
(* and test8 goes straight to its end.                                     *)
test6_new_process(p) ==
  \/ fork(p, "loop") \/ add_child(p)
  \/ LET t == <<p, "main">> IN
        (at(t, "done") /\ lock_to_remove(t)) \/ remove_and_exit(t)
test7_new_process(p) ==
  \/ Crews[p] # {{}} /\ fork(p, "start")
  \/ {} \in Crews[p] /\ fork(p, "done")
  \/ add_child(p)
  \/ \E crew \in Crews[p] \ {{}} : start(<<p, "main">>, crew, Working)
  \/ leave_with_plock(<<p, "main">>)
test8_new_process(p) ==
  \/ Crews[p] # {{}} /\ fork(p, "start")
  \/ {} \in Crews[p] /\ fork(p, "done")
  \/ add_child(p)
  \/ \E crew \in Crews[p] \ {{}} : start(<<p, "main">>, crew \cup {"stopper"}, Working)
  \/ leave_with_plock(<<p, "main">>)

-----------------------------------------------------------------------------
(* The parent. *)

Forked == {p \in Processes : life[p] # "unborn"}
to(where) == main' = where /\ UNCHANGED <<service, program, negative, list, pc, dest, locks, child, failed>>

(* The loop that forks the first max_processes. *)
fork_all ==
  /\ main = "added"
  /\ to(IF Cardinality(Forked) < max_processes THEN "fork" ELSE "wait")
  /\ UNCHANGED reaped
(* wait(NULL): a child that has ended, or ECHILD when there is none. *)
wait(next) ==
  /\ main = "wait"
  /\ to(next)
  /\ \/ \E p \in Processes : life[p] = "dead" /\ p \notin reaped /\ reaped' = reaped \cup {p}
     \/ Forked = reaped /\ UNCHANGED reaped
(* Wait until nobody is left. *)
wait_for_all ==
  \/ main = "wait" /\ Forked # reaped /\ wait("wait")
  \/ main = "wait" /\ Forked = reaped /\ wait("done")

(* test6 forks and waits for everybody. *)
test6_main == fork_all \/ wait_for_all
(* test7, test8: while time is left each process that ends is replaced. *)
Test7 ==
  \/ fork_all
  \/ Forked # Processes /\ wait("fork")
  \/ wait_for_all
Test8 ==
  \/ fork_all
  \/ Forked # Processes /\ wait("fork")
  \/ wait_for_all

(* The kernel finishes an exit. *)
process_exits(p) == exited(p) /\ UNCHANGED <<list, pc, dest, locks, rest>>
-----------------------------------------------------------------------------
(* The program that runs. *)
Thread(t) ==
  \/ program = "test6" /\ t[2] = "main" /\ test6_do_mailbox_test(t)
  \/ program = "test7" /\ t[2] # "stopper" /\ test7_do_thread_processing(t)
  \/ program = "test8" /\ t[2] # "stopper" /\ test8_do_thread_processing(t)
  \/ program = "test8" /\ t[2] = "stopper" /\ test8_do_stopper_processing(t)
new_process(p) ==
  \/ program = "test6" /\ test6_new_process(p)
  \/ program = "test7" /\ test7_new_process(p)
  \/ program = "test8" /\ test8_new_process(p)
Parent ==
  \/ program = "test6" /\ test6_main
  \/ program = "test7" /\ Test7
  \/ program = "test8" /\ Test8

StormNext ==
  \/ Parent
  \/ \E p \in Processes : new_process(p) \/ process_exits(p)
  \/ \E t \in Tasks : Thread(t)
  \/ main = "done" /\ UNCHANGED svars
StormSpec == StormInit /\ [][StormNext]_svars

(* Somebody who can run does, and time passes: the loops that are still    *)
(* going round do not all do so for ever.  A thread's loop ends once, so   *)
(* nothing is needed for each thread apart.                                *)
TimesUp(t) ==
  /\ pc[t] \in {"recv", "restart"}
  /\ Thread(t)
  /\ pc'[t] \in {"done", "print"}
StormFairSpec ==
  /\ StormSpec
  /\ WF_svars(StormNext)
  /\ SF_svars(\E t \in Tasks : TimesUp(t))

-----------------------------------------------------------------------------
(* Properties *)

(* The types. *)
Codes == {"OK", "MAILBOX_FULL", "MAILBOX_EMPTY", "MAILBOX_STOPPED", "MAILBOX_INVALID", "MAILBOX_ERROR"}
StormTypeOK ==
  /\ program \in Programs /\ negative \in Kernels
  /\ life \in [Processes -> {"unborn", "running", "exiting", "dead"}]
  /\ \A p \in Processes : box[p] \in Seq({"m"}) /\ Len(box[p]) <= Capacity
  /\ stopped \subseteq Processes /\ made \subseteq Processes
  /\ failures \in 0..MaxFailures
  /\ list \subseteq Processes /\ Cardinality(list) <= MAX_PIDS
  /\ dest \in [Tasks -> Processes \cup {NoOne}]
  /\ llock \in Tasks \cup {NoOne} /\ plock \in Tasks \cup {NoOne}
  /\ child \in Processes \cup {NoOne}
  /\ reaped \subseteq Processes
  /\ failed \subseteq Tasks \X Codes \X (Processes \cup {NoOne})

(* What a program takes for an error it does meet only so: the kernel had  *)
(* no memory; or test6 or test7, which do not expect MAILBOX_STOPPED, has  *)
(* sent to a process that is on its way out.  Over Message_LKM no code is  *)
(* ever noticed.                                                           *)
NoUnexpectedCode ==
  \A f \in failed :
     LET code == f[2] IN
        /\ negative
        /\ \/ code = "MAILBOX_ERROR" /\ failures > 0
           \/ /\ code = "MAILBOX_STOPPED" /\ program # "test8"
              /\ f[3] # NoOne /\ life[f[3]] \in {"exiting", "dead"}

(* A semaphore shared between processes is not held by a thread whose      *)
(* process is on its way out, as nobody would ever release it; only a      *)
(* process that ends at an unexpected code takes one along.                *)
HoldersLive ==
  \A t \in {llock, plock} \ {NoOne} :
     life[t[1]] = "running" \/ \E f \in failed : f[1][1] = t[1]

(* The parent gets to its closing line, unless a child ends at an          *)
(* unexpected code, or test8 over Message_LKM has a stopper: drain_queue   *)
(* takes every code for one more message, for ever.                        *)
DrainsForEver ==
  /\ program = "test8" /\ ~negative
  /\ \E p \in Processes : at(<<p, "stopper">>, "drain")
StormEnds == <>(main = "done" \/ failed # {}) \/ <>[]DrainsForEver

(* The parent gets to its closing line, or a child says what it has met:   *)
(* drain_queue reads "until the mailbox responds either MAILBOX_EMPTY, or  *)
(* MAILBOX_STOPPED" (test_utils.c 286).                                    *)
DrainingEnds == <>(main = "done" \/ failed # {})

(* When the parent is done with a child, the list holds processes that     *)
(* are still there.                                                        *)
ListedAreActive == main # "add" => \A p \in list : p \notin reaped

(* When the stopper is through with its cycle the mailbox is open again. *)
RestartWorks ==
  \A p \in Processes : pc[<<p, "stopper">>] \in {"print", "done"} => p \notin stopped
=============================================================================
