----------------------------- MODULE StormProofs -----------------------------
(***************************************************************************)
(* Proofs about Storm.tla for any number of processes, worker threads and  *)
(* mailbox slots: the processes keep out of each other's way in the two    *)
(* semaphores, and the codes that end them are accounted for.              *)
(***************************************************************************)
EXTENDS Storm, FiniteSetTheorems, TLAPS

Places == {"none", "start", "loop", "choose", "send", "recv", "print", "printing", "done",
           "stop", "drain", "restart", "remove", "removing", "exited"}

(* StormTypeOK says of box and pc only what is worth saying; they are      *)
(* functions, too.                                                         *)
FuncInv ==
  /\ box \in [Processes -> Seq({"m"})]
  /\ pc \in [Tasks -> Places]

(* Who holds a semaphore is in the section it guards. *)
LockInv ==
  /\ llock # NoOne => pc[llock] \in {"choose", "removing"}
  /\ plock # NoOne => pc[plock] \in {"printing", "remove", "removing"}

(* Before its main thread starts them, and once it has joined them, the    *)
(* other threads of a process do nothing; in test6 they never do.          *)
JoinInv ==
  \A p \in Processes :
     /\ life[p] = "unborn" => pc[<<p, "main">>] = "none"
     /\ \/ program = "test6"
        \/ pc[<<p, "main">>] \in {"none", "start", "remove", "removing", "exited"}
        => joined(p)

(* Only test8 stops mailboxes. *)
StopInv == program # "test8" => stopped = {}

StormInv ==
  /\ StormTypeOK /\ FuncInv /\ LockInv /\ JoinInv /\ StopInv
  /\ NoUnexpectedCode /\ HoldersLive

-----------------------------------------------------------------------------
(* Codes and mailboxes. *)

(* A task is a process and a thread. *)
LEMMA TaskPairs ==
  /\ \A t \in Tasks : t[1] \in Processes /\ t[2] \in Threads /\ t = <<t[1], t[2]>> /\ t # NoOne
  /\ \A p \in Processes, x \in Threads : <<p, x>> \in Tasks
  /\ \A w \in Workers \cup {"stopper"} : w \in Threads /\ w # "main"
  /\ "main" \in Threads /\ "stopper" \in Threads
  BY StormAssumption DEF Tasks, Threads

(* The library of these programs gives the kernel's code, or hides it. *)
LEMMA LibraryCodes ==
  ASSUME StormTypeOK, NEW code
  PROVE  /\ foltan_SendMsg(negative, code) = IF negative THEN code ELSE "OK"
         /\ foltan_RcvMsg(negative, code) = IF negative THEN code ELSE "OK"
         /\ foltan_ManageMailbox(negative, code) = IF negative THEN code ELSE "OK"
  <1>1. CASE code = "OK" \/ ~negative
    BY <1>1 DEF foltan_SendMsg, foltan_RcvMsg, foltan_ManageMailbox, FromErrno, syscall
  <1>2. CASE code # "OK" /\ negative
    BY <1>2 DEF foltan_SendMsg, foltan_RcvMsg, foltan_ManageMailbox, FromErrno, syscall
  <1> QED
    BY <1>1, <1>2

(* What a send may return, and when. *)
LEMMA SendCodes ==
  ASSUME StormTypeOK, FuncInv, NEW p \in Processes, NEW code \in __send_message(p)
  PROVE  /\ code \in {"OK", "MAILBOX_FULL", "MAILBOX_STOPPED", "MAILBOX_INVALID", "MAILBOX_ERROR"}
         /\ code = "MAILBOX_ERROR" => failures < MaxFailures
         /\ code = "MAILBOX_STOPPED" => life[p] = "exiting" \/ p \in stopped
         /\ code = "OK" /\ life[p] = "running" => ~(Len(box[p]) >= Capacity)
  <1>1. CASE life[p] = "running" /\ p \in stopped
    BY <1>1 DEF __send_message, NoMemory
  <1>2. CASE life[p] = "running" /\ p \notin stopped
    BY <1>2 DEF __send_message, NoMemory
  <1>3. CASE life[p] = "exiting"
    BY <1>3 DEF __send_message, NoMemory
  <1>4. CASE life[p] \in {"unborn", "dead"}
    BY <1>4 DEF __send_message
  <1> QED
    BY <1>1, <1>2, <1>3, <1>4 DEF StormTypeOK

(* Mailboxes hold messages, no more than fit. *)
BoxOK(b) == b \in [Processes -> Seq({"m"})] /\ \A p \in Processes : Len(b[p]) <= Capacity

(* A send that was accepted found room, a receive that was answered found  *)
(* a message.                                                              *)
LEMMA BoxSteps ==
  ASSUME StormTypeOK, FuncInv, NEW p \in Processes
  PROVE  /\ \A code \in __send_message(p) : deliver(p, "m", code) => BoxOK(box')
         /\ \A code : (code = "OK" => box[p] # <<>>) /\ take(p, code) => BoxOK(box')
         /\ UNCHANGED box => BoxOK(box')
         /\ exited(p) => BoxOK(box')
  <1>1. BoxOK(box)
    BY DEF StormTypeOK, FuncInv, BoxOK
  <1>2. ASSUME NEW s \in Seq({"m"}), Len(s) <= Capacity, box' = [box EXCEPT ![p] = s]
        PROVE  BoxOK(box')
    BY <1>1, <1>2 DEF BoxOK
  <1>3. ASSUME NEW code \in __send_message(p), deliver(p, "m", code) PROVE BoxOK(box')
    <2>1. CASE code = "OK" /\ life[p] = "running"
      <3>1. ~(Len(box[p]) >= Capacity)
        BY <2>1, SendCodes
      <3>2. Append(box[p], "m") \in Seq({"m"}) /\ Len(Append(box[p], "m")) <= Capacity
        BY <1>1, <3>1, ServiceAssumption DEF BoxOK
      <3>3. box' = [box EXCEPT ![p] = Append(box[p], "m")]
        BY <1>3, <2>1 DEF deliver
      <3> QED
        BY <1>2, <3>2, <3>3
    <2>2. CASE ~(code = "OK" /\ life[p] = "running")
      BY <1>1, <1>3, <2>2 DEF deliver
    <2> QED
      BY <2>1, <2>2
  <1>4. ASSUME NEW code, code = "OK" => box[p] # <<>>, take(p, code) PROVE BoxOK(box')
    <2>1. CASE code = "OK"
      <3>1. Tail(box[p]) \in Seq({"m"}) /\ Len(Tail(box[p])) <= Capacity
        BY <1>1, <1>4, <2>1, ServiceAssumption DEF BoxOK
      <3>2. box' = [box EXCEPT ![p] = Tail(box[p])]
        BY <1>4, <2>1 DEF take
      <3> QED
        BY <1>2, <3>1, <3>2
    <2>2. CASE code # "OK"
      BY <1>1, <1>4, <2>2 DEF take
    <2> QED
      BY <2>1, <2>2
  <1>5. ASSUME exited(p) PROVE BoxOK(box')
    <2>1. box' = [box EXCEPT ![p] = <<>>] /\ <<>> \in Seq({"m"}) /\ Len(<<>>) <= Capacity
      BY <1>5, ServiceAssumption DEF exited
    <2> QED
      BY <1>2, <2>1
  <1> QED
    BY <1>1, <1>3, <1>4, <1>5

(* What a receive by a running process returns. *)
LEMMA ReceiveCodes ==
  ASSUME NEW p \in Processes, life[p] = "running"
  PROVE  \A code \in __recieve_message(p) :
           /\ code \in {"OK", "MAILBOX_EMPTY", "MAILBOX_STOPPED", "MAILBOX_ERROR"}
           /\ code = "OK" => box[p] # <<>>
           /\ code = "MAILBOX_ERROR" => failures < MaxFailures
  BY DEF __recieve_message, NoMemory

(* And its control call. *)
LEMMA ManageCodes ==
  ASSUME NEW p \in Processes, life[p] = "running"
  PROVE  \A code \in __manage_mailbox(p) :
           /\ code \in {"OK", "MAILBOX_ERROR"}
           /\ code = "MAILBOX_ERROR" => failures < MaxFailures
  BY DEF __manage_mailbox, NoMemory

(* Mailboxes are made, and allocations fail, no more often than they may. *)
MemoryOK == made' \subseteq Processes /\ failures' \in 0..MaxFailures /\ failures' >= failures

(* A call's lookup: a failure is counted. *)
LEMMA MemorySteps ==
  ASSUME StormTypeOK, NEW p \in Processes, NEW code, code = "MAILBOX_ERROR" => failures < MaxFailures
  PROVE  /\ get_mailbox_for_pid(p, code) \/ deliver(p, "m", code) \/ take(p, code)
               => MemoryOK /\ (code = "MAILBOX_ERROR" => failures' > 0)
         /\ UNCHANGED memory => MemoryOK
         /\ exited(p) => MemoryOK
  <1>1. made \subseteq Processes /\ failures \in 0..MaxFailures /\ MaxFailures \in Nat
    BY ServiceAssumption DEF StormTypeOK
  <1>2. ASSUME get_mailbox_for_pid(p, code) PROVE MemoryOK /\ (code = "MAILBOX_ERROR" => failures' > 0)
    BY <1>1, <1>2 DEF get_mailbox_for_pid, MemoryOK
  <1>3. ASSUME deliver(p, "m", code) PROVE MemoryOK /\ (code = "MAILBOX_ERROR" => failures' > 0)
    BY <1>1, <1>2, <1>3 DEF deliver, MemoryOK
  <1> QED
    BY <1>1, <1>2, <1>3 DEF take, exited, memory, MemoryOK

-----------------------------------------------------------------------------
(* What the steps come to. *)

(* The places of the loops. *)
Busy == {"loop", "choose", "send", "recv", "print", "printing", "stop", "drain", "restart"}

(* A thread of a running process goes on, taking and giving back           *)
(* semaphores ...                                                          *)
Walks(t) ==
  \E x \in Busy \cup {"done"} :
     /\ pc[t] \in Busy /\ pc' = [pc EXCEPT ![t] = x]
     /\ UNCHANGED <<life, failed>>
     /\ \/ x = "choose" /\ llock = NoOne /\ llock' = t
        \/ pc[t] = "choose" /\ x # "choose" /\ llock' = NoOne
        \/ pc[t] # "choose" /\ x # "choose" /\ llock' = llock
     /\ \/ x = "printing" /\ plock = NoOne /\ plock' = t
        \/ pc[t] = "printing" /\ x # "printing" /\ plock' = NoOne
        \/ pc[t] # "printing" /\ x # "printing" /\ plock' = plock

(* ... or takes its process down, because the kernel had no memory or a    *)
(* send was refused by a mailbox whose owner exits.                        *)
Surprise(code, q) ==
  /\ negative
  /\ \/ code = "MAILBOX_ERROR" /\ failures' > 0
     \/ code = "MAILBOX_STOPPED" /\ program # "test8" /\ q # NoOne /\ life[q] = "exiting"
Fails(t) ==
  /\ \E code \in Codes, q \in Processes \cup {NoOne} :
        failed' = failed \cup {<<t, code, q>>} /\ Surprise(code, q)
  /\ life' = [life EXCEPT ![t[1]] = "exiting"]
  /\ UNCHANGED <<pc, llock, plock>>

ThreadStep(t) ==
  /\ life[t[1]] = "running"
  /\ Walks(t) \/ Fails(t)
  /\ BoxOK(box') /\ MemoryOK
  /\ dest' \in [Tasks -> Processes \cup {NoOne}]
  /\ stopped' \subseteq stopped \cup Processes /\ (program # "test8" => stopped' = stopped)
  /\ UNCHANGED <<program, negative, list, main, child, reaped>>

(* Drawing a pid. *)
LEMMA DrawStep ==
  ASSUME StormTypeOK, FuncInv, NEW t \in Tasks, lock_list(t) \/ choose(t)
  PROVE  ThreadStep(t)
  <1>1. BoxOK(box') /\ MemoryOK
    BY BoxSteps, TaskPairs, ServiceAssumption DEF lock_list, choose, service, MemoryOK, StormTypeOK
  <1>2. CASE lock_list(t)
    BY <1>1, <1>2 DEF lock_list, at, goto, ThreadStep, Walks, Busy, StormTypeOK, FuncInv, service, rest, parent
  <1>3. CASE choose(t)
    <2>1. dest' \in [Tasks -> Processes \cup {NoOne}]
      BY <1>3 DEF choose, StormTypeOK
    <2> QED
      BY <1>1, <1>3, <2>1 DEF choose, at, goto, ThreadStep, Walks, Busy, StormTypeOK, FuncInv, service, rest, parent
  <1> QED
    BY <1>2, <1>3

(* Sending: only MAILBOX_STOPPED and a lack of memory may be more than the *)
(* program expects.                                                        *)
LEMMA SendStep ==
  ASSUME StormTypeOK, FuncInv, StopInv, NEW t \in Tasks, NEW tolerated,
         {"OK", "MAILBOX_FULL", "MAILBOX_INVALID"} \subseteq tolerated,
         program = "test8" => "MAILBOX_STOPPED" \in tolerated,
         send(t, tolerated)
  PROVE  ThreadStep(t)
  <1>1. PICK code \in IF dest[t] = NoOne THEN {"MAILBOX_INVALID"} ELSE __send_message(dest[t]) :
          /\ IF dest[t] = NoOne THEN UNCHANGED <<box, memory>> ELSE deliver(dest[t], "m", code)
          /\ IF foltan_SendMsg(negative, code) \in tolerated
             THEN goto(t, "recv") /\ UNCHANGED <<life, failed>>
             ELSE failure_exit(t, code, dest[t])
    BY DEF send
  <1>2. /\ at(t, "send") /\ dest' \in [Tasks -> Processes \cup {NoOne}]
        /\ UNCHANGED <<stopped, list, llock, plock, program, negative, main, child, reaped>>
        /\ dest[t] \in Processes \cup {NoOne}
        /\ t[1] \in Processes
    BY TaskPairs DEF send, StormTypeOK, locks, parent
  <1>3. BoxOK(box')
    BY <1>1, <1>2, BoxSteps
  <1>4. /\ code \in {"OK", "MAILBOX_FULL", "MAILBOX_STOPPED", "MAILBOX_INVALID", "MAILBOX_ERROR"}
        /\ code = "MAILBOX_ERROR" => dest[t] # NoOne /\ failures < MaxFailures
    BY <1>1, <1>2, SendCodes
  <1>5. MemoryOK /\ (code = "MAILBOX_ERROR" => failures' > 0)
    <2>1. CASE dest[t] = NoOne
      <3>1. UNCHANGED memory
        BY <1>1, <2>1
      <3> QED
        BY <1>2, <1>4, <2>1, <3>1, MemorySteps
    <2>2. CASE dest[t] # NoOne
      BY <1>1, <1>2, <1>4, <2>2, MemorySteps
    <2> QED
      BY <2>1, <2>2
  <1>6. CASE foltan_SendMsg(negative, code) \in tolerated
    <2>1. Walks(t)
      BY <1>1, <1>2, <1>6 DEF at, goto, Walks, Busy
    <2> QED
      BY <1>2, <1>3, <1>5, <2>1 DEF at, ThreadStep
  <1>7. CASE foltan_SendMsg(negative, code) \notin tolerated
    <2>1. negative /\ (code = "MAILBOX_ERROR" \/ (code = "MAILBOX_STOPPED" /\ program # "test8"))
      BY <1>4, <1>7, LibraryCodes
    <2>2. code = "MAILBOX_STOPPED" => dest[t] # NoOne /\ life[dest[t]] = "exiting"
      BY <1>1, <1>2, <2>1, SendCodes DEF StopInv
    <2>3. Surprise(code, dest[t])
      BY <1>5, <2>1, <2>2 DEF Surprise
    <2>4. /\ failed' = failed \cup {<<t, code, dest[t]>>} /\ UNCHANGED pc
          /\ life' = [life EXCEPT ![t[1]] = "exiting"]
      BY <1>1, <1>7 DEF failure_exit, exit_call
    <2>5. Fails(t)
      <3>1. code \in Codes
        BY <1>4 DEF Codes
      <3>2. \E c \in Codes, q \in Processes \cup {NoOne} :
              failed' = failed \cup {<<t, c, q>>} /\ Surprise(c, q)
        BY <1>2, <2>3, <2>4, <3>1, Zenon
      <3> QED
        BY <1>2, <2>4, <3>2 DEF Fails
    <2> QED
      BY <1>2, <1>3, <1>5, <2>5 DEF at, ThreadStep
  <1> QED
    BY <1>6, <1>7

(* The calls a thread makes on its own mailbox go on, or meet a lack of    *)
(* memory.                                                                 *)
LEMMA OwnCallStep ==
  ASSUME StormTypeOK, FuncInv, NEW t \in Tasks, life[t[1]] = "running", NEW code \in Codes,
         BoxOK(box'), code = "MAILBOX_ERROR" => failures < MaxFailures,
         get_mailbox_for_pid(t[1], code),
         \/ Walks(t)
         \/ /\ negative /\ code = "MAILBOX_ERROR"
            /\ failure_exit(t, code, NoOne) /\ UNCHANGED <<llock, plock>>,
         stopped' \subseteq stopped \cup Processes, program # "test8" => stopped' = stopped,
         UNCHANGED <<program, negative, list, dest, main, child, reaped>>
  PROVE  ThreadStep(t)
  <1>1. MemoryOK /\ (code = "MAILBOX_ERROR" => failures' > 0)
    BY MemorySteps, TaskPairs
  <1>2. CASE Walks(t)
    BY <1>1, <1>2 DEF ThreadStep, StormTypeOK
  <1>3. CASE /\ negative /\ code = "MAILBOX_ERROR"
             /\ failure_exit(t, code, NoOne) /\ UNCHANGED <<llock, plock>>
    <2>1. Surprise(code, NoOne) /\ NoOne \in Processes \cup {NoOne}
      BY <1>1, <1>3 DEF Surprise
    <2>2. failed' = failed \cup {<<t, code, NoOne>>} /\ UNCHANGED pc
          /\ life' = [life EXCEPT ![t[1]] = "exiting"]
      BY <1>3 DEF failure_exit, exit_call
    <2>3. \E c \in Codes, q \in Processes \cup {NoOne} :
            failed' = failed \cup {<<t, c, q>>} /\ Surprise(c, q)
      BY <2>1, <2>2, Zenon
    <2>4. Fails(t)
      BY <1>3, <2>2, <2>3 DEF Fails
    <2> QED
      BY <1>1, <2>4 DEF ThreadStep, StormTypeOK
  <1> QED
    BY <1>2, <1>3

(* Receiving surprises nobody otherwise. *)
LEMMA RecvStep ==
  ASSUME StormTypeOK, FuncInv, NEW t \in Tasks, NEW next \in {"print", "done"},
         recv(t, AnyReceive, next)
  PROVE  ThreadStep(t)
  <1>1. PICK code \in __recieve_message(t[1]) :
          /\ take(t[1], code)
          /\ IF foltan_RcvMsg(negative, code) \in AnyReceive
             THEN (goto(t, "loop") \/ goto(t, next)) /\ UNCHANGED <<life, failed>>
             ELSE failure_exit(t, code, NoOne)
    BY DEF recv
  <1>2. /\ at(t, "recv") /\ t[1] \in Processes
        /\ UNCHANGED <<stopped, list, dest, llock, plock, program, negative, main, child, reaped>>
    BY TaskPairs DEF recv, locks, parent
  <1>3. /\ code \in {"OK", "MAILBOX_EMPTY", "MAILBOX_STOPPED", "MAILBOX_ERROR"}
        /\ code = "OK" => box[t[1]] # <<>>
        /\ code = "MAILBOX_ERROR" => failures < MaxFailures
    BY <1>1, <1>2, ReceiveCodes DEF at
  <1>4. BoxOK(box') /\ get_mailbox_for_pid(t[1], code)
    BY <1>1, <1>2, <1>3, BoxSteps DEF take
  <1>5. foltan_RcvMsg(negative, code) \notin AnyReceive => negative /\ code = "MAILBOX_ERROR"
    BY <1>3, LibraryCodes DEF AnyReceive
  <1>6. foltan_RcvMsg(negative, code) \in AnyReceive => Walks(t)
    BY <1>1, <1>2 DEF at, goto, Walks, Busy
  <1>7. Walks(t) \/ (negative /\ code = "MAILBOX_ERROR" /\ failure_exit(t, code, NoOne))
    BY <1>1, <1>5, <1>6
  <1>8. life[t[1]] = "running" /\ code \in Codes
    BY <1>2, <1>3 DEF at, Codes
  <1>9. stopped' \subseteq stopped \cup Processes
    BY <1>2
  <1> QED
    BY <1>2, <1>3, <1>4, <1>7, <1>8, <1>9, OwnCallStep

(* Printing. *)
LEMMA PrintStep ==
  ASSUME StormTypeOK, FuncInv, NEW t \in Tasks, lock_print(t) \/ unlock_print(t, "done")
  PROVE  ThreadStep(t)
  <1>1. BoxOK(box') /\ MemoryOK
    BY BoxSteps, TaskPairs, ServiceAssumption DEF lock_print, unlock_print, service, MemoryOK, StormTypeOK
  <1>2. CASE lock_print(t)
    BY <1>1, <1>2 DEF lock_print, at, goto, ThreadStep, Walks, Busy, StormTypeOK, service, rest, parent
  <1>3. CASE unlock_print(t, "done")
    BY <1>1, <1>3 DEF unlock_print, at, goto, ThreadStep, Walks, Busy, StormTypeOK, service, rest, parent
  <1> QED
    BY <1>2, <1>3

(* The stopper. *)
LEMMA StopperStep ==
  ASSUME StormTypeOK, FuncInv, NEW t \in Tasks, program = "test8", test8_do_stopper_processing(t)
  PROVE  ThreadStep(t)
  <1>0. t[1] \in Processes
    BY TaskPairs
  <1>1. CASE drain_queue(t)
    <2>1. PICK code \in __recieve_message(t[1]) :
            /\ take(t[1], code)
            /\ IF foltan_RcvMsg(negative, code) \in {"OK", "MAILBOX_EMPTY", "MAILBOX_STOPPED"}
               THEN (goto(t, "drain") \/ goto(t, "restart")) /\ UNCHANGED <<life, failed>>
               ELSE failure_exit(t, code, NoOne)
      BY <1>1 DEF drain_queue
    <2>2. /\ at(t, "drain")
          /\ UNCHANGED <<stopped, list, dest, llock, plock, program, negative, main, child, reaped>>
      BY <1>1 DEF drain_queue, locks, parent
    <2>3. /\ code \in {"OK", "MAILBOX_EMPTY", "MAILBOX_STOPPED", "MAILBOX_ERROR"}
          /\ code = "OK" => box[t[1]] # <<>>
          /\ code = "MAILBOX_ERROR" => failures < MaxFailures
      BY <1>0, <2>1, <2>2, ReceiveCodes DEF at
    <2>4. BoxOK(box') /\ get_mailbox_for_pid(t[1], code)
      BY <1>0, <2>1, <2>3, BoxSteps DEF take
    <2>5. foltan_RcvMsg(negative, code) \notin {"OK", "MAILBOX_EMPTY", "MAILBOX_STOPPED"}
            => negative /\ code = "MAILBOX_ERROR"
      BY <2>3, LibraryCodes
    <2>6. foltan_RcvMsg(negative, code) \in {"OK", "MAILBOX_EMPTY", "MAILBOX_STOPPED"} => Walks(t)
      BY <2>1, <2>2 DEF at, goto, Walks, Busy
    <2>7. Walks(t) \/ (negative /\ code = "MAILBOX_ERROR" /\ failure_exit(t, code, NoOne))
      BY <2>1, <2>5, <2>6
    <2>8. life[t[1]] = "running" /\ code \in Codes
      BY <2>2, <2>3 DEF at, Codes
    <2>9. stopped' \subseteq stopped \cup Processes
      BY <2>2
    <2> QED
      BY <2>2, <2>3, <2>4, <2>7, <2>8, <2>9, OwnCallStep
  <1>2. CASE lock_print(t) \/ unlock_print(t, "done")
    BY <1>2, PrintStep
  <1>3. ASSUME NEW stop, NEW next, next \subseteq {"drain", "stop", "print"},
               at(t, "stop") \/ at(t, "restart"), stopper_manages(t, stop, next)
        PROVE  ThreadStep(t)
    <2>1. PICK code \in __manage_mailbox(t[1]) :
            /\ manage(t[1], stop, code)
            /\ IF foltan_ManageMailbox(negative, code) = "OK"
               THEN (\E where \in next : goto(t, where)) /\ UNCHANGED <<life, failed>>
               ELSE failure_exit(t, code, NoOne)
            /\ UNCHANGED <<box, list, dest, locks, parent>>
      BY <1>3 DEF stopper_manages
    <2>2. UNCHANGED <<box, list, dest, llock, plock, program, negative, main, child, reaped>>
      BY <2>1 DEF locks, parent
    <2>3. code \in {"OK", "MAILBOX_ERROR"} /\ (code = "MAILBOX_ERROR" => failures < MaxFailures)
      BY <1>0, <1>3, <2>1, ManageCodes DEF at
    <2>4. BoxOK(box') /\ get_mailbox_for_pid(t[1], code) /\ stopped' \subseteq stopped \cup Processes
      BY <1>0, <2>1, <2>2, BoxSteps DEF manage
    <2>5. foltan_ManageMailbox(negative, code) # "OK" => negative /\ code = "MAILBOX_ERROR"
      BY <2>3, LibraryCodes
    <2>6. foltan_ManageMailbox(negative, code) = "OK" => Walks(t)
      BY <1>3, <2>1, <2>2 DEF at, goto, Walks, Busy
    <2>7. Walks(t) \/ (negative /\ code = "MAILBOX_ERROR" /\ failure_exit(t, code, NoOne))
      BY <2>1, <2>5, <2>6
    <2>8. life[t[1]] = "running" /\ code \in Codes
      BY <1>3, <2>3 DEF at, Codes
    <2> QED
      BY <2>2, <2>3, <2>4, <2>7, <2>8, OwnCallStep
  <1> QED
    BY <1>1, <1>2, <1>3 DEF test8_do_stopper_processing

(* All of them. *)
LEMMA ThreadSteps ==
  ASSUME StormTypeOK, FuncInv, StopInv, NEW t \in Tasks, Thread(t)
  PROVE  /\ ThreadStep(t)
         /\ program = "test6" => t[2] = "main"
  <1>1. ASSUME test6_do_mailbox_test(t), program # "test8" PROVE ThreadStep(t)
    BY <1>1, DrawStep, SendStep, RecvStep DEF test6_do_mailbox_test
  <1>2. ASSUME test7_do_thread_processing(t), program # "test8" PROVE ThreadStep(t)
    BY <1>2, DrawStep, SendStep, RecvStep, PrintStep DEF test7_do_thread_processing, test7_do_mailbox_test
  <1>3. ASSUME test8_do_thread_processing(t) PROVE ThreadStep(t)
    BY <1>3, DrawStep, SendStep, RecvStep, PrintStep DEF test8_do_thread_processing, test8_do_mailbox_test
  <1> QED
    BY <1>1, <1>2, <1>3, StopperStep DEF Thread

-----------------------------------------------------------------------------
(* The invariant is preserved. *)

(* The types that most steps leave alone. *)
LEMMA TypesKept ==
  ASSUME StormTypeOK, UNCHANGED <<program, negative>>,
         life' \in [Processes -> {"unborn", "running", "exiting", "dead"}],
         BoxOK(box'), MemoryOK, stopped' \subseteq Processes,
         list' \subseteq Processes, Cardinality(list') <= MAX_PIDS,
         dest' \in [Tasks -> Processes \cup {NoOne}],
         llock' \in Tasks \cup {NoOne}, plock' \in Tasks \cup {NoOne},
         child' \in Processes \cup {NoOne}, reaped' \subseteq Processes,
         failed' \subseteq Tasks \X Codes \X (Processes \cup {NoOne}),
         pc' \in [Tasks -> Places]
  PROVE  StormTypeOK' /\ FuncInv'
  BY DEF StormTypeOK, FuncInv, BoxOK, MemoryOK

(* Nothing is made. *)
LEMMA MemoryKept ==
  ASSUME StormTypeOK, UNCHANGED <<made, failures>>
  PROVE  MemoryOK
  BY ServiceAssumption DEF StormTypeOK, MemoryOK

(* What ended processes early goes on explaining it. *)
LEMMA CodesKept ==
  ASSUME StormTypeOK, NoUnexpectedCode, UNCHANGED <<program, negative>>,
         failures' \in Nat, failures' >= failures,
         \A p \in Processes : life[p] \in {"exiting", "dead"} => life'[p] \in {"exiting", "dead"},
         \/ failed' = failed
         \/ \E t \in Tasks, code \in Codes, q \in Processes \cup {NoOne} :
               /\ failed' = failed \cup {<<t, code, q>>}
               /\ Surprise(code, q)
               /\ q # NoOne /\ life[q] = "exiting" => life'[q] = "exiting"
  PROVE  NoUnexpectedCode'
  <1>1. failures \in Nat
    BY DEF StormTypeOK
  <1> SUFFICES ASSUME NEW f \in failed'
               PROVE  /\ negative
                      /\ \/ f[2] = "MAILBOX_ERROR" /\ failures' > 0
                         \/ /\ f[2] = "MAILBOX_STOPPED" /\ program # "test8"
                            /\ f[3] # NoOne /\ life'[f[3]] \in {"exiting", "dead"}
    BY DEF NoUnexpectedCode
  <1>2. CASE f \in failed
    <2>1. f[3] \in Processes \cup {NoOne}
      BY <1>2 DEF StormTypeOK
    <2>2. /\ negative
          /\ \/ f[2] = "MAILBOX_ERROR" /\ failures > 0
             \/ /\ f[2] = "MAILBOX_STOPPED" /\ program # "test8"
                /\ f[3] # NoOne /\ life[f[3]] \in {"exiting", "dead"}
      BY <1>2 DEF NoUnexpectedCode
    <2> QED
      BY <1>1, <2>1, <2>2
  <1>3. CASE f \notin failed
    <2>1. PICK t \in Tasks, code \in Codes, q \in Processes \cup {NoOne} :
             /\ f = <<t, code, q>> /\ Surprise(code, q)
             /\ q # NoOne /\ life[q] = "exiting" => life'[q] = "exiting"
      BY <1>3
    <2> QED
      BY <2>1 DEF Surprise
  <1> QED
    BY <1>2, <1>3

(* One task moves: the others are where they were. *)
LEMMA OthersStay ==
  ASSUME FuncInv, NEW t \in Tasks, NEW x \in Places, pc' = [pc EXCEPT ![t] = x]
  PROVE  /\ pc' \in [Tasks -> Places] /\ pc'[t] = x
         /\ \A u \in Tasks : u # t => pc'[u] = pc[u]
  BY DEF FuncInv

(* A thread's step. *)
LEMMA ThreadKeeps ==
  ASSUME StormInv, NEW t \in Tasks, ThreadStep(t), program = "test6" => t[2] = "main"
  PROVE  StormInv'
  <1> USE TaskPairs
  <1>1. StormTypeOK /\ FuncInv /\ LockInv /\ JoinInv /\ StopInv
        /\ NoUnexpectedCode /\ HoldersLive
    BY DEF StormInv
  <1>2. /\ life[t[1]] = "running" /\ BoxOK(box') /\ dest' \in [Tasks -> Processes \cup {NoOne}]
        /\ stopped' \subseteq stopped \cup Processes /\ (program # "test8" => stopped' = stopped)
        /\ UNCHANGED <<program, negative, list, main, child, reaped>>
        /\ MemoryOK /\ failures' \in Nat /\ failures' >= failures
    BY DEF ThreadStep, MemoryOK
  <1>3. StopInv'
    BY <1>1, <1>2 DEF StopInv
  <1>4. CASE Walks(t)
    <2>1. PICK x \in Busy \cup {"done"} :
             /\ pc[t] \in Busy /\ pc' = [pc EXCEPT ![t] = x]
             /\ UNCHANGED <<life, failed>>
             /\ \/ x = "choose" /\ llock = NoOne /\ llock' = t
                \/ pc[t] = "choose" /\ x # "choose" /\ llock' = NoOne
                \/ pc[t] # "choose" /\ x # "choose" /\ llock' = llock
             /\ \/ x = "printing" /\ plock = NoOne /\ plock' = t
                \/ pc[t] = "printing" /\ x # "printing" /\ plock' = NoOne
                \/ pc[t] # "printing" /\ x # "printing" /\ plock' = plock
      BY <1>4 DEF Walks
    <2>2. pc' \in [Tasks -> Places] /\ pc'[t] = x /\ \A u \in Tasks : u # t => pc'[u] = pc[u]
      <3>1. x \in Places
        BY <2>1 DEF Busy, Places
      <3> QED
        BY <1>1, <2>1, <3>1, OthersStay
    <2>3. StormTypeOK' /\ FuncInv'
      BY <1>1, <1>2, <2>1, <2>2, TypesKept DEF StormTypeOK
    <2>4. LockInv'
      <3>1. llock \in Tasks \cup {NoOne} /\ plock \in Tasks \cup {NoOne}
        BY <1>1 DEF StormTypeOK
      <3>2. llock = t => pc[t] = "choose"
        BY <1>1, <2>1 DEF LockInv, Busy
      <3>3. plock = t => pc[t] = "printing"
        BY <1>1, <2>1 DEF LockInv, Busy
      <3> QED
        BY <1>1, <2>1, <2>2, <3>1, <3>2, <3>3 DEF LockInv
    <2>5. JoinInv'
      <3> SUFFICES ASSUME NEW p \in Processes
                   PROVE  /\ life'[p] = "unborn" => pc'[<<p, "main">>] = "none"
                          /\ \/ program = "test6"
                             \/ pc'[<<p, "main">>] \in {"none", "start", "remove", "removing", "exited"}
                             => joined(p)'
        BY <1>2 DEF JoinInv
      <3>1. CASE p # t[1]
        <4>1. \A y \in Threads : pc'[<<p, y>>] = pc[<<p, y>>]
          BY <2>2, <3>1
        <4> QED
          BY <1>1, <2>1, <4>1 DEF JoinInv, joined
      <3>2. CASE p = t[1] /\ t[2] = "main"
        <4>1. t = <<p, "main">> /\ \A w \in Workers \cup {"stopper"} : pc'[<<p, w>>] = pc[<<p, w>>]
          BY <2>2, <3>2
        <4>2. pc'[<<p, "main">>] = x
          BY <2>2, <4>1
        <4> QED
          BY <1>1, <1>2, <2>1, <3>2, <4>1, <4>2 DEF JoinInv, joined, Busy
      <3>3. CASE p = t[1] /\ t[2] # "main"
        <4>1. ~joined(p)
          <5>1. t[2] \in Workers \cup {"stopper"} /\ t = <<p, t[2]>>
            BY <3>3 DEF Threads
          <5> QED
            BY <2>1, <5>1 DEF joined, Busy
        <4>2. pc'[<<p, "main">>] = pc[<<p, "main">>] /\ program # "test6"
          BY <2>2, <3>3
        <4> QED
          BY <1>1, <1>2, <2>1, <3>3, <4>1, <4>2 DEF JoinInv
      <3> QED
        BY <3>1, <3>2, <3>3
    <2>7. NoUnexpectedCode'
      BY <1>1, <1>2, <2>1, CodesKept
    <2>8. HoldersLive'
      BY <1>1, <1>2, <2>1 DEF HoldersLive
    <2> QED
      BY <1>3, <2>3, <2>4, <2>5, <2>7, <2>8 DEF StormInv
  <1>5. CASE Fails(t)
    <2>1. PICK code \in Codes, q \in Processes \cup {NoOne} :
            failed' = failed \cup {<<t, code, q>>} /\ Surprise(code, q)
      BY <1>5 DEF Fails
    <2>2. life' = [life EXCEPT ![t[1]] = "exiting"] /\ UNCHANGED <<pc, llock, plock>>
      BY <1>5 DEF Fails
    <2>3. \A p \in Processes : life'[p] = IF p = t[1] THEN "exiting" ELSE life[p]
      BY <1>1, <2>2 DEF StormTypeOK
    <2>4. StormTypeOK' /\ FuncInv'
      <3>1. failed' \subseteq Tasks \X Codes \X (Processes \cup {NoOne})
        BY <1>1, <2>1 DEF StormTypeOK
      <3> QED
        BY <1>1, <1>2, <2>2, <3>1, TypesKept DEF StormTypeOK, FuncInv
    <2>5. LockInv' /\ JoinInv'
      BY <1>1, <1>2, <2>2, <2>3 DEF LockInv, JoinInv, joined
    <2>6. NoUnexpectedCode'
      BY <1>1, <1>2, <2>1, <2>3, CodesKept
    <2>7. HoldersLive'
      <3>1. \E f \in failed' : f[1][1] = t[1]
        <4>1. <<t, code, q>> \in failed' /\ <<t, code, q>>[1][1] = t[1]
          BY <2>1
        <4> QED
          BY <4>1
      <3>2. failed \subseteq failed'
        BY <2>1
      <3> QED
        BY <1>1, <2>2, <2>3, <3>1, <3>2 DEF HoldersLive, StormTypeOK
    <2> QED
      BY <1>3, <2>4, <2>5, <2>6, <2>7 DEF StormInv
  <1> QED
    BY <1>4, <1>5 DEF ThreadStep

(* A step that leaves the threads, their processes and the semaphores      *)
(* alone.                                                                  *)
LEMMA ParentKeeps ==
  ASSUME StormInv, UNCHANGED <<service, program, negative, pc, dest, llock, plock, failed>>,
         list' \subseteq Processes, Cardinality(list') <= MAX_PIDS,
         child' \in Processes \cup {NoOne}, reaped' \subseteq Processes
  PROVE  StormInv'
  <1>1. StormTypeOK /\ FuncInv /\ BoxOK(box)
    BY DEF StormInv, StormTypeOK, FuncInv, BoxOK
  <1>2. StormTypeOK' /\ FuncInv'
    BY <1>1 DEF StormTypeOK, FuncInv, service
  <1>3. LockInv' /\ JoinInv' /\ StopInv' /\ NoUnexpectedCode' /\ HoldersLive'
    BY DEF StormInv, LockInv, JoinInv, joined, StopInv, NoUnexpectedCode, HoldersLive, service
  <1> QED
    BY <1>2, <1>3 DEF StormInv

(* The list has room for one more, or stays as it is; and less is less. *)
LEMMA ListCount ==
  ASSUME StormTypeOK, NEW p \in Processes
  PROVE  /\ Cardinality(list) < MAX_PIDS => Cardinality(list \cup {p}) <= MAX_PIDS
         /\ Cardinality(list \ {p}) <= MAX_PIDS
  <1>1. IsFiniteSet(list) /\ Cardinality(list) <= MAX_PIDS
    BY StormAssumption, FS_Subset DEF StormTypeOK
  <1>2. Cardinality(list) \in Nat
    BY <1>1, FS_CardinalityType
  <1>3. Cardinality(list \cup {p}) = IF p \in list THEN Cardinality(list) ELSE Cardinality(list) + 1
    BY <1>1, FS_AddElement
  <1>4. Cardinality(list \ {p}) = IF p \in list THEN Cardinality(list) - 1 ELSE Cardinality(list)
    BY <1>1, FS_RemoveElement
  <1> QED
    BY <1>1, <1>2, <1>3, <1>4, StormAssumption

(* fork: only the child's main thread begins. *)
LEMMA ForkKeeps ==
  ASSUME StormInv, NEW p \in Processes, NEW first \in {"loop", "start", "done"}, fork(p, first)
  PROVE  StormInv'
  <1> USE TaskPairs
  <1>1. StormTypeOK /\ FuncInv /\ LockInv /\ JoinInv /\ StopInv
        /\ NoUnexpectedCode /\ HoldersLive
    BY DEF StormInv
  <1>2. /\ life[p] = "unborn" /\ life' = [life EXCEPT ![p] = "running"] /\ child' = p
        /\ pc' = [pc EXCEPT ![<<p, "main">>] = first]
        /\ UNCHANGED <<box, stopped, made, failures, program, negative, list, dest, llock, plock, reaped, failed>>
    BY DEF fork, goto, memory, locks
  <1>3. /\ pc' \in [Tasks -> Places] /\ pc'[<<p, "main">>] = first
        /\ \A u \in Tasks : u # <<p, "main">> => pc'[u] = pc[u]
    BY <1>1, <1>2, OthersStay DEF Places
  <1>4. \A q \in Processes : life'[q] = IF q = p THEN "running" ELSE life[q]
    BY <1>1, <1>2 DEF StormTypeOK
  <1>5. StormTypeOK' /\ FuncInv'
    <2>1. BoxOK(box') /\ MemoryOK
      BY <1>1, <1>2, BoxSteps, MemoryKept
    <2> QED
      BY <1>1, <1>2, <1>3, <2>1, TypesKept DEF StormTypeOK
  <1>6. pc[<<p, "main">>] = "none" /\ joined(p)
    BY <1>1, <1>2 DEF JoinInv
  <1>7. LockInv'
    BY <1>1, <1>2, <1>3, <1>6 DEF LockInv, StormTypeOK
  <1>8. JoinInv'
    <2>1. \A q \in Processes : joined(q) => joined(q)'
      BY <1>3 DEF joined
    <2>2. \A q \in Processes \ {p} : pc'[<<q, "main">>] = pc[<<q, "main">>]
      BY <1>3
    <2> SUFFICES ASSUME NEW q \in Processes
                 PROVE  /\ life'[q] = "unborn" => pc'[<<q, "main">>] = "none"
                        /\ \/ program' = "test6"
                           \/ pc'[<<q, "main">>] \in {"none", "start", "remove", "removing", "exited"}
                           => joined(q)'
      BY DEF JoinInv
    <2>3. CASE q = p
      BY <1>4, <1>6, <2>1, <2>3
    <2>4. CASE q # p
      <3>1. life'[q] = life[q] /\ pc'[<<q, "main">>] = pc[<<q, "main">>] /\ program' = program
        BY <1>2, <1>4, <2>2, <2>4
      <3>2. /\ life[q] = "unborn" => pc[<<q, "main">>] = "none"
            /\ \/ program = "test6"
               \/ pc[<<q, "main">>] \in {"none", "start", "remove", "removing", "exited"}
               => joined(q)
        BY <1>1 DEF JoinInv
      <3> QED
        BY <2>1, <3>1, <3>2
    <2> QED
      BY <2>3, <2>4
  <1>10. NoUnexpectedCode' /\ StopInv'
    <2>1. failures' \in Nat /\ failures' >= failures
      BY <1>1, <1>2 DEF StormTypeOK
    <2> QED
      BY <1>1, <1>2, <1>4, <2>1, CodesKept DEF StopInv
  <1>11. HoldersLive'
    BY <1>1, <1>2, <1>4 DEF HoldersLive, StormTypeOK
  <1> QED
    BY <1>5, <1>7, <1>8, <1>10, <1>11 DEF StormInv

(* The threads of a process begin. *)
LEMMA StartKeeps ==
  ASSUME StormInv, NEW p \in Processes, NEW crew \in SUBSET (Workers \cup {"stopper"}),
         program # "test6", start(<<p, "main">>, crew, Working)
  PROVE  StormInv'
  <1> USE TaskPairs
  <1>1. StormTypeOK /\ FuncInv /\ LockInv /\ JoinInv /\ StopInv
        /\ NoUnexpectedCode /\ HoldersLive
    BY DEF StormInv
  <1>2. /\ life[p] = "running" /\ pc[<<p, "main">>] = "start"
        /\ pc' = [u \in Tasks |-> IF u[1] = p /\ u[2] \in {"main"} \cup crew
                                  THEN Working[u[2]] ELSE pc[u]]
        /\ UNCHANGED <<life, box, stopped, made, failures, program, negative>>
        /\ UNCHANGED <<list, dest, llock, plock, child, reaped, failed>>
    BY DEF start, at, service, locks, rest, parent
  <1>3. \A x \in Threads : Working[x] \in {"stop", "loop"}
    BY DEF Working
  <1>4. pc' \in [Tasks -> Places]
    BY <1>1, <1>2, <1>3 DEF FuncInv, Places
  <1>5. StormTypeOK' /\ FuncInv'
    <2>1. BoxOK(box') /\ MemoryOK
      BY <1>1, <1>2, BoxSteps, MemoryKept
    <2> QED
      BY <1>1, <1>2, <1>4, <2>1, TypesKept DEF StormTypeOK
  <1>6. joined(p)
    BY <1>1, <1>2 DEF JoinInv
  <1>7. \A u \in Tasks : u[1] = p => pc[u] \in {"start", "none", "done"}
    BY <1>2, <1>6 DEF joined, Threads
  <1>8. \A u \in Tasks : u[1] # p => pc'[u] = pc[u]
    BY <1>2
  <1>9. LockInv'
    <2>1. ASSUME NEW h \in Tasks, pc[h] \notin {"start", "none", "done"} PROVE pc'[h] = pc[h]
      BY <1>7, <1>8, <2>1
    <2> QED
      BY <1>1, <1>2, <2>1 DEF LockInv, StormTypeOK
  <1>10. pc'[<<p, "main">>] \in {"stop", "loop"}
    BY <1>2, <1>3
  <1>11. JoinInv'
    <2>1. \A q \in Processes \ {p} : \A x \in Threads : pc'[<<q, x>>] = pc[<<q, x>>]
      BY <1>8
    <2>2. \A q \in Processes \ {p} : joined(q) => joined(q)'
      BY <2>1 DEF joined
    <2> QED
      BY <1>1, <1>2, <1>10, <2>1, <2>2 DEF JoinInv
  <1>13. NoUnexpectedCode' /\ StopInv' /\ HoldersLive'
    BY <1>1, <1>2 DEF NoUnexpectedCode, StopInv, HoldersLive
  <1> QED
    BY <1>5, <1>9, <1>11, <1>13 DEF StormInv

(* The main thread of a child takes a semaphore on its way out. *)
LEMMA LeaveKeeps ==
  ASSUME StormInv, NEW p \in Processes, NEW x \in {"remove", "removing"},
         pc[<<p, "main">>] \in {"done", "remove"}, life[p] = "running", joined(p),
         pc' = [pc EXCEPT ![<<p, "main">>] = x],
         UNCHANGED <<service, list, dest, program, negative, child, reaped, failed>>,
         \/ x = "remove" /\ pc[<<p, "main">>] = "done" /\ plock = NoOne /\ plock' = <<p, "main">> /\ UNCHANGED llock
         \/ x = "removing" /\ llock = NoOne /\ llock' = <<p, "main">> /\ UNCHANGED plock
  PROVE  StormInv'
  <1> USE TaskPairs
  <1>1. StormTypeOK /\ FuncInv /\ LockInv /\ JoinInv /\ StopInv
        /\ NoUnexpectedCode /\ HoldersLive
    BY DEF StormInv
  <1>2. /\ pc' \in [Tasks -> Places] /\ pc'[<<p, "main">>] = x
        /\ \A u \in Tasks : u # <<p, "main">> => pc'[u] = pc[u]
    BY <1>1, OthersStay DEF Places
  <1>3. StormTypeOK' /\ FuncInv'
    <2>1. BoxOK(box') /\ MemoryOK
      BY <1>1, BoxSteps, MemoryKept DEF service
    <2>2. llock' \in Tasks \cup {NoOne} /\ plock' \in Tasks \cup {NoOne}
      BY <1>1 DEF StormTypeOK
    <2> QED
      BY <1>1, <1>2, <2>1, <2>2, TypesKept DEF StormTypeOK, service
  <1>4. LockInv'
    BY <1>1, <1>2 DEF LockInv, StormTypeOK
  <1>5. JoinInv'
    <2>1. \A q \in Processes : joined(q) => joined(q)'
      BY <1>2 DEF joined
    <2>2. \A q \in Processes \ {p} : pc'[<<q, "main">>] = pc[<<q, "main">>]
      BY <1>2
    <2> QED
      BY <1>1, <2>1, <2>2 DEF JoinInv, service
  <1>7. NoUnexpectedCode' /\ StopInv'
    BY <1>1 DEF NoUnexpectedCode, StopInv, service
  <1>8. HoldersLive'
    BY <1>1 DEF HoldersLive, service
  <1> QED
    BY <1>3, <1>4, <1>5, <1>7, <1>8 DEF StormInv

(* The child leaves the list and exits, with nothing in its hands. *)
LEMMA RemoveKeeps ==
  ASSUME StormInv, NEW p \in Processes, remove_and_exit(<<p, "main">>)
  PROVE  StormInv'
  <1> USE TaskPairs
  <1> DEFINE t == <<p, "main">>
  <1>1. StormTypeOK /\ FuncInv /\ LockInv /\ JoinInv /\ StopInv
        /\ NoUnexpectedCode /\ HoldersLive
    BY DEF StormInv
  <1>2. /\ pc[t] = "removing" /\ life[p] = "running" /\ list' = list \ {p} /\ llock' = NoOne
        /\ plock' = IF plock = t THEN NoOne ELSE plock
        /\ pc' = [pc EXCEPT ![t] = "exited"] /\ life' = [life EXCEPT ![p] = "exiting"]
        /\ UNCHANGED <<box, stopped, made, failures, dest, program, negative, child, reaped, failed>>
    BY DEF remove_and_exit, at, goto, exit_call, memory, rest, parent
  <1>3. /\ pc' \in [Tasks -> Places] /\ pc'[t] = "exited"
        /\ \A u \in Tasks : u # t => pc'[u] = pc[u]
    BY <1>1, <1>2, OthersStay DEF Places
  <1>4. \A q \in Processes : life'[q] = IF q = p THEN "exiting" ELSE life[q]
    BY <1>1, <1>2 DEF StormTypeOK
  <1>5. StormTypeOK' /\ FuncInv'
    <2>1. BoxOK(box') /\ MemoryOK /\ Cardinality(list') <= MAX_PIDS
      BY <1>1, <1>2, BoxSteps, MemoryKept, ListCount
    <2>2. llock' \in Tasks \cup {NoOne} /\ plock' \in Tasks \cup {NoOne} /\ list' \subseteq Processes
      BY <1>1, <1>2 DEF StormTypeOK
    <2>3. life' \in [Processes -> {"unborn", "running", "exiting", "dead"}]
      BY <1>1, <1>2 DEF StormTypeOK
    <2> QED
      BY <1>1, <1>2, <1>3, <2>1, <2>2, <2>3, TypesKept DEF StormTypeOK
  <1>6. joined(p)
    BY <1>1, <1>2 DEF JoinInv
  <1>7. LockInv'
    BY <1>1, <1>2, <1>3 DEF LockInv, StormTypeOK
  <1>8. JoinInv'
    <2>1. \A q \in Processes : joined(q) => joined(q)'
      BY <1>3 DEF joined
    <2>2. \A q \in Processes \ {p} : pc'[<<q, "main">>] = pc[<<q, "main">>]
      BY <1>3
    <2> SUFFICES ASSUME NEW q \in Processes
                 PROVE  /\ life'[q] = "unborn" => pc'[<<q, "main">>] = "none"
                        /\ \/ program' = "test6"
                           \/ pc'[<<q, "main">>] \in {"none", "start", "remove", "removing", "exited"}
                           => joined(q)'
      BY DEF JoinInv
    <2>3. CASE q = p
      BY <1>4, <1>6, <2>1, <2>3
    <2>4. CASE q # p
      <3>1. life'[q] = life[q] /\ pc'[<<q, "main">>] = pc[<<q, "main">>] /\ program' = program
        BY <1>2, <1>4, <2>2, <2>4
      <3>2. /\ life[q] = "unborn" => pc[<<q, "main">>] = "none"
            /\ \/ program = "test6"
               \/ pc[<<q, "main">>] \in {"none", "start", "remove", "removing", "exited"}
               => joined(q)
        BY <1>1 DEF JoinInv
      <3> QED
        BY <2>1, <3>1, <3>2
    <2> QED
      BY <2>3, <2>4
  <1>9. NoUnexpectedCode' /\ StopInv'
    <2>1. failures' \in Nat /\ failures' >= failures
      BY <1>1, <1>2 DEF StormTypeOK
    <2> QED
      BY <1>1, <1>2, <1>4, <2>1, CodesKept DEF StopInv
  <1>10. HoldersLive'
    <2>1. ASSUME plock' # NoOne PROVE plock' = plock /\ plock[1] # p /\ plock \in Tasks
      <3>1. plock' = plock /\ plock # t /\ plock \in Tasks
        BY <1>1, <1>2, <2>1 DEF StormTypeOK
      <3>2. pc[plock] \in {"printing", "remove", "removing"}
        BY <1>1, <2>1, <3>1 DEF LockInv
      <3>3. plock[1] = p => plock[2] \in Workers \cup {"stopper"} /\ plock = <<p, plock[2]>>
        BY <3>1 DEF Threads
      <3> QED
        BY <1>6, <3>1, <3>2, <3>3 DEF joined
    <2> QED
      BY <1>1, <1>2, <1>4, <2>1 DEF HoldersLive
  <1> QED
    BY <1>5, <1>7, <1>8, <1>9, <1>10 DEF StormInv

(* The kernel finishes an exit. *)
LEMMA ExitKeeps ==
  ASSUME StormInv, NEW p \in Processes, process_exits(p)
  PROVE  StormInv'
  <1> USE TaskPairs
  <1>1. StormTypeOK /\ FuncInv /\ LockInv /\ JoinInv /\ StopInv
        /\ NoUnexpectedCode /\ HoldersLive
    BY DEF StormInv
  <1>2. /\ life[p] = "exiting" /\ life' = [life EXCEPT ![p] = "dead"] /\ stopped' = stopped \ {p}
        /\ made' = made \ {p}
        /\ UNCHANGED <<failures, list, pc, dest, llock, plock, program, negative, child, reaped, failed>>
    BY DEF process_exits, exited, locks, rest, parent
  <1>3. \A q \in Processes : life'[q] = IF q = p THEN "dead" ELSE life[q]
    BY <1>1, <1>2 DEF StormTypeOK
  <1>4. StormTypeOK' /\ FuncInv'
    <2>1. BoxOK(box') /\ MemoryOK
      BY <1>1, <1>2, BoxSteps, ServiceAssumption DEF process_exits, MemoryOK, StormTypeOK
    <2> QED
      BY <1>1, <1>2, <2>1, TypesKept DEF StormTypeOK, FuncInv
  <1>5. LockInv' /\ JoinInv'
    BY <1>1, <1>2, <1>3 DEF LockInv, JoinInv, joined
  <1>6. NoUnexpectedCode' /\ StopInv'
    <2>1. failures' \in Nat /\ failures' >= failures
      BY <1>1, <1>2 DEF StormTypeOK
    <2> QED
      BY <1>1, <1>2, <1>3, <2>1, CodesKept DEF StopInv
  <1>7. HoldersLive'
    BY <1>1, <1>2, <1>3 DEF HoldersLive, StormTypeOK
  <1> QED
    BY <1>4, <1>5, <1>6, <1>7 DEF StormInv

(* All that happens to a process besides its threads' loops. *)
LEMMA ProcessKeeps ==
  ASSUME StormInv, NEW p \in Processes, new_process(p)
  PROVE  StormInv'
  <1> USE TaskPairs
  <1> DEFINE t == <<p, "main">>
  <1>1. StormTypeOK /\ FuncInv /\ JoinInv
    BY DEF StormInv
  <1>2. ASSUME add_child(p) PROVE StormInv'
    <2>1. /\ UNCHANGED <<service, program, negative, pc, dest, llock, plock, reaped, failed>> /\ child' = NoOne
          /\ list' = IF Cardinality(list) < MAX_PIDS THEN list \cup {p} ELSE list
      BY <1>2 DEF add_child, locks
    <2>2. list' \subseteq Processes /\ Cardinality(list') <= MAX_PIDS
      BY <1>1, <2>1, ListCount DEF StormTypeOK
    <2> QED
      BY <1>1, <2>1, <2>2, ParentKeeps DEF StormTypeOK
  <1>3. ASSUME lock_to_remove(t), at(t, "remove") \/ (program = "test6" /\ at(t, "done")) PROVE StormInv'
    <2>1. joined(p)
      BY <1>1, <1>3 DEF JoinInv, at
    <2> QED
      BY <1>3, <2>1, LeaveKeeps DEF lock_to_remove, at, goto, rest, parent
  <1>4. ASSUME leave_with_plock(t) PROVE StormInv'
    <2>1. CASE at(t, "done") /\ joined(p)
      <3>1. CASE plock = NoOne /\ plock' = t /\ goto(t, "remove")
                 /\ UNCHANGED <<service, list, dest, llock, rest>>
        BY <2>1, <3>1, LeaveKeeps DEF at, goto, rest, parent
      <3> QED
        BY <1>3, <1>4, <2>1, <3>1, RemoveKeeps DEF leave_with_plock
    <2> QED
      BY <1>3, <1>4, <2>1, RemoveKeeps DEF leave_with_plock
  <1>5. ASSUME test6_new_process(p), program = "test6" PROVE StormInv'
    BY <1>2, <1>3, <1>5, ForkKeeps, RemoveKeeps DEF test6_new_process
  <1>6. \A crew \in Crews[p] : crew \in SUBSET (Workers \cup {"stopper"})
                             /\ crew \cup {"stopper"} \in SUBSET (Workers \cup {"stopper"})
    BY StormAssumption
  <1>7. ASSUME test7_new_process(p), program # "test6" PROVE StormInv'
    BY <1>2, <1>4, <1>6, <1>7, ForkKeeps, StartKeeps DEF test7_new_process
  <1>8. ASSUME test8_new_process(p), program # "test6" PROVE StormInv'
    BY <1>2, <1>4, <1>6, <1>8, ForkKeeps, StartKeeps DEF test8_new_process
  <1> QED
    BY <1>5, <1>7, <1>8 DEF new_process

(* The parent waits, and forks again. *)
LEMMA ParentStep ==
  ASSUME StormInv, Parent
  PROVE  StormInv'
  <1>1. /\ UNCHANGED <<service, program, negative, list, pc, dest, llock, plock, child, failed>>
        /\ reaped' = reaped \/ \E p \in Processes : reaped' = reaped \cup {p}
    BY DEF Parent, test6_main, Test7, Test8, fork_all, wait_for_all, wait, to, locks
  <1> QED
    BY <1>1, ParentKeeps DEF StormInv, StormTypeOK

-----------------------------------------------------------------------------
(* Theorems *)

(* StormInv is an inductive invariant of the three programs. *)
THEOREM StormInvariant == StormSpec => []StormInv
  <1>1. StormInit => StormInv
    <2> SUFFICES ASSUME StormInit PROVE StormInv
      OBVIOUS
    <2>1. Cardinality({}) = 0
      BY FS_EmptySet
    <2>2. StormTypeOK /\ FuncInv
      BY <2>1, StormAssumption, ServiceAssumption DEF StormInit, ServiceInit, StormTypeOK, FuncInv, Places
    <2>3. JoinInv
      BY TaskPairs DEF StormInit, JoinInv, joined
    <2>5. LockInv /\ StopInv /\ NoUnexpectedCode /\ HoldersLive
      BY DEF StormInit, ServiceInit, LockInv, StopInv, NoUnexpectedCode, HoldersLive
    <2> QED
      BY <2>2, <2>3, <2>5 DEF StormInv
  <1>2. StormInv /\ [StormNext]_svars => StormInv'
    <2> SUFFICES ASSUME StormInv, [StormNext]_svars PROVE StormInv'
      OBVIOUS
    <2>1. ASSUME NEW t \in Tasks, Thread(t) PROVE StormInv'
      BY <2>1, ThreadSteps, ThreadKeeps DEF StormInv
    <2>2. CASE UNCHANGED svars
      BY <2>2, ParentKeeps DEF svars, StormInv, StormTypeOK
    <2> QED
      BY <2>1, <2>2, ParentStep, ProcessKeeps, ExitKeeps DEF StormNext
  <1> QED
    BY <1>1, <1>2, PTL DEF StormSpec

(* Every variable keeps its type; no mailbox and no list overflows. *)
THEOREM StormTypeTheorem == StormSpec => []StormTypeOK
  <1>1. StormInv => StormTypeOK
    BY DEF StormInv
  <1> QED
    BY <1>1, StormInvariant, PTL

(* What ends a process early: a lack of memory in the kernel, or, in test6 *)
(* and test7, a send to a process on its way out.  Over Message_LKM the    *)
(* programs notice neither.                                                *)
THEOREM StormCodesTheorem == StormSpec => []NoUnexpectedCode
  <1>1. StormInv => NoUnexpectedCode
    BY DEF StormInv
  <1> QED
    BY <1>1, StormInvariant, PTL

(* No process that ends in order takes a shared semaphore along. *)
THEOREM StormLocksTheorem == StormSpec => []HoldersLive
  <1>1. StormInv => HoldersLive
    BY DEF StormInv
  <1> QED
    BY <1>1, StormInvariant, PTL
=============================================================================
