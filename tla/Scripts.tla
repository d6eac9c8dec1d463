------------------------------- MODULE Scripts -------------------------------
(***************************************************************************)
(* The test programs that follow a script: aFoltan's test1, test2 (b, c),  *)
(* test4, test5 and test9, and the sample tests testmailbox1-5 and 7 in    *)
(* the two versions the repository has.  A function of a program is the    *)
(* sequence of what it does to mailboxes, processes and threads; what a    *)
(* program does with a code it did not want is to exit(-1).                *)
(*                                                                         *)
(* Sleeping is nothing, and printing is left out.  Counts are scaled: the  *)
(* mailbox holds Capacity messages for 32, Few stands for the programs'    *)
(* counts below that (5, 10), and N children for 50.  fork and             *)
(* pthread_create do not fail.  A child gets a pid that was not used yet;  *)
(* which one makes no difference.                                          *)
(***************************************************************************)
EXTENDS UserLibrary, SequencesExt

CONSTANTS
  Programs,  \* the programs to run, by name
  root,      \* the process that is started
  N,         \* children of a sample test
  Few,       \* a number of messages that fit in a mailbox
  Kernels    \* the kernels to run aFoltan's programs on: FALSE is Message_LKM,
             \* TRUE one that returns its codes negated, as their library expects

ASSUME ScriptsAssumption ==
  /\ root \in Processes
  /\ {N, Few} \subseteq Nat
  /\ Few < Capacity
  /\ Kernels \subseteq BOOLEAN

Tasks == Processes \X {"main", "thread"}

VARIABLES
  program,   \* the program that runs
  negative,  \* the kernel it runs on
  script,    \* what each task has still to do
  rc,        \* the code each task keeps
  from,      \* who sent the message each process received last
  child,     \* the process each process forked last
  count,     \* what ManageMailbox told each process
  failed     \* tasks that met a code they do not want

local == <<script, rc, from, child, count, failed>>
setting == <<program, negative>>
pvars == <<service, local, setting>>

-----------------------------------------------------------------------------
(* Instructions, each a sequence of one. *)

Codes == {"OK", "MAILBOX_FULL", "MAILBOX_EMPTY", "MAILBOX_STOPPED", "MAILBOX_INVALID",
          "MSG_TOO_LONG", "MSG_ARG_ERROR", "MAILBOX_ERROR", "-1"}
Failure == Codes \ {"OK"}

Send(to, block, want) == <<[op |-> "send", to |-> to, block |-> block, want |-> want, text |-> <<>>]>>
SendText(m)           == <<[op |-> "send", to |-> "self", block |-> FALSE, want |-> {"OK"}, text |-> m]>>
SendArgs(len, want)   == <<[op |-> "send args", len |-> len, want |-> want]>>
Recv(block, want)     == <<[op |-> "recv", block |-> block, want |-> want, text |-> <<>>, keep |-> TRUE]>>
RecvText(m)           == <<[op |-> "recv", block |-> FALSE, want |-> {"OK"}, text |-> m, keep |-> TRUE]>>
RecvUnkept(want)      == <<[op |-> "recv", block |-> FALSE, want |-> want, text |-> <<>>, keep |-> FALSE]>>
RecvArgs(want)        == <<[op |-> "recv args", want |-> want]>>
Manage(stop, want)    == <<[op |-> "manage", stop |-> stop, want |-> want]>>
Fork(body)            == <<[op |-> "fork", script |-> body]>>
Thread(body)          == <<[op |-> "thread", script |-> body]>>
Join                  == <<[op |-> "join"]>>
DoWhileTime(body)     == body \o <<[op |-> "repeat", script |-> body]>>

Times(n, s) == FlattenSeq([i \in 1..n |-> s])
Block   == TRUE
NoBlock == FALSE

-----------------------------------------------------------------------------
(* The helpers of test_utils.c that loop or verify. *)
send_recv_verify(m) == SendText(m) \o RecvText(m)
paced_send_recv_verify(m, n) == FlattenSeq([i \in 1..n |-> send_recv_verify(<<m, i>>)])
drain_queue         == <<[op |-> "drain"]>>
fill_mailbox        == <<[op |-> "fill"]>>
verify_mailbox_count(n, stop) == Manage(stop, {"OK"}) \o <<[op |-> "verify", n |-> n]>>

(* test1.c *)
basic_send_recv_test == paced_send_recv_verify("Msg", 3)
slow_send_recv_test  == paced_send_recv_verify("slow", Few)
burst_send_recv_test == paced_send_recv_verify("burst", Capacity)
overflow_queue_test  ==
  Times(Capacity, Send("self", NoBlock, {"OK"})) \o Send("self", NoBlock, Failure) \o drain_queue
underflow_queue_test ==
  Times(Few, Send("self", NoBlock, {"OK"})) \o Times(Few, Recv(NoBlock, {"OK"}))
  \o Recv(NoBlock, Failure) \o drain_queue
GoodErrors == {"MSG_TOO_LONG", "MSG_ARG_ERROR", "MAILBOX_ERROR"}
send_msg_arg_test ==
  Times(5, SendArgs("zero", GoodErrors) \o SendArgs("negative", GoodErrors) \o SendArgs("long", GoodErrors))
recv_msg_arg_test == Times(3, RecvArgs({"MSG_ARG_ERROR", "MAILBOX_ERROR"}))
test1_main ==
  basic_send_recv_test \o slow_send_recv_test \o burst_send_recv_test \o overflow_queue_test
  \o underflow_queue_test \o send_msg_arg_test \o recv_msg_arg_test

(* test2.c *)
test2b_thread == Times(Capacity, Recv(Block, {"OK"})) \o Recv(Block, {"OK"})
Test2b ==
  Thread(test2b_thread) \o Times(Capacity, Send("self", NoBlock, {"OK"}))
  \o Send("self", Block, {"OK"}) \o Join
test2c_thread == Times(2 * Capacity, Recv(Block, {"OK"}))
Test2c == Thread(test2c_thread) \o Times(2 * Capacity, Send("self", Block, {"OK"})) \o Join

(* test4.c *)
Test4a ==
  drain_queue \o verify_mailbox_count(0, FALSE)
  \o FlattenSeq([i \in 1..Few |-> SendText(<<"msg", i>>) \o verify_mailbox_count(i, FALSE)])
  \o fill_mailbox \o verify_mailbox_count(Capacity, FALSE)
  \o Times(Few, Recv(NoBlock, {"OK"})) \o verify_mailbox_count(Capacity - Few, FALSE)
Test4b ==
  drain_queue \o fill_mailbox \o verify_mailbox_count(Capacity, TRUE)
  \o Send("self", NoBlock, {"MAILBOX_STOPPED"}) \o Send("self", Block, {"MAILBOX_STOPPED"})
  \o Recv(Block, {"OK"}) \o Times(Capacity - 1, Recv(NoBlock, {"OK"}))
  \o Recv(NoBlock, {"MAILBOX_STOPPED"}) \o Recv(Block, {"MAILBOX_STOPPED"})
Test4c ==
  drain_queue \o verify_mailbox_count(0, FALSE) \o Manage(FALSE, {"OK"}) \o send_recv_verify(<<"start">>)
test4_main == Test4a \o Test4b \o Test4c

(* test5.c: the result of recv_msg is not kept, so the second switch looks *)
(* at the send's again.  The loop ends when the time is up.                *)
do_send_recv(to) ==
  DoWhileTime(Send(to, NoBlock, Codes) \o RecvUnkept({"OK", "MAILBOX_EMPTY"}))
test5_main == Fork(do_send_recv("parent")) \o do_send_recv("child")

(* test9.c: the children echo into a mailbox nobody reads. *)
test9_main ==
  Times(N, Fork(Recv(Block, {"OK"}) \o Send("sender", Block, {"MAILBOX_STOPPED"}))
           \o Send("child", Block, {"OK"}))

-----------------------------------------------------------------------------
(* The sample tests look at no code. *)
Greet(body) == Fork(body) \o Send("child", NoBlock, Codes)
Echo == Recv(Block, Codes) \o Send("sender", Block, Codes)
testmailbox1 == Greet(Recv(Block, Codes))
testmailbox2 == Times(N, Greet(Echo)) \o Times(N, Recv(Block, Codes))
testmailbox3 ==
  Times(N, Greet(Echo)) \o Manage(TRUE, Codes) \o <<[op |-> "recv all"]>>
  \o Recv(Block, Codes) \o Greet(Echo)
testmailbox4 == Greet(<<>>) \o Send("child", NoBlock, Codes)
testmailbox5 == Times(N, Greet(Echo))
testmailbox7 == Times(N, Greet(Echo))
(* Michael Sanchez's copies do the same and print other words. *)
mike_testmailbox1 == testmailbox1
mike_testmailbox2 == testmailbox2
mike_testmailbox3 == testmailbox3
mike_testmailbox4 == testmailbox4
mike_testmailbox5 == testmailbox5
mike_testmailbox7 == testmailbox7

Program ==
  [test1 |-> test1_main, test1_recv |-> recv_msg_arg_test,
   test2b |-> Test2b, test2c |-> Test2c,
   test4 |-> test4_main,
   test5 |-> test5_main, test9 |-> test9_main,
   testmailbox1 |-> testmailbox1, testmailbox2 |-> testmailbox2, testmailbox3 |-> testmailbox3,
   testmailbox4 |-> testmailbox4, testmailbox5 |-> testmailbox5, testmailbox7 |-> testmailbox7,
   mike_testmailbox1 |-> mike_testmailbox1, mike_testmailbox2 |-> mike_testmailbox2,
   mike_testmailbox3 |-> mike_testmailbox3, mike_testmailbox4 |-> mike_testmailbox4,
   mike_testmailbox5 |-> mike_testmailbox5, mike_testmailbox7 |-> mike_testmailbox7]

ASSUME ProgramsAssumption == Programs \subseteq DOMAIN Program

(* The library the program is linked with. *)
library ==
  IF program \in {"testmailbox1", "testmailbox2", "testmailbox3",
                  "testmailbox4", "testmailbox5", "testmailbox7"} THEN "sample"
  ELSE IF program \in {"mike_testmailbox1", "mike_testmailbox2", "mike_testmailbox3",
                       "mike_testmailbox4", "mike_testmailbox5", "mike_testmailbox7"} THEN "mike"
  ELSE "foltan"

-----------------------------------------------------------------------------
(* Running a script. *)

SendMsg(code) ==
  CASE library = "sample" -> sample_SendMsg(code)
    [] library = "mike"   -> mike_SendMsg(code)
    [] library = "foltan" -> foltan_SendMsg(negative, code)
RcvMsg(code) ==
  CASE library = "sample" -> sample_RcvMsg(code)
    [] library = "mike"   -> mike_RcvMsg(code)
    [] library = "foltan" -> foltan_RcvMsg(negative, code)
ManageMailbox(code) ==
  CASE library = "sample" -> sample_ManageMailbox(code)
    [] library = "mike"   -> mike_ManageMailbox(code)
    [] library = "foltan" -> foltan_ManageMailbox(negative, code)

PInit ==
  /\ life = [p \in Processes |-> IF p = root THEN "running" ELSE "unborn"]
  /\ ServiceInit
  /\ program \in Programs
  /\ negative \in IF library = "foltan" THEN Kernels ELSE {FALSE}
  /\ script = [t \in Tasks |-> IF t = <<root, "main">> THEN Program[program] ELSE <<>>]
  /\ rc = [t \in Tasks |-> "OK"]
  /\ from = [p \in Processes |-> root]
  /\ child = [p \in Processes |-> root]
  /\ count = [p \in Processes |-> 0]
  /\ failed = {}

at(t, op) == life[t[1]] = "running" /\ script[t] # <<>> /\ Head(script[t]).op = op
advance(t) == script' = [script EXCEPT ![t] = Tail(@)] /\ UNCHANGED <<life, failed>>
FAILURE_EXIT(t) == failed' = failed \cup {t} /\ exit_call(t[1]) /\ UNCHANGED script
conclude(t, good) == IF good THEN advance(t) ELSE FAILURE_EXIT(t)
(* A loop that goes on while the code is OK. *)
loop(t, code, want) ==
  IF code = "OK" THEN UNCHANGED <<script, life, failed>> ELSE conclude(t, code \in want)

destination(p, to) ==
  CASE to = "self" -> p [] to = "child" -> child[p] [] to = "sender" -> from[p] [] to = "parent" -> root

send(t) ==
  /\ at(t, "send")
  /\ LET i == Head(script[t])
         p == destination(t[1], i.to)
     IN  \E code \in __send_message(p) :
            /\ i.block => code # "MAILBOX_FULL"
            /\ deliver(p, [from |-> t[1], text |-> i.text], code)
            /\ rc' = [rc EXCEPT ![t] = SendMsg(code)]
            /\ conclude(t, rc'[t] \in i.want)
  /\ UNCHANGED <<stopped, from, child, count>>

(* message_create takes a length of 0, and refuses the others once the     *)
(* mailbox is there, as it is where the programs do this.                  *)
send_args(t) ==
  /\ at(t, "send args")
  /\ LET i == Head(script[t])
     IN  \E code \in IF i.len = "zero" THEN __send_message(t[1]) ELSE {"MSG_TOO_LONG"} :
            /\ deliver(t[1], [from |-> t[1], text |-> <<>>], code)
            /\ conclude(t, SendMsg(code) \in i.want)
  /\ UNCHANGED <<stopped, rc, from, child, count>>

(* Without a message the buffer holds anything, and a sender that was not  *)
(* set before is anyone.                                                   *)
recv(t) ==
  /\ at(t, "recv")
  /\ LET i == Head(script[t])
         m == Head(box[t[1]])
     IN  \E code \in __recieve_message(t[1]), same \in BOOLEAN, anyone \in Processes :
            /\ i.block => code # "MAILBOX_EMPTY"
            /\ code = "OK" => same = (m.text = i.text)
            /\ code # "OK" /\ i.text = <<>> => same
            /\ code # "MAILBOX_ERROR" => anyone = root
            /\ take(t[1], code)
            /\ from' = CASE code = "OK"            -> [from EXCEPT ![t[1]] = m.from]
                         [] code = "MAILBOX_ERROR" -> [from EXCEPT ![t[1]] = anyone]
                         [] OTHER                  -> from
            /\ rc' = IF i.keep THEN [rc EXCEPT ![t] = RcvMsg(code)] ELSE rc
            /\ conclude(t, rc'[t] \in i.want /\ (i.text # <<>> => same))
  /\ UNCHANGED <<stopped, child, count>>

(* A null pointer: there must be a message for it to be noticed, and the   *)
(* message is put back.                                                    *)
recv_args(t) ==
  /\ at(t, "recv args")
  /\ \E code \in __recieve_message(t[1]) :
        /\ get_mailbox_for_pid(t[1], code)
        /\ conclude(t, RcvMsg(IF code = "OK" THEN "MSG_ARG_ERROR" ELSE code) \in Head(script[t]).want)
  /\ UNCHANGED <<box, stopped, rc, from, child, count>>

(* The count is taken first, and the mailbox stopped after that.  Without  *)
(* a mailbox the count is not set: what testmailbox3 passes holds N.       *)
manage_mailbox(t) ==
  /\ at(t, "manage")
  /\ \E code \in __manage_mailbox(t[1]) :
        /\ get_mailbox_for_pid(t[1], code)
        /\ count' = [count EXCEPT ![t[1]] = IF code = "OK" THEN Len(box[t[1]]) ELSE N]
        /\ IF code = "OK"
           THEN script' = [script EXCEPT ![t] = <<[Head(@) EXCEPT !.op = "stop"]>> \o Tail(@)]
                /\ UNCHANGED <<life, failed>>
           ELSE conclude(t, ManageMailbox(code) \in Head(script[t]).want)
  /\ UNCHANGED <<box, stopped, rc, from, child>>
stop(t) ==
  /\ at(t, "stop")
  /\ manage(t[1], Head(script[t]).stop, "OK")
  /\ conclude(t, ManageMailbox("OK") \in Head(script[t]).want)
  /\ UNCHANGED <<box, rc, from, child, count>>
verify(t) ==
  /\ at(t, "verify")
  /\ conclude(t, count[t[1]] = Head(script[t]).n)
  /\ UNCHANGED <<box, stopped, memory, rc, from, child, count>>

drain(t) ==
  /\ at(t, "drain")
  /\ \E code \in __recieve_message(t[1]) :
        /\ take(t[1], code)
        /\ loop(t, RcvMsg(code), {"MAILBOX_EMPTY", "MAILBOX_STOPPED"})
  /\ UNCHANGED <<stopped, rc, from, child, count>>
fill(t) ==
  /\ at(t, "fill")
  /\ \E code \in __send_message(t[1]) :
        /\ deliver(t[1], [from |-> t[1], text |-> <<>>], code)
        /\ loop(t, SendMsg(code), {"MAILBOX_FULL"})
  /\ UNCHANGED <<stopped, rc, from, child, count>>
(* testmailbox3's loop over childCounter. *)
recv_all_keeps_count(t) ==
  /\ at(t, "recv all")
  /\ \/ /\ count[t[1]] > 0
        /\ \E code \in __recieve_message(t[1]) \ {"MAILBOX_EMPTY"} : take(t[1], code)
        /\ UNCHANGED <<script, life, failed, count>>
     \/ /\ count[t[1]] = 0
        /\ advance(t)
        /\ UNCHANGED <<box, memory, count>>
  /\ UNCHANGED <<stopped, rc, from, child>>
recv_all(t) ==
  /\ at(t, "recv all")
  /\ \/ /\ count[t[1]] > 0
        /\ \E code \in __recieve_message(t[1]) \ {"MAILBOX_EMPTY"} : take(t[1], code)
        /\ count' = [count EXCEPT ![t[1]] = @ - 1]
        /\ UNCHANGED <<script, life, failed>>
     \/ /\ count[t[1]] = 0
        /\ advance(t)
        /\ UNCHANGED <<box, memory, count>>
  /\ UNCHANGED <<stopped, rc, from, child>>

fork(t) ==
  /\ at(t, "fork")
  /\ \E p \in Processes : life[p] = "unborn"
  /\ LET p == CHOOSE p \in Processes : life[p] = "unborn" IN
        /\ life' = [life EXCEPT ![p] = "running"]
        /\ script' = [script EXCEPT ![t] = Tail(@), ![<<p, "main">>] = Head(script[t]).script]
        /\ child' = [child EXCEPT ![t[1]] = p]
  /\ UNCHANGED <<box, stopped, memory, rc, from, count, failed>>
pthread_create(t) ==
  /\ at(t, "thread")
  /\ script' = [script EXCEPT ![t] = Tail(@), ![<<t[1], "thread">>] = Head(script[t]).script]
  /\ UNCHANGED <<service, rc, from, child, count, failed>>
pthread_join(t) ==
  /\ at(t, "join")
  /\ script[<<t[1], "thread">>] = <<>>
  /\ advance(t)
  /\ UNCHANGED <<box, stopped, memory, rc, from, child, count>>

(* While there is time: the body once more. *)
again(t) ==
  /\ at(t, "repeat")
  /\ script' = [script EXCEPT ![t] = Head(@).script \o @]
  /\ UNCHANGED <<service, rc, from, child, count, failed>>
times_up(t) ==
  /\ at(t, "repeat")
  /\ advance(t)
  /\ UNCHANGED <<box, stopped, memory, rc, from, child, count>>

(* main returns. *)
return_from_main(p) ==
  /\ life[p] = "running"
  /\ script[<<p, "main">>] = <<>>
  /\ exit_call(p)
  /\ UNCHANGED <<box, stopped, memory, local>>

Instruction(t) ==
  \/ send(t) \/ send_args(t) \/ recv(t) \/ recv_args(t)
  \/ manage_mailbox(t) \/ stop(t) \/ verify(t) \/ drain(t) \/ fill(t) \/ recv_all(t)
  \/ fork(t) \/ pthread_create(t) \/ pthread_join(t) \/ again(t) \/ times_up(t)
Kernel(p) == return_from_main(p) \/ (exited(p) /\ UNCHANGED local)
AllEnded == \A p \in Processes : life[p] \in {"unborn", "dead"}

PNext ==
  \/ (\E t \in Tasks : Instruction(t)) /\ UNCHANGED setting
  \/ (\E p \in Processes : Kernel(p)) /\ UNCHANGED setting
  \/ AllEnded /\ UNCHANGED pvars

PSpec ==
  /\ PInit
  /\ [][PNext]_pvars

(* Somebody who can run does, and time passes.  Scripts have an end, but   *)
(* for their loops, and a loop is left once: nothing is needed for each    *)
(* task apart.                                                             *)
PFairSpec ==
  /\ PSpec
  /\ WF_pvars(PNext)
  /\ SF_pvars((\E t \in Tasks : times_up(t)) /\ UNCHANGED setting)

-----------------------------------------------------------------------------
(* Properties *)

(* The types; no mailbox holds more than it may. *)
PTypeOK ==
  /\ program \in Programs /\ negative \in BOOLEAN
  /\ life \in [Processes -> {"unborn", "running", "exiting", "dead"}]
  /\ \A p \in Processes : Len(box[p]) <= Capacity
  /\ stopped \subseteq Processes /\ made \subseteq Processes
  /\ failures \in 0..MaxFailures
  /\ rc \in [Tasks -> Codes]
  /\ from \in [Processes -> Processes] /\ child \in [Processes -> Processes]
  /\ count \in [Processes -> 0..Capacity \cup 0..N]
  /\ failed \subseteq Tasks

(* Where a test is known to ask for something else than the kernel does:   *)
(* an error for a message of length 0 and for null pointers when there is  *)
(* no message, a restart (test4c), a receive code that is not kept         *)
(* (test5), an echo that must be refused (test9).  Over Message_LKM the    *)
(* library turns every code into success: any call that must fail.         *)
Disagrees(i) ==
  IF negative
  THEN \/ i.op = "send args" /\ i.len = "zero"
       \/ i.op = "recv args"
       \/ i.op = "send" /\ i.text = <<"start">>
       \/ i.op = "recv" /\ ~i.keep
       \/ i.op = "send" /\ i.to = "sender" /\ i.want = {"MAILBOX_STOPPED"}
  ELSE i.op \in {"send", "send args", "recv", "recv args"} /\ "OK" \notin i.want

(* Every other code, message and count is what the test wants it to be, as *)
(* long as there is memory.                                                *)
ExpectationsHold == failures = 0 => \A t \in failed : Disagrees(Head(script[t]))

(* All processes of a test come to their end: nobody is left waiting for a *)
(* message or for room, whoever exits first, unless memory ran out; but    *)
(* over Message_LKM drain_queue takes every code for one more message, for *)
(* ever.                                                                   *)
DrainsForEver == ~negative /\ \E t \in Tasks : at(t, "drain")
ProgramEnds == <>(AllEnded \/ failures > 0) \/ <>[]DrainsForEver

(* Every test passes that has enough memory, as its closing line says:     *)
(* "Complete -- PASS!" (test_utils.c 77).                                  *)
EveryTestPasses == failed = {}

(* A peer's full mailbox ends no process. *)
FullIsNoFailure == \A t \in failed : rc[t] # "MAILBOX_FULL"

(* What ManageMailbox says while it stops a mailbox covers the messages    *)
(* in it.                                                                  *)
CountCoversMailbox == \A p \in stopped : Len(box[p]) <= count[p]
=============================================================================
