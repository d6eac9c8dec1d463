---------------------------- MODULE ScriptsProofs ----------------------------
(***************************************************************************)
(* The types of Scripts.tla for any number of processes and children and   *)
(* any capacity.  A code is a code only if a send goes to a process, so    *)
(* what the programs' scripts may consist of comes first.                  *)
(***************************************************************************)
EXTENDS Scripts, NaturalsInduction, WellFoundedInduction, TLAPS

(* The instructions: those that stand alone, loops of them, and what is    *)
(* given to another process or thread to do.                               *)
Text == {<<>>, <<"start">>} \cup ({"Msg", "slow", "burst", "msg"} \X Nat)
Destinations == {"self", "child", "sender", "parent"}
Sends ==
  [op : {"send"}, to : Destinations, block : BOOLEAN, want : SUBSET Codes, text : Text]
Receives ==
  [op : {"recv"}, block : BOOLEAN, want : SUBSET Codes, text : Text, keep : BOOLEAN]
Others ==
  [op : {"send args"}, len : {"zero", "negative", "long"}, want : SUBSET Codes]
  \cup [op : {"recv args"}, want : SUBSET Codes]
  \cup [op : {"manage", "stop"}, stop : BOOLEAN, want : SUBSET Codes]
  \cup [op : {"verify"}, n : Nat]
  \cup [op : {"drain", "fill", "recv all", "join"}]
Single == Sends \cup Receives \cup Others
Looping == Single \cup [op : {"repeat"}, script : Seq(Single)]
Instructions == Looping \cup [op : {"fork", "thread"}, script : Seq(Looping)]

-----------------------------------------------------------------------------
(* Every nonempty set of natural numbers has a least element. *)
LEMMA LeastNat ==
  ASSUME NEW T \in SUBSET Nat, T # {}
  PROVE  \E x \in T : \A y \in T : x <= y
  <1>1. PICK x \in T : \A y \in T : ~(<<y, x>> \in OpToRel(<, Nat))
    BY NatLessThanWellFounded, WFMin
  <1>2. \A y \in T : ~(y < x)
    BY <1>1 DEF OpToRel
  <1> QED
    BY <1>2

(* f is FlattenSeq's recursion over the first n of those sequences. *)
Flattens(f, seqs, n) == f = [i \in 1..n |-> IF i = 1 THEN seqs[i] ELSE f[i-1] \o seqs[i]]

(* It has a solution: the shortest prefix without one would have one. *)
LEMMA FlattenDefined ==
  ASSUME NEW S, NEW n \in Nat, NEW seqs \in [1..n -> Seq(S)]
  PROVE  \E f : Flattens(f, seqs, n)
  <1> DEFINE Bad == {m \in 0..n : ~\E f : Flattens(f, seqs, m)}
  <1>1. SUFFICES ASSUME Bad # {}
                 PROVE  FALSE
    <2>1. n \in 0..n
      OBVIOUS
    <2> QED
      BY <2>1
  <1>2. PICK m \in Bad : \A k \in Bad : m <= k
    <2>1. Bad \in SUBSET Nat
      OBVIOUS
    <2> HIDE DEF Bad
    <2> QED
      BY <1>1, <2>1, LeastNat
  <1>3. m \in 0..n /\ ~\E f : Flattens(f, seqs, m)
    BY <1>2
  <1>4. m # 0
    <2>1. Flattens([i \in 1..0 |-> seqs[i]], seqs, 0)
      BY DEF Flattens
    <2> QED
      BY <1>3, <2>1
  <1>5. PICK f : Flattens(f, seqs, m-1)
    <2>1. m-1 \in 0..n /\ ~(m <= m-1)
      BY <1>3, <1>4
    <2>2. m-1 \notin Bad
      <3> HIDE DEF Bad
      <3> QED
        BY <1>2, <2>1
    <2> QED
      BY <2>1, <2>2
  <1> DEFINE g == [i \in 1..m |-> IF i = 1 THEN seqs[i] ELSE f[i-1] \o seqs[i]]
  <1>6. \A i \in 1..m-1 : g[i] = f[i]
    <2>1. \A i \in 1..m-1 : i \in 1..m
      BY <1>3
    <2> QED
      BY <1>5, <2>1 DEF Flattens
  <1>7. Flattens(g, seqs, m)
    <2>1. \A i \in 1..m : i # 1 => i-1 \in 1..m-1
      BY <1>3
    <2> HIDE DEF g
    <2>2. \A i \in 1..m : i # 1 => g[i-1] = f[i-1]
      BY <1>6, <2>1
    <2> QED
      BY <2>2 DEF g, Flattens
  <1> QED
    BY <1>3, <1>7

(* Sequences over S, one after the other, are a sequence over S. *)
LEMMA FlattenType ==
  ASSUME NEW S, NEW n \in Nat, NEW seqs \in [1..n -> Seq(S)]
  PROVE  FlattenSeq(seqs) \in Seq(S)
  <1>1. seqs \in Seq(Seq(S)) /\ Len(seqs) = n
    OBVIOUS
  <1>2. CASE n = 0
    BY <1>1, <1>2 DEF FlattenSeq
  <1>3. CASE n # 0
    <2> DEFINE flatten == CHOOSE f : f = [i \in 1..n |-> IF i = 1 THEN seqs[i] ELSE f[i-1] \o seqs[i]]
    <2>1. flatten = [i \in 1..n |-> IF i = 1 THEN seqs[i] ELSE flatten[i-1] \o seqs[i]]
      BY FlattenDefined DEF Flattens
    <2>2. FlattenSeq(seqs) = flatten[n]
      BY <1>1, <1>3 DEF FlattenSeq
    <2> HIDE DEF flatten
    <2> DEFINE Bad == {i \in 1..n : flatten[i] \notin Seq(S)}
    <2>3. SUFFICES ASSUME Bad # {}
                   PROVE  FALSE
      <3>1. n \in 1..n
        BY <1>3
      <3> QED
        BY <2>2, <3>1
    <2>4. PICK i \in Bad : \A k \in Bad : i <= k
      <3>1. Bad \in SUBSET Nat
        OBVIOUS
      <3> HIDE DEF Bad
      <3> QED
        BY <2>3, <3>1, LeastNat
    <2>5. i \in 1..n /\ flatten[i] \notin Seq(S)
      BY <2>4
    <2>6. i # 1
      BY <2>1, <2>5
    <2>7. i-1 \in 1..n /\ ~(i <= i-1)
      BY <2>5, <2>6
    <2>8. flatten[i-1] \in Seq(S)
      <3>1. i-1 \notin Bad
        <4> HIDE DEF Bad
        <4> QED
          BY <2>4, <2>7
      <3> QED
        BY <2>7, <3>1
    <2>9. flatten[i] = flatten[i-1] \o seqs[i] /\ seqs[i] \in Seq(S)
      BY <2>1, <2>5, <2>6
    <2> QED
      BY <2>5, <2>8, <2>9
  <1> QED
    BY <1>2, <1>3

-----------------------------------------------------------------------------
(* What the instructions are. *)

(* A larger set will do. *)
LEMMA Longer ==
  ASSUME NEW A, NEW B, A \subseteq B
  PROVE  Seq(A) \subseteq Seq(B)
  OBVIOUS

(* Sequences of one. *)
LEMMA OfOne ==
  ASSUME NEW S, NEW x \in S
  PROVE  <<x>> \in Seq(S)
  OBVIOUS

(* What the fields of an instruction are, by its op. *)
LEMMA Kinds ==
  ASSUME NEW i \in Instructions
  PROVE  /\ i.op = "send" => i.to \in Destinations /\ i.text \in Text
         /\ i.op = "manage" => [i EXCEPT !.op = "stop"] \in Instructions
         /\ i.op = "repeat" => i.script \in Seq(Instructions)
         /\ i.op \in {"fork", "thread"} => i.script \in Seq(Instructions)
  <1>1. i.op = "send" => i.to \in Destinations /\ i.text \in Text
    BY DEF Instructions, Looping, Single, Sends, Receives, Others
  <1>2. i.op = "manage" => i \in [op : {"manage", "stop"}, stop : BOOLEAN, want : SUBSET Codes]
    BY DEF Instructions, Looping, Single, Sends, Receives, Others
  <1>3. i.op = "manage" => [i EXCEPT !.op = "stop"] \in
                              [op : {"manage", "stop"}, stop : BOOLEAN, want : SUBSET Codes]
    BY <1>2
  <1>4. i.op = "manage" => [i EXCEPT !.op = "stop"] \in Instructions
    BY <1>3 DEF Instructions, Looping, Single, Others
  <1>5. i.op = "repeat" => i.script \in Seq(Single)
    BY DEF Instructions, Looping, Single, Sends, Receives, Others
  <1>6. i.op \in {"fork", "thread"} => i.script \in Seq(Looping)
    BY DEF Instructions, Looping, Single, Sends, Receives, Others
  <1>7. Seq(Single) \subseteq Seq(Instructions) /\ Seq(Looping) \subseteq Seq(Instructions)
    BY Longer DEF Instructions, Looping
  <1> QED
    BY <1>1, <1>4, <1>5, <1>6, <1>7

(* The sequences of one that programs are made of. *)
LEMMA SingleTypes ==
  ASSUME NEW to \in Destinations, NEW b \in BOOLEAN, NEW want \in SUBSET Codes, NEW m \in Text,
         NEW len \in {"zero", "negative", "long"}, NEW n \in Nat
  PROVE  /\ Send(to, b, want) \in Seq(Single) /\ SendText(m) \in Seq(Single)
         /\ SendArgs(len, want) \in Seq(Single)
         /\ Recv(b, want) \in Seq(Single) /\ RecvText(m) \in Seq(Single)
         /\ RecvUnkept(want) \in Seq(Single) /\ RecvArgs(want) \in Seq(Single)
         /\ Manage(b, want) \in Seq(Single)
         /\ Join \in Seq(Single) /\ drain_queue \in Seq(Single) /\ fill_mailbox \in Seq(Single)
         /\ <<[op |-> "recv all"]>> \in Seq(Single)
         /\ verify_mailbox_count(n, b) \in Seq(Single)
  <1>0. "OK" \in Codes /\ "self" \in Destinations /\ <<>> \in Text
    BY DEF Codes, Destinations, Text
  <1>1. Send(to, b, want) \in Seq(Single) /\ SendText(m) \in Seq(Single)
    BY <1>0 DEF Send, SendText, Single, Sends
  <1>2. Recv(b, want) \in Seq(Single) /\ RecvText(m) \in Seq(Single) /\ RecvUnkept(want) \in Seq(Single)
    BY <1>0 DEF Recv, RecvText, RecvUnkept, Single, Receives
  <1>3. SendArgs(len, want) \in Seq(Single) /\ RecvArgs(want) \in Seq(Single)
    <2>1. /\ [op |-> "send args", len |-> len, want |-> want] \in
                [op : {"send args"}, len : {"zero", "negative", "long"}, want : SUBSET Codes]
          /\ [op |-> "recv args", want |-> want] \in [op : {"recv args"}, want : SUBSET Codes]
      OBVIOUS
    <2>2. /\ [op |-> "send args", len |-> len, want |-> want] \in Single
          /\ [op |-> "recv args", want |-> want] \in Single
      BY <2>1, Zenon DEF Single, Others
    <2> QED
      BY <2>2, OfOne, Zenon DEF SendArgs, RecvArgs
  <1>4. /\ Join \in Seq(Single) /\ drain_queue \in Seq(Single) /\ fill_mailbox \in Seq(Single)
        /\ <<[op |-> "recv all"]>> \in Seq(Single)
    BY DEF Join, drain_queue, fill_mailbox, Single, Others
  <1>5. ASSUME NEW w \in SUBSET Codes
        PROVE  Manage(b, w) \in Seq(Single)
    <2>1. [op |-> "manage", stop |-> b, want |-> w] \in
             [op : {"manage", "stop"}, stop : BOOLEAN, want : SUBSET Codes]
      OBVIOUS
    <2>2. [op |-> "manage", stop |-> b, want |-> w] \in Single
      BY <2>1, Zenon DEF Single, Others
    <2> QED
      BY <2>2 DEF Manage
  <1>6. <<[op |-> "verify", n |-> n]>> \in Seq(Single)
    <2>1. [op |-> "verify", n |-> n] \in [op : {"verify"}, n : Nat]
      OBVIOUS
    <2>2. [op |-> "verify", n |-> n] \in Single
      BY <2>1, Zenon DEF Single, Others
    <2> QED
      BY <2>2
  <1>7. verify_mailbox_count(n, b) \in Seq(Single)
    BY <1>0, <1>5, <1>6 DEF verify_mailbox_count
  <1> QED
    BY <1>1, <1>2, <1>3, <1>4, <1>5, <1>7

(* Repetition. *)
LEMMA TimesType ==
  ASSUME NEW S, NEW n \in Nat, NEW s \in Seq(S)
  PROVE  Times(n, s) \in Seq(S)
  BY FlattenType DEF Times

(* fork, pthread_create and the loops of test5. *)
LEMMA NestedTypes ==
  /\ \A body \in Seq(Looping) : Fork(body) \in Seq(Instructions) /\ Thread(body) \in Seq(Instructions)
  /\ \A body \in Seq(Single) : DoWhileTime(body) \in Seq(Looping)
  /\ Seq(Single) \subseteq Seq(Looping)
  /\ Seq(Looping) \subseteq Seq(Instructions)
  <1>1. Seq(Single) \subseteq Seq(Looping) /\ Seq(Looping) \subseteq Seq(Instructions)
    BY Longer DEF Instructions, Looping
  <1>2. \A body \in Seq(Looping) : Fork(body) \in Seq(Instructions) /\ Thread(body) \in Seq(Instructions)
    BY DEF Fork, Thread, Instructions
  <1>3. ASSUME NEW body \in Seq(Single)
        PROVE  DoWhileTime(body) \in Seq(Looping)
    <2>1. <<[op |-> "repeat", script |-> body]>> \in Seq(Looping)
      BY DEF Looping
    <2> QED
      BY <1>1, <2>1 DEF DoWhileTime
  <1> QED
    BY <1>1, <1>2, <1>3

(* Sequences over S one after the other. *)
LEMMA Joined ==
  ASSUME NEW S, NEW a \in Seq(S), NEW b \in Seq(S)
  PROVE  a \o b \in Seq(S)
  OBVIOUS

-----------------------------------------------------------------------------
(* The programs consist of those instructions, whatever Capacity, Few and  *)
(* N are.                                                                  *)

(* The counts and sets of codes they use. *)
LEMMA Numbers ==
  /\ {N, Few, Capacity, 2 * Capacity, Capacity - 1, Capacity - Few} \subseteq Nat
  /\ GoodErrors \subseteq Codes /\ Failure \subseteq Codes
  /\ {"OK", "MAILBOX_EMPTY", "MAILBOX_STOPPED", "MSG_ARG_ERROR", "MAILBOX_ERROR"} \subseteq Codes
  /\ Block \in BOOLEAN /\ NoBlock \in BOOLEAN
  <1>1. {N, Few, Capacity, 2 * Capacity, Capacity - 1, Capacity - Few} \subseteq Nat
    BY ScriptsAssumption, ServiceAssumption
  <1> QED
    BY <1>1 DEF GoodErrors, Failure, Codes, Block, NoBlock

(* test1.c. *)
LEMMA Test1Type == test1_main \in Seq(Single) /\ recv_msg_arg_test \in Seq(Single)
  <1>1. ASSUME NEW m \in {"Msg", "slow", "burst"}, NEW n \in Nat
        PROVE  paced_send_recv_verify(m, n) \in Seq(Single)
    <2>1. ASSUME NEW i \in 1..n
          PROVE  send_recv_verify(<<m, i>>) \in Seq(Single)
      <3>1. <<m, i>> \in Text
        BY DEF Text
      <3>2. SendText(<<m, i>>) \in Seq(Single) /\ RecvText(<<m, i>>) \in Seq(Single)
        BY <3>1, SingleTypes DEF Destinations
      <3> QED
        BY <3>2, Joined DEF send_recv_verify
    <2>2. [i \in 1..n |-> send_recv_verify(<<m, i>>)] \in [1..n -> Seq(Single)]
      BY <2>1
    <2> QED
      BY <2>2, FlattenType DEF paced_send_recv_verify
  <1>2. basic_send_recv_test \in Seq(Single) /\ slow_send_recv_test \in Seq(Single)
        /\ burst_send_recv_test \in Seq(Single)
    BY <1>1, Numbers DEF basic_send_recv_test, slow_send_recv_test, burst_send_recv_test
  <1>3. "self" \in Destinations /\ {"OK"} \in SUBSET Codes /\ Failure \in SUBSET Codes /\ <<>> \in Text
    BY Numbers DEF Destinations, Text
  <1>4. /\ Send("self", NoBlock, {"OK"}) \in Seq(Single) /\ Send("self", NoBlock, Failure) \in Seq(Single)
        /\ Recv(NoBlock, {"OK"}) \in Seq(Single) /\ Recv(NoBlock, Failure) \in Seq(Single)
        /\ drain_queue \in Seq(Single)
    BY <1>3, SingleTypes, Numbers
  <1>5. overflow_queue_test \in Seq(Single)
    BY <1>4, TimesType, Joined, Numbers DEF overflow_queue_test
  <1>6. underflow_queue_test \in Seq(Single)
    BY <1>4, TimesType, Joined, Numbers DEF underflow_queue_test
  <1>7. send_msg_arg_test \in Seq(Single)
    <2>1. \A len \in {"zero", "negative", "long"} : SendArgs(len, GoodErrors) \in Seq(Single)
      BY <1>3, SingleTypes, Numbers
    <2> QED
      BY <2>1, TimesType, Joined DEF send_msg_arg_test
  <1>8. recv_msg_arg_test \in Seq(Single)
    <2>1. RecvArgs({"MSG_ARG_ERROR", "MAILBOX_ERROR"}) \in Seq(Single)
      BY <1>3, SingleTypes, Numbers
    <2> QED
      BY <2>1, TimesType DEF recv_msg_arg_test
  <1> QED
    BY <1>2, <1>5, <1>6, <1>7, <1>8, Joined DEF test1_main

(* test2.c. *)
LEMMA Test2Type == Test2b \in Seq(Instructions) /\ Test2c \in Seq(Instructions)
  <1>1. "self" \in Destinations /\ {"OK"} \in SUBSET Codes /\ <<>> \in Text
    BY Numbers DEF Destinations, Text
  <1>2. /\ Send("self", NoBlock, {"OK"}) \in Seq(Single) /\ Send("self", Block, {"OK"}) \in Seq(Single)
        /\ Recv(Block, {"OK"}) \in Seq(Single) /\ Join \in Seq(Single)
    BY <1>1, SingleTypes, Numbers
  <1>3. /\ test2b_thread \in Seq(Single)
        /\ Times(Capacity, Send("self", NoBlock, {"OK"})) \o Send("self", Block, {"OK"}) \o Join \in Seq(Single)
    BY <1>2, TimesType, Joined, Numbers DEF test2b_thread
  <1>4. /\ test2c_thread \in Seq(Single)
        /\ Times(2 * Capacity, Send("self", Block, {"OK"})) \o Join \in Seq(Single)
    BY <1>2, TimesType, Joined, Numbers DEF test2c_thread
  <1>5. Test2b \in Seq(Instructions)
    BY <1>2, <1>3, NestedTypes, TimesType, Joined, Numbers DEF Test2b
  <1>6. Test2c \in Seq(Instructions)
    BY <1>2, <1>4, NestedTypes, TimesType, Joined, Numbers DEF Test2c
  <1> QED
    BY <1>5, <1>6

(* test4.c. *)
LEMMA Test4Type == test4_main \in Seq(Single)
  <1>1. /\ "self" \in Destinations /\ {"OK"} \in SUBSET Codes /\ {"MAILBOX_STOPPED"} \in SUBSET Codes
        /\ <<>> \in Text /\ <<"start">> \in Text /\ \A i \in Nat : <<"msg", i>> \in Text
    BY Numbers DEF Destinations, Text
  <1>2. \A n \in Nat, b \in BOOLEAN : verify_mailbox_count(n, b) \in Seq(Single)
    BY <1>1, SingleTypes
  <1>3. \A m \in Text : SendText(m) \in Seq(Single) /\ RecvText(m) \in Seq(Single)
    BY <1>1, SingleTypes
  <1>4. /\ Recv(NoBlock, {"OK"}) \in Seq(Single) /\ Recv(Block, {"OK"}) \in Seq(Single)
        /\ Send("self", NoBlock, {"MAILBOX_STOPPED"}) \in Seq(Single)
        /\ Send("self", Block, {"MAILBOX_STOPPED"}) \in Seq(Single)
        /\ Recv(NoBlock, {"MAILBOX_STOPPED"}) \in Seq(Single)
        /\ Recv(Block, {"MAILBOX_STOPPED"}) \in Seq(Single)
        /\ Manage(FALSE, {"OK"}) \in Seq(Single)
        /\ drain_queue \in Seq(Single) /\ fill_mailbox \in Seq(Single)
    BY <1>1, SingleTypes, Numbers
  <1>5. Test4a \in Seq(Single)
    <2>1. [i \in 1..Few |-> SendText(<<"msg", i>>) \o verify_mailbox_count(i, FALSE)] \in [1..Few -> Seq(Single)]
      <3>1. ASSUME NEW i \in 1..Few
            PROVE  SendText(<<"msg", i>>) \o verify_mailbox_count(i, FALSE) \in Seq(Single)
        <4>1. i \in Nat /\ FALSE \in BOOLEAN
          OBVIOUS
        <4>2. SendText(<<"msg", i>>) \in Seq(Single) /\ verify_mailbox_count(i, FALSE) \in Seq(Single)
          BY <1>1, <1>2, <1>3, <4>1
        <4> QED
          BY <4>2, Joined
      <3> QED
        BY <3>1
    <2>2. FlattenSeq([i \in 1..Few |-> SendText(<<"msg", i>>) \o verify_mailbox_count(i, FALSE)]) \in Seq(Single)
      BY <2>1, FlattenType, Numbers
    <2>3. /\ Times(Few, Recv(NoBlock, {"OK"})) \in Seq(Single)
          /\ verify_mailbox_count(0, FALSE) \in Seq(Single)
          /\ verify_mailbox_count(Capacity, FALSE) \in Seq(Single)
          /\ verify_mailbox_count(Capacity - Few, FALSE) \in Seq(Single)
      BY <1>2, <1>4, TimesType, Numbers
    <2> QED
      BY <1>4, <2>2, <2>3, Joined DEF Test4a
  <1>6. Test4b \in Seq(Single)
    <2>1. /\ Times(Capacity - 1, Recv(NoBlock, {"OK"})) \in Seq(Single)
          /\ verify_mailbox_count(Capacity, TRUE) \in Seq(Single)
      BY <1>2, <1>4, TimesType, Numbers
    <2> QED
      BY <1>4, <2>1, Joined DEF Test4b
  <1>7. Test4c \in Seq(Single)
    <2>1. send_recv_verify(<<"start">>) \in Seq(Single) /\ verify_mailbox_count(0, FALSE) \in Seq(Single)
      BY <1>1, <1>2, <1>3, Joined DEF send_recv_verify
    <2> QED
      BY <1>4, <2>1, Joined DEF Test4c
  <1> QED
    BY <1>5, <1>6, <1>7, Joined DEF test4_main

(* test5.c and test9.c. *)
LEMMA Test5And9Type == test5_main \in Seq(Instructions) /\ test9_main \in Seq(Instructions)
  <1>1. /\ Destinations = {"self", "child", "sender", "parent"} /\ {"OK"} \in SUBSET Codes
        /\ {"MAILBOX_STOPPED"} \in SUBSET Codes /\ {"OK", "MAILBOX_EMPTY"} \in SUBSET Codes
        /\ Codes \in SUBSET Codes /\ <<>> \in Text
    BY Numbers DEF Destinations, Text
  <1>2. ASSUME NEW to \in {"parent", "child"}
        PROVE  do_send_recv(to) \in Seq(Looping)
    <2>1. Send(to, NoBlock, Codes) \in Seq(Single) /\ RecvUnkept({"OK", "MAILBOX_EMPTY"}) \in Seq(Single)
      BY <1>1, SingleTypes, Numbers
    <2> QED
      BY <2>1, NestedTypes, Joined DEF do_send_recv
  <1>3. test5_main \in Seq(Instructions)
    BY <1>2, NestedTypes, Joined DEF test5_main
  <1>4. /\ Recv(Block, {"OK"}) \in Seq(Single) /\ Send("sender", Block, {"MAILBOX_STOPPED"}) \in Seq(Single)
        /\ Send("child", Block, {"OK"}) \in Seq(Single)
    BY <1>1, SingleTypes, Numbers
  <1>5. Recv(Block, {"OK"}) \o Send("sender", Block, {"MAILBOX_STOPPED"}) \in Seq(Looping)
    BY <1>4, NestedTypes, Joined
  <1>6. Fork(Recv(Block, {"OK"}) \o Send("sender", Block, {"MAILBOX_STOPPED"}))
        \o Send("child", Block, {"OK"}) \in Seq(Instructions)
    BY <1>4, <1>5, NestedTypes, Joined
  <1>7. test9_main \in Seq(Instructions)
    BY <1>6, TimesType, Numbers DEF test9_main
  <1> QED
    BY <1>3, <1>7

(* The sample tests. *)
LEMMA SampleTypes ==
  /\ {testmailbox1, testmailbox2, testmailbox3, testmailbox4, testmailbox5, testmailbox7}
        \subseteq Seq(Instructions)
  <1>1. /\ Destinations = {"self", "child", "sender", "parent"}
        /\ Codes \in SUBSET Codes /\ <<>> \in Text
    BY DEF Destinations, Text
  <1>2. /\ Recv(Block, Codes) \in Seq(Single) /\ Send("sender", Block, Codes) \in Seq(Single)
        /\ Send("child", NoBlock, Codes) \in Seq(Single) /\ Manage(TRUE, Codes) \in Seq(Single)
        /\ <<[op |-> "recv all"]>> \in Seq(Single)
    BY <1>1, SingleTypes, Numbers
  <1>3. Echo \in Seq(Single)
    BY <1>2, Joined DEF Echo
  <1>4. \A body \in Seq(Single) : Greet(body) \in Seq(Instructions)
    BY <1>2, NestedTypes, Joined DEF Greet
  <1>5. <<>> \in Seq(Single)
    OBVIOUS
  <1>6. /\ Times(N, Greet(Echo)) \in Seq(Instructions) /\ Greet(Echo) \in Seq(Instructions)
        /\ Greet(Recv(Block, Codes)) \in Seq(Instructions) /\ Greet(<<>>) \in Seq(Instructions)
        /\ Times(N, Recv(Block, Codes)) \in Seq(Instructions)
    BY <1>2, <1>3, <1>4, <1>5, TimesType, NestedTypes, Numbers
  <1>7. testmailbox1 \in Seq(Instructions) /\ testmailbox5 \in Seq(Instructions)
        /\ testmailbox7 \in Seq(Instructions)
    BY <1>6 DEF testmailbox1, testmailbox5, testmailbox7
  <1>8. testmailbox2 \in Seq(Instructions) /\ testmailbox4 \in Seq(Instructions)
    BY <1>2, <1>6, NestedTypes, Joined DEF testmailbox2, testmailbox4
  <1>9. testmailbox3 \in Seq(Instructions)
    BY <1>2, <1>6, NestedTypes, Joined DEF testmailbox3
  <1> QED
    BY <1>7, <1>8, <1>9

(* All programs of a run. *)
LEMMA ProgramType == \A name \in Programs : Program[name] \in Seq(Instructions)
  <1>1. {test1_main, recv_msg_arg_test, test4_main} \subseteq Seq(Instructions)
    BY Test1Type, Test4Type, NestedTypes
  <1>2. \A name \in DOMAIN Program :
           Program[name] \in {test1_main, recv_msg_arg_test, test4_main, Test2b, Test2c,
                              test5_main, test9_main, testmailbox1, testmailbox2, testmailbox3,
                              testmailbox4, testmailbox5, testmailbox7}
    BY DEF Program, mike_testmailbox1, mike_testmailbox2, mike_testmailbox3, mike_testmailbox4,
           mike_testmailbox5, mike_testmailbox7
  <1> QED
    BY <1>1, <1>2, Test2Type, Test5And9Type, SampleTypes, ProgramsAssumption

-----------------------------------------------------------------------------
(* The invariant: what is still to be done consists of instructions, and a *)
(* message names the process that sent it.                                 *)
Letters == [from : Processes, text : Text]
PInv ==
  /\ PTypeOK
  /\ box \in [Processes -> Seq(Letters)]
  /\ script \in [Tasks -> Seq(Instructions)]

(* The libraries make codes of codes. *)
LEMMA LibraryCodes ==
  ASSUME NEW code \in Codes
  PROVE  SendMsg(code) \in Codes /\ RcvMsg(code) \in Codes /\ ManageMailbox(code) \in Codes
  <1>1. ASSUME NEW n
        PROVE  syscall(n, code).result \in Codes /\ FromErrno(syscall(n, code)) \in Codes
    <2>1. CASE code = "OK" \/ ~n
      BY <2>1 DEF syscall, FromErrno, Codes
    <2>2. CASE ~(code = "OK" \/ ~n)
      BY <2>2 DEF syscall, FromErrno, Codes
    <2> QED
      BY <2>1, <2>2
  <1>2. library \in {"sample", "mike", "foltan"}
    BY DEF library
  <1>3. SendMsg(code) \in Codes
    BY <1>1, <1>2 DEF SendMsg, sample_SendMsg, mike_SendMsg, foltan_SendMsg
  <1>4. RcvMsg(code) \in Codes
    BY <1>1, <1>2 DEF RcvMsg, sample_RcvMsg, mike_RcvMsg, foltan_RcvMsg
  <1>5. ManageMailbox(code) \in Codes
    BY <1>1, <1>2 DEF ManageMailbox, sample_ManageMailbox, mike_ManageMailbox, foltan_ManageMailbox
  <1> QED
    BY <1>3, <1>4, <1>5

(* Mailboxes hold letters, no more than fit; allocations fail no more      *)
(* often than they may.                                                    *)
BoxOK == box' \in [Processes -> Seq(Letters)] /\ \A r \in Processes : Len(box'[r]) <= Capacity
MemoryOK == made' \subseteq Processes /\ failures' \in 0..MaxFailures

(* The lookup that begins every call. *)
LEMMA LookedUp ==
  ASSUME PInv, NEW p \in Processes, NEW code, code = "MAILBOX_ERROR" => failures < MaxFailures,
         get_mailbox_for_pid(p, code)
  PROVE  MemoryOK
  BY ServiceAssumption DEF PInv, PTypeOK, get_mailbox_for_pid, MemoryOK

(* A send: there was room for what was added. *)
LEMMA Sent ==
  ASSUME PInv, NEW p \in Processes, NEW q \in Processes, NEW text \in Text,
         NEW code \in __send_message(p), deliver(p, [from |-> q, text |-> text], code)
  PROVE  code \in Codes /\ BoxOK /\ MemoryOK
  <1>1. /\ life[p] \in {"unborn", "running", "exiting", "dead"} /\ box[p] \in Seq(Letters)
        /\ box \in [Processes -> Seq(Letters)] /\ Capacity \in Nat
        /\ \A r \in Processes : Len(box[r]) <= Capacity
    BY ServiceAssumption DEF PInv, PTypeOK
  <1>2. /\ code \in {"MAILBOX_INVALID", "MAILBOX_STOPPED", "MAILBOX_FULL", "OK", "MAILBOX_ERROR"}
        /\ code = "OK" /\ life[p] = "running" => ~(Len(box[p]) >= Capacity)
        /\ code = "MAILBOX_ERROR" => failures < MaxFailures
    <2>1. CASE life[p] \in {"unborn", "dead"}
      BY <2>1 DEF __send_message
    <2>2. CASE life[p] = "exiting"
      BY <2>2 DEF __send_message, NoMemory
    <2>3. CASE life[p] = "running"
      BY <2>3 DEF __send_message, NoMemory
    <2> QED
      BY <1>1, <2>1, <2>2, <2>3
  <1>3. MemoryOK
    <2>1. CASE get_mailbox_for_pid(p, code)
      BY <1>2, <2>1, LookedUp
    <2>2. CASE code = "MAILBOX_ERROR" /\ failures' = failures + 1 /\ made' = made \cup {p}
      BY <1>2, <2>2, ServiceAssumption DEF PInv, PTypeOK, MemoryOK
    <2> QED
      BY <2>1, <2>2 DEF deliver
  <1>4. BoxOK
    <2>1. CASE code = "OK" /\ life[p] = "running"
      <3> DEFINE s == Append(box[p], [from |-> q, text |-> text])
      <3>1. s \in Seq(Letters) /\ Len(s) <= Capacity
        BY <1>1, <1>2, <2>1 DEF Letters
      <3>2. box' = [box EXCEPT ![p] = s]
        BY <2>1 DEF deliver
      <3> HIDE DEF s
      <3> QED
        BY <1>1, <3>1, <3>2 DEF BoxOK
    <2>2. CASE ~(code = "OK" /\ life[p] = "running")
      <3>1. box' = box
        BY <2>2 DEF deliver
      <3> QED
        BY <1>1, <3>1 DEF BoxOK
    <2> QED
      BY <2>1, <2>2
  <1> QED
    BY <1>2, <1>3, <1>4 DEF Codes

(* What a receive may return, and when. *)
LEMMA ReceiveCodes ==
  ASSUME NEW p \in Processes, NEW code \in __recieve_message(p)
  PROVE  /\ code \in Codes
         /\ code = "OK" => box[p] # <<>>
         /\ code = "MAILBOX_ERROR" => failures < MaxFailures
  BY DEF __recieve_message, NoMemory, Codes

(* A receive: what was taken was there. *)
LEMMA Received ==
  ASSUME PInv, NEW p \in Processes, NEW code \in __recieve_message(p), take(p, code)
  PROVE  /\ code \in Codes
         /\ code = "OK" => box[p] # <<>> /\ Head(box[p]).from \in Processes
         /\ BoxOK /\ MemoryOK
  <1>1. /\ box[p] \in Seq(Letters) /\ box \in [Processes -> Seq(Letters)] /\ Capacity \in Nat
        /\ \A r \in Processes : Len(box[r]) <= Capacity
    BY ServiceAssumption DEF PInv, PTypeOK
  <1>2. code \in Codes /\ (code = "OK" => box[p] # <<>>)
    BY ReceiveCodes
  <1>3. MemoryOK
    BY ReceiveCodes, LookedUp DEF take
  <1>4. CASE code = "OK"
    <2> DEFINE s == Tail(box[p])
    <2>1. s \in Seq(Letters) /\ Len(s) <= Capacity /\ Head(box[p]) \in Letters
      BY <1>1, <1>2, <1>4
    <2>2. box' = [box EXCEPT ![p] = s]
      BY <1>4 DEF take
    <2> HIDE DEF s
    <2> QED
      BY <1>1, <1>2, <1>3, <1>4, <2>1, <2>2 DEF Letters, BoxOK
  <1>5. CASE code # "OK"
    <2>1. box' = box
      BY <1>5 DEF take
    <2> QED
      BY <1>1, <1>2, <1>3, <1>5, <2>1 DEF BoxOK
  <1> QED
    BY <1>4, <1>5

(* The next instruction of a task. *)
LEMMA NextInstruction ==
  ASSUME PInv, NEW t \in Tasks, NEW op, at(t, op)
  PROVE  /\ t[1] \in Processes /\ t = <<t[1], t[2]>> /\ t[2] \in {"main", "thread"}
         /\ script[t] \in Seq(Instructions) /\ script[t] # <<>>
         /\ Head(script[t]) \in Instructions /\ Head(script[t]).op = op
         /\ Tail(script[t]) \in Seq(Instructions)
  <1>1. t[1] \in Processes /\ t = <<t[1], t[2]>> /\ t[2] \in {"main", "thread"}
    BY DEF Tasks
  <1>2. script[t] \in Seq(Instructions) /\ script[t] # <<>> /\ Head(script[t]).op = op
    BY DEF PInv, at
  <1>3. Head(script[t]) \in Instructions /\ Tail(script[t]) \in Seq(Instructions)
    BY <1>2
  <1> QED
    BY <1>1, <1>2, <1>3

(* An instruction ends well, with exit(-1), or goes round its loop. *)
LifeAndScript ==
  /\ life' \in [Processes -> {"unborn", "running", "exiting", "dead"}]
  /\ script' \in [Tasks -> Seq(Instructions)]
  /\ failed' \subseteq Tasks

(* It leaves the lives and scripts as they should be. *)
LEMMA Concluded ==
  ASSUME PInv, NEW t \in Tasks, NEW op, at(t, op), NEW good,
         conclude(t, good) \/ advance(t) \/ UNCHANGED <<script, life, failed>>
  PROVE  LifeAndScript
  <1>1. /\ t[1] \in Processes /\ Tail(script[t]) \in Seq(Instructions)
    BY NextInstruction
  <1>2. /\ life \in [Processes -> {"unborn", "running", "exiting", "dead"}]
        /\ script \in [Tasks -> Seq(Instructions)] /\ failed \subseteq Tasks
    BY DEF PInv, PTypeOK
  <1>3. CASE advance(t)
    BY <1>1, <1>2, <1>3 DEF advance, LifeAndScript
  <1>4. CASE FAILURE_EXIT(t)
    BY <1>1, <1>2, <1>4 DEF FAILURE_EXIT, exit_call, LifeAndScript
  <1>5. CASE UNCHANGED <<script, life, failed>>
    BY <1>2, <1>5 DEF LifeAndScript
  <1> QED
    BY <1>3, <1>4, <1>5 DEF conclude

-----------------------------------------------------------------------------
(* Every step keeps the invariant. *)

(* A step that leaves alone what is said here to be unchanged. *)
LEMMA Kept ==
  ASSUME PInv
  PROVE  /\ UNCHANGED box => BoxOK
         /\ UNCHANGED memory => MemoryOK
         /\ UNCHANGED <<life, script, failed>> => LifeAndScript
         /\ LifeAndScript /\ BoxOK /\ MemoryOK /\ UNCHANGED setting
            /\ stopped' \subseteq Processes /\ rc' \in [Tasks -> Codes]
            /\ from' \in [Processes -> Processes] /\ child' \in [Processes -> Processes]
            /\ count' \in [Processes -> 0..Capacity \cup 0..N]
            => PInv'
  <1>1. UNCHANGED box => BoxOK
    BY DEF PInv, PTypeOK, BoxOK
  <1>2. UNCHANGED <<life, script, failed>> => LifeAndScript
    BY DEF PInv, PTypeOK, LifeAndScript
  <1>3. LifeAndScript /\ BoxOK /\ MemoryOK /\ UNCHANGED setting
        /\ stopped' \subseteq Processes /\ rc' \in [Tasks -> Codes]
        /\ from' \in [Processes -> Processes] /\ child' \in [Processes -> Processes]
        /\ count' \in [Processes -> 0..Capacity \cup 0..N]
        => PInv'
    BY DEF PInv, PTypeOK, BoxOK, MemoryOK, LifeAndScript, setting
  <1>4. UNCHANGED memory => MemoryOK
    BY DEF PInv, PTypeOK, memory, MemoryOK
  <1> QED
    BY <1>1, <1>2, <1>3, <1>4

(* The types of what many instructions leave alone. *)
LEMMA LocalTypes ==
  ASSUME PInv
  PROVE  /\ stopped \subseteq Processes /\ rc \in [Tasks -> Codes]
         /\ from \in [Processes -> Processes] /\ child \in [Processes -> Processes]
         /\ count \in [Processes -> 0..Capacity \cup 0..N] /\ Capacity \in Nat /\ N \in Nat
  BY ScriptsAssumption, ServiceAssumption DEF PInv, PTypeOK

(* Sends. *)
LEMMA SendKeeps ==
  ASSUME PInv, NEW t \in Tasks, send(t), UNCHANGED setting
  PROVE  PInv'
  <1> DEFINE i == Head(script[t])
             p == destination(t[1], i.to)
  <1>1. /\ at(t, "send") /\ UNCHANGED <<stopped, from, child, count>>
    BY DEF send
  <1>2. i \in Instructions /\ i.op = "send" /\ t[1] \in Processes
    BY <1>1, NextInstruction
  <1>3. i.to \in Destinations /\ i.text \in Text
    BY <1>2, Kinds
  <1>4. p \in Processes
    BY <1>2, <1>3, LocalTypes, ScriptsAssumption DEF destination, Destinations
  <1>5. PICK code \in __send_message(p) :
           /\ deliver(p, [from |-> t[1], text |-> i.text], code)
           /\ rc' = [rc EXCEPT ![t] = SendMsg(code)]
           /\ conclude(t, rc'[t] \in i.want)
    BY DEF send
  <1> HIDE DEF p, i
  <1>6. code \in Codes /\ BoxOK /\ MemoryOK
    BY <1>2, <1>3, <1>4, <1>5, Sent
  <1>7. rc' \in [Tasks -> Codes]
    BY <1>5, <1>6, LibraryCodes, LocalTypes
  <1>8. LifeAndScript
    BY <1>1, <1>5, Concluded
  <1> QED
    BY <1>1, <1>6, <1>7, <1>8, Kept, LocalTypes

(* A send with a bad length. *)
LEMMA SendArgsKeeps ==
  ASSUME PInv, NEW t \in Tasks, send_args(t), UNCHANGED setting
  PROVE  PInv'
  <1> DEFINE i == Head(script[t])
  <1>1. at(t, "send args") /\ UNCHANGED <<stopped, rc, from, child, count>>
    BY DEF send_args
  <1>2. PICK code \in IF i.len = "zero" THEN __send_message(t[1]) ELSE {"MSG_TOO_LONG"} :
           /\ deliver(t[1], [from |-> t[1], text |-> <<>>], code)
           /\ conclude(t, SendMsg(code) \in i.want)
    BY DEF send_args
  <1>3. t[1] \in Processes /\ <<>> \in Text
    BY <1>1, NextInstruction DEF Text
  <1>4. BoxOK /\ MemoryOK
    <2>1. CASE code \in __send_message(t[1])
      BY <1>2, <1>3, <2>1, Sent
    <2>2. CASE code = "MSG_TOO_LONG"
      BY <1>2, <1>3, <2>2, Kept, LookedUp DEF deliver
    <2> QED
      BY <1>2, <2>1, <2>2
  <1>5. LifeAndScript
    BY <1>1, <1>2, Concluded
  <1> QED
    BY <1>1, <1>4, <1>5, Kept, LocalTypes

(* fill_mailbox. *)
LEMMA FillKeeps ==
  ASSUME PInv, NEW t \in Tasks, fill(t), UNCHANGED setting
  PROVE  PInv'
  <1>1. at(t, "fill") /\ UNCHANGED <<stopped, rc, from, child, count>>
    BY DEF fill
  <1>2. PICK code \in __send_message(t[1]) :
           /\ deliver(t[1], [from |-> t[1], text |-> <<>>], code)
           /\ loop(t, SendMsg(code), {"MAILBOX_FULL"})
    BY DEF fill
  <1>3. t[1] \in Processes /\ <<>> \in Text
    BY <1>1, NextInstruction DEF Text
  <1>4. BoxOK /\ MemoryOK
    BY <1>2, <1>3, Sent
  <1>5. LifeAndScript
    BY <1>1, <1>2, Concluded DEF loop
  <1> QED
    BY <1>1, <1>4, <1>5, Kept, LocalTypes

(* Receives. *)
LEMMA RecvKeeps ==
  ASSUME PInv, NEW t \in Tasks, recv(t), UNCHANGED setting
  PROVE  PInv'
  <1> DEFINE i == Head(script[t])
             m == Head(box[t[1]])
  <1>1. PICK code \in __recieve_message(t[1]), same \in BOOLEAN, anyone \in Processes :
          /\ take(t[1], code)
          /\ from' = CASE code = "OK"            -> [from EXCEPT ![t[1]] = m.from]
                       [] code = "MAILBOX_ERROR" -> [from EXCEPT ![t[1]] = anyone]
                       [] OTHER                  -> from
          /\ rc' = IF i.keep THEN [rc EXCEPT ![t] = RcvMsg(code)] ELSE rc
          /\ conclude(t, rc'[t] \in i.want /\ (i.text # <<>> => same))
    BY DEF recv
  <1>2. at(t, "recv") /\ UNCHANGED <<stopped, child, count>>
    BY DEF recv
  <1>3. t[1] \in Processes
    BY <1>2, NextInstruction
  <1>4. code \in Codes /\ BoxOK /\ MemoryOK /\ (code = "OK" => m.from \in Processes)
    BY <1>1, <1>3, Received
  <1>5. LifeAndScript
    BY <1>1, <1>2, Concluded
  <1> HIDE DEF m, i
  <1>6. from' \in [Processes -> Processes]
    <2>1. CASE code = "OK"
      BY <1>1, <1>3, <1>4, <2>1, LocalTypes
    <2>2. CASE code = "MAILBOX_ERROR"
      BY <1>1, <1>3, <2>2, LocalTypes
    <2>3. CASE code # "OK" /\ code # "MAILBOX_ERROR"
      BY <1>1, <2>3, LocalTypes
    <2> QED
      BY <2>1, <2>2, <2>3
  <1>7. rc' \in [Tasks -> Codes]
    BY <1>1, <1>4, LibraryCodes, LocalTypes
  <1> QED
    BY <1>2, <1>4, <1>5, <1>6, <1>7, Kept, LocalTypes

(* drain_queue and testmailbox3's loop. *)
LEMMA DrainKeeps ==
  ASSUME PInv, NEW t \in Tasks, drain(t) \/ recv_all(t), UNCHANGED setting
  PROVE  PInv'
  <1>1. CASE drain(t)
    <2>1. PICK code \in __recieve_message(t[1]) :
            take(t[1], code) /\ loop(t, RcvMsg(code), {"MAILBOX_EMPTY", "MAILBOX_STOPPED"})
      BY <1>1 DEF drain
    <2>2. at(t, "drain") /\ UNCHANGED <<stopped, rc, from, child, count>>
      BY <1>1 DEF drain
    <2>3. BoxOK /\ MemoryOK
      BY <2>1, <2>2, NextInstruction, Received
    <2>4. LifeAndScript
      BY <2>1, <2>2, Concluded DEF loop
    <2> QED
      BY <2>2, <2>3, <2>4, Kept, LocalTypes
  <1>2. CASE recv_all(t)
    <2>1. at(t, "recv all") /\ UNCHANGED <<stopped, rc, from, child>>
      BY <1>2 DEF recv_all
    <2>2. t[1] \in Processes
      BY <2>1, NextInstruction
    <2>3. CASE /\ count[t[1]] > 0
               /\ \E code \in __recieve_message(t[1]) \ {"MAILBOX_EMPTY"} : take(t[1], code)
               /\ count' = [count EXCEPT ![t[1]] = @ - 1]
               /\ UNCHANGED <<script, life, failed>>
      <3>1. BoxOK /\ MemoryOK
        BY <2>2, <2>3, Received
      <3>2. count' \in [Processes -> 0..Capacity \cup 0..N]
        BY <2>2, <2>3, LocalTypes
      <3> QED
        BY <2>1, <2>3, <3>1, <3>2, Kept, LocalTypes
    <2>4. CASE advance(t) /\ UNCHANGED <<box, memory, count>>
      <3>1. LifeAndScript
        BY <2>1, <2>4, Concluded
      <3> QED
        BY <2>1, <2>4, <3>1, Kept, LocalTypes
    <2> QED
      BY <1>2, <2>3, <2>4 DEF recv_all
  <1> QED
    BY <1>1, <1>2

(* Instructions that change no mailbox. *)
LEMMA QuietKeeps ==
  ASSUME PInv, NEW t \in Tasks, recv_args(t) \/ verify(t) \/ pthread_join(t) \/ times_up(t),
         UNCHANGED setting
  PROVE  PInv'
  <1>1. CASE recv_args(t)
    <2>1. PICK code \in __recieve_message(t[1]) :
            /\ get_mailbox_for_pid(t[1], code)
            /\ conclude(t, RcvMsg(IF code = "OK" THEN "MSG_ARG_ERROR" ELSE code) \in Head(script[t]).want)
      BY <1>1 DEF recv_args
    <2>2. at(t, "recv args") /\ UNCHANGED <<box, stopped, rc, from, child, count>>
      BY <1>1 DEF recv_args
    <2>3. MemoryOK
      <3>1. t[1] \in Processes
        BY <2>2, NextInstruction
      <3>2. code = "MAILBOX_ERROR" => failures < MaxFailures
        BY <3>1, ReceiveCodes
      <3> QED
        BY <2>1, <3>1, <3>2, LookedUp
    <2>4. LifeAndScript
      BY <2>1, <2>2, Concluded
    <2> QED
      BY <2>2, <2>3, <2>4, Kept, LocalTypes
  <1>2. CASE verify(t) \/ pthread_join(t) \/ times_up(t)
    <2>1. /\ UNCHANGED <<box, stopped, memory, rc, from, child, count>>
          /\ \E op, good : at(t, op) /\ (conclude(t, good) \/ advance(t))
      BY <1>2 DEF verify, pthread_join, times_up
    <2>2. LifeAndScript
      BY <2>1, Concluded
    <2> QED
      BY <2>1, <2>2, Kept, LocalTypes
  <1> QED
    BY <1>1, <1>2

(* The two halves of __manage_mailbox. *)
LEMMA ManageKeeps ==
  ASSUME PInv, NEW t \in Tasks, manage_mailbox(t) \/ stop(t), UNCHANGED setting
  PROVE  PInv'
  <1>1. CASE manage_mailbox(t)
    <2> DEFINE i == [Head(script[t]) EXCEPT !.op = "stop"]
    <2>1. PICK code \in __manage_mailbox(t[1]) :
            /\ get_mailbox_for_pid(t[1], code)
            /\ count' = [count EXCEPT ![t[1]] = IF code = "OK" THEN Len(box[t[1]]) ELSE N]
            /\ IF code = "OK"
               THEN script' = [script EXCEPT ![t] = <<i>> \o Tail(script[t])] /\ UNCHANGED <<life, failed>>
               ELSE conclude(t, ManageMailbox(code) \in Head(script[t]).want)
      BY <1>1 DEF manage_mailbox
    <2>2. at(t, "manage") /\ UNCHANGED <<box, stopped, rc, from, child>>
      BY <1>1 DEF manage_mailbox
    <2>3. t[1] \in Processes /\ Tail(script[t]) \in Seq(Instructions) /\ i \in Instructions
      BY <2>2, NextInstruction, Kinds
    <2>4. MemoryOK
      BY <2>1, <2>3, LookedUp DEF __manage_mailbox, NoMemory
    <2> HIDE DEF i
    <2>5. <<i>> \o Tail(script[t]) \in Seq(Instructions)
      BY <2>3, OfOne, Joined
    <2>6. LifeAndScript
      <3>1. CASE code = "OK"
        BY <2>1, <2>5, <3>1 DEF PInv, PTypeOK, LifeAndScript
      <3>2. CASE code # "OK"
        BY <2>1, <2>2, <3>2, Concluded
      <3> QED
        BY <3>1, <3>2
    <2>7. Len(box[t[1]]) \in 0..Capacity
      BY <2>3, LocalTypes DEF PInv, PTypeOK
    <2>8. count' \in [Processes -> 0..Capacity \cup 0..N]
      BY <2>1, <2>3, <2>7, LocalTypes
    <2> QED
      BY <2>2, <2>4, <2>6, <2>8, Kept, LocalTypes
  <1>2. CASE stop(t)
    <2>1. /\ at(t, "stop") /\ UNCHANGED <<box, rc, from, child, count>>
          /\ manage(t[1], Head(script[t]).stop, "OK")
          /\ conclude(t, ManageMailbox("OK") \in Head(script[t]).want)
      BY <1>2 DEF stop
    <2>2. stopped' \subseteq Processes /\ MemoryOK
      BY <2>1, NextInstruction, LocalTypes, LookedUp DEF manage
    <2>3. LifeAndScript
      BY <2>1, Concluded
    <2> QED
      BY <2>1, <2>2, <2>3, Kept, LocalTypes
  <1> QED
    BY <1>1, <1>2

(* fork, pthread_create and the loop hand out scripts. *)
LEMMA ForkKeeps ==
  ASSUME PInv, NEW t \in Tasks, fork(t) \/ pthread_create(t) \/ again(t), UNCHANGED setting
  PROVE  PInv'
  <1> DEFINE i == Head(script[t])
  <1>1. CASE fork(t)
    <2> DEFINE p == CHOOSE p \in Processes : life[p] = "unborn"
    <2>1. /\ at(t, "fork") /\ \E q \in Processes : life[q] = "unborn"
          /\ life' = [life EXCEPT ![p] = "running"]
          /\ script' = [script EXCEPT ![t] = Tail(script[t]), ![<<p, "main">>] = i.script]
          /\ child' = [child EXCEPT ![t[1]] = p]
          /\ UNCHANGED <<box, stopped, memory, rc, from, count, failed>>
      BY <1>1 DEF fork
    <2>2. p \in Processes
      BY <2>1
    <2>3. t[1] \in Processes /\ Tail(script[t]) \in Seq(Instructions) /\ i.script \in Seq(Instructions)
      BY <2>1, NextInstruction, Kinds
    <2> HIDE DEF p, i
    <2>4. LifeAndScript
      BY <2>1, <2>2, <2>3 DEF PInv, PTypeOK, LifeAndScript
    <2>5. child' \in [Processes -> Processes]
      BY <2>1, <2>2, <2>3, LocalTypes
    <2> QED
      BY <2>1, <2>4, <2>5, Kept, LocalTypes
  <1>2. CASE pthread_create(t)
    <2>1. /\ at(t, "thread")
          /\ script' = [script EXCEPT ![t] = Tail(script[t]), ![<<t[1], "thread">>] = i.script]
          /\ UNCHANGED <<life, box, stopped, memory, rc, from, child, count, failed>>
      BY <1>2 DEF pthread_create, service, memory
    <2>2. Tail(script[t]) \in Seq(Instructions) /\ i.script \in Seq(Instructions)
      BY <2>1, NextInstruction, Kinds
    <2> HIDE DEF i
    <2>3. LifeAndScript
      BY <2>1, <2>2 DEF PInv, PTypeOK, LifeAndScript
    <2> QED
      BY <2>1, <2>3, Kept, LocalTypes
  <1>3. CASE again(t)
    <2>1. /\ at(t, "repeat")
          /\ script' = [script EXCEPT ![t] = i.script \o script[t]]
          /\ UNCHANGED <<life, box, stopped, memory, rc, from, child, count, failed>>
      BY <1>3 DEF again, service, memory
    <2>2. i.script \o script[t] \in Seq(Instructions)
      BY <2>1, NextInstruction, Kinds, Joined
    <2> HIDE DEF i
    <2>3. LifeAndScript
      BY <2>1, <2>2 DEF PInv, PTypeOK, LifeAndScript
    <2> QED
      BY <2>1, <2>3, Kept, LocalTypes
  <1> QED
    BY <1>1, <1>2, <1>3

(* Processes end. *)
LEMMA KernelKeeps ==
  ASSUME PInv, NEW p \in Processes, Kernel(p), UNCHANGED setting
  PROVE  PInv'
  <1>1. /\ UNCHANGED local /\ stopped' \subseteq stopped
        /\ made' \subseteq made /\ failures' = failures
        /\ \/ life' = [life EXCEPT ![p] = "exiting"] /\ UNCHANGED box
           \/ life' = [life EXCEPT ![p] = "dead"] /\ box' = [box EXCEPT ![p] = <<>>]
    BY DEF Kernel, return_from_main, exit_call, exited, memory
  <1>2. UNCHANGED <<script, rc, from, child, count, failed>>
    BY <1>1 DEF local
  <1>3. LifeAndScript
    BY <1>1, <1>2 DEF PInv, PTypeOK, LifeAndScript
  <1>4. <<>> \in Seq(Letters) /\ Len(<<>>) <= Capacity
    BY LocalTypes
  <1>5. BoxOK
    <2>1. box \in [Processes -> Seq(Letters)] /\ \A r \in Processes : Len(box[r]) <= Capacity
      BY DEF PInv, PTypeOK
    <2>2. CASE box' = [box EXCEPT ![p] = <<>>]
      <3>1. box' \in [Processes -> Seq(Letters)]
        BY <1>4, <2>1, <2>2
      <3>2. \A r \in Processes : box'[r] \in {box[r], <<>>}
        BY <2>1, <2>2
      <3> QED
        BY <1>4, <2>1, <3>1, <3>2 DEF BoxOK
    <2> QED
      BY <1>1, <2>2, Kept
  <1>6. MemoryOK
    BY <1>1 DEF PInv, PTypeOK, MemoryOK
  <1> QED
    BY <1>1, <1>2, <1>3, <1>5, <1>6, Kept, LocalTypes

(* At first only the root has something to do. *)
LEMMA PInvInit == PInit => PInv
  <1> SUFFICES ASSUME PInit
               PROVE  PInv
    OBVIOUS
  <1>1. Program[program] \in Seq(Instructions) /\ program \in Programs
    BY ProgramType DEF PInit
  <1>2. <<>> \in Seq(Instructions) /\ <<>> \in Seq(Letters) /\ Len(<<>>) <= Capacity /\ 0 \in 0..Capacity
    BY ServiceAssumption
  <1>3. script \in [Tasks -> Seq(Instructions)]
    BY <1>1, <1>2 DEF PInit
  <1>4. box \in [Processes -> Seq(Letters)] /\ \A p \in Processes : Len(box[p]) <= Capacity
    BY <1>2 DEF PInit, ServiceInit
  <1>5. PTypeOK
    <2>1. negative \in BOOLEAN
      BY ScriptsAssumption DEF PInit
    <2>2. /\ life \in [Processes -> {"unborn", "running", "exiting", "dead"}]
          /\ rc \in [Tasks -> Codes] /\ failed = {}
      BY DEF PInit, Codes
    <2>3. /\ from \in [Processes -> Processes] /\ child \in [Processes -> Processes]
          /\ count \in [Processes -> 0..Capacity \cup 0..N]
      BY <1>2, ScriptsAssumption DEF PInit
    <2>4. stopped = {} /\ made = {} /\ failures \in 0..MaxFailures
      BY ServiceAssumption DEF PInit, ServiceInit
    <2> QED
      BY <1>1, <1>4, <2>1, <2>2, <2>3, <2>4 DEF PTypeOK
  <1> QED
    BY <1>3, <1>4, <1>5 DEF PInv

(* One step per instruction and kernel action. *)
LEMMA PInvNext == PInv /\ [PNext]_pvars => PInv'
  <1> SUFFICES ASSUME PInv, [PNext]_pvars
               PROVE  PInv'
    OBVIOUS
  <1>1. ASSUME NEW t \in Tasks, Instruction(t), UNCHANGED setting
        PROVE  PInv'
    BY <1>1, SendKeeps, SendArgsKeeps, FillKeeps, RecvKeeps, DrainKeeps, QuietKeeps, ManageKeeps,
       ForkKeeps DEF Instruction
  <1>2. CASE UNCHANGED pvars
    BY <1>2 DEF pvars, service, local, setting, PInv, PTypeOK
  <1> QED
    BY <1>1, <1>2, KernelKeeps DEF PNext

-----------------------------------------------------------------------------
(* The inductive invariant, for any number of processes and children and   *)
(* any capacity.                                                           *)
THEOREM ScriptsInvariant == PSpec => []PInv
  BY PInvInit, PInvNext, PTL DEF PSpec

(* No program of the scripted tests, with whichever library, fills a       *)
(* mailbox beyond message_max, sends to something that is no process, or   *)
(* meets a code the interface does not have.                               *)
THEOREM ScriptsTypeTheorem == PSpec => []PTypeOK
  <1>1. PInv => PTypeOK
    BY DEF PInv
  <1> QED
    BY <1>1, ScriptsInvariant, PTL
=============================================================================
