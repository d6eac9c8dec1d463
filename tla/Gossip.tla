------------------------------- MODULE Gossip --------------------------------
(***************************************************************************)
(* MikeSanchez/mailboxTest.c: a tree of processes whose threads tell each  *)
(* other about the processes they know, without ever waiting.  Every       *)
(* process forks, starts threads and then ends its main thread, so most of *)
(* the traffic is between leaderless processes.                            *)
(*                                                                         *)
(* The random numbers are choices; how many commands a thread gives is     *)
(* left open.                                                              *)
(***************************************************************************)
EXTENDS UserLibrary, SequencesExt

CONSTANTS
  root,                  \* the process that is started
  shell, init,           \* root's parent; the parent of orphans
  NUM_PROC_LEVELS, AVG_PROCS_PER_LEVEL, AVG_THREADS_PER_PROC,
  MaxThreads,            \* bound: threads a process starts
  Remember               \* whether the history below is kept

ASSUME GossipAssumption ==
  /\ root \in Processes
  /\ shell \notin Processes /\ init \notin Processes /\ shell # init
  /\ {NUM_PROC_LEVELS, AVG_PROCS_PER_LEVEL, AVG_THREADS_PER_PROC, MaxThreads} \subseteq Nat

genRandUniform(mean) == 1 .. 2 * mean

Tasks == Processes \X (1 .. MaxThreads)

VARIABLES
  level, ppid, stage, togo,   \* of each process: depth in the tree, parent, what
                              \* main does, how many it has still to create
  pc, known, count,           \* of each thread: known is its list of pids
  unlearned                   \* history: the pids each thread has removed

family == <<level, ppid, stage, togo>>
threads == <<pc, known, count, unlearned>>
gvars == <<service, family, threads>>

-----------------------------------------------------------------------------
(* The list of known processes. *)

getRandKnown(p, list) == IF list = <<>> THEN {p} ELSE ToSet(list)

addKnown_overlooks_last(p, pid, list) ==
  IF \/ pid \in {init, shell, p}
     \/ \E i \in 1 .. Len(list) - 1 : list[i] = pid
  THEN list
  ELSE Append(list, pid)
addKnown(p, pid, list) ==
  IF pid \in {init, shell, p} \/ pid \in ToSet(list) THEN list ELSE Append(list, pid)

removeKnown(pid, list) ==
  IF \E i \in DOMAIN list : list[i] = pid
  THEN RemoveAt(list, CHOOSE i \in DOMAIN list : list[i] = pid /\ \A j \in 1 .. i-1 : list[j] # pid)
  ELSE list

-----------------------------------------------------------------------------
(* main: spawn processes, then threads, then end. *)

num_procs(l) == IF l + 1 > NUM_PROC_LEVELS THEN {0} ELSE genRandUniform(AVG_PROCS_PER_LEVEL)

GInit ==
  /\ life = [p \in Processes |-> IF p = root THEN "running" ELSE "unborn"]
  /\ ServiceInit
  /\ level = [p \in Processes |-> 0]
  /\ ppid = [p \in Processes |-> shell]
  /\ stage = [p \in Processes |-> "spawnProcs"]
  /\ \E n \in num_procs(0) : togo = [p \in Processes |-> IF p = root THEN n ELSE 0]
  /\ pc = [t \in Tasks |-> "none"]
  /\ known = [t \in Tasks |-> <<>>]
  /\ count = [t \in Tasks |-> 0]
  /\ unlearned = [t \in Tasks |-> {}]

at(p, s) == life[p] = "running" /\ stage[p] = s

(* A fork that fails is a fork: its result is only compared with 0. *)
spawnProcs(p) ==
  /\ at(p, "spawnProcs") /\ togo[p] > 0
  /\ \/ \E c \in Processes, n \in num_procs(level[p] + 1) :
          /\ life[c] = "unborn"
          /\ life' = [life EXCEPT ![c] = "running"]
          /\ level' = [level EXCEPT ![c] = level[p] + 1]
          /\ ppid' = [ppid EXCEPT ![c] = p]
          /\ togo' = [togo EXCEPT ![p] = @ - 1, ![c] = n]
     \/ /\ \A c \in Processes : life[c] # "unborn"
        /\ togo' = [togo EXCEPT ![p] = @ - 1]
        /\ UNCHANGED <<life, level, ppid>>
  /\ UNCHANGED <<box, stopped, memory, stage, threads>>
main_threads(p) ==
  /\ at(p, "spawnProcs") /\ togo[p] = 0
  /\ stage' = [stage EXCEPT ![p] = "threads"]
  /\ \E n \in genRandUniform(AVG_THREADS_PER_PROC) \cap (1 .. MaxThreads) :
        togo' = [togo EXCEPT ![p] = n]
  /\ UNCHANGED <<service, level, ppid, threads>>
main_pthread_create(p) ==
  /\ at(p, "threads") /\ togo[p] > 0
  /\ pc' = [pc EXCEPT ![<<p, togo[p]>>] = "start"]
  /\ togo' = [togo EXCEPT ![p] = @ - 1]
  /\ UNCHANGED <<service, level, ppid, stage, known, count, unlearned>>

(* __new_sys_exit: the mailbox goes with the last thread. *)
Alive(p) == {t \in Tasks : t[1] = p /\ pc[t] \notin {"none", "done"}}
main_pthread_exit(p) ==
  /\ at(p, "threads") /\ togo[p] = 0
  /\ stage' = [stage EXCEPT ![p] = "ended"]
  /\ IF Alive(p) = {} THEN exit_call(p) ELSE life' = [life EXCEPT ![p] = "leaderless"]
  /\ UNCHANGED <<box, stopped, memory, level, ppid, togo, threads>>

main(p) == spawnProcs(p) \/ main_threads(p) \/ main_pthread_create(p) \/ main_pthread_exit(p)

-----------------------------------------------------------------------------
(* doMailbox, the threads. *)

runs(t, label) == life[t[1]] \in {"running", "leaderless"} /\ pc[t] = label
goto(t, label) == pc' = [pc EXCEPT ![t] = label]

getppid(p) ==
  LET q == ppid[p]
  IN  IF q = shell THEN {shell}
      ELSE IF life[q] = "dead" THEN {init}
      ELSE IF life[q] = "exiting" THEN {q, init} ELSE {q}

start(t) ==
  /\ runs(t, "start")
  /\ \E q \in getppid(t[1]) : known' = [known EXCEPT ![t] = addKnown(t[1], q, <<>>)]
  /\ goto(t, "command")
  /\ UNCHANGED <<service, family, count, unlearned>>

send(t) ==
  /\ runs(t, "command")
  /\ \E s_pid, r_pid \in getRandKnown(t[1], known[t]) :
        /\ s_pid # t[1]
        /\ \E code \in __send_message(s_pid) :
              /\ deliver(s_pid, [sender |-> t[1], pid |-> r_pid], code)
              /\ IF mike_SendMsg(code) \in {"MAILBOX_STOPPED", "MAILBOX_INVALID"}
                 THEN /\ known' = [known EXCEPT ![t] = removeKnown(s_pid, @)]
                      /\ unlearned' = IF Remember THEN [unlearned EXCEPT ![t] = @ \cup {s_pid}] ELSE unlearned
                 ELSE UNCHANGED <<known, unlearned>>
  /\ UNCHANGED <<life, stopped, family, pc, count>>

(* RcvMsg, and what is learned from a message. *)
learn(t, code) ==
  LET m == Head(box[t[1]])
  IN  /\ take(t[1], code)
      /\ known' = IF mike_RcvMsg(code) = "OK"
                  THEN [known EXCEPT ![t] = addKnown(t[1], m.pid, addKnown(t[1], m.sender, @))]
                  ELSE known
receive(t) ==
  /\ runs(t, "command")
  /\ \E code \in __recieve_message(t[1]) : learn(t, code)
  /\ UNCHANGED <<life, stopped, family, pc, count, unlearned>>

count_messages(t) ==
  /\ runs(t, "command")
  /\ \E code \in __manage_mailbox(t[1]) :
        /\ manage(t[1], FALSE, code)
        /\ IF mike_ManageMailbox(code) = "OK"
           THEN count' = [count EXCEPT ![t] = Len(box[t[1]])] /\ goto(t, "receive all")
           ELSE UNCHANGED <<count, pc>>
  /\ UNCHANGED <<life, box, family, known, unlearned>>
receive_all_insists(t) ==
  /\ runs(t, "receive all")
  /\ IF count[t] = 0
     THEN goto(t, "command") /\ UNCHANGED <<box, memory, known, count>>
     ELSE /\ \E code \in __recieve_message(t[1]) :
                /\ learn(t, code)
                /\ count' = IF code = "OK" THEN [count EXCEPT ![t] = @ - 1] ELSE count
          /\ UNCHANGED pc
  /\ UNCHANGED <<life, stopped, family, unlearned>>
receive_all(t) ==
  /\ runs(t, "receive all")
  /\ IF count[t] = 0
     THEN goto(t, "command") /\ UNCHANGED <<box, memory, known, count>>
     ELSE /\ \E code \in __recieve_message(t[1]) : learn(t, code)
          /\ count' = [count EXCEPT ![t] = @ - 1]
          /\ UNCHANGED pc
  /\ UNCHANGED <<life, stopped, family, unlearned>>

manage_stop(t) ==
  /\ runs(t, "command")
  /\ \E code \in __manage_mailbox(t[1]) : manage(t[1], TRUE, code)
  /\ UNCHANGED <<life, box, family, threads>>

(* No more commands.  The last thread of a leaderless process takes it     *)
(* along: every call on it was refused before and is refused after.        *)
thread_exit(t) ==
  /\ runs(t, "command")
  /\ goto(t, "done")
  /\ IF Alive(t[1]) = {t} /\ life[t[1]] = "leaderless"
     THEN /\ life' = [life EXCEPT ![t[1]] = "dead"]
          /\ box' = [box EXCEPT ![t[1]] = <<>>]
          /\ stopped' = stopped \ {t[1]}
          /\ made' = made \ {t[1]}
          /\ UNCHANGED failures
     ELSE UNCHANGED service
  /\ known' = [known EXCEPT ![t] = <<>>]
  /\ UNCHANGED <<family, count, unlearned>>

doMailbox(t) ==
  \/ start(t) \/ send(t) \/ receive(t) \/ count_messages(t) \/ receive_all(t)
  \/ manage_stop(t) \/ thread_exit(t)

AllEnded == \A p \in Processes : life[p] \in {"unborn", "dead"}

GNext ==
  \/ \E p \in Processes : main(p) \/ (exited(p) /\ UNCHANGED <<family, threads>>)
  \/ \E t \in Tasks : doMailbox(t)
  \/ AllEnded /\ UNCHANGED gvars

GSpec == GInit /\ [][GNext]_gvars

(* Everyone is scheduled, and a thread has a number of commands to give. *)
GFairSpec ==
  /\ GSpec
  /\ \A p \in Processes : WF_gvars(main(p)) /\ WF_gvars(exited(p) /\ UNCHANGED <<family, threads>>)
  /\ \A t \in Tasks : WF_gvars(start(t) \/ receive_all(t)) /\ SF_gvars(thread_exit(t))

-----------------------------------------------------------------------------
(* Properties *)

(* The types of the variables, and mailboxes no fuller than they may be. *)
GTypeOK ==
  /\ life \in [Processes -> {"unborn", "running", "leaderless", "exiting", "dead"}]
  /\ \A p \in Processes : Len(box[p]) <= Capacity
  /\ level \in [Processes -> 0 .. NUM_PROC_LEVELS]
  /\ stage \in [Processes -> {"spawnProcs", "threads", "ended"}]
  /\ pc \in [Tasks -> {"none", "start", "command", "receive all", "done"}]
  /\ count \in [Tasks -> 0 .. Capacity]

(* A thread's list names no process twice, and only processes of the       *)
(* family other than its own that have been started: what a message says   *)
(* was true when it was sent (addKnown).                                   *)
KnownAreFamily ==
  \A t \in Tasks :
     /\ \A i, j \in DOMAIN known[t] : known[t][i] = known[t][j] => i = j
     /\ \A i \in DOMAIN known[t] :
           known[t][i] \in {p \in Processes \ {t[1]} : life[p] # "unborn"}

(* All threads and all processes come to an end, also those whose main     *)
(* thread has left before the others.                                      *)
GossipEnds == <>AllEnded

(* The comment on a refused send: the process is removed "so we no longer  *)
(* send to it" (mailboxTest.c 214).                                        *)
NoLongerSentTo == \A t \in Tasks : ToSet(known[t]) \cap unlearned[t] = {}
=============================================================================
