---------------------------- MODULE GossipProofs -----------------------------
(***************************************************************************)
(* Proofs about Gossip.tla for any number of processes, threads and tree   *)
(* levels and any capacity: what a thread knows and what a message says    *)
(* are processes of the family that have been started.                     *)
(***************************************************************************)
EXTENDS Gossip, SequenceTheorems, TLAPS

(* Processes that have been started stay so. *)
Born == {p \in Processes : life[p] # "unborn"}

(* The tree: a process with children still to fork is not at the last      *)
(* level, and a parent has been started.                                   *)
FamilyInv ==
  /\ life \in [Processes -> {"unborn", "running", "leaderless", "exiting", "dead"}]
  /\ level \in [Processes -> 0 .. NUM_PROC_LEVELS]
  /\ ppid \in [Processes -> Processes \cup {shell}]
  /\ stage \in [Processes -> {"spawnProcs", "threads", "ended"}]
  /\ togo \in [Processes -> Nat]
  /\ \A p \in Processes : stage[p] = "spawnProcs" /\ togo[p] > 0 => level[p] < NUM_PROC_LEVELS
  /\ \A p \in Processes : ppid[p] # shell => ppid[p] \in Born

(* The mailboxes: messages name processes that have been started. *)
Said == [sender : Processes, pid : Processes]
Says(q, B) == q \in Seq(Said) /\ \A i \in 1..Len(q) : q[i].sender \in B /\ q[i].pid \in B
BoxInv ==
  /\ box \in [Processes -> Seq(Said)]
  /\ \A p \in Processes : Len(box[p]) <= Capacity
  /\ \A p \in Processes : Says(box[p], Born)

(* The threads: a list names processes of a set, none twice. *)
Names(list, B) ==
  /\ list \in Seq(Processes)
  /\ \A i, j \in 1..Len(list) : list[i] = list[j] => i = j
  /\ \A i \in 1..Len(list) : list[i] \in B
ThreadInv ==
  /\ pc \in [Tasks -> {"none", "start", "command", "receive all", "done"}]
  /\ count \in [Tasks -> 0 .. Capacity]
  /\ known \in [Tasks -> Seq(Processes)]
  /\ \A t \in Tasks : Names(known[t], Born \ {t[1]})

GInv == FamilyInv /\ BoxInv /\ ThreadInv

-----------------------------------------------------------------------------
(* Lists of known processes and messages. *)

(* A larger set will do. *)
LEMMA NamesMore ==
  ASSUME NEW list, NEW B, NEW C, Names(list, B), B \subseteq C
  PROVE  Names(list, C)
  BY DEF Names

LEMMA SaysMore ==
  ASSUME NEW q, NEW B, NEW C, Says(q, B), B \subseteq C
  PROVE  Says(q, C)
  BY DEF Says

(* addKnown adds a process of the family, or nothing. *)
LEMMA AddKnownOK ==
  ASSUME NEW B \in SUBSET Processes, NEW p \in Processes, NEW list, Names(list, B \ {p}),
         NEW pid \in B \cup {init, shell}
  PROVE  Names(addKnown(p, pid, list), B \ {p})
  <1>1. CASE pid \in {init, shell, p} \/ pid \in ToSet(list)
    BY <1>1 DEF addKnown
  <1>2. CASE pid \notin {init, shell, p} /\ pid \notin ToSet(list)
    <2> DEFINE new == Append(list, pid)
    <2>1. addKnown(p, pid, list) = new
      BY <1>2 DEF addKnown
    <2>2. pid \in B \ {p} /\ pid \in Processes /\ list \in Seq(Processes) /\ Len(list) \in Nat
      BY <1>2 DEF Names
    <2>3. /\ new \in Seq(Processes) /\ Len(new) = Len(list) + 1 /\ new[Len(list)+1] = pid
          /\ \A i \in 1..Len(list) : new[i] = list[i]
      BY <2>2
    <2>4. \A i \in 1..Len(list) : list[i] # pid
      BY <1>2, <2>2 DEF ToSet
    <2> HIDE DEF new
    <2>5. \A i \in 1..Len(new) : i = Len(list)+1 \/ i \in 1..Len(list)
      BY <2>2, <2>3
    <2>6. \A i, j \in 1..Len(new) : new[i] = new[j] => i = j
      BY <2>3, <2>4, <2>5 DEF Names
    <2>7. \A i \in 1..Len(new) : new[i] \in B \ {p}
      BY <2>2, <2>3, <2>5 DEF Names
    <2> QED
      BY <2>1, <2>3, <2>6, <2>7 DEF Names
  <1> QED
    BY <1>1, <1>2

(* A sequence without its i-th element. *)
LEMMA RemoveAtElements ==
  ASSUME NEW S, NEW s \in Seq(S), NEW i \in 1..Len(s)
  PROVE  /\ RemoveAt(s, i) \in Seq(S) /\ Len(RemoveAt(s, i)) = Len(s) - 1
         /\ \A j \in 1..Len(s)-1 : RemoveAt(s, i)[j] = s[IF j < i THEN j ELSE j+1]
  <1> DEFINE l == SubSeq(s, 1, i-1)
             r == SubSeq(s, i+1, Len(s))
             new == RemoveAt(s, i)
  <1>1. Len(s) \in Nat /\ i \in 1..Len(s)
    OBVIOUS
  <1>2. l \in Seq(S) /\ Len(l) = i-1 /\ \A j \in 1..i-1 : l[j] = s[j]
    BY <1>1
  <1>3. r \in Seq(S) /\ Len(r) = Len(s)-i /\ \A j \in 1..Len(s)-i : r[j] = s[i+j]
    BY <1>1
  <1>4. new = l \o r
    BY DEF RemoveAt
  <1> HIDE DEF l, r, new
  <1>5. (i-1) + (Len(s)-i) = Len(s)-1
    BY <1>1
  <1>6. /\ new \in Seq(S) /\ Len(new) = Len(l) + Len(r)
        /\ \A j \in 1..Len(l) + Len(r) : new[j] = IF j <= Len(l) THEN l[j] ELSE r[j-Len(l)]
    BY <1>2, <1>3, <1>4, ConcatProperties
  <1>7. ASSUME NEW j \in 1..Len(s)-1
        PROVE  new[j] = s[IF j < i THEN j ELSE j+1]
    <2>1. new[j] = IF j <= i-1 THEN l[j] ELSE r[j-(i-1)]
      BY <1>2, <1>3, <1>5, <1>6
    <2>2. CASE j < i
      <3>1. j \in 1..i-1 /\ j <= i-1
        BY <1>1, <2>2
      <3> QED
        BY <1>2, <2>1, <2>2, <3>1
    <2>3. CASE ~(j < i)
      <3>1. ~(j <= i-1) /\ j-(i-1) \in 1..Len(s)-i /\ i+(j-(i-1)) = j+1
        BY <1>1, <2>3
      <3> QED
        BY <1>3, <2>1, <2>3, <3>1
    <2> QED
      BY <2>2, <2>3
  <1> QED
    BY <1>2, <1>3, <1>5, <1>6, <1>7 DEF new

(* removeKnown removes one process, or nothing. *)
LEMMA RemoveKnownOK ==
  ASSUME NEW B, NEW list, NEW pid, Names(list, B)
  PROVE  Names(removeKnown(pid, list), B)
  <1> DEFINE n == Len(list)
  <1>1. list \in Seq(Processes) /\ n \in Nat /\ DOMAIN list = 1..n
    BY DEF Names
  <1>2. CASE ~ \E i \in DOMAIN list : list[i] = pid
    BY <1>2 DEF removeKnown
  <1>3. CASE \E i \in DOMAIN list : list[i] = pid
    <2> DEFINE first(i) == list[i] = pid /\ \A j \in 1 .. i-1 : list[j] # pid
               i == CHOOSE i \in DOMAIN list : first(i)
               new == RemoveAt(list, i)
    <2>1. \E k \in DOMAIN list : first(k)
      <3>1. PICK k \in DOMAIN list : list[k] = pid
        BY <1>3
      <3>2. \A j \in 1..k-1 : j \in 1..n /\ j # k
        BY <1>1
      <3> QED
        BY <1>1, <3>1, <3>2 DEF Names
    <2>2. i \in 1..n
      <3> HIDE DEF first
      <3> QED
        BY <1>1, <2>1
    <2>3. removeKnown(pid, list) = new
      BY <1>3 DEF removeKnown
    <2> HIDE DEF i
    <2>7. /\ new \in Seq(Processes) /\ Len(new) = n-1
          /\ \A j \in 1..n-1 : new[j] = list[IF j < i THEN j ELSE j+1]
      BY <1>1, <2>2, RemoveAtElements
    <2> HIDE DEF n, new
    <2>8. \A j \in 1..n-1 : \E k \in 1..n : new[j] = list[k] /\ k = IF j < i THEN j ELSE j+1
      BY <1>1, <2>2, <2>7
    <2>9. \A j, k \in 1..n-1 : new[j] = new[k] => j = k
      <3> SUFFICES ASSUME NEW j \in 1..n-1, NEW k \in 1..n-1, new[j] = new[k]
                   PROVE  j = k
        OBVIOUS
      <3>1. PICK x \in 1..n : new[j] = list[x] /\ x = IF j < i THEN j ELSE j+1
        BY <2>8
      <3>2. PICK y \in 1..n : new[k] = list[y] /\ y = IF k < i THEN k ELSE k+1
        BY <2>8
      <3>3. x = y
        BY <3>1, <3>2 DEF Names, n
      <3> QED
        BY <1>1, <2>2, <3>1, <3>2, <3>3
    <2>10. \A j \in 1..n-1 : new[j] \in B
      BY <2>8 DEF Names, n
    <2> QED
      BY <2>3, <2>7, <2>9, <2>10 DEF Names
  <1> QED
    BY <1>2, <1>3

-----------------------------------------------------------------------------
(* Frames: what stays the same keeps its part of the invariant as long as  *)
(* nobody is unborn again.                                                 *)

PcLabels == {"none", "start", "command", "receive all", "done"}
Lives == {"unborn", "running", "leaderless", "exiting", "dead"}

(* The tree, when only lives change. *)
LEMMA FamilyKept ==
  ASSUME FamilyInv, UNCHANGED family, life' \in [Processes -> Lives], Born \subseteq Born'
  PROVE  FamilyInv'
  <1>1. UNCHANGED <<level, ppid, stage, togo>>
    BY DEF family
  <1> QED
    BY <1>1 DEF FamilyInv, Lives

(* The mailboxes, when no message moves. *)
LEMMA BoxKept ==
  ASSUME BoxInv, UNCHANGED box, Born \subseteq Born'
  PROVE  BoxInv'
  BY SaysMore DEF BoxInv

(* The threads, when no list changes. *)
LEMMA ThreadsKept ==
  ASSUME ThreadInv, UNCHANGED known, pc' \in [Tasks -> PcLabels],
         count' \in [Tasks -> 0 .. Capacity], Born \subseteq Born'
  PROVE  ThreadInv'
  <1>1. \A t \in Tasks : Names(known'[t], Born' \ {t[1]})
    <2> SUFFICES ASSUME NEW t \in Tasks
                 PROVE  Names(known[t], Born' \ {t[1]})
      OBVIOUS
    <2>1. Names(known[t], Born \ {t[1]}) /\ Born \ {t[1]} \subseteq Born' \ {t[1]}
      BY DEF ThreadInv
    <2> QED
      BY <2>1, NamesMore
  <1> QED
    BY <1>1 DEF ThreadInv, PcLabels

(* One thread's list changes. *)
LEMMA ListChanged ==
  ASSUME ThreadInv, NEW t \in Tasks, NEW list, known' = [known EXCEPT ![t] = list],
         Names(list, Born \ {t[1]}), pc' \in [Tasks -> PcLabels],
         count' \in [Tasks -> 0 .. Capacity], Born \subseteq Born'
  PROVE  ThreadInv'
  <1>1. list \in Seq(Processes) /\ known \in [Tasks -> Seq(Processes)]
    BY DEF Names, ThreadInv
  <1>2. known' \in [Tasks -> Seq(Processes)]
    BY <1>1
  <1>3. \A u \in Tasks : Names(known'[u], Born' \ {u[1]})
    <2> SUFFICES ASSUME NEW u \in Tasks
                 PROVE  Names(known'[u], Born' \ {u[1]})
      OBVIOUS
    <2>1. Born \ {u[1]} \subseteq Born' \ {u[1]}
      OBVIOUS
    <2>2. Names(known'[u], Born \ {u[1]})
      <3>1. CASE u = t
        BY <1>1, <3>1
      <3>2. CASE u # t
        <4>1. known'[u] = known[u]
          BY <1>1, <3>2
        <4> QED
          BY <4>1 DEF ThreadInv
      <3> QED
        BY <3>1, <3>2
    <2> QED
      BY <2>1, <2>2, NamesMore
  <1> QED
    BY <1>2, <1>3 DEF ThreadInv, PcLabels

(* Nobody is born while no life changes. *)
LEMMA SameBorn ==
  ASSUME UNCHANGED life
  PROVE  Born' = Born
  BY DEF Born

(* A process's life moves on, and not back to unborn. *)
LEMMA LifeMoves ==
  ASSUME FamilyInv, NEW p \in Processes, NEW l \in Lives \ {"unborn"},
         life' = [life EXCEPT ![p] = l]
  PROVE  life' \in [Processes -> Lives] /\ Born \subseteq Born' /\ p \in Born'
  <1>1. life' \in [Processes -> Lives]
    BY DEF FamilyInv, Lives
  <1>2. \A q \in Processes : life'[q] = IF q = p THEN l ELSE life[q]
    BY DEF FamilyInv
  <1>3. Born \subseteq Born' /\ p \in Born'
    BY <1>2 DEF Born, Lives
  <1> QED
    BY <1>1, <1>3

-----------------------------------------------------------------------------
(* main *)

(* A process at the last level has no children to fork. *)
LEMMA NumProcs ==
  ASSUME NEW l \in Nat, NEW n \in num_procs(l)
  PROVE  n \in Nat /\ (n > 0 => l < NUM_PROC_LEVELS)
  <1>1. NUM_PROC_LEVELS \in Nat /\ AVG_PROCS_PER_LEVEL \in Nat
    BY GossipAssumption, ServiceAssumption
  <1>2. CASE l + 1 > NUM_PROC_LEVELS
    BY <1>1, <1>2 DEF num_procs
  <1>3. CASE ~(l + 1 > NUM_PROC_LEVELS)
    <2>1. n \in 1 .. 2 * AVG_PROCS_PER_LEVEL
      BY <1>3 DEF num_procs, genRandUniform
    <2> QED
      BY <1>1, <1>3, <2>1
  <1> QED
    BY <1>2, <1>3

(* The root alone is in the family. *)
LEMMA GInvInit == GInit => GInv
  <1> SUFFICES ASSUME GInit
               PROVE  GInv
    OBVIOUS
  <1>0. /\ NUM_PROC_LEVELS \in Nat /\ Capacity \in Nat /\ root \in Processes
        /\ 0 \in 0..NUM_PROC_LEVELS /\ 0 \in 0..Capacity
    BY GossipAssumption, ServiceAssumption
  <1>1. FamilyInv
    <2>1. PICK n \in num_procs(0) : togo = [p \in Processes |-> IF p = root THEN n ELSE 0]
      BY DEF GInit
    <2>2. n \in Nat /\ (n > 0 => 0 < NUM_PROC_LEVELS)
      BY NumProcs
    <2> QED
      BY <1>0, <2>1, <2>2 DEF GInit, FamilyInv
  <1>2. \A B : Says(<<>>, B) /\ Names(<<>>, B)
    BY DEF Says, Names
  <1>3. BoxInv
    BY <1>0, <1>2 DEF GInit, ServiceInit, BoxInv
  <1>4. ThreadInv
    BY <1>0, <1>2 DEF GInit, ThreadInv
  <1> QED
    BY <1>1, <1>3, <1>4 DEF GInv

(* A fork: the child is one level down, and its parent has been started. *)
LEMMA SpawnOK ==
  ASSUME GInv, NEW p \in Processes, spawnProcs(p)
  PROVE  GInv'
  <1>1. /\ life[p] = "running" /\ stage[p] = "spawnProcs" /\ togo[p] > 0 /\ togo[p] \in Nat
        /\ level[p] \in Nat /\ level[p] < NUM_PROC_LEVELS /\ NUM_PROC_LEVELS \in Nat
        /\ UNCHANGED <<box, stopped, stage, pc, known, count, unlearned>>
    BY GossipAssumption, ServiceAssumption DEF GInv, FamilyInv, spawnProcs, at, threads
  <1>2. level[p] + 1 \in 0 .. NUM_PROC_LEVELS /\ togo[p] - 1 \in Nat /\ level[p] + 1 \in Nat
    BY <1>1
  <1>3. FamilyInv' /\ Born \subseteq Born'
    <2>1. CASE \E c \in Processes, n \in num_procs(level[p] + 1) :
                 /\ life[c] = "unborn"
                 /\ life' = [life EXCEPT ![c] = "running"]
                 /\ level' = [level EXCEPT ![c] = level[p] + 1]
                 /\ ppid' = [ppid EXCEPT ![c] = p]
                 /\ togo' = [togo EXCEPT ![p] = @ - 1, ![c] = n]
      <3>1. PICK c \in Processes, n \in num_procs(level[p] + 1) :
                 /\ life[c] = "unborn"
                 /\ life' = [life EXCEPT ![c] = "running"]
                 /\ level' = [level EXCEPT ![c] = level[p] + 1]
                 /\ ppid' = [ppid EXCEPT ![c] = p]
                 /\ togo' = [togo EXCEPT ![p] = @ - 1, ![c] = n]
        BY <2>1
      <3>2. n \in Nat /\ (n > 0 => level[p] + 1 < NUM_PROC_LEVELS) /\ c # p
        BY <1>1, <1>2, <3>1, NumProcs
      <3>3. life' \in [Processes -> Lives] /\ Born \subseteq Born' /\ p \in Born'
        <4>1. p \in Born
          BY <1>1 DEF Born
        <4> QED
          BY <3>1, <4>1, LifeMoves DEF GInv, Lives
      <3>4. /\ level' \in [Processes -> 0 .. NUM_PROC_LEVELS]
            /\ ppid' \in [Processes -> Processes \cup {shell}]
            /\ togo' \in [Processes -> Nat]
        BY <1>2, <3>1, <3>2 DEF GInv, FamilyInv
      <3>5. \A q \in Processes : /\ level'[q] = IF q = c THEN level[p] + 1 ELSE level[q]
                                 /\ togo'[q] = IF q = c THEN n ELSE IF q = p THEN togo[p] - 1 ELSE togo[q]
                                 /\ ppid'[q] = IF q = c THEN p ELSE ppid[q]
        BY <3>1, <3>2 DEF GInv, FamilyInv
      <3>6. \A q \in Processes : stage'[q] = "spawnProcs" /\ togo'[q] > 0 => level'[q] < NUM_PROC_LEVELS
        BY <1>1, <3>2, <3>5 DEF GInv, FamilyInv
      <3>7. \A q \in Processes : ppid'[q] # shell => ppid'[q] \in Born'
        BY <3>3, <3>5 DEF GInv, FamilyInv
      <3> QED
        BY <1>1, <3>3, <3>4, <3>6, <3>7 DEF GInv, FamilyInv, Lives
    <2>2. CASE togo' = [togo EXCEPT ![p] = @ - 1] /\ UNCHANGED <<life, level, ppid>>
      <3>1. Born' = Born
        BY <2>2, SameBorn
      <3>2. togo' \in [Processes -> Nat]
        BY <1>2, <2>2 DEF GInv, FamilyInv
      <3>3. \A q \in Processes : stage'[q] = "spawnProcs" /\ togo'[q] > 0 => level'[q] < NUM_PROC_LEVELS
        BY <1>1, <2>2 DEF GInv, FamilyInv
      <3> QED
        BY <1>1, <2>2, <3>1, <3>2, <3>3 DEF GInv, FamilyInv
    <2> QED
      BY <2>1, <2>2 DEF spawnProcs
  <1>4. BoxInv' /\ ThreadInv'
    BY <1>1, <1>3, BoxKept, ThreadsKept DEF GInv, ThreadInv, PcLabels
  <1> QED
    BY <1>3, <1>4 DEF GInv

(* The other steps of main. *)
LEMMA MainThreadsOK ==
  ASSUME GInv, NEW p \in Processes, main_threads(p)
  PROVE  GInv'
  <1>1. /\ stage' = [stage EXCEPT ![p] = "threads"]
        /\ UNCHANGED <<life, box, level, ppid, pc, known, count>>
    BY DEF main_threads, service, threads
  <1>2. PICK n \in Nat : togo' = [togo EXCEPT ![p] = n]
    <2>1. PICK n \in genRandUniform(AVG_THREADS_PER_PROC) \cap (1 .. MaxThreads) :
             togo' = [togo EXCEPT ![p] = n]
      BY DEF main_threads
    <2>2. n \in Nat
      BY GossipAssumption, ServiceAssumption
    <2> QED
      BY <2>1, <2>2
  <1>3. Born' = Born
    BY <1>1, SameBorn
  <1>4. FamilyInv'
    <2>1. stage' \in [Processes -> {"spawnProcs", "threads", "ended"}] /\ togo' \in [Processes -> Nat]
      BY <1>1, <1>2 DEF GInv, FamilyInv
    <2>2. \A q \in Processes : stage'[q] = "spawnProcs" /\ togo'[q] > 0 => level'[q] < NUM_PROC_LEVELS
      BY <1>1, <1>2 DEF GInv, FamilyInv
    <2> QED
      BY <1>1, <1>3, <2>1, <2>2 DEF GInv, FamilyInv
  <1> QED
    BY <1>1, <1>3, <1>4, BoxKept, ThreadsKept DEF GInv, ThreadInv, PcLabels

LEMMA MainCreateOK ==
  ASSUME GInv, NEW p \in Processes, main_pthread_create(p)
  PROVE  GInv'
  <1>1. /\ stage[p] = "threads" /\ togo[p] - 1 \in Nat
        /\ pc' = [pc EXCEPT ![<<p, togo[p]>>] = "start"]
        /\ togo' = [togo EXCEPT ![p] = @ - 1]
        /\ UNCHANGED <<life, box, level, ppid, stage, known, count>>
    BY DEF GInv, FamilyInv, main_pthread_create, at, service
  <1>2. Born' = Born
    BY <1>1, SameBorn
  <1>3. FamilyInv'
    <2>1. togo' \in [Processes -> Nat]
      BY <1>1 DEF GInv, FamilyInv
    <2>2. \A q \in Processes : stage'[q] = "spawnProcs" /\ togo'[q] > 0 => level'[q] < NUM_PROC_LEVELS
      BY <1>1 DEF GInv, FamilyInv
    <2> QED
      BY <1>1, <1>2, <2>1, <2>2 DEF GInv, FamilyInv
  <1>4. pc' \in [Tasks -> PcLabels]
    BY <1>1 DEF GInv, ThreadInv, PcLabels
  <1> QED
    BY <1>1, <1>2, <1>3, <1>4, BoxKept, ThreadsKept DEF GInv, ThreadInv

LEMMA MainExitOK ==
  ASSUME GInv, NEW p \in Processes, main_pthread_exit(p)
  PROVE  GInv'
  <1>1. /\ stage' = [stage EXCEPT ![p] = "ended"]
        /\ \E l \in {"exiting", "leaderless"} : life' = [life EXCEPT ![p] = l]
        /\ UNCHANGED <<box, level, ppid, togo, pc, known, count>>
    BY DEF main_pthread_exit, exit_call, threads
  <1>2. life' \in [Processes -> Lives] /\ Born \subseteq Born'
    BY <1>1, LifeMoves DEF GInv, Lives
  <1>3. FamilyInv'
    <2>1. stage' \in [Processes -> {"spawnProcs", "threads", "ended"}]
      BY <1>1 DEF GInv, FamilyInv
    <2>2. \A q \in Processes : stage'[q] = "spawnProcs" /\ togo'[q] > 0 => level'[q] < NUM_PROC_LEVELS
      BY <1>1 DEF GInv, FamilyInv
    <2> QED
      BY <1>1, <1>2, <2>1, <2>2 DEF GInv, FamilyInv, Lives
  <1> QED
    BY <1>1, <1>2, <1>3, BoxKept, ThreadsKept DEF GInv, ThreadInv, PcLabels

-----------------------------------------------------------------------------
(* doMailbox *)

(* A thread that runs belongs to a process that has been started. *)
LEMMA RunnerBorn ==
  ASSUME NEW t \in Tasks, NEW label, runs(t, label)
  PROVE  t[1] \in Processes /\ t[1] \in Born
  BY DEF runs, Born, Tasks

(* The parent is known, unless it is init or the shell. *)
LEMMA StartOK ==
  ASSUME GInv, NEW t \in Tasks, start(t)
  PROVE  GInv'
  <1>1. /\ t[1] \in Processes /\ Born \in SUBSET Processes
        /\ pc' = [pc EXCEPT ![t] = "command"]
        /\ UNCHANGED <<life, box, family, count>>
    BY RunnerBorn DEF start, goto, service, Born
  <1>2. PICK q \in getppid(t[1]) : known' = [known EXCEPT ![t] = addKnown(t[1], q, <<>>)]
    BY DEF start
  <1>3. q \in Born \cup {init, shell}
    BY <1>1 DEF getppid, GInv, FamilyInv
  <1>4. Names(<<>>, Born \ {t[1]})
    BY DEF Names
  <1>5. Names(addKnown(t[1], q, <<>>), Born \ {t[1]})
    BY <1>1, <1>3, <1>4, AddKnownOK
  <1>6. Born' = Born
    BY <1>1, SameBorn
  <1>7. pc' \in [Tasks -> PcLabels] /\ count' \in [Tasks -> 0 .. Capacity]
    BY <1>1 DEF GInv, ThreadInv, PcLabels
  <1>8. ThreadInv'
    BY <1>2, <1>5, <1>6, <1>7, ListChanged DEF GInv
  <1>9. FamilyInv' /\ BoxInv'
    BY <1>1, <1>6, FamilyKept, BoxKept DEF GInv, FamilyInv, Lives
  <1> QED
    BY <1>8, <1>9 DEF GInv

(* Sender, receiver and the process told about have been started, and a   *)
(* message is added only where there is room.                              *)
LEMMA SendOK ==
  ASSUME GInv, NEW t \in Tasks, send(t)
  PROVE  GInv'
  <1>1. /\ t[1] \in Processes /\ t[1] \in Born
        /\ UNCHANGED <<life, family, pc, count>>
        /\ Names(known[t], Born \ {t[1]}) /\ known \in [Tasks -> Seq(Processes)]
    BY RunnerBorn DEF send, GInv, ThreadInv
  <1>0. PICK s, r \in getRandKnown(t[1], known[t]) :
          /\ s # t[1]
          /\ \E code \in __send_message(s) :
                /\ deliver(s, [sender |-> t[1], pid |-> r], code)
                /\ \/ known' = [known EXCEPT ![t] = removeKnown(s, @)]
                   \/ known' = known
    BY DEF send
  <1>2. PICK code \in __send_message(s) :
          /\ deliver(s, [sender |-> t[1], pid |-> r], code)
          /\ \/ known' = [known EXCEPT ![t] = removeKnown(s, @)]
             \/ known' = known
    BY <1>0
  <1>3. \A x \in ToSet(known[t]) : x \in Born \ {t[1]}
    BY <1>1 DEF Names, ToSet
  <1>4. s \in Born /\ s \in Processes /\ r \in Born /\ r \in Processes
    BY <1>0, <1>1, <1>3 DEF getRandKnown, Born
  <1>5. Born' = Born
    BY <1>1, SameBorn
  <1>6. FamilyInv'
    BY <1>1, <1>5, FamilyKept DEF GInv, FamilyInv, Lives
  <1>7. ThreadInv'
    <2>1. pc' \in [Tasks -> PcLabels] /\ count' \in [Tasks -> 0 .. Capacity]
      BY <1>1 DEF GInv, ThreadInv, PcLabels
    <2>2. CASE known' = [known EXCEPT ![t] = removeKnown(s, @)]
      <3>1. Names(removeKnown(s, known[t]), Born \ {t[1]})
        BY <1>1, RemoveKnownOK
      <3> QED
        BY <1>5, <2>1, <2>2, <3>1, ListChanged DEF GInv
    <2>3. CASE known' = known
      BY <1>5, <2>1, <2>3, ThreadsKept DEF GInv
    <2> QED
      BY <1>2, <2>2, <2>3
  <1>8. BoxInv'
    <2> DEFINE m == [sender |-> t[1], pid |-> r]
    <2>1. CASE code = "OK" /\ life[s] = "running"
      <3>1. box' = [box EXCEPT ![s] = Append(box[s], m)]
        BY <1>2, <2>1 DEF deliver
      <3>2. m \in Said /\ m.sender \in Born /\ m.pid \in Born
        BY <1>1, <1>4 DEF Said
      <3>3. Len(box[s]) < Capacity
        <4>1. s \notin stopped
          BY <1>2, <2>1 DEF __send_message, NoMemory
        <4>2. ~(Len(box[s]) >= Capacity)
          BY <1>2, <2>1, <4>1 DEF __send_message, NoMemory
        <4>3. Len(box[s]) \in Nat /\ Capacity \in Nat
          BY <1>4, GossipAssumption, ServiceAssumption DEF GInv, BoxInv
        <4> QED
          BY <4>2, <4>3
      <3> HIDE DEF m
      <3>4. /\ box[s] \in Seq(Said) /\ Len(box[s]) \in Nat /\ Says(box[s], Born)
            /\ Capacity \in Nat /\ box \in [Processes -> Seq(Said)]
        BY <1>4, GossipAssumption, ServiceAssumption DEF GInv, BoxInv
      <3>5. /\ Append(box[s], m) \in Seq(Said) /\ Len(Append(box[s], m)) <= Capacity
            /\ Says(Append(box[s], m), Born)
        BY <3>2, <3>3, <3>4 DEF Says
      <3>6. \A p \in Processes : box'[p] = IF p = s THEN Append(box[s], m) ELSE box[p]
        BY <3>1, <3>4
      <3>7. box' \in [Processes -> Seq(Said)]
        BY <3>1, <3>4, <3>5
      <3>8. \A p \in Processes : Len(box'[p]) <= Capacity /\ Says(box'[p], Born')
        BY <1>5, <3>5, <3>6 DEF GInv, BoxInv
      <3> QED
        BY <3>7, <3>8 DEF BoxInv
    <2>2. CASE ~(code = "OK" /\ life[s] = "running")
      <3>1. box' = box
        BY <1>2, <2>2 DEF deliver
      <3> QED
        BY <1>5, <3>1, BoxKept DEF GInv
    <2> QED
      BY <2>1, <2>2
  <1> QED
    BY <1>6, <1>7, <1>8 DEF GInv

(* What a receive takes out of the mailbox it may add to the list. *)
LEMMA LearnOK ==
  ASSUME GInv, NEW t \in Tasks, NEW label, runs(t, label),
         NEW code \in __recieve_message(t[1]), learn(t, code), UNCHANGED life
  PROVE  /\ BoxInv'
         /\ \/ known' = known
            \/ \E list : known' = [known EXCEPT ![t] = list] /\ Names(list, Born \ {t[1]})
  <1> DEFINE p == t[1]
             m == Head(box[p])
  <1>1. /\ p \in Processes /\ p \in Born /\ Born \in SUBSET Processes /\ Born' = Born
        /\ Names(known[t], Born \ {p})
    BY RunnerBorn, SameBorn DEF GInv, ThreadInv, Born
  <1>2. CASE code = "OK"
    <2>1. box' = [box EXCEPT ![p] = Tail(box[p])]
      BY <1>2 DEF learn, take
    <2>2. box[p] # <<>>
      BY <1>2 DEF __recieve_message, NoMemory
    <2>3. known' = [known EXCEPT ![t] = addKnown(p, m.pid, addKnown(p, m.sender, known[t]))]
      BY <1>2 DEF learn, mike_RcvMsg, syscall
    <2>4. /\ box[p] \in Seq(Said) /\ Len(box[p]) \in Nat /\ Len(box[p]) <= Capacity
          /\ Says(box[p], Born) /\ Capacity \in Nat /\ box \in [Processes -> Seq(Said)]
      BY <1>1, GossipAssumption, ServiceAssumption DEF GInv, BoxInv
    <2> HIDE DEF p
    <2>5. Len(box[p]) > 0 /\ m = box[p][1]
      BY <2>2, <2>4
    <2>6. m.sender \in Born /\ m.pid \in Born
      BY <2>4, <2>5 DEF Says
    <2> HIDE DEF m
    <2>7. Names(addKnown(p, m.sender, known[t]), Born \ {p})
      BY <1>1, <2>6, AddKnownOK
    <2>8. Names(addKnown(p, m.pid, addKnown(p, m.sender, known[t])), Born \ {p})
      BY <1>1, <2>6, <2>7, AddKnownOK
    <2> DEFINE rest == Tail(box[p])
    <2>9. /\ rest \in Seq(Said) /\ Len(rest) = Len(box[p]) - 1
          /\ \A i \in 1..Len(rest) : rest[i] = box[p][i+1]
      BY <2>2, <2>4
    <2> HIDE DEF rest
    <2>10. Len(rest) <= Capacity /\ Says(rest, Born)
      <3>1. \A i \in 1..Len(rest) : i+1 \in 1..Len(box[p])
        BY <2>4, <2>5, <2>9
      <3> QED
        BY <2>4, <2>9, <3>1 DEF Says
    <2>11. \A q \in Processes : box'[q] = IF q = p THEN rest ELSE box[q]
      BY <2>1, <2>4 DEF rest
    <2>12. box' \in [Processes -> Seq(Said)]
      BY <2>1, <2>4, <2>9 DEF rest
    <2>13. \A q \in Processes : Len(box'[q]) <= Capacity /\ Says(box'[q], Born')
      BY <1>1, <2>10, <2>11 DEF GInv, BoxInv
    <2> QED
      BY <2>3, <2>8, <2>12, <2>13 DEF BoxInv, p
  <1>3. CASE code # "OK"
    <2>1. box' = box
      BY <1>3 DEF learn, take
    <2>2. mike_RcvMsg(code) # "OK"
      BY <1>3 DEF mike_RcvMsg, syscall
    <2>3. known' = known
      BY <2>2 DEF learn
    <2> QED
      BY <1>1, <2>1, <2>3, BoxKept DEF GInv
  <1> QED
    BY <1>2, <1>3

(* The rest of a step that learns. *)
LEMMA LearnStepOK ==
  ASSUME GInv, NEW t \in Tasks, NEW label, runs(t, label),
         NEW code \in __recieve_message(t[1]), learn(t, code), UNCHANGED <<life, family>>,
         pc' \in [Tasks -> PcLabels], count' \in [Tasks -> 0 .. Capacity]
  PROVE  GInv'
  <1>1. /\ BoxInv'
        /\ \/ known' = known
           \/ \E list : known' = [known EXCEPT ![t] = list] /\ Names(list, Born \ {t[1]})
    BY LearnOK
  <1>2. Born' = Born
    BY SameBorn
  <1>3. FamilyInv'
    BY <1>2, FamilyKept DEF GInv, FamilyInv, Lives
  <1>4. ThreadInv'
    BY <1>1, <1>2, ThreadsKept, ListChanged DEF GInv
  <1> QED
    BY <1>1, <1>3, <1>4 DEF GInv

(* The commands that receive. *)
LEMMA ReceiveOK ==
  ASSUME GInv, NEW t \in Tasks, receive(t)
  PROVE  GInv'
  <1>1. /\ runs(t, "command") /\ UNCHANGED <<life, family>>
        /\ pc' = pc /\ count' = count
    BY DEF receive
  <1>0. PICK code \in __recieve_message(t[1]) : learn(t, code)
    BY DEF receive
  <1>2. pc' \in [Tasks -> PcLabels] /\ count' \in [Tasks -> 0 .. Capacity]
    BY <1>1 DEF GInv, ThreadInv, PcLabels
  <1> QED
    BY <1>0, <1>1, <1>2, LearnStepOK

(* The number of messages to receive is at most the capacity. *)
LEMMA CountMessagesOK ==
  ASSUME GInv, NEW t \in Tasks, count_messages(t)
  PROVE  GInv'
  <1>1. /\ t[1] \in Processes
        /\ \/ /\ count' = [count EXCEPT ![t] = Len(box[t[1]])]
              /\ pc' = [pc EXCEPT ![t] = "receive all"]
           \/ UNCHANGED <<count, pc>>
        /\ UNCHANGED <<life, box, family, known>>
    BY RunnerBorn DEF count_messages, goto
  <1>2. Len(box[t[1]]) \in 0 .. Capacity
    <2>1. box[t[1]] \in Seq(Said) /\ Len(box[t[1]]) <= Capacity
      BY <1>1 DEF GInv, BoxInv
    <2>2. Len(box[t[1]]) \in Nat /\ Capacity \in Nat
      BY <2>1, GossipAssumption, ServiceAssumption
    <2> QED
      BY <2>1, <2>2
  <1>3. pc' \in [Tasks -> PcLabels] /\ count' \in [Tasks -> 0 .. Capacity]
    BY <1>1, <1>2 DEF GInv, ThreadInv, PcLabels
  <1>4. Born' = Born
    BY <1>1, SameBorn
  <1> QED
    BY <1>1, <1>3, <1>4, FamilyKept, BoxKept, ThreadsKept DEF GInv, FamilyInv, Lives

LEMMA ReceiveAllOK ==
  ASSUME GInv, NEW t \in Tasks, receive_all(t)
  PROVE  GInv'
  <1>1. runs(t, "receive all") /\ UNCHANGED <<life, family>>
    BY DEF receive_all
  <1>2. Born' = Born
    BY <1>1, SameBorn
  <1>3. CASE count[t] = 0
    <2>1. pc' = [pc EXCEPT ![t] = "command"] /\ UNCHANGED <<box, known, count>>
      BY <1>3 DEF receive_all, goto
    <2>2. pc' \in [Tasks -> PcLabels] /\ count' \in [Tasks -> 0 .. Capacity]
      BY <2>1 DEF GInv, ThreadInv, PcLabels
    <2> QED
      BY <1>1, <1>2, <2>1, <2>2, FamilyKept, BoxKept, ThreadsKept DEF GInv, FamilyInv, Lives
  <1>4. CASE count[t] # 0
    <2>1. count' = [count EXCEPT ![t] = @ - 1] /\ UNCHANGED pc
      BY <1>4 DEF receive_all
    <2>0. PICK code \in __recieve_message(t[1]) : learn(t, code)
      BY <1>4 DEF receive_all
    <2>2. count[t] - 1 \in 0 .. Capacity
      <3>1. count[t] \in 0 .. Capacity /\ Capacity \in Nat
        BY GossipAssumption, ServiceAssumption DEF GInv, ThreadInv
      <3> QED
        BY <1>4, <3>1
    <2>3. pc' \in [Tasks -> PcLabels] /\ count' \in [Tasks -> 0 .. Capacity]
      BY <2>1, <2>2 DEF GInv, ThreadInv, PcLabels
    <2> QED
      BY <1>1, <2>0, <2>1, <2>3, LearnStepOK
  <1> QED
    BY <1>3, <1>4

(* The ends of threads and processes. *)
LEMMA ThreadExitOK ==
  ASSUME GInv, NEW t \in Tasks, thread_exit(t)
  PROVE  GInv'
  <1>1. /\ t[1] \in Processes /\ t[1] \in Born
        /\ pc' = [pc EXCEPT ![t] = "done"] /\ known' = [known EXCEPT ![t] = <<>>]
        /\ UNCHANGED <<family, count>>
    BY RunnerBorn DEF thread_exit, goto
  <1>2. pc' \in [Tasks -> PcLabels] /\ count' \in [Tasks -> 0 .. Capacity]
    BY <1>1 DEF GInv, ThreadInv, PcLabels
  <1>3. /\ life' \in [Processes -> Lives] /\ Born \subseteq Born'
        /\ box' = box \/ box' = [box EXCEPT ![t[1]] = <<>>]
    <2>1. CASE /\ life' = [life EXCEPT ![t[1]] = "dead"]
               /\ box' = [box EXCEPT ![t[1]] = <<>>]
      BY <1>1, <2>1, LifeMoves DEF GInv, Lives
    <2>2. CASE UNCHANGED service
      <3>1. UNCHANGED <<life, box>>
        BY <2>2 DEF service
      <3> QED
        BY <3>1, SameBorn DEF GInv, FamilyInv, Lives
    <2> QED
      BY <2>1, <2>2 DEF thread_exit
  <1>4. Names(<<>>, Born \ {t[1]}) /\ Says(<<>>, Born')
    BY DEF Names, Says
  <1>5. ThreadInv'
    BY <1>1, <1>2, <1>3, <1>4, ListChanged DEF GInv
  <1>6. FamilyInv'
    BY <1>1, <1>3, FamilyKept DEF GInv
  <1>7. BoxInv'
    <2>1. CASE box' = box
      BY <1>3, <2>1, BoxKept DEF GInv
    <2>2. CASE box' = [box EXCEPT ![t[1]] = <<>>]
      BY <1>1, <1>3, <1>4, <2>2, SaysMore, GossipAssumption, ServiceAssumption DEF GInv, BoxInv
    <2> QED
      BY <1>3, <2>1, <2>2
  <1> QED
    BY <1>5, <1>6, <1>7 DEF GInv

LEMMA ExitedOK ==
  ASSUME GInv, NEW p \in Processes, exited(p), UNCHANGED <<family, threads>>
  PROVE  GInv'
  <1>1. /\ life' = [life EXCEPT ![p] = "dead"] /\ box' = [box EXCEPT ![p] = <<>>]
        /\ UNCHANGED <<family, pc, known, count>>
    BY DEF exited, threads
  <1>2. life' \in [Processes -> Lives] /\ Born \subseteq Born'
    BY <1>1, LifeMoves DEF GInv, Lives
  <1>3. Says(<<>>, Born')
    BY DEF Says
  <1>4. BoxInv'
    BY <1>1, <1>2, <1>3, SaysMore, GossipAssumption, ServiceAssumption DEF GInv, BoxInv
  <1> QED
    BY <1>1, <1>2, <1>4, FamilyKept, ThreadsKept DEF GInv, ThreadInv, PcLabels

(* Steps that change none of this. *)
LEMMA Unchanged ==
  ASSUME GInv, UNCHANGED <<life, box, family, threads>>
  PROVE  GInv'
  <1>1. Born' = Born /\ UNCHANGED <<pc, known, count>>
    BY SameBorn DEF threads
  <1> QED
    BY <1>1, FamilyKept, BoxKept, ThreadsKept DEF GInv, FamilyInv, ThreadInv, Lives, PcLabels

(* Every step keeps the invariant. *)
LEMMA GInvNext == GInv /\ [GNext]_gvars => GInv'
  <1> SUFFICES ASSUME GInv, [GNext]_gvars
               PROVE  GInv'
    OBVIOUS
  <1>1. ASSUME NEW p \in Processes, main(p)
        PROVE  GInv'
    BY <1>1, SpawnOK, MainThreadsOK, MainCreateOK, MainExitOK DEF main
  <1>2. ASSUME NEW t \in Tasks, doMailbox(t)
        PROVE  GInv'
    <2>1. CASE manage_stop(t)
      BY <2>1, Unchanged DEF manage_stop
    <2> QED
      BY <1>2, <2>1, StartOK, SendOK, ReceiveOK, CountMessagesOK, ReceiveAllOK, ThreadExitOK
      DEF doMailbox
  <1>3. CASE UNCHANGED gvars
    BY <1>3, Unchanged DEF gvars, service
  <1> QED
    BY <1>1, <1>2, <1>3, ExitedOK DEF GNext

-----------------------------------------------------------------------------
(* The inductive invariant: the tree, the mailboxes and the lists of a     *)
(* family of any size (mailboxTest.c).                                     *)
THEOREM GossipInvariant == GSpec => []GInv
  BY GInvInit, GInvNext, PTL DEF GSpec

(* Types, levels within NUM_PROC_LEVELS, mailboxes and message counts      *)
(* within the capacity.                                                    *)
THEOREM GossipTypeTheorem == GSpec => []GTypeOK
  <1>1. GInv => GTypeOK
    BY DEF GInv, FamilyInv, BoxInv, ThreadInv, GTypeOK
  <1> QED
    BY <1>1, GossipInvariant, PTL

(* No thread knows a process twice, itself, or one that was never started, *)
(* whatever it was told and whatever it forgot (addKnown, removeKnown).    *)
THEOREM KnownAreFamilyTheorem == GSpec => []KnownAreFamily
  <1>1. GInv => KnownAreFamily
    <2> SUFFICES ASSUME GInv, NEW t \in Tasks
                 PROVE  /\ \A i, j \in DOMAIN known[t] : known[t][i] = known[t][j] => i = j
                        /\ \A i \in DOMAIN known[t] :
                              known[t][i] \in {p \in Processes \ {t[1]} : life[p] # "unborn"}
      BY DEF KnownAreFamily
    <2>1. Names(known[t], Born \ {t[1]})
      BY DEF GInv, ThreadInv
    <2>2. DOMAIN known[t] = 1..Len(known[t])
      BY <2>1 DEF Names
    <2> QED
      BY <2>1, <2>2 DEF Names, Born
  <1> QED
    BY <1>1, GossipInvariant, PTL
=============================================================================
