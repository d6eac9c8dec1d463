---------------------------- MODULE PidListProofs ----------------------------
(***************************************************************************)
(* The list of processes of pidlist.c for a region of any size: the        *)
(* pointers of both lists always tell a sequence of nodes, add_to_tail and *)
(* remove_from_list are Append and the removal of one element, and the     *)
(* active list implements the ordered set of pids of PidSet.tla.           *)
(*                                                                         *)
(* Walk and initialized are recursive functions.  For each the proof shows *)
(* a function that solves the defining equation, and that no solution      *)
(* differs from it at a least argument.                                    *)
(***************************************************************************)
EXTENDS PidList, NaturalsInduction, WellFoundedInduction, TLAPS

(* The types of struct pidlist_region. *)
Region ==
  [next : [Nodes -> Nodes \cup {NIL}], prev : [Nodes -> Nodes \cup {NIL}],
   pid : [Nodes -> Pids \cup {NIL}],
   head : [Lists -> Nodes \cup {NIL}], tail : [Lists -> Nodes \cup {NIL}],
   count : [Lists -> Nat]]

(* s is the sequence of the nodes of list l: from the head along next, and *)
(* from the tail along prev.                                               *)
Holds(r, l, s) ==
  /\ r.count[l] = Len(s)
  /\ Len(s) = 0 => r.head[l] = NIL /\ r.tail[l] = NIL
  /\ Len(s) > 0 => /\ r.head[l] = s[1] /\ r.prev[s[1]] = NIL
                   /\ r.tail[l] = s[Len(s)] /\ r.next[s[Len(s)]] = NIL
  /\ \A i \in 1..Len(s)-1 : r.next[s[i]] = s[i+1] /\ r.prev[s[i+1]] = s[i]
  /\ \A i, j \in 1..Len(s) : s[i] = s[j] => i = j

NotIn(n, s) == \A i \in 1..Len(s) : s[i] # n
Disjoint(s, t) == \A i \in 1..Len(s) : NotIn(s[i], t)

(* Every nonempty set of natural numbers has a least element. *)
LEMMA LeastNat ==
  ASSUME NEW T \in SUBSET Nat, T # {}
  PROVE  \E x \in T : \A y \in T : x <= y
  <1>1. PICK x \in T : \A y \in T : ~(<<y, x>> \in OpToRel(<, Nat))
    BY NatLessThanWellFounded, WFMin
  <1>2. \A y \in T : ~(y < x)
    BY <1>1 DEF OpToRel
  <1> QED
    BY <1>2

-----------------------------------------------------------------------------
(* The assignments of add_to_tail to an empty list, field by field. *)
LEMMA AddToEmptyFields ==
  ASSUME NEW r \in Region, NEW l \in Lists, NEW node \in Nodes, r.head[l] = NIL
  PROVE  add_to_tail(r, l, node) =
           [next |-> r.next, prev |-> r.prev, pid |-> r.pid,
            head |-> [r.head EXCEPT ![l] = node], tail |-> [r.tail EXCEPT ![l] = node],
            count |-> [r.count EXCEPT ![l] = r.count[l] + 1]]
  <1> DEFINE m == add_to_tail_of_empty(r, l, node)
  <1>1. m = [r EXCEPT !.head = [r.head EXCEPT ![l] = node],
                      !.tail = [r.tail EXCEPT ![l] = node]]
    BY DEF Region, add_to_tail_of_empty
  <1>2. m = [next |-> r.next, prev |-> r.prev, pid |-> r.pid,
             head |-> [r.head EXCEPT ![l] = node], tail |-> [r.tail EXCEPT ![l] = node],
             count |-> r.count]
    BY <1>1 DEF Region
  <1>3. add_to_tail(r, l, node) = [m EXCEPT !.count[l] = @ + 1]
    BY DEF add_to_tail
  <1> HIDE DEF m
  <1> QED
    BY <1>2, <1>3

(* The same when the list has a tail to link the node to. *)
LEMMA AddToNonemptyFields ==
  ASSUME NEW r \in Region, NEW l \in Lists, NEW node \in Nodes, r.head[l] # NIL
  PROVE  add_to_tail(r, l, node) =
           [next |-> [r.next EXCEPT ![r.tail[l]] = node],
            prev |-> [r.prev EXCEPT ![node] = r.tail[l]], pid |-> r.pid,
            head |-> r.head, tail |-> [r.tail EXCEPT ![l] = node],
            count |-> [r.count EXCEPT ![l] = r.count[l] + 1]]
  <1> DEFINE m == [r EXCEPT !.prev[node] = r.tail[l],
                            !.next[r.tail[l]] = node,
                            !.tail[l] = node]
  <1>1. m = [r EXCEPT !.prev = [r.prev EXCEPT ![node] = r.tail[l]],
                      !.next = [r.next EXCEPT ![r.tail[l]] = node],
                      !.tail = [r.tail EXCEPT ![l] = node]]
    BY DEF Region
  <1>2. add_to_tail(r, l, node) = [m EXCEPT !.count[l] = @ + 1]
    BY DEF add_to_tail
  <1> HIDE DEF m
  <1>3. m = [next |-> [r.next EXCEPT ![r.tail[l]] = node],
             prev |-> [r.prev EXCEPT ![node] = r.tail[l]], pid |-> r.pid,
             head |-> r.head, tail |-> [r.tail EXCEPT ![l] = node],
             count |-> r.count]
    BY <1>1 DEF Region
  <1> QED
    BY <1>2, <1>3

(* add_to_tail appends the node, whose pointers are clear. *)
LEMMA AddToTail ==
  ASSUME NEW r \in Region, NEW l \in Lists, NEW node \in Nodes, NEW s \in Seq(Nodes),
         Holds(r, l, s), NotIn(node, s), r.next[node] = NIL, r.prev[node] = NIL
  PROVE  /\ add_to_tail(r, l, node) \in Region
         /\ Holds(add_to_tail(r, l, node), l, Append(s, node))
         /\ add_to_tail(r, l, node).pid = r.pid
  <1> DEFINE q == add_to_tail(r, l, node)
  <1>0. NIL \notin Nodes
    BY PidListAssumption
  <1>1. CASE Len(s) = 0
    <2>1. r.head[l] = NIL /\ r.count[l] = 0
      BY <1>1 DEF Holds
    <2>2. q = [next |-> r.next, prev |-> r.prev, pid |-> r.pid,
               head |-> [r.head EXCEPT ![l] = node], tail |-> [r.tail EXCEPT ![l] = node],
               count |-> [r.count EXCEPT ![l] = 1]]
      BY <2>1, AddToEmptyFields
    <2>3. Append(s, node) = <<node>>
      BY <1>1
    <2> QED
      BY <2>1, <2>2, <2>3 DEF Region, Holds
  <1>2. CASE Len(s) > 0
    <2> DEFINE n == Len(s)
    <2>1. /\ n \in Nat /\ n > 0 /\ r.head[l] = s[1] /\ s[1] \in Nodes
          /\ r.tail[l] = s[n] /\ s[n] \in Nodes /\ r.count[l] = n
      BY <1>2 DEF Holds
    <2>2. q = [next |-> [r.next EXCEPT ![s[n]] = node], prev |-> [r.prev EXCEPT ![node] = s[n]], pid |-> r.pid,
               head |-> r.head, tail |-> [r.tail EXCEPT ![l] = node],
               count |-> [r.count EXCEPT ![l] = n + 1]]
      BY <1>0, <2>1, AddToNonemptyFields
    <2>3. q \in Region /\ q.pid = r.pid
      BY <2>1, <2>2 DEF Region
    <2> DEFINE t == Append(s, node)
    <2>4. /\ Len(t) = n + 1 /\ t[n+1] = node
          /\ \A i \in 1..n : t[i] = s[i] /\ s[i] \in Nodes /\ s[i] # node
      BY <2>1 DEF NotIn
    <2>5. \A i, j \in 1..n+1 : t[i] = t[j] => i = j
      BY <2>1, <2>4 DEF Holds
    <2>6. /\ \A i \in 1..n : q.next[t[i]] = IF i = n THEN node ELSE s[i+1]
          /\ q.next[node] = NIL
      BY <2>1, <2>2, <2>4 DEF Region, Holds
    <2>7. q.prev[node] = s[n] /\ \A i \in 1..n : q.prev[t[i]] = r.prev[s[i]]
      BY <2>1, <2>2, <2>4 DEF Region
    <2>8. \A i \in 1..Len(t)-1 : q.next[t[i]] = t[i+1] /\ q.prev[t[i+1]] = t[i]
      BY <2>1, <2>4, <2>6, <2>7 DEF Holds
    <2>9. q.head[l] = t[1] /\ q.prev[t[1]] = NIL
      BY <2>1, <2>2, <2>4, <2>7 DEF Holds, Region
    <2>10. q.tail[l] = t[Len(t)] /\ q.next[t[Len(t)]] = NIL /\ q.count[l] = Len(t)
      BY <2>1, <2>2, <2>4, <2>6 DEF Region
    <2> HIDE DEF t, q
    <2>11. Holds(q, l, t)
      BY <2>1, <2>4, <2>5, <2>8, <2>9, <2>10 DEF Holds
    <2> QED
      BY <2>3, <2>11 DEF t, q
  <1> QED
    BY <1>1, <1>2

(* It leaves the other list alone. *)
LEMMA AddToTailOther ==
  ASSUME NEW r \in Region, NEW l \in Lists, NEW k \in Lists, k # l,
         NEW node \in Nodes, NEW s \in Seq(Nodes), NEW u \in Seq(Nodes),
         Holds(r, l, s), Holds(r, k, u), NotIn(node, u), Disjoint(s, u)
  PROVE  Holds(add_to_tail(r, l, node), k, u)
  <1> DEFINE q == add_to_tail(r, l, node)
  <1>0. NIL \notin Nodes
    BY PidListAssumption
  <1>1. Len(u) \in Nat /\ \A i \in 1..Len(u) : u[i] \in Nodes /\ u[i] # node
    BY DEF NotIn
  <1>2. /\ q.head[k] = r.head[k] /\ q.tail[k] = r.tail[k] /\ q.count[k] = r.count[k]
        /\ \A i \in 1..Len(u) : q.next[u[i]] = r.next[u[i]] /\ q.prev[u[i]] = r.prev[u[i]]
    <2>1. CASE Len(s) = 0
      <3>1. r.head[l] = NIL
        BY <2>1 DEF Holds
      <3>2. q = [next |-> r.next, prev |-> r.prev, pid |-> r.pid,
               head |-> [r.head EXCEPT ![l] = node], tail |-> [r.tail EXCEPT ![l] = node],
               count |-> [r.count EXCEPT ![l] = r.count[l] + 1]]
        BY <3>1, AddToEmptyFields
      <3> QED
        BY <3>2 DEF Region
    <2>2. CASE Len(s) > 0
      <3>1. /\ Len(s) \in Nat /\ r.head[l] = s[1] /\ s[1] \in Nodes
            /\ r.tail[l] = s[Len(s)] /\ s[Len(s)] \in Nodes
        BY <2>2 DEF Holds
      <3>2. q = [next |-> [r.next EXCEPT ![s[Len(s)]] = node],
                 prev |-> [r.prev EXCEPT ![node] = s[Len(s)]], pid |-> r.pid,
                 head |-> r.head, tail |-> [r.tail EXCEPT ![l] = node],
                 count |-> [r.count EXCEPT ![l] = r.count[l] + 1]]
        BY <1>0, <3>1, AddToNonemptyFields
      <3>3. \A i \in 1..Len(u) : u[i] # s[Len(s)]
        BY <2>2, <3>1 DEF Disjoint, NotIn
      <3> QED
        BY <1>1, <3>2, <3>3 DEF Region
    <2> QED
      BY <2>1, <2>2
  <1> HIDE DEF q
  <1> QED
    BY <1>1, <1>2 DEF Holds, q

-----------------------------------------------------------------------------
(* A sequence without its i-th element. *)
Without(s, i) == [j \in 1..Len(s)-1 |-> IF j < i THEN s[j] ELSE s[j+1]]

(* It is a sequence, one shorter. *)
LEMMA WithoutSeq ==
  ASSUME NEW S, NEW s \in Seq(S), NEW i \in 1..Len(s)
  PROVE  /\ Without(s, i) \in Seq(S)
         /\ Len(Without(s, i)) = Len(s) - 1
         /\ \A j \in 1..Len(s)-1 : Without(s, i)[j] = IF j < i THEN s[j] ELSE s[j+1]
  <1>1. Len(s) \in Nat /\ Len(s) >= 1 /\ \A j \in 1..Len(s) : s[j] \in S
    OBVIOUS
  <1>2. Without(s, i) \in [1..Len(s)-1 -> S]
    BY <1>1 DEF Without
  <1>3. Without(s, i) \in Seq(S)
    BY <1>1, <1>2
  <1>4. DOMAIN Without(s, i) = 1..Len(s)-1
    BY DEF Without
  <1>5. Len(Without(s, i)) = Len(s) - 1
    BY <1>1, <1>3, <1>4
  <1> QED
    BY <1>3, <1>5 DEF Without

(* The second half of remove_from_list. *)
LEMMA ClearedFields ==
  ASSUME NEW r \in Region, NEW l \in Lists, NEW node \in Nodes, NEW u \in Region,
         unlink(r, l, node) = u
  PROVE  remove_from_list(r, l, node) =
           [next |-> [u.next EXCEPT ![node] = NIL], prev |-> [u.prev EXCEPT ![node] = NIL],
            pid |-> u.pid, head |-> u.head, tail |-> u.tail,
            count |-> [u.count EXCEPT ![l] = u.count[l] - 1]]
  <1> DEFINE q == [u EXCEPT !.next[node] = NIL, !.prev[node] = NIL, !.count[l] = @ - 1]
  <1>1. remove_from_list(r, l, node) = q
    BY DEF remove_from_list
  <1>2. q = [u EXCEPT !.next = [u.next EXCEPT ![node] = NIL],
                      !.prev = [u.prev EXCEPT ![node] = NIL],
                      !.count = [u.count EXCEPT ![l] = u.count[l] - 1]]
    BY DEF Region
  <1> HIDE DEF q
  <1>3. q = [next |-> [u.next EXCEPT ![node] = NIL], prev |-> [u.prev EXCEPT ![node] = NIL],
            pid |-> u.pid, head |-> u.head, tail |-> u.tail,
            count |-> [u.count EXCEPT ![l] = u.count[l] - 1]]
    BY <1>2 DEF Region
  <1> QED
    BY <1>1, <1>3

(* The four cases of remove_from_list come to the same. *)
LEMMA RemoveFields ==
  ASSUME NEW r \in Region, NEW l \in Lists, NEW s \in Seq(Nodes), NEW i \in 1..Len(s),
         Holds(r, l, s)
  PROVE  LET node == s[i] IN
         remove_from_list(r, l, node) =
           [next |-> [m \in Nodes |-> IF m = node THEN NIL
                        ELSE IF i > 1 /\ m = s[i-1] THEN r.next[node] ELSE r.next[m]],
            prev |-> [m \in Nodes |-> IF m = node THEN NIL
                        ELSE IF i < Len(s) /\ m = s[i+1] THEN r.prev[node] ELSE r.prev[m]],
            pid |-> r.pid,
            head |-> [r.head EXCEPT ![l] = IF i = 1 THEN r.next[node] ELSE r.head[l]],
            tail |-> [r.tail EXCEPT ![l] = IF i = Len(s) THEN r.prev[node] ELSE r.tail[l]],
            count |-> [r.count EXCEPT ![l] = r.count[l] - 1]]
  <1> DEFINE node == s[i]
             n == Len(s)
             u == unlink(r, l, node)
             next == [m \in Nodes |-> IF i > 1 /\ m = s[i-1] THEN r.next[node] ELSE r.next[m]]
             prev == [m \in Nodes |-> IF i < n /\ m = s[i+1] THEN r.prev[node] ELSE r.prev[m]]
             head == [r.head EXCEPT ![l] = IF i = 1 THEN r.next[node] ELSE r.head[l]]
             tail == [r.tail EXCEPT ![l] = IF i = n THEN r.prev[node] ELSE r.tail[l]]
             rec == [next |-> next, prev |-> prev, pid |-> r.pid, head |-> head, tail |-> tail,
                     count |-> r.count]
  <1>0. NIL \notin Nodes
    BY PidListAssumption
  <1>1. /\ n \in Nat /\ n >= 1 /\ i \in 1..n /\ node \in Nodes
        /\ r.head[l] = s[1] /\ r.tail[l] = s[n] /\ \A j \in 1..n : s[j] \in Nodes
        /\ node = r.head[l] <=> i = 1
        /\ node = r.tail[l] <=> i = n
        /\ i = 1 => r.prev[node] = NIL
        /\ i = n => r.next[node] = NIL
        /\ i > 1 => r.prev[node] = s[i-1]
        /\ i < n => r.next[node] = s[i+1]
    BY DEF Holds
  <1>2. /\ next \in [Nodes -> Nodes \cup {NIL}] /\ prev \in [Nodes -> Nodes \cup {NIL}]
        /\ head \in [Lists -> Nodes \cup {NIL}] /\ tail \in [Lists -> Nodes \cup {NIL}]
    BY <1>1 DEF Region
  <1>3. rec \in Region
    BY <1>2 DEF Region
  <1>4. u = rec
    <2>1. CASE i = 1 /\ i = n
      <3>1. u = [r EXCEPT !.head[l] = NIL, !.tail[l] = NIL]
        BY <1>1, <2>1 DEF unlink
      <3>2. u = [r EXCEPT !.head = [r.head EXCEPT ![l] = NIL], !.tail = [r.tail EXCEPT ![l] = NIL]]
        BY <3>1 DEF Region
      <3>3. u = [next |-> r.next, prev |-> r.prev, pid |-> r.pid,
                 head |-> [r.head EXCEPT ![l] = NIL], tail |-> [r.tail EXCEPT ![l] = NIL],
                 count |-> r.count]
        BY <3>2 DEF Region
      <3>4. next = r.next /\ prev = r.prev
        <4>0. n \in Nat /\ i \in Nat
          BY <1>1
        <4>1. ~(i > 1) /\ ~(i < n)
          <5> HIDE DEF n
          <5> QED
            BY <4>0, <2>1
        <4> QED
          BY <4>1 DEF Region
      <3>5. head = [r.head EXCEPT ![l] = NIL] /\ tail = [r.tail EXCEPT ![l] = NIL]
        BY <1>1, <2>1
      <3> QED
        BY <3>3, <3>4, <3>5
    <2>2. CASE i = 1 /\ i # n
      <3>1. u = [r EXCEPT !.head[l] = r.next[node], !.prev[r.next[node]] = NIL]
        BY <1>1, <2>2 DEF unlink
      <3>2. u = [r EXCEPT !.head = [r.head EXCEPT ![l] = r.next[node]],
                          !.prev = [r.prev EXCEPT ![r.next[node]] = NIL]]
        BY <3>1 DEF Region
      <3>3. u = [next |-> r.next, prev |-> [r.prev EXCEPT ![r.next[node]] = NIL], pid |-> r.pid,
                 head |-> [r.head EXCEPT ![l] = r.next[node]], tail |-> r.tail,
                 count |-> r.count]
        BY <3>2 DEF Region
      <3>4. next = r.next /\ prev = [r.prev EXCEPT ![r.next[node]] = NIL]
        BY <1>1, <2>2 DEF Region
      <3>5. head = [r.head EXCEPT ![l] = r.next[node]] /\ tail = r.tail
        BY <1>1, <2>2 DEF Region
      <3> QED
        BY <3>3, <3>4, <3>5
    <2>3. CASE i # 1 /\ i = n
      <3>1. u = [r EXCEPT !.tail[l] = r.prev[node], !.next[r.prev[node]] = NIL]
        BY <1>1, <2>3 DEF unlink
      <3>2. u = [r EXCEPT !.tail = [r.tail EXCEPT ![l] = r.prev[node]],
                          !.next = [r.next EXCEPT ![r.prev[node]] = NIL]]
        BY <3>1 DEF Region
      <3>3. u = [next |-> [r.next EXCEPT ![r.prev[node]] = NIL], prev |-> r.prev, pid |-> r.pid,
                 head |-> r.head, tail |-> [r.tail EXCEPT ![l] = r.prev[node]],
                 count |-> r.count]
        BY <3>2 DEF Region
      <3>4. next = [r.next EXCEPT ![r.prev[node]] = NIL] /\ prev = r.prev
        BY <1>1, <2>3 DEF Region
      <3>5. head = r.head /\ tail = [r.tail EXCEPT ![l] = r.prev[node]]
        BY <1>1, <2>3 DEF Region
      <3> QED
        BY <3>3, <3>4, <3>5
    <2>4. CASE i # 1 /\ i # n
      <3>1. u = [r EXCEPT !.next[r.prev[node]] = r.next[node], !.prev[r.next[node]] = r.prev[node]]
        BY <1>1, <2>4 DEF unlink
      <3>2. u = [r EXCEPT !.next = [r.next EXCEPT ![r.prev[node]] = r.next[node]],
                          !.prev = [r.prev EXCEPT ![r.next[node]] = r.prev[node]]]
        BY <3>1 DEF Region
      <3>3. u = [next |-> [r.next EXCEPT ![r.prev[node]] = r.next[node]],
                 prev |-> [r.prev EXCEPT ![r.next[node]] = r.prev[node]], pid |-> r.pid,
                 head |-> r.head, tail |-> r.tail, count |-> r.count]
        BY <3>2 DEF Region
      <3>4. next = [r.next EXCEPT ![r.prev[node]] = r.next[node]]
        BY <1>1, <2>4 DEF Region
      <3>5. prev = [r.prev EXCEPT ![r.next[node]] = r.prev[node]]
        BY <1>1, <2>4 DEF Region
      <3>6. head = r.head /\ tail = r.tail
        BY <1>1, <2>4 DEF Region
      <3> QED
        BY <3>3, <3>4, <3>5, <3>6
    <2> QED
      BY <2>1, <2>2, <2>3, <2>4
  <1>5. remove_from_list(r, l, node) =
           [next |-> [rec.next EXCEPT ![node] = NIL], prev |-> [rec.prev EXCEPT ![node] = NIL],
            pid |-> rec.pid, head |-> rec.head, tail |-> rec.tail,
            count |-> [rec.count EXCEPT ![l] = rec.count[l] - 1]]
    <2>1. node \in Nodes
      BY <1>1
    <2> HIDE DEF rec, node
    <2>2. unlink(r, l, node) = rec
      BY <1>4
    <2> QED
      BY <2>1, <1>3, <2>2, ClearedFields
  <1> QED
    BY <1>1, <1>5

(* remove_from_list takes one node out of the sequence and clears its      *)
(* pointers.                                                               *)
LEMMA RemoveFromList ==
  ASSUME NEW r \in Region, NEW l \in Lists, NEW s \in Seq(Nodes), NEW i \in 1..Len(s),
         Holds(r, l, s)
  PROVE  LET q == remove_from_list(r, l, s[i]) IN
         /\ q \in Region
         /\ Holds(q, l, Without(s, i))
         /\ q.pid = r.pid
         /\ q.next[s[i]] = NIL /\ q.prev[s[i]] = NIL
  <1> DEFINE q == remove_from_list(r, l, s[i])
             t == Without(s, i)
             n == Len(s)
  <1>0. NIL \notin Nodes
    BY PidListAssumption
  <1>1. /\ n \in Nat /\ n >= 1 /\ i \in 1..n
        /\ \A j \in 1..n : s[j] \in Nodes
        /\ \A j, k \in 1..n : s[j] = s[k] => j = k
        /\ r.head[l] = s[1] /\ r.tail[l] = s[n] /\ r.count[l] = n
        /\ r.prev[s[1]] = NIL /\ r.next[s[n]] = NIL
        /\ \A j \in 1..n-1 : r.next[s[j]] = s[j+1] /\ r.prev[s[j+1]] = s[j]
    BY DEF Holds
  <1>2. q = [next |-> [m \in Nodes |-> IF m = s[i] THEN NIL
                        ELSE IF i > 1 /\ m = s[i-1] THEN r.next[s[i]] ELSE r.next[m]],
             prev |-> [m \in Nodes |-> IF m = s[i] THEN NIL
                        ELSE IF i < n /\ m = s[i+1] THEN r.prev[s[i]] ELSE r.prev[m]],
             pid |-> r.pid,
             head |-> [r.head EXCEPT ![l] = IF i = 1 THEN r.next[s[i]] ELSE r.head[l]],
             tail |-> [r.tail EXCEPT ![l] = IF i = n THEN r.prev[s[i]] ELSE r.tail[l]],
             count |-> [r.count EXCEPT ![l] = r.count[l] - 1]]
    BY RemoveFields
  <1>3. /\ t \in Seq(Nodes) /\ Len(t) = n - 1
        /\ \A j \in 1..n-1 : t[j] = IF j < i THEN s[j] ELSE s[j+1]
    BY WithoutSeq
  <1> HIDE DEF q, t, n
  <1>4. q \in Region
    <2>1. n - 1 \in Nat
      BY <1>1
    <2> QED
      BY <1>1, <1>2, <2>1 DEF Region
  <1>5. q.pid = r.pid /\ q.next[s[i]] = NIL /\ q.prev[s[i]] = NIL
    BY <1>1, <1>2
  <1>6. \A j \in 1..n : j # i =>
          /\ q.next[s[j]] = IF j = i - 1 THEN r.next[s[i]] ELSE r.next[s[j]]
          /\ q.prev[s[j]] = IF j = i + 1 THEN r.prev[s[i]] ELSE r.prev[s[j]]
    <2> SUFFICES ASSUME NEW j \in 1..n, j # i
                 PROVE  /\ q.next[s[j]] = IF j = i - 1 THEN r.next[s[i]] ELSE r.next[s[j]]
                        /\ q.prev[s[j]] = IF j = i + 1 THEN r.prev[s[i]] ELSE r.prev[s[j]]
      OBVIOUS
    <2>1. s[j] # s[i] /\ s[j] \in Nodes
      BY <1>1
    <2>2. i > 1 => (s[j] = s[i-1] <=> j = i - 1)
      BY <1>1
    <2>3. i < n => (s[j] = s[i+1] <=> j = i + 1)
      BY <1>1
    <2>4. (j = i - 1 => i > 1) /\ (j = i + 1 => i < n)
      BY <1>1
    <2> QED
      BY <1>2, <2>1, <2>2, <2>3, <2>4
  <1>7. q.count[l] = n - 1 
    BY <1>1, <1>2 DEF Region
  <1>8. /\ q.head[l] = IF i = 1 THEN r.next[s[i]] ELSE s[1]
        /\ q.tail[l] = IF i = n THEN r.prev[s[i]] ELSE s[n]
    BY <1>1, <1>2 DEF Region
  <1>9. n = 1 => q.head[l] = NIL /\ q.tail[l] = NIL
    BY <1>1, <1>8
  <1>10. ASSUME n > 1
         PROVE  q.head[l] = t[1] /\ q.prev[t[1]] = NIL
    <2>1. CASE i = 1
      <3>1. t[1] = s[2] /\ r.next[s[1]] = s[2] /\ r.prev[s[1]] = NIL
        BY <1>1, <1>3, <1>10, <2>1
      <3>2. q.prev[s[2]] = r.prev[s[1]]
        BY <1>1, <1>6, <1>10, <2>1
      <3> QED
        BY <3>1, <3>2, <2>1, <1>8
    <2>2. CASE i # 1
      <3>1. t[1] = s[1]
        BY <1>1, <1>3, <1>10, <2>2
      <3>2. q.prev[s[1]] = r.prev[s[1]]
        BY <1>1, <1>6, <1>10, <2>2
      <3> QED
        BY <3>1, <3>2, <2>2, <1>1, <1>8
    <2> QED
      BY <2>1, <2>2
  <1>11. ASSUME n > 1
         PROVE  q.tail[l] = t[n-1] /\ q.next[t[n-1]] = NIL
    <2>1. CASE i = n
      <3>1. t[n-1] = s[n-1] /\ r.prev[s[n]] = s[n-1] /\ r.next[s[n]] = NIL
        <4>1. n-1 \in 1..n-1 /\ (n-1)+1 = n /\ n-1 < i
          BY <1>1, <1>11, <2>1
        <4> QED
          BY <1>1, <1>3, <4>1
      <3>2. q.next[s[n-1]] = r.next[s[n]]
        BY <1>1, <1>6, <1>11, <2>1
      <3> QED
        BY <3>1, <3>2, <2>1, <1>8
    <2>2. CASE i # n
      <3>1. t[n-1] = s[n]
        <4>1. n-1 \in 1..n-1 /\ (n-1)+1 = n /\ ~(n-1 < i)
          BY <1>1, <1>11, <2>2
        <4> QED
          BY <1>3, <4>1
      <3>2. q.next[s[n]] = r.next[s[n]]
        BY <1>1, <1>6, <1>11, <2>2
      <3> QED
        BY <3>1, <3>2, <2>2, <1>1, <1>8
    <2> QED
      BY <2>1, <2>2
  <1>12. ASSUME NEW j \in 1..n-2
         PROVE  q.next[t[j]] = t[j+1] /\ q.prev[t[j+1]] = t[j]
    <2>0. /\ j \in 1..n /\ j+1 \in 1..n /\ j+2 \in 1..n /\ j \in 1..n-1 /\ j+1 \in 1..n-1
          /\ (j+1)+1 = j+2 /\ i \in Int /\ j \in Int
      BY <1>1, <1>12
    <2>1. CASE j + 1 < i
      <3>1. t[j] = s[j] /\ t[j+1] = s[j+1]
        BY <1>3, <2>0, <2>1
      <3>2. q.next[s[j]] = r.next[s[j]] /\ q.prev[s[j+1]] = r.prev[s[j+1]]
        BY <1>6, <2>0, <2>1
      <3> QED
        BY <1>1, <2>0, <3>1, <3>2
    <2>2. CASE j + 1 = i
      <3>1. t[j] = s[j] /\ t[j+1] = s[j+2]
        BY <1>3, <2>0, <2>2
      <3>2. q.next[s[j]] = r.next[s[j+1]] /\ q.prev[s[j+2]] = r.prev[s[j+1]]
        BY <1>6, <2>0, <2>2
      <3> QED
        BY <1>1, <2>0, <3>1, <3>2
    <2>3. CASE j + 1 > i
      <3>1. t[j] = s[j+1] /\ t[j+1] = s[j+2]
        BY <1>3, <2>0, <2>3
      <3>2. j+1 # i /\ j+1 # i-1 /\ j+2 # i /\ j+2 # i+1
        BY <2>0, <2>3
      <3>3. q.next[s[j+1]] = r.next[s[j+1]] /\ q.prev[s[j+2]] = r.prev[s[j+2]]
        BY <1>6, <2>0, <3>2
      <3> QED
        BY <1>1, <2>0, <3>1, <3>3
    <2> QED
      BY <2>0, <2>1, <2>2, <2>3
  <1>13. \A j, k \in 1..n-1 : t[j] = t[k] => j = k
    BY <1>1, <1>3
  <1>14. Holds(q, l, t)
    <2>1. Len(t) - 1 = n - 2
      BY <1>1, <1>3
    <2>2. Len(t) = 0 <=> n = 1
      BY <1>1, <1>3
    <2>3. Len(t) > 0 <=> n > 1
      BY <1>1, <1>3
    <2> QED
      BY <1>3, <1>7, <1>9, <1>10, <1>11, <1>12, <1>13, <2>1, <2>2, <2>3 DEF Holds
  <1> QED
    BY <1>4, <1>5, <1>14 DEF q, t

(* It leaves the other list alone. *)
LEMMA RemoveFromListOther ==
  ASSUME NEW r \in Region, NEW l \in Lists, NEW k \in Lists, k # l,
         NEW s \in Seq(Nodes), NEW i \in 1..Len(s), NEW u \in Seq(Nodes),
         Holds(r, l, s), Holds(r, k, u), Disjoint(s, u)
  PROVE  Holds(remove_from_list(r, l, s[i]), k, u)
  <1> DEFINE q == remove_from_list(r, l, s[i])
  <1>1. Len(u) \in Nat /\ \A j \in 1..Len(u) : u[j] \in Nodes
    OBVIOUS
  <1>2. q = [next |-> [m \in Nodes |-> IF m = s[i] THEN NIL
                        ELSE IF i > 1 /\ m = s[i-1] THEN r.next[s[i]] ELSE r.next[m]],
             prev |-> [m \in Nodes |-> IF m = s[i] THEN NIL
                        ELSE IF i < Len(s) /\ m = s[i+1] THEN r.prev[s[i]] ELSE r.prev[m]],
             pid |-> r.pid,
             head |-> [r.head EXCEPT ![l] = IF i = 1 THEN r.next[s[i]] ELSE r.head[l]],
             tail |-> [r.tail EXCEPT ![l] = IF i = Len(s) THEN r.prev[s[i]] ELSE r.tail[l]],
             count |-> [r.count EXCEPT ![l] = r.count[l] - 1]]
    BY RemoveFields
  <1>3. ASSUME NEW j \in 1..Len(u)
        PROVE  /\ u[j] # s[i]
               /\ ~(i > 1 /\ u[j] = s[i-1])
               /\ ~(i < Len(s) /\ u[j] = s[i+1])
    BY DEF Disjoint, NotIn
  <1> HIDE DEF q
  <1>4. q.head[k] = r.head[k] /\ q.tail[k] = r.tail[k] /\ q.count[k] = r.count[k]
    BY <1>2 DEF Region
  <1>5. \A j \in 1..Len(u) : q.next[u[j]] = r.next[u[j]] /\ q.prev[u[j]] = r.prev[u[j]]
    BY <1>1, <1>2, <1>3
  <1> QED
    BY <1>1, <1>4, <1>5 DEF Holds, q

-----------------------------------------------------------------------------
(* Walking a list passes its nodes in order and then stays at NIL.  Walk   *)
(* is a recursive function: the sequence gives one solution of its         *)
(* equation, and at a least index where another one differs the two        *)
(* follow the same pointer.                                                *)
LEMMA WalkPassesNodes ==
  ASSUME NEW r \in Region, NEW l \in Lists, NEW s \in Seq(Nodes), Holds(r, l, s)
  PROVE  \A i \in 0..MAX_PIDS : Walk(r, l)[i] = IF i < Len(s) THEN s[i+1] ELSE NIL
  <1> DEFINE step(f, i) == IF i = 0 THEN r.head[l]
                           ELSE IF f[i-1] = NIL THEN NIL ELSE r.next[f[i-1]]
             F(f) == [i \in 0..MAX_PIDS |-> step(f, i)]
             W == [i \in 0..MAX_PIDS |-> IF i < Len(s) THEN s[i+1] ELSE NIL]
             at == Walk(r, l)
  <1>0. MAX_PIDS \in Nat /\ NIL \notin Nodes
    BY PidListAssumption
  <1>1. /\ Len(s) \in Nat /\ \A j \in 1..Len(s) : s[j] \in Nodes
        /\ Len(s) = 0 => r.head[l] = NIL
        /\ Len(s) > 0 => r.head[l] = s[1] /\ r.next[s[Len(s)]] = NIL
        /\ \A j \in 1..Len(s)-1 : r.next[s[j]] = s[j+1]
    BY DEF Holds
  <1>2. \A i \in 0..MAX_PIDS : W[i] = step(W, i)
    <2> SUFFICES ASSUME NEW i \in 0..MAX_PIDS
                 PROVE  W[i] = step(W, i)
      OBVIOUS
    <2>1. CASE i = 0
      BY <1>1, <2>1
    <2>2. CASE i > 0 /\ i < Len(s)
      <3>1. W[i-1] = s[i] /\ W[i] = s[i+1] /\ s[i] \in Nodes
        BY <1>0, <1>1, <2>2
      <3> HIDE DEF W
      <3> QED
        BY <1>0, <1>1, <2>2, <3>1
    <2>3. CASE i > 0 /\ i = Len(s)
      <3>1. W[i-1] = s[i] /\ W[i] = NIL /\ s[i] \in Nodes
        BY <1>0, <1>1, <2>3
      <3> HIDE DEF W
      <3> QED
        BY <1>0, <1>1, <2>3, <3>1
    <2>4. CASE i > 0 /\ i > Len(s)
      <3>1. W[i-1] = NIL /\ W[i] = NIL
        BY <1>0, <1>1, <2>4
      <3> HIDE DEF W
      <3> QED
        BY <1>0, <1>1, <2>4, <3>1
    <2> QED
      BY <1>0, <1>1, <2>1, <2>2, <2>3, <2>4
  <1>3. W = F(W)
    BY <1>2
  <1>4. at = CHOOSE f : f = F(f)
    BY DEF Walk
  <1>5. at = F(at)
    <2> HIDE DEF F, W
    <2> QED
      BY <1>3, <1>4
  <1>6. \A i \in 0..MAX_PIDS : at[i] = step(at, i)
    <2> HIDE DEF at
    <2> QED
      BY <1>5
  <1> DEFINE D == {i \in 0..MAX_PIDS : at[i] # W[i]}
  <1>7. D = {}
    <2> SUFFICES ASSUME D # {}
                 PROVE  FALSE
      OBVIOUS
    <2> HIDE DEF at, W
    <2>0. D \in SUBSET Nat
      BY <1>0
    <2> HIDE DEF D
    <2>1. PICK i \in D : \A j \in D : i <= j
      BY <2>0, LeastNat
    <2> USE DEF D
    <2>2. i # 0
      BY <1>0, <1>2, <1>6
    <2>3. i - 1 \in 0..MAX_PIDS /\ ~(i <= i - 1)
      BY <1>0, <2>2
    <2>4. at[i-1] = W[i-1]
      BY <2>1, <2>3
    <2>5. at[i] = W[i]
      BY <1>2, <1>6, <2>4
    <2> QED
      BY <2>5
  <1> QED
    BY <1>7

(* find_node returns the node of the list with that pid, NIL when the list *)
(* has none.                                                               *)
LEMMA FindNode ==
  ASSUME NEW r \in Region, NEW l \in Lists, NEW s \in Seq(Nodes), Holds(r, l, s),
         Len(s) <= MAX_PIDS, NEW p \in Pids
  PROVE  \/ find_node(r, l, p) = NIL /\ \A i \in 1..Len(s) : r.pid[s[i]] # p
         \/ \E i \in 1..Len(s) : find_node(r, l, p) = s[i] /\ r.pid[s[i]] = p
  <1> DEFINE at == Walk(r, l)
             Q(i) == /\ at[i] = NIL \/ r.pid[at[i]] = p
                     /\ \A j \in 0..i-1 : at[j] # NIL /\ r.pid[at[j]] # p
             stop == CHOOSE i \in 0..MAX_PIDS : Q(i)
             n == Len(s)
  <1>0. MAX_PIDS \in Nat /\ NIL \notin Nodes
    BY PidListAssumption
  <1>1. n \in Nat /\ n <= MAX_PIDS /\ \A j \in 1..n : s[j] \in Nodes
    OBVIOUS
  <1>2. \A i \in 0..MAX_PIDS : at[i] = IF i < n THEN s[i+1] ELSE NIL
    BY WalkPassesNodes
  <1>3. find_node(r, l, p) = at[stop]
    BY DEF find_node
  <1> HIDE DEF at, n
  <1> DEFINE C == {i \in 0..MAX_PIDS : at[i] = NIL \/ r.pid[at[i]] = p}
  <1>4. \E i \in 0..MAX_PIDS : Q(i)
    <2>1. C \in SUBSET Nat /\ n \in C
      BY <1>0, <1>1, <1>2
    <2> HIDE DEF C
    <2>2. PICK i \in C : \A j \in C : i <= j
      BY <2>1, LeastNat
    <2> USE DEF C
    <2>3. i \in 0..MAX_PIDS /\ (at[i] = NIL \/ r.pid[at[i]] = p)
      OBVIOUS
    <2>4. ASSUME NEW j \in 0..i-1
          PROVE  at[j] # NIL /\ r.pid[at[j]] # p
      <3>1. j \in 0..MAX_PIDS /\ ~(i <= j)
        BY <1>0, <2>3
      <3> QED
        BY <2>2, <3>1
    <2> QED
      BY <2>3, <2>4
  <1>5. stop \in 0..MAX_PIDS /\ Q(stop)
    <2> HIDE DEF Q
    <2> QED
      BY <1>4
  <1> HIDE DEF stop
  <1>6. CASE stop < n
    <2>1. at[stop] = s[stop+1] /\ stop+1 \in 1..n
      BY <1>0, <1>1, <1>2, <1>5, <1>6
    <2>2. at[stop] # NIL
      BY <1>0, <1>1, <2>1
    <2> QED
      BY <1>3, <1>5, <2>1, <2>2 DEF n
  <1>7. CASE ~(stop < n)
    <2>1. at[stop] = NIL
      BY <1>2, <1>5, <1>7
    <2>2. ASSUME NEW i \in 1..n
          PROVE  r.pid[s[i]] # p
      <3>1. i-1 \in 0..stop-1 /\ i-1 \in 0..MAX_PIDS /\ i-1 < n /\ (i-1)+1 = i
        BY <1>0, <1>1, <1>5, <1>7
      <3>2. at[i-1] = s[i]
        BY <1>2, <3>1
      <3> QED
        BY <1>5, <3>1, <3>2
    <2> QED
      BY <1>3, <2>1, <2>2 DEF n
  <1> QED
    BY <1>6, <1>7

-----------------------------------------------------------------------------
(* The region after i turns of the loop of pidlist_init. *)
AfterTurns(i) ==
  [next |-> [m \in Nodes |-> IF m < i THEN m + 1 ELSE NIL],
   prev |-> [m \in Nodes |-> IF m > 1 /\ m <= i THEN m - 1 ELSE NIL],
   pid |-> [m \in Nodes |-> NIL],
   head |-> [l \in Lists |-> IF l = "free" /\ i > 0 THEN 1 ELSE NIL],
   tail |-> [l \in Lists |-> IF l = "free" /\ i > 0 THEN i ELSE NIL],
   count |-> [l \in Lists |-> IF l = "free" THEN i ELSE 0]]

(* It is a region. *)
LEMMA AfterTurnsRegion ==
  ASSUME NEW i \in 0..MAX_PIDS
  PROVE  AfterTurns(i) \in Region
  <1> DEFINE r == AfterTurns(i)
  <1>1. MAX_PIDS \in Nat /\ MAX_PIDS > 0
    BY PidListAssumption
  <1>2. r.next \in [Nodes -> Nodes \cup {NIL}] /\ r.prev \in [Nodes -> Nodes \cup {NIL}]
    BY <1>1 DEF AfterTurns, Nodes
  <1>3. r.head \in [Lists -> Nodes \cup {NIL}] /\ r.tail \in [Lists -> Nodes \cup {NIL}]
    BY <1>1 DEF AfterTurns, Nodes, Lists
  <1>4. r.pid \in [Nodes -> Pids \cup {NIL}] /\ r.count \in [Lists -> Nat]
    BY <1>1 DEF AfterTurns
  <1> QED
    BY <1>2, <1>3, <1>4 DEF AfterTurns, Region

(* One turn: initialize_pid_node finds the node as it should be, and       *)
(* add_to_tail appends it.                                                 *)
LEMMA OneTurn ==
  ASSUME NEW i \in 1..MAX_PIDS
  PROVE  add_to_tail(initialize_pid_node(AfterTurns(i-1), i), "free", i) = AfterTurns(i)
  <1> DEFINE r == AfterTurns(i-1)
  <1>1. /\ MAX_PIDS \in Nat /\ i \in Nodes /\ i-1 \in 0..MAX_PIDS /\ NIL \notin Nodes
        /\ "free" \in Lists /\ 1 \in Nodes
    BY PidListAssumption DEF Nodes, Lists
  <1>2. r \in Region
    BY <1>1, AfterTurnsRegion
  <1>3. r.next[i] = NIL /\ r.prev[i] = NIL /\ r.pid[i] = NIL
    BY <1>1 DEF AfterTurns, Nodes
  <1>4. r.count["free"] = i - 1 /\ r.count["free"] + 1 = i
    BY <1>1 DEF AfterTurns
  <1>5. initialize_pid_node(r, i) = r
    <2> HIDE DEF r
    <2>1. initialize_pid_node(r, i) = [r EXCEPT !.next = [r.next EXCEPT ![i] = NIL],
                                          !.prev = [r.prev EXCEPT ![i] = NIL],
                                          !.pid = [r.pid EXCEPT ![i] = NIL]]
      BY <1>1, <1>2 DEF initialize_pid_node, Region
    <2>2. /\ [r.next EXCEPT ![i] = NIL] = r.next /\ [r.prev EXCEPT ![i] = NIL] = r.prev
          /\ [r.pid EXCEPT ![i] = NIL] = r.pid
      BY <1>1, <1>2, <1>3 DEF Region
    <2>3. initialize_pid_node(r, i) = [r EXCEPT !.next = r.next, !.prev = r.prev, !.pid = r.pid]
      BY <2>1, <2>2
    <2> QED
      BY <1>2, <2>3 DEF Region
  <1>6. CASE i = 1
    <2>1. r.head["free"] = NIL
      BY <1>1, <1>6 DEF AfterTurns
    <2>2. add_to_tail(r, "free", i) =
            [next |-> r.next, prev |-> r.prev, pid |-> r.pid,
             head |-> [r.head EXCEPT !["free"] = i], tail |-> [r.tail EXCEPT !["free"] = i],
             count |-> [r.count EXCEPT !["free"] = i]]
      BY <1>1, <1>2, <1>4, <2>1, AddToEmptyFields
    <2>3. r.next = [m \in Nodes |-> IF m < i THEN m + 1 ELSE NIL]
      BY <1>1, <1>6 DEF AfterTurns, Nodes
    <2>4. r.prev = [m \in Nodes |-> IF m > 1 /\ m <= i THEN m - 1 ELSE NIL]
      BY <1>1, <1>6 DEF AfterTurns, Nodes
    <2>5. [r.head EXCEPT !["free"] = i] = [l \in Lists |-> IF l = "free" /\ i > 0 THEN 1 ELSE NIL]
      BY <1>1, <1>6 DEF AfterTurns, Lists
    <2>6. [r.tail EXCEPT !["free"] = i] = [l \in Lists |-> IF l = "free" /\ i > 0 THEN i ELSE NIL]
      BY <1>1, <1>6 DEF AfterTurns, Lists
    <2>7. [r.count EXCEPT !["free"] = i] = [l \in Lists |-> IF l = "free" THEN i ELSE 0]
      BY <1>1, <1>6 DEF AfterTurns, Lists
    <2>8. r.pid = [m \in Nodes |-> NIL]
      BY DEF AfterTurns
    <2>9. add_to_tail(r, "free", i) = AfterTurns(i)
      <3> HIDE DEF r
      <3> QED
        BY <2>2, <2>3, <2>4, <2>5, <2>6, <2>7, <2>8 DEF AfterTurns
    <2> QED
      BY <1>5, <2>9
  <1>7. CASE i > 1
    <2>0. /\ i-1 > 0 /\ i > 0 /\ i-1 \in Nodes /\ i-1 \in Int /\ (i-1)+1 = i
          /\ \A m \in Nodes : /\ m \in Int
                              /\ m < i <=> m < i-1 \/ m = i-1
                              /\ m <= i <=> m <= i-1 \/ m = i
      BY <1>1, <1>7 DEF Nodes
    <2>1. r.head["free"] = 1 /\ r.tail["free"] = i - 1 /\ r.head["free"] # NIL
      BY <1>1, <2>0 DEF AfterTurns
    <2>2. add_to_tail(r, "free", i) =
            [next |-> [r.next EXCEPT ![i-1] = i], prev |-> [r.prev EXCEPT ![i] = i-1],
             pid |-> r.pid, head |-> r.head, tail |-> [r.tail EXCEPT !["free"] = i],
             count |-> [r.count EXCEPT !["free"] = i]]
      BY <1>1, <1>2, <1>4, <2>1, AddToNonemptyFields
    <2>3. [r.next EXCEPT ![i-1] = i] = [m \in Nodes |-> IF m < i THEN m + 1 ELSE NIL]
      BY <2>0 DEF AfterTurns
    <2>4. [r.prev EXCEPT ![i] = i-1] = [m \in Nodes |-> IF m > 1 /\ m <= i THEN m - 1 ELSE NIL]
      BY <1>1, <1>7, <2>0 DEF AfterTurns
    <2>5. r.head = [l \in Lists |-> IF l = "free" /\ i > 0 THEN 1 ELSE NIL]
      BY <1>1, <1>7 DEF AfterTurns, Lists
    <2>6. [r.tail EXCEPT !["free"] = i] = [l \in Lists |-> IF l = "free" /\ i > 0 THEN i ELSE NIL]
      BY <1>1, <2>0 DEF AfterTurns
    <2>7. [r.count EXCEPT !["free"] = i] = [l \in Lists |-> IF l = "free" THEN i ELSE 0]
      BY <1>1, <1>7 DEF AfterTurns, Lists
    <2>8. r.pid = [m \in Nodes |-> NIL]
      BY DEF AfterTurns
    <2>9. add_to_tail(r, "free", i) = AfterTurns(i)
      <3> HIDE DEF r
      <3> QED
        BY <2>2, <2>3, <2>4, <2>5, <2>6, <2>7, <2>8 DEF AfterTurns
    <2> QED
      BY <1>5, <2>9
  <1> QED
    BY <1>6, <1>7

(* pidlist_init leaves all nodes on the free list, in order.  initialized  *)
(* is a recursive function: AfterTurns is one solution of its equation,    *)
(* and two solutions cannot differ first at any i.                         *)
LEMMA InitializedRegion ==
  pidlist_init = AfterTurns(MAX_PIDS)
  <1> DEFINE B == initialize_pid_list(initialize_pid_list(
                    [next |-> [n \in Nodes |-> NIL], prev |-> [n \in Nodes |-> NIL],
                     pid |-> [n \in Nodes |-> NIL],
                     head |-> [l \in Lists |-> NIL], tail |-> [l \in Lists |-> NIL],
                     count |-> [l \in Lists |-> 0]], "free"), "active")
             step(f, i) == IF i = 0 THEN B
                           ELSE add_to_tail(initialize_pid_node(f[i-1], i), "free", i)
             F(f) == [i \in 0..MAX_PIDS |-> step(f, i)]
             G == [i \in 0..MAX_PIDS |-> AfterTurns(i)]
  <1>0. MAX_PIDS \in Nat
    BY PidListAssumption
  <1>1. B = AfterTurns(0)
    <2> DEFINE r == AfterTurns(0)
    <2>1. \A m \in Nodes : ~(m < 0) /\ ~(m > 1 /\ m <= 0)
      BY <1>0 DEF Nodes
    <2>2. r = [next |-> [n \in Nodes |-> NIL], prev |-> [n \in Nodes |-> NIL],
               pid |-> [n \in Nodes |-> NIL],
               head |-> [l \in Lists |-> NIL], tail |-> [l \in Lists |-> NIL],
               count |-> [l \in Lists |-> 0]]
      <3>1. r.next = [n \in Nodes |-> NIL] /\ r.prev = [n \in Nodes |-> NIL]
        BY <2>1 DEF AfterTurns
      <3> QED
        BY <3>1 DEF AfterTurns
    <2>3. r \in Region
      BY <1>0, AfterTurnsRegion
    <2>4. \A k \in Lists : r.head[k] = NIL /\ r.tail[k] = NIL /\ r.count[k] = 0
      BY <2>2
    <2> HIDE DEF r
    <2>5. \A k \in Lists : initialize_pid_list(r, k) = r
      <3> SUFFICES ASSUME NEW k \in Lists
                   PROVE  initialize_pid_list(r, k) = r
        OBVIOUS
      <3>1. initialize_pid_list(r, k) = [r EXCEPT !.head = [r.head EXCEPT ![k] = NIL],
                                                  !.tail = [r.tail EXCEPT ![k] = NIL],
                                                  !.count = [r.count EXCEPT ![k] = 0]]
        BY <2>3 DEF initialize_pid_list, Region
      <3>2. /\ [r.head EXCEPT ![k] = NIL] = r.head /\ [r.tail EXCEPT ![k] = NIL] = r.tail
            /\ [r.count EXCEPT ![k] = 0] = r.count
        BY <2>3, <2>4 DEF Region
      <3>3. initialize_pid_list(r, k) = [r EXCEPT !.head = r.head, !.tail = r.tail, !.count = r.count]
        BY <3>1, <3>2
      <3> QED
        BY <2>3, <3>3 DEF Region
    <2> QED
      BY <2>2, <2>5 DEF Lists, r
  <1> HIDE DEF B
  <1>2. \A i \in 0..MAX_PIDS : G[i] = step(G, i)
    <2> SUFFICES ASSUME NEW i \in 0..MAX_PIDS
                 PROVE  G[i] = step(G, i)
      OBVIOUS
    <2>1. CASE i = 0
      BY <1>0, <1>1, <2>1
    <2>2. CASE i # 0
      <3>1. i \in 1..MAX_PIDS /\ i-1 \in 0..MAX_PIDS
        BY <1>0, <2>2
      <3> QED
        BY <2>2, <3>1, OneTurn
    <2> QED
      BY <2>1, <2>2
  <1>3. G = F(G)
    BY <1>2
  <1>4. initialized = CHOOSE f : f = F(f)
    BY DEF initialized, B
  <1>5. initialized = F(initialized)
    <2> HIDE DEF F, G
    <2> QED
      BY <1>3, <1>4
  <1>6. \A i \in 0..MAX_PIDS : initialized[i] = step(initialized, i)
    BY <1>5
  <1> DEFINE D == {i \in 0..MAX_PIDS : initialized[i] # G[i]}
  <1>7. D = {}
    <2> SUFFICES ASSUME D # {}
                 PROVE  FALSE
      OBVIOUS
    <2> HIDE DEF G
    <2>0. D \in SUBSET Nat
      BY <1>0
    <2> HIDE DEF D
    <2>1. PICK i \in D : \A j \in D : i <= j
      BY <2>0, LeastNat
    <2> USE DEF D
    <2>2. i # 0
      BY <1>0, <1>2, <1>6
    <2>3. i - 1 \in 0..MAX_PIDS /\ ~(i <= i - 1)
      BY <1>0, <2>2
    <2>4. initialized[i-1] = G[i-1]
      BY <2>1, <2>3
    <2>5. initialized[i] = G[i]
      BY <1>2, <1>6, <2>4
    <2> QED
      BY <2>5
  <1>8. MAX_PIDS \in 0..MAX_PIDS
    BY <1>0
  <1>9. initialized[MAX_PIDS] = G[MAX_PIDS]
    BY <1>7, <1>8
  <1> QED
    BY <1>8, <1>9 DEF pidlist_init

-----------------------------------------------------------------------------
(* The region is sound: f and a are the nodes of the two lists; they share *)
(* no node and lose none; the nodes in use are those with a pid, and no    *)
(* two have the same.                                                      *)
Sound(r, f, a) ==
  /\ Holds(r, "free", f)
  /\ Holds(r, "active", a)
  /\ Disjoint(f, a)
  /\ Len(f) + Len(a) = MAX_PIDS
  /\ \A n \in Nodes : r.pid[n] # NIL <=> ~NotIn(n, a)
  /\ \A m, n \in Nodes : r.pid[m] = r.pid[n] /\ r.pid[m] # NIL => m = n

(* The pids in list order. *)
PidsOf(r, a) == [i \in 1..Len(a) |-> r.pid[a[i]]]

(* The initial region is sound: every node is free. *)
LEMMA InitSound ==
  /\ pidlist_init \in Region
  /\ Sound(pidlist_init, [i \in Nodes |-> i], <<>>)
  /\ [i \in Nodes |-> i] \in Seq(Nodes)
  <1> DEFINE r == AfterTurns(MAX_PIDS)
             f == [i \in Nodes |-> i]
  <1>1. MAX_PIDS \in Nat /\ MAX_PIDS > 0 /\ MAX_PIDS \in 0..MAX_PIDS /\ NIL \notin Nodes
    BY PidListAssumption
  <1>2. r \in Region
    BY <1>1, AfterTurnsRegion
  <1>3. f \in Seq(Nodes) /\ Len(f) = MAX_PIDS /\ \A i \in 1..MAX_PIDS : f[i] = i
    BY <1>1 DEF Nodes
  <1>4. /\ r.count["free"] = MAX_PIDS /\ r.head["free"] = 1 /\ r.tail["free"] = MAX_PIDS
        /\ r.count["active"] = 0 /\ r.head["active"] = NIL /\ r.tail["active"] = NIL
        /\ \A m \in Nodes : r.pid[m] = NIL
    BY <1>1 DEF AfterTurns, Lists
  <1>5. /\ \A m \in 1..MAX_PIDS-1 : r.next[m] = m+1 /\ r.prev[m+1] = m
        /\ r.prev[1] = NIL /\ r.next[MAX_PIDS] = NIL
    BY <1>1 DEF AfterTurns, Nodes
  <1> HIDE DEF r, f
  <1>6. Holds(r, "free", f)
    BY <1>1, <1>3, <1>4, <1>5 DEF Holds
  <1>7. Holds(r, "active", <<>>)
    BY <1>4 DEF Holds
  <1>8. Disjoint(f, <<>>) /\ \A n : NotIn(n, <<>>)
    BY DEF Disjoint, NotIn
  <1>9. Len(f) + Len(<<>>) = MAX_PIDS
    BY <1>1, <1>3
  <1>10. Sound(r, f, <<>>)
    BY <1>4, <1>6, <1>7, <1>8, <1>9 DEF Sound
  <1> QED
    BY <1>2, <1>3, <1>10, InitializedRegion DEF r, f

(* Setting a node's pid changes neither list. *)
WithPid(r, node, p) == [r EXCEPT !.pid[node] = p]

LEMMA SetPid ==
  ASSUME NEW r \in Region, NEW node \in Nodes, NEW p \in Pids \cup {NIL}
  PROVE  /\ WithPid(r, node, p) \in Region
         /\ WithPid(r, node, p).pid = [r.pid EXCEPT ![node] = p]
         /\ WithPid(r, node, p).next = r.next /\ WithPid(r, node, p).prev = r.prev
         /\ \A l \in Lists : \A s : Holds(WithPid(r, node, p), l, s) <=> Holds(r, l, s)
  <1> DEFINE q == WithPid(r, node, p)
  <1>1. q = [next |-> r.next, prev |-> r.prev, pid |-> [r.pid EXCEPT ![node] = p],
             head |-> r.head, tail |-> r.tail, count |-> r.count]
    BY DEF Region, WithPid
  <1> HIDE DEF q
  <1>2. q \in Region
    BY <1>1 DEF Region
  <1>3. \A l \in Lists : \A s : Holds(q, l, s) <=> Holds(r, l, s)
    BY <1>1 DEF Holds
  <1> QED
    BY <1>1, <1>2, <1>3 DEF q

(* A node is taken from one list, given a pid or none, and put at the end  *)
(* of the other one.                                                       *)
Moved(r, l, k, node, p) ==
  add_to_tail(WithPid(remove_from_list(r, l, node), node, p), k, node)

(* Both lists then hold what they should. *)
LEMMA MoveNode ==
  ASSUME NEW r \in Region, NEW l \in Lists, NEW k \in Lists, k # l,
         NEW s \in Seq(Nodes), NEW i \in 1..Len(s), NEW u \in Seq(Nodes),
         Holds(r, l, s), Holds(r, k, u), Disjoint(s, u), NEW p \in Pids \cup {NIL}
  PROVE  LET q == Moved(r, l, k, s[i], p) IN
         /\ q \in Region
         /\ Holds(q, l, Without(s, i))
         /\ Holds(q, k, Append(u, s[i]))
         /\ Disjoint(Without(s, i), Append(u, s[i]))
         /\ q.pid[s[i]] = p /\ \A n \in Nodes \ {s[i]} : q.pid[n] = r.pid[n]
  <1> DEFINE node == s[i]
             t == Without(s, i)
             r1 == remove_from_list(r, l, node)
             r2 == WithPid(r1, node, p)
             q == add_to_tail(r2, k, node)
  <1>1. /\ r1 \in Region /\ Holds(r1, l, t) /\ Holds(r1, k, u) /\ r1.pid = r.pid
        /\ r1.next[node] = NIL /\ r1.prev[node] = NIL
    BY RemoveFromList, RemoveFromListOther
  <1>2. /\ t \in Seq(Nodes) /\ Len(t) = Len(s) - 1 /\ Len(s) \in Nat /\ i \in 1..Len(s)
        /\ \A j \in 1..Len(s)-1 : t[j] = IF j < i THEN s[j] ELSE s[j+1]
        /\ node \in Nodes
    <2>1. Len(s) \in Nat /\ i \in 1..Len(s) /\ node \in Nodes
      OBVIOUS
    <2> QED
      BY <2>1, WithoutSeq
  <1>3. \A j, m \in 1..Len(s) : s[j] = s[m] => j = m
    BY DEF Holds
  <1>4. NotIn(node, u) /\ Len(u) \in Nat
    BY DEF Disjoint
  <1>5. NotIn(node, t)
    <2> HIDE DEF t
    <2> SUFFICES ASSUME NEW j \in 1..Len(t)
                 PROVE  t[j] # s[i]
      BY DEF NotIn
    <2>1. j \in 1..Len(s)-1 /\ j \in 1..Len(s) /\ j+1 \in 1..Len(s) /\ i \in Int
      BY <1>2
    <2>2. CASE j < i
      BY <1>2, <1>3, <2>1, <2>2
    <2>3. CASE ~(j < i)
      <3>1. j+1 # i
        BY <2>1, <2>3
      <3> QED
        BY <1>2, <1>3, <2>1, <2>3, <3>1
    <2> QED
      BY <2>2, <2>3
  <1>6. Disjoint(t, u)
    <2> HIDE DEF t
    <2> SUFFICES ASSUME NEW j \in 1..Len(t)
                 PROVE  NotIn(t[j], u)
      BY DEF Disjoint
    <2>1. j \in 1..Len(s)-1 /\ j \in 1..Len(s) /\ j+1 \in 1..Len(s)
      BY <1>2
    <2> QED
      BY <1>2, <2>1 DEF Disjoint
  <1>7. Disjoint(u, t)
    BY <1>6 DEF Disjoint, NotIn
  <1> HIDE DEF t, r1, node
  <1>8. /\ r2 \in Region /\ Holds(r2, l, t) /\ Holds(r2, k, u)
        /\ r2.pid = [r.pid EXCEPT ![node] = p]
        /\ r2.next[node] = NIL /\ r2.prev[node] = NIL
    <2>1. /\ r2 \in Region /\ r2.pid = [r1.pid EXCEPT ![node] = p]
          /\ r2.next = r1.next /\ r2.prev = r1.prev
          /\ \A m \in Lists : \A v : Holds(r2, m, v) <=> Holds(r1, m, v)
      <3>1. r1 \in Region /\ node \in Nodes
        BY <1>1, <1>2
      <3> QED
        BY <3>1, SetPid
    <2> QED
      BY <1>1, <2>1
  <1> HIDE DEF r2
  <1>9. q \in Region /\ Holds(q, k, Append(u, node)) /\ q.pid = r2.pid
    BY <1>2, <1>4, <1>8, AddToTail
  <1>10. Holds(q, l, t)
    BY <1>2, <1>5, <1>7, <1>8, AddToTailOther
  <1>11. Disjoint(t, Append(u, node))
    BY <1>2, <1>4, <1>5, <1>6 DEF Disjoint, NotIn
  <1>12. q.pid[node] = p /\ \A n \in Nodes \ {node} : q.pid[n] = r.pid[n]
    BY <1>2, <1>8, <1>9 DEF Region
  <1> QED
    BY <1>9, <1>10, <1>11, <1>12 DEF r2, r1, t, node, Moved

-----------------------------------------------------------------------------
(* The head of the free list goes to the end of the active one, with a pid *)
(* that was not listed.                                                    *)
LEMMA AddKeepsSound ==
  ASSUME NEW r \in Region, NEW f \in Seq(Nodes), NEW a \in Seq(Nodes), Sound(r, f, a),
         Len(f) > 0, NEW p \in Pids, \A i \in 1..Len(a) : r.pid[a[i]] # p
  PROVE  LET node == f[1]
             q == Moved(r, "free", "active", node, p)
         IN  /\ q \in Region
             /\ Without(f, 1) \in Seq(Nodes) /\ Append(a, node) \in Seq(Nodes)
             /\ Sound(q, Without(f, 1), Append(a, node))
             /\ PidsOf(q, Append(a, node)) = Append(PidsOf(r, a), p)
  <1> DEFINE node == f[1]
             q == Moved(r, "free", "active", node, p)
             g == Without(f, 1)
             b == Append(a, node)
  <1>1. /\ Len(f) \in Nat /\ Len(a) \in Nat /\ 1 \in 1..Len(f) /\ node \in Nodes
        /\ "free" \in Lists /\ "active" \in Lists /\ "free" # "active"
        /\ NIL \notin Pids /\ MAX_PIDS \in Nat
    BY PidListAssumption DEF Lists
  <1>2. /\ q \in Region /\ Holds(q, "free", g) /\ Holds(q, "active", b) /\ Disjoint(g, b)
        /\ q.pid[node] = p /\ \A n \in Nodes \ {node} : q.pid[n] = r.pid[n]
    <2>1. Holds(r, "free", f) /\ Holds(r, "active", a) /\ Disjoint(f, a) /\ p \in Pids \cup {NIL}
      BY DEF Sound
    <2> QED
      BY <1>1, <2>1, MoveNode
  <1>3. g \in Seq(Nodes) /\ Len(g) = Len(f) - 1
    BY <1>1, WithoutSeq
  <1>4. /\ b \in Seq(Nodes) /\ Len(b) = Len(a) + 1 /\ b[Len(a)+1] = node
        /\ \A i \in 1..Len(a) : b[i] = a[i] /\ a[i] \in Nodes
    BY <1>1
  <1>5. NotIn(node, a)
    BY <1>1 DEF Sound, Disjoint
  <1>6. Len(g) + Len(b) = MAX_PIDS
    <2>1. Len(f) + Len(a) = MAX_PIDS
      BY DEF Sound
    <2> HIDE DEF g, b
    <2>2. Len(f) \in Int /\ Len(a) \in Int /\ MAX_PIDS \in Int
      BY <1>1
    <2>3. Len(g) = Len(f) - 1 /\ Len(b) = Len(a) + 1
      BY <1>3, <1>4
    <2> QED
      BY <2>1, <2>2, <2>3
  <1> HIDE DEF node, q, g, b
  <1>7. \A n \in Nodes : NotIn(n, b) <=> NotIn(n, a) /\ n # node
    BY <1>1, <1>4 DEF NotIn
  <1>8. \A n \in Nodes : q.pid[n] = IF n = node THEN p ELSE r.pid[n]
    BY <1>1, <1>2 DEF Region
  <1>9. \A n \in Nodes : q.pid[n] # NIL <=> ~NotIn(n, b)
    BY <1>1, <1>7, <1>8 DEF Sound
  <1>10. \A n \in Nodes : r.pid[n] # p
    BY <1>1 DEF Sound, NotIn
  <1>11. \A m, n \in Nodes : q.pid[m] = q.pid[n] /\ q.pid[m] # NIL => m = n
    BY <1>8, <1>10 DEF Sound
  <1>12. Sound(q, g, b)
    BY <1>2, <1>6, <1>9, <1>11 DEF Sound
  <1>13. \A i \in 1..Len(a) : q.pid[b[i]] = r.pid[a[i]]
    BY <1>4, <1>5, <1>8 DEF NotIn
  <1>14. PidsOf(q, b) = Append(PidsOf(r, a), p)
    <2>1. /\ PidsOf(r, a) \in Seq(Pids \cup {NIL}) /\ Len(PidsOf(r, a)) = Len(a)
          /\ \A i \in 1..Len(a) : PidsOf(r, a)[i] = r.pid[a[i]]
      BY <1>1, <1>4 DEF PidsOf, Region
    <2>2. PidsOf(q, b) \in Seq(Pids \cup {NIL}) /\ Len(PidsOf(q, b)) = Len(a) + 1
      <3>1. \A i \in 1..Len(b) : b[i] \in Nodes /\ q.pid[b[i]] \in Pids \cup {NIL}
        BY <1>2, <1>4 DEF Region
      <3> QED
        BY <1>1, <1>4, <3>1 DEF PidsOf
    <2>3. \A i \in 1..Len(a)+1 : PidsOf(q, b)[i] = IF i = Len(a)+1 THEN p ELSE r.pid[a[i]]
      <3> SUFFICES ASSUME NEW i \in 1..Len(a)+1
                   PROVE  PidsOf(q, b)[i] = IF i = Len(a)+1 THEN p ELSE r.pid[a[i]]
        OBVIOUS
      <3>1. PidsOf(q, b)[i] = q.pid[b[i]]
        BY <1>4 DEF PidsOf
      <3>2. i # Len(a)+1 => i \in 1..Len(a)
        BY <1>1
      <3> QED
        BY <1>1, <1>4, <1>8, <1>13, <3>1, <3>2
    <2> HIDE DEF PidsOf
    <2>4. Append(PidsOf(r, a), p) \in Seq(Pids \cup {NIL}) /\ Len(Append(PidsOf(r, a), p)) = Len(a) + 1
      BY <2>1
    <2>5. \A i \in 1..Len(a)+1 :
             Append(PidsOf(r, a), p)[i] = IF i = Len(a)+1 THEN p ELSE r.pid[a[i]]
      BY <1>1, <2>1
    <2> QED
      BY <1>1, <2>2, <2>3, <2>4, <2>5
  <1> QED
    BY <1>2, <1>3, <1>4, <1>12, <1>14 DEF node, q, g, b

(* A node of the active list goes to the end of the free one, without a    *)
(* pid.                                                                    *)
LEMMA RemoveKeepsSound ==
  ASSUME NEW r \in Region, NEW f \in Seq(Nodes), NEW a \in Seq(Nodes), Sound(r, f, a),
         NEW i \in 1..Len(a)
  PROVE  LET node == a[i]
             q == Moved(r, "active", "free", node, NIL)
         IN  /\ q \in Region
             /\ Without(a, i) \in Seq(Nodes) /\ Append(f, node) \in Seq(Nodes)
             /\ Sound(q, Append(f, node), Without(a, i))
             /\ PidsOf(q, Without(a, i)) = Without(PidsOf(r, a), i)
  <1> DEFINE node == a[i]
             q == Moved(r, "active", "free", node, NIL)
             g == Append(f, node)
             b == Without(a, i)
  <1>1. /\ Len(f) \in Nat /\ Len(a) \in Nat /\ i \in 1..Len(a) /\ node \in Nodes
        /\ "free" \in Lists /\ "active" \in Lists /\ "free" # "active"
        /\ MAX_PIDS \in Nat /\ \A j \in 1..Len(a) : a[j] \in Nodes
    BY PidListAssumption DEF Lists
  <1>2. Disjoint(a, f)
    BY DEF Sound, Disjoint, NotIn
  <1>3. /\ q \in Region /\ Holds(q, "active", b) /\ Holds(q, "free", g) /\ Disjoint(b, g)
        /\ q.pid[node] = NIL /\ \A n \in Nodes \ {node} : q.pid[n] = r.pid[n]
    <2>1. Holds(r, "active", a) /\ Holds(r, "free", f) /\ NIL \in Pids \cup {NIL}
      BY DEF Sound
    <2>2. "free" \in Lists /\ "active" \in Lists /\ "free" # "active"
      BY <1>1
    <2> QED
      BY <1>2, <2>1, <2>2, MoveNode
  <1>4. /\ b \in Seq(Nodes) /\ Len(b) = Len(a) - 1
        /\ \A j \in 1..Len(a)-1 : b[j] = IF j < i THEN a[j] ELSE a[j+1]
    BY <1>1, WithoutSeq
  <1>5. g \in Seq(Nodes) /\ Len(g) = Len(f) + 1
    BY <1>1
  <1>6. Len(g) + Len(b) = MAX_PIDS
    <2>1. Len(f) + Len(a) = MAX_PIDS
      BY DEF Sound
    <2> HIDE DEF g, b
    <2>2. Len(f) \in Int /\ Len(a) \in Int /\ MAX_PIDS \in Int
      BY <1>1
    <2>3. Len(g) = Len(f) + 1 /\ Len(b) = Len(a) - 1
      BY <1>4, <1>5
    <2> QED
      BY <2>1, <2>2, <2>3
  <1>7. \A j, k \in 1..Len(a) : a[j] = a[k] => j = k
    BY DEF Sound, Holds
  <1> HIDE DEF q, g, b
  <1>8. \A j \in 1..Len(a)-1 : /\ j \in 1..Len(a) /\ j+1 \in 1..Len(a)
                               /\ j < i => j # i
                               /\ ~(j < i) => j+1 # i
    BY <1>1
  <1>9. \A j \in 1..Len(b) : b[j] # node /\ b[j] \in Nodes
    BY <1>1, <1>4, <1>7, <1>8
  <1>10. \A j \in 1..Len(a) : j # i => \E k \in 1..Len(b) : b[k] = a[j]
    <2> SUFFICES ASSUME NEW j \in 1..Len(a), j # i
                 PROVE  \E k \in 1..Len(b) : b[k] = a[j]
      OBVIOUS
    <2>1. CASE j < i
      <3>1. j \in 1..Len(a)-1
        BY <1>1, <2>1
      <3> QED
        BY <1>4, <2>1, <3>1
    <2>2. CASE ~(j < i)
      <3>1. j-1 \in 1..Len(a)-1 /\ ~(j-1 < i) /\ (j-1)+1 = j
        BY <1>1, <2>2
      <3> QED
        BY <1>4, <3>1
    <2> QED
      BY <2>1, <2>2
  <1> HIDE DEF node
  <1>11. \A n \in Nodes : ~NotIn(n, b) <=> ~NotIn(n, a) /\ n # node
    <2> SUFFICES ASSUME NEW n \in Nodes
                 PROVE  ~NotIn(n, b) <=> ~NotIn(n, a) /\ n # node
      OBVIOUS
    <2>1. ~NotIn(n, b) => ~NotIn(n, a) /\ n # node
      BY <1>4, <1>8, <1>9 DEF NotIn
    <2>2. ~NotIn(n, a) /\ n # node => ~NotIn(n, b)
      BY <1>10 DEF NotIn, node
    <2> QED
      BY <2>1, <2>2
  <1>12. \A n \in Nodes : q.pid[n] = IF n = node THEN NIL ELSE r.pid[n]
    BY <1>1, <1>3 DEF Region
  <1>13. \A n \in Nodes : q.pid[n] # NIL <=> ~NotIn(n, b)
    BY <1>11, <1>12 DEF Sound
  <1>14. \A m, n \in Nodes : q.pid[m] = q.pid[n] /\ q.pid[m] # NIL => m = n
    BY <1>12 DEF Sound
  <1>15. Disjoint(g, b)
    BY <1>3 DEF Disjoint, NotIn
  <1>16. Sound(q, g, b)
    BY <1>3, <1>6, <1>13, <1>14, <1>15 DEF Sound
  <1>17. \A j \in 1..Len(b) : q.pid[b[j]] = r.pid[b[j]]
    BY <1>9, <1>12
  <1>18. PidsOf(q, b) = Without(PidsOf(r, a), i)
    <2>1. /\ PidsOf(r, a) \in Seq(Pids \cup {NIL}) /\ Len(PidsOf(r, a)) = Len(a)
          /\ \A j \in 1..Len(a) : PidsOf(r, a)[j] = r.pid[a[j]]
      BY <1>1 DEF PidsOf, Region
    <2>2. PidsOf(q, b) = [j \in 1..Len(a)-1 |-> r.pid[b[j]]]
      BY <1>4, <1>17 DEF PidsOf
    <2>3. \A j \in 1..Len(a)-1 :
             r.pid[b[j]] = IF j < i THEN PidsOf(r, a)[j] ELSE PidsOf(r, a)[j+1]
      BY <1>4, <1>8, <2>1
    <2> QED
      BY <2>1, <2>2, <2>3 DEF Without
  <1> QED
    BY <1>3, <1>4, <1>5, <1>16, <1>18 DEF node, q, g, b

-----------------------------------------------------------------------------
(* The inductive invariant: two sequences of nodes tell what the pointers  *)
(* say.                                                                    *)
LInv ==
  /\ rpid \in Region
  /\ got \in [Callers -> Pids \cup {NIL} \cup 0..MAX_PIDS]
  /\ \E f, a \in Seq(Nodes) : Sound(rpid, f, a)

(* What the invariant says of the variables a caller sees. *)
LEMMA SoundFacts ==
  ASSUME NEW r \in Region, NEW f \in Seq(Nodes), NEW a \in Seq(Nodes), Sound(r, f, a)
  PROVE  /\ Len(f) \in Nat /\ Len(a) \in Nat /\ Len(f) <= MAX_PIDS /\ Len(a) <= MAX_PIDS
         /\ Len(f) + Len(a) = MAX_PIDS
         /\ r.count["free"] = Len(f) /\ r.count["active"] = Len(a)
         /\ r.head["free"] = IF Len(f) = 0 THEN NIL ELSE f[1]
         /\ r.head["active"] = IF Len(a) = 0 THEN NIL ELSE a[1]
         /\ \A i \in 1..Len(f) : f[i] \in Nodes
         /\ \A i \in 1..Len(a) : a[i] \in Nodes /\ r.pid[a[i]] \in Pids /\ a[i] # NIL
  <1>1. Len(f) \in Nat /\ Len(a) \in Nat /\ MAX_PIDS \in Nat /\ NIL \notin Nodes
    BY PidListAssumption
  <1>2. Len(f) + Len(a) = MAX_PIDS
    BY DEF Sound
  <1>3. Len(f) <= MAX_PIDS /\ Len(a) <= MAX_PIDS
    BY <1>1, <1>2
  <1>4. /\ \A i \in 1..Len(f) : f[i] \in Nodes
        /\ \A i \in 1..Len(a) : a[i] \in Nodes
    OBVIOUS
  <1>5. \A i \in 1..Len(a) : r.pid[a[i]] \in Pids /\ a[i] # NIL
    BY <1>1, <1>4 DEF Sound, NotIn, Region
  <1> QED
    BY <1>1, <1>2, <1>3, <1>4, <1>5 DEF Sound, Holds

(* The pids of a sound region are a sequence as long as the active list. *)
LEMMA PidsOfSeq ==
  ASSUME NEW r \in Region, NEW f \in Seq(Nodes), NEW a \in Seq(Nodes), Sound(r, f, a)
  PROVE  /\ PidsOf(r, a) \in Seq(Pids)
         /\ Len(PidsOf(r, a)) = Len(a)
         /\ DOMAIN PidsOf(r, a) = 1..Len(a)
         /\ \A i \in 1..Len(a) : PidsOf(r, a)[i] = r.pid[a[i]]
  BY SoundFacts DEF PidsOf

(* The model's reading of the active list is that sequence. *)
ActiveOf(r) ==
  [i \in 1..r.count["active"] |->
     r.pid[[j \in 1..r.count["active"] |-> Walk(r, "active")[j-1]][i]]]

(* Walking as many nodes as the count says gives the sequence. *)
LEMMA WalkedNodes ==
  ASSUME NEW r \in Region, NEW l \in Lists, NEW s \in Seq(Nodes), Holds(r, l, s),
         Len(s) <= MAX_PIDS
  PROVE  [j \in 1..r.count[l] |-> Walk(r, l)[j-1]] = s
  <1>1. r.count[l] = Len(s) /\ Len(s) \in Nat /\ MAX_PIDS \in Nat
    BY PidListAssumption DEF Holds
  <1>2. \A j \in 1..Len(s) : Walk(r, l)[j-1] = s[j]
    <2> SUFFICES ASSUME NEW j \in 1..Len(s)
                 PROVE  Walk(r, l)[j-1] = s[j]
      OBVIOUS
    <2>1. j-1 \in 0..MAX_PIDS /\ j-1 < Len(s) /\ (j-1)+1 = j
      BY <1>1
    <2> QED
      BY <2>1, WalkPassesNodes
  <1> QED
    BY <1>1, <1>2

(* So the model reads the pids off in list order. *)
LEMMA ActiveIsPids ==
  ASSUME NEW r \in Region, NEW f \in Seq(Nodes), NEW a \in Seq(Nodes), Sound(r, f, a)
  PROVE  ActiveOf(r) = PidsOf(r, a)
  <1>1. r.count["active"] = Len(a) /\ Len(a) <= MAX_PIDS
    BY SoundFacts
  <1>2. [j \in 1..r.count["active"] |-> Walk(r, "active")[j-1]] = a
    BY <1>1, WalkedNodes DEF Sound, Lists
  <1> QED
    BY <1>1, <1>2 DEF ActiveOf, PidsOf

-----------------------------------------------------------------------------
(* pidlist_add_pid on the sequences. *)
LEMMA AddPidStep ==
  ASSUME rpid \in Region, NEW f \in Seq(Nodes), NEW a \in Seq(Nodes), Sound(rpid, f, a),
         NEW c \in Callers, NEW p \in Pids, pidlist_add_pid(c, p)
  PROVE  \/ /\ \E i \in 1..Len(a) : rpid.pid[a[i]] = p
            /\ got' = [got EXCEPT ![c] = 0] /\ rpid' = rpid
         \/ /\ \A i \in 1..Len(a) : rpid.pid[a[i]] # p
            /\ Len(a) = MAX_PIDS
            /\ got' = [got EXCEPT ![c] = NIL] /\ rpid' = rpid
         \/ /\ \A i \in 1..Len(a) : rpid.pid[a[i]] # p
            /\ Len(a) < MAX_PIDS
            /\ got' = [got EXCEPT ![c] = 0]
            /\ rpid' \in Region
            /\ \E g, b \in Seq(Nodes) :
                  Sound(rpid', g, b) /\ PidsOf(rpid', b) = Append(PidsOf(rpid, a), p)
  <1> DEFINE node == rpid.head["free"]
             found == find_node(rpid, "active", p)
  <1>1. /\ Len(f) \in Nat /\ Len(a) \in Nat /\ Len(f) + Len(a) = MAX_PIDS
        /\ Len(a) <= MAX_PIDS
        /\ node = IF Len(f) = 0 THEN NIL ELSE f[1]
        /\ \A i \in 1..Len(f) : f[i] \in Nodes
        /\ \A i \in 1..Len(a) : a[i] # NIL
        /\ MAX_PIDS \in Nat /\ NIL \notin Nodes
    BY SoundFacts, PidListAssumption
  <1>2. \/ found = NIL /\ \A i \in 1..Len(a) : rpid.pid[a[i]] # p
        \/ \E i \in 1..Len(a) : found = a[i] /\ rpid.pid[a[i]] = p
    BY <1>1, FindNode DEF Sound, Lists
  <1> HIDE DEF found
  <1>3. CASE found # NIL
    <2>1. got' = [got EXCEPT ![c] = 0] /\ rpid' = rpid
      BY <1>3 DEF pidlist_add_pid, returns, found
    <2> QED
      BY <1>2, <1>3, <2>1
  <1>4. CASE found = NIL /\ Len(f) = 0
    <2>1. got' = [got EXCEPT ![c] = NIL] /\ rpid' = rpid
      BY <1>1, <1>4 DEF pidlist_add_pid, returns, found
    <2>2. Len(a) = MAX_PIDS
      BY <1>1, <1>4
    <2>3. \A i \in 1..Len(a) : rpid.pid[a[i]] # p
      BY <1>1, <1>2, <1>4
    <2> QED
      BY <2>1, <2>2, <2>3
  <1>5. CASE found = NIL /\ Len(f) > 0
    <2>1. node = f[1] /\ f[1] \in Nodes /\ Len(a) < MAX_PIDS
      BY <1>1, <1>5
    <2>2. \A i \in 1..Len(a) : rpid.pid[a[i]] # p
      BY <1>1, <1>2, <1>5
    <2>3. node # NIL
      BY <1>1, <2>1
    <2>4. got' = [got EXCEPT ![c] = 0] /\ rpid' = Moved(rpid, "free", "active", node, p)
      BY <1>5, <2>3 DEF pidlist_add_pid, returns, found, Moved, WithPid
    <2>5. rpid' = Moved(rpid, "free", "active", f[1], p)
      BY <2>1, <2>4
    <2> DEFINE q == Moved(rpid, "free", "active", f[1], p)
               g == Without(f, 1)
               b == Append(a, f[1])
    <2>6. /\ q \in Region /\ g \in Seq(Nodes) /\ b \in Seq(Nodes) /\ Sound(q, g, b)
          /\ PidsOf(q, b) = Append(PidsOf(rpid, a), p)
      BY <1>5, <2>2, AddKeepsSound
    <2> HIDE DEF q, g, b
    <2>7. rpid' = q
      BY <2>5 DEF q
    <2> QED
      BY <2>1, <2>2, <2>4, <2>6, <2>7
  <1> QED
    BY <1>1, <1>3, <1>4, <1>5

(* pidlist_remove_pid on the sequences. *)
LEMMA RemovePidStep ==
  ASSUME rpid \in Region, NEW f \in Seq(Nodes), NEW a \in Seq(Nodes), Sound(rpid, f, a),
         NEW c \in Callers, NEW p \in Pids, pidlist_remove_pid(c, p)
  PROVE  \/ /\ \A i \in 1..Len(a) : rpid.pid[a[i]] # p
            /\ UNCHANGED <<rpid, got>>
         \/ /\ UNCHANGED got
            /\ rpid' \in Region
            /\ \E i \in 1..Len(a) :
                  /\ rpid.pid[a[i]] = p
                  /\ \E g, b \in Seq(Nodes) :
                        Sound(rpid', g, b) /\ PidsOf(rpid', b) = Without(PidsOf(rpid, a), i)
  <1> DEFINE found == find_node(rpid, "active", p)
  <1>1. /\ Len(a) \in Nat /\ Len(a) <= MAX_PIDS /\ \A i \in 1..Len(a) : a[i] # NIL
    BY SoundFacts
  <1>2. \/ found = NIL /\ \A i \in 1..Len(a) : rpid.pid[a[i]] # p
        \/ \E i \in 1..Len(a) : found = a[i] /\ rpid.pid[a[i]] = p
    BY <1>1, FindNode DEF Sound, Lists
  <1>3. rpid' = (IF found = NIL THEN rpid ELSE Moved(rpid, "active", "free", found, NIL))
    BY DEF pidlist_remove_pid, Moved, WithPid
  <1>4. UNCHANGED got
    BY DEF pidlist_remove_pid
  <1> HIDE DEF found
  <1>5. CASE found = NIL
    BY <1>1, <1>2, <1>3, <1>4, <1>5
  <1>6. CASE found # NIL
    <2>1. PICK i \in 1..Len(a) : found = a[i] /\ rpid.pid[a[i]] = p
      BY <1>2, <1>6
    <2> DEFINE q == Moved(rpid, "active", "free", a[i], NIL)
               g == Append(f, a[i])
               b == Without(a, i)
    <2>2. /\ q \in Region /\ g \in Seq(Nodes) /\ b \in Seq(Nodes) /\ Sound(q, g, b)
          /\ PidsOf(q, b) = Without(PidsOf(rpid, a), i)
      BY RemoveKeepsSound
    <2>3. rpid' = q
      BY <1>3, <1>6, <2>1
    <2> HIDE DEF q, g, b
    <2> QED
      BY <1>4, <2>1, <2>2, <2>3
  <1> QED
    BY <1>5, <1>6

(* pidlist_get_random on the sequences. *)
LEMMA GetRandomStep ==
  ASSUME rpid \in Region, NEW f \in Seq(Nodes), NEW a \in Seq(Nodes), Sound(rpid, f, a),
         NEW c \in Callers, pidlist_get_random(c)
  PROVE  /\ rpid' = rpid
         /\ \/ Len(a) = 0 /\ got' = [got EXCEPT ![c] = NIL]
            \/ \E i \in 1..Len(a) : got' = [got EXCEPT ![c] = rpid.pid[a[i]]]
  <1> DEFINE at == Walk(rpid, "active")
  <1>1. /\ Len(a) \in Nat /\ Len(a) <= MAX_PIDS /\ rpid.count["active"] = Len(a)
        /\ \A i \in 1..Len(a) : a[i] # NIL
        /\ MAX_PIDS \in Nat
    BY SoundFacts, PidListAssumption
  <1>2. \A i \in 0..MAX_PIDS : at[i] = IF i < Len(a) THEN a[i+1] ELSE NIL
    BY WalkPassesNodes DEF Sound, Lists
  <1>3. PICK index \in random_max(rpid.count["active"]) :
          got' = [got EXCEPT ![c] = IF at[index] = NIL THEN NIL ELSE rpid.pid[at[index]]]
    BY DEF pidlist_get_random, returns
  <1>4. rpid' = rpid
    BY DEF pidlist_get_random
  <1> HIDE DEF at
  <1>5. CASE Len(a) = 0
    <2>1. index = 0 /\ at[0] = NIL
      BY <1>1, <1>2, <1>5 DEF random_max
    <2> QED
      BY <1>3, <1>4, <1>5, <2>1
  <1>6. CASE Len(a) > 0
    <2>1. index \in 0..MAX_PIDS /\ index < Len(a) /\ index + 1 \in 1..Len(a)
      BY <1>1, <1>6 DEF random_max
    <2>2. at[index] = a[index+1] /\ at[index] # NIL
      BY <1>1, <1>2, <2>1
    <2> QED
      BY <1>3, <1>4, <2>1, <2>2
  <1> QED
    BY <1>1, <1>5, <1>6

-----------------------------------------------------------------------------
(* A region that has not changed is still sound. *)
LEMMA KeepsSame ==
  ASSUME LInv, rpid' = rpid,
         got' \in [Callers -> Pids \cup {NIL} \cup 0..MAX_PIDS]
  PROVE  LInv'
  <1>1. PICK f, a \in Seq(Nodes) : Sound(rpid, f, a)
    BY DEF LInv
  <1>2. Sound(rpid', f, a) /\ rpid' \in Region
    BY <1>1 DEF LInv
  <1> QED
    BY <1>2 DEF LInv

(* pidlist_init establishes the invariant. *)
LEMMA LInvInit == LInit => LInv
  <1> SUFFICES ASSUME LInit
               PROVE  LInv
    OBVIOUS
  <1>1. 0 \in 0..MAX_PIDS /\ <<>> \in Seq(Nodes)
    BY PidListAssumption
  <1>2. got \in [Callers -> Pids \cup {NIL} \cup 0..MAX_PIDS]
    BY <1>1 DEF LInit
  <1> QED
    BY <1>1, <1>2, InitSound DEF LInit, LInv

(* Every operation keeps it. *)
LEMMA LInvNext == LInv /\ [LNext]_lvars => LInv'
  <1> SUFFICES ASSUME LInv, [LNext]_lvars
               PROVE  LInv'
    OBVIOUS
  <1> DEFINE Answers == Pids \cup {NIL} \cup 0..MAX_PIDS
  <1>1. PICK f, a \in Seq(Nodes) : Sound(rpid, f, a)
    BY DEF LInv
  <1>2. rpid \in Region /\ got \in [Callers -> Answers] /\ 0 \in Answers /\ NIL \in Answers
    BY PidListAssumption DEF LInv
  <1>3. /\ Len(a) \in Nat /\ Len(a) \in Answers /\ rpid.count["active"] = Len(a)
        /\ rpid.head["active"] = IF Len(a) = 0 THEN NIL ELSE a[1]
        /\ \A i \in 1..Len(a) : rpid.pid[a[i]] \in Answers
    BY <1>1, <1>2, SoundFacts
  <1> HIDE DEF Answers
  <1>4. ASSUME NEW c \in Callers, NEW v \in Answers, got' = [got EXCEPT ![c] = v]
        PROVE  got' \in [Callers -> Answers]
    BY <1>2, <1>4
  <1>5. ASSUME NEW c \in Callers, NEW p \in Pids, pidlist_add_pid(c, p)
        PROVE  LInv'
    <2>1. \/ got' = [got EXCEPT ![c] = 0] /\ rpid' = rpid
          \/ got' = [got EXCEPT ![c] = NIL] /\ rpid' = rpid
          \/ /\ got' = [got EXCEPT ![c] = 0] /\ rpid' \in Region
             /\ \E g, b \in Seq(Nodes) : Sound(rpid', g, b)
      BY <1>1, <1>2, <1>5, AddPidStep
    <2>2. got' \in [Callers -> Answers]
      BY <1>2, <1>4, <2>1
    <2> QED
      BY <2>1, <2>2, KeepsSame DEF LInv, Answers
  <1>6. ASSUME NEW c \in Callers, NEW p \in Pids, pidlist_remove_pid(c, p)
        PROVE  LInv'
    <2>1. /\ got' = got
          /\ \/ rpid' = rpid
             \/ rpid' \in Region /\ \E g, b \in Seq(Nodes) : Sound(rpid', g, b)
      BY <1>1, <1>2, <1>6, RemovePidStep
    <2> QED
      BY <1>2, <2>1, KeepsSame DEF LInv, Answers
  <1>7. ASSUME NEW c \in Callers, pidlist_get_random(c)
        PROVE  LInv'
    <2>1. rpid' = rpid /\ \E v \in Answers : got' = [got EXCEPT ![c] = v]
      BY <1>1, <1>2, <1>3, <1>7, GetRandomStep
    <2> QED
      BY <1>4, <2>1, KeepsSame DEF Answers
  <1>8. ASSUME NEW c \in Callers, pidlist_get_count(c)
        PROVE  LInv'
    <2>1. rpid' = rpid /\ got' = [got EXCEPT ![c] = Len(a)]
      BY <1>3, <1>8 DEF pidlist_get_count, returns
    <2> QED
      BY <1>3, <1>4, <2>1, KeepsSame DEF Answers
  <1>9. ASSUME NEW c \in Callers, pidlist_get_first(c)
        PROVE  LInv'
    <2>1. 1 \in 1..Len(a) /\ rpid.head["active"] = a[1]
      BY <1>3, <1>9 DEF pidlist_get_first
    <2>2. rpid' = rpid /\ got' = [got EXCEPT ![c] = rpid.pid[a[1]]]
      BY <1>9, <2>1 DEF pidlist_get_first, returns
    <2> QED
      BY <1>3, <1>4, <2>1, <2>2, KeepsSame DEF Answers
  <1>10. CASE UNCHANGED lvars
    <2>1. rpid' = rpid /\ got' = got
      BY <1>10 DEF lvars
    <2> QED
      BY <1>2, <2>1, KeepsSame DEF Answers
  <1> QED
    BY <1>5, <1>6, <1>7, <1>8, <1>9, <1>10 DEF LNext

(* In every reachable state the pointers, heads, tails and counts of the   *)
(* region are those of two sequences of nodes (pidlist.c).                 *)
THEOREM PidListInvariant == LSpec => []LInv
  BY LInvInit, LInvNext, PTL DEF LSpec

(* Every pointer is a node or NIL, every count at most MAX_PIDS, and every *)
(* answer a pid, a count or NIL.                                           *)
THEOREM PidListTypes == LSpec => []LTypeOK
  <1>1. LInv => LTypeOK
    <2> SUFFICES ASSUME LInv
                 PROVE  LTypeOK
      OBVIOUS
    <2>1. PICK f, a \in Seq(Nodes) : Sound(rpid, f, a)
      BY DEF LInv
    <2>2. rpid.count["free"] \in 0..MAX_PIDS /\ rpid.count["active"] \in 0..MAX_PIDS
      BY <2>1, SoundFacts, PidListAssumption DEF LInv
    <2> QED
      BY <2>2 DEF LInv, LTypeOK, Region, Lists
  <1> QED
    BY <1>1, PidListInvariant, PTL

(* Both lists stay sound doubly linked lists, however long the region and  *)
(* whatever was added and removed (add_to_tail, remove_from_list).         *)
THEOREM ListsStayWellFormed == LSpec => []ListsWellFormed
  <1>1. LInv => ListsWellFormed
    <2> SUFFICES ASSUME LInv, NEW l \in Lists
                 PROVE  LET s == NodesOf(l) n == rpid.count[l] IN
                        /\ \A i \in 1..n : s[i] \in Nodes
                        /\ n = 0 => rpid.head[l] = NIL /\ rpid.tail[l] = NIL
                        /\ n > 0 => /\ rpid.tail[l] = s[n] /\ rpid.next[s[n]] = NIL
                                    /\ rpid.prev[s[1]] = NIL
                        /\ \A i \in 2..n : rpid.prev[s[i]] = s[i-1]
      BY DEF ListsWellFormed
    <2>1. PICK f, a \in Seq(Nodes) : Sound(rpid, f, a)
      BY DEF LInv
    <2>2. PICK s \in Seq(Nodes) : Holds(rpid, l, s) /\ Len(s) <= MAX_PIDS
      BY <2>1, SoundFacts DEF LInv, Sound, Lists
    <2>3. NodesOf(l) = s /\ rpid.count[l] = Len(s)
      BY <2>2, WalkedNodes DEF LInv, NodesOf, Holds
    <2>4. Len(s) \in Nat /\ \A i \in 1..Len(s) : s[i] \in Nodes
      OBVIOUS
    <2>5. ASSUME NEW i \in 2..Len(s)
          PROVE  rpid.prev[s[i]] = s[i-1]
      <3>1. i-1 \in 1..Len(s)-1 /\ (i-1)+1 = i
        BY <2>4
      <3> QED
        BY <2>2, <3>1 DEF Holds
    <2> QED
      BY <2>2, <2>3, <2>4, <2>5 DEF Holds
  <1> QED
    BY <1>1, PidListInvariant, PTL

(* No node of the region is lost or listed twice, and no pid is listed     *)
(* twice (pidlist_add_pid, pidlist_remove_pid).                            *)
THEOREM NodesStayAccountedFor == LSpec => []NodesAccountedFor
  <1>1. LInv => NodesAccountedFor
    <2> SUFFICES ASSUME LInv
                 PROVE  NodesAccountedFor
      OBVIOUS
    <2>1. PICK f, a \in Seq(Nodes) : Sound(rpid, f, a)
      BY DEF LInv
    <2>2. /\ rpid.count["free"] + rpid.count["active"] = MAX_PIDS
          /\ rpid.count["active"] = Len(a) /\ Len(a) <= MAX_PIDS
      BY <2>1, SoundFacts DEF LInv
    <2>3. NodesOf("active") = a
      BY <2>1, <2>2, WalkedNodes DEF LInv, NodesOf, Sound, Lists
    <2>4. DOMAIN a = 1..Len(a)
      OBVIOUS
    <2>5. \A n \in Nodes : (\E i \in DOMAIN NodesOf("active") : NodesOf("active")[i] = n)
                               <=> rpid.pid[n] # NIL
      BY <2>1, <2>3, <2>4 DEF Sound, NotIn
    <2>6. \A m, n \in Nodes : rpid.pid[m] = rpid.pid[n] /\ rpid.pid[m] # NIL => m = n
      BY <2>1 DEF Sound
    <2> QED
      BY <2>2, <2>5, <2>6 DEF NodesAccountedFor
  <1> QED
    BY <1>1, PidListInvariant, PTL

(* The linked lists implement the ordered set of pids that PidSet.tla      *)
(* specifies: every operation of pidlist.c is one of its operations.       *)
THEOREM PidListImplementsPidSet == LSpec => ImplementsPidSet
  <1>1. LInit => Set!PInit
    <2> SUFFICES ASSUME LInit
                 PROVE  Set!PInit
      OBVIOUS
    <2>1. Active = ActiveOf(rpid)
      BY DEF Active, NodesOf, ActiveOf
    <2>2. Active = PidsOf(rpid, <<>>)
      BY <2>1, InitSound, ActiveIsPids, <<>> \in Seq(Nodes) DEF LInit
    <2>3. Active = <<>>
      BY <2>2 DEF PidsOf
    <2> QED
      BY <2>3 DEF LInit, Set!PInit
  <1>2. LInv /\ LInv' /\ [LNext]_lvars => [Set!PNext]_(Set!pvars)
    <2> SUFFICES ASSUME LInv, LInv', [LNext]_lvars
                 PROVE  [Set!PNext]_(Set!pvars)
      OBVIOUS
    <2>1. PICK f, a \in Seq(Nodes) : Sound(rpid, f, a)
      BY DEF LInv
    <2>2. Active = ActiveOf(rpid) /\ Active' = ActiveOf(rpid')
      BY DEF Active, NodesOf, ActiveOf
    <2> DEFINE x == PidsOf(rpid, a)
    <2>3. /\ Active = x /\ x \in Seq(Pids) /\ Len(x) = Len(a) /\ DOMAIN x = 1..Len(a)
          /\ \A i \in 1..Len(a) : x[i] = rpid.pid[a[i]]
      BY <2>1, <2>2, ActiveIsPids, PidsOfSeq DEF LInv
    <2>4. rpid' = rpid => Active' = Active
      BY <2>2
    <2>5. ASSUME rpid' \in Region, NEW g \in Seq(Nodes), NEW b \in Seq(Nodes), Sound(rpid', g, b)
          PROVE  Active' = PidsOf(rpid', b)
      BY <2>2, <2>5, ActiveIsPids
    <2>6. /\ Len(a) \in Nat /\ rpid.count["active"] = Len(a)
          /\ rpid.head["active"] = IF Len(a) = 0 THEN NIL ELSE a[1]
          /\ \A i \in 1..Len(a) : a[i] # NIL
      BY <2>1, SoundFacts DEF LInv
    <2> HIDE DEF x
    <2>7. ASSUME NEW c \in Callers, NEW p \in Pids, pidlist_add_pid(c, p)
          PROVE  Set!Add(c, p)
      <3>1. \/ /\ \E i \in 1..Len(a) : rpid.pid[a[i]] = p
               /\ got' = [got EXCEPT ![c] = 0] /\ rpid' = rpid
            \/ /\ \A i \in 1..Len(a) : rpid.pid[a[i]] # p
               /\ Len(a) = MAX_PIDS
               /\ got' = [got EXCEPT ![c] = NIL] /\ rpid' = rpid
            \/ /\ \A i \in 1..Len(a) : rpid.pid[a[i]] # p
               /\ Len(a) < MAX_PIDS
               /\ got' = [got EXCEPT ![c] = 0]
               /\ rpid' \in Region
               /\ \E g, b \in Seq(Nodes) : Sound(rpid', g, b) /\ PidsOf(rpid', b) = Append(x, p)
        BY <2>1, <2>7, AddPidStep DEF LInv, x
      <3>2. p \in Set!listed <=> \E i \in 1..Len(a) : rpid.pid[a[i]] = p
        BY <2>3 DEF Set!listed
      <3>3. \/ p \in Set!listed /\ got' = [got EXCEPT ![c] = 0] /\ Active' = Active
            \/ p \notin Set!listed /\ Len(Active) = MAX_PIDS /\ got' = [got EXCEPT ![c] = NIL]
               /\ Active' = Active
            \/ p \notin Set!listed /\ Len(Active) < MAX_PIDS /\ got' = [got EXCEPT ![c] = 0]
               /\ Active' = Append(Active, p)
        BY <2>3, <2>4, <2>5, <3>1, <3>2
      <3> QED
        BY <3>3 DEF Set!Add, Set!answers
    <2>8. ASSUME NEW c \in Callers, NEW p \in Pids, pidlist_remove_pid(c, p)
          PROVE  Set!Remove(c, p)
      <3>1. \/ /\ \A i \in 1..Len(a) : rpid.pid[a[i]] # p
               /\ UNCHANGED <<rpid, got>>
            \/ /\ UNCHANGED got
               /\ rpid' \in Region
               /\ \E i \in 1..Len(a) :
                     /\ rpid.pid[a[i]] = p
                     /\ \E g, b \in Seq(Nodes) :
                           Sound(rpid', g, b) /\ PidsOf(rpid', b) = Without(x, i)
        BY <2>1, <2>8, RemovePidStep DEF LInv, x
      <3>2. p \in Set!listed <=> \E i \in 1..Len(a) : rpid.pid[a[i]] = p
        BY <2>3 DEF Set!listed
      <3>3. \A i \in 1..Len(a) :
              Without(x, i) = [j \in 1..Len(Active)-1 |-> Active[IF j < i THEN j ELSE j + 1]]
        BY <2>3 DEF Without
      <3>4. CASE UNCHANGED <<rpid, got>> /\ \A i \in 1..Len(a) : rpid.pid[a[i]] # p
        BY <2>4, <3>2, <3>4 DEF Set!Remove
      <3>5. CASE /\ UNCHANGED got /\ rpid' \in Region
                 /\ \E i \in 1..Len(a) :
                       /\ rpid.pid[a[i]] = p
                       /\ \E g, b \in Seq(Nodes) :
                             Sound(rpid', g, b) /\ PidsOf(rpid', b) = Without(x, i)
        <4>1. PICK i \in 1..Len(a) :
                 /\ rpid.pid[a[i]] = p
                 /\ \E g, b \in Seq(Nodes) :
                       Sound(rpid', g, b) /\ PidsOf(rpid', b) = Without(x, i)
          BY <3>5
        <4>2. Active' = Without(x, i)
          BY <2>5, <3>5, <4>1
        <4>3. Active' = [j \in 1..Len(Active)-1 |-> Active[IF j < i THEN j ELSE j + 1]]
          BY <3>3, <4>2
        <4>4. i \in DOMAIN Active /\ Active[i] = p
          BY <2>3, <4>1
        <4> QED
          BY <3>5, <4>3, <4>4 DEF Set!Remove
      <3> QED
        BY <3>1, <3>4, <3>5
    <2>9. ASSUME NEW c \in Callers, pidlist_get_random(c)
          PROVE  Set!Random(c)
      <3>1. /\ rpid' = rpid
            /\ \/ Len(a) = 0 /\ got' = [got EXCEPT ![c] = NIL]
               \/ \E i \in 1..Len(a) : got' = [got EXCEPT ![c] = rpid.pid[a[i]]]
        BY <2>1, <2>9, GetRandomStep DEF LInv
      <3>2. Active = <<>> <=> Len(a) = 0
        BY <2>3
      <3>3. \A i \in 1..Len(a) : rpid.pid[a[i]] \in Set!listed
        BY <2>3 DEF Set!listed
      <3>4. PICK v \in (IF Active = <<>> THEN {NIL} ELSE Set!listed) : got' = [got EXCEPT ![c] = v]
        <4>1. CASE Len(a) = 0
          BY <3>1, <3>2, <4>1
        <4>2. CASE Len(a) # 0
          <5>1. PICK i \in 1..Len(a) : got' = [got EXCEPT ![c] = rpid.pid[a[i]]]
            BY <3>1, <4>2
          <5> QED
            BY <3>2, <3>3, <4>2, <5>1
        <4> QED
          BY <4>1, <4>2
      <3>5. got'[c] = v
        BY <3>4 DEF LInv
      <3> QED
        BY <2>4, <3>1, <3>4, <3>5 DEF Set!Random, Set!answers
    <2>10. ASSUME NEW c \in Callers, pidlist_get_count(c)
           PROVE  Set!Count(c)
      BY <2>3, <2>4, <2>6, <2>10 DEF pidlist_get_count, returns, Set!Count, Set!answers
    <2>11. ASSUME NEW c \in Callers, pidlist_get_first(c)
           PROVE  Set!First(c)
      <3>1. 1 \in 1..Len(a) /\ rpid.head["active"] = a[1]
        BY <2>6, <2>11 DEF pidlist_get_first
      <3>2. rpid' = rpid /\ got' = [got EXCEPT ![c] = rpid.pid[a[1]]]
        BY <2>11, <3>1 DEF pidlist_get_first, returns
      <3>3. Active # <<>> /\ Active[1] = rpid.pid[a[1]]
        BY <2>3, <3>1
      <3> QED
        BY <2>4, <3>2, <3>3 DEF Set!First, Set!answers
    <2>12. CASE UNCHANGED lvars
      BY <2>4, <2>12 DEF lvars, Set!pvars
    <2> QED
      BY <2>7, <2>8, <2>9, <2>10, <2>11, <2>12 DEF LNext, Set!PNext
  <1> QED
    BY <1>1, <1>2, PidListInvariant, PTL DEF ImplementsPidSet, LSpec, Set!PSpec
=============================================================================
