------------------------------- MODULE PidList -------------------------------
(***************************************************************************)
(* pidlist.c: the processes of a test, kept in shared memory as a doubly   *)
(* linked list of nodes taken from a free list; both lists live in one     *)
(* array of MAX_PIDS nodes and are guarded by one semaphore.               *)
(*                                                                         *)
(* The region is one record; each C function that changes it is an         *)
(* operator from regions to regions, so that a sequence of assignments is  *)
(* a composition.  What a caller does between LOCK and UNLOCK is one step; *)
(* pidlist_get_count takes no lock.  A node is its index.                  *)
(***************************************************************************)
EXTENDS Naturals, Sequences

CONSTANTS
  Pids,      \* the processes' ids
  MAX_PIDS,  \* nodes in the region (100 in the code)
  Callers,   \* tasks that use the list
  NIL        \* the null pointer, and the -1 that stands for no pid

Nodes == 1..MAX_PIDS

ASSUME PidListAssumption ==
  /\ MAX_PIDS \in Nat \ {0}
  /\ NIL \notin Nodes
  /\ NIL \notin Pids

VARIABLES
  rpid,    \* struct pidlist_region
  got      \* what each caller's last operation returned

lvars == <<rpid, got>>

Lists == {"free", "active"}

-----------------------------------------------------------------------------
(* The static functions. *)

initialize_pid_list(r, list) ==
  [r EXCEPT !.head[list] = NIL, !.tail[list] = NIL, !.count[list] = 0]

initialize_pid_node(r, node) ==
  [r EXCEPT !.next[node] = NIL, !.prev[node] = NIL, !.pid[node] = NIL]

add_to_tail_of_empty(r, list, node) ==
  [r EXCEPT !.head[list] = node, !.tail[list] = node]
add_to_tail_counts_first_twice(r, list, node) ==
  IF r.head[list] = NIL
  THEN [add_to_tail_of_empty(r, list, node) EXCEPT !.count[list] = @ + 2]
  ELSE [r EXCEPT !.prev[node] = r.tail[list], !.next[r.tail[list]] = node,
                 !.tail[list] = node, !.count[list] = @ + 1]
add_to_tail(r, list, node) ==
  LET linked == IF r.head[list] = NIL THEN add_to_tail_of_empty(r, list, node)
                ELSE [r EXCEPT !.prev[node] = r.tail[list],
                               !.next[r.tail[list]] = node,
                               !.tail[list] = node]
  IN  [linked EXCEPT !.count[list] = @ + 1]

(* The four cases of remove_from_list, then the node's own pointers. *)
unlink(r, list, node) ==
  CASE node = r.head[list] /\ node = r.tail[list] ->
         [r EXCEPT !.head[list] = NIL, !.tail[list] = NIL]
    [] node = r.head[list] /\ node # r.tail[list] ->
         [r EXCEPT !.head[list] = r.next[node], !.prev[r.next[node]] = NIL]
    [] node # r.head[list] /\ node = r.tail[list] ->
         [r EXCEPT !.tail[list] = r.prev[node], !.next[r.prev[node]] = NIL]
    [] OTHER ->
         [r EXCEPT !.next[r.prev[node]] = r.next[node],
                   !.prev[r.next[node]] = r.prev[node]]
remove_from_list_keeps_links(r, list, node) ==
  [unlink(r, list, node) EXCEPT !.count[list] = @ - 1]
remove_from_list(r, list, node) ==
  [unlink(r, list, node) EXCEPT !.next[node] = NIL, !.prev[node] = NIL,
                                !.count[list] = @ - 1]

(* The node i steps after the head, NIL past the end. *)
Walk(r, list) ==
  LET at[i \in 0..MAX_PIDS] ==
        IF i = 0 THEN r.head[list]
        ELSE IF at[i-1] = NIL THEN NIL ELSE r.next[at[i-1]]
  IN  at

(* The first node with that pid, or NIL. *)
find_node(r, list, pid) ==
  LET at == Walk(r, list)
      stop == CHOOSE i \in 0..MAX_PIDS :
                 /\ at[i] = NIL \/ r.pid[at[i]] = pid
                 /\ \A j \in 0..i-1 : at[j] # NIL /\ r.pid[at[j]] # pid
  IN  at[stop]

-----------------------------------------------------------------------------
(* pidlist_init: every node goes to the free list, in order. *)
initialized[i \in 0..MAX_PIDS] ==
  IF i = 0
  THEN initialize_pid_list(initialize_pid_list(
         [next |-> [n \in Nodes |-> NIL], prev |-> [n \in Nodes |-> NIL],
          pid |-> [n \in Nodes |-> NIL],
          head |-> [l \in Lists |-> NIL], tail |-> [l \in Lists |-> NIL],
          count |-> [l \in Lists |-> 0]], "free"), "active")
  ELSE add_to_tail(initialize_pid_node(initialized[i-1], i), "free", i)
pidlist_init == initialized[MAX_PIDS]

LInit ==
  /\ rpid = pidlist_init
  /\ got = [c \in Callers |-> 0]

returns(c, v) == got' = [got EXCEPT ![c] = v]

(* The head of the free list becomes the tail of the active one; 0 when    *)
(* the pid is there already, NIL when no node is free.                     *)
pidlist_add_pid(c, pid) ==
  /\ LET node == rpid.head["free"]     \* remove_from_head
     IN  IF find_node(rpid, "active", pid) # NIL THEN returns(c, 0) /\ UNCHANGED rpid
         ELSE IF node = NIL THEN returns(c, NIL) /\ UNCHANGED rpid
         ELSE /\ rpid' = add_to_tail([remove_from_list(rpid, "free", node) EXCEPT
                                        !.pid[node] = pid], "active", node)
              /\ returns(c, 0)

pidlist_remove_pid_keeps_pid(c, pid) ==
  /\ LET node == find_node(rpid, "active", pid)
     IN  rpid' = IF node = NIL THEN rpid
                 ELSE add_to_tail(remove_from_list(rpid, "active", node), "free", node)
  /\ UNCHANGED got
pidlist_remove_pid(c, pid) ==
  /\ LET node == find_node(rpid, "active", pid)
     IN  rpid' = IF node = NIL THEN rpid
                 ELSE add_to_tail([remove_from_list(rpid, "active", node) EXCEPT
                                     !.pid[node] = NIL], "free", node)
  /\ UNCHANGED got

(* Any number below the count; 0 when the list is empty. *)
random_max_inclusive(max) == 0..max
random_max(max) == IF max = 0 THEN {0} ELSE 0..max-1
pidlist_get_random(c) ==
  /\ \E index \in random_max(rpid.count["active"]) :
        LET node == Walk(rpid, "active")[index]
        IN  returns(c, IF node = NIL THEN NIL ELSE rpid.pid[node])
  /\ UNCHANGED rpid

pidlist_get_count(c) ==
  /\ returns(c, rpid.count["active"])
  /\ UNCHANGED rpid

(* It dereferences the head: no caller may use it on an empty list. *)
pidlist_get_first(c) ==
  /\ rpid.head["active"] # NIL
  /\ returns(c, rpid.pid[rpid.head["active"]])
  /\ UNCHANGED rpid

LNext ==
  \E c \in Callers :
     \/ \E pid \in Pids : pidlist_add_pid(c, pid) \/ pidlist_remove_pid(c, pid)
     \/ pidlist_get_random(c)
     \/ pidlist_get_count(c)
     \/ pidlist_get_first(c)

LSpec == LInit /\ [][LNext]_lvars

-----------------------------------------------------------------------------
(* Properties *)

(* The nodes of a list in order: as many as its count, from its head. *)
NodesOf(list) == [i \in 1..rpid.count[list] |-> Walk(rpid, list)[i-1]]
Active == [i \in 1..rpid.count["active"] |-> rpid.pid[NodesOf("active")[i]]]

(* The types. *)
LTypeOK ==
  /\ rpid.next \in [Nodes -> Nodes \cup {NIL}]
  /\ rpid.prev \in [Nodes -> Nodes \cup {NIL}]
  /\ rpid.pid \in [Nodes -> Pids \cup {NIL}]
  /\ rpid.head \in [Lists -> Nodes \cup {NIL}]
  /\ rpid.tail \in [Lists -> Nodes \cup {NIL}]
  /\ rpid.count \in [Lists -> 0..MAX_PIDS]
  /\ got \in [Callers -> Pids \cup {NIL} \cup 0..MAX_PIDS]

(* Both lists are sound after every operation: walking a list from its     *)
(* head for as long as its count says passes proper nodes and ends at its  *)
(* tail; the back pointers reverse the forward ones.                       *)
ListsWellFormed ==
  \A l \in Lists :
     LET s == NodesOf(l) n == rpid.count[l] IN
     /\ \A i \in 1..n : s[i] \in Nodes
     /\ n = 0 => rpid.head[l] = NIL /\ rpid.tail[l] = NIL
     /\ n > 0 => rpid.tail[l] = s[n] /\ rpid.next[s[n]] = NIL /\ rpid.prev[s[1]] = NIL
     /\ \A i \in 2..n : rpid.prev[s[i]] = s[i-1]

(* No node is lost and none is in both lists; the nodes in use are those   *)
(* with a pid, and no pid is listed twice.                                 *)
NodesAccountedFor ==
  /\ rpid.count["free"] + rpid.count["active"] = MAX_PIDS
  /\ \A n \in Nodes : (\E i \in DOMAIN NodesOf("active") : NodesOf("active")[i] = n)
                         <=> rpid.pid[n] # NIL
  /\ \A m, n \in Nodes : rpid.pid[m] = rpid.pid[n] /\ rpid.pid[m] # NIL => m = n

(* The list is an ordered set of at most MAX_PIDS pids (PidSet.tla). *)
Set == INSTANCE PidSet WITH pids <- Active, answer <- got
ImplementsPidSet == Set!PSpec
=============================================================================
