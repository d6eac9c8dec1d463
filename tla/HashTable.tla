------------------------------ MODULE HashTable ------------------------------
(***************************************************************************)
(* The chained hash table of mailbox_manager.c: an array of hlists, the    *)
(* newest entry of a bucket first.  A table is a value here; the module    *)
(* that owns the variable applies these operators under the table's lock.  *)
(***************************************************************************)
EXTENDS Naturals, Sequences

CONSTANTS
  Pids,       \* keys
  Mailboxes,  \* Mailbox structs
  Buckets,    \* indices of mailbox_hash_table
  hash_32,    \* the kernel's hash of each pid, taken modulo the table's size
  NULL        \* no Mailbox

ASSUME HashTableAssumption ==
  /\ hash_32 \in [Pids -> Buckets]
  /\ NULL \notin Mailboxes /\ NULL \notin Pids

mailbox_manager_init == [b \in Buckets |-> <<>>]

mailbox_hash(key) == hash_32[key]

(* Where the bucket's first mailbox of that owner is. *)
FirstOf(bucket, owner, key) ==
  CHOOSE i \in DOMAIN bucket :
     /\ owner[bucket[i]] = key
     /\ \A j \in 1..i-1 : owner[bucket[j]] # key
Holds(bucket, owner, key) == \E i \in DOMAIN bucket : owner[bucket[i]] = key

hashtable_get_any_owner(table, owner, key) ==
  LET bucket == table[mailbox_hash(key)]
  IN  IF bucket # <<>> THEN bucket[1] ELSE NULL
__hashtable_get(table, owner, key) ==
  LET bucket == table[mailbox_hash(key)]
  IN  IF Holds(bucket, owner, key) THEN bucket[FirstOf(bucket, owner, key)] ELSE NULL

(* hlist_del of the node at place i. *)
hlist_del(bucket, i) ==
  [j \in 1..Len(bucket)-1 |-> IF j < i THEN bucket[j] ELSE bucket[j+1]]

hashtable_remove_first(table, owner, key) ==
  [table EXCEPT ![mailbox_hash(key)] = IF @ = <<>> THEN @ ELSE Tail(@)]
__hashtable_remove(table, owner, key) ==
  LET b == mailbox_hash(key)
  IN  IF Holds(table[b], owner, key)
      THEN [table EXCEPT ![b] = hlist_del(table[b], FirstOf(table[b], owner, key))]
      ELSE table

hashtable_put_first_bucket(table, owner, key, mailbox) ==
  LET b == CHOOSE b \in Buckets : TRUE
  IN  [__hashtable_remove(table, owner, key) EXCEPT ![b] = <<mailbox>> \o @]
__hashtable_put(table, owner, key, mailbox) ==
  [__hashtable_remove(table, owner, key) EXCEPT
     ![mailbox_hash(key)] = <<mailbox>> \o @]
=============================================================================
