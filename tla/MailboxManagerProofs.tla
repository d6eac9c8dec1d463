------------------------ MODULE MailboxManagerProofs -------------------------
(***************************************************************************)
(* The table of mailbox_manager.c is well formed and implements the        *)
(* dictionary of MailboxTable.tla, for every set of pids, tasks, mailboxes *)
(* and kthreads and every hash function.                                   *)
(*                                                                         *)
(* First the table's operations on tables that are well formed, then the   *)
(* manager's actions.                                                      *)
(***************************************************************************)
EXTENDS MailboxManager, Integers, FiniteSetTheorems, TLAPS

(* OneMailboxPerPid, of any table. *)
WellFormed(table, own) ==
  /\ table \in [Buckets -> Seq(Mailboxes)]
  /\ own \in [Mailboxes -> Pids \cup {NULL}]
  /\ \A b \in Buckets : \A i \in DOMAIN table[b] :
        /\ own[table[b][i]] \in Pids
        /\ hash_32[own[table[b][i]]] = b
        /\ \A j \in DOMAIN table[b] : own[table[b][i]] = own[table[b][j]] => i = j

-----------------------------------------------------------------------------
(* __hashtable_get *)

(* A key's bucket is a sequence of mailboxes. *)
LEMMA BucketType ==
  ASSUME NEW table, NEW own, WellFormed(table, own), NEW key \in Pids
  PROVE  /\ hash_32[key] \in Buckets
         /\ table[hash_32[key]] \in Seq(Mailboxes)
         /\ \A i \in DOMAIN table[hash_32[key]] : table[hash_32[key]][i] \in Mailboxes
<1>1. hash_32[key] \in Buckets
  BY HashTableAssumption
<1>2. table[hash_32[key]] \in Seq(Mailboxes)
  BY <1>1 DEF WellFormed
<1> QED
  BY <1>1, <1>2

(* A bucket of a well-formed table has at most one place for a key, and    *)
(* the search of __hashtable_get stops there.                              *)
LEMMA FirstIsIt ==
  ASSUME NEW table, NEW own, WellFormed(table, own), NEW key \in Pids,
         NEW i \in DOMAIN table[hash_32[key]], own[table[hash_32[key]][i]] = key
  PROVE  /\ Holds(table[hash_32[key]], own, key)
         /\ FirstOf(table[hash_32[key]], own, key) = i
<1> DEFINE bucket == table[hash_32[key]]
<1>1. /\ hash_32[key] \in Buckets
      /\ bucket \in Seq(Mailboxes)
  BY BucketType
<1>2. \A j \in DOMAIN bucket : own[bucket[j]] = key => i = j
  BY <1>1 DEF WellFormed
<1>3. \A j \in 1..i-1 : own[bucket[j]] # key
  BY <1>1, <1>2
<1>4. \A k \in DOMAIN bucket :
         (own[bucket[k]] = key /\ \A j \in 1..k-1 : own[bucket[j]] # key) <=> k = i
  BY <1>2, <1>3
<1>5. FirstOf(bucket, own, key) = i
  BY <1>4, Zenon DEF FirstOf
<1> QED
  BY <1>5 DEF Holds

(* What __hashtable_get finds is the mailbox the key owns ...              *)
LEMMA GetFinds ==
  ASSUME NEW table, NEW own, WellFormed(table, own), NEW key \in Pids,
         NEW i \in DOMAIN table[hash_32[key]], own[table[hash_32[key]][i]] = key
  PROVE  /\ __hashtable_get(table, own, key) = table[hash_32[key]][i]
         /\ __hashtable_get(table, own, key) \in Mailboxes
         /\ __hashtable_get(table, own, key) # NULL
<1>1. __hashtable_get(table, own, key) = table[hash_32[key]][i]
  BY FirstIsIt DEF __hashtable_get, mailbox_hash
<1>2. table[hash_32[key]][i] \in Mailboxes
  BY BucketType
<1> QED
  BY <1>1, <1>2, HashTableAssumption

(* ... and it finds NULL only when there is none.                          *)
LEMMA GetMisses ==
  ASSUME NEW table, NEW own, WellFormed(table, own), NEW key \in Pids,
         \A i \in DOMAIN table[hash_32[key]] : own[table[hash_32[key]][i]] # key
  PROVE  /\ ~Holds(table[hash_32[key]], own, key)
         /\ __hashtable_get(table, own, key) = NULL
BY DEF __hashtable_get, mailbox_hash, Holds

(* Both together: what a lookup can return. *)
LEMMA GetResult ==
  ASSUME NEW table, NEW own, WellFormed(table, own), NEW key \in Pids
  PROVE  \/ /\ __hashtable_get(table, own, key) = NULL
            /\ \A i \in DOMAIN table[hash_32[key]] : own[table[hash_32[key]][i]] # key
         \/ /\ __hashtable_get(table, own, key) \in Mailboxes
            /\ own[__hashtable_get(table, own, key)] = key
<1>1. CASE \A i \in DOMAIN table[hash_32[key]] : own[table[hash_32[key]][i]] # key
  BY <1>1, GetMisses
<1>2. CASE \E i \in DOMAIN table[hash_32[key]] : own[table[hash_32[key]][i]] = key
  <2>1. PICK i \in DOMAIN table[hash_32[key]] : own[table[hash_32[key]][i]] = key
    BY <1>2
  <2> QED
    BY <2>1, GetFinds
<1> QED
  BY <1>1, <1>2

-----------------------------------------------------------------------------
(* __hashtable_remove *)

(* The bucket without its i-th entry. *)
LEMMA HlistDel ==
  ASSUME NEW bucket \in Seq(Mailboxes), NEW i \in DOMAIN bucket
  PROVE  /\ hlist_del(bucket, i) \in Seq(Mailboxes)
         /\ DOMAIN hlist_del(bucket, i) = 1..Len(bucket)-1
         /\ \A j \in 1..Len(bucket)-1 :
               /\ j < i => hlist_del(bucket, i)[j] = bucket[j]
               /\ j >= i => j + 1 \in DOMAIN bucket /\ hlist_del(bucket, i)[j] = bucket[j+1]
<1>1. Len(bucket) \in Nat /\ DOMAIN bucket = 1..Len(bucket)
  OBVIOUS
<1>2. Len(bucket) - 1 \in Nat
  BY <1>1
<1>3. \A j \in 1..Len(bucket)-1 :
         (IF j < i THEN bucket[j] ELSE bucket[j+1]) \in Mailboxes
  BY <1>1
<1>4. hlist_del(bucket, i) \in Seq(Mailboxes)
  BY <1>2, <1>3 DEF hlist_del
<1> QED
  BY <1>1, <1>4 DEF hlist_del

(* Removing a key leaves a well-formed table in which the key is missing   *)
(* and every other key's mailbox is where a lookup finds it.               *)
LEMMA RemoveWorks ==
  ASSUME NEW table, NEW own, WellFormed(table, own), NEW key \in Pids
  PROVE  /\ WellFormed(__hashtable_remove(table, own, key), own)
         /\ \A q \in Pids : __hashtable_get(__hashtable_remove(table, own, key), own, q) =
                              IF q = key THEN NULL ELSE __hashtable_get(table, own, q)
<1> DEFINE h == hash_32[key]
           bucket == table[h]
           new == __hashtable_remove(table, own, key)
<1>1. h \in Buckets /\ bucket \in Seq(Mailboxes)
  BY BucketType
<1>2. CASE \A i \in DOMAIN bucket : own[bucket[i]] # key
  <2>1. new = table
    BY <1>2, GetMisses DEF __hashtable_remove, mailbox_hash
  <2>2. __hashtable_get(table, own, key) = NULL
    BY <1>2, GetMisses
  <2> QED
    BY <2>1, <2>2
<1>3. CASE \E i \in DOMAIN bucket : own[bucket[i]] = key
  <2>1. PICK i \in DOMAIN bucket : own[bucket[i]] = key
    BY <1>3
  <2> DEFINE cut == hlist_del(bucket, i)
  <2>2. new = [table EXCEPT ![h] = cut]
    BY <2>1, FirstIsIt DEF __hashtable_remove, mailbox_hash
  <2>3. /\ cut \in Seq(Mailboxes)
        /\ DOMAIN cut = 1..Len(bucket)-1
        /\ \A j \in 1..Len(bucket)-1 :
              /\ j < i => cut[j] = bucket[j]
              /\ j >= i => j + 1 \in DOMAIN bucket /\ cut[j] = bucket[j+1]
    BY <1>1, HlistDel
  <2>4. /\ new \in [Buckets -> Seq(Mailboxes)]
        /\ new[h] = cut
        /\ \A b \in Buckets \ {h} : new[b] = table[b]
    BY <1>1, <2>2, <2>3 DEF WellFormed
  <2> DEFINE place(j) == IF j < i THEN j ELSE j + 1
  <2>5. \A j \in DOMAIN cut : /\ place(j) \in DOMAIN bucket
                               /\ cut[j] = bucket[place(j)]
                               /\ place(j) # i
    BY <1>1, <2>3
  <2>6. \A j, k \in DOMAIN cut : place(j) = place(k) => j = k
    BY <2>3, <1>1
  <2>7. \A j, k \in DOMAIN bucket : own[bucket[j]] = own[bucket[k]] => j = k
    BY <1>1 DEF WellFormed
  <2>8. \A j \in DOMAIN bucket : own[bucket[j]] \in Pids /\ hash_32[own[bucket[j]]] = h
    BY <1>1 DEF WellFormed
  <2> HIDE DEF place, cut, new
  <2>9. \A j \in DOMAIN cut :
           /\ own[cut[j]] \in Pids
           /\ hash_32[own[cut[j]]] = h
           /\ own[cut[j]] # key
           /\ \A k \in DOMAIN cut : own[cut[j]] = own[cut[k]] => j = k
    BY <2>1, <2>5, <2>6, <2>7, <2>8
  <2>10. WellFormed(new, own)
    <3>1. ASSUME NEW b \in Buckets, NEW j \in DOMAIN new[b]
          PROVE  /\ own[new[b][j]] \in Pids
                 /\ hash_32[own[new[b][j]]] = b
                 /\ \A k \in DOMAIN new[b] : own[new[b][j]] = own[new[b][k]] => j = k
      <4>1. CASE b = h
        BY <4>1, <2>4, <2>9
      <4>2. CASE b # h
        BY <4>2, <2>4 DEF WellFormed
      <4> QED
        BY <4>1, <4>2
    <3> QED
      BY <3>1, <2>4 DEF WellFormed
  <2>11. __hashtable_get(new, own, key) = NULL
    BY <2>4, <2>9, <2>10, GetMisses
  <2>12. ASSUME NEW q \in Pids, q # key
         PROVE  __hashtable_get(new, own, q) = __hashtable_get(table, own, q)
    <3>1. CASE hash_32[q] # h
      BY <3>1, <2>4, BucketType DEF __hashtable_get, mailbox_hash
    <3>2. CASE hash_32[q] = h
      <4>1. CASE \E j \in DOMAIN bucket : own[bucket[j]] = q
        <5>1. PICK j \in DOMAIN bucket : own[bucket[j]] = q
          BY <4>1
        <5>2. j # i
          BY <5>1, <2>1, <2>12
        <5>3. \E k \in DOMAIN cut : cut[k] = bucket[j]
          <6>1. CASE j < i
            <7>1. j \in 1..Len(bucket)-1
              BY <6>1, <1>1
            <7> QED
              BY <7>1, <6>1, <2>3
          <6>2. CASE j > i
            <7>1. j - 1 \in 1..Len(bucket)-1 /\ j - 1 >= i /\ (j - 1) + 1 = j
              BY <6>2, <1>1
            <7> QED
              BY <7>1, <2>3
          <6> QED
            BY <5>2, <6>1, <6>2, <1>1
        <5>4. PICK k \in DOMAIN cut : cut[k] = bucket[j]
          BY <5>3
        <5>5. __hashtable_get(new, own, q) = bucket[j]
          <6>1. k \in DOMAIN new[hash_32[q]] /\ new[hash_32[q]][k] = bucket[j]
            BY <5>4, <3>2, <2>4
          <6> QED
            BY <6>1, <5>1, <2>10, GetFinds
        <5>6. __hashtable_get(table, own, q) = bucket[j]
          BY <5>1, <3>2, GetFinds
        <5> QED
          BY <5>5, <5>6
      <4>2. CASE \A j \in DOMAIN bucket : own[bucket[j]] # q
        <5>1. \A j \in DOMAIN cut : own[cut[j]] # q
          BY <4>2, <2>5
        <5>2. __hashtable_get(new, own, q) = NULL
          BY <5>1, <3>2, <2>4, <2>10, GetMisses
        <5>3. __hashtable_get(table, own, q) = NULL
          BY <4>2, <3>2, GetMisses
        <5> QED
          BY <5>2, <5>3
      <4> QED
        BY <4>1, <4>2
    <3> QED
      BY <3>1, <3>2
  <2> QED
    BY <2>10, <2>11, <2>12 DEF new
<1> QED
  BY <1>2, <1>3

-----------------------------------------------------------------------------
(* __hashtable_put *)

(* A bucket with a new first entry. *)
LEMMA Pushed ==
  ASSUME NEW bucket \in Seq(Mailboxes), NEW m \in Mailboxes
  PROVE  /\ <<m>> \o bucket \in Seq(Mailboxes)
         /\ DOMAIN (<<m>> \o bucket) = 1..Len(bucket)+1
         /\ (<<m>> \o bucket)[1] = m
         /\ \A j \in 2..Len(bucket)+1 :
               j - 1 \in DOMAIN bucket /\ (<<m>> \o bucket)[j] = bucket[j-1]
         /\ \A j \in DOMAIN bucket :
               j + 1 \in 2..Len(bucket)+1 /\ (<<m>> \o bucket)[j+1] = bucket[j]
OBVIOUS

(* Filing a mailbox that had no owner under a key that had no mailbox      *)
(* leaves a well-formed table in which the key has that mailbox and every  *)
(* other key what it had.                                                  *)
LEMMA PutWorks ==
  ASSUME NEW table, NEW own, WellFormed(table, own), NEW key \in Pids,
         NEW m \in Mailboxes, own[m] = NULL,
         __hashtable_get(table, own, key) = NULL,
         NEW own2 \in [Mailboxes -> Pids \cup {NULL}], own2[m] = key,
         \A x \in Mailboxes \ {m} : own2[x] = own[x]
  PROVE  /\ WellFormed(__hashtable_put(table, own2, key, m), own2)
         /\ \A q \in Pids : __hashtable_get(__hashtable_put(table, own2, key, m), own2, q) =
                              IF q = key THEN m ELSE __hashtable_get(table, own, q)
<1> DEFINE h == hash_32[key]
           bucket == table[h]
           pushed == <<m>> \o bucket
           new == __hashtable_put(table, own2, key, m)
<1>1. h \in Buckets /\ bucket \in Seq(Mailboxes)
  BY BucketType
<1>2. table \in [Buckets -> Seq(Mailboxes)]
  BY DEF WellFormed
<1>3. \A b \in Buckets : \A i \in DOMAIN table[b] :
         /\ table[b][i] \in Mailboxes
         /\ own[table[b][i]] # NULL
         /\ table[b][i] # m
         /\ own2[table[b][i]] = own[table[b][i]]
  BY <1>2, HashTableAssumption DEF WellFormed
<1>4. \A i \in DOMAIN bucket : own[bucket[i]] # key
  <2>1. SUFFICES ASSUME NEW i \in DOMAIN bucket, own[bucket[i]] = key PROVE FALSE
    OBVIOUS
  <2> QED
    BY <2>1, GetFinds
<1>5. WellFormed(table, own2)
  BY <1>2, <1>3 DEF WellFormed
<1>6. new = [table EXCEPT ![h] = pushed]
  <2>1. ~Holds(bucket, own2, key)
    BY <1>1, <1>3, <1>4 DEF Holds
  <2> QED
    BY <2>1 DEF __hashtable_put, __hashtable_remove, mailbox_hash
<1>7. /\ pushed \in Seq(Mailboxes)
      /\ DOMAIN pushed = 1..Len(bucket)+1
      /\ pushed[1] = m
      /\ \A j \in 2..Len(bucket)+1 : j - 1 \in DOMAIN bucket /\ pushed[j] = bucket[j-1]
      /\ \A j \in DOMAIN bucket : j + 1 \in 2..Len(bucket)+1 /\ pushed[j+1] = bucket[j]
  BY <1>1, Pushed
<1> HIDE DEF pushed, new
<1>8. /\ new \in [Buckets -> Seq(Mailboxes)]
      /\ new[h] = pushed
      /\ \A b \in Buckets \ {h} : new[b] = table[b]
  BY <1>1, <1>2, <1>6, <1>7
<1>9. \A j, k \in DOMAIN bucket : own2[bucket[j]] = own2[bucket[k]] => j = k
  BY <1>1, <1>5 DEF WellFormed
<1>10. \A j \in DOMAIN bucket :
          own2[bucket[j]] \in Pids /\ hash_32[own2[bucket[j]]] = h /\ own2[bucket[j]] # key
  BY <1>1, <1>3, <1>4, <1>5 DEF WellFormed
<1>11. Len(bucket) \in Nat /\ DOMAIN bucket = 1..Len(bucket)
  BY <1>1
<1>12. \A j \in DOMAIN pushed : j = 1 \/ j \in 2..Len(bucket)+1
  BY <1>7, <1>11
<1>13. \A j \in DOMAIN pushed :
          /\ own2[pushed[j]] \in Pids
          /\ hash_32[own2[pushed[j]]] = h
          /\ own2[pushed[j]] = key => j = 1
  BY <1>2, <1>7, <1>10, <1>12
<1>14. ASSUME NEW j \in DOMAIN pushed, NEW k \in DOMAIN pushed,
              own2[pushed[j]] = own2[pushed[k]]
       PROVE  j = k
  <2>1. CASE j = 1 \/ k = 1
    BY <1>2, <1>7, <1>13, <1>14, <2>1
  <2>2. CASE j # 1 /\ k # 1
    <3>1. j \in 2..Len(bucket)+1 /\ k \in 2..Len(bucket)+1
      BY <1>12, <2>2
    <3>2. j - 1 = k - 1
      BY <3>1, <1>7, <1>9, <1>14
    <3> QED
      BY <3>1, <3>2, <1>11
  <2> QED
    BY <2>1, <2>2
<1>15. WellFormed(new, own2)
  <2>1. ASSUME NEW b \in Buckets, NEW j \in DOMAIN new[b]
        PROVE  /\ own2[new[b][j]] \in Pids
               /\ hash_32[own2[new[b][j]]] = b
               /\ \A k \in DOMAIN new[b] : own2[new[b][j]] = own2[new[b][k]] => j = k
    <3>1. CASE b = h
      BY <3>1, <1>8, <1>13, <1>14
    <3>2. CASE b # h
      BY <3>2, <1>5, <1>8 DEF WellFormed
    <3> QED
      BY <3>1, <3>2
  <2> QED
    BY <2>1, <1>2, <1>8 DEF WellFormed
<1>16. __hashtable_get(new, own2, key) = m
  <2>1. 1 \in DOMAIN new[hash_32[key]] /\ new[hash_32[key]][1] = m
    BY <1>7, <1>8, <1>11
  <2> QED
    BY <2>1, <1>15, GetFinds
<1>17. ASSUME NEW q \in Pids, q # key
       PROVE  __hashtable_get(new, own2, q) = __hashtable_get(table, own, q)
  <2>1. hash_32[q] \in Buckets
    BY HashTableAssumption
  <2>2. CASE \E i \in DOMAIN table[hash_32[q]] : own[table[hash_32[q]][i]] = q
    <3>1. PICK i \in DOMAIN table[hash_32[q]] : own[table[hash_32[q]][i]] = q
      BY <2>2
    <3>2. own2[table[hash_32[q]][i]] = q
      BY <3>1, <1>3, <2>1
    <3>3. \E k \in DOMAIN new[hash_32[q]] : new[hash_32[q]][k] = table[hash_32[q]][i]
      <4>1. CASE hash_32[q] = h
        <5>1. i + 1 \in DOMAIN pushed /\ pushed[i+1] = bucket[i]
          BY <4>1, <1>7, <1>11
        <5> QED
          BY <5>1, <4>1, <1>8
      <4>2. CASE hash_32[q] # h
        BY <4>2, <2>1, <1>8
      <4> QED
        BY <4>1, <4>2
    <3>4. PICK k \in DOMAIN new[hash_32[q]] : new[hash_32[q]][k] = table[hash_32[q]][i]
      BY <3>3
    <3>5. __hashtable_get(new, own2, q) = table[hash_32[q]][i]
      <4>1. own2[new[hash_32[q]][k]] = q
        BY <3>2, <3>4
      <4> QED
        BY <4>1, <3>4, <1>15, GetFinds
    <3>6. __hashtable_get(table, own, q) = table[hash_32[q]][i]
      BY <3>1, GetFinds
    <3> QED
      BY <3>5, <3>6
  <2>3. CASE \A i \in DOMAIN table[hash_32[q]] : own[table[hash_32[q]][i]] # q
    <3>1. ASSUME NEW k \in DOMAIN new[hash_32[q]]
          PROVE  own2[new[hash_32[q]][k]] # q
      <4>1. CASE hash_32[q] = h
        <5>1. k \in DOMAIN pushed /\ new[hash_32[q]][k] = pushed[k]
          BY <4>1, <1>8
        <5>2. CASE k = 1
          BY <5>1, <5>2, <1>2, <1>7, <1>17
        <5>3. CASE k \in 2..Len(bucket)+1
          <6>1. k - 1 \in DOMAIN bucket /\ pushed[k] = bucket[k-1]
            BY <5>3, <1>7
          <6> QED
            BY <6>1, <5>1, <4>1, <1>1, <1>3, <2>3
        <5> QED
          BY <5>1, <5>2, <5>3, <1>12
      <4>2. CASE hash_32[q] # h
        <5>1. new[hash_32[q]] = table[hash_32[q]]
          BY <4>2, <2>1, <1>8
        <5> QED
          BY <5>1, <2>1, <2>3, <1>3
      <4> QED
        BY <4>1, <4>2
    <3>2. __hashtable_get(new, own2, q) = NULL
      BY <3>1, <1>15, GetMisses
    <3>3. __hashtable_get(table, own, q) = NULL
      BY <2>3, GetMisses
    <3> QED
      BY <3>2, <3>3
  <2> QED
    BY <2>2, <2>3
<1> QED
  BY <1>15, <1>16, <1>17 DEF new

-----------------------------------------------------------------------------
(* The manager's actions.  The invariant says, besides the types and the   *)
(* table, what the pointers that outlive a lock's section point to.        *)

Pointers ==
  /\ \A t \in Tasks : pc[t] \in {"in", "removing"} =>
        mailbox[t] \in Mailboxes /\ owner[mailbox[t]] \in Pids
  /\ \A k \in Kthreads : kpc[k] \in {"poll", "unlinked"} =>
        arg[k] \in Mailboxes /\ owner[arg[k]] \in Pids

TableInv ==
  /\ WellFormed(mailbox_hash_table, owner)
  /\ owner \in [Mailboxes -> Pids \cup {NULL}]
  /\ exiting \subseteq Mailboxes
  /\ dereferences \in [Mailboxes -> Int]
  /\ freed \subseteq Mailboxes
  /\ pc \in [Tasks -> {"user", "checked", "in", "removing", "exiting", "dead"}]
  /\ dest \in [Tasks -> Pids]
  /\ mailbox \in [Tasks -> Mailboxes \cup {NULL}]
  /\ kpc \in [Kthreads -> {"none", "poll", "unlinked", "done"}]
  /\ arg \in [Kthreads -> Mailboxes \cup {NULL}]
  /\ Pointers

(* The lookup of a pid's mailbox, in terms of the manager's variables. *)
LEMMA Lookups ==
  ASSUME TableInv, NEW p \in Pids
  PROVE  Get(p) # NULL => Get(p) \in Mailboxes /\ owner[Get(p)] = p
BY GetResult DEF TableInv, Get

(* Initially the table is empty. *)
LEMMA TableInit == MInit => TableInv
<1> SUFFICES ASSUME MInit PROVE TableInv
  OBVIOUS
<1>1. WellFormed(mailbox_hash_table, owner)
  BY DEF MInit, WellFormed, mailbox_manager_init
<1>2. pc \in [Tasks -> {"user", "checked", "in", "removing", "exiting", "dead"}]
  BY DEF MInit
<1>3. dest \in [Tasks -> Pids]
  BY ManagerAssumption DEF MInit
<1>4. Pointers
  BY DEF MInit, Pointers
<1> QED
  BY <1>1, <1>2, <1>3, <1>4 DEF MInit, TableInv

(* Creating a mailbox and filing it. *)
LEMMA CreateKeeps ==
  ASSUME TableInv, NEW t \in Tasks, create_for_pid(t)
  PROVE  /\ TableInv'
         /\ \E m \in Mailboxes :
               /\ owner[m] = NULL
               /\ \A q \in Pids : Get(q)' = IF q = dest[t] THEN m ELSE Get(q)
<1> DEFINE p == dest[t]
<1>1. p \in Pids
  BY DEF TableInv
<1>2. PICK m \in Mailboxes :
         /\ owner[m] = NULL
         /\ owner' = [owner EXCEPT ![m] = p]
         /\ mailbox_hash_table' = __hashtable_put(mailbox_hash_table, owner', p, m)
         /\ dereferences' = [dereferences EXCEPT ![m] = @ + 1]
         /\ mailbox' = [mailbox EXCEPT ![t] = m]
  BY DEF create_for_pid, mailbox_create, claim_mailbox
<1>3. /\ pc' = [pc EXCEPT ![t] = "in"]
      /\ UNCHANGED <<exiting, freed, dest, kpc, arg>>
  BY DEF create_for_pid, step
<1>4. /\ owner' \in [Mailboxes -> Pids \cup {NULL}]
      /\ owner'[m] = p
      /\ \A x \in Mailboxes \ {m} : owner'[x] = owner[x]
  BY <1>1, <1>2 DEF TableInv
<1>5. /\ WellFormed(mailbox_hash_table, owner)
      /\ __hashtable_get(mailbox_hash_table, owner, p) = NULL
  BY DEF TableInv, create_for_pid, Get
<1>6. /\ WellFormed(mailbox_hash_table', owner')
      /\ \A q \in Pids : __hashtable_get(mailbox_hash_table', owner', q) =
                           IF q = p THEN m ELSE __hashtable_get(mailbox_hash_table, owner, q)
  <2>1. ASSUME NEW own2, own2 = owner'
        PROVE  /\ WellFormed(__hashtable_put(mailbox_hash_table, own2, p, m), own2)
               /\ \A q \in Pids :
                     __hashtable_get(__hashtable_put(mailbox_hash_table, own2, p, m), own2, q) =
                       IF q = p THEN m ELSE __hashtable_get(mailbox_hash_table, owner, q)
    <3>1. owner[m] = NULL
      BY <1>2
    <3>2. /\ own2 \in [Mailboxes -> Pids \cup {NULL}]
          /\ own2[m] = p
          /\ \A x \in Mailboxes \ {m} : own2[x] = owner[x]
      BY <1>4, <2>1
    <3> HIDE DEF p
    <3> QED
      BY <1>1, <1>5, <3>1, <3>2, PutWorks
  <2> QED
    BY <2>1, <1>2
<1>7. Pointers'
  <2>1. \A x \in Mailboxes : owner[x] \in Pids => owner'[x] \in Pids
    BY <1>1, <1>4
  <2>2. ASSUME NEW u \in Tasks, pc'[u] \in {"in", "removing"}
        PROVE  mailbox'[u] \in Mailboxes /\ owner'[mailbox'[u]] \in Pids
    <3>1. CASE u = t
      BY <3>1, <1>1, <1>2, <1>4 DEF TableInv
    <3>2. CASE u # t
      BY <3>2, <2>1, <2>2, <1>2, <1>3 DEF TableInv, Pointers
    <3> QED
      BY <3>1, <3>2
  <2>3. ASSUME NEW k \in Kthreads, kpc'[k] \in {"poll", "unlinked"}
        PROVE  arg'[k] \in Mailboxes /\ owner'[arg'[k]] \in Pids
    BY <2>1, <2>3, <1>3 DEF TableInv, Pointers
  <2> QED
    BY <2>2, <2>3 DEF Pointers
<1>8. TableInv'
  <2>1. dereferences' \in [Mailboxes -> Int]
    BY <1>2 DEF TableInv
  <2>2. mailbox' \in [Tasks -> Mailboxes \cup {NULL}]
    BY <1>2 DEF TableInv
  <2>3. pc' \in [Tasks -> {"user", "checked", "in", "removing", "exiting", "dead"}]
    BY <1>3 DEF TableInv
  <2> QED
    BY <2>1, <2>2, <2>3, <1>3, <1>4, <1>6, <1>7 DEF TableInv
<1> QED
  BY <1>2, <1>6, <1>8 DEF Get

(* The deletion kthread's section under the table's lock. *)
LEMMA DeletionKeeps ==
  ASSUME TableInv, NEW k \in Kthreads, mailbox_deletion_thread(k)
  PROVE  /\ TableInv'
         /\ owner[arg[k]] \in Pids
         /\ \A q \in Pids : Get(q)' = IF q = owner[arg[k]] THEN NULL ELSE Get(q)
<1> DEFINE p == owner[arg[k]]
<1>1. p \in Pids
  BY DEF TableInv, Pointers, mailbox_deletion_thread
<1>2. /\ mailbox_hash_table' = __hashtable_remove(mailbox_hash_table, owner, p)
      /\ kpc' = [kpc EXCEPT ![k] = "unlinked"]
      /\ kpc[k] = "poll"
      /\ UNCHANGED <<owner, exiting, dereferences, freed, pc, dest, mailbox, arg>>
  BY DEF mailbox_deletion_thread, taskVars
<1>3. WellFormed(mailbox_hash_table, owner)
  BY DEF TableInv
<1>4. /\ WellFormed(mailbox_hash_table', owner')
      /\ \A q \in Pids : __hashtable_get(mailbox_hash_table', owner', q) =
                           IF q = p THEN NULL ELSE __hashtable_get(mailbox_hash_table, owner, q)
  BY <1>1, <1>2, <1>3, RemoveWorks
<1>5. Pointers'
  BY <1>2 DEF TableInv, Pointers
<1>6. TableInv'
  BY <1>2, <1>4, <1>5 DEF TableInv
<1> QED
  BY <1>1, <1>4, <1>6 DEF Get

(* The actions that leave the table and the owners alone keep what is      *)
(* said of them; the rest is types and pointers.                           *)
LEMMA QuietStepsKeep ==
  ASSUME TableInv, NEW t \in Tasks,
         \/ \E p \in Pids : check_process(t, p)
         \/ create_fails(t)
         \/ find_for_pid(t)
         \/ Leaving(t)
         \/ remove_mailbox_for_pid(t)
         \/ killed(t)
  PROVE  TableInv' /\ UNCHANGED <<mailbox_hash_table, owner>>
<1>1. CASE \E p \in Pids : check_process(t, p)
  BY <1>1 DEF check_process, step, tableVars, TableInv, Pointers
<1>2. CASE create_fails(t)
  BY <1>2 DEF create_fails, step, tableVars, TableInv, Pointers
<1>3. CASE find_for_pid(t)
  <2> DEFINE m == Get(dest[t])
  <2>1. m \in Mailboxes /\ owner[m] \in Pids
    BY <1>3, Lookups DEF find_for_pid, TableInv
  <2>2. UNCHANGED <<mailbox_hash_table, owner, exiting, freed, dest, kpc, arg>>
    BY <1>3 DEF find_for_pid
  <2>3. \/ pc' = [pc EXCEPT ![t] = "user"] /\ UNCHANGED <<mailbox, dereferences>>
        \/ /\ pc' = [pc EXCEPT ![t] = "in"]
           /\ mailbox' = [mailbox EXCEPT ![t] = m]
           /\ dereferences' = [dereferences EXCEPT ![m] = @ + 1]
    BY <1>3 DEF find_for_pid, step, claim_mailbox
  <2> HIDE DEF m
  <2>4. CASE pc' = [pc EXCEPT ![t] = "user"] /\ UNCHANGED <<mailbox, dereferences>>
    BY <2>2, <2>4 DEF TableInv, Pointers
  <2>5. CASE /\ pc' = [pc EXCEPT ![t] = "in"]
             /\ mailbox' = [mailbox EXCEPT ![t] = m]
             /\ dereferences' = [dereferences EXCEPT ![m] = @ + 1]
    <3>1. dereferences' \in [Mailboxes -> Int]
      BY <2>1, <2>5 DEF TableInv
    <3> QED
      BY <3>1, <2>1, <2>2, <2>5 DEF TableInv, Pointers
  <2> QED
    BY <2>2, <2>3, <2>4, <2>5
<1>4. CASE Leaving(t)
  <2>1. CASE unclaim_mailbox(t)
    <3>1. dereferences' \in [Mailboxes -> Int]
      BY <2>1 DEF unclaim_mailbox, TableInv, Pointers
    <3> QED
      BY <3>1, <2>1 DEF unclaim_mailbox, step, TableInv, Pointers
  <2>2. CASE kthread_run(t)
    BY <2>2 DEF kthread_run, step, tableVars, TableInv, Pointers
  <2>3. CASE do_exit(t)
    BY <2>3 DEF do_exit, step, tableVars, TableInv, Pointers
  <2> QED
    BY <1>4, <2>1, <2>2, <2>3 DEF Leaving
<1>5. CASE remove_mailbox_for_pid(t)
  <2> DEFINE m == Get(tgid[t])
  <2>1. tgid[t] \in Pids
    BY ManagerAssumption
  <2>2. m # NULL => m \in Mailboxes /\ owner[m] \in Pids
    BY <2>1, Lookups
  <2>3. UNCHANGED <<mailbox_hash_table, owner, dereferences, freed, dest, kpc, arg>>
    BY <1>5 DEF remove_mailbox_for_pid
  <2>4. \/ pc' = [pc EXCEPT ![t] = "exiting"] /\ UNCHANGED <<exiting, mailbox>>
        \/ /\ m # NULL
           /\ exiting' = exiting \cup {m}
           /\ mailbox' = [mailbox EXCEPT ![t] = m]
           /\ pc' = [pc EXCEPT ![t] = "removing"]
    BY <1>5 DEF remove_mailbox_for_pid, step
  <2> HIDE DEF m
  <2> QED
    BY <2>2, <2>3, <2>4 DEF TableInv, Pointers
<1>6. CASE killed(t)
  BY <1>6 DEF killed, step, tableVars, TableInv, Pointers
<1> QED
  BY <1>1, <1>2, <1>3, <1>4, <1>5, <1>6

(* mailbox_destroy does not touch the table. *)
LEMMA DestroyKeeps ==
  ASSUME TableInv, NEW k \in Kthreads, mailbox_destroy(k)
  PROVE  TableInv' /\ UNCHANGED <<mailbox_hash_table, owner>>
BY DEF mailbox_destroy, taskVars, TableInv, Pointers

(* The invariant is kept by every step. *)
LEMMA TableStep == TableInv /\ [MNext]_mvars => TableInv'
<1> SUFFICES ASSUME TableInv, [MNext]_mvars PROVE TableInv'
  OBVIOUS
<1>1. CASE UNCHANGED mvars
  BY <1>1 DEF mvars, tableVars, taskVars, TableInv, Pointers
<1>2. ASSUME NEW t \in Tasks, create_for_pid(t) PROVE TableInv'
  BY <1>2, CreateKeeps
<1>3. ASSUME NEW t \in Tasks,
             \/ \E p \in Pids : check_process(t, p)
             \/ create_fails(t)
             \/ find_for_pid(t)
             \/ Leaving(t)
             \/ remove_mailbox_for_pid(t)
             \/ killed(t)
      PROVE  TableInv'
  BY <1>3, QuietStepsKeep
<1>4. ASSUME NEW k \in Kthreads, Deleting(k) PROVE TableInv'
  BY <1>4, DeletionKeeps, DestroyKeeps DEF Deleting
<1> QED
  BY <1>1, <1>2, <1>3, <1>4 DEF MNext, Lookup

LEMMA TableInvariant == MSpec => []TableInv
BY TableInit, TableStep, PTL DEF MSpec

(* The table of mailbox_manager.c never has two mailboxes for a pid, nor   *)
(* one in a bucket where lookups for its owner do not look.                *)
THEOREM OneMailboxPerPidTheorem == MSpec => []OneMailboxPerPid
<1>1. TableInv => OneMailboxPerPid
  BY DEF TableInv, WellFormed, OneMailboxPerPid, mailbox_hash
<1> QED
  BY <1>1, TableInvariant, PTL

-----------------------------------------------------------------------------
(* The table is a dictionary. *)

(* The manager starts with the empty dictionary. *)
LEMMA TableRefinesInit == MInit => Table!TInit
<1> SUFFICES ASSUME MInit PROVE Table!TInit
  OBVIOUS
<1>1. WellFormed(mailbox_hash_table, owner)
  BY TableInit DEF TableInv
<1>2. ASSUME NEW p \in Pids PROVE Get(p) = NULL
  <2>1. \A i \in DOMAIN mailbox_hash_table[hash_32[p]] :
           owner[mailbox_hash_table[hash_32[p]][i]] # p
    BY HashTableAssumption DEF MInit, mailbox_manager_init
  <2> QED
    BY <1>1, <2>1, GetMisses DEF Get
<1> QED
  BY <1>2 DEF Table!TInit

(* Every step of the manager is a step of the dictionary or leaves it.     *)
LEMMA TableRefinesStep ==
  TableInv /\ [MNext]_mvars => [Table!TNext]_([p \in Pids |-> Get(p)])
<1> SUFFICES ASSUME TableInv, [MNext]_mvars
             PROVE  [Table!TNext]_([p \in Pids |-> Get(p)])
  OBVIOUS
<1> DEFINE entry == [p \in Pids |-> Get(p)]
<1>1. ASSUME UNCHANGED <<mailbox_hash_table, owner>>
      PROVE  entry' = entry
  BY <1>1 DEF Get
<1>2. CASE UNCHANGED mvars
  BY <1>1, <1>2 DEF mvars, tableVars
<1>3. ASSUME NEW t \in Tasks, create_for_pid(t)
      PROVE  Table!TNext
  <2>1. PICK m \in Mailboxes :
           /\ owner[m] = NULL
           /\ \A q \in Pids : Get(q)' = IF q = dest[t] THEN m ELSE Get(q)
    BY <1>3, CreateKeeps
  <2>2. dest[t] \in Pids /\ Get(dest[t]) = NULL
    BY <1>3 DEF TableInv, create_for_pid
  <2>3. \A q \in Pids : Get(q) # m
    BY <2>1, Lookups, HashTableAssumption
  <2>4. entry' = [entry EXCEPT ![dest[t]] = m]
    BY <2>1, <2>2
  <2> QED
    BY <2>2, <2>3, <2>4 DEF Table!TNext, Table!Put
<1>4. ASSUME NEW t \in Tasks,
             \/ \E p \in Pids : check_process(t, p)
             \/ create_fails(t)
             \/ find_for_pid(t)
             \/ Leaving(t)
             \/ remove_mailbox_for_pid(t)
             \/ killed(t)
      PROVE  entry' = entry
  BY <1>1, <1>4, QuietStepsKeep
<1>5. ASSUME NEW k \in Kthreads, mailbox_deletion_thread(k)
      PROVE  Table!TNext
  <2>1. /\ owner[arg[k]] \in Pids
        /\ \A q \in Pids : Get(q)' = IF q = owner[arg[k]] THEN NULL ELSE Get(q)
    BY <1>5, DeletionKeeps
  <2>2. entry' = [entry EXCEPT ![owner[arg[k]]] = NULL]
    BY <2>1
  <2> QED
    BY <2>1, <2>2 DEF Table!TNext, Table!Remove
<1>6. ASSUME NEW k \in Kthreads, mailbox_destroy(k)
      PROVE  entry' = entry
  BY <1>1, <1>6, DestroyKeeps
<1> QED
  BY <1>2, <1>3, <1>4, <1>5, <1>6 DEF MNext, Lookup, Deleting

(* The hash table, with its collisions, searches and unlinking by pid, is  *)
(* the dictionary of MailboxTable.tla to everyone who looks pids up.       *)
THEOREM ImplementsTableTheorem == MSpec => ImplementsTable
BY TableRefinesInit, TableRefinesStep, TableInvariant, PTL
DEF MSpec, ImplementsTable, Table!TSpec

-----------------------------------------------------------------------------
(* Claims are counted right. *)

ClaimsOn(m) == {t \in Tasks : pc[t] = "in" /\ mailbox[t] = m}

(* dereferences is the number of tasks that hold a claim: get_mailbox and  *)
(* unclaim_mailbox are paired on every path, the refused one included.     *)
ClaimsCounted ==
  \A m \in Mailboxes : dereferences[m] = Cardinality(ClaimsOn(m))

(* Sets of tasks are finite. *)
LEMMA ClaimsFinite == \A m : IsFiniteSet(ClaimsOn(m))
BY ManagerAssumption, FS_Subset DEF ClaimsOn

(* A task that gets in adds one to its mailbox's claims. *)
LEMMA ClaimAdds ==
  ASSUME TableInv, ClaimsCounted, NEW t \in Tasks, NEW n \in Mailboxes,
         pc[t] = "checked",
         pc' = [pc EXCEPT ![t] = "in"],
         mailbox' = [mailbox EXCEPT ![t] = n],
         dereferences' = [dereferences EXCEPT ![n] = @ + 1]
  PROVE  ClaimsCounted'
<1>1. pc'[t] = "in" /\ mailbox'[t] = n
  BY DEF TableInv
<1>2. \A u \in Tasks \ {t} : pc'[u] = pc[u] /\ mailbox'[u] = mailbox[u]
  BY DEF TableInv
<1>3. ASSUME NEW m \in Mailboxes, m # n
      PROVE  ClaimsOn(m)' = ClaimsOn(m) /\ dereferences'[m] = dereferences[m]
  BY <1>1, <1>2, <1>3 DEF ClaimsOn, TableInv
<1>4. ClaimsOn(n)' = ClaimsOn(n) \cup {t} /\ t \notin ClaimsOn(n)
  BY <1>1, <1>2 DEF ClaimsOn
<1>5. Cardinality(ClaimsOn(n)') = Cardinality(ClaimsOn(n)) + 1
  BY <1>4, ClaimsFinite, FS_AddElement
<1>6. dereferences'[n] = dereferences[n] + 1
  BY DEF TableInv
<1> QED
  BY <1>3, <1>5, <1>6 DEF ClaimsCounted

(* A task that leaves takes one away. *)
LEMMA UnclaimTakes ==
  ASSUME TableInv, ClaimsCounted, NEW t \in Tasks, unclaim_mailbox(t)
  PROVE  ClaimsCounted'
<1>1. PICK n \in Mailboxes : n = mailbox[t]
  BY DEF TableInv, Pointers, unclaim_mailbox
<1>2. pc[t] = "in" /\ pc'[t] = "user"
  BY DEF TableInv, unclaim_mailbox, step
<1>3. \A u \in Tasks \ {t} : pc'[u] = pc[u] /\ mailbox'[u] = mailbox[u]
  BY DEF TableInv, unclaim_mailbox, step
<1>4. ASSUME NEW m \in Mailboxes, m # n
      PROVE  ClaimsOn(m)' = ClaimsOn(m) /\ dereferences'[m] = dereferences[m]
  BY <1>1, <1>2, <1>3, <1>4 DEF ClaimsOn, TableInv, unclaim_mailbox
<1>5. ClaimsOn(n)' = ClaimsOn(n) \ {t} /\ t \in ClaimsOn(n)
  BY <1>1, <1>2, <1>3 DEF ClaimsOn
<1>6. Cardinality(ClaimsOn(n)') = Cardinality(ClaimsOn(n)) - 1
  BY <1>5, ClaimsFinite, FS_RemoveElement
<1>7. dereferences'[n] = dereferences[n] - 1
  BY <1>1 DEF TableInv, unclaim_mailbox
<1> QED
  BY <1>1, <1>4, <1>6, <1>7 DEF ClaimsCounted

(* Everything else moves tasks between places without a claim. *)
LEMMA NoClaimMoves ==
  ASSUME ClaimsCounted, UNCHANGED dereferences,
         \A u \in Tasks : \/ pc'[u] = pc[u] /\ mailbox'[u] = mailbox[u]
                          \/ pc[u] # "in" /\ pc'[u] # "in"
  PROVE  ClaimsCounted'
<1>1. \A m : ClaimsOn(m)' = ClaimsOn(m)
  BY DEF ClaimsOn
<1> QED
  BY <1>1 DEF ClaimsCounted

LEMMA ClaimStep == TableInv /\ ClaimsCounted /\ [MNext]_mvars => ClaimsCounted'
<1> SUFFICES ASSUME TableInv, ClaimsCounted, [MNext]_mvars PROVE ClaimsCounted'
  OBVIOUS
<1>1. CASE UNCHANGED mvars
  BY <1>1, NoClaimMoves DEF mvars, tableVars, taskVars
<1>2. ASSUME NEW t \in Tasks, NEW p \in Pids, check_process(t, p) PROVE ClaimsCounted'
  BY <1>2, NoClaimMoves DEF check_process, step, tableVars, TableInv
<1>3. ASSUME NEW t \in Tasks, create_for_pid(t) PROVE ClaimsCounted'
  <2>1. PICK n \in Mailboxes :
           /\ dereferences' = [dereferences EXCEPT ![n] = @ + 1]
           /\ mailbox' = [mailbox EXCEPT ![t] = n]
    BY <1>3 DEF create_for_pid, claim_mailbox
  <2>2. pc[t] = "checked" /\ pc' = [pc EXCEPT ![t] = "in"]
    BY <1>3 DEF create_for_pid, step
  <2> QED
    BY <2>1, <2>2, ClaimAdds
<1>4. ASSUME NEW t \in Tasks, create_fails(t) PROVE ClaimsCounted'
  BY <1>4, NoClaimMoves DEF create_fails, step, tableVars, TableInv
<1>5. ASSUME NEW t \in Tasks, find_for_pid(t) PROVE ClaimsCounted'
  <2>1. CASE Get(dest[t]) \in exiting
    BY <1>5, <2>1, NoClaimMoves DEF find_for_pid, step, TableInv
  <2>2. CASE Get(dest[t]) \notin exiting
    <3>1. /\ pc[t] = "checked" /\ pc' = [pc EXCEPT ![t] = "in"]
          /\ mailbox' = [mailbox EXCEPT ![t] = Get(dest[t])]
          /\ dereferences' = [dereferences EXCEPT ![Get(dest[t])] = @ + 1]
      BY <1>5, <2>2 DEF find_for_pid, step, claim_mailbox
    <3>2. Get(dest[t]) \in Mailboxes
      BY <1>5, Lookups DEF find_for_pid, TableInv
    <3> QED
      BY <3>1, <3>2, ClaimAdds
  <2> QED
    BY <2>1, <2>2
<1>6. ASSUME NEW t \in Tasks, Leaving(t) PROVE ClaimsCounted'
  <2>1. CASE unclaim_mailbox(t)
    BY <2>1, UnclaimTakes
  <2>2. CASE kthread_run(t)
    BY <2>2, NoClaimMoves DEF kthread_run, step, tableVars, TableInv
  <2>3. CASE do_exit(t)
    BY <2>3, NoClaimMoves DEF do_exit, step, tableVars, TableInv
  <2> QED
    BY <1>6, <2>1, <2>2, <2>3 DEF Leaving
<1>7. ASSUME NEW t \in Tasks, remove_mailbox_for_pid(t) PROVE ClaimsCounted'
  <2>1. /\ pc[t] = "user" /\ pc'[t] \in {"exiting", "removing"}
        /\ \A u \in Tasks \ {t} : pc'[u] = pc[u] /\ mailbox'[u] = mailbox[u]
        /\ UNCHANGED dereferences
    BY <1>7 DEF remove_mailbox_for_pid, step, TableInv
  <2> QED
    BY <2>1, NoClaimMoves
<1>8. ASSUME NEW t \in Tasks, killed(t) PROVE ClaimsCounted'
  BY <1>8, NoClaimMoves DEF killed, step, tableVars, TableInv
<1>9. ASSUME NEW k \in Kthreads, Deleting(k) PROVE ClaimsCounted'
  BY <1>9, NoClaimMoves
  DEF Deleting, mailbox_deletion_thread, mailbox_destroy, taskVars
<1> QED
  BY <1>1, <1>2, <1>3, <1>4, <1>5, <1>6, <1>7, <1>8, <1>9 DEF MNext, Lookup

(* The types hold; that a mailbox's dereferences never fall below zero     *)
(* rests on the pairing of claims.                                         *)
THEOREM ManagerTypeTheorem == MSpec => [](MTypeOK /\ ClaimsCounted)
<1>1. MInit => ClaimsCounted
  <2> SUFFICES ASSUME MInit PROVE ClaimsCounted
    OBVIOUS
  <2>1. \A m : ClaimsOn(m) = {}
    BY DEF MInit, ClaimsOn
  <2> QED
    BY <2>1, FS_EmptySet DEF MInit, ClaimsCounted
<1>2. TableInv /\ ClaimsCounted => MTypeOK
  <2> SUFFICES ASSUME TableInv, ClaimsCounted PROVE MTypeOK
    OBVIOUS
  <2>1. \A m \in Mailboxes : dereferences[m] \in Nat
    BY ClaimsFinite, FS_CardinalityType DEF ClaimsCounted
  <2>2. dereferences \in [Mailboxes -> Nat]
    BY <2>1 DEF TableInv
  <2> QED
    BY <2>2 DEF TableInv, WellFormed, MTypeOK
<1> QED
  BY <1>1, <1>2, ClaimStep, TableInvariant, PTL DEF MSpec

-----------------------------------------------------------------------------
(* No claimed and no linked mailbox is freed. *)

(* A mailbox a kthread is about to destroy is out of the table, and so is  *)
(* one that has been destroyed, even if two kthreads were started for it.  *)
FreedInv ==
  /\ \A k \in Kthreads : kpc[k] = "unlinked" => \A q \in Pids : Get(q) # arg[k]
  /\ \A m \in freed : owner[m] \in Pids /\ \A q \in Pids : Get(q) # m
  /\ \A t \in Tasks : pc[t] = "in" => mailbox[t] \notin freed

(* What is in the table is what lookups find. *)
LEMMA LinkedIsFound ==
  ASSUME TableInv, NEW m \in Linked
  PROVE  m \in Mailboxes /\ \E q \in Pids : Get(q) = m
<1>1. PICK b \in Buckets : \E i \in DOMAIN mailbox_hash_table[b] : m = mailbox_hash_table[b][i]
  BY DEF Linked
<1>2. PICK i \in DOMAIN mailbox_hash_table[b] : m = mailbox_hash_table[b][i]
  BY <1>1
<1>3. /\ owner[m] \in Pids
      /\ hash_32[owner[m]] = b
      /\ WellFormed(mailbox_hash_table, owner)
  BY <1>2 DEF TableInv, WellFormed
<1>4. Get(owner[m]) = m /\ m \in Mailboxes
  BY <1>2, <1>3, GetFinds DEF Get
<1> QED
  BY <1>3, <1>4

LEMMA FreedStep ==
  TableInv /\ ClaimsCounted /\ FreedInv /\ [MNext]_mvars => FreedInv'
<1> SUFFICES ASSUME TableInv, ClaimsCounted, FreedInv, [MNext]_mvars PROVE FreedInv'
  OBVIOUS
<1>1. CASE UNCHANGED mvars
  BY <1>1 DEF mvars, tableVars, taskVars, FreedInv, Get
<1>2. ASSUME NEW t \in Tasks, create_for_pid(t) PROVE FreedInv'
  <2>1. PICK m \in Mailboxes :
           /\ owner[m] = NULL
           /\ owner' = [owner EXCEPT ![m] = dest[t]]
           /\ mailbox' = [mailbox EXCEPT ![t] = m]
           /\ mailbox_hash_table' = __hashtable_put(mailbox_hash_table, owner', dest[t], m)
    BY <1>2 DEF create_for_pid, mailbox_create
  <2>2. PICK n \in Mailboxes :
           /\ owner[n] = NULL
           /\ \A q \in Pids : Get(q)' = IF q = dest[t] THEN n ELSE Get(q)
    BY <1>2, CreateKeeps
  <2>3. /\ pc' = [pc EXCEPT ![t] = "in"]
        /\ UNCHANGED <<freed, kpc, arg>>
    BY <1>2 DEF create_for_pid, step
  <2>4. \A x \in Mailboxes : owner[x] \in Pids => x # m /\ x # n /\ owner'[x] = owner[x]
    BY <2>1, <2>2, HashTableAssumption DEF TableInv
  <2>5. \A k \in Kthreads : kpc'[k] = "unlinked" => \A q \in Pids : Get(q)' # arg'[k]
    BY <2>2, <2>3, <2>4 DEF FreedInv, TableInv, Pointers
  <2>6. \A x \in freed' : owner'[x] \in Pids /\ \A q \in Pids : Get(q)' # x
    BY <2>2, <2>3, <2>4 DEF FreedInv, TableInv
  <2>7. \A u \in Tasks : pc'[u] = "in" => mailbox'[u] \notin freed'
    BY <2>1, <2>3, <2>4 DEF FreedInv, TableInv
  <2> QED
    BY <2>5, <2>6, <2>7 DEF FreedInv
<1>3. ASSUME NEW t \in Tasks,
             \/ \E p \in Pids : check_process(t, p)
             \/ create_fails(t)
             \/ find_for_pid(t)
             \/ Leaving(t)
             \/ remove_mailbox_for_pid(t)
             \/ killed(t)
      PROVE  FreedInv'
  <2>1. UNCHANGED <<mailbox_hash_table, owner>>
    BY <1>3, QuietStepsKeep
  <2>2. \A q \in Pids : Get(q)' = Get(q)
    BY <2>1 DEF Get
  <2>3. freed' = freed
    BY <1>3 DEF check_process, create_fails, find_for_pid, Leaving, unclaim_mailbox,
                kthread_run, do_exit, remove_mailbox_for_pid, killed, tableVars
  <2>4. \A k \in Kthreads : kpc'[k] = "unlinked" => kpc[k] = "unlinked" /\ arg'[k] = arg[k]
    <3>1. CASE kthread_run(t)
      BY <3>1 DEF kthread_run, TableInv
    <3>2. CASE ~kthread_run(t)
      BY <3>2, <1>3 DEF check_process, create_fails, find_for_pid, Leaving,
                  unclaim_mailbox, do_exit, remove_mailbox_for_pid, killed
    <3> QED
      BY <3>1, <3>2
  <2>5. ASSUME NEW u \in Tasks, pc'[u] = "in"
        PROVE  mailbox'[u] \notin freed
    <3>1. CASE u # t
      <4>1. pc[u] = "in" /\ mailbox'[u] = mailbox[u]
        BY <1>3, <2>5, <3>1
        DEF check_process, create_fails, find_for_pid, Leaving, unclaim_mailbox,
            kthread_run, do_exit, remove_mailbox_for_pid, killed, step, TableInv
      <4> QED
        BY <4>1 DEF FreedInv
    <3>2. CASE u = t
      <4>1. find_for_pid(t) /\ mailbox'[t] = Get(dest[t])
        BY <1>3, <2>5, <3>2
        DEF check_process, create_fails, find_for_pid, Leaving, unclaim_mailbox,
            kthread_run, do_exit, remove_mailbox_for_pid, killed, step, TableInv
      <4>2. dest[t] \in Pids
        BY DEF TableInv
      <4> QED
        BY <4>1, <4>2, <3>2 DEF FreedInv
    <3> QED
      BY <3>1, <3>2
  <2> QED
    BY <2>1, <2>2, <2>3, <2>4, <2>5 DEF FreedInv
<1>4. ASSUME NEW k \in Kthreads, mailbox_deletion_thread(k) PROVE FreedInv'
  <2>1. /\ owner[arg[k]] \in Pids
        /\ \A q \in Pids : Get(q)' = IF q = owner[arg[k]] THEN NULL ELSE Get(q)
    BY <1>4, DeletionKeeps
  <2>2. /\ kpc' = [kpc EXCEPT ![k] = "unlinked"]
        /\ UNCHANGED <<owner, freed, pc, mailbox, arg>>
        /\ arg[k] \in Mailboxes
    BY <1>4 DEF mailbox_deletion_thread, taskVars, TableInv, Pointers
  <2>3. \A q \in Pids : Get(q)' = NULL \/ Get(q)' = Get(q)
    BY <2>1
  <2>4. \A q \in Pids : Get(q)' # arg[k]
    BY <2>1, <2>2, Lookups, HashTableAssumption
  <2>5. \A l \in Kthreads : kpc'[l] = "unlinked" => \A q \in Pids : Get(q)' # arg'[l]
    <3>1. ASSUME NEW l \in Kthreads, l # k, kpc'[l] = "unlinked", NEW q \in Pids
          PROVE  Get(q)' # arg'[l]
      <4>1. kpc[l] = "unlinked" /\ arg'[l] = arg[l]
        BY <2>2, <3>1 DEF TableInv
      <4>2. arg[l] \in Mailboxes /\ Get(q) # arg[l]
        BY <4>1 DEF FreedInv, TableInv, Pointers
      <4> QED
        BY <4>1, <4>2, <2>3, HashTableAssumption
    <3> QED
      BY <3>1, <2>2, <2>4
  <2>6. \A m \in freed' : owner'[m] \in Pids /\ \A q \in Pids : Get(q)' # m
    BY <2>2, <2>3, HashTableAssumption DEF FreedInv, TableInv
  <2>7. \A u \in Tasks : pc'[u] = "in" => mailbox'[u] \notin freed'
    BY <2>2 DEF FreedInv
  <2> QED
    BY <2>5, <2>6, <2>7 DEF FreedInv
<1>5. ASSUME NEW k \in Kthreads, mailbox_destroy(k) PROVE FreedInv'
  <2>1. /\ kpc[k] = "unlinked"
        /\ dereferences[arg[k]] = 0
        /\ freed' = freed \cup {arg[k]}
        /\ kpc' = [kpc EXCEPT ![k] = "done"]
        /\ UNCHANGED <<mailbox_hash_table, owner, pc, mailbox, arg>>
    BY <1>5 DEF mailbox_destroy, taskVars
  <2>2. arg[k] \in Mailboxes /\ owner[arg[k]] \in Pids
    BY <2>1 DEF TableInv, Pointers
  <2>3. ClaimsOn(arg[k]) = {}
    <3>1. Cardinality(ClaimsOn(arg[k])) = 0
      BY <2>1, <2>2 DEF ClaimsCounted
    <3> QED
      BY <3>1, ClaimsFinite, FS_EmptySet
  <2>4. \A t \in Tasks : pc[t] = "in" => mailbox[t] # arg[k]
    BY <2>3 DEF ClaimsOn
  <2>5. \A q \in Pids : Get(q)' = Get(q)
    BY <2>1 DEF Get
  <2>6. \A l \in Kthreads : kpc'[l] = "unlinked" => kpc[l] = "unlinked"
    BY <2>1 DEF TableInv
  <2> QED
    BY <2>1, <2>2, <2>4, <2>5, <2>6 DEF FreedInv
<1> QED
  BY <1>1, <1>2, <1>3, <1>4, <1>5 DEF MNext, Lookup, Deleting

(* No task looks into a mailbox that has been given back to its cache, and *)
(* the table names none, however many tasks, processes and kthreads there  *)
(* are, and also when a mailbox's deletion is started twice.               *)
THEOREM ClaimsKeepMailboxesTheorem == MSpec => []ClaimsKeepMailboxes
<1>1. MInit => FreedInv
  BY DEF MInit, FreedInv
<1>2. TableInv /\ FreedInv => ClaimsKeepMailboxes
  <2> SUFFICES ASSUME TableInv, FreedInv PROVE ClaimsKeepMailboxes
    OBVIOUS
  <2>1. ASSUME NEW m \in Linked PROVE m \notin freed
    BY <2>1, LinkedIsFound DEF FreedInv
  <2> QED
    BY <2>1 DEF FreedInv, ClaimsKeepMailboxes
<1> QED
  BY <1>1, <1>2, FreedStep, TableInvariant, ManagerTypeTheorem, PTL DEF MSpec

-----------------------------------------------------------------------------
(* A kthread takes its own mailbox out of the table. *)

(* Every process has one thread, its leader. *)
SingleThreaded == \A t \in Tasks : tgid[t] = t

(* While an exit call or its kthread is at work the table keeps the        *)
(* mailbox it works on, as nobody else removes a mailbox of that pid: the  *)
(* process has one thread, and that one has made its only exit call.       *)
OwnInv ==
  /\ \A t \in Tasks : pc[t] = "removing" => Get(t) = mailbox[t]
  /\ \A k \in Kthreads : kpc[k] = "poll" => owner[arg[k]] \in Tasks
  /\ \A k \in Kthreads, p \in Tasks : kpc[k] = "poll" /\ owner[arg[k]] = p =>
        pc[p] \in {"exiting", "dead"} /\ Get(p) = arg[k]
  /\ \A k, l \in Kthreads :
        kpc[k] = "poll" /\ kpc[l] = "poll" /\ owner[arg[k]] = owner[arg[l]] => k = l

(* What a lookup finds is in the table. *)
LEMMA FoundIsLinked ==
  ASSUME NEW table, NEW own, WellFormed(table, own), NEW q \in Pids,
         __hashtable_get(table, own, q) # NULL
  PROVE  \E b \in Buckets : \E i \in DOMAIN table[b] : __hashtable_get(table, own, q) = table[b][i]
<1>1. hash_32[q] \in Buckets
  BY HashTableAssumption
<1>2. PICK i \in DOMAIN table[hash_32[q]] : own[table[hash_32[q]][i]] = q
  BY GetMisses
<1>3. __hashtable_get(table, own, q) = table[hash_32[q]][i]
  BY <1>2, GetFinds
<1> QED
  BY <1>1, <1>2, <1>3

(* A step of a task that lets every lookup and kthread be, and brings it   *)
(* no nearer to an exit than it says.                                      *)
LEMMA OwnQuiet ==
  ASSUME TableInv, OwnInv, NEW t \in Tasks, pc[t] \notin {"removing", "dead"},
         NEW x, pc' = [pc EXCEPT ![t] = x],
         x = "removing" => Get(t) = mailbox'[t],
         pc[t] = "exiting" => x = "dead",
         \A u \in Tasks \ {t} : mailbox'[u] = mailbox[u],
         \A q \in Pids : Get(q)' = Get(q),
         UNCHANGED <<owner, kpc, arg>>
  PROVE  OwnInv'
<1>1. pc'[t] = x /\ \A u \in Tasks \ {t} : pc'[u] = pc[u]
  BY DEF TableInv
<1>2. ASSUME NEW u \in Tasks, pc'[u] = "removing" PROVE Get(u)' = mailbox'[u]
  BY <1>1, <1>2, ManagerAssumption DEF OwnInv
<1>3. ASSUME NEW k \in Kthreads, NEW p \in Tasks, kpc[k] = "poll", owner[arg[k]] = p
      PROVE  pc'[p] \in {"exiting", "dead"} /\ Get(p)' = arg[k]
  <2>1. pc[p] \in {"exiting", "dead"} /\ Get(p) = arg[k]
    BY <1>3 DEF OwnInv
  <2> QED
    BY <1>1, <2>1, ManagerAssumption
<1> QED
  BY <1>2, <1>3 DEF OwnInv

LEMMA OwnStep ==
  ASSUME SingleThreaded, TableInv, OwnInv, [MNext]_mvars
  PROVE  OwnInv'
<1>1. CASE UNCHANGED mvars
  BY <1>1 DEF mvars, tableVars, taskVars, OwnInv, Get
<1>2. ASSUME NEW t \in Tasks, create_for_pid(t) PROVE OwnInv'
  <2>1. PICK m \in Mailboxes :
           owner[m] = NULL /\ owner' = [owner EXCEPT ![m] = dest[t]]
           /\ mailbox' = [mailbox EXCEPT ![t] = m]
    BY <1>2 DEF create_for_pid, mailbox_create
  <2>2. /\ pc[t] = "checked" /\ pc' = [pc EXCEPT ![t] = "in"] /\ Get(dest[t]) = NULL
        /\ UNCHANGED <<kpc, arg>>
    BY <1>2 DEF create_for_pid, step
  <2>3. \A q \in Pids : q # dest[t] => Get(q)' = Get(q)
    BY <1>2, CreateKeeps
  <2>4. ASSUME NEW u \in Tasks, pc'[u] = "removing" PROVE Get(u)' = mailbox'[u]
    <3>1. u # t /\ pc[u] = "removing" /\ mailbox'[u] = mailbox[u]
      BY <2>1, <2>2, <2>4 DEF TableInv
    <3>2. Get(u) = mailbox[u] /\ mailbox[u] \in Mailboxes
      BY <3>1 DEF OwnInv, TableInv, Pointers
    <3> QED
      BY <2>2, <2>3, <3>1, <3>2, ManagerAssumption, HashTableAssumption
  <2>5. ASSUME NEW k \in Kthreads, kpc[k] = "poll"
        PROVE  owner'[arg[k]] = owner[arg[k]] /\ owner[arg[k]] \in Tasks
    BY <2>1, <2>5, HashTableAssumption DEF OwnInv, TableInv, Pointers
  <2>6. ASSUME NEW k \in Kthreads, NEW p \in Tasks, kpc[k] = "poll", owner[arg[k]] = p
        PROVE  pc'[p] \in {"exiting", "dead"} /\ Get(p)' = arg[k]
    <3>1. pc[p] \in {"exiting", "dead"} /\ Get(p) = arg[k] /\ arg[k] \in Mailboxes
      BY <2>6 DEF OwnInv, TableInv, Pointers
    <3>2. pc'[p] = pc[p]
      BY <2>2, <3>1 DEF TableInv
    <3>3. Get(p)' = Get(p)
      BY <2>2, <2>3, <3>1, ManagerAssumption, HashTableAssumption
    <3> QED
      BY <3>1, <3>2, <3>3
  <2>7. \A k, l \in Kthreads :
           kpc[k] = "poll" /\ kpc[l] = "poll" /\ owner'[arg[k]] = owner'[arg[l]] => k = l
    BY <2>5 DEF OwnInv
  <2> QED
    BY <2>2, <2>4, <2>5, <2>6, <2>7 DEF OwnInv
<1>3. ASSUME NEW t \in Tasks,
             \/ \E p \in Pids : check_process(t, p)
             \/ create_fails(t) \/ find_for_pid(t) \/ unclaim_mailbox(t) \/ do_exit(t)
             \/ remove_mailbox_for_pid(t) \/ killed(t)
      PROVE  OwnInv'
  <2>1. UNCHANGED <<mailbox_hash_table, owner>>
    BY <1>3, QuietStepsKeep DEF Leaving
  <2>2. \A q \in Pids : Get(q)' = Get(q)
    BY <2>1 DEF Get
  <2>3. CASE remove_mailbox_for_pid(t)
    <3>1. pc[t] = "user" /\ UNCHANGED <<kpc, arg>>
      BY <2>3 DEF remove_mailbox_for_pid
    <3>2. CASE Get(tgid[t]) = NULL
      <4>1. pc' = [pc EXCEPT ![t] = "exiting"] /\ UNCHANGED mailbox
        BY <2>3, <3>2 DEF remove_mailbox_for_pid, step
      <4> QED
        BY <2>1, <2>2, <3>1, <4>1, OwnQuiet
    <3>3. CASE Get(tgid[t]) # NULL
      <4>1. /\ pc' = [pc EXCEPT ![t] = "removing"]
            /\ mailbox' = [mailbox EXCEPT ![t] = Get(tgid[t])]
        BY <2>3, <3>3 DEF remove_mailbox_for_pid, step
      <4>2. mailbox'[t] = Get(t) /\ \A u \in Tasks \ {t} : mailbox'[u] = mailbox[u]
        BY <4>1 DEF SingleThreaded, TableInv
      <4> QED
        BY <2>1, <2>2, <3>1, <4>1, <4>2, OwnQuiet
    <3> QED
      BY <3>2, <3>3
  <2>4. CASE ~remove_mailbox_for_pid(t)
    <3>1. PICK x \in {"user", "checked", "in", "dead"} : pc' = [pc EXCEPT ![t] = x]
      BY <1>3, <2>4 DEF check_process, create_fails, find_for_pid, unclaim_mailbox, do_exit,
                        killed, step
    <3>2. /\ pc[t] \in {"user", "checked", "in", "exiting"}
          /\ pc[t] = "exiting" => pc' = [pc EXCEPT ![t] = "dead"]
      BY <1>3, <2>4 DEF check_process, create_fails, find_for_pid, unclaim_mailbox, do_exit,
                        killed, step
    <3>3. UNCHANGED <<kpc, arg>> /\ \A u \in Tasks \ {t} : mailbox'[u] = mailbox[u]
      BY <1>3, <2>4 DEF check_process, create_fails, find_for_pid, unclaim_mailbox, do_exit,
                        killed, TableInv
    <3>4. pc[t] = "exiting" => x = "dead"
      BY <3>1, <3>2 DEF TableInv
    <3> QED
      BY <2>1, <2>2, <3>1, <3>2, <3>3, <3>4, OwnQuiet
  <2> QED
    BY <2>3, <2>4
<1>4. ASSUME NEW t \in Tasks, kthread_run(t) PROVE OwnInv'
  <2>1. /\ pc[t] = "removing" /\ pc' = [pc EXCEPT ![t] = "exiting"]
        /\ mailbox' = [mailbox EXCEPT ![t] = NULL]
        /\ UNCHANGED <<mailbox_hash_table, owner>>
    BY <1>4 DEF kthread_run, step, tableVars
  <2>2. pc'[t] = "exiting" /\ \A u \in Tasks \ {t} : pc'[u] = pc[u] /\ mailbox'[u] = mailbox[u]
    BY <2>1 DEF TableInv
  <2>3. \A q \in Pids : Get(q)' = Get(q)
    BY <2>1 DEF Get
  <2>4. Get(t) = mailbox[t] /\ mailbox[t] \in Mailboxes /\ owner[mailbox[t]] = t
    BY <2>1, Lookups, ManagerAssumption, HashTableAssumption DEF OwnInv, TableInv, Pointers
  <2>5. \A u \in Tasks : pc'[u] = "removing" => Get(u)' = mailbox'[u]
    BY <2>2, <2>3, ManagerAssumption DEF OwnInv
  <2>6. \A k \in Kthreads : kpc[k] = "poll" => owner[arg[k]] \in Tasks \ {t}
    BY <2>1 DEF OwnInv
  <2>7. \A k \in Kthreads, p \in Tasks : kpc[k] = "poll" /\ owner[arg[k]] = p =>
            pc'[p] \in {"exiting", "dead"} /\ Get(p)' = arg[k]
    BY <2>2, <2>3, <2>6, ManagerAssumption DEF OwnInv
  <2>8. CASE UNCHANGED <<kpc, arg>>
    BY <2>1, <2>5, <2>6, <2>7, <2>8 DEF OwnInv
  <2>9. CASE \E k \in Kthreads : /\ kpc[k] = "none" /\ kpc' = [kpc EXCEPT ![k] = "poll"]
                                 /\ arg' = [arg EXCEPT ![k] = mailbox[t]]
    <3>1. PICK k \in Kthreads : /\ kpc[k] = "none" /\ kpc' = [kpc EXCEPT ![k] = "poll"]
                                /\ arg' = [arg EXCEPT ![k] = mailbox[t]]
      BY <2>9
    <3>2. /\ arg'[k] = mailbox[t]
          /\ \A l \in Kthreads \ {k} : kpc'[l] = kpc[l] /\ arg'[l] = arg[l]
      BY <3>1 DEF TableInv
    <3>3. \A l \in Kthreads : kpc'[l] = "poll" =>
             owner[arg'[l]] \in Tasks /\ (owner[arg'[l]] = t <=> l = k)
      BY <2>4, <2>6, <3>2
    <3>4. ASSUME NEW l \in Kthreads, NEW p \in Tasks, kpc'[l] = "poll", owner[arg'[l]] = p
           PROVE  pc'[p] \in {"exiting", "dead"} /\ Get(p)' = arg'[l]
      <4>1. CASE l = k
        BY <2>2, <2>3, <2>4, <3>2, <3>4, <4>1, ManagerAssumption
      <4>2. CASE l # k
        BY <2>7, <3>2, <3>4, <4>2
      <4> QED
        BY <4>1, <4>2
    <3>5. \A l, j \in Kthreads :
             kpc'[l] = "poll" /\ kpc'[j] = "poll" /\ owner[arg'[l]] = owner[arg'[j]] => l = j
      BY <2>4, <3>2, <3>3 DEF OwnInv
    <3> QED
      BY <2>1, <2>5, <3>3, <3>4, <3>5 DEF OwnInv
  <2> QED
    BY <1>4, <2>8, <2>9 DEF kthread_run
<1>5. ASSUME NEW k \in Kthreads, mailbox_deletion_thread(k) PROVE OwnInv'
  <2>1. /\ kpc[k] = "poll" /\ kpc' = [kpc EXCEPT ![k] = "unlinked"]
        /\ UNCHANGED <<owner, pc, mailbox, arg>>
    BY <1>5 DEF mailbox_deletion_thread, taskVars
  <2>2. \A q \in Pids : q # owner[arg[k]] => Get(q)' = Get(q)
    BY <1>5, DeletionKeeps
  <2>3. \A l \in Kthreads : kpc'[l] = "poll" => l # k /\ kpc[l] = "poll"
    BY <2>1 DEF TableInv
  <2>4. \A t \in Tasks : pc[t] = "removing" => t # owner[arg[k]]
    BY <2>1 DEF OwnInv
  <2>5. \A l \in Kthreads : kpc'[l] = "poll" =>
           owner[arg[l]] \in Tasks /\ owner[arg[l]] # owner[arg[k]]
    BY <2>1, <2>3 DEF OwnInv
  <2> QED
    BY <2>1, <2>2, <2>3, <2>4, <2>5, ManagerAssumption DEF OwnInv
<1>6. ASSUME NEW k \in Kthreads, mailbox_destroy(k) PROVE OwnInv'
  <2>1. /\ kpc' = [kpc EXCEPT ![k] = "done"]
        /\ UNCHANGED <<mailbox_hash_table, owner, pc, mailbox, arg>>
    BY <1>6 DEF mailbox_destroy, taskVars
  <2>2. \A q \in Pids : Get(q)' = Get(q)
    BY <2>1 DEF Get
  <2>3. \A l \in Kthreads : kpc'[l] = "poll" => kpc[l] = "poll"
    BY <2>1 DEF TableInv
  <2> QED
    BY <2>1, <2>2, <2>3, ManagerAssumption DEF OwnInv
<1> QED
  BY <1>1, <1>2, <1>3, <1>4, <1>5, <1>6 DEF MNext, Lookup, Leaving, Deleting

(* mailbox_deletion_thread removes by pid, after a lock-free interval in   *)
(* which a late sender may make mailboxes.  If every process has one       *)
(* thread it removes the mailbox it was started for and no other.          *)
THEOREM DeletionTakesItsOwnTheorem ==
  ASSUME SingleThreaded
  PROVE  MSpec => DeletionTakesItsOwn
<1>1. MInit => OwnInv
  BY DEF MInit, OwnInv
<1>2. TableInv /\ OwnInv /\ [MNext]_mvars =>
        [\A k \in Kthreads : kpc[k] = "poll" /\ kpc'[k] = "unlinked"
            => Linked \ Linked' \subseteq {arg[k]}]_mvars
  <2> SUFFICES ASSUME TableInv, OwnInv, [MNext]_mvars,
                      NEW k \in Kthreads, kpc[k] = "poll", kpc'[k] = "unlinked"
               PROVE  Linked \ Linked' \subseteq {arg[k]}
    OBVIOUS
  <2>1. mailbox_deletion_thread(k)
    <3>1. ASSUME NEW l \in Kthreads, Deleting(l) PROVE mailbox_deletion_thread(k)
      BY <3>1 DEF Deleting, mailbox_deletion_thread, mailbox_destroy, TableInv
    <3>2. ASSUME NEW t \in Tasks, kthread_run(t) PROVE FALSE
      BY <3>2 DEF kthread_run, TableInv
    <3>3. kpc' # kpc
      OBVIOUS
    <3> QED
      BY <3>1, <3>2, <3>3 DEF MNext, mvars, Lookup, Leaving, check_process, create_for_pid,
         create_fails, find_for_pid, unclaim_mailbox, do_exit, remove_mailbox_for_pid, killed
  <2>2. /\ TableInv' /\ Get(owner[arg[k]]) = arg[k]
        /\ \A q \in Pids : q # owner[arg[k]] => Get(q)' = Get(q)
    BY <2>1, DeletionKeeps DEF OwnInv
  <2>3. ASSUME NEW m \in Linked, m # arg[k] PROVE m \in Linked'
    <3>1. PICK q \in Pids : Get(q) = m /\ m \in Mailboxes
      BY <2>3, LinkedIsFound
    <3>2. Get(q)' = m /\ Get(q)' # NULL
      BY <2>2, <2>3, <3>1, HashTableAssumption
    <3>3. \E b \in Buckets : \E i \in DOMAIN mailbox_hash_table'[b] : m = mailbox_hash_table'[b][i]
      BY <2>2, <3>2, FoundIsLinked DEF Get, TableInv
    <3> QED
      BY <3>3 DEF Linked
  <2> QED
    BY <2>3
<1> QED
  BY <1>1, <1>2, OwnStep, TableInvariant, PTL DEF MSpec, DeletionTakesItsOwn
=============================================================================
