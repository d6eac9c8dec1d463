--------------------------- MODULE MailboxManager ----------------------------
(***************************************************************************)
(* mailbox_manager.c for several processes: the table of mailboxes, claims *)
(* on them, and their deletion after an exit call.  What happens inside a  *)
(* claimed mailbox is Mailbox.tla's subject and is left out: a task that   *)
(* got a mailbox keeps it for a while and gives it back.                   *)
(*                                                                         *)
(* Granularity: a section under mailbox_hash_table_lock is one step; the   *)
(* validity test before it and kthread_run after it are steps of their own.*)
(***************************************************************************)
EXTENDS HashTable, FiniteSets

CONSTANTS
  Tasks,         \* threads, named by the pid of their task_struct
  tgid,          \* the process of each task, named by its leader's pid
  Kthreads,      \* deletion kthreads that may be started
  Faults         \* what the environment may do: "kill", "kthread", "memory"

ASSUME ManagerAssumption ==
  /\ IsFiniteSet(Tasks)
  /\ Tasks \subseteq Pids
  /\ tgid \in [Tasks -> Tasks]
  /\ \A t \in Tasks : tgid[tgid[t]] = tgid[t]

VARIABLES
  mailbox_hash_table,
  owner,         \* the pid in each Mailbox; NULL before it is created
  exiting,       \* mailboxes with the EXITING flag
  dereferences,  \* claims on each mailbox
  freed,         \* mailboxes given back to mailbox_cache
  pc,            \* where each task is
  dest,          \* the pid each task is looking up
  mailbox,       \* the pointer each task holds
  kpc,           \* where each deletion kthread is
  arg            \* its argument

tableVars == <<mailbox_hash_table, owner, exiting, dereferences, freed>>
taskVars  == <<pc, dest, mailbox>>
mvars     == <<tableVars, taskVars, kpc, arg>>

Get(p) == __hashtable_get(mailbox_hash_table, owner, p)

MInit ==
  /\ mailbox_hash_table = mailbox_manager_init
  /\ owner = [m \in Mailboxes |-> NULL]
  /\ exiting = {}
  /\ dereferences = [m \in Mailboxes |-> 0]
  /\ freed = {}
  /\ pc = [t \in Tasks |-> "user"]
  /\ dest = [t \in Tasks |-> t]
  /\ mailbox = [t \in Tasks |-> NULL]
  /\ kpc = [k \in Kthreads |-> "none"]
  /\ arg = [k \in Kthreads |-> NULL]

step(t, where) == pc' = [pc EXCEPT ![t] = where]

(* No such task, or it is dead or flagged PF_EXITING.  A task that is not  *)
(* a process's leader is valid too.                                        *)
is_process_valid(p) == p \in Tasks /\ pc[p] # "dead"

(* get_mailbox_for_pid up to the lock: a receive or manage asks for the    *)
(* caller's tgid, a send for any pid.  MAILBOX_INVALID leaves no trace.    *)
check_process(t, p) ==
  /\ pc[t] = "user"
  /\ is_process_valid(p)
  /\ step(t, "checked")
  /\ dest' = [dest EXCEPT ![t] = p]
  /\ UNCHANGED <<tableVars, mailbox, kpc, arg>>

claim_mailbox(m) == dereferences' = [dereferences EXCEPT ![m] = @ + 1]

(* A Mailbox from mailbox_cache (external: a slab object not in use). *)
mailbox_create(p, m) ==
  /\ owner[m] = NULL
  /\ owner' = [owner EXCEPT ![m] = p]

(* The lock's section when the table has no mailbox for the pid. *)
create_for_pid(t) ==
  /\ pc[t] = "checked"
  /\ Get(dest[t]) = NULL
  /\ \E m \in Mailboxes :
        /\ mailbox_create(dest[t], m)
        /\ mailbox_hash_table' = __hashtable_put(mailbox_hash_table, owner', dest[t], m)
        /\ claim_mailbox(m)
        /\ mailbox' = [mailbox EXCEPT ![t] = m]
  /\ step(t, "in")
  /\ UNCHANGED <<exiting, freed, dest, kpc, arg>>

(* The same when mailbox_create fails. *)
create_fails(t) ==
  /\ pc[t] = "checked"
  /\ "memory" \in Faults
  /\ Get(dest[t]) = NULL
  /\ step(t, "user")
  /\ UNCHANGED <<tableVars, dest, mailbox, kpc, arg>>

(* The same when there is one: claimed, and unclaimed again if EXITING. *)
find_for_pid_without_claim(t) ==
  /\ pc[t] = "checked"
  /\ Get(dest[t]) # NULL
  /\ IF Get(dest[t]) \in exiting
     THEN step(t, "user") /\ UNCHANGED mailbox
     ELSE step(t, "in") /\ mailbox' = [mailbox EXCEPT ![t] = Get(dest[t])]
  /\ UNCHANGED <<tableVars, dest, kpc, arg>>
find_for_pid_keeps_claim(t) ==
  /\ pc[t] = "checked"
  /\ Get(dest[t]) # NULL
  /\ claim_mailbox(Get(dest[t]))
  /\ IF Get(dest[t]) \in exiting
     THEN step(t, "user") /\ UNCHANGED mailbox
     ELSE step(t, "in") /\ mailbox' = [mailbox EXCEPT ![t] = Get(dest[t])]
  /\ UNCHANGED <<mailbox_hash_table, owner, exiting, freed, dest, kpc, arg>>
find_for_pid(t) ==
  /\ pc[t] = "checked"
  /\ Get(dest[t]) # NULL
  /\ IF Get(dest[t]) \in exiting
     THEN step(t, "user") /\ UNCHANGED <<mailbox, dereferences>>
     ELSE /\ step(t, "in")
          /\ mailbox' = [mailbox EXCEPT ![t] = Get(dest[t])]
          /\ claim_mailbox(Get(dest[t]))
  /\ UNCHANGED <<mailbox_hash_table, owner, exiting, freed, dest, kpc, arg>>

unclaim_mailbox(t) ==
  /\ pc[t] = "in"
  /\ dereferences' = [dereferences EXCEPT ![mailbox[t]] = @ - 1]
  /\ mailbox' = [mailbox EXCEPT ![t] = NULL]
  /\ step(t, "user")
  /\ UNCHANGED <<mailbox_hash_table, owner, exiting, freed, dest, kpc, arg>>

-----------------------------------------------------------------------------
(* Exit and deletion *)

(* The locked section of remove_mailbox_for_pid(current->tgid). *)
remove_mailbox_for_pid(t) ==
  /\ pc[t] = "user"
  /\ LET m == Get(tgid[t])
     IN  IF m = NULL
         THEN step(t, "exiting") /\ UNCHANGED <<exiting, mailbox>>
         ELSE /\ exiting' = exiting \cup {m}
              /\ mailbox' = [mailbox EXCEPT ![t] = m]
              /\ step(t, "removing")
  /\ UNCHANGED <<mailbox_hash_table, owner, dereferences, freed, dest, kpc, arg>>

(* kthread_run after the unlock; its failure is not looked at. *)
kthread_run(t) ==
  /\ pc[t] = "removing"
  /\ step(t, "exiting")
  /\ mailbox' = [mailbox EXCEPT ![t] = NULL]
  /\ \/ \E k \in Kthreads :
           /\ kpc[k] = "none"
           /\ kpc' = [kpc EXCEPT ![k] = "poll"]
           /\ arg' = [arg EXCEPT ![k] = mailbox[t]]
     \/ /\ "kthread" \in Faults
        /\ UNCHANGED <<kpc, arg>>
  /\ UNCHANGED <<tableVars, dest>>

(* The kernel's exit (external): the end of the exit call. *)
do_exit(t) ==
  /\ pc[t] = "exiting"
  /\ step(t, "dead")
  /\ UNCHANGED <<tableVars, dest, mailbox, kpc, arg>>

(* A fatal signal ends a task outside any call, with no exit call. *)
killed(t) ==
  /\ "kill" \in Faults
  /\ pc[t] = "user"
  /\ step(t, "dead")
  /\ UNCHANGED <<tableVars, dest, mailbox, kpc, arg>>

(* The kthread, once its process is invalid: out of the table by pid. *)
deletion_thread_unlinks_first(k) ==
  /\ kpc[k] = "poll"
  /\ ~is_process_valid(owner[arg[k]])
  /\ mailbox_hash_table' = hashtable_remove_first(mailbox_hash_table, owner, owner[arg[k]])
  /\ kpc' = [kpc EXCEPT ![k] = "unlinked"]
  /\ UNCHANGED <<owner, exiting, dereferences, freed, taskVars, arg>>
mailbox_deletion_thread(k) ==
  /\ kpc[k] = "poll"
  /\ ~is_process_valid(owner[arg[k]])
  /\ mailbox_hash_table' = __hashtable_remove(mailbox_hash_table, owner, owner[arg[k]])
  /\ kpc' = [kpc EXCEPT ![k] = "unlinked"]
  /\ UNCHANGED <<owner, exiting, dereferences, freed, taskVars, arg>>

(* mailbox_destroy: mailbox_exiting, and kmem_cache_free when nobody has   *)
(* a claim left (Mailbox.tla has the steps in between).                    *)
mailbox_destroy_unconditionally(k) ==
  /\ kpc[k] = "unlinked"
  /\ exiting' = exiting \cup {arg[k]}
  /\ freed' = freed \cup {arg[k]}
  /\ kpc' = [kpc EXCEPT ![k] = "done"]
  /\ UNCHANGED <<mailbox_hash_table, owner, dereferences, taskVars, arg>>
mailbox_destroy(k) ==
  /\ kpc[k] = "unlinked"
  /\ dereferences[arg[k]] = 0
  /\ exiting' = exiting \cup {arg[k]}
  /\ freed' = freed \cup {arg[k]}
  /\ kpc' = [kpc EXCEPT ![k] = "done"]
  /\ UNCHANGED <<mailbox_hash_table, owner, dereferences, taskVars, arg>>

-----------------------------------------------------------------------------
Lookup(t) == create_for_pid(t) \/ create_fails(t) \/ find_for_pid(t)
Leaving(t) == unclaim_mailbox(t) \/ kthread_run(t) \/ do_exit(t)
Deleting(k) == mailbox_deletion_thread(k) \/ mailbox_destroy(k)

MNext ==
  \/ \E t \in Tasks :
        \/ \E p \in Pids : check_process(t, p)
        \/ Lookup(t)
        \/ Leaving(t)
        \/ remove_mailbox_for_pid(t)
        \/ killed(t)
  \/ \E k \in Kthreads : Deleting(k)

MSpec == MInit /\ [][MNext]_mvars

(* A task that has entered the manager goes on, and so does a kthread.     *)
MFairSpec ==
  /\ MSpec
  /\ \A t \in Tasks : WF_mvars(Lookup(t) \/ Leaving(t))
  /\ \A k \in Kthreads : WF_mvars(Deleting(k))

-----------------------------------------------------------------------------
(* Properties *)

Linked == UNION {{mailbox_hash_table[b][i] : i \in DOMAIN mailbox_hash_table[b]} : b \in Buckets}

(* The types. *)
MTypeOK ==
  /\ mailbox_hash_table \in [Buckets -> Seq(Mailboxes)]
  /\ owner \in [Mailboxes -> Pids \cup {NULL}]
  /\ exiting \subseteq Mailboxes
  /\ dereferences \in [Mailboxes -> Nat]
  /\ freed \subseteq Mailboxes
  /\ pc \in [Tasks -> {"user", "checked", "in", "removing", "exiting", "dead"}]
  /\ dest \in [Tasks -> Pids]
  /\ mailbox \in [Tasks -> Mailboxes \cup {NULL}]
  /\ kpc \in [Kthreads -> {"none", "poll", "unlinked", "done"}]
  /\ arg \in [Kthreads -> Mailboxes \cup {NULL}]

(* The buckets are well formed: a mailbox is in its owner's bucket, and no *)
(* pid has two, whatever races with whatever: get_mailbox_for_pid looks    *)
(* and creates under one lock.                                             *)
OneMailboxPerPid ==
  \A b \in Buckets : \A i \in DOMAIN mailbox_hash_table[b] :
     /\ owner[mailbox_hash_table[b][i]] \in Pids
     /\ mailbox_hash(owner[mailbox_hash_table[b][i]]) = b
     /\ \A j \in DOMAIN mailbox_hash_table[b] :
           owner[mailbox_hash_table[b][i]] = owner[mailbox_hash_table[b][j]] => i = j

(* The table is the dictionary it should be: nothing done for one pid, in  *)
(* a bucket it shares with others, disturbs their mailboxes.               *)
Table == INSTANCE MailboxTable WITH entry <- [p \in Pids |-> Get(p)]
ImplementsTable == Table!TSpec

(* No task looks into a mailbox that has been freed, and no mailbox that   *)
(* has been freed is still to be found.                                    *)
ClaimsKeepMailboxes ==
  /\ \A t \in Tasks : pc[t] = "in" => mailbox[t] \notin freed
  /\ Linked \cap freed = {}

(* A mailbox an exit call has marked is freed in the end. *)
MarkedIsFreed == \A m \in Mailboxes : m \in exiting ~> m \in freed

(* A deletion that was started ends with its mailbox freed, whatever was   *)
(* done to the table and whoever still held the mailbox meanwhile.         *)
DeletionEnds == \A k \in Kthreads : kpc[k] # "none" ~> arg[k] \in freed

(* A process that has made its exit call has no mailbox in the end. *)
ExitedHasNoMailbox == \A t \in Tasks : pc[t] = "dead" ~> Get(t) = NULL

(* A kthread takes only the mailbox it is going to destroy out of the      *)
(* table.                                                                  *)
DeletionTakesItsOwn ==
  [][\A k \in Kthreads : kpc[k] = "poll" /\ kpc'[k] = "unlinked"
        => Linked \ Linked' \subseteq {arg[k]}]_mvars
=============================================================================
