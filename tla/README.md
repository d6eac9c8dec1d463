# Kernel message passing: a TLA+ verification project

The repository holds a loadable Linux kernel module (`src/Message_LKM`) that
gives every process a *mailbox*: three system calls send to a process, receive
from one's own mailbox and manage it, and the two exit calls are intercepted to
delete it. Beside it the repository keeps user libraries for the calls and several
families of test programs, which are small concurrent systems themselves. This
project models the module and those programs in TLA+, model-checks them with TLC
on small instances, and proves the safety properties of the module, of the pid list
and of most programs with TLAPS for instances of any size.

The directories of the programs are abbreviated: *aFoltan* is
`src/Project4AdditionalTests/aFoltan/project4`, *MikeSanchez* is
`src/Project4AdditionalTests/MikeSanchez`, *samples* is `src/Project4_SampleTests`.

## 1. The system

### Components

| Component | Source | State | Operations |
|---|---|---|---|
| mailbox | `mailbox.c`, `mailbox.h` | list of messages, `message_count`, flags `stopped` (STOPPED, EXITING), `waiting`, wait queue `modify_queue` with its lock | `mailbox_create`, `mailbox_add_message`, `mailbox_remove_message`, `mailbox_stop`, `mailbox_exiting`, `mailbox_destroy` |
| mailbox manager | `mailbox_manager.c` | chained hash table pid -> mailbox with its lock, per mailbox `dereferences` and `dereference_queue` | `get_mailbox_for_pid`, `claim_mailbox`, `unclaim_mailbox`, `remove_mailbox_for_pid`, `mailbox_deletion_thread`, `wait_until_mailbox_unclaimed`, `is_process_valid` |
| messages | `message.c` | the slab `message_cache` | `message_create`, `message_destroy` |
| system calls | `module.c` | the callers' local variables | `__send_message`, `__recieve_message`, `__manage_mailbox`, `__new_sys_exit`, `__new_sys_exit_group` |
| module loading | `module.c` | the system call table and its saved entries, each CPU's write protection, the slab caches | `find_sys_call_table`, `interceptor_start`, `interceptor_end` |
| user library | `mailbox.c` of aFoltan, MikeSanchez, samples | `errno` | `SendMsg`, `RcvMsg`, `ManageMailbox` |
| pid list | aFoltan `pidlist.c` | two linked lists of nodes in shared memory, with a semaphore | `pidlist_init`, `pidlist_add_pid`, `pidlist_remove_pid`, `pidlist_get_random`, `pidlist_get_count`, `pidlist_get_first` |
| mailbox storms | aFoltan `test6.c`, `test7.c`, `test8.c` | processes and threads, the pid list, a semaphore for printing | `new_process`, `do_mailbox_test`, `do_stopper_processing`, the parents' loops |
| scripted tests | aFoltan `test1.c`-`test5.c`, `test9.c`; samples and MikeSanchez `testmailbox1-7.c` | what each process or thread has still to do, the last code, count and sender | the functions of the tests |
| gossip test | MikeSanchez `mailboxTest.c` | a tree of processes with threads, each with a list of the pids it knows | `spawnProcs`, `addKnown`, `removeKnown`, `doMailbox` |

### How they interact

A system call looks the mailbox up under the table's lock, which *claims* it
(`dereferences++`), works on it under `modify_queue.lock`, and releases the claim.
A send to a full mailbox and a receive from an empty one may block: senders and
receivers sleep, exclusively, on the one queue `modify_queue`, and every change
wakes **one** of them. Stopping the mailbox wakes one too; each caller that leaves
its wait wakes the next.

An exit call marks the mailbox EXITING and starts a kernel thread. The kthread
polls until the process is invalid, takes the mailbox out of the table, marks it
EXITING again, sleeps on `modify_queue` (not exclusively) until nobody waits,
destroys the messages, sleeps on `dereference_queue` until nobody holds a claim,
and frees the object.

### What is hard here

* One wake-one queue for waiters with different conditions, plus the destroyer.
* Counters (`message_count`, `waiting`, `dereferences`) that must agree with what
  they count on every way out of a call: early return, signal, stop, success.
* A pointer that outlives the table's lock while its object is being deleted.
* The put-back of a message whose copy to the user failed, after the world changed.
* Exits of several threads at once, and death by a signal, which makes no exit call.
* A table searched by pid, while mailboxes of one pid succeed each other.
* Loading and unloading under running calls, with a per-CPU register in the way.
* Programs with semaphores in shared memory, processes that end at any time, and
  codes that depend on where the peer's threads are.

`PROJECT.json` lists each hazard at its line with the property that is about it.

### What makes each component correct

* mailbox: it is a bounded FIFO queue that can be closed and then only drains; no
  wake-up is lost; a stop reaches everybody; it is flushed only when nobody waits.
  (The code falls short of the second; section 3 says where it keeps it.)
* manager: an object is freed only when it is out of the table and nobody has its
  pointer; a deletion that was started ends; one mailbox per process.
* messages: a Message is in one place, and allocated while it is there.
* system calls: the block argument is obeyed, nothing is lost on an error path,
  the last exit deletes the mailbox.
* module loading: the table is written only with the protection off, a call that
  reaches the module finds what it needs, and unloading gives the table back. (The
  code falls short of the first two; section 3 says when.)
* pid list: both lists are sound, no node is lost, and the list is a set of pids.
* programs: they meet only codes they expect, no semaphore is lost with its holder,
  and everybody comes to an end.

## 2. Modules

| Module | What it is |
|---|---|
| `WaitQueue` | the kernel's wait queues (external), as operators on a record |
| `BoundedFifo` | the abstract specification: what a mailbox promises its callers |
| `Mailbox` | one Mailbox object with the manager's functions on it; callers are as general as the interface allows |
| `Syscalls` | extends `Mailbox`: the callers are the system calls of `module.c`, with `message.c` and thread exit |
| `SendOrder` | `Syscalls` with history variables: which Messages have been on the list, and which of them first |
| `HashTable` | the chained table of `mailbox_manager.c`, as operators on a function from buckets to sequences |
| `MailboxTable` | the abstract specification: a dictionary from pids to mailboxes |
| `MailboxManager` | `mailbox_manager.c` for several processes and objects; implements `MailboxTable` |
| `Interceptor` | loading and unloading of the module |
| `MailboxService` | the facility as programs see it: one step per call, for many processes |
| `UserLibrary` | extends `MailboxService`: what the three libraries make of a system call's code |
| `PidList`, `PidSet` | `pidlist.c` with its pointers, and the ordered set it implements |
| `Storm` | extends `UserLibrary`: test6, test7 and test8 |
| `Scripts` | extends `UserLibrary`: the scripted tests, as sequences of instructions, and their interpretation |
| `Gossip` | extends `UserLibrary`: `mailboxTest.c` |
| `MC...` | instances for TLC |
| `MailboxProofs` | lemmas about wait queues of any length, the inductive invariant of `Mailbox`, the safety theorems, and that it implements `BoundedFifo` |
| `MailboxManagerProofs` | the safety theorems of `MailboxManager`, and that it implements `MailboxTable` |
| `SyscallsProofs` | `Syscalls` implements `Mailbox`; its safety theorems; one receiver's mailbox is FIFO also through put-backs (`SendOrder`) |
| `InterceptorProofs` | the safety theorems of `Interceptor` |
| `StormProofs` | the safety theorems of `Storm` |
| `PidListProofs` | the lists of `PidList` are sound, and implement `PidSet` |
| `GossipProofs` | the safety theorems of `Gossip` |
| `ScriptsProofs` | the types of `Scripts`, and of the scripts themselves |

### State and actions

The variables of `Mailbox` carry the names of the C fields. `linked` says that the
object is in the manager's table, `freed` that `kmem_cache_free` has been called.
`pc`, `hand`, `ret` are a task's place, the `Message *` it passed or was given, and
its last result; `signalled` are the tasks with a signal pending; `dpc` is the place
of each deletion kthread. `Syscalls` adds `call` and `block` (the place in `module.c`
and the argument), `slab` (allocated Messages) and `group_exit`.

A section under one lock is one step. A blocking function is two actions: from the
call to the `schedule()` inside `wait_event_interruptible_exclusive_locked_irq`
(`mailbox_add_message`, `mailbox_remove_message`) and from the lock's
re-acquisition to the return (`add_message_resume`, `remove_message_resume`), which
may go back to sleep. `mailbox_destroy` is `mailbox_destroy`, `mailbox_flush` and
`wait_until_mailbox_unclaimed`; the kthread's polling loop is the guard of
`deletion_thread_unlink`. `get_mailbox_for_pid` is `check_process` (the validity
test made without a lock) and `get_mailbox_for_pid` (under the table's lock). Code
between two locked sections touches the task's own variables or a Message nobody
else can reach, and is joined to the section next to it.

The wait queue models what the kernel does with an entry: `autoremove_wake_function`
unlinks what it wakes, a task that a signal made runnable keeps its place and is
passed over by wake-ups, a task that finds its condition false goes to the tail.

Data that carries no control is left out: contents, length and sender of a Message
(a bad length is one of the ways `message_create` fails), `printk`, return codes that
only differ in their number.

`MailboxManager` looks at the same functions with many objects: `owner` is the field
of each Mailbox, `mailbox_hash_table` the chains, `pc`, `dest` and `mailbox` a task's
place, the pid it asks for and the pointer it holds, `kpc` and `arg` the deletion
kthreads. What a task does with a mailbox it has claimed is `Mailbox`'s subject and
is left out here. A section under `mailbox_hash_table_lock` is one step; the
validity test before it and `kthread_run` after it are steps of their own, and each
can fail where the code can (`Faults`). A Mailbox is not reused after it is freed, so
`Mailboxes` bounds how many are made.

`BoundedFifo` says which end an item enters at: a new one the tail, one that the caller
has in its hands already the head, and `place` remembers the end while a caller waits for
room. A caller of `Mailbox` may put back a message whose own send was refused, which
`module.c` never does; the two agree on it all the same, since both go by the hands.

`Interceptor` writes the five table entries one step each (`slot`); `protected` is
the write-protect bit of each CPU's cr0 and `cpu` where insmod or rmmod runs.
`kmem_cache_create` may return NULL for either cache and nobody looks: `message_init` and
`mailbox_init` are the sets of what they may leave behind, `refused` the caches that were
not made, `crashed` the callers that used a cache that was not there.

`MailboxService` is the meeting point of the kernel and the programs. `life` tells
the stages apart in which a call meets a process differently: running, leaderless
(the main thread ended first), exiting, dead. It is the abstract view that
`BoundedFifo` and `RefinementTheorem` justify for one mailbox; what the lookup adds
is modelled from `get_mailbox_for_pid`. The first call on a process makes its mailbox
(`made`) and a send makes a Message. Either allocation may fail, at most `MaxFailures`
times in a behaviour (`failures`), and the call then returns MAILBOX_ERROR.

`UserLibrary` has what the libraries make of a code. `Message_LKM` returns positive codes,
which `syscall()` hands through as they are. The sample and MikeSanchez's libraries return
them. aFoltan's library is written for a kernel that negates them: when the result is not
0 it returns `errno` (`mailbox.c:45-46, 76-77, 109-110`), which over `Message_LKM` no call
has set. `Storm` and `Scripts` run aFoltan's programs on both kernels (`Kernels`, variable
`negative`): FALSE is the kernel in the repository, where every code reads as success;
TRUE is one that returns the codes the library's own header names, negated, and shows what
the programs do when codes get through. `errno` is taken to be 0 where no call of the
facility has set it; another library call of the program could leave something else there.

In `Storm` a thread's `pc` names where it is in its loop; both semaphores have a
holder, and a holder that dies with its process keeps it. In `Scripts` a program is
the sequence of what it does to mailboxes, processes and threads, so that the
definitions read like the C functions; an instruction that meets a code outside its
`want` set is the `exit(-1)` of the test. `failed` remembers, in `Storm`, the thread, the
kernel's code and the process it sent to for every process that ended so. In `Gossip` a command of a thread is one
step, except that receiving all messages is one step per message.

A definition such as `mailbox_full_off_by_one`, above
the one it is named after, is a planted bug. No specification uses it; each
property has one that it must catch when the two are exchanged.

## 3. Runs

| Run | Instance | Checks |
|---|---|---|
| `mailbox` | 2 owner threads, 2 senders, 1 deletion, 3 messages, capacity 2 | `TypeOK`, `StopReachesEveryone`, `OneKindNeverForgotten`, `DestroyerNotForgotten`, `FlushedMeansDrained`, `NoUseAfterFree`, `CountBeforeFlush`, `ImplementsFifo` |
| `syscalls` | 2 owner threads, 1 deletion, 2 messages, capacity 1, under fairness | `STypeOK`, `MessagesOwnedOnce`, `PutBackWaitsForRoom`, `ImplementsMailbox`, `StopReleasesWaiters`, `DeletionCompletes` |
| `single_receiver` | 1 owner thread, 2 senders, 1 deletion, 4 messages, capacity 2 | `FifoEvenIfErrors` |
| `manager` | 2 processes, an unused pid, 3 objects, 2 kthreads, one shared bucket of 2, all faults, under fairness | `MTypeOK`, `ClaimsKeepMailboxes`, `OneMailboxPerPid`, `DeletionTakesItsOwn`, `ImplementsTable`, `DeletionEnds` |
| `interceptor` | 2 CPUs, 3 callers, unload, 8 words, under fairness | `ITypeOK`, `UnloadRestoresCalls`, `CrashesExplained`, `OnlyMovedWritesFault`, `LoadEnds` |
| `pid_list` | 4 pids, 3 nodes | `LTypeOK`, `ListsWellFormed`, `NodesAccountedFor`, `ImplementsPidSet` |
| `storm` | test6, test7, test8 on both kernels; 3 processes, one with an extra thread (and a stopper in test8), a list of 2, 1 failing allocation, under fairness | `StormTypeOK`, `NoUnexpectedCode`, `HoldersLive`, `StormEnds` |
| `scripts` | 19 programs, aFoltan's on both kernels; up to 5 processes, capacity 2, under fairness | `PTypeOK`, `ExpectationsHold`, `ProgramEnds` |
| `gossip` | 2 processes with 1 or 2 threads, under fairness | `GTypeOK`, `KnownAreFamily`, `GossipEnds` |
| `lost_wakeup` | 1 owner thread, 3 senders, 3 messages, capacity 1, no signal and no exit | `NoLostWakeUp` is **violated** |
| `exit_race` | 2 owner threads, under fairness | `ExitDeletesMailbox` is **violated** |
| `late_create` | 2 processes, under fairness | `ExitedHasNoMailbox` is **violated** |

### What the violations show

* **lost_wakeup.** The mailbox is full and two senders sleep. The receiver takes the
  message, which wakes the first sender, and receives again before that one has run:
  it sleeps behind the second. A third sender adds a message; its wake-up goes to the
  second sender. Both senders now find the mailbox full and sleep again without waking
  anybody: the receiver sleeps although there is a message, and nobody is awake to
  tell it. A single-threaded owner is enough. The instance has capacity 1; a mailbox
  of capacity N takes 2N blocked senders in this schedule, N that the receives have
  woken and N ahead of the receiver, and N sends before the former run: 64 senders
  for `message_max = 32`. Two senders at capacity 1 are too few.
  What the code does keep is `OneKindNeverForgotten`, checked in `mailbox` and proved:
  a wake-up is lost on a waiter of the other kind only. While just receivers, or just
  senders, wait, one of them is awake whenever one of them could go on.
* **exit_race.** Two threads that exit together both read `live == 2`, and neither
  removes the mailbox.
* **late_create.** The validity test is made before the table lock is taken. A sender
  that passed it can make a mailbox for a process that has exited since, and no exit
  call will remove it.

### Other disagreements

The modules state some more properties that the repository's words promise and the
code does not keep. They are in no run. Each is refuted when it is put in place of the
properties of the configuration named (with the change given).

| Property | In | What the counterexample is |
|---|---|---|
| `ExitingIsFinal` | `MCSyscalls.cfg` | `__mailbox_stop` assigns the flags: a `ManageMailbox` that claimed the mailbox before the exit call turns EXITING into STOPPED, contrary to the comment in `get_mailbox_for_pid` |
| `CountIsLength` | `MCSyscalls.cfg` | the flush leaves `message_count`; a thread that outlives the leader and has a claim then takes the list head for a Message (`BogusMessage`). `CountBeforeFlush` is what holds |
| `PutBackKeepsMessage` | `MCSyscalls.cfg` | the put-back after a failed copy is refused by a stop or a signal, and its error ignored. `PutBackWaitsForRoom` is what holds |
| `NonBlockingNeverWaits` | `MCSyscalls.cfg` | the put-back waits for room even if the caller asked not to block |
| `MessagesFreed` | `MCSyscalls.cfg` | a refused send returns without `message_destroy` |
| `DeletedAfterLastThread` | `MCSyscalls.cfg` | the kthread polls the leader only; testmailbox6 expects the last thread |
| `NoUseAfterFree` | `MCSyscalls.cfg`, two `Destroyers` | two exit calls start two deletions of one object |
| `FifoEvenIfErrors` | `MCSingleReceiver.cfg`, two `Owners` | two receivers fail to copy, and the one with the older message puts it back first |
| `MarkedIsFreed` | `MCManager.cfg` | `kthread_run` fails, and the mailbox stays marked and linked. `DeletionEnds` is what holds |
| `DeletionTakesItsOwn` | `MCManager.cfg`, `Tasks` and `Pids` with `p2` | a second kthread of a process with two threads unlinks, by pid, a mailbox a late sender made |
| `ExitedHasNoMailbox` | `MCManager.cfg` | a signal ends a process without an exit call |
| `TableWritable` | `MCInterceptor.cfg` | insmod is moved to another CPU between `write_cr0` and the writes |
| `QuietUnload` | `MCInterceptor.cfg` | the caches are destroyed with calls inside the module |
| `CallsFindCaches` | `MCInterceptor.cfg` | `kmem_cache_create` returned NULL, nobody looked, and the first call that allocates oopses. `CrashesExplained` is what holds |
| `ScanEnds` | `MCInterceptor.cfg`, `TableAt` empty | no word-aligned offset reaches `ULLONG_MAX`, so a scan that finds nothing wraps |
| `ListedAreActive` | `MCStorm.cfg` | the parent adds the child's pid after the child has removed it |
| `RestartWorks` | `MCStorm.cfg` | `__manage_mailbox` does nothing when `stop` is false |
| `DrainingEnds` | `MCStorm.cfg` | over `Message_LKM` `drain_queue` reads "until the mailbox responds either MAILBOX_EMPTY, or MAILBOX_STOPPED" (aFoltan `test_utils.c:286`), and the library never gives it either: test8's stoppers drain for ever, and so does test4 at its first `drain_queue`. `StormEnds` and `ProgramEnds` say that nothing else keeps a program from its end |
| `EveryTestPasses` | `MCScripts.cfg` | test1 and test9 fail on both kernels, test4 and test5 on the one with negated codes, where they get far enough; over `Message_LKM` test4 never ends. `ExpectationsHold` says at which instructions |
| `FullIsNoFailure` | `MCScripts.cfg` | on the kernel with negated codes test5 does not keep the code of its receive and takes the send's MAILBOX_FULL for it |
| `CountCoversMailbox` | `MCScripts.cfg` | in testmailbox3 a message arrives between the count and the stop of `__manage_mailbox` |
| `NoLongerSentTo` | `MCGossip.cfg`, three `Processes`, `NUM_PROC_LEVELS` 2, `MaxThreads` 1, `Remember` TRUE | a pid that was removed is learned again from a message |

In the programs the known disagreements are exceptions in the properties
themselves. `Disagrees` names the instructions of `Scripts` that may fail. With codes that
get through they are five that ask for something the kernel does not do (an error for
length 0, an argument error on an empty mailbox, a restart) or contradict their own test
(test5's second switch, the echo of test9's children, not the parent's send to them). Over
`Message_LKM` they are the calls that must not return 0, since every call does.
`ExpectationsHold` says that no other instruction fails. `NoUnexpectedCode` lets a process
of a storm end early only at the MAILBOX_ERROR of an allocation that failed, or, in test6
and test7, which do not expect it, at the MAILBOX_STOPPED of a send to a process that is
itself on its way out; over `Message_LKM` never, as no code is noticed. A process that ends
early can take a semaphore along: `HoldersLive` and `StormEnds` say that this, and the
draining above, are the only ways a semaphore is lost or a storm does not end.

testmailbox7 warns "RUNNING THIS TEST WILL CAUSE THE KERNEL TO CRASH" (samples
`testmailbox7.c:9`): a parent exits while its children hold pointers to its mailbox. That
`ProgramEnds` holds of it says that its processes end *if the kernel survives*; `Scripts`
sees the mailbox through `MailboxService` and could not show a crash. Whether the module
keeps a mailbox while somebody holds it is `NoUseAfterFree` and `ClaimsKeepMailboxes`,
checked in `mailbox` and `manager` and proved: with one deletion the crash the test warns
of does not happen. With two it does (table above), but testmailbox7's parent has one
thread and makes one exit call.

### Bounds

`MessageMax` is 1 or 2 instead of 32: full, empty, and with 2 neither, all occur, and
nothing in the code compares the count with anything else. Three messages fill a
mailbox of two and leave one for a blocked sender, four leave one for each of two
senders. A lost wake-up needs two blocked senders and a third that is not, with a
message each. Since a refused send never frees its Message, `Messages` also bounds the
number of refused sends in a behaviour. In `syscalls` both threads are the owner's,
which may send to itself, so that two receivers, two senders and one of each all
occur; senders of other processes are in `mailbox` and `single_receiver`. One deletion
is the normal case. Symmetry is used for messages, for senders of other processes and
for threads that are not the leader, and only in runs without liveness.

Deadlock is not checked in the runs of `Mailbox`, `Syscalls`, `MailboxManager` and
`Interceptor`: callers may all have exited, or all be blocked waiting for somebody to
send. Nor in `storm`, where test6 and test7 can lose a semaphore, as above. It is
checked in `pid_list`, `scripts` and `gossip`; having ended is a step of its own there.

The manager needs three objects for a mailbox, its late successor and another
process's, and two kthreads for one deletion of each; in one shared bucket, which is
not the first, every pair of pids collides. With two single-threaded processes a late
mailbox is never met by a second kthread; the table above has the case where it is.
Eight words of memory let the scan pass a word before it meets the table, and wrap when
there is none (`ScanEnds`). Three nodes for four pids give
the lists their empty, single, end and middle cases and a full list. The storms have
one process that works and two that only come and go: one sends, with two threads,
to itself and to processes that are running, exiting and gone, and one of the three
is a replacement. In `scripts` the capacity of 2 stands for 32, `Few` = 1 for counts
below it (5, 10), and 3 children for 50, enough for one to be blocked while the others'
messages fill the mailbox.

One allocation may fail in `storm`, at any of the calls that allocate; every failure has
the same effect, and the theorems about `Storm` are for any number. `MaxFailures` is 0 in
`scripts` and `gossip`. A script that meets MAILBOX_ERROR either exits at it, which
`ExpectationsHold` and `ProgramEnds` then excuse, or looks at no code; both
hold with one failure and two children (`N` = 2), deadlock apart, as somebody may then
wait for a message that was never made; with three the state space is too large for a run
one repeats. The gossip test takes MAILBOX_ERROR for a full or an empty
mailbox; its properties hold with one failure as well, in several minutes. Three
processes are out of reach in `gossip`, so that a pid learned from a message is always one
of the two: `KnownAreFamilyTheorem` is for any number.

### Fairness

`FairSyscallSpec` has weak fairness of the steps a task takes by itself inside a
system call (`Proceed`), of the kernel's exit for a thread that has called it, and of
the deletion kthread: runnable tasks are scheduled, and a spinlock held for a short
section is obtained. There is none for entering a call, for signals or for calling
exit. A sleeping task has no enabled step; only a wake-up or a signal gives it one,
so fairness never replaces a missing wake-up.

`MFairSpec` assumes the same of the manager: a task that has entered it goes on, a
kthread goes on; nobody has to call exit. `IFairSpec` is for insmod or rmmod going on.

The programs need less than fairness for each thread. Their loops end on `time(NULL)`,
so the steps that end a loop, when some of them are enabled again and again, are
eventually taken (strong fairness of `TimesUp` in `StormFairSpec`, of `times_up` in
`PFairSpec`), and somebody who can run does run (weak fairness of the next-state
relation). A loop is left once and everything outside the loops is finite, so
this suffices, and it is implied by any fair scheduler. `GFairSpec` has weak fairness
of each process's and each thread's own steps, and strong fairness of the step that
ends a thread, whose loop lasts for a number of commands.

## 4. Proofs

TLAPS proves, for every finite set of tasks and deletion kthreads, every set of
messages and every capacity above zero (`MailboxAssumption`):

| Theorem | Statement |
|---|---|
| `TypeTheorem` | `Spec => []TypeOK` |
| `StopTheorem` | `Spec => []StopReachesEveryone` |
| `DrainTheorem` | `Spec => []FlushedMeansDrained` |
| `CountTheorem` | `Spec => []CountBeforeFlush` |
| `RefinementTheorem` | `Spec => ImplementsFifo` |
| `NoUseAfterFreeTheorem` | `Spec => []NoUseAfterFree`, if at most one deletion is started |
| `DestroyerTheorem` | `Spec => []DestroyerNotForgotten`, if at most one deletion is started |

None of these is inductive alone. `Inv` is built in layers, each proved from the
ones before it:

1. `ListInv`: types, `CountBeforeFlush`, a task that waits to add holds a real
   Message, the bogus one is seen after the flush only, and a deletion under way
   means the mailbox is stopped.
2. `CountersInv`: `waiting` and `dereferences` are the numbers of tasks inside a wait
   and of tasks that hold the pointer.
3. `DrainInv`: needs the first two, since the destroyer flushes when the *counter*
   is zero and what matters is that no *task* waits.
4. `QueueInv`: who is linked on which queue, `StopReachesEveryone`, and that the
   destroyer sleeps only while somebody waits. The step that matters is that a
   wake-up reaches a sleeping task whenever there is one (`WakeUpReachesExclusive`),
   and everybody when no exclusive waiter is in the way (`WakeUpReachesAll`); the
   first rests on the well-foundedness of the order of a finite queue.
5. `LifeInv`, with one deletion: past the poll the object is unlinked, so nobody
   claims it any more; when it is freed nobody holds it. `SingleDeletion` is not a
   convenience: with two deletions the property is violated (section 3).

`RefinementTheorem` maps the queue to `messages`, closed to `stopped # {}`, discarded
to "flushed", the callers' view to `hand` and `ret`, and the end a waiting caller's
message goes to (`place`) to `WaitingEnd`, where in `mailbox_add_message` it sleeps; each action is
shown to be one step of the abstract queue or a stutter.

`MailboxManagerProofs` proves, for every finite set of tasks, every set of pids,
mailboxes and kthreads and every hash function (`HashTableAssumption`,
`ManagerAssumption`):

| Theorem | Statement |
|---|---|
| `OneMailboxPerPidTheorem` | `MSpec => []OneMailboxPerPid` |
| `ImplementsTableTheorem` | `MSpec => ImplementsTable` |
| `ManagerTypeTheorem` | `MSpec => [](MTypeOK /\ ClaimsCounted)` |
| `ClaimsKeepMailboxesTheorem` | `MSpec => []ClaimsKeepMailboxes` |
| `DeletionTakesItsOwnTheorem` | `MSpec => DeletionTakesItsOwn`, if every process has one thread |

The lemmas on `HashTable` come first: on a well-formed table the search finds the one
entry there is (`GetResult`), and putting and removing keep the table well formed and
change one pid's entry (`PutWorks`, `RemoveWorks`). `TableInv` adds that the pointers of
tasks and kthreads are to mailboxes that were created; the refinement follows from
it, one dictionary step per locked section. `ClaimsCounted` says that `dereferences` is
the number of tasks that hold a claim, which needs the cardinality of a finite set to
go up and down with it. `FreedInv` is the reason why no claim is made on a mailbox that
is being freed: once unlinked it cannot be found again, and it is freed when the
counter, hence by `ClaimsCounted` the set of claimers, is empty. `OwnInv` is for the
kthreads: while one polls, its process has made its exit call and the table still has
the mailbox under that pid, since no second kthread polls for the pid. That needs
`SingleThreaded`; with two threads the property is false (section 3).

`OneKindTheorem` (`Spec => []OneKindNeverForgotten`, same assumptions as the table
above) rests on `Inv` and on one more look at the queue (`KindStep`): a step that makes
a condition true wakes a sleeping task, or finds an awake waiter already; a waiter that
goes back to sleep does so because its own condition is false, and then so is that of
every other waiter of its kind; and the one who leaves a wait has changed the list and
woken another. It is not inductive without `Inv`, which knows who is linked on the
queue.

`SyscallsProofs` proves, under `MailboxAssumption` only:

| Theorem | Statement |
|---|---|
| `ImplementsMailboxTheorem` | `SyscallSpec => ImplementsMailbox` |
| `SyscallTypeTheorem` | `SyscallSpec => []STypeOK` |
| `MessagesOwnedOnceTheorem` | `SyscallSpec => []MessagesOwnedOnce` |
| `PutBackTheorem` | `SyscallSpec => []PutBackWaitsForRoom` |

`SInv` joins `Inv` with the places of the tasks (`PlaceInv`: who holds a Message is
sending, copying or putting back; who copies with result OK holds one) and the last two
properties. The halves need each other. That a step of a system call is a step of
`Mailbox` (`CallsAreMailboxSteps`) needs `MessagesOwnedOnce`, since a fresh Message must
be unused, and `PlaceInv`, since only what was received is put back. In return `Inv` is
kept by what `MailboxProofs` proves of `Mailbox`'s steps, and `MessagesOwnedOnce` needs
it: `message_count`, by which the receiver goes, is the length of the list until the
flush, and what is taken after it is no Message. With `ImplementsMailboxTheorem` all
theorems about `Spec` hold of the mailbox behind the system calls.

The same module proves `FifoTheorem`: `OSpec => []FifoEvenIfErrors` if all receiving
threads are the same one (`SingleReceiver`). With two receivers it is false (section 3),
so the assumption is the boundary of what the code keeps. `OrderInv` adds that the
history is about allocated Messages, that a Message being sent has not been on the list
and that one taken off it is not later than any that is still there. The last is what
one receiver buys: nobody else holds a Message to be put back when one is taken.

`InterceptorProofs` proves, for any finite or infinite set of callers and CPUs, any
address space and any place of the table (`InterceptorAssumption`):

| Theorem | Statement |
|---|---|
| `InterceptorTypeTheorem` | `ISpec => []ITypeOK` |
| `UnloadTheorem` | `ISpec => []UnloadRestoresCalls` |
| `CachesTheorem` | `ISpec => []CrashesExplained` |
| `FaultTheorem` | `ISpec => []OnlyMovedWritesFault` |

`IInv` follows insmod and rmmod through their places: which entries are the kernel's
and which were saved (`TableInv`), that nobody is inside before the first write and a
cache that was not refused lasts until the unload begins (`CacheInv`), and that some CPU stays without
protection while the table is written (`ProtectionInv`). The latter explains a fault: the
CPU it happens on is protected, so it is not that one.

`StormProofs` proves, for every finite set of processes, any worker threads and crews,
any capacity, `MAX_PIDS` and number of failing allocations, and on either kernel
(`StormAssumption`, `ServiceAssumption`):

| Theorem | Statement |
|---|---|
| `StormTypeTheorem` | `StormSpec => []StormTypeOK` |
| `StormCodesTheorem` | `StormSpec => []NoUnexpectedCode` |
| `StormLocksTheorem` | `StormSpec => []HoldersLive` |

`StormInv` adds that a semaphore's holder is inside the section it guards (`LockInv`),
that the other threads of a process do nothing before its main thread starts them and
after it has joined them (`JoinInv`), and that only test8 stops a mailbox (`StopInv`).
`HoldersLive` follows from the join: the main thread exits with nobody else of its process
inside a section, and gives up both semaphores itself. `NoUnexpectedCode` needs to know
which codes each call can return and what the library makes of them (`SendCodes`,
`ReceiveCodes`, `ManageCodes`, `LibraryCodes`): MAILBOX_ERROR comes from an allocation that
has failed and stays counted, and MAILBOX_STOPPED, which test6 and test7 do not expect,
from a stop, which only test8 makes, or from a mailbox whose process is exiting, and a
process that exits does not come back.

`PidListProofs` proves, for every size of the region and any pids and callers
(`PidListAssumption`):

| Theorem | Statement |
|---|---|
| `PidListTypes` | `LSpec => []LTypeOK` |
| `ListsStayWellFormed` | `LSpec => []ListsWellFormed` |
| `NodesStayAccountedFor` | `LSpec => []NodesAccountedFor` |
| `PidListImplementsPidSet` | `LSpec => ImplementsPidSet` |

Well-formed lists are not inductive as they are stated, by walking from the head: an
assignment to one pointer changes the walk from there on. `LInv` says instead that
there *are* two sequences of nodes, the free and the active one, which every pointer
agrees with (`Holds`), that they are disjoint and together have all nodes, and that the
active nodes are the ones with a pid, all different (`Sound`). On the sequences the
pointer assignments are simple: `add_to_tail` is `Append` (`AddToTail`),
`remove_from_list` takes out one element, at either end or between two others
(`RemoveFromList`), and the search for a pid finds its node (`FindNode`). `MoveNode`
joins the two, since every operation moves one node between the lists. The walk then
passes exactly that sequence (`WalkPassesNodes`), which gives the first three theorems
and the refinement mapping of the last. The walk and `pidlist_init`'s loop
(`initialized`) are recursive functions. They are proved about without an induction
scheme: an explicit function solves the defining equation, and any solution agrees with
it, for otherwise there were a least argument where it does not (`LeastNat`).

`GossipProofs` proves, for any processes, number of threads, levels and capacity
(`GossipAssumption`):

| Theorem | Statement |
|---|---|
| `GossipTypeTheorem` | `GSpec => []GTypeOK` |
| `KnownAreFamilyTheorem` | `GSpec => []KnownAreFamily` |

A thread learns of a process from its parent's pid, from the sender of a message and
from the message's text, so `GInv` has three parts that need each other: the parent of
a process has been started (`FamilyInv`), sender and text of every message in a mailbox
name processes that have been started (`BoxInv`), and so do the lists, without
repetition and without the thread's own process (`ThreadInv`). A process that has been
started stays so, which is why a message stays true while it waits.

`ScriptsProofs` proves `ScriptsTypeTheorem`, `PSpec => []PTypeOK`, for any processes,
any `N`, `Few` and `Capacity` with `Few < Capacity`, and any choice of the programs
(`ScriptsAssumption`, `ProgramsAssumption`). That a task's code is a code depends on what
its script says: a send must go to a process. `Instructions` is the set of instructions a
script may have, with the scripts nested in them for loops, children and threads; every
program is shown to consist of them (`ProgramType`), which needs that `FlattenSeq`, a
recursion over sequences of any length, is defined and keeps the type (`FlattenDefined`,
`FlattenType`), again by a least counterexample. `PInv` adds to `PTypeOK` that what is still
to be done consists of instructions and that messages name their sender.

Only model-checked:

* liveness, which is out of the prover's reach: `StopReleasesWaiters`,
  `DeletionCompletes`, `DeletionEnds`, `LoadEnds`, `StormEnds`, `ProgramEnds`, `GossipEnds`;
* `ExpectationsHold`: whether an instruction gets the code it wants depends on all the
  instructions before it, of all tasks. An inductive invariant would repeat every
  program, one assertion for each place in it; TLC runs the programs instead.

## 5. Not modelled

* Reuse of pids, which the code excludes by a comment (`mailbox_manager.c:148`), and
  reuse of freed objects and Messages by the slab.
* The reference that `find_get_pid` takes and nobody drops.
* aFoltan's test2a and test3: they measure how long a call blocked, and the models
  have no clock. testmailbox6: its subject, what becomes of a mailbox when threads
  exit one after the other, is in `Syscalls` (`exit_race`, `DeletedAfterLastThread`).
* Printing, statistics, command lines, and the programs' handling of a failing `fork`,
  `pthread_create` or `shm_open`.
* `src/Test` (assertions on single calls), `pidlist_test.c` and sParadiso's exerciser,
  which repeat patterns of the programs above.
* That `Syscalls` implements `MailboxService`: the two are connected for one mailbox,
  and for safety only, through `ImplementsMailboxTheorem` and `RefinementTheorem`. A
  blocked call of `MailboxService` goes on when it can, so the programs are checked
  without the lost wake-ups of section 3. The storms and the gossip test never block in
  a send, and nobody receives from the mailbox that test9 fills: one kind waits at a
  mailbox, and `OneKindTheorem` applies. The sample tests have 50 children that send
  one message each; the schedule of section 3 needs more.

## 6. State of the plan

The plan was: the mailbox with its waits and its deletion first, since everything
rests on it; the system calls and the manager on top; then loading, the libraries and
the programs; the proofs in the same order. All of it is done, as far as section 5
does not except it. What could follow is the composition that section 5 leaves open, a
`Syscalls` with several mailboxes that implements `MailboxService`.
