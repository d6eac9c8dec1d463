----------------------------- MODULE Interceptor -----------------------------
(***************************************************************************)
(* Loading and unloading the module: find the system call table, create    *)
(* the caches, save and replace the five calls with write protection off;  *)
(* on unload destroy the caches and put the calls back.  Meanwhile other   *)
(* tasks make system calls through whatever the table holds.               *)
(*                                                                         *)
(* Memory is a ring of Words words of the address size, the table is at    *)
(* the addresses in TableAt, the scan goes on while offset < Limit.        *)
(***************************************************************************)
EXTENDS Naturals, Sequences

CONSTANTS
  Callers,      \* tasks that make system calls
  CPUs,         \* each has its own cr0
  Words,        \* the address space, in words
  PAGE_OFFSET,  \* where the scan begins
  Limit,        \* ULLONG_MAX, in words
  TableAt,      \* where sct[__NR_close] is sys_close
  MayUnload     \* rmmod is used

ASSUME InterceptorAssumption ==
  /\ Words \in Nat /\ PAGE_OFFSET \in 0..Words-1
  /\ Limit \in Nat
  /\ TableAt \subseteq 0..Words-1
  /\ MayUnload \in BOOLEAN

VARIABLES
  ipc,             \* where insmod or rmmod is
  offset,          \* the scan's
  sys_call_table,  \* what each entry points to: "kernel" or "module"
  ref_sys,         \* the saved entries
  cpu,             \* the CPU insmod or rmmod runs on
  protected,       \* the CPUs whose cr0 forbids writing to read-only pages
  slot,            \* the place in Calls of the entry to be written next
  fault,           \* a write to the table was refused: the kernel oopses
  caches,          \* the slab caches that exist
  refused,         \* the caches kmem_cache_create returned NULL for
  inside,          \* callers that execute the module's code
  crashed          \* callers an oops in the module's code has killed

ivars == <<ipc, offset, sys_call_table, ref_sys, cpu, protected, slot, fault,
           caches, refused, inside, crashed>>
table == <<sys_call_table, ref_sys>>
cr0   == <<cpu, protected, fault>>
slab  == <<caches, refused>>
users == <<inside, crashed>>

(* The entries the module replaces, in the order it writes them. *)
Calls == <<"cs3013_syscall1", "cs3013_syscall2", "cs3013_syscall3", "exit", "exit_group">>

IInit ==
  /\ ipc = "scan"
  /\ offset = PAGE_OFFSET
  /\ sys_call_table = [c \in 1..Len(Calls) |-> "kernel"]
  /\ ref_sys = [c \in 1..Len(Calls) |-> "none"]
  /\ cpu \in CPUs
  /\ protected = CPUs
  /\ slot = 1
  /\ fault = FALSE
  /\ caches = {}
  /\ refused = {}
  /\ inside = {}
  /\ crashed = {}

-----------------------------------------------------------------------------
(* One turn of the loop of find_sys_call_table.  Adding a word to the last *)
(* address gives zero, which is also below Limit: when Limit is Words the  *)
(* loop only ends where the table is.  interceptor_start fails if it ends. *)
scan_by_two_words ==
  /\ ipc = "scan"
  /\ ipc' = IF offset >= Limit THEN "failed"
            ELSE IF offset \in TableAt THEN "init" ELSE "scan"
  /\ offset' = IF ipc' = "scan" THEN (offset + 2) % Words ELSE offset
  /\ UNCHANGED <<table, cr0, slot, slab, users>>
find_sys_call_table ==
  /\ ipc = "scan"
  /\ ipc' = IF offset >= Limit THEN "failed"
            ELSE IF offset \in TableAt THEN "init" ELSE "scan"
  /\ offset' = IF ipc' = "scan" THEN (offset + 1) % Words ELSE offset
  /\ UNCHANGED <<table, cr0, slot, slab, users>>

(* The caches each makes: kmem_cache_create may return NULL, and nobody    *)
(* looks.                                                                  *)
Caches == {"message", "mailbox"}
message_init == {{"message"}, {}}
mailbox_init == {{"mailbox"}, {}}

(* The rest of interceptor_start, up to the page protection. *)
make_caches ==
  \E made \in message_init, more \in mailbox_init :
     /\ caches' = made \cup more
     /\ refused' = Caches \ (made \cup more)
saves_after_replacing ==
  /\ ipc = "init"
  /\ make_caches
  /\ ref_sys' = [c \in 1..Len(Calls) |-> "module"]
  /\ ipc' = "disable"
  /\ UNCHANGED <<offset, sys_call_table, cr0, slot, users>>
starts_without_caches ==
  /\ ipc = "init"
  /\ ref_sys' = sys_call_table
  /\ ipc' = "disable"
  /\ UNCHANGED <<offset, sys_call_table, cr0, slot, slab, users>>
interceptor_start ==
  /\ ipc = "init"
  /\ make_caches
  /\ ref_sys' = sys_call_table
  /\ ipc' = "disable"
  /\ UNCHANGED <<offset, sys_call_table, cr0, slot, users>>

(* write_cr0 on the CPU of the moment; "disable", "enable" on load,        *)
(* "undisable", "unenable" on unload.                                      *)
protection_never_disabled ==
  /\ ipc \in {"disable", "undisable"}
  /\ ipc' = IF ipc = "disable" THEN "replace" ELSE "restore"
  /\ UNCHANGED <<offset, table, cr0, slot, slab, users>>
disable_page_protection ==
  /\ ipc \in {"disable", "undisable"}
  /\ protected' = protected \ {cpu}
  /\ ipc' = IF ipc = "disable" THEN "replace" ELSE "restore"
  /\ UNCHANGED <<offset, table, cpu, slot, fault, slab, users>>
enable_page_protection ==
  /\ ipc \in {"enable", "unenable"}
  /\ protected' = protected \cup {cpu}
  /\ ipc' = IF ipc = "enable" THEN "loaded" ELSE "unloaded"
  /\ UNCHANGED <<offset, table, cpu, slot, fault, slab, users>>

(* One assignment to the table; it faults where cr0 forbids it, "oops" on  *)
(* load and "unoops" on unload.  After the last one the protection is      *)
(* enabled again.                                                          *)
write_entry(f, after) ==
  IF cpu \in protected
  THEN /\ fault' = TRUE
       /\ ipc' = IF ipc = "replace" THEN "oops" ELSE "unoops"
       /\ UNCHANGED <<sys_call_table, slot>>
  ELSE /\ sys_call_table' = [sys_call_table EXCEPT ![slot] = f]
       /\ slot' = (slot % Len(Calls)) + 1
       /\ ipc' = IF slot = Len(Calls) THEN after ELSE ipc
       /\ UNCHANGED fault

replace_call ==
  /\ ipc = "replace"
  /\ write_entry("module", "enable")
  /\ UNCHANGED <<offset, ref_sys, cpu, protected, slab, users>>

-----------------------------------------------------------------------------
(* interceptor_end: message_exit and mailbox_exit, then the calls.         *)
(* kmem_cache_destroy (external) of a NULL pointer does nothing or oopses, *)
(* as the kernel has it.                                                   *)
message_exit == {"message"}
mailbox_exit == {"mailbox"}
interceptor_end ==
  /\ ipc = "loaded" /\ MayUnload
  /\ \/ /\ caches' = (caches \ message_exit) \ mailbox_exit
        /\ ipc' = "undisable"
     \/ /\ refused # {}
        /\ caches' = IF message_exit \subseteq refused THEN caches ELSE caches \ message_exit
        /\ ipc' = "unoops"
  /\ UNCHANGED <<offset, table, cr0, slot, refused, users>>
restores_all_but_exit_group ==
  /\ ipc = "restore"
  /\ write_entry(IF slot = Len(Calls) THEN "module" ELSE ref_sys[slot], "unenable")
  /\ UNCHANGED <<offset, ref_sys, cpu, protected, slab, users>>
restore_call ==
  /\ ipc = "restore"
  /\ write_entry(ref_sys[slot], "unenable")
  /\ UNCHANGED <<offset, ref_sys, cpu, protected, slab, users>>

-----------------------------------------------------------------------------
(* The scheduler moves insmod or rmmod to another CPU (external). *)
migrate ==
  /\ ipc \notin {"failed", "oops", "unoops", "unloaded"}
  /\ cpu' \in CPUs \ {cpu}
  /\ UNCHANGED <<ipc, offset, table, protected, slot, fault, slab, users>>

(* A task's system call goes where the table points; it returns later, or  *)
(* uses a cache that is not there, as message_create and mailbox_create do *)
(* without looking, and the oops kills the task.                           *)
system_call(t) ==
  /\ t \notin inside \cup crashed
  /\ \E c \in 1..Len(Calls) : sys_call_table[c] = "module"
  /\ inside' = inside \cup {t}
  /\ UNCHANGED <<ipc, offset, table, cr0, slot, slab, crashed>>
system_call_returns(t) ==
  /\ t \in inside
  /\ inside' = inside \ {t}
  /\ UNCHANGED <<ipc, offset, table, cr0, slot, slab, crashed>>
system_call_crashes(t) ==
  /\ t \in inside
  /\ caches # Caches
  /\ inside' = inside \ {t}
  /\ crashed' = crashed \cup {t}
  /\ UNCHANGED <<ipc, offset, table, cr0, slot, slab>>

Load == find_sys_call_table \/ interceptor_start \/ replace_call
Protection == disable_page_protection \/ enable_page_protection
INext ==
  \/ Load \/ Protection \/ interceptor_end \/ restore_call \/ migrate
  \/ \E t \in Callers : system_call(t) \/ system_call_returns(t) \/ system_call_crashes(t)

ISpec == IInit /\ [][INext]_ivars
IFairSpec == ISpec /\ WF_ivars(Load \/ Protection \/ restore_call)

-----------------------------------------------------------------------------
(* Properties *)

(* The types. *)
ITypeOK ==
  /\ ipc \in {"scan", "failed", "init", "disable", "replace", "enable", "loaded",
              "undisable", "restore", "unenable", "unloaded", "oops", "unoops"}
  /\ offset \in 0..Words-1
  /\ sys_call_table \in [1..Len(Calls) -> {"kernel", "module"}]
  /\ ref_sys \in [1..Len(Calls) -> {"kernel", "none"}]
  /\ cpu \in CPUs /\ protected \subseteq CPUs /\ slot \in 1..Len(Calls) /\ fault \in BOOLEAN
  /\ caches \subseteq Caches /\ refused \subseteq Caches
  /\ inside \subseteq Callers /\ crashed \subseteq Callers

(* A caller is killed for want of a cache only if the kernel refused to    *)
(* make one when the module was loaded, or because an unload has begun     *)
(* under it: at no other time, a half done or faulted load included, does  *)
(* the table send a call into the module before its caches are made.       *)
Unloading == {"undisable", "restore", "unenable", "unloaded", "unoops"}
CrashesExplained == crashed # {} => refused # {} \/ ipc \in Unloading

(* Once the module is unloaded every call is the kernel's own again: a     *)
(* load or unload that is moved between CPUs may oops half way, but it     *)
(* does not finish with a call left behind.                                *)
UnloadRestoresCalls ==
  ipc = "unloaded" => \A c \in 1..Len(Calls) : sys_call_table[c] = "kernel"

(* A write to the table is refused only because insmod or rmmod was moved  *)
(* to another CPU since it cleared the bit in cr0: the CPU it came from is *)
(* still without its protection.                                           *)
OnlyMovedWritesFault == fault => \E c \in CPUs : c # cpu /\ c \notin protected

(* A load ends, in success or in an oops, when memory holds the table      *)
(* anywhere behind PAGE_OFFSET: the scan does not step over it.            *)
LoadEnds == <>(ipc \notin {"scan", "init", "disable", "replace", "enable"})

(* The table is written only with the protection off. *)
TableWritable == ~fault

(* The scan comes to an end: the table is found or the load is cancelled.  *)
ScanEnds == <>(ipc # "scan")

(* Nobody is in the module's calls while or after its caches are           *)
(* destroyed.                                                              *)
QuietUnload == ipc \in Unloading => inside = {}

(* While the module is loaded no call is without a cache. *)
CallsFindCaches == ipc \notin Unloading => crashed = {}
=============================================================================
