-------------------------- MODULE InterceptorProofs --------------------------
(***************************************************************************)
(* Proofs of the safety properties of Interceptor.tla for any number of    *)
(* callers and CPUs, any address space and any place of the table in it.   *)
(***************************************************************************)
EXTENDS Interceptor, TLAPS

Entries == 1..Len(Calls)

(* There are five entries to replace. *)
LEMMA FiveCalls == Len(Calls) = 5 /\ Entries = 1..5
  BY DEF Calls, Entries

(* The loading and unloading of the table, by where insmod or rmmod is.    *)
(* The entries were the kernel's when they were saved; nothing is the      *)
(* module's before the first write; while they are restored the ones       *)
(* before `slot' are the kernel's again.                                   *)
TableInv ==
  /\ ipc \in {"scan", "failed", "init", "disable"} => \A c \in Entries : sys_call_table[c] = "kernel"
  /\ ipc \notin {"scan", "failed", "init"} => \A c \in Entries : ref_sys[c] = "kernel"
  /\ ipc \notin {"replace", "restore", "oops", "unoops"} => slot = 1
  /\ ipc = "restore" => \A c \in Entries : c < slot => sys_call_table[c] = "kernel"
  /\ ipc \in {"unenable", "unloaded"} => \A c \in Entries : sys_call_table[c] = "kernel"

(* Nobody is in the module's code before the first write, and a cache is   *)
(* missing between then and the unload only if the kernel refused it.      *)
CacheInv ==
  /\ ipc \in {"scan", "failed", "init", "disable"} => inside = {} /\ crashed = {}
  /\ ipc \in {"disable", "replace", "enable", "loaded", "oops"} => caches \cup refused = Caches
  /\ crashed # {} /\ refused = {} => ipc \in Unloading

(* The protection that was cleared on a CPU stays cleared there at least   *)
(* until the table is written; what is refused is a write on another CPU.  *)
ProtectionInv ==
  /\ ipc \in {"replace", "enable", "restore", "unenable"} \/ fault => \E c \in CPUs : c \notin protected
  /\ fault => ipc \in {"oops", "unoops"} /\ cpu \in protected

IInv == ITypeOK /\ TableInv /\ CacheInv /\ ProtectionInv

(* Before insmod has done anything. *)
LEMMA IInitInv == IInit => IInv
  <1> SUFFICES ASSUME IInit PROVE IInv
    OBVIOUS
  <1>1. ITypeOK
    <2>1. offset \in 0..Words-1 /\ slot \in 1..Len(Calls)
      BY FiveCalls, InterceptorAssumption DEF IInit
    <2>2. /\ sys_call_table \in [1..Len(Calls) -> {"kernel", "module"}]
          /\ ref_sys \in [1..Len(Calls) -> {"kernel", "none"}]
      BY DEF IInit
    <2>3. cpu \in CPUs /\ protected \subseteq CPUs /\ fault \in BOOLEAN
      BY DEF IInit
    <2>4. ipc = "scan" /\ caches = {} /\ refused = {} /\ inside = {} /\ crashed = {}
      BY DEF IInit
    <2> QED
      BY <2>1, <2>2, <2>3, <2>4 DEF ITypeOK
  <1>2. TableInv /\ CacheInv
    BY DEF IInit, TableInv, CacheInv, Entries
  <1>3. ProtectionInv
    BY DEF IInit, ProtectionInv
  <1> QED
    BY <1>1, <1>2, <1>3 DEF IInv

(* The place after each entry, and after the last the first again. *)
LEMMA NextSlot ==
  ASSUME NEW s \in 1..5
  PROVE  (s % 5) + 1 = IF s = 5 THEN 1 ELSE s + 1
  <1>1. s \in {1, 2, 3, 4, 5}
    OBVIOUS
  <1> QED
    BY <1>1

(* One write to the table: refused, or done and on to the next entry. *)
LEMMA WriteEntry ==
  ASSUME ITypeOK, NEW f, NEW after, write_entry(f, after)
  PROVE  \/ /\ cpu \in protected /\ fault' = TRUE
            /\ ipc' = IF ipc = "replace" THEN "oops" ELSE "unoops"
            /\ UNCHANGED <<sys_call_table, slot>>
         \/ /\ cpu \notin protected /\ UNCHANGED fault
            /\ sys_call_table' = [sys_call_table EXCEPT ![slot] = f]
            /\ slot' = IF slot = 5 THEN 1 ELSE slot + 1
            /\ ipc' = IF slot = 5 THEN after ELSE ipc
  BY FiveCalls, NextSlot DEF write_entry, ITypeOK, Entries

(* Every step keeps the invariant. *)
LEMMA IStep == IInv /\ [INext]_ivars => IInv'
  <1> SUFFICES ASSUME IInv, [INext]_ivars PROVE IInv'
    OBVIOUS
  <1> USE FiveCalls, InterceptorAssumption DEF IInv, Caches, Unloading
  <1>1. CASE find_sys_call_table
    BY <1>1 DEF find_sys_call_table, table, cr0, ITypeOK, TableInv, CacheInv, ProtectionInv, slab, users
  <1>2. CASE interceptor_start
    BY <1>2 DEF interceptor_start, make_caches, message_init, mailbox_init, cr0,
                ITypeOK, TableInv, CacheInv, ProtectionInv, slab, users
  <1>3. CASE replace_call
    <2>1. /\ ipc = "replace" /\ write_entry("module", "enable")
          /\ UNCHANGED <<offset, ref_sys, cpu, protected, slab, users>>
      BY <1>3 DEF replace_call
    <2>3. CASE cpu \in protected /\ fault' = TRUE /\ ipc' = "oops" /\ UNCHANGED <<sys_call_table, slot>>
      BY <2>1, <2>3 DEF ITypeOK, TableInv, CacheInv, ProtectionInv, slab, users
    <2>4. CASE /\ cpu \notin protected /\ UNCHANGED fault
               /\ sys_call_table' = [sys_call_table EXCEPT ![slot] = "module"]
               /\ slot' = IF slot = 5 THEN 1 ELSE slot + 1
               /\ ipc' = IF slot = 5 THEN "enable" ELSE ipc
      BY <2>1, <2>4 DEF ITypeOK, TableInv, CacheInv, ProtectionInv, slab, users
    <2> QED
      BY <2>1, <2>3, <2>4, WriteEntry
  <1>4. CASE disable_page_protection
    BY <1>4 DEF disable_page_protection, table, ITypeOK, TableInv, CacheInv, ProtectionInv, slab, users
  <1>5. CASE enable_page_protection
    BY <1>5 DEF enable_page_protection, table, ITypeOK, TableInv, CacheInv, ProtectionInv, slab, users
  <1>6. CASE interceptor_end
    BY <1>6 DEF interceptor_end, message_exit, mailbox_exit, table, cr0,
                ITypeOK, TableInv, CacheInv, ProtectionInv, slab, users
  <1>7. CASE restore_call
    <2>1. /\ ipc = "restore" /\ write_entry(ref_sys[slot], "unenable")
          /\ UNCHANGED <<offset, ref_sys, cpu, protected, slab, users>>
      BY <1>7 DEF restore_call
    <2>2. ref_sys[slot] = "kernel"
      BY <2>1 DEF ITypeOK, TableInv
    <2>3. CASE cpu \in protected /\ fault' = TRUE /\ ipc' = "unoops" /\ UNCHANGED <<sys_call_table, slot>>
      BY <2>1, <2>3 DEF ITypeOK, TableInv, CacheInv, ProtectionInv, slab, users
    <2>4. CASE /\ cpu \notin protected /\ UNCHANGED fault
               /\ sys_call_table' = [sys_call_table EXCEPT ![slot] = ref_sys[slot]]
               /\ slot' = IF slot = 5 THEN 1 ELSE slot + 1
               /\ ipc' = IF slot = 5 THEN "unenable" ELSE ipc
      BY <2>1, <2>2, <2>4 DEF ITypeOK, TableInv, CacheInv, ProtectionInv, slab, users
    <2> QED
      BY <2>1, <2>3, <2>4, WriteEntry
  <1>8. CASE migrate
    BY <1>8 DEF migrate, table, ITypeOK, TableInv, CacheInv, ProtectionInv, slab, users
  <1>9. ASSUME NEW t \in Callers, system_call(t) PROVE IInv'
    BY <1>9 DEF system_call, table, cr0, ITypeOK, TableInv, CacheInv, ProtectionInv, slab, users
  <1>10. ASSUME NEW t \in Callers, system_call_returns(t) PROVE IInv'
    BY <1>10 DEF system_call_returns, table, cr0, ITypeOK, TableInv, CacheInv, ProtectionInv, slab, users
  <1>11. ASSUME NEW t \in Callers, system_call_crashes(t) PROVE IInv'
    BY <1>11 DEF system_call_crashes, table, cr0, ITypeOK, TableInv, CacheInv, ProtectionInv, slab, users
  <1>12. CASE UNCHANGED ivars
    BY <1>12 DEF ivars, ITypeOK, TableInv, CacheInv, ProtectionInv, slab, users
  <1> QED
    BY <1>1, <1>2, <1>3, <1>4, <1>5, <1>6, <1>7, <1>8, <1>9, <1>10, <1>11, <1>12
    DEF INext, Load, Protection

(* IInv is an inductive invariant. *)
THEOREM InterceptorInvariant == ISpec => []IInv
  BY IInitInv, IStep, PTL DEF ISpec

(* Every variable keeps its type; the saved entries are the kernel's own,  *)
(* never the module's.                                                     *)
THEOREM InterceptorTypeTheorem == ISpec => []ITypeOK
  <1>1. IInv => ITypeOK
    BY DEF IInv
  <1> QED
    BY <1>1, InterceptorInvariant, PTL

(* An unload that comes to its end has put all five calls back, on         *)
(* whatever CPUs it ran.                                                   *)
THEOREM UnloadTheorem == ISpec => []UnloadRestoresCalls
  <1>1. IInv => UnloadRestoresCalls
    BY DEF IInv, TableInv, UnloadRestoresCalls, Entries
  <1> QED
    BY <1>1, InterceptorInvariant, PTL

(* A caller is killed in the module's code for want of a cache only where  *)
(* the kernel had refused that cache, or once an unload has begun.         *)
THEOREM CachesTheorem == ISpec => []CrashesExplained
  <1>1. IInv => CrashesExplained
    BY DEF IInv, CacheInv, CrashesExplained
  <1> QED
    BY <1>1, InterceptorInvariant, PTL

(* A write to the table is refused only on a CPU other than the one whose  *)
(* protection was cleared.                                                 *)
THEOREM FaultTheorem == ISpec => []OnlyMovedWritesFault
  <1>1. IInv => OnlyMovedWritesFault
    BY DEF IInv, ProtectionInv, OnlyMovedWritesFault
  <1> QED
    BY <1>1, InterceptorInvariant, PTL
=============================================================================
