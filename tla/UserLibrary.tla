----------------------------- MODULE UserLibrary -----------------------------
(***************************************************************************)
(* The C libraries between the programs and the system calls: what SendMsg,*)
(* RcvMsg and ManageMailbox return for a system call's code.  syscall()    *)
(* (external) returns a result from 0 up as it is; a negative one it       *)
(* stores in errno, and returns -1.                                        *)
(*                                                                         *)
(* Message_LKM returns positive codes.  The library of aFoltan's programs  *)
(* is written for a kernel that returns them negated: its functions have   *)
(* the kind of kernel as a parameter.                                      *)
(***************************************************************************)
EXTENDS MailboxService

syscall(negative, code) ==
  IF code = "OK" \/ ~negative THEN [result |-> code, errno |-> "OK"]
  ELSE [result |-> "-1", errno |-> code]

(* Project4_SampleTests/mailbox.c and MikeSanchez/mailbox.c, over          *)
(* Message_LKM: the result.                                                *)
sample_SendMsg(code)       == syscall(FALSE, code).result
sample_RcvMsg(code)        == syscall(FALSE, code).result
sample_ManageMailbox(code) == syscall(FALSE, code).result
mike_SendMsg(code)         == syscall(FALSE, code).result
mike_RcvMsg(code)          == syscall(FALSE, code).result
mike_ManageMailbox(code)   == syscall(FALSE, code).result

(* aFoltan/project4/mailbox.c: errno whenever the result is not 0, also    *)
(* when the call has not set it; it is 0 when a program starts.            *)
FromErrno(call) == IF call.result = "OK" THEN "OK" ELSE call.errno
foltan_SendMsg(negative, code)       == FromErrno(syscall(negative, code))
foltan_RcvMsg(negative, code)        == FromErrno(syscall(negative, code))
foltan_ManageMailbox(negative, code) == FromErrno(syscall(negative, code))
=============================================================================
