---------------------------- MODULE MCInterceptor ----------------------------
(***************************************************************************)
(* Instances of the module's loading and unloading.                        *)
(***************************************************************************)
EXTENDS Interceptor, TLC

CONSTANTS t1, t2, t3, cpu0, cpu1
=============================================================================
