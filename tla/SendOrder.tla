------------------------------ MODULE SendOrder ------------------------------
(***************************************************************************)
(* Syscalls.tla with history variables: which Messages were on the list at *)
(* some time since they were allocated, and which of them was there before *)
(* which other.  A Message that is put back keeps its place in that order. *)
(***************************************************************************)
EXTENDS Syscalls

VARIABLES
  arrived,  \* the allocated Messages that have been added to the list
  earlier   \* the pairs of them whose first was added before the second

history == <<arrived, earlier>>

OnList == {messages[i] : i \in DOMAIN messages}

(* The history after a step: what is on the list and was not there before  *)
(* comes last, what has been freed is forgotten.                           *)
Record ==
  LET new == OnList' \ arrived
  IN  /\ arrived' = (arrived \cup new) \cap slab'
      /\ earlier' = (earlier \cup (arrived \X new)) \cap (slab' \X slab')

OInit == SInit /\ arrived = {} /\ earlier = {}
ONext == SNext /\ Record
OSpec == OInit /\ [][ONext]_<<svars, history>>

(* Messages are received in the order they were sent, also when receives   *)
(* fail to copy theirs and put them back (the head flag of                 *)
(* mailbox_add_message is there "to preserve FIFO").                       *)
FifoEvenIfErrors ==
  \A i, j \in DOMAIN messages : <<messages[i], messages[j]>> \in earlier => i < j
=============================================================================
