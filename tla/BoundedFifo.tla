----------------------------- MODULE BoundedFifo -----------------------------
(***************************************************************************)
(* What a mailbox promises its callers: a bounded first-in-first-out queue *)
(* that can be closed, after which it only drains, and finally discarded.  *)
(* A new item goes to the tail; one a caller has in its hands already goes *)
(* back to the head; and waiting for room changes neither.  Every answer   *)
(* is true of the queue at the moment it is given.  There are no locks, no *)
(* wait queues and no counters here; Mailbox.tla implements it.            *)
(***************************************************************************)
EXTENDS Naturals, Sequences

CONSTANTS Callers, Items, Nothing, Garbage, Capacity

VARIABLES
  queue,   \* oldest first
  closed,
  discarded,
  held,    \* the item each caller offers or was given
  place,   \* the end of the queue each waiting offerer's item goes to, or "none"
  answer   \* the last answer each caller got

fvars == <<queue, closed, discarded, held, place, answer>>

FInit ==
  /\ queue = <<>>
  /\ closed = FALSE
  /\ discarded = FALSE
  /\ held = [c \in Callers |-> Nothing]
  /\ place = [c \in Callers |-> "none"]
  /\ answer = [c \in Callers |-> "OK"]

give(c, x, code) ==
  /\ held' = [held EXCEPT ![c] = x]
  /\ place' = [place EXCEPT ![c] = "none"]
  /\ answer' = [answer EXCEPT ![c] = code]

full == Len(queue) >= Capacity

(* The end of the queue that caller's item goes to. *)
end(c, x) ==
  IF place[c] # "none" THEN place[c]
  ELSE IF held[c] = x THEN "head" ELSE "tail"

Accept(c, x) ==
  /\ ~closed /\ ~full
  /\ held[c] \in {Nothing, x}
  /\ queue' = IF end(c, x) = "head" THEN <<x>> \o queue ELSE Append(queue, x)
  /\ give(c, Nothing, "OK")
  /\ UNCHANGED <<closed, discarded>>

(* An item is offered to a full queue, and the caller waits. *)
Offer(c, x) ==
  /\ ~closed /\ full
  /\ held[c] \in {Nothing, x}
  /\ held' = [held EXCEPT ![c] = x]
  /\ place' = [place EXCEPT ![c] = end(c, x)]
  /\ UNCHANGED answer
  /\ UNCHANGED <<queue, closed, discarded>>

(* The oldest item is handed out. *)
Deliver(c) ==
  /\ held[c] = Nothing
  /\ queue # <<>>
  /\ queue' = Tail(queue)
  /\ give(c, Head(queue), "OK")
  /\ UNCHANGED <<closed, discarded>>

(* The four ways to be turned away, each with the caller's item left as it *)
(* is: an offerer keeps its item, a receiver has none.                     *)
Refuse(c, x) ==
  /\ held[c] \in {Nothing, x}
  /\ \/ ~closed /\ full /\ x # Nothing /\ give(c, x, "MAILBOX_FULL")
     \/ ~closed /\ queue = <<>> /\ x = Nothing /\ give(c, x, "MAILBOX_EMPTY")
     \/ closed /\ (x = Nothing => queue = <<>>) /\ give(c, x, "MAILBOX_STOPPED")
     \/ ~closed /\ (IF x = Nothing THEN queue = <<>> ELSE full)
                /\ give(c, x, "MAILBOX_ERROR")
  /\ UNCHANGED <<queue, closed, discarded>>

(* A caller ends its use of the queue. *)
Finish(c) == give(c, Nothing, "OK") /\ UNCHANGED <<queue, closed, discarded>>

(* Closing is for good, whoever does it. *)
Close ==
  /\ closed' = TRUE
  /\ \/ UNCHANGED answer
     \/ \E c \in Callers : answer' = [answer EXCEPT ![c] = "OK"]
  /\ UNCHANGED <<queue, discarded, held, place>>

(* Only a closed queue is discarded. *)
Discard ==
  /\ closed
  /\ queue' = <<>>
  /\ discarded' = TRUE
  /\ UNCHANGED <<closed, held, place, answer>>

(* What a caller that still holds a discarded queue receives from it is    *)
(* not promised.                                                           *)
Undefined(c) ==
  /\ discarded
  /\ held[c] = Nothing
  /\ give(c, Garbage, "OK")
  /\ UNCHANGED <<queue, closed, discarded>>

FNext ==
  \/ \E c \in Callers :
        \/ \E x \in Items \cup {Garbage} : Accept(c, x) \/ Offer(c, x)
        \/ \E x \in Items \cup {Nothing, Garbage} : Refuse(c, x)
        \/ Deliver(c)
        \/ Finish(c)
        \/ Undefined(c)
  \/ Close
  \/ Discard

FSpec == FInit /\ [][FNext]_fvars
=============================================================================
