------------------------------- MODULE PidSet --------------------------------
(***************************************************************************)
(* What the list of processes promises: pids in the order they were added, *)
(* none twice, at most MAX_PIDS of them.                                   *)
(***************************************************************************)
EXTENDS Naturals, Sequences

CONSTANTS Pids, MAX_PIDS, Callers, NIL

VARIABLES pids, answer

pvars == <<pids, answer>>

listed == {pids[i] : i \in DOMAIN pids}
answers(c, v) == answer' = [answer EXCEPT ![c] = v]

PInit == pids = <<>> /\ answer = [c \in Callers |-> 0]

Add(c, p) ==
  \/ p \in listed /\ answers(c, 0) /\ UNCHANGED pids
  \/ p \notin listed /\ Len(pids) < MAX_PIDS /\ pids' = Append(pids, p) /\ answers(c, 0)
  \/ p \notin listed /\ Len(pids) = MAX_PIDS /\ answers(c, NIL) /\ UNCHANGED pids
Remove(c, p) ==
  /\ \/ p \notin listed /\ UNCHANGED pids
     \/ \E i \in DOMAIN pids :
           /\ pids[i] = p
           /\ pids' = [j \in 1..Len(pids)-1 |-> pids[IF j < i THEN j ELSE j + 1]]
  /\ UNCHANGED answer
Random(c) ==
  /\ answer'[c] \in (IF pids = <<>> THEN {NIL} ELSE listed)
  /\ answers(c, answer'[c])
  /\ UNCHANGED pids
Count(c) == answers(c, Len(pids)) /\ UNCHANGED pids
First(c) == pids # <<>> /\ answers(c, pids[1]) /\ UNCHANGED pids

PNext ==
  \E c \in Callers :
     \/ \E p \in Pids : Add(c, p) \/ Remove(c, p)
     \/ Random(c) \/ Count(c) \/ First(c)

PSpec == PInit /\ [][PNext]_pvars
=============================================================================
