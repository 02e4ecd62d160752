-------------------------- MODULE MCDelayedJobQueue --------------------------
(* Small instances of DelayedJobQueue for TLC. *)
EXTENDS DelayedJobQueue, TLC

CONSTANTS q1, q2, q3, w1, w2, e1, t1, t2

Delay      == [kind |-> "delay"]
Task       == [kind |-> "task"]
Email(t)   == [kind |-> "email", tpl |-> t, jitter |-> FALSE]
Jittery(t) == [kind |-> "email", tpl |-> t, jitter |-> TRUE]

\* One record, one run that parks twice and sends two emails from its second row.
OneRunWf     == [q \in {q1} |-> w1]
OneRunRec    == [q \in {q1} |-> e1]
OneRunScript == [w \in {w1} |-> <<Task, Delay, Task, Jittery(t1), Email(t2)>>]

\* The same with nothing after its second row's email.
ParksTwice == [w \in {w1} |-> <<Task, Delay, Jittery(t1)>>]

\* Two runs of one workflow and one of another, for the same record.
TwoAndOne == [q \in {q1, q2, q3} |-> IF q = q3 THEN w2 ELSE w1]
SameRec == [q \in Run |-> e1]
Restarted == [w \in {w1, w2} |->
               IF w = w1 THEN <<Email(t1), Delay, Email(t2)>> ELSE <<Task>>]

JobSymmetry == Permutations(JobId)
=============================================================================
