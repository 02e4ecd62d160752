--------------------------- MODULE MCReminderCron ---------------------------
(* ReminderCron for TLC: two records, one of them recurring, and two ticks. *)
EXTENDS ReminderCron

CONSTANTS r1, r2
MCRecurs == {r1}
=============================================================================
