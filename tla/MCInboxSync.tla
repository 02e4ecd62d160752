----------------------------- MODULE MCInboxSync -----------------------------
(* Values for the constants of InboxSync.                                    *)
EXTENDS InboxSync, TLC

CONSTANTS m1, m2, cron, idle

\* The cron looks at more messages than a listener does.
Windows   == [s \in Syncer |-> IF s \in Poller THEN 2 ELSE 1]
=============================================================================
