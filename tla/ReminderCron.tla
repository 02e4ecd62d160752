---------------------------- MODULE ReminderCron ----------------------------
(***************************************************************************)
(* The reminder crons of the CRM (src/api/src/crm).  Each finds what is    *)
(* due and not yet marked, and for every find tells somebody and writes a  *)
(* mark; they differ in the order of the two and in what protects them:    *)
(*                                                                         *)
(*   kind       order            mark and its protection                   *)
(*   custom     tell, then mark  status of the reminder, saved from the    *)
(*                               copy the tick read; `running`             *)
(*   lead       mark, then tell  ...ReminderSentAt of a lead or a call     *)
(*                               log, reset when the date moves; `running` *)
(*   listing    mark, then tell  expiryNotification...SentAt, never reset; *)
(*                               `running`                                 *)
(*   plan       tell, then mark  a tracker document, looked up item by     *)
(*                               item and written if delivered; `running`  *)
(*   calendar   mark, then tell  metadata of the activity; no protection   *)
(*                               against overlapping ticks                 *)
(*                                                                         *)
(* The crons share nothing, so a behaviour is about one of them.  A date   *)
(* is the number of the value a record's due date has taken.  running,     *)
(* tick and req are memory of the API process.                             *)
(***************************************************************************)
EXTENDS Naturals, FiniteSets

CONSTANTS
  Item,        \* the records of the cron
  Tick,        \* ticks that may be in progress together
  User,        \* requests on reminders that may be in progress together
  Recurs,      \* custom reminders with a recurrence
  NoReq,       \* a user without a request
  NoItem,      \* a tick without an item in hand
  MaxDate,     \* bound: dates of one record
  MaxFault,    \* bound: crashes and failures, together
  MaxRequest   \* bound: user requests

ASSUME ReminderAssumption ==
  /\ Recurs \subseteq Item /\ IsFiniteSet(Tick)
  /\ \A n \in {MaxDate, MaxFault, MaxRequest} : n \in Nat
  /\ MaxDate # 0

Cron      == {"custom", "lead", "listing", "plan", "calendar"}
TellFirst == {"custom", "plan"}
Date      == 1..MaxDate

VARIABLES
  cron,        \* which cron this is; it never changes
  \* MongoDB
  status,      \* [Item -> PENDING, NOTIFIED (the mark is there), DONE, CANCELLED]
  date,        \* [Item -> its due date]
  phase,       \* [Item -> where the clock stands: before the date, in its window, after it]
  \* memory of the API process
  running,     \* the flag of a guarded cron
  tick,        \* [Tick -> its place in the loop]
  req,         \* [User -> a reminder that was read and not yet saved]
  \* history
  dates,       \* [Item -> dates it has had]
  told,        \* [Item -> [Date -> how often somebody was told]]
  again,       \* [Item -> reasons why a date may be told once more]
  lost,        \* item and date pairs that may be marked and never told
  quiet,       \* [Item -> 0, or 1 + the times told since a user cancelled it]
  faults, requests

durable == <<status, date, phase>>
memory  == <<running, tick, req>>
history == <<dates, told, again, lost, quiet, faults, requests>>
vars    == <<cron, durable, memory, history>>

Read     == [item : Item, date : Date]      \* what a tick read of an item
Idle     == [pc |-> "idle", todo |-> {}, cur |-> NoItem]
TickType == [pc : {"idle", "next", "tell", "mark"}, todo : SUBSET Read,
             cur : Read \cup {NoItem}]
Status   == {"PENDING", "NOTIFIED", "DONE", "CANCELLED"}
Request  == [op : {"done", "cancel", "reschedule"}, item : Item, was : Status]

TypeOK ==
  /\ cron \in Cron
  /\ status \in [Item -> Status] /\ date \in [Item -> Date]
  /\ phase \in [Item -> {"future", "due", "past"}]
  /\ running \in BOOLEAN
  /\ tick \in [Tick -> TickType]
  /\ \A t \in Tick : /\ tick[t].pc \in {"tell", "mark"} => tick[t].cur \in Read
                     /\ tick[t].pc \in {"idle", "next"} => tick[t].cur = NoItem
                     /\ tick[t].pc = "idle" => tick[t].todo = {}
  /\ req \in [User -> Request \cup {NoReq}]
  /\ dates \in [Item -> Date] /\ \A i \in Item : date[i] <= dates[i]
  /\ told \in [Item -> [Date -> Nat]] /\ again \in [Item -> Nat] /\ quiet \in [Item -> Nat]
  /\ lost \subseteq Item \X Date

-----------------------------------------------------------------------------
(* Helpers. *)

Fault == faults < MaxFault /\ faults' = faults + 1

\* The item gets a new due date, in the future or at once.
NewDate(i) ==
  /\ dates[i] < MaxDate
  /\ dates' = [dates EXCEPT ![i] = @ + 1]
  /\ date' = [date EXCEPT ![i] = dates[i] + 1]
  /\ \E p \in {"future", "due"} : phase' = [phase EXCEPT ![i] = p]

Due(i)   == status[i] = "PENDING" /\ phase[i] = "due"
Found    == {[item |-> i, date |-> date[i]] : i \in {j \in Item : Due(j)}}
Cur(t)   == tick[t].cur
Goto(t, pc)  == tick' = [tick EXCEPT ![t].pc = pc]

\* A plausible slip: the item stays in hand when the loop goes on.
Release_KeepsItem(t) == tick' = [tick EXCEPT ![t].pc = "next"]

Release(t)   == tick' = [tick EXCEPT ![t].pc = "next", ![t].cur = NoItem]

\* The ticks that have the item in their hand or before them.
InHand(i) == {t \in Tick : \/ \E s \in tick[t].todo : s.item = i
                           \/ tick[t].pc \in {"tell", "mark"} /\ Cur(t).item = i}

\* What is about to be told, and the items about to be marked.
Owed     == {<<Cur(t).item, Cur(t).date>> : t \in {u \in Tick : tick[u].pc = "tell"}}
Unmarked == {Cur(t).item : t \in {u \in Tick : tick[u].pc = "mark"}}

Init ==
  /\ cron \in Cron
  /\ status = [i \in Item |-> "PENDING"] /\ date = [i \in Item |-> 1]
  /\ phase = [i \in Item |-> "future"]
  /\ running = FALSE /\ tick = [t \in Tick |-> Idle] /\ req = [u \in User |-> NoReq]
  /\ dates = date /\ told = [i \in Item |-> [d \in Date |-> 0]]
  /\ again = [i \in Item |-> 0] /\ lost = {} /\ quiet = again
  /\ faults = 0 /\ requests = 0

-----------------------------------------------------------------------------
(* The crons. *)

\* A plausible slip: the flag is looked at but never set.
Fire_Unguarded(t) ==
  /\ tick[t].pc = "idle" /\ Found # {}
  /\ ~running
  /\ UNCHANGED running
  /\ tick' = [tick EXCEPT ![t].pc = "next", ![t].todo = Found]
  /\ again' = IF cron = "calendar"
              THEN [i \in Item |-> IF Due(i) THEN again[i] + Cardinality(InHand(i)) ELSE again[i]]
              ELSE again
  /\ UNCHANGED <<cron, durable, req, dates, told, lost, quiet, faults, requests>>

\* A tick begins with what is due and unmarked.  A tick that finds nothing is left out.
Fire(t) ==
  /\ tick[t].pc = "idle" /\ Found # {}
  /\ ~running
  /\ running' = (cron # "calendar")
  /\ tick' = [tick EXCEPT ![t].pc = "next", ![t].todo = Found]
  /\ again' = IF cron = "calendar"
              THEN [i \in Item |-> IF Due(i) THEN again[i] + Cardinality(InHand(i)) ELSE again[i]]
              ELSE again
  /\ UNCHANGED <<cron, durable, req, dates, told, lost, quiet, faults, requests>>

InHandOf(t, s) == [pc |-> IF cron \in TellFirst THEN "tell" ELSE "mark",
                    todo |-> tick[t].todo \ {s}, cur |-> s]

\* The next item of the loop.
Take(t) ==
  /\ tick[t].pc = "next" /\ cron # "plan"
  /\ \E s \in tick[t].todo : tick' = [tick EXCEPT ![t] = InHandOf(t, s)]
  /\ UNCHANGED <<cron, durable, running, req, history>>

\* The plan cron goes through all listings and looks up the tracker of each in its turn.
TakePlan(t) ==
  /\ tick[t].pc = "next" /\ cron = "plan"
  /\ \E s \in tick[t].todo :
       \/ status[s.item] = "PENDING" /\ tick' = [tick EXCEPT ![t] = InHandOf(t, s)]
       \/ status[s.item] # "PENDING" /\ tick' = [tick EXCEPT ![t].todo = @ \ {s}]
  /\ UNCHANGED <<cron, durable, running, req, history>>

\* notify(): it catches what fails inside, and the tick goes on.
AfterTell(t, delivered) ==
  IF cron = "custom" \/ (cron = "plan" /\ delivered) THEN Goto(t, "mark") ELSE Release(t)

Tell(t) ==
  /\ tick[t].pc = "tell"
  /\ told' = [told EXCEPT ![Cur(t).item][Cur(t).date] = @ + 1]
  /\ quiet' = [quiet EXCEPT ![Cur(t).item] = IF @ = 0 THEN 0 ELSE @ + 1]
  /\ AfterTell(t, TRUE)
  /\ UNCHANGED <<cron, durable, running, req, dates, again, lost, faults, requests>>

TellFails(t) ==
  /\ tick[t].pc = "tell" /\ Fault
  /\ \E delivered \in BOOLEAN : AfterTell(t, delivered)
  /\ lost' = lost \cup {<<Cur(t).item, Cur(t).date>>}
  /\ UNCHANGED <<cron, durable, running, req, dates, told, again, quiet, requests>>

\* A plausible slip: the status is written whether or not it changed.
Remind_WritesStatus(i) ==
  IF i \in Recurs /\ dates[i] < MaxDate
  THEN NewDate(i) /\ status' = [status EXCEPT ![i] = "PENDING"]
  ELSE status' = [status EXCEPT ![i] = "NOTIFIED"] /\ UNCHANGED <<date, phase, dates>>

\* afterNotified: a recurring reminder moves on from the date that was read, and keeps
\* the status of the stored document (PENDING is what the copy already says, and only
\* changed paths are saved); any other becomes NOTIFIED, whatever it is by now.  The bound
\* on dates ends a recurrence.
Remind(i) ==
  IF i \in Recurs /\ dates[i] < MaxDate
  THEN NewDate(i) /\ UNCHANGED status
  ELSE status' = [status EXCEPT ![i] = "NOTIFIED"] /\ UNCHANGED <<date, phase, dates>>

\* If the date has moved since it was read, the new date is the one that ends up marked.
Overtaken(t) ==
  LET i == Cur(t).item IN
  lost' = IF date[i] = Cur(t).date THEN lost ELSE lost \cup {<<i, date[i]>>}

MarkReminder(t) ==
  /\ tick[t].pc = "mark" /\ cron = "custom"
  /\ Remind(Cur(t).item) /\ Overtaken(t)
  /\ Release(t)
  /\ UNCHANGED <<cron, running, req, told, again, quiet, faults, requests>>

\* The tracker is a document of its own.
TrackPlan(t) ==
  /\ tick[t].pc = "mark" /\ cron = "plan"
  /\ status' = [status EXCEPT ![Cur(t).item] = "NOTIFIED"]
  /\ Release(t)
  /\ UNCHANGED <<cron, date, phase, running, req, dates, told, again, lost, quiet, faults, requests>>

\* The mark of the others is written by _id, whatever the record says by now.
MarkById(t) ==
  /\ tick[t].pc = "mark"
  /\ status' = [status EXCEPT ![Cur(t).item] = "NOTIFIED"] /\ Overtaken(t)
  /\ Goto(t, "tell")
  /\ UNCHANGED <<cron, date, phase, running, req, dates, told, again, quiet, faults, requests>>

MarkLead(t)     == cron = "lead" /\ MarkById(t)
MarkListing(t)  == cron = "listing" /\ MarkById(t)
MarkActivity(t) == cron = "calendar" /\ MarkById(t)

Mark(t) == MarkReminder(t) \/ TrackPlan(t) \/ MarkLead(t) \/ MarkListing(t) \/ MarkActivity(t)

\* A plausible slip: the failure of one item leaves the loop past its `finally`.
MarkFails_LeavesTheLoop(t) ==
  /\ tick[t].pc = "mark" /\ Fault
  /\ tick' = [tick EXCEPT ![t] = Idle]
  /\ again' = IF cron \in TellFirst THEN [again EXCEPT ![Cur(t).item] = @ + 1] ELSE again
  /\ UNCHANGED <<cron, durable, running, req, dates, told, lost, quiet, requests>>

\* The write throws; the loop logs it and goes on with the next item.
MarkFails(t) ==
  /\ tick[t].pc = "mark" /\ Fault
  /\ Release(t)
  /\ again' = IF cron \in TellFirst THEN [again EXCEPT ![Cur(t).item] = @ + 1] ELSE again
  /\ UNCHANGED <<cron, durable, running, req, dates, told, lost, quiet, requests>>

EndTick(t) ==
  /\ tick[t].pc = "next" /\ tick[t].todo = {}
  /\ tick' = [tick EXCEPT ![t] = Idle]
  /\ running' = FALSE
  /\ UNCHANGED <<cron, durable, req, history>>

\* The API process dies and restarts.
Crash ==
  /\ Fault
  /\ tick' = [t \in Tick |-> Idle] /\ running' = FALSE
  /\ req' = [u \in User |-> NoReq]
  /\ lost' = lost \cup (IF cron \in TellFirst THEN {} ELSE Owed)
  /\ again' = [i \in Item |-> IF cron \in TellFirst /\ i \in Unmarked THEN again[i] + 1 ELSE again[i]]
  /\ UNCHANGED <<cron, durable, dates, told, quiet, requests>>

-----------------------------------------------------------------------------
(* Time and users. *)

\* The window of a date opens; it closes only on an outage, one of the faults.
Opens(i) ==
  /\ phase[i] = "future"
  /\ phase' = [phase EXCEPT ![i] = "due"]
  /\ UNCHANGED <<cron, status, date, memory, history>>

Closes(i) ==
  /\ phase[i] = "due" /\ Fault
  /\ phase' = [phase EXCEPT ![i] = "past"]
  /\ UNCHANGED <<cron, status, date, memory, dates, told, again, lost, quiet, requests>>

\* markDone, cancel and reschedule find the reminder ...
Find(u, op, i) ==
  /\ cron = "custom" /\ req[u] = NoReq
  /\ op = "reschedule" => status[i] # "DONE"
  /\ requests < MaxRequest /\ requests' = requests + 1
  /\ req' = [req EXCEPT ![u] = [op |-> op, item |-> i, was |-> status[i]]]
  /\ UNCHANGED <<cron, durable, running, tick, dates, told, again, lost, quiet, faults>>

\* ... and save the paths that changed in their copy.
Close(u, op, value) ==
  LET i == req[u].item IN
  /\ req[u] # NoReq /\ req[u].op = op
  /\ \/ req[u].was = value /\ UNCHANGED <<status, quiet>>
     \/ /\ req[u].was # value
        /\ status' = [status EXCEPT ![i] = value]
        /\ quiet' = [quiet EXCEPT ![i] = IF value = "CANCELLED" THEN 1 ELSE 0]
  /\ req' = [req EXCEPT ![u] = NoReq]
  /\ UNCHANGED <<cron, date, phase, running, tick, dates, told, again, lost, faults, requests>>

MarkDone(u) == Close(u, "done", "DONE")
Cancel(u)   == Close(u, "cancel", "CANCELLED")

Reschedule(u) ==
  LET i == req[u].item IN
  /\ req[u] # NoReq /\ req[u].op = "reschedule"
  /\ NewDate(i)
  /\ \/ /\ req[u].was # "PENDING"
        /\ status' = [status EXCEPT ![i] = "PENDING"]
        /\ quiet' = [quiet EXCEPT ![i] = 0]
        /\ UNCHANGED lost
     \/ /\ req[u].was = "PENDING" /\ UNCHANGED <<status, quiet>>
        /\ lost' = IF status[i] = "NOTIFIED" THEN lost \cup {<<i, dates[i] + 1>>} ELSE lost
  /\ req' = [req EXCEPT ![u] = NoReq]
  /\ UNCHANGED <<cron, running, tick, told, again, faults, requests>>

MoveDate(i) ==
  /\ requests < MaxRequest /\ requests' = requests + 1
  /\ NewDate(i)
  /\ UNCHANGED <<cron, memory, told, again, quiet, faults>>

\* A plausible slip: the new date keeps the old mark.
MoveLead_KeepsMark(i) ==
  /\ cron = "lead" /\ MoveDate(i)
  /\ UNCHANGED <<status, lost>>

\* A lead and a call log lose their mark with the write of the new date.
MoveLead(i) ==
  /\ cron = "lead" /\ MoveDate(i)
  /\ status' = [status EXCEPT ![i] = "PENDING"]
  /\ UNCHANGED lost

\* A listing keeps it.
MoveListing(i) ==
  /\ cron = "listing" /\ MoveDate(i)
  /\ lost' = IF status[i] = "NOTIFIED" THEN lost \cup {<<i, dates[i] + 1>>} ELSE lost
  /\ UNCHANGED status

TickStep(t) == Fire(t) \/ Take(t) \/ TakePlan(t) \/ Tell(t) \/ TellFails(t)
               \/ Mark(t) \/ MarkFails(t) \/ EndTick(t)
UserStep(u) ==
  \/ \E op \in {"done", "cancel", "reschedule"}, i \in Item : Find(u, op, i)
  \/ MarkDone(u) \/ Cancel(u) \/ Reschedule(u)

Next ==
  \/ \E t \in Tick : TickStep(t)
  \/ \E u \in User : UserStep(u)
  \/ \E i \in Item : Opens(i) \/ Closes(i) \/ MoveLead(i) \/ MoveListing(i)
  \/ Crash

Spec == Init /\ [][Next]_vars

\* The crons fire every minute or every hour and their loops run on; users owe nothing.
FairSpec ==
  /\ Spec
  /\ \A t \in Tick : /\ WF_vars(Fire(t)) /\ WF_vars(Take(t)) /\ WF_vars(TakePlan(t)) /\ WF_vars(Tell(t))
                     /\ WF_vars(Mark(t)) /\ WF_vars(EndTick(t))

-----------------------------------------------------------------------------
(* Safety. *)

\* Nobody is told of the same date twice, unless a mark was lost after a notification (a
\* failed write or a crash between the two) or, for the calendar, a tick read the item
\* while another one held it unmarked.
OncePerDate == \A i \in Item, d \in Date : told[i][d] <= 1 + again[i]

\* A record that is marked has been told of its date, unless the notification failed, the
\* process died in between, the date moved while a tick held the record, or it is a
\* listing whose date moved after its mark.
MarkedWasTold ==
  \A i \in Item : status[i] = "NOTIFIED" /\ told[i][date[i]] = 0
                    => <<i, date[i]>> \in lost \cup Owed

\* A cancelled reminder is heard of at most once more, from the tick that already held it:
\* "Remove (cancel) a reminder so it never fires again".
CancelledIsQuiet == \A i \in Item : quiet[i] <= 2

(* Liveness. *)

\* A date whose window is open is told, unless it moves, is closed by a user, its window
\* passes or it is one of the lost ones.
DueIsTold ==
  \A i \in Item, d \in Date :
    (Due(i) /\ date[i] = d)
      ~> (told[i][d] > 0 \/ <<i, d>> \in lost \/ date[i] # d \/ phase[i] # "due"
            \/ status[i] \in {"DONE", "CANCELLED"})
=============================================================================
