------------------------- MODULE ReminderCronProofs -------------------------
(***************************************************************************)
(* Proofs about ReminderCron, for any number of records, ticks, users,     *)
(* dates, requests and faults: the types, and that a date is told once, a  *)
(* marked record was told and a cancelled reminder is quiet.               *)
(***************************************************************************)
EXTENDS ReminderCron, FiniteSetTheorems, TLAPS

USE ReminderAssumption

-----------------------------------------------------------------------------
(* Types. *)

Ticks == [Tick -> TickType]

\* What TypeOK says of one tick.
TickFits(x) == /\ x \in TickType
               /\ x.pc \in {"tell", "mark"} => x.cur \in Read
               /\ x.pc \in {"idle", "next"} => x.cur = NoItem
               /\ x.pc = "idle" => x.todo = {}

TicksFit == tick \in Ticks /\ \A t \in Tick : TickFits(tick[t])

LEMMA IdleFits == TickFits(Idle)
BY DEF TickFits, Idle, TickType

\* The places a tick may go to.
LEMMA ReleaseFits ==
  ASSUME TypeOK, NEW t \in Tick, Release(t)
  PROVE  TicksFit'
<1> DEFINE x == [tick[t] EXCEPT !.pc = "next", !.cur = NoItem]
<1>1. TickFits(x)
  <2>1. tick[t] \in TickType
    BY DEF TypeOK
  <2>2. x.pc = "next" /\ x.cur = NoItem
    BY <2>1 DEF TickType
  <2>3. x \in TickType
    BY <2>1 DEF TickType
  <2> QED BY <2>2, <2>3 DEF TickFits
<1>2. tick' = [tick EXCEPT ![t] = x]
  BY DEF Release, TypeOK, TickType
<1> QED BY <1>1, <1>2 DEF TypeOK, TicksFit, TickFits, Ticks

LEMMA GotoFits ==
  ASSUME TypeOK, NEW t \in Tick, NEW pc \in {"tell", "mark"}, tick[t].pc \in {"tell", "mark"}, Goto(t, pc)
  PROVE  TicksFit'
<1> DEFINE x == [tick[t] EXCEPT !.pc = pc]
<1>1. TickFits(x)
  BY DEF TypeOK, TickFits, TickType
<1>2. tick' = [tick EXCEPT ![t] = x]
  BY DEF Goto, TypeOK, TickType
<1> QED BY <1>1, <1>2 DEF TypeOK, TicksFit, TickFits, Ticks

LEMMA TakeFits ==
  ASSUME TypeOK, NEW t \in Tick, Take(t) \/ TakePlan(t)
  PROVE  TicksFit'
<1>1. PICK s \in tick[t].todo :
        \/ tick' = [tick EXCEPT ![t] = InHandOf(t, s)]
        \/ tick' = [tick EXCEPT ![t].todo = @ \ {s}]
  BY DEF Take, TakePlan
<1>2. tick[t].pc = "next" /\ tick[t] \in TickType /\ tick[t].cur = NoItem
  BY DEF Take, TakePlan, TypeOK
<1>3. s \in Read
  BY <1>2 DEF TickType
<1>4. TickFits(InHandOf(t, s))
  BY <1>2, <1>3 DEF TickFits, TickType, InHandOf
<1> DEFINE x == [tick[t] EXCEPT !.todo = @ \ {s}]
<1>5. TickFits(x)
  BY <1>2 DEF TickFits, TickType
<1>6. CASE tick' = [tick EXCEPT ![t] = InHandOf(t, s)]
  BY <1>4, <1>6 DEF TypeOK, TicksFit, TickFits, Ticks
<1>7. CASE tick' = [tick EXCEPT ![t].todo = @ \ {s}]
  <2>1. tick' = [tick EXCEPT ![t] = x]
    BY <1>2, <1>7 DEF TypeOK, TickType
  <2> QED BY <1>5, <2>1 DEF TypeOK, TicksFit, TickFits, Ticks
<1> QED BY <1>1, <1>6, <1>7

LEMMA FireFits ==
  ASSUME TypeOK, NEW t \in Tick, Fire(t)
  PROVE  TicksFit'
<1> DEFINE x == [tick[t] EXCEPT !.pc = "next", !.todo = Found]
<1>1. Found \subseteq Read
  BY DEF Found, Read, TypeOK
<1>2. TickFits(x)
  BY <1>1 DEF TypeOK, TickFits, TickType, Fire
<1>3. tick' = [tick EXCEPT ![t] = x]
  BY DEF Fire, TypeOK, TickType
<1> QED BY <1>2, <1>3 DEF TypeOK, TicksFit, TickFits, Ticks

LEMMA NewDateType ==
  ASSUME TypeOK, NEW i \in Item, NewDate(i)
  PROVE  /\ date' \in [Item -> Date] /\ dates' \in [Item -> Date]
         /\ \A j \in Item : date'[j] <= dates'[j]
         /\ phase' \in [Item -> {"future", "due", "past"}]
         /\ date' = [date EXCEPT ![i] = dates[i] + 1] /\ dates' = [dates EXCEPT ![i] = @ + 1]
         /\ dates[i] + 1 \in Date
<1>1. /\ date \in [Item -> Date] /\ dates \in [Item -> Date] /\ \A j \in Item : date[j] <= dates[j]
      /\ phase \in [Item -> {"future", "due", "past"}]
  BY DEF TypeOK
<1>2. /\ date' = [date EXCEPT ![i] = dates[i] + 1] /\ dates' = [dates EXCEPT ![i] = @ + 1]
      /\ \E p \in {"future", "due"} : phase' = [phase EXCEPT ![i] = p]
      /\ dates[i] < MaxDate
  BY DEF NewDate
<1>3. dates[i] + 1 \in Date
  BY <1>1, <1>2 DEF Date
<1>4. date' \in [Item -> Date] /\ dates' \in [Item -> Date] /\ phase' \in [Item -> {"future", "due", "past"}]
  BY <1>1, <1>2, <1>3
<1>5. ASSUME NEW j \in Item  PROVE date'[j] <= dates'[j]
  <2>1. date'[j] = (IF j = i THEN dates[i] + 1 ELSE date[j]) /\ dates'[j] = (IF j = i THEN dates[i] + 1 ELSE dates[j])
    BY <1>1, <1>2
  <2> QED BY <1>1, <1>3, <2>1 DEF Date
<1> QED BY <1>2, <1>3, <1>4, <1>5

LEMMA Typed ==
  ASSUME TypeOK, TicksFit', cron' = cron, running' \in BOOLEAN,
         status' \in [Item -> Status], req' \in [User -> Request \cup {NoReq}],
         \/ UNCHANGED <<date, dates, phase>>
         \/ \E i \in Item : NewDate(i)
         \/ UNCHANGED <<date, dates>> /\ phase' \in [Item -> {"future", "due", "past"}],
         told' \in [Item -> [Date -> Nat]], again' \in [Item -> Nat], quiet' \in [Item -> Nat],
         lost' \subseteq Item \X Date
  PROVE  TypeOK'
<1>1. /\ date' \in [Item -> Date] /\ dates' \in [Item -> Date]
      /\ \A j \in Item : date'[j] <= dates'[j]
      /\ phase' \in [Item -> {"future", "due", "past"}]
  BY NewDateType DEF TypeOK
<1> QED BY <1>1 DEF TypeOK, TicksFit, TickFits, Ticks

LEMMA Untouched ==
  ASSUME TypeOK, UNCHANGED tick
  PROVE  TicksFit'
BY DEF TypeOK, TicksFit, TickFits, Ticks

\* The item a tick holds.
LEMMA InHandType ==
  ASSUME TypeOK, NEW t \in Tick, tick[t].pc \in {"tell", "mark"}
  PROVE  Cur(t) \in Read /\ Cur(t).item \in Item /\ Cur(t).date \in Date
BY DEF TypeOK, Read, Cur

LEMMA InHandFinite == ASSUME NEW i  PROVE Cardinality(InHand(i)) \in Nat
<1>1. InHand(i) \subseteq Tick
  BY DEF InHand
<1> QED BY <1>1, FS_Subset, FS_CardinalityType

LEMMA InitTyped == Init => TypeOK
<1> SUFFICES ASSUME Init  PROVE TypeOK
  OBVIOUS
<1>1. 1 \in Date
  BY DEF Date
<1>2. tick \in Ticks /\ \A t \in Tick : TickFits(tick[t])
  BY IdleFits DEF Init, Ticks, TickFits
<1>3. date \in [Item -> Date] /\ dates = date /\ \A i \in Item : date[i] <= dates[i]
  BY <1>1 DEF Init
<1>4. told \in [Item -> [Date -> Nat]] /\ again \in [Item -> Nat] /\ quiet = again /\ lost = {}
  BY DEF Init
<1>5. status \in [Item -> Status] /\ phase \in [Item -> {"future", "due", "past"}]
      /\ running = FALSE /\ req \in [User -> Request \cup {NoReq}] /\ cron \in Cron
  BY DEF Init, Status
<1> QED BY <1>2, <1>3, <1>4, <1>5 DEF TypeOK, TickFits, Ticks

LEMMA FireTyped == ASSUME TypeOK, NEW t \in Tick, Fire(t)  PROVE TypeOK'
<1>1. again' \in [Item -> Nat]
  BY InHandFinite DEF TypeOK, Fire
<1>2. UNCHANGED <<cron, status, date, dates, phase, req, told, lost, quiet>> /\ running' \in BOOLEAN
  BY DEF Fire, durable
<1> QED BY <1>1, <1>2, FireFits, Typed DEF TypeOK

LEMMA TakeTyped == ASSUME TypeOK, NEW t \in Tick, Take(t) \/ TakePlan(t)  PROVE TypeOK'
<1>1. UNCHANGED <<cron, status, date, dates, phase, running, req, told, again, lost, quiet>>
  BY DEF Take, TakePlan, durable, history
<1> QED BY <1>1, TakeFits, Typed DEF TypeOK

LEMMA AfterTellFits ==
  ASSUME TypeOK, NEW t \in Tick, tick[t].pc = "tell", NEW delivered \in BOOLEAN, AfterTell(t, delivered)
  PROVE  TicksFit'
BY ReleaseFits, GotoFits DEF AfterTell

LEMMA TellTyped == ASSUME TypeOK, NEW t \in Tick, Tell(t)  PROVE TypeOK'
<1>1. TicksFit'
  BY AfterTellFits DEF Tell
<1> DEFINE i == Cur(t).item  d == Cur(t).date
<1>2. i \in Item /\ d \in Date
  BY InHandType DEF Tell
<1>3. told' = [told EXCEPT ![i][d] = @ + 1]
      /\ quiet' = [quiet EXCEPT ![i] = IF @ = 0 THEN 0 ELSE @ + 1]
  BY DEF Tell
<1>4. told' \in [Item -> [Date -> Nat]] /\ quiet' \in [Item -> Nat]
  BY <1>2, <1>3 DEF TypeOK
<1>5. UNCHANGED <<cron, status, date, dates, phase, running, req, again, lost>>
  BY DEF Tell, durable
<1> QED BY <1>1, <1>4, <1>5, Typed DEF TypeOK

LEMMA TellFailsTyped == ASSUME TypeOK, NEW t \in Tick, TellFails(t)  PROVE TypeOK'
<1>1. TicksFit'
  BY AfterTellFits DEF TellFails
<1>2. lost' \subseteq Item \X Date
  BY InHandType DEF TellFails, TypeOK
<1>3. UNCHANGED <<cron, status, date, dates, phase, running, req, told, again, quiet>>
  BY DEF TellFails, durable
<1> QED BY <1>1, <1>2, <1>3, Typed DEF TypeOK

LEMMA MarkReminderTyped == ASSUME TypeOK, NEW t \in Tick, MarkReminder(t)  PROVE TypeOK'
<1> DEFINE i == Cur(t).item
<1>1. i \in Item
  BY InHandType DEF MarkReminder
<1>2. Remind(i) /\ Overtaken(t) /\ Release(t)
      /\ UNCHANGED <<cron, running, req, told, again, quiet>>
  BY DEF MarkReminder
<1>3. lost' \subseteq Item \X Date
  BY <1>1, <1>2 DEF Overtaken, TypeOK
<1>4. status' \in [Item -> Status]
  BY <1>2 DEF Remind, TypeOK, Status
<1>5. UNCHANGED <<date, dates, phase>> \/ \E j \in Item : NewDate(j)
  BY <1>1, <1>2 DEF Remind
<1>6. TicksFit'
  BY <1>2, ReleaseFits
<1>7. running' \in BOOLEAN /\ req' \in [User -> Request \cup {NoReq}] /\ cron' = cron
      /\ told' \in [Item -> [Date -> Nat]] /\ again' \in [Item -> Nat] /\ quiet' \in [Item -> Nat]
  BY <1>2 DEF TypeOK
<1> QED BY <1>3, <1>4, <1>5, <1>6, <1>7, Typed

LEMMA TrackPlanTyped == ASSUME TypeOK, NEW t \in Tick, TrackPlan(t)  PROVE TypeOK'
<1>1. TicksFit'
  BY ReleaseFits DEF TrackPlan
<1>2. status' \in [Item -> Status]
  BY DEF TrackPlan, TypeOK, Status
<1>3. UNCHANGED <<cron, date, dates, phase, running, req, told, again, lost, quiet>>
  BY DEF TrackPlan
<1> QED BY <1>1, <1>2, <1>3, Typed DEF TypeOK

LEMMA MarkByIdTyped == ASSUME TypeOK, NEW t \in Tick, MarkById(t)  PROVE TypeOK'
<1>1. TicksFit'
  BY GotoFits DEF MarkById
<1>2. status' \in [Item -> Status] /\ lost' \subseteq Item \X Date
  BY InHandType DEF MarkById, TypeOK, Status, Overtaken
<1>3. UNCHANGED <<cron, date, dates, phase, running, req, told, again, quiet>>
  BY DEF MarkById
<1> QED BY <1>1, <1>2, <1>3, Typed DEF TypeOK

LEMMA MarkFailsTyped == ASSUME TypeOK, NEW t \in Tick, MarkFails(t)  PROVE TypeOK'
<1>1. TicksFit'
  BY ReleaseFits DEF MarkFails
<1>2. again' \in [Item -> Nat]
  BY InHandType DEF MarkFails, TypeOK
<1>3. UNCHANGED <<cron, status, date, dates, phase, running, req, told, lost, quiet>>
  BY DEF MarkFails, durable
<1> QED BY <1>1, <1>2, <1>3, Typed DEF TypeOK

LEMMA MarkTyped == ASSUME TypeOK, NEW t \in Tick, Mark(t)  PROVE TypeOK'
BY MarkReminderTyped, TrackPlanTyped, MarkByIdTyped DEF Mark, MarkLead, MarkListing, MarkActivity

LEMMA EndTickTyped == ASSUME TypeOK, NEW t \in Tick, EndTick(t)  PROVE TypeOK'
<1>1. TicksFit'
  BY IdleFits DEF EndTick, TypeOK, TicksFit, TickFits, Ticks
<1>2. UNCHANGED <<cron, status, date, dates, phase, req, told, again, lost, quiet>> /\ running' = FALSE
  BY DEF EndTick, durable, history
<1> QED BY <1>1, <1>2, Typed DEF TypeOK

LEMMA CrashTyped == ASSUME TypeOK, Crash  PROVE TypeOK'
<1>1. TicksFit'
  BY IdleFits DEF Crash, TypeOK, TicksFit, TickFits, Ticks
<1>2. again' \in [Item -> Nat] /\ req' \in [User -> Request \cup {NoReq}] /\ running' = FALSE
  BY DEF Crash, TypeOK
<1>3. Owed \subseteq Item \X Date
  BY InHandType DEF Owed
<1>4. lost' \subseteq Item \X Date
  BY <1>3 DEF Crash, TypeOK
<1>5. UNCHANGED <<cron, status, date, dates, phase, told, quiet>>
  BY DEF Crash, durable
<1> QED BY <1>1, <1>2, <1>4, <1>5, Typed DEF TypeOK

LEMMA ClockTyped == ASSUME TypeOK, NEW i \in Item, Opens(i) \/ Closes(i)  PROVE TypeOK'
<1>1. phase' \in [Item -> {"future", "due", "past"}]
  BY DEF Opens, Closes, TypeOK
<1>2. UNCHANGED <<cron, status, date, dates, running, tick, req, told, again, lost, quiet>>
  BY DEF Opens, Closes, memory, history
<1> QED BY <1>1, <1>2, Untouched, Typed DEF TypeOK

LEMMA RequestType ==
  ASSUME TypeOK, NEW u \in User, req[u] # NoReq
  PROVE  req[u].item \in Item /\ req[u].was \in Status
BY DEF TypeOK, Request

LEMMA FindTyped ==
  ASSUME TypeOK, NEW u \in User, NEW op \in {"done", "cancel", "reschedule"}, NEW i \in Item, Find(u, op, i)
  PROVE  TypeOK'
<1>1. req' \in [User -> Request \cup {NoReq}]
  BY DEF Find, TypeOK, Request
<1>2. UNCHANGED <<cron, status, date, dates, phase, running, tick, told, again, lost, quiet>>
  BY DEF Find, durable
<1> QED BY <1>1, <1>2, Untouched, Typed DEF TypeOK

LEMMA CloseTyped ==
  ASSUME TypeOK, NEW u \in User, MarkDone(u) \/ Cancel(u)
  PROVE  TypeOK'
<1>1. req[u].item \in Item
  BY RequestType DEF MarkDone, Cancel, Close
<1>2. req' \in [User -> Request \cup {NoReq}]
  BY DEF MarkDone, Cancel, Close, TypeOK
<1>3. \/ UNCHANGED <<status, quiet>>
      \/ /\ \/ status' = [status EXCEPT ![req[u].item] = "DONE"]
            \/ status' = [status EXCEPT ![req[u].item] = "CANCELLED"]
         /\ \E n \in {0, 1} : quiet' = [quiet EXCEPT ![req[u].item] = n]
  BY DEF MarkDone, Cancel, Close
<1>4. UNCHANGED <<cron, date, dates, phase, running, tick, told, again, lost>>
  BY DEF MarkDone, Cancel, Close
<1>5. status' \in [Item -> Status]
  BY <1>3 DEF TypeOK, Status
<1>6. quiet' \in [Item -> Nat]
  BY <1>3 DEF TypeOK
<1> QED BY <1>2, <1>4, <1>5, <1>6, Untouched, Typed DEF TypeOK

LEMMA RescheduleTyped == ASSUME TypeOK, NEW u \in User, Reschedule(u)  PROVE TypeOK'
<1> DEFINE i == req[u].item
<1>1. i \in Item
  BY RequestType DEF Reschedule
<1>2. req' \in [User -> Request \cup {NoReq}]
  BY DEF Reschedule, TypeOK
<1>3. NewDate(i) /\ UNCHANGED <<cron, running, tick, told, again>>
  BY DEF Reschedule
<1>4. \/ UNCHANGED <<status, quiet>>
      \/ /\ status' = [status EXCEPT ![i] = "PENDING"]
         /\ quiet' = [quiet EXCEPT ![i] = 0]
  BY DEF Reschedule
<1>5. lost' \subseteq Item \X Date
  BY <1>1, <1>3, NewDateType DEF Reschedule, TypeOK
<1>6. status' \in [Item -> Status]
  BY <1>4 DEF TypeOK, Status
<1>7. quiet' \in [Item -> Nat]
  BY <1>4 DEF TypeOK
<1> QED BY <1>1, <1>2, <1>3, <1>5, <1>6, <1>7, Untouched, Typed DEF TypeOK

LEMMA MoveTyped == ASSUME TypeOK, NEW i \in Item, MoveLead(i) \/ MoveListing(i)  PROVE TypeOK'
<1>1. NewDate(i) /\ UNCHANGED <<cron, running, tick, req, told, again, quiet>>
  BY DEF MoveLead, MoveListing, MoveDate, memory
<1>2. status' \in [Item -> Status]
  BY DEF MoveLead, MoveListing, TypeOK, Status
<1>3. lost' \subseteq Item \X Date
  BY <1>1, NewDateType DEF MoveLead, MoveListing, TypeOK
<1> QED BY <1>1, <1>2, <1>3, Untouched, Typed DEF TypeOK

LEMMA StutterTyped == ASSUME TypeOK, UNCHANGED vars  PROVE TypeOK'
BY DEF TypeOK, vars, durable, memory, history

\* The variables keep their types: in particular a tick has an item in hand when it tells
\* or marks, and no record's due date is one it has not had.
THEOREM TypeCorrect == Spec => []TypeOK
<1>1. TypeOK /\ [Next]_vars => TypeOK'
  <2> SUFFICES ASSUME TypeOK, [Next]_vars  PROVE TypeOK'
    OBVIOUS
  <2>1. ASSUME NEW t \in Tick, TickStep(t)  PROVE TypeOK'
    BY <2>1, FireTyped, TakeTyped, TellTyped, TellFailsTyped, MarkTyped, MarkFailsTyped, EndTickTyped
       DEF TickStep
  <2>2. ASSUME NEW u \in User, UserStep(u)  PROVE TypeOK'
    BY <2>2, FindTyped, CloseTyped, RescheduleTyped DEF UserStep
  <2>3. ASSUME NEW i \in Item, Opens(i) \/ Closes(i) \/ MoveLead(i) \/ MoveListing(i)  PROVE TypeOK'
    BY <2>3, ClockTyped, MoveTyped
  <2> QED BY <2>1, <2>2, <2>3, CrashTyped, StutterTyped DEF Next
<1> QED BY InitTyped, <1>1, PTL DEF Spec

-----------------------------------------------------------------------------
(* How ticks move.  A step other than the beginning of a tick only works off what the *)
(* ticks have found.                                                                   *)

Goes(t) ==
  /\ tick'[t].todo \subseteq tick[t].todo
  /\ tick[t].pc = "idle" => tick'[t].pc = "idle"
  /\ \/ tick'[t].pc \in {"idle", "next"}
     \/ tick'[t].pc = tick[t].pc /\ tick'[t].cur = tick[t].cur
     \/ /\ tick[t].pc = "next" /\ tick'[t].cur \in tick[t].todo \ tick'[t].todo
        /\ tick'[t].pc = IF cron \in TellFirst THEN "tell" ELSE "mark"
     \/ /\ tick[t].pc = "mark" /\ tick'[t].pc = "tell" /\ tick'[t].cur = tick[t].cur
        /\ cron \notin TellFirst /\ MarkById(t)
     \/ /\ tick[t].pc = "tell" /\ tick'[t].pc = "mark" /\ tick'[t].cur = tick[t].cur
        /\ cron \in TellFirst /\ (Tell(t) \/ TellFails(t))

WorkOff == cron' = cron /\ \A t \in Tick : Goes(t)

LEMMA GoesOn ==
  ASSUME NEW t, Goes(t)
  PROVE  /\ tick'[t].todo \subseteq tick[t].todo
         /\ tick'[t].pc \in {"tell", "mark"}
              => \/ tick[t].pc \in {"tell", "mark"} /\ tick'[t].cur = tick[t].cur
                 \/ tick'[t].cur \in tick[t].todo \ tick'[t].todo
<1>1. tick'[t].todo \subseteq tick[t].todo
  BY DEF Goes
<1> QED BY <1>1 DEF Goes

LEMMA StayGoes == ASSUME NEW t, tick'[t] = tick[t]  PROVE Goes(t)
BY DEF Goes

LEMMA OneGoes ==
  ASSUME TypeOK, cron' = cron, NEW t \in Tick, NEW x, tick' = [tick EXCEPT ![t] = x], Goes(t)
  PROVE  WorkOff
<1>1. \A u \in Tick \ {t} : tick'[u] = tick[u]
  BY DEF TypeOK
<1> QED BY <1>1, StayGoes DEF WorkOff

LEMMA ReleaseGoes == ASSUME TypeOK, cron' = cron, NEW t \in Tick, tick[t].pc # "idle", Release(t)  PROVE WorkOff
<1> DEFINE x == [tick[t] EXCEPT !.pc = "next", !.cur = NoItem]
<1>1. tick' = [tick EXCEPT ![t] = x]
  BY DEF Release, TypeOK, TickType
<1>2. x.todo = tick[t].todo /\ x.pc = "next"
  BY DEF TypeOK, TickType
<1>3. tick'[t] = x
  BY <1>1 DEF TypeOK
<1>4. Goes(t)
  BY <1>2, <1>3 DEF Goes
<1> HIDE DEF x
<1> QED BY <1>1, <1>4, OneGoes

LEMMA GotoIs ==
  ASSUME TypeOK, NEW t \in Tick, NEW pc, Goto(t, pc)
  PROVE  /\ tick' = [tick EXCEPT ![t] = [tick[t] EXCEPT !.pc = pc]]
         /\ tick'[t].pc = pc /\ tick'[t].cur = tick[t].cur /\ tick'[t].todo = tick[t].todo
BY DEF Goto, TypeOK, TickType

LEMMA TakeGoes == ASSUME TypeOK, NEW t \in Tick, Take(t) \/ TakePlan(t)  PROVE WorkOff
<1>1. PICK s \in tick[t].todo :
        \/ tick' = [tick EXCEPT ![t] = InHandOf(t, s)]
        \/ tick' = [tick EXCEPT ![t].todo = @ \ {s}]
  BY DEF Take, TakePlan
<1>2. tick[t].pc = "next" /\ tick[t] \in TickType /\ cron' = cron
  BY DEF Take, TakePlan, TypeOK
<1> DEFINE x == [tick[t] EXCEPT !.todo = @ \ {s}]
<1>3. CASE tick' = [tick EXCEPT ![t] = InHandOf(t, s)]
  <2>1. tick'[t] = InHandOf(t, s)
    BY <1>3 DEF TypeOK
  <2>2. Goes(t)
    BY <1>2, <2>1 DEF Goes, InHandOf
  <2> QED BY <1>2, <1>3, <2>2, OneGoes
<1>4. CASE tick' = [tick EXCEPT ![t].todo = @ \ {s}]
  <2>1. tick' = [tick EXCEPT ![t] = x]
    BY <1>2, <1>4 DEF TypeOK, TickType
  <2>2. tick'[t] = x /\ x.pc = "next" /\ x.todo \subseteq tick[t].todo
    BY <1>2, <2>1 DEF TypeOK, TickType
  <2>3. Goes(t)
    BY <1>2, <2>2 DEF Goes
  <2> HIDE DEF x
  <2> QED BY <1>2, <2>1, <2>3, OneGoes
<1> QED BY <1>1, <1>3, <1>4

LEMMA TellGoes == ASSUME TypeOK, NEW t \in Tick, Tell(t) \/ TellFails(t)  PROVE WorkOff
<1>1. tick[t].pc = "tell" /\ cron' = cron
  BY DEF Tell, TellFails
<1>2. CASE Release(t)
  BY <1>1, <1>2, ReleaseGoes
<1>3. CASE Goto(t, "mark") /\ cron \in TellFirst
  <2>1. Goes(t)
    BY <1>1, <1>3, GotoIs DEF Goes
  <2> QED BY <1>1, <1>3, <2>1, GotoIs, OneGoes
<1>4. Release(t) \/ (Goto(t, "mark") /\ cron \in TellFirst)
  BY DEF Tell, TellFails, AfterTell, TellFirst
<1> QED BY <1>2, <1>3, <1>4

LEMMA MarkGoes == ASSUME TypeOK, NEW t \in Tick, Mark(t) \/ MarkFails(t)  PROVE WorkOff
<1>1. tick[t].pc = "mark" /\ cron' = cron
  BY DEF Mark, MarkFails, MarkReminder, TrackPlan, MarkLead, MarkListing, MarkActivity, MarkById
<1>2. CASE Release(t)
  BY <1>1, <1>2, ReleaseGoes
<1>3. CASE MarkById(t) /\ cron \notin TellFirst
  <2>1. Goto(t, "tell")
    BY <1>3 DEF MarkById
  <2>2. Goes(t)
    BY <1>1, <1>3, <2>1, GotoIs DEF Goes
  <2> QED BY <1>1, <2>1, <2>2, GotoIs, OneGoes
<1>4. Release(t) \/ (MarkById(t) /\ cron \notin TellFirst)
  BY DEF Mark, MarkFails, MarkReminder, TrackPlan, MarkLead, MarkListing, MarkActivity, TellFirst
<1> QED BY <1>2, <1>3, <1>4

LEMMA EndGoes == ASSUME TypeOK, NEW t \in Tick, EndTick(t)  PROVE WorkOff
<1>1. tick' = [tick EXCEPT ![t] = Idle] /\ cron' = cron
  BY DEF EndTick
<1>2. tick'[t] = Idle
  BY <1>1 DEF TypeOK
<1>3. Goes(t)
  BY <1>2 DEF Goes, Idle
<1> QED BY <1>1, <1>3, OneGoes

LEMMA CrashGoes == ASSUME Crash  PROVE WorkOff
BY DEF Crash, WorkOff, Goes, Idle

LEMMA OthersGo == ASSUME UNCHANGED <<cron, tick>>  PROVE WorkOff
BY DEF WorkOff, Goes

\* Requests, the clock and moving dates are no step of a tick.
UserOrClock ==
  \/ \E u \in User : UserStep(u)
  \/ \E i \in Item : Opens(i) \/ Closes(i) \/ MoveLead(i) \/ MoveListing(i)
  \/ UNCHANGED vars

LEMMA UserOrClockIs ==
  ASSUME UserOrClock
  PROVE  UNCHANGED <<cron, running, tick, told, again>>
<1>1. ASSUME NEW u \in User, UserStep(u)  PROVE UNCHANGED <<cron, running, tick, told, again>>
  BY <1>1 DEF UserStep, Find, MarkDone, Cancel, Close, Reschedule
<1>2. ASSUME NEW i \in Item, Opens(i) \/ Closes(i) \/ MoveLead(i) \/ MoveListing(i)
      PROVE UNCHANGED <<cron, running, tick, told, again>>
  BY <1>2 DEF Opens, Closes, MoveLead, MoveListing, MoveDate, memory, history
<1> QED BY <1>1, <1>2 DEF UserOrClock, vars, memory, history

LEMMA StepCases ==
  ASSUME [Next]_vars
  PROVE  \/ \E t \in Tick : Fire(t) \/ Take(t) \/ TakePlan(t) \/ Tell(t) \/ TellFails(t)
                             \/ Mark(t) \/ MarkFails(t) \/ EndTick(t)
         \/ Crash \/ UserOrClock
BY DEF Next, TickStep, UserOrClock

LEMMA StepsWorkOff ==
  ASSUME TypeOK, [Next]_vars, ~ \E t \in Tick : Fire(t)
  PROVE  WorkOff
<1>1. ASSUME NEW t \in Tick, \/ Take(t) \/ TakePlan(t) \/ Tell(t) \/ TellFails(t)
                               \/ Mark(t) \/ MarkFails(t) \/ EndTick(t)
      PROVE  WorkOff
  BY <1>1, TakeGoes, TellGoes, MarkGoes, EndGoes
<1>2. CASE UserOrClock
  BY <1>2, UserOrClockIs, OthersGo
<1> QED BY <1>1, <1>2, CrashGoes, StepCases

-----------------------------------------------------------------------------
(* What ticks hold, and what requests and dates are about. *)

Holds(t) == tick[t].pc \in {"tell", "mark"}

\* What a tick has read is of dates the records have had, once each, and what it has in
\* hand is no longer before it.
Snapshots ==
  \A t \in Tick :
    /\ \A s \in tick[t].todo : s.date <= dates[s.item]
    /\ \A s, r \in tick[t].todo : s.item = r.item => s = r
    /\ Holds(t) => /\ Cur(t).date <= dates[Cur(t).item]
                   /\ \A s \in tick[t].todo : s.item # Cur(t).item

\* A guarded cron has one tick at a time.
OneTick ==
  cron # "calendar" =>
    \A t, u \in Tick : tick[t].pc # "idle" => running /\ (tick[u].pc # "idle" => u = t)

\* Only custom reminders have requests.
Requested == \A u \in User : req[u] # NoReq => cron = "custom"

\* The dates of a plan or an activity do not move.
Fixed == cron \in {"plan", "calendar"} => \A i \in Item : dates[i] = 1

\* Nobody is told of a date to come.
Unborn == \A i \in Item, d \in Date : d > dates[i] => told[i][d] = 0

Base == TypeOK /\ Snapshots /\ OneTick /\ Requested /\ Fixed /\ Unborn

LEMMA DatesSteps ==
  ASSUME TypeOK, Requested, [Next]_vars
  PROVE  \/ UNCHANGED <<date, dates>>
         \/ \E i \in Item : NewDate(i) /\ cron \in {"custom", "lead", "listing"}
<1>1. ASSUME NEW t \in Tick, \/ Fire(t) \/ Take(t) \/ TakePlan(t) \/ Tell(t) \/ TellFails(t)
                               \/ MarkFails(t) \/ EndTick(t) \/ TrackPlan(t) \/ MarkById(t)
      PROVE  UNCHANGED <<date, dates>>
  BY <1>1 DEF Fire, Take, TakePlan, Tell, TellFails, MarkFails, EndTick, TrackPlan, MarkById, durable, history
<1>2. ASSUME NEW t \in Tick, MarkReminder(t)
      PROVE  UNCHANGED <<date, dates>> \/ (NewDate(Cur(t).item) /\ cron = "custom")
  BY <1>2 DEF MarkReminder, Remind
<1>3. ASSUME NEW u \in User, UserStep(u)
      PROVE  UNCHANGED <<date, dates>> \/ (NewDate(req[u].item) /\ req[u] # NoReq)
  BY <1>3 DEF UserStep, Find, MarkDone, Cancel, Close, Reschedule, durable
<1>4. ASSUME NEW i \in Item, Opens(i) \/ Closes(i) \/ MoveLead(i) \/ MoveListing(i)
      PROVE  UNCHANGED <<date, dates>> \/ (NewDate(i) /\ cron \in {"lead", "listing"})
  BY <1>4 DEF Opens, Closes, MoveLead, MoveListing, MoveDate, history
<1>5. UNCHANGED vars \/ Crash => UNCHANGED <<date, dates>>
  BY DEF vars, durable, history, Crash
<1>6. \A t \in Tick : MarkReminder(t) => Cur(t).item \in Item
  BY InHandType DEF MarkReminder
<1>7. \A u \in User : req[u] # NoReq => req[u].item \in Item /\ cron = "custom"
  BY RequestType DEF Requested
<1>8. CASE UserOrClock
  BY <1>3, <1>4, <1>5, <1>7, <1>8 DEF UserOrClock
<1>9. ASSUME NEW t \in Tick, Mark(t)
      PROVE  UNCHANGED <<date, dates>> \/ \E i \in Item : NewDate(i) /\ cron \in {"custom", "lead", "listing"}
  BY <1>1, <1>2, <1>6, <1>9 DEF Mark, MarkLead, MarkListing, MarkActivity
<1> QED BY <1>1, <1>5, <1>8, <1>9, StepCases

\* Dates only grow, and a date that moves is one the record has not had.
LEMMA DatesGrow ==
  ASSUME TypeOK, Requested, [Next]_vars, NEW i \in Item
  PROVE  /\ dates[i] \in Nat /\ dates'[i] \in Nat /\ dates[i] <= dates'[i]
         /\ date'[i] # date[i] => date'[i] > dates[i]
<1>1. CASE UNCHANGED <<date, dates>>
  BY <1>1 DEF TypeOK, Date
<1>2. ASSUME NEW j \in Item, NewDate(j)
      PROVE  /\ dates[i] \in Nat /\ dates'[i] \in Nat /\ dates[i] <= dates'[i]
             /\ date'[i] # date[i] => date'[i] > dates[i]
  <2>1. date' = [date EXCEPT ![j] = dates[j] + 1] /\ dates' = [dates EXCEPT ![j] = @ + 1]
    BY <1>2, NewDateType
  <2>2. date \in [Item -> Date] /\ dates \in [Item -> Date]
    BY DEF TypeOK
  <2>3. dates[i] \in Nat /\ dates[j] \in Nat /\ date[i] \in Nat
    BY <2>2 DEF Date
  <2>4. CASE i = j
    <3>1. date'[i] = dates[i] + 1 /\ dates'[i] = dates[i] + 1
      BY <2>1, <2>2, <2>4
    <3> QED BY <2>3, <3>1
  <2>5. CASE i # j
    <3>1. date'[i] = date[i] /\ dates'[i] = dates[i]
      BY <2>1, <2>2, <2>5
    <3> QED BY <2>3, <3>1
  <2> QED BY <2>4, <2>5
<1> QED BY <1>1, <1>2, DatesSteps

LEMMA SnapshotsKept == ASSUME Base, TypeOK', [Next]_vars  PROVE Snapshots'
<1>1. \A i \in Item : dates[i] \in Nat /\ dates'[i] \in Nat /\ dates[i] <= dates'[i]
  BY DatesGrow DEF Base
<1>2. ASSUME NEW t \in Tick, Fire(t)  PROVE Snapshots'
  <2>1. /\ tick' = [tick EXCEPT ![t].pc = "next", ![t].todo = Found]
        /\ UNCHANGED dates
    BY <1>2 DEF Fire, durable
  <2>2. tick'[t].pc = "next" /\ tick'[t].todo = Found /\ \A u \in Tick \ {t} : tick'[u] = tick[u]
    BY <2>1 DEF Base, TypeOK, TickType
  <2>3. \A s \in Found : s.item \in Item /\ s = [item |-> s.item, date |-> date[s.item]]
    BY DEF Found
  <2>4. /\ \A s \in Found : s.date <= dates[s.item]
        /\ \A s, r \in Found : s.item = r.item => s = r
    <3>1. \A i \in Item : date[i] <= dates[i]
      BY DEF Base, TypeOK
    <3>2. \A s \in Found : s.date = date[s.item]
      BY <2>3
    <3> QED BY <2>3, <3>1, <3>2
  <2> SUFFICES ASSUME NEW u \in Tick
      PROVE  /\ \A s \in tick'[u].todo : s.date <= dates'[s.item]
             /\ \A s, r \in tick'[u].todo : s.item = r.item => s = r
             /\ Holds(u)' => /\ tick'[u].cur.date <= dates'[tick'[u].cur.item]
                             /\ \A s \in tick'[u].todo : s.item # tick'[u].cur.item
    BY DEF Snapshots, Cur
  <2>5. CASE u = t
    BY <2>1, <2>2, <2>4, <2>5 DEF Holds
  <2>6. CASE u # t
    <3>1. tick'[u] = tick[u] /\ (Holds(u)' => Holds(u))
      BY <2>2, <2>6 DEF Holds
    <3> QED BY <2>1, <3>1 DEF Base, Snapshots, Cur
  <2> QED BY <2>5, <2>6
<1>3. CASE WorkOff
  <2> SUFFICES ASSUME NEW t \in Tick
      PROVE  /\ \A s \in tick'[t].todo : s.date <= dates'[s.item]
             /\ \A s, r \in tick'[t].todo : s.item = r.item => s = r
             /\ Holds(t)' => /\ tick'[t].cur.date <= dates'[tick'[t].cur.item]
                             /\ \A s \in tick'[t].todo : s.item # tick'[t].cur.item
    BY DEF Snapshots, Cur
  <2>0. Goes(t)
    BY <1>3 DEF WorkOff
  <2>1. tick'[t].todo \subseteq tick[t].todo
    BY <2>0, GoesOn
  <2>2. \A s \in tick[t].todo : s.item \in Item /\ s.date \in Nat
    <3>1. tick[t] \in TickType
      BY DEF Base, TypeOK
    <3>2. tick[t].todo \subseteq Read
      BY <3>1 DEF TickType
    <3> QED BY <3>2 DEF Read, Date
  <2>3. Holds(t) => Cur(t).item \in Item /\ Cur(t).date \in Nat
    BY InHandType DEF Base, Holds, Date
  <2>4. \A s \in tick'[t].todo : s.date <= dates'[s.item]
    BY <1>1, <2>1, <2>2 DEF Base, Snapshots
  <2>5. \A s, r \in tick'[t].todo : s.item = r.item => s = r
    BY <2>1 DEF Base, Snapshots
  <2>6. CASE Holds(t) /\ tick'[t].cur = tick[t].cur
    BY <1>1, <2>1, <2>3, <2>4, <2>5, <2>6 DEF Base, Snapshots, Cur
  <2>7. CASE tick'[t].cur \in tick[t].todo \ tick'[t].todo
    BY <1>1, <2>1, <2>2, <2>4, <2>5, <2>7 DEF Base, Snapshots
  <2>8. Holds(t)' => \/ Holds(t) /\ tick'[t].cur = tick[t].cur
                     \/ tick'[t].cur \in tick[t].todo \ tick'[t].todo
    BY <2>0, GoesOn DEF Holds
  <2> QED BY <2>4, <2>5, <2>6, <2>7, <2>8
<1> QED BY <1>2, <1>3, StepsWorkOff DEF Base

LEMMA OneTickKept == ASSUME Base, TypeOK', [Next]_vars  PROVE OneTick'
<1> SUFFICES ASSUME cron' # "calendar"
    PROVE  \A t, u \in Tick : tick'[t].pc # "idle" => running' /\ (tick'[u].pc # "idle" => u = t)
  BY DEF OneTick
<1>1. ASSUME NEW t \in Tick, Fire(t)
      PROVE  \A v, u \in Tick : tick'[v].pc # "idle" => running' /\ (tick'[u].pc # "idle" => u = v)
  <2>1. ~running /\ running' /\ cron # "calendar"
    BY <1>1 DEF Fire
  <2>2. \A u \in Tick : tick[u].pc = "idle"
    BY <2>1 DEF Base, OneTick
  <2>3. \A u \in Tick \ {t} : tick'[u] = tick[u]
    BY <1>1 DEF Fire, Base, TypeOK
  <2> QED BY <2>1, <2>2, <2>3
<1>2. CASE WorkOff /\ UNCHANGED running
  BY <1>2 DEF Base, OneTick, WorkOff, Goes
<1>3. ASSUME NEW t \in Tick, EndTick(t)
      PROVE  \A u \in Tick : tick'[u].pc = "idle"
  <2>1. \A u \in Tick \ {t} : tick[u].pc = "idle" /\ tick'[u] = tick[u]
    BY <1>3 DEF EndTick, Base, OneTick, TypeOK
  <2>2. tick'[t].pc = "idle"
    BY <1>3 DEF EndTick, Idle, Base, TypeOK
  <2> QED BY <2>1, <2>2
<1>4. CASE Crash
  BY <1>4 DEF Crash, Idle
<1>5. ASSUME NEW t \in Tick, Take(t) \/ TakePlan(t) \/ Tell(t) \/ TellFails(t) \/ Mark(t) \/ MarkFails(t)
      PROVE  UNCHANGED running /\ WorkOff
  <2>1. UNCHANGED running
    BY <1>5 DEF Take, TakePlan, Tell, TellFails, Mark, MarkFails, MarkReminder, TrackPlan, MarkLead,
                MarkListing, MarkActivity, MarkById
  <2> QED BY <1>5, <2>1, TakeGoes, TellGoes, MarkGoes DEF Base
<1>6. CASE UserOrClock
  BY <1>2, <1>6, UserOrClockIs, OthersGo
<1> QED BY <1>1, <1>2, <1>3, <1>4, <1>5, <1>6, StepCases

LEMMA RequestedKept == ASSUME Requested, [Next]_vars  PROVE Requested'
<1>1. ASSUME NEW t \in Tick, \/ Fire(t) \/ Take(t) \/ TakePlan(t) \/ Tell(t) \/ TellFails(t)
                               \/ Mark(t) \/ MarkFails(t) \/ EndTick(t)
      PROVE  UNCHANGED <<cron, req>>
  BY <1>1 DEF Fire, Take, TakePlan, Tell, TellFails, Mark, MarkFails, EndTick, MarkReminder, TrackPlan,
              MarkLead, MarkListing, MarkActivity, MarkById
<1>2. ASSUME NEW u \in User, UserStep(u)  PROVE Requested'
  <2>1. cron' = cron /\ (req # req' => cron = "custom")
    BY <1>2 DEF UserStep, Find, MarkDone, Cancel, Close, Reschedule, Requested
  <2> QED BY <2>1 DEF Requested
<1>3. ASSUME NEW i \in Item, Opens(i) \/ Closes(i) \/ MoveLead(i) \/ MoveListing(i)
      PROVE  UNCHANGED <<cron, req>>
  BY <1>3 DEF Opens, Closes, MoveLead, MoveListing, MoveDate, memory
<1>4. CASE Crash
  BY <1>4 DEF Crash, Requested
<1>5. UNCHANGED vars => UNCHANGED <<cron, req>>
  BY DEF vars, memory
<1>6. UNCHANGED <<cron, req>> => Requested'
  BY DEF Requested
<1>7. CASE UserOrClock
  BY <1>2, <1>3, <1>5, <1>6, <1>7 DEF UserOrClock
<1> QED BY <1>1, <1>4, <1>6, <1>7, StepCases

LEMMA CronStays == ASSUME TypeOK, [Next]_vars  PROVE cron' = cron
BY StepsWorkOff DEF WorkOff, Fire

LEMMA FixedKept == ASSUME Base, [Next]_vars  PROVE Fixed'
BY DatesSteps, CronStays DEF Base, Fixed

\* Only a tick tells.
LEMMA ToldSteps ==
  ASSUME [Next]_vars, ~ \E t \in Tick : Tell(t)
  PROVE  UNCHANGED told
<1>1. ASSUME NEW t \in Tick, \/ Fire(t) \/ Take(t) \/ TakePlan(t) \/ TellFails(t)
                               \/ Mark(t) \/ MarkFails(t) \/ EndTick(t)
      PROVE  UNCHANGED told
  BY <1>1 DEF Fire, Take, TakePlan, TellFails, Mark, MarkFails, EndTick, MarkReminder, TrackPlan,
              MarkLead, MarkListing, MarkActivity, MarkById, history
<1> QED BY <1>1, UserOrClockIs, StepCases DEF Crash

LEMMA TellIs ==
  ASSUME TypeOK, NEW t \in Tick, Tell(t)
  PROVE  /\ Holds(t) /\ Cur(t).item \in Item /\ Cur(t).date \in Date
         /\ told' = [told EXCEPT ![Cur(t).item][Cur(t).date] = @ + 1]
         /\ told'[Cur(t).item][Cur(t).date] = told[Cur(t).item][Cur(t).date] + 1
         /\ \A i \in Item, d \in Date : <<i, d>> # <<Cur(t).item, Cur(t).date>> => told'[i][d] = told[i][d]
         /\ UNCHANGED <<cron, status, date, dates, phase, again, lost, running, req>>
<1>1. Holds(t) /\ Cur(t).item \in Item /\ Cur(t).date \in Date
  BY InHandType DEF Tell, Holds
<1>2. told' = [told EXCEPT ![Cur(t).item][Cur(t).date] = @ + 1]
  BY DEF Tell
<1> QED BY <1>1, <1>2 DEF Tell, TypeOK, durable

LEMMA UnbornKept == ASSUME Base, [Next]_vars  PROVE Unborn'
<1>1. ASSUME NEW t \in Tick, Tell(t)  PROVE Unborn'
  <2>1. Cur(t).date <= dates[Cur(t).item]
    BY <1>1, TellIs DEF Base, Snapshots
  <2>2. UNCHANGED dates
        /\ \A i \in Item, d \in Date : <<i, d>> # <<Cur(t).item, Cur(t).date>> => told'[i][d] = told[i][d]
    BY <1>1, TellIs DEF Base
  <2>3. \A i \in Item, d \in Date : d > dates[i] => <<i, d>> # <<Cur(t).item, Cur(t).date>>
    BY <2>1 DEF Base, TypeOK, Date
  <2> QED BY <2>2, <2>3 DEF Base, Unborn
<1>2. CASE UNCHANGED told
  BY <1>2, DatesGrow DEF Base, Unborn, Date
<1> QED BY <1>1, <1>2, ToldSteps

LEMMA BaseHolds == Spec => []Base
<1>1. Init => Base
  <2> SUFFICES ASSUME Init  PROVE Base
    OBVIOUS
  <2>1. \A t \in Tick : tick[t] = Idle
    BY DEF Init
  <2>2. Snapshots /\ OneTick
    BY <2>1 DEF Snapshots, OneTick, Holds, Idle
  <2>3. Requested /\ Fixed /\ Unborn
    BY DEF Init, Requested, Fixed, Unborn
  <2> QED BY <2>2, <2>3, InitTyped DEF Base
<1>2. Base /\ TypeOK' /\ [Next]_vars => Base'
  BY SnapshotsKept, OneTickKept, RequestedKept, FixedKept, UnbornKept DEF Base
<1> QED BY <1>1, <1>2, TypeCorrect, PTL DEF Spec

-----------------------------------------------------------------------------
(* How the status of a record changes. *)

Marks(t, i) ==
  /\ Cur(t).item = i
  /\ \/ TrackPlan(t)
     \/ MarkById(t) /\ cron \notin TellFirst
     \/ MarkReminder(t) /\ UNCHANGED <<date, dates>> /\ (i \in Recurs => dates[i] = MaxDate)

Marked(i) == \E t \in Tick : Marks(t, i)

\* What may become of the status of a record.
StatusMoves(i) ==
  \/ status'[i] = "PENDING" /\ NewDate(i) /\ (cron = "lead" \/ quiet'[i] = 0)
  \/ status'[i] = "NOTIFIED" /\ Marked(i)
  \/ status'[i] \in {"DONE", "CANCELLED"}

LEMMA StatusSteps ==
  ASSUME TypeOK, [Next]_vars, NEW i \in Item, status'[i] # status[i]
  PROVE  StatusMoves(i)
<1>1. ASSUME NEW t \in Tick, \/ Fire(t) \/ Take(t) \/ TakePlan(t) \/ Tell(t) \/ TellFails(t)
                               \/ MarkFails(t) \/ EndTick(t)
      PROVE  StatusMoves(i)
  BY <1>1 DEF Fire, Take, TakePlan, Tell, TellFails, MarkFails, EndTick, durable
<1>2. ASSUME NEW t \in Tick, TrackPlan(t) \/ (MarkById(t) /\ cron \notin TellFirst)
      PROVE  StatusMoves(i)
  <2>1. status' = [status EXCEPT ![Cur(t).item] = "NOTIFIED"]
    BY <1>2 DEF TrackPlan, MarkById
  <2>2. Cur(t).item = i /\ status'[i] = "NOTIFIED"
    BY <2>1 DEF TypeOK
  <2> QED BY <1>2, <2>2 DEF Marks, Marked, StatusMoves
<1>3. ASSUME NEW t \in Tick, MarkReminder(t)  PROVE StatusMoves(i)
  <2>1. /\ ~(Cur(t).item \in Recurs /\ dates[Cur(t).item] < MaxDate)
        /\ status' = [status EXCEPT ![Cur(t).item] = "NOTIFIED"] /\ UNCHANGED <<date, dates>>
    BY <1>3 DEF MarkReminder, Remind
  <2>2. Cur(t).item = i /\ status'[i] = "NOTIFIED"
    BY <2>1 DEF TypeOK
  <2>3. i \in Recurs => dates[i] = MaxDate
    BY <2>1, <2>2 DEF TypeOK, Date
  <2> QED BY <1>3, <2>1, <2>2, <2>3 DEF Marks, Marked, StatusMoves
<1>4. ASSUME NEW t \in Tick, Mark(t)  PROVE StatusMoves(i)
  BY <1>2, <1>3, <1>4 DEF Mark, MarkLead, MarkListing, MarkActivity, TellFirst
<1>5. ASSUME NEW u \in User, UserStep(u)  PROVE StatusMoves(i)
  <2>1. CASE MarkDone(u) \/ Cancel(u)
    <3>1. \/ status' = [status EXCEPT ![req[u].item] = "DONE"]
          \/ status' = [status EXCEPT ![req[u].item] = "CANCELLED"]
      BY <2>1 DEF MarkDone, Cancel, Close
    <3>2. status'[i] \in {"DONE", "CANCELLED"}
      BY <3>1 DEF TypeOK
    <3> QED BY <3>2 DEF StatusMoves
  <2>2. CASE Reschedule(u)
    <3>1. /\ status' = [status EXCEPT ![req[u].item] = "PENDING"]
          /\ quiet' = [quiet EXCEPT ![req[u].item] = 0] /\ NewDate(req[u].item)
      BY <2>2 DEF Reschedule
    <3>2. req[u].item = i
      BY <3>1 DEF TypeOK
    <3>3. status'[i] = "PENDING" /\ quiet'[i] = 0 /\ NewDate(i)
      BY <3>1, <3>2 DEF TypeOK
    <3> QED BY <3>3 DEF StatusMoves
  <2> QED BY <1>5, <2>1, <2>2 DEF UserStep, Find, durable
<1>6. ASSUME NEW j \in Item, Opens(j) \/ Closes(j) \/ MoveLead(j) \/ MoveListing(j)  PROVE StatusMoves(i)
  <2>1. MoveLead(j) /\ status' = [status EXCEPT ![j] = "PENDING"] /\ NewDate(j) /\ cron = "lead"
    BY <1>6 DEF Opens, Closes, MoveLead, MoveListing, MoveDate
  <2>2. j = i
    BY <2>1 DEF TypeOK
  <2>3. status'[i] = "PENDING" /\ NewDate(i) /\ cron = "lead"
    BY <2>1, <2>2 DEF TypeOK
  <2> QED BY <2>3 DEF StatusMoves
<1>7. Crash \/ UNCHANGED vars => StatusMoves(i)
  BY DEF Crash, vars, durable
<1>8. CASE UserOrClock
  BY <1>5, <1>6, <1>7, <1>8 DEF UserOrClock
<1> QED BY <1>1, <1>4, <1>7, <1>8, StepCases

\* A record is pending again only with a new date.
LEMMA PendingSince ==
  ASSUME Base, [Next]_vars, NEW i \in Item, status'[i] = "PENDING", date'[i] <= dates[i]
  PROVE  status[i] = "PENDING" /\ date'[i] = date[i]
<1>1. dates[i] \in Nat /\ date[i] \in Nat /\ date[i] <= dates[i] /\ dates[i] + 1 > dates[i]
  BY DEF Base, TypeOK, Date
<1>2. date'[i] \in Nat
  <2>1. CASE UNCHANGED date
    BY <1>1, <2>1
  <2>2. ASSUME NEW j \in Item, NewDate(j)  PROVE date'[i] \in Nat
    BY <1>1, <2>2, NewDateType DEF Base, Date
  <2> QED BY <2>1, <2>2, DatesSteps DEF Base
<1>3. date'[i] = date[i]
  BY <1>1, <1>2, DatesGrow DEF Base
<1>4. ~NewDate(i)
  BY <1>1, <1>2, NewDateType DEF Base, TypeOK
<1> QED BY <1>3, <1>4, StatusSteps DEF Base, StatusMoves

-----------------------------------------------------------------------------
(* Once per date. *)

\* The tick will still tell of the item and the date it has read.
Tells(t, i, d) ==
  \/ [item |-> i, date |-> d] \in tick[t].todo
  \/ /\ Cur(t) = [item |-> i, date |-> d]
     /\ tick[t].pc = "tell" \/ (tick[t].pc = "mark" /\ cron \notin TellFirst)

ToTell(i, d) == {t \in Tick : Tells(t, i, d)}

\* What has been told and what will be told of a date is paid for.
Billed == \A i \in Item, d \in Date : told[i][d] + Cardinality(ToTell(i, d)) <= 1 + again[i]

\* A cron that marks first has marked what it tells, unless the date has moved.
MarkedFirst ==
  \A t \in Tick :
    cron \notin TellFirst /\ tick[t].pc = "tell" /\ Cur(t).date = date[Cur(t).item]
      => status[Cur(t).item] # "PENDING"

\* A tick of a cron that tells first has told of the date and not marked it yet.
Unsettled(t, i, d) == cron \in TellFirst /\ tick[t].pc = "mark" /\ Cur(t) = [item |-> i, date |-> d]

\* A pending record has not been told of its date, but for the reasons that count, or by a
\* tick that is about to mark it.
Fresh ==
  \A i \in Item :
    status[i] = "PENDING" /\ (\A t \in Tick : ~Unsettled(t, i, date[i]))
      => told[i][date[i]] <= again[i]

LEMMA ToTellFinite ==
  ASSUME NEW i, NEW d
  PROVE  IsFiniteSet(ToTell(i, d)) /\ Cardinality(ToTell(i, d)) \in Nat
<1>1. ToTell(i, d) \subseteq Tick
  BY DEF ToTell
<1> QED BY <1>1, FS_Subset, FS_CardinalityType

LEMMA TellsShrinks ==
  ASSUME NEW t, cron' = cron, Goes(t), NEW i, NEW d, Tells(t, i, d)'
  PROVE  Tells(t, i, d)
<1> DEFINE r == [item |-> i, date |-> d]
<1>1. CASE r \in tick'[t].todo
  BY <1>1, GoesOn DEF Tells
<1>2. CASE /\ tick'[t].cur = r
           /\ tick'[t].pc = "tell" \/ (tick'[t].pc = "mark" /\ cron \notin TellFirst)
  BY <1>2 DEF Goes, Tells, Cur
<1> QED BY <1>1, <1>2 DEF Tells, Cur

LEMMA ToTellShrinks ==
  ASSUME WorkOff, NEW i, NEW d
  PROVE  ToTell(i, d)' \subseteq ToTell(i, d) /\ Cardinality(ToTell(i, d)') <= Cardinality(ToTell(i, d))
         /\ Cardinality(ToTell(i, d)') \in Nat /\ Cardinality(ToTell(i, d)) \in Nat
<1>1. ToTell(i, d)' \subseteq ToTell(i, d)
  BY TellsShrinks DEF ToTell, WorkOff
<1> QED BY <1>1, ToTellFinite, FS_Subset, FS_CardinalityType

LEMMA AgainGrows ==
  ASSUME TypeOK, [Next]_vars, NEW i \in Item
  PROVE  again[i] \in Nat /\ again'[i] \in Nat /\ again[i] <= again'[i]
<1>0. again \in [Item -> Nat]
  BY DEF TypeOK
<1>1. ASSUME NEW t \in Tick, Fire(t)  PROVE again'[i] \in Nat /\ again[i] <= again'[i]
  <2>1. again'[i] = again[i] \/ again'[i] = again[i] + Cardinality(InHand(i))
    BY <1>0, <1>1 DEF Fire
  <2> QED BY <1>0, <2>1, InHandFinite
<1>2. ASSUME NEW t \in Tick, MarkFails(t)  PROVE again'[i] \in Nat /\ again[i] <= again'[i]
  BY <1>0, <1>2 DEF MarkFails
<1>3. CASE Crash
  BY <1>0, <1>3 DEF Crash
<1>4. ASSUME NEW t \in Tick, Take(t) \/ TakePlan(t) \/ Tell(t) \/ TellFails(t) \/ Mark(t) \/ EndTick(t)
      PROVE  UNCHANGED again
  BY <1>4 DEF Take, TakePlan, Tell, TellFails, Mark, EndTick, MarkReminder, TrackPlan,
              MarkLead, MarkListing, MarkActivity, MarkById, history
<1> QED BY <1>0, <1>1, <1>2, <1>3, <1>4, UserOrClockIs, StepCases

Once == Base /\ Billed /\ MarkedFirst /\ Fresh

LEMMA FireBilled == ASSUME Once, NEW t \in Tick, Fire(t)  PROVE Billed'
<1> SUFFICES ASSUME NEW i \in Item, NEW d \in Date
    PROVE  told'[i][d] + Cardinality(ToTell(i, d)') <= 1 + again'[i]
  BY DEF Billed
<1> DEFINE r == [item |-> i, date |-> d]
<1>1. /\ tick[t].pc = "idle" /\ ~running /\ UNCHANGED <<cron, status, date, dates, told>>
      /\ \A u \in Tick \ {t} : tick'[u] = tick[u]
  BY DEF Fire, durable, Once, Base, TypeOK
<1>2. tick'[t].pc = "next" /\ tick'[t].todo = Found
  BY DEF Fire, Once, Base, TypeOK, TickType
<1>3. \A u \in Tick \ {t} : Tells(u, i, d)' => Tells(u, i, d)
  BY <1>1 DEF Tells, Cur
<1>4. ToTell(i, d)' \subseteq ToTell(i, d) \cup {t}
  BY <1>3 DEF ToTell
<1>5. again[i] \in Nat /\ again'[i] \in Nat /\ again[i] <= again'[i] /\ told[i][d] \in Nat
  BY AgainGrows DEF Once, Base, TypeOK, Next, TickStep
<1>6. CASE r \notin Found
  <2>1. ~Tells(t, i, d)'
    BY <1>2, <1>6 DEF Tells
  <2>2. ToTell(i, d)' \subseteq ToTell(i, d)
    BY <1>4, <2>1 DEF ToTell
  <2>3. Cardinality(ToTell(i, d)') <= Cardinality(ToTell(i, d)) /\ Cardinality(ToTell(i, d)) \in Nat
        /\ Cardinality(ToTell(i, d)') \in Nat
    BY <2>2, ToTellFinite, FS_Subset, FS_CardinalityType
  <2> QED BY <1>1, <1>5, <2>3 DEF Once, Billed
<1>7. CASE r \in Found
  <2>1. d = date[i] /\ Due(i) /\ status[i] = "PENDING"
    BY <1>7 DEF Found, Due
  <2>2. cron # "calendar" => \A u \in Tick : tick[u].pc = "idle"
    BY <1>1 DEF Once, Base, OneTick
  <2>3. \A u \in Tick : ~Unsettled(u, i, d)
    BY <2>2 DEF Unsettled, TellFirst
  <2>4. told[i][d] <= again[i]
    BY <2>1, <2>3 DEF Once, Fresh
  <2>5. CASE cron # "calendar"
    <3>1. \A u \in Tick : ~Tells(u, i, d)
      BY <2>2, <2>5 DEF Tells, Once, Base, TypeOK
    <3>2. ToTell(i, d)' \subseteq {t}
      BY <1>4, <3>1 DEF ToTell
    <3>3. IsFiniteSet({t}) /\ Cardinality({t}) = 1
      BY FS_Singleton
    <3>4. Cardinality(ToTell(i, d)') <= 1 /\ Cardinality(ToTell(i, d)') \in Nat
      BY <3>2, <3>3, FS_Subset, FS_CardinalityType
    <3> QED BY <1>1, <1>5, <2>4, <3>4
  <2>6. CASE cron = "calendar"
    <3>1. again'[i] = again[i] + Cardinality(InHand(i))
      BY <2>1, <2>6 DEF Fire, Once, Base, TypeOK
    <3>2. ToTell(i, d) \subseteq InHand(i) /\ IsFiniteSet(InHand(i))
      <4>1. InHand(i) \subseteq Tick
        BY DEF InHand
      <4>2. \A u \in Tick : Tells(u, i, d) => u \in InHand(i)
        BY DEF Tells, InHand, Cur
      <4> QED BY <4>1, <4>2, FS_Subset DEF ToTell
    <3>3. Cardinality(ToTell(i, d)) <= Cardinality(InHand(i))
      BY <3>2, FS_Subset
    <3>4. Cardinality(ToTell(i, d) \cup {t}) <= Cardinality(ToTell(i, d)) + 1
          /\ IsFiniteSet(ToTell(i, d) \cup {t}) /\ Cardinality(ToTell(i, d)) \in Nat
      <4>1. IsFiniteSet(ToTell(i, d)) /\ Cardinality(ToTell(i, d)) \in Nat
        BY ToTellFinite
      <4>2. /\ IsFiniteSet(ToTell(i, d) \cup {t})
            /\ Cardinality(ToTell(i, d) \cup {t})
                 = IF t \in ToTell(i, d) THEN Cardinality(ToTell(i, d)) ELSE Cardinality(ToTell(i, d)) + 1
        BY <4>1, FS_AddElement
      <4> QED BY <4>1, <4>2
    <3>5. Cardinality(ToTell(i, d)') <= Cardinality(ToTell(i, d) \cup {t})
          /\ Cardinality(ToTell(i, d)') \in Nat
      BY <1>4, <3>4, FS_Subset, FS_CardinalityType
    <3>6. Cardinality(InHand(i)) \in Nat /\ Cardinality(ToTell(i, d) \cup {t}) \in Nat
      BY <3>4, InHandFinite, FS_CardinalityType
    <3> QED BY <1>1, <1>5, <2>4, <3>1, <3>3, <3>4, <3>5, <3>6
  <2> QED BY <2>5, <2>6
<1> QED BY <1>6, <1>7

LEMMA TellBilled == ASSUME Once, NEW t \in Tick, Tell(t)  PROVE Billed'
<1> SUFFICES ASSUME NEW i \in Item, NEW d \in Date
    PROVE  told'[i][d] + Cardinality(ToTell(i, d)') <= 1 + again'[i]
  BY DEF Billed
<1>1. WorkOff /\ again' = again
  BY TellGoes DEF Once, Base, Tell
<1>2. told[i][d] \in Nat /\ again[i] \in Nat /\ told[i][d] + Cardinality(ToTell(i, d)) <= 1 + again[i]
  BY DEF Once, Base, TypeOK, Billed
<1>3. CASE <<i, d>> # <<Cur(t).item, Cur(t).date>>
  <2>1. told'[i][d] = told[i][d]
    BY <1>3, TellIs DEF Once, Base
  <2> QED BY <1>1, <1>2, <2>1, ToTellShrinks
<1>4. CASE i = Cur(t).item /\ d = Cur(t).date
  <2>1. told'[i][d] = told[i][d] + 1
    BY <1>4, TellIs DEF Once, Base
  <2>2. Cur(t) = [item |-> i, date |-> d] /\ tick[t].pc = "tell"
    BY <1>4, InHandType DEF Tell, Once, Base, Read
  <2>3. t \in ToTell(i, d)
    BY <2>2 DEF ToTell, Tells
  <2>4. t \notin ToTell(i, d)'
    <3>1. \A s \in tick[t].todo : s.item # i
      BY <1>4, <2>2 DEF Once, Base, Snapshots, Holds
    <3>2. [item |-> i, date |-> d] \notin tick'[t].todo
      BY <1>1, <3>1, GoesOn DEF WorkOff
    <3>3. tick'[t].pc = "next" \/ (tick'[t].pc = "mark" /\ cron \in TellFirst)
      <4>1. Release(t) => tick'[t].pc = "next"
        BY DEF Release, Once, Base, TypeOK, TickType
      <4>2. Goto(t, "mark") => tick'[t].pc = "mark"
        BY GotoIs DEF Once, Base
      <4> QED BY <4>1, <4>2 DEF Tell, AfterTell, TellFirst
    <3> QED BY <1>1, <3>2, <3>3 DEF ToTell, Tells, WorkOff
  <2>5. ToTell(i, d)' \subseteq ToTell(i, d) \ {t}
    BY <1>1, <2>4, ToTellShrinks
  <2>6. Cardinality(ToTell(i, d) \ {t}) = Cardinality(ToTell(i, d)) - 1 /\ IsFiniteSet(ToTell(i, d) \ {t})
    BY <2>3, ToTellFinite, FS_RemoveElement
  <2>7. Cardinality(ToTell(i, d)') <= Cardinality(ToTell(i, d)) - 1
    BY <2>5, <2>6, FS_Subset
  <2>8. Cardinality(ToTell(i, d)') \in Nat /\ Cardinality(ToTell(i, d)) \in Nat
    BY <1>1, ToTellShrinks
  <2> QED BY <1>1, <1>2, <2>1, <2>7, <2>8
<1> QED BY <1>3, <1>4

LEMMA BilledKept == ASSUME Once, [Next]_vars  PROVE Billed'
<1>1. CASE UNCHANGED told /\ WorkOff
  <2> SUFFICES ASSUME NEW i \in Item, NEW d \in Date
      PROVE  told'[i][d] + Cardinality(ToTell(i, d)') <= 1 + again'[i]
    BY DEF Billed
  <2>1. again[i] \in Nat /\ again'[i] \in Nat /\ again[i] <= again'[i] /\ told[i][d] \in Nat
    BY AgainGrows DEF Once, Base, TypeOK
  <2>2. told[i][d] + Cardinality(ToTell(i, d)) <= 1 + again[i]
    BY DEF Once, Billed
  <2> QED BY <1>1, <2>1, <2>2, ToTellShrinks
<1> QED BY <1>1, FireBilled, TellBilled, ToldSteps, StepsWorkOff DEF Once, Base

LEMMA MarkedFirstKept == ASSUME Once, [Next]_vars  PROVE MarkedFirst'
<1> SUFFICES ASSUME NEW t \in Tick, cron' \notin TellFirst, tick'[t].pc = "tell",
                    tick'[t].cur.date = date'[tick'[t].cur.item],
                    status'[tick'[t].cur.item] = "PENDING"
    PROVE  FALSE
  BY DEF MarkedFirst, Cur
<1> DEFINE i == tick[t].cur.item  d == tick[t].cur.date
<1>1. cron' = cron
  BY CronStays DEF Once, Base
<1>2. tick[t].pc = "tell" => tick'[t].cur # tick[t].cur
  <2> SUFFICES ASSUME tick[t].pc = "tell", tick'[t].cur = tick[t].cur  PROVE FALSE
    OBVIOUS
  <2>1. i \in Item /\ d <= dates[i]
    BY InHandType DEF Once, Base, Snapshots, Holds, Cur
  <2>2. date'[i] <= dates[i] /\ status'[i] = "PENDING"
    BY <2>1
  <2>3. status[i] = "PENDING" /\ date'[i] = date[i]
    BY <2>1, <2>2, PendingSince DEF Once
  <2> QED BY <1>1, <2>3 DEF Once, MarkedFirst, Cur
<1>3. ASSUME NEW u \in Tick, Fire(u)  PROVE FALSE
  <2>1. tick'[u].pc = "next" /\ \A v \in Tick \ {u} : tick'[v] = tick[v]
    BY <1>3 DEF Fire, Once, Base, TypeOK, TickType
  <2> QED BY <1>2, <2>1
<1>4. CASE Goes(t)
  <2>1. \/ tick[t].pc = "tell" /\ tick'[t].cur = tick[t].cur
        \/ tick[t].pc = "mark" /\ tick'[t].cur = tick[t].cur /\ MarkById(t)
    BY <1>1, <1>4 DEF Goes
  <2>2. CASE tick[t].pc = "mark" /\ tick'[t].cur = tick[t].cur /\ MarkById(t)
    <3>1. i \in Item
      BY <2>2, InHandType DEF Once, Base, Cur
    <3>2. status' = [status EXCEPT ![i] = "NOTIFIED"]
      BY <2>2 DEF MarkById, Cur
    <3>3. status'[i] = "NOTIFIED"
      BY <3>1, <3>2 DEF Once, Base, TypeOK
    <3> QED BY <2>2, <3>3
  <2> QED BY <1>2, <2>1, <2>2
<1> QED BY <1>3, <1>4, StepsWorkOff DEF WorkOff, Once, Base

\* A step of one tick leaves the others where they are.
LEMMA OthersStay ==
  ASSUME TypeOK, NEW u \in Tick,
         \/ Fire(u) \/ Take(u) \/ TakePlan(u) \/ Tell(u) \/ TellFails(u)
         \/ Mark(u) \/ MarkFails(u) \/ EndTick(u)
  PROVE  \A v \in Tick \ {u} : tick'[v] = tick[v]
<1>1. \A pc : Goto(u, pc) => \A v \in Tick \ {u} : tick'[v] = tick[v]
  BY DEF Goto, TypeOK
<1>2. Release(u) => \A v \in Tick \ {u} : tick'[v] = tick[v]
  BY DEF Release, TypeOK
<1>3. CASE Fire(u) \/ Take(u) \/ TakePlan(u) \/ EndTick(u)
  BY <1>3 DEF Fire, Take, TakePlan, EndTick, TypeOK
<1>4. CASE Tell(u) \/ TellFails(u)
  BY <1>1, <1>2, <1>4 DEF Tell, TellFails, AfterTell
<1>5. CASE Mark(u) \/ MarkFails(u)
  BY <1>1, <1>2, <1>5 DEF Mark, MarkFails, MarkReminder, TrackPlan, MarkLead, MarkListing, MarkActivity, MarkById
<1> QED BY <1>3, <1>4, <1>5

\* A tick leaves the place between telling and marking by marking, or by a fault ...
LEMMA LeaveMark ==
  ASSUME TypeOK, [Next]_vars, NEW t \in Tick, cron \in TellFirst, tick[t].pc = "mark", tick'[t] # tick[t]
  PROVE  MarkReminder(t) \/ TrackPlan(t) \/ MarkFails(t) \/ Crash
<1>1. ~(\/ Fire(t) \/ Take(t) \/ TakePlan(t) \/ Tell(t) \/ TellFails(t) \/ EndTick(t)
        \/ MarkLead(t) \/ MarkListing(t) \/ MarkActivity(t))
  BY DEF Fire, Take, TakePlan, Tell, TellFails, EndTick, MarkLead, MarkListing, MarkActivity, TellFirst
<1> QED BY <1>1, OthersStay, UserOrClockIs, StepCases DEF Mark

\* ... and the place before telling by telling, or by a fault.
LEMMA LeaveTell ==
  ASSUME TypeOK, [Next]_vars, NEW t \in Tick, tick[t].pc = "tell", tick'[t] # tick[t]
  PROVE  Tell(t) \/ TellFails(t) \/ Crash
<1>1. ~(Fire(t) \/ Take(t) \/ TakePlan(t) \/ Mark(t) \/ MarkFails(t) \/ EndTick(t))
  BY DEF Fire, Take, TakePlan, Mark, MarkFails, EndTick, MarkReminder, TrackPlan, MarkLead, MarkListing,
         MarkActivity, MarkById
<1> QED BY <1>1, OthersStay, UserOrClockIs, StepCases

LEMMA FreshKept == ASSUME Once, [Next]_vars  PROVE Fresh'
<1> SUFFICES ASSUME NEW i \in Item, status'[i] = "PENDING",
                    \A t \in Tick : ~ /\ cron' \in TellFirst /\ tick'[t].pc = "mark"
                                       /\ tick'[t].cur = [item |-> i, date |-> date'[i]]
    PROVE  told'[i][date'[i]] <= again'[i]
  BY DEF Fresh, Unsettled, Cur
<1>0. /\ again[i] \in Nat /\ again'[i] \in Nat /\ again[i] <= again'[i]
      /\ date[i] \in Date /\ \A d \in Date : told[i][d] \in Nat
      /\ dates[i] \in Nat /\ date[i] <= dates[i] /\ date[i] \in Nat
  <2>1. again[i] \in Nat /\ again'[i] \in Nat /\ again[i] <= again'[i]
    BY AgainGrows DEF Once, Base
  <2>2. date[i] \in Date /\ (\A d \in Date : told[i][d] \in Nat) /\ dates[i] \in Date /\ date[i] <= dates[i]
    BY DEF Once, Base, TypeOK
  <2> QED BY <2>1, <2>2 DEF Date
<1>1. ASSUME date'[i] # date[i]  PROVE told'[i][date'[i]] <= again'[i]
  <2>1. UNCHANGED told
    BY <1>1, ToldSteps, TellIs DEF Once, Base
  <2>2. date'[i] > dates[i] /\ date'[i] \in Date
    <3>1. date'[i] \in Date
      <4>1. ASSUME NEW j \in Item, NewDate(j)  PROVE date'[i] \in Date
        BY <4>1, NewDateType DEF Once, Base
      <4> QED BY <1>1, <4>1, DatesSteps DEF Once, Base
    <3> QED BY <1>1, <3>1, DatesGrow DEF Once, Base
  <2>3. told[i][date'[i]] = 0
    BY <2>2 DEF Once, Base, Unborn
  <2> QED BY <1>0, <2>1, <2>3
<1>2. ASSUME date'[i] = date[i]  PROVE told'[i][date'[i]] <= again'[i]
  <2> DEFINE d == date[i]
  <2>1. status[i] = "PENDING"
    BY <1>0, <1>2, PendingSince DEF Once
  <2>2. cron' = cron
    BY CronStays DEF Once, Base
  <2>3. told[i][d] <= 1 + again[i]
    <3>1. told[i][d] + Cardinality(ToTell(i, d)) <= 1 + again[i]
      BY <1>0 DEF Once, Billed
    <3> QED BY <1>0, <3>1, ToTellFinite
  <2>4. ASSUME NEW t \in Tick, Unsettled(t, i, d)
        PROVE  told'[i][d] <= again'[i]
    <3>1. tick'[t] # tick[t]
      <4>1. tick[t].pc = "mark" /\ tick[t].cur = [item |-> i, date |-> date'[i]] /\ cron' \in TellFirst
        BY <1>2, <2>2, <2>4 DEF Unsettled, Cur
      <4> QED BY <4>1
    <3>2. MarkReminder(t) \/ TrackPlan(t) \/ MarkFails(t) \/ Crash
      BY <2>4, <3>1, LeaveMark DEF Unsettled, Once, Base
    <3>3. Cur(t).item = i /\ Cur(t).date = d /\ cron \in TellFirst /\ tick[t].pc = "mark"
      BY <2>4 DEF Unsettled
    <3>4. ~TrackPlan(t)
      <4>1. TrackPlan(t) => status'[i] = "NOTIFIED"
        BY <3>3 DEF TrackPlan, Once, Base, TypeOK
      <4> QED BY <4>1
    <3>5. ~MarkReminder(t)
      <4>1. NewDate(i) => date'[i] = dates[i] + 1
        BY NewDateType DEF Once, Base, TypeOK
      <4>2. status' = [status EXCEPT ![i] = "NOTIFIED"] => status'[i] = "NOTIFIED"
        BY DEF Once, Base, TypeOK
      <4> QED BY <1>0, <1>2, <3>3, <4>1, <4>2 DEF MarkReminder, Remind
    <3>6. MarkFails(t) \/ Crash => UNCHANGED told /\ again'[i] = again[i] + 1
      <4>1. MarkFails(t) => UNCHANGED told /\ again'[i] = again[i] + 1
        BY <3>3 DEF MarkFails, Once, Base, TypeOK
      <4>2. i \in Unmarked
        BY <3>3 DEF Unmarked
      <4>3. Crash => UNCHANGED told /\ again'[i] = again[i] + 1
        BY <3>3, <4>2 DEF Crash, Once, Base, TypeOK
      <4> QED BY <4>1, <4>3
    <3> QED BY <1>0, <2>3, <3>2, <3>4, <3>5, <3>6
  <2>5. ASSUME \A t \in Tick : ~Unsettled(t, i, d)
        PROVE  told'[i][d] <= again'[i]
    <3>1. told[i][d] <= again[i]
      BY <2>1, <2>5 DEF Once, Fresh
    <3>2. ASSUME NEW t \in Tick, Tell(t)  PROVE told'[i][d] = told[i][d]
      <4>1. CASE <<i, d>> # <<Cur(t).item, Cur(t).date>>
        BY <1>0, <3>2, <4>1, TellIs DEF Once, Base
      <4>2. CASE i = Cur(t).item /\ d = Cur(t).date
        <5>1. Cur(t) = [item |-> i, date |-> d] /\ tick[t].pc = "tell"
          BY <3>2, <4>2, InHandType DEF Tell, Once, Base, Read
        <5>2. cron \in TellFirst
          BY <2>1, <4>2, <5>1 DEF Once, MarkedFirst
        <5>3. Goto(t, "mark")
          BY <3>2, <5>2 DEF Tell, AfterTell, TellFirst
        <5>4. /\ cron' \in TellFirst /\ tick'[t].pc = "mark"
              /\ tick'[t].cur = [item |-> i, date |-> date'[i]]
          BY <1>2, <2>2, <5>1, <5>2, <5>3, GotoIs DEF Cur, Once, Base
        <5> QED BY <5>4
      <4> QED BY <4>1, <4>2
    <3> QED BY <1>0, <3>1, <3>2, ToldSteps DEF Once, Base
  <2> QED BY <1>2, <2>4, <2>5
<1> QED BY <1>1, <1>2

\* Whatever the order of ticks, users, failures and crashes, nobody is told of one date
\* more than once and once again for each mark that was lost or each tick that overlapped.
THEOREM OneNoticePerDate == Spec => []OncePerDate
<1>1. Init /\ Base => Once
  <2> SUFFICES ASSUME Init, Base  PROVE Once
    OBVIOUS
  <2>1. /\ \A t \in Tick : tick[t] = Idle
        /\ \A i \in Item : again[i] = 0 /\ \A d \in Date : told[i][d] = 0
    BY DEF Init
  <2>2. MarkedFirst
    BY <2>1 DEF MarkedFirst, Idle
  <2>3. Fresh
    BY <2>1 DEF Fresh, Base, TypeOK
  <2>4. \A i \in Item, d \in Date : ToTell(i, d) = {}
    <3>1. \A t \in Tick : tick[t].todo = {} /\ tick[t].pc = "idle"
      BY <2>1 DEF Idle
    <3>2. \A i \in Item, d \in Date, t \in Tick : ~Tells(t, i, d)
      BY <3>1 DEF Tells
    <3> QED BY <3>2 DEF ToTell
  <2>5. Billed
    <3>1. Cardinality({}) = 0
      BY FS_EmptySet
    <3>2. \A i \in Item, d \in Date : told[i][d] = 0 /\ again[i] = 0 /\ Cardinality(ToTell(i, d)) = 0
      BY <2>1, <2>4, <3>1
    <3> QED BY <3>2 DEF Billed
  <2> QED BY <2>2, <2>3, <2>5 DEF Once
<1>2. Once /\ Base' /\ [Next]_vars => Once'
  BY BilledKept, MarkedFirstKept, FreshKept DEF Once
<1>3. Once => OncePerDate
  <2> SUFFICES ASSUME Once, NEW i \in Item, NEW d \in Date  PROVE told[i][d] <= 1 + again[i]
    BY DEF OncePerDate
  <2>1. told[i][d] + Cardinality(ToTell(i, d)) <= 1 + again[i] /\ told[i][d] \in Nat /\ again[i] \in Nat
    BY DEF Once, Billed, Base, TypeOK
  <2> QED BY <2>1, ToTellFinite
<1> QED BY <1>1, <1>2, <1>3, BaseHolds, PTL DEF Spec

-----------------------------------------------------------------------------
(* What is marked was told. *)

\* A recurrence ends with its last date.
Ended == cron = "custom" => \A i \in Recurs : status[i] = "NOTIFIED" => dates[i] = MaxDate

\* Between telling and marking the date has been told, or the notification failed.
ToldFirst ==
  \A t \in Tick : cron \in TellFirst /\ tick[t].pc = "mark" =>
    told[Cur(t).item][Cur(t).date] > 0 \/ <<Cur(t).item, Cur(t).date>> \in lost

\* MarkedWasTold, with what a crash may not take away: a cron that tells first owes nothing
\* to what it has marked.
Backed ==
  \A i \in Item : status[i] = "NOTIFIED" /\ told[i][date[i]] = 0
    => <<i, date[i]>> \in lost \cup (IF cron \in TellFirst THEN {} ELSE Owed)

LEMMA EndedKept == ASSUME Base, Ended, [Next]_vars  PROVE Ended'
<1> SUFFICES ASSUME cron' = "custom", NEW i \in Recurs, status'[i] = "NOTIFIED"  PROVE dates'[i] = MaxDate
  BY DEF Ended
<1>1. cron = "custom" /\ i \in Item
  BY CronStays DEF Base
<1>2. CASE dates[i] = MaxDate
  <2>1. ASSUME NEW j \in Item, NewDate(j)  PROVE dates'[i] = MaxDate
    <3>1. j # i /\ dates' = [dates EXCEPT ![j] = @ + 1]
      BY <1>2, <2>1 DEF NewDate
    <3> QED BY <1>1, <1>2, <3>1 DEF Base, TypeOK
  <2> QED BY <1>2, <2>1, DatesSteps DEF Base
<1>3. CASE status[i] # "NOTIFIED"
  <2>1. Marked(i)
    BY <1>1, <1>3, StatusSteps DEF StatusMoves, Base
  <2>2. PICK t \in Tick : Marks(t, i)
    BY <2>1 DEF Marked
  <2>3. ~(TrackPlan(t) \/ (MarkById(t) /\ cron \notin TellFirst))
    BY <1>1 DEF TrackPlan, TellFirst
  <2> QED BY <2>2, <2>3 DEF Marks
<1> QED BY <1>1, <1>2, <1>3 DEF Ended

LEMMA LostGrows == ASSUME [Next]_vars  PROVE lost \subseteq lost'
<1>1. ASSUME NEW t \in Tick, \/ Fire(t) \/ Take(t) \/ TakePlan(t) \/ Tell(t) \/ TellFails(t)
                               \/ Mark(t) \/ MarkFails(t) \/ EndTick(t)
      PROVE  lost \subseteq lost'
  <2>1. CASE Fire(t) \/ Take(t) \/ TakePlan(t) \/ Tell(t) \/ MarkFails(t) \/ EndTick(t)
    BY <2>1 DEF Fire, Take, TakePlan, Tell, MarkFails, EndTick, history
  <2>2. CASE TellFails(t)
    BY <2>2 DEF TellFails
  <2>3. CASE Mark(t)
    BY <2>3 DEF Mark, MarkReminder, TrackPlan, MarkLead, MarkListing, MarkActivity, MarkById, Overtaken
  <2> QED BY <1>1, <2>1, <2>2, <2>3
<1>2. ASSUME NEW u \in User, UserStep(u)  PROVE lost \subseteq lost'
  BY <1>2 DEF UserStep, Find, MarkDone, Cancel, Close, Reschedule
<1>3. ASSUME NEW i \in Item, Opens(i) \/ Closes(i) \/ MoveLead(i) \/ MoveListing(i)  PROVE lost \subseteq lost'
  BY <1>3 DEF Opens, Closes, MoveLead, MoveListing, history
<1>4. Crash \/ UNCHANGED vars => lost \subseteq lost'
  BY DEF Crash, vars, history
<1>5. CASE UserOrClock
  BY <1>2, <1>3, <1>4, <1>5 DEF UserOrClock
<1> QED BY <1>1, <1>4, <1>5, StepCases

\* Nothing that was told is untold.
LEMMA ToldGrows ==
  ASSUME TypeOK, [Next]_vars, NEW i \in Item, NEW d \in Date, told[i][d] > 0
  PROVE  told'[i][d] > 0
<1>1. told[i][d] \in Nat
  BY DEF TypeOK
<1>2. ASSUME NEW t \in Tick, Tell(t)  PROVE told'[i][d] > 0
  <2>1. CASE <<i, d>> # <<Cur(t).item, Cur(t).date>>
    BY <1>2, <2>1, TellIs
  <2>2. CASE i = Cur(t).item /\ d = Cur(t).date
    <3>1. told'[i][d] = told[i][d] + 1
      BY <1>2, <2>2, TellIs
    <3> QED BY <1>1, <3>1
  <2> QED BY <2>1, <2>2
<1> QED BY <1>2, ToldSteps

LEMMA ToldFirstKept == ASSUME Base, ToldFirst, [Next]_vars  PROVE ToldFirst'
<1> SUFFICES ASSUME NEW t \in Tick, cron' \in TellFirst, tick'[t].pc = "mark"
    PROVE  \/ told'[tick'[t].cur.item][tick'[t].cur.date] > 0
           \/ <<tick'[t].cur.item, tick'[t].cur.date>> \in lost'
  BY DEF ToldFirst, Cur
<1> DEFINE i == tick[t].cur.item  d == tick[t].cur.date
<1>1. cron \in TellFirst
  BY CronStays DEF Base
<1>2. CASE tick[t].pc = "mark" /\ tick'[t].cur = tick[t].cur
  <2>1. i \in Item /\ d \in Date
    BY <1>2, InHandType DEF Base, Cur
  <2>2. told[i][d] > 0 \/ <<i, d>> \in lost
    BY <1>1, <1>2 DEF ToldFirst, Cur
  <2> QED BY <1>2, <2>1, <2>2, ToldGrows, LostGrows DEF Base
<1>3. CASE tick'[t].cur = tick[t].cur /\ Tell(t)
  <2>1. told'[i][d] = told[i][d] + 1 /\ i \in Item /\ d \in Date
    BY <1>3, TellIs DEF Base, Cur
  <2>2. told[i][d] \in Nat
    BY <2>1 DEF Base, TypeOK
  <2> QED BY <1>3, <2>1, <2>2
<1>4. CASE tick'[t].cur = tick[t].cur /\ TellFails(t)
  BY <1>4 DEF TellFails, Cur
<1>5. ASSUME NEW u \in Tick, Fire(u)  PROVE tick'[t] = tick[t]
  <2>1. tick'[u].pc = "next" /\ \A v \in Tick \ {u} : tick'[v] = tick[v]
    BY <1>5 DEF Fire, Base, TypeOK, TickType
  <2> QED BY <2>1
<1>6. CASE Goes(t)
  <2>1. \/ tick[t].pc = "mark" /\ tick'[t].cur = tick[t].cur
        \/ tick'[t].cur = tick[t].cur /\ (Tell(t) \/ TellFails(t))
    BY <1>1, <1>6 DEF Goes
  <2> QED BY <1>2, <1>3, <1>4, <2>1
<1> QED BY <1>2, <1>5, <1>6, StepsWorkOff DEF WorkOff, Base

\* A mark that stays when the date moves is put down as lost.
LEMMA MovedIsLost ==
  ASSUME Base, Ended, [Next]_vars, NEW i \in Item,
         status[i] = "NOTIFIED", status'[i] = "NOTIFIED", date'[i] # date[i]
  PROVE  <<i, date'[i]>> \in lost'
<1>1. \A j \in Item : NewDate(j) => j = i /\ date'[i] = dates[i] + 1 /\ dates[i] < MaxDate
  BY NewDateType DEF Base, TypeOK, NewDate
<1>2. ASSUME NEW t \in Tick, Mark(t)  PROVE FALSE
  <2>1. MarkReminder(t) /\ NewDate(Cur(t).item) /\ Cur(t).item \in Recurs /\ cron = "custom"
    BY <1>2 DEF Mark, MarkReminder, Remind, TrackPlan, MarkLead, MarkListing, MarkActivity, MarkById
  <2>2. i \in Recurs /\ dates[i] < MaxDate
    BY <1>1, <2>1
  <2>3. dates[i] = MaxDate
    BY <2>1, <2>2 DEF Ended
  <2> QED BY <2>2, <2>3
<1>3. ASSUME NEW t \in Tick, \/ Fire(t) \/ Take(t) \/ TakePlan(t) \/ Tell(t) \/ TellFails(t)
                               \/ MarkFails(t) \/ EndTick(t)
      PROVE  FALSE
  BY <1>3 DEF Fire, Take, TakePlan, Tell, TellFails, MarkFails, EndTick, durable
<1>4. ASSUME NEW u \in User, UserStep(u)  PROVE <<i, date'[i]>> \in lost'
  <2>1. Reschedule(u)
    BY <1>4 DEF UserStep, Find, MarkDone, Cancel, Close, durable
  <2>2. req[u].item = i /\ date'[i] = dates[i] + 1
    <3>1. req[u].item \in Item /\ NewDate(req[u].item)
      BY <2>1, RequestType DEF Reschedule, Base
    <3> QED BY <1>1, <3>1
  <2>3. ~(status' = [status EXCEPT ![i] = "PENDING"])
    BY DEF Base, TypeOK
  <2> QED BY <2>1, <2>2, <2>3 DEF Reschedule
<1>5. ASSUME NEW j \in Item, Opens(j) \/ Closes(j) \/ MoveLead(j) \/ MoveListing(j)
      PROVE  <<i, date'[i]>> \in lost'
  <2>1. MoveLead(j) \/ MoveListing(j)
    BY <1>5 DEF Opens, Closes
  <2>2. j = i /\ date'[i] = dates[i] + 1
    BY <1>1, <2>1 DEF MoveLead, MoveListing, MoveDate
  <2>3. ~MoveLead(j)
    BY <2>2 DEF MoveLead, Base, TypeOK
  <2> QED BY <2>1, <2>2, <2>3 DEF MoveListing
<1>6. ~(Crash \/ UNCHANGED vars)
  BY DEF Crash, vars, durable
<1>7. CASE UserOrClock
  BY <1>4, <1>5, <1>6, <1>7 DEF UserOrClock
<1> QED BY <1>2, <1>3, <1>6, <1>7, StepCases

\* What a new mark is about.
LEMMA NewMarkIsBacked ==
  ASSUME Base, ToldFirst, [Next]_vars, NEW i \in Item, NEW t \in Tick, Marks(t, i), told'[i][date'[i]] = 0
  PROVE  <<i, date'[i]>> \in lost' \cup (IF cron' \in TellFirst THEN {} ELSE Owed')
<1> DEFINE d == Cur(t).date
<1>1. tick[t].pc = "mark" /\ Cur(t).item = i /\ date' = date /\ cron' = cron
  BY DEF Marks, TrackPlan, MarkById, MarkReminder
<1>2. d \in Date /\ d <= dates[i] /\ date[i] \in Date /\ date[i] <= dates[i] /\ dates[i] \in Date
  BY <1>1, InHandType DEF Base, Snapshots, Holds, TypeOK
<1>3. CASE cron \in TellFirst /\ date[i] = d
  <2>1. told[i][d] > 0 \/ <<i, d>> \in lost
    BY <1>1, <1>3 DEF ToldFirst
  <2> QED BY <1>1, <1>2, <1>3, <2>1, ToldGrows, LostGrows DEF Base
<1>4. CASE TrackPlan(t)
  <2>1. cron = "plan" /\ cron \in TellFirst /\ dates[i] = 1
    BY <1>4 DEF TrackPlan, TellFirst, Base, Fixed
  <2>2. date[i] = d
    BY <1>2, <2>1 DEF Date
  <2> QED BY <1>3, <2>1, <2>2
<1>5. CASE MarkById(t) /\ cron \notin TellFirst /\ date[i] = d
  <2>1. tick'[t].pc = "tell" /\ tick'[t].cur = Cur(t)
    BY <1>1, <1>5, GotoIs DEF MarkById, Cur, Base
  <2>2. <<i, d>> \in Owed'
    BY <1>1, <2>1 DEF Owed, Cur
  <2> QED BY <1>1, <1>5, <2>2
<1>6. CASE Overtaken(t) /\ date[i] # d
  BY <1>1, <1>6 DEF Overtaken
<1>7. MarkReminder(t) => cron \in TellFirst /\ Overtaken(t)
  BY DEF MarkReminder, TellFirst
<1> QED BY <1>3, <1>4, <1>5, <1>6, <1>7 DEF Marks, MarkById

LEMMA BackedKept == ASSUME Base, Ended, ToldFirst, Backed, [Next]_vars  PROVE Backed'
<1> SUFFICES ASSUME NEW i \in Item, status'[i] = "NOTIFIED", told'[i][date'[i]] = 0
    PROVE  <<i, date'[i]>> \in lost' \cup (IF cron' \in TellFirst THEN {} ELSE Owed')
  BY DEF Backed
<1>1. CASE status[i] # "NOTIFIED"
  BY <1>1, StatusSteps, NewMarkIsBacked DEF StatusMoves, Marked, Base
<1>2. CASE status[i] = "NOTIFIED" /\ date'[i] # date[i]
  BY <1>2, MovedIsLost
<1>3. CASE status[i] = "NOTIFIED" /\ date'[i] = date[i]
  <2> DEFINE d == date[i]
  <2>1. told[i][d] = 0
    <3>1. told[i][d] \in Nat /\ d \in Date
      BY DEF Base, TypeOK
    <3> QED BY <1>3, <3>1, ToldGrows DEF Base
  <2>2. CASE <<i, d>> \in lost
    BY <1>3, <2>2, LostGrows
  <2>3. CASE cron \notin TellFirst /\ <<i, d>> \in Owed
    <3>1. PICK t \in Tick : tick[t].pc = "tell" /\ Cur(t).item = i /\ Cur(t).date = d
      BY <2>3 DEF Owed
    <3>2. ~Tell(t)
      <4>1. Tell(t) => told'[i][d] = told[i][d] + 1
        BY <3>1, TellIs DEF Base
      <4> QED BY <1>3, <2>1, <4>1
    <3>3. CASE TellFails(t)
      BY <1>3, <3>1, <3>3 DEF TellFails
    <3>4. CASE Crash
      BY <1>3, <2>3, <3>4 DEF Crash
    <3>5. CASE tick'[t] = tick[t]
      <4>1. <<i, d>> \in Owed'
        BY <3>1, <3>5 DEF Owed, Cur
      <4> QED BY <1>3, <2>3, <4>1, CronStays DEF Base
    <3> QED BY <3>1, <3>2, <3>3, <3>4, <3>5, LeaveTell DEF Base
  <2> QED BY <1>3, <2>1, <2>2, <2>3 DEF Backed
<1> QED BY <1>1, <1>2, <1>3

\* Whatever fails, a record that is marked has been told of its date, is being told of it,
\* or is one of those the exceptions of MarkedWasTold name.
THEOREM MarkedIsTold == Spec => []MarkedWasTold
<1> DEFINE Inv == Ended /\ ToldFirst /\ Backed
<1>1. Init => Inv
  BY DEF Init, Ended, ToldFirst, Backed, Idle
<1>2. Base /\ Inv /\ [Next]_vars => Inv'
  BY EndedKept, ToldFirstKept, BackedKept
<1>3. Base /\ Inv => MarkedWasTold
  BY DEF Backed, MarkedWasTold
<1> HIDE DEF Inv
<1> QED BY <1>1, <1>2, <1>3, BaseHolds, PTL DEF Spec

-----------------------------------------------------------------------------
(* What is cancelled is quiet. *)

\* The tick has the record before it or is about to tell of it.
Ahead(t, i) == \/ \E s \in tick[t].todo : s.item = i
               \/ tick[t].pc = "tell" /\ Cur(t).item = i

\* A cancelled reminder is found by no tick, and once the tick that held it has told of it
\* no tick has it any more.
Hushed ==
  \A i \in Item : quiet[i] > 0 =>
    /\ cron = "custom" /\ status[i] # "PENDING" /\ quiet[i] <= 2
    /\ quiet[i] = 2 => \A t \in Tick : ~Ahead(t, i)

\* Only telling counts up, and only cancelling begins to count.
LEMMA QuietSteps ==
  ASSUME TypeOK, Requested, [Next]_vars, NEW i \in Item, ~ \E t \in Tick : Tell(t)
  PROVE  \/ quiet'[i] = quiet[i]
         \/ quiet'[i] = 0
         \/ quiet'[i] = 1 /\ cron = "custom" /\ status'[i] = "CANCELLED"
<1> DEFINE G == \/ quiet'[i] = quiet[i]
                \/ quiet'[i] = 0
                \/ quiet'[i] = 1 /\ cron = "custom" /\ status'[i] = "CANCELLED"
<1>1. ASSUME NEW t \in Tick, \/ Fire(t) \/ Take(t) \/ TakePlan(t) \/ TellFails(t)
                               \/ Mark(t) \/ MarkFails(t) \/ EndTick(t)
      PROVE  G
  BY <1>1 DEF Fire, Take, TakePlan, TellFails, Mark, MarkFails, EndTick, MarkReminder, TrackPlan,
              MarkLead, MarkListing, MarkActivity, MarkById, history
<1>2. ASSUME NEW u \in User, UserStep(u)  PROVE G
  <2>1. CASE Reschedule(u) \/ \E op \in {"done", "cancel", "reschedule"}, j \in Item : Find(u, op, j)
    BY <2>1 DEF Reschedule, Find, TypeOK
  <2>2. CASE MarkDone(u)
    BY <2>2 DEF MarkDone, Close, TypeOK
  <2>3. CASE Cancel(u)
    BY <2>3 DEF Cancel, Close, TypeOK, Requested
  <2> QED BY <1>2, <2>1, <2>2, <2>3 DEF UserStep
<1>3. ASSUME NEW j \in Item, Opens(j) \/ Closes(j) \/ MoveLead(j) \/ MoveListing(j)  PROVE G
  BY <1>3 DEF Opens, Closes, MoveLead, MoveListing, MoveDate, history
<1>4. Crash \/ UNCHANGED vars => G
  BY DEF Crash, vars, history
<1>5. CASE UserOrClock
  BY <1>2, <1>3, <1>4, <1>5 DEF UserOrClock
<1> QED BY <1>1, <1>4, <1>5, StepCases

\* Without a new find a record gets ahead of no tick.
LEMMA AheadShrinks ==
  ASSUME TypeOK, cron \in TellFirst, NEW t \in Tick, Goes(t), NEW i, Ahead(t, i)'
  PROVE  Ahead(t, i)
<1>1. tick'[t].todo \subseteq tick[t].todo
  BY GoesOn
<1>2. CASE tick'[t].pc = "tell" /\ tick'[t].cur.item = i
  BY <1>2 DEF Goes, Ahead, Cur
<1> QED BY <1>1, <1>2 DEF Ahead, Cur

LEMMA TellHushed == ASSUME Base, Hushed, NEW t \in Tick, Tell(t)  PROVE Hushed'
<1>1. WorkOff /\ UNCHANGED <<cron, status>>
  BY TellGoes, TellIs DEF Base
<1> SUFFICES ASSUME NEW i \in Item, quiet'[i] > 0
    PROVE  /\ cron' = "custom" /\ status'[i] # "PENDING" /\ quiet'[i] <= 2
           /\ quiet'[i] = 2 => \A v \in Tick : ~Ahead(v, i)'
  BY DEF Hushed
<1>2. quiet[i] \in Nat /\ tick[t].pc = "tell"
      /\ quiet'[i] = (IF i = Cur(t).item /\ quiet[i] # 0 THEN quiet[i] + 1 ELSE quiet[i])
  BY DEF Tell, Base, TypeOK
<1>3. quiet[i] > 0
  BY <1>2
<1>4. cron = "custom" /\ status[i] # "PENDING" /\ quiet[i] <= 2
      /\ (quiet[i] = 2 => \A v \in Tick : ~Ahead(v, i))
  BY <1>3 DEF Hushed
<1>5. \A v \in Tick : Ahead(v, i)' => Ahead(v, i)
  BY <1>1, <1>4, AheadShrinks DEF WorkOff, Base, TellFirst
<1>6. CASE i # Cur(t).item
  BY <1>1, <1>2, <1>4, <1>5, <1>6
<1>7. CASE i = Cur(t).item
  <2>1. quiet[i] = 1 /\ quiet'[i] = 2
    BY <1>2, <1>3, <1>4, <1>7 DEF Ahead
  <2>2. ASSUME NEW v \in Tick \ {t}  PROVE ~Ahead(v, i)
    <3>1. tick[v].pc = "idle"
      BY <1>2, <1>4, <2>2 DEF Base, OneTick
    <3> QED BY <3>1 DEF Ahead, Base, TypeOK
  <2>3. ~Ahead(t, i)'
    <3>1. \A s \in tick'[t].todo : s.item # i
      BY <1>1, <1>2, <1>7, GoesOn DEF WorkOff, Base, Snapshots, Holds
    <3>2. tick'[t].pc = "mark"
      BY <1>2, <1>4, GotoIs DEF Tell, AfterTell, Base
    <3> QED BY <3>1, <3>2 DEF Ahead
  <2> QED BY <1>1, <1>4, <1>5, <2>1, <2>2, <2>3
<1> QED BY <1>6, <1>7

LEMMA HushedKept == ASSUME Base, Hushed, [Next]_vars  PROVE Hushed'
<1>1. CASE ~ \E t \in Tick : Tell(t)
  <2> SUFFICES ASSUME NEW i \in Item, quiet'[i] > 0
      PROVE  /\ cron' = "custom" /\ status'[i] # "PENDING" /\ quiet'[i] <= 2
             /\ quiet'[i] = 2 => \A v \in Tick : ~Ahead(v, i)'
    BY DEF Hushed
  <2>1. cron' = cron
    BY CronStays DEF Base
  <2>2. CASE quiet'[i] = 1 /\ cron = "custom" /\ status'[i] = "CANCELLED"
    BY <2>1, <2>2
  <2>3. CASE quiet'[i] = quiet[i]
    <3>1. cron = "custom" /\ status[i] # "PENDING" /\ quiet[i] <= 2
          /\ (quiet[i] = 2 => \A v \in Tick : ~Ahead(v, i))
      BY <2>3 DEF Hushed
    <3>2. status'[i] # "PENDING"
      BY <3>1, StatusSteps DEF StatusMoves, Base
    <3>3. ASSUME NEW v \in Tick, Ahead(v, i)'  PROVE Ahead(v, i)
      <4>1. ASSUME NEW t \in Tick, Fire(t)  PROVE Ahead(v, i)
        <5>1. /\ tick'[t].pc = "next" /\ tick'[t].todo = Found
              /\ \A w \in Tick \ {t} : tick'[w] = tick[w]
          BY <4>1 DEF Fire, Base, TypeOK, TickType
        <5>2. \A s \in Found : s.item # i
          BY <3>1 DEF Found, Due
        <5> QED BY <3>3, <5>1, <5>2 DEF Ahead, Cur
      <4>2. CASE WorkOff
        BY <3>1, <3>3, <4>2, AheadShrinks DEF WorkOff, Base, TellFirst
      <4> QED BY <4>1, <4>2, StepsWorkOff DEF Base
    <3> QED BY <2>1, <2>3, <3>1, <3>2, <3>3
  <2> QED BY <1>1, <2>2, <2>3, QuietSteps DEF Base
<1> QED BY <1>1, TellHushed

\* Whatever requests and ticks interleave, a cancelled reminder is heard of at most once,
\* from the tick that held it when it was cancelled.
THEOREM CancelIsQuiet == Spec => []CancelledIsQuiet
<1>1. Init => Hushed
  BY DEF Init, Hushed
<1>2. Base /\ Hushed /\ [Next]_vars => Hushed'
  BY HushedKept
<1>3. Base /\ Hushed => CancelledIsQuiet
  <2> SUFFICES ASSUME Base, Hushed, NEW i \in Item  PROVE quiet[i] <= 2
    BY DEF CancelledIsQuiet
  <2>1. quiet[i] \in Nat
    BY DEF Base, TypeOK
  <2> QED BY <2>1 DEF Hushed
<1> QED BY <1>1, <1>2, <1>3, BaseHolds, PTL DEF Spec
=============================================================================
