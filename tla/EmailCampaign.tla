---------------------------- MODULE EmailCampaign ----------------------------
(***************************************************************************)
(* An email campaign (src/api/src/crm/email): one document in MongoDB, the *)
(* requests of its owner, and the runs of executeCampaign that sendNow,    *)
(* create and the minute cron start.                                       *)
(*                                                                         *)
(* A run reads the document, saves it as 'sending', sends the whole list   *)
(* with the outcomes in memory, and saves once at the end.  What keeps two *)
(* runs apart is the status that executeCampaign reads first, and nothing  *)
(* takes up the work of a run that died: unlike the loop of a WhatsApp     *)
(* campaign it is not looked for.  doc.save() writes the paths the copy    *)
(* changed, by _id; a save that replaces the recipients also demands the   *)
(* version (__v) of the copy, and increments it.                           *)
(***************************************************************************)
EXTENDS Naturals, FiniteSets

CONSTANTS
  Recipient,  \* the addresses of the list, in its order: a set of numbers
  Executor,   \* calls of executeCampaign; as many at a time as there are
  User,       \* requests of the owner that may be in progress together
  NoDoc,      \* no copy loaded
  MaxRequests, \* bound: requests
  MaxFaults   \* bound: crashes, sends that throw or lose their answer, failed saves

Status   == {"draft", "scheduled", "sending", "completed", "cancelled", "failed"}
Entry    == {"pending", "sent", "failed", "absent"}
Document == [status : Status, version : Nat, list : [Recipient -> Entry]]
Proc     == Executor \cup User
Command  == {"update", "remove", "cancel"}

ASSUME EmailCampaignAssumption ==
  /\ Recipient \subseteq Nat
  /\ Executor \cap User = {} /\ IsFiniteSet(Executor)
  /\ NoDoc \notin Document
  /\ MaxRequests \in Nat /\ MaxFaults \in Nat

VARIABLES
  doc,       \* the campaign in MongoDB
  isDeleted, \* it is in the trash: no find returns it
  pc,        \* [Proc -> place in the code]
  snap,      \* [Proc -> the copy of the document it works on]
  todo,      \* [Executor -> recipients its run still has to send to]
  tally,     \* [Executor -> outcomes it has counted, among "sent" and "failed"]
  copies,    \* history: [Recipient -> messages that went out]
  unsaid,    \* history: [Recipient -> messages that went out and were not recorded]
  outdated,  \* history: copies whose status was saved by another since they were loaded
  overtaken, \* history: statuses saved from such copies without asking for the version
  abandoned, \* history: the last run at work ended without saving how
  requests, faults

memory  == <<pc, snap, todo, tally>>
history == <<copies, unsaid, outdated, overtaken, abandoned>>
bounds  == <<requests, faults>>
vars    == <<doc, isDeleted, memory, history, bounds>>

ExecutorPc == {"off", "called", "found", "sending", "failing"}
RequestPc  == {"idle"} \cup Command

\* A process has a copy of the document exactly between the load and the last
\* save of its handler, and recipients to visit only while it sends.
ControlOK ==
  /\ pc \in [Proc -> ExecutorPc \cup RequestPc]
  /\ \A x \in Executor : pc[x] \in ExecutorPc
  /\ \A q \in User : pc[q] \in RequestPc
  /\ snap \in [Proc -> Document \cup {NoDoc}]
  /\ \A p \in Proc : snap[p] = NoDoc <=> pc[p] \in {"off", "called", "idle"}
  /\ todo \in [Executor -> SUBSET Recipient]
  /\ tally \in [Executor -> SUBSET {"sent", "failed"}]
  /\ \A x \in Executor : pc[x] # "sending" => todo[x] = {} /\ tally[x] = {}

HistoryOK ==
  /\ copies \in [Recipient -> Nat] /\ unsaid \in [Recipient -> Nat]
  /\ outdated \subseteq Proc /\ overtaken \in Nat /\ abandoned \in BOOLEAN
  /\ requests \in Nat /\ faults \in Nat

\* Types, and which process holds what.
TypeOK == doc \in Document /\ isDeleted \in BOOLEAN /\ ControlOK /\ HistoryOK

\* What create leaves behind; with sendNow it goes on like SendNow.
Init ==
  /\ doc \in [status : {"draft", "scheduled"}, version : {0},
              list : {[r \in Recipient |-> "pending"]}]
  /\ isDeleted = FALSE
  /\ pc = [p \in Proc |-> IF p \in Executor THEN "off" ELSE "idle"]
  /\ snap = [p \in Proc |-> NoDoc]
  /\ todo = [x \in Executor |-> {}] /\ tally = todo
  /\ copies = [r \in Recipient |-> 0] /\ unsaid = [r \in Recipient |-> 0]
  /\ outdated = {} /\ overtaken = 0 /\ abandoned = FALSE
  /\ requests = 0 /\ faults = 0

-----------------------------------------------------------------------------
Pending(d) == {r \in Recipient : d.list[r] = "pending"}
Asked      == requests < MaxRequests /\ requests' = requests + 1
Fault      == faults < MaxFaults /\ faults' = faults + 1
AtWork     == {x \in Executor : pc[x] \in {"sending", "failing"}}

\* A slip that leaves out markModified('recipients'): no version to match.
VersionMatches_NotAsked(p) == TRUE

\* The condition a save that replaces the recipients array adds to its filter.
VersionMatches(p) == snap[p].version = doc.version

Goto(p, l) == pc' = [pc EXCEPT ![p] = l]
Load(p)    == snap' = [snap EXCEPT ![p] = doc]
Forget(p)  == snap' = [snap EXCEPT ![p] = NoDoc]

\* p saves a status: every copy whose status another may still save is outdated.
Outdate(p) ==
  outdated' = {o \in Proc \ {p} : pc[o] \in {"found", "sending", "failing", "update", "cancel"}}

\* p saves a status by _id alone, and perhaps over one that it has not seen.
StatusSaved(p) ==
  /\ Outdate(p)
  /\ overtaken' = IF p \in outdated THEN overtaken + 1 ELSE overtaken

\* p saves no status.
KeepStatus(p) == outdated' = outdated \ {p} /\ UNCHANGED overtaken

\* x stops without having saved what became of its run.
Abandon(x) ==
  /\ abandoned' = (abandoned \/ AtWork = {x})
  /\ KeepStatus(x) /\ UNCHANGED doc

-----------------------------------------------------------------------------
(* Requests.  Each loads the document, checks the status of its copy, and  *)
(* saves what it changed.                                                  *)

\* The statuses from which a command is accepted.
AllowedIn ==
  [update |-> {"draft", "scheduled"},
   remove |-> Status \ {"sending"},
   cancel |-> {"scheduled"}]

\* getOwnedCampaign and the status check of the command.
Accept(q, command) ==
  /\ pc[q] = "idle"
  /\ ~isDeleted /\ doc.status \in AllowedIn[command]
  /\ Load(q) /\ Goto(q, command) /\ Asked
  /\ UNCHANGED <<doc, isDeleted, todo, tally, history, faults>>

\* update: it may reschedule the campaign, which writes the status if that changes
\* the copy's, and replace the list.
Edited(q, s, R) ==
  [status  |-> IF s = snap[q].status THEN doc.status ELSE s,
   version |-> IF R = {} THEN doc.version ELSE doc.version + 1,
   list    |-> IF R = {} THEN doc.list
                         ELSE [r \in Recipient |-> IF r \in R THEN "pending" ELSE "absent"]]

Update(q) ==
  /\ pc[q] = "update"
  /\ \/ \E s \in {snap[q].status, "draft", "scheduled"}, R \in SUBSET Recipient :
          /\ R = {} \/ VersionMatches(q)
          /\ doc' = Edited(q, s, R)
          /\ IF s = snap[q].status THEN KeepStatus(q) ELSE StatusSaved(q)
     \/ ~VersionMatches(q) /\ KeepStatus(q) /\ UNCHANGED doc
  /\ Goto(q, "idle") /\ Forget(q)
  /\ UNCHANGED <<isDeleted, todo, tally, copies, unsaid, abandoned, bounds>>

Remove(q) ==
  /\ pc[q] = "remove"
  /\ isDeleted' = TRUE
  /\ Goto(q, "idle") /\ Forget(q)
  /\ UNCHANGED <<doc, todo, tally, history, bounds>>

Cancel(q) ==
  /\ pc[q] = "cancel"
  /\ doc' = [doc EXCEPT !.status = "cancelled"] /\ StatusSaved(q)
  /\ Goto(q, "idle") /\ Forget(q)
  /\ UNCHANGED <<isDeleted, todo, tally, copies, unsaid, abandoned, bounds>>

\* The trash (crm/admin) gives the campaign back as it was.
Restore ==
  /\ isDeleted /\ Asked
  /\ isDeleted' = FALSE
  /\ UNCHANGED <<doc, memory, history, faults>>

\* sendNow: its own check, and then executeCampaign, which reads again.
SendNow ==
  /\ ~isDeleted /\ doc.status \in {"draft", "scheduled", "failed"}
  /\ \E x \in Executor : pc[x] = "off" /\ Goto(x, "called")
  /\ Asked
  /\ UNCHANGED <<doc, isDeleted, snap, todo, tally, history, faults>>

\* A tick of processScheduledCampaigns finds the campaign scheduled and due; the
\* call comes after the campaigns before it, and ticks may overlap.
FindDue(x) ==
  /\ pc[x] = "off"
  /\ doc.status = "scheduled" /\ ~isDeleted
  /\ Goto(x, "called")
  /\ UNCHANGED <<doc, isDeleted, snap, todo, tally, history, bounds>>

-----------------------------------------------------------------------------
(* executeCampaign.                                                        *)

\* A slip: only the end of a campaign is looked at.
Refused_Completed == {"completed"}

Refused == {"sending", "completed"}

\* The document is read, and refused when it is being sent or has been.
Find(x) ==
  /\ pc[x] = "called"
  /\ IF isDeleted \/ doc.status \in Refused
       THEN Goto(x, "off") /\ UNCHANGED snap
       ELSE Goto(x, "found") /\ Load(x)
  /\ UNCHANGED <<doc, isDeleted, todo, tally, history, bounds>>

\* It is saved as 'sending', whatever its status has become.  The text decides if the
\* run sends one by one or with sendBulkSmart, which throws when it is given nobody;
\* the choice is left open here.
Begin(x) ==
  /\ pc[x] = "found"
  /\ doc' = [doc EXCEPT !.status = "sending"]
  /\ StatusSaved(x) /\ abandoned' = FALSE
  /\ snap' = [snap EXCEPT ![x].status = "sending"]
  /\ todo' = [todo EXCEPT ![x] = Pending(snap[x])]
  /\ Goto(x, "sending") \/ (Pending(snap[x]) = {} /\ Goto(x, "failing"))
  /\ UNCHANGED <<isDeleted, tally, copies, unsaid, bounds>>

\* The copy of x after the outcome of its next recipient, who is r.
Record(x, r, outcome) ==
  /\ snap' = [snap EXCEPT ![x].list = [@ EXCEPT ![r] = outcome]]
  /\ tally' = [tally EXCEPT ![x] = @ \cup {outcome}]

NextOf(x, r) == r \in todo[x] /\ \A other \in todo[x] : r <= other
Deliver(r)   == copies' = [copies EXCEPT ![r] = @ + 1]

Lose(r)      == Deliver(r) /\ Fault /\ unsaid' = [unsaid EXCEPT ![r] = @ + 1]

\* sendFromAccount: sent, refused, or sent and taken for refused.
Send(x) ==
  /\ pc[x] = "sending"
  /\ \E r \in Recipient :
       /\ NextOf(x, r)
       /\ todo' = [todo EXCEPT ![x] = @ \ {r}]
       /\ \/ Deliver(r) /\ Record(x, r, "sent") /\ UNCHANGED <<unsaid, faults>>
          \/ Record(x, r, "failed") /\ UNCHANGED <<copies, unsaid, faults>>
          \/ Lose(r) /\ Record(x, r, "failed")
  /\ UNCHANGED <<doc, isDeleted, pc, outdated, overtaken, abandoned, requests>>

\* sendBulkSmart tries the next mailbox for a recipient whose message was taken for
\* refused.
Retry(x) ==
  /\ pc[x] = "sending"
  /\ \E r \in Recipient : NextOf(x, r) /\ Lose(r)
  /\ UNCHANGED <<doc, isDeleted, memory, outdated, overtaken, abandoned, requests>>

\* In sendBulkSmart a send that throws, before or after its message went out (the
\* hourly limit, a failed write), takes the outcomes of the ones before with it.
Throw(x) ==
  /\ pc[x] = "sending" /\ Fault
  /\ \E r \in Recipient, gone \in BOOLEAN :
       /\ NextOf(x, r)
       /\ IF gone THEN Deliver(r) ELSE UNCHANGED copies
       /\ unsaid' = [o \in Recipient |->
            IF (gone /\ o = r) \/ (snap[x].list[o] = "sent" /\ doc.list[o] # "sent")
              THEN unsaid[o] + 1 ELSE unsaid[o]]
  /\ todo' = [todo EXCEPT ![x] = {}] /\ tally' = [tally EXCEPT ![x] = {}]
  /\ Goto(x, "failing")
  /\ UNCHANGED <<doc, isDeleted, snap, outdated, overtaken, abandoned, requests>>

\* A slip: what was thrown is passed on before it is saved.
Fail_Rethrows(x) ==
  /\ pc[x] = "failing"
  /\ Goto(x, "off") /\ Forget(x)
  /\ UNCHANGED <<doc, isDeleted, todo, tally, history, bounds>>

\* The catch: the copy's recipients are untouched, so only the status is written.
Fail(x) ==
  /\ pc[x] = "failing"
  /\ doc' = [doc EXCEPT !.status = "failed"] /\ StatusSaved(x)
  /\ Goto(x, "off") /\ Forget(x)
  /\ UNCHANGED <<isDeleted, todo, tally, copies, unsaid, abandoned, bounds>>

Verdict(x) == IF tally[x] = {"failed"} THEN "failed" ELSE "completed"

SaveOutcomes(x, s) ==
  /\ VersionMatches(x)
  /\ doc' = [doc EXCEPT !.status = s, !.version = @ + 1, !.list = snap[x].list]
  /\ Outdate(x) /\ UNCHANGED <<overtaken, abandoned>>

\* The one save at the end.  A version that does not match throws, and so does the
\* second save in the catch, which carries the same recipients.
Finish(x) ==
  /\ pc[x] = "sending" /\ todo[x] = {}
  /\ \/ SaveOutcomes(x, Verdict(x))
     \/ ~VersionMatches(x) /\ Abandon(x)
  /\ Goto(x, "off") /\ Forget(x) /\ tally' = [tally EXCEPT ![x] = {}]
  /\ UNCHANGED <<isDeleted, todo, copies, unsaid, bounds>>

\* The save fails for another reason; the one in the catch may get through.
FinishFails(x) ==
  /\ pc[x] = "sending" /\ todo[x] = {} /\ Fault
  /\ SaveOutcomes(x, "failed") \/ Abandon(x)
  /\ Goto(x, "off") /\ Forget(x) /\ tally' = [tally EXCEPT ![x] = {}]
  /\ UNCHANGED <<isDeleted, todo, copies, unsaid, requests>>

\* The API process dies and is restarted: runs and requests are gone.
Crash ==
  /\ Fault
  /\ pc' = [p \in Proc |-> IF p \in Executor THEN "off" ELSE "idle"]
  /\ snap' = [p \in Proc |-> NoDoc]
  /\ todo' = [x \in Executor |-> {}] /\ tally' = todo'
  /\ abandoned' = (abandoned \/ AtWork # {}) /\ outdated' = {}
  /\ UNCHANGED <<doc, isDeleted, copies, unsaid, overtaken, requests>>

-----------------------------------------------------------------------------
UserStep(q) ==
  \/ \E command \in Command : Accept(q, command)
  \/ Update(q) \/ Remove(q) \/ Cancel(q)

Execute(x) == Find(x) \/ Begin(x) \/ Send(x) \/ Fail(x) \/ Finish(x)

Next ==
  \/ \E q \in User : UserStep(q)
  \/ SendNow \/ Restore
  \/ \E x \in Executor : FindDue(x) \/ Execute(x) \/ Retry(x) \/ Throw(x) \/ FinishFails(x)
  \/ Crash

Spec == Init /\ [][Next]_vars

\* A run goes on unless the process dies, and the cron comes every minute.
FairSpec ==
  /\ Spec
  /\ \A x \in Executor : WF_vars(Execute(x)) /\ WF_vars(FindDue(x))

-----------------------------------------------------------------------------
(* Safety.                                                                 *)

\* A recipient gets one message, and one more only for a message that was taken for
\* refused or lost in a run that threw, or for a status saved, by _id alone, from an
\* outdated copy: two calls that both read the document before either saved it as
\* 'sending', a tick that comes late, an edit or a cancellation that overlaps the
\* start of a run, a run that fails when another has begun.
EveryCopyIsPaidFor ==
  \A r \in Recipient : copies[r] <= 1 + unsaid[r] + overtaken

\* A campaign is reported completed only when every recipient has an outcome,
\* whatever runs and edits overlapped.
CompletedIsSettled == doc.status = "completed" => Pending(doc) = {}

(* Liveness.                                                               *)

\* A campaign in 'sending' leaves it, unless the last run at work died or could not
\* save its end: then nothing takes it up again.
SendingEnds == doc.status = "sending" ~> doc.status # "sending" \/ abandoned
=============================================================================
