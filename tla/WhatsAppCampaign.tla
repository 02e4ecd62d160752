--------------------------- MODULE WhatsAppCampaign ---------------------------
(***************************************************************************)
(* A WhatsApp campaign (src/api/src/crm/whatsapp-campaigns): one document  *)
(* in MongoDB, the requests and crons that change its status, and the send *)
(* loops (executors) that run in the API process.                          *)
(*                                                                         *)
(* Every request and every loop works on a copy of the document it loaded  *)
(* earlier.  doc.save() writes the fields that the copy changed, by _id;   *)
(* only a save that replaces the recipients array also demands that the    *)
(* document still has the version (__v) of the copy, and increments it.    *)
(* That is all the protection concurrent loops have against each other.    *)
(***************************************************************************)
EXTENDS Naturals, FiniteSets

CONSTANTS
  Recipient,   \* the phone numbers of the list, in its order: a set of numbers
  Executor,    \* runs of executeCampaign; as many at a time as there are
  Request,     \* user requests, each of which makes one call
  Commands,    \* what the requests ask for
  Scheduler,   \* the processScheduledCampaigns cron
  NoDoc,       \* no copy loaded
  NoRecipient, \* no recipient in hand
  MaxFaults    \* bound: crashes, lost answers of the provider, failed starts and
               \*        sends that outlast STALE_AFTER_MS, together

Status    == {"draft", "scheduled", "sending", "paused", "completed", "cancelled", "failed"}
Delivery  == {"pending", "sent", "failed"}
Entry     == Delivery \cup {"absent"}
Closed    == {"completed", "failed"}

Document  == [status : Status, version : Nat, list : [Recipient -> Entry],
              sentCount : Nat, failedCount : Nat]

Proc      == Executor \cup Request \cup {Scheduler}
Command   == {"update", "remove", "cancel", "pause", "resume", "launch"}

ASSUME CampaignAssumption ==
  /\ Recipient \subseteq Nat
  /\ IsFiniteSet(Executor)
  /\ Commands \subseteq Command
  /\ Executor \cap Request = {} /\ Scheduler \notin Executor \cup Request
  /\ NoDoc \notin Document /\ NoRecipient \notin Recipient
  /\ MaxFaults \in Nat

VARIABLES
  doc,       \* the campaign in MongoDB
  isDeleted, \* it is in the trash: no find returns it
  pc,        \* [Proc -> place in the code]
  snap,      \* [Proc -> the copy of the document it works on]
  todo,      \* [Executor -> recipients its loop still has to visit]
  target,    \* [Executor -> the recipient it is sending to]
  copies,    \* history: [Recipient -> messages the provider accepted]
  excuses,   \* history: [Recipient -> reasons for one message more]
  strays,    \* history: [Executor -> messages since the campaign left 'sending']
  faults

memory  == <<pc, snap, todo, target>>
history == <<copies, excuses, strays>>
vars    == <<doc, isDeleted, memory, history, faults>>

ExecutorPc == {"off", "start", "loop", "sending", "save", "final", "close"}
RequestPc  == {"idle", "done"} \cup Command

\* A process has a copy of the document exactly between the load and the save
\* of its handler, and a loop has a recipient in hand between check and save.
ControlOK ==
  /\ pc \in [Proc -> ExecutorPc \cup RequestPc \cup {"due"}]
  /\ \A x \in Executor : pc[x] \in ExecutorPc
  /\ \A q \in Request : pc[q] \in RequestPc
  /\ pc[Scheduler] \in {"idle", "due"}
  /\ snap \in [Proc -> Document \cup {NoDoc}]
  /\ \A p \in Proc : snap[p] = NoDoc <=> pc[p] \in {"off", "start", "loop", "final", "idle", "done"}
  /\ todo \in [Executor -> SUBSET Recipient]
  /\ target \in [Executor -> Recipient \cup {NoRecipient}]
  /\ \A x \in Executor : target[x] = NoRecipient <=> pc[x] \notin {"sending", "save"}

HistoryOK ==
  /\ copies \in [Recipient -> Nat] /\ excuses \in [Recipient -> Nat]
  /\ strays \in [Executor -> Nat]
  /\ faults \in Nat

\* Types, and which process holds what.
TypeOK == doc \in Document /\ isDeleted \in BOOLEAN /\ ControlOK /\ HistoryOK

\* What create leaves behind; with sendNow it goes on like launch.
Init ==
  /\ doc \in [status : {"draft", "scheduled"}, version : {0},
              list : {[r \in Recipient |-> "pending"]},
              sentCount : {0}, failedCount : {0}]
  /\ isDeleted = FALSE
  /\ pc = [p \in Proc |-> IF p \in Executor THEN "off" ELSE "idle"]
  /\ snap = [p \in Proc |-> NoDoc]
  /\ todo = [x \in Executor |-> {}]
  /\ target = [x \in Executor |-> NoRecipient]
  /\ copies = [r \in Recipient |-> 0]
  /\ excuses = [r \in Recipient |-> 0]
  /\ strays = [x \in Executor |-> 0]
  /\ faults = 0

-----------------------------------------------------------------------------
Pending(d) == {r \in Recipient : d.list[r] = "pending"}
Fault      == faults < MaxFaults /\ faults' = faults + 1
Sending    == doc.status = "sending" /\ ~isDeleted
Running    == {x \in Executor : pc[x] # "off"}

\* The loops that know of a delivery to r that the document does not show yet.
Unsaved(r) ==
  {x \in Executor : pc[x] = "save" /\ target[x] = r /\ snap[x].list[r] = "sent"}

\* A slip that leaves out markModified('recipients'): no version to match.
VersionMatches_NotAsked(p) == TRUE

\* The condition a save that replaces the recipients array adds to its filter.
VersionMatches(p) == snap[p].version = doc.version

\* doc.save() of a copy that changed nothing but the status.
SaveStatus(s) ==
  /\ doc' = [doc EXCEPT !.status = s]
  /\ strays' = IF s = "sending" THEN [x \in Executor |-> 0] ELSE strays

\* p moves to l; a running loop x is started beside it when one is wanted.
Goto(p, l)         == pc' = [pc EXCEPT ![p] = l]
GotoAndRun(p, l) ==
  \E x \in Executor : pc[x] = "off" /\ pc' = [pc EXCEPT ![p] = l, ![x] = "start"]

Load(p)   == snap' = [snap EXCEPT ![p] = doc]
Forget(p) == snap' = [snap EXCEPT ![p] = NoDoc]

-----------------------------------------------------------------------------
(* Requests.  Each loads the document, checks the status of its copy, and  *)
(* saves what it changed.                                                  *)

\* The statuses from which a command is accepted.
AllowedIn ==
  [update |-> {"draft", "scheduled"},
   remove |-> Status \ {"sending"},
   cancel |-> {"draft", "scheduled", "paused"},
   pause  |-> {"sending"},
   resume |-> {"paused"},
   launch |-> {"draft", "scheduled", "failed"}]

\* getOwnedCampaign and the status check of the command.
Accept(q, command) ==
  /\ pc[q] = "idle"
  /\ ~isDeleted /\ doc.status \in AllowedIn[command]
  /\ Load(q)
  /\ Goto(q, command)
  /\ UNCHANGED <<doc, isDeleted, todo, target, history, faults>>

\* A save that lost the race for the version is an error to the user.
Conflict(q) ==
  /\ ~VersionMatches(q)
  /\ UNCHANGED <<doc, excuses>>

\* update: name and throttle aside, it may reschedule the campaign and may
\* replace the list; the copy's status is written only when it changed.
Update(q) ==
  /\ pc[q] = "update"
  /\ \E s \in {snap[q].status, "draft", "scheduled"} :
     LET written == IF s = snap[q].status THEN doc.status ELSE s
     IN  \/ doc' = [doc EXCEPT !.status = written] /\ UNCHANGED excuses
         \/ \E R \in (SUBSET Recipient) \ {{}} :
              \/ /\ VersionMatches(q)
                 /\ doc' = [doc EXCEPT
                      !.status = written, !.version = @ + 1,
                      !.list = [r \in Recipient |-> IF r \in R THEN "pending" ELSE "absent"]]
                 /\ excuses' = [r \in Recipient |->
                      IF snap[q].list[r] = "sent" THEN excuses[r] + 1 ELSE excuses[r]]
              \/ Conflict(q)
  /\ Goto(q, "done") /\ Forget(q)
  /\ UNCHANGED <<isDeleted, todo, target, copies, strays, faults>>

Remove(q) ==
  /\ pc[q] = "remove"
  /\ isDeleted' = TRUE
  /\ Goto(q, "done") /\ Forget(q)
  /\ UNCHANGED <<doc, todo, target, history, faults>>

Cancel(q) ==
  /\ pc[q] = "cancel"
  /\ SaveStatus("cancelled")
  /\ Goto(q, "done") /\ Forget(q)
  /\ UNCHANGED <<isDeleted, todo, target, copies, excuses, faults>>

Pause(q) ==
  /\ pc[q] = "pause"
  /\ SaveStatus("paused")
  /\ Goto(q, "done") /\ Forget(q)
  /\ UNCHANGED <<isDeleted, todo, target, copies, excuses, faults>>

Resume(q) ==
  /\ pc[q] = "resume"
  /\ SaveStatus("sending")
  /\ GotoAndRun(q, "done") /\ Forget(q)
  /\ UNCHANGED <<isDeleted, todo, target, copies, excuses, faults>>

\* launch of a draft or scheduled campaign ...
Launch(q) ==
  /\ pc[q] = "launch" /\ snap[q].status # "failed"
  /\ SaveStatus("sending")
  /\ GotoAndRun(q, "done") /\ Forget(q)
  /\ UNCHANGED <<isDeleted, todo, target, copies, excuses, faults>>

\* ... and of a failed one, which puts its failed recipients back in the queue.
Relaunch(q) ==
  /\ pc[q] = "launch" /\ snap[q].status = "failed"
  /\ \/ /\ VersionMatches(q)
        /\ doc' = [doc EXCEPT
             !.status = "sending", !.version = @ + 1, !.failedCount = 0,
             !.list = [r \in Recipient |->
                IF snap[q].list[r] = "failed" THEN "pending" ELSE snap[q].list[r]]]
        /\ strays' = [x \in Executor |-> 0]
        /\ GotoAndRun(q, "done")
     \/ ~VersionMatches(q) /\ Goto(q, "done") /\ UNCHANGED <<doc, strays>>
  /\ Forget(q)
  /\ UNCHANGED <<isDeleted, todo, target, copies, excuses, faults>>

-----------------------------------------------------------------------------
(* The crons.                                                              *)

\* processScheduledCampaigns finds the campaign scheduled and due (any minute
\* may be the one) ...
FindDue ==
  /\ pc[Scheduler] = "idle"
  /\ doc.status = "scheduled" /\ ~isDeleted
  /\ Load(Scheduler) /\ Goto(Scheduler, "due")
  /\ UNCHANGED <<doc, isDeleted, todo, target, history, faults>>

\* ... and, after the campaigns before it, saves it as sending, whatever its
\* status has become.
StartDue ==
  /\ pc[Scheduler] = "due"
  /\ SaveStatus("sending")
  /\ GotoAndRun(Scheduler, "idle") /\ Forget(Scheduler)
  /\ UNCHANGED <<isDeleted, todo, target, copies, excuses, faults>>

\* A slip in the filter: only a campaign that never got anywhere looks stuck.
LooksStuck_NothingSent == Sending /\ Pending(doc) = Recipient

\* The filter of resumeStuckCampaigns, its age aside.
LooksStuck == Sending /\ Pending(doc) # {}

\* updatedAt has not moved for STALE_AFTER_MS: no loop is left, or one is
\* taking that long over a send (the throttle waits a minute at most).
ResumeStuck ==
  /\ LooksStuck
  /\ \/ Running = {} /\ UNCHANGED faults
     \/ (\E x \in Executor : pc[x] \in {"start", "sending"}) /\ Fault
  /\ \E x \in Executor : pc[x] = "off" /\ Goto(x, "start")
  /\ UNCHANGED <<doc, isDeleted, snap, todo, target, history>>

-----------------------------------------------------------------------------
(* executeCampaign.                                                        *)

\* The configuration and the document are read; the loop will visit the
\* recipients that are pending now.
Begin(x) ==
  /\ pc[x] = "start"
  /\ IF isDeleted
       THEN Goto(x, "off") /\ UNCHANGED todo
       ELSE Goto(x, "loop") /\ todo' = [todo EXCEPT ![x] = Pending(doc)]
  /\ UNCHANGED <<doc, isDeleted, snap, target, history, faults>>

\* The provider is not configured, or the template is gone: the loop throws.
BeginFails(x) ==
  /\ pc[x] = "start" /\ Fault
  /\ Goto(x, "off")
  /\ UNCHANGED <<doc, isDeleted, snap, todo, target, history>>

\* A slip: the loop trusts the list it started with.
StillPending_InSnapshot(r) == TRUE

\* The recipient is still pending in the document as it is now.
StillPending(r) == doc.list[r] = "pending"

\* A slip: the status is looked at only when the loop starts.
KeepGoing_Unasked == ~isDeleted

\* The check before every send.
KeepGoing == Sending

\* One turn of the loop: re-read, check, pick the recipient.
Visit(x) ==
  /\ pc[x] = "loop"
  /\ \E r \in todo[x] :
       /\ \A other \in todo[x] : r <= other
       /\ \/ /\ ~KeepGoing
             /\ Goto(x, "final")
             /\ UNCHANGED <<snap, todo, target>>
          \/ /\ KeepGoing /\ ~StillPending(r)
             /\ todo' = [todo EXCEPT ![x] = @ \ {r}]
             /\ UNCHANGED <<pc, snap, target>>
          \/ /\ KeepGoing /\ StillPending(r)
             /\ Load(x) /\ Goto(x, "sending")
             /\ todo' = [todo EXCEPT ![x] = @ \ {r}]
             /\ target' = [target EXCEPT ![x] = r]
  /\ UNCHANGED <<doc, isDeleted, history, faults>>

\* The copy after the provider's answer for its recipient.
Record(x, answer) ==
  snap' = [snap EXCEPT
    ![x].list = [@ EXCEPT ![target[x]] = answer],
    ![x].sentCount = IF answer = "sent" THEN @ + 1 ELSE @,
    ![x].failedCount = IF answer = "failed" THEN @ + 1 ELSE @]

Deliver(x) ==
  /\ copies' = [copies EXCEPT ![target[x]] = @ + 1]
  /\ strays' = IF doc.status = "sending" THEN strays ELSE [strays EXCEPT ![x] = @ + 1]

\* sendCampaignMessage: accepted, refused, or accepted with the answer lost.
Send(x) ==
  /\ pc[x] = "sending"
  /\ Goto(x, "save")
  /\ \/ Deliver(x) /\ Record(x, "sent") /\ UNCHANGED <<excuses, faults>>
     \/ Record(x, "failed") /\ UNCHANGED <<copies, strays, excuses, faults>>
     \/ /\ Deliver(x) /\ Record(x, "failed")
        /\ Fault
        /\ excuses' = [excuses EXCEPT ![target[x]] = @ + 1]
  /\ UNCHANGED <<doc, isDeleted, todo, target>>

\* doc.save() with the recipients array; a conflict is thrown out of the loop
\* and the outcome of the send is lost.
SaveOutcome(x) ==
  /\ pc[x] = "save"
  /\ \/ /\ VersionMatches(x)
        /\ doc' = [doc EXCEPT !.version = @ + 1, !.list = snap[x].list,
                              !.sentCount = snap[x].sentCount,
                              !.failedCount = snap[x].failedCount]
        /\ Goto(x, "loop")
        /\ UNCHANGED <<todo, excuses>>
     \/ /\ ~VersionMatches(x)
        /\ excuses' = [r \in Recipient |->
             IF x \in Unsaved(r) THEN excuses[r] + 1 ELSE excuses[r]]
        /\ Goto(x, "off")
        /\ todo' = [todo EXCEPT ![x] = {}]
        /\ UNCHANGED doc
  /\ Forget(x)
  /\ target' = [target EXCEPT ![x] = NoRecipient]
  /\ UNCHANGED <<isDeleted, copies, strays, faults>>

\* The end of the list.
EndLoop(x) ==
  /\ pc[x] = "loop" /\ todo[x] = {}
  /\ Goto(x, "final")
  /\ UNCHANGED <<doc, isDeleted, snap, todo, target, history, faults>>

\* A slip: the end of the loop is taken for the end of the list.
FinalRead_Unasked(x) ==
  /\ pc[x] = "final"
  /\ todo' = [todo EXCEPT ![x] = {}]
  /\ IF Sending
       THEN Load(x) /\ Goto(x, "close")
       ELSE Goto(x, "off") /\ UNCHANGED snap
  /\ UNCHANGED <<doc, isDeleted, target, history, faults>>

\* The document is read once more; it is closed when nothing is pending.
FinalRead(x) ==
  /\ pc[x] = "final"
  /\ todo' = [todo EXCEPT ![x] = {}]
  /\ IF Sending /\ Pending(doc) = {}
       THEN Load(x) /\ Goto(x, "close")
       ELSE Goto(x, "off") /\ UNCHANGED snap
  /\ UNCHANGED <<doc, isDeleted, target, history, faults>>

\* A slip: the status that an email campaign ends in.
Verdict_Sent(d) == IF d.failedCount > 0 /\ d.sentCount = 0 THEN "failed" ELSE "sent"

Verdict(d) == IF d.failedCount > 0 /\ d.sentCount = 0 THEN "failed" ELSE "completed"

Close(x) ==
  /\ pc[x] = "close"
  /\ doc' = [doc EXCEPT !.status = Verdict(snap[x])]
  /\ Goto(x, "off") /\ Forget(x)
  /\ UNCHANGED <<isDeleted, todo, target, history, faults>>

\* The API process dies and is restarted: loops and requests are gone.
Crash ==
  /\ Fault
  /\ pc' = [p \in Proc |-> CASE p \in Executor -> "off"
                             [] p \in Request  -> IF pc[p] = "idle" THEN "idle" ELSE "done"
                             [] OTHER          -> "idle"]
  /\ snap' = [p \in Proc |-> NoDoc]
  /\ todo' = [x \in Executor |-> {}]
  /\ target' = [x \in Executor |-> NoRecipient]
  /\ excuses' = [r \in Recipient |-> excuses[r] + Cardinality(Unsaved(r))]
  /\ UNCHANGED <<doc, isDeleted, copies, strays>>

-----------------------------------------------------------------------------
RequestNext(q) ==
  \/ \E command \in Commands : Accept(q, command)
  \/ Update(q) \/ Remove(q) \/ Cancel(q) \/ Pause(q)
  \/ Resume(q) \/ Launch(q) \/ Relaunch(q)

Execute(x) ==
  \/ Begin(x) \/ Visit(x) \/ Send(x) \/ SaveOutcome(x)
  \/ EndLoop(x) \/ FinalRead(x) \/ Close(x)

Next ==
  \/ \E q \in Request : RequestNext(q)
  \/ \E x \in Executor : Execute(x) \/ BeginFails(x)
  \/ FindDue \/ StartDue \/ ResumeStuck
  \/ Crash

Spec == Init /\ [][Next]_vars

\* A loop that runs goes on unless the process dies, the crons run every
\* minute, and the loops have a place to run.
Fairness ==
  /\ \A x \in Executor : WF_vars(Execute(x))
  /\ WF_vars(FindDue) /\ WF_vars(StartDue) /\ WF_vars(ResumeStuck)

FairSpec == Spec /\ Fairness

-----------------------------------------------------------------------------
(* Safety.                                                                 *)

\* A recipient gets one message, and one more only for an answer that was
\* lost, an edit that put the recipient back, or a loop that died, or will
\* die, with the outcome of its send unsaved.  Concurrent loops (a quick pause
\* and resume, two launches, a stuck-campaign restart) never cost more.
EveryCopyIsPaidFor ==
  \A r \in Recipient : copies[r] <= 1 + excuses[r] + Cardinality(Unsaved(r))

\* After the campaign has left 'sending' (paused, cancelled, closed) a loop
\* sends at most the one message that was already past its check.
OneStrayPerLoop == \A x \in Executor : strays[x] <= 1

\* Whoever closes the campaign has seen every recipient settled, however many
\* loops served it: somebody is left pending only by a loop whose copy an edit
\* or a relaunch has overtaken between its last read and its closing save.
ClosedIsSettled ==
  [][doc.status \notin Closed /\ doc'.status \in Closed
       => \/ Pending(doc') = {}
          \/ \E x \in Executor : /\ pc[x] = "close" /\ pc'[x] = "off"
                                /\ snap[x].version # doc.version]_vars

\* No stale copy ever takes back a delivery: a recipient recorded as sent
\* stays so, unless the user replaces the list.
SentIsNeverLost ==
  [][\A r \in Recipient :
       doc.list[r] = "sent" /\ doc'.list[r] # "sent"
         => \E q \in Request : pc[q] = "update" /\ pc'[q] = "done"]_vars

(* Liveness.                                                               *)

\* While the campaign is sending, every pending recipient is served in the
\* end, through crashes and loops that died.
PendingIsServed ==
  \A r \in Recipient :
    Sending /\ doc.list[r] = "pending"
      ~> ~Sending \/ doc.list[r] # "pending"

(* What the repository says and the code does not do (see the findings).   *)

\* "checking the campaign's live status between every send so a pause() or
\* cancel() call takes effect promptly" (whatsapp-campaigns.service.ts:474):
\* only a user who launches or resumes it sets a cancelled campaign sending.
CancelTakesEffect ==
  [][doc.status = "cancelled" /\ doc'.status = "sending"
       => \E q \in Request : pc[q] \in {"launch", "resume"} /\ pc'[q] = "done"]_vars

=============================================================================
