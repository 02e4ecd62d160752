--------------------------- MODULE DelayedJobQueue ---------------------------
(***************************************************************************)
(* The workflow automation engine of the CRM API: workflow runs that walk  *)
(* a list of steps, park themselves in MongoDB as delayed-job rows, and    *)
(* are resumed by the one scheduler of the API process                     *)
(* (src/api/src/crm/automation/workflows.service.ts, "branch" execution    *)
(* mode).                                                                  *)
(*                                                                         *)
(* A run q is one dispatch of workflow wfOf[q] for CRM record recOf[q]. It *)
(* starts inside the request that dispatched it; at a delay (or at the     *)
(* jitter of an email step) it persists a row holding the remaining steps  *)
(* and ends there.  The scheduler (Worker) later claims the row and        *)
(* carries the run on.  stepsRemaining is always a suffix of the steps     *)
(* the run started with, so a row keeps the index of its first step.       *)
(*                                                                         *)
(* Durable state is what MongoDB holds; pc, at, stripped and cur are the   *)
(* memory of the API process and are lost in a crash.                      *)
(***************************************************************************)
EXTENDS Naturals, FiniteSets, Sequences

CONSTANTS
  Workflow,       \* workflows
  Entity,         \* CRM records (leads, contacts)
  Run,            \* dispatches of a workflow for a record
  JobId,          \* rows of the delayed-job collection
  Template,       \* what an email step sends: the tplKey of the send guard
  Script,         \* [Workflow -> Seq(Step)]: the steps of the matched branch
  wfOf,           \* [Run -> Workflow]
  recOf,          \* [Run -> Entity]
  Once,           \* workflows with enrollmentPolicy 'once'
  CancelsOnReply, \* workflows whose cancelOnReply is not false
  Forced,         \* runs dispatched by enrollInWorkflow with force
  Worker,         \* the scheduler of the API process
  NoJob, NoGuard, \* the absence of a row, of a send guard
  MaxSteps,       \* bound on the length of a script
  MaxCrashes,     \* bound: crashes of the API process
  MaxWriteFaults, \* bound: failed writes of a row's final status
  MaxSlow,        \* bound: stale reclaims of a row that is still being run
  MaxToggles      \* bound: times a workflow is switched off

StepIndex == 1..MaxSteps

DelayStep == [kind : {"delay"}]
TaskStep  == [kind : {"task"}]     \* create_task, create_note, set_property...
EmailStep == [kind : {"email"}, tpl : Template, jitter : BOOLEAN]
Step      == DelayStep \cup TaskStep \cup EmailStep

Proc == {Worker} \cup Run

\* A row: the run it carries on, its first remaining step, whether the jitter
\* of that step has been served already, and the send guard.
Row == [run : Run, next : Nat \ {0}, stripped : BOOLEAN, guard : Template \cup {NoGuard}]

Terminal == {"done", "failed", "cancelled"}
Status   == {"free", "pending", "processing"} \cup Terminal

ASSUME QueueAssumption ==
  /\ MaxSteps \in Nat
  /\ MaxCrashes \in Nat /\ MaxWriteFaults \in Nat
  /\ MaxSlow \in Nat /\ MaxToggles \in Nat
  /\ Script \in [Workflow -> Seq(Step)]
  /\ \A w \in Workflow : Len(Script[w]) <= MaxSteps
  /\ wfOf \in [Run -> Workflow]
  /\ recOf \in [Run -> Entity]
  /\ Once \subseteq Workflow /\ CancelsOnReply \subseteq Workflow
  /\ Forced \subseteq Run
  /\ Worker \notin Run
  /\ NoJob \notin JobId /\ NoJob \notin Row
  /\ NoGuard \notin Template

VARIABLES
  \* MongoDB
  status,     \* [JobId -> Status]; "free" is a row not created yet
  job,        \* [JobId -> Row or NoJob]
  due,        \* rows whose runAt has passed
  wfLive,     \* [Workflow -> BOOLEAN]: enabled and not in the trash
  enrolled,   \* <<workflow, record>> pairs of the enrollment collection
  replied,    \* runs whose record got an inbound email since they started
  \* memory of the API process
  pc,         \* [Proc -> place in the code]
  at,         \* [Proc -> index of the current step]
  stripped,   \* [Proc -> jitter of the current step already served]
  cur,        \* the row the worker holds
  wfCancel,   \* workflows switched off whose rows are not cancelled yet
  recCancel,  \* records whose cancel-on-reply is still to run
  \* history
  ran,        \* [Run -> [StepIndex -> Nat]]: effects of each step
  lateSends,  \* [Run -> Nat]: emails sent after a reply was recorded
  outcome,    \* [Run -> "none", "success"]: the execution log
  superseded, \* runs a forced restart found with nothing in flight
  crashes, writeFaults, slow, toggles

durable == <<status, job, due, wfLive, enrolled, replied>>
memory  == <<pc, at, stripped, cur, wfCancel, recCancel>>
history == <<ran, lateSends, outcome, superseded, crashes, writeFaults, slow, toggles>>
vars    == <<durable, memory, history>>

RunEnded == {"idle", "enrolledBefore", "done", "failed", "cancelled", "lost"}
RunPc    == RunEnded \cup {"restart", "unenrol", "enrol", "step", "persist",
                           "sending", "sent", "ended"}
WorkerPc == {"down", "idle", "resume", "step", "persist", "sending", "sent",
             "ended", "done", "failed", "cancelled"}

DurableOK ==
  /\ status \in [JobId -> Status]
  /\ job \in [JobId -> Row \cup {NoJob}]
  /\ \A r \in JobId : status[r] = "free" <=> job[r] = NoJob
  /\ due \subseteq JobId
  /\ wfLive \in [Workflow -> BOOLEAN]
  /\ enrolled \subseteq Workflow \X Entity
  /\ replied \subseteq Run

MemoryOK ==
  /\ pc \in [Proc -> RunPc \cup WorkerPc]
  /\ pc[Worker] \in WorkerPc
  /\ \A q \in Run : pc[q] \in RunPc
  /\ at \in [Proc -> Nat \ {0}]
  /\ stripped \in [Proc -> BOOLEAN]
  /\ cur \in JobId \cup {NoJob}
  /\ cur = NoJob <=> pc[Worker] \in {"down", "idle"}
  /\ cur # NoJob => status[cur] # "free"
  /\ wfCancel \subseteq Workflow
  /\ recCancel \subseteq Entity

HistoryOK ==
  /\ ran \in [Run -> [StepIndex -> Nat]]
  /\ lateSends \in [Run -> Nat]
  /\ outcome \in [Run -> {"none", "success"}]
  /\ superseded \subseteq Run
  /\ crashes \in Nat /\ writeFaults \in Nat
  /\ slow \in Nat /\ toggles \in Nat

\* Types, and the rule that ties the worker to the row it holds: it holds one
\* exactly when it is at work, and a row that is held has been created.
TypeOK == DurableOK /\ MemoryOK /\ HistoryOK

Init ==
  /\ status = [r \in JobId |-> "free"]
  /\ job = [r \in JobId |-> NoJob]
  /\ due = {}
  /\ wfLive = [w \in Workflow |-> TRUE]
  /\ enrolled = {}
  /\ replied = {}
  /\ pc = [p \in Proc |-> "idle"]
  /\ at = [p \in Proc |-> 1]
  /\ stripped = [p \in Proc |-> FALSE]
  /\ cur = NoJob
  /\ wfCancel = {} /\ recCancel = {}
  /\ ran = [q \in Run |-> [i \in StepIndex |-> 0]]
  /\ lateSends = [q \in Run |-> 0]
  /\ outcome = [q \in Run |-> "none"]
  /\ superseded = {}
  /\ crashes = 0 /\ writeFaults = 0 /\ slow = 0 /\ toggles = 0

-----------------------------------------------------------------------------
\* The run a process is walking, the steps of that run and the step it is at.
RunOf(p)  == IF p = Worker THEN job[cur].run ELSE p
Steps(p)  == Script[wfOf[RunOf(p)]]
AtEnd(p)  == at[p] > Len(Steps(p))
StepOf(p) == Steps(p)[at[p]]
Key(q)    == <<wfOf[q], recOf[q]>>

Rows(q)     == {r \in JobId : job[r] # NoJob /\ job[r].run = q}
RowsOf(e)   == {r \in JobId : job[r] # NoJob /\ recOf[job[r].run] = e}
InFlight(q) == \/ pc[q] \notin RunEnded
               \/ cur \in Rows(q)
               \/ \E r \in Rows(q) : status[r] = "processing"

\* updateMany({ _id in S }, { status: s })
SetStatus(S, s) == status' = [r \in JobId |-> IF r \in S THEN s ELSE status[r]]

Goto(p, l) == pc' = [pc EXCEPT ![p] = l]

\* The next iteration of runStepList's loop.
Advance(p) ==
  /\ Goto(p, "step")
  /\ at' = [at EXCEPT ![p] = @ + 1]
  /\ stripped' = [stripped EXCEPT ![p] = FALSE]

-----------------------------------------------------------------------------
(* Dispatching a run: processEvent / enrollInWorkflow and runOne.          *)

\* A request finds the workflow enabled.  (A run whose filters or branch do
\* not match does nothing and is a run that is never dispatched.)
Dispatch(q) ==
  /\ pc[Worker] # "down"
  /\ pc[q] = "idle"
  /\ wfLive[wfOf[q]]
  /\ Goto(q, IF q \in Forced THEN "restart" ELSE "enrol")
  /\ UNCHANGED <<durable, at, stripped, cur, wfCancel, recCancel, history>>

\* A plausible slip: a restart cancels only the rows of its own workflow.
RestartCancels_OwnWorkflow(q) ==
  {r \in RowsOf(recOf[q]) : status[r] = "pending" /\ wfOf[job[r].run] = wfOf[q]}

\* The filter of cancelPendingJobsForEntity: the pending rows of the record,
\* whatever workflow they belong to; a processing row is left alone.
RestartCancels(q) == {r \in RowsOf(recOf[q]) : status[r] = "pending"}

\* enrollInWorkflow with force cancels those rows ...
CancelPendingForEntity(q) ==
  /\ pc[q] = "restart"
  /\ SetStatus(RestartCancels(q), "cancelled")
  /\ superseded' = superseded \cup
       {x \in Run : /\ recOf[x] = recOf[q] /\ x # q
                    /\ pc[x] # "idle" /\ ~InFlight(x)}
  /\ Goto(q, "unenrol")
  /\ UNCHANGED <<job, due, wfLive, enrolled, replied, at, stripped, cur, wfCancel, recCancel,
                 ran, lateSends, outcome, crashes, writeFaults, slow, toggles>>

\* ... and then the enrollment of a once-only workflow is deleted.
Unenrol(q) ==
  /\ pc[q] = "unenrol"
  /\ enrolled' = IF wfOf[q] \in Once THEN enrolled \ {Key(q)} ELSE enrolled
  /\ Goto(q, "enrol")
  /\ UNCHANGED <<status, job, due, wfLive, replied, at, stripped, cur, wfCancel, recCancel, history>>

\* runOne: the enrollment check of a once-only workflow, a plain findOne.
CheckEnrolled(q) ==
  /\ pc[q] = "enrol"
  /\ Goto(q, IF wfOf[q] \in Once /\ Key(q) \in enrolled THEN "enrolledBefore" ELSE "step")
  /\ UNCHANGED <<durable, at, stripped, cur, wfCancel, recCancel, history>>

-----------------------------------------------------------------------------
(* runStepList, walked by a request or by the worker.                      *)

\* The current step parks the run: a delay, or an email with jitter to serve.
Parks(p) ==
  \/ StepOf(p).kind = "delay"
  \/ StepOf(p).kind = "email" /\ StepOf(p).jitter /\ ~stripped[p]

\* A plausible slip: look the enrollment up and never insert it.
ClaimOnceEnrollment_LookOnly(q) == UNCHANGED enrolled

\* claimOnceEnrollment when the unique index lets the insert through.
ClaimOnceEnrollment(q) ==
  enrolled' = IF wfOf[q] \in Once THEN enrolled \cup {Key(q)} ELSE enrolled

\* persistPendingDelayedJob, first half: a once-only workflow claims its
\* enrollment; when it is taken, be it by this very run, the step list returns
\* false, as if all its steps had run.
Defer(p) ==
  /\ pc[p] = "step" /\ ~AtEnd(p) /\ Parks(p)
  /\ IF wfOf[RunOf(p)] \in Once /\ Key(RunOf(p)) \in enrolled
       THEN Goto(p, "ended") /\ UNCHANGED enrolled
       ELSE Goto(p, "persist") /\ ClaimOnceEnrollment(RunOf(p))
  /\ UNCHANGED <<status, job, due, wfLive, replied, at, stripped, cur, wfCancel, recCancel, history>>

\* A plausible slip: the row of a jittered email resumes after the email, as after a delay.
Persist_SkipsEmail(p) ==
  /\ pc[p] = "persist"
  /\ \E r \in JobId :
       /\ status[r] = "free"
       /\ status' = [status EXCEPT ![r] = "pending"]
       /\ job' = [job EXCEPT ![r] =
            [run |-> RunOf(p), next |-> at[p] + 1, stripped |-> FALSE, guard |-> NoGuard]]
  /\ Goto(p, "done")
  /\ UNCHANGED <<due, wfLive, enrolled, replied, at, stripped, cur, wfCancel, recCancel, history>>

\* A plausible slip: the remaining steps begin with the delay that was just served.
Persist_KeepsDelay(p) ==
  /\ pc[p] = "persist"
  /\ \E r \in JobId :
       /\ status[r] = "free"
       /\ status' = [status EXCEPT ![r] = "pending"]
       /\ job' = [job EXCEPT ![r] =
            [run |-> RunOf(p), next |-> at[p], stripped |-> StepOf(p).kind = "email", guard |-> NoGuard]]
  /\ Goto(p, "done")
  /\ UNCHANGED <<due, wfLive, enrolled, replied, at, stripped, cur, wfCancel, recCancel, history>>

\* persistPendingDelayedJob, second half: the row with the remaining steps.
Persist(p) ==
  /\ pc[p] = "persist"
  /\ \E r \in JobId :
       /\ status[r] = "free"
       /\ status' = [status EXCEPT ![r] = "pending"]
       /\ job' = [job EXCEPT ![r] =
            [run      |-> RunOf(p),
             next     |-> IF StepOf(p).kind = "delay" THEN at[p] + 1 ELSE at[p],
             stripped |-> StepOf(p).kind = "email",
             guard    |-> NoGuard]]
  /\ Goto(p, "done")
  /\ UNCHANGED <<due, wfLive, enrolled, replied, at, stripped, cur, wfCancel, recCancel, history>>

AtEmail(p) == pc[p] = "step" /\ ~AtEnd(p) /\ StepOf(p).kind = "email" /\ ~Parks(p)

RepliedTo(q) == q \in replied /\ wfOf[q] \in CancelsOnReply

\* The send guard of the row names the template of this step.
AlreadySent(p) == p = Worker /\ job[cur].guard = StepOf(p).tpl

\* A plausible slip: replies are looked for when a row is resumed only.
PrepareSend_NoReplyCheck(p) ==
  /\ AtEmail(p)
  /\ IF AlreadySent(p)
       THEN Advance(p)
       ELSE Goto(p, "sending") /\ UNCHANGED <<at, stripped>>
  /\ UNCHANGED <<durable, cur, wfCancel, recCancel, history>>

\* send_email_template up to the send: a reply ends the run; the send guard
\* of the row, when it names this template, skips the send.
PrepareSend(p) ==
  /\ AtEmail(p)
  /\ \/ /\ RepliedTo(RunOf(p))
        /\ Goto(p, "cancelled")
        /\ UNCHANGED <<at, stripped>>
     \/ /\ ~RepliedTo(RunOf(p)) /\ AlreadySent(p)
        /\ Advance(p)
     \/ /\ ~RepliedTo(RunOf(p)) /\ ~AlreadySent(p)
        /\ Goto(p, "sending")
        /\ UNCHANGED <<at, stripped>>
  /\ UNCHANGED <<durable, cur, wfCancel, recCancel, history>>

\* The email leaves; only a run with a row has a guard to write afterwards.
Send(p) ==
  /\ pc[p] = "sending"
  /\ ran' = [ran EXCEPT ![RunOf(p)][at[p]] = @ + 1]
  /\ lateSends' = IF RepliedTo(RunOf(p))
                    THEN [lateSends EXCEPT ![RunOf(p)] = @ + 1] ELSE lateSends
  /\ IF p = Worker THEN Goto(p, "sent") /\ UNCHANGED <<at, stripped>> ELSE Advance(p)
  /\ UNCHANGED <<durable, cur, wfCancel, recCancel,
                 outcome, superseded, crashes, writeFaults, slow, toggles>>

\* The single-slot send guard of the row; without a tracking token it is
\* written but never matches.
WriteGuard ==
  /\ pc[Worker] = "sent"
  /\ \E g \in {StepOf(Worker).tpl, NoGuard} : job' = [job EXCEPT ![cur].guard = g]
  /\ Advance(Worker)
  /\ UNCHANGED <<status, due, wfLive, enrolled, replied, cur, wfCancel, recCancel, history>>

\* Any other action of runAction; none of them is guarded.
RunAction(p) ==
  /\ pc[p] = "step" /\ ~AtEnd(p) /\ StepOf(p).kind = "task"
  /\ ran' = [ran EXCEPT ![RunOf(p)][at[p]] = @ + 1]
  /\ Advance(p)
  /\ UNCHANGED <<durable, cur, wfCancel, recCancel,
                 lateSends, outcome, superseded, crashes, writeFaults, slow, toggles>>

\* A step, a lookup or a write of the run throws: the rest is dropped.
StepThrows(p) ==
  /\ pc[p] \in {"resume", "step", "persist", "sending", "sent"}
  /\ Goto(p, "failed")
  /\ UNCHANGED <<durable, at, stripped, cur, wfCancel, recCancel, history>>

\* The list is exhausted and nothing was parked.
EndList(p) ==
  /\ pc[p] = "step" /\ AtEnd(p)
  /\ Goto(p, "ended")
  /\ UNCHANGED <<durable, at, stripped, cur, wfCancel, recCancel, history>>

\* The end of runOne and of resumeDelayedJob: the enrollment of a once-only
\* workflow is inserted (a duplicate is ignored), the run is logged 'success'.
Complete(p) ==
  /\ pc[p] = "ended"
  /\ enrolled' = IF wfOf[RunOf(p)] \in Once THEN enrolled \cup {Key(RunOf(p))} ELSE enrolled
  /\ outcome' = [outcome EXCEPT ![RunOf(p)] = "success"]
  /\ Goto(p, "done")
  /\ UNCHANGED <<status, job, due, wfLive, replied, at, stripped, cur, wfCancel, recCancel,
                 ran, lateSends, superseded, crashes, writeFaults, slow, toggles>>

-----------------------------------------------------------------------------
(* The scheduler: runDueDelayedJobsBatch and resumeDelayedJob.             *)

\* runAt passes.
DelayElapses(r) ==
  /\ status[r] = "pending" /\ r \notin due
  /\ due' = due \cup {r}
  /\ UNCHANGED <<status, job, wfLive, enrolled, replied, memory, history>>

\* findOneAndUpdate: pending and due becomes processing.
Claim(r) ==
  /\ pc[Worker] = "idle"
  /\ status[r] = "pending" /\ r \in due
  /\ status' = [status EXCEPT ![r] = "processing"]
  /\ cur' = r
  /\ Goto(Worker, "resume")
  /\ UNCHANGED <<job, due, wfLive, enrolled, replied, at, stripped, wfCancel, recCancel, history>>

\* resumeDelayedJob: the workflow must still be enabled and the recipient
\* must not have replied; then the remaining steps run.
Resume ==
  /\ pc[Worker] = "resume"
  /\ IF ~wfLive[wfOf[job[cur].run]] \/ RepliedTo(job[cur].run)
       THEN Goto(Worker, "cancelled") /\ UNCHANGED <<at, stripped>>
       ELSE /\ Goto(Worker, "step")
            /\ at' = [at EXCEPT ![Worker] = job[cur].next]
            /\ stripped' = [stripped EXCEPT ![Worker] = job[cur].stripped]
  /\ UNCHANGED <<durable, cur, wfCancel, recCancel, history>>

\* A plausible slip: the final write is for a row that is still processing.
Settle_OnlyProcessing ==
  /\ pc[Worker] \in Terminal
  /\ status' = IF status[cur] = "processing"
                 THEN [status EXCEPT ![cur] = pc[Worker]] ELSE status
  /\ cur' = NoJob
  /\ Goto(Worker, "idle")
  /\ UNCHANGED <<job, due, wfLive, enrolled, replied, at, stripped, wfCancel, recCancel, history>>

\* The outcome is written to the row by _id alone, whatever its status has
\* become meanwhile.
Settle ==
  /\ pc[Worker] \in Terminal
  /\ status' = [status EXCEPT ![cur] = pc[Worker]]
  /\ cur' = NoJob
  /\ Goto(Worker, "idle")
  /\ UNCHANGED <<job, due, wfLive, enrolled, replied, at, stripped, wfCancel, recCancel, history>>

\* That write fails: 'failed' is tried next; when that write fails as well
\* (or the write of a reply's 'cancelled') the batch ends and the row is
\* left processing.
SettleFails ==
  /\ writeFaults < MaxWriteFaults
  /\ writeFaults' = writeFaults + 1
  /\ \/ /\ pc[Worker] \in {"done", "cancelled"}
        /\ Goto(Worker, "failed")
        /\ UNCHANGED cur
     \/ /\ pc[Worker] \in {"failed", "cancelled"}
        /\ Goto(Worker, "idle")
        /\ cur' = NoJob
  /\ UNCHANGED <<durable, at, stripped, wfCancel, recCancel,
                 ran, lateSends, outcome, superseded, crashes, slow, toggles>>

\* Plausible slips: the maintenance puts back any row that has not moved for
\* long, or none.
Reclaimable_AnyStatus(r) == status[r] \notin {"free", "pending"}
Reclaimable_Never(r)     == r = NoJob

\* The status filter of the maintenance.
Reclaimable(r) == status[r] = "processing"

\* recoverStaleWorkflowProcessingJobs: a row processing for 30 minutes goes
\* back to pending, even when the worker is merely slow with it.
StaleReclaim(r) ==
  /\ pc[Worker] # "down"
  /\ Reclaimable(r)
  /\ \/ r # cur /\ UNCHANGED slow
     \/ r = cur /\ slow < MaxSlow /\ slow' = slow + 1
  /\ status' = [status EXCEPT ![r] = "pending"]
  /\ UNCHANGED <<job, due, wfLive, enrolled, replied, memory,
                 ran, lateSends, outcome, superseded, crashes, writeFaults, toggles>>

-----------------------------------------------------------------------------
(* What happens around the engine.                                         *)

\* update with enabled = false, or remove: first the workflow ...
TurnOff(w) ==
  /\ pc[Worker] # "down"
  /\ wfLive[w] /\ toggles < MaxToggles
  /\ toggles' = toggles + 1
  /\ wfLive' = [wfLive EXCEPT ![w] = FALSE]
  /\ wfCancel' = wfCancel \cup {w}
  /\ UNCHANGED <<status, job, due, enrolled, replied, pc, at, stripped, cur, recCancel,
                 ran, lateSends, outcome, superseded, crashes, writeFaults, slow>>

\* ... then its rows: cancelPendingJobsForWorkflow, processing rows included.
CancelForWorkflow(w) ==
  /\ w \in wfCancel
  /\ SetStatus({r \in JobId : /\ status[r] \in {"pending", "processing"}
                              /\ wfOf[job[r].run] = w}, "cancelled")
  /\ wfCancel' = wfCancel \ {w}
  /\ UNCHANGED <<job, due, wfLive, enrolled, replied, pc, at, stripped, cur, recCancel, history>>

\* update with enabled = true, or a restore from the trash.
TurnOn(w) ==
  /\ pc[Worker] # "down"
  /\ ~wfLive[w] /\ w \notin wfCancel
  /\ wfLive' = [wfLive EXCEPT ![w] = TRUE]
  /\ UNCHANGED <<status, job, due, enrolled, replied, memory, history>>

\* Inbox sync records an inbound email of the record ...
Reply(e) ==
  /\ pc[Worker] # "down"
  /\ LET started == {q \in Run : recOf[q] = e /\ pc[q] \notin {"idle", "restart", "unenrol", "enrol"}}
     IN  /\ started \ replied # {}
         /\ replied' = replied \cup started
  /\ recCancel' = recCancel \cup {e}
  /\ UNCHANGED <<status, job, due, wfLive, enrolled, pc, at, stripped, cur, wfCancel, history>>

\* ... and, not awaited, cancels the record's pending rows that opted in.
CancelPendingJobsOnReply(e) ==
  /\ e \in recCancel
  /\ SetStatus({r \in RowsOf(e) : /\ status[r] = "pending"
                                  /\ wfOf[job[r].run] \in CancelsOnReply}, "cancelled")
  /\ recCancel' = recCancel \ {e}
  /\ UNCHANGED <<job, due, wfLive, enrolled, replied, pc, at, stripped, cur, wfCancel, history>>

\* The API process dies between any two steps.
Crash ==
  /\ pc[Worker] # "down" /\ crashes < MaxCrashes
  /\ crashes' = crashes + 1
  /\ pc' = [p \in Proc |-> IF p = Worker THEN "down"
                           ELSE IF pc[p] \in RunEnded THEN pc[p] ELSE "lost"]
  /\ cur' = NoJob
  /\ wfCancel' = {} /\ recCancel' = {}
  /\ UNCHANGED <<durable, at, stripped,
                 ran, lateSends, outcome, superseded, writeFaults, slow, toggles>>

\* A plausible slip: rows are left to the stale timeout.
OrphanedAtBoot_None == {}

\* The filter of reclaimInterruptedProcessingJobs.
OrphanedAtBoot == {r \in JobId : status[r] = "processing"}

\* bootstrapWorkflowSchedulerAfterStartup returns them to pending.
Boot ==
  /\ pc[Worker] = "down"
  /\ SetStatus(OrphanedAtBoot, "pending")
  /\ Goto(Worker, "idle")
  /\ UNCHANGED <<job, due, wfLive, enrolled, replied, at, stripped, cur, wfCancel, recCancel, history>>

-----------------------------------------------------------------------------
StepList(p) ==
  \/ Defer(p) \/ Persist(p) \/ PrepareSend(p) \/ Send(p)
  \/ RunAction(p) \/ StepThrows(p) \/ EndList(p) \/ Complete(p)

RunNext(q) ==
  \/ Dispatch(q) \/ CancelPendingForEntity(q) \/ Unenrol(q) \/ CheckEnrolled(q)

WorkerNext ==
  \/ Resume \/ WriteGuard \/ Settle \/ SettleFails \/ Boot
  \/ \E r \in JobId : Claim(r)

Environment ==
  \/ \E r \in JobId : DelayElapses(r) \/ StaleReclaim(r)
  \/ \E w \in Workflow : TurnOff(w) \/ CancelForWorkflow(w) \/ TurnOn(w)
  \/ \E e \in Entity : Reply(e) \/ CancelPendingJobsOnReply(e)
  \/ Crash

Next ==
  \/ \E q \in Run : RunNext(q)
  \/ \E p \in Proc : StepList(p)
  \/ WorkerNext
  \/ Environment

Spec == Init /\ [][Next]_vars

\* Node runs a started function on unless the process dies; the crons call
\* the batch every minute and the maintenance every ten; time passes; a
\* supervisor restarts the API.
Fairness ==
  /\ \A p \in Proc : WF_vars(StepList(p))
  /\ \A q \in Run : WF_vars(CancelPendingForEntity(q) \/ Unenrol(q) \/ CheckEnrolled(q))
  /\ WF_vars(Resume \/ WriteGuard \/ Settle)
  /\ WF_vars(Boot)
  /\ WF_vars(\E r \in JobId : Claim(r))
  /\ \A r \in JobId : WF_vars(DelayElapses(r)) /\ WF_vars(StaleReclaim(r))

FairSpec == Spec /\ Fairness

-----------------------------------------------------------------------------
(* Safety.                                                                 *)

\* Delivery is at least once, and every repeat is paid for: a step takes
\* effect at most once more than the API crashed or failed to write a row's
\* final status.  Slow steps, stale reclaims, replies and cancellations never
\* add a repeat (the unguarded final write undoes a reclaim of a live row).
RepeatsNeedFaults ==
  \A q \in Run, i \in StepIndex : ran[q][i] <= 1 + crashes + writeFaults

\* Once the reply of a recipient is recorded, a run that cancels on reply
\* sends at most the one email that was already past its reply check.
OneLateSend ==
  \A q \in Run : wfOf[q] \in CancelsOnReply => lateSends[q] <= 1

\* However many dispatches race, the runs of a once-only workflow that get to
\* park rows for a record are one, and one more per forced restart.
OnceSchedulesOnce ==
  \A w \in Once, e \in Entity :
    LET runs   == {q \in Run : Key(q) = <<w, e>>}
        parked == {q \in runs : Rows(q) # {}}
        forced == {q \in runs \cap Forced : pc[q] \notin {"idle", "restart", "unenrol"}}
    IN  Cardinality(parked) <= 1 + Cardinality(forced)

\* While the API is up, a processing row that nobody is running is one whose
\* final status could not be written: nothing else leaves a row behind.
OrphansAreFailedWrites ==
  pc[Worker] # "down" =>
    Cardinality({r \in JobId : status[r] = "processing" /\ r # cur}) <= writeFaults

(* The promise to the author of a workflow: module AutomationRun.          *)

\* The steps of a run that have an effect; a delay has none.
Effects == [q \in Run |-> {i \in 1..Len(Script[wfOf[q]]) : Script[wfOf[q]][i].kind # "delay"}]

Automation == INSTANCE AutomationRun WITH
  MayStopEarly <- {q \in Run : wfOf[q] \in Once},
  performed    <- [q \in Run |-> {i \in StepIndex : ran[q][i] > 0}],
  succeeded    <- {q \in Run : outcome[q] = "success"}

\* Through crashes, repeats, guards that skip a send, reclaims and restarts, the
\* steps of a run take effect in order with none left out, and a run logged
\* 'success' has run them all, unless its workflow enrolls once per record (see
\* EnrolledRunKeepsItsSteps).  It holds of scripts in which two emails with one
\* template have a delay or a jitter between them: ScriptsRearm.
ImplementsAutomation == Automation!Spec

\* A step that parks a run that comes to it.
Separates(s) == s.kind = "delay" \/ (s.kind = "email" /\ s.jitter)

\* The send guard tells the templates of a row apart, not its steps: between two
\* emails with the same template the run has to park.
ScriptsRearm ==
  \A w \in Workflow : \A i, j \in 1..Len(Script[w]) :
    /\ i < j
    /\ Script[w][i].kind = "email" /\ Script[w][j].kind = "email"
    /\ Script[w][i].tpl = Script[w][j].tpl
    => \E k \in i+1..j : Separates(Script[w][k])

\* A script with one place at most where a run parks.
ParksOnce(w) ==
  \A i, j \in 1..Len(Script[w]) : Separates(Script[w][i]) /\ Separates(Script[w][j]) => i = j

\* A once-only run that got to park, at the only place of its script where it can, is
\* logged 'success' only when all its steps have taken effect: neither the
\* enrollment it holds nor a crash and a resumed row turn it away there once more.
ParkedRunKeepsItsSteps ==
  \A q \in Run :
    /\ wfOf[q] \in Once /\ ParksOnce(wfOf[q])
    /\ Rows(q) # {} /\ outcome[q] = "success"
    => \A i \in Effects[q] : ran[q][i] > 0

(* What a step may never do.                                               *)

\* A settled row (done, failed, cancelled) is never put back in the queue.
SettledIsFinal ==
  [][\A r \in JobId : status[r] \in Terminal => status'[r] \in Terminal]_vars

\* A run that a forced restart of its record found with nothing in flight
\* takes no further step, whatever reclaims and crashes follow.
SupersededIsSilent ==
  [][\A q \in superseded : ran'[q] = ran[q]]_vars

(* Liveness.                                                               *)

\* Every parked row is settled in the end, through crashes, failed writes
\* and slow steps.
EveryJobSettles ==
  \A r \in JobId : status[r] \in {"pending", "processing"} ~> status[r] \in Terminal

-----------------------------------------------------------------------------
(* What the repository says and the code does not do (see the findings).   *)

\* "`once` = enroll once per record" (schemas/workflow.schema.ts:220): the run that holds
\* the record's enrollment is not turned away as already enrolled, so its success
\* means all its steps.
EnrolledRunKeepsItsSteps ==
  \A q \in Run :
    outcome[q] = "success" =>
      \A i \in 1..Len(Script[wfOf[q]]) :
        Script[wfOf[q]][i].kind = "delay" \/ ran[q][i] >= 1

=============================================================================
