-------------------------- MODULE FollowUpEngagement --------------------------
(***************************************************************************)
(* The follow-up sequence of one CRM record                                *)
(* (src/api/src/crm/automation/workflows.service.ts, branch "Follow-up     *)
(* sequence"): after a tracked first outreach a delayed-job row waits for  *)
(* the recipient to open it.  An open starts the follow-up cadence; a      *)
(* deadline without one sends the next alternate email from another        *)
(* mailbox and waits for that.  Maintenance re-queues sequences whose      *)
(* alternates it believes were missed, and so may a user.                  *)
(*                                                                         *)
(* A mail is tracked by a token: its place in the sequence `mail`.  The    *)
(* rows are the documents of the delayed-job collection, in the order of   *)
(* their creation.  pc, cur, run, starting, replyCancel and requeue are    *)
(* the memory of the API process and are lost in a crash.                  *)
(***************************************************************************)
EXTENDS Naturals, Sequences, FiniteSets, SequencesExt

CONSTANTS
  NAlt,          \* number of alternate steps
  NCad,          \* number of cadence (follow-up) steps
  AltTpl,        \* [1..NAlt -> template]: the tplKey of an alternate email
  CadTpl,        \* [1..NCad -> template]: the tplKey of a cadence email
  Delayed,       \* cadence steps that begin with a delay
  MaxAutoAttempts, \* MAX_FOLLOW_UP_AUTO_RECOVERY_ATTEMPTS, 2 in the code
  NoWait,        \* a row without emailWait
  NoGuard,       \* a row without sendGuard
  MaxRows,       \* bound: rows
  MaxStarts,     \* bound: sequences started for the record
  Disturbance,   \* the kinds of disturbance that may happen
  MaxDisturbed   \* bound: disturbances, of every kind together

\* A mail composed by hand, a reply of the recipient, a cancellation by a user, a
\* manual retry, a crash of the API process, a failed send, a stale reclaim of a row
\* that is still being run, and an automatic recovery.
Kind == {"compose", "reply", "cancel", "retry", "crash", "sendFault", "slow",
         "recover"}

Template == {AltTpl[i] : i \in 1..NAlt} \cup {CadTpl[j] : j \in 1..NCad}

ASSUME FollowUpAssumption ==
  /\ NAlt \in Nat \ {0} /\ NCad \in Nat \ {0}
  /\ DOMAIN AltTpl = 1..NAlt /\ DOMAIN CadTpl = 1..NCad
  /\ Delayed \subseteq 1..NCad
  /\ NoGuard \notin Template
  /\ NoWait \notin [tok : Nat \ {0}, idx : 0..NAlt, expired : BOOLEAN]
  /\ Disturbance \subseteq Kind
  /\ \A n \in {MaxAutoAttempts, MaxRows, MaxStarts, MaxDisturbed} : n \in Nat

VARIABLES
  \* MongoDB
  rows,        \* the delayed jobs, in order of creation
  ended,       \* the done and failed rows, least recently updated first
  mail,        \* the tracked mails of the record, in the order they were sent
  opened,      \* tokens whose tracking row records an open or a click
  replied,     \* sequences started so far when the recipient last replied
  \* memory of the API process
  pc, cur,     \* what the scheduler is doing, with which row
  run,         \* the step list it is running
  starting,    \* a start request has cancelled the old rows
  replyCancel, \* a reply's cancelPendingJobsOnReply is still to run
  requeue,     \* [Requester -> a re-queue decided but not written]
  \* history
  starts,      \* sequences started
  disturbed,   \* [Kind -> how often it happened]
  lateMail,    \* mails sent by a sequence after a reply to it was recorded
  overlaps     \* automatic recoveries decided while a row was being run

durable == <<rows, ended, mail, opened, replied>>
memory  == <<pc, cur, run, starting, replyCancel, requeue>>
tally   == <<starts, lateMail, overlaps>>
history == <<tally, disturbed>>
vars    == <<durable, memory, history>>

Requester == {"user", "maintenance"}
Terminal  == {"done", "failed", "cancelled"}
JobId     == 1..Len(rows)
Token     == 1..Len(mail)

Mail == [kind : {"outreach", "alternate", "cadence"}, n : Nat, era : Nat]
\* idx alternates have been sent (alternateStepIndex + 1); expired: deadlineAt has passed.
Wait == [tok : Nat \ {0}, idx : 0..NAlt, expired : BOOLEAN]
\* What accumulatedResults says: an "Email sent" line, a line that mentions
\* alternates, and the number of automatic recoveries.
Notes == [sent : BOOLEAN, alternates : BOOLEAN, auto : Nat]
Row  == [status : {"pending", "processing"} \cup Terminal, era : Nat,
         wait : Wait \cup {NoWait}, rest : 1..(NCad + 1),
         guard : Template \cup {NoGuard}, guardTok : Nat, last : Nat \ {0},
         notes : Notes, permanent : BOOLEAN, blocked : BOOLEAN]
Run  == [kind : {"alternate", "cadence"}, at : 1..(NAlt + NCad + 1), served : BOOLEAN,
         last : Nat \ {0}, notes : Notes]
Todo == [row : JobId, revive : BOOLEAN, wait : Wait, notes : Notes]
None == [row |-> 0]
Pc   == {"idle", "resume", "poll", "unset", "step", "check", "send", "guard", "rearm",
         "rescheduled", "done"}

TypeOK ==
  /\ rows \in Seq(Row) /\ Len(rows) <= MaxRows
  /\ ended \in Seq(JobId)
  /\ mail \in Seq(Mail)
  /\ opened \subseteq Token
  /\ replied \in 0..starts
  /\ pc \in Pc /\ cur \in 0..Len(rows) /\ (cur = 0 <=> pc = "idle")
  /\ run \in Run
  /\ starting \in BOOLEAN /\ replyCancel \in BOOLEAN
  /\ requeue \in [Requester -> Todo \cup {None}]
  /\ starts \in Nat /\ lateMail \in Nat /\ overlaps \in Nat
  /\ disturbed \in [Kind -> Nat]

-----------------------------------------------------------------------------
(* Helpers. *)

Disturbances == MapThenSumSet(LAMBDA k : disturbed[k], Kind)

\* One more disturbance of this kind.
Disturb(k) ==
  /\ k \in Disturbance /\ Disturbances < MaxDisturbed
  /\ disturbed' = [disturbed EXCEPT ![k] = @ + 1]

Live(r)      == rows[r].status \in {"pending", "processing"}
Pending(r)   == rows[r].status = "pending"
Opened(tok)  == tok \in opened
Replied(r)   == rows[r].era <= replied
Recent       == ended[Len(ended)]   \* recentTerminalJob

\* `ended` once r is no longer in it, and once r is its last.
Place(r)     == CHOOSE i \in DOMAIN ended : ended[i] = r
Untouch(r)   == IF \E i \in DOMAIN ended : ended[i] = r THEN RemoveAt(ended, Place(r)) ELSE ended
Touch(r)     == Append(Untouch(r), r)

\* Cancel every pending row.
CancelPending == [r \in JobId |-> IF Pending(r) THEN [rows[r] EXCEPT !.status = "cancelled"]
                                               ELSE rows[r]]

NoNotes == [sent |-> FALSE, alternates |-> FALSE, auto |-> 0]
NoRun   == [kind |-> "cadence", at |-> NCad + 1, served |-> FALSE, last |-> 1, notes |-> NoNotes]

\* An alternate of this row's sequence is on the record's timeline.
AlternateLogged(r) ==
  \E t \in Token : mail[t].kind = "alternate" /\ mail[t].era >= rows[r].era

Init ==
  /\ rows = <<>> /\ ended = <<>>
  /\ mail = <<[kind |-> "outreach", n |-> 0, era |-> 0]>>
  /\ opened = {} /\ replied = 0
  /\ pc = "idle" /\ cur = 0 /\ run = NoRun
  /\ starting = FALSE /\ replyCancel = FALSE
  /\ requeue = [q \in Requester |-> None]
  /\ starts = 0 /\ disturbed = [k \in Kind |-> 0] /\ lateMail = 0 /\ overlaps = 0

-----------------------------------------------------------------------------
(* Requests, the recipient and time. *)

\* startFollowUpSequence first cancels what is pending for the record ...
StartCancel ==
  /\ ~starting /\ starts < MaxStarts
  /\ rows' = CancelPending
  /\ starting' = TRUE
  /\ UNCHANGED <<ended, mail, opened, replied, pc, cur, run, replyCancel, requeue, history>>

\* ... and then parks a row that waits for an open of the latest outreach.
StartPark ==
  /\ starting /\ Len(rows) < MaxRows
  /\ starts' = starts + 1
  /\ rows' = Append(rows,
       [status |-> "pending", era |-> starts + 1,
        wait |-> [tok |-> Len(mail), idx |-> 0, expired |-> FALSE], rest |-> NCad + 1,
        guard |-> NoGuard, guardTok |-> 0, last |-> Len(mail), notes |-> NoNotes,
        permanent |-> FALSE, blocked |-> FALSE])
  /\ starting' = FALSE
  /\ UNCHANGED <<ended, mail, opened, replied, pc, cur, run, replyCancel, requeue, disturbed,
                 lateMail, overlaps>>

\* A user sends the record another tracked mail from the composer.
Compose ==
  /\ Disturb("compose")
  /\ mail' = Append(mail, [kind |-> "outreach", n |-> 0, era |-> starts])
  /\ UNCHANGED <<rows, ended, opened, replied, memory, tally>>

\* recordOpen / recordClick.
Open(t) ==
  /\ ~Opened(t)
  /\ opened' = opened \cup {t}
  /\ UNCHANGED <<rows, ended, mail, replied, memory, history>>

\* The inbox sync logs an inbound mail; cancelPendingJobsOnReply follows, unawaited.
Reply ==
  /\ Disturb("reply")
  /\ replied' = starts
  /\ replyCancel' = TRUE
  /\ UNCHANGED <<rows, ended, mail, opened, pc, cur, run, starting, requeue, tally>>

CancelOnReply ==
  /\ replyCancel
  /\ rows' = CancelPending
  /\ replyCancel' = FALSE
  /\ UNCHANGED <<ended, mail, opened, replied, pc, cur, run, starting, requeue, history>>

UserCancel ==
  /\ Disturb("cancel")
  /\ rows' = CancelPending
  /\ UNCHANGED <<ended, mail, opened, replied, memory, tally>>

Deadline(r) ==
  /\ Live(r) /\ rows[r].wait # NoWait
  /\ ~rows[r].wait.expired
  /\ rows' = [rows EXCEPT ![r].wait.expired = TRUE]
  /\ UNCHANGED <<ended, mail, opened, replied, memory, history>>

-----------------------------------------------------------------------------
(* The scheduler. *)

\* runDueDelayedJobsBatch claims a due row.  Time is not modelled: a pending row may be
\* due at any moment, on its own runAt or brought forward by the nudge of an open.
Claim(r) ==
  /\ pc = "idle" /\ Pending(r)
  /\ rows' = [rows EXCEPT ![r].status = "processing"]
  /\ pc' = "resume" /\ cur' = r
  /\ UNCHANGED <<ended, mail, opened, replied, run, starting, replyCancel, requeue, history>>

ReleaseRow == pc' = "idle" /\ cur' = 0 /\ run' = NoRun

\* The claimed row ends without another send: a reply cancels it.
CancelRow ==
  /\ rows' = [rows EXCEPT ![cur].status = "cancelled"]
  /\ ReleaseRow

\* resumeDelayedJob: a row whose delay is over.
ResumeDelay ==
  /\ pc = "resume" /\ rows[cur].wait = NoWait
  /\ \/ Replied(cur) /\ CancelRow
     \/ /\ ~Replied(cur)
        /\ run' = [kind |-> "cadence", at |-> rows[cur].rest, served |-> TRUE,
                   last |-> rows[cur].last, notes |-> rows[cur].notes]
        /\ pc' = "step"
        /\ UNCHANGED <<rows, cur>>
  /\ UNCHANGED <<ended, mail, opened, replied, starting, replyCancel, requeue, history>>

\* A plausible slip: the deadline is looked at before the open.
NextOfWait_DeadlineFirst(w) ==
  LET to(place, kind, at) == [pc |-> place, kind |-> kind, at |-> at]
  IN  IF w.expired /\ w.idx < NAlt THEN to("check", "alternate", w.idx + 1)
      ELSE IF Opened(w.tok)        THEN to("unset", "cadence", 1)
      ELSE IF ~w.expired           THEN to("poll", "cadence", NCad + 1)
      ELSE to("unset", "cadence", NCad + 1)

\* A plausible slip: with the alternates exhausted the cadence starts all the same.
NextOfWait_CadenceAnyway(w) ==
  LET to(place, kind, at) == [pc |-> place, kind |-> kind, at |-> at]
  IN  IF w.expired /\ w.idx < NAlt /\ ~Opened(w.tok) THEN to("check", "alternate", w.idx + 1)
      ELSE IF Opened(w.tok) \/ w.expired THEN to("unset", "cadence", 1)
      ELSE to("poll", "cadence", NCad + 1)

\* A plausible slip: with the alternates exhausted the row keeps polling for an open.
NextOfWait_PollsOn(w) ==
  LET to(place, kind, at) == [pc |-> place, kind |-> kind, at |-> at]
  IN  IF Opened(w.tok) THEN to("unset", "cadence", 1)
      ELSE IF w.expired /\ w.idx < NAlt THEN to("check", "alternate", w.idx + 1)
      ELSE to("poll", "cadence", NCad + 1)

\* What a row that waits for an open does next: an open starts the cadence; a
\* passed deadline sends the next alternate, or ends the sequence; else it polls.
NextOfWait(w) ==
  LET to(place, kind, at) == [pc |-> place, kind |-> kind, at |-> at]
  IN  IF Opened(w.tok)     THEN to("unset", "cadence", 1)
      ELSE IF ~w.expired   THEN to("poll", "cadence", NCad + 1)
      ELSE IF w.idx < NAlt THEN to("check", "alternate", w.idx + 1)
      ELSE to("unset", "cadence", NCad + 1)

\* resumeBranchEmailWaitJob: re-read the row and its tracking, and decide.
ResumeWait ==
  /\ pc = "resume" /\ rows[cur].wait # NoWait
  /\ LET next == NextOfWait(rows[cur].wait)
     IN  /\ pc' = next.pc
         /\ run' = [kind |-> next.kind, at |-> next.at, served |-> FALSE, last |-> rows[cur].last,
                    notes |-> IF next.pc = "poll" THEN rows[cur].notes
                              ELSE [rows[cur].notes EXCEPT !.alternates = TRUE]]
  /\ UNCHANGED <<rows, ended, mail, opened, replied, cur, starting, replyCancel, requeue,
                 history>>

Poll ==
  /\ pc = "poll"
  /\ rows' = [rows EXCEPT ![cur].status = "pending", ![cur].notes = run.notes]
  /\ pc' = "rescheduled"
  /\ UNCHANGED <<ended, mail, opened, replied, cur, run, starting, replyCancel, requeue,
                 history>>

\* The wait is over: $unset emailWait.
UnsetWait ==
  /\ pc = "unset"
  /\ rows' = [rows EXCEPT ![cur].wait = NoWait]
  /\ pc' = "step"
  /\ UNCHANGED <<ended, mail, opened, replied, cur, run, starting, replyCancel, requeue,
                 history>>

\* runStepList: a delay parks the rest of the cadence in a new row ...
Park ==
  /\ pc = "step" /\ run.at \in Delayed /\ ~run.served
  /\ Len(rows) < MaxRows
  /\ rows' = Append(rows,
       [status |-> "pending", era |-> rows[cur].era, wait |-> NoWait,
        rest |-> run.at, guard |-> NoGuard, guardTok |-> 0, last |-> run.last,
        notes |-> run.notes, permanent |-> FALSE, blocked |-> FALSE])
  /\ pc' = "done"
  /\ UNCHANGED <<ended, mail, opened, replied, cur, run, starting, replyCancel, requeue,
                 history>>

\* ... and a step without one, or whose delay was served, sends its email.
Step ==
  /\ pc = "step" /\ (run.at \in Delayed => run.served)
  /\ pc' = IF run.at > NCad THEN "done" ELSE "check"
  /\ UNCHANGED <<durable, cur, run, starting, replyCancel, requeue, history>>

Tpl == IF run.kind = "alternate" THEN AltTpl[run.at] ELSE CadTpl[run.at]

\* A plausible slip: any earlier send of the row counts.
Guarded_ByAnySend == rows[cur].guardTok # 0

\* The send guard of the row holds this template already.
Guarded == rows[cur].guardTok # 0 /\ rows[cur].guard = Tpl

\* A plausible slip: a cadence email is waited for like an alternate.
AfterEmail_WaitsAlways(done) ==
  /\ run' = done
  /\ pc' = IF done.notes.sent THEN "rearm" ELSE "done"

\* After an email: the next cadence step, or a wait for the alternate's open.
\* An alternate that sent nothing ends the row unless its results name a send.
AfterEmail(done) ==
  \/ /\ run.kind = "cadence"
     /\ run' = [done EXCEPT !.at = @ + 1, !.served = FALSE]
     /\ pc' = "step"
  \/ /\ run.kind = "alternate"
     /\ run' = done
     /\ pc' = IF done.notes.sent THEN "rearm" ELSE "done"

\* A plausible slip: no look at the replies before the send.
CheckEmail_Unasked ==
  /\ pc = "check"
  /\ \/ /\ Guarded
        /\ AfterEmail([run EXCEPT !.last = rows[cur].guardTok])
        /\ UNCHANGED <<rows, cur>>
     \/ /\ ~Guarded
        /\ pc' = "send"
        /\ UNCHANGED <<rows, cur, run>>
  /\ UNCHANGED <<ended, mail, opened, replied, starting, replyCancel, requeue, history>>

\* send_email_template: no mail after a reply, and none the guard knows as sent.
CheckEmail ==
  /\ pc = "check"
  /\ \/ Replied(cur) /\ CancelRow
     \/ /\ ~Replied(cur) /\ Guarded
        /\ AfterEmail([run EXCEPT !.last = rows[cur].guardTok])
        /\ UNCHANGED <<rows, cur>>
     \/ /\ ~Replied(cur) /\ ~Guarded
        /\ pc' = "send"
        /\ UNCHANGED <<rows, cur, run>>
  /\ UNCHANGED <<ended, mail, opened, replied, starting, replyCancel, requeue, history>>

SendEmail ==
  /\ pc = "send"
  /\ mail' = Append(mail, [kind |-> run.kind, n |-> run.at, era |-> rows[cur].era])
  /\ lateMail' = lateMail + (IF Replied(cur) THEN 1 ELSE 0)
  /\ run' = [run EXCEPT !.last = Len(mail) + 1, !.notes.sent = TRUE]
  /\ pc' = "guard"
  /\ UNCHANGED <<rows, ended, opened, replied, cur, starting, replyCancel, requeue, starts,
                 overlaps, disturbed>>

\* The send throws: the row fails.
SendFails ==
  /\ pc = "send" /\ Disturb("sendFault")
  /\ \E permanent \in BOOLEAN :
       rows' = [rows EXCEPT ![cur].status = "failed", ![cur].permanent = permanent,
                  ![cur].blocked = @ \/ permanent \/ rows[cur].notes.auto >= MaxAutoAttempts]
  /\ ended' = Touch(cur)
  /\ ReleaseRow
  /\ UNCHANGED <<mail, opened, replied, starting, replyCancel, requeue, tally>>

WriteGuard ==
  /\ pc = "guard"
  /\ rows' = [rows EXCEPT ![cur].guard = Tpl, ![cur].guardTok = run.last,
                          ![cur].last = run.last]
  /\ AfterEmail(run)
  /\ UNCHANGED <<ended, mail, opened, replied, cur, starting, replyCancel, requeue, history>>

\* sendAlternateEngagementStepAndWait: wait for the open of the alternate.
Rearm ==
  /\ pc = "rearm"
  /\ LET tok == rows[cur].guardTok
     IN  rows' = [rows EXCEPT
           ![cur] = [@ EXCEPT !.status = "pending", !.last = tok,
                              !.wait = [tok |-> tok, idx |-> run.at, expired |-> FALSE],
                              !.notes = run.notes]]
  /\ pc' = "rescheduled"
  /\ UNCHANGED <<ended, mail, opened, replied, cur, run, starting, replyCancel, requeue,
                 history>>

Rescheduled ==
  /\ pc = "rescheduled"
  /\ rows' = [rows EXCEPT ![cur].status = IF @ = "processing" THEN "pending" ELSE @]
  /\ ReleaseRow
  /\ UNCHANGED <<ended, mail, opened, replied, starting, replyCancel, requeue, history>>

Done ==
  /\ pc = "done"
  /\ rows' = [rows EXCEPT ![cur].status = "done"]
  /\ ended' = Touch(cur)
  /\ ReleaseRow
  /\ UNCHANGED <<mail, opened, replied, starting, replyCancel, requeue, history>>

Worker ==
  \/ ResumeDelay \/ ResumeWait \/ Poll \/ UnsetWait \/ Park \/ Step \/ CheckEmail
  \/ SendEmail \/ SendFails \/ WriteGuard \/ Rearm \/ Rescheduled \/ Done

-----------------------------------------------------------------------------
(* Maintenance, and the manual retry. *)

StaleReclaim(r) ==
  /\ rows[r].status = "processing"
  /\ IF r = cur THEN Disturb("slow") ELSE UNCHANGED disturbed
  /\ rows' = [rows EXCEPT ![r].status = "pending"]
  /\ UNCHANGED <<ended, mail, opened, replied, memory, tally>>

\* recoverOpenedAndMisboundEmailWaitJobs: a wait whose mail is not opened
\* follows the record's newest tracked mail.
Rebind(r) ==
  LET newest == Len(mail)
  IN  /\ Pending(r) /\ rows[r].wait # NoWait
      /\ ~Opened(rows[r].wait.tok)
      /\ newest > rows[r].wait.tok /\ mail[newest].era >= rows[r].era
      /\ rows' = [rows EXCEPT ![r] = [@ EXCEPT !.last = newest,
                                               !.wait.tok = newest]]
      /\ UNCHANGED <<ended, mail, opened, replied, memory, history>>

\* A plausible slip: the re-queue sets the row pending whatever it was when it was read.
Requeue_Always(r, revive, auto) ==
  [row |-> r, revive |-> TRUE,
   wait |-> [tok |-> IF ~revive /\ rows[r].wait # NoWait THEN rows[r].wait.tok ELSE rows[r].last,
             idx |-> 0, expired |-> TRUE],
   notes |-> [rows[r].notes EXCEPT !.alternates = TRUE, !.auto = @ + (IF auto THEN 1 ELSE 0)]]

\* requeueMissedAlternateSendForEntity: the row it picks and what it will write.
Requeue(r, revive, auto) ==
  [row |-> r, revive |-> revive,
   wait |-> [tok |-> IF ~revive /\ rows[r].wait # NoWait THEN rows[r].wait.tok ELSE rows[r].last,
             idx |-> 0, expired |-> TRUE],
   notes |-> [rows[r].notes EXCEPT !.alternates = TRUE, !.auto = @ + (IF auto THEN 1 ELSE 0)]]

NonePending == \A r \in JobId : ~Pending(r)

ManualRetry ==
  /\ requeue["user"] = None /\ Disturb("retry")
  /\ \/ \E r \in JobId :
          /\ Pending(r)
          /\ rows[r].wait = NoWait => \A o \in JobId : Pending(o) => rows[o].wait = NoWait
          /\ requeue' = [requeue EXCEPT !["user"] = Requeue(r, FALSE, FALSE)]
     \/ /\ NonePending /\ ended # <<>>
        /\ requeue' = [requeue EXCEPT !["user"] = Requeue(Recent, TRUE, FALSE)]
  /\ UNCHANGED <<durable, pc, cur, run, starting, replyCancel, tally>>

\* A plausible slip: the timeline is not searched for the alternates.
AlternatesMissed_Unsearched(r) == rows[r].wait # NoWait \/ rows[r].notes.alternates

\* getFollowUpRetryEligibility: alternates were expected of this row, and none was sent.
AlternatesMissed(r) ==
  /\ rows[r].wait # NoWait \/ rows[r].notes.alternates
  /\ ~AlternateLogged(r)

\* The scheduler is busy with a row, or left one behind in processing.
AtWork == pc # "idle" \/ \E r \in JobId : rows[r].status = "processing"

\* Automatic recovery has given up on this row.
NoMoreRecovery(r) == rows[r].notes.auto >= MaxAutoAttempts \/ rows[r].permanent

\* The places in `ended` of the rows recoverMissedFollowUpAlternateSends looks for.
Unblocked == {i \in DOMAIN ended : ~rows[ended[i]].blocked}

AutoRecover ==
  /\ requeue["maintenance"] = None
  /\ NonePending /\ Unblocked # {}
  /\ AlternatesMissed(Recent) /\ ~NoMoreRecovery(Recent)
  /\ Disturb("recover")
  /\ requeue' = [requeue EXCEPT !["maintenance"] = Requeue(Recent, TRUE, TRUE)]
  /\ overlaps' = overlaps + (IF AtWork THEN 1 ELSE 0)
  /\ UNCHANGED <<durable, pc, cur, run, starting, replyCancel, starts, lateMail>>

BlockRecovery ==
  /\ NonePending /\ Unblocked # {}
  /\ AlternatesMissed(Recent) /\ NoMoreRecovery(Recent)
  /\ \E i \in Unblocked :
       /\ \A k \in Unblocked : k <= i
       /\ rows' = [rows EXCEPT ![ended[i]].blocked = TRUE]
       /\ ended' = Touch(ended[i])
  /\ UNCHANGED <<mail, opened, replied, memory, history>>

RequeueWrite(q) ==
  LET todo == requeue[q]
      r    == todo.row
  IN  /\ todo # None
      /\ rows' = [rows EXCEPT ![r] =
           [@ EXCEPT !.wait = todo.wait, !.notes = todo.notes,
                     !.status = IF todo.revive THEN "pending" ELSE rows[r].status,
                     !.permanent = IF todo.revive THEN FALSE ELSE rows[r].permanent]]
      /\ ended' = CASE todo.revive -> Untouch(r)
                    [] ~todo.revive /\ rows[r].status \in {"done", "failed"} -> Touch(r)
                    [] OTHER -> ended
      /\ requeue' = [requeue EXCEPT ![q] = None]
      /\ UNCHANGED <<mail, opened, replied, pc, cur, run, starting, replyCancel, history>>

-----------------------------------------------------------------------------

\* The API process dies; the next one starts with an idle scheduler.
Crash ==
  /\ Disturb("crash")
  /\ ReleaseRow
  /\ starting' = FALSE /\ replyCancel' = FALSE
  /\ requeue' = [q \in Requester |-> None]
  /\ UNCHANGED <<durable, tally>>

Next ==
  \/ StartCancel \/ StartPark \/ Compose \/ Reply \/ CancelOnReply \/ UserCancel
  \/ \E t \in Token : Open(t)
  \/ \E r \in JobId : Deadline(r) \/ Claim(r) \/ StaleReclaim(r) \/ Rebind(r)
  \/ Worker
  \/ ManualRetry \/ AutoRecover \/ BlockRecovery
  \/ \E q \in Requester : RequeueWrite(q)
  \/ Crash

Spec == Init /\ [][Next]_vars

\* What the process does on its own account: run the row it holds, claim due
\* rows, finish requests, run the maintenance; and runAt comes.
Progress ==
  \/ Worker \/ StartPark \/ CancelOnReply
  \/ \E r \in JobId : Claim(r) \/ StaleReclaim(r)
  \/ \E q \in Requester : RequeueWrite(q)

\* The process keeps working, in whatever order, and deadlines pass.
Fairness == WF_vars(Progress) /\ WF_vars(\E r \in JobId : Deadline(r))

FairSpec == Spec /\ Fairness

-----------------------------------------------------------------------------
(* Safety. *)

Sent(kind, n) == {t \in Token : mail[t].kind = kind /\ mail[t].n = n}

\* However often maintenance re-queues it, a sequence sends an alternate email
\* again only for a manual retry, a crash, or a recovery that was decided while a
\* row was being run: recoverMissedFollowUpAlternateSends asks for pending rows
\* only, and for a timeline that the email of the row in hand may not be on yet.
AlternatesAreSentOnce ==
  \A e \in 1..starts, i \in 1..NAlt :
    Cardinality({t \in Sent("alternate", i) : mail[t].era = e})
      <= 1 + disturbed["retry"] + disturbed["crash"] + overlaps

\* Cadence emails go out only after some tracked mail was opened, through every
\* deadline, rebind, retry, recovery and crash.
CadenceNeedsAnOpen ==
  (\E t \in Token : mail[t].kind = "cadence") => opened # {}

\* After a reply is recorded a sequence sends at most the mail in flight.
ReplyStopsTheSequence == lateMail <= disturbed["reply"]

\* alternateStepIndex of a row that waits: the alternates up to it were sent.  (The
\* guard names a template: this asks that no alternate shares one with another email.)
ArmedMeansSent ==
  \A r \in JobId : Live(r) /\ rows[r].wait # NoWait =>
    \A i \in 1..rows[r].wait.idx : Sent("alternate", i) # {}

-----------------------------------------------------------------------------
(* Action properties. *)

\* A cancelled row comes back only if it had been reclaimed from a run that still
\* held it, or if a manual retry and a recovery of the same row pass each other:
\* no other write of a status is late enough to overwrite a cancellation.
CancelIsFinal ==
  [][\A r \in JobId : rows[r].status = "cancelled" /\ rows'[r].status # "cancelled" =>
       \/ disturbed["slow"] > 0
       \/ disturbed["retry"] > 0 /\ disturbed["recover"] > 0]_vars

-----------------------------------------------------------------------------
(* Liveness. *)

\* Nothing keeps a sequence going for ever - not the polls, the re-arming, the
\* reclaims, the rebinds or the recoveries: again and again every row has ended.
SequenceSettles == []<>(\A r \in JobId : ~Live(r))

Interrupted ==
  starts > 1 \/ starting \/ \E k \in Kind \ {"compose", "slow", "recover"} : disturbed[k] > 0

\* An open of the mail a row waits on is never lost, wherever it falls between
\* the polls, the deadline and the re-arming: the whole cadence follows.
OpenIsFollowedUp ==
  (\E r \in JobId \ {cur} : Pending(r) /\ rows[r].wait # NoWait /\ Opened(rows[r].wait.tok))
    ~> (Sent("cadence", NCad) # {} \/ Interrupted)

-----------------------------------------------------------------------------
(* What the repository says and the code does not do. *)

\* The alternate outreach is for those who "still have not opened": none is
\* sent in a sequence whose cadence an open has started.
NoAlternateAfterCadence ==
  \A t, u \in Token : mail[t].kind = "cadence" /\ mail[u].kind = "alternate" /\ t < u
                       => mail[u].era # mail[t].era

\* It is re-queueing alone that sends one: deadlines, rebinds, new sequences beside
\* the old, crashes and reclaims keep to the order.
OnlyRequeuesGoBack ==
  disturbed["retry"] = 0 /\ disturbed["recover"] = 0 => NoAlternateAfterCadence
=============================================================================
