------------------------ MODULE DelayedJobQueueProofs ------------------------
(* Theorems about DelayedJobQueue, for every value of its constants. *)
EXTENDS DelayedJobQueue, TLAPS

\* A process at work walks a run.
LEMMA RunOfType ==
  ASSUME TypeOK, NEW p \in Proc, p = Worker => pc[p] \notin {"down", "idle"}
  PROVE  RunOf(p) \in Run /\ Key(RunOf(p)) \in Workflow \X Entity
<1>1. RunOf(p) \in Run
  BY DEF RunOf, TypeOK, DurableOK, MemoryOK, Proc, Row
<1> QED BY <1>1, QueueAssumption DEF Key

\* A step of kind "email" names a template.
LEMMA EmailStepTemplate ==
  ASSUME NEW s \in Step, s.kind = "email"
  PROVE  s.tpl \in Template
BY DEF Step, DelayStep, TaskStep, EmailStep

\* What the inductive invariant adds to the types: a process that is sending
\* an email, or has just sent one, stands at an email step of its run.
SendsAnEmail ==
  \A p \in Proc : pc[p] \in {"sending", "sent"} => ~AtEnd(p) /\ StepOf(p).kind = "email"

LEMMA SentTemplateType ==
  ASSUME TypeOK, SendsAnEmail, NEW p \in Proc, pc[p] \in {"sending", "sent"}
  PROVE  StepOf(p).tpl \in Template
<1>1. RunOf(p) \in Run
  BY RunOfType
<1>2. Steps(p) \in Seq(Step)
  BY <1>1, QueueAssumption DEF Steps
<1>3. at[p] \in 1..Len(Steps(p))
  BY <1>2 DEF SendsAnEmail, AtEnd, TypeOK, MemoryOK
<1>4. StepOf(p) \in Step
  BY <1>2, <1>3 DEF StepOf
<1> QED BY <1>4, EmailStepTemplate DEF SendsAnEmail

\* Moving a process that is at work to another place of its code.
LEMMA GotoType ==
  ASSUME MemoryOK, NEW p \in Proc, NEW l, Goto(p, l),
         pc[p] \notin {"down", "idle"}, p = Worker => l \in WorkerPc \ {"down", "idle"},
         p # Worker => l \in RunPc,
         UNCHANGED <<cur, status, wfCancel, recCancel>>,
         \/ UNCHANGED <<at, stripped>>
         \/ at' = [at EXCEPT ![p] = @ + 1] /\ stripped' = [stripped EXCEPT ![p] = FALSE]
  PROVE  MemoryOK'
<1>1. /\ pc' \in [Proc -> RunPc \cup WorkerPc]
      /\ pc'[Worker] \in WorkerPc
      /\ \A q \in Run : pc'[q] \in RunPc
  BY QueueAssumption DEF MemoryOK, Goto, Proc
<1>2. pc'[Worker] \in {"down", "idle"} <=> pc[Worker] \in {"down", "idle"}
  BY DEF MemoryOK, Goto, Proc
<1>3. at' \in [Proc -> Nat \ {0}]
  BY DEF MemoryOK
<1>4. stripped' \in [Proc -> BOOLEAN]
  BY DEF MemoryOK
<1> QED BY <1>1, <1>2, <1>3, <1>4 DEF MemoryOK

\* One more effect of a step.
LEMMA RanType ==
  ASSUME HistoryOK, NEW q \in Run, NEW i \in Nat
  PROVE  [ran EXCEPT ![q][i] = @ + 1] \in [Run -> [StepIndex -> Nat]]
<1> DEFINE n == ran[q][i] + 1
           f == [ran[q] EXCEPT ![i] = n]
<1>1. ran[q] \in [StepIndex -> Nat]
  BY DEF HistoryOK
<1>2. i \in StepIndex => n \in Nat
  BY <1>1
<1> HIDE DEF n
<1>3. f \in [StepIndex -> Nat]
  BY <1>1, <1>2
<1> HIDE DEF f
<1>4. [ran EXCEPT ![q] = f] \in [Run -> [StepIndex -> Nat]]
  BY <1>3 DEF HistoryOK
<1> QED BY <1>4 DEF f, n

\* A step list keeps the types: the steps of a run, whoever walks it.
LEMMA StepListType ==
  ASSUME TypeOK, NEW p \in Proc, StepList(p)
  PROVE  TypeOK'
<1> USE DEF TypeOK
<1>1. CASE Defer(p)
  <2>1. RunOf(p) \in Run /\ Key(RunOf(p)) \in Workflow \X Entity
    BY <1>1, RunOfType DEF Defer
  <2>2. DurableOK'
    BY <1>1, <2>1 DEF Defer, ClaimOnceEnrollment, DurableOK
  <2>3. MemoryOK'
    BY <1>1, GotoType DEF Defer, RunPc, WorkerPc, RunEnded
  <2>4. HistoryOK'
    BY <1>1 DEF Defer, HistoryOK, history
  <2> QED BY <2>2, <2>3, <2>4
<1>2. CASE Persist(p)
  <2>1. RunOf(p) \in Run
    BY <1>2, RunOfType DEF Persist
  <2>2. DurableOK'
    <3>1. PICK r \in JobId :
             /\ status' = [status EXCEPT ![r] = "pending"]
             /\ job' = [job EXCEPT ![r] =
                  [run      |-> RunOf(p),
                   next     |-> IF StepOf(p).kind = "delay" THEN at[p] + 1 ELSE at[p],
                   stripped |-> StepOf(p).kind = "email",
                   guard    |-> NoGuard]]
      BY <1>2 DEF Persist
    <3> DEFINE row == [run      |-> RunOf(p),
                       next     |-> IF StepOf(p).kind = "delay" THEN at[p] + 1 ELSE at[p],
                       stripped |-> StepOf(p).kind = "email",
                       guard    |-> NoGuard]
    <3>2. at[p] \in Nat \ {0}
      BY DEF MemoryOK
    <3>3. row \in Row
      BY <2>1, <3>2 DEF Row
    <3> HIDE DEF row
    <3>4. job' = [job EXCEPT ![r] = row] /\ row # NoJob
      BY <3>1, <3>3, QueueAssumption DEF row
    <3>5. status' \in [JobId -> Status] /\ job' \in [JobId -> Row \cup {NoJob}]
      BY <3>1, <3>3, <3>4 DEF DurableOK, Status
    <3>6. \A x \in JobId : status'[x] = "free" <=> job'[x] = NoJob
      BY <3>1, <3>4 DEF DurableOK
    <3> QED BY <1>2, <3>5, <3>6 DEF Persist, DurableOK
  <2>3. MemoryOK'
    <3>1. cur # NoJob => status'[cur] # "free"
      BY <1>2 DEF Persist, MemoryOK, DurableOK, Status
    <3>2. /\ pc' \in [Proc -> RunPc \cup WorkerPc]
          /\ pc'[Worker] \in WorkerPc
          /\ \A q \in Run : pc'[q] \in RunPc
          /\ pc'[Worker] \in {"down", "idle"} <=> pc[Worker] \in {"down", "idle"}
      BY <1>2, QueueAssumption DEF Persist, Goto, MemoryOK, RunPc, WorkerPc, RunEnded, Proc
    <3> QED BY <1>2, <3>1, <3>2 DEF Persist, MemoryOK
  <2>4. HistoryOK'
    BY <1>2 DEF Persist, HistoryOK, history
  <2> QED BY <2>2, <2>3, <2>4
<1>3. CASE PrepareSend(p)
  <2>1. DurableOK'
    BY <1>3 DEF PrepareSend, DurableOK, durable
  <2>2. MemoryOK'
    BY <1>3, GotoType DEF PrepareSend, AtEmail, Advance, RunPc, WorkerPc, RunEnded, durable
  <2>3. HistoryOK'
    BY <1>3 DEF PrepareSend, HistoryOK, history
  <2> QED BY <2>1, <2>2, <2>3
<1>4. CASE Send(p)
  <2>1. RunOf(p) \in Run
    BY <1>4, RunOfType DEF Send
  <2>2. DurableOK'
    BY <1>4 DEF Send, DurableOK, durable
  <2>3. MemoryOK'
    BY <1>4, GotoType DEF Send, Advance, RunPc, WorkerPc, RunEnded, durable
  <2>4. HistoryOK'
    BY <1>4, <2>1, RanType DEF Send, HistoryOK, MemoryOK
  <2> QED BY <2>2, <2>3, <2>4
<1>5. CASE RunAction(p)
  <2>1. RunOf(p) \in Run
    BY <1>5, RunOfType DEF RunAction
  <2>2. DurableOK'
    BY <1>5 DEF RunAction, DurableOK, durable
  <2>3. MemoryOK'
    BY <1>5, GotoType DEF RunAction, Advance, RunPc, WorkerPc, RunEnded, durable
  <2>4. HistoryOK'
    BY <1>5, <2>1, RanType DEF RunAction, HistoryOK, MemoryOK
  <2> QED BY <2>2, <2>3, <2>4
<1>6. CASE StepThrows(p)
  BY <1>6, GotoType DEF StepThrows, DurableOK, HistoryOK, durable, history, RunPc, WorkerPc, RunEnded
<1>7. CASE EndList(p)
  BY <1>7, GotoType DEF EndList, DurableOK, HistoryOK, durable, history, RunPc, WorkerPc, RunEnded
<1>8. CASE Complete(p)
  <2>1. RunOf(p) \in Run /\ Key(RunOf(p)) \in Workflow \X Entity
    BY <1>8, RunOfType DEF Complete
  <2>2. DurableOK'
    BY <1>8, <2>1 DEF Complete, DurableOK
  <2>3. MemoryOK'
    BY <1>8, GotoType DEF Complete, RunPc, WorkerPc, RunEnded
  <2>4. HistoryOK'
    BY <1>8, <2>1 DEF Complete, HistoryOK
  <2> QED BY <2>2, <2>3, <2>4
<1> QED BY <1>1, <1>2, <1>3, <1>4, <1>5, <1>6, <1>7, <1>8 DEF StepList

\* updateMany over created rows: no row appears or disappears.
LEMMA SetStatusType ==
  ASSUME DurableOK, NEW S \in SUBSET JobId, NEW s \in Status \ {"free"}, SetStatus(S, s),
         \A r \in S : status[r] # "free", job' = job
  PROVE  /\ status' \in [JobId -> Status]
         /\ \A r \in JobId : status'[r] = "free" <=> job'[r] = NoJob
         /\ cur \in JobId /\ status[cur] # "free" => status'[cur] # "free"
BY DEF DurableOK, SetStatus

\* Dispatching a run keeps the types.
LEMMA RunNextType ==
  ASSUME TypeOK, NEW q \in Run, RunNext(q)
  PROVE  TypeOK'
<1> USE DEF TypeOK
<1>0. q \in Proc /\ q # Worker
  BY QueueAssumption DEF Proc
<1>1. CASE Dispatch(q)
  <2>1. MemoryOK'
    BY <1>0, <1>1 DEF Dispatch, Goto, MemoryOK, RunPc, RunEnded, durable
  <2> QED BY <1>1, <2>1 DEF Dispatch, DurableOK, HistoryOK, durable, history
<1>2. CASE CancelPendingForEntity(q)
  <2>1. RestartCancels(q) \in SUBSET JobId /\ \A r \in RestartCancels(q) : status[r] # "free"
    BY DEF RestartCancels, RowsOf
  <2>2. /\ status' \in [JobId -> Status]
        /\ \A r \in JobId : status'[r] = "free" <=> job'[r] = NoJob
        /\ cur \in JobId /\ status[cur] # "free" => status'[cur] # "free"
    BY <1>2, <2>1, SetStatusType DEF CancelPendingForEntity, Status, Terminal
  <2>3. DurableOK'
    BY <1>2, <2>2 DEF CancelPendingForEntity, DurableOK
  <2>4. MemoryOK'
    BY <1>0, <1>2, <2>2 DEF CancelPendingForEntity, Goto, MemoryOK, RunPc, RunEnded
  <2>5. HistoryOK'
    BY <1>2 DEF CancelPendingForEntity, HistoryOK
  <2> QED BY <2>3, <2>4, <2>5
<1>3. CASE Unenrol(q)
  <2>1. MemoryOK'
    BY <1>0, <1>3 DEF Unenrol, Goto, MemoryOK, RunPc, RunEnded
  <2> QED BY <1>3, <2>1 DEF Unenrol, DurableOK, HistoryOK, history
<1>4. CASE CheckEnrolled(q)
  <2>1. MemoryOK'
    BY <1>0, <1>4 DEF CheckEnrolled, Goto, MemoryOK, RunPc, RunEnded, durable
  <2> QED BY <1>4, <2>1 DEF CheckEnrolled, DurableOK, HistoryOK, durable, history
<1> QED BY <1>1, <1>2, <1>3, <1>4 DEF RunNext

\* WriteGuard replaces the worker's row by a row of the same run.
LEMMA GuardedRow ==
  ASSUME TypeOK, SendsAnEmail, WriteGuard
  PROVE  /\ cur \in JobId /\ status[cur] # "free"
         /\ \E row \in Row : /\ job' = [job EXCEPT ![cur] = row]
                             /\ row # NoJob /\ row.run = job[cur].run
<1>0. Worker \in Proc
  BY DEF Proc
<1>1. PICK g \in {StepOf(Worker).tpl, NoGuard} : job' = [job EXCEPT ![cur].guard = g]
  BY DEF WriteGuard
<1>2. cur \in JobId /\ job[cur] \in Row /\ status[cur] # "free"
  BY DEF WriteGuard, TypeOK, MemoryOK, DurableOK
<1>3. g \in Template \cup {NoGuard}
  BY <1>0, <1>1, SentTemplateType DEF WriteGuard
<1> DEFINE row == [job[cur] EXCEPT !.guard = g]
<1>4. row \in Row /\ row.run = job[cur].run
  BY <1>2, <1>3 DEF Row
<1> HIDE DEF row
<1>5. job' = [job EXCEPT ![cur] = row] /\ row # NoJob
  BY <1>1, <1>4, QueueAssumption DEF row
<1> QED BY <1>2, <1>4, <1>5

\* The scheduler keeps the types, and holds a created row exactly while at work.
LEMMA WorkerNextType ==
  ASSUME TypeOK, SendsAnEmail, WorkerNext
  PROVE  TypeOK'
<1> USE DEF TypeOK
<1>0. Worker \in Proc /\ Worker \notin Run
  BY QueueAssumption DEF Proc
<1>1. CASE Resume
  <2>1. job[cur].run \in Run /\ job[cur].next \in Nat \ {0} /\ job[cur].stripped \in BOOLEAN
    BY <1>1 DEF Resume, DurableOK, MemoryOK, Row
  <2>2. MemoryOK'
    <3>1. at' \in [Proc -> Nat \ {0}]
      BY <1>1, <2>1 DEF Resume, MemoryOK
    <3>2. stripped' \in [Proc -> BOOLEAN]
      BY <1>1, <2>1 DEF Resume, MemoryOK
    <3>3. PICK l \in {"cancelled", "step"} : pc' = [pc EXCEPT ![Worker] = l]
      BY <1>1 DEF Resume, Goto
    <3>4. pc[Worker] = "resume" /\ UNCHANGED <<status, cur, wfCancel, recCancel>>
      BY <1>1 DEF Resume, durable
    <3>5. /\ pc' \in [Proc -> RunPc \cup WorkerPc]
          /\ pc'[Worker] \in WorkerPc \ {"down", "idle"}
          /\ \A q \in Run : pc'[q] \in RunPc
      BY <1>0, <3>3 DEF MemoryOK, WorkerPc
    <3> QED
      BY <3>1, <3>2, <3>4, <3>5 DEF MemoryOK
  <2> QED BY <1>1, <2>2 DEF Resume, DurableOK, HistoryOK, durable, history
<1>2. CASE WriteGuard
  <2>1. cur \in JobId /\ status[cur] # "free"
    BY <1>2, GuardedRow
  <2>2. PICK row \in Row : job' = [job EXCEPT ![cur] = row] /\ row # NoJob
    BY <1>2, GuardedRow
  <2>3. DurableOK'
    <3>1. job' \in [JobId -> Row \cup {NoJob}]
      BY <2>1, <2>2 DEF DurableOK
    <3>2. \A x \in JobId : status[x] = "free" <=> job'[x] = NoJob
      BY <2>1, <2>2 DEF DurableOK
    <3> QED BY <1>2, <3>1, <3>2 DEF WriteGuard, DurableOK
  <2>4. MemoryOK'
    BY <1>0, <1>2, GotoType DEF WriteGuard, Advance, WorkerPc
  <2> QED BY <1>2, <2>3, <2>4 DEF WriteGuard, HistoryOK, history
<1>3. CASE Settle
  <2>1. cur \in JobId /\ status[cur] # "free" /\ pc[Worker] \in Status \ {"free"}
    BY <1>3 DEF Settle, MemoryOK, Terminal, Status
  <2>2. DurableOK'
    BY <1>3, <2>1 DEF Settle, DurableOK
  <2>3. MemoryOK'
    BY <1>0, <1>3 DEF Settle, Goto, MemoryOK, WorkerPc
  <2> QED BY <1>3, <2>2, <2>3 DEF Settle, HistoryOK, history
<1>4. CASE SettleFails
  <2>1. MemoryOK'
    <3>1. UNCHANGED <<status, at, stripped, wfCancel, recCancel>>
      BY <1>4 DEF SettleFails, durable
    <3>2. CASE pc[Worker] \in {"done", "cancelled"} /\ Goto(Worker, "failed") /\ UNCHANGED cur
      BY <1>0, <3>1, <3>2 DEF Goto, MemoryOK, WorkerPc
    <3>3. CASE pc[Worker] \in {"failed", "cancelled"} /\ Goto(Worker, "idle") /\ cur' = NoJob
      BY <1>0, <3>1, <3>3 DEF Goto, MemoryOK, WorkerPc
    <3> QED BY <1>4, <3>2, <3>3 DEF SettleFails
  <2> QED BY <1>4, <2>1 DEF SettleFails, DurableOK, HistoryOK, durable
<1>5. CASE Boot
  <2>1. OrphanedAtBoot \in SUBSET JobId /\ \A r \in OrphanedAtBoot : status[r] # "free"
    BY DEF OrphanedAtBoot
  <2>2. DurableOK'
    BY <1>5, <2>1, SetStatusType DEF Boot, DurableOK, Status
  <2>3. MemoryOK'
    BY <1>0, <1>5 DEF Boot, Goto, MemoryOK, WorkerPc
  <2> QED BY <1>5, <2>2, <2>3 DEF Boot, HistoryOK, history
<1>6. CASE \E r \in JobId : Claim(r)
  <2>1. PICK r \in JobId : Claim(r)
    BY <1>6
  <2>2. DurableOK'
    BY <2>1 DEF Claim, DurableOK, Status
  <2>3. MemoryOK'
    BY <1>0, <2>1, QueueAssumption DEF Claim, Goto, DurableOK, MemoryOK, WorkerPc, Status
  <2> QED BY <2>1, <2>2, <2>3 DEF Claim, HistoryOK, history
<1> QED BY <1>1, <1>2, <1>3, <1>4, <1>5, <1>6 DEF WorkerNext

\* What happens around the engine keeps the types.
LEMMA EnvironmentType ==
  ASSUME TypeOK, Environment
  PROVE  TypeOK'
<1> USE DEF TypeOK
<1>0. Worker \in Proc /\ Worker \notin Run
  BY QueueAssumption DEF Proc
<1>1. ASSUME NEW r \in JobId, DelayElapses(r)
      PROVE  TypeOK'
  BY <1>1 DEF DelayElapses, DurableOK, MemoryOK, HistoryOK, memory, history
<1>2. ASSUME NEW r \in JobId, StaleReclaim(r)
      PROVE  TypeOK'
  <2>1. DurableOK'
    BY <1>2 DEF StaleReclaim, Reclaimable, DurableOK, Status
  <2>2. MemoryOK'
    BY <1>2 DEF StaleReclaim, DurableOK, MemoryOK, memory
  <2>3. HistoryOK'
    BY <1>2 DEF StaleReclaim, HistoryOK
  <2> QED BY <2>1, <2>2, <2>3
<1>3. ASSUME NEW w \in Workflow, TurnOff(w)
      PROVE  TypeOK'
  BY <1>3 DEF TurnOff, DurableOK, MemoryOK, HistoryOK
<1>4. ASSUME NEW w \in Workflow, CancelForWorkflow(w)
      PROVE  TypeOK'
  <2> DEFINE S == {r \in JobId : status[r] \in {"pending", "processing"} /\ wfOf[job[r].run] = w}
  <2>1. S \in SUBSET JobId /\ (\A r \in S : status[r] # "free") /\ SetStatus(S, "cancelled")
        /\ job' = job
    BY <1>4 DEF CancelForWorkflow
  <2>2. /\ status' \in [JobId -> Status]
        /\ \A r \in JobId : status'[r] = "free" <=> job'[r] = NoJob
        /\ cur \in JobId /\ status[cur] # "free" => status'[cur] # "free"
    BY <2>1, SetStatusType DEF Status, Terminal
  <2> QED BY <1>4, <2>2 DEF CancelForWorkflow, DurableOK, MemoryOK, HistoryOK, history
<1>5. ASSUME NEW w \in Workflow, TurnOn(w)
      PROVE  TypeOK'
  BY <1>5 DEF TurnOn, DurableOK, MemoryOK, HistoryOK, memory, history
<1>6. ASSUME NEW e \in Entity, Reply(e)
      PROVE  TypeOK'
  BY <1>6 DEF Reply, DurableOK, MemoryOK, HistoryOK, history
<1>7. ASSUME NEW e \in Entity, CancelPendingJobsOnReply(e)
      PROVE  TypeOK'
  <2> DEFINE S == {r \in RowsOf(e) : status[r] = "pending" /\ wfOf[job[r].run] \in CancelsOnReply}
  <2>1. S \in SUBSET JobId /\ (\A r \in S : status[r] # "free") /\ SetStatus(S, "cancelled")
        /\ job' = job
    BY <1>7 DEF CancelPendingJobsOnReply, RowsOf
  <2>2. /\ status' \in [JobId -> Status]
        /\ \A r \in JobId : status'[r] = "free" <=> job'[r] = NoJob
        /\ cur \in JobId /\ status[cur] # "free" => status'[cur] # "free"
    BY <2>1, SetStatusType DEF Status, Terminal
  <2> QED BY <1>7, <2>2 DEF CancelPendingJobsOnReply, DurableOK, MemoryOK, HistoryOK, history
<1>8. CASE Crash
  <2>1. MemoryOK'
    BY <1>0, <1>8 DEF Crash, MemoryOK, Proc, RunPc, WorkerPc, RunEnded
  <2> QED BY <1>8, <2>1 DEF Crash, DurableOK, HistoryOK, durable
<1> QED BY <1>1, <1>2, <1>3, <1>4, <1>5, <1>6, <1>7, <1>8 DEF Environment

\* Rows are made by Persist; WriteGuard touches the guard of the worker's row.
LEMMA JobStep ==
  ASSUME [Next]_vars
  PROVE  (\E p \in Proc : Persist(p)) \/ WriteGuard \/ UNCHANGED job
<1>1. ASSUME NEW p \in Proc, StepList(p)
      PROVE  Persist(p) \/ UNCHANGED job
  BY <1>1 DEF StepList, Defer, PrepareSend, Send, RunAction, StepThrows, EndList, Complete, durable
<1>2. ASSUME NEW q \in Run, RunNext(q)
      PROVE  UNCHANGED job
  BY <1>2 DEF RunNext, Dispatch, CancelPendingForEntity, Unenrol, CheckEnrolled, durable
<1>3. ASSUME WorkerNext
      PROVE  WriteGuard \/ UNCHANGED job
  BY <1>3 DEF WorkerNext, Resume, Settle, SettleFails, Boot, Claim, durable
<1>4. ASSUME Environment
      PROVE  UNCHANGED job
  BY <1>4 DEF Environment, DelayElapses, StaleReclaim, TurnOff, CancelForWorkflow, TurnOn,
     Reply, CancelPendingJobsOnReply, Crash, durable
<1> QED BY <1>1, <1>2, <1>3, <1>4 DEF Next, vars, durable

\* The run of a row never changes.
LEMMA RunOfRowKept ==
  ASSUME TypeOK, SendsAnEmail, [Next]_vars, NEW r \in JobId, job[r] # NoJob
  PROVE  job'[r] # NoJob /\ job'[r].run = job[r].run
<1>1. CASE \E p \in Proc : Persist(p)
  BY <1>1 DEF Persist, TypeOK, DurableOK
<1>2. CASE WriteGuard
  BY <1>2, GuardedRow DEF TypeOK, DurableOK
<1> QED BY <1>1, <1>2, JobStep

\* A run gets a row only from a process that walks it and parks it.
LEMMA RowsStep ==
  ASSUME TypeOK, SendsAnEmail, [Next]_vars, NEW q \in Run
  PROVE  Rows(q)' = Rows(q) \/ \E p \in Proc : Persist(p) /\ RunOf(p) = q
<1>1. CASE \E p \in Proc : Persist(p)
  <2>1. PICK p \in Proc : Persist(p)
    BY <1>1
  <2>2. CASE RunOf(p) = q
    BY <2>1, <2>2
  <2>3. CASE RunOf(p) # q
    BY <2>1, <2>3 DEF Persist, Rows, TypeOK, DurableOK
  <2> QED BY <2>2, <2>3
<1>2. CASE WriteGuard
  BY <1>2, GuardedRow DEF Rows, TypeOK, DurableOK
<1>3. CASE UNCHANGED job
  BY <1>3 DEF Rows
<1> QED BY <1>1, <1>2, <1>3, JobStep

\* A process that stays where it is in its code stays at the same step of the
\* same run; only PrepareSend starts to send, only Send ends it.
LEMMA SendingStays ==
  ASSUME TypeOK, [Next]_vars, NEW p \in Proc, pc'[p] \in {"sending", "sent"}
  PROVE  \/ PrepareSend(p)
         \/ p = Worker /\ Send(p)
         \/ /\ pc'[p] = pc[p] /\ at'[p] = at[p]
            /\ p = Worker => cur' = cur
<1> USE QueueAssumption DEF TypeOK, MemoryOK, Proc, Goto
<1>1. ASSUME NEW x \in Proc, StepList(x)
      PROVE  \/ PrepareSend(p)
             \/ p = Worker /\ Send(p)
             \/ pc'[p] = pc[p] /\ at'[p] = at[p] /\ (p = Worker => cur' = cur)
  <2>1. CASE x = p
    BY <1>1, <2>1 DEF StepList, Defer, Persist, Send, RunAction, StepThrows, EndList, Complete, Advance
  <2>2. CASE x # p
    BY <1>1, <2>2 DEF StepList, Defer, Persist, PrepareSend, Send, RunAction, StepThrows, EndList,
       Complete, Advance
  <2> QED BY <2>1, <2>2
<1>2. ASSUME NEW q \in Run, RunNext(q)
      PROVE  pc'[p] = pc[p] /\ at'[p] = at[p] /\ (p = Worker => cur' = cur)
  BY <1>2 DEF RunNext, Dispatch, CancelPendingForEntity, Unenrol, CheckEnrolled
<1>3. ASSUME WorkerNext
      PROVE  pc'[p] = pc[p] /\ at'[p] = at[p] /\ (p = Worker => cur' = cur)
  BY <1>3 DEF WorkerNext, Resume, WriteGuard, Settle, SettleFails, Boot, Claim, Advance
<1>4. ASSUME Environment
      PROVE  pc'[p] = pc[p] /\ at'[p] = at[p] /\ (p = Worker => cur' = cur)
  BY <1>4 DEF Environment, DelayElapses, StaleReclaim, TurnOff, CancelForWorkflow, TurnOn,
     Reply, CancelPendingJobsOnReply, Crash, memory
<1>5. CASE UNCHANGED vars
  BY <1>5 DEF vars, memory
<1> QED BY <1>1, <1>2, <1>3, <1>4, <1>5 DEF Next

LEMMA SendsAnEmailStep ==
  ASSUME TypeOK, SendsAnEmail, [Next]_vars
  PROVE  SendsAnEmail'
<1> SUFFICES ASSUME NEW p \in Proc, pc'[p] \in {"sending", "sent"}
             PROVE  (~AtEnd(p) /\ StepOf(p).kind = "email")'
  BY DEF SendsAnEmail
<1>1. ASSUME at'[p] = at[p], p = Worker => cur' = cur, p = Worker => cur # NoJob
      PROVE  AtEnd(p)' = AtEnd(p) /\ StepOf(p)' = StepOf(p)
  <2>1. RunOf(p)' = RunOf(p)
    BY <1>1, RunOfRowKept DEF RunOf, TypeOK, MemoryOK, DurableOK
  <2> QED BY <1>1, <2>1 DEF AtEnd, StepOf, Steps
<1>2. CASE PrepareSend(p)
  BY <1>1, <1>2, QueueAssumption DEF PrepareSend, AtEmail, Advance, Goto, TypeOK, MemoryOK, Proc
<1>3. CASE p = Worker /\ Send(p)
  BY <1>1, <1>3, QueueAssumption DEF Send, SendsAnEmail, Goto, TypeOK, MemoryOK, Proc
<1>4. CASE pc'[p] = pc[p] /\ at'[p] = at[p] /\ (p = Worker => cur' = cur)
  BY <1>1, <1>4 DEF SendsAnEmail, TypeOK, MemoryOK
<1> QED BY <1>2, <1>3, <1>4, SendingStays

LEMMA TypeStep ==
  ASSUME TypeOK, SendsAnEmail, [Next]_vars
  PROVE  TypeOK'
<1>1. ASSUME UNCHANGED vars
      PROVE  TypeOK'
  <2>1. DurableOK'
    BY <1>1 DEF vars, durable, TypeOK, DurableOK
  <2>2. MemoryOK'
    BY <1>1 DEF vars, durable, memory, TypeOK, MemoryOK
  <2>3. HistoryOK'
    BY <1>1 DEF vars, history, TypeOK, HistoryOK
  <2> QED BY <2>1, <2>2, <2>3 DEF TypeOK
<1> QED BY <1>1, StepListType, RunNextType, WorkerNextType, EnvironmentType DEF Next

LEMMA InductiveTypes == Spec => [](TypeOK /\ SendsAnEmail)
<1>1. Init => TypeOK /\ SendsAnEmail
  BY QueueAssumption DEF Init, TypeOK, DurableOK, MemoryOK, HistoryOK, SendsAnEmail,
     Proc, Status, WorkerPc, RunPc, RunEnded
<1>2. TypeOK /\ SendsAnEmail /\ [Next]_vars => (TypeOK /\ SendsAnEmail)'
  BY TypeStep, SendsAnEmailStep
<1> QED BY <1>1, <1>2, PTL DEF Spec

\* The type invariant, for every value of the constants.
THEOREM TypeCorrect == Spec => []TypeOK
<1>1. TypeOK /\ SendsAnEmail => TypeOK
  OBVIOUS
<1> QED BY <1>1, InductiveTypes, PTL

-----------------------------------------------------------------------------
(* Settled rows.                                                           *)

\* No step takes a row out of done, failed or cancelled: the writes that are
\* not guarded by a status only ever write one of the three.
LEMMA SettledStays ==
  ASSUME TypeOK, [Next]_vars, NEW r \in JobId, status[r] \in Terminal
  PROVE  status'[r] \in Terminal
<1> USE DEF Terminal, TypeOK, DurableOK
<1>1. ASSUME NEW p \in Proc, StepList(p)
      PROVE  status'[r] \in Terminal
  BY <1>1 DEF StepList, Defer, Persist, PrepareSend, Send, RunAction, StepThrows, EndList,
     Complete, durable
<1>2. ASSUME NEW q \in Run, RunNext(q)
      PROVE  status'[r] \in Terminal
  BY <1>2 DEF RunNext, Dispatch, CancelPendingForEntity, SetStatus, Unenrol, CheckEnrolled, durable
<1>3. ASSUME WorkerNext
      PROVE  status'[r] \in Terminal
  BY <1>3 DEF WorkerNext, Resume, WriteGuard, Settle, SettleFails, Boot, OrphanedAtBoot,
     SetStatus, Claim, durable
<1>4. ASSUME Environment
      PROVE  status'[r] \in Terminal
  BY <1>4 DEF Environment, DelayElapses, StaleReclaim, Reclaimable, TurnOff, CancelForWorkflow,
     SetStatus, TurnOn, Reply, CancelPendingJobsOnReply, Crash, durable
<1>5. CASE UNCHANGED vars
  BY <1>5 DEF vars, durable
<1> QED BY <1>1, <1>2, <1>3, <1>4, <1>5 DEF Next

\* A settled row is never put back in the queue, whatever reclaims, late
\* writes and cancellations meet.
THEOREM SettledRowsStaySettled == Spec => SettledIsFinal
<1>1. TypeOK /\ [Next]_vars =>
        [\A r \in JobId : status[r] \in Terminal => status'[r] \in Terminal]_vars
  BY SettledStays
<1> QED BY <1>1, TypeCorrect, PTL DEF Spec, SettledIsFinal

-----------------------------------------------------------------------------
(* One email at most after a reply.                                        *)

\* A request that has ended stays ended.
LEMMA EndedStays ==
  ASSUME TypeOK, [Next]_vars, NEW q \in Run, pc[q] \in RunEnded \ {"idle"}
  PROVE  pc'[q] = pc[q]
<1> USE QueueAssumption DEF RunEnded, TypeOK, MemoryOK, Proc, Goto
<1>1. ASSUME NEW p \in Proc, StepList(p)
      PROVE  pc'[q] = pc[q]
  BY <1>1 DEF StepList, Defer, Persist, PrepareSend, AtEmail, Send, RunAction, StepThrows, EndList,
     Complete, Advance
<1>2. ASSUME NEW x \in Run, RunNext(x)
      PROVE  pc'[q] = pc[q]
  BY <1>2 DEF RunNext, Dispatch, CancelPendingForEntity, Unenrol, CheckEnrolled
<1>3. ASSUME WorkerNext
      PROVE  pc'[q] = pc[q]
  BY <1>3 DEF WorkerNext, Resume, WriteGuard, Settle, SettleFails, Boot, Claim, Advance
<1>4. ASSUME Environment
      PROVE  pc'[q] = pc[q]
  BY <1>4 DEF Environment, DelayElapses, StaleReclaim, TurnOff, CancelForWorkflow, TurnOn,
     Reply, CancelPendingJobsOnReply, Crash, memory
<1>5. CASE UNCHANGED vars
  BY <1>5 DEF vars, memory
<1> QED BY <1>1, <1>2, <1>3, <1>4, <1>5 DEF Next

\* A run that has rows has left the request that dispatched it; so at most one
\* process is ever walking it.
ParkedRunsEnded ==
  \A q \in Run : Rows(q) # {} => pc[q] \in RunEnded \ {"idle"}

LEMMA ParkedRunsEndedStep ==
  ASSUME TypeOK, SendsAnEmail, ParkedRunsEnded, [Next]_vars
  PROVE  ParkedRunsEnded'
<1> SUFFICES ASSUME NEW q \in Run, Rows(q)' # {}
             PROVE  pc'[q] \in RunEnded \ {"idle"}
  BY DEF ParkedRunsEnded
<1>1. CASE Rows(q) # {}
  BY <1>1, EndedStays DEF ParkedRunsEnded
<1>2. CASE Rows(q) = {}
  <2>1. PICK p \in Proc : Persist(p) /\ RunOf(p) = q
    BY <1>2, RowsStep
  <2>2. CASE p = q /\ p # Worker
    BY <2>1, <2>2 DEF Persist, Goto, RunEnded, TypeOK, MemoryOK
  <2>3. CASE p = Worker
    <3>1. cur \in Rows(q)
      BY <2>1, <2>3 DEF Persist, RunOf, Rows, TypeOK, MemoryOK, DurableOK
    <3> QED BY <3>1, <1>2
  <2> QED BY <2>1, <2>2, <2>3 DEF RunOf
<1> QED BY <1>1, <1>2

\* One walker per run.
LEMMA OneWalker ==
  ASSUME TypeOK, ParkedRunsEnded, NEW p \in Proc, NEW x \in Proc, p # x,
         pc[p] = "sending", pc[x] = "sending"
  PROVE  RunOf(p) # RunOf(x)
<1>1. ASSUME NEW q \in Run, pc[Worker] = "sending", pc[q] = "sending"
      PROVE  job[cur].run # q
  BY <1>1 DEF ParkedRunsEnded, Rows, RunEnded, TypeOK, MemoryOK, DurableOK
<1> QED BY <1>1, QueueAssumption DEF RunOf, Proc

\* The strengthening of OneLateSend: once a late email has left, the reply is
\* on record and nobody is about to send for that run.
LateSendSpent ==
  \A q \in Run : wfOf[q] \in CancelsOnReply =>
    \/ lateSends[q] = 0
    \/ /\ lateSends[q] = 1
       /\ q \in replied
       /\ \A p \in Proc : pc[p] = "sending" => RunOf(p) # q

\* Who counts a late send, and that a recorded reply is never forgotten.
LEMMA LateSendsStep ==
  ASSUME [Next]_vars, TypeOK
  PROVE  /\ replied \subseteq replied'
         /\ UNCHANGED lateSends \/ \E p \in Proc : Send(p)
<1>1. ASSUME NEW p \in Proc, StepList(p)
      PROVE  UNCHANGED replied /\ (UNCHANGED lateSends \/ Send(p))
  BY <1>1 DEF StepList, Defer, Persist, PrepareSend, Send, RunAction, StepThrows, EndList,
     Complete, durable, history
<1>2. ASSUME NEW q \in Run, RunNext(q)
      PROVE  UNCHANGED <<replied, lateSends>>
  BY <1>2 DEF RunNext, Dispatch, CancelPendingForEntity, Unenrol, CheckEnrolled, durable, history
<1>3. ASSUME WorkerNext
      PROVE  UNCHANGED <<replied, lateSends>>
  BY <1>3 DEF WorkerNext, Resume, WriteGuard, Settle, SettleFails, Boot, Claim, durable, history
<1>4. ASSUME Environment
      PROVE  replied \subseteq replied' /\ UNCHANGED lateSends
  BY <1>4 DEF Environment, DelayElapses, StaleReclaim, TurnOff, CancelForWorkflow, TurnOn,
     Reply, CancelPendingJobsOnReply, Crash, durable, history
<1> QED BY <1>1, <1>2, <1>3, <1>4 DEF Next, vars, durable, history

LEMMA LateSendSpentStep ==
  ASSUME TypeOK, SendsAnEmail, ParkedRunsEnded, LateSendSpent, [Next]_vars
  PROVE  LateSendSpent'
<1> SUFFICES ASSUME NEW q \in Run, wfOf[q] \in CancelsOnReply
             PROVE  \/ lateSends'[q] = 0
                    \/ /\ lateSends'[q] = 1
                       /\ q \in replied'
                       /\ \A p \in Proc : pc'[p] = "sending" => RunOf(p)' # q
  BY DEF LateSendSpent
<1>1. ASSUME NEW p \in Proc, pc'[p] = "sending"
      PROVE  /\ RunOf(p)' = RunOf(p)
             /\ \/ pc[p] = "sending"
                \/ ~RepliedTo(RunOf(p)) /\ UNCHANGED <<lateSends, replied>>
  <2>1. CASE PrepareSend(p)
    <3>1. ~RepliedTo(RunOf(p)) /\ UNCHANGED <<lateSends, replied, job, cur>>
      BY <1>1, <2>1 DEF PrepareSend, Advance, Goto, TypeOK, MemoryOK, durable, history
    <3> QED BY <3>1 DEF RunOf
  <2>2. CASE p = Worker /\ Send(p)
    BY <1>1, <2>2 DEF Send, Goto, TypeOK, MemoryOK
  <2>3. CASE pc'[p] = pc[p] /\ (p = Worker => cur' = cur)
    BY <1>1, <2>3, RunOfRowKept DEF RunOf, TypeOK, MemoryOK, DurableOK
  <2> QED BY <1>1, <2>1, <2>2, <2>3, SendingStays
<1>2. CASE UNCHANGED lateSends
  BY <1>1, <1>2, LateSendsStep DEF LateSendSpent, RepliedTo
<1>3. CASE \E x \in Proc : Send(x)
  <2>1. PICK x \in Proc : Send(x)
    BY <1>3
  <2>2. RunOf(x) \in Run /\ pc[x] = "sending" /\ pc'[x] # "sending"
    BY <2>1, RunOfType DEF Send, Advance, Goto, TypeOK, MemoryOK
  <2>3. CASE RunOf(x) # q
    BY <1>1, <2>1, <2>2, <2>3, LateSendsStep DEF LateSendSpent, Send, RepliedTo, TypeOK, HistoryOK
  <2>4. CASE RunOf(x) = q
    <3>1. lateSends[q] = 0
      BY <2>2, <2>4 DEF LateSendSpent
    <3>2. \/ lateSends'[q] = 0
          \/ lateSends'[q] = 1 /\ q \in replied
      BY <2>1, <2>4, <3>1 DEF Send, RepliedTo, TypeOK, HistoryOK
    <3>3. \A p \in Proc : pc'[p] = "sending" => RunOf(p)' # q
      <4> SUFFICES ASSUME NEW p \in Proc, pc'[p] = "sending"
                   PROVE  RunOf(p)' # q
        OBVIOUS
      <4>1. pc[p] = "sending" /\ p # x
        BY <2>1, <2>2 DEF Send, Advance, Goto, TypeOK, MemoryOK
      <4> QED BY <1>1, <2>2, <2>4, <4>1, OneWalker
    <3> QED BY <3>2, <3>3, LateSendsStep
  <2> QED BY <2>3, <2>4
<1> QED BY <1>2, <1>3, LateSendsStep

\* After a reply is recorded, at most one more email leaves for the run: the
\* one whose reply check was already passed.
THEOREM AtMostOneLateSend == Spec => []OneLateSend
<1> DEFINE IInv == TypeOK /\ SendsAnEmail /\ ParkedRunsEnded /\ LateSendSpent
<1>1. Init => ParkedRunsEnded /\ LateSendSpent
  BY DEF Init, ParkedRunsEnded, LateSendSpent, Rows
<1>2. IInv /\ [Next]_vars => ParkedRunsEnded' /\ LateSendSpent'
  BY ParkedRunsEndedStep, LateSendSpentStep
<1>3. ParkedRunsEnded /\ LateSendSpent => OneLateSend
  BY DEF LateSendSpent, OneLateSend
<1> QED BY <1>1, <1>2, <1>3, InductiveTypes, PTL DEF Spec

-----------------------------------------------------------------------------
(* What a forced restart silences.                                         *)

\* A superseded run has ended, nobody works on its rows, and all are settled.
Silenced ==
  \A q \in superseded :
    /\ pc[q] \in RunEnded \ {"idle"}
    /\ cur \notin Rows(q)
    /\ \A r \in Rows(q) : status[r] \in Terminal

\* Where superseded grows.
LEMMA SupersededStep ==
  ASSUME [Next]_vars
  PROVE  UNCHANGED superseded \/ \E q \in Run : CancelPendingForEntity(q)
<1>1. ASSUME NEW p \in Proc, StepList(p)
      PROVE  UNCHANGED superseded
  BY <1>1 DEF StepList, Defer, Persist, PrepareSend, Send, RunAction, StepThrows, EndList,
     Complete, history
<1>2. ASSUME NEW q \in Run, RunNext(q)
      PROVE  UNCHANGED superseded \/ CancelPendingForEntity(q)
  BY <1>2 DEF RunNext, Dispatch, Unenrol, CheckEnrolled, history
<1>3. ASSUME WorkerNext
      PROVE  UNCHANGED superseded
  BY <1>3 DEF WorkerNext, Resume, WriteGuard, Settle, SettleFails, Boot, Claim, history
<1>4. ASSUME Environment
      PROVE  UNCHANGED superseded
  BY <1>4 DEF Environment, DelayElapses, StaleReclaim, TurnOff, CancelForWorkflow, TurnOn,
     Reply, CancelPendingJobsOnReply, Crash, history
<1> QED BY <1>1, <1>2, <1>3, <1>4 DEF Next, vars, history

\* The worker takes a row only by Claim, and drops it only to hold none.
LEMMA CurStep ==
  ASSUME [Next]_vars
  PROVE  cur' \in {cur, NoJob} \/ \E r \in JobId : Claim(r) /\ cur' = r
<1>1. ASSUME NEW p \in Proc, StepList(p)
      PROVE  cur' = cur
  BY <1>1 DEF StepList, Defer, Persist, PrepareSend, Send, RunAction, StepThrows, EndList, Complete
<1>2. ASSUME NEW q \in Run, RunNext(q)
      PROVE  cur' = cur
  BY <1>2 DEF RunNext, Dispatch, CancelPendingForEntity, Unenrol, CheckEnrolled
<1>3. ASSUME WorkerNext
      PROVE  cur' \in {cur, NoJob} \/ \E r \in JobId : Claim(r) /\ cur' = r
  BY <1>3 DEF WorkerNext, Resume, WriteGuard, Settle, SettleFails, Boot, Claim
<1>4. ASSUME Environment
      PROVE  cur' \in {cur, NoJob}
  BY <1>4 DEF Environment, DelayElapses, StaleReclaim, TurnOff, CancelForWorkflow, TurnOn,
     Reply, CancelPendingJobsOnReply, Crash, memory
<1> QED BY <1>1, <1>2, <1>3, <1>4 DEF Next, vars, memory

LEMMA SilencedStep ==
  ASSUME TypeOK, SendsAnEmail, Silenced, [Next]_vars
  PROVE  Silenced'
<1>1. ASSUME NEW q \in Run, pc[q] \in RunEnded \ {"idle"}, cur \notin Rows(q),
             \A r \in Rows(q) : status'[r] \in Terminal,
             \A r \in Rows(q) : status[r] \in Terminal \/ ~(\E x \in JobId : Claim(x))
      PROVE  /\ pc'[q] \in RunEnded \ {"idle"}
             /\ cur' \notin Rows(q)'
             /\ \A r \in Rows(q)' : status'[r] \in Terminal
  <2>1. Rows(q)' = Rows(q)
    <3>1. ASSUME NEW p \in Proc, Persist(p), RunOf(p) = q
          PROVE  FALSE
      <4>1. CASE p = Worker
        BY <1>1, <3>1, <4>1 DEF Persist, RunOf, Rows, TypeOK, MemoryOK, DurableOK
      <4>2. CASE p # Worker
        BY <1>1, <3>1, <4>2 DEF Persist, RunOf, RunEnded
      <4> QED BY <4>1, <4>2
    <3> QED BY <3>1, RowsStep
  <2>2. cur' \notin Rows(q)
    <3>1. ASSUME NEW r \in JobId, Claim(r), cur' = r
          PROVE  r \notin Rows(q)
      BY <1>1, <3>1 DEF Claim, Terminal
    <3>2. NoJob \notin Rows(q)
      BY QueueAssumption DEF Rows
    <3> QED BY <1>1, <3>1, <3>2, CurStep
  <2> QED BY <1>1, <2>1, <2>2, EndedStays
<1>2. ASSUME NEW q \in superseded
      PROVE  /\ pc'[q] \in RunEnded \ {"idle"}
             /\ cur' \notin Rows(q)'
             /\ \A r \in Rows(q)' : status'[r] \in Terminal
  <2>1. q \in Run
    BY DEF TypeOK, HistoryOK
  <2>2. \A r \in Rows(q) : status'[r] \in Terminal
    BY <1>2, SettledStays DEF Silenced, Rows
  <2> QED BY <1>1, <1>2, <2>1, <2>2 DEF Silenced
<1>3. CASE UNCHANGED superseded
  BY <1>2, <1>3 DEF Silenced
<1>4. CASE \E q \in Run : CancelPendingForEntity(q)
  <2>1. PICK q \in Run : CancelPendingForEntity(q)
    BY <1>4
  <2>2. ASSUME NEW x \in Run, recOf[x] = recOf[q], pc[x] # "idle", ~InFlight(x)
        PROVE  /\ pc'[x] \in RunEnded \ {"idle"}
               /\ cur' \notin Rows(x)'
               /\ \A r \in Rows(x)' : status'[r] \in Terminal
    <3>1. ~(\E y \in JobId : Claim(y))
      BY <2>1, QueueAssumption DEF CancelPendingForEntity, Claim, Goto, TypeOK, MemoryOK, Proc
    <3>2. \A r \in Rows(x) : status'[r] \in Terminal
      BY <2>1, <2>2 DEF CancelPendingForEntity, RestartCancels, RowsOf, Rows, SetStatus, InFlight,
         TypeOK, DurableOK, Status, Terminal
    <3> QED BY <1>1, <2>2, <3>1, <3>2 DEF InFlight
  <2> QED BY <1>2, <2>1, <2>2 DEF CancelPendingForEntity, Silenced
<1> QED BY <1>3, <1>4, SupersededStep

\* Steps take effect for the run of a process that is at work.
LEMMA RanStep ==
  ASSUME [Next]_vars
  PROVE  \/ UNCHANGED ran
         \/ \E p \in Proc : /\ pc[p] \in {"step", "sending"}
                            /\ ran' = [ran EXCEPT ![RunOf(p)][at[p]] = @ + 1]
<1>1. ASSUME NEW p \in Proc, StepList(p)
      PROVE  \/ UNCHANGED ran
             \/ /\ pc[p] \in {"step", "sending"}
                /\ ran' = [ran EXCEPT ![RunOf(p)][at[p]] = @ + 1]
  BY <1>1 DEF StepList, Defer, Persist, PrepareSend, Send, RunAction, StepThrows, EndList,
     Complete, history
<1>2. ASSUME NEW q \in Run, RunNext(q)
      PROVE  UNCHANGED ran
  BY <1>2 DEF RunNext, Dispatch, CancelPendingForEntity, Unenrol, CheckEnrolled, history
<1>3. ASSUME WorkerNext
      PROVE  UNCHANGED ran
  BY <1>3 DEF WorkerNext, Resume, WriteGuard, Settle, SettleFails, Boot, Claim, history
<1>4. ASSUME Environment
      PROVE  UNCHANGED ran
  BY <1>4 DEF Environment, DelayElapses, StaleReclaim, TurnOff, CancelForWorkflow, TurnOn,
     Reply, CancelPendingJobsOnReply, Crash, history
<1> QED BY <1>1, <1>2, <1>3, <1>4 DEF Next, vars, history

\* A run that a forced restart found with nothing in flight never acts again.
THEOREM SupersededRunsAreSilent == Spec => SupersededIsSilent
<1> DEFINE IInv == TypeOK /\ SendsAnEmail /\ Silenced
<1>1. Init => Silenced
  BY DEF Init, Silenced
<1>2. IInv /\ [Next]_vars => Silenced'
  BY SilencedStep
<1>3. IInv /\ [Next]_vars => [\A q \in superseded : ran'[q] = ran[q]]_vars
  <2> SUFFICES ASSUME IInv, [Next]_vars, NEW q \in superseded
               PROVE  ran'[q] = ran[q]
    OBVIOUS
  <2>1. q \in Run
    BY DEF TypeOK, HistoryOK
  <2>2. ASSUME NEW p \in Proc, pc[p] \in {"step", "sending"}
        PROVE  RunOf(p) # q /\ RunOf(p) \in Run
    <3>1. RunOf(p) \in Run
      BY <2>2, RunOfType
    <3>2. CASE p = Worker
      BY <2>2, <3>1, <3>2 DEF Silenced, RunOf, Rows, TypeOK, MemoryOK, DurableOK
    <3>3. CASE p # Worker
      BY <2>2, <3>1, <3>3 DEF Silenced, RunOf, RunEnded
    <3> QED BY <3>1, <3>2, <3>3
  <2> QED BY <2>1, <2>2, RanStep DEF TypeOK, HistoryOK
<1> QED BY <1>1, <1>2, <1>3, InductiveTypes, PTL DEF Spec, SupersededIsSilent

=============================================================================
