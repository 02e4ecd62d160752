------------------------- MODULE AutomationRunProofs -------------------------
(***************************************************************************)
(* DelayedJobQueue implements AutomationRun, for every value of its        *)
(* constants.  The mapping reads the performed steps off the counters of   *)
(* effects; that they take effect in order is not in those counters but in *)
(* the places of the processes and in the rows, and InOrder relates them.  *)
(* The second part proves what DelayedJobQueue promises in numbers.        *)
(***************************************************************************)
EXTENDS DelayedJobQueueProofs, FiniteSetTheorems

Walking == {"step", "persist", "sending", "sent", "ended"}
Starts  == {"idle", "restart", "unenrol", "enrol"}

\* The steps of q before the n-th have taken effect.
Passed(q, n) == \A j \in Effects[q] : j < n => ran[q][j] > 0

\* The worker stands in the stretch of steps that its row began: from the first
\* step of the row to where it stands, no other step parks the run.
OnRow ==
  LET first == job[cur].next
  IN  /\ first <= at[Worker]
      /\ \A k \in first+1 .. at[Worker]-1 : ~Separates(Steps(Worker)[k])
      /\ stripped[Worker] => at[Worker] = first
      /\ pc[Worker] \in {"sending", "sent"} =>
           at[Worker] = first \/ ~Separates(StepOf(Worker))

WalkerOK(p) ==
  /\ pc[p] \in Walking => Passed(RunOf(p), at[p])
  /\ pc[p] = "persist" => ~AtEnd(p) /\ Parks(p)
  /\ pc[p] = "sent" => ran[RunOf(p)][at[p]] > 0
  /\ pc[p] = "ended" => AtEnd(p) \/ wfOf[RunOf(p)] \in Once
  /\ p \in Run /\ pc[p] \in Starts => at[p] = 1
  /\ p = Worker /\ pc[p] \in Walking \ {"ended"} => OnRow

\* The guard of a row was written by an email of the stretch the row begins.
GuardTold(r) ==
  LET q == job[r].run
      script == Script[wfOf[q]]
  IN  \E i \in Effects[q] :
        /\ job[r].next <= i /\ ran[q][i] > 0
        /\ script[i].kind = "email" /\ script[i].tpl = job[r].guard
        /\ \A k \in job[r].next+1 .. i : ~Separates(script[k])

RowOK(r) ==
  job[r] # NoJob =>
    /\ Passed(job[r].run, job[r].next)
    /\ job[r].guard # NoGuard => GuardTold(r)

\* What the refinement adds to the types.
InOrder == (\A p \in Proc : WalkerOK(p)) /\ (\A r \in JobId : RowOK(r))

-----------------------------------------------------------------------------
\* No step takes an effect back.
Grows == \A q \in Run, i \in StepIndex : ran[q][i] > 0 => ran'[q][i] > 0

LEMMA RanGrows ==
  ASSUME TypeOK, [Next]_vars
  PROVE  Grows
<1>1. CASE UNCHANGED ran
  BY <1>1 DEF Grows
<1>2. ASSUME NEW p \in Proc, pc[p] \in {"step", "sending"},
             ran' = [ran EXCEPT ![RunOf(p)][at[p]] = @ + 1]
      PROVE  Grows
  <2>1. RunOf(p) \in Run /\ ran \in [Run -> [StepIndex -> Nat]]
    BY <1>2, RunOfType DEF TypeOK, HistoryOK
  <2>2. ASSUME NEW q \in Run, NEW i \in StepIndex, ran[q][i] > 0
        PROVE  ran'[q][i] > 0
    <3>1. ran[q][i] \in Nat
      BY <2>1
    <3> QED BY <1>2, <2>1, <2>2, <3>1
  <2> QED BY <2>2 DEF Grows
<1> QED BY <1>1, <1>2, RanStep

LEMMA PassedStays ==
  ASSUME Grows, NEW q \in Run, NEW n, Passed(q, n)
  PROVE  Passed(q, n)'
<1>1. \A j \in Effects[q] : j \in StepIndex
  <2>1. Script[wfOf[q]] \in Seq(Step) /\ Len(Script[wfOf[q]]) <= MaxSteps
    BY QueueAssumption
  <2> QED BY <2>1, QueueAssumption DEF Effects, StepIndex
<1> QED BY <1>1 DEF Passed, Grows

\* The step a process stands at, in the words of the assumption on scripts.
LEMMA StepFacts ==
  ASSUME TypeOK, NEW p \in Proc, p = Worker => pc[p] \notin {"down", "idle"}, ~AtEnd(p)
  PROVE  /\ RunOf(p) \in Run /\ at[p] \in StepIndex
         /\ at[p] \in 1..Len(Script[wfOf[RunOf(p)]])
         /\ StepOf(p) = Script[wfOf[RunOf(p)]][at[p]] /\ StepOf(p) \in Step
         /\ at[p] \in Effects[RunOf(p)] <=> StepOf(p).kind # "delay"
<1>1. RunOf(p) \in Run
  BY RunOfType
<1>2. Script[wfOf[RunOf(p)]] \in Seq(Step) /\ Len(Script[wfOf[RunOf(p)]]) <= MaxSteps
  BY <1>1, QueueAssumption
<1>3. at[p] \in 1..Len(Script[wfOf[RunOf(p)]])
  BY <1>2 DEF AtEnd, Steps, TypeOK, MemoryOK
<1>4. StepOf(p) = Script[wfOf[RunOf(p)]][at[p]]
  BY DEF StepOf, Steps
<1> QED BY <1>1, <1>2, <1>3, <1>4, QueueAssumption DEF StepIndex, Effects

\* A process that has gone through the step it stands at has passed it.
LEMMA PassedOn ==
  ASSUME TypeOK, NEW p \in Proc, p = Worker => pc[p] \notin {"down", "idle"}, ~AtEnd(p),
         Passed(RunOf(p), at[p]),
         StepOf(p).kind # "delay" => ran[RunOf(p)][at[p]] > 0
  PROVE  Passed(RunOf(p), at[p] + 1)
<1>1. at[p] \in Nat /\ RunOf(p) \in Run
  BY StepFacts DEF StepIndex
<1>2. \A j \in Effects[RunOf(p)] : j \in Nat
  BY <1>1 DEF Effects
<1>3. \A j \in Effects[RunOf(p)] : j < at[p] + 1 => j < at[p] \/ j = at[p]
  BY <1>1, <1>2
<1> QED BY <1>1, <1>3, StepFacts DEF Passed

\* At the end of its script a run has passed all its steps.
LEMMA PassedAll ==
  ASSUME TypeOK, NEW p \in Proc, p = Worker => pc[p] \notin {"down", "idle"}, AtEnd(p),
         Passed(RunOf(p), at[p])
  PROVE  \A j \in Effects[RunOf(p)] : ran[RunOf(p)][j] > 0
<1>1. RunOf(p) \in Run /\ at[p] \in Nat
  BY RunOfType DEF TypeOK, MemoryOK
<1>2. Script[wfOf[RunOf(p)]] \in Seq(Step)
  BY <1>1, QueueAssumption
<1>3. \A j \in Effects[RunOf(p)] : j < at[p]
  BY <1>1, <1>2 DEF Effects, AtEnd, Steps
<1> QED BY <1>3 DEF Passed

-----------------------------------------------------------------------------
\* The rows: what they remember stays true, and what is written to them is.

LEMMA GuardToldStays ==
  ASSUME TypeOK, Grows, NEW r \in JobId, job[r] # NoJob, GuardTold(r), job'[r] = job[r]
  PROVE  GuardTold(r)'
<1>1. job[r].run \in Run
  BY DEF TypeOK, DurableOK, Row
<1>2. \A i \in Effects[job[r].run] : i \in StepIndex
  <2>1. Script[wfOf[job[r].run]] \in Seq(Step) /\ Len(Script[wfOf[job[r].run]]) <= MaxSteps
    BY <1>1, QueueAssumption
  <2> QED BY <1>1, <2>1, QueueAssumption DEF Effects, StepIndex
<1> QED BY <1>1, <1>2 DEF GuardTold, Grows

LEMMA RowStays ==
  ASSUME TypeOK, Grows, NEW r \in JobId, RowOK(r), job'[r] = job[r]
  PROVE  RowOK(r)'
<1>1. CASE job[r] = NoJob
  BY <1>1 DEF RowOK
<1>2. CASE job[r] # NoJob
  <2>1. job[r].run \in Run
    BY <1>2 DEF TypeOK, DurableOK, Row
  <2>2. Passed(job[r].run, job[r].next)'
    BY <1>2, <2>1, PassedStays DEF RowOK
  <2>3. job'[r].guard # NoGuard => GuardTold(r)'
    BY <1>2, GuardToldStays DEF RowOK
  <2> QED BY <2>2, <2>3 DEF RowOK
<1> QED BY <1>1, <1>2

\* A parked row starts behind a delay, or at the email whose jitter it serves.
LEMMA ParkedRowOK ==
  ASSUME TypeOK, InOrder, Grows, NEW p \in Proc, Persist(p), NEW r \in JobId
  PROVE  RowOK(r)'
<1>1. PICK x \in JobId :
        /\ status[x] = "free"
        /\ job' = [job EXCEPT ![x] =
             [run      |-> RunOf(p),
              next     |-> IF StepOf(p).kind = "delay" THEN at[p] + 1 ELSE at[p],
              stripped |-> StepOf(p).kind = "email",
              guard    |-> NoGuard]]
  BY DEF Persist
<1>2. job \in [JobId -> Row \cup {NoJob}]
  BY DEF TypeOK, DurableOK
<1>3. CASE r # x
  <2>1. job'[r] = job[r]
    BY <1>1, <1>2, <1>3
  <2> QED BY <2>1, RowStays DEF InOrder
<1>4. CASE r = x
  <2>1. /\ pc[p] = "persist" /\ ~AtEnd(p) /\ RunOf(p) \in Run
        /\ Passed(RunOf(p), at[p]) /\ at[p] \in Nat
    BY StepFacts DEF Persist, InOrder, WalkerOK, Walking, StepIndex
  <2>2. PICK q \in Run, n \in Nat :
          /\ q = RunOf(p)
          /\ n = IF StepOf(p).kind = "delay" THEN at[p] + 1 ELSE at[p]
    BY <2>1
  <2>3. Passed(q, n)
    BY <2>1, <2>2, PassedOn DEF Persist
  <2>4. job'[r].run = q /\ job'[r].next = n /\ job'[r].guard = NoGuard
    BY <1>1, <1>2, <1>4, <2>2
  <2>5. Passed(job[r].run, job[r].next)'
    BY <2>3, <2>4, PassedStays DEF Passed
  <2> QED BY <2>4, <2>5 DEF RowOK
<1> QED BY <1>3, <1>4

\* The guard that is written tells of the email that has just been sent.
LEMMA GuardedRowOK ==
  ASSUME TypeOK, SendsAnEmail, InOrder, Grows, WriteGuard, NEW r \in JobId
  PROVE  RowOK(r)'
<1>0. Worker \in Proc
  BY DEF Proc
<1>1. PICK g \in {StepOf(Worker).tpl, NoGuard} : job' = [job EXCEPT ![cur].guard = g]
  BY DEF WriteGuard
<1>2. /\ job \in [JobId -> Row \cup {NoJob}]
      /\ cur \in JobId /\ job[cur] \in Row /\ job[cur] # NoJob
  BY QueueAssumption DEF WriteGuard, TypeOK, MemoryOK, DurableOK
<1>3. CASE r # cur
  <2>1. job'[r] = job[r]
    BY <1>1, <1>2, <1>3
  <2> QED BY <2>1, RowStays DEF InOrder
<1>4. CASE r = cur
  <2>1. /\ job'[r].run = job[r].run /\ job'[r].next = job[r].next /\ job'[r].guard = g
        /\ job[r].run \in Run /\ job[r].next \in Nat /\ RunOf(Worker) = job[r].run
    BY <1>1, <1>2, <1>4 DEF Row, RunOf
  <2>2. PICK q \in Run, n \in Nat : q = job[r].run /\ n = job[r].next /\ Passed(q, n)
    BY <1>2, <1>4, <2>1 DEF InOrder, RowOK
  <2>3. Passed(job[r].run, job[r].next)'
    BY <2>1, <2>2, PassedStays DEF Passed
  <2>4. ASSUME g # NoGuard
        PROVE  GuardTold(r)'
    <3> DEFINE i == at[Worker]
    <3>1. /\ ~AtEnd(Worker) /\ StepOf(Worker).kind = "email" /\ ran[q][i] > 0
          /\ g = StepOf(Worker).tpl /\ UNCHANGED ran
      BY <1>0, <1>1, <2>1, <2>2, <2>4 DEF WriteGuard, SendsAnEmail, InOrder, WalkerOK, history
    <3>2. /\ i \in Effects[q] /\ i \in Nat
          /\ StepOf(Worker) = Script[wfOf[q]][i] /\ Steps(Worker) = Script[wfOf[q]]
      BY <1>0, <2>1, <2>2, <3>1, StepFacts DEF WriteGuard, StepIndex, Steps
    <3>3. /\ n <= i
          /\ \A k \in n+1 .. i-1 : ~Separates(Script[wfOf[q]][k])
          /\ i = n \/ ~Separates(Script[wfOf[q]][i])
      BY <1>0, <1>4, <2>2, <3>2 DEF WriteGuard, InOrder, WalkerOK, Walking, OnRow
    <3>4. \A k \in n+1 .. i : ~Separates(Script[wfOf[q]][k])
      <4>1. \A k \in n+1 .. i : k \in n+1 .. i-1 \/ (k = i /\ i # n)
        BY <2>2, <3>2
      <4> QED BY <3>3, <4>1
    <3>5. PICK x : x = i
      OBVIOUS
    <3>6. /\ x \in Effects[q] /\ n <= x /\ ran'[q][x] > 0
          /\ Script[wfOf[q]][x].kind = "email" /\ Script[wfOf[q]][x].tpl = g
          /\ \A k \in n+1 .. x : ~Separates(Script[wfOf[q]][k])
      BY <3>1, <3>2, <3>3, <3>4, <3>5
    <3> QED BY <2>1, <2>2, <3>6 DEF GuardTold
  <2> QED BY <2>1, <2>3, <2>4 DEF RowOK
<1> QED BY <1>3, <1>4

LEMMA RowsInOrder ==
  ASSUME TypeOK, SendsAnEmail, InOrder, [Next]_vars, NEW r \in JobId
  PROVE  RowOK(r)'
<1>1. Grows
  BY RanGrows
<1>2. ASSUME UNCHANGED job
      PROVE  RowOK(r)'
  BY <1>1, <1>2, RowStays DEF InOrder
<1> QED BY <1>1, <1>2, ParkedRowOK, GuardedRowOK, JobStep

-----------------------------------------------------------------------------
\* The processes: those that stay, those that stop, and those that move on.

\* What a row carries on never changes.
LEMMA RowKept ==
  ASSUME TypeOK, SendsAnEmail, [Next]_vars, NEW r \in JobId, job[r] # NoJob
  PROVE  job'[r].run = job[r].run /\ job'[r].next = job[r].next
<1>1. CASE \E p \in Proc : Persist(p)
  BY <1>1 DEF Persist, TypeOK, DurableOK
<1>2. CASE WriteGuard
  <2>1. PICK g : job' = [job EXCEPT ![cur].guard = g]
    BY <1>2 DEF WriteGuard
  <2>2. job \in [JobId -> Row \cup {NoJob}] /\ job[r] \in Row
    BY DEF TypeOK, DurableOK
  <2> QED BY <2>1, <2>2 DEF Row
<1> QED BY <1>1, <1>2, JobStep

\* A process that is at work on the same row works for the same run.
LEMMA RunOfKept ==
  ASSUME TypeOK, SendsAnEmail, [Next]_vars, NEW p \in Proc,
         p = Worker => pc[p] \notin {"down", "idle"} /\ cur' = cur
  PROVE  /\ RunOf(p)' = RunOf(p) /\ Steps(p)' = Steps(p)
         /\ p = Worker => job'[cur].next = job[cur].next
<1>1. p = Worker => cur \in JobId /\ job[cur] # NoJob
  BY DEF TypeOK, MemoryOK, DurableOK
<1> QED BY <1>1, RowKept DEF RunOf, Steps

StaysPut(p) ==
  /\ UNCHANGED <<pc[p], at[p], stripped[p]>>
  /\ p = Worker => cur' = cur

LEMMA WalkerStays ==
  ASSUME TypeOK, SendsAnEmail, InOrder, [Next]_vars, NEW p \in Proc, StaysPut(p)
  PROVE  WalkerOK(p)'
<1>0. WalkerOK(p) /\ Grows
  BY RanGrows DEF InOrder
<1>1. CASE p = Worker /\ pc[p] \in {"down", "idle"}
  BY <1>1, QueueAssumption DEF StaysPut, WalkerOK, Walking
<1>2. CASE ~(p = Worker /\ pc[p] \in {"down", "idle"})
  <2>1. /\ RunOf(p)' = RunOf(p) /\ Steps(p)' = Steps(p)
        /\ p = Worker => job'[cur].next = job[cur].next
    BY <1>2, RunOfKept DEF StaysPut
  <2>2. AtEnd(p)' = AtEnd(p) /\ StepOf(p)' = StepOf(p) /\ Parks(p)' = Parks(p)
    BY <2>1 DEF StaysPut, AtEnd, StepOf, Parks
  <2>3. PICK q \in Run, n \in Nat : q = RunOf(p) /\ n = at[p]
    BY <1>2, RunOfType DEF TypeOK, MemoryOK
  <2>4. pc[p] \in Walking => Passed(RunOf(p), at[p])'
    <3>1. pc[p] \in Walking => Passed(q, n) /\ Passed(q, n)'
      BY <1>0, <2>3, PassedStays DEF WalkerOK
    <3> QED BY <2>1, <2>3, <3>1 DEF StaysPut, Passed
  <2>5. pc[p] = "sent" => ran'[q][n] > 0
    <3>1. pc[p] = "sent" => n \in StepIndex /\ ran[q][n] > 0
      BY <1>0, <2>3, StepFacts DEF WalkerOK, SendsAnEmail
    <3> QED BY <1>0, <3>1 DEF Grows
  <2>6. p = Worker /\ pc[p] \in Walking \ {"ended"} => OnRow'
    BY <1>0, <2>1, <2>2 DEF StaysPut, WalkerOK, OnRow
  <2> QED BY <1>0, <2>1, <2>2, <2>3, <2>4, <2>5, <2>6 DEF StaysPut, WalkerOK
<1> QED BY <1>1, <1>2

\* A process that stops walking, or has not started, has nothing to answer for.
Stops(p) == /\ pc'[p] \notin Walking
            /\ p \in Run /\ pc'[p] \in Starts => pc[p] \in Starts /\ at'[p] = at[p]

LEMMA WalkerStops ==
  ASSUME InOrder, NEW p \in Proc, Stops(p)
  PROVE  WalkerOK(p)'
BY QueueAssumption DEF Stops, InOrder, WalkerOK, Walking

\* The steps that move no process on, or only out of the step list.
LEMMA OthersAreCalm ==
  ASSUME TypeOK, Next, NEW p \in Proc
  PROVE  StaysPut(p) \/ Stops(p) \/ StepList(p)
         \/ (p \in Run /\ CheckEnrolled(p))
         \/ (p = Worker /\ (Resume \/ WriteGuard))
<1> USE QueueAssumption DEF TypeOK, MemoryOK, Proc, Goto, StaysPut
<1>1. ASSUME NEW x \in Proc, StepList(x), x # p
      PROVE  StaysPut(p)
  BY <1>1 DEF StepList, Defer, Persist, PrepareSend, Send, RunAction, StepThrows, EndList,
     Complete, Advance
<1>2. ASSUME NEW q \in Run, RunNext(q)
      PROVE  StaysPut(p) \/ Stops(p) \/ (p \in Run /\ CheckEnrolled(p))
  <2>1. CASE q # p
    BY <1>2, <2>1 DEF RunNext, Dispatch, CancelPendingForEntity, Unenrol, CheckEnrolled
  <2>2. CASE q = p
    BY <1>2, <2>2 DEF RunNext, Dispatch, CancelPendingForEntity, Unenrol, Stops, Starts, Walking
  <2> QED BY <2>1, <2>2
<1>3. ASSUME WorkerNext
      PROVE  StaysPut(p) \/ Stops(p) \/ (p = Worker /\ (Resume \/ WriteGuard))
  <2>1. CASE p # Worker
    BY <1>3, <2>1 DEF WorkerNext, Resume, WriteGuard, Settle, SettleFails, Boot, Claim, Advance
  <2>2. CASE p = Worker
    BY <1>3, <2>2 DEF WorkerNext, Settle, SettleFails, Boot, Claim, Stops, Walking
  <2> QED BY <2>1, <2>2
<1>4. ASSUME Environment
      PROVE  StaysPut(p) \/ Stops(p)
  <2>1. CASE Crash
    BY <2>1 DEF Crash, Stops, Starts, Walking, RunEnded
  <2>2. CASE ~Crash
    BY <1>4, <2>2 DEF Environment, DelayElapses, StaleReclaim, TurnOff, CancelForWorkflow, TurnOn,
       Reply, CancelPendingJobsOnReply, memory
  <2> QED BY <2>1, <2>2
<1> QED BY <1>1, <1>2, <1>3, <1>4 DEF Next

\* Where a process stays at its step, so does what it has passed.
LEMMA SameStep ==
  ASSUME TypeOK, SendsAnEmail, InOrder, [Next]_vars, NEW p \in Proc, pc[p] \in Walking,
         UNCHANGED <<at[p], stripped[p]>>, p = Worker => cur' = cur
  PROVE  /\ Passed(RunOf(p), at[p])' /\ RunOf(p)' = RunOf(p)
         /\ AtEnd(p)' = AtEnd(p) /\ StepOf(p)' = StepOf(p) /\ Parks(p)' = Parks(p)
         /\ Steps(p)' = Steps(p) /\ (p = Worker => job'[cur].next = job[cur].next)
<1>1. p = Worker => pc[p] \notin {"down", "idle"}
  BY DEF Walking
<1>2. /\ RunOf(p)' = RunOf(p) /\ Steps(p)' = Steps(p)
      /\ p = Worker => job'[cur].next = job[cur].next
  BY <1>1, RunOfKept
<1>3. AtEnd(p)' = AtEnd(p) /\ StepOf(p)' = StepOf(p) /\ Parks(p)' = Parks(p)
  BY <1>2 DEF AtEnd, StepOf, Parks
<1>4. PICK q \in Run, n \in Nat : q = RunOf(p) /\ n = at[p]
  BY <1>1, RunOfType DEF TypeOK, MemoryOK
<1>5. Passed(q, n)'
  BY <1>4, RanGrows, PassedStays DEF InOrder, WalkerOK
<1> QED BY <1>2, <1>3, <1>4, <1>5 DEF Passed

\* A process moves on to the next step when this one has taken effect.
LEMMA NextStep ==
  ASSUME TypeOK, SendsAnEmail, InOrder, [Next]_vars, NEW p \in Proc, Advance(p), cur' = cur,
         pc[p] \in {"step", "sending", "sent"}, ~AtEnd(p),
         StepOf(p).kind # "delay" => ran'[RunOf(p)][at[p]] > 0,
         p = Worker => at[p] = job[cur].next \/ ~Separates(StepOf(p))
  PROVE  WalkerOK(p)'
<1>1. /\ pc'[p] = "step" /\ at'[p] = at[p] + 1 /\ ~stripped'[p] /\ at[p] \in Nat
  BY DEF Advance, Goto, TypeOK, MemoryOK
<1>2. /\ RunOf(p)' = RunOf(p) /\ Steps(p)' = Steps(p)
      /\ p = Worker => job'[cur].next = job[cur].next
  BY RunOfKept
<1>3. PICK q \in Run, n \in Nat : q = RunOf(p) /\ n = at[p]
  BY RunOfType, <1>1
<1>4. Passed(q, n)'
  BY <1>3, RanGrows, PassedStays DEF InOrder, WalkerOK, Walking
<1>5. Passed(q, n + 1)'
  <2>1. \A j \in Effects[q] : j \in Nat /\ (j < n + 1 => j < n \/ j = n)
    BY <1>3 DEF Effects
  <2>2. n \in Effects[q] => ran'[q][n] > 0
    BY <1>3, StepFacts
  <2> QED BY <1>4, <2>1, <2>2 DEF Passed
<1>6. Passed(RunOf(p), at[p])'
  BY <1>1, <1>2, <1>3, <1>5 DEF Passed
<1>7. p = Worker => OnRow'
  <2> SUFFICES ASSUME p = Worker PROVE OnRow'
    OBVIOUS
  <2>1. OnRow /\ StepOf(p) = Steps(p)[n]
    BY <1>3 DEF InOrder, WalkerOK, Walking, StepOf
  <2>2. job[cur].next \in Nat
    BY DEF TypeOK, MemoryOK, DurableOK, Row
  <2>3. \A k \in job[cur].next+1 .. n : k \in job[cur].next+1 .. n-1 \/ (k = n /\ k # job[cur].next)
    BY <1>3, <2>2
  <2>4. \A k \in job[cur].next+1 .. n : ~Separates(Steps(Worker)[k])
    BY <1>3, <2>1, <2>3 DEF OnRow
  <2>5. (n + 1) - 1 = n /\ job[cur].next <= n + 1
    BY <1>3, <2>1, <2>2 DEF OnRow
  <2> QED BY <1>1, <1>2, <1>3, <2>4, <2>5 DEF OnRow
<1> QED BY <1>1, <1>6, <1>7 DEF WalkerOK, Starts

\* The send guard that turns the worker away was written by this very step: the
\* row names one email of its stretch only by this template.
LEMMA GuardMatches ==
  ASSUME TypeOK, ScriptsRearm, InOrder, AtEmail(Worker), AlreadySent(Worker)
  PROVE  ran[RunOf(Worker)][at[Worker]] > 0
<1>0. Worker \in Proc /\ pc[Worker] = "step" /\ ~AtEnd(Worker)
  BY DEF Proc, AtEmail
<1>1. /\ RunOf(Worker) \in Run /\ StepOf(Worker) \in Step
      /\ at[Worker] \in 1..Len(Script[wfOf[RunOf(Worker)]])
      /\ StepOf(Worker) = Script[wfOf[RunOf(Worker)]][at[Worker]]
  BY <1>0, StepFacts
<1>2. /\ cur \in JobId /\ job[cur] \in Row /\ job[cur] # NoJob /\ RunOf(Worker) = job[cur].run
  BY <1>0, QueueAssumption DEF TypeOK, MemoryOK, DurableOK, RunOf
<1>3. StepOf(Worker).kind = "email" /\ StepOf(Worker).tpl \in Template /\ ~Parks(Worker)
  BY <1>1, EmailStepTemplate DEF AtEmail
<1>4. job[cur].guard # NoGuard /\ job[cur].guard = StepOf(Worker).tpl
  BY <1>3, QueueAssumption DEF AlreadySent
<1> DEFINE script == Script[wfOf[RunOf(Worker)]]
           first == job[cur].next
           n == at[Worker]
<1>5. PICK i \in Effects[RunOf(Worker)] :
        /\ first <= i /\ ran[RunOf(Worker)][i] > 0
        /\ script[i].kind = "email" /\ script[i].tpl = StepOf(Worker).tpl
        /\ \A k \in first+1 .. i : ~Separates(script[k])
  BY <1>2, <1>4 DEF InOrder, RowOK, GuardTold
<1>6. /\ i \in 1..Len(script) /\ n \in 1..Len(script) /\ first \in Nat /\ Len(script) \in Nat
      /\ StepOf(Worker) = script[n] /\ RunOf(Worker) \in Run
  <2>1. Script[wfOf[RunOf(Worker)]] \in Seq(Step)
    BY <1>1, QueueAssumption
  <2> QED BY <1>1, <1>2, <2>1 DEF Row, Effects
<1>7. /\ first <= n
      /\ \A k \in first+1 .. n-1 : ~Separates(script[k])
      /\ n = first \/ ~Separates(script[n])
  BY <1>0, <1>1, <1>3 DEF InOrder, WalkerOK, Walking, OnRow, Steps, Parks, Separates
<1>8. wfOf[RunOf(Worker)] \in Workflow
  BY <1>1, QueueAssumption
<1>9. ASSUME n < i PROVE FALSE
  <2>1. PICK k \in n+1..i : Separates(script[k])
    BY <1>3, <1>5, <1>6, <1>8, <1>9 DEF ScriptsRearm
  <2>2. k \in first+1 .. i
    BY <1>6, <1>7, <2>1
  <2> QED BY <1>5, <2>1, <2>2
<1>10. ASSUME i < n PROVE FALSE
  <2>1. PICK k \in i+1..n : Separates(script[k])
    BY <1>3, <1>5, <1>6, <1>8, <1>10 DEF ScriptsRearm
  <2>2. k \in first+1 .. n-1 \/ (k = n /\ n # first)
    BY <1>5, <1>6, <1>10, <2>1
  <2> QED BY <1>7, <2>1, <2>2
<1>11. i = n
  BY <1>6, <1>9, <1>10
<1> QED BY <1>5, <1>11

-----------------------------------------------------------------------------
\* The steps of the list.

\* The counter of the step at hand, after its effect.
LEMMA EffectTaken ==
  ASSUME TypeOK, NEW p \in Proc, p = Worker => pc[p] \notin {"down", "idle"}, ~AtEnd(p),
         ran' = [ran EXCEPT ![RunOf(p)][at[p]] = @ + 1]
  PROVE  ran'[RunOf(p)][at[p]] > 0
<1>1. RunOf(p) \in Run /\ at[p] \in StepIndex
  BY StepFacts
<1>2. ran \in [Run -> [StepIndex -> Nat]]
  BY DEF TypeOK, HistoryOK
<1>3. ran[RunOf(p)][at[p]] \in Nat /\ ran'[RunOf(p)][at[p]] = ran[RunOf(p)][at[p]] + 1
  BY <1>1, <1>2
<1> QED BY <1>3

\* An email that does not park the run is the first of the row or no separator.
LEMMA EmailStays ==
  ASSUME InOrder, AtEmail(Worker)
  PROVE  at[Worker] = job[cur].next \/ ~Separates(StepOf(Worker))
BY DEF InOrder, WalkerOK, Walking, OnRow, AtEmail, Parks, Separates, Proc

LEMMA StepListWalks ==
  ASSUME TypeOK, SendsAnEmail, ScriptsRearm, InOrder, [Next]_vars, NEW p \in Proc, StepList(p)
  PROVE  WalkerOK(p)'
<1>0. WalkerOK(p)
  BY DEF InOrder
<1>1. CASE Defer(p)
  <2>1. /\ pc[p] = "step" /\ ~AtEnd(p) /\ Parks(p)
        /\ UNCHANGED <<at[p], stripped[p], cur>>
        /\ \/ pc'[p] = "persist"
           \/ pc'[p] = "ended" /\ wfOf[RunOf(p)] \in Once
    BY <1>1 DEF Defer, Goto, TypeOK, MemoryOK
  <2>2. /\ Passed(RunOf(p), at[p])' /\ RunOf(p)' = RunOf(p)
        /\ AtEnd(p)' = AtEnd(p) /\ Parks(p)' = Parks(p)
        /\ Steps(p)' = Steps(p) /\ (p = Worker => job'[cur].next = job[cur].next)
    BY <2>1, SameStep DEF Walking
  <2>3. p = Worker /\ pc'[p] = "persist" => OnRow'
    BY <1>0, <2>1, <2>2 DEF WalkerOK, Walking, OnRow
  <2> QED BY <2>1, <2>2, <2>3 DEF WalkerOK, Walking, Starts
<1>2. CASE Persist(p)
  <2>1. Stops(p)
    BY <1>2 DEF Persist, Goto, Stops, Walking, Starts, TypeOK, MemoryOK
  <2> QED BY <2>1, WalkerStops
<1>3. CASE PrepareSend(p)
  <2>1. AtEmail(p) /\ pc[p] = "step" /\ ~AtEnd(p) /\ cur' = cur /\ UNCHANGED ran
    BY <1>3 DEF PrepareSend, AtEmail, history
  <2>2. CASE Goto(p, "cancelled")
    <3>1. Stops(p)
      BY <2>2 DEF Goto, Stops, Walking, Starts, TypeOK, MemoryOK
    <3> QED BY <3>1, WalkerStops
  <2>3. CASE AlreadySent(p) /\ Advance(p)
    <3>1. p = Worker
      BY <2>3 DEF AlreadySent
    <3> QED BY <2>1, <2>3, <3>1, GuardMatches, EmailStays, NextStep
  <2>4. CASE Goto(p, "sending") /\ UNCHANGED <<at, stripped>>
    <3>1. pc'[p] = "sending"
      BY <2>4 DEF Goto, TypeOK, MemoryOK
    <3>2. /\ Passed(RunOf(p), at[p])' /\ Steps(p)' = Steps(p) /\ StepOf(p)' = StepOf(p)
          /\ p = Worker => job'[cur].next = job[cur].next
      BY <2>1, <2>4, SameStep DEF Walking
    <3>3. p = Worker => OnRow'
      BY <1>0, <2>1, <2>4, <3>1, <3>2, EmailStays DEF WalkerOK, Walking, OnRow
    <3> QED BY <3>1, <3>2, <3>3 DEF WalkerOK, Walking, Starts
  <2> QED BY <1>3, <2>2, <2>3, <2>4 DEF PrepareSend
<1>4. CASE Send(p)
  <2>1. /\ pc[p] = "sending" /\ ~AtEnd(p) /\ cur' = cur
        /\ ran' = [ran EXCEPT ![RunOf(p)][at[p]] = @ + 1]
    BY <1>4 DEF Send, SendsAnEmail
  <2>2. ran'[RunOf(p)][at[p]] > 0
    BY <2>1, EffectTaken
  <2>3. CASE p # Worker
    BY <1>4, <2>1, <2>2, <2>3, NextStep DEF Send
  <2>4. CASE p = Worker
    <3>1. pc'[p] = "sent" /\ UNCHANGED <<at, stripped>>
      BY <1>4, <2>4 DEF Send, Goto, TypeOK, MemoryOK
    <3>2. /\ Passed(RunOf(p), at[p])' /\ RunOf(p)' = RunOf(p)
          /\ Steps(p)' = Steps(p) /\ StepOf(p)' = StepOf(p)
          /\ job'[cur].next = job[cur].next
      BY <2>1, <2>4, <3>1, SameStep DEF Walking
    <3>3. OnRow'
      BY <1>0, <2>1, <2>4, <3>1, <3>2 DEF WalkerOK, Walking, OnRow
    <3> QED BY <2>2, <2>4, <3>1, <3>2, <3>3, QueueAssumption DEF WalkerOK, Walking, Starts
  <2> QED BY <2>3, <2>4
<1>5. CASE RunAction(p)
  <2>1. /\ pc[p] = "step" /\ ~AtEnd(p) /\ cur' = cur /\ Advance(p) /\ ~Separates(StepOf(p))
        /\ ran' = [ran EXCEPT ![RunOf(p)][at[p]] = @ + 1]
    BY <1>5 DEF RunAction, Separates
  <2>2. ran'[RunOf(p)][at[p]] > 0
    BY <2>1, EffectTaken
  <2> QED BY <2>1, <2>2, NextStep
<1>6. CASE StepThrows(p)
  <2>1. Stops(p)
    BY <1>6 DEF StepThrows, Goto, Stops, Walking, Starts, TypeOK, MemoryOK
  <2> QED BY <2>1, WalkerStops
<1>7. CASE EndList(p)
  <2>1. /\ pc[p] = "step" /\ AtEnd(p) /\ pc'[p] = "ended"
        /\ UNCHANGED <<at[p], stripped[p], cur>>
    BY <1>7 DEF EndList, Goto, TypeOK, MemoryOK
  <2>2. Passed(RunOf(p), at[p])' /\ AtEnd(p)' = AtEnd(p)
    BY <2>1, SameStep DEF Walking
  <2> QED BY <2>1, <2>2 DEF WalkerOK, Walking, Starts
<1>8. CASE Complete(p)
  <2>1. Stops(p)
    BY <1>8 DEF Complete, Goto, Stops, Walking, Starts, TypeOK, MemoryOK
  <2> QED BY <2>1, WalkerStops
<1> QED BY <1>1, <1>2, <1>3, <1>4, <1>5, <1>6, <1>7, <1>8 DEF StepList

\* A run begins at its first step.
LEMMA BeginWalks ==
  ASSUME TypeOK, InOrder, NEW p \in Run, CheckEnrolled(p)
  PROVE  WalkerOK(p)'
<1>0. p \in Proc /\ p # Worker
  BY QueueAssumption DEF Proc
<1>1. /\ pc'[p] \in {"enrolledBefore", "step"} /\ at'[p] = 1
  BY <1>0 DEF CheckEnrolled, Goto, InOrder, WalkerOK, Starts, TypeOK, MemoryOK
<1>2. Passed(RunOf(p), at[p])'
  BY <1>0, <1>1 DEF Passed, Effects, RunOf
<1> QED BY <1>0, <1>1, <1>2 DEF WalkerOK, Walking, Starts

\* The worker resumes a row at its first step.
LEMMA ResumeWalks ==
  ASSUME TypeOK, InOrder, Resume
  PROVE  WalkerOK(Worker)'
<1>0. Worker \in Proc /\ Worker \notin Run
  BY QueueAssumption DEF Proc
<1>1. CASE pc'[Worker] # "step"
  <2>1. Stops(Worker)
    BY <1>0, <1>1 DEF Resume, Goto, Stops, Walking, TypeOK, MemoryOK
  <2> QED BY <1>0, <2>1, WalkerStops
<1>2. CASE pc'[Worker] = "step"
  <2>1. cur \in JobId /\ job[cur] # NoJob /\ job[cur].next \in Nat
    BY DEF Resume, TypeOK, MemoryOK, DurableOK, Row
  <2>2. at'[Worker] = job[cur].next /\ UNCHANGED <<job, cur, ran>>
    BY <1>0, <1>2 DEF Resume, Goto, TypeOK, MemoryOK, durable, history
  <2>3. Passed(RunOf(Worker), at[Worker])'
    BY <2>1, <2>2 DEF InOrder, RowOK, Passed, RunOf
  <2>4. OnRow'
    BY <1>2, <2>1, <2>2 DEF OnRow
  <2> QED BY <1>0, <1>2, <2>3, <2>4 DEF WalkerOK, Starts
<1> QED BY <1>1, <1>2

\* After the guard the worker goes on behind the email it has sent.
LEMMA GuardWalks ==
  ASSUME TypeOK, SendsAnEmail, InOrder, [Next]_vars, WriteGuard
  PROVE  WalkerOK(Worker)'
<1>1. /\ Worker \in Proc /\ pc[Worker] = "sent" /\ ~AtEnd(Worker) /\ cur' = cur
      /\ Advance(Worker) /\ UNCHANGED ran
  BY DEF Proc, WriteGuard, SendsAnEmail, history
<1>2. /\ ran[RunOf(Worker)][at[Worker]] > 0
      /\ at[Worker] = job[cur].next \/ ~Separates(StepOf(Worker))
  BY <1>1 DEF InOrder, WalkerOK, Walking, OnRow
<1> QED BY <1>1, <1>2, NextStep

LEMMA InOrderStep ==
  ASSUME TypeOK, SendsAnEmail, ScriptsRearm, InOrder, [Next]_vars
  PROVE  InOrder'
<1>1. \A r \in JobId : RowOK(r)'
  BY RowsInOrder
<1>2. ASSUME NEW p \in Proc
      PROVE  WalkerOK(p)'
  <2>1. CASE UNCHANGED vars
    BY <2>1, WalkerStays DEF StaysPut, vars, memory
  <2>2. CASE Next
    BY <2>2, OthersAreCalm, WalkerStays, WalkerStops, StepListWalks, BeginWalks, ResumeWalks,
       GuardWalks
  <2> QED BY <2>1, <2>2
<1> QED BY <1>1, <1>2 DEF InOrder

-----------------------------------------------------------------------------
\* The refinement: an effect performs the next step of its run or repeats one,
\* the log of a run succeeds it, and every other step stutters.

LEMMA EffectPerforms ==
  ASSUME TypeOK, InOrder, NEW p \in Proc, pc[p] \in {"step", "sending"}, ~AtEnd(p),
         StepOf(p).kind # "delay", UNCHANGED outcome,
         ran' = [ran EXCEPT ![RunOf(p)][at[p]] = @ + 1]
  PROVE  [Automation!Next]_(Automation!vars)
<1> DEFINE done == [x \in Run |-> {i \in StepIndex : ran[x][i] > 0}]
<1>1. PICK q \in Run, n \in StepIndex :
        /\ q = RunOf(p) /\ n = at[p]
        /\ n \in Effects[q] /\ Passed(q, n)
  BY StepFacts DEF InOrder, WalkerOK, Walking
<1>2. /\ ran \in [Run -> [StepIndex -> Nat]]
      /\ ran' = [ran EXCEPT ![q][n] = @ + 1]
  BY <1>1 DEF TypeOK, HistoryOK
<1>3. ran'[q][n] > 0
  BY <1>1, EffectTaken
<1>4. \A x \in Run, i \in StepIndex : x # q \/ i # n => ran'[x][i] = ran[x][i]
  BY <1>2
<1>5. done' = [done EXCEPT ![q] = @ \cup {n}]
  <2>1. \A x \in Run :
          {i \in StepIndex : ran'[x][i] > 0} = IF x = q THEN done[x] \cup {n} ELSE done[x]
    BY <1>3, <1>4
  <2>2. done' = [x \in Run |-> {i \in StepIndex : ran'[x][i] > 0}]
    OBVIOUS
  <2>3. done' = [x \in Run |-> IF x = q THEN done[x] \cup {n} ELSE done[x]]
    <3> HIDE DEF done
    <3> QED BY <2>1, <2>2
  <2> QED BY <2>3
<1>6. \A j \in Effects[q] : j \in StepIndex
  <2>1. Script[wfOf[q]] \in Seq(Step) /\ Len(Script[wfOf[q]]) <= MaxSteps
    BY <1>1, QueueAssumption
  <2> QED BY <1>1, <2>1, QueueAssumption DEF Effects, StepIndex
<1>7. \A j \in Effects[q] : j < n => j \in done[q]
  BY <1>1, <1>6 DEF Passed
<1>8. CASE n \in done[q]
  <2>1. done' = done
    BY <1>5, <1>8
  <2> QED BY <2>1 DEF Automation!vars
<1>9. CASE n \notin done[q]
  <2>1. n \in Effects[q] \ done[q]
    BY <1>1, <1>9
  <2>2. UNCHANGED {x \in Run : outcome[x] = "success"}
    OBVIOUS
  <2>3. Automation!Perform(q)
    <3> HIDE DEF done
    <3>1. \E i \in Effects[q] \ done[q] :
            /\ \A j \in Effects[q] : j < i => j \in done[q]
            /\ done' = [done EXCEPT ![q] = @ \cup {i}]
      BY <1>5, <1>7, <2>1
    <3> QED BY <2>2, <3>1 DEF Automation!Perform, done
  <2> QED BY <1>1, <2>3 DEF Automation!Next
<1> QED BY <1>8, <1>9

LEMMA LogSucceeds ==
  ASSUME TypeOK, InOrder, NEW p \in Proc, Complete(p)
  PROVE  Automation!Next
<1> DEFINE done == [x \in Run |-> {i \in StepIndex : ran[x][i] > 0}]
           good == {x \in Run : outcome[x] = "success"}
<1>0. pc[p] = "ended" /\ RunOf(p) \in Run /\ UNCHANGED ran
  BY RunOfType DEF Complete
<1>1. PICK q \in Run :
        /\ q = RunOf(p) /\ Passed(q, at[p]) /\ (AtEnd(p) \/ wfOf[q] \in Once)
        /\ outcome' = [outcome EXCEPT ![q] = "success"]
  BY <1>0 DEF InOrder, WalkerOK, Walking, Complete
<1>2. good' = good \cup {q}
  BY <1>1 DEF TypeOK, HistoryOK
<1>3. \A j \in Effects[q] : j \in StepIndex
  <2>1. Script[wfOf[q]] \in Seq(Step) /\ Len(Script[wfOf[q]]) <= MaxSteps
    BY <1>1, QueueAssumption
  <2> QED BY <1>1, <2>1, QueueAssumption DEF Effects, StepIndex
<1>4. AtEnd(p) => \A j \in Effects[q] : ran[q][j] > 0
  BY <1>0, <1>1, PassedAll
<1>5. Effects[q] \subseteq done[q] \/ q \in {x \in Run : wfOf[x] \in Once}
  BY <1>1, <1>3, <1>4
<1>6. done' = done
  BY <1>0
<1>7. Automation!Succeed(q)
  <2> HIDE DEF done, good
  <2> QED BY <1>2, <1>5, <1>6 DEF Automation!Succeed, done, good
<1> QED BY <1>1, <1>7 DEF Automation!Next

\* Every other action leaves both counters and log alone.
LEMMA OthersStutter ==
  ASSUME [Next]_vars
  PROVE  \/ UNCHANGED <<ran, outcome>>
         \/ \E p \in Proc : Send(p) \/ RunAction(p) \/ Complete(p)
<1>1. ASSUME NEW p \in Proc, StepList(p)
      PROVE  UNCHANGED <<ran, outcome>> \/ Send(p) \/ RunAction(p) \/ Complete(p)
  BY <1>1 DEF StepList, Defer, Persist, PrepareSend, StepThrows, EndList, history
<1>2. ASSUME NEW q \in Run, RunNext(q)
      PROVE  UNCHANGED <<ran, outcome>>
  BY <1>2 DEF RunNext, Dispatch, CancelPendingForEntity, Unenrol, CheckEnrolled, history
<1>3. ASSUME WorkerNext
      PROVE  UNCHANGED <<ran, outcome>>
  BY <1>3 DEF WorkerNext, Resume, WriteGuard, Settle, SettleFails, Boot, Claim, history
<1>4. ASSUME Environment
      PROVE  UNCHANGED <<ran, outcome>>
  BY <1>4 DEF Environment, DelayElapses, StaleReclaim, TurnOff, CancelForWorkflow, TurnOn,
     Reply, CancelPendingJobsOnReply, Crash, history
<1> QED BY <1>1, <1>2, <1>3, <1>4 DEF Next, vars, history

LEMMA StepsRefine ==
  ASSUME TypeOK, SendsAnEmail, InOrder, [Next]_vars
  PROVE  [Automation!Next]_(Automation!vars)
<1>1. CASE UNCHANGED <<ran, outcome>>
  BY <1>1 DEF Automation!vars
<1>2. ASSUME NEW p \in Proc, Send(p) \/ RunAction(p)
      PROVE  [Automation!Next]_(Automation!vars)
  <2>1. /\ pc[p] \in {"step", "sending"} /\ ~AtEnd(p) /\ StepOf(p).kind # "delay"
        /\ UNCHANGED outcome /\ ran' = [ran EXCEPT ![RunOf(p)][at[p]] = @ + 1]
    BY <1>2 DEF Send, RunAction, SendsAnEmail
  <2> QED BY <2>1, EffectPerforms
<1>3. ASSUME NEW p \in Proc, Complete(p)
      PROVE  Automation!Next
  BY <1>3, LogSucceeds
<1> QED BY <1>1, <1>2, <1>3, OthersStutter

\* The engine keeps the promise of AutomationRun, for any workflows, runs, rows,
\* crashes and failures: nothing is passed over, nothing runs out of order.
THEOREM EngineKeepsItsPromise ==
  ASSUME ScriptsRearm
  PROVE  Spec => ImplementsAutomation
<1>1. Init => InOrder /\ Automation!Init
  BY DEF Init, InOrder, WalkerOK, RowOK, Walking, Proc, Automation!Init
<1>2. TypeOK /\ SendsAnEmail /\ InOrder /\ [Next]_vars => InOrder'
  BY InOrderStep
<1>3. TypeOK /\ SendsAnEmail /\ InOrder /\ [Next]_vars => [Automation!Next]_(Automation!vars)
  BY StepsRefine
<1> QED BY <1>1, <1>2, <1>3, InductiveTypes, PTL DEF Spec, ImplementsAutomation, Automation!Spec

-----------------------------------------------------------------------------
(***************************************************************************)
(* The theorems about DelayedJobQueue that count: how often a step takes   *)
(* effect and how many rows are left behind.  Each is a bill: what has     *)
(* happened, and what may still happen, is paid for by faults.             *)
(***************************************************************************)

\* Only finitely many rows and runs are in play, however many there could be.
Created    == {r \in JobId : job[r] # NoJob}
Dispatched == {q \in Run : pc[q] # "idle"}
FinitePlay == IsFiniteSet(Created) /\ IsFiniteSet(Dispatched)

\* The sets that are counted are subsets of those.
LEMMA Counting ==
  ASSUME NEW S, IsFiniteSet(S)
  PROVE  /\ Cardinality(S) \in Nat
         /\ \A T \in SUBSET S : IsFiniteSet(T) /\ Cardinality(T) <= Cardinality(S)
         /\ \A x : /\ IsFiniteSet(S \cup {x})
                   /\ Cardinality(S \cup {x}) = IF x \in S THEN Cardinality(S) ELSE Cardinality(S) + 1
                   /\ IsFiniteSet(S \ {x})
                   /\ Cardinality(S \ {x}) = IF x \in S THEN Cardinality(S) - 1 ELSE Cardinality(S)
BY FS_CardinalityType, FS_Subset, FS_AddElement, FS_RemoveElement

\* A run leaves "idle" by Dispatch.
LEMMA DispatchStep ==
  ASSUME TypeOK, [Next]_vars
  PROVE  Dispatched' = Dispatched \/ \E q \in Run : Dispatched' = Dispatched \cup {q}
<1> USE QueueAssumption DEF TypeOK, MemoryOK, Proc, Goto, Dispatched
<1>2. ASSUME NEW p \in Proc, StepList(p)
      PROVE  Dispatched' = Dispatched
  <2>1. pc[p] # "idle" /\ pc'[p] # "idle" /\ \A x \in Run \ {p} : pc'[x] = pc[x]
    BY <1>2 DEF StepList, Defer, Persist, PrepareSend, AtEmail, Send, RunAction, StepThrows,
       EndList, Complete, Advance
  <2> QED BY <2>1
<1>3. ASSUME NEW q \in Run, RunNext(q)
      PROVE  Dispatched' = Dispatched \cup {q}
  <2>1. pc'[q] # "idle" /\ \A x \in Run \ {q} : pc'[x] = pc[x]
    BY <1>3 DEF RunNext, Dispatch, CancelPendingForEntity, Unenrol, CheckEnrolled
  <2> QED BY <2>1
<1>4. ASSUME WorkerNext
      PROVE  Dispatched' = Dispatched
  BY <1>4 DEF WorkerNext, Resume, WriteGuard, Settle, SettleFails, Boot, Claim, Advance
<1>5. ASSUME Environment
      PROVE  Dispatched' = Dispatched
  <2>1. CASE Crash
    BY <2>1 DEF Crash, RunEnded
  <2>2. CASE ~Crash
    BY <1>5, <2>2 DEF Environment, DelayElapses, StaleReclaim, TurnOff, CancelForWorkflow, TurnOn,
       Reply, CancelPendingJobsOnReply, memory
  <2> QED BY <2>1, <2>2
<1>6. CASE UNCHANGED vars
  BY <1>6 DEF vars, memory
<1> QED BY <1>2, <1>3, <1>4, <1>5, <1>6 DEF Next

LEMMA CreatedStep ==
  ASSUME TypeOK, SendsAnEmail, [Next]_vars
  PROVE  Created' = Created \/ \E r \in JobId : Created' = Created \cup {r}
<1>1. CASE \E p \in Proc : Persist(p)
  <2>1. PICK r \in JobId : \A o \in JobId \ {r} : job'[o] = job[o]
    BY <1>1 DEF Persist, TypeOK, DurableOK
  <2>2. Created' \subseteq Created \cup {r}
    BY <2>1 DEF Created
  <2>3. Created \subseteq Created'
    BY RunOfRowKept DEF Created
  <2>4. Created' = Created \/ Created' = Created \cup {r}
    BY <2>2, <2>3
  <2> QED BY <2>4
<1>2. CASE WriteGuard
  BY <1>2, GuardedRow DEF Created, TypeOK, DurableOK
<1>3. CASE UNCHANGED job
  BY <1>3 DEF Created
<1> QED BY <1>1, <1>2, <1>3, JobStep

LEMMA FinitePlayStep ==
  ASSUME TypeOK, SendsAnEmail, FinitePlay, [Next]_vars
  PROVE  FinitePlay'
BY Counting, DispatchStep, CreatedStep DEF FinitePlay

-----------------------------------------------------------------------------
(* Rows left behind.                                                       *)

Orphans == {r \in JobId : status[r] = "processing" /\ r # cur}

\* A row is left behind when the final write of the worker fails, or in a crash.
LEMMA OrphansStep ==
  ASSUME TypeOK, [Next]_vars
  PROVE  \/ pc'[Worker] = "down"
         \/ Orphans' = {} /\ UNCHANGED writeFaults
         \/ /\ pc[Worker] # "down"
            /\ \/ Orphans' \subseteq Orphans /\ UNCHANGED writeFaults
               \/ Orphans' \subseteq Orphans \cup {cur} /\ writeFaults' = writeFaults + 1
<1> USE QueueAssumption DEF TypeOK, DurableOK, MemoryOK, Proc, Goto, Orphans
<1> DEFINE Kept == /\ pc[Worker] # "down" \/ pc'[Worker] = "down"
                   /\ Orphans' \subseteq Orphans /\ UNCHANGED writeFaults
<1>1. ASSUME NEW p \in Proc, StepList(p)
      PROVE  Kept
  <2>1. pc[Worker] # "down" \/ pc'[Worker] = "down"
    BY <1>1 DEF StepList, Defer, Persist, PrepareSend, AtEmail, Send, RunAction, StepThrows,
       EndList, Complete, Advance
  <2>2. Orphans' \subseteq Orphans /\ UNCHANGED writeFaults
    BY <1>1 DEF StepList, Defer, Persist, PrepareSend, Send, RunAction, StepThrows,
       EndList, Complete, durable, history
  <2> QED BY <2>1, <2>2
<1>2. ASSUME NEW q \in Run, RunNext(q)
      PROVE  Kept
  BY <1>2 DEF RunNext, Dispatch, CancelPendingForEntity, SetStatus, RestartCancels, Unenrol,
     CheckEnrolled, durable, history
<1>3. ASSUME WorkerNext, ~SettleFails, ~Boot
      PROVE  Kept
  <2>1. CASE Resume \/ WriteGuard
    BY <2>1 DEF Resume, WriteGuard, Advance, durable, history
  <2>2. CASE Settle
    BY <2>2 DEF Settle, Terminal, history
  <2>3. ASSUME NEW r \in JobId, Claim(r)
        PROVE  Kept
    BY <2>3 DEF Claim, history
  <2> QED BY <1>3, <2>1, <2>2, <2>3 DEF WorkerNext
<1>4. CASE SettleFails
  BY <1>4 DEF SettleFails, durable
<1>5. CASE Boot
  BY <1>5 DEF Boot, SetStatus, OrphanedAtBoot, history
<1>6. CASE Crash
  BY <1>6 DEF Crash
<1>7. ASSUME Environment, ~Crash
      PROVE  Kept
  <2>1. UNCHANGED <<pc, cur, writeFaults>>
    BY <1>7 DEF Environment, DelayElapses, StaleReclaim, TurnOff, CancelForWorkflow, TurnOn,
       Reply, CancelPendingJobsOnReply, memory, history
  <2>2. \A r \in JobId : status'[r] = "processing" => status[r] = "processing"
    BY <1>7 DEF Environment, DelayElapses, StaleReclaim, TurnOff, CancelForWorkflow, TurnOn,
       Reply, CancelPendingJobsOnReply, SetStatus, history, memory
  <2> QED BY <2>1, <2>2
<1>8. CASE UNCHANGED vars
  BY <1>8 DEF vars, durable, memory, history
<1> QED BY <1>1, <1>2, <1>3, <1>4, <1>5, <1>6, <1>7, <1>8 DEF Next

\* While the API is up, the rows that are processing and held by nobody are no
\* more than the failed writes of a final status.
THEOREM OrphansNeedFailedWrites == Spec => []OrphansAreFailedWrites
<1> DEFINE IInv == TypeOK /\ SendsAnEmail /\ FinitePlay /\ OrphansAreFailedWrites
<1>1. Init => FinitePlay /\ OrphansAreFailedWrites
  <2> SUFFICES ASSUME Init PROVE FinitePlay /\ OrphansAreFailedWrites
    OBVIOUS
  <2>1. Created = {}
    BY DEF Init, Created
  <2>2. Dispatched = {}
    BY DEF Init, Dispatched, Proc
  <2>3. Orphans = {} /\ writeFaults = 0
    BY DEF Init, Orphans
  <2>4. FinitePlay
    BY <2>1, <2>2, FS_EmptySet DEF FinitePlay
  <2>5. OrphansAreFailedWrites
    BY <2>3, FS_EmptySet DEF OrphansAreFailedWrites, Orphans
  <2> QED BY <2>4, <2>5
<1>2. IInv /\ [Next]_vars => OrphansAreFailedWrites'
  <2> SUFFICES ASSUME IInv, [Next]_vars, pc'[Worker] # "down"
               PROVE  Cardinality(Orphans') <= writeFaults'
    BY DEF OrphansAreFailedWrites, Orphans
  <2>1. IsFiniteSet(Orphans)
    <3>1. Orphans \subseteq Created
      BY DEF Orphans, Created, TypeOK, DurableOK
    <3> QED BY <3>1, Counting DEF FinitePlay
  <2>2. writeFaults \in Nat /\ Cardinality(Orphans) \in Nat
    BY <2>1, Counting DEF TypeOK, HistoryOK
  <2>3. CASE Orphans' = {} /\ UNCHANGED writeFaults
    BY <2>2, <2>3, FS_EmptySet
  <2>4. CASE /\ pc[Worker] # "down"
             /\ Orphans' \subseteq Orphans /\ UNCHANGED writeFaults
    <3>1. Cardinality(Orphans') \in Nat /\ Cardinality(Orphans') <= Cardinality(Orphans)
      BY <2>1, <2>4, Counting
    <3> QED BY <2>2, <2>4, <3>1 DEF OrphansAreFailedWrites, Orphans
  <2>5. CASE /\ pc[Worker] # "down"
             /\ Orphans' \subseteq Orphans \cup {cur} /\ writeFaults' = writeFaults + 1
    <3>1. /\ IsFiniteSet(Orphans \cup {cur})
          /\ Cardinality(Orphans \cup {cur}) \in Nat
          /\ Cardinality(Orphans \cup {cur}) <= Cardinality(Orphans) + 1
      BY <2>1, <2>2, Counting
    <3>2. Cardinality(Orphans') \in Nat /\ Cardinality(Orphans') <= Cardinality(Orphans \cup {cur})
      BY <2>5, <3>1, Counting
    <3> QED BY <2>2, <2>5, <3>1, <3>2 DEF OrphansAreFailedWrites, Orphans
  <2> QED BY <2>3, <2>4, <2>5, OrphansStep
<1>3. IInv /\ [Next]_vars => FinitePlay'
  BY FinitePlayStep
<1> QED BY <1>1, <1>2, <1>3, InductiveTypes, PTL DEF Spec

-----------------------------------------------------------------------------
(* Repeats.                                                                *)

\* p may still make step i of its run take effect.
MayStill(p, i) ==
  \/ p \in Run /\ pc[p] \in Starts
  \/ pc[p] = "resume" /\ job[cur].next <= i
  \/ pc[p] \in {"step", "persist", "sending"} /\ at[p] <= i
  \/ pc[p] = "sent" /\ at[p] < i

Walked(q, i) == \E p \in Proc : RunOf(p) = q /\ MayStill(p, i)

\* The rows that nobody holds and that may bring step i of q about again.
Waiting(q, i) ==
  {r \in JobId : /\ job[r] # NoJob /\ r # cur
                 /\ job[r].run = q /\ job[r].next <= i
                 /\ status[r] \in {"pending", "processing"}}

Charge(q, i) == Cardinality(Waiting(q, i)) + (IF Walked(q, i) THEN 1 ELSE 0)

\* What step i of q has done and may still do is paid for by faults.
Billed(q, i) == ran[q][i] + Charge(q, i) <= 1 + crashes + writeFaults
RepeatsBilled == \A q \in Run, i \in StepIndex : Billed(q, i)

LEMMA WaitingFinite ==
  ASSUME FinitePlay, NEW q, NEW i
  PROVE  IsFiniteSet(Waiting(q, i)) /\ Cardinality(Waiting(q, i)) \in Nat
<1>1. Waiting(q, i) \subseteq Created
  BY DEF Waiting, Created
<1> QED BY <1>1, Counting DEF FinitePlay

\* A walker works for a run; at most one does, and none of the rows that wait
\* belongs to a run that its request still walks.
LEMMA WalkersAtWork ==
  ASSUME TypeOK, NEW p \in Proc, NEW i, MayStill(p, i)
  PROVE  RunOf(p) \in Run /\ (p = Worker => pc[p] \notin {"down", "idle"})
<1>1. p = Worker => pc[p] \notin {"down", "idle"}
  BY QueueAssumption DEF MayStill
<1> QED BY <1>1, RunOfType

LEMMA OneMayStill ==
  ASSUME TypeOK, ParkedRunsEnded, NEW p \in Proc, NEW x \in Proc, p # x, NEW i,
         MayStill(p, i), MayStill(x, i)
  PROVE  RunOf(p) # RunOf(x)
<1>1. ASSUME NEW q \in Run, MayStill(q, i), MayStill(Worker, i)
      PROVE  job[cur].run # q
  <2>1. Worker \in Proc /\ q \in Proc /\ Worker \notin Run
    BY QueueAssumption DEF Proc
  <2>2. cur \in JobId /\ job[cur] # NoJob
    BY <1>1, <2>1, WalkersAtWork DEF TypeOK, MemoryOK, DurableOK
  <2>3. pc[q] \notin RunEnded \ {"idle"}
    BY <1>1 DEF MayStill, Starts, RunEnded
  <2> QED BY <2>2, <2>3 DEF ParkedRunsEnded, Rows
<1> QED BY <1>1, QueueAssumption DEF RunOf, Proc

LEMMA WalkedAlone ==
  ASSUME TypeOK, ParkedRunsEnded, NEW q \in Run, NEW i, MayStill(q, i)
  PROVE  Waiting(q, i) = {}
<1>1. pc[q] \notin RunEnded \ {"idle"}
  BY QueueAssumption DEF MayStill, Starts, RunEnded
<1> QED BY <1>1 DEF ParkedRunsEnded, Rows, Waiting

\* The worker comes to "resume" by a claim.
LEMMA ResumeStep ==
  ASSUME TypeOK, [Next]_vars, pc'[Worker] = "resume"
  PROVE  \/ pc[Worker] = "resume" /\ cur' = cur
         \/ \E r \in JobId : Claim(r) /\ cur' = r
<1> USE QueueAssumption DEF TypeOK, MemoryOK, Proc, Goto
<1>1. ASSUME NEW p \in Proc, StepList(p)
      PROVE  pc[Worker] = "resume" /\ cur' = cur
  BY <1>1 DEF StepList, Defer, Persist, PrepareSend, Send, RunAction, StepThrows, EndList,
     Complete, Advance
<1>2. ASSUME NEW q \in Run, RunNext(q)
      PROVE  pc[Worker] = "resume" /\ cur' = cur
  BY <1>2 DEF RunNext, Dispatch, CancelPendingForEntity, Unenrol, CheckEnrolled
<1>3. ASSUME WorkerNext
      PROVE  \E r \in JobId : Claim(r) /\ cur' = r
  BY <1>3 DEF WorkerNext, Resume, WriteGuard, Settle, SettleFails, Boot, Claim, Advance
<1>4. ASSUME Environment
      PROVE  pc[Worker] = "resume" /\ cur' = cur
  BY <1>4 DEF Environment, DelayElapses, StaleReclaim, TurnOff, CancelForWorkflow, TurnOn,
     Reply, CancelPendingJobsOnReply, Crash, memory
<1>5. CASE UNCHANGED vars
  BY <1>5 DEF vars, memory
<1> QED BY <1>1, <1>2, <1>3, <1>4, <1>5 DEF Next

\* A process goes on for the run it was walking, and for no step behind it; a
\* walk begins only where the worker claims a row.
LEMMA WalkStep ==
  ASSUME TypeOK, SendsAnEmail, [Next]_vars, NEW p \in Proc, NEW i \in StepIndex, MayStill(p, i)'
  PROVE  \/ MayStill(p, i) /\ RunOf(p)' = RunOf(p)
         \/ p = Worker /\ \E r \in JobId : Claim(r) /\ cur' = r
<1>0. i \in Nat /\ at[p] \in Nat
  BY QueueAssumption DEF StepIndex, TypeOK, MemoryOK
<1>1. CASE UNCHANGED vars
  <2>1. MayStill(p, i) /\ RunOf(p)' = RunOf(p)
    BY <1>1 DEF MayStill, RunOf, vars, memory, durable
  <2> QED BY <2>1
<1>2. CASE Next /\ StaysPut(p)
  <2>1. p = Worker => pc[p] \notin {"down", "idle"}
    BY <1>2, QueueAssumption DEF MayStill, StaysPut
  <2>2. RunOf(p)' = RunOf(p) /\ (p = Worker => job'[cur].next = job[cur].next)
    BY <1>2, <2>1, RunOfKept DEF StaysPut
  <2>3. pc[p] = "resume" => p = Worker
    BY DEF TypeOK, MemoryOK, Proc, RunPc, RunEnded
  <2> QED BY <1>2, <2>2, <2>3 DEF MayStill, StaysPut
<1>3. CASE StepList(p)
  <2>1. pc[p] \in {"resume", "step", "persist", "sending", "sent", "ended"}
    BY <1>3 DEF StepList, Defer, Persist, PrepareSend, AtEmail, Send, RunAction, StepThrows,
       EndList, Complete
  <2>2. cur' = cur
    BY <1>3 DEF StepList, Defer, Persist, PrepareSend, Send, RunAction, StepThrows, EndList, Complete
  <2>3. RunOf(p)' = RunOf(p)
    BY <2>1, <2>2, RunOfKept
  <2>4. pc'[p] # "resume" /\ ~(p \in Run /\ pc'[p] \in Starts)
    BY <1>3 DEF StepList, Defer, Persist, PrepareSend, Send, RunAction, StepThrows, EndList,
       Complete, Goto, Advance, Starts, TypeOK, MemoryOK
  <2>5. \/ pc[p] \in {"step", "persist", "sending"} /\ at[p] <= i
        \/ pc[p] = "sent" /\ at[p] < i
    BY <1>0, <1>3, <2>4 DEF StepList, Defer, Persist, PrepareSend, AtEmail, Send, RunAction,
       StepThrows, EndList, Complete, Goto, Advance, MayStill, TypeOK, MemoryOK
  <2> QED BY <2>3, <2>5 DEF MayStill
<1>4. CASE p \in Run /\ (CheckEnrolled(p) \/ pc[p] \in Starts)
  <2>1. RunOf(p)' = RunOf(p)
    BY <1>4, QueueAssumption DEF RunOf
  <2> QED BY <1>4, <2>1 DEF CheckEnrolled, MayStill, Starts
<1>5. CASE p = Worker /\ Resume
  <2>1. RunOf(p)' = RunOf(p) /\ pc[p] = "resume"
    BY <1>5, RunOfKept DEF Resume
  <2>2. job[cur].next <= i
    BY <1>5 DEF Resume, Goto, MayStill, TypeOK, MemoryOK, Starts, Proc
  <2> QED BY <2>1, <2>2 DEF MayStill
<1>6. CASE p = Worker /\ WriteGuard
  <2>1. RunOf(p)' = RunOf(p) /\ pc[p] = "sent"
    BY <1>6, RunOfKept DEF WriteGuard
  <2>2. at[p] < i
    BY <1>0, <1>6, QueueAssumption DEF WriteGuard, Advance, Goto, MayStill, TypeOK, MemoryOK, Proc
  <2> QED BY <2>1, <2>2 DEF MayStill
<1>7. CASE Next /\ Stops(p) /\ ~(p \in Run /\ pc[p] \in Starts)
  <2>0. \A q \in Run : pc'[q] # "resume"
    BY TypeStep DEF TypeOK, MemoryOK, RunPc, RunEnded
  <2>1. p = Worker /\ pc'[p] = "resume"
    BY <1>7, <2>0 DEF Stops, MayStill, Walking, Proc
  <2>2. CASE pc[p] = "resume" /\ cur' = cur
    <3>1. RunOf(p)' = RunOf(p) /\ job'[cur].next = job[cur].next
      BY <2>1, <2>2, RunOfKept
    <3> QED BY <2>1, <2>2, <3>1 DEF MayStill
  <2> QED BY <2>1, <2>2, ResumeStep
<1> QED BY <1>1, <1>2, <1>3, <1>4, <1>5, <1>6, <1>7, OthersAreCalm

\* The worker drops its row when it has written its status, or failed to.
LEMMA WhoDrops ==
  ASSUME [Next]_vars, cur' # cur, cur' = NoJob
  PROVE  Settle \/ SettleFails \/ Crash
<1>1. ASSUME NEW p \in Proc, StepList(p)
      PROVE  cur' = cur
  BY <1>1 DEF StepList, Defer, Persist, PrepareSend, Send, RunAction, StepThrows, EndList, Complete
<1>2. ASSUME NEW q \in Run, RunNext(q)
      PROVE  cur' = cur
  BY <1>2 DEF RunNext, Dispatch, CancelPendingForEntity, Unenrol, CheckEnrolled
<1>3. ASSUME WorkerNext
      PROVE  Settle \/ SettleFails \/ Crash
  BY <1>3, QueueAssumption DEF WorkerNext, Resume, WriteGuard, Boot, Claim
<1>4. ASSUME Environment
      PROVE  cur' = cur \/ Crash
  BY <1>4 DEF Environment, DelayElapses, StaleReclaim, TurnOff, CancelForWorkflow, TurnOn,
     Reply, CancelPendingJobsOnReply, memory
<1> QED BY <1>1, <1>2, <1>3, <1>4 DEF Next, vars, memory

\* A row comes to wait when it is parked, or when the worker drops it unsettled.
LEMMA WaitingStep ==
  ASSUME TypeOK, SendsAnEmail, [Next]_vars, NEW q, NEW i,
         NEW r \in JobId, r \in Waiting(q, i)', r \notin Waiting(q, i)
  PROVE  \/ job[r] = NoJob
         \/ r = cur /\ (Crash \/ SettleFails)
<1> SUFFICES ASSUME job[r] # NoJob
             PROVE  r = cur /\ (Crash \/ SettleFails)
  OBVIOUS
<1>1. /\ job'[r].run = job[r].run /\ job'[r].next = job[r].next
      /\ r # cur' /\ status'[r] \in {"pending", "processing"}
      /\ status[r] \in {"pending", "processing"} => r = cur
  BY RowKept DEF Waiting
<1>2. status[r] \in {"pending", "processing"}
  BY <1>1, SettledStays DEF TypeOK, DurableOK, Status, Terminal
<1>3. r = cur /\ cur' # cur
  BY <1>1, <1>2
<1>4. cur' = NoJob
  <2>1. ASSUME NEW x \in JobId, Claim(x)
        PROVE  FALSE
    BY <1>3, <2>1, QueueAssumption DEF Claim, TypeOK, MemoryOK
  <2> QED BY <1>3, <2>1, CurStep
<1>5. Settle \/ SettleFails \/ Crash
  BY <1>1, <1>2, <1>3, <1>4, WhoDrops
<1>6. ~Settle
  BY <1>1, <1>3 DEF Settle, Terminal, TypeOK, DurableOK
<1> QED BY <1>3, <1>5, <1>6

\* Faults are only ever added; the two that make repeats possible are counted.
LEMMA FaultsStep ==
  ASSUME TypeOK, [Next]_vars
  PROVE  /\ crashes <= crashes' /\ writeFaults <= writeFaults'
         /\ Crash => crashes' = crashes + 1
         /\ SettleFails => writeFaults' = writeFaults + 1
<1> USE DEF TypeOK, HistoryOK
<1>1. ASSUME NEW p \in Proc, StepList(p)
      PROVE  UNCHANGED <<crashes, writeFaults>>
  BY <1>1 DEF StepList, Defer, Persist, PrepareSend, Send, RunAction, StepThrows, EndList,
     Complete, history
<1>2. ASSUME NEW q \in Run, RunNext(q)
      PROVE  UNCHANGED <<crashes, writeFaults>>
  BY <1>2 DEF RunNext, Dispatch, CancelPendingForEntity, Unenrol, CheckEnrolled, history
<1>3. ASSUME WorkerNext, ~SettleFails
      PROVE  UNCHANGED <<crashes, writeFaults>>
  BY <1>3 DEF WorkerNext, Resume, WriteGuard, Settle, Boot, Claim, history
<1>4. ASSUME Environment, ~Crash
      PROVE  UNCHANGED <<crashes, writeFaults>>
  BY <1>4 DEF Environment, DelayElapses, StaleReclaim, TurnOff, CancelForWorkflow, TurnOn,
     Reply, CancelPendingJobsOnReply, history
<1>5. SettleFails => writeFaults' = writeFaults + 1 /\ UNCHANGED crashes
  BY DEF SettleFails
<1>6. Crash => crashes' = crashes + 1 /\ UNCHANGED writeFaults
  BY DEF Crash
<1> QED BY <1>1, <1>2, <1>3, <1>4, <1>5, <1>6 DEF Next, vars, history

\* Whoever parks or effects step i of q ends the only walk there is.
LEMMA WalkEnds ==
  ASSUME TypeOK, SendsAnEmail, ParkedRunsEnded, [Next]_vars, NEW p \in Proc, NEW i \in StepIndex,
         MayStill(p, i), ~MayStill(p, i)', ~(\E r \in JobId : Claim(r)), NEW q, q = RunOf(p)
  PROVE  Walked(q, i) /\ ~Walked(q, i)'
<1>1. ASSUME NEW x \in Proc, RunOf(x)' = q, MayStill(x, i)'
      PROVE  FALSE
  <2>1. MayStill(x, i) /\ RunOf(x)' = RunOf(x)
    BY <1>1, WalkStep
  <2>2. x # p
    BY <1>1
  <2> QED BY <1>1, <2>1, <2>2, OneMayStill
<1> QED BY <1>1 DEF Walked

\* The claim of a row that waits for step i of q: the row now walks.
LEMMA ClaimBilled ==
  ASSUME TypeOK, SendsAnEmail, ParkedRunsEnded, FinitePlay, [Next]_vars,
         NEW q \in Run, NEW i \in StepIndex, NEW r \in JobId, Claim(r), r \in Waiting(q, i)
  PROVE  Charge(q, i)' <= Charge(q, i) /\ Charge(q, i) \in Nat /\ Charge(q, i)' \in Nat
<1>1. pc[Worker] = "idle" /\ cur = NoJob /\ cur' = r /\ UNCHANGED job
  BY DEF Claim, TypeOK, MemoryOK
<1>2. ~Walked(q, i)
  <2>1. ~MayStill(Worker, i)
    BY <1>1, QueueAssumption DEF MayStill
  <2>2. ~MayStill(q, i)
    BY WalkedAlone
  <2> QED BY <2>1, <2>2, QueueAssumption DEF Walked, RunOf, Proc
<1>3. Waiting(q, i)' \subseteq Waiting(q, i) \ {r}
  BY <1>1, QueueAssumption DEF Waiting, Claim, TypeOK, DurableOK
<1>4. /\ IsFiniteSet(Waiting(q, i)) /\ Cardinality(Waiting(q, i)) \in Nat
      /\ IsFiniteSet(Waiting(q, i) \ {r})
      /\ Cardinality(Waiting(q, i) \ {r}) = Cardinality(Waiting(q, i)) - 1
  BY WaitingFinite, Counting
<1>5. /\ Cardinality(Waiting(q, i)') \in Nat
      /\ Cardinality(Waiting(q, i)') <= Cardinality(Waiting(q, i)) - 1
  BY <1>3, <1>4, Counting
<1> QED BY <1>2, <1>4, <1>5 DEF Charge

\* A run parks: the row takes the place of the walk.
LEMMA ParkBilled ==
  ASSUME TypeOK, SendsAnEmail, ParkedRunsEnded, FinitePlay, [Next]_vars,
         NEW q \in Run, NEW i \in StepIndex, NEW p \in Proc, Persist(p)
  PROVE  Charge(q, i)' <= Charge(q, i) /\ Charge(q, i) \in Nat /\ Charge(q, i)' \in Nat
<1>1. pc[p] = "persist" /\ pc'[p] = "done" /\ cur' = cur /\ i \in Nat
  BY QueueAssumption DEF Persist, Goto, TypeOK, MemoryOK, StepIndex
<1>2. ~(\E r \in JobId : Claim(r)) /\ ~Crash /\ ~SettleFails
  BY <1>1, QueueAssumption DEF Claim, Crash, SettleFails, Persist, Goto, TypeOK, MemoryOK, Proc,
     RunEnded
<1>3. Walked(q, i)' => Walked(q, i)
  BY <1>2, WalkStep DEF Walked
<1>4. PICK x \in JobId :
        /\ job' = [job EXCEPT ![x] =
             [run      |-> RunOf(p),
              next     |-> IF StepOf(p).kind = "delay" THEN at[p] + 1 ELSE at[p],
              stripped |-> StepOf(p).kind = "email",
              guard    |-> NoGuard]]
  BY DEF Persist
<1>5. job \in [JobId -> Row \cup {NoJob}] /\ at[p] \in Nat
  BY DEF TypeOK, DurableOK, MemoryOK
<1>6. Waiting(q, i)' \subseteq Waiting(q, i) \cup {x}
  <2>1. ASSUME NEW r \in JobId, r \in Waiting(q, i)', r \notin Waiting(q, i), r # x
        PROVE  FALSE
    <3>1. job[r] = NoJob
      BY <1>2, <2>1, WaitingStep
    <3>2. job'[r] # NoJob /\ job'[r] = job[r]
      BY <1>4, <1>5, <2>1 DEF Waiting
    <3> QED BY <3>1, <3>2
  <2> QED BY <2>1 DEF Waiting
<1>7. /\ IsFiniteSet(Waiting(q, i)) /\ Cardinality(Waiting(q, i)) \in Nat
      /\ IsFiniteSet(Waiting(q, i) \cup {x})
      /\ Cardinality(Waiting(q, i) \cup {x}) \in Nat
      /\ Cardinality(Waiting(q, i) \cup {x}) <= Cardinality(Waiting(q, i)) + 1
  BY WaitingFinite, Counting
<1>8. CASE x \notin Waiting(q, i)'
  <2>1. Waiting(q, i)' \subseteq Waiting(q, i)
    BY <1>6, <1>8
  <2>2. /\ Cardinality(Waiting(q, i)') \in Nat
        /\ Cardinality(Waiting(q, i)') <= Cardinality(Waiting(q, i))
    BY <1>7, <2>1, Counting
  <2> QED BY <1>3, <1>7, <2>2 DEF Charge
<1>9. CASE x \in Waiting(q, i)'
  <2>1. RunOf(p) = q /\ at[p] <= i
    BY <1>1, <1>4, <1>5, <1>9 DEF Waiting
  <2>2. MayStill(p, i) /\ ~MayStill(p, i)'
    BY <1>1, <2>1 DEF MayStill, Starts
  <2>3. Walked(q, i) /\ ~Walked(q, i)'
    BY <1>2, <2>1, <2>2, WalkEnds
  <2>4. /\ Cardinality(Waiting(q, i)') \in Nat
        /\ Cardinality(Waiting(q, i)') <= Cardinality(Waiting(q, i)) + 1
    BY <1>6, <1>7, Counting
  <2> QED BY <1>7, <2>3, <2>4 DEF Charge
<1> QED BY <1>8, <1>9

\* Any other step adds at most the row that a fault made the worker drop.
LEMMA OtherBilled ==
  ASSUME TypeOK, SendsAnEmail, FinitePlay, [Next]_vars, NEW q \in Run, NEW i \in StepIndex,
         ~(\E p \in Proc : Persist(p)),
         ~(\E r \in JobId : Claim(r) /\ r \in Waiting(q, i))
  PROVE  /\ Charge(q, i) \in Nat /\ Charge(q, i)' \in Nat
         /\ Walked(q, i)' => Walked(q, i)
         /\ Charge(q, i)' <= Charge(q, i) + (IF Crash \/ SettleFails THEN 1 ELSE 0)
         /\ Waiting(q, i)' \subseteq Waiting(q, i) \/ Crash \/ SettleFails
<1>1. Walked(q, i)' => Walked(q, i)
  <2>1. ASSUME NEW p \in Proc, RunOf(p)' = q, MayStill(p, i)', ~Walked(q, i)
        PROVE  FALSE
    <3>1. p = Worker /\ \E r \in JobId : Claim(r) /\ cur' = r
      BY <2>1, WalkStep DEF Walked
    <3>2. PICK r \in JobId : Claim(r) /\ cur' = r
      BY <3>1
    <3>3. /\ job' = job /\ cur = NoJob /\ r # NoJob /\ pc'[Worker] = "resume"
          /\ status[r] = "pending" /\ job[r] # NoJob
      BY <3>2, QueueAssumption DEF Claim, Goto, TypeOK, MemoryOK, DurableOK, Proc
    <3>4. job[r].run = q /\ job[r].next <= i
      BY <2>1, <3>1, <3>2, <3>3, QueueAssumption DEF RunOf, MayStill
    <3>5. r \in Waiting(q, i)
      BY <3>3, <3>4 DEF Waiting
    <3> QED BY <3>2, <3>5
  <2> QED BY <2>1 DEF Walked
<1>2. ASSUME NEW r \in JobId, r \in Waiting(q, i)', r \notin Waiting(q, i)
      PROVE  r = cur /\ (Crash \/ SettleFails)
  <2>1. job[r] # NoJob
    <3>1. WriteGuard \/ UNCHANGED job
      BY JobStep
    <3>2. WriteGuard => r = cur \/ job'[r] = job[r]
      BY GuardedRow DEF TypeOK, DurableOK
    <3>3. WriteGuard => job[cur] # NoJob
      BY GuardedRow DEF TypeOK, DurableOK
    <3> QED BY <1>2, <3>1, <3>2, <3>3 DEF Waiting
  <2> QED BY <1>2, <2>1, WaitingStep
<1>3. IsFiniteSet(Waiting(q, i)) /\ Cardinality(Waiting(q, i)) \in Nat
  BY WaitingFinite
<1>4. CASE Waiting(q, i)' \subseteq Waiting(q, i)
  <2>1. /\ Cardinality(Waiting(q, i)') \in Nat
        /\ Cardinality(Waiting(q, i)') <= Cardinality(Waiting(q, i))
    BY <1>3, <1>4, Counting
  <2> QED BY <1>1, <1>3, <1>4, <2>1 DEF Charge
<1>5. CASE ~(Waiting(q, i)' \subseteq Waiting(q, i))
  <2>1. Crash \/ SettleFails
    BY <1>2, <1>5 DEF Waiting
  <2>2. Waiting(q, i)' \subseteq Waiting(q, i) \cup {cur}
    BY <1>2 DEF Waiting
  <2>3. /\ IsFiniteSet(Waiting(q, i) \cup {cur})
        /\ Cardinality(Waiting(q, i) \cup {cur}) \in Nat
        /\ Cardinality(Waiting(q, i) \cup {cur}) <= Cardinality(Waiting(q, i)) + 1
    BY <1>3, Counting
  <2>4. /\ Cardinality(Waiting(q, i)') \in Nat
        /\ Cardinality(Waiting(q, i)') <= Cardinality(Waiting(q, i)) + 1
    BY <1>3, <2>2, <2>3, Counting
  <2> QED BY <1>1, <1>3, <2>1, <2>4 DEF Charge
<1> QED BY <1>1, <1>4, <1>5

\* The step that takes effect is the end of its walk.
LEMMA EffectBilled ==
  ASSUME TypeOK, SendsAnEmail, ParkedRunsEnded, FinitePlay, [Next]_vars,
         NEW p \in Proc, Send(p) \/ RunAction(p), NEW q \in Run, NEW i \in StepIndex
  PROVE  /\ Charge(q, i) \in Nat /\ Charge(q, i)' \in Nat /\ Charge(q, i)' <= Charge(q, i)
         /\ ran'[q][i] = ran[q][i] + 1 => Charge(q, i)' + 1 <= Charge(q, i)
         /\ ran'[q][i] \in {ran[q][i], ran[q][i] + 1}
<1>1. /\ pc[p] \in {"step", "sending"} /\ i \in Nat /\ RunOf(p) \in Run
      /\ ran' = [ran EXCEPT ![RunOf(p)][at[p]] = @ + 1]
      /\ ran \in [Run -> [StepIndex -> Nat]] /\ ran[q][i] \in Nat /\ at[p] \in Nat
  <2>1. pc[p] \in {"step", "sending"} /\ ran' = [ran EXCEPT ![RunOf(p)][at[p]] = @ + 1]
    BY DEF Send, RunAction
  <2>2. RunOf(p) \in Run
    BY <2>1, RunOfType
  <2>3. i \in Nat
    BY QueueAssumption DEF StepIndex
  <2>4. at[p] \in Nat
    BY DEF TypeOK, MemoryOK
  <2>5. ran \in [Run -> [StepIndex -> Nat]]
    BY DEF TypeOK, HistoryOK
  <2> QED BY <2>1, <2>2, <2>3, <2>4, <2>5
<1>2. \/ pc'[p] = "sent" /\ at'[p] = at[p]
      \/ pc'[p] = "step" /\ at'[p] = at[p] + 1
  BY DEF Send, RunAction, Advance, Goto, TypeOK, MemoryOK
<1>3. cur' = cur
  BY DEF Send, RunAction
<1>4. ~(\E r \in JobId : Claim(r)) /\ ~Crash /\ ~SettleFails /\ ~(\E x \in Proc : Persist(x))
  <2>1. UNCHANGED <<job, writeFaults, crashes, status>>
    BY DEF Send, RunAction, durable
  <2> QED BY <2>1, QueueAssumption DEF Claim, Crash, SettleFails, Persist, TypeOK, DurableOK,
     HistoryOK
<1>5. /\ Charge(q, i) \in Nat /\ Charge(q, i)' \in Nat /\ Charge(q, i)' <= Charge(q, i)
      /\ Waiting(q, i)' \subseteq Waiting(q, i)
  BY <1>4, OtherBilled
<1>6. CASE RunOf(p) = q /\ at[p] = i
  <2>1. MayStill(p, i) /\ ~MayStill(p, i)'
    BY <1>1, <1>2, <1>6 DEF MayStill, Starts
  <2>2. Walked(q, i) /\ ~Walked(q, i)'
    BY <1>4, <1>6, <2>1, WalkEnds
  <2>3. /\ Cardinality(Waiting(q, i)) \in Nat /\ Cardinality(Waiting(q, i)') \in Nat
        /\ Cardinality(Waiting(q, i)') <= Cardinality(Waiting(q, i))
    BY <1>5, WaitingFinite, Counting
  <2>4. ran'[q][i] = ran[q][i] + 1
    BY <1>1, <1>6
  <2> QED BY <1>5, <2>2, <2>3, <2>4 DEF Charge
<1>7. CASE ~(RunOf(p) = q /\ at[p] = i)
  <2>1. ran'[q][i] = ran[q][i]
    BY <1>1, <1>7
  <2> QED BY <1>1, <1>5, <2>1
<1> QED BY <1>6, <1>7

LEMMA BilledStep ==
  ASSUME TypeOK, SendsAnEmail, ParkedRunsEnded, FinitePlay, [Next]_vars,
         NEW q \in Run, NEW i \in StepIndex, Billed(q, i)
  PROVE  Billed(q, i)'
<1>1. /\ ran[q][i] \in Nat /\ crashes \in Nat /\ writeFaults \in Nat
      /\ crashes' \in Nat /\ writeFaults' \in Nat
  BY TypeStep DEF TypeOK, HistoryOK
<1>2. ASSUME ran'[q][i] = ran[q][i], Charge(q, i) \in Nat, Charge(q, i)' \in Nat,
             Charge(q, i)' <= Charge(q, i)
      PROVE  Billed(q, i)'
  BY <1>1, <1>2, FaultsStep DEF Billed
<1>3. CASE \E p \in Proc : Send(p) \/ RunAction(p)
  BY <1>1, <1>3, EffectBilled, FaultsStep DEF Billed
<1>4. ASSUME UNCHANGED ran
      PROVE  Billed(q, i)'
  <2>1. CASE \E p \in Proc : Persist(p)
    BY <1>2, <1>4, <2>1, ParkBilled
  <2>2. CASE \E r \in JobId : Claim(r) /\ r \in Waiting(q, i)
    BY <1>2, <1>4, <2>2, ClaimBilled
  <2>3. CASE /\ ~(\E p \in Proc : Persist(p))
             /\ ~(\E r \in JobId : Claim(r) /\ r \in Waiting(q, i))
    <3>1. /\ Charge(q, i) \in Nat /\ Charge(q, i)' \in Nat
          /\ Charge(q, i)' <= Charge(q, i) + (IF Crash \/ SettleFails THEN 1 ELSE 0)
      BY <2>3, OtherBilled
    <3> QED BY <1>1, <1>4, <3>1, FaultsStep DEF Billed
  <2> QED BY <2>1, <2>2, <2>3
<1>5. UNCHANGED ran \/ \E p \in Proc : Send(p) \/ RunAction(p) \/ Complete(p)
  BY OthersStutter
<1>6. ASSUME NEW p \in Proc, Complete(p)
      PROVE  UNCHANGED ran
  BY <1>6 DEF Complete
<1> QED BY <1>3, <1>4, <1>5, <1>6

\* Delivery is at least once, and each repeat of a step is paid for by a crash
\* or by the failed write of a row's final status.
THEOREM RepeatsArePaidFor == Spec => []RepeatsNeedFaults
<1> DEFINE IInv == /\ TypeOK /\ SendsAnEmail /\ ParkedRunsEnded /\ FinitePlay
                   /\ RepeatsBilled
<1>1. Init => ParkedRunsEnded /\ FinitePlay /\ RepeatsBilled
  <2> SUFFICES ASSUME Init PROVE ParkedRunsEnded /\ FinitePlay /\ RepeatsBilled
    OBVIOUS
  <2>1. Created = {} /\ Dispatched = {}
    BY QueueAssumption DEF Init, Created, Dispatched, Proc
  <2>2. ASSUME NEW q \in Run, NEW i \in StepIndex
        PROVE  Billed(q, i)
    <3>1. Waiting(q, i) = {} /\ ran[q][i] = 0 /\ crashes = 0 /\ writeFaults = 0
      BY DEF Init, Waiting
    <3> QED BY <3>1, FS_EmptySet DEF Billed, Charge
  <2> QED BY <2>1, <2>2, FS_EmptySet DEF Init, FinitePlay, RepeatsBilled, ParkedRunsEnded, Rows
<1>2. IInv /\ [Next]_vars => ParkedRunsEnded' /\ FinitePlay' /\ RepeatsBilled'
  BY ParkedRunsEndedStep, FinitePlayStep, BilledStep DEF RepeatsBilled
<1>3. IInv => RepeatsNeedFaults
  <2> SUFFICES ASSUME IInv, NEW q \in Run, NEW i \in StepIndex
               PROVE  ran[q][i] <= 1 + crashes + writeFaults
    BY DEF RepeatsNeedFaults
  <2>1. Charge(q, i) \in Nat
    BY WaitingFinite DEF Charge
  <2> QED BY <2>1 DEF RepeatsBilled, Billed, TypeOK, HistoryOK
<1> QED BY <1>1, <1>2, <1>3, InductiveTypes, PTL DEF Spec
-----------------------------------------------------------------------------
(* One run per enrollment.                                                 *)

\* The runs of a workflow for a record that have parked, or are about to: they took
\* the enrollment.  And the forced restarts that may have given it back.
Holders(w, e)  == {q \in Run : Key(q) = <<w, e>> /\ (Rows(q) # {} \/ pc[q] = "persist")}
Restarts(w, e) == {q \in Run : /\ Key(q) = <<w, e>> /\ q \in Forced
                               /\ pc[q] \notin {"idle", "restart", "unenrol"}}

\* The enrollment counts as one more holder as long as it can be taken.
Free(w, e) == IF <<w, e>> \in enrolled THEN 0 ELSE 1

EnrolledOnce ==
  \A w \in Once, e \in Entity :
    Cardinality(Holders(w, e)) + Free(w, e) <= 1 + Cardinality(Restarts(w, e))

\* Only a forced run comes to delete an enrollment.
RestartsAreForced == \A q \in Run : pc[q] \in {"restart", "unenrol"} => q \in Forced

\* A request moves on by its own steps, and dies in a crash.
LEMMA RequestStep ==
  ASSUME TypeOK, [Next]_vars, NEW q \in Run
  PROVE  pc'[q] = pc[q] \/ RunNext(q) \/ StepList(q) \/ Crash
<1> USE QueueAssumption DEF TypeOK, MemoryOK, Proc, Goto
<1>1. ASSUME NEW p \in Proc, StepList(p), p # q
      PROVE  pc'[q] = pc[q]
  BY <1>1 DEF StepList, Defer, Persist, PrepareSend, Send, RunAction, StepThrows, EndList,
     Complete, Advance
<1>2. ASSUME NEW x \in Run, RunNext(x), x # q
      PROVE  pc'[q] = pc[q]
  BY <1>2 DEF RunNext, Dispatch, CancelPendingForEntity, Unenrol, CheckEnrolled
<1>3. ASSUME WorkerNext
      PROVE  pc'[q] = pc[q]
  BY <1>3 DEF WorkerNext, Resume, WriteGuard, Settle, SettleFails, Boot, Claim, Advance
<1>4. ASSUME Environment, ~Crash
      PROVE  pc'[q] = pc[q]
  BY <1>4 DEF Environment, DelayElapses, StaleReclaim, TurnOff, CancelForWorkflow, TurnOn,
     Reply, CancelPendingJobsOnReply, memory
<1>5. CASE UNCHANGED vars
  BY <1>5 DEF vars, memory
<1> QED BY <1>1, <1>2, <1>3, <1>4, <1>5 DEF Next

LEMMA RestartsStep ==
  ASSUME TypeOK, RestartsAreForced, [Next]_vars
  PROVE  /\ RestartsAreForced'
         /\ \A w \in Once, e \in Entity : Restarts(w, e) \subseteq Restarts(w, e)'
<1> SUFFICES ASSUME NEW q \in Run
             PROVE  /\ pc'[q] \in {"restart", "unenrol"} => q \in Forced
                    /\ pc[q] \notin {"idle", "restart", "unenrol"} =>
                         pc'[q] \notin {"idle", "restart", "unenrol"}
  BY DEF RestartsAreForced, Restarts, Key
<1> USE QueueAssumption DEF TypeOK, MemoryOK, Proc, Goto
<1>1. CASE pc'[q] = pc[q]
  BY <1>1 DEF RestartsAreForced
<1>2. CASE RunNext(q)
  BY <1>2 DEF RunNext, Dispatch, CancelPendingForEntity, Unenrol, CheckEnrolled, RestartsAreForced
<1>3. CASE StepList(q)
  BY <1>3 DEF StepList, Defer, Persist, PrepareSend, Send, RunAction, StepThrows, EndList,
     Complete, Advance
<1>4. CASE Crash
  BY <1>4 DEF Crash, RunEnded, RestartsAreForced
<1> QED BY <1>1, <1>2, <1>3, <1>4, RequestStep

\* An enrollment is deleted by a forced restart only.
LEMMA EnrolledStep ==
  ASSUME TypeOK, [Next]_vars
  PROVE  \/ enrolled \subseteq enrolled'
         \/ \E q \in Run : Unenrol(q) /\ wfOf[q] \in Once /\ enrolled' = enrolled \ {Key(q)}
<1>1. ASSUME NEW p \in Proc, StepList(p)
      PROVE  enrolled \subseteq enrolled'
  BY <1>1 DEF StepList, Defer, ClaimOnceEnrollment, Persist, PrepareSend, Send, RunAction,
     StepThrows, EndList, Complete, durable
<1>2. ASSUME NEW q \in Run, RunNext(q), ~Unenrol(q)
      PROVE  enrolled \subseteq enrolled'
  BY <1>2 DEF RunNext, Dispatch, CancelPendingForEntity, CheckEnrolled, durable
<1>3. ASSUME NEW q \in Run, Unenrol(q)
      PROVE  \/ enrolled \subseteq enrolled'
             \/ wfOf[q] \in Once /\ enrolled' = enrolled \ {Key(q)}
  BY <1>3 DEF Unenrol
<1>4. CASE WorkerNext
  BY <1>4 DEF WorkerNext, Resume, WriteGuard, Settle, SettleFails, Boot, Claim, durable
<1>5. CASE Environment
  BY <1>5 DEF Environment, DelayElapses, StaleReclaim, TurnOff, CancelForWorkflow, TurnOn,
     Reply, CancelPendingJobsOnReply, Crash, durable
<1>6. CASE UNCHANGED vars
  BY <1>6 DEF vars, durable
<1> QED BY <1>1, <1>2, <1>3, <1>4, <1>5, <1>6 DEF Next

\* A run becomes a holder by taking the enrollment.
LEMMA HolderStep ==
  ASSUME TypeOK, SendsAnEmail, [Next]_vars, NEW w \in Once, NEW e \in Entity,
         NEW q \in Holders(w, e)', q \notin Holders(w, e)
  PROVE  /\ <<w, e>> \notin enrolled /\ <<w, e>> \in enrolled'
         /\ pc'[q] # pc[q] /\ \A x \in Run \ {q} : pc'[x] = pc[x]
<1> USE QueueAssumption DEF TypeOK, MemoryOK, Proc, Goto
<1>1. q \in Run /\ Key(q) = <<w, e>> /\ wfOf[q] = w /\ Rows(q) = {} /\ pc[q] # "persist"
  BY DEF Holders, Key
<1>2. Rows(q)' = {}
  <2> SUFFICES ASSUME NEW p \in Proc, Persist(p), RunOf(p) = q PROVE FALSE
    BY <1>1, RowsStep
  <2>1. p = Worker
    BY <1>1 DEF Persist, RunOf
  <2>2. cur \in Rows(q)
    BY <2>1 DEF Persist, RunOf, Rows, DurableOK
  <2> QED BY <1>1, <2>2
<1>3. pc'[q] = "persist"
  BY <1>2 DEF Holders
<1>4. ~RunNext(q)
  BY <1>1, <1>3 DEF RunNext, Dispatch, CancelPendingForEntity, Unenrol, CheckEnrolled
<1>5. ~Crash
  BY <1>1, <1>3 DEF Crash
<1>6. StepList(q)
  BY <1>1, <1>3, <1>4, <1>5, RequestStep
<1>7. Defer(q)
  BY <1>1, <1>3, <1>6 DEF StepList, Persist, PrepareSend, Send, RunAction, StepThrows, EndList,
     Complete, Advance
<1>8. RunOf(q) = q
  BY <1>1 DEF RunOf
<1>9. /\ Key(q) \notin enrolled /\ enrolled' = enrolled \cup {Key(q)}
      /\ pc' = [pc EXCEPT ![q] = "persist"]
  BY <1>1, <1>3, <1>7, <1>8 DEF Defer, ClaimOnceEnrollment
<1> QED BY <1>1, <1>3, <1>9

LEMMA HoldersFinite ==
  ASSUME TypeOK, ParkedRunsEnded, FinitePlay, NEW w, NEW e
  PROVE  /\ IsFiniteSet(Holders(w, e)) /\ Cardinality(Holders(w, e)) \in Nat
         /\ IsFiniteSet(Restarts(w, e)) /\ Cardinality(Restarts(w, e)) \in Nat
<1>1. Holders(w, e) \subseteq Dispatched
  BY DEF Holders, Dispatched, ParkedRunsEnded, RunEnded
<1>2. Restarts(w, e) \subseteq Dispatched
  BY DEF Restarts, Dispatched
<1> QED BY <1>1, <1>2, Counting DEF FinitePlay

LEMMA EnrolledOnceStep ==
  ASSUME TypeOK, SendsAnEmail, ParkedRunsEnded, FinitePlay, FinitePlay', RestartsAreForced,
         EnrolledOnce, [Next]_vars
  PROVE  EnrolledOnce'
<1> SUFFICES ASSUME NEW w \in Once, NEW e \in Entity
             PROVE  Cardinality(Holders(w, e)') + Free(w, e)' <= 1 + Cardinality(Restarts(w, e)')
  BY DEF EnrolledOnce
<1> DEFINE h  == Cardinality(Holders(w, e))
           h2 == Cardinality(Holders(w, e)')
           s  == Cardinality(Restarts(w, e))
           s2 == Cardinality(Restarts(w, e)')
<1>1. h \in Nat /\ s \in Nat /\ IsFiniteSet(Holders(w, e)) /\ IsFiniteSet(Restarts(w, e))
  BY HoldersFinite
<1>2. h + Free(w, e) <= 1 + s
  BY DEF EnrolledOnce
<1>3. Restarts(w, e) \subseteq Restarts(w, e)' /\ s2 \in Nat /\ s <= s2
  <2>1. Restarts(w, e)' \subseteq Dispatched'
    BY DEF Restarts, Dispatched, Key
  <2>2. IsFiniteSet(Restarts(w, e)') /\ s2 \in Nat
    BY <2>1, Counting DEF FinitePlay
  <2>3. Restarts(w, e) \subseteq Restarts(w, e)'
    BY RestartsStep
  <2> QED BY <2>2, <2>3, Counting
<1>4. Free(w, e) \in {0, 1} /\ Free(w, e)' \in {0, 1}
  BY DEF Free
<1>5. CASE \E q \in Holders(w, e)' : q \notin Holders(w, e)
  <2>1. PICK q \in Holders(w, e)' : q \notin Holders(w, e)
    BY <1>5
  <2>2. Free(w, e) = 1 /\ Free(w, e)' = 0
    BY <2>1, HolderStep DEF Free
  <2>3. Holders(w, e)' \subseteq Holders(w, e) \cup {q}
    <3> SUFFICES ASSUME NEW x \in Holders(w, e)', x \notin Holders(w, e), x # q PROVE FALSE
      OBVIOUS
    <3>1. q \in Run /\ pc'[q] # pc[q]
      BY <2>1, HolderStep DEF Holders
    <3> QED BY <3>1, HolderStep
  <2>4. h2 \in Nat /\ h2 <= h + 1
    <3>1. /\ IsFiniteSet(Holders(w, e) \cup {q}) /\ Cardinality(Holders(w, e) \cup {q}) = h + 1
      BY <1>1, <2>1, Counting
    <3> QED BY <2>3, <3>1, Counting
  <2> QED BY <1>1, <1>2, <1>3, <2>2, <2>4
<1>6. CASE Holders(w, e)' \subseteq Holders(w, e)
  <2>1. h2 \in Nat /\ h2 <= h
    BY <1>1, <1>6, Counting
  <2>2. CASE Free(w, e)' <= Free(w, e)
    BY <1>1, <1>2, <1>3, <1>4, <2>1, <2>2
  <2>3. CASE Free(w, e) = 0 /\ Free(w, e)' = 1
    <3>1. PICK q \in Run : Unenrol(q) /\ enrolled' = enrolled \ {Key(q)}
      BY <2>3, EnrolledStep DEF Free
    <3>2. Key(q) = <<w, e>>
      BY <2>3, <3>1 DEF Free
    <3>3. q \in Restarts(w, e)' /\ q \notin Restarts(w, e)
      BY <3>1, <3>2, QueueAssumption
         DEF Unenrol, Goto, Restarts, RestartsAreForced, Key, TypeOK, MemoryOK, Proc
    <3>4. s2 >= s + 1
      <4>1. Cardinality(Restarts(w, e) \cup {q}) = s + 1
        BY <1>1, <3>3, Counting
      <4>2. Restarts(w, e) \cup {q} \subseteq Restarts(w, e)'
        BY <1>3, <3>3
      <4>3. IsFiniteSet(Restarts(w, e)')
        <5>1. Restarts(w, e)' \subseteq Dispatched'
          BY DEF Restarts, Dispatched, Key
        <5> QED BY <5>1, Counting DEF FinitePlay
      <4> QED BY <1>1, <1>3, <4>1, <4>2, <4>3, Counting
    <3> QED BY <1>1, <1>2, <1>3, <2>1, <2>3, <3>4
  <2> QED BY <1>4, <2>2, <2>3
<1> QED BY <1>5, <1>6

\* However many dispatches of a once-only workflow race for a record, one of them parks
\* rows, and one more for each forced restart that has deleted the enrollment: whoever
\* parks has inserted the enrollment, and a run that finds it taken parks nothing.
THEOREM OnceIsOnce == Spec => []OnceSchedulesOnce
<1> DEFINE IInv == /\ TypeOK /\ SendsAnEmail /\ ParkedRunsEnded /\ FinitePlay
                   /\ RestartsAreForced /\ EnrolledOnce
<1>1. Init => ParkedRunsEnded /\ FinitePlay /\ RestartsAreForced /\ EnrolledOnce
  <2> SUFFICES ASSUME Init
               PROVE  ParkedRunsEnded /\ FinitePlay /\ RestartsAreForced /\ EnrolledOnce
    OBVIOUS
  <2>1. Created = {} /\ Dispatched = {}
    BY QueueAssumption DEF Init, Created, Dispatched, Proc
  <2>2. \A q \in Run : pc[q] = "idle" /\ Rows(q) = {}
    BY DEF Init, Rows, Proc
  <2>3. \A w \in Once, e \in Entity :
          Holders(w, e) = {} /\ Restarts(w, e) = {} /\ Free(w, e) = 1
    BY <2>2 DEF Init, Holders, Restarts, Free
  <2> QED BY <2>1, <2>2, <2>3, FS_EmptySet
          DEF FinitePlay, ParkedRunsEnded, RestartsAreForced, EnrolledOnce
<1>2. IInv /\ [Next]_vars => ParkedRunsEnded' /\ FinitePlay' /\ RestartsAreForced'
  BY ParkedRunsEndedStep, FinitePlayStep, RestartsStep
<1>3. IInv /\ FinitePlay' /\ [Next]_vars => EnrolledOnce'
  BY EnrolledOnceStep
<1>4. IInv => OnceSchedulesOnce
  <2> DEFINE runs(w, e)   == {q \in Run : Key(q) = <<w, e>>}
             parked(w, e) == {q \in runs(w, e) : Rows(q) # {}}
  <2>1. ASSUME IInv, NEW w \in Once, NEW e \in Entity
        PROVE  Cardinality(parked(w, e)) <= 1 + Cardinality(Restarts(w, e))
    <3>1. parked(w, e) \subseteq Holders(w, e)
      BY DEF Holders
    <3>2. /\ IsFiniteSet(Holders(w, e)) /\ Cardinality(Holders(w, e)) \in Nat
          /\ Cardinality(Restarts(w, e)) \in Nat
      BY <2>1, HoldersFinite
    <3>3. /\ Cardinality(parked(w, e)) \in Nat
          /\ Cardinality(parked(w, e)) <= Cardinality(Holders(w, e))
      BY <3>1, <3>2, Counting
    <3>4. Cardinality(Holders(w, e)) + Free(w, e) <= 1 + Cardinality(Restarts(w, e))
      BY <2>1 DEF EnrolledOnce
    <3>5. Free(w, e) \in {0, 1}
      BY DEF Free
    <3> HIDE DEF parked
    <3> QED BY <3>2, <3>3, <3>4, <3>5
  <2>2. \A w \in Once, e \in Entity :
          Restarts(w, e) = {q \in runs(w, e) \cap Forced : pc[q] \notin {"idle", "restart", "unenrol"}}
    BY DEF Restarts
  <2> QED BY <2>1, <2>2 DEF OnceSchedulesOnce
<1> QED BY <1>1, <1>2, <1>3, <1>4, InductiveTypes, PTL DEF Spec
-----------------------------------------------------------------------------
(***************************************************************************)
(* A run that got to park keeps its steps.                                 *)
(***************************************************************************)

OnlyParksOnce(q) == wfOf[q] \in Once /\ ParksOnce(wfOf[q])

\* The row of such a run has no place to park left: what it begins with, if it
\* parks, is the email whose jitter has been served.
LastStretch(r) ==
  job[r] # NoJob /\ OnlyParksOnce(job[r].run) =>
    \A k \in 1..Len(Script[wfOf[job[r].run]]) :
      k >= job[r].next /\ Separates(Script[wfOf[job[r].run]][k]) =>
        /\ k = job[r].next /\ job[r].stripped
        /\ Script[wfOf[job[r].run]][k].kind = "email"

\* So the worker is not turned away: it remembers what the row says was served.
OnLastStretch ==
  /\ pc[Worker] \in Walking \ {"ended"} =>
       (at[Worker] = job[cur].next => stripped[Worker] = job[cur].stripped)
  /\ pc[Worker] = "ended" /\ OnlyParksOnce(RunOf(Worker)) => AtEnd(Worker)

\* Who is logged a success has left its request.
LoggedHaveEnded == \A q \in Run : outcome[q] = "success" => pc[q] \in RunEnded \ {"idle"}

KeepsItsSteps ==
  /\ \A r \in JobId : LastStretch(r)
  /\ OnLastStretch /\ LoggedHaveEnded /\ ParkedRunKeepsItsSteps

\* A row keeps all but its guard.
LEMMA StrippedKept ==
  ASSUME TypeOK, [Next]_vars, NEW r \in JobId, job[r] # NoJob
  PROVE  job'[r].stripped = job[r].stripped
<1>1. CASE \E p \in Proc : Persist(p)
  BY <1>1 DEF Persist, TypeOK, DurableOK
<1>2. CASE WriteGuard
  <2>1. PICK g : job' = [job EXCEPT ![cur].guard = g]
    BY <1>2 DEF WriteGuard
  <2>2. job \in [JobId -> Row \cup {NoJob}] /\ job[r] \in Row
    BY DEF TypeOK, DurableOK
  <2> QED BY <2>1, <2>2 DEF Row
<1> QED BY <1>1, <1>2, JobStep

LEMMA LastStretchStep ==
  ASSUME TypeOK, SendsAnEmail, InOrder, KeepsItsSteps, [Next]_vars, NEW r \in JobId
  PROVE  LastStretch(r)'
<1>1. CASE job[r] # NoJob
  <2>1. job'[r].run = job[r].run /\ job'[r].next = job[r].next /\ job'[r].stripped = job[r].stripped
    BY <1>1, RowKept, StrippedKept
  <2> QED BY <1>1, <2>1 DEF KeepsItsSteps, LastStretch, OnlyParksOnce
<1>2. CASE job[r] = NoJob /\ job'[r] # NoJob
  <2>1. PICK p \in Proc : Persist(p)
    BY <1>2, JobStep, GuardedRow DEF TypeOK, DurableOK, MemoryOK
  <2> DEFINE q == RunOf(p)
             n == IF StepOf(p).kind = "delay" THEN at[p] + 1 ELSE at[p]
  <2>2. job'[r].run = q /\ job'[r].next = n /\ job'[r].stripped = (StepOf(p).kind = "email")
    BY <1>2, <2>1 DEF Persist, TypeOK, DurableOK
  <2>3. /\ pc[p] = "persist" /\ ~AtEnd(p) /\ Parks(p)
        /\ p = Worker => pc[p] \notin {"down", "idle"}
    BY <2>1 DEF Persist, InOrder, WalkerOK
  <2>4. /\ q \in Run /\ at[p] \in 1..Len(Script[wfOf[q]]) /\ at[p] \in Nat
        /\ StepOf(p) = Script[wfOf[q]][at[p]]
    BY <2>3, StepFacts
  <2>5. Separates(StepOf(p))
    BY <2>3 DEF Parks, Separates
  <2> HIDE DEF q, n
  <2>6. ASSUME OnlyParksOnce(q), NEW k \in 1..Len(Script[wfOf[q]]), k >= n,
               Separates(Script[wfOf[q]][k])
        PROVE  k = n /\ StepOf(p).kind = "email" /\ Script[wfOf[q]][k].kind = "email"
    <3>1. k = at[p]
      BY <2>4, <2>5, <2>6 DEF OnlyParksOnce, ParksOnce
    <3>2. StepOf(p).kind # "delay"
      BY <2>4, <2>6, <3>1 DEF n
    <3> QED BY <2>4, <2>5, <3>1, <3>2 DEF n, Separates
  <2> QED BY <2>2, <2>6 DEF LastStretch, OnlyParksOnce
<1>3. CASE job'[r] = NoJob
  BY <1>3 DEF LastStretch
<1> QED BY <1>1, <1>2, <1>3

\* Such a worker finds no place to park.
LEMMA NotTurnedAway ==
  ASSUME TypeOK, InOrder, KeepsItsSteps, pc[Worker] = "step", ~AtEnd(Worker),
         OnlyParksOnce(RunOf(Worker))
  PROVE  ~Parks(Worker)
<1> SUFFICES ASSUME Parks(Worker) PROVE FALSE
  OBVIOUS
<1>1. Worker \in Proc /\ cur \in JobId /\ job[cur] # NoJob /\ RunOf(Worker) = job[cur].run
  BY DEF Proc, TypeOK, MemoryOK, DurableOK, RunOf
<1>2. /\ at[Worker] \in 1..Len(Script[wfOf[job[cur].run]])
      /\ StepOf(Worker) = Script[wfOf[job[cur].run]][at[Worker]]
  BY <1>1, StepFacts
<1>3. at[Worker] >= job[cur].next
  <2>1. job[cur].next <= at[Worker]
    BY <1>1 DEF InOrder, WalkerOK, Walking, OnRow
  <2> QED BY <1>1, <2>1 DEF TypeOK, DurableOK, MemoryOK, Row
<1>4. Separates(StepOf(Worker))
  BY DEF Parks, Separates
<1>5. at[Worker] = job[cur].next /\ job[cur].stripped /\ StepOf(Worker).kind = "email"
  BY <1>1, <1>2, <1>3, <1>4 DEF KeepsItsSteps, LastStretch
<1>6. stripped[Worker]
  BY <1>5 DEF KeepsItsSteps, OnLastStretch, Walking
<1> QED BY <1>5, <1>6 DEF Parks

\* The worker, once behind the first step of its row, has nothing to remember.
LEMMA BehindFirst ==
  ASSUME TypeOK, SendsAnEmail, InOrder, [Next]_vars, Advance(Worker), cur' = cur,
         pc[Worker] \in {"step", "sending", "sent"}
  PROVE  OnLastStretch'
<1>1. Worker \in Proc /\ cur \in JobId /\ job[cur] \in Row
  BY DEF Proc, TypeOK, MemoryOK, DurableOK
<1>2. pc'[Worker] = "step" /\ at'[Worker] = at[Worker] + 1 /\ at[Worker] \in Nat
  BY <1>1 DEF Advance, Goto, TypeOK, MemoryOK
<1>3. job'[cur].next = job[cur].next /\ job[cur].next <= at[Worker] /\ job[cur].next \in Nat
  BY <1>1, RunOfKept DEF InOrder, WalkerOK, Walking, OnRow, Row
<1> QED BY <1>2, <1>3 DEF OnLastStretch

LEMMA OnLastStretchStep ==
  ASSUME TypeOK, SendsAnEmail, InOrder, KeepsItsSteps, [Next]_vars
  PROVE  OnLastStretch'
<1>0. Worker \in Proc /\ Worker \notin Run
  BY QueueAssumption DEF Proc
<1>1. ASSUME pc[Worker] \in Walking, UNCHANGED <<at[Worker], stripped[Worker], cur>>
      PROVE  /\ job'[cur].next = job[cur].next /\ job'[cur].stripped = job[cur].stripped
             /\ RunOf(Worker)' = RunOf(Worker) /\ AtEnd(Worker)' = AtEnd(Worker)
  <2>1. cur \in JobId /\ job[cur] # NoJob
    BY <1>1 DEF Walking, TypeOK, MemoryOK, DurableOK
  <2> QED BY <1>0, <1>1, <2>1, SameStep, StrippedKept
<1>2. ASSUME pc[Worker] \in Walking \ {"ended"}, UNCHANGED <<at[Worker], stripped[Worker], cur>>,
             pc'[Worker] \in Walking,
             pc'[Worker] = "ended" /\ OnlyParksOnce(RunOf(Worker)) => AtEnd(Worker)
      PROVE  OnLastStretch'
  BY <1>1, <1>2 DEF KeepsItsSteps, OnLastStretch, OnlyParksOnce
<1>3. CASE StaysPut(Worker)
  BY <1>0, <1>1, <1>3 DEF StaysPut, KeepsItsSteps, OnLastStretch, OnlyParksOnce, Walking
<1>4. CASE Stops(Worker)
  BY <1>4 DEF Stops, OnLastStretch, Walking
<1>5. CASE Resume
  <2>1. CASE pc'[Worker] # "step"
    BY <1>0, <1>5, <2>1 DEF Resume, Goto, OnLastStretch, Walking, TypeOK, MemoryOK
  <2>2. CASE pc'[Worker] = "step"
    BY <1>0, <1>5, <2>2 DEF Resume, Goto, OnLastStretch, durable, TypeOK, MemoryOK
  <2> QED BY <2>1, <2>2
<1>6. CASE WriteGuard
  BY <1>6, BehindFirst DEF WriteGuard
<1>7. CASE Defer(Worker)
  <2>1. /\ pc[Worker] = "step" /\ ~AtEnd(Worker) /\ Parks(Worker)
        /\ UNCHANGED <<at[Worker], stripped[Worker], cur>> /\ pc'[Worker] \in {"persist", "ended"}
    BY <1>0, <1>7 DEF Defer, Goto, TypeOK, MemoryOK
  <2>2. ~OnlyParksOnce(RunOf(Worker))
    BY <2>1, NotTurnedAway
  <2> QED BY <1>2, <2>1, <2>2 DEF Walking
<1>8. CASE PrepareSend(Worker) \/ RunAction(Worker) \/ Send(Worker)
  <2>1. /\ pc[Worker] \in {"step", "sending"} /\ cur' = cur
        /\ \/ Advance(Worker)
           \/ Goto(Worker, "cancelled")
           \/ (Goto(Worker, "sending") \/ Goto(Worker, "sent")) /\ UNCHANGED <<at, stripped>>
    BY <1>8 DEF PrepareSend, AtEmail, RunAction, Send
  <2>2. CASE Goto(Worker, "cancelled")
    BY <1>0, <2>2 DEF Goto, OnLastStretch, Walking, TypeOK, MemoryOK
  <2>3. CASE (Goto(Worker, "sending") \/ Goto(Worker, "sent")) /\ UNCHANGED <<at, stripped>>
    BY <1>0, <1>2, <2>1, <2>3 DEF Goto, Walking, TypeOK, MemoryOK
  <2> QED BY <2>1, <2>2, <2>3, BehindFirst
<1>9. CASE Persist(Worker) \/ StepThrows(Worker) \/ Complete(Worker)
  BY <1>0, <1>9 DEF Persist, StepThrows, Complete, Goto, OnLastStretch, Walking, TypeOK, MemoryOK
<1>10. CASE EndList(Worker)
  <2>1. /\ pc[Worker] = "step" /\ AtEnd(Worker) /\ pc'[Worker] = "ended"
        /\ UNCHANGED <<at[Worker], stripped[Worker], cur>>
    BY <1>0, <1>10 DEF EndList, Goto, TypeOK, MemoryOK
  <2> QED BY <1>2, <2>1 DEF Walking
<1>11. CASE StepList(Worker)
  BY <1>7, <1>8, <1>9, <1>10, <1>11 DEF StepList
<1>12. CASE UNCHANGED vars
  BY <1>3, <1>12 DEF StaysPut, vars, memory
<1> QED BY <1>0, <1>3, <1>4, <1>5, <1>6, <1>11, <1>12, OthersAreCalm

LEMMA LoggedHaveEndedStep ==
  ASSUME TypeOK, SendsAnEmail, ParkedRunsEnded, KeepsItsSteps, [Next]_vars
  PROVE  LoggedHaveEnded'
<1> SUFFICES ASSUME NEW q \in Run, outcome'[q] = "success"
             PROVE  pc'[q] \in RunEnded \ {"idle"}
  BY DEF LoggedHaveEnded
<1>1. CASE outcome[q] = "success"
  BY <1>1, EndedStays DEF KeepsItsSteps, LoggedHaveEnded
<1>2. CASE outcome[q] # "success"
  <2>1. PICK p \in Proc : Complete(p) /\ RunOf(p) = q
    <3>1. PICK p \in Proc : Complete(p)
      BY <1>2, OthersStutter DEF Send, RunAction
    <3> QED BY <1>2, <3>1 DEF Complete, TypeOK, HistoryOK
  <2>2. CASE p = Worker
    <3>1. cur \in Rows(q)
      BY <2>1, <2>2 DEF Complete, RunOf, Rows, TypeOK, MemoryOK, DurableOK
    <3> QED BY <3>1, EndedStays DEF ParkedRunsEnded
  <2>3. CASE p = q
    BY <2>1, <2>3 DEF Complete, Goto, RunEnded, TypeOK, MemoryOK
  <2> QED BY <2>1, <2>2, <2>3 DEF RunOf
<1> QED BY <1>1, <1>2

LEMMA ParkedKeepStep ==
  ASSUME TypeOK, SendsAnEmail, ParkedRunsEnded, InOrder, KeepsItsSteps, [Next]_vars
  PROVE  ParkedRunKeepsItsSteps'
<1> SUFFICES ASSUME NEW q \in Run, OnlyParksOnce(q), Rows(q)' # {}, outcome'[q] = "success",
                    NEW i \in Effects[q]
             PROVE  ran'[q][i] > 0
  BY DEF ParkedRunKeepsItsSteps, OnlyParksOnce
<1>1. i \in StepIndex
  <2>1. Script[wfOf[q]] \in Seq(Step) /\ Len(Script[wfOf[q]]) <= MaxSteps
    BY QueueAssumption
  <2> QED BY <2>1, QueueAssumption DEF Effects, StepIndex
<1>2. ran[q][i] > 0 => ran'[q][i] > 0
  BY <1>1, RanGrows DEF Grows
<1>3. Rows(q) # {} \/ outcome[q] # "success"
  <2>1. CASE Rows(q)' = Rows(q)
    BY <2>1
  <2>2. ASSUME NEW p \in Proc, Persist(p), RunOf(p) = q
        PROVE  Rows(q) # {} \/ outcome[q] # "success"
    <3>1. CASE p = Worker
      BY <2>2, <3>1 DEF Persist, RunOf, Rows, TypeOK, MemoryOK, DurableOK
    <3>2. CASE p = q
      BY <2>2, <3>2 DEF Persist, KeepsItsSteps, LoggedHaveEnded, RunEnded
    <3> QED BY <2>2, <3>1, <3>2 DEF RunOf
  <2> QED BY <2>1, <2>2, RowsStep
<1>4. CASE outcome[q] = "success"
  BY <1>2, <1>3, <1>4 DEF KeepsItsSteps, ParkedRunKeepsItsSteps, OnlyParksOnce
<1>5. CASE outcome[q] # "success"
  <2>1. PICK p \in Proc : Complete(p) /\ RunOf(p) = q
    <3>1. PICK p \in Proc : Complete(p)
      BY <1>5, OthersStutter DEF Send, RunAction
    <3> QED BY <1>5, <3>1 DEF Complete, TypeOK, HistoryOK
  <2>2. Rows(q)' = Rows(q)
    BY <2>1 DEF Complete, Rows
  <2>3. p = Worker
    BY <2>1, <2>2 DEF Complete, ParkedRunsEnded, RunEnded, RunOf
  <2>4. AtEnd(Worker) /\ Passed(q, at[Worker]) /\ pc[Worker] = "ended"
    BY <2>1, <2>3 DEF Complete, KeepsItsSteps, OnLastStretch, InOrder, WalkerOK, Walking
  <2> QED BY <1>2, <2>1, <2>3, <2>4, PassedAll
<1> QED BY <1>4, <1>5

\* Finding 1 is no worse than it says: a once-only run whose script parks in one place,
\* and that got to park there, is not turned away by its own enrollment, through
\* crashes, reclaims and resumed rows; when it is logged a success it has done all.
THEOREM ParkedRunsKeepTheirSteps ==
  ASSUME ScriptsRearm
  PROVE  Spec => []ParkedRunKeepsItsSteps
<1> DEFINE IInv == TypeOK /\ SendsAnEmail /\ ParkedRunsEnded /\ InOrder /\ KeepsItsSteps
<1>1. Init => ParkedRunsEnded /\ InOrder /\ KeepsItsSteps
  <2> SUFFICES ASSUME Init PROVE ParkedRunsEnded /\ InOrder /\ KeepsItsSteps
    OBVIOUS
  <2>1. ParkedRunsEnded
    BY DEF Init, ParkedRunsEnded, Rows
  <2>2. InOrder
    BY DEF Init, InOrder, WalkerOK, RowOK, Walking, Proc
  <2>3. KeepsItsSteps
    BY DEF Init, KeepsItsSteps, LastStretch, OnLastStretch, LoggedHaveEnded,
       ParkedRunKeepsItsSteps, Walking, Proc
  <2> QED BY <2>1, <2>2, <2>3
<1>2. IInv /\ [Next]_vars => ParkedRunsEnded' /\ InOrder' /\ KeepsItsSteps'
  <2> SUFFICES ASSUME IInv, [Next]_vars PROVE ParkedRunsEnded' /\ InOrder' /\ KeepsItsSteps'
    OBVIOUS
  <2>1. ParkedRunsEnded' /\ InOrder'
    BY ParkedRunsEndedStep, InOrderStep
  <2>2. OnLastStretch' /\ LoggedHaveEnded' /\ ParkedRunKeepsItsSteps'
    BY OnLastStretchStep, LoggedHaveEndedStep, ParkedKeepStep
  <2>3. \A r \in JobId : LastStretch(r)'
    BY LastStretchStep
  <2> QED BY <2>1, <2>2, <2>3 DEF KeepsItsSteps
<1>3. IInv => ParkedRunKeepsItsSteps
  BY DEF KeepsItsSteps
<1> QED BY <1>1, <1>2, <1>3, InductiveTypes, PTL DEF Spec
=============================================================================
