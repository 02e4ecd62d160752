------------------------ MODULE WhatsAppCampaignProofs ------------------------
(***************************************************************************)
(* Proofs about WhatsAppCampaign, for any list of recipients, any number   *)
(* of send loops and of requests, any crashes and faults.                  *)
(***************************************************************************)
EXTENDS WhatsAppCampaign, FiniteSetTheorems, TLAPS

USE CampaignAssumption

-----------------------------------------------------------------------------
(* Type correctness.                                                       *)

LEMMA InitType == Init => TypeOK
<1> SUFFICES ASSUME Init PROVE TypeOK
  OBVIOUS
<1>1. doc \in Document
  BY DEF Init, Document, Status, Entry, Delivery
<1>2. ControlOK
  BY DEF Init, ControlOK, Proc, ExecutorPc, RequestPc
<1>3. HistoryOK
  BY DEF Init, HistoryOK
<1> QED BY <1>1, <1>2, <1>3 DEF TypeOK, Init

LEMMA CopyType ==
  ASSUME ControlOK, NEW p \in Proc, pc[p] \notin {"off", "start", "loop", "final", "idle", "done"}
  PROVE  snap[p] \in Document
BY DEF ControlOK

LEMMA SaveStatusType ==
  ASSUME doc \in Document, HistoryOK, NEW s \in Status, SaveStatus(s)
  PROVE  doc' \in Document /\ strays' \in [Executor -> Nat]
<1>1. doc' \in Document
  BY DEF SaveStatus, Document
<1>2. strays' \in [Executor -> Nat]
  BY DEF HistoryOK, SaveStatus
<1> QED BY <1>1, <1>2

\* The last step of a request.
LEMMA DoneControl ==
  ASSUME ControlOK, NEW q \in Request, pc[q] \in Command, Forget(q), UNCHANGED <<todo, target>>,
         Goto(q, "done") \/ GotoAndRun(q, "done")
  PROVE  ControlOK'
<1>1. q \in Proc /\ q \notin Executor /\ q # Scheduler
  BY DEF Proc
<1>2. pc' \in [Proc -> ExecutorPc \cup RequestPc \cup {"due"}] /\ pc'[q] = "done"
  BY <1>1 DEF ControlOK, Goto, GotoAndRun, ExecutorPc, RequestPc, Proc
<1>3. \A p \in Proc \ {q} : pc'[p] = pc[p] \/ (p \in Executor /\ pc[p] = "off" /\ pc'[p] = "start")
  BY <1>1 DEF ControlOK, Goto, GotoAndRun
<1>4. snap' \in [Proc -> Document \cup {NoDoc}] /\ snap'[q] = NoDoc
      /\ \A p \in Proc \ {q} : snap'[p] = snap[p]
  BY <1>1 DEF ControlOK, Forget
<1> QED
  BY <1>1, <1>2, <1>3, <1>4 DEF ControlOK, Proc, ExecutorPc, RequestPc

LEMMA UpdateDoc ==
  ASSUME TypeOK, NEW q \in Request, Update(q)
  PROVE  doc' \in Document /\ excuses' \in [Recipient -> Nat]
<1>1. snap[q] \in Document /\ doc \in Document /\ excuses \in [Recipient -> Nat]
  BY CopyType DEF Update, TypeOK, HistoryOK, Proc
<1>2. PICK s \in {snap[q].status, "draft", "scheduled"} :
        LET written == IF s = snap[q].status THEN doc.status ELSE s
        IN  \/ doc' = [doc EXCEPT !.status = written] /\ UNCHANGED excuses
            \/ \E R \in (SUBSET Recipient) \ {{}} :
                 \/ /\ VersionMatches(q)
                    /\ doc' = [doc EXCEPT
                         !.status = written, !.version = @ + 1,
                         !.list = [r \in Recipient |-> IF r \in R THEN "pending" ELSE "absent"]]
                    /\ excuses' = [r \in Recipient |->
                         IF snap[q].list[r] = "sent" THEN excuses[r] + 1 ELSE excuses[r]]
                 \/ Conflict(q)
  BY DEF Update
<1> DEFINE written == IF s = snap[q].status THEN doc.status ELSE s
<1>3. written \in Status
  BY <1>1, <1>2 DEF Status, Document
<1> HIDE DEF written
<1>4. CASE doc' = [doc EXCEPT !.status = written] /\ UNCHANGED excuses
  BY <1>1, <1>3, <1>4 DEF Document
<1>5. CASE Conflict(q)
  BY <1>1, <1>5 DEF Conflict
<1>6. ASSUME NEW R \in SUBSET Recipient,
             doc' = [doc EXCEPT
               !.status = written, !.version = @ + 1,
               !.list = [r \in Recipient |-> IF r \in R THEN "pending" ELSE "absent"]],
             excuses' = [r \in Recipient |->
               IF snap[q].list[r] = "sent" THEN excuses[r] + 1 ELSE excuses[r]]
      PROVE  doc' \in Document /\ excuses' \in [Recipient -> Nat]
  <2>1. [r \in Recipient |-> IF r \in R THEN "pending" ELSE "absent"] \in [Recipient -> Entry]
    BY DEF Entry, Delivery
  <2> DEFINE l == [r \in Recipient |-> IF r \in R THEN "pending" ELSE "absent"]
             v == doc.version + 1
  <2>2. doc' \in Document
    <3>1. doc' = [doc EXCEPT !.status = written, !.version = v, !.list = l]
      BY <1>6
    <3>2. v \in Nat
      BY <1>1 DEF Document
    <3> HIDE DEF l, v
    <3> QED BY <1>1, <1>3, <2>1, <3>1, <3>2 DEF Document, l
  <2>3. excuses' \in [Recipient -> Nat]
    BY <1>1, <1>6
  <2> QED BY <2>2, <2>3
<1> QED BY <1>2, <1>4, <1>5, <1>6 DEF written

LEMMA RelaunchDoc ==
  ASSUME TypeOK, NEW q \in Request, Relaunch(q)
  PROVE  doc' \in Document /\ strays' \in [Executor -> Nat]
<1>1. snap[q] \in Document /\ doc \in Document
  BY CopyType DEF Relaunch, TypeOK, Proc
<1>2. [r \in Recipient |-> IF snap[q].list[r] = "failed" THEN "pending" ELSE snap[q].list[r]]
        \in [Recipient -> Entry]
  BY <1>1 DEF Document, Entry, Delivery
<1> DEFINE l == [r \in Recipient |-> IF snap[q].list[r] = "failed" THEN "pending" ELSE snap[q].list[r]]
           v == doc.version + 1
<1>3. doc' \in Document
  <2>1. \/ doc' = doc
        \/ doc' = [doc EXCEPT !.status = "sending", !.version = v, !.failedCount = 0, !.list = l]
    BY DEF Relaunch
  <2>2. v \in Nat /\ "sending" \in Status
    BY <1>1 DEF Document, Status
  <2>3. l \in [Recipient -> Entry] /\ 0 \in Nat
    BY <1>2
  <2> HIDE DEF l, v
  <2> QED BY <1>1, <2>1, <2>2, <2>3 DEF Document
<1>4. strays' \in [Executor -> Nat]
  BY DEF Relaunch, TypeOK, HistoryOK
<1> QED BY <1>3, <1>4

LEMMA RequestType ==
  ASSUME TypeOK, NEW q \in Request, RequestNext(q)
  PROVE  TypeOK'
<1>0. q \in Proc /\ q \notin Executor /\ q # Scheduler
  BY DEF Proc
<1>1. ASSUME NEW command \in Commands, Accept(q, command) PROVE TypeOK'
  <2>1. ControlOK'
    BY <1>0, <1>1 DEF Accept, TypeOK, ControlOK, Load, Goto, Command, Proc, RequestPc
  <2> QED BY <1>1, <2>1 DEF Accept, TypeOK, HistoryOK, history
<1>2. CASE Update(q)
  <2>1. ControlOK'
    BY <1>2, DoneControl DEF Update, TypeOK, Command
  <2> QED BY <1>2, <2>1, UpdateDoc DEF Update, TypeOK, HistoryOK
<1>3. CASE Remove(q)
  <2>1. ControlOK'
    BY <1>3, DoneControl DEF Remove, TypeOK, Command
  <2> QED BY <1>3, <2>1 DEF Remove, TypeOK, HistoryOK, history
<1>4. CASE Cancel(q) \/ Pause(q)
  <2>1. ControlOK'
    BY <1>4, DoneControl DEF Cancel, Pause, TypeOK, Command
  <2>2. doc' \in Document /\ strays' \in [Executor -> Nat]
    BY <1>4, SaveStatusType DEF Cancel, Pause, Status, TypeOK
  <2> QED BY <1>4, <2>1, <2>2 DEF Cancel, Pause, TypeOK, HistoryOK
<1>5. CASE Resume(q) \/ Launch(q)
  <2>1. ControlOK'
    BY <1>5, DoneControl DEF Resume, Launch, TypeOK, Command
  <2>2. doc' \in Document /\ strays' \in [Executor -> Nat]
    BY <1>5, SaveStatusType DEF Resume, Launch, Status, TypeOK
  <2> QED BY <1>5, <2>1, <2>2 DEF Resume, Launch, TypeOK, HistoryOK
<1>6. CASE Relaunch(q)
  <2>1. ControlOK'
    BY <1>6, DoneControl DEF Relaunch, TypeOK, Command
  <2> QED BY <1>6, <2>1, RelaunchDoc DEF Relaunch, TypeOK, HistoryOK
<1> QED
  BY <1>1, <1>2, <1>3, <1>4, <1>5, <1>6 DEF RequestNext

LEMMA SchedulerType ==
  ASSUME TypeOK, FindDue \/ StartDue \/ ResumeStuck \/ Crash
  PROVE  TypeOK'
<1>0. Scheduler \in Proc /\ Scheduler \notin Executor \cup Request
  BY DEF Proc
<1>1. CASE FindDue
  <2>1. ControlOK'
    BY <1>0, <1>1 DEF FindDue, TypeOK, ControlOK, Load, Goto, Proc
  <2> QED BY <1>1, <2>1 DEF FindDue, TypeOK, HistoryOK, history
<1>2. CASE StartDue
  <2>1. PICK x \in Executor :
          pc[x] = "off" /\ pc' = [pc EXCEPT ![Scheduler] = "idle", ![x] = "start"]
    BY <1>2 DEF StartDue, GotoAndRun
  <2>2. ControlOK'
    BY <1>0, <1>2, <2>1 DEF StartDue, TypeOK, ControlOK, Forget, Proc, ExecutorPc, RequestPc
  <2>3. doc' \in Document /\ strays' \in [Executor -> Nat]
    BY <1>2, SaveStatusType DEF StartDue, Status, TypeOK
  <2> QED BY <1>2, <2>2, <2>3 DEF StartDue, TypeOK, HistoryOK
<1>3. CASE ResumeStuck
  <2>1. ControlOK'
    BY <1>0, <1>3 DEF ResumeStuck, TypeOK, ControlOK, Goto, Proc, ExecutorPc
  <2> QED BY <1>3, <2>1 DEF ResumeStuck, Fault, TypeOK, HistoryOK, history
<1>4. CASE Crash
  <2>1. \A r \in Recipient : Cardinality(Unsaved(r)) \in Nat
    BY FS_Subset, FS_CardinalityType DEF Unsaved
  <2>2. excuses' \in [Recipient -> Nat]
    BY <1>4, <2>1 DEF Crash, TypeOK, HistoryOK
  <2>3. ControlOK'
    BY <1>0, <1>4 DEF Crash, TypeOK, ControlOK, Proc, ExecutorPc, RequestPc
  <2> QED BY <1>4, <2>2, <2>3 DEF Crash, Fault, TypeOK, HistoryOK
<1> QED BY <1>1, <1>2, <1>3, <1>4

LEMMA ExecuteType ==
  ASSUME TypeOK, NEW x \in Executor, Execute(x) \/ BeginFails(x)
  PROVE  TypeOK'
<1>0. x \in Proc /\ x \notin Request /\ x # Scheduler
  BY DEF Proc
<1>1. CASE Begin(x) \/ BeginFails(x)
  <2>1. ControlOK'
    BY <1>0, <1>1 DEF Begin, BeginFails, Pending, TypeOK, ControlOK, Goto, Proc, ExecutorPc
  <2> QED BY <1>1, <2>1 DEF Begin, BeginFails, Fault, TypeOK, HistoryOK, history
<1>2. CASE Visit(x)
  <2>1. ControlOK'
    BY <1>0, <1>2 DEF Visit, TypeOK, ControlOK, Goto, Load, Proc, ExecutorPc
  <2> QED BY <1>2, <2>1 DEF Visit, TypeOK, HistoryOK, history
<1>3. CASE Send(x)
  <2>1. snap[x] \in Document /\ target[x] \in Recipient
    BY <1>0, <1>3, CopyType DEF Send, TypeOK, ControlOK
  <2>2. ASSUME NEW answer \in {"sent", "failed"}, Record(x, answer)
        PROVE  snap' \in [Proc -> Document \cup {NoDoc}]
               /\ snap'[x] \in Document /\ \A p \in Proc \ {x} : snap'[p] = snap[p]
    <3> DEFINE l == [snap[x].list EXCEPT ![target[x]] = answer]
               n == IF answer = "sent" THEN snap[x].sentCount + 1 ELSE snap[x].sentCount
               m == IF answer = "failed" THEN snap[x].failedCount + 1 ELSE snap[x].failedCount
               d == [snap[x] EXCEPT !.list = l, !.sentCount = n, !.failedCount = m]
    <3>1. snap' = [snap EXCEPT ![x] = d]
      BY <1>0, <2>2 DEF Record, TypeOK, ControlOK
    <3>2. l \in [Recipient -> Entry] /\ n \in Nat /\ m \in Nat
      BY <2>1 DEF Document, Entry, Delivery
    <3> HIDE DEF l, n, m
    <3>3. d \in Document
      BY <2>1, <3>2 DEF Document
    <3> HIDE DEF d
    <3> QED BY <1>0, <3>1, <3>3 DEF TypeOK, ControlOK
  <2>3. snap' \in [Proc -> Document \cup {NoDoc}]
        /\ snap'[x] \in Document /\ \A p \in Proc \ {x} : snap'[p] = snap[p]
    BY <1>3, <2>2 DEF Send
  <2>4. ControlOK'
    BY <1>0, <1>3, <2>1, <2>3 DEF Send, TypeOK, ControlOK, Goto, Proc, ExecutorPc
  <2>5. HistoryOK'
    BY <1>3, <2>1 DEF Send, Deliver, Fault, TypeOK, HistoryOK
  <2> QED BY <1>3, <2>4, <2>5 DEF Send, TypeOK
<1>4. CASE SaveOutcome(x)
  <2>1. snap[x] \in Document
    BY <1>0, <1>4, CopyType DEF SaveOutcome, TypeOK
  <2> DEFINE v == doc.version + 1
  <2>2. doc' \in Document
    <3>1. \/ doc' = doc
          \/ doc' = [doc EXCEPT !.version = v, !.list = snap[x].list,
                                !.sentCount = snap[x].sentCount, !.failedCount = snap[x].failedCount]
      BY <1>4 DEF SaveOutcome
    <3>2. v \in Nat /\ doc \in Document
      BY DEF TypeOK, Document
    <3>3. snap[x].list \in [Recipient -> Entry] /\ snap[x].sentCount \in Nat /\ snap[x].failedCount \in Nat
      BY <2>1 DEF Document
    <3> HIDE DEF v
    <3> QED BY <3>1, <3>2, <3>3 DEF Document
  <2>3. HistoryOK'
    BY <1>4 DEF SaveOutcome, TypeOK, HistoryOK
  <2>4. ControlOK'
    BY <1>0, <1>4 DEF SaveOutcome, TypeOK, ControlOK, Goto, Forget, Proc, ExecutorPc
  <2> QED BY <1>4, <2>2, <2>3, <2>4 DEF SaveOutcome, TypeOK
<1>5. CASE EndLoop(x)
  <2>1. ControlOK'
    BY <1>0, <1>5 DEF EndLoop, TypeOK, ControlOK, Goto, Proc, ExecutorPc
  <2> QED BY <1>5, <2>1 DEF EndLoop, TypeOK, HistoryOK, history
<1>6. CASE FinalRead(x)
  <2>1. ControlOK'
    BY <1>0, <1>6 DEF FinalRead, TypeOK, ControlOK, Goto, Load, Proc, ExecutorPc
  <2> QED BY <1>6, <2>1 DEF FinalRead, TypeOK, HistoryOK, history
<1>7. CASE Close(x)
  <2>1. ControlOK'
    BY <1>0, <1>7 DEF Close, TypeOK, ControlOK, Goto, Forget, Proc, ExecutorPc
  <2>2. doc' \in Document
    BY <1>7 DEF Close, Verdict, TypeOK, Document, Status
  <2> QED BY <1>7, <2>1, <2>2 DEF Close, TypeOK, HistoryOK, history
<1> QED
  BY <1>1, <1>2, <1>3, <1>4, <1>5, <1>6, <1>7 DEF Execute

LEMMA TypeStep == TypeOK /\ [Next]_vars => TypeOK'
<1> SUFFICES ASSUME TypeOK, [Next]_vars PROVE TypeOK'
  OBVIOUS
<1>1. CASE UNCHANGED vars
  BY <1>1 DEF vars, memory, history, TypeOK, ControlOK, HistoryOK
<1>2. CASE Next
  BY <1>2, RequestType, SchedulerType, ExecuteType DEF Next
<1> QED BY <1>1, <1>2

\* Every reachable state is well typed, and a process has a copy of the
\* document exactly between the load and the save of its handler.
THEOREM TypeCorrect == Spec => []TypeOK
<1> QED BY InitType, TypeStep, PTL DEF Spec

-----------------------------------------------------------------------------
(* At most one stray message per loop.                                     *)

\* A loop that has sent its stray message has to check the status again before
\* the next one.
StraysSpent ==
  \A x \in Executor :
    strays[x] # 0 =>
      /\ strays[x] = 1
      /\ doc.status # "sending"
      /\ pc[x] # "sending"

LEMMA StraysStep == TypeOK /\ StraysSpent /\ [Next]_vars => StraysSpent'
<1> SUFFICES ASSUME TypeOK, StraysSpent, [Next]_vars PROVE StraysSpent'
  OBVIOUS
<1>0. strays \in [Executor -> Nat] /\ Executor \subseteq Proc /\ Request \cap Executor = {}
      /\ Scheduler \notin Executor /\ pc \in [Proc -> ExecutorPc \cup RequestPc \cup {"due"}]
      /\ doc \in Document
  BY DEF TypeOK, ControlOK, HistoryOK, Proc
<1>1. CASE UNCHANGED vars
  BY <1>1 DEF vars, memory, history, StraysSpent
<1>2. ASSUME NEW q \in Request, RequestNext(q) PROVE StraysSpent'
  <2>1. \A x \in Executor : pc'[x] = "sending" => pc[x] = "sending"
    BY <1>0, <1>2 DEF RequestNext, Accept, Update, Remove, Cancel, Pause, Resume, Launch, Relaunch,
                      Goto, GotoAndRun
  <2>2. \/ strays' = strays /\ (doc'.status = "sending" => doc.status = "sending")
        \/ strays' = [x \in Executor |-> 0]
    <3>1. CASE \E command \in Commands : Accept(q, command)
      BY <3>1 DEF Accept, history
    <3>2. CASE Update(q)
      <4>1. strays' = strays
        BY <3>2 DEF Update
      <4>2. snap[q].status \in {"draft", "scheduled"} \/ doc'.status # "sending" \/ doc.status = "sending"
        BY <3>2, <1>0 DEF Update, Conflict, Document
      <4> QED BY <3>2, <4>1, <1>0 DEF Update, Conflict, Document
    <3>3. CASE Remove(q)
      BY <3>3 DEF Remove, history
    <3>4. CASE Cancel(q) \/ Pause(q)
      BY <3>4, <1>0 DEF Cancel, Pause, SaveStatus, Document
    <3>5. CASE Resume(q) \/ Launch(q)
      BY <3>5 DEF Resume, Launch, SaveStatus
    <3>6. CASE Relaunch(q)
      BY <3>6 DEF Relaunch
    <3> QED BY <1>2, <3>1, <3>2, <3>3, <3>4, <3>5, <3>6 DEF RequestNext
  <2> QED BY <1>0, <2>1, <2>2 DEF StraysSpent
<1>3. CASE FindDue \/ StartDue \/ ResumeStuck \/ Crash
  BY <1>0, <1>3 DEF FindDue, StartDue, ResumeStuck, Crash, SaveStatus, Goto, GotoAndRun, history, StraysSpent
<1>4. ASSUME NEW x \in Executor, Execute(x) \/ BeginFails(x) PROVE StraysSpent'
  <2>1. CASE Begin(x) \/ BeginFails(x) \/ EndLoop(x) \/ FinalRead(x)
    BY <1>0, <2>1 DEF Begin, BeginFails, EndLoop, FinalRead, Goto, history, StraysSpent
  <2>2. CASE Visit(x)
    BY <1>0, <2>2 DEF Visit, KeepGoing, Sending, Goto, history, StraysSpent
  <2>3. CASE Send(x)
    BY <1>0, <2>3 DEF Send, Deliver, Goto, StraysSpent
  <2>4. CASE SaveOutcome(x)
    BY <1>0, <2>4 DEF SaveOutcome, Goto, StraysSpent, Document
  <2>5. CASE Close(x)
    BY <1>0, <2>5 DEF Close, Verdict, Goto, StraysSpent, history, Document
  <2> QED BY <1>4, <2>1, <2>2, <2>3, <2>4, <2>5 DEF Execute
<1> QED BY <1>1, <1>2, <1>3, <1>4 DEF Next

\* After the campaign has left 'sending', a loop sends at most the one message
\* that was past its check: for any number of loops and any requests.
THEOREM OneStrayMessagePerLoop == Spec => []OneStrayPerLoop
<1>1. Init => StraysSpent
  BY DEF Init, StraysSpent
<1>2. TypeOK /\ StraysSpent => OneStrayPerLoop
  BY DEF TypeOK, HistoryOK, StraysSpent, OneStrayPerLoop
<1> QED BY <1>1, <1>2, InitType, TypeStep, StraysStep, PTL DEF Spec

-----------------------------------------------------------------------------
(* No delivery is taken back.                                              *)

\* The list as it was when the copy was loaded: only the outcome of a send
\* that is not saved yet sets the copy apart.
Loaded(p) ==
  IF p \in Executor /\ pc[p] = "save"
    THEN [snap[p].list EXCEPT ![target[p]] = "pending"] ELSE snap[p].list

\* What the version (__v) of a copy is good for: a copy never has a higher one
\* than the document, and with the same one it has the same recipients.
CopiesAgree ==
  \A p \in Proc :
    snap[p] # NoDoc =>
      /\ snap[p].version <= doc.version
      /\ snap[p].version = doc.version => Loaded(p) = doc.list
      /\ p \in Executor /\ pc[p] = "sending" => snap[p].list[target[p]] = "pending"

\* How a step may change the recipients: not at all, or under a new version.
ListStep ==
  \/ doc'.list = doc.list /\ doc'.version = doc.version
  \/ doc'.version = doc.version + 1

LEMMA ListSteps == TypeOK /\ [Next]_vars => ListStep
<1> SUFFICES ASSUME TypeOK, [Next]_vars PROVE ListStep
  OBVIOUS
<1>0. doc \in Document
  BY DEF TypeOK
<1>1. CASE UNCHANGED vars
  BY <1>1 DEF vars, ListStep
<1>2. ASSUME NEW q \in Request, RequestNext(q) PROVE ListStep
  <2>1. CASE Update(q)
    <3>1. PICK s \in {snap[q].status, "draft", "scheduled"} :
            LET written == IF s = snap[q].status THEN doc.status ELSE s
            IN  \/ doc' = [doc EXCEPT !.status = written] /\ UNCHANGED excuses
                \/ \E R \in (SUBSET Recipient) \ {{}} :
                     \/ /\ VersionMatches(q)
                        /\ doc' = [doc EXCEPT
                             !.status = written, !.version = @ + 1,
                             !.list = [r \in Recipient |-> IF r \in R THEN "pending" ELSE "absent"]]
                        /\ excuses' = [r \in Recipient |->
                             IF snap[q].list[r] = "sent" THEN excuses[r] + 1 ELSE excuses[r]]
                     \/ Conflict(q)
      BY <2>1 DEF Update
    <3> QED BY <1>0, <3>1 DEF Conflict, ListStep, Document
  <2>2. CASE Relaunch(q)
    BY <1>0, <2>2 DEF Relaunch, ListStep, Document
  <2>3. CASE Remove(q) \/ \E command \in Commands : Accept(q, command)
    BY <2>3 DEF Remove, Accept, ListStep
  <2>4. CASE Cancel(q) \/ Pause(q) \/ Resume(q) \/ Launch(q)
    BY <1>0, <2>4 DEF Cancel, Pause, Resume, Launch, SaveStatus, ListStep, Document
  <2> QED BY <1>2, <2>1, <2>2, <2>3, <2>4 DEF RequestNext
<1>3. CASE FindDue \/ StartDue \/ ResumeStuck \/ Crash
  BY <1>0, <1>3 DEF FindDue, StartDue, ResumeStuck, Crash, SaveStatus, ListStep, Document
<1>4. ASSUME NEW x \in Executor, Execute(x) \/ BeginFails(x) PROVE ListStep
  BY <1>0, <1>4 DEF Execute, Begin, BeginFails, Visit, Send, SaveOutcome, EndLoop, FinalRead, Close,
                    ListStep, Document
<1> QED BY <1>1, <1>2, <1>3, <1>4 DEF Next

\* How a step may change the copies: each is kept with its recipient in hand,
\* dropped, loaded afresh, or, in a loop, marked with the outcome of its send.
CopyStep(p) ==
  \/ /\ snap'[p] = snap[p] /\ pc'[p] = pc[p]
     /\ p \in Executor => target'[p] = target[p]
  \/ snap'[p] = NoDoc
  \/ /\ snap'[p] = doc /\ doc' = doc /\ pc'[p] # "save"
     /\ p \in Executor /\ pc'[p] = "sending" => doc.list[target'[p]] = "pending"
  \/ /\ p \in Executor /\ pc[p] = "sending" /\ pc'[p] = "save" /\ target'[p] = target[p]
     /\ target[p] \in Recipient /\ snap[p] \in Document /\ doc' = doc
     /\ snap'[p].version = snap[p].version
     /\ \E answer \in Delivery : snap'[p].list = [snap[p].list EXCEPT ![target[p]] = answer]

LEMMA RequestCopies ==
  ASSUME TypeOK, NEW q \in Request, RequestNext(q), NEW p \in Proc
  PROVE  CopyStep(p)
<1>0. q \in Proc /\ q \notin Executor /\ q # Scheduler /\ ControlOK
  BY DEF TypeOK, Proc
<1>1. CASE \E command \in Commands : Accept(q, command)
  BY <1>0, <1>1 DEF Accept, Load, Goto, ControlOK, Command, CopyStep
<1>2. CASE ~\E command \in Commands : Accept(q, command)
  <2>1. Forget(q) /\ target' = target /\ (Goto(q, "done") \/ GotoAndRun(q, "done"))
    BY <1>2 DEF RequestNext, Update, Remove, Cancel, Pause, Resume, Launch, Relaunch
  <2>2. ASSUME p # q PROVE pc'[p] = pc[p] \/ pc[p] = "off"
    BY <1>0, <2>1, <2>2 DEF Goto, GotoAndRun, ControlOK
  <2>3. snap'[q] = NoDoc /\ (p # q => snap'[p] = snap[p])
    BY <1>0, <2>1 DEF Forget, ControlOK
  <2> QED BY <1>0, <2>1, <2>2, <2>3 DEF CopyStep, ControlOK
<1> QED BY <1>1, <1>2

LEMMA SchedulerCopies ==
  ASSUME TypeOK, FindDue \/ StartDue \/ ResumeStuck \/ Crash, NEW p \in Proc
  PROVE  CopyStep(p)
<1>0. Scheduler \in Proc /\ Scheduler \notin Executor \cup Request /\ ControlOK
  BY DEF TypeOK, Proc
<1>1. CASE FindDue
  BY <1>0, <1>1 DEF FindDue, Load, Goto, ControlOK, CopyStep
<1>2. CASE StartDue
  <2>1. Forget(Scheduler) /\ target' = target /\ GotoAndRun(Scheduler, "idle")
    BY <1>2 DEF StartDue
  <2>2. ASSUME p # Scheduler PROVE pc'[p] = pc[p] \/ pc[p] = "off"
    BY <1>0, <2>1, <2>2 DEF GotoAndRun, ControlOK
  <2>3. snap'[Scheduler] = NoDoc /\ (p # Scheduler => snap'[p] = snap[p])
    BY <1>0, <2>1 DEF Forget, ControlOK
  <2> QED BY <1>0, <2>1, <2>2, <2>3 DEF CopyStep, ControlOK
<1>3. CASE ResumeStuck
  BY <1>0, <1>3 DEF ResumeStuck, Goto, ControlOK, CopyStep
<1>4. CASE Crash
  BY <1>4 DEF Crash, CopyStep
<1> QED BY <1>1, <1>2, <1>3, <1>4

LEMMA ExecutorCopies ==
  ASSUME TypeOK, NEW x \in Executor, Execute(x) \/ BeginFails(x), NEW p \in Proc
  PROVE  CopyStep(p)
<1>0. x \in Proc /\ ControlOK
  BY DEF TypeOK, Proc
<1>1. CASE Begin(x) \/ BeginFails(x) \/ EndLoop(x)
  BY <1>0, <1>1 DEF Begin, BeginFails, EndLoop, Goto, ControlOK, CopyStep
<1>2. CASE Visit(x)
  <2>1. PICK r \in todo[x] :
       \/ Goto(x, "final") /\ UNCHANGED <<snap, todo, target>>
       \/ UNCHANGED <<pc, snap, target>>
       \/ /\ StillPending(r) /\ Load(x) /\ Goto(x, "sending")
          /\ target' = [target EXCEPT ![x] = r]
    BY <1>2 DEF Visit
  <2> QED BY <1>0, <1>2, <2>1 DEF Visit, StillPending, Load, Goto, ControlOK, CopyStep
<1>3. CASE Send(x)
  <2>1. snap[x] \in Document /\ target[x] \in Recipient
    BY <1>0, <1>3, CopyType DEF Send, ControlOK
  <2>2. PICK answer \in {"sent", "failed"} : Record(x, answer)
    BY <1>3 DEF Send
  <2>3. snap'[x].list = [snap[x].list EXCEPT ![target[x]] = answer] /\ snap'[x].version = snap[x].version
        /\ \A o \in Proc \ {x} : snap'[o] = snap[o]
    BY <1>0, <2>1, <2>2 DEF Record, ControlOK, Document
  <2> QED BY <1>0, <1>3, <2>1, <2>3 DEF Send, Goto, ControlOK, CopyStep, Delivery
<1>4. CASE SaveOutcome(x)
  BY <1>0, <1>4 DEF SaveOutcome, Goto, Forget, ControlOK, CopyStep
<1>5. CASE FinalRead(x)
  BY <1>0, <1>5 DEF FinalRead, Goto, Load, ControlOK, CopyStep
<1>6. CASE Close(x)
  BY <1>0, <1>6 DEF Close, Goto, Forget, ControlOK, CopyStep
<1> QED BY <1>1, <1>2, <1>3, <1>4, <1>5, <1>6 DEF Execute

LEMMA CopySteps == TypeOK /\ [Next]_vars => \A p \in Proc : CopyStep(p)
<1> SUFFICES ASSUME TypeOK, [Next]_vars, NEW p \in Proc PROVE CopyStep(p)
  OBVIOUS
<1>1. CASE UNCHANGED vars
  BY <1>1 DEF vars, memory, CopyStep
<1> QED BY <1>1, RequestCopies, SchedulerCopies, ExecutorCopies DEF Next

LEMMA CopiesAgreeStep == TypeOK /\ CopiesAgree /\ [Next]_vars => CopiesAgree'
<1> SUFFICES ASSUME TypeOK, CopiesAgree, [Next]_vars, NEW p \in Proc, snap'[p] # NoDoc
             PROVE  (/\ snap[p].version <= doc.version
                     /\ snap[p].version = doc.version => Loaded(p) = doc.list
                     /\ p \in Executor /\ pc[p] = "sending" => snap[p].list[target[p]] = "pending")'
  BY DEF CopiesAgree
<1>1. ListStep /\ CopyStep(p) /\ TypeOK'
  BY ListSteps, CopySteps, TypeStep
<1>2. doc \in Document /\ doc' \in Document /\ doc.version \in Nat
  BY <1>1 DEF TypeOK, Document
<1>3. CASE snap'[p] = snap[p] /\ pc'[p] = pc[p] /\ (p \in Executor => target'[p] = target[p])
  <2>1. snap[p] \in Document /\ snap[p].version \in Nat
    BY <1>3 DEF TypeOK, ControlOK, Document
  <2>2. Loaded(p)' = Loaded(p)
    BY <1>3 DEF Loaded
  <2> QED BY <1>1, <1>2, <1>3, <2>1, <2>2 DEF CopiesAgree, ListStep
<1>4. CASE snap'[p] = doc /\ doc' = doc /\ pc'[p] # "save"
           /\ (p \in Executor /\ pc'[p] = "sending" => doc.list[target'[p]] = "pending")
  BY <1>2, <1>4 DEF Loaded
<1>5. CASE /\ p \in Executor /\ pc[p] = "sending" /\ pc'[p] = "save" /\ target'[p] = target[p]
           /\ target[p] \in Recipient /\ snap[p] \in Document /\ doc' = doc
           /\ snap'[p].version = snap[p].version
           /\ \E answer \in Delivery : snap'[p].list = [snap[p].list EXCEPT ![target[p]] = answer]
  <2>1. PICK answer \in Delivery : snap'[p].list = [snap[p].list EXCEPT ![target[p]] = answer]
    BY <1>5
  <2>2. snap[p] # NoDoc /\ snap[p].list \in [Recipient -> Entry]
    BY <1>5 DEF Document
  <2>3. snap[p].list[target[p]] = "pending" /\ Loaded(p) = snap[p].list
    BY <1>5, <2>2 DEF CopiesAgree, Loaded
  <2>4. Loaded(p)' = snap[p].list
    BY <1>5, <2>1, <2>2, <2>3 DEF Loaded
  <2> QED BY <1>5, <2>2, <2>3, <2>4 DEF CopiesAgree
<1> QED BY <1>1, <1>3, <1>4, <1>5 DEF CopyStep

\* The action of SentIsNeverLost.
SentIsKept ==
  \A r \in Recipient :
    doc.list[r] = "sent" /\ doc'.list[r] # "sent"
      => \E q \in Request : pc[q] = "update" /\ pc'[q] = "done"

LEMMA SentIsKeptStep == TypeOK /\ CopiesAgree /\ [Next]_vars => SentIsKept
<1> SUFFICES ASSUME TypeOK, CopiesAgree, [Next]_vars PROVE SentIsKept
  OBVIOUS
<1>0. doc \in Document /\ ControlOK /\ Executor \subseteq Proc /\ Request \subseteq Proc
      /\ Request \cap Executor = {}
  BY DEF TypeOK, Proc
<1>1. CASE UNCHANGED vars
  BY <1>1 DEF vars, SentIsKept
<1>2. ASSUME NEW q \in Request, RequestNext(q) PROVE SentIsKept
  <2>1. CASE Update(q)
    BY <1>0, <2>1 DEF Update, Goto, ControlOK, SentIsKept
  <2>2. CASE Relaunch(q)
    <3>1. CASE VersionMatches(q) /\ doc'.list = [r \in Recipient |->
                 IF snap[q].list[r] = "failed" THEN "pending" ELSE snap[q].list[r]]
      <4>1. snap[q] # NoDoc
        BY <1>0, <2>2 DEF Relaunch, ControlOK
      <4>2. snap[q].list = doc.list
        BY <1>0, <3>1, <4>1 DEF CopiesAgree, Loaded, VersionMatches
      <4> QED BY <3>1, <4>2 DEF SentIsKept
    <3>2. CASE doc' = doc
      BY <3>2 DEF SentIsKept
    <3> QED BY <1>0, <2>2, <3>1, <3>2 DEF Relaunch, Document
  <2>3. CASE Remove(q) \/ \E command \in Commands : Accept(q, command)
    BY <2>3 DEF Remove, Accept, SentIsKept
  <2>4. CASE Cancel(q) \/ Pause(q) \/ Resume(q) \/ Launch(q)
    BY <1>0, <2>4 DEF Cancel, Pause, Resume, Launch, SaveStatus, SentIsKept, Document
  <2> QED BY <1>2, <2>1, <2>2, <2>3, <2>4 DEF RequestNext
<1>3. CASE FindDue \/ StartDue \/ ResumeStuck \/ Crash
  BY <1>0, <1>3 DEF FindDue, StartDue, ResumeStuck, Crash, SaveStatus, SentIsKept, Document
<1>4. ASSUME NEW x \in Executor, SaveOutcome(x) PROVE SentIsKept
  <2>1. CASE VersionMatches(x) /\ doc'.list = snap[x].list
    <3>1. snap[x] \in Document /\ snap[x] # NoDoc /\ target[x] \in Recipient
      BY <1>0, <1>4, CopyType DEF SaveOutcome, ControlOK
    <3>2. doc.list = [snap[x].list EXCEPT ![target[x]] = "pending"]
      BY <1>0, <1>4, <2>1, <3>1 DEF CopiesAgree, Loaded, VersionMatches, SaveOutcome
    <3>3. snap[x].list \in [Recipient -> Entry]
      BY <3>1 DEF Document
    <3> QED BY <2>1, <3>1, <3>2, <3>3 DEF SentIsKept
  <2>2. CASE doc' = doc
    BY <2>2 DEF SentIsKept
  <2> QED BY <1>0, <1>4, <2>1, <2>2 DEF SaveOutcome, Document
<1>5. ASSUME NEW x \in Executor, (Execute(x) /\ ~SaveOutcome(x)) \/ BeginFails(x) PROVE SentIsKept
  BY <1>0, <1>5 DEF Execute, Begin, BeginFails, Visit, Send, EndLoop, FinalRead, Close, SentIsKept, Document
<1> QED BY <1>1, <1>2, <1>3, <1>4, <1>5 DEF Next

LEMMA CopiesAlwaysAgree == Spec => [](TypeOK /\ CopiesAgree)
<1>1. Init => TypeOK /\ CopiesAgree
  BY InitType DEF Init, CopiesAgree
<1>2. TypeOK /\ CopiesAgree /\ [Next]_vars => (TypeOK /\ CopiesAgree)'
  BY TypeStep, CopiesAgreeStep
<1> QED BY <1>1, <1>2, PTL DEF Spec

\* Whatever loops and requests save their copies in whatever order, a recipient
\* recorded as sent stays so until the user replaces the list.
THEOREM DeliveriesAreNeverLost == Spec => SentIsNeverLost
<1>1. TypeOK /\ CopiesAgree /\ [Next]_vars => [SentIsKept]_vars
  BY SentIsKeptStep
<1>2. Spec => [][SentIsKept]_vars
  BY <1>1, CopiesAlwaysAgree, PTL DEF Spec
<1> QED BY <1>2 DEF SentIsNeverLost, SentIsKept

-----------------------------------------------------------------------------
(* A campaign is closed over settled recipients.                           *)

\* A loop is about to close the campaign only with a copy that has nobody pending.
ClosersAreSettled == \A x \in Executor : pc[x] = "close" => Pending(snap[x]) = {}

\* The action of ClosedIsSettled.
CloseIsSettled ==
  doc.status \notin Closed /\ doc'.status \in Closed
    => \/ Pending(doc') = {}
       \/ \E x \in Executor : /\ pc[x] = "close" /\ pc'[x] = "off"
                             /\ snap[x].version # doc.version

LEMMA ClosersStep == TypeOK /\ ClosersAreSettled /\ [Next]_vars => ClosersAreSettled'
<1> SUFFICES ASSUME TypeOK, ClosersAreSettled, [Next]_vars, NEW y \in Executor, pc'[y] = "close"
             PROVE  Pending(snap[y])' = {}
  BY DEF ClosersAreSettled
<1>0. ControlOK /\ Executor \subseteq Proc /\ y \in Proc /\ Scheduler \notin Executor
      /\ Executor \cap Request = {}
  BY DEF TypeOK, Proc
<1>1. ASSUME pc[y] = "close", snap'[y] = snap[y] PROVE Pending(snap[y])' = {}
  BY <1>1 DEF ClosersAreSettled, Pending
<1>2. CASE UNCHANGED vars
  BY <1>1, <1>2 DEF vars, memory
<1>3. ASSUME NEW q \in Request, RequestNext(q) PROVE Pending(snap[y])' = {}
  <2>1. pc[y] = "close"
    BY <1>0, <1>3 DEF RequestNext, Accept, Update, Remove, Cancel, Pause, Resume, Launch, Relaunch,
                      Goto, GotoAndRun, ControlOK, Command
  <2>2. snap'[y] = snap[y]
    BY <1>0, <1>3 DEF RequestNext, Accept, Update, Remove, Cancel, Pause, Resume, Launch, Relaunch,
                      Load, Forget, ControlOK
  <2> QED BY <1>1, <2>1, <2>2
<1>4. CASE FindDue \/ StartDue \/ ResumeStuck \/ Crash
  BY <1>0, <1>1, <1>4 DEF FindDue, StartDue, ResumeStuck, Crash, Load, Forget, Goto, GotoAndRun, ControlOK
<1>5. ASSUME NEW x \in Executor, FinalRead(x) PROVE Pending(snap[y])' = {}
  BY <1>0, <1>1, <1>5 DEF FinalRead, Load, Goto, ControlOK, Pending
<1>6. ASSUME NEW x \in Executor, (Execute(x) /\ ~FinalRead(x)) \/ BeginFails(x)
      PROVE  Pending(snap[y])' = {}
  <2>1. pc[y] = "close" /\ y # x
    BY <1>0, <1>6 DEF Execute, Begin, BeginFails, Visit, Send, SaveOutcome, EndLoop, Close, Goto, ControlOK
  <2>2. snap'[y] = snap[y]
    BY <1>0, <1>6, <2>1 DEF Execute, Begin, BeginFails, Visit, Send, Record, SaveOutcome, EndLoop, Close,
                            Load, Forget, ControlOK
  <2> QED BY <1>1, <2>1, <2>2
<1> QED BY <1>2, <1>3, <1>4, <1>5, <1>6 DEF Next

LEMMA CloseStep ==
  TypeOK /\ CopiesAgree /\ ClosersAreSettled /\ [Next]_vars => CloseIsSettled
<1> SUFFICES ASSUME TypeOK, CopiesAgree, ClosersAreSettled, [Next]_vars,
                    doc.status \notin Closed, doc'.status \in Closed
             PROVE  \/ Pending(doc') = {}
                    \/ \E x \in Executor : /\ pc[x] = "close" /\ pc'[x] = "off"
                                          /\ snap[x].version # doc.version
  BY DEF CloseIsSettled
<1>0. doc \in Document /\ ControlOK /\ Executor \subseteq Proc
  BY DEF TypeOK, Proc
<1>1. ASSUME NEW s, SaveStatus(s) PROVE doc'.status = s
  BY <1>0, <1>1 DEF SaveStatus, Document
<1>2. ASSUME NEW q \in Request PROVE ~RequestNext(q)
  <2>1. ~Update(q)
    BY <1>0 DEF Update, Conflict, Document, Closed
  <2>2. ~Relaunch(q)
    BY <1>0 DEF Relaunch, Document, Closed
  <2>3. ~Remove(q) /\ ~\E command \in Commands : Accept(q, command)
    BY DEF Remove, Accept
  <2>4. ~Cancel(q) /\ ~Pause(q) /\ ~Resume(q) /\ ~Launch(q)
    BY <1>1 DEF Cancel, Pause, Resume, Launch, Closed
  <2> QED BY <2>1, <2>2, <2>3, <2>4 DEF RequestNext
<1>3. ~FindDue /\ ~StartDue /\ ~ResumeStuck /\ ~Crash
  BY <1>1 DEF FindDue, StartDue, ResumeStuck, Crash, Closed
<1>4. PICK x \in Executor : Close(x)
  BY <1>0, <1>2, <1>3 DEF Next, Execute, Begin, BeginFails, Visit, Send, SaveOutcome, EndLoop, FinalRead,
                          Document, vars
<1>5. pc[x] = "close" /\ pc'[x] = "off" /\ doc'.list = doc.list
  BY <1>0, <1>4 DEF Close, Goto, ControlOK, Document
<1>6. ASSUME snap[x].version = doc.version PROVE Pending(doc') = {}
  <2>1. snap[x] # NoDoc
    BY <1>0, <1>5 DEF ControlOK
  <2>2. snap[x].list = doc.list
    BY <1>0, <1>5, <1>6, <2>1 DEF CopiesAgree, Loaded
  <2> QED BY <1>5, <2>2 DEF ClosersAreSettled, Pending
<1> QED BY <1>5, <1>6

\* However many loops serve a campaign: it is closed with somebody left pending only
\* by a loop whose copy an edit or a relaunch has overtaken.
THEOREM ClosedOverSettled == Spec => ClosedIsSettled
<1>1. Init => ClosersAreSettled
  BY DEF Init, ClosersAreSettled, Proc
<1>2. Spec => []ClosersAreSettled
  BY <1>1, ClosersStep, CopiesAlwaysAgree, PTL DEF Spec
<1>3. TypeOK /\ CopiesAgree /\ ClosersAreSettled /\ [Next]_vars => [CloseIsSettled]_vars
  BY CloseStep
<1>4. Spec => [][CloseIsSettled]_vars
  BY <1>2, <1>3, CopiesAlwaysAgree, PTL DEF Spec
<1> QED BY <1>4 DEF ClosedIsSettled, CloseIsSettled

-----------------------------------------------------------------------------
(* Every further copy of the message is paid for.                          *)

Recorded(r) == IF doc.list[r] = "sent" THEN 1 ELSE 0

\* A message is recorded in the document, or known to a loop that has still to
\* save it, or has an excuse.
PaidFor(r) == copies[r] <= Recorded(r) + excuses[r] + Cardinality(Unsaved(r))

LEMMA UnsavedFinite ==
  \A r \in Recipient : IsFiniteSet(Unsaved(r)) /\ Cardinality(Unsaved(r)) \in Nat
BY FS_Subset, FS_CardinalityType DEF Unsaved

LEMMA UnsavedKept ==
  ASSUME \A x \in Executor :
           /\ pc'[x] = "save" <=> pc[x] = "save"
           /\ pc[x] = "save" => snap'[x] = snap[x] /\ target'[x] = target[x]
  PROVE  \A r \in Recipient : Unsaved(r)' = Unsaved(r)
BY DEF Unsaved

LEMMA RequestPaid ==
  ASSUME TypeOK, CopiesAgree, NEW q \in Request, RequestNext(q), NEW r \in Recipient, PaidFor(r)
  PROVE  PaidFor(r)'
<1>0. q \in Proc /\ q \notin Executor /\ ControlOK /\ HistoryOK /\ doc \in Document
      /\ copies[r] \in Nat /\ excuses[r] \in Nat /\ Executor \subseteq Proc
  BY DEF TypeOK, HistoryOK, Proc
<1>1. Unsaved(r)' = Unsaved(r)
  <2>1. \A x \in Executor : snap'[x] = snap[x] /\ (pc'[x] = pc[x] \/ (pc[x] = "off" /\ pc'[x] = "start"))
    BY <1>0 DEF RequestNext, Accept, Update, Remove, Cancel, Pause, Resume, Launch, Relaunch,
                Goto, GotoAndRun, Load, Forget, ControlOK
  <2>2. target' = target
    BY DEF RequestNext, Accept, Update, Remove, Cancel, Pause, Resume, Launch, Relaunch
  <2> QED BY <2>1, <2>2, UnsavedKept
<1>2. copies' = copies
  BY DEF RequestNext, Accept, Update, Remove, Cancel, Pause, Resume, Launch, Relaunch, history
<1>3. Cardinality(Unsaved(r)) \in Nat
  BY UnsavedFinite
<1>4. Recorded(r) + excuses[r] <= Recorded(r)' + excuses'[r] /\ excuses'[r] \in Nat
  <2>1. CASE Update(q)
    <3>1. PICK s \in {snap[q].status, "draft", "scheduled"} :
            LET written == IF s = snap[q].status THEN doc.status ELSE s
            IN  \/ doc' = [doc EXCEPT !.status = written] /\ UNCHANGED excuses
                \/ \E R \in (SUBSET Recipient) \ {{}} :
                     \/ /\ VersionMatches(q)
                        /\ doc' = [doc EXCEPT
                             !.status = written, !.version = @ + 1,
                             !.list = [t \in Recipient |-> IF t \in R THEN "pending" ELSE "absent"]]
                        /\ excuses' = [t \in Recipient |->
                             IF snap[q].list[t] = "sent" THEN excuses[t] + 1 ELSE excuses[t]]
                     \/ Conflict(q)
      BY <2>1 DEF Update
    <3>2. CASE doc'.list = doc.list /\ excuses' = excuses
      BY <1>0, <3>2 DEF Recorded
    <3>3. CASE VersionMatches(q) /\ excuses' = [t \in Recipient |->
                 IF snap[q].list[t] = "sent" THEN excuses[t] + 1 ELSE excuses[t]]
      <4>1. snap[q] # NoDoc
        BY <1>0, <2>1 DEF Update, ControlOK
      <4>2. snap[q].list = doc.list
        BY <1>0, <3>3, <4>1 DEF CopiesAgree, Loaded, VersionMatches
      <4> QED BY <1>0, <3>3, <4>2 DEF Recorded
    <3> QED BY <1>0, <3>1, <3>2, <3>3 DEF Conflict, Document
  <2>2. CASE Relaunch(q)
    <3>1. CASE VersionMatches(q) /\ doc'.list = [t \in Recipient |->
                 IF snap[q].list[t] = "failed" THEN "pending" ELSE snap[q].list[t]]
      <4>1. snap[q] # NoDoc
        BY <1>0, <2>2 DEF Relaunch, ControlOK
      <4>2. snap[q].list = doc.list
        BY <1>0, <3>1, <4>1 DEF CopiesAgree, Loaded, VersionMatches
      <4> QED BY <1>0, <2>2, <3>1, <4>2 DEF Recorded, Relaunch
    <3>2. CASE doc' = doc
      BY <1>0, <2>2, <3>2 DEF Recorded, Relaunch
    <3> QED BY <1>0, <2>2, <3>1, <3>2 DEF Relaunch, Document
  <2>3. CASE Remove(q) \/ \E command \in Commands : Accept(q, command)
    BY <1>0, <2>3 DEF Remove, Accept, Recorded, history
  <2>4. CASE Cancel(q) \/ Pause(q) \/ Resume(q) \/ Launch(q)
    BY <1>0, <2>4 DEF Cancel, Pause, Resume, Launch, SaveStatus, Recorded, Document
  <2> QED BY <2>1, <2>2, <2>3, <2>4 DEF RequestNext
<1>5. Recorded(r) \in Nat /\ Recorded(r)' \in Nat
  BY DEF Recorded
<1> QED BY <1>0, <1>1, <1>2, <1>3, <1>4, <1>5 DEF PaidFor

LEMMA SchedulerPaid ==
  ASSUME TypeOK, FindDue \/ StartDue \/ ResumeStuck \/ Crash, NEW r \in Recipient, PaidFor(r)
  PROVE  PaidFor(r)'
<1>0. ControlOK /\ HistoryOK /\ doc \in Document /\ Executor \subseteq Proc
      /\ Scheduler \in Proc /\ Scheduler \notin Executor
      /\ copies[r] \in Nat /\ excuses[r] \in Nat
  BY DEF TypeOK, HistoryOK, Proc
<1>1. Recorded(r)' = Recorded(r) /\ copies' = copies
  BY <1>0 DEF FindDue, StartDue, ResumeStuck, Crash, SaveStatus, Recorded, Document, history
<1>2. CASE Crash
  <2>1. Unsaved(r)' = {}
    BY <1>0, <1>2 DEF Crash, Unsaved
  <2>2. excuses'[r] = excuses[r] + Cardinality(Unsaved(r))
    BY <1>2 DEF Crash
  <2>3. Recorded(r) \in Nat
    BY DEF Recorded
  <2> QED BY <1>0, <1>1, <2>1, <2>2, <2>3, UnsavedFinite, FS_EmptySet DEF PaidFor
<1>3. CASE FindDue \/ StartDue \/ ResumeStuck
  <2>1. \A x \in Executor : snap'[x] = snap[x] /\ (pc'[x] = pc[x] \/ (pc[x] = "off" /\ pc'[x] = "start"))
    BY <1>0, <1>3 DEF FindDue, StartDue, ResumeStuck, Goto, GotoAndRun, Load, Forget, ControlOK
  <2>2. Unsaved(r)' = Unsaved(r)
    BY <1>3, <2>1, UnsavedKept DEF FindDue, StartDue, ResumeStuck
  <2>3. excuses' = excuses
    BY <1>3 DEF FindDue, StartDue, ResumeStuck, history
  <2> QED BY <1>1, <2>2, <2>3 DEF PaidFor
<1> QED BY <1>2, <1>3

LEMMA SendPaid ==
  ASSUME TypeOK, NEW x \in Executor, Send(x), NEW r \in Recipient, PaidFor(r)
  PROVE  PaidFor(r)'
<1>0. ControlOK /\ HistoryOK /\ x \in Proc /\ Executor \subseteq Proc /\ pc[x] = "sending"
      /\ copies[r] \in Nat /\ excuses[r] \in Nat /\ pc'[x] = "save" /\ target' = target
      /\ \A y \in Executor \ {x} : pc'[y] = pc[y]
  BY DEF TypeOK, HistoryOK, ControlOK, Proc, Send, Goto
<1>1. snap[x] \in Document /\ target[x] \in Recipient
  BY <1>0, CopyType DEF ControlOK
<1>2. Recorded(r)' = Recorded(r) /\ Recorded(r) \in Nat
  BY DEF Send, Recorded
<1>3. PICK answer \in {"sent", "failed"} :
        /\ Record(x, answer)
        /\ \/ answer = "sent" /\ Deliver(x) /\ excuses' = excuses
           \/ answer = "failed" /\ copies' = copies /\ excuses' = excuses
           \/ /\ answer = "failed" /\ Deliver(x)
              /\ excuses' = [excuses EXCEPT ![target[x]] = @ + 1]
  BY DEF Send
<1>4. snap'[x].list[target[x]] = answer /\ \A y \in Executor \ {x} : snap'[y] = snap[y]
  BY <1>0, <1>1, <1>3 DEF Record, ControlOK, Document
<1>5. x \notin Unsaved(r)
  BY <1>0 DEF Unsaved
<1>6. IF answer = "sent" /\ target[x] = r
        THEN Unsaved(r)' = Unsaved(r) \cup {x} ELSE Unsaved(r)' = Unsaved(r)
  BY <1>0, <1>3, <1>4 DEF Unsaved
<1>7. CASE target[x] # r
  BY <1>0, <1>2, <1>3, <1>6, <1>7 DEF Deliver, HistoryOK, PaidFor
<1>8. CASE target[x] = r
  <2>1. CASE answer = "sent"
    <3>1. copies'[r] = copies[r] + 1 /\ excuses' = excuses
      BY <1>0, <1>3, <1>8, <2>1 DEF Deliver, HistoryOK
    <3>2. Cardinality(Unsaved(r)') = Cardinality(Unsaved(r)) + 1
      BY <1>5, <1>6, <1>8, <2>1, UnsavedFinite, FS_AddElement
    <3> QED BY <1>0, <1>2, <3>1, <3>2, UnsavedFinite DEF PaidFor
  <2>2. CASE answer = "failed"
    <3>1. Unsaved(r)' = Unsaved(r)
      BY <1>6, <2>2
    <3>2. \/ copies'[r] = copies[r] /\ excuses'[r] = excuses[r]
          \/ copies'[r] = copies[r] + 1 /\ excuses'[r] = excuses[r] + 1
      BY <1>0, <1>3, <1>8, <2>2 DEF Deliver, HistoryOK
    <3>3. copies[r] \in Nat /\ excuses[r] \in Nat
      BY <1>0
    <3> QED BY <1>2, <3>1, <3>2, <3>3, UnsavedFinite DEF PaidFor
  <2> QED BY <1>3, <2>1, <2>2
<1> QED BY <1>7, <1>8

LEMMA SavePaid ==
  ASSUME TypeOK, CopiesAgree, NEW x \in Executor, SaveOutcome(x), NEW r \in Recipient, PaidFor(r)
  PROVE  PaidFor(r)'
<1>0. ControlOK /\ HistoryOK /\ x \in Proc /\ Executor \subseteq Proc /\ pc[x] = "save"
      /\ copies[r] \in Nat /\ excuses[r] \in Nat /\ copies' = copies /\ doc \in Document
      /\ pc'[x] # "save" /\ \A y \in Executor \ {x} : pc'[y] = pc[y]
  BY DEF TypeOK, HistoryOK, ControlOK, Proc, SaveOutcome, Goto
<1>1. snap[x] \in Document /\ snap[x] # NoDoc /\ target[x] \in Recipient
  BY <1>0, CopyType DEF ControlOK
<1>2. \A y \in Executor \ {x} : snap'[y] = snap[y] /\ target'[y] = target[y]
  BY <1>0 DEF SaveOutcome, Forget, ControlOK
<1>3. Unsaved(r)' = Unsaved(r) \ {x}
  BY <1>0, <1>2 DEF Unsaved
<1>4. ASSUME x \in Unsaved(r)
      PROVE  Cardinality(Unsaved(r)') = Cardinality(Unsaved(r)) - 1
  <2>1. IsFiniteSet(Unsaved(r))
    BY UnsavedFinite
  <2>2. Cardinality(Unsaved(r) \ {x}) = Cardinality(Unsaved(r)) - 1
    BY <1>4, <2>1, FS_RemoveElement
  <2> QED BY <1>3, <2>2
<1>5. ASSUME x \notin Unsaved(r)
      PROVE  Unsaved(r)' = Unsaved(r)
  BY <1>3, <1>5
<1>. Recorded(r) \in Nat /\ Recorded(r)' \in Nat /\ Cardinality(Unsaved(r)) \in Nat
     /\ copies[r] \in Nat /\ excuses[r] \in Nat /\ copies'[r] = copies[r]
  BY <1>0, UnsavedFinite DEF Recorded
<1>6. CASE VersionMatches(x) /\ doc'.list = snap[x].list /\ excuses' = excuses
  <2>1. doc.list = [snap[x].list EXCEPT ![target[x]] = "pending"]
    BY <1>0, <1>1, <1>6 DEF CopiesAgree, Loaded, VersionMatches
  <2>2. snap[x].list \in [Recipient -> Entry]
    BY <1>1 DEF Document
  <2>3. CASE x \in Unsaved(r)
    <3>1. Recorded(r) = 0 /\ Recorded(r)' = 1
      BY <1>1, <1>6, <2>1, <2>2, <2>3 DEF Recorded, Unsaved
    <3>2. Cardinality(Unsaved(r)') = Cardinality(Unsaved(r)) - 1 /\ excuses'[r] = excuses[r]
      BY <1>4, <1>6, <2>3
    <3> QED BY <3>1, <3>2 DEF PaidFor
  <2>4. CASE x \notin Unsaved(r)
    <3>1. Recorded(r) <= Recorded(r)'
      BY <1>0, <1>1, <1>6, <2>1, <2>2, <2>4 DEF Recorded, Unsaved
    <3>2. Unsaved(r)' = Unsaved(r) /\ excuses'[r] = excuses[r]
      BY <1>5, <1>6, <2>4
    <3> QED BY <3>1, <3>2 DEF PaidFor
  <2> QED BY <2>3, <2>4
<1>7. CASE doc' = doc /\ excuses' = [t \in Recipient |->
             IF x \in Unsaved(t) THEN excuses[t] + 1 ELSE excuses[t]]
  <2>1. Recorded(r)' = Recorded(r)
    BY <1>7 DEF Recorded
  <2>2. CASE x \in Unsaved(r)
    <3>1. Cardinality(Unsaved(r)') = Cardinality(Unsaved(r)) - 1 /\ excuses'[r] = excuses[r] + 1
      BY <1>4, <1>7, <2>2
    <3> QED BY <2>1, <3>1 DEF PaidFor
  <2>3. CASE x \notin Unsaved(r)
    <3>1. Unsaved(r)' = Unsaved(r) /\ excuses'[r] = excuses[r]
      BY <1>5, <1>7, <2>3
    <3> QED BY <2>1, <3>1 DEF PaidFor
  <2> QED BY <2>2, <2>3
<1> QED BY <1>0, <1>6, <1>7 DEF SaveOutcome, Document

LEMMA PaidStep ==
  TypeOK /\ CopiesAgree /\ (\A r \in Recipient : PaidFor(r)) /\ [Next]_vars
    => (\A r \in Recipient : PaidFor(r))'
<1> SUFFICES ASSUME TypeOK, CopiesAgree, [Next]_vars, NEW r \in Recipient, PaidFor(r)
             PROVE  PaidFor(r)'
  OBVIOUS
<1>1. CASE UNCHANGED vars
  BY <1>1 DEF vars, memory, history, PaidFor, Recorded, Unsaved
<1>2. ASSUME NEW x \in Executor,
             Begin(x) \/ BeginFails(x) \/ Visit(x) \/ EndLoop(x) \/ FinalRead(x) \/ Close(x)
      PROVE  PaidFor(r)'
  <2>0. ControlOK /\ x \in Proc /\ Executor \subseteq Proc /\ doc \in Document
    BY DEF TypeOK, Proc
  <2>1. \A y \in Executor : /\ pc'[y] = "save" <=> pc[y] = "save"
                            /\ pc[y] = "save" => snap'[y] = snap[y] /\ target'[y] = target[y]
    BY <1>2, <2>0 DEF Begin, BeginFails, Visit, EndLoop, FinalRead, Close, Goto, Load, Forget, ControlOK
  <2>2. Recorded(r)' = Recorded(r) /\ copies' = copies /\ excuses' = excuses
    BY <1>2, <2>0 DEF Begin, BeginFails, Visit, EndLoop, FinalRead, Close, Recorded, Document, history
  <2> QED BY <2>1, <2>2, UnsavedKept DEF PaidFor
<1> QED
  BY <1>1, <1>2, RequestPaid, SchedulerPaid, SendPaid, SavePaid DEF Next, Execute

\* For any list, any number of loops and requests and any faults: each message
\* after a recipient's first has an excuse or a loop that will die of it.
THEOREM EveryFurtherCopyIsPaidFor == Spec => []EveryCopyIsPaidFor
<1>1. Init => \A r \in Recipient : PaidFor(r)
  BY UnsavedFinite DEF Init, PaidFor, Recorded
<1>2. TypeOK /\ (\A r \in Recipient : PaidFor(r)) => EveryCopyIsPaidFor
  <2> SUFFICES ASSUME TypeOK, NEW r \in Recipient, PaidFor(r)
               PROVE  copies[r] <= 1 + excuses[r] + Cardinality(Unsaved(r))
    BY DEF EveryCopyIsPaidFor
  <2>1. copies[r] \in Nat /\ excuses[r] \in Nat
    BY DEF TypeOK, HistoryOK
  <2>2. Recorded(r) \in {0, 1}
    BY DEF Recorded
  <2>3. Cardinality(Unsaved(r)) \in Nat
    BY UnsavedFinite
  <2> QED BY <2>1, <2>2, <2>3 DEF PaidFor
<1> QED BY <1>1, <1>2, CopiesAlwaysAgree, PaidStep, PTL DEF Spec

=============================================================================
