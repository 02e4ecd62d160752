------------------------- MODULE EmailCampaignProofs -------------------------
(***************************************************************************)
(* Proofs about EmailCampaign, for any list of recipients, any number of   *)
(* overlapping runs and requests, any crashes and faults.                  *)
(***************************************************************************)
EXTENDS EmailCampaign, FiniteSetTheorems, TLAPS

USE EmailCampaignAssumption

-----------------------------------------------------------------------------
(* Type correctness.                                                       *)

LEMMA InitType == Init => TypeOK
<1> SUFFICES ASSUME Init PROVE TypeOK
  OBVIOUS
<1>1. doc \in Document /\ isDeleted \in BOOLEAN
  <2> DEFINE l == [r \in Recipient |-> "pending"]
  <2>1. l \in [Recipient -> Entry]
    BY DEF Entry
  <2>2. doc \in [status : {"draft", "scheduled"}, version : {0}, list : {l}] /\ isDeleted = FALSE
    BY DEF Init
  <2> HIDE DEF l
  <2> DEFINE S == {"draft", "scheduled"}
             V == {0}
             L == {l}
  <2>3. S \subseteq Status /\ V \subseteq Nat /\ L \subseteq [Recipient -> Entry]
    BY <2>1 DEF Status
  <2>4. doc \in [status : S, version : V, list : L]
    BY <2>2
  <2> HIDE DEF S, V, L
  <2> QED BY <2>2, <2>3, <2>4 DEF Document
<1>2. ControlOK
  <2>1. todo = [x \in Executor |-> {}] /\ tally = [x \in Executor |-> {}]
    BY DEF Init
  <2>2. pc = [p \in Proc |-> IF p \in Executor THEN "off" ELSE "idle"] /\ snap = [p \in Proc |-> NoDoc]
    BY DEF Init
  <2>3. /\ pc \in [Proc -> ExecutorPc \cup RequestPc]
        /\ snap \in [Proc -> Document \cup {NoDoc}]
        /\ todo \in [Executor -> SUBSET Recipient]
        /\ tally \in [Executor -> SUBSET {"sent", "failed"}]
    BY <2>1, <2>2 DEF ExecutorPc, RequestPc
  <2>4. ASSUME NEW p \in Proc
        PROVE  /\ snap[p] = NoDoc /\ pc[p] \in {"off", "idle"}
               /\ p \in Executor => pc[p] = "off"
               /\ p \in User => pc[p] = "idle"
    BY <2>2
  <2> QED BY <2>1, <2>3, <2>4 DEF ControlOK, Proc, ExecutorPc, RequestPc
<1>3. HistoryOK
  BY DEF Init, HistoryOK
<1> QED BY <1>1, <1>2, <1>3 DEF TypeOK

LEMMA CopyType ==
  ASSUME ControlOK, NEW p \in Proc, pc[p] \notin {"off", "called", "idle"}
  PROVE  snap[p] \in Document
BY DEF ControlOK

LEMMA SavedType ==
  ASSUME HistoryOK, NEW p \in Proc,
         StatusSaved(p) \/ KeepStatus(p) \/ (Outdate(p) /\ UNCHANGED overtaken)
  PROVE  outdated' \subseteq Proc /\ overtaken' \in Nat
BY DEF HistoryOK, StatusSaved, Outdate, KeepStatus

\* The last step of a request or a run.
LEMMA ReleaseControl ==
  ASSUME ControlOK, NEW p \in Proc, NEW l, p \in Executor => l = "off", p \in User => l = "idle",
         Goto(p, l), Forget(p), UNCHANGED todo, p \in Executor => todo[p] = {},
         \/ p \in User /\ UNCHANGED tally
         \/ p \in Executor /\ pc[p] # "sending" /\ UNCHANGED tally
         \/ p \in Executor /\ tally' = [tally EXCEPT ![p] = {}]
  PROVE  ControlOK'
<1>1. l \in {"off", "idle"} /\ pc' = [pc EXCEPT ![p] = l] /\ snap' = [snap EXCEPT ![p] = NoDoc]
  BY DEF Goto, Forget, Proc
<1> QED BY <1>1 DEF ControlOK, ExecutorPc, RequestPc, Proc

LEMMA RequestType ==
  ASSUME TypeOK, NEW q \in User, UserStep(q)
  PROVE  TypeOK'
<1>0. q \in Proc /\ q \notin Executor /\ doc \in Document /\ ControlOK /\ HistoryOK
  BY DEF TypeOK, Proc
<1>1. CASE \E command \in Command : Accept(q, command)
  <2>1. ControlOK'
    BY <1>0, <1>1 DEF Accept, Load, Goto, ControlOK, Command, ExecutorPc, RequestPc, Proc
  <2> QED BY <1>0, <1>1, <2>1 DEF Accept, Asked, TypeOK, HistoryOK, history
<1>2. CASE Update(q)
  <2>1. snap[q] \in Document
    BY <1>0, <1>2, CopyType DEF Update
  <2>2. doc' \in Document /\ (KeepStatus(q) \/ StatusSaved(q))
    <3>1. ASSUME NEW s \in {snap[q].status, "draft", "scheduled"}, NEW R \in SUBSET Recipient
          PROVE  Edited(q, s, R) \in Document
      BY <1>0, <2>1 DEF Edited, Document, Status, Entry
    <3> QED BY <1>0, <1>2, <3>1 DEF Update
  <2>3. outdated' \subseteq Proc /\ overtaken' \in Nat
    BY <1>0, <2>2, SavedType
  <2>4. ControlOK'
    BY <1>0, <1>2, ReleaseControl DEF Update
  <2> QED BY <1>0, <1>2, <2>2, <2>3, <2>4 DEF Update, TypeOK, HistoryOK, bounds
<1>3. CASE Remove(q)
  <2>1. ControlOK'
    BY <1>0, <1>3, ReleaseControl DEF Remove
  <2> QED BY <1>0, <1>3, <2>1 DEF Remove, TypeOK, HistoryOK, history, bounds
<1>4. CASE Cancel(q)
  <2>1. ControlOK'
    BY <1>0, <1>4, ReleaseControl DEF Cancel
  <2>2. doc' \in Document
    BY <1>0, <1>4 DEF Cancel, Document, Status
  <2>3. outdated' \subseteq Proc /\ overtaken' \in Nat
    BY <1>0, <1>4, SavedType DEF Cancel
  <2> QED BY <1>0, <1>4, <2>1, <2>2, <2>3 DEF Cancel, TypeOK, HistoryOK, bounds
<1> QED BY <1>1, <1>2, <1>3, <1>4 DEF UserStep

LEMMA StartType ==
  ASSUME TypeOK, SendNow \/ Restore \/ Crash \/ \E x \in Executor : FindDue(x)
  PROVE  TypeOK'
<1>0. ControlOK /\ HistoryOK
  BY DEF TypeOK
<1>1. CASE SendNow
  <2>1. ControlOK'
    BY <1>0, <1>1 DEF SendNow, Goto, ControlOK, ExecutorPc, Proc
  <2> QED BY <1>0, <1>1, <2>1 DEF SendNow, Asked, TypeOK, HistoryOK, history
<1>2. CASE Crash
  <2>1. ControlOK'
    BY <1>0, <1>2 DEF Crash, ControlOK, ExecutorPc, RequestPc, Proc
  <2> QED BY <1>0, <1>2, <2>1 DEF Crash, Fault, TypeOK, HistoryOK
<1>3. ASSUME NEW x \in Executor, FindDue(x) PROVE TypeOK'
  <2>1. ControlOK'
    BY <1>0, <1>3 DEF FindDue, Goto, ControlOK, ExecutorPc, Proc
  <2> QED BY <1>0, <1>3, <2>1 DEF FindDue, TypeOK, HistoryOK, history, bounds
<1>4. CASE Restore
  <2>1. ControlOK'
    BY <1>0, <1>4 DEF Restore, memory, ControlOK
  <2>2. HistoryOK'
    BY <1>0, <1>4 DEF Restore, Asked, history, HistoryOK
  <2>3. doc' \in Document /\ isDeleted' \in BOOLEAN
    BY <1>4 DEF Restore, TypeOK
  <2> QED BY <2>1, <2>2, <2>3 DEF TypeOK
<1> QED BY <1>1, <1>2, <1>3, <1>4

LEMMA ExecuteType ==
  ASSUME TypeOK, NEW x \in Executor, Execute(x) \/ Retry(x) \/ Throw(x) \/ FinishFails(x)
  PROVE  TypeOK'
<1>0. x \in Proc /\ x \notin User /\ doc \in Document /\ isDeleted \in BOOLEAN /\ ControlOK /\ HistoryOK
  BY DEF TypeOK, Proc
<1>1. CASE Find(x)
  <2>1. ControlOK'
    BY <1>0, <1>1 DEF Find, Load, Goto, ControlOK, ExecutorPc, Proc
  <2> QED BY <1>0, <1>1, <2>1 DEF TypeOK, Find, HistoryOK, history, bounds
<1>2. CASE Begin(x)
  <2>1. snap[x] \in Document
    BY <1>0, <1>2, CopyType DEF Begin
  <2>2. snap' = [snap EXCEPT ![x] = [snap[x] EXCEPT !.status = "sending"]]
    BY <1>0, <1>2 DEF Begin, ControlOK
  <2>3. [snap[x] EXCEPT !.status = "sending"] \in Document /\ doc' \in Document
    BY <1>0, <1>2, <2>1 DEF Begin, Document, Status
  <2>4. ControlOK'
    <3> DEFINE d == [snap[x] EXCEPT !.status = "sending"]
    <3>1. d \in Document /\ snap' = [snap EXCEPT ![x] = d]
      BY <2>2, <2>3
    <3> HIDE DEF d
    <3>2. PICK l \in {"sending", "failing"} :
            /\ pc' = [pc EXCEPT ![x] = l] /\ (l = "failing" => Pending(snap[x]) = {})
      BY <1>2 DEF Begin, Goto
    <3>3. Pending(snap[x]) \subseteq Recipient
      BY DEF Pending
    <3> QED BY <1>0, <1>2, <3>1, <3>2, <3>3 DEF Begin, ControlOK, ExecutorPc, Proc
  <2>5. outdated' \subseteq Proc /\ overtaken' \in Nat
    BY <1>0, <1>2, SavedType DEF Begin
  <2> QED BY <1>0, <1>2, <2>3, <2>4, <2>5 DEF TypeOK, Begin, HistoryOK, bounds
<1>3. CASE Send(x)
  <2>1. snap[x] \in Document
    BY <1>0, <1>3, CopyType DEF Send
  <2>2. PICK r \in Recipient, outcome \in {"sent", "failed"} :
          /\ Record(x, r, outcome)
          /\ todo' = [todo EXCEPT ![x] = @ \ {r}]
          /\ Deliver(r) \/ UNCHANGED copies
          /\ unsaid' = [unsaid EXCEPT ![r] = @ + 1] \/ UNCHANGED unsaid
          /\ Fault \/ UNCHANGED faults
    BY <1>3 DEF Send, Lose
  <2> DEFINE l == [snap[x].list EXCEPT ![r] = outcome]
             d == [snap[x] EXCEPT !.list = l]
  <2>3. d \in Document
    <3>1. l \in [Recipient -> Entry]
      BY <2>1 DEF Document, Entry
    <3> HIDE DEF l
    <3> QED BY <2>1, <3>1 DEF Document
  <2>4. snap' = [snap EXCEPT ![x] = d]
    BY <1>0, <2>2 DEF Record, ControlOK
  <2> HIDE DEF d
  <2>5. tally' \in [Executor -> SUBSET {"sent", "failed"}] /\ \A y \in Executor \ {x} : tally'[y] = tally[y]
    BY <1>0, <2>2 DEF Record, ControlOK
  <2>6. todo' \in [Executor -> SUBSET Recipient] /\ \A y \in Executor \ {x} : todo'[y] = todo[y]
    BY <1>0, <2>2 DEF ControlOK
  <2>7. ControlOK'
    BY <1>0, <1>3, <2>3, <2>4, <2>5, <2>6 DEF Send, ControlOK
  <2>8. HistoryOK'
    BY <1>0, <1>3, <2>2 DEF Send, Deliver, Fault, HistoryOK
  <2> QED BY <1>0, <1>3, <2>7, <2>8 DEF TypeOK, Send
<1>4. CASE Throw(x)
  <2>1. ControlOK'
    BY <1>0, <1>4 DEF Throw, Goto, ControlOK, ExecutorPc, Proc
  <2>2. copies' \in [Recipient -> Nat] /\ unsaid' \in [Recipient -> Nat]
    BY <1>0, <1>4 DEF Throw, Deliver, HistoryOK
  <2> QED BY <1>0, <1>4, <2>1, <2>2 DEF TypeOK, Throw, Fault, HistoryOK
<1>5. CASE Fail(x)
  <2>1. ControlOK'
    BY <1>0, <1>5, ReleaseControl DEF Fail, ControlOK
  <2>2. doc' \in Document
    BY <1>0, <1>5 DEF Fail, Document, Status
  <2>3. outdated' \subseteq Proc /\ overtaken' \in Nat
    BY <1>0, <1>5, SavedType DEF Fail
  <2> QED BY <1>0, <1>5, <2>1, <2>2, <2>3 DEF TypeOK, Fail, HistoryOK, bounds
<1>6. CASE Finish(x) \/ FinishFails(x)
  <2>1. ControlOK'
    BY <1>0, <1>6, ReleaseControl DEF Finish, FinishFails
  <2>2. (Abandon(x) \/ \E s \in Status : SaveOutcomes(x, s))
        /\ UNCHANGED <<isDeleted, copies, unsaid, requests>> /\ (Fault \/ UNCHANGED faults)
    BY <1>6 DEF Finish, FinishFails, Verdict, Status, bounds
  <2>3. doc' \in Document
    <3>1. snap[x] \in Document
      BY <1>0, <1>6, CopyType DEF Finish, FinishFails
    <3> DEFINE v == doc.version + 1
    <3>2. ASSUME NEW s \in Status, SaveOutcomes(x, s) PROVE doc' \in Document
      <4>1. doc' = [doc EXCEPT !.status = s, !.version = v, !.list = snap[x].list]
        BY <3>2 DEF SaveOutcomes
      <4>2. v \in Nat /\ snap[x].list \in [Recipient -> Entry]
        BY <1>0, <3>1 DEF Document
      <4> HIDE DEF v
      <4> QED BY <1>0, <4>1, <4>2 DEF Document
    <3> QED BY <1>0, <2>2, <3>2 DEF Abandon
  <2>4. outdated' \subseteq Proc /\ overtaken' \in Nat /\ abandoned' \in BOOLEAN
    BY <1>0, <2>2, SavedType DEF Abandon, SaveOutcomes, HistoryOK
  <2> QED BY <1>0, <2>1, <2>2, <2>3, <2>4 DEF TypeOK, Fault, HistoryOK
<1>7. CASE Retry(x)
  <2>1. UNCHANGED <<doc, isDeleted, memory>> /\ HistoryOK'
    BY <1>0, <1>7 DEF Retry, Lose, Deliver, Fault, HistoryOK
  <2> QED BY <1>0, <2>1 DEF memory, TypeOK, ControlOK
<1> QED BY <1>1, <1>2, <1>3, <1>4, <1>5, <1>6, <1>7 DEF Execute

LEMMA TypeStep == TypeOK /\ [Next]_vars => TypeOK'
<1> SUFFICES ASSUME TypeOK, [Next]_vars PROVE TypeOK'
  OBVIOUS
<1>1. CASE UNCHANGED vars
  BY <1>1 DEF vars, memory, history, bounds, TypeOK, ControlOK, HistoryOK
<1>2. CASE Next
  BY <1>2, RequestType, StartType, ExecuteType DEF Next
<1> QED BY <1>1, <1>2

\* Every reachable state is well typed, and a process has a copy of the campaign
\* exactly between the load and the last save of its handler.
THEOREM TypeCorrect == Spec => []TypeOK
<1> QED BY InitType, TypeStep, PTL DEF Spec

-----------------------------------------------------------------------------
(* What 'completed' stands for.  Why the last save of a run reports it only *)
(* over settled recipients, and why no edit takes that back: a save of the  *)
(* list matches the version of its copy, so that none has been saved since. *)

\* No copy is newer than the document.
VersionsOK == \A p \in Proc : snap[p] # NoDoc => snap[p].version <= doc.version

\* A run has an outcome for each recipient that it has been to.
RunsOK == \A x \in Executor : pc[x] = "sending" => Pending(snap[x]) \subseteq todo[x]

\* An edit that may still replace the list is not one of a completed campaign.
EditsOK == \A q \in User : pc[q] = "update" /\ VersionMatches(q) => doc.status # "completed"

SettledInv == TypeOK /\ VersionsOK /\ RunsOK /\ EditsOK /\ CompletedIsSettled

LEMMA InitSettled == Init => SettledInv
<1> SUFFICES ASSUME Init PROVE SettledInv
  OBVIOUS
<1>1. TypeOK
  BY InitType
<1>2. \A p \in Proc : snap[p] = NoDoc /\ pc[p] \in {"off", "idle"}
  BY DEF Init
<1>3. doc.status # "completed"
  BY DEF Init
<1> QED BY <1>1, <1>2, <1>3 DEF SettledInv, VersionsOK, RunsOK, EditsOK, CompletedIsSettled, Proc

\* A step that leaves the list and its version alone, and reports nothing
\* completed that was not; the steps of the copies are looked at apart.
LEMMA KeptListSettles ==
  ASSUME SettledInv, TypeOK', doc'.list = doc.list, doc'.version = doc.version,
         doc'.status = "completed" => doc.status = "completed",
         \A p \in Proc : snap'[p] = NoDoc \/ snap'[p].version = doc.version
                         \/ (snap[p] # NoDoc /\ snap'[p].version = snap[p].version),
         \A q \in User : pc'[q] = "update" =>
           \/ doc'.status # "completed"
           \/ pc[q] = "update" /\ snap'[q] = snap[q],
         RunsOK'
  PROVE  SettledInv'
<1>1. VersionsOK'
  BY DEF SettledInv, VersionsOK, TypeOK, Document
<1>2. EditsOK'
  BY DEF SettledInv, EditsOK, VersionMatches
<1>3. CompletedIsSettled'
  BY DEF SettledInv, CompletedIsSettled, Pending
<1> QED BY <1>1, <1>2, <1>3 DEF SettledInv

\* A save of a new list: nobody else's copy is of its version.
LEMMA NewListSettles ==
  ASSUME SettledInv, TypeOK', NEW p \in Proc, doc'.version = doc.version + 1,
         snap'[p] = NoDoc, \A o \in Proc \ {p} : snap'[o] = snap[o],
         pc'[p] \in {"off", "idle"}, \A o \in Proc \ {p} : pc'[o] = pc[o],
         \A x \in Executor \ {p} : todo'[x] = todo[x],
         doc'.status = "completed" => Pending(doc') = {}
  PROVE  SettledInv'
<1>0. doc.version \in Nat /\ \A o \in Proc : snap[o] # NoDoc => snap[o] \in Document
  BY DEF SettledInv, TypeOK, ControlOK, Document
<1>1. VersionsOK'
  BY <1>0 DEF SettledInv, VersionsOK, Document
<1>2. RunsOK'
  BY DEF SettledInv, RunsOK, Proc, Pending
<1>3. \A q \in User : pc'[q] = "update" => snap'[q] # NoDoc /\ snap'[q].version # doc'.version
  <2> SUFFICES ASSUME NEW q \in User, pc'[q] = "update"
               PROVE  snap'[q] # NoDoc /\ snap'[q].version # doc'.version
    OBVIOUS
  <2>1. q \in Proc \ {p} /\ snap[q] # NoDoc
    BY DEF SettledInv, TypeOK, ControlOK, Proc
  <2> QED BY <1>0, <2>1 DEF SettledInv, VersionsOK, Document
<1>4. EditsOK'
  BY <1>3 DEF EditsOK, VersionMatches
<1> QED BY <1>1, <1>2, <1>4 DEF SettledInv, CompletedIsSettled

LEMMA RequestSettled ==
  ASSUME SettledInv, TypeOK', NEW q \in User, UserStep(q)
  PROVE  SettledInv'
<1>0. q \in Proc /\ q \notin Executor /\ TypeOK /\ doc \in Document /\ ControlOK
  BY DEF SettledInv, TypeOK, Proc
<1>1. CASE \E command \in Command : Accept(q, command)
  <2>1. PICK command \in Command : Accept(q, command)
    BY <1>1
  <2>2. RunsOK'
    BY <1>0, <2>1 DEF Accept, Goto, Load, SettledInv, RunsOK, Pending, ControlOK, Proc
  <2>3. \A p \in Proc : snap'[p] = doc \/ snap'[p] = snap[p]
    BY <1>0, <2>1 DEF Accept, Load, ControlOK
  <2>4. \A u \in User : pc'[u] = "update" => doc.status # "completed" \/ (pc[u] = "update" /\ snap'[u] = snap[u])
    BY <1>0, <2>1 DEF Accept, AllowedIn, Goto, Load, ControlOK, Command, Proc
  <2>5. doc' = doc
    BY <2>1 DEF Accept
  <2> QED BY <2>2, <2>3, <2>4, <2>5, KeptListSettles DEF SettledInv
<1>2. ASSUME Goto(q, "idle"), Forget(q), UNCHANGED todo
      PROVE  /\ snap'[q] = NoDoc /\ \A o \in Proc \ {q} : snap'[o] = snap[o]
             /\ pc'[q] = "idle" /\ \A o \in Proc \ {q} : pc'[o] = pc[o]
             /\ RunsOK'
  <2>1. /\ snap'[q] = NoDoc /\ \A o \in Proc \ {q} : snap'[o] = snap[o]
        /\ pc'[q] = "idle" /\ \A o \in Proc \ {q} : pc'[o] = pc[o]
    BY <1>0, <1>2 DEF Goto, Forget, ControlOK
  <2> QED BY <1>0, <1>2, <2>1 DEF SettledInv, RunsOK, Pending, Proc
<1>3. CASE Update(q)
  <2>1. snap[q] \in Document /\ Goto(q, "idle") /\ Forget(q) /\ UNCHANGED todo
    BY <1>0, <1>3, CopyType DEF Update
  <2>2. ASSUME NEW s \in {snap[q].status, "draft", "scheduled"}, NEW R \in SUBSET Recipient,
               R = {} \/ VersionMatches(q), doc' = Edited(q, s, R)
        PROVE  SettledInv'
    <3>1. doc'.status = "completed" => doc.status = "completed"
      BY <2>2 DEF Edited
    <3>2. CASE R = {}
      BY <1>2, <2>1, <2>2, <3>1, <3>2, KeptListSettles DEF Edited, Proc
    <3>3. CASE R # {}
      <4>1. doc.status # "completed"
        BY <1>3, <2>2, <3>3 DEF SettledInv, EditsOK, Update
      <4> QED BY <1>0, <1>2, <2>1, <2>2, <3>1, <3>3, <4>1, NewListSettles DEF Edited
    <3> QED BY <3>2, <3>3
  <2>3. CASE UNCHANGED doc
    BY <1>2, <2>1, <2>3, KeptListSettles DEF Proc
  <2> QED BY <1>3, <2>2, <2>3 DEF Update
<1>4. CASE Remove(q) \/ Cancel(q)
  <2>1. doc'.list = doc.list /\ doc'.version = doc.version
        /\ (doc'.status = "completed" => doc.status = "completed")
    BY <1>0, <1>4 DEF Remove, Cancel, Document
  <2>2. Goto(q, "idle") /\ Forget(q) /\ UNCHANGED todo
    BY <1>4 DEF Remove, Cancel
  <2> QED BY <1>2, <2>1, <2>2, KeptListSettles DEF Proc
<1> QED BY <1>1, <1>3, <1>4 DEF UserStep

\* A step that touches neither the document nor the memory of a process.
LEMMA SameMemorySettles ==
  ASSUME SettledInv, TypeOK', UNCHANGED <<doc, pc, snap, todo>>
  PROVE  SettledInv'
BY DEF SettledInv, VersionsOK, RunsOK, EditsOK, VersionMatches, CompletedIsSettled, Pending

LEMMA StartSettled ==
  ASSUME SettledInv, TypeOK', SendNow \/ Restore \/ Crash \/ \E x \in Executor : FindDue(x)
  PROVE  SettledInv'
<1>0. ControlOK
  BY DEF SettledInv, TypeOK
<1>1. CASE SendNow \/ \E x \in Executor : FindDue(x)
  <2>1. PICK x \in Executor : Goto(x, "called")
    BY <1>1 DEF SendNow, FindDue
  <2>2. UNCHANGED <<doc, snap, todo>>
    BY <1>1 DEF SendNow, FindDue
  <2>3. \A p \in Proc : pc'[p] = IF p = x THEN "called" ELSE pc[p]
    BY <1>0, <2>1 DEF Goto, ControlOK
  <2>4. RunsOK'
    BY <2>2, <2>3 DEF SettledInv, RunsOK, Pending, Proc
  <2> QED BY <2>2, <2>3, <2>4, KeptListSettles DEF Proc
<1>2. CASE Crash
  <2>1. doc' = doc /\ \A p \in Proc : snap'[p] = NoDoc /\ pc'[p] \in {"off", "idle"}
    BY <1>2 DEF Crash
  <2> QED BY <2>1, KeptListSettles DEF RunsOK, Proc
<1>3. CASE Restore
  <2>1. UNCHANGED <<doc, pc, snap, todo>>
    BY <1>3 DEF Restore, memory
  <2> QED BY <2>1, SameMemorySettles
<1> QED BY <1>1, <1>2, <1>3

\* The steps of a run that save no list.
LEMMA RunSettled ==
  ASSUME SettledInv, TypeOK', NEW x \in Executor,
         Find(x) \/ Begin(x) \/ Send(x) \/ Retry(x) \/ Throw(x) \/ Fail(x)
  PROVE  SettledInv'
<1>0. x \in Proc /\ x \notin User /\ doc \in Document /\ ControlOK /\ snap \in [Proc -> Document \cup {NoDoc}]
  BY DEF SettledInv, TypeOK, ControlOK, Proc
\* What is left to show of each: its own copy, and the recipients to visit.
<1>1. ASSUME doc'.list = doc.list, doc'.version = doc.version,
             doc'.status = "completed" => doc.status = "completed",
             \A p \in Proc \ {x} : snap'[p] = snap[p] /\ pc'[p] = pc[p],
             \A y \in Executor \ {x} : todo'[y] = todo[y],
             snap'[x] = NoDoc \/ snap'[x].version = doc.version
               \/ (snap[x] # NoDoc /\ snap'[x].version = snap[x].version),
             pc'[x] = "sending" => Pending(snap'[x]) \subseteq todo'[x]
      PROVE  SettledInv'
  <2>1. RunsOK'
    BY <1>1 DEF SettledInv, RunsOK, Pending, Proc
  <2>2. \A p \in Proc : snap'[p] = NoDoc \/ snap'[p].version = doc.version
                         \/ (snap[p] # NoDoc /\ snap'[p].version = snap[p].version)
    BY <1>1
  <2>3. \A q \in User : pc'[q] = "update" => pc[q] = "update" /\ snap'[q] = snap[q]
    BY <1>0, <1>1 DEF Proc
  <2> QED BY <1>1, <2>1, <2>2, <2>3, KeptListSettles
<1>2. CASE Find(x)
  <2>1. /\ doc' = doc /\ todo' = todo /\ (snap' = snap \/ snap' = [snap EXCEPT ![x] = doc])
        /\ \E l \in {"off", "found"} : pc' = [pc EXCEPT ![x] = l]
        /\ snap'[x] = NoDoc \/ snap'[x] = doc
    BY <1>0, <1>2 DEF Find, Goto, Load, ControlOK
  <2> QED BY <1>0, <1>1, <2>1 DEF ControlOK
<1>3. CASE Begin(x)
  <2>1. snap[x] \in Document
    BY <1>0, <1>3, CopyType DEF Begin
  <2>2. snap' = [snap EXCEPT ![x] = [snap[x] EXCEPT !.status = "sending"]]
    BY <1>0, <1>3 DEF Begin
  <2>3. snap'[x].version = snap[x].version /\ snap'[x].list = snap[x].list
    BY <1>0, <2>1, <2>2 DEF Document
  <2>4. todo'[x] = Pending(snap[x]) /\ \A y \in Executor \ {x} : todo'[y] = todo[y]
    BY <1>0, <1>3 DEF Begin, ControlOK
  <2>5. \A p \in Proc \ {x} : snap'[p] = snap[p] /\ pc'[p] = pc[p]
    BY <1>0, <1>3, <2>2 DEF Begin, Goto, ControlOK
  <2>6. doc'.list = doc.list /\ doc'.version = doc.version /\ doc'.status = "sending"
    BY <1>0, <1>3 DEF Begin, Document
  <2>7. Pending(snap'[x]) = Pending(snap[x])
    BY <2>3 DEF Pending
  <2> QED BY <1>0, <1>1, <2>1, <2>3, <2>4, <2>5, <2>6, <2>7
<1>4. CASE Send(x)
  <2>1. snap[x] \in Document
    BY <1>0, <1>4, CopyType DEF Send
  <2>2. PICK r \in Recipient, outcome \in {"sent", "failed"} :
          Record(x, r, outcome) /\ todo' = [todo EXCEPT ![x] = @ \ {r}]
    BY <1>4 DEF Send
  <2> DEFINE l == [snap[x].list EXCEPT ![r] = outcome]
  <2>3. snap' = [snap EXCEPT ![x] = [snap[x] EXCEPT !.list = l]]
    BY <1>0, <2>2 DEF Record
  <2>4. l \in [Recipient -> Entry] /\ \A o \in Recipient : l[o] = "pending" => snap[x].list[o] = "pending" /\ o # r
    BY <2>1 DEF Document, Entry
  <2> HIDE DEF l
  <2>5. snap'[x].version = snap[x].version /\ snap'[x].list = l
    BY <1>0, <2>1, <2>3 DEF Document
  <2>6. Pending(snap'[x]) \subseteq Pending(snap[x]) \ {r}
    BY <2>4, <2>5 DEF Pending
  <2>7. Pending(snap[x]) \subseteq todo[x] /\ todo'[x] = todo[x] \ {r}
    BY <1>0, <1>4, <2>2 DEF Send, SettledInv, RunsOK, ControlOK
  <2>8. doc' = doc /\ pc' = pc /\ \A p \in Proc \ {x} : snap'[p] = snap[p]
    BY <1>0, <1>4, <2>3 DEF Send
  <2>9. \A y \in Executor \ {x} : todo'[y] = todo[y]
    BY <1>0, <2>2 DEF ControlOK
  <2> QED BY <1>0, <1>1, <2>1, <2>5, <2>6, <2>7, <2>8, <2>9
<1>5. CASE Throw(x)
  <2>1. doc' = doc /\ snap' = snap /\ pc' = [pc EXCEPT ![x] = "failing"] /\ todo' = [todo EXCEPT ![x] = {}]
    BY <1>5 DEF Throw, Goto
  <2> QED BY <1>0, <1>1, <2>1 DEF ControlOK
<1>6. CASE Fail(x)
  <2>1. /\ doc'.list = doc.list /\ doc'.version = doc.version /\ doc'.status = "failed"
        /\ snap' = [snap EXCEPT ![x] = NoDoc] /\ pc' = [pc EXCEPT ![x] = "off"] /\ todo' = todo
    BY <1>0, <1>6 DEF Fail, Goto, Forget, Document
  <2> QED BY <1>0, <1>1, <2>1 DEF ControlOK
<1>7. CASE Retry(x)
  <2>1. UNCHANGED <<doc, pc, snap, todo>>
    BY <1>7 DEF Retry, memory
  <2> QED BY <2>1, SameMemorySettles
<1> QED BY <1>2, <1>3, <1>4, <1>5, <1>6, <1>7

LEMMA FinishSettled ==
  ASSUME SettledInv, TypeOK', NEW x \in Executor, Finish(x) \/ FinishFails(x)
  PROVE  SettledInv'
<1>0. x \in Proc /\ x \notin User /\ doc \in Document /\ ControlOK
  BY DEF SettledInv, TypeOK, Proc
<1>1. /\ pc[x] = "sending" /\ todo[x] = {} /\ UNCHANGED todo
      /\ Goto(x, "off") /\ Forget(x)
      /\ (\E s \in Status : SaveOutcomes(x, s)) \/ Abandon(x)
  BY DEF Finish, FinishFails, Verdict, Status
<1>2. /\ snap'[x] = NoDoc /\ \A o \in Proc \ {x} : snap'[o] = snap[o]
      /\ pc'[x] = "off" /\ \A o \in Proc \ {x} : pc'[o] = pc[o]
  BY <1>0, <1>1 DEF Goto, Forget, ControlOK
<1>3. CASE \E s \in Status : SaveOutcomes(x, s)
  <2>1. doc'.version = doc.version + 1 /\ doc'.list = snap[x].list
    BY <1>0, <1>3 DEF SaveOutcomes, Document
  <2>2. Pending(snap[x]) = {}
    BY <1>1 DEF SettledInv, RunsOK
  <2>3. Pending(doc') = {}
    BY <2>1, <2>2 DEF Pending
  <2> QED BY <1>0, <1>1, <1>2, <2>1, <2>3, NewListSettles
<1>4. CASE Abandon(x)
  <2>1. doc' = doc
    BY <1>4 DEF Abandon
  <2>2. RunsOK'
    BY <1>1, <1>2 DEF SettledInv, RunsOK, Pending, Proc
  <2>3. \A q \in User : pc'[q] = "update" => pc[q] = "update" /\ snap'[q] = snap[q]
    BY <1>0, <1>2 DEF Proc
  <2> QED BY <1>2, <2>1, <2>2, <2>3, KeptListSettles
<1> QED BY <1>1, <1>3, <1>4

LEMMA SettledStep == SettledInv /\ [Next]_vars => SettledInv'
<1> SUFFICES ASSUME SettledInv, [Next]_vars PROVE SettledInv'
  OBVIOUS
<1>1. TypeOK'
  BY TypeStep DEF SettledInv
<1>2. CASE UNCHANGED vars
  BY <1>1, <1>2, SameMemorySettles DEF vars, memory
<1>3. CASE Next
  BY <1>1, <1>3, RequestSettled, StartSettled, RunSettled, FinishSettled DEF Next, Execute
<1> QED BY <1>2, <1>3

\* A campaign is reported completed only over settled recipients, and stays so:
\* however runs, edits, crashes and failed saves overlap.
THEOREM CompletedOverSettled == Spec => []CompletedIsSettled
<1>1. Spec => []SettledInv
  BY InitSettled, SettledStep, PTL DEF Spec
<1>2. SettledInv => CompletedIsSettled
  BY DEF SettledInv
<1> QED BY <1>1, <1>2, PTL

-----------------------------------------------------------------------------
(* What a further message is paid with.  Messages to r that have gone out,   *)
(* those that a run still has to send, and the one more that a run to come   *)
(* may send, are together at most one for each reason and one besides.       *)

\* An edit is under way that may still replace the list.
Editing == \E q \in User : pc[q] = "update" /\ VersionMatches(q)

\* A run to come would find r in the list, or in one that replaces it.
Open(r) == doc.list[r] = "pending" \/ Editing

\* A copy that no save of a status has overtaken.
Fresh(y)   == pc[y] = "found" /\ y \notin outdated
Current(x) == pc[x] \in {"sending", "failing"} /\ x \notin outdated

\* If the run that has the campaign in 'sending' fails, another may send to r, and
\* has not been paid for: this one has sent to r, or is about to, if neither holds.
MayReopen(x, r) ==
  /\ Current(x) /\ Open(r)
  /\ pc[x] = "failing" \/ (r \notin todo[x] /\ snap[x].list[r] # "sent")

\* A run may begin, of a copy that nobody overtakes, and send to r.
Startable(r) ==
  \/ doc.status \in {"draft", "scheduled", "cancelled"}
  \/ doc.status = "failed" /\ (Open(r) \/ \E y \in Executor : Fresh(y) /\ snap[y].list[r] = "pending")
  \/ doc.status = "sending" /\ doc.list[r] = "sent" /\ Editing
  \/ doc.status = "sending" /\ \E x \in Executor : MayReopen(x, r)

Visiting(r) == {x \in Executor : r \in todo[x]}
ToCome(r)   == Cardinality(Visiting(r)) + (IF Startable(r) THEN 1 ELSE 0)
Billed      == \A r \in Recipient : copies[r] + ToCome(r) <= 1 + unsaid[r] + overtaken

\* What a copy that is not outdated tells of the campaign.
FreshOK ==
  \A y \in Executor : Fresh(y) =>
    /\ doc.status \notin {"sending", "completed"}
    /\ \A r \in Recipient : doc.list[r] = "sent" => snap[y].list[r] = "sent"
CurrentOK ==
  \A x \in Executor : Current(x) =>
    doc.status = "sending" /\ \A y \in Executor : Current(y) => y = x
CommandOK ==
  \A q \in User : pc[q] \in {"update", "cancel"} /\ q \notin outdated =>
    doc.status \in {"draft", "scheduled"} /\ snap[q].status = doc.status

CopiesOK == FreshOK /\ CurrentOK /\ CommandOK

PaidInv == SettledInv /\ CopiesOK /\ Billed

\* Counting.
LEMMA VisitorsFinite ==
  ASSUME NEW r
  PROVE  /\ IsFiniteSet(Visiting(r)) /\ Cardinality(Visiting(r)) \in Nat
         /\ IsFiniteSet(Visiting(r)') /\ Cardinality(Visiting(r)') \in Nat
<1>1. Visiting(r) \in SUBSET Executor /\ Visiting(r)' \in SUBSET Executor
  BY DEF Visiting
<1>2. IsFiniteSet(Visiting(r)) /\ IsFiniteSet(Visiting(r)')
  BY <1>1, FS_Subset
<1> QED BY <1>2, FS_CardinalityType

LEMMA BillTypes ==
  ASSUME TypeOK, TypeOK', NEW r \in Recipient
  PROVE  /\ copies[r] \in Nat /\ unsaid[r] \in Nat /\ overtaken \in Nat
         /\ copies'[r] \in Nat /\ unsaid'[r] \in Nat /\ overtaken' \in Nat
BY DEF TypeOK, HistoryOK

\* r is owed what it was: no new run for it but one that is paid for.
LEMMA BillKept ==
  ASSUME TypeOK, TypeOK', NEW r \in Recipient,
         copies[r] + ToCome(r) <= 1 + unsaid[r] + overtaken,
         Visiting(r)' \subseteq Visiting(r), copies'[r] = copies[r],
         unsaid'[r] >= unsaid[r], overtaken' >= overtaken,
         Startable(r)' => Startable(r) \/ overtaken' > overtaken
  PROVE  (copies[r] + ToCome(r) <= 1 + unsaid[r] + overtaken)'
<1>1. Cardinality(Visiting(r)') <= Cardinality(Visiting(r))
  BY VisitorsFinite, FS_Subset
<1>2. ToCome(r)' = Cardinality(Visiting(r)') + (IF Startable(r)' THEN 1 ELSE 0)
  BY DEF ToCome
<1>3. ToCome(r) = Cardinality(Visiting(r)) + (IF Startable(r) THEN 1 ELSE 0)
  BY DEF ToCome
<1> QED BY <1>1, <1>2, <1>3, BillTypes, VisitorsFinite

\* x has been to r.
LEMMA BillVisited ==
  ASSUME TypeOK, TypeOK', NEW r \in Recipient, NEW x \in Executor, r \in todo[x],
         copies[r] + ToCome(r) <= 1 + unsaid[r] + overtaken,
         Visiting(r)' = Visiting(r) \ {x}, overtaken' = overtaken,
         \/ copies'[r] = copies[r] /\ unsaid'[r] >= unsaid[r]
         \/ copies'[r] = copies[r] + 1 /\ unsaid'[r] > unsaid[r]
         \/ copies'[r] = copies[r] + 1 /\ unsaid'[r] = unsaid[r] /\ (Startable(r)' => Startable(r))
  PROVE  (copies[r] + ToCome(r) <= 1 + unsaid[r] + overtaken)'
<1>1. Cardinality(Visiting(r)') = Cardinality(Visiting(r)) - 1
  <2>1. x \in Visiting(r) /\ IsFiniteSet(Visiting(r))
    BY VisitorsFinite DEF Visiting
  <2>2. Cardinality(Visiting(r) \ {x}) = Cardinality(Visiting(r)) - 1
    BY <2>1, FS_RemoveElement
  <2> QED BY <2>2
<1>2. ToCome(r)' = Cardinality(Visiting(r)') + (IF Startable(r)' THEN 1 ELSE 0)
  BY DEF ToCome
<1>3. ToCome(r) = Cardinality(Visiting(r)) + (IF Startable(r) THEN 1 ELSE 0)
  BY DEF ToCome
<1> QED BY <1>1, <1>2, <1>3, BillTypes, VisitorsFinite

\* x begins.
LEMMA BillBegun ==
  ASSUME TypeOK, TypeOK', NEW r \in Recipient, NEW x \in Executor,
         copies[r] + ToCome(r) <= 1 + unsaid[r] + overtaken,
         copies'[r] = copies[r], unsaid'[r] = unsaid[r],
         \/ /\ overtaken' = overtaken + 1
            /\ \/ Visiting(r)' \subseteq Visiting(r)
               \/ Visiting(r)' \subseteq Visiting(r) \cup {x} /\ (Startable(r)' => Startable(r))
         \/ /\ overtaken' = overtaken
            /\ \/ Visiting(r)' \subseteq Visiting(r) /\ (Startable(r)' => Startable(r))
               \/ Visiting(r)' \subseteq Visiting(r) \cup {x} /\ Startable(r) /\ ~Startable(r)'
  PROVE  (copies[r] + ToCome(r) <= 1 + unsaid[r] + overtaken)'
<1>1. Visiting(r)' \subseteq Visiting(r) => Cardinality(Visiting(r)') <= Cardinality(Visiting(r))
  BY VisitorsFinite, FS_Subset
<1>2. Visiting(r)' \subseteq Visiting(r) \cup {x} => Cardinality(Visiting(r)') <= Cardinality(Visiting(r)) + 1
  <2>1. IsFiniteSet(Visiting(r) \cup {x}) /\ Cardinality(Visiting(r) \cup {x}) \in Nat
        /\ Cardinality(Visiting(r) \cup {x}) <= Cardinality(Visiting(r)) + 1
    <3>1. IsFiniteSet(Visiting(r) \cup {x})
          /\ Cardinality(Visiting(r) \cup {x}) = IF x \in Visiting(r) THEN Cardinality(Visiting(r))
                                                 ELSE Cardinality(Visiting(r)) + 1
      BY VisitorsFinite, FS_AddElement
    <3> QED BY <3>1, VisitorsFinite
  <2>2. Visiting(r)' \subseteq Visiting(r) \cup {x}
          => Cardinality(Visiting(r)') <= Cardinality(Visiting(r) \cup {x})
    BY <2>1, FS_Subset
  <2> QED BY <2>1, <2>2, VisitorsFinite
<1>3. ToCome(r)' = Cardinality(Visiting(r)') + (IF Startable(r)' THEN 1 ELSE 0)
  BY DEF ToCome
<1>4. ToCome(r) = Cardinality(Visiting(r)) + (IF Startable(r) THEN 1 ELSE 0)
  BY DEF ToCome
<1> QED BY <1>1, <1>2, <1>3, <1>4, BillTypes, VisitorsFinite

\* The save of a status outdates every other copy.
LEMMA SavedStatusCopies ==
  ASSUME TypeOK, NEW p \in Proc, Outdate(p), \A o \in Proc \ {p} : pc'[o] = pc[o],
         \/ pc'[p] \in {"off", "idle"}
         \/ pc'[p] \in {"sending", "failing"} /\ doc'.status = "sending"
  PROVE  /\ CopiesOK'
         /\ \A y \in Executor : ~Fresh(y)'
         /\ \A x \in Executor : Current(x)' => x = p
<1>1. \A o \in Proc \ {p} : pc'[o] \in {"found", "sending", "failing", "update", "cancel"} => o \in outdated'
  BY DEF Outdate
<1>2. \A y \in Executor : ~Fresh(y)'
  BY <1>1 DEF Fresh, Proc
<1>3. \A x \in Executor : Current(x)' => x = p /\ doc'.status = "sending"
  BY <1>1 DEF Current, Proc
<1>4. FreshOK' /\ CurrentOK'
  BY <1>2, <1>3 DEF FreshOK, CurrentOK
<1>5. CommandOK'
  BY <1>1 DEF CommandOK, Proc
<1> QED BY <1>2, <1>3, <1>4, <1>5 DEF CopiesOK

\* No status is saved; p moves.
LEMMA KeptStatusCopies ==
  ASSUME TypeOK, CopiesOK, NEW p \in Proc, outdated' \in {outdated, outdated \ {p}},
         doc'.status = doc.status,
         \A r \in Recipient : doc'.list[r] = "sent" => doc.list[r] = "sent",
         \A o \in Proc \ {p} : pc'[o] = pc[o] /\ snap'[o] = snap[o],
         \/ pc'[p] \in {"off", "idle", "called", "remove"}
         \/ pc'[p] \in {"sending", "failing"} /\ pc[p] \in {"sending", "failing"} /\ outdated' = outdated
         \/ pc'[p] = "found" /\ doc' = doc /\ snap'[p] = doc /\ doc.status \notin {"sending", "completed"}
         \/ pc'[p] \in {"update", "cancel"} /\ doc' = doc /\ snap'[p] = doc /\ doc.status \in {"draft", "scheduled"}
  PROVE  CopiesOK'
<1>1. \A o \in Proc \ {p} : o \in outdated' <=> o \in outdated
  OBVIOUS
<1>2. FreshOK'
  <2> SUFFICES ASSUME NEW y \in Executor, Fresh(y)'
               PROVE  /\ doc'.status \notin {"sending", "completed"}
                      /\ \A r \in Recipient : doc'.list[r] = "sent" => snap'[y].list[r] = "sent"
    BY DEF FreshOK
  <2>1. CASE y = p
    BY <2>1 DEF Fresh
  <2>2. CASE y # p
    <3>1. Fresh(y) /\ snap'[y] = snap[y]
      BY <1>1, <2>2 DEF Fresh, Proc
    <3> QED BY <3>1 DEF CopiesOK, FreshOK
  <2> QED BY <2>1, <2>2
<1>3. \A x \in Executor : Current(x)' => Current(x)
  BY <1>1 DEF Current, Proc
<1>4. CurrentOK'
  BY <1>3 DEF CopiesOK, CurrentOK
<1>5. CommandOK'
  <2> SUFFICES ASSUME NEW q \in User, pc'[q] \in {"update", "cancel"}, q \notin outdated'
               PROVE  doc'.status \in {"draft", "scheduled"} /\ snap'[q].status = doc'.status
    BY DEF CommandOK
  <2>1. CASE q = p
    BY <2>1
  <2>2. CASE q # p
    BY <1>1, <2>2 DEF CopiesOK, CommandOK, Proc
  <2> QED BY <2>1, <2>2
<1> QED BY <1>2, <1>4, <1>5 DEF CopiesOK

LEMMA StartableKept ==
  ASSUME NEW r \in Recipient, doc'.status = doc.status, Open(r)' => Open(r),
         doc'.list[r] = "sent" /\ Editing' => doc.list[r] = "sent" /\ Editing,
         \A y \in Executor : Fresh(y)' /\ snap'[y].list[r] = "pending"
                               => Open(r) \/ (Fresh(y) /\ snap[y].list[r] = "pending"),
         \A x \in Executor : MayReopen(x, r)' => MayReopen(x, r)
  PROVE  Startable(r)' => Startable(r)
BY DEF Startable

\* A new version of the list leaves no edit that may replace it.
LEMMA NoneEdits ==
  ASSUME SettledInv, TypeOK', NEW p \in Proc, doc'.version = doc.version + 1,
         \A o \in Proc \ {p} : pc'[o] = pc[o] /\ snap'[o] = snap[o],
         pc'[p] \in {"off", "idle"}
  PROVE  ~Editing'
<1>0. doc.version \in Nat /\ \A o \in Proc : snap[o] # NoDoc => snap[o] \in Document
  BY DEF SettledInv, TypeOK, ControlOK, Document
<1> SUFFICES ASSUME NEW q \in User, pc'[q] = "update"
             PROVE  snap'[q].version # doc'.version
  BY DEF Editing, VersionMatches
<1>1. q \in Proc \ {p} /\ snap[q] # NoDoc
  BY DEF SettledInv, TypeOK, ControlOK, Proc
<1> QED BY <1>0, <1>1 DEF SettledInv, VersionsOK, Document

\* What a request leaves of the runs.
LEMMA RunsAlone ==
  ASSUME NEW q \in User, \A o \in Proc \ {q} : pc'[o] = pc[o] /\ snap'[o] = snap[o],
         todo' = todo, outdated' \in {outdated, outdated \ {q}}
  PROVE  /\ \A x \in Executor : Fresh(x)' = Fresh(x) /\ Current(x)' = Current(x)
         /\ \A x \in Executor : pc'[x] = pc[x] /\ snap'[x] = snap[x] /\ todo'[x] = todo[x]
         /\ \A r : Visiting(r)' = Visiting(r)
<1>1. \A x \in Executor : x \in Proc \ {q}
  BY DEF Proc
<1>2. \A x \in Executor : pc'[x] = pc[x] /\ snap'[x] = snap[x] /\ (x \in outdated' <=> x \in outdated)
  BY <1>1
<1> QED BY <1>2 DEF Fresh, Current, Visiting

\* A request that saves no status, and starts no edit.
LEMMA KeptRequestPaid ==
  ASSUME PaidInv, SettledInv', NEW q \in User, outdated' \in {outdated, outdated \ {q}},
         \A o \in Proc \ {q} : pc'[o] = pc[o] /\ snap'[o] = snap[o],
         pc'[q] \in {"idle", "remove"}, doc'.status = doc.status,
         UNCHANGED <<todo, copies, unsaid, overtaken>>,
         \/ doc'.list = doc.list /\ doc'.version = doc.version
         \/ /\ Editing /\ doc'.version = doc.version + 1 /\ pc'[q] = "idle"
            /\ \A r \in Recipient : doc'.list[r] # "sent"
  PROVE  PaidInv'
<1>0. q \in Proc /\ TypeOK /\ TypeOK' /\ SettledInv
  BY DEF PaidInv, SettledInv, Proc
<1>1. CopiesOK'
  BY <1>0, KeptStatusCopies DEF PaidInv
<1>2. \A r \in Recipient : Open(r)' => Open(r)
  <2>1. CASE doc'.list = doc.list /\ doc'.version = doc.version
    <3>1. Editing' => Editing
      BY <2>1 DEF Editing, VersionMatches, Proc
    <3> QED BY <2>1, <3>1 DEF Open
  <2>2. CASE Editing
    BY <2>2 DEF Open
  <2> QED BY <2>1, <2>2
<1>3. \A r \in Recipient : doc'.list[r] = "sent" /\ Editing' => doc.list[r] = "sent" /\ Editing
  <2>1. CASE doc'.list = doc.list /\ doc'.version = doc.version
    BY <2>1 DEF Editing, VersionMatches, Proc
  <2>2. CASE \A r \in Recipient : doc'.list[r] # "sent"
    BY <2>2
  <2> QED BY <2>1, <2>2
<1>4. \A r \in Recipient : Startable(r)' => Startable(r)
  <2> SUFFICES ASSUME NEW r \in Recipient PROVE Startable(r)' => Startable(r)
    OBVIOUS
  <2>1. \A x \in Executor : MayReopen(x, r)' => MayReopen(x, r)
    BY <1>2, RunsAlone DEF MayReopen
  <2>2. \A y \in Executor : Fresh(y)' /\ snap'[y].list[r] = "pending" => Fresh(y) /\ snap[y].list[r] = "pending"
    BY RunsAlone
  <2> QED BY <1>2, <1>3, <2>1, <2>2, StartableKept
<1>5. Billed'
  <2> SUFFICES ASSUME NEW r \in Recipient
               PROVE  (copies[r] + ToCome(r) <= 1 + unsaid[r] + overtaken)'
    BY DEF Billed
  <2>1. copies[r] + ToCome(r) <= 1 + unsaid[r] + overtaken
    BY DEF PaidInv, Billed
  <2>2. Visiting(r)' = Visiting(r)
    BY RunsAlone
  <2> QED BY <1>0, <1>4, <2>1, <2>2, BillTypes, BillKept
<1> QED BY <1>1, <1>5 DEF PaidInv

\* A request that saves a status from which a run may begin.
LEMMA SavedRequestPaid ==
  ASSUME PaidInv, SettledInv', NEW q \in User, StatusSaved(q), pc[q] \in {"update", "cancel"},
         \A o \in Proc \ {q} : pc'[o] = pc[o] /\ snap'[o] = snap[o],
         pc'[q] = "idle", UNCHANGED <<todo, copies, unsaid>>
  PROVE  PaidInv'
<1>0. q \in Proc /\ TypeOK /\ TypeOK'
  BY DEF PaidInv, SettledInv, Proc
<1>1. CopiesOK'
  BY <1>0, SavedStatusCopies DEF StatusSaved
<1>2. overtaken' = overtaken + 1 \/ (overtaken' = overtaken /\ \A r \in Recipient : Startable(r))
  BY DEF StatusSaved, PaidInv, CopiesOK, CommandOK, Startable
<1>3. Billed'
  <2> SUFFICES ASSUME NEW r \in Recipient
               PROVE  (copies[r] + ToCome(r) <= 1 + unsaid[r] + overtaken)'
    BY DEF Billed
  <2>1. copies[r] + ToCome(r) <= 1 + unsaid[r] + overtaken
    BY DEF PaidInv, Billed
  <2>2. Visiting(r)' = Visiting(r)
    BY DEF Visiting
  <2> QED BY <1>0, <1>2, <2>1, <2>2, BillTypes, BillKept
<1> QED BY <1>1, <1>3 DEF PaidInv

LEMMA RequestPaid ==
  ASSUME PaidInv, SettledInv', NEW q \in User, UserStep(q)
  PROVE  PaidInv'
<1>0. q \in Proc /\ TypeOK /\ TypeOK' /\ SettledInv /\ ControlOK /\ doc \in Document
  BY DEF PaidInv, SettledInv, TypeOK, Proc
<1>1. ASSUME Goto(q, "idle"), Forget(q)
      PROVE  pc'[q] = "idle" /\ \A o \in Proc \ {q} : pc'[o] = pc[o] /\ snap'[o] = snap[o]
  BY <1>0, <1>1 DEF Goto, Forget, ControlOK
<1>2. ASSUME NEW command \in Command, Accept(q, command) PROVE PaidInv'
  <2>1. /\ pc[q] = "idle" /\ pc'[q] = command /\ snap'[q] = doc
        /\ \A o \in Proc \ {q} : pc'[o] = pc[o] /\ snap'[o] = snap[o]
        /\ UNCHANGED <<doc, todo, copies, unsaid, outdated, overtaken>>
    BY <1>0, <1>2 DEF Accept, Goto, Load, ControlOK, history
  <2>2. CASE command = "remove"
    BY <2>1, <2>2, KeptRequestPaid
  <2>3. CASE command \in {"update", "cancel"}
    <3>1. doc.status \in {"draft", "scheduled"}
      BY <1>2, <2>3 DEF Accept, AllowedIn
    <3>2. CopiesOK'
      BY <1>0, <2>1, <2>3, <3>1, KeptStatusCopies DEF PaidInv
    <3>3. \A r \in Recipient : Startable(r)
      BY <3>1 DEF Startable
    <3>4. Billed'
      <4> SUFFICES ASSUME NEW r \in Recipient
                   PROVE  (copies[r] + ToCome(r) <= 1 + unsaid[r] + overtaken)'
        BY DEF Billed
      <4>1. copies[r] + ToCome(r) <= 1 + unsaid[r] + overtaken
        BY DEF PaidInv, Billed
      <4>2. Visiting(r)' = Visiting(r)
        BY <2>1 DEF Visiting
      <4> QED BY <1>0, <2>1, <3>3, <4>1, <4>2, BillTypes, BillKept
    <3> QED BY <3>2, <3>4 DEF PaidInv
  <2> QED BY <2>2, <2>3 DEF Command
<1>3. CASE Update(q)
  <2>1. pc[q] = "update" /\ Goto(q, "idle") /\ Forget(q) /\ UNCHANGED <<todo, copies, unsaid>>
    BY <1>3 DEF Update
  <2>2. ASSUME NEW s \in {snap[q].status, "draft", "scheduled"}, NEW R \in SUBSET Recipient,
               R = {} \/ VersionMatches(q), doc' = Edited(q, s, R),
               s = snap[q].status, KeepStatus(q)
        PROVE  PaidInv'
    <3>1. doc'.status = doc.status
      BY <2>2 DEF Edited
    <3>2. \/ doc'.list = doc.list /\ doc'.version = doc.version
          \/ /\ Editing /\ doc'.version = doc.version + 1
             /\ \A r \in Recipient : doc'.list[r] # "sent"
      BY <2>1, <2>2 DEF Edited, Editing
    <3> QED BY <1>1, <2>1, <2>2, <3>1, <3>2, KeptRequestPaid DEF KeepStatus
  <2>3. CASE StatusSaved(q)
    BY <1>1, <2>1, <2>3, SavedRequestPaid
  <2>4. CASE KeepStatus(q) /\ UNCHANGED doc
    BY <1>1, <2>1, <2>4, KeptRequestPaid DEF KeepStatus
  <2> QED BY <1>3, <2>2, <2>3, <2>4 DEF Update
<1>4. CASE Remove(q)
  BY <1>1, <1>4, KeptRequestPaid DEF Remove, history
<1>5. CASE Cancel(q)
  BY <1>1, <1>5, SavedRequestPaid DEF Cancel
<1> QED BY <1>2, <1>3, <1>4, <1>5 DEF UserStep

\* What a run leaves of the requests.
LEMMA EditsAlone ==
  ASSUME NEW x \in Executor, \A o \in Proc \ {x} : pc'[o] = pc[o] /\ snap'[o] = snap[o],
         doc'.version = doc.version
  PROVE  Editing' = Editing
<1>1. \A q \in User : q \in Proc \ {x}
  BY DEF Proc
<1> QED BY <1>1 DEF Editing, VersionMatches

\* A step of a run that touches neither the campaign nor what is to send.
LEMMA IdleStepPaid ==
  ASSUME PaidInv, SettledInv', NEW x \in Executor,
         \A o \in Proc \ {x} : pc'[o] = pc[o] /\ snap'[o] = snap[o],
         UNCHANGED <<doc, todo, copies, unsaid, outdated, overtaken>>,
         \/ pc'[x] \in {"off", "called"}
         \/ pc'[x] = "found" /\ snap'[x] = doc /\ doc.status \notin {"sending", "completed"}
  PROVE  PaidInv'
<1>0. x \in Proc /\ TypeOK /\ TypeOK'
  BY DEF PaidInv, SettledInv, Proc
<1>1. CopiesOK'
  BY <1>0, KeptStatusCopies DEF PaidInv
<1>2. Editing' = Editing
  BY EditsAlone
<1>3. ASSUME NEW r \in Recipient PROVE Startable(r)' => Startable(r)
  <2>1. Open(r)' = Open(r)
    BY <1>2 DEF Open
  <2>2. \A y \in Executor : Current(y)' => y # x /\ Current(y)
    BY DEF Current, Proc
  <2>3. \A y \in Executor : MayReopen(y, r)' => MayReopen(y, r)
    BY <2>1, <2>2 DEF MayReopen, Proc
  <2>4. \A y \in Executor : Fresh(y)' /\ snap'[y].list[r] = "pending"
                              => Open(r) \/ (Fresh(y) /\ snap[y].list[r] = "pending")
    BY DEF Fresh, Open, Proc
  <2> QED BY <1>2, <2>1, <2>3, <2>4, StartableKept
<1>4. Billed'
  <2> SUFFICES ASSUME NEW r \in Recipient
               PROVE  (copies[r] + ToCome(r) <= 1 + unsaid[r] + overtaken)'
    BY DEF Billed
  <2>1. copies[r] + ToCome(r) <= 1 + unsaid[r] + overtaken
    BY DEF PaidInv, Billed
  <2>2. Visiting(r)' = Visiting(r)
    BY DEF Visiting
  <2> QED BY <1>0, <1>3, <2>1, <2>2, BillTypes, BillKept
<1> QED BY <1>1, <1>4 DEF PaidInv

LEMMA StartPaid ==
  ASSUME PaidInv, SettledInv', SendNow \/ Restore \/ \E x \in Executor : FindDue(x) \/ Find(x)
  PROVE  PaidInv'
<1>0. ControlOK
  BY DEF PaidInv, SettledInv, TypeOK
<1>1. CASE Restore
  BY <1>1 DEF Restore, memory, history, PaidInv, CopiesOK, FreshOK, CurrentOK, CommandOK, Billed,
              ToCome, Visiting, Startable, MayReopen, Open, Editing, VersionMatches, Fresh, Current
<1>2. ASSUME NEW x \in Executor, Goto(x, "called"),
             UNCHANGED <<doc, snap, todo, copies, unsaid, outdated, overtaken>>
      PROVE  PaidInv'
  <2>1. pc'[x] = "called" /\ \A o \in Proc \ {x} : pc'[o] = pc[o] /\ snap'[o] = snap[o]
    BY <1>0, <1>2 DEF Goto, ControlOK, Proc
  <2> QED BY <1>2, <2>1, IdleStepPaid
<1>3. CASE SendNow
  <2>1. PICK x \in Executor : Goto(x, "called")
    BY <1>3 DEF SendNow
  <2> QED BY <1>2, <1>3, <2>1 DEF SendNow, history
<1>4. ASSUME NEW x \in Executor, FindDue(x) PROVE PaidInv'
  BY <1>2, <1>4 DEF FindDue, history
<1>5. ASSUME NEW x \in Executor, Find(x) PROVE PaidInv'
  <2>1. /\ UNCHANGED <<doc, todo, copies, unsaid, outdated, overtaken>>
        /\ \/ pc' = [pc EXCEPT ![x] = "off"] /\ snap' = snap
           \/ /\ pc' = [pc EXCEPT ![x] = "found"] /\ snap' = [snap EXCEPT ![x] = doc]
              /\ doc.status \notin {"sending", "completed"}
    BY <1>5 DEF Find, Goto, Load, Refused, history
  <2>2. \A o \in Proc \ {x} : pc'[o] = pc[o] /\ snap'[o] = snap[o]
    BY <1>0, <2>1 DEF ControlOK
  <2>3. \/ pc'[x] = "off"
        \/ pc'[x] = "found" /\ snap'[x] = doc /\ doc.status \notin {"sending", "completed"}
    BY <1>0, <2>1 DEF ControlOK, Proc
  <2> QED BY <2>1, <2>2, <2>3, IdleStepPaid
<1> QED BY <1>1, <1>3, <1>4, <1>5

\* The status that the run saves is 'sending', so that none is startable but what it
\* will leave if it fails.
LEMMA BeginPaid ==
  ASSUME PaidInv, SettledInv', NEW x \in Executor, Begin(x)
  PROVE  PaidInv'
<1>0. x \in Proc /\ TypeOK /\ TypeOK' /\ SettledInv /\ ControlOK /\ doc \in Document
  BY DEF PaidInv, SettledInv, TypeOK, Proc
<1>1. snap[x] \in Document /\ pc[x] = "found"
  BY <1>0, CopyType DEF Begin
<1>2. snap' = [snap EXCEPT ![x] = [snap[x] EXCEPT !.status = "sending"]]
  BY DEF Begin
<1>3. snap'[x].list = snap[x].list /\ \A o \in Proc \ {x} : snap'[o] = snap[o]
  BY <1>0, <1>1, <1>2 DEF Document, ControlOK
<1>4. doc'.list = doc.list /\ doc'.version = doc.version /\ doc'.status = "sending"
  BY <1>0 DEF Begin, Document
<1>5. /\ \A o \in Proc \ {x} : pc'[o] = pc[o]
      /\ pc'[x] = "sending" \/ pc'[x] = "failing"
      /\ todo'[x] = Pending(snap[x]) /\ \A y \in Executor \ {x} : todo'[y] = todo[y]
  BY <1>0 DEF Begin, Goto, ControlOK
<1>6. CopiesOK' /\ (\A y \in Executor : ~Fresh(y)') /\ \A y \in Executor : Current(y)' => y = x
  BY <1>0, <1>4, <1>5, SavedStatusCopies DEF Begin, StatusSaved
<1>7. Editing' = Editing
  BY <1>3, <1>4, <1>5, EditsAlone
<1>8. ASSUME NEW r \in Recipient
      PROVE  (copies[r] + ToCome(r) <= 1 + unsaid[r] + overtaken)'
  <2>1. copies[r] + ToCome(r) <= 1 + unsaid[r] + overtaken
    BY DEF PaidInv, Billed
  <2>2. Open(r)' = Open(r)
    BY <1>4, <1>7 DEF Open
  <2>3. r \in todo'[x] <=> snap[x].list[r] = "pending"
    BY <1>5 DEF Pending
  <2>4. Visiting(r)' \subseteq Visiting(r) \cup {x} /\ (r \notin todo'[x] => Visiting(r)' \subseteq Visiting(r))
    BY <1>5 DEF Visiting
  \* If r is to be visited, another run for it is left only by an edit of a list that
  \* another has sent.
  <2>5. Startable(r)' /\ r \in todo'[x] => doc.list[r] = "sent" /\ Editing
    <3>1. pc'[x] = "failing" => r \notin todo'[x]
      BY <1>0, <1>5 DEF TypeOK, ControlOK
    <3> QED BY <1>4, <1>6, <1>7, <3>1 DEF Startable, MayReopen
  <2>6. Startable(r)' => Open(r)
    BY <1>4, <1>6, <1>7, <2>2 DEF Startable, MayReopen, Open
  <2>7. UNCHANGED <<copies, unsaid>>
    BY DEF Begin
  <2>8. doc.status = "completed" => ~Open(r)
    BY DEF Open, Editing, PaidInv, SettledInv, EditsOK, CompletedIsSettled, Pending
  <2>9. CASE x \in outdated
    <3>1. overtaken' = overtaken + 1
      BY <2>9 DEF Begin, StatusSaved
    <3>2. CASE r \notin todo'[x]
      BY <1>0, <2>1, <2>4, <2>7, <3>1, <3>2, BillBegun
    <3>3. CASE r \in todo'[x]
      <4>1. Startable(r)' => Startable(r)
        <5>1. SUFFICES ASSUME Startable(r)' PROVE Startable(r)
          OBVIOUS
        <5>2. doc.list[r] = "sent" /\ Editing /\ Open(r)
          BY <2>5, <2>6, <3>3, <5>1
        <5>3. doc.status \in Status \ {"completed"}
          BY <1>0, <2>8, <5>2 DEF Document
        <5> QED BY <5>2, <5>3 DEF Startable, Status
      <4> QED BY <1>0, <2>1, <2>4, <2>7, <3>1, <4>1, BillBegun
    <3> QED BY <3>2, <3>3
  <2>10. CASE x \notin outdated
    <3>1. overtaken' = overtaken
      BY <2>10 DEF Begin, StatusSaved
    <3>2. Fresh(x)
      BY <1>1, <2>10 DEF Fresh
    <3>3. doc.status \in {"draft", "scheduled", "cancelled", "failed"}
          /\ (doc.list[r] = "sent" => snap[x].list[r] = "sent")
      BY <1>0, <3>2 DEF PaidInv, CopiesOK, FreshOK, Document, Status
    <3>4. CASE r \notin todo'[x]
      <4>1. Startable(r)' => Startable(r)
        BY <2>6, <3>3 DEF Startable
      <4> QED BY <1>0, <2>1, <2>4, <2>7, <3>1, <3>4, <4>1, BillBegun
    <3>5. CASE r \in todo'[x]
      <4>1. Startable(r) /\ ~Startable(r)'
        BY <2>3, <2>5, <3>2, <3>3, <3>5 DEF Startable
      <4> QED BY <1>0, <2>1, <2>4, <2>7, <3>1, <4>1, BillBegun
    <3> QED BY <3>4, <3>5
  <2> QED BY <2>9, <2>10
<1> QED BY <1>6, <1>8 DEF PaidInv, Billed

LEMMA SendPaid ==
  ASSUME PaidInv, SettledInv', NEW x \in Executor, Send(x)
  PROVE  PaidInv'
<1>0. x \in Proc /\ TypeOK /\ TypeOK' /\ SettledInv /\ ControlOK /\ doc \in Document
  BY DEF PaidInv, SettledInv, TypeOK, Proc
<1>1. snap[x] \in Document /\ pc[x] = "sending"
  BY <1>0, CopyType DEF Send
<1>2. UNCHANGED <<doc, pc, outdated, overtaken>>
  BY DEF Send
<1>3. PICK t \in Recipient, outcome \in {"sent", "failed"} :
        /\ t \in todo[x] /\ Record(x, t, outcome) /\ todo' = [todo EXCEPT ![x] = @ \ {t}]
        /\ \/ outcome = "sent" /\ Deliver(t) /\ UNCHANGED unsaid
           \/ outcome = "failed" /\ UNCHANGED <<copies, unsaid>>
           \/ outcome = "failed" /\ Deliver(t) /\ unsaid' = [unsaid EXCEPT ![t] = @ + 1]
  BY DEF Send, NextOf, Lose
<1>4. snap' = [snap EXCEPT ![x] = [snap[x] EXCEPT !.list = [snap[x].list EXCEPT ![t] = outcome]]]
  BY <1>3 DEF Record
<1>5. /\ snap'[x].list = [snap[x].list EXCEPT ![t] = outcome]
      /\ \A o \in Proc \ {x} : snap'[o] = snap[o]
  BY <1>0, <1>1, <1>4 DEF Document, ControlOK
<1>6. todo'[x] = todo[x] \ {t} /\ \A y \in Executor \ {x} : todo'[y] = todo[y]
  BY <1>0, <1>3 DEF ControlOK
<1>7. CopiesOK'
  BY <1>0, <1>1, <1>2, <1>5, KeptStatusCopies DEF PaidInv
<1>8. Editing' = Editing
  BY <1>2, <1>5, EditsAlone
<1>9. ASSUME NEW r \in Recipient, r # t \/ outcome = "sent"
      PROVE  Startable(r)' => Startable(r)
  <2>1. Open(r)' = Open(r)
    BY <1>2, <1>8 DEF Open
  <2>2. \A y \in Executor : Fresh(y)' /\ snap'[y].list[r] = "pending" => Fresh(y) /\ snap[y].list[r] = "pending"
    BY <1>1, <1>2, <1>5 DEF Fresh, Proc
  <2>3. \A y \in Executor \ {x} : MayReopen(y, r)' => MayReopen(y, r)
    BY <1>2, <1>5, <1>6, <2>1 DEF MayReopen, Current, Proc
  <2>4. MayReopen(x, r)' => MayReopen(x, r)
    <3>1. snap[x].list \in [Recipient -> Entry]
      BY <1>1 DEF Document
    <3>2. CASE r # t
      <4>1. snap'[x].list[r] = snap[x].list[r] /\ (r \in todo'[x] <=> r \in todo[x])
        BY <1>5, <1>6, <3>1, <3>2
      <4> QED BY <1>2, <2>1, <4>1 DEF MayReopen, Current
    <3>3. CASE r = t /\ outcome = "sent"
      <4>1. snap'[x].list[r] = "sent" /\ pc'[x] = "sending"
        BY <1>1, <1>2, <1>5, <3>1, <3>3
      <4> QED BY <4>1 DEF MayReopen
    <3> QED BY <1>9, <3>2, <3>3
  <2> QED BY <1>2, <1>8, <2>1, <2>2, <2>3, <2>4, StartableKept
<1>10. Billed'
  <2> SUFFICES ASSUME NEW r \in Recipient
               PROVE  (copies[r] + ToCome(r) <= 1 + unsaid[r] + overtaken)'
    BY DEF Billed
  <2>1. copies[r] + ToCome(r) <= 1 + unsaid[r] + overtaken
    BY DEF PaidInv, Billed
  <2>2. CASE r # t
    <3>1. copies'[r] = copies[r] /\ unsaid'[r] = unsaid[r]
      BY <1>0, <1>3, <2>2 DEF Deliver, TypeOK, HistoryOK
    <3>2. Visiting(r)' = Visiting(r)
      BY <1>6, <2>2 DEF Visiting
    <3> QED BY <1>0, <1>2, <1>9, <2>1, <2>2, <3>1, <3>2, BillTypes, BillKept
  <2>3. CASE r = t
    <3>1. Visiting(r)' = Visiting(r) \ {x} /\ r \in todo[x]
      BY <1>3, <1>6, <2>3 DEF Visiting
    <3>2. \/ copies'[r] = copies[r] + 1 /\ unsaid'[r] = unsaid[r] /\ outcome = "sent"
          \/ copies'[r] = copies[r] /\ unsaid'[r] = unsaid[r]
          \/ copies'[r] = copies[r] + 1 /\ unsaid'[r] = unsaid[r] + 1
      BY <1>0, <1>3, <2>3 DEF Deliver, TypeOK, HistoryOK
    <3>3. copies[r] \in Nat /\ unsaid[r] \in Nat /\ overtaken' = overtaken
      BY <1>0, <1>2, BillTypes
    <3>4. \/ copies'[r] = copies[r] /\ unsaid'[r] >= unsaid[r]
          \/ copies'[r] = copies[r] + 1 /\ unsaid'[r] > unsaid[r]
          \/ copies'[r] = copies[r] + 1 /\ unsaid'[r] = unsaid[r] /\ (Startable(r)' => Startable(r))
      BY <1>9, <3>2, <3>3
    <3> QED BY <1>0, <2>1, <3>1, <3>3, <3>4, BillVisited
  <2> QED BY <2>2, <2>3
<1> QED BY <1>7, <1>10 DEF PaidInv

LEMMA RetryPaid ==
  ASSUME PaidInv, SettledInv', NEW x \in Executor, Retry(x)
  PROVE  PaidInv'
<1>0. TypeOK /\ TypeOK'
  BY DEF PaidInv, SettledInv
<1>1. UNCHANGED <<doc, pc, snap, todo, outdated, overtaken>>
  BY DEF Retry, memory
<1>2. CopiesOK' /\ \A r \in Recipient : ToCome(r)' = ToCome(r)
  BY <1>1 DEF PaidInv, CopiesOK, FreshOK, CurrentOK, CommandOK, ToCome, Visiting, Startable, MayReopen,
              Open, Editing, VersionMatches, Fresh, Current
<1>3. ASSUME NEW r \in Recipient
      PROVE  (copies[r] + ToCome(r) <= 1 + unsaid[r] + overtaken)'
  <2>1. copies[r] + ToCome(r) <= 1 + unsaid[r] + overtaken
    BY DEF PaidInv, Billed
  <2>2. \/ copies'[r] = copies[r] /\ unsaid'[r] = unsaid[r]
        \/ copies'[r] = copies[r] + 1 /\ unsaid'[r] = unsaid[r] + 1
    BY <1>0 DEF Retry, Lose, Deliver, TypeOK, HistoryOK
  <2>3. ToCome(r) \in Nat
    BY VisitorsFinite DEF ToCome
  <2> QED BY <1>0, <1>1, <1>2, <2>1, <2>2, <2>3, BillTypes
<1> QED BY <1>2, <1>3 DEF PaidInv, Billed

\* What is thrown loses the outcomes in memory: whoever has been sent to and is not
\* recorded as such in the campaign is paid for by that.
LEMMA ThrowPaid ==
  ASSUME PaidInv, SettledInv', NEW x \in Executor, Throw(x)
  PROVE  PaidInv'
<1>0. x \in Proc /\ TypeOK /\ TypeOK' /\ SettledInv /\ ControlOK
  BY DEF PaidInv, SettledInv, TypeOK, Proc
<1>1. UNCHANGED <<doc, snap, outdated, overtaken>> /\ pc[x] = "sending"
  BY DEF Throw
<1>2. /\ pc'[x] = "failing" /\ \A o \in Proc \ {x} : pc'[o] = pc[o]
      /\ todo'[x] = {} /\ \A y \in Executor \ {x} : todo'[y] = todo[y]
  BY <1>0 DEF Throw, Goto, ControlOK
<1>3. PICK t \in Recipient, gone \in BOOLEAN :
        /\ t \in todo[x]
        /\ IF gone THEN Deliver(t) ELSE UNCHANGED copies
        /\ unsaid' = [o \in Recipient |->
             IF (gone /\ o = t) \/ (snap[x].list[o] = "sent" /\ doc.list[o] # "sent")
               THEN unsaid[o] + 1 ELSE unsaid[o]]
  BY DEF Throw, NextOf
<1>4. CopiesOK'
  BY <1>0, <1>1, <1>2, KeptStatusCopies DEF PaidInv
<1>5. Editing' = Editing
  BY <1>1, <1>2, EditsAlone
<1>6. ASSUME NEW r \in Recipient, r \notin todo[x], ~(snap[x].list[r] = "sent" /\ doc.list[r] # "sent")
      PROVE  Startable(r)' => Startable(r)
  <2>1. Open(r)' = Open(r)
    BY <1>1, <1>5 DEF Open
  <2>2. \A y \in Executor : Fresh(y)' => Fresh(y)
    BY <1>1, <1>2 DEF Fresh, Proc
  <2>3. ASSUME NEW y \in Executor \ {x}, MayReopen(y, r)' PROVE MayReopen(y, r)
    BY <1>1, <1>2, <2>1, <2>3 DEF MayReopen, Current, Proc
  <2>4. CASE snap[x].list[r] # "sent"
    <3>1. MayReopen(x, r)' => MayReopen(x, r)
      BY <1>1, <1>2, <1>6, <2>1, <2>4 DEF MayReopen, Current
    <3>2. \A y \in Executor : MayReopen(y, r)' => MayReopen(y, r)
      BY <2>3, <3>1
    <3> QED BY <1>1, <1>5, <2>1, <2>2, <3>2, StartableKept
  <2>5. CASE doc.list[r] = "sent"
    <3>1. Open(r) => Editing
      BY <2>5 DEF Open
    <3>2. \A y \in Executor : Fresh(y)' => Fresh(y) /\ snap'[y] = snap[y]
      BY <1>1, <2>2
    <3> QED BY <1>1, <1>5, <2>1, <2>5, <3>1, <3>2 DEF Startable, MayReopen
  <2> QED BY <1>6, <2>4, <2>5
<1>7. ASSUME NEW r \in Recipient
      PROVE  (copies[r] + ToCome(r) <= 1 + unsaid[r] + overtaken)'
  <2>1. copies[r] + ToCome(r) <= 1 + unsaid[r] + overtaken
    BY DEF PaidInv, Billed
  <2>2. copies[r] \in Nat /\ unsaid[r] \in Nat /\ overtaken \in Nat /\ overtaken' = overtaken
    BY <1>0, <1>1, BillTypes
  <2>3. Visiting(r)' = Visiting(r) \ {x} /\ (r \notin todo[x] => Visiting(r)' = Visiting(r))
    BY <1>2 DEF Visiting
  <2>4. CASE r \in todo[x]
    <3>1. \/ copies'[r] = copies[r] /\ unsaid'[r] >= unsaid[r]
          \/ copies'[r] = copies[r] + 1 /\ unsaid'[r] > unsaid[r]
      BY <1>0, <1>3, <2>2 DEF Deliver, TypeOK, HistoryOK
    <3> QED BY <1>0, <2>1, <2>2, <2>3, <2>4, <3>1, BillVisited
  <2>5. CASE r \notin todo[x] /\ ~(snap[x].list[r] = "sent" /\ doc.list[r] # "sent")
    <3>1. copies'[r] = copies[r] /\ unsaid'[r] = unsaid[r]
      BY <1>0, <1>3, <2>5 DEF Deliver, TypeOK, HistoryOK
    <3>2. copies'[r] = copies[r] /\ unsaid'[r] >= unsaid[r] /\ overtaken' >= overtaken
      BY <2>2, <3>1
    <3>3. Startable(r)' => Startable(r)
      BY <1>6, <2>5
    <3>4. Visiting(r)' \subseteq Visiting(r)
      BY <2>3
    <3> QED BY <1>0, <2>1, <3>2, <3>3, <3>4, BillKept
  <2>6. CASE r \notin todo[x] /\ snap[x].list[r] = "sent" /\ doc.list[r] # "sent"
    <3>1. copies'[r] = copies[r] /\ unsaid'[r] = unsaid[r] + 1
      BY <1>0, <1>3, <2>6 DEF Deliver, TypeOK, HistoryOK
    <3>2. ToCome(r)' <= ToCome(r) + 1 /\ ToCome(r) \in Nat /\ ToCome(r)' \in Nat
      BY <2>3, <2>6, VisitorsFinite DEF ToCome
    <3> QED BY <2>1, <2>2, <3>1, <3>2
  <2> QED BY <2>4, <2>5, <2>6
<1> QED BY <1>4, <1>7 DEF PaidInv, Billed

\* The run that has the campaign in 'sending' leaves what it might reopen; another
\* saves 'failed' over a status that it has not seen, and is paid for by that.
LEMMA FailPaid ==
  ASSUME PaidInv, SettledInv', NEW x \in Executor, Fail(x)
  PROVE  PaidInv'
<1>0. x \in Proc /\ TypeOK /\ TypeOK' /\ SettledInv /\ ControlOK /\ doc \in Document
  BY DEF PaidInv, SettledInv, TypeOK, Proc
<1>1. pc[x] = "failing" /\ doc'.list = doc.list /\ doc'.version = doc.version /\ doc'.status = "failed"
      /\ UNCHANGED <<todo, copies, unsaid>>
  BY <1>0 DEF Fail, Document
<1>2. pc'[x] = "off" /\ \A o \in Proc \ {x} : pc'[o] = pc[o] /\ snap'[o] = snap[o]
  BY <1>0 DEF Fail, Goto, Forget, ControlOK
<1>3. CopiesOK' /\ \A y \in Executor : ~Fresh(y)'
  BY <1>0, <1>2, SavedStatusCopies DEF Fail, StatusSaved
<1>4. Editing' = Editing
  BY <1>1, <1>2, EditsAlone
<1>5. ASSUME NEW r \in Recipient
      PROVE  (copies[r] + ToCome(r) <= 1 + unsaid[r] + overtaken)'
  <2>1. copies[r] + ToCome(r) <= 1 + unsaid[r] + overtaken
    BY DEF PaidInv, Billed
  <2>2. Visiting(r)' = Visiting(r)
    BY <1>1 DEF Visiting
  <2>3. Startable(r)' => Open(r)
    BY <1>1, <1>3, <1>4 DEF Startable, Open
  <2>4. CASE x \in outdated
    BY <1>0, <1>1, <2>1, <2>2, <2>4, BillTypes, BillKept DEF Fail, StatusSaved
  <2>5. CASE x \notin outdated
    <3>1. Current(x) /\ doc.status = "sending"
      BY <1>1, <2>5 DEF Current, PaidInv, CopiesOK, CurrentOK
    <3>2. Startable(r)' => Startable(r)
      BY <1>1, <2>3, <3>1 DEF Startable, MayReopen
    <3>3. overtaken' = overtaken
      BY <2>5 DEF Fail, StatusSaved
    <3>4. copies'[r] = copies[r] /\ unsaid'[r] >= unsaid[r] /\ overtaken' >= overtaken
      BY <1>0, <1>1, <3>3, BillTypes
    <3> QED BY <1>0, <2>1, <2>2, <3>2, <3>4, BillKept
  <2> QED BY <2>4, <2>5
<1> QED BY <1>3, <1>5 DEF PaidInv, Billed

LEMMA FinishPaid ==
  ASSUME PaidInv, SettledInv', NEW x \in Executor, Finish(x) \/ FinishFails(x)
  PROVE  PaidInv'
<1>0. x \in Proc /\ TypeOK /\ TypeOK' /\ SettledInv /\ ControlOK /\ doc \in Document
  BY DEF PaidInv, SettledInv, TypeOK, Proc
<1>1. /\ pc[x] = "sending" /\ todo[x] = {} /\ UNCHANGED <<todo, copies, unsaid>>
      /\ Goto(x, "off") /\ Forget(x)
      /\ SaveOutcomes(x, "failed") \/ SaveOutcomes(x, "completed") \/ Abandon(x)
  BY DEF Finish, FinishFails, Verdict
<1>2. pc'[x] = "off" /\ \A o \in Proc \ {x} : pc'[o] = pc[o] /\ snap'[o] = snap[o]
  BY <1>0, <1>1 DEF Goto, Forget, ControlOK
<1>3. ASSUME CopiesOK', overtaken' = overtaken, \A r \in Recipient : Startable(r)' => Startable(r)
      PROVE  PaidInv'
  <2>1. ASSUME NEW r \in Recipient
        PROVE  (copies[r] + ToCome(r) <= 1 + unsaid[r] + overtaken)'
    <3>1. copies[r] + ToCome(r) <= 1 + unsaid[r] + overtaken
      BY DEF PaidInv, Billed
    <3>2. Visiting(r)' = Visiting(r)
      BY <1>1 DEF Visiting
    <3>3. copies'[r] = copies[r] /\ unsaid'[r] >= unsaid[r] /\ overtaken' >= overtaken
      BY <1>0, <1>1, <1>3, BillTypes
    <3>4. Startable(r)' => Startable(r)
      BY <1>3
    <3> QED BY <1>0, <3>1, <3>2, <3>3, <3>4, BillKept
  <2> QED BY <1>3, <2>1 DEF PaidInv, Billed
<1>4. CASE SaveOutcomes(x, "failed") \/ SaveOutcomes(x, "completed")
  <2>1. /\ doc'.version = doc.version + 1 /\ doc'.list = snap[x].list
        /\ doc'.status \in {"failed", "completed"} /\ Outdate(x) /\ overtaken' = overtaken
    BY <1>0, <1>4 DEF SaveOutcomes, Document
  <2>2. CopiesOK' /\ \A y \in Executor : ~Fresh(y)'
    BY <1>0, <1>2, <2>1, SavedStatusCopies
  <2>3. ~Editing'
    BY <1>0, <1>2, <2>1, NoneEdits
  <2>4. \A r \in Recipient : doc'.list[r] # "pending"
    BY <1>0, <1>1, <2>1 DEF SettledInv, RunsOK, Pending
  <2>5. \A r \in Recipient : ~Startable(r)'
    BY <2>1, <2>2, <2>3, <2>4 DEF Startable, Open
  <2> QED BY <1>3, <2>1, <2>2, <2>5
<1>5. CASE Abandon(x)
  <2>1. doc' = doc /\ outdated' = outdated \ {x} /\ overtaken' = overtaken
    BY <1>5 DEF Abandon, KeepStatus
  <2>2. CopiesOK'
    BY <1>0, <1>2, <2>1, KeptStatusCopies DEF PaidInv
  <2>3. Editing' = Editing
    BY <1>2, <2>1, EditsAlone
  <2>4. ASSUME NEW r \in Recipient PROVE Startable(r)' => Startable(r)
    <3>1. Open(r)' = Open(r)
      BY <2>1, <2>3 DEF Open
    <3>2. \A y \in Executor : Current(y)' => y # x /\ Current(y)
      BY <1>2, <2>1 DEF Current, Proc
    <3>3. \A y \in Executor : MayReopen(y, r)' => MayReopen(y, r)
      BY <1>1, <1>2, <3>1, <3>2 DEF MayReopen, Proc
    <3>4. \A y \in Executor : Fresh(y)' /\ snap'[y].list[r] = "pending" => Fresh(y) /\ snap[y].list[r] = "pending"
      BY <1>2, <2>1 DEF Fresh, Proc
    <3> QED BY <2>1, <2>3, <3>1, <3>3, <3>4, StartableKept
  <2> QED BY <1>3, <2>1, <2>2, <2>4
<1> QED BY <1>1, <1>4, <1>5

LEMMA CrashPaid ==
  ASSUME PaidInv, SettledInv', Crash
  PROVE  PaidInv'
<1>0. TypeOK /\ TypeOK'
  BY DEF PaidInv, SettledInv
<1>1. /\ \A p \in Proc : pc'[p] \in {"off", "idle"}
      /\ \A x \in Executor : todo'[x] = {}
      /\ UNCHANGED <<doc, copies, unsaid, overtaken>>
  BY DEF Crash
<1>2. CopiesOK' /\ ~Editing' /\ \A x \in Executor : ~Fresh(x)' /\ ~Current(x)'
  BY <1>1 DEF CopiesOK, FreshOK, CurrentOK, CommandOK, Editing, Fresh, Current, Proc
<1>3. ASSUME NEW r \in Recipient
      PROVE  (copies[r] + ToCome(r) <= 1 + unsaid[r] + overtaken)'
  <2>1. copies[r] + ToCome(r) <= 1 + unsaid[r] + overtaken
    BY DEF PaidInv, Billed
  <2>2. Visiting(r)' \subseteq Visiting(r)
    BY <1>1 DEF Visiting
  <2>3. Startable(r)' => Startable(r)
    BY <1>1, <1>2 DEF Startable, MayReopen, Open
  <2> QED BY <1>0, <1>1, <2>1, <2>2, <2>3, BillTypes, BillKept
<1> QED BY <1>2, <1>3 DEF PaidInv, Billed

LEMMA InitPaid == Init => PaidInv
<1> SUFFICES ASSUME Init PROVE PaidInv
  OBVIOUS
<1>1. SettledInv
  BY InitSettled
<1>2. \A p \in Proc : pc[p] \in {"off", "idle"}
  BY DEF Init
<1>3. CopiesOK
  BY <1>2 DEF CopiesOK, FreshOK, CurrentOK, CommandOK, Fresh, Current, Proc
<1>4. ASSUME NEW r \in Recipient PROVE copies[r] + ToCome(r) <= 1 + unsaid[r] + overtaken
  <2>1. Visiting(r) = {}
    BY DEF Init, Visiting
  <2>2. Cardinality(Visiting(r)) = 0
    BY <2>1, FS_EmptySet
  <2>3. copies[r] = 0 /\ unsaid[r] = 0 /\ overtaken = 0
    BY DEF Init
  <2> QED BY <2>2, <2>3 DEF ToCome
<1> QED BY <1>1, <1>3, <1>4 DEF PaidInv, Billed

LEMMA PaidStep == PaidInv /\ [Next]_vars => PaidInv'
<1> SUFFICES ASSUME PaidInv, [Next]_vars PROVE PaidInv'
  OBVIOUS
<1>1. SettledInv'
  BY SettledStep DEF PaidInv
<1>2. CASE UNCHANGED vars
  BY <1>1, <1>2 DEF vars, memory, history, PaidInv, CopiesOK, FreshOK, CurrentOK, CommandOK, Billed,
     ToCome, Visiting, Startable, MayReopen, Open, Editing, VersionMatches, Fresh, Current
<1>3. CASE Next
  BY <1>1, <1>3, RequestPaid, StartPaid, BeginPaid, SendPaid, RetryPaid, ThrowPaid, FailPaid,
     FinishPaid, CrashPaid DEF Next, Execute
<1> QED BY <1>2, <1>3

\* However runs, requests, faults and crashes overlap: a recipient gets one message,
\* and one more for each outcome lost and each status saved from an outdated copy.
THEOREM EveryFurtherCopyIsPaidFor == Spec => []EveryCopyIsPaidFor
<1>1. Spec => []PaidInv
  BY InitPaid, PaidStep, PTL DEF Spec
<1>2. PaidInv => EveryCopyIsPaidFor
  <2> SUFFICES ASSUME PaidInv, NEW r \in Recipient PROVE copies[r] <= 1 + unsaid[r] + overtaken
    BY DEF EveryCopyIsPaidFor
  <2>1. copies[r] \in Nat /\ unsaid[r] \in Nat /\ overtaken \in Nat
    BY DEF PaidInv, SettledInv, TypeOK, HistoryOK
  <2>2. ToCome(r) \in Nat
    BY VisitorsFinite DEF ToCome
  <2> QED BY <2>1, <2>2 DEF PaidInv, Billed
<1> QED BY <1>1, <1>2, PTL
=============================================================================
