----------------------- MODULE FollowUpEngagementProofs -----------------------
(***************************************************************************)
(* The safety of FollowUpEngagement, for any number of alternates, cadence *)
(* steps, rows, starts and disturbances.  The first part says, action by   *)
(* action, what is written to the rows; the theorems build on that.        *)
(***************************************************************************)
EXTENDS FollowUpEngagement, SequenceTheorems, FiniteSetTheorems, TLAPS

RowsOK == rows \in Seq(Row) /\ Len(rows) <= MaxRows

\* Where the scheduler stands says which list it runs and how far it may be.
PlacesOK ==
  /\ mail # <<>>
  /\ run.kind = "alternate" => run.at \in 1..NAlt
  /\ run.kind = "cadence"   => run.at <= NCad + 1
  /\ pc \in {"step", "unset"} => run.kind = "cadence"
  /\ pc \in {"check", "send", "guard"} /\ run.kind = "cadence" => run.at <= NCad
  /\ pc = "rearm" => run.kind = "alternate" /\ rows[cur].guardTok # 0

-----------------------------------------------------------------------------
(* What an action writes to the rows.                                      *)

\* Only row r is written, and not its place in the record's history.
Rewritten(r) ==
  /\ RowsOK' /\ Len(rows') = Len(rows)
  /\ \A o \in JobId \ {r} : rows'[o] = rows[o]
  /\ rows'[r].era = rows[r].era /\ rows'[r].rest = rows[r].rest

SameGuard(r) == rows'[r].guard = rows[r].guard /\ rows'[r].guardTok = rows[r].guardTok

\* Row r gets status s; its wait and its guard stay.
Restatus(r, s) ==
  /\ Rewritten(r) /\ SameGuard(r)
  /\ rows'[r].wait = rows[r].wait /\ rows'[r].status = s

PendingCancelled ==
  /\ RowsOK' /\ Len(rows') = Len(rows)
  /\ \A r \in JobId :
       /\ rows'[r].era = rows[r].era /\ rows'[r].rest = rows[r].rest
       /\ SameGuard(r) /\ rows'[r].wait = rows[r].wait
       /\ rows'[r].status = IF Pending(r) THEN "cancelled" ELSE rows[r].status

\* A pending row is added, with nothing sent by it yet.
Added(row) ==
  /\ RowsOK' /\ Len(rows') = Len(rows) + 1
  /\ \A o \in JobId : rows'[o] = rows[o]
  /\ rows'[Len(rows) + 1] = row
  /\ row.status = "pending" /\ row.guardTok = 0

LEMMA RowType ==
  ASSUME RowsOK, NEW r \in JobId
  PROVE  rows[r] \in Row
BY ElementOfSeq DEF RowsOK, JobId

LEMMA Rewriting ==
  ASSUME RowsOK, NEW r \in JobId, NEW row \in Row, rows' = [rows EXCEPT ![r] = row],
         row.era = rows[r].era, row.rest = rows[r].rest
  PROVE  Rewritten(r) /\ rows'[r] = row
BY ExceptSeq DEF RowsOK, JobId, Rewritten

LEMMA Adding ==
  ASSUME RowsOK, Len(rows) < MaxRows, NEW row \in Row, rows' = Append(rows, row),
         row.status = "pending", row.guardTok = 0
  PROVE  Added(row)
BY AppendProperties, FollowUpAssumption DEF RowsOK, JobId, Added

LEMMA Cancelling ==
  ASSUME RowsOK, rows' = CancelPending
  PROVE  PendingCancelled
<1> DEFINE row(r) == IF Pending(r) THEN [rows[r] EXCEPT !.status = "cancelled"] ELSE rows[r]
<1>1. ASSUME NEW r \in JobId
      PROVE  /\ row(r) \in Row
             /\ row(r).era = rows[r].era /\ row(r).rest = rows[r].rest
             /\ row(r).guard = rows[r].guard /\ row(r).guardTok = rows[r].guardTok
             /\ row(r).wait = rows[r].wait
             /\ row(r).status = IF Pending(r) THEN "cancelled" ELSE rows[r].status
  BY RowType DEF Row, Terminal
<1>2. rows' = [r \in JobId |-> row(r)]
  BY DEF CancelPending
<1> HIDE DEF row
<1>3. rows' \in Seq(Row) /\ Len(rows') = Len(rows)
  <2>1. Len(rows) \in Nat /\ rows' \in [1..Len(rows) -> Row]
    BY <1>1, <1>2 DEF JobId, RowsOK
  <2> QED BY <2>1, SeqDef
<1> QED BY <1>1, <1>2, <1>3 DEF JobId, RowsOK, PendingCancelled, SameGuard

LEMMA AddedJob ==
  ASSUME TypeOK, NEW row, Added(row)
  PROVE  JobId' = JobId \cup {Len(rows) + 1} /\ Len(rows) + 1 \notin JobId
<1>1. Len(rows) \in Nat /\ Len(rows') = Len(rows) + 1
  BY LenProperties DEF TypeOK, Added
<1> QED BY <1>1 DEF JobId

LEMMA StartParkRow ==
  ASSUME TypeOK, PlacesOK, StartPark
  PROVE  /\ Added(rows'[Len(rows) + 1])
         /\ rows'[Len(rows) + 1].era = starts + 1 /\ rows'[Len(rows) + 1].rest = NCad + 1
         /\ rows'[Len(rows) + 1].wait.idx = 0
<1> DEFINE row == [status |-> "pending", era |-> starts + 1,
        wait |-> [tok |-> Len(mail), idx |-> 0, expired |-> FALSE], rest |-> NCad + 1,
        guard |-> NoGuard, guardTok |-> 0, last |-> Len(mail), notes |-> NoNotes,
        permanent |-> FALSE, blocked |-> FALSE]
<1>1. Len(mail) \in Nat \ {0}
  BY EmptySeq, LenProperties DEF TypeOK, PlacesOK
<1>2. [tok |-> Len(mail), idx |-> 0, expired |-> FALSE] \in Wait
  BY <1>1, FollowUpAssumption DEF Wait
<1>3. NoNotes \in Notes
  BY DEF NoNotes, Notes
<1>4. row \in Row
  BY <1>1, <1>2, <1>3, FollowUpAssumption DEF TypeOK, Row
<1>5. rows' = Append(rows, row) /\ Len(rows) < MaxRows
  BY DEF StartPark
<1>6. /\ row.status = "pending" /\ row.guardTok = 0 /\ row.era = starts + 1
      /\ row.rest = NCad + 1 /\ row.wait.idx = 0
  OBVIOUS
<1> HIDE DEF row
<1> QED BY <1>4, <1>5, <1>6, Adding DEF TypeOK, RowsOK, Added

LEMMA ParkRow ==
  ASSUME TypeOK, PlacesOK, Park
  PROVE  /\ Added(rows'[Len(rows) + 1])
         /\ rows'[Len(rows) + 1].era = rows[cur].era /\ rows'[Len(rows) + 1].rest = run.at
         /\ rows'[Len(rows) + 1].wait = NoWait
<1> DEFINE row == [status |-> "pending", era |-> rows[cur].era, wait |-> NoWait,
        rest |-> run.at, guard |-> NoGuard, guardTok |-> 0, last |-> run.last,
        notes |-> run.notes, permanent |-> FALSE, blocked |-> FALSE]
<1>1. cur \in JobId /\ rows[cur].era \in Nat
  <2>1. cur \in JobId
    BY DEF Park, TypeOK, JobId
  <2> QED BY <2>1, RowType DEF Row, TypeOK, RowsOK
<1>2. run.at \in 1..(NCad + 1) /\ run.last \in Nat \ {0} /\ run.notes \in Notes
  BY FollowUpAssumption DEF Park, TypeOK, PlacesOK, Run
<1>3. row \in Row
  BY <1>1, <1>2 DEF Row
<1>4. rows' = Append(rows, row) /\ Len(rows) < MaxRows
  BY DEF Park
<1>5. /\ row.status = "pending" /\ row.guardTok = 0 /\ row.era = rows[cur].era
      /\ row.rest = run.at /\ row.wait = NoWait
  OBVIOUS
<1> HIDE DEF row
<1> QED BY <1>3, <1>4, <1>5, Adding DEF TypeOK, RowsOK, Added

LEMMA ClaimRow ==
  ASSUME TypeOK, PlacesOK, NEW r \in JobId, Claim(r)
  PROVE  r \in JobId /\ Restatus(r, "processing")
<1> DEFINE row == [rows[r] EXCEPT !.status = "processing"]
<1>1. r \in JobId
  BY DEF Claim, TypeOK, JobId
<1>2. rows[r] \in Row
  BY <1>1, RowType DEF TypeOK, RowsOK
<1>3. /\ row \in Row /\ row.era = rows[r].era /\ row.rest = rows[r].rest
      /\ row.guard = rows[r].guard /\ row.guardTok = rows[r].guardTok
      /\ row.wait = rows[r].wait /\ row.status = "processing"
  BY <1>2 DEF Row, Terminal
<1>4. rows' = [rows EXCEPT ![r] = row]
  BY DEF Claim
<1> HIDE DEF row
<1> QED BY <1>1, <1>3, <1>4, Rewriting DEF TypeOK, RowsOK, Restatus, SameGuard

LEMMA StaleReclaimRow ==
  ASSUME TypeOK, PlacesOK, NEW r \in JobId, StaleReclaim(r)
  PROVE  r \in JobId /\ Restatus(r, "pending")
<1> DEFINE row == [rows[r] EXCEPT !.status = "pending"]
<1>1. r \in JobId
  BY DEF StaleReclaim, TypeOK, JobId
<1>2. rows[r] \in Row
  BY <1>1, RowType DEF TypeOK, RowsOK
<1>3. /\ row \in Row /\ row.era = rows[r].era /\ row.rest = rows[r].rest
      /\ row.guard = rows[r].guard /\ row.guardTok = rows[r].guardTok
      /\ row.wait = rows[r].wait /\ row.status = "pending"
  BY <1>2 DEF Row, Terminal
<1>4. rows' = [rows EXCEPT ![r] = row]
  BY DEF StaleReclaim
<1> HIDE DEF row
<1> QED BY <1>1, <1>3, <1>4, Rewriting DEF TypeOK, RowsOK, Restatus, SameGuard

LEMMA CancelRowRow ==
  ASSUME TypeOK, PlacesOK, cur \in JobId, CancelRow
  PROVE  cur \in JobId /\ Restatus(cur, "cancelled")
<1> DEFINE row == [rows[cur] EXCEPT !.status = "cancelled"]
<1>1. cur \in JobId
  BY DEF CancelRow, TypeOK, JobId
<1>2. rows[cur] \in Row
  BY <1>1, RowType DEF TypeOK, RowsOK
<1>3. /\ row \in Row /\ row.era = rows[cur].era /\ row.rest = rows[cur].rest
      /\ row.guard = rows[cur].guard /\ row.guardTok = rows[cur].guardTok
      /\ row.wait = rows[cur].wait /\ row.status = "cancelled"
  BY <1>2 DEF Row, Terminal
<1>4. rows' = [rows EXCEPT ![cur] = row]
  BY DEF CancelRow
<1> HIDE DEF row
<1> QED BY <1>1, <1>3, <1>4, Rewriting DEF TypeOK, RowsOK, Restatus, SameGuard

LEMMA PollRow ==
  ASSUME TypeOK, PlacesOK, Poll
  PROVE  cur \in JobId /\ Restatus(cur, "pending")
<1> DEFINE row == [rows[cur] EXCEPT !.status = "pending", !.notes = run.notes]
<1>1. cur \in JobId
  BY DEF Poll, TypeOK, JobId
<1>2. rows[cur] \in Row
  BY <1>1, RowType DEF TypeOK, RowsOK
<1>3. /\ row \in Row /\ row.era = rows[cur].era /\ row.rest = rows[cur].rest
      /\ row.guard = rows[cur].guard /\ row.guardTok = rows[cur].guardTok
      /\ row.wait = rows[cur].wait /\ row.status = "pending"
  BY <1>2 DEF Row, Terminal, TypeOK, Run
<1>4. rows' = [rows EXCEPT ![cur] = row]
  BY DEF Poll
<1> HIDE DEF row
<1> QED BY <1>1, <1>3, <1>4, Rewriting DEF TypeOK, RowsOK, Restatus, SameGuard

LEMMA RescheduledRow ==
  ASSUME TypeOK, PlacesOK, Rescheduled
  PROVE  cur \in JobId /\ Restatus(cur, IF rows[cur].status = "processing" THEN "pending" ELSE rows[cur].status)
<1> DEFINE row == [rows[cur] EXCEPT !.status = IF @ = "processing" THEN "pending" ELSE @]
<1>1. cur \in JobId
  BY DEF Rescheduled, TypeOK, JobId
<1>2. rows[cur] \in Row
  BY <1>1, RowType DEF TypeOK, RowsOK
<1>3. /\ row \in Row /\ row.era = rows[cur].era /\ row.rest = rows[cur].rest
      /\ row.guard = rows[cur].guard /\ row.guardTok = rows[cur].guardTok
      /\ row.wait = rows[cur].wait /\ row.status = IF rows[cur].status = "processing" THEN "pending" ELSE rows[cur].status
  BY <1>2 DEF Row, Terminal
<1>4. rows' = [rows EXCEPT ![cur] = row]
  BY DEF Rescheduled
<1> HIDE DEF row
<1> QED BY <1>1, <1>3, <1>4, Rewriting DEF TypeOK, RowsOK, Restatus, SameGuard

LEMMA DoneRow ==
  ASSUME TypeOK, PlacesOK, Done
  PROVE  cur \in JobId /\ Restatus(cur, "done")
<1> DEFINE row == [rows[cur] EXCEPT !.status = "done"]
<1>1. cur \in JobId
  BY DEF Done, TypeOK, JobId
<1>2. rows[cur] \in Row
  BY <1>1, RowType DEF TypeOK, RowsOK
<1>3. /\ row \in Row /\ row.era = rows[cur].era /\ row.rest = rows[cur].rest
      /\ row.guard = rows[cur].guard /\ row.guardTok = rows[cur].guardTok
      /\ row.wait = rows[cur].wait /\ row.status = "done"
  BY <1>2 DEF Row, Terminal
<1>4. rows' = [rows EXCEPT ![cur] = row]
  BY DEF Done
<1> HIDE DEF row
<1> QED BY <1>1, <1>3, <1>4, Rewriting DEF TypeOK, RowsOK, Restatus, SameGuard

LEMMA SendFailsRow ==
  ASSUME TypeOK, PlacesOK, SendFails
  PROVE  cur \in JobId /\ Restatus(cur, "failed")
<1>1. cur \in JobId
  BY DEF SendFails, TypeOK, JobId
<1>2. rows[cur] \in Row
  BY <1>1, RowType DEF TypeOK, RowsOK
<1>3. PICK permanent \in BOOLEAN :
        rows' = [rows EXCEPT ![cur].status = "failed", ![cur].permanent = permanent,
                   ![cur].blocked = @ \/ permanent \/ rows[cur].notes.auto >= MaxAutoAttempts]
  BY DEF SendFails
<1> DEFINE blocked == rows[cur].blocked \/ permanent \/ rows[cur].notes.auto >= MaxAutoAttempts
           row == [rows[cur] EXCEPT !.status = "failed", !.permanent = permanent,
                                    !.blocked = blocked]
<1>4. blocked \in BOOLEAN
  BY <1>2 DEF Row
<1>5. rows' = [rows EXCEPT ![cur] = row]
  BY <1>3
<1> HIDE DEF blocked
<1>6. /\ row \in Row /\ row.era = rows[cur].era /\ row.rest = rows[cur].rest
      /\ row.guard = rows[cur].guard /\ row.guardTok = rows[cur].guardTok
      /\ row.wait = rows[cur].wait /\ row.status = "failed"
  BY <1>2, <1>4 DEF Row, Terminal
<1> HIDE DEF row
<1> QED BY <1>1, <1>5, <1>6, Rewriting DEF TypeOK, RowsOK, Restatus, SameGuard

LEMMA BlockRecoveryRow ==
  ASSUME TypeOK, PlacesOK, BlockRecovery
  PROVE  \E i \in DOMAIN ended :
           /\ ended[i] \in JobId /\ ended' = Touch(ended[i])
           /\ Restatus(ended[i], rows[ended[i]].status)
<1>1. PICK i \in Unblocked :
        rows' = [rows EXCEPT ![ended[i]].blocked = TRUE] /\ ended' = Touch(ended[i])
  BY DEF BlockRecovery
<1> DEFINE r == ended[i]
           row == [rows[r] EXCEPT !.blocked = TRUE]
<1>2. i \in DOMAIN ended /\ r \in JobId
  BY <1>1, ElementOfSeq, LenProperties DEF Unblocked, TypeOK
<1>3. rows[r] \in Row
  BY <1>2, RowType DEF TypeOK, RowsOK
<1>4. /\ row \in Row /\ row.era = rows[r].era /\ row.rest = rows[r].rest
      /\ row.guard = rows[r].guard /\ row.guardTok = rows[r].guardTok
      /\ row.wait = rows[r].wait /\ row.status = rows[r].status
  BY <1>3 DEF Row
<1>5. rows' = [rows EXCEPT ![r] = row]
  BY <1>1
<1> HIDE DEF row
<1>6. Restatus(r, rows[r].status)
  BY <1>2, <1>4, <1>5, Rewriting DEF TypeOK, RowsOK, Restatus, SameGuard
<1> QED BY <1>1, <1>2, <1>6

LEMMA DeadlineRow ==
  ASSUME TypeOK, NEW r \in JobId, Deadline(r)
  PROVE  /\ Rewritten(r) /\ SameGuard(r) /\ rows'[r].status = rows[r].status
         /\ rows[r].wait # NoWait /\ rows'[r].wait # NoWait
         /\ rows'[r].wait.idx = rows[r].wait.idx /\ rows'[r].wait.tok = rows[r].wait.tok
<1> DEFINE row == [rows[r] EXCEPT !.wait.expired = TRUE]
<1>1. rows[r] \in Row /\ rows[r].wait \in Wait
  BY RowType DEF Deadline, Row, TypeOK, RowsOK
<1>2. row.wait \in Wait
  BY <1>1 DEF Row, Wait
<1>3. /\ row \in Row /\ row.era = rows[r].era /\ row.rest = rows[r].rest
      /\ row.guard = rows[r].guard /\ row.guardTok = rows[r].guardTok
      /\ row.status = rows[r].status
      /\ row.wait.idx = rows[r].wait.idx /\ row.wait.tok = rows[r].wait.tok
  BY <1>1, <1>2 DEF Row, Wait
<1>4. rows' = [rows EXCEPT ![r] = row]
  BY DEF Deadline
<1> HIDE DEF row
<1>5. row.wait # NoWait /\ rows[r].wait # NoWait
  BY <1>1, <1>2, FollowUpAssumption DEF Wait
<1> QED BY <1>3, <1>4, <1>5, Rewriting DEF TypeOK, RowsOK, SameGuard

LEMMA UnsetWaitRow ==
  ASSUME TypeOK, UnsetWait
  PROVE  /\ cur \in JobId /\ Rewritten(cur) /\ SameGuard(cur)
         /\ rows'[cur].status = rows[cur].status /\ rows'[cur].wait = NoWait
<1> DEFINE row == [rows[cur] EXCEPT !.wait = NoWait]
<1>1. cur \in JobId
  BY DEF UnsetWait, TypeOK, JobId
<1>2. rows[cur] \in Row
  BY <1>1, RowType DEF TypeOK, RowsOK
<1>3. /\ row \in Row /\ row.era = rows[cur].era /\ row.rest = rows[cur].rest
      /\ row.guard = rows[cur].guard /\ row.guardTok = rows[cur].guardTok
      /\ row.status = rows[cur].status /\ row.wait = NoWait
  BY <1>2 DEF Row
<1>4. rows' = [rows EXCEPT ![cur] = row]
  BY DEF UnsetWait
<1> HIDE DEF row
<1> QED BY <1>1, <1>3, <1>4, Rewriting DEF TypeOK, RowsOK, SameGuard

LEMMA RebindRow ==
  ASSUME TypeOK, PlacesOK, NEW r \in JobId, Rebind(r)
  PROVE  /\ Rewritten(r) /\ SameGuard(r) /\ rows'[r].status = rows[r].status
         /\ rows[r].wait # NoWait /\ rows'[r].wait # NoWait
         /\ rows'[r].wait.idx = rows[r].wait.idx
<1> DEFINE row == [rows[r] EXCEPT !.last = Len(mail), !.wait.tok = Len(mail)]
<1>1. rows[r] \in Row /\ rows[r].wait \in Wait
  BY RowType DEF Rebind, Row, TypeOK, RowsOK
<1>2. Len(mail) \in Nat \ {0}
  BY EmptySeq, LenProperties DEF TypeOK, PlacesOK
<1>3. row.wait \in Wait
  BY <1>1, <1>2 DEF Row, Wait
<1>4. /\ row \in Row /\ row.era = rows[r].era /\ row.rest = rows[r].rest
      /\ row.guard = rows[r].guard /\ row.guardTok = rows[r].guardTok
      /\ row.status = rows[r].status /\ row.wait.idx = rows[r].wait.idx
  BY <1>1, <1>2, <1>3 DEF Row, Wait
<1>5. rows' = [rows EXCEPT ![r] = row]
  BY DEF Rebind
<1> HIDE DEF row
<1>6. row.wait # NoWait /\ rows[r].wait # NoWait
  BY <1>1, <1>3, FollowUpAssumption DEF Wait
<1> QED BY <1>4, <1>5, <1>6, Rewriting DEF TypeOK, RowsOK, SameGuard

LEMMA RearmRow ==
  ASSUME TypeOK, PlacesOK, Rearm
  PROVE  /\ cur \in JobId /\ Rewritten(cur) /\ SameGuard(cur)
         /\ rows'[cur].status = "pending"
         /\ rows'[cur].wait # NoWait /\ rows'[cur].wait.idx = run.at
<1> DEFINE wait == [tok |-> rows[cur].guardTok, idx |-> run.at, expired |-> FALSE]
           row == [rows[cur] EXCEPT !.status = "pending", !.last = rows[cur].guardTok,
                                    !.wait = wait, !.notes = run.notes]
<1>1. cur \in JobId
  BY DEF Rearm, TypeOK, JobId
<1>2. rows[cur] \in Row
  BY <1>1, RowType DEF TypeOK, RowsOK
<1>3. run.notes \in Notes /\ run.at \in 1..NAlt /\ rows[cur].guardTok # 0
  BY DEF TypeOK, Run, PlacesOK, Rearm
<1>4. wait \in Wait /\ wait.idx = run.at
  BY <1>2, <1>3, FollowUpAssumption DEF Row, Wait
<1>5. rows' = [rows EXCEPT ![cur] = row]
  BY DEF Rearm
<1> HIDE DEF wait
<1>6. /\ row \in Row /\ row.era = rows[cur].era /\ row.rest = rows[cur].rest
      /\ row.guard = rows[cur].guard /\ row.guardTok = rows[cur].guardTok
      /\ row.status = "pending" /\ row.wait = wait
  BY <1>2, <1>3, <1>4 DEF Row
<1> HIDE DEF row
<1>7. wait # NoWait
  BY <1>4, FollowUpAssumption DEF Wait
<1> QED BY <1>1, <1>4, <1>5, <1>6, <1>7, Rewriting DEF TypeOK, RowsOK, SameGuard

LEMMA TemplateSent ==
  ASSUME TypeOK, PlacesOK, pc \in {"check", "send", "guard"}
  PROVE  Tpl \in Template
BY DEF Tpl, Template, PlacesOK, TypeOK, Run

LEMMA WriteGuardRow ==
  ASSUME TypeOK, PlacesOK, WriteGuard
  PROVE  /\ cur \in JobId /\ Rewritten(cur)
         /\ rows'[cur].status = rows[cur].status /\ rows'[cur].wait = rows[cur].wait
         /\ rows'[cur].guard = Tpl /\ rows'[cur].guardTok = run.last
<1> DEFINE row == [rows[cur] EXCEPT !.guard = Tpl, !.guardTok = run.last, !.last = run.last]
<1>1. cur \in JobId
  BY DEF WriteGuard, TypeOK, JobId
<1>2. rows[cur] \in Row
  BY <1>1, RowType DEF TypeOK, RowsOK
<1>3. run.last \in Nat \ {0} /\ Tpl \in Template
  BY TemplateSent DEF TypeOK, Run, WriteGuard
<1>4. /\ row \in Row /\ row.era = rows[cur].era /\ row.rest = rows[cur].rest
      /\ row.guard = Tpl /\ row.guardTok = run.last
      /\ row.status = rows[cur].status /\ row.wait = rows[cur].wait
  BY <1>2, <1>3 DEF Row
<1>5. rows' = [rows EXCEPT ![cur] = row]
  BY DEF WriteGuard
<1> HIDE DEF row
<1> QED BY <1>1, <1>4, <1>5, Rewriting DEF TypeOK, RowsOK

\* What a re-queue makes of a row.
Requeued(old, todo) ==
  [old EXCEPT !.wait = todo.wait, !.notes = todo.notes,
              !.status = IF todo.revive THEN "pending" ELSE old.status,
              !.permanent = IF todo.revive THEN FALSE ELSE old.permanent]

LEMMA RequeuedRow ==
  ASSUME NEW old \in Row, NEW todo \in Todo
  PROVE  /\ Requeued(old, todo) \in Row
         /\ Requeued(old, todo).era = old.era /\ Requeued(old, todo).rest = old.rest
         /\ Requeued(old, todo).guard = old.guard
         /\ Requeued(old, todo).guardTok = old.guardTok
         /\ Requeued(old, todo).wait = todo.wait
         /\ Requeued(old, todo).status = IF todo.revive THEN "pending" ELSE old.status
<1>1. Requeued(old, todo) \in Row
  BY DEF Row, Todo, Requeued
<1>2. /\ Requeued(old, todo).era = old.era /\ Requeued(old, todo).rest = old.rest
      /\ Requeued(old, todo).guard = old.guard
      /\ Requeued(old, todo).guardTok = old.guardTok
  BY DEF Row, Requeued
<1>3. /\ Requeued(old, todo).wait = todo.wait
      /\ Requeued(old, todo).status = IF todo.revive THEN "pending" ELSE old.status
  BY DEF Row, Requeued
<1> QED BY <1>1, <1>2, <1>3

LEMMA RequeueWriteRow ==
  ASSUME TypeOK, NEW q \in Requester, RequeueWrite(q)
  PROVE  LET todo == requeue[q]
             r    == todo.row
         IN  /\ todo \in Todo /\ r \in JobId /\ Rewritten(r) /\ SameGuard(r)
             /\ rows'[r].wait = todo.wait /\ rows'[r].wait # NoWait
             /\ rows'[r].status = IF todo.revive THEN "pending" ELSE rows[r].status
<1> DEFINE todo == requeue[q]
           r    == todo.row
           row  == Requeued(rows[r], todo)
<1>1. todo \in Todo
  BY DEF RequeueWrite, TypeOK
<1>2. rows[r] \in Row /\ r \in JobId /\ todo.wait \in Wait
  BY <1>1, RowType DEF Todo, TypeOK, RowsOK
<1>3. rows' = [rows EXCEPT ![r] = row]
  BY DEF RequeueWrite, Requeued
<1> HIDE DEF todo, r
<1>4. /\ row \in Row /\ row.era = rows[r].era /\ row.rest = rows[r].rest
      /\ row.guard = rows[r].guard /\ row.guardTok = rows[r].guardTok
      /\ row.wait = todo.wait
      /\ row.status = IF todo.revive THEN "pending" ELSE rows[r].status
  BY <1>1, <1>2, RequeuedRow
<1> USE DEF todo, r
<1>5. todo.wait # NoWait
  BY <1>2, FollowUpAssumption DEF Wait
<1> HIDE DEF row
<1> QED BY <1>1, <1>2, <1>3, <1>4, <1>5, Rewriting DEF TypeOK, RowsOK, SameGuard
-----------------------------------------------------------------------------
(* Types.                                                                  *)

LEMMA DisturbStep ==
  ASSUME TypeOK, NEW k, Disturb(k)
  PROVE  /\ k \in Kind /\ disturbed' \in [Kind -> Nat] /\ disturbed'[k] = disturbed[k] + 1
         /\ \A o \in Kind \ {k} : disturbed'[o] = disturbed[o]
BY FollowUpAssumption DEF Disturb, TypeOK

\* Rows are never removed, so a row stays a row.
LEMMA JobIdGrows ==
  ASSUME TypeOK, RowsOK', Len(rows') >= Len(rows)
  PROVE  JobId \subseteq JobId' /\ Todo \subseteq Todo' /\ Seq(JobId) \subseteq Seq(JobId')
<1>1. JobId \subseteq JobId'
  BY LenProperties DEF TypeOK, RowsOK, JobId
<1>2. Todo \subseteq Todo'
  BY <1>1 DEF Todo
<1>3. Seq(JobId) \subseteq Seq(JobId')
  BY <1>1, SeqDef
<1> QED BY <1>1, <1>2, <1>3

LEMMA UntouchType ==
  ASSUME TypeOK, NEW r \in JobId
  PROVE  Untouch(r) \in Seq(JobId) /\ Touch(r) \in Seq(JobId)
<1>1. ended \in Seq(JobId)
  BY DEF TypeOK
<1>2. ASSUME NEW i \in DOMAIN ended
      PROVE  RemoveAt(ended, i) \in Seq(JobId)
  BY <1>1 DEF RemoveAt
<1>3. Untouch(r) \in Seq(JobId)
  BY <1>1, <1>2 DEF Untouch, Place
<1> QED BY <1>3, AppendProperties DEF Touch

LEMMA RecentRow ==
  ASSUME TypeOK, ended # <<>>
  PROVE  Recent \in JobId /\ Len(ended) \in DOMAIN ended
BY EmptySeq, LenProperties, ElementOfSeq DEF TypeOK, Recent

LEMMA RequeueType ==
  ASSUME TypeOK, NEW r \in JobId, NEW revive \in BOOLEAN, NEW auto \in BOOLEAN
  PROVE  Requeue(r, revive, auto) \in Todo
<1> DEFINE wait == [tok |-> IF ~revive /\ rows[r].wait # NoWait THEN rows[r].wait.tok
                            ELSE rows[r].last, idx |-> 0, expired |-> TRUE]
           tries == rows[r].notes.auto + (IF auto THEN 1 ELSE 0)
           notes == [rows[r].notes EXCEPT !.alternates = TRUE, !.auto = tries]
<1>1. rows[r] \in Row
  BY RowType DEF TypeOK, RowsOK
<1>2. wait \in Wait
  BY <1>1, FollowUpAssumption DEF Row, Wait
<1>3. Requeue(r, revive, auto) = [row |-> r, revive |-> revive, wait |-> wait, notes |-> notes]
  BY DEF Requeue
<1>4. rows[r].notes \in Notes /\ tries \in Nat
  BY <1>1 DEF Row, Notes
<1> HIDE DEF tries
<1>5. notes \in Notes
  BY <1>4 DEF Notes
<1> HIDE DEF wait, notes
<1> QED BY <1>2, <1>3, <1>5 DEF Todo

Types == TypeOK /\ PlacesOK

\* The actions that leave the scheduler where it stands and rewrite no guard.
LEMMA SameTypes ==
  ASSUME Types, UNCHANGED <<pc, cur, run, mail>>, RowsOK', Len(rows') >= Len(rows),
         \A o \in JobId : rows'[o].guardTok = rows[o].guardTok,
         ended' \in Seq(JobId'), opened' \subseteq Token, replied' \in 0..starts',
         starting' \in BOOLEAN, replyCancel' \in BOOLEAN,
         requeue' \in [Requester -> Todo' \cup {None}],
         starts' \in Nat, lateMail' \in Nat, overlaps' \in Nat, disturbed' \in [Kind -> Nat]
  PROVE  Types'
<1>1. cur' \in 0..Len(rows') /\ (cur' = 0 <=> pc' = "idle")
  BY LenProperties DEF Types, TypeOK, RowsOK
<1>2. Token' = Token
  BY DEF Token
<1>3. PlacesOK'
  BY DEF Types, TypeOK, PlacesOK, JobId
<1>4. TypeOK'
  BY <1>1, <1>2 DEF Types, TypeOK, RowsOK
<1> QED BY <1>3, <1>4 DEF Types

LEMMA RequestTypes ==
  ASSUME Types, StartCancel \/ StartPark \/ Compose \/ Reply \/ CancelOnReply \/ UserCancel
  PROVE  Types'
<1> USE DEF Types
<1>1. CASE rows' = CancelPending /\ UNCHANGED <<ended, mail, opened, replied, pc, cur, run,
                                                 requeue, tally>>
           /\ starting' \in BOOLEAN /\ replyCancel' \in BOOLEAN /\ disturbed' \in [Kind -> Nat]
  <2>1. PendingCancelled
    BY <1>1, Cancelling DEF TypeOK, RowsOK
  <2>2. RowsOK' /\ Len(rows') >= Len(rows) /\ JobId' = JobId /\ Todo' = Todo
    BY <2>1, LenProperties DEF PendingCancelled, JobId, Todo, RowsOK, TypeOK
  <2> QED BY <1>1, <2>1, <2>2, SameTypes DEF PendingCancelled, SameGuard, TypeOK, tally
<1>2. CASE StartPark
  <2>1. Added(rows'[Len(rows) + 1])
    BY <1>2, StartParkRow
  <2>2. /\ RowsOK' /\ Len(rows') >= Len(rows)
        /\ Todo \subseteq Todo' /\ Seq(JobId) \subseteq Seq(JobId')
    BY <2>1, LenProperties, JobIdGrows DEF Added, TypeOK
  <2>3. requeue' \in [Requester -> Todo' \cup {None}] /\ ended' \in Seq(JobId')
    BY <1>2, <2>2 DEF StartPark, TypeOK
  <2>4. replied' \in 0..starts' /\ starts' \in Nat
    BY <1>2 DEF StartPark, TypeOK
  <2> QED BY <1>2, <2>1, <2>2, <2>3, <2>4, SameTypes DEF Added, StartPark, TypeOK
<1>3. CASE Compose
  <2>1. disturbed' \in [Kind -> Nat]
    BY <1>3, DisturbStep DEF Compose
  <2>2. [kind |-> "outreach", n |-> 0, era |-> starts] \in Mail
    BY DEF Mail, TypeOK
  <2>3. mail' \in Seq(Mail) /\ mail' # <<>> /\ Token \subseteq Token'
    BY <1>3, <2>2, AppendProperties, EmptySeq, LenProperties DEF Compose, TypeOK, Token
  <2>4. TypeOK'
    BY <1>3, <2>1, <2>3 DEF Compose, TypeOK, memory, tally, JobId, Todo
  <2> QED BY <1>3, <2>3, <2>4 DEF PlacesOK, Compose, memory
<1>4. CASE Reply
  <2>1. disturbed' \in [Kind -> Nat]
    BY <1>4, DisturbStep DEF Reply
  <2>2. RowsOK' /\ Len(rows') >= Len(rows) /\ JobId' = JobId /\ Todo' = Todo
    BY <1>4, LenProperties DEF Reply, TypeOK, RowsOK, JobId, Todo
  <2> QED BY <1>4, <2>1, <2>2, SameTypes DEF Reply, TypeOK, tally
<1>5. CASE UserCancel
  BY <1>1, <1>5, DisturbStep DEF UserCancel, memory, TypeOK
<1> QED BY <1>1, <1>2, <1>3, <1>4, <1>5 DEF StartCancel, CancelOnReply, history, TypeOK

LEMMA CrashTypes ==
  ASSUME Types, Crash
  PROVE  Types'
<1> USE DEF Types
<1>1. disturbed' \in [Kind -> Nat]
  BY DisturbStep DEF Crash
<1>2. NoRun \in Run /\ "idle" \in Pc
  BY FollowUpAssumption DEF NoRun, NoNotes, Run, Notes, Pc
<1>3. PlacesOK'
  BY FollowUpAssumption DEF Crash, ReleaseRow, durable, PlacesOK, NoRun
<1>4. /\ RowsOK' /\ JobId' = JobId /\ Todo' = Todo /\ Token' = Token
      /\ 0 \in 0..Len(rows) /\ UNCHANGED <<durable, tally>>
  BY LenProperties DEF Crash, durable, TypeOK, RowsOK, JobId, Todo, Token
<1>5. requeue' \in [Requester -> Todo' \cup {None}]
  BY DEF Crash
<1>6. TypeOK'
  BY <1>1, <1>2, <1>4, <1>5 DEF Crash, ReleaseRow, durable, tally, TypeOK, RowsOK
<1> QED BY <1>3, <1>6

LEMMA RowTypes ==
  ASSUME Types, \/ \E t \in Token : Open(t)
                \/ \E r \in JobId : Deadline(r) \/ StaleReclaim(r) \/ Rebind(r)
  PROVE  Types'
<1> USE DEF Types
<1>1. ASSUME NEW t \in Token, Open(t)
      PROVE  Types'
  <2>1. RowsOK' /\ Len(rows') >= Len(rows) /\ JobId' = JobId /\ Todo' = Todo
    BY <1>1, LenProperties DEF Open, TypeOK, RowsOK, JobId, Todo
  <2> QED BY <1>1, <2>1, SameTypes DEF Open, TypeOK, memory, history, tally
<1>2. ASSUME NEW r \in JobId, Rewritten(r), SameGuard(r), disturbed' \in [Kind -> Nat],
             UNCHANGED <<ended, mail, opened, replied, memory, tally>>
      PROVE  Types'
  <2>1. RowsOK' /\ Len(rows') >= Len(rows) /\ JobId' = JobId /\ Todo' = Todo
    BY <1>2, LenProperties DEF Rewritten, TypeOK, RowsOK, JobId, Todo
  <2>2. \A o \in JobId : rows'[o].guardTok = rows[o].guardTok
    BY <1>2 DEF Rewritten, SameGuard
  <2> QED BY <1>2, <2>1, <2>2, SameTypes DEF TypeOK, memory, tally
<1>3. ASSUME NEW r \in JobId, Deadline(r)
      PROVE  Types'
  BY <1>2, <1>3, DeadlineRow DEF Deadline, TypeOK, history
<1>4. ASSUME NEW r \in JobId, StaleReclaim(r)
      PROVE  Types'
  <2>1. disturbed' \in [Kind -> Nat]
    BY <1>4, DisturbStep DEF StaleReclaim, TypeOK
  <2> QED BY <1>2, <1>4, <2>1, StaleReclaimRow DEF StaleReclaim, Restatus
<1>5. ASSUME NEW r \in JobId, Rebind(r)
      PROVE  Types'
  BY <1>2, <1>5, RebindRow DEF Rebind, TypeOK, history
<1> QED BY <1>1, <1>3, <1>4, <1>5

\* The actions of the scheduler: what is left to show is where they lead.
LEMMA WorkTypes ==
  ASSUME Types, RowsOK', Len(rows') >= Len(rows), ended' \in Seq(JobId'),
         UNCHANGED <<opened, replied, starting, replyCancel, requeue, starts, overlaps>>,
         mail' \in Seq(Mail), Token \subseteq Token',
         lateMail' \in Nat, disturbed' \in [Kind -> Nat],
         pc' \in Pc, cur' \in 0..Len(rows), cur' = 0 <=> pc' = "idle", run' \in Run,
         PlacesOK'
  PROVE  Types'
<1>1. requeue' \in [Requester -> Todo' \cup {None}]
  BY JobIdGrows DEF Types, TypeOK
<1>2. cur' \in 0..Len(rows')
  BY LenProperties DEF Types, TypeOK, RowsOK
<1>3. opened' \subseteq Token' /\ replied' \in 0..starts' /\ starts' \in Nat
  BY DEF Types, TypeOK
<1> QED BY <1>1, <1>2, <1>3 DEF Types, TypeOK, RowsOK

LEMMA ReleaseTypes ==
  ASSUME Types, ReleaseRow, RowsOK', Len(rows') = Len(rows), ended' \in Seq(JobId),
         UNCHANGED <<mail, opened, replied, starting, replyCancel, requeue, tally>>,
         disturbed' \in [Kind -> Nat]
  PROVE  Types'
<1>1. NoRun \in Run /\ "idle" \in Pc
  BY FollowUpAssumption DEF NoRun, NoNotes, Run, Notes, Pc
<1>2. PlacesOK'
  BY FollowUpAssumption DEF Types, ReleaseRow, PlacesOK, NoRun
<1>3. JobId' = JobId /\ Token' = Token /\ Len(rows') >= Len(rows) /\ 0 \in 0..Len(rows)
  BY LenProperties DEF JobId, Token, Types, TypeOK
<1> QED BY <1>1, <1>2, <1>3, WorkTypes DEF ReleaseRow, tally, Types, TypeOK

\* The actions that keep the row in hand, and write at most to that row.
LEMMA StayTypes ==
  ASSUME Types, rows' = rows \/ Rewritten(cur), cur \in JobId, pc' \in Pc \ {"idle"}, run' \in Run,
         UNCHANGED <<ended, opened, replied, cur, starting, replyCancel, requeue, starts,
                     overlaps, disturbed>>,
         lateMail' \in Nat, mail' \in Seq(Mail), Token \subseteq Token', PlacesOK'
  PROVE  Types'
<1>1. RowsOK' /\ Len(rows') >= Len(rows) /\ JobId' = JobId
  BY LenProperties DEF Rewritten, RowsOK, JobId, Types, TypeOK
<1>2. cur' \in 0..Len(rows) /\ (cur' = 0 <=> pc' = "idle")
  BY DEF JobId, Types, TypeOK
<1> QED BY <1>1, <1>2, WorkTypes DEF Types, TypeOK

\* After an email.
LEMMA AfterEmailTypes ==
  ASSUME Types, pc \in {"check", "guard"}, NEW done \in Run,
         done.kind = run.kind, done.at = run.at, AfterEmail(done)
  PROVE  /\ run' \in Run /\ pc' \in {"step", "rearm", "done"} /\ run'.kind = run.kind
         /\ run.kind = "alternate" => run' = done /\ pc' # "step"
         /\ run.kind = "cadence" => pc' = "step" /\ run'.at = run.at + 1 /\ run.at <= NCad
<1>1. CASE run.kind = "cadence"
  <2> DEFINE n == run.at + 1
  <2>1. n \in 1..(NAlt + NCad + 1) /\ run.at <= NCad /\ n = done.at + 1
    <3>1. run.at \in Nat \ {0} /\ run.at <= NCad
      BY <1>1, FollowUpAssumption DEF Types, TypeOK, PlacesOK, Run
    <3>2. NAlt \in Nat /\ NCad \in Nat
      BY FollowUpAssumption
    <3>3. n \in Nat /\ n >= 1 /\ n <= NAlt + NCad + 1
      BY <3>1, <3>2
    <3> QED BY <3>1, <3>2, <3>3
  <2>2. run' = [done EXCEPT !.at = n, !.served = FALSE] /\ pc' = "step"
    BY <1>1, <2>1 DEF AfterEmail
  <2> HIDE DEF n
  <2>3. run' \in Run /\ run'.kind = done.kind /\ run'.at = n
    BY <2>1, <2>2 DEF Run
  <2> QED BY <1>1, <2>1, <2>2, <2>3 DEF n
<1>2. CASE run.kind = "alternate"
  BY <1>2 DEF AfterEmail
<1> QED BY <1>1, <1>2 DEF Types, TypeOK, Run

LEMMA ResumeDelayTypes ==
  ASSUME Types, ResumeDelay
  PROVE  Types'
<1> USE DEF Types
<1>1. cur \in JobId /\ rows[cur] \in Row
  BY RowType DEF ResumeDelay, TypeOK, RowsOK, JobId
<1>2. CASE CancelRow
  <2>1. Restatus(cur, "cancelled") /\ ReleaseRow
    BY <1>1, <1>2, CancelRowRow DEF CancelRow
  <2> QED BY <1>2, <2>1, ReleaseTypes DEF ResumeDelay, Restatus, Rewritten, history, tally, TypeOK
<1>3. CASE ~Replied(cur)
  <2> DEFINE list == [kind |-> "cadence", at |-> rows[cur].rest, served |-> TRUE,
                      last |-> rows[cur].last, notes |-> rows[cur].notes]
  <2>1. list \in Run /\ list.kind = "cadence" /\ list.at <= NCad + 1
    BY <1>1, FollowUpAssumption DEF Row, Run
  <2>2. run' = list /\ pc' = "step" /\ UNCHANGED <<rows, cur>>
    BY <1>3 DEF ResumeDelay
  <2> HIDE DEF list
  <2>3. PlacesOK'
    BY <2>1, <2>2 DEF ResumeDelay, PlacesOK
  <2>4. "step" \in Pc \ {"idle"}
    BY DEF Pc
  <2> QED BY <1>1, <1>3, <2>1, <2>2, <2>3, <2>4, StayTypes DEF ResumeDelay, history, tally, TypeOK, Token
<1> QED BY <1>2, <1>3 DEF ResumeDelay, CancelRow

\* What a row that waits for an open does next, case by case.
LEMMA WaitDecides ==
  ASSUME Types, ResumeWait
  PROVE  /\ cur \in JobId /\ run'.last = rows[cur].last /\ run' \in Run
         /\ rows[cur].wait \in Wait
         /\ \/ /\ Opened(rows[cur].wait.tok)
               /\ pc' = "unset" /\ run'.kind = "cadence" /\ run'.at = 1
            \/ /\ pc' \in {"poll", "unset"} /\ run'.kind = "cadence" /\ run'.at = NCad + 1
            \/ /\ pc' = "check" /\ run'.kind = "alternate" /\ rows[cur].wait.idx < NAlt
               /\ run'.at = rows[cur].wait.idx + 1
<1> DEFINE w    == rows[cur].wait
           next == NextOfWait(w)
           notes == IF next.pc = "poll" THEN rows[cur].notes
                    ELSE [rows[cur].notes EXCEPT !.alternates = TRUE]
<1>1. cur \in JobId /\ rows[cur] \in Row
  BY RowType DEF ResumeWait, Types, TypeOK, RowsOK, JobId
<1>2. w \in Wait
  BY <1>1 DEF ResumeWait, Row
<1>3. \/ Opened(w.tok) /\ next = [pc |-> "unset", kind |-> "cadence", at |-> 1]
      \/ next = [pc |-> "poll", kind |-> "cadence", at |-> NCad + 1]
      \/ next = [pc |-> "unset", kind |-> "cadence", at |-> NCad + 1]
      \/ w.idx < NAlt /\ next = [pc |-> "check", kind |-> "alternate", at |-> w.idx + 1]
  BY DEF NextOfWait
<1>4. rows[cur].notes \in Notes /\ rows[cur].last \in Nat \ {0}
  BY <1>1 DEF Row
<1>5. notes \in Notes
  BY <1>4 DEF Notes
<1>6. /\ pc' = next.pc
      /\ run' = [kind |-> next.kind, at |-> next.at, served |-> FALSE, last |-> rows[cur].last,
                 notes |-> notes]
  BY DEF ResumeWait
<1>7. next.kind \in {"alternate", "cadence"} /\ next.at \in 1..(NAlt + NCad + 1)
  <2>1. w.idx \in 0..NAlt
    BY <1>2 DEF Wait
  <2> HIDE DEF w, next
  <2> QED BY <1>3, <2>1, FollowUpAssumption
<1> HIDE DEF next, notes, w
<1>8. run' \in Run
  BY <1>4, <1>5, <1>6, <1>7 DEF Run
<1> QED BY <1>1, <1>2, <1>3, <1>6, <1>8 DEF w

LEMMA ResumeWaitTypes ==
  ASSUME Types, ResumeWait
  PROVE  Types'
<1>1. pc' \in Pc \ {"idle"}
  BY WaitDecides DEF Pc
<1>2. PlacesOK'
  <2>1. rows[cur].wait.idx \in 0..NAlt
    BY WaitDecides DEF Wait
  <2>2. mail' # <<>>
    BY DEF Types, PlacesOK, ResumeWait
  <2>3. run'.kind = "alternate" => run'.at \in 1..NAlt /\ pc' = "check"
    <3>1. run'.kind = "alternate" => /\ pc' = "check" /\ rows[cur].wait.idx < NAlt
                                     /\ run'.at = rows[cur].wait.idx + 1
      BY WaitDecides
    <3> QED BY <2>1, <3>1, FollowUpAssumption
  <2>4. run'.kind = "cadence" => run'.at <= NCad + 1 /\ pc' \in {"poll", "unset"}
    BY WaitDecides, FollowUpAssumption
  <2>5. /\ pc' \in {"poll", "unset", "check"}
        /\ (pc' = "check" <=> run'.kind = "alternate") /\ run'.kind \in {"alternate", "cadence"}
    BY WaitDecides
  <2> QED BY <2>2, <2>3, <2>4, <2>5 DEF PlacesOK
<1> QED BY <1>1, <1>2, WaitDecides, StayTypes DEF ResumeWait, Types, TypeOK, history, tally, Token

LEMMA CheckEmailTypes ==
  ASSUME Types, CheckEmail
  PROVE  Types'
<1>1. cur \in JobId /\ rows[cur] \in Row
  BY RowType DEF CheckEmail, Types, TypeOK, RowsOK, JobId
<1>2. CASE CancelRow
  <2>1. Restatus(cur, "cancelled") /\ ReleaseRow
    BY <1>1, <1>2, CancelRowRow DEF CancelRow, Types
  <2> QED BY <1>2, <2>1, ReleaseTypes
          DEF CheckEmail, Restatus, Rewritten, history, tally, Types, TypeOK
<1>3. CASE ~Replied(cur) /\ Guarded
  <2> DEFINE done == [run EXCEPT !.last = rows[cur].guardTok]
  <2>1. rows[cur].guardTok \in Nat \ {0} /\ rows[cur].guardTok # 0
    BY <1>1, <1>3 DEF Guarded, Row
  <2>2. done \in Run /\ done.kind = run.kind /\ done.at = run.at
    BY <2>1 DEF Types, TypeOK, Run
  <2>3. AfterEmail(done) /\ UNCHANGED <<rows, cur>>
    BY <1>3 DEF CheckEmail
  <2> HIDE DEF done
  <2>4. /\ run' \in Run /\ pc' \in {"step", "rearm", "done"} /\ run'.kind = run.kind
        /\ run.kind = "alternate" => run'.at = run.at /\ pc' # "step"
        /\ run.kind = "cadence" => pc' = "step" /\ run'.at = run.at + 1 /\ run.at <= NCad
    BY <2>2, <2>3, AfterEmailTypes DEF CheckEmail
  <2>5. run.at \in Nat /\ run.kind \in {"alternate", "cadence"}
    BY DEF Types, TypeOK, Run
  <2>6. PlacesOK'
    BY <2>1, <2>3, <2>4, <2>5, FollowUpAssumption DEF Types, PlacesOK, CheckEmail
  <2>7. pc' \in Pc \ {"idle"}
    BY <2>4 DEF Pc
  <2> QED BY <1>1, <2>3, <2>4, <2>6, <2>7, StayTypes
          DEF CheckEmail, Types, TypeOK, history, tally, Token
<1>4. CASE ~Replied(cur) /\ ~Guarded
  <2>1. pc' = "send" /\ UNCHANGED <<rows, cur, run>>
    BY <1>4 DEF CheckEmail
  <2>2. PlacesOK' /\ pc' \in Pc \ {"idle"}
    BY <2>1 DEF CheckEmail, Types, PlacesOK, Pc
  <2> QED BY <1>1, <2>1, <2>2, StayTypes DEF CheckEmail, Types, TypeOK, history, tally, Token
<1> QED BY <1>2, <1>3, <1>4 DEF CheckEmail

\* A mail sent is a mail more; the others keep their places.
LEMMA MailSent ==
  ASSUME Types, SendEmail
  PROVE  LET new == [kind |-> run.kind, n |-> run.at, era |-> rows[cur].era]
         IN  /\ cur \in JobId /\ mail' \in Seq(Mail) /\ Len(mail') = Len(mail) + 1
             /\ mail'[Len(mail) + 1] = new /\ Token' = Token \cup {Len(mail) + 1}
             /\ Len(mail) + 1 \notin Token /\ Len(mail) \in Nat
             /\ \A t \in Token : mail'[t] = mail[t]
<1> DEFINE new == [kind |-> run.kind, n |-> run.at, era |-> rows[cur].era]
<1>1. cur \in JobId /\ rows[cur] \in Row
  BY RowType DEF SendEmail, Types, TypeOK, RowsOK, JobId
<1>2. new \in Mail
  <2>1. rows[cur].era \in Nat
    BY <1>1 DEF Row
  <2>2. run.kind \in {"alternate", "cadence"} /\ run.at \in Nat
    BY DEF Types, TypeOK, Run
  <2> QED BY <2>1, <2>2 DEF Mail
<1>3. mail' = Append(mail, new) /\ mail \in Seq(Mail) /\ Len(mail) \in Nat
  BY LenProperties DEF SendEmail, Types, TypeOK
<1> HIDE DEF new
<1>4. /\ mail' \in Seq(Mail) /\ Len(mail') = Len(mail) + 1
      /\ mail'[Len(mail) + 1] = new /\ \A t \in Token : mail'[t] = mail[t]
  BY <1>2, <1>3, AppendProperties DEF Token
<1>5. Token' = Token \cup {Len(mail) + 1} /\ Len(mail) + 1 \notin Token
  BY <1>3, <1>4 DEF Token
<1> QED BY <1>1, <1>3, <1>4, <1>5 DEF new

LEMMA SendEmailTypes ==
  ASSUME Types, SendEmail
  PROVE  Types'
<1>1. /\ cur \in JobId /\ mail' \in Seq(Mail) /\ Token \subseteq Token' /\ mail' # <<>>
      /\ Len(mail) + 1 \in Nat \ {0}
  BY MailSent, EmptySeq
<1> DEFINE tok == Len(mail) + 1
           notes == [run.notes EXCEPT !.sent = TRUE]
<1>2. run' = [run EXCEPT !.last = tok, !.notes = notes] /\ pc' = "guard"
  BY DEF SendEmail
<1>3. tok \in Nat \ {0} /\ notes \in Notes
  BY <1>1 DEF Types, TypeOK, Run, Notes
<1> HIDE DEF tok, notes
<1>4. run' \in Run /\ run'.kind = run.kind /\ run'.at = run.at
  BY <1>2, <1>3 DEF Types, TypeOK, Run
<1>5. PlacesOK' /\ pc' \in Pc \ {"idle"}
  BY <1>1, <1>2, <1>4 DEF SendEmail, Types, PlacesOK, Pc
<1>6. lateMail' \in Nat
  BY DEF SendEmail, Types, TypeOK
<1> QED BY <1>1, <1>4, <1>5, <1>6, StayTypes DEF SendEmail

LEMMA SendFailsTypes ==
  ASSUME Types, SendFails
  PROVE  Types'
<1>1. cur \in JobId /\ Restatus(cur, "failed")
  BY SendFailsRow DEF Types
<1>2. ended' \in Seq(JobId)
  BY <1>1, UntouchType DEF SendFails, Types
<1>3. disturbed' \in [Kind -> Nat]
  BY DisturbStep DEF SendFails, Types
<1> QED BY <1>1, <1>2, <1>3, ReleaseTypes DEF SendFails, Restatus, Rewritten, tally

LEMMA DoneTypes ==
  ASSUME Types, Done
  PROVE  Types'
<1>1. cur \in JobId /\ Restatus(cur, "done")
  BY DoneRow DEF Types
<1>2. ended' \in Seq(JobId)
  BY <1>1, UntouchType DEF Done, Types
<1> QED BY <1>1, <1>2, ReleaseTypes DEF Done, Restatus, Rewritten, history, tally, Types, TypeOK

LEMMA WriteGuardTypes ==
  ASSUME Types, WriteGuard
  PROVE  Types'
<1>1. /\ cur \in JobId /\ Rewritten(cur) /\ rows'[cur].guardTok = run.last
      /\ run.last # 0 /\ run \in Run
  BY WriteGuardRow DEF Types, TypeOK, Run
<1>2. /\ run' \in Run /\ pc' \in {"step", "rearm", "done"} /\ run'.kind = run.kind
      /\ run.kind = "alternate" => run'.at = run.at /\ pc' # "step"
      /\ run.kind = "cadence" => pc' = "step" /\ run'.at = run.at + 1 /\ run.at <= NCad
  BY <1>1, AfterEmailTypes DEF WriteGuard
<1>3. run.at \in Nat /\ run.kind \in {"alternate", "cadence"}
  BY DEF Types, TypeOK, Run
<1>4. PlacesOK'
  BY <1>1, <1>2, <1>3, FollowUpAssumption DEF Types, PlacesOK, WriteGuard
<1>5. pc' \in Pc \ {"idle"}
  BY <1>2 DEF Pc
<1> QED BY <1>1, <1>2, <1>4, <1>5, StayTypes DEF WriteGuard, Types, TypeOK, history, tally, Token

LEMMA PlainWorkTypes ==
  ASSUME Types, Poll \/ UnsetWait \/ Park \/ Step \/ Rearm \/ Rescheduled
                \/ \E r \in JobId : Claim(r)
  PROVE  Types'
<1> USE DEF Types
<1>1. CASE Poll
  <2>1. PlacesOK' /\ pc' \in Pc \ {"idle"} /\ cur \in JobId /\ Rewritten(cur)
    BY <1>1, PollRow DEF Poll, PlacesOK, Pc, Restatus
  <2> QED BY <1>1, <2>1, StayTypes DEF Poll, TypeOK, history, tally, Token
<1>2. CASE UnsetWait
  <2>1. PlacesOK' /\ pc' \in Pc \ {"idle"} /\ cur \in JobId /\ Rewritten(cur)
    BY <1>2, UnsetWaitRow DEF UnsetWait, PlacesOK, Pc
  <2> QED BY <1>2, <2>1, StayTypes DEF UnsetWait, TypeOK, history, tally, Token
<1>3. CASE Park
  <2>1. Added(rows'[Len(rows) + 1])
    BY <1>3, ParkRow
  <2>2. RowsOK' /\ Len(rows') >= Len(rows) /\ Seq(JobId) \subseteq Seq(JobId')
    BY <2>1, LenProperties, JobIdGrows DEF Added, TypeOK
  <2>3. PlacesOK' /\ pc' \in Pc /\ pc' # "idle"
    BY <1>3 DEF Park, PlacesOK, Pc
  <2> QED BY <1>3, <2>2, <2>3, WorkTypes DEF Park, TypeOK, history, tally, Token
<1>4. CASE Step
  <2>1. PlacesOK' /\ pc' \in Pc \ {"idle"} /\ cur \in JobId /\ UNCHANGED rows
    BY <1>4, FollowUpAssumption DEF Step, PlacesOK, Pc, durable, TypeOK, JobId, Run
  <2> QED BY <1>4, <2>1, StayTypes DEF Step, durable, TypeOK, history, tally, Token
<1>5. CASE Rearm
  <2>1. PlacesOK' /\ pc' \in Pc \ {"idle"} /\ cur \in JobId /\ Rewritten(cur)
    BY <1>5, RearmRow DEF Rearm, PlacesOK, Pc
  <2> QED BY <1>5, <2>1, StayTypes DEF Rearm, TypeOK, history, tally, Token
<1>6. CASE Rescheduled
  <2>1. Rewritten(cur)
    BY <1>6, RescheduledRow DEF Restatus
  <2> QED BY <1>6, <2>1, ReleaseTypes DEF Rescheduled, Rewritten, TypeOK, history, tally
<1>7. ASSUME NEW r \in JobId, Claim(r)
      PROVE  Types'
  <2>1. Rewritten(r) /\ r \in 0..Len(rows) /\ r # 0
    BY <1>7, ClaimRow, LenProperties DEF Restatus, JobId, TypeOK
  <2>2. RowsOK' /\ Len(rows') >= Len(rows) /\ JobId' = JobId
    BY <2>1, LenProperties DEF Rewritten, RowsOK, JobId, TypeOK
  <2>3. PlacesOK' /\ pc' \in Pc /\ pc' # "idle"
    BY <1>7 DEF Claim, PlacesOK, Pc
  <2> QED BY <1>7, <2>1, <2>2, <2>3, WorkTypes DEF Claim, TypeOK, history, tally, Token
<1> QED BY <1>1, <1>2, <1>3, <1>4, <1>5, <1>6, <1>7

LEMMA MaintenanceTypes ==
  ASSUME Types, ManualRetry \/ AutoRecover \/ BlockRecovery \/ \E q \in Requester : RequeueWrite(q)
  PROVE  Types'
<1> USE DEF Types
<1>1. ASSUME NEW q \in Requester, NEW todo \in Todo \cup {None},
             requeue' = [requeue EXCEPT ![q] = todo], disturbed' \in [Kind -> Nat],
             overlaps' \in Nat, UNCHANGED <<durable, pc, cur, run, starting, replyCancel,
                                            starts, lateMail>>
      PROVE  Types'
  <2>1. RowsOK' /\ Len(rows') >= Len(rows) /\ JobId' = JobId /\ Todo' = Todo
    BY <1>1, LenProperties DEF durable, TypeOK, RowsOK, JobId, Todo
  <2>2. requeue' \in [Requester -> Todo \cup {None}]
    BY <1>1 DEF TypeOK
  <2> QED BY <1>1, <2>1, <2>2, SameTypes DEF durable, TypeOK
<1>2. CASE ManualRetry
  <2>1. disturbed' \in [Kind -> Nat]
    BY <1>2, DisturbStep DEF ManualRetry
  <2>2. PICK todo \in Todo : requeue' = [requeue EXCEPT !["user"] = todo]
    <3>1. CASE \E r \in JobId : requeue' = [requeue EXCEPT !["user"] = Requeue(r, FALSE, FALSE)]
      BY <3>1, RequeueType
    <3>2. CASE ended # <<>> /\ requeue' = [requeue EXCEPT !["user"] = Requeue(Recent, TRUE, FALSE)]
      BY <3>2, RequeueType, RecentRow
    <3> QED BY <1>2, <3>1, <3>2 DEF ManualRetry
  <2> QED BY <1>1, <1>2, <2>1, <2>2 DEF ManualRetry, tally, TypeOK, Requester
<1>3. CASE AutoRecover
  <2>1. disturbed' \in [Kind -> Nat] /\ overlaps' \in Nat
    BY <1>3, DisturbStep DEF AutoRecover, TypeOK
  <2>2. ended # <<>>
    BY <1>3 DEF AutoRecover, Unblocked
  <2>3. Requeue(Recent, TRUE, TRUE) \in Todo
    BY <2>2, RequeueType, RecentRow
  <2> QED BY <1>1, <1>3, <2>1, <2>3 DEF AutoRecover, Requester
<1>4. CASE BlockRecovery
  <2>1. PICK i \in DOMAIN ended :
          /\ ended[i] \in JobId /\ ended' = Touch(ended[i])
          /\ Restatus(ended[i], rows[ended[i]].status)
    BY <1>4, BlockRecoveryRow
  <2>2. RowsOK' /\ Len(rows') >= Len(rows) /\ JobId' = JobId /\ Todo' = Todo
    BY <2>1, LenProperties DEF Restatus, Rewritten, TypeOK, RowsOK, JobId, Todo
  <2>3. ended' \in Seq(JobId)
    BY <2>1, UntouchType
  <2>4. \A o \in JobId : rows'[o].guardTok = rows[o].guardTok
    BY <2>1 DEF Restatus, Rewritten, SameGuard
  <2> QED BY <1>4, <2>2, <2>3, <2>4, SameTypes DEF BlockRecovery, TypeOK, memory, history, tally
<1>5. ASSUME NEW q \in Requester, RequeueWrite(q)
      PROVE  Types'
  <2> DEFINE r == requeue[q].row
  <2>1. r \in JobId /\ Rewritten(r) /\ SameGuard(r)
    BY <1>5, RequeueWriteRow
  <2>2. RowsOK' /\ Len(rows') >= Len(rows) /\ JobId' = JobId /\ Todo' = Todo
    BY <2>1, LenProperties DEF Rewritten, TypeOK, RowsOK, JobId, Todo
  <2>3. ended' \in Seq(JobId)
    BY <1>5, <2>1, UntouchType DEF RequeueWrite, TypeOK
  <2>4. requeue' \in [Requester -> Todo \cup {None}]
    BY <1>5 DEF RequeueWrite, TypeOK
  <2>5. \A o \in JobId : rows'[o].guardTok = rows[o].guardTok
    BY <2>1 DEF Rewritten, SameGuard
  <2> HIDE DEF r
  <2> QED BY <1>5, <2>2, <2>3, <2>4, <2>5, SameTypes DEF RequeueWrite, TypeOK, history, tally
<1> QED BY <1>2, <1>3, <1>4, <1>5

LEMMA InitTypes == Init => Types
<1> SUFFICES ASSUME Init PROVE Types
  OBVIOUS
<1>1. NoRun \in Run /\ NoRun.kind = "cadence" /\ NoRun.at = NCad + 1
  BY FollowUpAssumption DEF NoRun, NoNotes, Run, Notes
<1> DEFINE outreach == [kind |-> "outreach", n |-> 0, era |-> 0]
<1>2. outreach \in Mail /\ mail = <<outreach>>
  BY DEF Init, Mail
<1> HIDE DEF outreach
<1>3. mail \in Seq(Mail) /\ mail # <<>>
  BY <1>2
<1>4. PlacesOK
  BY <1>1, <1>3, FollowUpAssumption DEF Init, PlacesOK
<1>5. rows \in Seq(Row) /\ ended \in Seq(JobId) /\ Len(rows) = 0 /\ MaxRows \in Nat
  BY EmptySeq, FollowUpAssumption DEF Init
<1>6. requeue \in [Requester -> Todo \cup {None}] /\ disturbed \in [Kind -> Nat]
  BY DEF Init
<1>7. /\ run \in Run /\ pc \in Pc /\ cur = 0 /\ pc = "idle" /\ opened = {} /\ replied = 0
      /\ starting = FALSE /\ replyCancel = FALSE /\ starts = 0 /\ lateMail = 0 /\ overlaps = 0
  BY <1>1 DEF Init, Pc
<1>8. /\ Len(rows) <= MaxRows /\ cur \in 0..Len(rows) /\ (cur = 0 <=> pc = "idle")
      /\ opened \subseteq Token /\ replied \in 0..starts
      /\ starts \in Nat /\ lateMail \in Nat /\ overlaps \in Nat
  BY <1>5, <1>7
<1>9. starting \in BOOLEAN /\ replyCancel \in BOOLEAN
  BY <1>7
<1>10. TypeOK
  BY <1>3, <1>5, <1>6, <1>7, <1>8, <1>9 DEF TypeOK
<1> QED BY <1>4, <1>10 DEF Types

\* Every action of the scheduler, of the requests and of the maintenance keeps the types.
LEMMA TypesStep ==
  ASSUME Types, [Next]_vars
  PROVE  Types'
<1>1. CASE Worker
  BY <1>1, ResumeDelayTypes, ResumeWaitTypes, CheckEmailTypes, SendEmailTypes, SendFailsTypes,
     WriteGuardTypes, DoneTypes, PlainWorkTypes DEF Worker
<1>2. ASSUME NEW r \in JobId, Deadline(r) \/ Claim(r) \/ StaleReclaim(r) \/ Rebind(r)
      PROVE  Types'
  BY <1>2, RowTypes, PlainWorkTypes
<1>3. CASE UNCHANGED vars
  BY <1>3 DEF vars, durable, memory, history, tally, Types, TypeOK, PlacesOK, JobId, Token, Todo
<1> QED BY <1>1, <1>2, <1>3, RequestTypes, CrashTypes, RowTypes, MaintenanceTypes DEF Next

\* The rows, the mails, the memory of the scheduler and the re-queues have their
\* types in every reachable state: no step list runs past its end, and an alternate
\* is re-armed only with the token of a mail.
THEOREM TypeCorrect == Spec => []TypeOK
<1>1. Spec => []Types
  BY InitTypes, TypesStep, PTL DEF Spec
<1> QED BY <1>1, PTL DEF Types
-----------------------------------------------------------------------------
(* Who writes what.                                                        *)

\* A row keeps its era and the rest of its step list; rows are added by two actions.
RowsKept ==
  /\ JobId' = JobId /\ Len(rows') = Len(rows)
  /\ \A r \in JobId : rows'[r].era = rows[r].era /\ rows'[r].rest = rows[r].rest

LEMMA RowsStep ==
  ASSUME Types, [Next]_vars
  PROVE  StartPark \/ Park \/ RowsKept
<1> USE DEF Types
<1>1. ASSUME PendingCancelled \/ \E r \in JobId : Rewritten(r)
      PROVE  RowsKept
  BY <1>1 DEF PendingCancelled, Rewritten, JobId, RowsKept
<1>2. CASE StartCancel \/ CancelOnReply \/ UserCancel
  BY <1>1, <1>2, Cancelling DEF StartCancel, CancelOnReply, UserCancel, TypeOK, RowsOK
<1>3. ASSUME NEW r \in JobId, Deadline(r) \/ Claim(r) \/ StaleReclaim(r) \/ Rebind(r)
      PROVE  RowsKept
  BY <1>1, <1>3, DeadlineRow, ClaimRow, StaleReclaimRow, RebindRow DEF Restatus
<1>4. CASE Poll \/ UnsetWait \/ SendFails \/ WriteGuard \/ Rearm \/ Rescheduled \/ Done
  BY <1>1, <1>4, PollRow, UnsetWaitRow, SendFailsRow, WriteGuardRow, RearmRow, RescheduledRow,
     DoneRow DEF Restatus
<1>5. CASE CancelRow /\ cur \in JobId
  BY <1>1, <1>5, CancelRowRow DEF Restatus
<1>6. CASE BlockRecovery
  BY <1>1, <1>6, BlockRecoveryRow DEF Restatus
<1>7. ASSUME NEW q \in Requester, RequeueWrite(q)
      PROVE  RowsKept
  BY <1>1, <1>7, RequeueWriteRow
<1>8. CASE UNCHANGED rows
  BY <1>8 DEF JobId, RowsKept
<1>9. CASE ResumeDelay \/ CheckEmail
  <2>1. cur \in JobId
    BY <1>9 DEF ResumeDelay, CheckEmail, TypeOK, JobId
  <2> QED BY <1>5, <1>8, <1>9, <2>1 DEF ResumeDelay, CheckEmail
<1>10. CASE \/ Compose \/ Reply \/ ResumeWait \/ Step \/ SendEmail \/ ManualRetry \/ AutoRecover
            \/ Crash \/ (\E t \in Token : Open(t))
  BY <1>8, <1>10 DEF Compose, Reply, ResumeWait, Step, SendEmail, ManualRetry, AutoRecover, Crash,
     Open, durable
<1>11. CASE Worker
  BY <1>4, <1>9, <1>10, <1>11 DEF Worker
<1>12. CASE UNCHANGED vars
  BY <1>8, <1>12 DEF vars, durable
<1> QED BY <1>2, <1>3, <1>6, <1>7, <1>10, <1>11, <1>12 DEF Next

LEMMA MailStep ==
  ASSUME [Next]_vars
  PROVE  UNCHANGED mail \/ Compose \/ SendEmail
<1>1. CASE \/ StartCancel \/ StartPark \/ Reply \/ CancelOnReply \/ UserCancel
           \/ \E t \in Token : Open(t)
  BY <1>1 DEF StartCancel, StartPark, Reply, CancelOnReply, UserCancel, Open
<1>2. CASE \E r \in JobId : Deadline(r) \/ Claim(r) \/ StaleReclaim(r) \/ Rebind(r)
  BY <1>2 DEF Deadline, Claim, StaleReclaim, Rebind
<1>3. CASE Worker
  BY <1>3 DEF Worker, ResumeDelay, ResumeWait, Poll, UnsetWait, Park, Step, CheckEmail,
     SendFails, WriteGuard, Rearm, Rescheduled, Done, durable
<1>4. CASE \/ ManualRetry \/ AutoRecover \/ BlockRecovery \/ Crash \/ UNCHANGED vars
           \/ \E q \in Requester : RequeueWrite(q)
  BY <1>4 DEF ManualRetry, AutoRecover, BlockRecovery, Crash, RequeueWrite, durable, vars
<1> QED BY <1>1, <1>2, <1>3, <1>4 DEF Next

LEMMA ComposedMail ==
  ASSUME TypeOK, Compose
  PROVE  /\ Token' = Token \cup {Len(mail) + 1} /\ \A t \in Token : mail'[t] = mail[t]
         /\ mail'[Len(mail) + 1].kind = "outreach" /\ mail'[Len(mail) + 1].era = starts
<1> DEFINE outreach == [kind |-> "outreach", n |-> 0, era |-> starts]
<1>1. outreach \in Mail /\ mail \in Seq(Mail) /\ mail' = Append(mail, outreach)
  BY DEF Mail, Compose, TypeOK
<1>2. outreach.kind = "outreach" /\ outreach.era = starts
  OBVIOUS
<1> HIDE DEF outreach
<1> QED BY <1>1, <1>2, AppendProperties, LenProperties DEF Token

\* The mails that were sent stay as they are.
LEMMA MailKept ==
  ASSUME Types, [Next]_vars
  PROVE  Token \subseteq Token' /\ \A t \in Token : mail'[t] = mail[t]
<1>1. CASE Compose
  BY <1>1, ComposedMail DEF Types
<1>2. CASE SendEmail
  BY <1>2, MailSent
<1>3. CASE UNCHANGED mail
  BY <1>3 DEF Token
<1> QED BY <1>1, <1>2, <1>3, MailStep

\* An email is behind: it was sent, or the guard says that it had been.
EmailBehind ==
  \E done \in Run :
    /\ AfterEmail(done) /\ done.kind = run.kind /\ done.at = run.at
    /\ pc \in {"check", "guard"} /\ UNCHANGED cur
    /\ (CheckEmail /\ Guarded /\ UNCHANGED rows) \/ WriteGuard

\* The list that is run changes only when a row is taken in hand, after an email,
\* or when the row is released.
LEMMA RunStep ==
  ASSUME Types, [Next]_vars
  PROVE  \/ UNCHANGED <<pc, cur, run>> \/ ReleaseRow \/ ResumeWait \/ SendEmail
         \/ /\ UNCHANGED run
            /\ \/ \E r \in JobId : Claim(r)
               \/ Poll \/ UnsetWait \/ Park \/ Step \/ Rearm
               \/ CheckEmail /\ ~Replied(cur) /\ ~Guarded
         \/ ResumeDelay /\ ~Replied(cur)
         \/ EmailBehind
<1>1. CASE \/ StartCancel \/ StartPark \/ Compose \/ Reply \/ CancelOnReply \/ UserCancel
           \/ \E t \in Token : Open(t)
  BY <1>1 DEF StartCancel, StartPark, Compose, Reply, CancelOnReply, UserCancel, Open, memory
<1>2. CASE \E r \in JobId : Deadline(r) \/ Claim(r) \/ StaleReclaim(r) \/ Rebind(r)
  BY <1>2 DEF Deadline, Claim, StaleReclaim, Rebind, memory
<1>3. CASE ResumeDelay
  BY <1>3 DEF ResumeDelay, CancelRow
<1>4. CASE Poll \/ UnsetWait \/ Park \/ Step \/ Rearm \/ Rescheduled \/ Done \/ SendFails
  BY <1>4 DEF Poll, UnsetWait, Park, Step, Rearm, Rescheduled, Done, SendFails
<1>5. CASE CheckEmail
  <2>1. CASE ~Replied(cur) /\ Guarded
    <3> DEFINE done == [run EXCEPT !.last = rows[cur].guardTok]
    <3>1. cur \in JobId /\ rows[cur] \in Row
      BY <1>5, RowType DEF CheckEmail, Types, TypeOK, RowsOK, JobId
    <3>2. rows[cur].guardTok \in Nat \ {0}
      BY <2>1, <3>1 DEF Guarded, Row
    <3>3. done \in Run /\ done.kind = run.kind /\ done.at = run.at
      BY <3>2 DEF Types, TypeOK, Run
    <3>4. AfterEmail(done) /\ UNCHANGED <<rows, cur>> /\ pc = "check"
      BY <1>5, <2>1 DEF CheckEmail
    <3> HIDE DEF done
    <3> QED BY <1>5, <2>1, <3>3, <3>4 DEF EmailBehind
  <2> QED BY <1>5, <2>1 DEF CheckEmail, CancelRow
<1>6. CASE WriteGuard
  BY <1>6 DEF WriteGuard, Types, TypeOK, EmailBehind
<1>7. CASE \/ ManualRetry \/ AutoRecover \/ BlockRecovery \/ Crash \/ UNCHANGED vars
           \/ \E q \in Requester : RequeueWrite(q)
  BY <1>7 DEF ManualRetry, AutoRecover, BlockRecovery, Crash, RequeueWrite, memory, vars
<1> QED BY <1>1, <1>2, <1>3, <1>4, <1>5, <1>6, <1>7 DEF Next, Worker

\* What was opened stays opened.
LEMMA OpenedStep ==
  ASSUME [Next]_vars
  PROVE  opened \subseteq opened'
<1>1. CASE \E t \in Token : Open(t)
  BY <1>1 DEF Open
<1>2. CASE StartCancel \/ StartPark \/ Compose \/ Reply \/ CancelOnReply \/ UserCancel
  BY <1>2 DEF StartCancel, StartPark, Compose, Reply, CancelOnReply, UserCancel
<1>3. CASE \E r \in JobId : Deadline(r) \/ Claim(r) \/ StaleReclaim(r) \/ Rebind(r)
  BY <1>3 DEF Deadline, Claim, StaleReclaim, Rebind
<1>4. CASE Worker
  BY <1>4 DEF Worker, ResumeDelay, ResumeWait, Poll, UnsetWait, Park, Step, CheckEmail, SendEmail,
     SendFails, WriteGuard, Rearm, Rescheduled, Done, durable
<1>5. CASE \/ ManualRetry \/ AutoRecover \/ BlockRecovery \/ Crash \/ UNCHANGED vars
           \/ \E q \in Requester : RequeueWrite(q)
  BY <1>5 DEF ManualRetry, AutoRecover, BlockRecovery, Crash, RequeueWrite, durable, vars
<1> QED BY <1>1, <1>2, <1>3, <1>4, <1>5 DEF Next

\* The counters only grow, and who counts what.
LEMMA TallyStep ==
  ASSUME Types, [Next]_vars
  PROVE  /\ UNCHANGED replied \/ Reply
         /\ UNCHANGED lateMail \/ SendEmail
         /\ UNCHANGED starts \/ StartPark
         /\ overlaps' >= overlaps /\ \A k \in Kind : disturbed'[k] >= disturbed[k]
<1> DEFINE Steady == UNCHANGED <<replied, tally>>
           Grown  == \A k \in Kind : disturbed'[k] >= disturbed[k]
<1>1. UNCHANGED disturbed => Grown
  BY DEF Types, TypeOK
<1>2. ASSUME NEW x, Disturb(x)
      PROVE  Grown
  BY <1>2, DisturbStep DEF Types, TypeOK
<1> HIDE DEF Grown
<1>3. ASSUME \/ StartCancel \/ Compose \/ CancelOnReply \/ UserCancel \/ (\E t \in Token : Open(t))
             \/ \E r \in JobId : Deadline(r) \/ Claim(r) \/ StaleReclaim(r) \/ Rebind(r)
      PROVE  Steady /\ Grown
  BY <1>1, <1>2, <1>3 DEF StartCancel, Compose, CancelOnReply, UserCancel, Open, Deadline, Claim,
     StaleReclaim, Rebind, history, tally
<1>4. ASSUME \/ ResumeDelay \/ ResumeWait \/ Poll \/ UnsetWait \/ Park \/ Step \/ CheckEmail
             \/ SendFails \/ WriteGuard \/ Rearm \/ Rescheduled \/ Done
      PROVE  Steady /\ Grown
  BY <1>1, <1>2, <1>4 DEF ResumeDelay, ResumeWait, Poll, UnsetWait, Park, Step, CheckEmail,
     SendFails, WriteGuard, Rearm, Rescheduled, Done, history, tally, durable
<1>5. ASSUME \/ ManualRetry \/ BlockRecovery \/ (\E q \in Requester : RequeueWrite(q)) \/ Crash
             \/ UNCHANGED vars
      PROVE  Steady /\ Grown
  BY <1>1, <1>2, <1>5 DEF ManualRetry, BlockRecovery, RequeueWrite, Crash, history, tally, durable,
     vars
<1>6. CASE Reply
  BY <1>2, <1>6 DEF Reply, tally, Types, TypeOK, Grown
<1>7. CASE SendEmail \/ StartPark
  BY <1>1, <1>7 DEF SendEmail, StartPark, Types, TypeOK, Grown
<1>8. CASE AutoRecover
  BY <1>2, <1>8 DEF AutoRecover, Types, TypeOK, Grown, durable
<1>9. CASE Steady /\ Grown
  BY <1>9 DEF tally, Types, TypeOK, Grown
<1> HIDE DEF Steady
<1> QED BY <1>3, <1>4, <1>5, <1>6, <1>7, <1>8, <1>9 DEF Next, Worker

-----------------------------------------------------------------------------
(* No cadence without an open.                                             *)

\* Nothing of the cadence was sent, and no row and no list has any of it left to run.
CadenceUntouched ==
  /\ \A t \in Token : mail[t].kind # "cadence"
  /\ \A r \in JobId : rows[r].rest = NCad + 1
  /\ run.kind = "cadence" => run.at = NCad + 1

CadenceClosed == opened = {} => CadenceUntouched

LEMMA CadenceStep ==
  ASSUME Types, CadenceClosed, [Next]_vars
  PROVE  CadenceClosed'
<1> SUFFICES ASSUME opened = {}, CadenceUntouched
             PROVE  CadenceUntouched'
  BY OpenedStep DEF CadenceClosed
<1>1. NCad \in Nat
  BY FollowUpAssumption
<1>2. \A t \in Token' : mail'[t].kind # "cadence"
  <2>1. CASE Compose
    <3>1. [kind |-> "outreach", n |-> 0, era |-> starts] \in Mail
      BY DEF Mail, Types, TypeOK
    <3> QED BY <2>1, <3>1, AppendProperties, LenProperties
            DEF Compose, Token, Types, TypeOK, CadenceUntouched
  <2>2. CASE SendEmail
    <3>1. run.kind # "cadence"
      BY <1>1, <2>2 DEF SendEmail, Types, PlacesOK, CadenceUntouched
    <3>2. mail'[Len(mail) + 1].kind = run.kind /\ Token' = Token \cup {Len(mail) + 1}
      BY <2>2, MailSent
    <3> QED BY <2>2, <3>1, <3>2, MailSent DEF CadenceUntouched
  <2>3. CASE UNCHANGED mail
    BY <2>3 DEF Token, CadenceUntouched
  <2> QED BY <2>1, <2>2, <2>3, MailStep
<1>3. \A r \in JobId' : rows'[r].rest = NCad + 1
  <2>1. CASE StartPark
    BY <2>1, StartParkRow, AddedJob DEF Added, Types, CadenceUntouched
  <2>2. CASE Park
    <3>1. run.kind = "cadence"
      BY <2>2 DEF Park, Types, PlacesOK
    <3> QED BY <2>2, <3>1, ParkRow, AddedJob DEF Added, Types, CadenceUntouched
  <2>3. CASE RowsKept
    BY <2>3 DEF RowsKept, CadenceUntouched
  <2> QED BY <2>1, <2>2, <2>3, RowsStep
<1>4. run'.kind = "cadence" => run'.at = NCad + 1
  <2>1. CASE UNCHANGED run
    BY <2>1 DEF CadenceUntouched
  <2>2. CASE ReleaseRow
    BY <2>2 DEF ReleaseRow, NoRun
  <2>3. CASE ResumeWait
    BY <2>3, WaitDecides DEF Opened
  <2>4. CASE SendEmail
    BY <2>4 DEF SendEmail, Types, TypeOK, Run, CadenceUntouched
  <2>5. CASE ResumeDelay /\ ~Replied(cur)
    <3>1. run'.at = rows[cur].rest /\ cur \in JobId
      BY <2>5 DEF ResumeDelay, Types, TypeOK, JobId
    <3> QED BY <3>1 DEF CadenceUntouched
  <2>6. CASE EmailBehind
    BY <1>1, <2>6, AfterEmailTypes DEF EmailBehind, CadenceUntouched
  <2> QED BY <2>1, <2>2, <2>3, <2>4, <2>5, <2>6, RunStep
<1> QED BY <1>2, <1>3, <1>4 DEF CadenceUntouched

\* Without an open of some tracked mail no cadence email is ever sent: not by a
\* deadline, a rebind, a retry, a recovery or a restart.
THEOREM CadenceFollowsAnOpen == Spec => []CadenceNeedsAnOpen
<1>1. Init => CadenceClosed
  BY DEF Init, CadenceClosed, CadenceUntouched, NoRun, JobId, Token
<1>2. Types /\ CadenceClosed /\ [Next]_vars => CadenceClosed'
  BY CadenceStep
<1>3. CadenceClosed => CadenceNeedsAnOpen
  BY DEF CadenceClosed, CadenceUntouched, CadenceNeedsAnOpen
<1> QED BY <1>1, <1>2, <1>3, InitTypes, TypesStep, PTL DEF Spec
-----------------------------------------------------------------------------
(* At most the mail in flight after a reply.                               *)

\* The mail in flight, if a reply has been recorded since it was let through.
Straggler == IF pc = "send" /\ Replied(cur) THEN 1 ELSE 0

StragglersCounted == lateMail + Straggler <= disturbed["reply"]

LEMMA StragglerStep ==
  ASSUME Types, StragglersCounted, [Next]_vars
  PROVE  StragglersCounted'
<1>1. /\ lateMail \in Nat /\ disturbed["reply"] \in Nat /\ disturbed'["reply"] \in Nat
      /\ disturbed'["reply"] >= disturbed["reply"]
  BY TallyStep, TypesStep DEF Types, TypeOK, Kind
<1>2. CASE Reply
  <2>1. disturbed'["reply"] = disturbed["reply"] + 1 /\ lateMail' = lateMail
    BY <1>2, DisturbStep DEF Reply, tally, Types
  <2> QED BY <1>1, <2>1 DEF StragglersCounted, Straggler
<1>3. CASE SendEmail
  <2>1. lateMail' = lateMail + Straggler /\ pc' = "guard"
    BY <1>3 DEF SendEmail, Straggler
  <2> QED BY <1>1, <2>1 DEF StragglersCounted, Straggler
<1>4. CASE ~Reply /\ ~SendEmail
  <2>1. UNCHANGED <<replied, lateMail>>
    BY <1>4, TallyStep
  <2>2. ASSUME pc' = "send", Replied(cur)'
        PROVE  pc = "send" /\ Replied(cur)
    <3>1. CASE UNCHANGED <<pc, cur, run>>
      <4>1. cur \in JobId
        BY <2>2, <3>1 DEF Types, TypeOK, JobId
      <4>2. ~StartPark /\ ~Park => rows'[cur].era = rows[cur].era
        BY <4>1, RowsStep DEF RowsKept
      <4>3. StartPark \/ Park => rows'[cur].era = rows[cur].era
        BY <4>1, StartParkRow, ParkRow DEF Added, Types
      <4> QED BY <2>1, <2>2, <3>1, <4>2, <4>3 DEF Replied
    <3>2. ~(CheckEmail /\ ~Replied(cur) /\ ~Guarded)
      BY <2>2 DEF CheckEmail, Replied
    <3>3. ~EmailBehind
      BY <2>2, AfterEmailTypes DEF EmailBehind
    <3>4. ~ResumeWait
      BY <2>2, WaitDecides
    <3>5. ~ReleaseRow /\ ~(ResumeDelay /\ ~Replied(cur))
      BY <2>2 DEF ReleaseRow, ResumeDelay
    <3>6. ~((\E r \in JobId : Claim(r)) \/ Poll \/ UnsetWait \/ Park \/ Rearm \/ Step)
      BY <2>2 DEF Claim, Poll, UnsetWait, Park, Rearm, Step
    <3> QED BY <1>4, <3>1, <3>2, <3>3, <3>4, <3>5, <3>6, RunStep
  <2> QED BY <1>1, <2>1, <2>2 DEF StragglersCounted, Straggler
<1> QED BY <1>2, <1>3, <1>4

\* However many replies there are, each lets at most the mail in flight through:
\* CheckEmail looks at the replies again before every send, and no later write
\* brings a row back to the send.
THEOREM RepliesStopTheSequence == Spec => []ReplyStopsTheSequence
<1>1. Init => StragglersCounted
  BY DEF Init, StragglersCounted, Straggler, Kind
<1>2. Types /\ StragglersCounted /\ [Next]_vars => StragglersCounted'
  BY StragglerStep
<1>3. Types /\ StragglersCounted => ReplyStopsTheSequence
  BY DEF StragglersCounted, Straggler, ReplyStopsTheSequence, Types, TypeOK, Kind
<1> QED BY <1>1, <1>2, <1>3, InitTypes, TypesStep, PTL DEF Spec
-----------------------------------------------------------------------------
(* Statuses.                                                               *)

\* A row is revived by a re-queue.
Revives(q, r) == RequeueWrite(q) /\ requeue[q].row = r /\ requeue[q].revive

\* Who gives row r another status.
LEMMA StatusStep ==
  ASSUME Types, [Next]_vars, NEW r \in JobId, rows'[r].status # rows[r].status
  PROVE  \/ /\ Pending(r) /\ rows'[r].status = "cancelled"
            /\ StartCancel \/ CancelOnReply \/ UserCancel
         \/ Claim(r) /\ rows'[r].status = "processing"
         \/ StaleReclaim(r) /\ rows'[r].status = "pending"
         \/ /\ r = cur
            /\ \/ (ResumeDelay \/ CheckEmail) /\ ReleaseRow /\ rows'[r].status = "cancelled"
               \/ (Poll \/ Rearm) /\ rows'[r].status = "pending"
               \/ SendFails /\ rows'[r].status = "failed"
               \/ Done /\ rows'[r].status = "done"
               \/ Rescheduled /\ rows[r].status = "processing" /\ rows'[r].status = "pending"
         \/ \E q \in Requester : Revives(q, r) /\ rows'[r].status = "pending"
<1> USE DEF Types
<1>1. CASE StartCancel \/ CancelOnReply \/ UserCancel
  BY <1>1, Cancelling DEF StartCancel, CancelOnReply, UserCancel, PendingCancelled, TypeOK, RowsOK
<1>2. ~StartPark /\ ~Park
  BY StartParkRow, ParkRow DEF Added
<1>3. ASSUME NEW o \in JobId, Deadline(o) \/ Rebind(o)
      PROVE  FALSE
  BY <1>3, DeadlineRow, RebindRow DEF Rewritten
<1>4. ASSUME NEW o \in JobId, Claim(o)
      PROVE  o = r /\ rows'[r].status = "processing"
  BY <1>4, ClaimRow DEF Restatus, Rewritten
<1>5. ASSUME NEW o \in JobId, StaleReclaim(o)
      PROVE  o = r /\ rows'[r].status = "pending"
  BY <1>5, StaleReclaimRow DEF Restatus, Rewritten
<1>6. ~UnsetWait /\ ~WriteGuard
  BY UnsetWaitRow, WriteGuardRow DEF Rewritten
<1>7. Poll => r = cur /\ rows'[r].status = "pending"
  BY PollRow DEF Restatus, Rewritten
<1>8. Rearm => r = cur /\ rows'[r].status = "pending"
  BY RearmRow DEF Rewritten
<1>9. SendFails => r = cur /\ rows'[r].status = "failed"
  BY SendFailsRow DEF Restatus, Rewritten
<1>10. Done => r = cur /\ rows'[r].status = "done"
  BY DoneRow DEF Restatus, Rewritten
<1>11. Rescheduled => r = cur /\ rows[r].status = "processing" /\ rows'[r].status = "pending"
  BY RescheduledRow DEF Restatus, Rewritten
<1>12. ResumeDelay \/ CheckEmail => r = cur /\ ReleaseRow /\ rows'[r].status = "cancelled"
  <2> SUFFICES ASSUME ResumeDelay \/ CheckEmail
               PROVE  r = cur /\ ReleaseRow /\ rows'[r].status = "cancelled"
    OBVIOUS
  <2>1. CancelRow /\ cur \in JobId
    BY DEF ResumeDelay, CheckEmail, TypeOK, JobId
  <2> QED BY <2>1, CancelRowRow DEF CancelRow, Restatus, Rewritten
<1>13. ~BlockRecovery
  <2> SUFFICES ASSUME BlockRecovery PROVE FALSE
    OBVIOUS
  <2>1. PICK i \in DOMAIN ended : Restatus(ended[i], rows[ended[i]].status)
    BY BlockRecoveryRow
  <2> QED BY <2>1 DEF Restatus, Rewritten
<1>14. ASSUME NEW q \in Requester, RequeueWrite(q)
       PROVE  Revives(q, r) /\ rows'[r].status = "pending"
  BY <1>14, RequeueWriteRow DEF Revives, Rewritten
<1>15. ~(\/ Compose \/ Reply \/ ResumeWait \/ Step \/ SendEmail \/ ManualRetry \/ AutoRecover
         \/ Crash \/ (\E t \in Token : Open(t)) \/ UNCHANGED vars)
  BY DEF Compose, Reply, ResumeWait, Step, SendEmail, ManualRetry, AutoRecover, Crash, Open, vars,
     durable
<1>16. CASE Worker
  BY <1>2, <1>6, <1>7, <1>8, <1>9, <1>10, <1>11, <1>12, <1>15, <1>16 DEF Worker
<1>17. CASE \E o \in JobId : Deadline(o) \/ Claim(o) \/ StaleReclaim(o) \/ Rebind(o)
  BY <1>3, <1>4, <1>5, <1>17
<1> QED BY <1>1, <1>2, <1>13, <1>14, <1>15, <1>16, <1>17 DEF Next

\* The rows in `ended` are the done and failed ones among the ended, each once.
EndedOK ==
  /\ \A i \in DOMAIN ended : rows[ended[i]].status \in {"done", "failed"}
  /\ \A i, k \in DOMAIN ended : ended[i] = ended[k] => i = k

\* The row in hand is neither done nor failed.
HeldOK == pc # "idle" => rows[cur].status \in {"pending", "processing", "cancelled"}

\* What is left of `ended` without r.
LEMMA UntouchRows ==
  ASSUME TypeOK, EndedOK, NEW r \in JobId
  PROVE  /\ \A i \in DOMAIN Untouch(r) :
              Untouch(r)[i] # r /\ \E k \in DOMAIN ended : Untouch(r)[i] = ended[k]
         /\ \A i, k \in DOMAIN Untouch(r) : Untouch(r)[i] = Untouch(r)[k] => i = k
<1>1. ended \in Seq(JobId) /\ Len(ended) \in Nat /\ DOMAIN ended = 1..Len(ended)
  BY LenProperties DEF TypeOK
<1>2. CASE \E i \in DOMAIN ended : ended[i] = r
  <2> DEFINE p == Place(r)
             m == p + 1
             n == Len(ended)
             head == SubSeq(ended, 1, p - 1)
             tail == SubSeq(ended, m, n)
             left == Untouch(r)
  <2>1. p \in 1..Len(ended) /\ ended[p] = r
    BY <1>1, <1>2 DEF Place
  <2>2. left = head \o tail
    BY <1>2 DEF Untouch, RemoveAt
  <2> HIDE DEF p, left
  <2>3. /\ head \in Seq(JobId) /\ Len(head) = p - 1
        /\ \A i \in 1..(p - 1) : head[i] = ended[i]
    BY <1>1, <2>1, SubSeqProperties
  <2>4. m \in Int /\ n \in Int /\ m \in 2..(n + 1) /\ \A i \in m..n : ended[i] \in JobId
    BY <1>1, <2>1
  <2> HIDE DEF m, n
  <2>5. /\ tail \in Seq(JobId) /\ Len(tail) = IF m <= n THEN n - m + 1 ELSE 0
        /\ \A i \in 1 .. n - m + 1 : tail[i] = ended[m + i - 1]
    BY <2>4, SubSeqProperties
  <2> HIDE DEF head, tail
  <2>6. Len(tail) = n - p /\ \A i \in 1..(n - p) : tail[i] = ended[p + i]
    <3>1. n - m + 1 = n - p /\ m <= n + 1
      BY <1>1, <2>1, <2>4 DEF m, n
    <3>2. ASSUME NEW i \in 1..(n - p)
          PROVE  m + i - 1 = p + i
      BY <1>1, <2>1 DEF m, n
    <3>3. n \in Nat /\ p \in 1..n /\ m = p + 1
      BY <1>1, <2>1 DEF m, n
    <3>4. Len(tail) = n - p
      BY <2>5, <3>3
    <3> QED BY <2>5, <3>1, <3>2, <3>4
  <2>7. /\ left \in Seq(JobId) /\ Len(left) = n - 1
        /\ \A i \in 1..(n - 1) : left[i] = IF i <= p - 1 THEN head[i] ELSE tail[i - (p - 1)]
    <3>1. Len(head) + Len(tail) = n - 1
      BY <1>1, <2>1, <2>3, <2>6 DEF n
    <3>2. /\ left \in Seq(JobId) /\ Len(left) = Len(head) + Len(tail)
          /\ \A i \in 1 .. Len(head) + Len(tail) :
                left[i] = IF i <= Len(head) THEN head[i] ELSE tail[i - Len(head)]
      BY <2>2, <2>3, <2>5, ConcatProperties
    <3> QED BY <2>3, <3>1, <3>2
  <2>8. DOMAIN left = 1..(Len(ended) - 1)
    BY <2>7, LenProperties DEF n
  <2>9. ASSUME NEW i \in 1..(Len(ended) - 1)
        PROVE  left[i] = IF i < p THEN ended[i] ELSE ended[i + 1]
    <3>1. CASE i < p
      BY <1>1, <2>1, <2>3, <2>7, <3>1 DEF n
    <3>2. CASE ~(i < p)
      <4>1. i - (p - 1) \in 1..(n - p) /\ p + (i - (p - 1)) = i + 1
        BY <1>1, <2>1, <3>2 DEF n
      <4>2. left[i] = tail[i - (p - 1)]
        BY <1>1, <2>1, <2>7, <3>2 DEF n
      <4>3. left[i] = ended[i + 1]
        BY <2>6, <4>1, <4>2
      <4> QED BY <3>2, <4>3
    <3> QED BY <3>1, <3>2
  <2>10. ASSUME NEW i \in 1..(Len(ended) - 1)
        PROVE  left[i] # r /\ \E k \in DOMAIN ended : left[i] = ended[k]
    BY <1>1, <2>1, <2>9 DEF EndedOK
  <2>11. ASSUME NEW i \in 1..(Len(ended) - 1), NEW k \in 1..(Len(ended) - 1), left[i] = left[k]
        PROVE  i = k
    BY <1>1, <2>1, <2>9, <2>11 DEF EndedOK
  <2> QED BY <2>8, <2>10, <2>11 DEF left
<1>3. CASE ~ \E i \in DOMAIN ended : ended[i] = r
  BY <1>3 DEF Untouch, EndedOK
<1> QED BY <1>2, <1>3

LEMMA TouchRows ==
  ASSUME TypeOK, EndedOK, NEW r \in JobId
  PROVE  /\ \A i \in DOMAIN Touch(r) :
              Touch(r)[i] = r \/ \E k \in DOMAIN ended : Touch(r)[i] = ended[k]
         /\ \A i, k \in DOMAIN Touch(r) : Touch(r)[i] = Touch(r)[k] => i = k
<1> DEFINE left == Untouch(r)
           n == Len(left)
<1>1. left \in Seq(JobId) /\ n \in Nat /\ DOMAIN left = 1..n
  BY UntouchType, LenProperties
<1>2. /\ \A i \in 1..n : left[i] # r /\ \E k \in DOMAIN ended : left[i] = ended[k]
      /\ \A i, k \in 1..n : left[i] = left[k] => i = k
  BY <1>1, UntouchRows
<1>3. Touch(r) = Append(left, r)
  BY DEF Touch
<1> HIDE DEF left
<1>4. /\ DOMAIN Touch(r) = 1..(n + 1) /\ Touch(r)[n + 1] = r
      /\ \A i \in 1..n : Touch(r)[i] = left[i]
  BY <1>1, <1>3, AppendProperties, LenProperties
<1> HIDE DEF n
<1> QED BY <1>1, <1>2, <1>4

LEMMA EndedMoves ==
  ASSUME [Next]_vars
  PROVE  \/ UNCHANGED ended /\ ~ \E q \in Requester : RequeueWrite(q)
         \/ ended' = Touch(cur) /\ (SendFails \/ Done)
         \/ BlockRecovery
         \/ \E q \in Requester : RequeueWrite(q)
<1>1. ASSUME \/ StartCancel \/ StartPark \/ Compose \/ Reply \/ CancelOnReply \/ UserCancel
             \/ (\E t \in Token : Open(t)) \/ ManualRetry \/ AutoRecover \/ Crash \/ UNCHANGED vars
             \/ \E r \in JobId : Deadline(r) \/ Claim(r) \/ StaleReclaim(r) \/ Rebind(r)
      PROVE  UNCHANGED ended
  BY <1>1 DEF StartCancel, StartPark, Compose, Reply, CancelOnReply, UserCancel, Open, ManualRetry,
     AutoRecover, Crash, Deadline, Claim, StaleReclaim, Rebind, durable, vars
<1>2. ASSUME Worker, ~SendFails, ~Done
      PROVE  UNCHANGED ended
  BY <1>2 DEF Worker, ResumeDelay, ResumeWait, Poll, UnsetWait, Park, Step, CheckEmail, SendEmail,
     WriteGuard, Rearm, Rescheduled, durable
<1>3. CASE SendFails \/ Done
  BY <1>3 DEF SendFails, Done
<1> QED BY <1>1, <1>2, <1>3 DEF Next

\* The row in hand changes only when one is claimed.
LEMMA CurStep ==
  ASSUME Types, [Next]_vars
  PROVE  \/ pc' = "idle"
         \/ pc # "idle" /\ cur' = cur
         \/ \E r \in JobId : Claim(r) /\ cur' = r
<1>1. CASE UNCHANGED <<pc, cur, run>>
  BY <1>1
<1>2. CASE ReleaseRow
  BY <1>2 DEF ReleaseRow
<1>3. CASE ResumeWait \/ SendEmail \/ Poll \/ UnsetWait \/ Park \/ Step \/ Rearm
  BY <1>3 DEF ResumeWait, SendEmail, Poll, UnsetWait, Park, Step, Rearm
<1>4. CASE CheckEmail /\ ~Replied(cur) /\ ~Guarded
  BY <1>4 DEF CheckEmail
<1>5. CASE ResumeDelay /\ ~Replied(cur)
  BY <1>5 DEF ResumeDelay
<1>6. CASE EmailBehind
  BY <1>6 DEF EmailBehind
<1>7. CASE \E r \in JobId : Claim(r)
  BY <1>7 DEF Claim
<1> QED BY <1>1, <1>2, <1>3, <1>4, <1>5, <1>6, <1>7, RunStep

\* A row that has ended comes back by a re-queue only.
LEMMA EndedStays ==
  ASSUME Types, HeldOK, [Next]_vars, NEW r \in JobId, rows[r].status \in {"done", "failed"}
  PROVE  rows'[r].status = rows[r].status \/ \E q \in Requester : Revives(q, r)
<1> SUFFICES ASSUME rows'[r].status # rows[r].status
             PROVE  \E q \in Requester : Revives(q, r)
  OBVIOUS
<1>1. r # cur \/ pc = "idle"
  BY DEF HeldOK
<1>2. ~Pending(r) /\ rows[r].status # "processing"
  BY DEF Pending
<1>3. ~Claim(r) /\ ~StaleReclaim(r)
  BY <1>2 DEF Claim, StaleReclaim
<1>4. pc = "idle" => ~(ResumeDelay \/ CheckEmail \/ Poll \/ Rearm \/ SendFails \/ Done)
  BY DEF ResumeDelay, CheckEmail, Poll, Rearm, SendFails, Done
<1> QED BY <1>1, <1>2, <1>3, <1>4, StatusStep

LEMMA EndedStep ==
  ASSUME Types, EndedOK, HeldOK, [Next]_vars
  PROVE  EndedOK'
<1> DEFINE Over(r) == rows'[r].status \in {"done", "failed"}
<1>1. \A i \in DOMAIN ended : ended[i] \in JobId /\ rows[ended[i]].status \in {"done", "failed"}
  BY ElementOfSeq, LenProperties DEF EndedOK, Types, TypeOK
<1>2. ASSUME NEW r \in JobId, ended' = Touch(r), Over(r),
             \A i \in DOMAIN ended : ended[i] = r \/ Over(ended[i])
      PROVE  EndedOK'
  BY <1>2, TouchRows DEF EndedOK, Types
<1>3. ASSUME ended' = ended, \A i \in DOMAIN ended : Over(ended[i])
      PROVE  EndedOK'
  BY <1>3 DEF EndedOK
<1>4. CASE UNCHANGED ended /\ ~ \E q \in Requester : RequeueWrite(q)
  <2>1. \A i \in DOMAIN ended : Over(ended[i])
    BY <1>1, <1>4, EndedStays DEF Revives
  <2> QED BY <1>3, <1>4, <2>1
<1>5. CASE ended' = Touch(cur) /\ (SendFails \/ Done)
  <2>1. cur \in JobId /\ Rewritten(cur) /\ Over(cur)
    BY <1>5, SendFailsRow, DoneRow DEF Types, Restatus
  <2>2. \A i \in DOMAIN ended : ended[i] = cur \/ Over(ended[i])
    BY <1>1, <2>1 DEF Rewritten
  <2> QED BY <1>2, <1>5, <2>1, <2>2
<1>6. CASE BlockRecovery
  <2>1. PICK i \in DOMAIN ended :
          /\ ended[i] \in JobId /\ ended' = Touch(ended[i])
          /\ Restatus(ended[i], rows[ended[i]].status)
    BY <1>6, BlockRecoveryRow DEF Types
  <2>2. \A k \in DOMAIN ended : Over(ended[k])
    BY <1>1, <2>1 DEF Restatus, Rewritten
  <2> QED BY <1>2, <2>1, <2>2
<1>7. ASSUME NEW q \in Requester, RequeueWrite(q)
      PROVE  EndedOK'
  <2> DEFINE r == requeue[q].row
  <2>1. /\ r \in JobId /\ Rewritten(r) /\ requeue[q].revive \in BOOLEAN
        /\ rows'[r].status = IF requeue[q].revive THEN "pending" ELSE rows[r].status
    BY <1>7, RequeueWriteRow DEF Types, Todo
  <2>2. \A i \in DOMAIN ended : ended[i] # r => Over(ended[i])
    BY <1>1, <2>1 DEF Rewritten
  <2>3. CASE requeue[q].revive
    <3>1. ended' = Untouch(r)
      BY <1>7, <2>3 DEF RequeueWrite
    <3> HIDE DEF r
    <3> QED BY <2>1, <2>2, <3>1, UntouchRows DEF EndedOK, Types
  <2>4. CASE ~requeue[q].revive
    <3>1. \A i \in DOMAIN ended : Over(ended[i])
      BY <1>1, <2>1, <2>2, <2>4
    <3>2. CASE rows[r].status \in {"done", "failed"}
      <4>1. ended' = Touch(r)
        BY <1>7, <2>4, <3>2 DEF RequeueWrite
      <4>2. Over(r)
        BY <2>1, <2>4, <3>2
      <4> HIDE DEF r
      <4> QED BY <1>2, <2>1, <3>1, <4>1, <4>2
    <3>3. CASE rows[r].status \notin {"done", "failed"}
      <4>1. ended' = ended
        BY <1>7, <2>4, <3>3 DEF RequeueWrite
      <4> QED BY <1>3, <3>1, <4>1
    <3> QED BY <3>2, <3>3
  <2> QED BY <2>1, <2>3, <2>4
<1> QED BY <1>4, <1>5, <1>6, <1>7, EndedMoves

LEMMA HeldStep ==
  ASSUME Types, HeldOK, [Next]_vars
  PROVE  HeldOK'
<1>1. CASE pc' = "idle"
  BY <1>1 DEF HeldOK
<1>2. CASE pc # "idle" /\ pc' # "idle" /\ cur' = cur
  <2>1. cur \in JobId
    BY <1>2 DEF Types, TypeOK, JobId
  <2>2. ~SendFails /\ ~Done
    BY <1>2 DEF SendFails, Done, ReleaseRow
  <2>3. \/ rows'[cur].status = rows[cur].status
        \/ rows'[cur].status \in {"pending", "processing", "cancelled"}
    BY <2>1, <2>2, StatusStep
  <2> QED BY <1>2, <2>3 DEF HeldOK
<1>3. ASSUME NEW r \in JobId, Claim(r), cur' = r
      PROVE  HeldOK'
  BY <1>3, ClaimRow DEF HeldOK, Restatus, Types
<1> QED BY <1>1, <1>2, <1>3, CurStep
-----------------------------------------------------------------------------
(* Cancellations.                                                          *)

\* Who decides and who forgets a re-queue.
LEMMA RequeueStep ==
  ASSUME Types, [Next]_vars
  PROVE  \/ UNCHANGED requeue
         \/ Crash /\ \A q \in Requester : requeue'[q] = None
         \/ \E q \in Requester : /\ RequeueWrite(q) /\ requeue'[q] = None
                                 /\ \A p \in Requester \ {q} : requeue'[p] = requeue[p]
         \/ ManualRetry /\ requeue'["maintenance"] = requeue["maintenance"]
         \/ AutoRecover /\ requeue'["user"] = requeue["user"]
<1>1. CASE \/ StartCancel \/ StartPark \/ Compose \/ Reply \/ CancelOnReply \/ UserCancel
           \/ (\E t \in Token : Open(t)) \/ UNCHANGED vars \/ BlockRecovery
           \/ \E r \in JobId : Deadline(r) \/ Claim(r) \/ StaleReclaim(r) \/ Rebind(r)
  BY <1>1 DEF StartCancel, StartPark, Compose, Reply, CancelOnReply, UserCancel, Open, Deadline,
     Claim, StaleReclaim, Rebind, BlockRecovery, memory, vars
<1>2. CASE Worker
  BY <1>2 DEF Worker, ResumeDelay, ResumeWait, Poll, UnsetWait, Park, Step, CheckEmail, SendEmail,
     SendFails, WriteGuard, Rearm, Rescheduled, Done
<1>3. CASE ManualRetry \/ AutoRecover
  BY <1>3 DEF ManualRetry, AutoRecover, Types, TypeOK, Requester
<1>4. CASE Crash
  BY <1>4 DEF Crash
<1>5. ASSUME NEW q \in Requester, RequeueWrite(q)
      PROVE  requeue'[q] = None /\ \A p \in Requester \ {q} : requeue'[p] = requeue[p]
  BY <1>5 DEF RequeueWrite, Types, TypeOK
<1> QED BY <1>1, <1>2, <1>3, <1>4, <1>5 DEF Next

\* A retry was asked for, and a recovery decided.
Both == disturbed["retry"] > 0 /\ disturbed["recover"] > 0

RequeuesCounted ==
  /\ requeue["user"] # None => disturbed["retry"] > 0
  /\ requeue["maintenance"] # None => disturbed["recover"] > 0

\* Unless a reclaim was stale, or a retry and a recovery have met: the row in hand
\* is being processed until it is handed back, and a row to revive has ended.
HeldIsProcessing ==
  pc \notin {"idle", "rescheduled"} => rows[cur].status = "processing" \/ disturbed["slow"] > 0 \/ Both

RevivedHaveEnded ==
  \A q \in Requester : requeue[q] # None /\ requeue[q].revive =>
    rows[requeue[q].row].status \in {"done", "failed"} \/ Both

CancelInv == RequeuesCounted /\ HeldIsProcessing /\ RevivedHaveEnded

LEMMA CountedStep ==
  ASSUME Types, RequeuesCounted, [Next]_vars
  PROVE  RequeuesCounted'
<1>1. /\ disturbed'["retry"] >= disturbed["retry"] /\ disturbed'["recover"] >= disturbed["recover"]
      /\ {disturbed["retry"], disturbed["recover"], disturbed'["retry"], disturbed'["recover"]}
           \subseteq Nat
  BY TallyStep, TypesStep DEF Types, TypeOK, Kind
<1>2. ManualRetry => disturbed'["retry"] = disturbed["retry"] + 1
  BY DisturbStep DEF ManualRetry, Types
<1>3. AutoRecover => disturbed'["recover"] = disturbed["recover"] + 1
  BY DisturbStep DEF AutoRecover, Types
<1>4. CASE ManualRetry /\ requeue'["maintenance"] = requeue["maintenance"]
  BY <1>1, <1>2, <1>4 DEF RequeuesCounted
<1>5. CASE AutoRecover /\ requeue'["user"] = requeue["user"]
  BY <1>1, <1>3, <1>5 DEF RequeuesCounted
<1>6. ASSUME NEW q \in Requester, requeue'[q] = None,
             \A p \in Requester \ {q} : requeue'[p] = requeue[p]
      PROVE  RequeuesCounted'
  BY <1>1, <1>6 DEF RequeuesCounted, Requester
<1>7. CASE UNCHANGED requeue \/ \A q \in Requester : requeue'[q] = None
  BY <1>1, <1>7 DEF RequeuesCounted, Requester
<1> QED BY <1>4, <1>5, <1>6, <1>7, RequeueStep

\* Two re-queues decided at once are a retry's and a recovery's.
LEMMA TwoRequeues ==
  ASSUME RequeuesCounted, NEW p \in Requester, NEW q \in Requester, p # q,
         requeue[p] # None, requeue[q] # None
  PROVE  Both
BY DEF RequeuesCounted, Requester, Both

LEMMA BothStays ==
  ASSUME Types, [Next]_vars
  PROVE  /\ Both => Both'
         /\ disturbed["slow"] > 0 => disturbed'["slow"] > 0
<1>1. {"retry", "recover", "slow"} \subseteq Kind
  BY DEF Kind
<1>2. \A k \in {"retry", "recover", "slow"} :
         disturbed'[k] >= disturbed[k] /\ disturbed[k] \in Nat /\ disturbed'[k] \in Nat
  BY <1>1, TallyStep, TypesStep DEF Types, TypeOK
<1> QED BY <1>2 DEF Both

LEMMA HeldProcessingStep ==
  ASSUME Types, HeldOK, CancelInv, [Next]_vars
  PROVE  HeldIsProcessing'
<1> SUFFICES ASSUME pc' \notin {"idle", "rescheduled"}
             PROVE  rows'[cur'].status = "processing" \/ disturbed'["slow"] > 0 \/ Both'
  BY DEF HeldIsProcessing, Both
<1>1. ASSUME NEW r \in JobId, Claim(r), cur' = r
      PROVE  rows'[cur'].status = "processing"
  BY <1>1, ClaimRow DEF Restatus, Types
<1>2. CASE pc # "idle" /\ cur' = cur
  <2>1. cur \in JobId
    BY <1>2 DEF Types, TypeOK, JobId
  <2>2. pc # "rescheduled"
    <3>1. CASE UNCHANGED <<pc, cur, run>>
      BY <3>1
    <3>2. CASE EmailBehind
      BY <3>2 DEF EmailBehind
    <3>3. CASE ReleaseRow \/ ResumeWait \/ SendEmail \/ Poll \/ UnsetWait \/ Park \/ Step \/ Rearm
      BY <3>3 DEF ReleaseRow, ResumeWait, SendEmail, Poll, UnsetWait, Park, Step, Rearm
    <3>4. CASE ResumeDelay \/ CheckEmail \/ \E r \in JobId : Claim(r)
      BY <1>2, <3>4 DEF ResumeDelay, CheckEmail, Claim
    <3> QED BY <3>1, <3>2, <3>3, <3>4, RunStep
  <2>3. rows[cur].status = "processing" \/ disturbed["slow"] > 0 \/ Both
    BY <1>2, <2>2 DEF CancelInv, HeldIsProcessing
  <2>4. CASE rows'[cur].status = rows[cur].status
    BY <1>2, <2>3, <2>4, BothStays
  <2>5. CASE rows'[cur].status # rows[cur].status /\ rows[cur].status = "processing"
    <3>1. ~Pending(cur) /\ ~Claim(cur)
      BY <2>5 DEF Pending, Claim
    <3>2. StaleReclaim(cur) => disturbed'["slow"] > 0
      <4> SUFFICES ASSUME StaleReclaim(cur) PROVE disturbed'["slow"] > 0
        OBVIOUS
      <4>1. disturbed'["slow"] = disturbed["slow"] + 1 /\ disturbed["slow"] \in Nat
        BY DisturbStep DEF StaleReclaim, Types, TypeOK, Kind
      <4> QED BY <4>1
    <3>3. ~(\/ (ResumeDelay \/ CheckEmail) /\ ReleaseRow
            \/ Poll \/ Rearm \/ SendFails \/ Done \/ Rescheduled)
      BY DEF ReleaseRow, Poll, Rearm, SendFails, Done, Rescheduled
    <3>4. ASSUME NEW q \in Requester, Revives(q, cur)
          PROVE  Both
      BY <2>5, <3>4 DEF Revives, RequeueWrite, CancelInv, RevivedHaveEnded
    <3> QED BY <2>1, <2>5, <3>1, <3>2, <3>3, <3>4, StatusStep, BothStays
  <2>6. CASE disturbed["slow"] > 0 \/ Both
    BY <2>6, BothStays
  <2> QED BY <2>3, <2>4, <2>5, <2>6
<1> QED BY <1>1, <1>2, CurStep

LEMMA RevivedStep ==
  ASSUME Types, EndedOK, HeldOK, CancelInv, [Next]_vars
  PROVE  RevivedHaveEnded'
<1> SUFFICES ASSUME NEW q \in Requester, requeue'[q] # None, requeue'[q].revive, ~Both'
             PROVE  rows'[requeue'[q].row].status \in {"done", "failed"}
  BY DEF RevivedHaveEnded, Both
<1>1. ~Both
  BY BothStays
<1>2. CASE requeue'[q] = requeue[q]
  <2> DEFINE r == requeue[q].row
  <2>1. r \in JobId /\ rows[r].status \in {"done", "failed"}
    BY <1>1, <1>2 DEF Types, TypeOK, Todo, CancelInv, RevivedHaveEnded
  <2>2. ASSUME NEW p \in Requester, Revives(p, r)
        PROVE  FALSE
    <3>1. requeue[p] # None /\ requeue'[p] = None
      BY <2>2 DEF Revives, RequeueWrite, Types, TypeOK
    <3>2. p # q /\ requeue[q] # None
      BY <1>2, <3>1
    <3> QED BY <1>1, <3>1, <3>2, TwoRequeues DEF CancelInv
  <2> HIDE DEF r
  <2>3. rows'[r].status = rows[r].status
    BY <2>1, <2>2, EndedStays
  <2> QED BY <1>2, <2>1, <2>3 DEF r
<1>3. ASSUME ended # <<>>, UNCHANGED rows, NEW auto, requeue'[q] = Requeue(Recent, TRUE, auto)
      PROVE  rows'[requeue'[q].row].status \in {"done", "failed"}
  BY <1>3, RecentRow DEF Requeue, EndedOK, Recent, Types
<1>4. CASE ManualRetry /\ q = "user"
  <2>1. UNCHANGED rows
    BY <1>4 DEF ManualRetry, durable
  <2>2. ASSUME NEW r \in JobId, requeue' = [requeue EXCEPT !["user"] = Requeue(r, FALSE, FALSE)]
        PROVE  FALSE
    BY <1>4, <2>2 DEF Types, TypeOK, Requeue
  <2>3. ended # <<>> /\ requeue' = [requeue EXCEPT !["user"] = Requeue(Recent, TRUE, FALSE)]
    BY <1>4, <2>2 DEF ManualRetry
  <2> QED BY <1>3, <1>4, <2>1, <2>3 DEF Types, TypeOK
<1>5. CASE AutoRecover /\ q = "maintenance"
  <2>1. UNCHANGED rows /\ ended # <<>>
    BY <1>5 DEF AutoRecover, durable, Unblocked
  <2> QED BY <1>3, <1>5, <2>1 DEF AutoRecover, Types, TypeOK
<1> QED BY <1>2, <1>4, <1>5, RequeueStep DEF Requester

LEMMA CancelKept ==
  ASSUME Types, CancelInv, [Next]_vars, NEW r \in JobId, rows[r].status = "cancelled",
         rows'[r].status # "cancelled"
  PROVE  disturbed["slow"] > 0 \/ Both
<1>1. ~Claim(r) /\ ~StaleReclaim(r)
  BY DEF Claim, StaleReclaim, Pending
<1>2. ASSUME r = cur, Poll \/ Rearm \/ SendFails \/ Done
      PROVE  disturbed["slow"] > 0 \/ Both
  BY <1>2 DEF Poll, Rearm, SendFails, Done, CancelInv, HeldIsProcessing
<1>3. ASSUME NEW q \in Requester, Revives(q, r)
      PROVE  Both
  BY <1>3 DEF Revives, RequeueWrite, CancelInv, RevivedHaveEnded
<1> QED BY <1>1, <1>2, <1>3, StatusStep

\* A cancellation is overwritten only by a row that was reclaimed from a run that
\* still held it, or by a retry and a recovery that pass each other.
THEOREM CancellationIsFinal == Spec => CancelIsFinal
<1> DEFINE IInv == Types /\ EndedOK /\ HeldOK /\ CancelInv
<1>1. Init => EndedOK /\ HeldOK /\ CancelInv
  BY DEF Init, EndedOK, HeldOK, CancelInv, RequeuesCounted, HeldIsProcessing, RevivedHaveEnded,
     Requester
<1>2. IInv /\ [Next]_vars => EndedOK' /\ HeldOK'
  BY EndedStep, HeldStep
<1>3. IInv /\ [Next]_vars => CancelInv'
  BY CountedStep, HeldProcessingStep, RevivedStep DEF CancelInv
<1>4. IInv /\ [Next]_vars =>
        [\A r \in JobId : rows[r].status = "cancelled" /\ rows'[r].status # "cancelled" =>
           \/ disturbed["slow"] > 0
           \/ disturbed["retry"] > 0 /\ disturbed["recover"] > 0]_vars
  <2> SUFFICES ASSUME IInv, [Next]_vars, NEW r \in JobId, rows[r].status = "cancelled",
                      rows'[r].status # "cancelled"
               PROVE  disturbed["slow"] > 0 \/ Both
    BY DEF Both
  <2> QED BY CancelKept
<1> QED BY <1>1, <1>2, <1>3, <1>4, InitTypes, TypesStep, PTL DEF Spec, CancelIsFinal
-----------------------------------------------------------------------------
(* Waits and guards.                                                       *)

\* Row r waits, or not, on the same rung of the alternates as before.
SameRung(r) ==
  /\ rows'[r].wait = NoWait <=> rows[r].wait = NoWait
  /\ rows[r].wait # NoWait => rows'[r].wait.idx = rows[r].wait.idx

\* Who makes a row wait for something else.
LEMMA WaitStep ==
  ASSUME Types, [Next]_vars, NEW r \in JobId
  PROVE  \/ SameRung(r)
         \/ r = cur /\ UnsetWait /\ rows'[r].wait = NoWait
         \/ r = cur /\ Rearm /\ rows'[r].wait # NoWait /\ rows'[r].wait.idx = run.at
         \/ \E q \in Requester : /\ RequeueWrite(q) /\ requeue[q].row = r
                                 /\ rows'[r].wait = requeue[q].wait /\ rows'[r].wait # NoWait
<1> USE DEF Types
<1>1. rows'[r].wait = rows[r].wait => SameRung(r)
  BY DEF SameRung
<1>2. CASE StartCancel \/ CancelOnReply \/ UserCancel
  BY <1>1, <1>2, Cancelling DEF StartCancel, CancelOnReply, UserCancel, PendingCancelled, TypeOK,
     RowsOK
<1>3. CASE StartPark \/ Park
  BY <1>1, <1>3, StartParkRow, ParkRow DEF Added
<1>4. ASSUME NEW o \in JobId, Deadline(o) \/ Rebind(o)
      PROVE  SameRung(r)
  BY <1>1, <1>4, DeadlineRow, RebindRow DEF Rewritten, SameRung
<1>5. ASSUME NEW o \in JobId, Claim(o) \/ StaleReclaim(o)
      PROVE  SameRung(r)
  BY <1>1, <1>5, ClaimRow, StaleReclaimRow DEF Restatus, Rewritten
<1>6. UnsetWait => IF r = cur THEN rows'[r].wait = NoWait ELSE SameRung(r)
  BY <1>1, UnsetWaitRow DEF Rewritten
<1>7. Rearm => IF r = cur THEN rows'[r].wait # NoWait /\ rows'[r].wait.idx = run.at
                          ELSE SameRung(r)
  BY <1>1, RearmRow DEF Rewritten
<1>8. WriteGuard => SameRung(r)
  BY <1>1, WriteGuardRow DEF Rewritten
<1>9. Poll \/ SendFails \/ Done \/ Rescheduled => SameRung(r)
  BY <1>1, PollRow, SendFailsRow, DoneRow, RescheduledRow DEF Restatus, Rewritten
<1>10. ResumeDelay \/ CheckEmail => SameRung(r)
  <2> SUFFICES ASSUME ResumeDelay \/ CheckEmail PROVE SameRung(r)
    OBVIOUS
  <2>1. cur \in JobId
    BY DEF ResumeDelay, CheckEmail, TypeOK, JobId
  <2>2. UNCHANGED rows \/ CancelRow
    BY DEF ResumeDelay, CheckEmail
  <2> QED BY <1>1, <2>1, <2>2, CancelRowRow DEF Restatus, Rewritten
<1>11. BlockRecovery => SameRung(r)
  <2> SUFFICES ASSUME BlockRecovery PROVE SameRung(r)
    OBVIOUS
  <2>1. PICK i \in DOMAIN ended : Restatus(ended[i], rows[ended[i]].status)
    BY BlockRecoveryRow
  <2> QED BY <1>1, <2>1 DEF Restatus, Rewritten
<1>12. ASSUME NEW q \in Requester, RequeueWrite(q)
       PROVE  \/ SameRung(r)
              \/ requeue[q].row = r /\ rows'[r].wait = requeue[q].wait /\ rows'[r].wait # NoWait
  BY <1>1, <1>12, RequeueWriteRow DEF Rewritten
<1>13. CASE \/ Compose \/ Reply \/ ResumeWait \/ Step \/ SendEmail \/ ManualRetry \/ AutoRecover
            \/ Crash \/ (\E t \in Token : Open(t)) \/ UNCHANGED vars
  BY <1>1, <1>13 DEF Compose, Reply, ResumeWait, Step, SendEmail, ManualRetry, AutoRecover, Crash,
     Open, vars, durable
<1>14. CASE Worker
  BY <1>3, <1>6, <1>7, <1>8, <1>9, <1>10, <1>13, <1>14 DEF Worker
<1>15. CASE \E o \in JobId : Deadline(o) \/ Claim(o) \/ StaleReclaim(o) \/ Rebind(o)
  BY <1>4, <1>5, <1>15
<1> QED BY <1>2, <1>3, <1>11, <1>12, <1>13, <1>14, <1>15 DEF Next

\* The guard of a row is written after a send only.
LEMMA GuardStep ==
  ASSUME Types, [Next]_vars, NEW r \in JobId
  PROVE  \/ SameGuard(r)
         \/ r = cur /\ WriteGuard /\ rows'[r].guard = Tpl
<1> USE DEF Types
<1>1. rows'[r] = rows[r] => SameGuard(r)
  BY DEF SameGuard
<1>2. CASE StartCancel \/ CancelOnReply \/ UserCancel
  BY <1>2, Cancelling DEF StartCancel, CancelOnReply, UserCancel, PendingCancelled, TypeOK, RowsOK
<1>3. CASE StartPark \/ Park
  BY <1>1, <1>3, StartParkRow, ParkRow DEF Added
<1>4. ASSUME NEW o \in JobId, Deadline(o) \/ Claim(o) \/ StaleReclaim(o) \/ Rebind(o)
      PROVE  SameGuard(r)
  BY <1>1, <1>4, DeadlineRow, RebindRow, ClaimRow, StaleReclaimRow DEF Restatus, Rewritten
<1>5. UnsetWait \/ Rearm => SameGuard(r)
  BY <1>1, UnsetWaitRow, RearmRow DEF Rewritten
<1>6. WriteGuard => SameGuard(r) \/ (r = cur /\ rows'[r].guard = Tpl)
  BY <1>1, WriteGuardRow DEF Rewritten
<1>7. Poll \/ SendFails \/ Done \/ Rescheduled => SameGuard(r)
  BY <1>1, PollRow, SendFailsRow, DoneRow, RescheduledRow DEF Restatus, Rewritten
<1>8. ResumeDelay \/ CheckEmail => SameGuard(r)
  <2> SUFFICES ASSUME ResumeDelay \/ CheckEmail PROVE SameGuard(r)
    OBVIOUS
  <2>1. cur \in JobId
    BY DEF ResumeDelay, CheckEmail, TypeOK, JobId
  <2>2. UNCHANGED rows \/ CancelRow
    BY DEF ResumeDelay, CheckEmail
  <2> QED BY <1>1, <2>1, <2>2, CancelRowRow DEF Restatus, Rewritten
<1>9. BlockRecovery => SameGuard(r)
  <2> SUFFICES ASSUME BlockRecovery PROVE SameGuard(r)
    OBVIOUS
  <2>1. PICK i \in DOMAIN ended : Restatus(ended[i], rows[ended[i]].status)
    BY BlockRecoveryRow
  <2> QED BY <1>1, <2>1 DEF Restatus, Rewritten
<1>10. ASSUME NEW q \in Requester, RequeueWrite(q)
       PROVE  SameGuard(r)
  BY <1>1, <1>10, RequeueWriteRow DEF Rewritten
<1>11. CASE \/ Compose \/ Reply \/ ResumeWait \/ Step \/ SendEmail \/ ManualRetry \/ AutoRecover
            \/ Crash \/ (\E t \in Token : Open(t)) \/ UNCHANGED vars
  BY <1>1, <1>11 DEF Compose, Reply, ResumeWait, Step, SendEmail, ManualRetry, AutoRecover, Crash,
     Open, vars, durable
<1>12. CASE Worker
  BY <1>3, <1>5, <1>6, <1>7, <1>8, <1>11, <1>12 DEF Worker
<1> QED BY <1>2, <1>3, <1>4, <1>9, <1>10, <1>11, <1>12 DEF Next
-----------------------------------------------------------------------------
(* The rung of a waiting row.                                              *)

\* The guard of a row tells an alternate from every other email.
TemplatesDiffer ==
  /\ \A i, k \in 1..NAlt : AltTpl[i] = AltTpl[k] => i = k
  /\ \A i \in 1..NAlt, j \in 1..NCad : AltTpl[i] # CadTpl[j]

AltSent(i) == \E t \in Token : mail[t].kind = "alternate" /\ mail[t].n = i

\* The alternates up to the n-th were sent.
UpTo(n) == \A i \in 1..NAlt : i <= n => AltSent(i)

\* What a waiting row, a re-queue, a guard and the running list say was sent, was.
WaitsSent    == \A r \in JobId : rows[r].wait # NoWait => UpTo(rows[r].wait.idx)
RequeuesSent == \A q \in Requester : requeue[q] # None => requeue[q].wait.idx = 0
GuardsSent   ==
  \A r \in JobId, i \in 1..NAlt : rows[r].guardTok # 0 /\ rows[r].guard = AltTpl[i] => AltSent(i)
RunSent      ==
  run.kind = "alternate" =>
    \A i \in 1..NAlt :
      \/ i < run.at
      \/ i = run.at /\ pc \in {"guard", "rearm"}
      => AltSent(i)

ArmedInv == WaitsSent /\ RequeuesSent /\ GuardsSent /\ RunSent

\* What was sent stays sent.
LEMMA AltSentStays ==
  ASSUME Types, [Next]_vars
  PROVE  /\ \A i \in 1..NAlt : AltSent(i) => AltSent(i)'
         /\ \A n \in Nat : UpTo(n) => UpTo(n)'
<1>1. \A i \in 1..NAlt : AltSent(i) => AltSent(i)'
  BY MailKept DEF AltSent
<1> QED BY <1>1 DEF UpTo

LEMMA WaitsSentStep ==
  ASSUME Types, ArmedInv, [Next]_vars
  PROVE  WaitsSent'
<1> SUFFICES ASSUME NEW r \in JobId', rows'[r].wait # NoWait,
                    NEW i \in 1..NAlt, i <= rows'[r].wait.idx
             PROVE  AltSent(i)'
  BY DEF WaitsSent, UpTo, AltSent, Token
<1>1. AltSent(i) => AltSent(i)'
  BY AltSentStays
<1>2. ASSUME r \in JobId
      PROVE  AltSent(i)'
  <2>1. CASE SameRung(r)
    BY <1>1, <1>2, <2>1 DEF SameRung, ArmedInv, WaitsSent, UpTo
  <2>2. CASE Rearm /\ rows'[r].wait.idx = run.at
    <3>1. run.kind = "alternate" /\ run.at \in Nat /\ pc = "rearm"
      BY <2>2 DEF Rearm, Types, TypeOK, PlacesOK, Run
    <3> QED BY <1>1, <2>2, <3>1 DEF ArmedInv, RunSent
  <2>3. ASSUME NEW q \in Requester, RequeueWrite(q), rows'[r].wait = requeue[q].wait
        PROVE  AltSent(i)'
    <3>1. rows'[r].wait.idx = 0
      BY <2>3 DEF RequeueWrite, ArmedInv, RequeuesSent
    <3> QED BY <3>1
  <2> QED BY <1>2, <2>1, <2>2, <2>3, WaitStep
<1>3. ASSUME r \notin JobId
      PROVE  AltSent(i)'
  <2>1. CASE StartPark
    <3>1. r = Len(rows) + 1
      BY <1>3, <2>1, StartParkRow, AddedJob DEF Types
    <3>2. rows'[r].wait.idx = 0
      BY <2>1, <3>1, StartParkRow DEF Types
    <3> QED BY <3>2
  <2>2. CASE Park
    BY <1>3, <2>2, ParkRow, AddedJob DEF Types
  <2>3. CASE RowsKept
    BY <1>3, <2>3 DEF RowsKept
  <2> QED BY <2>1, <2>2, <2>3, RowsStep
<1> QED BY <1>2, <1>3

LEMMA RequeuesSentStep ==
  ASSUME Types, RequeuesSent, [Next]_vars
  PROVE  RequeuesSent'
<1> SUFFICES ASSUME NEW q \in Requester, requeue'[q] # None
             PROVE  requeue'[q].wait.idx = 0
  BY DEF RequeuesSent
<1>1. CASE requeue'[q] = requeue[q]
  BY <1>1 DEF RequeuesSent
<1>2. ASSUME NEW r, NEW revive, NEW auto, requeue'[q] = Requeue(r, revive, auto)
      PROVE  requeue'[q].wait.idx = 0
  BY <1>2 DEF Requeue
<1>3. CASE ManualRetry /\ q = "user"
  <2>1. PICK r, revive : requeue' = [requeue EXCEPT !["user"] = Requeue(r, revive, FALSE)]
    BY <1>3 DEF ManualRetry
  <2> QED BY <1>2, <1>3, <2>1 DEF Types, TypeOK
<1>4. CASE AutoRecover /\ q = "maintenance"
  BY <1>2, <1>4 DEF AutoRecover, Types, TypeOK
<1> QED BY <1>1, <1>3, <1>4, RequeueStep DEF Requester

LEMMA GuardsSentStep ==
  ASSUME TemplatesDiffer, Types, ArmedInv, [Next]_vars
  PROVE  GuardsSent'
<1> SUFFICES ASSUME NEW r \in JobId', NEW i \in 1..NAlt, rows'[r].guardTok # 0,
                    rows'[r].guard = AltTpl[i]
             PROVE  AltSent(i)'
  BY DEF GuardsSent, AltSent, Token
<1>1. CASE r \in JobId
  <2>1. CASE SameGuard(r)
    BY <1>1, <2>1, AltSentStays DEF SameGuard, ArmedInv, GuardsSent
  <2>2. CASE WriteGuard /\ rows'[r].guard = Tpl
    <3>1. pc = "guard" /\ run.at \in Nat
      BY <2>2 DEF WriteGuard, Types, TypeOK, Run
    <3>2. run.kind = "alternate"
      <4> SUFFICES ASSUME run.kind = "cadence" PROVE FALSE
        BY DEF Types, TypeOK, Run
      <4>1. run.at \in 1..NCad
        BY <3>1 DEF Types, TypeOK, PlacesOK, Run
      <4>2. AltTpl[i] = CadTpl[run.at]
        BY <2>2 DEF Tpl
      <4> QED BY <4>1, <4>2 DEF TemplatesDiffer
    <3>3. run.at = i
      BY <2>2, <3>2 DEF Tpl, TemplatesDiffer, Types, PlacesOK
    <3> QED BY <3>1, <3>2, <3>3, AltSentStays DEF ArmedInv, RunSent
  <2> QED BY <1>1, <2>1, <2>2, GuardStep
<1>2. CASE r \notin JobId
  <2>1. CASE StartPark \/ Park
    BY <1>2, <2>1, StartParkRow, ParkRow, AddedJob DEF Added, Types
  <2>2. CASE RowsKept
    BY <1>2, <2>2 DEF RowsKept
  <2> QED BY <2>1, <2>2, RowsStep
<1> QED BY <1>1, <1>2

LEMMA RunSentStep ==
  ASSUME Types, ArmedInv, [Next]_vars
  PROVE  RunSent'
<1> SUFFICES ASSUME run'.kind = "alternate", NEW i \in 1..NAlt,
                    i < run'.at \/ (i = run'.at /\ pc' \in {"guard", "rearm"})
             PROVE  AltSent(i)'
  BY DEF RunSent, AltSent, Token
<1>1. AltSent(i) => AltSent(i)'
  BY AltSentStays
<1>2. CASE UNCHANGED <<pc, cur, run>>
  BY <1>1, <1>2 DEF ArmedInv, RunSent
<1>3. ~ReleaseRow /\ ~(ResumeDelay /\ ~Replied(cur))
  BY DEF ReleaseRow, NoRun, ResumeDelay
<1>4. CASE ResumeWait
  <2>1. /\ pc' = "check" /\ run'.at = rows[cur].wait.idx + 1
        /\ cur \in JobId /\ rows[cur].wait \in Wait
    BY <1>4, WaitDecides
  <2>2. i <= rows[cur].wait.idx
    BY <2>1 DEF Wait
  <2> QED BY <1>1, <1>4, <2>1, <2>2 DEF ResumeWait, ArmedInv, WaitsSent, UpTo
<1>5. CASE SendEmail
  <2>1. run'.kind = run.kind /\ run'.at = run.at
    BY <1>5 DEF SendEmail, Types, TypeOK, Run
  <2>2. CASE i < run.at
    BY <1>1, <2>1, <2>2 DEF ArmedInv, RunSent
  <2>3. CASE i = run.at
    <3>1. Len(mail) + 1 \in Token' /\ mail'[Len(mail) + 1].kind = "alternate"
          /\ mail'[Len(mail) + 1].n = i
      BY <1>5, <2>1, <2>3, MailSent
    <3> QED BY <3>1 DEF AltSent
  <2> QED BY <2>1, <2>2, <2>3
<1>6. CASE /\ UNCHANGED run
           /\ \/ \E r \in JobId : Claim(r)
              \/ Poll \/ UnsetWait \/ Park \/ Step \/ Rearm
              \/ CheckEmail /\ ~Replied(cur) /\ ~Guarded
  <2>1. pc' \notin {"guard", "rearm"}
    BY <1>6 DEF Claim, Poll, UnsetWait, Park, Step, Rearm, CheckEmail
  <2> QED BY <1>1, <1>6, <2>1 DEF ArmedInv, RunSent
<1>7. CASE EmailBehind
  <2>1. PICK done \in Run :
          /\ AfterEmail(done) /\ done.kind = run.kind /\ done.at = run.at
          /\ pc \in {"check", "guard"}
          /\ (CheckEmail /\ Guarded) \/ WriteGuard
    BY <1>7 DEF EmailBehind
  <2>2. run.kind = "alternate" /\ run'.at = run.at
    BY <2>1, AfterEmailTypes
  <2>3. CASE i < run.at
    BY <1>1, <2>2, <2>3 DEF ArmedInv, RunSent
  <2>4. CASE i = run.at /\ pc = "guard"
    BY <1>1, <2>2, <2>4 DEF ArmedInv, RunSent
  <2>5. CASE i = run.at /\ pc = "check"
    <3>1. cur \in JobId /\ rows[cur].guardTok # 0 /\ rows[cur].guard = AltTpl[i]
      BY <2>1, <2>2, <2>5 DEF WriteGuard, Guarded, Tpl, Types, TypeOK, JobId
    <3> QED BY <1>1, <3>1 DEF ArmedInv, GuardsSent
  <2> QED BY <2>1, <2>2, <2>3, <2>4, <2>5
<1> QED BY <1>2, <1>3, <1>4, <1>5, <1>6, <1>7, RunStep

\* If no two alternates share a template, nor one with a cadence step, then a row
\* that waits on its n-th rung has n alternates behind it that were sent: no
\* deadline, guard, re-arming, re-queue or crash skips a rung.
THEOREM ArmedRowsHaveSent == TemplatesDiffer => (Spec => []ArmedMeansSent)
<1> SUFFICES ASSUME TemplatesDiffer PROVE Spec => []ArmedMeansSent
  OBVIOUS
<1>1. Init => ArmedInv
  BY DEF Init, ArmedInv, WaitsSent, RequeuesSent, GuardsSent, RunSent, NoRun, JobId, Requester
<1>2. Types /\ ArmedInv /\ [Next]_vars => ArmedInv'
  BY WaitsSentStep, RequeuesSentStep, GuardsSentStep, RunSentStep DEF ArmedInv
<1>3. Types /\ ArmedInv => ArmedMeansSent
  <2> SUFFICES ASSUME Types, ArmedInv, NEW r \in JobId, rows[r].wait # NoWait,
                      NEW i \in 1..rows[r].wait.idx
               PROVE  Sent("alternate", i) # {}
    BY DEF ArmedMeansSent
  <2>1. rows[r].wait \in Wait
    BY RowType DEF Row, Types, TypeOK, RowsOK
  <2>2. i \in 1..NAlt /\ i <= rows[r].wait.idx
    BY <2>1, FollowUpAssumption DEF Wait
  <2>3. AltSent(i)
    BY <2>2 DEF ArmedInv, WaitsSent, UpTo
  <2> QED BY <2>3 DEF AltSent, Sent
<1> QED BY <1>1, <1>2, <1>3, InitTypes, TypesStep, PTL DEF Spec
-----------------------------------------------------------------------------
(* Every alternate once.                                                   *)

Waiting(r, i) == rows[r].wait # NoWait /\ rows[r].wait.idx < i

\* Row r may still send alternate i as things stand: it is about to, it is being run
\* below that rung, or it waits below it.
Ticket(r, i) ==
  \/ /\ r = cur /\ run.kind = "alternate"
     /\ \/ pc \in {"check", "send"} /\ run.at <= i
        \/ pc \in {"guard", "rearm"} /\ run.at < i
  \/ /\ \/ r = cur /\ pc \in {"resume", "poll", "rescheduled"}
        \/ r # cur /\ Live(r)
     /\ Waiting(r, i)

\* Who lowers the rung of a waiting row, and who brings a row back to life.
LEMMA WaitingStep ==
  ASSUME Types, [Next]_vars, NEW r \in JobId, NEW i \in 1..NAlt, Waiting(r, i)'
  PROVE  \/ Waiting(r, i)
         \/ r = cur /\ Rearm /\ run.at < i
         \/ \E q \in Requester : RequeueWrite(q) /\ requeue[q].row = r
<1>1. rows'[r].wait # NoWait /\ rows'[r].wait.idx < i
  BY DEF Waiting
<1> QED BY <1>1, WaitStep DEF Waiting, SameRung

LEMMA LiveStep ==
  ASSUME Types, [Next]_vars, NEW r \in JobId, Live(r)'
  PROVE  \/ Live(r) \/ r = cur
         \/ \E q \in Requester : RequeueWrite(q) /\ requeue[q].row = r
<1>1. rows'[r].status \in {"pending", "processing"}
  BY DEF Live
<1>2. CASE rows'[r].status = rows[r].status
  BY <1>1, <1>2 DEF Live
<1>3. CASE rows'[r].status # rows[r].status
  BY <1>1, <1>3, StatusStep DEF Live, Pending, Claim, StaleReclaim, Revives
<1> QED BY <1>2, <1>3

\* How the row in hand is released.
LEMMA ReleaseStep ==
  ASSUME Types, [Next]_vars, pc # "idle", pc' = "idle"
  PROVE  \/ Crash
         \/ Rescheduled
         \/ rows'[cur].status \in Terminal
<1>1. cur \in JobId
  BY DEF Types, TypeOK, JobId
<1>2. ~(\/ StartCancel \/ StartPark \/ Compose \/ Reply \/ CancelOnReply \/ UserCancel
        \/ (\E t \in Token : Open(t)) \/ ManualRetry \/ AutoRecover \/ BlockRecovery
        \/ \E q \in Requester : RequeueWrite(q))
  BY DEF StartCancel, StartPark, Compose, Reply, CancelOnReply, UserCancel, Open, ManualRetry,
     AutoRecover, BlockRecovery, RequeueWrite, memory
<1>3. ~ \E r \in JobId : Deadline(r) \/ Claim(r) \/ StaleReclaim(r) \/ Rebind(r)
  BY DEF Deadline, Claim, StaleReclaim, Rebind, memory
<1>4. ~(ResumeWait \/ Poll \/ UnsetWait \/ Park \/ Step \/ SendEmail \/ Rearm \/ WriteGuard)
  <2>1. ~WriteGuard
    BY DEF WriteGuard, AfterEmail
  <2>2. ~ResumeWait
    BY DEF ResumeWait, NextOfWait
  <2> QED BY <2>1, <2>2 DEF Poll, UnsetWait, Park, Step, SendEmail, Rearm
<1>5. ResumeDelay \/ CheckEmail => rows'[cur].status = "cancelled"
  <2> SUFFICES ASSUME ResumeDelay \/ CheckEmail PROVE rows'[cur].status = "cancelled"
    OBVIOUS
  <2>1. CancelRow
    BY DEF ResumeDelay, CheckEmail, AfterEmail
  <2> QED BY <1>1, <2>1, CancelRowRow DEF Restatus, Types
<1>6. SendFails \/ Done => rows'[cur].status \in {"failed", "done"}
  BY SendFailsRow, DoneRow DEF Restatus, Types
<1>7. ~ UNCHANGED vars
  BY DEF vars, memory
<1> QED BY <1>2, <1>3, <1>4, <1>5, <1>6, <1>7 DEF Next, Worker, Terminal

\* Row r is re-queued by this step.
Requeues(r) == \E q \in Requester : RequeueWrite(q) /\ requeue[q].row = r

\* A ticket is not made by running on: only a start, a re-queue and a crash make one.
LEMMA HeldTicketStep ==
  ASSUME Types, [Next]_vars, NEW r \in JobId, NEW i \in 1..NAlt, Ticket(r, i)', ~Requeues(r),
         r = cur', r = cur
  PROVE  Ticket(r, i) /\ ~(SendEmail /\ run.kind = "alternate" /\ run.at = i)
<1>1. pc # "idle" /\ pc' # "idle" /\ ~ReleaseRow
  BY TypesStep DEF Types, TypeOK, JobId, ReleaseRow
<1>2. NAlt \in Nat /\ run.at \in Nat
  BY FollowUpAssumption DEF Types, TypeOK, Run
<1>3. Waiting(r, i)' => Waiting(r, i) \/ (Rearm /\ run.at < i)
  BY WaitingStep DEF Requeues
<1>4. CASE UNCHANGED <<pc, cur, run>>
  <2>1. ~Rearm /\ ~SendEmail
    BY <1>4 DEF Rearm, SendEmail
  <2> QED BY <1>3, <1>4, <2>1 DEF Ticket
<1>5. CASE ResumeWait
  <2>1. /\ pc = "resume" /\ rows[r].wait \in Wait /\ rows[r].wait # NoWait
        /\ \/ pc' \in {"poll", "unset"} /\ run'.kind = "cadence"
           \/ /\ pc' = "check" /\ run'.kind = "alternate" /\ run'.at = rows[r].wait.idx + 1
    BY <1>5, WaitDecides DEF ResumeWait
  <2>2. rows[r].wait.idx \in Nat
    BY <2>1 DEF Wait
  <2>3. ~Rearm /\ ~SendEmail
    BY <2>1 DEF Rearm, SendEmail
  <2> QED BY <1>3, <2>1, <2>2, <2>3 DEF Ticket, Waiting
<1>6. CASE SendEmail
  <2>1. pc = "send" /\ pc' = "guard" /\ run'.kind = run.kind /\ run'.at = run.at
    BY <1>6 DEF SendEmail, Types, TypeOK, Run
  <2> QED BY <1>2, <2>1 DEF Ticket
<1>7. CASE /\ UNCHANGED run
           /\ \/ \E o \in JobId : Claim(o)
              \/ Poll \/ UnsetWait \/ Park \/ Step \/ Rearm
              \/ CheckEmail /\ ~Replied(cur) /\ ~Guarded
  <2>1. ~SendEmail /\ ~ \E o \in JobId : Claim(o)
    BY <1>1, <1>7 DEF SendEmail, Claim, Poll, UnsetWait, Park, Step, Rearm, CheckEmail
  <2>2. CASE Poll
    <3>1. pc = "poll" /\ pc' = "rescheduled" /\ ~Rearm
      BY <2>2 DEF Poll, Rearm
    <3> QED BY <1>3, <2>1, <3>1 DEF Ticket
  <2>3. CASE UnsetWait \/ Park \/ Step
    <3>1. run.kind = "cadence" /\ pc' \in {"step", "done", "check"}
      BY <2>3 DEF UnsetWait, Park, Step, Types, PlacesOK
    <3> QED BY <1>7, <3>1 DEF Ticket
  <2>4. CASE Rearm
    <3>1. pc = "rearm" /\ pc' = "rescheduled" /\ run.kind = "alternate" /\ cur \in JobId
      BY <2>4 DEF Rearm, Types, PlacesOK
    <3>2. rows'[r].wait.idx = run.at
      BY <2>4, RearmRow DEF Types
    <3> QED BY <2>1, <3>1, <3>2 DEF Ticket, Waiting
  <2>5. CASE CheckEmail /\ ~Replied(cur) /\ ~Guarded
    <3>1. pc = "check" /\ pc' = "send"
      BY <2>5 DEF CheckEmail
    <3> QED BY <1>7, <2>1, <3>1 DEF Ticket
  <2> QED BY <1>7, <2>1, <2>2, <2>3, <2>4, <2>5
<1>8. CASE ResumeDelay /\ ~Replied(cur)
  BY <1>8 DEF ResumeDelay, Ticket
<1>9. CASE EmailBehind
  <2>1. PICK done \in Run :
          /\ AfterEmail(done) /\ done.kind = run.kind /\ done.at = run.at
          /\ pc \in {"check", "guard"}
    BY <1>9 DEF EmailBehind
  <2>2. /\ pc' \in {"step", "rearm", "done"} /\ run'.kind = run.kind
        /\ run.kind = "alternate" => run'.at = run.at
    BY <2>1, AfterEmailTypes
  <2>3. ~SendEmail
    BY <2>1 DEF SendEmail
  <2>4. run.kind = "alternate" /\ pc' = "rearm" /\ run.at < i
    BY <2>2 DEF Ticket
  <2> QED BY <1>2, <2>1, <2>3, <2>4 DEF Ticket
<1> QED BY <1>1, <1>4, <1>5, <1>6, <1>7, <1>8, <1>9, RunStep

LEMMA TicketStep ==
  ASSUME Types, [Next]_vars, NEW r \in JobId', NEW i \in 1..NAlt, Ticket(r, i)'
  PROVE  \/ /\ r \in JobId /\ Ticket(r, i)
            /\ ~(SendEmail /\ run.kind = "alternate" /\ r = cur /\ run.at = i)
         \/ StartPark /\ r = Len(rows) + 1
         \/ Crash /\ r = cur
         \/ Requeues(r)
<1>1. r # cur' => Live(r)' /\ Waiting(r, i)'
  BY DEF Ticket
<1>2. CASE r \notin JobId
  <2>1. CASE StartPark
    BY <1>2, <2>1, StartParkRow, AddedJob DEF Types
  <2>2. CASE Park
    <3>1. rows'[r].wait = NoWait
      BY <1>2, <2>2, ParkRow, AddedJob DEF Types
    <3>2. cur' \in JobId
      BY <2>2 DEF Park, Types, TypeOK, JobId
    <3> QED BY <1>1, <1>2, <3>1, <3>2 DEF Waiting
  <2>3. CASE RowsKept
    BY <1>2, <2>3 DEF RowsKept
  <2> QED BY <2>1, <2>2, <2>3, RowsStep
<1>3. CASE r \in JobId /\ r # cur
  <2>1. CASE r = cur'
    <3>1. pc' # "idle"
      BY <1>3, <2>1, TypesStep DEF Types, TypeOK, JobId
    <3>2. Claim(r) /\ cur' = r
      BY <1>3, <2>1, <3>1, CurStep
    <3>3. pc = "idle" /\ pc' = "resume" /\ Live(r)
      BY <3>2 DEF Claim, Live, Pending
    <3>4. Waiting(r, i) \/ Requeues(r)
      BY <1>3, <2>1, <3>3, WaitingStep DEF Ticket, Requeues
    <3>5. ~SendEmail
      BY <3>3 DEF SendEmail
    <3> QED BY <1>3, <3>3, <3>4, <3>5 DEF Ticket
  <2>2. CASE r # cur'
    BY <1>1, <1>3, <2>2, LiveStep, WaitingStep DEF Ticket, Requeues
  <2> QED BY <2>1, <2>2
<1>4. CASE r \in JobId /\ r = cur
  <2>1. pc # "idle"
    BY <1>4 DEF Types, TypeOK, JobId
  <2>2. CASE r = cur'
    BY <1>4, <2>2, HeldTicketStep
  <2>3. CASE r # cur'
    <3>1. pc' = "idle"
      BY <1>4, <2>1, <2>3, CurStep DEF Claim
    <3>2. rows'[r].status \notin Terminal
      BY <1>1, <2>3 DEF Live, Terminal
    <3>3. CASE Rescheduled
      <4>1. pc = "rescheduled" /\ ~SendEmail /\ ~Rearm
        BY <3>3 DEF Rescheduled, SendEmail, Rearm
      <4> QED BY <1>1, <1>4, <2>3, <4>1, WaitingStep DEF Ticket, Requeues
    <3> QED BY <1>4, <2>1, <3>1, <3>2, <3>3, ReleaseStep
  <2> QED BY <2>2, <2>3
<1> QED BY <1>2, <1>3, <1>4

\* No row and no mail is of a sequence that was not started.
ErasOK ==
  /\ \A r \in JobId : rows[r].era <= starts
  /\ \A t \in Token : mail[t].era <= starts

LEMMA ErasStep ==
  ASSUME Types, ErasOK, [Next]_vars
  PROVE  ErasOK'
<1>1. starts \in Nat /\ starts' \in Nat /\ starts' >= starts
  <2>1. starts \in Nat
    BY DEF Types, TypeOK
  <2>2. starts' = starts \/ starts' = starts + 1
    BY TallyStep DEF StartPark
  <2> QED BY <2>1, <2>2
<1>2. \A r \in JobId : rows[r].era \in Nat
  BY RowType DEF Types, TypeOK, RowsOK, Row
<1>3. \A r \in JobId' : rows'[r].era <= starts'
  <2>1. CASE StartPark
    <3>1. starts' = starts + 1
      BY <2>1 DEF StartPark
    <3> QED BY <1>1, <1>2, <2>1, <3>1, StartParkRow, AddedJob DEF Added, Types, ErasOK
  <2>2. CASE Park
    <3>1. cur \in JobId
      BY <2>2 DEF Park, Types, TypeOK, JobId
    <3> QED BY <1>1, <1>2, <2>2, <3>1, ParkRow, AddedJob DEF Added, Types, ErasOK
  <2>3. CASE RowsKept
    BY <1>1, <1>2, <2>3 DEF RowsKept, ErasOK
  <2> QED BY <2>1, <2>2, <2>3, RowsStep
<1>4. \A t \in Token' : mail'[t].era <= starts'
  <2>1. \A t \in Token : mail[t].era \in Nat
    <3>1. \A t \in Token : mail[t] \in Mail
      BY ElementOfSeq DEF Types, TypeOK, Token
    <3> QED BY <3>1 DEF Mail
  <2>2. CASE Compose
    BY <1>1, <2>1, <2>2, ComposedMail DEF Types, ErasOK
  <2>3. CASE SendEmail
    BY <1>1, <1>2, <2>1, <2>3, MailSent DEF ErasOK
  <2>4. CASE UNCHANGED mail
    BY <1>1, <2>1, <2>4 DEF ErasOK, Token
  <2> QED BY <2>2, <2>3, <2>4, MailStep
<1> QED BY <1>3, <1>4 DEF ErasOK

\* The copies of alternate i that sequence e sent, and the rows that may add one.
Copies(e, i)  == {t \in Sent("alternate", i) : mail[t].era = e}
Tickets(e, i) == {r \in JobId : rows[r].era = e /\ Ticket(r, i)}

LEMMA BothFinite ==
  ASSUME Types, NEW e, NEW i
  PROVE  IsFiniteSet(Copies(e, i)) /\ IsFiniteSet(Tickets(e, i))
<1>1. IsFiniteSet(Token) /\ IsFiniteSet(JobId)
  BY FS_Interval, LenProperties DEF Types, TypeOK, Token, JobId
<1>2. Copies(e, i) \subseteq Token /\ Tickets(e, i) \subseteq JobId
  BY DEF Copies, Sent, Tickets
<1> QED BY <1>1, <1>2, FS_Subset

LEMMA CopiesStep ==
  ASSUME Types, [Next]_vars, NEW e \in Nat, NEW i \in 1..NAlt
  PROVE  IF SendEmail /\ run.kind = "alternate" /\ run.at = i /\ rows[cur].era = e
         THEN Copies(e, i)' = Copies(e, i) \cup {Len(mail) + 1} /\ Len(mail) + 1 \notin Copies(e, i)
         ELSE Copies(e, i)' = Copies(e, i)
<1>1. CASE Compose
  <2>1. [kind |-> "outreach", n |-> 0, era |-> starts] \in Mail
    BY DEF Mail, Types, TypeOK
  <2>2. /\ Token' = Token \cup {Len(mail) + 1} /\ \A t \in Token : mail'[t] = mail[t]
        /\ mail'[Len(mail) + 1].kind = "outreach"
    BY <1>1, <2>1, AppendProperties, LenProperties DEF Compose, Token, Types, TypeOK
  <2>3. ~SendEmail
    BY <1>1 DEF SendEmail, Compose, memory, Types, TypeOK
  <2> QED BY <2>2, <2>3 DEF Copies, Sent
<1>2. CASE SendEmail
  <2>1. /\ Token' = Token \cup {Len(mail) + 1} /\ Len(mail) + 1 \notin Token
        /\ \A t \in Token : mail'[t] = mail[t]
        /\ mail'[Len(mail) + 1] = [kind |-> run.kind, n |-> run.at, era |-> rows[cur].era]
    BY <1>2, MailSent
  <2> QED BY <1>2, <2>1 DEF Copies, Sent
<1>3. CASE UNCHANGED mail
  <2>1. ~SendEmail
    BY <1>3, MailSent
  <2> QED BY <1>3, <2>1 DEF Copies, Sent, Token
<1> QED BY <1>1, <1>2, <1>3, MailStep

LEMMA TicketsStep ==
  ASSUME Types, [Next]_vars, NEW e \in Nat, NEW i \in 1..NAlt
  PROVE  \A r \in Tickets(e, i)' :
           \/ /\ r \in Tickets(e, i)
              /\ ~(SendEmail /\ run.kind = "alternate" /\ r = cur /\ run.at = i)
           \/ StartPark /\ r = Len(rows) + 1
           \/ Crash /\ r = cur
           \/ Requeues(r) /\ rows[r].era = e
<1> SUFFICES ASSUME NEW r \in JobId', rows'[r].era = e, Ticket(r, i)'
             PROVE  \/ /\ r \in Tickets(e, i)
                       /\ ~(SendEmail /\ run.kind = "alternate" /\ r = cur /\ run.at = i)
                    \/ StartPark /\ r = Len(rows) + 1
                    \/ Crash /\ r = cur
                    \/ Requeues(r) /\ rows[r].era = e
  BY DEF Tickets
<1>1. r \in JobId => rows'[r].era = rows[r].era
  BY RowsStep, StartParkRow, ParkRow DEF Added, Types, RowsKept
<1>2. Requeues(r) => r \in JobId
  BY RequeueWriteRow DEF Requeues, Types
<1> QED BY <1>1, <1>2, TicketStep DEF Tickets

\* What sequence e may have cost by now in copies of alternate i: those it sent, those
\* its rows may still send, and those that a decided re-queue will make it send.
Budget     == 1 + disturbed["retry"] + disturbed["crash"] + overlaps
RecoverDue(e) ==
  IF requeue["maintenance"] # None /\ rows[requeue["maintenance"].row].era = e THEN 1 ELSE 0
RetryDue   == IF requeue["user"] # None THEN 1 ELSE 0
Bill(e, i) ==
  Cardinality(Copies(e, i)) + Cardinality(Tickets(e, i)) + RecoverDue(e) + RetryDue

BillsPaid == \A e \in 1..starts, i \in 1..NAlt : Bill(e, i) <= Budget

LEMMA BudgetStep ==
  ASSUME Types, [Next]_vars
  PROVE  /\ Budget \in Nat /\ Budget' \in Nat /\ Budget' >= Budget
         /\ Crash \/ ManualRetry \/ (AutoRecover /\ AtWork) => Budget' >= Budget + 1
<1>1. {"retry", "crash", "recover"} \subseteq Kind
  BY DEF Kind
<1>2. /\ disturbed \in [Kind -> Nat] /\ overlaps \in Nat
      /\ disturbed' \in [Kind -> Nat] /\ overlaps' \in Nat
  BY TypesStep DEF Types, TypeOK
<1>3. /\ disturbed'["retry"] >= disturbed["retry"] /\ disturbed'["crash"] >= disturbed["crash"]
      /\ overlaps' >= overlaps
  BY <1>1, TallyStep
<1>4. Crash => disturbed'["crash"] = disturbed["crash"] + 1
  BY DisturbStep DEF Crash, Types
<1>5. ManualRetry => disturbed'["retry"] = disturbed["retry"] + 1
  BY DisturbStep DEF ManualRetry, Types
<1>6. AutoRecover /\ AtWork => overlaps' = overlaps + 1
  BY DEF AutoRecover
<1> QED BY <1>1, <1>2, <1>3, <1>4, <1>5, <1>6 DEF Budget

\* A row that is re-queued by a retry was paid for.
LEMMA RetryPaid ==
  ASSUME Types, RequeuesCounted
  PROVE  RetryDue + 1 <= Budget /\ RetryDue \in Nat
<1>1. disturbed["retry"] \in Nat /\ disturbed["crash"] \in Nat /\ overlaps \in Nat
  BY DEF Types, TypeOK, Kind
<1>2. RetryDue \in {0, 1} /\ (RetryDue = 1 => disturbed["retry"] > 0)
  BY DEF RetryDue, RequeuesCounted
<1> QED BY <1>1, <1>2 DEF Budget

LEMMA EraKept ==
  ASSUME Types, [Next]_vars, NEW r \in JobId
  PROVE  rows'[r].era = rows[r].era
BY RowsStep, StartParkRow, ParkRow DEF Added, Types, RowsKept

\* Without a re-queue or a crash, a copy more costs a ticket.
LEMMA NoneMinted ==
  ASSUME Types, ErasOK, [Next]_vars, ~Crash, \A q \in Requester : ~RequeueWrite(q),
         NEW e \in 1..starts, NEW i \in 1..NAlt
  PROVE  /\ Cardinality(Copies(e, i)') \in Nat /\ Cardinality(Tickets(e, i)') \in Nat
         /\ Cardinality(Copies(e, i)') + Cardinality(Tickets(e, i)')
              <= Cardinality(Copies(e, i)) + Cardinality(Tickets(e, i))
<1> DEFINE sends == SendEmail /\ run.kind = "alternate" /\ run.at = i /\ rows[cur].era = e
<1>1. e \in Nat /\ starts \in Nat
  BY DEF Types, TypeOK
<1>2. ASSUME StartPark
      PROVE  Len(rows) + 1 \notin Tickets(e, i)'
  BY <1>1, <1>2, StartParkRow DEF Types, Tickets
<1>3. \A r \in Tickets(e, i)' : r \in Tickets(e, i) /\ ~(sends /\ r = cur)
  BY <1>1, <1>2, TicketsStep DEF Requeues
<1>4. /\ Cardinality(Copies(e, i)) \in Nat /\ Cardinality(Tickets(e, i)) \in Nat
      /\ IsFiniteSet(Copies(e, i)) /\ IsFiniteSet(Tickets(e, i))
  BY BothFinite, FS_CardinalityType
<1>5. CASE ~sends
  <2>1. Copies(e, i)' = Copies(e, i)
    BY <1>1, <1>5, CopiesStep
  <2>2. Cardinality(Tickets(e, i)') \in Nat
        /\ Cardinality(Tickets(e, i)') <= Cardinality(Tickets(e, i))
    BY <1>3, <1>4, FS_Subset, FS_CardinalityType
  <2> QED BY <1>4, <2>1, <2>2
<1>6. CASE sends
  <2>1. /\ Copies(e, i)' = Copies(e, i) \cup {Len(mail) + 1}
        /\ Len(mail) + 1 \notin Copies(e, i)
    BY <1>1, <1>6, CopiesStep
  <2>2. Cardinality(Copies(e, i)') = Cardinality(Copies(e, i)) + 1
    BY <1>4, <2>1, FS_AddElement
  <2>3. cur \in Tickets(e, i)
    <3>1. cur \in JobId /\ run.at \in Nat
      BY <1>6, MailSent DEF Types, TypeOK, Run
    <3> QED BY <1>6, <3>1 DEF SendEmail, Tickets, Ticket
  <2>4. /\ Cardinality(Tickets(e, i) \ {cur}) = Cardinality(Tickets(e, i)) - 1
        /\ IsFiniteSet(Tickets(e, i) \ {cur}) /\ Cardinality(Tickets(e, i) \ {cur}) \in Nat
    BY <1>4, <2>3, FS_RemoveElement, FS_CardinalityType
  <2>5. Tickets(e, i)' \subseteq Tickets(e, i) \ {cur}
    BY <1>3, <1>6
  <2>6. /\ Cardinality(Tickets(e, i)') \in Nat
        /\ Cardinality(Tickets(e, i)') <= Cardinality(Tickets(e, i) \ {cur})
    BY <2>4, <2>5, FS_Subset, FS_CardinalityType
  <2> QED BY <1>4, <2>2, <2>4, <2>6
<1> QED BY <1>5, <1>6

\* A set with at most one element more.
LEMMA OneMore ==
  ASSUME NEW S, IsFiniteSet(S), NEW x, NEW T, T \subseteq S \cup {x}
  PROVE  Cardinality(T) \in Nat /\ Cardinality(T) <= Cardinality(S) + 1
<1> DEFINE U == S \cup {x}
<1>1. IsFiniteSet(U) /\ Cardinality(S) \in Nat
  BY FS_AddElement, FS_CardinalityType
<1>2. Cardinality(U) <= Cardinality(S) + 1 /\ Cardinality(U) \in Nat
  <2>1. Cardinality(U) = IF x \in S THEN Cardinality(S) ELSE Cardinality(S) + 1
    BY FS_AddElement
  <2> QED BY <1>1, <2>1
<1>3. T \in SUBSET U
  OBVIOUS
<1> HIDE DEF U
<1>4. IsFiniteSet(T) /\ Cardinality(T) <= Cardinality(U)
  BY <1>1, <1>3, FS_Subset
<1>5. Cardinality(T) \in Nat
  BY <1>4, FS_CardinalityType
<1> QED BY <1>1, <1>2, <1>4, <1>5

\* Re-queues, starts, sends and crashes are different steps.
LEMMA StepsApart ==
  ASSUME Types
  PROVE  /\ Crash => ~StartPark /\ ~SendEmail /\ \A q \in Requester : ~RequeueWrite(q)
         /\ \A q \in Requester : RequeueWrite(q) => ~StartPark /\ ~SendEmail
<1>1. ASSUME Crash PROVE disturbed' # disturbed /\ UNCHANGED <<mail, starts>>
  <2>1. disturbed'["crash"] = disturbed["crash"] + 1 /\ disturbed["crash"] \in Nat
    BY <1>1, DisturbStep DEF Crash, Types, TypeOK, Kind
  <2> QED BY <1>1, <2>1 DEF Crash, durable, tally
<1>2. SendEmail => mail' # mail
  BY MailSent
<1>3. StartPark => starts' # starts
  BY DEF StartPark, Types, TypeOK
<1>4. \A q \in Requester : RequeueWrite(q) => UNCHANGED <<mail, starts, disturbed>>
  BY DEF RequeueWrite, history, tally
<1> QED BY <1>1, <1>2, <1>3, <1>4

\* A re-queue written turns what was due into a ticket.
LEMMA RequeuedBill ==
  ASSUME Types, RequeuesCounted, [Next]_vars, NEW q \in Requester, RequeueWrite(q),
         NEW e \in 1..starts, NEW i \in 1..NAlt
  PROVE  Bill(e, i)' \in Nat /\ Bill(e, i)' <= Bill(e, i)
<1> DEFINE old == Tickets(e, i)
           new == Tickets(e, i)'
           r   == requeue[q].row
<1>1. e \in Nat
  BY DEF Types, TypeOK
<1>2. /\ requeue[q] # None /\ requeue'[q] = None /\ r \in JobId
      /\ \A p \in Requester \ {q} : requeue'[p] = requeue[p] /\ ~RequeueWrite(p)
  <2>1. requeue' = [requeue EXCEPT ![q] = None] /\ requeue[q] # None
    BY DEF RequeueWrite
  <2>2. ASSUME NEW p \in Requester \ {q}, RequeueWrite(p) PROVE FALSE
    BY <2>1, <2>2 DEF RequeueWrite, Types, TypeOK
  <2> QED BY <2>1, <2>2, RequeueWriteRow DEF Types, TypeOK, Todo
<1>3. ~Crash /\ ~StartPark /\ ~SendEmail
  BY StepsApart
<1>4. Copies(e, i)' = Copies(e, i)
  BY <1>1, <1>3, CopiesStep
<1>5. new \subseteq old \cup {r} /\ (rows[r].era # e => new \subseteq old)
  BY <1>1, <1>2, <1>3, TicketsStep DEF Requeues
<1>6. IsFiniteSet(old) /\ Cardinality(old) \in Nat /\ Cardinality(Copies(e, i)) \in Nat
  BY BothFinite, FS_CardinalityType
<1> HIDE DEF old, new, r
<1>7. /\ Cardinality(new) \in Nat /\ Cardinality(new) <= Cardinality(old) + 1
      /\ rows[r].era # e => Cardinality(new) <= Cardinality(old)
  <2>1. Cardinality(new) \in Nat /\ Cardinality(new) <= Cardinality(old) + 1
    BY <1>5, <1>6, OneMore
  <2>2. rows[r].era # e => Cardinality(new) <= Cardinality(old)
    BY <1>5, <1>6, FS_Subset
  <2> QED BY <2>1, <2>2
<1> USE DEF r
<1>8. Bill(e, i)' = Cardinality(Copies(e, i)) + Cardinality(new) + RecoverDue(e)' + RetryDue'
  BY <1>4 DEF Bill, new
<1>9. CASE q = "maintenance"
  <2>1. RecoverDue(e)' = 0 /\ RetryDue' = RetryDue
    BY <1>2, <1>9 DEF RecoverDue, RetryDue, Requester
  <2>2. RecoverDue(e) = IF rows[r].era = e THEN 1 ELSE 0
    BY <1>2, <1>9 DEF RecoverDue
  <2> HIDE DEF r
  <2>3. RetryDue \in Nat
    BY DEF RetryDue
  <2> QED BY <1>6, <1>7, <1>8, <2>1, <2>2, <2>3 DEF Bill, old
<1>10. CASE q = "user"
  <2>1. RetryDue' = 0 /\ RetryDue = 1
    BY <1>2, <1>10 DEF RetryDue
  <2>2. requeue'["maintenance"] = requeue["maintenance"]
    BY <1>2, <1>10 DEF Requester
  <2>3. requeue["maintenance"] # None => requeue["maintenance"].row \in JobId
    BY DEF Types, TypeOK, Todo, Requester
  <2>4. RecoverDue(e)' = RecoverDue(e) /\ RecoverDue(e) \in Nat
    BY <2>2, <2>3, EraKept DEF RecoverDue
  <2> QED BY <1>6, <1>7, <1>8, <2>1, <2>4 DEF Bill, old
<1> QED BY <1>9, <1>10 DEF Requester

\* A crash gives the row in hand one ticket more, and forgets what was due.
LEMMA CrashBill ==
  ASSUME Types, [Next]_vars, Crash, NEW e \in 1..starts, NEW i \in 1..NAlt
  PROVE  Bill(e, i)' \in Nat /\ Bill(e, i)' <= Bill(e, i) + 1
<1> DEFINE old == Tickets(e, i)
           new == Tickets(e, i)'
<1>1. e \in Nat
  BY DEF Types, TypeOK
<1>2. ~StartPark /\ ~SendEmail /\ \A q \in Requester : ~RequeueWrite(q)
  BY StepsApart
<1>3. Copies(e, i)' = Copies(e, i)
  BY <1>1, <1>2, CopiesStep
<1>4. new \subseteq old \cup {cur}
  BY <1>1, <1>2, TicketsStep DEF Requeues
<1>5. IsFiniteSet(old) /\ Cardinality(old) \in Nat /\ Cardinality(Copies(e, i)) \in Nat
  BY BothFinite, FS_CardinalityType
<1>6. RecoverDue(e)' = 0 /\ RetryDue' = 0 /\ RecoverDue(e) \in Nat /\ RetryDue \in Nat
  BY DEF Crash, RecoverDue, RetryDue, Requester
<1> HIDE DEF old, new
<1>7. Cardinality(new) \in Nat /\ Cardinality(new) <= Cardinality(old) + 1
  BY <1>4, <1>5, OneMore
<1>8. Bill(e, i)' = Cardinality(Copies(e, i)) + Cardinality(new) + RecoverDue(e)' + RetryDue'
  BY <1>3 DEF Bill, new
<1> QED BY <1>5, <1>6, <1>7, <1>8 DEF Bill, old

\* A recovery decided while no row is run finds no ticket and no copy of its sequence.
LEMMA QuietRecovery ==
  ASSUME Types, AutoRecover, ~AtWork, NEW i \in 1..NAlt
  PROVE  LET e == rows[Recent].era
         IN  Copies(e, i) = {} /\ Tickets(e, i) = {}
<1> DEFINE e == rows[Recent].era
<1>1. Recent \in JobId
  BY RecentRow DEF AutoRecover, Unblocked, Types
<1>2. e \in Nat
  BY <1>1, RowType DEF Types, TypeOK, RowsOK, Row
<1>3. ~AlternateLogged(Recent)
  BY DEF AutoRecover, AlternatesMissed
<1>4. Copies(e, i) = {}
  BY <1>2, <1>3 DEF AlternateLogged, Copies, Sent
<1>5. \A r \in JobId : ~Live(r) /\ r # cur
  BY DEF AutoRecover, AtWork, NonePending, Pending, Live, Types, TypeOK, JobId
<1>6. Tickets(e, i) = {}
  BY <1>5 DEF Tickets, Ticket
<1> QED BY <1>4, <1>6

\* Without a re-queue or a crash: what falls due was paid for, or has no ticket yet.
LEMMA PlainBill ==
  ASSUME Types, RequeuesCounted, ErasOK, BillsPaid, [Next]_vars, ~Crash,
         \A q \in Requester : ~RequeueWrite(q), NEW e \in 1..starts, NEW i \in 1..NAlt
  PROVE  Bill(e, i)' <= Budget'
<1> DEFINE sum == Cardinality(Copies(e, i)) + Cardinality(Tickets(e, i))
           new == Cardinality(Copies(e, i)') + Cardinality(Tickets(e, i)')
<1>1. Bill(e, i) <= Budget /\ Bill(e, i) = sum + RecoverDue(e) + RetryDue
  BY DEF BillsPaid, Bill
<1>2. Bill(e, i)' = new + RecoverDue(e)' + RetryDue'
  BY DEF Bill
<1>3. sum \in Nat /\ RecoverDue(e) \in {0, 1} /\ RetryDue \in {0, 1}
  BY BothFinite, FS_CardinalityType DEF RecoverDue, RetryDue
<1>4. RecoverDue(e)' \in {0, 1} /\ RetryDue' \in {0, 1}
  BY DEF RecoverDue, RetryDue
<1>5. /\ Budget \in Nat /\ Budget' \in Nat /\ Budget' >= Budget
      /\ ManualRetry \/ (AutoRecover /\ AtWork) => Budget' >= Budget + 1
  BY BudgetStep
<1>6. new \in Nat /\ new <= sum
  BY <1>3, NoneMinted
<1>7. requeue'["maintenance"] = requeue["maintenance"] => RecoverDue(e)' = RecoverDue(e)
  <2>1. requeue["maintenance"] # None => requeue["maintenance"].row \in JobId
    BY DEF Types, TypeOK, Todo, Requester
  <2> QED BY <2>1, EraKept DEF RecoverDue
<1> HIDE DEF sum, new
<1>8. CASE UNCHANGED requeue
  <2>1. RetryDue' = RetryDue /\ RecoverDue(e)' = RecoverDue(e)
    BY <1>7, <1>8 DEF RetryDue
  <2> QED BY <1>1, <1>2, <1>3, <1>5, <1>6, <2>1
<1>9. CASE ManualRetry /\ requeue'["maintenance"] = requeue["maintenance"]
  <2>1. RetryDue = 0
    BY <1>9 DEF ManualRetry, RetryDue
  <2> QED BY <1>1, <1>2, <1>3, <1>4, <1>5, <1>6, <1>7, <1>9, <2>1
<1>10. CASE AutoRecover /\ requeue'["user"] = requeue["user"]
  <2>1. RecoverDue(e) = 0 /\ RetryDue' = RetryDue
    BY <1>10 DEF AutoRecover, RecoverDue, RetryDue
  <2>2. CASE AtWork
    BY <1>1, <1>2, <1>3, <1>4, <1>5, <1>6, <1>10, <2>1, <2>2
  <2>3. CASE ~AtWork /\ rows[Recent].era = e
    <3>1. sum = 0
      BY <1>10, <2>3, QuietRecovery, FS_EmptySet DEF sum
    <3>2. RetryDue + 1 <= Budget
      BY RetryPaid
    <3> QED BY <1>1, <1>2, <1>3, <1>4, <1>5, <1>6, <2>1, <3>1, <3>2
  <2>4. CASE rows[Recent].era # e
    <3>1. /\ requeue'["maintenance"].row = Recent /\ rows'[Recent].era = rows[Recent].era
      BY <1>10 DEF AutoRecover, Requeue, Types, TypeOK, durable, Requester
    <3>2. RecoverDue(e)' = 0
      BY <2>4, <3>1 DEF RecoverDue
    <3> QED BY <1>1, <1>2, <1>3, <1>5, <1>6, <2>1, <3>2
  <2> QED BY <2>2, <2>3, <2>4
<1> QED BY <1>8, <1>9, <1>10, RequeueStep

\* A sequence that starts has sent nothing and has one ticket.
LEMMA StartBill ==
  ASSUME Types, RequeuesCounted, ErasOK, [Next]_vars, StartPark, NEW i \in 1..NAlt,
         NEW e, e = starts + 1
  PROVE  Bill(e, i)' <= Budget'
<1> DEFINE new == Tickets(e, i)'
<1>1. starts \in Nat
  BY DEF Types, TypeOK
<1>2. e \in Nat /\ e > starts
  BY <1>1
<1>3. ~Crash /\ ~SendEmail /\ \A q \in Requester : ~RequeueWrite(q)
  <2>1. ~SendEmail
    BY MailSent DEF StartPark, Types, TypeOK
  <2> QED BY <2>1, StepsApart
<1>4. UNCHANGED requeue
  BY DEF StartPark
<1>5. \A r \in JobId : rows[r].era # e
  <2>1. \A r \in JobId : rows[r].era \in Nat
    BY RowType DEF Types, TypeOK, RowsOK, Row
  <2> QED BY <1>1, <1>2, <2>1 DEF ErasOK
<1>6. Copies(e, i)' = {}
  <2>1. Copies(e, i)' = Copies(e, i)
    BY <1>2, <1>3, CopiesStep
  <2>2. \A t \in Token : mail[t].era \in Nat
    <3>1. \A t \in Token : mail[t] \in Mail
      BY ElementOfSeq DEF Types, TypeOK, Token
    <3> QED BY <3>1 DEF Mail
  <2>3. Copies(e, i) = {}
    BY <1>1, <1>2, <2>2 DEF ErasOK, Copies, Sent
  <2> QED BY <2>1, <2>3
<1>7. new \subseteq {Len(rows) + 1}
  <2>1. Tickets(e, i) = {}
    BY <1>5 DEF Tickets
  <2> QED BY <1>2, <1>3, <2>1, TicketsStep DEF Requeues
<1>8. RecoverDue(e)' = 0 /\ RetryDue' = RetryDue
  <2>1. requeue["maintenance"] # None => requeue["maintenance"].row \in JobId
    BY DEF Types, TypeOK, Todo, Requester
  <2> QED BY <1>4, <1>5, <2>1, EraKept DEF RecoverDue, RetryDue
<1>9. Bill(e, i)' = Cardinality(Copies(e, i)') + Cardinality(new) + RecoverDue(e)' + RetryDue'
  BY DEF Bill
<1> HIDE DEF new
<1>10. Cardinality(new) \in Nat /\ Cardinality(new) <= 1
  <2>1. new \subseteq {} \cup {Len(rows) + 1}
    BY <1>7
  <2>2. Cardinality(new) \in Nat /\ Cardinality(new) <= Cardinality({}) + 1
    BY <2>1, OneMore, FS_EmptySet
  <2>3. Cardinality({}) = 0
    BY FS_EmptySet
  <2> QED BY <2>2, <2>3
<1>11. RetryDue + 1 <= Budget /\ RetryDue \in Nat /\ Budget \in Nat /\ Budget' \in Nat
       /\ Budget' >= Budget
  BY RetryPaid, BudgetStep
<1> QED BY <1>6, <1>8, <1>9, <1>10, <1>11, FS_EmptySet

LEMMA BillsStep ==
  ASSUME Types, RequeuesCounted, ErasOK, BillsPaid, [Next]_vars
  PROVE  BillsPaid'
<1> SUFFICES ASSUME NEW e \in 1..starts', NEW i \in 1..NAlt
             PROVE  Bill(e, i)' <= Budget'
  BY DEF BillsPaid
<1>1. starts \in Nat
  BY DEF Types, TypeOK
<1>2. CASE e \in 1..starts
  <2>1. Bill(e, i) <= Budget /\ Bill(e, i) \in Nat
    BY <1>2, BothFinite, FS_CardinalityType DEF BillsPaid, Bill, RecoverDue, RetryDue
  <2>2. Budget \in Nat /\ Budget' \in Nat /\ Budget' >= Budget /\ (Crash => Budget' >= Budget + 1)
    BY BudgetStep
  <2>3. CASE Crash
    BY <1>2, <2>1, <2>2, <2>3, CrashBill
  <2>4. CASE \E q \in Requester : RequeueWrite(q)
    BY <1>2, <2>1, <2>2, <2>4, RequeuedBill
  <2>5. CASE ~Crash /\ \A q \in Requester : ~RequeueWrite(q)
    BY <1>2, <2>5, PlainBill
  <2> QED BY <2>3, <2>4, <2>5
<1>3. CASE e \notin 1..starts
  <2>1. StartPark /\ e = starts + 1
    <3>1. StartPark
      BY <1>3, TallyStep
    <3> QED BY <1>1, <1>3, <3>1 DEF StartPark
  <2> QED BY <2>1, StartBill
<1> QED BY <1>2, <1>3

\* A sequence never sends an alternate email twice, unless a user retries it, the process
\* dies with a row in hand, or a recovery is decided while a row is being run - and then
\* at most once more for each: whatever deadlines, failed sends, reclaims, rebinds and
\* automatic recoveries do in between.
THEOREM AlternatesOnce == Spec => []AlternatesAreSentOnce
<1> DEFINE IInv == Types /\ RequeuesCounted /\ ErasOK /\ BillsPaid
<1>1. Init => RequeuesCounted /\ ErasOK /\ BillsPaid
  BY DEF Init, RequeuesCounted, ErasOK, BillsPaid, JobId, Token, Requester
<1>2. IInv /\ [Next]_vars => RequeuesCounted' /\ ErasOK' /\ BillsPaid'
  BY CountedStep, ErasStep, BillsStep
<1>3. IInv => AlternatesAreSentOnce
  <2> SUFFICES ASSUME IInv, NEW e \in 1..starts, NEW i \in 1..NAlt
               PROVE  Cardinality(Copies(e, i)) <= Budget
    BY DEF AlternatesAreSentOnce, Copies, Budget
  <2>1. Bill(e, i) <= Budget /\ Budget \in Nat
    <3>1. disturbed["retry"] \in Nat /\ disturbed["crash"] \in Nat /\ overlaps \in Nat
      BY DEF Types, TypeOK, Kind
    <3> QED BY <3>1 DEF BillsPaid, Budget
  <2>2. /\ Cardinality(Copies(e, i)) \in Nat /\ Cardinality(Tickets(e, i)) \in Nat
        /\ RecoverDue(e) \in Nat /\ RetryDue \in Nat
    BY BothFinite, FS_CardinalityType DEF RecoverDue, RetryDue
  <2> QED BY <2>1, <2>2 DEF Bill
<1> QED BY <1>1, <1>2, <1>3, InitTypes, TypesStep, PTL DEF Spec
-----------------------------------------------------------------------------
(* No alternate after the cadence.                                         *)

NoRequeue == disturbed["retry"] = 0 /\ disturbed["recover"] = 0

\* A row that waits is the only row of its sequence, and no cadence has begun.
WaitersAlone ==
  \A r \in JobId : rows[r].wait # NoWait =>
    /\ \A o \in JobId : rows[o].era = rows[r].era => o = r
    /\ \A t \in Token : mail[t].kind = "cadence" => mail[t].era # rows[r].era

\* The row in hand waits while its alternate is sent, and no longer waits in a cadence.
ListsApart ==
  pc \in {"step", "check", "send", "guard", "rearm"} =>
    (run.kind = "alternate" <=> rows[cur].wait # NoWait)

OrderKept == NoRequeue => WaitersAlone /\ ListsApart /\ NoAlternateAfterCadence

LEMMA NoRequeueYet ==
  ASSUME Types, RequeuesCounted, [Next]_vars, NoRequeue'
  PROVE  NoRequeue /\ \A q \in Requester : ~RequeueWrite(q)
<1>1. \A k \in {"retry", "recover"} :
        disturbed'[k] >= disturbed[k] /\ disturbed[k] \in Nat /\ disturbed'[k] = 0
  BY TallyStep DEF Types, TypeOK, Kind, NoRequeue
<1>2. NoRequeue
  BY <1>1 DEF NoRequeue
<1> QED BY <1>2 DEF NoRequeue, RequeuesCounted, RequeueWrite, Requester

\* Without a re-queue no row begins to wait but the first of a sequence.
LEMMA NoNewWait ==
  ASSUME Types, ListsApart, [Next]_vars, \A q \in Requester : ~RequeueWrite(q),
         NEW r \in JobId, rows'[r].wait # NoWait
  PROVE  rows[r].wait # NoWait
<1>1. CASE Rearm /\ r = cur
  BY <1>1 DEF Rearm, ListsApart, Types, PlacesOK
<1> QED BY <1>1, WaitStep DEF SameRung

LEMMA WaitersStep ==
  ASSUME Types, ErasOK, WaitersAlone, ListsApart, [Next]_vars,
         \A q \in Requester : ~RequeueWrite(q)
  PROVE  WaitersAlone'
<1> USE DEF Types
<1>1. /\ starts \in Nat /\ \A r \in JobId : rows[r].era \in Nat /\ rows[r].era <= starts
      /\ \A t \in Token : mail[t].era \in Nat /\ mail[t].era <= starts
  <2>1. \A r \in JobId : rows[r].era \in Nat
    BY RowType DEF TypeOK, RowsOK, Row
  <2>2. \A t \in Token : mail[t].era \in Nat
    <3>1. \A t \in Token : mail[t] \in Mail
      BY ElementOfSeq DEF TypeOK, Token
    <3> QED BY <3>1 DEF Mail
  <2> QED BY <2>1, <2>2 DEF ErasOK, TypeOK
<1>2. ASSUME NEW r \in JobId, rows'[r].wait # NoWait, NEW o \in JobId', rows'[o].era = rows'[r].era
      PROVE  o = r
  <2>1. rows[r].wait # NoWait /\ rows'[r].era = rows[r].era
    BY <1>2, NoNewWait, EraKept
  <2>2. CASE o \in JobId
    BY <1>2, <2>1, <2>2, EraKept DEF WaitersAlone
  <2>3. CASE o \notin JobId
    <3>1. CASE StartPark
      <4>1. o = Len(rows) + 1 /\ rows'[o].era = starts + 1
        BY <2>3, <3>1, StartParkRow, AddedJob
      <4> QED BY <1>1, <1>2, <2>1, <4>1
    <3>2. CASE Park
      <4>1. o = Len(rows) + 1 /\ rows'[o].era = rows[cur].era
        BY <2>3, <3>2, ParkRow, AddedJob
      <4>2. cur \in JobId /\ rows[cur].wait = NoWait
        BY <3>2 DEF Park, TypeOK, JobId, PlacesOK, ListsApart
      <4> QED BY <1>2, <2>1, <4>1, <4>2 DEF WaitersAlone
    <3> QED BY <2>3, <3>1, <3>2, RowsStep DEF RowsKept
  <2> QED BY <2>2, <2>3
<1>3. ASSUME NEW r \in JobId, rows'[r].wait # NoWait, NEW t \in Token', mail'[t].kind = "cadence"
      PROVE  mail'[t].era # rows'[r].era
  <2>1. rows[r].wait # NoWait /\ rows'[r].era = rows[r].era
    BY <1>3, NoNewWait, EraKept
  <2>2. CASE t \in Token
    BY <1>3, <2>1, <2>2, MailKept DEF WaitersAlone
  <2>3. CASE t \notin Token /\ SendEmail
    <3>1. mail'[t].kind = run.kind /\ mail'[t].era = rows[cur].era /\ cur \in JobId
      BY <2>3, MailSent
    <3>2. rows[cur].wait = NoWait
      BY <1>3, <2>3, <3>1 DEF SendEmail, ListsApart
    <3> QED BY <2>1, <3>1, <3>2 DEF WaitersAlone
  <2>4. CASE t \notin Token /\ Compose
    <3>1. mail'[t].kind = "outreach"
      BY <2>4, ComposedMail
    <3> QED BY <1>3, <3>1
  <2> QED BY <2>2, <2>3, <2>4, MailStep DEF Token
<1>4. ASSUME NEW r \in JobId', r \notin JobId, rows'[r].wait # NoWait
      PROVE  StartPark /\ r = Len(rows) + 1 /\ rows'[r].era = starts + 1 /\ UNCHANGED mail
  <2>1. ~Park
    BY <1>4, ParkRow, AddedJob
  <2>2. StartPark
    BY <1>4, <2>1, RowsStep DEF RowsKept
  <2> QED BY <1>4, <2>2, StartParkRow, AddedJob DEF StartPark
<1>5. ASSUME NEW r \in JobId', r \notin JobId, rows'[r].wait # NoWait
      PROVE  /\ \A o \in JobId' : rows'[o].era = rows'[r].era => o = r
             /\ \A t \in Token' : mail'[t].kind = "cadence" => mail'[t].era # rows'[r].era
  <2>1. StartPark /\ r = Len(rows) + 1 /\ rows'[r].era = starts + 1 /\ UNCHANGED mail
    BY <1>4, <1>5
  <2>2. JobId' = JobId \cup {r}
    BY <2>1, StartParkRow, AddedJob
  <2>3. \A o \in JobId : rows'[o].era # rows'[r].era
    BY <1>1, <2>1, EraKept
  <2>4. \A t \in Token' : mail'[t].era # rows'[r].era
    BY <1>1, <2>1 DEF Token
  <2> QED BY <2>2, <2>3, <2>4
<1> QED BY <1>2, <1>3, <1>5 DEF WaitersAlone

LEMMA ListsStep ==
  ASSUME Types, ListsApart, [Next]_vars, \A q \in Requester : ~RequeueWrite(q)
  PROVE  ListsApart'
<1> SUFFICES ASSUME pc' \in {"step", "check", "send", "guard", "rearm"}
             PROVE  run'.kind = "alternate" <=> rows'[cur'].wait # NoWait
  BY DEF ListsApart
<1> USE DEF Types
<1>1. CASE UNCHANGED <<pc, cur, run>>
  <2>1. cur \in JobId
    BY <1>1 DEF TypeOK, JobId
  <2>2. SameRung(cur)
    BY <1>1, <2>1, WaitStep DEF UnsetWait, Rearm
  <2> QED BY <1>1, <2>2 DEF ListsApart, SameRung
<1>2. CASE ResumeWait
  BY <1>2, WaitDecides DEF ResumeWait
<1>3. CASE SendEmail
  <2>1. run'.kind = run.kind /\ UNCHANGED <<rows, cur>> /\ pc = "send"
    BY <1>3 DEF SendEmail, TypeOK, Run
  <2> QED BY <2>1 DEF ListsApart
<1>4. CASE UNCHANGED run /\ UnsetWait
  BY <1>4, UnsetWaitRow DEF UnsetWait, PlacesOK
<1>5. CASE UNCHANGED run /\ (Step \/ (CheckEmail /\ ~Replied(cur) /\ ~Guarded))
  BY <1>5 DEF Step, CheckEmail, durable, ListsApart
<1>6. CASE ResumeDelay /\ ~Replied(cur)
  BY <1>6 DEF ResumeDelay
<1>7. CASE EmailBehind
  <2>1. PICK done \in Run :
          /\ AfterEmail(done) /\ done.kind = run.kind /\ done.at = run.at
          /\ pc \in {"check", "guard"} /\ UNCHANGED cur
          /\ (CheckEmail /\ Guarded /\ UNCHANGED rows) \/ WriteGuard
    BY <1>7 DEF EmailBehind
  <2>2. run'.kind = run.kind
    BY <2>1, AfterEmailTypes
  <2>3. rows'[cur].wait = rows[cur].wait
    BY <2>1, WriteGuardRow
  <2> QED BY <2>1, <2>2, <2>3 DEF ListsApart
<1>8. ASSUME NEW r \in JobId, Claim(r)
      PROVE  FALSE
  BY <1>8 DEF Claim
<1> QED BY <1>1, <1>2, <1>3, <1>4, <1>5, <1>6, <1>7, <1>8, RunStep
        DEF ReleaseRow, Poll, Park, Rearm

LEMMA OrderStep ==
  ASSUME Types, WaitersAlone, ListsApart, NoAlternateAfterCadence, [Next]_vars
  PROVE  NoAlternateAfterCadence'
<1> SUFFICES ASSUME NEW t \in Token', NEW u \in Token', mail'[t].kind = "cadence",
                    mail'[u].kind = "alternate", t < u
             PROVE  mail'[u].era # mail'[t].era
  BY DEF NoAlternateAfterCadence
<1>1. CASE t \in Token /\ u \in Token
  BY <1>1, MailKept DEF NoAlternateAfterCadence
<1>2. CASE SendEmail
  <2>1. /\ cur \in JobId /\ Len(mail) \in Nat /\ Token' = Token \cup {Len(mail) + 1}
        /\ mail'[Len(mail) + 1].kind = run.kind /\ mail'[Len(mail) + 1].era = rows[cur].era
    BY <1>2, MailSent
  <2>2. CASE u = Len(mail) + 1
    <3>1. t \in Token
      BY <2>1, <2>2
    <3>2. rows[cur].wait # NoWait
      BY <1>2, <2>1, <2>2 DEF SendEmail, ListsApart
    <3> QED BY <2>1, <2>2, <3>1, <3>2, MailKept DEF WaitersAlone, Types
  <2>3. CASE u \in Token
    <3>1. t \in Token
      BY <2>1, <2>3 DEF Token
    <3> QED BY <1>1, <2>3, <3>1
  <2> QED BY <2>1, <2>2, <2>3
<1>3. CASE Compose
  <2>1. /\ Token' = Token \cup {Len(mail) + 1}
        /\ mail'[Len(mail) + 1].kind = "outreach"
    BY <1>3, ComposedMail DEF Types
  <2> QED BY <1>1, <2>1
<1> QED BY <1>1, <1>2, <1>3, MailStep DEF Token

\* Until a user retries a sequence or maintenance recovers it, no alternate email follows
\* the cadence of its sequence: not through deadlines and opens that cross, rebinds to a
\* later mail, a new sequence beside the old, a stale reclaim or a crash.
THEOREM OnlyRequeuesReorder == Spec => []OnlyRequeuesGoBack
<1> DEFINE IInv == Types /\ RequeuesCounted /\ ErasOK /\ OrderKept
<1>1. Init => RequeuesCounted /\ ErasOK /\ OrderKept
  BY DEF Init, RequeuesCounted, ErasOK, OrderKept, WaitersAlone, ListsApart,
     NoAlternateAfterCadence, JobId, Token, Requester
<1>2. IInv /\ [Next]_vars => OrderKept'
  BY NoRequeueYet, WaitersStep, ListsStep, OrderStep DEF OrderKept
<1>3. IInv /\ [Next]_vars => RequeuesCounted' /\ ErasOK'
  BY CountedStep, ErasStep
<1>4. IInv => OnlyRequeuesGoBack
  BY DEF OrderKept, NoRequeue, OnlyRequeuesGoBack
<1> QED BY <1>1, <1>2, <1>3, <1>4, InitTypes, TypesStep, PTL DEF Spec
=============================================================================
