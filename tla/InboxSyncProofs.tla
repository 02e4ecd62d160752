--------------------------- MODULE InboxSyncProofs ---------------------------
(***************************************************************************)
(* Theorems about InboxSync for any messages, syncs, windows and faults.   *)
(***************************************************************************)
EXTENDS InboxSync, TLAPS, FiniteSetTheorems

USE DEF Goto

-----------------------------------------------------------------------------
(* Types.                                                                  *)

\* The server's uids in use are below the next one, and fit in Uid.
UidsFit ==
  /\ uidNext \in 1..(Cardinality(Message) + 1)
  /\ \A m \in inbox : uid[m] \in 1..(uidNext - 1)

LEMMA UidsAreNumbers ==
  /\ Cardinality(Message) \in Nat /\ Uid \subseteq Nat
  /\ \A S \in SUBSET Message :
       /\ Cardinality(S) \in Nat /\ Cardinality(S) <= Cardinality(Message)
<1>1. Cardinality(Message) \in Nat
  BY InboxAssumption, FS_CardinalityType
<1>2. \A S \in SUBSET Message :
        Cardinality(S) \in Nat /\ Cardinality(S) <= Cardinality(Message)
  BY InboxAssumption, FS_Subset, FS_CardinalityType
<1> QED BY <1>1, <1>2 DEF Uid

LEMMA InitType == Init => TypeOK /\ UidsFit
<1> SUFFICES ASSUME Init PROVE TypeOK /\ UidsFit
  OBVIOUS
<1>1. ServerOK /\ CrmOK
  BY DEF Init, ServerOK, CrmOK
<1>2. SyncersOK /\ HistoryOK
  BY DEF Init, SyncersOK, HistoryOK
<1>3. UidsFit
  BY UidsAreNumbers DEF Init, UidsFit
<1> QED BY <1>1, <1>2, <1>3, InboxAssumption DEF TypeOK, Init

LEMMA ServerType ==
  ASSUME TypeOK, UidsFit,
         (\E m \in Message : Arrive(m) \/ Vanish(m)) \/ ResetUids
  PROVE  TypeOK' /\ UidsFit'
<1>0. ServerOK /\ CrmOK /\ SyncersOK /\ HistoryOK
  BY DEF TypeOK
<1>1. ASSUME NEW m \in Message, Arrive(m)
      PROVE  ServerOK' /\ UidsFit' /\ kicked' \subseteq Listener
  BY <1>0, <1>1, UidsAreNumbers DEF Arrive, ServerOK, UidsFit, Uid
<1>2. ASSUME NEW m \in Message, Vanish(m)
      PROVE  ServerOK' /\ UidsFit' /\ kicked' \subseteq Listener
  BY <1>0, <1>2 DEF Vanish, ServerOK, SyncersOK, UidsFit
<1>3. ASSUME ResetUids PROVE ServerOK' /\ UidsFit' /\ kicked' \subseteq Listener
  <2>1. inbox \in SUBSET Message
    BY <1>0 DEF ServerOK
  <2>2. Cardinality(inbox) \in Nat /\ Cardinality(inbox) <= Cardinality(Message)
        /\ Cardinality(Message) \in Nat
    BY <2>1, UidsAreNumbers
  <2>3. PICK f \in [inbox -> 1..Cardinality(inbox)] :
          uid' = [m \in Message |-> IF m \in inbox THEN f[m] ELSE 0]
    BY <1>3 DEF ResetUids
  <2>4. uid' \in [Message -> Nat] /\ \A m \in inbox : uid'[m] \in 1..Cardinality(inbox)
    BY <2>1, <2>2, <2>3
  <2>5. uidNext' = Cardinality(inbox) + 1 /\ inbox' = inbox /\ arrived' = arrived
        /\ validity' \in Nat /\ kicked' = kicked
    BY <1>0, <1>3 DEF ResetUids, ServerOK
  <2> QED BY <1>0, <2>2, <2>4, <2>5 DEF ServerOK, SyncersOK, UidsFit
<1>4. /\ UNCHANGED <<rows, known, activities, local, remote, healthy, pc, session, todo, hand>>
      /\ UNCHANGED <<logged, dropped, failedOpen, races, overruns, crashes, errors>>
  BY DEF Arrive, Vanish, ResetUids, crm, lock, memory, history, costs, faults
<1>5. CrmOK' /\ HistoryOK'
  BY <1>0, <1>4 DEF CrmOK, HistoryOK
<1>6. kicked' \subseteq Listener => SyncersOK'
  BY <1>0, <1>4 DEF SyncersOK
<1>7. ServerOK' /\ UidsFit' /\ kicked' \subseteq Listener
  BY <1>1, <1>2, <1>3
<1> QED BY <1>4, <1>5, <1>6, <1>7 DEF TypeOK

LEMMA LockType ==
  ASSUME TypeOK, UidsFit,
         \/ \E s \in Syncer : AskLock(s) \/ Granted(s) \/ Refused(s) \/ FailOpen(s) \/ Unlock(s)
         \/ LocalExpires \/ RemoteExpires \/ RedisFlaps \/ Crash
  PROVE  TypeOK' /\ UidsFit'
<1>0. ServerOK /\ CrmOK /\ SyncersOK /\ HistoryOK /\ healthy \in BOOLEAN /\ failedOpen \in BOOLEAN
  BY DEF TypeOK
<1>1. UNCHANGED server /\ UNCHANGED <<rows, known, activities, logged, errors>>
  BY DEF AskLock, Granted, Refused, FailOpen, Unlock, LocalExpires, RemoteExpires, RedisFlaps,
         Crash, crm, history, faults
<1>2. ServerOK' /\ UidsFit'
  BY <1>0, <1>1 DEF ServerOK, UidsFit, server
<1>3. ASSUME NEW s \in Syncer, AskLock(s) \/ Granted(s) \/ Refused(s) \/ FailOpen(s) \/ Unlock(s)
      PROVE  SyncersOK' /\ HistoryOK' /\ local' \in Syncer \cup {NoOne}
             /\ remote' \in Syncer \cup {NoOne}
  <2>1. SyncersOK'
    BY <1>0, <1>3 DEF AskLock, Granted, Refused, FailOpen, Unlock, Enter, SyncersOK, Working, memory
  <2>2. HistoryOK'
    BY <1>0, <1>3 DEF AskLock, Granted, Refused, FailOpen, Unlock, Enter, HistoryOK, history, costs, faults
  <2>3. local' \in Syncer \cup {NoOne} /\ remote' \in Syncer \cup {NoOne}
    BY <1>0, <1>3 DEF AskLock, Granted, Refused, FailOpen, Unlock, Enter, CrmOK, lock, KeyIsFree
  <2> QED BY <2>1, <2>2, <2>3
<1>4. ASSUME LocalExpires \/ RemoteExpires \/ RedisFlaps
      PROVE  SyncersOK' /\ HistoryOK' /\ local' \in Syncer \cup {NoOne}
             /\ remote' \in Syncer \cup {NoOne}
  <2>1. SyncersOK'
    BY <1>0, <1>4 DEF LocalExpires, RemoteExpires, RedisFlaps, SyncersOK, memory
  <2>2. HistoryOK'
    BY <1>0, <1>4 DEF LocalExpires, RemoteExpires, RedisFlaps, HistoryOK, history, costs, faults
  <2>3. local' \in Syncer \cup {NoOne} /\ remote' \in Syncer \cup {NoOne}
    BY <1>0, <1>4 DEF LocalExpires, RemoteExpires, RedisFlaps, CrmOK
  <2> QED BY <2>1, <2>2, <2>3
<1>5. ASSUME Crash
      PROVE  SyncersOK' /\ HistoryOK' /\ local' \in Syncer \cup {NoOne}
             /\ remote' \in Syncer \cup {NoOne}
  <2>1. SyncersOK'
    BY <1>0, <1>5 DEF Crash, SyncersOK
  <2>2. HistoryOK'
    BY <1>0, <1>5 DEF Crash, HistoryOK, costs
  <2>3. local' \in Syncer \cup {NoOne} /\ remote' \in Syncer \cup {NoOne}
    BY <1>0, <1>5 DEF Crash, CrmOK
  <2> QED BY <2>1, <2>2, <2>3
<1>6. healthy' \in BOOLEAN /\ failedOpen' \in BOOLEAN
  BY <1>0, InboxAssumption DEF AskLock, Granted, Refused, FailOpen, Unlock, LocalExpires,
     RemoteExpires, RedisFlaps, Crash, lock, history, costs
<1>7. SyncersOK' /\ HistoryOK' /\ local' \in Syncer \cup {NoOne} /\ remote' \in Syncer \cup {NoOne}
  BY <1>3, <1>4, <1>5
<1>8. CrmOK'
  BY <1>0, <1>1, <1>7 DEF CrmOK
<1> QED BY <1>2, <1>6, <1>7, <1>8 DEF TypeOK

LEMMA WorkType ==
  ASSUME TypeOK, UidsFit, NEW s \in Syncer,
         \/ OpenMailbox(s) \/ ListNew(s) \/ Store(s) \/ LookUp(s) \/ LogActivity(s)
         \/ FinishSync(s) \/ SyncFails(s) \/ MessageFails(s)
  PROVE  TypeOK' /\ UidsFit'
<1>0. ServerOK /\ CrmOK /\ SyncersOK /\ HistoryOK /\ healthy \in BOOLEAN /\ failedOpen \in BOOLEAN
  BY DEF TypeOK
<1>1. UNCHANGED server /\ UNCHANGED <<remote, healthy, kicked, failedOpen, races, overruns, crashes>>
  BY DEF OpenMailbox, ListNew, Store, LookUp, LogActivity, FinishSync, SyncFails, MessageFails,
         Release, lock, history, costs, faults
<1>2. ServerOK' /\ UidsFit'
  BY <1>0, <1>1 DEF ServerOK, UidsFit, server
<1>3. Newest(Window[s]) \subseteq Nat
  BY <1>0 DEF Newest, ServerOK
<1>4. local' \in Syncer \cup {NoOne} /\ known' \in Nat
  BY <1>0 DEF OpenMailbox, ListNew, Store, LookUp, LogActivity, FinishSync, SyncFails,
     MessageFails, Release, AfterFailure, lock, crm, CrmOK, SyncersOK
<1>5. rows' \in [Uid -> Row \cup {NoMail}]
  BY <1>0 DEF OpenMailbox, ListNew, Store, LookUp, LogActivity, FinishSync, SyncFails,
     MessageFails, crm, CrmOK, SyncersOK, ServerOK, Row
<1>6. activities' \subseteq Mail
  BY <1>0 DEF OpenMailbox, ListNew, Store, LookUp, LogActivity, FinishSync, SyncFails,
     MessageFails, crm, CrmOK, SyncersOK
<1>7. HistoryOK'
  BY <1>0, <1>1 DEF OpenMailbox, ListNew, Store, LookUp, LogActivity, FinishSync, SyncFails,
     MessageFails, history, faults, HistoryOK, SyncersOK, Mail
<1>8. \A u \in Newest(Window[s]) : u \in Uid
  <2>1. \A m \in inbox : uid[m] \in Uid
    BY UidsAreNumbers DEF UidsFit, Uid
  <2>2. \A u \in Newest(Window[s]) : \E m \in inbox : u = uid[m]
    BY DEF Newest
  <2> QED BY <2>1, <2>2
<1>9. NoMail \notin Mail
  BY InboxAssumption
<1>10. ASSUME OpenMailbox(s) \/ LookUp(s) \/ LogActivity(s) PROVE SyncersOK'
  <2>1. ASSUME OpenMailbox(s) PROVE SyncersOK'
    BY <1>0, <2>1 DEF OpenMailbox, SyncersOK, ServerOK, Working
  <2>2. ASSUME LookUp(s) PROVE SyncersOK'
    <3>1. CASE AlreadyLogged(hand[s])
      BY <1>0, <1>9, <2>2, <3>1 DEF LookUp, SyncersOK, Working
    <3>2. CASE ~AlreadyLogged(hand[s])
      BY <1>0, <1>9, <2>2, <3>2 DEF LookUp, SyncersOK, Working
    <3> QED BY <3>1, <3>2
  <2>3. ASSUME LogActivity(s) PROVE SyncersOK'
    BY <1>0, <1>9, <2>3 DEF LogActivity, SyncersOK, Working
  <2> QED BY <1>10, <2>1, <2>2, <2>3
<1>11. ASSUME ListNew(s) PROVE SyncersOK'
  <2> DEFINE news == {u \in Newest(Window[s]) : rows[u] = NoMail}
  <2>1. news \in SUBSET Uid
    BY <1>8
  <2>2. /\ pc[s] = "list" /\ pc' = [pc EXCEPT ![s] = "fetch"]
        /\ todo' = [todo EXCEPT ![s] = news]
        /\ UNCHANGED <<session, hand, kicked>>
    BY <1>11 DEF ListNew
  <2> HIDE DEF news
  <2> QED BY <1>0, <2>1, <2>2 DEF SyncersOK, Working
<1>12. ASSUME Store(s) PROVE SyncersOK'
  <2>1. PICK u \in todo[s] :
          /\ todo' = [todo EXCEPT ![s] = @ \ {u}]
          /\ \/ UNCHANGED <<hand, pc>>
             \/ \E m \in inbox :
                  /\ hand' = [hand EXCEPT ![s] = [msg |-> m, uid |-> u]]
                  /\ Goto(s, "log")
    BY <1>12 DEF Store
  <2>2. u \in Uid /\ UNCHANGED <<session, kicked>> /\ pc[s] = "fetch"
    BY <1>0, <1>12 DEF Store, SyncersOK
  <2>3. ASSUME UNCHANGED <<hand, pc>> PROVE SyncersOK'
    BY <1>0, <2>1, <2>2, <2>3 DEF SyncersOK
  <2>4. ASSUME NEW m \in inbox, hand' = [hand EXCEPT ![s] = [msg |-> m, uid |-> u]], Goto(s, "log")
        PROVE  SyncersOK'
    <3>1. [msg |-> m, uid |-> u] \in Mail
      BY <1>0, <2>2 DEF Mail, ServerOK
    <3> QED BY <1>0, <1>9, <2>1, <2>2, <2>4, <3>1 DEF SyncersOK, Working
  <2> QED BY <2>1, <2>3, <2>4
<1>13. ASSUME FinishSync(s) \/ SyncFails(s) \/ MessageFails(s) PROVE SyncersOK'
  BY <1>0, <1>9, <1>13 DEF FinishSync, SyncFails, MessageFails, AfterFailure, Release,
     SyncersOK, Working
<1>14. SyncersOK'
  BY <1>10, <1>11, <1>12, <1>13
<1> QED BY <1>0, <1>1, <1>2, <1>4, <1>5, <1>6, <1>7, <1>14 DEF TypeOK, CrmOK

LEMMA TypeStep ==
  ASSUME TypeOK, UidsFit, [Next]_vars
  PROVE  TypeOK' /\ UidsFit'
<1>1. CASE UNCHANGED vars
  BY <1>1 DEF vars, server, crm, lock, memory, history, costs, faults, TypeOK, ServerOK,
     CrmOK, SyncersOK, HistoryOK, UidsFit
<1>2. CASE Next
  BY <1>2, ServerType, LockType, WorkType DEF Next, Proceed
<1> QED BY <1>1, <1>2

\* The variables keep their types, and a sync has a mail in hand exactly between
\* its row and its activity, for any messages, syncs, windows and faults.
THEOREM TypeCorrect == Spec => []TypeOK
<1>1. TypeOK /\ UidsFit /\ [Next]_vars => TypeOK' /\ UidsFit'
  BY TypeStep
<1> QED BY <1>1, InitType, PTL DEF Spec

-----------------------------------------------------------------------------
(* The lock and its holders.                                               *)

\* Inductive as it stands: whoever takes the lock is at work, and the steps by
\* which a sync stops working are the ones that clear the entry.
LEMMA LockStep ==
  ASSUME TypeOK, LockIsNotLeaked, [Next]_vars
  PROVE  LockIsNotLeaked'
<1>0. pc \in [Syncer -> Working \cup {"idle", "asking", "unlock"}]
  BY DEF TypeOK, SyncersOK
<1>1. ASSUME NEW s \in Syncer, AskLock(s) \/ Refused(s) \/ Unlock(s) PROVE LockIsNotLeaked'
  <2>1. pc[s] \notin Working /\ (UNCHANGED pc \/ \E l : Goto(s, l)) /\ UNCHANGED local
    BY <1>1 DEF AskLock, Refused, Unlock, Working, lock
  <2> QED BY <1>0, <2>1 DEF LockIsNotLeaked, Holders
<1>2. ASSUME NEW s \in Syncer, Granted(s) \/ FailOpen(s) PROVE LockIsNotLeaked'
  BY <1>0, <1>2 DEF Granted, FailOpen, Enter, LockIsNotLeaked, Holders, Working
<1>3. ASSUME NEW s \in Syncer,
             OpenMailbox(s) \/ ListNew(s) \/ Store(s) \/ LookUp(s) \/ LogActivity(s) \/ MessageFails(s)
      PROVE  LockIsNotLeaked'
  <2>1. (UNCHANGED pc \/ \E l \in Working : Goto(s, l)) /\ UNCHANGED local
    BY <1>3 DEF OpenMailbox, ListNew, Store, LookUp, LogActivity, MessageFails, Working, lock
  <2> QED BY <1>0, <2>1 DEF LockIsNotLeaked, Holders
<1>4. ASSUME NEW s \in Syncer, FinishSync(s) \/ SyncFails(s) PROVE LockIsNotLeaked'
  BY <1>4 DEF FinishSync, SyncFails, AfterFailure, Release, LockIsNotLeaked
<1>5. ASSUME LocalExpires \/ Crash PROVE LockIsNotLeaked'
  BY <1>5 DEF LocalExpires, Crash, LockIsNotLeaked
<1>6. ASSUME \/ \E m \in Message : Arrive(m) \/ Vanish(m)
             \/ ResetUids \/ RemoteExpires \/ RedisFlaps \/ UNCHANGED vars
      PROVE  LockIsNotLeaked'
  BY <1>6 DEF Arrive, Vanish, ResetUids, RemoteExpires, RedisFlaps, vars, lock, memory,
     LockIsNotLeaked, Holders
<1> QED BY <1>1, <1>2, <1>3, <1>4, <1>5, <1>6 DEF Next, Proceed

\* The entry of this process is set only while a sync is at work: no path out
\* of a sync, and no crash, leaves the lock behind in memory.
THEOREM LockNotLeaked == Spec => []LockIsNotLeaked
<1>1. Init => LockIsNotLeaked
  BY DEF Init, LockIsNotLeaked
<1> QED BY <1>1, LockStep, TypeCorrect, PTL DEF Spec

\* Until Redis fails or a sync outlasts its lock, the key in Redis is the one
\* of the sync at work, or of the sync about to delete it.
KeyFollows ==
  \/ failedOpen \/ overruns > 0
  \/ /\ races = 0
     /\ local # NoOne => remote = local
     /\ \A s \in Syncer : pc[s] = "unlock" => remote = s
     /\ Holders \subseteq {local}

LEMMA KeyStep ==
  ASSUME TypeOK, LockIsNotLeaked, KeyFollows, [Next]_vars
  PROVE  KeyFollows'
<1>0. /\ pc \in [Syncer -> Working \cup {"idle", "asking", "unlock"}]
      /\ races \in Nat /\ overruns \in Nat
      /\ local \in Syncer \cup {NoOne} /\ remote \in Syncer \cup {NoOne}
      /\ NoOne \notin Syncer
  BY InboxAssumption DEF TypeOK, SyncersOK, HistoryOK, CrmOK
<1>1. ASSUME failedOpen \/ overruns > 0 PROVE failedOpen' \/ overruns' > 0
  BY <1>0, <1>1 DEF Next, Proceed, Arrive, Vanish, ResetUids, AskLock, Granted, Refused, FailOpen,
     OpenMailbox, ListNew, Store, LookUp, LogActivity, FinishSync, SyncFails, MessageFails, Unlock,
     LocalExpires, RemoteExpires, RedisFlaps, Crash, vars, history, costs
<1>2. CASE failedOpen \/ overruns > 0
  BY <1>1, <1>2 DEF KeyFollows
<1> SUFFICES ASSUME /\ races = 0
                    /\ local # NoOne => remote = local
                    /\ \A s \in Syncer : pc[s] = "unlock" => remote = s
                    /\ Holders \subseteq {local}
             PROVE  KeyFollows'
  BY <1>2 DEF KeyFollows
<1>3. ASSUME NEW s \in Syncer, AskLock(s) \/ Refused(s) PROVE KeyFollows'
  <2>1. /\ pc[s] \in {"idle", "asking"}
        /\ UNCHANGED pc \/ Goto(s, "idle") \/ Goto(s, "asking")
        /\ UNCHANGED <<local, remote, races>>
    BY <1>3 DEF AskLock, Refused, lock, history, costs
  <2> QED BY <1>0, <2>1 DEF KeyFollows, Holders, Working
<1>4. ASSUME NEW s \in Syncer, Granted(s) PROVE KeyFollows'
  <2>1. remote = NoOne /\ local = NoOne
    BY <1>0, <1>4 DEF Granted, KeyIsFree
  <2>2. Holders = {} /\ \A t \in Syncer : pc[t] # "unlock"
    BY <1>0, <2>1 DEF Holders
  <2>3. races' = 0 /\ local' = s /\ remote' = s /\ Goto(s, "open")
    BY <1>4, <2>1 DEF Granted, Enter
  <2> QED BY <1>0, <2>2, <2>3 DEF KeyFollows, Holders, Working
<1>5. ASSUME NEW s \in Syncer, FailOpen(s) PROVE KeyFollows'
  BY <1>5 DEF FailOpen, KeyFollows
<1>6. ASSUME NEW s \in Syncer,
             OpenMailbox(s) \/ ListNew(s) \/ Store(s) \/ LookUp(s) \/ LogActivity(s) \/ MessageFails(s)
      PROVE  KeyFollows'
  <2>1. /\ pc[s] \in Working
        /\ UNCHANGED pc \/ \E l \in Working : Goto(s, l)
        /\ UNCHANGED <<local, remote, races>>
    BY <1>6 DEF OpenMailbox, ListNew, Store, LookUp, LogActivity, MessageFails, Working, lock,
       history, costs
  <2> QED BY <1>0, <2>1 DEF KeyFollows, Holders, Working
<1>7. ASSUME NEW s \in Syncer, FinishSync(s) \/ SyncFails(s) PROVE KeyFollows'
  <2>1. /\ pc[s] \in Working /\ Goto(s, "unlock")
        /\ local' = NoOne /\ UNCHANGED <<remote, races>>
    BY <1>7 DEF FinishSync, SyncFails, AfterFailure, Release, Working, history, costs
  <2>2. s = local
    BY <2>1 DEF Holders
  <2>3. remote = s /\ \A t \in Syncer : pc[t] = "unlock" => t = s
    BY <1>0, <2>2
  <2> QED BY <1>0, <2>1, <2>2, <2>3 DEF KeyFollows, Holders, Working
<1>8. ASSUME NEW s \in Syncer, Unlock(s) PROVE KeyFollows'
  <2>1. /\ pc[s] = "unlock" /\ Goto(s, "idle")
        /\ remote' \in {remote, NoOne} /\ UNCHANGED <<local, races>>
    BY <1>8 DEF Unlock, history, costs
  <2>2. remote = s /\ \A t \in Syncer : pc[t] = "unlock" => t = s
    BY <1>0, <2>1
  <2>3. local \in {NoOne, s}
    BY <2>2
  <2>4. local = NoOne
    BY <2>1, <2>3 DEF LockIsNotLeaked, Holders, Working
  <2> QED BY <1>0, <2>1, <2>2, <2>4 DEF KeyFollows, Holders, Working
<1>9. ASSUME LocalExpires \/ Crash PROVE KeyFollows'
  BY <1>0, <1>9 DEF LocalExpires, Crash, KeyFollows, Holders, Working, costs
<1>10. ASSUME RemoteExpires PROVE KeyFollows'
  <2>1. local = NoOne /\ remote \in Syncer
    BY <1>0, <1>10 DEF RemoteExpires, KeyExpires
  <2>2. CASE pc[remote] = "unlock"
    BY <1>0, <1>10, <2>2 DEF RemoteExpires, KeyFollows
  <2>3. CASE pc[remote] # "unlock"
    BY <1>0, <1>10, <2>1, <2>3 DEF RemoteExpires, KeyFollows, Holders, memory
  <2> QED BY <2>2, <2>3
<1>11. ASSUME \/ \E m \in Message : Arrive(m) \/ Vanish(m)
              \/ ResetUids \/ RedisFlaps \/ UNCHANGED vars
      PROVE  KeyFollows'
  BY <1>11 DEF Arrive, Vanish, ResetUids, RedisFlaps, vars, lock, memory, history, costs,
     KeyFollows, Holders
<1> QED BY <1>3, <1>4, <1>5, <1>6, <1>7, <1>8, <1>9, <1>10, <1>11 DEF Next, Proceed

\* Two syncs take the lock at once only after a Redis outage, or after a sync
\* outlasted its lock: while Redis answers and syncs are quick, they exclude
\* each other.
THEOREM RacesNeedOutages == Spec => []RaceNeedsOutage
<1>1. Init => KeyFollows
  BY DEF Init, KeyFollows, Holders, Working
<1>2. TypeOK /\ KeyFollows => RaceNeedsOutage
  BY DEF TypeOK, HistoryOK, KeyFollows, RaceNeedsOutage
<1> QED BY <1>1, <1>2, KeyStep, LockNotLeaked, TypeCorrect, PTL DEF Spec

-----------------------------------------------------------------------------
(* What each message costs.                                                *)

\* Every sync at work beyond the one whose entry is set was let in by a race
\* or has outlasted its lock.
HoldersPaid ==
  Cardinality(Holders) <= (IF local = NoOne THEN 0 ELSE 1) + races + overruns

\* An activity of a message, made or about to be made: the first is free.
AboutToLog(m) == {s \in Syncer : pc[s] = "insert" /\ hand[s].msg = m}

ActivityPaid ==
  \A m \in Message :
    /\ logged[m] > 0 => \E a \in activities : a.msg = m
    /\ logged[m] + Cardinality(AboutToLog(m)) <= 1 + races + overruns

\* Sets of syncs are finite, and counting them goes as usual.
LEMMA SyncersCount ==
  ASSUME NEW S \in SUBSET Syncer
  PROVE  /\ Cardinality(S) \in Nat
         /\ \A T \in SUBSET S : Cardinality(T) <= Cardinality(S)
         /\ \A s \in Syncer : Cardinality(S \cup {s}) <= Cardinality(S) + 1
         /\ \A s \in S : Cardinality(S \ {s}) = Cardinality(S) - 1
<1>1. IsFiniteSet(S)
  BY InboxAssumption, FS_Subset
<1> QED BY <1>1, FS_CardinalityType, FS_Subset, FS_AddElement, FS_RemoveElement

\* Both bills together, since the first copy of a message may be on its way to
\* the timeline in as many syncs as are at work.
Bills == TypeOK /\ HoldersPaid /\ ActivityPaid

LEMMA BillsStart == Init => HoldersPaid /\ ActivityPaid
<1> SUFFICES ASSUME Init PROVE HoldersPaid /\ ActivityPaid
  OBVIOUS
<1>1. Holders = {} /\ \A m \in Message : AboutToLog(m) = {}
  BY DEF Init, Holders, AboutToLog, Working
<1>2. Cardinality({}) = 0
  BY FS_EmptySet
<1> QED BY <1>1, <1>2 DEF Init, HoldersPaid, ActivityPaid

\* A step that only thins out the syncs at work and those about to log, and
\* leaves the lock alone, costs nothing.
LEMMA ThinningIsFree ==
  ASSUME Bills, Holders' \subseteq Holders,
         \A m \in Message : AboutToLog(m)' \subseteq AboutToLog(m),
         UNCHANGED <<local, races, logged, activities>>,
         overruns' \in Nat, overruns <= overruns'
  PROVE  HoldersPaid' /\ ActivityPaid'
<1>1. races \in Nat /\ overruns \in Nat /\ logged \in [Message -> Nat]
  BY DEF Bills, TypeOK, HistoryOK
<1>2. Cardinality(Holders) \in Nat /\ Cardinality(Holders') \in Nat
      /\ Cardinality(Holders') <= Cardinality(Holders)
  BY SyncersCount DEF Holders
<1>3. HoldersPaid'
  BY <1>1, <1>2 DEF Bills, HoldersPaid
<1>4. ASSUME NEW m \in Message
      PROVE  /\ Cardinality(AboutToLog(m)) \in Nat /\ Cardinality(AboutToLog(m)') \in Nat
             /\ Cardinality(AboutToLog(m)') <= Cardinality(AboutToLog(m))
  BY SyncersCount DEF AboutToLog
<1>5. ActivityPaid'
  BY <1>1, <1>4 DEF Bills, ActivityPaid
<1> QED BY <1>3, <1>5

\* The steps of a sync that do that.
Thins(s) ==
  \/ AskLock(s) \/ Refused(s) \/ Unlock(s) \/ OpenMailbox(s) \/ ListNew(s)
  \/ Store(s) \/ MessageFails(s)
  \/ LookUp(s) /\ AlreadyLogged(hand[s])

LEMMA ThinningSteps ==
  ASSUME Bills,
         \/ (\E m \in Message : Arrive(m) \/ Vanish(m)) \/ ResetUids
         \/ RemoteExpires \/ RedisFlaps \/ UNCHANGED vars
         \/ \E s \in Syncer : Thins(s)
  PROVE  HoldersPaid' /\ ActivityPaid'
<1>0. /\ pc \in [Syncer -> Working \cup {"idle", "asking", "unlock"}]
      /\ hand \in [Syncer -> Mail \cup {NoMail}] /\ overruns \in Nat
  BY DEF Bills, TypeOK, SyncersOK, HistoryOK
<1>1. UNCHANGED <<local, races, logged, activities>> /\ overruns' \in Nat /\ overruns <= overruns'
  BY <1>0 DEF Arrive, Vanish, ResetUids, RemoteExpires, RedisFlaps, AskLock, Refused, Unlock,
     OpenMailbox, ListNew, Store, MessageFails, LookUp, Thins, vars, lock, history, costs, crm
<1> DEFINE Moves(s) == /\ \/ pc[s] \in Working /\ \E l \in Working \ {"insert"} : Goto(s, l)
                          \/ pc[s] \notin Working /\ Goto(s, "idle")
                          \/ pc[s] \notin Working /\ Goto(s, "asking")
                       /\ \A t \in Syncer \ {s} : hand'[t] = hand[t]
<1>2. UNCHANGED <<pc, hand>> \/ \E s \in Syncer : Moves(s)
  <2>1. ASSUME NEW s \in Syncer, OpenMailbox(s) \/ ListNew(s) \/ Store(s) \/ MessageFails(s)
        PROVE  UNCHANGED <<pc, hand>> \/ Moves(s)
    BY <1>0, <2>1 DEF OpenMailbox, ListNew, Store, MessageFails, Working
  <2>2. ASSUME NEW s \in Syncer, LookUp(s), AlreadyLogged(hand[s]) PROVE Moves(s)
    BY <1>0, <2>2 DEF LookUp, Working
  <2>3. ASSUME NEW s \in Syncer, AskLock(s) \/ Refused(s) \/ Unlock(s)
        PROVE  UNCHANGED <<pc, hand>> \/ Moves(s)
    BY <1>0, <2>3 DEF AskLock, Refused, Unlock, Working, memory
  <2>4. ASSUME \/ (\E m \in Message : Arrive(m) \/ Vanish(m)) \/ ResetUids
               \/ RemoteExpires \/ RedisFlaps \/ UNCHANGED vars
        PROVE  UNCHANGED <<pc, hand>>
    BY <2>4 DEF Arrive, Vanish, ResetUids, RemoteExpires, RedisFlaps, vars, memory
  <2> HIDE DEF Moves
  <2> QED BY <2>1, <2>2, <2>3, <2>4 DEF Thins
<1>3. Holders' \subseteq Holders /\ \A m \in Message : AboutToLog(m)' \subseteq AboutToLog(m)
  <2>1. CASE UNCHANGED <<pc, hand>>
    BY <2>1 DEF Holders, AboutToLog
  <2>2. ASSUME NEW s \in Syncer, Moves(s)
        PROVE  Holders' \subseteq Holders /\ \A m \in Message : AboutToLog(m)' \subseteq AboutToLog(m)
    BY <1>0, <2>2 DEF Holders, AboutToLog, Working
  <2> QED BY <1>2, <2>1, <2>2
<1> QED BY <1>1, <1>3, ThinningIsFree

LEMMA LockSteps ==
  ASSUME Bills,
         \/ \E s \in Syncer : Granted(s) \/ FailOpen(s) \/ FinishSync(s) \/ SyncFails(s)
         \/ LocalExpires \/ Crash
  PROVE  HoldersPaid' /\ ActivityPaid'
<1>0. /\ pc \in [Syncer -> Working \cup {"idle", "asking", "unlock"}]
      /\ races \in Nat /\ overruns \in Nat /\ logged \in [Message -> Nat]
      /\ NoOne \notin Syncer
  BY InboxAssumption DEF Bills, TypeOK, SyncersOK, HistoryOK
<1>1. UNCHANGED <<logged, activities>>
  BY DEF Granted, FailOpen, FinishSync, SyncFails, LocalExpires, Crash, history, crm
<1>2. races' \in Nat /\ overruns' \in Nat /\ races <= races' /\ overruns <= overruns'
  BY <1>0 DEF Granted, FailOpen, Enter, FinishSync, SyncFails, LocalExpires, Crash, history, costs
<1>3. \A m \in Message : AboutToLog(m)' \subseteq AboutToLog(m)
  <2>1. ASSUME NEW s \in Syncer, Granted(s) \/ FailOpen(s) \/ FinishSync(s) \/ SyncFails(s)
        PROVE  UNCHANGED hand /\ (Goto(s, "open") \/ Goto(s, "unlock"))
    BY <2>1 DEF Granted, FailOpen, Enter, FinishSync, SyncFails, AfterFailure, Release
  <2>2. ASSUME LocalExpires PROVE UNCHANGED <<pc, hand>>
    BY <2>2 DEF LocalExpires, memory
  <2>3. ASSUME Crash PROVE \A s \in Syncer : pc'[s] = "idle"
    BY <2>3 DEF Crash
  <2> QED BY <1>0, <2>1, <2>2, <2>3 DEF AboutToLog
<1>4. ASSUME NEW m \in Message
      PROVE  /\ Cardinality(AboutToLog(m)) \in Nat /\ Cardinality(AboutToLog(m)') \in Nat
             /\ Cardinality(AboutToLog(m)') <= Cardinality(AboutToLog(m))
  <2>1. AboutToLog(m) \in SUBSET Syncer /\ AboutToLog(m)' \in SUBSET AboutToLog(m)
        /\ AboutToLog(m)' \in SUBSET Syncer
    BY <1>3 DEF AboutToLog
  <2> QED BY <2>1, SyncersCount
<1>5. ActivityPaid'
  BY <1>0, <1>1, <1>2, <1>4 DEF Bills, ActivityPaid
<1>6. Holders \in SUBSET Syncer /\ Cardinality(Holders) \in Nat /\ Cardinality(Holders') \in Nat
  BY SyncersCount DEF Holders
<1>7. ASSUME NEW s \in Syncer, Granted(s) \/ FailOpen(s) PROVE HoldersPaid'
  <2>1. Holders' = Holders \cup {s}
    BY <1>0, <1>7 DEF Granted, FailOpen, Enter, Holders, Working
  <2>2. Cardinality(Holders') <= Cardinality(Holders) + 1
    BY <1>6, <2>1, SyncersCount
  <2>3. /\ local' = s /\ UNCHANGED overruns
        /\ races' = IF local = NoOne THEN races ELSE races + 1
    BY <1>7 DEF Granted, FailOpen, Enter
  <2> QED BY <1>0, <1>6, <2>2, <2>3 DEF Bills, HoldersPaid
<1>8. ASSUME NEW s \in Syncer, FinishSync(s) \/ SyncFails(s) PROVE HoldersPaid'
  <2>1. s \in Holders /\ Holders' = Holders \ {s}
    BY <1>0, <1>8 DEF FinishSync, SyncFails, AfterFailure, Release, Holders, Working
  <2>2. Cardinality(Holders') = Cardinality(Holders) - 1
    BY <1>6, <2>1, SyncersCount
  <2>3. local' = NoOne /\ UNCHANGED <<overruns, races>>
    BY <1>8 DEF FinishSync, SyncFails, AfterFailure, Release, history, costs
  <2> QED BY <1>0, <1>6, <2>2, <2>3 DEF Bills, HoldersPaid
<1>9. ASSUME LocalExpires PROVE HoldersPaid'
  <2>1. Holders' = Holders /\ local # NoOne /\ local' = NoOne
        /\ overruns' = overruns + 1 /\ UNCHANGED races
    BY <1>9 DEF LocalExpires, Holders, memory
  <2> QED BY <1>0, <1>6, <2>1 DEF Bills, HoldersPaid
<1>10. ASSUME Crash PROVE HoldersPaid'
  <2>1. Holders' = {}
    BY <1>10 DEF Crash, Holders, Working
  <2>2. Cardinality(Holders') = 0
    BY <2>1, FS_EmptySet
  <2>3. local' = NoOne
    BY <1>10 DEF Crash
  <2>4. \A i, j \in Nat : 0 <= 0 + i + j
    OBVIOUS
  <2> QED BY <1>2, <2>2, <2>3, <2>4 DEF HoldersPaid
<1> QED BY <1>5, <1>7, <1>8, <1>9, <1>10

\* The first look-ups of a message find nothing; each belongs to a sync at work.
LEMMA LookUpStep ==
  ASSUME Bills, NEW s \in Syncer, LookUp(s), ~AlreadyLogged(hand[s])
  PROVE  HoldersPaid' /\ ActivityPaid'
<1>0. /\ pc \in [Syncer -> Working \cup {"idle", "asking", "unlock"}]
      /\ races \in Nat /\ overruns \in Nat /\ logged \in [Message -> Nat]
  BY DEF Bills, TypeOK, SyncersOK, HistoryOK
<1>1. /\ pc[s] = "log" /\ Goto(s, "insert")
      /\ UNCHANGED <<hand, local, races, overruns, logged, activities>>
  BY DEF LookUp, lock, history, costs, crm
<1>2. Holders' = Holders
  BY <1>0, <1>1 DEF Holders, Working
<1>3. HoldersPaid'
  BY <1>1, <1>2 DEF Bills, HoldersPaid
<1>4. ASSUME NEW m \in Message PROVE logged[m] + Cardinality(AboutToLog(m)') <= 1 + races + overruns
  <2>1. CASE hand[s].msg # m
    <3>1. AboutToLog(m)' = AboutToLog(m)
      BY <1>0, <1>1, <2>1 DEF AboutToLog
    <3> QED BY <3>1 DEF Bills, ActivityPaid
  <2>2. CASE hand[s].msg = m
    <3>1. logged[m] = 0
      BY <1>0, <2>2 DEF Bills, ActivityPaid, AlreadyLogged
    <3>2. Holders \in SUBSET Syncer /\ AboutToLog(m)' \in SUBSET Holders
          /\ AboutToLog(m)' \in SUBSET Syncer
      BY <1>2 DEF AboutToLog, Holders, Working
    <3>3. /\ Cardinality(AboutToLog(m)') \in Nat /\ Cardinality(Holders) \in Nat
          /\ Cardinality(AboutToLog(m)') <= Cardinality(Holders)
      BY <3>2, SyncersCount
    <3>4. Cardinality(Holders) <= 1 + races + overruns
      BY <1>0, <3>3 DEF Bills, HoldersPaid
    <3> QED BY <1>0, <3>1, <3>3, <3>4
  <2> QED BY <2>1, <2>2
<1>5. ActivityPaid'
  BY <1>1, <1>4 DEF Bills, ActivityPaid
<1> QED BY <1>3, <1>5

LEMMA LogActivityStep ==
  ASSUME Bills, NEW s \in Syncer, LogActivity(s)
  PROVE  HoldersPaid' /\ ActivityPaid'
<1>0. /\ pc \in [Syncer -> Working \cup {"idle", "asking", "unlock"}]
      /\ races \in Nat /\ overruns \in Nat /\ logged \in [Message -> Nat]
      /\ hand \in [Syncer -> Mail \cup {NoMail}]
      /\ \A t \in Syncer : hand[t] # NoMail <=> pc[t] \in {"log", "insert"}
  BY DEF Bills, TypeOK, SyncersOK, HistoryOK
<1>1. /\ pc[s] = "insert" /\ Goto(s, "fetch")
      /\ logged' = [logged EXCEPT ![hand[s].msg] = @ + 1]
      /\ activities' = activities \cup {hand[s]}
      /\ hand' = [hand EXCEPT ![s] = NoMail]
      /\ UNCHANGED <<local, races, overruns>>
  BY DEF LogActivity, lock, costs
<1>2. hand[s].msg \in Message
  BY <1>0, <1>1 DEF Mail
<1>3. Holders' = Holders
  BY <1>0, <1>1 DEF Holders, Working
<1>4. HoldersPaid'
  BY <1>1, <1>3 DEF Bills, HoldersPaid
<1>5. ASSUME NEW m \in Message
      PROVE  /\ logged'[m] > 0 => \E a \in activities' : a.msg = m
             /\ logged'[m] + Cardinality(AboutToLog(m)') <= 1 + races + overruns
  <2>1. CASE hand[s].msg # m
    <3>1. AboutToLog(m)' = AboutToLog(m) /\ logged'[m] = logged[m]
      BY <1>0, <1>1, <1>2, <2>1 DEF AboutToLog
    <3> QED BY <1>1, <3>1 DEF Bills, ActivityPaid
  <2>2. CASE hand[s].msg = m
    <3>1. s \in AboutToLog(m) /\ AboutToLog(m)' = AboutToLog(m) \ {s} /\ logged'[m] = logged[m] + 1
      BY <1>0, <1>1, <1>2, <2>2 DEF AboutToLog
    <3>2. Cardinality(AboutToLog(m)') = Cardinality(AboutToLog(m)) - 1
          /\ Cardinality(AboutToLog(m)) \in Nat
      BY <3>1, SyncersCount DEF AboutToLog
    <3>3. logged[m] + Cardinality(AboutToLog(m)) <= 1 + races + overruns
      BY DEF Bills, ActivityPaid
    <3>4. \E a \in activities' : a.msg = m
      BY <1>1, <2>2
    <3> QED BY <1>0, <3>1, <3>2, <3>3, <3>4
  <2> QED BY <2>1, <2>2
<1>6. ActivityPaid'
  BY <1>1, <1>5 DEF ActivityPaid
<1> QED BY <1>4, <1>6

\* One activity per message, for any syncs and messages: restarts, failures
\* and new numberings never cost a second one; each further one is paid for by
\* a lock that two syncs took at once or that one of them outlasted.
THEOREM ActivitiesPaid == Spec => []OneActivityPerMessage
<1>1. TypeOK /\ HoldersPaid /\ ActivityPaid /\ [Next]_vars => HoldersPaid' /\ ActivityPaid'
  <2> SUFFICES ASSUME Bills, [Next]_vars PROVE HoldersPaid' /\ ActivityPaid'
    BY DEF Bills
  <2>1. ASSUME NEW s \in Syncer, Thins(s) PROVE HoldersPaid' /\ ActivityPaid'
    BY <2>1, ThinningSteps
  <2>2. ASSUME NEW s \in Syncer, AskLock(s) \/ Proceed(s) \/ MessageFails(s)
        PROVE  HoldersPaid' /\ ActivityPaid'
    <3>1. CASE Granted(s) \/ FailOpen(s) \/ FinishSync(s) \/ SyncFails(s)
      BY <3>1, LockSteps
    <3>2. CASE LookUp(s) /\ ~AlreadyLogged(hand[s])
      BY <3>2, LookUpStep
    <3>3. CASE LogActivity(s)
      BY <3>3, LogActivityStep
    <3>4. CASE Thins(s)
      BY <2>1, <3>4
    <3> QED BY <2>2, <3>1, <3>2, <3>3, <3>4 DEF Proceed, Thins
  <2>3. ASSUME \/ (\E m \in Message : Arrive(m) \/ Vanish(m)) \/ ResetUids
               \/ RemoteExpires \/ RedisFlaps \/ UNCHANGED vars
        PROVE  HoldersPaid' /\ ActivityPaid'
    BY <2>3, ThinningSteps
  <2>4. ASSUME LocalExpires \/ Crash PROVE HoldersPaid' /\ ActivityPaid'
    BY <2>4, LockSteps
  <2> QED BY <2>2, <2>3, <2>4 DEF Next
<1>2. TypeOK /\ ActivityPaid => OneActivityPerMessage
  <2> SUFFICES ASSUME TypeOK, ActivityPaid, NEW m \in Message
               PROVE  logged[m] <= 1 + races + overruns
    BY DEF OneActivityPerMessage
  <2>1. Cardinality(AboutToLog(m)) \in Nat
    BY SyncersCount DEF AboutToLog
  <2>2. logged[m] \in Nat /\ races \in Nat /\ overruns \in Nat
    BY DEF TypeOK, HistoryOK
  <2> QED BY <2>1, <2>2 DEF ActivityPaid
<1> QED BY <1>1, <1>2, BillsStart, TypeCorrect, PTL DEF Spec

-----------------------------------------------------------------------------
(* What is missing from the timeline.                                      *)

\* Two messages of the folder never share a uid.
UidsDiffer == \A m, n \in inbox : uid[m] = uid[n] => m = n

\* No row is ever deleted, since no UIDVALIDITY is remembered; a row of the
\* present UIDVALIDITY is of the message that has its uid.
RowsAgree ==
  /\ known = 0
  /\ \A u \in Uid : rows[u] # NoMail =>
       /\ rows[u].validity <= validity
       /\ rows[u].validity = validity =>
            u < uidNext /\ \A m \in inbox : uid[m] = u => rows[u].msg = m

\* While the numbering is still the one a sync has listed, what it has yet to
\* store has no row, or one that another sync has stored meanwhile.
ListsAgree ==
  \A s \in Syncer :
    /\ session[s] <= validity
    /\ pc[s] \notin {"fetch", "log", "insert"} => todo[s] = {}
    /\ \A u \in todo[s] :
         session[s] = validity /\ rows[u] # NoMail => rows[u].validity = validity

\* An activity, or a mail in hand, is of the message whose row has its uid.
RowIsOf(mail) == rows[mail.uid] # NoMail /\ rows[mail.uid].msg = mail.msg

MailsAgree ==
  /\ \A a \in activities : RowIsOf(a) /\ logged[a.msg] > 0
  /\ \A s \in Syncer : hand[s] # NoMail => RowIsOf(hand[s])

Books == UidsDiffer /\ RowsAgree /\ ListsAgree /\ MailsAgree

LEMMA BooksStart == Init => Books /\ OnlyInterruptionDrops
<1> SUFFICES ASSUME Init PROVE Books /\ OnlyInterruptionDrops
  OBVIOUS
<1>1. UidsDiffer /\ RowsAgree
  BY DEF Init, UidsDiffer, RowsAgree
<1>2. ListsAgree /\ MailsAgree
  BY DEF Init, ListsAgree, MailsAgree
<1>3. OnlyInterruptionDrops
  BY DEF Init, OnlyInterruptionDrops, Stored
<1> QED BY <1>1, <1>2, <1>3 DEF Books

\* A new message takes a uid that no row of the numbering has; one that leaves
\* frees none; and a new numbering differs from that of every row.
LEMMA ServerKeepsBooks ==
  ASSUME TypeOK, UidsFit, Books, OnlyInterruptionDrops,
         (\E m \in Message : Arrive(m) \/ Vanish(m)) \/ ResetUids
  PROVE  Books' /\ OnlyInterruptionDrops'
<1>0. /\ inbox \subseteq arrived /\ arrived \subseteq Message /\ uid \in [Message -> Nat]
      /\ uidNext \in Nat /\ validity \in Nat
      /\ rows \in [Uid -> Row \cup {NoMail}] /\ session \in [Syncer -> Nat]
      /\ Uid \subseteq Nat /\ todo \in [Syncer -> SUBSET Uid]
  BY UidsAreNumbers DEF TypeOK, ServerOK, CrmOK, SyncersOK
<1>1. UNCHANGED <<rows, known, activities, pc, session, todo, hand, logged, dropped>>
  BY DEF Arrive, Vanish, ResetUids, crm, memory, history
<1>2. MailsAgree' /\ OnlyInterruptionDrops'
  BY <1>1 DEF Books, MailsAgree, RowIsOf, OnlyInterruptionDrops, Stored, InHand
<1>3. ASSUME NEW u \in Uid, rows[u] # NoMail
      PROVE  rows[u].validity \in Nat /\ rows[u].validity <= validity
  BY <1>0, <1>3 DEF Books, RowsAgree, Row
<1>4. ASSUME NEW m \in Message, Arrive(m) PROVE UidsDiffer' /\ RowsAgree' /\ ListsAgree'
  <2>1. /\ m \notin inbox /\ inbox' = inbox \cup {m}
        /\ uid' = [uid EXCEPT ![m] = uidNext] /\ uidNext' = uidNext + 1 /\ validity' = validity
    BY <1>0, <1>4 DEF Arrive
  <2>2. \A k \in inbox : uid'[k] = uid[k] /\ uid[k] < uidNext /\ uid[k] \in Nat
    BY <1>0, <2>1 DEF UidsFit
  <2>3. uid'[m] = uidNext
    BY <1>0, <2>1
  <2>4. UidsDiffer'
    BY <1>0, <2>1, <2>2, <2>3 DEF Books, UidsDiffer
  <2>5. RowsAgree'
    BY <1>0, <1>1, <1>3, <2>1, <2>2, <2>3 DEF Books, RowsAgree
  <2>6. ListsAgree'
    BY <1>1, <2>1 DEF Books, ListsAgree
  <2> QED BY <2>4, <2>5, <2>6
<1>5. ASSUME NEW m \in Message, Vanish(m) PROVE UidsDiffer' /\ RowsAgree' /\ ListsAgree'
  BY <1>1, <1>5 DEF Vanish, Books, UidsDiffer, RowsAgree, ListsAgree
<1>6. ASSUME ResetUids PROVE UidsDiffer' /\ RowsAgree' /\ ListsAgree'
  <2>1. PICK f \in [inbox -> 1..Cardinality(inbox)] :
          /\ \A m, n \in inbox : uid[m] < uid[n] => f[m] < f[n]
          /\ uid' = [m \in Message |-> IF m \in inbox THEN f[m] ELSE 0]
    BY <1>6 DEF ResetUids
  <2>2. validity' = validity + 1 /\ inbox' = inbox
    BY <1>6 DEF ResetUids
  <2>3. \A m \in inbox : uid'[m] = f[m]
    BY <1>0, <2>1
  <2>4. Cardinality(inbox) \in Nat
    BY <1>0, UidsAreNumbers
  <2>5. ASSUME NEW m \in inbox, NEW n \in inbox, f[m] = f[n] PROVE m = n
    <3>1. f[m] \in Nat /\ f[n] \in Nat /\ uid[m] \in Nat /\ uid[n] \in Nat
      BY <1>0, <2>1, <2>4
    <3>2. ~(uid[m] < uid[n]) /\ ~(uid[n] < uid[m])
      BY <2>1, <2>5, <3>1
    <3>3. uid[m] = uid[n]
      BY <3>1, <3>2
    <3> QED BY <3>3 DEF Books, UidsDiffer
  <2>6. UidsDiffer'
    BY <2>2, <2>3, <2>5 DEF UidsDiffer
  <2>7. RowsAgree'
    BY <1>0, <1>1, <1>3, <2>2 DEF Books, RowsAgree
  <2>8. ListsAgree'
    BY <1>0, <1>1, <2>2 DEF Books, ListsAgree
  <2> QED BY <2>6, <2>7, <2>8
<1> QED BY <1>2, <1>4, <1>5, <1>6 DEF Books

\* The lock plays no part.
LEMMA LockKeepsBooks ==
  ASSUME TypeOK, Books, OnlyInterruptionDrops,
         \/ \E s \in Syncer : AskLock(s) \/ Granted(s) \/ Refused(s) \/ FailOpen(s) \/ Unlock(s)
         \/ LocalExpires \/ RemoteExpires \/ RedisFlaps \/ UNCHANGED vars
  PROVE  Books' /\ OnlyInterruptionDrops'
<1>1. UNCHANGED <<inbox, uid, uidNext, validity, rows, known, activities, session, todo, hand,
                  logged, dropped>>
  BY DEF AskLock, Granted, Refused, FailOpen, Enter, Unlock, LocalExpires, RemoteExpires,
     RedisFlaps, vars, server, crm, memory, history
<1>2. \A s \in Syncer : pc[s] \notin {"fetch", "log", "insert"} <=> pc'[s] \notin {"fetch", "log", "insert"}
  <2>1. ASSUME NEW s \in Syncer, AskLock(s) \/ Granted(s) \/ Refused(s) \/ FailOpen(s) \/ Unlock(s)
        PROVE  /\ pc[s] \in {"idle", "asking", "unlock"}
               /\ UNCHANGED pc \/ \E l \in {"idle", "asking", "open"} : Goto(s, l)
    BY <2>1 DEF AskLock, Granted, Refused, FailOpen, Enter, Unlock
  <2>2. ASSUME LocalExpires \/ RemoteExpires \/ RedisFlaps \/ UNCHANGED vars
        PROVE  UNCHANGED pc
    BY <2>2 DEF LocalExpires, RemoteExpires, RedisFlaps, vars, memory
  <2> QED BY <2>1, <2>2 DEF TypeOK, SyncersOK
<1>3. UidsDiffer' /\ RowsAgree' /\ MailsAgree'
  BY <1>1 DEF Books, UidsDiffer, RowsAgree, MailsAgree, RowIsOf
<1>4. ListsAgree'
  BY <1>1, <1>2 DEF Books, ListsAgree
<1>5. OnlyInterruptionDrops'
  BY <1>1 DEF OnlyInterruptionDrops, Stored, InHand
<1> QED BY <1>3, <1>4, <1>5 DEF Books

LEMMA ListingKeepsBooks ==
  ASSUME TypeOK, UidsFit, Books, OnlyInterruptionDrops, NEW s \in Syncer,
         OpenMailbox(s) \/ ListNew(s) \/ FinishSync(s) \/ SyncFails(s)
  PROVE  Books' /\ OnlyInterruptionDrops'
<1>0. /\ pc \in [Syncer -> Working \cup {"idle", "asking", "unlock"}]
      /\ rows \in [Uid -> Row \cup {NoMail}] /\ session \in [Syncer -> Nat]
      /\ todo \in [Syncer -> SUBSET Uid] /\ validity \in Nat
  BY DEF TypeOK, ServerOK, CrmOK, SyncersOK
<1>1. rows' = rows
  <2>1. ASSUME OpenMailbox(s) PROVE rows' = rows
    BY <1>0, <2>1 DEF OpenMailbox, StaleRow, Books, RowsAgree
  <2> QED BY <2>1 DEF ListNew, FinishSync, SyncFails, crm
<1>2. UNCHANGED <<inbox, uid, uidNext, validity, activities, hand, logged, dropped>>
  BY DEF OpenMailbox, ListNew, FinishSync, SyncFails, server, crm, history
<1>3. known' = known
  BY DEF OpenMailbox, ListNew, FinishSync, SyncFails, crm, SyncStateField
<1>4. UidsDiffer' /\ RowsAgree' /\ MailsAgree' /\ OnlyInterruptionDrops'
  BY <1>1, <1>2, <1>3 DEF Books, UidsDiffer, RowsAgree, MailsAgree, RowIsOf,
     OnlyInterruptionDrops, Stored, InHand
<1>5. ASSUME OpenMailbox(s) PROVE ListsAgree'
  <2>1. /\ pc[s] = "open" /\ Goto(s, "list") /\ todo' = todo
        /\ session' = [session EXCEPT ![s] = validity]
    BY <1>5 DEF OpenMailbox
  <2>2. todo[s] = {}
    BY <2>1 DEF Books, ListsAgree
  <2> QED BY <1>0, <1>1, <1>2, <2>1, <2>2 DEF Books, ListsAgree
<1>6. ASSUME ListNew(s) PROVE ListsAgree'
  <2> DEFINE news == {u \in Newest(Window[s]) : rows[u] = NoMail}
  <2>1. /\ Goto(s, "fetch") /\ session' = session
        /\ todo' = [todo EXCEPT ![s] = news]
    BY <1>6 DEF ListNew
  <2>2. \A u \in news : rows[u] = NoMail
    OBVIOUS
  <2> HIDE DEF news
  <2> QED BY <1>0, <1>1, <1>2, <2>1, <2>2 DEF Books, ListsAgree
<1>7. ASSUME FinishSync(s) \/ SyncFails(s) PROVE ListsAgree'
  <2>1. /\ Goto(s, "unlock") /\ session' = [session EXCEPT ![s] = 0]
        /\ todo' = [todo EXCEPT ![s] = {}]
    BY <1>7 DEF FinishSync, SyncFails, AfterFailure, Release
  <2> QED BY <1>0, <1>1, <1>2, <2>1 DEF Books, ListsAgree
<1> QED BY <1>4, <1>5, <1>6, <1>7 DEF Books

\* A row that is stored again is stored for the same message.
LEMMA StoreKeepsBooks ==
  ASSUME TypeOK, UidsFit, Books, OnlyInterruptionDrops, NEW s \in Syncer, Store(s)
  PROVE  Books' /\ OnlyInterruptionDrops'
<1>0. /\ pc \in [Syncer -> Working \cup {"idle", "asking", "unlock"}]
      /\ rows \in [Uid -> Row \cup {NoMail}] /\ session \in [Syncer -> Nat]
      /\ hand \in [Syncer -> Mail \cup {NoMail}] /\ activities \subseteq Mail
      /\ todo \in [Syncer -> SUBSET Uid] /\ validity \in Nat
      /\ inbox \subseteq Message /\ NoMail \notin Row /\ uidNext \in Nat
  BY InboxAssumption DEF TypeOK, ServerOK, CrmOK, SyncersOK
<1>1. /\ UNCHANGED <<inbox, uid, uidNext, validity, known, activities, session, logged, dropped>>
      /\ pc[s] = "fetch" /\ session[s] = validity
  BY DEF Store, server, history
<1>2. hand[s] = NoMail
  BY <1>1 DEF TypeOK, SyncersOK
<1>3. PICK u \in todo[s] :
        /\ todo' = [todo EXCEPT ![s] = @ \ {u}]
        /\ \/ UNCHANGED <<rows, hand, pc>>
           \/ \E m \in inbox :
               /\ uid[m] = u
               /\ rows' = [rows EXCEPT ![u] = [msg |-> m, validity |-> validity]]
               /\ hand' = [hand EXCEPT ![s] = [msg |-> m, uid |-> u]]
               /\ Goto(s, "log")
  BY DEF Store
<1>4. CASE UNCHANGED <<rows, hand, pc>>
  <2>1. UidsDiffer' /\ RowsAgree' /\ MailsAgree' /\ OnlyInterruptionDrops'
    BY <1>1, <1>4 DEF Books, UidsDiffer, RowsAgree, MailsAgree, RowIsOf, OnlyInterruptionDrops,
       Stored, InHand
  <2>2. ListsAgree'
    BY <1>0, <1>1, <1>3, <1>4 DEF Books, ListsAgree
  <2> QED BY <2>1, <2>2 DEF Books
<1>5. ASSUME NEW m \in inbox, uid[m] = u,
             rows' = [rows EXCEPT ![u] = [msg |-> m, validity |-> validity]],
             hand' = [hand EXCEPT ![s] = [msg |-> m, uid |-> u]],
             Goto(s, "log")
      PROVE  Books' /\ OnlyInterruptionDrops'
  <2>1. u \in Uid /\ u < uidNext
    BY <1>0, <1>5 DEF UidsFit
  <2>2. rows[u] # NoMail => rows[u].msg = m
    BY <1>1, <1>5, <2>1 DEF Books, ListsAgree, RowsAgree
  <2>3. /\ rows'[u] # NoMail /\ rows'[u].msg = m /\ rows'[u].validity = validity
        /\ \A v \in Uid \ {u} : rows'[v] = rows[v]
    <3>1. [msg |-> m, validity |-> validity] \in Row
      BY <1>0 DEF Row
    <3> QED BY <1>0, <1>5, <2>1, <3>1
  <2>4. /\ hand'[s].msg = m /\ hand'[s].uid = u
        /\ \A t \in Syncer \ {s} : hand'[t] = hand[t]
    BY <1>0, <1>5
  <2>5. \A v \in Uid : rows[v] # NoMail => rows'[v] # NoMail /\ rows'[v].msg = rows[v].msg
    BY <2>2, <2>3
  <2>6. UidsDiffer'
    BY <1>1 DEF Books, UidsDiffer
  <2>7. \A k \in inbox : uid[k] = u => k = m
    BY <1>5 DEF Books, UidsDiffer
  <2>8. RowsAgree'
    BY <1>0, <1>1, <2>1, <2>3, <2>7 DEF Books, RowsAgree
  <2>9. ListsAgree'
    BY <1>0, <1>1, <1>3, <1>5, <2>1, <2>3 DEF Books, ListsAgree
  <2>10. MailsAgree'
    <3>1. \A mail \in Mail : RowIsOf(mail) => RowIsOf(mail)'
      BY <2>5 DEF RowIsOf, Mail
    <3>2. \A a \in activities' : RowIsOf(a)' /\ logged'[a.msg] > 0
      BY <1>0, <1>1, <3>1 DEF Books, MailsAgree
    <3>3. \A t \in Syncer \ {s} : hand'[t] # NoMail => RowIsOf(hand[t])'
      BY <1>0, <2>4, <2>5 DEF Books, MailsAgree, RowIsOf, Mail
    <3>4. RowIsOf(hand[s])'
      BY <2>3, <2>4 DEF RowIsOf
    <3> QED BY <3>2, <3>3, <3>4 DEF MailsAgree, RowIsOf
  <2>11. OnlyInterruptionDrops'
    <3>1. hand'[s] # NoMail
      BY <1>0, <1>5, <2>1, InboxAssumption DEF Mail
    <3>2. ASSUME NEW n \in Message, Stored(n)', logged'[n] = 0, ~InHand(n)' PROVE n \in dropped'
      <4>1. n # m
        BY <2>4, <3>1, <3>2 DEF InHand
      <4>2. Stored(n)
        BY <2>3, <3>2, <4>1 DEF Stored
      <4>3. ~InHand(n)
        BY <1>2, <2>4, <3>2 DEF InHand
      <4> QED BY <1>1, <3>2, <4>2, <4>3 DEF OnlyInterruptionDrops
    <3> QED BY <3>2 DEF OnlyInterruptionDrops
  <2> QED BY <2>6, <2>8, <2>9, <2>10, <2>11 DEF Books
<1> QED BY <1>3, <1>4, <1>5

\* A mail leaves the hand for the timeline, because its message is there
\* already (an activity with its uid is of the same row, so of the same
\* message), or because its sync is interrupted.
LEMMA LoggingKeepsBooks ==
  ASSUME TypeOK, Books, OnlyInterruptionDrops,
         \/ \E s \in Syncer : LookUp(s) \/ LogActivity(s) \/ MessageFails(s)
         \/ Crash
  PROVE  Books' /\ OnlyInterruptionDrops'
<1>0. /\ pc \in [Syncer -> Working \cup {"idle", "asking", "unlock"}]
      /\ hand \in [Syncer -> Mail \cup {NoMail}] /\ activities \subseteq Mail
      /\ todo \in [Syncer -> SUBSET Uid] /\ logged \in [Message -> Nat]
      /\ session \in [Syncer -> Nat] /\ validity \in Nat /\ NoMail \notin Mail
      /\ \A s \in Syncer : hand[s] # NoMail <=> pc[s] \in {"log", "insert"}
  BY InboxAssumption DEF TypeOK, ServerOK, CrmOK, SyncersOK, HistoryOK
<1>1. UNCHANGED <<inbox, uid, uidNext, validity, rows, known>>
  BY DEF LookUp, LogActivity, MessageFails, Crash, server, crm
<1>2. UidsDiffer' /\ RowsAgree' /\ \A m \in Message : Stored(m)' = Stored(m)
  BY <1>1 DEF Books, UidsDiffer, RowsAgree, Stored
<1>3. \A mail \in Mail : RowIsOf(mail)' = RowIsOf(mail)
  BY <1>1 DEF RowIsOf
<1>4. ASSUME NEW s \in Syncer, LookUp(s) PROVE Books' /\ OnlyInterruptionDrops'
  <2>1. /\ pc[s] = "log" /\ (Goto(s, "fetch") \/ Goto(s, "insert"))
        /\ UNCHANGED <<session, todo, activities, logged, dropped>>
    BY <1>4 DEF LookUp, history, crm
  <2>2. ListsAgree'
    BY <1>0, <1>1, <2>1 DEF Books, ListsAgree
  <2>3. \A t \in Syncer : hand'[t] # NoMail => hand'[t] = hand[t]
    BY <1>0, <1>4 DEF LookUp
  <2>4. MailsAgree'
    BY <1>0, <1>1, <2>1, <2>3 DEF Books, MailsAgree, RowIsOf
  <2>5. ASSUME NEW m \in Message, InHand(m), ~InHand(m)' PROVE logged[m] > 0
    <3>1. PICK t \in Syncer : hand[t] # NoMail /\ hand[t].msg = m
      BY <2>5 DEF InHand
    <3>2. t = s /\ AlreadyLogged(hand[s])
      BY <1>0, <1>4, <2>5, <3>1 DEF InHand, LookUp
    <3>3. PICK a \in activities : a.msg = hand[s].msg \/ a.uid = hand[s].uid
      BY <3>2 DEF AlreadyLogged
    <3>4. RowIsOf(a) /\ RowIsOf(hand[s]) /\ logged[a.msg] > 0
      BY <3>1, <3>2 DEF Books, MailsAgree
    <3>5. a.msg = m
      BY <3>1, <3>2, <3>3, <3>4 DEF RowIsOf
    <3> QED BY <3>4, <3>5
  <2>6. OnlyInterruptionDrops'
    BY <1>2, <2>1, <2>5 DEF OnlyInterruptionDrops
  <2> QED BY <1>2, <2>2, <2>4, <2>6 DEF Books
<1>5. ASSUME NEW s \in Syncer, LogActivity(s) PROVE Books' /\ OnlyInterruptionDrops'
  <2>1. /\ pc[s] = "insert" /\ Goto(s, "fetch")
        /\ activities' = activities \cup {hand[s]}
        /\ logged' = [logged EXCEPT ![hand[s].msg] = @ + 1]
        /\ hand' = [hand EXCEPT ![s] = NoMail]
        /\ UNCHANGED <<session, todo, dropped>>
    BY <1>5 DEF LogActivity
  <2>2. hand[s] \in Mail /\ hand[s] # NoMail /\ hand[s].msg \in Message
    BY <1>0, <2>1 DEF Mail
  <2>3. logged'[hand[s].msg] > 0 /\ \A m \in Message : logged'[m] >= logged[m] /\ logged'[m] \in Nat
    BY <1>0, <2>1, <2>2
  <2>4. ListsAgree'
    BY <1>0, <1>1, <2>1 DEF Books, ListsAgree
  <2>5. \A t \in Syncer : hand'[t] # NoMail => t # s /\ hand'[t] = hand[t]
    BY <1>0, <2>1
  <2>6. \A a \in activities : RowIsOf(a)' /\ logged'[a.msg] > 0
    BY <1>0, <1>3, <2>3 DEF Books, MailsAgree, Mail
  <2>7. RowIsOf(hand[s]) /\ \A t \in Syncer : hand[t] # NoMail => RowIsOf(hand[t])
    BY <2>2 DEF Books, MailsAgree
  <2>8. MailsAgree'
    BY <1>1, <2>1, <2>3, <2>5, <2>6, <2>7 DEF MailsAgree, RowIsOf
  <2>9. ASSUME NEW m \in Message, Stored(m), logged'[m] = 0, ~InHand(m)' PROVE m \in dropped
    <3>1. m # hand[s].msg /\ logged[m] = 0
      BY <1>0, <2>3, <2>9
    <3>2. ~InHand(m)
      BY <1>0, <2>1, <2>9, <3>1 DEF InHand
    <3> QED BY <2>9, <3>1, <3>2 DEF OnlyInterruptionDrops
  <2>10. OnlyInterruptionDrops'
    BY <1>2, <2>1, <2>9 DEF OnlyInterruptionDrops
  <2> QED BY <1>2, <2>4, <2>8, <2>10 DEF Books
<1>6. ASSUME NEW s \in Syncer, MessageFails(s) PROVE Books' /\ OnlyInterruptionDrops'
  <2>1. /\ pc[s] \in {"fetch", "log", "insert"} /\ (UNCHANGED pc \/ Goto(s, "fetch"))
        /\ UNCHANGED <<session, activities, logged>>
        /\ \A t \in Syncer : todo'[t] \subseteq todo[t]
        /\ \A t \in Syncer : hand'[t] # NoMail => hand'[t] = hand[t]
    BY <1>0, <1>6 DEF MessageFails, crm
  <2>2. ListsAgree'
    BY <1>0, <1>1, <2>1 DEF Books, ListsAgree
  <2>3. MailsAgree'
    BY <1>0, <1>1, <2>1 DEF Books, MailsAgree, RowIsOf
  <2>4. ASSUME NEW m \in Message, InHand(m), ~InHand(m)' PROVE m \in dropped'
    BY <1>0, <1>6, <2>4 DEF MessageFails, InHand
  <2>5. dropped \subseteq dropped'
    BY <1>6 DEF MessageFails
  <2>6. OnlyInterruptionDrops'
    BY <1>2, <2>1, <2>4, <2>5 DEF OnlyInterruptionDrops
  <2> QED BY <1>2, <2>2, <2>3, <2>6 DEF Books
<1>7. ASSUME Crash PROVE Books' /\ OnlyInterruptionDrops'
  <2>1. /\ \A s \in Syncer : session'[s] = 0 /\ todo'[s] = {} /\ hand'[s] = NoMail
        /\ dropped' = dropped \cup {m \in Message : InHand(m)}
        /\ UNCHANGED <<activities, logged>>
    BY <1>7 DEF Crash, crm
  <2>2. ListsAgree'
    BY <1>0, <1>1, <2>1 DEF ListsAgree
  <2>3. MailsAgree'
    BY <1>1, <2>1 DEF Books, MailsAgree, RowIsOf
  <2>4. OnlyInterruptionDrops'
    BY <1>2, <2>1 DEF OnlyInterruptionDrops
  <2> QED BY <1>2, <2>2, <2>3, <2>4 DEF Books
<1> QED BY <1>4, <1>5, <1>6, <1>7

\* A stored message misses from the timeline only if its own sync was cut off
\* between the row and the activity: no two messages are taken for one, for
\* any messages, numberings and overlapping syncs.
THEOREM InterruptionsDrop == Spec => []OnlyInterruptionDrops
<1>1. TypeOK /\ UidsFit /\ Books /\ OnlyInterruptionDrops /\ [Next]_vars
        => TypeOK' /\ UidsFit' /\ Books' /\ OnlyInterruptionDrops'
  <2> SUFFICES ASSUME TypeOK, UidsFit, Books, OnlyInterruptionDrops, [Next]_vars
               PROVE  TypeOK' /\ UidsFit' /\ Books' /\ OnlyInterruptionDrops'
    OBVIOUS
  <2>1. TypeOK' /\ UidsFit'
    BY TypeStep
  <2>2. ASSUME NEW s \in Syncer, AskLock(s) \/ Proceed(s) \/ MessageFails(s)
        PROVE  Books' /\ OnlyInterruptionDrops'
    <3>1. CASE AskLock(s) \/ Granted(s) \/ Refused(s) \/ FailOpen(s) \/ Unlock(s)
      BY <3>1, LockKeepsBooks
    <3>2. CASE OpenMailbox(s) \/ ListNew(s) \/ FinishSync(s) \/ SyncFails(s)
      BY <3>2, ListingKeepsBooks
    <3>3. CASE Store(s)
      BY <3>3, StoreKeepsBooks
    <3>4. CASE LookUp(s) \/ LogActivity(s) \/ MessageFails(s)
      BY <3>4, LoggingKeepsBooks
    <3> QED BY <2>2, <3>1, <3>2, <3>3, <3>4 DEF Proceed
  <2>3. CASE (\E m \in Message : Arrive(m) \/ Vanish(m)) \/ ResetUids
    BY <2>1, <2>3, ServerKeepsBooks
  <2>4. CASE LocalExpires \/ RemoteExpires \/ RedisFlaps \/ UNCHANGED vars
    BY <2>1, <2>4, LockKeepsBooks
  <2>5. CASE Crash
    BY <2>1, <2>5, LoggingKeepsBooks
  <2> QED BY <2>1, <2>2, <2>3, <2>4, <2>5 DEF Next
<1> QED BY <1>1, InitType, BooksStart, PTL DEF Spec


=============================================================================
