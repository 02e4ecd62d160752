------------------------------ MODULE InboxSync ------------------------------
(***************************************************************************)
(* The mailbox sync of the CRM inbox (src/api/src/crm/inbox): several      *)
(* callers of syncInbox (the 30 s cron, IMAP IDLE listeners, pushes,       *)
(* users) serve one folder of one mailbox from one API process, behind a   *)
(* lock that is half a Map with expiry times, half a Redis key.            *)
(*                                                                         *)
(* A sync lists the newest messages, stores the ones that have no row yet, *)
(* and puts each stored message on the timeline of the record it came      *)
(* from, once, which is what stops the record's follow-up sequences.       *)
(* Rows are keyed by the message's IMAP uid, which the server may assign   *)
(* anew under another UIDVALIDITY.                                         *)
(***************************************************************************)
EXTENDS Naturals, FiniteSets

CONSTANTS
  Message,     \* the messages of the folder, all from one CRM record
  Poller,      \* syncs started by the cron
  Listener,    \* syncs started by an event of the mail server
  Window,      \* [Syncer -> how many of the newest messages a sync looks at]
  NoOne, NoMail,
  RedisConfigured,
  MaxOverruns, \* bound: syncs that outlast the lock's expiry
  MaxRaces,    \* bound: locks taken over a lock that is held
  MaxCrashes,  \* bound: crashes of the API process
  MaxErrors,   \* bound: failures of the mail server, MongoDB or a parser
  MaxResets    \* bound: changes of UIDVALIDITY

Syncer == Poller \cup Listener
Uid    == 1..Cardinality(Message)
Mail   == [msg : Message, uid : Uid]
Row    == [msg : Message, validity : Nat]

ASSUME InboxAssumption ==
  /\ IsFiniteSet(Message) /\ IsFiniteSet(Syncer)
  /\ Poller \cap Listener = {}
  /\ Window \in [Syncer -> Nat \ {0}]
  /\ NoOne \notin Syncer /\ NoMail \notin Mail \cup Row
  /\ RedisConfigured \in BOOLEAN
  /\ {MaxOverruns, MaxRaces, MaxCrashes, MaxErrors, MaxResets} \subseteq Nat

\* The declared fields of the account's syncState: the only ones a save keeps.
SyncStateField ==
  {"lastSyncAttemptAt", "lastSyncSuccessAt", "nextAllowedSyncAt", "consecutiveFailures",
   "consecutiveIdleSyncs", "lastSyncResultCount", "lastError", "lastErrorAt"}

VARIABLES
  inbox,      \* the messages in the folder on the mail server
  arrived,    \* those that ever arrived
  uid,        \* [Message -> its uid on the server]
  uidNext,    \* the server's next uid
  validity,   \* the server's UIDVALIDITY
  rows,       \* [Uid -> the InboxEmail row with that messageId]
  known,      \* syncState.imapUidValidity of the folder, 0 when not yet known
  activities, \* what is on the record's timeline: message and uid
  local,      \* localSyncLocks: whose entry is unexpired
  remote,     \* the Redis key: who set it
  healthy,    \* isAvailable() of the Redis client
  pc,         \* [Syncer -> place in the code]
  session,    \* [Syncer -> UIDVALIDITY of its open mailbox]
  todo,       \* [Syncer -> new uids it still has to store]
  hand,       \* [Syncer -> the mail it has stored and not yet logged]
  kicked,     \* listeners that the mail server has woken
  logged,     \* history: [Message -> activities made of it]
  dropped,    \* history: messages whose sync died between row and activity
  failedOpen, \* history: a lock was granted without asking Redis
  races, overruns, crashes, errors

server  == <<inbox, arrived, uid, uidNext, validity>>
crm     == <<rows, known, activities>>
lock    == <<local, remote, healthy>>
memory  == <<pc, session, todo, hand>>
costs   == <<failedOpen, races, overruns>>
faults  == <<crashes, errors>>
history == <<logged, dropped, costs, faults>>
vars    == <<server, crm, lock, memory, kicked, history>>

Working == {"open", "list", "fetch", "log", "insert"}

ServerOK ==
  /\ inbox \subseteq arrived /\ arrived \subseteq Message
  /\ uid \in [Message -> Nat] /\ uidNext \in Nat /\ validity \in Nat

CrmOK ==
  /\ rows \in [Uid -> Row \cup {NoMail}] /\ known \in Nat
  /\ activities \subseteq Mail
  /\ local \in Syncer \cup {NoOne} /\ remote \in Syncer \cup {NoOne}

SyncersOK ==
  /\ pc \in [Syncer -> Working \cup {"idle", "asking", "unlock"}]
  /\ session \in [Syncer -> Nat]
  /\ todo \in [Syncer -> SUBSET Uid]
  /\ hand \in [Syncer -> Mail \cup {NoMail}]
  /\ \A s \in Syncer : hand[s] # NoMail <=> pc[s] \in {"log", "insert"}
  /\ kicked \subseteq Listener

HistoryOK ==
  /\ logged \in [Message -> Nat] /\ dropped \subseteq Message
  /\ races \in Nat /\ overruns \in Nat /\ crashes \in Nat /\ errors \in Nat

\* Types, and that a sync has a mail in hand exactly between row and activity.
TypeOK == /\ ServerOK /\ CrmOK /\ SyncersOK /\ HistoryOK
          /\ healthy \in BOOLEAN /\ failedOpen \in BOOLEAN

Init ==
  /\ inbox = {} /\ arrived = {} /\ uid = [m \in Message |-> 0]
  /\ uidNext = 1 /\ validity = 1
  /\ rows = [u \in Uid |-> NoMail] /\ known = 0 /\ activities = {}
  /\ local = NoOne /\ remote = NoOne /\ healthy = RedisConfigured
  /\ pc = [s \in Syncer |-> "idle"] /\ session = [s \in Syncer |-> 0]
  /\ todo = [s \in Syncer |-> {}] /\ hand = [s \in Syncer |-> NoMail]
  /\ kicked = {}
  /\ logged = [m \in Message |-> 0] /\ dropped = {}
  /\ failedOpen = FALSE /\ races = 0 /\ overruns = 0 /\ crashes = 0 /\ errors = 0

Holders   == {s \in Syncer : pc[s] \in Working}
InHand(m) == \E s \in Syncer : hand[s] # NoMail /\ hand[s].msg = m
Stored(m) == \E u \in Uid : rows[u] # NoMail /\ rows[u].msg = m

Goto(s, l) == pc' = [pc EXCEPT ![s] = l]

-----------------------------------------------------------------------------
(* The mail server and its clients.                                        *)

\* A message comes in and wakes the listeners.
Arrive(m) ==
  /\ m \notin arrived /\ uidNext \in Uid
  /\ inbox' = inbox \cup {m} /\ arrived' = arrived \cup {m}
  /\ uid' = [uid EXCEPT ![m] = uidNext] /\ uidNext' = uidNext + 1
  /\ kicked' = Listener
  /\ UNCHANGED <<validity, crm, lock, memory, history>>

\* The user moves it away or deletes it, with any mail program.
Vanish(m) ==
  /\ m \in inbox /\ inbox' = inbox \ {m}
  /\ UNCHANGED <<arrived, uid, uidNext, validity, crm, lock, memory, kicked, history>>

\* The folder is rebuilt or migrated: new UIDVALIDITY, uids from 1 again.
ResetUids ==
  /\ validity <= MaxResets /\ validity' = validity + 1
  /\ uidNext' = Cardinality(inbox) + 1
  /\ \E f \in [inbox -> 1..Cardinality(inbox)] :
       /\ \A m, n \in inbox : uid[m] < uid[n] => f[m] < f[n]
       /\ uid' = [m \in Message |-> IF m \in inbox THEN f[m] ELSE 0]
  /\ UNCHANGED <<inbox, arrived, crm, lock, memory, kicked, history>>

-----------------------------------------------------------------------------
(* The lock.                                                               *)

\* acquireAccountSyncLock begins: a cron tick, or a listener that was woken.
\* The unexpired entry of this process is looked up first; while it is there,
\* or within minSyncGapMs of its last sync, a listener's wake-up is lost ...
AskLock(s) ==
  /\ pc[s] = "idle"
  /\ s \in Poller \cup kicked
  /\ kicked' = kicked \ {s}
  /\ \/ local = NoOne /\ Goto(s, "asking")
     \/ s \in Listener /\ UNCHANGED pc
  /\ UNCHANGED <<server, crm, lock, session, todo, hand, history>>

\* ... and is set after Redis has answered, whoever has set it meanwhile.
Enter(s) ==
  /\ races' = IF local = NoOne THEN races ELSE races + 1
  /\ races' <= MaxRaces
  /\ local' = s
  /\ Goto(s, "open")

\* A slip: SET without NX.
KeyIsFree_Overwrite == TRUE

KeyIsFree == remote = NoOne

\* tryAcquireLock: SET NX EX, granted, refused, or failed open: not available,
\* or the command failed, before or after it took effect.
Granted(s) ==
  /\ pc[s] = "asking" /\ healthy /\ KeyIsFree
  /\ remote' = s /\ Enter(s)
  /\ UNCHANGED <<server, crm, healthy, session, todo, hand, kicked, logged, dropped,
                 failedOpen, overruns, faults>>

Refused(s) ==
  /\ pc[s] = "asking" /\ healthy /\ ~KeyIsFree
  /\ Goto(s, "idle")
  /\ UNCHANGED <<server, crm, lock, session, todo, hand, kicked, history>>

FailOpen(s) ==
  /\ pc[s] = "asking"
  /\ \/ ~healthy /\ UNCHANGED remote
     \/ healthy /\ remote' \in {remote} \cup (IF KeyIsFree THEN {s} ELSE {})
  /\ healthy' = FALSE
  /\ failedOpen' = TRUE
  /\ Enter(s)
  /\ UNCHANGED <<server, crm, session, todo, hand, kicked, logged, dropped, overruns, faults>>

\* The first half of releaseAccountSyncLock, reached from finally.
Release(s) ==
  /\ local' = NoOne
  /\ Goto(s, "unlock")
  /\ session' = [session EXCEPT ![s] = 0]
  /\ todo' = [todo EXCEPT ![s] = {}]

\* The second half: DEL, which asks nobody whose key it is.
Unlock(s) ==
  /\ pc[s] = "unlock" /\ Goto(s, "idle")
  /\ \/ healthy /\ remote' = NoOne /\ UNCHANGED healthy
     \/ healthy /\ remote' \in {remote, NoOne} /\ healthy' = FALSE
     \/ ~healthy /\ UNCHANGED <<remote, healthy>>
  /\ UNCHANGED <<server, crm, local, session, todo, hand, kicked, history>>

\* The sync is still at work when its entry expires; ...
LocalExpires ==
  /\ local # NoOne /\ local' = NoOne
  /\ overruns < MaxOverruns /\ overruns' = overruns + 1
  /\ UNCHANGED <<server, crm, remote, healthy, memory, kicked, logged, dropped,
                 failedOpen, races, faults>>

\* A slip: SET without EX.
KeyExpires_Never == FALSE

KeyExpires == remote # NoOne /\ local # remote

\* ... the key, set later, expires after the entry of the one that set it, and
\* just before its release when that is on its way.
RemoteExpires ==
  /\ KeyExpires
  /\ remote' = NoOne
  /\ IF pc[remote] = "unlock"
       THEN overruns < MaxOverruns /\ overruns' = overruns + 1
       ELSE UNCHANGED overruns
  /\ UNCHANGED <<server, crm, local, healthy, memory, kicked, logged, dropped,
                 failedOpen, races, faults>>

\* An error event of the client; a ready event or a successful probe.
RedisFlaps ==
  /\ RedisConfigured /\ healthy' = ~healthy
  /\ UNCHANGED <<server, crm, local, remote, memory, kicked, history>>

-----------------------------------------------------------------------------
(* syncInboxUnlocked.                                                      *)

\* The rows handleImapUidValidityChange deletes.
StaleRow(row) == known \notin {0, validity} /\ row.validity = known

OpenMailbox(s) ==
  /\ pc[s] = "open"
  /\ session' = [session EXCEPT ![s] = validity]
  /\ rows' = [u \in Uid |->
       IF rows[u] # NoMail /\ StaleRow(rows[u]) THEN NoMail ELSE rows[u]]
  /\ Goto(s, "list")
  /\ UNCHANGED <<server, known, activities, lock, todo, hand, kicked, history>>

\* The newest messages: start:exists is a range of positions, not of uids.
Newest(n) ==
  {uid[m] : m \in {k \in inbox : Cardinality({j \in inbox : uid[j] > uid[k]}) < n}}

ListNew(s) ==
  /\ pc[s] = "list" /\ session[s] = validity
  /\ todo' = [todo EXCEPT ![s] = {u \in Newest(Window[s]) : rows[u] = NoMail}]
  /\ Goto(s, "fetch")
  /\ UNCHANGED <<server, crm, lock, session, hand, kicked, history>>

\* The next message of the fetch is stored by an upsert; one that has left the
\* folder is not in the answer.
Store(s) ==
  /\ pc[s] = "fetch" /\ session[s] = validity
  /\ \E u \in todo[s] :
       /\ \A v \in todo[s] : u <= v
       /\ todo' = [todo EXCEPT ![s] = @ \ {u}]
       /\ \/ /\ \A m \in inbox : uid[m] # u
             /\ UNCHANGED <<rows, hand, pc>>
          \/ \E m \in inbox :
               /\ uid[m] = u
               /\ rows' = [rows EXCEPT ![u] = [msg |-> m, validity |-> validity]]
               /\ hand' = [hand EXCEPT ![s] = [msg |-> m, uid |-> u]]
               /\ Goto(s, "log")
  /\ UNCHANGED <<server, known, activities, lock, session, kicked, history>>

\* A slip: the row of a message counts as its activity.
AlreadyLogged_ByRow(mail) == rows[mail.uid] # NoMail

\* The dedupe clauses of maybeLogInboundCrmActivity: the RFC Message-ID, or the
\* key made of account, folder and uid.
AlreadyLogged(mail) == \E a \in activities : a.msg = mail.msg \/ a.uid = mail.uid

\* A slip: the mail stays in hand when there is nothing to log.
LookUp_KeepsMail(s) ==
  /\ pc[s] = "log"
  /\ Goto(s, IF AlreadyLogged(hand[s]) THEN "fetch" ELSE "insert")
  /\ UNCHANGED <<server, crm, lock, session, todo, hand, kicked, history>>

LookUp(s) ==
  /\ pc[s] = "log"
  /\ IF AlreadyLogged(hand[s])
       THEN Goto(s, "fetch") /\ hand' = [hand EXCEPT ![s] = NoMail]
       ELSE Goto(s, "insert") /\ UNCHANGED hand
  /\ UNCHANGED <<server, crm, lock, session, todo, kicked, history>>

\* A slip: an insert whose answer is lost is tried again.
LogActivity_TriedAgain(s) ==
  /\ pc[s] = "insert"
  /\ activities' = activities \cup {hand[s]}
  /\ logged' = [logged EXCEPT ![hand[s].msg] = @ + 1]
  /\ \/ Goto(s, "fetch") /\ hand' = [hand EXCEPT ![s] = NoMail]
     \/ UNCHANGED <<pc, hand>>
  /\ UNCHANGED <<server, rows, known, lock, session, todo, kicked, dropped, costs, faults>>

LogActivity(s) ==
  /\ pc[s] = "insert" /\ Goto(s, "fetch")
  /\ activities' = activities \cup {hand[s]}
  /\ logged' = [logged EXCEPT ![hand[s].msg] = @ + 1]
  /\ hand' = [hand EXCEPT ![s] = NoMail]
  /\ UNCHANGED <<server, rows, known, lock, session, todo, kicked, dropped, costs, faults>>

\* The folder is through: account.save(), which drops a field of syncState that
\* the schema does not declare, and the finally block.
FinishSync(s) ==
  /\ pc[s] = "fetch" /\ todo[s] = {}
  /\ known' = IF "imapUidValidity" \in SyncStateField THEN session[s] ELSE known
  /\ Release(s)
  /\ UNCHANGED <<server, rows, activities, remote, healthy, hand, kicked, history>>

\* One message throws: a warning, and on to the next.
MessageFails(s) ==
  /\ errors < MaxErrors /\ errors' = errors + 1
  /\ \/ /\ pc[s] = "fetch"
        /\ \E u \in todo[s] : /\ \A v \in todo[s] : u <= v
                              /\ todo' = [todo EXCEPT ![s] = @ \ {u}]
        /\ UNCHANGED <<pc, hand, dropped>>
     \/ /\ pc[s] \in {"log", "insert"} /\ Goto(s, "fetch")
        /\ dropped' = dropped \cup {hand[s].msg}
        /\ hand' = [hand EXCEPT ![s] = NoMail]
        /\ UNCHANGED todo
  /\ UNCHANGED <<server, crm, lock, session, kicked, logged, costs, crashes>>

\* A slip: the lock is released only after a sync that went well.
AfterFailure_KeepsLock(s) ==
  /\ Goto(s, "unlock") /\ UNCHANGED local
  /\ session' = [session EXCEPT ![s] = 0]
  /\ todo' = [todo EXCEPT ![s] = {}]

AfterFailure(s) == Release(s)

\* The connection fails, or the server closes it on a change of UIDVALIDITY.
SyncFails(s) ==
  /\ \/ /\ pc[s] \in {"open", "list", "fetch"}
        /\ errors < MaxErrors /\ errors' = errors + 1
     \/ /\ pc[s] \in {"list", "fetch"} /\ session[s] # validity
        /\ UNCHANGED errors
  /\ AfterFailure(s)
  /\ UNCHANGED <<server, crm, remote, healthy, hand, kicked, logged, dropped, costs, crashes>>

\* The API process dies and is restarted; the Redis key stays.
Crash ==
  /\ crashes < MaxCrashes /\ crashes' = crashes + 1
  /\ pc' = [s \in Syncer |-> "idle"] /\ session' = [s \in Syncer |-> 0]
  /\ todo' = [s \in Syncer |-> {}] /\ hand' = [s \in Syncer |-> NoMail]
  /\ dropped' = dropped \cup {m \in Message : InHand(m)}
  /\ local' = NoOne /\ healthy' = RedisConfigured /\ kicked' = {}
  /\ UNCHANGED <<server, crm, remote, logged, costs, errors>>

-----------------------------------------------------------------------------
Proceed(s) ==
  \/ Granted(s) \/ Refused(s) \/ FailOpen(s) \/ OpenMailbox(s) \/ ListNew(s)
  \/ Store(s) \/ LookUp(s) \/ LogActivity(s) \/ FinishSync(s) \/ SyncFails(s)
  \/ Unlock(s)

Next ==
  \/ \E m \in Message : Arrive(m) \/ Vanish(m)
  \/ ResetUids
  \/ \E s \in Syncer : AskLock(s) \/ Proceed(s) \/ MessageFails(s)
  \/ LocalExpires \/ RemoteExpires \/ RedisFlaps
  \/ Crash

Spec == Init /\ [][Next]_vars

\* A sync that runs goes on, the cron comes back, and a key expires.
Fairness ==
  /\ \A s \in Syncer : WF_vars(Proceed(s))
  /\ \A s \in Poller : WF_vars(AskLock(s))
  /\ WF_vars(RemoteExpires)

FairSpec == Spec /\ Fairness

-----------------------------------------------------------------------------
(* Safety.                                                                 *)

\* A message gets one activity (and its sender's owner one alert), and one more
\* only for a lock that ran out under its sync or that two syncs took at once.
\* Restarts, failed syncs and new UIDVALIDITYs never cost a second one.
OneActivityPerMessage == \A m \in Message : logged[m] <= 1 + races + overruns

\* Two syncs take the lock at once only when Redis could not be asked, or
\* after a sync outlasted its lock and released another's.
RaceNeedsOutage == races > 0 => failedOpen \/ overruns > 0

\* The lock is held only while somebody works: no path out of a sync leaks it.
LockIsNotLeaked == local # NoOne => Holders # {}

\* A stored message misses from the timeline only if its sync was interrupted
\* between the two, never because another message was taken for it.
OnlyInterruptionDrops ==
  \A m \in Message : Stored(m) /\ logged[m] = 0 /\ ~InHand(m) => m \in dropped

(* Liveness.                                                               *)

\* A message that stays in the folder is stored in the end, through crashes
\* that leave the Redis key behind, failures and lost wake-ups.
EveryMessageIsStored ==
  \A m \in Message : m \in inbox ~> m \notin inbox \/ Stored(m)

(* What the repository says and the code does not do (see the findings).   *)

\* "When inbox sync pulls a message from a CRM-known address [...] append an
\* activity on the lead/contact/client timeline" (inbox-accounts.service.ts:2254).
StoredIsLogged ==
  \A m \in Message : Stored(m) => logged[m] > 0 \/ InHand(m)
=============================================================================
