-------------------------- MODULE ReadThroughCache --------------------------
(***************************************************************************)
(* The read-through cache of the CRM lists and records                     *)
(* (src/api/src/redis: redis-cache.util.ts, app-cache.service.ts,          *)
(* optional-redis.service.ts, used by crm.service.ts).                     *)
(*                                                                         *)
(* A read that misses computes its answer from MongoDB and stores it under *)
(* a time to live without waiting for the store.  A write of a record      *)
(* deletes, prefix by prefix, the views that may show it.  Redis is        *)
(* optional: a command that fails clears a flag and every command is       *)
(* skipped while it is down.                                               *)
(*                                                                         *)
(* One entity is modelled; a view stands for the keys of one prefix and    *)
(* holds the number of writes its answer knows of.  healthy, reader and    *)
(* writer are memory of the API process.                                   *)
(***************************************************************************)
EXTENDS Naturals, FiniteSets

CONSTANTS
  NView,      \* prefixes, numbered in the order invalidateCrm deletes them
  Reader,     \* reads in progress together
  Writer,     \* writes in progress together
  NoEntry,    \* nothing under the key
  MaxWrite,   \* bound: writes
  MaxFault    \* bound: outages, timeouts, crashes and failed requests, together

ASSUME CacheAssumption ==
  /\ NView \in Nat \ {0} /\ MaxWrite \in Nat /\ MaxFault \in Nat

VARIABLES
  db,         \* writes MongoDB has seen
  \* Redis
  entry,      \* [View -> what is stored]
  up,         \* the server answers
  \* the API process
  conn,       \* the connection of the Redis client
  healthy,    \* the flag of OptionalRedisService
  reader,     \* [Reader -> a read that missed]
  writer,     \* [Writer -> a write and its invalidation]
  \* history
  spoiled,    \* views that lost a deletion or took a late answer since they were last in order
  faults

vars == <<db, entry, up, conn, healthy, reader, writer, spoiled, faults>>

View  == 1..NView
Entry == [ver : Nat, ttl : BOOLEAN]
NoRead  == [pc |-> "idle", view |-> 0, ver |-> 0]
NoWrite == [pc |-> "idle", view |-> 0, found |-> FALSE]

TypeOK ==
  /\ db \in 0..MaxWrite
  /\ entry \in [View -> Entry \cup {NoEntry}]
  /\ \A k \in View : entry[k] # NoEntry => entry[k].ver <= db
  /\ up \in BOOLEAN /\ healthy \in BOOLEAN
  /\ conn \in {"ready", "reconnecting", "ended"}
  /\ reader \in [Reader -> [pc : {"idle", "load", "store"}, view : 0..NView, ver : 0..db]]
  /\ writer \in [Writer -> [pc : {"idle", "scan", "del"}, view : 0..NView, found : BOOLEAN]]
  /\ \A r \in Reader : reader[r].pc = "idle" <=> reader[r].view = 0
  /\ \A w \in Writer : writer[w].pc = "idle" <=> writer[w].view = 0
  /\ spoiled \subseteq View

-----------------------------------------------------------------------------
(* Helpers. *)

Fault == faults < MaxFault /\ faults' = faults + 1

Available == healthy /\ conn = "ready"       \* isAvailable

\* How a command that is sent may end.
Answers  == up /\ conn = "ready" /\ UNCHANGED <<healthy, faults>>
Fails    == ~(up /\ conn = "ready") /\ healthy' = FALSE /\ UNCHANGED faults
TimesOut == up /\ conn = "ready" /\ Fault /\ healthy' = FALSE

Stale(k) == entry[k] # NoEntry /\ entry[k].ver < db

\* A write on its way will still delete what is under k.
Coming(k) ==
  \E w \in Writer : \/ writer[w].pc = "scan" /\ writer[w].view <= k
                    \/ writer[w].pc = "del" /\ writer[w].view < k
                    \/ writer[w].pc = "del" /\ writer[w].view = k /\ writer[w].found

\* A plausible slip: no time to live.
Stored_ForGood(v) == [ver |-> v, ttl |-> FALSE]

\* setJson stores with EX, a second or more.
Stored(v) == [ver |-> v, ttl |-> TRUE]

Init ==
  /\ db = 0 /\ entry = [k \in View |-> NoEntry]
  /\ up = TRUE /\ conn = "ready" /\ healthy = TRUE
  /\ reader = [r \in Reader |-> NoRead] /\ writer = [w \in Writer |-> NoWrite]
  /\ spoiled = {} /\ faults = 0

-----------------------------------------------------------------------------
(* redisGetOrSet. *)

\* A hit changes nothing.
Hit(r, k) ==
  /\ reader[r].pc = "idle" /\ Available /\ up /\ entry[k] # NoEntry
  /\ UNCHANGED vars

Miss(r, k) ==
  /\ reader[r].pc = "idle"
  /\ \/ ~Available /\ UNCHANGED <<healthy, faults>>
     \/ Available /\ Answers /\ entry[k] = NoEntry
     \/ Available /\ (Fails \/ TimesOut)
  /\ reader' = [reader EXCEPT ![r] = [pc |-> "load", view |-> k, ver |-> 0]]
  /\ UNCHANGED <<db, entry, up, conn, writer, spoiled>>

\* The factory reads MongoDB.
Load(r) ==
  /\ reader[r].pc = "load"
  /\ reader' = [reader EXCEPT ![r].pc = "store", ![r].ver = db]
  /\ UNCHANGED <<db, entry, up, conn, healthy, writer, spoiled, faults>>

Put(r) ==
  LET k == reader[r].view  v == reader[r].ver IN
  /\ entry' = [entry EXCEPT ![k] = Stored(v)]
  /\ spoiled' = IF v < db THEN spoiled \cup {k} ELSE spoiled \ {k}

\* A plausible slip: the finished read keeps its key.
Store_KeepsKey(r) ==
  /\ reader[r].pc = "store"
  /\ \/ ~Available /\ UNCHANGED <<entry, spoiled, healthy, faults>>
     \/ Available /\ Answers /\ Put(r)
     \/ Available /\ (Fails \/ TimesOut) /\ UNCHANGED <<entry, spoiled>>
     \/ Available /\ TimesOut /\ Put(r)
  /\ reader' = [reader EXCEPT ![r].pc = "idle"]
  /\ UNCHANGED <<db, up, conn, writer>>

\* setJson, which nobody waits for: it may land late, be skipped, fail, or time out with
\* or without effect.
Store(r) ==
  /\ reader[r].pc = "store"
  /\ \/ ~Available /\ UNCHANGED <<entry, spoiled, healthy, faults>>
     \/ Available /\ Answers /\ Put(r)
     \/ Available /\ (Fails \/ TimesOut) /\ UNCHANGED <<entry, spoiled>>
     \/ Available /\ TimesOut /\ Put(r)
  /\ reader' = [reader EXCEPT ![r] = NoRead]
  /\ UNCHANGED <<db, up, conn, writer>>

-----------------------------------------------------------------------------
(* Writes. *)

\* A write of crm.service.ts; the invalidation follows, awaited by the request.
Write(w) ==
  /\ writer[w].pc = "idle" /\ db < MaxWrite
  /\ db' = db + 1
  /\ writer' = [writer EXCEPT ![w] = [pc |-> "scan", view |-> 1, found |-> FALSE]]
  /\ UNCHANGED <<entry, up, conn, healthy, reader, spoiled, faults>>

\* A write of a component that does not know the cache (the IVR, for one).
BareWrite ==
  /\ db < MaxWrite
  /\ db' = db + 1
  /\ spoiled' = View
  /\ UNCHANGED <<entry, up, conn, healthy, reader, writer, faults>>

\* The request fails after its write: what follows the update throws before the
\* invalidation.
RequestFails(w) ==
  /\ writer[w].pc = "scan" /\ writer[w].view = 1 /\ Fault
  /\ writer' = [writer EXCEPT ![w] = NoWrite]
  /\ spoiled' = View
  /\ UNCHANGED <<db, entry, up, conn, healthy, reader>>

\* A plausible slip: the last prefix is forgotten.
NextPrefix_ButLast(w) ==
  writer' = [writer EXCEPT ![w] =
    IF @.view + 1 < NView THEN [pc |-> "scan", view |-> @.view + 1, found |-> FALSE] ELSE NoWrite]

\* invalidateCrm goes on with the next prefix, whatever became of this one.
NextPrefix(w) ==
  writer' = [writer EXCEPT ![w] =
    IF @.view < NView THEN [pc |-> "scan", view |-> @.view + 1, found |-> FALSE] ELSE NoWrite]

\* delByPrefix is skipped, scans for the keys, or fails and is given up.
Scan(w) ==
  LET k == writer[w].view IN
  /\ writer[w].pc = "scan"
  /\ \/ ~Available /\ spoiled' = spoiled \cup {k} /\ NextPrefix(w) /\ UNCHANGED <<healthy, faults>>
     \/ /\ Available /\ Answers /\ UNCHANGED spoiled
        /\ writer' = [writer EXCEPT ![w].pc = "del", ![w].found = (entry[k] # NoEntry)]
     \/ Available /\ (Fails \/ TimesOut) /\ spoiled' = spoiled \cup {k} /\ NextPrefix(w)
  /\ UNCHANGED <<db, entry, up, conn, reader>>

Drop(k) == entry' = [entry EXCEPT ![k] = NoEntry] /\ spoiled' = spoiled \ {k}

\* It deletes the keys it found.
Del(w) ==
  LET k == writer[w].view IN
  /\ writer[w].pc = "del"
  /\ \/ ~writer[w].found /\ UNCHANGED <<entry, spoiled, healthy, faults>>
     \/ writer[w].found /\ Answers /\ Drop(k)
     \/ writer[w].found /\ (Fails \/ TimesOut) /\ spoiled' = spoiled \cup {k} /\ UNCHANGED entry
     \/ writer[w].found /\ TimesOut /\ Drop(k)
  /\ NextPrefix(w)
  /\ UNCHANGED <<db, up, conn, reader>>

-----------------------------------------------------------------------------
(* Redis, its client and the process. *)

Expire(k) ==
  /\ entry[k] # NoEntry /\ entry[k].ttl
  /\ Drop(k)
  /\ UNCHANGED <<db, up, conn, healthy, reader, writer, faults>>

\* The server goes down, and comes back with or without its data.
GoDown ==
  /\ up /\ Fault /\ up' = FALSE
  /\ UNCHANGED <<db, entry, conn, healthy, reader, writer, spoiled>>

ComeBack ==
  /\ ~up /\ up' = TRUE
  /\ \/ UNCHANGED <<entry, spoiled>>
     \/ entry' = [k \in View |-> NoEntry] /\ spoiled' = {}
  /\ UNCHANGED <<db, conn, healthy, reader, writer, faults>>

\* The client sees the connection drop, connects again, or ends after its third attempt.
Disconnect ==
  /\ ~up /\ conn = "ready"
  /\ conn' = "reconnecting" /\ healthy' = FALSE
  /\ UNCHANGED <<db, entry, up, reader, writer, spoiled, faults>>

Reconnect ==
  /\ conn = "reconnecting"
  /\ \/ up /\ conn' = "ready" /\ healthy' = TRUE
     \/ ~up /\ conn' = "ended" /\ UNCHANGED healthy
  /\ UNCHANGED <<db, entry, up, reader, writer, spoiled, faults>>

\* probe(), asked by the operations page.
Probe ==
  /\ conn = "ready" /\ up /\ ~healthy
  /\ healthy' = TRUE
  /\ UNCHANGED <<db, entry, up, conn, reader, writer, spoiled, faults>>

\* The process dies and starts again; it does without Redis if that is down.
Crash ==
  /\ Fault
  /\ reader' = [r \in Reader |-> NoRead] /\ writer' = [w \in Writer |-> NoWrite]
  /\ spoiled' = spoiled \cup {k \in View : Coming(k)}
  /\ healthy' = up /\ conn' = IF up THEN "ready" ELSE "ended"
  /\ UNCHANGED <<db, entry, up>>

ReaderStep(r) == (\E k \in View : Hit(r, k) \/ Miss(r, k)) \/ Load(r) \/ Store(r)
WriterStep(w) == Write(w) \/ RequestFails(w) \/ Scan(w) \/ Del(w)

Next ==
  \/ \E r \in Reader : ReaderStep(r)
  \/ \E w \in Writer : WriterStep(w)
  \/ BareWrite
  \/ \E k \in View : Expire(k)
  \/ GoDown \/ ComeBack \/ Disconnect \/ Reconnect \/ Probe \/ Crash

Spec == Init /\ [][Next]_vars

\* Reads in progress end, and time passes.
FairSpec ==
  /\ Spec
  /\ \A r \in Reader : WF_vars(Load(r)) /\ WF_vars(Store(r))
  /\ \A k \in View : WF_vars(Expire(k))

-----------------------------------------------------------------------------
(* Safety. *)

\* A stored answer that misses a write is about to be deleted, or one of these happened
\* to it: the answer was computed before the write and landed after it, a deletion was
\* skipped, failed or cut off, or the write came from a component without invalidation.
StaleHasACause == \A k \in View : Stale(k) => k \in spoiled \/ Coming(k)

(* Liveness. *)

\* Whatever was late, skipped or lost, the cache is right again once the writes are over.
CacheConverges == <>[](\A k \in View : ~Stale(k))
=============================================================================
